-------------------------------- MODULE Holdings --------------------------------
(***************************************************************************)
(* pkg/controller/tokenstandard.go: listing a party's Amulet holdings by   *)
(* folding the ledger's update stream from its beginning, selecting inputs *)
(* for a transfer (CreateTransfer) and grouping holdings for a merge       *)
(* (MergeHoldingUtxos), while the ledger moves on and other goroutines     *)
(* spend the same holdings.                                                *)
(***************************************************************************)
EXTENDS Integers, Sequences, FiniteSets, FiniteSetsExt, SequencesExt

CONSTANTS
    Workers,        \* goroutines, each listing and then transferring or merging
    Amounts,        \* amounts of holdings and transfers, in the smallest unit
    Admin,          \* the instrumentAdmin callers pass: "party" or "dso"
    ListLimit,      \* CreateTransfer lists at most 100 holdings
    ChunkLimit,     \* transferInputUtxoLimit, 100 in the code
    MaxContracts, MaxUpdates    \* bounds: holdings ever created, updates

ASSUME LimitAssumption ==
    /\ ListLimit \in Nat \ {0} /\ ChunkLimit \in Nat \ {0}
    /\ MaxContracts \in Nat /\ MaxUpdates \in Nat
ASSUME AmountAssumption == Amounts \subseteq Nat \ {0}
ASSUME AdminAssumption == Admin \in {"party", "dso"}

VARIABLES
    updates,    \* the ledger: a sequence of transactions, each a sequence of events
    amountOf,   \* the amount of each holding created so far; its index is its id
    pc, job,    \* where each goroutine is, and "transfer", "merge" or "list"
    amount,     \* the transfer amount it was asked for
    pos,        \* updates it has folded
    seen,       \* activeContracts: the holdings it has found active
    chunks,     \* the input lists of the commands it built
    outcome,    \* how its last call ended
    from        \* the length of the ledger when its call began

locals == <<pc, job, amount, pos, seen, chunks, outcome, from>>
vars == <<updates, amountOf, pc, job, amount, pos, seen, chunks, outcome, from>>

Contracts == 1..MaxContracts
Created(id)  == [created |-> TRUE, id |-> id]
Archived(id) == [created |-> FALSE, id |-> id]
LedgerEvents == [created : BOOLEAN, id : Contracts]
TotalOf(ids) == MapThenSumSet(LAMBDA id : amountOf[id], ids)

\* The holdings active after the first k updates, by definition of the ledger.
ActiveAt(k) ==
    LET Happened(e) == \E i \in 1..k : Contains(updates[i], e)
    IN {id \in Contracts : Happened(Created(id)) /\ ~Happened(Archived(id))}

Active == ActiveAt(Len(updates))

Init ==
    /\ updates = <<>>
    /\ amountOf = <<>>
    /\ pc = [w \in Workers |-> "idle"]
    /\ job = [w \in Workers |-> "list"]
    /\ amount = [w \in Workers |-> 0]
    /\ pos = [w \in Workers |-> 0]
    /\ seen = [w \in Workers |-> {}]
    /\ chunks = [w \in Workers |-> <<>>]
    /\ outcome = [w \in Workers |-> "none"]
    /\ from = [w \in Workers |-> 0]

\* The call ends, and its locals with it.
Return(w, how) ==
    /\ pc' = [pc EXCEPT ![w] = "idle"]
    /\ outcome' = [outcome EXCEPT ![w] = how]
    /\ job' = [job EXCEPT ![w] = "list"]
    /\ amount' = [amount EXCEPT ![w] = 0]
    /\ pos' = [pos EXCEPT ![w] = 0]
    /\ seen' = [seen EXCEPT ![w] = {}]
    /\ chunks' = [chunks EXCEPT ![w] = <<>>]
    /\ from' = [from EXCEPT ![w] = 0]

\* ListHoldingUtxos, CreateTransfer without inputs or MergeHoldingUtxos is called.
Call(w, j, a) ==
    /\ pc[w] = "idle"
    /\ pc' = [pc EXCEPT ![w] = "listing"]
    /\ job' = [job EXCEPT ![w] = j]
    /\ amount' = [amount EXCEPT ![w] = a]
    /\ outcome' = [outcome EXCEPT ![w] = "none"]
    /\ from' = [from EXCEPT ![w] = Len(updates)]
    /\ UNCHANGED <<updates, amountOf, pos, seen, chunks>>

\* One event of an update: a created holding is added, an archived one deleted.
Apply(active, event) ==
    IF event.created THEN active \cup {event.id} ELSE active \ {event.id}

\* Mutant: a transaction's archivals are applied before its creations.
ArchiveFirst(w) ==
    /\ pc[w] = "listing"
    /\ pos[w] < Len(updates)
    /\ pos' = [pos EXCEPT ![w] = @ + 1]
    /\ LET events == ToSet(updates[pos[w] + 1])
           Ids(created) == {e.id : e \in {x \in events : x.created = created}}
       IN seen' = [seen EXCEPT ![w] = (@ \ Ids(FALSE)) \cup Ids(TRUE)]
    /\ UNCHANGED <<updates, amountOf, pc, job, amount, chunks, outcome, from>>

\* resp := <-stream: the next update is folded in, event by event.
ReadUpdate(w) ==
    /\ pc[w] = "listing"
    /\ pos[w] < Len(updates)
    /\ pos' = [pos EXCEPT ![w] = @ + 1]
    /\ seen' = [seen EXCEPT ![w] = FoldLeft(Apply, @, updates[pos[w] + 1])]
    /\ UNCHANGED <<updates, amountOf, pc, job, amount, chunks, outcome, from>>

\* Mutant: a listing waits for the stream to end, which an unbounded one never does.
StopAtStreamEnd(w) ==
    /\ pc[w] = "listing"
    /\ Len(updates) = MaxUpdates /\ pos[w] = MaxUpdates
    /\ Return(w, "listed")
    /\ UNCHANGED <<updates, amountOf>>

\* The 2 s timer, whatever updates are still to be read, or the stream's end makes
\* what was read so far the result.
StopListing(w) ==
    /\ pc[w] = "listing"
    /\ IF job[w] = "list"
       THEN Return(w, "listed")
       ELSE /\ pc' = [pc EXCEPT ![w] = "choose"]
            /\ UNCHANGED <<job, amount, pos, seen, chunks, outcome, from>>
    /\ UNCHANGED <<updates, amountOf>>

\* The AmuletRules contract or the mining round of a transfer is not found, the
\* package listing or the stream fails, or ctx is done.
ListingFails(w) ==
    /\ pc[w] = "listing"
    /\ Return(w, "error")
    /\ UNCHANGED <<updates, amountOf>>

\* The result slice: the map in some order, cut at the limit.
Listings(w, limit) ==
    {SubSeq(s, 1, IF Len(s) > limit THEN limit ELSE Len(s)) : s \in SetToSeqs(seen[w])}

\* Mutant: the total must exceed the amount.
TakenExceeding(list, wanted) ==
    LET stops == {n \in 1..Len(list) : TotalOf(ToSet(SubSeq(list, 1, n))) > wanted}
    IN IF stops = {} THEN <<>> ELSE SubSeq(list, 1, Min(stops))

\* The selection loop: holdings are taken in order until their total reaches the
\* amount.  ListHoldingUtxos gives every holding its party as instrument admin.
Taken(list, wanted) ==
    LET matching == IF Admin = "party" THEN list ELSE <<>>
        Enough(n) == TotalOf(ToSet(SubSeq(matching, 1, n))) >= wanted
        stops == {n \in 1..Len(matching) : Enough(n)}
    IN SubSeq(matching, 1, IF stops = {} THEN Len(matching) ELSE Min(stops))

\* CreateTransfer: the command, or "insufficient balance".
CreateTransfer(w) ==
    /\ pc[w] = "choose"
    /\ job[w] = "transfer"
    /\ \E list \in Listings(w, ListLimit) :
         LET inputs == Taken(list, amount[w]) IN
         IF TotalOf(ToSet(inputs)) < amount[w]
         THEN Return(w, "insufficient")
         ELSE /\ chunks' = [chunks EXCEPT ![w] = <<inputs>>]
              /\ pc' = [pc EXCEPT ![w] = "submit"]
              /\ UNCHANGED <<job, amount, pos, seen, outcome, from>>
    /\ UNCHANGED <<updates, amountOf>>

\* Mutant: the last holding of a full piece is left out.
PiecesShort(list) ==
    [i \in 1..((Len(list) + ChunkLimit - 1) \div ChunkLimit) |->
        SubSeq(list, (i - 1) * ChunkLimit + 1,
               IF i * ChunkLimit > Len(list) THEN Len(list) ELSE i * ChunkLimit - 1)]

\* Consecutive pieces of at most ChunkLimit holdings; all carry
\* one instrument.
Pieces(list) ==
    LET transfers == (Len(list) + ChunkLimit - 1) \div ChunkLimit
    IN [i \in 1..transfers |->
          SubSeq(list, (i - 1) * ChunkLimit + 1,
                 IF i * ChunkLimit > Len(list) THEN Len(list) ELSE i * ChunkLimit)]

\* The listed holdings become transfers to the party itself, unless CreateTransfer
\* fails for one of the pieces.
MergeHoldingUtxos(w, nodeLimit) ==
    /\ pc[w] = "choose"
    /\ job[w] = "merge"
    /\ \/ /\ \E list \in Listings(w, nodeLimit) :
                chunks' = [chunks EXCEPT ![w] = Pieces(list)]
          /\ pc' = [pc EXCEPT ![w] = "submit"]
          /\ UNCHANGED <<job, amount, pos, seen, outcome, from>>
       \/ Return(w, "error")
    /\ UNCHANGED <<updates, amountOf>>

Inputs(w) == UNION {ToSet(chunks[w][i]) : i \in 1..Len(chunks[w])}

\* The amount of the i-th command: the argument, or the total of the merged piece.
OutputOf(w, i) ==
    IF job[w] = "transfer" THEN amount[w] ELSE TotalOf(ToSet(chunks[w][i]))

\* What the ledger creates for the party: the change of a transfer, the output of
\* each merged piece.
Returned(w) ==
    IF job[w] = "transfer"
    THEN LET change == TotalOf(Inputs(w)) - amount[w] IN IF change > 0 THEN <<change>> ELSE <<>>
    ELSE [i \in 1..Len(chunks[w]) |-> OutputOf(w, i)]

\* The caller submits the commands as one transaction; the ledger (external) may
\* take it if all inputs are still active, and may always reject it.
Submit(w) ==
    LET new == Returned(w) IN
    /\ pc[w] = "submit"
    /\ \/ /\ Inputs(w) # {} /\ Inputs(w) \subseteq Active
          /\ Len(updates) < MaxUpdates
          /\ Len(amountOf) + Len(new) <= MaxContracts
          /\ updates' = Append(updates,
               [i \in 1..Len(new) |-> Created(Len(amountOf) + i)]
               \o [i \in 1..Cardinality(Inputs(w)) |-> Archived(SetToSeq(Inputs(w))[i])])
          /\ amountOf' = amountOf \o new
          /\ Return(w, "accepted")
       \/ Return(w, "rejected") /\ UNCHANGED <<updates, amountOf>>

\* Somebody pays the party: a holding appears, alone or replaced at once by another
\* in the same transaction.
Receive(a, replaced) ==
    LET id == Len(amountOf) + 1 IN
    /\ Len(updates) < MaxUpdates
    /\ id + (IF replaced THEN 1 ELSE 0) <= MaxContracts
    /\ updates' = Append(updates, IF replaced THEN <<Created(id), Archived(id), Created(id + 1)>>
                                  ELSE <<Created(id)>>)
    /\ amountOf' = amountOf \o (IF replaced THEN <<a, a>> ELSE <<a>>)
    /\ UNCHANGED locals

\* Another application of the party spends a holding.
SpendElsewhere(id) ==
    /\ id \in Active
    /\ Len(updates) < MaxUpdates
    /\ updates' = Append(updates, <<Archived(id)>>)
    /\ UNCHANGED <<amountOf, locals>>

Next ==
    \/ \E w \in Workers :
         \/ \E a \in Amounts : Call(w, "transfer", a)
         \/ Call(w, "merge", 0) \/ Call(w, "list", 0)
         \/ ReadUpdate(w) \/ StopListing(w) \/ ListingFails(w)
         \/ CreateTransfer(w) \/ MergeHoldingUtxos(w, MaxContracts) \/ Submit(w)
    \/ \E a \in Amounts, replaced \in BOOLEAN : Receive(a, replaced)
    \/ \E id \in Contracts : SpendElsewhere(id)

Spec == Init /\ [][Next]_vars

\* The timer fires and select does not pass it over for ever.
FairSpec == Spec /\ \A w \in Workers : WF_vars(StopListing(w))
-----------------------------------------------------------------------------
\* Every variable stays in its type, and no command is built without inputs.
HoldingsTypeOK ==
    /\ updates \in Seq(Seq(LedgerEvents))
    /\ amountOf \in Seq(Nat)
    /\ pc \in [Workers -> {"idle", "listing", "choose", "submit"}]
    /\ job \in [Workers -> {"list", "transfer", "merge"}]
    /\ amount \in [Workers -> Amounts \cup {0}]
    /\ pos \in [Workers -> 0..MaxUpdates]
    /\ seen \in [Workers -> SUBSET Contracts]
    /\ chunks \in [Workers -> Seq(Seq(Contracts) \ {<<>>})]
    /\ outcome \in [Workers -> {"none", "listed", "error", "insufficient", "accepted", "rejected"}]
    /\ from \in [Workers -> 0..MaxUpdates]

\* The ledger names only holdings it created, and archives none before it creates it,
\* in an earlier update or earlier in the same one.
LedgerInOrder ==
    /\ Len(updates) <= MaxUpdates /\ Len(amountOf) <= MaxContracts
    /\ \A i \in 1..Len(updates) : \A m \in 1..Len(updates[i]) :
          updates[i][m].id <= Len(amountOf)
    /\ \A i, j \in 1..Len(updates) : \A m \in 1..Len(updates[i]), n \in 1..Len(updates[j]) :
          /\ updates[i][m].id = updates[j][n].id
          /\ updates[i][m].created /\ ~updates[j][n].created
          => i < j \/ (i = j /\ m < n)

\* A call's locals: it reads updates there are, has a positive amount to transfer,
\* and no outcome before it ends.
CallsInOrder ==
    \A w \in Workers :
        /\ pos[w] <= Len(updates) /\ from[w] <= Len(updates)
        /\ IF pc[w] = "idle" THEN pos[w] = 0 ELSE outcome[w] = "none"
        /\ job[w] = "transfer" => amount[w] \in Amounts
        /\ pc[w] \in {"choose", "submit"} => job[w] # "list"

\* Folding created and archived events while the ledger moves yields exactly the
\* holdings active at one offset, never a mixture of two.
ListingsAreSnapshots == \A w \in Workers : seen[w] = ActiveAt(pos[w])

\* A listing is never a mixture of two states of the ledger: each goroutine's is what
\* was active after the updates it read, its call's locals and the ledger being in order.
HoldingsInv == HoldingsTypeOK /\ LedgerInOrder /\ CallsInOrder /\ ListingsAreSnapshots

\* A transfer about to be submitted has inputs that cover its amount and were all
\* active at one offset, and it would not be covered without the last of them.
SelectionCovers(w) ==
    /\ Inputs(w) \subseteq ActiveAt(pos[w])
    /\ TotalOf(Inputs(w)) >= amount[w]
    /\ TotalOf(ToSet(Front(chunks[w][1]))) < amount[w]

\* A merge about to be submitted spends every listed holding exactly once, in
\* commands of at most ChunkLimit inputs that together move the total listed.
MergeCovers(w) ==
    /\ Inputs(w) = seen[w]
    /\ \A i, j \in 1..Len(chunks[w]) :
          i # j => ToSet(chunks[w][i]) \cap ToSet(chunks[w][j]) = {}
    /\ \A i \in 1..Len(chunks[w]) : Len(chunks[w][i]) \in 1..ChunkLimit
    /\ LET moved == [i \in 1..Len(chunks[w]) |-> OutputOf(w, i)]
       IN TotalOf(seen[w]) = MapThenSumSet(LAMBDA i : moved[i], 1..Len(chunks[w]))

\* The inputs of every command about to be submitted cover what it moves.
InputsCover ==
    \A w \in Workers : pc[w] = "submit" =>
        /\ job[w] = "transfer" => SelectionCovers(w)
        /\ job[w] = "merge" => MergeCovers(w)

\* At some moment of the call the party's holdings do not cover the amount, or are
\* more than CreateTransfer lists.
FallsShort(w) ==
    \E k \in from[w]..Len(updates) :
        TotalOf(ActiveAt(k)) < amount[w] \/ Cardinality(ActiveAt(k)) > ListLimit

\* "insufficient balance" is the truth at some moment of the call, or the limit of
\* the listing hid the rest, when the party is the instrument admin and the timer did
\* not cut the listing off before the updates the call began with.
InsufficientIsTrue ==
    [][\A w \in Workers :
          /\ CreateTransfer(w) /\ outcome'[w] = "insufficient"
          /\ Admin = "party" /\ from[w] <= pos[w]
          => FallsShort(w)]_vars

\* A listing ends by its timer: it waits neither for the updates still to be read nor
\* for the end of a stream that has none.
ListingsEnd == \A w \in Workers : pc[w] = "listing" ~> pc[w] # "listing"
=============================================================================
