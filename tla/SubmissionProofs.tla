---------------------------- MODULE SubmissionProofs ----------------------------
(***************************************************************************)
(* Proofs about Submission for any clients, ids, parties and numbers of    *)
(* calls: where the completion of a call is on the ledger, which one the   *)
(* call reports, and that a patient client's timeout is the truth.         *)
(***************************************************************************)
EXTENDS Submission, TLAPS

Completions == [by : GeneratedIds, id : Ids \cup GeneratedIds, party : Parties, ok : BOOLEAN]
Results == [kind : {"none", "error", "submitted", "completed", "timeout"}, at : Nat]

Typed ==
    /\ partyID \in Parties
    /\ inflight \in SUBSET Submissions
    /\ ledger \in Seq(Completions)
    /\ pc \in [Clients -> {"idle", "ledgerEnd", "prepare", "execute", "answer",
                           "stream", "wait"}]
    /\ flow \in [Clients -> Flows]
    /\ given \in [Clients -> Ids \cup {Empty}]
    /\ calls \in [Clients -> 0..MaxCalls]
    /\ cmd \in [Clients -> Ids \cup GeneratedIds \cup {Empty}]
    /\ as \in [Clients -> Parties]
    /\ begin \in [Clients -> Nat]
    /\ watch \in [Clients -> Parties]
    /\ cursor \in [Clients -> Nat]
    /\ result \in [Clients -> Results]
    /\ moved \in [Clients -> BOOLEAN]
    /\ alone \in [Clients -> BOOLEAN]

\* A client whose command is prepared.
IsPrepared(c) ==
    \/ pc[c] \in {"execute", "answer", "stream", "wait"}
    \/ pc[c] = "ledgerEnd" /\ flow[c] = "externalSign"

\* A client in a call: which one it is, and which flow brings it to its position.
InCall ==
    \A c \in Clients :
        /\ pc[c] # "idle" => calls[c] >= 1 /\ given[c] \in Given /\ result[c] = NoResult
        /\ pc[c] = "ledgerEnd" => flow[c] \in {"signAndWait", "externalSign"}
        /\ pc[c] = "answer" => flow[c] = "submitAndWait"
        /\ pc[c] \in {"stream", "wait"} => flow[c] # "submitAndWait"
        /\ IsPrepared(c) => cmd[c] = CommandIDOrNew(c)

CallInv == Typed /\ InCall

Pending(c) == \E s \in inflight : s.by = <<c, calls[c]>>
Completed(c) == \E i \in 1..Len(ledger) : Mine(c, i)

\* Submissions and completions carry the number of a call that was made.
Numbered ==
    /\ \A s \in inflight : s.by[2] <= calls[s.by[1]]
    /\ \A i \in 1..Len(ledger) : ledger[i].by[2] <= calls[ledger[i].by[1]]

\* Before it executes, a call has neither.
NotYet ==
    \A c \in Clients :
        pc[c] \in {"ledgerEnd", "prepare", "execute"} => ~Pending(c) /\ ~Completed(c)

\* Where a stream begins and how far it was read.
Begun ==
    \A c \in Clients :
        /\ begin[c] <= Len(ledger)
        /\ pc[c] = "wait" => begin[c] <= cursor[c] /\ cursor[c] <= Len(ledger)

OwnAfterBegin ==
    \A c \in Clients :
        pc[c] \in {"stream", "wait"} => \A i \in 1..Len(ledger) : Mine(c, i) => i > begin[c]

Reported ==
    \A c \in Clients :
        result[c].kind = "completed" /\ flow[c] # "submitAndWait"
        => /\ begin[c] < result[c].at /\ result[c].at <= Len(ledger)
           /\ ledger[result[c].at].id = given[c]

OrderInv == CallInv /\ Numbered /\ NotYet /\ Begun /\ OwnAfterBegin /\ Reported

\* A call that has read the ledger end it will wait from.
HasBegun(c) ==
    \/ pc[c] \in {"stream", "wait"}
    \/ pc[c] = "execute" /\ flow[c] \in {"signAndWait", "externalSign"}
    \/ pc[c] = "prepare" /\ flow[c] = "signAndWait"

\* While it is alone with its id, what is or was under way with that id since is its own.
Undisturbed ==
    \A c \in Clients : HasBegun(c) /\ alone[c] =>
        /\ \A s \in inflight : s.id = given[c] => s.by = <<c, calls[c]>>
        /\ \A i \in 1..Len(ledger) :
             i > begin[c] /\ ledger[i].id = given[c] => ledger[i].by = <<c, calls[c]>>

ReportedOwn ==
    \A c \in Clients :
        result[c].kind = "completed" /\ flow[c] # "submitAndWait" /\ alone[c]
        => ledger[result[c].at].by = <<c, calls[c]>>

AloneInv == OrderInv /\ Undisturbed /\ ReportedOwn

\* What a call submits carries its id and its party.
Tagged ==
    \A c \in Clients :
        /\ \A s \in inflight : s.by = <<c, calls[c]>> => s.id = cmd[c] /\ s.party = as[c]
        /\ \A i \in 1..Len(ledger) :
             Mine(c, i) => ledger[i].id = cmd[c] /\ ledger[i].party = as[c]

\* A client whose party stays is prepared for the party of the controller and reads that
\* party's stream.
SameParty ==
    \A c \in Clients : ~moved[c] =>
        /\ IsPrepared(c) => as[c] = partyID
        /\ pc[c] = "wait" => watch[c] = partyID

\* It has not passed over its own completion.
Unpassed ==
    \A c \in Clients : pc[c] = "wait" /\ ~moved[c] =>
        \A i \in 1..Len(ledger) : Mine(c, i) => i > cursor[c]

\* After the timeout of a patient client nothing of its call is left or was completed.
Silent ==
    \A c \in Patient : result[c].kind = "timeout" /\ ~moved[c] => ~Pending(c) /\ ~Completed(c)

TimeoutInv == OrderInv /\ Tagged /\ SameParty /\ Unpassed /\ Silent

-----------------------------------------------------------------------------
\* What Append does to a ledger.
LEMMA Appending ==
    ASSUME NEW S, NEW q \in Seq(S), NEW e \in S
    PROVE  /\ Append(q, e) \in Seq(S)
           /\ Len(q) \in Nat /\ Len(Append(q, e)) = Len(q) + 1
           /\ \A i \in 1..Len(q) : Append(q, e)[i] = q[i]
           /\ Append(q, e)[Len(q) + 1] = e
OBVIOUS

\* Every generated id is one, and what a prepared client submits has the type.
LEMMA SubmissionTypes ==
    ASSUME CallInv, NEW c \in Clients
    PROVE  /\ pc[c] # "idle" => <<c, calls[c]>> \in GeneratedIds
           /\ pc[c] # "idle" => CommandIDOrNew(c) \in Ids \cup GeneratedIds
           /\ pc[c] = "execute" =>
                [by |-> <<c, calls[c]>>, id |-> cmd[c], party |-> as[c]] \in Submissions
<1>1. pc[c] # "idle" => calls[c] \in 1..MaxCalls
  BY MaxCallsAssumption DEF CallInv, Typed, InCall
<1>2. pc[c] # "idle" => <<c, calls[c]>> \in GeneratedIds
  BY <1>1 DEF GeneratedIds
<1>3. pc[c] # "idle" => CommandIDOrNew(c) \in Ids \cup GeneratedIds
  BY <1>2, GivenAssumption DEF CallInv, Typed, CommandIDOrNew
<1>4. pc[c] = "execute" => cmd[c] = CommandIDOrNew(c)
  BY DEF CallInv, InCall, IsPrepared
<1>5. QED BY <1>2, <1>3, <1>4 DEF CallInv, Typed, Submissions

\* Accept adds one submission at most, of this call.
LEMMA Accepting ==
    ASSUME NEW c \in Clients, Accept(c), NEW s \in inflight'
    PROVE  s \in inflight \/ (s.by = <<c, calls[c]>> /\ s.id = cmd[c] /\ s.party = as[c])
<1> DEFINE e == [by |-> <<c, calls[c]>>, id |-> cmd[c], party |-> as[c]]
<1>1. e.by = <<c, calls[c]>> /\ e.id = cmd[c] /\ e.party = as[c]
  OBVIOUS
<1>2. inflight' = inflight \cup {e}
  BY DEF Accept
<1> HIDE DEF e
<1>3. s \in inflight \/ s = e
  BY <1>2
<1>4. QED BY <1>1, <1>3

\* What the participant completes becomes a completion.
LEMMA CompletionTypes ==
    ASSUME NEW s \in Submissions, NEW ok \in BOOLEAN
    PROVE  [by |-> s.by, id |-> s.id, party |-> s.party, ok |-> ok] \in Completions
BY DEF Submissions, Completions

-----------------------------------------------------------------------------
\* Types, and the positions of the flows.
LEMMA CallInvInit == Init => CallInv
<1> SUFFICES ASSUME Init PROVE CallInv
  OBVIOUS
<1>1. <<>> \in Seq(Completions) /\ NoResult \in Results /\ 0 \in 0..MaxCalls
  BY MaxCallsAssumption DEF NoResult, Results
<1>2. Typed
  BY <1>1 DEF Init, Typed, Flows
<1>3. InCall
  BY DEF Init, InCall, IsPrepared
<1>4. QED BY <1>2, <1>3 DEF CallInv

\* A call that returns is idle, with a typed result.
LEMMA ReturnKeepsCalls ==
    ASSUME CallInv, NEW c \in Clients, NEW kind, NEW n \in Nat, Return(c, kind, n),
           kind \in {"error", "submitted", "completed", "timeout"},
           Typed', flow' = flow, given' = given, calls' = calls, cmd' = cmd
    PROVE  CallInv'
<1>1. /\ pc' = [pc EXCEPT ![c] = "idle"]
      /\ \A d \in Clients : d # c => result'[d] = result[d]
  BY DEF Return, GoTo, CallInv, Typed
<1>2. ASSUME NEW d \in Clients
      PROVE  /\ pc'[d] # "idle" => calls'[d] >= 1 /\ given'[d] \in Given /\ result'[d] = NoResult
             /\ pc'[d] = "ledgerEnd" => flow'[d] \in {"signAndWait", "externalSign"}
             /\ pc'[d] = "answer" => flow'[d] = "submitAndWait"
             /\ pc'[d] \in {"stream", "wait"} => flow'[d] # "submitAndWait"
             /\ IsPrepared(d)' => cmd'[d] = CommandIDOrNew(d)'
  <2>1. CASE d = c
    BY <1>1, <2>1 DEF CallInv, Typed, IsPrepared
  <2>2. CASE d # c
    BY <1>1, <2>2 DEF CallInv, Typed, InCall, IsPrepared, CommandIDOrNew
  <2>3. QED BY <2>1, <2>2
<1>3. QED BY <1>2 DEF CallInv, InCall

LEMMA CallInvStep == CallInv /\ [Next]_vars => CallInv'
<1> SUFFICES ASSUME CallInv, [Next]_vars PROVE CallInv'
  OBVIOUS
<1> USE DEF CallInv
<1>1. ASSUME NEW c \in Clients, NEW f \in Flows, NEW id \in Given, Call(c, f, id) PROVE CallInv'
  <2>1. Typed'
    <3>1. id \in Ids \cup {Empty} /\ NoResult \in Results /\ calls[c] + 1 \in 0..MaxCalls
      BY <1>1, GivenAssumption, MaxCallsAssumption DEF Call, Typed, NoResult, Results
    <3>2. QED BY <1>1, <3>1 DEF Call, GoTo, Typed, participant
  <2>2. InCall'
    BY <1>1 DEF Call, GoTo, Typed, InCall, IsPrepared, CommandIDOrNew, Flows
  <2>3. QED BY <2>1, <2>2
<1>2. ASSUME NEW c \in Clients, LedgerEnd(c) PROVE CallInv'
  <2>1. Len(ledger) \in Nat
    BY DEF Typed
  <2>2. CASE Return(c, "error", 0)
    <3>1. Typed'
      BY <1>2, <2>2 DEF LedgerEnd, Return, GoTo, Typed, participant, Results
    <3>2. QED BY <1>2, <2>2, <3>1, ReturnKeepsCalls DEF LedgerEnd
  <2>3. CASE /\ begin' = [begin EXCEPT ![c] = Len(ledger)]
             /\ GoTo(c, IF flow[c] = "signAndWait" THEN "prepare" ELSE "execute")
             /\ UNCHANGED result
    <3>1. Typed'
      BY <1>2, <2>1, <2>3 DEF LedgerEnd, GoTo, Typed, participant
    <3>2. InCall'
      BY <1>2, <2>3 DEF LedgerEnd, GoTo, Typed, InCall, IsPrepared, CommandIDOrNew
    <3>3. QED BY <3>1, <3>2
  <2>4. QED BY <1>2, <2>2, <2>3 DEF LedgerEnd
<1>3. ASSUME NEW c \in Clients, Prepare(c) PROVE CallInv'
  <2>1. CASE Return(c, "error", 0) /\ UNCHANGED <<cmd, as>>
    <3>1. Typed'
      BY <1>3, <2>1 DEF Prepare, Return, GoTo, Typed, participant, Results
    <3>2. QED BY <1>3, <2>1, <3>1, ReturnKeepsCalls DEF Prepare
  <2>2. CASE /\ cmd' = [cmd EXCEPT ![c] = CommandIDOrNew(c)]
             /\ as' = [as EXCEPT ![c] = partyID]
             /\ GoTo(c, IF flow[c] = "externalSign" THEN "ledgerEnd" ELSE "execute")
             /\ UNCHANGED result
    <3>1. CommandIDOrNew(c) \in Ids \cup GeneratedIds
      BY <1>3, SubmissionTypes DEF Prepare
    <3>2. Typed'
      <4>1. /\ cmd' \in [Clients -> Ids \cup GeneratedIds \cup {Empty}]
            /\ as' \in [Clients -> Parties]
            /\ pc' \in [Clients -> {"idle", "ledgerEnd", "prepare", "execute", "answer",
                                     "stream", "wait"}]
        BY <2>2, <3>1 DEF GoTo, Typed
      <4>2. QED BY <1>3, <2>2, <4>1 DEF Prepare, Typed, participant
    <3>3. InCall'
      BY <1>3, <2>2 DEF Prepare, GoTo, Typed, InCall, IsPrepared, CommandIDOrNew
    <3>4. QED BY <3>2, <3>3
  <2>3. QED BY <1>3, <2>1, <2>2 DEF Prepare
<1>4. ASSUME NEW c \in Clients, Execute(c) PROVE CallInv'
  <2>1. inflight' \in SUBSET Submissions /\ alone' \in [Clients -> BOOLEAN]
    <3>1. CASE UNCHANGED <<inflight, alone>>
      BY <3>1 DEF Typed
    <3>2. CASE Accept(c)
      BY <1>4, <3>2, SubmissionTypes DEF Execute, Accept, Typed
    <3>3. QED BY <1>4, <3>1, <3>2 DEF Execute
  <2>2. ASSUME NEW kind \in {"submitted", "error"}, Return(c, kind, 0) PROVE CallInv'
    <3>1. [kind |-> kind, at |-> 0] \in Results
      BY DEF Results
    <3>2. result' \in [Clients -> Results] /\ pc' = [pc EXCEPT ![c] = "idle"]
      BY <2>2, <3>1 DEF Return, GoTo, Typed
    <3>3. Typed'
      BY <1>4, <2>1, <3>2 DEF Execute, Typed
    <3>4. QED BY <1>4, <2>2, <3>3, ReturnKeepsCalls DEF Execute
  <2>3. CASE /\ GoTo(c, IF flow[c] = "submitAndWait" THEN "answer" ELSE "stream")
             /\ UNCHANGED result
    <3>1. Typed'
      BY <1>4, <2>1, <2>3 DEF Execute, GoTo, Typed
    <3>2. InCall'
      BY <1>4, <2>3 DEF Execute, GoTo, Typed, InCall, IsPrepared, CommandIDOrNew
    <3>3. QED BY <3>1, <3>2
  <2>4. QED BY <1>4, <2>2, <2>3 DEF Execute
<1>5. ASSUME NEW c \in Clients, Answer(c) PROVE CallInv'
  <2>1. PICK kind \in {"completed", "error"}, n \in Nat : Return(c, kind, n)
    BY <1>5 DEF Answer, Typed
  <2>2. Typed'
    BY <1>5, <2>1 DEF Answer, Return, GoTo, Typed, participant, Results
  <2>3. QED BY <1>5, <2>1, <2>2, ReturnKeepsCalls DEF Answer
<1>6. ASSUME NEW c \in Clients, OpenStream(c) PROVE CallInv'
  <2>1. Typed'
    BY <1>6 DEF OpenStream, OpenFrom, GoTo, Typed, participant
  <2>2. InCall'
    BY <1>6 DEF OpenStream, OpenFrom, GoTo, Typed, InCall, IsPrepared, CommandIDOrNew
  <2>3. QED BY <2>1, <2>2
<1>7. ASSUME NEW c \in Clients, ReadCompletion(c) PROVE CallInv'
  <2> DEFINE i == cursor[c] + 1
  <2>1. i \in Nat
    BY DEF Typed
  <2>2. CASE Return(c, "completed", i)
    <3>1. Typed'
      BY <1>7, <2>1, <2>2 DEF ReadCompletion, Return, GoTo, Typed, participant, Results
    <3>2. QED BY <1>7, <2>1, <2>2, <3>1, ReturnKeepsCalls DEF ReadCompletion
  <2>3. CASE UNCHANGED <<pc, result>>
    BY <1>7, <2>1, <2>3 DEF ReadCompletion, Typed, InCall, IsPrepared, CommandIDOrNew, participant
  <2>4. QED BY <1>7, <2>2, <2>3 DEF ReadCompletion
<1>8. ASSUME NEW c \in Clients, StreamEnds(c) \/ Timeout(c) PROVE CallInv'
  <2>1. PICK kind \in {"error", "timeout"} : Return(c, kind, 0)
    BY <1>8 DEF StreamEnds, Timeout
  <2>2. Typed'
    BY <1>8, <2>1 DEF StreamEnds, Timeout, Return, GoTo, Typed, participant, Results
  <2>3. QED BY <1>8, <2>1, <2>2, ReturnKeepsCalls DEF StreamEnds, Timeout
<1>9. ASSUME NEW s \in inflight, Complete(s) PROVE CallInv'
  <2>1. PICK ok \in BOOLEAN :
           ledger' = Append(ledger, [by |-> s.by, id |-> s.id, party |-> s.party, ok |-> ok])
    BY <1>9 DEF Complete
  <2>2. ledger' \in Seq(Completions)
    BY <2>1, CompletionTypes, Appending DEF Typed
  <2>3. QED BY <1>9, <2>2 DEF Complete, locals, Typed, InCall, IsPrepared, CommandIDOrNew
<1>10. ASSUME NEW p \in Parties, SetPartyID(p) PROVE CallInv'
  BY <1>10 DEF SetPartyID, participant, Typed, InCall, IsPrepared, CommandIDOrNew
<1>11. CASE UNCHANGED vars
  BY <1>11 DEF vars, Typed, InCall, IsPrepared, CommandIDOrNew
<1>12. QED BY <1>1, <1>2, <1>3, <1>4, <1>5, <1>6, <1>7, <1>8, <1>9, <1>10, <1>11 DEF Next, Step

-----------------------------------------------------------------------------
\* Where the completions of a call are.
LEMMA OrderInvInit == Init => OrderInv
<1> SUFFICES ASSUME Init PROVE OrderInv
  OBVIOUS
<1>1. Len(ledger) = 0 /\ inflight = {} /\ 1..Len(ledger) = {}
  BY DEF Init
<1>2. Numbered /\ NotYet /\ OwnAfterBegin
  BY <1>1 DEF Init, Numbered, NotYet, OwnAfterBegin, Pending, Completed
<1>3. Begun /\ Reported
  BY <1>1 DEF Init, Begun, Reported, NoResult
<1>4. QED BY <1>2, <1>3, CallInvInit DEF OrderInv

\* A step of a client that leaves the participant and the number of calls alone, and
\* brings it nowhere before its execution.
LEMMA OrderKept ==
    ASSUME OrderInv, NEW c \in Clients, UNCHANGED <<inflight, ledger, calls>>,
           \A d \in Clients : d # c => pc'[d] = pc[d],
           pc'[c] \in {"ledgerEnd", "prepare", "execute"} =>
               pc[c] \in {"ledgerEnd", "prepare", "execute"}
    PROVE  Numbered' /\ NotYet'
<1>1. Numbered'
  BY DEF OrderInv, Numbered
<1>2. ASSUME NEW d \in Clients, pc'[d] \in {"ledgerEnd", "prepare", "execute"}
      PROVE  ~Pending(d)' /\ ~Completed(d)'
  <2>1. pc[d] \in {"ledgerEnd", "prepare", "execute"}
    BY <1>2
  <2>2. ~Pending(d) /\ ~Completed(d)
    BY <2>1 DEF OrderInv, NotYet
  <2>3. QED BY <2>2 DEF Pending, Completed, Mine
<1>3. QED BY <1>1, <1>2 DEF NotYet

\* A return with anything but a completion.
LEMMA OrderReturn ==
    ASSUME OrderInv, CallInv', NEW c \in Clients, NEW kind \in {"error", "submitted", "timeout"},
           Return(c, kind, 0), UNCHANGED <<inflight, ledger, flow, given, calls, begin, cursor>>
    PROVE  OrderInv'
<1>1. /\ pc' = [pc EXCEPT ![c] = "idle"]
      /\ result' = [result EXCEPT ![c] = [kind |-> kind, at |-> 0]]
  BY DEF Return, GoTo, OrderInv, CallInv, Typed
<1>2. Numbered' /\ NotYet'
  BY <1>1, OrderKept DEF OrderInv, CallInv, Typed
<1>3. Begun' /\ OwnAfterBegin'
  BY <1>1 DEF OrderInv, CallInv, Typed, Begun, OwnAfterBegin, Mine
<1>4. Reported'
  BY <1>1 DEF OrderInv, CallInv, Typed, Reported
<1>5. QED BY <1>2, <1>3, <1>4 DEF OrderInv

\* The client and the number of a submission and of a completion.
LEMMA IdFields ==
    ASSUME CallInv
    PROVE  /\ \A s \in inflight : s.by[1] \in Clients /\ s.by[2] \in Nat
           /\ \A i \in 1..Len(ledger) : ledger[i].by[1] \in Clients /\ ledger[i].by[2] \in Nat
<1>1. \A g \in GeneratedIds : g[1] \in Clients /\ g[2] \in Nat
  BY MaxCallsAssumption DEF GeneratedIds
<1>2. \A s \in inflight : s.by \in GeneratedIds
  BY DEF CallInv, Typed, Submissions
<1>3. \A i \in 1..Len(ledger) : ledger[i] \in Completions
  BY DEF CallInv, Typed
<1>4. \A i \in 1..Len(ledger) : ledger[i].by \in GeneratedIds
  BY <1>3 DEF Completions
<1>5. QED BY <1>1, <1>2, <1>4

LEMMA OrderInvStep == OrderInv /\ [Next]_vars => OrderInv'
<1> SUFFICES ASSUME OrderInv, [Next]_vars PROVE OrderInv'
  OBVIOUS
<1>0. CallInv /\ CallInv' /\ Len(ledger) \in Nat
  <2>1. CallInv /\ CallInv'
    BY CallInvStep DEF OrderInv
  <2>2. Len(ledger) \in Nat
    BY <2>1 DEF CallInv, Typed
  <2>3. QED BY <2>1, <2>2
<1>1. ASSUME NEW c \in Clients, NEW f \in Flows, NEW id \in Given, Call(c, f, id) PROVE OrderInv'
  <2>1. /\ calls' = [calls EXCEPT ![c] = calls[c] + 1] /\ calls[c] \in Nat
        /\ calls'[c] = calls[c] + 1 /\ \A d \in Clients : d # c => calls'[d] = calls[d]
        /\ UNCHANGED <<inflight, ledger, begin, cursor>>
    BY <1>0, <1>1, MaxCallsAssumption DEF Call, participant, CallInv, Typed
  <2>2. \A d \in Clients : calls[d] \in Nat /\ calls'[d] \in Nat /\ calls[d] <= calls'[d]
    BY <1>0, <2>1, MaxCallsAssumption DEF CallInv, Typed
  <2>3. /\ \A s \in inflight : s.by[1] \in Clients /\ s.by[2] \in Nat
        /\ \A i \in 1..Len(ledger) : ledger[i].by[1] \in Clients /\ ledger[i].by[2] \in Nat
    BY <1>0, IdFields
  <2>4. Numbered'
    BY <2>1, <2>2, <2>3 DEF OrderInv, Numbered
  <2>5. /\ \A s \in inflight : s.by # <<c, calls'[c]>>
        /\ \A i \in 1..Len(ledger) : ledger[i].by # <<c, calls'[c]>>
    BY <2>1, <2>2, <2>3 DEF OrderInv, Numbered
  <2>6. NotYet'
    BY <1>0, <1>1, <2>1, <2>5
    DEF Call, GoTo, CallInv, Typed, OrderInv, NotYet, Pending, Completed, Mine
  <2>7. Begun' /\ OwnAfterBegin'
    BY <1>0, <1>1, <2>1 DEF Call, GoTo, CallInv, Typed, OrderInv, Begun, OwnAfterBegin, Mine
  <2>8. Reported'
    BY <1>0, <1>1, <2>1 DEF Call, NoResult, CallInv, Typed, OrderInv, Reported
  <2>9. QED BY <1>0, <2>4, <2>6, <2>7, <2>8 DEF OrderInv
<1>2. ASSUME NEW c \in Clients, LedgerEnd(c) PROVE OrderInv'
  <2>1. CASE Return(c, "error", 0) /\ UNCHANGED begin
    BY <1>0, <1>2, <2>1, OrderReturn DEF LedgerEnd, participant
  <2>2. CASE /\ begin' = [begin EXCEPT ![c] = Len(ledger)]
             /\ GoTo(c, IF flow[c] = "signAndWait" THEN "prepare" ELSE "execute")
             /\ UNCHANGED result
    <3>1. Numbered' /\ NotYet'
      BY <1>0, <1>2, <2>2, OrderKept DEF LedgerEnd, GoTo, participant, CallInv, Typed
    <3>2. Begun' /\ OwnAfterBegin'
      <4>1. /\ UNCHANGED <<ledger, calls, cursor>> /\ begin'[c] = Len(ledger)
            /\ pc'[c] \in {"prepare", "execute"}
            /\ \A d \in Clients : d # c => pc'[d] = pc[d] /\ begin'[d] = begin[d]
        BY <1>0, <1>2, <2>2 DEF LedgerEnd, GoTo, participant, CallInv, Typed
      <4>2. QED BY <1>0, <4>1 DEF OrderInv, Begun, OwnAfterBegin, Mine
    <3>3. Reported'
      <4>1. result[c].kind = "none"
        BY <1>0, <1>2 DEF LedgerEnd, CallInv, InCall, NoResult
      <4>2. \A d \in Clients : d # c => begin'[d] = begin[d]
        BY <1>0, <2>2 DEF CallInv, Typed
      <4>3. QED BY <1>2, <2>2, <4>1, <4>2 DEF LedgerEnd, participant, OrderInv, Reported
    <3>4. QED BY <1>0, <3>1, <3>2, <3>3 DEF OrderInv
  <2>3. QED BY <1>2, <2>1, <2>2 DEF LedgerEnd
<1>3. ASSUME NEW c \in Clients, Prepare(c) PROVE OrderInv'
  <2>1. CASE Return(c, "error", 0)
    BY <1>0, <1>3, <2>1, OrderReturn DEF Prepare, participant
  <2>2. CASE /\ GoTo(c, IF flow[c] = "externalSign" THEN "ledgerEnd" ELSE "execute")
             /\ UNCHANGED result
    <3>1. Numbered' /\ NotYet'
      BY <1>0, <1>3, <2>2, OrderKept DEF Prepare, GoTo, participant, CallInv, Typed
    <3>2. Begun' /\ OwnAfterBegin' /\ Reported'
      BY <1>0, <1>3, <2>2
      DEF Prepare, GoTo, participant, CallInv, Typed, OrderInv, Begun, OwnAfterBegin, Reported, Mine
    <3>3. QED BY <1>0, <3>1, <3>2 DEF OrderInv
  <2>3. QED BY <1>3, <2>1, <2>2 DEF Prepare
<1>4. ASSUME NEW c \in Clients, Execute(c) PROVE OrderInv'
  <2>1. /\ UNCHANGED <<ledger, flow, given, calls, begin, cursor>>
        /\ \A s \in inflight' : s \in inflight \/ s.by = <<c, calls[c]>>
        /\ pc[c] = "execute"
    <3>1. inflight' = inflight \/ Accept(c)
      BY <1>4 DEF Execute
    <3>2. \A s \in inflight' : s \in inflight \/ s.by = <<c, calls[c]>>
      BY <3>1, Accepting
    <3>3. UNCHANGED <<ledger, flow, given, calls, begin, cursor>> /\ pc[c] = "execute"
      BY <1>4 DEF Execute
    <3>4. QED BY <3>2, <3>3
  <2>a. /\ \A d \in Clients : d # c => pc'[d] = pc[d] /\ result'[d] = result[d]
        /\ pc'[c] \in {"idle", "answer", "stream"}
    BY <1>0, <1>4 DEF Execute, Return, GoTo, CallInv, Typed
  <2>b. result'[c].kind \in {"none", "submitted", "error"}
    <3>1. result[c].kind = "none"
      BY <1>0, <2>1 DEF CallInv, InCall, NoResult
    <3>2. result' = result \/ \E kind \in {"submitted", "error"} : Return(c, kind, 0)
      BY <1>4 DEF Execute
    <3>3. QED BY <1>0, <3>1, <3>2 DEF Return, CallInv, Typed
  <2>2. <<c, calls[c]>>[1] = c /\ <<c, calls[c]>>[2] = calls[c] /\ calls[c] \in Nat
    BY <1>0, MaxCallsAssumption DEF CallInv, Typed
  <2>3. Numbered'
    BY <2>1, <2>2 DEF OrderInv, Numbered
  <2>4. NotYet'
    <3>1. ASSUME NEW d \in Clients, pc'[d] \in {"ledgerEnd", "prepare", "execute"}
          PROVE  ~Pending(d)' /\ ~Completed(d)'
      <4>1. d # c /\ ~Pending(d) /\ ~Completed(d)
        BY <2>a, <3>1 DEF OrderInv, NotYet
      <4>2. <<d, calls[d]>> # <<c, calls[c]>>
        BY <4>1
      <4>3. QED BY <2>1, <4>1, <4>2 DEF Pending, Completed, Mine
    <3>2. QED BY <3>1 DEF NotYet
  <2>5. OwnAfterBegin'
    BY <2>1, <2>a DEF OrderInv, NotYet, Completed, OwnAfterBegin, Mine
  <2>6. Begun' /\ Reported'
    BY <2>1, <2>a, <2>b DEF OrderInv, Begun, Reported
  <2>7. QED BY <1>0, <2>3, <2>4, <2>5, <2>6 DEF OrderInv
<1>5. ASSUME NEW c \in Clients, Answer(c) PROVE OrderInv'
  <2>1. /\ UNCHANGED <<inflight, ledger, flow, given, calls, begin, cursor>>
        /\ pc[c] = "answer" /\ flow[c] = "submitAndWait" /\ pc' = [pc EXCEPT ![c] = "idle"]
        /\ \A d \in Clients : d # c => result'[d] = result[d]
    BY <1>0, <1>5 DEF Answer, Return, GoTo, participant, CallInv, Typed, InCall
  <2>2. Numbered' /\ NotYet'
    BY <1>0, <2>1, OrderKept DEF CallInv, Typed
  <2>3. Begun' /\ OwnAfterBegin' /\ Reported'
    BY <1>0, <2>1 DEF CallInv, Typed, OrderInv, Begun, OwnAfterBegin, Reported, Mine
  <2>4. QED BY <1>0, <2>2, <2>3 DEF OrderInv
<1>6. ASSUME NEW c \in Clients, OpenStream(c) PROVE OrderInv'
  <2>1. /\ UNCHANGED <<inflight, ledger, flow, given, calls, begin, result>>
        /\ cursor' = [cursor EXCEPT ![c] = begin[c]]
        /\ pc[c] = "stream" /\ pc' = [pc EXCEPT ![c] = "wait"]
    BY <1>0, <1>6 DEF OpenStream, OpenFrom, GoTo, participant, CallInv, Typed
  <2>2. Numbered' /\ NotYet'
    BY <1>0, <2>1, OrderKept DEF CallInv, Typed
  <2>3. OwnAfterBegin' /\ Reported'
    BY <1>0, <2>1 DEF CallInv, Typed, OrderInv, OwnAfterBegin, Reported, Mine
  <2>4. Begun'
    <3>1. /\ cursor'[c] = begin[c] /\ begin[c] \in Nat
          /\ \A d \in Clients : d # c => cursor'[d] = cursor[d] /\ pc'[d] = pc[d]
      BY <1>0, <2>1 DEF CallInv, Typed
    <3>2. QED BY <2>1, <3>1 DEF OrderInv, Begun
  <2>5. QED BY <1>0, <2>2, <2>3, <2>4 DEF OrderInv
<1>7. ASSUME NEW c \in Clients, ReadCompletion(c) PROVE OrderInv'
  <2> DEFINE i == cursor[c] + 1
  <2>1. /\ UNCHANGED <<inflight, ledger, flow, given, calls, begin>>
        /\ pc[c] = "wait" /\ i \in Nat /\ i <= Len(ledger) /\ begin[c] < i
        /\ cursor' = [cursor EXCEPT ![c] = i]
        /\ \/ UNCHANGED <<pc, result>>
           \/ ledger[i].id = given[c] /\ Return(c, "completed", i)
    BY <1>0, <1>7 DEF ReadCompletion, Awaited, participant, CallInv, Typed, OrderInv, Begun
  <2> HIDE DEF i
  <2>2. /\ \A d \in Clients : d # c => pc'[d] = pc[d] /\ result'[d] = result[d]
        /\ pc'[c] \in {"idle", "wait"}
    BY <1>0, <2>1 DEF Return, GoTo, CallInv, Typed
  <2>3. Numbered' /\ NotYet'
    BY <2>1, <2>2, OrderKept
  <2>4. Begun' /\ OwnAfterBegin'
    <3>1. /\ cursor'[c] = i /\ \A d \in Clients : d # c => cursor'[d] = cursor[d]
          /\ begin[c] <= i
      BY <1>0, <2>1 DEF CallInv, Typed
    <3>2. Begun'
      BY <2>1, <2>2, <3>1 DEF OrderInv, Begun
    <3>3. OwnAfterBegin'
      BY <2>1, <2>2 DEF OrderInv, OwnAfterBegin, Mine
    <3>4. QED BY <3>2, <3>3
  <2>5. result'[c].kind = "completed" =>
          /\ begin[c] < result'[c].at /\ result'[c].at <= Len(ledger)
          /\ ledger[result'[c].at].id = given[c]
    BY <1>0, <2>1 DEF Return, CallInv, Typed, InCall, NoResult
  <2>6. Reported'
    BY <2>1, <2>2, <2>5 DEF OrderInv, Reported
  <2>7. QED BY <1>0, <2>3, <2>4, <2>6 DEF OrderInv
<1>8. ASSUME NEW c \in Clients, StreamEnds(c) \/ Timeout(c) PROVE OrderInv'
  <2>1. PICK kind \in {"error", "timeout"} : Return(c, kind, 0)
    BY <1>8 DEF StreamEnds, Timeout
  <2>2. QED BY <1>0, <1>8, <2>1, OrderReturn DEF StreamEnds, Timeout, participant
<1>9. ASSUME NEW s \in inflight, Complete(s) PROVE OrderInv'
  <2>1. PICK e \in Completions : e.by = s.by /\ ledger' = Append(ledger, e)
    BY <1>0, <1>9, CompletionTypes DEF Complete, CallInv, Typed
  <2>2. /\ Len(ledger') = Len(ledger) + 1 /\ ledger'[Len(ledger) + 1].by = s.by
        /\ \A i \in 1..Len(ledger) : ledger'[i] = ledger[i]
    BY <1>0, <2>1, Appending DEF CallInv, Typed
  <2>3. /\ inflight' = inflight \ {s}
        /\ UNCHANGED <<pc, flow, given, calls, begin, cursor, result>>
    BY <1>9 DEF Complete, locals
  <2>4. \A i \in 1..Len(ledger') : i \in 1..Len(ledger) \/ i = Len(ledger) + 1
    BY <1>0, <2>2
  <2>5. Numbered'
    BY <2>2, <2>3, <2>4 DEF OrderInv, Numbered
  <2>6. NotYet'
    BY <2>2, <2>3, <2>4 DEF OrderInv, NotYet, Pending, Completed, Mine
  <2>7. Begun'
    BY <1>0, <2>2, <2>3 DEF OrderInv, Begun, CallInv, Typed
  <2>8. OwnAfterBegin'
    <3>1. ASSUME NEW c \in Clients, pc[c] \in {"stream", "wait"},
                 NEW i \in 1..Len(ledger'), Mine(c, i)'
          PROVE  i > begin[c]
      <4>1. CASE i \in 1..Len(ledger)
        BY <2>2, <2>3, <3>1, <4>1 DEF OrderInv, OwnAfterBegin, Mine
      <4>2. CASE i = Len(ledger) + 1
        <5>1. begin[c] \in Nat /\ begin[c] <= Len(ledger)
          BY <1>0 DEF OrderInv, Begun, CallInv, Typed
        <5>2. QED BY <1>0, <4>2, <5>1
      <4>3. QED BY <2>4, <4>1, <4>2
    <3>2. QED BY <2>3, <3>1 DEF OwnAfterBegin
  <2>9. Reported'
    <3>1. ASSUME NEW c \in Clients, result[c].kind = "completed", flow[c] # "submitAndWait"
          PROVE  /\ begin[c] < result[c].at /\ result[c].at <= Len(ledger')
                 /\ ledger'[result[c].at].id = given[c]
      <4>1. /\ begin[c] < result[c].at /\ result[c].at <= Len(ledger)
            /\ ledger[result[c].at].id = given[c]
        BY <3>1 DEF OrderInv, Reported
      <4>2. begin[c] \in Nat /\ result[c].at \in Nat
        BY <1>0 DEF CallInv, Typed, Results
      <4>3. result[c].at \in 1..Len(ledger) /\ result[c].at <= Len(ledger) + 1
        BY <1>0, <4>1, <4>2
      <4>4. QED BY <2>2, <4>1, <4>3
    <3>2. QED BY <2>3, <3>1 DEF Reported
  <2>10. QED BY <1>0, <2>5, <2>6, <2>7, <2>8, <2>9 DEF OrderInv
<1>10. CASE UNCHANGED <<inflight, ledger, pc, flow, given, calls, begin, cursor, result>>
  BY <1>0, <1>10
  DEF OrderInv, Numbered, NotYet, Begun, OwnAfterBegin, Reported, Pending, Completed, Mine
<1>11. QED
  BY <1>1, <1>2, <1>3, <1>4, <1>5, <1>6, <1>7, <1>8, <1>9, <1>10
  DEF Next, Step, SetPartyID, participant, vars

LEMMA OrderInvHolds == Spec => []OrderInv
BY OrderInvInit, OrderInvStep, PTL DEF Spec

-----------------------------------------------------------------------------
\* Whose completion a call reports.
LEMMA AloneInvInit == Init => AloneInv
<1>1. Init => Undisturbed /\ ReportedOwn
  BY DEF Init, Undisturbed, HasBegun, ReportedOwn
<1>2. QED BY <1>1, OrderInvInit DEF AloneInv

\* A step of a client that leaves the participant alone and begins no wait.
LEMMA AloneKept ==
    ASSUME AloneInv, NEW c \in Clients,
           UNCHANGED <<inflight, ledger, flow, given, calls, begin, alone>>,
           \A d \in Clients : d # c => pc'[d] = pc[d] /\ result'[d] = result[d],
           HasBegun(c)' => HasBegun(c),
           result'[c].kind = "completed" /\ flow[c] # "submitAndWait" /\ alone[c]
           => ledger[result'[c].at].by = <<c, calls[c]>>
    PROVE  Undisturbed' /\ ReportedOwn'
<1>1. \A d \in Clients : HasBegun(d)' => HasBegun(d)
  BY DEF HasBegun
<1>2. Undisturbed'
  BY <1>1 DEF AloneInv, Undisturbed
<1>3. ReportedOwn'
  BY DEF AloneInv, ReportedOwn
<1>4. QED BY <1>2, <1>3

\* A return with anything but a completion.
LEMMA AloneReturn ==
    ASSUME AloneInv, NEW c \in Clients, NEW kind \in {"error", "submitted", "timeout"},
           Return(c, kind, 0),
           UNCHANGED <<inflight, ledger, flow, given, calls, begin, alone>>
    PROVE  Undisturbed' /\ ReportedOwn'
<1>1. /\ pc'[c] = "idle" /\ result'[c].kind = kind
      /\ \A d \in Clients : d # c => pc'[d] = pc[d] /\ result'[d] = result[d]
  BY DEF Return, GoTo, AloneInv, OrderInv, CallInv, Typed
<1>2. ~HasBegun(c)'
  BY <1>1 DEF HasBegun
<1>3. QED BY <1>1, <1>2, AloneKept

LEMMA AloneInvStep == AloneInv /\ [Next]_vars => AloneInv'
<1> SUFFICES ASSUME AloneInv, [Next]_vars PROVE AloneInv'
  OBVIOUS
<1>0. OrderInv /\ OrderInv' /\ CallInv /\ CallInv' /\ Len(ledger) \in Nat
  <2>1. OrderInv /\ OrderInv'
    BY OrderInvStep DEF AloneInv
  <2>2. CallInv /\ CallInv'
    BY <2>1 DEF OrderInv
  <2>3. Len(ledger) \in Nat
    BY <2>2 DEF CallInv, Typed
  <2>4. QED BY <2>1, <2>2, <2>3
<1> SUFFICES Undisturbed' /\ ReportedOwn'
  BY <1>0 DEF AloneInv
<1>1. ASSUME NEW c \in Clients, NEW f \in Flows, NEW id \in Given, Call(c, f, id)
      PROVE  Undisturbed' /\ ReportedOwn'
  <2>1. /\ UNCHANGED <<inflight, ledger, begin, alone>>
        /\ \A d \in Clients : d # c =>
             pc'[d] = pc[d] /\ flow'[d] = flow[d] /\ given'[d] = given[d]
             /\ calls'[d] = calls[d] /\ result'[d] = result[d]
        /\ pc'[c] = IF f = "signAndWait" THEN "ledgerEnd" ELSE "prepare"
        /\ flow'[c] = f /\ result'[c].kind = "none"
    BY <1>0, <1>1 DEF Call, GoTo, NoResult, participant, CallInv, Typed
  <2>2. ~HasBegun(c)' /\ \A d \in Clients : d # c => (HasBegun(d)' => HasBegun(d))
    BY <2>1 DEF HasBegun
  <2>3. Undisturbed'
    BY <2>1, <2>2 DEF AloneInv, Undisturbed
  <2>4. ReportedOwn'
    BY <2>1 DEF AloneInv, ReportedOwn
  <2>5. QED BY <2>3, <2>4
<1>2. ASSUME NEW c \in Clients, LedgerEnd(c) PROVE Undisturbed' /\ ReportedOwn'
  <2>1. CASE Return(c, "error", 0) /\ UNCHANGED <<begin, alone>>
    BY <1>2, <2>1, AloneReturn DEF LedgerEnd, participant
  <2>2. CASE /\ begin' = [begin EXCEPT ![c] = Len(ledger)]
             /\ alone' = [alone EXCEPT ![c] = \A s \in inflight : s.id # given[c]]
             /\ GoTo(c, IF flow[c] = "signAndWait" THEN "prepare" ELSE "execute")
             /\ UNCHANGED result
    <3>1. /\ UNCHANGED <<inflight, ledger, flow, given, calls, result>>
          /\ begin'[c] = Len(ledger) /\ (alone'[c] <=> \A s \in inflight : s.id # given[c])
          /\ \A d \in Clients : d # c =>
               pc'[d] = pc[d] /\ begin'[d] = begin[d] /\ alone'[d] = alone[d]
      BY <1>0, <1>2, <2>2 DEF LedgerEnd, GoTo, participant, CallInv, Typed
    <3>2. \A d \in Clients : d # c => (HasBegun(d)' => HasBegun(d))
      BY <3>1 DEF HasBegun
    <3>3. Undisturbed'
      BY <1>0, <3>1, <3>2 DEF AloneInv, Undisturbed
    <3>4. result[c].kind = "none"
      BY <1>0, <1>2 DEF LedgerEnd, CallInv, InCall, NoResult
    <3>5. ReportedOwn'
      BY <3>1, <3>4 DEF AloneInv, ReportedOwn
    <3>6. QED BY <3>3, <3>5
  <2>3. QED BY <1>2, <2>1, <2>2 DEF LedgerEnd
<1>3. ASSUME NEW c \in Clients, Prepare(c) PROVE Undisturbed' /\ ReportedOwn'
  <2>1. CASE Return(c, "error", 0)
    BY <1>3, <2>1, AloneReturn DEF Prepare, participant
  <2>2. CASE /\ GoTo(c, IF flow[c] = "externalSign" THEN "ledgerEnd" ELSE "execute")
             /\ UNCHANGED result
    <3>1. /\ pc[c] = "prepare" /\ UNCHANGED <<flow, result>>
          /\ pc'[c] = IF flow[c] = "externalSign" THEN "ledgerEnd" ELSE "execute"
          /\ \A d \in Clients : d # c => pc'[d] = pc[d]
      BY <1>0, <1>3, <2>2 DEF Prepare, GoTo, CallInv, Typed
    <3>2. HasBegun(c)' => HasBegun(c)
      BY <3>1 DEF HasBegun
    <3>3. result[c].kind = "none"
      BY <1>0, <3>1 DEF CallInv, InCall, NoResult
    <3>4. QED BY <1>3, <3>1, <3>2, <3>3, AloneKept DEF Prepare, participant
  <2>3. QED BY <1>3, <2>1, <2>2 DEF Prepare
<1>4. ASSUME NEW c \in Clients, Execute(c) PROVE Undisturbed' /\ ReportedOwn'
  <2>1. /\ UNCHANGED <<ledger, flow, given, calls, begin>> /\ pc[c] = "execute"
        /\ \A d \in Clients : d # c => pc'[d] = pc[d] /\ result'[d] = result[d]
        /\ pc'[c] = "idle" \/ (pc'[c] = "answer" /\ flow[c] = "submitAndWait")
           \/ (pc'[c] = "stream" /\ flow[c] \in {"signAndWait", "externalSign"})
    BY <1>0, <1>4 DEF Execute, Return, GoTo, CallInv, Typed, Flows
  <2>2. result'[c].kind # "completed"
    <3>1. result[c].kind = "none"
      BY <1>0, <2>1 DEF CallInv, InCall, NoResult
    <3>2. result' = result \/ \E kind \in {"submitted", "error"} : Return(c, kind, 0)
      BY <1>4 DEF Execute
    <3>3. QED BY <1>0, <3>1, <3>2 DEF Return, CallInv, Typed
  <2>3. \A d \in Clients : HasBegun(d)' => HasBegun(d)
    BY <2>1 DEF HasBegun
  <2>4. /\ \A s \in inflight' : s \in inflight \/ (s.by = <<c, calls[c]>> /\ s.id = cmd[c])
        /\ \A d \in Clients : alone'[d] => alone[d]
        /\ inflight' = inflight \/ \A d \in Clients : alone'[d] => d = c \/ cmd[c] # given[d]
    <3>1. CASE UNCHANGED <<inflight, alone>>
      BY <3>1
    <3>2. CASE Accept(c)
      <4>1. \A s \in inflight' : s \in inflight \/ (s.by = <<c, calls[c]>> /\ s.id = cmd[c])
        BY <3>2, Accepting
      <4>2. QED BY <3>2, <4>1 DEF Accept
    <3>3. QED BY <1>4, <3>1, <3>2 DEF Execute
  <2>5. ASSUME NEW d \in Clients, HasBegun(d)', alone'[d]
        PROVE  /\ \A s \in inflight' : s.id = given[d] => s.by = <<d, calls[d]>>
               /\ \A i \in 1..Len(ledger) :
                    i > begin[d] /\ ledger[i].id = given[d] => ledger[i].by = <<d, calls[d]>>
    <3>1. HasBegun(d) /\ alone[d]
      BY <2>3, <2>4, <2>5
    <3>2. QED BY <2>4, <2>5, <3>1 DEF AloneInv, Undisturbed
  <2>6. Undisturbed'
    BY <2>1, <2>5 DEF Undisturbed
  <2>7. ReportedOwn'
    BY <2>1, <2>2, <2>4 DEF AloneInv, ReportedOwn
  <2>8. QED BY <2>6, <2>7
<1>5. ASSUME NEW c \in Clients, Answer(c) PROVE Undisturbed' /\ ReportedOwn'
  <2>1. /\ flow[c] = "submitAndWait" /\ pc'[c] = "idle"
        /\ \A d \in Clients : d # c => pc'[d] = pc[d] /\ result'[d] = result[d]
    BY <1>0, <1>5 DEF Answer, Return, GoTo, CallInv, Typed, InCall
  <2>2. ~HasBegun(c)'
    BY <2>1 DEF HasBegun
  <2>3. QED BY <1>5, <2>1, <2>2, AloneKept DEF Answer, participant
<1>6. ASSUME NEW c \in Clients, OpenStream(c) PROVE Undisturbed' /\ ReportedOwn'
  <2>1. /\ UNCHANGED <<inflight, ledger, flow, given, calls, result, alone>>
        /\ begin' = begin /\ pc[c] = "stream"
        /\ \A d \in Clients : d # c => pc'[d] = pc[d]
    BY <1>0, <1>6 DEF OpenStream, OpenFrom, GoTo, participant, CallInv, Typed
  <2>2. HasBegun(c)
    BY <2>1 DEF HasBegun
  <2>3. result[c].kind = "none"
    BY <1>0, <2>1 DEF CallInv, InCall, NoResult
  <2>4. QED BY <2>1, <2>2, <2>3, AloneKept
<1>7. ASSUME NEW c \in Clients, ReadCompletion(c) PROVE Undisturbed' /\ ReportedOwn'
  <2> DEFINE i == cursor[c] + 1
  <2>1. /\ UNCHANGED <<inflight, ledger, flow, given, calls, begin, alone>>
        /\ pc[c] = "wait" /\ i \in 1..Len(ledger) /\ i > begin[c]
        /\ \/ UNCHANGED <<pc, result>>
           \/ ledger[i].id = given[c] /\ Return(c, "completed", i)
    BY <1>0, <1>7 DEF ReadCompletion, Awaited, participant, CallInv, Typed, OrderInv, Begun
  <2> HIDE DEF i
  <2>2. HasBegun(c) /\ result[c].kind = "none"
    BY <1>0, <2>1 DEF HasBegun, CallInv, InCall, NoResult
  <2>3. CASE UNCHANGED <<pc, result>>
    BY <2>1, <2>2, <2>3, AloneKept
  <2>4. CASE ledger[i].id = given[c] /\ Return(c, "completed", i)
    <3>1. /\ result'[c].at = i
          /\ \A d \in Clients : d # c => pc'[d] = pc[d] /\ result'[d] = result[d]
      BY <1>0, <2>4 DEF Return, GoTo, CallInv, Typed
    <3>2. alone[c] => ledger[i].by = <<c, calls[c]>>
      BY <2>1, <2>2, <2>4 DEF AloneInv, Undisturbed
    <3>3. QED BY <2>1, <2>2, <3>1, <3>2, AloneKept
  <2>5. QED BY <2>1, <2>3, <2>4
<1>8. ASSUME NEW c \in Clients, StreamEnds(c) \/ Timeout(c) PROVE Undisturbed' /\ ReportedOwn'
  <2>1. PICK kind \in {"error", "timeout"} : Return(c, kind, 0)
    BY <1>8 DEF StreamEnds, Timeout
  <2>2. QED BY <1>8, <2>1, AloneReturn DEF StreamEnds, Timeout, participant
<1>9. ASSUME NEW s \in inflight, Complete(s) PROVE Undisturbed' /\ ReportedOwn'
  <2>1. PICK e \in Completions : e.by = s.by /\ e.id = s.id /\ ledger' = Append(ledger, e)
    BY <1>0, <1>9, CompletionTypes DEF Complete, CallInv, Typed
  <2>2. /\ Len(ledger') = Len(ledger) + 1 /\ ledger'[Len(ledger) + 1] = e
        /\ \A i \in 1..Len(ledger) : ledger'[i] = ledger[i]
    BY <1>0, <2>1, Appending DEF CallInv, Typed
  <2>3. /\ inflight' = inflight \ {s}
        /\ UNCHANGED <<pc, flow, given, calls, begin, result, alone>>
    BY <1>9 DEF Complete, locals
  <2>4. \A i \in 1..Len(ledger') : i \in 1..Len(ledger) \/ i = Len(ledger) + 1
    BY <1>0, <2>2
  <2>5. \A c \in Clients : HasBegun(c)' <=> HasBegun(c)
    BY <2>3 DEF HasBegun
  <2>6. ASSUME NEW c \in Clients, HasBegun(c), alone[c], NEW i \in 1..Len(ledger'),
               i > begin[c], ledger'[i].id = given[c]
        PROVE  ledger'[i].by = <<c, calls[c]>>
    <3>1. CASE i \in 1..Len(ledger)
      BY <2>2, <2>6, <3>1 DEF AloneInv, Undisturbed
    <3>2. CASE i = Len(ledger) + 1
      BY <2>1, <2>2, <2>6, <3>2 DEF AloneInv, Undisturbed
    <3>3. QED BY <2>4, <3>1, <3>2
  <2>7. Undisturbed'
    BY <2>3, <2>5, <2>6 DEF AloneInv, Undisturbed
  <2>8. ReportedOwn'
    <3>1. ASSUME NEW c \in Clients, result[c].kind = "completed", flow[c] # "submitAndWait",
                 alone[c]
          PROVE  ledger'[result[c].at].by = <<c, calls[c]>>
      <4>1. begin[c] < result[c].at /\ result[c].at <= Len(ledger)
        BY <1>0, <3>1 DEF OrderInv, Reported
      <4>2. begin[c] \in Nat /\ result[c].at \in Nat
        BY <1>0 DEF CallInv, Typed, Results
      <4>3. result[c].at \in 1..Len(ledger)
        BY <1>0, <4>1, <4>2
      <4>4. QED BY <2>2, <3>1, <4>3 DEF AloneInv, ReportedOwn
    <3>2. QED BY <2>3, <3>1 DEF ReportedOwn
  <2>9. QED BY <2>7, <2>8
<1>10. CASE UNCHANGED <<inflight, ledger, pc, flow, given, calls, begin, result, alone>>
  <2>1. \A c \in Clients : HasBegun(c)' <=> HasBegun(c)
    BY <1>10 DEF HasBegun
  <2>2. Undisturbed'
    BY <1>10, <2>1 DEF AloneInv, Undisturbed
  <2>3. ReportedOwn'
    BY <1>10 DEF AloneInv, ReportedOwn
  <2>4. QED BY <2>2, <2>3
<1>11. QED
  BY <1>1, <1>2, <1>3, <1>4, <1>5, <1>6, <1>7, <1>8, <1>9, <1>10
  DEF Next, Step, SetPartyID, participant, vars

-----------------------------------------------------------------------------
\* What a timeout says.
LEMMA TimeoutInvInit == Init => TimeoutInv
<1> SUFFICES ASSUME Init PROVE TimeoutInv
  OBVIOUS
<1>1. 1..Len(ledger) = {} /\ inflight = {} /\ \A c \in Clients : pc[c] = "idle"
  BY DEF Init
<1>2. Tagged /\ SameParty /\ Unpassed
  BY <1>1 DEF Tagged, SameParty, Unpassed, IsPrepared
<1>3. Silent
  BY <1>1 DEF Silent, Pending, Completed
<1>4. QED BY <1>2, <1>3, OrderInvInit DEF TimeoutInv

\* A step that leaves the participant and what the clients submit alone.
LEMMA TaggedKept ==
    ASSUME Tagged, UNCHANGED <<inflight, ledger, calls, cmd, as>>
    PROVE  Tagged'
BY DEF Tagged, Mine

\* A return: what a timeout would say has to hold already.
LEMMA TimeoutReturn ==
    ASSUME TimeoutInv, OrderInv', NEW c \in Clients, NEW kind, NEW n, Return(c, kind, n),
           UNCHANGED <<partyID, inflight, ledger, flow, calls, cmd, as, watch, moved>>,
           \A d \in Clients : d # c => cursor'[d] = cursor[d],
           kind = "timeout" /\ c \in Patient /\ ~moved[c] => ~Pending(c) /\ ~Completed(c)
    PROVE  TimeoutInv'
<1>1. /\ pc'[c] = "idle" /\ result'[c].kind = kind
      /\ \A d \in Clients : d # c => pc'[d] = pc[d] /\ result'[d] = result[d]
  BY DEF Return, GoTo, TimeoutInv, OrderInv, CallInv, Typed
<1>2. Tagged'
  BY TaggedKept DEF TimeoutInv
<1>3. SameParty' /\ Unpassed'
  BY <1>1 DEF TimeoutInv, SameParty, Unpassed, IsPrepared, Mine
<1>4. Silent'
  <2>1. \A d \in Clients : (Pending(d)' <=> Pending(d)) /\ (Completed(d)' <=> Completed(d))
    BY DEF Pending, Completed, Mine
  <2>2. QED BY <1>1, <2>1, PatientAssumption DEF TimeoutInv, Silent
<1>5. QED BY <1>2, <1>3, <1>4 DEF TimeoutInv

\* A client reads its own completion only to report it, if it gave an id.
LEMMA OwnCompletionMatches ==
    ASSUME TimeoutInv, Empty \notin Given, NEW c \in Clients, pc[c] = "wait", ~moved[c],
           NEW i \in 1..Len(ledger), Mine(c, i)
    PROVE  ledger[i].party = watch[c] /\ ledger[i].id = Awaited(c)
<1>1. IsPrepared(c)
  BY DEF IsPrepared
<1>2. cmd[c] = CommandIDOrNew(c) /\ given[c] \in Given
  BY <1>1 DEF TimeoutInv, OrderInv, CallInv, InCall
<1>3. cmd[c] = given[c]
  BY <1>2 DEF CommandIDOrNew
<1>4. as[c] = watch[c]
  BY <1>1 DEF TimeoutInv, SameParty
<1>5. QED BY <1>3, <1>4 DEF TimeoutInv, Tagged, Awaited

LEMMA TimeoutInvStep == ASSUME Empty \notin Given PROVE TimeoutInv /\ [Next]_vars => TimeoutInv'
<1> SUFFICES ASSUME TimeoutInv, [Next]_vars PROVE TimeoutInv'
  OBVIOUS
<1>0. OrderInv /\ OrderInv' /\ CallInv /\ CallInv'
  BY OrderInvStep DEF TimeoutInv, OrderInv
<1>1. ASSUME NEW c \in Clients, NEW f \in Flows, NEW id \in Given, Call(c, f, id)
      PROVE  TimeoutInv'
  <2>1. /\ UNCHANGED <<partyID, inflight, ledger, cmd, as, watch, cursor>>
        /\ pc[c] = "idle"
        /\ \A d \in Clients : d # c =>
             pc'[d] = pc[d] /\ flow'[d] = flow[d] /\ calls'[d] = calls[d]
             /\ result'[d] = result[d] /\ moved'[d] = moved[d]
        /\ pc'[c] = "prepare" \/ (pc'[c] = "ledgerEnd" /\ flow'[c] = "signAndWait")
        /\ result'[c].kind = "none"
    BY <1>0, <1>1 DEF Call, GoTo, NoResult, participant, CallInv, Typed
  <2>2. ~Pending(c)' /\ ~Completed(c)'
    BY <1>0, <2>1 DEF OrderInv, NotYet
  <2>3. Tagged'
    <3> SUFFICES ASSUME NEW d \in Clients
                 PROVE  /\ \A t \in inflight : t.by = <<d, calls'[d]>> => t.id = cmd[d] /\ t.party = as[d]
                        /\ \A i \in 1..Len(ledger) :
                             Mine(d, i)' => ledger[i].id = cmd[d] /\ ledger[i].party = as[d]
      BY <2>1 DEF Tagged
    <3>1. CASE d = c
      BY <2>1, <2>2, <3>1 DEF Pending, Completed
    <3>2. CASE d # c
      BY <2>1, <3>2 DEF TimeoutInv, Tagged, Mine
    <3> QED BY <3>1, <3>2
  <2>4. SameParty' /\ Unpassed'
    BY <2>1 DEF TimeoutInv, SameParty, Unpassed, IsPrepared, Mine
  <2>5. Silent'
    BY <2>1, PatientAssumption DEF TimeoutInv, Silent, Pending, Completed, Mine
  <2>6. QED BY <1>0, <2>3, <2>4, <2>5 DEF TimeoutInv
<1>2. ASSUME NEW c \in Clients, LedgerEnd(c) PROVE TimeoutInv'
  <2>1. CASE Return(c, "error", 0)
    BY <1>0, <1>2, <2>1, TimeoutReturn DEF LedgerEnd, participant
  <2>2. CASE /\ GoTo(c, IF flow[c] = "signAndWait" THEN "prepare" ELSE "execute")
             /\ UNCHANGED result
    <3>1. /\ UNCHANGED <<partyID, inflight, ledger, flow, calls, cmd, as, watch, cursor,
                         moved, result>>
          /\ pc[c] = "ledgerEnd" /\ (flow[c] # "signAndWait" => flow[c] = "externalSign")
          /\ pc'[c] = "prepare" \/ (pc'[c] = "execute" /\ flow[c] # "signAndWait")
          /\ \A d \in Clients : d # c => pc'[d] = pc[d]
      BY <1>0, <1>2, <2>2 DEF LedgerEnd, GoTo, participant, CallInv, Typed, InCall
    <3>2. Tagged'
      BY <3>1, TaggedKept DEF TimeoutInv
    <3>3. SameParty' /\ Unpassed'
      BY <3>1 DEF TimeoutInv, SameParty, Unpassed, IsPrepared, Mine
    <3>4. Silent'
      BY <3>1 DEF TimeoutInv, Silent, Pending, Completed, Mine
    <3>5. QED BY <1>0, <3>2, <3>3, <3>4 DEF TimeoutInv
  <2>3. QED BY <1>2, <2>1, <2>2 DEF LedgerEnd
<1>3. ASSUME NEW c \in Clients, Prepare(c) PROVE TimeoutInv'
  <2>1. CASE Return(c, "error", 0) /\ UNCHANGED <<cmd, as>>
    BY <1>0, <1>3, <2>1, TimeoutReturn DEF Prepare, participant
  <2>2. CASE /\ cmd' = [cmd EXCEPT ![c] = CommandIDOrNew(c)]
             /\ as' = [as EXCEPT ![c] = partyID]
             /\ GoTo(c, IF flow[c] = "externalSign" THEN "ledgerEnd" ELSE "execute")
             /\ UNCHANGED result
    <3>1. /\ UNCHANGED <<partyID, inflight, ledger, flow, calls, watch, cursor, moved, result>>
          /\ pc[c] = "prepare" /\ pc'[c] \in {"ledgerEnd", "execute"} /\ as'[c] = partyID
          /\ \A d \in Clients : d # c => pc'[d] = pc[d] /\ cmd'[d] = cmd[d] /\ as'[d] = as[d]
      BY <1>0, <1>3, <2>2 DEF Prepare, GoTo, participant, CallInv, Typed
    <3>2. ~Pending(c) /\ ~Completed(c)
      BY <1>0, <3>1 DEF OrderInv, NotYet
    <3>3. Tagged'
      BY <3>1, <3>2 DEF TimeoutInv, Tagged, Pending, Completed, Mine
    <3>4. SameParty' /\ Unpassed'
      BY <3>1 DEF TimeoutInv, SameParty, Unpassed, IsPrepared, Mine
    <3>5. Silent'
      BY <3>1 DEF TimeoutInv, Silent, Pending, Completed, Mine
    <3>6. QED BY <1>0, <3>3, <3>4, <3>5 DEF TimeoutInv
  <2>3. QED BY <1>3, <2>1, <2>2 DEF Prepare
<1>4. ASSUME NEW c \in Clients, Execute(c) PROVE TimeoutInv'
  <2>1. UNCHANGED <<partyID, ledger, calls, cmd, as, watch, cursor, moved>> /\ pc[c] = "execute"
    BY <1>4 DEF Execute
  <2>2. \A s \in inflight' :
          s \in inflight \/ (s.by = <<c, calls[c]>> /\ s.id = cmd[c] /\ s.party = as[c])
    <3>1. inflight' = inflight \/ Accept(c)
      BY <1>4 DEF Execute
    <3>2. QED BY <3>1, Accepting
  <2>3. /\ \A d \in Clients : d # c => pc'[d] = pc[d] /\ result'[d] = result[d]
        /\ pc'[c] \in {"idle", "answer", "stream"}
    BY <1>0, <1>4 DEF Execute, Return, GoTo, CallInv, Typed
  <2>4. result'[c].kind # "timeout"
    <3>1. result[c].kind = "none"
      BY <1>0, <2>1 DEF CallInv, InCall, NoResult
    <3>2. result' = result \/ \E kind \in {"submitted", "error"} : Return(c, kind, 0)
      BY <1>4 DEF Execute
    <3>3. QED BY <1>0, <3>1, <3>2 DEF Return, CallInv, Typed
  <2>5. \A d \in Clients : d # c => <<d, calls[d]>> # <<c, calls[c]>>
    OBVIOUS
  <2>6. Tagged'
    <3>1. ASSUME NEW d \in Clients, NEW s \in inflight', s.by = <<d, calls[d]>>
          PROVE  s.id = cmd[d] /\ s.party = as[d]
      <4>1. CASE s \in inflight
        BY <3>1, <4>1 DEF TimeoutInv, Tagged
      <4>2. CASE s \notin inflight
        BY <2>2, <2>5, <3>1, <4>2
      <4>3. QED BY <4>1, <4>2
    <3>2. \A d \in Clients : \A i \in 1..Len(ledger) :
            Mine(d, i) => ledger[i].id = cmd[d] /\ ledger[i].party = as[d]
      BY DEF TimeoutInv, Tagged
    <3>3. QED BY <2>1, <3>1, <3>2 DEF Tagged, Mine
  <2>7. SameParty' /\ Unpassed'
    <3>1. IsPrepared(c) /\ \A d \in Clients : d # c => pc'[d] = pc[d] /\ flow'[d] = flow[d]
      BY <1>4, <2>1, <2>3 DEF Execute, IsPrepared
    <3>2. \A d \in Clients : IsPrepared(d)' => IsPrepared(d)
      BY <3>1 DEF IsPrepared
    <3>3. \A d \in Clients : pc'[d] = "wait" => pc[d] = "wait"
      BY <2>3
    <3>4. QED BY <2>1, <3>2, <3>3 DEF TimeoutInv, SameParty, Unpassed, Mine
  <2>8. Silent'
    <3>1. ASSUME NEW d \in Patient, result'[d].kind = "timeout", ~moved[d]
          PROVE  ~Pending(d)' /\ ~Completed(d)'
      <4>1. d \in Clients /\ d # c /\ ~Pending(d) /\ ~Completed(d)
        BY <2>3, <2>4, <3>1, PatientAssumption DEF TimeoutInv, Silent
      <4>2. QED BY <2>1, <2>2, <2>5, <4>1 DEF Pending, Completed, Mine
    <3>2. QED BY <2>1, <3>1 DEF Silent
  <2>9. QED BY <1>0, <2>6, <2>7, <2>8 DEF TimeoutInv
<1>5. ASSUME NEW c \in Clients, Answer(c) PROVE TimeoutInv'
  <2>1. PICK kind \in {"completed", "error"}, n \in Nat : Return(c, kind, n)
    BY <1>0, <1>5 DEF Answer, CallInv, Typed
  <2>2. QED BY <1>0, <1>5, <2>1, TimeoutReturn DEF Answer, participant
<1>6. ASSUME NEW c \in Clients, OpenStream(c) PROVE TimeoutInv'
  <2>1. /\ UNCHANGED <<partyID, inflight, ledger, flow, calls, cmd, as, moved, result>>
        /\ pc[c] = "stream" /\ pc'[c] = "wait"
        /\ watch'[c] = partyID /\ cursor'[c] = begin[c]
        /\ \A d \in Clients : d # c =>
             pc'[d] = pc[d] /\ watch'[d] = watch[d] /\ cursor'[d] = cursor[d]
    BY <1>0, <1>6 DEF OpenStream, OpenFrom, GoTo, participant, CallInv, Typed
  <2>2. Tagged'
    BY <2>1, TaggedKept DEF TimeoutInv
  <2>3. SameParty'
    BY <2>1 DEF TimeoutInv, SameParty, IsPrepared
  <2>4. Unpassed'
    BY <2>1 DEF TimeoutInv, OrderInv, OwnAfterBegin, Unpassed, Mine
  <2>5. Silent'
    BY <2>1 DEF TimeoutInv, Silent, Pending, Completed, Mine
  <2>6. QED BY <1>0, <2>2, <2>3, <2>4, <2>5 DEF TimeoutInv
<1>7. ASSUME NEW c \in Clients, ReadCompletion(c) PROVE TimeoutInv'
  <2> DEFINE i == cursor[c] + 1
  <2>1. /\ UNCHANGED <<partyID, inflight, ledger, flow, calls, cmd, as, watch, moved>>
        /\ pc[c] = "wait" /\ i \in 1..Len(ledger)
        /\ cursor'[c] = i /\ \A d \in Clients : d # c => cursor'[d] = cursor[d]
    BY <1>0, <1>7 DEF ReadCompletion, participant, CallInv, Typed
  <2>2. CASE Return(c, "completed", i)
    BY <1>0, <2>1, <2>2, TimeoutReturn
  <2>3. CASE UNCHANGED <<pc, result>> /\ ~(ledger[i].party = watch[c] /\ ledger[i].id = Awaited(c))
    <3>1. ~moved[c] => ~Mine(c, i)
      BY <2>1, <2>3, OwnCompletionMatches
    <3>2. Tagged'
      BY <2>1, TaggedKept DEF TimeoutInv
    <3>3. SameParty' /\ Silent'
      BY <2>1, <2>3 DEF TimeoutInv, SameParty, Silent, IsPrepared, Pending, Completed, Mine
    <3>4. Unpassed'
      <4>1. ASSUME ~moved[c], NEW j \in 1..Len(ledger), Mine(c, j) PROVE j > i
        <5>1. j > cursor[c] /\ j # i
          BY <2>1, <3>1, <4>1 DEF TimeoutInv, Unpassed
        <5>2. cursor[c] \in Nat /\ j \in Int
          BY <1>0, <4>1 DEF CallInv, Typed
        <5>3. QED BY <5>1, <5>2
      <4>2. QED BY <2>1, <2>3, <4>1 DEF TimeoutInv, Unpassed, Mine
    <3>5. QED BY <1>0, <3>2, <3>3, <3>4 DEF TimeoutInv
  <2>4. QED BY <1>7, <2>2, <2>3 DEF ReadCompletion
<1>8. ASSUME NEW c \in Clients, StreamEnds(c) PROVE TimeoutInv'
  BY <1>0, <1>8, TimeoutReturn DEF StreamEnds, participant
<1>9. ASSUME NEW c \in Clients, Timeout(c) PROVE TimeoutInv'
  <2>1. c \in Patient /\ ~moved[c] => ~Pending(c) /\ ~Completed(c)
    <3>1. SUFFICES ASSUME c \in Patient, ~moved[c] PROVE ~Pending(c) /\ ~Completed(c)
      OBVIOUS
    <3>2. pc[c] = "wait" /\ cursor[c] = Len(ledger) /\ ~Pending(c)
      BY <1>9, <3>1 DEF Timeout, Pending
    <3>3. \A i \in 1..Len(ledger) : Mine(c, i) => i > Len(ledger)
      BY <3>1, <3>2 DEF TimeoutInv, Unpassed
    <3>4. ~Completed(c)
      BY <1>0, <3>3 DEF Completed, CallInv, Typed
    <3>5. QED BY <3>2, <3>4
  <2>2. QED BY <1>0, <1>9, <2>1, TimeoutReturn DEF Timeout, participant
<1>10. ASSUME NEW s \in inflight, Complete(s) PROVE TimeoutInv'
  <2>1. PICK e \in Completions :
          e.by = s.by /\ e.id = s.id /\ e.party = s.party /\ ledger' = Append(ledger, e)
    BY <1>0, <1>10, CompletionTypes DEF Complete, CallInv, Typed
  <2>2. /\ Len(ledger') = Len(ledger) + 1 /\ ledger'[Len(ledger) + 1] = e
        /\ \A i \in 1..Len(ledger) : ledger'[i] = ledger[i]
        /\ Len(ledger) \in Nat
    BY <1>0, <2>1, Appending DEF CallInv, Typed
  <2>3. /\ inflight' = inflight \ {s}
        /\ UNCHANGED <<partyID, pc, flow, calls, cmd, as, watch, cursor, moved, result>>
    BY <1>10 DEF Complete, locals
  <2>4. \A i \in 1..Len(ledger') : i \in 1..Len(ledger) \/ i = Len(ledger) + 1
    BY <2>2
  <2>5. Tagged'
    <3>1. \A d \in Clients : \A t \in inflight' :
            t.by = <<d, calls[d]>> => t.id = cmd[d] /\ t.party = as[d]
      BY <2>3 DEF TimeoutInv, Tagged
    <3>2. ASSUME NEW d \in Clients, NEW i \in 1..Len(ledger'), ledger'[i].by = <<d, calls[d]>>
          PROVE  ledger'[i].id = cmd[d] /\ ledger'[i].party = as[d]
      <4>1. CASE i \in 1..Len(ledger)
        <5>1. ledger'[i] = ledger[i] /\ Mine(d, i)
          BY <2>2, <3>2, <4>1 DEF Mine
        <5>2. QED BY <4>1, <5>1 DEF TimeoutInv, Tagged
      <4>2. CASE i = Len(ledger) + 1
        <5>1. ledger'[i] = e /\ s.by = <<d, calls[d]>>
          BY <2>1, <2>2, <3>2, <4>2
        <5>2. s.id = cmd[d] /\ s.party = as[d]
          BY <5>1 DEF TimeoutInv, Tagged
        <5>3. QED BY <2>1, <5>1, <5>2
      <4>3. QED BY <2>4, <4>1, <4>2
    <3>3. QED BY <2>3, <3>1, <3>2 DEF Tagged, Mine
  <2>6. SameParty'
    BY <2>3 DEF TimeoutInv, SameParty, IsPrepared
  <2>7. Unpassed'
    <3>1. ASSUME NEW c \in Clients, pc[c] = "wait", ~moved[c],
                 NEW i \in 1..Len(ledger'), Mine(c, i)'
          PROVE  i > cursor[c]
      <4>1. CASE i \in 1..Len(ledger)
        BY <2>2, <2>3, <3>1, <4>1 DEF TimeoutInv, Unpassed, Mine
      <4>2. CASE i = Len(ledger) + 1
        <5>1. cursor[c] \in Nat /\ cursor[c] <= Len(ledger)
          BY <1>0, <3>1 DEF OrderInv, Begun, CallInv, Typed
        <5>2. QED BY <2>2, <4>2, <5>1
      <4>3. QED BY <2>4, <4>1, <4>2
    <3>2. QED BY <2>3, <3>1 DEF Unpassed
  <2>8. Silent'
    BY <2>1, <2>2, <2>3, <2>4, PatientAssumption
    DEF TimeoutInv, Silent, Pending, Completed, Mine
  <2>9. QED BY <1>0, <2>5, <2>6, <2>7, <2>8 DEF TimeoutInv
<1>11. ASSUME NEW p \in Parties, SetPartyID(p) PROVE TimeoutInv'
  <2>1. UNCHANGED <<inflight, ledger, calls, cmd, as>> /\ \A c \in Clients : moved'[c]
    BY <1>11 DEF SetPartyID, participant
  <2>2. QED BY <1>0, <2>1, TaggedKept, PatientAssumption
        DEF TimeoutInv, SameParty, Unpassed, Silent
<1>12. CASE UNCHANGED vars
  <2>1. UNCHANGED <<partyID, inflight, ledger, pc, flow, calls, cmd, as, watch, cursor,
                    result, moved>>
    BY <1>12 DEF vars
  <2>2. Tagged'
    BY <2>1, TaggedKept DEF TimeoutInv
  <2>3. SameParty' /\ Unpassed' /\ Silent'
    BY <2>1 DEF TimeoutInv, SameParty, Unpassed, Silent, IsPrepared, Pending, Completed, Mine
  <2>4. QED BY <1>0, <2>2, <2>3 DEF TimeoutInv
<1>13. QED
  BY <1>1, <1>2, <1>3, <1>4, <1>5, <1>6, <1>7, <1>8, <1>9, <1>10, <1>11, <1>12 DEF Next, Step

\* Whatever the participant's speed, the number of clients and what ids they share: the
\* completion of a call is never before the offset at which its stream begins.
THEOREM SubmissionInvHolds == Spec => []SubmissionInv
<1>1. OrderInv => SubmissionInv
  BY DEF OrderInv, CallInv, Typed, OwnAfterBegin, SubmissionInv, Completions, Results
<1>2. QED BY OrderInvHolds, <1>1, PTL

\* A call reports a completion with its id that came after the ledger end it read, and
\* its own submission's unless it shared the id with one under way meanwhile, however
\* often the id was used before.
THEOREM ReportsOwnCompletionHolds == Spec => []ReportsOwnCompletion
<1>1. AloneInv => ReportsOwnCompletion
  <2>1. SUFFICES ASSUME AloneInv, NEW c \in Clients,
                        result[c].kind = "completed", flow[c] # "submitAndWait"
                 PROVE  /\ result[c].at > begin[c] /\ ledger[result[c].at].id = given[c]
                        /\ alone[c] => ledger[result[c].at].by = <<c, calls[c]>>
    BY DEF ReportsOwnCompletion
  <2>2. begin[c] \in Nat /\ result[c].at \in Nat
    <3>1. result[c] \in Results /\ begin[c] \in Nat
      BY <2>1 DEF AloneInv, OrderInv, CallInv, Typed
    <3>2. QED BY <3>1 DEF Results
  <2>3. QED BY <2>1, <2>2 DEF AloneInv, OrderInv, Reported, ReportedOwn
<1>2. QED BY AloneInvInit, AloneInvStep, <1>1, PTL DEF Spec

\* Where callers give a command id (an empty one is never matched, see the finding), a
\* patient client whose party stays and that is told "timeout" has a transaction that did
\* not complete.
THEOREM TimeoutMeansNotCompletedHolds ==
    ASSUME Empty \notin Given
    PROVE  Spec => []TimeoutMeansNotCompleted
<1>1. TimeoutInv /\ [Next]_vars => TimeoutInv'
  BY TimeoutInvStep
<1>2. TimeoutInv => TimeoutMeansNotCompleted
  BY DEF TimeoutInv, Silent, Completed, TimeoutMeansNotCompleted
<1>3. QED BY TimeoutInvInit, <1>1, <1>2, PTL DEF Spec
=============================================================================
