------------------------------- MODULE Submission -------------------------------
(***************************************************************************)
(* pkg/controller/ledger.go: submitting commands through one               *)
(* LedgerController and waiting for their completion on the completion     *)
(* stream.  Goroutines call concurrently, may reuse a command id (a retry) *)
(* or leave it empty, and SetPartyID may change the party under them.      *)
(***************************************************************************)
EXTENDS Integers, Sequences

CONSTANTS
    Clients,        \* calling goroutines
    Ids,            \* command ids callers choose
    Given,          \* what a caller may pass: ids and, perhaps, Empty
    Empty,          \* the empty command id
    Parties,
    Patient,        \* clients whose timeoutMs outlasts the participant
    MaxCalls        \* bound: calls per client

ASSUME GivenAssumption == Empty \notin Ids /\ Given \subseteq Ids \cup {Empty}
ASSUME PatientAssumption == Patient \subseteq Clients
ASSUME MaxCallsAssumption == MaxCalls \in Nat

VARIABLES
    partyID,        \* the controller's atomic.Value
    inflight,       \* submissions the participant has and has not completed
    ledger,         \* the participant's completions; an offset is an index
    pc, flow,       \* where each client is in which method
    given, calls,   \* its commandID argument and the number of its call
    cmd, as,        \* command id and party of what it submits
    begin, watch,   \* its ledgerEnd and the party of its completion stream
    cursor,         \* what it has read of the stream
    result,         \* how its last call ended
    moved,          \* history: whether SetPartyID changed the party during its call
    alone           \* history: whether no other submission with its id has been under way
                    \* since its call read the ledger end

participant == <<inflight, ledger>>
locals == <<pc, flow, given, calls, cmd, as, begin, watch, cursor, result, moved, alone>>
vars == <<partyID, inflight, ledger, pc, flow, given, calls, cmd, as, begin, watch,
          cursor, result, moved, alone>>

Flows == {"submit", "submitAndWait", "signAndWait", "externalSign"}
NoResult == [kind |-> "none", at |-> 0]
GeneratedIds == Clients \X (1..MaxCalls)
Submissions == [by : GeneratedIds, id : Ids \cup GeneratedIds, party : Parties]

Init ==
    /\ partyID \in Parties
    /\ inflight = {}
    /\ ledger = <<>>
    /\ pc = [c \in Clients |-> "idle"]
    /\ flow = [c \in Clients |-> "submit"]
    /\ given = [c \in Clients |-> Empty]
    /\ calls = [c \in Clients |-> 0]
    /\ cmd = [c \in Clients |-> Empty]
    /\ as = [c \in Clients |-> partyID]
    /\ begin = [c \in Clients |-> 0]
    /\ watch = [c \in Clients |-> partyID]
    /\ cursor = [c \in Clients |-> 0]
    /\ result = [c \in Clients |-> NoResult]
    /\ moved = [c \in Clients |-> FALSE]
    /\ alone = [c \in Clients |-> FALSE]

GoTo(c, label) == pc' = [pc EXCEPT ![c] = label]

Return(c, kind, at) ==
    /\ GoTo(c, "idle")
    /\ result' = [result EXCEPT ![c] = [kind |-> kind, at |-> at]]

\* A call of SubmitCommand, SubmitCommandAndWait, PrepareSignExecuteAndWaitFor, or
\* PrepareSubmission followed by ExecuteSubmissionAndWaitFor with the same id.
Call(c, f, id) ==
    /\ pc[c] = "idle"
    /\ calls[c] < MaxCalls
    /\ calls' = [calls EXCEPT ![c] = @ + 1]
    /\ flow' = [flow EXCEPT ![c] = f]
    /\ given' = [given EXCEPT ![c] = id]
    /\ result' = [result EXCEPT ![c] = NoResult]
    /\ moved' = [moved EXCEPT ![c] = FALSE]
    /\ GoTo(c, IF f = "signAndWait" THEN "ledgerEnd" ELSE "prepare")
    /\ UNCHANGED <<partyID, participant, cmd, as, begin, watch, cursor, alone>>

\* LedgerEnd answers or fails.
LedgerEnd(c) ==
    /\ pc[c] = "ledgerEnd"
    /\ \/ /\ begin' = [begin EXCEPT ![c] = Len(ledger)]
          /\ alone' = [alone EXCEPT ![c] = \A s \in inflight : s.id # given[c]]
          /\ GoTo(c, IF flow[c] = "signAndWait" THEN "prepare" ELSE "execute")
          /\ UNCHANGED result
       \/ Return(c, "error", 0) /\ UNCHANGED <<begin, alone>>
    /\ UNCHANGED <<partyID, participant, flow, given, calls, cmd, as, watch, cursor, moved>>

\* commandIDOrNew.
CommandIDOrNew(c) == IF given[c] = Empty THEN <<c, calls[c]>> ELSE given[c]

\* GetPartyID and commandIDOrNew, as PrepareSubmission and both submits begin; for
\* the signing flows the prepare request is answered or fails here too.
Prepare(c) ==
    /\ pc[c] = "prepare"
    /\ \/ /\ cmd' = [cmd EXCEPT ![c] = CommandIDOrNew(c)]
          /\ as' = [as EXCEPT ![c] = partyID]
          /\ GoTo(c, IF flow[c] = "externalSign" THEN "ledgerEnd" ELSE "execute")
          /\ UNCHANGED result
       \/ Return(c, "error", 0) /\ UNCHANGED <<cmd, as>>
    /\ UNCHANGED <<partyID, participant, flow, given, calls, begin, watch, cursor, moved, alone>>

\* The submission reaches the participant; a signature of another party than the
\* one prepared for is refused.
Accept(c) ==
    /\ flow[c] \in {"signAndWait", "externalSign"} => partyID = as[c]
    /\ inflight' = inflight \cup {[by |-> <<c, calls[c]>>, id |-> cmd[c], party |-> as[c]]}
    /\ alone' = [d \in Clients |-> alone[d] /\ (d = c \/ cmd[c] # given[d])]

\* ExecuteSubmission, Submit or SubmitAndWait is called: the participant takes the
\* submission or not, and the answer arrives or not.
Execute(c) ==
    /\ pc[c] = "execute"
    /\ \/ /\ Accept(c)
          /\ CASE flow[c] = "submit" -> Return(c, "submitted", 0)
               [] flow[c] = "submitAndWait" -> GoTo(c, "answer") /\ UNCHANGED result
               [] OTHER -> GoTo(c, "stream") /\ UNCHANGED result
       \/ (Accept(c) \/ UNCHANGED <<inflight, alone>>) /\ Return(c, "error", 0)
    /\ UNCHANGED <<partyID, ledger, flow, given, calls, cmd, as, begin, watch, cursor, moved>>

Mine(c, i) == ledger[i].by = <<c, calls[c]>>

\* SubmitAndWait answers with this submission's outcome, or its answer is lost.
Answer(c) ==
    /\ pc[c] = "answer"
    /\ \/ \E i \in 1..Len(ledger) :
             Mine(c, i) /\ Return(c, IF ledger[i].ok THEN "completed" ELSE "error", i)
       \/ Return(c, "error", 0)
    /\ UNCHANGED <<partyID, participant, flow, given, calls, cmd, as, begin, watch, cursor, moved, alone>>

\* The completion stream of the party of this moment, read from position on.
OpenFrom(c, offset, position) ==
    /\ pc[c] = "stream"
    /\ watch' = [watch EXCEPT ![c] = partyID]
    /\ begin' = [begin EXCEPT ![c] = offset]
    /\ cursor' = [cursor EXCEPT ![c] = position]
    /\ GoTo(c, "wait")
    /\ UNCHANGED <<partyID, participant, flow, given, calls, cmd, as, result, moved, alone>>

\* Mutants: the ledger end is asked for again; the stream begins at the end of the
\* ledger; it begins at its beginning.
OpenAtNewEnd(c)  == OpenFrom(c, Len(ledger), Len(ledger))
OpenLate(c)      == OpenFrom(c, begin[c], Len(ledger))
OpenAtOrigin(c)  == OpenFrom(c, begin[c], 0)

\* WaitForCompletion opens the stream after ledgerEnd.
OpenStream(c) == OpenFrom(c, begin[c], begin[c])

\* The id WaitForCompletion compares with: the caller's, not the generated one.
Awaited(c) == given[c]

\* resp := <-responseChan: the next completion, of this party or skipped by the
\* participant.  A match ends the wait whatever the completion's status.
ReadCompletion(c) ==
    LET i == cursor[c] + 1 IN
    /\ pc[c] = "wait"
    /\ i <= Len(ledger)
    /\ cursor' = [cursor EXCEPT ![c] = i]
    /\ IF ledger[i].party = watch[c] /\ ledger[i].id = Awaited(c)
       THEN Return(c, "completed", i)
       ELSE UNCHANGED <<pc, result>>
    /\ UNCHANGED <<partyID, participant, flow, given, calls, cmd, as, begin, watch, moved, alone>>

\* The stream closes or fails, or ctx is done.
StreamEnds(c) ==
    /\ pc[c] = "wait"
    /\ Return(c, "error", 0)
    /\ UNCHANGED <<partyID, participant, flow, given, calls, cmd, as, begin, watch, cursor, moved, alone>>

\* Mutant: the deadline is looked at only when a response arrives.
TimeoutOnResponse(c) ==
    /\ pc[c] = "wait"
    /\ cursor[c] < Len(ledger)
    /\ Return(c, "timeout", 0)
    /\ UNCHANGED <<partyID, participant, flow, given, calls, cmd, as, begin, watch, cursor, moved, alone>>

\* The deadline passes; a patient client's only once the participant has completed
\* its submission and the stream has been read to its end.
Timeout(c) ==
    /\ pc[c] = "wait"
    /\ c \in Patient => /\ cursor[c] = Len(ledger)
                        /\ \A s \in inflight : s.by # <<c, calls[c]>>
    /\ Return(c, "timeout", 0)
    /\ UNCHANGED <<partyID, participant, flow, given, calls, cmd, as, begin, watch, cursor, moved, alone>>

\* The participant (external) completes a submission; an id already committed for
\* the party is a duplicate and is rejected.
Complete(s) ==
    /\ s \in inflight
    /\ inflight' = inflight \ {s}
    /\ \E ok \in BOOLEAN :
          /\ ok => ~\E i \in 1..Len(ledger) :
                      ledger[i].ok /\ ledger[i].id = s.id /\ ledger[i].party = s.party
          /\ ledger' = Append(ledger, [by |-> s.by, id |-> s.id, party |-> s.party, ok |-> ok])
    /\ UNCHANGED <<partyID, locals>>

\* LedgerController.SetPartyID.
SetPartyID(p) ==
    /\ p # partyID
    /\ partyID' = p
    /\ moved' = [c \in Clients |-> TRUE]
    /\ UNCHANGED <<participant, pc, flow, given, calls, cmd, as, begin, watch, cursor, result, alone>>

Step(c) ==
    \/ LedgerEnd(c) \/ Prepare(c) \/ Execute(c) \/ Answer(c)
    \/ OpenStream(c) \/ ReadCompletion(c) \/ StreamEnds(c) \/ Timeout(c)

Next ==
    \/ \E c \in Clients : Step(c) \/ \E f \in Flows, id \in Given : Call(c, f, id)
    \/ \E s \in inflight : Complete(s)
    \/ \E p \in Parties : SetPartyID(p)

Spec == Init /\ [][Next]_vars

\* Goroutines run, the requests are answered or fail, the deadline passes and the
\* participant completes what it took; nothing makes the stream end or fail.
FairSpec ==
    /\ Spec
    /\ \A c \in Clients :
         /\ WF_vars(LedgerEnd(c) \/ Prepare(c) \/ Execute(c) \/ Answer(c) \/ OpenStream(c))
         /\ WF_vars(ReadCompletion(c) \/ Timeout(c))
    /\ WF_vars(\E s \in inflight : Complete(s))
-----------------------------------------------------------------------------
\* Typing.  The completion of a transaction a client executed is never before the
\* offset its stream begins at, however fast the participant is.
SubmissionInv ==
    /\ partyID \in Parties
    /\ inflight \in SUBSET Submissions
    /\ ledger \in Seq([by : GeneratedIds, id : Ids \cup GeneratedIds,
                       party : Parties, ok : BOOLEAN])
    /\ pc \in [Clients -> {"idle", "ledgerEnd", "prepare", "execute", "answer",
                           "stream", "wait"}]
    /\ flow \in [Clients -> Flows]
    /\ given \in [Clients -> Ids \cup {Empty}]
    /\ calls \in [Clients -> 0..MaxCalls]
    /\ cmd \in [Clients -> Ids \cup GeneratedIds \cup {Empty}]
    /\ as \in [Clients -> Parties]
    /\ begin \in [Clients -> Nat]
    /\ watch \in [Clients -> Parties]
    /\ cursor \in [Clients -> Nat]
    /\ result \in [Clients -> [kind : {"none", "error", "submitted", "completed", "timeout"},
                               at : Nat]]
    /\ moved \in [Clients -> BOOLEAN]
    /\ alone \in [Clients -> BOOLEAN]
    /\ \A c \in Clients : pc[c] \in {"stream", "wait"}
        => \A i \in 1..Len(ledger) : Mine(c, i) => i > begin[c]

\* A wait reports a completion that comes after the ledger end its call began with and
\* carries the id it waits for; and it is the completion of the call's own submission,
\* unless another submission with that id was under way at that ledger end or was sent
\* during the call.  So a retry, whose command id earlier calls used, reports none of
\* theirs once they are completed.
ReportsOwnCompletion ==
    \A c \in Clients :
        result[c].kind = "completed" /\ flow[c] # "submitAndWait"
        => LET i == result[c].at IN
           /\ i > begin[c] /\ ledger[i].id = given[c]
           /\ alone[c] => ledger[i].by = <<c, calls[c]>>

\* What a caller of an ...AndWaitFor flow may expect, and does not get: of two calls
\* with one command id that overlap the second may report the completion of the first.
ReportsOnlyOwnCompletion ==
    \A c \in Clients :
        result[c].kind = "completed" /\ flow[c] # "submitAndWait"
        => ledger[result[c].at].by = <<c, calls[c]>>

\* A client that waits longer than the participant takes and keeps its party is
\* told "timeout" only if its transaction did not complete.
TimeoutMeansNotCompleted ==
    \A c \in Patient :
        result[c].kind = "timeout" /\ ~moved[c]
        => \A i \in 1..Len(ledger) : ~Mine(c, i)

\* Every call returns, whether or not its completion ever comes.
CallsReturn == \A c \in Clients : pc[c] # "idle" ~> pc[c] = "idle"
=============================================================================
