------------------------------- MODULE DappClient -------------------------------
(***************************************************************************)
(* pkg/dapp/client.go over the event emitter: concurrent PrepareExecute    *)
(* and PrepareExecuteAndWait calls announce their progress to subscribers, *)
(* while others subscribe, read and disconnect.                            *)
(***************************************************************************)
EXTENDS EventEmitter

CONSTANTS
    Commands,       \* the calls, each with a goroutine of its own
    Ids,            \* command ids: a caller's own, as a retry repeats them, or fresh ones
    Subscribers,    \* one goroutine and one fresh channel per subscription
    Disconnecters   \* goroutines that call Disconnect

ASSUME RolesAssumption ==
    /\ Routines = Commands \cup Subscribers \cup Disconnecters
    /\ Chans = Subscribers
    /\ Events = [call : Commands, id : Ids, status : {"pending", "executed", "failed"}]
    /\ Ids # {}
    /\ Kinds = {"accounts", "tx"}

VARIABLES
    stage,      \* of each call
    mode,       \* "execute" or "executeAndWait"
    id,         \* the command id of each call
    subscribed, \* the subscribers that have called
    got,        \* the events each subscriber has received, in order
    looping,    \* the subscribers that range over their channel; others may never read
    after       \* history: the calls that had returned when a call began

dappVars == <<op, readers, writer, listeners, targets, buffer, closed, panicked, missed,
              stage, mode, id, subscribed, got, looping, after>>
dappOnly == <<stage, mode, id, subscribed, got, looping, after>>

Init ==
    /\ EmitterInit
    /\ stage = [c \in Commands |-> "idle"]
    /\ mode = [c \in Commands |-> "none"]
    /\ id \in [Commands -> Ids]
    /\ after = [c \in Commands |-> {}]
    /\ subscribed = {}
    /\ got = [s \in Subscribers |-> <<>>]
    /\ looping \in SUBSET Subscribers

\* The event carries the command id; which call sent it, only the model knows.
EmitTx(c, status) ==
    Begin(c, [do |-> "emit", kind |-> "tx",
              event |-> [call |-> c, id |-> id[c], status |-> status]])

\* A call returns once its last event is handed to every listener.
Returned(c) == stage[c] \in {"last", "failed"} /\ op[c] \notin Emits

\* A call begins with its command id: req.CommandID, which several calls may share, or
\* a fresh one.
Start(c, m) ==
    /\ stage[c] = "idle"
    /\ mode' = [mode EXCEPT ![c] = m]
    /\ after' = [after EXCEPT ![c] = {d \in Commands : Returned(d)}]
    /\ UNCHANGED <<id, subscribed, got, looping>>

\* PrepareExecute is called; ErrNoUserLedger is one of its ways to fail.
PrepareExecute(c) ==
    /\ Start(c, "execute")
    /\ stage' = [stage EXCEPT ![c] = "prepare"]
    /\ UNCHANGED emitterVars

\* PrepareSubmission answers: the prepared transaction is dropped and the pending
\* event is all that follows.
Prepared(c) ==
    /\ stage[c] = "prepare"
    /\ \/ EmitTx(c, "pending") /\ stage' = [stage EXCEPT ![c] = "last"]
       \/ stage' = [stage EXCEPT ![c] = "failed"] /\ UNCHANGED emitterVars
    /\ UNCHANGED <<mode, id, subscribed, got, looping, after>>

\* PrepareExecuteAndWait is called: the pending event goes out first.
PrepareExecuteAndWait(c) ==
    /\ Start(c, "executeAndWait")
    /\ EmitTx(c, "pending")
    /\ stage' = [stage EXCEPT ![c] = "submit"]

\* Mutants: a failure is announced and the submission retried; a failure is not
\* announced.
SubmittedRetrying(c) ==
    /\ stage[c] = "submit"
    /\ \/ EmitTx(c, "executed") /\ stage' = [stage EXCEPT ![c] = "last"]
       \/ EmitTx(c, "failed") /\ UNCHANGED stage
    /\ UNCHANGED <<mode, id, subscribed, got, looping, after>>

SubmittedQuietly(c) ==
    /\ stage[c] = "submit"
    /\ EmitTx(c, "executed") \/ UNCHANGED emitterVars
    /\ stage' = [stage EXCEPT ![c] = "last"]
    /\ UNCHANGED <<mode, id, subscribed, got, looping, after>>

\* SubmitCommandAndWait answers and its outcome is emitted.
Submitted(c) ==
    /\ stage[c] = "submit"
    /\ EmitTx(c, "executed") \/ EmitTx(c, "failed")
    /\ stage' = [stage EXCEPT ![c] = "last"]
    /\ UNCHANGED <<mode, id, subscribed, got, looping, after>>

\* SubscribeTxChanged and SubscribeAccountsChanged: a fresh channel is added.
Subscribe(s, k) ==
    /\ s \notin subscribed
    /\ subscribed' = subscribed \cup {s}
    /\ Begin(s, [do |-> "add", kind |-> k, ch |-> s])
    /\ UNCHANGED <<stage, mode, id, got, looping, after>>

Disconnect(d) ==
    /\ Begin(d, [do |-> "close"])
    /\ UNCHANGED dappOnly

\* for event := range txChan.
Read(s) ==
    /\ Receive(s)
    /\ got' = [got EXCEPT ![s] = Append(@, Head(buffer[s]))]
    /\ UNCHANGED <<stage, mode, id, subscribed, looping, after>>

RunEmitter(g) == RunForClient(g) /\ UNCHANGED dappOnly

Next ==
    \/ \E c \in Commands : PrepareExecute(c) \/ PrepareExecuteAndWait(c)
                           \/ Prepared(c) \/ Submitted(c)
    \/ \E s \in Subscribers : Read(s) \/ \E k \in Kinds : Subscribe(s, k)
    \/ \E d \in Disconnecters : Disconnect(d)
    \/ \E g \in Routines : RunEmitter(g)

Spec == Init /\ [][Next]_dappVars

\* Goroutines run, the lock starves nobody and the participant answers its calls
\* (a ctx with a deadline bounds both).  sync.RWMutex starves nobody: a goroutine that
\* could take it again and again takes it.  A looping subscriber, as in the README's
\* example, reads what arrives; nobody else has to read.
FairSpec ==
    /\ Spec
    /\ \A c \in Commands : WF_dappVars(Prepared(c) \/ Submitted(c))
    /\ \A s \in Subscribers : WF_dappVars(s \in looping /\ Read(s))
    /\ \A g \in Routines : SF_dappVars(RunEmitter(g))
-----------------------------------------------------------------------------
\* The client's own variables are typed.
ClientTypeOK ==
    /\ stage \in [Commands -> {"idle", "prepare", "submit", "last", "failed"}]
    /\ mode \in [Commands -> {"none", "execute", "executeAndWait"}]
    /\ subscribed \in SUBSET Subscribers
    /\ got \in [Subscribers -> Seq(Events)]
    /\ id \in [Commands -> Ids]
    /\ looping \in SUBSET Subscribers
    /\ after \in [Commands -> SUBSET Commands]

\* A channel is known to the emitter only after its subscriber's call, so that every
\* add brings a fresh channel: what the emitter asks of its callers (Fresh).
ChannelsKnown ==
    /\ closed \subseteq subscribed
    /\ \A k \in Kinds : \A i \in 1..Len(listeners[k]) : listeners[k][i] \in subscribed
    /\ \A g \in Routines : op[g] \in Adds => op[g].ch \in subscribed

\* All a subscriber has received or will still receive from its channel.
Stream(s) == got[s] \o buffer[s]

\* A subscriber has not been told of a call any of some statuses.
Untold(s, c, statuses) ==
    \A i \in 1..Len(Stream(s)) : Stream(s)[i].call = c => Stream(s)[i].status \notin statuses

\* Among some events, one of a call has one of some statuses.
Told(events, c, statuses) ==
    \E i \in 1..Len(events) : events[i].call = c /\ events[i].status \in statuses

Outcomes == {"executed", "failed"}

\* A call announces itself: pending before its last stage, whatever it ends with in it.
AnnouncesItself ==
    \A g \in Routines : op[g] \in Emits =>
        /\ g \in Commands
        /\ op[g].event.call = g /\ op[g].event.id = id[g]
        /\ stage[g] = "last" \/ (stage[g] = "submit" /\ op[g].event.status = "pending")

\* No channel is served twice by an emit call.
ServedOnce ==
    \A g \in Routines : \A i, j \in 1..Len(targets[g]) : targets[g][i] = targets[g][j] => i = j

\* What a call announces is new to whoever it has not served, no outcome is known
\* before it is emitted, and nothing before the first announcement.
AnnouncedInTurn ==
    \A c \in Commands, s \in Subscribers :
        /\ stage[c] \in {"idle", "prepare", "failed"} => Untold(s, c, {"pending"} \cup Outcomes)
        /\ stage[c] = "submit" => Untold(s, c, Outcomes)
        /\ op[c] \in Emits =>
              /\ op[c].event.status = "pending" => Untold(s, c, Outcomes)
              /\ c \notin readers \/ Contains(targets[c], s)
                 => \/ op[c].event.status = "pending" /\ Untold(s, c, {"pending"})
                    \/ op[c].event.status # "pending" /\ Untold(s, c, Outcomes)

\* What had returned when a call began has returned.
ReturnedForGood == \A c \in Commands : \A d \in after[c] : Returned(d)

\* The client's part of the invariant, on top of its emitter's own.
ClientInv ==
    /\ EmitterInv /\ ClientTypeOK /\ ChannelsKnown
    /\ AnnouncesItself /\ ServedOnce /\ AnnouncedInTurn /\ ReturnedForGood

\* However calls interleave, whatever command ids they share and whatever full channels
\* miss, the events a subscriber gets of one call come once each, with pending first
\* and one outcome at most; and if one call returned before another began, as the
\* attempt before a retry with its id, all that the subscriber gets of the first comes
\* before anything of the second.
EventsInOrder ==
    \A s \in Subscribers : \A i, j \in 1..Len(Stream(s)) : i < j =>
        /\ Stream(s)[i].call = Stream(s)[j].call
           => Stream(s)[i].status = "pending" /\ Stream(s)[j].status # "pending"
        /\ Stream(s)[j].call \notin after[Stream(s)[i].call]

\* A subscriber that reads and is told that a PrepareExecuteAndWait is pending is told
\* its outcome too, success or failure, unless its channel was once full or a
\* Disconnect closes it first.
OutcomeFollows ==
    \A s \in Subscribers, c \in Commands :
        s \in looping /\ mode[c] = "executeAndWait" /\ Told(Stream(s), c, {"pending"})
        ~> \/ s \in closed \cup missed
           \/ Told(got[s], c, Outcomes)

\* A Disconnect called while a subscription of either kind is registered closes its
\* channel and so ends the subscriber's loop.
DisconnectEndsSubscriptions ==
    \A s \in Subscribers :
        Registered(s) /\ (\E d \in Disconnecters : op[d] \in Closes) ~> s \in closed

\* README: `PrepareExecute(ctx, req)` prepares and triggers the execution flow.  A
\* transaction it announces as pending is executed or fails.
PendingIsSettled ==
    \A s \in Subscribers, c \in Commands :
        s \in looping /\ Told(Stream(s), c, {"pending"})
        ~> s \in closed \/ Told(got[s], c, Outcomes)
=============================================================================
