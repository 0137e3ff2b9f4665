------------------------------ MODULE EventEmitter ------------------------------
(***************************************************************************)
(* pkg/dapp/events.go: listeners are Go channels kept in two lists under a *)
(* sync.RWMutex.  Emitting holds the read lock and sends without blocking; *)
(* adding, removing and closing hold the write lock.  As in Go, a writer   *)
(* that waits for readers to leave keeps new readers out.                  *)
(***************************************************************************)
EXTENDS Integers, Sequences, SequencesExt

CONSTANTS
    Routines,   \* goroutines, each in one operation at a time
    Kinds,      \* the two listener lists, "accounts" and "tx"
    Chans,      \* listener channels
    Events,
    Cap,        \* a channel's buffer: 10 in pkg/dapp/client.go
    Idle, Nobody

ASSUME CapAssumption == Cap \in Nat \ {0}
ASSUME NobodyAssumption == Nobody \notin Routines

VARIABLES
    op,         \* each goroutine's operation, or Idle
    readers,    \* goroutines that hold the read lock
    writer,     \* the goroutine that holds the write lock or waits for the readers
    listeners,  \* accountsListeners and txListeners
    targets,    \* the channels an emitting goroutine has still to serve
    buffer,     \* the events in each channel
    closed,     \* channels that were closed
    panicked,   \* a send on or a close of a closed channel
    missed      \* channels that were full when an event was emitted

emitterVars == <<op, readers, writer, listeners, targets, buffer, closed, panicked, missed>>

Emits   == [do : {"emit"}, kind : Kinds, event : Events]
Adds    == [do : {"add"}, kind : Kinds, ch : Chans]
Removes == [do : {"remove"}, kind : Kinds, ch : Chans]
Closes  == [do : {"close"}]
Writes  == Adds \cup Removes \cup Closes

ASSUME IdleAssumption == Idle \notin Emits \cup Writes

EmitterInit ==
    /\ op = [g \in Routines |-> Idle]
    /\ readers = {}
    /\ writer = Nobody
    /\ listeners = [k \in Kinds |-> <<>>]
    /\ targets = [g \in Routines |-> <<>>]
    /\ buffer = [ch \in Chans |-> <<>>]
    /\ closed = {}
    /\ panicked = FALSE
    /\ missed = {}

Registered(ch) == \E k \in Kinds : Contains(listeners[k], ch)

\* Every add brings a channel that is neither registered nor closed, as the fresh
\* channels of pkg/dapp/client.go are: the emitter checks neither.
Fresh(ch) ==
    /\ ch \notin closed
    /\ ~Registered(ch)
    /\ \A g \in Routines : op[g] \in Adds => op[g].ch # ch

\* A goroutine calls an operation of the emitter.
Begin(g, operation) ==
    /\ op[g] = Idle
    /\ op' = [op EXCEPT ![g] = operation]
    /\ UNCHANGED <<readers, writer, listeners, targets, buffer, closed, panicked, missed>>

\* mu.RLock in EmitAccountsChanged and EmitTxChanged; the range statement then
\* evaluates the list once.
RLock(g) ==
    /\ op[g] \in Emits
    /\ g \notin readers
    /\ writer = Nobody
    /\ readers' = readers \cup {g}
    /\ targets' = [targets EXCEPT ![g] = listeners[op[g].kind]]
    /\ UNCHANGED <<op, writer, listeners, buffer, closed, panicked, missed>>

\* Mutant: the select has no default.
SendBlocking(g) ==
    /\ g \in readers
    /\ targets[g] # <<>>
    /\ Len(buffer[Head(targets[g])]) < Cap
    /\ buffer' = [buffer EXCEPT ![Head(targets[g])] = Append(@, op[g].event)]
    /\ panicked' = (panicked \/ Head(targets[g]) \in closed)
    /\ targets' = [targets EXCEPT ![g] = Tail(@)]
    /\ UNCHANGED <<op, readers, writer, listeners, closed, missed>>

\* select { case ch <- value: default: }: a full channel misses the event.
Send(g) ==
    /\ g \in readers
    /\ targets[g] # <<>>
    /\ LET ch == Head(targets[g]) IN
       /\ IF Len(buffer[ch]) < Cap
          THEN buffer' = [buffer EXCEPT ![ch] = Append(@, op[g].event)] /\ UNCHANGED missed
          ELSE missed' = missed \cup {ch} /\ UNCHANGED buffer
       /\ panicked' = (panicked \/ ch \in closed)
    /\ targets' = [targets EXCEPT ![g] = Tail(@)]
    /\ UNCHANGED <<op, readers, writer, listeners, closed>>

\* mu.RUnlock: the emit call returns.
RUnlock(g) ==
    /\ g \in readers
    /\ targets[g] = <<>>
    /\ readers' = readers \ {g}
    /\ op' = [op EXCEPT ![g] = Idle]
    /\ UNCHANGED <<writer, listeners, targets, buffer, closed, panicked, missed>>

\* mu.Lock, first half: the writer announces itself and keeps new readers out.
Announce(g) ==
    /\ op[g] \in Writes
    /\ writer = Nobody
    /\ writer' = g
    /\ UNCHANGED <<op, readers, listeners, targets, buffer, closed, panicked, missed>>

\* Mutant: writers exclude each other only.
HoldsAgainstWriters(g) == writer = g

\* mu.Lock, second half: the readers have left and the critical section runs.
Holds(g) == writer = g /\ readers = {}

\* mu.Unlock: the call returns.
Unlock(g) ==
    /\ writer' = Nobody
    /\ op' = [op EXCEPT ![g] = Idle]

\* AddAccountsListener, AddTxListener.
AddListener(g) ==
    /\ op[g] \in Adds
    /\ Holds(g)
    /\ listeners' = [listeners EXCEPT ![op[g].kind] = Append(@, op[g].ch)]
    /\ Unlock(g)
    /\ UNCHANGED <<readers, targets, buffer, closed, panicked, missed>>

\* removeListener drops the first occurrence; the channel is not closed.
RemoveListener(g) ==
    /\ op[g] \in Removes
    /\ Holds(g)
    /\ LET k == op[g].kind
           Is(i) == listeners[k][i] = op[g].ch IN
       \/ \E i \in 1..Len(listeners[k]) :
             /\ Is(i)
             /\ \A j \in 1..(i - 1) : ~Is(j)
             /\ listeners' = [listeners EXCEPT ![k] = RemoveAt(@, i)]
       \/ ~Contains(listeners[k], op[g].ch) /\ UNCHANGED listeners
    /\ Unlock(g)
    /\ UNCHANGED <<readers, targets, buffer, closed, panicked, missed>>

\* Mutants: the closed channels stay listed; only the transaction list is closed.
CloseKeepingListeners(g) ==
    /\ op[g] \in Closes
    /\ Holds(g)
    /\ closed' = closed \cup {ch \in Chans : Registered(ch)}
    /\ panicked' = (panicked \/ \E ch \in closed : Registered(ch))
    /\ Unlock(g)
    /\ UNCHANGED <<readers, targets, buffer, listeners, missed>>

CloseTxOnly(g) ==
    /\ op[g] \in Closes
    /\ Holds(g)
    /\ closed' = closed \cup {ch \in Chans : Contains(listeners["tx"], ch)}
    /\ listeners' = [k \in Kinds |-> <<>>]
    /\ Unlock(g)
    /\ UNCHANGED <<readers, targets, buffer, panicked, missed>>

\* Close closes every listener of both lists and forgets them.
Close(g) ==
    /\ op[g] \in Closes
    /\ Holds(g)
    /\ closed' = closed \cup {ch \in Chans : Registered(ch)}
    /\ panicked' = (panicked \/ \E ch \in closed : Registered(ch)
                    \/ \E k \in Kinds : \E i, j \in 1..Len(listeners[k]) :
                          i # j /\ listeners[k][i] = listeners[k][j])
    /\ listeners' = [k \in Kinds |-> <<>>]
    /\ Unlock(g)
    /\ UNCHANGED <<readers, targets, buffer, missed>>

\* A subscriber receives the oldest event of its channel.
Receive(ch) ==
    /\ buffer[ch] # <<>>
    /\ buffer' = [buffer EXCEPT ![ch] = Tail(@)]
    /\ UNCHANGED <<op, readers, writer, listeners, targets, closed, panicked, missed>>

\* The steps of an operation once it is called: those pkg/dapp/client.go uses, and
\* the removal, which only the emitter offers.
RunForClient(g) ==
    RLock(g) \/ Send(g) \/ RUnlock(g) \/ Announce(g) \/ AddListener(g) \/ Close(g)

Run(g) == RunForClient(g) \/ RemoveListener(g)

EmitterNext ==
    \/ \E g \in Routines :
         \/ Run(g)
         \/ \E o \in Emits \cup Removes \cup Closes : Begin(g, o)
         \/ \E o \in Adds : Fresh(o.ch) /\ Begin(g, o)
    \/ \E ch \in Chans : Receive(ch)

EmitterSpec == EmitterInit /\ [][EmitterNext]_emitterVars
-----------------------------------------------------------------------------
\* Every variable stays in its type.
EmitterTypeOK ==
    /\ op \in [Routines -> Emits \cup Writes \cup {Idle}]
    /\ readers \in SUBSET Routines
    /\ writer \in Routines \cup {Nobody}
    /\ listeners \in [Kinds -> Seq(Chans)]
    /\ targets \in [Routines -> Seq(Chans)]
    /\ buffer \in [Chans -> Seq(Events)]
    /\ closed \in SUBSET Chans
    /\ panicked \in BOOLEAN
    /\ missed \in SUBSET Chans

\* Whoever sends holds the read lock and is in an emit call; targets are left to
\* serve only under that lock.
LockDiscipline ==
    /\ \A g \in readers : op[g] \in Emits
    /\ \A g \in Routines : targets[g] # <<>> => g \in readers
    /\ writer # Nobody => op[writer] \in Writes

\* A channel a goroutine is about to serve, one that is listed and one that is about
\* to be added are open, whatever was closed meanwhile.
OpenWhenUsed ==
    /\ \A g \in Routines : \A i \in 1..Len(targets[g]) : targets[g][i] \notin closed
    /\ \A k \in Kinds : \A i \in 1..Len(listeners[k]) : listeners[k][i] \notin closed
    /\ \A g \in Routines : op[g] \in Adds => op[g].ch \notin closed

\* No channel is listed or about to be listed twice, in one list or in both.
ListedOnce ==
    /\ \A k, l \in Kinds : \A i \in 1..Len(listeners[k]), j \in 1..Len(listeners[l]) :
          listeners[k][i] = listeners[l][j] => k = l /\ i = j
    /\ \A g \in Routines : op[g] \in Adds =>
          \A k \in Kinds : \A i \in 1..Len(listeners[k]) : listeners[k][i] # op[g].ch
    /\ \A g, h \in Routines :
          op[g] \in Adds /\ op[h] \in Adds /\ op[g].ch = op[h].ch => g = h

\* Types, lock and channels together, which is inductive: no interleaving leaves a
\* closed channel where it can still be sent to or closed.
EmitterInv == EmitterTypeOK /\ LockDiscipline /\ OpenWhenUsed /\ ListedOnce

\* No interleaving of emitters, subscribers and any number of Close calls sends on
\* a closed channel or closes a channel twice, either of which would end the
\* program.
NeverPanics == ~panicked

\* Emit, Close and the rest return although no subscriber ever reads: a full
\* channel blocks neither its emitter nor the writers behind the read lock.
OperationsEnd == \A g \in Routines : op[g] # Idle ~> op[g] = Idle
=============================================================================
