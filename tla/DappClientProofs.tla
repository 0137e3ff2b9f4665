---------------------------- MODULE DappClientProofs ----------------------------
(***************************************************************************)
(* Theorems about EventEmitter for any goroutines, channels, events and    *)
(* buffer sizes, removals included, then about DappClient for any          *)
(* commands, subscribers and disconnecting goroutines: the client uses its *)
(* emitter as the emitter asks to be used, so what is proved of the        *)
(* emitter holds of the client.                                            *)
(***************************************************************************)
EXTENDS DappClient, SequenceTheorems, TLAPS
-----------------------------------------------------------------------------
\* What removeListener leaves of a list: all listeners but one, each in a place that
\* is determined by its old one.
LEMMA RemoveAtKeepsTheRest ==
    ASSUME NEW S, NEW s \in Seq(S), NEW m \in 1..Len(s)
    PROVE  /\ RemoveAt(s, m) \in Seq(S)
           /\ Len(RemoveAt(s, m)) = Len(s) - 1
           /\ \A i \in 1..Len(RemoveAt(s, m)) :
                 RemoveAt(s, m)[i] = s[IF i < m THEN i ELSE i + 1]
<1> DEFINE a == SubSeq(s, 1, m - 1)
           b == SubSeq(s, m + 1, Len(s))
<1>0. Len(s) \in Nat /\ \A i \in 1..Len(s) : s[i] \in S
  BY LenProperties, ElementOfSeq
<1>1. /\ a \in Seq(S)
      /\ Len(a) = m - 1
      /\ \A i \in 1..(m - 1) : a[i] = s[i]
  BY <1>0, SubSeqProperties
<1>2. /\ b \in Seq(S)
      /\ Len(b) = Len(s) - m
      /\ \A i \in 1..(Len(s) - m) : b[i] = s[m + i]
  <2>1. m + 1 \in Int /\ Len(s) \in Int /\ \A i \in (m + 1)..Len(s) : s[i] \in S
    BY <1>0
  <2> QED BY <1>0, <2>1, SubSeqProperties
<1> HIDE DEF a, b
<1>3. /\ a \o b \in Seq(S)
      /\ Len(a \o b) = Len(s) - 1
      /\ \A i \in 1..(Len(s) - 1) : (a \o b)[i] = IF i <= Len(a) THEN a[i] ELSE b[i - Len(a)]
  BY <1>0, <1>1, <1>2, ConcatProperties
<1>4. RemoveAt(s, m) = a \o b
  BY DEF RemoveAt, a, b
<1>5. ASSUME NEW i \in 1..Len(a \o b) PROVE (a \o b)[i] = s[IF i < m THEN i ELSE i + 1]
  <2>1. CASE i < m
    BY <2>1, <1>0, <1>1, <1>3
  <2>2. CASE i >= m
    <3>1. (a \o b)[i] = b[i - (m - 1)] /\ i - (m - 1) \in 1..(Len(s) - m)
      BY <2>2, <1>0, <1>1, <1>3
    <3>2. b[i - (m - 1)] = s[m + (i - (m - 1))]
      BY <3>1, <1>2
    <3>3. m + (i - (m - 1)) = i + 1
      BY <1>0, <1>3
    <3> QED BY <2>2, <3>1, <3>2, <3>3
  <2> QED BY <1>0, <1>3, <2>1, <2>2
<1> QED BY <1>3, <1>4, <1>5

\* An operation is an emit, an add, a remove or a close, and none of them is Idle.
LEMMA OperationsDiffer ==
    /\ Idle \notin Emits \cup Adds \cup Removes \cup Closes
    /\ Emits \cap Writes = {}
    /\ Adds \cap Removes = {} /\ Adds \cap Closes = {} /\ Removes \cap Closes = {}
    /\ \A o \in Adds : o.ch \in Chans /\ o.kind \in Kinds
    /\ \A o \in Removes : o.kind \in Kinds
    /\ \A o \in Emits : o.kind \in Kinds /\ o.event \in Events
BY IdleAssumption DEF Emits, Adds, Removes, Closes, Writes

LEMMA InvInit == EmitterInit => EmitterInv /\ NeverPanics
<1> SUFFICES ASSUME EmitterInit PROVE EmitterInv /\ NeverPanics
  OBVIOUS
<1> USE OperationsDiffer DEF EmitterInit
<1>1. EmitterTypeOK
  <2>1. <<>> \in Seq(Chans) /\ <<>> \in Seq(Events)
    BY EmptySeq
  <2> QED BY <2>1 DEF EmitterTypeOK
<1>2. LockDiscipline
  BY NobodyAssumption DEF LockDiscipline
<1>3. OpenWhenUsed
  BY DEF OpenWhenUsed
<1>4. ListedOnce
  BY DEF ListedOnce
<1> QED BY <1>1, <1>2, <1>3, <1>4 DEF EmitterInv, NeverPanics

\* Only a call of an operation, the lock and the lists change; each step by itself.
LEMMA TypeStep == EmitterInv /\ [EmitterNext]_emitterVars => EmitterTypeOK'
<1> SUFFICES ASSUME EmitterInv, [EmitterNext]_emitterVars PROVE EmitterTypeOK'
  OBVIOUS
<1> USE OperationsDiffer DEF EmitterInv, EmitterTypeOK, Unlock
<1>1. ASSUME NEW g \in Routines, NEW o \in Emits \cup Writes, Begin(g, o) PROVE EmitterTypeOK'
  BY <1>1 DEF Begin
<1>2. ASSUME NEW g \in Routines, RLock(g) PROVE EmitterTypeOK'
  BY <1>2 DEF RLock
<1>3. ASSUME NEW g \in Routines, Send(g) PROVE EmitterTypeOK'
  <2>1. op[g] \in Emits /\ Head(targets[g]) \in Chans /\ Tail(targets[g]) \in Seq(Chans)
    BY <1>3, HeadTailProperties DEF Send, LockDiscipline
  <2>2. Append(buffer[Head(targets[g])], op[g].event) \in Seq(Events)
    BY <2>1
  <2> QED BY <1>3, <2>1, <2>2 DEF Send
<1>4. ASSUME NEW g \in Routines, RUnlock(g) PROVE EmitterTypeOK'
  BY <1>4 DEF RUnlock
<1>5. ASSUME NEW g \in Routines, Announce(g) PROVE EmitterTypeOK'
  BY <1>5 DEF Announce
<1>6. ASSUME NEW g \in Routines, AddListener(g) PROVE EmitterTypeOK'
  BY <1>6 DEF AddListener
<1>7. ASSUME NEW g \in Routines, RemoveListener(g) PROVE EmitterTypeOK'
  <2>1. CASE UNCHANGED listeners
    BY <1>7, <2>1 DEF RemoveListener
  <2>2. ASSUME NEW m \in 1..Len(listeners[op[g].kind]),
               listeners' = [listeners EXCEPT ![op[g].kind] = RemoveAt(@, m)]
        PROVE  EmitterTypeOK'
    <3>1. RemoveAt(listeners[op[g].kind], m) \in Seq(Chans)
      BY <1>7, RemoveAtKeepsTheRest DEF RemoveListener
    <3> QED BY <1>7, <2>2, <3>1 DEF RemoveListener
  <2> QED BY <1>7, <2>1, <2>2 DEF RemoveListener
<1>8. ASSUME NEW g \in Routines, Close(g) PROVE EmitterTypeOK'
  BY <1>8 DEF Close
<1>9. ASSUME NEW ch \in Chans, Receive(ch) PROVE EmitterTypeOK'
  BY <1>9, HeadTailProperties DEF Receive
<1>10. CASE UNCHANGED emitterVars
  BY <1>10 DEF emitterVars
<1> QED BY <1>1, <1>2, <1>3, <1>4, <1>5, <1>6, <1>7, <1>8, <1>9, <1>10 DEF EmitterNext, Run, RunForClient, Writes

\* The lock keeps its discipline.
LEMMA LockStep == EmitterInv /\ [EmitterNext]_emitterVars => LockDiscipline'
<1> SUFFICES ASSUME EmitterInv, [EmitterNext]_emitterVars PROVE LockDiscipline'
  OBVIOUS
<1> USE OperationsDiffer, NobodyAssumption DEF EmitterInv, EmitterTypeOK, LockDiscipline, Unlock
<1>1. ASSUME NEW g \in Routines, NEW o \in Emits \cup Writes, Begin(g, o) PROVE LockDiscipline'
  BY <1>1 DEF Begin, Writes
<1>2. ASSUME NEW g \in Routines, RLock(g) PROVE LockDiscipline'
  BY <1>2 DEF RLock
<1>3. ASSUME NEW g \in Routines, Send(g) PROVE LockDiscipline'
  BY <1>3 DEF Send
<1>4. ASSUME NEW g \in Routines, RUnlock(g) PROVE LockDiscipline'
  BY <1>4 DEF RUnlock
<1>5. ASSUME NEW g \in Routines, Announce(g) PROVE LockDiscipline'
  BY <1>5 DEF Announce
<1>6. ASSUME NEW g \in Routines, AddListener(g) PROVE LockDiscipline'
  BY <1>6 DEF AddListener, Holds
<1>7. ASSUME NEW g \in Routines, RemoveListener(g) PROVE LockDiscipline'
  BY <1>7 DEF RemoveListener, Holds
<1>8. ASSUME NEW g \in Routines, Close(g) PROVE LockDiscipline'
  BY <1>8 DEF Close, Holds
<1>9. ASSUME NEW ch \in Chans, Receive(ch) PROVE LockDiscipline'
  BY <1>9 DEF Receive
<1>10. CASE UNCHANGED emitterVars
  BY <1>10 DEF emitterVars
<1> QED BY <1>1, <1>2, <1>3, <1>4, <1>5, <1>6, <1>7, <1>8, <1>9, <1>10 DEF EmitterNext, Run, RunForClient, Writes

\* While a writer is in its critical section nobody has a channel left to serve.
LEMMA NobodySends ==
    ASSUME EmitterInv, NEW g \in Routines, Holds(g)
    PROVE  \A h \in Routines : targets[h] = <<>>
BY DEF EmitterInv, LockDiscipline, Holds

\* A list with one more listener.
LEMMA AppendPlaces ==
    ASSUME NEW S, NEW s \in Seq(S), NEW e \in S, NEW i \in 1..Len(Append(s, e))
    PROVE  \/ i \in 1..Len(s) /\ Append(s, e)[i] = s[i]
           \/ i = Len(s) + 1 /\ Append(s, e)[i] = e
BY LenProperties

\* AddListener lists one fresh channel more.
LEMMA AddKeepsChannels ==
    ASSUME EmitterInv, NEW g \in Routines, AddListener(g)
    PROVE  OpenWhenUsed' /\ ListedOnce'
<1> DEFINE k == op[g].kind
           c == op[g].ch
<1>1. /\ op[g] \in Adds /\ k \in Kinds /\ c \in Chans
      /\ listeners' = [listeners EXCEPT ![k] = Append(@, c)]
      /\ op' = [op EXCEPT ![g] = Idle]
      /\ targets' = targets /\ closed' = closed
      /\ listeners \in [Kinds -> Seq(Chans)]
      /\ DOMAIN op = Routines
  BY OperationsDiffer DEF AddListener, Unlock, EmitterInv, EmitterTypeOK
<1>2. OpenWhenUsed /\ ListedOnce
  BY DEF EmitterInv
<1>3. \A h \in Routines : op'[h] \in Adds => h # g /\ op'[h] = op[h]
  BY <1>1, OperationsDiffer
<1>4. ASSUME NEW l \in Kinds, NEW i \in 1..Len(listeners'[l])
      PROVE  \/ i \in 1..Len(listeners[l]) /\ listeners'[l][i] = listeners[l][i]
             \/ l = k /\ i = Len(listeners[k]) + 1 /\ listeners'[l][i] = c
  BY <1>1, AppendPlaces
<1> HIDE DEF k, c
<1>5. \A l \in Kinds : \A i \in 1..Len(listeners'[l]) : listeners'[l][i] \notin closed
  BY <1>1, <1>2, <1>4 DEF OpenWhenUsed, c
<1>6. ASSUME NEW l \in Kinds, NEW n \in Kinds,
             NEW i \in 1..Len(listeners'[l]), NEW j \in 1..Len(listeners'[n]),
             listeners'[l][i] = listeners'[n][j]
      PROVE  l = n /\ i = j
  <2>1. \A m \in Kinds : \A q \in 1..Len(listeners[m]) : listeners[m][q] # c
    BY <1>1, <1>2 DEF ListedOnce, c
  <2>2. CASE i \in 1..Len(listeners[l]) /\ listeners'[l][i] = listeners[l][i]
    <3>1. CASE j \in 1..Len(listeners[n]) /\ listeners'[n][j] = listeners[n][j]
      <4>1. listeners[l][i] = listeners[n][j]
        BY <1>6, <2>2, <3>1
      <4> QED BY <1>2, <2>2, <3>1, <4>1 DEF ListedOnce
    <3>2. CASE n = k /\ j = Len(listeners[k]) + 1 /\ listeners'[n][j] = c
      BY <1>6, <2>1, <2>2, <3>2
    <3> QED BY <1>4, <3>1, <3>2
  <2>3. CASE l = k /\ i = Len(listeners[k]) + 1 /\ listeners'[l][i] = c
    BY <1>4, <1>6, <2>1, <2>3
  <2> QED BY <1>4, <2>2, <2>3
<1>7. ASSUME NEW h \in Routines, op'[h] \in Adds, NEW l \in Kinds, NEW i \in 1..Len(listeners'[l])
      PROVE  listeners'[l][i] # op'[h].ch
  BY <1>1, <1>2, <1>3, <1>4, <1>7 DEF ListedOnce, c
<1>8. OpenWhenUsed'
  BY <1>1, <1>2, <1>3, <1>5 DEF OpenWhenUsed
<1>9. ListedOnce'
  BY <1>2, <1>3, <1>6, <1>7 DEF ListedOnce
<1> QED BY <1>8, <1>9

\* RemoveListener lists one channel less; the others keep a place of their own.
LEMMA RemoveKeepsChannels ==
    ASSUME EmitterInv, NEW g \in Routines, RemoveListener(g)
    PROVE  OpenWhenUsed' /\ ListedOnce'
<1> DEFINE k == op[g].kind
<1>1. /\ k \in Kinds
      /\ op' = [op EXCEPT ![g] = Idle]
      /\ targets' = targets /\ closed' = closed
      /\ listeners \in [Kinds -> Seq(Chans)]
      /\ DOMAIN op = Routines
  BY OperationsDiffer DEF RemoveListener, Unlock, EmitterInv, EmitterTypeOK
<1>2. OpenWhenUsed /\ ListedOnce
  BY DEF EmitterInv
<1>3. \A h \in Routines : op'[h] \in Adds => op'[h] = op[h]
  BY <1>1, OperationsDiffer
<1>4. CASE listeners' = listeners
  BY <1>1, <1>2, <1>3, <1>4 DEF OpenWhenUsed, ListedOnce
<1>5. ASSUME NEW m \in 1..Len(listeners[k]), listeners' = [listeners EXCEPT ![k] = RemoveAt(@, m)]
      PROVE  OpenWhenUsed' /\ ListedOnce'
  <2> DEFINE At(l, i) == IF l = k /\ i >= m THEN i + 1 ELSE i
  <2>1. ASSUME NEW l \in Kinds, NEW i \in 1..Len(listeners'[l])
        PROVE  At(l, i) \in 1..Len(listeners[l]) /\ listeners'[l][i] = listeners[l][At(l, i)]
    <3>1. CASE l = k
      <4> HIDE DEF k
      <4>1. listeners'[k] = RemoveAt(listeners[k], m) /\ listeners[k] \in Seq(Chans)
        BY <1>1, <1>5
      <4>2. /\ Len(listeners'[k]) = Len(listeners[k]) - 1
            /\ \A q \in 1..Len(listeners'[k]) :
                  listeners'[k][q] = listeners[k][IF q < m THEN q ELSE q + 1]
        BY <4>1, RemoveAtKeepsTheRest
      <4>3. Len(listeners[k]) \in Nat
        BY <4>1, LenProperties
      <4>4. i \in 1..(Len(listeners[k]) - 1) /\ At(k, i) = IF i < m THEN i ELSE i + 1
        BY <3>1, <4>2, <4>3
      <4> QED BY <3>1, <4>2, <4>3, <4>4
    <3>2. CASE l # k
      BY <1>1, <1>5, <3>2
    <3> QED BY <3>1, <3>2
  <2>2. \A l \in Kinds : \A i, j \in 1..Len(listeners'[l]) : At(l, i) = At(l, j) => i = j
    OBVIOUS
  <2> HIDE DEF At, k
  <2>3. ASSUME NEW l \in Kinds, NEW i \in 1..Len(listeners'[l])
        PROVE  listeners'[l][i] \notin closed
    <3>1. At(l, i) \in 1..Len(listeners[l]) /\ listeners'[l][i] = listeners[l][At(l, i)]
      BY <2>1
    <3> QED BY <1>2, <3>1 DEF OpenWhenUsed
  <2>4. ASSUME NEW l \in Kinds, NEW n \in Kinds,
               NEW i \in 1..Len(listeners'[l]), NEW j \in 1..Len(listeners'[n]),
               listeners'[l][i] = listeners'[n][j]
        PROVE  l = n /\ i = j
    <3>1. /\ At(l, i) \in 1..Len(listeners[l]) /\ listeners'[l][i] = listeners[l][At(l, i)]
          /\ At(n, j) \in 1..Len(listeners[n]) /\ listeners'[n][j] = listeners[n][At(n, j)]
      BY <2>1
    <3>2. listeners[l][At(l, i)] = listeners[n][At(n, j)]
      BY <2>4, <3>1
    <3>3. l = n /\ At(l, i) = At(n, j)
      BY <1>2, <3>1, <3>2 DEF ListedOnce
    <3> QED BY <2>2, <3>3
  <2>5. ASSUME NEW h \in Routines, op'[h] \in Adds, NEW l \in Kinds, NEW i \in 1..Len(listeners'[l])
        PROVE  listeners'[l][i] # op'[h].ch
    <3>1. At(l, i) \in 1..Len(listeners[l]) /\ listeners'[l][i] = listeners[l][At(l, i)]
      BY <2>1
    <3>2. op'[h] = op[h] /\ op[h] \in Adds
      BY <1>3, <2>5
    <3> QED BY <1>2, <3>1, <3>2 DEF ListedOnce
  <2>6. OpenWhenUsed'
    BY <1>1, <1>2, <1>3, <2>3 DEF OpenWhenUsed
  <2>7. ListedOnce'
    BY <1>2, <1>3, <2>4, <2>5 DEF ListedOnce
  <2> QED BY <2>6, <2>7
<1> QED BY <1>4, <1>5 DEF RemoveListener

\* A step that lists and closes nothing, adds nothing to what is left to send and begins
\* no add leaves the channels as they are.
LEMMA QuietSteps ==
    ASSUME OpenWhenUsed, ListedOnce, UNCHANGED <<listeners, closed>>,
           \A h \in Routines : \A i \in 1..Len(targets'[h]) : targets'[h][i] \notin closed,
           \A h \in Routines : op'[h] \in Adds => op'[h] = op[h]
    PROVE  OpenWhenUsed' /\ ListedOnce'
<1>1. OpenWhenUsed'
  BY DEF OpenWhenUsed
<1>2. \A g \in Routines : op'[g] \in Adds =>
        \A k \in Kinds : \A i \in 1..Len(listeners'[k]) : listeners'[k][i] # op'[g].ch
  BY DEF ListedOnce
<1>3. \A g, h \in Routines :
        op'[g] \in Adds /\ op'[h] \in Adds /\ op'[g].ch = op'[h].ch => g = h
  <2>1. ASSUME NEW g \in Routines, NEW h \in Routines, op'[g] \in Adds, op'[h] \in Adds,
               op'[g].ch = op'[h].ch
        PROVE  g = h
    <3>1. op'[g] = op[g] /\ op'[h] = op[h]
      BY <2>1
    <3> QED BY <2>1, <3>1 DEF ListedOnce
  <2> QED BY <2>1
<1>4. ListedOnce'
  BY <1>2, <1>3 DEF ListedOnce
<1> QED BY <1>1, <1>4

\* Channels are used while open and listed once, after every step.
LEMMA ChannelStep == EmitterInv /\ [EmitterNext]_emitterVars => OpenWhenUsed' /\ ListedOnce'
<1> SUFFICES ASSUME EmitterInv, [EmitterNext]_emitterVars PROVE OpenWhenUsed' /\ ListedOnce'
  OBVIOUS
<1> USE OperationsDiffer DEF EmitterInv, EmitterTypeOK, LockDiscipline, OpenWhenUsed, ListedOnce, Unlock
<1>1. ASSUME NEW g \in Routines, NEW o \in Emits \cup Removes \cup Closes, Begin(g, o)
      PROVE  OpenWhenUsed' /\ ListedOnce'
  <2>1. \A h \in Routines : op'[h] \in Adds => op'[h] = op[h]
    BY <1>1, OperationsDiffer DEF Begin, EmitterInv, EmitterTypeOK, Writes
  <2>2. UNCHANGED <<listeners, closed, targets>>
    BY <1>1 DEF Begin
  <2>3. \A h \in Routines : \A i \in 1..Len(targets'[h]) : targets'[h][i] \notin closed
    BY <2>2 DEF EmitterInv, OpenWhenUsed
  <2> QED BY <2>1, <2>2, <2>3, QuietSteps DEF EmitterInv
<1>2. ASSUME NEW g \in Routines, NEW o \in Adds, Fresh(o.ch), Begin(g, o)
      PROVE  OpenWhenUsed' /\ ListedOnce'
  <2>1. \A k \in Kinds : \A i \in 1..Len(listeners[k]) : listeners[k][i] # o.ch
    BY <1>2 DEF Fresh, Registered, Contains
  <2> QED BY <1>2, <2>1 DEF Begin, Fresh
<1>3. ASSUME NEW g \in Routines, RLock(g) PROVE OpenWhenUsed' /\ ListedOnce'
  BY <1>3 DEF RLock
<1>4. ASSUME NEW g \in Routines, Send(g) PROVE OpenWhenUsed' /\ ListedOnce'
  <2>1. /\ Len(Tail(targets[g])) = Len(targets[g]) - 1
        /\ \A i \in 1..Len(Tail(targets[g])) : Tail(targets[g])[i] = targets[g][i + 1]
        /\ Len(targets[g]) \in Nat
    BY <1>4, HeadTailProperties, LenProperties DEF Send
  <2>2. \A i \in 1..Len(Tail(targets[g])) : Tail(targets[g])[i] \notin closed
    BY <2>1
  <2> QED BY <1>4, <2>2 DEF Send
<1>5. ASSUME NEW g \in Routines, RUnlock(g) PROVE OpenWhenUsed' /\ ListedOnce'
  BY <1>5 DEF RUnlock
<1>6. ASSUME NEW g \in Routines, Announce(g) PROVE OpenWhenUsed' /\ ListedOnce'
  BY <1>6 DEF Announce
<1>7. ASSUME NEW g \in Routines, AddListener(g) PROVE OpenWhenUsed' /\ ListedOnce'
  BY <1>7, AddKeepsChannels
<1>8. ASSUME NEW g \in Routines, RemoveListener(g) PROVE OpenWhenUsed' /\ ListedOnce'
  BY <1>8, RemoveKeepsChannels
<1>9. ASSUME NEW g \in Routines, Close(g) PROVE OpenWhenUsed' /\ ListedOnce'
  <2>1. \A h \in Routines : targets'[h] = <<>>
    BY <1>9, NobodySends DEF Close
  <2>2. \A l \in Kinds : listeners'[l] = <<>>
    BY <1>9 DEF Close
  <2>3. \A h \in Routines : op'[h] \in Adds => op'[h] = op[h]
    BY <1>9 DEF Close
  <2>4. \A h \in Routines : op[h] \in Adds => op[h].ch \notin closed'
    BY <1>9 DEF Close, Registered, Contains
  <2> QED BY <2>1, <2>2, <2>3, <2>4
<1>10. ASSUME NEW ch \in Chans, Receive(ch) PROVE OpenWhenUsed' /\ ListedOnce'
  BY <1>10 DEF Receive
<1>11. CASE UNCHANGED emitterVars
  BY <1>11 DEF emitterVars
<1> QED BY <1>1, <1>2, <1>3, <1>4, <1>5, <1>6, <1>7, <1>8, <1>9, <1>10, <1>11 DEF EmitterNext, Run, RunForClient, Writes

\* The invariant holds in every reachable state.
THEOREM EmitterInvHolds == EmitterSpec => []EmitterInv
<1>1. EmitterInv /\ [EmitterNext]_emitterVars => EmitterInv'
  BY TypeStep, LockStep, ChannelStep DEF EmitterInv
<1> QED BY InvInit, <1>1, PTL DEF EmitterSpec

\* A step panics only by sending to or closing a closed channel or one listed twice.
LEMMA PanicStep == EmitterInv /\ NeverPanics /\ [EmitterNext]_emitterVars => NeverPanics'
<1> SUFFICES ASSUME EmitterInv, NeverPanics, [EmitterNext]_emitterVars PROVE NeverPanics'
  OBVIOUS
<1> USE DEF NeverPanics
<1>1. ASSUME NEW g \in Routines, Send(g) PROVE NeverPanics'
  <2>1. targets[g] \in Seq(Chans) /\ targets[g] # <<>>
    BY <1>1 DEF Send, EmitterInv, EmitterTypeOK
  <2>2. 1 \in 1..Len(targets[g]) /\ Head(targets[g]) = targets[g][1]
    BY <2>1
  <2>3. Head(targets[g]) \notin closed
    BY <2>2 DEF EmitterInv, OpenWhenUsed
  <2> QED BY <1>1, <2>3 DEF Send
<1>2. ASSUME NEW g \in Routines, Close(g) PROVE NeverPanics'
  <2>1. \A ch \in closed : ~Registered(ch)
    BY DEF EmitterInv, OpenWhenUsed, Registered, Contains
  <2> QED BY <1>2, <2>1 DEF Close, EmitterInv, ListedOnce
<1>3. CASE panicked' = panicked
  BY <1>3
<1> QED
  BY <1>1, <1>2, <1>3 DEF EmitterNext, Run, RunForClient, Begin, RLock, RUnlock, Announce,
     AddListener, RemoveListener, Receive, emitterVars

\* However emitting, adding, removing and closing interleave, nothing is sent to a
\* closed channel and none is closed twice.
THEOREM NeverPanicsHolds == EmitterSpec => []NeverPanics
<1>1. EmitterInv /\ [EmitterNext]_emitterVars => EmitterInv'
  BY TypeStep, LockStep, ChannelStep DEF EmitterInv
<1> QED BY InvInit, <1>1, PanicStep, PTL DEF EmitterSpec
-----------------------------------------------------------------------------
\* The roles of the goroutines and channels, and what an event is made of.
LEMMA Roles ==
    /\ Routines = Commands \cup Subscribers \cup Disconnecters
    /\ Chans = Subscribers
    /\ Kinds = {"accounts", "tx"}
BY RolesAssumption

LEMMA EventFields ==
    ASSUME NEW e \in Events
    PROVE  e.call \in Commands /\ e.id \in Ids /\ e.status \in {"pending"} \cup Outcomes
BY RolesAssumption DEF Outcomes

LEMMA CallsEvent ==
    ASSUME ClientTypeOK, NEW c \in Commands, NEW status \in {"pending", "executed", "failed"}
    PROVE  [do |-> "emit", kind |-> "tx",
            event |-> [call |-> c, id |-> id[c], status |-> status]] \in Emits
<1>1. id[c] \in Ids
  BY DEF ClientTypeOK
<1>2. [call |-> c, id |-> id[c], status |-> status] \in Events
  BY <1>1, RolesAssumption
<1> QED BY <1>2, RolesAssumption DEF Emits

LEMMA ClientInvInit == Init => ClientInv
<1> SUFFICES ASSUME Init PROVE ClientInv
  OBVIOUS
<1>1. EmitterInv
  BY InvInit DEF Init
<1>2. <<>> \in Seq(Events)
  BY EmptySeq
<1>3. \A s \in Subscribers : Stream(s) = <<>>
  BY Roles, <1>2 DEF Init, EmitterInit, Stream
<1>4. ClientTypeOK
  BY <1>2 DEF Init, ClientTypeOK
<1>5. ChannelsKnown /\ AnnouncesItself /\ ServedOnce /\ ReturnedForGood
  BY <1>2, Roles, OperationsDiffer DEF Init, EmitterInit, ChannelsKnown, AnnouncesItself,
     ServedOnce, ReturnedForGood
<1>6. AnnouncedInTurn
  BY <1>2, <1>3, Roles, OperationsDiffer DEF Init, EmitterInit, AnnouncedInTurn, Untold
<1> QED BY <1>1, <1>4, <1>5, <1>6 DEF ClientInv

\* A client's step is an operation of the emitter, called with a fresh channel if it
\* adds one, or leaves the emitter alone.
LEMMA ClientStepsEmitter == ClientInv /\ [Next]_dappVars => [EmitterNext]_emitterVars
<1> SUFFICES ASSUME ClientInv, [Next]_dappVars PROVE [EmitterNext]_emitterVars
  OBVIOUS
<1> USE Roles
<1>1. ASSUME NEW c \in Commands, NEW status \in {"pending", "executed", "failed"}, EmitTx(c, status)
      PROVE  EmitterNext
  <2> DEFINE o == [do |-> "emit", kind |-> "tx", event |-> [call |-> c, id |-> id[c], status |-> status]]
  <2>1. o \in Emits
    BY CallsEvent DEF ClientInv
  <2>2. Begin(c, o) /\ c \in Routines
    BY <1>1 DEF EmitTx
  <2> HIDE DEF o
  <2> QED BY <2>1, <2>2 DEF EmitterNext
<1>2. ASSUME NEW s \in Subscribers, NEW k \in Kinds, Subscribe(s, k) PROVE EmitterNext
  <2> DEFINE o == [do |-> "add", kind |-> k, ch |-> s]
  <2>1. o \in Adds /\ o.ch = s
    BY DEF Adds
  <2>2. Begin(s, o) /\ s \in Routines /\ s \notin subscribed
    BY <1>2 DEF Subscribe
  <2>3. Fresh(s)
    BY <2>2 DEF Fresh, Registered, Contains, ClientInv, ChannelsKnown, EmitterInv, EmitterTypeOK
  <2> HIDE DEF o
  <2> QED BY <2>1, <2>2, <2>3 DEF EmitterNext
<1>3. ASSUME NEW d \in Disconnecters, Disconnect(d) PROVE EmitterNext
  <2> DEFINE o == [do |-> "close"]
  <2>1. o \in Closes
    BY DEF Closes
  <2>2. Begin(d, o) /\ d \in Routines
    BY <1>3 DEF Disconnect
  <2> HIDE DEF o
  <2> QED BY <2>1, <2>2 DEF EmitterNext
<1>4. ASSUME NEW s \in Subscribers, Read(s) PROVE EmitterNext
  BY <1>4 DEF Read, EmitterNext
<1>5. ASSUME NEW g \in Routines, RunEmitter(g) PROVE EmitterNext
  BY <1>5 DEF RunEmitter, Run, EmitterNext
<1>6. ASSUME NEW c \in Commands,
             PrepareExecute(c) \/ PrepareExecuteAndWait(c) \/ Prepared(c) \/ Submitted(c)
      PROVE  EmitterNext \/ UNCHANGED emitterVars
  BY <1>1, <1>6 DEF PrepareExecute, PrepareExecuteAndWait, Start, Prepared, Submitted
<1>7. CASE UNCHANGED dappVars
  BY <1>7 DEF dappVars, emitterVars
<1> QED BY <1>2, <1>3, <1>4, <1>5, <1>6, <1>7 DEF Next

\* Types, and channels known only after their subscription, are kept.
LEMMA ClientTypesStep == ClientInv /\ [Next]_dappVars => EmitterInv' /\ ClientTypeOK' /\ ChannelsKnown'
<1> SUFFICES ASSUME ClientInv, [Next]_dappVars PROVE EmitterInv' /\ ClientTypeOK' /\ ChannelsKnown'
  OBVIOUS
<1>1. EmitterInv /\ EmitterInv'
  BY ClientStepsEmitter, TypeStep, LockStep, ChannelStep DEF ClientInv, EmitterInv
<1> USE Roles
<1>0. ClientTypeOK /\ ChannelsKnown
  BY DEF ClientInv
<1>2. ClientTypeOK'
  <2> USE DEF ClientTypeOK
  <2>1. ASSUME NEW c \in Commands,
               PrepareExecute(c) \/ PrepareExecuteAndWait(c) \/ Prepared(c) \/ Submitted(c)
        PROVE  ClientTypeOK'
    <3>1. {d \in Commands : Returned(d)} \in SUBSET Commands
      OBVIOUS
    <3>2. UNCHANGED <<id, subscribed, got, looping>>
      BY <2>1 DEF PrepareExecute, PrepareExecuteAndWait, Start, Prepared, Submitted
    <3>3. stage' \in [Commands -> {"idle", "prepare", "submit", "last", "failed"}]
      BY <1>0, <2>1 DEF PrepareExecute, PrepareExecuteAndWait, Prepared, Submitted
    <3>4. /\ mode' \in [Commands -> {"none", "execute", "executeAndWait"}]
          /\ after' \in [Commands -> SUBSET Commands]
      BY <1>0, <2>1, <3>1 DEF PrepareExecute, PrepareExecuteAndWait, Start, Prepared, Submitted
    <3> QED BY <1>0, <3>2, <3>3, <3>4
  <2>2. ASSUME NEW s \in Subscribers, Read(s) PROVE ClientTypeOK'
    <3>1. buffer[s] \in Seq(Events) /\ buffer[s] # <<>>
      BY <1>1, <2>2 DEF Read, Receive, EmitterInv, EmitterTypeOK
    <3>2. Append(got[s], Head(buffer[s])) \in Seq(Events)
      BY <1>0, <3>1
    <3> QED BY <1>0, <2>2, <3>2 DEF Read
  <2>3. ASSUME NEW s \in Subscribers, NEW k \in Kinds, Subscribe(s, k) PROVE ClientTypeOK'
    BY <1>0, <2>3 DEF Subscribe
  <2>4. ASSUME NEW d \in Disconnecters, Disconnect(d) PROVE ClientTypeOK'
    BY <1>0, <2>4 DEF Disconnect, dappOnly
  <2>5. ASSUME NEW g \in Routines, RunEmitter(g) PROVE ClientTypeOK'
    BY <1>0, <2>5 DEF RunEmitter, dappOnly
  <2>6. CASE UNCHANGED dappVars
    BY <1>0, <2>6 DEF dappVars
  <2> QED BY <2>1, <2>2, <2>3, <2>4, <2>5, <2>6 DEF Next
<1>3. ChannelsKnown'
  <2> USE OperationsDiffer DEF EmitterInv, EmitterTypeOK, ChannelsKnown
  <2>1. ASSUME NEW g \in Routines, NEW o \in Emits \cup Closes, Begin(g, o), subscribed' = subscribed
        PROVE  ChannelsKnown'
    BY <1>0, <1>1, <2>1 DEF Begin, Writes
  <2>2. ASSUME UNCHANGED <<op, listeners, closed, subscribed>> PROVE ChannelsKnown'
    BY <1>0, <2>2
  <2>3. ASSUME NEW c \in Commands,
               PrepareExecute(c) \/ PrepareExecuteAndWait(c) \/ Prepared(c) \/ Submitted(c)
        PROVE  ChannelsKnown'
    <3>1. \A status \in {"pending", "executed", "failed"} :
             [do |-> "emit", kind |-> "tx", event |-> [call |-> c, id |-> id[c], status |-> status]] \in Emits
      BY <1>0, CallsEvent
    <3> HIDE DEF ChannelsKnown
    <3> QED
      BY <2>1, <2>2, <2>3, <3>1 DEF PrepareExecute, PrepareExecuteAndWait, Start, Prepared, Submitted,
         EmitTx, emitterVars
  <2>4. ASSUME NEW s \in Subscribers, Read(s) PROVE ChannelsKnown'
    BY <2>2, <2>4 DEF Read, Receive
  <2>5. ASSUME NEW s \in Subscribers, NEW k \in Kinds, Subscribe(s, k) PROVE ChannelsKnown'
    BY <1>0, <1>1, <2>5 DEF Subscribe, Begin
  <2>6. ASSUME NEW d \in Disconnecters, Disconnect(d) PROVE ChannelsKnown'
    <3>1. [do |-> "close"] \in Closes
      BY DEF Closes
    <3> QED BY <2>1, <2>6, <3>1 DEF Disconnect, dappOnly
  <2>7. ASSUME NEW g \in Routines, RunEmitter(g) PROVE ChannelsKnown'
    <3>1. CASE RLock(g) \/ Send(g) \/ RUnlock(g) \/ Announce(g)
      <4>1. \A h \in Routines : op'[h] \in Adds => op'[h] = op[h]
        BY <1>1, <3>1 DEF RLock, Send, RUnlock, Announce
      <4>2. UNCHANGED <<listeners, closed, subscribed>>
        BY <2>7, <3>1 DEF RunEmitter, dappOnly, RLock, Send, RUnlock, Announce
      <4> QED BY <1>0, <4>1, <4>2
    <3>2. CASE AddListener(g)
      <4>1. \A l \in Kinds : \A i \in 1..Len(listeners'[l]) :
              \/ i \in 1..Len(listeners[l]) /\ listeners'[l][i] = listeners[l][i]
              \/ listeners'[l][i] = op[g].ch
        BY <1>1, <3>2, AppendPlaces DEF AddListener
      <4>2. \A h \in Routines : op'[h] \in Adds => op'[h] = op[h]
        BY <1>1, <3>2 DEF AddListener, Unlock
      <4>3. UNCHANGED <<closed, subscribed>> /\ op[g] \in Adds
        BY <2>7, <3>2 DEF RunEmitter, dappOnly, AddListener
      <4>4. \A l \in Kinds : \A i \in 1..Len(listeners'[l]) : listeners'[l][i] \in subscribed'
        <5> SUFFICES ASSUME NEW l \in Kinds, NEW i \in 1..Len(listeners'[l])
                     PROVE  listeners'[l][i] \in subscribed
          BY <4>3
        <5>1. CASE i \in 1..Len(listeners[l]) /\ listeners'[l][i] = listeners[l][i]
          BY <1>0, <5>1
        <5>2. CASE listeners'[l][i] = op[g].ch
          BY <1>0, <4>3, <5>2
        <5> QED BY <4>1, <5>1, <5>2
      <4> QED BY <1>0, <4>2, <4>3, <4>4
    <3>3. CASE Close(g)
      <4>1. closed' \subseteq subscribed
        BY <1>0, <3>3 DEF Close, Registered, Contains
      <4>2. \A l \in Kinds : listeners'[l] = <<>>
        BY <3>3 DEF Close
      <4> QED BY <1>0, <1>1, <2>7, <3>3, <4>1, <4>2 DEF RunEmitter, dappOnly, Close, Unlock
    <3> QED BY <2>7, <3>1, <3>2, <3>3 DEF RunEmitter, RunForClient
  <2>8. CASE UNCHANGED dappVars
    BY <2>2, <2>8 DEF dappVars
  <2> QED BY <2>3, <2>4, <2>5, <2>6, <2>7, <2>8 DEF Next
<1> QED BY <1>1, <1>2, <1>3

LEMMA MoveHead ==
    ASSUME NEW S, NEW a \in Seq(S), NEW b \in Seq(S), b # <<>>
    PROVE  Append(a, Head(b)) \o Tail(b) = a \o b
<1>1. PICK h \in S, t \in Seq(S) : h = Head(b) /\ t = Tail(b)
  BY HeadTailProperties
<1>2. b = <<h>> \o t /\ <<h>> \in Seq(S)
  BY <1>1
<1>3. Append(a, h) = a \o <<h>>
  BY AppendIsConcat
<1>4. (a \o <<h>>) \o t = a \o (<<h>> \o t)
  BY <1>2, ConcatAssociative
<1> QED BY <1>1, <1>2, <1>3, <1>4

\* A reader moves an event from its channel to what it got; a sender adds its event to
\* the channel's; nothing else touches the events.
LEMMA ReadKeepsStream ==
    ASSUME ClientInv, NEW s \in Subscribers, Read(s), NEW t \in Subscribers
    PROVE  Stream(t)' = Stream(t)
<1> USE Roles
<1>1. /\ buffer[s] \in Seq(Events) /\ buffer[s] # <<>> /\ got[s] \in Seq(Events)
      /\ buffer' = [buffer EXCEPT ![s] = Tail(@)]
      /\ got' = [got EXCEPT ![s] = Append(@, Head(buffer[s]))]
  BY DEF Read, Receive, ClientInv, EmitterInv, EmitterTypeOK, ClientTypeOK
<1>2. Append(got[s], Head(buffer[s])) \o Tail(buffer[s]) = got[s] \o buffer[s]
  BY <1>1, MoveHead
<1>3. buffer \in [Subscribers -> Seq(Events)] /\ got \in [Subscribers -> Seq(Events)]
  BY DEF ClientInv, EmitterInv, EmitterTypeOK, ClientTypeOK
<1>4. CASE t = s
  BY <1>1, <1>2, <1>3, <1>4 DEF Stream
<1>5. CASE t # s
  BY <1>1, <1>3, <1>5 DEF Stream
<1> QED BY <1>4, <1>5

LEMMA SendAddsToStream ==
    ASSUME ClientInv, NEW g \in Routines, Send(g), UNCHANGED got, NEW t \in Subscribers
    PROVE  \/ Stream(t)' = Stream(t)
           \/ t = targets[g][1] /\ Stream(t)' = Append(Stream(t), op[g].event)
<1> USE Roles
<1>1. buffer \in [Subscribers -> Seq(Events)] /\ got \in [Subscribers -> Seq(Events)]
  BY DEF ClientInv, EmitterInv, EmitterTypeOK, ClientTypeOK
<1>2. op[g] \in Emits /\ op[g].event \in Events /\ targets[g] \in Seq(Subscribers)
  BY OperationsDiffer DEF Send, ClientInv, EmitterInv, EmitterTypeOK, LockDiscipline
<1>3. Head(targets[g]) = targets[g][1] /\ targets[g][1] \in Subscribers
  BY <1>2 DEF Send
<1>4. \/ buffer' = buffer
      \/ buffer' = [buffer EXCEPT ![targets[g][1]] = Append(@, op[g].event)]
  BY <1>3 DEF Send
<1>5. got[t] \o Append(buffer[t], op[g].event) = Append(got[t] \o buffer[t], op[g].event)
  BY <1>1, <1>2
<1> QED BY <1>1, <1>3, <1>4, <1>5 DEF Stream

LEMMA StreamType == ASSUME ClientInv, NEW s \in Subscribers PROVE Stream(s) \in Seq(Events)
BY Roles DEF Stream, ClientInv, EmitterInv, EmitterTypeOK, ClientTypeOK

\* A command announces itself and serves each channel once, after every step.
LEMMA OwnStep == ClientInv /\ [Next]_dappVars => AnnouncesItself' /\ ServedOnce'
<1> SUFFICES ASSUME ClientInv, [Next]_dappVars PROVE AnnouncesItself' /\ ServedOnce'
  OBVIOUS
<1> USE Roles, OperationsDiffer DEF AnnouncesItself, ServedOnce
<1>0. /\ AnnouncesItself /\ ServedOnce
      /\ op \in [Routines -> Emits \cup Writes \cup {Idle}]
      /\ targets \in [Routines -> Seq(Chans)]
      /\ stage \in [Commands -> {"idle", "prepare", "submit", "last", "failed"}]
      /\ UNCHANGED id
  <2>1. UNCHANGED id
    BY DEF Next, dappVars, dappOnly, PrepareExecute, PrepareExecuteAndWait, Start, Prepared,
       Submitted, Read, Subscribe, Disconnect, RunEmitter
  <2> QED BY <2>1 DEF ClientInv, EmitterInv, EmitterTypeOK, ClientTypeOK
<1>1. ASSUME NEW c \in Commands, NEW status \in {"pending"} \cup Outcomes, EmitTx(c, status),
             \/ stage' = [stage EXCEPT ![c] = "last"]
             \/ status = "pending" /\ stage' = [stage EXCEPT ![c] = "submit"]
      PROVE  AnnouncesItself' /\ ServedOnce'
  <2> DEFINE o == [do |-> "emit", kind |-> "tx", event |-> [call |-> c, id |-> id[c], status |-> status]]
  <2>1. o \in Emits /\ o.event.call = c /\ o.event.id = id[c] /\ o.event.status = status
    BY CallsEvent DEF ClientInv, Outcomes
  <2>2. op' = [op EXCEPT ![c] = o] /\ targets' = targets /\ op[c] = Idle
    BY <1>1 DEF EmitTx, Begin
  <2> HIDE DEF o
  <2> QED BY <1>0, <1>1, <2>1, <2>2
<1>2. ASSUME NEW c \in Commands, op[c] \notin Emits \/ stage[c] \notin {"submit", "last"},
             NEW st \in {"prepare", "failed"},
             stage' = [stage EXCEPT ![c] = st], UNCHANGED emitterVars
      PROVE  AnnouncesItself' /\ ServedOnce'
  BY <1>0, <1>2 DEF emitterVars
<1>3. ASSUME NEW g \in Routines, NEW o \in Writes, Begin(g, o), UNCHANGED stage
      PROVE  AnnouncesItself' /\ ServedOnce'
  BY <1>0, <1>3 DEF Begin, Writes
<1>4. ASSUME NEW s \in Subscribers, Read(s) PROVE AnnouncesItself' /\ ServedOnce'
  BY <1>0, <1>4 DEF Read, Receive
<1>5. ASSUME NEW g \in Routines, RunEmitter(g) PROVE AnnouncesItself' /\ ServedOnce'
  <2>1. CASE RLock(g)
    <3>1. ListedOnce /\ op[g].kind \in Kinds
      BY <2>1 DEF RLock, ClientInv, EmitterInv
    <3>2. op' = op /\ stage' = stage /\ targets' = [targets EXCEPT ![g] = listeners[op[g].kind]]
      BY <1>5, <2>1 DEF RLock, RunEmitter, dappOnly
    <3>3. \A i, j \in 1..Len(listeners[op[g].kind]) :
             listeners[op[g].kind][i] = listeners[op[g].kind][j] => i = j
      BY <3>1 DEF ListedOnce
    <3>4. AnnouncesItself'
      BY <1>0, <3>2
    <3>5. ASSUME NEW h \in Routines, NEW i \in 1..Len(targets'[h]), NEW j \in 1..Len(targets'[h]),
                 targets'[h][i] = targets'[h][j]
          PROVE  i = j
      <4>1. CASE h = g
        BY <1>0, <3>2, <3>3, <3>5, <4>1
      <4>2. CASE h # g
        BY <1>0, <3>2, <3>5, <4>2
      <4> QED BY <4>1, <4>2
    <3> QED BY <3>4, <3>5
  <2>2. CASE Send(g)
    <3>1. /\ Len(Tail(targets[g])) = Len(targets[g]) - 1
          /\ \A i \in 1..Len(Tail(targets[g])) : Tail(targets[g])[i] = targets[g][i + 1]
          /\ Len(targets[g]) \in Nat
      BY <1>0, <2>2, HeadTailProperties, LenProperties DEF Send
    <3>2. op' = op /\ stage' = stage /\ targets' = [targets EXCEPT ![g] = Tail(@)]
      BY <1>5, <2>2 DEF Send, RunEmitter, dappOnly
    <3>3. ASSUME NEW i \in 1..Len(Tail(targets[g])), NEW j \in 1..Len(Tail(targets[g])),
                 Tail(targets[g])[i] = Tail(targets[g])[j]
          PROVE  i = j
      <4>1. i + 1 \in 1..Len(targets[g]) /\ j + 1 \in 1..Len(targets[g])
        BY <3>1
      <4>2. i + 1 = j + 1
        BY <1>0, <3>1, <3>3, <4>1
      <4> QED BY <4>2
    <3> QED BY <1>0, <3>2, <3>3
  <2>3. CASE RUnlock(g) \/ Announce(g) \/ AddListener(g) \/ Close(g)
    <3>1. \A h \in Routines : op'[h] \in Emits => op'[h] = op[h]
      BY <1>0, <2>3 DEF RUnlock, Announce, AddListener, Close, Unlock
    <3>2. UNCHANGED <<targets, stage>>
      BY <1>5, <2>3 DEF RUnlock, Announce, AddListener, Close, RunEmitter, dappOnly
    <3> QED BY <1>0, <3>1, <3>2
  <2> QED BY <1>5, <2>1, <2>2, <2>3 DEF RunEmitter, RunForClient
<1>6. ASSUME NEW c \in Commands,
             PrepareExecute(c) \/ PrepareExecuteAndWait(c) \/ Prepared(c) \/ Submitted(c)
      PROVE  AnnouncesItself' /\ ServedOnce'
  <2>1. stage[c] \in {"idle", "prepare"} => op[c] \notin Emits \/ stage[c] \notin {"submit", "last"}
    OBVIOUS
  <2>3. CASE PrepareExecute(c)
    BY <1>2, <2>1, <2>3 DEF PrepareExecute, Start, emitterVars
  <2>4. CASE PrepareExecuteAndWait(c)
    BY <1>1, <2>4 DEF PrepareExecuteAndWait
  <2>5. CASE Prepared(c)
    BY <1>1, <1>2, <2>1, <2>5 DEF Prepared, emitterVars
  <2>6. CASE Submitted(c)
    BY <1>1, <2>6 DEF Submitted, Outcomes
  <2> QED BY <1>6, <2>3, <2>4, <2>5, <2>6
<1>7. ASSUME NEW s \in Subscribers, NEW k \in Kinds, Subscribe(s, k)
      PROVE  AnnouncesItself' /\ ServedOnce'
  <2>1. [do |-> "add", kind |-> k, ch |-> s] \in Writes
    BY DEF Adds, Writes
  <2> QED BY <1>3, <1>7, <2>1 DEF Subscribe
<1>8. ASSUME NEW d \in Disconnecters, Disconnect(d) PROVE AnnouncesItself' /\ ServedOnce'
  <2>1. [do |-> "close"] \in Writes
    BY DEF Closes, Writes
  <2> QED BY <1>3, <1>8, <2>1 DEF Disconnect, dappOnly
<1>9. CASE UNCHANGED dappVars
  BY <1>0, <1>9 DEF dappVars
<1> QED BY <1>4, <1>5, <1>6, <1>7, <1>8, <1>9 DEF Next

LEMMA UntoldKept ==
    ASSUME NEW s \in Subscribers, NEW c, NEW statuses, Untold(s, c, statuses),
           \/ Stream(s)' = Stream(s)
           \/ \E e \in Events : /\ Stream(s) \in Seq(Events) /\ Stream(s)' = Append(Stream(s), e)
                                /\ e.call # c \/ e.status \notin statuses
    PROVE  Untold(s, c, statuses)'
<1>1. CASE Stream(s)' = Stream(s)
  BY <1>1 DEF Untold
<1>2. ASSUME NEW e \in Events, Stream(s) \in Seq(Events), Stream(s)' = Append(Stream(s), e),
             e.call # c \/ e.status \notin statuses
      PROVE  Untold(s, c, statuses)'
  <2>1. \A i \in 1..Len(Append(Stream(s), e)) :
          \/ i \in 1..Len(Stream(s)) /\ Append(Stream(s), e)[i] = Stream(s)[i]
          \/ Append(Stream(s), e)[i] = e
    BY <1>2, AppendProperties
  <2> QED BY <1>2, <2>1 DEF Untold
<1> QED BY <1>1, <1>2

\* Steps that tell nobody anything and begin no announcement.
LEMMA TurnKept ==
    ASSUME AnnouncedInTurn, stage' = stage,
           \A s \in Subscribers : Stream(s)' = Stream(s),
           \A c \in Commands : op'[c] \in Emits =>
              /\ op'[c] = op[c]
              /\ \A s \in Subscribers : c \notin readers' \/ Contains(targets'[c], s)
                                        => c \notin readers \/ Contains(targets[c], s)
    PROVE  AnnouncedInTurn'
<1> SUFFICES ASSUME NEW c \in Commands, NEW s \in Subscribers
             PROVE  /\ stage'[c] \in {"idle", "prepare", "failed"}
                       => Untold(s, c, {"pending"} \cup Outcomes)'
                    /\ stage'[c] = "submit" => Untold(s, c, Outcomes)'
                    /\ op'[c] \in Emits =>
                          /\ op'[c].event.status = "pending" => Untold(s, c, Outcomes)'
                          /\ c \notin readers' \/ Contains(targets'[c], s)
                             => \/ op[c].event.status = "pending" /\ Untold(s, c, {"pending"})'
                                \/ op[c].event.status # "pending" /\ Untold(s, c, Outcomes)'
  BY DEF AnnouncedInTurn
<1>1. \A statuses : Untold(s, c, statuses) => Untold(s, c, statuses)'
  BY UntoldKept
<1> QED BY <1>1 DEF AnnouncedInTurn

\* The client's invariant, with the emitter's in it, holds in every reachable state.
LEMMA TurnStep == ClientInv /\ [Next]_dappVars => AnnouncedInTurn'
<1> SUFFICES ASSUME ClientInv, [Next]_dappVars PROVE AnnouncedInTurn'
  OBVIOUS
<1> USE Roles, OperationsDiffer
<1>0. /\ AnnouncesItself /\ ServedOnce /\ AnnouncedInTurn
      /\ op \in [Routines -> Emits \cup Writes \cup {Idle}]
      /\ targets \in [Routines -> Seq(Chans)]
      /\ stage \in [Commands -> {"idle", "prepare", "submit", "last", "failed"}]
      /\ \A g \in readers : g \in Routines /\ op[g] \in Emits
  BY DEF ClientInv, EmitterInv, EmitterTypeOK, ClientTypeOK, LockDiscipline
<1>1. ASSUME NEW c \in Commands, NEW status \in {"pending"} \cup Outcomes, EmitTx(c, status),
             UNCHANGED got,
             \/ stage[c] \in {"idle", "prepare"} /\ status = "pending"
             \/ stage[c] = "submit" /\ status \in Outcomes,
             \/ stage' = [stage EXCEPT ![c] = "last"]
             \/ status = "pending" /\ stage' = [stage EXCEPT ![c] = "submit"]
      PROVE  AnnouncedInTurn'
  <2> DEFINE o == [do |-> "emit", kind |-> "tx", event |-> [call |-> c, id |-> id[c], status |-> status]]
  <2>1. o.event.status = status
    OBVIOUS
  <2>2. /\ op' = [op EXCEPT ![c] = o] /\ c \notin readers
        /\ UNCHANGED <<targets, readers, buffer>>
    BY <1>0, <1>1 DEF EmitTx, Begin
  <2> HIDE DEF o
  <2>3. \A s \in Subscribers : Stream(s)' = Stream(s)
    BY <1>1, <2>2 DEF Stream
  <2>4. \A sts : \A s \in Subscribers, d \in Commands : Untold(s, d, sts) => Untold(s, d, sts)'
    BY <2>3, UntoldKept
  <2> SUFFICES ASSUME NEW d \in Commands, NEW s \in Subscribers
               PROVE  /\ stage'[d] \in {"idle", "prepare", "failed"}
                         => Untold(s, d, {"pending"} \cup Outcomes)'
                      /\ stage'[d] = "submit" => Untold(s, d, Outcomes)'
                      /\ op'[d] \in Emits =>
                            /\ op'[d].event.status = "pending" => Untold(s, d, Outcomes)'
                            /\ d \notin readers' \/ Contains(targets'[d], s)
                               => \/ op'[d].event.status = "pending" /\ Untold(s, d, {"pending"})'
                                  \/ op'[d].event.status # "pending" /\ Untold(s, d, Outcomes)'
    BY DEF AnnouncedInTurn
  <2>5. CASE d # c
    BY <1>0, <1>1, <2>2, <2>4, <2>5 DEF AnnouncedInTurn
  <2>6. CASE d = c
    <3>1. CASE status = "pending"
      <4>1. Untold(s, c, {"pending"} \cup Outcomes)
        BY <1>0, <1>1, <3>1 DEF AnnouncedInTurn, Outcomes
      <4>2. Untold(s, c, {"pending"})' /\ Untold(s, c, Outcomes)'
        BY <4>1, <2>4 DEF Untold
      <4> QED BY <1>0, <1>1, <2>1, <2>2, <2>6, <3>1, <4>2
    <3>2. CASE status \in Outcomes
      <4>1. stage[c] = "submit" /\ stage' = [stage EXCEPT ![c] = "last"] /\ status # "pending"
        BY <1>1, <3>2 DEF Outcomes
      <4>2. Untold(s, c, Outcomes)'
        BY <1>0, <4>1, <2>4 DEF AnnouncedInTurn
      <4> QED BY <1>0, <2>1, <2>2, <2>6, <4>1, <4>2
    <3> QED BY <3>1, <3>2
  <2> QED BY <2>5, <2>6
<1>2. ASSUME NEW c \in Commands, stage[c] \in {"idle", "prepare"}, UNCHANGED <<emitterVars, got>>,
             NEW st \in {"prepare", "failed"}, stage' = [stage EXCEPT ![c] = st]
      PROVE  AnnouncedInTurn'
  <2>1. UNCHANGED <<op, readers, targets>> /\ \A s \in Subscribers : Stream(s)' = Stream(s)
    BY <1>2 DEF emitterVars, Stream
  <2>2. \A sts : \A s \in Subscribers, d \in Commands : Untold(s, d, sts) => Untold(s, d, sts)'
    BY <2>1, UntoldKept
  <2> SUFFICES ASSUME NEW d \in Commands, NEW s \in Subscribers
               PROVE  /\ stage'[d] \in {"idle", "prepare", "failed"}
                         => Untold(s, d, {"pending"} \cup Outcomes)'
                      /\ stage'[d] = "submit" => Untold(s, d, Outcomes)'
                      /\ op'[d] \in Emits =>
                            /\ op'[d].event.status = "pending" => Untold(s, d, Outcomes)'
                            /\ d \notin readers' \/ Contains(targets'[d], s)
                               => \/ op[d].event.status = "pending" /\ Untold(s, d, {"pending"})'
                                  \/ op[d].event.status # "pending" /\ Untold(s, d, Outcomes)'
    BY <2>1 DEF AnnouncedInTurn
  <2>3. CASE d = c
    <3>1. op[c] \notin Emits
      BY <1>0, <1>2 DEF AnnouncesItself
    <3>2. Untold(s, d, {"pending"} \cup Outcomes)'
      BY <1>0, <1>2, <2>2, <2>3 DEF AnnouncedInTurn
    <3> QED BY <1>0, <1>2, <2>1, <2>3, <3>1, <3>2
  <2>4. CASE d # c
    BY <1>0, <1>2, <2>1, <2>2, <2>4 DEF AnnouncedInTurn
  <2> QED BY <2>3, <2>4
<1>3. ASSUME NEW g \in Routines, NEW o \in Writes, Begin(g, o), UNCHANGED <<stage, got>>
      PROVE  AnnouncedInTurn'
  <2>1. \A s \in Subscribers : Stream(s)' = Stream(s)
    BY <1>3 DEF Begin, Stream
  <2>2. \A c \in Commands : op'[c] \in Emits => op'[c] = op[c]
    BY <1>0, <1>3 DEF Begin
  <2> QED BY <1>0, <1>3, <2>1, <2>2, TurnKept DEF Begin
<1>4. ASSUME NEW s \in Subscribers, Read(s) PROVE AnnouncedInTurn'
  <2>1. \A t \in Subscribers : Stream(t)' = Stream(t)
    BY <1>4, ReadKeepsStream
  <2> QED BY <1>0, <1>4, <2>1, TurnKept DEF Read, Receive
<1>5. ASSUME NEW g \in Routines, RunEmitter(g), ~Send(g) PROVE AnnouncedInTurn'
  <2>1. UNCHANGED <<stage, got, buffer>>
    BY <1>5 DEF RunEmitter, RunForClient, dappOnly, RLock, RUnlock, Announce, AddListener, Close
  <2>2. \A s \in Subscribers : Stream(s)' = Stream(s)
    BY <2>1 DEF Stream
  <2>3. \A c \in Commands : op'[c] \in Emits => op'[c] = op[c]
    BY <1>0, <1>5 DEF RunEmitter, RunForClient, RLock, RUnlock, Announce, AddListener, Close, Unlock
  <2>4. ASSUME NEW c \in Commands, op'[c] \in Emits, NEW s \in Subscribers,
               c \notin readers' \/ Contains(targets'[c], s)
        PROVE  c \notin readers \/ Contains(targets[c], s)
    <3>1. CASE RLock(g)
      BY <1>0, <2>4, <3>1 DEF RLock
    <3>2. CASE RUnlock(g)
      <4>1. c # g
        BY <1>0, <2>3, <2>4, <3>2 DEF RUnlock
      <4> QED BY <2>4, <3>2, <4>1 DEF RUnlock
    <3>3. CASE Announce(g) \/ AddListener(g) \/ Close(g)
      BY <2>4, <3>3 DEF Announce, AddListener, Close
    <3> QED BY <1>5, <3>1, <3>2, <3>3 DEF RunEmitter, RunForClient
  <2> QED BY <1>0, <2>1, <2>2, <2>3, <2>4, TurnKept
<1>6. ASSUME NEW g \in Routines, RunEmitter(g), Send(g) PROVE AnnouncedInTurn'
  <2>1. /\ UNCHANGED <<stage, got, op, readers>> /\ g \in readers
        /\ targets' = [targets EXCEPT ![g] = Tail(@)] /\ targets[g] # <<>>
    BY <1>6 DEF RunEmitter, dappOnly, Send
  <2>2. /\ op[g] \in Emits /\ g \in Commands /\ op[g].event \in Events /\ op[g].event.call = g
        /\ stage[g] \in {"last", "submit"}
        /\ stage[g] = "submit" => op[g].event.status = "pending"
    BY <1>0, <2>1 DEF AnnouncesItself
  <2>3. \A s \in Subscribers :
          \/ Stream(s)' = Stream(s)
          \/ s = targets[g][1] /\ Stream(s)' = Append(Stream(s), op[g].event)
    BY <1>6, <2>1, SendAddsToStream
  <2>4. \A s \in Subscribers : Contains(targets'[g], s) => Contains(targets[g], s) /\ s # targets[g][1]
    <3>1. /\ Len(Tail(targets[g])) = Len(targets[g]) - 1
          /\ \A i \in 1..Len(Tail(targets[g])) : Tail(targets[g])[i] = targets[g][i + 1]
          /\ Len(targets[g]) \in Nat /\ targets'[g] = Tail(targets[g])
      BY <1>0, <2>1, HeadTailProperties, LenProperties
    <3>2. SUFFICES ASSUME NEW i \in 1..Len(Tail(targets[g]))
                   PROVE  /\ i + 1 \in 1..Len(targets[g]) /\ 1 \in 1..Len(targets[g])
                          /\ targets[g][i + 1] # targets[g][1]
      BY <3>1 DEF Contains
    <3>3. i + 1 \in 1..Len(targets[g]) /\ 1 \in 1..Len(targets[g]) /\ i + 1 # 1
      BY <3>1
    <3> QED BY <1>0, <3>3 DEF ServedOnce
  <2> SUFFICES ASSUME NEW c \in Commands, NEW s \in Subscribers
               PROVE  /\ stage[c] \in {"idle", "prepare", "failed"}
                         => Untold(s, c, {"pending"} \cup Outcomes)'
                      /\ stage[c] = "submit" => Untold(s, c, Outcomes)'
                      /\ op[c] \in Emits =>
                            /\ op[c].event.status = "pending" => Untold(s, c, Outcomes)'
                            /\ c \notin readers \/ Contains(targets'[c], s)
                               => \/ op[c].event.status = "pending" /\ Untold(s, c, {"pending"})'
                                  \/ op[c].event.status # "pending" /\ Untold(s, c, Outcomes)'
    BY <2>1 DEF AnnouncedInTurn
  <2>5. CASE c # g
    <3>1. \A sts : Untold(s, c, sts) => Untold(s, c, sts)'
      BY <2>2, <2>3, <2>5, StreamType, UntoldKept
    <3> QED BY <1>0, <2>1, <2>5, <3>1 DEF AnnouncedInTurn
  <2>6. CASE c = g
    <3>1. op[g].event.status = "pending" => (Untold(s, c, Outcomes) => Untold(s, c, Outcomes)')
      BY <2>2, <2>3, StreamType, UntoldKept DEF Outcomes
    <3>2. s # targets[g][1] => \A sts : Untold(s, c, sts) => Untold(s, c, sts)'
      BY <2>3, UntoldKept
    <3> QED BY <1>0, <2>1, <2>2, <2>4, <2>6, <3>1, <3>2 DEF AnnouncedInTurn
  <2> QED BY <2>5, <2>6
<1>7. ASSUME NEW c \in Commands,
             PrepareExecute(c) \/ PrepareExecuteAndWait(c) \/ Prepared(c) \/ Submitted(c)
      PROVE  AnnouncedInTurn'
  <2>1. CASE PrepareExecute(c)
    BY <1>2, <2>1 DEF PrepareExecute, Start, emitterVars
  <2>2. CASE PrepareExecuteAndWait(c)
    BY <1>1, <2>2 DEF PrepareExecuteAndWait, Start
  <2>3. CASE Prepared(c)
    BY <1>1, <1>2, <2>3 DEF Prepared, emitterVars
  <2>4. CASE Submitted(c)
    BY <1>1, <2>4 DEF Submitted, Outcomes
  <2> QED BY <1>7, <2>1, <2>2, <2>3, <2>4
<1>8. ASSUME NEW s \in Subscribers, NEW k \in Kinds, Subscribe(s, k) PROVE AnnouncedInTurn'
  <2>1. [do |-> "add", kind |-> k, ch |-> s] \in Writes
    BY DEF Adds, Writes
  <2> QED BY <1>3, <1>8, <2>1 DEF Subscribe
<1>9. ASSUME NEW d \in Disconnecters, Disconnect(d) PROVE AnnouncedInTurn'
  <2>1. [do |-> "close"] \in Writes
    BY DEF Closes, Writes
  <2> QED BY <1>3, <1>9, <2>1 DEF Disconnect, dappOnly
<1>10. CASE UNCHANGED dappVars
  <2>1. \A s \in Subscribers : Stream(s)' = Stream(s)
    BY <1>10 DEF dappVars, Stream
  <2> QED BY <1>0, <1>10, <2>1, TurnKept DEF dappVars
<1> QED BY <1>4, <1>5, <1>6, <1>7, <1>8, <1>9, <1>10 DEF Next

\* A call that has returned emits nothing more, and what had returned when another began
\* was that.
LEMMA ReturnedStep == ClientInv /\ [Next]_dappVars => ReturnedForGood'
<1> SUFFICES ASSUME ClientInv, [Next]_dappVars PROVE ReturnedForGood'
  OBVIOUS
<1> USE Roles, OperationsDiffer
<1>0. /\ ReturnedForGood
      /\ op \in [Routines -> Emits \cup Writes \cup {Idle}]
      /\ stage \in [Commands -> {"idle", "prepare", "submit", "last", "failed"}]
      /\ after \in [Commands -> SUBSET Commands]
  BY DEF ClientInv, EmitterInv, EmitterTypeOK, ClientTypeOK
<1>1. ASSUME NEW d \in Commands, Returned(d) PROVE Returned(d)'
  <2> USE DEF Returned
  <2>1. ASSUME NEW c \in Commands,
               PrepareExecute(c) \/ PrepareExecuteAndWait(c) \/ Prepared(c) \/ Submitted(c)
        PROVE  Returned(d)'
    <3>1. stage[c] \in {"idle", "prepare", "submit"}
      BY <2>1 DEF PrepareExecute, PrepareExecuteAndWait, Start, Prepared, Submitted
    <3>2. d # c
      BY <1>1, <3>1
    <3>3. stage'[d] = stage[d]
      BY <1>0, <2>1, <3>2 DEF PrepareExecute, PrepareExecuteAndWait, Prepared, Submitted
    <3>4. op'[d] = op[d]
      BY <1>0, <2>1, <3>2 DEF PrepareExecute, PrepareExecuteAndWait, Prepared, Submitted,
         EmitTx, Begin, emitterVars
    <3> QED BY <1>1, <3>3, <3>4
  <2>2. ASSUME NEW g \in Routines, NEW o \in Writes, Begin(g, o), UNCHANGED stage
        PROVE  Returned(d)'
    BY <1>0, <1>1, <2>2 DEF Begin
  <2>3. ASSUME NEW s \in Subscribers, NEW k \in Kinds, Subscribe(s, k) PROVE Returned(d)'
    <3>1. [do |-> "add", kind |-> k, ch |-> s] \in Writes
      BY DEF Adds, Writes
    <3> QED BY <2>2, <2>3, <3>1 DEF Subscribe
  <2>4. ASSUME NEW b \in Disconnecters, Disconnect(b) PROVE Returned(d)'
    <3>1. [do |-> "close"] \in Writes
      BY DEF Closes, Writes
    <3> QED BY <2>2, <2>4, <3>1 DEF Disconnect, dappOnly
  <2>5. ASSUME NEW s \in Subscribers, Read(s) PROVE Returned(d)'
    BY <1>1, <2>5 DEF Read, Receive
  <2>6. ASSUME NEW g \in Routines, RunEmitter(g) PROVE Returned(d)'
    <3>1. \A h \in Routines : op'[h] \in Emits => op'[h] = op[h]
      BY <1>0, <2>6 DEF RunEmitter, RunForClient, RLock, Send, RUnlock, Announce, AddListener,
         Close, Unlock
    <3> QED BY <1>1, <2>6, <3>1 DEF RunEmitter, dappOnly
  <2>7. CASE UNCHANGED dappVars
    BY <1>1, <2>7 DEF dappVars
  <2> QED BY <2>1, <2>3, <2>4, <2>5, <2>6, <2>7 DEF Next
<1>2. ASSUME NEW c \in Commands, NEW d \in after'[c] PROVE d \in Commands /\ Returned(d)
  <2>1. \/ after' = after
        \/ \E b \in Commands : after' = [after EXCEPT ![b] = {e \in Commands : Returned(e)}]
    BY DEF Next, dappVars, dappOnly, PrepareExecute, PrepareExecuteAndWait, Start, Prepared,
       Submitted, Read, Subscribe, Disconnect, RunEmitter
  <2> QED BY <1>0, <1>2, <2>1 DEF ReturnedForGood
<1> QED BY <1>1, <1>2 DEF ReturnedForGood

LEMMA ClientInvStep == ClientInv /\ [Next]_dappVars => ClientInv'
BY ClientTypesStep, OwnStep, TurnStep, ReturnedStep DEF ClientInv

\* The client's invariant, with the emitter's in it, holds in every reachable state.
THEOREM ClientInvHolds == Spec => []ClientInv
BY ClientInvInit, ClientInvStep, PTL DEF Spec

\* The order of events is kept: a call that starts has no events yet, and who sends one
\* has not returned.
LEMMA OrderStep == ClientInv /\ EventsInOrder /\ [Next]_dappVars => EventsInOrder'
<1> DEFINE Ordered(q, since) ==
             \A i, j \in 1..Len(q) : i < j =>
                /\ q[i].call = q[j].call => q[i].status = "pending" /\ q[j].status # "pending"
                /\ q[j].call \notin since[q[i].call]
<1> SUFFICES ASSUME ClientInv, EventsInOrder, [Next]_dappVars, NEW s \in Subscribers
             PROVE  Ordered(Stream(s)', after')
  BY DEF EventsInOrder
<1> USE Roles
<1>0. /\ Stream(s) \in Seq(Events) /\ Len(Stream(s)) \in Nat
      /\ \A i \in 1..Len(Stream(s)) :
            /\ Stream(s)[i].call \in Commands
            /\ Stream(s)[i].status \in {"pending"} \cup Outcomes
  BY StreamType, EventFields, LenProperties
<1>1. Ordered(Stream(s), after)
  BY DEF EventsInOrder
<1> HIDE DEF Ordered
<1>2. CASE UNCHANGED <<Stream(s), after>>
  BY <1>1, <1>2
<1>3. ASSUME NEW g \in Routines, RunEmitter(g), Send(g), Stream(s)' # Stream(s)
      PROVE  Ordered(Stream(s)', after')
  <2>1. /\ op[g] \in Emits /\ op[g].event \in Events /\ targets[g] \in Seq(Chans) /\ targets[g] # <<>>
    BY <1>3, OperationsDiffer DEF Send, ClientInv, EmitterInv, EmitterTypeOK, LockDiscipline
  <2>2. s = targets[g][1] /\ Stream(s)' = Append(Stream(s), op[g].event) /\ after' = after
    BY <1>3, SendAddsToStream DEF RunEmitter, dappOnly
  <2>3. Contains(targets[g], s)
    BY <2>1, <2>2 DEF Contains
  <2>4. /\ g \in Commands /\ op[g].event.call = g
        /\ op[g].event.status = "pending" => Untold(s, g, {"pending"} \cup Outcomes)
        /\ op[g].event.status # "pending" => Untold(s, g, Outcomes)
    BY <2>1, <2>3 DEF ClientInv, AnnouncesItself, AnnouncedInTurn, Untold
  <2>5. \A c \in Commands : g \notin after[c]
    BY <2>1, <2>4 DEF ClientInv, ReturnedForGood, Returned
  <2> DEFINE q == Append(Stream(s), op[g].event)
  <2>6. /\ Len(q) = Len(Stream(s)) + 1
        /\ \A i \in 1..Len(Stream(s)) : q[i] = Stream(s)[i]
        /\ q[Len(Stream(s)) + 1] = op[g].event
    BY <1>0, <2>1, AppendProperties
  <2> HIDE DEF q
  <2>7. ASSUME NEW i \in 1..Len(q), NEW j \in 1..Len(q), i < j
        PROVE  /\ q[i].call = q[j].call => q[i].status = "pending" /\ q[j].status # "pending"
               /\ q[j].call \notin after[q[i].call]
    <3>1. i \in 1..Len(Stream(s)) /\ q[i] = Stream(s)[i]
      BY <1>0, <2>6, <2>7
    <3>2. CASE j \in 1..Len(Stream(s))
      BY <1>1, <2>6, <2>7, <3>1, <3>2 DEF Ordered
    <3>3. CASE j = Len(Stream(s)) + 1
      <4>1. q[j].call \notin after[q[i].call]
        BY <1>0, <2>4, <2>5, <2>6, <3>1, <3>3
      <4>2. q[i].call = q[j].call => q[i].status = "pending" /\ q[j].status # "pending"
        BY <1>0, <2>4, <2>6, <3>1, <3>3 DEF Untold
      <4> QED BY <4>1, <4>2
    <3> QED BY <1>0, <2>6, <3>2, <3>3
  <2>8. Ordered(q, after)
    BY <2>7 DEF Ordered
  <2> QED BY <2>2, <2>8 DEF q
<1>4. ASSUME NEW c \in Commands, Start(c, mode'[c]), UNCHANGED Stream(s)
      PROVE  Ordered(Stream(s)', after')
  <2>1. /\ stage[c] = "idle" /\ after \in [Commands -> SUBSET Commands]
        /\ \A b \in Commands : b # c => after'[b] = after[b]
    BY <1>4 DEF Start, ClientInv, ClientTypeOK
  <2>2. \A i \in 1..Len(Stream(s)) : Stream(s)[i].call # c
    BY <1>0, <2>1 DEF ClientInv, AnnouncedInTurn, Untold
  <2>3. \A i \in 1..Len(Stream(s)) : after'[Stream(s)[i].call] = after[Stream(s)[i].call]
    BY <1>0, <2>1, <2>2
  <2>4. Ordered(Stream(s), after')
    BY <1>1, <2>3 DEF Ordered
  <2> QED BY <1>4, <2>4
<1>5. CASE UNCHANGED <<got, buffer, after>>
  BY <1>2, <1>5 DEF Stream
<1>6. ASSUME NEW c \in Commands, PrepareExecute(c) \/ PrepareExecuteAndWait(c)
      PROVE  Ordered(Stream(s)', after')
  <2>1. UNCHANGED <<got, buffer>>
    BY <1>6 DEF PrepareExecute, PrepareExecuteAndWait, Start, EmitTx, Begin, emitterVars
  <2>2. Start(c, "execute") \/ Start(c, "executeAndWait")
    BY <1>6 DEF PrepareExecute, PrepareExecuteAndWait
  <2>3. Start(c, mode'[c])
    BY <2>2 DEF Start, ClientInv, ClientTypeOK
  <2> QED BY <1>4, <2>1, <2>3 DEF Stream
<1>7. ASSUME NEW t \in Subscribers, Read(t) PROVE Ordered(Stream(s)', after')
  <2>1. Stream(s)' = Stream(s) /\ after' = after
    BY <1>7, ReadKeepsStream DEF Read
  <2> QED BY <1>2, <2>1
<1>8. ASSUME NEW g \in Routines, RunEmitter(g), ~Send(g) PROVE UNCHANGED <<got, buffer, after>>
  BY <1>8 DEF RunEmitter, RunForClient, dappOnly, RLock, RUnlock, Announce, AddListener, Close
<1>9. ASSUME NEW g \in Routines, RunEmitter(g), Send(g) PROVE Ordered(Stream(s)', after')
  <2>1. after' = after
    BY <1>9 DEF RunEmitter, dappOnly
  <2> QED BY <1>2, <1>3, <1>9, <2>1
<1>10. ASSUME ~(\E t \in Subscribers : Read(t)), ~(\E g \in Routines : RunEmitter(g)),
              ~(\E c \in Commands : PrepareExecute(c) \/ PrepareExecuteAndWait(c))
       PROVE  UNCHANGED <<got, buffer, after>>
  BY <1>10 DEF Next, Prepared, Submitted, Subscribe, Disconnect, EmitTx, Begin, emitterVars,
     dappOnly, dappVars
<1> QED BY <1>5, <1>6, <1>7, <1>8, <1>9, <1>10

\* However calls interleave and whatever command ids they share, a subscriber gets the
\* events of a call once each, pending first and one outcome at most, and those of a
\* retry after all of the attempt before it.
THEOREM EventsInOrderHolds == Spec => []EventsInOrder
<1>1. Init => EventsInOrder
  <2> SUFFICES ASSUME Init PROVE EventsInOrder
    OBVIOUS
  <2>1. \A s \in Subscribers : Stream(s) = <<>>
    BY Roles, EmptySeq DEF Init, EmitterInit, Stream
  <2> QED BY <2>1 DEF EventsInOrder
<1> QED BY <1>1, OrderStep, ClientInvHolds, PTL DEF Spec

\* The client implements the emitter's specification: every channel it adds is fresh.
THEOREM ClientUsesEmitter == Spec => EmitterSpec
<1>1. Init => EmitterInit
  BY DEF Init
<1> QED BY <1>1, ClientInvHolds, ClientStepsEmitter, PTL DEF Spec, EmitterSpec

\* No interleaving of calls, subscriptions, readers and Disconnects panics.
THEOREM ClientNeverPanics == Spec => []NeverPanics
BY ClientUsesEmitter, NeverPanicsHolds, PTL
=============================================================================
