-------------------------- MODULE EventStreamProofs --------------------------
(***************************************************************************)
(* Theorems about EventStream: its types, that no goroutine sends on a     *)
(* closed channel, and, for one emitting goroutine, that a browser with     *)
(* nothing under way and nothing skipped shows the true state.             *)
(***************************************************************************)
EXTENDS EventStream, SequenceTheorems, TLAPS

LEMMA TypeInit == Init => TypeOK
<1> SUFFICES ASSUME Init PROVE TypeOK
  OBVIOUS
<1>1. events \in [Subs -> Seq(Versions)] /\ \A s \in Subs : Len(events[s]) <= BufferSize
  BY SizeAssumption DEF Init
<1>2. 0 \in Versions
  BY SizeAssumption DEF Versions
<1> QED
  BY <1>1, <1>2 DEF Init, TypeOK, Points, Phases

LEMMA TypeStep == TypeOK /\ [Next]_vars => TypeOK'
<1> SUFFICES ASSUME TypeOK, [Next]_vars PROVE TypeOK'
  OBVIOUS
<1> USE SizeAssumption DEF buffer, TypeOK, Versions, Points, Phases
<1>1. ASSUME NEW g \in Emitters, Change(g) PROVE TypeOK'
  BY <1>1 DEF Change, sub, browser
<1>2. ASSUME NEW g \in Emitters, EmitBegin(g) PROVE TypeOK'
  BY <1>2 DEF EmitBegin, sub, browser
<1>3. ASSUME NEW g \in Emitters, NEW s \in Subs, EmitOne(g, s) PROVE TypeOK'
  <2>1. CASE s \notin closed /\ Len(events[s]) < BufferSize
    <3>1. /\ Append(events[s], event[g]) \in Seq(Versions)
          /\ Len(Append(events[s], event[g])) = Len(events[s]) + 1
      OBVIOUS
    <3>2. events' = [events EXCEPT ![s] = Append(events[s], event[g])]
      BY <1>3, <2>1 DEF EmitOne, Deliver
    <3>3. /\ events' \in [Subs -> Seq(Versions)]
          /\ \A r \in Subs : Len(events'[r]) <= BufferSize
      BY <2>1, <3>1, <3>2
    <3> QED
      BY <1>3, <3>3 DEF EmitOne, Deliver, sub, browser
  <2>2. CASE s \in closed \/ ~(Len(events[s]) < BufferSize)
    BY <1>3, <2>2 DEF EmitOne, Deliver, sub, browser
  <2> QED
    BY <2>1, <2>2
<1>4. ASSUME NEW g \in Emitters, EmitEnd(g) PROVE TypeOK'
  BY <1>4 DEF EmitEnd, sub, browser
<1>5. ASSUME NEW s \in Subs, Upgrade(s) PROVE TypeOK'
  BY <1>5 DEF Upgrade, server, sub, browser
<1>6. ASSUME NEW s \in Subs, LockWait(s) PROVE TypeOK'
  BY <1>6 DEF LockWait, server, sub, browser
<1>7. ASSUME NEW s \in Subs, Subscribe(s) PROVE TypeOK'
  BY <1>7 DEF Subscribe, Unlock, Locked
<1>8. ASSUME NEW s \in Subs, Load(s) PROVE TypeOK'
  BY <1>8 DEF Load, server, sub
<1>9. ASSUME NEW s \in Subs, Forward(s) PROVE TypeOK'
  BY SMTT(30), <1>9 DEF Forward, server, sub
<1>10. ASSUME NEW s \in Subs, Return(s) PROVE TypeOK'
  BY <1>10 DEF Return, server, sub, browser
<1>11. ASSUME NEW s \in Subs, CloseMark(s) PROVE TypeOK'
  BY <1>11 DEF CloseMark, server, browser
<1>12. ASSUME NEW s \in Subs, Unsubscribe(s) PROVE TypeOK'
  BY <1>12 DEF Unsubscribe, Unlock, browser
<1>13. ASSUME NEW s \in Subs, CloseChannel(s) PROVE TypeOK'
  BY <1>13 DEF CloseChannel, server, browser
<1>14. CASE UNCHANGED vars
  BY <1>14 DEF vars, server, sub, browser
<1> QED
  BY <1>1, <1>2, <1>3, <1>4, <1>5, <1>6, <1>7, <1>8, <1>9, <1>10, <1>11, <1>12, <1>13, <1>14
     DEF Next, Emit, Handle

(* The variables keep their types, and no channel holds more events than   *)
(* its capacity, for any numbers of goroutines and WebSockets.             *)
THEOREM TypeCorrect == Spec => []TypeOK
  BY TypeInit, TypeStep, PTL DEF Spec

-----------------------------------------------------------------------------
LEMMA CloseInvInit == Init => CloseInv
  BY DEF Init, CloseInv, NoPanic

LEMMA CloseInvStep == TypeOK /\ CloseInv /\ [Next]_vars => CloseInv'
<1> SUFFICES ASSUME TypeOK, CloseInv, [Next]_vars PROVE CloseInv'
  OBVIOUS
<1> USE DEF buffer, TypeOK, Points, Phases, CloseInv, NoPanic
<1>1. ASSUME NEW g \in Emitters, Change(g) PROVE CloseInv'
  BY <1>1 DEF Change, sub, browser
<1>2. ASSUME NEW g \in Emitters, EmitBegin(g) PROVE CloseInv'
  BY <1>2 DEF EmitBegin, sub, browser
<1>3. ASSUME NEW g \in Emitters, NEW s \in Subs, EmitOne(g, s) PROVE CloseInv'
  \* A subscription whose flag is not set has an open channel.
  BY <1>3 DEF EmitOne, Deliver, sub, browser
<1>4. ASSUME NEW g \in Emitters, EmitEnd(g) PROVE CloseInv'
  BY <1>4 DEF EmitEnd, sub, browser
<1>5. ASSUME NEW s \in Subs, Upgrade(s) PROVE CloseInv'
  BY <1>5 DEF Upgrade, server, sub, browser
<1>6. ASSUME NEW s \in Subs, LockWait(s) PROVE CloseInv'
  BY <1>6 DEF LockWait, server, sub, browser
<1>7. ASSUME NEW s \in Subs, Subscribe(s) PROVE CloseInv'
  BY <1>7 DEF Subscribe, Unlock, Locked, NoReader
<1>8. ASSUME NEW s \in Subs, Load(s) PROVE CloseInv'
  BY <1>8 DEF Load, server, sub
<1>9. ASSUME NEW s \in Subs, Forward(s) PROVE CloseInv'
  BY <1>9 DEF Forward, server, sub
<1>10. ASSUME NEW s \in Subs, Return(s) PROVE CloseInv'
  BY <1>10 DEF Return, server, sub, browser
<1>11. ASSUME NEW s \in Subs, CloseMark(s) PROVE CloseInv'
  BY <1>11 DEF CloseMark, server, browser
<1>12. ASSUME NEW s \in Subs, Unsubscribe(s) PROVE CloseInv'
  \* No reader holds the lock, so no todo list names the entry that goes.
  BY <1>12 DEF Unsubscribe, Unlock, Locked, NoReader, browser
<1>13. ASSUME NEW s \in Subs, CloseChannel(s) PROVE CloseInv'
  BY <1>13 DEF CloseChannel, server, browser
<1>14. CASE UNCHANGED vars
  BY <1>14 DEF vars, server, sub, browser
<1> QED
  BY <1>1, <1>2, <1>3, <1>4, <1>5, <1>6, <1>7, <1>8, <1>9, <1>10, <1>11, <1>12, <1>13, <1>14
     DEF Next, Emit, Handle

LEMMA CloseInvariant == Spec => [](TypeOK /\ CloseInv)
  BY TypeInit, TypeStep, CloseInvInit, CloseInvStep, PTL DEF Spec

(* However EmitUser and Subscription.Close interleave, no goroutine sends  *)
(* on a closed channel.                                                    *)
THEOREM NeverPanics == Spec => []NoPanic
<1>1. CloseInv => NoPanic
  BY DEF CloseInv
<1> QED
  BY CloseInvariant, <1>1, PTL

-----------------------------------------------------------------------------
(* One emitting goroutine: what LastWordInv says of it and of r. *)
Told(g, r) ==
  /\ pc[g] # "idle" => event[g] = version
  /\ phase[r] = "open" => r \notin closed
  /\ phase[r] = "open" /\ r \notin skipped /\ (r \in loaded \/ events[r] # <<>>) =>
       LastWord(r) = version \/ Pending(g, r)

(* Taking the first event from a buffer leaves its last one last. *)
LEMMA TailOfSeq ==
  ASSUME NEW S, NEW q \in Seq(S), q # <<>>
  PROVE  /\ Len(q) = 1 \/ Len(q) > 1
         /\ Len(Tail(q)) = Len(q) - 1
         /\ Len(q) = 1 => Tail(q) = <<>>
         /\ Len(q) > 1 => Tail(q) # <<>> /\ Tail(q)[Len(Tail(q))] = q[Len(q)]
<1>1. Len(q) \in Nat \ {0}
  OBVIOUS
<1>2. Tail(q) \in Seq(S) /\ Len(Tail(q)) = Len(q) - 1
  OBVIOUS
<1>3. \A i \in 1..(Len(q) - 1) : Tail(q)[i] = q[i + 1]
  OBVIOUS
<1>4. Tail(q) = <<>> <=> Len(Tail(q)) = 0
  BY <1>2, EmptySeq
<1> QED
  BY <1>1, <1>2, <1>3, <1>4

LEMMA ViewInvInit == Init => LastWordInv
  BY DEF Init, LastWordInv, Pending

LEMMA ViewInvStep ==
  ASSUME NEW g \in Emitters, Emitters = {g}
  PROVE  TypeOK /\ CloseInv /\ LastWordInv /\ [Next]_vars => LastWordInv'
<1> SUFFICES ASSUME TypeOK, CloseInv, LastWordInv, [Next]_vars, NEW r \in Subs
             PROVE  Told(g, r)'
  BY DEF LastWordInv, Told
<1>a. Told(g, r)
  BY DEF LastWordInv, Told
<1>b. /\ version \in 0..MaxChanges /\ BufferSize \in Nat /\ MaxChanges \in Nat
      /\ events[r] \in Seq(Versions) /\ Len(events[r]) \in Nat
  BY SizeAssumption DEF TypeOK, Versions
<1>c. pc[g] = "emit" => todo[g] \subseteq registered
  BY DEF CloseInv
<1>d. r \in registered <=> phase[r] \in {"open", "leaving", "flagged"}
  BY DEF CloseInv
<1> USE <1>a, <1>b DEF buffer, TypeOK, Points, Phases, Pending, Told
<1>1. CASE Change(g)
  BY <1>1 DEF Change, sub, browser, LastWord
<1>2. CASE EmitBegin(g)
  \* The goroutine takes the whole map along, with every open subscription.
  BY <1>2, <1>d DEF EmitBegin, sub, browser, LastWord
<1>3. ASSUME NEW s \in Subs, EmitOne(g, s) PROVE Told(g, r)'
  <2>1. CASE r # s
    BY <1>3, <2>1 DEF EmitOne, Deliver, sub, browser, LastWord
  <2>2. CASE r = s /\ s \in closed
    BY <1>3, <2>2 DEF EmitOne, sub, browser, LastWord
  <2>3. CASE r = s /\ s \notin closed /\ Len(events[s]) < BufferSize
    <3>1. /\ events'[s] = Append(events[s], event[g]) /\ event[g] = version
          /\ UNCHANGED <<version, pc, event, phase, sub, browser>>
          /\ todo' = [todo EXCEPT ![g] = @ \ {s}]
      BY <1>3, <2>3 DEF EmitOne, Deliver
    <3>2. /\ Len(Append(events[r], version)) = Len(events[r]) + 1
          /\ Append(events[r], version)[Len(events[r]) + 1] = version
          /\ Append(events[r], version) # <<>>
      BY <1>b
    <3>3. events'[r] # <<>> /\ events'[r][Len(events'[r])] = version
      BY <3>1, <3>2, <2>3
    <3> QED
      BY <2>3, <3>1, <3>3 DEF LastWord, sub, browser
  <2>4. CASE r = s /\ s \notin closed /\ ~(Len(events[s]) < BufferSize)
    BY <1>3, <2>4 DEF EmitOne, Deliver, sub, browser
  <2> QED
    BY <2>1, <2>2, <2>3, <2>4
<1>4. CASE EmitEnd(g)
  BY <1>4 DEF EmitEnd, sub, browser, LastWord
<1>5. ASSUME NEW s \in Subs, Upgrade(s) PROVE Told(g, r)'
  BY <1>5 DEF Upgrade, server, sub, browser, LastWord
<1>6. ASSUME NEW s \in Subs, LockWait(s) PROVE Told(g, r)'
  BY <1>6 DEF LockWait, server, sub, browser, LastWord
<1>7. ASSUME NEW s \in Subs, Subscribe(s) PROVE Told(g, r)'
  <2>1. /\ pc[g] # "emit"
        /\ pc'[g] = IF pc[g] = "blocked" THEN "emit" ELSE pc[g]
        /\ pc[g] = "blocked" => todo'[g] = registered \cup {s}
        /\ UNCHANGED <<version, event, view>>
    BY <1>7 DEF Subscribe, Unlock, Locked, NoReader
  <2>2. CASE r = s
    \* An empty buffer, and nothing loaded yet.
    BY <1>7, <2>1, <2>2 DEF Subscribe
  <2>3. CASE r # s
    <3>1. /\ events'[r] = events[r] /\ phase'[r] = phase[r]
          /\ r \in closed' <=> r \in closed
          /\ r \in loaded' <=> r \in loaded
          /\ r \in skipped' <=> r \in skipped
      BY <1>7, <2>3 DEF Subscribe
    <3>2. Pending(g, r)' => Pending(g, r)
      BY <2>1
    <3>3. phase[r] = "open" /\ Pending(g, r) => Pending(g, r)'
      BY <2>1, <1>d
    <3>4. LastWord(r)' = LastWord(r)
      BY <2>1, <3>1 DEF LastWord
    <3> QED
      BY <2>1, <3>1, <3>2, <3>3, <3>4
  <2> QED
    BY <2>2, <2>3
<1>8. ASSUME NEW s \in Subs, Load(s) PROVE Told(g, r)'
  BY <1>8 DEF Load, server, sub, LastWord
<1>9. ASSUME NEW s \in Subs, Forward(s) PROVE Told(g, r)'
  <2>1. CASE r # s
    BY <1>9, <2>1 DEF Forward, server, sub, LastWord
  <2>2. CASE r = s
    <3>1. /\ events[r] # <<>> /\ events'[r] = Tail(events[r])
          /\ UNCHANGED <<version, pc, event, todo, phase, closed, loaded, skipped>>
          /\ r \in loaded => view'[r] = events[r][1]
      BY <1>9, <2>2 DEF Forward, server, sub
    <3>2. Pending(g, r)' <=> Pending(g, r)
      BY <3>1
    <3>3. CASE Len(events[r]) = 1
      <4>1. events'[r] = <<>>
        BY <3>1, <3>3, TailOfSeq
      <4> QED
        BY <3>1, <3>2, <3>3, <4>1 DEF LastWord
    <3>4. CASE Len(events[r]) > 1
      <4>1. events'[r] # <<>> /\ events'[r][Len(events'[r])] = events[r][Len(events[r])]
        BY <3>1, <3>4, TailOfSeq
      <4> QED
        BY <3>1, <3>2, <4>1 DEF LastWord
    <3>5. Len(events[r]) = 1 \/ Len(events[r]) > 1
      BY <3>1, TailOfSeq
    <3> QED
      BY <3>3, <3>4, <3>5
  <2> QED
    BY <2>1, <2>2
<1>10. ASSUME NEW s \in Subs, Return(s) PROVE Told(g, r)'
  BY <1>10 DEF Return, server, sub, browser, LastWord
<1>11. ASSUME NEW s \in Subs, CloseMark(s) PROVE Told(g, r)'
  BY <1>11 DEF CloseMark, server, browser, LastWord
<1>12. ASSUME NEW s \in Subs, Unsubscribe(s) PROVE Told(g, r)'
  BY <1>12, <1>d DEF Unsubscribe, Unlock, Locked, NoReader, browser, LastWord
<1>13. ASSUME NEW s \in Subs, CloseChannel(s) PROVE Told(g, r)'
  BY <1>13 DEF CloseChannel, server, browser, LastWord
<1>14. CASE UNCHANGED vars
  BY <1>14 DEF vars, server, sub, browser, LastWord
<1> QED
  BY <1>1, <1>2, <1>3, <1>4, <1>5, <1>6, <1>7, <1>8, <1>9, <1>10, <1>11, <1>12, <1>13, <1>14
     DEF Next, Emit, Handle

(* With one emitting goroutine, a loaded browser for which no event was    *)
(* skipped and to which nothing is under way shows the true state,         *)
(* whenever it connected, loaded, and reconnected.                         *)
THEOREM ViewCorrect ==
  ASSUME NEW g \in Emitters, Emitters = {g}
  PROVE  Spec => []ShowsState
<1>1. LastWordInv => ShowsState
  BY DEF LastWordInv, ShowsState, LastWord, Pending
<1>2. TypeOK /\ CloseInv /\ LastWordInv /\ [Next]_vars => LastWordInv'
  BY ViewInvStep
<1> QED
  BY CloseInvariant, ViewInvInit, <1>1, <1>2, PTL DEF Spec
=============================================================================
