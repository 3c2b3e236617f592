------------------------- MODULE IrcLifecycleProofs -------------------------
(* Theorems about IrcLifecycle, for every set of goroutines, clients and    *)
(* channels and every number of commands.                                   *)
EXTENDS IrcLifecycle, TLAPS

(* Case split of a step, shared by the proofs below. *)
LEMMA StepCases ==
  ASSUME Next
  PROVE  \/ \E g \in Procs : Command(g)
         \/ \E g \in Procs : Step(g)
         \/ \E c \in Clients : Network(c)
  BY DEF Next

-----------------------------------------------------------------------------
(* Every variable keeps its type. *)

LEMMA TypeInit == Init => TypeOK
  BY BoundAssumption DEF Init, TypeOK, States, Sockets, Points, Tasks

LEMMA TypeCommand ==
  ASSUME TypeOK, NEW g \in Procs, Command(g)
  PROVE  TypeOK'
  BY BoundAssumption
  DEF TypeOK, States, Sockets, Points, Tasks, Command, AutoConnect, CmdConnect,
      CmdDisconnect, CmdReconnect, CmdRemove, Give, net, AllCommands

LEMMA TypeStep ==
  ASSUME TypeOK, NEW g \in Procs, Step(g)
  PROVE  TypeOK'
<1> USE DEF TypeOK, Points, Tasks, conn, net, go, past
<1>1. CASE ConnectNotNeeded(g)
  BY <1>1 DEF ConnectNotNeeded, ReturnNil, Finish
<1>2. CASE ConnectNotWanted(g)
  BY <1>2 DEF ConnectNotWanted, ReturnError, Finish, Goto
<1>3. CASE ConnectBegin(g)
  BY <1>3 DEF ConnectBegin, Goto, AfterClose, FreeChans, Live, States, Sockets
<1>4. CASE DialOk(g)
  BY <1>4 DEF DialOk, ReturnNil, Finish, Sockets
<1>5. CASE DialFail(g)
  BY <1>5 DEF DialFail, ReturnError, Finish, Goto, States, Sockets
<1>6. CASE DisconnectBegin(g)
  <2>1. stop' \in Chans \cup {None} /\ closed' \subseteq Chans
    BY <1>6 DEF DisconnectBegin, AfterClose, LeaveClosed, FreeChans
  <2>2. state' \in States /\ mu' \in Procs \cup {None} /\ quitting' \subseteq Clients
    BY <1>6 DEF DisconnectBegin, States
  <2>3. pc' \in [Procs -> Points] /\ task' \in [Procs -> Tasks]
    BY <1>6 DEF DisconnectBegin, AfterDisconnect, Finish, Goto
  <2>4. QED
    BY <1>6, <2>1, <2>2, <2>3 DEF DisconnectBegin
<1>7. CASE DisconnectEnd(g)
  BY <1>7 DEF DisconnectEnd, AfterDisconnect, Finish, States
<1>8. CASE LoopQueue(g)
  BY <1>8 DEF LoopQueue, Goto
<1>9. CASE LoopStopped(g)
  BY <1>9 DEF LoopStopped, Finish
<1>10. CASE LoopTimer(g)
  BY <1>10 DEF LoopTimer, Goto
<1>11. CASE LoopCheck(g)
  BY <1>11 DEF LoopCheck, Finish, Goto
<1>12. QED
  BY <1>1, <1>2, <1>3, <1>4, <1>5, <1>6, <1>7, <1>8, <1>9, <1>10, <1>11 DEF Step

LEMMA TypeNetwork ==
  ASSUME TypeOK, NEW c \in Clients, Network(c)
  PROVE  TypeOK'
  BY DEF TypeOK, States, Sockets, Points, Tasks, Network, Register, Drop,
         DisconnectCallback, conn, net, go, past

(* The state of the connection, its channels and its goroutines stay in     *)
(* their types whatever the interleaving.                                   *)
THEOREM TypeCorrect == Spec => []TypeOK
<1>1. TypeOK /\ [Next]_vars => TypeOK'
  <2> SUFFICES ASSUME TypeOK, [Next]_vars
               PROVE  TypeOK'
    OBVIOUS
  <2>1. CASE Next
    BY <2>1, StepCases, TypeCommand, TypeStep, TypeNetwork
  <2>2. CASE UNCHANGED vars
    BY <2>2 DEF TypeOK, vars, conn, net, go, past
  <2>3. QED
    BY <2>1, <2>2
<1>2. QED
  BY <1>1, TypeInit, PTL DEF Spec
-----------------------------------------------------------------------------
(* Loops can be stopped. *)

LEMMA StopInvInit == Init => StopInv
  BY DEF Init, StopInv, LoopsCanBeStopped, Live, IsLoop

LEMMA StopInvStep ==
  ASSUME TypeOK, StopInv, [Next]_vars
  PROVE  StopInv'
<1> USE NoneAssumption DEF TypeOK, StopInv, LoopsCanBeStopped, Live, IsLoop, conn, net, go, past
<1>1. ASSUME NEW g \in Procs, Command(g)
      PROVE  StopInv'
  BY <1>1 DEF Command, AutoConnect, CmdConnect, CmdDisconnect, CmdReconnect,
              CmdRemove, Give
<1>2. ASSUME NEW g \in Procs, ConnectNotNeeded(g) \/ ConnectNotWanted(g)
      PROVE  StopInv'
  BY <1>2 DEF ConnectNotNeeded, ConnectNotWanted, ReturnNil, ReturnError, Finish, Goto
<1>3. ASSUME NEW g \in Procs, ConnectBegin(g)
      PROVE  StopInv'
  <2>1. PICK ch \in FreeChans : stop' = ch /\ closed' = AfterClose \ {ch}
    BY <1>3 DEF ConnectBegin
  <2>2. pc' = [pc EXCEPT ![g] = "dial"] /\ task' = task /\ watch' = watch
    BY <1>3 DEF ConnectBegin, Goto
  <2>3. QED
    BY <2>1, <2>2 DEF FreeChans, AfterClose
<1>4. ASSUME NEW g \in Procs, DialOk(g) \/ DialFail(g)
      PROVE  StopInv'
  BY <1>4 DEF DialOk, DialFail, ReturnNil, ReturnError, Finish, Goto
<1>5. ASSUME NEW g \in Procs, DisconnectBegin(g)
      PROVE  StopInv'
  <2>1. PICK ch \in FreeChans : stop' = ch /\ closed' = LeaveClosed(ch)
    BY <1>5 DEF DisconnectBegin
  <2>2. /\ watch' = watch
        /\ \A h \in Procs : pc'[h] \in {"queue", "wait", "check"} => pc'[h] = pc[h] /\ task'[h] = task[h]
    BY <1>5 DEF DisconnectBegin, AfterDisconnect, Finish, Goto
  <2>3. QED
    BY <2>1, <2>2 DEF FreeChans, AfterClose, LeaveClosed
<1>6. ASSUME NEW g \in Procs, DisconnectEnd(g)
      PROVE  StopInv'
  BY <1>6 DEF DisconnectEnd, AfterDisconnect, Finish
<1>7. ASSUME NEW g \in Procs, LoopQueue(g)
      PROVE  StopInv'
  BY <1>7 DEF LoopQueue, Goto
<1>8. ASSUME NEW g \in Procs, LoopStopped(g) \/ LoopTimer(g) \/ LoopCheck(g)
      PROVE  StopInv'
  BY <1>8 DEF LoopStopped, LoopTimer, LoopCheck, Finish, Goto
<1>9. ASSUME NEW c \in Clients, Network(c)
      PROVE  StopInv'
  BY <1>9 DEF Network, Register, Drop, DisconnectCallback
<1>10. CASE UNCHANGED vars
  BY <1>10 DEF vars
<1>11. QED
  BY <1>1, <1>2, <1>3, <1>4, <1>5, <1>6, <1>7, <1>8, <1>9, <1>10 DEF Next, Step

(* Whatever Connect and Disconnect did to Connection.stopReconnect, a       *)
(* sleeping reconnectLoop is woken by the next one of them.                 *)
THEOREM LoopsStoppable == Spec => []LoopsCanBeStopped
<1>1. StopInv => LoopsCanBeStopped
  BY DEF StopInv
<1>2. QED
  BY <1>1, TypeCorrect, StopInvInit, StopInvStep, PTL DEF Spec

-----------------------------------------------------------------------------
(* Disconnect is final. *)

LEMMA QuietStep ==
  ASSUME TypeOK, Quiet, [Next]_vars, given' = given
  PROVE  Quiet'
<1> USE DEF TypeOK, Quiet, conn, net, go, past
<1>1. ASSUME NEW g \in Procs, Command(g)
      PROVE  FALSE
  BY <1>1 DEF Command, AutoConnect, CmdConnect, CmdDisconnect, CmdReconnect,
              CmdRemove, Give
<1>2. ASSUME NEW g \in Procs, LoopQueue(g)
      PROVE  Quiet'
  BY <1>2 DEF LoopQueue, Goto
<1>3. ASSUME NEW g \in Procs, LoopStopped(g)
      PROVE  Quiet'
  BY <1>3 DEF LoopStopped, Finish
<1>4. ASSUME NEW g \in Procs, Step(g), ~LoopQueue(g), ~LoopStopped(g)
      PROVE  FALSE
  BY <1>4 DEF Step, ConnectNotNeeded, ConnectNotWanted, ConnectBegin, DialOk,
              DialFail, DisconnectBegin, DisconnectEnd, LoopTimer, LoopCheck
<1>5. ASSUME NEW c \in Clients, Network(c)
      PROVE  Quiet'
  BY <1>5 DEF Network, Register, Drop, DisconnectCallback
<1>6. CASE UNCHANGED vars
  BY <1>6 DEF vars
<1>7. QED
  BY <1>1, <1>2, <1>3, <1>4, <1>5, <1>6 DEF Next

(* After Disconnect returned with no attempt in flight, neither a loop nor  *)
(* a late disconnect callback opens a session before the next command.      *)
THEOREM DisconnectFinal == Spec => DisconnectIsFinal
<1>1. TypeOK /\ [Next]_vars => [Quiet /\ given' = given => Quiet']_vars
  BY QuietStep
<1>2. QED
  BY <1>1, TypeCorrect, PTL DEF Spec, DisconnectIsFinal
-----------------------------------------------------------------------------
(* One session, and a truthful state, while the user does not disconnect.   *)

LEMMA SessionInvInit == Init => SessionInv
  BY NoneAssumption
  DEF Init, SessionInv, OneSession, StateIsTrue, Steadfast, Live

LEMMA AskedGrows ==
  ASSUME [Next]_vars
  PROVE  asked \subseteq asked'
<1> USE DEF past
<1>1. ASSUME NEW g \in Procs, Command(g)
      PROVE  asked \subseteq asked'
  BY <1>1 DEF Command, AutoConnect, CmdConnect, CmdDisconnect, CmdReconnect, CmdRemove, Give
<1>2. ASSUME NEW g \in Procs, Step(g)
      PROVE  asked \subseteq asked'
  BY <1>2 DEF Step, ConnectNotNeeded, ConnectNotWanted, ConnectBegin, DialOk, DialFail,
              DisconnectBegin, DisconnectEnd, LoopQueue, LoopStopped, LoopTimer, LoopCheck
<1>3. ASSUME NEW c \in Clients, Network(c)
      PROVE  asked \subseteq asked'
  BY <1>3 DEF Network, Register, Drop, DisconnectCallback
<1>4. QED
  BY <1>1, <1>2, <1>3 DEF Next, vars

LEMMA SessionInvStep ==
  ASSUME TypeOK, SessionInv, [Next]_vars
  PROVE  SessionInv'
<1> SUFFICES ASSUME Steadfast, Steadfast'
             PROVE  SessionInv'
  BY AskedGrows DEF Steadfast, SessionInv, OneSession, StateIsTrue
<1> USE NoneAssumption DEF TypeOK, SessionInv, OneSession, StateIsTrue, Live, conn, net, go, past
<1>1. ASSUME NEW g \in Procs, Command(g)
      PROVE  SessionInv'
  BY <1>1 DEF Command, AutoConnect, CmdConnect, CmdDisconnect, CmdReconnect,
              CmdRemove, Give, Steadfast
<1>2. ASSUME NEW g \in Procs, ConnectNotNeeded(g) \/ ConnectNotWanted(g)
      PROVE  SessionInv'
  BY <1>2 DEF ConnectNotNeeded, ConnectNotWanted, ReturnNil, ReturnError, Finish, Goto
<1>3. ASSUME NEW g \in Procs, ConnectBegin(g)
      PROVE  SessionInv'
  <2>1. Live = {}
    BY <1>3 DEF ConnectBegin, Unconnected
  <2>2. PICK c \in Clients : /\ sock' = [sock EXCEPT ![c] = "dial"]
                             /\ dialing' = [dialing EXCEPT ![g] = c]
    BY <1>3 DEF ConnectBegin
  <2>3. /\ state' = "connecting" /\ mu' = mu /\ quitting' = quitting
        /\ pc' = [pc EXCEPT ![g] = "dial"] /\ task' = task
    BY <1>3 DEF ConnectBegin, Goto
  <2>4. \A h \in Procs : pc[h] # "dial"
    BY <2>1
  <2>5. QED
    BY <2>1, <2>2, <2>3, <2>4
<1>4. ASSUME NEW g \in Procs, DialOk(g)
      PROVE  SessionInv'
  BY <1>4 DEF DialOk, ReturnNil, Finish
<1>5. ASSUME NEW g \in Procs, DialFail(g)
      PROVE  SessionInv'
  BY <1>5 DEF DialFail, ReturnError, Finish, Goto, IsLoop
<1>6. ASSUME NEW g \in Procs, DisconnectBegin(g) \/ DisconnectEnd(g)
      PROVE  SessionInv'
  BY <1>6 DEF DisconnectBegin, DisconnectEnd
<1>7. ASSUME NEW g \in Procs,
             LoopQueue(g) \/ LoopStopped(g) \/ LoopTimer(g) \/ LoopCheck(g)
      PROVE  SessionInv'
  BY <1>7 DEF LoopQueue, LoopStopped, LoopTimer, LoopCheck, Finish, Goto
<1>8. ASSUME NEW c \in Clients, Register(c) \/ Drop(c)
      PROVE  SessionInv'
  BY <1>8 DEF Register, Drop
<1>9. ASSUME NEW c \in Clients, DisconnectCallback(c)
      PROVE  SessionInv'
  <2>1. Live = {c} /\ \A h \in Procs : pc[h] # "dial"
    BY <1>9 DEF DisconnectCallback
  <2>2. QED
    BY <1>9, <2>1 DEF DisconnectCallback
<1>10. CASE UNCHANGED vars
  BY <1>10 DEF vars
<1>11. QED
  BY <1>1, <1>2, <1>3, <1>4, <1>5, <1>6, <1>7, <1>8, <1>9, <1>10
  DEF Next, Step, Network

(* As long as the user only connects, by hand, at start-up and through      *)
(* reconnectLoop, there is one session at most, and the state shown is true. *)
THEOREM SessionsCorrect == Spec => []SessionIsTrue
<1>1. Init => SessionInv
  BY SessionInvInit
<1>2. TypeOK /\ SessionInv /\ [Next]_vars => SessionInv'
  BY SessionInvStep
<1>3. SessionInv => SessionIsTrue
  BY DEF SessionInv, SessionIsTrue
<1>4. QED
  BY <1>1, <1>2, <1>3, TypeCorrect, PTL DEF Spec

=============================================================================
