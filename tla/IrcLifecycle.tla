---------------------------- MODULE IrcLifecycle ----------------------------
(***************************************************************************)
(* The life of one IRC connection: Connect, Disconnect, reconnectLoop and  *)
(* the connect / disconnect callbacks of pkg/irc/connection.go, run by     *)
(* concurrent goroutines.                                                  *)
(*                                                                         *)
(* A goroutine is a slot of Procs.  The ircevent library (outside the      *)
(* repository) is the variable sock: one entry per client object.          *)
(* Client objects, channels and goroutine slots are recycled once nothing  *)
(* refers to them, so that the state space is finite without a bound on    *)
(* the length of a run; only the number of user commands is bounded.       *)
(***************************************************************************)
EXTENDS Naturals, FiniteSets

CONSTANTS
  Procs,        \* goroutines
  Clients,      \* ircevent.Connection objects
  Chans,        \* stopReconnect channels
  Commands,     \* the user commands that may be given
  MaxCommands,  \* bound: how many of them
  None          \* nil

AllCommands == {"start", "connect", "disconnect", "reconnect", "remove"}

ASSUME CommandsAssumption == Commands \subseteq AllCommands
ASSUME BoundAssumption == MaxCommands \in Nat
ASSUME NoneAssumption == None \notin Procs \cup Clients \cup Chans

VARIABLES
  state,     \* BaseConnection.state
  wanted,    \* BaseConnection.wantedState
  mu,        \* the goroutine inside Disconnect that holds Connection.mu, or None
  stop,      \* Connection.stopReconnect
  closed,    \* the channels that are closed (or not allocated)
  client,    \* Connection.client
  sock,      \* what each client object is doing
  quitting,  \* the clients QUIT was sent on
  pc,        \* what each goroutine is about to do
  task,      \* why it does it
  dialing,   \* the client a goroutine called Connect() on
  watch,     \* the channel a reconnectLoop waits on
  given,     \* how many user commands were given
  asked      \* which ones

conn == <<state, wanted, mu, stop, closed, client>>
net  == <<sock, quitting>>
go   == <<pc, task, dialing, watch>>
past == <<given, asked>>
vars == <<conn, net, go, past>>

States  == {"disconnected", "connecting", "connected", "disconnecting"}
Sockets == {"free", "dial", "up", "registered", "down"}
Points  == {"idle", "connect", "dial", "disconnect", "quit", "queue", "wait", "check"}
Tasks   == {"once", "reconnect", "loop", "quitloop"}

TypeOK ==
  /\ state \in States
  /\ wanted \in {"connected", "disconnected"}
  /\ mu \in Procs \cup {None}
  /\ stop \in Chans \cup {None}
  /\ closed \subseteq Chans
  /\ client \in Clients \cup {None}
  /\ sock \in [Clients -> Sockets]
  /\ quitting \subseteq Clients
  /\ pc \in [Procs -> Points]
  /\ task \in [Procs -> Tasks]
  /\ dialing \in [Procs -> Clients \cup {None}]
  /\ watch \in [Procs -> Chans \cup {None}]
  /\ given \in 0..MaxCommands /\ asked \subseteq Commands

Init ==
  /\ state = "disconnected"
  /\ wanted \in {"connected", "disconnected"}
  /\ mu = None
  /\ stop = None
  /\ closed = Chans
  /\ client = None
  /\ sock = [c \in Clients |-> "free"]
  /\ quitting = {}
  /\ pc = [g \in Procs |-> "idle"]
  /\ task = [g \in Procs |-> "once"]
  /\ dialing = [g \in Procs |-> None]
  /\ watch = [g \in Procs |-> None]
  /\ given = 0 /\ asked = {}

-----------------------------------------------------------------------------
Live == {c \in Clients : sock[c] # "free"}
IsLoop(g) == task[g] \in {"loop", "quitloop"}

(* A channel nobody holds: make(chan struct{}) returns one. *)
FreeChans == {ch \in Chans : ch # stop /\ \A g \in Procs : watch[g] # ch}

(* Faulty variant: the channel is replaced and left open. *)
AfterNoClose == closed
(* close(stopReconnect), unless it is nil or closed already. *)
AfterClose == closed \cup ({stop} \ {None})

(* Disconnect leaves a channel that is closed from the start. *)
LeaveClosed(ch) == AfterClose \cup {ch}

(* Faulty variant: only an established session stops a second one. *)
NotConnected == state # "connected"
(* Connect() has something to do. *)
Unconnected == state \notin {"connected", "connecting"}

Finish(g) == pc' = [pc EXCEPT ![g] = "idle"] /\ task' = [task EXCEPT ![g] = "once"]
Goto(g, p) == pc' = [pc EXCEPT ![g] = p] /\ UNCHANGED task

(* Connect() returned nil: every caller is done with it. *)
ReturnNil(g) == Finish(g)
(* Faulty variant: reconnectLoop tries once, as a single-shot would. *)
ReturnErrorOnce(g) == Finish(g)
(* Connect() returned an error: only reconnectLoop tries again. *)
ReturnError(g) == IF IsLoop(g) THEN Goto(g, "queue") ELSE Finish(g)

-----------------------------------------------------------------------------
(* User commands.  Each starts a goroutine. *)

Give(g, cmd, p, t) ==
  /\ cmd \in Commands
  /\ given < MaxCommands
  /\ given' = given + 1 /\ asked' = asked \cup {cmd}
  /\ pc[g] = "idle"
  /\ pc' = [pc EXCEPT ![g] = p]
  /\ task' = [task EXCEPT ![g] = t]
  /\ UNCHANGED <<state, mu, stop, closed, client, net, dialing, watch>>

(* Core.Start, CreateConnection, RegisterUser: once in the life of the       *)
(* object, if it wants to connect; Start's delay is time before ConnectBegin. *)
AutoConnect(g) ==
  /\ given = 0
  /\ wanted = "connected"
  /\ Give(g, "start", "connect", "once")
  /\ UNCHANGED wanted

CmdConnect(g) ==
  /\ Give(g, "connect", "connect", "once")
  /\ wanted' = "connected"

CmdDisconnect(g) ==
  /\ Give(g, "disconnect", "disconnect", "once")
  /\ wanted' = "disconnected"

CmdReconnect(g) ==
  /\ Give(g, "reconnect", "disconnect", "reconnect")
  /\ UNCHANGED wanted

(* User.RemoveConnection and Core.RemoveUser disconnect, wanted or not. *)
CmdRemove(g) ==
  /\ Give(g, "remove", "disconnect", "once")
  /\ UNCHANGED wanted

-----------------------------------------------------------------------------
(* Connect(), up to the release of Connection.mu. *)

ConnectNotNeeded(g) ==
  /\ pc[g] = "connect" /\ mu = None
  /\ ~Unconnected
  /\ ReturnNil(g)
  /\ UNCHANGED <<conn, net, dialing, watch, past>>

ConnectNotWanted(g) ==
  /\ pc[g] = "connect" /\ mu = None
  /\ Unconnected
  /\ wanted # "connected"
  /\ ReturnError(g)
  /\ UNCHANGED <<conn, net, dialing, watch, past>>

ConnectBegin(g) ==
  /\ pc[g] = "connect" /\ mu = None
  /\ Unconnected
  /\ wanted = "connected"
  /\ \E c \in Clients \ Live, ch \in FreeChans :
       /\ state' = "connecting"
       /\ closed' = AfterClose \ {ch}
       /\ stop' = ch
       /\ client' = c
       /\ sock' = [sock EXCEPT ![c] = "dial"]
       /\ dialing' = [dialing EXCEPT ![g] = c]
  /\ Goto(g, "dial")
  /\ UNCHANGED <<wanted, mu, quitting, watch, past>>

(* client.Connect(), called without the lock. *)
DialOk(g) ==
  /\ pc[g] = "dial"
  /\ sock' = [sock EXCEPT ![dialing[g]] = "up"]
  /\ dialing' = [dialing EXCEPT ![g] = None]
  /\ ReturnNil(g)
  /\ UNCHANGED <<conn, quitting, watch, past>>

DialFail(g) ==
  /\ pc[g] = "dial"
  /\ sock' = [sock EXCEPT ![dialing[g]] = "free"]
  /\ dialing' = [dialing EXCEPT ![g] = None]
  /\ state' = "disconnected"
  /\ ReturnError(g)
  /\ UNCHANGED <<wanted, mu, stop, closed, client, quitting, watch, past>>

-----------------------------------------------------------------------------
(* Disconnect(): two steps under Connection.mu, because other goroutines   *)
(* see the state "disconnecting" while QUIT is sent.                       *)

AfterDisconnect(g) ==
  IF task[g] = "reconnect"
    THEN pc' = [pc EXCEPT ![g] = "connect"] /\ task' = [task EXCEPT ![g] = "once"]
    ELSE Finish(g)

(* Close the channel and leave a closed one, then see what there is to do. *)
DisconnectBegin(g) ==
  /\ pc[g] = "disconnect" /\ mu = None
  /\ \E ch \in FreeChans :
       /\ stop' = ch
       /\ closed' = LeaveClosed(ch)
  /\ \/ /\ state \in {"disconnected", "disconnecting"}
        /\ AfterDisconnect(g)
        /\ UNCHANGED <<state, mu, quitting>>
     \/ /\ state \notin {"disconnected", "disconnecting"}
        /\ state' = "disconnecting"
        /\ mu' = g
        /\ quitting' = quitting \cup {c \in {client} \cap Clients : sock[c] \in {"up", "registered"}}
        /\ Goto(g, "quit")
  /\ UNCHANGED <<wanted, client, sock, dialing, watch, past>>

DisconnectEnd(g) ==
  /\ pc[g] = "quit"
  /\ state' = "disconnected"
  /\ mu' = None
  /\ AfterDisconnect(g)
  /\ UNCHANGED <<wanted, stop, closed, client, net, dialing, watch, past>>

-----------------------------------------------------------------------------
(* reconnectLoop(). *)

(* Faulty variant: the loop waits on a nil channel. *)
LoopQueueNil(g) ==
  /\ pc[g] = "queue" /\ mu = None
  /\ watch' = [watch EXCEPT ![g] = None]
  /\ Goto(g, "wait")
  /\ UNCHANGED <<conn, net, dialing, past>>

(* Read the current channel; a closed one ends the loop at once. *)
LoopQueue(g) ==
  /\ pc[g] = "queue" /\ mu = None
  /\ watch' = [watch EXCEPT ![g] = stop]
  /\ Goto(g, "wait")
  /\ UNCHANGED <<conn, net, dialing, past>>

LoopStopped(g) ==
  /\ pc[g] = "wait"
  /\ watch[g] \in closed
  /\ watch' = [watch EXCEPT ![g] = None]
  /\ Finish(g)
  /\ UNCHANGED <<conn, net, dialing, past>>

(* The delay of 2 seconds or more is over before the channel is closed. *)
LoopTimer(g) ==
  /\ pc[g] = "wait"
  /\ watch[g] \notin closed
  /\ watch' = [watch EXCEPT ![g] = None]
  /\ Goto(g, "check")
  /\ UNCHANGED <<conn, net, dialing, past>>

LoopCheck(g) ==
  /\ pc[g] = "check"
  /\ IF wanted # "connected" THEN Finish(g) ELSE Goto(g, "connect")
  /\ UNCHANGED <<conn, net, dialing, watch, past>>

-----------------------------------------------------------------------------
(* The network and the callbacks the library runs. *)

(* End of the server's welcome: the connect callback. *)
Register(c) ==
  /\ sock[c] = "up" /\ mu = None
  /\ sock' = [sock EXCEPT ![c] = "registered"]
  /\ state' = "connected"
  /\ UNCHANGED <<wanted, mu, stop, closed, client, quitting, go, past>>

(* The server or the network closes the socket, after QUIT or without it. *)
Drop(c) ==
  /\ sock[c] \in {"up", "registered"}
  /\ sock' = [sock EXCEPT ![c] = "down"]
  /\ UNCHANGED <<conn, quitting, go, past>>

(* The disconnect callback: it holds no lock and does not look which client *)
(* is the current one.                                                      *)
DisconnectCallback(c) ==
  /\ sock[c] = "down"
  /\ sock' = [sock EXCEPT ![c] = "free"]
  /\ quitting' = quitting \ {c}
  /\ state' = "disconnected"
  /\ \/ /\ wanted = "connected"
        /\ \E g \in Procs :
             /\ pc[g] = "idle"
             /\ pc' = [pc EXCEPT ![g] = "queue"]
             /\ task' = [task EXCEPT ![g] = IF c \in quitting THEN "quitloop" ELSE "loop"]
     \/ wanted # "connected" /\ UNCHANGED <<pc, task>>
  /\ UNCHANGED <<wanted, mu, stop, closed, client, dialing, watch, past>>

-----------------------------------------------------------------------------
Command(g) ==
  AutoConnect(g) \/ CmdConnect(g) \/ CmdDisconnect(g) \/ CmdReconnect(g) \/ CmdRemove(g)

Step(g) ==
  \/ ConnectNotNeeded(g) \/ ConnectNotWanted(g) \/ ConnectBegin(g)
  \/ DialOk(g) \/ DialFail(g)
  \/ DisconnectBegin(g) \/ DisconnectEnd(g)
  \/ LoopQueue(g) \/ LoopStopped(g) \/ LoopTimer(g) \/ LoopCheck(g)

Network(c) == Register(c) \/ Drop(c) \/ DisconnectCallback(c)

Next == (\E g \in Procs : Command(g) \/ Step(g)) \/ (\E c \in Clients : Network(c))

Spec == Init /\ [][Next]_vars

(* Goroutines and callbacks get to run and timers fire; a server that got  *)
(* QUIT closes the socket; a dial ends.                                    *)
Fairness ==
  /\ \A g \in Procs : WF_vars(Step(g))
  /\ \A c \in Clients : WF_vars(DisconnectCallback(c)) /\ WF_vars(c \in quitting /\ Drop(c))

FairSpec == Spec /\ Fairness

(* The network is not down for ever: of infinitely many dials and           *)
(* registrations some succeed.                                              *)
NetworkHeals ==
  /\ \A g \in Procs : SF_vars(DialOk(g))
  /\ \A c \in Clients : SF_vars(Register(c))
-----------------------------------------------------------------------------
(* Properties. *)

(* reconnectLoop re-reads Connection.stopReconnect on every turn: a loop    *)
(* that sleeps watches either the channel the next Connect or Disconnect    *)
(* will close, or one that is closed already.  No loop sleeps on nil or on  *)
(* a channel that was replaced without being closed.                        *)
LoopsCanBeStopped ==
  \A g \in Procs : pc[g] = "wait" => watch[g] \in closed \cup ({stop} \ {None})

(* The strengthening that makes it inductive: before the first channel is   *)
(* made there is no session and no loop, and only loops sleep.              *)
StopInv ==
  /\ LoopsCanBeStopped
  /\ stop = None => Live = {} /\ \A g \in Procs : ~IsLoop(g) /\ pc[g] # "dial"
  /\ \A g \in Procs : pc[g] \in {"queue", "wait", "check"} => IsLoop(g)

(* The user never took back the wish to be connected. *)
Steadfast == asked \subseteq {"start", "connect"}

(* The two branches of Connect() that give up must leave one session at     *)
(* most: for a steadfast user there are never two client objects with a     *)
(* socket, whatever reconnectLoop, dials in flight and callbacks do.        *)
OneSession == Steadfast => \A c, d \in Live : c = d

(* What a steadfast user is shown is true: "connected" is a session that    *)
(* registered (and whose end may not have been noticed yet), "connecting"   *)
(* one that has not, and without a session the state says so.               *)
StateIsTrue ==
  Steadfast =>
    /\ state = "connected" => \E c \in Clients : sock[c] \in {"registered", "down"}
    /\ state = "connecting" => \E c \in Clients : sock[c] \in {"dial", "up", "down"}
    /\ Live # {} => state \in {"connecting", "connected"}

(* One session at most, and a state that is true of it.                     *)
SessionIsTrue == OneSession /\ StateIsTrue

(* The strengthening that makes it inductive: while the user is           *)
(* steadfast nobody is inside Disconnect, QUIT is never sent, and a         *)
(* goroutine that dials owns the only session there is.                     *)
SessionInv ==
  /\ OneSession
  /\ StateIsTrue
  /\ Steadfast =>
       /\ mu = None /\ quitting = {}
       /\ \A g \in Procs :
            /\ pc[g] \notin {"disconnect", "quit"}
            /\ task[g] \in {"once", "loop"}
            /\ pc[g] = "dial" => dialing[g] \in Clients /\ sock[dialing[g]] = "dial"
       /\ \A g, h \in Procs : pc[g] = "dial" /\ pc[h] = "dial" => g = h

(* A command asked for a connection that is there or is being made.         *)
Again == {"connect", "reconnect"} \cap asked # {}

(* Nothing is under way that could open a session: the channel is closed,   *)
(* nobody is inside or about to call Connect, and no socket is opening.     *)
Quiet ==
  /\ stop \in closed
  /\ \A g \in Procs : pc[g] \in {"idle", "queue", "wait"}
  /\ \A g \in Procs : pc[g] = "wait" => watch[g] \in closed

(* Disconnect is final also for a connection that is still wanted (it is    *)
(* being removed): once it returned and no attempt was in flight, loops and *)
(* late callbacks cannot start an attempt before the next user command.     *)
DisconnectIsFinal == [][Quiet /\ given' = given => Quiet']_vars

(* A session that was lost without QUIT is replaced, or Disconnect closed   *)
(* the channel.                                                             *)
Repaired == state = "connected" \/ stop \in closed
Lost(c) == sock[c] = "down" /\ c \notin quitting

(* "retries connection [...] until success or the user explicitly           *)
(* disconnects" (reconnectLoop).                                            *)
LossIsRepaired == NetworkHeals => \A c \in Clients : Lost(c) ~> Repaired

(* ... and so it is, as long as nobody interferes with /connect: the loop   *)
(* itself never gives up.                                                   *)
LoopRepairs == NetworkHeals => \A c \in Clients : Lost(c) ~> (Repaired \/ Again)
=============================================================================
