------------------------------ MODULE Frontend ------------------------------
(***************************************************************************)
(* The parts of the page that share no state: the notifications (Notify),  *)
(* the list of files (Files), the modes of a channel (Modes), the route    *)
(* (Navigation), the cards below messages (Embeds), the menu (Menu), the   *)
(* form for connections (ConnectionForm) and what is computed from texts   *)
(* and lists (Algorithms).  As no step of one can be seen by another, it is *)
(* enough to let one of them move at a time: "part" says which it is, and  *)
(* the others stay as they begin.                                          *)
(***************************************************************************)
EXTENDS Notify, Files, Modes, Navigation, Embeds, Menu, ConnectionForm, Algorithms

VARIABLE part

frontendVars ==
  <<notifyVars, filesVars, modesVars, routeVars, embedVars, menuVars, formVars, algorithmVars, part>>

FrontendInit ==
  /\ part \in {"notify", "files", "modes", "route", "embeds", "menu", "form", "algorithms"}
  /\ NotifyInit /\ FilesInit /\ ModesInit /\ NavigationInit
  /\ EmbedsInit /\ MenuInit /\ FormInit /\ AlgorithmInit
  /\ part # "modes" => shown = First /\ modes = [c \in Channels |-> {}]
  /\ part # "route" => stack = <<"root">> /\ lastUrl = Nowhere /\ ~session
  /\ part # "menu" => collapsed = {}
  /\ part # "form" => kept = {}
  /\ part # "algorithms" => kind = "message"

(* Channels are among the conversations of the route.                       *)
ASSUME FrontendAssumption ==
  First \in Channels /\ Channels \subseteq Chats /\ "message" \in DOMAIN Alphabet

(* All parts but those of one name stay as they are.                        *)
OnlyMoves(name) ==
  /\ part = name
  /\ name # "notify" => UNCHANGED notifyVars
  /\ name # "files" => UNCHANGED filesVars
  /\ name # "modes" => UNCHANGED modesVars
  /\ name # "route" => UNCHANGED routeVars
  /\ name # "embeds" => UNCHANGED embedVars
  /\ name # "menu" => UNCHANGED menuVars
  /\ name # "form" => UNCHANGED formVars
  /\ name # "algorithms" => UNCHANGED algorithmVars

FrontendNext ==
  /\ UNCHANGED part
  /\ \/ OnlyMoves("notify") /\ NotifyNext
     \/ OnlyMoves("files") /\ FilesNext
     \/ OnlyMoves("modes") /\ ModesNext
     \/ OnlyMoves("route") /\ NavigationNext
     \/ OnlyMoves("embeds") /\ EmbedsNext
     \/ OnlyMoves("menu") /\ MenuNext
     \/ OnlyMoves("form") /\ FormNext
     \/ OnlyMoves("algorithms") /\ AlgorithmNext

FrontendSpec == FrontendInit /\ [][FrontendNext]_frontendVars
=============================================================================
