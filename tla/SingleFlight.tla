---------------------------- MODULE SingleFlight ----------------------------
(***************************************************************************)
(* What an Operation promises to those who call perform(): one request is  *)
(* under way at a time, who calls meanwhile joins it, and all of them are  *)
(* answered together.  Operation.tla implements it.                        *)
(***************************************************************************)
CONSTANTS Callers, Values, None

VARIABLES
  flight,  \* what the request under way asks for
  waiting  \* who waits for its answer

Init == flight = None /\ waiting = {}

Join(c) ==
  /\ c \in Callers \ waiting
  /\ waiting' = waiting \cup {c}
  /\ flight' \in IF flight = None THEN Values ELSE {flight}

Land == flight # None /\ flight' = None /\ waiting' = {}

Next == Land \/ \E c \in Callers : Join(c)

vars == <<flight, waiting>>

Safety == Init /\ [][Next]_vars

Spec == Safety /\ WF_vars(Land)
=============================================================================
