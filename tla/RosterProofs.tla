---------------------------- MODULE RosterProofs ----------------------------
(***************************************************************************)
(* Theorems about the roster of a channel (Roster): what the handlers will *)
(* have made of it once everything on the wire is handled.                  *)
(*                                                                         *)
(* The invariant is about a path: the rosters the handlers are to go       *)
(* through, from that of now over one for each message under way.  Every   *)
(* message lengthens the path at its end, every handler takes its first    *)
(* step, and what is claimed is claimed of its end.                         *)
(*                                                                         *)
(* What the browser shows is proved along another path, of the truth: who  *)
(* was there before and after each message that is not handled and each    *)
(* event that is not seen.  Its end is who is there now, its beginning what *)
(* the browser shows unless the answer to its request is under way.         *)
(***************************************************************************)
EXTENDS Roster, TLAPS

RosterState == [open : BOOLEAN, roster : SUBSET (Nicks \cup {Me})]
MessageType ==
  [kind : {"JOIN", "PART", "QUIT", "KICK", "NICK", "353", "366"}, who : SUBSET People,
   nick : Nicks \cup {Me}, nicks : SUBSET (Nicks \cup {Me})]

(* What the handler of a message makes of the conversation.                *)
Without(s, n) ==
  IF n = Me THEN [open |-> FALSE, roster |-> {}] ELSE [s EXCEPT !.roster = @ \ {n}]

Handled(s, m) ==
  LET skipped == m.who \cap ignored # {} IN
  CASE m.kind = "JOIN" /\ ~skipped -> [open |-> TRUE, roster |-> s.roster \cup {m.nick}]
    [] m.kind = "353"              -> [open |-> TRUE, roster |-> s.roster \cup m.nicks]
    [] m.kind = "KICK" \/ (m.kind = "PART" /\ ~skipped) -> Without(s, m.nick)
    [] m.kind = "QUIT"             -> [s EXCEPT !.roster = @ \ {m.nick}]
    [] m.kind = "NICK" /\ ~skipped /\ m.nick \in s.roster ->
         [s EXCEPT !.roster = (@ \cup m.nicks) \ {m.nick}]
    [] OTHER                       -> s

Now == [open |-> open, roster |-> roster]

Path(T, w) ==
  /\ T \in [0..Len(w) -> RosterState] /\ T[0] = Now
  /\ \A i \in 1..Len(w) : T[i] = Handled(T[i - 1], w[i])

JoinAsked == \E i \in 1..Len(outbox) : outbox[i] = "JOIN"

(* Who is in the channel is in the roster to be; and in a channel that does*)
(* not answer NAMES to outsiders, nobody else without a reason.             *)
Ends(s) ==
  /\ joined => NicksOf(members \ ignored) \cup {Me} \subseteq s.roster
  /\ ~Public => /\ Undisturbed => s.roster = IF joined THEN Present ELSE {}
                /\ up /\ ~joined /\ ~JoinAsked => ~s.open

RosterType ==
  /\ nick \in [People -> Nicks] /\ \A p, q \in People : nick[p] = nick[q] => p = q
  /\ members \subseteq People /\ ignored \subseteq People
  /\ joined \in BOOLEAN /\ up \in BOOLEAN /\ open \in BOOLEAN
  /\ roster \subseteq Nicks \cup {Me} /\ drops \in Nat
  /\ wire \in Seq(MessageType) /\ outbox \in Seq({"JOIN", "NAMES"})
  /\ ~up => wire = <<>> /\ outbox = <<>> /\ ~joined

RosterInv == RosterType /\ \E T : Path(T, wire) /\ Ends(T[Len(wire)])

LEMMA RosterInvInit == Init => RosterInv
<1> SUFFICES ASSUME Init PROVE RosterInv
  OBVIOUS
<1>1. RosterType
  <2>1. nick \in [People -> Nicks] /\ \A p, q \in People : nick[p] = nick[q] => p = q
    BY DEF Init
  <2>2. ignored \subseteq People
    BY PeopleAssumption DEF Init
  <2>3. /\ wire = <<>> /\ outbox = <<>> /\ roster = {} /\ members \subseteq People
        /\ drops = 0 /\ up
    BY DEF Init
  <2>4. joined \in BOOLEAN /\ up \in BOOLEAN /\ open \in BOOLEAN
    BY DEF Init
  <2>5. wire \in Seq(MessageType) /\ outbox \in Seq({"JOIN", "NAMES"})
    BY <2>3
  <2>6. roster \subseteq Nicks \cup {Me} /\ drops \in Nat
    BY <2>3
  <2> QED
    BY <2>1, <2>2, <2>3, <2>4, <2>5, <2>6 DEF RosterType
<1>2. Path([i \in {0} |-> Now], wire)
  <2>1. wire = <<>> /\ Len(wire) = 0 /\ 0..0 = {0} /\ 1..0 = {}
    BY DEF Init
  <2>2. Now \in RosterState
    BY DEF Init, Now, RosterState
  <2> QED
    BY <2>1, <2>2 DEF Path
<1>3. Ends(Now)
  BY DEF Init, Ends, Now
<1> QED
  BY <1>1, <1>2, <1>3 DEF RosterInv, Init

-----------------------------------------------------------------------------
(* Paths. *)

LEMMA HandledType ==
  ASSUME NEW s \in RosterState, NEW m \in MessageType
  PROVE  Handled(s, m) \in RosterState
BY DEF Handled, Without, RosterState, MessageType

(* One more message under way is one more step.                            *)
LEMMA Longer ==
  ASSUME NEW w \in Seq(MessageType), NEW T, Path(T, w), NEW m \in MessageType
  PROVE  /\ Append(w, m) \in Seq(MessageType) /\ Len(Append(w, m)) = Len(w) + 1
         /\ T[Len(w)] \in RosterState
         /\ \E U : Path(U, Append(w, m)) /\ U[Len(w) + 1] = Handled(T[Len(w)], m)
<1> DEFINE n == Len(w)
           v == Append(w, m)
           U == [i \in 0..(n + 1) |-> IF i = n + 1 THEN Handled(T[n], m) ELSE T[i]]
<1>1. /\ n \in Nat /\ v \in Seq(MessageType) /\ Len(v) = n + 1 /\ v[n + 1] = m
      /\ \A i \in 1..n : v[i] = w[i]
  OBVIOUS
<1>2. /\ T \in [0..n -> RosterState] /\ T[0] = Now
      /\ \A i \in 1..n : T[i] = Handled(T[i - 1], w[i])
  BY DEF Path
<1> HIDE DEF n, v
<1>3. T[n] \in RosterState /\ Handled(T[n], m) \in RosterState
  BY <1>1, <1>2, HandledType
<1>4. U \in [0..(n + 1) -> RosterState] /\ U[0] = Now
  BY <1>1, <1>2, <1>3
<1>5. ASSUME NEW i \in 1..(n + 1) PROVE U[i] = Handled(U[i - 1], v[i])
  <2>1. CASE i = n + 1
    BY <1>1, <2>1
  <2>2. CASE i # n + 1
    <3>1. i \in 1..n /\ i - 1 \in 0..(n + 1) /\ i - 1 # n + 1 /\ i \in 0..(n + 1)
      BY <1>1, <2>2
    <3> QED
      BY <1>1, <1>2, <2>2, <3>1
  <2> QED
    BY <2>1, <2>2
<1>6. U[n + 1] = Handled(T[n], m)
  BY <1>1
<1>7. Path(U, v)
  BY <1>1, <1>4, <1>5 DEF Path
<1> QED
  BY <1>1, <1>3, <1>6, <1>7 DEF n, v

(* A path stays one if nothing it starts from has changed.                 *)
LEMMA SamePath ==
  ASSUME UNCHANGED <<open, roster, ignored>>, NEW T, NEW w, Path(T, w)
  PROVE  Path(T, w)'
BY DEF Path, Now, Handled, Without

(* The handler of the first message takes the first step.                  *)
LEMMA Shorter ==
  ASSUME RosterType, NEW T, Path(T, wire), wire # <<>>, wire' = Tail(wire),
         Now' = Handled(Now, Head(wire)), UNCHANGED ignored
  PROVE  \E U : Path(U, wire)' /\ U[Len(wire')] = T[Len(wire)]
<1>1. PICK n : n = Len(wire)
  OBVIOUS
<1>2. PICK U : U = [i \in 0..(n - 1) |-> T[i + 1]]
  OBVIOUS
<1>3. /\ n \in Nat /\ n >= 1 /\ Len(wire') = n - 1 /\ Head(wire) = wire[1]
      /\ \A i \in 1..(n - 1) : wire'[i] = wire[i + 1]
  BY <1>1 DEF RosterType
<1>4. /\ T \in [0..n -> RosterState] /\ T[0] = Now
      /\ \A i \in 1..n : T[i] = Handled(T[i - 1], wire[i])
  BY <1>1 DEF Path
<1>5. T[1] = Now'
  BY <1>3, <1>4
<1>6. U \in [0..(n - 1) -> RosterState] /\ U[0] = Now' /\ U[n - 1] = T[n]
  BY <1>2, <1>3, <1>4, <1>5
<1>7. ASSUME NEW i \in 1..(n - 1) PROVE U[i] = Handled(U[i - 1], wire'[i])
  <2>1. /\ i + 1 \in 1..n /\ i \in 0..(n - 1) /\ i - 1 \in 0..(n - 1)
        /\ (i + 1) - 1 = i /\ (i - 1) + 1 = i
    BY <1>3
  <2> QED
    BY <1>2, <1>3, <1>4, <2>1
<1>8. Path(U, wire)'
  <2>1. \A i \in 1..(n - 1) : U[i] = Handled(U[i - 1], wire[i])'
    BY <1>7 DEF Handled, Without
  <2> QED
    BY <1>3, <1>6, <2>1 DEF Path, RosterState, Now
<1> QED
  BY <1>1, <1>3, <1>6, <1>8

LEMMA Told ==
  ASSUME RosterType, NEW T, Path(T, wire), NEW m \in MessageType, wire' = Append(wire, m),
         UNCHANGED <<open, roster, ignored>>
  PROVE  /\ wire' \in Seq(MessageType) /\ T[Len(wire)] \in RosterState
         /\ \E U : Path(U, wire)' /\ U[Len(wire')] = Handled(T[Len(wire)], m)
<1>1. wire \in Seq(MessageType)
  BY DEF RosterType
<1>2. PICK U : Path(U, Append(wire, m)) /\ U[Len(wire) + 1] = Handled(T[Len(wire)], m)
  BY <1>1, Longer
<1>3. wire' \in Seq(MessageType) /\ T[Len(wire)] \in RosterState /\ Len(wire') = Len(wire) + 1
  BY <1>1, Longer
<1>4. Path(U, wire)'
  <2>1. PICK w : w = Append(wire, m)
    OBVIOUS
  <2>2. Path(U, w)
    BY <1>2, <2>1
  <2>3. Path(U, w)' /\ wire' = w
    BY <2>1, <2>2, SamePath
  <2> QED
    BY <2>3 DEF Path
<1> QED
  BY <1>2, <1>3, <1>4

(* The answer to a NAMES adds those who are there, if it comes from inside.*)
LEMMA NamesTold ==
  ASSUME RosterType, NEW w \in Seq(MessageType), NEW T, Path(T, w), NEW inside \in BOOLEAN
  PROVE  /\ w \o NamesReply(inside) \in Seq(MessageType)
         /\ \E U : /\ Path(U, w \o NamesReply(inside))
                  /\ LET s == T[Len(w)]
                         e == U[Len(w \o NamesReply(inside))]
                     IN /\ inside => e.roster = s.roster \cup Present
                        /\ s.roster \subseteq e.roster
                        /\ ~inside /\ ~Public => e = s
<1> DEFINE here == NicksOf(members) \cup (IF inside THEN {Me} ELSE {})
           a == Line("353", here)
           b == Line("366", {})
<1>1. here \subseteq Nicks \cup {Me}
  BY DEF RosterType, NicksOf
<1>2. a \in MessageType /\ b \in MessageType
  BY <1>1 DEF Line, MessageType
<1>3. \A s \in RosterState : Handled(s, b) = s
  BY DEF Handled, Line
<1>4. \A s \in RosterState : Handled(s, a).roster = s.roster \cup here
  BY DEF Handled, Line
<1>5. inside => here = Present /\ here # {}
  BY DEF Present
<1>6. NamesReply(inside) = IF here # {} /\ (inside \/ Public) THEN <<a, b>> ELSE <<b>>
  BY DEF NamesReply
<1> HIDE DEF here, a, b
<1>7. CASE NamesReply(inside) = <<a, b>>
  <2> DEFINE v == Append(w, a)
             x == Append(v, b)
             n == Len(w)
  <2>1. v \in Seq(MessageType) /\ Len(v) = n + 1 /\ T[n] \in RosterState
    BY <1>2, Longer
  <2>2. PICK U : Path(U, v) /\ U[n + 1] = Handled(T[n], a)
    BY <1>2, Longer
  <2>3. w \o NamesReply(inside) = x
    BY <1>7, <1>2
  <2> HIDE DEF v, n
  <2>4. x \in Seq(MessageType) /\ Len(x) = Len(v) + 1 /\ U[Len(v)] \in RosterState
    BY <1>2, <2>1, <2>2, Longer
  <2>5. PICK V : Path(V, x) /\ V[Len(v) + 1] = Handled(U[Len(v)], b)
    BY <1>2, <2>1, <2>2, Longer
  <2>6. V[Len(x)].roster = T[n].roster \cup here
    BY <1>3, <1>4, <2>1, <2>2, <2>4, <2>5
  <2>7. inside \/ Public
    BY <1>6, <1>7
  <2> HIDE DEF x
  <2> QED
    BY <1>5, <2>3, <2>4, <2>5, <2>6, <2>7 DEF n
<1>8. CASE NamesReply(inside) = <<b>> /\ ~inside
  <2>1. PICK U : Path(U, Append(w, b)) /\ U[Len(w) + 1] = Handled(T[Len(w)], b)
    BY <1>2, Longer
  <2>2. Append(w, b) \in Seq(MessageType) /\ Len(Append(w, b)) = Len(w) + 1
        /\ T[Len(w)] \in RosterState
    BY <1>2, Longer
  <2>3. w \o NamesReply(inside) = Append(w, b)
    BY <1>8, <1>2
  <2> QED
    BY <1>3, <1>8, <2>1, <2>2, <2>3
<1> QED
  BY <1>5, <1>6, <1>7, <1>8

-----------------------------------------------------------------------------
(* The steps. *)

\* What the network does to the channel, told if the user is there.
LEMMA Somebody ==
  ASSUME RosterInv, NEW m \in MessageType, Tell(m),
         UNCHANGED <<joined, ignored, outbox, up, open, roster, drops>>,
         nick' \in [People -> Nicks], members' \subseteq People,
         \A p, q \in People : nick'[p] = nick'[q] => p = q,
         \A s \in RosterState : joined /\ Ends(s) => Ends(Handled(s, m))'
  PROVE  RosterInv'
<1>1. PICK T : Path(T, wire) /\ Ends(T[Len(wire)])
  BY DEF RosterInv
<1>2. RosterType
  BY DEF RosterInv
<1>3. CASE joined
  <2>1. wire' = Append(wire, m)
    BY <1>3 DEF Tell
  <2>2. /\ wire' \in Seq(MessageType) /\ T[Len(wire)] \in RosterState
        /\ \E U : Path(U, wire)' /\ U[Len(wire')] = Handled(T[Len(wire)], m)
    BY <1>1, <1>2, <2>1, Told
  <2>3. RosterType'
    BY <1>2, <1>3, <2>2 DEF RosterType
  <2>4. PICK U : Path(U, wire)' /\ U[Len(wire')] = Handled(T[Len(wire)], m)
    BY <2>2
  <2>5. Ends(U[Len(wire)])'
    BY <1>1, <1>3, <2>2, <2>4 DEF Handled, Without
  <2> QED
    BY <2>3, <2>4, <2>5 DEF RosterInv
<1>4. CASE ~joined
  <2>1. wire' = wire
    BY <1>4 DEF Tell
  <2>2. RosterType'
    BY <1>2, <2>1 DEF RosterType
  <2>3. PICK w : w = wire
    OBVIOUS
  <2>4. Path(T, w)'
    BY <1>1, <2>3, SamePath
  <2>5. Path(T, wire)'
    BY <2>1, <2>3, <2>4 DEF Path
  <2>6. Ends(T[Len(wire)])'
    BY <1>1, <1>4, <2>1 DEF Ends, Undisturbed, JoinAsked
  <2> QED
    BY <2>2, <2>5, <2>6 DEF RosterInv
<1> QED
  BY <1>2, <1>3, <1>4 DEF RosterType

LEMMA EnterStep ==
  ASSUME RosterInv, NEW p \in People, Enter(p)
  PROVE  RosterInv'
<1>1. PICK m \in MessageType : /\ m.kind = "JOIN" /\ m.who = {p} /\ m.nick = nick[p]
                              /\ m = Message("JOIN", {p}, nick[p])
  BY DEF Message, MessageType, RosterInv, RosterType
<1>2. /\ Tell(m) /\ members' = members \cup {p}
         /\ UNCHANGED <<nick, joined, ignored, outbox, up, drops>>
      /\ UNCHANGED <<open, roster>>
  BY <1>1 DEF Enter, Change, conv
<1>3. ASSUME NEW s \in RosterState, joined, Ends(s) PROVE Ends(Handled(s, m))'
  <2>1. Handled(s, m)'.roster = IF p \in ignored THEN s.roster ELSE s.roster \cup {nick[p]}
    BY <1>1, <1>2 DEF Handled, Without
  <2>2. NicksOf(members \ ignored) \cup {Me} \subseteq s.roster
    BY <1>3 DEF Ends
  <2>3. ~Public /\ Undisturbed => ignored = {} /\ s.roster = Present
    BY <1>3 DEF Ends, Undisturbed
  <2>4. (NicksOf(members \ ignored))' \subseteq NicksOf(members \ ignored) \cup (IF p \in ignored THEN {} ELSE {nick[p]})
    BY <1>2 DEF NicksOf
  <2>5. Present' = Present \cup {nick[p]}
    BY <1>2 DEF NicksOf, Present
  <2> QED
    BY <1>2, <1>3, <2>1, <2>2, <2>3, <2>4, <2>5 DEF Ends, Undisturbed
<1> QED
  BY <1>1, <1>2, <1>3, Somebody DEF RosterInv, RosterType

LEMMA LeaveStep ==
  ASSUME RosterInv, NEW p \in People, NEW how \in {"PART", "QUIT", "KICK"}, Leave(p, how)
  PROVE  RosterInv'
<1>1. PICK m \in MessageType : /\ m.kind = how /\ m.who = {p} /\ m.nick = nick[p]
                              /\ m = Message(how, {p}, nick[p])
  BY DEF Message, MessageType, RosterInv, RosterType
<1>2. /\ Tell(m) /\ members' = members \ {p}
         /\ UNCHANGED <<nick, joined, ignored, outbox, up, drops>>
      /\ UNCHANGED <<open, roster>> /\ p \in members
  BY <1>1 DEF Leave, Change, conv
<1>3. /\ nick \in [People -> Nicks] /\ nick[p] # Me /\ members \subseteq People
      /\ \A q \in People : nick[q] = nick[p] => q = p
  BY PeopleAssumption DEF RosterInv, RosterType
<1>4. ASSUME NEW s \in RosterState, joined, Ends(s) PROVE Ends(Handled(s, m))'
  <2>1. \/ Handled(s, m)'.roster = s.roster \ {nick[p]}
        \/ Handled(s, m)'.roster = s.roster /\ p \in ignored
    BY <1>1, <1>2, <1>3 DEF Handled, Without, RosterState
  <2>2. NicksOf(members \ ignored) \cup {Me} \subseteq s.roster
    BY <1>4 DEF Ends
  <2>3. ~Public /\ Undisturbed => ignored = {} /\ s.roster = Present
    BY <1>4 DEF Ends, Undisturbed
  <2>4. /\ nick[p] \notin (NicksOf(members \ ignored))'
        /\ (NicksOf(members \ ignored))' \subseteq NicksOf(members \ ignored)
    BY <1>2, <1>3 DEF NicksOf
  <2>5. Present' = Present \ {nick[p]}
    BY <1>2, <1>3 DEF NicksOf, Present
  <2> QED
    BY <1>2, <1>3, <1>4, <2>1, <2>2, <2>3, <2>4, <2>5 DEF Ends, Undisturbed
<1> QED
  BY <1>1, <1>2, <1>3, <1>4, Somebody DEF RosterInv, RosterType

LEMMA RenameStep ==
  ASSUME RosterInv, NEW p \in People, NEW n \in Nicks, Rename(p, n)
  PROVE  RosterInv'
<1>1. PICK m \in MessageType : /\ m.kind = "NICK" /\ m.who = {p} /\ m.nick = nick[p] /\ m.nicks = {n}
                              /\ m = [Message("NICK", {p}, nick[p]) EXCEPT !.nicks = {n}]
  BY DEF Message, MessageType, RosterInv, RosterType
<1>2. /\ UNCHANGED <<members, joined, ignored, outbox, up, drops, open, roster>>
      /\ nick' = [nick EXCEPT ![p] = n] /\ n \notin NicksOf(People)
      /\ IF p \in members THEN Tell(m) ELSE UNCHANGED wire
  BY <1>1 DEF Rename, Change, conv
<1>3. /\ nick \in [People -> Nicks] /\ nick[p] # Me /\ n # Me /\ members \subseteq People
      /\ \A q \in People : nick[q] = nick[p] => q = p
      /\ \A q \in People : nick[q] # n
  BY <1>2, PeopleAssumption DEF RosterInv, RosterType, NicksOf
<1>4. nick' \in [People -> Nicks] /\ \A q, r \in People : nick'[q] = nick'[r] => q = r
  BY <1>2, <1>3 DEF RosterInv, RosterType
<1>5. CASE p \in members
  <2>1. ASSUME NEW s \in RosterState, joined, Ends(s) PROVE Ends(Handled(s, m))'
    <3>1. NicksOf(members \ ignored) \cup {Me} \subseteq s.roster
      BY <2>1 DEF Ends
    <3>2. ~Public /\ Undisturbed => ignored = {} /\ s.roster = Present
      BY <2>1 DEF Ends, Undisturbed
    <3>3. p \notin ignored => nick[p] \in s.roster
      BY <1>3, <1>5, <3>1 DEF NicksOf
    <3>4. Handled(s, m)'.roster = IF p \in ignored THEN s.roster ELSE (s.roster \cup {n}) \ {nick[p]}
      BY <1>1, <1>2, <3>3 DEF Handled, RosterState
    <3>5. (NicksOf(members \ ignored))' =
            IF p \in ignored THEN NicksOf(members \ ignored)
                             ELSE (NicksOf(members \ ignored) \cup {n}) \ {nick[p]}
      BY <1>2, <1>3, <1>5 DEF NicksOf
    <3>6. Present' = (Present \cup {n}) \ {nick[p]}
      BY <1>2, <1>3, <1>5 DEF NicksOf, Present
    <3> QED
      BY <1>2, <1>3, <2>1, <3>1, <3>2, <3>4, <3>5, <3>6 DEF Ends, Undisturbed
  <2> QED
    BY <1>1, <1>2, <1>3, <1>4, <1>5, <2>1, Somebody
<1>6. CASE p \notin members
  <2>1. NicksOf(members)' = NicksOf(members)
        /\ (NicksOf(members \ ignored))' = NicksOf(members \ ignored)
    BY <1>2, <1>3, <1>6 DEF NicksOf
  <2>2. PICK T : Path(T, wire) /\ Ends(T[Len(wire)])
    BY DEF RosterInv
  <2>3. RosterType'
    BY <1>2, <1>4, <1>6 DEF RosterInv, RosterType
  <2>4. Path(T, wire)'
    BY ZenonT(60), <1>2, <1>6, <2>2 DEF Path, Now, Handled, Without
  <2>5. Ends(T[Len(wire)])'
    BY <1>2, <1>6, <2>1, <2>2 DEF Ends, Undisturbed, Present, JoinAsked
  <2> QED
    BY <2>3, <2>4, <2>5 DEF RosterInv
<1> QED
  BY <1>5, <1>6

LEMMA KickMeStep ==
  ASSUME RosterInv, KickMe
  PROVE  RosterInv'
<1>1. PICK m \in MessageType : m.kind = "KICK" /\ m.who = {} /\ m.nick = Me /\ m = Message("KICK", {}, Me)
  BY DEF Message, MessageType
<1>2. /\ UNCHANGED <<nick, members, ignored, outbox, up, drops, open, roster>>
      /\ joined /\ joined' = FALSE /\ wire' = Append(wire, m)
  BY <1>1 DEF KickMe, Change, conv
<1>3. PICK T : Path(T, wire) /\ Ends(T[Len(wire)])
  BY DEF RosterInv
<1>4. RosterType
  BY DEF RosterInv
<1>5. wire' \in Seq(MessageType) /\ T[Len(wire)] \in RosterState
  BY <1>2, <1>3, <1>4, Told
<1>6. PICK U : Path(U, wire)' /\ U[Len(wire')] = Handled(T[Len(wire)], m)
  BY <1>2, <1>3, <1>4, Told
<1>7. U[Len(wire')] = [open |-> FALSE, roster |-> {}]
  BY <1>1, <1>6 DEF Handled, Without
<1>8. RosterType'
  BY <1>2, <1>4, <1>5 DEF RosterType
<1>9. Ends(U[Len(wire)])'
  BY <1>2, <1>7 DEF Ends
<1> QED
  BY <1>6, <1>8, <1>9 DEF RosterInv

\* A path to the same end, when only commands or the session have changed.
LEMMA Elsewhere ==
  ASSUME RosterInv, UNCHANGED <<nick, members, joined, ignored, wire, open, roster>>,
         RosterType', Undisturbed' => Undisturbed,
         up' /\ ~joined /\ ~JoinAsked' => (up /\ ~JoinAsked) \/ (wire = <<>> /\ ~open)
  PROVE  RosterInv'
<1>1. PICK T : Path(T, wire) /\ Ends(T[Len(wire)])
  BY DEF RosterInv
<1>2. Path(T, wire)'
  BY <1>1 DEF Path, Now, Handled, Without
<1>3. wire = <<>> => T[Len(wire)] = Now
  BY <1>1 DEF Path
<1>4. Ends(T[Len(wire)])'
  BY <1>1, <1>3 DEF Ends, NicksOf, Present, Now
<1> QED
  BY <1>2, <1>4 DEF RosterInv

LEMMA ServeStep ==
  ASSUME RosterInv, Serve
  PROVE  RosterInv'
<1>1. /\ RosterType /\ outbox # <<>> /\ outbox' = Tail(outbox) /\ up
      /\ UNCHANGED <<nick, members, ignored, up, open, roster, drops>>
  BY DEF RosterInv, RosterType, Serve, conv, counts
<1>2. /\ outbox' \in Seq({"JOIN", "NAMES"}) /\ Len(outbox') = Len(outbox) - 1
         /\ Len(outbox) \in Nat \ {0}
      /\ Head(outbox) = outbox[1] /\ \A i \in 1..Len(outbox') : outbox'[i] = outbox[i + 1]
  BY <1>1 DEF RosterType
<1>3. Head(outbox) # "JOIN" /\ ~JoinAsked' => ~JoinAsked
  <2>1. \A i \in 1..Len(outbox) : i = 1 \/ i - 1 \in 1..Len(outbox')
    BY <1>2
  <2>2. \A i \in 1..Len(outbox) : i # 1 => outbox[i] = outbox'[i - 1]
    BY <1>2, <2>1
  <2> QED
    BY <1>2, <2>1, <2>2 DEF JoinAsked
<1>4. PICK T : Path(T, wire) /\ Ends(T[Len(wire)])
  BY DEF RosterInv
<1>5. CASE Head(outbox) = "JOIN" /\ joined
  <2>1. UNCHANGED <<wire, joined>>
    BY <1>5 DEF Serve
  <2> QED
    BY <1>1, <1>2, <1>5, <2>1, Elsewhere DEF RosterType, Undisturbed
<1>6. CASE Head(outbox) = "JOIN" /\ ~joined
  <2>1. PICK m : m = Message("JOIN", {}, Me)
    OBVIOUS
  <2>2. m \in MessageType
    BY <2>1 DEF Message, MessageType
  <2>3. PICK w : w = Append(wire, m)
    OBVIOUS
  <2>4. w \in Seq(MessageType) /\ Len(w) = Len(wire) + 1 /\ T[Len(wire)] \in RosterState
    BY <1>1, <1>4, <2>2, <2>3, Longer DEF RosterType
  <2>5. PICK U : Path(U, w) /\ U[Len(wire) + 1] = Handled(T[Len(wire)], m)
    BY <1>1, <1>4, <2>2, <2>3, Longer DEF RosterType
  <2>6. PICK x : x = w \o NamesReply(TRUE)
    OBVIOUS
  <2>7. joined' = TRUE /\ wire' = x
    <3>1. wire \o <<m>> = w
      BY <1>1, <2>2, <2>3 DEF RosterType
    <3> QED
      BY <1>6, <2>1, <2>6, <3>1 DEF Serve
  <2>8. x \in Seq(MessageType)
    BY <1>1, <2>4, <2>5, <2>6, NamesTold
  <2>9. PICK V : Path(V, x) /\ V[Len(x)].roster = U[Len(w)].roster \cup Present
    BY <1>1, <2>4, <2>5, <2>6, NamesTold
  <2>10. U[Len(w)].roster = T[Len(wire)].roster \cup {Me}
    BY <2>1, <2>4, <2>5 DEF Handled, Message
  <2>11. RosterType'
    BY <1>1, <1>2, <2>7, <2>8 DEF RosterType
  <2>12. Path(V, wire)'
    BY <1>1, <2>7, <2>9 DEF Path, Now, Handled, Without
  <2>13. Ends(V[Len(x)])'
    <3>1. V[Len(x)].roster = T[Len(wire)].roster \cup {Me} \cup Present
      BY <2>9, <2>10
    <3>2. Present' = Present /\ (NicksOf(members \ ignored) \cup {Me} \subseteq Present)'
      BY <1>1 DEF Present, NicksOf
    <3>3. Me \in Present /\ (~Public /\ Undisturbed => T[Len(wire)].roster = {})
      BY <1>4, <1>6 DEF Present, Ends
    <3> QED
      BY <1>1, <2>7, <3>1, <3>2, <3>3 DEF Ends, Undisturbed
  <2> QED
    BY <2>7, <2>11, <2>12, <2>13 DEF RosterInv
<1>7. CASE Head(outbox) = "NAMES"
  <2>1. PICK x : x = wire \o NamesReply(joined)
    OBVIOUS
  <2>2. joined' = joined /\ wire' = x
    BY <1>7, <2>1 DEF Serve
  <2>3. x \in Seq(MessageType)
    BY <1>1, <1>4, <2>1, NamesTold DEF RosterType
  <2>4. PICK V : /\ Path(V, x)
                 /\ joined => V[Len(x)].roster = T[Len(wire)].roster \cup Present
                 /\ T[Len(wire)].roster \subseteq V[Len(x)].roster
                 /\ ~joined /\ ~Public => V[Len(x)] = T[Len(wire)]
    BY <1>1, <1>4, <2>1, NamesTold DEF RosterType
  <2>5. RosterType'
    BY <1>1, <1>2, <2>2, <2>3 DEF RosterType
  <2>6. Path(V, wire)'
    BY <1>1, <2>2, <2>4 DEF Path, Now, Handled, Without
  <2>7. Ends(V[Len(x)])'
    <3>1. Present' = Present /\ (NicksOf(members \ ignored))' = NicksOf(members \ ignored)
      BY <1>1 DEF Present, NicksOf
    <3> QED
      BY <1>1, <1>3, <1>4, <1>7, <2>2, <2>4, <3>1 DEF Ends, Undisturbed
  <2> QED
    BY <2>2, <2>5, <2>6, <2>7 DEF RosterInv
<1> QED
  BY <1>5, <1>6, <1>7 DEF Serve

LEMMA HandleStep ==
  ASSUME RosterInv, Handle
  PROVE  RosterInv'
<1>1. PICK T : Path(T, wire) /\ Ends(T[Len(wire)])
  BY DEF RosterInv
<1>2. /\ wire # <<>> /\ wire' = Tail(wire)
      /\ UNCHANGED <<nick, members, joined, ignored, outbox, up, drops>>
  BY DEF Handle, HandleJoin, HandlePart, HandleKick, HandleQuit, HandleNick, HandleNamesReply,
         HandleEndOfNames, Receive, network, counts
<1>3. RosterType /\ Head(wire) \in MessageType /\ Tail(wire) \in Seq(MessageType)
  BY <1>2 DEF RosterInv, RosterType
<1>4. Now' = Handled(Now, Head(wire))
  <2>1. CASE HandleJoin
    BY <2>1 DEF HandleJoin, Receive, FromIgnored, msg, Handled, Now
  <2>2. CASE HandlePart
    BY <2>2 DEF HandlePart, Receive, FromIgnored, msg, Handled, Now, DropMember, Without
  <2>3. CASE HandleKick
    BY <2>3 DEF HandleKick, Receive, msg, Handled, Now, DropMember, Without
  <2>4. CASE HandleQuit
    BY <2>4 DEF HandleQuit, Receive, msg, Handled, Now
  <2>5. CASE HandleNick
    BY <2>5 DEF HandleNick, Receive, FromIgnored, msg, Handled, Now
  <2>6. CASE HandleNamesReply
    BY <2>6 DEF HandleNamesReply, Receive, msg, Handled, Now
  <2>7. CASE HandleEndOfNames
    BY <2>7 DEF HandleEndOfNames, Receive, msg, Handled, Now
  <2> QED
    BY <2>1, <2>2, <2>3, <2>4, <2>5, <2>6, <2>7 DEF Handle
<1>5. PICK U : Path(U, wire)' /\ U[Len(wire')] = T[Len(wire)]
  BY <1>1, <1>2, <1>3, <1>4, Shorter
<1>6. RosterType'
  <2>1. Now' \in RosterState
    BY <1>3, <1>4, HandledType DEF RosterType, Now, RosterState
  <2> QED
    BY <1>2, <1>3, <2>1 DEF RosterType, Now, RosterState
<1>7. Ends(U[Len(wire)])'
  BY <1>1, <1>2, <1>5 DEF Ends, NicksOf, Present, Undisturbed, JoinAsked
<1> QED
  BY <1>5, <1>6, <1>7 DEF RosterInv

LEMMA RosterInvStep == RosterInv /\ [Next]_vars => RosterInv'
<1> SUFFICES ASSUME RosterInv, [Next]_vars PROVE RosterInv'
  OBVIOUS
<1>0. RosterType
  BY DEF RosterInv
<1>1. CASE Server
  BY <1>1, EnterStep, LeaveStep, RenameStep, KickMeStep, ServeStep DEF Server
<1>2. CASE Handle
  BY <1>2, HandleStep
<1>3. CASE Drop
  <2>1. /\ joined' = FALSE /\ wire' = <<>> /\ outbox' = <<>> /\ drops' = drops + 1 /\ up' = FALSE
        /\ UNCHANGED <<nick, members, ignored, open, roster>>
    BY <1>3 DEF Drop, conv
  <2>2. RosterType'
    <3>1. joined' \in BOOLEAN /\ up' \in BOOLEAN /\ ~joined' /\ ~up'
      BY <2>1
    <3>2. wire' \in Seq(MessageType) /\ outbox' \in Seq({"JOIN", "NAMES"})
      BY <2>1
    <3> QED
      BY <1>0, <2>1, <3>1, <3>2 DEF RosterType
  <2>3. PICK U : U = [i \in {0} |-> Now']
    OBVIOUS
  <2>4. Path(U, wire)'
    <3>1. Len(wire') = 0 /\ 0..0 = {0} /\ 1..0 = {}
      BY <2>1
    <3>2. Now' \in RosterState
      BY <1>0, <2>1 DEF RosterType, Now, RosterState
    <3> QED
      BY <2>3, <3>1, <3>2 DEF Path, RosterState
  <2>5. Ends(Now)'
    BY <1>0, <2>1 DEF Ends, Undisturbed, RosterType
  <2> QED
    BY <2>1, <2>2, <2>3, <2>4, <2>5 DEF RosterInv
<1>4. CASE Reconnect
  <2>1. /\ ~up /\ up' = TRUE /\ outbox' = IF open THEN <<"JOIN">> ELSE <<>>
        /\ UNCHANGED <<nick, members, joined, ignored, wire, open, roster, drops>> /\ wire = <<>>
    BY <1>0, <1>4 DEF Reconnect, conv, network, counts, RosterType
  <2>2. RosterType'
    <3>1. up' \in BOOLEAN /\ up'
      BY <2>1
    <3>2. <<"JOIN">> \in Seq({"JOIN", "NAMES"}) /\ <<>> \in Seq({"JOIN", "NAMES"})
      OBVIOUS
    <3>3. outbox' \in Seq({"JOIN", "NAMES"})
      BY <2>1, <3>2
    <3> QED
      BY <1>0, <2>1, <3>1, <3>3 DEF RosterType
  <2>3. open => JoinAsked'
    BY <2>1 DEF JoinAsked
  <2> QED
    BY <2>1, <2>2, <2>3, Elsewhere DEF Undisturbed
<1>5. ASSUME NEW c \in {"JOIN", "NAMES"}, up, outbox' = Append(outbox, c),
             UNCHANGED <<nick, members, joined, ignored, wire, up, open, roster, drops>>
      PROVE  RosterInv'
  <2>1. RosterType'
    BY <1>0, <1>5 DEF RosterType
  <2>2. JoinAsked => JoinAsked'
    BY <1>0, <1>5 DEF RosterType, JoinAsked
  <2> QED
    BY <1>5, <2>1, <2>2, Elsewhere DEF Undisturbed
<1>6. CASE Join
  BY <1>5, <1>6 DEF Join, network, conv
<1>7. CASE BrowserAsk /\ up
  BY <1>5, <1>7 DEF BrowserAsk, network, counts
<1>8. ASSUME UNCHANGED <<nick, members, joined, ignored, wire, outbox, up, open, roster, drops>>
      PROVE  RosterInv'
  BY <1>0, <1>8, Elsewhere DEF RosterType, Undisturbed, JoinAsked
<1>9. CASE (BrowserAsk /\ ~up) \/ BrowserEvent \/ UNCHANGED vars
  BY <1>8, <1>9 DEF BrowserAsk, BrowserEvent, vars, network, conv, counts
<1> QED
  BY <1>1, <1>2, <1>3, <1>4, <1>6, <1>7, <1>9 DEF Next

(* Everybody in the channel is in the roster when nothing is under way, for*)
(* any number of people, messages and lost sessions.                        *)
THEOREM MembersListed == Spec => [](Quiet /\ joined => NicksOf(members \ ignored) \cup {Me} \subseteq roster)
<1>1. RosterInv => (Quiet /\ joined => NicksOf(members \ ignored) \cup {Me} \subseteq roster)
  BY DEF RosterInv, Quiet, Path, Ends, Now
<1> QED
  BY RosterInvInit, RosterInvStep, <1>1, PTL DEF Spec

(* And where NAMES tells outsiders nothing, nobody else is, and no         *)
(* conversation is left of a channel the user is not in.                    *)
THEOREM RosterIsExact == Spec => [](~Public => RosterExact)
<1>1. RosterInv => (~Public => RosterExact)
  <2> SUFFICES ASSUME RosterInv, ~Public, Quiet
               PROVE  IF joined
                        THEN /\ NicksOf(members \ ignored) \cup {Me} \subseteq roster
                             /\ Undisturbed => roster = Present
                        ELSE ~open
    BY DEF RosterExact
  <2>1. Ends(Now)
    BY DEF RosterInv, Quiet, Path
  <2>2. ~JoinAsked /\ up
    BY DEF Quiet, JoinAsked
  <2> QED
    BY <2>1, <2>2 DEF Ends, Now
<1> QED
  BY RosterInvInit, RosterInvStep, <1>1, PTL DEF Spec

-----------------------------------------------------------------------------
(* What the browser shows.  Between the browser and the IRC server there   *)
(* is a course of the truth: who was in the channel before and after each  *)
(* event that the browser has not seen and each message that is not        *)
(* handled; nobody, while the user was not there himself.                   *)
Truth == IF joined THEN Present ELSE {}

\* From t to u, as a message tells it.
Tells(t, m, u) ==
  \/ m.kind = "JOIN" /\ m.nick = Me /\ Me \notin t /\ Me \in u
  \/ m.kind = "JOIN" /\ m.nick # Me /\ Me \in t /\ u = t \cup {m.nick}
  \/ m.kind = "KICK" /\ m.nick = Me /\ u = {}
  \/ m.kind \in {"PART", "QUIT", "KICK"} /\ m.nick # Me /\ Me \in t /\ u = t \ {m.nick}
  \/ m.kind = "NICK" /\ m.nick # Me /\ Me \in t /\ m.nick \in t /\ u = (t \ {m.nick}) \cup m.nicks
  \/ m.kind = "353" /\ u = t /\ (Me \in t => m.nicks = t)
  \/ m.kind = "366" /\ u = t

\* As an event tells it.
Lists(t, e) == e.kind \in {"list", "names"} /\ (Me \in t => e.nicks = t)
Shows(t, e, u) ==
  \/ e.kind = "open" /\ Me \notin t /\ Me \in u
  \/ e.kind = "join" /\ e.nick # Me /\ Me \in t /\ u = t \cup {e.nick}
  \/ e.kind = "part" /\ e.nick = Me /\ u = {}
  \/ e.kind \in {"part", "quit"} /\ e.nick # Me /\ Me \in t /\ u = t \ {e.nick}
  \/ e.kind = "nick" /\ e.nick # Me /\ Me \in t /\ e.nick \in t /\ u = (t \ {e.nick}) \cup e.nicks
  \/ Lists(t, e) /\ u = t

GoesOn(V, W, n) == \A i \in 0..n : V[i] = W[i]
WireCourse(W, w) == \A i \in 1..Len(w) : Tells(W[i - 1], w[i], W[i])
FeedCourse(F, f) == \A i \in 1..Len(f) : Shows(F[i - 1], f[i], F[i])

\* The end of a NAMES list follows the list, which is in the buffer then.
Replies(W, w, b) ==
  /\ b # {} => Len(w) # 0 /\ w[1].kind = "366"
  /\ \A i \in 1..Len(w) : w[i].kind = "353" => i + 1 \in 1..Len(w) /\ w[i + 1].kind = "366"
  /\ \A i \in 1..Len(w) : w[i].kind = "366" /\ Me \in W[i] =>
       IF i = 1 THEN b = W[i] ELSE w[i - 1].kind = "353"

\* An answer to the browser's request is under way.
Answer ==
  \/ \E i \in 1..Len(feed) : feed[i].kind = "names" /\ feed[i].id = object
  \/ waiter = object /\ \/ \E i \in 1..Len(wire) : wire[i].kind = "366"
                        \/ \E i \in 1..Len(outbox) : outbox[i] = "NAMES"

\* The browser, for which t is the truth.
ThePage(t) ==
  /\ tab = "open" <=> Me \in t
  /\ tab = "open" => Me \in shown /\ shown \subseteq t /\ object # 0
  /\ asked => tab = "open" /\ (shown = t \/ Answer)

EventType ==
  [kind : {"open", "join", "part", "quit", "nick", "list", "names", "frozen"},
   nick : Nicks \cup {Me}, nicks : SUBSET (Nicks \cup {Me}), id : Nat]

PipeType ==
  /\ names \subseteq Nicks \cup {Me} /\ waiter \in Nat /\ object \in Nat /\ up
  /\ feed \in Seq(EventType) /\ tab \in {"none", "open"} /\ asked \in BOOLEAN

Course(F, W) ==
  /\ FeedCourse(F, feed) /\ F[Len(feed)] = W[0]
  /\ WireCourse(W, wire) /\ W[Len(wire)] = Truth
  /\ Replies(W, wire, names) /\ ThePage(F[0])

PageInv == Undisturbed => PipeType /\ \E F, W : Course(F, W)

LEMMA PageInvInit == Init => PageInv
<1> SUFFICES ASSUME Init PROVE PageInv
  OBVIOUS
<1>1. /\ joined = FALSE /\ wire = <<>> /\ outbox = <<>> /\ up = TRUE /\ names = {} /\ waiter = 0
      /\ feed = <<>> /\ tab = "none" /\ shown = {} /\ object = 0 /\ asked = FALSE
  BY DEF Init
<1>2. PipeType
  <2>1. feed \in Seq(EventType)
    BY <1>1
  <2>2. tab \in {"none", "open"} /\ asked \in BOOLEAN /\ up
    BY <1>1
  <2> QED
    BY <1>1, <2>1, <2>2 DEF PipeType
<1>3. PICK F : F = [i \in {0} |-> {}]
  OBVIOUS
<1>4. F[0] = {} /\ Truth = {} /\ Len(wire) = 0 /\ Len(feed) = 0 /\ 1..0 = {}
  BY <1>1, <1>3 DEF Truth
<1>5. Course(F, F)
  BY <1>1, <1>4 DEF Course, FeedCourse, WireCourse, Replies, ThePage
<1> QED
  BY <1>2, <1>5 DEF PageInv

-----------------------------------------------------------------------------
\* One more message, and one more event.
LEMMA WireGrows ==
  ASSUME NEW w \in Seq(MessageType), NEW m \in MessageType, NEW W, WireCourse(W, w),
         NEW u, Tells(W[Len(w)], m, u)
  PROVE  \E V : /\ WireCourse(V, Append(w, m)) /\ V[Len(w) + 1] = u
                /\ GoesOn(V, W, Len(w))
<1> DEFINE n == Len(w)
           v == Append(w, m)
           V == [i \in 0..(n + 1) |-> IF i = n + 1 THEN u ELSE W[i]]
<1>1. /\ n \in Nat /\ Len(v) = n + 1 /\ v[n + 1] = m
      /\ \A i \in 1..n : v[i] = w[i]
  OBVIOUS
<1> HIDE DEF n, v
<1>2. V[n + 1] = u /\ \A i \in 0..n : V[i] = W[i]
  BY <1>1
<1> HIDE DEF V
<1>3. ASSUME NEW i \in 1..(n + 1) PROVE Tells(V[i - 1], v[i], V[i])
  <2>1. CASE i = n + 1
    <3>1. i - 1 = n /\ n \in 0..n
      BY <1>1, <2>1
    <3> QED
      BY <1>1, <1>2, <2>1, <3>1 DEF n
  <2>2. CASE i # n + 1
    <3>1. i \in 1..n /\ i - 1 \in 0..n /\ i \in 0..n
      BY <1>1, <2>2
    <3> QED
      BY <1>1, <1>2, <3>1 DEF WireCourse, n
  <2> QED
    BY <2>1, <2>2
<1>4. WireCourse(V, v)
  BY <1>1, <1>3 DEF WireCourse
<1> QED
  BY <1>2, <1>4 DEF n, v, GoesOn

LEMMA FeedGrows ==
  ASSUME NEW f \in Seq(EventType), NEW e \in EventType, NEW F, FeedCourse(F, f),
         NEW u, Shows(F[Len(f)], e, u)
  PROVE  \E G : /\ FeedCourse(G, Append(f, e)) /\ G[Len(f) + 1] = u
                /\ GoesOn(G, F, Len(f))
<1> DEFINE n == Len(f)
           v == Append(f, e)
           G == [i \in 0..(n + 1) |-> IF i = n + 1 THEN u ELSE F[i]]
<1>1. /\ n \in Nat /\ Len(v) = n + 1 /\ v[n + 1] = e
      /\ \A i \in 1..n : v[i] = f[i]
  OBVIOUS
<1> HIDE DEF n, v
<1>2. G[n + 1] = u /\ \A i \in 0..n : G[i] = F[i]
  BY <1>1
<1> HIDE DEF G
<1>3. ASSUME NEW i \in 1..(n + 1) PROVE Shows(G[i - 1], v[i], G[i])
  <2>1. CASE i = n + 1
    <3>1. i - 1 = n /\ n \in 0..n
      BY <1>1, <2>1
    <3> QED
      BY <1>1, <1>2, <2>1, <3>1 DEF n
  <2>2. CASE i # n + 1
    <3>1. i \in 1..n /\ i - 1 \in 0..n /\ i \in 0..n
      BY <1>1, <2>2
    <3> QED
      BY <1>1, <1>2, <3>1 DEF FeedCourse, n
  <2> QED
    BY <2>1, <2>2
<1>4. FeedCourse(G, v)
  BY <1>1, <1>3 DEF FeedCourse
<1> QED
  BY <1>2, <1>4 DEF n, v, GoesOn

\* The first message is handled, and the first event is seen.
LEMMA WireShrinks ==
  ASSUME NEW w \in Seq(MessageType), w # <<>>, NEW W, WireCourse(W, w)
  PROVE  \E V : /\ WireCourse(V, Tail(w)) /\ \A i \in 0..(Len(w) - 1) : V[i] = W[i + 1]
<1> DEFINE n == Len(w)
           v == Tail(w)
           V == [i \in 0..(n - 1) |-> W[i + 1]]
<1>1. /\ n \in Nat \ {0} /\ Len(v) = n - 1
      /\ \A i \in 1..(n - 1) : v[i] = w[i + 1]
  OBVIOUS
<1> HIDE DEF n, v
<1>2. ASSUME NEW i \in 1..(n - 1) PROVE Tells(V[i - 1], v[i], V[i])
  <2>1. i + 1 \in 1..n /\ i \in 0..(n - 1) /\ i - 1 \in 0..(n - 1) /\ (i - 1) + 1 = i
        /\ (i + 1) - 1 = i
    BY <1>1
  <2>2. V[i - 1] = W[i] /\ V[i] = W[i + 1] /\ v[i] = w[i + 1]
    BY <1>1, <2>1
  <2>3. Tells(W[(i + 1) - 1], w[i + 1], W[i + 1])
    BY <2>1 DEF WireCourse, n
  <2> QED
    BY <2>1, <2>2, <2>3
<1>3. WireCourse(V, v)
  BY <1>1, <1>2 DEF WireCourse
<1>4. \A i \in 0..(n - 1) : V[i] = W[i + 1]
  OBVIOUS
<1> HIDE DEF V
<1> QED
  BY <1>3, <1>4 DEF n, v

LEMMA FeedShrinks ==
  ASSUME NEW f \in Seq(EventType), f # <<>>, NEW F, FeedCourse(F, f)
  PROVE  \E G : /\ FeedCourse(G, Tail(f)) /\ \A i \in 0..(Len(f) - 1) : G[i] = F[i + 1]
<1> DEFINE n == Len(f)
           v == Tail(f)
           G == [i \in 0..(n - 1) |-> F[i + 1]]
<1>1. /\ n \in Nat \ {0} /\ Len(v) = n - 1
      /\ \A i \in 1..(n - 1) : v[i] = f[i + 1]
  OBVIOUS
<1> HIDE DEF n, v
<1>2. ASSUME NEW i \in 1..(n - 1) PROVE Shows(G[i - 1], v[i], G[i])
  <2>1. i + 1 \in 1..n /\ i \in 0..(n - 1) /\ i - 1 \in 0..(n - 1) /\ (i - 1) + 1 = i
        /\ (i + 1) - 1 = i
    BY <1>1
  <2>2. G[i - 1] = F[i] /\ G[i] = F[i + 1] /\ v[i] = f[i + 1]
    BY <1>1, <2>1
  <2>3. Shows(F[(i + 1) - 1], f[i + 1], F[i + 1])
    BY <2>1 DEF FeedCourse, n
  <2> QED
    BY <2>1, <2>2, <2>3
<1>3. FeedCourse(G, v)
  BY <1>1, <1>2 DEF FeedCourse
<1>4. \A i \in 0..(n - 1) : G[i] = F[i + 1]
  OBVIOUS
<1> HIDE DEF G
<1> QED
  BY <1>3, <1>4 DEF n, v

LEMMA RepliesStay ==
  ASSUME NEW w \in Seq(MessageType), NEW m \in MessageType, m.kind \notin {"353", "366"},
         NEW W, NEW V, GoesOn(V, W, Len(w)), NEW b, Replies(W, w, b)
  PROVE  Replies(V, Append(w, m), b)
<1> DEFINE v == Append(w, m)
<1>1. /\ Len(v) = Len(w) + 1 /\ Len(w) \in Nat /\ v[Len(w) + 1] = m
      /\ \A i \in 1..Len(w) : v[i] = w[i]
  OBVIOUS
<1> HIDE DEF v
<1>2. ASSUME NEW i \in 1..Len(v), i # Len(w) + 1
      PROVE  i \in 1..Len(w) /\ v[i] = w[i] /\ V[i] = W[i]
  BY <1>1, <1>2 DEF GoesOn
<1>3. ASSUME NEW i \in 1..Len(v), v[i].kind \in {"353", "366"}
      PROVE  i # Len(w) + 1
  BY <1>1, <1>3
<1>4. \A i \in 1..Len(v) : v[i].kind = "353" => i + 1 \in 1..Len(v) /\ v[i + 1].kind = "366"
  BY <1>1, <1>2, <1>3 DEF Replies
<1>5. ASSUME NEW i \in 1..Len(v), v[i].kind = "366", Me \in V[i]
      PROVE  IF i = 1 THEN b = V[i] ELSE v[i - 1].kind = "353"
  <2>1. i \in 1..Len(w) /\ w[i].kind = "366" /\ V[i] = W[i]
    BY <1>2, <1>3, <1>5
  <2>2. IF i = 1 THEN b = W[i] ELSE w[i - 1].kind = "353"
    BY <1>5, <2>1 DEF Replies
  <2>3. i # 1 => i - 1 \in 1..Len(w)
    BY <1>1, <2>1
  <2> QED
    BY <1>1, <2>1, <2>2, <2>3
<1> QED
  BY <1>1, <1>4, <1>5 DEF Replies, v

\* The course goes on over a longer wire.
Extends(W, w, x) ==
  \E V : /\ WireCourse(V, x) /\ V[Len(x)] = W[Len(w)] /\ V[0] = W[0]
         /\ Replies(V, x, names)

\* The answer to a NAMES names those who are there.
LEMMA ReplyGoesOn ==
  ASSUME RosterType, NEW w \in Seq(MessageType), NEW W, WireCourse(W, w), Replies(W, w, names),
         NEW inside \in BOOLEAN, inside => W[Len(w)] = Present, ~inside => Me \notin W[Len(w)],
         NEW x, x = w \o NamesReply(inside)
  PROVE  /\ x \in Seq(MessageType) /\ Len(x) > Len(w) /\ x[Len(x)].kind = "366"
         /\ \A i \in 1..Len(w) : x[i] = w[i]
         /\ Extends(W, w, x)
<1> DEFINE here == NicksOf(members) \cup (IF inside THEN {Me} ELSE {})
           a == Line("353", here)
           b == Line("366", {})
           n == Len(w)
<1>1. here \subseteq Nicks \cup {Me}
  BY DEF RosterType, NicksOf
<1>2. a \in MessageType /\ b \in MessageType /\ a.kind = "353" /\ b.kind = "366" /\ a.nicks = here
  BY <1>1 DEF Line, MessageType
<1>3. inside => here = Present /\ here # {}
  BY DEF Present
<1>4. NamesReply(inside) = IF here # {} /\ (inside \/ Public) THEN <<a, b>> ELSE <<b>>
  BY DEF NamesReply
<1>5. Tells(W[n], a, W[n]) /\ Tells(W[n], b, W[n])
  BY <1>2, <1>3 DEF Tells
<1> HIDE DEF here, a, b
<1>6. CASE NamesReply(inside) = <<a, b>>
  <2> DEFINE v == Append(w, a)
  <2>1. /\ v \in Seq(MessageType) /\ x = Append(v, b) /\ x \in Seq(MessageType) /\ n \in Nat
        /\ Len(v) = n + 1 /\ Len(x) = n + 2 /\ x[n + 1] = a /\ x[n + 2] = b
        /\ \A i \in 1..n : x[i] = w[i]
    BY <1>2, <1>6
  <2>2. PICK U : WireCourse(U, v) /\ U[n + 1] = W[n] /\ GoesOn(U, W, n)
    BY <1>2, <1>5, WireGrows
  <2> HIDE DEF v
  <2>3. Tells(U[Len(v)], b, W[n])
    BY <1>5, <2>1, <2>2
  <2>4. PICK V : WireCourse(V, Append(v, b)) /\ V[Len(v) + 1] = W[n] /\ GoesOn(V, U, Len(v))
    BY <1>2, <2>1, <2>2, <2>3, WireGrows
  <2>5. V[n + 2] = W[n] /\ \A i \in 0..n : V[i] = W[i]
    BY <2>1, <2>2, <2>4 DEF GoesOn
  <2>6. Replies(V, x, names)
    <3>1. names # {} => Len(x) # 0 /\ x[1].kind = "366"
      BY <2>1 DEF Replies
    <3>2. ASSUME NEW i \in 1..Len(x), x[i].kind = "353"
          PROVE  i + 1 \in 1..Len(x) /\ x[i + 1].kind = "366"
      <4>1. CASE i \in 1..n
        <5>1. i + 1 \in 1..n /\ w[i + 1].kind = "366"
          BY <2>1, <3>2, <4>1 DEF Replies
        <5>2. x[i + 1] = w[i + 1] /\ i + 1 \in 1..Len(x)
          BY <2>1, <5>1
        <5> QED
          BY <5>1, <5>2
      <4>2. CASE i = n + 1
        BY <1>2, <2>1, <4>2
      <4>3. CASE i = n + 2
        BY <1>2, <2>1, <3>2, <4>3
      <4> QED
        BY <2>1, <4>1, <4>2, <4>3
    <3>3. ASSUME NEW i \in 1..Len(x), x[i].kind = "366", Me \in V[i]
          PROVE  IF i = 1 THEN names = V[i] ELSE x[i - 1].kind = "353"
      <4>1. CASE i \in 1..n
        <5>1. IF i = 1 THEN names = W[i] ELSE w[i - 1].kind = "353"
          BY <2>1, <2>5, <3>3, <4>1 DEF Replies
        <5>2. i # 1 => i - 1 \in 1..n
          BY <2>1, <4>1
        <5> QED
          BY <2>1, <2>5, <4>1, <5>1, <5>2
      <4>2. CASE i = n + 1
        BY <1>2, <2>1, <3>3, <4>2
      <4>3. CASE i = n + 2
        BY <1>2, <2>1, <4>3
      <4> QED
        BY <2>1, <4>1, <4>2, <4>3
    <3> QED
      BY <3>1, <3>2, <3>3 DEF Replies
  <2>7. Extends(W, w, x)
    BY <2>1, <2>4, <2>5, <2>6 DEF Extends
  <2> QED
    BY <1>2, <2>1, <2>7
<1>7. CASE NamesReply(inside) = <<b>> /\ ~inside
  <2>1. /\ x = Append(w, b) /\ x \in Seq(MessageType) /\ n \in Nat
        /\ Len(x) = n + 1 /\ x[n + 1] = b /\ \A i \in 1..n : x[i] = w[i]
    BY <1>2, <1>7
  <2>2. PICK V : WireCourse(V, Append(w, b)) /\ V[n + 1] = W[n] /\ GoesOn(V, W, n)
    BY <1>2, <1>5, WireGrows
  <2>3. \A i \in 0..n : V[i] = W[i]
    BY <2>2 DEF GoesOn
  <2>4. Replies(V, x, names)
    <3>1. names # {} => Len(x) # 0 /\ x[1].kind = "366"
      BY <2>1 DEF Replies
    <3>2. ASSUME NEW i \in 1..Len(x), x[i].kind = "353"
          PROVE  i + 1 \in 1..Len(x) /\ x[i + 1].kind = "366"
      <4>1. i \in 1..n
        BY <1>2, <2>1, <3>2
      <4> QED
        BY <2>1, <3>2, <4>1 DEF Replies
    <3>3. ASSUME NEW i \in 1..Len(x), x[i].kind = "366", Me \in V[i]
          PROVE  IF i = 1 THEN names = V[i] ELSE x[i - 1].kind = "353"
      <4>1. i \in 1..n
        BY <1>7, <2>1, <2>2, <3>3
      <4>2. IF i = 1 THEN names = W[i] ELSE w[i - 1].kind = "353"
        BY <2>1, <2>3, <3>3, <4>1 DEF Replies
      <4>3. i # 1 => i - 1 \in 1..n
        BY <2>1, <4>1
      <4> QED
        BY <2>1, <2>3, <4>1, <4>2, <4>3
    <3> QED
      BY <3>1, <3>2, <3>3 DEF Replies
  <2>5. Extends(W, w, x)
    BY <2>1, <2>2, <2>3, <2>4 DEF Extends
  <2> QED
    BY <1>2, <2>1, <2>5
<1> QED
  BY <1>3, <1>4, <1>6, <1>7

\* What the server says, the truth is from then on.
LEMMA MessageGoesOn ==
  ASSUME RosterType, PageInv, joined, NEW m \in MessageType, m.kind \notin {"353", "366"},
         wire' = Append(wire, m), Tells(Truth, m, Truth'),
         UNCHANGED <<ignored, drops, outbox, up, names, waiter, feed, browser>>
  PROVE  PageInv'
<1> SUFFICES ASSUME Undisturbed' PROVE PipeType' /\ \E F, W : Course(F, W)'
  BY DEF PageInv
<1>1. Undisturbed /\ PipeType /\ wire \in Seq(MessageType)
  BY DEF Undisturbed, PageInv, RosterType
<1>2. PICK F, W : Course(F, W)
  BY <1>1 DEF PageInv
<1>3. PipeType'
  BY <1>1 DEF PipeType, browser
<1>4. PICK u : u = Truth'
  OBVIOUS
<1>5. Tells(W[Len(wire)], m, u) /\ WireCourse(W, wire)
  BY <1>2, <1>4 DEF Course
<1>6. PICK V : WireCourse(V, Append(wire, m)) /\ V[Len(wire) + 1] = u /\ GoesOn(V, W, Len(wire))
  BY <1>1, <1>5, WireGrows
<1>7. /\ Len(wire') = Len(wire) + 1 /\ Len(wire) \in Nat /\ wire'[Len(wire) + 1] = m
      /\ \A i \in 1..Len(wire) : wire'[i] = wire[i]
  BY <1>1
<1>8. V[0] = W[0]
  BY <1>6, <1>7 DEF GoesOn
<1>9. Replies(W, wire, names)
  BY <1>2 DEF Course
<1>10. Replies(V, wire', names)
  BY <1>1, <1>6, <1>9, RepliesStay
<1>11. Answer => Answer'
  BY <1>7 DEF Answer, browser
<1>12. ThePage(F[0]) => ThePage(F[0])'
  BY <1>11 DEF ThePage, browser
<1>13. Course(F, V)'
  BY <1>2, <1>4, <1>6, <1>7, <1>8, <1>10, <1>12 DEF Course
<1> QED
  BY <1>3, <1>13

LEMMA TellingGoesOn ==
  ASSUME RosterType, PageInv, NEW m \in MessageType, Tell(m), m.kind \notin {"353", "366"},
         UNCHANGED <<joined, ignored, drops, outbox, up, names, waiter, feed, browser>>,
         joined => Tells(Present, m, Present')
  PROVE  PageInv'
<1>1. CASE joined
  BY <1>1, MessageGoesOn DEF Tell, Truth
<1>2. CASE ~joined
  <2>1. wire' = wire /\ Truth' = Truth
    BY <1>2 DEF Tell, Truth
  <2>2. \A F, W : Course(F, W) => Course(F, W)'
    BY <2>1 DEF Course, ThePage, Answer, browser
  <2> QED
    BY <2>2 DEF PageInv, Undisturbed, PipeType, browser
<1> QED
  BY <1>1, <1>2 DEF RosterType

\* What a person does changes who is there as the message says.
LEMMA PeopleGoOn ==
  ASSUME RosterInv, PageInv, NEW p \in People,
         Enter(p) \/ (\E how \in {"PART", "QUIT", "KICK"} : Leave(p, how)) \/ (\E n \in Nicks : Rename(p, n))
  PROVE  PageInv'
<1>1. RosterType /\ nick[p] \in Nicks /\ Me \notin Nicks
  BY PeopleAssumption DEF RosterInv, RosterType
<1>2. RosterType'
  BY EnterStep, LeaveStep, RenameStep DEF RosterInv
<1>3. UNCHANGED <<joined, ignored, drops, outbox, up, names, waiter, feed, browser>>
  BY DEF Enter, Leave, Rename, Change, conv, browser
<1>4. Me \in Present /\ Present = {nick[q] : q \in members} \cup {Me} /\ Present' = {nick'[q] : q \in members'} \cup {Me}
  BY DEF Present, NicksOf
<1>5. \A q \in members : nick[q] = nick[p] => q = p
  BY <1>1 DEF RosterType
<1>6. CASE Enter(p)
  <2>1. PICK m : m = Message("JOIN", {p}, nick[p])
    OBVIOUS
  <2>2. m \in MessageType /\ m.kind = "JOIN" /\ m.nick = nick[p]
    BY <1>1, <2>1 DEF Message, MessageType
  <2>3. Tell(m) /\ members' = members \cup {p} /\ nick' = nick
    BY <1>6, <2>1 DEF Enter
  <2>4. Present' = Present \cup {nick[p]}
    BY <1>4, <2>3
  <2>5. Tells(Present, m, Present')
    BY <1>1, <1>4, <2>2, <2>4 DEF Tells
  <2> QED
    BY <1>1, <1>2, <1>3, <2>2, <2>3, <2>5, TellingGoesOn
<1>7. ASSUME NEW how \in {"PART", "QUIT", "KICK"}, Leave(p, how) PROVE PageInv'
  <2>1. PICK m : m = Message(how, {p}, nick[p])
    OBVIOUS
  <2>2. m \in MessageType /\ m.kind = how /\ m.nick = nick[p]
    BY <1>1, <2>1 DEF Message, MessageType
  <2>3. Tell(m) /\ members' = members \ {p} /\ nick' = nick
    BY <1>7, <2>1 DEF Leave
  <2>4. Present' = Present \ {nick[p]}
    BY <1>1, <1>4, <1>5, <2>3
  <2>5. Tells(Present, m, Present')
    BY <1>1, <1>4, <2>2, <2>4 DEF Tells
  <2> QED
    BY <1>1, <1>2, <1>3, <2>2, <2>3, <2>5, TellingGoesOn
<1>8. ASSUME NEW n \in Nicks, Rename(p, n) PROVE PageInv'
  <2>1. PICK m : m = [Message("NICK", {p}, nick[p]) EXCEPT !.nicks = {n}]
    OBVIOUS
  <2>2. m \in MessageType /\ m.kind = "NICK" /\ m.nick = nick[p] /\ m.nicks = {n}
    BY <1>1, <2>1 DEF Message, MessageType
  <2>3. /\ members' = members /\ nick' = [nick EXCEPT ![p] = n] /\ n # nick[p]
        /\ IF p \in members THEN Tell(m) ELSE wire' = wire
    BY <1>1, <1>8, <2>1 DEF Rename, NicksOf
  <2>4. \A q \in members : nick'[q] = IF q = p THEN n ELSE nick[q]
    BY <1>1, <2>3 DEF RosterType
  <2>5. CASE p \in members
    <3>1. Present' = (Present \ {nick[p]}) \cup {n} /\ nick[p] \in Present
      BY <1>1, <1>4, <1>5, <2>3, <2>4, <2>5
    <3>2. Tells(Present, m, Present')
      BY <1>1, <1>4, <2>2, <3>1 DEF Tells
    <3> QED
      BY <1>1, <1>2, <1>3, <2>2, <2>3, <2>5, <3>2, TellingGoesOn
  <2>6. CASE p \notin members
    <3>1. Present' = Present /\ wire' = wire
      BY <1>4, <2>3, <2>4, <2>6
    <3>2. Truth' = Truth
      BY <1>3, <3>1 DEF Truth
    <3>3. \A F, W : Course(F, W) => Course(F, W)'
      BY <1>3, <3>1, <3>2 DEF Course, ThePage, Answer, browser
    <3> QED
      BY <1>3, <3>3 DEF PageInv, Undisturbed, PipeType, browser
  <2> QED
    BY <2>5, <2>6
<1> QED
  BY <1>6, <1>7, <1>8

LEMMA KickMeGoesOn ==
  ASSUME RosterInv, PageInv, KickMe
  PROVE  PageInv'
<1>1. RosterType /\ RosterType' /\ wire \in Seq(MessageType) /\ joined /\ ~joined'
  BY KickMeStep DEF RosterInv, KickMe, RosterType
<1>2. UNCHANGED <<ignored, drops, outbox, up, names, waiter, feed, browser, nick, members>>
  BY DEF KickMe, Change, conv, browser
<1>3. PICK m : m = Message("KICK", {}, Me)
  OBVIOUS
<1>4. m \in MessageType /\ m.kind = "KICK" /\ m.nick = Me /\ wire' = Append(wire, m)
  BY <1>3 DEF Message, MessageType, KickMe
<1>5. Truth' = {}
  BY <1>1 DEF Truth
<1>6. Tells(Truth, m, Truth')
  BY <1>4, <1>5 DEF Tells
<1> QED
  BY <1>1, <1>2, <1>4, <1>6, MessageGoesOn
LEMMA ServeGoesOn ==
  ASSUME RosterInv, PageInv, Serve
  PROVE  PageInv'
<1> SUFFICES ASSUME Undisturbed' PROVE PipeType' /\ \E F, W : Course(F, W)'
  BY DEF PageInv
<1>1. /\ RosterType /\ outbox # <<>> /\ outbox' = Tail(outbox) /\ wire \in Seq(MessageType)
      /\ UNCHANGED <<nick, members, ignored, drops, up, names, waiter, feed, tab, shown, object, asked>>
  BY DEF RosterInv, RosterType, Serve, conv, counts, browser
<1>2. /\ Len(outbox') = Len(outbox) - 1 /\ Len(outbox) \in Nat \ {0}
      /\ Head(outbox) = outbox[1] /\ \A i \in 1..Len(outbox') : outbox'[i] = outbox[i + 1]
  BY <1>1 DEF RosterType
<1>3. Undisturbed /\ PipeType
  BY <1>1 DEF Undisturbed, PageInv
<1>4. PICK F, W : Course(F, W)
  BY <1>3 DEF PageInv
<1>5. PipeType'
  BY <1>1, <1>3 DEF PipeType
<1>7. ASSUME \A i \in 1..Len(wire) : i \in 1..Len(wire') /\ wire'[i] = wire[i],
             Head(outbox) = "NAMES" => \E i \in 1..Len(wire') : wire'[i].kind = "366"
      PROVE  ThePage(F[0])'
  <2>1. Answer => Answer'
    <3>1. ASSUME NEW i \in 1..Len(outbox), outbox[i] = "NAMES", Head(outbox) # "NAMES"
          PROVE  \E k \in 1..Len(outbox') : outbox'[k] = "NAMES"
      <4>1. i - 1 \in 1..Len(outbox') /\ (i - 1) + 1 = i
        BY <1>2, <3>1
      <4>2. outbox'[i - 1] = outbox[i]
        BY <1>2, <4>1
      <4> QED
        BY <3>1, <4>1, <4>2
    <3> QED
      BY <1>1, <1>7, <3>1 DEF Answer
  <2> QED
    BY <1>1, <1>4, <2>1 DEF Course, ThePage
<1>8. /\ WireCourse(W, wire) /\ Replies(W, wire, names) /\ W[Len(wire)] = Truth
      /\ FeedCourse(F, feed) /\ F[Len(feed)] = W[0]
  BY <1>4 DEF Course
<1>9. Present' = Present /\ Me \in Present
  BY <1>1 DEF Present, NicksOf
<1>10. ASSUME UNCHANGED <<wire, joined>>, Head(outbox) # "NAMES" PROVE Course(F, W)'
  <2>1. Truth' = Truth
    BY <1>9, <1>10 DEF Truth
  <2> QED
    BY <1>1, <1>4, <1>7, <1>10, <2>1 DEF Course
<1>11. CASE Head(outbox) = "JOIN" /\ ~joined
  <2>1. PICK m : m = Message("JOIN", {}, Me)
    OBVIOUS
  <2>2. m \in MessageType /\ m.kind = "JOIN" /\ m.nick = Me
    BY <2>1 DEF Message, MessageType
  <2>3. PICK w : w = Append(wire, m)
    OBVIOUS
  <2>4. w \in Seq(MessageType) /\ Len(w) = Len(wire) + 1 /\ \A i \in 1..Len(wire) : w[i] = wire[i]
    BY <1>1, <2>2, <2>3
  <2>5. Tells(W[Len(wire)], m, Present)
    BY <1>8, <1>9, <1>11, <2>2 DEF Tells, Truth
  <2>6. PICK V : WireCourse(V, w) /\ V[Len(wire) + 1] = Present /\ GoesOn(V, W, Len(wire))
    BY <1>1, <1>8, <2>2, <2>3, <2>5, WireGrows
  <2>7. Replies(V, w, names)
    BY <1>1, <1>8, <2>2, <2>3, <2>6, RepliesStay
  <2>8. PICK x : x = w \o NamesReply(TRUE)
    OBVIOUS
  <2>9. /\ Len(x) > Len(w) /\ x[Len(x)].kind = "366" /\ x \in Seq(MessageType)
        /\ \A i \in 1..Len(w) : x[i] = w[i]
        /\ Extends(V, w, x)
    BY <1>1, <2>4, <2>6, <2>7, <2>8, ReplyGoesOn
  <2>10. PICK U : WireCourse(U, x) /\ U[Len(x)] = V[Len(w)] /\ U[0] = V[0] /\ Replies(U, x, names)
    BY <2>9 DEF Extends
  <2>11. joined' = TRUE /\ wire' = x
    <3>1. wire \o <<m>> = w
      BY <1>1, <2>2, <2>3
    <3> QED
      BY <1>11, <2>1, <2>8, <3>1 DEF Serve
  <2>12. V[0] = W[0] /\ Truth' = Present
    BY <1>1, <1>9, <2>6, <2>11 DEF GoesOn, Truth
  <2>13. ThePage(F[0])'
    <3>1. \A i \in 1..Len(wire) : i \in 1..Len(x) /\ x[i] = wire[i]
      BY <1>1, <2>4, <2>9
    <3> QED
      BY <1>7, <1>11, <2>11, <3>1
  <2>14. Course(F, U)'
    BY <1>1, <1>8, <2>4, <2>6, <2>10, <2>11, <2>12, <2>13 DEF Course
  <2> QED
    BY <1>5, <2>14
<1>12. CASE Head(outbox) = "NAMES"
  <2>1. PICK x : x = wire'
    OBVIOUS
  <2>2. joined' = joined /\ wire' = x
    BY <1>1, <1>12, <2>1 DEF Serve
  <2>3. x = wire \o NamesReply(joined) /\ RosterType
    BY <1>1, <1>12, <2>1 DEF Serve
  <2>4. /\ Len(x) > Len(wire) /\ x[Len(x)].kind = "366" /\ x \in Seq(MessageType)
        /\ \A i \in 1..Len(wire) : x[i] = wire[i]
        /\ Extends(W, wire, x)
    <3>1. CASE joined
      <4>1. W[Len(wire)] = Present /\ x = wire \o NamesReply(TRUE)
        BY <1>8, <2>3, <3>1 DEF Truth, NamesReply
      <4> QED
        BY <1>1, <1>8, <4>1, ReplyGoesOn
    <3>2. CASE ~joined
      <4>1. Me \notin W[Len(wire)] /\ x = wire \o NamesReply(FALSE)
        BY <1>8, <2>3, <3>2 DEF Truth, NamesReply
      <4> QED
        BY <1>1, <1>8, <4>1, ReplyGoesOn
    <3> QED
      BY <3>1, <3>2
  <2>5. PICK V : WireCourse(V, x) /\ V[Len(x)] = W[Len(wire)] /\ V[0] = W[0] /\ Replies(V, x, names)
    BY <2>4 DEF Extends
  <2>6. ThePage(F[0])'
    <3>1. \A i \in 1..Len(wire) : i \in 1..Len(x) /\ x[i] = wire[i]
      BY <1>1, <2>4
    <3>2. Len(x) \in 1..Len(x)
      BY <1>1, <2>4
    <3> QED
      BY <1>7, <2>2, <2>4, <3>1, <3>2
  <2>7. Truth' = Truth
    BY <1>9, <2>2 DEF Truth
  <2>8. Course(F, V)'
    BY <1>1, <1>8, <2>2, <2>5, <2>6, <2>7 DEF Course
  <2> QED
    BY <1>5, <2>8
<1>13. CASE Head(outbox) = "JOIN" /\ joined
  BY <1>5, <1>10, <1>13 DEF Serve
<1> QED
  BY <1>11, <1>12, <1>13 DEF Serve

-----------------------------------------------------------------------------
\* What is left of the lists when a message is handled.
LEMMA RepliesShrink ==
  ASSUME NEW w \in Seq(MessageType), w # <<>>, NEW W, WireCourse(W, w), NEW b, Replies(W, w, b),
         NEW V, \A i \in 0..(Len(w) - 1) : V[i] = W[i + 1],
         NEW c, c = IF w[1].kind = "353" THEN b \cup w[1].nicks ELSE {}
  PROVE  Replies(V, Tail(w), c) /\ (w[1].kind # "366" => b = {})
<1> DEFINE n == Len(w)
           v == Tail(w)
<1>1. /\ n \in Nat \ {0} /\ Len(v) = n - 1 /\ 1 \in 1..n
      /\ \A i \in 1..(n - 1) : v[i] = w[i + 1]
  OBVIOUS
<1> HIDE DEF n, v
<1>2. w[1].kind # "366" => b = {}
  BY DEF Replies
<1>3. ASSUME NEW i \in 1..Len(v) PROVE i + 1 \in 1..n /\ v[i] = w[i + 1] /\ V[i] = W[i + 1]
  BY <1>1 DEF n
<1>4. w[1].kind = "353" => n > 1 /\ w[2].kind = "366"
  BY <1>1 DEF Replies, n
<1>5. c # {} => Len(v) # 0 /\ v[1].kind = "366"
  BY <1>1, <1>4
<1>6. ASSUME NEW i \in 1..Len(v), v[i].kind = "353"
      PROVE  i + 1 \in 1..Len(v) /\ v[i + 1].kind = "366"
  <2>1. (i + 1) + 1 \in 1..n /\ w[(i + 1) + 1].kind = "366"
    BY <1>3, <1>6 DEF Replies, n
  <2>2. i + 1 \in 1..(n - 1)
    BY <1>1, <2>1
  <2> QED
    BY <1>1, <2>1, <2>2
<1>7. ASSUME NEW i \in 1..Len(v), v[i].kind = "366", Me \in V[i]
      PROVE  IF i = 1 THEN c = V[i] ELSE v[i - 1].kind = "353"
  <2>1. w[(i + 1) - 1].kind = "353"
    BY <1>3, <1>7 DEF Replies, n
  <2>2. (i + 1) - 1 = i /\ i \in 1..n
    BY <1>1
  <2>3. CASE i = 1
    <3>0. w[1].kind = "353"
      BY <2>1, <2>2, <2>3
    <3>1. w[1].kind = "353" /\ b = {} /\ c = w[1].nicks /\ w[2].kind = "366"
      BY <1>2, <1>4, <3>0
    <3>2. Tells(W[1 - 1], w[1], W[1]) /\ Tells(W[2 - 1], w[2], W[2])
      BY <1>1, <1>3, <2>3 DEF WireCourse, n
    <3>3. 1 - 1 = 0 /\ 2 - 1 = 1
      OBVIOUS
    <3>4. W[1] = W[0] /\ (Me \in W[0] => w[1].nicks = W[0])
      BY <3>1, <3>2, <3>3 DEF Tells
    <3>5. W[2] = W[1]
      BY <3>1, <3>2, <3>3 DEF Tells
    <3>6. V[1] = W[2]
      BY <1>3, <2>3
    <3> QED
      BY <1>7, <2>3, <3>1, <3>4, <3>5, <3>6
  <2>4. CASE i # 1
    <3>1. i - 1 \in 1..(n - 1) /\ (i - 1) + 1 = i
      BY <1>1, <2>4
    <3> QED
      BY <1>1, <2>1, <2>2, <2>4, <3>1
  <2> QED
    BY <2>3, <2>4
<1> QED
  BY <1>2, <1>5, <1>6, <1>7 DEF Replies, v

\* The event that a handler sends tells what its message told, and answers
\* the request if the message ends a list.
LEMMA EventGoesOn ==
  ASSUME RosterType, PageInv, wire # <<>>, wire' = Tail(wire), Head(wire).kind # "353",
         NEW e \in EventType, feed' = Append(feed, e),
         \A t, u : Tells(t, Head(wire), u) /\ (Head(wire).kind = "366" /\ Me \in u => names = u)
                     => Shows(t, e, u),
         Head(wire).kind = "366" => names' = {} /\ waiter' = 0,
         Head(wire).kind # "366" => names' = names /\ waiter' = waiter,
         Head(wire).kind = "366" /\ waiter # 0 => e.kind = "names" /\ e.id = waiter,
         UNCHANGED <<network, drops, outbox, up, browser>>
  PROVE  PageInv'
<1> SUFFICES ASSUME Undisturbed' PROVE PipeType' /\ \E F, W : Course(F, W)'
  BY DEF PageInv
<1>1. /\ UNCHANGED <<nick, members, joined, ignored, drops, outbox, up, tab, shown, object, asked>>
      /\ wire \in Seq(MessageType) /\ Head(wire) = wire[1] /\ Len(wire) \in Nat \ {0}
      /\ Len(wire') = Len(wire) - 1 /\ \A i \in 1..Len(wire') : wire'[i] = wire[i + 1]
  BY DEF RosterType, network, browser
<1>2. Undisturbed /\ PipeType /\ feed \in Seq(EventType)
  BY <1>1 DEF Undisturbed, PageInv, PipeType
<1>3. /\ Len(feed') = Len(feed) + 1 /\ Len(feed) \in Nat /\ feed'[Len(feed) + 1] = e
      /\ \A i \in 1..Len(feed) : feed'[i] = feed[i]
  BY <1>2
<1>4. PICK F, W : Course(F, W)
  BY <1>2 DEF PageInv
<1>5. /\ WireCourse(W, wire) /\ Replies(W, wire, names) /\ W[Len(wire)] = Truth
      /\ FeedCourse(F, feed) /\ F[Len(feed)] = W[0] /\ ThePage(F[0])
  BY <1>4 DEF Course
<1>6. PICK V : WireCourse(V, Tail(wire)) /\ \A i \in 0..(Len(wire) - 1) : V[i] = W[i + 1]
  BY <1>1, <1>5, WireShrinks
<1>7. Replies(V, Tail(wire), {}) /\ (wire[1].kind # "366" => names = {})
  <2>1. PICK c : c = IF wire[1].kind = "353" THEN names \cup wire[1].nicks ELSE {}
    OBVIOUS
  <2>2. c = {}
    BY <1>1, <2>1
  <2>3. Replies(V, Tail(wire), c) /\ (wire[1].kind # "366" => names = {})
    BY <1>1, <1>5, <1>6, <2>1, RepliesShrink
  <2> QED
    BY <2>2, <2>3
<1>8. V[0] = W[1] /\ V[Len(wire')] = W[Len(wire)]
  <2>1. 0 \in 0..(Len(wire) - 1) /\ 0 + 1 = 1 /\ Len(wire) - 1 \in 0..(Len(wire) - 1)
        /\ (Len(wire) - 1) + 1 = Len(wire)
    BY <1>1
  <2> QED
    BY <1>1, <1>6, <2>1
<1>9. names' = {}
  BY <1>1, <1>7
<1>10. Shows(W[0], e, W[1])
  <2>1. 1 \in 1..Len(wire) /\ 1 - 1 = 0
    BY <1>1
  <2>2. Tells(W[0], wire[1], W[1])
    BY <1>5, <2>1 DEF WireCourse
  <2>3. wire[1].kind = "366" /\ Me \in W[1] => names = W[1]
    BY <1>5, <2>1 DEF Replies
  <2> QED
    BY <1>1, <2>2, <2>3
<1>11. PICK G : FeedCourse(G, Append(feed, e)) /\ G[Len(feed) + 1] = W[1] /\ GoesOn(G, F, Len(feed))
  <2>1. Shows(F[Len(feed)], e, W[1]) /\ FeedCourse(F, feed)
    BY <1>5, <1>10
  <2> QED
    BY <1>2, <2>1, FeedGrows
<1>12. G[0] = F[0]
  BY <1>3, <1>11 DEF GoesOn
<1>13. PipeType'
  <2>1. feed' \in Seq(EventType)
    BY <1>2
  <2>2. names' \subseteq Nicks \cup {Me} /\ waiter' \in Nat
    BY <1>2, <1>9 DEF PipeType
  <2> QED
    BY <1>1, <1>2, <2>1, <2>2 DEF PipeType
<1>14. object # 0 /\ Answer => Answer'
  <2>1. ASSUME NEW i \in 1..Len(feed), feed[i].kind = "names", feed[i].id = object PROVE Answer'
    <3>1. i \in 1..Len(feed') /\ feed'[i] = feed[i]
      BY <1>3
    <3> QED
      BY <1>1, <2>1, <3>1 DEF Answer
  <2>2. ASSUME object # 0, waiter = object, wire[1].kind = "366" PROVE Answer'
    <3>1. e.kind = "names" /\ e.id = object
      BY <1>1, <2>2
    <3>2. Len(feed) + 1 \in 1..Len(feed')
      BY <1>3
    <3> QED
      BY <1>1, <1>3, <3>1, <3>2 DEF Answer
  <2>3. ASSUME NEW i \in 1..Len(wire), wire[i].kind = "366", wire[1].kind # "366", waiter = object PROVE Answer'
    <3>1. i - 1 \in 1..Len(wire') /\ (i - 1) + 1 = i
      BY <1>1, <2>3
    <3>2. wire'[i - 1] = wire[i]
      BY <1>1, <3>1
    <3> QED
      BY <1>1, <2>3, <3>1, <3>2 DEF Answer
  <2>4. ASSUME NEW i \in 1..Len(outbox), outbox[i] = "NAMES", wire[1].kind # "366", waiter = object PROVE Answer'
    BY <1>1, <2>4 DEF Answer
  <2> QED
    BY <2>1, <2>2, <2>3, <2>4 DEF Answer
<1>15. ThePage(G[0])'
  BY <1>1, <1>5, <1>12, <1>14 DEF ThePage
<1>16. Truth' = Truth
  BY <1>1 DEF Truth, Present, NicksOf
<1>17. Course(G, V)'
  BY <1>1, <1>3, <1>5, <1>6, <1>7, <1>8, <1>9, <1>11, <1>15, <1>16 DEF Course
<1> QED
  BY <1>13, <1>17

\* Every handler sends the event its message calls for; a line of a list
\* is kept until the list ends.
LEMMA HandleGoesOn ==
  ASSUME RosterInv, PageInv, Handle
  PROVE  PageInv'
<1> SUFFICES ASSUME Undisturbed PROVE PageInv'
  BY DEF PageInv, Undisturbed, Handle, HandleJoin, HandlePart, HandleKick, HandleQuit, HandleNick,
         HandleNamesReply, HandleEndOfNames, Receive, network, counts
<1>1. /\ wire # <<>> /\ wire' = Tail(wire)
         /\ UNCHANGED <<network, outbox, up, browser, counts, drops>>
  BY DEF Handle, HandleJoin, HandlePart, HandleKick, HandleQuit, HandleNick, HandleNamesReply,
         HandleEndOfNames, Receive, counts
<1>2. /\ RosterType /\ wire \in Seq(MessageType) /\ Head(wire) = wire[1] /\ Len(wire) \in Nat \ {0}
      /\ Len(wire') = Len(wire) - 1 /\ \A i \in 1..Len(wire') : wire'[i] = wire[i + 1]
  BY <1>1 DEF RosterInv, RosterType
<1>3. PICK m : m = Head(wire)
  OBVIOUS
<1>4. /\ m \in MessageType /\ m.nick \in Nicks \cup {Me} /\ m.nicks \subseteq Nicks \cup {Me}
  <2>1. m \in MessageType
    BY <1>2, <1>3
  <2> QED
    BY <2>1 DEF MessageType
<1>5. ~FromIgnored
  BY DEF FromIgnored, Undisturbed
<1>6. PipeType /\ names \subseteq Nicks \cup {Me} /\ waiter \in Nat
  BY DEF PageInv, PipeType
<1>7. ASSUME m.kind # "353", NEW e \in EventType, feed' = Append(feed, e),
             \A t, u : Tells(t, m, u) /\ (m.kind = "366" /\ Me \in u => names = u) => Shows(t, e, u),
             m.kind = "366" => names' = {} /\ waiter' = 0,
             m.kind # "366" => names' = names /\ waiter' = waiter,
             m.kind = "366" /\ waiter # 0 => e.kind = "names" /\ e.id = waiter
      PROVE  PageInv'
  BY <1>1, <1>2, <1>3, <1>7, EventGoesOn
<1>8. ASSUME m.kind \notin {"353", "366"}, NEW k \in {"open", "join", "part", "quit", "nick"}, NEW S,
             S \subseteq Nicks \cup {Me}, feed' = Append(feed, Event(k, m.nick, S, 0)),
             UNCHANGED <<names, waiter>>,
             \A e : e = Event(k, m.nick, S, 0) => \A t, u : Tells(t, m, u) => Shows(t, e, u)
      PROVE  PageInv'
  <2>1. PICK e : e = Event(k, m.nick, S, 0)
    OBVIOUS
  <2>2. e \in EventType
    BY <1>4, <1>8, <2>1 DEF Event, EventType
  <2> QED
    BY <1>7, <1>8, <2>1, <2>2
<1>9. CASE HandleJoin
  <2>1. /\ m.kind = "JOIN" /\ UNCHANGED <<names, waiter>>
        /\ feed' = Append(feed, Event(IF m.nick = Me THEN "open" ELSE "join", m.nick, {}, 0))
    BY <1>3, <1>5, <1>9 DEF HandleJoin, Receive, Emit, msg
  <2>2. ASSUME NEW e, e = Event(IF m.nick = Me THEN "open" ELSE "join", m.nick, {}, 0), NEW t, NEW u, Tells(t, m, u)
        PROVE  Shows(t, e, u)
    BY <2>1, <2>2 DEF Tells, Shows, Event
  <2> QED
    BY <1>8, <2>1, <2>2
<1>10. CASE HandlePart \/ HandleKick
  <2>1. /\ m.kind \in {"PART", "KICK"} /\ UNCHANGED <<names, waiter>>
        /\ feed' = Append(feed, Event("part", m.nick, {}, 0))
    BY <1>3, <1>5, <1>10 DEF HandlePart, HandleKick, Receive, Emit, msg
  <2>2. ASSUME NEW e, e = Event("part", m.nick, {}, 0), NEW t, NEW u, Tells(t, m, u)
        PROVE  Shows(t, e, u)
    BY <2>1, <2>2 DEF Tells, Shows, Event
  <2> QED
    BY <1>8, <2>1, <2>2
<1>11. CASE HandleQuit
  <2>1. /\ m.kind = "QUIT" /\ UNCHANGED <<names, waiter>>
        /\ feed' = Append(feed, Event("quit", m.nick, {}, 0))
    BY <1>3, <1>5, <1>11 DEF HandleQuit, Receive, Emit, msg
  <2>2. ASSUME NEW e, e = Event("quit", m.nick, {}, 0), NEW t, NEW u, Tells(t, m, u)
        PROVE  Shows(t, e, u)
    BY <2>1, <2>2 DEF Tells, Shows, Event
  <2> QED
    BY <1>8, <2>1, <2>2
<1>12. CASE HandleNick
  <2>1. /\ m.kind = "NICK" /\ UNCHANGED <<names, waiter>>
        /\ feed' = Append(feed, Event("nick", m.nick, m.nicks, 0))
    BY <1>3, <1>5, <1>12 DEF HandleNick, Receive, Emit, msg
  <2>2. ASSUME NEW e, e = Event("nick", m.nick, m.nicks, 0), NEW t, NEW u, Tells(t, m, u)
        PROVE  Shows(t, e, u)
    BY <2>1, <2>2 DEF Tells, Shows, Event
  <2> QED
    BY <1>4, <1>8, <2>1, <2>2
<1>13. CASE HandleEndOfNames
  <2>1. PICK e : e = Event(IF waiter # 0 THEN "names" ELSE "list", Me, names, waiter)
    OBVIOUS
  <2>2. m.kind = "366" /\ names' = {} /\ waiter' = 0 /\ feed' = Append(feed, e)
    BY <1>3, <1>13, <2>1 DEF HandleEndOfNames, Receive, Emit, msg
  <2>3. e \in EventType /\ e.kind \in {"names", "list"} /\ e.nicks = names
    BY <1>6, <2>1 DEF Event, EventType
  <2>4. waiter # 0 => e.kind = "names" /\ e.id = waiter
    BY <2>1 DEF Event
  <2>5. ASSUME NEW t, NEW u, Tells(t, m, u), Me \in u => names = u
        PROVE  Shows(t, e, u)
    <3>1. u = t
      BY <2>2, <2>5 DEF Tells
    <3>2. Lists(t, e)
      BY <2>3, <2>5, <3>1 DEF Lists
    <3> QED
      BY <3>1, <3>2 DEF Shows
  <2> QED
    BY <1>7, <2>2, <2>3, <2>4, <2>5
<1>14. CASE HandleNamesReply
  <2>1. m.kind = "353" /\ names' = names \cup m.nicks /\ waiter' = waiter /\ feed' = feed
    BY <1>3, <1>14 DEF HandleNamesReply, Receive, msg
  <2>2. PICK F, W : Course(F, W)
    BY DEF PageInv
  <2>3. /\ WireCourse(W, wire) /\ Replies(W, wire, names) /\ W[Len(wire)] = Truth
        /\ FeedCourse(F, feed) /\ F[Len(feed)] = W[0] /\ ThePage(F[0])
    BY <2>2 DEF Course
  <2>4. PICK V : WireCourse(V, Tail(wire)) /\ \A i \in 0..(Len(wire) - 1) : V[i] = W[i + 1]
    BY <1>1, <1>2, <2>3, WireShrinks
  <2>5. PICK c : c = names'
    OBVIOUS
  <2>6. Replies(V, Tail(wire), c)
    <3>1. c = IF wire[1].kind = "353" THEN names \cup wire[1].nicks ELSE {}
      BY <1>2, <1>3, <2>1, <2>5
    <3> QED
      BY <1>1, <1>2, <2>3, <2>4, <3>1, RepliesShrink
  <2>7. V[0] = W[1] /\ V[Len(wire')] = W[Len(wire)]
    <3>1. 0 \in 0..(Len(wire) - 1) /\ 0 + 1 = 1 /\ Len(wire) - 1 \in 0..(Len(wire) - 1)
          /\ (Len(wire) - 1) + 1 = Len(wire)
      BY <1>2
    <3> QED
      BY <1>2, <2>4, <3>1
  <2>8. W[1] = W[0]
    <3>1. 1 \in 1..Len(wire) /\ 1 - 1 = 0
      BY <1>2
    <3>2. Tells(W[0], wire[1], W[1])
      BY <2>3, <3>1 DEF WireCourse
    <3> QED
      BY <1>2, <1>3, <2>1, <3>2 DEF Tells
  <2>9. UNCHANGED <<nick, members, joined, drops, ignored, outbox, up, tab, shown, object, asked>>
    BY <1>1 DEF network, browser
  <2>10. Answer => Answer'
    <3>1. ASSUME NEW i \in 1..Len(wire), wire[i].kind = "366" PROVE \E k \in 1..Len(wire') : wire'[k].kind = "366"
      <4>1. i # 1
        BY <1>2, <1>3, <2>1, <3>1
      <4>2. i - 1 \in 1..Len(wire') /\ (i - 1) + 1 = i
        BY <1>2, <3>1, <4>1
      <4>3. wire'[i - 1] = wire[i]
        BY <1>2, <4>2
      <4> QED
        BY <3>1, <4>2, <4>3
    <3> QED
      BY <2>1, <2>9, <3>1 DEF Answer
  <2>11. ThePage(F[0])'
    BY <2>3, <2>9, <2>10 DEF ThePage
  <2>12. Truth' = Truth
    BY <2>9 DEF Truth, Present, NicksOf
  <2>13. Course(F, V)'
    BY <1>1, <2>1, <2>3, <2>4, <2>5, <2>6, <2>7, <2>8, <2>11, <2>12 DEF Course
  <2>14. PipeType'
    BY <1>4, <1>6, <2>1, <2>9 DEF PipeType
  <2> QED
    BY <2>13, <2>14 DEF PageInv
<1> QED
  BY <1>9, <1>10, <1>11, <1>12, <1>13, <1>14 DEF Handle

\* What the browser makes of an event is the truth after it.
LEMMA BrowserEventGoesOn ==
  ASSUME RosterInv, PageInv, BrowserEvent
  PROVE  PageInv'
<1> SUFFICES ASSUME Undisturbed PROVE PageInv'
  BY DEF PageInv, Undisturbed, BrowserEvent, network, counts
<1>1. /\ feed # <<>> /\ feed' = Tail(feed)
      /\ UNCHANGED <<nick, members, joined, drops, ignored, wire, outbox, up, names, waiter>>
  BY DEF BrowserEvent, network, conv, counts
<1>2. PipeType /\ feed \in Seq(EventType)
  BY DEF PageInv, PipeType
<1>3. /\ Head(feed) = feed[1] /\ Len(feed) \in Nat \ {0} /\ 1 \in 1..Len(feed)
      /\ Len(feed') = Len(feed) - 1 /\ \A i \in 1..Len(feed') : feed'[i] = feed[i + 1]
  BY <1>1, <1>2
<1>4. PICK e : e = Head(feed)
  OBVIOUS
<1>5. /\ shown' = See(e)
      /\ tab' = CASE e.kind = "part" /\ e.nick = Me   -> "none"
                  [] e.kind = "open"                 -> "open"
                  [] e.kind = "frozen"               -> "frozen"
                  [] e.kind = "join" /\ tab = "none" -> "open"
                  [] OTHER                           -> tab
      /\ object' = IF e.kind \in {"open", "frozen", "join"}
         /\ tab = "none" THEN object + 1 ELSE object
      /\ asked' = (asked /\ ~(e.kind = "part" /\ e.nick = Me))
  BY <1>4 DEF BrowserEvent
<1>6. PICK F, W : Course(F, W)
  BY DEF PageInv
<1>7. /\ WireCourse(W, wire) /\ Replies(W, wire, names) /\ W[Len(wire)] = Truth
      /\ FeedCourse(F, feed) /\ F[Len(feed)] = W[0] /\ ThePage(F[0])
  BY <1>6 DEF Course
<1>8. PICK G : FeedCourse(G, Tail(feed)) /\ \A i \in 0..(Len(feed) - 1) : G[i] = F[i + 1]
  BY <1>1, <1>2, <1>7, FeedShrinks
<1>9. G[0] = F[1] /\ G[Len(feed')] = F[Len(feed)]
  <2>1. 0 \in 0..(Len(feed) - 1) /\ 0 + 1 = 1 /\ Len(feed) - 1 \in 0..(Len(feed) - 1)
        /\ (Len(feed) - 1) + 1 = Len(feed)
    BY <1>3
  <2> QED
    BY <1>3, <1>8, <2>1
<1>10. Shows(F[0], e, F[1])
  <2>1. Shows(F[1 - 1], feed[1], F[1])
    BY <1>3, <1>7 DEF FeedCourse
  <2> QED
    BY <1>3, <1>4, <2>1
<1>11. PICK t, u : t = F[0] /\ u = F[1]
  OBVIOUS
<1>12. /\ Shows(t, e, u) /\ tab \in {"none", "open"} /\ object \in Nat /\ asked \in BOOLEAN
       /\ tab = "open" <=> Me \in t
       /\ tab = "open" => Me \in shown /\ shown \subseteq t /\ object # 0
       /\ asked => tab = "open" /\ (shown = t \/ Answer)
  BY <1>2, <1>7, <1>10, <1>11 DEF ThePage, PipeType
<1>13. (e.kind # "names" \/ e.id # object) /\ object' = object /\ Answer => Answer'
  <2>1. ASSUME NEW i \in 1..Len(feed), feed[i].kind = "names", feed[i].id = object, object' = object,
               e.kind # "names" \/ e.id # object
        PROVE  Answer'
    <3>1. i # 1
      BY <1>3, <1>4, <2>1
    <3>2. i - 1 \in 1..Len(feed') /\ (i - 1) + 1 = i
      BY <1>3, <3>1
    <3>3. feed'[i - 1] = feed[i]
      BY <1>3, <3>2
    <3> QED
      BY <2>1, <3>2, <3>3 DEF Answer
  <2>2. object' = object /\ waiter = object
        /\ (\E i \in 1..Len(wire) : wire[i].kind = "366") => Answer'
    BY <1>1 DEF Answer
  <2>3. object' = object /\ waiter = object
        /\ (\E i \in 1..Len(outbox) : outbox[i] = "NAMES") => Answer'
    BY <1>1 DEF Answer
  <2> QED
    BY <2>1, <2>2, <2>3 DEF Answer
<1>14. /\ tab' \in {"none", "open"} /\ object' \in Nat /\ asked' \in BOOLEAN
       /\ tab' = "open" <=> Me \in u
       /\ tab' = "open" => Me \in shown' /\ shown' \subseteq u /\ object' # 0
       /\ asked' => tab' = "open" /\ (shown' = u \/ Answer')
  <2>1. CASE e.kind = "open" /\ Me \notin t /\ Me \in u
    <3>1. shown' = {Me} \cup Known /\ tab = "none" /\ tab' = "open" /\ ~asked /\ asked' = FALSE
          /\ object' = object + 1
      BY <1>5, <1>12, <2>1 DEF See, Added
    <3>2. shown' = {Me}
      BY <3>1 DEF Known, Added
    <3>3. Me \in shown' /\ shown' \subseteq u
      BY <2>1, <3>2
    <3>4. object' \in Nat /\ object' # 0
      BY <1>12, <3>1
    <3> QED
      BY <2>1, <3>1, <3>3, <3>4
  <2>2. CASE e.kind = "join" /\ e.nick # Me /\ Me \in t /\ u = t \cup {e.nick}
    <3>1. shown' = shown \cup {e.nick} /\ tab = "open" /\ tab' = "open" /\ asked' = asked
          /\ object' = object
      BY <1>5, <1>12, <2>2 DEF See, Added, Known
    <3> QED
      BY <1>12, <1>13, <2>2, <3>1
  <2>3. CASE e.kind = "part" /\ e.nick = Me /\ u = {}
    <3>1. shown' = {} /\ tab' = "none" /\ asked' = FALSE /\ object' = object
      BY <1>5, <2>3 DEF See
    <3> QED
      BY <1>12, <2>3, <3>1
  <2>4. CASE e.kind \in {"part", "quit"} /\ e.nick # Me /\ Me \in t /\ u = t \ {e.nick}
    <3>1. shown' = shown \ {e.nick} /\ tab = "open" /\ tab' = "open" /\ asked' = asked
          /\ object' = object
      BY <1>5, <1>12, <2>4 DEF See, Deleted
    <3> QED
      BY <1>12, <1>13, <2>4, <3>1
  <2>5. CASE e.kind = "nick" /\ e.nick # Me /\ Me \in t /\ e.nick \in t
             /\ u = (t \ {e.nick}) \cup e.nicks
    <3>1. /\ shown' = IF e.nick \in shown THEN (shown \ {e.nick}) \cup e.nicks ELSE shown
          /\ tab = "open" /\ tab' = "open" /\ asked' = asked /\ object' = object
      BY <1>5, <1>12, <2>5 DEF See, Renamed, Added, Deleted
    <3>2. Me \in u /\ Me \in shown' /\ shown' \subseteq u
      BY <1>12, <2>5, <3>1
    <3>3. shown = t => shown' = u
      BY <2>5, <3>1
    <3> QED
      BY <1>12, <1>13, <2>5, <3>1, <3>2, <3>3
  <2>6. CASE Lists(t, e) /\ u = t
    <3>1. e.kind \in {"list", "names"} /\ (Me \in t => e.nicks = t)
      BY <2>6 DEF Lists
    <3>2. tab' = tab /\ asked' = asked /\ object' = object
      BY <1>5, <1>12, <3>1
    <3>3. CASE tab = "none"
      <4>1. shown' = shown
        BY <1>5, <3>1, <3>3 DEF See
      <4> QED
        BY <1>12, <2>6, <3>2, <3>3
    <3>4. CASE tab = "open" /\ (e.kind = "list" \/ e.id = object)
      <4>1. shown' = (shown \cup t) \/ shown' = (shown \cap {Me}) \cup t
        BY <1>5, <1>12, <3>1, <3>4 DEF See, Added, Cleared
      <4>2. shown' = t
        BY <1>12, <3>4, <4>1
      <4> QED
        BY <1>12, <2>6, <3>2, <3>4, <4>2
    <3>5. CASE tab = "open" /\ e.kind = "names" /\ e.id # object
      <4>1. shown' = shown
        BY <1>5, <3>5 DEF See
      <4> QED
        BY <1>12, <1>13, <2>6, <3>2, <3>5, <4>1
    <3> QED
      BY <1>12, <3>1, <3>3, <3>4, <3>5
  <2> QED
    BY <1>12, <2>1, <2>2, <2>3, <2>4, <2>5, <2>6 DEF Shows
<1>15. ThePage(G[0])'
  BY <1>9, <1>11, <1>14 DEF ThePage
<1>16. PipeType'
  <2>1. feed' \in Seq(EventType)
    BY <1>1, <1>2
  <2> QED
    BY <1>1, <1>2, <1>14, <2>1 DEF PipeType
<1>17. Truth' = Truth
  BY <1>1 DEF Truth, Present, NicksOf
<1>18. Course(G, W)'
  BY <1>1, <1>7, <1>8, <1>9, <1>15, <1>17 DEF Course
<1> QED
  BY <1>16, <1>18 DEF PageInv

LEMMA PageInvStep == RosterInv /\ PageInv /\ [Next]_vars => PageInv'
<1> SUFFICES ASSUME RosterInv, PageInv, [Next]_vars PROVE PageInv'
  OBVIOUS
<1>1. CASE Server
  BY <1>1, PeopleGoOn, KickMeGoesOn, ServeGoesOn DEF Server
<1>2. CASE Handle
  BY <1>2, HandleGoesOn
<1>3. CASE BrowserEvent
  BY <1>3, BrowserEventGoesOn
<1>4. CASE Drop
  BY <1>4 DEF Drop, PageInv, Undisturbed, RosterInv, RosterType
<1>5. CASE Reconnect
  <2>1. ~up /\ UNCHANGED <<drops, ignored>>
    BY <1>5 DEF Reconnect, network, counts
  <2> QED
    BY <2>1 DEF PageInv, PipeType, Undisturbed
<1>6. CASE UNCHANGED vars
  <2>1. \A F, W : Course(F, W) => Course(F, W)'
    BY <1>6 DEF Course, ThePage, Answer, Truth, Present, NicksOf, vars, network, conv, browser
  <2> QED
    BY <1>6, <2>1 DEF PageInv, PipeType, Undisturbed, vars, network, conv, browser, counts
<1>7. ASSUME NEW c \in {"JOIN", "NAMES"}, Undisturbed,
             outbox' = Append(outbox, c), waiter' = waiter \/ waiter' = object,
             asked' = asked \/ (tab = "open" /\ c = "NAMES" /\ waiter' = object /\ asked' = TRUE),
             UNCHANGED <<network, wire, up, names, feed, tab, shown, object, drops>>
      PROVE  PageInv'
  <2>1. PipeType /\ outbox \in Seq({"JOIN", "NAMES"})
    BY <1>7 DEF PageInv, RosterInv, RosterType
  <2>2. UNCHANGED <<nick, members, joined, ignored, wire, up, names, feed, tab, shown, object, drops>>
    BY <1>7 DEF network
  <2>3. PICK F, W : Course(F, W)
    BY <1>7 DEF PageInv
  <2>4. /\ Len(outbox') = Len(outbox) + 1 /\ Len(outbox) \in Nat /\ outbox'[Len(outbox) + 1] = c
        /\ \A i \in 1..Len(outbox) : outbox'[i] = outbox[i]
    BY <1>7, <2>1
  <2>5. PipeType'
    <3>1. waiter' \in Nat /\ asked' \in BOOLEAN
      BY <1>7, <2>1 DEF PipeType
    <3> QED
      BY <2>1, <2>2, <3>1 DEF PipeType
  <2>6. Answer => Answer'
    <3>1. ASSUME NEW i \in 1..Len(outbox), outbox[i] = "NAMES"
          PROVE  \E k \in 1..Len(outbox') : outbox'[k] = "NAMES"
      BY <2>4, <3>1
    <3> QED
      BY <1>7, <2>2, <3>1 DEF Answer
  <2>7. c = "NAMES" /\ waiter' = object => Answer'
    <3>1. Len(outbox) + 1 \in 1..Len(outbox')
      BY <2>4
    <3> QED
      BY <2>2, <2>4, <3>1 DEF Answer
  <2>8. ThePage(F[0])'
    BY <1>7, <2>2, <2>3, <2>6, <2>7 DEF Course, ThePage
  <2>9. Truth' = Truth
    BY <2>2 DEF Truth, Present, NicksOf
  <2>10. Course(F, W)'
    BY <2>2, <2>3, <2>8, <2>9 DEF Course
  <2> QED
    BY <2>5, <2>10 DEF PageInv
<1>8. CASE Join
  <2>1. UNCHANGED <<ignored, drops>>
    BY <1>8 DEF Join, network
  <2>2. CASE Undisturbed
    BY <1>7, <1>8, <2>2 DEF Join, conv, browser
  <2> QED
    BY <2>1, <2>2 DEF PageInv, Undisturbed
<1>9. CASE BrowserAsk
  <2>1. UNCHANGED <<ignored, drops>>
    BY <1>9 DEF BrowserAsk, network, counts
  <2>2. CASE Undisturbed
    <3>1. up
      BY <2>2 DEF PageInv, PipeType
    <3> QED
      BY <1>7, <1>9, <2>2, <3>1 DEF BrowserAsk, counts
  <2> QED
    BY <2>1, <2>2 DEF PageInv, Undisturbed
<1> QED
  BY <1>1, <1>2, <1>3, <1>4, <1>5, <1>6, <1>8, <1>9 DEF Next

(* The browser that has asked shows who is there when nothing is under way, *)
(* whoever came, went and changed his nick meanwhile.                       *)
THEOREM BrowserShowsMembers == Spec => []BrowserExact
<1>1. PageInv => BrowserExact
  <2> SUFFICES ASSUME PageInv, Undisturbed, Quiet, joined, feed = <<>>, tab = "open", asked
               PROVE  shown = Present
    BY DEF BrowserExact
  <2>1. PICK F, W : Course(F, W)
    BY DEF PageInv
  <2>2. F[0] = Truth /\ ~Answer
    BY <2>1 DEF Course, Quiet, Answer
  <2> QED
    BY <2>1, <2>2 DEF Course, ThePage, Truth
<1> QED
  BY RosterInvInit, RosterInvStep, PageInvInit, PageInvStep, <1>1, PTL DEF Spec
=============================================================================
