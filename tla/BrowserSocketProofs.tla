------------------------ MODULE BrowserSocketProofs ------------------------
(***************************************************************************)
(* Theorems about the WebSocket of a browser (BrowserSocket), for any      *)
(* number of requests, lost connections and changes.                        *)
(***************************************************************************)
EXTENDS BrowserSocket, FiniteSetTheorems, TLAPS

-----------------------------------------------------------------------------
(* Sequences. *)

LEMMA AppendFacts ==
  ASSUME NEW S, NEW s \in Seq(S), NEW e \in S
  PROVE  /\ Append(s, e) \in Seq(S) /\ Len(Append(s, e)) = Len(s) + 1 /\ Len(s) \in Nat
         /\ Append(s, e)[Len(s) + 1] = e /\ \A k \in 1..Len(s) : Append(s, e)[k] = s[k]
         /\ \A k \in 1..(Len(s) + 1) : k \in 1..Len(s) \/ k = Len(s) + 1
OBVIOUS

LEMMA TailFacts ==
  ASSUME NEW S, NEW s \in Seq(S), s # <<>>
  PROVE  /\ Tail(s) \in Seq(S) /\ Len(Tail(s)) = Len(s) - 1 /\ Len(s) \in Nat /\ Len(s) > 0
         /\ Head(s) = s[1] /\ 1 \in 1..Len(s) /\ Head(s) \in S
         /\ \A k \in 1..(Len(s) - 1) : k + 1 \in 1..Len(s) /\ Tail(s)[k] = s[k + 1]
OBVIOUS

LEMMA ConcatFacts ==
  ASSUME NEW S, NEW s \in Seq(S), NEW t \in Seq(S)
  PROVE  /\ s \o t \in Seq(S) /\ Len(s \o t) = Len(s) + Len(t) /\ Len(s) \in Nat /\ Len(t) \in Nat
         /\ \A k \in 1..(Len(s) + Len(t)) :
              IF k <= Len(s) THEN k \in 1..Len(s) /\ (s \o t)[k] = s[k]
                             ELSE k - Len(s) \in 1..Len(t) /\ (s \o t)[k] = t[k - Len(s)]
OBVIOUS

LEMMA SubSeqFacts ==
  ASSUME NEW S, NEW s \in Seq(S), NEW n \in 0..Len(s)
  PROVE  /\ SubSeq(s, 1, n) \in Seq(S) /\ Len(SubSeq(s, 1, n)) = n /\ n <= Len(s) /\ Len(s) \in Nat
         /\ \A k \in 1..n : k \in 1..Len(s) /\ SubSeq(s, 1, n)[k] = s[k]
OBVIOUS

\* The requests that wait as a sequence: each once, and no other.
LEMMA ListFacts ==
  ASSUME NEW n \in Nat, NEW S \in SUBSET (1..n), NEW s, s = SetToSeq(S)
  PROVE  /\ s \in Seq(S) /\ \A j, k \in 1..Len(s) : s[j] = s[k] => j = k
<1>1. IsFiniteSet(1..n) /\ IsFiniteSet(S)
  BY FS_Interval, FS_Subset, n \in Int, 1 \in Int
<1>2. Cardinality(S) \in Nat /\ ExistsBijection(1..Cardinality(S), S)
  BY <1>1, FS_CardinalityType
<1>3. \E f \in [1..Cardinality(S) -> S] : IsInjective(f)
  BY <1>2 DEF ExistsBijection, Bijection, Injection
<1>4. s \in [1..Cardinality(S) -> S] /\ IsInjective(s)
  BY <1>3 DEF SetToSeq
<1>5. s \in Seq(S) /\ Len(s) = Cardinality(S) /\ DOMAIN s = 1..Len(s)
  BY <1>2, <1>4
<1> QED
  BY <1>4, <1>5 DEF IsInjective

-----------------------------------------------------------------------------
(* Types, and what the states of page and connection have to do with each  *)
(* other.                                                                   *)

RequestKinds == {"load", "text", "command"}
MessageType  == [kind : {"load", "sent", "event", "refusal"}, id : Nat, version : Nat]

Requests(s) == s \in Seq(Nat) /\ \A k \in 1..Len(s) : s[k] \in Ids

\* An answer is one to a request that was asked, everything else has no id.
Answers(m) == m.kind \in {"load", "sent"}
Known(m) == IF Answers(m) THEN m.id \in Ids
/\ (m.kind = "load" <=> kinds[m.id] = "load") ELSE m.id = 0

StateType ==
  /\ ws \in {"none", "connecting", "open"} /\ told \in BOOLEAN /\ hurried \in BOOLEAN
  /\ status \in {"pending", "loading", "success", "error"} /\ view \in Nat \cup {None}
     /\ version \in Nat
  /\ link \in {"none", "up", "dead", "refused"} /\ (link # "none" <=> ws = "open")
  /\ kinds \in Seq(RequestKinds)

AskedType ==
  /\ Requests(queue) /\ Requests(up) /\ Requests(handled) /\ Requests(called)
  /\ waiting \subseteq Ids
  /\ \A i \in pending : i \in Ids /\ kinds[i] = "command"
  /\ link # "up" => up = <<>>
  /\ ws = "open" => queue = <<>>

DownType ==
  /\ down \in Seq(MessageType) /\ \A k \in 1..Len(down) : Known(down[k])
  /\ link = "refused" => Len(down) <= 1
  /\ \A k \in 1..Len(down) : down[k].kind = "refusal" => link = "refused"
  /\ link = "none" => down = <<>>

TypeInv == StateType /\ AskedType /\ DownType

\* What Send does when everything queued is written at once, and when not.
Written(n) ==
  /\ ws = "open" /\ ws' = ws /\ queue' = queue /\ waiting' = waiting \cup {n}
  /\ up' = IF link = "up" THEN Append(up, n) ELSE up

Kept(n) ==
  /\ ws # "open" /\ ws' = "connecting" /\ queue' = Append(queue, n) /\ UNCHANGED <<waiting, up>>

Grows(kind) ==
  /\ kinds' = Append(kinds, kind) /\ Len(kinds') = Len(kinds) + 1 /\ kinds'[Len(kinds) + 1] = kind
  /\ Len(kinds) \in Nat /\ \A i \in Ids : i \in Ids' /\ kinds'[i] = kinds[i]
  /\ kinds' \in Seq(RequestKinds)

LEMMA SendFacts ==
  ASSUME TypeInv, NEW kind \in RequestKinds, Send(kind)
  PROVE  /\ Grows(kind) /\ (Written(Len(kinds) + 1) \/ Kept(Len(kinds) + 1))
         /\ told' = TRUE /\ UNCHANGED <<called, view, down, link>>
         /\ hurried' = (hurried \/ (ws = "none" /\ told /\ status = "success"))
<1>1. Grows(kind)
  BY DEF TypeInv, StateType, AskedType, Send, Grows, Ids
<1>2. /\ told' = TRUE /\ UNCHANGED <<called, view, down, link>>
      /\ hurried' = (hurried \/ (ws = "none" /\ told /\ status = "success"))
      /\ ws' = IF ws = "none" THEN "connecting" ELSE ws
  BY DEF Send, Open
<1> DEFINE n == Len(kinds) + 1
<1>3. n \in Nat /\ queue \in Seq(Nat) /\ up \in Seq(Nat)
  BY DEF TypeInv, StateType, AskedType, Requests
<1>4. CASE ws = "open"
  <2>1. queue = <<>> /\ Append(queue, n) = <<n>>
    BY <1>3, <1>4 DEF TypeInv, StateType, AskedType
  <2>2. up \o <<n>> = Append(up, n) /\ ToSet(<<n>>) = {n}
    BY <1>3 DEF ToSet
  <2>3. /\ queue' = <<>> /\ waiting' = waiting \cup ToSet(Append(queue, n))
        /\ up' = IF link' = "up" THEN up \o Append(queue, n) ELSE up
    BY <1>4 DEF Send, Dequeue
  <2> QED
    BY <1>1, <1>2, <1>4, <2>1, <2>2, <2>3 DEF Written
<1>5. CASE ws # "open"
  <2>1. queue' = Append(queue, n) /\ UNCHANGED <<waiting, up>>
    BY <1>5 DEF Send, Dequeue
  <2>2. ws' = "connecting"
    BY <1>2, <1>5 DEF TypeInv, StateType, AskedType
  <2> QED
    BY <1>1, <1>2, <1>5, <2>1, <2>2 DEF Kept
<1> QED
  BY <1>4, <1>5

LEMMA OpenedFacts ==
  ASSUME TypeInv, Opened
  PROVE  /\ ws = "connecting" /\ ws' = "open" /\ told' = TRUE /\ up = <<>> /\ queue' = <<>>
         /\ waiting' = waiting \cup {queue[k] : k \in 1..Len(queue)}
         /\ \/ link' = "up" /\ down' = <<>> /\ up' = queue
            \/ link' = "refused" /\ down' = <<Message("refusal", 0, 0)>> /\ up' = <<>>
         /\ UNCHANGED <<timer, kinds, called, status, view, hurried, session, server, counts>>
<1>1. link = "none" /\ up = <<>> /\ queue \in Seq(Nat)
  BY DEF TypeInv, StateType, AskedType, Opened, Requests
<1>2. /\ queue' = <<>> /\ waiting' = waiting \cup ToSet(queue)
      /\ up' = IF link' = "up" THEN up \o queue ELSE up
  BY DEF Opened, Dequeue
<1>3. <<>> \o queue = queue /\ ToSet(queue) = {queue[k] : k \in 1..Len(queue)}
  BY <1>1 DEF ToSet
<1> QED
  BY <1>1, <1>2, <1>3 DEF Opened

\* An open that is not the page's first, without a request.
LEMMA ReopenFacts ==
  ASSUME Timer \/ Focus
  PROVE  /\ ws' = (IF ws = "none" THEN "connecting" ELSE ws) /\ told' = TRUE
         /\ hurried' = (hurried \/ (ws = "none" /\ told /\ status = "success"))
         /\ UNCHANGED <<kinds, queue, waiting, called, status, view, net, session, server>>
BY DEF Timer, Focus, Open

-----------------------------------------------------------------------------
(* Every step keeps the types. *)

LEMMA RequestsAreSequences ==
  /\ \A s : Requests(s) => s \in Seq(Ids)
  /\ \A s \in Seq(Ids) : s \in Seq(Nat) /\ \A k \in 1..Len(s) : s[k] \in Ids
<1>1. ASSUME NEW s, Requests(s) PROVE s \in Seq(Ids)
  <2>1. Len(s) \in Nat /\ s \in [1..Len(s) -> Ids]
    BY <1>1 DEF Requests
  <2> QED
    BY <2>1
<1>2. ASSUME NEW s \in Seq(Ids) PROVE s \in Seq(Nat) /\ \A k \in 1..Len(s) : s[k] \in Ids
  <2>1. Len(s) \in Nat /\ s \in [1..Len(s) -> Nat] /\ \A k \in 1..Len(s) : s[k] \in Ids
    BY <1>2 DEF Ids
  <2> QED
    BY <2>1
<1> QED
  BY <1>1, <1>2

\* Requests that were asked stay asked while more are.
LEMMA StillAsked ==
  ASSUME NEW s, Requests(s), NEW kind \in RequestKinds, Grows(kind) \/ UNCHANGED kinds
  PROVE  s \in Seq(Nat) /\ \A k \in 1..Len(s) : s[k] \in Ids'
BY DEF Requests, Grows, Ids

LEMMA SendType ==
  ASSUME TypeInv, NEW kind \in RequestKinds, Send(kind), status' \in {status, "loading"},
         UNCHANGED server
  PROVE  TypeInv'
<1> DEFINE n == Len(kinds) + 1
<1>1. /\ Grows(kind) /\ (Written(n) \/ Kept(n))
      /\ told' = TRUE /\ UNCHANGED <<called, view, down, link, version, pending, handled>>
      /\ hurried' = (hurried \/ (ws = "none" /\ told /\ status = "success"))
  BY SendFacts DEF server
<1>2. n \in Nat /\ Ids' = 1..n /\ Ids \subseteq Ids' /\ n \in Ids'
      /\ \A i \in Ids : kinds'[i] = kinds[i]
  BY <1>1 DEF Grows, Ids
<1>3. StateType'
  BY <1>1 DEF TypeInv, StateType, Grows, Written, Kept
<1>4. AskedType'
  <2>1. Requests(handled)' /\ Requests(called)'
    BY <1>1, <1>2 DEF TypeInv, AskedType, Requests
  <2>2. \A i \in pending' : i \in Ids' /\ kinds'[i] = "command"
    BY <1>1, <1>2 DEF TypeInv, AskedType
  <2>3. queue \in Seq(Nat) /\ up \in Seq(Nat) /\ (\A k \in 1..Len(queue) : queue[k] \in Ids) /\ waiting \subseteq Ids
        /\ (\A k \in 1..Len(up) : up[k] \in Ids) /\ (link # "up" => up = <<>>) /\ (ws = "open" => queue = <<>>)
    BY DEF TypeInv, AskedType, Requests
  <2>4. CASE Written(n)
    <3>1. Requests(queue)' /\ waiting' \subseteq Ids' /\ (ws' = "open" => queue' = <<>>)
      BY <1>2, <2>3, <2>4 DEF Written, Requests
    <3>2. Requests(up)' /\ (link' # "up" => up' = <<>>)
      BY SMTT(30), <1>1, <1>2, <2>3, <2>4, AppendFacts DEF Written, Requests
    <3> QED
      BY <2>1, <2>2, <3>1, <3>2 DEF AskedType
  <2>5. CASE Kept(n)
    <3>1. Requests(queue)' /\ ws' # "open"
      BY <1>2, <2>3, <2>5, AppendFacts DEF Kept, Requests
    <3>2. Requests(up)' /\ (link' # "up" => up' = <<>>) /\ waiting' \subseteq Ids'
      BY <1>1, <1>2, <2>3, <2>5 DEF Kept, Requests
    <3> QED
      BY <2>1, <2>2, <3>1, <3>2 DEF AskedType
  <2> QED
    BY <1>1, <2>4, <2>5
<1>5. DownType'
  BY <1>1, <1>2 DEF TypeInv, DownType, Known
<1> QED
  BY <1>3, <1>4, <1>5 DEF TypeInv

LEMMA SendsLoad ==
  ASSUME Load
  PROVE  Send("load") /\ "load" \in RequestKinds /\ status # "loading" /\ status' = "loading"
BY DEF Load, RequestKinds

LEMMA OpenedType ==
  ASSUME TypeInv, Opened
  PROVE  TypeInv'
<1>1. /\ ws = "connecting" /\ ws' = "open" /\ told' = TRUE /\ up = <<>> /\ queue' = <<>>
      /\ waiting' = waiting \cup {queue[k] : k \in 1..Len(queue)}
      /\ \/ link' = "up" /\ down' = <<>> /\ up' = queue
         \/ link' = "refused" /\ down' = <<Message("refusal", 0, 0)>> /\ up' = <<>>
      /\ UNCHANGED <<timer, kinds, called, status, view, hurried, version, pending, handled>>
  BY OpenedFacts DEF server
<1>2. StateType'
  BY <1>1 DEF TypeInv, StateType
<1>3. AskedType'
  BY <1>1 DEF TypeInv, AskedType, Requests, Ids
<1>4. DownType'
  <2>1. CASE down' = <<>>
    BY <1>1, <2>1 DEF DownType, Known
  <2>2. CASE down' = <<Message("refusal", 0, 0)>> /\ link' = "refused"
    <3> DEFINE m == Message("refusal", 0, 0)
    <3>1. m \in MessageType /\ m.kind = "refusal" /\ m.id = 0
      BY DEF Message, MessageType
    <3>2. Len(down') = 1 /\ down'[1] = m /\ down' \in Seq(MessageType)
          /\ \A k \in 1..Len(down') : down'[k] = m
      BY <2>2, <3>1
    <3> QED
      BY <2>2, <3>1, <3>2 DEF DownType, Known, Answers
  <2> QED
    BY <1>1, <2>1, <2>2
<1> QED
  BY <1>2, <1>3, <1>4 DEF TypeInv

\* A message of the server that is not a refusal.
LEMMA TellType ==
  ASSUME TypeInv, NEW m \in MessageType, m.kind # "refusal", Known(m), Tell(m), UNCHANGED <<kinds, link>>
  PROVE  DownType'
<1>1. CASE link = "up"
  <2>1. down' = Append(down, m) /\ down \in Seq(MessageType)
    BY <1>1 DEF Tell, TypeInv, DownType
  <2>2. /\ down' \in Seq(MessageType) /\ Len(down') = Len(down) + 1 /\ down'[Len(down) + 1] = m
        /\ \A k \in 1..Len(down) : down'[k] = down[k]
        /\ \A k \in 1..(Len(down) + 1) : k \in 1..Len(down) \/ k = Len(down) + 1
    BY <2>1, AppendFacts
  <2>3. Ids' = Ids /\ kinds' = kinds /\ link' = "up"
    BY <1>1 DEF Ids
  <2>4. ASSUME NEW k \in 1..Len(down') PROVE Known(down[k])' /\ down'[k].kind # "refusal"
    <3>1. CASE k \in 1..Len(down)
      BY <1>1, <2>2, <2>3, <3>1 DEF TypeInv, DownType, Known
    <3>2. CASE k = Len(down) + 1
      BY <2>2, <2>3, <3>2 DEF Known
    <3> QED
      BY <2>2, <2>4, <3>1, <3>2
  <2> QED
    BY <2>2, <2>3, <2>4 DEF DownType
<1>2. CASE link # "up"
  BY <1>2 DEF Tell, TypeInv, DownType, Known, Ids
<1> QED
  BY <1>1, <1>2

LEMMA HandleFacts ==
  ASSUME TypeInv, Handle
  PROVE  /\ link = "up" /\ up # <<>> /\ up' = Tail(up) /\ Head(up) \in Ids
            /\ handled' = Append(handled, Head(up))
         /\ \/ /\ kinds[Head(up)] = "load" /\ Tell(Message("load", Head(up), version))
               /\ Known(Message("load", Head(up), version)) /\ UNCHANGED pending
            \/ /\ kinds[Head(up)] = "text" /\ Tell(Message("sent", Head(up), 0))
               /\ Known(Message("sent", Head(up), 0)) /\ UNCHANGED pending
            \/ kinds[Head(up)] = "command" /\ pending' = pending \cup {Head(up)} /\ UNCHANGED down
         /\ UNCHANGED <<page, link, session, version, counts>>
<1> DEFINE i == Head(up)
<1>1. i \in Ids /\ kinds[i] \in RequestKinds
  <2>1. up \in Seq(Nat) /\ up # <<>> /\ \A k \in 1..Len(up) : up[k] \in Ids
    BY DEF TypeInv, AskedType, Requests, Handle
  <2>2. i \in Ids
    BY <2>1, TailFacts
  <2> QED
    BY <2>2 DEF TypeInv, StateType, Ids
<1>2. /\ kinds[i] = "load" => Tell(Message("load", i, version)) /\ UNCHANGED pending
      /\ kinds[i] = "text" => Tell(Message("sent", i, 0)) /\ UNCHANGED pending
      /\ kinds[i] = "command" => pending' = pending \cup {i} /\ UNCHANGED down
  BY DEF Handle
<1>3. /\ kinds[i] = "load" => Known(Message("load", i, version))
      /\ kinds[i] = "text" => Known(Message("sent", i, 0))
  BY <1>1 DEF Known, Answers, Message
<1> QED
  BY <1>1, <1>2, <1>3 DEF Handle, RequestKinds

LEMMA HandleType ==
  ASSUME TypeInv, Handle
  PROVE  TypeInv'
<1>1. /\ link = "up" /\ up # <<>> /\ up' = Tail(up) /\ Head(up) \in Ids
         /\ handled' = Append(handled, Head(up))
      /\ UNCHANGED <<ws, timer, told, kinds, queue, waiting, called, status, view, hurried, link, version>>
  BY HandleFacts DEF page
<1>2. /\ up \in Seq(Nat) /\ handled \in Seq(Nat) /\ Ids' = Ids /\ Head(up) \in Nat
         /\ Ids \subseteq Nat
      /\ (\A k \in 1..Len(up) : up[k] \in Ids) /\ \A k \in 1..Len(handled) : handled[k] \in Ids
  BY <1>1 DEF TypeInv, AskedType, Requests, Ids
<1>3. StateType'
  BY <1>1 DEF TypeInv, StateType
<1>4. AskedType'
  <2>1. Requests(up)'
    BY <1>1, <1>2, TailFacts DEF Requests
  <2>2. Requests(handled)'
    BY <1>1, <1>2, AppendFacts DEF Requests
  <2>3. \A i \in pending' : i \in Ids' /\ kinds'[i] = "command"
    <3>1. pending' = pending \/ (kinds[Head(up)] = "command" /\ pending' = pending \cup {Head(up)})
      BY HandleFacts
    <3> QED
      BY <1>1, <1>2, <3>1 DEF TypeInv, AskedType
  <2> QED
    BY <1>1, <1>2, <2>1, <2>2, <2>3 DEF TypeInv, AskedType, Requests
<1>5. DownType'
  <2>1. /\ Message("load", Head(up), version) \in MessageType
           /\ Message("load", Head(up), version).kind # "refusal"
        /\ Message("sent", Head(up), 0) \in MessageType
           /\ Message("sent", Head(up), 0).kind # "refusal"
    BY <1>2 DEF Message, MessageType, TypeInv, StateType
  <2>2. \A m \in MessageType : m.kind # "refusal" /\ Known(m) /\ Tell(m) => DownType'
    BY <1>1, TellType
  <2>3. UNCHANGED down => DownType'
    BY <1>1, <1>2 DEF TypeInv, DownType, Known
  <2> QED
    BY HandleFacts, <2>1, <2>2, <2>3
<1> QED
  BY <1>3, <1>4, <1>5 DEF TypeInv

\* The three kinds of messages the page may receive.
ToldEvent(m) ==
  /\ m.kind = "event"
  /\ view' = (IF view = None THEN None ELSE m.version)
  /\ UNCHANGED <<waiting, called, status, hurried>>

ToldAnswer(m) ==
  /\ Answers(m) /\ m.id \in Ids
  /\ waiting' = waiting \ {m.id} /\ called' = Append(called, m.id)
  /\ IF kinds[m.id] = "load" /\ status = "loading" /\ m.id = LoadId
       THEN status' = "success" /\ view' = m.version /\ hurried' = FALSE
       ELSE UNCHANGED <<status, view, hurried>>

ToldRefusal ==
  /\ link = "refused" /\ up = <<>> /\ queue = <<>> /\ down' = <<>>
  /\ waiting' = {} /\ UNCHANGED hurried
  /\ \/ UNCHANGED <<status, view>>
     \/ status' = "error" /\ view' = None
  /\ \E s \in Seq(waiting) :
       called' = called \o s /\ \A j, k \in 1..Len(s) : s[j] = s[k] => j = k

LEMMA ReceiveFacts ==
  ASSUME TypeInv, Receive
  PROVE  /\ ws = "open" /\ down # <<>> /\ down' = Tail(down) /\ told' = TRUE
         /\ Head(down) \in MessageType /\ Known(Head(down))
         /\ UNCHANGED <<ws, timer, kinds, queue, link, up, session, server, counts>>
         /\ ToldEvent(Head(down)) \/ ToldAnswer(Head(down)) \/ ToldRefusal
<1> DEFINE m == Head(down)
<1>1. /\ ws = "open" /\ down # <<>> /\ down' = Tail(down) /\ told' = TRUE
      /\ UNCHANGED <<ws, timer, kinds, queue, link, up, session, server, counts>>
      /\ \/ /\ m.kind = "event"
            /\ view' = (IF view = None THEN None ELSE m.version)
            /\ UNCHANGED <<waiting, called, status, hurried>>
         \/ m.kind \in {"load", "sent"} /\ Answered(m)
         \/ m.kind = "refusal" /\ Refused
  BY DEF Receive
<1>2. /\ m \in MessageType /\ m = down[1] /\ 1 \in 1..Len(down) /\ Len(Tail(down)) = Len(down) - 1
      /\ Len(down) \in Nat /\ Len(down) > 0 /\ Tail(down) \in Seq(MessageType)
  BY <1>1, TailFacts DEF TypeInv, DownType
<1>3. Known(m)
  BY <1>2 DEF TypeInv, DownType
<1>4. ASSUME m.kind \in {"load", "sent"}, Answered(m) PROVE ToldAnswer(m)
  BY <1>3, <1>4 DEF Known, Answers, Answered, ToldAnswer
<1>5. ASSUME m.kind = "refusal", Refused PROVE ToldRefusal
  <2>1. link = "refused"
    BY <1>2, <1>5 DEF TypeInv, DownType
  <2>2. Len(down) <= 1 /\ up = <<>> /\ queue = <<>> /\ waiting \in SUBSET (1..Len(kinds))
        /\ Len(kinds) \in Nat
    BY <1>1, <2>1 DEF TypeInv, StateType, AskedType, DownType, Ids
  <2>3. down' = <<>>
    BY <1>1, <1>2, <2>2
  <2> DEFINE s == SetToSeq(waiting)
  <2>4. s \in Seq(waiting) /\ \A j, k \in 1..Len(s) : s[j] = s[k] => j = k
    BY <2>2, ListFacts
  <2>5. called' = called \o s
    BY <1>5 DEF Refused
  <2> QED
    BY <1>5, <2>1, <2>2, <2>3, <2>4, <2>5 DEF ToldRefusal, Refused
<1> QED
  BY <1>1, <1>2, <1>3, <1>4, <1>5 DEF ToldEvent

LEMMA ReceiveType ==
  ASSUME TypeInv, Receive
  PROVE  TypeInv'
<1> DEFINE m == Head(down)
<1>1. /\ ws = "open" /\ down # <<>> /\ down' = Tail(down) /\ told' = TRUE
      /\ m \in MessageType /\ Known(m)
      /\ UNCHANGED <<ws, kinds, queue, link, up, version, pending, handled>>
      /\ ToldEvent(m) \/ ToldAnswer(m) \/ ToldRefusal
  BY ReceiveFacts DEF server
<1>2. m.version \in Nat /\ Ids' = Ids
  BY <1>1 DEF MessageType, Ids
<1> HIDE DEF m
<1>3. StateType'
  <2>1. status' \in {"pending", "loading", "success", "error"} /\ view' \in Nat \cup {None}
        /\ hurried' \in BOOLEAN
    BY <1>1, <1>2 DEF TypeInv, StateType, ToldEvent, ToldAnswer, ToldRefusal
  <2> QED
    BY <1>1, <2>1 DEF TypeInv, StateType
<1>4. AskedType'
  <2>1. called \in Seq(Ids)
    BY RequestsAreSequences DEF TypeInv, AskedType
  <2>2. called' \in Seq(Ids) /\ waiting' \subseteq Ids
    <3>1. CASE ToldEvent(m)
      BY <2>1, <3>1 DEF ToldEvent, TypeInv, AskedType
    <3>2. CASE ToldAnswer(m)
      BY <2>1, <3>2, AppendFacts DEF ToldAnswer, TypeInv, AskedType
    <3>3. CASE ToldRefusal
      <4>1. PICK s \in Seq(waiting) : called' = called \o s
        BY <3>3 DEF ToldRefusal
      <4>2. s \in Seq(Ids)
        BY DEF TypeInv, AskedType
      <4> QED
        BY <2>1, <3>3, <4>1, <4>2, ConcatFacts DEF ToldRefusal
    <3> QED
      BY <1>1, <3>1, <3>2, <3>3
  <2>3. Requests(called)'
    BY <1>2, <2>2, RequestsAreSequences DEF Requests
  <2> QED
    BY <1>1, <1>2, <2>2, <2>3 DEF TypeInv, AskedType, Requests
<1>5. DownType'
  <2>1. /\ down' \in Seq(MessageType) /\ Len(down') = Len(down) - 1 /\ Len(down) \in Nat
        /\ \A k \in 1..(Len(down) - 1) : k + 1 \in 1..Len(down) /\ down'[k] = down[k + 1]
    BY <1>1, TailFacts DEF TypeInv, DownType
  <2>2. ASSUME NEW k \in 1..Len(down') PROVE Known(down[k])'
               /\ (down'[k].kind = "refusal" => link' = "refused")
    BY <1>1, <1>2, <2>1 DEF TypeInv, DownType, Known
  <2>3. link # "none" /\ link' = link
    BY <1>1 DEF TypeInv, StateType
  <2> QED
    BY <2>1, <2>2, <2>3 DEF TypeInv, DownType
<1> QED
  BY <1>3, <1>4, <1>5 DEF TypeInv

LEMMA LoseType ==
  ASSUME TypeInv, Lose
  PROVE  TypeInv'
<1>1. /\ link = "up" /\ link' = "dead" /\ up' = <<>> /\ UNCHANGED <<page, session, version>>
      /\ \E n \in 0..Len(down) : down' = SubSeq(down, 1, n)
      /\ \E n \in 0..Len(up) :
           /\ handled' = handled \o SubSeq(up, 1, n)
           /\ pending' = pending \cup {i \in ToSet(SubSeq(up, 1, n)) : kinds[i] = "command"}
  BY DEF Lose
<1>2. StateType'
  BY <1>1 DEF page, TypeInv, StateType
<1>3. AskedType'
  <2>1. PICK n \in 0..Len(up) :
           /\ handled' = handled \o SubSeq(up, 1, n)
           /\ pending' = pending \cup {i \in ToSet(SubSeq(up, 1, n)) : kinds[i] = "command"}
    BY <1>1
  <2> DEFINE s == SubSeq(up, 1, n)
  <2>2. up \in Seq(Ids) /\ handled \in Seq(Ids)
    BY RequestsAreSequences DEF TypeInv, AskedType
  <2>3. s \in Seq(Ids) /\ ToSet(s) \subseteq Ids /\ handled \o s \in Seq(Ids)
    BY <2>2, SubSeqFacts, ConcatFacts DEF ToSet
  <2> HIDE DEF s
  <2>4. handled' \in Seq(Ids) /\ Ids \subseteq Nat /\ Ids' = Ids /\ kinds' = kinds
    BY <1>1, <2>1, <2>3 DEF s, page, Ids
  <2>5. Requests(handled)'
    BY <2>4, RequestsAreSequences DEF Requests
  <2>6. \A i \in pending' : i \in Ids' /\ kinds'[i] = "command"
    BY <2>1, <2>3, <2>4 DEF s, TypeInv, AskedType
  <2>7. UNCHANGED <<queue, called, waiting, ws, Ids>> /\ up' = <<>>
    BY <1>1, <2>4 DEF page
  <2>8. Requests(queue)' /\ Requests(up)' /\ Requests(called)' /\ (waiting \subseteq Ids)'
    <3>1. Requests(queue) /\ Requests(called) /\ waiting \subseteq Ids
      BY DEF TypeInv, AskedType
    <3> QED
      BY <2>7, <3>1 DEF Requests
  <2>9. (ws = "open" => queue = <<>>)'
    BY <2>7 DEF TypeInv, AskedType
  <2> QED
    BY <2>5, <2>6, <2>7, <2>8, <2>9 DEF AskedType
<1>4. DownType'
  <2>1. PICK n \in 0..Len(down) : down' = SubSeq(down, 1, n)
    BY <1>1
  <2>2. down' \in Seq(MessageType) /\ Len(down') = n /\ \A k \in 1..n : k \in 1..Len(down) /\ down'[k] = down[k]
    BY <2>1, SubSeqFacts DEF TypeInv, DownType
  <2>3. kinds' = kinds /\ Ids' = Ids
    BY <1>1 DEF page, Ids
  <2>4. ASSUME NEW k \in 1..Len(down') PROVE Known(down[k])' /\ down'[k].kind # "refusal"
    BY <1>1, <2>2, <2>3 DEF TypeInv, DownType, Known
  <2> QED
    BY <1>1, <2>2, <2>4 DEF DownType
<1> QED
  BY <1>2, <1>3, <1>4 DEF TypeInv

\* Steps that move no message and ask nothing.
LEMMA QuietType ==
  ASSUME TypeInv, Timer \/ Focus \/ Failed \/ Closed \/ Expire \/ (Update /\ ~Load) \/ UNCHANGED vars
  PROVE  TypeInv'
<1>1. UNCHANGED <<kinds, queue, waiting, called, view, up, down, server>>
  BY DEF Timer, Focus, Failed, Closed, Expire, Update, vars, page, net
<1>2. /\ ws' \in {"none", "connecting", "open"} /\ told' \in BOOLEAN /\ hurried' \in BOOLEAN
      /\ status' \in {"pending", "loading", "success", "error"}
      /\ link' \in {"none", "up", "dead", "refused"} /\ (link' # "none" <=> ws' = "open")
      /\ (link' = link \/ (link' = "none" /\ down = <<>> /\ link # "up"))
         /\ (ws' = "open" => ws = "open")
  BY DEF Timer, Focus, Failed, Closed, Expire, Update, vars, page, net, Open, Unload, TypeInv,
     StateType
<1>3. StateType'
  BY <1>1, <1>2 DEF TypeInv, StateType, server
<1>4. AskedType'
  BY <1>1, <1>2 DEF TypeInv, AskedType, Requests, Ids, server
<1>5. DownType'
  BY <1>1, <1>2 DEF TypeInv, DownType, Known, Ids
<1> QED
  BY <1>3, <1>4, <1>5 DEF TypeInv

LEMMA ServerType ==
  ASSUME TypeInv, Change \/ \E i \in Ids : Answer(i)
  PROVE  TypeInv'
<1>1. CASE Change
  <2> DEFINE m == Message("event", 0, version + 1)
  <2>1. m \in MessageType /\ m.kind # "refusal" /\ Known(m) /\ version + 1 \in Nat
    BY DEF Message, MessageType, Known, Answers, TypeInv, StateType
  <2>2. DownType'
    BY <1>1, <2>1, TellType DEF Change, page
  <2>3. StateType' /\ AskedType'
    BY <1>1, <2>1 DEF Change, page, TypeInv, StateType, AskedType, Requests, Ids
  <2> QED
    BY <2>2, <2>3 DEF TypeInv
<1>2. CASE \E i \in Ids : Answer(i)
  <2>1. PICK i \in Ids : Answer(i)
    BY <1>2
  <2> DEFINE m == Message("sent", i, 0)
  <2>2. m \in MessageType /\ m.kind # "refusal" /\ Known(m) /\ pending' \subseteq pending
    BY <2>1 DEF Answer, Message, MessageType, Known, Answers, TypeInv, AskedType, Ids
  <2>3. UNCHANGED <<page, link, up, handled, version>> /\ (Tell(m) \/ UNCHANGED down)
    BY <2>1 DEF Answer
  <2>4. DownType'
    <3>1. CASE Tell(m)
      BY <2>2, <2>3, <3>1, TellType DEF page
    <3>2. CASE UNCHANGED down
      BY <2>3, <3>2 DEF page, TypeInv, DownType, Known, Ids
    <3> QED
      BY <2>3, <3>1, <3>2
  <2>5. StateType' /\ AskedType'
    BY <2>2, <2>3 DEF page, TypeInv, StateType, AskedType, Requests, Ids
  <2> QED
    BY <2>4, <2>5 DEF TypeInv
<1> QED
  BY <1>1, <1>2

\* The steps, told apart by what they do with requests.
Sends == \/ \E kind \in {"text", "command"} : Send(kind) /\ UNCHANGED status
         \/ Load
Quietly == Timer \/ Focus \/ Failed \/ Closed \/ Expire \/ (Update /\ ~Load) \/ UNCHANGED vars

LEMMA Steps ==
  ASSUME [Next]_vars
  PROVE  \/ Sends /\ UNCHANGED server
         \/ Opened \/ Receive \/ Handle \/ Lose
         \/ Change \/ (\E i \in Ids : Answer(i))
         \/ Quietly
<1>1. Start \/ Login \/ (Update /\ Load) => Load /\ UNCHANGED server
  BY DEF Start, Login, Update
<1>2. ASSUME NEW kind \in {"text", "command"}, Request(kind) PROVE Send(kind) /\ UNCHANGED status
             /\ UNCHANGED server
  BY <1>2 DEF Request
<1> QED
  BY <1>1, <1>2 DEF Next, Page, Server, Sends, Quietly

LEMMA TypeStep ==
  ASSUME TypeInv, [Next]_vars
  PROVE  TypeInv'
<1>1. Sends /\ UNCHANGED server => TypeInv'
  BY SendType, SendsLoad DEF Sends, RequestKinds
<1> QED
  BY <1>1, Steps, OpenedType, ReceiveType, HandleType, LoseType, ServerType, QuietType DEF Quietly

-----------------------------------------------------------------------------
(* Requests are read in the order they were made, and none is written      *)
(* twice: what was read is older than what is under way, and that older    *)
(* than what is queued.                                                     *)

Increasing(s)  == \A j, k \in 1..Len(s) : j < k => s[j] < s[k]
Before(s, t)   == \A j \in 1..Len(s), k \in 1..Len(t) : s[j] < t[k]

OrderInv ==
  /\ Increasing(handled) /\ Increasing(up) /\ Increasing(queue)
  /\ Before(handled, up) /\ Before(handled, queue) /\ Before(up, queue)

LEMMA OrderAppend ==
  ASSUME NEW s \in Seq(Nat), NEW t \in Seq(Nat), NEW e \in Nat, Before(s, t)
  PROVE  /\ Increasing(s) /\ (\A k \in 1..Len(s) : s[k] < e) => Increasing(Append(s, e))
         /\ (\A k \in 1..Len(s) : s[k] < e) => Before(s, Append(t, e))
         /\ (\A k \in 1..Len(t) : e < t[k]) => Before(Append(s, e), t)
BY SMTT(30), AppendFacts DEF Increasing, Before

LEMMA OrderTail ==
  ASSUME NEW s \in Seq(Nat), s # <<>>, Increasing(s)
  PROVE  Increasing(Tail(s)) /\ \A k \in 1..Len(Tail(s)) : Head(s) < Tail(s)[k]
<1>1. /\ Len(Tail(s)) = Len(s) - 1 /\ Len(s) \in Nat /\ Len(s) > 0 /\ Head(s) = s[1]
      /\ 1 \in 1..Len(s)
      /\ \A k \in 1..(Len(s) - 1) : k + 1 \in 1..Len(s) /\ 1 < k + 1 /\ Tail(s)[k] = s[k + 1]
  BY TailFacts
<1>2. ASSUME NEW j \in 1..(Len(s) - 1), NEW k \in 1..(Len(s) - 1), j < k PROVE Tail(s)[j] < Tail(s)[k]
  <2>1. j + 1 < k + 1
    BY <1>1, <1>2
  <2> QED
    BY <1>1, <2>1 DEF Increasing
<1>3. ASSUME NEW k \in 1..(Len(s) - 1) PROVE Head(s) < Tail(s)[k]
  BY <1>1 DEF Increasing
<1> QED
  BY <1>1, <1>2, <1>3 DEF Increasing

\* What is read of the requests under way when the connection is lost.
LEMMA OrderConcat ==
  ASSUME NEW s \in Seq(Nat), NEW t \in Seq(Nat), Increasing(s), Increasing(t), Before(s, t), NEW n \in 0..Len(t)
  PROVE  Increasing(s \o SubSeq(t, 1, n))
<1> DEFINE u == SubSeq(t, 1, n)
           v == s \o u
<1>1. u \in Seq(Nat) /\ Len(u) = n /\ \A k \in 1..n : k \in 1..Len(t) /\ u[k] = t[k]
  BY SubSeqFacts
<1> HIDE DEF u
<1>2. /\ Len(v) = Len(s) + n /\ Len(s) \in Nat /\ n \in Nat
      /\ \A k \in 1..(Len(s) + n) :
           IF k <= Len(s) THEN k \in 1..Len(s) /\ v[k] = s[k]
                          ELSE k - Len(s) \in 1..n /\ v[k] = u[k - Len(s)]
  BY <1>1, ConcatFacts
<1> HIDE DEF v
<1>3. ASSUME NEW j \in 1..(Len(s) + n), NEW k \in 1..(Len(s) + n), j < k PROVE v[j] < v[k]
  <2>1. CASE k <= Len(s)
    <3>1. j \in 1..Len(s) /\ k \in 1..Len(s) /\ v[j] = s[j] /\ v[k] = s[k]
      BY <1>2, <1>3, <2>1
    <3> QED
      BY <1>3, <3>1 DEF Increasing
  <2>2. CASE j <= Len(s) /\ ~(k <= Len(s))
    BY <1>1, <1>2, <1>3, <2>2 DEF Before
  <2>3. CASE ~(j <= Len(s))
    <3>1. ~(k <= Len(s)) /\ j - Len(s) < k - Len(s)
      BY <1>2, <1>3, <2>3
    <3>2. v[j] = t[j - Len(s)] /\ v[k] = t[k - Len(s)] /\ j - Len(s) \in 1..Len(t)
          /\ k - Len(s) \in 1..Len(t)
      BY <1>1, <1>2, <2>3, <3>1
    <3> QED
      BY <3>1, <3>2 DEF Increasing
  <2> QED
    BY <2>1, <2>2, <2>3
<1>4. Increasing(v)
  BY <1>2, <1>3 DEF Increasing
<1> QED
  BY <1>4 DEF v, u

LEMMA SendFactsAll ==
  ASSUME TypeInv, Sends
  PROVE  \E kind \in RequestKinds :
           /\ Grows(kind) /\ (Written(Len(kinds) + 1) \/ Kept(Len(kinds) + 1))
           /\ told' = TRUE /\ UNCHANGED <<called, view, down, link>>
           /\ hurried' = (hurried \/ (ws = "none" /\ told /\ status = "success"))
           /\ IF kind = "load" THEN status # "loading" /\ status' = "loading" ELSE UNCHANGED status
<1>1. CASE Load
  <2>1. Send("load") /\ "load" \in RequestKinds /\ status # "loading" /\ status' = "loading"
    BY <1>1, SendsLoad
  <2> QED
    BY <2>1, SendFacts
<1>2. CASE \E kind \in {"text", "command"} : Send(kind) /\ UNCHANGED status
  <2>1. PICK kind \in {"text", "command"} : Send(kind) /\ UNCHANGED status
    BY <1>2
  <2>2. kind \in RequestKinds /\ kind # "load"
    BY DEF RequestKinds
  <2> QED
    BY <2>1, <2>2, SendFacts
<1> QED
  BY <1>1, <1>2 DEF Sends

LEMMA Asked ==
  ASSUME TypeInv
  PROVE  /\ up \in Seq(Nat) /\ handled \in Seq(Nat) /\ queue \in Seq(Nat) /\ called \in Seq(Nat)
            /\ Len(kinds) \in Nat
         /\ \A k \in 1..Len(up) : up[k] \in Nat /\ up[k] < Len(kinds) + 1
         /\ \A k \in 1..Len(handled) : handled[k] \in Nat /\ handled[k] < Len(kinds) + 1
         /\ \A k \in 1..Len(queue) : queue[k] \in Nat /\ queue[k] < Len(kinds) + 1
         /\ \A k \in 1..Len(called) : called[k] \in Nat /\ called[k] < Len(kinds) + 1
         /\ (ws = "open" => queue = <<>>) /\ (link # "up" => up = <<>>)
            /\ (link # "none" <=> ws = "open")
<1>1. Len(kinds) \in Nat /\ \A i \in Ids : i \in Nat /\ i < Len(kinds) + 1
  BY DEF TypeInv, StateType, Ids
<1> QED
  BY <1>1 DEF TypeInv, StateType, AskedType, Requests

LEMMA OrderStep ==
  ASSUME TypeInv, OrderInv, [Next]_vars
  PROVE  OrderInv'
<1>1. /\ up \in Seq(Nat) /\ handled \in Seq(Nat) /\ queue \in Seq(Nat) /\ Len(kinds) \in Nat
      /\ \A k \in 1..Len(up) : up[k] < Len(kinds) + 1
      /\ \A k \in 1..Len(handled) : handled[k] < Len(kinds) + 1
      /\ \A k \in 1..Len(queue) : queue[k] < Len(kinds) + 1
      /\ (ws = "open" => queue = <<>>) /\ (link # "up" => up = <<>>)
         /\ (link # "none" <=> ws = "open")
  BY Asked
<1>0. \A s : Before(s, <<>>) /\ Before(<<>>, s) /\ Increasing(<<>>)
  BY DEF Before, Increasing
<1>2. CASE Sends /\ UNCHANGED server
  <2> DEFINE n == Len(kinds) + 1
  <2>1. n \in Nat /\ UNCHANGED <<handled, link>> /\ (Written(n) \/ Kept(n))
    <3>1. PICK kind \in RequestKinds : (Written(n) \/ Kept(n)) /\ UNCHANGED link
      BY <1>2, SendFactsAll
    <3> QED
      BY <1>1, <1>2, <3>1 DEF server
  <2> HIDE DEF n
  <2>2. CASE Written(n)
    <3>1. queue' = <<>> /\ (up' = up \/ up' = Append(up, n))
      BY <1>1, <2>2 DEF Written
    <3>2. Increasing(Append(up, n)) /\ Before(handled, Append(up, n))
      BY <1>1, <2>1, OrderAppend DEF OrderInv, n, Before
    <3> QED
      BY <1>0, <2>1, <3>1, <3>2 DEF OrderInv
  <2>3. CASE Kept(n)
    <3>1. /\ queue' = Append(queue, n) /\ up' = <<>>
      BY <1>1, <2>3 DEF Kept
    <3>2. Increasing(Append(queue, n)) /\ Before(handled, Append(queue, n))
      <4>1. <<>> \in Seq(Nat) /\ Before(queue, <<>>) /\ n \in Nat
            /\ \A k \in 1..Len(queue) : queue[k] < n
        BY <1>0, <1>1, <2>1 DEF n
      <4>2. \A k \in 1..Len(handled) : handled[k] < n
        BY <1>1 DEF n
      <4> QED
        BY <1>1, <4>1, <4>2, OrderAppend DEF OrderInv
    <3> QED
      BY <1>0, <2>1, <3>1, <3>2 DEF OrderInv
  <2> QED
    BY <2>1, <2>2, <2>3
<1>3. CASE Opened
  <2>1. queue' = <<>> /\ up' \in {queue, <<>>} /\ handled' = handled
    BY <1>3, OpenedFacts DEF server
  <2> QED
    BY <1>0, <2>1 DEF OrderInv
<1>4. CASE Handle
  <2>1. /\ up # <<>> /\ up' = Tail(up) /\ handled' = Append(handled, Head(up)) /\ queue' = <<>>
    BY <1>1, <1>4, HandleFacts DEF page
  <2>2. Tail(up) \in Seq(Nat) /\ Head(up) \in Nat /\ Increasing(Tail(up))
        /\ (\A k \in 1..Len(Tail(up)) : Head(up) < Tail(up)[k])
        /\ (\A k \in 1..Len(handled) : handled[k] < Head(up)) /\ Before(handled, Tail(up))
    <3>1. /\ Tail(up) \in Seq(Nat) /\ Head(up) \in Nat /\ Head(up) = up[1] /\ 1 \in 1..Len(up)
          /\ Len(Tail(up)) = Len(up) - 1
          /\ \A k \in 1..(Len(up) - 1) : k + 1 \in 1..Len(up) /\ Tail(up)[k] = up[k + 1]
      BY <1>1, <2>1, TailFacts
    <3>2. Increasing(Tail(up)) /\ (\A k \in 1..Len(Tail(up)) : Head(up) < Tail(up)[k])
      BY <1>1, <2>1, OrderTail DEF OrderInv
    <3>3. (\A k \in 1..Len(handled) : handled[k] < Head(up)) /\ Before(handled, Tail(up))
      BY <3>1 DEF OrderInv, Before
    <3> QED
      BY <3>1, <3>2, <3>3
  <2>3. Increasing(Append(handled, Head(up))) /\ Before(Append(handled, Head(up)), Tail(up))
    BY <1>1, <2>2, OrderAppend DEF OrderInv
  <2> QED
    BY <1>0, <2>1, <2>2, <2>3 DEF OrderInv
<1>5. CASE Lose
  <2>1. PICK n \in 0..Len(up) : handled' = handled \o SubSeq(up, 1, n)
    BY <1>5 DEF Lose
  <2>2. up' = <<>> /\ queue' = <<>>
    BY <1>1, <1>5 DEF Lose, page
  <2>3. Increasing(handled')
    BY <1>1, <2>1, OrderConcat DEF OrderInv
  <2> QED
    BY <1>0, <2>2, <2>3 DEF OrderInv
<1>6. CASE Receive \/ Change \/ (\E i \in Ids : Answer(i)) \/ Quietly
  <2>1. UNCHANGED <<handled, up, queue>>
    BY <1>6, ReceiveFacts
    DEF Change, Answer, Quietly, Timer, Focus, Failed, Closed, Expire, Update, vars, page, net, server
  <2> QED
    BY <2>1 DEF OrderInv
<1> QED
  BY <1>2, <1>3, <1>4, <1>5, <1>6, Steps

-----------------------------------------------------------------------------
(* A request that is answered at once is answered by one message, and what *)
(* has been called waits for nothing any more.                              *)

Called(i) == \E k \in 1..Len(called) : called[k] = i
AtOnce(i) == kinds[i] # "command"
Queued(s, i) == \E k \in 1..Len(s) : s[k] = i

CalledOnce == \A j, k \in 1..Len(called) : called[j] = called[k] /\ AtOnce(called[j]) => j = k

AnsweredOnce ==
  \A j, k \in 1..Len(down) :
    Answers(down[j]) /\ Answers(down[k]) /\ down[j].id = down[k].id /\ AtOnce(down[j].id) => j = k

AnswersNew ==
  \A k \in 1..Len(down) : Answers(down[k]) =>
    Queued(handled, down[k].id) /\ (AtOnce(down[k].id) => ~Called(down[k].id))

Uncalled ==
  /\ \A i \in waiting : ~Queued(queue, i) /\ (AtOnce(i) => ~Called(i))
  /\ \A k \in 1..Len(queue) : ~Called(queue[k])
  /\ \A k \in 1..Len(up) : ~Called(up[k])

PendingRead == \A i \in pending : Queued(handled, i)

CallsInv == CalledOnce /\ AnsweredOnce /\ AnswersNew /\ Uncalled /\ PendingRead

LEMMA CallsSend ==
  ASSUME TypeInv, CallsInv, Sends, UNCHANGED server
  PROVE  CallsInv'
<1> DEFINE n == Len(kinds) + 1
<1>1. PICK kind \in RequestKinds :
        Grows(kind) /\ (Written(n) \/ Kept(n)) /\ UNCHANGED <<called, down, link, handled, pending>>
  BY SendFactsAll DEF server
<1>2. n \in Nat /\ n \notin Ids /\ \A i \in Ids : kinds'[i] = kinds[i]
  BY <1>1 DEF Grows, Ids
<1>3. /\ (\A k \in 1..Len(called) : called[k] \in Ids) /\ waiting \subseteq Ids
      /\ (\A k \in 1..Len(down) : Answers(down[k]) => down[k].id \in Ids)
      /\ (\A k \in 1..Len(queue) : queue[k] \in Ids) /\ (\A k \in 1..Len(up) : up[k] \in Ids)
      /\ queue \in Seq(Nat) /\ up \in Seq(Nat) /\ (ws = "open" => queue = <<>>)
         /\ (link # "up" => up = <<>>)
      /\ (link # "none" <=> ws = "open")
  BY DEF TypeInv, StateType, AskedType, DownType, Known, Requests
<1> HIDE DEF n
<1>4. \A i : Called(i)' <=> Called(i)
  BY <1>1 DEF Called
<1>5. ~Called(n)
  BY <1>2, <1>3 DEF Called
<1>6. CalledOnce' /\ AnsweredOnce' /\ AnswersNew' /\ PendingRead'
  <2>1. CalledOnce'
    BY <1>1, <1>2, <1>3 DEF CallsInv, CalledOnce, AtOnce
  <2>2. AnsweredOnce'
    BY <1>1, <1>2, <1>3 DEF CallsInv, AnsweredOnce, AtOnce
  <2>3. AnswersNew'
    BY <1>1, <1>2, <1>3 DEF CallsInv, AnswersNew, AtOnce, Called, Queued
  <2>4. PendingRead'
    BY <1>1 DEF CallsInv, PendingRead, Queued
  <2> QED
    BY <2>1, <2>2, <2>3, <2>4
<1>7. CASE Written(n)
  <2>1. queue' = <<>> /\ waiting' = waiting \cup {n}
    BY <1>3, <1>7 DEF Written
  <2>2. ASSUME NEW i \in waiting' PROVE ~Queued(queue', i) /\ (kinds'[i] # "command" => ~Called(i)')
    <3>1. ~Queued(queue', i)
      BY <2>1 DEF Queued
    <3> QED
      BY <1>2, <1>3, <1>4, <1>5, <2>1, <3>1 DEF CallsInv, Uncalled, AtOnce
  <2>3. ASSUME NEW k \in 1..Len(up') PROVE ~Called(up'[k])
    <3>1. CASE up' = up
      BY <3>1 DEF CallsInv, Uncalled
    <3>2. CASE up' = Append(up, n)
      <4>1. (k \in 1..Len(up) /\ up'[k] = up[k]) \/ up'[k] = n
        BY <1>2, <1>3, <3>2, AppendFacts
      <4> QED
        BY <1>5, <4>1 DEF CallsInv, Uncalled
    <3> QED
      BY <1>7, <3>1, <3>2 DEF Written
  <2>4. Uncalled'
    BY <1>1, <2>1, <2>2, <2>3 DEF Uncalled, Called, AtOnce, Queued
  <2> QED
    BY <1>6, <2>4 DEF CallsInv
<1>8. CASE Kept(n)
  <2>1. queue' = Append(queue, n) /\ UNCHANGED <<up, waiting>> /\ up = <<>>
    BY <1>3, <1>8 DEF Kept
  <2>2. /\ Len(queue') = Len(queue) + 1
        /\ \A k \in 1..Len(queue') : (k \in 1..Len(queue) /\ queue'[k] = queue[k]) \/ queue'[k] = n
    BY <1>2, <1>3, <2>1, AppendFacts
  <2>3. ASSUME NEW i \in waiting PROVE ~Queued(queue', i)
    BY <1>2, <1>3, <2>2 DEF CallsInv, Uncalled, Queued
  <2>4. ASSUME NEW k \in 1..Len(queue') PROVE ~Called(queue'[k])
    BY <1>5, <2>2 DEF CallsInv, Uncalled
  <2>5. Uncalled'
    BY <1>1, <1>2, <1>3, <2>1, <2>3, <2>4 DEF CallsInv, Uncalled, Called, AtOnce, Queued
  <2> QED
    BY <1>6, <2>5 DEF CallsInv
<1> QED
  BY <1>1, <1>7, <1>8

LEMMA CallsOpened ==
  ASSUME TypeInv, CallsInv, Opened
  PROVE  CallsInv'
<1>1. /\ up = <<>> /\ queue' = <<>> /\ UNCHANGED <<kinds, called, handled, pending>>
      /\ waiting' = waiting \cup {queue[k] : k \in 1..Len(queue)}
      /\ \/ down' = <<>> /\ up' = queue
         \/ down' = <<Message("refusal", 0, 0)>> /\ up' = <<>>
  BY OpenedFacts DEF server
<1>2. \A k \in 1..Len(down') : ~Answers(down'[k])
  BY <1>1 DEF Answers, Message
<1>3. CalledOnce' /\ AnsweredOnce' /\ AnswersNew' /\ PendingRead'
  BY <1>1, <1>2 DEF CallsInv, CalledOnce, AnsweredOnce, AnswersNew, PendingRead, AtOnce, Queued
<1>4. Uncalled'
  BY <1>1 DEF CallsInv, Uncalled, AtOnce, Called, Queued
<1> QED
  BY <1>3, <1>4 DEF CallsInv

\* Messages of the server, one after the other.
LEMMA CallsTell ==
  ASSUME TypeInv, CallsInv, NEW m \in MessageType, Answers(m) => m.id \in Ids, Tell(m) \/ UNCHANGED down,
         UNCHANGED <<kinds, called>>, \A i : Queued(handled, i) => Queued(handled', i),
         Answers(m) => /\ Queued(handled', m.id)
                       /\ AtOnce(m.id) => /\ ~Called(m.id)
                                          /\ \A k \in 1..Len(down) : Answers(down[k]) => down[k].id # m.id
  PROVE  AnsweredOnce' /\ AnswersNew'
<1>1. CASE UNCHANGED down
  BY <1>1 DEF CallsInv, AnsweredOnce, AnswersNew, AtOnce, Called
<1>2. CASE Tell(m) /\ down' # down
  <2>1. down' = Append(down, m) /\ down \in Seq(MessageType)
    BY <1>2 DEF Tell, TypeInv, DownType
  <2>2. /\ Len(down) \in Nat
        /\ \A k \in 1..Len(down') : \/ k \in 1..Len(down) /\ down'[k] = down[k]
                                    \/ k = Len(down) + 1 /\ down'[k] = m
    BY <2>1, AppendFacts
  <2>3. AnsweredOnce'
    BY <2>2 DEF CallsInv, AnsweredOnce, AtOnce
  <2>4. ASSUME NEW k \in 1..Len(down'), Answers(down'[k])
        PROVE  Queued(handled', down'[k].id) /\ (AtOnce(down'[k].id) => ~Called(down'[k].id))
    BY <2>2, <2>4 DEF CallsInv, AnswersNew
  <2>5. AnswersNew'
    BY <2>4 DEF AnswersNew, AtOnce, Called
  <2> QED
    BY <2>3, <2>5
<1> QED
  BY <1>1, <1>2

LEMMA CallsHandle ==
  ASSUME TypeInv, OrderInv, CallsInv, Handle
  PROVE  CallsInv'
<1>1. /\ up # <<>> /\ up' = Tail(up) /\ handled' = Append(handled, Head(up))
      /\ UNCHANGED <<kinds, queue, waiting, called, link>>
      /\ Head(up) \in Ids /\ (pending' = pending \/ pending' = pending \cup {Head(up)})
  BY HandleFacts DEF page
<1>2. /\ Head(up) = up[1] /\ 1 \in 1..Len(up) /\ Len(up') = Len(up) - 1 /\ Len(up) \in Nat
         /\ Head(up) \in Nat
      /\ \A k \in 1..(Len(up) - 1) : k + 1 \in 1..Len(up) /\ up'[k] = up[k + 1]
  BY <1>1, Asked, TailFacts
<1>3. /\ Len(handled') = Len(handled) + 1 /\ handled'[Len(handled) + 1] = Head(up)
         /\ Len(handled) \in Nat
      /\ \A k \in 1..Len(handled) : handled'[k] = handled[k]
  BY <1>1, <1>2, Asked, AppendFacts
<1>4. (\A i : Queued(handled, i) => Queued(handled', i)) /\ Queued(handled', Head(up))
  <2>1. Len(handled) + 1 \in 1..Len(handled') /\ \A k \in 1..Len(handled) : k \in 1..Len(handled')
    BY <1>3
  <2> QED
    BY <1>3, <2>1 DEF Queued
<1>5. ~Called(Head(up)) /\ ~Queued(handled, Head(up))
  <2>1. \A k \in 1..Len(handled) : handled[k] \in Nat /\ handled[k] < Head(up)
    BY <1>2, Asked DEF OrderInv, Before
  <2>2. ~Called(Head(up))
    BY <1>2 DEF CallsInv, Uncalled
  <2> QED
    BY <1>2, <2>1, <2>2 DEF Queued
<1>6. CalledOnce' /\ PendingRead'
  BY <1>1, <1>4 DEF CallsInv, CalledOnce, PendingRead, AtOnce
<1>7. Uncalled'
  BY <1>1, <1>2 DEF CallsInv, Uncalled, AtOnce, Called, Queued
<1>8. AnsweredOnce' /\ AnswersNew'
  <2> DEFINE i == Head(up)
  <2>1. \A k \in 1..Len(down) : Answers(down[k]) => down[k].id # i
    BY <1>5 DEF CallsInv, AnswersNew
  <2>2. \A m \in MessageType : m.id = i /\ (Tell(m) \/ UNCHANGED down) => AnsweredOnce' /\ AnswersNew'
    BY <1>1, <1>4, <1>5, <2>1, CallsTell
  <2>3. \A kind \in {"load", "sent"}, v \in Nat : Message(kind, i, v) \in MessageType /\ Message(kind, i, v).id = i
    BY <1>2 DEF Message, MessageType
  <2>4. Message("sent", i, 0) \in MessageType /\ Message("sent", i, 0).id = i
        /\ Message("load", i, version) \in MessageType /\ Message("load", i, version).id = i
    BY <2>3 DEF TypeInv, StateType
  <2>5. Tell(Message("load", i, version)) \/ Tell(Message("sent", i, 0)) \/ UNCHANGED down
    BY HandleFacts
  <2> QED
    BY <2>2, <2>4, <2>5
<1> QED
  BY <1>6, <1>7, <1>8 DEF CallsInv

LEMMA CallsServer ==
  ASSUME TypeInv, CallsInv, Change \/ \E i \in Ids : Answer(i)
  PROVE  CallsInv'
<1>1. CASE Change
  <2> DEFINE m == Message("event", 0, version + 1)
  <2>1. m \in MessageType /\ ~Answers(m)
    BY DEF Message, MessageType, Answers, TypeInv, StateType
  <2>2. UNCHANGED <<page, link, up, pending, handled>> /\ Tell(m)
    BY <1>1 DEF Change
  <2>3. AnsweredOnce' /\ AnswersNew'
    BY <2>1, <2>2, CallsTell DEF page
  <2>4. CalledOnce' /\ Uncalled' /\ PendingRead'
    BY <2>2 DEF page, CallsInv, CalledOnce, Uncalled, PendingRead, AtOnce, Called, Queued
  <2> QED
    BY <2>3, <2>4 DEF CallsInv
<1>2. CASE \E i \in Ids : Answer(i)
  <2>1. PICK i \in Ids : Answer(i)
    BY <1>2
  <2> DEFINE m == Message("sent", i, 0)
  <2>2. m \in MessageType /\ m.id = i /\ i \in Ids /\ Queued(handled, i) /\ ~AtOnce(i)
        /\ pending' \subseteq pending
    BY <2>1 DEF Answer, Message, MessageType, TypeInv, AskedType, Ids, CallsInv, PendingRead, AtOnce
  <2>3. UNCHANGED <<page, link, up, handled>> /\ (Tell(m) \/ UNCHANGED down)
    BY <2>1 DEF Answer
  <2>4. AnsweredOnce' /\ AnswersNew'
    BY <2>2, <2>3, CallsTell DEF page
  <2>5. CalledOnce' /\ Uncalled' /\ PendingRead'
    BY <2>2, <2>3 DEF page, CallsInv, CalledOnce, Uncalled, PendingRead, AtOnce, Called, Queued
  <2> QED
    BY <2>4, <2>5 DEF CallsInv
<1> QED
  BY <1>1, <1>2

LEMMA CallsReceive ==
  ASSUME TypeInv, OrderInv, CallsInv, Receive
  PROVE  CallsInv'
<1> DEFINE m == Head(down)
<1>1. /\ ws = "open" /\ down # <<>> /\ down' = Tail(down)
      /\ UNCHANGED <<ws, kinds, queue, link, up, pending, handled>>
      /\ ToldEvent(m) \/ ToldAnswer(m) \/ ToldRefusal
  BY ReceiveFacts DEF server
<1>2. /\ m = down[1] /\ 1 \in 1..Len(down) /\ Len(down') = Len(down) - 1 /\ Len(down) \in Nat
      /\ \A k \in 1..(Len(down) - 1) : k + 1 \in 1..Len(down) /\ k + 1 # 1 /\ down'[k] = down[k + 1]
  BY <1>1, TailFacts DEF TypeInv, DownType
<1>3. queue = <<>> /\ queue' = <<>> /\ called \in Seq(Nat)
  BY <1>1, Asked
<1> HIDE DEF m
<1>4. PendingRead'
  BY <1>1 DEF CallsInv, PendingRead, Queued
<1>5. AnsweredOnce'
  <2>1. ASSUME NEW j \in 1..(Len(down) - 1), NEW k \in 1..(Len(down) - 1),
               Answers(down'[j]), Answers(down'[k]), down'[j].id = down'[k].id, AtOnce(down'[j].id)
        PROVE  j = k
    <3>1. j + 1 = k + 1
      BY <1>2, <2>1 DEF CallsInv, AnsweredOnce
    <3> QED
      BY <1>2, <3>1
  <2> QED
    BY <1>1, <1>2, <2>1 DEF AnsweredOnce, AtOnce
\* What is called is called for the first time, and no answer to it is left.
<1>6. ASSUME NEW S, \A i \in S : i \in Nat /\ (AtOnce(i) => ~Called(i)),
             \A i : Called(i)' <=> Called(i) \/ i \in S,
             CalledOnce', \A i \in waiting' : i \in waiting /\ i \notin S,
             \A k \in 1..Len(up) : up[k] \notin S,
             \A k \in 1..(Len(down) - 1) : Answers(down'[k]) /\ AtOnce(down'[k].id) => down'[k].id \notin S
      PROVE  CallsInv'
  <2>1. ASSUME NEW k \in 1..Len(down'), Answers(down'[k])
        PROVE  Queued(handled, down'[k].id)
               /\ (AtOnce(down'[k].id) => ~Called(down'[k].id) /\ down'[k].id \notin S)
    BY <1>2, <1>6, <2>1 DEF CallsInv, AnswersNew
  <2>2. AnswersNew'
    BY <1>1, <1>6, <2>1 DEF AnswersNew, AtOnce, Queued, Called
  <2>3. Uncalled'
    <3>1. \A i \in waiting' : (kinds'[i] # "command" => ~Called(i)') /\ ~Queued(queue', i)
      BY <1>1, <1>3, <1>6 DEF CallsInv, Uncalled, AtOnce, Queued
    <3>2. Len(queue') = 0 /\ \A k \in 1..Len(up) : ~Called(up[k])
      BY <1>3 DEF CallsInv, Uncalled
    <3>3. \A i : ~Called(i) /\ i \notin S => ~Called(i)'
      BY <1>6
    <3>4. \A k \in 1..Len(up) : \A j \in 1..Len(called') : called'[j] # up[k]
      <4>1. \A k \in 1..Len(up) : \E i : i = up[k] /\ ~Called(i)'
        BY <1>6, <3>2, <3>3
      <4> QED
        BY <4>1 DEF Called
    <3> QED
      BY <1>1, <3>1, <3>2, <3>4 DEF Uncalled, AtOnce, Queued, Called
  <2> QED
    BY <1>4, <1>5, <1>6, <2>2, <2>3 DEF CallsInv
<1>7. CASE ToldEvent(m)
  <2>1. called' = called /\ waiting' = waiting /\ CalledOnce'
    BY <1>1, <1>7 DEF ToldEvent, CallsInv, CalledOnce, AtOnce
  <2> QED
    <3> DEFINE S == {}
    <3>1. \A i : Called(i)' <=> Called(i) \/ i \in S
      BY <2>1 DEF Called
    <3>2. /\ \A i \in S : i \in Nat /\ (AtOnce(i) => ~Called(i))
          /\ \A i \in waiting' : i \in waiting /\ i \notin S
          /\ \A k \in 1..Len(up) : up[k] \notin S
          /\ \A k \in 1..(Len(down) - 1) : Answers(down'[k]) /\ AtOnce(down'[k].id) => down'[k].id \notin S
      BY <2>1
    <3> HIDE DEF S
    <3> QED
      BY <1>6, <2>1, <3>1, <3>2
<1>8. CASE ToldAnswer(m)
  <2>1. /\ Answers(m) /\ m.id \in Ids /\ m.id \in Nat /\ waiting' = waiting \ {m.id}
           /\ called' = Append(called, m.id)
    BY <1>8 DEF ToldAnswer, Ids
  <2>2. Queued(handled, m.id) /\ (AtOnce(m.id) => ~Called(m.id))
    BY <1>2, <2>1 DEF CallsInv, AnswersNew
  <2>3. /\ Len(called) \in Nat /\ Len(called') = Len(called) + 1 /\ called'[Len(called) + 1] = m.id
        /\ \A k \in 1..Len(called) : called'[k] = called[k] /\ k \in 1..Len(called')
        /\ \A k \in 1..Len(called') : k \in 1..Len(called) \/ k = Len(called) + 1
        /\ Len(called) + 1 \in 1..Len(called')
    BY <1>3, <2>1, AppendFacts
  <2>4. CalledOnce'
    BY <1>1, <2>2, <2>3 DEF CallsInv, CalledOnce, Called, AtOnce
  <2>5. \A i : Called(i)' <=> Called(i) \/ i \in {m.id}
    BY <2>3 DEF Called
  <2>6. \A k \in 1..Len(up) : up[k] \notin {m.id}
    <3>1. PICK j \in 1..Len(handled) : handled[j] = m.id
      BY <2>2 DEF Queued
    <3>2. \A k \in 1..Len(up) : handled[j] < up[k] /\ up[k] \in Nat
      BY <3>1, Asked DEF OrderInv, Before
    <3> QED
      BY <2>1, <3>1, <3>2
  <2>7. \A k \in 1..(Len(down) - 1) : Answers(down'[k]) /\ AtOnce(down'[k].id) => down'[k].id \notin {m.id}
    BY <1>2, <2>1 DEF CallsInv, AnsweredOnce
  <2> QED
    BY <1>6, <2>1, <2>2, <2>4, <2>5, <2>6, <2>7
<1>9. CASE ToldRefusal
  <2>1. PICK s \in Seq(waiting) : called' = called \o s /\ \A j, k \in 1..Len(s) : s[j] = s[k] => j = k
    BY <1>9 DEF ToldRefusal
  <2>2. waiting' = {} /\ up = <<>> /\ down' = <<>> /\ waiting \subseteq Nat
    BY <1>9 DEF ToldRefusal, TypeInv, AskedType, Ids
  <2>3. s \in Seq(Nat) /\ \A k \in 1..Len(s) : s[k] \in waiting
    <3>1. Len(s) \in Nat /\ \A k \in 1..Len(s) : s[k] \in waiting
      BY <2>1
    <3>2. s \in [1..Len(s) -> waiting]
      BY <2>1
    <3>3. s \in [1..Len(s) -> Nat]
      BY <2>2, <3>2
    <3> QED
      BY <3>1, <3>3
  <2>4. /\ Len(called') = Len(called) + Len(s) /\ Len(called) \in Nat /\ Len(s) \in Nat
        /\ \A k \in 1..(Len(called) + Len(s)) :
             IF k <= Len(called) THEN k \in 1..Len(called) /\ called'[k] = called[k]
                                 ELSE k - Len(called) \in 1..Len(s)
                                 /\ called'[k] = s[k - Len(called)]
    BY <1>3, <2>1, <2>3, ConcatFacts
  <2>5. ASSUME NEW j \in 1..Len(called'), NEW k \in 1..Len(called'), called'[j] = called'[k], AtOnce(called'[j])
        PROVE  j = k
    <3>1. CASE j <= Len(called) /\ k <= Len(called)
      BY <2>4, <2>5, <3>1 DEF CallsInv, CalledOnce
    <3>2. CASE ~(j <= Len(called)) /\ ~(k <= Len(called))
      <4>1. j - Len(called) = k - Len(called)
        BY <2>1, <2>4, <2>5, <3>2
      <4> QED
        BY <2>4, <4>1
    <3>3. ASSUME NEW a \in 1..Len(called'), NEW b \in 1..Len(called'), a <= Len(called), ~(b <= Len(called)),
                 called'[a] = called'[b], AtOnce(called'[b])
          PROVE  FALSE
      BY <2>3, <2>4, <3>3 DEF CallsInv, Uncalled, Called
    <3> QED
      BY <2>5, <3>1, <3>2, <3>3
  <2>6. CalledOnce'
    BY <1>1, <2>5 DEF CalledOnce, AtOnce
  <2> DEFINE S == {s[k] : k \in 1..Len(s)}
  <2>7. \A i : Called(i)' <=> Called(i) \/ i \in S
    <3>1. \A k \in 1..Len(called) : k \in 1..Len(called') /\ called'[k] = called[k]
      BY <2>4
    <3>2. \A k \in 1..Len(s) : Len(called) + k \in 1..Len(called') /\ called'[Len(called) + k] = s[k]
      BY <2>4
    <3> QED
      BY <2>4, <3>1, <3>2 DEF Called
  <2>8. \A i \in S : i \in Nat /\ (AtOnce(i) => ~Called(i))
    BY <2>2, <2>3 DEF CallsInv, Uncalled
  <2>9. Len(down) - 1 = 0 /\ Len(up) = 0
    BY <1>2, <2>2
  <2>10. (\A i \in waiting' : i \in waiting /\ i \notin S) /\ (\A k \in 1..Len(up) : up[k] \notin S)
         /\ \A k \in 1..(Len(down) - 1) : Answers(down'[k]) /\ AtOnce(down'[k].id) => down'[k].id \notin S
    <3> HIDE DEF S
    <3>1. \A i \in waiting' : i \in waiting /\ i \notin S
      BY <2>2
    <3>2. \A k \in 1..Len(up) : up[k] \notin S
      BY <2>9
    <3>3. \A k \in 1..(Len(down) - 1) : FALSE
      BY <2>9, <1>2
    <3> QED
      BY <3>1, <3>2, <3>3
  <2> HIDE DEF S
  <2> QED
    BY <1>6, <2>6, <2>7, <2>8, <2>10
<1> QED
  BY <1>1, <1>7, <1>8, <1>9

LEMMA CallsLose ==
  ASSUME TypeInv, CallsInv, Lose
  PROVE  CallsInv'
<1>1. UNCHANGED <<kinds, queue, waiting, called>> /\ up' = <<>>
  BY DEF Lose, page
<1>2. PICK n \in 0..Len(down) : down' = SubSeq(down, 1, n)
  BY DEF Lose
<1>3. Len(down') = n /\ \A k \in 1..n : k \in 1..Len(down) /\ down'[k] = down[k]
  BY <1>2, SubSeqFacts DEF TypeInv, DownType
<1>4. PICK r \in 0..Len(up) :
        /\ handled' = handled \o SubSeq(up, 1, r)
        /\ pending' = pending \cup {i \in ToSet(SubSeq(up, 1, r)) : kinds[i] = "command"}
  BY DEF Lose
<1> DEFINE s == SubSeq(up, 1, r)
<1>5. s \in Seq(Nat)
  BY Asked, SubSeqFacts
<1> HIDE DEF s
<1>6. /\ Len(handled') = Len(handled) + Len(s) /\ Len(handled) \in Nat /\ Len(s) \in Nat
      /\ \A k \in 1..(Len(handled) + Len(s)) :
           IF k <= Len(handled) THEN k \in 1..Len(handled) /\ handled'[k] = handled[k]
                                ELSE k - Len(handled) \in 1..Len(s)
                                /\ handled'[k] = s[k - Len(handled)]
  BY <1>4, <1>5, Asked, ConcatFacts DEF s
<1>7. \A i : Queued(handled, i) \/ Queued(s, i) => Queued(handled', i)
  <2>1. \A k \in 1..Len(handled) : k \in 1..Len(handled') /\ handled'[k] = handled[k]
    BY <1>6
  <2>2. \A k \in 1..Len(s) : Len(handled) + k \in 1..Len(handled') /\ handled'[Len(handled) + k] = s[k]
    BY SMTT(30), <1>6
  <2> QED
    BY <2>1, <2>2 DEF Queued
<1>8. \A i \in pending' : i \in pending \/ Queued(s, i)
  BY <1>4, <1>5 DEF s, ToSet, Queued
<1>9. PendingRead'
  BY <1>7, <1>8 DEF CallsInv, PendingRead
<1>10. CalledOnce' /\ Uncalled'
  BY <1>1 DEF CallsInv, CalledOnce, Uncalled, AtOnce, Called, Queued
<1>11. AnsweredOnce' /\ AnswersNew'
  <2>1. AnsweredOnce'
    BY <1>1, <1>3 DEF CallsInv, AnsweredOnce, AtOnce
  <2>2. AnswersNew'
    BY <1>1, <1>3, <1>7 DEF CallsInv, AnswersNew, AtOnce, Called
  <2> QED
    BY <2>1, <2>2
<1> QED
  BY <1>9, <1>10, <1>11 DEF CallsInv

LEMMA CallsStep ==
  ASSUME TypeInv, OrderInv, CallsInv, [Next]_vars
  PROVE  CallsInv'
<1>1. CASE Quietly
  <2>1. UNCHANGED <<kinds, queue, waiting, called, up, down, pending, handled>>
    BY <1>1 DEF Quietly, Timer, Focus, Failed, Closed, Expire, Update, vars, page, net, server
  <2> QED
    BY <2>1 DEF CallsInv, CalledOnce, AnsweredOnce, AnswersNew, Uncalled, PendingRead, AtOnce,
       Called, Queued
<1> QED
  BY <1>1, Steps, CallsSend, CallsOpened, CallsHandle, CallsServer, CallsReceive, CallsLose

-----------------------------------------------------------------------------
(* At most one "load" is under way, the last one, and only while the page  *)
(* is loading.                                                              *)

LastLoad(i) == i \in Ids /\ kinds[i] = "load" /\ \A j \in Ids : kinds[j] = "load" => j <= i
Current(i)  == kinds[i] = "load" => status = "loading" /\ LastLoad(i)

LoadInv ==
  /\ \A k \in 1..Len(queue) : Current(queue[k])
  /\ \A k \in 1..Len(up) : Current(up[k])
  /\ \A k \in 1..Len(down) : Answers(down[k]) => Current(down[k].id)

LEMMA TheLastLoad ==
  ASSUME TypeInv, NEW i, LastLoad(i)
  PROVE  LoadId = i
<1>1. \A j \in Ids : j \in Nat
  BY DEF Ids
<1>2. ASSUME NEW j \in Ids, kinds[j] = "load"
             /\ \A k \in Ids : kinds[k] = "load" => k <= j PROVE j = i
  <2>1. i \in Ids /\ i <= j /\ j <= i
    BY <1>2 DEF LastLoad
  <2> QED
    BY <1>1, <2>1
<1> QED
  BY <1>2 DEF LoadId, LastLoad

\* Requests that go on as they were, and a page that goes on loading.
LEMMA StillCurrent ==
  ASSUME NEW i \in Ids, Current(i), UNCHANGED kinds, status = "loading" => status' = "loading"
  PROVE  kinds'[i] = "load" => status' = "loading" /\ LastLoad(i)'
BY DEF Current, LastLoad, Ids

LEMMA LoadStep ==
  ASSUME TypeInv, OrderInv, CallsInv, LoadInv, [Next]_vars
  PROVE  LoadInv'
<1>1. /\ \A k \in 1..Len(queue) : queue[k] \in Ids
      /\ \A k \in 1..Len(up) : up[k] \in Ids
      /\ \A k \in 1..Len(down) : Answers(down[k]) => down[k].id \in Ids
  BY DEF TypeInv, AskedType, DownType, Requests, Known
\* A request is what it was; most steps put nothing new on its way.
<1>2. ASSUME UNCHANGED kinds, status = "loading" => status' = "loading",
             \A k \in 1..Len(queue') : \E j \in 1..Len(queue) : queue'[k] = queue[j],
             \A k \in 1..Len(up') : (\E j \in 1..Len(up) : up'[k] = up[j]) \/ (\E j \in 1..Len(queue) : up'[k] = queue[j]),
             \A k \in 1..Len(down') : Answers(down'[k]) =>
               \/ \E j \in 1..Len(down) : down'[k] = down[j]
               \/ \E j \in 1..Len(up) : down'[k].id = up[j]
               \/ down'[k].id \in Ids /\ kinds[down'[k].id] # "load"
      PROVE  LoadInv'
  <2>1. \A i \in Ids : Current(i) => (kinds'[i] = "load" => status' = "loading" /\ LastLoad(i)')
    BY <1>2, StillCurrent
  <2>2. \A k \in 1..Len(queue') : queue'[k] \in Ids /\ Current(queue'[k])
    BY <1>1, <1>2 DEF LoadInv
  <2>3. \A k \in 1..Len(up') : up'[k] \in Ids /\ Current(up'[k])
    BY <1>1, <1>2 DEF LoadInv
  <2>4. \A k \in 1..Len(down') : Answers(down'[k]) => down'[k].id \in Ids /\ Current(down'[k].id)
    BY <1>1, <1>2 DEF LoadInv, Current
  <2> QED
    BY <1>2, <2>1, <2>2, <2>3, <2>4 DEF LoadInv, Current, LastLoad, Ids
<1>3. CASE Sends /\ UNCHANGED server
  <2>0. PICK n \in Nat : n = Len(kinds) + 1
    BY Asked
  <2> DEFINE LastNow(i) == i \in Ids' /\ kinds'[i] = "load"
  /\ \A j \in Ids' : kinds'[j] = "load" => j <= i
  <2>1. PICK kind \in RequestKinds :
           /\ Grows(kind) /\ (Written(n) \/ Kept(n)) /\ UNCHANGED down
           /\ IF kind = "load" THEN status # "loading" /\ status' = "loading" ELSE UNCHANGED status
    BY <1>3, <2>0, SendFactsAll
  <2>2. /\ n \in Nat /\ Ids' = Ids \cup {n} /\ n \notin Ids /\ kinds'[n] = kind
        /\ \A i \in Ids : i \in Nat /\ i <= n /\ kinds'[i] = kinds[i]
    BY <2>0, <2>1 DEF Grows, Ids
  <2>3. queue \in Seq(Nat) /\ up \in Seq(Nat)
    BY Asked
  <2>4. \A i \in Ids : Current(i) => (kinds'[i] = "load" => status' = "loading" /\ LastNow(i))
    <3>1. CASE kind = "load"
      BY <2>1, <2>2, <3>1 DEF Current
    <3>2. CASE kind # "load"
      BY <2>1, <2>2, <3>2 DEF Current, LastLoad
    <3> QED
      BY <3>1, <3>2
  <2>5. kinds'[n] = "load" => status' = "loading" /\ LastNow(n)
    BY <2>1, <2>2
  <2>6. \A k \in 1..Len(queue') : queue'[k] = n \/ (queue'[k] \in Ids /\ Current(queue'[k]))
    BY <1>1, <2>1, <2>2, <2>3, AppendFacts DEF LoadInv, Written, Kept
  <2>7. \A k \in 1..Len(up') : up'[k] = n \/ (up'[k] \in Ids /\ Current(up'[k]))
    <3>1. up' = up \/ up' = Append(up, n)
      BY <2>0, <2>1 DEF Written, Kept
    <3>2. \A k \in 1..Len(up') : (k \in 1..Len(up) /\ up'[k] = up[k]) \/ up'[k] = n
      <4>1. /\ Len(Append(up, n)) = Len(up) + 1 /\ Append(up, n)[Len(up) + 1] = n
            /\ \A k \in 1..Len(up) : Append(up, n)[k] = up[k]
            /\ \A k \in 1..(Len(up) + 1) : k \in 1..Len(up) \/ k = Len(up) + 1
        BY <2>3, AppendFacts
      <4> QED
        BY <3>1, <4>1
    <3> QED
      BY <1>1, <3>2 DEF LoadInv
  <2>8. \A k \in 1..Len(down) : Answers(down[k]) => down[k].id \in Ids /\ Current(down[k].id)
    BY <1>1 DEF LoadInv
  <2>9. \A k \in 1..Len(queue') : kinds'[queue'[k]] = "load" => status' = "loading" /\ LastNow(queue'[k])
    BY <2>4, <2>5, <2>6
  <2>10. \A k \in 1..Len(up') : kinds'[up'[k]] = "load" => status' = "loading" /\ LastNow(up'[k])
    BY <2>4, <2>5, <2>7
  <2>11. \A k \in 1..Len(down) : Answers(down[k]) =>
            (kinds'[down[k].id] = "load" => status' = "loading" /\ LastNow(down[k].id))
    BY <2>1, <2>4, <2>8
  <2> QED
    BY <2>1, <2>9, <2>10, <2>11 DEF LoadInv, Current, LastLoad
<1>4. CASE Opened
  <2>1. /\ queue' = <<>> /\ (up' = queue \/ up' = <<>>) /\ UNCHANGED <<kinds, status>>
        /\ \A k \in 1..Len(down') : ~Answers(down'[k])
    BY <1>4, OpenedFacts DEF Message, Answers
  <2> QED
    BY <1>2, <2>1
<1>5. CASE Handle
  <2>1. up # <<>> /\ up' = Tail(up) /\ UNCHANGED <<kinds, queue, status>>
    BY <1>5, HandleFacts DEF page
  <2>2. /\ Head(up) = up[1] /\ 1 \in 1..Len(up) /\ Len(up') = Len(up) - 1 /\ Len(up) \in Nat
        /\ \A k \in 1..(Len(up) - 1) : k + 1 \in 1..Len(up) /\ up'[k] = up[k + 1]
    BY <2>1, Asked, TailFacts
  <2>3. \E m \in MessageType : m.id = Head(up) /\ (Tell(m) \/ UNCHANGED down)
    <3>1. Message("load", Head(up), version) \in MessageType
          /\ Message("sent", Head(up), 0) \in MessageType
          /\ Message("load", Head(up), version).id = Head(up)
             /\ Message("sent", Head(up), 0).id = Head(up)
      BY <1>1, <2>2 DEF Message, MessageType, TypeInv, StateType, Ids
    <3> QED
      BY <1>5, <3>1, HandleFacts
  <2>4. PICK m \in MessageType : m.id = Head(up) /\ (Tell(m) \/ UNCHANGED down)
    BY <2>3
  <2>5. \A k \in 1..Len(down') : (k \in 1..Len(down) /\ down'[k] = down[k]) \/ down'[k].id = up[1]
    BY <2>2, <2>4, AppendFacts DEF Tell, TypeInv, DownType
  <2>6. \A k \in 1..Len(up') : k + 1 \in 1..Len(up) /\ up'[k] = up[k + 1]
    BY <2>2
  <2>7. \A k \in 1..Len(down') : (\E j \in 1..Len(down) : down'[k] = down[j]) \/ (\E j \in 1..Len(up) : down'[k].id = up[j])
    BY <2>2, <2>5
  <2> QED
    BY <1>2, <2>1, <2>6, <2>7
<1>6. CASE Lose
  <2>1. up' = <<>> /\ UNCHANGED <<kinds, queue, status>>
    BY <1>6 DEF Lose, page
  <2>2. PICK n \in 0..Len(down) : down' = SubSeq(down, 1, n)
    BY <1>6 DEF Lose
  <2>3. \A k \in 1..Len(down') : k \in 1..Len(down) /\ down'[k] = down[k]
    BY <2>2, SubSeqFacts DEF TypeInv, DownType
  <2> QED
    BY <1>2, <2>1, <2>3
<1>7. CASE Change \/ \E i \in Ids : Answer(i)
  <2>1. UNCHANGED <<kinds, queue, status, up>>
    BY <1>7 DEF Change, Answer, page
  <2>2. \E m \in MessageType : (Answers(m) => m.id \in Ids /\ kinds[m.id] # "load") /\ (Tell(m) \/ UNCHANGED down)
    <3>1. CASE Change
      <4>1. Message("event", 0, version + 1) \in MessageType
            /\ ~Answers(Message("event", 0, version + 1))
        BY DEF Message, MessageType, Answers, TypeInv, StateType
      <4> QED
        BY <3>1, <4>1 DEF Change
    <3>2. ASSUME NEW i \in Ids, Answer(i)
          PROVE  \E m \in MessageType :
                   (Answers(m) => m.id \in Ids /\ kinds[m.id] # "load")
                   /\ (Tell(m) \/ UNCHANGED down)
      <4>1. Message("sent", i, 0) \in MessageType /\ Message("sent", i, 0).id = i
            /\ kinds[i] = "command"
        BY <3>2 DEF Answer, Message, MessageType, TypeInv, AskedType, Ids
      <4> QED
        BY <3>2, <4>1 DEF Answer
    <3> QED
      BY <1>7, <3>1, <3>2
  <2>3. PICK m \in MessageType : (Answers(m) => m.id \in Ids /\ kinds[m.id] # "load") /\ (Tell(m) \/ UNCHANGED down)
    BY <2>2
  <2>4. \A k \in 1..Len(down') : (k \in 1..Len(down) /\ down'[k] = down[k]) \/ down'[k] = m
    BY <2>3, AppendFacts DEF Tell, TypeInv, DownType
  <2> QED
    BY <1>2, <2>1, <2>3, <2>4
<1>8. CASE Quietly
  <2>1. /\ UNCHANGED <<kinds, queue, up, down>> /\ (status = "loading" => status' = "loading")
    BY <1>8 DEF Quietly, Timer, Focus, Failed, Closed, Expire, Update, Unload, vars, page, net
  <2> QED
    BY <1>2, <2>1
<1>9. CASE Receive
  <2> DEFINE m == Head(down)
  <2>1. /\ ws = "open" /\ down # <<>> /\ down' = Tail(down) /\ UNCHANGED <<kinds, queue, up>>
        /\ Known(m) /\ (ToldEvent(m) \/ ToldAnswer(m) \/ ToldRefusal)
    BY <1>9, ReceiveFacts
  <2>2. /\ m = down[1] /\ 1 \in 1..Len(down) /\ Len(down') = Len(down) - 1 /\ Len(down) \in Nat
        /\ \A k \in 1..(Len(down) - 1) : k + 1 \in 1..Len(down) /\ k + 1 # 1 /\ down'[k] = down[k + 1]
    BY <2>1, TailFacts DEF TypeInv, DownType
  <2> HIDE DEF m
  <2>3. \A k \in 1..Len(down') : \E j \in 1..Len(down) : down'[k] = down[j]
    BY <2>2
  <2>4. CASE status = "loading" => status' = "loading"
    BY <1>2, <2>1, <2>3, <2>4
  <2>5. CASE ToldRefusal
    <3>1. Len(queue') = 0 /\ Len(up') = 0 /\ Len(down') = 0
      BY <2>1, <2>5 DEF ToldRefusal
    <3> QED
      BY <3>1 DEF LoadInv
  \* The answer to the load: the only one, and no other load is under way.
  <2>6. CASE ToldAnswer(m) /\ kinds[m.id] = "load"
    <3>1. Answers(m) /\ m.id \in Ids /\ LastLoad(m.id) /\ Queued(handled, m.id)
      BY <2>2, <2>6 DEF ToldAnswer, LoadInv, Current, CallsInv, AnswersNew
    <3>2. \A i \in Ids : Current(i) /\ kinds[i] = "load" => i = m.id
      <4>1. \A i \in Ids : i \in Nat
        BY DEF Ids
      <4> QED
        BY <2>6, <3>1, <4>1 DEF Current, LastLoad
    <3>3. \A k \in 1..Len(up) : kinds[up[k]] # "load"
      <4>1. PICK j \in 1..Len(handled) : handled[j] = m.id
        BY <3>1 DEF Queued
      <4>2. \A k \in 1..Len(up) : handled[j] < up[k] /\ up[k] \in Nat
        BY <4>1, Asked DEF OrderInv, Before
      <4>3. \A k \in 1..Len(up) : up[k] # m.id
        BY <4>1, <4>2
      <4> QED
        BY <1>1, <3>2, <4>3 DEF LoadInv
    <3>4. \A k \in 1..Len(down') : Answers(down'[k]) => kinds[down'[k].id] # "load"
      <4>1. ASSUME NEW k \in 1..(Len(down) - 1), Answers(down'[k]) PROVE down'[k].id # m.id
        BY <2>2, <2>6, <3>1, <4>1 DEF CallsInv, AnsweredOnce, AtOnce
      <4> QED
        BY <1>1, <2>2, <3>2, <4>1 DEF LoadInv
    <3>5. Len(queue) = 0
      BY <2>1, Asked
    <3> QED
      BY <2>1, <3>3, <3>4, <3>5 DEF LoadInv, Current
  <2> QED
    BY <2>1, <2>4, <2>5, <2>6 DEF ToldEvent, ToldAnswer
<1> QED
  BY <1>3, <1>4, <1>5, <1>6, <1>7, <1>8, <1>9, Steps

-----------------------------------------------------------------------------
(* What the page shows, or the last message on its way to it, is the state *)
(* of the server, unless it has to be loaded or the page was hurried.       *)

Tells(m) == m.kind \in {"load", "event"}
Latest(k) == Tells(down[k]) /\ \A j \in 1..Len(down) : Tells(down[j]) => j <= k

Loaded ==
  /\ status = "success" => view # None
  /\ ws = "none" /\ ~told => status # "success"
  /\ ws = "connecting" /\ ~hurried => status # "success"

LatestShown ==
  /\ \A k \in 1..Len(down) : link = "up" /\ Latest(k) => down[k].version = version
  /\ link = "up" /\ status = "success" /\ ~hurried /\ (\A k \in 1..Len(down) : ~Tells(down[k])) =>
       view = version

ViewInv == Loaded /\ LatestShown

SocketInv == TypeInv /\ OrderInv /\ CallsInv /\ LoadInv /\ ViewInv

LEMMA LoadedStep ==
  ASSUME TypeInv, Loaded, [Next]_vars
  PROVE  Loaded'
<1>1. CASE Sends
  <2>1. PICK kind \in RequestKinds :
          /\ (Written(Len(kinds) + 1) \/ Kept(Len(kinds) + 1)) /\ told' = TRUE /\ UNCHANGED view
          /\ hurried' = (hurried \/ (ws = "none" /\ told /\ status = "success"))
          /\ IF kind = "load" THEN status # "loading" /\ status' = "loading" ELSE UNCHANGED status
    BY <1>1, SendFactsAll
  <2>2. status' = "loading" \/ status' = status
    BY <2>1
  <2>3. ws' = "open" \/ (ws' = "connecting" /\ ws \in {"none", "connecting"})
    <3>1. ws \in {"none", "connecting", "open"}
      BY DEF TypeInv, StateType
    <3> QED
      BY <2>1, <3>1 DEF Written, Kept
  <2> QED
    BY <2>1, <2>2, <2>3 DEF Loaded, TypeInv, StateType
<1>2. CASE Opened
  BY <1>2, OpenedFacts DEF Loaded
<1>3. CASE Receive
  <2> DEFINE m == Head(down)
  <2>1. ws' = "open" /\ m.version \in Nat /\ (ToldEvent(m) \/ ToldAnswer(m) \/ ToldRefusal)
    BY <1>3, ReceiveFacts DEF MessageType
  <2> HIDE DEF m
  <2> QED
    BY <2>1, NoneAssumption DEF Loaded, ToldEvent, ToldAnswer, ToldRefusal
<1>4. CASE Handle \/ Lose \/ Change \/ (\E i \in Ids : Answer(i)) \/ Expire \/ UNCHANGED vars
  <2>1. UNCHANGED page
    BY <1>4 DEF Handle, Lose, Change, Answer, Expire, vars
  <2> QED
    BY <2>1 DEF page, Loaded
<1>5. CASE Timer \/ Focus
  BY <1>5, ReopenFacts DEF Loaded, TypeInv, StateType
<1>6. CASE Failed \/ Closed \/ (Update /\ ~Load)
  BY <1>6 DEF Failed, Closed, Update, Unload, Loaded, TypeInv, StateType
<1> QED
  BY <1>1, <1>2, <1>3, <1>4, <1>5, <1>6, Steps DEF Quietly

\* A message of the server: the latest, if it tells anything.
LEMMA LatestTell ==
  ASSUME TypeInv, LatestShown, NEW m \in MessageType, Tell(m) \/ (UNCHANGED down /\ ~Tells(m)),
         UNCHANGED <<status, hurried, view, link>>,
         IF Tells(m) THEN m.version = version' ELSE UNCHANGED version
  PROVE  LatestShown'
<1>1. CASE UNCHANGED <<down, version>>
  BY <1>1 DEF LatestShown, Latest, Tells
<1>2. CASE link # "up"
  BY <1>2 DEF LatestShown
<1>3. CASE link = "up" /\ Tell(m)
  <2>1. /\ Len(down) \in Nat /\ Len(down') = Len(down) + 1 /\ down'[Len(down) + 1] = m
        /\ \A k \in 1..Len(down) : down'[k] = down[k] /\ k \in 1..Len(down')
        /\ \A k \in 1..Len(down') : k \in 1..Len(down) \/ k = Len(down) + 1
        /\ Len(down) + 1 \in 1..Len(down')
    BY <1>3, AppendFacts DEF Tell, TypeInv, DownType
  <2>2. CASE Tells(m)
    <3>1. \A k \in 1..Len(down') : (\A j \in 1..Len(down') : Tells(down'[j]) => j <= k) => k = Len(down) + 1
      BY <2>1, <2>2
    <3> QED
      BY <2>1, <2>2, <3>1 DEF LatestShown, Latest, Tells
  <2>3. CASE ~Tells(m)
    <3>1. ASSUME NEW k \in 1..Len(down'), Tells(down'[k]), \A j \in 1..Len(down') : Tells(down'[j]) => j <= k
          PROVE  down'[k].version = version
      BY <1>3, <2>1, <2>3, <3>1 DEF LatestShown, Latest
    <3>2. (\A k \in 1..Len(down') : ~Tells(down'[k])) => \A k \in 1..Len(down) : ~Tells(down[k])
      BY <2>1
    <3> QED
      BY <1>3, <2>1, <2>3, <3>1, <3>2 DEF LatestShown, Latest, Tells
  <2> QED
    BY <2>2, <2>3
<1> QED
  BY <1>1, <1>2, <1>3

LEMMA LatestStep ==
  ASSUME TypeInv, LoadInv, ViewInv, [Next]_vars
  PROVE  LatestShown'
<1>1. CASE Sends /\ UNCHANGED server
  <2>1. /\ UNCHANGED <<view, down, link, version>> /\ (hurried => hurried')
        /\ (status' = "loading" \/ status' = status)
    BY <1>1, SendFactsAll DEF server
  <2> QED
    BY <2>1 DEF ViewInv, LatestShown, Latest, Tells
<1>2. CASE Opened
  <2>1. ws = "connecting" /\ UNCHANGED <<status, hurried>> /\ (link' # "up" \/ Len(down') = 0)
    BY <1>2, OpenedFacts
  <2> QED
    BY <2>1 DEF ViewInv, Loaded, LatestShown
<1>3. CASE Lose
  <2>1. link' # "up"
    BY <1>3 DEF Lose
  <2> QED
    BY <2>1 DEF LatestShown
<1>4. CASE Quietly
  <2>1. UNCHANGED <<view, down, version>> /\ (hurried => hurried')
        /\ (link' = link \/ link' = "none")
        /\ (status' = "success" => status = "success")
    BY <1>4 DEF Quietly, Timer, Focus, Open, Failed, Closed, Expire, Update, Unload, vars, page,
       net, server, TypeInv, StateType
  <2> QED
    BY <2>1 DEF ViewInv, LatestShown, Latest, Tells
<1>5. CASE Handle
  <2>1. Head(up) \in Nat /\ UNCHANGED <<status, hurried, view, link, version>>
    BY <1>5, HandleFacts DEF page, Ids
  <2> DEFINE a == Message("load", Head(up), version)
             b == Message("sent", Head(up), 0)
  <2>2. a \in MessageType /\ Tells(a) /\ a.version = version /\ b \in MessageType /\ ~Tells(b)
    BY <2>1 DEF Message, MessageType, Tells, TypeInv, StateType
  <2>3. Tell(a) \/ Tell(b) \/ UNCHANGED down
    BY <1>5, HandleFacts
  <2> HIDE DEF a, b
  <2> QED
    BY <2>1, <2>2, <2>3, LatestTell DEF ViewInv
<1>6. CASE Change
  <2> DEFINE m == Message("event", 0, version + 1)
  <2>1. m \in MessageType /\ Tells(m) /\ m.version = version'
    BY <1>6 DEF Change, Message, MessageType, Tells, TypeInv, StateType
  <2>2. Tell(m) /\ UNCHANGED <<status, hurried, view, link>>
    BY <1>6 DEF Change, page
  <2> QED
    BY <2>1, <2>2, LatestTell DEF ViewInv
<1>7. ASSUME NEW i \in Ids, Answer(i) PROVE LatestShown'
  <2> DEFINE m == Message("sent", i, 0)
  <2>1. m \in MessageType /\ ~Tells(m)
    BY DEF Message, MessageType, Tells, Ids
  <2>2. (Tell(m) \/ UNCHANGED down) /\ UNCHANGED <<status, hurried, view, link, version>>
    BY <1>7 DEF Answer, page
  <2> QED
    BY <2>1, <2>2, LatestTell DEF ViewInv
<1>8. CASE Receive
  <2>0. PICK m : m = Head(down)
    OBVIOUS
  <2>1. /\ down # <<>> /\ down' = Tail(down) /\ m \in MessageType /\ Known(m)
           /\ UNCHANGED <<link, version>>
        /\ ToldEvent(m) \/ ToldAnswer(m) \/ ToldRefusal
    BY <1>8, <2>0, ReceiveFacts DEF server
  <2>2. /\ m = down[1] /\ 1 \in 1..Len(down) /\ Len(down') = Len(down) - 1 /\ Len(down) \in Nat
        /\ \A k \in 1..(Len(down) - 1) : k + 1 \in 1..Len(down) /\ down'[k] = down[k + 1]
        /\ \A k \in 1..Len(down) : k = 1 \/ (k - 1 \in 1..(Len(down) - 1) /\ down'[k - 1] = down[k])
    <3>1. /\ m = down[1] /\ 1 \in 1..Len(down) /\ Len(down') = Len(down) - 1 /\ Len(down) \in Nat
          /\ \A k \in 1..(Len(down) - 1) : k + 1 \in 1..Len(down) /\ down'[k] = down[k + 1]
      BY <2>0, <2>1, TailFacts DEF TypeInv, DownType
    <3>2. ASSUME NEW k \in 1..Len(down), k # 1 PROVE k - 1 \in 1..(Len(down) - 1)
                 /\ down'[k - 1] = down[k]
      <4>1. k - 1 \in 1..(Len(down) - 1) /\ (k - 1) + 1 = k
        BY <3>1, <3>2
      <4> QED
        BY <3>1, <4>1
    <3> QED
      BY <3>1, <3>2
  <2>3. ASSUME NEW k \in 1..Len(down'), link = "up", Tells(down'[k]), \A j \in 1..Len(down') : Tells(down'[j]) => j <= k
        PROVE  down'[k].version = version
    <3>1. k + 1 \in 1..Len(down) /\ down'[k] = down[k + 1] /\ k \in Nat /\ 1 <= k + 1
      BY <2>2
    <3>2. ASSUME NEW j \in 1..Len(down), Tells(down[j]) PROVE j <= k + 1
      <4>1. CASE j = 1
        BY <3>1, <4>1
      <4>2. CASE j # 1
        <5>1. j - 1 <= k
          BY <2>2, <2>3, <3>2, <4>2
        <5> QED
          BY <3>1, <5>1
      <4> QED
        BY <4>1, <4>2
    <3>3. Latest(k + 1)
      BY <2>3, <3>1, <3>2 DEF Latest
    <3> QED
      BY <2>3, <3>1, <3>3 DEF ViewInv, LatestShown
  <2>4. ASSUME link = "up", status' = "success", ~hurried', \A k \in 1..Len(down') : ~Tells(down'[k])
        PROVE  view' = version
    <3>1. \A k \in 1..Len(down) : Tells(down[k]) => k = 1
      BY <2>2, <2>4
    <3>2. Tells(m) => m.version = version
      BY <2>2, <2>4, <3>1 DEF Latest, ViewInv, LatestShown
    <3>3. ~Tells(m) => \A k \in 1..Len(down) : ~Tells(down[k])
      BY <2>2, <3>1
    <3>4. CASE ToldEvent(m)
      <4>1. Tells(m) /\ status = "success"
        BY <2>4, <3>4 DEF ToldEvent, Tells
      <4> QED
        BY <3>2, <3>4, <4>1 DEF ToldEvent, ViewInv, Loaded
    <3>5. CASE ToldAnswer(m) /\ kinds[m.id] = "load"
      <4>1. m.kind = "load" /\ Tells(m)
        BY <2>1, <3>5 DEF ToldAnswer, Known, Tells
      <4>2. status = "loading" /\ LoadId = m.id
        BY <2>2, <3>5, TheLastLoad DEF ToldAnswer, LoadInv, Current
      <4> QED
        BY <3>2, <3>5, <4>1, <4>2 DEF ToldAnswer
    <3>6. CASE ToldAnswer(m) /\ kinds[m.id] # "load"
      <4>1. ~Tells(m) /\ UNCHANGED <<status, view, hurried>>
        BY <2>1, <3>6 DEF ToldAnswer, Known, Answers, Tells
      <4> QED
        BY <2>4, <3>3, <4>1 DEF ViewInv, LatestShown
    <3>7. CASE ToldRefusal
      BY <2>4, <3>7 DEF ToldRefusal
    <3> QED
      BY <2>1, <3>4, <3>5, <3>6, <3>7
  <2> QED
    BY <2>1, <2>3, <2>4 DEF LatestShown, Latest, Tells
<1> QED
  BY <1>1, <1>2, <1>3, <1>4, <1>5, <1>6, <1>7, <1>8, Steps

-----------------------------------------------------------------------------
LEMMA SocketInvInit == Init => SocketInv
<1> SUFFICES ASSUME Init PROVE SocketInv
  OBVIOUS
<1>1. /\ ws = "none" /\ told = FALSE /\ kinds = <<>> /\ queue = <<>> /\ waiting = {}
         /\ called = <<>>
      /\ status = "pending" /\ view = None /\ hurried = FALSE /\ link = "none" /\ up = <<>>
         /\ down = <<>>
      /\ version = 0 /\ pending = {} /\ handled = <<>>
  BY DEF Init
<1>2. TypeInv
  <2>1. StateType
    <3>1. kinds \in Seq(RequestKinds)
      BY <1>1
    <3>2. told \in BOOLEAN /\ hurried \in BOOLEAN
      BY Zenon DEF Init
    <3> QED
      BY <1>1, <3>1, <3>2 DEF StateType
  <2>2. AskedType
    BY <1>1 DEF AskedType, Requests
  <2>3. DownType
    BY <1>1 DEF DownType
  <2> QED
    BY <2>1, <2>2, <2>3 DEF TypeInv
<1>3. OrderInv /\ CallsInv
  BY <1>1 DEF OrderInv, Increasing, Before, CallsInv, CalledOnce, AnsweredOnce, AnswersNew,
     Uncalled, PendingRead
<1>4. LoadInv /\ ViewInv
  BY <1>1 DEF LoadInv, ViewInv, Loaded, LatestShown
<1> QED
  BY <1>2, <1>3, <1>4 DEF SocketInv

THEOREM SocketInvHolds == Spec => []SocketInv
<1>1. SocketInv /\ [Next]_vars => SocketInv'
  BY TypeStep, OrderStep, CallsStep, LoadStep, LoadedStep, LatestStep DEF SocketInv, ViewInv
<1> QED
  BY SocketInvInit, <1>1, PTL DEF Spec

(* Whatever is lost and opened again, the server reads no request twice,   *)
(* and the callback of a request that is answered at once is called once   *)
(* (Socket._dequeue empties the queue into one connection, and an answer   *)
(* or a refusal takes its requests out of Socket.waiting).                 *)
THEOREM NothingTwice == Spec => []Once
<1>1. SocketInv => Once
  <2> SUFFICES ASSUME SocketInv PROVE Once
    OBVIOUS
  <2>1. handled \in Seq(Nat) /\ called \in Seq(Nat)
    BY Asked DEF SocketInv
  <2>2. NoDuplicates(handled)
    <3>1. ASSUME NEW i \in 1..Len(handled), NEW j \in 1..Len(handled), handled[i] = handled[j] PROVE i = j
      <4>1. ~(i < j) /\ ~(j < i)
        BY <2>1, <3>1 DEF SocketInv, OrderInv, Increasing
      <4> QED
        BY <2>1, <4>1
    <3> QED
      BY <2>1, <3>1 DEF NoDuplicates
  <2>3. \A i, j \in DOMAIN called : called[i] = called[j] /\ kinds[called[i]] # "command" => i = j
    BY <2>1 DEF SocketInv, CallsInv, CalledOnce, AtOnce
  <2> QED
    BY <2>2, <2>3 DEF Once
<1> QED
  BY <1>1, SocketInvHolds, PTL

(* A loaded page to which nothing is under way shows the state of the      *)
(* server (User._onConnectionChange loads it again after every connection  *)
(* that was lost), unless it was opened before User heard of the close.    *)
THEOREM LoadedShowsState == Spec => []ShowsState
<1>1. SocketInv => ShowsState
  BY DEF SocketInv, ViewInv, LatestShown, ShowsState
<1> QED
  BY <1>1, SocketInvHolds, PTL
=============================================================================
