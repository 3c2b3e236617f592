-------------------------- MODULE UserStoreProofs --------------------------
(***************************************************************************)
(* Theorems about the stores of a browser page (UserStore), for any number *)
(* of conversations, messages and loads.                                    *)
(***************************************************************************)
EXTENDS UserStore, TLAPS

-----------------------------------------------------------------------------
(* What is active and what is shown. *)

(* The object that is active is the one in the map if there is one, what   *)
(* is shown of the map is in it, and as long as a conversation is on the   *)
(* page, the active one is that of the address.                             *)
Refs == [id : Targets \cup {"notifications", "cms"}, kind : {"live", "gone", "removed", "page"}]

ReferencesInv ==
  /\ active \in Refs /\ shown \in Refs /\ route \in Targets
  /\ active.id \in DOMAIN live <=> active.kind = "live"
  /\ shown.kind = "live" => shown.id \in DOMAIN live
  /\ Mounted /\ route \in Conversations => active.id = route

LEMMA UnchangedNumber == UNCHANGED <<live, narrow>> => Number' = Number
BY DEF Number

LEMMA MarkedDomain ==
  ASSUME NEW ref
  PROVE  /\ DOMAIN Unnoted(live, ref) = DOMAIN live
         /\ DOMAIN Unnoted(Left(live), ref) = DOMAIN live
BY DEF Unnoted, Left

LEMMA ReferencesInit == Init => ReferencesInv
BY StoreAssumption DEF Init, ReferencesInv, Refs, Page, Mounted

LEMMA ReferencesStep == ReferencesInv /\ [Next]_vars => ReferencesInv'
<1> SUFFICES ASSUME ReferencesInv, [Next]_vars PROVE ReferencesInv'
  OBVIOUS
<1> USE DEF ReferencesInv, Refs, Mounted
<1>1. ASSUME NEW e, Message(e), UNCHANGED route PROVE ReferencesInv'
  BY <1>1 DEF Message, With, Upgrade, Live
<1>2. ASSUME NEW e, Frozen(e), UNCHANGED route PROVE ReferencesInv'
  BY <1>2 DEF Frozen, With, Upgrade, Live
<1>3. ASSUME NEW e, Part(e), UNCHANGED route PROVE ReferencesInv'
  BY <1>3 DEF Part, Live, Gone, Removed, Without
<1>4. CASE Loaded
  BY <1>4 DEF Loaded, EnsureAll, Old, Live, Removed
<1>5. CASE Render
  BY <1>5, StoreAssumption, MarkedDomain DEF Render, Due, View, Found, Live, Gone, Page
<1>6. ASSUME NEW target \in Targets, Go(target) PROVE ReferencesInv'
  BY <1>6, StoreAssumption DEF Go, Due, View, Found, Live, Gone, Page, network
<1>7. CASE Cleared
  BY <1>7 DEF Cleared
<1>8. CASE Focus
  BY <1>8, MarkedDomain DEF Focus
<1>9. CASE Deliver
  BY <1>1, <1>2, <1>3, <1>9 DEF Deliver
<1>10. CASE UNCHANGED <<live, active, shown, route>>
  BY <1>10
<1> HIDE DEF ReferencesInv, Refs
<1> QED
  BY <1>4, <1>5, <1>6, <1>7, <1>8, <1>9, <1>10
     DEF Next, Emit, OpenConversation, CloseConversation, Count, Served, Failed, NotificationsLoaded,
         Answer, Refused, Lost, Reopened, Blur, Resize, Recount, Browser, vars

(* Whatever comes and goes, nobody keeps an object that was thrown away,   *)
(* and the page shows the conversation of the address.                      *)
THEOREM PageIsRoute == Spec => []PageFollowsRoute
<1>1. ReferencesInv => PageFollowsRoute
  BY DEF ReferencesInv, PageFollowsRoute, Due, View, Mounted
<1> QED
  BY ReferencesInit, ReferencesStep, <1>1, PTL DEF Spec
-----------------------------------------------------------------------------
(* Counters. *)

Counters(f) == \A c \in DOMAIN f : f[c] \in Nat

\* An event that freezes a channel carries no counter.
EventType ==
  [type : {"message"}, conv : Conversations, highlight : BOOLEAN]
    \cup [type : {"part"}, conv : Conversations]
    \cup {e \in [type : {"frozen"}, conv : Conversations, unread : Nat] :
            e.conv \notin Private => e.unread = 0}

CountersInv ==
  /\ Counters(kept) /\ Counters(snapshot) /\ Counters(live)
  /\ events \in Seq(EventType)

(* The number in the title is right or cleared, or a count is due, or       *)
(* conversations came and went; only a load replaces counters without a     *)
(* count, and takes the conversation from the page until it is shown again. *)
Cleaned == badge = 0 /\ Post("notifications", TRUE) \in posts

BadgeInv ==
  /\ ReferencesInv /\ CountersInv
  /\ shown.kind = "live" /\ ~debounce /\ ~stale => badge = Number \/ Cleaned

LEMMA WithCounters ==
  ASSUME NEW f, Counters(f), NEW c, NEW n \in Nat
  PROVE  Counters(With(f, c, n))
BY DEF With, Counters

LEMMA EnsureCounters ==
  ASSUME NEW f, Counters(f), NEW c
  PROVE  Counters(Ensure(f, c)) /\ Ensure(f, c)[c] \in Nat
BY DEF With, Ensure, Counters

LEMMA CountersInit == Init => CountersInv
<1> SUFFICES ASSUME Init PROVE CountersInv
  OBVIOUS
<1>1. Counters(kept) /\ Counters(snapshot) /\ Counters(live)
  BY DEF Init, Counters
<1>2. events \in Seq(EventType)
  BY DEF Init
<1> QED
  BY <1>1, <1>2 DEF CountersInv

LEMMA TellType ==
  ASSUME CountersInv, NEW e \in EventType, Tell(e)
  PROVE  events' \in Seq(EventType)
BY DEF CountersInv, Tell

LEMMA CountersStep == CountersInv /\ [Next]_vars => CountersInv'
<1> SUFFICES ASSUME CountersInv, [Next]_vars PROVE CountersInv'
  OBVIOUS
<1> USE DEF CountersInv
<1>1. ASSUME NEW c \in Conversations, NEW highlight \in BOOLEAN, Emit(c, highlight) PROVE CountersInv'
  <2>1. [type |-> "message", conv |-> c, highlight |-> highlight] \in EventType
    BY DEF EventType
  <2>2. events' \in Seq(EventType) /\ Counters(kept')
    BY <1>1, <2>1, TellType, EnsureCounters DEF Emit
  <2> QED
    BY <1>1, <2>2 DEF Emit, Browser
<1>2. ASSUME NEW c \in Conversations, OpenConversation(c) PROVE CountersInv'
  <2>1. kept' = Ensure(kept, c) /\ Counters(kept') /\ kept'[c] \in Nat
    BY <1>2, EnsureCounters DEF OpenConversation
  <2>2. [type |-> "frozen", conv |-> c, unread |-> IF c \in Private THEN kept'[c] ELSE 0] \in EventType
    BY <2>1 DEF EventType
  <2>3. events' \in Seq(EventType)
    BY <1>2, <2>2, TellType DEF OpenConversation
  <2> QED
    BY <1>2, <2>1, <2>3 DEF OpenConversation, Browser
<1>3. ASSUME NEW c \in Conversations, CloseConversation(c) PROVE CountersInv'
  <2>1. [type |-> "part", conv |-> c] \in EventType
    BY DEF EventType
  <2>2. events' \in Seq(EventType) /\ Counters(kept')
    BY <1>3, <2>1, TellType DEF CloseConversation, Without, Counters
  <2> QED
    BY <1>3, <2>2 DEF CloseConversation, Browser
<1>4. CASE Count
  BY <1>4 DEF Count, Browser, Counters
<1>5. ASSUME NEW p, Served(p) PROVE CountersInv'
  BY <1>5 DEF Served, Counters, network
<1>6. CASE Cleared
  BY <1>6 DEF Cleared, Counters, server, network
<1>7. CASE Deliver
  <2> DEFINE e == Head(events)
  <2>1. e \in EventType /\ events' \in Seq(EventType)
    BY <1>7 DEF Deliver
  <2> HIDE DEF e
  <2>2. CASE Message(e)
    <3>1. /\ Ensure(live, e.conv)[e.conv] \in Nat
          /\ Raised(e, Ensure(live, e.conv)[e.conv]) \in Nat
      BY EnsureCounters DEF Raised
    <3>2. Counters(live')
      BY <2>2, <3>1, WithCounters DEF Message
    <3> QED
      BY <1>7, <2>1, <3>2 DEF Deliver, network
  <2>3. CASE e.type = "frozen" /\ Frozen(e)
    <3>1. e.unread \in Nat
      BY <2>1, <2>3 DEF EventType
    <3>2. Counters(live')
      BY <2>3, <3>1, WithCounters DEF Frozen, Counters
    <3> QED
      BY <1>7, <2>1, <3>2 DEF Deliver, network
  <2>4. CASE Part(e)
    BY <1>7, <2>1, <2>4 DEF Deliver, Part, Without, Counters, network
  <2> QED
    BY <1>7, <2>2, <2>3, <2>4 DEF Deliver, e
<1>8. CASE Answer
  BY <1>8 DEF Answer, server
<1>9. CASE Loaded
  BY <1>9 DEF Loaded, EnsureAll, server, Counters
<1>10. CASE Lost
  BY <1>10 DEF Lost, Counters
<1>11. CASE Render
  BY <1>11 DEF Render, Unnoted, Left, Counters, server, network
<1>12. CASE Focus
  BY <1>12 DEF Focus, Unnoted, Counters, server, network
<1>13. CASE UNCHANGED <<kept, snapshot, live, events>>
  BY <1>13
<1> HIDE DEF CountersInv
<1> QED
  BY <1>1, <1>2, <1>3, <1>4, <1>5, <1>6, <1>7, <1>8, <1>9, <1>10, <1>11, <1>12, <1>13
     DEF Next, Failed, NotificationsLoaded, Refused, Reopened, Go, Blur, Resize, Recount, server,
         network, vars

LEMMA BadgeInvStep == BadgeInv /\ [Next]_vars => BadgeInv'
<1> SUFFICES ASSUME BadgeInv, [Next]_vars, (shown.kind = "live" /\ ~debounce /\ ~stale)'
             PROVE  badge' = Number' \/ Cleaned'
  BY ReferencesStep, CountersStep DEF BadgeInv
<1>1. ASSUME UNCHANGED <<shown, badge, live, narrow>>, ~debounce, ~stale,
             Post("notifications", TRUE) \in posts => Post("notifications", TRUE) \in posts'
      PROVE  badge' = Number' \/ Cleaned'
  BY <1>1, UnchangedNumber DEF BadgeInv, Cleaned
<1>2. CASE Cleared
  <2>1. shown.kind = "live" /\ live = <<>>
    BY <1>2 DEF Cleared
  <2>2. DOMAIN live = {}
    BY <2>1
  <2> QED
    BY <2>1, <2>2 DEF BadgeInv, ReferencesInv
<1>3. CASE Deliver
  <2> DEFINE e == Head(events)
  <2>1. e \in EventType
    BY <1>3 DEF Deliver, BadgeInv, CountersInv
  <2> HIDE DEF e
  <2>2. CASE e.type = "frozen" /\ Frozen(e)
    <3>1. e.unread \in Nat
      BY <2>1, <2>2 DEF EventType
    <3>2. UNCHANGED <<shown, live, posts>> /\ ~debounce /\ ~stale
      <4>1. UNCHANGED <<shown, posts>> /\ e.conv \in DOMAIN live
        BY <2>2 DEF Frozen
      <4>2. stale' = stale /\ debounce' = (debounce \/ e.unread > 0)
        BY <2>2, <4>1 DEF Frozen
      <4>3. ~(e.unread > 0) /\ ~debounce
        BY <4>2
      <4>4. e.unread = 0
        BY <3>1, <4>3
      <4> QED
        BY <2>2, <4>1, <4>2, <4>3, <4>4 DEF Frozen
    <3> QED
      BY <1>1, <1>3, <3>1, <3>2 DEF Deliver
  <2> QED
    BY <1>3, <2>2 DEF Deliver, e, Message, Part
<1>4. CASE Loaded
  BY <1>4 DEF Loaded, Old, Removed
<1>5. CASE Render
  BY <1>5 DEF Render
<1>6. CASE Focus
  <2>1. UNCHANGED <<live, posts, debounce>> /\ UNCHANGED <<shown, badge, narrow, stale>>
    BY <1>6 DEF Focus
  <2> QED
    BY <1>1, <2>1
<1>7. CASE Resize
  BY <1>7 DEF Resize
<1>8. CASE Recount
  BY <1>8, UnchangedNumber DEF Recount
<1>9. CASE NotificationsLoaded
  BY <1>9 DEF NotificationsLoaded, Cleaned
<1>10. ASSUME NEW p, Served(p) \/ Failed(p) PROVE badge' = Number' \/ Cleaned'
  <2>1. p.conv \in Conversations /\ posts' = posts \ {p}
    BY <1>10 DEF Served, Failed
  <2>2. Post("notifications", TRUE).conv \notin Conversations
    BY StoreAssumption DEF Post
  <2>3. p # Post("notifications", TRUE)
    BY <2>1, <2>2
  <2>4. UNCHANGED <<shown, badge, live, narrow, debounce, stale>>
    BY <1>10 DEF Served, Failed
  <2> QED
    BY <1>1, <2>1, <2>3, <2>4
<1>11. CASE UNCHANGED <<shown, badge, live, narrow, debounce, stale, posts>>
  BY <1>1, <1>11
<1> QED
  BY <1>2, <1>3, <1>4, <1>5, <1>6, <1>7, <1>8, <1>9, <1>10, <1>11
     DEF Next, Emit, OpenConversation, CloseConversation, Count, Answer, Refused,
         Lost, Reopened, Go, Blur, Browser, server, network, vars

(* The number in the title is what the conversations count, or cleared     *)
(* until the reading of the notifications has its answer.                   *)
THEOREM BadgeIsExact == Spec => []BadgeExact
<1>1. Init => BadgeInv
  BY ReferencesInit, CountersInit DEF Init, BadgeInv
<1>2. BadgeInv => BadgeExact
  BY DEF BadgeInv, BadgeExact, Cleaned
<1> QED
  BY <1>1, BadgeInvStep, <1>2, PTL DEF Spec

\* What makes a counter go down.
Forgets ==
  \A c \in (DOMAIN live \cap DOMAIN live') \ Private :
    live'[c] < live[c] =>
      \/ c \in {active'.id, shown.id}
      \/ Post("notifications", TRUE) \in posts \ posts'
      \/ call = "answered"

LEMMA ForgetsStep == CountersInv /\ ReferencesInv /\ [Next]_vars => Forgets
<1> SUFFICES ASSUME CountersInv, ReferencesInv, [Next]_vars,
                    NEW c \in (DOMAIN live \cap DOMAIN live') \ Private, live'[c] < live[c]
             PROVE  \/ c \in {active'.id, shown.id}
                    \/ Post("notifications", TRUE) \in posts \ posts'
                    \/ call = "answered"
  BY DEF Forgets
<1>1. live[c] \in Nat /\ live' # live
  BY DEF CountersInv, Counters
<1>2. CASE Cleared
  BY <1>2 DEF Cleared
<1>3. CASE Deliver
  <2> DEFINE e == Head(events)
  <2>1. e \in EventType
    BY <1>3 DEF Deliver, CountersInv
  <2> HIDE DEF e
  <2>2. CASE Message(e)
    <3>1. CASE c # e.conv
      BY <1>1, <2>2, <3>1 DEF Message, With
    <3>2. CASE c = e.conv
      <4>1. e.conv \in DOMAIN live /\ Ensure(live, e.conv)[e.conv] = live[c]
        BY <3>2 DEF Ensure
      <4>2. Raised(e, live[c]) >= live[c]
        BY <1>1 DEF Raised
      <4> QED
        <5> DEFINE ref  == IF e.conv \in DOMAIN live THEN active ELSE Upgrade(e.conv)
                   seen == e.highlight /\ e.conv \notin Private /\ ref = Live(e.conv) /\ focus
        <5>1. live'[c] = (IF seen THEN 0 ELSE Raised(e, live[c])) /\ active' = ref
          BY <2>2, <3>2, <4>1 DEF Message, With
        <5>2. seen
          BY <1>1, <4>2, <5>1 DEF Raised
        <5>3. active' = Live(c)
          BY <3>2, <5>1, <5>2
        <5>4. active'.id = c
          BY <5>3 DEF Live
        <5> QED
          BY <5>4
    <3> QED
      BY <3>1, <3>2
  <2>3. CASE e.type = "frozen" /\ Frozen(e)
    <3>1. e.conv \notin Private => e.unread = 0
      BY <2>1, <2>3 DEF EventType
    <3> QED
      BY <1>1, <2>3, <3>1 DEF Frozen, With
  <2>4. CASE Part(e)
    BY <1>1, <2>4 DEF Part, Without
  <2> QED
    BY <1>3, <2>2, <2>3, <2>4 DEF Deliver, e
<1>4. CASE Loaded
  BY <1>4 DEF Loaded
<1>5. CASE Render
  <2> DEFINE to == IF View \in Conversations THEN IF Mounted THEN active ELSE Found(View)
                   ELSE Page(View)
  <2>1. live' = Unnoted(Left(live), to) /\ active' = IF to.kind = "page" THEN active ELSE to
    BY <1>5 DEF Render
  <2> HIDE DEF to
  <2>2. c = shown.id \/ Left(live)[c] = live[c]
    BY DEF Left
  <2>3. DOMAIN Left(live) = DOMAIN live
    BY DEF Left
  <2>4. (to.kind = "live" /\ to.id = c) \/ Unnoted(Left(live), to)[c] = Left(live)[c]
    BY <2>3 DEF Unnoted
  <2>5. ~(live[c] < live[c])
    BY <1>1
  <2>6. c # shown.id => to.kind = "live" /\ to.id = c
    BY <2>1, <2>2, <2>4, <2>5
  <2>7. to.kind = "live" => active' = to
    BY <2>1
  <2> QED
    BY <2>6, <2>7
<1>6. CASE Focus
  <2>1. c = shown.id \/ Unnoted(live, shown)[c] = live[c]
    BY DEF Unnoted
  <2>2. live' = Unnoted(live, shown)
    BY <1>1, <1>6 DEF Focus
  <2>3. ~(live[c] < live[c])
    BY <1>1
  <2> QED
    BY <2>1, <2>2, <2>3
<1> QED
  BY <1>1, <1>2, <1>3, <1>4, <1>5, <1>6
     DEF Next, Emit, OpenConversation, CloseConversation, Count, Served, Failed, NotificationsLoaded,
         Answer, Refused, Lost, Reopened, Go, Blur, Resize, Recount, Browser, server, network, vars

(* A counter goes down only where the user may have seen what it counts.   *)
THEOREM MissedStays == Spec => MissedIsKept
<1>1. CountersInv /\ ReferencesInv /\ [Next]_vars => [Forgets]_vars
  BY ForgetsStep
<1>2. Spec => [][Forgets]_vars
  BY CountersInit, CountersStep, ReferencesInit, ReferencesStep, <1>1, PTL DEF Spec
<1> QED
  BY <1>2 DEF MissedIsKept, Forgets
=============================================================================
