------------------------------ MODULE UserStore ------------------------------
(***************************************************************************)
(* The stores of one browser page: the conversations of a connection with  *)
(* their counters, the active conversation, the page that shows it and the *)
(* number of notifications in the title and the menu.                      *)
(*                                                                         *)
(* A conversation has two counters.  The model keeps the one that the title *)
(* adds up: "notifications" of a channel, "unread" of a private             *)
(* conversation.                                                            *)
(*                                                                         *)
(* The server keeps the counters too.  It tells the page of a message      *)
(* before it counts the message, it is told over HTTP that a conversation  *)
(* was read, and it sends its counters with the answer to "load", which    *)
(* overtakes the events that wait for the page.  The page replaces all     *)
(* conversation objects when it loads, so that whoever holds an object may *)
(* hold one that is no longer in the map: a reference is the id with what  *)
(* became of the object.                                                   *)
(*                                                                         *)
(* The update events of the stores come a millisecond after their cause:   *)
(* Render is that event.  The one of the socket is taken at once here; its *)
(* delay is the subject of BrowserSocket.                                  *)
(***************************************************************************)
EXTENDS Integers, Sequences, FiniteSetsExt

CONSTANTS
  Conversations, \* channels and private conversations
  Private,       \* the private ones
  Pages,         \* "notifications" and pages that show no conversation
  MaxChanges,    \* messages of other people, conversations opened and closed
  MaxLoads,      \* times the page loads
  MaxQueue,      \* events that wait for the page
  MaxPosts       \* "mark as read" requests under way when something else is done

ASSUME StoreAssumption ==
  /\ Private \subseteq Conversations
  /\ Conversations \cap (Pages \cup {"notifications", "cms"}) = {}
  /\ {MaxChanges, MaxLoads, MaxQueue, MaxPosts} \subseteq Nat

Targets == Conversations \cup Pages

VARIABLES
  kept,      \* the server's conversations with their counters
  counting,  \* the message that was told and not yet counted, if any
  events,    \* events that wait for the page
  posts,     \* "mark as read" requests under way
  open,      \* the WebSocket is open
  status,    \* status of the user object
  call,      \* the "load" request: "none", "asked" or "answered"
  snapshot,  \* what the answer says
  live,      \* the conversations of the page with their counters
  active,    \* user.activeConversation
  route,     \* what the address says
  shown,     \* what the page shows
  badge,     \* user.notifications.notifications
  debounce,  \* the count is due within 25 ms
  narrow,    \* the window has a single column
  focus,     \* the window has the focus
  stale,     \* conversations came or went since the last count
  listing,   \* the notifications page has asked for its list
  changes, loads

server == <<kept, counting, events>>
network == <<open, call, snapshot>>
counters == <<changes, loads>>

\* Bound: the window changes and the connection is lost only when little is under way,
\* "mark as read" requests and the list that precedes one.
Calm == Cardinality(posts) + (IF listing THEN 1 ELSE 0) <= MaxPosts

vars == <<kept, counting, events, posts, open, status, call, snapshot, live, active,
          route, shown, badge, debounce, narrow, focus, stale, listing, changes, loads>>

Live(c) == [id |-> c, kind |-> "live"]       \* the object in the map
Gone(c) == [id |-> c, kind |-> "gone"]       \* a new object, frozen: "Not found."
Removed(c) == [id |-> c, kind |-> "removed"] \* was in the map
Page(p) == [id |-> p, kind |-> "page"]

Post(c, own) == [conv |-> c, own |-> own]    \* own: of the object that is in the map

Without(f, c) == [d \in DOMAIN f \ {c} |-> f[d]]
With(f, c, n) == [d \in DOMAIN f \cup {c} |-> IF d = c THEN n ELSE f[d]]
\* A conversation that is there already keeps its counter.
Ensure(f, c)  == IF c \in DOMAIN f THEN f ELSE With(f, c, 0)

Init ==
  /\ kept = [c \in Conversations \ Private |-> 1]
  /\ counting = <<>> /\ events = <<>> /\ posts = {}
  /\ open = TRUE /\ status = "loading" /\ call = "asked" /\ snapshot = <<>>
  /\ live = <<>> /\ active = Page("notifications")
  /\ route \in Targets /\ shown = Page("cms")
  /\ badge = 0 /\ debounce = TRUE /\ narrow \in BOOLEAN /\ focus = TRUE /\ stale = FALSE
  /\ listing = FALSE
  /\ changes = 0 /\ loads = 0

-----------------------------------------------------------------------------
(* The server.                                                             *)

\* Events reach the page only while its WebSocket is open.
Tell(e) == events' = IF open THEN Append(events, e) ELSE events

Browser == <<posts, open, status, call, snapshot, live, active, route, shown, badge,
             debounce, narrow, listing, focus, stale, loads>>

\* A private message counts as unread, a highlight in a channel as a notification.
Counts(m) == m.highlight \/ m.conv \in Private

\* A message is sent to the page first; that it is a highlight makes no difference in
\* a private conversation ...
Emit(c, highlight) ==
  /\ counting = <<>> /\ changes < MaxChanges /\ Len(events) < MaxQueue
  /\ c \in DOMAIN kept \cup Private
  /\ kept' = Ensure(kept, c)
  /\ Tell([type |-> "message", conv |-> c, highlight |-> highlight])
  /\ counting' = <<[conv |-> c, highlight |-> highlight]>>
  /\ changes' = changes + 1 /\ UNCHANGED Browser

\* ... and counted afterwards.
Count ==
  /\ counting # <<>> /\ counting' = <<>>
  /\ LET m == counting[1]
     IN kept' = IF m.conv \in DOMAIN kept /\ Counts(m)
                  THEN [kept EXCEPT ![m.conv] = @ + 1] ELSE kept
  /\ UNCHANGED Browser /\ UNCHANGED <<events, changes>>

\* /join or /query, here or in another browser.
OpenConversation(c) ==
  /\ changes < MaxChanges /\ Len(events) < MaxQueue /\ changes' = changes + 1
  /\ c \in Private \/ c \notin DOMAIN kept
  /\ kept' = Ensure(kept, c)
  /\ Tell([type |-> "frozen", conv |-> c, unread |-> IF c \in Private THEN kept'[c] ELSE 0])
  /\ UNCHANGED Browser /\ UNCHANGED counting

\* /part, here or in another browser, or a kick.
CloseConversation(c) ==
  /\ changes < MaxChanges /\ Len(events) < MaxQueue /\ changes' = changes + 1
  /\ c \in DOMAIN kept /\ kept' = Without(kept, c)
  /\ Tell([type |-> "part", conv |-> c])
  /\ UNCHANGED Browser /\ UNCHANGED counting

-----------------------------------------------------------------------------
(* Conversation.markAsRead: the count of notifications is cleared here, and *)
(* there too unless the object still waits for an earlier request.          *)

Unnoted(f, ref) ==
  IF ref.kind = "live" /\ ref.id \notin Private THEN [f EXCEPT ![ref.id] = 0] ELSE f

Asked(ref) == posts \cup {Post(ref.id, ref.kind = "live")}

\* The page lets go of what it shows: only then its messages are no longer unread.
Left(f) ==
  IF shown.kind = "live" /\ shown.id \in Private THEN [f EXCEPT ![shown.id] = 0] ELSE f

Served(p) ==
  /\ p \in posts /\ posts' = posts \ {p} /\ p.conv \in Conversations
  /\ kept' = IF p.conv \in DOMAIN kept THEN [kept EXCEPT ![p.conv] = 0] ELSE kept
  /\ UNCHANGED <<counting, events, network, status, live, active, route, shown,
                 badge, debounce, narrow, listing, focus, stale, counters>>

Failed(p) ==
  /\ p \in posts /\ posts' = posts \ {p} /\ p.conv \in Conversations
  /\ UNCHANGED <<server, network, status, live, active, route, shown,
                 badge, debounce, narrow, listing, focus, stale, counters>>

\* The notifications page has its list, or the request for it has failed.  Wherever
\* the user is by now, it is marked as read: the number is cleared without a count.
NotificationsLoaded ==
  /\ listing /\ listing' = FALSE
  /\ badge' = 0
  /\ posts' = posts \cup {Post("notifications", TRUE)}
  /\ UNCHANGED <<server, network, status, live, active, route, shown, debounce, narrow,
                 focus, stale, counters>>

\* That request has its answer: whether it succeeded or not, every conversation's
\* count is cleared.
Cleared ==
  /\ Post("notifications", TRUE) \in posts
  /\ posts' = posts \ {Post("notifications", TRUE)}
  /\ live' = [c \in DOMAIN live |-> IF c \in Private THEN live[c] ELSE 0]
  /\ debounce' = (debounce \/ live # <<>>)
  /\ UNCHANGED <<server, network, status, active, route, shown, badge, narrow, listing,
                 focus, stale, counters>>

-----------------------------------------------------------------------------
(* Events.                                                                 *)

\* _maybeUpgradeActiveConversation: an object that appears becomes the active one
\* when its id is the active id.
Upgrade(c) == IF active.id = c THEN Live(c) ELSE active

Found(c) == IF c \in DOMAIN live THEN Live(c) ELSE Gone(c)

\* _maybeIncreaseUnread
Raised(e, n) == IF Counts(e) THEN n + 1 ELSE n

\* Faulty variant: a window with the focus has seen every conversation.
MessageSeen(e) ==
  LET c == e.conv
      ref == IF c \in DOMAIN live THEN active ELSE Upgrade(c)
      seen == e.highlight /\ c \notin Private /\ focus
      had == Ensure(live, c)[c]
  IN /\ live' = With(live, c, IF seen THEN 0 ELSE Raised(e, had))
     /\ active' = ref
     /\ posts' = IF seen THEN Asked(Live(c)) ELSE posts
     /\ debounce' = TRUE
     /\ UNCHANGED <<shown, stale>>

Message(e) ==
  LET c == e.conv
      ref == IF c \in DOMAIN live THEN active ELSE Upgrade(c)
      seen == e.highlight /\ c \notin Private /\ ref = Live(c) /\ focus
      had == Ensure(live, c)[c]
  IN /\ live' = With(live, c, IF seen THEN 0 ELSE Raised(e, had))
     /\ active' = ref
     /\ posts' = IF seen THEN Asked(Live(c)) ELSE posts
     /\ debounce' = TRUE
     /\ UNCHANGED <<shown, stale>>

Frozen(e) ==
  LET c == e.conv IN
  /\ IF c \in DOMAIN live
       THEN /\ live' = IF e.unread = 0 THEN live ELSE [live EXCEPT ![c] = e.unread]
            /\ debounce' = (debounce \/ e.unread > 0)
            /\ UNCHANGED <<active, stale>>
       ELSE /\ live' = With(live, c, e.unread)
            /\ active' = Upgrade(c)
            /\ stale' = TRUE /\ UNCHANGED debounce
  /\ UNCHANGED <<shown, posts>>

Part(e) ==
  LET c == e.conv IN
  /\ live' = Without(live, c)
  /\ active' = IF active = Live(c) THEN Gone(c) ELSE active
  /\ shown' = IF shown = Live(c) THEN Removed(c) ELSE shown
  /\ posts' = {IF p = Post(c, TRUE) THEN Post(c, FALSE) ELSE p : p \in posts}
  /\ stale' = TRUE /\ UNCHANGED debounce

\* The answer to "load" is written before the events that wait.
Deliver ==
  /\ open /\ events # <<>> /\ call # "answered"
  /\ events' = Tail(events)
  /\ LET e == Head(events) IN
       \/ e.type = "message" /\ Message(e)
       \/ e.type = "frozen" /\ Frozen(e)
       \/ e.type = "part" /\ Part(e)
  /\ UNCHANGED <<kept, counting, network, status, route, badge, narrow, listing, focus,
                 counters>>

-----------------------------------------------------------------------------
(* Loading.                                                                *)

Load == status' = "loading" /\ call' = "asked"

Answer ==
  /\ open /\ call = "asked" /\ call' = "answered" /\ snapshot' = kept
  /\ UNCHANGED <<server, posts, open, status, live, active, route, shown, badge,
                 debounce, narrow, listing, focus, stale, counters>>

Old(ref) == IF ref.kind = "live" THEN Removed(ref.id) ELSE ref

\* All objects are new.  The active conversation is replaced when it is listed, and
\* is left alone when it is not.
EnsureAll(list) ==
  /\ live' = list
  /\ active' = IF active.id \in DOMAIN list THEN Live(active.id) ELSE Old(active)

Loaded ==
  /\ open /\ call = "answered" /\ call' = "none" /\ snapshot' = <<>>
  /\ status' = "success"
  /\ EnsureAll(snapshot)
  /\ shown' = Old(shown)
  /\ posts' = {IF p.conv \in Conversations THEN Post(p.conv, FALSE) ELSE p : p \in posts}
  /\ UNCHANGED <<server, open, route, badge, debounce, narrow, listing, focus, stale,
                 counters>>

\* The session has expired.
Refused ==
  /\ open /\ call = "asked" /\ call' = "none" /\ status' = "error"
  /\ UNCHANGED <<server, posts, open, snapshot, live, active, route, shown, badge,
                 debounce, narrow, listing, focus, stale, counters>>

\* The connection is lost, and with it what was on the way.
Lost ==
  /\ open /\ Calm /\ loads < MaxLoads /\ open' = FALSE
  /\ events' = <<>> /\ call' = "none" /\ snapshot' = <<>>
  /\ status' = IF status \in {"error", "loading"} THEN status ELSE "pending"
  /\ UNCHANGED <<kept, counting, posts, live, active, route, shown, badge, debounce,
                 narrow, listing, focus, stale, counters>>

Reopened ==
  /\ ~open /\ open' = TRUE /\ loads' = loads + 1
  /\ IF status = "pending" THEN Load ELSE UNCHANGED <<status, call>>
  /\ UNCHANGED <<server, posts, snapshot, live, active, route, shown, badge, debounce,
                 narrow, listing, focus, stale, changes>>

-----------------------------------------------------------------------------
(* The page.                                                               *)

\* What App.svelte renders for the status and the address.
View == IF status = "success" THEN route ELSE "cms"

Mounted == shown.id \in Conversations

\* A store has changed what the page has to show.
Due ==
  IF View \in Conversations THEN ~Mounted \/ shown # active ELSE shown # Page(View)

\* Faulty variant: the counters change without an event.
RenderQuiet ==
  /\ Due
  /\ LET to == IF View \in Conversations
                 THEN IF Mounted THEN active ELSE Found(View)
                 ELSE Page(View)
     IN /\ shown' = to
        /\ live' = Unnoted(Left(live), to)
        /\ active' = IF to.kind = "page" THEN active ELSE to
        /\ posts' = IF to.id \in Conversations THEN Asked(to) ELSE posts
        /\ listing' = (listing \/ to.id = "notifications")
        /\ UNCHANGED debounce
  /\ UNCHANGED <<server, network, status, route, badge, narrow, focus, stale, counters>>

\* A new Chat component takes the conversation from the address, an old one takes
\* the active conversation.
Render ==
  /\ Due
  /\ LET to == IF View \in Conversations
                 THEN IF Mounted THEN active ELSE Found(View)
                 ELSE Page(View)
     IN /\ shown' = to
        /\ live' = Unnoted(Left(live), to)
        /\ active' = IF to.kind = "page" THEN active ELSE to
        /\ posts' = IF to.id \in Conversations THEN Asked(to) ELSE posts
        /\ listing' = (listing \/ to.id = "notifications")
        /\ debounce' = (debounce \/ "live" \in {shown.kind, to.kind})
  /\ UNCHANGED <<server, network, status, route, badge, narrow, focus, stale, counters>>

\* Faulty variant: a conversation that is not known is not made active.
GoKnown(target) ==
  /\ target # route /\ ~Due /\ Cardinality(posts) <= MaxPosts /\ route' = target
  /\ active' = IF status = "success" /\ Mounted /\ target \in DOMAIN live
                 THEN Live(target) ELSE active
  /\ UNCHANGED <<server, network, posts, status, live, shown, badge, debounce, narrow,
                 listing, focus, stale, counters>>

\* The user follows a link, also while the list of notifications is on its way.  A click
\* takes longer than a millisecond: the page is up to date.
Go(target) ==
  /\ target # route /\ ~Due /\ Cardinality(posts) <= MaxPosts /\ route' = target
  /\ active' = IF status = "success" /\ Mounted /\ target \in Conversations
                 THEN Found(target) ELSE active
  /\ UNCHANGED <<server, network, posts, status, live, shown, badge, debounce, narrow,
                 listing, focus, stale, counters>>

Blur ==
  /\ focus /\ Calm /\ focus' = FALSE
  /\ UNCHANGED <<server, network, posts, status, live, active, route, shown, badge,
                 debounce, narrow, listing, stale, counters>>

Focus ==
  /\ ~focus /\ Calm /\ focus' = TRUE
  /\ \/ /\ shown.kind = "live" \* the other counter may be above zero
        /\ live' = Unnoted(live, shown) /\ posts' = Asked(shown) /\ debounce' = TRUE
     \/ /\ shown.kind = "live" => live[shown.id] = 0
        /\ UNCHANGED <<live, posts, debounce>>
  /\ UNCHANGED <<server, network, status, active, route, shown, badge, narrow, listing,
                 stale, counters>>

Resize ==
  /\ Calm /\ narrow' = ~narrow /\ debounce' = TRUE
  /\ UNCHANGED <<server, network, posts, status, live, active, route, shown, badge,
                 listing, focus, stale, counters>>

\* The number in the title: private conversations count with all their messages in a
\* narrow window, where the menu is hidden.
Sum(f, all) == MapThenSumSet(LAMBDA c : IF c \in Private /\ ~all THEN 0 ELSE f[c], DOMAIN f)
Number == Sum(live, narrow)

Recount ==
  /\ debounce /\ debounce' = FALSE /\ badge' = Number /\ stale' = FALSE
  /\ UNCHANGED <<server, network, posts, status, live, active, route, shown, narrow,
                 listing, focus, counters>>

-----------------------------------------------------------------------------
Next ==
  \/ \E c \in Conversations :
       \/ \E highlight \in IF c \in Private THEN {FALSE} ELSE BOOLEAN : Emit(c, highlight)
       \/ OpenConversation(c) \/ CloseConversation(c)
  \/ Count
  \/ \E p \in posts : Served(p) \/ Failed(p)
  \/ NotificationsLoaded \/ Cleared
  \/ Deliver \/ Answer \/ Loaded \/ Refused \/ Lost \/ Reopened
  \/ Render \/ (\E target \in Targets : Go(target))
  \/ Blur \/ Focus \/ Resize \/ Recount

Spec == Init /\ [][Next]_vars

-----------------------------------------------------------------------------
(* Properties.                                                             *)

\* The active conversation, which decides whether a highlight counts as read, is the
\* object in the map whenever the map has one with its id (User.js 184-192), and what
\* the page shows is what the address says, and that object: after a load, a part and
\* a join, or a message that brings a conversation back, nobody keeps an object that
\* was thrown away (User.js 209-216, Chat.svelte 110-132).
PageFollowsRoute ==
  /\ active.id \in DOMAIN live => active.kind = "live"
  /\ status = "success" /\ route \in Conversations /\ ~Due =>
       /\ shown.id = route /\ active = shown
       /\ shown.kind = "live" <=> route \in DOMAIN live

\* With a conversation on the page, the number in the title is the sum of what the
\* conversations count as soon as no count is due, or it is the 0 of a notifications
\* page that was read and whose request has no answer yet.  The load replaces all
\* counters and says nothing, but the page that comes back afterwards marks its
\* conversation as read, which does; and who reads the notifications clears the
\* number at once, which is right when the answer has cleared the counters
\* (Notifications.svelte 19-22).  Conversations that come or go in between are not
\* counted until something else is (Connection.js 57-62).
BadgeExact ==
  shown.kind = "live" /\ ~Due /\ ~debounce /\ ~stale =>
    \/ badge = Number
    \/ badge = 0 /\ Post("notifications", TRUE) \in posts

\* A highlight the user has missed is forgotten only where its conversation is active
\* or on the page, by the notifications page, or with the object it was counted in
\* (User.js 184-193).
MissedIsKept ==
  [][\A c \in (DOMAIN live \cap DOMAIN live') \ Private :
       live'[c] < live[c] =>
         \/ c \in {active'.id, shown.id}
         \/ Post("notifications", TRUE) \in posts \ posts'
         \/ call = "answered"]_vars

=============================================================================
