------------------------------- MODULE History -------------------------------
(***************************************************************************)
(* The messages of one conversation on the chat page: Conversation.load,   *)
(* Messages, the scrolling of InfinityScroll.svelte and chatHelpers.js, the *)
(* server that answers with pages of its log (pkg/storage/file.go), and the *)
(* events that announce new messages meanwhile.                            *)
(*                                                                         *)
(* A message is its number in the log; what the log knows of it is the     *)
(* second it was sent in.  A notice of the page itself is number 0.        *)
(***************************************************************************)
EXTENDS Naturals, Sequences, FiniteSets, SequencesExt

CONSTANTS
  PageSize,    \* Conversation.load asks for 40
  Year,        \* the server looks back this far from the cursor, in seconds
  Screen,      \* fewer messages than this do not fill the page
  MaxOld, MaxMessages, MaxNow, MaxNotices  \* bounds

ASSUME SizeAssumption == {PageSize, Year, Screen} \subseteq Nat \ {0, 1}
ASSUME BoundAssumption == {MaxMessages, MaxNow, MaxNotices} \subseteq Nat /\ MaxOld \in Nat \ {0}

VARIABLES
  now, log,   \* log[n]: the second of message n, once it is saved
  sent,       \* the seconds of all messages whose events were sent
  wire,       \* events on their way to the page
  active,     \* the conversation is on the page
  status, shown, start, stop,  \* Conversation.status, messages, historyStartAt, historyStopAt
  call,       \* the request of Conversation.load and its answer
  view,       \* the message at the upper edge, 0 at the bottom
  kept,       \* InfinityScroll state.scrollTop
  hash,       \* Route.hash
  settling,   \* state.scrollTid is set
  held,       \* scrollTo() was called less than 500 ms ago
  missed,     \* messages the last full load did not bring and no event will
  late,       \* messages it was past though their event was still on its way
  jumped      \* the list was loaded from a link into the past

server == <<now, log, sent>>
store  == <<status, shown, start, stop, call, missed, late, jumped>>
scroll == <<view, kept, hash, settling, held>>
historyVars == <<server, wire, active, store, scroll>>

Saved     == 1..Len(log)
NoCall    == [kind |-> "none", at |-> 0]
Listed    == ToSet(shown) \ {0}
First     == shown[Min({i \in DOMAIN shown : shown[i] # 0})]
Notices(s) == [i \in 1..Cardinality({k \in DOMAIN s : s[k] = 0}) |-> 0]

-----------------------------------------------------------------------------
(* The server. *)

(* A message of the IRC server: its event goes out, then it is saved.       *)
Emit ==
  /\ Len(sent) = Len(log) /\ Len(sent) < MaxMessages
  /\ sent' = Append(sent, now)
  /\ wire' = Append(wire, Len(sent) + 1)
  /\ UNCHANGED <<now, log, active, store, scroll>>

Save ==
  /\ Len(log) < Len(sent)
  /\ log' = sent
  /\ UNCHANGED <<now, sent, wire, active, store, scroll>>

Tick ==
  /\ now < MaxNow
  /\ now' = now + 1
  /\ UNCHANGED <<log, sent, wire, active, store, scroll>>

(* LoadMessages with a cursor: the last messages that are older than it, but *)
(* not by a year.                                                           *)
Window(at) == {n \in Saved : log[n] < at /\ log[n] + Year > at}

(* A log is chronological: what is read backwards from its end is without   *)
(* gaps, and stops at the size of the page or the year.                     *)
PageEnd(at) == Max(Window(at) \cup {0})
InReach(at) == {n \in Window(at) : PageEnd(at) < n + PageSize}
Page(at) ==
  LET begin == Min(InReach(at) \cup {PageEnd(at) + 1}) IN
  [i \in 1..(PageEnd(at) + 1 - begin) |-> begin + i - 1]

(* MessageResult.End: there is nothing beyond the page. *)
End(at) == Window(at) = InReach(at)

Serve ==
  /\ call.kind \in {"around", "before"}
  /\ \E ok \in BOOLEAN :
       call' = [kind |-> "answer", before |-> call.kind = "before", ok |-> ok,
                page |-> IF ok THEN Page(call.at) ELSE <<>>,
                end  |-> IF ok THEN End(call.at) ELSE TRUE]
  /\ UNCHANGED <<server, wire, active, status, shown, start, stop, missed, late, jumped, scroll>>

-----------------------------------------------------------------------------
(* Conversation and Messages. *)

(* Faulty variant: a list that ends now is complete. *)
SkipAtStop(kind, found) == status = "loading" \/ (shown # <<>> /\ stop)

(* _skipLoad; found: a message of the list has the timestamp asked for.     *)
Skip(kind, found) ==
  \/ status = "loading"
  \/ shown = <<>> /\ status = "success"
  \/ shown # <<>> /\ kind = "around" /\ found
  \/ shown # <<>> /\ kind = "before" /\ start

Load(kind, at, found) ==
  IF Skip(kind, found)
    THEN UNCHANGED <<status, call>>
    ELSE status' = "loading" /\ call' = [kind |-> kind, at |-> at]

Clamp(v, list) == IF v \in ToSet(list) THEN v ELSE 0

(* The height of the list changed: InfinityScroll scrolls to the message of *)
(* the hash, if it is there, or without a hash to the bottom.               *)
Refit(list) ==
  IF active /\ (hash = 0 \/ hash \in ToSet(list))
    THEN view' = hash /\ kept' = hash /\ held' = TRUE /\ UNCHANGED <<hash, settling>>
    ELSE view' = Clamp(view, list) /\ UNCHANGED <<kept, hash, settling, held>>

(* Faulty variant: every page goes to the end of the list. *)
FilledPush == shown \o call.page

(* load: an older page goes before what is there, any other page replaces   *)
(* all but the notices.                                                     *)
Filled == IF call.before THEN call.page \o shown ELSE call.page \o Notices(shown)

(* _setEndOfStream; the server never sets body.after for these requests.    *)
EndOfStream ==
  /\ stop' = (stop \/ ~call.before \/ Len(call.page) <= 1)
  /\ start' = (call.end \/ Len(call.page) <= 1)

(* The rest of load, once the answer is there. *)
Answered ==
  /\ call.kind = "answer"
  /\ status' = IF call.ok THEN "success" ELSE "error"
  /\ shown' = Filled
  /\ EndOfStream
  /\ call' = NoCall
  /\ IF call.before
       THEN UNCHANGED <<missed, late>>
       ELSE LET end == IF call.page = <<>> THEN 0 ELSE Last(call.page) IN
            /\ missed' = ((end + 1)..Len(sent)) \ ToSet(wire)
            /\ late'   = (1..end) \cap ToSet(wire)
  /\ Refit(Filled)
  /\ UNCHANGED <<server, wire, active, jumped>>

(* addMessages of an event: nothing is kept before the list was loaded.     *)
Deliver ==
  /\ wire # <<>>
  /\ wire' = Tail(wire)
  /\ shown' = IF stop THEN Append(shown, Head(wire)) ELSE shown
  /\ IF stop THEN Refit(shown') ELSE UNCHANGED scroll
  /\ UNCHANGED <<server, active, status, start, stop, call, missed, late, jumped>>

(* addMessages of a notice, such as "Connected.". *)
Notice ==
  /\ Len(Notices(shown)) < MaxNotices
  /\ shown' = Append(shown, 0)
  /\ Refit(shown')
  /\ UNCHANGED <<server, wire, active, status, start, stop, call, missed, late, jumped>>

-----------------------------------------------------------------------------
(* Chat.svelte. *)

(* setConversationFromUser: a link loads around its timestamp, else a list  *)
(* that is not at the end loads around the time of the browser.             *)
Open ==
  /\ ~active /\ active' = TRUE
  /\ \/ /\ hash' = 0
        /\ IF stop THEN UNCHANGED <<status, call>> ELSE Load("around", now, FALSE)
        /\ UNCHANGED jumped
     \/ \E n \in Saved :
          /\ hash' = n
          /\ Load("around", log[n], n \in ToSet(shown))
          /\ jumped' = (jumped \/ call' # call)
  /\ view' = Clamp(hash', shown) /\ kept' = view'
  /\ held' = (view' = hash') /\ settling' = FALSE
  /\ UNCHANGED <<server, wire, shown, start, stop, missed, late>>

Leave ==
  /\ active /\ active' = FALSE
  /\ UNCHANGED <<server, wire, store, scroll>>

(* User.load: a new conversation takes the place of the old one, with a new *)
(* connection, and Chat.svelte loads it when it is on the page, around the  *)
(* message that is read.  What the old one asked for comes to nothing.      *)
Reload ==
  /\ wire' = <<>> /\ shown' = <<>> /\ start' = FALSE /\ stop' = FALSE
  /\ missed' = {} /\ late' = {}
  /\ IF active
       THEN /\ status' = "loading"
            /\ call' = [kind |-> "around", at |-> IF hash = 0 THEN now ELSE sent[hash]]
       ELSE status' = "pending" /\ call' = NoCall
  /\ jumped' = (active /\ hash # 0)
  /\ view' = 0 /\ kept' = 0 /\ held' = FALSE /\ settling' = FALSE
  /\ UNCHANGED <<server, active, hash>>

(* onInfinityVisibility: without a scrollbar older messages are loaded.     *)
Fill ==
  /\ active /\ Listed # {} /\ Len(shown) < Screen
  /\ ~Skip("before", FALSE)
  /\ Load("before", sent[First], FALSE)
  /\ UNCHANGED <<server, wire, active, shown, start, stop, missed, late, jumped, scroll>>

-----------------------------------------------------------------------------
(* InfinityScroll.svelte and onInfinityScrolled. *)

(* calculateDetails: the position "top". *)
AtTop == Listed # {} /\ view = First

(* The user scrolls; onScroll starts a timer. *)
Scroll ==
  /\ active
  /\ \E n \in (Listed \cup {0}) \ {view} : view' = n
  /\ settling' = TRUE
  /\ UNCHANGED <<server, wire, active, store, kept, hash, held>>

(* onScrolled within 500 ms of scrollTo takes the movement back.            *)
Undo ==
  /\ settling /\ held
  /\ settling' = FALSE /\ view' = Clamp(kept, shown)
  /\ UNCHANGED <<server, wire, active, store, kept, hash, held>>

(* Faulty variant: the hash is only set in the middle of the list. *)
ScrolledMiddle ==
  /\ settling /\ ~held
  /\ settling' = FALSE /\ kept' = view
  /\ hash' = IF AtTop THEN hash ELSE view
  /\ IF AtTop
       THEN Load("before", sent[view], FALSE)
       ELSE UNCHANGED <<status, call>>
  /\ UNCHANGED <<server, wire, active, shown, start, stop, missed, late, jumped, view, held>>

(* At the top older messages are loaded; the hash names what is read, or     *)
(* nothing at the end of the list.                                          *)
Scrolled ==
  /\ settling /\ ~held
  /\ settling' = FALSE /\ kept' = view
  /\ hash' = IF Listed = {} THEN hash ELSE view
  /\ IF AtTop
       THEN Load("before", sent[view], FALSE)
       ELSE UNCHANGED <<status, call>>
  /\ UNCHANGED <<server, wire, active, shown, start, stop, missed, late, jumped, view, held>>

(* 500 ms go by. *)
Release ==
  /\ held /\ held' = FALSE
  /\ UNCHANGED <<server, wire, active, store, view, kept, hash, settling>>

-----------------------------------------------------------------------------
HistoryInit ==
  /\ now = MaxNow - 1
  /\ log \in [1..MaxOld -> 1..now] /\ log[1] = 1
  /\ \A i, j \in DOMAIN log : i <= j => log[i] <= log[j]
  /\ sent = log /\ wire = <<>>
  /\ active = FALSE /\ status = "pending" /\ shown = <<>> /\ start = FALSE /\ stop = FALSE
  /\ call = NoCall /\ missed = {} /\ late = {} /\ jumped = FALSE
  /\ view = 0 /\ kept = 0 /\ hash = 0 /\ settling = FALSE /\ held = FALSE

HistoryNext ==
  \/ Emit \/ Save \/ Tick \/ Serve
  \/ Answered \/ Deliver \/ Notice
  \/ Open \/ Leave \/ Reload \/ Fill
  \/ Scroll \/ Undo \/ Scrolled \/ Release

(* The server answers, the page renders, its timers fire and the user stays *)
(* or comes back to scroll up.                                              *)
Fairness ==
  /\ WF_historyVars(Serve) /\ WF_historyVars(Answered) /\ WF_historyVars(Fill)
  /\ WF_historyVars(Undo) /\ WF_historyVars(Scrolled) /\ WF_historyVars(Release)

HistorySpec == HistoryInit /\ [][HistoryNext]_historyVars /\ Fairness

-----------------------------------------------------------------------------
(* A list that was not loaded from a link is a piece of the log: of two     *)
(* messages that follow each other in it, the second is the next of the     *)
(* log, or those between them were missed by the load, or they share the    *)
(* second at which an older page ended.  No message is there twice unless   *)
(* its event came after the page that had it.  When the page says that the  *)
(* list starts there and nothing failed, an older message was missed by the *)
(* load, is of the same second, or more than a year old.                    *)
Follows(i, j) ==
  /\ i < j /\ shown[i] # 0 /\ shown[j] # 0
  /\ \A k \in (i + 1)..(j - 1) : shown[k] = 0

Piece ==
  ~jumped =>
    /\ start /\ status = "success" /\ Listed # {} =>
         \A n \in Saved : n < First =>
           n \in missed \/ sent[n] = sent[First] \/ sent[n] + Year <= now
    /\ \A i, j \in DOMAIN shown : Follows(i, j) =>
         \/ shown[i] < shown[j]
            /\ \A n \in (shown[i] + 1)..(shown[j] - 1) : n \in missed \/ sent[n] = sent[shown[j]]
         \/ shown[j] \in late
    /\ \A i, j \in DOMAIN shown : i # j /\ shown[i] = shown[j] /\ shown[i] # 0 => shown[i] \in late

(* Who reads older messages is not moved by what arrives: once a movement   *)
(* has settled, only the reader changes what is at the upper edge.          *)
NotMoved ==
  [][view # 0 /\ ~settling /\ hash \in ToSet(shown') /\ active /\ active'
       => view' = view \/ settling']_historyVars

(* A page that is not full is filled until the start of the history, unless *)
(* a request fails.                                                         *)
FillsUp ==
  []<>(active /\ status = "success" /\ Listed # {} /\ ~jumped => start \/ Len(shown) >= Screen)

==============================================================================
