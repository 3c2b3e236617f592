----------------------------- MODULE Navigation -----------------------------
(***************************************************************************)
(* Which page the browser shows: store/Route.js, the redirects of          *)
(* App.svelte and page/Login.svelte, the list of visited pages and the     *)
(* "lastUrl" of store/User.js, both kept in localStorage, and partConver-  *)
(* sation of components/ConversationSettings.svelte.                        *)
(*                                                                         *)
(* A change of the route or of the user is seen one millisecond later,     *)
(* when Svelte renders; the redirects run then.                             *)
(***************************************************************************)
EXTENDS Lists, SequencesExt

CONSTANTS
  Chats, Nowhere,   \* conversations; the page of no conversation
  First,            \* the conversation a user comes to who has not been anywhere
  MaxHistory,       \* 10
  MaxMoves          \* bound: what the user and the network do

ASSUME NavigationAssumption ==
  /\ First \in Chats /\ Nowhere \notin Chats
  /\ (Chats \cup {Nowhere}) \cap {"login", "register", "root", "elsewhere"} = {}
  /\ MaxHistory \in Nat \ {0, 1} /\ MaxMoves \in Nat

VARIABLES
  stack, at,         \* window.history and the place in it
  history,           \* route.history, the last page is the latest
  status, email,     \* of the user; email says only whether there is one
  lastUrl,           \* user.lastUrl
  session,           \* the cookie is good
  view,              \* what is rendered: "fallback", "page", "inner" or "outer"
  dirty,             \* who has an update event under way
  parting,           \* the answer to a /part is to come, for the page it was sent from
  moves,
  strayed,           \* the user went to a page for guests while another was not yet rendered
  left               \* the conversation that was parted, if nothing happened since

window  == <<stack, at>>
person == <<status, email, session>>
routeVars == <<window, history, person, lastUrl, view, dirty, parting, moves, strayed, left>>

Guest    == {"login", "register"}
\* "elsewhere" stands for every other page: the settings, /chat and so on.
Pages    == Chats \cup Guest \cup {"root", "elsewhere"}
location == stack[at]
Start    == IF lastUrl # Nowhere THEN lastUrl ELSE First
Move     == moves < MaxMoves /\ moves' = moves + 1
Fresh    == left' = Nowhere

\* The pages of a list that are not url: a recursive function, about which
\* something can be proved.
Without(list, url) == Filtered(list, {i \in DOMAIN list : list[i] # url})

AddToHistory(list, url) ==
  LET all == Append(Without(list, url), url) IN
  SubSeq(all, IF Len(all) > MaxHistory THEN Len(all) - MaxHistory + 1 ELSE 1, Len(all))

\* Faulty variant: what is parted is kept.
KeepInHistory(list, url) == list

RemoveFromHistory(list, url) == Without(list, url)

(* go: both the page left and the page entered are noted, whether or not   *)
(* the former is replaced.                                                  *)
Go(list, url, replace) ==
  IF url = location THEN history' = list /\ UNCHANGED window
  ELSE /\ history' = AddToHistory(AddToHistory(list, location), url)
       /\ at' = IF replace THEN at ELSE at + 1
       /\ stack' = Append(SubSeq(stack, 1, at' - 1), url)

Moved ==
  /\ dirty' = dirty \cup (IF location' # location THEN {"route"} ELSE {})
  /\ strayed' = (strayed \/ (email /\ location' \in Guest /\ ~(view = "page" /\ status = "success")))

\* The page is loaded, and with it a user nobody knows yet.  To go back to
\* an earlier document is to load that page.
Loads(url) ==
  /\ stack' = <<url>> /\ at' = 1 /\ history' = AddToHistory(history, url)
  /\ status' = "pending" /\ email' = FALSE
  /\ view' = "fallback" /\ dirty' = {"route", "user"} /\ parting' = Nowhere

NavigationInit ==
  /\ \E p \in Pages : stack = <<p>> /\ history = <<p>>
  /\ at = 1 /\ status = "pending" /\ email = FALSE
  /\ lastUrl \in Chats \cup {Nowhere} /\ session \in BOOLEAN
  /\ view = "fallback" /\ dirty = {"route", "user"} /\ parting = Nowhere
  /\ moves = 0 /\ strayed = FALSE /\ left = Nowhere

-----------------------------------------------------------------------------
(* The user. *)

\* A link of the page, a click on a notification, the echo of /join.
Click(url) ==
  /\ url \in IF view \in {"page", "inner"} THEN Chats \cup {"elsewhere"}
             ELSE IF view = "outer" THEN Guest ELSE Chats
  /\ Move /\ Fresh /\ Go(history, url, FALSE) /\ Moved
  /\ UNCHANGED <<person, lastUrl, view, parting>>

Traverse(to) ==
  /\ to \in DOMAIN stack \ {at} /\ Move /\ Fresh /\ at' = to /\ UNCHANGED stack
  /\ history' = AddToHistory(history, location')
  /\ Moved /\ UNCHANGED <<person, lastUrl, view, parting>>

Type(url) ==
  /\ Move /\ Fresh /\ Loads(url) /\ UNCHANGED <<session, lastUrl, strayed>>

Logout ==
  /\ view \in {"page", "inner"} /\ Move /\ Fresh /\ session' = FALSE
  /\ Loads("root") /\ UNCHANGED <<lastUrl, strayed>>

(* submitForm, when the server has accepted what the form says.  That the  *)
(* "old value is forgotten" is an update of the route, which has no such    *)
(* property.                                                                *)
SubmitForm ==
  /\ view = "outer" /\ status = "error" /\ Move
  /\ session' = TRUE /\ status' = "loading" /\ dirty' = dirty \cup {"user"}
  /\ left' = Nowhere
  /\ UNCHANGED <<window, history, email, lastUrl, view, parting, strayed>>

Load ==
  /\ status = "pending" /\ status' = "loading" /\ dirty' = dirty \cup {"user"}
  /\ UNCHANGED <<window, history, email, session, lastUrl, view, parting, moves, strayed, left>>

Loaded ==
  /\ status = "loading" /\ dirty' = dirty \cup {"user"}
  /\ email' = session /\ status' = IF session THEN "success" ELSE "error"
  /\ UNCHANGED <<window, history, session, lastUrl, view, parting, moves, strayed, left>>

(* The socket closes: the user is pending until it is open again.           *)
Closed ==
  /\ status = "success" /\ Move /\ status' = "pending" /\ dirty' = dirty \cup {"user"}
  /\ strayed' = (strayed \/ location \in Guest)
  /\ UNCHANGED <<window, history, email, session, lastUrl, view, parting, left>>

-----------------------------------------------------------------------------
(* ConversationSettings.svelte. *)

Part ==
  /\ view = "page" /\ location \in Chats /\ parting = Nowhere /\ Move /\ Fresh
  /\ parting' = location
  /\ UNCHANGED <<window, history, person, lastUrl, view, dirty, strayed>>

(* The answer is about whatever is open by then.                            *)
Parted ==
  /\ parting # Nowhere /\ parting' = Nowhere
  /\ LET list == RemoveFromHistory(history, location)
         url  == IF list = <<>> THEN "elsewhere" ELSE Last(list) IN
     /\ Go(list, url, FALSE) /\ Moved
     /\ left' = IF location = parting /\ url \notin Guest \cup {"root"} THEN parting ELSE Nowhere
  /\ UNCHANGED <<person, lastUrl, view, moves>>

-----------------------------------------------------------------------------
(* Rendering. *)

View ==
  IF status \in {"pending", "loading"} THEN "fallback"
  ELSE IF ~email THEN "outer" ELSE IF location \in Guest THEN "inner" ELSE "page"

\* Faulty variant: a page that is created does not redirect.
RedirectOnUpdate(r) == View = "inner" /\ view = "inner" /\ r = "user"

(* redirect of Login.svelte runs when the component is created and for     *)
(* every update of the user; routeOrUserChanged comes after it, and looks at*)
(* the address as it is then.                                               *)
Redirect(r) == View = "inner" /\ (view # "inner" \/ r = "user")

Rendered(r) ==
  /\ r \in dirty /\ view' = View
  /\ LET url == IF Redirect(r) THEN Start
                ELSE IF location # "root" THEN location
                ELSE IF email THEN (IF lastUrl # Nowhere THEN lastUrl ELSE "elsewhere")
                ELSE "login" IN
     /\ Go(history, url, TRUE)
     /\ lastUrl' = IF email /\ location' # "root" /\ (location # "root" \/ Redirect(r))
                     THEN location' ELSE lastUrl
  /\ dirty' = (dirty \ {r}) \cup (IF location' # location THEN {"route"} ELSE {})
                            \cup (IF lastUrl' # lastUrl THEN {"user"} ELSE {})
  /\ UNCHANGED <<person, parting, moves, strayed, left>>

-----------------------------------------------------------------------------
NavigationNext ==
  \/ \E url \in Pages : Click(url) \/ Type(url)
  \/ \E to \in DOMAIN stack : Traverse(to)
  \/ Logout \/ SubmitForm \/ Load \/ Loaded \/ Closed \/ Part \/ Parted
  \/ \E r \in {"route", "user"} : Rendered(r)

NavigationSpec == NavigationInit /\ [][NavigationNext]_routeVars

-----------------------------------------------------------------------------
Calm == dirty = {} /\ status \in {"success", "error"}

(* A user who is signed in comes away from the pages for guests and from    *)
(* the root, unless he went to one of them while nothing else was rendered:  *)
(* that is then where he was last (Login.svelte:25-30 and App.svelte:100-106).       *)
LeavesEntry == Calm /\ email /\ ~strayed => location \notin Guest \cup {"root"}

(* Who has parted is not brought back to what he parted, if the page before *)
(* it was none that redirects (ConversationSettings.svelte:40-47).           *)
PartLeaves == left # Nowhere => location # left
=============================================================================
