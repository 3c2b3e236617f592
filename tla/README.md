# TLA+ models of Convos

Convos is an IRC client that runs on a server for many users and shows each of
them, in any number of browsers, what his IRC connections received. The server is
written in Go (`pkg/`, `cmd/`), the browser part in JavaScript and Svelte
(`assets/`). This directory holds TLA+ specifications of the parts where
goroutines, sockets, pages, timers and crashes meet, TLC configurations that check
them on small instances, and TLAPS proofs of the properties that matter most.

`tlc -config X.cfg MCModule` runs a check and `tlapm XProofs.tla` checks the
proofs of a module. `PROJECT.json` maps every definition to the lines it models,
and lists the runs, the faulty variants each property detects, the hazards, the
disagreements between code and documentation, and the theorems.

Contents: 1 the system, 2 the plan and what became of it, 3 the modules and the
code, 4 what the runs show, 5 what is proved, 6 disagreements and known
behaviours, 7 what is not modelled.

## 1. The system

### Components, state and operations

| Component | Code | State | Operations | Module |
|---|---|---|---|---|
| IRC connection lifecycle | `pkg/irc/connection.go`, `commands.go` | state, wanted state, client, stop channel of the reconnect loop | Connect, Disconnect, callbacks, reconnectLoop | `IrcLifecycle` |
| Event delivery | `pkg/core/events.go`, `pkg/server/events.go` | subscriptions, one bounded channel each | EmitUser, SubscribeUser, Close, WebSocket handler | `EventStream` |
| Message rosters | `pkg/irc/handlers.go`, `store/Participants.js` | participants, namesBuffer, the browser's list | JOIN, PART, QUIT, KICK, NICK, 353, 366 | `Roster` |
| File storage | `pkg/storage/file.go` | a directory per user and connection, logs, uploads | Save*, Load*, Delete* | `Store`; logs in `History`, uploads in `Files` |
| Browser socket | `js/Socket.js`, `store/User.js` | queue, waiting callbacks, ready state | send, open, close, message, load | `BrowserSocket` |
| HTTP operations | `store/Operation.js`, `js/Api.js`, `form/Button.svelte` | promise, status, lock of the button | perform, reset, error | `Operation`, `SingleFlight` |
| Browser stores | `store/User.js`, `Connection.js`, `Conversation.js`, `Notifications.js` | conversations, counters, active conversation | events, load, mark as read, recount | `UserStore` |
| Message history | `store/Conversation.js`, `Messages.js`, `InfinityScroll.svelte` | list, its two ends, scroll position | load, push, unshift, scroll | `History` |
| Rendering of messages | `store/Messages.js`, `page/Chat.svelte` | cache of cards, cells | render, expand, load embed | `Embeds` |
| Chat input | `ChatInput.svelte`, `CommandHistory.js`, `Reactive.js` | text, draft, menu, history | keys, completion, send, upload | `ChatInput` |
| Notifications | `js/Notify.js`, `templates/sw.js`, `handlers_push.go` | permission, subscription, registration | subscribe, unsubscribe, show, push | `Notify` |
| Navigation and sessions | `store/Route.js`, `App.svelte`, `Login.svelte` | two histories, lastUrl, status of the user | go, back, login, logout, part | `Navigation` |
| Main menu | `MainMenu.svelte` | filter, visible links, active link | keys, focus, blur | `Menu` |
| Channel settings | `ConversationSettings.svelte`, `Conversation.js` | checkboxes, known modes | tick, save, events | `Modes` |
| Connection form | `ConnectionForm.svelte`, `handlers_connection.go` | list, form, requests, files | add, save, delete, load | `ConnectionForm` |
| Uploaded files | `SettingsFiles.svelte`, `handlers_file.go` | rows, ticks, disk | load, tick, delete | `Files` |
| Texts and algorithms | `I18N.js`, `autocomplete.js`, `commands.js`, `util.js` | none | md, fillIn, normalizeCommand, findVisibleElements | `Markdown`, `Completion`, `CommandWords`, `Utilities` |
| Pending IRC requests | `pkg/irc/waiters.go` | waiters, whois buffers, LIST cache | commands, numeric replies | waiter of /names in `Roster` |
| Nick repair, users and registration, profiles, bot, HTTP routing, authentication, embeds of the server, i18n, daemon, generated API | see `PROJECT.json` | little, or not modelled | requests | none |

### How they interact

* Every IRC connection has a goroutine of the ircevent library that reads the
  socket and calls the handlers one after the other. Dials, `reconnectLoop` and
  user commands run in goroutines of their own. They share the connection under
  `Connection.mu` and `BaseConnection.mu`, which are released around every call
  that blocks.
* A handler changes the state in memory (conversation, participants, counters),
  emits an event to the user and may save. `EmitUser` copies the event into the
  channel of each WebSocket, and skips it when the channel is full.
* The WebSocket handler forwards events and answers requests of the browser
  (`load`, `send`, `ping`). A browser that connects loads everything and then
  follows the events; the two overlap.
* In the page, stores derive from `Reactive`: a change is announced one
  millisecond later, all changes of that millisecond at once, and Svelte renders
  then. Whatever happens in between sees a store that has changed and a page that
  has not. Requests over HTTP are `Operation`s, whose answers find a page that may
  show something else by then.
* Storage serialises all writes with one mutex; an object is marshalled under
  it, at the time of the save and not of the change.

### What is hard

On the server: dials in flight when the user changes his mind; callbacks of an old
client after the new one was started; timers that race with channels that are
closed; channels that are closed while others send on them; snapshots written
between the events they overlap; replies matched by nick or channel; lost sessions
in the middle of a reply; crashes in the middle of a write; saves after a deletion.
In the page: answers, events and timers in any order; objects that were replaced
while somebody holds them; components that outlive their page; two histories that
have to agree; two tellers (page and service worker) of which one has to tell.
`PROJECT.json` lists them at their lines under `hazards`, with the properties that
cover them.

### What makes each component correct

* Lifecycle: one session at most; the shown state is true; a lost session is
  replaced; Disconnect is final.
* Events: nobody sends on a closed channel; a browser shows the true state when
  nothing is under way; a slow browser holds up nobody.
* Rosters: when nothing is under way the roster, and the list the browser shows,
  are the members of the channel.
* Storage: files are complete, contain every change that is saved and the ones before
  it, and do not go back.
* Socket: each request is read once and answered once; the page shows the state.
* Operation: a success is true, a form is not swallowed, every call is answered.
* Stores: the page shows the object the address names; the badge is right; a missed
  highlight is not forgotten.
* History: the list is a piece of the log, and its reader is not moved.
* Chat input: no draft is lost and nothing is sent to the wrong conversation.
* Page: told once; two histories without dead ends; lists that are true.

## 2. The plan and what became of it

Written, in the order of how much depends on them: `IrcLifecycle`, `EventStream`,
`Roster`, `Store`, `BrowserSocket` (server and connection); `History`, `UserStore`,
`Operation` with its abstract specification `SingleFlight`, `ChatInput` (the stores
of the page and what somebody writes); `Notify`, `Files`, `Modes`, `Navigation`,
`Embeds`, `Menu`, `ConnectionForm`, and the algorithms (`Markdown`, `Completion`,
`Utilities` in `Algorithms`), put beside each other by `Frontend`.

`Navigation`, `Menu`, `Embeds`, `Modes`, `Files`, `ConnectionForm` and `Notify`
share no state: no step of one can be seen by another. `Frontend` says so by letting
one of them move in a behaviour, so that one run checks all of them at the cost of
their sum and not of their product.

Open, in this order: `Requests` (the waiters of /whois, /mode, /ignore and LIST
between two browsers and a slow IRC server); `Accounts` (registration, first
administrator, removal); `Locks` (the nested read locks of `ToData`); the monthly
files of a log; `NickRepair`; `SplitMessage`; `Bot`. Every invariant the runs check is
proved (section 5); worth proving next is that `Store` implements a register which
only moves to newer values.

## 3. The modules and the code

**IrcLifecycle.** `Procs` are goroutines: the ones commands start, `reconnectLoop`,
`Start`. `pc` says which blocking call or lock a goroutine is in front of; between
two such points the code holds `Connection.mu` or touches nothing shared, so each
action is one critical section: `ConnectBegin` is `Connect` up to the unlock in front
of the dial, `DialOk` and `DialFail` its return, `DisconnectBegin` and
`DisconnectEnd` the two halves of `Disconnect` around QUIT, `LoopQueue`,
`LoopStopped`, `LoopTimer`, `LoopCheck` the turns of `reconnectLoop`. `stop` and
`closed` are the channel in `Connection.stopReconnect` and the channels that are
closed; `Disconnect` leaves a channel behind that is closed from the start. `sock`
is the ircevent library, which is outside the repository: each client object dials,
is up, registers, goes down and then runs the disconnect callback once. `asked`
records which commands were given and is only read by properties. `reconnectLoop`
waits two seconds or more in a `select`; when the channel is closed already the
`select` takes it, so `LoopTimer` has the guard that it is open.

**EventStream.** A goroutine changes the state, takes the read lock of
`EventEmitter.mu`, looks at each subscription of the user under its `closedMu` and
sends without blocking. A WebSocket handler subscribes (write lock), answers "load",
forwards events, returns for any reason, and closes its subscription in three steps:
flag, removal from the map, close of the channel. The write lock is modelled as
`sync.RWMutex` works: a waiting writer keeps new readers out. The state is a number
of changes, so that "shows the state" is `view[s] = version`.

**Roster.** `members` and `joined` are the truth at the IRC server; `wire` carries
its messages in order, `outbox` the commands of Convos. Each handler of
`handlers.go` is one action on `roster` (`Conversation.participants`), `names`
(`namesBuffer`), `waiter` (`namesWaiters`) and `open` (the conversation exists), and
emits one event into `feed`. `See` is what the browser's `Connection` and
`Conversation` do with each event. A lost session empties both wires and keeps
`names`, `waiter` and `roster`, as the disconnect callback does. `ignored` is chosen
at the start: `handleJoin`, `handlePart` and `handleNick` return early for ignored
senders, `handleQuit` and `handleKick` do not.

**Store.** Values are two fields that count changes: `restored` stands for what
`Initialize` and `loadConnections` take over (state, name, url, conversations...),
`other` for what they do not (highlight keywords of a user, unread counters of a
conversation). A writer changes an object (`Change`), marshals it under
`FileBackend.mu`, truncates the swap file, fills it, and renames it. `ChangeOnly` is a
change of the connection after which nobody saves: a topic (`handlers.go:415`, `:436`),
what the server tells of itself (`:908`, `:914`, `:928`, `connection.go:280`), a
conversation that is opened for the JOIN of somebody else, a NAMES reply, a notice or an
entry of the server's log (`handlers.go:202`, `:606`, `:863`, `connection.go:534`), and
what /connect and /disconnect want (`commands.go:57`, `:65`). The ghost `owed` is how
often an object had been changed at its last change that is to be saved. `RemoveConnection` takes the object out of
the maps, `Delete` removes its directory file by file. A crash stops all
goroutines between any two steps; what was written stays. Disk errors are left out.

**BrowserSocket.** `ws` is `Socket.ws`, `link` the connection below it: a link can
be dead for a while before the page hears of it, and what is written then is lost.
`told` is the update event that `Reactive` delivers a millisecond after its cause;
`Update` is `User._onConnectionChange`, which looks at the state of the socket when
the event comes. `Opened`, `Closed`, `Failed` and `Receive` are the four callbacks
of the WebSocket; `Refused` is the error without an id that answers all that waits.
`Handle` is `handleWSMessage`; a command is answered later, over whatever
connection there is then, or never. `hurried` marks that the socket was opened again
before `User` heard that it was closed.

**History.** A message is its number in the log; the log knows its second. `Emit`
and `Save` are the two halves of `handleMessage`; the answer is one page of
`LoadMessages` with its cursor (`around` is treated as `before`, and both are
strict). `Load`, `Skip`, `Filled` and `EndOfStream` are `Conversation.load` and its
helpers, `Deliver` is `addMessages`. `view` is the message at the upper edge; `kept`,
`settling` and `held` are the state of `InfinityScroll`, whose timers are `Undo`,
`Scrolled` and `Release`. Ghost variables record what a load could not bring
(`missed`), what it brought before its event (`late`), and a list that was loaded
from a link into the past (`jumped`).

**UserStore.** A reference to a conversation is its id with what became of the
object: in the map, removed, or made anew because nobody knew the id. `Message`,
`Frozen` and `Part` are what `Connection` and `User` do with an event, `Loaded`
replaces all objects, `Render` is the page after an update event, `Recount` the
count that is due 25 ms later. The server counts a message after it told of it. The
notifications page asks for its list when it is mounted (`listing`) and goes on when the
list has come, wherever the user is by then: `NotificationsLoaded` sets the number in the
title to 0 (`Conversation.js:124`, which starts no count) and sends the request;
`Cleared` is its answer, which clears the counters and starts a count.

**Operation.** One `Operation` with its promise, the specification it may have to
fetch first, the XMLHttpRequest and a `Button` with its 500 ms lock. `Faults` names
what the network can do; the run has none, see section 6. `SingleFlight` is what
callers may rely on: one request at a time, whoever calls meanwhile joins it, and
all are answered together. `Flight` of `Operation` maps `params` to the flight and
`waiting` to those who wait.

**ChatInput.** A text is a sequence of words that know where they were typed. Every
visit of the chat page mounts a new component; an upload answers to the component
that started it, also when that is gone (`dead`). `left` and `cut` are ghosts: the
text somebody left in a conversation, and the conversations whose draft the code
overwrites (section 6). `Store` is the delayed write to localStorage.
`CommandWords` says what `normalizeCommand` makes of the first word.

**Notify.** A message comes over the socket to the page and as a push to the
worker. `subscribeToPush` and `unsubscribeFromPush` run in slots, one step per
`await`; two can run at a time, or one not to its end, which `crossed` records.
**Files**: the list, the ticks, and a server that takes the joined ids for the name
of one file; `old` marks an answer that was written before the disk changed, and
`strained` a page that cannot be right before its next load. **Modes**: the panel is one component that is given another channel;
`known` is `conversation.modes`, `down` carries answers and events in order.
**Navigation**: the browser's history and `route.history`, the redirects at the next
rendering, the session and `lastUrl`. **Embeds**: one cache of cards for all
conversations; a card is a piece of the document and can be in one row only; cells
are reused by number, and `RenderEmbed` says at once what rendering them one by one
leaves behind: the card in the cell that comes last, the others hidden. **Menu**: `filterNav` sees the links as they were before the
key. **ConnectionForm**: requests and their answers between the form, the list, the
table, the map in memory and the files; a click on "Delete" sends two requests.

**Algorithms.** An input grows by one element at a time, and the properties compare
what `md`, the completion and `findVisibleElements` make of it with what they are
meant to make of it. What recurs or loops in the code is a recursive function here,
because one can be reasoned about: `MakeTag` is `_makeTag` as a function of the text,
the rule that is tried and the tags around it; `Search` is the loop of
`findVisibleElements`, one turn per application of `Halved`; and `Lists` has
`Array.filter`, by the positions it keeps, which `Navigation` and `Menu` use as well.
`CommandWords` is shared with `ChatInput`.

The modules compose by what they assume of each other: `Roster` takes an event feed
that keeps the order and loses nothing, which is `EventStream` for one emitting
goroutine and no full buffer; `BrowserSocket` takes a handler that answers in order,
and its `version` and `view` are those of `EventStream` seen from the page;
`UserStore` and `History` take from `BrowserSocket` that a new connection loads
again; the requests of `Files`, `Modes` and `ConnectionForm` are single flights.

## 4. What the runs show

Every property of a passing run has a faulty variant of the code which it detects
(`mutants` in `PROJECT.json`); they stand in the modules as "Faulty variant".

| Run | Question | Bounds | States | Outcome |
|---|---|---|---|---|
| `lifecycle` | no loop that cannot be stopped, one session and a true state, Disconnect is final, a lost session comes back | 3 goroutines, 2 clients, 4 channels, 2 commands of the 5 | 57,125 | holds |
| `lifecycle_giveup` | does a wanted connection that was lost come back | same, `start` and `connect` only | - | violated |
| `stream` | no send on a closed channel, true state, no blocked emitter | 1 emitter, 2 WebSockets, buffer of 1, 2 changes | 81,689 | holds |
| `roster` | the backend's and the browser's roster are the members | 2 people, 3 nicks, 2 changes, 1 lost session, 2 joins, one person may be ignored | 1,462,230 | holds |
| `store_saves` | complete files, nothing lost, nothing older | 2 writers, 3 changes, saved or not, 2 crashes | 1,389,866 | holds |
| `socket` | each request once, true state, the queue drains | 2 requests, 2 losses, 1 change | 170,955 | holds |
| `history` | a piece of the log, a reader is not moved, a page is filled | pages of 2, 3 old messages and 1 new, 4 seconds, a year of 3, 1 notice | 425,302 | holds |
| `userstore` | the page follows the address, the badge, missed highlights | 1 channel, 1 private conversation, 2 changes, 1 reload, 1 waiting event | 2,666,925 | holds |
| `operation` | true success, no swallowed form, answers, a single flight | 2 forms, 1 page, 3 values of which 1 is invalid | 1,786 | holds |
| `input` | no draft is lost, nothing is sent elsewhere | 2 conversations, 5 acts, texts of 2 words, the commands /part and /close, 2 visits, 1 upload, network faults | 1,316,258 | holds |
| `frontend` | 13 properties of the parts of the page, see below | 2 of a kind, 3 to 6 acts; texts of 5 characters, lists of 6 heights | 2,012,349 | holds |
| `deleted` | does what was deleted stay away | as `frontend` | - | violated |

`frontend` asks, part by part: is a message told once (`ToldOnce`) and do page, browser
and server agree about a subscription (`AllAgree`); does the list of files say what is on
disk (`ListIsTrue`); does saving the settings of a channel change only what was ticked
(`OwnChangesOnly`); does somebody who is signed in come away from the pages for guests
(`LeavesEntry`), and parting a conversation none that leads back to it (`PartLeaves`); is
a card shown once (`ShownOnce`) and does "expand" open its own message (`OwnExpand`); does
Enter in the menu go where the filter points (`EnterMatches`); is every connection listed
and saved (`ConnectionsListed`); does formatting lose no character (`MessageShown`), can
completion be undone (`CompletionUndone`), and are exactly the visible elements found
(`VisibleExact`).

Why the bounds are enough. Clients, channels, goroutine slots, WebSockets, requests
and conversation objects are recycled, so runs are not bounded in length, only in the
number of user commands, changes and faults. Two commands give every pair (connect
while disconnecting, remove while a loop sleeps, reconnect during a dial), three
goroutines a dial, a loop and a command at once. A buffer of one is full after one
event. Two changes are needed for one to overtake another, two joins for a NAMES
answer to cross a kick, two losses for a request that was lost once to be lost
again. A page of two messages, a screen of three and a log of three or four have
every case of the code: a page that ends inside a second, one that is full, one that
is short. Two conversations, one of each kind, are all the counters tell apart. In
the page, two of a kind (channels, hosts, rooms, endpoints) are what a mistake needs
to take one for the other, and four to six acts of the user reach every order of
request, answer, rendering and next act; a counter bounds them, named in each module. In `UserStore`
the user follows a link, and the window is left or resized or the connection lost, only
while few requests are under way (`MaxPosts`, none in the run); links are followed while
the list of notifications is on its way too. The theorems of section 5 hold for any
`MaxPosts`.

`CHECK_DEADLOCK FALSE` stands where the system may stop: an idle connection, a
server that was stopped, a page whose user is away or whose bound on acts is used
up. `stream` checks for deadlock, because a WebSocket can always come again.

Fairness. `IrcLifecycle`: goroutines run, timers fire, callbacks run, and a server
that got QUIT closes the socket; nothing is assumed about dials, except by
`NetworkHeals`, which the properties about lost sessions have as hypothesis: of
infinitely many dials and registrations some succeed. `EventStream`: goroutines run
on and `sync.RWMutex` starves no writer; nothing is assumed of `Forward`, because a
browser may never read. `BrowserSocket`: the page's timers and callbacks run, and a
connection that is not lost works; the number of losses is bounded, which is "the
network works in the end". `History`: the server answers, the page renders and its
timers fire; nothing is assumed of the user. `Operation`: the specification is
fetched, a request that was sent is answered, promises are settled and the button's
timer fires. The others have safety properties only, and state no fairness.

Properties with a condition say where the code needs it:

* `SessionIsTrue` holds for a user who never took back the wish to be connected
  (`Steadfast`). With /disconnect a dial in flight opens a session behind it.
* `LoopRepairs` holds until the user asks for a connection again, which replaces the
  closed channel of a loop that should end.
* `ShowsState` of `EventStream` holds for one emitting goroutine. With two, the
  event of the older change may be delivered last.
* `RosterExact` and `BrowserExact` say that the roster is exact without lost sessions
  and ignored people; that nobody is missing holds always. That a kick removes needs
  a channel that does not answer NAMES to outsiders (`Public = FALSE`): a NAMES
  answer that is under way at a kick makes the conversation again
  (`handlers.go:606`).
* `ShowsState` of `BrowserSocket` holds unless the socket was opened again, by the
  focus of the window or by a request, before `User` heard that it was closed; then
  nothing loads what was missed. That callbacks are called once (`Once`) is about
  requests that are answered at once: a command that was refused after a reconnect
  may still be answered later.
* `SuccessIsTrue` and `PerformEnds` need a network that answers (section 6).
* `Piece` leaves out a list loaded from a link into the past, and allows the messages
  that share a second with the end of a page to be missing: cursors are strict.
* `NothingLost` promises nothing of a change that nobody saves (`ChangeOnly`) before the
  next change that is saved; from then on it is kept as well.
* `BadgeExact` waits for the count, and for conversations that came or went: they do
  not start one (`Connection.js:57`). It allows the 0 that the notifications page has put
  there until its request is answered.
* `TextStays` leaves out the key pressed while the program changes the conversation,
  a recalled message, and drafts overwritten by an upload.
* `ToldOnce` and `AllAgree` need calls that ran to their end one after the other;
  `OwnChangesOnly` a channel that nobody else changed; `ConnectionsListed` that no
  request failed. Each is a ghost variable that the action sets.
* `ListIsTrue` holds at every moment, while loads and deletions overlap, unless since the
  last load a box was ticked during a deletion, several files were deleted at once, a
  request failed or another tab took part. A load puts all that right, but for two
  loads: one whose answer was written before a deletion reached the disk brings the
  row back, and one that is shown before that takes the tick from the row that should go
  (`SettingsFiles.svelte:38`).

## 5. What is proved

For every value of the constants, by TLAPS, from the assumptions the modules name:

| Module | Theorem | Says | Inductive invariant |
|---|---|---|---|
| IrcLifecycleProofs | `TypeCorrect` | `TypeOK` | itself |
| | `LoopsStoppable` | `LoopsCanBeStopped` | `StopInv`: before the first channel there is no session and no loop |
| | `DisconnectFinal` | `DisconnectIsFinal` | none: an action property from `TypeOK` |
| | `SessionsCorrect` | `SessionIsTrue` | `SessionInv`: for a steadfast user a goroutine that dials owns the only session |
| EventStreamProofs | `TypeCorrect` | `TypeOK` | itself |
| | `NeverPanics` | `NoPanic` | `CloseInv`: the channel is closed after the flag was set, and what `EmitUser` still visits is in the map |
| | `ViewCorrect` | `ShowsState`, for one emitter | `LastWordInv`: the last word a browser will hear is the state, or its event is still to come |
| StoreProofs | `TypeCorrect` | `TypeOK` | itself |
| | `FilesComplete` | `NeverTorn` | `Owner`: who is past the lock holds it, and renames a complete swap file |
| | `ChangesKept` | `NothingLost` | `AllOnTheirWay`: an object has a save ahead, or what is owed is being written, or is on disk; with `OwedIsDone`: no more is owed than was done |
| | `SavesInOrder` | `RestoredGrows` | `NotAhead`: a file is never newer than what is saved, nor that than memory |
| StoreProofs, on `History` | `ReaderIsNotMoved` | `NotMoved` | `ReaderInv`: unless he is moving, a reader is at the message the address names, and `InfinityScroll` remembers it |
| | `ListIsPiece` | `Piece` | `PieceInv`: messages rise but for those that came late, what is between neighbours or after the last was missed or shares its second, and a page under way ends at the first message |
| StoreProofs, on `Embeds` | `CardsAreShownOnce` | `ShownOnce` | `EmbedsInv`: a card that is there has one cell among those of its link, and a cell waits only for one that is not there |
| | `ExpandIsOwn` | `OwnExpand` | the same: the number a card was loaded with is the place of its message, unless older ones came before it |
| RosterProofs | `MembersListed` | no member is missing, whatever was lost and whoever is ignored | `RosterInv`: the path of rosters the messages under way will lead through; its end is claimed |
| | `RosterIsExact` | `RosterExact` for a channel with `Public = FALSE` | the same path |
| | `BrowserShowsMembers` | `BrowserExact` | `PageInv`: the course of the truth, who was there at each message not handled and each event not seen |
| UserStoreProofs | `PageIsRoute` | `PageFollowsRoute` | `ReferencesInv`: what is active or shown is the object in the map, and while a page is up the active one is that of the address |
| | `BadgeIsExact` | `BadgeExact` | `BadgeInv`: while a conversation is shown the number is right, or a count is due, or conversations came and went, or the notifications were read and the number is 0 |
| | `MissedStays` | `MissedIsKept` | none: an action property from `ReferencesInv` and the types |
| BrowserSocketProofs | `NothingTwice` | `Once` | `SocketInv`: a request is in one place only of queue, wire, answers and callbacks, in the order of its number |
| | `LoadedShowsState` | `ShowsState` | `ViewInv` in `SocketInv`: after the last load what comes over the wire leads to the state |
| FormProofs, on `Operation` | `TypeCorrect` | `TypeOK` | itself |
| | `PromiseIsHeld` | somebody waits exactly while there is a promise | `PromiseHeld` itself |
| | `SuccessTrue` | `SuccessIsTrue` where no request fails on the network | what was applied is what the answer in flight says |
| | `FormIsNotSwallowed` | `SubmitIsSent` | `ButtonInv`: a request that only forms wait for began with no timer running, so nothing unlocks the button once the page was told of it |
| | `ImplementsFlight` | every step of `Operation` is a step of `SingleFlight` or leaves it alone | `PromiseHeld`: `params` and `waiting` are empty together |
| on `ChatInput` | `NothingWrittenIsLost` | `TextStays` | `TextInv`: each conversation shows what its writer has left, and it is the draft as well unless a key was pressed since |
| | `SentOnlyWhereTyped` | `SentWhereTyped` | `KeysInv`: every word in a field or a draft was typed in its conversation or not typed at all |
| FrontendProofs, on `Files` | `FilesListed` | `ListIsTrue` | `FilesInv`: an answer that is not old is what is on disk, and what the deletion in flight asks for is what is ticked |
| on `ConnectionForm` | `ConnectionsAreListed` | `ConnectionsListed` | `FormInv`: what is not yet listed has its answer under way |
| on `Notify` | `EndpointsAgree` | `AllAgree` | `NotifyInv`: how far the one call under way has come says where the endpoint is known |
| | `HighlightToldOnce` | `ToldOnce` | `ToldInv`: a calm message was told by exactly one, or that one is still to hear of it |
| on `Navigation` | `EntryIsLeft` | `LeavesEntry` | `EntryInv`: whoever is signed in on such a page has an update due, and the page the redirect goes to is none of them |
| | `PartedIsLeft` | `PartLeaves` | `PartInv`: `route.history` has each page once, so what is removed from it is not its last page |
| on `Menu` | `EnterIsMeant` | `EnterMatches` | `MenuInv`: while letters are typed the list is what `Matching` makes of the links and the first of it is chosen |
| on `Algorithms` | `WrittenIsShown` | `MessageShown` | none: each input by itself, by induction on what is left to format |
| | `WhatIsInSightIsFound` | `VisibleExact` | none: the element at the upper edge stays in the haystack, which shrinks each turn |
| | `TextComesBack` | `CompletionUndone` | none: the text before the word, the word and the text after it are kept apart |
| on `Modes` | `OnlyOwnAreSaved` | `OwnChangesOnly` | `ModesInv`: a box is as the user wants it, or as the mode is and will be when all that is under way has come |

Assumptions. A theorem holds for every value of the constants that satisfies the
ASSUMEs of its module, which TLC evaluates on every run. Most give a constant its
type and keep a "none" value apart. `StoreAssumption` (of `UserStore`) and
`NavigationAssumption` also say that no conversation has the name of a page
(`notifications`, `login` and so on), which the routes of `App.svelte` keep apart by
their first part. `SizeAssumption` (of `History`) says that a page, a screen and a year are
more than one message or second. `MenuAssumption`,
`CompletionAssumption` and `AlphabetAssumption` say of what the names and the inputs
are made: names in sequences, without blanks and not empty where they can be filled in;
messages of the characters `Markdown` tells apart, heights that are numbers.
`EmbedsAssumption` says that there is a conversation and that no link stands for
"none". A theorem that restricts more says so in its statement:
`SessionsCorrect` and `ViewCorrect` as in section 4, `SuccessTrue` to networks that
answer, and `RosterIsExact` to `Public = FALSE`, because the answer to a NAMES that
an outsider asked opens a conversation of somebody who is not a member.

None of the properties is inductive as it stands: `NoPanic` says nothing of when a
channel is closed, `NothingLost` nothing of a save that is half done, `RosterExact`
nothing of what is under way. TLC checked the invariants on the instances of
section 4 before they were proved, where it can evaluate them; a path (`RosterInv`),
a course (`PageInv`) and the places of words (`KeysInv`) are quantified over
functions without bound, and of these only the instances of their conjuncts were
checked. The proofs have one step per action and under it one per conjunct the
action can disturb. The refinement is checked in full by TLC (`SingleFlightSpec`,
with the fairness of `Land`) and its safety part is proved.

Recursion. The library's induction takes a predicate as a parameter, which the provers
cannot instantiate. `Induction` in `FrontendProofs` takes a set instead and follows
from the least counterexample (`WFMin` of WellFoundedInduction, on the naturals).
From it come `Recursion`, that a function made step by step exists, and with it
`FilteredIs`, what `Filtered` returns: the elements at the positions to keep, in their
order. `MeasuredRecursion` is the same for a function whose values are computed from
its values at smaller arguments, and it gives `MakeTag` its meaning: every call of
itself is for less work, where the work left is eight times the length of the text and
the rules not tried yet. By induction on that work the spans of a text show what it
shows; that a call of `_makeTag` ends, on every message, is proved on the way.
`VisibleExact` needs the same induction for the search by halves. `StoreProofs` takes
from `WFMin` that a page has a first and a last message (`MinIs`, `MaxIs`): `Min` and
`Max` of the library are CHOOSE.

The four theorems on `Menu` and `Algorithms` hold for inputs of every length: the bounds
of the runs (`MaxLength`, `MaxFilter`) are any numbers in them.

Only model-checked: all liveness (`LoopRepairs`, `EmitEnds`, `QueueDrains`,
`PerformEnds`, `FillsUp`, and the fair part of `SingleFlightSpec`), since the prover
has no rules for fairness and ENABLED here. Every other property of a passing run is
stated by a theorem.

## 6. Disagreements and known behaviours

Two runs end with a counterexample; `PROJECT.json` quotes the lines.

* `lifecycle_giveup`: one failed /connect during an outage ends all retries, though
  `reconnectLoop` promises to go on "until success or the user explicitly
  disconnects".
* `deleted`: the button "Delete" submits the form it lies in, so a deletion is always
  accompanied by an update, and what was to be removed "permanently" is listed again
  or written again.

What the models had to follow, or properties had to leave out, because the code does
so:

* *Connection.* Disconnect does not stop a dial in flight; the session it opens stays
  and is shown as connected. An ignored person who parts, or changes nick and then
  leaves, stays in the roster. A NAMES list cut by a lost session is mixed with the
  next (`handlers.go:634`).
* *Storage.* Topics, what the server tells of itself, conversations opened on the way and
  the wish of /connect or /disconnect are changed without a save; they reach the disk
  with the next save of the connection for another reason, and a restart before it loses
  them: a connection that was left by /disconnect may connect again. Highlight keywords and unread counters are saved and not restored, and
  the next save erases them. A save that waits while its connection is deleted makes
  the directory again.
* *Socket.* A connection lost between "load" and its answer leaves the page loading
  for ever. Request ids are numbers of one page, but answers to commands go to all
  pages of a user and call whatever callback has the number there.
* *Operation.* A request that failed on the network has status 0, which counts as
  201: the page says "success". One that timed out is never settled, nor is any later
  call of the same operation. A second `markAsRead` while one is under way is not
  sent.
* *History.* A failed load sets both ends, so nothing is loaded again. Messages that
  share the second of a page's end are on neither page, the first load leaves out
  the current second, and the server looks back one year from the cursor. A scroll
  within 500 ms of one by the program is undone.
* *Stores.* The active conversation stays active on pages that show none, so a
  highlight is marked as read on the settings page (`User.js:187`). The
  notifications page sets the number in the title to 0 when its list has come, also when
  the user shows a conversation by then, and the counters it stands for follow only with
  the answer to its request (`Notifications.svelte:20`). Parts and joins do
  not start a count; the badge stays old after a load on a page without a
  conversation. An active conversation that is not in the list stays a dead object.
* *Chat input.* The link to an upload goes to the conversation that is open when the
  answer comes; a component of an earlier page overwrites the draft. The menu of
  completions stays when another conversation is opened. A recalled message is not
  saved as a draft.
* *Notify.* Two tabs both tell. With push enabled nobody tells of a message in a
  channel whose notifications are on. The answer to /push/subscribe is not looked at; a
  subscription that the server or the push service dropped leaves `pushEnabled` true.
* *Files.* The page joins the ids of what is deleted with commas and the server takes
  the list for one name (`SettingsFiles.svelte:37`): two files or more are not
  deleted, and their rows vanish. Rows vanish after a failure too.
* *Modes.* The panel keeps the ticks of the previous channel, the callback of a query
  writes into the conversation that is shown when the answer comes, and the answer to a
  query names only what is on.
* *Navigation.* The third parameter of `Route.go` is not looked at, so links marked
  `replace` push (`Route.js:120`); `/login` stays in `route.history`; "Make sure the old
  value is forgotten" (`Login.svelte:69`) updates a property that `Route` does not have,
  so the next user comes to the page of the last one.
* *Embeds.* A failed load stays cached; a link written twice shows its card in the row
  rendered last; the link "expand" keeps the number the message had when it was
  loaded.
* *Menu.* The name of a network matches its heading, where Enter goes nowhere; what is
  typed within 100 ms after the field was left is lost.
* *Connection form.* A removal that failed takes the row out; an update that failed lists
  a connection without a name; the table is computed once and stays stale; any of the
  answers leads to the table, whatever is open.
* *Texts.* "2\*\*3" is shown as 23; the escape by a backslash is forgotten when a later
  rule matches; `/hs` is documented (`commands.js:55`) as something else than what it
  is rewritten to (`commands.js:69`).

## 7. What is not modelled

Data the properties do not tell apart: formatting, logging, translations, user and
host. Disk errors (the code logs them and goes on). TLS, SASL and on-connect commands.
More than one channel or connection at a time on the server, since the code keeps them
apart by key. On the server: the waiters of /whois, /ignore and LIST, nick repair,
registration and roles, profiles, the splitting of messages, the monthly files of a
log, the bot. In the page: search, the list of notifications, registration and
password forms, the administration of users, the pages that add a conversation, drag
and drop indicators, block markup, colours and emojis, a second tab of the same browser.
The rest is input and output without state that several parties change: HTTP
routing, authentication against external directories, fetching of embeds, generated
types, command line. `PROJECT.json` says for each component what is left out.
