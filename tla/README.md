# Formal models of 7spade

7spade is an online card game (Seven of Spades / Sevens): a Go service that
drives rooms over WebSockets (`services/ws`), a Go API with the accounts, rooms
and history in PostgreSQL (`services/api`), an admin API (`services/admin-api`),
and two React clients, the game (`web`) and the admin console (`admin-web`).
This directory holds TLA+ models of the parts whose correctness depends on order,
time and failure: the game's rules and the room that plays it, with its timers,
its snapshots in Redis, its owner among the replicas, and its row in the API; the
pages of the player and of the spectator, with their sockets; and the pages of
the administrator, whose calls overlap each other and those of other people.

Every definition is translated from the source; `PROJECT.json` maps each one to
the lines it stands for, lists the runs, the mutants that show each property can
fail, the theorems, the disagreements met on the way, and the hazards.

    tlc -config MCRoom.cfg MCRoom          # a run: PROJECT.json lists them
    tlapm SevenSpadeEngineProofs.tla       # a proof module

## 1. Inventory

### The real-time service (`src/services/ws`)

| Component | State | Operations | What is hard | What makes it correct |
|---|---|---|---|---|
| Engine `game/engine.go` | hands, piles, a low and a high end per suit, closed suits, the table's close method, whose turn | deal, play, place face down, close with an Ace, sweep a dead table, next player | rare endings after long games; Ace low or high; two decks | cards are conserved and in one place, ends describe the stacks, one close method, never dead, the sweep takes only worthless cards, games end |
| Bots `game/bot.go` | none | infer the unseen cards, choose a move | the inference must follow the board, the piles and the closing | what is unknown is what is hidden |
| Room `internal/room` (lobby, membership, rematch, results) | roster with positional indices, player objects, kicks, votes, timers with tokens, phase | join, reattach, drop, leave, kick, ready, start, last move, save the result, vote, countdown, return | player objects outlive their seats; timers race with reconnects; the lock is released for API calls | one seat per identity, live seats are live, held seats are settled, countdowns belong to their screen, host rights follow the seat |
| Team lobby (`handleSetTeam`, `handleStartGame`) | a team per seat | choose, ready, start and fill with bots | newcomers have a team before they choose | starts are balanced and manned |
| Turn clock (`timers.go`, `bots.go`, `gameplay.go`) | one turn timer with a token, bot timers, the goroutines that wake bots | move, time out, bot move, deal, reload | a timer that fired waits for the lock; ownership is read before it | a timeout acts on its own turn; a live game has a clock unless it fired without ownership; turns end |
| Snapshots (`snapshot.go`, `persistence/redis.go`, `store/store.go`) | versions, the last version written, a tombstone, the key | persist, save, delete, load, restart | every write is a goroutine and lands in any order; answers are lost | never backwards, never resurrected, settled is durable |
| Ownership (`relay/lease.go`, `internal/cluster`) | the lease with its TTL, the fencing counter; per replica the handle, its subscription, its renewals | acquire, admit, promote, renew, demote, crash | an expired owner lives on next to its successor; promotions race | every consumer is the handle's or about to be closed, unique tokens, superseded owners find out |
| Spectators `spectators.go`, `delivery.go` | the watching sockets with the queue of each | admit, refuse, broadcast, forget | a message is built under the lock and sent without it | a page never shows less than its socket was admitted to |
| Edge relay (`edge.go`, `relay/broker.go`, `relay/registry.go`) | sockets per room, shared subscriptions | forward frames, retry joins, deliver envelopes | pub/sub loses what nobody hears; leaves are counted per edge | every socket is admitted or told; no duplicate delivery |
| Reconciler (`session/reconciliation.go`, `relay/coordinator.go`) | active rooms with a score, a leader key | publish, elect, report the union | a replica that cannot publish loses its waiting rooms | only dead rooms are deleted |
| Emotes, presence, views, inspection, transport | rate limits, TTL keys, sockets | read-only or I/O | | |

### The API (`src/services/api`)

| Component | State | Operations | What is hard | What makes it correct |
|---|---|---|---|---|
| Rooms (`repository/room.go`, `handler/room.go`) | the room row, membership rows, remembered kicks | create, join, quick play, remove, kick, status, stale-room sweep | calls of the rooms arrive late, out of order or not at all; HTTP joins race with them | no more members than places, kicked stays out, one active room per player, the listing says what the room does |
| Daily login (`repository/login_progress.go`, `handler/stats.go`) | last day, streak, best streak | read, claim | the day is read before the row is locked | a day pays once, the streak is the unbroken days |
| History, rating, XP (`repository/game.go`, ...) | the game row and its events | save a game once | a submission repeated | each reward once |
| Accounts, friends, events | rows | one transaction per request | | |

### The game client (`src/web`)

| Component | State | Operations | What is hard | What makes it correct |
|---|---|---|---|---|
| Pages of a room (`useGameSocket.ts`, `WaitingRoomPage.tsx`, `GamePage.tsx`, `usePiP.ts`) | a socket with its handlers, a reconnect timer, what the room last said, the face-down selection, the floating window | open, hear, lose, reconnect, click, walk from page to page | each page has a socket of its own; events of dead sockets; kicks and closed rooms between two pages | one live socket; a page at rest shows where the room is; nobody is left at a dead room |
| Lobby (`LobbyPage.tsx`, `ActiveRoomProvider.tsx`) | the list, flags per button, the form, the daily card | create, practise, quick play, join by card or code, resume, claim | calls of several buttons and of a page already left; lost answers | one active room; refused only for what was shown; a day pays once |
| Spectator page (`useSpectatorSocket.ts`, `SpectatorPage.tsx`) | the table, "over", "not found" | open, hear, break, new token | messages of the socket before | see above |
| Replay (`game/replay.ts`) | none: folds the recorded moves | reconstruct a move | it derives the sweep and the turn order again | it shows the game that was played |
| Accounts, friends, profile, skins, history | forms, lists | single requests | | |

### The admin console (`src/admin-web`, `src/services/admin-api`)

| Component | State | Operations | What is hard | What makes it correct |
|---|---|---|---|---|
| Session (`AuthProvider.tsx`, `api/client.ts`; `issueSession`, `RotateSession`) | the administrator, the access token, one shared refresh, waiting requests; rows per cookie in families | sign in with or without a second factor, refresh, sign out, send, send again | refreshes cross requests, sign-outs and other tabs; a cookie used twice ends its family | one refresh at a time; a request is repeated under its own session; a live session is not given up |
| Settings (`SettingsPage.tsx`; `setting.go`) | switches, three numbers | edit, save in several calls | every intermediate combination is checked | a legal change is saved; the page keeps what is stored |
| Skins (`SkinDetailPage.tsx`, `SkinCreatePage.tsx`; `skin.go`) | rows with version and asset, uploads, revisions, grants | create, update, upload, publish, withdraw, grant | the page outlives the skin it shows | what players can pick has an image of its own |
| Searches and lists (users, rooms, games, audit; skins, events, achievements, rewards) | filters, offset, rows | ask, turn pages, filter | answers cross questions; lists shrink | the latest answer is shown; a page is not empty |
| Events (`EventsPage.tsx`; `event.go`) | version, revision, state, recorded revisions | draft, edit, schedule, publish, archive | two administrators, two clicks | a revision is recorded once, a change is made to what was seen |
| Records (`UserDetailPage.tsx`, `GameDetailPage.tsx`, ...; `postgres.go`, `achievement.go`) | a record with version and flag | suspend, rename, annotate, save, grant | the page stays when the address changes | names are replaced only if seen |
| Staff (`AdministratorsPage.tsx`, `RolesPage.tsx`, `AcceptInvitationPage.tsx`) | invitations with links, the account, its role and session | invite, reissue, revoke, accept, disable, enable, edit a role | calls overlap with no guard on the page | a link makes one account |

### How they interact

A client joins a room over HTTP (a membership row), then opens a WebSocket at
some replica. That replica claims the room's lease or proxies the socket to the
replica that has it. The owner's room object changes under `room.mu`; timers and
API calls run in goroutines that take the lock again. Every change is stamped
with a version and saved from a goroutine of its own. A room talks to the API
with calls nobody waits for (remove, kick, "in_progress", "waiting"), except
"finished", which the goroutine that saves the result sends and waits for. A
process that restarts finds the room's snapshot when somebody connects.

A page of the client is told what the room does by messages, and asks the API
only for what surrounds it: whether the room exists, which room the player is in,
the list. The admin console talks to the admin API, which writes the tables the
API reads; every administrator is one of several, so a model of a page has "the
others" as actions of their own.

`PROJECT.json` lists every component with what is not modelled and why, and the
hazards at their lines.

## 2. The modules

| Module | Models | Composed with |
|---|---|---|
| `SevenSpadeEngine` | the rules, one action per kind of move | |
| `Replay` | the client's replay as a second engine | EXTENDS `SevenSpadeEngine`, runs along with it |
| `Room` | one room object with its sockets, timers and the saving goroutine | |
| `RoomApi` | the API's rows, and the calls in flight | composes `Room` |
| `TeamLobby` | the 2v2 lobby up to the start | |
| `TurnClock` | who moves when | |
| `SnapshotStore` | the versions and writes of one room's snapshot | |
| `Ownership` | lease, token, promotion, takeover of one room on many replicas | |
| `GameClient` | a tab at a room: socket hook, waiting room, game page, floating board | with the room as environment |
| `Watcher` | a spectator's page and the room that admits its sockets | |
| `WebLobby`, `RoomForm`, `DailyLogin` | the lobby page: the ways into a room, the form, the daily card, with the API behind | |
| `AdminSession` | an administrator's session in one tab, with the session rows | |
| `AdminSettings`, `AdminSkins` | the settings and skin pages with the API behind | |
| `AdminSearches` | searches asked of the API a page at a time | implements `LatestAnswer` |
| `AdminCatalogs` | lists paged in the browser | |
| `LatestAnswer` | abstract: a view shows an answer to a question it asked | |
| `AdminEvents`, `AdminDossiers`, `AdminStaff` | events, single records, administrators and invitations, with the API behind | |
| `MC*` | bounds for TLC, special initial states, views, symmetry | |
| `*Proofs` | theorems and proofs | `SevenSpadeEngineProofs` with the engine and `Replay`; `RoomProofs` with `Room` and `RoomApi`; `TurnClockProofs`, `OwnershipProofs`, `GameClientProofs`; `AdminConsoleProofs` with the console except its session; `AdminSessionProofs`; `LobbiesProofs` with `SnapshotStore`, `Watcher`, `TeamLobby` and the lobby page |

`MCLobbies`, `MCOwnedRoom`, `MCAdminConsole` and `MCAdminRecords` each put several
models that share no state side by side: the initial state chooses the one that runs
(`part`), so that a run is the sum of the models and not their product.

**SevenSpadeEngine.** A card is a suit, a rank and the number of its deck, so
that the conservation of cards is about copies and not about values. `board` is
`SuitSequence`'s pair of ends; the set of cards on the table is not kept by the
code and is what `SequenceMatchesStack` relates the ends to. `FinishMove` is the
tail that every move runs: the sweep if the table is dead, else the next player
with cards. `ApplyMove`'s refusals are guards.

**Room.** A player object of the code is reachable from the socket that made it
after it lost its seat, so objects are numbered by the join that made them and
`players` lists the seated ones; several disagreements below are about objects
without a seat. A game is its deal and its last move: the moves between belong to
`SevenSpadeEngine` and `TurnClock`. `saveGameResult` and `broadcastGameOver` are
four steps (`SaveRead`, `SaveWrite`, `SaveStatus`, `Announce`), cut where the code
releases the lock. A timer is in a set from the moment it is armed and may fire
at any later time, with the token it was armed with; a stop may come too late, so
stopped timers stay in the set and the token checks have to refuse them. `Kept`,
the seats that a compaction leaves, is defined by the seats before each and not
with `SelectSeq`, a recursive operator of which nothing could be proved.
`Teardown` is a step of its own, as the last leave unlocks the room before it. `sent` is
the set of API calls the last step made, the interface to `RoomApi`.

**RoomApi** takes `Room` whole. Calls go into a set and arrive in any order or
fail; the awaited "finished" update is served in the step that makes it. A
join is three steps: the kicked check comes before the row lock; the statement
that takes the lock counts the members in a subquery, which under PostgreSQL's
default isolation (READ COMMITTED, the code sets none) sees what was committed
when the statement started, not when it got the lock; the status is read, and
the row inserted, under the lock. A socket may be opened by anybody: the room
asks for no membership row, and the client's `/room/:id` page opens a socket for
whoever is on it.

**TurnClock** keeps only what decides who may move: the armed timer, timeouts
that passed the ownership check and wait for the lock, goroutines in
`playBotIfNeeded`, and bot timers. `Play` is the tail the three moves share. Which
seat is next, and whether the game is over, is left open. `lapsed` is a history:
the last timer fired without ownership and nobody has moved since.

**SnapshotStore** has the number of the change as the content of a snapshot, so
newer is greater. A "life" is one room object; versions start over in each. A
command can be refused, or executed without the answer that says so: the store
then has no record of the version, which the history `unsure` remembers until the
next write is recorded.

**Ownership.** `AdmitPlayer` is `Acquire`/`AcquireOwn` and then `Promote` or
`JoinRefused`. `Ownership.Promote` is cut where it lets go of the lock and where
it takes it again: the flags (`Promote`), `SubscribeInbound` without the lock
(`Subscribe`), and the second critical section, which keeps the subscription or
lets it be closed (`Keep`). `Ownership.Demote` is cut at its `Unlock`: it clears
the flags and takes the subscription (`Demote`), and `sub.Close()` comes later
(`CloseSubscription`). `held` is that the handle has a subscription, `consumers`
counts those that are open, and these differ between the two. A renewal ends
because the lease is another's (`RenewRefused`) or because Redis did not answer
(`RenewErrors`). Saves land at once here and in `TurnClock`:
`SnapshotStore` is about what happens when they do not. With the relay on,
`teardown` does nothing, so a room object lives as long as its process.

**Replay.** `reconstructAt` folds the recorded moves from the deal on, so what it
shows after a move follows from what it showed before and the move; the model
takes that step together with the engine's and keeps the replay's hands, piles,
rows, closed suits, method and turn in `shown`.

**GameClient.** `socks` are the WebSockets with their handlers (`hooked`) and what
is under way on them; `hook` is the React state of the mounted `useGameSocket`,
`ui` that of the page. Each message of `handleMessage` is a case of `Handled`.
The room is an environment that moves from lobby to game to results and ends, and
that writes to the socket it knows (`room.conn`); `Notice` and `Admission` are the
server's `handleDisconnect` and `joinRoom` as the tab sees them. `RenderEach` says
whether React renders between two messages; the run says it does, which hides
nothing of the socket's races and keeps the selection's. A socket
that the tab has dropped in the middle of its handshake may still be let in, and
its "leave" may still be read, after a later socket of the same tab: the server
takes what arrives last. The history `room.overtaken` says that this happened and
that no later socket has been let in since; `SeatFollowsSocket` is about every
other state, and `LatestPageHasSeat` (section 6) is what then fails.
`ClientSound` is the types, one live socket, and that no page is stranded: it
listens to a socket, waits for the timer that opens one, or has a closed room to
render.

**Watcher.** `casts` are broadcasts that goroutines still have to send: `Look`
builds the message, `SendCast` puts it into the queues, in any order. `crossed`
remembers that one overtook another, the case in which a page may end behind.

**WebLobby** has a press of every button that leads into a room as a call that
the API serves in its own step (creation in two, as its check is outside its
transaction) and whose answer may be lost; calls cross as they like. The history
`behind` has the rooms that were created when the check had gone stale. A GET that
fills the list or the floating button is one step: it is asked again every few
seconds, so what it brought is as stale on the screen as it can be on the way.
**RoomForm** is the form with the
hidden fields it keeps, against `Create`'s checks. **DailyLogin** has a clock,
claims stamped before they take the lock, loads, and several visits of the page,
so that two claims can be under way; the history `late` counts those that commit
after one of a later day.

**AdminSession.** A row is a cookie; `server.family` names the session it is of.
`req` are requests of pages through answered, waiting and sent again; `ref` are
refresh calls, of which the shared one is `current`; answers reach the tab in a
later step than the server's, in any order, and `Faulty` adds lost answers and
another tab. A request whose token is accepted can still be "denied": the admin API
answers a second factor that is confirmed with a wrong code with 401, which the
wrapper takes for a token that is not accepted, refreshes, sends it again and, if
the code is still wrong, ends the session. `fault` remembers that an answer was
lost or another tab refreshed, or that a refresh nobody needed (`Crosses`: the
security page asked for it, or a denied request did) overtook a request under way
with another token.

**AdminSettings, AdminSkins, AdminEvents, AdminDossiers, AdminStaff** pair the
page's state with the rows it is about. A click sends, the server serves, the
answer returns: three steps, between which the administrator may go to another
record, a new token may reload the page, and other administrators write. A
record's contents are the version it was written with; the rest of the payload is
left out.

**AdminSearches** is four pages whose requests differ in when they are sent and
what they reset; `search.asked` is the question, `search.rows` the one whose
answer is shown. `View == INSTANCE LatestAnswer WITH ...` maps it to the abstract
view: `settled` is that no request of the question is alive. `ShowsLatestAnswer`
is `View!Spec`, checked as a property and proved: every step of a search page is
a step of the abstract view or a stutter.

## 3. The runs

| Run | Shows | Bounds |
|---|---|---|
| `engine` | a whole one-deck game from every deal, its replay, and that it ends | 3 players, 2 suits of ranks 6, 7, 8 and the Ace |
| `room` | a room from empty to its results screen and back | 3 users, 3 sockets, 3 seats, starts with 2, 1 deal, API calls fail |
| `results` | from a results screen on, with fair timers: held seats and countdowns are settled | 2 users, 2 sockets, a second deal, API calls fail |
| `room_api` | the room with the API: a join never lands in a deleted room, a kick bars every later join | 3 users, 2 seats, 2 sockets, 2 joins or calls under way |
| `lobbies` | one active room but for a creation that looked too early, refusals for what is shown, a day pays once but for a claim that commits late; a spectator's page is current; 2v2 starts are balanced; snapshots never go back, stay deleted, and are durable once settled | 2 rooms, 2 calls; ratings around 3, scores 0 and 100; 3 days, 2 claims; 2 watching sockets, 3 changes, 2 broadcasts; 4 seats; 5 changes, 3 lives, commands refused or executed without an answer |
| `owned_room` | timers, bots, a lease that is lost and claimed again, a restart; two replicas, promotions and demotions that cross, and that a superseded owner finds out | 2 seats, 4 turns, 1 restart; 2 replicas, 2 tokens, 1 move, 1 `Close` under way, Redis may fail |
| `game_client` | one live socket, pages that follow the room, players who come back, dead rooms that are left | 2 sockets (names are used again), 2 messages under way, turns that look alike (`Turns = 1`) |
| `admin_session` | one refresh, repeated requests under their session, no waiting for nothing, no session given up that could go on, but for a wrong code | 2 requests, 3 session rows, faults |
| `admin_console` | legal saves in a legal order; images of enabled skins; searches refine `LatestAnswer`; pages with items | numbers to 3; 2 skins, 2 uploads; 2 filters, pages of 1, 2 calls; 2 items |
| `admin_records` | revisions recorded once, changes of what was shown, one account per link | 2 events, 3 versions, 1 fetch and 1 change; 2 records, 2 versions and one more; 2 invitations, 2 links, 1 call |
| `result_is_scored`, `reclaimed_room_has_clock` | disagreements (section 6) | the smallest that show them |

A run's properties are conjunctions of the named parts in its module: `CardsSound`
of `TypeOK`, `OnePlace` and `NothingLost`; `BoardSound` of `SequenceMatchesStack`
and `OneCloseMethod`; `SeatsOK` of `TypeOK`, `RosterOK`, `LiveSeat`, `GraceRuns` and
`KickedHasNoSeat`; `ResultsOK`, `WaitsEnd`, `RowsOK`, `TeamsSound`, `StoreSound`,
`ClockSound`, `OwnersSound`, `ClientSound`, `SessionSound`,
`ImagesSound`, `DeadRoomIsOver` and `LobbySound` likewise. Next to a definition stands
what a plausible bug would make of it ("mutant"): those that `PROJECT.json` lists
break the property of the run, the others break another part of it.

Why the bounds are enough: the engine's cases are about the ends of a suit
(below Seven, above Seven, one step from the Ace, closed), all of which exist with
one rank on each side of Seven, and two suits suffice for one to force the close
method of the other. The room's races need one user to come back or a second one
to stay, so two users and one socket more; a third user enters where two others
interact (a kick between a join and a start, the last place of a room). From a
results screen on, `results` follows the two who sit there; `room` has the
third. One rematch suffices for what crosses from one game to the next. In the
store the shortest known failures need two lives and three writes in flight. Two
replicas and two tokens suffice for a takeover, and for a replica that is promoted
again while its last demotion still has a subscription to close (a player's socket
that was let in earlier promotes it without a token). A demotion waits in the run
while `MaxClosing` earlier ones have their `Close` under way; the theorems are for
any such bound. A tab holds a socket and at most one dying one, and the names of dead
sockets are used again. A tab's session needs one request to begin a recovery and
a second to join it, and three rows to follow a rotation by another sign-in; what
needs a fourth is in section 5. The
console's races are between a call under way and what happens on the page or to
the row meanwhile: two records, so that there is another one to go to, and
versions enough for a write between two of the page's. The staff page has
one call under way, below what the code allows: beyond it `ShownLinkWorks` fails
(section 6), which is why that sentence is not among the run's.

Symmetry is used only where users or requests are interchangeable and no liveness
is checked. `VIEW` drops `sent` in the room's runs, which no action reads; with the
API also the ids of saved games, which none reads either. Four more runs have a
view, under which states that are taken for one agree on the properties and have
successors that are taken for one as well:

* `OwnedRoomView` drops the moves that were made, which only the sentences of
  section 6 read.
* `PartView` keeps the part that runs; of the lobby it forgets seats in finished
  games and the button of a call that is told to nobody.
* `ClientView` forgets the names of sockets, what of the hook only the page that is
  not mounted uses, whether a connection was lost by an "error" or "closed", which
  are treated alike, and the chosen cards except at rest on the game page.
* `SessionView` forgets the names of requests and calls, how a request was refused
  once nothing asks for it, and what a form holds whose answer nobody wants.

Deadlock is checked for the engine, where only a finished game may stop
(`MCEngine!Over`). Elsewhere the system rests when nobody connects or clicks and
the bounds end the counters, so the configurations say `CHECK_DEADLOCK FALSE`.

## 4. Fairness

* `engine`: weak fairness of a move. Every turn is ended by its player or by the
  turn timer, which `TurnClock` checks, but for the case `reclaimed_room_has_clock`
  shows: a room whose clock is lost there goes on only when its player moves.
* `results`: timers fire and the goroutine that saves the game runs on. No
  player is assumed to do anything. A panic stops everything, which the
  properties say.
* `owned_room`, the clock (`ClockFairness`): timers fire, their handlers get the
  lock, goroutines are run. That the replica claims a room again is not assumed.
* `owned_room`, the lease (`LeaseFairness`): a goroutine that has begun a promotion,
  a demotion or a `Close` goes on, and the renewal's ticker ticks for a lease that
  is lost. Nothing is assumed of `RenewErrors`: an owner whose Redis answers is
  demoted because the answer is "not owner".
* `game_client`: React runs effects and renders, browser timers fire, a handshake
  ends one way or the other and not for ever the wrong way, messages under way
  arrive or their socket closes. Neither the player nor the room is assumed to do
  anything.
* `AdminSession!FairSpec` (`MCEveryRequestEnds.cfg`, not in the list of runs):
  calls under way are served or lost, and answers arrive; under it
  `EveryRequestEnds` holds: no refused request waits for ever. The listed run has
  the safety half, `WaitsForACall`.

Nothing is assumed of Redis, of the API's calls, or of clients of the room.

## 5. What is proved

`tlapm` checks these for every value of the constants that the modules' `ASSUME`s
allow. None has an unproved leaf.

* **SevenSpadeEngineProofs.** `TypeCorrect`, `CardsInOnePlace`, `CardsConserved`
  (together `CardsAreSound`), `EndsDescribeStacks`, `OneMethod` (together
  `BoardIsSound`), `NeverDead`, `SweepIsHarmless`, for any
  number of players and decks, any set of suits and any ranks around Seven; the
  run has one deck, the proofs also cover the two-deck games. The
  inductive invariant `Inv` is the conjunction of all of them and is strengthened
  by what relates the ends to the stacks: a closed suit is played out towards its
  Ace, the method is set exactly when a suit is closed, and the current player has
  cards. `SequenceMatchesStack` alone is not inductive: that the Ace closes a
  suit needs the close method, and that a card extends a stack needs the ends to
  be of that suit's cards. `NeverDead` rests on the lemmas about
  `NextPlayerWithCards`: every seat is reached in a round, so the search finds
  somebody while a hand is left. `HandsLevel` is not about single moves: a round
  that began at some seat with hands of a size goes on seat by seat (`LevelInv`),
  and hands can only get further apart once the first is empty and no other has
  more than two cards. `EveryMoveUsesACard` is what `GameEnds` rests on: a live
  table has a move, that of the player whose turn it is, and every move leaves
  fewer cards in the hands; only the fairness of moves is left to the run. `BotsCountRight` and `ReplayShowsTheGame` are for games of
  one deck, the hypothesis they state, because with two they do not hold (section
  6). The replay's theorem relates two engines: both keep the same rows, and what
  each derives in its own way (the next seat, the ends, whether the table is dead)
  is shown to be the same under the engine's invariant. The suits are finite, an
  assumption of the engine's module, as a hand of infinitely many cards has no
  size; `deck` of the code has four.
* **RoomProofs.** `SeatsAgree` and `CountdownsEndInTime` are `SeatsOK` and
  `ResultsOK` of the run, for any users, seats, joins, deals and sockets;
  `SeatsKept` is the action property `SeatsAreKept`. None is inductive. `SeatInv`
  adds that objects in the roster, and those of timers, are of joins that happened
  (`SeatsMade`), and that the lobby seats no bots; `RoomInv` adds that timers have
  been given the tokens they carry (`TokensGiven`), so that no later countdown can
  meet an old timer's. `RowsFitTheRoom` and `KickedUsersStayOut` are `RowsOK` and
  `KickedNeverReturns` of `RoomApi`: every step of the room is a step of `Room`
  that sends the calls it names, and a call is served whenever it arrives, so the
  invariant may only speak of rows, status and joins under way, never of the order
  of calls.
* **TurnClockProofs.** `TimeoutsKeepToTheirTurn`: every token was counted when its
  timer was armed, and none is given twice (`TokensAreCounted`), so a timer that
  presents the current token was armed for the current turn. `GamesDoNotStall`:
  the current token is always armed or on its way, unless its timer fired while
  the replica did not own the room (`lapsed`), which is the only way to lose a
  clock (`MCReclaimedRoomHasClock.cfg` reaches it).
* **OwnershipProofs.** `NoConsumerIsStray` and `TokensNameOneReplica`, for any
  replicas, bounds and a Redis that fails or not. `NoStrayConsumer` counts: the
  goroutines that start, hold or end a promotion are one for an owner and none for
  another replica, and the open subscriptions are those of promotions under way,
  the one that is kept, and those about to be closed. With the types it is
  inductive; each step moves a one from one count to another. `TokensAreUnique` is
  not: a token is on its way between `Acquire` and `Promote`. `TokensAreApart`
  speaks of all the tokens a replica holds or will hold.
* **AdminConsoleProofs.** Every part of the console but its session, each with an
  invariant of its own, for any number of records, requests, pages and versions.
  + `SearchesImplementLatestAnswer`: `AdminSearches` implements `LatestAnswer`.
    `SearchInv` is what the refinement rests on: at most one request is waited for
    (`OneIsLive`), it asks the question of now (`LiveIsLatest`), and no timer is
    armed beside it, so the answer that is shown settles the question; the last
    conjunct would not survive a new question on the audit log unless its page
    never has a timer (`AuditHasNoTimer`).
  + `ListsNeverShowAnEmptyPage`: `PageHasItems`, by the arithmetic of the last page
    (`PageBegins`).
  + `SettingsStaySound`: the PUTs of a save that nothing crossed are in the order of
    `Rank`, and what is stored is the new value of each field that was sent and the
    old one of the rest (`OnItsWay`); in that order each value is legal when it is
    checked. The proof needs the numbers the page began from to fit together, and
    they need not: two crossing saves can leave numbers that do not
    (`StoredIsLegal`, section 6), and from those a legal save that raises the
    maximum and lowers the base is refused halfway. That takes three values, and
    with two the run did not meet it; the property says "from numbers that fit
    together" and the run has `MaxXP = 3`.
  + `ImagesStaySound`: what makes `ImagesSound` inductive is that an upload names
    its skin from the moment it is issued (`ImagesOwned`) and that the call under
    way names a skin and, where it needs one, an image (`CallSound`).
  + `RevisionsRecorded`, `ChangesAreOfWhatWasShown`: no revision after that of the
    row has been recorded (`RowSound`); what pages and requests hold is the row at
    some earlier version, or the row as it is (`Past`, `Known`), so a version that
    is still current names the whole row.
  + `RenamesOfWhatWasShown`: likewise for a record; after a refusal the record is
    past the version the rename was based on, and what is read then is later.
  + `AccountsComeFromOneLink`: an accepted invitation is the only one (`OneInvitation`)
    and never becomes another state, whatever calls about it are under way.

  The console's modules assume what the pages and tables have: there is an event,
  a skin and an invitation to begin with, ids are not the "none" of the code.

* **LobbiesProofs.**
  + The snapshot store, for all ways a command can fail: `Tombstone`;
    `ForwardInALife`, with the exception the property states (from a save that was
    executed without an answer the key may go back until a write is recorded);
    `FirstObjectIsDurable`, while no command of the process has failed (`failed`).
    `OrderInv` relates the versions of the saves under way to the content they
    carry: within a life they are ordered alike, and the last version written
    bounds what is in the key. `FirstInv` adds that in a first life the room's
    newest change is in the key or under way.
  + `PagesStayCurrent` is `WatchIsCurrent`. That a page shows nothing older than its
    socket needs what is on its way to a socket to be built after the socket was
    admitted (`LineSound`, `CastSound`); that it settles needs the last message to
    each socket, on its way or in its inbox, to be the table as it is whenever
    nobody owes the spectators a look at it (`Settles`). The assumption is that 0,
    the page without a socket, is none of the sockets.
  + `LobbyOfTwosIsSound` is `TeamsSound`, for any even number of seats; the code has 4
    and 6. Sizes of teams are compared by maps between places: who stays at the
    start has a place of his own before it (`StaysAs`), a table with two in every
    team is full and a full one with no more than two has two in each
    (`TwosFillTheTable`, `FullOfTwos`), so a bot that joins a smallest team never
    makes three. The loop that seats the bots is a recursive function, shown to
    exist (`FillExists`) before anything is said of it.
  + `LobbyPageIsSound` is `LobbySound` for any rooms, calls and claims under way.
    `LobbyInv` is that two active rooms that are not `behind` are one; a creation
    adds a room that is `behind` or the first. `LoginInv` says that while no claim
    came late, the row has the last claimed day, the streak that ends there and the
    best one (`RowSound`), and that neither the row nor a claim is ahead of the
    clock (`NotAhead`); each late claim lets a day be paid once more (`PaidBound`).

* **GameClientProofs.** `TabStaysSound`, `PageShowsTheRoom` and
  `SeatStaysWithSocket` are the three invariants of the run, for any sockets, turns,
  kinds of turns and messages under way, with React rendering between two messages
  or not. None is inductive. `ClientInv` has the socket hook's part (`SocketsSound`,
  `RetrySound`, `AtHome`): only the mounted hook's socket has handlers, a hook that
  waits for its timer listens to nothing, and a mounted page listens, waits, or
  was told that the room is closed. What relates the page to the room is
  `FollowInv`. Three kinds of message show where the room stands (a lobby state, a
  state update, the end of a game); the last of them on its way says what the room
  is now, and when none is on its way the hook shows it. `Rendered` says that the
  page is the one its hook leads to once React has rendered. `SeatStaysWithSocket`
  is inductive with it: the seat leaves the page's open socket by a message that
  tells the page to go, by the socket's death, or to a socket that the tab had
  dropped, and then the room is `overtaken` until the next socket is let in. The
  attempt made the property stronger than it was: it used to assume that the player
  has a seat, and this now follows. `ClosedRoomIsNotRetried` is the half of
  `DeadRoomIsOver` that is not about fairness.

* **AdminSessionProofs.** `SessionStaysSound`, `WaitersHaveACall`,
  `SentAgainWithinASession` and `GivesUpOnlyADeadSession` are the four properties of
  the run, for any number of requests and session rows. `SessionInv` has three
  parts. `ShapeInv` says which calls and requests can be under way with which state
  of the provider: the refresh whose answer is still wanted is the shared one, and
  only requests of the session of now are `mine`. `RowInv` says who knows a row: a
  new one is known to nobody but the answer that brings it (`AnswersAreNew`), so no
  request was refused with it, and what was refused stays refused. `CalmInv` holds
  while `fault` does not: two refreshes are never of one family
  (`FamiliesApart`), a refresh without a cookie is not of the token's family
  (`NoCookie`), and a request that has its second try has it with a token nothing
  under way can replace (`SecondTry`, `Settles`). The attempt corrected
  `GivesUpOnlyWhenDead`. It used to say that the cookie is then of no live row, and
  the run, with three rows, agreed; the invariant would not go through, and with
  four rows TLC shows why: the answer of a refresh that was under way at a sign-out
  can set the cookie of the session that was signed out, beside the one of now, and
  a refresh from the security page can cross a request that was refused before it.
  The property now speaks of the family of the token, and such a crossing is a
  `fault`. A wrong code for the second factor is no fault of the tab's world and
  ends a session that goes on; the property and the theorem are therefore about
  tokens that are not accepted, and `WrongCodeEndsNothing` (section 6) is the
  sentence that fails.

`StoreIsSound`, `ClockIsSound` and `OwnersAreSound` put the parts together as the
runs check them.

Every safety property of a passing run is the statement of a theorem. Only
model-checked is what is temporal with fairness: `GameEnds`, `WaitsEnd`, `TurnsEnd`,
`SupersededOwnerStops`, `ComesBack`, and of `DeadRoomIsOver` that a dead room is left.
They are out of the prover's reach, as is `ENABLED`, so the theorems have what they
rest on: a live table has a move and moves use up cards, a live game has a clock, a
countdown its timer, an owner its renewal, and a page that lost its socket the
timer that opens another. Induction over data is done by hand where a proof needs
it, with the least element of a set of numbers.

## 6. Where the code does not do what is said or expected

Two runs end with a counterexample (`PROJECT.json`, `findings`, quotes the
sentences). `result_is_scored`: a return to the lobby empties the table under the
goroutine that scores it, which indexes an empty slice. `reclaimed_room_has_clock`:
a turn timer that fires while the replica does not own the room is used up, and a
replica that claims a room it still holds arms no other, so that with the player in
turn away the game stands still; `TurnsEnd` names this case and is about the others.

The modules state more sentences that do not hold, at their ends. Those with a
configuration here are run with `tlc -config <it>.cfg <module>`; the others end
in a counterexample with the constants named, under the specification of the
module (or of its MC module).

Sentences of documents, comments and messages of the code:

| Statement | How to see it | What TLC shows |
|---|---|---|
| `Room!OnlyHostStarts` | `ResultsSpec`, 3 users and seats, `MinToStart = 2`, `MaxJoins = 3`, `MaxDeals = 2`, `VIEW RoomView` | an object without a seat keeps its index 0 and starts the game |
| `Room!RemovedUserIsGone` | `ResultsSpec`, 2 users, `MaxJoins = 3`, `MaxDeals = 2` | a stale grace timer drops the row of a user who has a new seat |
| `Room!LostSeatLosesRow` | `ResultsSpec`, 3 users, `MaxJoins = 3` | a held seat that the countdown drops keeps its row |
| `Room!RematchIsUnanimous` | `ResultsSpec`, 3 users, `MaxJoins = 4`, `MaxDeals = 2` | votes of the disconnected are counted |
| `Room!EmptiedRoomIsTornDown` | `ResultsSpec`, 2 users | a countdown without votes leaves the room object |
| `Room!TornRoomIsEmpty` | `Spec`, 1 user, `MaxJoins = 2` | a join between the last leave's unlock and its teardown sits in a dropped room object |
| `Room!GameIdIsOfThisGame` | `ResultsSpec`, 2 users, `MaxDeals = 2` | the id of the last game is stored with the next |
| `RoomApi!KickedStaysOut` | `MCKickedStaysOut`, `MCRoomApi` | a join that was checked before the kick inserts its row after it |
| `RoomApi!NeverOverbooked` | `ApiSpec`, 3 users, 2 seats | two joins count the last place before either has the lock |
| `RoomApi!ListedAsRunning`, `ListedAsWaiting` | `ApiSpec`, 2 users, `MaxDeals = 2` and 1 | status updates overtake each other |
| `SnapshotStore!EveryChangeIsDurable` | `MCEveryChangeIsDurable`, `SnapshotStore` | the tombstone of a torn-down room refuses every save of its successor |
| `SnapshotStore!NeverBackwards` | 6 changes, 3 lives, no failures | a torn-down object's save lands on its successor's |
| `SnapshotStore!TornRoomIsNotLoaded` | 4 changes, 3 lives, no failures | a join before the delete restores the deleted lobby |
| `SnapshotStore!ForwardThroughSilence` | 3 changes, 1 life, `Failures = "unanswered"` | the same without its exception: a save that was executed but not answered is overwritten by an older one |
| `TurnClock!OnlyOwnerAutoPlays` | `ClockSpec`, 3 turns, 1 restart | the ownership is read before the lock |
| `TurnClock!ReclaimedRoomHasClock` | `MCReclaimedRoomHasClock`, `TurnClock` | a timer that fires without ownership is used up |
| `TurnClock!ResumesAlone` | `ClockSpec /\ ClockFairness`, 3 turns, 1 restart | after a restart a game waits for a client |
| `Ownership!SingleConsumer` | `LeaseSpec`, 2 tokens, `MaxClosing = 1` | `Demote` unlocks before it closes its subscription; a promotion in between opens another, and both deliver |
| `Ownership!DemotedOwnerStops` | `MCDemotedOwnerStops`, `Ownership` | sockets that stay attached to a demoted replica still move |
| `Ownership!HigherTokenWins` | `LeaseSpec`, 3 tokens, 2 moves | no write carries the token |
| `Ownership!TakeoverRehydrates` | `LeaseSpec`, 3 tokens, 2 moves | a replica resumes with the object it kept |
| `Ownership!EveryOwnerHasToken` | `LeaseSpec`, 3 tokens, 2 moves | a second admission promotes with token 0 |
| `TeamLobby!TeamsOfTwo` | 4 seats | newcomers join team 0 whatever its size |
| `SevenSpadeEngine!UnknownIsHidden` | 2 players, 2 decks, 1 suit | with two decks, duplicates on the table stay unknown to a bot |
| `GameClient!FinishedRoomShowsResults` | `MCFinishedRoomShowsResults`, `MCGameClient` | `docs/roadmap.md` (101-103) has a reconnect to a finished room show the results; GamePage asks the API and sends the player to the history |
| `GameClient!NoStaleSelection` | 2 turns, 1 message under way | GamePage says that leaving the face-down mode clears the selection; two face-down turns in a row are one mode |
| `DailyLogin!ClaimedStaysClaimed` | 3 days, 1 claim | the counter that drops old loads does not count claims: a load sent before a claim takes it back on the page |

What a user would expect:

| Statement | How to see it | What TLC shows |
|---|---|---|
| `GameClient!LatestPageHasSeat` | constants of `MCGameClient` | a socket dropped in its handshake is let in after the next one, or its "leave" is read after it |
| `GameClient!NoStalePipSelection` | 2 turns, `UsePiP` | the floating board never clears its selection |
| `Watcher!OverIsShown` | 2 sockets, `LastChange = 3`, `MaxCasts = 2` | a state message that arrives late hides the results |
| `Watcher!AvailableIsShown` | 2 sockets, 3 changes | "not available" stays when the next socket is admitted |
| `WebLobby!NeverInTwoRooms` | 2 rooms, 2 calls | a creation looks before another call takes a seat and creates after it |
| `DailyLogin!PaidOnceADay` | 3 days, 2 claims | a claim stamped before midnight commits after one stamped later and takes the row's day back, so the later day pays again |
| `Replay!ReplayEndsLikeTheGame` | `MCSpec` of `MCEngine`, 3 players, 1 deck, 2 suits, `Two = 6`, `King = 8` | the replay asks whether an Ace could close a suit at either end and not by the method the table chose, so it misses sweeps |
| `AdminSession!WrongCodeEndsNothing` | 2 requests, 3 rows, no faults | a wrong code for the second factor is answered like a token that is not accepted: the wrapper refreshes, is denied again and ends a live session |
| `AdminSession!LaterSessionSurvives` | 1 request, 3 rows, no faults | a request of an earlier session that is refused late ends the later one |
| `AdminSession!SignedOutIsOver` | 1 request, 3 rows, no faults | a sign-out revokes the row of the cookie it went with; a refresh under way has replaced that row, so the session lives on, and its late answer sets the cookie again |
| `AdminSession!TokenOfTheAdmin` | 1 request, 5 rows, faults | a refresh with the cookie of another tab's administrator |
| `AdminSettings!HalfSaveIsShown`, `StoredIsLegal` | `SettingsSpec`, `MaxXP = 2` | a save that failed halfway is not read again; numbers checked one at a time against a concurrent save end up not fitting |
| `AdminSkins!ShownIsStored` | 2 skins, 2 images | a change of the address while a call is under way shows a mixture |
| `AdminSearches!EmptyMeansNone`, `TurnsFromShown` | as in the run | an empty list after a failure; a second click turns two pages from what is shown |
| `AdminEvents!ShowsAddressedEvent`, `TypedTextSurvives` | 2 fetches | a late answer shows the event before, or replaces what was typed |
| `AdminDossiers!RenameKeepsAccess` | `DossiersSpec`, 2 records, 2 reads, `MaxRecord = 2` | the row that UpdateUserDisplayName returns has no suspension, so the page shows a suspended user as active |
| `AdminDossiers!ShowsAddressedRecord`, `AnnotatesWhatIsShown` | as in the run | a late answer shows the record before; the annotation goes to the address |
| `AdminDossiers!SavesKeepOthersWork` | `MaxRecord = 3` | an achievement is saved without a version |
| `AdminStaff!OneOpenInvitation`, `DisabledHasNoSession` | as in the run | an expired invitation is reissued beside a new one; a login that was checked before the account was disabled gets its session after |
| `AdminStaff!ShownLinkWorks` | 2 calls | of two reissues the earlier answer may arrive last |

Met while modelling, without a statement of their own: with two decks the replay
sweeps too early (it takes a row for its ends), starts with the first seat that
has a Seven of the starting suit where the engine follows the order of the deal,
and has that suit fixed to spades; the form's own scores go from 0 to 99 where the
API takes 1 to 100; SpectatorPage never calls the hook's `reconnect`.

## 7. What is left out

* Payloads, wording, scores, avatars, rate limits, logging, layout.
* In `Room`: restarts (`SnapshotStore`, `TurnClock` have them), spectators, emotes,
  remote players (a remote player's object is one whose session is empty), the
  moves of a game. Moderation's access check closes sockets: `Drop*`.
* In `SnapshotStore`: the TTL of the key (it is renewed by every write). A command
  whose answer does not come is executed before its error is returned or not at
  all.
* In `Ownership`: the content of the relay's messages; a paused process is one
  whose lease expires.
* In `RoomApi` and `WebLobby`: the Elo window; the two are not composed (one room
  with all its calls here, one player with all their rooms there). In `WebLobby` a
  GET is served and answered in one step.
* In `Watcher`: a spectator's emotes, and other replicas.
* In `AdminSession`: what a second factor checks; in `AdminStaff`: creating roles,
  and enrolment; in `AdminDossiers`: account deletion and the exports.
* The edge relay and the broker: what they add to `Ownership` is a transport that
  loses messages between two replicas, and most of its correctness is time (ten
  seconds of retries, heartbeats), which these models do not have. The reconciler
  likewise lives by ages of rows.
* The components listed as `not_modelled` are I/O, read-only projections, single
  transactions per request, or configuration.

## 8. What could follow

1. `EdgeRelay` (join retry, shared subscriptions, leaves counted per edge, composed
   with `Ownership`'s consumer); restart and restored lobbies in `Room` by way of
   `SnapshotStore`; `SaveGameWithRetention` under repeated submissions.
2. Abstract specifications: a room's *register* for `SnapshotStore` under the
   assumptions of `FirstObjectIsDurable`; a *game* as a sequence of turns, for
   `TurnClock` and `SevenSpadeEngine`; `LatestAnswer` for the detail pages once
   they drop late answers.
3. Proofs: the sentences of section 6 that hold but for a case a history can name,
   with that exception (as `SeatFollowsSocket` has `room.overtaken`); liveness, with
   a prover for `ENABLED`, from the theorems that state what it rests on.
