# TLA+ verification of five-stones

five-stones is a C++17 server for five-in-a-row (gobang): HTTP for registration
and login, WebSockets for the hall (matching), the room (the game) and
spectating, MySQL for users and scores, optionally Redis as a cache. The code is
header-only under `five-stones/include`. This directory holds TLA+ modules of
its concurrent and stateful core, the TLC configurations that check them on
small instances, and proofs that the TLA+ proof system checks for every instance.

Paths below are relative to `five-stones/include` unless they say otherwise.

## 1. Inventory

### How the program runs

`gobang_server::start` calls `_wssrv.run()` on one thread. All HTTP handlers,
WebSocket open, close and message handlers and session timers run there, one
after the other: a handler is never interleaved with another handler. Three more
threads, one per matching pool, run `matcher::handle_match`; they share the
pools, `online_manager`, `room_manager` and `user_table` with the io thread, each
behind a mutex of its own. So the steps to interleave are: whole handlers on the
io thread, except where a handler gives up a lock and takes it again and a
matcher thread can come between (`remove_room_user` then `remove_room`); and, on
a matcher thread, what happens under one lock.

A connection has a state of its own. `in_game_hall`, `in_game_room` and the
`get_conn_*` lookups ask for a map entry whose connection is *open*; websocketpp
takes a connection out of that state before it runs the close handler. Being
present therefore ends some time before the server handles the departure.

### Components

| component | state | operations | what makes it correct |
|---|---|---|---|
| `room` (room.hpp) | board, seats, turn, clocks, status, player count, rematch initiator, spectators | put_chess, timeout, rematch_invite, rematch_accept, chat, handle_exit | a round is settled exactly once and for a reason; stones alternate; a row ends the round; clocks never empty while running; every clocked round ends |
| `room_manager` (room.hpp) | `_rooms`, `_users`, `_next_rid` | create_room, remove_room_user, remove_room, lookups | the two maps agree; ids are not reused; a room lives as long as it has players |
| `online_manager` (online.hpp) | `_game_hall`, `_game_room` | enter, exit, lookups | nobody is in both; presence rests on an open connection |
| `gobang_server` (server.hpp) | connections, through the others | open, close and message handlers per endpoint; reg, login, info | handlers keep the other components consistent with each other |
| `matcher`, `match_queue` | three pools, three threads | add, del, handle_match | no request lost; two users who wait get a game; a pair is two users |
| spectating (room.hpp, room_manager, server.hpp) | `_spectator_conns` per room | join, snapshot, broadcasts, close | who watches sees the round as it is played |
| `session_manager` (session.hpp), session caches | sessions, timers, Redis copies | create, get, set_session_expire_time | the session of a user inside does not expire; every other one does; a login replaces nobody |
| `user_table` (db.hpp), user caches | users, scores; cached copies | win, lose, select | a record is what the games counted make it; a stale copy has a cause and an end |
| page of the room (`resources/wwwroot/game_room.html`) | board, seats, turn, clocks, rematch panel | clicks, one timeout report, handlers of messages | a page that has heard everything shows what the room holds |
| other pages, util, app_config, logger, main | none that matters here | | |

Interactions: a hall message calls `matcher::add` or `del`; a matcher thread looks
users up in `online_manager`, calls `room_manager::create_room` and sends
`match_success` to both hall connections; the pages then leave the hall and open
`/room`; room messages go to the room the *user* is mapped to; a room asks
`online_manager` who is present and calls `user_table::win` and `lose`; closing a
room connection calls `exit_game_room` and `remove_room_user`.

Hard behaviour: connections that overlap (reload, second tab), close handlers that
run late or for a connection that never entered, requests that race clocks and
exits, messages on the way while the room goes on, removals between the matcher's
steps, timers that are due when they are cancelled, a restart that Redis and the
browsers outlive, cached rows that race an update, and failures of the database,
of Redis or of the session in the middle of a handler. `PROJECT.json` lists each at its line
under "hazards".

## 2. Modules

| module | models | built on |
|---|---|---|
| `FiveInRow` | the pure part of `room`: `five`, `check_win`, with `HasRow` as reference | |
| `FiveInRowProofs` | theorems about FiveInRow | FiveInRow |
| `RoundContract` | what a room promises: rounds, seats, one settlement each (abstract) | |
| `RoomLife` | the life of rooms seen from outside: seats, count, status (abstract) | |
| `Room` | one room from `create_room` to `remove_room`, with the `/room` connections of its players | FiveInRow; implements RoundContract and RoomLife |
| `RoomProofs` | theorems about Room | Room, FiveInRowProofs |
| `Matchmaking` | what the matcher does to users: entries, and the pairs rooms are made for (abstract) | |
| `Lobby` | hall, rooms, mappings, sessions, connections of all users | Matchmaking; implements RoomLife |
| `LobbyProofs` | theorems about Lobby | Lobby |
| `Matcher` | pools and matcher threads | implements Matchmaking |
| `MatcherProofs` | theorems about Matcher | Matcher |
| `View` | the script of the game page as a function of messages; the room's handlers with what they broadcast | Room |
| `Page` | one room, the pages of its two players, and messages in flight both ways | View |
| `PageProofs` | theorems about Page | Page, RoomProofs |
| `Spectate` | one room and the tabs on which another user watches it | View |
| `SpectateProofs` | theorems about Spectate | Spectate, RoomProofs |
| `Session` | sessions, timers, Redis copies, cookies, restarts | |
| `SessionProofs` | theorems about Session | Session |
| `UserCache` | the table of users behind its cache, command by command | |
| `UserCacheProofs` | theorems about UserCache | UserCache |
| `MCFiveInRow`, `MCRoom`, `MCLobby`, `MCMatcher`, `MCPage`, `MCSpectate`, `MCSession`, `MCUserCache` | instances for TLC | |

Room, Lobby and Matcher are three views of one system, cut where they meet:
Matcher ends where `create_room` inserts; Lobby begins there, and keeps of a room
only seats, count and status; Room is what goes on inside. The room's steps appear
in Lobby as `RoundEnds` and `Rematch`. That Lobby and Room mean the same by a room
is not left to names: `RoomLife` says what can happen to a room as seen from
outside, and both implement it, Lobby with all rooms (`RoomsLive`), Room with its
one (`RoomLives`). Nor is what the matcher may do to Lobby: the matching steps of
Lobby are those of `Matchmaking` (who has an entry, who has several, which pairs a
thread has found in the hall), and Matcher, with its pools, locks and scores,
implements that module (`ImplementsMatchmaking`). So no pair comes about in Matcher
that Lobby does not know; the proof of it showed that one step for the two looks of
`create_room`, which are under two locks, is too strong, and Lobby takes them apart. Page and Spectate compose Room, unchanged, with who listens to it:
each of their steps is a step of Room together with the message the code sends
there, or a step that leaves the room alone. Session and UserCache stand below
the others, which see of them only that a session may be missing and that a
call of the database may fail.

### Room

The variables are the members of class `room`, plus `online`, `conns` and
`closing` for the players' connections, `won` and `lost` for the calls of
`user_table::win` and `lose`, and `rounds` and `echoed` as history. `elapsed` stands for
`now - _turn_start_tp`: it advances while a round with running clocks is under
way. One action per branch of `handle_request`:

| code | action |
|---|---|
| put_chess, game over or not your turn | `PutChessRefused` |
| put_chess, step or total expired | `PutChessTooLate` |
| put_chess, `handle_chess` | `PutChess` (refused cell, absent player, stone, row) |
| timeout | `TimeoutRefused`, `TimeoutSettled` |
| rematch_invite | `RematchInvite` |
| rematch_accept, `start_rematch` | `RematchRefused`, `RematchStart` |
| chat, unknown request, wrong room id | `Talk` |
| `wsopen_game_room` | `wsopen_game_room` |
| connection leaves the open state | `Drop` |
| `wsclose_game_room`, `remove_room_user`, `handle_exit` | `wsclose_game_room` |

Kept from the code though it may surprise: an absent player loses when either
player puts a legal stone, before the cell is looked at and without the stone
being placed; before the first stone either player may move; a close handler acts
for the user, whichever connection closed; a count once lowered is not raised.
And `handle_chess` answers with a copy of the request: a stone that is refused keeps
a `winner` that came with the request, and the settlement (room.hpp:480) is outside the
branch for stones that were accepted. So `PutChess` takes what the request names as
`claim`, nobody or any of `Winners`, and a refused stone with a claim ends the round for
that uid. One that does not play (`Stranger`) wins it, and white loses it. No page sends
the field; `echoed` notes that a round ended so.
A request names the uid of the player who sends it, as the page does.
`SessionCanExpire` says whether a player's session may be gone when a handler asks
for it; the handler then returns at once.

Left out: broadcasts and spectators, which View, Page and Spectate add; user names.

### Lobby

Variables are the maps of `online_manager` and `room_manager`, the session of each
user, and per user and endpoint the connections that are open or waiting for
their close handler. A handler is one step, except that `remove_room` follows
`wsclose_game_room` as a step of its own: `removing` names the room meanwhile, no
other handler runs (`IoIdle`), but `create_room` may. `handle_match` goes as far as
the two looks of `create_room` into the hall, a step each, and `create_room` is what
follows under the lock. `EnterTwice` says whether a user with an entry may be given
another. A user has
at most one session here; logging in again is in module Session.

### Matcher

One step per lock. `pc` and `hand` give each thread's place in `handle_match` and
the uids it has popped: wait, two pops, two looks with `get_conn_from_game_hall`,
two more in `create_room`, the room, and the calls of `add` that put back. The io
thread adds and removes entries, users come and go, scores move a user to a
neighbouring pool, and every `add` and `del` may fail with the database.

### View, Page and Spectate

`View` holds the page as a record: the script's variables (`status`, the
board, `roomInfo.white_id`, `myTurn`, `activeThinkingUid`, the two rests,
`timeoutSent`, what the rematch panel offers) and one operator per branch of
`onmessage`. The handlers of the room reappear with a parameter `broadcast`, so
that each step of Room is joined to the message the code sends in it and the two
compositions differ only in who hears it. An answer with `result = false` changes
nothing the page holds and is no message here (`Quiet`), but it opens an alert, which
is in Page; chat is left out. The rest in `left` is read only
while the clock ticks and is given anew at each start, so other places of the
script that set it are left out too.

`Page` puts a queue each way between a player's page and the server. Clicks,
`tickClock` at zero, and the buttons of the rematch panel append requests that are
taken from the page's view, old or not; `wsmsg_game_room` handles the next one.
At zero every page stops its clock and sets `timeoutSent`; only the page of the player
it shows to move sends.

The room tells a refusal to both players, and the page answers with `alert()`, as it
does when the other player has left. Until its user dismisses it no timer of the page fires and no message
is heard. `alerted` has the players with an alert before them, from the broadcast on;
`Dismisses` takes it away. Since the alert comes up at some later moment, when the
message is heard, a page in `alerted` may still go on: safety is shown with
the alert and without it. But nothing makes it go on, which is what liveness has
to do with (see Fairness). Left out are alerts the page opens at a vain click of its
own user, those for chat that is refused, and those of a spectator's page, which
sends nothing: there an alert is one more delay.

A connection that drops loses what is on the way, and a page opened again starts
as the script does: an empty board, told the seats by `room_ready`. (That it opens
in the middle of a round does not happen: the other page has been closed, and
closing ends the round.) `late` records that a page was opened when the round was
over. A player has one page at a time and sessions last; overlapping connections
and lost sessions are in Room and Lobby.

`Spectate` has one user with several tabs. `_spectator_conns` is a map by uid, so
the room holds at most one tab: a second join replaces the first, and a close
handler, which knows the uid only, removes whichever tab is held. A tab sends
nothing after `spectate_join`, so when a message reaches it makes no difference
to the room, and a message is shown when it is sent.

### Session

`sessions`, `next_ssid`, `timers`, `copies` (Redis) and the browsers' cookies.
A timer is free, running, or due: one that is due waits in the io thread's queue,
where `cancel` no longer stops it. `late` names the sessions this happened to.
`ExpiresLater` and `ExpiresNever` are the branches of `set_session_expire_time`;
`Renew` and `Keep` add what is done to the copy. A handler is described by what it
does to the session its cookie names: nothing (`Stops`), a lookup that makes a
session of the copy (`Restores`), a renewal, or `SESSION_FOREVER` on entering. A
Redis command may fail, a copy may expire at any time, and `Restart` empties the
process and leaves Redis and the cookies. The no-op cache is the case in which
every command fails.

### UserCache

A call of `user_table` goes through places (`pc`): a reader queries under the
mutex, then sends SET, SET, EXPIRE, EXPIRE without it; `win` and `lose` update and
then GET, DEL, DEL with the mutex held. Each command is a step and may fail, which
skips the rest. A key without a time to live (`timed` false) stays until somebody
drops it: SET ends the time a key had. `lose` fails as a whole on a score below
30, the column being unsigned. `failed` and `raced` name the users about whom a
command failed, and those updated while a reader held their row.

## 3. Runs

| run | result | bounds |
|---|---|---|
| MCFiveInRow | pass | 15 by 15, row of 5; stone at rows and columns 0, 3, 7, 14; every pattern within 4 cells on each line |
| MCRoom | pass | 1 by 5 board, row of 3; clocks 3 and 2, tolerance 1; 2 rounds, 1 connection per player, sessions last, requests may name any winner |
| MCRoomRefresh | violation | as MCRoom |
| MCRoomTwoTabs | violation | as MCRoom, 2 connections per player |
| MCPage | pass | 1 by 2 board, row of 2; clocks 1 and 2, no tolerance; 2 rounds; 2 messages on the way to each page and 1 request from it; fairness |
| MCSpectate | pass | 1 by 3 board, row of 2; clocks 2 and 1, no tolerance; 2 rounds, 2 tabs, sessions may expire |
| MCLobby | pass | 2 users, 1 matcher thread, 2 rooms, nobody entered twice, 2 connections per user, of them at most 1 of the hall |
| MCLobbyStale | violation | 3 users, 2 rooms |
| MCMatcher | pass | 3 users, 2 pools, 1 entry per user; fairness |
| MCMatcherSelf | violation | 2 users, 1 pool, 2 entries per user |
| MCSession | pass | 2 browsers, 2 ids, 2 timers, 1 connection per id, 1 restart; fairness |
| MCUserCache | pass | 1 user, io thread and 2 matcher threads, score 40, 2 games; fairness |

What they ask:

- **MCFiveInRow**: `check_win` finds a row exactly when there is one through the stone.
- **MCRoom**: a round is settled once, with one win and one loss, and whoever wins it
  as a player, the other one has lost it (`SettledOnce`);
  running clocks never go below zero (`ClockedRound`); an invitation does not
  outlive its round (`InviteConsumed`); stones are put in turn (`StonesAlternate`); no
  round goes on over a row (`NoRowWhilePlaying`); who loses has run out of time,
  is out of the room, or faces a row (`LossIsEarned`); and Room implements RoundContract.
  LossIsEarned has two exceptions, both in the code: the close handler of one of a
  player's connections while another is open, which is the disagreement MCRoomTwoTabs
  shows, and a round that was `echoed`. It does not say that the loser's absence was
  his doing: right after a match, who has not opened `/room` yet can lose.
- **MCPage**: a page with nothing on the way to it shows the board, the seats and
  the turn of the room (`PageFollows`), or that the round is over (`EndIsSeen`); the
  one timeout report of a page is never refused as too early (`ReportCounts`); an
  open invitation is offered to the other player (`InvitationShown`); black opens,
  though the server takes the first stone from either (`BlackOpens`); and a clocked
  round ends, if the players dismiss the alerts before them in the end (`RoundEnds`).
- **MCSpectate**: what a spectator sees is the round that is played
  (`SpectatorFollows`), with the clock of the player the room charges (`ClockOfMover`);
  and the room lives as RoomLife allows (`RoomLives`).
- **MCLobby**: the maps of rooms and users agree, nobody is in
  hall and room at once, who is present has a connection, empty rooms are removed,
  and each room lives as RoomLife allows (`RoomsLive`): no count rises or goes below
  zero, no round starts in a room that counts nobody, no id has two lives.
- **MCMatcher**: who asked and was not answered is in a pool or in a thread's hands
  (`AskedIsWaiting`); two who wait meet (`WaitersMeet`); and Matcher implements
  Matchmaking (`ImplementsMatchmaking`).
- **MCSession**: a session has a timer of its own that runs or is due, or a
  connection whose close handler will put it on one (`SessionsWatched`); a login never takes another's session (`LoginReplacesNobody`);
  a user inside keeps his session (`KeptStays`); a session nobody can name ends
  (`SessionsEnd`).
- **MCUserCache**: a key without a time to live is about to be given one, or a
  command failed (`EntriesExpire`); a stale copy is explained by an update under way, a race or a
  failure (`StaleExplained`), and races heal (`CacheCatchesUp`).

Why the bounds are enough. On 1 by 5 with 3 in a row, black can win with its third
stone, white can block, and the board can fill without a row; rows in two dimensions
are the matter of MCFiveInRow. A step of 2, a total
of 3 and a tolerance of 1 let each of the four comparisons of `handle_request` come
true first. Two rounds cross one rematch, so seats have been swapped. In MCPage two
messages to a page let `rematch_start` and the next round's first stone be on the way
at once. One request from a page is enough for a second click before the answer,
since the answer is still on the way when the room has taken the first; two stones in
the queue together are covered by the proofs, for any length. On two cells a round ends by
the clock or by a departure, and rows are the matter of MCRoom and MCSpectate. There the
total is the shorter clock, so a page is at its end while the room's clock can still go
on to the step, and without a tolerance no report that comes early is let through.
Three cells let a spectator join after 0, 1 or 2 stones and see a row. In MCLobby
two rooms let a second room be made while the first is empty, mapped or being
removed; two connections of a user let a refused /room connection exist beside the
entered one, or one of the hall that is not closed yet. In
MCMatcher three users let a pair be broken up by the third, two pools let a score
change between `add` and `del`; users with more than one entry are the matter of
MCMatcherSelf and of the proof, which holds for every MaxEntries. In MCSession two ids and one restart let an id be
handed out again while a browser holds it, and two timers let one be due while the
next one runs. In MCUserCache a score of 40 pays for one loss and not for a second,
and three threads let two readers fill while a third updates. A counter that is not
a bound of the code is bounded in the guards by a constant whose comment says
"bound". All safety properties of the passing runs are also proved, for every value
of the constants that the modules' assumptions allow (`BlackOpens` for rows of more
than one stone).

Deadlock is checked in MCLobby, MCMatcher and MCUserCache. It is not in the MCRoom
runs, MCPage and MCSpectate, where a room that has been removed stops; in MCSession,
where all ids and restarts may be used up; and in MCFiveInRow, which enumerates
patterns until there are no more.

Fairness. In MCPage time passes; the io thread handles requests and close handlers
that wait, as long as there are any; each page's event loop goes on with the next
message or with its clock, which `tickClock` in `game_room.html` looks at on an
interval timer. It does so while no alert is before the page (`FreeLoop`): what waits
behind an alert is done when it is dismissed, so the fairness is strong, and a page that is
free again and again does in the end what it has to. That alerts are dismissed is up to
the users and no fairness of the code, so it is a premise of `RoundEnds`
(`AlertsDismissed`). Without it the round can hang: a second click, refused, puts an alert
before the *other* player, who is to move; his page then does not report its timeout, and nobody
else may report it: the round ends only when he dismisses the alert or somebody
leaves. Nobody is assumed to click on anything else, to come back or to leave,
and a network that is silent without closing is not covered: there the one report is
lost and the round goes on. In MCMatcher each thread goes on when it can: `push` notifies, and
`wait` uses a predicate, so no wake-up is lost; users are not assumed to do
anything. `WaitersMeet` holds once the users stop coming, going and asking; users
who never stop can keep breaking up the pair two others would form. In MCSession a
running timer comes due, one that is due fires, and close handlers run; Redis is
assumed nothing. In MCUserCache a thread goes on with its call, since Redis answers
or its connection fails, and Redis removes a key whose time is over.

### Disagreements found

Each violation run checks one statement that a comment of the code makes.

- **MCRoomRefresh**, `RemovedOnlyWhenEmpty`. After the game one player reloads the
  page twice; each close counts him out, no open counts him in, and at zero the
  room is removed while the other player is inside (room.hpp:303, :740).
- **MCRoomTwoTabs**, `ForfeitMeansGone`. A second tab is refused; closing it runs
  the close handler for the user, who loses the game he is still playing in the
  first tab (server.hpp:518, room.hpp:271).
- **MCLobbyStale**, `CreatedRoomIsMapped`. A player leaves a room where the other
  player remains, or never opens `/room`, and is matched again: `insert` keeps his old
  mapping, and `/room` sends him back to the old room (room.hpp:691-694).
- **MCMatcherSelf**, `TwoPlayers`. Asking, leaving the hall (as a reload does), entering
  it and asking again leaves two entries of one user, who is then paired with himself (match.hpp:38).

One more thing a reader may stumble over: `info` puts the session of a user who is
inside back on its timer (server.hpp:328), although entering had set it to last
(server.hpp:384). In Session this is a renewal like any other: `KeptStays` speaks of
sessions while they are on no timer.

## 4. Proofs

`tlapm` checks eight modules. All rest on the named assumptions about the constants
(`BoardAssumption`, `RoomAssumption`, `PageAssumption`, `SpectateAssumption`,
`LobbyAssumption`, `MatcherAssumption`, `SessionAssumption`, `UserCacheAssumption`),
`BlackOpensRounds` also on `FIVE > 1`, and on nothing else; the library's theorems
used are those of FiniteSetTheorems and SequenceTheorems.

**FiveInRow.** A walk is the number of steps that meet no other stone before them. A
set of numbers from 1 on without a gap is determined by its cardinality
(`Gapless`), so two walks add up to a row exactly when there is one through the
stone (`CheckWinIsRowThrough`), on every board and for every length of row; and on a
board without a row nothing else has to be looked at (`CheckWinDecides`).
`CheckWinFinds` is about the boards MCFiveInRow goes through, but of any size, with
the stone anywhere: all stones of its color are on one line, so a row cannot lie in
another direction (`OneDirection`) and, being as long as it is, reaches over the
stone (`RowOnLine`). MCFiveInRow is instantiated there with its variables as
parameters.

**Room.** The inductive invariant `Inv` is TypeOK, distinct seats, SettledOnce,
ClockedRound, InviteConsumed and AbsentMeansLeaving. SettledOnce alone is not
inductive: that a settlement writes one win and one loss of *different* players, or,
for a Stranger, a loss of white, needs the seats to be distinct and to hold players. ClockedRound rests on the test
a stone passes before it is charged (`Expired`). There is one lemma per action,
and lemmas on `Settle`, on the answer of `handle_chess` and on the clocks. From
`Inv` follow the theorems for each part, and `RoomImplementsContract`: every step
of Room is a settlement, a rematch or a stutter of RoundContract under the mapping
`playing <- statu = GAME_START`, `white <- white_id`, `black <- black_id`. Three
more are inductions of their own beside `Inv`: `StonesTakeTurns` (a stone changes one
cardinality by one and the turn with it), `RowEndsRound` (by `CheckWinDecides`) and
`LossesAreEarned`, which goes through the causes of a settlement. `RoomLivesAsSeen`
maps each step to the life of the room: settlements in the room are `RoundEnds`,
settlements by leaving `handle_exit`.

**Page.** `PageImplementsRoom` comes first: whatever pages and messages do, the room
takes steps of Room, so the theorems about Room hold and `Inv` can be used. What a
page shows has then to be compared with the room *after* all messages that are on the
way, which is a recursion over a queue. The proofs avoid it with a trace: a sequence
of pages, one longer than the queue, in which each page is what the next message makes
of the one before. The invariant says that such a trace exists whose last page agrees
with the room (`Follows`); sending appends a page, showing takes the first one off,
and neither needs an induction. `PageInv` has four parts:

- `Base`: Room's `Inv`, the types, and that a player is in the room while connected
  and that nothing is on the way to or from one who is not;
- `Follows` for every player in the room, from which PageFollows and EndIsSeen follow
  for a queue that is empty;
- `Clock`, for ReportCounts: while a round is played, the last message on the way to a
  page sets its clock as the room has it; with none on the way a clock that runs is the
  room's and not ahead of it, and the page of the player to move, when its
  `timeoutSent` is set, has its report on the way;
- `Panel`, for InvitationShown: while an invitation is pending, the last message on the
  way to a page is that invitation; with none on the way the inviter's page waits, and
  the other one offers to accept or has its answer on the way.

An alert changes neither the queues nor what a page holds, so `Dismisses` keeps all of it
(no safety property is about `alerted`).

BlackOpens needs the order of messages as well (`OpensInv`). White's page lets its
player click when it believes a round to be under way in which it is to move: since the
server takes the first stone from either, that belief must not be left over from the
round before, nor a stone clicked in that round still be on the way. Hence along the
trace (`RoundTrace`, `OverTrace`) a page that has heard of an end stays `over` until
`rematch_start`, and in a round that has not begun white's page may not click anywhere
on the trace; and in the queue of requests (`RoundQueue`, `OverQueue`) whatever a page
asked for in a round comes before its part in the rematch, so that a rematch which has
come about has left no stone behind it. `Silent` says that a player takes no part in a
rematch, being away, or having a page that plays on with no end to be told to it; while
one of the two is silent the other need not know of the end either. The exception for `late` pages is needed at just this point: such a page
shows a round under way and may have a stone on the way when the rematch starts.
`FIVE > 1` (the code has 5) is what makes a round that both players are present in end
by a request of the player to move (`EndedByMover`). With one stone in a row a late
page could end a round out of turn, and what the player to move had on the way, an
invitation from before the round and a stone of it, would count in the next; with three
rounds and three messages on the way TLC finds this.

**Spectate.** `SpectateInv` joins the room's `Inv` to `Shows`: the tab that is watching
has the board, the seats, the turn and, when it shows a clock running, the rests of the room.
`Inv` is needed since a page draws a stone in the color of the seat it believes
the mover to have, which is the room's only while the seats are distinct. That a
watched room is still a Room is `SpectateImplementsRoom`.

**Lobby.** `Inv` is TypeOK, MappingSound, IdsHandedOut, HallRoomExclusive and
EmptyRoomsRemoved. `create_room` keeps the mapping sound because the id it inserts
is new (IdsHandedOut) and because a mapping that is already there is left alone;
`remove_room` because it erases both players; that the room is still there when
the io thread returns to remove it is part of TypeOK (`removing`). The lemmas
`RegistryUnchanged`, `PresenceUnchanged` and `RoomUpdated` carry the parts an
action leaves alone. `RoomIdsNotReused` is an action property from the same
invariant (the run checks it as part of `RoomsLive`, where an id has one life), and `PresenceRestsOnConnections` a second induction on top of it.
`RoomsLiveAsSeen` needs to know that no round is under way in a room that counts nobody
(`EmptyIsOver`), when `remove_room` comes to it. That is proved of the life of rooms and
not of Lobby's actions: each step of RoomLife keeps it.

**Matcher.** `Inv` is TypeOK, AskedIsWaiting and that only users in the hall are
waiting for an answer (`AskersInHall`). Without the last a thread that drops an entry
because its user is absent could lose a request. Lemmas say what `Append`, `Tail` and
`remove` keep of a queue; `remove` is a selection in the old order of the entries of others.

`Refines` maps a state to who has an entry, who has more than one, and the pair each
thread has found so far. Matchmaking must not notice an entry that moves from a pool
to a hand or back, and must notice when a user's second entry goes. So the lemmas say
how Append, Tail and `remove` change who is in a sequence and who is in it again, and
`EntriesMove`, `EntryJoins` and `EntriesLost` what follows for all pools and hands when
two of them change. An entry in hand counts until both users are found; what is in
hand while the room is made is hidden. TypeOK is the only invariant needed.

**Session.** `Inv` is TypeOK, KeptIsConnected, `IdsBelow` (an id in memory has been
handed out since the process started, which is why a login replaces nobody),
`TimersOwned` (a timer that runs or is due belongs to the session whose handle it
is, or its cancel came too late) and its converse `HandlesLive` (the handle of a
session is a timer that will remove this session). From the last and KeptIsConnected,
which says that a session without a timer has a connection, follows SessionsWatched;
it is kept because no two sessions share a handle (`CancelSpares`). The code of a handler is cut as in the model,
into what it does to one session (`Lasts`) and what then follows for all.

**UserCache.** `Inv` is the types with every row adding up, the places of the calls
(only the io thread updates, so one holder of the mutex), `RowFresh` (what a reader is about to SET is the
row of the table, unless an update was made meanwhile) and StaleExplained; RecordAddsUp
follows. EntriesExpire is an induction of its own: `ExpiresStep` says that a promise to
set a time to live is taken back only by keeping it or by a failure, so it outlives the
SET of another call. That the scores add up (`RecordsAddUp`) and that ids are handed out
in order (`OnlyHandedOutIds`) is proved and not asked of a run.

**Only model-checked.** Liveness (`RoundEnds`, `WaitersMeet`, `SessionsEnd`,
`CacheCatchesUp`), which is out of the prover's reach. Every safety property of a
passing run, and every refinement, is a theorem.

The operators with a comment "a slip in the code" are alternatives to the
definition after them. Putting one in its place must make the run fail that
`PROJECT.json` names with it: this shows that the property can notice the mistake.

## 5. Not modelled, and plan

Left out because nothing of a protocol depends on them: SQL statements, the check
of a password and of a user name, JSON and string formatting, cookie syntax,
configuration, logging, cache metrics, static files, the drawing and the texts of
the pages, the login and register pages, build files, load tests. The room list is
a read of Lobby's `rooms`. The check of chat words decides over the text of a message
that changes no state. `online_manager::kick` and `invalidateByName` have no caller.

What could be added:

1. The alert a page opens at the moment it hears a refusal, and not from the broadcast
   on: it would bring messages of refusals into the queues, and no property could
   tell the difference.
2. The hall page, whose button may disagree with the server after a silent failure of
   `match_start`; no comment says that it should agree.
3. Page with two connections of a player, and with messages that are lost although
   the connection stays open: a lost timeout report is not repeated, so `RoundEnds`
   would have to leave that case out.
4. The safety half of `WaitersMeet` and `RoundEnds` as theorems, as SessionsWatched is
   that of `SessionsEnd` and EntriesExpire, for what does expire, that of `CacheCatchesUp`.
