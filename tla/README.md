# Matrix appservice: TLA+ specification, model checking and proofs

The repository (`src/pi-sessions`) is a bridge between Matrix and forge, a server that runs coding
agents. A user sends commands to a bot; the appservice creates forge sessions, binds each to a Matrix
room, forwards the room's messages to forge and renders forge's event stream in the room. This
directory holds specifications of it, model-checked with TLC, and theorems about them proved with
TLAPS.

All paths below are relative to `src/pi-sessions`.

## 1. The system

| Component | State | Operations | Talks to |
|---|---|---|---|
| **Event consumer** `pkg/forge/events.go` | `c.sessions` (id → `sessionState{lastSeq, typingNow, lastSeen, stop}`), root context, wait group, one reader goroutine per tracked session, one idle watcher | `Start`, `Stop`, `Track`, `Forget`, `OnEvent`; reader: `runSession`, `consumeOnce`, `handleServerEvent`, `handleMessage`, `startTyping`; watcher: `checkIdle` | forge (SSE and `GET /messages`), callback into the application service |
| **SSE parser** `events.go` | line buffer | `readSSEEvent`, `readLineWithDeadline` | the stream |
| **Application service** `pkg/appservice/appservice.go` | `sessionRooms` (session → room), `profileCache` under `as.mu` | `/start`, `/new`, `/stop`, `/list`, `/steer`, `/help`, plain messages, `onSessionEvent`, restore on startup | Matrix client, forge client, store, consumer |
| **Matrix client** `pkg/matrix/client.go` | `dmRoomUser`, `dmUserRooms`, `primaryUser`, room registry, typing state | event loop (a goroutine per message), seeding of DM rooms, `CreateDMRoom`, `CreateSessionRoom`, sending | homeserver, application service callbacks |
| **Store** `pkg/store/store.go` | SQLite tables `portal`, `forge_profile`, `managed_session`, `config` | upserts, deletes, scans under one `RWMutex` | – |
| **forge client** `pkg/forge/client.go` | none | REST calls, no timeout of its own | forge |
| **Startup** `cmd/pi-matrix/main.go` | – | restore → Matrix client → `StartEvents` → HTTP server; shutdown in the reverse order | everything |
| **Legacy session manager** `pkg/session` | session map, process handles, pending RPC requests, text accumulator, SSE client channels | create, delete, prompt, steer, idle clean-up, broadcast | pi subprocess, HTTP clients; no program imports it any more |
| Configuration, `sse-smoke` | none after startup | – | – |

**How they interact.** The homeserver pushes events to the HTTP server; the Matrix client's event loop
starts one goroutine per message (`client.go:245,258`), so handlers of the application service run
concurrently. A handler calls forge, the homeserver and the store in turn and takes `as.mu` only for
single map accesses. `Track` and `Forget` of the consumer are called by these handlers and by
`StartEvents`; the consumer's goroutines call `onSessionEvent` back with no lock held. Only the store
and forge survive a restart.

**What is hard.** Handlers that overtake each other between two calls; a decision taken under a lock
and used after it (`checkIdle`, the "already bound" check); replay, live forwarding and reconnects
that duplicate or lose stream items; `turn_ended`, which is never replayed; `Track`, `Forget` and
`Stop` against goroutines in flight; requests that fail before or after their effect; the death of
the process in the middle of a command. `PROJECT.json` lists each hazard at its line.

**What makes each component correct.**

- Event consumer: every visible row is given to the callback exactly once and in order; every
  typing_start is followed by one typing_stop; nothing fires after `Stop`; `Stop` returns; a forgotten
  session is silent and its goroutine ends; a dead connection is replaced.
- Application service: one session per room; a bound session has an event stream; forge's sessions
  and the binding agree; the store rebuilds the same binding; `/new` never strands a room; `/stop`
  stops what it says; no state is without a way out.
- Profile cache: one profile per source, stable across restarts, whoever asks first.
- Matrix routing: a session room is never taken for a DM; every DM is recognised after a restart; the
  DMs of a user stay known, and a command from a DM is answered in one.
- Message path: a message reaches the agent of its room and the answer that room; no answer is lost in
  silence; one conversation has one agent.
- Legacy: a session has one process and a deleted one none; its state tells whether the process runs;
  table and map agree; requests do not pile up; no text is lost or doubled; a slow HTTP client holds up
  nobody and nothing is sent on a closed channel.

## 2. Modules

| Module | Content |
|---|---|
| `EventConsumer` | the consumer, its goroutines and callers, with forge and the network as environment |
| `RowDelivery` | abstract specification: a subscription to a log, delivered row by row |
| `EventConsumerMC` | TLC instance |
| `EventConsumerProofs` | type correctness, stop channels, silence after `Stop`, typing |
| `EventDeliveryProofs` | exactly-once delivery, the cursor, refinement of `RowDelivery` |
| `AppService` | the commands that bind sessions to rooms, failures, restart |
| `AppServiceMC` | TLC instance |
| `AppServiceProofs` | what a command has in hand at each step; streams of bound sessions, sessions taken from rooms, sessions without rooms; what a restart finds in the store; one session per room |
| `ProfileCache` | `ensureProfile`: which forge profile a `/start` gets |
| `ProfileCacheMC` | TLC instance |
| `ProfileCacheProofs` | type correctness, the right profile for a place, sharing, no refused names |
| `RoomRouting` | which rooms the Matrix client takes for DMs: invitations, seeding, `CreateDMRoom` |
| `RoomRoutingMC` | TLC instance |
| `RoomRoutingProofs` | the inductive invariant of the indexes and the run's four properties |
| `MessagePath` | composition: `AppService`, the handlers of messages, transcripts, the subscription of `RowDelivery` |
| `Conversation` | abstract specification: messages that are taken or fail, answers in the room of their message |
| `MessagePathMC` | TLC instance |
| `MessagePathProofs` | answers in their room, none skipped; the composition refines `AppService` and `Conversation` |
| `PiSession` | legacy: the manager's map and table, the life of a session and its pi process, RPC requests |
| `PiSessionMC` | TLC instance |
| `PiSessionProofs` | one process per session, pending requests, map against table, state against process, how far the limit is exceeded |
| `PiEvents` | legacy: from a line of pi's output to the SSE clients |
| `EventFeed` | abstract specification: what a client of `/events` gets |
| `PiEventsMC` | TLC instance |
| `PiEventsProofs` | the protocol of channels and `done`, deltas cut once, refinement of `EventFeed` |

`MessagePath` extends `AppService`; the others stand alone and meet at their interfaces: `AppService`
takes `ensureProfile` (`ProfileCache`) as one step, `MessagePath` takes the consumer as the
`RowDelivery` it is proved to implement, and `onDMMessage` of `RoomRouting` ends where `AppService`
begins.

Operators whose name has a suffix after an underscore (`Stale_OffByOne`, `GetSession_DeleteFirst`, ...)
are faulty variants of the operator defined after them; no action uses them. They are there to
show that each property can fail: with the variant in place of the original, TLC refutes it.

### 2.1 EventConsumer

*Correspondence.* `sessions[s]` is `c.sessions`; an element of `States` is a `sessionState` object on
the heap, because a forgotten object lives on in its reader while `Track` allocates another for the
same session. `owner`, `lastSeq`, `typingNow`, `stopClosed` are its fields; `quiet[o]` says that
`lastSeen` is older than the typing-quiet window. `pc[o]` is where `Track` or the reader goroutine
stands:

    unused → seeding → loop → dialing → reading ⇄ handling → emitting → reading
                         ↑        ↓         ↓
                         └──── backoff ←────┘              done

Whatever happens between two acquisitions of `c.mu` is a step of its own: `ReadRow` (the sequence
check and the cursor, 440-447), `HandleMessage` with `StartTyping` (514-524), `Emit` (the callback,
unlocked), `CheckIdle` and `EmitIdle`, `ForgetRemove`, `ForgetCheck` and `ForgetClose`. `startTyping`
looks the session up again by its id, so the object it marks may be another one than the reader's.

*Environment.* forge (external) is a log of rows per session numbered 1, 2, ..., as `Message.Sequence`
is used; a connection gets the rows after `since` and then, because the server subscribes before it
replays, possibly the last of them again; later rows and `turn_ended` are forwarded live. A
connection can break, with everything unread lost, or stall. An SSE event the consumer ignores
(heartbeats, undecodable payloads, another session's rows) does not change its state. Row kinds are
`user`, `text`, `tool_call`, `tool` and `empty` (an assistant row without content); `tool_call` and
`tool` behave like `text` for every property, so the configurations use `user`, `text`, `empty`.
`Track` before `Start`, a seeding that fails, and calls of `Forget` and `Stop` at any time are all
included. `Stop` without a preceding `Start` is not (no caller does it), nor are two `Stop`s.
`QuietElapses` is enabled only while typing is on, since `lastSeen` is read only then and is reset
whenever typing is switched on.

*Abstracted.* The lengths of the backoff and of the window; the text of rows; the parser.

### 2.2 AppService

*Correspondence.* `sessionRooms`, `portals` (the table) and `tracked` (entries of the consumer) are
the three places a binding lives in; `forge` is forge's own state of each session id, `opened` the
Matrix rooms that exist. `h[p]` is a command goroutine: the command, its local variables (`room`, the
session it made `new`, the one it retires `old`, the rest of `/stop`'s snapshot `todo`) and where it
stands:

    /start (DM)    profile → create → room → insert → save → track
                                        └→ undo
    /start (room)  check, profile → create → insert → save → track
    /new           find, get → create → retire → drop → erase → forget → insert → save → track
    /stop          snapshot, (retire → drop → erase → forget)*

The look-up under `as.mu` a command begins with is part of its first action. `Crash` is any end of the
process (shutdown does not wait for handlers); `Boot`, `Retrack`, `Serve` are `NewAppService`,
`StartEvents` and the HTTP server, in the order of `main`. `ensureProfile` is one step that yields a
profile or an error. `Track` and `Forget` of the consumer are one step each: what goes on inside them
is in `EventConsumer`, and the commands do not look at it.

*The history `disturbed`.* The code does not keep one session to a room, or store and map in step, when
commands overlap in certain ways. `disturbed` collects the rooms where one of these has been met, at
the step where the overlap begins, so that the properties can be stated for all others:

- `/start` or `/new` begins in a room that another command is binding a session to (`Taken`): the check
  of the second comes before the insertion of the first (602-611, 517-525 against 643-645);
- `/start` begins in a room whose portal a `/stop` has still to erase (`Leftover`): after a restart the
  old portal and the new one name the same room;
- `/stop` takes up a session whose portal has yet to be saved (between 321-323 and its
  `saveSessionRoom`): the portal saved afterwards revives the session at the next start;
- the store fails to write, erase or read the portal of the room.

No action reads the variable. Each of these clauses is needed: without any one of them TLC refutes
`OneSessionUndisturbed` or `PortalsAgree`.

*Failures.* A request that fails without an effect (`EnsureProfile`, `GetSession`, `CreateSession`,
`CreateSessionRoom`) may do so at any time. Failures that leave something behind are counted and
bounded by `MaxFailures`, and chosen by `Faults`: a reply that is lost after the request took effect,
a DELETE that is refused, a store statement that fails (logged, and the command goes on). What forge
answers to a DELETE of a session that is gone is not visible in this repository; both answers are
allowed.

*Not modelled here.* Messages (see 2.5), `/list`, `/help` (they change none of this state), the text of
notices, and deployments without a store or a consumer.

### 2.3 ProfileCache

*Correspondence.* `cache` is `as.profileCache`, `table` the rows of `forge_profile`, `profiles` forge's
profiles with the two fields the look-ups compare. `h[p]` is one call of `ensureProfile`:

    table ─hit→ recall
      └→ dir (paths only) → name → create → cache → save

A cache hit changes nothing and is not an action. An error of the store or of a list counts as a
miss, as in the code; an error of the creation ends the call. `Place` is `resolveWorkingDir` on paths
and the identity on URLs, `Clean` is `sanitizeForName`, which makes one name of several places
(`RightPlace` therefore compares places by it); a profile's name is the pair of the two cleaned
parts (the code joins them with a hyphen behind a fixed prefix). A list holds all profiles or, beyond
`PageSize`, any `PageSize` of them: the order in which forge lists them is not known here.
`OtherProfile` is a profile made by somebody else; `Restart` finds the store as it was or wiped, the
case the comment at `appservice.go:821-831` is about. Paths that cannot be resolved and the template
of a profile are left out. `AppService` takes the whole call as one step that succeeds or fails.

### 2.4 RoomRouting

*Correspondence.* `dmRoomUser` and `dmUserRooms` are the fields of that name (`NoUser` is a missing
entry). `events` is the channel `as.Events`; `seed` is `seedExistingDMRooms` with the rooms it has
still to visit; `joining` the rooms whose `joinRoom` goroutine is under way; `h[p]` a goroutine of
`onDMMessage`:

    list → (members → topic → track)* → done            (seeding)
    check → create → track → answer, check → answer     (onDMMessage, CreateDMRoom)

Each request to the homeserver and each critical section of `c.mu` is a step. The homeserver
(external) keeps the topic and the members of each room; users make rooms, invite the bot, come, go
and write at any time. `Init` is any set of rooms earlier lives may have left, with empty indexes. A
session room is one whose topic is that of `CreateSessionRoom`. A message from a room that is not a DM
goes to `onRoomMessage`, which leaves this state alone. `Answer` is the rest of the command; that a
`/start` makes a session room is all of it that matters here. A room that `/start` binds in place keeps the
topic it has and is no session room in this sense (3.3).

*Left out.* `primaryUser` (its getter has no caller), the 30-second limit of the seeding (a request
that fails is one that came too late), encrypted and other events, which are ignored.

### 2.5 MessagePath

*Correspondence.* A message is written in a room, finds a session (`findSessionForRoom`, any session
bound to the room: the code iterates over a Go map), is posted to it, may be answered in the
transcript `rows`, and the answer is delivered by the subscription to the room `findRoomForSession`
returns. `cursor[s]` is `lastSeq` of the session. `Carry` is a step of a command with what it does to
the subscription: `Track` leaves a session that is tracked alone and takes the rows there are for
history, or, when it cannot read them, starts at 0 and replays everything (`events.go:207-227`). `/steer`
and unknown commands take the same path as plain text. `early` remembers the messages that found a
session not tracked yet: their answers can fall into the history `Track` skips.

*Abstracted.* Rows of users, tool rows and typing events, which go to the same room in the same way; the
consumer is the `RowDelivery` that `EventConsumer` implements, so its reconnects are not repeated here.
`DeliverAnswer` is one step for the advance of the cursor (`events.go:440-447`), the look-up of the room
(`appservice.go:708`) and the request to the homeserver (722), between which a command may unbind the
session: the answer then counts as shown just before, in the same room, or as dropped just after. An
answer comes at most once per message.

*Abstraction.* `Conversation` is what the users see of all this: a message is said in a room, fails or is
taken for good, a taken one may be answered, and an answer is shown in the room the message was said in.
`Status` maps the stages of a message and the transcripts to it; commands, the subscription, failures,
replays and restarts are stutters, except that a death of the process makes what was not posted fail.

### 2.6 PiSession

*Correspondence.* `sessions` and `table` are `m.sessions` and `managed_session`; `state`, `cmd`,
`cmdLock`, `pending` are the fields of `Session` (the ids in `pendingRequests` of all sessions in one
set). `proc` are the pi processes, `reader[q]` the `readStdout` goroutine started with process `q`,
which reads whatever `s.stdout` is when it comes to the head of its loop (`source`). `h[p]` is an HTTP
request, the clean-up task or `StopAll`:

    create   limit, register → persist → starting → spawn → up
                                             └──────┴→ unregister → unpersist
    prompt   check → (starting → spawn → up →) send → write → await
    delete   erase → stopping → lock → wait
    stopall  (next → stopping → lock → wait)* → clear

`Starting` sets the state to "starting" and, when pi cannot be found, at once to "stopped" (`session.go:157,
164`): the code shows the first for the time of the look-up. pi (external) may exit at any time and need
not answer. `CleanUp` deletes any session: when one is
idle is left open. A statement on the store or a start of pi may fail. The histories `raced`, `early`,
`unsaved`, `dropped` name the situations in which the code is known not to keep a property (3.3).

### 2.7 PiEvents

*Correspondence.* `lines` are the lines of one session's pi in their order; `task[n]` the goroutine
`handleLine` starts for line `n` (`go s.onEvent`, 455); `acc` is `m.accumulatedText`, with the numbers
of the deltas in place of their text; `todo[n]` the clients a broadcast has still to visit under the
read lock; `queue[c]` a client's channel. `Leave` needs the write lock, so no broadcast is under way;
`Close` comes after it, without the lock. The JSON of a line is one of five kinds: `response`,
`notice` (whatever is broadcast as it comes, tool events and typing among them), `delta` and `end` of
a content index. `written[c]`, a history, is what has been written to client `c`.

*Abstraction.* In `EventFeed` an event is owed to the clients that are connected when it is published;
each gets it once, unless it leaves first or as many other events as a channel holds are owed to it. An
event is published when its broadcast takes the read lock; it is owed to a client that the broadcast
has yet to visit, or whose channel holds it. In which order events reach a client is left open: their
goroutines race for it.

## 3. Runs

### 3.1 Bounds

`CHECK_DEADLOCK FALSE` everywhere: each system may stop (the consumer after `Stop` with all rows
written, the others when all ids are used up or nobody asks for anything).

| Run | Configuration | Shows |
|---|---|---|
| `delivery` | 1 object, 3 rows of kinds user/text/empty | `TypeOK`, `ExactlyOnce`, `CursorAdvancesByOne`, `NoCallbackAfterStop`, `ImplementsRowDelivery` |
| `lifecycle` | 2 objects of one session, 1 row | `NoDoubleClose`, `TypingBalanced` |
| `liveness` | 1 object, 2 rows, `FairSpec` | `RowsReachCallback`, `TypingEnds`, `StopReturns` |
| `commands_concurrent` | 2 commands, 3 sessions, 2 rooms, 2 failures of any kind, 1 crash | `BoundIsTracked`, `LiveIffBound`, `BindingIsSaved`, `OneSessionUndisturbed`, `PortalsAgree`, `LostOnlyForReplacement`, `KeptUntilReplaced` |
| `profiles` | 2 calls, 2 users, 2 paths with one sanitized name and a URL, 2 profiles, pages of 1, 1 failure, any number of restarts | `RightPlace`, `UsersShareProfile`, `NeverRefused` |
| `routing` | 2 users, 2 rooms in any state, 1 DM handler, 1 queued event, 1 failure | `SessionRoomsStayRooms`, `SeedFindsDMs`, `DMsStayListed` |
| `messages` | 1 command at a time, 3 sessions, 2 rooms, 2 messages, 1 lost reply or refused DELETE, 1 crash | `RightRoom`, `PassedOverOnlyEarly`, `OneConversation`, `ImplementsConversation` |
| `path_liveness` | 2 commands, 2 sessions, 1 room, 1 message, 1 refused DELETE, `FairPathSpec` | `AnswerArrives`, `ResetRoomServedAgain`, `StopTakesDown` |
| `sessions` | 2 calls, a restored and a new session, 2 processes, 2 requests, limit 1, 1 failure | `TypeOK`, `OneProcess`, `StateTellsTruth`, `NoOrphans`, `RowsAgree`, `OnlyCancelledLeak` |
| `events` | 3 lines, 2 content indexes, 2 clients, channels of 1, `FairSpec` | `NeverSentOnClosed`, `DeltaInOnePlace`, `SlowClientHarmless`, `ImplementsEventFeed` |

*Why these bounds.* Objects do not share anything but `c.sessions`, and the stream of a row's session
reaches them independently, so one object shows all about delivery; three rows allow a row before the
seed, one handled and one missed by a broken connection, in every combination of visible and not. Two
objects are what `Track`-`Forget`-`Track` needs; the typing properties do not depend on further rows,
since typing is a Boolean that one user row sets and one `turn_ended` or tick resets. For the commands,
two rooms (one that exists, one that `/start` opens) and three sessions (a bound one and a replacement
for each of two commands) allow every pair of commands to meet in one room or in two. For profiles, two
users and a path are what sharing needs, a URL is what only the name can find, and `/srv/a.b` and
`/srv/a-b` are two paths of one name, one of them typed as `~/a.b`; the second profile is that of
another user or place, or a foreign one, and makes the list longer than its page. Longer lists are left
to the proofs, which hold for any number of profiles and any page.

For routing, two rooms and two users in every initial state give each room each classification; one
event in the queue is enough, since the loop handles them one by one and the rooms change while it
waits. The overlap of two `CreateDMRoom`s needs two handlers and is left to the proofs, which hold for
any number. For messages, commands come one at a time: two of them with two messages are beyond what TLC
finishes, and `RightRoom`, `PassedOverOnlyEarly`, `OneConversation` and `ImplementsConversation` are
proved for any number. What two commands do to the binding itself is in `commands_concurrent`. Two
messages are two in one conversation or one in each room; three sessions let a room be reset and the
process restarted. The liveness run has two commands, so that `/new`, `/stop` and `/start` meet, and a
DELETE that may be refused, after which `/new` has to go on all the same (`ResetRoomServedAgain` asks
for the very session it has made); `StopTakesDown` excepts refusals. For the legacy backend, a session
that is restored and one that is created take every path through `CreateSession` and `SetStore`; two
processes are a restart; the limit of 1 is reached. Two deltas and their end are three lines; two
clients are a slow and a quick one, and a channel of 1 is full at once. The type invariants of
`AppService`, `ProfileCache`, `RoomRouting`, `MessagePath` and `PiEvents` are not repeated in the runs:
they are proved (section 4). Symmetry over interchangeable ids and goroutines is used in safety runs
only.

### 3.2 Fairness

Consumer: `GoroutineFairness`: a goroutine that can take a step does (the Go scheduler), time passes,
and a dial returns one way or the other. `NetworkFairness`: if a reader dials again and again it is
connected again and again, and an open stream with unread items is not broken for ever before one is
read; without it no reconnecting client delivers anything. Nothing is assumed of connections that
stall, of forge ending a turn, or of anybody calling the API.

Message path: a command goes on while it can, its requests are answered or fail, a message in hand is
posted, the process comes up when it is started, and the subscription of a tracked session delivers
(which the `liveness` run shows of the consumer under the fairness above). No user has to write and no
agent to answer. That requests are answered is not enforced by the code (no timeouts); it is an
assumption on forge and the homeserver and is listed among the hazards.

Legacy events: only the goroutines of events run (they do not block: offers to a full channel are
skipped, and the read lock is held for a bounded number of offers). Clients need not read.

### 3.3 Disagreements between the code and what is said about it

| Run | Statement | What happens |
|---|---|---|
| `forget` | `events.go:229-231` "After Forget returns, no more events for that session will fire" | the reader looks at `stop` only between connections and goes on emitting; for the same reason its goroutine and connection outlive the promise of `events.go:267-269, 308-311` |
| `one_per_room` | `SPEC.md:22` (repository root), `appservice.go:602` | check and binding are separate critical sections of concurrent commands |

More were met while modelling and have no run of their own.

Event consumer:

- `events.go:117-118`: a typing_stop comes after a window without rows. It is decided under the lock
  and emitted after it, so it can follow the next turn's typing_start.
- `events.go:120-123`: `ReadTimeout` is the time after which a stream is declared dead. The deadline is
  ignored (`_ = deadline`), so a half-open connection blocks its reader for good (`Stall`;
  `RowsReachCallback` excepts it).
- `events.go:215-219`: a reader spawned before `Start` uses the root context. It keeps
  `context.Background()`, so `Stop` does not reach it (`StopReturns` excepts it; `main` starts the
  consumer before anything is tracked).

Commands, profiles, messages:

- `appservice.go:70-71`: the map is reconstructed from the store. A `/stop` between the insertion of a
  `/start` (321-323) and its `saveSessionRoom` deletes a portal that is not there yet; the portal saved
  afterwards brings the deleted session back at the next start. (Without its clause in `disturbed`,
  2.2, `PortalsAgree` is refuted.)
- `appservice.go:369-372`: `/stop` deletes the user's most recent session. The loop takes the sessions
  of every user (`StopInDM`).
- `appservice.go:537-542, 612-614`: when `/new` cannot read the old session it advises `/start`, which
  finds the binding and advises `/new`.
- `appservice.go:566-569`: when forge refuses to delete the old session of a `/new`, it runs on for nobody.
- `appservice.go:761-762`: all users of a directory share a profile. Two calls that overlap both find
  none and make one each (`UsersShareProfile` is about calls that do not overlap).
- `appservice.go:858-863`: every working directory gets a distinct profile. `/srv/a.b` and `/srv/a-b`
  have one sanitized name, and the second `/start` works in the first one's directory. (With these two,
  `profiles` refutes a `RightPlace` that compares the places themselves.)
- Answers to messages that were posted before the session was tracked are part of the history `Track`
  skips; answers written while the process was down likewise. When the history cannot be read, all of
  it is replayed into the room.

Routing:

- `client.go:354-357`: the most recently created DM room is returned. What is returned is the head of
  the list, the room seeded or invited to last; a command from an older DM of the user is therefore
  answered in another room (`appservice.go:214-224` does not know the room the message came from).
- `client.go:388` overwrites the user's list of DM rooms; what was added since the check at 360-366 is
  dropped from it, though still known as a DM (`raced` in `DMsStayListed`).
- `client.go:463-464`: a session room whose topic cannot be read is seeded as a DM. So is, after a
  restart, a room that `/start` has bound in place, when all but one user have left it: its topic says
  nothing of a session, and the seeding does not look at the portals.

Legacy backend:

- `session.go:154-186` resumes a session that "was previously running". `Start` is called for new and for
  stopped sessions, so `wasRunning` is practically never true.
- `manager.go:80-81` restores sessions to restart on the next prompt, with a zero `LastActivity`: the
  first tick of the clean-up finds them idle and deletes them.
- `manager.go:324`: a stopped session is restarted. If pi exits before `Start` sets the state (224-227)
  the reader's `StateStopped` is overwritten and the session is "running" without a process for good;
  a reader that lags behind a restart marks the new process stopped. (`StateTellsTruth` excepts both.)
- A prompt that has its session in hand when it is deleted, or a creation that meets `StopAll`, leaves
  a pi that belongs to nobody (`NoOrphans`, `RowsAgree` except overlapping calls).
- `manager.go:234-239, 256-258`: check and insertion are separate, so the session limit can be passed.
- `manager.go:145-161`: deltas and their `text_end` arrive in goroutines of their own (`session.go:455`);
  a message may be cut off and the rest go into the next one.
- `session.go:347-353`: a request that ends with its context stays in `pendingRequests`, one that ends with
  the timer does not. Over HTTP both take 60 s, and the context is made first (`http_handler.go:239`), so a
  prompt that pi does not answer nearly always leaves its entry behind (`OnlyCancelledLeak` excepts it).

## 4. Proofs

The theorems hold for every value of the constants: any number of sessions, objects, rows, users,
profiles and calls in flight. They rest on the named assumptions of the modules (null values are not
members of the sets they stand beside, row kinds are known ones, every source has its place, bounds are
natural numbers) and on the premises they state.

`EventConsumerProofs`:

- `TypeCorrect`. `TypeOK` is not inductive: seeding and connecting read the log of the object's
  session, so the object must have one, and `ForgetRemove` follows `c.sessions`. The strengthening is
  `Ownership`: an entry of `c.sessions` belongs to that session, and an object beyond `unused` has an
  owner.
- `StopChannelClosedOnce` (`NoDoubleClose`). `ForgetInv` adds that an object under a `Forget` has no
  entry in `c.sessions` any more, and that unused objects are under none. So `Stop`, which closes what
  it finds in `c.sessions`, cannot meet an object between `ForgetCheck` and `ForgetClose`; and no two
  `Forget`s meet on one object, since removing the entry is what admits the second half.
- `SilentAfterStop` (`NoCallbackAfterStop`). `StopInv`: once the consumer has stopped, the watcher is
  gone and every object is unused, in its seeding, ended, or at the head of its loop with the root
  context, which is cancelled. The last case is the `Track` that was in flight during `Stop`: its
  goroutine starts, finds the context cancelled and ends.
- `TypingIsBalanced` (`TypingBalanced`). `Balance` adds that the sets it counts are finite, `Silent` that
  an object not taken yet has nothing to do with typing. Each step adds or removes one element:
  `CheckIdle` too, which stops many objects at once, but of one session only the one in `c.sessions`.

`EventDeliveryProofs`:

- `DeliveryInvariant`. `ObjInv` of each object: what is on its stream is within the log (`Within`);
  each item of the stream is at most one above the cursor or the items before it, so the first fresh
  row is the next one (`NoGap`); a live stream holds every row still missing (`Complete`); the rows
  delivered are the visible ones up to the cursor, the due one aside (`OnceInv`). Lemmas state these
  of sequences alone, for a replay, an appended item and a dropped head; the step proof has one lemma
  per action.
- `RowsDeliveredExactlyOnce`, `CursorWalksTheLog` follow from it.
- `ConsumerImplementsRowDelivery`: `Seed` maps to `Subscribe`, `AppendRow` to `Write`, `Emit` of a row
  event to `Deliver`; every other step stutters. The crux is that the row emitted is the earliest one
  owed, which is what `OnceInv` and the cursor say.

`AppServiceProofs`, for any number of commands in flight, failures and deaths of the process:

- `TypeCorrect`. `Shape` strengthens `TypeOK`: where a command acts on a session or a room it has one.
- `SoundHands`. What all that follows shares is `Hands`. A session that a command has made and not bound
  yet runs, has no room, and is known to that command only (`FreshOf`), because nobody has heard of a
  session before forge has made it (`UnbornIsUnknown`) and the others find theirs in the map. So no
  other command can delete it, and binding it cannot give a room back to a session that a third
  command has just dropped (`DroppedOf`). No command is at work before the process serves (`Quiet`).
  One lemma, `HandsMove`, says which steps keep `Hands`; each action is shown to be such a step.
- `BoundSessionsTracked` (`BoundIsTracked`). `Streams` adds the restart: while the process boots, a
  session with a room is tracked or still on the list of `StartEvents`. `Forget` takes a stream from a
  session that `DroppedOf` says has no room.
- `RoomsLostOnlyForReplacement` (`LostOnlyForReplacement`). By cases: of the steps that touch forge or
  the map, only `RetireSession` and `DropBinding` can reach a session with a room, and a `/new` there
  holds a replacement that `FreshOf` says is running.
- `LiveSessionsBound` (`LiveIffBound`). `Accounts` adds that without failures what is at `DropBinding`
  is gone from forge, and that forge has no session before the first command.
- `BindingsAreSaved` (`BindingIsSaved`). What could go wrong is a portal that another command erases after
  it was saved. `Ledger` excludes it: no two commands hold one new session (`OneMaker`), until its command
  saves it a session has no portal (`Unsaved`), and when it does, the map still has the room it saves, or
  a `/stop` has taken that away (`BoundAsSaved`); what is erased belongs to sessions that `DroppedOf` says
  have no room. `LedgerMove` says which steps keep the ledger.
- `PortalsKeptUntilReplaced` (`KeptUntilReplaced`), from `Hands` and `Ledger`: a session that an undone
  `/start` deletes has no portal; a portal that is overwritten is that of a session nobody saved before;
  the other steps that touch forge or the table are those of `/stop`, and of a `/new` whose replacement
  `FreshOf` says is running. What is left to a crash is the time from there to the saving of it (573-583).
- `OneSessionForARoom` and `StoreHoldsTheMap` (`OneSessionUndisturbed`, `PortalsAgree`). The argument
  goes room by room. `Calm` says of a room that is not `disturbed`: map and portals name the same
  sessions for it, but for one being saved or erased (`Agrees`); at most one command is binding a
  session to it; and while that one has not inserted it, the room has no session but the one a `/new` is
  about to drop (`Expected`); and no `/stop` has a session on its list that is being saved there. A step
  can only add rooms to `disturbed` (`DisturbedGrows`), so it is enough to follow a room that is still
  calm after the step; one lemma does that for each group of actions. That a room nobody has opened yet
  is known to nobody (`UnopenedIsUnknown`) makes the room of a `/start` from a DM a new one.

`ProfileCacheProofs`:

- `TypeCorrect`: what is cached, stored or in flight is the id of a profile forge has.
- `OnlyRightPlaces` (`RightPlace`). Not inductive alone: a profile found by name fits only if its
  directory is the one its name was made from. `Named` says so of every profile; equal names then mean
  equal sanitized places. It has no premise.
- `OneProfileForADirectory` and `NameNeverRefused`. `CalmInv`: while calls do not overlap and lists are
  complete, a call that is past a list knows that nothing on it fits, and nobody has made a profile
  since. The premise `URLsApart` (no URL is an absolute path) is needed because a URL is not looked up
  by directory; a directory named like `x.git`, typed once with and once without a slash at the end,
  does not meet it.

`RoomRoutingProofs`:

- `RoutingInvariant`. `HandlerInv`: a handler that is about to track a room has made it itself, so it is
  no session room, and while it makes one its user has no list or has raced with another handler;
  `QueueInv`: an invitation that is queued is to a room that is no session room (the bot invites to
  those, it is not invited); `SeedInv`: the seeding has looked at the topic of the room it is about to
  track. `KnownInv` collects what they give: a tracked room is made, and no session room unless its
  topic was misread. `SteadyInv` accounts for the DMs the seeding has to find: each one is tracked,
  missed by a failed request, or still `Ahead` (to visit, or in hand).
- `SessionRoomsNeverDMs`, `SeedingIsComplete` and `IndexesAgree` (`SessionRoomsStayRooms`,
  `SeedFindsDMs`, `DMsStayListed`) are its conjuncts.

`MessagePathProofs`:

- `CompositionIsAppService`: every behaviour of the composition is one of `AppService` (`PathSpec =>
  Spec`), so the theorems about commands hold of it as they are.
- `AnswersInTheirRoom` (`RightRoom`). The core is that a session never changes its room: while one is
  known to a message or has an answer in its transcript it is bound to the message's room or to none
  (`Homes`), because a command binds only a session nobody has seen yet, which is `Hands` of
  `AppServiceProofs`.
- `NoAnswerSkipped` (`PassedOverOnlyEarly`). The cursor passes a row by `DeliverAnswer`, which shows it
  or finds the session without a room or the homeserver unwilling, or by `Seed` of a session that is not
  tracked. A row that is then history answers a message that found its session untracked: in the first
  life of the process a session that is no longer tracked has lost its room too (`FirstLife`), so nobody
  tracks it again, and since nobody writes to a session before it has its room (`Unheard`), what one
  has heard when it is tracked for the first time came early.

- `OneAgentForAConversation` (`OneConversation`), for any commands in flight, failures and restarts. A
  session that an earlier message of the room went to is bound to that room or to none (`Homes`); if it is
  bound, it is the one the next message finds, since a calm room has no second (`OneSessionForARoom`).
- `BridgeImplementsConversation` (`ImplementsConversation`), from `PathInv`: what is in a transcript was
  posted to that session (`RowsOf`), so what failed is never answered and a death of the process takes
  nothing back; what is shown is shown in the room of the message, since its session has no other
  (`Homes`). Each action is shown to be one of `Conversation` or to leave it alone.

`PiSessionProofs`:

- `OneProcessEver` (`OneProcess`). `Commanded`: a process that is alive is the one in the `cmd` of its
  session; `Spawn` kills that one under `cmdLock` before it replaces it.
- `PendingHaveCallers` (`OnlyCancelledLeak`) needs `Hands`: a call that holds a request id is at `write`
  or `await`.
- `DeletedHaveNoProcess` and `TableAgreesWithMap` (`NoOrphans`, `RowsAgree`). `Tended`: a session that
  has not been raced is worked on by one call at most, which finds it as its step says (`InHand`), and
  otherwise is as the last call left it (`AtRest`). The other sessions stay as they are (`Aside`), the
  call that works keeps what it has in hand (`AtWork`), and one that begins finds the session at rest
  (`Taken`). `Unborn` gives `CreateSession` a session that nobody knows.
- `StateIsTrue` (`StateTellsTruth`). `Truthful`: a session that was neither raced nor early has at most
  one reader that has not seen the end of the output, that of the process in its `cmd` (`Watched`); no
  such reader exists while a `Start` is about to spawn, and none is left of a session that is stopped,
  except by `Stop`, after which nothing starts it again (`Ended`).
- `LimitExceededOnlyByRacing`. The limit is checked before the session is in the map, so no invariant
  promises it; but `Within(n)` is one of the behaviours in which at most `n` calls are between the two
  at the same time: sessions and calls that register are together at most `n - 1` above the limit, or
  above what was restored if that was more. With `n = 1` it is the limit. The set of restored sessions
  is assumed to be finite, as a table is. No run shows it: three sessions and two calls are beyond what
  TLC finishes.

`PiEventsProofs`:

- `NoSendOnClosed` (`NeverSentOnClosed`): a client joins and leaves under the write lock, while no
  broadcast is under way.
- `DeltasCutOnce` (`DeltaInOnePlace`). `Inventory`: what is collected or in a message are deltas whose
  goroutines are done (`OnlyDoneDeltas`), no two places share one (`Apart`), and each has a place
  (`Placed`).
- `EventsImplementFeed` (`ImplementsEventFeed`). `Channels`: a channel holds events whose broadcast has
  begun, each once, none of them still to be offered to its client, and that of a client that is not
  there is empty. So what is written was owed and is owed no more, a client that joins is owed nothing,
  and an event that finds a channel full finds as many others owed to that client.

*Model-checked only.* The liveness properties of the runs (`RowsReachCallback`, `TypingEnds`,
`StopReturns`, `AnswerArrives`, `ResetRoomServedAgain`, `StopTakesDown`, `SlowClientHarmless`): liveness
and ENABLED are beyond the prover. Every invariant, every action property and every refinement of a
passing run is proved.

## 5. Not modelled

- The SSE parser (`readSSEEvent`), `extractStartPath`, the template of a profile, markdown rendering and
  the encoding of requests: sequential functions of one argument, without state, covered by unit tests.
- Configuration loading and `sse-smoke`: no state after startup.
- The room registry and `TypingState`: of the former only `Register` is called, and nobody reads it; the
  latter has no caller. The same holds for `InviteUser`, `DeleteRoom`, `CreateSessionRoomWithMachine`,
  `DeleteForgeProfile`, `Store.GetPortal`, the `config` table and the primary user.
- Authentication and the decoding of HTTP requests in `http_handler.go`.
- A response line that comes twice for one request, which would block the legacy reader at
  `session.go:428` (its channel holds one): pi answers a request once.
