---------------------------- MODULE EventConsumer ----------------------------
(***************************************************************************)
(* pkg/forge/events.go: the consumer that turns forge's Server-Sent Events *)
(* into callbacks.  Track gives a session a sessionState object and a      *)
(* reader goroutine, which connects, reads, dispatches and reconnects; the *)
(* idle watcher ends typing that nobody ended; Forget and Stop take        *)
(* sessions and the whole consumer down.  Every step of these goroutines   *)
(* that happens under c.mu is one action; the gaps between unlocking and   *)
(* calling the callback are separate steps.                                *)
(*                                                                         *)
(* The forge server is external: an append-only log of rows per session,   *)
(* whose sequence numbers are 1, 2, ..., a replay of the rows after `since`*)
(* on connect, and live forwarding afterwards.  Events the consumer drops  *)
(* (another event name, a payload that does not decode, another session's  *)
(* row) leave its state alone: they are stuttering steps.                  *)
(***************************************************************************)
EXTENDS Naturals, Integers, Sequences, FiniteSets

CONSTANTS
    Sessions,   \* forge session ids
    States,     \* the heap: sessionState objects Track may allocate
    NoState,    \* "no entry in c.sessions"
    NoSession,  \* owner of an object that is not allocated yet
    RowKinds,   \* kinds of rows the log may hold, a subset of AllKinds
    MaxRows     \* bound on the length of a session's log

AllKinds == {"user", "text", "tool_call", "tool", "empty"}

ASSUME NullAssumption == NoState \notin States /\ NoSession \notin Sessions
ASSUME KindAssumption == RowKinds \subseteq AllKinds
ASSUME BoundAssumption == MaxRows \in Nat

VARIABLES
    log,        \* forge: the rows of each session, a sequence of kinds
    turn,       \* forge: an agent turn is running in the session
    sessions,   \* c.sessions
    owner,      \* the session a sessionState was allocated for
    lastSeq,    \* st.lastSeq
    typingNow,  \* st.typingNow
    quiet,      \* st.lastSeen is older than the typing-quiet window
    stopClosed, \* st.stop is closed
    pc,         \* where Track or the reader goroutine of the object stands
    ctx,        \* the context the reader was started with
    stream,     \* what the server has sent and the reader has not read
    stalled,    \* the connection is half open: no byte will come any more
    pending,    \* the event the reader is about to emit
    watcher,    \* the idleWatcher goroutine
    idles,      \* objects checkIdle collected and has not emitted for
    phase,      \* the consumer: new, started, cancelled, waiting, stopped
    forgetPc,   \* where the Forget call that removed the object stands
    start,      \* history: the row the seeding left the object at
    emitted,    \* history: rows whose callback has run, per object
    net         \* history: typing_starts minus typing_stops, per session

forgeVars == <<log, turn>>
objVars   == <<owner, lastSeq, typingNow, quiet, stopClosed>>
connVars  == <<stream, stalled>>
readVars  == <<pc, ctx, pending>>
lifeVars  == <<phase, forgetPc>>
watchVars == <<watcher, idles>>
histVars  == <<start, emitted, net>>
vars == <<forgeVars, sessions, objVars, connVars, readVars, lifeVars,
          watchVars, histVars>>

-----------------------------------------------------------------------------
(* Vocabulary *)

TurnEnded == 0          \* the `turn_ended` event on a stream; rows are 1, 2, ...
NoEvent   == "none"
RowEvents == {"message", "tool_start", "tool_end"}
Events    == RowEvents \cup {"typing_start", "typing_stop"}

\* The event a row is translated into by handleMessage, user rows aside.
EventOf(kind) ==
    CASE kind = "text"      -> "message"
      [] kind = "tool_call" -> "tool_start"
      [] kind = "tool"      -> "tool_end"
      [] OTHER              -> NoEvent

Visible(s, n) == EventOf(log[s][n]) # NoEvent

\* Rows a+1 .. b in order, as the server sends them.
Rows(a, b) == [i \in 1..(b - a) |-> a + i]

Connected  == {"reading", "handling", "emitting"}
LivePc     == {"loop", "dialing", "backoff"} \cup Connected
Live(o)    == pc[o] \in LivePc                  \* counted by c.wg
Subscribed(o, s) == owner[o] = s /\ pc[o] \in Connected /\ ~stalled[o]

RootCancelled == phase \in {"cancelled", "waiting", "stopped"}
CtxDone(o)    == ctx[o] = "root" /\ RootCancelled

TypeOK ==
    /\ log \in [Sessions -> Seq(RowKinds)]
    /\ turn \in [Sessions -> BOOLEAN]
    /\ sessions \in [Sessions -> States \cup {NoState}]
    /\ owner \in [States -> Sessions \cup {NoSession}]
    /\ lastSeq \in [States -> Nat]
    /\ typingNow \in [States -> BOOLEAN]
    /\ quiet \in [States -> BOOLEAN]
    /\ stopClosed \in [States -> BOOLEAN]
    /\ pc \in [States -> {"unused", "seeding", "done"} \cup LivePc]
    /\ ctx \in [States -> {"none", "root", "background"}]
    /\ stream \in [States -> Seq(Nat)]
    /\ stalled \in [States -> BOOLEAN]
    /\ pending \in [States -> Events \cup {NoEvent}]
    /\ \A o \in States : pending[o] = NoEvent <=> pc[o] # "emitting"
    /\ watcher \in {"off", "on", "done"}
    /\ idles \in SUBSET States
    /\ phase \in {"new", "started", "cancelled", "waiting", "stopped"}
    /\ forgetPc \in [States -> {"none", "removed", "closing", "returned"}]
    /\ start \in [States -> Nat]
    /\ emitted \in [States -> SUBSET Nat]
    /\ net \in [Sessions -> Int]

Init ==
    /\ log = [s \in Sessions |-> <<>>]
    /\ turn = [s \in Sessions |-> FALSE]
    /\ sessions = [s \in Sessions |-> NoState]
    /\ owner = [o \in States |-> NoSession]
    /\ lastSeq = [o \in States |-> 0]
    /\ typingNow = [o \in States |-> FALSE]
    /\ quiet = [o \in States |-> TRUE]
    /\ stopClosed = [o \in States |-> FALSE]
    /\ pc = [o \in States |-> "unused"]
    /\ ctx = [o \in States |-> "none"]
    /\ stream = [o \in States |-> <<>>]
    /\ stalled = [o \in States |-> FALSE]
    /\ pending = [o \in States |-> NoEvent]
    /\ watcher = "off"
    /\ idles = {}
    /\ phase = "new"
    /\ forgetPc = [o \in States |-> "none"]
    /\ start = [o \in States |-> 0]
    /\ emitted = [o \in States |-> {}]
    /\ net = [s \in Sessions |-> 0]

-----------------------------------------------------------------------------
(* The forge server and the network (external) *)

Forward(s, item) ==
    stream' = [o \in States |->
                 IF Subscribed(o, s) THEN Append(stream[o], item) ELSE stream[o]]

\* A row is recorded and forwarded to the session's live streams.  A user
\* row starts a turn; the agent's rows are written while one runs.
AppendRow(s, kind) ==
    /\ Len(log[s]) < MaxRows
    /\ kind = "user" \/ turn[s]
    /\ log' = [log EXCEPT ![s] = Append(@, kind)]
    /\ turn' = [turn EXCEPT ![s] = @ \/ kind = "user"]
    /\ Forward(s, Len(log[s]) + 1)
    /\ UNCHANGED <<sessions, objVars, stalled, readVars, lifeVars, watchVars,
                   histVars>>

\* turn_ended is forwarded to the live streams and never replayed.
TurnEnds(s) ==
    /\ turn[s]
    /\ turn' = [turn EXCEPT ![s] = FALSE]
    /\ Forward(s, TurnEnded)
    /\ UNCHANGED <<log, sessions, objVars, stalled, readVars, lifeVars,
                   watchVars, histVars>>

\* The peer disappears without closing the connection.
Stall(o) ==
    /\ pc[o] \in Connected
    /\ ~stalled[o]
    /\ stalled' = [stalled EXCEPT ![o] = TRUE]
    /\ UNCHANGED <<forgeVars, sessions, objVars, stream, readVars, lifeVars,
                   watchVars, histVars>>

-----------------------------------------------------------------------------
(* Track *)

\* The first half of Track, under c.mu.  A call for a session that already
\* has an entry changes nothing.
Track(s, o) ==
    /\ sessions[s] = NoState
    /\ pc[o] = "unused"
    /\ sessions' = [sessions EXCEPT ![s] = o]
    /\ owner' = [owner EXCEPT ![o] = s]
    /\ pc' = [pc EXCEPT ![o] = "seeding"]
    /\ UNCHANGED <<forgeVars, lastSeq, typingNow, quiet, stopClosed, connVars,
                   ctx, pending, lifeVars, watchVars, histVars>>

\* The context a reader is started on: c.rootCtx if Start has set it by then.
ReaderContext_Caller == "background"
ReaderContext == IF phase = "new" THEN "background" ELSE "root"

\* seedHighWaterMark: the largest sequence number forge lists, or the 0 lastSeq
\* starts with when the listing fails.
HighWaterMarks(o) == {0, Len(log[owner[o]])}

\* The rest of Track: the cursor is seeded, and the reader started even if that
\* failed.
Seed(o) ==
    /\ pc[o] = "seeding"
    /\ \E mark \in HighWaterMarks(o) :
         /\ lastSeq' = [lastSeq EXCEPT ![o] = mark]
         /\ start' = [start EXCEPT ![o] = mark]
    /\ ctx' = [ctx EXCEPT ![o] = ReaderContext]
    /\ pc' = [pc EXCEPT ![o] = "loop"]
    /\ UNCHANGED <<forgeVars, sessions, owner, typingNow, quiet, stopClosed,
                   connVars, pending, lifeVars, watchVars, emitted, net>>

-----------------------------------------------------------------------------
(* runSession and consumeOnce *)

\* The select at the head of the loop.
LoopTop(o) ==
    /\ pc[o] = "loop"
    /\ pc' = [pc EXCEPT ![o] =
                IF CtxDone(o) \/ stopClosed[o] THEN "done" ELSE "dialing"]
    /\ UNCHANGED <<forgeVars, sessions, objVars, connVars, ctx, pending,
                   lifeVars, watchVars, histVars>>

\* What the server replays for GET /sessions/{id}/events?since=lastSeq.
Replay_OffByOne(o) == Rows(lastSeq[o] + 1, Len(log[owner[o]]))
Replay(o) == Rows(lastSeq[o], Len(log[owner[o]]))

\* The request is answered with status 200.  The server subscribes first and
\* replays then, so rows d+1.. that were written in between arrive twice.
Connect(o) ==
    /\ pc[o] = "dialing"
    /\ LET end == Len(log[owner[o]]) IN
         \E d \in lastSeq[o]..end :
            stream' = [stream EXCEPT ![o] = Replay(o) \o Rows(d, end)]
    /\ pc' = [pc EXCEPT ![o] = "reading"]
    /\ UNCHANGED <<forgeVars, sessions, objVars, stalled, ctx, pending,
                   lifeVars, watchVars, histVars>>

Hangup(o) ==
    /\ stream' = [stream EXCEPT ![o] = <<>>]
    /\ stalled' = [stalled EXCEPT ![o] = FALSE]

\* The request fails, or its status is not 200.
DialFails(o) ==
    /\ pc[o] = "dialing"
    /\ pc' = [pc EXCEPT ![o] = "backoff"]
    /\ UNCHANGED <<forgeVars, sessions, objVars, connVars, ctx, pending,
                   lifeVars, watchVars, histVars>>

StreamBreaks_EndsReader(o) ==
    /\ pc[o] = "reading"
    /\ Hangup(o)
    /\ pc' = [pc EXCEPT ![o] = "done"]
    /\ UNCHANGED <<forgeVars, sessions, objVars, ctx, pending, lifeVars,
                   watchVars, histVars>>

\* The stream ends or breaks; what was not read yet is lost with it.
StreamBreaks(o) ==
    /\ pc[o] = "reading"
    /\ Hangup(o)
    /\ pc' = [pc EXCEPT ![o] = "backoff"]
    /\ UNCHANGED <<forgeVars, sessions, objVars, ctx, pending, lifeVars,
                   watchVars, histVars>>

Cancelled_WhileDialing(o) ==
    /\ pc[o] = "dialing"
    /\ CtxDone(o)
    /\ Hangup(o)
    /\ pc' = [pc EXCEPT ![o] = "done"]
    /\ UNCHANGED <<forgeVars, sessions, objVars, ctx, pending, lifeVars,
                   watchVars, histVars>>

\* The request or the read returns context.Canceled.
Cancelled(o) ==
    /\ pc[o] \in {"dialing", "reading"}
    /\ CtxDone(o)
    /\ Hangup(o)
    /\ pc' = [pc EXCEPT ![o] = "done"]
    /\ UNCHANGED <<forgeVars, sessions, objVars, ctx, pending, lifeVars,
                   watchVars, histVars>>

\* The select after consumeOnce: the timer, or one of the two stop signals.
Backoff(o) ==
    /\ pc[o] = "backoff"
    /\ \/ pc' = [pc EXCEPT ![o] = "loop"]
       \/ /\ CtxDone(o) \/ stopClosed[o]
          /\ pc' = [pc EXCEPT ![o] = "done"]
    /\ UNCHANGED <<forgeVars, sessions, objVars, connVars, ctx, pending,
                   lifeVars, watchVars, histVars>>

-----------------------------------------------------------------------------
(* handleServerEvent and handleMessage *)

\* The row at the head of the stream has been handled before.
Stale_OffByOne(o) == Head(stream[o]) < lastSeq[o]
Stale(o) == Head(stream[o]) <= lastSeq[o]

\* A `message` event, under c.mu: a row at or below the cursor is dropped,
\* any other moves the cursor to it.
ReadRow(o) ==
    /\ pc[o] = "reading"
    /\ stream[o] # <<>>
    /\ Head(stream[o]) # TurnEnded
    /\ stream' = [stream EXCEPT ![o] = Tail(@)]
    /\ IF Stale(o)
         THEN UNCHANGED <<lastSeq, quiet, pc>>
         ELSE /\ lastSeq' = [lastSeq EXCEPT ![o] = Head(stream[o])]
              /\ quiet' = [quiet EXCEPT ![o] = FALSE]
              /\ pc' = [pc EXCEPT ![o] = "handling"]
    /\ UNCHANGED <<forgeVars, sessions, owner, typingNow, stopClosed, stalled,
                   ctx, pending, lifeVars, watchVars, histVars>>

ReadTurnEnded_Always(o) ==
    /\ pc[o] = "reading"
    /\ stream[o] # <<>>
    /\ Head(stream[o]) = TurnEnded
    /\ stream' = [stream EXCEPT ![o] = Tail(@)]
    /\ typingNow' = [typingNow EXCEPT ![o] = FALSE]
    /\ pending' = [pending EXCEPT ![o] = "typing_stop"]
    /\ pc' = [pc EXCEPT ![o] = "emitting"]
    /\ UNCHANGED <<forgeVars, sessions, owner, lastSeq, quiet, stopClosed,
                   stalled, ctx, lifeVars, watchVars, histVars>>

\* A `turn_ended` event, under c.mu: typing_stop follows if typing was on.
ReadTurnEnded(o) ==
    /\ pc[o] = "reading"
    /\ stream[o] # <<>>
    /\ Head(stream[o]) = TurnEnded
    /\ stream' = [stream EXCEPT ![o] = Tail(@)]
    /\ typingNow' = [typingNow EXCEPT ![o] = FALSE]
    /\ IF typingNow[o]
         THEN /\ pending' = [pending EXCEPT ![o] = "typing_stop"]
              /\ pc' = [pc EXCEPT ![o] = "emitting"]
         ELSE UNCHANGED <<pending, pc>>
    /\ UNCHANGED <<forgeVars, sessions, owner, lastSeq, quiet, stopClosed,
                   stalled, ctx, lifeVars, watchVars, histVars>>

\* startTyping, under c.mu.  It looks the session up again: the object it
\* marks is the one c.sessions holds now, and a forgotten session has none.
StartTyping(o) ==
    LET t == sessions[owner[o]] IN
    /\ IF t = NoState
         THEN UNCHANGED <<typingNow, quiet>>
         ELSE /\ typingNow' = [typingNow EXCEPT ![t] = TRUE]
              /\ quiet' = [quiet EXCEPT ![t] = FALSE]
    /\ IF t # NoState /\ ~typingNow[t]
         THEN /\ pending' = [pending EXCEPT ![o] = "typing_start"]
              /\ pc' = [pc EXCEPT ![o] = "emitting"]
         ELSE /\ pc' = [pc EXCEPT ![o] = "reading"]
              /\ UNCHANGED pending

HandleMessage_EmptyToo(o) ==
    LET kind == log[owner[o]][lastSeq[o]] IN
    /\ pc[o] = "handling"
    /\ \/ /\ kind = "user"
          /\ StartTyping(o)
       \/ /\ kind # "user"
          /\ pc' = [pc EXCEPT ![o] = "emitting"]
          /\ pending' = [pending EXCEPT ![o] = EventOf(kind)]
          /\ UNCHANGED <<typingNow, quiet>>
    /\ UNCHANGED <<forgeVars, sessions, owner, lastSeq, stopClosed, connVars,
                   ctx, lifeVars, watchVars, histVars>>

\* handleMessage for the row the cursor stands on.
HandleMessage(o) ==
    LET kind == log[owner[o]][lastSeq[o]] IN
    /\ pc[o] = "handling"
    /\ \/ /\ kind = "user"
          /\ StartTyping(o)
       \/ /\ kind # "user"
          /\ EventOf(kind) = NoEvent
          /\ pc' = [pc EXCEPT ![o] = "reading"]
          /\ UNCHANGED <<typingNow, quiet, pending>>
       \/ /\ EventOf(kind) # NoEvent
          /\ pc' = [pc EXCEPT ![o] = "emitting"]
          /\ pending' = [pending EXCEPT ![o] = EventOf(kind)]
          /\ UNCHANGED <<typingNow, quiet>>
    /\ UNCHANGED <<forgeVars, sessions, owner, lastSeq, stopClosed, connVars,
                   ctx, lifeVars, watchVars, histVars>>

\* emit: the callback runs, with no lock held.
Emit(o) ==
    /\ pc[o] = "emitting"
    /\ IF pending[o] \in RowEvents
         THEN /\ emitted' = [emitted EXCEPT ![o] = @ \cup {lastSeq[o]}]
              /\ UNCHANGED net
         ELSE /\ net' = [net EXCEPT ![owner[o]] =
                           IF pending[o] = "typing_start" THEN @ + 1 ELSE @ - 1]
              /\ UNCHANGED emitted
    /\ pending' = [pending EXCEPT ![o] = NoEvent]
    /\ pc' = [pc EXCEPT ![o] = "reading"]
    /\ UNCHANGED <<forgeVars, sessions, objVars, connVars, ctx, lifeVars,
                   watchVars, start>>

-----------------------------------------------------------------------------
(* idleWatcher and checkIdle *)

\* The typing-quiet window passes without a new lastSeen.  Nothing reads
\* lastSeen while typing is off, and switching it on sets lastSeen again.
QuietElapses(o) ==
    /\ typingNow[o]
    /\ ~quiet[o]
    /\ quiet' = [quiet EXCEPT ![o] = TRUE]
    /\ UNCHANGED <<forgeVars, sessions, owner, lastSeq, typingNow, stopClosed,
                   connVars, readVars, lifeVars, watchVars, histVars>>

Idle(o) ==
    /\ \E s \in Sessions : sessions[s] = o
    /\ typingNow[o]
    /\ quiet[o]

\* A tick, under c.mu: every tracked, typing, quiet object stops typing and
\* is remembered for its typing_stop.
CheckIdle ==
    /\ watcher = "on"
    /\ idles = {}
    /\ \E o \in States : Idle(o)
    /\ idles' = {o \in States : Idle(o)}
    /\ typingNow' = [o \in States |-> typingNow[o] /\ ~Idle(o)]
    /\ UNCHANGED <<forgeVars, sessions, owner, lastSeq, quiet, stopClosed,
                   connVars, readVars, lifeVars, watcher, histVars>>

\* The typing_stop callbacks of that tick, one after the other, unlocked.
EmitIdle(o) ==
    /\ o \in idles
    /\ idles' = idles \ {o}
    /\ net' = [net EXCEPT ![owner[o]] = @ - 1]
    /\ UNCHANGED <<forgeVars, sessions, objVars, connVars, readVars, lifeVars,
                   watcher, start, emitted>>

WatcherExit_AfterTick ==
    /\ watcher = "on"
    /\ idles = {}
    /\ watcher' = "done"
    /\ UNCHANGED <<forgeVars, sessions, objVars, connVars, readVars, lifeVars,
                   idles, histVars>>

\* idleWatcher returns when the root context is cancelled.
WatcherExit ==
    /\ watcher = "on"
    /\ idles = {}
    /\ RootCancelled
    /\ watcher' = "done"
    /\ UNCHANGED <<forgeVars, sessions, objVars, connVars, readVars, lifeVars,
                   idles, histVars>>

-----------------------------------------------------------------------------
(* Start, Stop, Forget *)

Start ==
    /\ phase = "new"
    /\ phase' = "started"
    /\ watcher' = "on"
    /\ UNCHANGED <<forgeVars, sessions, objVars, connVars, readVars, forgetPc,
                   idles, histVars>>

StopCancel ==
    /\ phase = "started"
    /\ phase' = "cancelled"
    /\ UNCHANGED <<forgeVars, sessions, objVars, connVars, readVars, forgetPc,
                   watchVars, histVars>>

\* Under c.mu: close the stop channel of every tracked session.
StopCloseAll ==
    /\ phase = "cancelled"
    /\ phase' = "waiting"
    /\ stopClosed' = [o \in States |->
                        stopClosed[o] \/ \E s \in Sessions : sessions[s] = o]
    /\ UNCHANGED <<forgeVars, sessions, owner, lastSeq, typingNow, quiet,
                   connVars, readVars, forgetPc, watchVars, histVars>>

\* c.wg.Wait returns.
StopReturn ==
    /\ phase = "waiting"
    /\ \A o \in States : ~Live(o)
    /\ watcher = "done"
    /\ phase' = "stopped"
    /\ UNCHANGED <<forgeVars, sessions, objVars, connVars, readVars, forgetPc,
                   watchVars, histVars>>

ForgetRemove_KeepsEntry(s) ==
    /\ sessions[s] # NoState
    /\ forgetPc' = [forgetPc EXCEPT ![sessions[s]] = "removed"]
    /\ UNCHANGED <<forgeVars, sessions, objVars, connVars, readVars, phase,
                   watchVars, histVars>>

\* Forget, under c.mu: remove the entry.
ForgetRemove(s) ==
    /\ sessions[s] # NoState
    /\ sessions' = [sessions EXCEPT ![s] = NoState]
    /\ forgetPc' = [forgetPc EXCEPT ![sessions[s]] = "removed"]
    /\ UNCHANGED <<forgeVars, objVars, connVars, readVars, phase, watchVars,
                   histVars>>

\* Forget's select, without the lock: is the channel closed already?
ForgetCheck(o) ==
    /\ forgetPc[o] = "removed"
    /\ forgetPc' = [forgetPc EXCEPT ![o] =
                      IF stopClosed[o] THEN "returned" ELSE "closing"]
    /\ UNCHANGED <<forgeVars, sessions, objVars, connVars, readVars, phase,
                   watchVars, histVars>>

\* close(st.stop): a second close would panic.
ForgetClose(o) ==
    /\ forgetPc[o] = "closing"
    /\ forgetPc' = [forgetPc EXCEPT ![o] = "returned"]
    /\ stopClosed' = [stopClosed EXCEPT ![o] = TRUE]
    /\ UNCHANGED <<forgeVars, sessions, owner, lastSeq, typingNow, quiet,
                   connVars, readVars, phase, watchVars, histVars>>

-----------------------------------------------------------------------------
(* The specification *)

Reader(o) ==
    \/ LoopTop(o) \/ Connect(o) \/ DialFails(o) \/ Cancelled(o)
    \/ StreamBreaks(o) \/ Backoff(o)
    \/ ReadRow(o) \/ ReadTurnEnded(o) \/ HandleMessage(o) \/ Emit(o)

Forge ==
    \/ \E s \in Sessions :
         TurnEnds(s) \/ \E kind \in RowKinds : AppendRow(s, kind)
    \/ \E o \in States : Stall(o)

Watcher ==
    \/ CheckIdle
    \/ WatcherExit
    \/ \E o \in States : EmitIdle(o)

Callers ==
    \/ Start \/ StopCancel \/ StopCloseAll \/ StopReturn
    \/ \E s \in Sessions : ForgetRemove(s) \/ \E o \in States : Track(s, o)
    \/ \E o \in States : Seed(o) \/ ForgetCheck(o) \/ ForgetClose(o)

Next ==
    \/ Forge
    \/ Callers
    \/ Watcher
    \/ \E o \in States : Reader(o) \/ QuietElapses(o)

Spec == Init /\ [][Next]_vars

(* Goroutines that can run do run; time passes; the calls that were made   *)
(* return from their network requests.  A network that lets connections    *)
(* succeed and streams be read again and again lets the reader do so.      *)
(* Nothing makes a stalled connection break, forge end a turn, or anybody  *)
(* call Track, Forget, Start or Stop.                                      *)
GoroutineFairness ==
    /\ \A o \in States :
         /\ WF_vars(LoopTop(o)) /\ WF_vars(Backoff(o))
         /\ WF_vars(Connect(o) \/ DialFails(o) \/ Cancelled(o))
         /\ WF_vars(HandleMessage(o)) /\ WF_vars(Emit(o))
         /\ WF_vars(Seed(o)) /\ WF_vars(QuietElapses(o))
         /\ WF_vars(ForgetCheck(o)) /\ WF_vars(ForgetClose(o))
         /\ WF_vars(EmitIdle(o))
    /\ WF_vars(CheckIdle) /\ WF_vars(WatcherExit)
    /\ WF_vars(StopCloseAll) /\ WF_vars(StopReturn)

NetworkFairness ==
    \A o \in States :
        /\ SF_vars(Connect(o))
        /\ SF_vars(ReadRow(o) \/ ReadTurnEnded(o))

FairSpec == Spec /\ GoroutineFairness /\ NetworkFairness

-----------------------------------------------------------------------------
(* Safety *)

Seen(o) == {n \in (start[o] + 1)..lastSeq[o] : Visible(owner[o], n)}
Due(o)  == IF pending[o] \in RowEvents \/ pc[o] = "handling"
             THEN {lastSeq[o]} ELSE {}

\* Every visible row after the seed and up to the cursor has had its callback
\* exactly once, or is the one row whose callback is about to run: no row is
\* skipped, repeated or overtaken across replays, duplicates and reconnects
\* (the sequence guard of handleServerEvent and `since` in consumeOnce).
ExactlyOnce ==
    \A o \in States : owner[o] # NoSession => emitted[o] = Seen(o) \ Due(o)

\* Once seeded, the cursor moves by one row at a time, forward: across any
\* number of reconnects the next row handled is the one after the last
\* (`since` in consumeOnce, "exactly the rows we haven't seen yet").
CursorAdvancesByOne ==
    [][\A o \in States : pc[o] # "seeding" =>
         lastSeq'[o] \in {lastSeq[o], lastSeq[o] + 1}]_vars

\* Forget's unlocked check-and-close and Stop's locked one never close the
\* same channel twice, which would panic.
NoDoubleClose == \A o \in States : forgetPc[o] = "closing" => ~stopClosed[o]

\* "After Stop returns, no further callbacks will fire" (Stop): a goroutine
\* started late by a Track still in flight finds the root context cancelled.
NoCallbackAfterStop == [][phase = "stopped" => UNCHANGED <<emitted, net>>]_vars

\* The subscription an object stands for: it begins when its seeding ends.
Subscription(o) ==
    [session |-> IF pc[o] = "seeding" THEN NoSession ELSE owner[o],
     from    |-> start[o]]

Delivery == INSTANCE RowDelivery WITH
    Subscribers <- States,
    SilentKinds <- {"user", "empty"},
    sub         <- [o \in States |-> Subscription(o)],
    delivered   <- emitted

\* The consumer, with its reconnects, replays, duplicates and lost streams,
\* implements the plain subscription of RowDelivery (Track, consumeOnce,
\* handleServerEvent and handleMessage together).
ImplementsRowDelivery == Delivery!Spec

Starting(s) == {o \in States : pending[o] = "typing_start" /\ owner[o] = s}
Stopping(s) == {o \in States : pending[o] = "typing_stop" /\ owner[o] = s}

\* Every typing_start gets exactly one typing_stop, whichever of turn_ended
\* and the idle watcher notices first: the starts emitted beyond the stops are
\* the objects still typing, give or take the callbacks about to run.
TypingBalanced ==
    \A s \in Sessions :
        net[s] + Cardinality(Starting(s)) =
            Cardinality({o \in States : owner[o] = s /\ typingNow[o]})
            + Cardinality(Stopping(s))
            + Cardinality({o \in idles : owner[o] = s})

-----------------------------------------------------------------------------
(* Liveness, under FairSpec *)

Gone(o) == stopClosed[o] \/ CtxDone(o)

\* A visible row written after the seed reaches the callback, through any
\* number of reconnects, unless the session is dropped or its stream stalls.
RowsReachCallback ==
    \A o \in States, n \in 1..MaxRows :
        (/\ Live(o)
         /\ n \in (start[o] + 1)..Len(log[owner[o]])
         /\ Visible(owner[o], n)) ~> (n \in emitted[o] \/ Gone(o) \/ stalled[o])

\* Typing is ended for every session that stays tracked, even when the agent
\* dies in mid-turn and turn_ended never comes (idleWatcher).
TypingEnds ==
    \A s \in Sessions, o \in States :
        (sessions[s] = o /\ typingNow[o] /\ phase = "started")
            ~> (~typingNow[o] \/ sessions[s] # o \/ RootCancelled)

\* Stop returns, whatever the readers are doing, when they were started on
\* the root context.
StopReturns ==
    (phase = "waiting" /\ \A o \in States : ctx[o] # "background")
        ~> (phase = "stopped")

-----------------------------------------------------------------------------
(* What a comment of the code claims and its steps do not do *)

\* events.go:229-231: after Forget returns, no more events for that session.
NoEventAfterForget ==
    [][\A o \in States : forgetPc[o] = "returned" =>
         emitted'[o] = emitted[o]]_vars
=============================================================================
