------------------------------ MODULE PiSession ------------------------------
(***************************************************************************)
(* pkg/session/manager.go and session.go, the legacy backend: a manager    *)
(* that keeps a map of sessions and a table of them in the store, and      *)
(* sessions that run one pi subprocess each, restart it when a prompt      *)
(* comes after it has exited, and read its standard output in a goroutine  *)
(* of their own.                                                           *)
(*                                                                         *)
(* The requests of HTTP clients and the ticks of the cleanup task run      *)
(* concurrently.  Each critical section of m.mu, s.mu and s.requestMu and  *)
(* each statement on the store is one action; s.cmdLock is held over       *)
(* several, so its holder is state.                                        *)
(*                                                                         *)
(* A behaviour is one life of the manager: it begins with the sessions     *)
(* SetStore restores.  pi is external: it may exit at any time, and need   *)
(* not answer.  What it says is the subject of PiEvents.                   *)
(***************************************************************************)
EXTENDS Naturals, FiniteSets

CONSTANTS
    Sessions,    \* session ids uuid.New may return
    Restored,    \* the ids in the table managed_session at the start
    Procs,       \* pi processes that may be spawned
    NoProc,      \* a command without a process
    NoSession,   \* ""
    Calls,       \* goroutines of requests and of the cleanup task
    Requests,    \* RPC request ids
    NoRequest,   \* ""
    MaxSessions, \* MaxSessions of the configuration
    MaxFailures  \* bound on failed statements and starts

ASSUME NullAssumption ==
    /\ NoProc \notin Procs /\ NoSession \notin Sessions
    /\ NoRequest \notin Requests
ASSUME RestoredAssumption == Restored \subseteq Sessions /\ IsFiniteSet(Restored)
ASSUME BoundAssumption == MaxSessions \in Nat \ {0} /\ MaxFailures \in Nat

VARIABLES
    sessions, \* the ids in m.sessions
    table,    \* the ids in managed_session
    state,    \* s.State, "unborn" before there is an object
    cmd,      \* the process of s.cmd
    cmdLock,  \* the holder of s.cmdLock: a call, or "free"
    proc,     \* the processes: unborn, alive, exited
    owner,    \* the session a process was spawned for
    reader,   \* readStdout of the process: none, top, reading, done
    source,   \* the process whose output the reader is blocked on
    pending,  \* s.pendingRequests, of all sessions
    h,        \* the calls
    failures, \* failures so far
    dropped,  \* history: requests whose caller's context ended
    raced,    \* history: sessions two calls worked on at the same time
    closed,   \* history: StopAll has emptied the map
    early,    \* history: sessions whose pi exited before Start was done
    unsaved   \* history: sessions a statement on whose row failed

mapVars == <<sessions, table>>
procVars == <<cmd, proc, owner>>
readVars == <<reader, source>>
rpcVars == <<pending, dropped>>
history == <<raced, closed, early, unsaved>>
vars == <<mapVars, state, cmdLock, procVars, readVars, rpcVars, h, failures, history>>

-----------------------------------------------------------------------------
(* Vocabulary *)

Idle == [pc |-> "idle", op |-> "none", id |-> NoSession, req |-> NoRequest,
         all |-> {}, todo |-> {}]
Steps == {"idle", "register", "persist", "starting", "spawn", "up", "unregister",
          "unpersist", "erase", "stopping", "lock", "wait", "check", "send",
          "write", "await", "next", "clear"}
Records == [pc : Steps, op : {"none", "create", "prompt", "delete", "stopall"},
            id : Sessions \cup {NoSession}, req : Requests \cup {NoRequest},
            all : SUBSET Sessions, todo : SUBSET Sessions]

At(p, step) == h[p].pc = step
Goto(p, step) == h' = [h EXCEPT ![p].pc = step]
Finish(p) == h' = [h EXCEPT ![p] = Idle]
Id(p) == h[p].id

\* A call is at work on session s, or has it in the snapshot of StopAll.
Busy(s) == \E p \in Calls : Id(p) = s \/ s \in h[p].all

\* A call begins to work on session s.
Begin(p, op, s, step) ==
    /\ At(p, "idle")
    /\ h' = [h EXCEPT ![p] = [Idle EXCEPT !.pc = step, !.op = op, !.id = s]]
    /\ raced' = IF Busy(s) THEN raced \cup {s} ELSE raced

SetState_NoCase(s, to) ==
    state' = [state EXCEPT ![s] = IF to = "stopping" THEN "unknown" ELSE to]
SetState(s, to) == state' = [state EXCEPT ![s] = to]
Unlock(s) == cmdLock' = [cmdLock EXCEPT ![s] = "free"]
Lock(p) ==
    /\ cmdLock[Id(p)] = "free"
    /\ cmdLock' = [cmdLock EXCEPT ![Id(p)] = p]

\* A statement on the store or a start of pi fails.
Fails == failures < MaxFailures /\ failures' = failures + 1

\* A statement on the row of the session p works on; an error is logged.
Statement(p, rows) ==
    \/ table' = rows /\ UNCHANGED <<failures, unsaved>>
    \/ Fails /\ unsaved' = unsaved \cup {Id(p)} /\ UNCHANGED table

Alive(s) == {q \in Procs : proc[q] = "alive" /\ owner[q] = s}

TypeOK ==
    /\ sessions \in SUBSET Sessions /\ table \in SUBSET Sessions
    /\ state \in [Sessions -> {"unborn", "pending", "starting", "running",
                               "stopping", "stopped"}]
    /\ cmd \in [Sessions -> Procs \cup {NoProc}]
    /\ cmdLock \in [Sessions -> Calls \cup {"free"}]
    /\ proc \in [Procs -> {"unborn", "alive", "exited"}]
    /\ owner \in [Procs -> Sessions \cup {NoSession}]
    /\ reader \in [Procs -> {"none", "top", "reading", "done"}]
    /\ source \in [Procs -> Procs \cup {NoProc}]
    /\ pending \in SUBSET Requests
    /\ h \in [Calls -> Records]
    /\ failures \in 0..MaxFailures
    /\ dropped \in SUBSET Requests
    /\ raced \in SUBSET Sessions /\ early \in SUBSET Sessions
    /\ unsaved \in SUBSET Sessions /\ closed \in BOOLEAN

\* SetStore: every row becomes a stopped session, "will restart on next prompt".
Init ==
    /\ sessions = Restored /\ table = Restored
    /\ state = [s \in Sessions |-> IF s \in Restored THEN "stopped" ELSE "unborn"]
    /\ cmd = [s \in Sessions |-> NoProc]
    /\ cmdLock = [s \in Sessions |-> "free"]
    /\ proc = [q \in Procs |-> "unborn"]
    /\ owner = [q \in Procs |-> NoSession]
    /\ reader = [q \in Procs |-> "none"]
    /\ source = [q \in Procs |-> NoProc]
    /\ pending = {} /\ dropped = {}
    /\ h = [p \in Calls |-> Idle]
    /\ failures = 0
    /\ raced = {} /\ early = {} /\ unsaved = {} /\ closed = FALSE

-----------------------------------------------------------------------------
(* CreateSession *)

\* The limit, under the read lock.
BelowLimit == Cardinality(sessions) < MaxSessions

\* The new session gets an id.
Create(p, s) ==
    /\ state[s] = "unborn"
    /\ \A q \in Calls : Id(q) # s
    /\ BelowLimit
    /\ Begin(p, "create", s, "register")
    /\ UNCHANGED <<mapVars, state, cmdLock, procVars, readVars, rpcVars,
                   failures, closed, early, unsaved>>

Register(p) ==
    /\ At(p, "register")
    /\ sessions' = sessions \cup {Id(p)}
    /\ SetState(Id(p), "pending")
    /\ Goto(p, "persist")
    /\ UNCHANGED <<table, cmdLock, procVars, readVars, rpcVars, failures,
                   history>>

\* SaveManagedSession; an error is logged.
Persist(p) ==
    /\ At(p, "persist")
    /\ Statement(p, table \cup {Id(p)})
    /\ Goto(p, "starting")
    /\ UNCHANGED <<sessions, state, cmdLock, procVars, readVars, rpcVars,
                   raced, closed, early>>

Unregister_KeepsRow(p) ==
    /\ At(p, "unregister")
    /\ sessions' = sessions \ {Id(p)}
    /\ Finish(p)
    /\ UNCHANGED <<table, state, cmdLock, procVars, readVars, rpcVars, failures,
                   history>>

\* pi could not be started: the session is taken out of the map and the table.
Unregister(p) ==
    /\ At(p, "unregister")
    /\ sessions' = sessions \ {Id(p)}
    /\ Goto(p, "unpersist")
    /\ UNCHANGED <<table, state, cmdLock, procVars, readVars, rpcVars, failures,
                   history>>

Unpersist(p) ==
    /\ At(p, "unpersist")
    /\ Statement(p, table \ {Id(p)})
    /\ Finish(p)
    /\ UNCHANGED <<sessions, state, cmdLock, procVars, readVars, rpcVars,
                   raced, closed, early>>

-----------------------------------------------------------------------------
(* Session.Start, of a new session or of one whose pi has exited *)

StartFailed(p) ==
    IF h[p].op = "create" THEN Goto(p, "unregister") ELSE Finish(p)

\* SetState(Starting), and the search for pi.
Starting(p) ==
    /\ At(p, "starting")
    /\ \/ /\ SetState(Id(p), "starting") /\ Goto(p, "spawn")
          /\ UNCHANGED failures
       \/ /\ Fails
          /\ SetState(Id(p), "stopped") /\ StartFailed(p)
    /\ UNCHANGED <<mapVars, cmdLock, procVars, readVars, rpcVars, history>>

\* The processes as they are once the one in s.cmd is killed and waited for.
Killed_Leaves(s) == proc
Killed(s) == [q \in Procs |-> IF q = cmd[s] THEN "exited" ELSE proc[q]]

\* Under cmdLock: the existing process is killed, a new one is spawned and its
\* reader started.  The lock is kept until the state is set.
Spawn(p) ==
    /\ At(p, "spawn")
    /\ cmdLock[Id(p)] = "free"
    /\ \/ \E q \in Procs :
            /\ proc[q] = "unborn"
            /\ proc' = [Killed(Id(p)) EXCEPT ![q] = "alive"]
            /\ owner' = [owner EXCEPT ![q] = Id(p)]
            /\ cmd' = [cmd EXCEPT ![Id(p)] = q]
            /\ reader' = [reader EXCEPT ![q] = "top"]
            /\ Lock(p)
            /\ Goto(p, "up")
            /\ UNCHANGED <<state, failures>>
       \/ /\ Fails
          /\ proc' = Killed(Id(p))
          /\ cmd' = [cmd EXCEPT ![Id(p)] = NoProc]
          /\ SetState(Id(p), "stopped")
          /\ StartFailed(p)
          /\ UNCHANGED <<owner, reader, cmdLock>>
    /\ UNCHANGED <<mapVars, source, rpcVars, history>>

Up(p) ==
    /\ At(p, "up")
    /\ SetState(Id(p), "running")
    /\ Unlock(Id(p))
    /\ IF h[p].op = "create" THEN Finish(p) ELSE Goto(p, "send")
    /\ UNCHANGED <<mapVars, procVars, readVars, rpcVars, failures, history>>

-----------------------------------------------------------------------------
(* DeleteSession, StopAll and Session.Stop *)

\* DeleteSession takes the session out of the map, then out of the table.
Delete(p, s) ==
    /\ s \in sessions
    /\ sessions' = sessions \ {s}
    /\ Begin(p, "delete", s, "erase")
    /\ UNCHANGED <<table, state, cmdLock, procVars, readVars, rpcVars, failures,
                   closed, early, unsaved>>

Erase(p) ==
    /\ At(p, "erase")
    /\ Statement(p, table \ {Id(p)})
    /\ Goto(p, "stopping")
    /\ UNCHANGED <<sessions, state, cmdLock, procVars, readVars, rpcVars,
                   raced, closed, early>>

\* The cleanup task, one by one, of the sessions it found idle in an earlier look
\* at the map; any session may have been idle.
CleanUp(p) == \E s \in Sessions : Delete(p, s)

\* The loop of StopAll over its snapshot.
NextToStop(p, todo) ==
    \/ todo = {} /\ h' = [h EXCEPT ![p] = [@ EXCEPT !.pc = "clear", !.id = NoSession]]
    \/ \E s \in todo : h' = [h EXCEPT ![p] = [@ EXCEPT !.pc = "stopping", !.id = s,
                                                      !.todo = todo \ {s}]]

StopAll(p) ==
    /\ At(p, "idle")
    /\ ~closed
    /\ h' = [h EXCEPT ![p] = [Idle EXCEPT !.pc = "next", !.op = "stopall",
                                         !.all = sessions, !.todo = sessions]]
    /\ raced' = raced \cup {s \in sessions : Busy(s)}
    /\ UNCHANGED <<mapVars, state, cmdLock, procVars, readVars, rpcVars,
                   failures, closed, early, unsaved>>

StopNext(p) ==
    /\ At(p, "next")
    /\ NextToStop(p, h[p].todo)
    /\ UNCHANGED <<mapVars, state, cmdLock, procVars, readVars, rpcVars,
                   failures, history>>

\* The map is emptied, of sessions made since the snapshot too; the rows stay.
Clear(p) ==
    /\ At(p, "clear")
    /\ raced' = raced \cup (sessions \ h[p].all)
    /\ sessions' = {}
    /\ closed' = TRUE
    /\ Finish(p)
    /\ UNCHANGED <<table, state, cmdLock, procVars, readVars, rpcVars, failures,
                   early, unsaved>>

\* Stop returns.
Stopped(p) == IF h[p].op = "stopall" THEN Goto(p, "next") ELSE Finish(p)

Stopping(p) ==
    /\ At(p, "stopping")
    /\ SetState(Id(p), "stopping")
    /\ Goto(p, "lock")
    /\ UNCHANGED <<mapVars, cmdLock, procVars, readVars, rpcVars, failures,
                   history>>

\* Under cmdLock: nothing to stop, or abort is sent and the exit waited for.
StopLock(p) ==
    /\ At(p, "lock")
    /\ IF cmd[Id(p)] = NoProc
         THEN /\ cmdLock[Id(p)] = "free"
              /\ SetState(Id(p), "stopped")
              /\ Stopped(p)
              /\ UNCHANGED cmdLock
         ELSE Lock(p) /\ Goto(p, "wait") /\ UNCHANGED state
    /\ UNCHANGED <<mapVars, procVars, readVars, rpcVars, failures, history>>

StopWait_NoKill(p) ==
    /\ At(p, "wait")
    /\ SetState(Id(p), "stopped")
    /\ Unlock(Id(p))
    /\ Stopped(p)
    /\ UNCHANGED <<mapVars, procVars, readVars, rpcVars, failures, history>>

\* It exits by itself, or is killed after 5 seconds.
StopWait(p) ==
    /\ At(p, "wait")
    /\ proc' = Killed(Id(p))
    /\ SetState(Id(p), "stopped")
    /\ Unlock(Id(p))
    /\ Stopped(p)
    /\ UNCHANGED <<mapVars, cmd, owner, readVars, rpcVars, failures, history>>

-----------------------------------------------------------------------------
(* SendPrompt and SteerPrompt *)

\* The session is looked up.
Prompt(p, s) ==
    /\ s \in sessions
    /\ Begin(p, "prompt", s, "check")
    /\ UNCHANGED <<mapVars, state, cmdLock, procVars, readVars, rpcVars,
                   failures, closed, early, unsaved>>

\* "Restart pi if stopped (pi exits after processing in RPC mode)".
CheckStopped(p) ==
    /\ At(p, "check")
    /\ Goto(p, IF state[Id(p)] = "stopped" THEN "starting" ELSE "send")
    /\ UNCHANGED <<mapVars, state, cmdLock, procVars, readVars, rpcVars,
                   failures, history>>

\* A session that does not run refuses; otherwise the request is registered.
\* (A model value serves again as a fresh id once its entry is gone.)
SendRequest(p) ==
    /\ At(p, "send")
    /\ IF state[Id(p)] # "running"
         THEN Finish(p) /\ UNCHANGED pending
         ELSE \E r \in Requests \ pending :
                /\ pending' = pending \cup {r}
                /\ h' = [h EXCEPT ![p] = [@ EXCEPT !.pc = "write", !.req = r]]
    /\ UNCHANGED <<mapVars, state, cmdLock, procVars, readVars, dropped,
                   failures, history>>

\* The line is written under cmdLock; writing to a pi that is gone fails.
WriteRequest(p) ==
    /\ At(p, "write")
    /\ cmdLock[Id(p)] = "free"
    /\ IF cmd[Id(p)] # NoProc /\ proc[cmd[Id(p)]] = "alive"
         THEN Goto(p, "await") /\ UNCHANGED pending
         ELSE Finish(p) /\ pending' = pending \ {h[p].req}
    /\ UNCHANGED <<mapVars, state, cmdLock, procVars, readVars, dropped,
                   failures, history>>

AwaitResponse_Leaks(p) ==
    /\ At(p, "await")
    /\ Finish(p)
    /\ UNCHANGED <<mapVars, state, cmdLock, procVars, readVars, rpcVars,
                   failures, history>>

\* The response, the timeout after 60 s, or the end of the caller's context,
\* which leaves the entry where it is.
AwaitResponse(p) ==
    /\ At(p, "await")
    /\ \/ pending' = pending \ {h[p].req} /\ UNCHANGED dropped
       \/ dropped' = dropped \cup {h[p].req} /\ UNCHANGED pending
    /\ Finish(p)
    /\ UNCHANGED <<mapVars, state, cmdLock, procVars, readVars, failures,
                   history>>

-----------------------------------------------------------------------------
(* pi, and readStdout *)

\* pi exits.
Exit(q) ==
    /\ proc[q] = "alive"
    /\ proc' = [proc EXCEPT ![q] = "exited"]
    /\ early' = IF \E p \in Calls : At(p, "up") /\ cmd[Id(p)] = q
                  THEN early \cup {owner[q]} ELSE early
    /\ UNCHANGED <<mapVars, state, cmdLock, cmd, owner, readVars, rpcVars, h,
                   failures, raced, closed, unsaved>>

\* The head of the loop: the reader blocks on what s.stdout is by now.
ReadNext(q) ==
    /\ reader[q] = "top"
    /\ reader' = [reader EXCEPT ![q] = "reading"]
    /\ source' = [source EXCEPT ![q] = cmd[owner[q]]]
    /\ UNCHANGED <<mapVars, state, cmdLock, procVars, rpcVars, h, failures,
                   history>>

\* A line of output; what comes after it is read from what s.stdout is by then.
ReadLine(q) ==
    /\ reader[q] = "reading"
    /\ source[q] # NoProc
    /\ reader' = [reader EXCEPT ![q] = "top"]
    /\ source' = [source EXCEPT ![q] = NoProc]
    /\ UNCHANGED <<mapVars, state, cmdLock, procVars, rpcVars, h, failures,
                   history>>

ReadEOF_Silent(q) ==
    /\ reader[q] = "reading"
    /\ source[q] \notin {p \in Procs : proc[p] = "alive"}
    /\ reader' = [reader EXCEPT ![q] = "done"]
    /\ source' = [source EXCEPT ![q] = NoProc]
    /\ UNCHANGED <<mapVars, state, cmdLock, procVars, rpcVars, h, failures, history>>

\* "stdout closed": whoever's output that was, the session is stopped.
ReadEOF(q) ==
    /\ reader[q] = "reading"
    /\ source[q] \notin {p \in Procs : proc[p] = "alive"}
    /\ reader' = [reader EXCEPT ![q] = "done"]
    /\ source' = [source EXCEPT ![q] = NoProc]
    /\ SetState(owner[q], "stopped")
    /\ UNCHANGED <<mapVars, cmdLock, procVars, rpcVars, h, failures, history>>

-----------------------------------------------------------------------------
(* The specification *)

Manager(p) ==
    \/ Register(p) \/ Persist(p) \/ Unregister(p) \/ Unpersist(p) \/ Erase(p)
    \/ StopNext(p) \/ Clear(p)

SessionCode(p) ==
    \/ Starting(p) \/ Spawn(p) \/ Up(p) \/ Stopping(p) \/ StopLock(p) \/ StopWait(p)
    \/ CheckStopped(p) \/ SendRequest(p) \/ WriteRequest(p) \/ AwaitResponse(p)

Client(p) ==
    \/ StopAll(p)
    \/ \E s \in Sessions : Create(p, s) \/ Delete(p, s) \/ Prompt(p, s)

Pi(q) == Exit(q) \/ ReadNext(q) \/ ReadLine(q) \/ ReadEOF(q)

Next ==
    \/ \E p \in Calls : Client(p) \/ CleanUp(p) \/ Manager(p) \/ SessionCode(p)
    \/ \E q \in Procs : Pi(q)

Spec == Init /\ [][Next]_vars

-----------------------------------------------------------------------------
(* Properties *)

\* However requests, restarts and deletions interleave, a session never has two
\* pi processes alive: Start kills the one in s.cmd before it spawns another
\* (session.go:174-178), so none is forgotten.
OneProcess == \A s \in Sessions : Alive(s) \subseteq {cmd[s]}

Watching(q) ==
    /\ reader[q] = "reading"
    /\ source[q] \in {p \in Procs : proc[p] = "alive"}

\* No call works on s and every reader of its output has caught up.
Settled(s) ==
    /\ ~Busy(s)
    /\ \A q \in Procs : owner[q] = s => reader[q] = "done" \/ Watching(q)

\* Once nothing is under way, a session is "running" exactly when its pi is
\* alive: the state by which SendPrompt decides whether to restart
\* (manager.go:332) does not drift from the process, if the calls for the
\* session came one at a time and no pi exited while Start was still at work.
StateTellsTruth ==
    \A s \in Sessions \ (raced \cup early) :
        Settled(s) => (Alive(s) # {} <=> state[s] = "running")

\* A session that has left the map leaves no process behind, if nothing else
\* was done to it at the same time.
NoOrphans ==
    \A s \in Sessions \ (raced \cup sessions) : ~Busy(s) => Alive(s) = {}

\* Between calls the table and the map hold the same sessions, a session whose
\* pi could not be started in neither, until StopAll empties the map for good;
\* a restart then restores what the table holds.  Where two calls meet, or a
\* statement fails, they may part.
RowsAgree ==
    \A s \in Sessions \ (raced \cup unsaved) :
        ~Busy(s) => /\ s \in sessions => s \in table
                    /\ s \in table => s \in sessions \/ closed

\* An entry of pendingRequests that no call waits for was left behind by a call
\* whose context had ended (session.go:347): errors and timeouts leave none.
OnlyCancelledLeak ==
    \A r \in pending : r \in dropped \/ \E p \in Calls : h[p].req = r
=============================================================================
