--------------------------- MODULE PiSessionProofs ---------------------------
(***************************************************************************)
(* Theorems about PiSession, for any number of sessions, processes, calls  *)
(* and requests, whatever the limit and the number of failures.            *)
(***************************************************************************)
EXTENDS PiSession, FiniteSetTheorems, TLAPS

\* Where a call works on a session.
Working == Steps \ {"idle", "next", "clear"}

\* A record is as its step says: it has a session where it works on one, and a
\* request where it sends one and nowhere else.
Shaped(c) ==
    /\ c.pc \in Working => c.id \in Sessions
    /\ c.pc \in {"write", "await"} => c.req \in Requests
    /\ c.pc \notin {"write", "await"} => c.req = NoRequest

Hands == h \in [Calls -> Records] /\ \A p \in Calls : Shaped(h[p])

\* A process that is alive is the one in the cmd of its session, and one that
\* has a reader has a session.
Commanded ==
    /\ \A q \in Procs : proc[q] = "alive" =>
          owner[q] \in Sessions /\ cmd[owner[q]] = q
    /\ \A q \in Procs : reader[q] # "none" => owner[q] \in Sessions

Sound == TypeOK /\ Hands /\ Commanded

-----------------------------------------------------------------------------
(* The moves of a call *)

LEMMA IdleFits == Idle \in Records /\ Shaped(Idle)
BY DEF Idle, Records, Steps, Shaped, Working

\* One call gets a fitting record, the others keep theirs.
LEMMA HandsMove ==
    ASSUME Hands, NEW p \in Calls, NEW c \in Records, Shaped(c),
           h' = [h EXCEPT ![p] = c]
    PROVE  Hands'
BY DEF Hands, Shaped

LEMMA FinishFits ==
    ASSUME Hands, NEW p \in Calls, Finish(p) PROVE Hands' /\ h'[p] = Idle
BY IdleFits, HandsMove DEF Finish, Hands

LEMMA GotoFits ==
    ASSUME Hands, NEW p \in Calls, NEW step \in Steps, Goto(p, step),
           step \in Working => h[p].id \in Sessions,
           step \in {"write", "await"} <=> h[p].pc \in {"write", "await"}
    PROVE  Hands'
<1> DEFINE c == [h[p] EXCEPT !.pc = step]
<1>1. h[p] \in Records /\ Shaped(h[p])
  BY DEF Hands
<1>2. /\ c \in Records
      /\ c.pc = step /\ c.id = h[p].id /\ c.req = h[p].req
  BY <1>1 DEF Records
<1>3. Shaped(c)
  BY <1>1, <1>2 DEF Shaped
<1>4. h' = [h EXCEPT ![p] = c]
  BY DEF Goto
<1> QED
  BY <1>2, <1>3, <1>4, HandsMove

LEMMA BeginFits ==
    ASSUME Hands, NEW p \in Calls, NEW s \in Sessions, NEW op, NEW step \in Steps,
           Begin(p, op, s, step), op \in {"create", "prompt", "delete"},
           step \notin {"write", "await"}
    PROVE  Hands'
<1> DEFINE c == [Idle EXCEPT !.pc = step, !.op = op, !.id = s]
<1>1. c \in Records /\ Shaped(c)
  BY DEF Idle, Records, Shaped
<1>2. h' = [h EXCEPT ![p] = c]
  BY DEF Begin
<1> QED
  BY <1>1, <1>2, HandsMove

\* StopAll begins, and its loop.
LEMMA StopAllFits ==
    ASSUME TypeOK, Hands, NEW p \in Calls, StopAll(p) PROVE Hands'
<1> DEFINE c == [Idle EXCEPT !.pc = "next", !.op = "stopall", !.all = sessions,
                             !.todo = sessions]
<1>1. c \in Records /\ Shaped(c)
  BY DEF Idle, Records, Shaped, Steps, Working, TypeOK
<1>2. h' = [h EXCEPT ![p] = c]
  BY DEF StopAll
<1> QED
  BY <1>1, <1>2, HandsMove

LEMMA StopNextFits ==
    ASSUME Hands, NEW p \in Calls, StopNext(p) PROVE Hands'
<1>1. /\ h[p] \in Records /\ Shaped(h[p])
      /\ h[p].pc = "next"
  BY DEF Hands, StopNext, At
<1>2. CASE h' = [h EXCEPT ![p] = [@ EXCEPT !.pc = "clear", !.id = NoSession]]
  <2> DEFINE c == [h[p] EXCEPT !.pc = "clear", !.id = NoSession]
  <2>1. c \in Records /\ c.pc = "clear" /\ c.req = h[p].req
    BY <1>1 DEF Records, Steps
  <2>2. Shaped(c)
    BY <1>1, <2>1 DEF Shaped, Working
  <2> QED
    BY <1>2, <2>1, <2>2, HandsMove
<1>3. ASSUME NEW s \in h[p].todo,
             h' = [h EXCEPT ![p] = [@ EXCEPT !.pc = "stopping", !.id = s,
                                             !.todo = h[p].todo \ {s}]]
      PROVE  Hands'
  <2> DEFINE c == [h[p] EXCEPT !.pc = "stopping", !.id = s,
                               !.todo = h[p].todo \ {s}]
  <2>1. s \in Sessions
    BY <1>1 DEF Records
  <2>2. c \in Records /\ c.pc = "stopping" /\ c.id = s /\ c.req = h[p].req
    BY <1>1, <2>1 DEF Records, Steps
  <2>3. Shaped(c)
    BY <1>1, <2>1, <2>2 DEF Shaped
  <2> QED
    BY <1>3, <2>2, <2>3, HandsMove
<1> QED
  BY <1>2, <1>3 DEF StopNext, NextToStop

LEMMA SendFits ==
    ASSUME Hands, NEW p \in Calls, SendRequest(p) PROVE Hands'
<1>1. /\ h[p] \in Records /\ Shaped(h[p])
      /\ h[p].pc = "send" /\ h[p].id \in Sessions
  BY DEF Hands, SendRequest, At, Shaped, Working, Steps
<1>2. ASSUME NEW r \in Requests,
             h' = [h EXCEPT ![p] = [@ EXCEPT !.pc = "write", !.req = r]]
      PROVE  Hands'
  <2> DEFINE c == [h[p] EXCEPT !.pc = "write", !.req = r]
  <2>1. c \in Records /\ c.pc = "write" /\ c.id = h[p].id /\ c.req = r
    BY <1>1 DEF Records, Steps
  <2>2. Shaped(c)
    BY <1>1, <2>1 DEF Shaped
  <2> QED
    BY <1>2, <2>1, <2>2, HandsMove
<1> QED
  BY <1>2, FinishFits DEF SendRequest

-----------------------------------------------------------------------------
(* Every step leaves the calls as their records say *)

LEMMA ManagerHands ==
    ASSUME TypeOK, Hands, NEW p \in Calls, Manager(p) PROVE Hands'
<1> USE DEF At, Hands, Shaped, Working, Steps
<1>1. CASE Register(p)
  BY <1>1, GotoFits DEF Register
<1>2. CASE Persist(p)
  BY <1>2, GotoFits DEF Persist
<1>3. CASE Unregister(p)
  BY <1>3, GotoFits DEF Unregister
<1>4. CASE Unpersist(p)
  BY <1>4, FinishFits DEF Unpersist
<1>5. CASE Erase(p)
  BY <1>5, GotoFits DEF Erase
<1>6. CASE StopNext(p)
  BY <1>6, StopNextFits
<1>7. CASE Clear(p)
  BY <1>7, FinishFits DEF Clear
<1> QED
  BY <1>1, <1>2, <1>3, <1>4, <1>5, <1>6, <1>7 DEF Manager

LEMMA SessionHands ==
    ASSUME TypeOK, Hands, NEW p \in Calls, SessionCode(p) PROVE Hands'
<1> USE DEF At, Hands, Shaped, Working, Steps
<1>1. CASE Starting(p)
  BY <1>1, GotoFits, FinishFits DEF Starting, StartFailed
<1>2. CASE Spawn(p)
  BY <1>2, GotoFits, FinishFits DEF Spawn, StartFailed
<1>3. CASE Up(p)
  BY <1>3, GotoFits, FinishFits DEF Up
<1>4. CASE Stopping(p)
  BY <1>4, GotoFits DEF Stopping
<1>5. CASE StopLock(p)
  BY <1>5, GotoFits, FinishFits DEF StopLock, Stopped
<1>6. CASE StopWait(p)
  BY <1>6, GotoFits, FinishFits DEF StopWait, Stopped
<1>7. CASE CheckStopped(p)
  BY <1>7, GotoFits DEF CheckStopped
<1>8. CASE SendRequest(p)
  BY <1>8, SendFits
<1>9. CASE WriteRequest(p)
  BY <1>9, GotoFits, FinishFits DEF WriteRequest
<1>10. CASE AwaitResponse(p)
  BY <1>10, FinishFits DEF AwaitResponse
<1> QED
  BY <1>1, <1>2, <1>3, <1>4, <1>5, <1>6, <1>7, <1>8, <1>9, <1>10 DEF SessionCode

LEMMA ClientHands ==
    ASSUME TypeOK, Hands, NEW p \in Calls, Client(p) PROVE Hands'
<1>1. CASE StopAll(p)
  BY <1>1, StopAllFits
<1>2. ASSUME NEW s \in Sessions, Create(p, s) PROVE Hands'
  BY <1>2, BeginFits DEF Create, Steps
<1>3. ASSUME NEW s \in Sessions, Delete(p, s) PROVE Hands'
  BY <1>3, BeginFits DEF Delete, Steps
<1>4. ASSUME NEW s \in Sessions, Prompt(p, s) PROVE Hands'
  BY <1>4, BeginFits DEF Prompt, Steps
<1> QED
  BY <1>1, <1>2, <1>3, <1>4 DEF Client

\* The cleanup task does what a DELETE request does.
LEMMA CleanUpDeletes == ASSUME NEW p \in Calls, CleanUp(p) PROVE Client(p)
  BY DEF CleanUp, Client

LEMMA HandsStep == ASSUME TypeOK, Hands, [Next]_vars PROVE Hands'
<1>1. ASSUME NEW q \in Procs, Pi(q) PROVE Hands'
  <2>1. UNCHANGED h
    BY <1>1 DEF Pi, Exit, ReadNext, ReadLine, ReadEOF
  <2> QED
    BY <2>1 DEF Hands, Shaped
<1>2. CASE UNCHANGED vars
  BY <1>2 DEF vars, Hands, Shaped
<1> QED
  BY <1>1, <1>2, ManagerHands, SessionHands, ClientHands, CleanUpDeletes DEF Next

-----------------------------------------------------------------------------
(* Types *)

LEMMA ManagerTypes ==
    ASSUME Sound, NEW p \in Calls, Manager(p) PROVE TypeOK'
<1>1. Hands'
  BY ManagerHands DEF Sound
<1> USE <1>1 DEF Sound, TypeOK, At, Hands, Shaped, Working, Steps, Id, SetState,
             Statement, Fails, procVars, readVars, rpcVars, history, mapVars
<1>2. CASE Register(p)
  BY <1>2 DEF Register
<1>3. CASE Persist(p)
  BY <1>3, BoundAssumption DEF Persist
<1>4. CASE Unregister(p)
  BY <1>4 DEF Unregister
<1>5. CASE Unpersist(p)
  BY <1>5, BoundAssumption DEF Unpersist
<1>6. CASE Erase(p)
  BY <1>6, BoundAssumption DEF Erase
<1>7. CASE StopNext(p)
  BY <1>7 DEF StopNext
<1>8. CASE Clear(p)
  BY <1>8 DEF Clear
<1> QED
  BY <1>2, <1>3, <1>4, <1>5, <1>6, <1>7, <1>8 DEF Manager

LEMMA SessionTypes ==
    ASSUME Sound, NEW p \in Calls, SessionCode(p) PROVE TypeOK'
<1>1. Hands'
  BY SessionHands DEF Sound
<1> USE <1>1 DEF Sound, TypeOK, At, Hands, Shaped, Working, Steps, Id, SetState,
             Lock, Unlock, Fails, procVars, readVars, rpcVars, history, mapVars
<1>2. CASE Starting(p)
  BY <1>2, BoundAssumption DEF Starting
<1>3. CASE Spawn(p)
  <2>1. Id(p) \in Sessions /\ Killed(Id(p)) \in [Procs -> {"unborn", "alive", "exited"}]
    BY <1>3 DEF Spawn, Killed
  <2>2. /\ proc' \in [Procs -> {"unborn", "alive", "exited"}]
        /\ owner' \in [Procs -> Sessions \cup {NoSession}]
        /\ cmd' \in [Sessions -> Procs \cup {NoProc}]
        /\ reader' \in [Procs -> {"none", "top", "reading", "done"}]
    BY <1>3, <2>1 DEF Spawn
  <2>3. /\ cmdLock' \in [Sessions -> Calls \cup {"free"}]
        /\ state' \in [Sessions -> {"unborn", "pending", "starting", "running",
                                    "stopping", "stopped"}]
        /\ failures' \in 0..MaxFailures
    BY <1>3, <2>1, BoundAssumption DEF Spawn
  <2> QED
    BY <1>3, <2>2, <2>3 DEF Spawn
<1>4. CASE Up(p)
  BY <1>4 DEF Up
<1>5. CASE Stopping(p)
  BY <1>5 DEF Stopping
<1>6. CASE StopLock(p)
  BY <1>6 DEF StopLock
<1>7. CASE StopWait(p)
  BY <1>7 DEF StopWait, Killed
<1>8. CASE CheckStopped(p)
  BY <1>8 DEF CheckStopped
<1>9. CASE SendRequest(p)
  <2>1. pending' = pending \/ \E r \in Requests : pending' = pending \cup {r}
    BY <1>9 DEF SendRequest
  <2>2. pending' \in SUBSET Requests
    BY <2>1
  <2> QED
    BY <1>9, <2>2 DEF SendRequest
<1>10. CASE WriteRequest(p)
  BY <1>10 DEF WriteRequest
<1>11. CASE AwaitResponse(p)
  BY <1>11 DEF AwaitResponse
<1> QED
  BY <1>2, <1>3, <1>4, <1>5, <1>6, <1>7, <1>8, <1>9, <1>10, <1>11 DEF SessionCode

LEMMA ClientTypes ==
    ASSUME Sound, NEW p \in Calls, Client(p) PROVE TypeOK'
<1>1. Hands'
  BY ClientHands DEF Sound
<1> USE <1>1 DEF Sound, TypeOK, Hands, Begin, procVars, readVars, rpcVars, history,
             mapVars
<1>2. CASE StopAll(p)
  BY <1>2 DEF StopAll
<1>3. ASSUME NEW s \in Sessions, Create(p, s) PROVE TypeOK'
  BY <1>3 DEF Create
<1>4. ASSUME NEW s \in Sessions, Delete(p, s) PROVE TypeOK'
  BY <1>4 DEF Delete
<1>5. ASSUME NEW s \in Sessions, Prompt(p, s) PROVE TypeOK'
  BY <1>5 DEF Prompt
<1> QED
  BY <1>2, <1>3, <1>4, <1>5 DEF Client

LEMMA PiTypes ==
    ASSUME Sound, NEW q \in Procs, Pi(q) PROVE TypeOK'
<1> USE DEF Sound, TypeOK, Commanded, SetState, procVars, readVars, rpcVars,
            history, mapVars
<1>1. CASE Exit(q)
  BY <1>1 DEF Exit
<1>2. CASE ReadNext(q)
  BY <1>2 DEF ReadNext
<1>3. CASE ReadLine(q)
  BY <1>3 DEF ReadLine
<1>4. CASE ReadEOF(q)
  BY <1>4 DEF ReadEOF
<1> QED
  BY <1>1, <1>2, <1>3, <1>4 DEF Pi

-----------------------------------------------------------------------------
(* Processes *)

LEMMA CommandedStep == ASSUME Sound, Next PROVE Commanded'
<1> USE DEF Sound, TypeOK, Commanded
<1>1. ASSUME NEW p \in Calls, Client(p) \/ Manager(p) PROVE Commanded'
  <2>1. UNCHANGED procVars /\ UNCHANGED readVars
    BY <1>1 DEF Client, Create, Delete, Prompt, StopAll, Manager, Register, Persist,
                Unregister, Unpersist, Erase, StopNext, Clear
  <2> QED
    BY <2>1 DEF procVars, readVars
<1>2. ASSUME NEW p \in Calls, SessionCode(p) PROVE Commanded'
  <2>1. CASE Spawn(p)
    <3>1. Id(p) \in Sessions
      BY <2>1 DEF Spawn, At, Id, Hands, Shaped, Working, Steps
    <3>2. ASSUME NEW q \in Procs, proc[q] = "unborn",
                 proc' = [Killed(Id(p)) EXCEPT ![q] = "alive"],
                 owner' = [owner EXCEPT ![q] = Id(p)],
                 cmd' = [cmd EXCEPT ![Id(p)] = q],
                 reader' = [reader EXCEPT ![q] = "top"]
          PROVE  Commanded'
      BY <3>1, <3>2 DEF Killed
    <3>3. ASSUME proc' = Killed(Id(p)), cmd' = [cmd EXCEPT ![Id(p)] = NoProc],
                 UNCHANGED <<owner, reader>>
          PROVE  Commanded'
      BY <3>1, <3>3, NullAssumption DEF Killed
    <3> QED
      BY <2>1, <3>2, <3>3 DEF Spawn
  <2>2. CASE StopWait(p)
    BY <2>2 DEF StopWait, Killed, readVars
  <2>3. CASE SessionCode(p) /\ ~Spawn(p) /\ ~StopWait(p)
    <3>1. UNCHANGED procVars /\ UNCHANGED readVars
      BY <2>3 DEF SessionCode, Starting, Up, Stopping, StopLock, CheckStopped,
                  SendRequest, WriteRequest, AwaitResponse
    <3> QED
      BY <3>1 DEF procVars, readVars
  <2> QED
    BY <1>2, <2>1, <2>2, <2>3
<1>3. ASSUME NEW q \in Procs, Pi(q) PROVE Commanded'
  <2>1. CASE Exit(q)
    BY <2>1 DEF Exit, readVars
  <2>2. CASE ReadNext(q) \/ ReadLine(q) \/ ReadEOF(q)
    BY <2>2 DEF ReadNext, ReadLine, ReadEOF, procVars
  <2> QED
    BY <1>3, <2>1, <2>2 DEF Pi
<1> QED
  BY <1>1, <1>2, <1>3, CleanUpDeletes DEF Next

-----------------------------------------------------------------------------
(* Requests *)

LEMMA AccountedStep ==
    ASSUME Sound, OnlyCancelledLeak, Next PROVE OnlyCancelledLeak'
<1> USE DEF OnlyCancelledLeak
<1>1. ASSUME NEW p \in Calls, h[p].req = NoRequest,
             \A q \in Calls \ {p} : h'[q] = h[q], UNCHANGED rpcVars
      PROVE  OnlyCancelledLeak'
  BY <1>1, NullAssumption DEF rpcVars, Sound, TypeOK
<1>2. ASSUME NEW p \in Calls, Client(p) \/ Manager(p) PROVE OnlyCancelledLeak'
  <2>1. h[p].pc \notin {"write", "await"} /\ UNCHANGED rpcVars
    BY <1>2 DEF Client, Create, Delete, Prompt, StopAll, Begin, At, Manager, Register,
                Persist, Unregister, Unpersist, Erase, StopNext, Clear
  <2>2. \A q \in Calls \ {p} : h'[q] = h[q]
    BY <1>2 DEF Client, Create, Delete, Prompt, StopAll, Begin, Manager, Register,
                Persist, Unregister, Unpersist, Erase, StopNext, NextToStop, Clear,
                Goto, Finish, Sound, Hands
  <2> QED
    BY <1>1, <2>1, <2>2 DEF Sound, Hands, Shaped
<1>3. ASSUME NEW p \in Calls, SessionCode(p) PROVE OnlyCancelledLeak'
  <2>1. \A q \in Calls \ {p} : h'[q] = h[q]
    BY <1>3 DEF SessionCode, Starting, StartFailed, Spawn, Up, Stopping, StopLock,
                Stopped, StopWait, CheckStopped, SendRequest, WriteRequest,
                AwaitResponse, Goto, Finish, Sound, Hands
  <2>2. CASE SendRequest(p)
    <3>1. h[p].req = NoRequest /\ h[p] \in Records /\ UNCHANGED dropped
      BY <2>2 DEF SendRequest, At, Sound, Hands, Shaped
    <3>2. CASE UNCHANGED pending
      BY <1>1, <2>1, <3>1, <3>2 DEF rpcVars
    <3>3. ASSUME NEW r \in Requests, pending' = pending \cup {r},
                 h' = [h EXCEPT ![p] = [@ EXCEPT !.pc = "write", !.req = r]]
          PROVE  OnlyCancelledLeak'
      <4>1. h'[p].req = r
        BY <3>1, <3>3 DEF Sound, Hands, Records
      <4> QED
        BY <2>1, <3>1, <3>3, <4>1, NullAssumption DEF Sound, TypeOK
    <3> QED
      BY <2>2, <3>2, <3>3 DEF SendRequest
  <2>3. CASE WriteRequest(p)
    <3>1. CASE Goto(p, "await") /\ UNCHANGED pending
      <4>1. h'[p].req = h[p].req
        BY <3>1 DEF Goto, Sound, Hands, Records
      <4> QED
        BY <2>1, <2>3, <3>1, <4>1 DEF WriteRequest
    <3>2. CASE pending' = pending \ {h[p].req}
      BY <2>1, <2>3, <3>2 DEF WriteRequest
    <3> QED
      BY <2>3, <3>1, <3>2 DEF WriteRequest
  <2>4. CASE AwaitResponse(p)
    BY <2>1, <2>4 DEF AwaitResponse
  <2>5. CASE SessionCode(p) /\ ~SendRequest(p) /\ ~WriteRequest(p) /\ ~AwaitResponse(p)
    <3>1. h[p].pc \notin {"write", "await"} /\ UNCHANGED rpcVars
      BY <2>5 DEF SessionCode, Starting, Spawn, Up, Stopping, StopLock, StopWait,
                  CheckStopped, At
    <3> QED
      BY <1>1, <2>1, <3>1 DEF Sound, Hands, Shaped
  <2> QED
    BY <1>3, <2>2, <2>3, <2>4, <2>5
<1>4. ASSUME NEW q \in Procs, Pi(q) PROVE OnlyCancelledLeak'
  BY <1>4 DEF Pi, Exit, ReadNext, ReadLine, ReadEOF, rpcVars
<1> QED
  BY <1>2, <1>3, <1>4, CleanUpDeletes DEF Next

-----------------------------------------------------------------------------
(* The work of a call *)

\* A call goes through the steps of its kind.  Only StopAll has more sessions
\* than one; the one it is at is not among those it has yet to stop.
Job(c) ==
    /\ c.op = "none" => c.pc = "idle"
    /\ c.op = "create" => c.pc \in {"register", "persist", "starting", "spawn", "up",
                                    "unregister", "unpersist"}
    /\ c.op = "prompt" => c.pc \in {"check", "starting", "spawn", "up", "send", "write",
                                    "await"}
    /\ c.op = "delete" => c.pc \in {"erase", "stopping", "lock", "wait"}
    /\ c.op = "stopall" => /\ c.pc \in {"next", "stopping", "lock", "wait", "clear"}
                           /\ c.todo \subseteq c.all
                           /\ c.id = NoSession \/ c.id \in c.all \ c.todo
    /\ c.op # "stopall" => c.all = {}
    /\ c.pc = "idle" => c.id = NoSession
    /\ c.pc = "clear" => c.todo = {} /\ c.id = NoSession

Jobs == \A p \in Calls : Job(h[p])

OnIt(p, s) == Id(p) = s \/ s \in h[p].all

Others(p) == \A q \in Calls \ {p} : h'[q] = h[q]

\* What a step to another step leaves of the record.
LEMMA GotoMoves ==
    ASSUME Hands, NEW p \in Calls, NEW step \in Steps, Goto(p, step)
    PROVE  /\ Others(p)
           /\ h'[p].pc = step /\ h'[p].op = h[p].op /\ h'[p].id = h[p].id
           /\ h'[p].all = h[p].all /\ h'[p].todo = h[p].todo
           /\ \A s : OnIt(p, s)' <=> OnIt(p, s)
<1>1. h[p] \in Records /\ h' = [h EXCEPT ![p].pc = step] /\ h \in [Calls -> Records]
  BY DEF Hands, Goto
<1>2. /\ Others(p)
      /\ h'[p].pc = step /\ h'[p].op = h[p].op /\ h'[p].id = h[p].id
      /\ h'[p].all = h[p].all /\ h'[p].todo = h[p].todo
  BY <1>1 DEF Records, Others
<1> QED
  BY <1>2 DEF OnIt, Id

LEMMA FinishMoves ==
    ASSUME Hands, NEW p \in Calls, Finish(p)
    PROVE  /\ Others(p)
           /\ h'[p] = Idle
           /\ \A s \in Sessions : ~OnIt(p, s)'
<1>1. Others(p) /\ h'[p] = Idle
  BY DEF Hands, Finish, Others
<1> QED
  BY <1>1, NullAssumption DEF Idle, OnIt, Id

LEMMA BeginMoves ==
    ASSUME Hands, NEW p \in Calls, NEW op, NEW s, NEW step, Begin(p, op, s, step)
    PROVE  /\ Others(p)
           /\ h'[p].pc = step /\ h'[p].op = op /\ h'[p].id = s /\ h'[p].all = {}
           /\ \A t : OnIt(p, t)' <=> t = s
<1>1. /\ Others(p)
      /\ h'[p] = [Idle EXCEPT !.pc = step, !.op = op, !.id = s]
  BY DEF Hands, Begin, Others
<1>2. h'[p].pc = step /\ h'[p].op = op /\ h'[p].id = s /\ h'[p].all = {}
  BY <1>1 DEF Idle
<1> QED
  BY <1>1, <1>2 DEF OnIt, Id

LEMMA IdleJob == Job(Idle)
BY DEF Idle, Job

\* A call that is idle works on nothing.
LEMMA IdleIsOff ==
    ASSUME Jobs, NEW p \in Calls, h[p].pc = "idle" PROVE \A s \in Sessions : ~OnIt(p, s)
<1>1. Job(h[p])
  BY DEF Jobs
<1> QED
  BY <1>1, NullAssumption DEF Job, OnIt, Id

LEMMA JobsMove ==
    ASSUME Jobs, NEW p \in Calls, Others(p), Job(h'[p]) PROVE Jobs'
BY DEF Jobs, Others

\* StopAll goes on to the next session, or is done with all.
LEMMA StopNextMoves ==
    ASSUME Hands, Jobs, NEW p \in Calls, StopNext(p)
    PROVE  /\ Others(p)
           /\ h[p].pc = "next" /\ h[p].op = "stopall" /\ h[p].todo \subseteq h[p].all
           /\ h[p].id = NoSession \/ h[p].id \in h[p].all \ h[p].todo
           /\ h'[p].op = "stopall" /\ h'[p].all = h[p].all
           /\ \/ /\ h'[p].pc = "clear" /\ h'[p].id = NoSession
                 /\ h[p].todo = {} /\ h'[p].todo = {}
              \/ /\ h'[p].pc = "stopping" /\ h'[p].id \in h[p].todo
                 /\ h'[p].todo = h[p].todo \ {h'[p].id}
<1>1. h[p] \in Records /\ h \in [Calls -> Records]
  BY DEF Hands
<1>2. /\ h[p].pc = "next" /\ h[p].op = "stopall" /\ h[p].todo \subseteq h[p].all
      /\ h[p].id = NoSession \/ h[p].id \in h[p].all \ h[p].todo
  BY <1>1 DEF StopNext, At, Jobs, Job, Records
<1>3. CASE h[p].todo = {} /\ h' = [h EXCEPT ![p] = [@ EXCEPT !.pc = "clear",
                                                            !.id = NoSession]]
  <2>1. /\ h'[p].pc = "clear" /\ h'[p].id = NoSession /\ h'[p].op = h[p].op
        /\ h'[p].todo = h[p].todo /\ h'[p].all = h[p].all /\ Others(p)
    BY <1>1, <1>3 DEF Records, Others
  <2> QED
    BY <1>2, <1>3, <2>1
<1>4. ASSUME NEW s \in h[p].todo,
             h' = [h EXCEPT ![p] = [@ EXCEPT !.pc = "stopping", !.id = s,
                                             !.todo = h[p].todo \ {s}]]
      PROVE  /\ h'[p].pc = "stopping" /\ h'[p].id = s /\ h'[p].op = h[p].op
             /\ h'[p].todo = h[p].todo \ {s} /\ h'[p].all = h[p].all /\ Others(p)
  BY <1>1, <1>4 DEF Records, Others
<1> QED
  BY <1>2, <1>3, <1>4 DEF StopNext, NextToStop

LEMMA ManagerJobs ==
    ASSUME Hands, Jobs, NEW p \in Calls, Manager(p) PROVE Jobs' /\ Others(p)
<1>1. /\ Job(h[p]) /\ h[p] \in Records
      /\ {"persist", "starting", "unpersist", "stopping"} \subseteq Steps
  BY DEF Jobs, Hands, Steps
<1>2. CASE Register(p)
  BY <1>1, <1>2, GotoMoves, JobsMove DEF Register, At, Job
<1>3. CASE Persist(p)
  BY <1>1, <1>3, GotoMoves, JobsMove DEF Persist, At, Job
<1>4. CASE Unregister(p)
  BY <1>1, <1>4, GotoMoves, JobsMove DEF Unregister, At, Job
<1>5. CASE Unpersist(p)
  BY <1>5, FinishMoves, IdleJob, JobsMove DEF Unpersist
<1>6. CASE Erase(p)
  BY <1>1, <1>6, GotoMoves, JobsMove DEF Erase, At, Job
<1>7. CASE StopNext(p)
  <2>1. /\ h'[p].todo \subseteq h'[p].all
        /\ h'[p].id = NoSession \/ h'[p].id \in h'[p].all \ h'[p].todo
    BY <1>7, StopNextMoves
  <2> QED
    BY <1>7, <2>1, StopNextMoves, JobsMove DEF Job
<1>8. CASE Clear(p)
  BY <1>8, FinishMoves, IdleJob, JobsMove DEF Clear
<1> QED
  BY <1>2, <1>3, <1>4, <1>5, <1>6, <1>7, <1>8 DEF Manager

LEMMA SessionJobs ==
    ASSUME Hands, Jobs, NEW p \in Calls, SessionCode(p) PROVE Jobs' /\ Others(p)
<1>1. /\ Job(h[p]) /\ h[p] \in Records
      /\ {"spawn", "up", "unregister", "send", "lock", "wait", "next", "starting", "write",
          "await"} \subseteq Steps
  BY DEF Jobs, Hands, Steps
<1>2. CASE Starting(p)
  BY <1>1, <1>2, GotoMoves, FinishMoves, IdleJob, JobsMove
     DEF Starting, StartFailed, At, Job
<1>3. CASE Spawn(p)
  BY <1>1, <1>3, GotoMoves, FinishMoves, IdleJob, JobsMove
     DEF Spawn, StartFailed, At, Job
<1>4. CASE Up(p)
  BY <1>1, <1>4, GotoMoves, FinishMoves, IdleJob, JobsMove DEF Up, At, Job
<1>5. CASE Stopping(p)
  BY <1>1, <1>5, GotoMoves, JobsMove DEF Stopping, At, Job
<1>6. CASE StopLock(p)
  BY <1>1, <1>6, GotoMoves, FinishMoves, IdleJob, JobsMove
     DEF StopLock, Stopped, At, Job
<1>7. CASE StopWait(p)
  BY <1>1, <1>7, GotoMoves, FinishMoves, IdleJob, JobsMove
     DEF StopWait, Stopped, At, Job
<1>8. CASE CheckStopped(p)
  BY <1>1, <1>8, GotoMoves, JobsMove DEF CheckStopped, At, Job
<1>9. CASE SendRequest(p)
  <2>1. CASE Finish(p)
    BY <2>1, FinishMoves, IdleJob, JobsMove
  <2>2. ASSUME NEW r \in Requests,
               h' = [h EXCEPT ![p] = [@ EXCEPT !.pc = "write", !.req = r]]
        PROVE  Jobs' /\ Others(p)
    <3>1. /\ h'[p].pc = "write" /\ h'[p].op = h[p].op /\ h'[p].id = h[p].id
          /\ h'[p].all = h[p].all /\ h'[p].todo = h[p].todo /\ Others(p)
      BY <1>1, <2>2 DEF Records, Hands, Others
    <3> QED
      BY <1>1, <1>9, <3>1, JobsMove DEF SendRequest, At, Job
  <2> QED
    BY <1>9, <2>1, <2>2 DEF SendRequest
<1>10. CASE WriteRequest(p)
  BY <1>1, <1>10, GotoMoves, FinishMoves, IdleJob, JobsMove DEF WriteRequest, At, Job
<1>11. CASE AwaitResponse(p)
  BY <1>11, FinishMoves, IdleJob, JobsMove DEF AwaitResponse
<1> QED
  BY <1>2, <1>3, <1>4, <1>5, <1>6, <1>7, <1>8, <1>9, <1>10, <1>11 DEF SessionCode

LEMMA ClientJobs ==
    ASSUME Hands, Jobs, NEW p \in Calls, Client(p) PROVE Jobs' /\ Others(p)
<1>1. CASE StopAll(p)
  <2>1. /\ h'[p] = [Idle EXCEPT !.pc = "next", !.op = "stopall", !.all = sessions,
                                !.todo = sessions]
        /\ Others(p)
    BY <1>1 DEF StopAll, Hands, Others
  <2>2. Job(h'[p])
    BY <2>1 DEF Idle, Job
  <2> QED
    BY <2>1, <2>2, JobsMove
<1>2. ASSUME NEW s \in Sessions, Create(p, s) \/ Delete(p, s) \/ Prompt(p, s)
      PROVE  Jobs' /\ Others(p)
  <2>1. \/ Begin(p, "create", s, "register")
        \/ Begin(p, "delete", s, "erase")
        \/ Begin(p, "prompt", s, "check")
    BY <1>2 DEF Create, Delete, Prompt
  <2>2. /\ h'[p].id = s /\ h'[p].all = {} /\ Others(p)
        /\ \/ h'[p].op = "create" /\ h'[p].pc = "register"
           \/ h'[p].op = "delete" /\ h'[p].pc = "erase"
           \/ h'[p].op = "prompt" /\ h'[p].pc = "check"
    <3>1. CASE Begin(p, "create", s, "register")
      BY <3>1, BeginMoves
    <3>2. CASE Begin(p, "delete", s, "erase")
      BY <3>2, BeginMoves
    <3>3. CASE Begin(p, "prompt", s, "check")
      BY <3>3, BeginMoves
    <3> QED
      BY <2>1, <3>1, <3>2, <3>3
  <2> QED
    BY <2>2, JobsMove DEF Job
<1> QED
  BY <1>1, <1>2 DEF Client

LEMMA JobsStep == ASSUME Hands, Jobs, [Next]_vars PROVE Jobs'
<1>1. ASSUME NEW q \in Procs, Pi(q) PROVE Jobs'
  <2>1. UNCHANGED h
    BY <1>1 DEF Pi, Exit, ReadNext, ReadLine, ReadEOF
  <2> QED
    BY <2>1 DEF Jobs
<1>2. CASE UNCHANGED vars
  BY <1>2 DEF vars, Jobs
<1> QED
  BY <1>1, <1>2, ManagerJobs, SessionJobs, ClientJobs, CleanUpDeletes DEF Next

-----------------------------------------------------------------------------
(* Whose session it is *)

\* Session s has its row, or has none, unless a statement on it has failed.
Saved(s) == s \in table \/ s \in unsaved
Erased(s) == s \notin table \/ s \in unsaved

\* What a call finds of a session s that it works on and no other does.
InHand(p, s) ==
    /\ s \notin sessions <=>
          h[p].op = "delete" \/ h[p].pc \in {"register", "unpersist"}
    /\ h[p].op \in {"prompt", "stopall"} => Saved(s)
    /\ h[p].pc \in {"starting", "spawn", "up", "unregister"} => Saved(s)
    /\ h[p].pc = "register" => Erased(s)
    /\ h[p].op = "delete" /\ h[p].pc # "erase" => Erased(s)
    /\ h[p].op = "create" /\ h[p].pc # "up" => Alive(s) = {}
    /\ h[p].op = "stopall" /\ s \notin h[p].todo
         /\ ~(s = h[p].id /\ h[p].pc \in {"stopping", "lock", "wait"}) => Alive(s) = {}

\* What calls leave behind.
AtRest(s) ==
    /\ s \in sessions => Saved(s)
    /\ s \notin sessions => Alive(s) = {} /\ (Erased(s) \/ closed)

Tended(s) ==
    s \notin raced =>
        /\ \A p, q \in Calls : OnIt(p, s) /\ OnIt(q, s) => p = q
        /\ \A p \in Calls : OnIt(p, s) => InHand(p, s)
        /\ ~Busy(s) => AtRest(s)

\* A session that is not made yet is nowhere.
Unborn(s) ==
    state[s] = "unborn" =>
        /\ s \notin sessions /\ s \notin table /\ s \notin raced
        /\ \A q \in Procs : owner[q] # s
        /\ \A p \in Calls : s \notin h[p].all /\ (Id(p) = s => h[p].pc = "register")

\* A step leaves session s alone, or stops its process.
Steady(s) ==
    /\ s \in sessions' <=> s \in sessions
    /\ s \in table' <=> s \in table
    /\ s \in unsaved => s \in unsaved'
    /\ Alive(s)' \subseteq Alive(s)
    /\ closed => closed'

\* The step of a call that has nothing to do with s.
LEMMA Aside ==
    ASSUME NEW p \in Calls, NEW s \in Sessions, Tended(s), Others(p), raced \subseteq raced',
           ~OnIt(p, s), ~OnIt(p, s)', Steady(s)
    PROVE  Tended(s)'
<1>1. \A q \in Calls : OnIt(q, s)' => q # p /\ OnIt(q, s) /\ h'[q] = h[q]
  BY DEF Others, OnIt, Id
<1>2. Busy(s) => Busy(s)'
  <2>1. ASSUME NEW q \in Calls, OnIt(q, s) PROVE Busy(s)'
    BY <2>1 DEF Others, OnIt, Id, Busy
  <2> QED
    BY <2>1 DEF Busy, OnIt
<1>3. ASSUME NEW q \in Calls, InHand(q, s), h'[q] = h[q] PROVE InHand(q, s)'
  BY <1>3 DEF InHand, Steady, Saved, Erased
<1>4. AtRest(s) => AtRest(s)'
  BY DEF AtRest, Steady, Saved, Erased
<1> QED
  BY <1>1, <1>2, <1>3, <1>4 DEF Tended

\* The step of the call that works on s.
LEMMA AtWork ==
    ASSUME NEW p \in Calls, NEW s \in Sessions, Tended(s), Others(p), raced \subseteq raced',
           OnIt(p, s),
           s \notin raced' /\ InHand(p, s) => (OnIt(p, s)' => InHand(p, s)')
                                             /\ (~OnIt(p, s)' => AtRest(s)')
    PROVE  Tended(s)'
<1> SUFFICES ASSUME s \notin raced'
             PROVE  /\ \A q, r \in Calls : OnIt(q, s)' /\ OnIt(r, s)' => q = r
                    /\ \A q \in Calls : OnIt(q, s)' => InHand(q, s)'
                    /\ ~Busy(s)' => AtRest(s)'
  BY DEF Tended
<1>1. InHand(p, s) /\ \A q \in Calls : OnIt(q, s) => q = p
  BY DEF Tended
<1>2. \A q \in Calls : OnIt(q, s)' => q = p
  BY <1>1 DEF Others, OnIt, Id
<1>3. ~Busy(s)' => ~OnIt(p, s)'
  BY DEF Busy, OnIt
<1> QED
  BY <1>1, <1>2, <1>3

\* The step by which a call begins to work on s.
LEMMA Taken ==
    ASSUME NEW p \in Calls, NEW s \in Sessions, Tended(s), Others(p), ~OnIt(p, s),
           OnIt(p, s)', s \notin raced' => s \notin raced /\ ~Busy(s),
           AtRest(s) /\ ~Busy(s) => InHand(p, s)'
    PROVE  Tended(s)'
<1> SUFFICES ASSUME s \notin raced' PROVE Tended(s)'
  BY DEF Tended
<1>1. AtRest(s) /\ ~Busy(s)
  BY DEF Tended
<1>2. \A q \in Calls : OnIt(q, s)' => q = p
  BY <1>1 DEF Others, OnIt, Id, Busy
<1>3. Busy(s)'
  BY DEF Busy, OnIt
<1> QED
  BY <1>1, <1>2, <1>3 DEF Tended

LEMMA ManagerTends ==
    ASSUME Sound, Jobs, NEW p \in Calls, NEW s \in Sessions, Tended(s), Manager(p)
    PROVE  Tended(s)'
<1>1. Others(p) /\ Job(h[p]) /\ Hands /\ h[p] \in Records
  BY ManagerJobs DEF Jobs, Sound, Hands
<1>2. raced \subseteq raced'
  BY DEF Manager, Register, Persist, Unregister, Unpersist, Erase, StopNext, Clear,
         history
<1>3. Alive(s)' = Alive(s)
  BY DEF Manager, Register, Persist, Unregister, Unpersist, Erase, StopNext, Clear,
         procVars, Alive
<1> USE <1>1 DEF At, Id, Records, history, Statement, Fails, Saved, Erased
<1>4. CASE Register(p)
  <2>1. /\ h[p].pc = "register" /\ h[p].op = "create" /\ h[p].all = {}
        /\ h'[p].pc = "persist" /\ h'[p].op = "create" /\ h'[p].id = h[p].id
        /\ \A t : OnIt(p, t)' <=> OnIt(p, t)
    BY <1>4, GotoMoves DEF Register, Job, Steps
  <2>2. CASE s = Id(p)
    BY <1>2, <1>3, <1>4, <2>1, <2>2, AtWork DEF Register, OnIt, InHand
  <2>3. CASE s # Id(p)
    BY <1>2, <1>3, <1>4, <2>1, <2>3, Aside DEF Register, OnIt, Steady
  <2> QED
    BY <2>2, <2>3
<1>5. CASE Persist(p)
  <2>1. /\ h[p].pc = "persist" /\ h[p].op = "create" /\ h[p].all = {}
        /\ h'[p].pc = "starting" /\ h'[p].op = "create" /\ h'[p].id = h[p].id
        /\ \A t : OnIt(p, t)' <=> OnIt(p, t)
    BY <1>5, GotoMoves DEF Persist, Job, Steps
  <2>2. CASE s = Id(p)
    BY <1>2, <1>3, <1>5, <2>1, <2>2, AtWork DEF Persist, OnIt, InHand
  <2>3. CASE s # Id(p)
    BY <1>2, <1>3, <1>5, <2>1, <2>3, Aside DEF Persist, OnIt, Steady
  <2> QED
    BY <2>2, <2>3
<1>6. CASE Unregister(p)
  <2>1. /\ h[p].pc = "unregister" /\ h[p].op = "create" /\ h[p].all = {}
        /\ h'[p].pc = "unpersist" /\ h'[p].op = "create" /\ h'[p].id = h[p].id
        /\ \A t : OnIt(p, t)' <=> OnIt(p, t)
    BY <1>6, GotoMoves DEF Unregister, Job, Steps
  <2>2. CASE s = Id(p)
    BY <1>2, <1>3, <1>6, <2>1, <2>2, AtWork DEF Unregister, OnIt, InHand
  <2>3. CASE s # Id(p)
    BY <1>2, <1>3, <1>6, <2>1, <2>3, Aside DEF Unregister, OnIt, Steady
  <2> QED
    BY <2>2, <2>3
<1>7. CASE Unpersist(p)
  <2>1. /\ h[p].pc = "unpersist" /\ h[p].op = "create" /\ h[p].all = {}
        /\ ~OnIt(p, s)'
    BY <1>7, FinishMoves DEF Unpersist, Job
  <2>2. CASE s = Id(p)
    BY <1>2, <1>3, <1>7, <2>1, <2>2, AtWork DEF Unpersist, OnIt, InHand, AtRest
  <2>3. CASE s # Id(p)
    BY <1>2, <1>3, <1>7, <2>1, <2>3, Aside DEF Unpersist, OnIt, Steady
  <2> QED
    BY <2>2, <2>3
<1>8. CASE Erase(p)
  <2>1. /\ h[p].pc = "erase" /\ h[p].op = "delete" /\ h[p].all = {}
        /\ h'[p].pc = "stopping" /\ h'[p].op = "delete" /\ h'[p].id = h[p].id
        /\ \A t : OnIt(p, t)' <=> OnIt(p, t)
    BY <1>8, GotoMoves DEF Erase, Job, Steps
  <2>2. CASE s = Id(p)
    BY <1>2, <1>3, <1>8, <2>1, <2>2, AtWork DEF Erase, OnIt, InHand
  <2>3. CASE s # Id(p)
    BY <1>2, <1>3, <1>8, <2>1, <2>3, Aside DEF Erase, OnIt, Steady
  <2> QED
    BY <2>2, <2>3
<1>9. CASE StopNext(p)
  <2>1. OnIt(p, s)' <=> OnIt(p, s)
    BY <1>9, StopNextMoves, NullAssumption DEF OnIt
  <2>2. CASE OnIt(p, s)
    BY <1>2, <1>3, <1>9, <2>1, <2>2, AtWork, StopNextMoves, NullAssumption
       DEF StopNext, OnIt, InHand, mapVars
  <2>3. CASE ~OnIt(p, s)
    BY <1>2, <1>3, <1>9, <2>1, <2>3, Aside DEF StopNext, Steady, mapVars
  <2> QED
    BY <2>2, <2>3
<1>10. CASE Clear(p)
  <2>1. /\ h[p].pc = "clear" /\ h[p].op = "stopall"
        /\ h[p].id = NoSession /\ h[p].todo = {}
        /\ ~OnIt(p, s)'
    BY <1>10, FinishMoves DEF Clear, Job
  <2>2. CASE OnIt(p, s)
    BY <1>2, <1>3, <1>10, <2>1, <2>2, AtWork DEF Clear, OnIt, InHand, AtRest
  <2>3. CASE ~OnIt(p, s) /\ s \notin sessions
    BY <1>2, <1>3, <1>10, <2>1, <2>3, Aside DEF Clear, OnIt, Steady
  <2>4. CASE ~OnIt(p, s) /\ s \in sessions
    BY <1>10, <2>4 DEF Clear, OnIt, Tended
  <2> QED
    BY <2>2, <2>3, <2>4
<1> QED
  BY <1>4, <1>5, <1>6, <1>7, <1>8, <1>9, <1>10 DEF Manager

\* The process of a session is the one in its cmd, so nobody else's is killed and
\* none is left.
LEMMA KilledAlive ==
    ASSUME Sound, NEW s \in Sessions, NEW t \in Sessions, proc' = Killed(t),
           UNCHANGED owner
    PROVE  Alive(s)' \subseteq Alive(s) /\ Alive(t)' = {}
BY DEF Sound, TypeOK, Commanded, Killed, Alive

LEMMA SpawnedAlive ==
    ASSUME Sound, NEW s \in Sessions, NEW t \in Sessions, NEW q \in Procs, s # t,
           proc' = [Killed(t) EXCEPT ![q] = "alive"], owner' = [owner EXCEPT ![q] = t]
    PROVE  Alive(s)' \subseteq Alive(s)
BY DEF Sound, TypeOK, Killed, Alive

LEMMA SessionTends ==
    ASSUME Sound, Jobs, NEW p \in Calls, NEW s \in Sessions, Tended(s), SessionCode(p)
    PROVE  Tended(s)'
<1>1. Others(p) /\ Job(h[p]) /\ Hands /\ h[p] \in Records
  BY SessionJobs DEF Jobs, Sound, Hands
<1>2. /\ UNCHANGED <<sessions, table, raced, unsaved, closed>>
      /\ raced \subseteq raced'
  BY DEF SessionCode, Starting, Spawn, Up, Stopping, StopLock, StopWait, CheckStopped,
         SendRequest, WriteRequest, AwaitResponse, history, mapVars
<1>3. Id(p) \in Sessions /\ h[p].op \in {"create", "prompt", "delete", "stopall"}
  BY <1>1 DEF SessionCode, Starting, Spawn, Up, Stopping, StopLock, StopWait,
              CheckStopped, SendRequest, WriteRequest, AwaitResponse, At, Hands, Shaped,
              Working, Steps, Id, Job, Records
<1>4. ASSUME ~OnIt(p, s), ~OnIt(p, s)', Alive(s)' \subseteq Alive(s) PROVE Tended(s)'
  BY <1>1, <1>2, <1>4, Aside DEF Steady
<1>5. ASSUME OnIt(p, s),
             InHand(p, s) => (OnIt(p, s)' => InHand(p, s)') /\ (~OnIt(p, s)' => AtRest(s)')
      PROVE  Tended(s)'
  BY <1>1, <1>2, <1>5, AtWork
<1> USE <1>1, <1>2, <1>3 DEF At, Id, Saved, Erased
<1>6. ASSUME UNCHANGED procVars PROVE Alive(s)' = Alive(s)
  BY <1>6 DEF procVars, Alive
<1>7. CASE Starting(p)
  <2>1. /\ h[p].pc = "starting" /\ h[p].op \in {"create", "prompt"} /\ h[p].all = {}
        /\ Alive(s)' = Alive(s)
        /\ OnIt(p, s) <=> s = Id(p)
    BY <1>6, <1>7 DEF Starting, Job, OnIt
  <2>2. CASE Goto(p, "spawn") \/ (h[p].op = "create" /\ Goto(p, "unregister"))
    <3>1. /\ h'[p].pc \in {"spawn", "unregister"} /\ h'[p].op = h[p].op
          /\ h'[p].pc = "unregister" => h[p].op = "create"
          /\ h'[p].id = h[p].id
          /\ OnIt(p, s)' <=> OnIt(p, s)
      BY <2>2, GotoMoves DEF Steps
    <3> QED
      BY <1>4, <1>5, <2>1, <3>1 DEF InHand
  <2>3. CASE Finish(p) /\ h[p].op = "prompt"
    <3>1. ~OnIt(p, s)'
      BY <2>3, FinishMoves
    <3> QED
      BY <1>4, <1>5, <2>1, <2>3, <3>1 DEF InHand, AtRest
  <2> QED
    BY <1>7, <2>1, <2>2, <2>3 DEF Starting, StartFailed
<1>8. CASE Spawn(p)
  <2>1. /\ h[p].pc = "spawn" /\ h[p].op \in {"create", "prompt"} /\ h[p].all = {}
        /\ OnIt(p, s) <=> s = Id(p)
    BY <1>8 DEF Spawn, Job, OnIt
  <2>2. ASSUME NEW q \in Procs, proc' = [Killed(Id(p)) EXCEPT ![q] = "alive"],
               owner' = [owner EXCEPT ![q] = Id(p)], Goto(p, "up")
        PROVE  Tended(s)'
    <3>1. /\ h'[p].pc = "up" /\ h'[p].op = h[p].op /\ h'[p].id = h[p].id
          /\ OnIt(p, s)' <=> OnIt(p, s)
      BY <2>2, GotoMoves DEF Steps
    <3>2. CASE s = Id(p)
      BY <1>5, <2>1, <3>1, <3>2 DEF InHand
    <3>3. CASE s # Id(p)
      BY <1>4, <2>1, <2>2, <3>1, <3>3, SpawnedAlive
    <3> QED
      BY <3>2, <3>3
  <2>3. ASSUME proc' = Killed(Id(p)), UNCHANGED owner, StartFailed(p)
        PROVE  Tended(s)'
    <3>1. Alive(s)' \subseteq Alive(s) /\ (s = Id(p) => Alive(s)' = {})
      BY <2>3, KilledAlive
    <3>2. CASE h[p].op = "create"
      <4>1. /\ h'[p].pc = "unregister" /\ h'[p].op = h[p].op /\ h'[p].id = h[p].id
            /\ OnIt(p, s)' <=> OnIt(p, s)
        BY <2>3, <3>2, GotoMoves DEF StartFailed, Steps
      <4> QED
        BY <1>4, <1>5, <2>1, <3>1, <3>2, <4>1 DEF InHand
    <3>3. CASE h[p].op = "prompt"
      <4>1. ~OnIt(p, s)'
        BY <2>3, <3>3, FinishMoves DEF StartFailed
      <4> QED
        BY <1>4, <1>5, <2>1, <3>1, <3>3, <4>1 DEF InHand, AtRest
    <3> QED
      BY <2>1, <3>2, <3>3
  <2> QED
    BY <1>8, <2>2, <2>3 DEF Spawn
<1>9. CASE Up(p)
  <2>1. /\ h[p].pc = "up" /\ h[p].op \in {"create", "prompt"} /\ h[p].all = {}
        /\ Alive(s)' = Alive(s)
        /\ OnIt(p, s) <=> s = Id(p)
    BY <1>6, <1>9 DEF Up, Job, OnIt
  <2>2. CASE h[p].op = "create"
    <3>1. ~OnIt(p, s)'
      BY <1>9, <2>2, FinishMoves DEF Up
    <3> QED
      BY <1>4, <1>5, <2>1, <2>2, <3>1 DEF InHand, AtRest
  <2>3. CASE h[p].op = "prompt"
    <3>1. /\ h'[p].pc = "send" /\ h'[p].op = h[p].op /\ h'[p].id = h[p].id
          /\ OnIt(p, s)' <=> OnIt(p, s)
      BY <1>9, <2>3, GotoMoves DEF Up, Steps
    <3> QED
      BY <1>4, <1>5, <2>1, <2>3, <3>1 DEF InHand
  <2> QED
    BY <2>1, <2>2, <2>3
<1>10. CASE Stopping(p)
  <2>1. /\ h[p].pc = "stopping" /\ h[p].op \in {"delete", "stopall"}
        /\ Alive(s)' = Alive(s)
    BY <1>6, <1>10 DEF Stopping, Job
  <2>2. /\ h'[p].pc = "lock" /\ h'[p].op = h[p].op /\ h'[p].id = h[p].id
        /\ h'[p].todo = h[p].todo
        /\ OnIt(p, s)' <=> OnIt(p, s)
    BY <1>10, GotoMoves DEF Stopping, Steps
  <2> QED
    BY <1>4, <1>5, <2>1, <2>2 DEF InHand
\* Stop returns, and the process is gone.
<1>11. ASSUME h[p].pc \in {"lock", "wait"}, Alive(s)' \subseteq Alive(s),
              s = Id(p) => Alive(s)' = {}, Stopped(p)
       PROVE  Tended(s)'
  <2>1. /\ h[p].op \in {"delete", "stopall"}
        /\ h[p].op = "delete" => h[p].all = {}
    BY <1>11 DEF Job
  <2>2. CASE h[p].op = "delete"
    <3>1. ~OnIt(p, s)'
      BY <1>11, <2>2, FinishMoves DEF Stopped
    <3>2. OnIt(p, s) <=> s = Id(p)
      BY <2>1, <2>2 DEF OnIt
    <3> QED
      BY <1>4, <1>5, <1>11, <2>2, <3>1, <3>2 DEF InHand, AtRest
  <2>3. CASE h[p].op = "stopall"
    <3>1. /\ h'[p].pc = "next" /\ h'[p].op = h[p].op /\ h'[p].id = h[p].id
          /\ h'[p].todo = h[p].todo
          /\ OnIt(p, s)' <=> OnIt(p, s)
      BY <1>11, <2>3, GotoMoves DEF Stopped, Steps
    <3> QED
      BY <1>4, <1>5, <1>11, <2>3, <3>1 DEF InHand
  <2> QED
    BY <2>1, <2>2, <2>3
<1>12. CASE StopLock(p)
  <2>1. h[p].pc = "lock" /\ Alive(s)' = Alive(s)
    BY <1>6, <1>12 DEF StopLock
  <2>2. CASE cmd[Id(p)] = NoProc
    <3>1. s = Id(p) => Alive(s) = {}
      BY <2>2, NullAssumption DEF Alive, Sound, Commanded
    <3> QED
      BY <1>11, <1>12, <2>1, <2>2, <3>1 DEF StopLock
  <2>3. CASE Goto(p, "wait")
    <3>1. /\ h'[p].pc = "wait" /\ h'[p].op = h[p].op /\ h'[p].id = h[p].id
          /\ h'[p].todo = h[p].todo
          /\ OnIt(p, s)' <=> OnIt(p, s)
      BY <2>3, GotoMoves DEF Steps
    <3>2. h[p].op \in {"delete", "stopall"}
      BY <2>1 DEF Job
    <3> QED
      BY <1>4, <1>5, <2>1, <3>1, <3>2 DEF InHand
  <2> QED
    BY <1>12, <2>2, <2>3 DEF StopLock
<1>13. CASE StopWait(p)
  <2>1. h[p].pc = "wait" /\ Stopped(p) /\ proc' = Killed(Id(p)) /\ UNCHANGED owner
    BY <1>13 DEF StopWait
  <2> QED
    BY <1>11, <2>1, KilledAlive
\* Asking pi.
<1>14. CASE CheckStopped(p) \/ SendRequest(p) \/ WriteRequest(p) \/ AwaitResponse(p)
  <2>1. /\ h[p].pc \in {"check", "send", "write", "await"}
        /\ h[p].op = "prompt" /\ h[p].all = {}
        /\ Alive(s)' = Alive(s)
        /\ OnIt(p, s) <=> s = Id(p)
    BY <1>6, <1>14 DEF CheckStopped, SendRequest, WriteRequest, AwaitResponse, Job, OnIt
  <2>2. CASE Finish(p)
    <3>1. ~OnIt(p, s)'
      BY <2>2, FinishMoves
    <3> QED
      BY <1>4, <1>5, <2>1, <3>1 DEF InHand, AtRest
  <2>3. ASSUME h'[p].pc \in {"starting", "send", "write", "await"},
               h'[p].op = h[p].op, OnIt(p, s)' <=> OnIt(p, s)
        PROVE  Tended(s)'
    BY <1>4, <1>5, <2>1, <2>3 DEF InHand
  <2>4. CASE Goto(p, "starting") \/ Goto(p, "send") \/ Goto(p, "await")
    BY <2>3, <2>4, GotoMoves DEF Steps
  <2>5. ASSUME NEW r \in Requests,
               h' = [h EXCEPT ![p] = [@ EXCEPT !.pc = "write", !.req = r]]
        PROVE  Tended(s)'
    <3>1. /\ h'[p].pc = "write" /\ h'[p].op = h[p].op /\ h'[p].id = h[p].id
          /\ h'[p].all = h[p].all
      BY <2>5 DEF Records, Hands
    <3> QED
      BY <2>3, <3>1 DEF OnIt
  <2> QED
    BY <1>14, <2>2, <2>4, <2>5 DEF CheckStopped, SendRequest, WriteRequest, AwaitResponse
<1> QED
  BY <1>7, <1>8, <1>9, <1>10, <1>12, <1>13, <1>14 DEF SessionCode

LEMMA ClientTends ==
    ASSUME Sound, Jobs, NEW p \in Calls, NEW s \in Sessions, Unborn(s), Tended(s),
           Client(p)
    PROVE  Tended(s)'
<1>1. /\ Others(p) /\ Hands /\ h[p] \in Records
      /\ h[p].pc = "idle"
      /\ UNCHANGED <<table, unsaved, closed>> /\ raced \subseteq raced'
      /\ Alive(s)' = Alive(s)
  BY ClientJobs DEF Client, StopAll, Create, Delete, Prompt, Begin, At, procVars, mapVars,
                    Sound, Hands, Alive
<1>2. ~OnIt(p, s)
  BY <1>1, IdleIsOff
<1>3. CASE StopAll(p)
  <2>1. /\ h'[p].pc = "next" /\ h'[p].op = "stopall" /\ h'[p].id = NoSession
        /\ h'[p].all = sessions /\ h'[p].todo = sessions
        /\ sessions' = sessions
    BY <1>3 DEF StopAll, Idle, Hands, mapVars, Sound
  <2>2. OnIt(p, s)' <=> s \in sessions
    BY <2>1, NullAssumption DEF OnIt, Id
  <2>3. CASE s \in sessions
    <3>1. s \notin raced' => s \notin raced /\ ~Busy(s)
      BY <1>3, <2>3 DEF StopAll
    <3> QED
      BY <1>1, <1>2, <2>1, <2>2, <2>3, <3>1, Taken DEF AtRest, InHand, Saved, Erased
  <2>4. CASE s \notin sessions
    BY <1>1, <1>2, <2>1, <2>2, <2>4, Aside DEF Steady
  <2> QED
    BY <2>3, <2>4
<1>4. ASSUME NEW t \in Sessions, NEW op, NEW step, Begin(p, op, t, step),
             s # t, s \in sessions' <=> s \in sessions
      PROVE  Tended(s)'
  <2>1. ~OnIt(p, s)'
    BY <1>1, <1>4, BeginMoves
  <2> QED
    BY <1>1, <1>2, <1>4, <2>1, Aside DEF Steady
<1>5. ASSUME NEW op, NEW step, Begin(p, op, s, step), AtRest(s) /\ ~Busy(s) => InHand(p, s)'
      PROVE  Tended(s)'
  <2>1. OnIt(p, s)' /\ (s \notin raced' => s \notin raced /\ ~Busy(s))
    BY <1>1, <1>5, BeginMoves DEF Begin
  <2> QED
    BY <1>1, <1>2, <1>5, <2>1, Taken
<1>6. ASSUME NEW t \in Sessions, Create(p, t) PROVE Tended(s)'
  <2>1. Begin(p, "create", t, "register") /\ sessions' = sessions
    BY <1>6 DEF Create, mapVars
  <2>2. CASE s # t
    BY <1>4, <2>1, <2>2
  <2>3. CASE s = t
    <3>1. h'[p].pc = "register" /\ h'[p].op = "create"
      BY <1>1, <2>1, BeginMoves
    <3>2. s \notin sessions /\ s \notin table /\ Alive(s) = {}
      BY <1>6, <2>3 DEF Create, Unborn, Alive
    <3>3. InHand(p, s)'
      BY <1>1, <2>1, <3>1, <3>2 DEF InHand, Saved, Erased
    <3> QED
      BY <1>5, <2>1, <2>3, <3>3
  <2> QED
    BY <2>2, <2>3
<1>7. ASSUME NEW t \in Sessions, Delete(p, t) PROVE Tended(s)'
  <2>1. Begin(p, "delete", t, "erase") /\ sessions' = sessions \ {t}
    BY <1>7 DEF Delete
  <2>2. CASE s # t
    BY <1>4, <2>1, <2>2
  <2>3. CASE s = t
    <3>1. h'[p].pc = "erase" /\ h'[p].op = "delete"
      BY <1>1, <2>1, BeginMoves
    <3>2. InHand(p, s)'
      BY <2>1, <2>3, <3>1 DEF InHand
    <3> QED
      BY <1>5, <2>1, <2>3, <3>2
  <2> QED
    BY <2>2, <2>3
<1>8. ASSUME NEW t \in Sessions, Prompt(p, t) PROVE Tended(s)'
  <2>1. Begin(p, "prompt", t, "check") /\ sessions' = sessions /\ t \in sessions
    BY <1>8 DEF Prompt, mapVars
  <2>2. CASE s # t
    BY <1>4, <2>1, <2>2
  <2>3. CASE s = t
    <3>1. h'[p].pc = "check" /\ h'[p].op = "prompt"
      BY <1>1, <2>1, BeginMoves
    <3>2. AtRest(s) => InHand(p, s)'
      BY <1>1, <2>1, <2>3, <3>1 DEF InHand, AtRest, Saved
    <3> QED
      BY <1>5, <2>1, <2>3, <3>2
  <2> QED
    BY <2>2, <2>3
<1> QED
  BY <1>3, <1>6, <1>7, <1>8 DEF Client

LEMMA PiTends ==
    ASSUME Sound, NEW q \in Procs, NEW s \in Sessions, Tended(s), Pi(q)
    PROVE  Tended(s)'
<1>1. UNCHANGED <<h, sessions, table, raced, unsaved, closed>>
  BY DEF Pi, Exit, ReadNext, ReadLine, ReadEOF, mapVars, history
<1>2. Alive(s)' \subseteq Alive(s)
  BY DEF Pi, Exit, ReadNext, ReadLine, ReadEOF, procVars, Alive, Sound, TypeOK
<1>3. \A p \in Calls : (OnIt(p, s)' <=> OnIt(p, s)) /\ (InHand(p, s) => InHand(p, s)')
  BY <1>1, <1>2 DEF OnIt, Id, InHand, Saved, Erased
<1>4. (Busy(s)' <=> Busy(s)) /\ (AtRest(s) => AtRest(s)')
  BY <1>1, <1>2 DEF Busy, Id, AtRest, Saved, Erased
<1> QED
  BY <1>1, <1>3, <1>4 DEF Tended

\* A session that is not made yet is touched by nothing but its CreateSession.
LEMMA UnbornStep ==
    ASSUME Sound, Jobs, NEW s \in Sessions, Unborn(s), Next PROVE Unborn(s)'
<1> SUFFICES ASSUME state'[s] = "unborn" PROVE Unborn(s)'
  BY DEF Unborn
<1>1. state[s] = "unborn"
  BY DEF Next, Client, CleanUp, Create, Delete, Prompt, StopAll, Manager, Register, Persist,
         Unregister, Unpersist, Erase, StopNext, Clear, SessionCode, Starting, Spawn, Up,
         Stopping, StopLock, StopWait, CheckStopped, SendRequest, WriteRequest,
         AwaitResponse, Pi, Exit, ReadNext, ReadLine, ReadEOF, SetState, Sound, TypeOK
<1>2. /\ s \notin sessions /\ s \notin table /\ s \notin raced
      /\ \A q \in Procs : owner[q] # s
      /\ \A p \in Calls : s \notin h[p].all /\ (Id(p) = s => h[p].pc = "register")
  BY <1>1 DEF Unborn
<1>3. ASSUME NEW p \in Calls, Manager(p) PROVE Unborn(s)'
  <2>1. Id(p) # s
    <3>1. ASSUME Register(p), Id(p) = s PROVE FALSE
      BY <3>1 DEF Register, SetState, Sound, TypeOK
    <3> QED
      BY <1>2, <1>3, <3>1, NullAssumption
         DEF Manager, Persist, Unregister, Unpersist, Erase, StopNext, Clear, At, Jobs,
             Job, Id
  <2>2. /\ s \notin sessions' /\ s \notin table' /\ s \notin raced' /\ owner' = owner
    BY <1>2, <1>3, <2>1 DEF Manager, Register, Persist, Unregister, Unpersist, Erase,
                            StopNext, Clear, Statement, mapVars, procVars, history
  <2>3. Others(p) /\ s \notin h'[p].all /\ h'[p].id # s
    <3>1. CASE StopNext(p)
      BY <1>2, <3>1, StopNextMoves, NullAssumption DEF Sound
    <3>2. CASE Unpersist(p) \/ Clear(p)
      BY <3>2, FinishMoves, NullAssumption DEF Unpersist, Clear, Idle, Sound
    <3>3. CASE Register(p) \/ Persist(p) \/ Unregister(p) \/ Erase(p)
      BY <1>2, <2>1, <3>3, GotoMoves
         DEF Register, Persist, Unregister, Erase, Sound, Steps, Id
    <3> QED
      BY <1>3, <3>1, <3>2, <3>3 DEF Manager
  <2> QED
    BY <1>2, <2>2, <2>3 DEF Unborn, Others, Id
<1>4. ASSUME NEW p \in Calls, SessionCode(p) PROVE Unborn(s)'
  <2>1. Id(p) # s
    BY <1>2, <1>4 DEF SessionCode, Starting, Spawn, Up, Stopping, StopLock, StopWait,
                      CheckStopped, SendRequest, WriteRequest, AwaitResponse, At
  <2>2. /\ UNCHANGED <<sessions, table, raced>>
        /\ \A q \in Procs : owner'[q] # s
    BY <1>2, <1>4, <2>1
       DEF SessionCode, Starting, Spawn, Up, Stopping, StopLock, StopWait, CheckStopped,
           SendRequest, WriteRequest, AwaitResponse, mapVars, procVars, history, Sound,
           TypeOK
  <2>3. Others(p) /\ s \notin h'[p].all /\ h'[p].id # s
    <3>1. CASE Finish(p)
      BY <3>1, FinishMoves, NullAssumption DEF Idle, Sound
    <3>2. ASSUME NEW step \in Steps, Goto(p, step)
          PROVE  Others(p) /\ s \notin h'[p].all /\ h'[p].id # s
      BY <1>2, <2>1, <3>2, GotoMoves DEF Sound, Id
    <3>3. ASSUME NEW r \in Requests,
                 h' = [h EXCEPT ![p] = [@ EXCEPT !.pc = "write", !.req = r]]
          PROVE  Others(p) /\ s \notin h'[p].all /\ h'[p].id # s
      BY <1>2, <2>1, <3>3 DEF Sound, Hands, Records, Others, Id
    <3> QED
      BY <1>4, <3>1, <3>2, <3>3
         DEF SessionCode, Starting, StartFailed, Spawn, Up, Stopping, StopLock, Stopped,
             StopWait, CheckStopped, SendRequest, WriteRequest, AwaitResponse, Steps
  <2> QED
    BY <1>2, <2>2, <2>3 DEF Unborn, Others, Id
<1>5. ASSUME NEW p \in Calls, Client(p) PROVE Unborn(s)'
  <2>1. UNCHANGED <<table, owner>>
    BY <1>5 DEF Client, Create, Delete, Prompt, StopAll, mapVars, procVars
  <2>2. CASE StopAll(p)
    <3>1. /\ Others(p) /\ h'[p].all = sessions /\ h'[p].id = NoSession
          /\ sessions' = sessions /\ s \notin raced'
      BY <1>2, <2>2 DEF StopAll, Idle, Sound, Hands, Others, mapVars
    <3> QED
      BY <1>2, <2>1, <3>1, NullAssumption DEF Unborn, Others, Id
  <2>3. ASSUME NEW t \in Sessions, Create(p, t) PROVE Unborn(s)'
    <3>1. /\ Begin(p, "create", t, "register") /\ sessions' = sessions
          /\ \A q \in Calls : Id(q) # t
      BY <2>3 DEF Create, mapVars
    <3>2. Others(p) /\ h'[p].pc = "register" /\ h'[p].id = t /\ h'[p].all = {}
      BY <3>1, BeginMoves DEF Sound
    <3>3. s \notin raced'
      BY <1>2, <3>1 DEF Begin, Busy
    <3> QED
      BY <1>2, <2>1, <3>1, <3>2, <3>3 DEF Unborn, Others, Id
  <2>4. ASSUME NEW t \in Sessions, Delete(p, t) \/ Prompt(p, t) PROVE Unborn(s)'
    <3>1. /\ t # s
          /\ sessions' \subseteq sessions
          /\ Begin(p, "delete", t, "erase") \/ Begin(p, "prompt", t, "check")
      BY <1>2, <2>4 DEF Delete, Prompt, mapVars
    <3>2. ASSUME NEW op, NEW step, Begin(p, op, t, step)
          PROVE  Others(p) /\ h'[p].id = t /\ h'[p].all = {} /\ s \notin raced'
      <4>1. Others(p) /\ h'[p].id = t /\ h'[p].all = {}
        BY <3>2, BeginMoves DEF Sound
      <4> QED
        BY <1>2, <3>1, <3>2, <4>1 DEF Begin
    <3> QED
      BY <1>2, <2>1, <3>1, <3>2 DEF Unborn, Others, Id
  <2> QED
    BY <1>5, <2>2, <2>3, <2>4 DEF Client
<1>6. ASSUME NEW q \in Procs, Pi(q) PROVE Unborn(s)'
  BY <1>2, <1>6 DEF Pi, Exit, ReadNext, ReadLine, ReadEOF, Unborn, Id, mapVars, procVars,
                    history
<1> QED
  BY <1>3, <1>4, <1>5, <1>6, CleanUpDeletes DEF Next

Housekeeping == \A s \in Sessions : Unborn(s) /\ Tended(s)

LEMMA HousekeepingStep ==
    ASSUME Sound, Jobs, Housekeeping, Next PROVE Housekeeping'
<1> SUFFICES ASSUME NEW s \in Sessions PROVE Unborn(s)' /\ Tended(s)'
  BY DEF Housekeeping
<1>1. Unborn(s) /\ Tended(s)
  BY DEF Housekeeping
<1> QED
  BY <1>1, UnbornStep, ManagerTends, SessionTends, ClientTends, PiTends, CleanUpDeletes
     DEF Next

-----------------------------------------------------------------------------
(* What the state of a session says of its process *)

\* The readers of session s that have not seen the end of its output.
Unfinished(s) == {q \in Procs : owner[q] = s /\ reader[q] \in {"top", "reading"}}

\* The cmd of a session holds a process of its own, and what has not been
\* spawned belongs to nobody.
Owned ==
    /\ \A s \in Sessions : cmd[s] \in Procs => owner[cmd[s]] = s
    /\ \A q \in Procs : proc[q] = "unborn" => owner[q] = NoSession /\ reader[q] = "none"

\* Nothing starts session s again: it has left the map, or StopAll has it.
Ended(s) ==
    \/ s \notin sessions
    \/ \E p \in Calls : h[p].op = "stopall" /\ s \in h[p].all

\* A session has one reader at most that is unfinished, of the output of the
\* process in its cmd; a process that is alive has one.
Watched(s) ==
    /\ \A q \in Unfinished(s) :
         cmd[s] = q /\ (reader[q] = "reading" => source[q] = q)
    /\ Alive(s) \subseteq Unfinished(s)

\* A call that starts session s finds no reader until it has spawned the process,
\* which then lives until the state is set.
InTune(p, s) ==
    Id(p) = s =>
        /\ h[p].pc \in {"register", "persist", "starting", "spawn"} => Unfinished(s) = {}
        /\ h[p].pc = "spawn" => state[s] = "starting"
        /\ h[p].pc = "up" => state[s] = "starting" /\ cmd[s] \in Alive(s)

Holds(p, s) == Id(p) = s /\ h[p].pc \in {"up", "lock", "wait"}

Told(s) ==
    /\ state[s] = "running" => Unfinished(s) # {}
    /\ state[s] = "stopped" => Unfinished(s) = {} \/ Ended(s)
    /\ Alive(s) # {} => state[s] = "running" \/ \E p \in Calls : Holds(p, s)

Truthful(s) ==
    s \notin raced \cup early => Watched(s) /\ Told(s) /\ \A p \in Calls : InTune(p, s)

Truths == Owned /\ \A s \in Sessions : Truthful(s)

\* A step leaves the state of s, its processes and its readers alone.
Same(s) ==
    /\ state'[s] = state[s] /\ cmd'[s] = cmd[s]
    /\ Unfinished(s)' = Unfinished(s) /\ Alive(s)' = Alive(s)
    /\ \A q \in Unfinished(s) : reader'[q] = reader[q] /\ source'[q] = source[q]

\* The steps that the conditions above speak of.
Speaking == {"register", "persist", "starting", "spawn", "up", "lock", "wait"}

LEMMA OwnedStep == ASSUME Sound, Owned, Next PROVE Owned'
<1> USE DEF Sound, TypeOK, Owned
<1>1. ASSUME NEW p \in Calls, Spawn(p) PROVE Owned'
  <2>1. Id(p) \in Sessions
    BY <1>1 DEF Spawn, At, Hands, Shaped, Working, Steps, Id
  <2>2. ASSUME NEW q \in Procs, proc[q] = "unborn",
               proc' = [Killed(Id(p)) EXCEPT ![q] = "alive"],
               owner' = [owner EXCEPT ![q] = Id(p)], cmd' = [cmd EXCEPT ![Id(p)] = q],
               reader' = [reader EXCEPT ![q] = "top"]
        PROVE  Owned'
    BY <2>1, <2>2, NullAssumption DEF Killed
  <2>3. ASSUME proc' = Killed(Id(p)), cmd' = [cmd EXCEPT ![Id(p)] = NoProc],
               UNCHANGED <<owner, reader>>
        PROVE  Owned'
    BY <2>1, <2>3, NullAssumption DEF Killed
  <2> QED
    BY <1>1, <2>2, <2>3 DEF Spawn
<1>2. ASSUME NEW p \in Calls, StopWait(p) PROVE Owned'
  BY <1>2 DEF StopWait, Killed, readVars
<1>3. ASSUME NEW q \in Procs, Pi(q) PROVE Owned'
  BY <1>3 DEF Pi, Exit, ReadNext, ReadLine, ReadEOF, procVars, readVars
<1>4. ASSUME UNCHANGED <<cmd, owner, proc, reader>> PROVE Owned'
  BY <1>4
<1> QED
  BY <1>1, <1>2, <1>3, <1>4
     DEF Next, Client, CleanUp, Create, Delete, Prompt, StopAll, Manager, Register,
         Persist, Unregister, Unpersist, Erase, StopNext, Clear, SessionCode, Starting, Up,
         Stopping, StopLock, CheckStopped, SendRequest, WriteRequest, AwaitResponse,
         procVars, readVars

\* The step of a call that does nothing to s.
LEMMA TruthAside ==
    ASSUME NEW p \in Calls, NEW s \in Sessions, Truthful(s), Others(p),
           raced \subseteq raced', early \subseteq early', Same(s), Ended(s) => Ended(s)',
           Id(p) = s => h[p].pc \notin Speaking,
           h'[p].id = s => h'[p].pc \notin Speaking
    PROVE  Truthful(s)'
<1> SUFFICES ASSUME s \notin raced' \cup early'
             PROVE  Watched(s)' /\ Told(s)' /\ \A q \in Calls : InTune(q, s)'
  BY DEF Truthful
<1>1. Watched(s) /\ Told(s) /\ \A q \in Calls : InTune(q, s)
  BY DEF Truthful
<1>2. Watched(s)'
  BY <1>1 DEF Watched, Same
<1>3. ASSUME NEW q \in Calls PROVE InTune(q, s)'
  BY <1>1 DEF InTune, Same, Others, Id, Speaking
<1>4. (\E q \in Calls : Holds(q, s)) => (\E q \in Calls : Holds(q, s)')
  BY DEF Holds, Others, Id, Speaking
<1>5. Told(s)'
  BY <1>1, <1>4 DEF Told, Same
<1> QED
  BY <1>2, <1>3, <1>5

\* The step of the call that works on s.
LEMMA TruthAtWork ==
    ASSUME NEW p \in Calls, NEW s \in Sessions, Truthful(s), Tended(s), Others(p),
           raced \subseteq raced', early \subseteq early', Id(p) = s,
           /\ InHand(p, s) /\ Watched(s) /\ Told(s) /\ InTune(p, s)
           /\ \A q \in Calls : q # p => ~OnIt(q, s)
           => Watched(s)' /\ Told(s)' /\ InTune(p, s)'
    PROVE  Truthful(s)'
<1> SUFFICES ASSUME s \notin raced' \cup early'
             PROVE  Watched(s)' /\ Told(s)' /\ \A q \in Calls : InTune(q, s)'
  BY DEF Truthful
<1>1. Watched(s) /\ Told(s) /\ InTune(p, s)
  BY DEF Truthful
<1>2. InHand(p, s) /\ \A q \in Calls : q # p => ~OnIt(q, s)
  BY DEF Tended, OnIt
<1>3. \A q \in Calls : q # p => InTune(q, s)'
  BY <1>2 DEF InTune, OnIt, Others, Id
<1> QED
  BY <1>1, <1>2, <1>3

\* StopAll keeps its snapshot until it empties the map.
LEMMA EndedStays ==
    ASSUME NEW p \in Calls, NEW s \in Sessions, Others(p), s \in sessions' => s \in sessions,
           h[p].op = "stopall" => \/ h'[p].op = "stopall" /\ h'[p].all = h[p].all
                                  \/ sessions' = {}
    PROVE  Ended(s) => Ended(s)'
BY DEF Ended, Others

LEMMA ManagerTells ==
    ASSUME Sound, Jobs, NEW p \in Calls, NEW s \in Sessions, Tended(s), Truthful(s),
           Manager(p)
    PROVE  Truthful(s)'
<1>1. Others(p) /\ Job(h[p]) /\ Hands /\ h[p] \in Records
  BY ManagerJobs DEF Jobs, Sound, Hands
<1>2. raced \subseteq raced' /\ early \subseteq early'
  BY DEF Manager, Register, Persist, Unregister, Unpersist, Erase, StopNext, Clear,
         history
<1>3. /\ UNCHANGED <<cmd, owner, proc, reader, source>>
      /\ Alive(s)' = Alive(s) /\ Unfinished(s)' = Unfinished(s)
  BY DEF Manager, Register, Persist, Unregister, Unpersist, Erase, StopNext, Clear,
         procVars, readVars, Alive, Unfinished
<1>4. ASSUME state'[s] = state[s] PROVE Same(s)
  BY <1>3, <1>4 DEF Same
<1> USE <1>1 DEF At, Id
<1>5. CASE Register(p)
  <2>1. /\ h[p].pc = "register" /\ h[p].op = "create"
        /\ h'[p].pc = "persist" /\ h'[p].id = h[p].id
    BY <1>5, GotoMoves DEF Register, Job, Steps, Records
  <2>2. CASE s = Id(p)
    <3>1. state'[s] = "pending"
      BY <1>5, <2>2 DEF Register, SetState, Sound, TypeOK
    <3>2. ASSUME Watched(s), InTune(p, s) PROVE Watched(s)' /\ Told(s)' /\ InTune(p, s)'
      BY <1>3, <2>1, <2>2, <3>1, <3>2 DEF InTune, Watched, Told
    <3> QED
      BY <1>2, <2>2, <3>2, TruthAtWork
  <2>3. CASE s # Id(p)
    <3>1. state'[s] = state[s] /\ (s \in sessions' => s \in sessions)
      BY <1>5, <2>3 DEF Register, SetState, Sound, TypeOK
    <3> QED
      BY <1>2, <1>4, <2>1, <2>3, <3>1, EndedStays, TruthAside
  <2> QED
    BY <2>2, <2>3
<1>6. CASE Persist(p)
  <2>1. /\ h[p].pc = "persist" /\ h[p].op = "create" /\ state' = state
        /\ h'[p].pc = "starting" /\ h'[p].id = h[p].id /\ sessions' = sessions
    BY <1>6, GotoMoves DEF Persist, Job, Steps, Records
  <2>2. CASE s = Id(p)
    <3>1. ASSUME Watched(s), Told(s), InTune(p, s)
          PROVE  Watched(s)' /\ Told(s)' /\ InTune(p, s)'
      BY <1>3, <2>1, <2>2, <3>1 DEF InTune, Watched, Told
    <3> QED
      BY <1>2, <2>2, <3>1, TruthAtWork
  <2>3. CASE s # Id(p)
    BY <1>2, <1>4, <2>1, <2>3, EndedStays, TruthAside
  <2> QED
    BY <2>2, <2>3
<1>7. CASE Unregister(p) \/ Erase(p)
  <2>1. /\ h[p].pc \in {"unregister", "erase"} /\ h[p].op \in {"create", "delete"}
        /\ state' = state
        /\ h'[p].pc \in {"unpersist", "stopping"} /\ (s \in sessions' => s \in sessions)
    BY <1>7, GotoMoves DEF Unregister, Erase, Job, Steps, Records
  <2> QED
    BY <1>2, <1>4, <2>1, EndedStays, TruthAside DEF Speaking
<1>8. CASE Unpersist(p)
  <2>1. /\ h[p].pc = "unpersist" /\ h[p].op = "create" /\ state' = state
        /\ h'[p].pc = "idle" /\ sessions' = sessions
    BY <1>8, FinishMoves DEF Unpersist, Job, Idle, Records
  <2> QED
    BY <1>2, <1>4, <2>1, EndedStays, TruthAside DEF Speaking
<1>9. CASE StopNext(p)
  <2>1. /\ h[p].pc = "next" /\ state' = state /\ sessions' = sessions
        /\ h'[p].pc \in {"clear", "stopping"} /\ h'[p].all = h[p].all
        /\ h'[p].op = h[p].op
    BY <1>9, StopNextMoves DEF StopNext, mapVars
  <2> QED
    BY <1>2, <1>4, <2>1, EndedStays, TruthAside DEF Speaking
<1>10. CASE Clear(p)
  <2>1. /\ h[p].pc = "clear" /\ state' = state /\ sessions' = {}
        /\ h'[p].pc = "idle"
    BY <1>10, FinishMoves DEF Clear, Idle
  <2> QED
    BY <1>2, <1>4, <2>1, EndedStays, TruthAside DEF Speaking
<1> QED
  BY <1>5, <1>6, <1>7, <1>8, <1>9, <1>10 DEF Manager

\* What is done to one session's processes leaves another's alone.
LEMMA SpawnedApart ==
    ASSUME Sound, Owned, NEW s \in Sessions, NEW t \in Sessions, NEW q \in Procs, s # t,
           proc[q] = "unborn", proc' = [Killed(t) EXCEPT ![q] = "alive"],
           owner' = [owner EXCEPT ![q] = t], cmd' = [cmd EXCEPT ![t] = q],
           reader' = [reader EXCEPT ![q] = "top"], source' = source, state' = state
    PROVE  Same(s)
<1>1. owner[q] # s
  BY NullAssumption DEF Owned
<1>2. cmd[t] \in Procs => owner[cmd[t]] = t
  BY DEF Owned
<1>3. Alive(s)' = Alive(s)
  BY <1>1, <1>2 DEF Sound, TypeOK, Killed, Alive
<1>4. Unfinished(s)' = Unfinished(s)
  BY <1>1 DEF Sound, TypeOK, Unfinished
<1>5. \A r \in Unfinished(s) : reader'[r] = reader[r]
  BY <1>1 DEF Sound, TypeOK, Unfinished
<1> QED
  BY <1>3, <1>4, <1>5 DEF Same, Sound, TypeOK

LEMMA KilledApart ==
    ASSUME Sound, Owned, NEW s \in Sessions, NEW t \in Sessions, s # t,
           proc' = Killed(t), owner' = owner, cmd'[s] = cmd[s],
           reader' = reader, source' = source, state'[s] = state[s]
    PROVE  Same(s)
<1>1. cmd[t] \in Procs => owner[cmd[t]] = t
  BY DEF Owned
<1>2. Alive(s)' = Alive(s)
  BY <1>1 DEF Sound, TypeOK, Killed, Alive
<1> QED
  BY <1>2 DEF Same, Unfinished

LEMMA SessionTells ==
    ASSUME Sound, Jobs, Owned, NEW p \in Calls, NEW s \in Sessions, Tended(s),
           Truthful(s), SessionCode(p)
    PROVE  Truthful(s)'
<1>1. Others(p) /\ Job(h[p]) /\ Hands /\ h[p] \in Records
  BY SessionJobs DEF Jobs, Sound, Hands
<1>2. /\ UNCHANGED <<sessions, raced, early>>
      /\ raced \subseteq raced' /\ early \subseteq early'
  BY DEF SessionCode, Starting, Spawn, Up, Stopping, StopLock, StopWait, CheckStopped,
         SendRequest, WriteRequest, AwaitResponse, history, mapVars
<1>3. Id(p) \in Sessions
  BY <1>1 DEF SessionCode, Starting, Spawn, Up, Stopping, StopLock, StopWait,
              CheckStopped, SendRequest, WriteRequest, AwaitResponse, At, Hands, Shaped,
              Working, Steps, Id
<1>4. /\ h'[p].id \in {h[p].id, NoSession}
      /\ h[p].op = "stopall" => h'[p].op = "stopall" /\ h'[p].all = h[p].all
  <2>1. CASE Finish(p) /\ h[p].op # "stopall"
    BY <1>1, <2>1, FinishMoves DEF Idle
  <2>2. ASSUME NEW step \in Steps, Goto(p, step)
        PROVE  /\ h'[p].id \in {h[p].id, NoSession}
               /\ h[p].op = "stopall" => h'[p].op = "stopall" /\ h'[p].all = h[p].all
    BY <1>1, <2>2, GotoMoves
  <2>3. ASSUME NEW r \in Requests,
               h' = [h EXCEPT ![p] = [@ EXCEPT !.pc = "write", !.req = r]]
        PROVE  /\ h'[p].id \in {h[p].id, NoSession}
               /\ h[p].op = "stopall" => h'[p].op = "stopall" /\ h'[p].all = h[p].all
    BY <1>1, <2>3 DEF Records, Hands
  <2> QED
    BY <1>1, <2>1, <2>2, <2>3
       DEF SessionCode, Starting, StartFailed, Spawn, Up, Stopping, StopLock, Stopped,
           StopWait, CheckStopped, SendRequest, WriteRequest, AwaitResponse, Steps, At, Job
<1>5. Ended(s) => Ended(s)'
  BY <1>1, <1>2, <1>4, EndedStays
<1>6. ASSUME UNCHANGED <<procVars, readVars>>
      PROVE  /\ Alive(s)' = Alive(s) /\ Unfinished(s)' = Unfinished(s)
             /\ state'[s] = state[s] => Same(s)
             /\ Watched(s) => Watched(s)'
  BY <1>6 DEF procVars, readVars, Alive, Unfinished, Same, Watched
\* Other sessions are left alone.
<1>7. CASE s # Id(p)
  <2>1. Same(s)
    <3>1. CASE Spawn(p)
      <4>1. ASSUME NEW q \in Procs, proc[q] = "unborn",
                   proc' = [Killed(Id(p)) EXCEPT ![q] = "alive"],
                   owner' = [owner EXCEPT ![q] = Id(p)],
                   cmd' = [cmd EXCEPT ![Id(p)] = q],
                   reader' = [reader EXCEPT ![q] = "top"], state' = state
            PROVE  Same(s)
        BY <1>3, <1>7, <3>1, <4>1, SpawnedApart DEF Spawn
      <4>2. ASSUME proc' = Killed(Id(p)), cmd' = [cmd EXCEPT ![Id(p)] = NoProc],
                   SetState(Id(p), "stopped"), UNCHANGED <<owner, reader>>
            PROVE  Same(s)
        <5>1. cmd'[s] = cmd[s] /\ state'[s] = state[s]
          BY <1>7, <4>2 DEF SetState, Sound, TypeOK
        <5> QED
          BY <1>3, <1>7, <3>1, <4>2, <5>1, KilledApart DEF Spawn
      <4> QED
        BY <3>1, <4>1, <4>2 DEF Spawn
    <3>2. CASE StopWait(p)
      <4>1. state'[s] = state[s]
        BY <1>7, <3>2 DEF StopWait, SetState, Sound, TypeOK
      <4> QED
        BY <1>3, <1>7, <3>2, <4>1, KilledApart DEF StopWait, readVars
    <3>3. CASE UNCHANGED <<procVars, readVars>>
      <4>1. state'[s] = state[s]
        BY <1>7, <3>3
           DEF SessionCode, Starting, Spawn, Up, Stopping, StopLock, StopWait,
               CheckStopped, SendRequest, WriteRequest, AwaitResponse, SetState, Sound,
               TypeOK, procVars
      <4> QED
        BY <1>6, <3>3, <4>1
    <3> QED
      BY <3>1, <3>2, <3>3
         DEF SessionCode, Starting, Up, Stopping, StopLock, CheckStopped, SendRequest,
             WriteRequest, AwaitResponse
  <2> QED
    BY <1>1, <1>2, <1>4, <1>5, <1>7, <2>1, TruthAside, NullAssumption DEF Id
\* The session that the call works on.
<1>8. ASSUME s = Id(p), InHand(p, s), Watched(s), Told(s), InTune(p, s),
             \A q \in Calls : q # p => ~OnIt(q, s)
      PROVE  Watched(s)' /\ Told(s)' /\ InTune(p, s)'
  <2> USE <1>8 DEF At
  <2>0. /\ h[p].id = s
        /\ \A step : Goto(p, step) /\ step \in Steps =>
                       h'[p].pc = step /\ h'[p].id = s /\ (Id(p) = s)'
        /\ Finish(p) => h'[p].pc = "idle"
    BY <1>1, GotoMoves, FinishMoves DEF Id, Idle
  <2>1. CASE Starting(p)
    <3>1. h[p].pc = "starting" /\ Unfinished(s) = {} /\ Alive(s) = {}
      BY <2>1 DEF Starting, InTune, Watched
    <3>2. \/ state'[s] = "starting" /\ h'[p].pc = "spawn"
          \/ state'[s] = "stopped" /\ h'[p].pc \in {"unregister", "idle"}
      BY <2>0, <2>1 DEF Starting, StartFailed, SetState, Sound, TypeOK, Steps
    <3> QED
      BY <1>6, <2>1, <3>1, <3>2 DEF Starting, Told, InTune
  <2>2. CASE Spawn(p)
    <3>1. h[p].pc = "spawn" /\ Unfinished(s) = {} /\ Alive(s) = {} /\ state[s] = "starting"
      BY <2>2 DEF Spawn, InTune, Watched
    <3>2. ASSUME NEW q \in Procs, proc[q] = "unborn",
                 proc' = [Killed(s) EXCEPT ![q] = "alive"],
                 owner' = [owner EXCEPT ![q] = s], cmd' = [cmd EXCEPT ![s] = q],
                 reader' = [reader EXCEPT ![q] = "top"], state' = state, Goto(p, "up")
          PROVE  Watched(s)' /\ Told(s)' /\ InTune(p, s)'
      <4>1. Unfinished(s)' = {q} /\ reader'[q] = "top" /\ cmd'[s] = q
        BY <3>1, <3>2 DEF Unfinished, Sound, TypeOK
      <4>2. Alive(s)' = {q}
        BY <3>1, <3>2 DEF Alive, Killed, Sound, TypeOK
      <4>3. h'[p].pc = "up" /\ (Id(p) = s)'
        BY <2>0, <3>2 DEF Steps
      <4>4. Holds(p, s)'
        BY <4>3 DEF Holds
      <4> QED
        BY <3>1, <3>2, <4>1, <4>2, <4>3, <4>4 DEF Watched, Told, InTune
    <3>3. ASSUME proc' = Killed(s), SetState(s, "stopped"), StartFailed(p),
                 UNCHANGED <<owner, reader>>
          PROVE  Watched(s)' /\ Told(s)' /\ InTune(p, s)'
      <4>1. Unfinished(s)' = {} /\ Alive(s)' = {}
        BY <3>1, <3>3 DEF Unfinished, Alive, Killed
      <4>2. state'[s] = "stopped" /\ h'[p].pc \in {"unregister", "idle"}
        BY <2>0, <3>3 DEF StartFailed, SetState, Sound, TypeOK, Steps
      <4> QED
        BY <4>1, <4>2 DEF Watched, Told, InTune
    <3> QED
      BY <2>2, <3>2, <3>3 DEF Spawn
  <2>3. CASE Up(p)
    <3>1. Unfinished(s) # {} /\ h'[p].pc \in {"idle", "send"} /\ state'[s] = "running"
      BY <2>0, <2>3 DEF Up, InTune, Watched, SetState, Sound, TypeOK, Steps
    <3> QED
      BY <1>6, <2>3, <3>1 DEF Up, Told, InTune
  <2>4. CASE Stopping(p)
    <3>1. h'[p].pc = "lock" /\ (Id(p) = s)' /\ state'[s] = "stopping"
      BY <2>0, <2>4 DEF Stopping, SetState, Sound, TypeOK, Steps
    <3>2. Holds(p, s)'
      BY <3>1 DEF Holds
    <3> QED
      BY <1>6, <2>4, <3>1, <3>2 DEF Stopping, Told, InTune
  <2>5. CASE StopLock(p) /\ cmd[s] = NoProc
    <3>1. Unfinished(s) = {} /\ Alive(s) = {}
      BY <2>5, NullAssumption DEF Watched, Unfinished
    <3>2. h'[p].pc \in {"next", "idle"} /\ state'[s] = "stopped"
      BY <2>0, <2>5 DEF StopLock, Stopped, SetState, Sound, TypeOK, Steps
    <3> QED
      BY <1>6, <2>5, <3>1, <3>2 DEF StopLock, Told, InTune
  <2>6. CASE StopLock(p) /\ cmd[s] # NoProc
    <3>1. h'[p].pc = "wait" /\ (Id(p) = s)' /\ state' = state
      BY <2>0, <2>6 DEF StopLock, Steps
    <3>2. Holds(p, s)'
      BY <3>1 DEF Holds
    <3> QED
      BY <1>5, <1>6, <2>6, <3>1, <3>2 DEF StopLock, Told, InTune
  <2>7. CASE StopWait(p)
    <3>1. /\ h'[p].pc \in {"next", "idle"} /\ state'[s] = "stopped"
          /\ proc' = Killed(s) /\ UNCHANGED <<cmd, owner, reader, source>>
      BY <2>0, <2>7 DEF StopWait, Stopped, SetState, Sound, TypeOK, Steps, readVars
    <3>2. Alive(s)' = {} /\ Unfinished(s)' = Unfinished(s)
      BY <3>1, KilledAlive DEF Unfinished
    <3>3. Ended(s)
      <4>1. h[p].pc = "wait" /\ h[p].op \in {"delete", "stopall"}
        BY <1>1, <2>7 DEF StopWait, Job, Records
      <4>2. h[p].op = "delete" => s \notin sessions
        BY DEF InHand
      <4>3. h[p].op = "stopall" => s \in h[p].all
        BY <1>1, <1>3, <2>0, NullAssumption DEF Job
      <4> QED
        BY <4>1, <4>2, <4>3 DEF Ended
    <3> QED
      BY <1>5, <3>1, <3>2, <3>3 DEF Watched, Told, InTune
\* A prompt finds its session in the map and nobody else at it.
  <2>8. CASE CheckStopped(p)
    <3>1. h[p].pc = "check" /\ h[p].op = "prompt"
      BY <1>1, <2>8 DEF CheckStopped, Job, Records
    <3>2. ~Ended(s)
      BY <3>1 DEF Ended, InHand, OnIt
    <3>3. /\ state[s] = "stopped" => h'[p].pc = "starting"
          /\ state[s] # "stopped" => h'[p].pc = "send"
          /\ state' = state
      BY <2>0, <2>8 DEF CheckStopped, Steps
    <3>4. ~Holds(p, s)
      BY <3>1 DEF Holds
    <3>5. \A q \in Calls : ~Holds(q, s)
      BY <3>4 DEF Holds, OnIt
    <3> QED
      BY <1>6, <2>8, <3>2, <3>3, <3>5 DEF CheckStopped, Told, InTune
  <2>9. CASE SendRequest(p) \/ WriteRequest(p) \/ AwaitResponse(p)
    <3>1. h[p].pc \in {"send", "write", "await"} /\ state' = state
      BY <2>9 DEF SendRequest, WriteRequest, AwaitResponse
    <3>2. h'[p].pc \in {"write", "await", "idle"}
      <4>1. ASSUME NEW r \in Requests,
                   h' = [h EXCEPT ![p] = [@ EXCEPT !.pc = "write", !.req = r]]
            PROVE  h'[p].pc = "write"
        BY <1>1, <4>1 DEF Records, Hands
      <4> QED
        BY <2>0, <2>9, <4>1 DEF SendRequest, WriteRequest, AwaitResponse, Steps
    <3>3. \A q \in Calls : ~Holds(q, s)
      BY <3>1 DEF Holds, OnIt
    <3> QED
      BY <1>5, <1>6, <2>9, <3>1, <3>2, <3>3
         DEF SendRequest, WriteRequest, AwaitResponse, Told, InTune
  <2> QED
    BY <2>1, <2>2, <2>3, <2>4, <2>5, <2>6, <2>7, <2>8, <2>9 DEF SessionCode
<1> QED
  BY <1>1, <1>2, <1>7, <1>8, TruthAtWork

LEMMA ClientTells ==
    ASSUME Sound, Jobs, NEW p \in Calls, NEW s \in Sessions, Unborn(s), Truthful(s),
           Client(p)
    PROVE  Truthful(s)'
<1>1. /\ Others(p) /\ Hands /\ h[p] \in Records
      /\ h[p].pc = "idle" /\ h[p].op # "stopall"
      /\ raced \subseteq raced' /\ early \subseteq early'
      /\ s \in sessions' => s \in sessions
      /\ UNCHANGED <<state, procVars, readVars>>
  BY ClientJobs DEF Client, StopAll, Create, Delete, Prompt, Begin, At, mapVars, Sound,
                    Hands, Jobs, Job
<1>2. Same(s)
  BY <1>1 DEF procVars, readVars, Same, Alive, Unfinished
<1>3. Ended(s) => Ended(s)'
  BY <1>1, EndedStays
<1>4. ASSUME h'[p].id = s => h'[p].pc \notin Speaking PROVE Truthful(s)'
  BY <1>1, <1>2, <1>3, <1>4, TruthAside DEF Speaking
<1>5. CASE StopAll(p)
  <2>1. h'[p].pc = "next"
    BY <1>1, <1>5 DEF StopAll, Idle, Hands
  <2> QED
    BY <1>4, <2>1 DEF Speaking
<1>6. ASSUME NEW t \in Sessions, Delete(p, t) \/ Prompt(p, t) PROVE Truthful(s)'
  <2>1. h'[p].pc \in {"erase", "check"}
    BY <1>1, <1>6, BeginMoves DEF Delete, Prompt
  <2> QED
    BY <1>4, <2>1 DEF Speaking
<1>7. ASSUME NEW t \in Sessions, Create(p, t) PROVE Truthful(s)'
  <2>1. h'[p].pc = "register" /\ h'[p].id = t
    BY <1>1, <1>7, BeginMoves DEF Create
  <2>2. CASE s # t
    BY <1>4, <2>1, <2>2
  <2>3. CASE s = t
    <3>1. Unfinished(s) = {} /\ Alive(s) = {}
      BY <1>7, <2>3 DEF Create, Unborn, Unfinished, Alive
    <3>2. state[s] = "unborn" /\ \A q \in Calls : Id(q) # s
      BY <1>7, <2>3 DEF Create
    <3>3. \A q \in Calls : InTune(q, s)'
      BY <1>1, <1>2, <2>1, <3>1, <3>2 DEF InTune, Others, Id, Same
    <3>4. Watched(s)' /\ Told(s)'
      BY <1>2, <3>1, <3>2 DEF Watched, Told, Same
    <3> QED
      BY <3>3, <3>4 DEF Truthful
  <2> QED
    BY <2>2, <2>3
<1> QED
  BY <1>5, <1>6, <1>7 DEF Client

LEMMA PiTells ==
    ASSUME Sound, NEW q \in Procs, NEW s \in Sessions, Truthful(s), Pi(q)
    PROVE  Truthful(s)'
<1>1. UNCHANGED <<h, sessions, raced, cmd, owner>> /\ early \subseteq early'
  BY DEF Pi, Exit, ReadNext, ReadLine, ReadEOF, mapVars, history, procVars
<1>2. /\ Ended(s)' <=> Ended(s)
      /\ \A p \in Calls : Holds(p, s)' <=> Holds(p, s)
  BY <1>1 DEF Ended, Holds, Id
<1> SUFFICES ASSUME s \notin raced' \cup early'
             PROVE  Watched(s)' /\ Told(s)' /\ \A p \in Calls : InTune(p, s)'
  BY DEF Truthful
<1>3. Watched(s) /\ Told(s) /\ \A p \in Calls : InTune(p, s)
  BY <1>1 DEF Truthful
<1>4. Alive(s) \subseteq {cmd[s]}
  BY DEF Sound, Commanded, Alive
<1>5. CASE owner[q] # s
  <2>1. state'[s] = state[s]
    BY <1>5 DEF Pi, Exit, ReadNext, ReadLine, ReadEOF, SetState, Sound, TypeOK
  <2>2. Alive(s)' = Alive(s)
    BY <1>1, <1>5 DEF Pi, Exit, ReadNext, ReadLine, ReadEOF, procVars, Alive, Sound, TypeOK
  <2>3. /\ Unfinished(s)' = Unfinished(s)
        /\ \A r \in Unfinished(s) : reader'[r] = reader[r] /\ source'[r] = source[r]
    BY <1>1, <1>5
       DEF Pi, Exit, ReadNext, ReadLine, ReadEOF, readVars, Unfinished, Sound, TypeOK
  <2>4. Watched(s)' /\ Told(s)'
    BY <1>1, <1>2, <1>3, <2>1, <2>2, <2>3 DEF Watched, Told
  <2>5. \A p \in Calls : InTune(p, s)'
    BY <1>1, <1>3, <2>1, <2>2, <2>3 DEF InTune, Id
  <2> QED
    BY <2>4, <2>5
\* It exits while no Start is at work, or the session is early.
<1>6. CASE owner[q] = s /\ Exit(q)
  <2>1. q \in Alive(s) /\ cmd[s] = q
    BY <1>4, <1>6 DEF Exit, Alive
  <2>2. Alive(s)' = {} /\ Unfinished(s)' = Unfinished(s) /\ state' = state
    BY <1>1, <1>4, <1>6, <2>1 DEF Exit, Alive, Unfinished, readVars, Sound, TypeOK
  <2>3. \A p \in Calls : Id(p) = s => h[p].pc # "up"
    BY <1>6, <2>1 DEF Exit, At
  <2>4. Watched(s)' /\ Told(s)'
    BY <1>1, <1>2, <1>3, <1>6, <2>2 DEF Exit, Watched, Told, readVars
  <2>5. \A p \in Calls : InTune(p, s)'
    BY <1>1, <1>3, <2>2, <2>3 DEF InTune, Id
  <2> QED
    BY <2>4, <2>5
<1>7. CASE owner[q] = s /\ (ReadNext(q) \/ ReadLine(q))
  <2>1. q \in Unfinished(s)
    BY <1>7 DEF ReadNext, ReadLine, Unfinished
  <2>2. /\ Unfinished(s)' = Unfinished(s) /\ Alive(s)' = Alive(s) /\ state' = state
        /\ reader'[q] = "reading" => source'[q] = cmd[s]
        /\ \A r \in Procs \ {q} : reader'[r] = reader[r] /\ source'[r] = source[r]
    BY <1>1, <1>7
       DEF ReadNext, ReadLine, Unfinished, Alive, procVars, Sound, TypeOK
  <2>3. Unfinished(s) = {q} /\ cmd[s] = q
    BY <1>3, <2>1 DEF Watched
  <2>4. Watched(s)' /\ Told(s)'
    BY <1>1, <1>2, <1>3, <2>2, <2>3 DEF Watched, Told
  <2>5. \A p \in Calls : InTune(p, s)'
    BY <1>1, <1>3, <2>2 DEF InTune, Id
  <2> QED
    BY <2>4, <2>5
\* The one reader sees the end of the output of the one process.
<1>8. CASE owner[q] = s /\ ReadEOF(q)
  <2>1. q \in Unfinished(s) /\ reader[q] = "reading"
    BY <1>8 DEF ReadEOF, Unfinished
  <2>2. Unfinished(s) = {q} /\ cmd[s] = q /\ source[q] = q
    BY <1>3, <2>1 DEF Watched
  <2>3. Alive(s) = {}
    BY <1>4, <1>8, <2>2 DEF ReadEOF, Alive
  <2>4. Unfinished(s)' = {} /\ Alive(s)' = {} /\ state'[s] = "stopped"
    BY <1>1, <1>8, <2>2, <2>3
       DEF ReadEOF, Unfinished, Alive, procVars, SetState, Sound, TypeOK
  <2>5. Watched(s)' /\ Told(s)'
    BY <2>4 DEF Watched, Told
  <2>6. \A p \in Calls :
          Id(p) = s => h[p].pc \notin {"register", "persist", "starting", "spawn", "up"}
    BY <1>3, <2>2, <2>3 DEF InTune
  <2>7. \A p \in Calls : InTune(p, s)'
    BY <1>1, <2>6 DEF InTune, Id
  <2> QED
    BY <2>5, <2>7
<1> QED
  BY <1>5, <1>6, <1>7, <1>8 DEF Pi

LEMMA TruthsStep ==
    ASSUME Sound, Jobs, Housekeeping, Truths, Next PROVE Truths'
<1>1. Owned'
  BY OwnedStep DEF Truths
<1>2. ASSUME NEW s \in Sessions PROVE Truthful(s)'
  <2>1. Owned /\ Unborn(s) /\ Tended(s) /\ Truthful(s)
    BY DEF Housekeeping, Truths
  <2> QED
    BY <2>1, ManagerTells, SessionTells, ClientTells, PiTells, CleanUpDeletes DEF Next
<1> QED
  BY <1>1, <1>2 DEF Truths

-----------------------------------------------------------------------------
(* The theorems *)

IInv == Sound /\ OnlyCancelledLeak /\ Jobs /\ Housekeeping /\ Truths

LEMMA Initially == ASSUME Init PROVE IInv
<1>1. TypeOK
  <2>1. h \in [Calls -> Records] /\ failures \in 0..MaxFailures
    BY IdleFits, BoundAssumption DEF Init
  <2>2. state \in [Sessions -> {"unborn", "pending", "starting", "running", "stopping",
                               "stopped"}]
    BY DEF Init
  <2> QED
    BY <2>1, <2>2, RestoredAssumption DEF Init, TypeOK
<1>2. Hands
  BY IdleFits DEF Init, Hands
<1>3. Commanded /\ OnlyCancelledLeak
  BY DEF Init, Commanded, OnlyCancelledLeak
<1>4. Jobs
  BY IdleJob DEF Init, Jobs
<1>5. ASSUME NEW s \in Sessions PROVE Unborn(s) /\ Tended(s)
  <2>1. \A p \in Calls : h[p] = Idle /\ ~OnIt(p, s) /\ Id(p) # s /\ s \notin h[p].all
    BY NullAssumption DEF Init, Idle, OnIt, Id
  <2>2. Alive(s) = {} /\ AtRest(s)
    BY DEF Init, Alive, AtRest, Saved, Erased
  <2>3. \A q \in Procs : owner[q] # s
    BY NullAssumption DEF Init
  <2> QED
    BY <2>1, <2>2, <2>3 DEF Init, Unborn, Tended
<1>6. Owned
  BY NullAssumption DEF Init, Owned
<1>7. ASSUME NEW s \in Sessions PROVE Truthful(s)
  <2>1. \A p \in Calls : Id(p) # s
    BY NullAssumption DEF Init, Idle, Id
  <2>2. Unfinished(s) = {} /\ Alive(s) = {} /\ state[s] # "running"
    BY DEF Init, Unfinished, Alive
  <2> QED
    BY <2>1, <2>2 DEF Truthful, Watched, Told, InTune
<1> QED
  BY <1>1, <1>2, <1>3, <1>4, <1>5, <1>6, <1>7 DEF IInv, Sound, Housekeeping, Truths

LEMMA Inductive == ASSUME IInv, [Next]_vars PROVE IInv'
<1>1. CASE Next
  <2>1. TypeOK'
    BY <1>1, ManagerTypes, SessionTypes, ClientTypes, PiTypes, CleanUpDeletes
       DEF IInv, Next
  <2>2. Hands'
    BY HandsStep DEF IInv, Sound
  <2> QED
    BY <1>1, <2>1, <2>2, CommandedStep, AccountedStep, JobsStep, HousekeepingStep,
          TruthsStep
       DEF IInv, Sound
<1>2. CASE UNCHANGED vars
  <2>1. Sound' /\ OnlyCancelledLeak' /\ Jobs'
    BY <1>2, JobsStep
       DEF IInv, Sound, TypeOK, Hands, Shaped, Commanded, OnlyCancelledLeak, vars,
           mapVars, procVars, readVars, rpcVars, history
  <2>2. Housekeeping'
    BY <1>2 DEF IInv, Housekeeping, Unborn, Tended, OnIt, Busy, Id, InHand, AtRest, Saved,
                Erased, Alive, vars, mapVars, procVars, history
  <2>3. Truths'
    BY <1>2 DEF IInv, Truths, Owned, Truthful, Watched, Told, InTune, Holds, Ended, Id,
                Unfinished, Alive, vars, mapVars, procVars, readVars, history
  <2> QED
    BY <2>1, <2>2, <2>3 DEF IInv
<1> QED
  BY <1>1, <1>2

\* What the theorems below rest on: types, what a call has in hand at each step,
\* whose process may be alive, whose requests are pending, who works on which
\* session, and what the state of a session says.
THEOREM SessionInvariant == Spec => []IInv
BY Initially, Inductive, PTL DEF Spec

\* Every variable has its type, in every life of the manager.
THEOREM TypeCorrect == Spec => []TypeOK
<1>1. IInv => TypeOK
  BY DEF IInv, Sound
<1> QED
  BY <1>1, SessionInvariant, PTL

\* A session never has two pi processes alive, however requests, restarts and
\* deletions interleave (session.go:174-178).
THEOREM OneProcessEver == Spec => []OneProcess
<1>1. IInv => OneProcess
  BY DEF IInv, Sound, Commanded, OneProcess, Alive
<1> QED
  BY <1>1, SessionInvariant, PTL

\* Only a call whose context ended leaves an entry in pendingRequests
\* (session.go:340-349).
THEOREM PendingHaveCallers == Spec => []OnlyCancelledLeak
<1>1. IInv => OnlyCancelledLeak
  BY DEF IInv
<1> QED
  BY <1>1, SessionInvariant, PTL

\* Once nothing is under way, a session is "running" exactly when its pi is alive,
\* if calls for it came one at a time and no pi exited while its Start was still
\* at work (session.go:153-231,358-414, manager.go:332).
THEOREM StateIsTrue == Spec => []StateTellsTruth
<1>1. ASSUME IInv PROVE StateTellsTruth
  <2> SUFFICES ASSUME NEW s \in Sessions, s \notin raced \cup early, Settled(s)
               PROVE  Alive(s) # {} <=> state[s] = "running"
    BY DEF StateTellsTruth
  <2>1. Watched(s) /\ Told(s)
    BY <1>1 DEF IInv, Truths, Truthful
  <2>2. \A p \in Calls : ~Holds(p, s)
    BY DEF Settled, Busy, Holds
  <2>3. Unfinished(s) # {} => Alive(s) # {}
    BY <2>1 DEF Watched, Unfinished, Alive, Settled, Watching
  <2> QED
    BY <2>1, <2>2, <2>3 DEF Told
<1> QED
  BY <1>1, SessionInvariant, PTL

\* A session that has left the map leaves no process behind, unless two calls
\* worked on it at the same time (manager.go:300-321,406-445).
THEOREM DeletedHaveNoProcess == Spec => []NoOrphans
<1>1. IInv => NoOrphans
  BY DEF IInv, Housekeeping, Tended, AtRest, NoOrphans
<1> QED
  BY <1>1, SessionInvariant, PTL

\* Between calls table and map hold the same sessions until StopAll has emptied
\* the map, for the sessions that calls worked on one at a time and whose rows
\* could be written (manager.go:212-321).
THEOREM TableAgreesWithMap == Spec => []RowsAgree
<1>1. IInv => RowsAgree
  BY DEF IInv, Housekeeping, Tended, AtRest, Saved, Erased, RowsAgree
<1> QED
  BY <1>1, SessionInvariant, PTL

-----------------------------------------------------------------------------
(* The limit *)

\* The calls that have passed the check of the limit and have yet to put their
\* session into the map.
Registering == {p \in Calls : At(p, "register")}

\* SetStore restores what it finds, the limit notwithstanding.
Limit ==
    IF Cardinality(Restored) <= MaxSessions THEN MaxSessions
    ELSE Cardinality(Restored)

AtMostRegistering(n) == Cardinality(Registering) <= n

Finite == IsFiniteSet(sessions) /\ IsFiniteSet(Registering)

\* What the map holds and is about to hold, with at most n calls registering.
Within(n) == Cardinality(sessions) + Cardinality(Registering) <= Limit + n - 1

\* Only Create brings a call to where it registers, if the map is below the
\* limit; only Register adds to the map.
LEMMA RegisteringMoves ==
    ASSUME Hands, Jobs, Next
    PROVE  \/ sessions' \subseteq sessions /\ Registering' \subseteq Registering
           \/ \E p \in Calls : /\ BelowLimit /\ sessions' = sessions
                               /\ Registering' \subseteq Registering \cup {p}
           \/ \E p \in Registering : /\ sessions' = sessions \cup {Id(p)}
                                     /\ Registering' \subseteq Registering \ {p}
<1> USE DEF At, mapVars
<1>1. ASSUME NEW p \in Calls, Others(p), h'[p].pc # "register"
      PROVE  Registering' \subseteq Registering \ {p}
  BY <1>1 DEF Registering, Others
<1>2. ASSUME NEW p \in Calls, NEW step \in Steps, Goto(p, step), step # "register"
      PROVE  Registering' \subseteq Registering \ {p}
  BY <1>1, <1>2, GotoMoves
<1>3. ASSUME NEW p \in Calls, Finish(p) PROVE Registering' \subseteq Registering \ {p}
  BY <1>1, <1>3, FinishMoves DEF Idle
<1>4. ASSUME NEW p \in Calls, NEW op, NEW s, NEW step, Begin(p, op, s, step),
             step # "register"
      PROVE  Registering' \subseteq Registering \ {p}
  BY <1>1, <1>4, BeginMoves
<1>5. ASSUME NEW p \in Calls, Register(p)
      PROVE  /\ p \in Registering /\ sessions' = sessions \cup {Id(p)}
             /\ Registering' \subseteq Registering \ {p}
  BY <1>2, <1>5 DEF Register, Registering, Steps
<1>6. ASSUME NEW p \in Calls, NEW s \in Sessions, Create(p, s)
      PROVE  /\ BelowLimit /\ sessions' = sessions
             /\ Registering' \subseteq Registering \cup {p}
  <2>1. Others(p) BY <1>6, BeginMoves DEF Create
  <2> QED
    BY <1>6, <2>1 DEF Create, Registering, Others
<1>7. ASSUME NEW p \in Calls, Manager(p), ~Register(p)
      PROVE  sessions' \subseteq sessions /\ Registering' \subseteq Registering
  <2>1. CASE StopNext(p)
    <3>1. Others(p) /\ h'[p].pc # "register" BY <2>1, StopNextMoves
    <3> QED
      BY <1>1, <2>1, <3>1 DEF StopNext
  <2>2. CASE Clear(p) \/ Unpersist(p)
    BY <1>3, <2>2 DEF Clear, Unpersist
  <2>3. CASE Persist(p) \/ Unregister(p) \/ Erase(p)
    BY <1>2, <2>3 DEF Persist, Unregister, Erase, Steps
  <2> QED
    BY <1>7, <2>1, <2>2, <2>3 DEF Manager
<1>8. ASSUME NEW p \in Calls, SessionCode(p)
      PROVE  sessions' = sessions /\ Registering' \subseteq Registering
  <2>1. CASE Starting(p) \/ Spawn(p) \/ Up(p) \/ Stopping(p) \/ CheckStopped(p)
    BY <1>2, <1>3, <2>1
       DEF Starting, Spawn, StartFailed, Up, Stopping, CheckStopped, Steps
  <2>2. CASE StopLock(p) \/ StopWait(p) \/ WriteRequest(p) \/ AwaitResponse(p)
    BY <1>2, <1>3, <2>2
       DEF StopLock, StopWait, Stopped, WriteRequest, AwaitResponse, Steps
  <2>3. CASE SendRequest(p)
    <3>1. ASSUME NEW r \in Requests,
                 h' = [h EXCEPT ![p] = [@ EXCEPT !.pc = "write", !.req = r]]
          PROVE  Others(p) /\ h'[p].pc = "write"
      BY <3>1 DEF Hands, Others, Records
    <3> QED
      BY <1>1, <1>3, <2>3, <3>1 DEF SendRequest
  <2> QED
    BY <1>8, <2>1, <2>2, <2>3 DEF SessionCode
<1>9. ASSUME NEW p \in Calls, StopAll(p)
      PROVE  sessions' = sessions /\ Registering' \subseteq Registering
  <2> DEFINE c == [Idle EXCEPT !.pc = "next", !.op = "stopall", !.all = sessions,
                               !.todo = sessions]
  <2>1. h' = [h EXCEPT ![p] = c] /\ c.pc = "next" BY <1>9 DEF StopAll, Idle
  <2>2. Others(p) /\ h'[p].pc = "next" BY <2>1 DEF Hands, Others
  <2> QED
    BY <1>1, <1>9, <2>2 DEF StopAll
<1>10. ASSUME NEW p \in Calls, NEW s \in Sessions, Delete(p, s) \/ Prompt(p, s)
       PROVE  sessions' \subseteq sessions /\ Registering' \subseteq Registering
  BY <1>4, <1>10 DEF Delete, Prompt
<1>11. ASSUME NEW q \in Procs, Pi(q)
       PROVE  sessions' = sessions /\ Registering' = Registering
  BY <1>11 DEF Pi, Exit, ReadNext, ReadLine, ReadEOF, Registering
<1> QED
  BY <1>5, <1>6, <1>7, <1>8, <1>9, <1>10, <1>11 DEF Next, Client, CleanUp

LEMMA WithinStep ==
    ASSUME Hands, Jobs, [Next]_vars, Finite, NEW n \in Nat \ {0}, Within(n),
           Cardinality(Registering') <= n
    PROVE  Finite' /\ Within(n)'
<1>0. /\ Limit \in Nat /\ MaxSessions \in Nat /\ MaxSessions <= Limit
      /\ Cardinality(sessions) \in Nat /\ Cardinality(Registering) \in Nat
  BY RestoredAssumption, BoundAssumption, FS_CardinalityType DEF Limit, Finite
<1>1. CASE sessions' \subseteq sessions /\ Registering' \subseteq Registering
  <2>1. /\ Finite' /\ Cardinality(sessions') <= Cardinality(sessions)
        /\ Cardinality(Registering') <= Cardinality(Registering)
    BY <1>1, FS_Subset DEF Finite
  <2>2. Cardinality(sessions') \in Nat /\ Cardinality(Registering') \in Nat
    BY <2>1, FS_CardinalityType DEF Finite
  <2> QED
    BY <1>0, <2>1, <2>2 DEF Within
<1>2. ASSUME NEW p \in Calls, BelowLimit, sessions' = sessions,
             Registering' \subseteq Registering \cup {p}
      PROVE  Finite' /\ Within(n)'
  <2>1. Finite'
    BY <1>2, FS_AddElement, FS_Subset DEF Finite
  <2>2. Cardinality(Registering') \in Nat
    BY <2>1, FS_CardinalityType DEF Finite
  <2>3. Cardinality(sessions') < MaxSessions /\ Cardinality(sessions') \in Nat
    BY <1>0, <1>2 DEF BelowLimit
  <2> QED
    BY <1>0, <2>1, <2>2, <2>3 DEF Within
<1>3. ASSUME NEW p \in Registering, sessions' = sessions \cup {Id(p)},
             Registering' \subseteq Registering \ {p}
      PROVE  Finite' /\ Within(n)'
  <2>1. /\ IsFiniteSet(Registering \ {p})
        /\ Cardinality(Registering \ {p}) = Cardinality(Registering) - 1
    BY <1>3, FS_RemoveElement DEF Finite
  <2>2. /\ IsFiniteSet(sessions')
        /\ Cardinality(sessions') <= Cardinality(sessions) + 1
    <3>1. /\ IsFiniteSet(sessions \cup {Id(p)})
          /\ Cardinality(sessions \cup {Id(p)}) =
               IF Id(p) \in sessions THEN Cardinality(sessions)
               ELSE Cardinality(sessions) + 1
      BY FS_AddElement DEF Finite
    <3> QED
      BY <1>0, <1>3, <3>1
  <2>3. /\ IsFiniteSet(Registering')
        /\ Cardinality(Registering') <= Cardinality(Registering) - 1
    BY <1>3, <2>1, FS_Subset
  <2>4. Cardinality(sessions') \in Nat /\ Cardinality(Registering') \in Nat
    BY <2>2, <2>3, FS_CardinalityType
  <2> QED
    BY <1>0, <2>2, <2>3, <2>4 DEF Within, Finite
<1>4. CASE UNCHANGED vars
  <2>1. sessions' = sessions /\ Registering' = Registering
    BY <1>4 DEF vars, mapVars, Registering, At
  <2> QED
    BY <1>1, <2>1
<1> QED
  BY <1>1, <1>2, <1>3, <1>4, RegisteringMoves

LEMMA WithinInit ==
    ASSUME Init, NEW n \in Nat \ {0} PROVE Finite /\ Within(n)
<1>1. Registering = {} /\ sessions = Restored
  BY DEF Init, Registering, At, Idle
<1>2. IsFiniteSet(Registering) /\ Cardinality(Registering) = 0
  BY <1>1, FS_EmptySet
<1>3. /\ Limit \in Nat /\ Cardinality(Restored) \in Nat
      /\ Cardinality(Restored) <= Limit
  BY RestoredAssumption, BoundAssumption, FS_CardinalityType DEF Limit
<1> QED
  BY <1>1, <1>2, <1>3, RestoredAssumption DEF Finite, Within

\* The limit on sessions is checked in one critical section and the session put
\* into the map in another (manager.go:235-246): it is exceeded by no more than
\* the calls that can be between the two at the same time, less one.  With n = 1,
\* when sessions are created one at a time, the limit holds, whatever prompts,
\* deletions and failed starts come in between.  (What was restored may be more
\* to begin with.)
THEOREM LimitExceededOnlyByRacing ==
    ASSUME NEW n \in Nat \ {0}
    PROVE  Spec /\ []AtMostRegistering(n)
              => [](Cardinality(sessions) <= Limit + n - 1)
<1>1. Init => Finite /\ Within(n)
  BY WithinInit
<1>2. IInv /\ Finite /\ Within(n) /\ [Next]_vars /\ AtMostRegistering(n)'
        => (Finite /\ Within(n))'
  <2> SUFFICES ASSUME IInv, Finite, Within(n), [Next]_vars,
                      AtMostRegistering(n)'
               PROVE  (Finite /\ Within(n))'
    OBVIOUS
  <2>1. Cardinality(Registering') <= n
    BY DEF AtMostRegistering
  <2>2. Hands /\ Jobs
    BY DEF IInv, Sound
  <2> QED
    BY <2>1, <2>2, WithinStep
<1>3. Finite /\ Within(n) => Cardinality(sessions) <= Limit + n - 1
  <2>1. ASSUME Finite
        PROVE  /\ Cardinality(sessions) \in Nat /\ Cardinality(Registering) \in Nat
               /\ Limit \in Nat
    BY <2>1, RestoredAssumption, BoundAssumption, FS_CardinalityType DEF Finite, Limit
  <2> QED
    BY <2>1 DEF Within
<1> QED
  BY <1>1, <1>2, <1>3, SessionInvariant, PTL DEF Spec
=============================================================================
