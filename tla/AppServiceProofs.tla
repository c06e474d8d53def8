-------------------------- MODULE AppServiceProofs --------------------------
(***************************************************************************)
(* Theorems about the commands, for any number of sessions, rooms and      *)
(* commands in flight and any number of failures and restarts, however the *)
(* commands interleave: what a command has in hand at each step, that what *)
(* a room is bound to has an event stream, that forge's sessions are those *)
(* that have a room as long as nothing fails, that only a command that may *)
(* do so takes a live session away from a room, what a restart finds in    *)
(* the store, and that a room no race has disturbed has one session.       *)
(***************************************************************************)
EXTENDS AppService, TLAPS

-----------------------------------------------------------------------------
(* Types, and what a command has in hand *)

\* The steps at which a command works on its old session.
Ending == {"retire", "drop", "erase", "forget"}

\* What a command has in hand at each of its steps.
ShapeOf(p) ==
    /\ At(p, "idle") => h[p] = Idle
    /\ h[p].pc \in {"idle", "profile", "get", "create"} => h[p].new = NoSession
    /\ At(p, "profile") => h[p].cmd = "start"
    /\ At(p, "get") =>
         h[p].cmd = "new" /\ h[p].old \in Sessions /\ h[p].room \in Rooms
    /\ At(p, "create") =>
         \/ h[p].cmd = "start"
         \/ h[p].cmd = "new" /\ h[p].old \in Sessions /\ h[p].room \in Rooms
    /\ h[p].pc \in {"room", "undo"} => h[p].new \in Sessions /\ h[p].cmd = "start"
    /\ h[p].pc \in {"insert", "save", "track"} =>
         h[p].new \in Sessions /\ h[p].room \in Rooms /\ h[p].cmd # "stop"
    /\ h[p].pc \in Ending =>
         /\ h[p].old \in Sessions
         /\ \/ h[p].cmd = "stop" /\ h[p].new = NoSession
            \/ h[p].cmd = "new" /\ h[p].new \in Sessions /\ h[p].room \in Rooms

Shape == \A p \in Handlers : ShapeOf(p)

\* Where /stop can be after a turn of its loop.
LEMMA NextToStopShape ==
    ASSUME TypeOK, NEW p \in Handlers, NEW todo \in SUBSET Sessions,
           NextToStop(p, todo), h[p].cmd = "stop", h[p].new = NoSession
    PROVE  /\ h' \in [Handlers -> Commands]
           /\ \A q \in Handlers : q # p => h'[q] = h[q]
           /\ \/ h'[p] = Idle
              \/ /\ h'[p].pc = "retire" /\ h'[p].cmd = "stop" /\ h'[p].new = NoSession
                 /\ h'[p].old \in todo /\ h'[p].todo = todo \ {h'[p].old}
                 /\ h'[p].room = h[p].room
<1>1. CASE Finish(p)
  BY <1>1 DEF Finish, Idle, Commands, Steps, TypeOK
<1>2. ASSUME NEW s \in todo,
             h' = [h EXCEPT ![p] = [@ EXCEPT !.pc = "retire", !.old = s,
                                             !.todo = todo \ {s}]]
      PROVE  /\ h' \in [Handlers -> Commands]
             /\ \A q \in Handlers : q # p => h'[q] = h[q]
             /\ h'[p].pc = "retire" /\ h'[p].cmd = "stop" /\ h'[p].new = NoSession
             /\ h'[p].old \in todo /\ h'[p].todo = todo \ {h'[p].old}
             /\ h'[p].room = h[p].room
  <2>1. h[p] \in Commands BY DEF TypeOK
  <2>2. h'[p] = [h[p] EXCEPT !.pc = "retire", !.old = s, !.todo = todo \ {s}]
    BY <1>2 DEF TypeOK
  <2>3. h'[p] \in Commands
    BY <2>1, <2>2 DEF Commands, Steps
  <2>4. h'[p].pc = "retire" /\ h'[p].cmd = "stop" /\ h'[p].new = NoSession
        /\ h'[p].old = s /\ h'[p].todo = todo \ {s} /\ h'[p].room = h[p].room
    BY <2>1, <2>2 DEF Commands
  <2>5. QED BY <1>2, <2>3, <2>4 DEF TypeOK
<1>3. QED BY <1>1, <1>2 DEF NextToStop

\* What Goto leaves of a command.
LEMMA GotoMoves ==
    ASSUME TypeOK, NEW p \in Handlers, NEW step \in Steps, Goto(p, step)
    PROVE  /\ h' \in [Handlers -> Commands]
           /\ h'[p] = [h[p] EXCEPT !.pc = step]
           /\ h'[p].pc = step /\ h'[p].cmd = h[p].cmd /\ h'[p].room = h[p].room
           /\ h'[p].new = h[p].new /\ h'[p].old = h[p].old /\ h'[p].todo = h[p].todo
           /\ \A q \in Handlers : q # p => h'[q] = h[q]
<1>1. h[p] \in Commands BY DEF TypeOK
<1>2. h'[p] = [h[p] EXCEPT !.pc = step] BY DEF Goto, TypeOK
<1>3. QED BY <1>1, <1>2 DEF Goto, TypeOK, Commands

\* What Finish leaves of a command.
LEMMA FinishMoves ==
    ASSUME TypeOK, NEW p \in Handlers, Finish(p)
    PROVE  /\ h' \in [Handlers -> Commands]
           /\ h'[p] = Idle
           /\ \A q \in Handlers : q # p => h'[q] = h[q]
BY DEF Finish, TypeOK, Idle, Commands, Steps

\* A counted failure counts.
LEMMA FailCounts ==
    ASSUME TypeOK, NEW kind, Fail(kind)
    PROVE  failures' \in 0..MaxFailures /\ failures' # 0
<1>1. failures \in 0..MaxFailures /\ MaxFailures \in Nat
  BY BoundAssumption DEF TypeOK
<1>2. failures < MaxFailures /\ failures' = failures + 1
  BY DEF Fail
<1>3. QED BY <1>1, <1>2

\* A request to delete a session leaves the others alone.
LEMMA DeleteTypes ==
    ASSUME TypeOK, NEW s \in Sessions, NEW known \in BOOLEAN, DeleteSession(s, known)
    PROVE  /\ forge' \in [Sessions -> {"unborn", "live", "gone"}]
           /\ failures' \in 0..MaxFailures
           /\ \A t \in Sessions : t # s => forge'[t] = forge[t]
           /\ forge'[s] \in {forge[s], "gone"}
           /\ known => forge'[s] = "gone"
           /\ failures' = 0 => failures = 0
           /\ failures' = 0 /\ forge[s] # "unborn" => forge'[s] = "gone"
<1>1. CASE known /\ forge' = [forge EXCEPT ![s] = "gone"] /\ UNCHANGED failures
  BY <1>1 DEF TypeOK
<1>2. CASE ~known /\ forge[s] = "live" /\ Fail("delete refused") /\ UNCHANGED forge
  BY <1>2, FailCounts DEF TypeOK
<1>3. CASE ~known /\ forge[s] = "live" /\ Fail("reply lost")
           /\ forge' = [forge EXCEPT ![s] = "gone"]
  BY <1>3, FailCounts DEF TypeOK
<1>4. CASE ~known /\ forge[s] = "gone" /\ UNCHANGED <<forge, failures>>
  BY <1>4 DEF TypeOK
<1>5. QED BY <1>1, <1>2, <1>3, <1>4 DEF DeleteSession

\* A command that goes on to a step its hands are ready for keeps the shape.
LEMMA ShapeMoves ==
    ASSUME TypeOK, Shape, NEW p \in Handlers,
           \A q \in Handlers : q # p => h'[q] = h[q], ShapeOf(p)'
    PROVE  Shape'
BY DEF Shape, ShapeOf, At

\* Types and shapes are kept by the process ...
LEMMA ShapeProcess ==
    ASSUME TypeOK, Shape, Process
    PROVE  TypeOK' /\ Shape'
<1>1. CASE Boot
  <2>1. sessionRooms' \in [Sessions -> Rooms \cup {NoRoom}] /\ failures' \in 0..MaxFailures
    BY <1>1, BoundAssumption DEF Boot, Restored, Fail, TypeOK
  <2>2. QED BY <1>1, <2>1 DEF Boot, Disturb, TypeOK, Shape, ShapeOf, At
<1>2. CASE Serve
  BY <1>2 DEF Serve, bindVars, TypeOK, Shape, ShapeOf, At
<1>3. CASE Crash
  BY <1>3, BoundAssumption, NullAssumption
  DEF Crash, TypeOK, Shape, ShapeOf, At, Idle, Commands, Steps, Ending
<1>4. ASSUME NEW s \in Sessions, Retrack(s) PROVE TypeOK' /\ Shape'
  BY <1>4 DEF Retrack, TypeOK, Shape, ShapeOf, At
<1>5. QED BY <1>1, <1>2, <1>3, <1>4 DEF Process

\* ... by commands that begin ...
LEMMA ShapeRequest ==
    ASSUME TypeOK, Shape, NEW p \in Handlers, Request(p)
    PROVE  TypeOK' /\ Shape'
<1> USE DEF bindVars, procVars
<1>0. ASSUME NEW c \in Commands, h' = [h EXCEPT ![p] = c], ShapeOf(p)'
      PROVE  Shape' /\ h' \in [Handlers -> Commands]
  <2>1. /\ h' \in [Handlers -> Commands]
        /\ \A q \in Handlers : q # p => h'[q] = h[q]
    BY <1>0 DEF TypeOK
  <2>2. QED BY <1>0, <2>1, ShapeMoves
<1>1. CASE StartInDM(p)
  BY <1>1 DEF StartInDM, TypeOK, Shape, ShapeOf, At, Idle, Commands, Steps, Ending
<1>2. CASE StopInDM(p)
  <2>1. PICK s \in Mapped :
          h' = [h EXCEPT ![p] = [Idle EXCEPT !.pc = "retire", !.cmd = "stop",
                  !.old = s, !.todo = Mapped \ {s}]]
    BY <1>2 DEF StopInDM
  <2> DEFINE c == [Idle EXCEPT !.pc = "retire", !.cmd = "stop", !.old = s,
                               !.todo = Mapped \ {s}]
  <2>2. s \in Sessions /\ c \in Commands BY DEF Mapped, Commands, Steps, Idle
  <2>3. h'[p] = c BY <2>1 DEF TypeOK
  <2>4. ShapeOf(p)' BY <2>2, <2>3 DEF ShapeOf, At, Ending, Idle
  <2>5. Shape' /\ h' \in [Handlers -> Commands] BY <1>0, <2>1, <2>2, <2>4
  <2>6. QED BY <1>2, <2>5 DEF StopInDM, Disturb, TypeOK
<1>3. ASSUME NEW r \in Rooms, NewInRoom(p, r) PROVE TypeOK' /\ Shape'
  <2>1. PICK s \in BoundTo(r) :
          h' = [h EXCEPT ![p] = [Idle EXCEPT !.pc = "get", !.cmd = "new",
                                             !.room = r, !.old = s]]
    BY <1>3 DEF NewInRoom
  <2> DEFINE c == [Idle EXCEPT !.pc = "get", !.cmd = "new", !.room = r, !.old = s]
  <2>2. s \in Sessions /\ c \in Commands BY DEF BoundTo, Commands, Steps, Idle
  <2>3. h'[p] = c BY <2>1 DEF TypeOK
  <2>4. ShapeOf(p)' BY <2>2, <2>3 DEF ShapeOf, At, Ending, Idle
  <2>5. Shape' /\ h' \in [Handlers -> Commands] BY <1>0, <2>1, <2>2, <2>4
  <2>6. QED BY <1>3, <2>5 DEF NewInRoom, Disturb, TypeOK
<1>4. ASSUME NEW r \in Rooms, StartInRoom(p, r) PROVE TypeOK' /\ Shape'
  BY <1>4 DEF StartInRoom, Disturb, TypeOK, Shape, ShapeOf, At, Idle, Commands, Steps, Ending
<1>5. QED BY <1>1, <1>2, <1>3, <1>4 DEF Request

\* ... and by commands at work.
LEMMA ShapeCommand ==
    ASSUME TypeOK, Shape, NEW p \in Handlers, Command(p)
    PROVE  TypeOK' /\ Shape'
<1> USE DEF bindVars, procVars
<1>0. ShapeOf(p) /\ h[p] \in Commands BY DEF Shape, TypeOK
<1>1. ASSUME NEW step \in Steps, Goto(p, step), ShapeOf(p)'
      PROVE  Shape' /\ h' \in [Handlers -> Commands]
  BY <1>1, GotoMoves, ShapeMoves
<1>2. ASSUME Finish(p) PROVE Shape' /\ h' \in [Handlers -> Commands]
  <2>1. h'[p] = Idle /\ \A q \in Handlers : q # p => h'[q] = h[q]
    BY <1>2, FinishMoves
  <2>2. ShapeOf(p)' BY <2>1 DEF ShapeOf, At, Idle, Ending
  <2>3. QED BY <1>2, <2>1, <2>2, FinishMoves, ShapeMoves
<1>3. CASE EnsureProfile(p)
  <2>1. CASE Goto(p, "create")
    <3>1. h'[p].pc = "create" /\ h'[p].cmd = h[p].cmd /\ h'[p].new = h[p].new
      BY <2>1, GotoMoves DEF Steps
    <3>2. ShapeOf(p)' BY <1>0, <1>3, <3>1 DEF EnsureProfile, ShapeOf, At, Ending
    <3>3. Shape' /\ h' \in [Handlers -> Commands] BY <1>1, <2>1, <3>2 DEF Steps
    <3>4. QED BY <1>3, <3>3 DEF EnsureProfile, TypeOK
  <2>2. CASE Finish(p) BY <1>2, <1>3, <2>2 DEF EnsureProfile, TypeOK
  <2>3. QED BY <1>3, <2>1, <2>2 DEF EnsureProfile
<1>4. CASE GetSession(p)
  <2>1. CASE Goto(p, "create")
    <3>1. h'[p].pc = "create" /\ h'[p].cmd = h[p].cmd /\ h'[p].new = h[p].new
          /\ h'[p].old = h[p].old /\ h'[p].room = h[p].room
      BY <2>1, GotoMoves DEF Steps
    <3>2. ShapeOf(p)' BY <1>0, <1>4, <3>1 DEF GetSession, ShapeOf, At, Ending
    <3>3. Shape' /\ h' \in [Handlers -> Commands] BY <1>1, <2>1, <3>2 DEF Steps
    <3>4. QED BY <1>4, <3>3 DEF GetSession, TypeOK
  <2>2. CASE Finish(p) BY <1>2, <1>4, <2>2 DEF GetSession, TypeOK
  <2>3. QED BY <1>4, <2>1, <2>2 DEF GetSession
<1>5. CASE CreateSession(p)
  <2>1. ASSUME NEW s \in Sessions, Make(p, s)
        PROVE  forge' \in [Sessions -> {"unborn", "live", "gone"}]
    BY <2>1 DEF Make, TypeOK
  <2>2. ASSUME NEW s \in Sessions,
               h' = [h EXCEPT ![p] = [@ EXCEPT !.pc = AfterCreate(p), !.new = s]]
        PROVE  Shape' /\ h' \in [Handlers -> Commands]
    <3>1. h'[p] = [h[p] EXCEPT !.pc = AfterCreate(p), !.new = s]
      BY <2>2 DEF TypeOK
    <3>2. \/ h[p].cmd = "new" /\ AfterCreate(p) = "retire"
          \/ h[p].cmd = "start" /\ h[p].room = NoRoom /\ AfterCreate(p) = "room"
          \/ h[p].cmd = "start" /\ h[p].room \in Rooms /\ AfterCreate(p) = "insert"
      <4>1. h[p].cmd = "start" \/ h[p].cmd = "new"
        BY <1>0, <1>5 DEF CreateSession, ShapeOf, At
      <4>2. h[p].room \in Rooms \cup {NoRoom} BY <1>0 DEF Commands
      <4>3. CASE h[p].cmd = "new" BY <4>3 DEF AfterCreate
      <4>4. CASE h[p].cmd = "start" /\ h[p].room = NoRoom BY <4>4 DEF AfterCreate
      <4>5. CASE h[p].cmd = "start" /\ h[p].room # NoRoom
        BY <4>2, <4>5 DEF AfterCreate
      <4>6. QED BY <4>1, <4>3, <4>4, <4>5
    <3>3. h'[p].pc = AfterCreate(p) /\ h'[p].new = s /\ h'[p].cmd = h[p].cmd
          /\ h'[p].room = h[p].room /\ h'[p].old = h[p].old
      BY <1>0, <3>1 DEF Commands
    <3>4. h'[p] \in Commands BY <1>0, <3>1, <3>2 DEF Commands, Steps
    <3>5. ShapeOf(p)'
      BY <1>0, <1>5, <3>2, <3>3 DEF CreateSession, ShapeOf, At, Ending
    <3>6. \A q \in Handlers : q # p => h'[q] = h[q] BY <2>2 DEF TypeOK
    <3>7. QED BY <2>2, <3>4, <3>5, <3>6, ShapeMoves DEF TypeOK
  <2>3. failures' \in 0..MaxFailures
    BY <1>5, FailCounts DEF CreateSession, TypeOK
  <2>4. Shape' /\ h' \in [Handlers -> Commands]
    BY <1>2, <1>5, <2>2 DEF CreateSession
  <2>5. forge' \in [Sessions -> {"unborn", "live", "gone"}]
    BY <1>5, <2>1 DEF CreateSession, TypeOK
  <2>6. QED BY <1>5, <2>3, <2>4, <2>5 DEF CreateSession, TypeOK
<1>6. CASE CreateSessionRoom(p)
  <2>1. ASSUME NEW r \in Rooms,
               h' = [h EXCEPT ![p] = [@ EXCEPT !.pc = "insert", !.room = r]]
        PROVE  Shape' /\ h' \in [Handlers -> Commands]
    <3>1. h'[p] = [h[p] EXCEPT !.pc = "insert", !.room = r] BY <2>1 DEF TypeOK
    <3>2. h'[p].pc = "insert" /\ h'[p].room = r /\ h'[p].new = h[p].new
          /\ h'[p].cmd = h[p].cmd
      BY <1>0, <3>1 DEF Commands
    <3>3. h'[p] \in Commands BY <1>0, <3>1 DEF Commands, Steps
    <3>4. ShapeOf(p)' BY <1>0, <1>6, <3>2 DEF CreateSessionRoom, ShapeOf, At, Ending
    <3>5. \A q \in Handlers : q # p => h'[q] = h[q] BY <2>1 DEF TypeOK
    <3>6. QED BY <2>1, <3>3, <3>4, <3>5, ShapeMoves DEF TypeOK
  <2>2. ASSUME Goto(p, "undo") PROVE Shape' /\ h' \in [Handlers -> Commands]
    <3>1. h'[p].pc = "undo" /\ h'[p].cmd = h[p].cmd /\ h'[p].new = h[p].new
      BY <2>2, GotoMoves DEF Steps
    <3>2. ShapeOf(p)' BY <1>0, <1>6, <3>1 DEF CreateSessionRoom, ShapeOf, At, Ending
    <3>3. QED BY <1>1, <2>2, <3>2 DEF Steps
  <2>3. Shape' /\ h' \in [Handlers -> Commands] /\ opened' \in SUBSET Rooms
    BY <1>6, <2>1, <2>2 DEF CreateSessionRoom, TypeOK
  <2>4. QED BY <1>6, <2>3 DEF CreateSessionRoom, TypeOK
<1>7. CASE Undo(p)
  <2>1. h[p].new \in Sessions BY <1>0, <1>7 DEF Undo, ShapeOf, At
  <2>2. forge' \in [Sessions -> {"unborn", "live", "gone"}]
        /\ failures' \in 0..MaxFailures
    BY <1>7, <2>1, DeleteTypes DEF Undo
  <2>3. Shape' /\ h' \in [Handlers -> Commands] BY <1>2, <1>7 DEF Undo
  <2>4. QED BY <1>7, <2>2, <2>3 DEF Undo, TypeOK
<1>8. ASSUME NEW from, NEW step \in Steps, At(p, from), Goto(p, step),
             \/ from = "insert" /\ step = "save"
             \/ from = "save" /\ step = "track"
             \/ from = "retire" /\ step = "drop"
             \/ from = "drop" /\ step = "erase"
             \/ from = "erase" /\ step = "forget"
             \/ from = "forget" /\ h[p].cmd = "new" /\ step = "insert"
      PROVE  Shape' /\ h' \in [Handlers -> Commands]
  <2>1. h'[p].pc = step /\ h'[p].cmd = h[p].cmd /\ h'[p].new = h[p].new
        /\ h'[p].old = h[p].old /\ h'[p].room = h[p].room
    BY <1>8, GotoMoves
  <2>2. ShapeOf(p)' BY <1>0, <1>8, <2>1 DEF ShapeOf, At, Ending
  <2>3. QED BY <1>1, <1>8, <2>2
<1>9. ASSUME NextToStop(p, h[p].todo), h[p].cmd = "stop", h[p].pc \in Ending
      PROVE  Shape' /\ h' \in [Handlers -> Commands]
  <2>1. h[p].todo \in SUBSET Sessions /\ h[p].new = NoSession
    BY <1>0, <1>9, NullAssumption DEF Commands, ShapeOf
  <2>2. /\ h' \in [Handlers -> Commands]
        /\ \A q \in Handlers : q # p => h'[q] = h[q]
        /\ \/ h'[p] = Idle
           \/ /\ h'[p].pc = "retire" /\ h'[p].cmd = "stop" /\ h'[p].new = NoSession
              /\ h'[p].old \in h[p].todo
    BY <1>9, <2>1, NextToStopShape
  <2>3. ShapeOf(p)'
    <3>1. CASE h'[p] = Idle BY <3>1 DEF ShapeOf, At, Idle, Ending
    <3>2. CASE h'[p].pc = "retire" /\ h'[p].cmd = "stop" /\ h'[p].new = NoSession
               /\ h'[p].old \in h[p].todo
      BY <2>1, <3>2 DEF ShapeOf, At, Ending
    <3>3. QED BY <2>2, <3>1, <3>2
  <2>4. QED BY <2>2, <2>3, ShapeMoves
<1>10. CASE InsertBinding(p)
  <2>1. h[p].new \in Sessions /\ h[p].room \in Rooms
    BY <1>0, <1>10 DEF InsertBinding, ShapeOf, At
  <2>2. Shape' /\ h' \in [Handlers -> Commands]
    BY <1>8, <1>10 DEF InsertBinding, Steps
  <2>3. QED BY <1>10, <2>1, <2>2 DEF InsertBinding, TypeOK
<1>11. CASE SavePortal(p)
  <2>1. h[p].new \in Sessions /\ h[p].room \in Rooms
    BY <1>0, <1>11 DEF SavePortal, ShapeOf, At
  <2>2. Shape' /\ h' \in [Handlers -> Commands]
    BY <1>8, <1>11 DEF SavePortal, Steps
  <2>3. failures' \in 0..MaxFailures
    BY <1>11, BoundAssumption DEF SavePortal, Fail, TypeOK
  <2>4. portals' \in [Sessions -> Rooms \cup {NoRoom}]
    BY <1>11, <2>1 DEF SavePortal, TypeOK
  <2>5. QED BY <1>11, <2>2, <2>3, <2>4 DEF SavePortal, Disturb, TypeOK
<1>12. CASE Track(p)
  <2>1. h[p].new \in Sessions BY <1>0, <1>12 DEF Track, ShapeOf, At
  <2>2. Shape' /\ h' \in [Handlers -> Commands] BY <1>2, <1>12 DEF Track
  <2>3. QED BY <1>12, <2>1, <2>2 DEF Track, TypeOK
<1>13. CASE RetireSession(p)
  <2>1. h[p].old \in Sessions /\ h[p].cmd \in {"new", "stop"} /\ h[p].pc \in Ending
    BY <1>0, <1>13 DEF RetireSession, ShapeOf, At, Ending
  <2>2. forge' \in [Sessions -> {"unborn", "live", "gone"}]
        /\ failures' \in 0..MaxFailures
    BY <1>13, <2>1, DeleteTypes DEF RetireSession
  <2>3. Goto(p, "drop") \/ (h[p].cmd = "stop" /\ NextToStop(p, h[p].todo))
    <3>1. PICK known \in BOOLEAN :
            IF known \/ h[p].cmd = "new"
              THEN Goto(p, "drop") ELSE NextToStop(p, h[p].todo)
      BY <1>13 DEF RetireSession
    <3>2. CASE known \/ h[p].cmd = "new"
      <4>1. Goto(p, "drop") BY <3>1, <3>2, Zenon
      <4>2. QED BY <4>1
    <3>3. CASE ~(known \/ h[p].cmd = "new")
      <4>1. NextToStop(p, h[p].todo) BY <3>1, <3>3, Zenon
      <4>2. h[p].cmd = "stop" BY <2>1, <3>3
      <4>3. QED BY <4>1, <4>2
    <3>4. QED BY <3>2, <3>3
  <2>4. Shape' /\ h' \in [Handlers -> Commands]
    BY <1>8, <1>9, <1>13, <2>1, <2>3 DEF RetireSession, Steps
  <2>5. QED BY <1>13, <2>2, <2>4 DEF RetireSession, TypeOK
<1>14. CASE DropBinding(p)
  <2>1. Shape' /\ h' \in [Handlers -> Commands]
    BY <1>8, <1>14 DEF DropBinding, Steps
  <2>2. QED BY <1>14, <2>1 DEF DropBinding, TypeOK
<1>15. CASE DeletePortal(p)
  <2>1. Shape' /\ h' \in [Handlers -> Commands]
    BY <1>8, <1>15 DEF DeletePortal, Steps
  <2>2. failures' \in 0..MaxFailures
    BY <1>15, BoundAssumption DEF DeletePortal, Fail, TypeOK
  <2>3. portals' \in [Sessions -> Rooms \cup {NoRoom}]
    BY <1>15 DEF DeletePortal, TypeOK
  <2>4. QED BY <1>15, <2>1, <2>2, <2>3 DEF DeletePortal, Disturb, TypeOK
<1>16. CASE Forget(p)
  <2>1. h[p].cmd \in {"new", "stop"} /\ h[p].pc \in Ending
    BY <1>0, <1>16 DEF Forget, ShapeOf, At, Ending
  <2>2. \/ h[p].cmd = "new" /\ Goto(p, "insert")
        \/ h[p].cmd = "stop" /\ NextToStop(p, h[p].todo)
    BY <1>16, <2>1 DEF Forget
  <2>3. Shape' /\ h' \in [Handlers -> Commands]
    BY <1>8, <1>9, <1>16, <2>1, <2>2 DEF Forget, Steps
  <2>4. QED BY <1>16, <2>3 DEF Forget, TypeOK
<1>17. QED
  BY <1>3, <1>4, <1>5, <1>6, <1>7, <1>10, <1>11, <1>12, <1>13, <1>14, <1>15, <1>16
  DEF Command

\* Types and shapes are kept by every step.
LEMMA ShapeStep == TypeOK /\ Shape /\ [Next]_vars => TypeOK' /\ Shape'
<1> SUFFICES ASSUME TypeOK, Shape, [Next]_vars PROVE TypeOK' /\ Shape' OBVIOUS
<1>1. CASE UNCHANGED vars
  BY <1>1 DEF vars, bindVars, procVars, TypeOK, Shape, ShapeOf, At
<1>2. QED BY <1>1, ShapeProcess, ShapeRequest, ShapeCommand DEF Next

\* They hold from the beginning.
LEMMA ShapeInit == Init => TypeOK /\ Shape
BY BoundAssumption, RoomAssumption
DEF Init, TypeOK, Shape, ShapeOf, At, Idle, Commands, Steps, Ending

\* Type correctness: among it, that commands name sessions and rooms that exist.
THEOREM TypeCorrect == Spec => [](TypeOK /\ Shape)
BY ShapeInit, ShapeStep, PTL DEF Spec

-----------------------------------------------------------------------------
(* The binding of sessions to rooms *)

\* The steps between making a session and binding it.
Holding == {"room", "undo", "insert"} \cup Ending

\* Command p holds a new session it has not bound to a room yet.
Pending(p) == h[p].new # NoSession /\ h[p].pc \in Holding

\* The sessions command p is taking down, now or later.
Marked(p) == {h[p].old} \cup h[p].todo

\* Nobody has heard of a session that forge has not made.
UnbornIsUnknown ==
    \A s \in Sessions : forge[s] = "unborn" =>
        /\ sessionRooms[s] = NoRoom
        /\ portals[s] = NoRoom
        /\ \A q \in Handlers : h[q].new # s /\ s \notin Marked(q)

\* A pending session runs, has no room, and is known to the command that made
\* it and to no other.
FreshOf(p) ==
    Pending(p) =>
        /\ forge[h[p].new] = "live"
        /\ sessionRooms[h[p].new] = NoRoom
        /\ \A q \in Handlers :
             h[p].new \notin Marked(q) /\ (q # p => h[q].new # h[p].new)

\* A session past "drop" has lost its room, for good.
DroppedOf(p) ==
    h[p].pc \in {"erase", "forget"} => sessionRooms[h[p].old] = NoRoom

\* No command is at work until the process serves.
Quiet == running # "up" => \A p \in Handlers : h[p] = Idle

Hands ==
    /\ UnbornIsUnknown
    /\ \A p \in Handlers : FreshOf(p) /\ DroppedOf(p)
    /\ Quiet

\* Sessions with a room have a stream, are about to get one, or wait for
\* StartEvents; a process that is down has no map.
Streams ==
    /\ running = "down" => Mapped = {}
    /\ running = "boot" => \A s \in Mapped : s \in tracked \/ s \in retrack
    /\ BoundIsTracked

\* Before the first command, forge has no session; without failures, what a
\* command drops is gone.
Accounts ==
    /\ running # "up" /\ crashes = 0 => \A s \in Sessions : forge[s] = "unborn"
    /\ failures = 0 => \A p \in Handlers : At(p, "drop") => forge[h[p].old] = "gone"
    /\ LiveIffBound

Sound == TypeOK /\ Shape /\ Hands

\* A step of p keeps what all commands have in hand, if p makes no session,
\* marks only what was marked or has a room, changes in forge only the sessions
\* it has marked or gives up, and gives a room only to the session it held.
LEMMA HandsMove ==
    ASSUME Sound, Quiet', NEW p \in Handlers,
           \A q \in Handlers : q # p => h'[q] = h[q],
           \A s \in Sessions : forge'[s] = "unborn" => forge[s] = "unborn",
           \A s \in Sessions : \/ forge'[s] = forge[s]
                               \/ s \in Marked(p)
                               \/ s = h[p].new /\ ~Pending(p)',
           \A s \in Sessions : \/ sessionRooms'[s] \in {sessionRooms[s], NoRoom}
                               \/ s = h[p].new /\ Pending(p) /\ ~Pending(p)',
           \A s \in Sessions : portals'[s] \in {portals[s], NoRoom} \/ s = h[p].new,
           \A s \in Marked(p)' : s \in Marked(p) \/ s \in Mapped \/ s = NoSession,
           h'[p].new \in {h[p].new, NoSession},
           Pending(p)' => Pending(p),
           DroppedOf(p)'
    PROVE  Hands'
<1>1. UnbornIsUnknown'
  <2> SUFFICES ASSUME NEW s \in Sessions, forge[s] = "unborn"
               PROVE  /\ sessionRooms'[s] = NoRoom /\ portals'[s] = NoRoom
                      /\ \A q \in Handlers : h'[q].new # s /\ s \notin Marked(q)'
    BY DEF UnbornIsUnknown, Marked
  <2>1. sessionRooms[s] = NoRoom /\ portals[s] = NoRoom
        /\ \A q \in Handlers : h[q].new # s /\ s \notin Marked(q)
    BY DEF Sound, Hands, UnbornIsUnknown
  <2>2. s \notin Mapped /\ s # NoSession BY <2>1, NullAssumption DEF Mapped
  <2>3. ASSUME NEW q \in Handlers PROVE h'[q].new # s /\ s \notin Marked(q)'
    <3>1. CASE q = p BY <2>1, <2>2, <3>1
    <3>2. CASE q # p BY <2>1, <3>2 DEF Marked
    <3>3. QED BY <3>1, <3>2
  <2>4. QED BY <2>1, <2>3
<1>2. ASSUME NEW q \in Handlers PROVE FreshOf(q)'
  <2> SUFFICES ASSUME Pending(q)'
               PROVE  /\ forge'[h'[q].new] = "live" /\ sessionRooms'[h'[q].new] = NoRoom
                      /\ \A t \in Handlers :
                           h'[q].new \notin Marked(t)' /\ (t # q => h'[t].new # h'[q].new)
    BY DEF FreshOf, Marked
  <2>1. Pending(q) /\ h'[q].new = h[q].new
    <3>1. CASE q = p BY <3>1 DEF Pending
    <3>2. CASE q # p BY <3>2 DEF Pending
    <3>3. QED BY <3>1, <3>2
  <2>2. /\ forge[h[q].new] = "live" /\ sessionRooms[h[q].new] = NoRoom
        /\ \A t \in Handlers :
             h[q].new \notin Marked(t) /\ (t # q => h[t].new # h[q].new)
    BY <2>1 DEF Sound, Hands, FreshOf
  <2>3. h[q].new # NoSession /\ h[q].new \notin Mapped /\ h[q].new \in Sessions
    BY <2>1, <2>2 DEF Pending, Mapped, Sound, TypeOK, Commands
  <2>4. ASSUME NEW t \in Handlers
        PROVE  h[q].new \notin Marked(t)' /\ (t # q => h'[t].new # h[q].new)
    <3>1. CASE t = p BY <2>2, <2>3, <3>1
    <3>2. CASE t # p BY <2>2, <3>2 DEF Marked
    <3>3. QED BY <3>1, <3>2
  <2>5. h[q].new \notin Marked(p) /\ ~(h[q].new = h[p].new /\ ~Pending(p)')
    BY <2>2
  <2>6. forge'[h[q].new] = "live" /\ sessionRooms'[h[q].new] = NoRoom
    BY <2>2, <2>3, <2>5
  <2>7. QED BY <2>1, <2>4, <2>6
<1>3. ASSUME NEW q \in Handlers PROVE DroppedOf(q)'
  <2>1. CASE q # p
    <3> SUFFICES ASSUME h[q].pc \in {"erase", "forget"}
                 PROVE  sessionRooms'[h[q].old] = NoRoom
      BY <2>1 DEF DroppedOf
    <3>1. sessionRooms[h[q].old] = NoRoom /\ h[q].old \in Sessions
      BY DEF Sound, Hands, DroppedOf, Shape, ShapeOf, Ending
    <3>2. ~(h[q].old = h[p].new /\ Pending(p))
      BY DEF Sound, Hands, FreshOf, Marked
    <3>3. QED BY <3>1, <3>2
  <2>2. QED BY <2>1
<1>4. QED BY <1>1, <1>2, <1>3 DEF Hands

\* A process that serves stays up while its commands work.
LEMMA QuietKept ==
    ASSUME Sound, running' = running, NEW p \in Handlers,
           running = "up" \/ h[p].pc # "idle"
    PROVE  running = "up" /\ Quiet'
BY DEF Sound, Hands, Quiet, Idle

\* What a command has in hand is kept by the process ...
LEMMA HandsProcess ==
    ASSUME Sound, Process
    PROVE  Hands'
<1> USE DEF bindVars, Sound
<1>1. CASE Boot
  <2>1. /\ h' = h /\ forge' = forge /\ portals' = portals
        /\ \A p \in Handlers : h[p] = Idle
        /\ \A s \in Sessions : sessionRooms'[s] \in {sessionRooms[s], portals[s]}
    BY <1>1 DEF Boot, Restored, Hands, Quiet
  <2>2. QED
    BY <2>1 DEF Hands, UnbornIsUnknown, Marked, FreshOf, DroppedOf, Pending, Quiet, Idle
<1>2. CASE Serve
  BY <1>2
  DEF Serve, Hands, UnbornIsUnknown, Marked, FreshOf, DroppedOf, Pending, Quiet
<1>3. CASE Crash
  <2>1. /\ forge' = forge /\ portals' = portals
        /\ \A p \in Handlers : h'[p] = Idle
        /\ \A s \in Sessions : sessionRooms'[s] = NoRoom
    BY <1>3 DEF Crash
  <2>2. \A p \in Handlers : h'[p].new = NoSession /\ Marked(p)' = {NoSession}
                            /\ ~Pending(p)' /\ h'[p].pc = "idle"
    BY <2>1 DEF Marked, Pending, Idle
  <2>3. UnbornIsUnknown'
    BY <2>1, <2>2, NullAssumption DEF Hands, UnbornIsUnknown
  <2>4. \A p \in Handlers : FreshOf(p)' /\ DroppedOf(p)'
    BY <2>2 DEF FreshOf, DroppedOf
  <2>5. QED BY <2>1, <2>3, <2>4 DEF Hands, Quiet
<1>4. ASSUME NEW s \in Sessions, Retrack(s) PROVE Hands'
  BY <1>4
  DEF Retrack, Hands, UnbornIsUnknown, Marked, FreshOf, DroppedOf, Pending, Quiet
<1>5. QED BY <1>1, <1>2, <1>3, <1>4 DEF Process

\* ... by commands that begin ...
LEMMA HandsRequest ==
    ASSUME Sound, NEW p \in Handlers, Request(p)
    PROVE  Hands'
<1> USE DEF bindVars, procVars
<1>1. /\ running = "up" /\ running' = running /\ h[p].pc = "idle"
      /\ forge' = forge /\ sessionRooms' = sessionRooms /\ portals' = portals
      /\ Quiet'
  BY DEF Request, StartInDM, StopInDM, NewInRoom, StartInRoom, Begins, At, Quiet
<1>2. ASSUME NEW c, h' = [h EXCEPT ![p] = c], c.new = NoSession,
             \A s \in {c.old} \cup c.todo : s \in Mapped \/ s = NoSession,
             c.pc \notin {"erase", "forget"}
      PROVE  Hands'
  <2>1. h'[p] = c /\ \A q \in Handlers : q # p => h'[q] = h[q]
    BY <1>2 DEF Sound, TypeOK
  <2>2. Marked(p)' = {c.old} \cup c.todo /\ ~Pending(p)' /\ DroppedOf(p)'
    BY <1>2, <2>1 DEF Marked, Pending, DroppedOf
  <2>3. h'[p].new = NoSession BY <1>2, <2>1
  <2>4. \A s \in Marked(p)' : s \in Marked(p) \/ s \in Mapped \/ s = NoSession
    BY <1>2, <2>2
  <2>5. QED BY <1>1, <2>1, <2>2, <2>3, <2>4, HandsMove
<1>3. CASE StartInDM(p)
  <2> DEFINE c == [Idle EXCEPT !.pc = "profile", !.cmd = "start"]
  <2>1. h' = [h EXCEPT ![p] = c] BY <1>3 DEF StartInDM
  <2>2. c.new = NoSession /\ c.old = NoSession /\ c.todo = {} /\ c.pc = "profile"
    BY DEF Idle
  <2>3. QED BY <1>2, <2>1, <2>2
<1>4. CASE StopInDM(p)
  <2>1. PICK s \in Mapped :
          h' = [h EXCEPT ![p] = [Idle EXCEPT !.pc = "retire", !.cmd = "stop",
                  !.old = s, !.todo = Mapped \ {s}]]
    BY <1>4 DEF StopInDM
  <2> DEFINE c == [Idle EXCEPT !.pc = "retire", !.cmd = "stop", !.old = s,
                               !.todo = Mapped \ {s}]
  <2>2. c.new = NoSession /\ c.old = s /\ c.todo = Mapped \ {s} /\ c.pc = "retire"
    BY DEF Idle
  <2>3. QED BY <1>2, <2>1, <2>2
<1>5. ASSUME NEW r \in Rooms, NewInRoom(p, r) PROVE Hands'
  <2>1. PICK s \in BoundTo(r) :
          h' = [h EXCEPT ![p] = [Idle EXCEPT !.pc = "get", !.cmd = "new",
                                             !.room = r, !.old = s]]
    BY <1>5 DEF NewInRoom
  <2> DEFINE c == [Idle EXCEPT !.pc = "get", !.cmd = "new", !.room = r, !.old = s]
  <2>2. s \in Mapped BY NullAssumption DEF BoundTo, Mapped
  <2>3. c.new = NoSession /\ c.old = s /\ c.todo = {} /\ c.pc = "get"
    BY DEF Idle
  <2>4. QED BY <1>2, <2>1, <2>2, <2>3
<1>6. ASSUME NEW r \in Rooms, StartInRoom(p, r) PROVE Hands'
  <2> DEFINE c == [Idle EXCEPT !.pc = "profile", !.cmd = "start", !.room = r]
  <2>1. h' = [h EXCEPT ![p] = c] BY <1>6 DEF StartInRoom
  <2>2. c.new = NoSession /\ c.old = NoSession /\ c.todo = {} /\ c.pc = "profile"
    BY DEF Idle
  <2>3. QED BY <1>2, <2>1, <2>2
<1>7. QED BY <1>3, <1>4, <1>5, <1>6 DEF Request

\* ... by a command that makes its session ...
LEMMA HandsCreate ==
    ASSUME Sound, NEW p \in Handlers, NEW n \in Sessions, At(p, "create"),
           Make(p, n), running' = running, sessionRooms' = sessionRooms,
           portals' = portals, h' \in [Handlers -> Commands],
           \A q \in Handlers : q # p => h'[q] = h[q],
           \/ h'[p] = Idle
           \/ /\ h'[p].new = n /\ Marked(p)' = Marked(p)
              /\ h'[p].pc \notin {"erase", "forget"}
    PROVE  Hands'
<1>1. /\ forge[n] = "unborn" /\ sessionRooms[n] = NoRoom
      /\ \A q \in Handlers : h[q].new # n /\ n \notin Marked(q)
      /\ forge'[n] = "live" /\ \A s \in Sessions : s # n => forge'[s] = forge[s]
  BY DEF Make, Sound, Hands, UnbornIsUnknown, TypeOK
<1>2. h'[p].new \in {n, NoSession} /\ \A s \in Marked(p)' : s \in Marked(p) \/ s = NoSession
  BY DEF Idle, Marked
<1>3. UnbornIsUnknown'
  <2> SUFFICES ASSUME NEW s \in Sessions, forge[s] = "unborn", s # n
               PROVE  /\ sessionRooms[s] = NoRoom /\ portals[s] = NoRoom
                      /\ \A q \in Handlers : h'[q].new # s /\ s \notin Marked(q)'
    BY <1>1 DEF UnbornIsUnknown, Marked
  <2>1. sessionRooms[s] = NoRoom /\ portals[s] = NoRoom
        /\ \A q \in Handlers : h[q].new # s /\ s \notin Marked(q)
    BY DEF Sound, Hands, UnbornIsUnknown
  <2>2. ASSUME NEW q \in Handlers PROVE h'[q].new # s /\ s \notin Marked(q)'
    <3>1. CASE q = p BY <1>2, <2>1, <3>1, NullAssumption
    <3>2. CASE q # p BY <2>1, <3>2 DEF Marked
    <3>3. QED BY <3>1, <3>2
  <2>3. QED BY <2>1, <2>2
<1>4. \A q \in Handlers : n \notin Marked(q)' /\ (q # p => h'[q].new # n)
  BY <1>1, <1>2, NullAssumption DEF Marked
<1>5. ASSUME NEW q \in Handlers PROVE FreshOf(q)'
  <2>1. CASE q = p
    BY <1>1, <1>2, <1>4, <2>1 DEF FreshOf, Pending, Marked
  <2>2. CASE q # p
    <3> SUFFICES ASSUME Pending(q)
                 PROVE  /\ forge'[h[q].new] = "live" /\ sessionRooms[h[q].new] = NoRoom
                        /\ \A t \in Handlers :
                             h[q].new \notin Marked(t)' /\ (t # q => h'[t].new # h[q].new)
      BY <2>2 DEF FreshOf, Pending, Marked
    <3>1. /\ forge[h[q].new] = "live" /\ sessionRooms[h[q].new] = NoRoom
          /\ h[q].new \in Sessions /\ h[q].new # NoSession /\ h[q].new # n
          /\ \A t \in Handlers :
               h[q].new \notin Marked(t) /\ (t # q => h[t].new # h[q].new)
      BY <1>1 DEF Sound, Hands, FreshOf, Pending, TypeOK, Commands
    <3>2. ASSUME NEW t \in Handlers
          PROVE  h[q].new \notin Marked(t)' /\ (t # q => h'[t].new # h[q].new)
      <4>1. CASE t = p BY <1>2, <3>1, <4>1
      <4>2. CASE t # p BY <3>1, <4>2 DEF Marked
      <4>3. QED BY <4>1, <4>2
    <3>3. QED BY <1>1, <3>1, <3>2
  <2>3. QED BY <2>1, <2>2
<1>6. ASSUME NEW q \in Handlers PROVE DroppedOf(q)'
  <2>1. CASE q = p BY <2>1 DEF DroppedOf, Idle
  <2>2. CASE q # p BY <2>2 DEF DroppedOf, Sound, Hands
  <2>3. QED BY <2>1, <2>2
<1>7. Quiet' BY QuietKept DEF At
<1>8. QED BY <1>3, <1>5, <1>6, <1>7 DEF Hands

\* ... and by a command at any other of its steps.
LEMMA HandsCommand ==
    ASSUME Sound, NEW p \in Handlers, Command(p)
    PROVE  Hands'
<1> USE DEF bindVars, procVars
<1>0. /\ TypeOK /\ Shape /\ ShapeOf(p) /\ h[p] \in Commands /\ h[p].pc # "idle"
      /\ running' = running /\ Quiet' /\ DroppedOf(p)
  <2>1. h[p].pc # "idle" /\ running' = running
    BY DEF Command, At, EnsureProfile, GetSession, CreateSession, CreateSessionRoom,
       Undo, InsertBinding, SavePortal, Track, RetireSession, DropBinding,
       DeletePortal, Forget
  <2>2. QED BY <2>1, QuietKept DEF Sound, Shape, TypeOK, Hands
\* What a command does to forge, the map and the portals, if it gives up the
\* session it holds (keeps = FALSE) or holds on to it.
<1> DEFINE Touches(keeps) ==
      /\ \A s \in Sessions : forge'[s] = "unborn" => forge[s] = "unborn"
      /\ \A s \in Sessions : \/ forge'[s] = forge[s]
                             \/ s \in Marked(p)
                             \/ s = h[p].new /\ ~keeps
      /\ \A s \in Sessions : \/ sessionRooms'[s] \in {sessionRooms[s], NoRoom}
                             \/ s = h[p].new /\ Pending(p) /\ ~keeps
      /\ \A s \in Sessions : portals'[s] \in {portals[s], NoRoom} \/ s = h[p].new
<1>1. ASSUME Finish(p), Touches(FALSE) PROVE Hands'
  <2>1. h'[p] = Idle /\ \A q \in Handlers : q # p => h'[q] = h[q]
    BY <1>0, <1>1, FinishMoves
  <2>2. /\ h'[p].new = NoSession /\ Marked(p)' = {NoSession} /\ ~Pending(p)'
        /\ DroppedOf(p)'
    BY <2>1 DEF Idle, Marked, Pending, DroppedOf
  <2>3. QED BY <1>0, <1>1, <2>1, <2>2, HandsMove
<1>2. ASSUME NEW step \in Steps, Goto(p, step), Touches(step \in Holding),
             step \in Holding => Pending(p) \/ h[p].new = NoSession,
             step \in {"erase", "forget"} => sessionRooms'[h[p].old] = NoRoom
      PROVE  Hands'
  <2>1. h'[p].pc = step /\ h'[p].new = h[p].new /\ h'[p].old = h[p].old
        /\ h'[p].todo = h[p].todo /\ \A q \in Handlers : q # p => h'[q] = h[q]
    BY <1>0, <1>2, GotoMoves
  <2>2. Marked(p)' = Marked(p) BY <2>1 DEF Marked
  <2>3. Pending(p)' => Pending(p) BY <1>2, <2>1 DEF Pending
  <2>4. DroppedOf(p)' BY <1>2, <2>1 DEF DroppedOf
  <2>5. step \notin Holding => ~Pending(p)' BY <2>1 DEF Pending
  <2>6. QED BY <1>0, <1>2, <2>1, <2>2, <2>3, <2>4, <2>5, HandsMove
<1>3. ASSUME NextToStop(p, h[p].todo), h[p].cmd = "stop", h[p].pc \in Ending,
             Touches(TRUE)
      PROVE  Hands'
  <2>1. h[p].todo \in SUBSET Sessions /\ h[p].new = NoSession
    BY <1>0, <1>3 DEF Commands, ShapeOf
  <2>2. /\ \A q \in Handlers : q # p => h'[q] = h[q]
        /\ \/ h'[p] = Idle
           \/ /\ h'[p].pc = "retire" /\ h'[p].new = NoSession
              /\ h'[p].old \in h[p].todo /\ h'[p].todo = h[p].todo \ {h'[p].old}
    BY <1>0, <1>3, <2>1, NextToStopShape
  <2>3. /\ h'[p].new = NoSession /\ ~Pending(p)' /\ DroppedOf(p)'
        /\ \A s \in Marked(p)' : s \in Marked(p) \/ s = NoSession
    BY <2>2 DEF Idle, Marked, Pending, DroppedOf
  <2>4. QED BY <1>0, <1>3, <2>2, <2>3, HandsMove
<1>4. ASSUME forge' = forge, sessionRooms' = sessionRooms,
             \A s \in Sessions : portals'[s] \in {portals[s], NoRoom} \/ s = h[p].new
      PROVE  Touches(TRUE) /\ Touches(FALSE)
  BY <1>4
<1>5. ASSUME NEW s \in Sessions, NEW known \in BOOLEAN, DeleteSession(s, known)
      PROVE  /\ \A t \in Sessions : t # s => forge'[t] = forge[t]
             /\ \A t \in Sessions : forge'[t] = "unborn" => forge[t] = "unborn"
  BY <1>0, <1>5, DeleteTypes
<1>6. CASE EnsureProfile(p)
  <2>1. h[p].new = NoSession BY <1>0, <1>6 DEF EnsureProfile, At, ShapeOf
  <2>2. QED
    BY <1>1, <1>2, <1>4, <1>6, <2>1 DEF EnsureProfile, Steps, Holding, Ending
<1>7. CASE GetSession(p)
  <2>1. h[p].new = NoSession BY <1>0, <1>7 DEF GetSession, At, ShapeOf
  <2>2. QED BY <1>1, <1>2, <1>4, <1>7, <2>1 DEF GetSession, Steps, Holding, Ending
<1>8. CASE CreateSession(p)
  <2>1. ASSUME NEW n \in Sessions, Make(p, n),
               h' = [h EXCEPT ![p] = [@ EXCEPT !.pc = AfterCreate(p), !.new = n]]
        PROVE  Hands'
    <3>1. h'[p] = [h[p] EXCEPT !.pc = AfterCreate(p), !.new = n]
          /\ \A q \in Handlers : q # p => h'[q] = h[q]
      BY <1>0, <2>1 DEF TypeOK
    <3>2. AfterCreate(p) \in {"retire", "room", "insert"} BY DEF AfterCreate
    <3>3. h'[p].pc = AfterCreate(p) /\ h'[p].new = n /\ Marked(p)' = Marked(p)
          /\ h'[p] \in Commands
      BY <1>0, <3>1, <3>2 DEF Commands, Steps, Marked
    <3>4. h' \in [Handlers -> Commands] BY <1>0, <2>1, <3>1, <3>3 DEF TypeOK
    <3>5. QED BY <1>0, <1>8, <2>1, <3>1, <3>2, <3>3, <3>4, HandsCreate DEF CreateSession
  <2>2. ASSUME NEW n \in Sessions, Make(p, n), Finish(p) PROVE Hands'
    BY <1>0, <1>8, <2>2, FinishMoves, HandsCreate DEF CreateSession
  <2>3. ASSUME Finish(p), UNCHANGED forge PROVE Hands'
    BY <1>1, <1>4, <1>8, <2>3 DEF CreateSession
  <2>4. QED BY <1>8, <2>1, <2>2, <2>3 DEF CreateSession
<1>9. CASE CreateSessionRoom(p)
  <2>1. Pending(p) /\ At(p, "room") /\ Touches(TRUE)
    BY <1>0, <1>4, <1>9, NullAssumption
    DEF CreateSessionRoom, At, ShapeOf, Pending, Holding
  <2>2. ASSUME NEW r \in Rooms,
               h' = [h EXCEPT ![p] = [@ EXCEPT !.pc = "insert", !.room = r]]
        PROVE  Hands'
    <3>1. h'[p] = [h[p] EXCEPT !.pc = "insert", !.room = r]
          /\ \A q \in Handlers : q # p => h'[q] = h[q]
      BY <1>0, <2>2 DEF TypeOK
    <3>2. h'[p].pc = "insert" /\ h'[p].new = h[p].new /\ Marked(p)' = Marked(p)
      BY <1>0, <3>1 DEF Commands, Marked
    <3>3. DroppedOf(p)' BY <3>2 DEF DroppedOf
    <3>4. QED BY <1>0, <2>1, <3>1, <3>2, <3>3, HandsMove
  <2>3. CASE Goto(p, "undo") BY <1>2, <2>1, <2>3 DEF Steps, Holding, Ending
  <2>4. QED BY <1>9, <2>2, <2>3 DEF CreateSessionRoom
<1>10. CASE Undo(p)
  <2>1. h[p].new \in Sessions BY <1>0, <1>10 DEF Undo, At, ShapeOf
  <2>2. PICK known \in BOOLEAN : DeleteSession(h[p].new, known)
    BY <1>10 DEF Undo
  <2>3. Touches(FALSE) BY <1>5, <1>10, <2>1, <2>2 DEF Undo
  <2>4. QED BY <1>1, <1>10, <2>3 DEF Undo
<1>11. CASE InsertBinding(p)
  <2>1. Pending(p)
    BY <1>0, <1>11, NullAssumption DEF InsertBinding, At, ShapeOf, Pending, Holding
  <2>2. Touches(FALSE) BY <1>0, <1>11, <2>1 DEF InsertBinding, TypeOK
  <2>3. QED BY <1>2, <1>11, <2>2 DEF InsertBinding, Steps, Holding, Ending
<1>12. CASE SavePortal(p)
  <2>1. Touches(FALSE) BY <1>0, <1>4, <1>12 DEF SavePortal, TypeOK
  <2>2. QED BY <1>2, <1>12, <2>1 DEF SavePortal, Steps, Holding, Ending
<1>13. CASE Track(p) BY <1>1, <1>4, <1>13 DEF Track
<1>14. CASE RetireSession(p)
  <2>1. PICK known \in BOOLEAN :
          /\ DeleteSession(h[p].old, known)
          /\ IF known \/ h[p].cmd = "new"
               THEN Goto(p, "drop") ELSE NextToStop(p, h[p].todo)
    BY <1>14 DEF RetireSession
  <2>2. h[p].old \in Sessions /\ h[p].cmd \in {"new", "stop"} /\ h[p].pc = "retire"
    BY <1>0, <1>14 DEF RetireSession, At, ShapeOf, Ending
  <2>3. Touches(TRUE) BY <1>5, <1>14, <2>1, <2>2 DEF RetireSession, Marked
  <2>4. CASE Goto(p, "drop")
    BY <1>2, <2>2, <2>3, <2>4 DEF Steps, Holding, Ending, Pending
  <2>5. CASE h[p].cmd # "new" /\ NextToStop(p, h[p].todo)
    BY <1>3, <2>2, <2>3, <2>5 DEF Ending
  <2>6. QED BY <2>1, <2>4, <2>5
<1>15. CASE DropBinding(p)
  <2>1. h[p].old \in Sessions /\ h[p].pc = "drop"
    BY <1>0, <1>15 DEF DropBinding, At, ShapeOf, Ending
  <2>2. Touches(TRUE) /\ sessionRooms'[h[p].old] = NoRoom
    BY <1>0, <1>15, <2>1 DEF DropBinding, TypeOK
  <2>3. QED BY <1>2, <1>15, <2>1, <2>2 DEF DropBinding, Steps, Holding, Ending, Pending
<1>16. CASE DeletePortal(p)
  <2>1. Touches(TRUE) BY <1>0, <1>4, <1>16 DEF DeletePortal, TypeOK
  <2>2. sessionRooms'[h[p].old] = NoRoom /\ h[p].pc = "erase"
    BY <1>0, <1>16 DEF DeletePortal, DroppedOf, At
  <2>3. QED BY <1>2, <1>16, <2>1, <2>2 DEF DeletePortal, Steps, Holding, Ending, Pending
<1>17. CASE Forget(p)
  <2>1. Touches(TRUE) /\ h[p].pc = "forget" /\ h[p].cmd \in {"new", "stop"}
    BY <1>0, <1>4, <1>17 DEF Forget, At, ShapeOf, Ending
  <2>2. CASE h[p].cmd = "new"
    BY <1>2, <1>17, <2>1, <2>2 DEF Forget, Steps, Holding, Ending, Pending
  <2>3. CASE h[p].cmd = "stop"
    BY <1>3, <1>17, <2>1, <2>3 DEF Forget, Ending
  <2>4. QED BY <2>1, <2>2, <2>3
<1>18. QED
  BY <1>6, <1>7, <1>8, <1>9, <1>10, <1>11, <1>12, <1>13, <1>14, <1>15, <1>16, <1>17
  DEF Command

\* What the commands have in hand: the strengthening the theorems below share.
LEMMA HandsInit == Init => Hands
BY NullAssumption
DEF Init, Hands, UnbornIsUnknown, Marked, FreshOf, DroppedOf, Pending, Quiet, Idle

LEMMA HandsStep == Sound /\ [Next]_vars => Hands'
<1> SUFFICES ASSUME Sound, [Next]_vars PROVE Hands' OBVIOUS
<1>1. CASE UNCHANGED vars
  BY <1>1
  DEF vars, bindVars, procVars, Sound, Hands, UnbornIsUnknown, Marked, FreshOf,
      DroppedOf, Pending, Quiet
<1>2. QED BY <1>1, HandsProcess, HandsRequest, HandsCommand DEF Next

\* New sessions stay with the command that made them until it binds them, and
\* what a command has dropped keeps no room.
THEOREM SoundHands == Spec => []Sound
<1>1. Init => Sound BY ShapeInit, HandsInit DEF Sound
<1>2. Sound /\ [Next]_vars => Sound' BY ShapeStep, HandsStep DEF Sound
<1>3. QED BY <1>1, <1>2, PTL DEF Spec

-----------------------------------------------------------------------------
(* What a room is bound to has an event stream *)

\* Requests and commands are steps of one goroutine.
LEMMA OthersStay ==
    ASSUME Sound, NEW p \in Handlers, Request(p) \/ Command(p)
    PROVE  /\ \A q \in Handlers : q # p => h'[q] = h[q]
           /\ running = "up" /\ running' = running /\ crashes' = crashes
<1> USE DEF bindVars, procVars, Sound, TypeOK
<1>1. CASE Request(p)
  BY <1>1 DEF Request, StartInDM, StopInDM, NewInRoom, StartInRoom, Begins
<1>2. CASE Command(p)
  <2>1. /\ h[p].pc # "idle" /\ running' = running /\ crashes' = crashes
        /\ \A q \in Handlers : q # p => h'[q] = h[q]
    BY <1>2
    DEF Command, At, Goto, Finish, NextToStop, EnsureProfile, GetSession,
        CreateSession, CreateSessionRoom, Undo, InsertBinding, SavePortal, Track,
        RetireSession, DropBinding, DeletePortal, Forget
  <2>2. QED BY <2>1, QuietKept
<1>3. QED BY <1>1, <1>2

\* A step of p keeps the streams, if it maps only what it is about to track,
\* gives up only streams of sessions without a room, and does track what it
\* was about to.
LEMMA StreamsMove ==
    ASSUME Streams, running = "up", running' = "up", NEW p \in Handlers,
           \A q \in Handlers : q # p => h'[q] = h[q],
           \A s \in Mapped' : \/ s \in Mapped
                              \/ s = h'[p].new /\ h'[p].pc \in {"save", "track"},
           \A s \in tracked : s \in tracked' \/ s \notin Mapped',
           h[p].pc \in {"save", "track"} =>
             \/ h[p].new \in tracked'
             \/ h'[p].new = h[p].new /\ h'[p].pc \in {"save", "track"}
    PROVE  Streams'
<1> SUFFICES ASSUME NEW s \in Mapped', s \notin tracked' PROVE Tracking(s)'
  BY DEF Streams, BoundIsTracked
<1>1. CASE s \notin Mapped BY <1>1 DEF Tracking
<1>2. CASE s \in Mapped
  <2>1. PICK q \in Handlers : h[q].new = s /\ h[q].pc \in {"save", "track"}
    BY <1>2 DEF Streams, BoundIsTracked, Tracking
  <2>2. h'[q].new = s /\ h'[q].pc \in {"save", "track"} BY <2>1
  <2>3. QED BY <2>2 DEF Tracking
<1>3. QED BY <1>1, <1>2

LEMMA StreamsStep == Sound /\ Streams /\ [Next]_vars => Streams'
<1> SUFFICES ASSUME Sound, Streams, [Next]_vars PROVE Streams' OBVIOUS
<1> USE DEF bindVars, procVars
<1>1. CASE UNCHANGED vars
  BY <1>1 DEF vars, Streams, BoundIsTracked, Mapped, Tracking
<1>2. CASE Boot BY <1>2 DEF Boot, Streams, BoundIsTracked, Mapped
<1>3. CASE Serve BY <1>3 DEF Serve, Streams, BoundIsTracked, Mapped
<1>4. CASE Crash BY <1>4 DEF Crash, Streams, BoundIsTracked, Mapped
<1>5. ASSUME NEW s \in Sessions, Retrack(s) PROVE Streams'
  BY <1>5 DEF Retrack, Streams, BoundIsTracked, Mapped
<1>6. ASSUME NEW p \in Handlers, Request(p) PROVE Streams'
  <2>1. h[p].pc = "idle" /\ sessionRooms' = sessionRooms /\ tracked' = tracked
    BY <1>6 DEF Request, StartInDM, StopInDM, NewInRoom, StartInRoom, Begins, At
  <2>2. Mapped' = Mapped BY <2>1 DEF Mapped
  <2>3. QED BY <1>6, <2>1, <2>2, OthersStay, StreamsMove
<1>7. ASSUME NEW p \in Handlers, Command(p) PROVE Streams'
  <2>0. /\ TypeOK /\ ShapeOf(p) /\ DroppedOf(p) /\ h[p] \in Commands
        /\ running = "up" /\ running' = "up"
        /\ \A q \in Handlers : q # p => h'[q] = h[q]
    BY <1>7, OthersStay DEF Sound, TypeOK, Shape, Hands
  <2>1. ASSUME sessionRooms' = sessionRooms, tracked' = tracked,
               h[p].pc \notin {"save", "track"}
        PROVE  Streams'
    <3>1. Mapped' = Mapped BY <2>1 DEF Mapped
    <3>2. QED BY <2>0, <2>1, <3>1, StreamsMove
  <2>2. CASE InsertBinding(p)
    <3>1. Goto(p, "save") /\ h[p].pc = "insert" /\ tracked' = tracked
          /\ sessionRooms' = [sessionRooms EXCEPT ![h[p].new] = h[p].room]
      BY <2>2 DEF InsertBinding, At
    <3>2. h'[p].pc = "save" /\ h'[p].new = h[p].new
      BY <2>0, <3>1, GotoMoves DEF Steps
    <3>3. \A s \in Mapped' : s \in Mapped \/ s = h[p].new
      BY <2>0, <3>1 DEF Mapped, TypeOK
    <3>4. QED BY <2>0, <3>1, <3>2, <3>3, StreamsMove
  <2>3. CASE SavePortal(p)
    <3>1. Goto(p, "track") /\ tracked' = tracked /\ sessionRooms' = sessionRooms
      BY <2>3 DEF SavePortal
    <3>2. h'[p].pc = "track" /\ h'[p].new = h[p].new
      BY <2>0, <3>1, GotoMoves DEF Steps
    <3>3. Mapped' = Mapped BY <3>1 DEF Mapped
    <3>4. QED BY <2>0, <3>1, <3>2, <3>3, StreamsMove
  <2>4. CASE Track(p)
    <3>1. tracked' = tracked \cup {h[p].new} /\ sessionRooms' = sessionRooms
      BY <2>4 DEF Track
    <3>2. Mapped' = Mapped BY <3>1 DEF Mapped
    <3>3. QED BY <2>0, <3>1, <3>2, StreamsMove
  <2>5. CASE DropBinding(p)
    <3>1. h[p].pc = "drop" /\ tracked' = tracked
          /\ sessionRooms' = [sessionRooms EXCEPT ![h[p].old] = NoRoom]
      BY <2>5 DEF DropBinding, At
    <3>2. \A s \in Mapped' : s \in Mapped
      BY <2>0, <3>1 DEF Mapped, TypeOK
    <3>3. QED BY <2>0, <3>1, <3>2, StreamsMove
  <2>6. CASE Forget(p)
    <3>1. h[p].pc = "forget" /\ tracked' = tracked \ {h[p].old}
          /\ sessionRooms' = sessionRooms
      BY <2>6 DEF Forget, At
    <3>2. Mapped' = Mapped /\ h[p].old \notin Mapped
      BY <2>0, <3>1 DEF Mapped, DroppedOf
    <3>3. QED BY <2>0, <3>1, <3>2, StreamsMove
  <2>7. CASE \/ EnsureProfile(p) \/ GetSession(p) \/ CreateSession(p)
             \/ CreateSessionRoom(p) \/ Undo(p) \/ RetireSession(p)
             \/ DeletePortal(p)
    BY <2>1, <2>7
    DEF EnsureProfile, GetSession, CreateSession, CreateSessionRoom, Undo,
        RetireSession, DeletePortal, At
  <2>8. QED
    BY <1>7, <2>2, <2>3, <2>4, <2>5, <2>6, <2>7 DEF Command
<1>8. QED BY <1>1, <1>2, <1>3, <1>4, <1>5, <1>6, <1>7 DEF Next, Process

\* Whatever a room is bound to has its event stream or is about to get it, in
\* every interleaving of the commands and after every restart.
THEOREM BoundSessionsTracked == Spec => []BoundIsTracked
<1>1. Init => Sound /\ Streams
  BY ShapeInit, HandsInit DEF Init, Sound, Streams, BoundIsTracked, Mapped
<1>2. (Sound /\ Streams) /\ [Next]_vars => (Sound /\ Streams)'
  BY ShapeStep, HandsStep, StreamsStep DEF Sound
<1>3. Sound /\ Streams => BoundIsTracked BY DEF Streams
<1>4. QED BY <1>1, <1>2, <1>3, PTL DEF Spec

-----------------------------------------------------------------------------
(* Who takes a live session away from a room *)

LEMMA LossStep ==
    ASSUME Sound, Streams, [Next]_vars, NEW r \in Rooms, Served(r), ~Served(r)'
    PROVE  \/ running' = "down"
           \/ \E p \in Handlers : Retires(p, r) /\ h'[p] # h[p]
<1> USE DEF bindVars, procVars
<1>1. PICK s \in Sessions : sessionRooms[s] = r /\ forge[s] = "live"
  BY DEF Served, BoundTo
<1>2. sessionRooms'[s] = r /\ forge'[s] = "live" => FALSE
  BY DEF Served, BoundTo
<1>3. s \in Mapped BY <1>1, NullAssumption DEF Mapped
<1>4. ~(UNCHANGED <<sessionRooms, forge>>) BY <1>1, <1>2
<1>5. CASE UNCHANGED vars BY <1>4, <1>5 DEF vars
<1>6. CASE Process
  <2>1. CASE Boot BY <1>3, <2>1 DEF Boot, Streams
  <2>2. CASE Crash BY <2>2 DEF Crash
  <2>3. CASE Serve \/ \E t \in Sessions : Retrack(t)
    BY <1>4, <2>3 DEF Serve, Retrack
  <2>4. QED BY <1>6, <2>1, <2>2, <2>3 DEF Process
<1>7. ASSUME NEW p \in Handlers, Request(p) PROVE FALSE
  BY <1>4, <1>7 DEF Request, StartInDM, StopInDM, NewInRoom, StartInRoom
<1>8. ASSUME NEW p \in Handlers, Command(p) PROVE Retires(p, r) /\ h'[p] # h[p]
  <2>0. TypeOK /\ ShapeOf(p) /\ FreshOf(p) /\ h[p] \in Commands
    BY DEF Sound, TypeOK, Shape, Hands
  <2>1. Pending(p) => forge[h[p].new] = "live" /\ h[p].new # s
    BY <1>3, <2>0 DEF FreshOf, Mapped
  <2>2. CASE CreateSession(p)
    BY <1>1, <1>2, <2>0, <2>2 DEF CreateSession, Make, TypeOK
  <2>3. CASE Undo(p)
    <3>1. h[p].new \in Sessions /\ h[p].new # s
      BY <2>0, <2>1, <2>3, NullAssumption DEF Undo, At, ShapeOf, Pending, Holding
    <3>2. forge'[s] = forge[s] BY <2>0, <2>3, <3>1, DeleteTypes DEF Undo
    <3>3. QED BY <1>1, <1>2, <2>3, <3>2 DEF Undo
  <2>4. CASE InsertBinding(p)
    <3>1. h[p].new # s
      BY <2>0, <2>1, <2>4, NullAssumption
      DEF InsertBinding, At, ShapeOf, Pending, Holding
    <3>2. QED BY <1>1, <1>2, <2>0, <2>4, <3>1 DEF InsertBinding, TypeOK
  <2>5. ASSUME h[p].pc \in {"retire", "drop"}, h[p].old = s PROVE Retires(p, r)
    <3>1. h[p].cmd = "stop" \/ (h[p].new \in Sessions /\ forge[h[p].new] = "live")
      BY <2>0, <2>1, <2>5, NullAssumption DEF ShapeOf, Ending, Pending, Holding
    <3>2. QED BY <1>1, <2>5, <3>1 DEF Retires, BoundTo
  <2>6. CASE RetireSession(p)
    <3>1. PICK known \in BOOLEAN :
            /\ DeleteSession(h[p].old, known)
            /\ IF known \/ h[p].cmd = "new"
                 THEN Goto(p, "drop") ELSE NextToStop(p, h[p].todo)
      BY <2>6 DEF RetireSession
    <3>2. h[p].pc = "retire" /\ h[p].old \in Sessions
          /\ (h[p].cmd # "new" => h[p].new = NoSession /\ h[p].cmd = "stop")
      BY <2>0, <2>6 DEF RetireSession, At, ShapeOf, Ending
    <3>3. h[p].old = s
      BY <1>1, <1>2, <2>0, <2>6, <3>1, <3>2, DeleteTypes DEF RetireSession
    <3>4. h'[p] # h[p]
      <4>1. CASE Goto(p, "drop")
        BY <2>0, <3>2, <4>1, GotoMoves DEF Steps
      <4>2. CASE h[p].cmd # "new" /\ NextToStop(p, h[p].todo)
        <5>1. h[p].todo \in SUBSET Sessions BY <2>0 DEF Commands
        <5>2. \/ h'[p] = Idle
              \/ h'[p].old \in h[p].todo /\ h'[p].todo = h[p].todo \ {h'[p].old}
          BY <2>0, <3>2, <4>2, <5>1, NextToStopShape
        <5>3. QED BY <3>2, <5>2 DEF Idle
      <4>3. QED BY <3>1, <4>1, <4>2
    <3>5. QED BY <2>5, <3>2, <3>3, <3>4
  <2>7. CASE DropBinding(p)
    <3>1. h[p].pc = "drop" /\ Goto(p, "erase") BY <2>7 DEF DropBinding, At
    <3>2. h'[p] # h[p] BY <2>0, <3>1, GotoMoves DEF Steps
    <3>3. h[p].old = s BY <1>1, <1>2, <2>0, <2>7 DEF DropBinding, TypeOK
    <3>4. QED BY <2>5, <3>1, <3>2, <3>3
  <2>8. CASE \/ EnsureProfile(p) \/ GetSession(p) \/ CreateSessionRoom(p)
             \/ SavePortal(p) \/ Track(p) \/ DeletePortal(p) \/ Forget(p)
    BY <1>4, <2>8
    DEF EnsureProfile, GetSession, CreateSessionRoom, SavePortal, Track,
        DeletePortal, Forget
  <2>9. QED BY <1>8, <2>2, <2>3, <2>4, <2>6, <2>7, <2>8 DEF Command
<1>9. QED BY <1>5, <1>6, <1>7, <1>8 DEF Next

\* "Create the new session first, then delete the old" (handleNewCommand): for
\* any commands in flight and any failures, a room loses its live session only
\* to /stop, to a /new that has a live replacement, or to the end of the process.
THEOREM RoomsLostOnlyForReplacement == Spec => LostOnlyForReplacement
<1>1. Init => Sound /\ Streams
  BY ShapeInit, HandsInit DEF Init, Sound, Streams, BoundIsTracked, Mapped
<1>2. (Sound /\ Streams) /\ [Next]_vars => (Sound /\ Streams)'
  BY ShapeStep, HandsStep, StreamsStep DEF Sound
<1>3. Sound /\ Streams /\ [Next]_vars =>
        [\A r \in Rooms : Served(r) /\ ~Served(r)' =>
           \/ running' = "down"
           \/ \E p \in Handlers : Retires(p, r) /\ h'[p] # h[p]]_vars
  BY LossStep
<1>4. QED BY <1>1, <1>2, <1>3, PTL DEF Spec, LostOnlyForReplacement

-----------------------------------------------------------------------------
(* What a restart finds in the store *)

\* No two commands hold one new session.
OneMaker ==
    \A p, q \in Handlers : p # q /\ h[p].new # NoSession => h[q].new # h[p].new

\* A session that is about to be saved is bound to the room of its command, or
\* has lost it to a /stop.
BoundAsSaved ==
    \A p \in Handlers :
        At(p, "save") => sessionRooms[h[p].new] \in {h[p].room, NoRoom}

\* Until then the store has no portal of it.
Unsaved ==
    \A p \in Handlers : Pending(p) \/ At(p, "save") => portals[h[p].new] = NoRoom

Ledger == OneMaker /\ BoundAsSaved /\ Unsaved /\ BindingIsSaved

\* A step of p keeps the ledger, if p shares no new session, erases only
\* portals of sessions without a room, binds only the session it held and goes
\* on to save it, and does save what it was about to unless that fails.
LEMMA LedgerMove ==
    ASSUME Sound, Ledger, NEW p \in Handlers,
           \A q \in Handlers : q # p => h'[q] = h[q],
           h'[p].new # NoSession =>
             \A q \in Handlers : q # p => h[q].new # h'[p].new,
           \A s \in Sessions :
             \/ portals'[s] = portals[s]
             \/ portals'[s] = NoRoom /\ s \notin Mapped'
             \/ At(p, "save") /\ s = h[p].new /\ portals'[s] = h[p].room,
           \A s \in Sessions :
             \/ sessionRooms'[s] \in {sessionRooms[s], NoRoom}
             \/ /\ Pending(p) /\ s = h[p].new /\ sessionRooms'[s] = h[p].room
                /\ At(p, "save")',
           At(p, "save")' => /\ At(p, "insert") /\ h'[p].new = h[p].new
                             /\ h'[p].room = h[p].room,
           Pending(p)' =>
             \/ Pending(p) /\ h'[p].new = h[p].new
             \/ portals'[h'[p].new] = NoRoom,
           At(p, "save") => failures' # 0 \/ portals'[h[p].new] = h[p].room,
           failures' = 0 => failures = 0
    PROVE  Ledger'
<1>0. /\ \A q \in Handlers : ShapeOf(q) /\ FreshOf(q) /\ h[q] \in Commands
      /\ \A q \in Handlers : At(q, "save") => h[q].new \in Sessions
      /\ \A q \in Handlers : Pending(q) => h[q].new \in Sessions
      /\ At(p, "insert") => Pending(p)
  BY NullAssumption
  DEF Sound, Shape, ShapeOf, Hands, TypeOK, Commands, Pending, Holding, At
<1>1. OneMaker' BY DEF Ledger, OneMaker
<1>2. ASSUME NEW q \in Handlers, At(q, "save")'
      PROVE  sessionRooms'[h'[q].new] \in {h'[q].room, NoRoom}
  <2>1. CASE q = p
    <3>1. Pending(p) /\ h'[p].new = h[p].new /\ h'[p].room = h[p].room
      BY <1>0, <1>2, <2>1
    <3>2. sessionRooms[h[p].new] = NoRoom BY <1>0, <3>1 DEF FreshOf
    <3>3. QED BY <1>0, <2>1, <3>1, <3>2
  <2>2. CASE q # p
    <3>1. At(q, "save") /\ h'[q] = h[q] BY <1>2, <2>2 DEF At
    <3>2. sessionRooms[h[q].new] \in {h[q].room, NoRoom} /\ h[q].new \in Sessions
      BY <1>0, <3>1 DEF Ledger, BoundAsSaved
    <3>3. Pending(p) => h[q].new # h[p].new
      BY <2>2 DEF Ledger, OneMaker, Pending
    <3>4. QED BY <3>1, <3>2, <3>3
  <2>3. QED BY <2>1, <2>2
<1>3. ASSUME NEW q \in Handlers, (Pending(q) \/ At(q, "save"))'
      PROVE  portals'[h'[q].new] = NoRoom
  <2>1. CASE q = p /\ (Pending(p)' => Pending(p) /\ h'[p].new = h[p].new)
    <3>1. Pending(p) /\ h'[p].new = h[p].new BY <1>0, <1>3, <2>1
    <3>2. portals[h[p].new] = NoRoom BY <3>1 DEF Ledger, Unsaved
    <3>3. ~At(p, "save") BY <3>1 DEF Pending, Holding, Ending, At
    <3>4. QED BY <1>0, <2>1, <3>1, <3>2, <3>3
  <2>2. CASE q = p /\ portals'[h'[p].new] = NoRoom BY <2>2
  <2>3. CASE q # p
    <3>1. h'[q] = h[q] /\ (Pending(q) \/ At(q, "save"))
      BY <1>3, <2>3 DEF At, Pending
    <3>2. portals[h[q].new] = NoRoom /\ h[q].new \in Sessions
      BY <1>0, <3>1 DEF Ledger, Unsaved
    <3>3. At(p, "save") => h[q].new # h[p].new
      BY <1>0, <2>3, NullAssumption DEF Ledger, OneMaker
    <3>4. QED BY <3>1, <3>2, <3>3
  <2>4. QED BY <2>1, <2>2, <2>3
<1>4. ASSUME failures' = 0, NEW s \in Sessions, s \in Mapped'
      PROVE  portals'[s] = sessionRooms'[s] \/ Saving(s)'
  <2>1. CASE s \notin Mapped
    <3>1. s = h[p].new /\ Pending(p) /\ At(p, "save")'
      BY <1>4, <2>1 DEF Mapped
    <3>2. h'[p].new = s BY <3>1
    <3>3. QED BY <3>1, <3>2 DEF Saving, At
  <2>2. CASE s \in Mapped
    <3>1. sessionRooms'[s] = sessionRooms[s]
      BY <1>0, <1>4, <2>2 DEF Mapped, FreshOf
    <3>2. At(p, "save") /\ s = h[p].new => sessionRooms[s] = h[p].room
      BY <2>2 DEF Ledger, BoundAsSaved, Mapped
    <3>3. CASE portals[s] = sessionRooms[s]
      BY <1>4, <3>1, <3>2, <3>3
    <3>4. CASE Saving(s)
      <4>1. PICK q \in Handlers : h[q].new = s /\ At(q, "save")
        BY <3>4 DEF Saving
      <4>2. CASE q = p BY <1>4, <3>1, <3>2, <4>1, <4>2
      <4>3. CASE q # p BY <4>1, <4>3 DEF Saving, At
      <4>4. QED BY <4>2, <4>3
    <3>5. QED BY <1>4, <2>2, <3>3, <3>4 DEF Ledger, BindingIsSaved
  <2>3. QED BY <2>1, <2>2
<1>5. BoundAsSaved' /\ Unsaved' BY <1>2, <1>3 DEF BoundAsSaved, Unsaved
<1>6. BindingIsSaved'
  <2>1. \A s \in Mapped' : s \in Sessions BY DEF Mapped
  <2>2. QED BY <1>4, <2>1 DEF BindingIsSaved
<1>7. QED BY <1>1, <1>5, <1>6 DEF Ledger

\* A command that makes no session keeps the one it has until it ends, does not
\* come to hold one, and comes to save one only by binding it.
LEMMA CommandHolds ==
    ASSUME Sound, NEW p \in Handlers, Command(p), ~CreateSession(p)
    PROVE  /\ h'[p].new \in {h[p].new, NoSession}
           /\ Pending(p)' => Pending(p)
           /\ At(p, "save")' => InsertBinding(p) /\ h'[p].room = h[p].room
<1>0. TypeOK /\ ShapeOf(p) /\ h[p] \in Commands
  BY DEF Sound, TypeOK, Shape
<1>1. ASSUME Finish(p)
      PROVE  h'[p].new = NoSession /\ ~Pending(p)' /\ ~At(p, "save")'
  BY <1>0, <1>1, FinishMoves DEF Idle, Pending, At
<1>2. ASSUME NEW step \in Steps, Goto(p, step)
      PROVE  h'[p].pc = step /\ h'[p].new = h[p].new /\ h'[p].room = h[p].room
  BY <1>0, <1>2, GotoMoves
<1>3. ASSUME NextToStop(p, h[p].todo), h[p].cmd = "stop", h[p].pc \in Ending
      PROVE  h'[p].new = NoSession /\ ~Pending(p)' /\ ~At(p, "save")'
  <2>1. h[p].todo \in SUBSET Sessions /\ h[p].new = NoSession
    BY <1>0, <1>3, NullAssumption DEF Commands, ShapeOf
  <2>2. h'[p] = Idle \/ (h'[p].pc = "retire" /\ h'[p].new = NoSession)
    BY <1>0, <1>3, <2>1, NextToStopShape
  <2>3. QED BY <2>2 DEF Idle, Pending, At
<1>4. CASE EnsureProfile(p)
  <2>1. h[p].new = NoSession BY <1>0, <1>4 DEF EnsureProfile, At, ShapeOf
  <2>2. QED BY <1>1, <1>2, <1>4, <2>1 DEF EnsureProfile, Steps, Pending, At
<1>5. CASE GetSession(p)
  <2>1. h[p].new = NoSession BY <1>0, <1>5 DEF GetSession, At, ShapeOf
  <2>2. QED BY <1>1, <1>2, <1>5, <2>1 DEF GetSession, Steps, Pending, At
<1>6. CASE CreateSessionRoom(p)
  <2>1. Pending(p)
    BY <1>0, <1>6, NullAssumption DEF CreateSessionRoom, At, ShapeOf, Pending, Holding
  <2>2. ASSUME NEW r \in Rooms,
               h' = [h EXCEPT ![p] = [@ EXCEPT !.pc = "insert", !.room = r]]
        PROVE  h'[p].pc = "insert" /\ h'[p].new = h[p].new
    <3>1. h'[p] = [h[p] EXCEPT !.pc = "insert", !.room = r]
      BY <1>0, <2>2 DEF TypeOK
    <3>2. QED BY <1>0, <3>1 DEF Commands
  <2>3. ASSUME Goto(p, "undo") PROVE h'[p].pc = "undo" /\ h'[p].new = h[p].new
    BY <1>2, <2>3 DEF Steps
  <2>4. h'[p].pc \in {"insert", "undo"} /\ h'[p].new = h[p].new
    BY <1>6, <2>2, <2>3 DEF CreateSessionRoom
  <2>5. QED BY <2>1, <2>4 DEF At
<1>7. CASE Undo(p) \/ Track(p) BY <1>1, <1>7 DEF Undo, Track
<1>8. CASE InsertBinding(p)
  <2>1. h'[p].pc = "save" /\ h'[p].new = h[p].new /\ h'[p].room = h[p].room
    BY <1>2, <1>8 DEF InsertBinding, Steps
  <2>2. QED BY <1>8, <2>1 DEF Pending, Holding, Ending
<1>9. CASE SavePortal(p)
  <2>1. h'[p].pc = "track" /\ h'[p].new = h[p].new
    BY <1>2, <1>9 DEF SavePortal, Steps
  <2>2. QED BY <2>1 DEF Pending, Holding, Ending, At
<1>10. ASSUME NEW step \in Holding, Goto(p, step), h[p].pc \in Ending
       PROVE  /\ h'[p].new = h[p].new /\ (Pending(p)' => Pending(p))
              /\ ~At(p, "save")'
  BY <1>2, <1>10 DEF Holding, Ending, Steps, Pending, At
<1>11. CASE RetireSession(p)
  <2>1. PICK known \in BOOLEAN :
          IF known \/ h[p].cmd = "new"
            THEN Goto(p, "drop") ELSE NextToStop(p, h[p].todo)
    BY <1>11 DEF RetireSession
  <2>2. h[p].pc \in Ending /\ h[p].cmd \in {"new", "stop"}
    BY <1>0, <1>11 DEF RetireSession, At, ShapeOf, Ending
  <2>3. CASE Goto(p, "drop") BY <1>10, <2>2, <2>3 DEF Holding, Ending
  <2>4. CASE h[p].cmd # "new" /\ NextToStop(p, h[p].todo) BY <1>3, <2>2, <2>4
  <2>5. QED BY <2>1, <2>3, <2>4
<1>12. CASE DropBinding(p) BY <1>10, <1>12 DEF DropBinding, Holding, Ending, At
<1>13. CASE DeletePortal(p) BY <1>10, <1>13 DEF DeletePortal, Holding, Ending, At
<1>14. CASE Forget(p)
  <2>1. h[p].pc \in Ending /\ h[p].cmd \in {"new", "stop"}
    BY <1>0, <1>14 DEF Forget, At, ShapeOf, Ending
  <2>2. CASE h[p].cmd = "new"
    BY <1>10, <1>14, <2>1, <2>2 DEF Forget, Holding
  <2>3. CASE h[p].cmd = "stop" BY <1>3, <1>14, <2>1, <2>3 DEF Forget
  <2>4. QED BY <2>1, <2>2, <2>3
<1>15. QED
  BY <1>4, <1>5, <1>6, <1>7, <1>8, <1>9, <1>11, <1>12, <1>13, <1>14 DEF Command

\* The ledger is kept by commands at work ...
LEMMA LedgerCommand ==
    ASSUME Sound, Ledger, NEW p \in Handlers, Command(p)
    PROVE  Ledger'
<1> USE DEF bindVars, procVars
<1>0. /\ TypeOK /\ ShapeOf(p) /\ DroppedOf(p) /\ h[p] \in Commands
      /\ \A q \in Handlers : q # p => h'[q] = h[q]
  BY OthersStay DEF Sound, TypeOK, Shape, Hands
<1>1. ASSUME ~CreateSession(p)
      PROVE  /\ h'[p].new # NoSession =>
                  \A q \in Handlers : q # p => h[q].new # h'[p].new
             /\ Pending(p)' => Pending(p) /\ h'[p].new = h[p].new
  BY <1>1, CommandHolds DEF Ledger, OneMaker, Pending
<1>2. ASSUME ~CreateSession(p), portals' = portals, ~At(p, "save"),
             ~At(p, "save")', failures' = 0 => failures = 0,
             \A s \in Sessions : sessionRooms'[s] \in {sessionRooms[s], NoRoom}
      PROVE  Ledger'
  BY <1>0, <1>1, <1>2, LedgerMove
<1>3. CASE CreateSession(p)
  <2>1. ~At(p, "save") /\ portals' = portals /\ sessionRooms' = sessionRooms
        /\ (failures' = 0 => failures = 0)
    BY <1>0, <1>3, FailCounts DEF CreateSession, At
  <2>2. ASSUME NEW n \in Sessions, Make(p, n),
               h' = [h EXCEPT ![p] = [@ EXCEPT !.pc = AfterCreate(p), !.new = n]]
        PROVE  Ledger'
    <3>1. portals[n] = NoRoom /\ \A q \in Handlers : h[q].new # n
      BY <2>2 DEF Make, Sound, Hands, UnbornIsUnknown
    <3>2. h'[p] = [h[p] EXCEPT !.pc = AfterCreate(p), !.new = n]
      BY <1>0, <2>2 DEF TypeOK
    <3>3. h'[p].new = n /\ h'[p].pc \in {"retire", "room", "insert"}
      BY <1>0, <3>2 DEF Commands, AfterCreate
    <3>4. ~At(p, "save")' BY <3>3 DEF At
    <3>5. QED BY <1>0, <2>1, <3>1, <3>3, <3>4, LedgerMove
  <2>3. ASSUME Finish(p) PROVE Ledger'
    <3>1. h'[p].new = NoSession /\ ~Pending(p)' /\ ~At(p, "save")'
      BY <1>0, <2>3, FinishMoves DEF Idle, Pending, At
    <3>2. QED BY <1>0, <2>1, <3>1, LedgerMove
  <2>4. QED BY <1>3, <2>2, <2>3 DEF CreateSession
<1>4. CASE InsertBinding(p)
  <2>1. At(p, "insert") /\ ~CreateSession(p) /\ ~At(p, "save") /\ Goto(p, "save")
        /\ portals' = portals /\ failures' = failures
        /\ sessionRooms' = [sessionRooms EXCEPT ![h[p].new] = h[p].room]
    BY <1>4 DEF InsertBinding, CreateSession, At
  <2>2. h[p].new \in Sessions /\ Pending(p)
    BY <1>0, <2>1, NullAssumption DEF At, ShapeOf, Pending, Holding
  <2>3. At(p, "save")' /\ h'[p].new = h[p].new /\ h'[p].room = h[p].room
    BY <1>0, <2>1, GotoMoves DEF Steps, At
  <2>4. \A s \in Sessions : \/ sessionRooms'[s] = sessionRooms[s]
                            \/ s = h[p].new /\ sessionRooms'[s] = h[p].room
    BY <1>0, <2>1, <2>2 DEF TypeOK
  <2>5. QED BY <1>0, <1>1, <2>1, <2>2, <2>3, <2>4, LedgerMove
<1>5. CASE SavePortal(p)
  <2>1. At(p, "save") /\ ~CreateSession(p) /\ Goto(p, "track")
        /\ sessionRooms' = sessionRooms /\ h[p].new \in Sessions
    BY <1>0, <1>5 DEF SavePortal, CreateSession, At, ShapeOf
  <2>2. \/ /\ portals' = [portals EXCEPT ![h[p].new] = h[p].room]
           /\ failures' = failures
        \/ portals' = portals /\ failures' # 0
    BY <1>0, <1>5, FailCounts DEF SavePortal
  <2>3. ~At(p, "save")' BY <1>0, <2>1, GotoMoves DEF Steps, At
  <2>4. \A s \in Sessions :
          portals'[s] = portals[s] \/ (s = h[p].new /\ portals'[s] = h[p].room)
    BY <1>0, <2>2 DEF TypeOK
  <2>5. failures' # 0 \/ portals'[h[p].new] = h[p].room
    BY <1>0, <2>1, <2>2 DEF TypeOK
  <2>6. failures' = 0 => failures = 0 BY <2>2
  <2>7. QED BY <1>0, <1>1, <2>1, <2>3, <2>4, <2>5, <2>6, LedgerMove
<1>6. CASE DeletePortal(p)
  <2>1. h[p].pc = "erase" /\ ~CreateSession(p) /\ sessionRooms' = sessionRooms
        /\ sessionRooms[h[p].old] = NoRoom
    BY <1>0, <1>6 DEF DeletePortal, CreateSession, At, DroppedOf
  <2>2. ~At(p, "save") /\ ~At(p, "save")'
    BY <1>6, <2>1, CommandHolds DEF At, InsertBinding
  <2>3. \A s \in Sessions :
          portals'[s] = portals[s] \/ (s = h[p].old /\ portals'[s] = NoRoom)
    BY <1>0, <1>6 DEF DeletePortal, TypeOK
  <2>4. h[p].old \notin Mapped' BY <2>1 DEF Mapped
  <2>5. failures' = 0 => failures = 0
    BY <1>0, <1>6, FailCounts DEF DeletePortal
  <2>6. QED BY <1>0, <1>1, <2>1, <2>2, <2>3, <2>4, <2>5, LedgerMove
<1>7. CASE EnsureProfile(p) \/ GetSession(p) \/ CreateSessionRoom(p) \/ Track(p)
           \/ DropBinding(p) \/ Forget(p)
  <2>1. ~At(p, "save") /\ ~CreateSession(p) /\ ~InsertBinding(p)
        /\ portals' = portals /\ failures' = failures
    BY <1>7
    DEF EnsureProfile, GetSession, CreateSessionRoom, Track, DropBinding, Forget,
        CreateSession, InsertBinding, At
  <2>2. \A s \in Sessions : sessionRooms'[s] \in {sessionRooms[s], NoRoom}
    BY <1>0, <1>7
    DEF EnsureProfile, GetSession, CreateSessionRoom, Track, DropBinding, Forget,
        TypeOK
  <2>3. QED BY <1>2, <2>1, <2>2, CommandHolds
<1>8. CASE Undo(p) \/ RetireSession(p)
  <2>1. ~At(p, "save") /\ ~CreateSession(p) /\ ~InsertBinding(p)
        /\ portals' = portals /\ sessionRooms' = sessionRooms
    BY <1>8 DEF Undo, RetireSession, CreateSession, InsertBinding, At
  <2>2. PICK s \in Sessions, known \in BOOLEAN : DeleteSession(s, known)
    BY <1>0, <1>8 DEF Undo, RetireSession, At, ShapeOf, Ending
  <2>3. failures' = 0 => failures = 0 BY <1>0, <2>2, DeleteTypes
  <2>4. QED BY <1>2, <2>1, <2>3, CommandHolds
<1>9. QED BY <1>3, <1>4, <1>5, <1>6, <1>7, <1>8 DEF Command

\* ... and by every other step.
LEMMA LedgerStep == Sound /\ Ledger /\ [Next]_vars => Ledger'
<1> SUFFICES ASSUME Sound, Ledger, [Next]_vars PROVE Ledger' OBVIOUS
<1> USE DEF bindVars, procVars
<1> USE DEF Ledger, OneMaker, BoundAsSaved, Unsaved, BindingIsSaved, Pending, At,
            Saving, Mapped
<1>1. CASE UNCHANGED vars BY <1>1 DEF vars
<1>2. CASE Boot
  <2>1. /\ h' = h /\ portals' = portals
        /\ \A p \in Handlers : h[p] = Idle
        /\ \/ sessionRooms' = portals
           \/ failures' # 0
    BY <1>2, FailCounts DEF Boot, Restored, Sound, Hands, Quiet
  <2>2. QED BY <2>1 DEF Idle, Holding, Ending
<1>3. CASE Serve BY <1>3 DEF Serve
<1>4. CASE Crash
  <2>1. \A p \in Handlers : h'[p] = Idle
    BY <1>4 DEF Crash
  <2>2. \A s \in Sessions : sessionRooms'[s] = NoRoom BY <1>4 DEF Crash
  <2>3. QED BY <2>1, <2>2 DEF Idle, Holding, Ending
<1>5. ASSUME NEW s \in Sessions, Retrack(s) PROVE Ledger'
  BY <1>5 DEF Retrack
<1>6. ASSUME NEW p \in Handlers, Request(p) PROVE Ledger'
  <2>1. /\ h[p].pc = "idle" /\ sessionRooms' = sessionRooms
        /\ portals' = portals /\ failures' = failures
        /\ \A q \in Handlers : q # p => h'[q] = h[q]
    BY <1>6, OthersStay
    DEF Request, StartInDM, StopInDM, NewInRoom, StartInRoom, Begins
  <2>2. ASSUME NEW c, h' = [h EXCEPT ![p] = c], c.new = NoSession, c.pc # "save"
        PROVE  h'[p].new = NoSession /\ h'[p].pc # "save"
    BY <2>2 DEF Sound, TypeOK
  <2>3. CASE StartInDM(p)
    <3> DEFINE c == [Idle EXCEPT !.pc = "profile", !.cmd = "start"]
    <3>1. h' = [h EXCEPT ![p] = c] BY <2>3 DEF StartInDM
    <3>2. c.new = NoSession /\ c.pc # "save" BY DEF Idle
    <3>3. QED BY <2>1, <2>2, <3>1, <3>2, LedgerMove
  <2>4. CASE StopInDM(p)
    <3>1. PICK s \in {t \in Sessions : sessionRooms[t] # NoRoom} :
            h' = [h EXCEPT ![p] = [Idle EXCEPT !.pc = "retire", !.cmd = "stop",
                    !.old = s, !.todo = Mapped \ {s}]]
      BY <2>4 DEF StopInDM
    <3> DEFINE c == [Idle EXCEPT !.pc = "retire", !.cmd = "stop", !.old = s,
                                 !.todo = Mapped \ {s}]
    <3>2. h' = [h EXCEPT ![p] = c] BY <3>1
    <3>3. c.new = NoSession /\ c.pc # "save" BY DEF Idle
    <3>4. QED BY <2>1, <2>2, <3>2, <3>3, LedgerMove
  <2>5. ASSUME NEW r \in Rooms, NewInRoom(p, r) PROVE Ledger'
    <3>1. PICK s \in BoundTo(r) :
            h' = [h EXCEPT ![p] = [Idle EXCEPT !.pc = "get", !.cmd = "new",
                                               !.room = r, !.old = s]]
      BY <2>5 DEF NewInRoom
    <3> DEFINE c == [Idle EXCEPT !.pc = "get", !.cmd = "new", !.room = r, !.old = s]
    <3>2. c.new = NoSession /\ c.pc # "save" BY DEF Idle
    <3>3. QED BY <2>1, <2>2, <3>1, <3>2, LedgerMove
  <2>6. ASSUME NEW r \in Rooms, StartInRoom(p, r) PROVE Ledger'
    <3> DEFINE c == [Idle EXCEPT !.pc = "profile", !.cmd = "start", !.room = r]
    <3>1. h' = [h EXCEPT ![p] = c] BY <2>6 DEF StartInRoom
    <3>2. c.new = NoSession /\ c.pc # "save" BY DEF Idle
    <3>3. QED BY <2>1, <2>2, <3>1, <3>2, LedgerMove
  <2>7. QED BY <1>6, <2>3, <2>4, <2>5, <2>6 DEF Request
<1>7. QED BY <1>1, <1>2, <1>3, <1>4, <1>5, <1>6, LedgerCommand DEF Next, Process

\* It holds from the beginning.
LEMMA LedgerInit == Init => Ledger
BY DEF Init, Ledger, OneMaker, BoundAsSaved, Unsaved, BindingIsSaved, Pending, At,
       Mapped, Idle, Holding, Ending

\* As long as nothing fails, the store has the binding of every session that has
\* a room, but for those whose command is about to save it: for any commands in
\* flight, however they interleave, and any restarts.
THEOREM BindingsAreSaved == Spec => []BindingIsSaved
<1>1. Init => Sound /\ Ledger BY ShapeInit, HandsInit, LedgerInit DEF Sound
<1>2. (Sound /\ Ledger) /\ [Next]_vars => (Sound /\ Ledger)'
  BY ShapeStep, HandsStep, LedgerStep DEF Sound
<1>3. Sound /\ Ledger => BindingIsSaved BY DEF Ledger
<1>4. QED BY <1>1, <1>2, <1>3, PTL DEF Spec

\* A step that takes away what a restart would bind room r to is a step of a
\* command that may.
LEMMA DiscardStep ==
    ASSUME Sound, Ledger, [Next]_vars, NEW r \in Rooms,
           Restorable(r), ~Restorable(r)'
    PROVE  \E p \in Handlers : Discards(p, r) /\ h'[p] # h[p]
<1> USE DEF bindVars, procVars
<1>1. PICK s \in Sessions : portals[s] = r /\ forge[s] = "live"
  BY DEF Restorable
<1>2. portals'[s] = r /\ forge'[s] = "live" => FALSE BY DEF Restorable
<1>3. ~(UNCHANGED <<portals, forge>>) BY <1>1, <1>2
<1>4. CASE UNCHANGED vars BY <1>3, <1>4 DEF vars
<1>5. CASE Process BY <1>3, <1>5 DEF Process, Boot, Serve, Crash, Retrack
<1>6. ASSUME NEW p \in Handlers, Request(p) PROVE FALSE
  BY <1>3, <1>6 DEF Request, StartInDM, StopInDM, NewInRoom, StartInRoom
<1>7. ASSUME NEW p \in Handlers, Command(p) PROVE Discards(p, r) /\ h'[p] # h[p]
  <2>0. TypeOK /\ ShapeOf(p) /\ FreshOf(p) /\ h[p] \in Commands
    BY DEF Sound, TypeOK, Shape, Hands
  <2>1. Pending(p) \/ At(p, "save") => h[p].new # s
    BY <1>1, NullAssumption DEF Ledger, Unsaved
  <2>2. ASSUME h[p].pc \in {"retire", "erase"}, h[p].old = s PROVE Discards(p, r)
    <3>1. h[p].cmd = "stop" \/ (h[p].new \in Sessions /\ forge[h[p].new] = "live")
      BY <2>0, <2>2, NullAssumption DEF ShapeOf, FreshOf, Ending, Pending, Holding
    <3>2. QED BY <1>1, <2>2, <3>1 DEF Discards
  <2>3. CASE CreateSession(p)
    BY <1>1, <1>2, <2>0, <2>3 DEF CreateSession, Make, TypeOK
  <2>4. CASE Undo(p)
    <3>1. h[p].new \in Sessions /\ h[p].new # s
      BY <2>0, <2>1, <2>4, NullAssumption DEF Undo, At, ShapeOf, Pending, Holding
    <3>2. forge'[s] = forge[s] BY <2>0, <2>4, <3>1, DeleteTypes DEF Undo
    <3>3. QED BY <1>1, <1>2, <2>4, <3>2 DEF Undo
  <2>5. CASE SavePortal(p)
    BY <1>1, <1>2, <2>0, <2>1, <2>5 DEF SavePortal, TypeOK
  <2>6. CASE RetireSession(p)
    <3>1. PICK known \in BOOLEAN :
            /\ DeleteSession(h[p].old, known)
            /\ IF known \/ h[p].cmd = "new"
                 THEN Goto(p, "drop") ELSE NextToStop(p, h[p].todo)
      BY <2>6 DEF RetireSession
    <3>2. h[p].pc = "retire" /\ h[p].old \in Sessions
          /\ (h[p].cmd # "new" => h[p].new = NoSession /\ h[p].cmd = "stop")
      BY <2>0, <2>6 DEF RetireSession, At, ShapeOf, Ending
    <3>3. h[p].old = s
      BY <1>1, <1>2, <2>0, <2>6, <3>1, <3>2, DeleteTypes DEF RetireSession
    <3>4. CASE Goto(p, "drop")
      <4>1. h'[p] # h[p] BY <2>0, <3>2, <3>4, GotoMoves DEF Steps
      <4>2. QED BY <2>2, <3>2, <3>3, <4>1
    <3>5. CASE h[p].cmd # "new" /\ NextToStop(p, h[p].todo)
      <4>1. h[p].todo \in SUBSET Sessions BY <2>0 DEF Commands
      <4>2. \/ h'[p] = Idle
            \/ h'[p].old \in h[p].todo /\ h'[p].todo = h[p].todo \ {h'[p].old}
        BY <2>0, <3>2, <3>5, <4>1, NextToStopShape
      <4>3. h'[p] # h[p] BY <3>2, <4>2 DEF Idle
      <4>4. QED BY <2>2, <3>2, <3>3, <4>3
    <3>6. QED BY <3>1, <3>4, <3>5
  <2>7. CASE DeletePortal(p)
    <3>1. h[p].pc = "erase" /\ Goto(p, "forget") BY <2>7 DEF DeletePortal, At
    <3>2. h'[p] # h[p] BY <2>0, <3>1, GotoMoves DEF Steps
    <3>3. h[p].old = s BY <1>1, <1>2, <2>0, <2>7 DEF DeletePortal, TypeOK
    <3>4. QED BY <2>2, <3>1, <3>2, <3>3
  <2>8. CASE \/ EnsureProfile(p) \/ GetSession(p) \/ CreateSessionRoom(p)
             \/ InsertBinding(p) \/ Track(p) \/ DropBinding(p) \/ Forget(p)
    BY <1>3, <2>8
    DEF EnsureProfile, GetSession, CreateSessionRoom, InsertBinding, Track,
        DropBinding, Forget
  <2>9. QED BY <1>7, <2>3, <2>4, <2>5, <2>6, <2>7, <2>8 DEF Command
<1>8. QED BY <1>4, <1>5, <1>6, <1>7 DEF Next

\* For any commands in flight, any failures and any number of restarts, a room
\* that a restart would serve stays so until a /stop takes its session down or a
\* /new has a live replacement: what is left to the chance of a crash is only
\* the time that /new takes from there to saving the replacement.
THEOREM PortalsKeptUntilReplaced == Spec => KeptUntilReplaced
<1>1. Init => Sound /\ Ledger BY ShapeInit, HandsInit, LedgerInit DEF Sound
<1>2. (Sound /\ Ledger) /\ [Next]_vars => (Sound /\ Ledger)'
  BY ShapeStep, HandsStep, LedgerStep DEF Sound
<1>3. Sound /\ Ledger /\ [Next]_vars =>
        [\A r \in Rooms : Restorable(r) /\ ~Restorable(r)' =>
           \E p \in Handlers : Discards(p, r) /\ h'[p] # h[p]]_vars
  BY DiscardStep
<1>4. QED BY <1>1, <1>2, <1>3, PTL DEF Spec, KeptUntilReplaced

-----------------------------------------------------------------------------
(* Without failures, the sessions that run are those that have a room *)

\* What a step of p must see to for the accounts to balance: each of the parts
\* says what becomes of a session, nothing having failed.
LEMMA AccountsMove ==
    ASSUME Accounts, running = "up", running' = "up", crashes' = crashes,
           NEW p \in Handlers, \A q \in Handlers : q # p => h'[q] = h[q],
           failures' = 0 =>
             /\ failures = 0
             /\ At(p, "drop")' => forge'[h'[p].old] = "gone"
             /\ \A q \in Handlers : q # p /\ At(q, "drop") /\ forge[h[q].old] = "gone"
                                      => forge'[h[q].old] = "gone"
             /\ \A s \in Sessions : forge'[s] = "live" =>
                  \/ forge[s] = "live" /\ s \notin Mapped /\ ~(h[p].new = s /\ h[p].pc \in Holding)
                  \/ s \in Mapped'
                  \/ h'[p].new = s /\ h'[p].pc \in Holding
             /\ \A s \in Mapped' : forge'[s] = "gone" =>
                  \/ s \in Mapped /\ forge[s] = "gone" /\ ~(h[p].old = s /\ At(p, "drop"))
                  \/ h'[p].old = s /\ h'[p].pc = "drop"
    PROVE  Accounts'
<1>1. ASSUME failures' = 0, NEW q \in Handlers, At(q, "drop")'
      PROVE  forge'[h'[q].old] = "gone"
  <2>1. CASE q = p BY <1>1, <2>1
  <2>2. CASE q # p BY <1>1, <2>2 DEF At, Accounts
  <2>3. QED BY <2>1, <2>2
<1>2. ASSUME failures' = 0, crashes' = 0, NEW s \in Sessions, forge'[s] = "live"
      PROVE  (s \in Mapped \/ Making(s))'
  <2>1. CASE s \in Mapped' BY <2>1
  <2>2. CASE h'[p].new = s /\ h'[p].pc \in Holding
    BY <2>2 DEF Making, Holding, Ending
  <2>3. CASE forge[s] = "live" /\ s \notin Mapped /\ ~(h[p].new = s /\ h[p].pc \in Holding)
    <3>1. Making(s) BY <1>2, <2>3 DEF Accounts, LiveIffBound
    <3>2. PICK q \in Handlers : h[q].new = s /\ h[q].pc \in Holding
      BY <3>1 DEF Making, Holding, Ending
    <3>3. h'[q].new = s /\ h'[q].pc \in Holding BY <2>3, <3>2
    <3>4. QED BY <3>3 DEF Making, Holding, Ending
  <2>4. QED BY <1>2, <2>1, <2>2, <2>3
<1>3. ASSUME failures' = 0, crashes' = 0, NEW s \in Mapped', forge'[s] = "gone"
      PROVE  Unmaking(s)'
  <2>1. CASE h'[p].old = s /\ h'[p].pc = "drop" BY <2>1 DEF Unmaking, At
  <2>2. CASE s \in Mapped /\ forge[s] = "gone" /\ ~(h[p].old = s /\ At(p, "drop"))
    <3>1. Unmaking(s) BY <1>3, <2>2 DEF Accounts, LiveIffBound
    <3>2. PICK q \in Handlers : h[q].old = s /\ h[q].pc = "drop"
      BY <3>1 DEF Unmaking, At
    <3>3. h'[q].old = s /\ h'[q].pc = "drop" BY <2>2, <3>2 DEF At
    <3>4. QED BY <3>3 DEF Unmaking, At
  <2>3. QED BY <1>3, <2>1, <2>2
<1>4. QED BY <1>1, <1>2, <1>3 DEF Accounts, LiveIffBound

LEMMA AccountsProcess ==
    ASSUME Sound, Streams, Accounts, Process
    PROVE  Accounts'
<1> USE DEF bindVars, procVars
<1>1. CASE Boot
  <2>1. /\ h' = h /\ forge' = forge /\ running = "down" /\ crashes' = crashes
        /\ \A p \in Handlers : h[p] = Idle
    BY <1>1 DEF Boot, Sound, Hands, Quiet
  <2>2. ASSUME crashes = 0
        PROVE  \A s \in Sessions : forge[s] = "unborn" /\ sessionRooms'[s] = NoRoom
    BY <1>1, <2>1, <2>2
    DEF Boot, Restored, Accounts, Sound, Hands, UnbornIsUnknown, Streams, Mapped
  <2>3. LiveIffBound' BY <2>1, <2>2 DEF LiveIffBound, Mapped
  <2>4. QED BY <2>1, <2>2, <2>3 DEF Accounts, At, Idle
<1>2. CASE Serve
  BY <1>2 DEF Serve, Accounts, LiveIffBound, Mapped, Making, Unmaking, At
<1>3. CASE Crash
  <2>1. crashes' # 0 /\ \A p \in Handlers : h'[p] = Idle
    BY <1>3 DEF Crash, Sound, TypeOK
  <2>2. QED BY <2>1 DEF Accounts, LiveIffBound, At, Idle
<1>4. ASSUME NEW s \in Sessions, Retrack(s) PROVE Accounts'
  BY <1>4 DEF Retrack, Accounts, LiveIffBound, Mapped, Making, Unmaking, At
<1>5. QED BY <1>1, <1>2, <1>3, <1>4 DEF Process

LEMMA AccountsRequest ==
    ASSUME Sound, Accounts, NEW p \in Handlers, Request(p)
    PROVE  Accounts'
<1> USE DEF bindVars, procVars
<1>1. /\ h[p].pc = "idle" /\ sessionRooms' = sessionRooms /\ forge' = forge
      /\ failures' = failures /\ h'[p].pc # "drop"
  BY DEF Request, StartInDM, StopInDM, NewInRoom, StartInRoom, Begins, At, Idle,
         Sound, TypeOK
<1>2. Mapped' = Mapped BY <1>1 DEF Mapped
<1>3. h[p].pc \notin Holding BY <1>1 DEF Holding, Ending
<1>4. QED BY <1>1, <1>2, <1>3, OthersStay, AccountsMove DEF At

LEMMA AccountsCommand ==
    ASSUME Sound, Accounts, NEW p \in Handlers, Command(p)
    PROVE  Accounts'
<1> USE DEF bindVars, procVars
<1>0. /\ TypeOK /\ ShapeOf(p) /\ FreshOf(p) /\ h[p] \in Commands
      /\ running = "up" /\ running' = "up" /\ crashes' = crashes
      /\ \A q \in Handlers : q # p => h'[q] = h[q]
  BY OthersStay DEF Sound, TypeOK, Shape, Hands
\* Steps that leave forge and the map alone.
<1>1. ASSUME forge' = forge, sessionRooms' = sessionRooms,
             failures' = 0 => failures = 0, h[p].pc # "drop", h'[p].pc # "drop",
             h[p].pc \in Holding =>
               \/ h[p].new = NoSession
               \/ h'[p].new = h[p].new /\ h'[p].pc \in Holding
      PROVE  Accounts'
  <2>1. Mapped' = Mapped BY <1>1 DEF Mapped
  <2>2. QED BY <1>0, <1>1, <2>1, NullAssumption, AccountsMove DEF At
<1>2. ASSUME NEW kind, Fail(kind) PROVE failures' # 0
  BY <1>0, <1>2, FailCounts
<1>3. ASSUME NEW step \in Steps, Goto(p, step)
      PROVE  h'[p].pc = step /\ h'[p].new = h[p].new /\ h'[p].old = h[p].old
  BY <1>0, <1>3, GotoMoves
<1>4. ASSUME Finish(p) PROVE h'[p] = Idle
  BY <1>0, <1>4, FinishMoves
<1>5. ASSUME NextToStop(p, h[p].todo), h[p].cmd = "stop", h[p].pc \in Ending
      PROVE  h'[p].pc # "drop" /\ h[p].new = NoSession
  <2>1. h[p].todo \in SUBSET Sessions /\ h[p].new = NoSession
    BY <1>0, <1>5 DEF Commands, ShapeOf
  <2>2. h'[p] = Idle \/ h'[p].pc = "retire"
    BY <1>0, <1>5, <2>1, NextToStopShape
  <2>3. QED BY <2>1, <2>2 DEF Idle
<1>6. CASE EnsureProfile(p) \/ GetSession(p)
  <2>1. h[p].pc \in {"profile", "get"} /\ forge' = forge
        /\ sessionRooms' = sessionRooms /\ failures' = failures
    BY <1>6 DEF EnsureProfile, GetSession, At
  <2>2. h'[p].pc \in {"create", "idle"}
    BY <1>3, <1>4, <1>6 DEF EnsureProfile, GetSession, Steps, Idle
  <2>3. QED BY <1>1, <2>1, <2>2 DEF Holding, Ending
<1>7. CASE CreateSession(p)
  <2>1. h[p].pc = "create" /\ sessionRooms' = sessionRooms
    BY <1>7 DEF CreateSession, At
  <2>2. Mapped' = Mapped BY <2>1 DEF Mapped
  <2>3. ASSUME NEW n \in Sessions, Make(p, n), failures' = failures,
               h' = [h EXCEPT ![p] = [@ EXCEPT !.pc = AfterCreate(p), !.new = n]]
        PROVE  Accounts'
    <3>1. forge[n] = "unborn" /\ forge'[n] = "live"
          /\ \A s \in Sessions : s # n => forge'[s] = forge[s]
      BY <1>0, <2>3 DEF Make, TypeOK
    <3>2. h'[p] = [h[p] EXCEPT !.pc = AfterCreate(p), !.new = n]
      BY <1>0, <2>3 DEF TypeOK
    <3>3. AfterCreate(p) \in {"retire", "room", "insert"} BY DEF AfterCreate
    <3>4. h'[p].new = n /\ h'[p].pc \in {"retire", "room", "insert"}
      BY <1>0, <3>2, <3>3 DEF Commands
    <3>5. \A q \in Handlers : forge[h[q].old] = "gone" /\ At(q, "drop")
            => forge'[h[q].old] = "gone"
      BY <3>1 DEF Sound, Shape, ShapeOf, Ending, At
    <3>6. QED
      BY <1>0, <2>1, <2>2, <2>3, <3>1, <3>4, <3>5, AccountsMove
      DEF Holding, Ending, At, Mapped
  <2>4. ASSUME Finish(p), forge' = forge, failures' = failures PROVE Accounts'
    BY <1>1, <1>4, <2>1, <2>4 DEF Idle, Holding, Ending
  <2>5. ASSUME failures' # 0 PROVE Accounts'
    BY <1>0, <2>5, AccountsMove
  <2>6. QED BY <1>2, <1>7, <2>3, <2>4, <2>5 DEF CreateSession
<1>8. CASE CreateSessionRoom(p)
  <2>1. h[p].pc = "room" /\ forge' = forge /\ sessionRooms' = sessionRooms
        /\ failures' = failures
    BY <1>8 DEF CreateSessionRoom, At
  <2>2. ASSUME NEW r \in Rooms,
               h' = [h EXCEPT ![p] = [@ EXCEPT !.pc = "insert", !.room = r]]
        PROVE  h'[p].pc = "insert" /\ h'[p].new = h[p].new
    BY <1>0, <2>2 DEF TypeOK, Commands
  <2>3. h'[p].pc \in {"insert", "undo"} /\ h'[p].new = h[p].new
    BY <1>3, <1>8, <2>2 DEF CreateSessionRoom, Steps
  <2>4. QED BY <1>1, <2>1, <2>3 DEF Holding
<1>9. CASE Undo(p)
  <2>1. PICK known \in BOOLEAN : DeleteSession(h[p].new, known)
    BY <1>9 DEF Undo
  <2>2. h[p].new \in Sessions /\ h[p].pc = "undo" /\ sessionRooms' = sessionRooms
    BY <1>0, <1>9 DEF Undo, At, ShapeOf
  <2>3. forge[h[p].new] = "live" /\ h[p].new \notin Mapped
    BY <1>0, <2>2, NullAssumption DEF FreshOf, Pending, Holding, Mapped
  <2>4. /\ \A s \in Sessions : s # h[p].new => forge'[s] = forge[s]
        /\ failures' = 0 => failures = 0 /\ forge'[h[p].new] = "gone"
    BY <1>0, <2>1, <2>2, <2>3, DeleteTypes
  <2>5. h'[p] = Idle /\ Mapped' = Mapped BY <1>4, <1>9, <2>2 DEF Undo, Mapped
  <2>6. \A q \in Handlers : At(q, "drop") /\ forge[h[q].old] = "gone"
          => forge'[h[q].old] = "gone"
    BY <2>3, <2>4 DEF Sound, Shape, ShapeOf, Ending, At
  <2>7. QED
    BY <1>0, <2>2, <2>3, <2>4, <2>5, <2>6, AccountsMove DEF Idle, At, Mapped
<1>10. CASE InsertBinding(p)
  <2>1. h[p].new \in Sessions /\ h[p].room \in Rooms /\ h[p].pc = "insert"
        /\ forge' = forge /\ failures' = failures
        /\ sessionRooms' = [sessionRooms EXCEPT ![h[p].new] = h[p].room]
    BY <1>0, <1>10 DEF InsertBinding, At, ShapeOf
  <2>2. forge[h[p].new] = "live"
    BY <1>0, <2>1, NullAssumption DEF FreshOf, Pending, Holding
  <2>3. h'[p].pc = "save" BY <1>3, <1>10 DEF InsertBinding, Steps
  <2>4. Mapped' = Mapped \cup {h[p].new}
    BY <1>0, <2>1, NullAssumption DEF Mapped, TypeOK
  <2>5. QED BY <1>0, <2>1, <2>2, <2>3, <2>4, AccountsMove DEF At
<1>11. CASE SavePortal(p)
  <2>1. h[p].pc = "save" /\ forge' = forge /\ sessionRooms' = sessionRooms
        /\ (failures' = 0 => failures = 0)
    BY <1>2, <1>11 DEF SavePortal, At
  <2>2. h'[p].pc = "track" BY <1>3, <1>11 DEF SavePortal, Steps
  <2>3. QED BY <1>1, <2>1, <2>2 DEF Holding, Ending
<1>12. CASE Track(p)
  <2>1. h[p].pc = "track" /\ forge' = forge /\ sessionRooms' = sessionRooms
        /\ failures' = failures
    BY <1>12 DEF Track, At
  <2>2. h'[p] = Idle BY <1>4, <1>12 DEF Track
  <2>3. QED BY <1>1, <2>1, <2>2 DEF Holding, Ending, Idle
<1>13. CASE RetireSession(p)
  <2>1. PICK known \in BOOLEAN :
          /\ DeleteSession(h[p].old, known)
          /\ IF known \/ h[p].cmd = "new"
               THEN Goto(p, "drop") ELSE NextToStop(p, h[p].todo)
    BY <1>13 DEF RetireSession
  <2>2. h[p].pc = "retire" /\ h[p].old \in Sessions /\ sessionRooms' = sessionRooms
        /\ (h[p].cmd # "new" => h[p].cmd = "stop")
    BY <1>0, <1>13 DEF RetireSession, At, ShapeOf, Ending
  <2>3. Mapped' = Mapped BY <2>2 DEF Mapped
  <2>4. forge[h[p].old] # "unborn"
    BY <2>2 DEF Sound, Hands, UnbornIsUnknown, Marked
  <2>5. /\ \A s \in Sessions : s # h[p].old => forge'[s] = forge[s]
        /\ failures' = 0 => failures = 0 /\ forge'[h[p].old] = "gone"
    BY <1>0, <2>1, <2>2, <2>4, DeleteTypes
  <2>6. \A q \in Handlers : At(q, "drop") /\ forge[h[q].old] = "gone" /\ failures' = 0
          => forge'[h[q].old] = "gone"
    BY <2>5 DEF Sound, Shape, ShapeOf, Ending, At
  <2>7. CASE Goto(p, "drop")
    <3>1. h'[p].pc = "drop" /\ h'[p].new = h[p].new /\ h'[p].old = h[p].old
      BY <1>3, <2>7 DEF Steps
    <3>2. QED
      BY <1>0, <2>2, <2>3, <2>5, <2>6, <3>1, AccountsMove
      DEF At, Holding, Ending, Mapped
  <2>8. CASE ~known /\ h[p].cmd # "new" /\ NextToStop(p, h[p].todo)
    <3>1. h'[p].pc # "drop" /\ h[p].new = NoSession
      BY <1>5, <2>2, <2>8 DEF Ending
    <3>2. failures' = 0 => forge[h[p].old] = "gone"
      BY <1>2, <2>1, <2>8 DEF DeleteSession
    <3>3. QED
      BY <1>0, <2>2, <2>3, <2>5, <2>6, <3>1, <3>2, NullAssumption, AccountsMove
      DEF At, Mapped
  <2>9. QED BY <2>1, <2>7, <2>8
<1>14. CASE DropBinding(p)
  <2>1. h[p].pc = "drop" /\ h[p].old \in Sessions
        /\ forge' = forge /\ failures' = failures
        /\ sessionRooms' = [sessionRooms EXCEPT ![h[p].old] = NoRoom]
    BY <1>0, <1>14 DEF DropBinding, At, ShapeOf, Ending
  <2>2. h'[p].pc = "erase" /\ h'[p].new = h[p].new
    BY <1>3, <1>14 DEF DropBinding, Steps
  <2>3. Mapped' = Mapped \ {h[p].old} BY <1>0, <2>1 DEF Mapped, TypeOK
  <2>4. failures = 0 => forge[h[p].old] = "gone" BY <2>1 DEF Accounts, At
  <2>5. QED
    BY <1>0, <2>1, <2>2, <2>3, <2>4, AccountsMove DEF At, Holding, Ending, Mapped
<1>15. CASE DeletePortal(p)
  <2>1. h[p].pc = "erase" /\ forge' = forge /\ sessionRooms' = sessionRooms
        /\ (failures' = 0 => failures = 0)
    BY <1>2, <1>15 DEF DeletePortal, At
  <2>2. h'[p].pc = "forget" /\ h'[p].new = h[p].new
    BY <1>3, <1>15 DEF DeletePortal, Steps
  <2>3. QED BY <1>1, <2>1, <2>2 DEF Holding, Ending
<1>16. CASE Forget(p)
  <2>1. h[p].pc = "forget" /\ forge' = forge /\ sessionRooms' = sessionRooms
        /\ failures' = failures /\ h[p].cmd \in {"new", "stop"}
    BY <1>0, <1>16 DEF Forget, At, ShapeOf, Ending
  <2>2. CASE h[p].cmd = "new"
    <3>1. h'[p].pc = "insert" /\ h'[p].new = h[p].new
      BY <1>3, <1>16, <2>2 DEF Forget, Steps
    <3>2. QED BY <1>1, <2>1, <3>1 DEF Holding
  <2>3. CASE h[p].cmd = "stop"
    <3>1. h'[p].pc # "drop" /\ h[p].new = NoSession
      BY <1>5, <1>16, <2>1, <2>3 DEF Forget, Ending
    <3>2. QED BY <1>1, <2>1, <3>1
  <2>4. QED BY <2>1, <2>2, <2>3
<1>17. QED
  BY <1>6, <1>7, <1>8, <1>9, <1>10, <1>11, <1>12, <1>13, <1>14, <1>15, <1>16
  DEF Command

\* As long as nothing fails, forge runs the sessions that have a room, give or
\* take the commands at work: no interleaving of /start, /new and /stop leaves a
\* session running without a room, or a room with a session that is gone.
THEOREM LiveSessionsBound == Spec => []LiveIffBound
<1> DEFINE IInv == Sound /\ Streams /\ Accounts
<1>1. Init => IInv
  BY ShapeInit, HandsInit
  DEF Init, Sound, Streams, BoundIsTracked, Accounts, LiveIffBound, Mapped, At, Idle
<1>2. IInv /\ [Next]_vars => Accounts'
  <2> SUFFICES ASSUME IInv, [Next]_vars PROVE Accounts' OBVIOUS
  <2>1. CASE UNCHANGED vars
    BY <2>1
    DEF vars, bindVars, procVars, Accounts, LiveIffBound, Mapped, Making, Unmaking, At
  <2>2. QED BY <2>1, AccountsProcess, AccountsRequest, AccountsCommand DEF Next
<1>3. IInv /\ [Next]_vars => IInv'
  BY <1>2, ShapeStep, HandsStep, StreamsStep DEF Sound
<1>4. IInv => LiveIffBound BY DEF Accounts
<1>5. QED BY <1>1, <1>3, <1>4, PTL DEF Spec

-----------------------------------------------------------------------------
(* One session per room, in the rooms nothing has disturbed *)

Known(s, r) == sessionRooms[s] = r \/ portals[s] = r

\* The session a command at work expects its room to have: the one it has bound,
\* or the one it has yet to unbind, or none where it is about to bind.
Expected(p) ==
    IF h[p].pc \in {"save", "track"} THEN {h[p].new}
    ELSE IF h[p].cmd = "new" /\ h[p].pc \in {"get", "create", "retire", "drop", "erase"}
    THEN {h[p].old}
    ELSE {}

Agrees(s, r) ==
    \/ sessionRooms[s] = r <=> portals[s] = r
    \/ sessionRooms[s] = r /\ Saving(s)
    \/ portals[s] = r /\ Erasing(s)

\* The strengthening of OneSessionUndisturbed and PortalsAgree for one room: one
\* command binds, map and store together know one session, the command expects
\* just that one, and nobody is to stop it before it is saved.
Calm(r) ==
    /\ \A p, q \in Handlers : h[p].room = r /\ h[q].room = r => p = q
    /\ \A s, t \in Sessions : Known(s, r) /\ Known(t, r) => s = t
    /\ \A p \in Handlers, s \in Sessions :
         h[p].room = r /\ Known(s, r) => s \in Expected(p)
    /\ \A p \in Handlers : At(p, "save") /\ h[p].room = r =>
         /\ sessionRooms[h[p].new] = r
         /\ \A q \in Handlers : h[p].new \notin Marked(q)
    /\ running # "down" => \A s \in Sessions : Agrees(s, r)

\* Nobody knows of a room that has not been made.
UnopenedIsUnknown ==
    \A r \in Rooms \ opened :
        /\ \A s \in Sessions : ~Known(s, r)
        /\ \A p \in Handlers : h[p].room # r

Settled == UnopenedIsUnknown /\ \A r \in Rooms \ disturbed : Calm(r)

\* Rooms are disturbed for good.
LEMMA DisturbedGrows ==
    ASSUME TypeOK, [Next]_vars
    PROVE  disturbed \subseteq disturbed'
<1> USE DEF Disturb
<1>1. CASE UNCHANGED vars BY <1>1 DEF vars
<1>2. CASE Process BY <1>2 DEF Process, Boot, Serve, Crash, Retrack
<1>3. ASSUME NEW p \in Handlers, Request(p) PROVE disturbed \subseteq disturbed'
  BY <1>3 DEF Request, StartInDM, StopInDM, NewInRoom, StartInRoom
<1>4. ASSUME NEW p \in Handlers, Command(p) PROVE disturbed \subseteq disturbed'
  BY <1>4
  DEF Command, EnsureProfile, GetSession, CreateSession, CreateSessionRoom, Undo,
      InsertBinding, SavePortal, Track, RetireSession, DropBinding, DeletePortal,
      Forget
<1>5. QED BY <1>1, <1>2, <1>3, <1>4 DEF Next

\* A step of p keeps a room calm, if p works in it only if it did before, makes it
\* known only of a session it expects, unbinds only what it had marked, and marks
\* nothing.
LEMMA CalmMove ==
    ASSUME Sound, Ledger, NEW r \in Rooms, Calm(r), NEW p \in Handlers,
           \A q \in Handlers : q # p => h'[q] = h[q],
           h'[p].room = r => h[p].room = r,
           \A s \in Sessions : Known(s, r)' =>
             IF h'[p].room = r THEN s \in Expected(p)' ELSE Known(s, r),
           At(p, "save")' /\ h'[p].room = r =>
             /\ sessionRooms'[h'[p].new] = r
             /\ \A q \in Handlers : h'[p].new \notin Marked(q)',
           \A s \in Sessions : \/ sessionRooms'[s] = sessionRooms[s]
                               \/ s \in Marked(p)
                               \/ s = h[p].new /\ s # NoSession,
           Marked(p)' \subseteq Marked(p) \cup {NoSession},
           \A s \in Sessions : Agrees(s, r)'
    PROVE  Calm(r)'
<1>1. \A q, t \in Handlers : h'[q].room = r /\ h'[t].room = r => q = t
  BY DEF Calm
<1>2. \A s, t \in Expected(p)' : s = t BY DEF Expected
<1>3. \A s, t \in Sessions : Known(s, r)' /\ Known(t, r)' => s = t
  <2>1. CASE h'[p].room = r BY <1>2, <2>1
  <2>2. CASE h'[p].room # r BY <2>2 DEF Calm
  <2>3. QED BY <2>1, <2>2
<1>4. ASSUME NEW q \in Handlers, NEW s \in Sessions, h'[q].room = r, Known(s, r)'
      PROVE  s \in Expected(q)'
  <2>1. CASE q = p BY <1>4, <2>1
  <2>2. CASE q # p
    <3>1. h[q].room = r /\ h'[p].room # r BY <1>1, <1>4, <2>2
    <3>2. s \in Expected(q) BY <1>4, <3>1 DEF Calm
    <3>3. QED BY <2>2, <3>2 DEF Expected
  <2>3. QED BY <2>1, <2>2
<1>5. ASSUME NEW q \in Handlers, At(q, "save")', h'[q].room = r
      PROVE  /\ sessionRooms'[h'[q].new] = r
             /\ \A t \in Handlers : h'[q].new \notin Marked(t)'
  <2>1. CASE q = p BY <1>5, <2>1
  <2>2. CASE q # p
    <3>1. h'[q] = h[q] /\ At(q, "save") /\ h[q].room = r BY <1>5, <2>2 DEF At
    <3>2. h[q].new \in Sessions
      BY <3>1 DEF Sound, Shape, ShapeOf, At
    <3>3. /\ sessionRooms[h[q].new] = r
          /\ \A t \in Handlers : h[q].new \notin Marked(t)
      BY <3>1 DEF Calm
    <3>4. h[q].new # NoSession /\ h[q].new # h[p].new
      BY <2>2, <3>2, NullAssumption DEF Ledger, OneMaker
    <3>5. sessionRooms'[h[q].new] = r BY <3>2, <3>3, <3>4
    <3>6. ASSUME NEW t \in Handlers PROVE h[q].new \notin Marked(t)'
      <4>1. CASE t = p BY <3>3, <3>4, <4>1
      <4>2. CASE t # p BY <3>3, <4>2 DEF Marked
      <4>3. QED BY <4>1, <4>2
    <3>7. QED BY <3>1, <3>5, <3>6
  <2>3. QED BY <2>1, <2>2
<1>6. QED BY <1>1, <1>3, <1>4, <1>5 DEF Calm

\* A room stays calm when the process starts, tracks, serves or dies ...
LEMMA CalmProcess ==
    ASSUME Sound, Streams, Process, NEW r \in Rooms, r \notin disturbed', Calm(r)
    PROVE  Calm(r)'
<1> USE DEF Calm, Known, Expected, Marked, Agrees, Saving, Erasing, At, bindVars
<1>1. CASE Boot
  <2>1. /\ h' = h /\ portals' = portals
        /\ \A p \in Handlers : h[p] = Idle
        /\ \A s \in Sessions : sessionRooms[s] = NoRoom
    BY <1>1 DEF Boot, Sound, Hands, Quiet, Streams, Mapped
  <2>2. \A p \in Handlers : h[p].room # r /\ h[p].pc = "idle"
    BY <2>1, NullAssumption DEF Idle
  <2>3. CASE sessionRooms' = portals BY <2>1, <2>2, <2>3
  <2>4. CASE sessionRooms' = sessionRooms /\ Disturb({portals[s] : s \in Sessions})
    <3>1. \A s \in Sessions : portals[s] # r BY <2>4 DEF Disturb
    <3>2. QED BY <2>1, <2>2, <2>4, <3>1, NullAssumption
  <2>5. QED BY <1>1, <2>3, <2>4 DEF Boot, Restored
<1>2. CASE Serve BY <1>2 DEF Serve
<1>3. CASE Crash
  <2>1. /\ portals' = portals /\ running' = "down"
        /\ \A p \in Handlers : h'[p] = Idle
        /\ \A s \in Sessions : sessionRooms'[s] = NoRoom
    BY <1>3 DEF Crash
  <2>2. \A p \in Handlers : h'[p].room # r /\ h'[p].pc = "idle"
    BY <2>1, NullAssumption DEF Idle
  <2>3. QED BY <2>1, <2>2, NullAssumption
<1>4. ASSUME NEW s \in Sessions, Retrack(s) PROVE Calm(r)'
  BY <1>4 DEF Retrack
<1>5. QED BY <1>1, <1>2, <1>3, <1>4 DEF Process

\* ... when a command begins ...
LEMMA CalmRequest ==
    ASSUME Sound, Ledger, UnopenedIsUnknown, NEW p \in Handlers, Request(p),
           NEW r \in Rooms, r \notin disturbed', Calm(r)
    PROVE  Calm(r)'
<1>1. /\ running = "up" /\ running' = "up" /\ h[p] = Idle /\ TypeOK
      /\ sessionRooms' = sessionRooms /\ portals' = portals
      /\ \A q \in Handlers : q # p => h'[q] = h[q]
  BY OthersStay
  DEF Request, StartInDM, StopInDM, NewInRoom, StartInRoom, Begins, bindVars,
      Sound, Shape, ShapeOf, TypeOK
<1>2. h[p].pc = "idle" /\ h[p].room # r /\ h[p].new = NoSession
  BY <1>1, NullAssumption DEF Idle
<1>3. \A s \in Sessions : Agrees(s, r) /\ Agrees(s, r)'
  BY <1>1, <1>2 DEF Calm, Agrees, Saving, Erasing, At
<1>4. \A s \in Sessions : Known(s, r)' <=> Known(s, r)
  BY <1>1 DEF Known
\* A command that binds to no room, or to another one.
<1>5. ASSUME NEW c, h' = [h EXCEPT ![p] = c], c.room # r,
             \A q \in Handlers : q # p /\ At(q, "save") /\ h[q].room = r =>
               h[q].new \notin {c.old} \cup c.todo
      PROVE  Calm(r)'
  <2>1. h'[p] = c BY <1>1, <1>5 DEF TypeOK
  <2>2. \A q \in Handlers : h'[q].room = r => q # p /\ h'[q] = h[q]
    BY <1>1, <1>5, <2>1
  <2>3. Marked(p)' = {c.old} \cup c.todo /\ \A q \in Handlers : q # p => Marked(q)' = Marked(q)
    BY <1>1, <2>1 DEF Marked
  <2>4. \A q \in Handlers : q # p => Expected(q)' = Expected(q) /\ (At(q, "save")' <=> At(q, "save"))
    BY <1>1 DEF Expected, At
  <2>5. QED BY <1>1, <1>3, <1>4, <1>5, <2>2, <2>3, <2>4 DEF Calm
\* The first command that binds to r.
<1>6. ASSUME NEW c, h' = [h EXCEPT ![p] = c], c.pc # "save", r \notin Taken,
             \A s \in Sessions : Known(s, r) => s \in Expected(p)'
      PROVE  Calm(r)'
  <2>1. h'[p] = c BY <1>1, <1>6 DEF TypeOK
  <2>2. \A q \in Handlers : q # p => h'[q].room # r
    BY <1>1, <1>6 DEF Taken
  <2>3. \A q \in Handlers : h'[q].room = r => q = p /\ ~At(q, "save")'
    BY <1>6, <2>1, <2>2 DEF At
  <2>4. QED BY <1>1, <1>3, <1>4, <1>6, <2>3 DEF Calm
<1>7. CASE StartInDM(p)
  <2> DEFINE c == [Idle EXCEPT !.pc = "profile", !.cmd = "start"]
  <2>1. c.room # r /\ c.old = NoSession /\ c.todo = {}
    BY NullAssumption DEF Idle
  <2>2. \A q \in Handlers : At(q, "save") => h[q].new # NoSession
    BY NullAssumption DEF Sound, Shape, ShapeOf, At
  <2>3. QED BY <1>5, <1>7, <2>1, <2>2 DEF StartInDM
<1>8. CASE StopInDM(p)
  <2>1. PICK s \in Mapped :
          h' = [h EXCEPT ![p] = [Idle EXCEPT !.pc = "retire", !.cmd = "stop",
                  !.old = s, !.todo = Mapped \ {s}]]
    BY <1>8 DEF StopInDM
  <2> DEFINE c == [Idle EXCEPT !.pc = "retire", !.cmd = "stop", !.old = s,
                               !.todo = Mapped \ {s}]
  <2>2. c.room # r /\ {c.old} \cup c.todo = Mapped BY NullAssumption DEF Idle
  <2>3. ASSUME NEW q \in Handlers, At(q, "save"), h[q].room = r PROVE h[q].new \notin Mapped
    <3>1. sessionRooms[h[q].new] = r BY <2>3 DEF Calm
    <3>2. Disturb({sessionRooms[t] : t \in {u \in Mapped : Saving(u)}})
      BY <1>8 DEF StopInDM
    <3>3. Saving(h[q].new) BY <2>3 DEF Saving
    <3>4. QED BY <3>1, <3>2, <3>3 DEF Disturb
  <2>4. QED BY <1>5, <2>1, <2>2, <2>3
<1>9. ASSUME NEW n \in Rooms, NewInRoom(p, n) PROVE Calm(r)'
  <2>1. PICK s \in BoundTo(n) :
          h' = [h EXCEPT ![p] = [Idle EXCEPT !.pc = "get", !.cmd = "new",
                                             !.room = n, !.old = s]]
    BY <1>9 DEF NewInRoom
  <2> DEFINE c == [Idle EXCEPT !.pc = "get", !.cmd = "new", !.room = n, !.old = s]
  <2>2. c.pc = "get" /\ c.cmd = "new" /\ c.room = n /\ c.old = s /\ c.todo = {}
    BY DEF Idle
  <2>3. s \in Sessions /\ sessionRooms[s] = n BY DEF BoundTo
  <2>4. CASE n = r
    <3>1. r \notin Taken BY <1>9, <2>4 DEF NewInRoom, Disturb
    <3>2. Expected(p)' = {s} BY <1>1, <2>1, <2>2 DEF TypeOK, Expected
    <3>3. \A t \in Sessions : Known(t, r) => t = s
      BY <2>3, <2>4 DEF Calm, Known
    <3>4. QED BY <1>6, <2>1, <2>2, <3>1, <3>2, <3>3
  <2>5. CASE n # r
    <3>1. \A q \in Handlers : At(q, "save") /\ h[q].room = r => h[q].new # s
      BY <2>3, <2>5 DEF Calm
    <3>2. QED BY <1>5, <2>1, <2>2, <2>5, <3>1
  <2>6. QED BY <2>4, <2>5
<1>10. ASSUME NEW n \in Rooms, StartInRoom(p, n) PROVE Calm(r)'
  <2> DEFINE c == [Idle EXCEPT !.pc = "profile", !.cmd = "start", !.room = n]
  <2>1. c.pc = "profile" /\ c.room = n /\ c.old = NoSession /\ c.todo = {}
    BY DEF Idle
  <2>2. h' = [h EXCEPT ![p] = c] BY <1>10 DEF StartInRoom
  <2>3. CASE n = r
    <3>1. r \notin Taken /\ r \notin Leftover /\ BoundTo(r) = {}
      BY <1>10, <2>3 DEF StartInRoom, Disturb
    <3>2. ASSUME NEW s \in Sessions PROVE ~Known(s, r)
      <4>1. sessionRooms[s] # r BY <3>1 DEF BoundTo
      <4>2. portals[s] = r => Erasing(s) BY <1>3, <4>1 DEF Agrees
      <4>3. QED BY <3>1, <4>1, <4>2 DEF Known, Leftover
    <3>3. QED BY <1>6, <2>1, <2>2, <3>1, <3>2
  <2>4. CASE n # r
    <3>1. \A q \in Handlers : At(q, "save") => h[q].new # NoSession
      BY NullAssumption DEF Sound, Shape, ShapeOf, At
    <3>2. QED BY <1>5, <2>1, <2>2, <2>4, <3>1
  <2>5. QED BY <2>3, <2>4
<1>11. QED BY <1>7, <1>8, <1>9, <1>10, <1>1 DEF Request

\* ... and while commands work.
LEMMA CalmCommand ==
    ASSUME Sound, Ledger, UnopenedIsUnknown, NEW p \in Handlers, Command(p),
           NEW r \in Rooms, r \notin disturbed', Calm(r)
    PROVE  Calm(r)'
<1> USE DEF bindVars
<1>1. /\ running = "up" /\ running' = "up" /\ TypeOK /\ ShapeOf(p) /\ h[p] \in Commands
      /\ h \in [Handlers -> Commands] /\ FreshOf(p) /\ DroppedOf(p)
      /\ \A q \in Handlers : q # p => h'[q] = h[q]
  BY OthersStay DEF Sound, TypeOK, Shape, Hands
<1>2. \A s \in Sessions : Agrees(s, r) BY <1>1 DEF Calm
\* The command goes on in its room, or leaves it, and touches no binding.
<1>3. ASSUME UNCHANGED <<sessionRooms, portals>>, ~At(p, "save"), ~At(p, "erase"),
             ~At(p, "save")', h'[p].room = r => h[p].room = r /\ Expected(p) \subseteq Expected(p)',
             Marked(p)' \subseteq Marked(p) \cup {NoSession}
      PROVE  Calm(r)'
  <2>1. \A s \in Sessions : Agrees(s, r)'
    BY <1>1, <1>2, <1>3 DEF Agrees, Saving, Erasing, At
  <2>2. \A s \in Sessions : Known(s, r)' => Known(s, r) BY <1>3 DEF Known
  <2>3. ASSUME NEW s \in Sessions, Known(s, r)'
        PROVE  IF h'[p].room = r THEN s \in Expected(p)' ELSE Known(s, r)
    BY <1>3, <2>2, <2>3 DEF Calm
  <2>4. QED BY <1>1, <1>3, <2>1, <2>3, CalmMove
<1>4. ASSUME UNCHANGED <<sessionRooms, portals>>, ~At(p, "save"), ~At(p, "erase"), Finish(p)
      PROVE  Calm(r)'
  <2>1. h'[p].room # r /\ h'[p].pc = "idle" /\ Marked(p)' = {NoSession}
    BY <1>1, <1>4, FinishMoves, NullAssumption DEF Idle, Marked
  <2>2. QED BY <1>3, <1>4, <2>1 DEF At
<1>5. ASSUME UNCHANGED <<sessionRooms, portals>>, ~At(p, "save"), ~At(p, "erase"),
             h[p].pc \in Ending, h[p].cmd = "stop", h[p].new = NoSession,
             NextToStop(p, h[p].todo)
      PROVE  Calm(r)'
  <2>1. h[p].todo \in SUBSET Sessions BY <1>1 DEF Commands
  <2>2. \/ h'[p] = Idle
        \/ /\ h'[p].pc = "retire" /\ h'[p].cmd = "stop"
           /\ h'[p].old \in h[p].todo /\ h'[p].todo = h[p].todo \ {h'[p].old}
           /\ h'[p].room = h[p].room
    BY <1>1, <1>5, <2>1, NextToStopShape
  <2>3. Marked(p)' \subseteq Marked(p) \cup {NoSession} /\ ~At(p, "save")'
    BY <2>2 DEF Marked, Idle, At
  <2>4. Expected(p) = {} BY <1>5 DEF Expected, Ending
  <2>5. h'[p].room = r => h[p].room = r BY <2>2, NullAssumption DEF Idle
  <2>6. QED BY <1>3, <1>5, <2>3, <2>4, <2>5
<1>6. ASSUME UNCHANGED <<sessionRooms, portals>>, NEW step \in Steps, Goto(p, step),
             <<h[p].pc, step>> \in {<<"profile", "create">>, <<"get", "create">>,
                                    <<"room", "undo">>, <<"retire", "drop">>,
                                    <<"forget", "insert">>}
      PROVE  Calm(r)'
  <2>1. /\ h'[p].pc = step /\ h'[p].cmd = h[p].cmd /\ h'[p].room = h[p].room
        /\ h'[p].new = h[p].new /\ h'[p].old = h[p].old /\ h'[p].todo = h[p].todo
    BY <1>1, <1>6, GotoMoves
  <2>2. Expected(p) \subseteq Expected(p)' BY <1>1, <1>6, <2>1 DEF Expected, ShapeOf, At
  <2>3. QED BY <1>3, <1>6, <2>1, <2>2 DEF Marked, At
<1> USE DEF At
<1>7. CASE EnsureProfile(p)
  BY <1>4, <1>6, <1>7 DEF EnsureProfile, Steps
<1>8. CASE GetSession(p)
  BY <1>4, <1>6, <1>8 DEF GetSession, Steps
<1>9. CASE CreateSession(p)
  <2>1. ASSUME NEW n \in Sessions,
               h' = [h EXCEPT ![p] = [@ EXCEPT !.pc = AfterCreate(p), !.new = n]]
        PROVE  Calm(r)'
    <3>1. /\ h'[p].pc = AfterCreate(p) /\ h'[p].cmd = h[p].cmd /\ h'[p].room = h[p].room
          /\ h'[p].old = h[p].old /\ h'[p].todo = h[p].todo
      BY <1>1, <2>1 DEF Commands
    <3>2. h'[p].pc # "save" /\ Expected(p) \subseteq Expected(p)'
      BY <1>1, <1>9, <3>1 DEF CreateSession, Expected, AfterCreate, ShapeOf
    <3>3. QED BY <1>3, <1>9, <3>1, <3>2 DEF CreateSession, Marked
  <2>2. QED BY <1>4, <1>9, <2>1 DEF CreateSession
<1>10. CASE CreateSessionRoom(p)
  <2>1. ASSUME NEW n \in Rooms \ opened,
               h' = [h EXCEPT ![p] = [@ EXCEPT !.pc = "insert", !.room = n]]
        PROVE  Calm(r)'
    <3>1. /\ h'[p].pc = "insert" /\ h'[p].room = n
          /\ h'[p].old = h[p].old /\ h'[p].todo = h[p].todo
      BY <1>1, <2>1 DEF Commands
    <3>2. UNCHANGED <<sessionRooms, portals>> BY <1>10 DEF CreateSessionRoom
    <3>3. CASE n = r
      <4>1. \A s \in Sessions : sessionRooms'[s] # r /\ portals'[s] # r
        BY <2>1, <3>2, <3>3 DEF UnopenedIsUnknown, Known
      <4>2. \A q \in Handlers : h'[q].room = r => q = p /\ h'[q].pc # "save"
        BY <1>1, <2>1, <3>1, <3>3 DEF UnopenedIsUnknown
      <4>3. QED BY <4>1, <4>2 DEF Calm, Known, Agrees
    <3>4. CASE n # r
      BY <1>3, <1>10, <3>1, <3>2, <3>4 DEF CreateSessionRoom, Marked
    <3>5. QED BY <3>3, <3>4
  <2>2. QED BY <1>6, <1>10, <2>1 DEF CreateSessionRoom, Steps
<1>11. CASE Undo(p) \/ Track(p)
  BY <1>4, <1>11 DEF Undo, Track
<1>12. CASE RetireSession(p)
  <2>1. h[p].cmd # "new" => h[p].cmd = "stop" /\ h[p].new = NoSession
    BY <1>1, <1>12 DEF RetireSession, ShapeOf, Ending
  <2>2. QED BY <1>5, <1>6, <1>12, <2>1 DEF RetireSession, Steps, Ending
<1>13. CASE Forget(p)
  <2>1. h[p].cmd # "new" => h[p].cmd = "stop" /\ h[p].new = NoSession
    BY <1>1, <1>13 DEF Forget, ShapeOf, Ending
  <2>2. QED BY <1>5, <1>6, <1>13, <2>1 DEF Forget, Steps, Ending
<1>14. CASE InsertBinding(p)
  <2>1. /\ h[p].pc = "insert" /\ h[p].new \in Sessions /\ h[p].room \in Rooms
        /\ Pending(p) /\ h[p].new # NoSession
    BY <1>1, <1>14, NullAssumption DEF InsertBinding, ShapeOf, Pending, Holding
  <2>2. /\ h'[p].pc = "save" /\ h'[p].room = h[p].room
        /\ h'[p].new = h[p].new /\ h'[p].old = h[p].old /\ h'[p].todo = h[p].todo
    BY <1>1, <1>14, GotoMoves DEF InsertBinding, Steps
  <2>3. /\ sessionRooms'[h[p].new] = h[p].room
        /\ \A s \in Sessions : s # h[p].new => sessionRooms'[s] = sessionRooms[s]
        /\ portals' = portals
    BY <1>1, <1>14, <2>1 DEF InsertBinding, TypeOK
  <2>4. /\ sessionRooms[h[p].new] = NoRoom /\ portals[h[p].new] = NoRoom
        /\ \A q \in Handlers : h[p].new \notin Marked(q)
    BY <1>1, <2>1 DEF FreshOf, Ledger, Unsaved
  <2>5. \A q \in Handlers : Marked(q)' = Marked(q)
    BY <1>1, <2>2 DEF Marked
  <2>6. ASSUME NEW s \in Sessions PROVE Agrees(s, r)'
    <3>1. CASE s = h[p].new
      BY <2>2, <2>3, <2>4, <3>1, NullAssumption DEF Agrees, Saving
    <3>2. CASE s # h[p].new
      <4>1. Saving(s) => Saving(s)' BY <1>1, <2>1 DEF Saving
      <4>2. Erasing(s) => Erasing(s)' BY <1>1, <2>1 DEF Erasing
      <4>3. QED BY <1>2, <2>3, <3>2, <4>1, <4>2 DEF Agrees
    <3>3. QED BY <3>1, <3>2
  <2>7. ASSUME NEW s \in Sessions, Known(s, r)'
        PROVE  IF h'[p].room = r THEN s \in Expected(p)' ELSE Known(s, r)
    <3>1. CASE h'[p].room = r
      <4>1. Expected(p) = {} BY <2>1 DEF Expected
      <4>2. ~Known(s, r) BY <2>2, <3>1, <4>1 DEF Calm
      <4>3. s = h[p].new BY <2>3, <2>7, <4>2 DEF Known
      <4>4. QED BY <2>2, <3>1, <4>3 DEF Expected
    <3>2. CASE h'[p].room # r BY <2>2, <2>3, <2>7, <3>2 DEF Known
    <3>3. QED BY <3>1, <3>2
  <2>8. QED BY <1>1, <2>1, <2>2, <2>3, <2>4, <2>5, <2>6, <2>7, CalmMove
<1>15. CASE SavePortal(p)
  <2>1. /\ h[p].pc = "save" /\ h[p].new \in Sessions /\ h[p].new # NoSession
        /\ sessionRooms[h[p].new] \in {h[p].room, NoRoom} /\ portals[h[p].new] = NoRoom
        /\ h[p].room \in Rooms
    BY <1>1, <1>15, NullAssumption
    DEF SavePortal, ShapeOf, Ledger, BoundAsSaved, Unsaved
  <2>2. /\ h'[p].pc = "track" /\ h'[p].room = h[p].room
        /\ h'[p].new = h[p].new /\ h'[p].old = h[p].old /\ h'[p].todo = h[p].todo
    BY <1>1, <1>15, GotoMoves DEF SavePortal, Steps
  <2>3. /\ sessionRooms' = sessionRooms
        /\ \/ portals' = [portals EXCEPT ![h[p].new] = h[p].room]
           \/ portals' = portals /\ Disturb({h[p].room})
    BY <1>15 DEF SavePortal
  <2>4. \A s \in Sessions : s # h[p].new => portals'[s] = portals[s]
    BY <1>1, <2>3 DEF TypeOK
  <2>5. h[p].room = r => /\ sessionRooms[h[p].new] = r
                         /\ portals'[h[p].new] = r
    BY <1>1, <2>1, <2>3 DEF Calm, Disturb, TypeOK
  <2>6. h[p].room # r => portals'[h[p].new] # r /\ sessionRooms[h[p].new] # r
    BY <1>1, <2>1, <2>3, NullAssumption DEF TypeOK
  <2>7. ASSUME NEW s \in Sessions PROVE Agrees(s, r)'
    <3>1. CASE s = h[p].new BY <2>3, <2>5, <2>6, <3>1 DEF Agrees
    <3>2. CASE s # h[p].new
      <4>1. Saving(s) => Saving(s)' BY <1>1, <3>2 DEF Saving
      <4>2. Erasing(s) => Erasing(s)' BY <1>1, <2>1 DEF Erasing
      <4>3. QED BY <1>2, <2>3, <2>4, <3>2, <4>1, <4>2 DEF Agrees
    <3>3. QED BY <3>1, <3>2
  <2>8. ASSUME NEW s \in Sessions, Known(s, r)'
        PROVE  IF h'[p].room = r THEN s \in Expected(p)' ELSE Known(s, r)
    <3>1. Expected(p) = {h[p].new} /\ Expected(p)' = {h[p].new}
      BY <2>1, <2>2 DEF Expected
    <3>2. CASE s = h[p].new BY <2>2, <2>3, <2>6, <2>8, <3>1, <3>2 DEF Known
    <3>3. CASE s # h[p].new
      <4>1. Known(s, r) BY <2>3, <2>4, <2>8, <3>3 DEF Known
      <4>2. QED BY <2>2, <3>1, <4>1 DEF Calm
    <3>4. QED BY <3>2, <3>3
  <2>9. Marked(p)' = Marked(p) BY <2>2 DEF Marked
  <2>10. QED BY <1>1, <2>2, <2>3, <2>7, <2>8, <2>9, CalmMove
<1>16. CASE DropBinding(p)
  <2>1. h[p].pc = "drop" /\ h[p].old \in Sessions
    BY <1>1, <1>16 DEF DropBinding, ShapeOf, Ending
  <2>2. /\ h'[p].pc = "erase" /\ h'[p].cmd = h[p].cmd /\ h'[p].room = h[p].room
        /\ h'[p].new = h[p].new /\ h'[p].old = h[p].old /\ h'[p].todo = h[p].todo
    BY <1>1, <1>16, GotoMoves DEF DropBinding, Steps
  <2>3. /\ sessionRooms'[h[p].old] = NoRoom /\ portals' = portals
        /\ \A s \in Sessions : s # h[p].old => sessionRooms'[s] = sessionRooms[s]
    BY <1>1, <1>16, <2>1 DEF DropBinding, TypeOK
  <2>4. Marked(p)' = Marked(p) /\ h[p].old \in Marked(p) BY <2>2 DEF Marked
  <2>5. \A s \in Sessions : s = h[p].old => Erasing(s)' BY <2>2 DEF Erasing
  <2>6. ASSUME NEW s \in Sessions PROVE Agrees(s, r)'
    <3>1. CASE s = h[p].old
      BY <2>3, <2>5, <3>1, NullAssumption DEF Agrees
    <3>2. CASE s # h[p].old
      <4>1. Saving(s) => Saving(s)' BY <1>1, <2>1 DEF Saving
      <4>2. Erasing(s) => Erasing(s)' BY <1>1, <2>1 DEF Erasing
      <4>3. QED BY <1>2, <2>3, <3>2, <4>1, <4>2 DEF Agrees
    <3>3. QED BY <3>1, <3>2
  <2>7. \A s \in Sessions : Known(s, r)' => Known(s, r)
    BY <2>3, NullAssumption DEF Known
  <2>8. Expected(p)' = Expected(p) BY <2>1, <2>2 DEF Expected
  <2>9. ASSUME NEW s \in Sessions, Known(s, r)'
        PROVE  IF h'[p].room = r THEN s \in Expected(p)' ELSE Known(s, r)
    BY <2>2, <2>7, <2>8, <2>9 DEF Calm
  <2>10. QED BY <1>1, <2>2, <2>3, <2>4, <2>6, <2>9, CalmMove
<1>17. CASE DeletePortal(p)
  <2>1. h[p].pc = "erase" /\ h[p].old \in Sessions /\ sessionRooms[h[p].old] = NoRoom
    BY <1>1, <1>17 DEF DeletePortal, ShapeOf, Ending, DroppedOf
  <2>2. /\ h'[p].pc = "forget" /\ h'[p].cmd = h[p].cmd /\ h'[p].room = h[p].room
        /\ h'[p].new = h[p].new /\ h'[p].old = h[p].old /\ h'[p].todo = h[p].todo
    BY <1>1, <1>17, GotoMoves DEF DeletePortal, Steps
  <2>3. /\ sessionRooms' = sessionRooms
        /\ \/ portals' = [portals EXCEPT ![h[p].old] = NoRoom]
           \/ portals' = portals /\ Disturb({portals[h[p].old]})
    BY <1>17 DEF DeletePortal
  <2>4. /\ portals'[h[p].old] # r
        /\ \A s \in Sessions : s # h[p].old => portals'[s] = portals[s]
    BY <1>1, <2>1, <2>3, NullAssumption DEF Disturb, TypeOK
  <2>5. ASSUME NEW s \in Sessions PROVE Agrees(s, r)'
    <3>1. CASE s = h[p].old
      BY <2>1, <2>3, <2>4, <3>1, NullAssumption DEF Agrees
    <3>2. CASE s # h[p].old
      <4>1. Saving(s) => Saving(s)' BY <1>1, <2>1 DEF Saving
      <4>2. Erasing(s) => Erasing(s)' BY <1>1, <3>2 DEF Erasing
      <4>3. QED BY <1>2, <2>3, <2>4, <3>2, <4>1, <4>2 DEF Agrees
    <3>3. QED BY <3>1, <3>2
  <2>6. \A s \in Sessions : Known(s, r)' => Known(s, r) /\ s # h[p].old
    BY <2>1, <2>3, <2>4, NullAssumption DEF Known
  <2>7. Expected(p) \subseteq {h[p].old} BY <2>1 DEF Expected
  <2>8. ASSUME NEW s \in Sessions, Known(s, r)'
        PROVE  IF h'[p].room = r THEN s \in Expected(p)' ELSE Known(s, r)
    BY <2>2, <2>6, <2>7, <2>8 DEF Calm
  <2>9. Marked(p)' = Marked(p) BY <2>2 DEF Marked
  <2>10. QED BY <1>1, <2>2, <2>3, <2>5, <2>8, <2>9, CalmMove
<1>18. QED
  BY <1>7, <1>8, <1>9, <1>10, <1>11, <1>12, <1>13, <1>14, <1>15, <1>16, <1>17
  DEF Command

\* Commands bind to rooms that have been made.
LEMMA UnopenedStep ==
    ASSUME Sound, UnopenedIsUnknown, [Next]_vars
    PROVE  UnopenedIsUnknown'
<1> USE DEF UnopenedIsUnknown, Known, bindVars, procVars
<1>1. CASE UNCHANGED vars BY <1>1 DEF vars
<1>2. CASE Boot BY <1>2 DEF Boot, Restored
<1>3. CASE Serve BY <1>3 DEF Serve
<1>4. CASE Crash
  BY <1>4, NullAssumption DEF Crash, Idle
<1>5. ASSUME NEW s \in Sessions, Retrack(s) PROVE UnopenedIsUnknown'
  BY <1>5 DEF Retrack
<1>6. ASSUME NEW p \in Handlers, Request(p) PROVE UnopenedIsUnknown'
  <2>1. /\ UNCHANGED <<sessionRooms, portals, opened>> /\ TypeOK
        /\ \A q \in Handlers : q # p => h'[q] = h[q]
    BY <1>6, OthersStay DEF Request, StartInDM, StopInDM, NewInRoom, StartInRoom, Sound
  <2>2. h'[p].room \in opened \cup {NoRoom}
    <3>1. h \in [Handlers -> Commands] BY <2>1 DEF TypeOK
    <3>2. CASE StartInDM(p) BY <3>1, <3>2 DEF StartInDM, Idle
    <3>3. CASE StopInDM(p) BY <3>1, <3>3 DEF StopInDM, Idle
    <3>4. ASSUME NEW r \in Rooms, NewInRoom(p, r) PROVE h'[p].room \in opened
      <4>1. h'[p].room = r BY <3>1, <3>4 DEF NewInRoom, Idle
      <4>2. r \in opened BY <3>4 DEF NewInRoom, BoundTo
      <4>3. QED BY <4>1, <4>2
    <3>5. ASSUME NEW r \in Rooms, StartInRoom(p, r) PROVE h'[p].room \in opened
      <4>1. h'[p].room = r BY <3>1, <3>5 DEF StartInRoom, Idle
      <4>2. QED BY <3>5, <4>1 DEF StartInRoom
    <3>6. QED BY <1>6, <3>2, <3>3, <3>4, <3>5 DEF Request
  <2>3. QED BY <2>1, <2>2, NullAssumption
<1>7. ASSUME NEW p \in Handlers, Command(p) PROVE UnopenedIsUnknown'
  <2>1. /\ TypeOK /\ ShapeOf(p) /\ h[p] \in Commands
        /\ \A q \in Handlers : q # p => h'[q] = h[q]
    BY <1>7, OthersStay DEF Sound, TypeOK, Shape
  <2>2. /\ opened \subseteq opened'
        /\ \A s \in Sessions : sessionRooms'[s] \in {sessionRooms[s], NoRoom, h[p].room}
        /\ \A s \in Sessions : portals'[s] \in {portals[s], NoRoom, h[p].room}
    BY <1>7, <2>1
    DEF Command, EnsureProfile, GetSession, CreateSession, CreateSessionRoom, Undo,
        InsertBinding, SavePortal, Track, RetireSession, DropBinding, DeletePortal,
        Forget, TypeOK
  <2>3. h'[p].room \in opened' \cup {h[p].room, NoRoom}
    <3>1. ASSUME Finish(p) PROVE h'[p].room = NoRoom
      BY <2>1, <3>1, FinishMoves DEF Idle
    <3>2. ASSUME NEW step \in Steps, Goto(p, step) PROVE h'[p].room = h[p].room
      BY <2>1, <3>2, GotoMoves
    <3>3. ASSUME NextToStop(p, h[p].todo) PROVE h'[p].room \in {h[p].room, NoRoom}
      <4>1. ASSUME NEW s \in h[p].todo,
                   h' = [h EXCEPT ![p] = [@ EXCEPT !.pc = "retire", !.old = s,
                                                   !.todo = h[p].todo \ {s}]]
            PROVE  h'[p].room = h[p].room
        BY <2>1, <4>1 DEF TypeOK, Commands
      <4>2. QED BY <3>1, <3>3, <4>1 DEF NextToStop
    <3>4. CASE CreateSession(p)
      <4>1. ASSUME NEW n \in Sessions,
                   h' = [h EXCEPT ![p] = [@ EXCEPT !.pc = AfterCreate(p), !.new = n]]
            PROVE  h'[p].room = h[p].room
        BY <2>1, <4>1 DEF TypeOK, Commands
      <4>2. QED BY <3>1, <3>4, <4>1 DEF CreateSession
    <3>5. CASE CreateSessionRoom(p)
      <4>1. ASSUME NEW n \in Rooms \ opened, opened' = opened \cup {n},
                   h' = [h EXCEPT ![p] = [@ EXCEPT !.pc = "insert", !.room = n]]
            PROVE  h'[p].room \in opened'
        BY <2>1, <4>1 DEF TypeOK, Commands
      <4>2. QED BY <3>2, <3>5, <4>1 DEF CreateSessionRoom, Steps
    <3>6. QED
      BY <1>7, <3>1, <3>2, <3>3, <3>4, <3>5
      DEF Command, EnsureProfile, GetSession, Undo, InsertBinding, SavePortal, Track,
          RetireSession, DropBinding, DeletePortal, Forget, Steps
  <2>4. QED BY <2>1, <2>2, <2>3, NullAssumption
<1>8. QED BY <1>1, <1>2, <1>3, <1>4, <1>5, <1>6, <1>7 DEF Next, Process

LEMMA SettledStep ==
    ASSUME Sound, Streams, Ledger, Settled, [Next]_vars
    PROVE  Settled'
<1>1. UnopenedIsUnknown' BY UnopenedStep DEF Settled
<1>2. ASSUME NEW r \in Rooms, r \notin disturbed' PROVE Calm(r)'
  <2>1. Calm(r) /\ UnopenedIsUnknown BY <1>2, DisturbedGrows DEF Settled, Sound
  <2>2. CASE UNCHANGED vars
    BY <2>1, <2>2
    DEF vars, bindVars, procVars, Calm, Known, Expected, Marked, Agrees, Saving,
        Erasing, At
  <2>3. QED
    BY <1>2, <2>1, <2>2, CalmProcess, CalmRequest, CalmCommand DEF Next
<1>3. QED BY <1>1, <1>2 DEF Settled

\* What commands in flight, failures and restarts leave settled.
LEMMA SettledAlways == Spec => [](Sound /\ Streams /\ Ledger /\ Settled)
<1>1. Init => Sound /\ Streams /\ Ledger
  BY ShapeInit, HandsInit, LedgerInit
  DEF Init, Sound, Streams, BoundIsTracked, Mapped
<1>2. Init => Settled
  BY NullAssumption
  DEF Init, Settled, UnopenedIsUnknown, Calm, Known, Agrees, Idle, At
<1>3. /\ Sound /\ Streams /\ Ledger /\ Settled
      /\ [Next]_vars
      => (Sound /\ Streams /\ Ledger /\ Settled)'
  BY ShapeStep, HandsStep, StreamsStep, LedgerStep, SettledStep DEF Sound
<1>4. QED BY <1>1, <1>2, <1>3, PTL DEF Spec

\* "One session per Matrix room" (SPEC.md) in every room that is not disturbed:
\* for any commands in flight, however they interleave, any failed requests and
\* any restarts (appservice.go:273-346,516-666,733-782).
THEOREM OneSessionForARoom == Spec => []OneSessionUndisturbed
<1>1. Sound /\ Settled => OneSessionUndisturbed
  <2> SUFFICES ASSUME Sound, Settled, NEW s \in Mapped, NEW t \in Mapped,
                      sessionRooms[s] = sessionRooms[t], sessionRooms[s] \notin disturbed
               PROVE  s = t
    BY DEF OneSessionUndisturbed
  <2>1. s \in Sessions /\ t \in Sessions /\ sessionRooms[s] \in Rooms
    BY DEF Mapped, Sound, TypeOK
  <2>2. Calm(sessionRooms[s]) BY <2>1 DEF Settled
  <2>3. QED BY <2>1, <2>2 DEF Calm, Known
<1>2. QED BY <1>1, SettledAlways, PTL

\* The store holds the map of such rooms, but for what a command is about to save
\* or to erase, so that a restart rebuilds it as it was (appservice.go:172-211).
THEOREM StoreHoldsTheMap == Spec => []PortalsAgree
<1>1. Settled => PortalsAgree
  <2> SUFFICES ASSUME Settled, running # "down", NEW r \in Rooms \ disturbed,
                      NEW s \in Sessions
               PROVE  Agrees(s, r)
    BY DEF PortalsAgree, Agrees
  <2>1. QED BY DEF Settled, Calm
<1>2. QED BY <1>1, SettledAlways, PTL
=============================================================================
