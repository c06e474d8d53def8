-------------------------- MODULE MessagePathProofs --------------------------
(***************************************************************************)
(* Theorems about MessagePath, for any number of sessions, rooms, messages *)
(* and commands in flight, however they interleave and whatever fails: the *)
(* composition is an AppService, an answer appears in no other room than   *)
(* its message, the subscription skips none it should show, and the whole  *)
(* does what Conversation promises the users.                              *)
(***************************************************************************)
EXTENDS MessagePath, AppServiceProofs, SequenceTheorems

-----------------------------------------------------------------------------
(* The composition takes only steps of AppService *)

LEMMA PathStepIsStep == ASSUME [PathNext]_allVars PROVE [Next]_vars
<1>1. CASE ComesUp
  BY <1>1 DEF ComesUp, Next, Process
<1>2. CASE Dies
  BY <1>2 DEF Dies, Next, Process
<1>3. ASSUME NEW p \in Handlers, Carry(p) PROVE Next
  BY <1>3 DEF Carry, Next, Command
<1>4. ASSUME NEW p \in Handlers, Request(p) PROVE Next
  BY <1>4 DEF Next
<1>5. ASSUME NEW s \in Sessions, Restore(s) PROVE Next
  BY <1>5 DEF Restore, Next, Process
<1>6. ASSUME NEW s \in Sessions, DeliverAnswer(s) PROVE UNCHANGED vars
  BY <1>6 DEF DeliverAnswer
<1>7. ASSUME NEW x \in Messages, PostMessage(x) \/ Answer(x) PROVE UNCHANGED vars
  BY <1>7 DEF PostMessage, Answer
<1>8. ASSUME NEW x \in Messages, NEW r \in Rooms, WriteMessage(x, r)
      PROVE  UNCHANGED vars
  BY <1>8 DEF WriteMessage
<1>9. CASE UNCHANGED allVars
  BY <1>9 DEF allVars
<1> QED
  BY <1>1, <1>2, <1>3, <1>4, <1>5, <1>6, <1>7, <1>8, <1>9 DEF PathNext

-----------------------------------------------------------------------------
(* What a step does to the sessions commands have made, and to their rooms *)

\* Command p makes session s ...
Makes(p, s) ==
    /\ h[p].pc = "create" /\ h[p].new = NoSession /\ h'[p].new = s
    /\ forge[s] = "unborn" /\ forge'[s] = "live"
    /\ h'[p].pc = "room" => h'[p].room = NoRoom

\* ... or opens a room for it.
Opens(p, s) ==
    h[p].pc = "room" /\ h[p].new = s /\ h'[p].new = s /\ h'[p].pc = "insert"

Keeps(p) ==
    /\ h'[p].new = h[p].new /\ h'[p].room = h[p].room
    /\ h'[p].pc = "room" => h[p].pc = "room"
    /\ Pending(p)' => Pending(p)

NewMove(p) ==
    \/ h'[p].new = NoSession
    \/ Keeps(p)
    \/ \E s \in Sessions : Makes(p, s) \/ Opens(p, s)

LEMMA GotoKeeps ==
    ASSUME Sound, NEW p \in Handlers, NEW step \in Steps, Goto(p, step),
           step # "room", step \in Holding => h[p].pc \in Holding
    PROVE  Keeps(p)
<1>1. h'[p].pc = step /\ h'[p].new = h[p].new /\ h'[p].room = h[p].room
  BY GotoMoves DEF Sound
<1> QED
  BY <1>1 DEF Keeps, Pending

LEMMA NextToStopMoves ==
    ASSUME Sound, NEW p \in Handlers, h[p].pc \in Ending, h[p].cmd = "stop",
           NextToStop(p, h[p].todo)
    PROVE  h'[p].new = NoSession
<1>1. h[p].new = NoSession /\ h[p].todo \in SUBSET Sessions /\ TypeOK
  BY NullAssumption DEF Sound, Shape, ShapeOf, TypeOK, Commands, Ending
<1> QED
  BY <1>1, NextToStopShape DEF Idle

LEMMA CommandMoves ==
    ASSUME Sound, NEW p \in Handlers, Command(p) PROVE NewMove(p)
<1>0. h[p] \in Commands /\ TypeOK /\ ShapeOf(p)
  BY DEF Sound, TypeOK, Shape
<1> USE DEF At
<1>1. ASSUME Finish(p) PROVE NewMove(p)
  BY <1>0, <1>1, FinishMoves DEF NewMove, Idle
<1>2. CASE EnsureProfile(p) \/ GetSession(p)
  <2>1. Finish(p) \/ Goto(p, "create")
    BY <1>2 DEF EnsureProfile, GetSession
  <2> QED
    BY <1>1, <2>1, GotoKeeps DEF NewMove, Steps, Holding, Ending
<1>3. CASE CreateSession(p)
  <2>1. ASSUME NEW s \in Sessions, Make(p, s),
               h' = [h EXCEPT ![p] = [@ EXCEPT !.pc = AfterCreate(p), !.new = s]]
        PROVE  NewMove(p)
    <3>1. h'[p].new = s /\ h'[p].room = h[p].room /\ h'[p].pc = AfterCreate(p)
      BY <1>0, <2>1 DEF Commands, TypeOK
    <3>2. h'[p].pc = "room" => h'[p].room = NoRoom
      BY <3>1 DEF AfterCreate
    <3>3. Makes(p, s)
      BY <1>0, <1>3, <2>1, <3>1, <3>2 DEF Makes, Make, CreateSession, ShapeOf, TypeOK
    <3> QED
      BY <3>3 DEF NewMove
  <2> QED
    BY <1>1, <1>3, <2>1 DEF CreateSession
<1>4. CASE CreateSessionRoom(p)
  <2>1. ASSUME NEW r \in Rooms,
               h' = [h EXCEPT ![p] = [@ EXCEPT !.pc = "insert", !.room = r]]
        PROVE  NewMove(p)
    <3>1. h'[p].new = h[p].new /\ h'[p].pc = "insert"
      BY <1>0, <2>1 DEF Commands, TypeOK
    <3> QED
      BY <1>0, <1>4, <3>1 DEF NewMove, Opens, CreateSessionRoom, ShapeOf
  <2> QED
    BY <1>4, <2>1, GotoKeeps DEF CreateSessionRoom, NewMove, Steps, Holding, Ending
<1>5. CASE Undo(p) \/ Track(p)
  BY <1>1, <1>5 DEF Undo, Track
<1>6. CASE InsertBinding(p) \/ SavePortal(p)
  BY <1>6, GotoKeeps DEF InsertBinding, SavePortal, NewMove, Steps, Holding, Ending
<1>7. CASE RetireSession(p)
  BY <1>0, <1>7, GotoKeeps, NextToStopMoves
     DEF RetireSession, NewMove, Steps, Holding, Ending, ShapeOf
<1>8. CASE DropBinding(p) \/ DeletePortal(p)
  BY <1>8, GotoKeeps DEF DropBinding, DeletePortal, NewMove, Steps, Holding, Ending
<1>9. CASE Forget(p)
  BY <1>0, <1>9, GotoKeeps, NextToStopMoves
     DEF Forget, NewMove, Steps, Holding, Ending, ShapeOf
<1> QED
  BY <1>2, <1>3, <1>4, <1>5, <1>6, <1>7, <1>8, <1>9 DEF Command

\* What a step does to the map, the portals and forge.
BindMove ==
    /\ \A s \in Sessions :
         \/ sessionRooms'[s] \in {sessionRooms[s], NoRoom}
         \/ running = "down" /\ sessionRooms'[s] = portals[s]
         \/ \E p \in Handlers : /\ h[p].new = s /\ Pending(p)
                               /\ sessionRooms'[s] = h[p].room
    /\ \A s \in Sessions :
         \/ portals'[s] \in {portals[s], NoRoom}
         \/ \E p \in Handlers : h[p].new = s /\ portals'[s] = h[p].room
    /\ \A s \in Sessions : forge'[s] = "unborn" => forge[s] = "unborn"

LEMMA CommandBinds ==
    ASSUME Sound, NEW p \in Handlers, Command(p) PROVE BindMove
<1>0. /\ TypeOK /\ ShapeOf(p) /\ h[p] \in Commands
      /\ h[p].new \in Sessions \cup {NoSession}
  BY DEF Sound, TypeOK, Shape, Commands
<1> USE DEF BindMove, At, bindVars
<1>1. CASE EnsureProfile(p) \/ GetSession(p) \/ CreateSessionRoom(p) \/ Track(p) \/ Forget(p)
  BY <1>1 DEF EnsureProfile, GetSession, CreateSessionRoom, Track, Forget
<1>2. CASE CreateSession(p)
  <2>1. UNCHANGED <<sessionRooms, portals>>
    BY <1>2 DEF CreateSession
  <2>2. \A s \in Sessions : forge'[s] = "unborn" => forge[s] = "unborn"
    BY <1>0, <1>2 DEF CreateSession, Make, TypeOK
  <2> QED
    BY <2>1, <2>2
<1>3. CASE Undo(p) \/ RetireSession(p)
  <2>1. UNCHANGED <<sessionRooms, portals>>
    BY <1>3 DEF Undo, RetireSession
  <2>2. \A s \in Sessions : forge'[s] = "unborn" => forge[s] = "unborn"
    <3>1. PICK s \in Sessions, known \in BOOLEAN : DeleteSession(s, known)
      BY <1>0, <1>3 DEF Undo, RetireSession, ShapeOf, Ending
    <3> QED
      BY <1>0, <3>1, DeleteTypes
  <2> QED
    BY <2>1, <2>2
<1>4. CASE InsertBinding(p)
  <2>1. h[p].new \in Sessions /\ Pending(p)
    BY <1>0, <1>4, NullAssumption DEF InsertBinding, ShapeOf, Pending, Holding
  <2> QED
    BY <1>0, <1>4, <2>1 DEF InsertBinding, TypeOK
<1>5. CASE SavePortal(p)
  BY <1>0, <1>5 DEF SavePortal, TypeOK
<1>6. CASE DropBinding(p)
  BY <1>0, <1>6 DEF DropBinding, TypeOK
<1>7. CASE DeletePortal(p)
  BY <1>0, <1>7 DEF DeletePortal, TypeOK
<1> QED
  BY <1>1, <1>2, <1>3, <1>4, <1>5, <1>6, <1>7 DEF Command

LEMMA OneMoves ==
    ASSUME Sound, [Next]_vars, NEW p \in Handlers, NEW q \in Handlers, p # q
    PROVE  h'[p] = h[p] \/ h'[q] = h[q] \/ (h'[p] = Idle /\ h'[q] = Idle)
<1>1. CASE Process \/ UNCHANGED vars
  BY <1>1 DEF Process, Boot, Serve, Crash, Retrack, vars
<1>2. ASSUME NEW t \in Handlers, Request(t) \/ Command(t)
      PROVE  h'[p] = h[p] \/ h'[q] = h[q]
  BY <1>2, OthersStay
<1> QED
  BY <1>1, <1>2 DEF Next

LEMMA StepMoves ==
    ASSUME Sound, [Next]_vars PROVE BindMove /\ \A p \in Handlers : NewMove(p)
<1>1. ASSUME NEW p \in Handlers, Request(p) \/ Command(p)
      PROVE  BindMove /\ \A q \in Handlers : NewMove(q)
  <2>1. \A q \in Handlers \ {p} : NewMove(q)
    BY <1>1, OthersStay DEF NewMove, Keeps, Pending
  <2>2. CASE Command(p)
    BY <2>1, <2>2, CommandBinds, CommandMoves
  <2>3. CASE Request(p)
    <3>1. UNCHANGED <<sessionRooms, portals, forge>>
      BY <2>3 DEF Request, StartInDM, StopInDM, NewInRoom, StartInRoom, bindVars
    <3>2. h'[p].new = NoSession
      BY <2>3 DEF Request, StartInDM, StopInDM, NewInRoom, StartInRoom, Idle, Sound,
                  TypeOK
    <3> QED
      BY <2>1, <3>1, <3>2 DEF BindMove, NewMove
  <2> QED
    BY <1>1, <2>2, <2>3
<1>2. CASE Process \/ UNCHANGED vars
  <2>1. BindMove
    BY <1>2 DEF Process, Boot, Serve, Crash, Retrack, Restored, vars, bindVars, BindMove
  <2>2. h' = h \/ \A q \in Handlers : h'[q] = Idle
    BY <1>2 DEF Process, Boot, Serve, Crash, Retrack, vars
  <2> QED
    BY <2>1, <2>2 DEF NewMove, Keeps, Pending, Idle
<1> QED
  BY <1>1, <1>2 DEF Next

-----------------------------------------------------------------------------
(* Every session has one room for good *)

\* What a message has at each of its stages.
MailOf(x) ==
    /\ stage[x] = "unwritten" => via[x] = NoSession /\ shown[x] = NoRoom
    /\ stage[x] \in {"found", "posted"} => via[x] # NoSession
    /\ via[x] # NoSession => room[x] \in Rooms
    /\ shown[x] \in {NoRoom, room[x]}

RowsOf(s) ==
    \A i \in 1..Len(rows[s]) : stage[rows[s][i]] = "posted" /\ via[rows[s][i]] = s

\* Someone takes room a for the room of session s: the map, the store, a command,
\* or a message.
HasHome(s, a) ==
    \/ sessionRooms[s] = a \/ portals[s] = a
    \/ \E p \in Handlers : h[p].new = s /\ h[p].room = a
    \/ \E x \in Messages : via[x] = s /\ room[x] = a

\* All of them agree, and nobody knows a room of a session that has none yet.
OneHome ==
    \A s \in Sessions, a, b \in Rooms : HasHome(s, a) /\ HasHome(s, b) => a = b
Homeless ==
    \A s \in Sessions, a \in Rooms :
        (forge[s] = "unborn" \/ \E p \in Handlers : h[p].new = s /\ h[p].pc = "room")
            => ~HasHome(s, a)

Homes ==
    /\ \A x \in Messages : MailOf(x)
    /\ \A s \in Sessions : RowsOf(s)
    /\ OneHome /\ Homeless

PathSound == Sound /\ PathTypeOK /\ Homes

\* What a step does to messages.
MailMove ==
    /\ \A x \in Messages :
         \/ /\ via'[x] = via[x]
            /\ via[x] = NoSession \/ room'[x] = room[x]
         \/ /\ via[x] = NoSession /\ via'[x] \in Sessions /\ room'[x] \in Rooms
            /\ sessionRooms[via'[x]] = room'[x]
    /\ UNCHANGED vars \/ UNCHANGED <<via, room>>

LEMMA MailMoves == ASSUME PathSound, [PathNext]_allVars PROVE MailMove
<1> USE DEF MailMove
<1>1. ASSUME NEW x \in Messages, NEW r \in Rooms, WriteMessage(x, r) PROVE MailMove
  <2>1. via[x] = NoSession /\ UNCHANGED vars
    BY <1>1 DEF WriteMessage, PathSound, Homes, MailOf
  <2>2. room' = [room EXCEPT ![x] = r]
    BY <1>1 DEF WriteMessage
  <2>3. \/ UNCHANGED via
        \/ \E s \in BoundTo(r) : via' = [via EXCEPT ![x] = s]
    BY <1>1 DEF WriteMessage, SessionForRoom
  <2> QED
    BY <2>1, <2>2, <2>3 DEF BoundTo, PathSound, PathTypeOK
<1>2. CASE ComesUp
  BY <1>2 DEF ComesUp, pathVars, messageVars
<1>3. CASE Dies
  BY <1>3 DEF Dies
<1>4. ASSUME NEW p \in Handlers, Carry(p) \/ (Request(p) /\ UNCHANGED pathVars)
      PROVE  MailMove
  BY <1>4 DEF Carry, pathVars, messageVars
<1>5. ASSUME NEW s \in Sessions, Restore(s) \/ DeliverAnswer(s) PROVE MailMove
  BY <1>5 DEF Restore, DeliverAnswer, messageVars
<1>6. ASSUME NEW x \in Messages, PostMessage(x) \/ Answer(x) PROVE MailMove
  BY <1>6 DEF PostMessage, Answer, messageVars
<1>7. CASE UNCHANGED allVars
  BY <1>7 DEF allVars, pathVars, messageVars
<1> QED
  BY <1>1, <1>2, <1>3, <1>4, <1>5, <1>6, <1>7 DEF PathNext

\* The step gives session s the room a, its first.
Houses(s, a) ==
    \E p \in Handlers : h'[p].room = a /\ (Makes(p, s) \/ Opens(p, s))

LEMMA HomeGrows ==
    ASSUME PathSound, [PathNext]_allVars, NEW s \in Sessions, NEW a \in Rooms,
           HasHome(s, a)'
    PROVE  HasHome(s, a) \/ Houses(s, a)
<1>0. Sound /\ s # NoSession /\ a # NoRoom
  BY NullAssumption DEF PathSound
<1>1. BindMove /\ \A p \in Handlers : NewMove(p)
  BY <1>0, PathStepIsStep, StepMoves
<1>2. CASE sessionRooms'[s] = a \/ portals'[s] = a
  BY <1>0, <1>1, <1>2 DEF BindMove, HasHome
<1>3. ASSUME NEW p \in Handlers, h'[p].new = s, h'[p].room = a
      PROVE  HasHome(s, a) \/ Houses(s, a)
  BY <1>0, <1>1, <1>3 DEF NewMove, Keeps, HasHome, Houses, Makes, Opens
<1>4. ASSUME NEW x \in Messages, via'[x] = s, room'[x] = a PROVE HasHome(s, a)
  BY <1>0, <1>4, MailMoves DEF MailMove, HasHome
<1> QED
  BY <1>2, <1>3, <1>4 DEF HasHome

\* Only a session without a room is given one, by one command.
LEMMA HousedWasHomeless ==
    ASSUME PathSound, [PathNext]_allVars, NEW s \in Sessions, NEW a \in Rooms,
           NEW b \in Rooms, Houses(s, a)
    PROVE  ~HasHome(s, b) /\ (Houses(s, b) => a = b)
<1>1. Sound /\ Homeless /\ s # NoSession
  BY NullAssumption DEF PathSound, Homes
<1>2. PICK p \in Handlers : h'[p].room = a /\ (Makes(p, s) \/ Opens(p, s))
  BY DEF Houses
<1>3. ~HasHome(s, b)
  BY <1>1, <1>2 DEF Makes, Opens, Homeless
<1>4. ASSUME NEW q \in Handlers, q # p, Makes(q, s) \/ Opens(q, s) PROVE FALSE
  <2>1. ASSUME NEW t \in Handlers, Opens(t, s) PROVE Pending(t)
    BY <1>1, <2>1 DEF Opens, Pending, Holding
  <2>2. FreshOf(p) /\ FreshOf(q)
    BY <1>1 DEF Sound, Hands
  <2>3. Makes(p, s) /\ Makes(q, s)
    BY <1>2, <1>4, <2>1, <2>2 DEF FreshOf, Makes, Opens
  <2>4. h'[p] = h[p] \/ h'[q] = h[q] \/ (h'[p] = Idle /\ h'[q] = Idle)
    BY <1>1, <1>4, PathStepIsStep, OneMoves
  <2> QED
    BY <1>1, <2>3, <2>4 DEF Makes, Idle
<1> QED
  BY <1>2, <1>3, <1>4 DEF Houses

LEMMA OneHomeStep ==
    ASSUME PathSound, [PathNext]_allVars PROVE OneHome'
<1> SUFFICES ASSUME NEW s \in Sessions, NEW a \in Rooms, NEW b \in Rooms,
                    HasHome(s, a)', HasHome(s, b)'
             PROVE  a = b
  BY DEF OneHome, HasHome
<1>1. /\ HasHome(s, a) \/ Houses(s, a)
      /\ HasHome(s, b) \/ Houses(s, b)
  BY HomeGrows
<1>2. /\ Houses(s, a) => ~HasHome(s, b) /\ (Houses(s, b) => a = b)
      /\ Houses(s, b) => ~HasHome(s, a)
  BY HousedWasHomeless
<1>3. HasHome(s, a) /\ HasHome(s, b) => a = b
  BY DEF PathSound, Homes, OneHome
<1> QED
  BY <1>1, <1>2, <1>3

LEMMA HomelessStep ==
    ASSUME PathSound, [PathNext]_allVars PROVE Homeless'
<1>0. Sound /\ Homeless /\ BindMove /\ \A p \in Handlers : NewMove(p)
  BY PathStepIsStep, StepMoves DEF PathSound, Homes
<1> SUFFICES ASSUME NEW s \in Sessions, NEW a \in Rooms, HasHome(s, a)'
             PROVE  /\ forge'[s] # "unborn"
                    /\ \A p \in Handlers : ~(h'[p].new = s /\ h'[p].pc = "room")
  BY DEF Homeless, HasHome
<1>1. HasHome(s, a) \/ Houses(s, a)
  BY HomeGrows
<1>2. s # NoSession /\ NoRoom \notin Rooms
  BY NullAssumption
<1>3. forge'[s] # "unborn"
  <2>1. CASE HasHome(s, a)
    BY <1>0, <2>1 DEF Homeless, BindMove
  <2>2. ASSUME NEW p \in Handlers, Makes(p, s) PROVE forge'[s] # "unborn"
    BY <2>2 DEF Makes
  <2>3. ASSUME NEW p \in Handlers, Opens(p, s) PROVE forge'[s] # "unborn"
    <3>1. Pending(p) /\ FreshOf(p)
      BY <1>0, <1>2, <2>3 DEF Opens, Pending, Holding, Sound, Hands
    <3>2. forge[s] = "live"
      BY <2>3, <3>1 DEF FreshOf, Opens
    <3> QED
      BY <1>0, <3>2 DEF BindMove
  <2> QED
    BY <1>1, <2>1, <2>2, <2>3 DEF Houses
<1>4. ASSUME NEW p \in Handlers, h'[p].new = s, h'[p].pc = "room" PROVE FALSE
  <2>1. (h[p].new = s /\ h[p].pc = "room") \/ (Makes(p, s) /\ h'[p].room = NoRoom)
    BY <1>0, <1>2, <1>4 DEF NewMove, Keeps, Makes, Opens
  <2>2. ~HasHome(s, a)
    BY <1>0, <2>1 DEF Homeless, Makes
  <2>3. PICK q \in Handlers : h'[q].room = a /\ (Makes(q, s) \/ Opens(q, s))
    BY <1>1, <2>2 DEF Houses
  <2>4. q # p
    BY <1>2, <1>4, <2>1, <2>3 DEF Makes, Opens
  <2>5. CASE h[p].new = s /\ h[p].pc = "room"
    <3>1. Pending(p) /\ FreshOf(p)
      BY <1>0, <1>2, <2>5 DEF Pending, Holding, Sound, Hands
    <3> QED
      BY <2>3, <2>4, <2>5, <3>1 DEF FreshOf, Makes, Opens
  <2>6. CASE Makes(p, s)
    <3>1. h'[p] = h[p] \/ h'[q] = h[q] \/ (h'[p] = Idle /\ h'[q] = Idle)
      BY <1>0, <2>4, PathStepIsStep, OneMoves
    <3>2. h'[p] # h[p] /\ h'[p] # Idle
      BY <1>2, <2>6 DEF Makes, Idle
    <3>3. Opens(q, s)
      BY <1>2, <2>3, <3>1, <3>2 DEF Makes
    <3>4. Pending(q) /\ FreshOf(q)
      BY <1>0, <1>2, <3>3 DEF Opens, Pending, Holding, Sound, Hands
    <3> QED
      BY <2>6, <3>3, <3>4 DEF FreshOf, Makes, Opens
  <2> QED
    BY <2>1, <2>5, <2>6
<1> QED
  BY <1>3, <1>4

-----------------------------------------------------------------------------
(* Messages and answers *)

\* The room of the session is the room of the messages it answers.
LEMMA AnswersHome ==
    ASSUME PathSound, NEW s \in Sessions, NEW i \in 1..Len(rows[s])
    PROVE  /\ rows[s][i] \in Messages
           /\ via[rows[s][i]] = s /\ stage[rows[s][i]] = "posted"
           /\ sessionRooms[s] \in {NoRoom, room[rows[s][i]]}
<1>1. /\ rows[s][i] \in Messages
      /\ via[rows[s][i]] = s /\ stage[rows[s][i]] = "posted"
  BY ElementOfSeq DEF PathSound, PathTypeOK, Homes, RowsOf
<1>2. room[rows[s][i]] \in Rooms
  BY <1>1, NullAssumption DEF PathSound, Homes, MailOf
<1>3. HasHome(s, room[rows[s][i]]) /\ HasHome(s, sessionRooms[s])
  BY <1>1 DEF HasHome
<1>4. sessionRooms[s] \in Rooms \cup {NoRoom}
  BY DEF PathSound, PathTypeOK, TypeOK
<1> QED
  BY <1>1, <1>2, <1>3, <1>4 DEF PathSound, Homes, OneHome

\* The row the subscription takes next.
LEMMA NextRow ==
    ASSUME PathSound, NEW s \in Sessions, cursor[s] < Len(rows[s])
    PROVE  cursor[s] + 1 \in 1..Len(rows[s])
BY LenProperties DEF PathSound, PathTypeOK

LEMMA Appended ==
    ASSUME PathSound, NEW s \in Sessions, NEW x \in Messages
    PROVE  /\ Append(rows[s], x) \in Seq(Messages)
           /\ Len(Append(rows[s], x)) = Len(rows[s]) + 1
           /\ Len(rows[s]) \in Nat
           /\ \A i \in 1..Len(rows[s]) : Append(rows[s], x)[i] = rows[s][i]
           /\ Append(rows[s], x)[Len(rows[s]) + 1] = x
BY AppendProperties, LenProperties DEF PathSound, PathTypeOK

LEMMA SeedTypes ==
    ASSUME PathSound, NEW s \in Sessions, Seed(s)
    PROVE  /\ cursor' \in [Sessions -> Nat]
           /\ \A t \in Sessions : cursor'[t] <= Len(rows[t])
<1>1. /\ cursor \in [Sessions -> Nat]
      /\ \A t \in Sessions : Len(rows[t]) \in Nat /\ cursor[t] <= Len(rows[t])
  BY LenProperties DEF PathSound, PathTypeOK
<1>2. CASE UNCHANGED cursor
  BY <1>1, <1>2
<1>3. ASSUME NEW n \in {0, Len(rows[s])}, cursor' = [cursor EXCEPT ![s] = n]
      PROVE  /\ cursor' \in [Sessions -> Nat]
             /\ \A t \in Sessions : cursor'[t] <= Len(rows[t])
  <2>1. n \in Nat /\ n <= Len(rows[s])
    BY <1>1
  <2> QED
    BY <1>1, <1>3, <2>1
<1> QED
  BY <1>2, <1>3 DEF Seed

\* Types.
LEMMA PathTypeStep ==
    ASSUME PathSound, TypeOK', [PathNext]_allVars PROVE PathTypeOK'
<1> USE DEF PathTypeOK
<1>0. PathTypeOK
  BY DEF PathSound
<1>1. ASSUME NEW x \in Messages, NEW r \in Rooms, WriteMessage(x, r)
      PROVE  PathTypeOK'
  <2>1. UNCHANGED via \/ \E s \in Sessions : via' = [via EXCEPT ![x] = s]
    BY <1>1 DEF WriteMessage, SessionForRoom, BoundTo
  <2>2. early' = early \/ early' = early \cup {x}
    BY <1>1 DEF WriteMessage
  <2>3. \E t \in {"told", "found"} : stage' = [stage EXCEPT ![x] = t]
    BY <1>1 DEF WriteMessage
  <2>4. room' = [room EXCEPT ![x] = r] /\ UNCHANGED answerVars
    BY <1>1 DEF WriteMessage
  <2>5. stage' \in [Messages -> {"unwritten", "found", "posted", "told", "lost"}]
    BY <1>0, <2>3
  <2>6. /\ room' \in [Messages -> Rooms \cup {NoRoom}]
        /\ via' \in [Messages -> Sessions \cup {NoSession}]
        /\ early' \in SUBSET Messages
    BY <1>0, <2>1, <2>2, <2>4
  <2> QED
    BY <1>0, <2>4, <2>5, <2>6 DEF answerVars
<1>2. ASSUME NEW x \in Messages, PostMessage(x) PROVE PathTypeOK'
  BY <1>0, <1>2 DEF PostMessage, answerVars
<1>3. ASSUME NEW x \in Messages, Answer(x) PROVE PathTypeOK'
  <2>1. via[x] \in Sessions \cup {NoSession}
    BY <1>0
  <2>2. ASSUME NEW s \in Sessions, via[x] = s
        PROVE  /\ rows' \in [Sessions -> Seq(Messages)]
               /\ \A t \in Sessions : cursor[t] <= Len(rows'[t])
    BY <1>0, <1>3, <2>2, Appended DEF Answer
  <2>3. ASSUME via[x] = NoSession PROVE rows' = rows
    BY <1>0, <1>3, <2>3, NullAssumption DEF Answer
  <2> QED
    BY <1>0, <1>3, <2>1, <2>2, <2>3 DEF Answer, messageVars
<1>4. ASSUME NEW s \in Sessions, DeliverAnswer(s) PROVE PathTypeOK'
  <2>1. cursor[s] + 1 \in 1..Len(rows[s])
    BY <1>4, NextRow DEF DeliverAnswer
  <2>2. rows[s][cursor[s] + 1] \in Messages
    BY <2>1, AnswersHome
  <2>3. /\ cursor' \in [Sessions -> Nat]
        /\ \A t \in Sessions : cursor'[t] <= Len(rows[t])
    BY <1>0, <1>4, <2>1 DEF DeliverAnswer, Advanced
  <2>4. /\ shown' \in [Messages -> Rooms \cup {NoRoom}]
        /\ refused' \in SUBSET Messages
    BY <1>0, <1>4, <2>2 DEF DeliverAnswer, RoomForSession, TypeOK
  <2> QED
    BY <1>0, <1>4, <2>3, <2>4 DEF DeliverAnswer, messageVars
<1>5. ASSUME NEW p \in Handlers, Carry(p) PROVE PathTypeOK'
  <2>1. CASE UNCHANGED pathVars
    BY <1>0, <2>1 DEF pathVars, messageVars, answerVars
  <2>2. CASE Track(p) /\ Seed(h[p].new) /\ UNCHANGED <<messageVars, rows, shown, refused>>
    <3>1. h[p].new \in Sessions
      BY <2>2 DEF Track, PathSound, Sound, Shape, ShapeOf, At
    <3> QED
      BY <1>0, <2>2, <3>1, SeedTypes DEF messageVars
  <2> QED
    BY <1>5, <2>1, <2>2 DEF Carry
<1>6. ASSUME NEW s \in Sessions, Restore(s) PROVE PathTypeOK'
  BY <1>0, <1>6, SeedTypes DEF Restore, messageVars
<1>7. CASE Dies
  BY <1>0, <1>7 DEF Dies, answerVars
<1>8. CASE UNCHANGED pathVars
  BY <1>0, <1>8 DEF pathVars, messageVars, answerVars
<1> QED
  BY <1>1, <1>2, <1>3, <1>4, <1>5, <1>6, <1>7, <1>8 DEF PathNext, ComesUp, allVars

\* What messages and rows have at their stages.
LEMMA MailStep ==
    ASSUME PathSound, PathTypeOK', [PathNext]_allVars
    PROVE  /\ \A x \in Messages : MailOf(x)'
           /\ \A s \in Sessions : RowsOf(s)'
<1> USE DEF MailOf, RowsOf
<1>0. /\ PathTypeOK /\ \A x \in Messages : MailOf(x)
      /\ \A s \in Sessions : RowsOf(s)
  BY DEF PathSound, Homes
<1> DEFINE Goal == /\ \A x \in Messages : MailOf(x)'
                   /\ \A s \in Sessions : RowsOf(s)'
<1>a. \A s \in Sessions : \A i \in 1..Len(rows[s]) : rows[s][i] \in Messages
  BY AnswersHome
<1>1. ASSUME NEW x \in Messages, NEW r \in Rooms, WriteMessage(x, r) PROVE Goal
  <2>1. /\ stage[x] = "unwritten" /\ room' = [room EXCEPT ![x] = r]
        /\ \/ stage' = [stage EXCEPT ![x] = "told"] /\ UNCHANGED via
           \/ /\ stage' = [stage EXCEPT ![x] = "found"]
              /\ \E s \in Sessions : via' = [via EXCEPT ![x] = s]
        /\ UNCHANGED <<rows, shown>>
    BY <1>1 DEF WriteMessage, SessionForRoom, BoundTo, answerVars
  <2>2. \A y \in Messages : MailOf(y)'
    BY <1>0, <2>1, NullAssumption DEF PathTypeOK
  <2>3. \A s \in Sessions : RowsOf(s)'
    BY <1>0, <1>a, <2>1 DEF PathTypeOK
  <2> QED
    BY <2>2, <2>3
<1>2. ASSUME NEW x \in Messages, PostMessage(x) PROVE Goal
  <2>1. /\ stage[x] = "found"
        /\ \E t \in {"told", "posted"} : stage' = [stage EXCEPT ![x] = t]
        /\ UNCHANGED <<via, room, rows, shown>>
    BY <1>2 DEF PostMessage, answerVars
  <2>2. \A y \in Messages : MailOf(y)'
    BY <1>0, <2>1 DEF PathTypeOK
  <2>3. \A s \in Sessions : RowsOf(s)'
    BY <1>0, <1>a, <2>1 DEF PathTypeOK
  <2> QED
    BY <2>2, <2>3
<1>3. ASSUME NEW x \in Messages, Answer(x) PROVE Goal
  <2>1. UNCHANGED messageVars /\ UNCHANGED shown /\ stage[x] = "posted"
        /\ rows' = [rows EXCEPT ![via[x]] = Append(@, x)]
    BY <1>3 DEF Answer
  <2>2. ASSUME NEW s \in Sessions PROVE RowsOf(s)'
    <3>1. CASE s # via[x]
      BY <1>0, <2>1, <3>1 DEF messageVars, PathTypeOK
    <3>2. CASE s = via[x]
      <4>1. rows'[s] = Append(rows[s], x)
        BY <1>0, <2>1, <3>2 DEF PathTypeOK
      <4>2. \A i \in 1..Len(rows'[s]) :
               \/ rows'[s][i] = x
               \/ i \in 1..Len(rows[s]) /\ rows'[s][i] = rows[s][i]
        <5>1. /\ Len(rows'[s]) = Len(rows[s]) + 1 /\ Len(rows[s]) \in Nat
              /\ \A i \in 1..Len(rows[s]) : rows'[s][i] = rows[s][i]
              /\ rows'[s][Len(rows[s]) + 1] = x
          BY <4>1, Appended
        <5>2. \A i \in 1..(Len(rows[s]) + 1) :
                  i = Len(rows[s]) + 1 \/ i \in 1..Len(rows[s])
          BY <5>1
        <5> QED
          BY <5>1, <5>2
      <4> QED
        BY <1>0, <2>1, <3>2, <4>2 DEF messageVars
    <3> QED
      BY <3>1, <3>2
  <2> QED
    BY <1>0, <2>1, <2>2 DEF messageVars
<1>4. ASSUME NEW s \in Sessions, DeliverAnswer(s) PROVE Goal
  <2> DEFINE x == rows[s][cursor[s] + 1]
  <2>1. cursor[s] + 1 \in 1..Len(rows[s])
    BY <1>4, NextRow DEF DeliverAnswer
  <2>2. /\ x \in Messages /\ stage[x] = "posted"
        /\ sessionRooms[s] \in {NoRoom, room[x]}
    BY <2>1, AnswersHome
  <2>3. /\ UNCHANGED messageVars /\ UNCHANGED rows
        /\ \/ UNCHANGED shown
           \/ sessionRooms[s] # NoRoom /\ shown' = [shown EXCEPT ![x] = sessionRooms[s]]
    BY <1>0, <1>4, <2>2 DEF DeliverAnswer, RoomForSession, PathTypeOK
  <2>4. \A y \in Messages : MailOf(y)'
    BY <1>0, <2>2, <2>3 DEF PathTypeOK, messageVars
  <2> QED
    BY <1>0, <2>3, <2>4 DEF messageVars
<1>5. CASE Dies
  BY <1>0, <1>5, <1>a DEF Dies, answerVars, PathTypeOK
<1>6. CASE UNCHANGED <<messageVars, rows, shown>>
  BY <1>0, <1>6 DEF messageVars
<1>7. ASSUME NEW p \in Handlers, Carry(p) PROVE UNCHANGED <<messageVars, rows, shown>>
  BY <1>7 DEF Carry, pathVars, answerVars
<1> QED
  BY <1>1, <1>2, <1>3, <1>4, <1>5, <1>6, <1>7
     DEF PathNext, ComesUp, Restore, allVars, pathVars, answerVars

-----------------------------------------------------------------------------
(* What the subscription passes over *)

\* Nobody has written to a session before it has its room.
Unheard ==
    \A p \in Handlers : Pending(p) => \A x \in Messages : via[x] # h[p].new

\* In the first life of the process nobody writes before it serves, and a
\* session that is not tracked and has a message from when it was has lost its
\* room.
FirstLife ==
    crashes = 0 =>
        /\ running # "up" => \A x \in Messages : via[x] = NoSession
        /\ \A x \in Messages, s \in Sessions :
             via[x] = s /\ x \notin early /\ s \notin tracked => Unbound(s)

Careful == Unheard /\ FirstLife /\ PassedOverOnlyEarly

LEMMA UnheardStep ==
    ASSUME PathSound, Unheard, [PathNext]_allVars PROVE Unheard'
<1> SUFFICES ASSUME NEW p \in Handlers, NEW x \in Messages, Pending(p)',
                    via'[x] = h'[p].new
             PROVE  FALSE
  BY DEF Unheard, Pending
<1>0. /\ Sound /\ Homeless /\ NewMove(p) /\ MailMove /\ h'[p].new # NoSession
      /\ FreshOf(p) /\ MailOf(x)
  BY PathStepIsStep, StepMoves, MailMoves DEF PathSound, Homes, Pending, Sound, Hands
<1>1. CASE via'[x] = via[x]
  <2>1. ~Pending(p) \/ h'[p].new # h[p].new
    BY <1>1 DEF Unheard
  <2>2. ASSUME NEW s \in Sessions, Makes(p, s) PROVE FALSE
    BY <1>0, <1>1, <2>2 DEF Makes, Homeless, HasHome, MailOf
  <2>3. ASSUME NEW s \in Sessions, Opens(p, s) PROVE FALSE
    BY <1>0, <2>1, <2>3 DEF Opens, Pending, Holding
  <2> QED
    BY <1>0, <2>1, <2>2, <2>3 DEF NewMove, Keeps
<1>2. CASE via'[x] # via[x]
  <2>1. sessionRooms[via'[x]] \in Rooms /\ Pending(p) /\ h'[p].new = h[p].new
    BY <1>0, <1>2 DEF MailMove, vars, Pending
  <2> QED
    BY <1>0, <2>1, NullAssumption DEF FreshOf
<1> QED
  BY <1>1, <1>2

LEMMA NoCrashYet ==
    ASSUME PathSound, [PathNext]_allVars, crashes' = 0
    PROVE  /\ crashes = 0 /\ ~Crash
           /\ running' # "up" => running # "up"
           /\ tracked \subseteq tracked' \/ \E p \in Handlers : Forget(p)
<1>1. TypeOK /\ Sound /\ [Next]_vars
  BY PathStepIsStep DEF PathSound, PathTypeOK
<1>2. ~Crash
  BY <1>1, BoundAssumption DEF Crash, TypeOK
<1>3. ASSUME NEW p \in Handlers, Request(p) \/ Command(p)
      PROVE  /\ crashes' = crashes /\ running' = running
             /\ tracked \subseteq tracked' \/ Forget(p)
  <2>1. tracked \subseteq tracked' \/ Forget(p)
    BY <1>3 DEF Request, Command, StartInDM, StopInDM, NewInRoom, StartInRoom, bindVars,
       EnsureProfile, GetSession, CreateSession, CreateSessionRoom, Undo, InsertBinding,
       SavePortal, Track, RetireSession, DropBinding, DeletePortal
  <2> QED
    BY <1>1, <1>3, <2>1, OthersStay
<1>4. CASE Boot \/ Serve \/ (\E s \in Sessions : Retrack(s)) \/ UNCHANGED vars
  BY <1>2, <1>4 DEF Boot, Serve, Retrack, vars, bindVars, procVars
<1> QED
  BY <1>1, <1>2, <1>3, <1>4 DEF Next, Process

\* A session somebody has written to and that has lost its room gets no other.
LEMMA UnboundStays ==
    ASSUME PathSound, Careful, [PathNext]_allVars, crashes' = 0,
           NEW s \in Sessions, NEW x \in Messages, via[x] = s, Unbound(s)
    PROVE  Unbound(s)'
<1>1. BindMove
  BY PathStepIsStep, StepMoves DEF PathSound
<1>2. running # "down"
  BY NoCrashYet, NullAssumption DEF Careful, FirstLife
<1>3. \A p \in Handlers : ~(h[p].new = s /\ Pending(p))
  BY DEF Careful, Unheard
<1> QED
  BY <1>1, <1>2, <1>3 DEF BindMove, Unbound

LEMMA FirstLifeStep ==
    ASSUME PathSound, Careful, [PathNext]_allVars PROVE FirstLife'
<1> SUFFICES ASSUME crashes' = 0
             PROVE  /\ running' # "up" => \A x \in Messages : via'[x] = NoSession
                    /\ \A x \in Messages, s \in Sessions :
                         /\ via'[x] = s /\ x \notin early' /\ s \notin tracked'
                         => Unbound(s)'
  BY DEF FirstLife, Unbound
<1>0. /\ crashes = 0 /\ ~Crash
      /\ running' # "up" => running # "up"
      /\ tracked \subseteq tracked' \/ \E p \in Handlers : Forget(p)
  BY NoCrashYet
<1>1. ASSUME NEW y \in Messages, NEW r \in Rooms, WriteMessage(y, r)
      PROVE  /\ running' = "up"
             /\ \A x \in Messages, s \in Sessions :
                  via'[x] = s /\ x \notin early' /\ s \notin tracked' => Unbound(s)'
  <2>1. running' = "up" /\ tracked' = tracked /\ sessionRooms' = sessionRooms
    BY <1>1 DEF WriteMessage, vars, bindVars, procVars
  <2>2. \/ UNCHANGED <<via, early>>
        \/ \E t \in Sessions :
              /\ via' = [via EXCEPT ![y] = t]
              /\ early' = IF t \in tracked THEN early ELSE early \cup {y}
    BY <1>1 DEF WriteMessage, SessionForRoom, BoundTo
  <2> QED
    BY <1>0, <2>1, <2>2 DEF Careful, FirstLife, Unbound, PathSound, PathTypeOK
<1>2. CASE \A x \in Messages, r \in Rooms : ~WriteMessage(x, r)
  <2>1. UNCHANGED <<via, early>>
    BY <1>0, <1>2 DEF PathNext, ComesUp, Dies, Carry, Restore, DeliverAnswer, PostMessage,
       Answer, allVars, pathVars, messageVars
  <2>2. ASSUME NEW x \in Messages, NEW s \in Sessions, via[x] = s, x \notin early,
               s \notin tracked'
        PROVE  Unbound(s)'
    <3>1. CASE s \notin tracked
      BY <1>0, <2>2, <3>1, UnboundStays DEF Careful, FirstLife
    <3>2. ASSUME NEW p \in Handlers, Forget(p), s \in tracked PROVE Unbound(s)'
      <4>1. s = h[p].old /\ sessionRooms' = sessionRooms
        BY <2>2, <3>2 DEF Forget
      <4>2. sessionRooms[h[p].old] = NoRoom
        BY <3>2 DEF Forget, At, PathSound, Sound, Hands, DroppedOf
      <4> QED
        BY <4>1, <4>2 DEF Unbound
    <3> QED
      BY <1>0, <2>2, <3>1, <3>2
  <2> QED
    BY <1>0, <2>1, <2>2 DEF Careful, FirstLife
<1> QED
  BY <1>1, <1>2

\* What a step does to answers and subscriptions.
AnswerMove ==
    /\ \A s \in Sessions : \A i \in 1..Len(rows[s]) : rows'[s][i] = rows[s][i]
    /\ \A x \in Messages : shown'[x] \in {shown[x], room[x]}
    /\ refused \subseteq refused' /\ early \subseteq early'
    /\ \A s \in Sessions :
         \/ cursor'[s] <= cursor[s]
         \/ DeliverAnswer(s)
         \/ s \notin tracked /\ cursor'[s] = Len(rows[s])

LEMMA SeedMoves ==
    ASSUME PathSound, NEW s \in Sessions, Seed(s)
    PROVE  \A t \in Sessions : \/ cursor'[t] <= cursor[t]
                               \/ t \notin tracked /\ cursor'[t] = Len(rows[t])
<1> TAKE t \in Sessions
<1>1. cursor \in [Sessions -> Nat] /\ cursor[t] \in Nat
  BY DEF PathSound, PathTypeOK
<1>2. CASE UNCHANGED cursor
  <2>1. cursor'[t] = cursor[t]
    BY <1>2
  <2> QED
    BY <1>1, <2>1
<1>3. ASSUME NEW n \in {0, Len(rows[s])}, s \notin tracked,
             cursor' = [cursor EXCEPT ![s] = n]
      PROVE  \/ cursor'[t] <= cursor[t]
             \/ t \notin tracked /\ cursor'[t] = Len(rows[t])
  <2>1. CASE t # s
    <3>1. cursor'[t] = cursor[t]
      BY <1>1, <1>3, <2>1
    <3> QED
      BY <1>1, <3>1
  <2>2. CASE t = s
    <3>1. cursor'[t] = n
      BY <1>1, <1>3, <2>2
    <3>2. CASE n = 0
      BY <1>1, <3>1, <3>2
    <3>3. CASE n = Len(rows[s])
      BY <1>3, <2>2, <3>1, <3>3
    <3> QED
      BY <3>2, <3>3
  <2> QED
    BY <2>1, <2>2
<1> QED
  BY <1>2, <1>3 DEF Seed

LEMMA AnswerMoves == ASSUME PathSound, [PathNext]_allVars PROVE AnswerMove
<1>0. /\ \A s \in Sessions : cursor[s] \in Nat
      /\ PathTypeOK
  BY DEF PathSound, PathTypeOK
<1>1. ASSUME NEW x \in Messages, NEW r \in Rooms, WriteMessage(x, r) PROVE AnswerMove
  BY <1>0, <1>1 DEF WriteMessage, AnswerMove, answerVars
<1>2. ASSUME NEW x \in Messages, Answer(x) PROVE AnswerMove
  <2>1. ASSUME NEW s \in Sessions, NEW i \in 1..Len(rows[s])
        PROVE  rows'[s][i] = rows[s][i]
    BY <1>0, <1>2, Appended DEF Answer, PathTypeOK
  <2> QED
    BY <1>0, <1>2, <2>1 DEF Answer, AnswerMove, messageVars
<1>3. ASSUME NEW s \in Sessions, DeliverAnswer(s) PROVE AnswerMove
  <2> DEFINE x == rows[s][cursor[s] + 1]
  <2>1. cursor[s] + 1 \in 1..Len(rows[s])
    BY <1>3, NextRow DEF DeliverAnswer
  <2>2. x \in Messages /\ sessionRooms[s] \in {NoRoom, room[x]}
    BY <2>1, AnswersHome
  <2>3. \/ UNCHANGED shown
        \/ sessionRooms[s] # NoRoom /\ shown' = [shown EXCEPT ![x] = sessionRooms[s]]
    BY <1>0, <1>3, <2>2 DEF DeliverAnswer, RoomForSession, PathTypeOK
  <2>4. \A y \in Messages : shown'[y] \in {shown[y], room[y]}
    BY <1>0, <2>2, <2>3 DEF PathTypeOK
  <2>5. \A t \in Sessions : cursor'[t] <= cursor[t] \/ DeliverAnswer(t)
    <3>1. ASSUME NEW t \in Sessions, t # s PROVE cursor'[t] <= cursor[t]
      BY <1>0, <1>3, <3>1 DEF DeliverAnswer, PathTypeOK
    <3> QED
      BY <1>3, <3>1
  <2> QED
    BY <1>3, <2>4, <2>5 DEF DeliverAnswer, AnswerMove, messageVars
<1>4. ASSUME NEW p \in Handlers, Carry(p) PROVE AnswerMove
  <2>1. CASE UNCHANGED pathVars
    BY <1>0, <2>1 DEF pathVars, messageVars, answerVars, AnswerMove
  <2>2. CASE Track(p) /\ Seed(h[p].new) /\ UNCHANGED <<messageVars, rows, shown, refused>>
    <3>1. h[p].new \in Sessions
      BY <2>2 DEF Track, PathSound, Sound, Shape, ShapeOf, At
    <3> QED
      BY <2>2, <3>1, SeedMoves DEF messageVars, AnswerMove
  <2> QED
    BY <1>4, <2>1, <2>2 DEF Carry
<1>5. ASSUME NEW s \in Sessions, Restore(s) PROVE AnswerMove
  BY <1>5, SeedMoves DEF Restore, messageVars, AnswerMove
<1>6. CASE UNCHANGED <<room, early, answerVars>>
  BY <1>0, <1>6 DEF answerVars, AnswerMove
<1> QED
  BY <1>1, <1>2, <1>3, <1>4, <1>5, <1>6
     DEF PathNext, ComesUp, Dies, PostMessage, allVars, pathVars, messageVars

\* Row i of session s has been shown, or may be missing.
Passed(s, i) ==
    LET x == rows[s][i] IN
    shown[x] = room[x] \/ x \in early \cup refused \/ Unbound(s)

LEMMA PassedStays ==
    ASSUME PathSound, Careful, [PathNext]_allVars, crashes' = 0,
           NEW s \in Sessions, NEW i \in 1..Len(rows[s]), Passed(s, i)
    PROVE  Passed(s, i)'
<1> DEFINE x == rows[s][i]
<1>1. x \in Messages /\ via[x] = s /\ via[x] # NoSession
  BY AnswersHome, NullAssumption
<1>2. rows'[s][i] = x /\ room'[x] = room[x]
  BY <1>1, MailMoves, AnswerMoves DEF MailMove, AnswerMove
<1>3. CASE Unbound(s)
  BY <1>1, <1>2, <1>3, UnboundStays DEF Passed
<1>4. CASE shown[x] = room[x] \/ x \in early \cup refused
  BY <1>1, <1>2, <1>4, AnswerMoves DEF AnswerMove, Passed
<1> QED
  BY <1>3, <1>4 DEF Passed

LEMMA PassedStep ==
    ASSUME PathSound, PathTypeOK', Careful, [PathNext]_allVars
    PROVE  PassedOverOnlyEarly'
<1> SUFFICES ASSUME crashes' = 0, NEW s \in Sessions, NEW i \in 1..cursor'[s]
             PROVE  Passed(s, i)'
  BY DEF PassedOverOnlyEarly, Passed
<1>0. /\ crashes = 0 /\ PathTypeOK /\ AnswerMove
      /\ cursor[s] \in Nat /\ cursor'[s] \in Nat /\ Len(rows[s]) \in Nat
      /\ cursor[s] <= Len(rows[s])
  BY NoCrashYet, AnswerMoves, LenProperties DEF PathSound, PathTypeOK
<1>1. CASE i \in 1..cursor[s]
  <2>1. Passed(s, i) /\ i \in 1..Len(rows[s])
    BY <1>0, <1>1 DEF Careful, PassedOverOnlyEarly, Passed
  <2> QED
    BY <2>1, PassedStays
<1>2. CASE i \notin 1..cursor[s] /\ DeliverAnswer(s)
  <2>1. i = cursor[s] + 1 /\ i \in 1..Len(rows[s])
    BY <1>0, <1>2, NextRow DEF DeliverAnswer, Advanced, PathTypeOK
  <2> DEFINE x == rows[s][i]
  <2>2. /\ x \in Messages /\ sessionRooms[s] \in {NoRoom, room[x]}
        /\ UNCHANGED <<rows, room, early, sessionRooms>>
    BY <1>2, <2>1, AnswersHome DEF DeliverAnswer, vars, bindVars, messageVars
  <2>3. \/ x \in refused'
        \/ sessionRooms[s] = NoRoom
        \/ sessionRooms[s] # NoRoom /\ shown'[x] = sessionRooms[s]
    BY <1>0, <1>2, <2>1, <2>2 DEF DeliverAnswer, RoomForSession, PathTypeOK
  <2> QED
    BY <2>2, <2>3 DEF Passed, Unbound
<1>3. CASE i \notin 1..cursor[s] /\ s \notin tracked /\ cursor'[s] = Len(rows[s])
  <2>1. i \in 1..Len(rows[s])
    BY <1>0, <1>3
  <2>2. rows[s][i] \in early \/ Unbound(s)
    BY <1>0, <1>3, <2>1, AnswersHome DEF Careful, FirstLife
  <2> QED
    BY <2>1, <2>2, PassedStays DEF Passed
<1> QED
  BY <1>0, <1>1, <1>2, <1>3 DEF AnswerMove

-----------------------------------------------------------------------------
(* The theorems *)

PathInv == PathSound /\ Careful

LEMMA PathInitially == ASSUME PathInit PROVE PathInv
<1>1. Sound /\ TypeOK
  BY ShapeInit, HandsInit DEF PathInit, Sound
<1>2. \A s \in Sessions : rows[s] = <<>> /\ Len(rows[s]) = 0
  BY DEF PathInit
<1>3. PathTypeOK
  BY <1>1, <1>2, EmptySeq DEF PathInit, PathTypeOK
<1>4. \A s \in Sessions, a \in Rooms : ~HasHome(s, a)
  BY NullAssumption DEF PathInit, Init, Idle, HasHome
<1>5. Homes
  BY <1>2, <1>4, NullAssumption DEF PathInit, Homes, OneHome, Homeless, MailOf, RowsOf
<1>6. Careful
  BY <1>2, NullAssumption DEF PathInit, Init, Idle, Careful, Unheard, Pending, FirstLife,
     PassedOverOnlyEarly
<1> QED
  BY <1>1, <1>3, <1>5, <1>6 DEF PathInv, PathSound

LEMMA PathInductive == ASSUME PathInv, [PathNext]_allVars PROVE PathInv'
<1>1. Sound'
  BY PathStepIsStep, ShapeStep, HandsStep DEF PathInv, PathSound, Sound
<1>2. PathTypeOK'
  BY <1>1, PathTypeStep DEF PathInv, Sound
<1>3. Homes'
  BY <1>2, MailStep, OneHomeStep, HomelessStep DEF PathInv, Homes
<1>4. Careful'
  BY <1>2, UnheardStep, FirstLifeStep, PassedStep DEF PathInv, Careful
<1> QED
  BY <1>1, <1>2, <1>3, <1>4 DEF PathInv, PathSound

\* The invariant the theorems below rest on: types, what commands and messages
\* have in hand, one room for each session, and who has written to a session.
THEOREM PathInvariant == PathSpec => []PathInv
BY PathInitially, PathInductive, PTL DEF PathSpec

\* The composition takes only steps of AppService: what holds of the commands
\* alone holds of them among messages.
THEOREM CompositionIsAppService == PathSpec => Spec
<1>1. PathInit => Init
  BY DEF PathInit
<1>2. [PathNext]_allVars => [Next]_vars
  BY PathStepIsStep
<1> QED
  BY <1>1, <1>2, PTL DEF PathSpec, Spec

\* Every variable has its type, and no cursor is beyond its transcript.
THEOREM PathTypeCorrect == PathSpec => []PathTypeOK
<1>1. PathInv => PathTypeOK
  BY DEF PathInv, PathSound
<1> QED
  BY <1>1, PathInvariant, PTL

\* Answers appear only in the room their message was written in, whatever
\* commands, failures and restarts do meanwhile.
THEOREM AnswersInTheirRoom == PathSpec => []RightRoom
<1>1. PathInv => RightRoom
  BY DEF PathInv, PathSound, Homes, MailOf, RightRoom
<1> QED
  BY <1>1, PathInvariant, PTL

\* While the process lives, the subscription passes over an answer only for the
\* reasons PassedOverOnlyEarly names.
THEOREM NoAnswerSkipped == PathSpec => []PassedOverOnlyEarly
<1>1. PathInv => PassedOverOnlyEarly
  BY DEF PathInv, Careful
<1> QED
  BY <1>1, PathInvariant, PTL

\* A room that no race has disturbed keeps its agent until that has lost the room:
\* no two messages of it find different sessions while the first is still bound,
\* for any commands in flight, failures and restarts (appservice.go:440-473).
THEOREM OneAgentForAConversation == PathSpec => OneConversation
<1>1. PathInv /\ OneSessionUndisturbed /\ [PathNext]_allVars =>
        [\A x, y \in Messages :
           (/\ via[x] = NoSession /\ via'[x] # NoSession
            /\ via[y] # NoSession /\ room[y] = room'[x] /\ room[y] \notin disturbed)
               => via'[x] = via[y] \/ Unbound(via[y])]_allVars
  <2> SUFFICES ASSUME PathInv, OneSessionUndisturbed, [PathNext]_allVars,
                      NEW x \in Messages, NEW y \in Messages,
                      via[x] = NoSession, via'[x] # NoSession, via[y] # NoSession,
                      room[y] = room'[x], room[y] \notin disturbed, ~Unbound(via[y])
               PROVE  via'[x] = via[y]
    OBVIOUS
  <2>1. /\ via'[x] \in Sessions /\ room'[x] \in Rooms
        /\ sessionRooms[via'[x]] = room'[x]
    BY MailMoves DEF PathInv, MailMove
  <2>2. via[y] \in Sessions /\ room[y] \in Rooms
    BY DEF PathInv, PathSound, PathTypeOK, Homes, MailOf
  <2>3. sessionRooms[via[y]] \in Rooms
    BY <2>2 DEF Unbound, PathInv, PathSound, Sound, TypeOK
  <2>4. sessionRooms[via[y]] = room[y]
    BY <2>2, <2>3 DEF PathInv, PathSound, Homes, OneHome, HasHome
  <2>5. via'[x] \in Mapped /\ via[y] \in Mapped
    BY <2>1, <2>2, <2>3, NullAssumption DEF Mapped
  <2> QED
    BY <2>1, <2>4, <2>5 DEF OneSessionUndisturbed
<1>2. Spec => []OneSessionUndisturbed
  BY OneSessionForARoom
<1> QED
  BY <1>1, <1>2, PathInvariant, CompositionIsAppService, PTL DEF PathSpec, OneConversation

-----------------------------------------------------------------------------
(* What the users are promised *)

\* A step that leaves messages, answers and what is shown alone.
LEMMA TalkStutters ==
    ASSUME UNCHANGED <<stage, room, rows, shown>> PROVE UNCHANGED Talk!vars
BY DEF Talk!vars, Status, Answered

\* A message is answered only once it has been taken.
LEMMA AnsweredWasTaken ==
    ASSUME PathSound, NEW x \in Messages, Answered(x) PROVE stage[x] = "posted"
<1>1. PICK s \in Sessions : \E i \in DOMAIN rows[s] : rows[s][i] = x
  BY DEF Answered
<1>2. DOMAIN rows[s] = 1..Len(rows[s])
  BY LenProperties DEF PathSound, PathTypeOK
<1> QED
  BY <1>1, <1>2, AnswersHome

\* One message moves on from one stage to another, and nothing is answered.
LEMMA StatusMoves ==
    ASSUME PathSound, NEW x \in Messages, NEW t \in {"found", "posted", "told"},
           stage[x] # "posted", stage' = [stage EXCEPT ![x] = t], UNCHANGED rows
    PROVE  /\ Status(x) = Outcome[stage[x]]
           /\ [y \in Messages |-> Status(y)]'
                = [[y \in Messages |-> Status(y)] EXCEPT ![x] = Outcome[t]]
<1>1. \A y \in Messages : Answered(y)' = Answered(y)
  BY DEF Answered
<1>2. ~Answered(x)
  BY AnsweredWasTaken
<1>3. stage'[x] = t /\ \A y \in Messages \ {x} : stage'[y] = stage[y]
  BY DEF PathSound, PathTypeOK
<1>4. \A y \in Messages : Status(y)' = IF y = x THEN Outcome[t] ELSE Status(y)
  BY <1>1, <1>2, <1>3 DEF Status, Outcome
<1> QED
  BY <1>2, <1>4 DEF Status

\* The agent's answer makes its message answered, and no other.
LEMMA AnswerIsNew ==
    ASSUME PathSound, NEW x \in Messages, Answer(x), NEW y \in Messages
    PROVE  Answered(y)' <=> Answered(y) \/ y = x
<1>1. via[x] \in Sessions
  BY DEF Answer, PathSound, PathTypeOK, Homes, MailOf
<1>2. ASSUME NEW s \in Sessions
      PROVE  /\ DOMAIN rows[s] = 1..Len(rows[s]) /\ Len(rows[s]) \in Nat
             /\ s # via[x] => rows'[s] = rows[s]
             /\ s = via[x] => rows'[s] = Append(rows[s], x)
  BY LenProperties DEF Answer, PathSound, PathTypeOK
<1>3. \A s \in Sessions :
        s = via[x] => /\ DOMAIN rows'[s] = 1..(Len(rows[s]) + 1)
                      /\ rows'[s][Len(rows[s]) + 1] = x
                      /\ \A i \in 1..Len(rows[s]) : rows'[s][i] = rows[s][i]
  BY <1>2, Appended, LenProperties
<1>4. ASSUME Answered(y) \/ y = x PROVE Answered(y)'
  <2>1. CASE y = x
    <3>1. Len(rows[via[x]]) + 1 \in DOMAIN rows'[via[x]]
      BY <1>1, <1>2, <1>3
    <3> QED
      BY <1>1, <1>3, <2>1, <3>1 DEF Answered
  <2>2. CASE Answered(y)
    <3>1. PICK s \in Sessions : \E i \in DOMAIN rows[s] : rows[s][i] = y
      BY <2>2 DEF Answered
    <3>2. PICK i \in 1..Len(rows[s]) : rows[s][i] = y
      BY <1>2, <3>1
    <3>3. i \in DOMAIN rows'[s] /\ rows'[s][i] = y
      BY <1>2, <1>3, <3>2
    <3> QED
      BY <3>3 DEF Answered
  <2> QED
    BY <1>4, <2>1, <2>2
<1>5. ASSUME Answered(y)', y # x PROVE Answered(y)
  <2>1. PICK s \in Sessions : \E i \in DOMAIN rows'[s] : rows'[s][i] = y
    BY <1>5 DEF Answered
  <2>2. \E i \in DOMAIN rows[s] : rows[s][i] = y
    <3>1. CASE s # via[x]
      BY <1>2, <2>1, <3>1
    <3>2. CASE s = via[x]
      <4>1. PICK i \in 1..(Len(rows[s]) + 1) : rows'[s][i] = y
        BY <1>3, <2>1, <3>2
      <4>2. i # Len(rows[s]) + 1
        BY <1>3, <1>5, <3>2, <4>1
      <4>3. i \in 1..Len(rows[s])
        BY <1>2, <4>1, <4>2
      <4> QED
        BY <1>2, <1>3, <3>2, <4>1, <4>3
    <3> QED
      BY <3>1, <3>2
  <2> QED
    BY <2>2 DEF Answered
<1> QED
  BY <1>4, <1>5

\* The step is one of Conversation, or leaves it alone.
TalkMove == [Talk!Next]_(Talk!vars)

LEMMA TalkStep == ASSUME PathInv, [PathNext]_allVars PROVE TalkMove
<1> USE DEF TalkMove
<1>0. PathSound
  BY DEF PathInv
<1>1. ASSUME NEW x \in Messages, NEW r \in Rooms, WriteMessage(x, r) PROVE TalkMove
  <2>1. PICK t \in {"found", "told"} : stage' = [stage EXCEPT ![x] = t]
    BY <1>1 DEF WriteMessage
  <2>2. /\ stage[x] = "unwritten" /\ room' = [room EXCEPT ![x] = r]
        /\ UNCHANGED <<rows, shown>>
    BY <1>1 DEF WriteMessage, answerVars
  <2>3. /\ Status(x) = Outcome["unwritten"]
        /\ [y \in Messages |-> Status(y)]'
             = [[y \in Messages |-> Status(y)] EXCEPT ![x] = Outcome[t]]
    BY <1>0, <2>1, <2>2, StatusMoves
  <2>4. Outcome["unwritten"] = "unsaid" /\ Outcome[t] \in {"said", "failed"}
    BY DEF Outcome
  <2>5. Talk!Say(x, r)
    BY <2>2, <2>3, <2>4 DEF Talk!Say
  <2> QED
    BY <2>5 DEF Talk!Next
<1>2. ASSUME NEW x \in Messages, PostMessage(x) PROVE TalkMove
  <2>1. PICK t \in {"posted", "told"} : stage' = [stage EXCEPT ![x] = t]
    BY <1>2 DEF PostMessage
  <2>2. stage[x] = "found" /\ UNCHANGED <<rows, room, shown>>
    BY <1>2 DEF PostMessage, answerVars
  <2>3. /\ Status(x) = Outcome["found"]
        /\ [y \in Messages |-> Status(y)]'
             = [[y \in Messages |-> Status(y)] EXCEPT ![x] = Outcome[t]]
    BY <1>0, <2>1, <2>2, StatusMoves
  <2>4. Outcome["found"] = "said" /\ Outcome[t] \in {"taken", "failed"}
    BY DEF Outcome
  <2>5. Talk!Take(x) \/ Talk!Fail(x)
    BY <2>2, <2>3, <2>4 DEF Talk!Take, Talk!Fail, Talk!Moves
  <2> QED
    BY <2>5 DEF Talk!Next
<1>3. ASSUME NEW x \in Messages, Answer(x) PROVE TalkMove
  <2>1. stage[x] = "posted" /\ ~Answered(x) /\ UNCHANGED <<stage, room, shown>>
    BY <1>3 DEF Answer, messageVars
  <2>2. \A y \in Messages : Status(y)' = IF y = x THEN "answered" ELSE Status(y)
    BY <1>0, <1>3, <2>1, AnswerIsNew DEF Status
  <2>3. Status(x) = "taken"
    BY <2>1 DEF Status, Outcome
  <2>4. Talk!Answer(x)
    BY <2>1, <2>2, <2>3 DEF Talk!Answer, Talk!Moves
  <2> QED
    BY <2>4 DEF Talk!Next
<1>4. ASSUME NEW s \in Sessions, DeliverAnswer(s) PROVE TalkMove
  <2> DEFINE x == rows[s][cursor[s] + 1]
  <2>1. cursor[s] + 1 \in 1..Len(rows[s])
    BY <1>0, <1>4, NextRow DEF DeliverAnswer
  <2>2. x \in Messages /\ sessionRooms[s] \in {NoRoom, room[x]}
    BY <1>0, <2>1, AnswersHome
  <2>3. DOMAIN rows[s] = 1..Len(rows[s])
    BY <1>0, LenProperties DEF PathSound, PathTypeOK
  <2>4. Status(x) = "answered"
    BY <2>1, <2>3 DEF Status, Answered
  <2>5. UNCHANGED <<stage, room, rows>>
    BY <1>4 DEF DeliverAnswer, messageVars
  <2>6. UNCHANGED shown \/ shown' = [shown EXCEPT ![x] = room[x]]
    BY <1>0, <1>4, <2>2 DEF DeliverAnswer, RoomForSession, PathSound, PathTypeOK
  <2>7. CASE UNCHANGED shown
    BY <2>5, <2>7, TalkStutters
  <2>8. CASE shown' = [shown EXCEPT ![x] = room[x]]
    <3>1. \A y \in Messages : Status(y)' = Status(y)
      BY <2>5 DEF Status, Answered
    <3>2. Talk!Show(x)
      BY <2>2, <2>4, <2>5, <2>8, <3>1 DEF Talk!Show
    <3> QED
      BY <2>2, <3>2 DEF Talk!Next
  <2> QED
    BY <2>6, <2>7, <2>8
<1>5. CASE Dies
  <2>1. /\ stage' = [y \in Messages |-> IF stage[y] = "found" THEN "lost" ELSE stage[y]]
        /\ UNCHANGED <<rows, room, shown>>
    BY <1>5 DEF Dies, answerVars
  <2>2. ASSUME NEW y \in Messages
        PROVE  Status(y)' = IF Status(y) = "said" THEN "failed" ELSE Status(y)
    <3>1. Answered(y)' = Answered(y)
      BY <2>1 DEF Answered
    <3>2. Answered(y) => stage[y] = "posted"
      BY <1>0, AnsweredWasTaken
    <3>3. stage[y] \in {"unwritten", "found", "posted", "told", "lost"}
      BY <1>0 DEF PathSound, PathTypeOK
    <3> QED
      BY <2>1, <3>1, <3>2, <3>3 DEF Status, Outcome
  <2>3. Talk!LoseAll
    BY <2>1, <2>2 DEF Talk!LoseAll
  <2> QED
    BY <2>3 DEF Talk!Next
<1>6. ASSUME UNCHANGED <<messageVars, rows, shown>> PROVE TalkMove
  BY <1>6, TalkStutters DEF messageVars
<1>7. ASSUME NEW p \in Handlers, Carry(p) PROVE UNCHANGED <<messageVars, rows, shown>>
  BY <1>7 DEF Carry, pathVars, answerVars
<1> QED
  BY <1>1, <1>2, <1>3, <1>4, <1>5, <1>6, <1>7
     DEF PathNext, ComesUp, Restore, allVars, pathVars, answerVars

\* The bridge does what Conversation promises, whatever commands, failures and
\* restarts do meanwhile (appservice.go:440-464, 664-733).
THEOREM BridgeImplementsConversation == PathSpec => ImplementsConversation
<1>1. PathInit => Talk!Init
  <2> SUFFICES ASSUME PathInit PROVE Talk!Init
    OBVIOUS
  <2>1. \A y \in Messages : ~Answered(y)
    BY EmptySeq DEF PathInit, Answered
  <2> QED
    BY <2>1 DEF PathInit, Talk!Init, Status, Outcome
<1>2. PathInv /\ [PathNext]_allVars => [Talk!Next]_(Talk!vars)
  BY TalkStep DEF TalkMove
<1> QED
  BY <1>1, <1>2, PathInvariant, PTL DEF PathSpec, ImplementsConversation, Talk!Spec
=============================================================================
