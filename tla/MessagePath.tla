----------------------------- MODULE MessagePath -----------------------------
(***************************************************************************)
(* What the bridge is for: a message written in a room reaches the agent   *)
(* bound to it, and the agent's answer appears in that room.               *)
(*                                                                         *)
(* Composes AppService, whose commands bind and unbind sessions, with the  *)
(* handlers of messages (onRoomMessage, /steer, commands the bot does not  *)
(* know), the transcripts of forge, and the consumer, of which only the    *)
(* subscription is kept that EventConsumer is shown to implement           *)
(* (RowDelivery): Track takes the rows there are for history, later ones   *)
(* are delivered one by one in their order.  Rows of users are not         *)
(* delivered and left out; each message has at most one answer.            *)
(***************************************************************************)
EXTENDS AppService, Sequences

CONSTANT Messages \* the messages users write

VARIABLES
    stage,   \* of a message: unwritten, found, posted, told, lost
    room,    \* the room a message was written in
    via,     \* the session findSessionForRoom returned for it
    rows,    \* forge: the answers in the transcript of a session
    cursor,  \* lastSeq of the session's subscription
    shown,   \* the room the answer to a message was sent to
    refused, \* answers the homeserver did not take
    early    \* history: messages that found a session not yet tracked

messageVars == <<stage, room, via, early>>
answerVars == <<rows, cursor, shown, refused>>
pathVars == <<messageVars, answerVars>>
allVars == <<vars, pathVars>>

-----------------------------------------------------------------------------
Answered(x) == \E s \in Sessions : \E i \in DOMAIN rows[s] : rows[s][i] = x

PathTypeOK ==
    /\ TypeOK
    /\ stage \in [Messages -> {"unwritten", "found", "posted", "told", "lost"}]
    /\ room \in [Messages -> Rooms \cup {NoRoom}]
    /\ via \in [Messages -> Sessions \cup {NoSession}]
    /\ refused \in SUBSET Messages
    /\ early \in SUBSET Messages
    /\ rows \in [Sessions -> Seq(Messages)]
    /\ cursor \in [Sessions -> Nat]
    /\ \A s \in Sessions : cursor[s] <= Len(rows[s])
    /\ shown \in [Messages -> Rooms \cup {NoRoom}]

PathInit ==
    /\ Init
    /\ stage = [x \in Messages |-> "unwritten"]
    /\ room = [x \in Messages |-> NoRoom]
    /\ via = [x \in Messages |-> NoSession]
    /\ refused = {} /\ early = {}
    /\ rows = [s \in Sessions |-> <<>>]
    /\ cursor = [s \in Sessions |-> 0]
    /\ shown = [x \in Messages |-> NoRoom]

-----------------------------------------------------------------------------
(* Room to session *)

SessionForRoom_Any(r) == Mapped

\* findSessionForRoom: some session bound to the room.
SessionForRoom(r) == BoundTo(r)

\* A message comes in, as plain text, with /steer, or as a command the bot does
\* not know.  Without a session the author is told so.
WriteMessage(x, r) ==
    /\ running = "up"
    /\ stage[x] = "unwritten" /\ r \in opened
    /\ room' = [room EXCEPT ![x] = r]
    /\ \/ /\ SessionForRoom(r) = {}
          /\ stage' = [stage EXCEPT ![x] = "told"]
          /\ UNCHANGED <<via, early>>
       \/ \E s \in SessionForRoom(r) :
            /\ via' = [via EXCEPT ![x] = s]
            /\ stage' = [stage EXCEPT ![x] = "found"]
            /\ early' = IF s \in tracked THEN early ELSE early \cup {x}
    /\ UNCHANGED <<vars, answerVars>>

\* forge.SendMessage: the session takes the message ("posted", also when the
\* reply is lost and the author is told of an error), or does not, as one that
\* is gone never does.
PostMessage(x) ==
    /\ stage[x] = "found"
    /\ \/ /\ forge[via[x]] = "live"
          /\ stage' = [stage EXCEPT ![x] = "posted"]
       \/ stage' = [stage EXCEPT ![x] = "told"]
    /\ UNCHANGED <<vars, room, via, early, answerVars>>

-----------------------------------------------------------------------------
(* Session to room *)

\* The agent answers.
Answer(x) ==
    /\ stage[x] = "posted" /\ forge[via[x]] = "live" /\ ~Answered(x)
    /\ rows' = [rows EXCEPT ![via[x]] = Append(@, x)]
    /\ UNCHANGED <<vars, messageVars, cursor, shown, refused>>

Advanced_ToLast(s) == Len(rows[s])

\* How far the cursor gets with one row.
Advanced(s) == cursor[s] + 1

RoomForSession_Never(s) == NoRoom

\* findRoomForSession.
RoomForSession(s) == sessionRooms[s]

\* The next row reaches onSessionEvent: the cursor moves, and the answer goes to
\* the room of the session, if it still has one and the homeserver takes it.
DeliverAnswer(s) ==
    /\ running # "down" /\ s \in tracked
    /\ cursor[s] < Len(rows[s])
    /\ cursor' = [cursor EXCEPT ![s] = Advanced(s)]
    /\ LET x == rows[s][cursor[s] + 1] IN
         \/ /\ shown' = [shown EXCEPT ![x] = IF RoomForSession(s) = NoRoom
                                               THEN @ ELSE RoomForSession(s)]
            /\ UNCHANGED refused
         \/ /\ RoomForSession(s) # NoRoom
            /\ refused' = refused \cup {x}
            /\ UNCHANGED shown
    /\ UNCHANGED <<vars, messageVars, rows>>

-----------------------------------------------------------------------------
(* Composition *)

\* Track: a session that is tracked already is left as it is; for another the
\* rows there are become history, or, if they cannot be read, are replayed.
Seed(s) ==
    IF s \in tracked THEN UNCHANGED cursor
    ELSE \E n \in {0, Len(rows[s])} : cursor' = [cursor EXCEPT ![s] = n]

\* A command goes on; only Track is felt here.
Carry(p) ==
    \/ Track(p) /\ Seed(h[p].new) /\ UNCHANGED <<messageVars, rows, shown, refused>>
    \/ Command(p) /\ ~At(p, "track") /\ UNCHANGED pathVars

Restore(s) == Retrack(s) /\ Seed(s) /\ UNCHANGED <<messageVars, rows, shown, refused>>

ComesUp == (Boot \/ Serve) /\ UNCHANGED pathVars

\* The process dies with the messages it had not posted.
Dies ==
    /\ Crash
    /\ stage' = [x \in Messages |-> IF stage[x] = "found" THEN "lost" ELSE stage[x]]
    /\ UNCHANGED <<room, via, early, answerVars>>

PathNext ==
    \/ ComesUp \/ Dies
    \/ \E p \in Handlers : Carry(p) \/ (Request(p) /\ UNCHANGED pathVars)
    \/ \E s \in Sessions : Restore(s) \/ DeliverAnswer(s)
    \/ \E x \in Messages : PostMessage(x) \/ Answer(x)
    \/ \E x \in Messages, r \in Rooms : WriteMessage(x, r)

PathSpec == PathInit /\ [][PathNext]_allVars

(* Handlers and commands run on, the process comes up when it is started   *)
(* and the stream delivers.  No user has to write, no agent to answer.     *)
FairPathSpec ==
    /\ PathSpec
    /\ WF_allVars(ComesUp)
    /\ \A p \in Handlers : WF_allVars(Carry(p))
    /\ \A s \in Sessions : WF_allVars(Restore(s)) /\ WF_allVars(DeliverAnswer(s))
    /\ \A x \in Messages : WF_allVars(PostMessage(x))

-----------------------------------------------------------------------------
(* Properties *)

\* Whatever commands run meanwhile, an answer appears only in the room the
\* message was written in (findSessionForRoom and findRoomForSession agree).
RightRoom == \A x \in Messages : shown[x] \in {NoRoom, room[x]}

Unbound(s) == sessionRooms[s] = NoRoom

\* The subscription passes over an answer in silence only if its message was
\* written before the session was tracked, that is before the room was told
\* "Welcome!" or "Session reset", if the session has lost its room or the
\* homeserver its message, or if the process was restarted.
PassedOverOnlyEarly ==
    crashes = 0 =>
        \A s \in Sessions : \A i \in 1..cursor[s] :
            LET x == rows[s][i] IN
            \/ shown[x] = room[x]
            \/ x \in early \cup refused
            \/ Unbound(s)

\* A room keeps the agent it talks to: a message is handed to another agent than
\* an earlier message of the room only after that one has lost the room, whatever
\* commands, failures and restarts come between the two; but for the rooms named
\* at "disturbed".
OneConversation ==
    [][\A x, y \in Messages :
         (/\ via[x] = NoSession /\ via'[x] # NoSession
          /\ via[y] # NoSession /\ room[y] = room'[x] /\ room[y] \notin disturbed)
             => via'[x] = via[y] \/ Unbound(via[y])]_allVars

\* The answer to x is there and the subscription of its session has yet to
\* come to it.
Awaited(x) ==
    \E s \in tracked : \E i \in (cursor[s] + 1)..Len(rows[s]) : rows[s][i] = x

\* An answer written while its session is subscribed to is shown in the room,
\* unless the homeserver refuses it or the session loses its room first.
AnswerArrives ==
    \A x \in Messages :
        Awaited(x) ~> (shown[x] = room[x] \/ x \in refused \/ via[x] \notin Mapped)

-----------------------------------------------------------------------------
(* Refinement *)

\* How far a message has got for its author.
Outcome == [unwritten |-> "unsaid", found |-> "said", posted |-> "taken",
            told |-> "failed", lost |-> "failed"]
Status(x) == IF Answered(x) THEN "answered" ELSE Outcome[stage[x]]

Talk == INSTANCE Conversation WITH
    status <- [x \in Messages |-> Status(x)],
    said <- room,
    shown <- shown

\* Handlers, lookups, transcripts, cursors, replays and restarts together do
\* what Conversation says (onRoomMessage, /steer and onSessionEvent among the
\* commands): an answer is shown only to a message that was taken, in the room
\* it was written in, for good.
ImplementsConversation == Talk!Spec
=============================================================================
