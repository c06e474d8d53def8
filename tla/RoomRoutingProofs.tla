-------------------------- MODULE RoomRoutingProofs --------------------------
(***************************************************************************)
(* Theorems about RoomRouting, for every number of users, rooms, goroutines*)
(* and failures.                                                           *)
(***************************************************************************)
EXTENDS RoomRouting, TLAPS

-----------------------------------------------------------------------------
(* The inductive invariant *)

\* Whatever is on its way to the indexes: an invitation, a room CreateDMRoom
\* has made, the room the seeding is at.
ServerInv ==
    \A r \in Rooms : /\ topic[r] = "unmade" => members[r] = {}
                     /\ topic[r] = "session" => Bot \in members[r]

QueueInv ==
    /\ \A i \in 1..Len(events) :
         events[i].type = "invite" => topic[events[i].room] = "plain"
    /\ \A r \in joining : topic[r] # "unmade"

HandlerInv ==
    \A p \in Handlers :
        /\ h[p].pc # "idle" => h[p].user \in Users
        /\ h[p].pc = "track" => h[p].room \in Rooms /\ topic[h[p].room] = "plain"
        /\ h[p].pc \in {"create", "track"} =>
             h[p].user \in raced \/ dmUserRooms[h[p].user] = <<>>

SeedInv ==
    /\ \A r \in seed.todo : topic[r] # "unmade"
    /\ seed.pc \in {"topic", "track"} =>
         /\ seed.room \in Rooms /\ seed.other \in Users
         /\ topic[seed.room] # "unmade"
    /\ seed.pc = "track" =>
         (topic[seed.room] = "session" => seed.room \in misread)

KnownInv ==
    \A r \in Known : /\ topic[r] # "unmade"
                     /\ topic[r] = "session" => r \in misread

\* What the seeding has left to do.
Ahead == seed.todo \cup IF seed.pc \in {"topic", "track"} THEN {seed.room} ELSE {}

SteadyInv ==
    /\ \A r \in steady : OneToOne(r) /\ Bot \in members[r] /\ topic[r] = "plain"
    /\ seed.pc # "list" => steady \subseteq Known \cup missed \cup Ahead
    /\ seed.pc = "done" => seed.todo = {}

IInv == /\ TypeOK /\ ServerInv /\ QueueInv /\ HandlerInv /\ SeedInv /\ KnownInv
        /\ SteadyInv /\ DMsStayListed

-----------------------------------------------------------------------------
(* Lists and events *)

Elements(s) == {s[i] : i \in DOMAIN s}

LEMMA Prepending ==
    ASSUME NEW x \in Rooms, NEW s \in Seq(Rooms)
    PROVE  /\ <<x>> \o s \in Seq(Rooms)
           /\ Elements(<<x>> \o s) = {x} \cup Elements(s)
<1> DEFINE t == <<x>> \o s
<1>1. t \in Seq(Rooms) /\ Len(t) = Len(s) + 1
  OBVIOUS
<1>2. t[1] = x /\ \A i \in 1..Len(s) : t[i + 1] = s[i]
  OBVIOUS
<1> HIDE DEF t
<1>3. \A j \in 1..Len(t) : t[j] = x \/ \E i \in 1..Len(s) : t[j] = s[i]
  <2> SUFFICES ASSUME NEW j \in 1..Len(t), j # 1
               PROVE  \E i \in 1..Len(s) : t[j] = s[i]
    BY <1>2
  <2>1. j - 1 \in 1..Len(s) /\ (j - 1) + 1 = j
    BY <1>1
  <2> QED
    BY <2>1, <1>2
<1>4. DOMAIN t = 1..Len(t) /\ DOMAIN s = 1..Len(s)
  BY <1>1
<1>5. 1 \in 1..Len(t) /\ \A i \in 1..Len(s) : i + 1 \in 1..Len(t)
  BY <1>1
<1>6. ASSUME NEW y \in Elements(t) PROVE y \in {x} \cup Elements(s)
  <2>1. PICK j \in 1..Len(t) : y = t[j]
    BY <1>4 DEF Elements
  <2> QED
    BY <2>1, <1>3, <1>4 DEF Elements
<1>7. ASSUME NEW y \in {x} \cup Elements(s) PROVE y \in Elements(t)
  <2>1. CASE y = x
    BY <2>1, <1>2, <1>4, <1>5 DEF Elements
  <2>2. CASE y \in Elements(s)
    <3>1. PICK i \in 1..Len(s) : y = s[i]
      BY <2>2, <1>4 DEF Elements
    <3>2. y = t[i + 1] /\ i + 1 \in DOMAIN t
      BY <3>1, <1>2, <1>4, <1>5
    <3> QED
      BY <3>2 DEF Elements
  <2> QED
    BY <2>1, <2>2
<1>8. Elements(t) = {x} \cup Elements(s)
  BY <1>6, <1>7
<1> QED
  BY <1>1, <1>8 DEF t

\* What TrackFirst does to the set of a user's rooms.
LEMMA TrackedFirst ==
    ASSUME TypeOK, NEW u \in Users, NEW r \in Rooms, TrackFirst(u, r)
    PROVE  /\ dmRoomUser' \in [Rooms -> Users \cup {NoUser}]
           /\ dmUserRooms' \in [Users -> Seq(Rooms)]
           /\ Known' = Known \cup {r}
           /\ Listed(u)' = Listed(u) \cup {r}
           /\ \A v \in Users \ {u} : Listed(v)' = Listed(v)
           /\ \A v \in Users \ {u} : dmUserRooms'[v] = dmUserRooms[v]
<1>1. /\ dmUserRooms \in [Users -> Seq(Rooms)]
      /\ dmRoomUser \in [Rooms -> Users \cup {NoUser}]
  BY DEF TypeOK
<1>2. /\ dmUserRooms' = [dmUserRooms EXCEPT ![u] = <<r>> \o dmUserRooms[u]]
      /\ dmRoomUser' = [dmRoomUser EXCEPT ![r] = u]
  BY DEF TrackFirst, Prepended
<1>3. dmUserRooms[u] \in Seq(Rooms)
  BY <1>1
<1>4. /\ <<r>> \o dmUserRooms[u] \in Seq(Rooms)
      /\ Elements(<<r>> \o dmUserRooms[u]) = {r} \cup Elements(dmUserRooms[u])
  BY <1>3, Prepending
<1>5. Known' = Known \cup {r}
  BY <1>1, <1>2, NullAssumption DEF Known
<1>6. dmUserRooms'[u] = <<r>> \o dmUserRooms[u]
  BY <1>1, <1>2
<1>7. Listed(u)' = Listed(u) \cup {r}
  BY <1>4, <1>6 DEF Listed, Elements
<1>8. \A v \in Users \ {u} : dmUserRooms'[v] = dmUserRooms[v]
  BY <1>1, <1>2
<1>9. \A v \in Users \ {u} : Listed(v)' = Listed(v)
  BY <1>8 DEF Listed
<1> QED
  BY <1>1, <1>2, <1>4, <1>5, <1>7, <1>8, <1>9

\* The first event and those behind it.
LEMMA Heads ==
    ASSUME TypeOK, events # <<>>
    PROVE  /\ Head(events) \in Event /\ Head(events) = events[1]
           /\ 1 \in 1..Len(events)
           /\ Tail(events) \in Seq(Event)
           /\ Len(Tail(events)) = Len(events) - 1
           /\ \A i \in 1..Len(Tail(events)) :
                i + 1 \in 1..Len(events) /\ Tail(events)[i] = events[i + 1]
<1>1. events \in Seq(Event)
  BY DEF TypeOK
<1> QED
  BY <1>1

-----------------------------------------------------------------------------
(* Type correctness *)

LEMMA TypeInit == ASSUME Init PROVE TypeOK
<1>1. Idle \in Calls /\ [AtRest EXCEPT !.pc = "list"] \in Seedings
  BY DEF Idle, AtRest, Calls, Seedings
<1>2. h \in [Handlers -> Calls] /\ seed \in Seedings
  BY <1>1 DEF Init
<1>3. steady \in SUBSET Rooms /\ events \in Seq(Event)
  BY DEF Init, Joined
<1>4. dmUserRooms \in [Users -> Seq(Rooms)]
  BY DEF Init
<1> QED
  BY <1>2, <1>3, <1>4, BoundAssumption DEF Init, TypeOK

LEMMA TypeStep ==
    ASSUME TypeOK, HandlerInv, SeedInv, [Next]_vars
    PROVE  TypeOK'
<1> USE DEF TypeOK
<1>1. ASSUME NEW u \in Users, NEW r \in Rooms, UserMakesRoom(u, r) PROVE TypeOK'
  BY <1>1 DEF UserMakesRoom, MakeRoom, indexVars, seedVars
<1>2. ASSUME NEW u \in Users, NEW r \in Rooms, InviteBot(u, r) PROVE TypeOK'
  BY <1>2 DEF InviteBot, Push, Event, serverVars, indexVars, seedVars
<1>3. ASSUME NEW u \in Users, NEW r \in Rooms, UserComesOrGoes(u, r) PROVE TypeOK'
  <2>1. /\ members[r] \cup {u} \in SUBSET (Users \cup {Bot})
        /\ members[r] \ {u} \in SUBSET (Users \cup {Bot})
    OBVIOUS
  <2>2. members' \in [Rooms -> SUBSET (Users \cup {Bot})]
    BY <1>3, <2>1 DEF UserComesOrGoes
  <2>3. steady' \in SUBSET Rooms
    BY <1>3 DEF UserComesOrGoes
  <2> QED
    BY <1>3, <2>2, <2>3 DEF UserComesOrGoes, indexVars, seedVars
<1>4. ASSUME NEW u \in Users, NEW r \in Rooms, UserSays(u, r) PROVE TypeOK'
  BY <1>4 DEF UserSays, Push, Event, serverVars, indexVars, seedVars
<1>5. CASE HandleInvite
  <2>1. Head(events) \in Event /\ Tail(events) \in Seq(Event)
    BY <1>5, Heads DEF HandleInvite
  <2>2. Head(events).user \in Users /\ Head(events).room \in Rooms
    BY <2>1 DEF Event
  <2>3. TrackFirst(Head(events).user, Head(events).room)
    BY <1>5 DEF HandleInvite
  <2>4. /\ dmRoomUser' \in [Rooms -> Users \cup {NoUser}]
        /\ dmUserRooms' \in [Users -> Seq(Rooms)]
    BY <2>2, <2>3, TrackedFirst
  <2>5. raced' \in SUBSET Users
    BY <2>2, <2>3 DEF TrackFirst
  <2> QED
    BY <1>5, <2>1, <2>2, <2>4, <2>5 DEF HandleInvite, serverVars, seedVars
<1>6. CASE HandleMessage
  <2>1. Head(events) \in Event /\ Tail(events) \in Seq(Event)
    BY <1>6, Heads DEF HandleMessage
  <2>2. [Idle EXCEPT !.pc = "check", !.user = Head(events).user] \in Calls
    BY <2>1 DEF Event, Idle, Calls
  <2>3. h' \in [Handlers -> Calls]
    BY <1>6, <2>2 DEF HandleMessage
  <2> QED
    BY <1>6, <2>1, <2>3 DEF HandleMessage, serverVars, indexVars, seedVars
<1>7. ASSUME NEW r \in Rooms, JoinRoom(r) PROVE TypeOK'
  <2>1. members[r] \cup {Bot} \in SUBSET (Users \cup {Bot})
    OBVIOUS
  <2>2. members' \in [Rooms -> SUBSET (Users \cup {Bot})]
    BY <1>7, <2>1 DEF JoinRoom
  <2>3. failures' \in 0..MaxFailures /\ steady' \in SUBSET Rooms
    BY <1>7, BoundAssumption DEF JoinRoom, Fails
  <2> QED
    BY <1>7, <2>2, <2>3 DEF JoinRoom, indexVars, seedVars
<1>8. ASSUME NEW p \in Handlers, CheckDMRoom(p) PROVE TypeOK'
  <2>1. h[p].user \in Users
    BY <1>8 DEF CheckDMRoom, HandlerInv
  <2>2. dmUserRooms[h[p].user] # <<>> => Head(dmUserRooms[h[p].user]) \in Rooms
    BY <2>1
  <2>3. /\ [h[p] EXCEPT !.pc = "create"] \in Calls
        /\ dmUserRooms[h[p].user] # <<>> =>
             [h[p] EXCEPT !.pc = "answer", !.room = Head(dmUserRooms[h[p].user])]
               \in Calls
    BY <2>2 DEF Calls
  <2>4. h' \in [Handlers -> Calls]
    BY <1>8, <2>3 DEF CheckDMRoom, Goto
  <2> QED
    BY <1>8, <2>4 DEF CheckDMRoom, serverVars, indexVars, seedVars
<1>9. ASSUME NEW p \in Handlers, CreateDMRoom(p) PROVE TypeOK'
  <2>1. /\ Idle \in Calls
        /\ \A r \in Rooms : [h[p] EXCEPT !.pc = "track", !.room = r] \in Calls
    BY DEF Calls, Idle
  <2>2. h' \in [Handlers -> Calls]
    BY <1>9, <2>1 DEF CreateDMRoom, Finish
  <2>4. failures' = failures \/ Fails
    BY <1>9 DEF CreateDMRoom
  <2>5. failures' \in 0..MaxFailures
    BY <2>4, BoundAssumption DEF Fails
  <2>3. /\ topic' \in [Rooms -> {"unmade", "plain", "session"}]
        /\ members' \in [Rooms -> SUBSET (Users \cup {Bot})]
    BY <1>9 DEF CreateDMRoom, MakeRoom, serverVars
  <2> QED
    BY <1>9, <2>2, <2>3, <2>5 DEF CreateDMRoom, indexVars, seedVars
<1>10. ASSUME NEW p \in Handlers, TrackDMRoom(p) PROVE TypeOK'
  <2>1. h[p].user \in Users /\ h[p].room \in Rooms
    BY <1>10 DEF TrackDMRoom, HandlerInv
  <2>2. <<h[p].room>> \in Seq(Rooms)
    BY <2>1
  <2>3. [h[p] EXCEPT !.pc = "answer"] \in Calls
    BY DEF Calls
  <2>4. h' \in [Handlers -> Calls]
    BY <1>10, <2>3 DEF TrackDMRoom, Goto
  <2>5. raced' \in SUBSET Users
    BY <1>10, <2>1 DEF TrackDMRoom
  <2> QED
    BY <1>10, <2>1, <2>2, <2>4, <2>5 DEF TrackDMRoom, serverVars, seedVars
<1>11. ASSUME NEW p \in Handlers, Answer(p) PROVE TypeOK'
  <2>1. Idle \in Calls
    BY DEF Calls, Idle
  <2>2. h' \in [Handlers -> Calls]
    BY <1>11, <2>1 DEF Answer, Finish
  <2>3. /\ topic' \in [Rooms -> {"unmade", "plain", "session"}]
        /\ members' \in [Rooms -> SUBSET (Users \cup {Bot})]
    BY <1>11 DEF Answer, MakeRoom, SessionTopic, serverVars
  <2> QED
    BY <1>11, <2>2, <2>3 DEF Answer, serverVars, indexVars, seedVars
<1>12. CASE SeedList
  <2>1. AtRest \in Seedings /\ Joined \in SUBSET Rooms
    BY DEF AtRest, Seedings, Joined
  <2>2. [seed EXCEPT !.pc = "members", !.todo = Joined] \in Seedings
    BY <2>1 DEF Seedings
  <2> QED
    BY <1>12, <2>1, <2>2, BoundAssumption DEF SeedList, Fails, serverVars, indexVars
<1>13. ASSUME NEW r \in Rooms, SeedMembers(r) PROVE TypeOK'
  <2>1. [seed EXCEPT !.todo = @ \ {r}] \in Seedings
    BY DEF Seedings
  <2>2. ASSUME NEW u \in members[r] \ {Bot}
        PROVE  [pc |-> "topic", todo |-> seed.todo \ {r}, room |-> r, other |-> u]
                 \in Seedings
    <3>1. u \in Users /\ seed.todo \in SUBSET Rooms
      BY DEF Seedings
    <3> QED
      BY <3>1 DEF Seedings
  <2>3. seed' \in Seedings
    BY <1>13, <2>1, <2>2 DEF SeedMembers
  <2> QED
    BY <1>13, <2>3, BoundAssumption DEF SeedMembers, Fails, serverVars, indexVars
<1>14. CASE SeedTopic
  <2>1. \A step \in {"members", "track"} : [seed EXCEPT !.pc = step] \in Seedings
    BY DEF Seedings
  <2>2. seed' \in Seedings
    BY <1>14, <2>1 DEF SeedTopic
  <2>3. misread' \in SUBSET Rooms
    BY <1>14 DEF SeedTopic, SeedInv
  <2> QED
    BY <1>14, <2>2, <2>3, BoundAssumption DEF SeedTopic, Fails, serverVars, indexVars
<1>15. CASE SeedTrack
  <2>1. seed.other \in Users /\ seed.room \in Rooms
    BY <1>15 DEF SeedTrack, SeedInv
  <2>2. TrackFirst(seed.other, seed.room)
    BY <1>15 DEF SeedTrack
  <2>3. /\ dmRoomUser' \in [Rooms -> Users \cup {NoUser}]
        /\ dmUserRooms' \in [Users -> Seq(Rooms)]
    BY <2>1, <2>2, TrackedFirst
  <2>4. raced' \in SUBSET Users
    BY <2>1, <2>2 DEF TrackFirst
  <2>5. [seed EXCEPT !.pc = "members"] \in Seedings
    BY DEF Seedings
  <2> QED
    BY <1>15, <2>1, <2>3, <2>4, <2>5 DEF SeedTrack, serverVars
<1>16. CASE SeedEnds
  <2>1. AtRest \in Seedings
    BY DEF AtRest, Seedings
  <2> QED
    BY <1>16, <2>1 DEF SeedEnds, serverVars, indexVars
<1>17. CASE UNCHANGED vars
  BY <1>17 DEF vars, serverVars, indexVars, seedVars
<1> QED
  BY <1>1, <1>2, <1>3, <1>4, <1>5, <1>6, <1>7, <1>8, <1>9, <1>10, <1>11, <1>12,
     <1>13, <1>14, <1>15, <1>16, <1>17
     DEF Next, Homeserver, Client, DMHandler, SeedStep

-----------------------------------------------------------------------------
(* The homeserver's rooms and the events about them *)

LEMMA ServerStep ==
    ASSUME TypeOK, ServerInv, QueueInv, [Next]_vars
    PROVE  /\ ServerInv'
           /\ \A r \in Rooms : topic[r] # "unmade" => topic'[r] = topic[r]
<1> USE DEF TypeOK, ServerInv
<1>1. ASSUME NEW u \in Users, NEW r \in Rooms, UserMakesRoom(u, r)
      PROVE  ServerInv' /\ \A q \in Rooms : topic[q] # "unmade" => topic'[q] = topic[q]
  BY <1>1 DEF UserMakesRoom, MakeRoom
<1>2. ASSUME NEW u \in Users, NEW r \in Rooms, UserComesOrGoes(u, r)
      PROVE  ServerInv' /\ topic' = topic
  <2>1. topic' = topic /\ topic[r] # "unmade"
    BY <1>2 DEF UserComesOrGoes
  <2>2. \A q \in Rooms \ {r} : members'[q] = members[q]
    BY <1>2 DEF UserComesOrGoes
  <2>3. Bot \in members[r] => Bot \in members'[r]
    BY <1>2, NullAssumption DEF UserComesOrGoes
  <2> QED
    BY <2>1, <2>2, <2>3
<1>3. ASSUME NEW r \in Rooms, JoinRoom(r)
      PROVE  ServerInv' /\ topic' = topic
  BY <1>3 DEF JoinRoom, QueueInv
<1>4. ASSUME NEW p \in Handlers, CreateDMRoom(p)
      PROVE  ServerInv' /\ \A q \in Rooms : topic[q] # "unmade" => topic'[q] = topic[q]
  BY <1>4 DEF CreateDMRoom, MakeRoom, serverVars
<1>5. ASSUME NEW p \in Handlers, Answer(p)
      PROVE  ServerInv' /\ \A q \in Rooms : topic[q] # "unmade" => topic'[q] = topic[q]
  BY <1>5 DEF Answer, MakeRoom, SessionTopic, serverVars
<1>6. ASSUME \/ \E u \in Users, r \in Rooms : InviteBot(u, r) \/ UserSays(u, r)
             \/ HandleInvite \/ HandleMessage \/ SeedStep
             \/ \E p \in Handlers : CheckDMRoom(p) \/ TrackDMRoom(p)
             \/ UNCHANGED vars
      PROVE  ServerInv' /\ topic' = topic
  <2>1. topic' = topic /\ members' = members
    BY <1>6 DEF InviteBot, UserSays, HandleInvite, HandleMessage, SeedStep, SeedList,
         SeedMembers, SeedTopic, SeedTrack, SeedEnds, CheckDMRoom, TrackDMRoom,
         serverVars, vars
  <2> QED
    BY <2>1
<1> QED
  BY <1>1, <1>2, <1>3, <1>4, <1>5, <1>6 DEF Next, Homeserver, Client, DMHandler

LEMMA QueueStep ==
    ASSUME TypeOK, ServerInv, QueueInv, [Next]_vars
    PROVE  QueueInv'
<1>1. \A r \in Rooms : topic[r] # "unmade" => topic'[r] = topic[r]
  BY ServerStep
<1>2. events \in Seq(Event) /\ joining \subseteq Rooms
  BY DEF TypeOK
<1>3. \A i \in 1..Len(events) : events[i].room \in Rooms
  <2>1. \A i \in 1..Len(events) : events[i] \in Event
    BY <1>2
  <2> QED
    BY <2>1 DEF Event
<1>4. ASSUME events' = events, joining' \subseteq joining PROVE QueueInv'
  BY <1>1, <1>2, <1>3, <1>4 DEF QueueInv
<1>5. ASSUME NEW u \in Users, NEW r \in Rooms, NEW type \in {"invite", "message"},
             Push(type, r, u), type = "invite" => topic[r] = "plain",
             joining' = joining
      PROVE  QueueInv'
  <2> DEFINE e == [type |-> type, room |-> r, user |-> u]
  <2>1. e \in Event /\ events' = Append(events, e)
    BY <1>5 DEF Push, Event
  <2> HIDE DEF e
  <2>2. /\ Len(events') = Len(events) + 1
        /\ events'[Len(events) + 1] = e
        /\ \A i \in 1..Len(events) : events'[i] = events[i]
    BY <2>1, <1>2
  <2>3. ASSUME NEW i \in 1..Len(events'), events'[i].type = "invite"
        PROVE  topic'[events'[i].room] = "plain"
    <3>1. CASE i = Len(events) + 1
      BY <3>1, <2>2, <2>3, <1>1, <1>5 DEF e
    <3>2. CASE i # Len(events) + 1
      <4>1. i \in 1..Len(events)
        BY <3>2, <2>2, <1>2
      <4> QED
        BY <4>1, <2>2, <2>3, <1>1, <1>3 DEF QueueInv
    <3> QED
      BY <3>1, <3>2
  <2> QED
    BY <2>3, <1>1, <1>2, <1>5 DEF QueueInv
<1>6. ASSUME NEW u \in Users, NEW r \in Rooms, InviteBot(u, r) PROVE QueueInv'
  <2>1. topic[r] = "plain"
    BY <1>6 DEF InviteBot, ServerInv, TypeOK
  <2> QED
    BY <1>5, <1>6, <2>1 DEF InviteBot
<1>7. ASSUME NEW u \in Users, NEW r \in Rooms, UserSays(u, r) PROVE QueueInv'
  BY <1>5, <1>7 DEF UserSays
<1>8. ASSUME events # <<>>, events' = Tail(events),
             \A r \in joining' : r \in joining \/ topic[r] # "unmade",
             joining' \subseteq Rooms
      PROVE  QueueInv'
  BY <1>1, <1>2, <1>3, <1>8, Heads DEF QueueInv
<1>9. CASE HandleInvite
  <2>1. Head(events).room \in Rooms /\ topic[Head(events).room] = "plain"
    BY <1>9, <1>3, Heads DEF HandleInvite, QueueInv
  <2> QED
    BY <1>2, <1>8, <1>9, <2>1 DEF HandleInvite
<1>10. CASE HandleMessage
  BY <1>2, <1>8, <1>10 DEF HandleMessage
<1>11. ASSUME \/ \E u \in Users, r \in Rooms :
                    UserMakesRoom(u, r) \/ UserComesOrGoes(u, r)
              \/ SeedStep \/ (\E r \in Rooms : JoinRoom(r))
              \/ (\E p \in Handlers : DMHandler(p)) \/ UNCHANGED vars
       PROVE  events' = events /\ joining' \subseteq joining
  BY <1>11 DEF UserMakesRoom, UserComesOrGoes, SeedStep, SeedList, SeedMembers,
       SeedTopic, SeedTrack, SeedEnds, JoinRoom, DMHandler, CheckDMRoom,
       CreateDMRoom, TrackDMRoom, Answer, vars
<1> QED
  BY <1>4, <1>6, <1>7, <1>9, <1>10, <1>11 DEF Next, Homeserver, Client

-----------------------------------------------------------------------------
(* The goroutines of onDMMessage *)

\* The steps that leave the goroutines of onDMMessage alone.
Elsewhere ==
    \/ \E u \in Users, r \in Rooms :
         UserMakesRoom(u, r) \/ InviteBot(u, r) \/ UserComesOrGoes(u, r)
           \/ UserSays(u, r)
    \/ SeedList \/ SeedTopic \/ SeedEnds
    \/ (\E r \in Rooms : SeedMembers(r) \/ JoinRoom(r))
    \/ UNCHANGED vars

LEMMA ElsewhereSame ==
    ASSUME Elsewhere
    PROVE  h' = h /\ dmRoomUser' = dmRoomUser /\ dmUserRooms' = dmUserRooms
           /\ raced' = raced
BY DEF Elsewhere, UserMakesRoom, InviteBot, UserComesOrGoes, UserSays, SeedList,
       SeedTopic, SeedEnds, SeedMembers, JoinRoom, vars, indexVars

\* A room is tracked at the front: by an invitation or by the seeding.
LEMMA FrontTrackings ==
    ASSUME TypeOK, SeedInv, HandleInvite \/ SeedTrack
    PROVE  \E u \in Users, r \in Rooms :
             /\ TrackFirst(u, r) /\ h' = h /\ topic' = topic /\ misread' = misread
             /\ \/ HandleInvite /\ r = Head(events).room
                \/ SeedTrack /\ r = seed.room
<1>1. CASE HandleInvite
  <2>1. Head(events) \in Event
    BY <1>1, Heads DEF HandleInvite
  <2> QED
    BY <1>1, <2>1 DEF HandleInvite, Event, serverVars, seedVars
<1>2. CASE SeedTrack
  BY <1>2 DEF SeedTrack, SeedInv, serverVars
<1> QED
  BY <1>1, <1>2

LEMMA HandlerStep ==
    ASSUME TypeOK, ServerInv, QueueInv, HandlerInv, SeedInv, [Next]_vars
    PROVE  HandlerInv'
<1> USE DEF TypeOK, HandlerInv
<1>1. \A r \in Rooms : topic[r] # "unmade" => topic'[r] = topic[r]
  BY ServerStep
<1>2. ASSUME Elsewhere PROVE HandlerInv'
  BY <1>1, <1>2, ElsewhereSame
<1>3. ASSUME HandleInvite \/ SeedTrack PROVE HandlerInv'
  <2>1. PICK u \in Users, r \in Rooms : TrackFirst(u, r) /\ h' = h
    BY <1>3, FrontTrackings
  <2>2. raced \subseteq raced'
    BY <2>1 DEF TrackFirst
  <2>3. ASSUME NEW p \in Handlers, h[p].pc \in {"create", "track"}
        PROVE  h[p].user \in raced' \/ dmUserRooms'[h[p].user] = <<>>
    <3>1. CASE h[p].user = u
      BY <2>1, <2>3, <3>1 DEF TrackFirst, Creating
    <3>2. CASE h[p].user # u
      BY <2>1, <2>2, <2>3, <3>2, TrackedFirst
    <3> QED
      BY <3>1, <3>2
  <2> QED
    BY <1>1, <2>1, <2>3
<1>4. CASE HandleMessage
  <2>1. Head(events) \in Event
    BY <1>4, Heads DEF HandleMessage
  <2>2. Head(events).user \in Users
    BY <2>1 DEF Event
  <2>3. dmUserRooms' = dmUserRooms /\ raced' = raced /\ topic' = topic
    BY <1>4 DEF HandleMessage, indexVars, serverVars
  <2> DEFINE c == [Idle EXCEPT !.pc = "check", !.user = Head(events).user]
  <2>4. c.pc = "check" /\ c.user = Head(events).user
    BY DEF Idle
  <2>5. h' = h \/ \E p \in Handlers : h' = [h EXCEPT ![p] = c]
    BY <1>4 DEF HandleMessage
  <2> HIDE DEF c
  <2> QED
    BY <2>2, <2>3, <2>4, <2>5
<1>5. ASSUME NEW p \in Handlers, CheckDMRoom(p) PROVE HandlerInv'
  <2>1. dmUserRooms' = dmUserRooms /\ raced' = raced /\ topic' = topic
    BY <1>5 DEF CheckDMRoom, indexVars, serverVars
  <2>2. h'[p].user = h[p].user
    BY <1>5 DEF CheckDMRoom, Goto, Calls
  <2>3. /\ h'[p].pc \in {"create", "answer"}
        /\ h'[p].pc = "create" => dmUserRooms[h[p].user] = <<>>
    BY <1>5 DEF CheckDMRoom, Goto, Calls
  <2>4. \A q \in Handlers \ {p} : h'[q] = h[q]
    BY <1>5 DEF CheckDMRoom, Goto
  <2>5. h[p].pc = "check"
    BY <1>5 DEF CheckDMRoom
  <2> QED
    BY <2>1, <2>2, <2>3, <2>4, <2>5
<1>6. ASSUME NEW p \in Handlers, CreateDMRoom(p) PROVE HandlerInv'
  <2>1. dmUserRooms' = dmUserRooms /\ raced' = raced
    BY <1>6 DEF CreateDMRoom, indexVars
  <2>2. \A q \in Handlers \ {p} : h'[q] = h[q]
    BY <1>6 DEF CreateDMRoom, Finish
  <2>3. h[p].pc = "create"
    BY <1>6 DEF CreateDMRoom
  <2>4. \/ h'[p] = Idle
        \/ /\ h'[p].pc = "track" /\ h'[p].user = h[p].user
           /\ h'[p].room \in Rooms /\ topic'[h'[p].room] = "plain"
    <3>1. CASE Finish(p)
      BY <3>1 DEF Finish
    <3>2. ASSUME NEW r \in Rooms, topic' = [topic EXCEPT ![r] = "plain"],
                 h' = [h EXCEPT ![p] = [@ EXCEPT !.pc = "track", !.room = r]]
          PROVE  /\ h'[p].pc = "track" /\ h'[p].user = h[p].user
                 /\ h'[p].room \in Rooms /\ topic'[h'[p].room] = "plain"
      <4>1. h'[p] = [h[p] EXCEPT !.pc = "track", !.room = r]
        BY <3>2
      <4>2. h'[p].pc = "track" /\ h'[p].user = h[p].user /\ h'[p].room = r
        BY <4>1 DEF Calls
      <4> QED
        BY <3>2, <4>2
    <3> QED
      BY <1>6, <3>1, <3>2 DEF CreateDMRoom, MakeRoom
  <2>5. Idle.pc = "idle"
    BY DEF Idle
  <2> QED
    BY <1>1, <2>1, <2>2, <2>3, <2>4, <2>5
<1>7. ASSUME NEW p \in Handlers, TrackDMRoom(p) PROVE HandlerInv'
  <2>1. topic' = topic /\ raced \subseteq raced'
    BY <1>7 DEF TrackDMRoom, serverVars
  <2>2. h'[p].pc = "answer" /\ h'[p].user = h[p].user
    BY <1>7 DEF TrackDMRoom, Goto, Calls
  <2>3. \A q \in Handlers \ {p} : h'[q] = h[q]
    BY <1>7 DEF TrackDMRoom, Goto
  <2>4. ASSUME NEW q \in Handlers \ {p}, h[q].pc \in {"create", "track"}
        PROVE  h[q].user \in raced' \/ dmUserRooms'[h[q].user] = <<>>
    <3>1. CASE h[q].user = h[p].user
      BY <1>7, <2>4, <3>1 DEF TrackDMRoom
    <3>2. CASE h[q].user # h[p].user
      BY <1>7, <2>1, <2>4, <3>2 DEF TrackDMRoom
    <3> QED
      BY <3>1, <3>2
  <2>5. h[p].pc = "track"
    BY <1>7 DEF TrackDMRoom
  <2> QED
    BY <2>1, <2>2, <2>3, <2>4, <2>5
<1>8. ASSUME NEW p \in Handlers, Answer(p) PROVE HandlerInv'
  <2>1. dmUserRooms' = dmUserRooms /\ raced' = raced
    BY <1>8 DEF Answer, indexVars
  <2>2. h' = [h EXCEPT ![p] = Idle] /\ Idle.pc = "idle"
    BY <1>8 DEF Answer, Finish, Idle
  <2> QED
    BY <1>1, <2>1, <2>2
<1> QED
  BY <1>2, <1>3, <1>4, <1>5, <1>6, <1>7, <1>8
     DEF Next, Homeserver, Client, DMHandler, SeedStep, Elsewhere

-----------------------------------------------------------------------------
(* The seeding *)

LEMMA SeedingStep ==
    ASSUME TypeOK, ServerInv, QueueInv, SeedInv, [Next]_vars
    PROVE  SeedInv'
<1> USE DEF TypeOK, SeedInv
<1>1. \A r \in Rooms : topic[r] # "unmade" => topic'[r] = topic[r]
  BY ServerStep
<1>2. seed.todo \subseteq Rooms
  BY DEF Seedings
<1>3. ASSUME seed' = seed, misread' = misread PROVE SeedInv'
  BY <1>1, <1>2, <1>3
<1>4. CASE SeedList
  <2>1. AtRest.pc = "done" /\ AtRest.todo = {}
    BY DEF AtRest
  <2>2. \/ seed'.pc = "members" /\ seed'.todo = Joined
        \/ seed'.pc = "done" /\ seed'.todo = {}
    BY <1>4, <2>1 DEF SeedList, Seedings
  <2>3. \A r \in Joined : topic[r] # "unmade"
    BY DEF Joined, ServerInv
  <2> QED
    BY <1>1, <2>2, <2>3 DEF Joined
<1>5. ASSUME NEW r \in Rooms, SeedMembers(r) PROVE SeedInv'
  <2>1. r \in seed.todo /\ topic' = topic /\ seed.pc = "members"
    BY <1>5 DEF SeedMembers, serverVars
  <2>2. \/ seed'.pc = "members" /\ seed'.todo = seed.todo \ {r}
        \/ /\ seed'.pc = "topic" /\ seed'.todo = seed.todo \ {r}
           /\ seed'.room = r /\ seed'.other \in Users
    BY <1>5 DEF SeedMembers, Seedings
  <2> QED
    BY <2>1, <2>2
<1>6. CASE SeedTopic
  <2>1. topic' = topic /\ seed.pc = "topic"
    BY <1>6 DEF SeedTopic, serverVars
  <2>2. /\ seed'.todo = seed.todo /\ seed'.room = seed.room
        /\ seed'.other = seed.other /\ seed'.pc \in {"members", "track"}
    BY <1>6 DEF SeedTopic, Seedings
  <2>3. seed'.pc = "track" => topic[seed.room] # "session" \/ seed.room \in misread'
    BY <1>6 DEF SeedTopic, Seedings, IsSessionRoom
  <2> QED
    BY <2>1, <2>2, <2>3
<1>7. CASE SeedTrack
  <2>1. topic' = topic /\ seed'.todo = seed.todo /\ seed'.pc = "members"
    BY <1>7 DEF SeedTrack, serverVars, Seedings
  <2> QED
    BY <2>1
<1>8. CASE SeedEnds
  <2>1. topic' = topic /\ seed'.todo = {} /\ seed'.pc = "done"
    BY <1>8 DEF SeedEnds, serverVars, AtRest
  <2> QED
    BY <2>1
<1>9. ASSUME \/ Homeserver \/ HandleInvite \/ HandleMessage
             \/ (\E r \in Rooms : JoinRoom(r))
             \/ (\E p \in Handlers : DMHandler(p)) \/ UNCHANGED vars
      PROVE  seed' = seed /\ misread' = misread /\ missed' = missed
  BY <1>9 DEF Homeserver, UserMakesRoom, InviteBot, UserComesOrGoes, UserSays,
     HandleInvite, HandleMessage, JoinRoom, DMHandler, CheckDMRoom, CreateDMRoom,
     TrackDMRoom, Answer, vars, seedVars
<1> QED
  BY <1>3, <1>4, <1>5, <1>6, <1>7, <1>8, <1>9 DEF Next, Client, SeedStep

-----------------------------------------------------------------------------
(* The rooms taken for DMs *)

\* What each step adds to the rooms taken for DMs.
LEMMA KnownGrows ==
    ASSUME TypeOK, HandlerInv, SeedInv, [Next]_vars
    PROVE  \/ dmRoomUser' = dmRoomUser /\ Known' = Known
           \/ \E r \in Rooms :
                /\ Known' = Known \cup {r}
                /\ topic' = topic /\ misread' = misread
                /\ \/ HandleInvite /\ r = Head(events).room
                   \/ SeedTrack /\ r = seed.room
                   \/ \E p \in Handlers : TrackDMRoom(p) /\ r = h[p].room
<1>1. CASE HandleInvite \/ SeedTrack
  BY <1>1, FrontTrackings, TrackedFirst
<1>2. ASSUME NEW p \in Handlers, TrackDMRoom(p)
      PROVE  /\ Known' = Known \cup {h[p].room} /\ h[p].room \in Rooms
             /\ topic' = topic /\ misread' = misread
  <2>1. h[p].user \in Users /\ h[p].room \in Rooms
    BY <1>2 DEF TrackDMRoom, HandlerInv
  <2>2. dmRoomUser' = [dmRoomUser EXCEPT ![h[p].room] = h[p].user]
    BY <1>2 DEF TrackDMRoom
  <2> QED
    BY <1>2, <2>1, <2>2, NullAssumption DEF TrackDMRoom, serverVars, seedVars, Known,
       TypeOK
<1>3. ASSUME Elsewhere PROVE dmRoomUser' = dmRoomUser
  BY <1>3, ElsewhereSame
<1>4. ASSUME HandleMessage \/ \E p \in Handlers : CheckDMRoom(p) \/ CreateDMRoom(p)
               \/ Answer(p)
      PROVE  dmRoomUser' = dmRoomUser
  BY <1>4 DEF HandleMessage, CheckDMRoom, CreateDMRoom, Answer, indexVars
<1>5. ASSUME dmRoomUser' = dmRoomUser PROVE Known' = Known
  BY <1>5 DEF Known
<1> QED
  BY <1>1, <1>2, <1>3, <1>4, <1>5
     DEF Next, Homeserver, Client, DMHandler, SeedStep, Elsewhere

LEMMA MisreadGrows ==
    ASSUME [Next]_vars
    PROVE  misread \subseteq misread'
BY DEF Next, Homeserver, UserMakesRoom, InviteBot, UserComesOrGoes, UserSays, Client,
     HandleInvite, HandleMessage, JoinRoom, DMHandler, CheckDMRoom, CreateDMRoom,
     TrackDMRoom, Answer, SeedStep, SeedList, SeedMembers, SeedTopic, SeedTrack,
     SeedEnds, vars, seedVars

LEMMA KnownStep ==
    ASSUME TypeOK, ServerInv, QueueInv, HandlerInv, SeedInv, KnownInv, [Next]_vars
    PROVE  KnownInv'
<1>1. \A r \in Rooms : topic[r] # "unmade" => topic'[r] = topic[r]
  BY ServerStep
<1>2. Known \subseteq Rooms
  BY DEF Known
<1>3. misread \subseteq misread'
  BY MisreadGrows
<1>4. CASE Known' = Known
  BY <1>1, <1>2, <1>3, <1>4 DEF KnownInv
<1>5. ASSUME NEW r \in Rooms, Known' = Known \cup {r}, topic' = topic,
             misread' = misread,
             topic[r] # "unmade", topic[r] = "session" => r \in misread
      PROVE  KnownInv'
  BY <1>5 DEF KnownInv
<1>6. CASE HandleInvite
  <2>1. topic[Head(events).room] = "plain"
    BY <1>6, Heads DEF HandleInvite, QueueInv
  <2>2. \A r \in Rooms : SeedTrack /\ r = seed.room =>
          topic[r] # "unmade" /\ (topic[r] = "session" => r \in misread)
    BY DEF SeedTrack, SeedInv
  <2>3. \A r \in Rooms, p \in Handlers : TrackDMRoom(p) /\ r = h[p].room =>
          topic[r] = "plain"
    BY DEF TrackDMRoom, HandlerInv
  <2> QED
    BY <1>4, <1>5, <2>1, <2>2, <2>3, KnownGrows
<1>7. CASE ~HandleInvite
  <2>1. \A r \in Rooms : SeedTrack /\ r = seed.room =>
          topic[r] # "unmade" /\ (topic[r] = "session" => r \in misread)
    BY DEF SeedTrack, SeedInv
  <2>2. \A r \in Rooms, p \in Handlers : TrackDMRoom(p) /\ r = h[p].room =>
          topic[r] = "plain"
    BY DEF TrackDMRoom, HandlerInv
  <2> QED
    BY <1>4, <1>5, <1>7, <2>1, <2>2, KnownGrows
<1> QED
  BY <1>6, <1>7

LEMMA KnownStays ==
    ASSUME TypeOK, HandlerInv, SeedInv, [Next]_vars
    PROVE  Known \subseteq Known'
BY KnownGrows

-----------------------------------------------------------------------------
(* Seeding finds the DMs *)

LEMMA SteadyStep ==
    ASSUME TypeOK, ServerInv, QueueInv, HandlerInv, SeedInv, SteadyInv, [Next]_vars
    PROVE  SteadyInv'
<1> USE DEF TypeOK
<1>1. Known \subseteq Known'
  BY KnownStays
<1>2. seed.todo \subseteq Rooms
  BY DEF Seedings
\* Steady rooms keep their topic and members.
<1>3. /\ steady' \subseteq steady
      /\ \A r \in steady' : topic'[r] = topic[r] /\ members'[r] = members[r]
  <2>1. ASSUME NEW u \in Users, NEW r \in Rooms, UserMakesRoom(u, r)
        PROVE  /\ steady' = steady
               /\ \A q \in steady : topic'[q] = topic[q] /\ members'[q] = members[q]
    BY <2>1 DEF UserMakesRoom, MakeRoom, SteadyInv
  <2>2. ASSUME NEW u \in Users, NEW r \in Rooms, UserComesOrGoes(u, r)
        PROVE  /\ steady' = steady \ {r} /\ topic' = topic
               /\ \A q \in Rooms \ {r} : members'[q] = members[q]
    BY <2>2 DEF UserComesOrGoes
  <2>3. ASSUME NEW r \in Rooms, JoinRoom(r)
        PROVE  \/ steady' = steady /\ topic' = topic /\ members' = members
               \/ /\ steady' = steady \ {r} /\ topic' = topic
                  /\ \A q \in Rooms \ {r} : members'[q] = members[q]
    BY <2>3 DEF JoinRoom
  <2>4. ASSUME NEW p \in Handlers, CreateDMRoom(p) \/ Answer(p)
        PROVE  /\ steady' = steady
               /\ \A q \in steady : topic'[q] = topic[q] /\ members'[q] = members[q]
    BY <2>4 DEF CreateDMRoom, Answer, MakeRoom, SteadyInv, serverVars
  <2>5. ASSUME \/ \E u \in Users, r \in Rooms : InviteBot(u, r) \/ UserSays(u, r)
               \/ HandleInvite \/ HandleMessage \/ SeedStep
               \/ \E p \in Handlers : CheckDMRoom(p) \/ TrackDMRoom(p)
               \/ UNCHANGED vars
        PROVE  topic' = topic /\ members' = members /\ steady' = steady
    BY <2>5 DEF InviteBot, UserSays, HandleInvite, HandleMessage, SeedStep, SeedList,
         SeedMembers, SeedTopic, SeedTrack, SeedEnds, CheckDMRoom, TrackDMRoom,
         serverVars, vars
  <2> QED
    BY <2>1, <2>2, <2>3, <2>4, <2>5 DEF Next, Homeserver, Client, DMHandler
<1>4. \A r \in steady' : OneToOne(r)' /\ Bot \in members'[r] /\ topic'[r] = "plain"
  BY <1>3 DEF SteadyInv, OneToOne
<1>5. ASSUME seed' = seed, missed' = missed
      PROVE  SteadyInv'
  <2>1. Ahead' = Ahead
    BY <1>5 DEF Ahead
  <2> QED
    BY <1>1, <1>3, <1>4, <1>5, <2>1 DEF SteadyInv
<1>6. CASE SeedList
  <2>1. AtRest.pc = "done" /\ AtRest.todo = {}
    BY DEF AtRest
  <2>2. \/ seed'.pc = "members" /\ seed'.todo = Joined
        \/ seed'.pc = "done" /\ seed'.todo = {} /\ missed' = Joined
    BY <1>6, <2>1 DEF SeedList, Seedings
  <2>3. steady' \subseteq Joined
    BY <1>3 DEF SteadyInv, Joined
  <2> QED
    BY <1>4, <2>2, <2>3 DEF SteadyInv, Ahead
<1>7. ASSUME NEW r \in Rooms, SeedMembers(r) PROVE SteadyInv'
  <2>1. r \in seed.todo /\ seed.pc = "members" /\ missed \subseteq missed'
    BY <1>7 DEF SeedMembers
  <2>2. \/ /\ seed'.pc = "members" /\ seed'.todo = seed.todo \ {r}
           /\ r \notin steady \/ r \in missed'
        \/ /\ seed'.pc = "topic" /\ seed'.todo = seed.todo \ {r} /\ seed'.room = r
    BY <1>7 DEF SeedMembers, Skips, Seedings, SteadyInv
  <2>3. steady \subseteq Known \cup missed \cup seed.todo
    BY <2>1 DEF SteadyInv, Ahead
  <2>4. steady' \subseteq Known' \cup missed' \cup Ahead'
    BY <1>1, <1>3, <2>1, <2>2, <2>3 DEF Ahead
  <2> QED
    BY <1>4, <2>2, <2>4 DEF SteadyInv
<1>8. CASE SeedTopic
  <2>1. seed.pc = "topic" /\ missed' = missed
    BY <1>8 DEF SeedTopic
  <2>2. /\ seed'.todo = seed.todo /\ seed'.room = seed.room
        /\ \/ seed'.pc = "track"
           \/ seed'.pc = "members" /\ topic[seed.room] = "session"
    BY <1>8 DEF SeedTopic, Seedings, IsSessionRoom
  <2>3. steady' \subseteq Known' \cup missed' \cup Ahead'
    BY <1>1, <1>3, <2>1, <2>2 DEF SteadyInv, Ahead
  <2> QED
    BY <1>4, <2>2, <2>3 DEF SteadyInv
<1>9. CASE SeedTrack
  <2>1. /\ seed.pc = "track" /\ missed' = missed
        /\ seed'.pc = "members" /\ seed'.todo = seed.todo
    BY <1>9 DEF SeedTrack, Seedings
  <2>2. seed.room \in Rooms /\ seed.other \in Users
    BY <2>1 DEF SeedInv
  <2>3. TrackFirst(seed.other, seed.room)
    BY <1>9 DEF SeedTrack
  <2>4. seed.room \in Known'
    BY <2>2, <2>3, TrackedFirst
  <2> QED
    BY <1>1, <1>3, <1>4, <2>1, <2>4 DEF SteadyInv, Ahead
<1>10. CASE SeedEnds
  <2>1. /\ seed.pc = "members" /\ seed.todo = {} /\ missed' = missed
        /\ seed'.pc = "done" /\ seed'.todo = {}
    BY <1>10 DEF SeedEnds, AtRest
  <2> QED
    BY <1>1, <1>3, <1>4, <2>1 DEF SteadyInv, Ahead
<1>11. ASSUME \/ Homeserver \/ HandleInvite \/ HandleMessage
              \/ (\E r \in Rooms : JoinRoom(r))
              \/ (\E p \in Handlers : DMHandler(p)) \/ UNCHANGED vars
       PROVE  seed' = seed /\ missed' = missed
  BY <1>11 DEF Homeserver, UserMakesRoom, InviteBot, UserComesOrGoes, UserSays,
     HandleInvite, HandleMessage, JoinRoom, DMHandler, CheckDMRoom, CreateDMRoom,
     TrackDMRoom, Answer, vars, seedVars
<1> QED
  BY <1>5, <1>6, <1>7, <1>8, <1>9, <1>10, <1>11 DEF Next, Client, SeedStep

-----------------------------------------------------------------------------
(* The two indexes *)

LEMMA ListedStep ==
    ASSUME TypeOK, HandlerInv, SeedInv, DMsStayListed, [Next]_vars
    PROVE  DMsStayListed'
<1> USE DEF TypeOK
<1>0. /\ \A q \in Known : dmRoomUser[q] \in raced
                            \/ q \in Elements(dmUserRooms[dmRoomUser[q]])
      /\ \A v \in Users : Elements(dmUserRooms[v]) \subseteq Known
  BY DEF DMsStayListed, Listed, Elements
\* The rooms commands are answered in.
<1>A. \A p \in Handlers : h'[p].pc = "answer" => h'[p].room \in Known'
  <2> DEFINE Answers == \A p \in Handlers : h'[p].pc = "answer" => h'[p].room \in Known'
  <2>0. Known \subseteq Known'
    BY KnownStays
  <2>1. ASSUME h' = h PROVE Answers
    BY <2>0, <2>1 DEF DMsStayListed
  <2>2. ASSUME NEW p \in Handlers, \A q \in Handlers \ {p} : h'[q] = h[q],
               h'[p].pc = "answer" => h'[p].room \in Known'
        PROVE  Answers
    BY <2>0, <2>2 DEF DMsStayListed
  <2>3. CASE HandleMessage
    <3> DEFINE c == [Idle EXCEPT !.pc = "check", !.user = Head(events).user]
    <3>1. c.pc = "check"
      BY DEF Idle
    <3>2. h' = h \/ \E p \in Handlers : h' = [h EXCEPT ![p] = c]
      BY <2>3 DEF HandleMessage
    <3> HIDE DEF c
    <3> QED
      BY <2>1, <2>2, <3>1, <3>2
  <2>4. ASSUME NEW p \in Handlers, CheckDMRoom(p) PROVE Answers
    <3>1. h[p].user \in Users
      BY <2>4 DEF CheckDMRoom, HandlerInv
    <3>2. dmUserRooms[h[p].user] \in Seq(Rooms)
      BY <3>1
    <3>3. dmUserRooms[h[p].user] # <<>> =>
            Head(dmUserRooms[h[p].user]) \in Elements(dmUserRooms[h[p].user])
      BY <3>2 DEF Elements
    <3>4. CASE dmUserRooms[h[p].user] = <<>>
      <4>1. h' = [h EXCEPT ![p].pc = "create"]
        BY <2>4, <3>4 DEF CheckDMRoom, Goto
      <4>2. h'[p].pc = "create"
        BY <4>1 DEF Calls
      <4> QED
        BY <2>2, <4>1, <4>2
    <3>5. CASE dmUserRooms[h[p].user] # <<>>
      <4>1. h' = [h EXCEPT ![p] = [@ EXCEPT !.pc = "answer",
                                     !.room = Head(dmUserRooms[h[p].user])]]
        BY <2>4, <3>5 DEF CheckDMRoom
      <4>2. h'[p].room = Head(dmUserRooms[h[p].user])
        BY <4>1 DEF Calls
      <4> QED
        BY <1>0, <2>0, <2>2, <3>1, <3>3, <3>5, <4>1, <4>2
    <3> QED
      BY <3>4, <3>5
  <2>5. ASSUME NEW p \in Handlers, CreateDMRoom(p) PROVE Answers
    <3>1. \A q \in Handlers \ {p} : h'[q] = h[q]
      BY <2>5 DEF CreateDMRoom, Finish
    <3>2. h'[p].pc \in {"track", "idle"}
      <4>1. Idle.pc = "idle" /\ \A r \in Rooms :
              [h[p] EXCEPT !.pc = "track", !.room = r].pc = "track"
        BY DEF Idle, Calls
      <4> QED
        BY <2>5, <4>1 DEF CreateDMRoom, Finish
    <3> QED
      BY <2>2, <3>1, <3>2
  <2>6. ASSUME NEW p \in Handlers, TrackDMRoom(p) PROVE Answers
    <3>1. h[p].room \in Rooms /\ h[p].user \in Users
      BY <2>6 DEF TrackDMRoom, HandlerInv
    <3>2. dmRoomUser' = [dmRoomUser EXCEPT ![h[p].room] = h[p].user]
      BY <2>6 DEF TrackDMRoom
    <3>3. h[p].room \in Known'
      BY <3>1, <3>2, NullAssumption DEF Known
    <3>4. h' = [h EXCEPT ![p].pc = "answer"]
      BY <2>6 DEF TrackDMRoom, Goto
    <3>5. h'[p].room = h[p].room
      BY <3>4 DEF Calls
    <3> QED
      BY <2>2, <3>3, <3>4, <3>5
  <2>7. ASSUME NEW p \in Handlers, Answer(p) PROVE Answers
    <3>1. h' = [h EXCEPT ![p] = Idle] /\ Idle.pc = "idle"
      BY <2>7 DEF Answer, Finish, Idle
    <3> QED
      BY <2>2, <3>1
  <2>8. CASE HandleInvite \/ SeedTrack
    BY <2>1, <2>8, FrontTrackings
  <2>9. CASE Elsewhere
    BY <2>1, <2>9, ElsewhereSame
  <2> QED
    BY <2>3, <2>4, <2>5, <2>6, <2>7, <2>8, <2>9
       DEF Next, Homeserver, Client, DMHandler, SeedStep, Elsewhere
<1>1. ASSUME dmRoomUser' = dmRoomUser, dmUserRooms' = dmUserRooms, raced' = raced
      PROVE  DMsStayListed'
  BY <1>0, <1>1, <1>A DEF DMsStayListed, Known, Listed, Elements
<1>2. ASSUME HandleInvite \/ SeedTrack PROVE DMsStayListed'
  <2>1. PICK u \in Users, r \in Rooms : TrackFirst(u, r)
    BY <1>2, FrontTrackings
  <2>2. /\ Known' = Known \cup {r}
        /\ Elements(dmUserRooms'[u]) = Elements(dmUserRooms[u]) \cup {r}
        /\ \A v \in Users \ {u} : dmUserRooms'[v] = dmUserRooms[v]
    BY <2>1, TrackedFirst DEF Listed, Elements
  <2>3. raced \subseteq raced' /\ dmRoomUser' = [dmRoomUser EXCEPT ![r] = u]
    BY <2>1 DEF TrackFirst
  <2>4. ASSUME NEW q \in Known'
        PROVE  dmRoomUser'[q] \in raced' \/ q \in Elements(dmUserRooms'[dmRoomUser'[q]])
    <3>1. CASE q = r
      BY <2>1, <2>2, <2>3, <3>1
    <3>2. CASE q # r
      <4>1. q \in Known /\ dmRoomUser'[q] = dmRoomUser[q] /\ dmRoomUser[q] \in Users
        BY <2>2, <2>3, <3>2 DEF Known
      <4> QED
        BY <2>2, <2>3, <4>1, <1>0
    <3> QED
      BY <3>1, <3>2
  <2>5. \A v \in Users : Elements(dmUserRooms'[v]) \subseteq Known'
    BY <1>0, <2>2
  <2> QED
    BY <1>A, <2>4, <2>5 DEF DMsStayListed, Listed, Elements
<1>3. ASSUME NEW p \in Handlers, TrackDMRoom(p) PROVE DMsStayListed'
  <2> DEFINE u == h[p].user
             r == h[p].room
  <2>1. /\ u \in Users /\ r \in Rooms
        /\ u \in raced \/ dmUserRooms[u] = <<>>
    BY <1>3 DEF TrackDMRoom, HandlerInv
  <2>2. /\ dmRoomUser' = [dmRoomUser EXCEPT ![r] = u]
        /\ dmUserRooms' = [dmUserRooms EXCEPT ![u] = <<r>>]
        /\ raced \subseteq raced'
    BY <1>3 DEF TrackDMRoom
  <2> HIDE DEF u, r
  <2>3. Known' = Known \cup {r}
    BY <2>1, <2>2, NullAssumption DEF Known
  <2>4. /\ dmUserRooms'[u] = <<r>>
        /\ \A v \in Users \ {u} : dmUserRooms'[v] = dmUserRooms[v]
    BY <2>1, <2>2
  <2>5. /\ u \in raced \/ Elements(dmUserRooms[u]) = {}
        /\ Elements(dmUserRooms'[u]) = {r}
    BY <2>1, <2>4 DEF Elements
  <2>6. ASSUME NEW q \in Known'
        PROVE  dmRoomUser'[q] \in raced' \/ q \in Elements(dmUserRooms'[dmRoomUser'[q]])
    <3>1. CASE q = r
      BY <2>1, <2>2, <2>5, <3>1
    <3>2. CASE q # r
      <4>1. q \in Known /\ dmRoomUser'[q] = dmRoomUser[q] /\ dmRoomUser[q] \in Users
        BY <2>2, <2>3, <3>2 DEF Known
      <4> QED
        BY <2>2, <2>4, <2>5, <4>1, <1>0
    <3> QED
      BY <3>1, <3>2
  <2>7. \A v \in Users : Elements(dmUserRooms'[v]) \subseteq Known'
    BY <1>0, <2>3, <2>4, <2>5
  <2> QED
    BY <1>A, <2>6, <2>7 DEF DMsStayListed, Listed, Elements
<1>4. ASSUME Elsewhere \/ HandleMessage
               \/ \E p \in Handlers : CheckDMRoom(p) \/ CreateDMRoom(p) \/ Answer(p)
      PROVE  dmRoomUser' = dmRoomUser /\ dmUserRooms' = dmUserRooms /\ raced' = raced
  BY <1>4, ElsewhereSame DEF HandleMessage, CheckDMRoom, CreateDMRoom, Answer, indexVars
<1> QED
  BY <1>1, <1>2, <1>3, <1>4
     DEF Next, Homeserver, Client, DMHandler, SeedStep, Elsewhere

-----------------------------------------------------------------------------
(* The theorems *)

LEMMA Initially == ASSUME Init PROVE IInv
<1>1. TypeOK
  BY TypeInit
<1>2. \A p \in Handlers : h[p].pc = "idle"
  BY DEF Init, Idle
<1>3. seed.pc = "list" /\ seed.todo = {}
  BY DEF Init, AtRest
<1>4. ServerInv /\ QueueInv
  BY DEF Init, ServerInv, QueueInv
<1>5. Known = {}
  BY DEF Init, Known
<1>6. \A u \in Users : Listed(u) = {}
  BY DEF Init, Listed
<1>7. \A r \in steady : OneToOne(r) /\ Bot \in members[r] /\ topic[r] = "plain"
  BY DEF Init, Joined
<1> QED
  BY <1>1, <1>2, <1>3, <1>4, <1>5, <1>6, <1>7
     DEF IInv, HandlerInv, SeedInv, KnownInv, SteadyInv, DMsStayListed

THEOREM RoutingInvariant == Spec => []IInv
<1>1. Init => IInv
  BY Initially
<1>2. IInv /\ [Next]_vars => IInv'
  BY TypeStep, ServerStep, QueueStep, HandlerStep, SeedingStep, KnownStep, SteadyStep,
     ListedStep DEF IInv
<1> QED
  BY <1>1, <1>2, PTL DEF Spec

\* The variables keep their types.
THEOREM TypeCorrect == Spec => []TypeOK
<1>1. IInv => TypeOK
  BY DEF IInv
<1> QED
  BY <1>1, RoutingInvariant, PTL

\* A session room whose topic could be read is never taken for a DM.
THEOREM SessionRoomsNeverDMs == Spec => []SessionRoomsStayRooms
<1>1. IInv => SessionRoomsStayRooms
  BY DEF IInv, KnownInv, SessionRoomsStayRooms
<1> QED
  BY <1>1, RoutingInvariant, PTL

\* The seeding leaves out no DM that it could list and that stayed one.
THEOREM SeedingIsComplete == Spec => []SeedFindsDMs
<1>1. IInv => SeedFindsDMs
  BY DEF IInv, SteadyInv, SeedFindsDMs, Ahead
<1> QED
  BY <1>1, RoutingInvariant, PTL

\* The two indexes agree but for creations that were overtaken.
THEOREM IndexesAgree == Spec => []DMsStayListed
<1>1. IInv => DMsStayListed
  BY DEF IInv
<1> QED
  BY <1>1, RoutingInvariant, PTL
=============================================================================
