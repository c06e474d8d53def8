----------------------------- MODULE RoomRouting -----------------------------
(***************************************************************************)
(* pkg/matrix/client.go: how the Matrix client tells direct messages from  *)
(* rooms.  A room is a DM when it is in dmRoomUser.  Three goroutines put  *)
(* rooms there: the event loop (the bot is invited), the seeding that      *)
(* Start runs over the rooms the bot is in already, and CreateDMRoom,      *)
(* which answers a DM in the first of the user's rooms or makes one.       *)
(*                                                                         *)
(* Every critical section of c.mu and every request to the homeserver is   *)
(* one action.  The homeserver (external) keeps rooms, topics and members, *)
(* and pushes events into the channel the event loop reads.                *)
(*                                                                         *)
(* A behaviour is one life of the process.  It starts with empty indexes   *)
(* among whatever rooms earlier lives left on the homeserver.              *)
(***************************************************************************)
EXTENDS Naturals, Sequences, FiniteSets

CONSTANTS
    Users,       \* Matrix users, the bot aside
    Bot,         \* the bot
    Rooms,       \* room ids the homeserver may hand out
    NoUser,      \* no entry in dmRoomUser
    NoRoom,      \* ""
    Handlers,    \* goroutines of onDMMessage
    EventCap,    \* the channel as.Events, 64 in the code
    MaxFailures  \* bound on failed requests

ASSUME NullAssumption ==
    Bot \notin Users /\ NoUser \notin Users /\ NoRoom \notin Rooms
ASSUME BoundAssumption == EventCap \in Nat /\ MaxFailures \in Nat

VARIABLES
    topic,       \* homeserver: unmade, plain, or "Pi session: ..."
    members,     \* homeserver: the joined members of each room
    events,      \* as.Events
    joining,     \* rooms joinRoom is about to join
    dmRoomUser,  \* c.dmRoomUser
    dmUserRooms, \* c.dmUserRooms
    seed,        \* seedExistingDMRooms
    h,           \* the goroutines of onDMMessage
    failures,    \* failed requests so far
    steady,      \* history: DMs since the start whose members did not change
    missed,      \* history: rooms the seeding could not list
    misread,     \* history: rooms whose topic the seeding could not read
    raced        \* history: users whose CreateDMRoom another tracking overtook

serverVars == <<topic, members>>
indexVars == <<dmRoomUser, dmUserRooms, raced>>
seedVars == <<seed, missed, misread>>
vars == <<serverVars, events, joining, indexVars, seedVars, h, failures, steady>>

-----------------------------------------------------------------------------
(* Vocabulary *)

Idle == [pc |-> "idle", user |-> NoUser, room |-> NoRoom]
AtRest == [pc |-> "done", todo |-> {}, room |-> NoRoom, other |-> NoUser]

Calls == [pc : {"idle", "check", "create", "track", "answer"},
          user : Users \cup {NoUser}, room : Rooms \cup {NoRoom}]
Seedings == [pc : {"list", "members", "topic", "track", "done"},
             todo : SUBSET Rooms, room : Rooms \cup {NoRoom},
             other : Users \cup {NoUser}]
Event == [type : {"invite", "message"}, room : Rooms, user : Users]

Known == {r \in Rooms : dmRoomUser[r] # NoUser}
Listed(u) == {dmUserRooms[u][i] : i \in DOMAIN dmUserRooms[u]}
Joined == {r \in Rooms : Bot \in members[r]}

\* "The other-member count is exactly 1."
OneToOne(r) == Cardinality(members[r]) = 2

\* A request fails.
Fails == failures < MaxFailures /\ failures' = failures + 1

Goto(p, step) == h' = [h EXCEPT ![p].pc = step]
Finish(p) == h' = [h EXCEPT ![p] = Idle]

\* CreateDMRoom for u is between its check and its tracking.
Creating(u) == \E p \in Handlers : h[p].user = u /\ h[p].pc \in {"create", "track"}

TypeOK ==
    /\ topic \in [Rooms -> {"unmade", "plain", "session"}]
    /\ members \in [Rooms -> SUBSET (Users \cup {Bot})]
    /\ events \in Seq(Event)
    /\ joining \in SUBSET Rooms
    /\ dmRoomUser \in [Rooms -> Users \cup {NoUser}]
    /\ dmUserRooms \in [Users -> Seq(Rooms)]
    /\ seed \in Seedings
    /\ h \in [Handlers -> Calls]
    /\ failures \in 0..MaxFailures
    /\ steady \in SUBSET Rooms /\ missed \in SUBSET Rooms
    /\ misread \in SUBSET Rooms /\ raced \in SUBSET Users

Init ==
    /\ topic \in [Rooms -> {"unmade", "plain", "session"}]
    /\ members \in [Rooms -> SUBSET (Users \cup {Bot})]
    /\ \A r \in Rooms : /\ topic[r] = "unmade" => members[r] = {}
                        /\ topic[r] = "session" => Bot \in members[r]
    /\ steady = {r \in Joined : OneToOne(r) /\ topic[r] = "plain"}
    /\ events = <<>>
    /\ joining = {}
    /\ dmRoomUser = [r \in Rooms |-> NoUser]
    /\ dmUserRooms = [u \in Users |-> <<>>]
    /\ seed = [AtRest EXCEPT !.pc = "list"]
    /\ h = [p \in Handlers |-> Idle]
    /\ failures = 0
    /\ missed = {} /\ misread = {} /\ raced = {}

-----------------------------------------------------------------------------
(* The homeserver and its users (external) *)

Push(type, r, u) ==
    /\ Len(events) < EventCap
    /\ events' = Append(events, [type |-> type, room |-> r, user |-> u])

MakeRoom(r, kind, who) ==
    /\ topic[r] = "unmade"
    /\ topic' = [topic EXCEPT ![r] = kind]
    /\ members' = [members EXCEPT ![r] = who]

\* A user makes a room.
UserMakesRoom(u, r) ==
    /\ MakeRoom(r, "plain", {u})
    /\ UNCHANGED <<events, joining, indexVars, seedVars, h, failures, steady>>

\* A member invites the bot, unless an invitation is out; the invite is an event.
InviteBot(u, r) ==
    /\ u \in members[r] /\ Bot \notin members[r]
    /\ r \notin joining
    /\ \A i \in DOMAIN events : events[i].room # r
    /\ Push("invite", r, u)
    /\ UNCHANGED <<serverVars, joining, indexVars, seedVars, h, failures, steady>>

\* A user accepts an invitation to a room, or leaves it.
UserComesOrGoes(u, r) ==
    /\ topic[r] # "unmade"
    /\ \/ u \notin members[r] /\ members' = [members EXCEPT ![r] = @ \cup {u}]
       \/ u \in members[r] /\ members' = [members EXCEPT ![r] = @ \ {u}]
    /\ steady' = steady \ {r}
    /\ UNCHANGED <<topic, events, joining, indexVars, seedVars, h, failures>>

\* A user writes in a room the bot is in.
UserSays(u, r) ==
    /\ {u, Bot} \subseteq members[r]
    /\ Push("message", r, u)
    /\ UNCHANGED <<serverVars, joining, indexVars, seedVars, h, failures, steady>>

-----------------------------------------------------------------------------
(* The indexes, under c.mu *)

Prepended_Overwrites(u, r) == <<r>>
Prepended(u, r) == <<r>> \o dmUserRooms[u]

\* Room r is tracked as a DM of user u and goes to the front of u's list.
TrackFirst(u, r) ==
    /\ dmRoomUser' = [dmRoomUser EXCEPT ![r] = u]
    /\ dmUserRooms' = [dmUserRooms EXCEPT ![u] = Prepended(u, r)]
    /\ raced' = IF Creating(u) THEN raced \cup {u} ELSE raced

-----------------------------------------------------------------------------
(* eventLoop *)

\* The bot is invited: the room is tracked, whoever else is in it, and joined
\* in the background.
HandleInvite ==
    /\ events # <<>> /\ Head(events).type = "invite"
    /\ events' = Tail(events)
    /\ TrackFirst(Head(events).user, Head(events).room)
    /\ joining' = joining \cup {Head(events).room}
    /\ UNCHANGED <<serverVars, seedVars, h, failures, steady>>

\* joinRoom.
JoinRoom(r) ==
    /\ r \in joining
    /\ joining' = joining \ {r}
    /\ \/ /\ members' = [members EXCEPT ![r] = @ \cup {Bot}]
          /\ steady' = steady \ {r}
          /\ UNCHANGED failures
       \/ Fails /\ UNCHANGED <<members, steady>>
    /\ UNCHANGED <<topic, events, indexVars, seedVars, h>>

\* A message: in a DM it goes to onDMMessage, in a goroutine of its own;
\* elsewhere to onRoomMessage, which leaves this component's state alone.
HandleMessage ==
    /\ events # <<>> /\ Head(events).type = "message"
    /\ events' = Tail(events)
    /\ IF Head(events).room \in Known
         THEN \E p \in Handlers :
                /\ h[p] = Idle
                /\ h' = [h EXCEPT ![p] = [Idle EXCEPT !.pc = "check",
                                            !.user = Head(events).user]]
         ELSE UNCHANGED h
    /\ UNCHANGED <<serverVars, joining, indexVars, seedVars, failures, steady>>

-----------------------------------------------------------------------------
(* onDMMessage: CreateDMRoom, then the command *)

\* Under the read lock: the first room of the user's list, if there is one.
CheckDMRoom(p) ==
    /\ h[p].pc = "check"
    /\ IF dmUserRooms[h[p].user] = <<>>
         THEN Goto(p, "create")
         ELSE h' = [h EXCEPT ![p] = [@ EXCEPT !.pc = "answer",
                                       !.room = Head(dmUserRooms[h[p].user])]]
    /\ UNCHANGED <<serverVars, events, joining, indexVars, seedVars, failures, steady>>

\* The homeserver makes a room the user is invited to; when the reply is lost
\* the room stays, unknown to the client.
CreateDMRoom(p) ==
    /\ h[p].pc = "create"
    /\ \/ \E r \in Rooms :
            /\ MakeRoom(r, "plain", {Bot})
            /\ h' = [h EXCEPT ![p] = [@ EXCEPT !.pc = "track", !.room = r]]
            /\ UNCHANGED failures
       \/ /\ Fails
          /\ \/ \E r \in Rooms : MakeRoom(r, "plain", {Bot})
             \/ UNCHANGED serverVars
          /\ Finish(p)
    /\ UNCHANGED <<events, joining, indexVars, seedVars, steady>>

\* "Track the DM room in both indexes": the list becomes this one room.
TrackDMRoom(p) ==
    /\ h[p].pc = "track"
    /\ dmRoomUser' = [dmRoomUser EXCEPT ![h[p].room] = h[p].user]
    /\ dmUserRooms' = [dmUserRooms EXCEPT ![h[p].user] = <<h[p].room>>]
    /\ raced' = IF \E q \in Handlers \ {p} :
                     h[q].user = h[p].user /\ h[q].pc \in {"create", "track"}
                  THEN raced \cup {h[p].user} ELSE raced
    /\ Goto(p, "answer")
    /\ UNCHANGED <<serverVars, events, joining, seedVars, failures, steady>>

\* The topic of a room made by CreateSessionRoom begins "Pi session:".
SessionTopic == "session"

\* The command is answered; /start makes a session room and invites the user.
Answer(p) ==
    /\ h[p].pc = "answer"
    /\ \/ \E r \in Rooms : MakeRoom(r, SessionTopic, {Bot}) /\ UNCHANGED failures
       \/ UNCHANGED <<serverVars, failures>>
    /\ Finish(p)
    /\ UNCHANGED <<events, joining, indexVars, seedVars, steady>>

-----------------------------------------------------------------------------
(* seedExistingDMRooms *)

\* JoinedRooms.
SeedList ==
    /\ seed.pc = "list"
    /\ \/ /\ seed' = [seed EXCEPT !.pc = "members", !.todo = Joined]
          /\ UNCHANGED <<missed, failures>>
       \/ Fails /\ seed' = AtRest /\ missed' = Joined
    /\ UNCHANGED <<serverVars, events, joining, indexVars, misread, h, steady>>

Skips_Others(r) == Cardinality(members[r]) # 1

\* JoinedMembers: only a room with exactly two members is looked at further.
Skips(r) == ~OneToOne(r)

SeedMembers(r) ==
    /\ seed.pc = "members"
    /\ r \in seed.todo
    /\ \/ /\ Skips(r)
          /\ seed' = [seed EXCEPT !.todo = @ \ {r}]
          /\ UNCHANGED <<missed, failures>>
       \/ /\ ~Skips(r)
          /\ \E u \in members[r] \ {Bot} :
               seed' = [pc |-> "topic", todo |-> seed.todo \ {r}, room |-> r,
                        other |-> u]
          /\ UNCHANGED <<missed, failures>>
       \/ /\ Fails
          /\ seed' = [seed EXCEPT !.todo = @ \ {r}]
          /\ missed' = missed \cup {r}
    /\ UNCHANGED <<serverVars, events, joining, indexVars, misread, h, steady>>

IsSessionRoom_ByName(r) == FALSE
IsSessionRoom(r) == topic[r] = "session"

\* StateEvent: a session room is left out.  When the topic cannot be read the
\* room is taken for a DM ("falling through to seed as DM").
SeedTopic ==
    /\ seed.pc = "topic"
    /\ \/ /\ seed' = [seed EXCEPT !.pc =
                        IF IsSessionRoom(seed.room) THEN "members" ELSE "track"]
          /\ UNCHANGED <<misread, failures>>
       \/ /\ Fails
          /\ seed' = [seed EXCEPT !.pc = "track"]
          /\ misread' = misread \cup {seed.room}
    /\ UNCHANGED <<serverVars, events, joining, indexVars, missed, h, steady>>

SeedTrack ==
    /\ seed.pc = "track"
    /\ TrackFirst(seed.other, seed.room)
    /\ seed' = [seed EXCEPT !.pc = "members"]
    /\ UNCHANGED <<serverVars, events, joining, missed, misread, h, failures, steady>>

SeedEnds ==
    /\ seed.pc = "members" /\ seed.todo = {}
    /\ seed' = AtRest
    /\ UNCHANGED <<serverVars, events, joining, indexVars, missed, misread, h,
                   failures, steady>>

-----------------------------------------------------------------------------
(* The specification *)

Homeserver ==
    \E u \in Users, r \in Rooms :
        \/ UserMakesRoom(u, r) \/ InviteBot(u, r)
        \/ UserComesOrGoes(u, r) \/ UserSays(u, r)

DMHandler(p) ==
    CheckDMRoom(p) \/ CreateDMRoom(p) \/ TrackDMRoom(p) \/ Answer(p)

SeedStep ==
    \/ SeedList \/ SeedTopic \/ SeedTrack \/ SeedEnds
    \/ \E r \in Rooms : SeedMembers(r)

Client ==
    \/ HandleInvite \/ HandleMessage \/ SeedStep
    \/ \E r \in Rooms : JoinRoom(r)
    \/ \E p \in Handlers : DMHandler(p)

Next == Homeserver \/ Client

Spec == Init /\ [][Next]_vars

-----------------------------------------------------------------------------
(* Properties *)

\* "Plain messages reach the existing session": a session room is never taken
\* for a DM, whatever invitations, seeding and commands do, unless the seeding
\* could not read its topic.
SessionRoomsStayRooms ==
    \A r \in Known : topic[r] = "session" => r \in misread

\* "A freshly restarted appservice recognizes DMs users opened in prior
\* sessions": when the seeding is over it knows every 1:1 room that was one at
\* the start and has been since, those it could not list excepted.
SeedFindsDMs == seed.pc = "done" => steady \subseteq Known \cup missed

\* "Storing a single room per user overwrote earlier DMs": a DM stays in the
\* list of its user, unless a CreateDMRoom for that user was overtaken by
\* another tracking; and every room a command from a DM is answered in is a DM.
DMsStayListed ==
    /\ \A r \in Known : dmRoomUser[r] \in raced \/ r \in Listed(dmRoomUser[r])
    /\ \A u \in Users : Listed(u) \subseteq Known
    /\ \A p \in Handlers : h[p].pc = "answer" => h[p].room \in Known
=============================================================================
