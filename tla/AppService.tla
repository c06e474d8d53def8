----------------------------- MODULE AppService -----------------------------
(***************************************************************************)
(* pkg/appservice/appservice.go: the commands that bind forge sessions to  *)
(* Matrix rooms (/start from a DM or in a room, /new, /stop), and the      *)
(* restart that rebuilds the binding from the store.                       *)
(*                                                                         *)
(* The Matrix client runs every command in a goroutine of its own, so the  *)
(* commands interleave at every call they make: each request to forge or   *)
(* the homeserver, each critical section of as.mu, each statement on the   *)
(* store and each call of the consumer is one action.  The process may die *)
(* between any two of them; forge and the store survive it.                *)
(*                                                                         *)
(* A request may fail before it had an effect or after it (the reply is    *)
(* lost).  Requests without an effect to lose may fail at any time; the    *)
(* failures that leave something behind are counted, up to MaxFailures.    *)
(***************************************************************************)
EXTENDS Naturals, FiniteSets

CONSTANTS
    Sessions,    \* session ids forge may hand out
    Rooms,       \* Matrix rooms, those of OldRooms included
    OldRooms,    \* rooms the bot shares with a user from the beginning
    Handlers,    \* command goroutines
    NoSession,   \* ""
    NoRoom,      \* ""
    Faults,      \* the counted failures that may happen, a subset of AllFaults
    MaxFailures, \* bound on the counted failures
    MaxCrashes   \* bound on the deaths of the process

AllFaults == {"reply lost", "delete refused", "store"}

ASSUME NullAssumption ==
    NoSession \notin Sessions /\ NoRoom \notin Rooms
ASSUME RoomAssumption == OldRooms \subseteq Rooms
ASSUME BoundAssumption ==
    Faults \subseteq AllFaults /\ MaxFailures \in Nat /\ MaxCrashes \in Nat

VARIABLES
    forge,        \* forge: what became of each session id
    opened,       \* homeserver: the rooms that exist
    sessionRooms, \* as.sessionRooms
    portals,      \* the portal table of the store
    tracked,      \* the sessions with an entry in the consumer
    retrack,      \* restored sessions StartEvents has still to Track
    running,      \* the process: down, boot, up
    h,            \* the command goroutines
    failures,     \* counted failures so far
    crashes,      \* deaths of the process so far
    disturbed     \* history: the rooms a race or a store error has touched

bindVars == <<sessionRooms, portals, tracked>>
procVars == <<retrack, running, crashes>>
vars == <<forge, opened, bindVars, procVars, h, failures, disturbed>>

-----------------------------------------------------------------------------
(* Vocabulary *)

Idle == [pc |-> "idle", cmd |-> "none", room |-> NoRoom, new |-> NoSession,
         old |-> NoSession, todo |-> {}]

Steps == {"idle", "profile", "get", "create", "room", "undo", "insert", "save",
          "track", "retire", "drop", "erase", "forget"}

Commands == [pc : Steps, cmd : {"none", "start", "new", "stop"},
             room : Rooms \cup {NoRoom},
             new : Sessions \cup {NoSession}, old : Sessions \cup {NoSession},
             todo : SUBSET Sessions]

At(p, step) == h[p].pc = step
Goto(p, step) == h' = [h EXCEPT ![p].pc = step]
Finish(p) == h' = [h EXCEPT ![p] = Idle]

Mapped == {s \in Sessions : sessionRooms[s] # NoRoom}
BoundTo(r) == {s \in Sessions : sessionRooms[s] = r}

\* Commands that are about to save the portal of the session they have bound.
Saving(s) == \E p \in Handlers : h[p].new = s /\ At(p, "save")

\* Commands that are about to erase the portal of the session they have dropped.
Erasing(s) == \E p \in Handlers : h[p].old = s /\ At(p, "erase")

\* Rooms a command is binding a session to, and rooms a restart would bind to a
\* session that has been dropped.
Taken == {r \in Rooms : \E p \in Handlers : h[p].room = r}
Leftover == {r \in Rooms : \E s \in Sessions : portals[s] = r /\ Erasing(s)}

\* The history variable "disturbed" names the rooms where a race or the store
\* may have parted the map and the portals.  Nothing reads it.  A room gets into
\* it when /start or /new begins in it while another command binds a session to
\* it, when /start begins in it before /stop has erased its portal, when /stop
\* takes up a session whose portal has yet to be saved, and when the store fails
\* to write, delete or read its portal.
Disturb(rooms) == disturbed' = disturbed \cup (rooms \cap Rooms)

\* A counted failure of the given kind happens, or did not happen.
Fail(kind) ==
    /\ kind \in Faults
    /\ failures < MaxFailures
    /\ failures' = failures + 1

TypeOK ==
    /\ forge \in [Sessions -> {"unborn", "live", "gone"}]
    /\ opened \in SUBSET Rooms
    /\ sessionRooms \in [Sessions -> Rooms \cup {NoRoom}]
    /\ portals \in [Sessions -> Rooms \cup {NoRoom}]
    /\ tracked \in SUBSET Sessions
    /\ retrack \in SUBSET Sessions
    /\ running \in {"down", "boot", "up"}
    /\ h \in [Handlers -> Commands]
    /\ failures \in 0..MaxFailures
    /\ crashes \in 0..MaxCrashes
    /\ disturbed \in SUBSET Rooms

Init ==
    /\ forge = [s \in Sessions |-> "unborn"]
    /\ opened = OldRooms
    /\ sessionRooms = [s \in Sessions |-> NoRoom]
    /\ portals = [s \in Sessions |-> NoRoom]
    /\ tracked = {}
    /\ retrack = {}
    /\ running = "down"
    /\ h = [p \in Handlers |-> Idle]
    /\ failures = 0
    /\ crashes = 0
    /\ disturbed = {}

-----------------------------------------------------------------------------
(* The process *)

\* The binding restoreSessionRooms finds in the store.
Restored_Nothing == [s \in Sessions |-> NoRoom]
Restored == portals

\* NewAppService restores the binding, StartEvents lists what it has to Track.
\* Commands arrive only when the HTTP server runs, after both.
Boot ==
    /\ running = "down"
    /\ running' = "boot"
    /\ \/ /\ sessionRooms' = Restored
          /\ UNCHANGED <<failures, disturbed>>
       \/ /\ Fail("store")
          /\ UNCHANGED sessionRooms
          /\ Disturb({portals[s] : s \in Sessions})
    /\ retrack' = {s \in Sessions : sessionRooms'[s] # NoRoom}
    /\ UNCHANGED <<forge, opened, portals, tracked, crashes, h>>

Retrack_Skips(s) ==
    /\ running = "boot"
    /\ s \in retrack
    /\ retrack' = {}
    /\ tracked' = tracked \cup {s}
    /\ UNCHANGED <<forge, opened, sessionRooms, portals, running, crashes, h,
                   failures, disturbed>>

\* StartEvents, one session of its loop.
Retrack(s) ==
    /\ running = "boot"
    /\ s \in retrack
    /\ retrack' = retrack \ {s}
    /\ tracked' = tracked \cup {s}
    /\ UNCHANGED <<forge, opened, sessionRooms, portals, running, crashes, h,
                   failures, disturbed>>

Serve ==
    /\ running = "boot"
    /\ retrack = {}
    /\ running' = "up"
    /\ UNCHANGED <<forge, opened, bindVars, retrack, crashes, h, failures, disturbed>>

\* The process ends, by a signal or a crash, whatever its goroutines are doing.
Crash ==
    /\ running # "down"
    /\ crashes < MaxCrashes
    /\ crashes' = crashes + 1
    /\ running' = "down"
    /\ sessionRooms' = [s \in Sessions |-> NoRoom]
    /\ tracked' = {}
    /\ retrack' = {}
    /\ h' = [p \in Handlers |-> Idle]
    /\ UNCHANGED <<forge, opened, portals, failures, disturbed>>

-----------------------------------------------------------------------------
(* The commands begin: what each looks up under as.mu before anything else *)

Begins(p) == running = "up" /\ At(p, "idle")

\* /start, /new or plain text in a DM.
StartInDM(p) ==
    /\ Begins(p)
    /\ h' = [h EXCEPT ![p] = [Idle EXCEPT !.pc = "profile", !.cmd = "start"]]
    /\ UNCHANGED <<forge, opened, bindVars, procVars, failures, disturbed>>

\* /start in a room that has no session.  (In one that has, it says so and
\* changes nothing.)
StartInRoom(p, r) ==
    /\ Begins(p)
    /\ r \in opened
    /\ BoundTo(r) = {}
    /\ h' = [h EXCEPT ![p] = [Idle EXCEPT !.pc = "profile", !.cmd = "start",
                                          !.room = r]]
    /\ Disturb({r} \cap (Taken \cup Leftover))
    /\ UNCHANGED <<forge, opened, bindVars, procVars, failures>>

\* /new in a room that has a session.  (In one that has none, it says so.)
NewInRoom(p, r) ==
    /\ Begins(p)
    /\ \E s \in BoundTo(r) :
         h' = [h EXCEPT ![p] = [Idle EXCEPT !.pc = "get", !.cmd = "new",
                                            !.room = r, !.old = s]]
    /\ Disturb({r} \cap Taken)
    /\ UNCHANGED <<forge, opened, bindVars, procVars, failures>>

NextToStop_Once(p, todo) == Finish(p)

\* The loop of /stop goes on with some session of its snapshot, or is over.
NextToStop(p, todo) ==
    \/ /\ todo = {}
       /\ Finish(p)
    \/ \E s \in todo :
         h' = [h EXCEPT ![p] = [@ EXCEPT !.pc = "retire", !.old = s,
                                         !.todo = todo \ {s}]]

\* /stop in a DM: a snapshot of every session that has a room.
StopInDM(p) ==
    /\ Begins(p)
    /\ \E s \in Mapped :
         h' = [h EXCEPT ![p] = [Idle EXCEPT !.pc = "retire", !.cmd = "stop",
                 !.old = s, !.todo = Mapped \ {s}]]
    /\ Disturb({sessionRooms[s] : s \in {t \in Mapped : Saving(t)}})
    /\ UNCHANGED <<forge, opened, bindVars, procVars, failures>>

-----------------------------------------------------------------------------
(* Making a session *)

\* ensureProfile, taken as a whole: it has a profile id, or an error.
EnsureProfile(p) ==
    /\ At(p, "profile")
    /\ Goto(p, "create") \/ Finish(p)
    /\ UNCHANGED <<forge, opened, bindVars, procVars, failures, disturbed>>

GetSession_DeleteFirst(p) ==
    /\ At(p, "get")
    /\ \/ forge[h[p].old] = "live" /\ Goto(p, "retire")
       \/ Finish(p)
    /\ UNCHANGED <<forge, opened, bindVars, procVars, failures, disturbed>>

\* /new fetches the old session's profile.  A session that is gone cannot be
\* read, and any request may fail: the command ends and the binding stays.
GetSession(p) ==
    /\ At(p, "get")
    /\ \/ forge[h[p].old] = "live" /\ Goto(p, "create")
       \/ Finish(p)
    /\ UNCHANGED <<forge, opened, bindVars, procVars, failures, disturbed>>

\* Where a command goes on once its session exists.
AfterCreate(p) ==
    IF h[p].cmd = "new" THEN "retire"
    ELSE IF h[p].room = NoRoom THEN "room"
    ELSE "insert"

\* forge makes a session.
Make(p, s) ==
    /\ forge[s] = "unborn"
    /\ forge' = [forge EXCEPT ![s] = "live"]

CreateSession(p) ==
    /\ At(p, "create")
    /\ \/ \E s \in Sessions :
            /\ Make(p, s)
            /\ h' = [h EXCEPT ![p] = [@ EXCEPT !.pc = AfterCreate(p), !.new = s]]
            /\ UNCHANGED failures
       \/ /\ Finish(p)
          /\ UNCHANGED <<forge, failures>>
       \/ /\ Fail("reply lost")
          /\ \E s \in Sessions : Make(p, s)
          /\ Finish(p)
    /\ UNCHANGED <<opened, bindVars, procVars, disturbed>>

CreateSessionRoom_NoUndo(p) ==
    /\ At(p, "room")
    /\ \/ \E r \in Rooms \ opened :
            /\ opened' = opened \cup {r}
            /\ h' = [h EXCEPT ![p] = [@ EXCEPT !.pc = "insert", !.room = r]]
       \/ /\ Finish(p)
          /\ UNCHANGED opened
    /\ UNCHANGED <<forge, bindVars, procVars, failures, disturbed>>

\* /start from a DM opens a room of its own for the session.
CreateSessionRoom(p) ==
    /\ At(p, "room")
    /\ \/ \E r \in Rooms \ opened :
            /\ opened' = opened \cup {r}
            /\ h' = [h EXCEPT ![p] = [@ EXCEPT !.pc = "insert", !.room = r]]
       \/ /\ Goto(p, "undo")
          /\ UNCHANGED opened
    /\ UNCHANGED <<forge, bindVars, procVars, failures, disturbed>>

\* What DELETE does to session s: it is gone and the caller knows, or it is
\* gone and the reply is lost, or the request is refused.  Deleting what is
\* gone already may be answered either way.
DeleteSession(s, known) ==
    \/ /\ known
       /\ forge' = [forge EXCEPT ![s] = "gone"]
       /\ UNCHANGED failures
    \/ /\ ~known
       /\ \/ /\ forge[s] = "live"
             /\ Fail("delete refused")
             /\ UNCHANGED forge
          \/ /\ forge[s] = "live"
             /\ Fail("reply lost")
             /\ forge' = [forge EXCEPT ![s] = "gone"]
          \/ /\ forge[s] = "gone"
             /\ UNCHANGED <<forge, failures>>

\* The room could not be made: the session is dropped, if forge plays along.
Undo(p) ==
    /\ At(p, "undo")
    /\ \E known \in BOOLEAN : DeleteSession(h[p].new, known)
    /\ Finish(p)
    /\ UNCHANGED <<opened, bindVars, procVars, disturbed>>

-----------------------------------------------------------------------------
(* Binding it: map, portal, consumer *)

InsertBinding(p) ==
    /\ At(p, "insert")
    /\ sessionRooms' = [sessionRooms EXCEPT ![h[p].new] = h[p].room]
    /\ Goto(p, "save")
    /\ UNCHANGED <<forge, opened, portals, tracked, procVars, failures, disturbed>>

SavePortal_StartOnly(p) ==
    /\ At(p, "save")
    /\ portals' = IF h[p].cmd = "new" THEN portals
                  ELSE [portals EXCEPT ![h[p].new] = h[p].room]
    /\ Goto(p, "track")
    /\ UNCHANGED <<forge, opened, sessionRooms, tracked, procVars, failures, disturbed>>

\* saveSessionRoom; a store error is logged and the command goes on.
SavePortal(p) ==
    /\ At(p, "save")
    /\ \/ /\ portals' = [portals EXCEPT ![h[p].new] = h[p].room]
          /\ UNCHANGED <<failures, disturbed>>
       \/ /\ Fail("store")
          /\ UNCHANGED portals
          /\ Disturb({h[p].room})
    /\ Goto(p, "track")
    /\ UNCHANGED <<forge, opened, sessionRooms, tracked, procVars>>

Track(p) ==
    /\ At(p, "track")
    /\ tracked' = tracked \cup {h[p].new}
    /\ Finish(p)
    /\ UNCHANGED <<forge, opened, sessionRooms, portals, procVars, failures, disturbed>>

-----------------------------------------------------------------------------
(* Unbinding the old one *)

RetireSession_Aborts(p) ==
    /\ At(p, "retire")
    /\ \E known \in BOOLEAN :
         /\ DeleteSession(h[p].old, known)
         /\ IF known
              THEN Goto(p, "drop")
              ELSE NextToStop(p, h[p].todo)
    /\ UNCHANGED <<opened, bindVars, procVars, disturbed>>

\* /new goes on whatever DELETE says; /stop leaves alone what it could not
\* delete.
RetireSession(p) ==
    /\ At(p, "retire")
    /\ \E known \in BOOLEAN :
         /\ DeleteSession(h[p].old, known)
         /\ IF known \/ h[p].cmd = "new"
              THEN Goto(p, "drop")
              ELSE NextToStop(p, h[p].todo)
    /\ UNCHANGED <<opened, bindVars, procVars, disturbed>>

DropBinding_IfGone(p) ==
    /\ At(p, "drop")
    /\ sessionRooms' = IF forge[h[p].old] = "gone"
                       THEN [sessionRooms EXCEPT ![h[p].old] = NoRoom]
                       ELSE sessionRooms
    /\ Goto(p, "erase")
    /\ UNCHANGED <<forge, opened, portals, tracked, procVars, failures, disturbed>>

DropBinding(p) ==
    /\ At(p, "drop")
    /\ sessionRooms' = [sessionRooms EXCEPT ![h[p].old] = NoRoom]
    /\ Goto(p, "erase")
    /\ UNCHANGED <<forge, opened, portals, tracked, procVars, failures, disturbed>>

DeletePortal_StopOnly(p) ==
    /\ At(p, "erase")
    /\ portals' = IF h[p].cmd = "stop" THEN [portals EXCEPT ![h[p].old] = NoRoom]
                  ELSE portals
    /\ Goto(p, "forget")
    /\ UNCHANGED <<forge, opened, sessionRooms, tracked, procVars, failures, disturbed>>

\* deleteSessionRoom; a store error is logged and the command goes on.
DeletePortal(p) ==
    /\ At(p, "erase")
    /\ \/ /\ portals' = [portals EXCEPT ![h[p].old] = NoRoom]
          /\ UNCHANGED <<failures, disturbed>>
       \/ /\ Fail("store")
          /\ UNCHANGED portals
          /\ Disturb({portals[h[p].old]})
    /\ Goto(p, "forget")
    /\ UNCHANGED <<forge, opened, sessionRooms, tracked, procVars>>

Forget(p) ==
    /\ At(p, "forget")
    /\ tracked' = tracked \ {h[p].old}
    /\ IF h[p].cmd = "new"
         THEN Goto(p, "insert")
         ELSE NextToStop(p, h[p].todo)
    /\ UNCHANGED <<forge, opened, sessionRooms, portals, procVars, failures, disturbed>>

-----------------------------------------------------------------------------
(* The specification *)

Command(p) ==
    \/ EnsureProfile(p) \/ GetSession(p) \/ CreateSession(p)
    \/ CreateSessionRoom(p) \/ Undo(p)
    \/ InsertBinding(p) \/ SavePortal(p) \/ Track(p)
    \/ RetireSession(p) \/ DropBinding(p) \/ DeletePortal(p) \/ Forget(p)

Request(p) ==
    \/ StartInDM(p) \/ StopInDM(p)
    \/ \E r \in Rooms : NewInRoom(p, r) \/ StartInRoom(p, r)

Process == Boot \/ Serve \/ Crash \/ \E s \in Sessions : Retrack(s)

Next == Process \/ \E p \in Handlers : Request(p) \/ Command(p)

Spec == Init /\ [][Next]_vars

-----------------------------------------------------------------------------
(* Safety *)

\* Commands that are about to Track the session they have just bound.
Tracking(s) == \E p \in Handlers : h[p].new = s /\ h[p].pc \in {"save", "track"}

\* Whatever a room is bound to has its event stream, or the command that bound
\* it is about to open it; across restarts too ("without this loop, the
\* response path is silently broken after any appservice restart").
BoundIsTracked ==
    running = "up" => \A s \in Mapped : s \in tracked \/ Tracking(s)

Making(s) ==
    \E p \in Handlers : /\ h[p].new = s
                        /\ h[p].pc \in {"room", "undo", "retire", "drop", "erase",
                                        "forget", "insert"}
Unmaking(s) == \E p \in Handlers : h[p].old = s /\ At(p, "drop")

\* As long as nothing failed, forge's sessions are those that have a room, give
\* or take the commands at work: however /start, /new and /stop interleave, no
\* session is left running without a room and no room is left with a session
\* that is gone.
LiveIffBound ==
    failures = 0 /\ crashes = 0 =>
        /\ \A s \in Sessions : forge[s] = "live" => s \in Mapped \/ Making(s)
        /\ \A s \in Mapped : forge[s] = "gone" => Unmaking(s)

Served(r) == \E s \in BoundTo(r) : forge[s] = "live"

\* A command that may take its session away from room r: /stop, and /new with
\* the live replacement in hand.
Retires(p, r) ==
    /\ h[p].pc \in {"retire", "drop"}
    /\ h[p].old \in BoundTo(r)
    /\ \/ h[p].cmd = "stop"
       \/ h[p].new \in Sessions /\ forge[h[p].new] = "live"

\* "Create the new session first, then delete the old" (handleNewCommand): /new
\* never takes the live session of a room away before its replacement is up;
\* nothing else does but /stop and the end of the process.
LostOnlyForReplacement ==
    [][\A r \in Rooms : Served(r) /\ ~Served(r)' =>
         \/ running' = "down"
         \/ \E p \in Handlers : Retires(p, r) /\ h'[p] # h[p]]_vars

\* A restart finds the binding of every session that has a room, unless the
\* command that bound it has yet to save it, whatever other commands do
\* meanwhile (saveSessionRoom against deleteSessionRoom of other commands).
BindingIsSaved ==
    failures = 0 =>
        \A s \in Mapped : portals[s] = sessionRooms[s] \/ Saving(s)

\* After a restart room r would be served by a session that runs.
Restorable(r) == \E s \in Sessions : portals[s] = r /\ forge[s] = "live"

\* A command that may take away what a restart would bind room r to: /stop, and
\* /new with the live replacement in hand.
Discards(p, r) ==
    /\ h[p].pc \in {"retire", "erase"}
    /\ h[p].old \in Sessions /\ portals[h[p].old] = r
    /\ \/ h[p].cmd = "stop"
       \/ h[p].new \in Sessions /\ forge[h[p].new] = "live"

\* What a restart would bind a room to is lost only to /stop and to a /new that
\* has the live replacement in hand and has yet to save it; never to a death of
\* the process, an undone /start or a failed request.
KeptUntilReplaced ==
    [][\A r \in Rooms : Restorable(r) /\ ~Restorable(r)' =>
         \E p \in Handlers : Discards(p, r) /\ h'[p] # h[p]]_vars

\* "One session per Matrix room" (SPEC.md).
OneSessionPerRoom ==
    \A s, t \in Mapped : sessionRooms[s] = sessionRooms[t] => s = t

\* The same for every room that none of the races named at "disturbed" and no
\* store error has touched: commands in other rooms, lost replies, refused
\* deletions, a /stop at work and a restart never give it a second session.
OneSessionUndisturbed ==
    \A s, t \in Mapped :
        sessionRooms[s] = sessionRooms[t] => s = t \/ sessionRooms[s] \in disturbed

\* The store would rebuild the map of such a room as it is ("reconstructed from
\* the store on startup"), but for the session a command is about to save and
\* the one it is about to erase.  In particular no portal is left behind that
\* would revive a stopped session.
PortalsAgree ==
    running # "down" =>
        \A r \in Rooms \ disturbed, s \in Sessions :
            \/ sessionRooms[s] = r <=> portals[s] = r
            \/ sessionRooms[s] = r /\ Saving(s)
            \/ portals[s] = r /\ Erasing(s)

-----------------------------------------------------------------------------
(* Liveness, under the fairness MessagePath states *)

\* Once /new has its new session and goes for the old one, the room comes to be
\* served by the new session, also when forge refuses to delete the old one.
ResetRoomServedAgain ==
    \A r \in Rooms, s \in Sessions :
        (\E p \in Handlers : /\ At(p, "retire") /\ h[p].cmd = "new"
                             /\ h[p].room = r /\ h[p].new = s)
            ~> ((s \in BoundTo(r) /\ forge[s] = "live") \/ running = "down")

\* Every session in the snapshot of a /stop is taken down, unless a deletion
\* fails.
StopTakesDown ==
    \A s \in Sessions :
        (\E p \in Handlers : h[p].cmd = "stop" /\ s \in h[p].todo)
            ~> (forge[s] = "gone" \/ failures > 0 \/ running = "down")

=============================================================================
