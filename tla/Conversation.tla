----------------------------- MODULE Conversation -----------------------------
(***************************************************************************)
(* What the bridge promises those who write to it, with no sessions,       *)
(* commands, bindings, cursors or restarts in sight: a message said in a   *)
(* room is taken by an agent or fails for good, a taken one may be         *)
(* answered, and an answer is shown in the room the message was said in.   *)
(* A message that failed is never answered, an answer never moves.         *)
(***************************************************************************)
CONSTANTS
    Messages,  \* the messages users write, each at most once
    Rooms,     \* the rooms they write them in
    NoRoom     \* the room of a message not said, or of an answer not shown

VARIABLES
    status,    \* of a message: unsaid, said, taken, answered, failed
    said,      \* the room it was said in
    shown      \* the room its answer appears in

vars == <<status, said, shown>>

Init ==
    /\ status = [x \in Messages |-> "unsaid"]
    /\ said = [x \in Messages |-> NoRoom]
    /\ shown = [x \in Messages |-> NoRoom]

\* A message is said; where no agent listens it fails at once.
Say(x, r) ==
    /\ status[x] = "unsaid"
    /\ \E outcome \in {"said", "failed"} :
         status' = [status EXCEPT ![x] = outcome]
    /\ said' = [said EXCEPT ![x] = r]
    /\ UNCHANGED shown

Moves(x, from, to) ==
    /\ status[x] = from
    /\ status' = [status EXCEPT ![x] = to]
    /\ UNCHANGED <<said, shown>>

Take(x) == Moves(x, "said", "taken")
Fail(x) == Moves(x, "said", "failed")
Answer(x) == Moves(x, "taken", "answered")

\* All that nobody has taken yet is lost at once.
LoseAll ==
    /\ status' = [x \in Messages |-> IF status[x] = "said" THEN "failed" ELSE status[x]]
    /\ UNCHANGED <<said, shown>>

\* An answer that is there may be shown.
Show(x) ==
    /\ status[x] = "answered"
    /\ shown' = [shown EXCEPT ![x] = said[x]]
    /\ UNCHANGED <<status, said>>

Next ==
    \/ LoseAll
    \/ \E x \in Messages : Take(x) \/ Fail(x) \/ Answer(x) \/ Show(x)
    \/ \E x \in Messages, r \in Rooms : Say(x, r)

Spec == Init /\ [][Next]_vars
===============================================================================
