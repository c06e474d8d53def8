------------------------------ MODULE EventFeed ------------------------------
(***************************************************************************)
(* What /events of the legacy backend promises a client, with no lines,    *)
(* goroutines, locks or channels in sight: an event is owed to the clients *)
(* that are connected when it is published; each of them gets it once,     *)
(* unless it leaves first or is so far behind that as many other events as *)
(* a channel holds are still owed to it.  The order is left open.          *)
(***************************************************************************)
EXTENDS Naturals, FiniteSets

CONSTANTS
    Events,  \* events that may be published, each at most once
    Clients, \* connections
    Cap      \* how far behind a client may be without losing an event

VARIABLES
    published, \* the events published so far
    present,   \* the clients that are connected
    owed,      \* the clients an event has still to reach
    got,       \* the events a client has had
    lost       \* the events a client has missed, being too far behind

vars == <<published, present, owed, got, lost>>

Init ==
    /\ published = {}
    /\ present = {}
    /\ owed = [n \in Events |-> {}]
    /\ got = [c \in Clients |-> {}]
    /\ lost = {}

OwedTo(c) == {n \in Events : c \in owed[n]}

Join(c) ==
    /\ c \notin present
    /\ present' = present \cup {c}
    /\ UNCHANGED <<published, owed, got, lost>>

Leave(c) ==
    /\ c \in present
    /\ present' = present \ {c}
    /\ owed' = [n \in Events |-> owed[n] \ {c}]
    /\ UNCHANGED <<published, got, lost>>

Publish(n) ==
    /\ n \notin published
    /\ published' = published \cup {n}
    /\ owed' = [owed EXCEPT ![n] = present]
    /\ UNCHANGED <<present, got, lost>>

Deliver(n, c) ==
    /\ c \in owed[n]
    /\ owed' = [owed EXCEPT ![n] = @ \ {c}]
    /\ got' = [got EXCEPT ![c] = @ \cup {n}]
    /\ UNCHANGED <<published, present, lost>>

Lose(n, c) ==
    /\ c \in owed[n]
    /\ Cardinality(OwedTo(c) \ {n}) >= Cap
    /\ owed' = [owed EXCEPT ![n] = @ \ {c}]
    /\ lost' = lost \cup {<<n, c>>}
    /\ UNCHANGED <<published, present, got>>

Next ==
    \/ \E c \in Clients : Join(c) \/ Leave(c)
    \/ \E n \in Events : Publish(n)
    \/ \E n \in Events, c \in Clients : Deliver(n, c) \/ Lose(n, c)

Spec == Init /\ [][Next]_vars
=============================================================================
