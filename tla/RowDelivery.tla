----------------------------- MODULE RowDelivery -----------------------------
(***************************************************************************)
(* What the event consumer promises its callback, with no connection,      *)
(* replay, cursor or goroutine in sight: a subscription fixes the row it   *)
(* starts after, and from then on the session's visible rows are delivered *)
(* to it one at a time, always the earliest one it has not had yet.        *)
(***************************************************************************)
EXTENDS Naturals, Sequences

CONSTANTS
    Sessions,       \* sessions with a log of rows
    Subscribers,    \* subscriptions, each made at most once
    RowKinds,       \* kinds of rows
    SilentKinds,    \* the kinds that produce no event
    NoSession       \* the session of a subscription that was not made yet

VARIABLES
    log,            \* the rows of each session
    sub,            \* the session and the row a subscription starts after
    delivered       \* the rows delivered to each subscription

vars == <<log, sub, delivered>>

Init ==
    /\ log = [s \in Sessions |-> <<>>]
    /\ sub = [o \in Subscribers |-> [session |-> NoSession, from |-> 0]]
    /\ delivered = [o \in Subscribers |-> {}]

\* Visible rows of o's session that o has not had yet.
Owed(o) ==
    {n \in (sub[o].from + 1)..Len(log[sub[o].session]) :
        /\ log[sub[o].session][n] \notin SilentKinds
        /\ n \notin delivered[o]}

Write(s, kind) ==
    /\ log' = [log EXCEPT ![s] = Append(@, kind)]
    /\ UNCHANGED <<sub, delivered>>

Subscribe(o, s, from) ==
    /\ sub[o].session = NoSession
    /\ sub' = [sub EXCEPT ![o] = [session |-> s, from |-> from]]
    /\ UNCHANGED <<log, delivered>>

Deliver(o, n) ==
    /\ n \in Owed(o)
    /\ \A m \in Owed(o) : n <= m
    /\ delivered' = [delivered EXCEPT ![o] = @ \cup {n}]
    /\ UNCHANGED <<log, sub>>

Next ==
    \/ \E s \in Sessions, kind \in RowKinds : Write(s, kind)
    \/ \E o \in Subscribers, s \in Sessions :
         \E from \in 0..Len(log[s]) : Subscribe(o, s, from)
    \/ \E o \in {p \in Subscribers : sub[p].session # NoSession} :
         \E n \in Owed(o) : Deliver(o, n)

Spec == Init /\ [][Next]_vars
=============================================================================
