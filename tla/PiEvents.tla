------------------------------ MODULE PiEvents ------------------------------
(***************************************************************************)
(* The event path of the legacy backend, from a line of pi's output to the *)
(* Server-Sent Events of the HTTP clients: Session.handleLine, which       *)
(* starts a goroutine per event, Manager.handleSessionEvent, which         *)
(* collects the deltas of a text until its text_end, and the broadcaster   *)
(* and handleEvents of http_handler.go.                                    *)
(*                                                                         *)
(* One session, whose lines are numbered in the order pi wrote them.  What *)
(* a line says is chosen when it is read.  Each critical section of m.mu   *)
(* is one action; sseClientsMu is a read-write lock, and several           *)
(* broadcasts hold it for reading while they offer their event to one      *)
(* client after the other, in the order of a Go map, which is any.         *)
(***************************************************************************)
EXTENDS Naturals, Sequences, FiniteSets

CONSTANTS
    MaxLines, \* bound on the lines of output
    Indexes,  \* content indexes of a message
    Clients,  \* connections to /events; each is used once
    Cap       \* capacity of a client's channel, 100 in the code

ASSUME EventsAssumption == MaxLines \in Nat /\ Cap \in Nat \ {0}

VARIABLES
    lines,   \* the lines read so far
    task,    \* the goroutines of their events: new, offering, done
    acc,     \* m.accumulatedText of the session: deltas by content index
    text,    \* the deltas a message is made of
    todo,    \* the clients a broadcast has still to visit
    client,  \* off, on (in sseClients), leaving, closed
    queue,   \* the channel of a client
    written, \* history: the events written to a client
    skipped  \* history: clients that were skipped, their channel being full

lineVars == <<lines, text, acc>>
clientVars == <<client, queue, written, skipped>>
vars == <<lineVars, task, todo, clientVars>>

-----------------------------------------------------------------------------
(* Vocabulary *)

LineNumbers == 1..MaxLines

\* A response to a request is handed to its caller; the other lines are events:
\* text_delta, text_end, and those that are broadcast as they come.
Line == [kind : {"response", "notice"}, index : {0}]
          \cup [kind : {"delta", "end"}, index : Indexes]

Read == DOMAIN lines
Is(n, kind) == lines[n].kind = kind
Events == {n \in Read : ~Is(n, "response")}
Connected == {c \in Clients : client[c] = "on"}
Elements(s) == {s[i] : i \in DOMAIN s}
Offering == {n \in Read : task[n] = "offering"}

TypeOK ==
    /\ lines \in Seq(Line) /\ Len(lines) <= MaxLines
    /\ task \in [LineNumbers -> {"none", "new", "offering", "done"}]
    /\ acc \in [Indexes -> Seq(LineNumbers)]
    /\ text \in [LineNumbers -> Seq(LineNumbers)]
    /\ todo \in [LineNumbers -> SUBSET Clients]
    /\ client \in [Clients -> {"off", "on", "leaving", "closed"}]
    /\ queue \in [Clients -> Seq(LineNumbers)]
    /\ \A c \in Clients : Len(queue[c]) <= Cap
    /\ written \in [Clients -> SUBSET LineNumbers]
    /\ skipped \in SUBSET (LineNumbers \X Clients)

Init ==
    /\ lines = <<>>
    /\ task = [n \in LineNumbers |-> "none"]
    /\ acc = [i \in Indexes |-> <<>>]
    /\ text = [n \in LineNumbers |-> <<>>]
    /\ todo = [n \in LineNumbers |-> {}]
    /\ client = [c \in Clients |-> "off"]
    /\ queue = [c \in Clients |-> <<>>]
    /\ written = [c \in Clients |-> {}]
    /\ skipped = {}

-----------------------------------------------------------------------------
(* handleLine *)

\* The reader takes the next line and, for an event, starts a goroutine.
HandleLine(l) ==
    /\ Len(lines) < MaxLines
    /\ lines' = Append(lines, l)
    /\ task' = [task EXCEPT ![Len(lines) + 1] =
                  IF l.kind = "response" THEN "done" ELSE "new"]
    /\ UNCHANGED <<acc, text, todo, clientVars>>

-----------------------------------------------------------------------------
(* handleSessionEvent *)

Done(n) == task' = [task EXCEPT ![n] = "done"]

\* The read lock of sseClientsMu, and the range over the clients.
Broadcast(n) ==
    /\ task' = [task EXCEPT ![n] = "offering"]
    /\ todo' = [todo EXCEPT ![n] = Connected]

Collect(n) ==
    /\ task[n] = "new" /\ Is(n, "delta")
    /\ acc' = [acc EXCEPT ![lines[n].index] = Append(@, n)]
    /\ Done(n)
    /\ UNCHANGED <<lines, text, todo, clientVars>>

Cut_Keeps(n) ==
    /\ task[n] = "new" /\ Is(n, "end") /\ text[n] = <<>>
    /\ text' = [text EXCEPT ![n] = acc[lines[n].index]]
    /\ IF text'[n] = <<>> THEN Done(n) ELSE UNCHANGED task
    /\ UNCHANGED <<lines, acc, todo, clientVars>>

\* text_end: what has been collected for the index becomes a message.
Cut(n) ==
    /\ task[n] = "new" /\ Is(n, "end") /\ text[n] = <<>>
    /\ text' = [text EXCEPT ![n] = acc[lines[n].index]]
    /\ acc' = [acc EXCEPT ![lines[n].index] = <<>>]
    /\ IF text'[n] = <<>> THEN Done(n) ELSE UNCHANGED task
    /\ UNCHANGED <<lines, todo, clientVars>>

\* The broadcast of a message, or of any other event.
Announce(n) ==
    /\ task[n] = "new"
    /\ Is(n, "notice") \/ text[n] # <<>>
    /\ Broadcast(n)
    /\ UNCHANGED <<lineVars, clientVars>>

-----------------------------------------------------------------------------
(* broadcaster *)

Offer_Blocks(n, c) ==
    /\ task[n] = "offering" /\ c \in todo[n]
    /\ Len(queue[c]) < Cap
    /\ todo' = [todo EXCEPT ![n] = @ \ {c}]
    /\ queue' = [queue EXCEPT ![c] = Append(@, n)]
    /\ UNCHANGED <<lineVars, task, client, written, skipped>>

Offer_OffByOne(n, c) ==
    /\ task[n] = "offering" /\ c \in todo[n]
    /\ todo' = [todo EXCEPT ![n] = @ \ {c}]
    /\ IF Len(queue[c]) + 1 < Cap
         THEN queue' = [queue EXCEPT ![c] = Append(@, n)] /\ UNCHANGED skipped
         ELSE skipped' = skipped \cup {<<n, c>>} /\ UNCHANGED queue
    /\ UNCHANGED <<lineVars, task, client, written>>

\* The event goes into the client's channel unless that is full.
Offer(n, c) ==
    /\ task[n] = "offering" /\ c \in todo[n]
    /\ todo' = [todo EXCEPT ![n] = @ \ {c}]
    /\ IF Len(queue[c]) < Cap
         THEN queue' = [queue EXCEPT ![c] = Append(@, n)] /\ UNCHANGED skipped
         ELSE skipped' = skipped \cup {<<n, c>>} /\ UNCHANGED queue
    /\ UNCHANGED <<lineVars, task, client, written>>

\* The lock is released.
Offered(n) ==
    /\ task[n] = "offering" /\ todo[n] = {}
    /\ Done(n)
    /\ UNCHANGED <<lineVars, todo, clientVars>>

-----------------------------------------------------------------------------
(* handleEvents *)

NoReaders == Offering = {}

Connect(c) ==
    /\ client[c] = "off" /\ NoReaders
    /\ client' = [client EXCEPT ![c] = "on"]
    /\ UNCHANGED <<lineVars, task, todo, queue, written, skipped>>

\* One event is written to the client.
Write(c) ==
    /\ client[c] = "on" /\ queue[c] # <<>>
    /\ queue' = [queue EXCEPT ![c] = Tail(@)]
    /\ written' = [written EXCEPT ![c] = @ \cup {Head(queue[c])}]
    /\ UNCHANGED <<lineVars, task, todo, client, skipped>>

Leave_Unlocked(c) ==
    /\ client[c] = "on"
    /\ client' = [client EXCEPT ![c] = "leaving"]
    /\ UNCHANGED <<lineVars, task, todo, queue, written, skipped>>

\* The request has ended: the client is taken out under the write lock,
Leave(c) ==
    /\ client[c] = "on" /\ NoReaders
    /\ client' = [client EXCEPT ![c] = "leaving"]
    /\ UNCHANGED <<lineVars, task, todo, queue, written, skipped>>

\* and its channel closed after that.
Close(c) ==
    /\ client[c] = "leaving"
    /\ client' = [client EXCEPT ![c] = "closed"]
    /\ queue' = [queue EXCEPT ![c] = <<>>]
    /\ UNCHANGED <<lineVars, task, todo, written, skipped>>

-----------------------------------------------------------------------------
(* The specification *)

Task(n) ==
    \/ Collect(n) \/ Cut(n) \/ Announce(n) \/ Offered(n)
    \/ \E c \in Clients : Offer(n, c)

Next ==
    \/ \E l \in Line : HandleLine(l)
    \/ \E n \in Read : Task(n)
    \/ \E c \in Clients : Connect(c) \/ Write(c) \/ Leave(c) \/ Close(c)

Spec == Init /\ [][Next]_vars

\* Goroutines of events run.  Nothing is assumed of pi, which need not write
\* another line, nor of the clients, which need not read.
Fairness == \A n \in LineNumbers : WF_vars(n \in Read /\ Task(n))

FairSpec == Spec /\ Fairness

-----------------------------------------------------------------------------
(* Properties *)

\* No event is sent on a closed channel, which would panic: a broadcast that is
\* under way visits only clients that are still registered (http_handler.go:
\* 288-293 against 334-339).
NeverSentOnClosed == \A n \in Offering : todo[n] \subseteq Connected

\* Whatever the order in which the goroutines of the deltas and of the
\* text_end get m.mu, a delta is in one place: with its goroutine, collected,
\* or in exactly one message (manager.go:144-165).
DeltaInOnePlace ==
    \A n \in Read : Is(n, "delta") =>
        LET holders == {m \in Read : n \in Elements(text[m])}
            collected == {i \in Indexes : n \in Elements(acc[i])}
        IN /\ task[n] = "new" => holders = {} /\ collected = {}
           /\ task[n] = "done" => Cardinality(holders) + Cardinality(collected) = 1

\* A client that has gone quiet holds up nobody: each event that pi emits is
\* dealt with, however full the channels are (http_handler.go:335-339).
SlowClientHarmless ==
    \A n \in LineNumbers : (task[n] = "new") ~> (task[n] = "done")

\* The lines whose broadcast has begun.
Announced ==
    {n \in Read : \/ task[n] = "offering"
                  \/ task[n] = "done" /\ (Is(n, "notice") \/ text[n] # <<>>)}

\* The connected clients an event is on its way to.
Owed == [n \in LineNumbers |->
           {c \in Connected : \/ n \in Offering /\ c \in todo[n]
                             \/ n \in Elements(queue[c])}]

\* A client of /events gets what is broadcast while it is connected, each event
\* once, but for those that find its channel full (http_handler.go:288-316,
\* 334-339): goroutines, lock and channels do what EventFeed says.
Feed == INSTANCE EventFeed WITH
    Events <- LineNumbers,
    published <- Announced,
    present <- Connected,
    owed <- Owed,
    got <- written,
    lost <- skipped

ImplementsEventFeed == Feed!Spec
=============================================================================
