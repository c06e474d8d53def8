--------------------------- MODULE PiEventsProofs ---------------------------
(***************************************************************************)
(* Theorems about the event path of the legacy backend, for any number of  *)
(* lines, content indexes and clients, and channels of any capacity.       *)
(***************************************************************************)
EXTENDS PiEvents, FiniteSetTheorems, FunctionTheorems, TLAPS

\* A goroutine exists of each line that has been read, and of no other.
TaskPerLine ==
    \A n \in LineNumbers : task[n] = "none" <=> n \notin Read

\* A response starts no goroutine; a delta is collected and never broadcast;
\* only a text_end makes a message.
Roles ==
    \A n \in Read :
        /\ Is(n, "response") => task[n] = "done"
        /\ Is(n, "delta") => task[n] \in {"new", "done"}
        /\ text[n] # <<>> => Is(n, "end")

\* What is collected or sent are deltas whose goroutines are done.
OnlyDoneDeltas ==
    /\ \A i \in Indexes : \A k \in Elements(acc[i]) :
         k \in Read /\ Is(k, "delta") /\ task[k] = "done" /\ lines[k].index = i
    /\ \A n \in LineNumbers : \A k \in Elements(text[n]) :
         n \in Read /\ k \in Read /\ Is(k, "delta") /\ task[k] = "done"

\* No delta is in two places.
Apart ==
    /\ \A i \in Indexes : \A n \in LineNumbers :
         Elements(acc[i]) \cap Elements(text[n]) = {}
    /\ \A m, n \in LineNumbers :
         m # n => Elements(text[m]) \cap Elements(text[n]) = {}

\* Each delta whose goroutine is done is in some place.
Placed ==
    \A k \in Read : Is(k, "delta") /\ task[k] = "done" =>
        \/ k \in Elements(acc[lines[k].index])
        \/ \E n \in LineNumbers : k \in Elements(text[n])

Inventory == TaskPerLine /\ Roles /\ OnlyDoneDeltas /\ Apart /\ Placed

IInv == TypeOK /\ Inventory /\ NeverSentOnClosed

-----------------------------------------------------------------------------
(* Sequences of lines *)

LEMMA AppendElements ==
    ASSUME NEW S, NEW s \in Seq(S), NEW x \in S
    PROVE  /\ Append(s, x) \in Seq(S)
           /\ Elements(Append(s, x)) = Elements(s) \cup {x}
<1>1. Append(s, x) \in Seq(S) /\ Len(Append(s, x)) = Len(s) + 1
  OBVIOUS
<1>2. DOMAIN Append(s, x) = DOMAIN s \cup {Len(s) + 1}
  OBVIOUS
<1>3. \A i \in DOMAIN s : Append(s, x)[i] = s[i]
  OBVIOUS
<1>4. Append(s, x)[Len(s) + 1] = x
  OBVIOUS
<1> QED
  BY <1>1, <1>2, <1>3, <1>4 DEF Elements

LEMMA NoElements == Elements(<<>>) = {}
BY DEF Elements

LEMMA SomeElements == ASSUME NEW S, NEW s \in Seq(S), s # <<>>
                      PROVE  Elements(s) # {}
<1>1. 1 \in DOMAIN s
  OBVIOUS
<1> QED
  BY <1>1 DEF Elements

LEMMA LineIndex ==
    ASSUME TypeOK, NEW n \in Read, Is(n, "delta") \/ Is(n, "end")
    PROVE  lines[n].index \in Indexes
<1>1. lines[n] \in Line
  BY DEF TypeOK, Read
<1>2. \/ lines[n] \in [kind : {"response", "notice"}, index : {0}]
      \/ lines[n] \in [kind : {"delta", "end"}, index : Indexes]
  BY <1>1 DEF Line
<1> QED
  BY <1>2 DEF Is

LEMMA ReadNumbers == ASSUME TypeOK PROVE Read \subseteq LineNumbers
BY EventsAssumption DEF TypeOK, Read, LineNumbers

-----------------------------------------------------------------------------
(* Types *)

LEMMA TypeInit == Init => TypeOK
BY EventsAssumption DEF Init, TypeOK, LineNumbers

LEMMA TypeStep == TypeOK /\ [Next]_vars => TypeOK'
<1> SUFFICES ASSUME TypeOK, [Next]_vars PROVE TypeOK'
  OBVIOUS
<1> USE EventsAssumption
<1>1. ASSUME NEW l \in Line, HandleLine(l) PROVE TypeOK'
  <2>1. lines' \in Seq(Line) /\ Len(lines') <= MaxLines
    BY <1>1 DEF HandleLine, TypeOK
  <2>2. task' \in [LineNumbers -> {"none", "new", "offering", "done"}]
    BY <1>1 DEF HandleLine, TypeOK
  <2> QED
    BY <1>1, <2>1, <2>2 DEF HandleLine, TypeOK, clientVars
<1>2. ASSUME NEW n \in Read, Task(n) PROVE TypeOK'
  <2>1. n \in LineNumbers
    BY ReadNumbers
  <2>2. CASE Collect(n)
    <3>1. lines[n].index \in Indexes
      BY <2>2, LineIndex DEF Collect
    <3>2. acc[lines[n].index] \in Seq(LineNumbers)
      BY <3>1 DEF TypeOK
    <3>3. acc' \in [Indexes -> Seq(LineNumbers)]
      BY <2>1, <2>2, <3>1, <3>2, AppendElements DEF Collect, TypeOK
    <3> QED
      BY <2>1, <2>2, <3>3 DEF Collect, Done, TypeOK, clientVars
  <2>3. CASE Cut(n)
    <3>1. lines[n].index \in Indexes
      BY <2>3, LineIndex DEF Cut
    <3>2. acc' \in [Indexes -> Seq(LineNumbers)]
      BY <2>3, <3>1 DEF Cut, TypeOK
    <3>3. text' \in [LineNumbers -> Seq(LineNumbers)]
      BY <2>1, <2>3, <3>1 DEF Cut, TypeOK
    <3> QED
      BY <2>1, <2>3, <3>2, <3>3 DEF Cut, Done, TypeOK, clientVars
  <2>4. CASE Announce(n)
    BY <2>1, <2>4
    DEF Announce, Broadcast, Connected, TypeOK, lineVars, clientVars
  <2>5. CASE Offered(n)
    BY <2>1, <2>5 DEF Offered, Done, TypeOK, lineVars, clientVars
  <2>6. ASSUME NEW c \in Clients, Offer(n, c) PROVE TypeOK'
    <3>1. todo' \in [LineNumbers -> SUBSET Clients]
      BY <2>1, <2>6 DEF Offer, TypeOK
    <3>2. /\ queue' \in [Clients -> Seq(LineNumbers)]
          /\ \A d \in Clients : Len(queue'[d]) <= Cap
      <4>1. CASE Len(queue[c]) < Cap
        <5>1. Append(queue[c], n) \in Seq(LineNumbers)
              /\ Len(Append(queue[c], n)) <= Cap
          BY <2>1, <4>1 DEF TypeOK
        <5>2. queue' = [queue EXCEPT ![c] = Append(queue[c], n)]
          BY <2>6, <4>1 DEF Offer
        <5> QED
          BY <5>1, <5>2 DEF TypeOK
      <4>2. CASE ~(Len(queue[c]) < Cap)
        BY <2>6, <4>2 DEF Offer, TypeOK
      <4> QED
        BY <4>1, <4>2
    <3>3. skipped' \in SUBSET (LineNumbers \X Clients)
      BY <2>1, <2>6 DEF Offer, TypeOK
    <3> QED
      BY <2>6, <3>1, <3>2, <3>3 DEF Offer, TypeOK, lineVars
  <2> QED
    BY <1>2, <2>2, <2>3, <2>4, <2>5, <2>6 DEF Task
<1>3. ASSUME NEW c \in Clients, Connect(c) \/ Write(c) \/ Leave(c) \/ Close(c)
      PROVE  TypeOK'
  <2>1. CASE Connect(c)
    BY <2>1 DEF Connect, TypeOK, lineVars
  <2>2. CASE Write(c)
    <3>1. /\ queue' \in [Clients -> Seq(LineNumbers)]
          /\ \A d \in Clients : Len(queue'[d]) <= Cap
      BY <2>2 DEF Write, TypeOK
    <3> QED
      BY <2>2, <3>1 DEF Write, TypeOK, lineVars
  <2>3. CASE Leave(c)
    BY <2>3 DEF Leave, TypeOK, lineVars
  <2>4. CASE Close(c)
    BY <2>4 DEF Close, TypeOK, lineVars
  <2> QED
    BY <1>3, <2>1, <2>2, <2>3, <2>4
<1>4. ASSUME UNCHANGED vars PROVE TypeOK'
  BY <1>4 DEF vars, lineVars, clientVars, TypeOK
<1> QED
  BY <1>1, <1>2, <1>3, <1>4 DEF Next

-----------------------------------------------------------------------------
(* Broadcasts and the channels of the clients *)

LEMMA SentStep == TypeOK /\ NeverSentOnClosed /\ [Next]_vars => NeverSentOnClosed'
<1> SUFFICES ASSUME TypeOK, NeverSentOnClosed, [Next]_vars,
                    NEW n \in Offering'
             PROVE  todo'[n] \subseteq Connected'
  BY DEF NeverSentOnClosed
<1>1. n \in LineNumbers
  <2>1. lines' \in Seq(Line) /\ Len(lines') <= MaxLines
    BY TypeStep DEF TypeOK
  <2> QED
    BY <2>1, EventsAssumption DEF Offering, Read, LineNumbers
<1>2. ASSUME NEW l \in Line, HandleLine(l) PROVE todo'[n] \subseteq Connected'
  <2>1. n \in Offering
    BY <1>1, <1>2 DEF HandleLine, Offering, TypeOK, Read, LineNumbers
  <2> QED
    BY <1>2, <2>1 DEF HandleLine, NeverSentOnClosed, Connected, clientVars
<1>3. ASSUME NEW m \in Read, Task(m) PROVE todo'[n] \subseteq Connected'
  <2>1. m \in LineNumbers
    BY ReadNumbers
  <2>2. lines' = lines /\ client' = client
    BY <1>3 DEF Task, Collect, Cut, Announce, Offered, Offer, lineVars, clientVars
  <2>3. CASE Announce(m)
    BY <1>1, <2>1, <2>2, <2>3
    DEF Announce, Broadcast, NeverSentOnClosed, Offering, Read, Connected, TypeOK
  <2>4. CASE Collect(m) \/ Cut(m) \/ Offered(m)
    BY <1>1, <2>1, <2>2, <2>4
    DEF Collect, Cut, Offered, Done, NeverSentOnClosed, Offering, Read,
        Connected, TypeOK
  <2>5. ASSUME NEW c \in Clients, Offer(m, c) PROVE todo'[n] \subseteq Connected'
    BY <1>1, <2>1, <2>2, <2>5
    DEF Offer, NeverSentOnClosed, Offering, Read, Connected, TypeOK
  <2> QED
    BY <1>3, <2>3, <2>4, <2>5 DEF Task
<1>4. ASSUME NEW c \in Clients, Connect(c) \/ Write(c) \/ Leave(c) \/ Close(c)
      PROVE  todo'[n] \subseteq Connected'
  <2>1. lines' = lines /\ task' = task /\ todo' = todo
    BY <1>4 DEF Connect, Write, Leave, Close, lineVars
  <2>2. n \in Offering
    BY <2>1 DEF Offering, Read
  <2>3. ~(Connect(c) \/ Leave(c))
    BY <2>2 DEF Connect, Leave, NoReaders
  <2> QED
    BY <1>4, <2>1, <2>2, <2>3
    DEF Write, Close, NeverSentOnClosed, Connected, TypeOK
<1>5. ASSUME UNCHANGED vars PROVE todo'[n] \subseteq Connected'
  BY <1>5 DEF vars, lineVars, clientVars, NeverSentOnClosed, Offering, Read, Connected
<1> QED
  BY <1>2, <1>3, <1>4, <1>5 DEF Next

-----------------------------------------------------------------------------
(* Deltas *)

LEMMA InventoryInit == Init => Inventory
BY NoElements
DEF Init, Inventory, TaskPerLine, Roles, OnlyDoneDeltas, Apart, Placed, Read,
    Elements, LineNumbers

\* A new line finds nobody who has heard of it.
LEMMA InventoryLine ==
    ASSUME TypeOK, Inventory, NEW l \in Line, HandleLine(l)
    PROVE  Inventory'
<1>0. PICK k : k = Len(lines) + 1
  OBVIOUS
<1>1. k \in LineNumbers /\ k \notin Read /\ Read' = Read \cup {k}
  BY <1>0, EventsAssumption DEF HandleLine, TypeOK, Read, LineNumbers
<1>2. Read \subseteq LineNumbers
  BY ReadNumbers
<1>3. lines'[k] = l /\ \A n \in Read : lines'[n] = lines[n]
  BY <1>0 DEF HandleLine, TypeOK, Read
<1>4. /\ task'[k] = IF l.kind = "response" THEN "done" ELSE "new"
      /\ \A n \in LineNumbers \ {k} : task'[n] = task[n]
  BY <1>0, <1>1 DEF HandleLine, TypeOK
<1>5. acc' = acc /\ text' = text
  BY DEF HandleLine
<1>6. text[k] = <<>>
  <2>1. text[k] \in Seq(LineNumbers)
    BY <1>1 DEF TypeOK
  <2>2. Elements(text[k]) = {}
    BY <1>1 DEF Inventory, OnlyDoneDeltas
  <2> QED
    BY <2>1, <2>2, SomeElements
<1>7. TaskPerLine'
  BY <1>1, <1>2, <1>4 DEF Inventory, TaskPerLine
<1>8. Roles'
  <2>1. ASSUME NEW n \in Read
        PROVE  /\ Is(n, "response")' => task'[n] = "done"
               /\ Is(n, "delta")' => task'[n] \in {"new", "done"}
               /\ text'[n] # <<>> => Is(n, "end")'
    BY <1>1, <1>2, <1>3, <1>4, <1>5, <2>1 DEF Inventory, Roles, Is
  <2>2. /\ Is(k, "response")' => task'[k] = "done"
        /\ Is(k, "delta")' => task'[k] \in {"new", "done"}
        /\ text'[k] # <<>> => Is(k, "end")'
    BY <1>3, <1>4, <1>5, <1>6 DEF Is
  <2> QED
    BY <1>1, <2>1, <2>2 DEF Roles
<1>9. OnlyDoneDeltas'
  BY <1>1, <1>2, <1>3, <1>4, <1>5 DEF Inventory, OnlyDoneDeltas, Is
<1>10. Apart'
  BY <1>5 DEF Inventory, Apart
<1>11. Placed'
  <2> SUFFICES ASSUME NEW m \in Read', Is(m, "delta")', task'[m] = "done"
               PROVE  \/ m \in Elements(acc'[lines'[m].index])
                      \/ \E n \in LineNumbers : m \in Elements(text'[n])
    BY DEF Placed
  <2>1. m # k
    BY <1>3, <1>4 DEF Is
  <2> QED
    BY <1>1, <1>2, <1>3, <1>4, <1>5, <2>1 DEF Inventory, Placed, Is
<1> QED
  BY <1>7, <1>8, <1>9, <1>10, <1>11 DEF Inventory

\* A delta that is collected was in no place before.
LEMMA InventoryCollect ==
    ASSUME TypeOK, Inventory, NEW k \in Read, Collect(k)
    PROVE  Inventory'
<1> DEFINE i == lines[k].index
<1>1. k \in LineNumbers
  BY ReadNumbers
<1>2. i \in Indexes /\ Is(k, "delta") /\ task[k] = "new"
  BY LineIndex DEF Collect
<1>3. lines' = lines /\ text' = text /\ Read' = Read
  BY DEF Collect, Read
<1>4. /\ task'[k] = "done"
      /\ \A n \in LineNumbers \ {k} : task'[n] = task[n]
  BY <1>1 DEF Collect, Done, TypeOK
<1>5. /\ Elements(acc'[i]) = Elements(acc[i]) \cup {k}
      /\ \A j \in Indexes \ {i} : acc'[j] = acc[j]
  <2>1. acc[i] \in Seq(LineNumbers)
    BY <1>2 DEF TypeOK
  <2>2. acc' = [acc EXCEPT ![i] = Append(acc[i], k)]
    BY DEF Collect
  <2> QED
    BY <1>1, <1>2, <2>1, <2>2, AppendElements DEF TypeOK
<1> HIDE DEF i
<1>6. Read \subseteq LineNumbers
  BY ReadNumbers
<1>7. TaskPerLine' /\ Roles'
  BY <1>1, <1>2, <1>3, <1>4, <1>6 DEF Inventory, TaskPerLine, Roles, Is
<1>8. OnlyDoneDeltas'
  <2>1. ASSUME NEW j \in Indexes, NEW m \in Elements(acc'[j])
        PROVE  m \in Read /\ Is(m, "delta") /\ task'[m] = "done" /\ lines[m].index = j
    BY <1>1, <1>2, <1>4, <1>5, <1>6, <2>1 DEF Inventory, OnlyDoneDeltas, i
  <2>2. ASSUME NEW n \in LineNumbers, NEW m \in Elements(text[n])
        PROVE  n \in Read /\ m \in Read /\ Is(m, "delta") /\ task'[m] = "done"
    BY <1>1, <1>4, <1>6, <2>2 DEF Inventory, OnlyDoneDeltas
  <2> QED
    BY <1>3, <2>1, <2>2 DEF OnlyDoneDeltas, Is
<1>9. Apart'
  BY <1>2, <1>3, <1>5 DEF Inventory, Apart, OnlyDoneDeltas
<1>10. Placed'
  <2> SUFFICES ASSUME NEW m \in Read, Is(m, "delta"), task'[m] = "done"
               PROVE  \/ m \in Elements(acc'[lines[m].index])
                      \/ \E n \in LineNumbers : m \in Elements(text[n])
    BY <1>3 DEF Placed, Is
  <2>1. CASE m = k
    BY <1>5, <2>1 DEF i
  <2>2. CASE m # k
    <3>1. lines[m].index \in Indexes
      BY LineIndex
    <3> QED
      BY <1>4, <1>5, <1>6, <2>2, <3>1 DEF Inventory, Placed
  <2> QED
    BY <2>1, <2>2
<1> QED
  BY <1>7, <1>8, <1>9, <1>10 DEF Inventory

\* What a text_end takes out of the collection is in its message afterwards.
LEMMA InventoryCut ==
    ASSUME TypeOK, Inventory, NEW k \in Read, Cut(k)
    PROVE  Inventory'
<1> DEFINE i == lines[k].index
<1>1. k \in LineNumbers
  BY ReadNumbers
<1>2. i \in Indexes /\ Is(k, "end") /\ task[k] = "new" /\ text[k] = <<>>
  BY LineIndex DEF Cut
<1>3. lines' = lines /\ Read' = Read
  BY DEF Cut, Read
<1>4. /\ task'[k] \in {"new", "done"}
      /\ \A n \in LineNumbers \ {k} : task'[n] = task[n]
  BY <1>1, <1>2 DEF Cut, Done, TypeOK
<1>5. /\ Elements(acc'[i]) = {}
      /\ \A j \in Indexes \ {i} : acc'[j] = acc[j]
  BY <1>2, NoElements DEF Cut, TypeOK
<1>6. /\ text'[k] = acc[i]
      /\ \A n \in LineNumbers \ {k} : text'[n] = text[n]
  BY <1>1 DEF Cut, TypeOK
<1>7. Elements(text[k]) = {}
  BY <1>2, NoElements
<1> HIDE DEF i
<1>8. Read \subseteq LineNumbers
  BY ReadNumbers
<1>9. TaskPerLine' /\ Roles'
  BY <1>1, <1>2, <1>3, <1>4, <1>6, <1>8 DEF Inventory, TaskPerLine, Roles, Is
<1>10. \A m \in Read : Is(m, "delta") => m # k
  BY <1>2 DEF Is
<1>11. OnlyDoneDeltas'
  <2>1. ASSUME NEW j \in Indexes, NEW m \in Elements(acc'[j])
        PROVE  m \in Read /\ Is(m, "delta") /\ task'[m] = "done" /\ lines[m].index = j
    BY <1>4, <1>5, <1>8, <1>10, <2>1 DEF Inventory, OnlyDoneDeltas
  <2>2. ASSUME NEW n \in LineNumbers, NEW m \in Elements(text'[n])
        PROVE  n \in Read /\ m \in Read /\ Is(m, "delta") /\ task'[m] = "done"
    BY <1>2, <1>4, <1>6, <1>8, <1>10, <2>2 DEF Inventory, OnlyDoneDeltas
  <2> QED
    BY <1>3, <2>1, <2>2 DEF OnlyDoneDeltas, Is
<1>12. \A j \in Indexes \ {i} : Elements(acc[i]) \cap Elements(acc[j]) = {}
  BY <1>2 DEF Inventory, OnlyDoneDeltas
<1>13. Apart'
  <2>1. ASSUME NEW j \in Indexes, NEW n \in LineNumbers
        PROVE  Elements(acc'[j]) \cap Elements(text'[n]) = {}
    BY <1>2, <1>5, <1>6, <1>12, <2>1 DEF Inventory, Apart
  <2>2. ASSUME NEW m \in LineNumbers, NEW n \in LineNumbers, m # n
        PROVE  Elements(text'[m]) \cap Elements(text'[n]) = {}
    BY <1>2, <1>6, <2>2 DEF Inventory, Apart
  <2> QED
    BY <2>1, <2>2 DEF Apart
<1>14. Placed'
  <2> SUFFICES ASSUME NEW m \in Read, Is(m, "delta"), task'[m] = "done"
               PROVE  \/ m \in Elements(acc'[lines[m].index])
                      \/ \E n \in LineNumbers : m \in Elements(text'[n])
    BY <1>3 DEF Placed, Is
  <2>1. lines[m].index \in Indexes
    BY LineIndex
  <2>2. task[m] = "done"
    BY <1>4, <1>8, <1>10
  <2>3. CASE m \in Elements(acc[lines[m].index])
    BY <1>1, <1>5, <1>6, <2>1, <2>3
  <2>4. ASSUME NEW n \in LineNumbers, m \in Elements(text[n])
        PROVE  m \in Elements(text'[n])
    BY <1>6, <1>7, <2>4
  <2> QED
    BY <2>2, <2>3, <2>4 DEF Inventory, Placed
<1> QED
  BY <1>9, <1>11, <1>13, <1>14 DEF Inventory

\* A step of a broadcast moves no delta.
LEMMA InventoryStays ==
    ASSUME TypeOK, Inventory, lineVars' = lineVars,
           \A n \in LineNumbers :
              \/ task'[n] = task[n]
              \/ /\ n \in Read /\ ~Is(n, "delta") /\ ~Is(n, "response")
                 /\ task'[n] # "none"
    PROVE  Inventory'
<1>1. lines' = lines /\ text' = text /\ acc' = acc /\ Read' = Read
  BY DEF lineVars, Read
<1>2. Read \subseteq LineNumbers
  BY ReadNumbers
<1>3. \A m \in Read : Is(m, "delta") \/ Is(m, "response") => task'[m] = task[m]
  BY <1>2
<1>4. TaskPerLine' /\ Roles'
  BY <1>1, <1>2, <1>3 DEF Inventory, TaskPerLine, Roles, Is
<1>5. OnlyDoneDeltas'
  <2>1. \A i \in Indexes : \A k \in Elements(acc[i]) :
          k \in Read /\ Is(k, "delta") /\ task'[k] = "done" /\ lines[k].index = i
    BY <1>3 DEF Inventory, OnlyDoneDeltas
  <2>2. \A n \in LineNumbers : \A k \in Elements(text[n]) :
          n \in Read /\ k \in Read /\ Is(k, "delta") /\ task'[k] = "done"
    BY <1>3 DEF Inventory, OnlyDoneDeltas
  <2> QED
    BY <1>1, <2>1, <2>2 DEF OnlyDoneDeltas, Is
<1>6. Apart'
  BY <1>1 DEF Inventory, Apart
<1>7. Placed'
  BY <1>1, <1>3 DEF Inventory, Placed, Is
<1> QED
  BY <1>4, <1>5, <1>6, <1>7 DEF Inventory

LEMMA InventoryStep == TypeOK /\ Inventory /\ [Next]_vars => Inventory'
<1> SUFFICES ASSUME TypeOK, Inventory, [Next]_vars PROVE Inventory'
  OBVIOUS
<1>1. ASSUME NEW n \in Read, Task(n) PROVE Inventory'
  <2>1. n \in LineNumbers
    BY ReadNumbers
  <2>2. CASE Announce(n)
    <3>1. ~Is(n, "delta") /\ ~Is(n, "response")
      BY <2>2 DEF Announce, Inventory, Roles, Is
    <3> QED
      BY <2>1, <2>2, <3>1, InventoryStays DEF Announce, Broadcast, TypeOK
  <2>3. CASE Offered(n)
    <3>1. ~Is(n, "delta") /\ ~Is(n, "response")
      BY <2>3 DEF Offered, Inventory, Roles, Is
    <3> QED
      BY <2>1, <2>3, <3>1, InventoryStays DEF Offered, Done, TypeOK
  <2>4. ASSUME NEW c \in Clients, Offer(n, c) PROVE Inventory'
    BY <2>4, InventoryStays DEF Offer
  <2> QED
    BY <1>1, <2>2, <2>3, <2>4, InventoryCollect, InventoryCut DEF Task
<1>2. ASSUME NEW c \in Clients, Connect(c) \/ Write(c) \/ Leave(c) \/ Close(c)
      PROVE  Inventory'
  BY <1>2, InventoryStays DEF Connect, Write, Leave, Close
<1>3. ASSUME UNCHANGED vars PROVE Inventory'
  BY <1>3, InventoryStays DEF vars
<1> QED
  BY <1>1, <1>2, <1>3, InventoryLine DEF Next

-----------------------------------------------------------------------------
(* Channels *)

Distinct(s) == \A i, j \in DOMAIN s : s[i] = s[j] => i = j

\* A channel holds events that have been announced, each once; none of them is
\* still to be offered to its client.  A client that is not there yet has an
\* empty one, and only text_end with a text and notices are offered.
Channels ==
    /\ \A c \in Clients : Distinct(queue[c]) /\ Elements(queue[c]) \subseteq Announced
    /\ \A c \in Clients : client[c] = "off" => queue[c] = <<>>
    /\ \A n \in Offering :
         /\ Is(n, "notice") \/ text[n] # <<>>
         /\ \A c \in todo[n] : n \notin Elements(queue[c])

LEMMA AppendDistinct ==
    ASSUME NEW S, NEW s \in Seq(S), Distinct(s), NEW x \in S, x \notin Elements(s)
    PROVE  Distinct(Append(s, x))
<1>1. /\ DOMAIN Append(s, x) = DOMAIN s \cup {Len(s) + 1}
      /\ \A i \in DOMAIN s : Append(s, x)[i] = s[i]
      /\ Append(s, x)[Len(s) + 1] = x
  OBVIOUS
<1> QED
  BY <1>1 DEF Distinct, Elements

LEMMA TailElements ==
    ASSUME NEW S, NEW s \in Seq(S), s # <<>>, Distinct(s)
    PROVE  /\ Head(s) \in S /\ Tail(s) \in Seq(S) /\ Distinct(Tail(s))
           /\ Head(s) \notin Elements(Tail(s))
           /\ Elements(s) = Elements(Tail(s)) \cup {Head(s)}
<1>1. /\ Len(s) \in Nat \ {0} /\ DOMAIN s = 1..Len(s)
      /\ Head(s) = s[1] /\ Tail(s) \in Seq(S)
      /\ Len(Tail(s)) = Len(s) - 1 /\ DOMAIN Tail(s) = 1..(Len(s) - 1)
      /\ \A i \in 1..(Len(s) - 1) : Tail(s)[i] = s[i + 1]
  OBVIOUS
<1>2. Distinct(Tail(s)) /\ Head(s) \notin Elements(Tail(s))
  BY <1>1 DEF Distinct, Elements
<1>3. Elements(s) \subseteq Elements(Tail(s)) \cup {Head(s)}
  <2> SUFFICES ASSUME NEW i \in 1..Len(s), i # 1 PROVE s[i] \in Elements(Tail(s))
    BY <1>1 DEF Elements
  <2>1. i - 1 \in 1..(Len(s) - 1) /\ (i - 1) + 1 = i
    BY <1>1
  <2> QED
    BY <1>1, <2>1 DEF Elements
<1>4. Elements(Tail(s)) \cup {Head(s)} \subseteq Elements(s)
  BY <1>1 DEF Elements
<1> QED
  BY <1>1, <1>2, <1>3, <1>4

\* A sequence without repetitions is as long as the set of its elements is large.
LEMMA DistinctLength ==
    ASSUME NEW S, NEW s \in Seq(S), Distinct(s)
    PROVE  IsFiniteSet(Elements(s)) /\ Cardinality(Elements(s)) = Len(s)
<1>1. Len(s) \in Nat /\ DOMAIN s = 1..Len(s) /\ s \in [1..Len(s) -> Elements(s)]
  BY DEF Elements
<1>2. IsFiniteSet(1..Len(s)) /\ Cardinality(1..Len(s)) = Len(s)
  BY <1>1, FS_Interval
<1>3. s \in Bijection(1..Len(s), Elements(s))
  BY <1>1, Fun_IsBij DEF Distinct, Elements
<1>4. ExistsBijection(1..Len(s), Elements(s))
  BY <1>3 DEF ExistsBijection
<1> QED
  BY <1>2, <1>4, FS_Bijection

\* A line that is worth a broadcast.
Telling(n) == Is(n, "notice") \/ text[n] # <<>>

\* Reading a line, collecting a delta and cutting a message announce nothing.
LEMMA TextStays ==
    ASSUME TypeOK, Inventory,
           \/ \E l \in Line : HandleLine(l)
           \/ \E n \in Read : Collect(n) \/ Cut(n)
    PROVE  /\ Announced' = Announced /\ Offering' = Offering
           /\ \A n \in Offering : Telling(n)' <=> Telling(n)
           /\ todo' = todo /\ clientVars' = clientVars
<1> USE DEF Announced, Offering, Telling
<1>0. Read \subseteq LineNumbers
  BY ReadNumbers
<1>1. ASSUME NEW l \in Line, HandleLine(l)
      PROVE  /\ Announced' = Announced /\ Offering' = Offering
             /\ \A n \in Offering : Telling(n)' <=> Telling(n)
  <2>1. PICK k : k = Len(lines) + 1
    OBVIOUS
  <2>2. k \in LineNumbers /\ k \notin Read /\ Read' = Read \cup {k}
    BY <1>1, <2>1, EventsAssumption DEF HandleLine, TypeOK, Read, LineNumbers
  <2>3. lines'[k] = l /\ \A n \in Read : lines'[n] = lines[n]
    BY <1>1, <2>1 DEF HandleLine, TypeOK, Read
  <2>4. /\ task'[k] = IF l.kind = "response" THEN "done" ELSE "new"
        /\ \A n \in LineNumbers \ {k} : task'[n] = task[n]
        /\ text' = text
    BY <1>1, <2>1, <2>2 DEF HandleLine, TypeOK
  <2>5. text[k] = <<>>
    <3>1. text[k] \in Seq(LineNumbers) /\ Elements(text[k]) = {}
      BY <2>2 DEF TypeOK, Inventory, OnlyDoneDeltas
    <3> QED
      BY <3>1, SomeElements
  <2> QED
    BY <1>0, <2>2, <2>3, <2>4, <2>5 DEF Is
<1>2. ASSUME NEW k \in Read, Collect(k)
      PROVE  /\ Announced' = Announced /\ Offering' = Offering
             /\ \A n \in Offering : Telling(n)' <=> Telling(n)
  <2>1. /\ task[k] = "new" /\ Is(k, "delta") /\ text[k] = <<>>
        /\ lines' = lines /\ text' = text
    BY <1>2 DEF Collect, Inventory, Roles, Is
  <2>2. task'[k] = "done" /\ \A n \in LineNumbers \ {k} : task'[n] = task[n]
    BY <1>0, <1>2 DEF Collect, Done, TypeOK
  <2> QED
    BY <1>0, <2>1, <2>2 DEF Read, Is
<1>3. ASSUME NEW k \in Read, Cut(k)
      PROVE  /\ Announced' = Announced /\ Offering' = Offering
             /\ \A n \in Offering : Telling(n)' <=> Telling(n)
  <2>1. task[k] = "new" /\ Is(k, "end") /\ text[k] = <<>> /\ lines' = lines
    BY <1>3 DEF Cut
  <2>2. /\ \A n \in LineNumbers \ {k} : task'[n] = task[n] /\ text'[n] = text[n]
        /\ \/ task'[k] = "new"
           \/ task'[k] = "done" /\ text'[k] = <<>>
    BY <1>0, <1>3 DEF Cut, Done, TypeOK
  <2> QED
    BY <1>0, <2>1, <2>2 DEF Read, Is
<1>4. todo' = todo /\ clientVars' = clientVars
  BY DEF HandleLine, Collect, Cut, clientVars
<1> QED
  BY <1>1, <1>2, <1>3, <1>4

\* A broadcast announces its event once, and ends without a word.
LEMMA Announces ==
    ASSUME TypeOK, Inventory, Channels, NEW n \in Read, Announce(n)
    PROVE  /\ n \in LineNumbers /\ n \notin Announced /\ n \notin Offering
           /\ Announced' = Announced \cup {n} /\ Offering' = Offering \cup {n}
           /\ todo'[n] = Connected
           /\ \A m \in LineNumbers \ {n} : todo'[m] = todo[m]
           /\ \A m \in LineNumbers : Telling(m)' <=> Telling(m)
           /\ Telling(n) /\ clientVars' = clientVars
<1>1. Read \subseteq LineNumbers
  BY ReadNumbers
<1>2. lines' = lines /\ text' = text /\ clientVars' = clientVars
  BY DEF Announce, lineVars, clientVars
<1>3. /\ task[n] = "new" /\ task'[n] = "offering"
      /\ \A m \in LineNumbers \ {n} : task'[m] = task[m]
      /\ todo'[n] = Connected
      /\ \A m \in LineNumbers \ {n} : todo'[m] = todo[m]
  BY <1>1 DEF Announce, Broadcast, TypeOK
<1> QED
  BY <1>1, <1>2, <1>3 DEF Announce, Announced, Offering, Read, Telling, Is

LEMMA OfferEnds ==
    ASSUME TypeOK, Inventory, Channels, NEW n \in Read, Offered(n)
    PROVE  /\ n \in Offering /\ todo[n] = {}
           /\ Announced' = Announced /\ Offering' = Offering \ {n}
           /\ todo' = todo /\ clientVars' = clientVars
           /\ \A m \in LineNumbers : Telling(m)' <=> Telling(m)
<1>1. Read \subseteq LineNumbers
  BY ReadNumbers
<1>2. /\ lines' = lines /\ text' = text /\ clientVars' = clientVars /\ todo' = todo
      /\ task[n] = "offering" /\ todo[n] = {}
  BY DEF Offered, lineVars, clientVars
<1>3. /\ task'[n] = "done"
      /\ \A m \in LineNumbers \ {n} : task'[m] = task[m]
  BY <1>1 DEF Offered, Done, TypeOK
<1>4. n \in Offering /\ Telling(n)
  BY <1>2 DEF Channels, Offering, Telling
<1> QED
  BY <1>1, <1>2, <1>3, <1>4 DEF Announced, Offering, Read, Telling, Is

\* What the other steps leave as it is.
LEMMA LinesStay ==
    ASSUME lineVars' = lineVars, task' = task
    PROVE  /\ Announced' = Announced /\ Offering' = Offering
           /\ \A m \in LineNumbers : Telling(m)' <=> Telling(m)
BY DEF lineVars, Announced, Offering, Read, Telling, Is

\* A client that is offered an event is connected and does not have it.
LEMMA OfferMoves ==
    ASSUME IInv, Channels, NEW n \in Read, NEW c \in Clients, Offer(n, c)
    PROVE  /\ n \in LineNumbers /\ n \in Offering /\ c \in todo[n]
           /\ c \in Connected /\ n \notin Elements(queue[c]) /\ n \in Announced
           /\ todo'[n] = todo[n] \ {c}
           /\ \A m \in LineNumbers \ {n} : todo'[m] = todo[m]
           /\ \A d \in Clients \ {c} : queue'[d] = queue[d]
           /\ client' = client /\ written' = written
           /\ \/ /\ Elements(queue'[c]) = Elements(queue[c]) \cup {n}
                 /\ Distinct(queue'[c]) /\ skipped' = skipped
              \/ /\ Len(queue[c]) >= Cap /\ queue' = queue
                 /\ skipped' = skipped \cup {<<n, c>>}
<1>1. n \in LineNumbers /\ TypeOK
  BY ReadNumbers DEF IInv
<1>2. n \in Offering /\ c \in todo[n]
  BY DEF Offer, Offering
<1>3. /\ c \in Connected /\ n \notin Elements(queue[c])
      /\ Distinct(queue[c]) /\ n \in Announced
  BY <1>2 DEF IInv, NeverSentOnClosed, Channels, Announced, Offering
<1>4. /\ todo'[n] = todo[n] \ {c}
      /\ \A m \in LineNumbers \ {n} : todo'[m] = todo[m]
      /\ client' = client /\ written' = written
  BY <1>1 DEF Offer, TypeOK
<1>5. CASE Len(queue[c]) < Cap
  <2>1. queue' = [queue EXCEPT ![c] = Append(queue[c], n)] /\ skipped' = skipped
    BY <1>5 DEF Offer
  <2>2. queue[c] \in Seq(LineNumbers)
    BY <1>1 DEF TypeOK
  <2>3. /\ Elements(Append(queue[c], n)) = Elements(queue[c]) \cup {n}
        /\ Distinct(Append(queue[c], n))
    BY <1>1, <1>3, <2>2, AppendElements, AppendDistinct
  <2>4. queue'[c] = Append(queue[c], n) /\ \A d \in Clients \ {c} : queue'[d] = queue[d]
    BY <1>1, <2>1 DEF TypeOK
  <2> QED
    BY <1>1, <1>2, <1>3, <1>4, <2>1, <2>3, <2>4
<1>6. CASE ~(Len(queue[c]) < Cap)
  <2>1. /\ queue' = queue /\ skipped' = skipped \cup {<<n, c>>}
        /\ Len(queue[c]) >= Cap
    BY <1>1, <1>6, EventsAssumption DEF Offer, TypeOK
  <2> QED
    BY <1>1, <1>2, <1>3, <1>4, <2>1
<1> QED
  BY <1>5, <1>6

LEMMA ChannelsStep == IInv /\ Channels /\ [Next]_vars => Channels'
<1> SUFFICES ASSUME IInv, Channels, [Next]_vars PROVE Channels'
  OBVIOUS
<1>0. TypeOK /\ Inventory /\ Offering \subseteq LineNumbers
  BY ReadNumbers DEF IInv, Offering
<1>1. ASSUME clientVars' = clientVars, todo' = todo, Announced' = Announced,
             Offering' \subseteq Offering,
             \A n \in Offering : Telling(n)' <=> Telling(n)
      PROVE  Channels'
  <2>1. client' = client /\ queue' = queue
    BY <1>1 DEF clientVars
  <2> QED
    BY <1>1, <2>1 DEF Channels, Telling
<1>2. CASE \/ \E l \in Line : HandleLine(l)
           \/ \E n \in Read : Collect(n) \/ Cut(n)
  BY <1>0, <1>1, <1>2, TextStays
<1>3. ASSUME NEW n \in Read, Announce(n) PROVE Channels'
  <2>1. client' = client /\ queue' = queue
    BY <1>0, <1>3, Announces DEF clientVars
  <2>2. \A c \in Clients : n \notin Elements(queue[c])
    BY <1>0, <1>3, Announces DEF Channels
  <2>3. Connected \subseteq Clients
    BY DEF Connected
  <2> QED
    BY <1>0, <1>3, <2>1, <2>2, <2>3, Announces DEF Channels, Telling
<1>4. ASSUME NEW n \in Read, Offered(n) PROVE Channels'
  BY <1>0, <1>1, <1>4, OfferEnds
<1>5. ASSUME NEW n \in Read, NEW c \in Clients, Offer(n, c) PROVE Channels'
  <2>1. /\ Announced' = Announced /\ Offering' = Offering
        /\ \A m \in LineNumbers : Telling(m)' <=> Telling(m)
    BY <1>5, LinesStay DEF Offer
  <2>2. /\ \A d \in Clients \ {c} : queue'[d] = queue[d]
        /\ client' = client /\ client[c] = "on"
        /\ Distinct(queue'[c])
        /\ Elements(queue'[c]) \subseteq Elements(queue[c]) \cup {n}
        /\ n \in Announced
    BY <1>5, OfferMoves DEF Connected, Channels
  <2>3. ASSUME NEW m \in Offering, NEW d \in todo'[m]
        PROVE  m \notin Elements(queue'[d])
    <3>1. todo[m] \subseteq Clients
      BY <1>0 DEF TypeOK
    <3>2. d \in todo[m] /\ (m = n => d # c)
      BY <1>0, <1>5, OfferMoves
    <3> QED
      BY <2>2, <3>1, <3>2 DEF Channels
  <2> QED
    BY <1>0, <2>1, <2>2, <2>3 DEF Channels, Telling
<1>6. ASSUME NEW c \in Clients, Connect(c) \/ Leave(c) \/ Write(c) \/ Close(c)
      PROVE  Channels'
  <2>1. /\ lineVars' = lineVars /\ task' = task /\ todo' = todo
        /\ \A d \in Clients : client'[d] = "off" => client[d] = "off"
    BY <1>0, <1>6 DEF Connect, Leave, Write, Close, TypeOK
  <2>2. /\ Announced' = Announced /\ Offering' = Offering
        /\ \A m \in LineNumbers : Telling(m)' <=> Telling(m)
    BY <2>1, LinesStay
  <2>3. ASSUME NEW d \in Clients
        PROVE  /\ Distinct(queue'[d]) /\ Elements(queue'[d]) \subseteq Elements(queue[d])
               /\ queue[d] = <<>> => queue'[d] = <<>>
    <3>1. Distinct(queue[d]) /\ queue[d] \in Seq(LineNumbers)
      BY <1>0 DEF Channels, TypeOK
    <3>2. CASE queue'[d] = queue[d]
      BY <3>1, <3>2
    <3>3. CASE queue'[d] = <<>>
      BY <3>3, NoElements DEF Distinct
    <3>4. CASE queue[d] # <<>> /\ queue'[d] = Tail(queue[d])
      BY <3>1, <3>4, TailElements
    <3>5. \/ queue'[d] = queue[d]
          \/ queue'[d] = <<>>
          \/ queue[d] # <<>> /\ queue'[d] = Tail(queue[d])
      <4>1. queue \in [Clients -> Seq(LineNumbers)]
        BY <1>0 DEF TypeOK
      <4>2. \/ queue' = queue
            \/ queue[c] # <<>> /\ queue' = [queue EXCEPT ![c] = Tail(queue[c])]
            \/ queue' = [queue EXCEPT ![c] = <<>>]
        BY <1>6 DEF Connect, Leave, Write, Close
      <4> QED
        BY <4>1, <4>2
    <3> QED
      BY <3>2, <3>3, <3>4, <3>5
  <2>4. \A n \in Offering : todo[n] \subseteq Clients
    BY <1>0 DEF TypeOK
  <2> QED
    BY <1>0, <2>1, <2>2, <2>3, <2>4 DEF Channels, Telling
<1>7. CASE UNCHANGED vars
  BY <1>0, <1>1, <1>7, LinesStay DEF vars, clientVars
<1> QED
  BY <1>2, <1>3, <1>4, <1>5, <1>6, <1>7 DEF Next, Task

-----------------------------------------------------------------------------
(* What the clients are promised *)

LEMMA OwedAre ==
    \A n \in LineNumbers : \A c \in Clients :
        c \in Owed[n] <=> /\ c \in Connected
                          /\ \/ n \in Offering /\ c \in todo[n]
                             \/ n \in Elements(queue[c])
BY DEF Owed, Connected

\* Two maps of what is owed that agree for each event and client are the same.
LEMMA OwedEqual ==
    ASSUME NEW f, f \in [LineNumbers -> SUBSET Clients],
           \A n \in LineNumbers : \A c \in Clients : c \in Owed'[n] <=> c \in f[n]
    PROVE  Owed' = f
<1>1. Owed' \in [LineNumbers -> SUBSET Clients]
  BY DEF Owed, Connected
<1>2. ASSUME NEW n \in LineNumbers PROVE Owed'[n] = f[n]
  BY <1>1
<1> QED
  BY <1>1, <1>2

LEMMA OwedType == Owed \in [LineNumbers -> SUBSET Clients]
BY DEF Owed, Connected

\* A step of the event path is a step of the feed, or does not concern it.
LEMMA FeedStep ==
    ASSUME IInv, Channels, Channels', [Next]_vars PROVE [Feed!Next]_(Feed!vars)
<1>0. TypeOK /\ Inventory /\ NeverSentOnClosed /\ Offering \subseteq LineNumbers
  BY ReadNumbers DEF IInv, Offering
<1>1. ASSUME clientVars' = clientVars, Announced' = Announced,
             \A n \in LineNumbers : \A c \in Clients :
                n \in Offering' /\ c \in todo'[n] <=> n \in Offering /\ c \in todo[n]
      PROVE  UNCHANGED Feed!vars
  <2>1. client' = client /\ queue' = queue /\ written' = written /\ skipped' = skipped
    BY <1>1 DEF clientVars
  <2>2. Connected' = Connected
    BY <2>1 DEF Connected
  <2>3. Owed' = Owed
    BY <1>1, <2>1 DEF Owed, Connected
  <2> QED
    BY <1>1, <2>1, <2>2, <2>3 DEF Feed!vars
<1>2. CASE \/ \E l \in Line : HandleLine(l)
           \/ \E n \in Read : Collect(n) \/ Cut(n)
  BY <1>0, <1>1, <1>2, TextStays
<1>3. ASSUME NEW n \in Read, Announce(n) PROVE Feed!Next
  <2>1. /\ client' = client /\ queue' = queue /\ written' = written
        /\ skipped' = skipped /\ Connected' = Connected
    BY <1>0, <1>3, Announces DEF clientVars, Connected
  <2>2. \A m \in LineNumbers : \A c \in Clients :
          c \in Owed'[m] <=> c \in [Owed EXCEPT ![n] = Connected][m]
    <3>1. \A m \in LineNumbers : \A c \in Clients :
            c \in Owed'[m] <=> /\ c \in Connected
                               /\ \/ m \in Offering' /\ c \in todo'[m]
                                  \/ m \in Elements(queue[c])
      BY <2>1 DEF Owed, Connected
    <3> QED
      BY <1>0, <1>3, <3>1, Announces, OwedAre, OwedType
  <2>3. [Owed EXCEPT ![n] = Connected] \in [LineNumbers -> SUBSET Clients]
    BY OwedType DEF Connected
  <2>4. Owed' = [Owed EXCEPT ![n] = Connected]
    BY <2>2, <2>3, OwedEqual
  <2>5. Feed!Publish(n) /\ n \in LineNumbers
    BY <1>0, <1>3, <2>1, <2>4, Announces DEF Feed!Publish
  <2> QED
    BY <2>5 DEF Feed!Next
<1>4. ASSUME NEW n \in Read, Offered(n) PROVE UNCHANGED Feed!vars
  BY <1>0, <1>1, <1>4, OfferEnds
<1>5. ASSUME NEW n \in Read, NEW c \in Clients, Offer(n, c)
      PROVE  [Feed!Next]_(Feed!vars)
  <2>1. Announced' = Announced /\ Offering' = Offering
    BY <1>5, LinesStay DEF Offer
  <2>2. /\ n \in LineNumbers /\ n \in Offering /\ c \in todo[n] /\ c \in Connected
        /\ n \notin Elements(queue[c])
        /\ todo'[n] = todo[n] \ {c}
        /\ \A m \in LineNumbers \ {n} : todo'[m] = todo[m]
        /\ \A d \in Clients \ {c} : queue'[d] = queue[d]
        /\ client' = client /\ written' = written
    BY <1>5, OfferMoves
  <2>3. Connected' = Connected /\ c \in Owed[n]
    BY <2>2, OwedAre DEF Connected
  <2>4. \A m \in LineNumbers : \A d \in Clients :
          d \in Owed'[m] <=> /\ d \in Connected
                             /\ \/ m \in Offering /\ d \in todo'[m]
                                \/ m \in Elements(queue'[d])
    BY <2>1, <2>3 DEF Owed, Connected
  <2>5. CASE /\ Elements(queue'[c]) = Elements(queue[c]) \cup {n}
             /\ skipped' = skipped
    <3>1. \A m \in LineNumbers : \A d \in Clients : d \in Owed'[m] <=> d \in Owed[m]
      BY <2>2, <2>4, <2>5, OwedAre
    <3>2. Owed' = Owed
      BY <3>1, OwedType, OwedEqual
    <3> QED
      BY <2>1, <2>2, <2>3, <2>5, <3>2 DEF Feed!vars
  <2>6. CASE /\ Len(queue[c]) >= Cap /\ queue' = queue
             /\ skipped' = skipped \cup {<<n, c>>}
    <3>1. \A m \in LineNumbers : \A d \in Clients :
            d \in Owed'[m] <=> d \in [Owed EXCEPT ![n] = @ \ {c}][m]
      BY <2>2, <2>4, <2>6, OwedAre, OwedType
    <3>2. Owed' = [Owed EXCEPT ![n] = @ \ {c}]
      <4>1. [Owed EXCEPT ![n] = @ \ {c}] \in [LineNumbers -> SUBSET Clients]
        BY OwedType
      <4> QED
        BY <3>1, <4>1, OwedEqual
    <3>3. Cardinality(Feed!OwedTo(c) \ {n}) >= Cap
      <4>1. Distinct(queue[c]) /\ queue[c] \in Seq(LineNumbers)
        BY <1>0 DEF Channels, TypeOK
      <4>2. /\ IsFiniteSet(Elements(queue[c]))
            /\ Cardinality(Elements(queue[c])) = Len(queue[c])
        BY <4>1, DistinctLength
      <4>3. Elements(queue[c]) \subseteq Feed!OwedTo(c) \ {n}
        BY <2>2, <4>1, OwedAre DEF Feed!OwedTo, Elements
      <4>4. IsFiniteSet(Feed!OwedTo(c) \ {n})
        <5>1. IsFiniteSet(LineNumbers)
          BY EventsAssumption, FS_Interval DEF LineNumbers
        <5>2. Feed!OwedTo(c) \ {n} \in SUBSET LineNumbers
          BY DEF Feed!OwedTo
        <5> QED
          BY <5>1, <5>2, FS_Subset
      <4>5. /\ Cardinality(Elements(queue[c])) <= Cardinality(Feed!OwedTo(c) \ {n})
            /\ Cardinality(Feed!OwedTo(c) \ {n}) \in Nat
        BY <4>3, <4>4, FS_Subset, FS_CardinalityType
      <4> QED
        BY <2>6, <4>1, <4>2, <4>5, EventsAssumption
    <3>4. Feed!Lose(n, c)
      <4>1. Feed!Cardinality(Feed!OwedTo(c) \ {n}) = Cardinality(Feed!OwedTo(c) \ {n})
        BY DEF Feed!Cardinality, Cardinality
      <4> QED
        BY <2>1, <2>2, <2>3, <2>6, <3>2, <3>3, <4>1 DEF Feed!Lose
    <3> QED
      BY <2>2, <3>4 DEF Feed!Next
  <2> QED
    BY <1>5, <2>5, <2>6, OfferMoves
<1>6. ASSUME NEW c \in Clients, Connect(c) \/ Leave(c) \/ Write(c) \/ Close(c)
      PROVE  Announced' = Announced /\ Offering' = Offering /\ todo' = todo
  BY <1>6, LinesStay DEF Connect, Leave, Write, Close
<1>7. ASSUME NEW c \in Clients, Connect(c) PROVE Feed!Next
  <2>1. /\ c \notin Connected /\ Connected' = Connected \cup {c}
        /\ queue' = queue /\ written' = written /\ skipped' = skipped
        /\ queue[c] = <<>> /\ Offering = {}
    BY <1>0, <1>7 DEF Connect, Connected, NoReaders, Channels, TypeOK
  <2>2. \A m \in LineNumbers : \A d \in Clients : d \in Owed'[m] <=> d \in Owed[m]
    <3>1. \A m \in LineNumbers : \A d \in Clients :
            d \in Owed'[m] <=> /\ d \in Connected \cup {c}
                               /\ m \in Elements(queue[d])
      BY <1>6, <1>7, <2>1 DEF Owed, Connected
    <3> QED
      BY <2>1, <3>1, OwedAre, NoElements
  <2>3. Owed' = Owed
    BY <2>2, OwedType, OwedEqual
  <2>4. Feed!Join(c)
    BY <1>6, <1>7, <2>1, <2>3 DEF Feed!Join
  <2> QED
    BY <2>4 DEF Feed!Next
<1>8. ASSUME NEW c \in Clients, Leave(c) PROVE Feed!Next
  <2>1. /\ c \in Connected /\ Connected' = Connected \ {c}
        /\ queue' = queue /\ written' = written /\ skipped' = skipped
    BY <1>0, <1>8 DEF Leave, Connected, TypeOK
  <2>2. Owed' = [m \in LineNumbers |-> Owed[m] \ {c}]
    <3>1. \A m \in LineNumbers : \A d \in Clients :
            d \in Owed'[m] <=> /\ d \in Connected \ {c}
                               /\ \/ m \in Offering /\ d \in todo[m]
                                  \/ m \in Elements(queue[d])
      BY <1>6, <1>8, <2>1 DEF Owed, Connected
    <3>2. [m \in LineNumbers |-> Owed[m] \ {c}] \in [LineNumbers -> SUBSET Clients]
      BY OwedType
    <3>3. \A m \in LineNumbers : \A d \in Clients :
            d \in Owed'[m] <=> d \in [k \in LineNumbers |-> Owed[k] \ {c}][m]
      BY <3>1, OwedAre
    <3> QED
      BY <3>2, <3>3, OwedEqual
  <2>3. Feed!Leave(c)
    BY <1>6, <1>8, <2>1, <2>2 DEF Feed!Leave
  <2> QED
    BY <2>3 DEF Feed!Next
<1>9. ASSUME NEW c \in Clients, Write(c) PROVE Feed!Next
  <2> DEFINE n == Head(queue[c])
  <2>1. queue[c] \in Seq(LineNumbers) /\ queue[c] # <<>> /\ Distinct(queue[c])
    BY <1>0, <1>9 DEF Write, Channels, TypeOK
  <2>2. /\ n \in LineNumbers /\ n \notin Elements(Tail(queue[c]))
        /\ Elements(queue[c]) = Elements(Tail(queue[c])) \cup {n}
    BY <2>1, TailElements
  <2>3. /\ c \in Connected /\ client' = client /\ skipped' = skipped
        /\ written' = [written EXCEPT ![c] = @ \cup {n}]
        /\ queue'[c] = Tail(queue[c])
        /\ \A d \in Clients \ {c} : queue'[d] = queue[d]
    BY <1>0, <1>9 DEF Write, Connected, TypeOK
  <2>4. Connected' = Connected /\ c \in Owed[n]
    BY <2>2, <2>3, OwedAre DEF Connected
  <2>5. n \in Offering => c \notin todo[n]
    BY <2>2 DEF Channels
  <2> HIDE DEF n
  <2>6. Owed' = [Owed EXCEPT ![n] = @ \ {c}]
    <3>1. \A m \in LineNumbers : \A d \in Clients :
            d \in Owed'[m] <=> /\ d \in Connected
                               /\ \/ m \in Offering /\ d \in todo[m]
                                  \/ m \in Elements(queue'[d])
      BY <1>6, <1>9, <2>4 DEF Owed, Connected
    <3>2. [Owed EXCEPT ![n] = @ \ {c}] \in [LineNumbers -> SUBSET Clients]
      BY OwedType
    <3>3. \A m \in LineNumbers : \A d \in Clients :
            d \in Owed'[m] <=> d \in [Owed EXCEPT ![n] = @ \ {c}][m]
      BY <2>2, <2>3, <2>5, <3>1, OwedAre, OwedType
    <3> QED
      BY <3>2, <3>3, OwedEqual
  <2>7. Feed!Deliver(n, c)
    BY <1>6, <1>9, <2>3, <2>4, <2>6 DEF Feed!Deliver
  <2> QED
    BY <2>2, <2>7 DEF Feed!Next
<1>10. ASSUME NEW c \in Clients, Close(c) PROVE UNCHANGED Feed!vars
  <2>1. /\ c \notin Connected /\ Connected' = Connected
        /\ written' = written /\ skipped' = skipped
        /\ \A d \in Connected : queue'[d] = queue[d]
    BY <1>0, <1>10 DEF Close, Connected, TypeOK
  <2>2. Owed' = Owed
    BY <1>6, <1>10, <2>1 DEF Owed
  <2> QED
    BY <1>6, <1>10, <2>1, <2>2 DEF Feed!vars
<1>11. CASE UNCHANGED vars
  BY <1>1, <1>11, LinesStay DEF vars, clientVars
<1> QED
  BY <1>2, <1>3, <1>4, <1>5, <1>7, <1>8, <1>9, <1>10, <1>11, TextStays
     DEF Next, Task

-----------------------------------------------------------------------------
(* The theorems *)

\* The invariant that the others follow from.
THEOREM EventInvariant == Spec => []IInv
<1>1. Init => IInv
  BY TypeInit, InventoryInit DEF IInv, Init, NeverSentOnClosed, Offering, Read
<1>2. IInv /\ [Next]_vars => IInv'
  BY TypeStep, InventoryStep, SentStep DEF IInv
<1> QED
  BY <1>1, <1>2, PTL DEF Spec

\* Every variable has its type; among it, no channel holds more than Cap.
THEOREM TypeCorrect == Spec => []TypeOK
<1>1. IInv => TypeOK
  BY DEF IInv
<1> QED
  BY <1>1, EventInvariant, PTL

\* No event is sent on a closed channel, for any number of broadcasts and of
\* clients that come and go (http_handler.go:288-293, 334-339).
THEOREM NoSendOnClosed == Spec => []NeverSentOnClosed
<1>1. IInv => NeverSentOnClosed
  BY DEF IInv
<1> QED
  BY <1>1, EventInvariant, PTL

\* Every delta that is collected ends up in exactly one message or is still
\* waiting for one, in whatever order the goroutines run (manager.go:144-165).
THEOREM DeltasCutOnce == Spec => []DeltaInOnePlace
<1>1. ASSUME IInv PROVE DeltaInOnePlace
  <2> SUFFICES ASSUME NEW n \in Read, Is(n, "delta")
      PROVE LET holders == {m \in Read : n \in Elements(text[m])}
                collected == {i \in Indexes : n \in Elements(acc[i])}
            IN /\ task[n] = "new" => holders = {} /\ collected = {}
               /\ task[n] = "done" => Cardinality(holders) + Cardinality(collected) = 1
    BY DEF DeltaInOnePlace
  <2> DEFINE holders == {m \in Read : n \in Elements(text[m])}
             collected == {i \in Indexes : n \in Elements(acc[i])}
  <2>1. Read \subseteq LineNumbers
    BY <1>1, ReadNumbers DEF IInv
  <2>2. task[n] = "new" => holders = {} /\ collected = {}
    BY <1>1, <2>1 DEF IInv, Inventory, OnlyDoneDeltas
  <2>3. ASSUME task[n] = "done" PROVE Cardinality(holders) + Cardinality(collected) = 1
    <3>1. Cardinality({}) = 0
      BY FS_EmptySet
    <3>2. lines[n].index \in Indexes
      BY <1>1, LineIndex DEF IInv
    <3>3. CASE n \in Elements(acc[lines[n].index])
      <4>1. collected = {lines[n].index} /\ holders = {}
        BY <1>1, <2>1, <3>2, <3>3 DEF IInv, Inventory, OnlyDoneDeltas, Apart
      <4>2. Cardinality(collected) = 1
        BY <4>1, FS_Singleton
      <4> QED
        BY <3>1, <4>1, <4>2
    <3>4. CASE n \notin Elements(acc[lines[n].index])
      <4>1. PICK m \in LineNumbers : n \in Elements(text[m])
        BY <1>1, <2>3, <3>4 DEF IInv, Inventory, Placed
      <4>2. holders = {m} /\ collected = {}
        BY <1>1, <2>1, <3>4, <4>1 DEF IInv, Inventory, OnlyDoneDeltas, Apart
      <4>3. Cardinality(holders) = 1
        BY <4>2, FS_Singleton
      <4> QED
        BY <3>1, <4>2, <4>3
    <3> QED
      BY <3>3, <3>4
  <2> QED
    BY <2>2, <2>3
<1> QED
  BY <1>1, EventInvariant, PTL

\* /events keeps its promise: for any number of lines, clients and goroutines in
\* any order, a client gets what is broadcast while it is connected, each event
\* once, except those that find as many others still waiting for it as its
\* channel holds (http_handler.go:288-316,334-339, manager.go:131-178).
THEOREM EventsImplementFeed == Spec => ImplementsEventFeed
<1>1. Init => IInv /\ Channels /\ Feed!Init
  <2> SUFFICES ASSUME Init PROVE IInv /\ Channels /\ Feed!Init
    OBVIOUS
  <2>1. IInv
    BY TypeInit, InventoryInit DEF IInv, Init, NeverSentOnClosed, Offering, Read
  <2>2. Read = {} /\ Connected = {}
    BY DEF Init, Read, Connected
  <2>3. Offering = {} /\ Announced = {}
    BY <2>2 DEF Offering, Announced
  <2>4. \A c \in Clients : queue[c] = <<>>
    BY DEF Init
  <2>5. Channels
    BY <2>3, <2>4, NoElements DEF Channels, Distinct
  <2>6. Feed!Init
    BY <2>2, <2>3 DEF Init, Feed!Init, Owed
  <2> QED
    BY <2>1, <2>5, <2>6
<1>2. IInv /\ [Next]_vars => IInv'
  BY TypeStep, InventoryStep, SentStep DEF IInv
<1>3. IInv /\ Channels /\ [Next]_vars => Channels'
  BY ChannelsStep
<1>4. IInv /\ Channels /\ Channels' /\ [Next]_vars => [Feed!Next]_(Feed!vars)
  BY FeedStep
<1> QED
  BY <1>1, <1>2, <1>3, <1>4, PTL DEF Spec, ImplementsEventFeed, Feed!Spec
=============================================================================
