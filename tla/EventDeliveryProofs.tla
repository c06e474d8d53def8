-------------------------- MODULE EventDeliveryProofs --------------------------
(***************************************************************************)
(* Proofs that the consumer delivers every visible row exactly once and in *)
(* order, and that it implements RowDelivery.                              *)
(*                                                                         *)
(* The heart of it is what a stream may hold.  A reconnect replays rows    *)
(* the live subscription sends again, so a stream is not sorted and holds  *)
(* duplicates; but no row is ahead of its predecessor unless the cursor    *)
(* has passed that predecessor, and, while the connection is alive, every  *)
(* row the cursor has not reached is on it.                                *)
(***************************************************************************)
EXTENDS EventConsumerProofs

-----------------------------------------------------------------------------
(* Streams *)

\* Every item is a row the log has, or turn_ended.
Within(w, top) == \A i \in 1..Len(w) : w[i] <= top

\* A row that is not the next one comes after its predecessor.
NoGap(w, last) ==
    \A i \in 1..Len(w) :
        w[i] > last + 1 => \E j \in 1..(i - 1) : w[j] = w[i] - 1

\* Every row the cursor has not reached is on its way.
Complete(w, last, top) ==
    \A n \in (last + 1)..top : \E i \in 1..Len(w) : w[i] = n

\* A fresh connection: rows last+1..top, then d+1..top again.
LEMMA ReplayIsGood ==
    ASSUME NEW last \in Nat, NEW top \in Nat, NEW d \in last..top
    PROVE  LET r == Rows(last, top) \o Rows(d, top) IN
           Within(r, top) /\ NoGap(r, last) /\ Complete(r, last, top)
<1> DEFINE r == Rows(last, top) \o Rows(d, top)
           k == top - last
<1>1. /\ Len(r) = k + (top - d)
      /\ \A i \in 1..Len(r) : r[i] = IF i <= k THEN last + i ELSE d + (i - k)
  BY ReplaySeq
<1>2. d \in Nat /\ d <= top /\ last <= d /\ k \in Nat /\ Len(r) \in Nat
  BY <1>1
<1> HIDE DEF r
<1>3. Within(r, top)
  BY <1>1, <1>2 DEF Within
<1>4. ASSUME NEW i \in 1..Len(r), r[i] > last + 1
      PROVE  \E j \in 1..(i - 1) : r[j] = r[i] - 1
  <2>1. CASE i <= k
    <3>1. i - 1 \in 1..(i - 1) /\ r[i - 1] = r[i] - 1
      BY <1>1, <1>2, <1>4, <2>1
    <3> QED
      BY <3>1
  <2>2. CASE i > k
    <3> DEFINE j == r[i] - 1 - last
    <3>1. j \in 1..k
      BY <1>1, <1>2, <1>4, <2>2
    <3>2. j \in 1..(i - 1) /\ r[j] = r[i] - 1
      BY <1>1, <1>2, <2>2, <3>1
    <3> QED
      BY <3>2
  <2> QED
    BY <1>2, <2>1, <2>2
<1>5. ASSUME NEW n \in (last + 1)..top PROVE \E i \in 1..Len(r) : r[i] = n
  <2>1. n - last \in 1..Len(r) /\ r[n - last] = n
    BY <1>1, <1>2
  <2> QED
    BY <2>1
<1> QED
  BY <1>3, <1>4, <1>5 DEF NoGap, Complete, r

\* Forwarding the next row to a live stream.
LEMMA ForwardRowIsGood ==
    ASSUME NEW w \in Seq(Nat), NEW last \in Nat, NEW top \in Nat, last <= top,
           Within(w, top), NoGap(w, last), Complete(w, last, top)
    PROVE  LET v == Append(w, top + 1) IN
           Within(v, top + 1) /\ NoGap(v, last) /\ Complete(v, last, top + 1)
<1> DEFINE v == Append(w, top + 1)
<1>1. /\ Len(w) \in Nat
      /\ Len(v) = Len(w) + 1
      /\ \A i \in 1..Len(w) : v[i] = w[i] /\ w[i] \in Nat
      /\ v[Len(w) + 1] = top + 1
  OBVIOUS
<1> HIDE DEF v
<1>2. Within(v, top + 1)
  BY <1>1 DEF Within
<1>3. ASSUME NEW i \in 1..Len(v), v[i] > last + 1
      PROVE  \E j \in 1..(i - 1) : v[j] = v[i] - 1
  <2>1. CASE i <= Len(w)
    <3>1. PICK j \in 1..(i - 1) : w[j] = w[i] - 1
      BY <1>1, <1>3, <2>1 DEF NoGap
    <3>2. j \in 1..Len(w) /\ v[j] = w[j] /\ v[i] = w[i]
      BY <1>1, <2>1
    <3> QED
      BY <3>1, <3>2
  <2>2. CASE i = Len(w) + 1
    <3>1. top \in (last + 1)..top
      BY <1>1, <1>3, <2>2
    <3>2. PICK j \in 1..Len(w) : w[j] = top
      BY <3>1 DEF Complete
    <3> QED
      BY <1>1, <2>2, <3>2
  <2> QED
    BY <1>1, <2>1, <2>2
<1>4. ASSUME NEW n \in (last + 1)..(top + 1) PROVE \E i \in 1..Len(v) : v[i] = n
  <2>1. CASE n = top + 1
    BY <1>1, <2>1
  <2>2. CASE n \in (last + 1)..top
    <3>1. PICK i \in 1..Len(w) : w[i] = n
      BY <2>2 DEF Complete
    <3> QED
      BY <1>1, <3>1
  <2> QED
    BY <2>1, <2>2
<1> QED
  BY <1>2, <1>3, <1>4 DEF NoGap, Complete, v

\* Forwarding turn_ended.
LEMMA ForwardTurnEndedIsGood ==
    ASSUME NEW w \in Seq(Nat), NEW last \in Nat, NEW top \in Nat,
           Within(w, top), NoGap(w, last)
    PROVE  LET v == Append(w, TurnEnded) IN
           /\ Within(v, top) /\ NoGap(v, last)
           /\ Complete(w, last, top) => Complete(v, last, top)
<1> DEFINE v == Append(w, TurnEnded)
<1>1. /\ Len(w) \in Nat
      /\ Len(v) = Len(w) + 1
      /\ \A i \in 1..Len(w) : v[i] = w[i] /\ w[i] \in Nat
      /\ v[Len(w) + 1] = 0
  BY DEF TurnEnded
<1> HIDE DEF v
<1>2. Within(v, top)
  BY <1>1 DEF Within
<1>3. ASSUME NEW i \in 1..Len(v), v[i] > last + 1
      PROVE  \E j \in 1..(i - 1) : v[j] = v[i] - 1
  <2>1. i <= Len(w)
    BY <1>1, <1>3
  <2>2. PICK j \in 1..(i - 1) : w[j] = w[i] - 1
    BY <1>1, <1>3, <2>1 DEF NoGap
  <2>3. j \in 1..Len(w) /\ v[j] = w[j] /\ v[i] = w[i]
    BY <1>1, <2>1
  <2> QED
    BY <2>2, <2>3
<1>4. ASSUME Complete(w, last, top), NEW n \in (last + 1)..top
      PROVE  \E i \in 1..Len(v) : v[i] = n
  <2>1. PICK i \in 1..Len(w) : w[i] = n
    BY <1>4 DEF Complete
  <2>2. i \in 1..Len(v) /\ v[i] = n
    BY <1>1, <2>1
  <2> QED
    BY <2>2
<1> QED
  BY <1>2, <1>3, <1>4 DEF NoGap, Complete, v

\* Reading an item at or below the cursor, or turn_ended.
LEMMA DropHeadIsGood ==
    ASSUME NEW w \in Seq(Nat), w # <<>>, NEW last \in Nat, NEW top \in Nat,
           Within(w, top), NoGap(w, last), Head(w) <= last
    PROVE  /\ Within(Tail(w), top) /\ NoGap(Tail(w), last)
           /\ Complete(w, last, top) => Complete(Tail(w), last, top)
<1> DEFINE v == Tail(w)
<1>1. /\ Len(w) \in Nat /\ Len(w) >= 1
      /\ Len(v) = Len(w) - 1
      /\ \A i \in 1..Len(v) : v[i] = w[i + 1]
      /\ \A i \in 1..Len(w) : w[i] \in Nat
      /\ w[1] = Head(w)
  BY HeadTailProperties, LenProperties, EmptySeq, ElementOfSeq
<1> HIDE DEF v
<1>2. Within(v, top)
  <2>1. ASSUME NEW i \in 1..Len(v) PROVE v[i] <= top
    <3>1. i + 1 \in 1..Len(w) /\ v[i] = w[i + 1]
      BY <1>1
    <3> QED
      BY <3>1 DEF Within
  <2> QED
    BY <2>1 DEF Within
<1>3. ASSUME NEW i \in 1..Len(v), v[i] > last + 1
      PROVE  \E j \in 1..(i - 1) : v[j] = v[i] - 1
  <2>1. i + 1 \in 1..Len(w) /\ w[i + 1] > last + 1
    BY <1>1, <1>3
  <2>2. PICK j \in 1..i : w[j] = w[i + 1] - 1
    BY <2>1 DEF NoGap
  <2>3. j # 1
    BY <1>1, <2>1, <2>2
  <2>4. j - 1 \in 1..(i - 1) /\ j - 1 \in 1..Len(v) /\ (j - 1) + 1 = j
    BY <1>1, <2>3
  <2>5. v[j - 1] = w[j] /\ v[i] = w[i + 1]
    BY <1>1, <2>4
  <2> QED
    BY <2>2, <2>4, <2>5
<1>4. ASSUME Complete(w, last, top), NEW n \in (last + 1)..top
      PROVE  \E i \in 1..Len(v) : v[i] = n
  <2>1. PICK i \in 1..Len(w) : w[i] = n
    BY <1>4 DEF Complete
  <2>2. i # 1
    BY <1>1, <2>1
  <2>3. i - 1 \in 1..Len(v) /\ v[i - 1] = n
    BY <1>1, <2>1, <2>2
  <2> QED
    BY <2>3
<1> QED
  BY <1>2, <1>3, <1>4 DEF NoGap, Complete, v

\* Reading an item above the cursor: it is the next row, and moves the cursor.
LEMMA TakeHeadIsGood ==
    ASSUME NEW w \in Seq(Nat), w # <<>>, NEW last \in Nat, NEW top \in Nat,
           Within(w, top), NoGap(w, last), Head(w) > last
    PROVE  /\ Head(w) = last + 1 /\ last + 1 <= top
           /\ Within(Tail(w), top) /\ NoGap(Tail(w), last + 1)
           /\ Complete(w, last, top) => Complete(Tail(w), last + 1, top)
<1>1. /\ Len(w) \in Nat /\ Len(w) >= 1
      /\ Head(w) = w[1] /\ w[1] \in Nat
  BY HeadTailProperties, LenProperties, EmptySeq, ElementOfSeq
<1>2. Head(w) = last + 1
  BY <1>1 DEF NoGap
<1>3. last + 1 <= top
  BY <1>1, <1>2 DEF Within
<1>4. NoGap(w, last + 1)
  <2>1. SUFFICES ASSUME NEW i \in 1..Len(w), w[i] > (last + 1) + 1
                 PROVE  \E j \in 1..(i - 1) : w[j] = w[i] - 1
    BY DEF NoGap
  <2>2. w[i] \in Nat
    BY ElementOfSeq
  <2>3. w[i] > last + 1
    BY <2>1, <2>2
  <2> QED
    BY <2>3 DEF NoGap
<1>5. Complete(w, last, top) => Complete(w, last + 1, top)
  BY DEF Complete
<1> QED
  BY <1>2, <1>3, <1>4, <1>5, DropHeadIsGood

-----------------------------------------------------------------------------
(* The inductive invariant of an object *)

WireInv(o) ==
    pc[o] \in Connected =>
        LET top == Len(log[owner[o]]) IN
        /\ Within(stream[o], top)
        /\ NoGap(stream[o], lastSeq[o])
        /\ ~stalled[o] => Complete(stream[o], lastSeq[o], top)

CursorInv(o) ==
    /\ pc[o] \in {"unused", "seeding"} =>
         lastSeq[o] = 0 /\ start[o] = 0 /\ emitted[o] = {}
    /\ start[o] <= lastSeq[o]
    /\ owner[o] # NoSession => lastSeq[o] <= Len(log[owner[o]])
    /\ pc[o] = "handling" => lastSeq[o] > start[o]
    /\ pending[o] \in RowEvents =>
         /\ lastSeq[o] > start[o]
         /\ Visible(owner[o], lastSeq[o])

OnceInv(o) == owner[o] # NoSession => emitted[o] = Seen(o) \ Due(o)

ObjInv(o) == WireInv(o) /\ CursorInv(o) /\ OnceInv(o)

DeliveryInv == \A o \in States : ObjInv(o)

\* An object nothing happens to.
LEMMA SameObject ==
    ASSUME NEW p \in States, ObjInv(p), UNCHANGED log,
           UNCHANGED <<owner[p], lastSeq[p], start[p], emitted[p], pending[p],
                       pc[p], stream[p], stalled[p]>>
    PROVE  ObjInv(p)'
BY DEF ObjInv, WireInv, CursorInv, OnceInv, Seen, Due, Visible

\* An object whose reader moves on without a connection or a row in hand.
LEMMA OfflineObject ==
    ASSUME NEW p \in States, ObjInv(p), UNCHANGED log,
           UNCHANGED <<owner[p], lastSeq[p], start[p], emitted[p], pending[p]>>,
           pc[p] \notin {"unused", "seeding", "handling"},
           pc'[p] \in {"loop", "dialing", "backoff", "done"}
    PROVE  ObjInv(p)'
BY DEF ObjInv, WireInv, CursorInv, OnceInv, Seen, Due, Visible, Connected

\* Writing a row to the log of s.
LEMMA AppendRowObj ==
    ASSUME TypeInv, NEW s \in Sessions, NEW kind \in RowKinds, AppendRow(s, kind),
           NEW p \in States, ObjInv(p)
    PROVE  ObjInv(p)'
<1> USE NullAssumption
<1>1. /\ UNCHANGED <<owner, lastSeq, start, emitted, pending, pc, stalled>>
      /\ log' = [log EXCEPT ![s] = Append(log[s], kind)]
      /\ stream' = [o \in States |-> IF Subscribed(o, s)
                                       THEN Append(stream[o], Len(log[s]) + 1)
                                       ELSE stream[o]]
  BY DEF AppendRow, Forward, objVars, readVars, histVars
<1>2. /\ log \in [Sessions -> Seq(RowKinds)] /\ log[s] \in Seq(RowKinds)
      /\ stream[p] \in Seq(Nat) /\ lastSeq[p] \in Nat /\ start[p] \in Nat
      /\ owner[p] \in Sessions \cup {NoSession}
      /\ pc[p] = "unused" <=> owner[p] = NoSession
      /\ pending[p] = NoEvent <=> pc[p] # "emitting"
  BY DEF TypeInv, TypeOK, Ownership
<1>3. /\ Len(log[s]) \in Nat
      /\ Len(Append(log[s], kind)) = Len(log[s]) + 1
      /\ \A n \in 1..Len(log[s]) : Append(log[s], kind)[n] = log[s][n]
  BY <1>2
<1>4. CASE owner[p] = NoSession
  <2>1. pc[p] = "unused" /\ pending[p] = NoEvent
    BY <1>2, <1>4
  <2> QED
    BY <1>1, <1>4, <2>1
    DEF ObjInv, WireInv, CursorInv, OnceInv, Connected, RowEvents, NoEvent
<1>5. CASE owner[p] \in Sessions \ {s}
  <2>1. log'[owner[p]] = log[owner[p]] /\ stream'[p] = stream[p]
    BY <1>1, <1>2, <1>5 DEF Subscribed
  <2> QED
    BY <1>1, <1>2, <2>1
    DEF ObjInv, WireInv, CursorInv, OnceInv, Seen, Due, Visible
<1>6. CASE owner[p] = s
  <2>1. log'[s] = Append(log[s], kind)
    BY <1>1, <1>2
  <2>2. lastSeq[p] <= Len(log[s])
    BY <1>6 DEF ObjInv, CursorInv
  <2>3. \A n \in (start[p] + 1)..lastSeq[p] : Visible(s, n)' <=> Visible(s, n)
    BY <1>2, <1>3, <2>1, <2>2 DEF Visible
  <2>4. CursorInv(p)'
    <3>1. lastSeq[p] <= Len(log'[s])
      BY <1>2, <1>3, <2>1, <2>2
    <3>2. pending[p] \in RowEvents => Visible(s, lastSeq[p])'
      <4>1. pending[p] \in RowEvents =>
              /\ lastSeq[p] \in (start[p] + 1)..lastSeq[p]
              /\ Visible(s, lastSeq[p])
        BY <1>2, <1>6 DEF ObjInv, CursorInv
      <4>2. lastSeq'[p] = lastSeq[p]
        BY <1>1
      <4> QED
        BY <2>3, <4>1, <4>2 DEF Visible
    <3> QED
      BY <1>1, <1>6, <3>1, <3>2 DEF ObjInv, CursorInv
  <2>5. OnceInv(p)'
    BY <1>1, <1>6, <2>3 DEF ObjInv, OnceInv, Seen, Due
  <2>6. CASE Subscribed(p, s)
    <3>1. stream'[p] = Append(stream[p], Len(log[s]) + 1)
      BY <1>1, <2>6
    <3>2. WireInv(p)'
      BY <1>1, <1>2, <1>3, <1>6, <2>1, <2>2, <2>6, <3>1, ForwardRowIsGood
      DEF ObjInv, WireInv, Subscribed
    <3> QED
      BY <2>4, <2>5, <3>2 DEF ObjInv
  <2>7. CASE ~Subscribed(p, s)
    <3>1. stream'[p] = stream[p] /\ (pc[p] \in Connected => stalled[p])
      BY <1>1, <1>6, <2>7 DEF Subscribed
    <3>2. Within(stream[p], Len(log[s])) => Within(stream[p], Len(log[s]) + 1)
      BY <1>2, <1>3, ElementOfSeq DEF Within
    <3>3. WireInv(p)'
      BY <1>1, <1>3, <1>6, <2>1, <3>1, <3>2 DEF ObjInv, WireInv
    <3> QED
      BY <2>4, <2>5, <3>3 DEF ObjInv
  <2> QED
    BY <2>6, <2>7
<1> QED
  BY <1>2, <1>4, <1>5, <1>6

\* Forwarding turn_ended to the streams of s.
LEMMA TurnEndsObj ==
    ASSUME TypeInv, NEW s \in Sessions, TurnEnds(s), NEW p \in States, ObjInv(p)
    PROVE  ObjInv(p)'
<1>1. /\ UNCHANGED <<log, owner, lastSeq, start, emitted, pending, pc, stalled>>
      /\ stream' = [o \in States |-> IF Subscribed(o, s)
                                       THEN Append(stream[o], TurnEnded)
                                       ELSE stream[o]]
  BY DEF TurnEnds, Forward, objVars, readVars, histVars
<1>2. CASE Subscribed(p, s)
  <2>1. stream'[p] = Append(stream[p], TurnEnded)
    BY <1>1, <1>2
  <2>2. stream[p] \in Seq(Nat) /\ lastSeq[p] \in Nat /\ Len(log[owner[p]]) \in Nat
    BY <1>2, LenProperties DEF TypeInv, TypeOK, Subscribed
  <2>3. WireInv(p)'
    BY <1>1, <2>1, <2>2, ForwardTurnEndedIsGood DEF ObjInv, WireInv
  <2> QED
    BY <1>1, <2>3 DEF ObjInv, CursorInv, OnceInv, Seen, Due, Visible
<1>3. CASE ~Subscribed(p, s)
  BY <1>1, <1>3, SameObject
<1> QED
  BY <1>2, <1>3

\* Track allocates an untouched object.
LEMMA TrackObj ==
    ASSUME TypeInv, NEW s \in Sessions, NEW o \in States, Track(s, o),
           NEW p \in States, ObjInv(p)
    PROVE  ObjInv(p)'
<1>1. /\ UNCHANGED <<log, lastSeq, start, emitted, pending, stream, stalled>>
      /\ pc[o] = "unused"
      /\ owner' = [owner EXCEPT ![o] = s]
      /\ pc' = [pc EXCEPT ![o] = "seeding"]
  BY DEF Track, forgeVars, connVars, histVars
<1>2. CASE p # o
  <2>1. owner'[p] = owner[p] /\ pc'[p] = pc[p]
    BY <1>1, <1>2 DEF TypeInv, TypeOK
  <2> QED
    BY <1>1, <2>1, SameObject
<1>3. CASE p = o
  <2>1. /\ owner'[p] = s /\ pc'[p] = "seeding"
        /\ pending[p] = NoEvent /\ Len(log[s]) \in Nat
        /\ lastSeq[p] = 0 /\ start[p] = 0 /\ emitted[p] = {}
    BY <1>1, <1>3 DEF TypeInv, TypeOK, ObjInv, CursorInv
  <2> QED
    BY <1>1, <2>1
    DEF ObjInv, WireInv, CursorInv, OnceInv, Seen, Due, Connected, RowEvents, NoEvent
<1> QED
  BY <1>2, <1>3

\* Seeding places the cursor, with nothing delivered yet.
LEMMA SeedObj ==
    ASSUME TypeInv, NEW o \in States, Seed(o), NEW p \in States, ObjInv(p)
    PROVE  ObjInv(p)'
<1>1. PICK mark \in {0, Len(log[owner[o]])} :
        /\ lastSeq' = [lastSeq EXCEPT ![o] = mark]
        /\ start' = [start EXCEPT ![o] = mark]
  BY DEF Seed, HighWaterMarks
<1>2. /\ UNCHANGED <<log, owner, emitted, pending, stream, stalled>>
      /\ pc[o] = "seeding"
      /\ pc' = [pc EXCEPT ![o] = "loop"]
  BY DEF Seed, forgeVars, connVars
<1>3. CASE p # o
  <2>1. lastSeq'[p] = lastSeq[p] /\ start'[p] = start[p] /\ pc'[p] = pc[p]
    BY <1>1, <1>2, <1>3 DEF TypeInv, TypeOK
  <2> QED
    BY <1>2, <2>1, SameObject
<1>4. CASE p = o
  <2>1. owner[o] \in Sessions /\ Len(log[owner[o]]) \in Nat
    BY <1>2 DEF TypeInv, TypeOK, Ownership
  <2>2. /\ lastSeq'[p] = mark /\ start'[p] = mark /\ pc'[p] = "loop"
        /\ pending[p] = NoEvent /\ emitted[p] = {}
        /\ mark \in Nat /\ mark <= Len(log[owner[p]])
    BY <1>1, <1>2, <1>4, <2>1 DEF TypeInv, TypeOK, ObjInv, CursorInv
  <2>3. Seen(p)' = {}
    BY <2>2 DEF Seen
  <2> QED
    BY <1>2, <2>2, <2>3
    DEF ObjInv, WireInv, CursorInv, OnceInv, Connected, RowEvents, NoEvent
<1> QED
  BY <1>3, <1>4

\* Connecting: the stream starts with the replay from the cursor.
LEMMA ConnectObj ==
    ASSUME TypeInv, NEW o \in States, Connect(o), NEW p \in States, ObjInv(p)
    PROVE  ObjInv(p)'
<1> DEFINE top == Len(log[owner[o]])
<1>1. PICK d \in lastSeq[o]..top :
        stream' = [stream EXCEPT ![o] = Rows(lastSeq[o], top) \o Rows(d, top)]
  BY DEF Connect, Replay
<1>2. /\ UNCHANGED <<log, owner, lastSeq, start, emitted, pending, stalled>>
      /\ pc[o] = "dialing"
      /\ pc' = [pc EXCEPT ![o] = "reading"]
  BY DEF Connect, forgeVars, objVars, histVars
<1>3. CASE p # o
  <2>1. stream'[p] = stream[p] /\ pc'[p] = pc[p]
    BY <1>1, <1>2, <1>3 DEF TypeInv, TypeOK
  <2> QED
    BY <1>2, <2>1, SameObject
<1>4. CASE p = o
  <2>1. owner[o] \in Sessions /\ top \in Nat /\ lastSeq[o] \in Nat
    BY <1>2, LenProperties DEF TypeInv, TypeOK, Ownership
  <2>2. /\ stream'[p] = Rows(lastSeq[o], top) \o Rows(d, top)
        /\ pc'[p] = "reading"
    BY <1>1, <1>2, <1>4 DEF TypeInv, TypeOK
  <2>3. WireInv(p)'
    BY <1>2, <1>4, <2>1, <2>2, ReplayIsGood DEF WireInv
  <2>4. CursorInv(p)' /\ OnceInv(p)'
    BY <1>2, <1>4, <2>2 DEF ObjInv, CursorInv, OnceInv, Seen, Due, Visible
  <2> QED
    BY <2>3, <2>4 DEF ObjInv
<1> QED
  BY <1>3, <1>4

\* The select statements, failed dials, cancellations and broken streams.
LEMMA OfflineObj ==
    ASSUME TypeInv, NEW o \in States,
           \/ LoopTop(o) \/ DialFails(o) \/ Cancelled(o) \/ StreamBreaks(o)
           \/ Backoff(o),
           NEW p \in States, ObjInv(p)
    PROVE  ObjInv(p)'
<1> USE DEF forgeVars, objVars, connVars, histVars
<1>1. /\ UNCHANGED <<log, owner, lastSeq, start, emitted, pending>>
      /\ pc[o] \in {"loop", "dialing", "reading", "backoff"}
      /\ \E l \in {"loop", "dialing", "backoff", "done"} :
           pc' = [pc EXCEPT ![o] = l]
      /\ \/ UNCHANGED <<stream, stalled>>
         \/ /\ stream' = [stream EXCEPT ![o] = <<>>]
            /\ stalled' = [stalled EXCEPT ![o] = FALSE]
  <2>1. CASE LoopTop(o)
    BY <2>1, Zenon DEF LoopTop
  <2>2. CASE DialFails(o)
    BY <2>2 DEF DialFails
  <2>3. CASE Cancelled(o) \/ StreamBreaks(o)
    BY <2>3 DEF Cancelled, StreamBreaks, Hangup
  <2>4. CASE Backoff(o)
    BY <2>4, Zenon DEF Backoff
  <2> QED
    BY <2>1, <2>2, <2>3, <2>4
<1>2. PICK l \in {"loop", "dialing", "backoff", "done"} :
        pc' = [pc EXCEPT ![o] = l]
  BY <1>1
<1>3. CASE p # o
  <2>1. pc'[p] = pc[p] /\ stream'[p] = stream[p] /\ stalled'[p] = stalled[p]
    BY <1>1, <1>2, <1>3 DEF TypeInv, TypeOK
  <2> QED
    BY <1>1, <2>1, SameObject
<1>4. CASE p = o
  <2>1. pc'[p] = l
    BY <1>2, <1>4 DEF TypeInv, TypeOK
  <2> QED
    BY <1>1, <1>4, <2>1, OfflineObject
<1> QED
  BY <1>3, <1>4

\* Reading a row: stale rows leave the cursor, a fresh one is the next row.
LEMMA ReadRowObj ==
    ASSUME TypeInv, NEW o \in States, ReadRow(o), NEW p \in States, ObjInv(p)
    PROVE  ObjInv(p)'
<1> DEFINE w   == stream[o]
           top == Len(log[owner[o]])
<1>1. /\ UNCHANGED <<log, owner, start, emitted, pending, stalled>>
      /\ pc[o] = "reading" /\ w # <<>>
      /\ stream' = [stream EXCEPT ![o] = Tail(w)]
      /\ \/ Head(w) <= lastSeq[o] /\ UNCHANGED <<lastSeq, pc>>
         \/ /\ ~(Head(w) <= lastSeq[o])
            /\ lastSeq' = [lastSeq EXCEPT ![o] = Head(w)]
            /\ pc' = [pc EXCEPT ![o] = "handling"]
  BY DEF ReadRow, Stale, forgeVars, histVars
<1>2. CASE p # o
  <2>1. /\ stream'[p] = stream[p] /\ lastSeq'[p] = lastSeq[p] /\ pc'[p] = pc[p]
    BY <1>1, <1>2 DEF TypeInv, TypeOK
  <2> QED
    BY <1>1, <2>1, SameObject
<1>3. CASE p = o
  <2>1. /\ w \in Seq(Nat) /\ lastSeq[o] \in Nat /\ start[o] \in Nat
        /\ owner[o] \in Sessions /\ top \in Nat
        /\ stream'[o] = Tail(w) /\ pending[o] = NoEvent
    BY <1>1, LenProperties DEF TypeInv, TypeOK, Ownership
  <2>2. /\ Within(w, top) /\ NoGap(w, lastSeq[o])
        /\ ~stalled[o] => Complete(w, lastSeq[o], top)
    BY <1>1, <1>3 DEF ObjInv, WireInv, Connected
  <2>3. Head(w) \in Nat
    BY <1>1, <2>1, HeadTailProperties
  <2>4. CASE Head(w) <= lastSeq[o]
    <3>1. UNCHANGED <<lastSeq, pc>>
      BY <1>1, <2>4
    <3>2. WireInv(p)'
      BY <1>1, <1>3, <2>1, <2>2, <2>4, <3>1, DropHeadIsGood DEF WireInv
    <3> QED
      BY <1>1, <3>1, <3>2 DEF ObjInv, CursorInv, OnceInv, Seen, Due, Visible
  <2>5. CASE Head(w) > lastSeq[o]
    <3>1. lastSeq'[o] = Head(w) /\ pc'[o] = "handling"
      BY <1>1, <2>1, <2>3, <2>5 DEF TypeInv, TypeOK
    <3>2. /\ Head(w) = lastSeq[o] + 1 /\ lastSeq[o] + 1 <= top
          /\ Within(Tail(w), top) /\ NoGap(Tail(w), lastSeq[o] + 1)
          /\ ~stalled[o] => Complete(Tail(w), lastSeq[o] + 1, top)
      BY <1>1, <2>1, <2>2, <2>5, TakeHeadIsGood
    <3>3. WireInv(p)'
      BY <1>1, <1>3, <2>1, <3>1, <3>2 DEF WireInv
    <3>4. start[o] <= lastSeq[o] /\ emitted[o] = Seen(o) \ Due(o)
      BY <1>1, <1>3, <2>1, NullAssumption DEF ObjInv, CursorInv, OnceInv
    <3>5. CursorInv(p)'
      BY <1>1, <1>3, <2>1, <3>1, <3>2, <3>4 DEF CursorInv, RowEvents, NoEvent
    <3>6. Due(o) = {} /\ Due(o)' = {lastSeq[o] + 1}
      BY <1>1, <2>1, <3>1, <3>2 DEF Due, RowEvents, NoEvent
    <3>7. Seen(o)' \ {lastSeq[o] + 1} = Seen(o)
      BY <1>1, <2>1, <3>1, <3>2, <3>4 DEF Seen, Visible
    <3> QED
      BY <1>1, <1>3, <3>3, <3>4, <3>5, <3>6, <3>7 DEF ObjInv, OnceInv
  <2> QED
    BY <2>1, <2>3, <2>4, <2>5
<1> QED
  BY <1>2, <1>3

\* Reading turn_ended.
LEMMA ReadTurnEndedObj ==
    ASSUME TypeInv, NEW o \in States, ReadTurnEnded(o), NEW p \in States, ObjInv(p)
    PROVE  ObjInv(p)'
<1> DEFINE w == stream[o]
<1>1. /\ UNCHANGED <<log, owner, lastSeq, start, emitted, stalled>>
      /\ pc[o] = "reading" /\ w # <<>> /\ Head(w) = 0
      /\ stream' = [stream EXCEPT ![o] = Tail(w)]
      /\ \/ UNCHANGED <<pending, pc>>
         \/ /\ pending' = [pending EXCEPT ![o] = "typing_stop"]
            /\ pc' = [pc EXCEPT ![o] = "emitting"]
  BY Zenon DEF ReadTurnEnded, TurnEnded, forgeVars, histVars
<1>2. CASE p # o
  <2>1. stream'[p] = stream[p] /\ pending'[p] = pending[p] /\ pc'[p] = pc[p]
    BY <1>1, <1>2 DEF TypeInv, TypeOK
  <2> QED
    BY <1>1, <2>1, SameObject
<1>3. CASE p = o
  <2>1. /\ w \in Seq(Nat) /\ lastSeq[o] \in Nat /\ Len(log[owner[o]]) \in Nat
        /\ stream'[o] = Tail(w) /\ pending[o] = NoEvent
        /\ pending'[o] \in {NoEvent, "typing_stop"}
        /\ pc'[o] \in {"reading", "emitting"}
    BY <1>1, LenProperties DEF TypeInv, TypeOK, Ownership
  <2>2. WireInv(p)'
    BY <1>1, <1>3, <2>1, DropHeadIsGood DEF ObjInv, WireInv, Connected
  <2>3. CursorInv(p)' /\ OnceInv(p)'
    BY <1>1, <1>3, <2>1
    DEF ObjInv, CursorInv, OnceInv, Seen, Due, Visible, RowEvents, NoEvent
  <2> QED
    BY <2>2, <2>3 DEF ObjInv
<1> QED
  BY <1>2, <1>3

\* The connection stalls: nothing is promised about what is still missing.
LEMMA StallObj ==
    ASSUME TypeInv, NEW o \in States, Stall(o), NEW p \in States, ObjInv(p)
    PROVE  ObjInv(p)'
<1>1. /\ UNCHANGED <<log, owner, lastSeq, start, emitted, pending, pc, stream>>
      /\ \A q \in States : stalled'[q] = stalled[q] \/ stalled'[q]
  BY DEF Stall, forgeVars, objVars, readVars, histVars, TypeInv, TypeOK
<1> QED
  BY <1>1 DEF ObjInv, WireInv, CursorInv, OnceInv, Seen, Due, Visible

\* Translating the row: a visible one is owed its callback, others are done.
LEMMA HandleMessageObj ==
    ASSUME TypeInv, NEW o \in States, HandleMessage(o), NEW p \in States, ObjInv(p)
    PROVE  ObjInv(p)'
<1> DEFINE kind == log[owner[o]][lastSeq[o]]
<1>1. /\ UNCHANGED <<log, owner, lastSeq, start, emitted, stream, stalled>>
      /\ pc[o] = "handling"
  BY DEF HandleMessage, forgeVars, connVars, histVars
<1>2. \/ /\ EventOf(kind) = NoEvent
         /\ \/ pending' = pending /\ pc' = [pc EXCEPT ![o] = "reading"]
            \/ /\ pending' = [pending EXCEPT ![o] = "typing_start"]
               /\ pc' = [pc EXCEPT ![o] = "emitting"]
      \/ /\ EventOf(kind) # NoEvent
         /\ pending' = [pending EXCEPT ![o] = EventOf(kind)]
         /\ pc' = [pc EXCEPT ![o] = "emitting"]
  <2>1. CASE kind = "user"
    <3>1. StartTyping(o)
      BY <2>1, NoUserEvent DEF HandleMessage
    <3> QED
      BY <2>1, <3>1, NoUserEvent DEF StartTyping
  <2>2. CASE kind # "user"
    BY <2>2 DEF HandleMessage
  <2> QED
    BY <2>1, <2>2
<1>3. CASE p # o
  <2>1. pending'[p] = pending[p] /\ pc'[p] = pc[p]
    BY <1>2, <1>3 DEF TypeInv, TypeOK
  <2> QED
    BY <1>1, <2>1, SameObject
<1>4. CASE p = o
  <2>1. /\ owner[o] \in Sessions \cup {NoSession}
        /\ pending \in [States -> Events \cup {NoEvent}] /\ pending[o] = NoEvent
        /\ pc \in [States -> {"unused", "seeding", "done"} \cup LivePc]
        /\ lastSeq[o] \in Nat /\ start[o] \in Nat
    BY <1>1 DEF TypeInv, TypeOK
  <2>2. pc'[o] \in {"reading", "emitting"}
    BY <1>2, <2>1
  <2>3. WireInv(p)'
    BY <1>1, <1>4, <2>2 DEF ObjInv, WireInv, Connected
  <2>4. lastSeq[o] > start[o] /\ (owner[o] # NoSession => emitted[o] = Seen(o) \ {lastSeq[o]})
    BY <1>1, <1>4 DEF ObjInv, CursorInv, OnceInv, Due
  <2>5. Seen(o)' = Seen(o)
    BY <1>1 DEF Seen, Visible
  <2>6. CASE EventOf(kind) = NoEvent
    <3>1. pending'[o] \notin RowEvents
      BY <1>2, <2>1, <2>6 DEF RowEvents, NoEvent
    <3>2. CursorInv(p)'
      BY <1>1, <1>4, <2>2, <3>1 DEF ObjInv, CursorInv
    <3>3. lastSeq[o] \notin Seen(o)
      BY <2>6 DEF Seen, Visible
    <3>4. Due(o)' = {}
      BY <2>2, <3>1 DEF Due
    <3> QED
      BY <1>1, <1>4, <2>3, <2>4, <2>5, <3>2, <3>3, <3>4 DEF ObjInv, OnceInv
  <2>7. CASE EventOf(kind) # NoEvent
    <3>1. pending'[o] \in RowEvents
      BY <1>2, <2>1, <2>7, EventOfType
    <3>2. Visible(owner[o], lastSeq[o])'
      BY <1>1, <2>7 DEF Visible
    <3>3. CursorInv(p)'
      BY <1>1, <1>4, <2>2, <2>4, <3>2 DEF ObjInv, CursorInv
    <3>4. Due(o)' = {lastSeq[o]}
      BY <1>1, <3>1 DEF Due
    <3> QED
      BY <1>1, <1>4, <2>3, <2>4, <2>5, <3>3, <3>4 DEF ObjInv, OnceInv
  <2> QED
    BY <2>6, <2>7
<1> QED
  BY <1>3, <1>4

\* The callback runs: the row it is for is not due any more.
LEMMA EmitObj ==
    ASSUME TypeInv, NEW o \in States, Emit(o), NEW p \in States, ObjInv(p)
    PROVE  ObjInv(p)'
<1>1. /\ UNCHANGED <<log, owner, lastSeq, start, stream, stalled>>
      /\ pc[o] = "emitting"
      /\ pending' = [pending EXCEPT ![o] = NoEvent]
      /\ pc' = [pc EXCEPT ![o] = "reading"]
      /\ \/ /\ pending[o] \in RowEvents
            /\ emitted' = [emitted EXCEPT ![o] = emitted[o] \cup {lastSeq[o]}]
         \/ pending[o] \notin RowEvents /\ emitted' = emitted
  BY DEF Emit, forgeVars, objVars, connVars
<1>2. CASE p # o
  <2>1. pending'[p] = pending[p] /\ pc'[p] = pc[p] /\ emitted'[p] = emitted[p]
    BY <1>1, <1>2 DEF TypeInv, TypeOK
  <2> QED
    BY <1>1, <2>1, SameObject
<1>3. CASE p = o
  <2>1. /\ pending'[o] = NoEvent /\ pc'[o] = "reading"
        /\ lastSeq[o] \in Nat /\ start[o] \in Nat
    BY <1>1 DEF TypeInv, TypeOK
  <2>2. WireInv(p)' /\ CursorInv(p)'
    BY <1>1, <1>3, <2>1
    DEF ObjInv, WireInv, CursorInv, Connected, RowEvents, NoEvent
  <2>3. Seen(o)' = Seen(o) /\ Due(o)' = {}
    BY <1>1, <2>1 DEF Seen, Visible, Due, RowEvents, NoEvent
  <2>4. CASE pending[o] \in RowEvents
    <3>1. /\ Due(o) = {lastSeq[o]} /\ lastSeq[o] \in Seen(o)
          /\ emitted'[o] = emitted[o] \cup {lastSeq[o]}
      BY <1>1, <1>3, <2>1, <2>4 DEF ObjInv, CursorInv, Seen, Due, TypeInv, TypeOK
    <3> QED
      BY <1>1, <1>3, <2>2, <2>3, <3>1 DEF ObjInv, OnceInv
  <2>5. CASE pending[o] \notin RowEvents
    <3>1. Due(o) = {} /\ emitted' = emitted
      BY <1>1, <2>5 DEF Due
    <3> QED
      BY <1>1, <1>3, <2>2, <2>3, <3>1 DEF ObjInv, OnceInv
  <2> QED
    BY <2>4, <2>5
<1> QED
  BY <1>2, <1>3

\* The steps of the watcher, Start, Stop and Forget.
LEMMA OtherObj ==
    ASSUME \/ \E o \in States : \/ QuietElapses(o) \/ EmitIdle(o)
                                \/ ForgetCheck(o) \/ ForgetClose(o)
           \/ \E s \in Sessions : ForgetRemove(s)
           \/ CheckIdle \/ WatcherExit \/ Start
           \/ StopCancel \/ StopCloseAll \/ StopReturn
           \/ UNCHANGED vars
    PROVE  UNCHANGED <<log, owner, lastSeq, start, emitted, pending, pc, stream,
                       stalled>>
<1> USE DEF forgeVars, objVars, connVars, readVars, histVars
<1>1. ASSUME NEW o \in States,
             QuietElapses(o) \/ EmitIdle(o) \/ ForgetCheck(o) \/ ForgetClose(o)
      PROVE  UNCHANGED <<log, owner, lastSeq, start, emitted, pending, pc, stream,
                         stalled>>
  BY <1>1 DEF QuietElapses, EmitIdle, ForgetCheck, ForgetClose
<1>2. ASSUME NEW s \in Sessions, ForgetRemove(s)
      PROVE  UNCHANGED <<log, owner, lastSeq, start, emitted, pending, pc, stream,
                         stalled>>
  BY <1>2 DEF ForgetRemove
<1>3. CASE CheckIdle \/ WatcherExit \/ Start
  BY <1>3 DEF CheckIdle, WatcherExit, Start
<1>4. CASE StopCancel \/ StopCloseAll \/ StopReturn
  BY <1>4 DEF StopCancel, StopCloseAll, StopReturn
<1>5. CASE UNCHANGED vars
  BY <1>5 DEF vars
<1> QED
  BY <1>1, <1>2, <1>3, <1>4, <1>5

\* Every step of every goroutine preserves every object's invariant.
LEMMA DeliveryNext == TypeInv /\ DeliveryInv /\ [Next]_vars => DeliveryInv'
<1> SUFFICES ASSUME TypeInv, DeliveryInv, [Next]_vars, NEW p \in States
             PROVE  ObjInv(p)'
  BY DEF DeliveryInv
<1>1. ObjInv(p)
  BY DEF DeliveryInv
<1>2. ASSUME NEW s \in Sessions,
             \/ TurnEnds(s) \/ \E kind \in RowKinds : AppendRow(s, kind)
             \/ \E o \in States : Track(s, o)
      PROVE  ObjInv(p)'
  BY <1>1, <1>2, TurnEndsObj, AppendRowObj, TrackObj
<1>3. ASSUME NEW o \in States, Stall(o) \/ Seed(o) \/ Reader(o)
      PROVE  ObjInv(p)'
  BY <1>1, <1>3, StallObj, SeedObj, OfflineObj, ConnectObj, ReadRowObj,
     ReadTurnEndedObj, HandleMessageObj, EmitObj DEF Reader
<1>4. ASSUME UNCHANGED <<log, owner, lastSeq, start, emitted, pending, pc, stream,
                         stalled>>
      PROVE  ObjInv(p)'
  BY <1>1, <1>4, SameObject
<1> QED
  BY <1>2, <1>3, <1>4, OtherObj DEF Next, Forge, Callers, Watcher

\* Nothing is connected, delivered or due at first.
LEMMA DeliveryInit == Init => DeliveryInv
BY DEF Init, DeliveryInv, ObjInv, WireInv, CursorInv, OnceInv, Connected,
       RowEvents, NoEvent

\* The inductive invariant: what is on each live connection continues the
\* cursor without a gap, and the callbacks run so far are exactly those of the
\* visible rows up to the cursor that are not due.
THEOREM DeliveryInvariant == Spec => [](TypeInv /\ DeliveryInv)
<1>1. Init => TypeInv /\ DeliveryInv
  BY TypeInit, DeliveryInit
<1>2. TypeInv /\ DeliveryInv /\ [Next]_vars => (TypeInv /\ DeliveryInv)'
  BY TypeNext, DeliveryNext
<1> QED
  BY <1>1, <1>2, PTL DEF Spec

\* Whatever is replayed, duplicated, lost with a connection or reconnected,
\* every visible row between the seed and the cursor has been given to the
\* callback exactly once, except the one whose callback is about to run.
THEOREM RowsDeliveredExactlyOnce == Spec => []ExactlyOnce
<1>1. DeliveryInv => ExactlyOnce
  BY DEF DeliveryInv, ObjInv, OnceInv, ExactlyOnce
<1> QED
  BY <1>1, DeliveryInvariant, PTL

\* Only Seed and ReadRow write the cursor.
LEMMA CursorFrame ==
    ASSUME NEW o \in States,
           \/ Stall(o) \/ LoopTop(o) \/ Connect(o) \/ DialFails(o) \/ Cancelled(o)
           \/ StreamBreaks(o) \/ Backoff(o) \/ ReadTurnEnded(o)
           \/ HandleMessage(o) \/ Emit(o)
    PROVE  UNCHANGED lastSeq
<1> USE DEF objVars
<1>1. CASE Stall(o) \/ LoopTop(o) \/ Connect(o) \/ DialFails(o)
  BY <1>1 DEF Stall, LoopTop, Connect, DialFails
<1>2. CASE Cancelled(o) \/ StreamBreaks(o) \/ Backoff(o)
  BY <1>2 DEF Cancelled, StreamBreaks, Backoff
<1>3. CASE ReadTurnEnded(o) \/ HandleMessage(o) \/ Emit(o)
  BY <1>3 DEF ReadTurnEnded, HandleMessage, Emit
<1> QED
  BY <1>1, <1>2, <1>3

\* One step of the consumer moves a seeded cursor by at most one row.
LEMMA CursorStep ==
    ASSUME TypeInv, DeliveryInv, [Next]_vars, NEW p \in States, pc[p] # "seeding"
    PROVE  lastSeq'[p] \in {lastSeq[p], lastSeq[p] + 1}
<1>1. ASSUME NEW s \in Sessions,
             \/ TurnEnds(s) \/ \E kind \in RowKinds : AppendRow(s, kind)
             \/ \E o \in States : Track(s, o)
      PROVE  UNCHANGED lastSeq
  BY <1>1 DEF TurnEnds, AppendRow, Track, objVars
<1>2. ASSUME NEW o \in States, Seed(o) PROVE lastSeq'[p] = lastSeq[p]
  <2>1. PICK mark : lastSeq' = [lastSeq EXCEPT ![o] = mark]
    BY <1>2 DEF Seed
  <2>2. p # o
    BY <1>2 DEF Seed
  <2> QED
    BY <2>1, <2>2 DEF TypeInv, TypeOK
<1>3. ASSUME NEW o \in States, ReadRow(o)
      PROVE  lastSeq'[p] \in {lastSeq[p], lastSeq[p] + 1}
  <2> DEFINE w == stream[o]
  <2>1. pc[o] = "reading" /\ w # <<>>
    BY <1>3 DEF ReadRow
  <2>2. /\ w \in Seq(Nat) /\ lastSeq \in [States -> Nat]
        /\ Len(log[owner[o]]) \in Nat
    BY <2>1, LenProperties DEF TypeInv, TypeOK, Ownership
  <2>3. Head(w) \in Nat
    BY <2>1, <2>2, HeadTailProperties
  <2>4. Within(w, Len(log[owner[o]])) /\ NoGap(w, lastSeq[o])
    BY <2>1 DEF DeliveryInv, ObjInv, WireInv, Connected
  <2>5. CASE Head(w) <= lastSeq[o]
    BY <1>3, <2>5 DEF ReadRow, Stale
  <2>6. CASE Head(w) > lastSeq[o]
    <3>1. Head(w) = lastSeq[o] + 1
      BY <2>1, <2>2, <2>4, <2>6, TakeHeadIsGood
    <3>2. lastSeq' = [lastSeq EXCEPT ![o] = Head(w)]
      BY <1>3, <2>2, <2>3, <2>6 DEF ReadRow, Stale
    <3> QED
      BY <2>2, <3>1, <3>2
  <2> QED
    BY <2>2, <2>3, <2>5, <2>6
<1>4. ASSUME UNCHANGED <<log, owner, lastSeq, start, emitted, pending, pc, stream,
                         stalled>>
      PROVE  lastSeq'[p] = lastSeq[p]
  BY <1>4
<1> QED
  BY <1>1, <1>2, <1>3, <1>4, CursorFrame, OtherObj
  DEF Next, Forge, Callers, Watcher, Reader

\* Once a session is seeded its cursor walks the log row by row.
THEOREM CursorWalksTheLog == Spec => CursorAdvancesByOne
<1>1. TypeInv /\ DeliveryInv /\ [Next]_vars
        => [\A o \in States : pc[o] # "seeding" =>
              lastSeq'[o] \in {lastSeq[o], lastSeq[o] + 1}]_vars
  BY CursorStep
<1> QED
  BY <1>1, DeliveryInvariant, PTL DEF Spec, CursorAdvancesByOne

-----------------------------------------------------------------------------
(* Refinement of RowDelivery *)

\* The rows without an event are the user rows and the empty ones.
LEMMA SilentKind ==
    ASSUME NEW kind \in RowKinds
    PROVE  EventOf(kind) = NoEvent <=> kind \in {"user", "empty"}
BY KindAssumption DEF AllKinds, EventOf, NoEvent

\* Running the callback for a row delivers the earliest row still owed.
LEMMA EmitDelivers ==
    ASSUME TypeInv, DeliveryInv, NEW o \in States, Emit(o), pending[o] \in RowEvents
    PROVE  Delivery!Deliver(o, lastSeq[o])
<1> DEFINE s == owner[o]
<1>1. /\ UNCHANGED <<log, owner, start>> /\ pc[o] = "emitting"
      /\ pc' = [pc EXCEPT ![o] = "reading"]
      /\ emitted' = [emitted EXCEPT ![o] = emitted[o] \cup {lastSeq[o]}]
  BY DEF Emit, forgeVars, objVars
<1>2. /\ s \in Sessions /\ log[s] \in Seq(RowKinds) /\ Len(log[s]) \in Nat
      /\ lastSeq[o] \in Nat /\ start[o] \in Nat
      /\ pc \in [States -> {"unused", "seeding", "done"} \cup LivePc]
  BY <1>1, LenProperties DEF TypeInv, TypeOK, Ownership
<1>3. /\ lastSeq[o] > start[o] /\ lastSeq[o] <= Len(log[s])
      /\ Visible(s, lastSeq[o])
      /\ emitted[o] = Seen(o) \ {lastSeq[o]}
  BY <1>2, NullAssumption DEF DeliveryInv, ObjInv, CursorInv, OnceInv, Due
<1>4. Subscription(o) = [session |-> s, from |-> start[o]]
  BY <1>1 DEF Subscription
<1>5. \A n \in 1..Len(log[s]) : log[s][n] \notin {"user", "empty"} <=> Visible(s, n)
  BY <1>2, SilentKind, ElementOfSeq DEF Visible
<1>6. Delivery!Owed(o) = {n \in (start[o] + 1)..Len(log[s]) :
                             log[s][n] \notin {"user", "empty"} /\ n \notin emitted[o]}
  BY <1>4 DEF Delivery!Owed
<1>7. lastSeq[o] \in Delivery!Owed(o)
  BY <1>2, <1>3, <1>5, <1>6
<1>8. ASSUME NEW m \in Delivery!Owed(o) PROVE lastSeq[o] <= m
  <2>1. /\ m \in (start[o] + 1)..Len(log[s]) /\ m \in 1..Len(log[s])
        /\ log[s][m] \notin {"user", "empty"} /\ m \notin emitted[o]
    BY <1>2, <1>6
  <2>2. Visible(s, m)
    BY <1>5, <2>1
  <2> QED
    BY <1>2, <1>3, <2>1, <2>2 DEF Seen
<1>9. \A q \in States : Subscription(q)' = Subscription(q)
  BY <1>1, <1>2 DEF Subscription
<1> QED
  BY <1>1, <1>7, <1>8, <1>9 DEF Delivery!Deliver

\* The end of a seeding is the moment the subscription is made.
LEMMA SeedSubscribes ==
    ASSUME TypeInv, NEW o \in States, Seed(o)
    PROVE  \E mark \in 0..Len(log[owner[o]]) : Delivery!Subscribe(o, owner[o], mark)
<1>1. PICK mark \in {0, Len(log[owner[o]])} : start' = [start EXCEPT ![o] = mark]
  BY DEF Seed, HighWaterMarks
<1>2. /\ UNCHANGED <<log, owner, emitted>> /\ pc[o] = "seeding"
      /\ pc' = [pc EXCEPT ![o] = "loop"]
  BY DEF Seed, forgeVars
<1>3. /\ owner[o] \in Sessions /\ Len(log[owner[o]]) \in Nat
      /\ start \in [States -> Nat]
      /\ pc \in [States -> {"unused", "seeding", "done"} \cup LivePc]
  BY <1>2, LenProperties DEF TypeInv, TypeOK, Ownership
<1>4. mark \in 0..Len(log[owner[o]])
  BY <1>3
<1>5. /\ Subscription(o).session = NoSession
      /\ Subscription(o)' = [session |-> owner[o], from |-> mark]
  BY <1>1, <1>2, <1>3 DEF Subscription
<1>6. \A q \in States \ {o} : Subscription(q)' = Subscription(q)
  BY <1>1, <1>2, <1>3 DEF Subscription
<1>7. Delivery!Subscribe(o, owner[o], mark)
  BY <1>2, <1>5, <1>6 DEF Delivery!Subscribe
<1> QED
  BY <1>4, <1>7

\* Every other step of a reader leaves the abstract state alone.
LEMMA ReaderHidden ==
    ASSUME TypeInv, NEW o \in States,
           \/ Stall(o) \/ LoopTop(o) \/ Connect(o) \/ DialFails(o) \/ Cancelled(o)
           \/ StreamBreaks(o) \/ Backoff(o) \/ ReadRow(o) \/ ReadTurnEnded(o)
           \/ HandleMessage(o) \/ (Emit(o) /\ pending[o] \notin RowEvents)
    PROVE  /\ UNCHANGED <<log, owner, start, emitted>>
           /\ \A q \in States : pc'[q] = "seeding" <=> pc[q] = "seeding"
<1> USE DEF forgeVars, objVars, readVars, histVars, TypeInv, TypeOK, LivePc, Connected
<1>1. CASE Stall(o) \/ LoopTop(o) \/ Connect(o) \/ DialFails(o)
  BY <1>1 DEF Stall, LoopTop, Connect, DialFails
<1>2. CASE Cancelled(o) \/ StreamBreaks(o) \/ ReadRow(o)
  BY <1>2 DEF Cancelled, StreamBreaks, ReadRow
<1>3. CASE Backoff(o)
  <2>1. PICK l \in {"loop", "done"} : pc' = [pc EXCEPT ![o] = l]
    BY <1>3, Zenon DEF Backoff
  <2> QED
    BY <1>3, <2>1 DEF Backoff
<1>4. CASE ReadTurnEnded(o)
  <2>1. pc' = pc \/ pc' = [pc EXCEPT ![o] = "emitting"]
    BY <1>4, Zenon DEF ReadTurnEnded
  <2> QED
    BY <1>4, <2>1 DEF ReadTurnEnded
<1>5. CASE HandleMessage(o)
  <2>1. \/ pc' = [pc EXCEPT ![o] = "reading"]
        \/ pc' = [pc EXCEPT ![o] = "emitting"]
    BY <1>5, HandleMessageEffect
  <2> QED
    BY <1>5, <2>1 DEF HandleMessage
<1>6. CASE Emit(o) /\ pending[o] \notin RowEvents
  BY <1>6 DEF Emit
<1> QED
  BY <1>1, <1>2, <1>3, <1>4, <1>5, <1>6

\* Every step of the consumer is a step of RowDelivery or leaves it alone.
LEMMA DeliveryStep ==
    ASSUME TypeInv, DeliveryInv, [Next]_vars
    PROVE  [Delivery!Next]_(Delivery!vars)
<1>1. ASSUME UNCHANGED <<log, owner, start, emitted>>,
             \A q \in States : pc'[q] = "seeding" <=> pc[q] = "seeding"
      PROVE  UNCHANGED Delivery!vars
  BY <1>1 DEF Delivery!vars, Subscription
<1>2. ASSUME NEW s \in Sessions, NEW kind \in RowKinds, AppendRow(s, kind)
      PROVE  Delivery!Next
  <2>1. /\ log' = [log EXCEPT ![s] = Append(@, kind)]
        /\ UNCHANGED <<owner, start, emitted, pc>>
    BY <1>2 DEF AppendRow, objVars, readVars, histVars
  <2>2. Delivery!Write(s, kind)
    BY <2>1 DEF Delivery!Write, Subscription
  <2> QED
    BY <2>2 DEF Delivery!Next
<1>3. ASSUME NEW s \in Sessions, TurnEnds(s) PROVE UNCHANGED Delivery!vars
  BY <1>1, <1>3 DEF TurnEnds, objVars, readVars, histVars
<1>4. ASSUME NEW s \in Sessions, NEW o \in States, Track(s, o)
      PROVE  UNCHANGED Delivery!vars
  <2>1. /\ UNCHANGED <<log, start, emitted>> /\ pc[o] = "unused"
        /\ owner' = [owner EXCEPT ![o] = s]
        /\ pc' = [pc EXCEPT ![o] = "seeding"]
    BY <1>4 DEF Track, forgeVars, histVars
  <2>2. owner[o] = NoSession /\ owner \in [States -> Sessions \cup {NoSession}]
        /\ pc \in [States -> {"unused", "seeding", "done"} \cup LivePc]
    BY <2>1 DEF TypeInv, TypeOK, Ownership
  <2>3. \A q \in States : Subscription(q)' = Subscription(q)
    BY <2>1, <2>2 DEF Subscription
  <2> QED
    BY <2>1, <2>3 DEF Delivery!vars
<1>5. ASSUME NEW o \in States, Seed(o) PROVE Delivery!Next
  <2>1. owner[o] \in Sessions
    BY <1>5 DEF Seed, TypeInv, TypeOK, Ownership
  <2> QED
    BY <1>5, <2>1, SeedSubscribes DEF Delivery!Next
<1>6. ASSUME NEW o \in States, Stall(o) \/ Reader(o)
      PROVE  Delivery!Next \/ UNCHANGED Delivery!vars
  <2>1. CASE Emit(o) /\ pending[o] \in RowEvents
    <3>1. Delivery!Deliver(o, lastSeq[o])
      BY <2>1, EmitDelivers
    <3>2. Subscription(o).session # NoSession
      BY <2>1 DEF Emit, Subscription, TypeInv, TypeOK, Ownership
    <3> QED
      BY <3>1, <3>2 DEF Delivery!Next, Delivery!Deliver
  <2>2. CASE ~(Emit(o) /\ pending[o] \in RowEvents)
    BY <1>1, <1>6, <2>2, ReaderHidden DEF Reader
  <2> QED
    BY <2>1, <2>2
<1>7. ASSUME UNCHANGED <<log, owner, lastSeq, start, emitted, pending, pc, stream,
                         stalled>>
      PROVE  UNCHANGED Delivery!vars
  BY <1>1, <1>7
<1> QED
  BY <1>2, <1>3, <1>4, <1>5, <1>6, <1>7, OtherObj DEF Next, Forge, Callers, Watcher

\* The consumer is, for its callback, the plain subscription of RowDelivery.
THEOREM ConsumerImplementsRowDelivery == Spec => ImplementsRowDelivery
<1>1. Init => Delivery!Init
  BY NullAssumption DEF Init, Delivery!Init, Subscription
<1>2. TypeInv /\ DeliveryInv /\ [Next]_vars => [Delivery!Next]_(Delivery!vars)
  BY DeliveryStep
<1> QED
  BY <1>1, <1>2, DeliveryInvariant, PTL DEF Spec, ImplementsRowDelivery, Delivery!Spec
=============================================================================
