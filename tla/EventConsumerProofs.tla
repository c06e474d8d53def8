-------------------------- MODULE EventConsumerProofs --------------------------
(***************************************************************************)
(* Proofs about EventConsumer, for every set of sessions and objects and   *)
(* every bound on the logs.                                                *)
(***************************************************************************)
EXTENDS EventConsumer, FiniteSetTheorems, SequenceTheorems, TLAPS

-----------------------------------------------------------------------------
(* Lemmas about the vocabulary *)

\* Rows(a, b) is the sequence a+1, ..., b.
LEMMA RowsSeq ==
    ASSUME NEW a \in Nat, NEW b \in Nat, a <= b
    PROVE  /\ Rows(a, b) \in Seq(Nat)
           /\ Len(Rows(a, b)) = b - a
           /\ \A i \in 1..(b - a) : Rows(a, b)[i] = a + i
BY DEF Rows

\* What Connect puts on the stream: rows a+1..b, then rows d+1..b again.
LEMMA ReplaySeq ==
    ASSUME NEW a \in Nat, NEW b \in Nat, NEW d \in a..b
    PROVE  LET r == Rows(a, b) \o Rows(d, b) IN
           /\ r \in Seq(Nat)
           /\ Len(r) = (b - a) + (b - d)
           /\ \A i \in 1..Len(r) :
                r[i] = IF i <= b - a THEN a + i ELSE d + (i - (b - a))
<1>1. d \in Nat /\ d <= b /\ a <= b
  OBVIOUS
<1>2. /\ Rows(a, b) \in Seq(Nat)
      /\ Len(Rows(a, b)) = b - a
      /\ \A i \in 1..(b - a) : Rows(a, b)[i] = a + i
  BY <1>1, RowsSeq
<1>3. /\ Rows(d, b) \in Seq(Nat)
      /\ Len(Rows(d, b)) = b - d
      /\ \A i \in 1..(b - d) : Rows(d, b)[i] = d + i
  BY <1>1, RowsSeq
<1> DEFINE r == Rows(a, b) \o Rows(d, b)
<1>4. /\ r \in Seq(Nat)
      /\ Len(r) = Len(Rows(a, b)) + Len(Rows(d, b))
      /\ \A i \in 1..(Len(Rows(a, b)) + Len(Rows(d, b))) :
           r[i] = IF i <= Len(Rows(a, b)) THEN Rows(a, b)[i]
                                          ELSE Rows(d, b)[i - Len(Rows(a, b))]
  BY <1>2, <1>3, ConcatProperties
<1> HIDE DEF r
<1>5. ASSUME NEW i \in 1..Len(r)
      PROVE  r[i] = IF i <= b - a THEN a + i ELSE d + (i - (b - a))
  <2>1. CASE i <= b - a
    BY <1>1, <1>2, <1>4, <2>1
  <2>2. CASE i > b - a
    <3>1. i - (b - a) \in 1..(b - d)
      BY <1>1, <1>2, <1>3, <1>4, <2>2
    <3> QED
      BY <1>1, <1>2, <1>3, <1>4, <2>2, <3>1
  <2> QED
    BY <1>1, <2>1, <2>2
<1> QED
  BY <1>1, <1>2, <1>3, <1>4, <1>5 DEF r

\* handleMessage's translation yields a row event or nothing.
LEMMA EventOfType == \A kind : EventOf(kind) \in RowEvents \cup {NoEvent}
BY DEF EventOf, RowEvents, NoEvent

\* A user row produces no row event of its own.
LEMMA NoUserEvent == EventOf("user") = NoEvent
BY DEF EventOf, NoEvent

-----------------------------------------------------------------------------
(* Type correctness.  Seeding reads the log of the object's session, so the *)
(* ownership of objects has to be part of the induction.                    *)

Ownership ==
    /\ \A o \in States : pc[o] = "unused" <=> owner[o] = NoSession
    /\ \A s \in Sessions : sessions[s] # NoState => owner[sessions[s]] = s

TypeInv == TypeOK /\ Ownership

\* The constructor's state is well typed.
LEMMA TypeInit == Init => TypeInv
BY NullAssumption DEF Init, TypeInv, TypeOK, Ownership, NoEvent, LivePc, Connected

\* What handleMessage does, whatever the row: it emits one event or none, and
\* touches the typing state of at most the object c.sessions holds.
LEMMA HandleMessageEffect ==
    ASSUME NEW o \in States, HandleMessage(o),
           typingNow \in [States -> BOOLEAN], quiet \in [States -> BOOLEAN]
    PROVE  /\ pc[o] = "handling"
           /\ typingNow' \in [States -> BOOLEAN]
           /\ quiet' \in [States -> BOOLEAN]
           /\ \E e \in Events :
                \/ pending' = pending /\ pc' = [pc EXCEPT ![o] = "reading"]
                \/ /\ pending' = [pending EXCEPT ![o] = e]
                   /\ pc' = [pc EXCEPT ![o] = "emitting"]
<1> DEFINE kind == log[owner[o]][lastSeq[o]]
           t    == sessions[owner[o]]
<1>1. EventOf(kind) \in RowEvents \cup {NoEvent}
  BY EventOfType
<1>2. "typing_start" \in Events /\ RowEvents \subseteq Events
  BY DEF Events
<1>3. CASE kind = "user"
  <2>1. pc[o] = "handling" /\ StartTyping(o)
    BY <1>3, NoUserEvent DEF HandleMessage
  <2> QED
    BY <1>2, <2>1 DEF StartTyping
<1>4. CASE kind # "user"
  BY <1>1, <1>2, <1>4 DEF HandleMessage
<1> QED
  BY <1>3, <1>4

\* Every step of every goroutine keeps the types, action by action.
LEMMA TypeNext == TypeInv /\ [Next]_vars => TypeInv'
<1> SUFFICES ASSUME TypeInv, [Next]_vars PROVE TypeInv'
  OBVIOUS
<1> USE NullAssumption, KindAssumption
    DEF LivePc, Connected, Events, RowEvents, NoEvent,
        forgeVars, objVars, connVars, readVars, lifeVars, watchVars, histVars
<1>1. ASSUME NEW s \in Sessions, NEW kind \in RowKinds, AppendRow(s, kind)
      PROVE  TypeInv'
  BY <1>1 DEF AppendRow, Forward, TypeInv, TypeOK, Ownership
<1>2. ASSUME NEW s \in Sessions, TurnEnds(s) PROVE TypeInv'
  BY <1>2 DEF TurnEnds, Forward, TurnEnded, TypeInv, TypeOK, Ownership
<1>3. ASSUME NEW o \in States, Stall(o) PROVE TypeInv'
  BY <1>3 DEF Stall, TypeInv, TypeOK, Ownership
<1>4. ASSUME NEW s \in Sessions, NEW o \in States, Track(s, o) PROVE TypeInv'
  BY <1>4 DEF Track, TypeInv, TypeOK, Ownership
<1>5. ASSUME NEW o \in States, Seed(o) PROVE TypeInv'
  BY <1>5 DEF Seed, HighWaterMarks, ReaderContext, TypeInv, TypeOK, Ownership
<1>6. ASSUME NEW o \in States, LoopTop(o) PROVE TypeInv'
  BY <1>6 DEF LoopTop, TypeInv, TypeOK, Ownership
<1>7. ASSUME NEW o \in States, Connect(o) PROVE TypeInv'
  <2>1. owner[o] \in Sessions
    BY <1>7 DEF Connect, TypeInv, TypeOK, Ownership
  <2>2. PICK d \in lastSeq[o]..Len(log[owner[o]]) :
          stream' = [stream EXCEPT ![o] = Rows(lastSeq[o], Len(log[owner[o]]))
                                            \o Rows(d, Len(log[owner[o]]))]
    BY <1>7 DEF Connect, Replay
  <2>3. lastSeq[o] \in Nat /\ Len(log[owner[o]]) \in Nat
    BY <2>1, LenProperties DEF TypeInv, TypeOK
  <2>4. Rows(lastSeq[o], Len(log[owner[o]])) \o Rows(d, Len(log[owner[o]]))
          \in Seq(Nat)
    BY <2>3, ReplaySeq
  <2>5. stream' \in [States -> Seq(Nat)]
    BY <2>2, <2>4 DEF TypeInv, TypeOK
  <2> QED
    BY <1>7, <2>5 DEF Connect, TypeInv, TypeOK, Ownership
<1>8. ASSUME NEW o \in States, DialFails(o) PROVE TypeInv'
  BY <1>8 DEF DialFails, TypeInv, TypeOK, Ownership
<1>9. ASSUME NEW o \in States, Cancelled(o) PROVE TypeInv'
  BY <1>9 DEF Cancelled, Hangup, TypeInv, TypeOK, Ownership
<1>10. ASSUME NEW o \in States, StreamBreaks(o) PROVE TypeInv'
  BY <1>10 DEF StreamBreaks, Hangup, TypeInv, TypeOK, Ownership
<1>11. ASSUME NEW o \in States, Backoff(o) PROVE TypeInv'
  <2>1. PICK l \in {"loop", "done"} : pc' = [pc EXCEPT ![o] = l]
    BY <1>11, Zenon DEF Backoff
  <2>2. pc[o] = "backoff"
    BY <1>11 DEF Backoff
  <2> QED
    BY <1>11, <2>1, <2>2 DEF Backoff, TypeInv, TypeOK, Ownership
<1>12. ASSUME NEW o \in States, ReadRow(o) PROVE TypeInv'
  <2>1. Head(stream[o]) \in Nat /\ Tail(stream[o]) \in Seq(Nat)
    BY <1>12, HeadTailProperties DEF ReadRow, TypeInv, TypeOK
  <2>2. /\ stream' = [stream EXCEPT ![o] = Tail(stream[o])]
        /\ pc[o] = "reading"
    BY <1>12 DEF ReadRow
  <2>3. stream' \in [States -> Seq(Nat)]
    BY <2>1, <2>2 DEF TypeInv, TypeOK
  <2>4. CASE Stale(o)
    BY <1>12, <2>3, <2>4 DEF ReadRow, TypeInv, TypeOK, Ownership
  <2>5. CASE ~Stale(o)
    <3>1. /\ lastSeq' = [lastSeq EXCEPT ![o] = Head(stream[o])]
          /\ quiet' = [quiet EXCEPT ![o] = FALSE]
          /\ pc' = [pc EXCEPT ![o] = "handling"]
      BY <1>12, <2>5 DEF ReadRow
    <3>2. lastSeq' \in [States -> Nat]
      BY <3>1, <2>1 DEF TypeInv, TypeOK
    <3> QED
      BY <1>12, <2>2, <2>3, <3>1, <3>2 DEF ReadRow, TypeInv, TypeOK, Ownership
  <2> QED
    BY <2>4, <2>5
<1>13. ASSUME NEW o \in States, ReadTurnEnded(o) PROVE TypeInv'
  <2>1. Tail(stream[o]) \in Seq(Nat)
    BY <1>13, HeadTailProperties DEF ReadTurnEnded, TypeInv, TypeOK
  <2>2. /\ stream' = [stream EXCEPT ![o] = Tail(stream[o])]
        /\ typingNow' = [typingNow EXCEPT ![o] = FALSE]
        /\ pc[o] = "reading"
    BY <1>13 DEF ReadTurnEnded
  <2>3. stream' \in [States -> Seq(Nat)] /\ typingNow' \in [States -> BOOLEAN]
    BY <2>1, <2>2 DEF TypeInv, TypeOK
  <2>4. CASE typingNow[o]
    <3>1. /\ pending' = [pending EXCEPT ![o] = "typing_stop"]
          /\ pc' = [pc EXCEPT ![o] = "emitting"]
      BY <1>13, <2>4, Zenon DEF ReadTurnEnded
    <3> QED
      BY <1>13, <2>2, <2>3, <3>1 DEF ReadTurnEnded, TypeInv, TypeOK, Ownership
  <2>5. CASE ~typingNow[o]
    BY <1>13, <2>2, <2>3, <2>5 DEF ReadTurnEnded, TypeInv, TypeOK, Ownership
  <2> QED
    BY <2>4, <2>5
<1>14. ASSUME NEW o \in States, HandleMessage(o) PROVE TypeInv'
  <2>1. /\ pc[o] = "handling"
        /\ typingNow' \in [States -> BOOLEAN]
        /\ quiet' \in [States -> BOOLEAN]
        /\ \E e \in Events :
             \/ pending' = pending /\ pc' = [pc EXCEPT ![o] = "reading"]
             \/ /\ pending' = [pending EXCEPT ![o] = e]
                /\ pc' = [pc EXCEPT ![o] = "emitting"]
    BY <1>14, HandleMessageEffect DEF TypeInv, TypeOK
  <2>2. PICK e \in Events :
          \/ pending' = pending /\ pc' = [pc EXCEPT ![o] = "reading"]
          \/ /\ pending' = [pending EXCEPT ![o] = e]
             /\ pc' = [pc EXCEPT ![o] = "emitting"]
    BY <2>1
  <2>3. UNCHANGED <<forgeVars, sessions, owner, lastSeq, stopClosed, connVars,
                    ctx, lifeVars, watchVars, histVars>>
    BY <1>14 DEF HandleMessage
  <2>4. CASE pending' = pending /\ pc' = [pc EXCEPT ![o] = "reading"]
    BY <2>1, <2>3, <2>4 DEF TypeInv, TypeOK, Ownership
  <2>5. CASE /\ pending' = [pending EXCEPT ![o] = e]
             /\ pc' = [pc EXCEPT ![o] = "emitting"]
    BY <2>1, <2>3, <2>5 DEF TypeInv, TypeOK, Ownership
  <2> QED
    BY <2>2, <2>4, <2>5
<1>15. ASSUME NEW o \in States, Emit(o) PROVE TypeInv'
  <2>1. emitted \in [States -> SUBSET Nat] /\ net \in [Sessions -> Int]
        /\ lastSeq[o] \in Nat
    BY DEF TypeInv, TypeOK
  <2>2. emitted' \in [States -> SUBSET Nat]
    <3>1. \/ emitted' = [emitted EXCEPT ![o] = emitted[o] \cup {lastSeq[o]}]
          \/ emitted' = emitted
      BY <1>15 DEF Emit
    <3> QED
      BY <2>1, <3>1
  <2>3. net' \in [Sessions -> Int]
    <3>1. \/ net' = net
          \/ net' = [net EXCEPT ![owner[o]] = net[owner[o]] + 1]
          \/ net' = [net EXCEPT ![owner[o]] = net[owner[o]] - 1]
      BY <1>15 DEF Emit
    <3> QED
      BY <2>1, <3>1
  <2>4. /\ pc[o] = "emitting"
        /\ pending' = [pending EXCEPT ![o] = NoEvent]
        /\ pc' = [pc EXCEPT ![o] = "reading"]
        /\ UNCHANGED <<forgeVars, sessions, objVars, connVars, ctx, lifeVars,
                       watchVars, start>>
    BY <1>15 DEF Emit
  <2> QED
    BY <2>2, <2>3, <2>4 DEF TypeInv, TypeOK, Ownership
<1>16. ASSUME NEW o \in States, QuietElapses(o) PROVE TypeInv'
  BY <1>16 DEF QuietElapses, TypeInv, TypeOK, Ownership
<1>17. CASE CheckIdle
  BY <1>17 DEF CheckIdle, Idle, TypeInv, TypeOK, Ownership
<1>18. ASSUME NEW o \in States, EmitIdle(o) PROVE TypeInv'
  <2>1. net \in [Sessions -> Int]
    BY DEF TypeInv, TypeOK
  <2>2. net' = [net EXCEPT ![owner[o]] = net[owner[o]] - 1]
    BY <1>18 DEF EmitIdle
  <2>3. net' \in [Sessions -> Int]
    <3>1. \A s \in Sessions :
            net'[s] = IF s = owner[o] THEN net[s] - 1 ELSE net[s]
      BY <2>1, <2>2
    <3>2. \A s \in Sessions : net'[s] \in Int
      BY <2>1, <3>1
    <3> QED
      BY <2>1, <2>2, <3>2
  <2> QED
    BY <1>18, <2>3 DEF EmitIdle, TypeInv, TypeOK, Ownership
<1>19. CASE WatcherExit
  BY <1>19 DEF WatcherExit, TypeInv, TypeOK, Ownership
<1>20. CASE Start
  BY <1>20 DEF Start, TypeInv, TypeOK, Ownership
<1>21. CASE StopCancel
  BY <1>21 DEF StopCancel, TypeInv, TypeOK, Ownership
<1>22. CASE StopCloseAll
  BY <1>22 DEF StopCloseAll, TypeInv, TypeOK, Ownership
<1>23. CASE StopReturn
  BY <1>23 DEF StopReturn, TypeInv, TypeOK, Ownership
<1>24. ASSUME NEW s \in Sessions, ForgetRemove(s) PROVE TypeInv'
  BY <1>24 DEF ForgetRemove, TypeInv, TypeOK, Ownership
<1>25. ASSUME NEW o \in States, ForgetCheck(o) PROVE TypeInv'
  BY <1>25 DEF ForgetCheck, TypeInv, TypeOK, Ownership
<1>26. ASSUME NEW o \in States, ForgetClose(o) PROVE TypeInv'
  BY <1>26 DEF ForgetClose, TypeInv, TypeOK, Ownership
<1>27. CASE UNCHANGED vars
  BY <1>27 DEF vars, TypeInv, TypeOK, Ownership
<1> QED
  BY <1>1, <1>2, <1>3, <1>4, <1>5, <1>6, <1>7, <1>8, <1>9, <1>10, <1>11, <1>12,
     <1>13, <1>14, <1>15, <1>16, <1>17, <1>18, <1>19, <1>20, <1>21, <1>22, <1>23,
     <1>24, <1>25, <1>26, <1>27
  DEF Next, Forge, Callers, Watcher, Reader

\* Every reachable state is well typed, a reader holds an event exactly while
\* it is about to call the callback, and every entry of c.sessions is an object
\* allocated for that very session.
THEOREM TypeCorrect == Spec => [](TypeOK /\ Ownership)
<1>1. Init => TypeInv
  BY TypeInit
<1>2. TypeInv /\ [Next]_vars => TypeInv'
  BY TypeNext
<1> QED
  BY <1>1, <1>2, PTL DEF Spec, TypeInv

-----------------------------------------------------------------------------
(* No stop channel is closed twice.  The object a Forget call works on has  *)
(* left c.sessions, where Stop would find it, and nobody puts it back.      *)

ForgetInv ==
    /\ \A s \in Sessions : sessions[s] # NoState => forgetPc[sessions[s]] = "none"
    /\ \A o \in States : pc[o] = "unused" => forgetPc[o] = "none"
    /\ NoDoubleClose

\* The steps that take no part in it.
LEMMA ForgetFrame ==
    ASSUME TypeInv, Next,
           ~ \E s \in Sessions : ForgetRemove(s) \/ \E o \in States : Track(s, o),
           ~ \E o \in States : ForgetCheck(o) \/ ForgetClose(o),
           ~ StopCloseAll
    PROVE  /\ UNCHANGED <<sessions, forgetPc, stopClosed>>
           /\ \A p \in States : pc'[p] = "unused" => pc[p] = "unused"
<1> USE DEF forgeVars, objVars, connVars, readVars, lifeVars, watchVars, histVars
<1>1. ASSUME NEW s \in Sessions, NEW kind \in RowKinds,
             AppendRow(s, kind) \/ TurnEnds(s)
      PROVE  UNCHANGED <<sessions, forgetPc, stopClosed, pc>>
  BY <1>1 DEF AppendRow, TurnEnds
<1>2. ASSUME NEW s \in Sessions, TurnEnds(s)
      PROVE  UNCHANGED <<sessions, forgetPc, stopClosed, pc>>
  BY <1>2 DEF TurnEnds
<1>3. ASSUME NEW o \in States, Stall(o) \/ QuietElapses(o) \/ EmitIdle(o)
      PROVE  UNCHANGED <<sessions, forgetPc, stopClosed, pc>>
  BY <1>3 DEF Stall, QuietElapses, EmitIdle
<1>4. ASSUME CheckIdle \/ WatcherExit \/ Start \/ StopCancel \/ StopReturn
      PROVE  UNCHANGED <<sessions, forgetPc, stopClosed, pc>>
  BY <1>4 DEF CheckIdle, WatcherExit, Start, StopCancel, StopReturn
<1>5. ASSUME NEW o \in States, Reader(o) \/ Seed(o)
      PROVE  /\ UNCHANGED <<sessions, forgetPc, stopClosed>>
             /\ \E l \in LivePc \cup {"done"} :
                  pc' = pc \/ pc' = [pc EXCEPT ![o] = l]
  <2> USE DEF LivePc, Connected
  <2>1. CASE Seed(o)
    BY <2>1 DEF Seed
  <2>2. CASE LoopTop(o) \/ Backoff(o)
    BY <2>2 DEF LoopTop, Backoff
  <2>3. CASE Connect(o) \/ DialFails(o) \/ Cancelled(o) \/ StreamBreaks(o)
    BY <2>3 DEF Connect, DialFails, Cancelled, StreamBreaks, Hangup
  <2>4. CASE ReadRow(o)
    BY <2>4 DEF ReadRow
  <2>5. CASE ReadTurnEnded(o)
    BY <2>5 DEF ReadTurnEnded
  <2>6. CASE HandleMessage(o)
    <3>1. \/ pc' = [pc EXCEPT ![o] = "reading"]
          \/ pc' = [pc EXCEPT ![o] = "emitting"]
      BY <2>6, HandleMessageEffect DEF TypeInv, TypeOK
    <3> QED
      BY <2>6, <3>1 DEF HandleMessage
  <2>7. CASE Emit(o)
    BY <2>7 DEF Emit
  <2> QED
    BY <1>5, <2>1, <2>2, <2>3, <2>4, <2>5, <2>6, <2>7 DEF Reader
<1>6. ASSUME NEW o \in States, Reader(o) \/ Seed(o)
      PROVE  \A p \in States : pc'[p] = "unused" => pc[p] = "unused"
  BY <1>5, <1>6 DEF TypeInv, TypeOK, LivePc, Connected
<1> QED
  BY <1>1, <1>2, <1>3, <1>4, <1>5, <1>6 DEF Next, Forge, Callers, Watcher

\* Track, Forget and Stop keep the discipline of the stop channels.
LEMMA ForgetNext == TypeInv /\ ForgetInv /\ [Next]_vars => ForgetInv'
<1> SUFFICES ASSUME TypeInv, ForgetInv, [Next]_vars PROVE ForgetInv'
  OBVIOUS
<1> USE NullAssumption
    DEF ForgetInv, NoDoubleClose, TypeInv, TypeOK, Ownership,
        objVars, connVars, readVars, lifeVars
<1>1. ASSUME NEW s \in Sessions, NEW o \in States, Track(s, o) PROVE ForgetInv'
  BY <1>1 DEF Track
<1>2. ASSUME NEW s \in Sessions, ForgetRemove(s) PROVE ForgetInv'
  BY <1>2 DEF ForgetRemove
<1>3. ASSUME NEW o \in States, ForgetCheck(o) PROVE ForgetInv'
  BY <1>3 DEF ForgetCheck
<1>4. ASSUME NEW o \in States, ForgetClose(o) PROVE ForgetInv'
  BY <1>4 DEF ForgetClose
<1>5. CASE StopCloseAll
  <2>1. /\ UNCHANGED <<sessions, forgetPc, pc>>
        /\ \A o \in States :
             stopClosed'[o] = (stopClosed[o] \/ \E s \in Sessions : sessions[s] = o)
    BY <1>5 DEF StopCloseAll
  <2>2. ASSUME NEW o \in States, forgetPc[o] = "closing"
        PROVE  ~stopClosed'[o]
    <3>1. ~stopClosed[o]
      BY <2>2
    <3>2. ASSUME NEW s \in Sessions, sessions[s] = o PROVE FALSE
      <4>1. sessions[s] # NoState
        BY <3>2
      <4>2. forgetPc[sessions[s]] = "none"
        BY <4>1
      <4> QED
        BY <2>2, <3>2, <4>2
    <3> QED
      BY <2>1, <3>1, <3>2, Zenon
  <2> QED
    BY <2>1, <2>2
<1>6. CASE UNCHANGED vars
  BY <1>6 DEF vars
<1>7. CASE /\ Next
           /\ ~ \E s \in Sessions :
                  ForgetRemove(s) \/ \E o \in States : Track(s, o)
           /\ ~ \E o \in States : ForgetCheck(o) \/ ForgetClose(o)
           /\ ~ StopCloseAll
  <2>1. /\ UNCHANGED <<sessions, forgetPc, stopClosed>>
        /\ \A p \in States : pc'[p] = "unused" => pc[p] = "unused"
    BY <1>7, ForgetFrame
  <2> QED
    BY <2>1
<1> QED
  BY <1>1, <1>2, <1>3, <1>4, <1>5, <1>6, <1>7

\* close(st.stop) never runs on a channel that is closed already, however
\* Forget and Stop interleave.
THEOREM StopChannelClosedOnce == Spec => []NoDoubleClose
<1>1. Init => ForgetInv
  BY DEF Init, ForgetInv, NoDoubleClose
<1>2. TypeInv /\ ForgetInv /\ [Next]_vars => ForgetInv'
  BY ForgetNext
<1>3. ForgetInv => NoDoubleClose
  BY DEF ForgetInv
<1> QED
  BY <1>1, <1>2, <1>3, TypeCorrect, PTL DEF Spec, TypeInv

-----------------------------------------------------------------------------
(* Nothing is emitted once Stop has returned.  A Track that was in flight   *)
(* may still start a reader, on the root context and never past LoopTop.    *)

AtRest(o) ==
    /\ pc[o] \in {"unused", "seeding", "loop", "done"}
    /\ pc[o] = "loop" => ctx[o] = "root"

StopInv ==
    /\ watcher # "on" => idles = {}
    /\ phase = "new" => watcher = "off"
    /\ phase = "stopped" => watcher = "done" /\ \A o \in States : AtRest(o)

\* With the watcher gone and every reader at rest, few steps are left.
LEMMA StoppedStep ==
    ASSUME TypeInv, StopInv, phase = "stopped", Next
    PROVE  /\ UNCHANGED <<phase, watcher, idles, emitted, net>>
           /\ \A o \in States : AtRest(o)'
<1>1. /\ watcher = "done" /\ idles = {}
      /\ \A o \in States : AtRest(o)
  BY DEF StopInv
<1> USE DEF forgeVars, objVars, connVars, readVars, lifeVars, watchVars, histVars
<1>2. ASSUME NEW s \in Sessions,
             \/ TurnEnds(s) \/ ForgetRemove(s)
             \/ \E kind \in RowKinds : AppendRow(s, kind)
      PROVE  UNCHANGED <<phase, watcher, idles, emitted, net, pc, ctx>>
  BY <1>2 DEF TurnEnds, ForgetRemove, AppendRow
<1>3. ASSUME NEW o \in States,
             Stall(o) \/ QuietElapses(o) \/ ForgetCheck(o) \/ ForgetClose(o)
      PROVE  UNCHANGED <<phase, watcher, idles, emitted, net, pc, ctx>>
  BY <1>3 DEF Stall, QuietElapses, ForgetCheck, ForgetClose
<1>4. ASSUME NEW s \in Sessions, NEW o \in States, Track(s, o)
      PROVE  /\ UNCHANGED <<phase, watcher, idles, emitted, net, ctx>>
             /\ pc' = [pc EXCEPT ![o] = "seeding"]
  BY <1>4 DEF Track
<1>5. ASSUME NEW o \in States, Seed(o)
      PROVE  /\ UNCHANGED <<phase, watcher, idles, emitted, net>>
             /\ pc' = [pc EXCEPT ![o] = "loop"]
             /\ ctx' = [ctx EXCEPT ![o] = "root"]
  BY <1>5 DEF Seed, ReaderContext
<1>6. ASSUME NEW o \in States, LoopTop(o)
      PROVE  /\ UNCHANGED <<phase, watcher, idles, emitted, net, ctx>>
             /\ pc' = [pc EXCEPT ![o] = "done"]
  BY <1>1, <1>6 DEF LoopTop, AtRest, CtxDone, RootCancelled
<1>7. \A o \in States :
        ~ \/ Connect(o) \/ DialFails(o) \/ Cancelled(o) \/ StreamBreaks(o)
          \/ Backoff(o) \/ ReadRow(o) \/ ReadTurnEnded(o)
          \/ HandleMessage(o) \/ Emit(o) \/ EmitIdle(o)
  BY <1>1 DEF AtRest, Connect, DialFails, Cancelled, StreamBreaks, Backoff,
              ReadRow, ReadTurnEnded, HandleMessage, Emit, EmitIdle
<1>8. ~ (CheckIdle \/ WatcherExit \/ Start \/ StopCancel \/ StopCloseAll \/ StopReturn)
  BY <1>1 DEF CheckIdle, WatcherExit, Start, StopCancel, StopCloseAll, StopReturn
<1> QED
  <2>1. UNCHANGED <<phase, watcher, idles, emitted, net>>
    BY <1>2, <1>3, <1>4, <1>5, <1>6, <1>7, <1>8
    DEF Next, Forge, Callers, Watcher, Reader
  <2>2. \/ UNCHANGED <<pc, ctx>>
        \/ \E o \in States :
             \/ UNCHANGED ctx /\ pc' = [pc EXCEPT ![o] = "seeding"]
             \/ UNCHANGED ctx /\ pc' = [pc EXCEPT ![o] = "done"]
             \/ /\ pc' = [pc EXCEPT ![o] = "loop"]
                /\ ctx' = [ctx EXCEPT ![o] = "root"]
    BY <1>2, <1>3, <1>4, <1>5, <1>6, <1>7, <1>8
    DEF Next, Forge, Callers, Watcher, Reader
  <2>3. \A o \in States : AtRest(o)'
    BY <1>1, <2>2 DEF AtRest, TypeInv, TypeOK
  <2> QED
    BY <2>1, <2>3

\* Every step keeps what StopInv says about the goroutines Stop waits for.
LEMMA StopNext == TypeInv /\ StopInv /\ [Next]_vars => StopInv'
<1> SUFFICES ASSUME TypeInv, StopInv, [Next]_vars PROVE StopInv'
  OBVIOUS
<1>1. CASE UNCHANGED vars
  BY <1>1 DEF vars, StopInv, AtRest, readVars, lifeVars, watchVars
<1>2. CASE Next /\ phase = "stopped"
  BY <1>2, StoppedStep DEF StopInv
<1>3. CASE Next /\ phase # "stopped"
  <2> USE DEF forgeVars, objVars, connVars, readVars, lifeVars, watchVars, histVars
  <2>1. CASE StopReturn
    <3>1. \A o \in States : pc[o] \notin LivePc
      BY <2>1 DEF StopReturn, Live
    <3>2. \A o \in States : AtRest(o)
      BY <3>1 DEF AtRest, LivePc, Connected, TypeInv, TypeOK
    <3> QED
      BY <2>1, <3>2 DEF StopReturn, StopInv, AtRest
  <2>2. CASE CheckIdle \/ WatcherExit \/ Start \/ StopCancel \/ StopCloseAll
    BY <1>3, <2>2 DEF StopInv, CheckIdle, WatcherExit, Start, StopCancel, StopCloseAll
  <2>3. ASSUME NEW o \in States, EmitIdle(o) PROVE StopInv'
    BY <1>3, <2>3 DEF StopInv, EmitIdle
  <2>4. ASSUME ~ \/ StopReturn \/ CheckIdle \/ WatcherExit \/ Start
                 \/ StopCancel \/ StopCloseAll \/ \E o \in States : EmitIdle(o)
        PROVE  UNCHANGED <<phase, watcher, idles>>
    <3>1. ASSUME NEW s \in Sessions,
                 \/ TurnEnds(s) \/ ForgetRemove(s)
                 \/ \E kind \in RowKinds : AppendRow(s, kind)
                 \/ \E o \in States : Track(s, o)
          PROVE  UNCHANGED <<phase, watcher, idles>>
      BY <3>1 DEF TurnEnds, ForgetRemove, AppendRow, Track
    <3>2. ASSUME NEW o \in States,
                 \/ Stall(o) \/ QuietElapses(o) \/ ForgetCheck(o) \/ ForgetClose(o)
                 \/ Seed(o) \/ LoopTop(o) \/ Connect(o) \/ DialFails(o)
          PROVE  UNCHANGED <<phase, watcher, idles>>
      BY <3>2 DEF Stall, QuietElapses, ForgetCheck, ForgetClose, Seed, LoopTop,
                  Connect, DialFails
    <3>3. ASSUME NEW o \in States,
                 \/ Cancelled(o) \/ StreamBreaks(o) \/ Backoff(o) \/ ReadRow(o)
                 \/ ReadTurnEnded(o) \/ HandleMessage(o) \/ Emit(o)
          PROVE  UNCHANGED <<phase, watcher, idles>>
      BY <3>3 DEF Cancelled, StreamBreaks, Backoff, ReadRow, ReadTurnEnded,
                  HandleMessage, Emit
    <3> QED
      BY <1>3, <2>4, <3>1, <3>2, <3>3 DEF Next, Forge, Callers, Watcher, Reader
  <2>5. UNCHANGED <<phase, watcher, idles>> => StopInv'
    BY <1>3 DEF StopInv
  <2> QED
    BY <2>1, <2>2, <2>3, <2>4, <2>5
<1> QED
  BY <1>1, <1>2, <1>3

\* "After Stop returns, no further callbacks will fire": neither a row event
\* nor a typing event, for any number of sessions and calls in flight.
THEOREM SilentAfterStop == Spec => NoCallbackAfterStop
<1>1. Init => StopInv
  BY DEF Init, StopInv
<1>2. TypeInv /\ StopInv /\ [Next]_vars => StopInv'
  BY StopNext
<1>3. TypeInv /\ StopInv /\ [Next]_vars
        => [phase = "stopped" => UNCHANGED <<emitted, net>>]_vars
  BY StoppedStep DEF vars, histVars
<1> QED
  BY <1>1, <1>2, <1>3, TypeCorrect, PTL DEF Spec, TypeInv, NoCallbackAfterStop
-----------------------------------------------------------------------------
(* Typing indicators *)

Typing(s) == {o \in States : owner[o] = s /\ typingNow[o]}
IdleOf(s) == {o \in idles : owner[o] = s}

\* The balance of a session, of sets that are finite.
Balance(s) ==
    /\ IsFiniteSet(Starting(s)) /\ IsFiniteSet(Stopping(s))
    /\ IsFiniteSet(Typing(s)) /\ IsFiniteSet(IdleOf(s))
    /\ net[s] + Cardinality(Starting(s)) =
         Cardinality(Typing(s)) + Cardinality(Stopping(s)) + Cardinality(IdleOf(s))

\* An object that Track has not taken has nothing to do with typing yet.
Silent == \A o \in States : pc[o] = "unused" => ~typingNow[o] /\ o \notin idles

BalanceInv == Silent /\ \A s \in Sessions : Balance(s)

\* A step leaves what counts for session s alone.
Unmoved(s) ==
    /\ net'[s] = net[s]
    /\ Starting(s)' = Starting(s) /\ Stopping(s)' = Stopping(s)
    /\ Typing(s)' = Typing(s) /\ IdleOf(s)' = IdleOf(s)

LEMMA UnmovedBalance == ASSUME NEW s, Balance(s), Unmoved(s) PROVE Balance(s)'
BY DEF Balance, Unmoved

LEMMA Added ==
    ASSUME NEW S, IsFiniteSet(S), NEW x, x \notin S
    PROVE  /\ IsFiniteSet(S \cup {x}) /\ Cardinality(S) \in Nat
           /\ Cardinality(S \cup {x}) = Cardinality(S) + 1
BY FS_AddElement, FS_CardinalityType

LEMMA Removed ==
    ASSUME NEW S, IsFiniteSet(S), NEW x, x \in S
    PROVE  /\ IsFiniteSet(S \ {x}) /\ Cardinality(S) \in Nat
           /\ Cardinality(S \ {x}) = Cardinality(S) - 1
BY FS_RemoveElement, FS_CardinalityType

LEMMA BalanceTypes ==
    ASSUME TypeInv, NEW s \in Sessions, Balance(s)
    PROVE  /\ net[s] \in Int
           /\ Cardinality(Starting(s)) \in Nat /\ Cardinality(Stopping(s)) \in Nat
           /\ Cardinality(Typing(s)) \in Nat /\ Cardinality(IdleOf(s)) \in Nat
BY FS_CardinalityType DEF TypeInv, TypeOK, Balance

\* turn_ended takes the object from those that type to those about to stop.
LEMMA TurnEndedBalance ==
    ASSUME TypeInv, NEW s \in Sessions, Balance(s), NEW o \in States, ReadTurnEnded(o)
    PROVE  Balance(s)'
<1>1. /\ pending[o] = NoEvent /\ UNCHANGED <<owner, idles, net>>
      /\ typingNow' = [typingNow EXCEPT ![o] = FALSE]
  BY DEF ReadTurnEnded, TypeInv, TypeOK, watchVars, histVars
<1>2. IdleOf(s)' = IdleOf(s) /\ net'[s] = net[s]
  BY <1>1 DEF IdleOf
<1>3. CASE typingNow[o] /\ owner[o] = s
  <2>1. pending' = [pending EXCEPT ![o] = "typing_stop"]
    BY <1>3 DEF ReadTurnEnded
  <2>2. /\ Starting(s)' = Starting(s) /\ Stopping(s)' = Stopping(s) \cup {o}
        /\ Typing(s)' = Typing(s) \ {o} /\ o \notin Stopping(s) /\ o \in Typing(s)
    BY <1>1, <1>3, <2>1
       DEF Starting, Stopping, Typing, TypeInv, TypeOK, NoEvent
  <2>3. /\ IsFiniteSet(Stopping(s)') /\ IsFiniteSet(Typing(s)')
        /\ Cardinality(Stopping(s)') = Cardinality(Stopping(s)) + 1
        /\ Cardinality(Typing(s)') = Cardinality(Typing(s)) - 1
    BY <2>2, Added, Removed DEF Balance
  <2> QED
    BY <1>2, <2>2, <2>3, BalanceTypes DEF Balance
<1>4. CASE ~(typingNow[o] /\ owner[o] = s)
  <2>1. Starting(s)' = Starting(s) /\ Stopping(s)' = Stopping(s) /\ Typing(s)' = Typing(s)
    <3>1. Typing(s)' = Typing(s)
      BY <1>1, <1>4 DEF Typing, TypeInv, TypeOK
    <3>2. CASE typingNow[o]
      BY <1>1, <1>4, <3>1, <3>2
         DEF ReadTurnEnded, Starting, Stopping, TypeInv, TypeOK
    <3>3. CASE ~typingNow[o]
      BY <1>1, <3>1, <3>3 DEF ReadTurnEnded, Starting, Stopping
    <3> QED
      BY <3>2, <3>3
  <2> QED
    BY <1>2, <2>1, UnmovedBalance DEF Unmoved
<1> QED
  BY <1>3, <1>4

\* startTyping adds the object of the session to those that type, and its reader
\* to those about to start.
LEMMA HandleBalance ==
    ASSUME TypeInv, NEW s \in Sessions, Balance(s), NEW o \in States, HandleMessage(o)
    PROVE  Balance(s)'
<1> DEFINE t == sessions[owner[o]]
<1>1. pending[o] = NoEvent /\ UNCHANGED <<owner, idles, net>> /\ owner[o] \in Sessions
  BY DEF HandleMessage, TypeInv, TypeOK, Ownership, watchVars, histVars
<1>2. IdleOf(s)' = IdleOf(s) /\ net'[s] = net[s]
  BY <1>1 DEF IdleOf
<1>3. ASSUME StartTyping(o), t # NoState, ~typingNow[t] PROVE Balance(s)'
  <2>1. t \in States /\ owner[t] = owner[o]
    BY <1>1, <1>3 DEF TypeInv, TypeOK, Ownership
  <2>2. /\ typingNow' = [typingNow EXCEPT ![t] = TRUE]
        /\ pending' = [pending EXCEPT ![o] = "typing_start"]
    BY <1>3 DEF StartTyping
  <2> HIDE DEF t
  <2>3. CASE owner[o] = s
    <3>1. /\ Starting(s)' = Starting(s) \cup {o} /\ Stopping(s)' = Stopping(s)
          /\ Typing(s)' = Typing(s) \cup {t} /\ o \notin Starting(s) /\ t \notin Typing(s)
      BY <1>1, <1>3, <2>1, <2>2, <2>3
         DEF Starting, Stopping, Typing, TypeInv, TypeOK, NoEvent
    <3>2. /\ IsFiniteSet(Starting(s)') /\ IsFiniteSet(Typing(s)')
          /\ Cardinality(Starting(s)') = Cardinality(Starting(s)) + 1
          /\ Cardinality(Typing(s)') = Cardinality(Typing(s)) + 1
      BY <3>1, Added DEF Balance
    <3> QED
      BY <1>2, <3>1, <3>2, BalanceTypes DEF Balance
  <2>4. CASE owner[o] # s
    <3>1. Starting(s)' = Starting(s) /\ Stopping(s)' = Stopping(s) /\ Typing(s)' = Typing(s)
      BY <1>1, <2>1, <2>2, <2>4 DEF Starting, Stopping, Typing, TypeInv, TypeOK
    <3> QED
      BY <1>2, <3>1, UnmovedBalance DEF Unmoved
  <2> QED
    BY <2>3, <2>4
<1>4. ASSUME typingNow' = typingNow, NEW e \in RowEvents \cup {NoEvent},
             pending' = [pending EXCEPT ![o] = e]
      PROVE  Balance(s)'
  <2>1. Starting(s)' = Starting(s) /\ Stopping(s)' = Stopping(s) /\ Typing(s)' = Typing(s)
    BY <1>1, <1>4 DEF Starting, Stopping, Typing, TypeInv, TypeOK, RowEvents, NoEvent
  <2> QED
    BY <1>2, <2>1, UnmovedBalance DEF Unmoved
<1>5. pending = [pending EXCEPT ![o] = NoEvent]
  BY <1>1 DEF TypeInv, TypeOK
<1>6. ASSUME StartTyping(o), t = NoState \/ typingNow[t] PROVE Balance(s)'
  <2>1. pending' = pending
    BY <1>6 DEF StartTyping
  <2>2. typingNow' = typingNow
    <3>1. CASE t = NoState
      BY <1>6, <3>1 DEF StartTyping
    <3>2. CASE t # NoState
      <4>1. t \in States /\ typingNow[t] = TRUE
        BY <1>1, <1>6, <3>2 DEF TypeInv, TypeOK
      <4>2. typingNow' = [typingNow EXCEPT ![t] = TRUE]
        BY <1>6, <3>2 DEF StartTyping
      <4> QED
        BY <4>1, <4>2 DEF TypeInv, TypeOK
    <3> QED
      BY <3>1, <3>2
  <2> QED
    BY <1>4, <1>5, <2>1, <2>2
<1> QED
  BY <1>3, <1>4, <1>5, <1>6, EventOfType DEF HandleMessage

\* The callback counts what was about to start or stop.
LEMMA EmitBalance ==
    ASSUME TypeInv, NEW s \in Sessions, Balance(s), NEW o \in States, Emit(o)
    PROVE  Balance(s)'
<1>1. /\ UNCHANGED <<owner, idles, typingNow>>
      /\ pending' = [pending EXCEPT ![o] = NoEvent]
      /\ pending[o] \in RowEvents \cup {"typing_start", "typing_stop"}
  BY DEF Emit, TypeInv, TypeOK, Events, objVars, watchVars
<1>2. IdleOf(s)' = IdleOf(s) /\ Typing(s)' = Typing(s)
  BY <1>1 DEF IdleOf, Typing
<1>3. CASE pending[o] \in RowEvents \/ owner[o] # s
  <2>1. Starting(s)' = Starting(s) /\ Stopping(s)' = Stopping(s) /\ net'[s] = net[s]
    BY <1>1, <1>3 DEF Emit, Starting, Stopping, TypeInv, TypeOK, RowEvents, NoEvent
  <2> QED
    BY <1>2, <2>1, UnmovedBalance DEF Unmoved
<1>4. CASE pending[o] = "typing_start" /\ owner[o] = s
  <2>1. /\ Starting(s)' = Starting(s) \ {o} /\ Stopping(s)' = Stopping(s)
        /\ o \in Starting(s) /\ net'[s] = net[s] + 1
    BY <1>1, <1>4 DEF Emit, Starting, Stopping, TypeInv, TypeOK, RowEvents, NoEvent
  <2>2. IsFiniteSet(Starting(s)') /\ Cardinality(Starting(s)') = Cardinality(Starting(s)) - 1
    BY <2>1, Removed DEF Balance
  <2> QED
    BY <1>2, <2>1, <2>2, BalanceTypes DEF Balance
<1>5. CASE pending[o] = "typing_stop" /\ owner[o] = s
  <2>1. /\ Stopping(s)' = Stopping(s) \ {o} /\ Starting(s)' = Starting(s)
        /\ o \in Stopping(s) /\ net'[s] = net[s] - 1
    BY <1>1, <1>5 DEF Emit, Starting, Stopping, TypeInv, TypeOK, RowEvents, NoEvent
  <2>2. IsFiniteSet(Stopping(s)') /\ Cardinality(Stopping(s)') = Cardinality(Stopping(s)) - 1
    BY <2>1, Removed DEF Balance
  <2> QED
    BY <1>2, <2>1, <2>2, BalanceTypes DEF Balance
<1> QED
  BY <1>1, <1>3, <1>4, <1>5

\* Of the objects of a session, the watcher takes the one in c.sessions if any.
LEMMA CheckIdleBalance ==
    ASSUME TypeInv, NEW s \in Sessions, Balance(s), CheckIdle
    PROVE  Balance(s)'
<1> DEFINE t == sessions[s]
<1>1. /\ UNCHANGED <<owner, pending, net>> /\ IdleOf(s) = {}
      /\ idles' = {o \in States : Idle(o)}
      /\ typingNow' = [o \in States |-> typingNow[o] /\ ~Idle(o)]
  BY DEF CheckIdle, IdleOf, readVars, histVars
<1>2. Starting(s)' = Starting(s) /\ Stopping(s)' = Stopping(s) /\ net'[s] = net[s]
  BY <1>1 DEF Starting, Stopping
<1>3. \A o \in States : Idle(o) /\ owner[o] = s => o = t
  BY NullAssumption DEF Idle, TypeInv, Ownership
<1>4. t \in States => owner[t] = s
  BY NullAssumption DEF TypeInv, Ownership
<1>5. CASE t \in States /\ Idle(t)
  <2>1. /\ IdleOf(s)' = IdleOf(s) \cup {t} /\ t \notin IdleOf(s)
        /\ Typing(s)' = Typing(s) \ {t} /\ t \in Typing(s)
    <3>1. typingNow[t]
      BY <1>5 DEF Idle
    <3>2. IdleOf(s)' = {t}
      BY <1>1, <1>3, <1>4, <1>5 DEF IdleOf
    <3>3. Typing(s)' = Typing(s) \ {t}
      BY <1>1, <1>3, <1>4, <1>5 DEF Typing
    <3> QED
      BY <1>1, <1>4, <1>5, <3>1, <3>2, <3>3 DEF Typing
  <2> HIDE DEF t
  <2>2. /\ IsFiniteSet(IdleOf(s)') /\ IsFiniteSet(Typing(s)')
        /\ Cardinality(IdleOf(s)') = Cardinality(IdleOf(s)) + 1
        /\ Cardinality(Typing(s)') = Cardinality(Typing(s)) - 1
    BY <2>1, Added, Removed DEF Balance
  <2> QED
    BY <1>2, <2>1, <2>2, BalanceTypes DEF Balance
<1>6. CASE ~(t \in States /\ Idle(t))
  <2>1. \A o \in States : owner[o] = s => ~Idle(o)
    BY <1>3, <1>6
  <2>2. IdleOf(s)' = IdleOf(s) /\ Typing(s)' = Typing(s)
    BY <1>1, <2>1 DEF IdleOf, Typing
  <2> QED
    BY <1>2, <2>2, UnmovedBalance DEF Unmoved
<1> QED
  BY <1>5, <1>6

LEMMA EmitIdleBalance ==
    ASSUME TypeInv, NEW s \in Sessions, Balance(s), NEW o \in States, EmitIdle(o)
    PROVE  Balance(s)'
<1>1. /\ UNCHANGED <<owner, pending, typingNow>> /\ o \in idles
      /\ idles' = idles \ {o} /\ net' = [net EXCEPT ![owner[o]] = @ - 1]
  BY DEF EmitIdle, objVars, readVars
<1>2. Starting(s)' = Starting(s) /\ Stopping(s)' = Stopping(s) /\ Typing(s)' = Typing(s)
  BY <1>1 DEF Starting, Stopping, Typing
<1>3. CASE owner[o] = s
  <2>1. IdleOf(s)' = IdleOf(s) \ {o} /\ o \in IdleOf(s) /\ net'[s] = net[s] - 1
    BY <1>1, <1>3 DEF IdleOf, TypeInv, TypeOK
  <2>2. IsFiniteSet(IdleOf(s)') /\ Cardinality(IdleOf(s)') = Cardinality(IdleOf(s)) - 1
    BY <2>1, Removed DEF Balance
  <2>3. net'[s] + Cardinality(Starting(s)') =
          Cardinality(Typing(s)') + Cardinality(Stopping(s)') + Cardinality(IdleOf(s)')
    <3>1. net[s] + Cardinality(Starting(s)) =
            Cardinality(Typing(s)) + Cardinality(Stopping(s)) + Cardinality(IdleOf(s))
      BY DEF Balance
    <3>2. (net[s] - 1) + Cardinality(Starting(s)) =
            Cardinality(Typing(s)) + Cardinality(Stopping(s))
            + (Cardinality(IdleOf(s)) - 1)
      BY <3>1, BalanceTypes
    <3> QED
      BY <1>2, <2>1, <2>2, <3>2
  <2> QED
    BY <1>2, <2>2, <2>3 DEF Balance
<1>4. CASE owner[o] # s
  <2>1. IdleOf(s)' = IdleOf(s) /\ net'[s] = net[s]
    BY <1>1, <1>4 DEF IdleOf, TypeInv, TypeOK
  <2> QED
    BY <1>2, <2>1, UnmovedBalance DEF Unmoved
<1> QED
  BY <1>3, <1>4

LEMMA BalanceStep == TypeInv /\ BalanceInv /\ [Next]_vars => BalanceInv'
<1> SUFFICES ASSUME TypeInv, BalanceInv, [Next]_vars PROVE BalanceInv'
  OBVIOUS
<1> USE DEF forgeVars, objVars, connVars, readVars, lifeVars, watchVars, histVars
<1>1. ASSUME NEW s \in Sessions, NEW o \in States, Track(s, o) PROVE BalanceInv'
  <2>1. /\ UNCHANGED <<net, idles, pending, typingNow>>
        /\ owner' = [owner EXCEPT ![o] = s] /\ pc' = [pc EXCEPT ![o] = "seeding"]
        /\ pending[o] = NoEvent /\ ~typingNow[o] /\ o \notin idles
    BY <1>1 DEF Track, BalanceInv, Silent, TypeInv, TypeOK
  <2>2. Silent'
    BY <2>1 DEF Silent, BalanceInv, TypeInv, TypeOK
  <2>3. ASSUME NEW r \in Sessions PROVE Unmoved(r)
    BY <2>1 DEF Unmoved, Starting, Stopping, Typing, IdleOf, NoEvent, TypeInv, TypeOK
  <2> QED
    BY <2>2, <2>3, UnmovedBalance DEF BalanceInv
<1>2. ASSUME NEW o \in States, ReadTurnEnded(o) \/ HandleMessage(o) \/ Emit(o)
      PROVE  BalanceInv'
  <2>1. Silent'
    <3>1. /\ idles' = idles /\ pc[o] # "unused"
          /\ \A r \in States : pc'[r] = "unused" => pc[r] = "unused"
      BY <1>2 DEF ReadTurnEnded, HandleMessage, StartTyping, Emit, TypeInv, TypeOK
    <3>2. \A r \in States : pc[r] = "unused" /\ typingNow'[r] => typingNow[r]
      <4>1. \A s \in Sessions : sessions[s] # NoState => pc[sessions[s]] # "unused"
        BY NullAssumption DEF TypeInv, Ownership, TypeOK
      <4>2. HandleMessage(o) => owner[o] \in Sessions
        BY DEF HandleMessage, TypeInv, Ownership, TypeOK
      <4>3. CASE ReadTurnEnded(o) \/ Emit(o)
        BY <4>3 DEF ReadTurnEnded, Emit, TypeInv, TypeOK
      <4>4. CASE HandleMessage(o)
        <5>1. \/ typingNow' = typingNow
              \/ /\ sessions[owner[o]] # NoState
                 /\ typingNow' = [typingNow EXCEPT ![sessions[owner[o]]] = TRUE]
          BY <4>4 DEF HandleMessage, StartTyping
        <5> QED
          BY <4>1, <4>2, <4>4, <5>1 DEF TypeInv, TypeOK
      <4> QED
        BY <1>2, <4>3, <4>4
    <3> QED
      BY <3>1, <3>2 DEF Silent, BalanceInv
  <2> QED
    BY <1>2, <2>1, TurnEndedBalance, HandleBalance, EmitBalance DEF BalanceInv
<1>3. ASSUME CheckIdle \/ \E o \in States : EmitIdle(o) PROVE BalanceInv'
  <2>1. Silent'
    <3>1. \A o \in States : Idle(o) => pc[o] # "unused"
      BY NullAssumption DEF Idle, TypeInv, Ownership
    <3> QED
      BY <1>3, <3>1 DEF CheckIdle, EmitIdle, Silent, BalanceInv
  <2> QED
    BY <1>3, <2>1, CheckIdleBalance, EmitIdleBalance DEF BalanceInv
<1>4. ASSUME UNCHANGED <<owner, typingNow, pending, idles, net>>,
             \A o \in States : pc'[o] = "unused" => pc[o] = "unused"
      PROVE  BalanceInv'
  <2>1. \A s \in Sessions : Unmoved(s)
    BY <1>4 DEF Unmoved, Starting, Stopping, Typing, IdleOf
  <2>2. Silent'
    BY <1>4 DEF Silent, BalanceInv
  <2> QED
    BY <2>1, <2>2, UnmovedBalance DEF BalanceInv
<1>5. ASSUME NEW o \in States,
             \/ Stall(o) \/ QuietElapses(o) \/ ForgetCheck(o) \/ ForgetClose(o)
             \/ Seed(o) \/ LoopTop(o) \/ Connect(o) \/ DialFails(o) \/ Cancelled(o)
             \/ StreamBreaks(o) \/ Backoff(o) \/ ReadRow(o)
      PROVE  BalanceInv'
  <2>1. UNCHANGED <<owner, typingNow, pending, idles, net>>
    BY <1>5 DEF Stall, QuietElapses, ForgetCheck, ForgetClose, Seed, LoopTop, Connect,
                DialFails, Cancelled, StreamBreaks, Backoff, ReadRow
  <2>2. \A r \in States : pc'[r] = "unused" => pc[r] = "unused"
    BY <1>5 DEF Stall, QuietElapses, ForgetCheck, ForgetClose, Seed, LoopTop, Connect,
                DialFails, Cancelled, StreamBreaks, Backoff, ReadRow, TypeInv, TypeOK
  <2> QED
    BY <1>4, <2>1, <2>2
<1>6. ASSUME \/ Start \/ StopCancel \/ StopCloseAll \/ StopReturn \/ WatcherExit
             \/ \E s \in Sessions : \/ TurnEnds(s) \/ ForgetRemove(s)
                                    \/ \E kind \in RowKinds : AppendRow(s, kind)
             \/ UNCHANGED vars
      PROVE  BalanceInv'
  BY <1>4, <1>6 DEF Start, StopCancel, StopCloseAll, StopReturn, WatcherExit, TurnEnds,
                    ForgetRemove, AppendRow, vars
<1> QED
  BY <1>1, <1>2, <1>3, <1>5, <1>6 DEF Next, Forge, Callers, Watcher, Reader

\* Every typing_start gets exactly one typing_stop, for any number of sessions,
\* objects and reconnects, whichever of turn_ended and the idle watcher is first.
THEOREM TypingIsBalanced == Spec => []TypingBalanced
<1>1. Init => BalanceInv
  <2> SUFFICES ASSUME Init PROVE BalanceInv
    OBVIOUS
  <2>1. ASSUME NEW s \in Sessions PROVE Balance(s)
    <3>1. Starting(s) = {} /\ Stopping(s) = {} /\ Typing(s) = {} /\ IdleOf(s) = {}
      BY DEF Init, Starting, Stopping, Typing, IdleOf, NoEvent
    <3>2. net[s] = 0
      BY DEF Init
    <3> QED
      BY <3>1, <3>2, FS_EmptySet DEF Balance
  <2> QED
    BY <2>1 DEF Init, BalanceInv, Silent
<1>2. BalanceInv => TypingBalanced
  BY DEF BalanceInv, Balance, TypingBalanced, Typing, IdleOf
<1> QED
  BY <1>1, <1>2, BalanceStep, TypeCorrect, PTL DEF Spec, TypeInv
=============================================================================
