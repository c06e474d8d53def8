------------------------- MODULE ProfileCacheProofs -------------------------
(***************************************************************************)
(* Theorems about ensureProfile, for any number of users, sources, calls   *)
(* in flight, failures and restarts, and for any page size.                *)
(***************************************************************************)
EXTENDS ProfileCache, TLAPS

\* What becomes of the profiles when one is made.
LEMMA MakeAdds ==
    ASSUME TypeOK, NEW i, NEW name, NEW dir \in Places, Make(i, name, dir)
    PROVE  /\ DOMAIN profiles' = DOMAIN profiles \cup {i}
           /\ i \in Ids \ DOMAIN profiles
           /\ profiles'[i] = [name |-> name, dir |-> dir]
           /\ \A j \in DOMAIN profiles : profiles'[j] = profiles[j]
BY DEF Make, Known

\* The types that depend on which ids forge knows survive a new profile.
LEMMA MakeKeepsTypes ==
    ASSUME TypeOK, NEW i, NEW name, NEW dir \in Places, Make(i, name, dir)
    PROVE  /\ Known' \subseteq Ids
           /\ \A j \in Known' : profiles'[j].dir \in Places
           /\ cache \in [Keys -> Known' \cup {NoId}]
           /\ table \in [Keys -> Known' \cup {NoId}]
           /\ \A p \in Handlers : h[p].id \in Known' \cup {NoId}
<1>1. /\ Known' = Known \cup {i}
      /\ i \in Ids
      /\ \A j \in Known : profiles'[j] = profiles[j]
  <2>1. /\ DOMAIN profiles' = DOMAIN profiles \cup {i}
        /\ i \in Ids \ DOMAIN profiles
        /\ \A j \in DOMAIN profiles : profiles'[j] = profiles[j]
    BY MakeAdds
  <2>2. QED BY <2>1 DEF Known
<1>2. profiles'[i].dir = dir
  <2>1. profiles'[i] = [name |-> name, dir |-> dir] BY MakeAdds, Zenon
  <2>2. QED BY <2>1
<1>3. cache \in [Keys -> Known' \cup {NoId}] /\ table \in [Keys -> Known' \cup {NoId}]
  BY <1>1 DEF TypeOK
<1>4. QED BY <1>1, <1>2, <1>3 DEF TypeOK

\* A scan of the list ends with a fitting profile or goes on without one.
LEMMA ScanEnds ==
    ASSUME TypeOK, NEW p, NEW fits \in SUBSET Known, NEW next, Scan(p, fits, next)
    PROVE  /\ (\E i \in fits : Found(p, i, "cache")) \/ Goto(p, next)
           /\ failures' \in 0..MaxFailures
           /\ calm' \in BOOLEAN
<1>1. failures' \in 0..MaxFailures
  BY BoundAssumption DEF Scan, Fails, TypeOK
<1>2. ASSUME NEW page, calm' = (calm /\ page = Known) PROVE calm' \in BOOLEAN
  BY <1>2, Zenon
<1>3. calm' \in BOOLEAN
  BY <1>2, Zenon DEF Scan
<1>4. (\E i \in fits : Found(p, i, "cache")) \/ Goto(p, next)
  BY DEF Scan
<1>5. QED BY <1>1, <1>3, <1>4

\* A call at work has a key; before it has found an id it has none.
LEMMA CallAtWork ==
    ASSUME TypeOK, NEW p \in Handlers
    PROVE  /\ At(p, "idle") <=> h[p] = Idle
           /\ ~At(p, "idle") => h[p].key \in Keys
           /\ h[p].pc \in {"table", "dir", "name", "create"} => h[p].id = NoId
           /\ h[p].pc \in {"recall", "cache", "save"} => h[p].id \in Ids
           /\ h[p] = Idle => h[p].id = NoId
BY DEF TypeOK, Calls, Idle, At

\* Every key has its place.
LEMMA PlaceOfKey == ASSUME NEW key \in Keys PROVE PlaceFor(key) \in Places
BY SourceAssumption DEF Keys, PlaceFor

\* Type correctness: ids that are remembered or in flight are ids of profiles
\* forge has, and a call has an id exactly when it has found one.
THEOREM TypeCorrect == Spec => []TypeOK
<1>1. Init => TypeOK
  BY BoundAssumption DEF Init, TypeOK, Nothing, Known, Calls, Idle
<1>2. TypeOK /\ [Next]_vars => TypeOK'
  <2> SUFFICES ASSUME TypeOK, [Next]_vars PROVE TypeOK' OBVIOUS
  <2> USE DEF Known
  <2>1. CASE OtherProfile
    <3>1. PICK i \in Ids, d \in Places : Make(i, <<>>, d)
      BY <2>1 DEF OtherProfile
    <3>2. QED BY <2>1, <3>1, MakeKeepsTypes DEF OtherProfile, TypeOK
  <2>2. CASE Restart
    BY <2>2 DEF Restart, TypeOK, Nothing, Calls, Idle
  <2>3. ASSUME NEW p \in Handlers, EnsureProfile(p) PROVE TypeOK'
    <3> h[p] \in Calls BY DEF TypeOK
    <3>1. CASE \E key \in Keys : Ask(p, key)
      BY <3>1 DEF Ask, TypeOK, Calls, At
    <3>2. CASE GetForgeProfile(p)
      <4>1. h[p].key \in Keys /\ h[p].id = NoId
        BY <3>2, CallAtWork DEF GetForgeProfile, At
      <4>2. QED
        BY <3>2, <4>1, BoundAssumption
        DEF GetForgeProfile, Found, Fails, AskForge, Goto, TypeOK, Calls, At, Idle
    <3>3. CASE Recall(p)
      BY <3>3, CallAtWork DEF Recall, Finish, TypeOK, Calls, At, Idle
    <3>4. CASE FindProfileByWorkingDir(p)
      <4> DEFINE fits == {i \in Known : profiles[i].dir = PlaceFor(h[p].key)}
      <4>1. h[p].key \in Keys /\ h[p].id = NoId
        BY <3>4, CallAtWork DEF FindProfileByWorkingDir, At
      <4>2. Scan(p, fits, "name") BY <3>4 DEF FindProfileByWorkingDir
      <4>3. /\ (\E i \in Known : Found(p, i, "cache")) \/ Goto(p, "name")
            /\ failures' \in 0..MaxFailures
            /\ calm' \in BOOLEAN
        BY <4>2, ScanEnds
      <4>4. QED
        BY <3>4, <4>1, <4>3
        DEF FindProfileByWorkingDir, Found, Goto, TypeOK, Calls, Idle
    <3>5. CASE FindProfileByName(p)
      <4> DEFINE fits == {i \in Known : profiles[i].name = NameFor(p)}
      <4>1. h[p].key \in Keys /\ h[p].id = NoId
        BY <3>5, CallAtWork DEF FindProfileByName, At
      <4>2. Scan(p, fits, "create") BY <3>5 DEF FindProfileByName
      <4>3. /\ (\E i \in Known : Found(p, i, "cache")) \/ Goto(p, "create")
            /\ failures' \in 0..MaxFailures
            /\ calm' \in BOOLEAN
        BY <4>2, ScanEnds
      <4>4. QED
        BY <3>5, <4>1, <4>3
        DEF FindProfileByName, Found, Goto, TypeOK, Calls, Idle
    <3>6. CASE CreateProfile(p)
      <4>1. h[p].key \in Keys /\ h[p].id = NoId
        BY <3>6, CallAtWork DEF CreateProfile, At
      <4>2. PlaceFor(h[p].key) \in Places BY <4>1, PlaceOfKey
      <4>3. ASSUME NEW i \in Ids, Make(i, NameFor(p), PlaceFor(h[p].key)),
                   Found(p, i, "cache") \/ Finish(p), failures' \in 0..MaxFailures
            PROVE  TypeOK'
        <5>1. i \in Known' BY <4>2, <4>3, MakeAdds
        <5>2. h' \in [Handlers -> Calls]
          BY <4>1, <4>3 DEF Found, Finish, TypeOK, Calls, Idle
        <5>3. \A q \in Handlers : h'[q].id \in Known' \cup {NoId}
          BY <4>2, <4>3, <5>1, MakeKeepsTypes DEF Found, Finish, TypeOK, Idle, Calls
        <5>4. QED
          BY <3>6, <4>2, <4>3, <5>2, <5>3, MakeKeepsTypes DEF CreateProfile, TypeOK
      <4>4. CASE UNCHANGED profiles /\ Finish(p) /\ failures' \in 0..MaxFailures
        BY <3>6, <4>4 DEF CreateProfile, Finish, TypeOK, Calls, Idle
      <4>5. failures' \in 0..MaxFailures
        BY <3>6, BoundAssumption DEF CreateProfile, Fails, TypeOK
      <4>6. QED BY <3>6, <4>3, <4>4, <4>5 DEF CreateProfile
    <3>7. CASE CacheProfile(p)
      BY <3>7, CallAtWork DEF CacheProfile, Goto, TypeOK, Calls, At, Idle
    <3>8. CASE SaveForgeProfile(p)
      BY <3>8, CallAtWork, BoundAssumption
      DEF SaveForgeProfile, Finish, Fails, TypeOK, Calls, At, Idle
    <3>9. QED
      BY <2>3, <3>1, <3>2, <3>3, <3>4, <3>5, <3>6, <3>7, <3>8 DEF EnsureProfile
  <2>4. CASE UNCHANGED vars
    BY <2>4 DEF vars, TypeOK
  <2>5. QED BY <2>1, <2>2, <2>3, <2>4 DEF Next
<1>3. QED BY <1>1, <1>2, PTL DEF Spec

-----------------------------------------------------------------------------
(* RightPlace *)

\* A profile of the appservice carries the name of its own directory.
Named ==
    \A i \in Known :
        \/ profiles[i].name = <<>>
        \/ \E u \in Users : profiles[i].name = ProfileName(u, profiles[i].dir)

PlaceInv == TypeOK /\ Named /\ RightPlace

\* What fits a key goes on fitting it when a profile is made.
LEMMA FittingStays ==
    ASSUME TypeOK, NEW i, NEW name, NEW dir \in Places, Make(i, name, dir)
    PROVE  \A j, key : Fitting(j, key) => Fitting(j, key)'
<1>1. /\ DOMAIN profiles' = DOMAIN profiles \cup {i}
      /\ \A j \in DOMAIN profiles : profiles'[j] = profiles[j]
  BY MakeAdds
<1>2. QED BY <1>1 DEF Fitting, Known, PlaceFor

\* A new profile with the name of its directory, or with a foreign one, leaves
\* every profile named as it should be.
LEMMA NamedStays ==
    ASSUME TypeOK, Named, NEW i, NEW name, NEW dir \in Places, Make(i, name, dir),
           name = <<>> \/ \E u \in Users : name = ProfileName(u, dir)
    PROVE  Named'
<1>1. /\ DOMAIN profiles' = DOMAIN profiles \cup {i}
      /\ i \in Ids \ DOMAIN profiles
      /\ \A j \in DOMAIN profiles : profiles'[j] = profiles[j]
  BY MakeAdds
<1>2. profiles'[i] = [name |-> name, dir |-> dir]
  BY MakeAdds, Zenon
<1>3. profiles'[i].name = name /\ profiles'[i].dir = dir
  BY <1>2
<1>4. QED BY <1>1, <1>3 DEF Named, Known, ProfileName

\* When the profiles stay, what fits is what did.
LEMMA FitsAsBefore ==
    ASSUME UNCHANGED profiles,
           \A key \in Keys : /\ cache'[key] # NoId => Fitting(cache'[key], key)
                             /\ table'[key] # NoId => Fitting(table'[key], key),
           \A q \in Handlers : h'[q].id # NoId => Fitting(h'[q].id, h'[q].key)
    PROVE  RightPlace'
BY DEF RightPlace, Fitting, Known, PlaceFor

\* A call that goes on with the id and the key it has leaves all in its place.
LEMMA GoingOnFits ==
    ASSUME TypeOK, RightPlace, NEW p \in Handlers, NEW step, Goto(p, step),
           UNCHANGED <<profiles, cache, table>>
    PROVE  RightPlace'
<1>1. \A q \in Handlers : h'[q].id = h[q].id /\ h'[q].key = h[q].key
  BY DEF Goto, TypeOK
<1>2. \A q \in Handlers : h'[q].id # NoId => Fitting(h'[q].id, h'[q].key)
  BY <1>1 DEF RightPlace
<1>3. QED BY <1>2, FitsAsBefore DEF RightPlace

\* The call p has id i for its key: all that changes but p is as it was.
LEMMA AnswerFits ==
    ASSUME TypeOK, RightPlace, NEW p \in Handlers, NEW i, NEW step,
           Fitting(i, h[p].key), Found(p, i, step), UNCHANGED <<profiles, cache, table>>
    PROVE  RightPlace'
<1>1. \A q \in Handlers : \/ h'[q].id = h[q].id /\ h'[q].key = h[q].key
                          \/ h'[q].id = i /\ h'[q].key = h[p].key
  BY DEF Found, TypeOK, Calls, Idle
<1>2. \A q \in Handlers : h'[q].id # NoId => Fitting(h'[q].id, h'[q].key)
  BY <1>1 DEF RightPlace
<1>3. QED BY <1>2, FitsAsBefore DEF RightPlace

\* A profile that has the name asked for has the directory asked for, as far as
\* sanitizeForName can tell.
LEMMA NameFits ==
    ASSUME TypeOK, Named, NEW p \in Handlers, h[p].key \in Keys,
           NEW i \in Known, profiles[i].name = NameFor(p)
    PROVE  Fitting(i, h[p].key)
<1>1. profiles[i].name # <<>>
  BY DEF NameFor, ProfileName
<1>2. PICK u \in Users : profiles[i].name = ProfileName(u, profiles[i].dir)
  BY <1>1 DEF Named
<1>3. ProfileName(u, profiles[i].dir) = ProfileName(UserOf(p), PlaceFor(h[p].key))
  BY <1>2 DEF NameFor
<1>4. QED
  BY <1>3 DEF ProfileName, Fitting

\* Every step keeps PlaceInv.
LEMMA PlaceStep ==
    ASSUME PlaceInv, [Next]_vars, TypeOK'
    PROVE  Named' /\ RightPlace'
<1> USE DEF PlaceInv
<1>1. CASE OtherProfile
  <2>1. PICK i \in Ids, d \in Places : Make(i, <<>>, d)
    BY <1>1 DEF OtherProfile
  <2>2. Named' BY <2>1, NamedStays
  <2>3. RightPlace'
    BY <1>1, <2>1, FittingStays DEF OtherProfile, RightPlace
  <2>4. QED BY <2>2, <2>3
<1>2. CASE Restart
  BY <1>2 DEF Restart, Nothing, Named, RightPlace, Fitting, Known, Idle, PlaceFor
<1>3. ASSUME NEW p \in Handlers, EnsureProfile(p) PROVE Named' /\ RightPlace'
  <2>1. CASE \E key \in Keys : Ask(p, key)
    BY <2>1 DEF Ask, Named, RightPlace, Fitting, Known, PlaceFor, TypeOK
  <2>2. CASE GetForgeProfile(p)
    <3>1. h[p].key \in Keys /\ h[p].id = NoId
      BY <2>2, CallAtWork DEF GetForgeProfile, At
    <3>2. CASE table[h[p].key] # NoId /\ Found(p, table[h[p].key], "recall")
      <4>1. Fitting(table[h[p].key], h[p].key) BY <3>1, <3>2 DEF RightPlace
      <4>2. UNCHANGED <<profiles, cache, table>> BY <2>2 DEF GetForgeProfile
      <4>3. RightPlace' BY <3>2, <4>1, <4>2, AnswerFits
      <4>4. QED BY <4>2, <4>3 DEF Named, Known
    <3>3. CASE AskForge(p)
      <4>1. UNCHANGED <<profiles, cache, table>> BY <2>2 DEF GetForgeProfile
      <4>2. RightPlace' BY <3>3, <4>1, GoingOnFits DEF AskForge
      <4>3. QED BY <4>1, <4>2 DEF Named, Known
    <3>4. QED BY <2>2, <3>2, <3>3 DEF GetForgeProfile
  <2>3. CASE Recall(p)
    BY <2>3, CallAtWork
    DEF Recall, Finish, At, Idle, TypeOK, Named, RightPlace, Fitting, Known, PlaceFor
  <2>4. CASE FindProfileByWorkingDir(p)
    <3> DEFINE fits == {i \in Known : profiles[i].dir = PlaceFor(h[p].key)}
    <3>1. UNCHANGED <<profiles, cache, table>> /\ Scan(p, fits, "name")
      BY <2>4 DEF FindProfileByWorkingDir
    <3>2. CASE \E i \in fits : Found(p, i, "cache")
      <4>1. PICK i \in fits : Found(p, i, "cache") BY <3>2
      <4>2. Fitting(i, h[p].key) BY DEF Fitting
      <4>3. RightPlace' BY <3>1, <4>1, <4>2, AnswerFits
      <4>4. QED BY <3>1, <4>3 DEF Named, Known
    <3>3. CASE Goto(p, "name")
      <4>1. RightPlace' BY <3>1, <3>3, GoingOnFits
      <4>2. QED BY <3>1, <4>1 DEF Named, Known
    <3>4. QED BY <3>1, <3>2, <3>3, ScanEnds
  <2>5. CASE FindProfileByName(p)
    <3> DEFINE fits == {i \in Known : profiles[i].name = NameFor(p)}
    <3>1. UNCHANGED <<profiles, cache, table>> /\ Scan(p, fits, "create")
      BY <2>5 DEF FindProfileByName
    <3>2. h[p].key \in Keys BY <2>5, CallAtWork DEF FindProfileByName, At
    <3>3. CASE \E i \in fits : Found(p, i, "cache")
      <4>1. PICK i \in fits : Found(p, i, "cache") BY <3>3
      <4>2. Fitting(i, h[p].key) BY <3>2, NameFits
      <4>3. RightPlace' BY <3>1, <4>1, <4>2, AnswerFits
      <4>4. QED BY <3>1, <4>3 DEF Named, Known
    <3>4. CASE Goto(p, "create")
      <4>1. RightPlace' BY <3>1, <3>4, GoingOnFits
      <4>2. QED BY <3>1, <4>1 DEF Named, Known
    <3>5. QED BY <3>1, <3>3, <3>4, ScanEnds
  <2>6. CASE CreateProfile(p)
    <3> DEFINE place == PlaceFor(h[p].key)
    <3>1. h[p].key \in Keys /\ UNCHANGED <<cache, table>>
      BY <2>6, CallAtWork DEF CreateProfile, At
    <3>2. place \in Places /\ UserOf(p) \in Users
      BY <3>1, PlaceOfKey DEF Keys, UserOf
    <3>3. ASSUME NEW i \in Ids, Make(i, NameFor(p), place),
                 Found(p, i, "cache") \/ Finish(p)
          PROVE  Named' /\ RightPlace'
      <4>1. Named' BY <3>2, <3>3, NamedStays DEF NameFor
      <4> DEFINE Fits(j, key) ==
              j \in Known' /\ Clean[profiles'[j].dir] = Clean[PlaceFor(key)]
      <4>2. \A j, key : Fitting(j, key) => Fits(j, key)
        <5>1. /\ DOMAIN profiles' = DOMAIN profiles \cup {i}
              /\ \A j \in DOMAIN profiles : profiles'[j] = profiles[j]
          BY <3>2, <3>3, MakeAdds
        <5>2. QED BY <5>1 DEF Fitting, Known
      <4>3. i \in Known' BY <3>2, <3>3, MakeAdds DEF Known
      <4>4. profiles'[i] = [name |-> NameFor(p), dir |-> place]
        BY <3>2, <3>3, MakeAdds, Zenon
      <4>5. Fits(i, h[p].key) BY <4>3, <4>4
      <4>6. \A q \in Handlers : h'[q].id # NoId =>
              \/ h'[q] = h[q]
              \/ h'[q].id = i /\ h'[q].key = h[p].key
        BY <3>3 DEF Found, Finish, Idle, TypeOK, Calls
      <4>7. \A q \in Handlers : h'[q].id # NoId => Fits(h'[q].id, h'[q].key)
        BY <4>2, <4>5, <4>6 DEF RightPlace
      <4>8. \A key \in Keys : /\ cache[key] # NoId => Fits(cache[key], key)
                              /\ table[key] # NoId => Fits(table[key], key)
        BY <4>2 DEF RightPlace
      <4>9. RightPlace'
        BY <3>1, <4>7, <4>8 DEF RightPlace, Fitting, PlaceFor
      <4>10. QED BY <4>1, <4>9
    <3>4. CASE UNCHANGED profiles /\ Finish(p)
      BY <3>1, <3>4
      DEF Finish, Idle, TypeOK, Named, RightPlace, Fitting, Known, PlaceFor
    <3>5. QED BY <2>6, <3>3, <3>4 DEF CreateProfile
  <2>7. CASE CacheProfile(p)
    <3>1. \A q \in Handlers : h'[q].id = h[q].id /\ h'[q].key = h[q].key
      BY <2>7 DEF CacheProfile, Goto, TypeOK
    <3>2. h[p].id # NoId
      BY <2>7, CallAtWork, NullAssumption DEF CacheProfile, At
    <3>3. \A q \in Handlers : h'[q].id # NoId => Fitting(h'[q].id, h'[q].key)
      BY <3>1 DEF RightPlace
    <3>4. \A key \in Keys :
              \/ cache'[key] = cache[key]
              \/ cache'[key] = h[p].id /\ key = h[p].key
      BY <2>7 DEF CacheProfile, TypeOK
    <3>5. \A key \in Keys : cache'[key] # NoId => Fitting(cache'[key], key)
      BY <3>2, <3>4 DEF RightPlace
    <3>6. UNCHANGED <<profiles, table>> BY <2>7 DEF CacheProfile
    <3>7. RightPlace' BY <3>3, <3>5, <3>6, FitsAsBefore DEF RightPlace
    <3>8. QED BY <3>6, <3>7 DEF Named, Known
  <2>8. CASE SaveForgeProfile(p)
    BY <2>8, CallAtWork
    DEF SaveForgeProfile, Finish, At, Idle, TypeOK, Named, RightPlace, Fitting, Known,
        PlaceFor
  <2>9. QED
    BY <1>3, <2>1, <2>2, <2>3, <2>4, <2>5, <2>6, <2>7, <2>8 DEF EnsureProfile
<1>4. CASE UNCHANGED vars
  BY <1>4 DEF vars, Named, RightPlace, Fitting, Known, PlaceFor
<1>5. QED BY <1>1, <1>2, <1>3, <1>4 DEF Next

\* ensureProfile never hands out, caches or stores the profile of a place that
\* sanitizeForName can tell from the one asked for: no premise, whatever
\* interleaving, failure, restart and page size.
THEOREM OnlyRightPlaces == Spec => []RightPlace
<1>1. Init => Named /\ RightPlace
  BY DEF Init, Named, RightPlace, Nothing, Known, Idle
<1>2. TypeOK /\ TypeOK' /\ Named /\ RightPlace /\ [Next]_vars => Named' /\ RightPlace'
  BY PlaceStep DEF PlaceInv
<1>3. QED BY <1>1, <1>2, TypeCorrect, PTL DEF Spec

-----------------------------------------------------------------------------
(* UsersShareProfile, NeverRefused *)

Working(p) == ~At(p, "idle")

\* At most one call is at work, and a call that has got past a list knows that
\* nothing on it fits.
Alone == \A p, q \in Handlers : Working(p) /\ Working(q) => p = q

DirUnused ==
    \A p \in Handlers :
        h[p].pc \in {"name", "create"} /\ h[p].key[2] \in Paths
            => \A i \in Ours : profiles[i].dir # PlaceFor(h[p].key)

NameUnused == \A p \in Handlers : At(p, "create") => ~NameTaken(p)

OneEach ==
    \A i, j \in Ours :
        profiles[i].dir = profiles[j].dir /\ profiles[i].dir \in {Place[s] : s \in Paths}
            => i = j

CalmInv == calm => Alone /\ DirUnused /\ NameUnused /\ OneEach

\* When all lists so far were complete and this one is, a call goes on past it
\* only if nothing on it fits.
LEMMA ScanMisses ==
    ASSUME NEW p, NEW fits \in SUBSET Known, NEW next, Scan(p, fits, next), calm'
    PROVE  /\ calm
           /\ \/ \E i \in fits : Found(p, i, "cache")
              \/ Goto(p, next) /\ fits = {}
<1>1. PICK page \in Pages :
        /\ (\E i \in page \cap fits : Found(p, i, "cache"))
             \/ (page \cap fits = {} /\ Goto(p, next))
        /\ calm' = (calm /\ page = Known)
  BY Zenon DEF Scan
<1>2. calm /\ page = Known
  BY <1>1, Zenon
<1>3. QED BY <1>1, <1>2

\* What a call that has found an id does to the calls.
LEMMA FoundMoves ==
    ASSUME TypeOK, NEW p \in Handlers, NEW i, NEW step, Found(p, i, step)
    PROVE  h'[p].pc = step /\ \A q \in Handlers \ {p} : h'[q] = h[q]
<1>1. h'[p] = [h[p] EXCEPT !.pc = step, !.id = i]
  BY DEF Found, TypeOK
<1>2. h[p] \in Calls
  BY DEF TypeOK
<1>3. h'[p].pc = step
  BY <1>1, <1>2 DEF Calls, Idle
<1>4. QED BY <1>3 DEF Found, TypeOK

\* A step of p that leaves the profiles alone and ends or goes on at another
\* place than a look-up keeps the invariant.
LEMMA CalmStays ==
    ASSUME TypeOK, CalmInv, NEW p \in Handlers, Working(p), calm' => calm,
           UNCHANGED profiles, \A q \in Handlers \ {p} : h'[q] = h[q],
           h'[p].pc \notin {"name", "create"}
    PROVE  CalmInv'
BY DEF CalmInv, Alone, DirUnused, NameUnused, OneEach, Working, At, NameTaken,
       NameFor, UserOf, PlaceFor, Ours, Known

\* Every step keeps CalmInv.
LEMMA CalmStep ==
    ASSUME URLsApart, TypeOK, CalmInv, [Next]_vars
    PROVE  CalmInv'
<1> USE DEF Known
<1>1. CASE OtherProfile
  <2>1. PICK i \in Ids, d \in Places : Make(i, <<>>, d)
    BY <1>1 DEF OtherProfile
  <2>2. /\ DOMAIN profiles' = DOMAIN profiles \cup {i}
        /\ i \in Ids \ DOMAIN profiles
        /\ \A j \in DOMAIN profiles : profiles'[j] = profiles[j]
    BY <2>1, MakeAdds
  <2>3. profiles'[i] = [name |-> <<>>, dir |-> d]
    BY <2>1, MakeAdds, Zenon
  <2>4. profiles'[i].name = <<>> BY <2>3
  <2>5. Ours' = Ours BY <2>2, <2>4 DEF Ours
  <2>6. \A p \in Handlers : NameTaken(p)' => NameTaken(p)
    <3>1. \A p \in Handlers : NameFor(p)' = NameFor(p)
      BY <1>1 DEF OtherProfile, NameFor, UserOf, PlaceFor
    <3>2. \A p \in Handlers : NameFor(p) # <<>>
      BY DEF NameFor, ProfileName
    <3>3. QED BY <2>2, <2>4, <3>1, <3>2 DEF NameTaken
  <2>7. QED
    BY <1>1, <2>2, <2>5, <2>6
    DEF OtherProfile, CalmInv, Alone, DirUnused, NameUnused, OneEach, Working, At,
        PlaceFor, Ours
<1>2. CASE Restart
  BY <1>2
  DEF Restart, CalmInv, Alone, DirUnused, NameUnused, OneEach, Working, At, Idle, Ours
<1>3. ASSUME NEW p \in Handlers, EnsureProfile(p) PROVE CalmInv'
  <2>1. ASSUME NEW key \in Keys, Ask(p, key) PROVE CalmInv'
    <3>1. SUFFICES ASSUME calm' PROVE CalmInv'
      BY DEF CalmInv
    <3>2. calm /\ \A q \in Handlers : At(q, "idle")
      BY <2>1, <3>1, Zenon DEF Ask
    <3>3. \A q \in Handlers : q # p => h'[q] = h[q]
      BY <2>1 DEF Ask, TypeOK
    <3>4. h'[p].pc = "table"
      BY <2>1 DEF Ask, TypeOK
    <3>5. UNCHANGED profiles BY <2>1 DEF Ask
    <3>6. Alone' /\ DirUnused' /\ NameUnused'
      BY <3>2, <3>3, <3>4 DEF Alone, DirUnused, NameUnused, Working, At
    <3>7. OneEach' BY <3>2, <3>5 DEF CalmInv, OneEach, Ours
    <3>8. QED BY <3>6, <3>7 DEF CalmInv
  <2>2. CASE GetForgeProfile(p)
    <3>1. CASE Found(p, table[h[p].key], "recall")
      BY <2>2, <3>1, CalmStays DEF GetForgeProfile, Found, TypeOK, Working, At
    <3>2. CASE AskForge(p)
      BY <2>2, <3>2
      DEF GetForgeProfile, AskForge, Goto, TypeOK, CalmInv, Alone, DirUnused,
          NameUnused, OneEach, Working, At, NameTaken, NameFor, UserOf, PlaceFor, Ours
    <3>3. QED BY <2>2, <3>1, <3>2 DEF GetForgeProfile
  <2>3. CASE Recall(p)
    BY <2>3, CalmStays DEF Recall, Finish, Idle, TypeOK, Working, At
  <2>4. CASE FindProfileByWorkingDir(p)
    <3> DEFINE fits == {i \in Known : profiles[i].dir = PlaceFor(h[p].key)}
    <3>1. At(p, "dir") /\ UNCHANGED profiles /\ Scan(p, fits, "name")
      BY <2>4 DEF FindProfileByWorkingDir
    <3>2. SUFFICES ASSUME calm' PROVE CalmInv'
      BY DEF CalmInv
    <3>3. calm /\ ((\E i \in fits : Found(p, i, "cache"))
                     \/ (Goto(p, "name") /\ fits = {}))
      BY <3>1, <3>2, ScanMisses
    <3>4. CASE \E i \in fits : Found(p, i, "cache")
      <4>1. PICK i \in fits : Found(p, i, "cache") BY <3>4
      <4>2. h'[p].pc = "cache" /\ \A q \in Handlers \ {p} : h'[q] = h[q]
        BY <4>1, FoundMoves
      <4>3. QED BY <3>1, <3>3, <4>2, CalmStays DEF Working, At
    <3>5. CASE Goto(p, "name") /\ fits = {}
      BY <3>1, <3>3, <3>5
      DEF Goto, TypeOK, CalmInv, Alone, DirUnused, NameUnused, OneEach, Working, At,
          NameTaken, NameFor, UserOf, PlaceFor, Ours
    <3>6. QED BY <3>3, <3>4, <3>5
  <2>5. CASE FindProfileByName(p)
    <3> DEFINE fits == {i \in Known : profiles[i].name = NameFor(p)}
    <3>1. At(p, "name") /\ UNCHANGED profiles /\ Scan(p, fits, "create")
      BY <2>5 DEF FindProfileByName
    <3>2. SUFFICES ASSUME calm' PROVE CalmInv'
      BY DEF CalmInv
    <3>3. calm /\ ((\E i \in fits : Found(p, i, "cache"))
                     \/ (Goto(p, "create") /\ fits = {}))
      BY <3>1, <3>2, ScanMisses
    <3>4. CASE \E i \in fits : Found(p, i, "cache")
      <4>1. PICK i \in fits : Found(p, i, "cache") BY <3>4
      <4>2. h'[p].pc = "cache" /\ \A q \in Handlers \ {p} : h'[q] = h[q]
        BY <4>1, FoundMoves
      <4>3. QED BY <3>1, <3>3, <4>2, CalmStays DEF Working, At
    <3>5. CASE Goto(p, "create") /\ fits = {}
      BY <3>1, <3>3, <3>5
      DEF Goto, TypeOK, CalmInv, Alone, DirUnused, NameUnused, OneEach, Working, At,
          NameTaken, NameFor, UserOf, PlaceFor, Ours
    <3>6. QED BY <3>3, <3>4, <3>5
  <2>6. CASE CreateProfile(p)
    <3> DEFINE place == PlaceFor(h[p].key)
    <3>1. At(p, "create") /\ h[p].key \in Keys /\ UNCHANGED calm
      BY <2>6, CallAtWork DEF CreateProfile, At
    <3>2. place \in Places BY <3>1, PlaceOfKey
    <3>3. ASSUME calm, NEW i \in Ids, Make(i, NameFor(p), place),
                 Found(p, i, "cache") \/ Finish(p)
          PROVE  CalmInv'
      <4>1. /\ DOMAIN profiles' = DOMAIN profiles \cup {i}
            /\ i \in Ids \ DOMAIN profiles
            /\ \A j \in DOMAIN profiles : profiles'[j] = profiles[j]
        BY <3>2, <3>3, MakeAdds
      <4>2. profiles'[i] = [name |-> NameFor(p), dir |-> place]
        BY <3>2, <3>3, MakeAdds, Zenon
      <4>3. profiles'[i].dir = place BY <4>2
      <4>4. h'[p].pc \in {"cache", "idle"} /\ \A q \in Handlers \ {p} : h'[q] = h[q]
        <5>1. CASE Found(p, i, "cache") BY <5>1, FoundMoves
        <5>2. CASE Finish(p) BY <5>2 DEF Finish, Idle, TypeOK
        <5>3. QED BY <3>3, <5>1, <5>2
      <4>5. \A q \in Handlers \ {p} : At(q, "idle")
        BY <3>1, <3>3 DEF CalmInv, Alone, Working, At
      <4>6. Alone' /\ DirUnused' /\ NameUnused'
        BY <4>4, <4>5 DEF Alone, DirUnused, NameUnused, Working, At
      <4>7. place \in {Place[s] : s \in Paths} => \A j \in Ours : profiles[j].dir # place
        <5>1. h[p].key[2] \in Sources /\ place = Place[h[p].key[2]]
          BY <3>1 DEF Keys, PlaceFor
        <5>2. CASE h[p].key[2] \in Paths
          BY <3>1, <3>3, <5>2 DEF CalmInv, DirUnused, At
        <5>3. CASE h[p].key[2] \notin Paths
          BY <5>1, <5>3 DEF URLsApart
        <5>4. QED BY <5>2, <5>3
      <4>8. Ours' \subseteq Ours \cup {i} /\ \A j \in Ours : j # i /\ profiles'[j] = profiles[j]
        BY <4>1 DEF Ours
      <4>9. OneEach'
        BY <3>3, <4>3, <4>7, <4>8 DEF CalmInv, OneEach
      <4>10. QED BY <4>6, <4>9 DEF CalmInv
    <3>4. CASE UNCHANGED profiles /\ Finish(p)
      BY <3>1, <3>4, CalmStays DEF Finish, Idle, TypeOK, Working, At
    <3>5. CASE ~calm
      BY <3>1, <3>5 DEF CalmInv
    <3>6. QED BY <2>6, <3>3, <3>4, <3>5 DEF CreateProfile
  <2>7. CASE CacheProfile(p)
    BY <2>7, CalmStays DEF CacheProfile, Goto, TypeOK, Working, At
  <2>8. CASE SaveForgeProfile(p)
    BY <2>8, CalmStays DEF SaveForgeProfile, Finish, Idle, TypeOK, Working, At
  <2>9. QED
    BY <1>3, <2>1, <2>2, <2>3, <2>4, <2>5, <2>6, <2>7, <2>8 DEF EnsureProfile
<1>4. CASE UNCHANGED vars
  BY <1>4
  DEF vars, CalmInv, Alone, DirUnused, NameUnused, OneEach, Working, At, NameTaken,
      NameFor, UserOf, PlaceFor, Ours
<1>5. QED BY <1>1, <1>2, <1>3, <1>4 DEF Next

\* CalmInv is an invariant.
LEMMA CalmAlways == ASSUME URLsApart PROVE Spec => []CalmInv
<1>1. Init => CalmInv
  BY DEF Init, CalmInv, Alone, DirUnused, NameUnused, OneEach, Working, At, Idle, Ours,
         Known
<1>2. TypeOK /\ CalmInv /\ [Next]_vars => CalmInv'
  BY CalmStep
<1>3. QED BY <1>1, <1>2, TypeCorrect, PTL DEF Spec

\* While calls come one at a time and forge's lists are complete, all users of
\* a directory share one profile.
THEOREM OneProfileForADirectory ==
    ASSUME URLsApart PROVE Spec => []UsersShareProfile
<1>1. CalmInv => UsersShareProfile
  BY DEF CalmInv, OneEach, UsersShareProfile
<1>2. QED BY <1>1, CalmAlways, PTL

\* Under the same conditions forge never refuses the name of a profile.
THEOREM NameNeverRefused == ASSUME URLsApart PROVE Spec => []NeverRefused
<1>1. CalmInv => NeverRefused
  BY DEF CalmInv, NameUnused, NeverRefused
<1>2. QED BY <1>1, CalmAlways, PTL
=============================================================================
