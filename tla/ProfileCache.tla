---------------------------- MODULE ProfileCache ----------------------------
(***************************************************************************)
(* ensureProfile of pkg/appservice/appservice.go: which forge profile a    *)
(* /start gets.  It asks, in this order, the cache in memory, the table    *)
(* forge_profile of the store, forge by working directory (paths only) and *)
(* forge by name, and makes a profile when nobody knows one.               *)
(*                                                                         *)
(* Commands run concurrently; each critical section of as.mu, statement on *)
(* the store and request to forge is one action.  A restart empties the    *)
(* cache and may find the store wiped; forge keeps its profiles.           *)
(***************************************************************************)
EXTENDS Naturals, FiniteSets

CONSTANTS
    Users,      \* Matrix users
    Sources,    \* what may follow /start: paths and git URLs
    Paths,      \* the sources that are paths
    Places,     \* resolved working directories, and the URLs themselves
    Place,      \* resolveWorkingDir of a path, a URL itself
    Clean,      \* sanitizeForName
    Ids,        \* profile ids forge may hand out
    NoId,       \* no profile, and the name of nobody's profile
    Handlers,   \* command goroutines
    PageSize,   \* the profiles one GET /profiles returns, 100 in the code
    MaxFailures \* bound on failed and half-failed requests and statements

ASSUME NullAssumption == NoId \notin Ids
ASSUME SourceAssumption ==
    Paths \subseteq Sources /\ Place \in [Sources -> Places]
ASSUME CleanAssumption == DOMAIN Clean = Users \cup Places
ASSUME BoundAssumption == PageSize \in Nat /\ MaxFailures \in Nat

VARIABLES
    profiles, \* forge: id -> name and working directory, for the ids in use
    cache,    \* as.profileCache
    table,    \* forge_profile
    h,        \* the calls of ensureProfile
    failures, \* failures so far
    calm      \* history: calls came one at a time and every list was complete

vars == <<profiles, cache, table, h, failures, calm>>

Keys == Users \X Sources
Nothing == [k \in Keys |-> NoId]

Idle == [pc |-> "idle", key |-> <<>>, id |-> NoId]
Calls == [pc : {"table", "dir", "name", "create"}, key : Keys, id : {NoId}]
         \cup [pc : {"recall", "cache", "save"}, key : Keys, id : Ids]
         \cup {Idle}

At(p, step) == h[p].pc = step
Goto(p, step) == h' = [h EXCEPT ![p].pc = step]
Finish(p) == h' = [h EXCEPT ![p] = Idle]
Found(p, id, step) == h' = [h EXCEPT ![p].pc = step, ![p].id = id]

Known == DOMAIN profiles
UserOf(p) == h[p].key[1]
PlaceFor(key) == Place[key[2]]

\* buildProfileFromTemplate: the name of the profile of user u for place d.
ProfileName_UserOnly(u, d) == <<Clean[u]>>
ProfileName(u, d) == <<Clean[u], Clean[d]>>

NameFor(p) == ProfileName(UserOf(p), PlaceFor(h[p].key))
NameTaken(p) == \E i \in Known : profiles[i].name = NameFor(p)

\* A request or statement fails.
Fails == failures < MaxFailures /\ failures' = failures + 1

TypeOK ==
    /\ Known \subseteq Ids
    /\ \A i \in Known : profiles[i].dir \in Places
    /\ cache \in [Keys -> Known \cup {NoId}]
    /\ table \in [Keys -> Known \cup {NoId}]
    /\ h \in [Handlers -> Calls]
    /\ \A p \in Handlers : h[p].id \in Known \cup {NoId}
    /\ failures \in 0..MaxFailures
    /\ calm \in BOOLEAN

Init ==
    /\ profiles = <<>>
    /\ cache = Nothing
    /\ table = Nothing
    /\ h = [p \in Handlers |-> Idle]
    /\ failures = 0
    /\ calm = TRUE

-----------------------------------------------------------------------------
(* forge *)

\* forge makes profile i; its names are UNIQUE.
Make(i, name, dir) ==
    /\ i \in Ids \ Known
    /\ \A j \in Known : profiles[j].name # name
    /\ profiles' = [j \in Known \cup {i} |->
                      IF j = i THEN [name |-> name, dir |-> dir] ELSE profiles[j]]

\* Somebody else makes a profile; its name is not of the appservice's form.
OtherProfile ==
    /\ \E i \in Ids, d \in Places : Make(i, <<>>, d)
    /\ UNCHANGED <<cache, table, h, failures, calm>>

\* What ListProfiles(100, 0) may return: everything, or as much as fits.
Pages ==
    IF Cardinality(Known) <= PageSize
      THEN {Known}
      ELSE {page \in SUBSET Known : Cardinality(page) = PageSize}

-----------------------------------------------------------------------------
(* ensureProfile *)

\* A call that misses the cache.  (A hit returns and changes nothing.)
Ask(p, key) ==
    /\ At(p, "idle")
    /\ cache[key] = NoId
    /\ h' = [h EXCEPT ![p] = [pc |-> "table", key |-> key, id |-> NoId]]
    /\ calm' = (calm /\ \A q \in Handlers : At(q, "idle"))
    /\ UNCHANGED <<profiles, cache, table, failures>>

\* A path is looked up by directory and by name, a URL by name only.
AskForge(p) == Goto(p, IF h[p].key[2] \in Paths THEN "dir" ELSE "name")

GetForgeProfile(p) ==
    /\ At(p, "table")
    /\ \/ /\ table[h[p].key] # NoId
          /\ Found(p, table[h[p].key], "recall")
          /\ UNCHANGED failures
       \/ /\ table[h[p].key] = NoId
          /\ AskForge(p)
          /\ UNCHANGED failures
       \/ Fails /\ AskForge(p)
    /\ UNCHANGED <<profiles, cache, table, calm>>

\* A row of the store goes into the cache.
Recall(p) ==
    /\ At(p, "recall")
    /\ cache' = [cache EXCEPT ![h[p].key] = h[p].id]
    /\ Finish(p)
    /\ UNCHANGED <<profiles, table, failures, calm>>

\* The list is scanned: one of the profiles that fit, or on to the next step.
\* A list that cannot be had counts as one without a match.
Scan(p, fits, next) ==
    \/ \E page \in Pages :
         /\ \/ \E i \in page \cap fits : Found(p, i, "cache")
            \/ page \cap fits = {} /\ Goto(p, next)
         /\ calm' = (calm /\ page = Known)
         /\ UNCHANGED failures
    \/ /\ Fails
       /\ Goto(p, next)
       /\ calm' = FALSE

FindProfileByWorkingDir_Skipped(p) ==
    /\ At(p, "dir")
    /\ Goto(p, "name")
    /\ UNCHANGED <<profiles, cache, table, failures, calm>>

FindProfileByWorkingDir(p) ==
    /\ At(p, "dir")
    /\ Scan(p, {i \in Known : profiles[i].dir = PlaceFor(h[p].key)}, "name")
    /\ UNCHANGED <<profiles, cache, table>>

FindProfileByName_Skipped(p) ==
    /\ At(p, "name")
    /\ Goto(p, "create")
    /\ UNCHANGED <<profiles, cache, table, failures, calm>>

FindProfileByName(p) ==
    /\ At(p, "name")
    /\ Scan(p, {i \in Known : profiles[i].name = NameFor(p)}, "create")
    /\ UNCHANGED <<profiles, cache, table>>

\* POST /profiles: made, refused because the name is taken, failed, or made
\* with the reply lost.
CreateProfile(p) ==
    /\ At(p, "create")
    /\ \/ \E i \in Ids :
            /\ Make(i, NameFor(p), PlaceFor(h[p].key))
            /\ Found(p, i, "cache")
            /\ UNCHANGED failures
       \/ /\ NameTaken(p)
          /\ Finish(p)
          /\ UNCHANGED <<profiles, failures>>
       \/ /\ Fails
          /\ \/ UNCHANGED profiles
             \/ \E i \in Ids : Make(i, NameFor(p), PlaceFor(h[p].key))
          /\ Finish(p)
    /\ UNCHANGED <<cache, table, calm>>

\* cacheAndPersistProfile, under as.mu ...
CacheProfile(p) ==
    /\ At(p, "cache")
    /\ cache' = [cache EXCEPT ![h[p].key] = h[p].id]
    /\ Goto(p, "save")
    /\ UNCHANGED <<profiles, table, failures, calm>>

\* ... and in the store; an error is logged and the id returned all the same.
SaveForgeProfile(p) ==
    /\ At(p, "save")
    /\ \/ table' = [table EXCEPT ![h[p].key] = h[p].id] /\ UNCHANGED failures
       \/ Fails /\ UNCHANGED table
    /\ Finish(p)
    /\ UNCHANGED <<profiles, cache, calm>>

\* The process dies and a new one starts, with the store or with an empty one.
Restart ==
    /\ cache' = Nothing
    /\ table' \in {table, Nothing}
    /\ h' = [p \in Handlers |-> Idle]
    /\ UNCHANGED <<profiles, failures, calm>>

EnsureProfile(p) ==
    \/ \E key \in Keys : Ask(p, key)
    \/ GetForgeProfile(p) \/ Recall(p)
    \/ FindProfileByWorkingDir(p) \/ FindProfileByName(p)
    \/ CreateProfile(p) \/ CacheProfile(p) \/ SaveForgeProfile(p)

Next == OtherProfile \/ Restart \/ \E p \in Handlers : EnsureProfile(p)

Spec == Init /\ [][Next]_vars

-----------------------------------------------------------------------------
(* Safety *)

\* No URL is the absolute form of a path.  (A path "x.git/" would be that of
\* the "URL" "x.git".)
URLsApart == \A s \in Paths, t \in Sources \ Paths : Place[s] # Place[t]

\* The working directory of profile i is that of the source of the key, or one
\* sanitizeForName cannot tell from it: it replaces every character but letters,
\* digits, "-" and "_" by "-".
Fitting(i, key) == i \in Known /\ Clean[profiles[i].dir] = Clean[PlaceFor(key)]

\* Whatever ensureProfile remembers or is about to return for a user and a
\* source is a profile in forge with that working directory or URL, across
\* concurrent calls, failed requests, restarts and a wiped store: a session is
\* started in the directory of another source only if the two have one name after
\* sanitizeForName ("each working dir gets a distinct profile",
\* buildProfileFromTemplate).
RightPlace ==
    /\ \A key \in Keys :
         /\ cache[key] # NoId => Fitting(cache[key], key)
         /\ table[key] # NoId => Fitting(table[key], key)
    /\ \A p \in Handlers :
         h[p].id # NoId => Fitting(h[p].id, h[p].key)

Ours == {i \in Known : profiles[i].name # <<>>}

\* "All matrix users sharing a directory share a profile": as long as calls do
\* not overlap and forge's lists are complete, no directory gets two profiles,
\* whatever users ask, under whatever spelling, after whatever restart.
UsersShareProfile ==
    calm => \A i, j \in Ours :
              /\ profiles[i].dir = profiles[j].dir
              /\ profiles[i].dir \in {Place[s] : s \in Paths}
              => i = j

\* "Reuse it instead of POSTing and getting a 409": under the same conditions
\* forge never refuses a profile because of its name, after a lost reply, a
\* death between creating and saving, or a wiped store.
NeverRefused == calm => \A p \in Handlers : At(p, "create") => ~NameTaken(p)
=============================================================================
