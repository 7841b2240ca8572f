------------------------------ MODULE WebProofs -------------------------------
(***************************************************************************)
(* What is proved of the parts of the web server and the MCP server that   *)
(* keep state: the registry of builds, those who watch runs, the settings. *)
(***************************************************************************)
EXTENDS BuildRegistry, Watch, SettingsStore, SequenceTheorems, FiniteSetTheorems,
        WellFoundedInduction, TLAPS

-----------------------------------------------------------------------------
(***************************************************************************)
(* The registry of builds keeps what can still be watched and stays small: *)
(* proved for any MAX_JOBS and any number of builds.                       *)
(*                                                                         *)
(* NewestListed is inductive with the types.  Its parts need one another:  *)
(* a server that stops marks what the registry lists, so that what runs    *)
(* must be listed for every task to be marked; and trimming keeps the      *)
(* newest because a registered build has at most as many successors as     *)
(* were started after it.                                                  *)
(***************************************************************************)
RegistryTypes ==
    /\ jobs \in Seq(BuildJob)
    /\ listed \subseteq DOMAIN jobs /\ unfinished \subseteq DOMAIN jobs

RegistryInv == RegistryTypes /\ NewestListed

-----------------------------------------------------------------------------
(***************************************************************************)
(* About sets of places.                                                   *)
(***************************************************************************)
LEMMA PlacesAreFinite ==
    ASSUME NEW n \in Nat, NEW S \in SUBSET (1..n)
    PROVE  IsFiniteSet(S) /\ Cardinality(S) \in Nat
<1>1. IsFiniteSet(1..n)
  BY FS_Interval
<1>2. IsFiniteSet(S)
  BY <1>1, FS_Subset
<1> QED BY <1>2, FS_CardinalityType

\* At most n - j places of 1..n come after j.
LEMMA FewSuccessors ==
    ASSUME NEW n \in Nat, NEW S \in SUBSET (1..n), NEW j \in 1..n
    PROVE  Cardinality({i \in S : i > j}) <= n - j
<1> DEFINE T == {i \in S : i > j}
           U == (j + 1)..n
<1>1. T \in SUBSET U
  <2>1. ASSUME NEW i \in S, i > j PROVE i \in U
    <3>1. i \in 1..n
      OBVIOUS
    <3> QED BY <2>1, <3>1
  <2> QED BY <2>1
<1>2. IsFiniteSet(U) /\ Cardinality(U) = n - j
  <2>1. j + 1 \in Int /\ n \in Int
    OBVIOUS
  <2>2. IsFiniteSet(U) /\ Cardinality(U) = IF j + 1 > n THEN 0 ELSE n - (j + 1) + 1
    BY <2>1, FS_Interval
  <2> QED BY <2>2
<1>3. Cardinality(T) <= Cardinality(U)
  <2> HIDE DEF T, U
  <2> QED BY <1>1, <1>2, FS_Subset
<1> QED BY <1>2, <1>3

LEMMA SmallestPlace ==
    ASSUME NEW T \in SUBSET Nat, T # {}
    PROVE  \E m \in T : \A i \in T : i >= m
<1>1. PICK m \in T : \A i \in T : ~(<<i, m>> \in OpToRel(<, Nat))
  BY NatLessThanWellFounded, WFMin
<1>2. \A i \in T : ~(i < m)
  BY <1>1 DEF OpToRel
<1> QED BY <1>2

\* Of any set of places no more than MAX_JOBS are left when its oldest are gone.
LEMMA NewestAreFew ==
    ASSUME NEW n \in Nat, NEW S \in SUBSET (1..n)
    PROVE  Cardinality(S \ Oldest(S)) <= MaxJobs
<1> DEFINE K == S \ Oldest(S)
<1>1. MaxJobs \in Nat \ {0}
  BY RegistryAssumption
<1>2. K \in SUBSET (1..n)
  OBVIOUS
<1>3. CASE K = {}
  <2>1. Cardinality({}) = 0
    BY FS_EmptySet
  <2> QED BY <1>1, <1>3, <2>1
<1>4. CASE K # {}
  <2>1. PICK m \in K : \A i \in K : i >= m
    <3>1. K \in SUBSET Nat
      BY <1>2
    <3> HIDE DEF K
    <3> QED BY <1>4, <3>1, SmallestPlace
  <2> DEFINE T == {i \in S : i > m}
  <2>2. T \in SUBSET (1..n) /\ m \in S /\ m \in 1..n
    OBVIOUS
  <2>3. IsFiniteSet(T) /\ Cardinality(T) \in Nat
    <3> HIDE DEF T
    <3> QED BY <2>2, PlacesAreFinite
  <2>4. ~(Cardinality(T) >= MaxJobs)
    BY <2>1 DEF Oldest
  <2>5. K \in SUBSET (T \cup {m})
    <3>1. ASSUME NEW i \in K PROVE i = m \/ i \in T
      <4>1. i \in S /\ i >= m /\ i \in Nat /\ m \in Nat
        BY <1>2, <2>1, <2>2, <3>1
      <4> QED BY <4>1
    <3> QED BY <3>1
  <2> HIDE DEF T, K
  <2>6. IsFiniteSet(T \cup {m}) /\ Cardinality(T \cup {m}) <= Cardinality(T) + 1
    <3>1. /\ IsFiniteSet(T \cup {m})
          /\ Cardinality(T \cup {m}) = IF m \in T THEN Cardinality(T) ELSE Cardinality(T) + 1
      BY <2>3, FS_AddElement
    <3> QED BY <2>3, <3>1
  <2>7. Cardinality(K) <= Cardinality(T \cup {m})
    BY <2>5, <2>6, FS_Subset
  <2>8. Cardinality(K) \in Nat /\ Cardinality(T \cup {m}) \in Nat
    BY <1>2, <2>6, PlacesAreFinite, FS_CardinalityType
  <2> QED BY <1>1, <2>3, <2>4, <2>6, <2>7, <2>8 DEF K
<1> QED BY <1>3, <1>4

\* _trim: what it leaves is at most MAX_JOBS builds and the running ones.
LEMMA TrimmedIsSmall ==
    ASSUME NEW n \in Nat, NEW S \in SUBSET (1..n), NEW R \in SUBSET (1..n)
    PROVE  Cardinality(Trimmed(S, R)) <= MaxJobs + Cardinality(R)
<1> DEFINE K == S \ Oldest(S)
           L == Trimmed(S, R)
<1>1. L \in SUBSET (K \cup R) /\ K \in SUBSET (1..n) /\ L \in SUBSET (1..n)
  BY DEF Trimmed
<1>2. Cardinality(K) <= MaxJobs
  BY NewestAreFew
<1> HIDE DEF K, L
<1>3. /\ IsFiniteSet(K) /\ Cardinality(K) \in Nat
      /\ IsFiniteSet(R) /\ Cardinality(R) \in Nat
      /\ IsFiniteSet(K \cap R) /\ Cardinality(K \cap R) \in Nat
      /\ IsFiniteSet(L) /\ Cardinality(L) \in Nat
  <2>1. K \cap R \in SUBSET (1..n)
    BY <1>1
  <2> QED BY <1>1, <2>1, PlacesAreFinite
<1>4. /\ IsFiniteSet(K \cup R)
      /\ Cardinality(K \cup R) = Cardinality(K) + Cardinality(R) - Cardinality(K \cap R)
  BY <1>3, FS_Union
<1>5. Cardinality(L) <= Cardinality(K \cup R)
  BY <1>1, <1>4, FS_Subset
<1>6. MaxJobs \in Nat
  BY RegistryAssumption
<1> QED BY <1>2, <1>3, <1>4, <1>5, <1>6 DEF L

-----------------------------------------------------------------------------
LEMMA RegistryInvInit == RegistryInit => RegistryInv
<1> SUFFICES ASSUME RegistryInit PROVE RegistryInv
  OBVIOUS
<1>1. RegistryTypes
  BY DEF RegistryInit, RegistryTypes
<1>2. Running = {} /\ DOMAIN jobs = {}
  BY DEF RegistryInit, Running
<1>3. MaxJobs \in Nat /\ Cardinality({}) = 0
  BY RegistryAssumption, FS_EmptySet
<1>4. NewestListed
  BY <1>2, <1>3 DEF RegistryInit, NewestListed
<1> QED BY <1>1, <1>4 DEF RegistryInv

LEMMA StartKeeps ==
    ASSUME RegistryInv, NEW loop \in BOOLEAN, Start(loop)
    PROVE  RegistryInv'
<1> DEFINE n == Len(jobs)
           new == n + 1
           S == listed \cup {new}
           R == Running \cup {new}
           job == IF loop THEN Begun ELSE NotBegun
<1>1. /\ jobs' = Append(jobs, job) /\ unfinished' = R
      /\ listed' = Trimmed(S, R) /\ tasks' = IF loop THEN tasks \cup {new} ELSE tasks
  BY DEF Start
<1>2. jobs \in Seq(BuildJob) /\ n \in Nat /\ DOMAIN jobs = 1..n /\ listed \subseteq 1..n
  BY DEF RegistryInv, RegistryTypes
<1>3. /\ \A j \in 1..n : j + MaxJobs > n => j \in listed
      /\ Running \subseteq listed /\ tasks = Running
  BY <1>2 DEF RegistryInv, NewestListed
<1>4. MaxJobs \in Nat \ {0}
  BY RegistryAssumption
<1>5. job \in BuildJob /\ (job.status = "running" <=> loop = TRUE)
  BY DEF Begun, NotBegun, BuildJob, Status
<1> HIDE DEF job
<1>6. /\ jobs' \in Seq(BuildJob) /\ Len(jobs') = n + 1 /\ DOMAIN jobs' = 1..(n + 1)
      /\ \A j \in 1..n : jobs'[j] = jobs[j]
      /\ jobs'[new] = job
  BY <1>1, <1>2, <1>5, AppendProperties
<1>7. Running' = IF loop THEN Running \cup {new} ELSE Running
  <2>1. Running' = {j \in 1..(n + 1) : jobs'[j].status = "running"}
    BY <1>6 DEF Running
  <2>2. Running = {j \in 1..n : jobs[j].status = "running"}
    BY <1>2 DEF Running
  <2>3. 1..(n + 1) = (1..n) \cup {new} /\ new \notin 1..n
    BY <1>2
  <2> HIDE DEF new
  <2>4. CASE loop
    BY <1>5, <1>6, <2>1, <2>2, <2>3, <2>4
  <2>5. CASE ~loop
    BY <1>5, <1>6, <2>1, <2>2, <2>3, <2>5
  <2> QED BY <2>4, <2>5
<1>8. S \in SUBSET (1..new) /\ R \in SUBSET (1..new) /\ new \in Nat
  <2>1. (1..n) \subseteq 1..new /\ new \in 1..new /\ new \in Nat
    BY <1>2
  <2>2. listed \subseteq 1..n /\ Running \subseteq 1..n
    BY <1>2, <1>3
  <2> HIDE DEF new
  <2> QED BY <2>1, <2>2
<1>9. listed' \subseteq S /\ R \subseteq listed'
  BY <1>1, <1>3 DEF Trimmed
<1>10. RegistryTypes'
  BY <1>1, <1>6, <1>8, <1>9 DEF RegistryTypes
<1>11. ASSUME NEW j \in 1..new, j + MaxJobs > new
       PROVE  j \in listed'
  <2>1. j \in S
    <3>1. CASE j = new
      BY <3>1
    <3>2. CASE j # new
      <4>1. j \in 1..n /\ j + MaxJobs > n
        BY <1>2, <1>4, <1>11, <3>2
      <4> QED BY <1>3, <4>1
    <3> QED BY <3>1, <3>2
  <2>2. Cardinality({i \in S : i > j}) <= new - j
    <3> HIDE DEF S, new
    <3> QED BY <1>8, FewSuccessors
  <2>3. {i \in S : i > j} \in SUBSET (1..new)
    BY <1>8
  <2>4. Cardinality({i \in S : i > j}) \in Nat
    <3> HIDE DEF S, new
    <3> QED BY <1>8, <2>3, PlacesAreFinite
  <2>5. ~(Cardinality({i \in S : i > j}) >= MaxJobs)
    <3> DEFINE c == Cardinality({i \in S : i > j})
    <3>1. c \in Nat /\ c <= new - j /\ j \in Nat
      BY <1>11, <2>2, <2>4
    <3> HIDE DEF c
    <3>2. ~(c >= MaxJobs)
      BY <1>4, <1>8, <1>11, <3>1
    <3> QED BY <3>2 DEF c
  <2>6. j \notin Oldest(S)
    BY <2>5 DEF Oldest
  <2> QED BY <1>1, <2>1, <2>6 DEF Trimmed
<1>12. Running' \subseteq listed'
  BY <1>7, <1>9
<1>13. tasks' = Running'
  BY <1>1, <1>3, <1>7
<1>14. Cardinality(listed') <= MaxJobs + Cardinality(unfinished')
  <2> HIDE DEF S, R, new
  <2> QED BY <1>1, <1>8, TrimmedIsSmall
<1>15. NewestListed'
  <2>1. \A j \in DOMAIN jobs' : j + MaxJobs > Len(jobs') => j \in listed'
    BY <1>6, <1>11
  <2> QED BY <1>12, <1>13, <1>14, <2>1 DEF NewestListed
<1> QED BY <1>10, <1>15 DEF RegistryInv

\* A step that ends builds, and leaves the registry as it is.
LEMMA EndsKeep ==
    ASSUME RegistryInv, jobs' \in Seq(BuildJob), Len(jobs') = Len(jobs),
           Running' \subseteq Running, tasks' = Running', UNCHANGED <<listed, unfinished>>
    PROVE  RegistryInv'
<1>1. DOMAIN jobs' = DOMAIN jobs
  BY DEF RegistryInv, RegistryTypes
<1>2. RegistryTypes'
  BY <1>1 DEF RegistryInv, RegistryTypes
<1>3. NewestListed'
  BY <1>1 DEF RegistryInv, NewestListed
<1> QED BY <1>2, <1>3 DEF RegistryInv

LEMMA RegistryInvNext == RegistryInv /\ [RegistryNext]_registry => RegistryInv'
<1> SUFFICES ASSUME RegistryInv, [RegistryNext]_registry PROVE RegistryInv'
  OBVIOUS
<1>1. ASSUME NEW loop \in BOOLEAN, Start(loop) PROVE RegistryInv'
  BY <1>1, StartKeeps
<1>2. ASSUME NEW j \in tasks, BuildEnds(j) PROVE RegistryInv'
  <2>1. PICK job \in BuildJob : job.status # "running" /\ jobs' = [jobs EXCEPT ![j] = job]
    <3>1. PICK status \in {"done", "failed"}, found \in BOOLEAN, told \in BOOLEAN :
              Becomes(j, status, found, told)
      BY <1>2 DEF BuildEnds
    <3> DEFINE job == [status |-> status, found |-> found, told |-> told, ended |-> TRUE]
    <3>2. job \in BuildJob /\ job.status # "running"
      BY DEF BuildJob, Status
    <3>3. jobs' = [jobs EXCEPT ![j] = job]
      BY <3>1 DEF Becomes
    <3> HIDE DEF job
    <3> QED BY <3>2, <3>3
  <2>2. jobs \in Seq(BuildJob) /\ tasks = Running /\ j \in 1..Len(jobs) /\ DOMAIN jobs = 1..Len(jobs)
    BY DEF RegistryInv, RegistryTypes, NewestListed, Running
  <2>3. jobs' \in Seq(BuildJob) /\ Len(jobs') = Len(jobs)
    BY <2>1, <2>2, ExceptSeq
  <2>4. \A i \in DOMAIN jobs : jobs'[i] = IF i = j THEN job ELSE jobs[i]
    BY <2>1, Zenon
  <2>5. DOMAIN jobs' = DOMAIN jobs
    BY <2>1
  <2>6. Running' = Running \ {j}
    BY <2>1, <2>4, <2>5 DEF Running
  <2>7. tasks' = tasks \ {j} /\ UNCHANGED <<listed, unfinished>>
    BY <1>2 DEF BuildEnds
  <2> QED BY <2>2, <2>3, <2>6, <2>7, EndsKeep
<1>3. CASE CancelAll
  <2> DEFINE mark(j) == [jobs[j] EXCEPT !.status = "failed", !.told = TRUE, !.ended = TRUE]
  <2>1. /\ jobs' = [j \in DOMAIN jobs |-> IF j \in listed \cap Running THEN mark(j) ELSE jobs[j]]
        /\ tasks' = {} /\ UNCHANGED <<listed, unfinished>>
    BY <1>3 DEF CancelAll
  <2>2. jobs \in Seq(BuildJob) /\ Running \subseteq listed /\ DOMAIN jobs = 1..Len(jobs) /\ Len(jobs) \in Nat
    BY DEF RegistryInv, RegistryTypes, NewestListed
  <2>3. \A j \in DOMAIN jobs : jobs[j] \in BuildJob
    BY <2>2
  <2>4. \A j \in DOMAIN jobs : mark(j) \in BuildJob /\ mark(j).status = "failed"
    BY <2>3 DEF BuildJob, Status
  <2> HIDE DEF mark
  <2>5. \A j \in DOMAIN jobs : jobs'[j] \in BuildJob /\ jobs'[j].status # "running"
    BY <2>1, <2>2, <2>3, <2>4 DEF Running
  <2>6. DOMAIN jobs' = 1..Len(jobs) /\ jobs' = [j \in 1..Len(jobs) |-> jobs'[j]]
    BY <2>1, <2>2
  <2>7. jobs' \in Seq(BuildJob) /\ Len(jobs') = Len(jobs)
    <3>1. jobs' \in [1..Len(jobs) -> BuildJob]
      BY <2>2, <2>5, <2>6
    <3> QED BY <2>2, <3>1
  <2>8. Running' = {}
    BY <2>2, <2>5, <2>6 DEF Running
  <2> QED BY <2>1, <2>7, <2>8, EndsKeep
<1>4. CASE UNCHANGED registry
  BY <1>4 DEF registry, RegistryInv, RegistryTypes, NewestListed, Running
<1> QED BY <1>1, <1>2, <1>3, <1>4 DEF RegistryNext

-----------------------------------------------------------------------------
\* web/builds.py, _trim and cancel_all: a running build, and one of the newest MAX_JOBS,
\* can be watched; only builds that ran when it was last trimmed make the registry larger;
\* and a build that is shown as running has a coroutine that may end it.
THEOREM NewestAreListed == RegistrySpec => []NewestListed
<1>1. RegistryInv /\ [RegistryNext]_registry => RegistryInv'
  BY RegistryInvNext
<1>2. RegistryInv => NewestListed
  BY DEF RegistryInv
<1> QED BY RegistryInvInit, <1>1, <1>2, PTL DEF RegistrySpec

-----------------------------------------------------------------------------
(***************************************************************************)
(* Those who watch a run see the right run and the right lines: proved for *)
(* any number of runs, of lines, of log streams and of callers.            *)
(*                                                                         *)
(* A call that is not crowded made every run that is newer than the one it *)
(* knew (OwnRuns), and a stream has shown the log, place for place, up to  *)
(* where it will read on (ShownInPlace); a log is only ever appended to.   *)
(***************************************************************************)
Row == [status : Live \cup Terminal, by : Callers \cup {Other}, child : {"due", "on", "over"}]
Pipe == [out : Nat, pumped : Nat]
Viewer == [run : Nat, path : BOOLEAN, shown : Seq(Nat), pos : Nat,
           at : {"closed", "read", "status", "done", "gone"}]
Asker == [known : Nat, run : Nat, answer : Terminal \cup Live \cup {"none"},
          waits : BOOLEAN, at : {"idle", "enqueue", "appear", "wait", "answered"}]

RunTypes ==
    /\ row \in Seq(Row) /\ queue \in Seq(Callers)
    /\ log \in Seq(Seq(Nat)) /\ piped \in Seq(Pipe)
    /\ Len(log) = Len(row) /\ Len(piped) = Len(row)
WatcherTypes ==
    /\ stream \in [Streams -> Viewer] /\ caller \in [Callers -> Asker]
    /\ crowded \subseteq Callers

\* Whoever looks for its run knows of no run that is not there; every newer one is its
\* own, unless it was crowded, and so is the run it has found.
OwnRuns ==
    \A c \in Callers :
        /\ caller[c].known <= Len(row)
        /\ caller[c].at \in {"enqueue", "appear"} /\ c \notin crowded =>
              \A i \in 1..Len(row) : i > caller[c].known => row[i].by = c
        /\ caller[c].run > 0 =>
              /\ caller[c].run > caller[c].known /\ caller[c].run <= Len(row)
              /\ c \notin crowded => row[caller[c].run].by = c

InPlace(s, l) ==
    /\ Len(s.shown) = s.pos /\ s.pos <= Len(l)
    /\ \A i \in 1..s.pos : s.shown[i] = l[i]
ShownInPlace ==
    \A v \in Streams : stream[v].at # "closed" =>
        stream[v].run \in 1..Len(log) /\ InPlace(stream[v], log[stream[v].run])

WatchInv == RunTypes /\ WatcherTypes /\ OwnRuns /\ ShownInPlace

-----------------------------------------------------------------------------
(***************************************************************************)
(* What a step may do to rows and logs.                                    *)
(***************************************************************************)
\* Rows stay whose they are.
RowsKept == Len(row') = Len(row) /\ \A i \in 1..Len(row) : row'[i].by = row[i].by

\* One row more, which crowds the calls of others.
RowAdded ==
    /\ Len(row') = Len(row) + 1
    /\ \A i \in 1..Len(row) : row'[i].by = row[i].by
    /\ \A c \in Callers : caller[c].at \in {"enqueue", "appear"} /\ c \notin crowded' =>
          row'[Len(row) + 1].by = c

\* Logs are appended to.
LogsGrow ==
    /\ Len(log) <= Len(log')
    /\ \A r \in 1..Len(log) : /\ Len(log[r]) <= Len(log'[r])
                              /\ \A i \in 1..Len(log[r]) : log'[r][i] = log[r][i]

\* The runs a call knows or has found stay what they are while rows are added.
LEMMA OwnRunsKept ==
    ASSUME WatchInv, RunTypes', WatcherTypes', RowsKept \/ RowAdded,
           crowded \subseteq crowded', UNCHANGED caller
    PROVE  OwnRuns'
<1> SUFFICES ASSUME NEW c \in Callers
             PROVE  /\ caller[c].known <= Len(row')
                    /\ caller[c].at \in {"enqueue", "appear"} /\ c \notin crowded' =>
                          \A i \in 1..Len(row') : i > caller[c].known => row'[i].by = c
                    /\ caller[c].run > 0 =>
                          /\ caller[c].run > caller[c].known /\ caller[c].run <= Len(row')
                          /\ c \notin crowded' => row'[caller[c].run].by = c
  BY DEF OwnRuns
<1>1. /\ Len(row) \in Nat /\ Len(row') \in Nat
      /\ caller[c].known \in Nat /\ caller[c].run \in Nat
      /\ c \notin crowded' => c \notin crowded
  BY DEF WatchInv, RunTypes, WatcherTypes, Asker
<1>2. /\ caller[c].known <= Len(row)
      /\ caller[c].at \in {"enqueue", "appear"} /\ c \notin crowded =>
            \A i \in 1..Len(row) : i > caller[c].known => row[i].by = c
      /\ caller[c].run > 0 =>
            /\ caller[c].run > caller[c].known /\ caller[c].run <= Len(row)
            /\ c \notin crowded => row[caller[c].run].by = c
  BY DEF WatchInv, OwnRuns
<1>3. CASE RowsKept
  BY <1>1, <1>2, <1>3 DEF RowsKept
<1>4. CASE RowAdded
  <2>1. caller[c].known <= Len(row')
    BY <1>1, <1>2, <1>4 DEF RowAdded
  <2>2. ASSUME caller[c].at \in {"enqueue", "appear"}, c \notin crowded',
               NEW i \in 1..Len(row'), i > caller[c].known
        PROVE  row'[i].by = c
    <3>1. CASE i = Len(row) + 1
      BY <1>4, <2>2, <3>1 DEF RowAdded
    <3>2. CASE i # Len(row) + 1
      BY <1>1, <1>2, <1>4, <2>2, <3>2 DEF RowAdded
    <3> QED BY <3>1, <3>2
  <2>3. caller[c].run > 0 =>
            /\ caller[c].run > caller[c].known /\ caller[c].run <= Len(row')
            /\ c \notin crowded' => row'[caller[c].run].by = c
    BY <1>1, <1>2, <1>4 DEF RowAdded
  <2> QED BY <2>1, <2>2, <2>3
<1> QED BY <1>3, <1>4

\* What a stream has shown stays the beginning of a log that grows.
LEMMA ShownKept ==
    ASSUME WatchInv, RunTypes', LogsGrow, UNCHANGED stream
    PROVE  ShownInPlace'
<1> SUFFICES ASSUME NEW v \in Streams, stream[v].at # "closed"
             PROVE  stream[v].run \in 1..Len(log') /\ InPlace(stream[v], log'[stream[v].run])
  BY DEF ShownInPlace, InPlace
<1> DEFINE r == stream[v].run
<1>1. /\ r \in 1..Len(log) /\ Len(stream[v].shown) = stream[v].pos
      /\ stream[v].pos <= Len(log[r])
      /\ \A i \in 1..stream[v].pos : stream[v].shown[i] = log[r][i]
  BY DEF WatchInv, ShownInPlace, InPlace
<1>2. r \in Nat /\ stream[v].pos \in Nat /\ Len(log) \in Nat /\ Len(log') \in Nat
  BY DEF WatchInv, WatcherTypes, RunTypes, Viewer
<1>3. log[r] \in Seq(Nat) /\ Len(log[r]) \in Nat
  BY <1>1 DEF WatchInv, RunTypes
<1>4. r \in 1..Len(log')
  BY <1>1, <1>2 DEF LogsGrow
<1>5. log'[r] \in Seq(Nat) /\ Len(log'[r]) \in Nat
  BY <1>4 DEF RunTypes
<1> HIDE DEF r
<1>6. Len(log[r]) <= Len(log'[r]) /\ \A i \in 1..Len(log[r]) : log'[r][i] = log[r][i]
  BY <1>1 DEF LogsGrow
<1>7. stream[v].pos <= Len(log'[r]) /\ \A i \in 1..stream[v].pos : log'[r][i] = log[r][i]
  <2> DEFINE n == stream[v].pos
             l == log[r]
             k == log'[r]
  <2>1. n \in Nat /\ n <= Len(l) /\ Len(l) \in Nat /\ Len(k) \in Nat /\ Len(l) <= Len(k)
    BY <1>1, <1>2, <1>3, <1>5, <1>6
  <2>2. \A i \in 1..Len(l) : k[i] = l[i]
    BY <1>6
  <2> HIDE DEF n, l, k
  <2>3. n <= Len(k) /\ \A i \in 1..n : k[i] = l[i]
    BY <2>1, <2>2
  <2> QED BY <2>3 DEF n, l, k
<1>8. InPlace(stream[v], log'[r])
  BY <1>1, <1>7 DEF InPlace
<1> QED BY <1>4, <1>8 DEF r

-----------------------------------------------------------------------------
(***************************************************************************)
(* The steps of the runs.                                                  *)
(***************************************************************************)
LEMMA RowIsAdded ==
    ASSUME WatchInv, NEW status \in Live, NEW by \in Callers \cup {Other}, AddRow(status, by),
           queue' \in Seq(Callers), UNCHANGED <<stream, caller>>
    PROVE  WatchInv'
<1> DEFINE new == [status |-> status, by |-> by, child |-> IF status = "queued" THEN "due" ELSE "on"]
           none == [out |-> 0, pumped |-> 0]
<1>1. /\ row' = Append(row, new) /\ log' = Append(log, <<>>) /\ piped' = Append(piped, none)
      /\ crowded' = crowded \cup {c \in Callers \ {by} : caller[c].at \in {"enqueue", "appear"}}
  BY DEF AddRow
<1>2. row \in Seq(Row) /\ log \in Seq(Seq(Nat)) /\ piped \in Seq(Pipe)
      /\ Len(log) = Len(row) /\ Len(piped) = Len(row)
  BY DEF WatchInv, RunTypes
<1>3. new \in Row /\ new.by = by /\ none \in Pipe
  BY DEF Row, Live, Pipe
<1>4. <<>> \in Seq(Nat)
  OBVIOUS
<1> HIDE DEF new, none
<1>5. /\ row' \in Seq(Row) /\ Len(row') = Len(row) + 1 /\ row'[Len(row) + 1] = new
      /\ \A i \in 1..Len(row) : row'[i] = row[i]
  BY <1>1, <1>2, <1>3, AppendProperties
<1>6. /\ log' \in Seq(Seq(Nat)) /\ Len(log') = Len(log) + 1
      /\ \A r \in 1..Len(log) : log'[r] = log[r]
  BY <1>1, <1>2, <1>4, AppendProperties
<1>7. piped' \in Seq(Pipe) /\ Len(piped') = Len(piped) + 1
  BY <1>1, <1>2, <1>3, AppendProperties
<1>8. RunTypes'
  BY <1>2, <1>5, <1>6, <1>7 DEF RunTypes
<1>9. WatcherTypes'
  BY <1>1 DEF WatchInv, WatcherTypes
<1>10. RowAdded
  BY <1>1, <1>3, <1>5 DEF RowAdded
<1>11. LogsGrow
  <2>1. \A r \in 1..Len(log) : Len(log[r]) \in Nat
    BY <1>2
  <2>2. Len(log) \in Nat
    BY <1>2
  <2> QED BY <1>6, <2>1, <2>2 DEF LogsGrow
<1>12. crowded \subseteq crowded'
  BY <1>1
<1>13. OwnRuns'
  BY <1>8, <1>9, <1>10, <1>12, OwnRunsKept
<1>14. ShownInPlace'
  BY <1>8, <1>11, ShownKept
<1> QED BY <1>8, <1>9, <1>13, <1>14 DEF WatchInv

\* A step that gives a row another status.
LEMMA RowIsSet ==
    ASSUME WatchInv, NEW r \in DOMAIN row, NEW new \in Row, new.by = row[r].by,
           row' = [row EXCEPT ![r] = new],
           UNCHANGED <<queue, log, piped, stream, caller, crowded>>
    PROVE  WatchInv'
<1>1. row \in Seq(Row) /\ r \in 1..Len(row)
  BY DEF WatchInv, RunTypes
<1>2. row' \in Seq(Row) /\ Len(row') = Len(row)
  BY <1>1, ExceptSeq
<1>3. \A i \in 1..Len(row) : row'[i].by = row[i].by
  BY <1>1
<1>4. RunTypes' /\ WatcherTypes'
  BY <1>2 DEF WatchInv, RunTypes, WatcherTypes
<1>5. RowsKept
  BY <1>2, <1>3 DEF RowsKept
<1>6. OwnRuns'
  BY <1>4, <1>5, OwnRunsKept
<1>7. ShownInPlace'
  BY DEF WatchInv, ShownInPlace, InPlace
<1> QED BY <1>4, <1>6, <1>7 DEF WatchInv

\* A step that appends a line to the log of a run.
LEMMA LineIsAdded ==
    ASSUME WatchInv, NEW r \in DOMAIN row, NEW n \in Nat, NEW p \in Pipe,
           log' = [log EXCEPT ![r] = Append(@, n)],
           piped' = [piped EXCEPT ![r] = p],
           UNCHANGED <<row, queue, stream, caller, crowded>>
    PROVE  WatchInv'
<1>1. /\ log \in Seq(Seq(Nat)) /\ piped \in Seq(Pipe) /\ row \in Seq(Row)
      /\ Len(log) = Len(row) /\ Len(piped) = Len(row)
  BY DEF WatchInv, RunTypes
<1>2. r \in 1..Len(log) /\ r \in 1..Len(piped) /\ log[r] \in Seq(Nat)
  BY <1>1
<1> DEFINE l == Append(log[r], n)
<1>3. l \in Seq(Nat) /\ Len(l) = Len(log[r]) + 1 /\ \A i \in 1..Len(log[r]) : l[i] = log[r][i]
  BY <1>2, AppendProperties
<1>4. log' = [log EXCEPT ![r] = l]
  OBVIOUS
<1> HIDE DEF l
<1>5. log' \in Seq(Seq(Nat)) /\ Len(log') = Len(log)
  BY <1>1, <1>2, <1>3, <1>4, ExceptSeq
<1>6. piped' \in Seq(Pipe) /\ Len(piped') = Len(piped)
  BY <1>1, <1>2, ExceptSeq
<1>7. RunTypes' /\ WatcherTypes'
  BY <1>1, <1>5, <1>6 DEF WatchInv, RunTypes, WatcherTypes
<1>8. \A q \in 1..Len(log) : log'[q] = IF q = r THEN l ELSE log[q]
  <2>1. DOMAIN log = 1..Len(log)
    BY <1>1
  <2> QED BY <2>1, <1>4, Zenon
<1>9. \A q \in 1..Len(log) : Len(log[q]) \in Nat
  BY <1>1
<1>10. ASSUME NEW q \in 1..Len(log)
       PROVE  Len(log[q]) <= Len(log'[q]) /\ \A i \in 1..Len(log[q]) : log'[q][i] = log[q][i]
  <2>1. CASE q = r
    <3>1. log'[q] = l
      BY <1>8, <2>1
    <3>2. Len(log[q]) \in Nat
      BY <1>9
    <3> QED BY <1>3, <2>1, <3>1, <3>2
  <2>2. CASE q # r
    <3>1. log'[q] = log[q]
      BY <1>8, <2>2
    <3> QED BY <1>9, <3>1
  <2> QED BY <2>1, <2>2
<1>11. LogsGrow
  <2>1. Len(log) <= Len(log')
    BY <1>1, <1>5
  <2> QED BY <1>10, <2>1 DEF LogsGrow
<1>12. ShownInPlace'
  BY <1>7, <1>11, ShownKept
<1>13. OwnRuns'
  BY DEF WatchInv, OwnRuns
<1> QED BY <1>7, <1>12, <1>13 DEF WatchInv

-----------------------------------------------------------------------------
(***************************************************************************)
(* The steps of those who watch.                                           *)
(***************************************************************************)
LEMMA StreamIsSet ==
    ASSUME WatchInv, NEW v \in Streams, NEW s \in Viewer, s.at # "closed",
           s.run \in 1..Len(log), InPlace(s, log[s.run]),
           stream' = [stream EXCEPT ![v] = s], UNCHANGED <<runTables, caller, crowded>>
    PROVE  WatchInv'
<1>1. RunTypes' /\ WatcherTypes'
  BY DEF WatchInv, RunTypes, WatcherTypes, runTables
<1>2. OwnRuns'
  BY DEF WatchInv, OwnRuns, runTables
<1>3. \A u \in Streams : stream'[u] = IF u = v THEN s ELSE stream[u]
  BY DEF WatchInv, WatcherTypes
<1>4. log' = log
  BY DEF runTables
<1>5. ShownInPlace'
  BY <1>3, <1>4 DEF WatchInv, ShownInPlace, InPlace
<1> QED BY <1>1, <1>2, <1>5 DEF WatchInv

LEMMA CallerIsSet ==
    ASSUME WatchInv, NEW c \in Callers, NEW a \in Asker, a.known <= Len(row),
           a.at \in {"enqueue", "appear"} /\ c \notin crowded =>
              \A i \in 1..Len(row) : i > a.known => row[i].by = c,
           a.run > 0 => /\ a.run > a.known /\ a.run <= Len(row)
                        /\ c \notin crowded => row[a.run].by = c,
           caller' = [caller EXCEPT ![c] = a], queue' \in Seq(Callers),
           UNCHANGED <<row, log, piped, stream, crowded>>
    PROVE  WatchInv'
<1>1. RunTypes' /\ WatcherTypes'
  BY DEF WatchInv, RunTypes, WatcherTypes
<1>2. ShownInPlace'
  BY DEF WatchInv, ShownInPlace, InPlace
<1>3. \A d \in Callers : caller'[d] = IF d = c THEN a ELSE caller[d]
  BY DEF WatchInv, WatcherTypes
<1>4. OwnRuns'
  BY <1>3 DEF WatchInv, OwnRuns
<1> QED BY <1>1, <1>2, <1>4 DEF WatchInv

\* Reading on from where the last reading ended shows the whole log.
LEMMA ReadFromInPlace ==
    ASSUME NEW s \in Viewer, NEW l \in Seq(Nat), InPlace(s, l)
    PROVE  LET t == s.shown \o SubSeq(l, s.pos + 1, Len(l))
           IN  t \in Seq(Nat) /\ Len(t) = Len(l) /\ \A i \in 1..Len(l) : t[i] = l[i]
<1> DEFINE u == SubSeq(l, s.pos + 1, Len(l))
           t == s.shown \o u
<1>1. s.shown \in Seq(Nat) /\ s.pos \in Nat /\ Len(l) \in Nat /\ s.pos <= Len(l) /\ Len(s.shown) = s.pos
  BY DEF Viewer, InPlace
<1>2. \A i \in (s.pos + 1)..Len(l) : l[i] \in Nat
  BY <1>1
<1>3. u \in Seq(Nat) /\ Len(u) = Len(l) - s.pos /\ \A i \in 1..(Len(l) - s.pos) : u[i] = l[s.pos + i]
  <2> DEFINE p == s.pos
             m == p + 1
             n == Len(l)
             w == SubSeq(l, m, n)
  <2>1. p \in Nat /\ n \in Nat /\ p <= n /\ m \in Int /\ n \in Int /\ m = p + 1
    BY <1>1
  <2>2. \A i \in m..n : l[i] \in Nat
    BY <1>2
  <2>3. w = u
    OBVIOUS
  <2> HIDE DEF p, m, n, u
  <2>4. /\ w \in Seq(Nat)
        /\ Len(w) = IF m <= n THEN n - m + 1 ELSE 0
        /\ \A i \in 1..n - m + 1 : w[i] = l[m + i - 1]
    BY <2>1, <2>2, SubSeqProperties
  <2> HIDE DEF w
  <2>5. n - m + 1 = n - p /\ Len(w) = n - p
    BY <2>1, <2>4
  <2>6. ASSUME NEW i \in 1..(n - p) PROVE w[i] = l[p + i]
    <3>1. w[i] = l[m + i - 1] /\ m + i - 1 = p + i
      BY <2>1, <2>4, <2>5
    <3> QED BY <3>1
  <2> QED BY <2>3, <2>4, <2>5, <2>6 DEF p, n
<1>4. Len(u) = Len(l) - s.pos /\ \A i \in 1..(Len(l) - s.pos) : u[i] = l[s.pos + i]
  BY <1>3
<1> HIDE DEF u
<1>5. /\ t \in Seq(Nat) /\ Len(t) = Len(s.shown) + Len(u)
      /\ \A i \in 1..Len(s.shown) + Len(u) :
            t[i] = IF i <= Len(s.shown) THEN s.shown[i] ELSE u[i - Len(s.shown)]
  <2>1. s.shown \in Seq(Nat) /\ u \in Seq(Nat)
    BY <1>1, <1>3
  <2> QED BY <2>1, ConcatProperties
<1> HIDE DEF t
<1>6. Len(t) = Len(l)
  BY <1>1, <1>4, <1>5
<1>7. ASSUME NEW i \in 1..Len(l)
      PROVE  t[i] = l[i]
  <2>1. CASE i <= s.pos
    <3>1. i \in 1..s.pos /\ i <= Len(s.shown) /\ i \in 1..(Len(s.shown) + Len(u))
      BY <1>1, <1>4, <2>1
    <3>2. t[i] = s.shown[i]
      BY <1>5, <3>1
    <3>3. s.shown[i] = l[i]
      BY <3>1 DEF InPlace
    <3> QED BY <3>2, <3>3
  <2>2. CASE i > s.pos
    <3>1. s.pos \in Nat /\ Len(s.shown) = s.pos /\ Len(l) \in Nat
      BY <1>1 DEF InPlace
    <3>2. i - s.pos \in 1..(Len(l) - s.pos)
      BY <2>2, <3>1
    <3>3. t[i] = u[i - s.pos]
      <4>1. i \in 1..(Len(s.shown) + Len(u)) /\ ~(i <= Len(s.shown))
        BY <1>4, <2>2, <3>1
      <4> QED BY <1>5, <3>1, <4>1
    <3>4. u[i - s.pos] = l[s.pos + (i - s.pos)]
      BY <1>4, <3>2
    <3>5. s.pos + (i - s.pos) = i
      BY <3>1
    <3> QED BY <3>3, <3>4, <3>5
  <2> QED BY <1>1, <2>1, <2>2
<1> QED BY <1>5, <1>6, <1>7 DEF t, u

LEMMA ReadLogKeeps ==
    ASSUME WatchInv, NEW v \in Streams, ReadLog(v)
    PROVE  WatchInv'
<1> DEFINE s == stream[v]
           l == log[s.run]
<1>1. s \in Viewer /\ s.at = "read" /\ s.run \in 1..Len(log) /\ InPlace(s, l)
  BY DEF WatchInv, WatcherTypes, ShownInPlace, ReadLog
<1>2. l \in Seq(Nat)
  BY <1>1 DEF WatchInv, RunTypes
<1>3. UNCHANGED <<runTables, caller, crowded>>
  BY DEF ReadLog
<1>4. CASE s.path
  <2> DEFINE t == s.shown \o SubSeq(l, s.pos + 1, Len(l))
             n == [s EXCEPT !.shown = t, !.pos = Len(l), !.at = "status"]
  <2>1. t \in Seq(Nat) /\ Len(t) = Len(l) /\ \A i \in 1..Len(l) : t[i] = l[i]
    BY <1>1, <1>2, ReadFromInPlace
  <2>2. ReadFrom(s) = n
    BY DEF ReadFrom
  <2> HIDE DEF t
  <2>3. n \in Viewer /\ n.at = "status" /\ n.run = s.run /\ n.shown = t /\ n.pos = Len(l)
    <3> DEFINE m == Len(l)
    <3>1. m \in Nat /\ t \in Seq(Nat) /\ s \in Viewer
      BY <1>1, <1>2, <2>1
    <3> HIDE DEF s, l, m
    <3>2. n = [s EXCEPT !.shown = t, !.pos = m, !.at = "status"]
      BY DEF m
    <3> HIDE DEF n
    <3>3. n \in Viewer /\ n.at = "status" /\ n.run = s.run /\ n.shown = t /\ n.pos = m
      BY <3>1, <3>2 DEF Viewer
    <3> QED BY <3>3 DEF m
  <2>4. stream' = [stream EXCEPT ![v] = n]
    BY <1>4, <2>2 DEF ReadLog
  <2> HIDE DEF n, l
  <2>5. InPlace(n, l)
    BY <1>2, <2>1, <2>3 DEF InPlace
  <2>6. n.at # "closed" /\ n.run \in 1..Len(log) /\ InPlace(n, log[n.run])
    BY <1>1, <2>3, <2>5 DEF l
  <2> QED BY <1>3, <2>3, <2>4, <2>6, StreamIsSet
<1>5. CASE ~s.path
  <2> DEFINE n == [s EXCEPT !.at = "status"]
  <2>1. n \in Viewer /\ n.at = "status" /\ n.run = s.run /\ n.shown = s.shown /\ n.pos = s.pos
    BY <1>1 DEF Viewer
  <2>2. stream' = [stream EXCEPT ![v] = n]
    BY <1>5 DEF ReadLog
  <2> HIDE DEF n
  <2>3. n.at # "closed" /\ n.run \in 1..Len(log) /\ InPlace(n, log[n.run])
    BY <1>1, <2>1 DEF InPlace
  <2> QED BY <1>3, <2>1, <2>2, <2>3, StreamIsSet
<1> QED BY <1>4, <1>5

-----------------------------------------------------------------------------
LEMMA WatchInvInit == WatchInit => WatchInv
<1> SUFFICES ASSUME WatchInit PROVE WatchInv
  OBVIOUS
<1>1. Closed \in Viewer /\ Closed.at = "closed"
  BY DEF Closed, Viewer
<1>2. Idle \in Asker /\ Idle.known = 0 /\ Idle.run = 0
  BY DEF Idle, Asker
<1>3. RunTypes
  BY DEF WatchInit, RunTypes
<1>4. WatcherTypes
  BY <1>1, <1>2 DEF WatchInit, WatcherTypes
<1>5. OwnRuns
  BY <1>2 DEF WatchInit, OwnRuns
<1>6. ShownInPlace
  BY <1>1 DEF WatchInit, ShownInPlace
<1> QED BY <1>3, <1>4, <1>5, <1>6 DEF WatchInv

LEMMA WatchInvNext == WatchInv /\ [WatchNext]_watch => WatchInv'
<1> SUFFICES ASSUME WatchInv, [WatchNext]_watch PROVE WatchInv'
  OBVIOUS
<1>1. CASE OthersRun
  <2>1. PICK status \in Live : AddRow(status, Other) /\ UNCHANGED <<queue, stream, caller>>
    BY <1>1 DEF OthersRun
  <2>2. queue' \in Seq(Callers)
    BY <2>1 DEF WatchInv, RunTypes
  <2> QED BY <2>1, <2>2, RowIsAdded
<1>2. CASE TakeUp
  <2>1. queue \in Seq(Callers) /\ queue # <<>>
    BY <1>2 DEF TakeUp, WatchInv, RunTypes
  <2>2. Head(queue) \in Callers /\ Tail(queue) \in Seq(Callers)
    BY <2>1, HeadTailProperties
  <2>3. /\ AddRow("running", Head(queue)) /\ queue' \in Seq(Callers) /\ UNCHANGED <<stream, caller>>
        /\ "running" \in Live
    BY <1>2, <2>2 DEF TakeUp, Live
  <2> QED BY <2>2, <2>3, RowIsAdded
<1>3. ASSUME NEW r \in DOMAIN row, Adopt(r) \/ Record(r) \/ CancelRow(r)
      PROVE  WatchInv'
  <2>1. row[r] \in Row
    BY DEF WatchInv, RunTypes
  <2>2. PICK status \in Live \cup Terminal, child \in {"due", "on", "over"} :
            row' = [row EXCEPT ![r].status = status, ![r].child = child]
    <3>1. CASE Adopt(r)
      BY <3>1 DEF Adopt, Live
    <3>2. CASE Record(r)
      BY <3>2 DEF Record
    <3>3. CASE CancelRow(r)
      <4>1. row' = [row EXCEPT ![r].status = "cancelled"]
        BY <3>3 DEF CancelRow
      <4>2. row' = [row EXCEPT ![r].status = "cancelled", ![r].child = row[r].child]
        BY <2>1, <4>1 DEF Row, WatchInv, RunTypes
      <4> QED BY <2>1, <4>2 DEF Row, Terminal
    <3> QED BY <1>3, <3>1, <3>2, <3>3
  <2> DEFINE new == [row[r] EXCEPT !.status = status, !.child = child]
  <2>3. new \in Row /\ new.by = row[r].by
    BY <2>1 DEF Row
  <2>4. row' = [row EXCEPT ![r] = new]
    BY <2>1, <2>2 DEF Row, WatchInv, RunTypes
  <2>5. UNCHANGED <<queue, log, piped, stream, caller, crowded>>
    BY <1>3 DEF Adopt, Record, CancelRow
  <2> HIDE DEF new
  <2> QED BY <2>3, <2>4, <2>5, RowIsSet
<1>4. ASSUME NEW r \in DOMAIN row, Emit(r) \/ Pump(r)
      PROVE  WatchInv'
  <2>1. r \in 1..Len(piped) /\ r \in 1..Len(log) /\ piped \in Seq(Pipe)
    BY DEF WatchInv, RunTypes
  <2>2. piped[r] \in Pipe
    BY <2>1
  <2>3. PICK p \in Pipe, n \in Nat :
            /\ piped' = [piped EXCEPT ![r] = p]
            /\ log' = [log EXCEPT ![r] = Append(@, n)]
    <3>1. CASE Emit(r)
      <4> DEFINE p == [piped[r] EXCEPT !.out = @ + 1]
      <4>1. p \in Pipe /\ piped[r].out + 1 \in Nat
        BY <2>2 DEF Pipe
      <4>2. /\ piped' = [piped EXCEPT ![r] = p]
            /\ log' = [log EXCEPT ![r] = Append(@, piped[r].out + 1)]
        BY <3>1 DEF Emit
      <4> HIDE DEF p
      <4> QED BY <4>1, <4>2
    <3>2. CASE Pump(r)
      <4> DEFINE p == [piped[r] EXCEPT !.pumped = @ + 1]
      <4>1. p \in Pipe /\ piped[r].pumped + 1 \in Nat
        BY <2>2 DEF Pipe
      <4>2. /\ piped' = [piped EXCEPT ![r] = p]
            /\ log' = [log EXCEPT ![r] = Append(@, piped[r].pumped + 1)]
        BY <3>2 DEF Pump
      <4> HIDE DEF p
      <4> QED BY <4>1, <4>2
    <3> QED BY <1>4, <3>1, <3>2
  <2>4. UNCHANGED <<row, queue, stream, caller, crowded>>
    BY <1>4 DEF Emit, Pump
  <2> QED BY <2>3, <2>4, LineIsAdded
<1>5. ASSUME NEW v \in Streams, NEW r \in DOMAIN row, Open(v, r)
      PROVE  WatchInv'
  <2> DEFINE s == [Closed EXCEPT !.run = r, !.at = "read", !.path = row[r].child # "due"]
  <2>1. r \in Nat /\ r \in 1..Len(log) /\ log[r] \in Seq(Nat)
    BY DEF WatchInv, RunTypes
  <2>2. s \in Viewer /\ s.at = "read" /\ s.run = r /\ s.shown = <<>> /\ s.pos = 0
    <3> DEFINE p == row[r].child # "due"
               none == <<>>
    <3>1. p \in BOOLEAN /\ none \in Seq(Nat)
      OBVIOUS
    <3> HIDE DEF p, none
    <3>2. Closed = [run |-> 0, path |-> FALSE, shown |-> none, pos |-> 0, at |-> "closed"]
      BY DEF Closed, none
    <3>3. s = [Closed EXCEPT !.run = r, !.at = "read", !.path = p]
      BY DEF p
    <3> HIDE DEF s
    <3>4. s = [run |-> r, path |-> p, shown |-> none, pos |-> 0, at |-> "read"]
      BY <3>2, <3>3
    <3>5. s \in Viewer
      BY <2>1, <3>1, <3>4 DEF Viewer
    <3> QED BY <3>4, <3>5 DEF none
  <2>3. stream' = [stream EXCEPT ![v] = s] /\ UNCHANGED <<runTables, caller, crowded>>
    BY <1>5 DEF Open
  <2> HIDE DEF s
  <2>4. InPlace(s, log[s.run])
    BY <2>1, <2>2 DEF InPlace
  <2> QED BY <2>1, <2>2, <2>3, <2>4, StreamIsSet
<1>6. ASSUME NEW v \in Streams, ReadLog(v)
      PROVE  WatchInv'
  BY <1>6, ReadLogKeeps
<1>7. ASSUME NEW v \in Streams, LookAtRow(v) \/ Disconnect(v)
      PROVE  WatchInv'
  <2>1. PICK at \in {"read", "done", "gone"} : stream' = [stream EXCEPT ![v].at = at]
    BY <1>7 DEF LookAtRow, Disconnect
  <2>2. stream[v] \in Viewer /\ stream[v].at # "closed" /\ UNCHANGED <<runTables, caller, crowded>>
    BY <1>7 DEF LookAtRow, Disconnect, WatchInv, WatcherTypes
  <2> DEFINE s == [stream[v] EXCEPT !.at = at]
  <2>3. /\ s \in Viewer /\ s.at # "closed" /\ s.run = stream[v].run
        /\ s.shown = stream[v].shown /\ s.pos = stream[v].pos
    BY <2>2 DEF Viewer
  <2>4. stream' = [stream EXCEPT ![v] = s]
    BY <2>1
  <2> HIDE DEF s
  <2>5. s.run \in 1..Len(log) /\ InPlace(s, log[s.run])
    BY <2>2, <2>3 DEF WatchInv, ShownInPlace, InPlace
  <2> QED BY <2>2, <2>3, <2>4, <2>5, StreamIsSet
<1>8. ASSUME NEW c \in Callers, Call(c) \/ Enqueue(c) \/ Found(c) \/ Ended(c) \/ GivesUp(c)
      PROVE  WatchInv'
  <2> DEFINE old == caller[c]
  <2>1. old \in Asker /\ Len(row) \in Nat /\ queue \in Seq(Callers)
    BY DEF WatchInv, WatcherTypes, RunTypes
  <2>2. /\ old.known <= Len(row)
        /\ old.at \in {"enqueue", "appear"} /\ c \notin crowded =>
              \A i \in 1..Len(row) : i > old.known => row[i].by = c
        /\ old.run > 0 =>
              /\ old.run > old.known /\ old.run <= Len(row)
              /\ c \notin crowded => row[old.run].by = c
    BY DEF WatchInv, OwnRuns
  <2>3. \A i \in 1..Len(row) : row[i].status \in Live \cup Terminal
    <3>1. \A i \in 1..Len(row) : row[i] \in Row
      BY DEF WatchInv, RunTypes
    <3> QED BY <3>1 DEF Row
  <2>4. UNCHANGED <<row, log, piped, stream, crowded>> /\ queue' \in Seq(Callers)
    <3>1. CASE Enqueue(c)
      <4>1. Append(queue, c) \in Seq(Callers)
        BY <2>1
      <4> QED BY <2>1, <3>1, <4>1 DEF Enqueue
    <3>2. CASE Call(c)
      BY <2>1, <3>2 DEF Call, runTables
    <3>3. CASE Found(c) \/ Ended(c) \/ GivesUp(c)
      BY <2>1, <3>3 DEF Found, Ended, GivesUp, runTables
    <3> QED BY <1>8, <3>1, <3>2, <3>3
  <2> DEFINE Fits(a) ==
        /\ a.known <= Len(row)
        /\ a.at \in {"enqueue", "appear"} /\ c \notin crowded =>
              \A i \in 1..Len(row) : i > a.known => row[i].by = c
        /\ a.run > 0 => /\ a.run > a.known /\ a.run <= Len(row)
                        /\ c \notin crowded => row[a.run].by = c
  <2>5. PICK a \in Asker : caller' = [caller EXCEPT ![c] = a] /\ Fits(a)
    <3>1. CASE Call(c)
      <4>1. PICK waits \in BOOLEAN :
                caller' = [caller EXCEPT ![c] =
                    [Idle EXCEPT !.known = Len(row), !.waits = waits, !.at = "enqueue"]]
        BY <3>1 DEF Call
      <4> DEFINE a == [Idle EXCEPT !.known = Len(row), !.waits = waits, !.at = "enqueue"]
      <4>2. a \in Asker /\ a.known = Len(row) /\ a.run = 0
        BY <2>1 DEF Idle, Asker
      <4>3. caller' = [caller EXCEPT ![c] = a]
        BY <4>1
      <4> HIDE DEF a
      <4>4. Fits(a)
        BY <2>1, <4>2
      <4> QED BY <4>2, <4>3, <4>4
    <3>2. CASE Enqueue(c)
      <4> DEFINE a == [old EXCEPT !.at = "appear"]
      <4>1. old.at = "enqueue" /\ caller' = [caller EXCEPT ![c] = a]
        BY <3>2 DEF Enqueue
      <4>2. a \in Asker /\ a.known = old.known /\ a.run = old.run
        BY <2>1 DEF Asker
      <4> HIDE DEF a
      <4>3. Fits(a)
        BY <2>2, <4>1, <4>2
      <4> QED BY <4>1, <4>2, <4>3
    <3>3. CASE Found(c)
      <4> DEFINE at == IF old.waits THEN "wait" ELSE "answered"
                 a == [old EXCEPT !.run = Len(row), !.answer = row[Len(row)].status, !.at = at]
      <4>1. old.at = "appear" /\ Len(row) > old.known /\ caller' = [caller EXCEPT ![c] = a]
        BY <3>3 DEF Found, NewRun
      <4>2. old.known \in Nat /\ Len(row) \in 1..Len(row)
        BY <2>1, <4>1 DEF Asker
      <4>3. at \in {"wait", "answered"}
        OBVIOUS
      <4> HIDE DEF at
      <4>4. /\ a \in Asker /\ a.known = old.known /\ a.run = Len(row)
            /\ a.at \notin {"enqueue", "appear"}
        BY <2>1, <2>3, <4>2, <4>3 DEF Asker
      <4> HIDE DEF a
      <4>5. c \notin crowded => row[Len(row)].by = c
        BY <2>2, <4>1, <4>2
      <4>6. Fits(a)
        BY <2>1, <2>2, <4>1, <4>4, <4>5
      <4> QED BY <4>1, <4>4, <4>6
    <3>4. CASE Ended(c) \/ GivesUp(c)
      <4>1. PICK answer \in Terminal \cup Live : caller' = [caller EXCEPT ![c].at = "answered", ![c].answer = answer]
        <5>1. CASE Ended(c)
          BY <5>1 DEF Ended
        <5>2. CASE GivesUp(c)
          <6>1. old.run = 0 \/ old.run \in 1..Len(row)
            BY <2>1, <2>2 DEF Asker
          <6>2. (IF old.run = 0 THEN "queued" ELSE row[old.run].status) \in Terminal \cup Live
            BY <2>3, <6>1 DEF Live
          <6>3. caller' = [caller EXCEPT ![c].at = "answered",
                              ![c].answer = IF old.run = 0 THEN "queued" ELSE row[old.run].status]
            BY <5>2 DEF GivesUp
          <6> QED BY <6>2, <6>3
        <5> QED BY <3>4, <5>1, <5>2
      <4> DEFINE a == [old EXCEPT !.at = "answered", !.answer = answer]
      <4>2. caller' = [caller EXCEPT ![c] = a]
        BY <4>1
      <4>3. a \in Asker /\ a.at = "answered" /\ a.known = old.known /\ a.run = old.run
        BY <2>1 DEF Asker
      <4> HIDE DEF a
      <4>4. Fits(a)
        BY <2>2, <4>3
      <4> QED BY <4>2, <4>3, <4>4
    <3> QED BY <1>8, <3>1, <3>2, <3>3, <3>4
  <2> QED BY <2>4, <2>5, CallerIsSet
<1>9. CASE UNCHANGED watch
  <2>1. RunTypes' /\ WatcherTypes'
    BY <1>9 DEF watch, WatchInv, RunTypes, WatcherTypes
  <2>2. OwnRuns'
    BY <1>9 DEF watch, WatchInv, OwnRuns
  <2>3. ShownInPlace'
    BY <1>9 DEF watch, WatchInv, ShownInPlace, InPlace
  <2> QED BY <2>1, <2>2, <2>3 DEF WatchInv
<1> QED BY <1>1, <1>2, <1>3, <1>4, <1>5, <1>6, <1>7, <1>8, <1>9 DEF WatchNext

LEMMA WatchInvImplies == WatchInv => OwnRunIfAlone /\ ShownIsPrefix
<1> SUFFICES ASSUME WatchInv PROVE OwnRunIfAlone /\ ShownIsPrefix
  OBVIOUS
<1>1. OwnRunIfAlone
  BY DEF WatchInv, OwnRuns, OwnRunIfAlone
<1>2. ASSUME NEW v \in Streams, stream[v].at # "closed"
      PROVE  IsPrefix(stream[v].shown, log[stream[v].run]) /\ Len(stream[v].shown) = stream[v].pos
  <2> DEFINE s == stream[v].shown
             l == log[stream[v].run]
             n == Len(s)
  <2>1. s \in Seq(Nat) /\ l \in Seq(Nat) /\ n = stream[v].pos /\ n <= Len(l) /\ \A i \in 1..n : s[i] = l[i]
    BY <1>2 DEF WatchInv, RunTypes, WatcherTypes, Viewer, ShownInPlace, InPlace
  <2>2. n \in Nat /\ Len(l) \in Nat
    BY <2>1
  <2> HIDE DEF s, l, n
  <2>3. /\ \A i \in 1..n : s[i] \in Nat
        /\ \A i \in 1..n : l[i] \in Nat
    <3>1. \A i \in 1..Len(l) : l[i] \in Nat
      BY <2>1, ElementOfSeq
    <3>2. \A i \in 1..n : i \in 1..Len(l)
      BY <2>1, <2>2
    <3> QED BY <2>1, <3>1, <3>2
  <2>4. /\ SubSeq(s, 1, n) \in Seq(Nat) /\ Len(SubSeq(s, 1, n)) = n
        /\ \A i \in 1..n : SubSeq(s, 1, n)[i] = s[i]
    BY <2>1, <2>2, <2>3
  <2>5. /\ SubSeq(l, 1, n) \in Seq(Nat) /\ Len(SubSeq(l, 1, n)) = n
        /\ \A i \in 1..n : SubSeq(l, 1, n)[i] = l[i]
    BY <2>1, <2>2, <2>3
  <2>6. \A i \in 1..n : SubSeq(s, 1, n)[i] = SubSeq(l, 1, n)[i]
    BY <2>1, <2>4, <2>5
  <2>7. SubSeq(s, 1, n) = SubSeq(l, 1, n)
    <3> DEFINE a == SubSeq(s, 1, n)
               b == SubSeq(l, 1, n)
    <3>1. a \in Seq(Nat) /\ b \in Seq(Nat) /\ Len(a) = n /\ Len(b) = n
      BY <2>4, <2>5
    <3>2. \A i \in 1..n : a[i] = b[i]
      BY <2>6
    <3> HIDE DEF a, b
    <3>3. a = b
      BY <3>1, <3>2, SeqEqual
    <3> QED BY <3>3 DEF a, b
  <2> QED BY <2>1, <2>7 DEF IsPrefix, s, l, n
<1>3. ShownIsPrefix
  BY <1>2 DEF ShownIsPrefix
<1> QED BY <1>1, <1>3

-----------------------------------------------------------------------------
\* mcp/server.py, _await_new_run: the run a call of run_scraper answers with is its own,
\* unless somebody else's run of that scraper was created during the call.
THEOREM OwnRunUnlessCrowded == WatchSpec => []OwnRunIfAlone
<1>1. WatchInv /\ [WatchNext]_watch => WatchInv'
  BY WatchInvNext
<1> QED BY WatchInvInit, <1>1, WatchInvImplies, PTL DEF WatchSpec

\* web/routes/runs.py, log_stream: whatever the child and the parent write between two
\* reads, what a stream has shown is the beginning of the log as it is now.
THEOREM StreamsKeepOrder == WatchSpec => []ShownIsPrefix
<1>1. WatchInv /\ [WatchNext]_watch => WatchInv'
  BY WatchInvNext
<1> QED BY WatchInvInit, <1>1, WatchInvImplies, PTL DEF WatchSpec

-----------------------------------------------------------------------------
(***************************************************************************)
(* The web server runs on the settings that are saved: proved for any      *)
(* settings, any values of the environment and any number of requests that *)
(* save at the same time.                                                  *)
(*                                                                         *)
(* InForceIsSaved compares the overrides with the writes of some flushed   *)
(* request.  It is inductive once it is known that there is only one: the  *)
(* write lock of the database is held from a flush to its commit.          *)
(***************************************************************************)
Marks == {Unset, Blank, "on", "off", "a", "b"}
Save == [at : {"idle", "loaded", "flushed"}, changes : SUBSET (Keys \X Marks), before : Overrides,
         writes : SUBSET (Keys \X Marks), edited : Keys \cup {""}]

SettingsTypes ==
    /\ env \in [Keys -> {"on", "a"}]
    /\ table \in Overrides /\ over \in Overrides
    /\ page = NoPage \/ page \in [Keys -> {Blank, "on", "off", "a", "b"}]
    /\ save \in [Requests -> Save]
    /\ stray \in BOOLEAN

OneWriter == \A r, q \in Requests : save[r].at = "flushed" /\ save[q].at = "flushed" => r = q

OverFollows ==
    ~stray =>
        /\ (\A r \in Requests : save[r].at # "flushed") => over = table
        /\ \A r \in Requests : save[r].at = "flushed" => over = Apply(table, save[r].writes)

SettingsInv == SettingsTypes /\ OneWriter /\ OverFollows

-----------------------------------------------------------------------------
\* What was written is a value of the key or no override at all.
LEMMA ApplyType ==
    ASSUME NEW o \in Overrides, NEW writes
    PROVE  Apply(o, writes) \in Overrides
<1> DEFINE S(k) == {Unset} \cup Values(k)
           W(k) == CHOOSE v \in S(k) : <<k, v>> \in writes
           A(k) == IF \E v \in S(k) : <<k, v>> \in writes THEN W(k) ELSE o[k]
<1>1. ASSUME NEW k \in Keys
      PROVE  A(k) \in {Unset, "on", "off", "a", "b"}
  <2>1. S(k) \subseteq {Unset, "on", "off", "a", "b"}
    BY DEF Values
  <2>2. o[k] \in {Unset, "on", "off", "a", "b"}
    BY DEF Overrides
  <2>3. ASSUME \E v \in S(k) : <<k, v>> \in writes
        PROVE  W(k) \in S(k)
    <3> HIDE DEF S
    <3> QED BY <2>3
  <2> HIDE DEF S, W
  <2> QED BY <2>1, <2>2, <2>3
<1>2. Apply(o, writes) = [k \in Keys |-> A(k)]
  BY DEF Apply
<1> HIDE DEF A
<1> QED BY <1>1, <1>2 DEF Overrides

\* A form asks for values, for nothing, or for no override.
LEMMA ChangesType ==
    ASSUME NEW D \in SUBSET Keys, NEW form \in [D -> {Blank, "on", "off", "a", "b", "unknown"}],
           NEW present
    PROVE  Changes(form, present) \in SUBSET (Keys \X Marks)
<1> DEFINE asked == {b \in D : form[b] # "unknown" /\ (b \in Flags => b \in present)}
           value(k) == IF form[k] = Blank THEN Unset ELSE form[k]
<1>1. Changes(form, present) = {<<k, value(k)>> : k \in asked}
  BY DEF Changes
<1>2. \A k \in asked : k \in Keys /\ value(k) \in Marks
  BY DEF Marks, Blank, Unset
<1> HIDE DEF asked, value
<1> QED BY <1>1, <1>2

LEMMA BegunType ==
    ASSUME SettingsTypes, NEW changes \in SUBSET (Keys \X Marks), NEW k \in Keys
    PROVE  SaveBegun(changes, k) \in Save /\ SaveBegun(changes, k).at = "loaded"
  BY DEF SaveBegun, Save, SettingsTypes

LEMMA IdleType == NoSave \in Save /\ NoSave.at = "idle"
  BY DEF NoSave, Save, Overrides

LEMMA WritesType ==
    ASSUME NEW s \in Save
    PROVE  Writes(s) \in SUBSET (Keys \X Marks)
  BY DEF Writes, Save

\* What a person may put into a field of the page.
LEMMA RawType ==
    ASSUME NEW k \in Keys
    PROVE  Raw(k) \subseteq {Blank, "on", "off", "a", "b", "unknown"}
  BY DEF Raw, Values, Blank

-----------------------------------------------------------------------------
LEMMA SettingsInvInit == SettingsInit => SettingsInv
<1> SUFFICES ASSUME SettingsInit PROVE SettingsInv
  OBVIOUS
<1>1. SettingsTypes
  BY IdleType DEF SettingsInit, SettingsTypes, Overrides
<1>2. \A r \in Requests : save[r].at = "idle"
  BY IdleType DEF SettingsInit
<1> QED BY <1>1, <1>2 DEF SettingsInv, OneWriter, OverFollows, SettingsInit

\* A request that loads and begins a save: nobody else's flush is disturbed.
LEMMA BeginsKeep ==
    ASSUME SettingsInv, Load, UNCHANGED <<env, table, page>>,
           NEW r \in Requests, save[r].at = "idle", NEW changes \in SUBSET (Keys \X Marks), NEW k \in Keys,
           save' = [save EXCEPT ![r] = SaveBegun(changes, k)]
    PROVE  SettingsInv'
<1> DEFINE b == SaveBegun(changes, k)
<1>1. b \in Save /\ b.at = "loaded"
  BY BegunType DEF SettingsInv
<1> HIDE DEF b
<1>2. save' = [save EXCEPT ![r] = b]
  BY DEF b
<1>3. SettingsTypes'
  BY <1>1, <1>2 DEF SettingsInv, SettingsTypes, Load
<1>4. \A q \in Requests : save'[q].at = "flushed" => q # r /\ save'[q] = save[q]
  BY <1>1, <1>2 DEF SettingsInv, SettingsTypes
<1>5. OneWriter'
  BY <1>4 DEF SettingsInv, OneWriter
<1>6. ~stray' => \A q \in Requests : save[q].at # "flushed"
  BY DEF Load, Flushed
<1>7. OverFollows'
  BY <1>4, <1>6 DEF OverFollows, Load
<1> QED BY <1>3, <1>5, <1>7 DEF SettingsInv

LEMMA SettingsInvNext == SettingsInv /\ [SettingsNext]_settings => SettingsInv'
<1> SUFFICES ASSUME SettingsInv, [SettingsNext]_settings
             PROVE  SettingsInv'
  OBVIOUS
<1> USE DEF SettingsInv
<1>1. CASE View
  <2>1. page' \in [Keys -> {Blank, "on", "off", "a", "b"}]
    <3>1. \A k \in Keys : InForce(table)[k] \in {"on", "off", "a", "b"}
      BY DEF SettingsTypes, InForce, Overrides, Unset
    <3> QED BY <1>1, <3>1 DEF View
  <2>2. SettingsTypes'
    BY <1>1, <2>1 DEF View, Load, SettingsTypes
  <2>3. ~stray' => \A q \in Requests : save[q].at # "flushed"
    BY <1>1 DEF View, Load, Flushed
  <2>4. OneWriter' /\ OverFollows'
    BY <1>1, <2>3 DEF View, Load, OneWriter, OverFollows
  <2> QED BY <2>2, <2>4
<1>2. ASSUME NEW r \in Requests, PostPage(r)
      PROVE  SettingsInv'
  <2>1. PICK k \in Keys : \E raw \in Raw(k) :
            /\ save[r].at = "idle" /\ page # NoPage
            /\ save' = [save EXCEPT ![r] = SaveBegun(Changes([page EXCEPT ![k] = raw], Keys), k)]
            /\ Load
            /\ UNCHANGED <<env, table, page>>
    BY <1>2 DEF PostPage
  <2>2. PICK raw \in Raw(k) :
            /\ save[r].at = "idle" /\ page # NoPage
            /\ save' = [save EXCEPT ![r] = SaveBegun(Changes([page EXCEPT ![k] = raw], Keys), k)]
            /\ Load
            /\ UNCHANGED <<env, table, page>>
    BY <2>1
  <2>3. page \in [Keys -> {Blank, "on", "off", "a", "b"}]
    BY <2>2 DEF SettingsTypes
  <2>4. [page EXCEPT ![k] = raw] \in [Keys -> {Blank, "on", "off", "a", "b", "unknown"}]
    BY <2>3, RawType
  <2>5. Changes([page EXCEPT ![k] = raw], Keys) \in SUBSET (Keys \X Marks)
    BY <2>4, ChangesType
  <2> QED BY <2>2, <2>5, BeginsKeep
<1>3. ASSUME NEW r \in Requests, PostBox(r)
      PROVE  SettingsInv'
  <2>1. PICK k \in Boxes : \E raw \in Raw(k) :
            /\ save[r].at = "idle"
            /\ save' = [save EXCEPT ![r] = SaveBegun(Changes([b \in {k} |-> raw], {}), k)]
            /\ Load
            /\ UNCHANGED <<env, table, page>>
    BY <1>3 DEF PostBox
  <2>2. PICK raw \in Raw(k) :
            /\ save[r].at = "idle"
            /\ save' = [save EXCEPT ![r] = SaveBegun(Changes([b \in {k} |-> raw], {}), k)]
            /\ Load
            /\ UNCHANGED <<env, table, page>>
    BY <2>1
  <2>3. k \in Keys /\ {k} \in SUBSET Keys
    BY DEF Keys
  <2>4. [b \in {k} |-> raw] \in [{k} -> {Blank, "on", "off", "a", "b", "unknown"}]
    BY <2>3, RawType
  <2>5. Changes([b \in {k} |-> raw], {}) \in SUBSET (Keys \X Marks)
    BY <2>3, <2>4, ChangesType
  <2> QED BY <2>2, <2>3, <2>5, BeginsKeep
<1>4. ASSUME NEW r \in Requests, Flush(r)
      PROVE  SettingsInv'
  <2> DEFINE w == Writes(save[r])
             s == [save[r] EXCEPT !.at = "flushed", !.writes = w]
  <2>1. save[r] \in Save
    BY DEF SettingsTypes
  <2>2. w \in SUBSET (Keys \X Marks)
    BY <2>1, WritesType
  <2> HIDE DEF w
  <2>3. s \in Save /\ s.at = "flushed" /\ s.writes = w
    BY <2>1, <2>2 DEF Save
  <2>4. \A q \in Requests : save[q].at # "flushed"
    BY <1>4 DEF Flush, Flushed
  <2>5. UNCHANGED <<env, table, page>>
    BY <1>4 DEF Flush
  <2>6. CASE w = {}
    <3>1. save' = [save EXCEPT ![r] = NoSave] /\ UNCHANGED <<over, stray>>
      BY <1>4, <2>6 DEF Flush, w
    <3>2. \A q \in Requests : save'[q].at # "flushed"
      BY <2>4, <3>1, IdleType DEF SettingsTypes
    <3>3. SettingsTypes'
      BY <2>5, <3>1, IdleType DEF SettingsTypes
    <3>4. OneWriter'
      BY <3>2 DEF OneWriter
    <3>5. OverFollows'
      BY <2>4, <2>5, <3>1, <3>2 DEF OverFollows
    <3> QED BY <3>3, <3>4, <3>5
  <2>7. CASE w # {}
    <3>1. /\ save' = [save EXCEPT ![r].at = "flushed", ![r].writes = w]
          /\ over' = Apply(table, w)
          /\ stray' = FALSE
      BY <1>4, <2>7 DEF Flush, w
    <3>2. save' = [save EXCEPT ![r] = s]
      BY <2>1, <3>1 DEF SettingsTypes, Save
    <3> HIDE DEF s
    <3>3. save'[r] = s /\ \A q \in Requests \ {r} : save'[q].at # "flushed"
      BY <2>4, <3>2 DEF SettingsTypes
    <3>4. SettingsTypes'
      <4>1. over' \in Overrides
        BY <3>1, ApplyType DEF SettingsTypes
      <4>2. save' \in [Requests -> Save]
        BY <2>3, <3>2 DEF SettingsTypes
      <4> QED BY <2>5, <3>1, <4>1, <4>2 DEF SettingsTypes
    <3>5. OneWriter'
      BY <3>3 DEF OneWriter
    <3>6. save'[r].at = "flushed" /\ over' = Apply(table', save'[r].writes)
      BY <2>3, <2>5, <3>1, <3>3
    <3>7. OverFollows'
      BY <3>3, <3>6 DEF OverFollows
    <3> QED BY <3>4, <3>5, <3>7
  <2> QED BY <2>6, <2>7
<1>5. ASSUME NEW r \in Requests, Commit(r)
      PROVE  SettingsInv'
  <2>1. /\ save[r].at = "flushed"
        /\ table' = Apply(table, save[r].writes)
        /\ save' = [save EXCEPT ![r] = NoSave]
        /\ UNCHANGED <<env, over, page, stray>>
    BY <1>5 DEF Commit
  <2>2. \A q \in Requests : save'[q].at # "flushed"
    BY <2>1, IdleType DEF SettingsTypes, OneWriter
  <2>3. table' \in Overrides
    BY <2>1, ApplyType DEF SettingsTypes
  <2>4. SettingsTypes'
    BY <2>1, <2>3, IdleType DEF SettingsTypes
  <2>5. ~stray' => over' = table'
    BY <2>1 DEF OverFollows
  <2>6. OneWriter' /\ OverFollows'
    BY <2>2, <2>5 DEF OneWriter, OverFollows
  <2> QED BY <2>4, <2>6
<1>6. ASSUME NEW r \in Requests, Rollback(r)
      PROVE  SettingsInv'
  <2>1. /\ stray' = (stray \/ save[r].at = "flushed")
        /\ save' = [save EXCEPT ![r] = NoSave]
        /\ UNCHANGED <<env, table, over, page>>
    BY <1>6 DEF Rollback
  <2>2. SettingsTypes'
    BY <2>1, IdleType DEF SettingsTypes
  <2>3. \A q \in Requests : save'[q].at = "flushed" => q # r /\ save'[q] = save[q]
    BY <2>1, IdleType DEF SettingsTypes
  <2>4. ~stray' => ~stray /\ save[r].at # "flushed"
    BY <2>1
  <2>5. OneWriter'
    BY <2>3 DEF OneWriter
  <2>6. \A q \in Requests : q # r => save'[q] = save[q]
    BY <2>1 DEF SettingsTypes
  <2>7. OverFollows'
    BY <2>1, <2>3, <2>4, <2>6 DEF OverFollows
  <2> QED BY <2>2, <2>5, <2>7
<1>7. CASE Restart
  <2>1. save' = [r \in Requests |-> NoSave] /\ page' = NoPage /\ UNCHANGED <<env, table>>
    BY <1>7 DEF Restart
  <2>2. stray' \in BOOLEAN /\ over' \in Overrides /\ (~stray' => over' = table)
    BY <1>7 DEF Restart, SettingsTypes, Overrides
  <2>3. \A q \in Requests : save'[q].at # "flushed"
    BY <2>1, IdleType
  <2>4. SettingsTypes'
    BY <2>1, <2>2, IdleType DEF SettingsTypes
  <2> QED BY <2>1, <2>2, <2>3, <2>4 DEF OneWriter, OverFollows
<1>8. CASE UNCHANGED settings
  BY <1>8 DEF settings, SettingsTypes, OneWriter, OverFollows
<1> QED BY <1>1, <1>2, <1>3, <1>4, <1>5, <1>6, <1>7, <1>8 DEF SettingsNext

LEMMA SettingsInvImplies == SettingsInv => InForceIsSaved
<1> SUFFICES ASSUME SettingsInv, ~stray
             PROVE  over = IF Flushed = {} THEN table
                           ELSE Apply(table, save[CHOOSE r \in Flushed : TRUE].writes)
  BY DEF InForceIsSaved
<1> DEFINE f == CHOOSE r \in Flushed : TRUE
<1>1. CASE Flushed = {}
  BY <1>1 DEF SettingsInv, OverFollows, Flushed
<1>2. CASE Flushed # {}
  <2>1. f \in Flushed
    BY <1>2
  <2> HIDE DEF f
  <2>2. over = Apply(table, save[f].writes)
    BY <2>1 DEF SettingsInv, OverFollows, Flushed
  <2> QED BY <1>2, <2>2 DEF f
<1> QED BY <1>1, <1>2

-----------------------------------------------------------------------------
\* settings_store.py, save and load: what the web server runs on is what is saved, but
\* for the strays the model names, whatever requests view and save at the same time.
THEOREM SavedIsInForce == SettingsSpec => []InForceIsSaved
<1>1. SettingsInit => SettingsInv
  BY SettingsInvInit
<1>2. SettingsInv /\ [SettingsNext]_settings => SettingsInv'
  BY SettingsInvNext
<1>3. SettingsInv => InForceIsSaved
  BY SettingsInvImplies
<1> QED BY <1>1, <1>2, <1>3, PTL DEF SettingsSpec
=============================================================================
