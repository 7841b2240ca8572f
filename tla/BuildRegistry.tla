--------------------------- MODULE BuildRegistry ---------------------------
(***************************************************************************)
(* The builds a web server has started, and the page that watches them     *)
(* (web/builds.py).  The registry lives in the memory of the process: the  *)
(* coroutine of a build writes what became of it into its BuildJob, and    *)
(* starting a build drops old ones so that the registry stays small.       *)
(***************************************************************************)
EXTENDS Naturals, FiniteSets, Sequences

CONSTANTS
    MaxJobs,    \* MAX_JOBS
    MaxStarts   \* bound: builds that are started

ASSUME RegistryAssumption == MaxJobs \in Nat \ {0} /\ MaxStarts \in Nat

VARIABLES
    jobs,      \* every BuildJob ever, in the order of started_at
    listed,    \* _JOBS: places in jobs
    tasks,     \* _TASKS: jobs whose coroutine has not ended
    unfinished \* history: the jobs that were running when _trim last ran

registry == <<jobs, listed, tasks, unfinished>>

Status == {"running", "done", "failed"}
\* found: the scraper the page links to.  told: it says why the build failed.
BuildJob == [status : Status, found : BOOLEAN, told : BOOLEAN, ended : BOOLEAN]
Begun == [status |-> "running", found |-> FALSE, told |-> FALSE, ended |-> FALSE]
NotBegun == [status |-> "failed", found |-> FALSE, told |-> TRUE, ended |-> TRUE]

Running == {j \in DOMAIN jobs : jobs[j].status = "running"}

\* The excess of S over MAX_JOBS, oldest first.
Oldest(S) == {j \in S : Cardinality({i \in S : i > j}) >= MaxJobs}

TrimmedAll(S, running) == S \ Oldest(S)  \* a mutation: running ones too

\* _trim: what of S stays.  Only a build that has ended is dropped.
Trimmed(S, running) == S \ (Oldest(S) \ running)

-----------------------------------------------------------------------------
RegistryInit == jobs = <<>> /\ listed = {} /\ tasks = {} /\ unfinished = {}

\* start (and start_builder): the job is registered, the registry trimmed, and the
\* coroutine begun, if there is an event loop to begin it.
Start(loop) ==
    LET new == Len(jobs) + 1 IN
    /\ Len(jobs) < MaxStarts
    /\ jobs' = Append(jobs, IF loop THEN Begun ELSE NotBegun)
    /\ unfinished' = Running \cup {new}
    /\ listed' = Trimmed(listed \cup {new}, unfinished')
    /\ tasks' = IF loop THEN tasks \cup {new} ELSE tasks

Becomes(j, status, found, told) ==
    jobs' = [jobs EXCEPT ![j] = [status |-> status, found |-> found, told |-> told, ended |-> TRUE]]

\* run: build_scraper returned a scraper, or an explanation, or it raised.
BuildEnds(j) ==
    /\ j \in tasks
    /\ tasks' = tasks \ {j}
    /\ \/ Becomes(j, "done", TRUE, FALSE)
       \/ Becomes(j, "failed", FALSE, TRUE)
    /\ UNCHANGED <<listed, unfinished>>

\* cancel_all: every coroutine is cancelled (CancelledError is no Exception: run
\* writes nothing then), and every job of the registry that runs is marked.
CancelAll ==
    /\ tasks # {}
    /\ tasks' = {}
    /\ jobs' = [j \in DOMAIN jobs |->
                  IF j \in listed \cap Running THEN [jobs[j] EXCEPT !.status = "failed", !.told = TRUE,
                                                                    !.ended = TRUE]
                  ELSE jobs[j]]
    /\ UNCHANGED <<listed, unfinished>>

RegistryNext ==
    \/ \E loop \in BOOLEAN : Start(loop)
    \/ \E j \in tasks : BuildEnds(j)
    \/ CancelAll

RegistrySpec == RegistryInit /\ [][RegistryNext]_registry

-----------------------------------------------------------------------------
RegistryTypeOK ==
    /\ jobs \in Seq(BuildJob) /\ Len(jobs) <= MaxStarts
    /\ listed \subseteq DOMAIN jobs /\ tasks \subseteq DOMAIN jobs
    /\ unfinished \subseteq DOMAIN jobs

\* The page of a build can be watched until the build has ended, and afterwards for
\* as long as it is one of the newest MAX_JOBS; whatever runs has a coroutine; and
\* the registry outgrows MAX_JOBS only by builds that ran when it was last trimmed.
NewestListed ==
    /\ \A j \in DOMAIN jobs : j + MaxJobs > Len(jobs) => j \in listed
    /\ Running \subseteq listed
    /\ tasks = Running
    /\ Cardinality(listed) <= MaxJobs + Cardinality(unfinished)
=============================================================================
