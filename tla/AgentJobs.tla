----------------------------- MODULE AgentJobs ------------------------------
(***************************************************************************)
(* Builds and repairs as jobs (agents/jobs.py): what they may spend, which *)
(* engines they climb through, and how what they found becomes a scraper   *)
(* or a version; and imports of script files (importer.py), which make     *)
(* scrapers too.  Jobs run side by side, as coroutines of the web server,  *)
(* as tasks of the worker and as commands; they share the metadata         *)
(* database and the directory of script files.                             *)
(*                                                                         *)
(* What happens inside one agent session is module AgentSession; here it   *)
(* costs something, may find a script, and may lose its usage.             *)
(***************************************************************************)
EXTENDS Integers, FiniteSets, FiniteSetsExt

CONSTANTS
    Builds, Repairs, Imports,  \* the jobs
    Name,             \* names of scrapers
    Rungs,            \* how long BUILD_LADDER is
    Cap,              \* settings.monthly_budget
    ScraperCap,       \* Scraper.budget_usd_month, and default_scraper_budget
    StopAtBudget,     \* settings.stop_at_budget
    Overrun,          \* how far a session may go beyond its max_budget_usd
    MaxVersion,       \* bound: versions of a scraper
    MaxReviews,       \* bound: decisions about candidates
    MaxFaults         \* bound: jobs whose process dies

ASSUME JobsAssumption ==
    /\ Rungs \in Nat \ {0} /\ MaxVersion \in Nat \ {0}
    /\ Cap \in Nat /\ ScraperCap \in Nat /\ Overrun \in Nat /\ StopAtBudget \in BOOLEAN
    /\ MaxReviews \in Nat /\ MaxFaults \in Nat
    /\ IsFiniteSet(Builds) /\ IsFiniteSet(Repairs) /\ IsFiniteSet(Imports)
    /\ Builds \cap Repairs = {} /\ Imports \cap (Builds \cup Repairs) = {}

Job == Builds \cup Repairs \cup Imports

VARIABLES
    pc,        \* where each job is
    of,        \* the scraper it is about
    rung,      \* the rung of the ladder it is on
    limit,     \* Budget.limit_usd
    spent,     \* Budget.spent_usd
    usage,     \* the usage of the result it holds, or Unknown
    base,      \* the version a repair began from
    versions,  \* the script_version table: the status of each version, or "none"
    author,    \* and the job that wrote it
    file,      \* the script file: the job that wrote it
    ledger,    \* the llm_usage table of this month: by job
    known,     \* history: the usages a job got to see
    overlap,   \* history: some job read its budget while another was at work
    raced,     \* history: names two jobs found free at once
    torn,      \* history: scrapers of which only one of file and table was changed,
               \* or by two at once, and no approval in the web UI since
    reviews, faults  \* how much of the bounds is used

world == <<versions, author, file, ledger>>
history == <<known, overlap, raced, torn>>
bounds == <<reviews, faults>>
own == <<of, rung, limit, spent, usage, base>>
vars == <<pc, own, world, history, bounds>>

Unknown == -1
Nobody == "nobody"
Version == 1..MaxVersion
VersionStatus == {"none", "candidate", "active", "retired", "rejected"}
Point == {"new", "named", "open", "session", "save", "insert", "budget", "persist",
          "promote", "record", "done", "refused", "raised"}

Larger(a, b) == IF a > b THEN a ELSE b
Smaller(a, b) == IF a < b THEN a ELSE b
\* (Not Max and Min: FiniteSetsExt has those for sets.)

-----------------------------------------------------------------------------
(***************************************************************************)
(* Reads of the database.                                                  *)
(***************************************************************************)
Exists(n) == \E v \in Version : versions[n][v] # "none"
ActiveVersions(n) == {v \in Version : versions[n][v] = "active"}

\* repo.spend_month_to_date, of all and of one scraper.  The usage of a build that
\* produced no scraper belongs to none.
SpendOf(S) == MapThenSumSet(LAMBDA j : IF ledger[j] = Unknown THEN 0 ELSE ledger[j], S)
Month == SpendOf(Job)
Built(j) == \E v \in Version : author[of[j]][v] = j
SpentOn(n) == SpendOf({j \in Job : of[j] = n /\ (j \in Builds => Built(j))})

\* remaining_budget: refused, or what is left.
Refused(j) ==
    /\ StopAtBudget
    /\ Month >= Cap \/ (IF j \in Repairs THEN SpentOn(of[j]) ELSE 0) >= ScraperCap

Headroom(j) ==
    LET month == Cap - Month
        here == ScraperCap - SpentOn(of[j])
    IN Larger(IF j \in Repairs THEN Smaller(month, here) ELSE month, 0)

\* Budget.remaining and Budget.exhausted.
Remaining(j) == Larger(limit[j] - spent[j], 0)
Exhausted(j) == spent[j] >= limit[j]

AtWork(j) == pc[j] \notin {"new", "done", "refused", "raised"}

-----------------------------------------------------------------------------
Init ==
    /\ pc = [j \in Job |-> "new"]
    /\ of \in [Job -> Name]
    /\ rung = [j \in Job |-> 1]
    /\ limit = [j \in Job |-> 0] /\ spent = [j \in Job |-> 0]
    /\ usage = [j \in Job |-> Unknown]
    /\ base = [j \in Job |-> 0]
    /\ versions \in [Name -> {[v \in Version |-> "none"],
                              [v \in Version |-> IF v = 1 THEN "active" ELSE "none"],
                              [v \in Version |-> IF v = 1 THEN "active"
                                                ELSE IF v = 2 THEN "rejected" ELSE "none"]}]
    /\ author = [n \in Name |-> [v \in Version |-> Nobody]]
    /\ file = [n \in Name |-> Nobody]
    /\ ledger = [j \in Job |-> Unknown]
    /\ known = [j \in Job |-> 0]
    /\ overlap = FALSE /\ raced = {} /\ torn = {}
    /\ reviews = 0 /\ faults = 0

Goto(j, to) == pc' = [pc EXCEPT ![j] = to]

\* remaining_budget, in a session of its own.
ReadBudget(j, next) ==
    /\ Goto(j, IF Refused(j) THEN "refused" ELSE next)
    /\ limit' = [limit EXCEPT ![j] = IF Refused(j) THEN 0 ELSE Headroom(j)]
    /\ overlap' = (overlap \/ (~Refused(j) /\ \E i \in (Builds \cup Repairs) \ {j} : AtWork(i)))

-----------------------------------------------------------------------------
(***************************************************************************)
(* build_scraper.                                                          *)
(***************************************************************************)
BeginBuild(j) ==
    /\ pc[j] = "new"
    /\ ReadBudget(j, "named")
    /\ UNCHANGED <<of, rung, spent, usage, base, world, known, raced, torn, bounds>>

\* The name is free, or the build is refused.
Claims(i) == i \notin Repairs /\ pc[i] \in {"open", "session", "save", "insert"}
LookUpName(j, next) ==
    /\ Goto(j, IF Exists(of[j]) THEN "refused" ELSE next)
    /\ raced' = IF ~Exists(of[j]) /\ \E i \in Job \ {j} : of[i] = of[j] /\ Claims(i)
                  THEN raced \cup {of[j]} ELSE raced

\* A mutation: the name is not looked up.
CheckNameNot(j) ==
    /\ pc[j] = "named"
    /\ Goto(j, "open")
    /\ UNCHANGED <<own, world, history, bounds>>

CheckName(j) ==
    /\ pc[j] = "named"
    /\ LookUpName(j, "open")
    /\ UNCHANGED <<own, world, known, overlap, torn, bounds>>

\* After a rung that found nothing: a harder engine, if the engine was the problem
\* and there is one.
Climb(j) == rung[j] < Rungs /\ rung' = [rung EXCEPT ![j] = @ + 1] /\ Goto(j, "open")
GiveUp(j) == UNCHANGED rung /\ Goto(j, "record")

\* open_engine: the page opens; or the engine is not installed, or raises, and the
\* result in hand is a failed one without a usage.
OpenEngine(j) ==
    /\ pc[j] = "open"
    /\ \/ Goto(j, "session") /\ UNCHANGED <<rung, usage>>
       \/ (Climb(j) \/ GiveUp(j)) /\ usage' = [usage EXCEPT ![j] = Unknown]
    /\ UNCHANGED <<of, limit, spent, base, world, history, bounds>>

\* A mutation: a budget of its own for every session.
ChargeAfresh(j, cost, billed) ==
    /\ cost \in 0..(limit[j] + Overrun)
    /\ known' = [known EXCEPT ![j] = IF billed THEN @ + cost ELSE @]
    /\ usage' = [usage EXCEPT ![j] = IF billed THEN cost ELSE Unknown]
    /\ UNCHANGED spent

\* run_agent: refused when the budget is exhausted.  Otherwise the remaining budget is
\* passed on as max_budget_usd, which the harness looks at between two turns, so that
\* the last one may go beyond it; what the session cost is known when a result message
\* came, and is booked as reported.
Charge(j, cost, billed) ==
    /\ cost \in 0..(Remaining(j) + Overrun)
    /\ Exhausted(j) => ~billed
    /\ spent' = [spent EXCEPT ![j] = IF billed THEN @ + cost ELSE @]
    /\ known' = [known EXCEPT ![j] = IF billed THEN @ + cost ELSE @]
    /\ usage' = [usage EXCEPT ![j] = IF billed THEN cost ELSE Unknown]

BuildSession(j) == \E cost \in 0..(Cap + Overrun), billed \in BOOLEAN :
    /\ pc[j] = "session" /\ j \in Builds
    /\ Charge(j, cost, billed)
    /\ \/ ~Exhausted(j) /\ Goto(j, "save") /\ UNCHANGED rung
       \/ Climb(j) \/ GiveUp(j)
    /\ UNCHANGED <<of, limit, base, world, overlap, raced, torn, bounds>>

\* persist_build: the file first ...
SaveFile(j) ==
    /\ pc[j] = "save"
    /\ file' = [file EXCEPT ![of[j]] = j]
    /\ Goto(j, "insert")
    /\ UNCHANGED <<own, versions, author, ledger, history, bounds>>

\* ... and then the rows.  A scraper of that name makes the insert fail, which
\* nothing in the job catches.  A build's script is version 1; an imported one has
\* the version it says it has, and need not be activated.
InsertScraper(j) == \E v \in Version, status \in {"active", "candidate"} :
    /\ pc[j] = "insert"
    /\ j \in Builds => v = 1 /\ status = "active"
    /\ IF Exists(of[j])
         THEN Goto(j, "raised") /\ UNCHANGED <<versions, author>>
         ELSE /\ versions' = [versions EXCEPT ![of[j]][v] = status]
              /\ author' = [author EXCEPT ![of[j]][v] = j]
              /\ Goto(j, IF j \in Builds THEN "record" ELSE "done")
    /\ UNCHANGED <<own, file, ledger, history, bounds>>

\* import_script up to its transaction: the name is looked up and the file written.
ImportFile(j) ==
    /\ pc[j] = "new" /\ j \in Imports
    /\ LookUpName(j, "insert")
    /\ file' = IF Exists(of[j]) THEN file ELSE [file EXCEPT ![of[j]] = j]
    /\ UNCHANGED <<own, versions, author, ledger, known, overlap, torn, bounds>>

-----------------------------------------------------------------------------
(***************************************************************************)
(* repair_scraper.                                                         *)
(***************************************************************************)
\* The active version is what the repair starts from.
BeginRepair(j) ==
    /\ pc[j] = "new" /\ j \in Repairs
    /\ IF ActiveVersions(of[j]) = {}
         THEN Goto(j, "refused") /\ UNCHANGED base
         ELSE /\ base' = [base EXCEPT ![j] = Max(ActiveVersions(of[j]))]
              /\ Goto(j, "budget")
    /\ UNCHANGED <<of, rung, limit, spent, usage, world, history, bounds>>

RepairBudget(j) ==
    /\ pc[j] = "budget"
    /\ ReadBudget(j, "session")
    /\ UNCHANGED <<of, rung, spent, usage, base, world, known, raced, torn, bounds>>

\* One engine, and no ladder.
RepairSession(j) == \E cost \in 0..(Cap + Overrun), billed \in BOOLEAN :
    /\ pc[j] = "session" /\ j \in Repairs
    /\ Charge(j, cost, billed)
    /\ \/ ~Exhausted(j) /\ Goto(j, "persist")
       \/ Goto(j, "record")
    /\ UNCHANGED <<of, rung, limit, base, world, overlap, raced, torn, bounds>>

\* persist_repair: the candidate is one above the version the repair began from, and
\* (scraper, version) is unique: a number that is taken makes the flush raise.
\* (The versions of a scraper end at MaxVersion in this model.)
NumberOf(j) == base[j] + 1
NumberTaken(j) == versions[of[j]][NumberOf(j)] # "none"

\* Some repair has written its script into the file of n, and not committed yet.
Promoting(n) == {j \in Repairs : pc[j] = "promote" /\ of[j] = n}

\* What making version v the active one leaves: the newest active one is retired.
\* (promote_version retires all of them; there is at most one, OneActive of
\* AgentProofs.)
Promoted(n, v) ==
    [u \in Version |->
       IF u = v THEN "active"
       ELSE IF versions[n][u] = "active" /\ u = Max(ActiveVersions(n)) THEN "retired"
       ELSE versions[n][u]]

\* The candidate waits for a person.
ParkRepair(j) ==
    /\ pc[j] = "persist" /\ NumberOf(j) \in Version
    /\ IF NumberTaken(j)
         THEN Goto(j, "raised") /\ UNCHANGED <<versions, author>>
         ELSE /\ versions' = [versions EXCEPT ![of[j]][NumberOf(j)] = "candidate"]
              /\ author' = [author EXCEPT ![of[j]][NumberOf(j)] = j]
              /\ Goto(j, "record")
    /\ UNCHANGED <<own, file, ledger, history, bounds>>

\* The policy promotes it: the file is written first ...
WriteRepair(j) ==
    /\ pc[j] = "persist" /\ NumberOf(j) \in Version
    /\ file' = [file EXCEPT ![of[j]] = j]
    /\ torn' = IF Promoting(of[j]) = {} THEN torn ELSE torn \cup {of[j]}
    /\ Goto(j, "promote")
    /\ UNCHANGED <<own, versions, author, ledger, known, overlap, raced, bounds>>

\* ... and then the rows flushed and committed, or not, and the file stays as written.
\* (A commit of somebody else in between makes SQLite refuse this one: JobDies.)
PromoteRepair(j) ==
    /\ pc[j] = "promote" /\ NumberOf(j) \in Version
    /\ IF NumberTaken(j)
         THEN /\ Goto(j, "raised") /\ torn' = torn \cup {of[j]}
              /\ UNCHANGED <<versions, author>>
         ELSE /\ versions' = [versions EXCEPT ![of[j]] = Promoted(of[j], NumberOf(j))]
              /\ author' = [author EXCEPT ![of[j]][NumberOf(j)] = j]
              /\ Goto(j, "record") /\ UNCHANGED torn
    /\ UNCHANGED <<own, file, ledger, known, overlap, raced, bounds>>

-----------------------------------------------------------------------------
\* record_usage, of the result in hand: that of the last rung.
RecordUsage(j) ==
    /\ pc[j] = "record"
    /\ ledger' = [ledger EXCEPT ![j] = usage[j]]
    /\ Goto(j, "done")
    /\ UNCHANGED <<own, versions, author, file, history, bounds>>

\* The process of a job dies, or a transaction of it fails.
JobDies(j) ==
    /\ AtWork(j) /\ faults < MaxFaults /\ faults' = faults + 1
    /\ Goto(j, "raised")
    /\ torn' = IF pc[j] = "promote" THEN torn \cup {of[j]} ELSE torn
    /\ UNCHANGED <<own, world, known, overlap, raced, reviews>>

\* A person decides about a candidate (module Promotion has the ways to): rejects it;
\* approves it in the web UI, where promote_version writes the file and then commits,
\* or dies in between; or approves it over MCP, which writes no file.
Reject(n, v) ==
    /\ versions' = [versions EXCEPT ![n][v] = "rejected"]
    /\ UNCHANGED <<file, torn, faults>>

ApproveInWeb(n, v) ==
    /\ versions' = [versions EXCEPT ![n] = Promoted(n, v)]
    /\ file' = [file EXCEPT ![n] = author[n][v]]
    /\ torn' = IF Promoting(n) = {} THEN torn \ {n} ELSE torn \cup {n}
    /\ UNCHANGED faults

ApprovalDies(n, v) ==
    /\ faults < MaxFaults /\ faults' = faults + 1
    /\ file' = [file EXCEPT ![n] = author[n][v]]
    /\ torn' = torn \cup {n}
    /\ UNCHANGED versions

ApproveOverMcp(n, v) ==
    /\ versions' = [versions EXCEPT ![n] = Promoted(n, v)]
    /\ torn' = torn \cup {n}
    /\ UNCHANGED <<file, faults>>

Review(n, v) ==
    /\ versions[n][v] = "candidate" /\ reviews < MaxReviews /\ reviews' = reviews + 1
    /\ Reject(n, v) \/ ApproveInWeb(n, v) \/ ApprovalDies(n, v) \/ ApproveOverMcp(n, v)
    /\ UNCHANGED <<pc, own, author, ledger, known, overlap, raced>>

BuildStep(j) == BeginBuild(j) \/ CheckName(j) \/ OpenEngine(j) \/ BuildSession(j)
                \/ SaveFile(j) \/ InsertScraper(j)
ImportStep(j) == ImportFile(j) \/ InsertScraper(j)
RepairStep(j) == BeginRepair(j) \/ RepairBudget(j) \/ RepairSession(j)
                 \/ ParkRepair(j) \/ WriteRepair(j) \/ PromoteRepair(j)

Next ==
    \/ \E j \in Builds : BuildStep(j)
    \/ \E j \in Repairs : RepairStep(j)
    \/ \E j \in Imports : ImportStep(j)
    \/ \E j \in Job : RecordUsage(j) \/ JobDies(j)
    \/ \E n \in Name, v \in Version : Review(n, v)

Spec == Init /\ [][Next]_vars

-----------------------------------------------------------------------------
TypeOK ==
    /\ pc \in [Job -> Point] /\ of \in [Job -> Name]
    /\ rung \in [Job -> 1..Rungs]
    /\ limit \in [Job -> Nat] /\ spent \in [Job -> Nat] /\ known \in [Job -> Nat]
    /\ usage \in [Job -> Nat \cup {Unknown}] /\ ledger \in [Job -> Nat \cup {Unknown}]
    /\ base \in [Job -> 0..MaxVersion]
    /\ versions \in [Name -> [Version -> VersionStatus]]
    /\ author \in [Name -> [Version -> Job \cup {Nobody}]]
    /\ file \in [Name -> Job \cup {Nobody}]
    /\ overlap \in BOOLEAN /\ raced \subseteq Name /\ torn \subseteq Name
    /\ reviews \in 0..MaxReviews /\ faults \in 0..MaxFaults

\* The rungs of a build share one budget: all the usages a job got to see stay
\* within the headroom it read before the first of them and what one session, the
\* last, went beyond it; and what the job records is one of them.
JobStaysInHeadroom ==
    \A j \in Job : known[j] <= limit[j] + Overrun /\ ledger[j] <= known[j]

\* The caps hold, the month's and each scraper's, but for one such overrun, as long
\* as no two jobs are under way at once: remaining_budget is read minutes before the
\* usage is recorded, and nothing reserves it.  (A build counts against the month
\* only.)
CapsHoldAlone ==
    overlap \/ (Month <= Cap + Overrun /\ \A n \in Name :
                  SpendOf({j \in Repairs : of[j] = n}) <= ScraperCap + Overrun)

\* Both: a job's own budget, and the caps that all jobs share.
SpendIsCapped == JobStaysInHeadroom /\ CapsHoldAlone

\* The file of a scraper is the script of its active version, whatever builds, repairs
\* and imports do side by side, except in these cases, which the code has: two jobs
\* found the name free at once (the second overwrites the file of the first and then
\* fails to insert its rows); a repair is just promoting its candidate; or the last
\* promotion changed only one of the two (its transaction failed or its process died
\* after the file, or it came over MCP), or two changed them at once.  An approval in
\* the web UI mends it.
FileIsActiveScript ==
    \A n \in Name \ (raced \cup torn) : Promoting(n) = {} =>
        \A v \in ActiveVersions(n) : author[n][v] # Nobody => file[n] = author[n][v]

(***************************************************************************)
(* What the documentation says and the code does not keep.                 *)
(***************************************************************************)
\* agents/jobs.py:531, "Store the candidate and the repair row": a repair that found
\* a candidate stores it.
CandidateIsStored ==
    \A j \in Repairs : pc[j] = "raised" => faults > 0

\* agents/jobs.py:194, "Spend that is not recorded cannot be capped": of a job that
\* ended, every usage is on record.
SpendIsRecorded ==
    \A j \in Job : pc[j] = "done" => known[j] = SpendOf({j})
=============================================================================
