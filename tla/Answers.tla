------------------------------- MODULE Answers -------------------------------
(***************************************************************************)
(* What is read back: the tools of the MCP server that answer with rows    *)
(* and their freshness (mcp/server.py, repo.py), while runs are recorded,  *)
(* and judged next to them; and the counts the web pages show of the same  *)
(* runs (web/queries.py).  A tool reads with one SELECT after the other and*)
(* nothing holds the database still in between.                            *)
(***************************************************************************)
EXTENDS Integers, Sequences, FiniteSets, Functions

CONSTANTS
    MaxHistory,    \* runs of the scraper
    MaxStored,     \* records of it
    Limit          \* rows of a page

VARIABLES
    runs,      \* the scraper's runs, oldest first: their status
    records,   \* its records, oldest first: whose run, and whether the filter takes it
    tool,      \* what the client asks for
    step,      \* the SELECT that is next
    offset,    \* of the page
    target,    \* the run the answer is about: 0 all of them, -1 none
    got,       \* the records the client has been given
    seen,      \* the records there were as it began
    targets,   \* the runs its pages were about
    passed,    \* the runs that had passed as last_clean_run looked for the newest
    last       \* the newest run, as it was read

answers == <<runs, records, tool, step, offset, target, got, seen, targets, passed, last>>

Status == {"queued", "running", "passed", "validation_failed", "error", "blocked", "cancelled"}
FAILED == {"validation_failed", "error", "blocked"}
Tool == {"results", "latest", "list", "search"}

NewestOf(S) == IF S = {} THEN 0 ELSE CHOOSE i \in S : \A j \in S : j <= i
Passed(history) == {i \in DOMAIN history : history[i] = "passed"}

\* get_records and search_records: of the run, or of all; newest first; LIMIT, OFFSET.
\* include_fallback and the needle are what the filter is made of.
Matches(run) ==
    {i \in DOMAIN records : records[i].wanted /\ (run = 0 \/ records[i].run = run)}
PageTo(S, from, upto) ==
    {i \in S : Cardinality({j \in S : j > i}) \in from..(upto - 1)}
PageAsEnd(run, from) ==  \* a mutation: the limit is taken for the end of the page
    PageTo(Matches(run), from, Limit)
Page(run, from) == PageTo(Matches(run), from, from + Limit)

\* freshness: of the newest clean run and the newest one, each read by itself.
Stale(c, l) == c = 0 \/ l # c

AnswersInit ==
    /\ runs = <<>> /\ records = <<>>
    /\ tool \in Tool /\ step = "begin" /\ offset = 0
    /\ target = 0 /\ got = {} /\ seen = {} /\ targets = {}
    /\ passed = {} /\ last = 0

client == <<tool, step, offset, target, got, seen, targets, passed, last>>

-----------------------------------------------------------------------------
(***************************************************************************)
(* The runs go on.                                                         *)
(***************************************************************************)
Queue ==
    /\ Len(runs) < MaxHistory
    /\ runs' = Append(runs, "queued")
    /\ UNCHANGED <<records, client>>

\* execute_subprocess: outcome and rows are one commit; persist_records.
Outcome(r, status, rows) ==
    /\ runs[r] = "queued" /\ Len(records) + Len(rows) <= MaxStored
    /\ runs' = [runs EXCEPT ![r] = status]
    /\ records' = records \o [i \in DOMAIN rows |-> [run |-> r, wanted |-> rows[i]]]
    /\ UNCHANGED client

\* persist_report: what the runner let pass is judged, against the history too.
Rejudge(r) ==
    /\ runs[r] \in {"passed", "validation_failed"}
    /\ runs' = [runs EXCEPT ![r] = IF @ = "passed" THEN "validation_failed" ELSE "passed"]
    /\ UNCHANGED <<records, client>>

-----------------------------------------------------------------------------
(***************************************************************************)
(* The client pages: get_results, with latest_run_only or without,         *)
(* search_results over all scrapers, and list_scrapers, which has no rows. *)
(***************************************************************************)
\* list_runs(limit=1), of latest_run_only and of list_scrapers.
ReadTarget ==
    /\ step = "begin"
    /\ target' = IF tool \in {"latest", "list"}
                   THEN IF runs = <<>> THEN -1 ELSE Len(runs) ELSE 0
    /\ targets' = targets \cup {target'}
    /\ seen' = IF targets = {} THEN Matches(target') ELSE seen
    /\ step' = IF tool = "list" THEN "clean" ELSE "rows"
    /\ UNCHANGED <<runs, records, tool, offset, got, passed, last>>

ReadRows ==
    /\ step = "rows"
    /\ got' = got \cup Page(target, offset)
    /\ IF Cardinality(Page(target, offset)) = Limit THEN offset' = offset + Limit
                                                    ELSE offset' = -1
    /\ step' = IF tool = "search" THEN "answer" ELSE "clean"
    /\ UNCHANGED <<runs, records, tool, target, seen, targets, passed, last>>

\* freshness: last_clean_run, then the newest run.
ReadClean ==
    /\ step = "clean"
    /\ passed' = Passed(runs)
    /\ step' = "last"
    /\ UNCHANGED <<runs, records, tool, offset, target, got, seen, targets, last>>

ReadLast ==
    /\ step = "last"
    /\ last' = Len(runs) /\ step' = "answer"
    /\ UNCHANGED <<runs, records, tool, offset, target, got, seen, targets, passed>>

\* The client asks for the next page after a full one.
NextPage ==
    /\ step = "answer" /\ tool # "list" /\ offset # -1
    /\ step' = "begin"
    /\ UNCHANGED <<runs, records, tool, offset, target, got, seen, targets, passed, last>>

AnswersNext ==
    \/ Queue
    \/ \E r \in DOMAIN runs, status \in Status \ {"queued", "running"} :
          \E rows \in UNION {[1..n -> BOOLEAN] : n \in 0..MaxStored} : Outcome(r, status, rows)
    \/ \E r \in DOMAIN runs : Rejudge(r)
    \/ ReadTarget \/ ReadRows \/ ReadClean \/ ReadLast \/ NextPage

AnswersSpec == AnswersInit /\ [][AnswersNext]_answers

-----------------------------------------------------------------------------
AnswersTypeOK ==
    /\ runs \in UNION {[1..n -> Status] : n \in 0..MaxHistory}
    /\ \A i \in DOMAIN records : records[i].run \in DOMAIN runs /\ records[i].wanted \in BOOLEAN
    /\ tool \in Tool /\ step \in {"begin", "rows", "clean", "last", "answer"}
    /\ offset \in -1..MaxStored + Limit /\ target \in -1..MaxHistory
    /\ got \subseteq DOMAIN records /\ seen \subseteq DOMAIN records
    /\ passed \subseteq 1..MaxHistory /\ last \in 0..MaxHistory

\* A client that pages to the end misses no row there was as it began, whatever is
\* recorded meanwhile; with latest_run_only, unless a newer run begins meanwhile.
PagingMissesNothing ==
    step = "answer" /\ tool # "list" /\ offset = -1 /\ Cardinality(targets) = 1 => seen \subseteq got

-----------------------------------------------------------------------------
(***************************************************************************)
(* The pages, of one scraper with a history of runs, oldest first:         *)
(* [status, rows, engine, age], read while nothing is written.  The age    *)
(* tells the shortest of the periods the run is in, of those the pages     *)
(* look back over.                                                         *)
(***************************************************************************)
SinceMidnight == 0   \* _start_of_day, UTC
SinceDay == 1        \* 24 hours, and so on
SinceWeek == 2
SinceMonth == 3
Ages == SinceMidnight..(SinceMonth + 1)
Since(history, age) == {i \in DOMAIN history : history[i].age <= age}

StatusesOf(history) == [i \in DOMAIN history |-> history[i].status]
With(history, S) == {i \in DOMAIN history : history[i].status \in S}
RowsIn(history, S) == FoldFunctionOnSet(+, 0, [i \in DOMAIN history |-> history[i].rows], S)
LatestStatus(history) == IF history = <<>> THEN "none" ELSE history[Len(history)].status

\* today_counts, the tiles of the overview.
Today(history) ==
    LET TodayWith(S) == Since(history, SinceMidnight) \cap With(history, S) IN
    [runs |-> Cardinality(Since(history, SinceMidnight)), passed |-> Cardinality(TodayWith({"passed"})),
     failed |-> Cardinality(TodayWith(FAILED)), blocked |-> Cardinality(TodayWith({"blocked"})),
     rows |-> RowsIn(history, TodayWith({"passed"}))]

\* scraper_health: the bucket of a scraper.
Health(history, enabled) ==
    CASE ~enabled -> "paused"
      [] enabled /\ LatestStatus(history) \in {"none", "passed", "running", "queued"} -> "healthy"
      [] enabled /\ LatestStatus(history) = "validation_failed" -> "drift"
      [] OTHER -> "failed"

\* needs_attention: whether and as what a scraper is listed, acknowledged or not.
Attention(history) ==
    CASE LatestStatus(history) \in {"none", "passed", "running", "queued"} -> "none"
      [] LatestStatus(history) = "validation_failed" -> "drift"
      [] OTHER -> "fail"
Listed(history, acked, includeAcked) ==
    Attention(history) # "none" /\ (acked => includeAcked)

\* hourly_strip, of 24 hours: the colour of a run in its hour, where it has one.
Colour(run) ==
    CASE run.status = "passed" -> "ok"
      [] run.status = "validation_failed" -> "warn"
      [] run.status \in FAILED \ {"validation_failed"} -> "fail"
      [] OTHER -> "none"
Strip(history, colour) == Cardinality({i \in Since(history, SinceDay) : Colour(history[i]) = colour})

\* activity: the kind of a run in the feed.
FeedKind(run) ==
    CASE run.status = "passed" -> "ok"
      [] run.status = "running" -> "run"
      [] run.status = "queued" -> "queued"
      [] run.status = "validation_failed" -> "drift"
      [] OTHER -> "fail"

\* scraper_rows: the last six passed counts but the newest, and the change of the last
\* run against their mean, in hundredths; -1000 where there is none to show.
NewestPassed(history, n) ==
    {i \in Passed(StatusesOf(history)) :
        Cardinality({j \in Passed(StatusesOf(history)) : j > i}) < n}
Baseline(history) ==
    NewestPassed(history, 6) \ {NewestOf(Passed(StatusesOf(history)))}
Delta(history) ==
    LET base == Baseline(history)
        sum == RowsIn(history, base)
    IN IF base = {} \/ sum = 0 THEN -1000
       ELSE ((history[Len(history)].rows * Cardinality(base) - sum) * 100) \div sum

\* scraper_stats: the pass rate of the last 7 days, in hundredths.
PassRate(history) ==
    LET week == Since(history, SinceWeek) IN
    IF week = {} THEN 0
    ELSE (Cardinality(week \cap With(history, {"passed"})) * 100) \div Cardinality(week)

\* coverage_grid: runs and passed ones of an engine in 30 days, and their share.
OfEngine(history, engine) ==
    LET month == Since(history, SinceMonth) IN
    [total |-> Cardinality({i \in month : history[i].engine = engine}),
     passed |-> Cardinality({i \in month \cap With(history, {"passed"}) : history[i].engine = engine})]
Coverage(history, engine) ==
    LET cell == OfEngine(history, engine) IN
    IF cell.total = 0 THEN 0 ELSE (cell.passed * 100) \div cell.total

\* What the pages say of one scraper fits together, though each looks back over a period
\* of its own.  It is listed as needing attention exactly if its bucket says so, and then
\* its data is stale; the tiles count no run twice, and none that the strip has not; they
\* are the strip's sums where no run of the 24 hours is from before midnight; a
\* run that passed is compared with runs before it only; and where each engine passed
\* all of its month, the week passed, unless it had runs of other engines or of none.
PagesAgree(history, enabled, engines) ==
    LET today == Today(history)
        statuses == StatusesOf(history)
    IN
    /\ enabled => /\ (Health(history, enabled) = "drift") <=> (Attention(history) = "drift")
                  /\ (Health(history, enabled) = "failed") <=> (Attention(history) = "fail")
    /\ Attention(history) # "none" =>
           /\ Stale(NewestOf(Passed(statuses)), Len(history))
           /\ FeedKind(history[Len(history)]) = Attention(history)
           /\ Listed(history, FALSE, FALSE) /\ Listed(history, TRUE, TRUE)
    /\ today.passed + today.failed <= today.runs /\ today.blocked <= today.failed
    /\ today.passed <= Strip(history, "ok")
    /\ today.failed <= Strip(history, "warn") + Strip(history, "fail")
    /\ Since(history, SinceDay) = Since(history, SinceMidnight) =>
           /\ today.passed = Strip(history, "ok")
           /\ today.failed = Strip(history, "warn") + Strip(history, "fail")
    /\ LatestStatus(history) = "passed" => Len(history) \notin Baseline(history)
    /\ (Delta(history) # -1000 /\ LatestStatus(history) = "passed") =>
           ((\A i \in Baseline(history) : history[i].rows = history[Len(history)].rows)
               => Delta(history) = 0)
    /\ (\A e \in engines : OfEngine(history, e).total = 0 \/ Coverage(history, e) = 100)
           => \/ PassRate(history) = 100 \/ Since(history, SinceWeek) = {}
              \/ \E i \in Since(history, SinceWeek) : history[i].engine \notin engines
=============================================================================
