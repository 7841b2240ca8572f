----------------------------- MODULE MCServices -----------------------------
(***************************************************************************)
(* The services around a run, checked side by side: what an agent does in  *)
(* a session, builds and repairs as jobs, the registry of builds, those    *)
(* who watch a run, the settings page, one delivery attempt, and the       *)
(* functions that judge, read, compare, map and bill.  They share nothing  *)
(* here: each behaviour is of one of them, its scene.                      *)
(***************************************************************************)
EXTENDS AgentSession, AgentJobs, BuildRegistry, Watch, SettingsStore, Engines, TLC

CONSTANTS
    Scenes,                            \* which of them
    NumRows, Sizes, Preview, MaxAttempts,  \* Sinks
    MaxHistory, MaxStored, Limit,      \* Answers
    SampleSize                         \* Verdicts

VARIABLES
    scene,
    sink, toolRetry, size, batch, call, second, attempts, taken, answer,
    runs, records, tool, step, offset, target, got, seen, targets, passed, last,
    sample

Sending == INSTANCE Sinks
Answering == INSTANCE Answers
Judging == INSTANCE Verdicts
Reads == INSTANCE Reading
Comparing == INSTANCE Scripts
Payloads == INSTANCE Mapping
Bills == INSTANCE Spending

sending == <<sink, toolRetry, size, batch, call, second, attempts, taken, answer>>
answering == <<runs, records, tool, step, offset, target, got, seen, targets, passed, last>>
services == <<scene, sample, session, vars, registry, watch, settings, sending, engines, answering>>

-----------------------------------------------------------------------------
(***************************************************************************)
(* Inputs of the functions.                                                *)
(***************************************************************************)
UpTo(n, S) == UNION {[1..k -> S] : k \in 0..n}
NoSample == [of |-> "nothing"]

\* The rows of a trial, of one field, and the thresholds the agent gave.
TrialRows == UpTo(3, UNION {[F -> Judging!Values] : F \in SUBSET {"f"}})
Thresholds ==
    LET default == Judging!DefaultValidation IN
    {default, [default EXCEPT !.unique = {"f"}],
     [default EXCEPT !.required_fields = {"f"}, !.min_rows = 2],
     [default EXCEPT !.max_null_rate = [f \in {"f"} |-> 5000]]}
Trials == [of : {"trial"}, rows : TrialRows,
           script : [fields : {{"f"}}, validation : Thresholds, output_schema : {{}}]]
Counts == [of : {"counts"}, counts : UpTo(4, 0..4),
           band : [relative_to : DOMAIN Judging!HistorySize, tolerance : {0, 50, 100}]]

\* Two scripts of up to two steps; the first has no variety of its own.
FieldSets(Sel, Rest) ==
    {Comparing!NoFields} \cup [{"f"} -> {Comparing!Field(s, r) : s \in Sel, r \in Rest}]
StepsOf(Sel, Rest) ==
    UNION {[op : {op}, depth : 0..1, sel : Sel, rest : Rest,
            fields : IF op = "extract" THEN FieldSets(Sel, Rest) ELSE {Comparing!NoFields}] :
              op \in {"extract", "loop", "emit", "custom_python"}}
ScriptsOf(Sel, Rest, Top) ==
    [top : Top, steps : {steps \in UpTo(2, StepsOf(Sel, Rest)) : Comparing!IsTree(steps)}]
ScriptChanges == [of : {"change"}, old : ScriptsOf({"s"}, {"r"}, {1}),
            new : ScriptsOf({"s", "t"}, {"r", "q"}, {1, 2})]

Groups == [sep : Reads!Separators, width : 1..4]
Numbers == {[of |-> "number", token |-> Reads!Token(w, rest)] : w \in 1..4, rest \in UpTo(3, Groups)}
Dates == [of : {"date"}, a : 1..31, b : 1..31]
Responses == [of : {"response"}, response : Reads!Response]
Ladders == [of : {"ladder"}, primary : {"", "a", "b"}, fallbacks : UpTo(2, {"", "a", "b", "bad"}),
            more : {<<>>, <<"b">>, <<"a", "c">>}, found : [{"a", "b", "c"} -> 0..2], minimum : 1..2]

\* Mappings of up to three paths: 10 and 11 are names, 0 and 2 places of a list.
Paths == {<<11>>} \cup {<<10>> \o rest : rest \in UpTo(2, {0, 2, 10, 11})}
Mappings ==
    {[of |-> "mapping", flat |-> [i \in DOMAIN paths |-> <<paths[i], ToString(i)>>]] :
        paths \in {ps \in UpTo(3, Paths) : \A i, j \in DOMAIN ps : i # j => ps[i] # ps[j]}}

UsageSlices == [model : {"opus", "haiku", "other"}, tokens : 0..2, cost : {{}, {3}}]
Usages == [of : {"usage"}, asked : {"opus", "other"}, slices : UpTo(2, UsageSlices), reported : {0, 4}]
Chunks ==
    [cost : 0..2, answer : {"rows", "failed"}, rows : UpTo(1, [id : {1, 2}, lacks : {{}, {"f"}}])]
        \cup [cost : {0}, answer : {"unpriced"}, rows : {<<>>}]
Extractions == [of : {"extract"}, page : UpTo(2, Chunks), cap : 0..3, most : 1..2]

\* What the runs of a history may look like on a page: rows where a run passed.  The
\* longer histories are of today, and the others of any ages.
PastRuns(ages) ==
    [status : Answering!Status \ {"passed"}, rows : {0}, engine : {"none", "http"}, age : ages]
        \cup [status : {"passed"}, rows : 0..2, engine : {"http", "browser"}, age : ages]
InOrder(past) == \A i \in DOMAIN past, j \in DOMAIN past : i < j => past[i].age >= past[j].age
PastHistories ==
    UpTo(SampleSize + 1, PastRuns({Answering!SinceMidnight}))
        \cup {past \in UpTo(SampleSize, PastRuns(Answering!Ages)) : InOrder(past)}
Histories == [of : {"pages"}, history : PastHistories, enabled : BOOLEAN]

Samples == UNION {Histories, Trials, Counts, ScriptChanges, Numbers, Dates, Responses, Ladders, Mappings, Usages, Extractions}

-----------------------------------------------------------------------------
\* What a scene begins with; the others stay at one of their initial states.
ServicesInit ==
    /\ scene \in Scenes
    /\ IF scene = "functions" THEN sample \in Samples ELSE sample = NoSample
    /\ SessionInit /\ (scene = "session" \/ (kind = "build" /\ engine = "http"))
    /\ Init /\ (scene = "jobs" \/ \A n \in Name : ~Exists(n))
    /\ RegistryInit
    /\ WatchInit
    /\ SettingsInit
    /\ Sending!SinksInit /\ (scene = "sinks" \/ (sink = "file" /\ ~toolRetry /\ size = 0))
    /\ EnginesInit /\ (scene = "engines" \/ (user = "agent" /\ ladder = <<"http">>))
    /\ Answering!AnswersInit /\ (scene = "readers" \/ tool = "list")

ServicesNext ==
    /\ UNCHANGED <<scene, sample>>
    /\ \/ /\ scene = "session" /\ SessionNext
          /\ UNCHANGED <<vars, registry, watch, settings, sending, engines, answering>>
       \/ /\ scene = "jobs" /\ Next
          /\ UNCHANGED <<session, registry, watch, settings, sending, engines, answering>>
       \/ /\ scene = "registry" /\ RegistryNext
          /\ UNCHANGED <<session, vars, watch, settings, sending, engines, answering>>
       \/ /\ scene \in {"streams", "callers"} /\ WatchNext
          /\ scene = "streams" => UNCHANGED caller
          /\ scene = "callers" => UNCHANGED stream
          /\ UNCHANGED <<session, vars, registry, settings, sending, engines, answering>>
       \/ /\ scene = "settings" /\ SettingsNext
          /\ UNCHANGED <<session, vars, registry, watch, sending, engines, answering>>
       \/ /\ scene = "sinks" /\ Sending!SinksNext
          /\ UNCHANGED <<session, vars, registry, watch, settings, engines, answering>>
       \/ /\ scene = "engines" /\ EnginesNext
          /\ UNCHANGED <<session, vars, registry, watch, settings, sending, answering>>
       \/ /\ scene = "readers" /\ Answering!AnswersNext
          /\ UNCHANGED <<session, vars, registry, watch, settings, sending, engines>>

ServicesSpec == ServicesInit /\ [][ServicesNext]_services

-----------------------------------------------------------------------------
(***************************************************************************)
(* The properties that are checked; those of the modules extended here are *)
(* checked under their own names.                                          *)
(***************************************************************************)
\* agents/builder.py against validate/validator.py: a build's script, with the
\* thresholds and the schema derived from its trial, passes the rows of that trial;
\* and the schema that infer_schema makes of rows fits them.
BuiltScriptAcceptsTrial ==
    sample.of = "trial" =>
        /\ Judging!BuiltScriptAcceptsTrial(sample.rows, sample.script)
        /\ Judging!InferredSchemaFits(sample.rows)

\* validate/drift.py and recent_row_counts: a broken row count stays broken.
BreakageIsKept == sample.of = "counts" => Judging!BreakageIsKept(sample.counts, sample.band)

\* agents/repair.py classify_change: where no step moved, a change is minor exactly when
\* only selectors changed; and what else a minor change may move.
MinorIsOfSelectorsOrMoves ==
    sample.of = "change" => Comparing!MinorIsOfSelectorsOrMoves(sample.old, sample.new)

\* runner/block_detect.py, locators.py and parsing.py: walls are told from pages, the
\* ladder of selectors is stable, and numbers and dates are read as they were written.
PageIsRead ==
    /\ sample.of = "number" => Reads!NumberIsRead(sample.token)
    /\ sample.of = "date" => Reads!DateIsRead(sample.a, sample.b)
    /\ sample.of = "response" => Reads!WallIsTold(sample.response)
    /\ sample.of = "ladder" => Reads!LadderIsStable(sample.primary, sample.fallbacks, sample.more,
                                                    sample.found, sample.minimum)

\* delivery/: what an attempt at a sink for rows says it sent was taken by the receiver,
\* and a mapping reaches it as it was written.
SinkTellsTruth ==
    /\ Sending!SinkTellsTruth
    /\ sample.of = "mapping" => Payloads!PayloadKeepsPaths(sample.flat)

\* agents/gateway.py, cost.py and fallback.py: the bill of a session counts each
\* model's share once and at its own rate, and the extractor keeps to its cap and reads
\* what it took of the page, unless it says otherwise.
SpendIsWhole ==
    /\ sample.of = "usage" => Bills!BillIsWhole(sample.asked, sample.slices, sample.reported)
    /\ sample.of = "extract" => Bills!CapIsKept(sample.page, sample.cap, sample.most)

\* mcp/server.py get_results and web/queries.py: a client that pages misses no row, and
\* what the pages count, list and compare of a scraper's runs fits together.
AnswersAgree ==
    /\ Answering!PagingMissesNothing
    /\ sample.of = "pages" => Answering!PagesAgree(sample.history, sample.enabled, {"http", "browser"})
=============================================================================
