------------------------------ MODULE Verdicts ------------------------------
(***************************************************************************)
(* What makes the rows of a run a pass (validate/), and where the          *)
(* thresholds come from: the validation block and the schema that a build  *)
(* derives from its trial run (agents/builder.py).  Functions only; none   *)
(* of this code has a state.                                               *)
(*                                                                         *)
(* A row is a function from the names it has to values.  A value is one of *)
(* a few that the rules tell apart.  What may be left out of a script is a *)
(* set of at most one.                                                     *)
(***************************************************************************)
EXTENDS Integers, Sequences, SequencesExt, FiniteSets, FiniteSetsExt

CONSTANT SampleSize  \* how many rows of a trial are reported: 20

None == "None"
Texts == {"", " ", "a", "b"}
Scalars == {None, "1", "1.5"} \cup Texts
Values == Scalars \cup {"[]"}

\* _json_type, of validate/schema.py and of agents/builder.py.
JsonType(v) ==
    CASE v = None -> "null"
      [] v = "1" -> "integer"
      [] v = "1.5" -> "number"
      [] v = "[]" -> "array"
      [] v \in Texts -> "string"

\* is_null: blank text and empty lists too.
IsNull(v) == v \in {None, "", " ", "[]"}

Get(row, f) == IF f \in DOMAIN row THEN row[f] ELSE None
Having(rows, P(_)) == Cardinality({i \in DOMAIN rows : P(rows[i])})
NamesOf(rows) == UNION {DOMAIN rows[i] : i \in DOMAIN rows}

\* null_rate, as nulls of so many rows.
Nulls(rows, f) == Having(rows, LAMBDA row : IsNull(Get(row, f)))

-----------------------------------------------------------------------------
(***************************************************************************)
(* The rules of validator.py, in their order.  v is a validation block;    *)
(* rates are parts of 10000.                                               *)
(***************************************************************************)
MinRows(rows, v) == Len(rows) >= v.min_rows
MaxRows(rows, v) == \A n \in v.max_rows : Len(rows) <= n
RequiredFields(rows, v) == \A f \in v.required_fields : Nulls(rows, f) = 0
NullRates(rows, v) ==
    \A f \in DOMAIN v.max_null_rate : Nulls(rows, f) * 10000 <= v.max_null_rate[f] * Len(rows)
Unique(rows, v) ==
    \A f \in v.unique : \A i, j \in DOMAIN rows :
        i # j /\ ~IsNull(Get(rows[i], f)) => Get(rows[i], f) # Get(rows[j], f)

\* history_size and baseline_for: the newest of the history; nothing when it is empty.
HistorySize == [last_run |-> 1, last_5_runs |-> 5, last_10_runs |-> 10]
FirstOf(seq, n) == SubSeq(seq, 1, IF Len(seq) < n THEN Len(seq) ELSE n)
Window(history, band) == FirstOf(history, HistorySize[band.relative_to])
TotalOf(counts) == FoldSeq(LAMBDA n, sum : n + sum, 0, counts)

\* row_count_band_rule: within the tolerance (in parts of 100) of the mean, edges
\* excluded; a count that equals the mean always is.
RowCountBand(n, band, history) ==
    LET window == Window(history, band)
        total == TotalOf(window)
        off == n * Len(window) - total
        distance == IF off < 0 THEN -off ELSE off
    IN window = <<>> \/ total = 0 \/ off = 0 \/ distance * 100 < band.tolerance * total

\* _type_ok, and _walk over an array of objects with types and required fields.
TypeFits(v, types) == JsonType(v) \in types \/ (JsonType(v) = "integer" /\ "number" \in types)
FitsSchema(row, schema) ==
    /\ \A f \in schema.required : Get(row, f) # None
    /\ \A f \in DOMAIN schema.types \cap DOMAIN row : TypeFits(row[f], schema.types[f])

\* check_schema: against the schema, or else against the fields the script declares.
CheckSchema(rows, schema, declared) == \A i \in DOMAIN rows :
    /\ \A s \in schema : FitsSchema(rows[i], s)
    /\ schema = {} => declared \subseteq DOMAIN rows[i]

\* validate.
Validate(rows, script, history) ==
    LET v == script.validation IN
    /\ MinRows(rows, v) /\ MaxRows(rows, v) /\ RequiredFields(rows, v)
    /\ NullRates(rows, v) /\ Unique(rows, v)
    /\ \A band \in v.row_count_band : RowCountBand(Len(rows), band, history)
    /\ CheckSchema(rows, script.output_schema, script.fields)

-----------------------------------------------------------------------------
(***************************************************************************)
(* What a build derives.                                                   *)
(***************************************************************************)
TypesSeen(rows, f) == {JsonType(rows[i][f]) : i \in {j \in DOMAIN rows : f \in DOMAIN rows[j]}}
Unfilled(rows, f) == Having(rows, LAMBDA row : Get(row, f) \in {None, ""})

\* infer_output_schema: the types seen, null not among them.
InferOutputSchema(rows) ==
    [types |-> [f \in NamesOf(rows) |->
                  IF TypesSeen(rows, f) \subseteq {"null"} THEN {"string", "null"}
                  ELSE TypesSeen(rows, f) \ {"null"}],
     required |-> {f \in NamesOf(rows) : Unfilled(rows, f) = 0}]

\* _merge_types and infer_schema of validate/schema.py, which no build uses: null is
\* kept, and an integer is a number where there are numbers.
MergeTypes(seen) == IF {"integer", "number"} \subseteq seen THEN seen \ {"integer"} ELSE seen
InferSchema(rows) ==
    [types |-> [f \in NamesOf(rows) |-> MergeTypes(TypesSeen(rows, f))],
     required |-> {f \in NamesOf(rows) : Unfilled(rows, f) = 0}]

\* measured_null_rates: None and "" only, rounded to four places.
MeasuredNullRate(rows, f) == (2 * 10000 * Unfilled(rows, f) + Len(rows)) \div (2 * Len(rows))

AtLeastOne(n) == IF n < 1 THEN 1 ELSE n
Half(n) == AtLeastOne(n \div 2)                       \* MIN_ROWS_FACTOR
Threefold(n) == AtLeastOne(3 * n)                     \* MAX_ROWS_FACTOR
WithHeadroom(rate) == IF rate + 500 > 10000 THEN 10000 ELSE rate + 500
DefaultValidation == [min_rows |-> 1, max_rows |-> {}, row_count_band |-> {},
                      max_null_rate |-> [f \in {} |-> 0], unique |-> {}, required_fields |-> {}]

\* The fields that were filled in every row become required.
FilledSomewhere(rows) == {f \in NamesOf(rows) : Unfilled(rows, f) < Len(rows)}  \* a mutation
Filled(rows) == {f \in NamesOf(rows) : MeasuredNullRate(rows, f) = 0}

\* derive_validation: only what the agent left at its default is replaced.  n rows were
\* found, and rows are those that were reported.
DeriveValidation(v, ok, n, rows) ==
    IF ~ok \/ n = 0 THEN v
    ELSE [v EXCEPT
            !.min_rows = IF @ = DefaultValidation.min_rows THEN Half(n) ELSE @,
            !.max_rows = IF @ = {} THEN {Threefold(n)} ELSE @,
            !.max_null_rate = IF DOMAIN @ = {}
                                THEN [f \in NamesOf(rows) |-> WithHeadroom(MeasuredNullRate(rows, f))]
                                ELSE @,
            !.required_fields = IF @ = {} THEN Filled(rows) ELSE @]

\* _trial_from_report: the first rows of a trial.
Reported(rows) == FirstOf(rows, SampleSize)

\* The script a build saves; that of a request without a target_schema, which would be
\* its output_schema.
BuiltScript(script, rows) ==
    LET ok == Validate(rows, script, <<>>)
        seen == Reported(rows)
    IN [script EXCEPT
          !.validation = DeriveValidation(@, ok, Len(rows), seen),
          !.output_schema = IF @ = {} /\ rows # <<>> THEN {InferOutputSchema(seen)} ELSE @]

-----------------------------------------------------------------------------
(***************************************************************************)
(* A scraper's runs, one after the other: the number of rows of each, and  *)
(* whether it passed.  recent_row_counts is the history: passed runs only, *)
(* newest first.                                                           *)
(***************************************************************************)
AnyStatus(run) == TRUE  \* a mutation
PassedOnly(run) == run.passed
RecentRowCounts(runs) ==
    FoldLeft(LAMBDA counts, run : IF PassedOnly(run) THEN <<run.rows>> \o counts ELSE counts, <<>>, runs)

\* counts, judged in turn.
Judged(counts, band) ==
    FoldLeft(LAMBDA runs, n :
                Append(runs, [rows |-> n, passed |-> RowCountBand(n, band, RecentRowCounts(runs))]),
             <<>>, counts)

-----------------------------------------------------------------------------
(***************************************************************************)
(* Properties of a trial's rows and the script that was tried.             *)
(***************************************************************************)
\* What the thresholds and types do not cover: rows beyond the reported ones, text
\* that is blank but not empty and empty lists (null when a run is judged, filled when
\* its thresholds are derived), and fields that are None in some rows and not in all,
\* whose type the schema then denies to None.
Unforeseen(rows) ==
    \/ Len(rows) > SampleSize
    \/ \E i \in DOMAIN rows : \E f \in DOMAIN rows[i] : rows[i][f] \in {" ", "[]"}
    \/ \E f \in NamesOf(rows) : "null" \in TypesSeen(rows, f) /\ TypesSeen(rows, f) # {"null"}

\* A build's script passes the rows it was derived from: had the run come again just
\* as the trial was, it would not count as broken.
BuiltScriptAcceptsTrial(rows, script) ==
    Validate(rows, script, <<>>) /\ ~Unforeseen(rows) => Validate(rows, BuiltScript(script, rows), <<>>)

\* The other inference has no such exception for None.
InferredSchemaFits(rows) == CheckSchema(rows, {InferSchema(rows)}, {})

\* A page that breaks stays broken: a count that was rejected is rejected again for as
\* long as it does not change, whatever the window, because only passed runs move the
\* baseline; and a page that halves is caught where the tolerance is a half.
BreakageIsKept(counts, band) ==
    LET runs == Judged(counts, band) IN
    \A i \in DOMAIN runs \ {1} :
        /\ ~runs[i - 1].passed /\ runs[i].rows = runs[i - 1].rows => ~runs[i].passed
        /\ \A n \in 1..10 : band.tolerance <= 50 /\ (\A j \in 1..(i - 1) : counts[j] = 2 * n) /\ counts[i] = n
                              => ~runs[i].passed
=============================================================================
