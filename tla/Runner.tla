------------------------------- MODULE Runner -------------------------------
(***************************************************************************)
(* One run: the child process that executes a script (runner/cli.py), and  *)
(* what its parent makes of it (scheduler/tasks.py).                       *)
(*                                                                         *)
(* The child tries the rungs of the script's ladder one after the other    *)
(* (runner/escalation.py).  Each rung gets an engine and a context of its   *)
(* own and executes the script from the start (runner/steps.py); what a    *)
(* step emits goes to the context and, at once, to records.jsonl           *)
(* (runner/artifacts.py), which all the rungs share.                       *)
(*                                                                         *)
(* The site is free: what a page shows and how an engine call ends is      *)
(* chosen step by step.  A row is told by the rung that extracted it, the  *)
(* bag it went to and the page it was on; a page has one row, or none.     *)
(***************************************************************************)
EXTENDS Integers, FiniteSets, Sequences, SequencesExt

CONSTANTS
    Scripts,  \* the scripts a run may have
    Steps,    \* the steps they are made of, those in the bodies of loops too
    Bags,     \* names of bags (`as` of an extraction)
    Items,    \* names of loop variables (`as` of a loop)
    Pages     \* pages of a listing that have rows

ASSUME RunnerAssumption == Pages \in Nat

VARIABLES
    script,    \* the script of this run
    pc,        \* where the child is
    level,     \* the rung that is tried
    stack,     \* what steps.py is in the middle of, innermost last
    doc,       \* the document the engine shows
    page,      \* ctx.vars[`page`]
    scope,     \* ctx.vars of the loop variables
    named,     \* the names ctx.bags has
    bags,      \* ctx.bags
    rows,      \* ctx.rows
    visited,   \* ctx.pages_visited
    file,      \* records.jsonl
    attempts,  \* LadderResult.attempts
    outcome,   \* the RunOutcome
    line,      \* the last line of its output that counts for the parent
    code,      \* the exit code
    run        \* the Run row and its records, as the parent writes them

context == <<stack, doc, page, scope, named, bags, rows, visited>>
result == <<attempts, outcome, line, code>>
vars == <<script, pc, level, context, file, result, run>>

-----------------------------------------------------------------------------
(***************************************************************************)
(* Rungs and failures.                                                     *)
(***************************************************************************)
Rung == {"http", "patchright", "patchright+proxy", "camoufox", "byparr"}
Engines == {"auto", "http", "patchright", "playwright", "camoufox"}

\* "step" is a StepError that is no SelectorNotFound; "unexpected" is what the
\* runner does not raise itself.
Failure == {"blocked", "unavailable", "unsupported", "selector", "validation", "step", "unexpected"}

ENGINE_RUNG == [http |-> "http", patchright |-> "patchright",
                playwright |-> "patchright", camoufox |-> "camoufox"]

\* What the DSL's models demand of a script (dsl/models.py).
ASSUME ScriptsAssumption ==
    /\ \A sc \in Scripts :
         /\ sc.steps \in Seq(Steps) /\ sc.cap \in Int
         /\ sc.engine \in Engines /\ sc.escalation \in Seq(Rung)
    /\ \A step \in Steps :
         /\ step.op \in {"extract", "extract_list", "custom_python"} => step.as \in Bags
         /\ step.op = "loop" => step.as \in Items /\ step.steps \in Seq(Steps)
         /\ step.op \in {"loop", "paginate"} => step.max \in Int
         /\ step.op = "goto" => step.url \in Items \cup {"fixed", "page"}

\* rungs_for: the rungs from the script's engine on.
From(ladder, rung) ==
    IF rung \in ToSet(ladder)
    THEN LET first == CHOOSE i \in DOMAIN ladder :
                        ladder[i] = rung /\ \A j \in 1..(i - 1) : ladder[j] # rung
         IN  SubSeq(ladder, first, Len(ladder))
    ELSE <<rung>> \o ladder
Declared(sc) == IF sc.escalation = <<>> THEN <<"http", "patchright">> ELSE sc.escalation
Ladder(sc) ==
    IF sc.engine = "auto" THEN Declared(sc) ELSE From(Declared(sc), ENGINE_RUNG[sc.engine])

\* _retryable.
ClimbsPastTheTop(failure, rung, hasNext) ==  \* a mutation: has_next is not looked at
    failure \in {"blocked", "unavailable", "unsupported"}
Climbs(failure, rung, hasNext) ==
    /\ hasNext
    /\ \/ failure \in {"blocked", "unavailable", "unsupported"}
       \/ failure \in {"selector", "validation"} /\ rung = "http"

rungs == Ladder(script)
rung == rungs[level]
http == rung = "http"

-----------------------------------------------------------------------------
(***************************************************************************)
(* The context of an attempt.                                              *)
(***************************************************************************)
Row == Nat \X Bags \X Nat
NoRow == <<0, "none", 0>>
NoBags == [b \in Bags |-> <<>>]
NoItems == [x \in Items |-> NoRow]

Lower(m, n) == IF m < n THEN m ELSE n

\* list: whether the document is a listing, with the rows of pages first..last (a
\* "load more" adds to the document), or the page of one row.
Doc(list, first, last) == [list |-> list, first |-> first, last |-> last]
NoDoc == Doc(FALSE, 1, 0)

\* The bags and variables that the next attempt starts with: none, since each
\* attempt has a StepContext of its own.
BagsKept == bags  \* a mutation: one context for all rungs
BagsOfNext == NoBags

NewContext ==
    /\ stack' = <<>> /\ doc' = NoDoc /\ page' = 1 /\ scope' = NoItems
    /\ named' = {} /\ bags' = BagsOfNext /\ rows' = <<>> /\ visited' = 0

\* The rows that the document shows, told by their pages, and any choice of them in
\* their order, as an extraction into bag b records it.
Shown == (doc.first..doc.last) \cap (1..Pages)
RowsOf(S) ==
    {s \in UNION {[1..n -> S] : n \in 0..Cardinality(S)} :
        \A i, j \in DOMAIN s : i < j => s[i] < s[j]}
Extracted(b, chosen) == [i \in DOMAIN chosen |-> <<level, b, chosen[i]>>]

\* StepContext.bag, and what is put into it.
PutInto(b, extracted) ==
    /\ named' = named \cup {b}
    /\ bags' = [bags EXCEPT ![b] = @ \o extracted]

\* How many rows there are.  (The code adds them up; as bags only grow, the sums
\* differ when the counts do.)
RowsInBags == [b \in Bags |-> Len(bags[b])]

\* artifacts.append_records.
FileAfterFirst(f, emitted) == IF f = <<>> THEN emitted ELSE f  \* a mutation: only once
FileAfter(f, emitted) == f \o emitted

-----------------------------------------------------------------------------
(***************************************************************************)
(* Control: a stack of frames.  A block is an execute_steps; between the   *)
(* block of a loop or a paginate step and the block of its body there is a *)
(* frame of that step.                                                     *)
(***************************************************************************)
Block(steps) == [kind |-> "block", steps |-> steps, at |-> 1, from |-> 1]

Top == stack[Len(stack)]
Below == stack[Len(stack) - 1]
InBlock == pc = "steps" /\ stack # <<>> /\ Top.kind = "block"
Executing == InBlock /\ Top.at <= Len(Top.steps)
Step == Top.steps[Top.at]
Loops == Len(SelectSeq(stack, LAMBDA f : f.kind = "loop"))

\* The step at the top of stack st is done: the block goes on behind it; after a
\* paginate a new pagination block begins (block_start).
Onward(st) ==
    LET f == st[Len(st)] IN
    [st EXCEPT ![Len(st)] = [f EXCEPT !.at = @ + 1,
                                      !.from = IF f.steps[f.at].op = "paginate" THEN f.at + 1 ELSE @]]
Advance == stack' = Onward(stack)
Return == stack' = Onward(Front(stack))

\* final_line: the outcome line, or the last line there is; of one that is not the
\* outcome it counts whether it says `blocked`.
Line == {"nothing", "other", "blocked", "outcome"}
LineOf(failure) == IF failure = "blocked" THEN "blocked" ELSE "other"

\* An exception that leaves escalate's try: the attempt is over, its context and
\* its rows are gone.
Fails(failure) ==
    /\ attempts' = Append(attempts, <<rung, failure>>)
    /\ IF Climbs(failure, rung, level < Len(rungs))
         THEN pc' = "open" /\ level' = level + 1 /\ UNCHANGED outcome
         ELSE /\ pc' = "judge" /\ UNCHANGED level
              /\ outcome' = [how |-> failure, rows |-> <<>>]
    /\ line' = LineOf(failure)
    /\ NewContext
    /\ UNCHANGED <<script, file, code, run>>

-----------------------------------------------------------------------------
NoOutcome == [how |-> "none", rows |-> <<>>]
NoCode == -1
NotRecorded == [status |-> "running", records |-> <<>>, row_count |-> 0]

Init ==
    /\ script \in Scripts
    /\ pc = "load" /\ level = 1
    /\ stack = <<>> /\ doc = NoDoc /\ page = 1 /\ scope = NoItems
    /\ named = {} /\ bags = NoBags /\ rows = <<>> /\ visited = 0
    /\ file = <<>> /\ attempts = <<>> /\ outcome = NoOutcome
    /\ line = "nothing" /\ code = NoCode /\ run = NotRecorded

\* cli._run up to execute: the file may be missing or not validate.
Load ==
    /\ pc = "load"
    /\ \/ pc' = "open" /\ UNCHANGED outcome
       \/ pc' = "judge" /\ outcome' = [how |-> "script", rows |-> <<>>]
    /\ line' = "other"
    /\ UNCHANGED <<script, level, context, file, attempts, code, run>>

\* escalate: build_engine and engine.open.
Open ==
    /\ pc = "open" /\ rung # "byparr"
    /\ pc' = "steps" /\ stack' = <<Block(script.steps)>>
    /\ line' = "other"
    /\ UNCHANGED <<script, level, doc, page, scope, named, bags, rows, visited, file, attempts,
                   outcome, code, run>>

OpenFails ==
    /\ pc = "open"
    /\ \/ Fails("unavailable")
       \/ rung # "byparr" /\ Fails("unexpected")

-----------------------------------------------------------------------------
(***************************************************************************)
(* The steps of a script (_dispatch and its handlers).                     *)
(***************************************************************************)
\* How a step may end that changes nothing the model keeps: wait_for, click, fill,
\* hover (for select, hover and press), assert, solve_challenge, and still (for
\* scroll, sleep and screenshot).
BROWSER_ONLY_OPS == {"fill", "hover", "solve_challenge"}
Plain == {"wait_for", "click", "fill", "hover", "assert", "solve_challenge", "still"}
Ends(step) ==
    IF step.op \in BROWSER_ONLY_OPS /\ http THEN {"unsupported"}
    ELSE IF step.op = "solve_challenge" THEN {"blocked"}
    ELSE {"ok", "step"} \cup
         {f \in Failure :
            LET must == step.op = "click" /\ ~step.optional IN
            \/ f = "selector" /\ (step.op \in {"wait_for", "fill"} \/ must)
            \/ f = "unsupported" /\ http /\ must
            \/ f = "validation" /\ step.op = "assert"
            \/ f = "unexpected" /\ step.op \in {"wait_for", "assert", "hover", "still"}}

PlainStep ==
    /\ Executing /\ Step.op \in Plain
    /\ \E end \in Ends(Step) :
         IF end = "ok"
         THEN /\ Advance
              /\ UNCHANGED <<script, pc, level, doc, page, scope, named, bags, rows, visited,
                             file, result, run>>
         ELSE Fails(end)

\* _goto and _check_block.  A url is fixed, or it interpolates the page variable
\* or a loop variable.
Fetched(url) ==
    CASE url = "fixed" -> Doc(TRUE, 1, 1)
      [] url = "page" -> Doc(TRUE, page, page)
      [] OTHER -> Doc(FALSE, scope[url][3], scope[url][3])
Goto ==
    /\ Executing /\ Step.op = "goto"
    /\ IF Step.url \in Items /\ scope[Step.url] = NoRow
         THEN Fails("step")
         ELSE \/ Fails("unexpected") \/ Fails("blocked")
              \/ /\ visited' = visited + 1
                 /\ doc' = Fetched(Step.url)
                 /\ Advance
                 /\ UNCHANGED <<script, pc, level, page, scope, named, bags, rows, file, result, run>>

\* _extract: one record (of nulls, if need be), or its scope or a required field is
\* missing.
Extract ==
    /\ Executing /\ Step.op = "extract"
    /\ \/ \E f \in {"selector", "validation", "unexpected"} : Fails(f)
       \/ /\ PutInto(Step.as, Extracted(Step.as, <<doc.first>>))
          /\ Advance
          /\ UNCHANGED <<script, pc, level, doc, page, scope, rows, visited, file, result, run>>

\* _extract_list: the rows of the document, less those that lack a required field.
ExtractList ==
    /\ Executing /\ Step.op = "extract_list"
    /\ \/ Fails("unexpected")
       \/ Step.min > 0 /\ Fails("selector")
       \/ \E chosen \in RowsOf(Shown) :
            IF Len(chosen) < Step.min
            THEN Fails("validation")
            ELSE /\ PutInto(Step.as, Extracted(Step.as, chosen))
                 /\ Advance
                 /\ UNCHANGED <<script, pc, level, doc, page, scope, rows, visited, file, result, run>>

\* _custom_python: what it returns goes to the bag; all it may raise is a StepError.
CustomPython ==
    /\ Executing /\ Step.op = "custom_python"
    /\ \/ Fails("step")
       \/ /\ \E chosen \in RowsOf(Shown) : PutInto(Step.as, Extracted(Step.as, chosen))
          /\ Advance
          /\ UNCHANGED <<script, pc, level, doc, page, scope, rows, visited, file, result, run>>

\* _emit: a bag, or the value of a variable.
Emit ==
    /\ Executing /\ Step.op = "emit"
    /\ IF Step.source \in named \/ (Step.source \in Items /\ scope[Step.source] # NoRow)
         THEN LET emitted == IF Step.source \in named THEN bags[Step.source] ELSE <<scope[Step.source]>>
              IN  /\ rows' = rows \o emitted
                  /\ file' = FileAfter(file, emitted)
                  /\ Advance
                  /\ UNCHANGED <<script, pc, level, doc, page, scope, named, bags, visited, result, run>>
         ELSE Fails("step")

-----------------------------------------------------------------------------
\* _loop.  Its frame keeps the items left (a Python slice: a negative maximum leaves
\* out the last ones), the one its body is at, and what the variable was before.
FirstOf(all, max) ==
    SubSeq(all, 1, Lower(Len(all), IF max < 0 THEN Len(all) + max ELSE max))
LoopStart ==
    /\ Executing /\ Step.op = "loop"
    /\ IF Loops > 5 \/ Step.over \notin named
         THEN Fails("step")
         ELSE LET all == bags[Step.over]
                  items == FirstOf(all, Step.max)
              IN  /\ stack' = Append(stack, [kind |-> "loop", step |-> Step, left |-> items,
                                             item |-> NoRow, saved |-> scope[Step.as]])
                  /\ UNCHANGED <<script, pc, level, doc, page, scope, named, bags, rows, visited,
                                 file, result, run>>

\* _restore, in the `finally` of _loop.
Restored(f) == f.saved

LoopNext ==
    /\ pc = "steps" /\ stack # <<>> /\ Top.kind = "loop"
    /\ IF Top.left = <<>>
         THEN Return /\ scope' = [scope EXCEPT ![Top.step.as] = Restored(Top)]
         ELSE /\ scope' = [scope EXCEPT ![Top.step.as] = Head(Top.left)]
              /\ stack' = Append([stack EXCEPT ![Len(stack)].left = Tail(@),
                                               ![Len(stack)].item = Head(Top.left)],
                                 Block(Top.step.steps))
    /\ UNCHANGED <<script, pc, level, doc, page, named, bags, rows, visited, file, result, run>>

-----------------------------------------------------------------------------
\* _paginate.  Its frame keeps the block it repeats, how often it did, the page
\* number and how many rows there were before the page it is at.
Drives(block) == \E i \in DOMAIN block : block[i].op = "goto" /\ block[i].url = "page"
ReplayAll(block) == block  \* a mutation: clicks, and goes to the first page again
WithoutGotos(block) ==
    LET kept[n \in 0..Len(block)] ==
          IF n = 0 THEN <<>>
          ELSE IF block[n].op = "goto" THEN kept[n - 1] ELSE Append(kept[n - 1], block[n])
    IN  kept[Len(block)]
Replay(block) == IF Drives(block) THEN block ELSE WithoutGotos(block)

PaginateStart ==
    /\ Executing /\ Step.op = "paginate"
    /\ LET block == SubSeq(Top.steps, Top.from, Top.at - 1)
       IN  stack' = Append(stack, [kind |-> "pages", step |-> Step, block |-> Replay(block),
                                   url |-> Drives(block), turns |-> 0, no |-> page,
                                   before |-> RowsInBags])
    /\ UNCHANGED <<script, pc, level, doc, page, scope, named, bags, rows, visited, file, result, run>>

\* The conditions at the head of the loop of _paginate.
MayTurnOneMore(f) ==  \* a mutation: off by one
    f.turns < Lower(f.step.max, script.cap) - 1 /\ visited <= script.cap
MayTurn(f) == f.turns < Lower(f.step.max, script.cap) - 1 /\ visited < script.cap

InPages == pc = "steps" /\ stack # <<>> /\ Top.kind = "pages"

\* The caps are reached, or there is no control on the document.
PaginateEnd ==
    /\ InPages
    /\ Return
    /\ UNCHANGED <<script, pc, level, doc, page, scope, named, bags, rows, visited, file, result, run>>

\* The next page, and the block once more.
Turned(f) == [f EXCEPT !.turns = @ + 1, !.no = @ + 1, !.before = RowsInBags]
Turn ==
    /\ InPages /\ MayTurn(Top) /\ doc.list
    /\ page' = Top.no + 1
    /\ stack' = Append([stack EXCEPT ![Len(stack)] = Turned(@)], Block(Top.block))
    /\ IF Top.url
         THEN UNCHANGED <<doc, visited>>
         ELSE /\ visited' = visited + 1
              /\ doc' = Doc(TRUE, IF Top.step.more /\ ~http THEN doc.first ELSE doc.last + 1, doc.last + 1)
    /\ UNCHANGED <<script, pc, level, scope, named, bags, rows, file, result, run>>

\* A click on the control fails: the pagination is over, or the rung, or the site
\* refuses the next page.
TurnFails ==
    /\ InPages /\ MayTurn(Top) /\ doc.list /\ ~Top.url
    /\ \/ http /\ Fails("unsupported")
       \/ Fails("blocked")
       \/ /\ page' = Top.no + 1
          /\ Return
          /\ UNCHANGED <<script, pc, level, doc, scope, named, bags, rows, visited, file, result, run>>

\* The end of a block: of a page, of a round of a loop, or of the script.
BlockEnds ==
    /\ InBlock /\ Top.at > Len(Top.steps) /\ Len(stack) > 1
    /\ stack' = IF Below.kind = "pages" /\ Below.step.stop_when_empty /\ RowsInBags = Below.before
                THEN Onward(SubSeq(stack, 1, Len(stack) - 2))
                ELSE Front(stack)
    /\ UNCHANGED <<script, pc, level, doc, page, scope, named, bags, rows, visited, file, result, run>>

\* run_steps returns: the rung passed.
RungPasses ==
    /\ InBlock /\ Top.at > Len(Top.steps) /\ Len(stack) = 1
    /\ attempts' = Append(attempts, <<rung, "ok">>)
    /\ outcome' = [how |-> "ok", rows |-> rows]
    /\ pc' = "judge"
    /\ NewContext
    /\ UNCHANGED <<script, level, file, line, code, run>>

-----------------------------------------------------------------------------
\* cli._run: the wall-clock limit ends execute wherever it is.
Timeout ==
    /\ pc \in {"open", "steps"}
    /\ pc' = "judge"
    /\ outcome' = [how |-> "timeout", rows |-> file]
    /\ line' = "other"
    /\ NewContext
    /\ UNCHANGED <<script, level, file, attempts, code, run>>

\* exit_code_for.
CodeErrorFirst(how, verdict) ==  \* a mutation: a refusal comes with an error text too
    IF how # "ok" THEN 3 ELSE IF verdict = "failed" THEN 1 ELSE 0
ExitCode(how, verdict) ==
    CASE how = "blocked" -> 2
      [] how \notin {"ok", "blocked"} -> 3
      [] how = "ok" -> IF verdict = "failed" THEN 1 ELSE 0

\* cli._run: judge, and the outcome line.  Only what came through is judged; a
\* validator that raises is caught as a last resort.
Judge ==
    /\ pc = "judge" /\ pc' = "told"
    /\ \/ /\ \E verdict \in IF outcome.how = "ok" THEN {"passed", "failed"} ELSE {"none"} :
               code' = ExitCode(outcome.how, verdict)
          /\ UNCHANGED outcome
       \/ /\ outcome.how = "ok"
          /\ outcome' = [how |-> "unhandled", rows |-> <<>>] /\ code' = 3
    /\ line' = "outcome"
    /\ UNCHANGED <<script, level, context, file, attempts, run>>

\* What the parent has read when the child ends (_pump): an outcome line that is longer
\* than its limit is dropped, and what comes after the drain; while an engine opens,
\* a line was written that tells the rung.
LastRead ==
    {line} \cup (IF line = "outcome" THEN {LineOf(outcome.how)} ELSE {})
           \cup (IF pc = "open" THEN {"other"} ELSE {})

\* The child ends with its exit code.
Exit ==
    /\ pc = "told" /\ pc' = "exited"
    /\ line' \in LastRead
    /\ UNCHANGED <<script, level, context, file, attempts, outcome, code, run>>

\* The code of a step is not contained: it may end the process itself, with any exit
\* code (_custom_python catches no SystemExit).
CustomPythonExits ==
    /\ Executing /\ Step.op = "custom_python"
    /\ pc' = "exited"
    /\ code' \in 0..3
    /\ NewContext
    /\ UNCHANGED <<script, level, file, attempts, outcome, line, run>>

\* The parent's hard timeout ("overdue"), a cancel request or the operating system
\* kills the child.
Killed ==
    /\ pc \in {"load", "open", "steps", "judge", "told"}
    /\ pc' \in {"killed", "overdue"}
    /\ line' \in LastRead
    /\ outcome' = IF pc = "told" THEN outcome ELSE NoOutcome
    /\ code' = NoCode
    /\ NewContext
    /\ UNCHANGED <<script, level, file, attempts, run>>

\* The parent waits for the child to end, in whatever way.
EndedWithLine == pc = "exited"  \* a mutation: waits for the outcome line
Ended == pc \in {"exited", "killed", "overdue"}

\* apply_result and _status_of.  (No line that the child writes names a status.)
EXIT_STATUS == <<"passed", "validation_failed", "blocked", "error">>
Status ==
    IF pc = "overdue" \/ line = "nothing" THEN "error"
    ELSE IF code # NoCode THEN EXIT_STATUS[code + 1]
    ELSE IF line = "blocked" THEN "blocked" ELSE "error"

\* run_scraper_now, its second transaction: apply_result, read_records and
\* persist_records.  What is in records.jsonl goes before what the child reported.
Record ==
    /\ Ended /\ pc' = "recorded"
    /\ LET told == IF line = "outcome" THEN outcome.rows ELSE <<>>
           records == IF file # <<>> THEN file ELSE told
           counted == IF pc = "overdue" THEN 0 ELSE Len(told)
       IN  run' = [status |-> Status, records |-> records,
                   row_count |-> IF counted = 0 THEN Len(records) ELSE counted]
    /\ UNCHANGED <<script, level, context, file, result>>

-----------------------------------------------------------------------------
StepOfScript ==
    \/ PlainStep \/ Goto \/ Extract \/ ExtractList \/ CustomPython \/ Emit
    \/ LoopStart \/ LoopNext
    \/ PaginateStart \/ PaginateEnd \/ Turn \/ TurnFails
    \/ BlockEnds \/ RungPasses

Progress == Load \/ Open \/ OpenFails \/ StepOfScript \/ Judge \/ Exit \/ Record
Next == Progress \/ Timeout \/ CustomPythonExits \/ Killed

Spec == Init /\ [][Next]_vars

\* Engine calls have timeouts, and the event loop and the parent go on.
FairSpec == Spec /\ WF_vars(Progress)

-----------------------------------------------------------------------------
PcState == {"load", "open", "steps", "judge", "told", "exited", "killed", "overdue", "recorded"}
How == Failure \cup {"none", "ok", "script", "timeout", "unhandled"}
TypeOK ==
    /\ script \in Scripts
    /\ pc \in PcState
    /\ level \in 1..Len(rungs)
    /\ \A i \in DOMAIN stack : stack[i].kind \in {"block", "loop", "pages"}
    /\ doc \in [list : BOOLEAN, first : Nat, last : Nat]
    /\ page \in Nat /\ visited \in Nat
    /\ scope \in [Items -> Row \cup {NoRow}]
    /\ named \subseteq Bags /\ bags \in [Bags -> Seq(Row)]
    /\ rows \in Seq(Row) /\ file \in Seq(Row)
    /\ attempts \in Seq(Rung \X (Failure \cup {"ok"}))
    /\ outcome.how \in How /\ outcome.rows \in Seq(Row)
    /\ line \in Line /\ code \in -1..3
    /\ run.status \in {"running", "passed", "validation_failed", "blocked", "error"}
    /\ run.records \in Seq(Row) /\ run.row_count \in Nat

\* What is judged is what one rung found (escalation.py, the StepContext of an
\* attempt): no row of a rung that failed is left in the context of a later one,
\* whatever it had extracted or emitted, in loops or pages.
RowsOfOneRung ==
    /\ \A i \in DOMAIN rows : rows[i][1] = level
    /\ outcome.how = "ok" => \A i \in DOMAIN outcome.rows : outcome.rows[i][1] = level

\* artifacts.append_record: whenever a run is stopped, what it emitted is on disk,
\* in order, and so is every row that was judged.
EmittedIsOnDisk ==
    /\ IsSuffix(rows, file)
    /\ outcome.how = "ok" => IsSuffix(outcome.rows, file)

\* A listing: go to it, extract its rows, follow its control, emit what came together.
IsListing ==
    LET s == script.steps IN
    /\ Len(s) = 4
    /\ s[1].op = "goto" /\ s[2].op = "extract_list" /\ s[3].op = "paginate" /\ s[4].op = "emit"
    /\ s[4].source = s[2].as

\* Pagination by url or by a next link walks the pages in order and takes no row
\* twice, whatever pages are empty and whichever rungs failed before (_paginate,
\* _replay).  (A "load more" takes the rows of the document again at every click.)
ListingInOrder ==
    IsListing /\ (http \/ ~script.steps[3].more) =>
        \A i, j \in DOMAIN rows : i < j => rows[i][3] < rows[j][3]

\* tests/test_runner_e2e.py:159, "the backstop that a runaway `max_pages` cannot
\* exceed": a listing visits no more pages than both caps allow, and a pagination of
\* any script, in loops or behind others that used up the run's cap, turns to no page
\* past the cap.  (A block that visits several pages may pass it by those of one turn.)
VisitsOnce(block) ==
    /\ \A i \in DOMAIN block : block[i].op # "loop"
    /\ \A i, j \in DOMAIN block : block[i].op = "goto" /\ block[j].op = "goto" => i = j
WalkIsCapped ==
    /\ IsListing => visited <= 1 \/ visited <= Lower(script.steps[3].max, script.cap)
    /\ \A i \in DOMAIN stack :
         stack[i].kind = "pages" /\ stack[i].turns > 0 /\ VisitsOnce(stack[i].block) =>
           visited <= script.cap

\* cli.py:150, "Blocked outranks error outranks validation", as the parent takes it over
\* (_status_of: the exit code, else the last line).  A run has a verdict only if its
\* last rung came through and the child ended by itself, whether or not its outcome
\* line arrived, and counts as blocked only if that rung was refused, though the child be
\* killed later; what ended by itself has the status of its outcome.  (But code of the
\* script that ends the process may leave any exit code.)
StatusTellsHow ==
    pc = "recorded" =>
        LET byItself == code # NoCode
            byCode == byItself /\ outcome = NoOutcome
            lastRung(end) == attempts # <<>> /\ Last(attempts)[2] = end
        IN  /\ run.status = "blocked" => byCode \/ lastRung("blocked")
            /\ run.status \in {"passed", "validation_failed"} =>
                 byCode \/ (byItself /\ lastRung("ok"))
            /\ byItself /\ ~byCode =>
                 /\ (run.status = "blocked") = (outcome.how = "blocked")
                 /\ (run.status = "error") = (outcome.how \notin {"ok", "blocked"})

\* Every run comes to an end that is recorded: loops and pages end, the ladder ends,
\* and the parent does not wait for a child that was killed.
RunIsRecorded == <>(pc = "recorded")

-----------------------------------------------------------------------------
(***************************************************************************)
(* What the documentation says and the code does not keep.                 *)
(***************************************************************************)
\* tests/test_runner_e2e.py:94, "assert len(art.read_records()) == len(outcome.rows)": the
\* rows that are stored and delivered with a verdict are those it was given for.
PersistedIsJudged ==
    run.status = "passed" /\ outcome.how = "ok" => run.records = outcome.rows
=============================================================================
