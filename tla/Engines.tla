------------------------------- MODULE Engines -------------------------------
(***************************************************************************)
(* What an engine holds open and leaves behind: BrowserEngine and          *)
(* HttpEngine (runner/engines/browser.py, http.py), as the runner's ladder *)
(* opens, steps and captures them (runner/escalation.py escalate,          *)
(* _capture), and as an agent's job does (agents/jobs.py open_engine).     *)
(* Module Runner has the ladder and the steps with their outcome; here is  *)
(* what happens to processes and files on the way.                         *)
(***************************************************************************)
EXTENDS Naturals, Sequences

CONSTANT MaxLadder        \* rungs of a ladder

VARIABLES
    user,      \* who drives: the runner up a ladder, or an agent on one rung
    ladder,    \* the rungs: http, a browser, or byparr, which is not implemented
    place,     \* the place on it
    at,        \* what is done next on this rung
    failure,   \* what the rung failed of, or none
    held,      \* what is open: <<place, handle>>
    made,      \* what the rung has made up to now of the evidence of a failure
    kept       \* the files of the run: which rung each is of, 0 for none

engines == <<user, ladder, place, at, failure, held, made, kept>>

Rung == {"http", "browser", "byparr"}
Ladder == UNION {[1..n -> Rung] : n \in 1..MaxLadder}
Evidence == {"page", "trace", "har"}
Over == {"done", "cut"}

here == ladder[place]
Handles == {h[2] : h \in {g \in held : g[1] = place}}
With(handle) == held \cup {<<place, handle>>}

\* close: context, browser and driver, or the session; what a closer raises is
\* suppressed.
OthersOpen == {h \in held : h[1] # place}

\* _retryable; selector stands for a failed validation too.
Retryable(f) ==
    \/ f \in {"blocked", "unavailable", "unsupported"}
    \/ f = "selector" /\ here = "http"

\* What http.py does not do but by raising InteractionUnsupported: it follows an
\* anchor, reads, waits and takes a scroll for done.
Op == {"goto", "query", "wait_for", "scroll", "click", "fill", "select", "hover", "press"}
Unsupported(op, anchor) ==
    \/ op \in {"fill", "select", "hover", "press"}
    \/ op = "click" /\ ~anchor

EnginesInit ==
    /\ user \in {"runner", "agent"}
    /\ ladder \in IF user = "agent" THEN {<<"http">>, <<"browser">>} ELSE Ladder
    /\ place = 1 /\ at = "build" /\ failure = "none"
    /\ held = {} /\ made = {}
    /\ kept = [e \in Evidence |-> 0]

\* Where a failure of open leads: the ladder captures what there is; open_engine has
\* not entered its try and closes nothing.  A cancellation while an engine opens, which
\* passes the handlers of open, is left out.
OpenFails(f, left) ==
    /\ failure' = f /\ held' = left
    /\ at' = IF user = "runner" THEN "capture" ELSE "done"

-----------------------------------------------------------------------------
\* build_engine: byparr raises before there is an engine.
Build ==
    /\ at = "build"
    /\ IF here = "byparr" THEN failure' = "unavailable" /\ at' = "judge"
                          ELSE failure' = "none" /\ at' = "open"
    /\ made' = {}
    /\ UNCHANGED <<user, ladder, place, held, kept>>

\* HttpEngine.open: a package is missing, or there is a session.
OpenSession ==
    /\ at = "open" /\ here = "http"
    /\ \/ at' = "steps" /\ held' = With("session") /\ UNCHANGED failure
       \/ OpenFails("unavailable", held)
    /\ UNCHANGED <<user, ladder, place, made, kept>>

\* BrowserEngine.open up to the driver: package, proxy, then start, which is in no try.
StartDriver ==
    /\ at = "open" /\ here = "browser"
    /\ \/ at' = "launch" /\ held' = With("driver") /\ UNCHANGED failure
       \/ \E f \in {"unavailable", "unexpected"} : OpenFails(f, held)
    /\ UNCHANGED <<user, ladder, place, made, kept>>

\* The preferred channel, if it is not found the bundled browser; any other error, or
\* that of the second, closes the driver.
Launch ==
    /\ at = "launch"
    /\ \/ at' = "context" /\ held' = With("browser") /\ UNCHANGED failure
       \/ OpenFails("unavailable", OthersOpen)
    /\ UNCHANGED <<user, ladder, place, made, kept>>

\* new_context, which begins the HAR, and tracing.start, which may fail in silence; an
\* agent's engine asks for neither.
OpenContext ==
    /\ at = "context"
    /\ \/ /\ at' = "page" /\ held' = With("context") /\ UNCHANGED failure
          /\ made' \in IF user = "agent" THEN {{}} ELSE {{"har"}, {"har", "trace"}}
       \/ OpenFails("unavailable", OthersOpen) /\ UNCHANGED made
    /\ UNCHANGED <<user, ladder, place, kept>>

\* new_page: it too is in no try.
OpenPage ==
    /\ at = "page"
    /\ \/ at' = "steps" /\ made' = made \cup {"page"} /\ UNCHANGED <<held, failure>>
       \/ OpenFails("unexpected", held) /\ UNCHANGED made
    /\ UNCHANGED <<user, ladder, place, kept>>

\* A step of the script, or of the agent, and what may come of it.
StepFails(f) ==
    /\ failure' = f /\ at' = IF user = "runner" THEN "capture" ELSE "close"
    /\ UNCHANGED <<user, ladder, place, held, made, kept>>

Step(op, anchor) ==
    /\ at = "steps"
    /\ IF here = "http" /\ Unsupported(op, anchor) THEN StepFails("unsupported")
       ELSE \E f \in {"blocked", "selector", "step", "unexpected"} : StepFails(f)

\* run_steps returned, or the agent's session ended.
StepsEnd ==
    /\ at = "steps"
    /\ at' = IF user = "runner" THEN "capture" ELSE "close"
    /\ UNCHANGED <<user, ladder, place, failure, held, made, kept>>

\* open_engine, finally.
Close ==
    /\ at = "close"
    /\ at' = "done" /\ held' = OthersOpen
    /\ UNCHANGED <<user, ladder, place, failure, made, kept>>

\* finish: the trace is written if the rung failed; the context writes the HAR as it is
\* closed, which is then kept if the rung failed and else deleted, whichever rung it
\* is of: all write the same file.  An HttpEngine has no finish, and its content is a
\* page even where it fetched none.
AfterFinishKeeping(written) ==  \* a mutation: the HAR of a rung that passed stays
    [page |-> IF here = "http" \/ "page" \in written THEN place ELSE kept["page"],
     trace |-> IF "trace" \in written /\ failure # "none" THEN place ELSE kept["trace"],
     har |-> IF "har" \in written THEN place ELSE kept["har"]]
AfterFinish(written) ==
    [page |-> IF here = "http" \/ "page" \in written THEN place ELSE kept["page"],
     trace |-> IF "trace" \in written /\ failure # "none" THEN place ELSE kept["trace"],
     har |-> IF here = "browser" /\ failure = "none" THEN 0
             ELSE IF "har" \in written THEN place ELSE kept["har"]]

\* _capture.  Reading the page, stopping the trace and closing the context may fail,
\* in silence.  (The screenshot goes the way of the page.)
Capture ==
    /\ at = "capture"
    /\ \E written \in SUBSET made : made' = written /\ kept' = AfterFinish(written)
    /\ at' = "judge" /\ held' = OthersOpen
    /\ UNCHANGED <<user, ladder, place, failure>>

\* escalate: the result of this rung, the next one, or none.
Judge ==
    /\ at = "judge"
    /\ IF failure # "none" /\ place < Len(ladder) /\ Retryable(failure)
         THEN at' = "build" /\ place' = place + 1
         ELSE at' = "done" /\ UNCHANGED place
    /\ UNCHANGED <<user, ladder, failure, held, made, kept>>

\* The wall clock: CancelledError is no Exception, so nothing is captured; what was
\* open ends with the process.
TimeOut ==
    /\ user = "runner" /\ at \notin Over
    /\ at' = "cut" /\ held' = {}
    /\ UNCHANGED <<user, ladder, place, failure, made, kept>>

EnginesNext ==
    \/ Build \/ OpenSession \/ StartDriver \/ Launch \/ OpenContext \/ OpenPage
    \/ \E op \in Op, anchor \in BOOLEAN : Step(op, anchor)
    \/ StepsEnd \/ Close \/ Capture \/ Judge \/ TimeOut

EnginesSpec == EnginesInit /\ [][EnginesNext]_engines

-----------------------------------------------------------------------------
EnginesTypeOK ==
    /\ user \in {"runner", "agent"} /\ ladder \in Ladder /\ place \in 1..Len(ladder)
    /\ at \in {"build", "open", "launch", "context", "page", "steps", "capture", "close",
               "judge"} \cup Over
    /\ failure \in {"none", "blocked", "unavailable", "unsupported", "selector", "step", "unexpected"}
    /\ held \subseteq (1..MaxLadder) \X {"session", "driver", "browser", "context"}
    /\ made \subseteq Evidence
    /\ kept \in [Evidence -> 0..MaxLadder]

\* No rung begins with something of an earlier one open, and in the end nothing is:
\* but for an agent's browser whose first page could not be opened.
NothingLeftOpen ==
    /\ at = "build" => held = {}
    /\ at = "done" =>
           held = {} \/ (user = "agent" /\ Handles = {"driver", "browser", "context"})

\* browser.py:15, "both are started always and thrown away on success": trace and HAR
\* are of rungs that failed, and a run that ends failed has those of the last rung
\* that was captured, and its page.
EvidenceIsOfFailure ==
    /\ \A e \in {"trace", "har"} : kept[e] # 0 => ladder[kept[e]] = "browser"
    /\ at = "done" /\ failure = "none" =>
           kept["trace"] # place /\ kept["har"] # place /\ (here = "browser" => kept["har"] = 0)
    /\ at = "done" /\ failure # "none" /\ user = "runner" => \A e \in made : kept[e] = place

\* A run keeps what explains its failure and nothing else, files and processes.
FailureIsExplained == NothingLeftOpen /\ EvidenceIsOfFailure
=============================================================================
