---------------------------- MODULE AgentSession ----------------------------
(***************************************************************************)
(* One session of the builder or the repair agent: the model drives the    *)
(* tools of a BrowserToolbox (agents/tools_browser.py) through the gateway *)
(* (agents/gateway.py) until its stream ends, and build or repair          *)
(* (agents/builder.py, agents/repair.py) reads off the toolbox what came   *)
(* of it.                                                                  *)
(*                                                                         *)
(* A proposed script is the place of its proposal.  The tools run one at a *)
(* time; the stream may break at any moment, in the middle of a trial run  *)
(* too, and the trial is then cancelled with it.                           *)
(***************************************************************************)
EXTENDS Naturals, Sequences, SequencesExt

CONSTANTS
    MaxProposals,  \* bound: proposals of one session
    MaxTrialRows        \* bound: rows of a trial run

VARIABLES
    kind,       \* which agent it is: "build" or "repair"
    engine,     \* "http" cannot click, fill or scroll
    proposals,  \* toolbox.proposals
    trialRuns,  \* repair_trial: the status of the Run row of each trial
    justified,  \* repair_trial: state["trial_run_id"], 0 when there is none
    trial,      \* whether a trial run is going on
    captured,   \* toolbox.last_snapshot is set
    gaps,       \* toolbox.capability_gaps
    finished,   \* toolbox.finished
    agent,     \* the agent's stream
    result      \* what build or repair returned

session == <<kind, engine, proposals, trialRuns, justified, trial, captured, gaps,
          finished, agent, result>>
toolbox == <<captured, gaps, finished>>

Interaction == {"click", "fill", "scroll"}
Tools == Interaction \cup {"navigate", "snapshot", "extract_probe", "propose_script", "finish"}

\* valid: the DSL took it.  test: None while and unless a trial has answered.
\* run: the Run row of its trial, which only a repair has.
NoTest == [ok |-> FALSE, rows |-> 0, answered |-> FALSE]
Test == [ok : BOOLEAN, rows : 0..MaxTrialRows, answered : {TRUE}]
Proposal == [valid : BOOLEAN, test : Test \cup {NoTest}, run : Nat]
RunStatus == {"running", "passed", "validation_failed", "error", "blocked"}

NoResult == [ok |-> FALSE, script |-> 0, rows |-> 0, test |-> 0, run |-> 0,
             billed |-> FALSE, fixture |-> FALSE]

-----------------------------------------------------------------------------
(***************************************************************************)
(* What the toolbox answers, and what build and repair make of it.         *)
(***************************************************************************)
\* Proposal.accepted: valid, and its test passed or there is none.
AcceptedProposal(p) == p.valid /\ (p.test.answered => p.test.ok)

\* BrowserToolbox.accepted, the last accepted proposal, or 0.
AcceptedFirst == SelectInSeq(proposals, AcceptedProposal)  \* a mutation: the first one
Accepted == SelectLastInSeq(proposals, AcceptedProposal)

\* BrowserToolbox.last_test: the proposal whose test was the last, or 0.
LastTest == SelectLastInSeq(proposals, LAMBDA p : p.test.answered)

\* build: the result, from the accepted script and the last test.
BuildResult(billed) ==
    IF Accepted = 0 THEN [NoResult EXCEPT !.billed = billed]
    ELSE [ok |-> TRUE, script |-> Accepted, billed |-> billed, run |-> 0,
          rows |-> IF LastTest = 0 THEN 0 ELSE proposals[LastTest].test.rows,
          test |-> LastTest, fixture |-> captured]

\* repair, and what persist_repair is told: the candidate, and the run in state.
RepairResult(billed) ==
    IF Accepted = 0 THEN [NoResult EXCEPT !.billed = billed]
    ELSE [NoResult EXCEPT !.ok = TRUE, !.script = Accepted, !.billed = billed,
                          !.test = LastTest, !.run = justified]

-----------------------------------------------------------------------------
SessionInit ==
    /\ kind \in {"build", "repair"}
    /\ engine \in {"http", "browser"}
    /\ proposals = <<>>
    /\ trialRuns = <<>>
    /\ justified = 0
    /\ trial = FALSE /\ captured = FALSE
    /\ gaps = {}
    /\ finished = FALSE
    /\ agent = "open"
    /\ result = NoResult

\* can_use_tool: what the gateway lets the model call.  allow_custom_python is set
\* nowhere, so no proposal with such a step reaches the toolbox.
CanUseTool(tool, python) == tool \in Tools /\ ~(tool = "propose_script" /\ python)

\* A tool is called.
Calls(tool) == agent = "open" /\ ~trial /\ CanUseTool(tool, FALSE)

\* The snapshot tool; navigate and extract_probe leave nothing that is read later.
Snapshot ==
    /\ Calls("snapshot") /\ ~captured
    /\ captured' = TRUE
    /\ UNCHANGED <<kind, engine, proposals, trialRuns, justified, trial, gaps, finished, agent, result>>

\* click, fill and scroll: on an engine without them, a capability gap.
Interact(op) ==
    /\ Calls(op) /\ engine = "http" /\ op \notin gaps
    /\ gaps' = gaps \cup {op}
    /\ UNCHANGED <<kind, engine, proposals, trialRuns, justified, trial, captured, finished, agent, result>>

\* propose_script with a script the DSL refuses.
ProposeInvalid ==
    /\ Calls("propose_script") /\ Len(proposals) < MaxProposals
    /\ proposals' = Append(proposals, [valid |-> FALSE, test |-> NoTest, run |-> 0])
    /\ UNCHANGED <<kind, engine, trialRuns, justified, trial, toolbox, agent, result>>

\* propose_script up to the trial: a repair's trial begins with a Run row, in a
\* transaction of its own.
Propose ==
    /\ Calls("propose_script") /\ Len(proposals) < MaxProposals
    /\ trialRuns' = IF kind = "repair" THEN Append(trialRuns, "running") ELSE trialRuns
    /\ proposals' = Append(proposals, [valid |-> TRUE, test |-> NoTest, run |-> Len(trialRuns')])
    /\ trial' = TRUE
    /\ UNCHANGED <<kind, engine, justified, toolbox, agent, result>>

\* The proposal whose trial is going on gets its test.
Answer(ok, rows) ==
    /\ trial' = FALSE
    /\ proposals' = [proposals EXCEPT ![Len(proposals)].test =
                        [ok |-> ok, rows |-> rows, answered |-> TRUE]]

\* repair_trial, the second transaction: the outcome, and state["trial_run_id"].
CloseTrialRun(status) ==
    IF kind = "repair"
      THEN /\ trialRuns' = [trialRuns EXCEPT ![Len(trialRuns)] = status]
           /\ justified' = Len(trialRuns)
      ELSE UNCHANGED <<trialRuns, justified>>

\* The trial ran and was judged.
TrialJudged == \E ok \in BOOLEAN, rows \in 0..MaxTrialRows :
    /\ agent = "open" /\ trial
    /\ Answer(ok, rows)
    /\ CloseTrialRun(IF ok THEN "passed" ELSE "validation_failed")
    /\ UNCHANGED <<kind, engine, toolbox, agent, result>>

\* The trial ended in an error or on a block page; a build reports what it had.
TrialFailed == \E status \in {"error", "blocked"}, rows \in 0..MaxTrialRows :
    /\ agent = "open" /\ trial
    /\ kind = "repair" => rows = 0
    /\ Answer(FALSE, rows)
    /\ CloseTrialRun(status)
    /\ UNCHANGED <<kind, engine, toolbox, agent, result>>

\* The trial raises (a browser that is missing, a transaction that fails): the
\* tool catches it, and nothing closes the Run row.
TrialRaises ==
    /\ agent = "open" /\ trial
    /\ Answer(FALSE, 0)
    /\ UNCHANGED <<kind, engine, trialRuns, justified, toolbox, agent, result>>

\* The finish tool: refused while nothing is accepted.
Finish ==
    /\ Calls("finish") /\ Accepted # 0 /\ ~finished
    /\ finished' = TRUE
    /\ UNCHANGED <<kind, engine, proposals, trialRuns, justified, trial, captured, gaps, agent, result>>

\* run_agent after its stream, and build or repair after run_agent, whether or not
\* the agent's result was an error.  Only a result message carries the usage.
Conclude(billed) ==
    result' = IF kind = "build" THEN BuildResult(billed) ELSE RepairResult(billed)

\* The stream ends with a result message (it may be an error: turns, budget) ...
StreamEnds ==
    /\ agent = "open" /\ ~trial
    /\ agent' = "ended"
    /\ Conclude(TRUE)
    /\ UNCHANGED <<kind, engine, proposals, trialRuns, justified, trial, toolbox>>

\* ... or it raises, or stops without one.  A trial that is going on is cancelled:
\* no test, and no end of its Run row.
StreamBreaks ==
    /\ agent = "open"
    /\ agent' = "broken"
    /\ Conclude(FALSE)
    /\ UNCHANGED <<kind, engine, proposals, trialRuns, justified, trial, toolbox>>

SessionNext ==
    \/ Snapshot \/ ProposeInvalid \/ Propose \/ Finish
    \/ \E op \in Interaction : Interact(op)
    \/ TrialJudged \/ TrialFailed \/ TrialRaises
    \/ StreamEnds \/ StreamBreaks

SessionSpec == SessionInit /\ [][SessionNext]_session

-----------------------------------------------------------------------------
SessionTypeOK ==
    /\ kind \in {"build", "repair"} /\ engine \in {"http", "browser"}
    /\ proposals \in Seq(Proposal) /\ Len(proposals) <= MaxProposals
    /\ trialRuns \in Seq(RunStatus) /\ justified \in 0..Len(trialRuns)
    /\ trial \in BOOLEAN /\ captured \in BOOLEAN /\ finished \in BOOLEAN
    /\ gaps \subseteq Interaction
    /\ agent \in {"open", "ended", "broken"}
    /\ result.script \in 0..MaxProposals /\ result.rows \in 0..MaxTrialRows

\* Work is neither lost nor made up.  However the stream ends (out of turns, out of
\* budget, broken), a script that passed its trial comes back, unless a later one
\* does; and the script that comes back had passed a trial, or was in the middle of
\* one when the stream broke.
PassedScriptComesBack ==
    agent # "open" =>
        /\ (\E i \in DOMAIN proposals : proposals[i].test.ok) => result.ok
        /\ result.ok =>
             /\ proposals[result.script].test.ok \/ (trial /\ result.script = Len(proposals))
             /\ \A i \in DOMAIN proposals : proposals[i].test.ok => i <= result.script

\* A trial's Run row is closed by the trial that opened it, unless that trial raised
\* or was cut off; such a row stays "running" and holds its scraper's schedule back.
TrialRowsClosed ==
    \A i \in DOMAIN proposals :
        /\ proposals[i].run > 0 /\ trialRuns[proposals[i].run] = "running"
        => ~proposals[i].test.ok /\ proposals[i].test.rows = 0

(***************************************************************************)
(* What the documentation says and the code does not keep.                 *)
(***************************************************************************)
\* agents/jobs.py:248-249, "The run id of the last trial is kept in `state` so the
\* candidate version and the repair row can both point at the run that justified
\* them": the run a candidate points at tried that candidate.
RunJustifiesCandidate ==
    agent = "ended" /\ result.run > 0 => proposals[result.script].run = result.run
=============================================================================
