------------------------------ MODULE MCRunner ------------------------------
(***************************************************************************)
(* Instances of Runner for TLC: the scripts.                               *)
(***************************************************************************)
EXTENDS Runner

GotoUrl(url) == [op |-> "goto", url |-> url]
ListInto(b, min) == [op |-> "extract_list", as |-> b, min |-> min]
OneInto(b) == [op |-> "extract", as |-> b]
EmitFrom(source) == [op |-> "emit", source |-> source]
PythonInto(b) == [op |-> "custom_python", as |-> b]
Paginate(max, more, stop) ==
    [op |-> "paginate", max |-> max, more |-> more, stop_when_empty |-> stop]
LoopOver(b, x, steps) == [op |-> "loop", over |-> b, as |-> x, steps |-> steps, max |-> 2]
Other(op) == [op |-> op, optional |-> FALSE]
OptionalClick == [op |-> "click", optional |-> TRUE]

NextLinks(max, stop) ==
    <<GotoUrl("fixed"), ListInto("rows", 1), Paginate(max, FALSE, stop), EmitFrom("rows")>>
UrlDriven(max, stop) ==
    <<GotoUrl("page"), ListInto("rows", 0), Paginate(max, FALSE, stop), EmitFrom("rows")>>
LoadMore == <<GotoUrl("fixed"), ListInto("rows", 0), Paginate(3, TRUE, TRUE), EmitFrom("rows")>>
\* Two listings, under one cap of the run.
TwoListings ==
    <<GotoUrl("fixed"), ListInto("links", 0), Paginate(3, FALSE, FALSE),
      GotoUrl("fixed"), ListInto("rows", 0), Paginate(3, FALSE, FALSE), EmitFrom("rows")>>
\* A listing and the page of each of its rows, with the same variable once more within.
Details ==
    <<GotoUrl("fixed"), ListInto("links", 0), Paginate(2, FALSE, TRUE),
      LoopOver("links", "item",
               <<GotoUrl("item"), OneInto("rows"),
                 LoopOver("links", "item", <<EmitFrom("item")>>), GotoUrl("item")>>),
      EmitFrom("rows"), GotoUrl("item")>>
\* Emits before steps that may fail on one rung and pass on the next.
EmitsEarly ==
    <<GotoUrl("fixed"), Other("wait_for"), ListInto("rows", 0), EmitFrom("rows"),
      OptionalClick, Other("click"), Other("fill"), Other("hover"), Other("still"),
      Other("assert"), PythonInto("links"), EmitFrom("links")>>
Solves == <<GotoUrl("fixed"), Other("solve_challenge"), EmitFrom("rows")>>
Nest[n \in 0..7] == IF n = 0 THEN <<EmitFrom("item")>>
                    ELSE <<LoopOver("links", "item", Nest[n - 1])>>
TooDeep == <<GotoUrl("fixed"), ListInto("links", 1)>> \o Nest[7]

StepLists ==
    {NextLinks(max, stop) : max \in {1, 3, 4}, stop \in BOOLEAN}
    \cup {UrlDriven(max, stop) : max \in {1, 3, 4}, stop \in BOOLEAN}
    \cup {LoadMore, TwoListings, Details, EmitsEarly, Solves, TooDeep}

LoopBodies == {Nest[n] : n \in 0..6} \cup {Details[4].steps, Details[4].steps[3].steps}
AllSteps == UNION {ToSet(steps) : steps \in StepLists \cup LoopBodies}

\* What a script says of engines.
Plans == {<<"auto", <<>>>>, <<"auto", <<"http", "patchright", "patchright+proxy">>>>,
          <<"http", <<"http", "byparr">>>>, <<"playwright", <<"http", "patchright", "camoufox">>>>,
          <<"camoufox", <<"http", "patchright">>>>}

AllScripts == {[steps |-> steps, engine |-> plan[1], escalation |-> plan[2], cap |-> cap] :
                 steps \in StepLists, plan \in Plans, cap \in {0, 1, 2, 4}}
EarlyOnly == {[steps |-> EmitsEarly, engine |-> "auto", escalation |-> <<"http", "patchright">>,
               cap |-> 2]}
=============================================================================
