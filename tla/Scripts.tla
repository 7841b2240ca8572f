------------------------------ MODULE Scripts -------------------------------
(***************************************************************************)
(* Scrape scripts as the agents and the promotion policy see them          *)
(* (dsl/models.py), and how big the change from one to another is          *)
(* (classify_change in agents/repair.py), on which the policy              *)
(* auto_if_minor rests.                                                    *)
(*                                                                         *)
(* A script is its top-level keys (the engine, the thresholds, the schema: *)
(* here one value) and its steps, which form a tree because of loops.  The *)
(* tree is the sequence of its nodes, parents first, with their depth.     *)
(* Of a step, selectors are told apart from everything else; a selector    *)
(* stands for selector and fallback_selectors.                             *)
(***************************************************************************)
EXTENDS Naturals, Sequences, SequencesExt

\* fields: what an extract step extracts, a function from names to fields.
Field(sel, rest) == [sel |-> sel, rest |-> rest]
NoFields == [f \in {} |-> Field("", "")]
Extracting == {"extract", "extract_list"}

\* A tree: a step that is not at the top is one of a loop before it, with nothing but
\* steps of that loop in between.
IsTree(steps) ==
    \A i \in DOMAIN steps : steps[i].depth > 0 =>
        \E j \in 1..(i - 1) :
            /\ steps[j].op = "loop" /\ steps[i].depth = steps[j].depth + 1
            /\ \A k \in (j + 1)..(i - 1) : steps[k].depth > steps[j].depth

\* _walk visits all of them, in this order.
HasOp(script, op) == \E i \in DOMAIN script.steps : script.steps[i].op = op

\* _needs_emit: a script without an emit, anywhere, is refused.
NeedsEmit(script) == script.steps # <<>> /\ HasOp(script, "emit")
HasCustomPython(script) == HasOp(script, "custom_python")

\* field_names: each name once, where it comes first.
FieldNames(script) ==
    UNION {DOMAIN script.steps[i].fields : i \in {j \in DOMAIN script.steps : script.steps[j].op \in Extracting}}

\* contains_custom_python: the gateway looks for such a step anywhere in what is
\* proposed, whether or not it is a script.
ContainsCustomPython(script) == HasCustomPython(script)

-----------------------------------------------------------------------------
(***************************************************************************)
(* classify_change.                                                        *)
(***************************************************************************)
\* A mutation: fields that are gone are not noticed.
FieldsAlikeWhereKept(old, new) ==
    \A f \in DOMAIN old \cap DOMAIN new : old[f].rest = new[f].rest

\* _diff_fields: no name added or removed, and nothing but selectors differs.
FieldsAlike(old, new) ==
    /\ DOMAIN old = DOMAIN new
    /\ \A f \in DOMAIN old : old[f].rest = new[f].rest

\* _diff_step.
StepsAlike(old, new) ==
    /\ old.op = new.op
    /\ old.rest = new.rest
    /\ old.op = "custom_python" => old.sel = new.sel
    /\ FieldsAlike(old.fields, new.fields)

\* _flatten numbers the steps, and then they are compared place by place: how deep
\* a step is, is not compared.
ClassifyChange(old, new) ==
    /\ ~(HasCustomPython(new) /\ ~HasCustomPython(old))
    /\ old.top = new.top
    /\ Len(old.steps) = Len(new.steps)
    /\ \A i \in DOMAIN old.steps : StepsAlike(old.steps[i], new.steps[i])

-----------------------------------------------------------------------------
\* What is left of a step, and of a script, when the selectors are taken out: how the
\* steps nest stays.
Bare(step) ==
    [step EXCEPT !.sel = IF step.op = "custom_python" THEN step.sel ELSE "",
                 !.fields = [f \in DOMAIN step.fields |-> Field("", step.fields[f].rest)]]
Skeleton(script) == [script EXCEPT !.steps = [i \in DOMAIN script.steps |-> Bare(script.steps[i])]]

\* Steps that are deeper in one of the scripts than in the other.
Moved(old, new) ==
    {i \in DOMAIN old.steps \cap DOMAIN new.steps : old.steps[i].depth # new.steps[i].depth}

\* repair.py:7-8 says of a minor change that only selectors differ and that the step list
\* is the same.  What the code keeps is less:
\* - where no step moved into a loop or out of one, minor are exactly the changes of
\*   selectors and of nothing else, anywhere in the tree;
\* - a minor change may also move steps, which changes what a run does as much as any
\*   other edit; but only steps that come after a loop, so that scripts without loops
\*   are compared whole;
\* - moved or not, it neither adds nor drops a field, an emit or unsandboxed code.
MinorIsOfSelectorsOrMoves(old, new) ==
    /\ ClassifyChange(old, new) /\ Moved(old, new) = {} <=> Skeleton(old) = Skeleton(new)
    /\ ClassifyChange(old, new) =>
          /\ \A i \in Moved(old, new) : \E j \in 1..(i - 1) : old.steps[j].op = "loop"
          /\ FieldNames(old) = FieldNames(new)
          /\ NeedsEmit(old) = NeedsEmit(new)
          /\ HasCustomPython(old) = HasCustomPython(new)
=============================================================================
