----------------------------- MODULE Promotion -----------------------------
(***************************************************************************)
(* How a repaired script comes to be the one that runs execute.  A script  *)
(* is stored twice: as a row of script_version, one of which is active,    *)
(* and as the scraper's YAML file, which is what a run executes.           *)
(* Three processes change both, for one scraper:                           *)
(*                                                                         *)
(*   - repair_scraper in the worker: takes the active version as its base, *)
(*     has an agent work for minutes, and stores what came of it as the    *)
(*     next version, promoted at once where the policy lets it;            *)
(*   - the web UI: a human approves or rejects a repair, decided or not;   *)
(*   - the MCP server: a human approves a pending repair.                  *)
(*                                                                         *)
(* Each does so in a database session: it reads, then writes the file,     *)
(* which no rollback undoes, and commits.                                  *)
(***************************************************************************)
EXTENDS Naturals, FiniteSets

CONSTANTS
    Job,          \* repair jobs; each proposes one script
    Base,         \* the script the scraper was built with
    MaxWeb,       \* bound: decisions in the web UI
    MaxMcp,       \* bound: approvals over MCP
    MaxFaults     \* bound: process crashes and failing commits

\* What a version holds that does not exist.
NoScript == "no script"

ASSUME PromotionAssumption ==
    /\ IsFiniteSet(Job) /\ Base \notin Job /\ NoScript \notin Job \cup {Base}
    /\ MaxWeb \in Nat /\ MaxMcp \in Nat /\ MaxFaults \in Nat

VARIABLES
    policy,    \* Scraper.promotion_policy
    script,    \* ScriptVersion.yaml: whose script a version holds
    version,   \* ScriptVersion.status
    file,      \* whose script the YAML file holds
    repair,    \* Repair.status of the row of each job
    traits,    \* what the candidate of a job is like
    pc,        \* where each session is
    op,        \* what it was asked to do
    on,        \* the job whose repair it is about
    seen,      \* the statuses it read
    base,      \* the version a job repairs
    asked,     \* history: the jobs whose repair a human approved
    behind,    \* history: something left the file behind the table
    clash,     \* history: two sessions were open at once
    faults     \* how much of the bound is used

tables == <<script, version, repair>>
session == <<pc, op, on, seen>>
history == <<asked, behind, clash>>
vars == <<policy, tables, file, traits, session, base, history, faults>>

Version == 1..(Cardinality(Job) + 1)
Script == Job \cup {Base}
Policy == {"manual", "auto_if_minor", "auto"}
Trait == {"minor", "python", "gaps"}
VersionStatus == {"none", "candidate", "active", "retired", "rejected"}
RepairStatus == {"none", "pending_approval", "approved", "rejected", "auto_promoted"}

Web == {"web"} \X (1..MaxWeb)
Mcp == {"mcp"} \X (1..MaxMcp)
Repairer == {"job"} \X Job
Session == Web \cup Mcp \cup Repairer

NothingSeen == [version |-> [v \in Version |-> "none"], repair |-> [j \in Job |-> "none"]]
Table == [version |-> version, repair |-> repair]
Open(s) == pc[s] \in {"read", "written"}
NoneOpen == \A s \in Session : ~Open(s)

-----------------------------------------------------------------------------
(***************************************************************************)
(* Helpers, and mutations of them (a mutation is a definition with a bug   *)
(* the code could plausibly have; no specification uses it).               *)
(***************************************************************************)
Actives(st) == {v \in Version : st[v] = "active"}

\* repo.active_version: the highest, or none.
Top(vs) == {v \in vs : \A w \in vs : w <= v}

VersionOf(j) == {v \in Version : script[v] = j}

\* agents.jobs.may_auto_promote, and the capability gaps persist_repair adds.
MayPromoteByPolicy(p, t) ==   \* a mutation: the policy outranks the rule
    /\ p = "auto" \/ (p = "auto_if_minor" /\ "minor" \in t)
    /\ "gaps" \notin t
MayPromote(p, t) ==
    /\ "python" \notin t
    /\ p = "auto" \/ (p = "auto_if_minor" /\ "minor" \in t)
    /\ "gaps" \notin t

\* The other versions a promotion retires: promote_version all that are active,
\* approve_repair over MCP and persist_repair the one active_version returns.
\* (The mutation asks after the candidate was added, which is active itself.)
RetiredTooLate(s, st, new) == IF s \in Repairer THEN {} ELSE Actives(st) \ new
Retired(s, st, new) == (IF s \in Web THEN Actives(st) ELSE Top(Actives(st))) \ new

\* What becomes of the candidate's row.
CandidateLikeRepair(o) == IF o = "reject" THEN "rejected" ELSE "approved"  \* a mutation
CandidateKeptOnReject(o) == IF o = "reject" THEN "candidate" ELSE "active"  \* a mutation
CandidateAfter(o) == IF o = "reject" THEN "rejected" ELSE "active"

\* persist_repair and promote_version write the file, approve_repair over MCP
\* and reject_repair do not.
WritesFileFromWeb(s) == op[s] = "approve" /\ s \in Web  \* a mutation: the web UI only
WritesFile(s) == op[s] = "promote" \/ (op[s] = "approve" /\ s \in Web)

\* The transaction of a session that changed what it read: SQLAlchemy writes the
\* columns that differ from what was loaded, over whatever they are by now.
Merge(now, loaded, want) ==
    [k \in DOMAIN now |-> IF want[k] # loaded[k] THEN want[k] ELSE now[k]]

-----------------------------------------------------------------------------
Init ==
    /\ policy \in Policy
    /\ script = [v \in Version |-> IF v = 1 THEN Base ELSE NoScript]
    /\ version = [v \in Version |-> IF v = 1 THEN "active" ELSE "none"]
    /\ file = Base
    /\ repair = [j \in Job |-> "none"]
    /\ traits = [j \in Job |-> {}]
    /\ pc = [s \in Session |-> "new"]
    /\ op = [s \in Session |-> "none"]
    /\ on = [s \in Session |-> IF s \in Repairer THEN s[2] ELSE Base]
    /\ seen = [s \in Session |-> NothingSeen]
    /\ base = [j \in Job |-> 0]
    /\ asked = {} /\ behind = FALSE /\ clash = FALSE
    /\ faults = 0

Read(s, o) ==
    /\ pc' = [pc EXCEPT ![s] = "read"]
    /\ op' = [op EXCEPT ![s] = o]
    /\ seen' = [seen EXCEPT ![s] = Table]
    /\ clash' = (clash \/ ~NoneOpen)

Ends(s, how) ==
    /\ pc' = [pc EXCEPT ![s] = how]
    /\ seen' = [seen EXCEPT ![s] = NothingSeen]

-----------------------------------------------------------------------------
\* repair_scraper, its first session: the active version is what it repairs.
Start(j) ==
    LET s == <<"job", j>> IN
    /\ pc[s] = "new"
    /\ \E v \in Top(Actives(version)) : base' = [base EXCEPT ![j] = v]
    /\ pc' = [pc EXCEPT ![s] = "working"]
    /\ UNCHANGED <<policy, tables, file, traits, op, on, seen, history, faults>>

\* The agent found no script that ran, or the budget refused it: nothing is stored.
GiveUp(j) ==
    /\ pc[<<"job", j>>] = "working"
    /\ pc' = [pc EXCEPT ![<<"job", j>>] = "done"]
    /\ UNCHANGED <<policy, tables, file, traits, op, on, seen, base, history, faults>>

\* persist_repair up to the decision.
Propose(j) == \E t \in SUBSET Trait :
    LET s == <<"job", j>> IN
    /\ pc[s] = "working"
    /\ traits' = [traits EXCEPT ![j] = t]
    /\ Read(s, IF MayPromote(policy, t) THEN "promote" ELSE "park")
    /\ UNCHANGED <<policy, tables, file, on, base, asked, behind, faults>>

\* persist_repair, the rest: the candidate gets the version after the one it was
\* made from.  If that exists already, the insert breaks the unique constraint,
\* the job raises and nothing of it is stored.
Store(j) ==
    LET s == <<"job", j>>
        new == base[j] + 1
        promote == op[s] = "promote"
        old == seen[s].version
        gone == IF promote THEN Retired(s, old, {new}) ELSE {}
    IN
    /\ IF WritesFile(s) THEN pc[s] = "written" ELSE pc[s] = "read"
    /\ IF script[new] = NoScript
         THEN /\ script' = [script EXCEPT ![new] = j]
              /\ version' = [v \in Version |->
                    IF v = new THEN (IF promote THEN "active" ELSE "candidate")
                    ELSE IF v \in gone THEN "retired" ELSE version[v]]
              /\ repair' = [repair EXCEPT ![j] = IF promote THEN "auto_promoted" ELSE "pending_approval"]
              /\ behind' = (behind /\ ~promote)
              /\ Ends(s, "done")
         ELSE /\ behind' = (behind \/ pc[s] = "written")
              /\ Ends(s, "failed")
              /\ UNCHANGED tables
    /\ UNCHANGED <<policy, file, traits, op, on, base, asked, clash, faults>>

-----------------------------------------------------------------------------
\* actions.approve_repair and reject_repair, of any repair there is.
Decide(s, j, o) ==
    /\ s \in Web /\ pc[s] = "new" /\ repair[j] # "none"
    /\ Read(s, o)
    /\ on' = [on EXCEPT ![s] = j]
    /\ asked' = IF o = "approve" THEN asked \cup {j} ELSE asked
    /\ UNCHANGED <<policy, tables, file, traits, base, behind, faults>>

\* mcp.server.approve_repair, of a pending repair.
McpApprove(s, j) ==
    /\ s \in Mcp /\ pc[s] = "new" /\ repair[j] = "pending_approval"
    /\ Read(s, "approve")
    /\ on' = [on EXCEPT ![s] = j]
    /\ asked' = asked \cup {j}
    /\ UNCHANGED <<policy, tables, file, traits, base, behind, faults>>

\* promote_version and persist_repair write the file before the transaction.  (The
\* event loop lets no other request of the web UI in between, only the other
\* processes; the model does not tell them apart.)
WriteFile(s) ==
    /\ pc[s] = "read" /\ WritesFile(s)
    /\ file' = on[s]
    /\ pc' = [pc EXCEPT ![s] = "written"]
    /\ UNCHANGED <<policy, tables, traits, op, on, seen, base, history, faults>>

\* The request of a human commits.  (reject_repair comes to read the candidate
\* only in its transaction.)
Commit(s) ==
    LET j == on[s]
        new == VersionOf(j)
        old == IF op[s] = "reject" THEN version ELSE seen[s].version
        gone == IF op[s] = "approve" THEN Retired(s, old, new) ELSE {}
    IN
    /\ s \in Web \cup Mcp
    /\ IF WritesFile(s) THEN pc[s] = "written" ELSE pc[s] = "read"
    /\ version' = Merge(version, old,
          [v \in Version |-> IF v \in new THEN CandidateAfter(op[s])
                             ELSE IF v \in gone THEN "retired" ELSE old[v]])
    /\ repair' = Merge(repair, seen[s].repair,
          [seen[s].repair EXCEPT ![j] = IF op[s] = "approve" THEN "approved" ELSE "rejected"])
    /\ behind' = (s \in Mcp \/ (behind /\ op[s] = "reject"))
    /\ Ends(s, "done")
    /\ UNCHANGED <<policy, script, file, traits, op, on, base, asked, clash, faults>>

\* A job, a request or its commit fails, or its process dies.
Fail(s) ==
    /\ Open(s) \/ pc[s] = "working"
    /\ faults < MaxFaults /\ faults' = faults + 1
    /\ behind' = (behind \/ pc[s] = "written")
    /\ Ends(s, "failed")
    /\ UNCHANGED <<policy, tables, file, traits, op, on, base, asked, clash>>

Next ==
    \/ \E j \in Job : Start(j) \/ GiveUp(j) \/ Propose(j) \/ Store(j)
    \/ \E s \in Session, j \in Job :
          McpApprove(s, j) \/ \E o \in {"approve", "reject"} : Decide(s, j, o)
    \/ \E s \in Session : WriteFile(s) \/ Commit(s) \/ Fail(s)

Spec == Init /\ [][Next]_vars

-----------------------------------------------------------------------------
TypeOK ==
    /\ policy \in Policy
    /\ script \in [Version -> Script \cup {NoScript}]
    /\ version \in [Version -> VersionStatus]
    /\ file \in Script
    /\ repair \in [Job -> RepairStatus]
    /\ traits \in [Job -> SUBSET Trait]
    /\ pc \in [Session -> {"new", "working", "read", "written", "done", "failed"}]
    /\ op \in [Session -> {"none", "approve", "reject", "promote", "park"}]
    /\ on \in [Session -> Script]
    /\ seen \in [Session -> [version : [Version -> VersionStatus], repair : [Job -> RepairStatus]]]
    /\ base \in [Job -> {0} \cup Version]
    /\ asked \subseteq Job /\ behind \in BOOLEAN /\ clash \in BOOLEAN
    /\ faults \in 0..MaxFaults

\* No script runs, and none is active, that nobody let through: a human approved
\* it, or the policy promotes such changes by itself, and a script with custom
\* Python or made on an engine that could not read the page only by a human.
\* (README: custom Python always needs human approval.)  So also after crashes
\* between file and table, and however sessions overlap.
LetThrough(j) ==
    \/ j \in asked
    \/ /\ "python" \notin traits[j] /\ "gaps" \notin traits[j]
       /\ policy # "manual"
       /\ policy = "auto_if_minor" => "minor" \in traits[j]
OnlyLetThrough ==
    \A j \in Job :
        \/ file = j
        \/ \E v \in Version : script[v] = j /\ version[v] = "active"
        => LetThrough(j)

\* One version is active at most, as long as no two sessions overlapped; that of
\* a job does not count while its agent works.
AtMostOneActive ==
    ~clash => \A v, w \in Actives(version) : v = w

\* What repair rows and versions say agrees: the version of a pending repair is a
\* candidate, of a rejected one rejected, of any other active or retired since.
DecisionMatchesVersion ==
    ~clash => \A v \in Version, j \in Job : script[v] = j =>
        CASE repair[j] = "pending_approval" -> version[v] = "candidate"
          [] repair[j] = "rejected" -> version[v] = "rejected"
          [] OTHER -> version[v] \in {"active", "retired"}

\* The active version is the one that runs execute (promote_version: table and
\* file must not disagree), as long as no two sessions overlapped.  A commit that
\* fails after the file was written leaves the file behind; the next promotion
\* repairs that.
FileFollowsTable ==
    ~clash /\ ~behind /\ (\A s \in Session : pc[s] # "written") =>
        \A v \in Actives(version) : file = script[v]

\* Approving a repair over MCP puts it where every future run finds it
\* (server.py:661): when such a request committed, the active version is the one
\* in the file.
ApprovedIsExecuted ==
    [][\A s \in Mcp, v \in Version :
         pc[s] # "done" /\ pc'[s] = "done" /\ version'[v] = "active" => file' = script'[v]]_vars
=============================================================================
