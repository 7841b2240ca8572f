-------------------------- MODULE PromotionProofs --------------------------
(***************************************************************************)
(* Proofs about Promotion, for any number of repair jobs, decisions and    *)
(* faults: type correctness, and that only scripts that were let through   *)
(* are active or in the file.                                              *)
(***************************************************************************)
EXTENDS Promotion, FiniteSetTheorems, TLAPS

-----------------------------------------------------------------------------
(***************************************************************************)
(* Lemmas about sessions and the helpers.                                  *)
(***************************************************************************)
\* The three kinds of session exclude each other.
LEMMA Kinds ==
    /\ Web \cup Mcp \cup Repairer = Session
    /\ \A s \in Repairer : s \notin Web /\ s \notin Mcp /\ s = <<"job", s[2]>> /\ s[2] \in Job
    /\ \A j \in Job : <<"job", j>> \in Repairer
    /\ \A s \in Web : s \notin Mcp
  BY DEF Web, Mcp, Repairer, Session

\* What a transaction writes over the table has the type of both.
LEMMA MergeType ==
    ASSUME NEW K, NEW T, NEW now \in [K -> T], NEW loaded, NEW want \in [K -> T]
    PROVE  Merge(now, loaded, want) \in [K -> T]
  BY DEF Merge

-----------------------------------------------------------------------------
LEMMA TypeInit == Init => TypeOK
<1> SUFFICES ASSUME Init PROVE TypeOK
  OBVIOUS
<1>1. on \in [Session -> Script]
  BY Kinds DEF Init, Script
<1>2. NothingSeen \in [version : [Version -> VersionStatus], repair : [Job -> RepairStatus]]
  BY DEF NothingSeen, VersionStatus, RepairStatus
<1>3. seen \in [Session -> [version : [Version -> VersionStatus], repair : [Job -> RepairStatus]]]
  BY <1>2 DEF Init
<1>4. faults \in 0..MaxFaults
  BY PromotionAssumption DEF Init
<1> QED
  BY <1>1, <1>3, <1>4 DEF Init, TypeOK, Script, NoScript, VersionStatus, RepairStatus, Policy

\* How a session ends is of their type.
LEMMA EndsType ==
    ASSUME TypeOK, NEW s \in Session, NEW how \in {"done", "failed"}, Ends(s, how)
    PROVE  /\ pc' \in [Session -> {"new", "working", "read", "written", "done", "failed"}]
           /\ seen' \in [Session -> [version : [Version -> VersionStatus], repair : [Job -> RepairStatus]]]
<1>1. NothingSeen \in [version : [Version -> VersionStatus], repair : [Job -> RepairStatus]]
  BY DEF NothingSeen, VersionStatus, RepairStatus
<1>2. pc' \in [Session -> {"new", "working", "read", "written", "done", "failed"}]
  BY DEF Ends, TypeOK
<1>3. seen' = [seen EXCEPT ![s] = NothingSeen]
  BY DEF Ends
<1>4. seen \in [Session -> [version : [Version -> VersionStatus], repair : [Job -> RepairStatus]]]
  BY DEF TypeOK
<1> QED
  BY <1>1, <1>2, <1>3, <1>4

LEMMA TypeStep == TypeOK /\ [Next]_vars => TypeOK'
<1> SUFFICES ASSUME TypeOK, [Next]_vars PROVE TypeOK'
  OBVIOUS
<1> DEFINE Seen == [version : [Version -> VersionStatus], repair : [Job -> RepairStatus]]
<1>s. /\ NothingSeen \in Seen
      /\ Table \in Seen
  BY DEF NothingSeen, Table, TypeOK, VersionStatus, RepairStatus
<1>j. \A j \in Job : <<"job", j>> \in Session
  BY Kinds
<1>1. ASSUME NEW j \in Job, Start(j) PROVE TypeOK'
  BY <1>1 DEF Start, TypeOK, tables, history, Top, Actives
<1>2. ASSUME NEW j \in Job, GiveUp(j) PROVE TypeOK'
  BY <1>2 DEF GiveUp, TypeOK, tables, history
<1>3. ASSUME NEW j \in Job, Propose(j) PROVE TypeOK'
  <2>1. PICK t \in SUBSET Trait : Propose(j)!(t)
    BY <1>3 DEF Propose
  <2>2. seen' \in [Session -> Seen] /\ clash' \in BOOLEAN
    BY <2>1, <1>s, <1>j DEF Read, TypeOK
  <2> QED
    BY <2>1, <2>2, <1>j DEF Read, TypeOK, tables
<1>4. ASSUME NEW j \in Job, Store(j) PROVE TypeOK'
  <2>1. seen' \in [Session -> Seen] /\ pc' \in [Session -> {"new", "working", "read", "written", "done", "failed"}]
    <3>1. Ends(<<"job", j>>, "done") \/ Ends(<<"job", j>>, "failed")
      BY <1>4 DEF Store
    <3> QED
      BY <3>1, <1>j, EndsType
  <2>2. script' \in [Version -> Script \cup {NoScript}]
    BY <1>4 DEF Store, TypeOK, tables, Script
  <2>3. version' \in [Version -> VersionStatus]
    BY <1>4, SMTT(30) DEF Store, TypeOK, tables, VersionStatus
  <2>4. repair' \in [Job -> RepairStatus]
    BY <1>4 DEF Store, TypeOK, tables, RepairStatus
  <2>5. behind' \in BOOLEAN
    BY <1>4 DEF Store, TypeOK
  <2>6. UNCHANGED <<policy, file, traits, op, on, base, asked, clash, faults>>
    BY <1>4 DEF Store
  <2> QED
    BY <2>1, <2>2, <2>3, <2>4, <2>5, <2>6 DEF TypeOK
<1>5. ASSUME NEW s \in Session, NEW j \in Job, McpApprove(s, j) PROVE TypeOK'
  <2>1. seen' \in [Session -> Seen] /\ clash' \in BOOLEAN
    BY <1>5, <1>s DEF McpApprove, Read, TypeOK
  <2> QED
    BY <1>5, <2>1 DEF McpApprove, Read, TypeOK, tables, Script
<1>6. ASSUME NEW s \in Session, NEW j \in Job, NEW o \in {"approve", "reject"}, Decide(s, j, o)
      PROVE  TypeOK'
  <2>1. seen' \in [Session -> Seen] /\ clash' \in BOOLEAN
    BY <1>6, <1>s DEF Decide, Read, TypeOK
  <2> QED
    BY <1>6, <2>1 DEF Decide, Read, TypeOK, tables, Script
<1>7. ASSUME NEW s \in Session, WriteFile(s) PROVE TypeOK'
  BY <1>7 DEF WriteFile, TypeOK, tables, history
<1>8. ASSUME NEW s \in Session, Commit(s) PROVE TypeOK'
  <2> DEFINE old == IF op[s] = "reject" THEN version ELSE seen[s].version
  <2>0. /\ seen[s] \in Seen
        /\ seen[s].repair \in [Job -> RepairStatus]
        /\ old \in [Version -> VersionStatus]
    BY DEF TypeOK
  <2>1. seen' \in [Session -> Seen] /\ pc' \in [Session -> {"new", "working", "read", "written", "done", "failed"}]
    <3>1. Ends(s, "done")
      BY <1>8 DEF Commit
    <3> QED
      BY <3>1, EndsType
  <2>2. version' \in [Version -> VersionStatus]
    <3> DEFINE want == [v \in Version |->
                           IF v \in VersionOf(on[s]) THEN CandidateAfter(op[s])
                           ELSE IF v \in (IF op[s] = "approve" THEN Retired(s, old, VersionOf(on[s])) ELSE {})
                                  THEN "retired" ELSE old[v]]
    <3>1. want \in [Version -> VersionStatus]
      BY <2>0 DEF CandidateAfter, VersionStatus
    <3>2. version' = Merge(version, old, want)
      BY <1>8 DEF Commit
    <3>3. version \in [Version -> VersionStatus]
      BY DEF TypeOK
    <3> HIDE DEF want, old
    <3> QED
      BY <3>1, <3>2, <3>3, MergeType
  <2>3. repair' \in [Job -> RepairStatus]
    <3> DEFINE want == [seen[s].repair EXCEPT ![on[s]] = IF op[s] = "approve" THEN "approved" ELSE "rejected"]
    <3>1. want \in [Job -> RepairStatus]
      BY <2>0 DEF RepairStatus
    <3>2. repair' = Merge(repair, seen[s].repair, want)
      BY <1>8 DEF Commit
    <3>3. repair \in [Job -> RepairStatus]
      BY DEF TypeOK
    <3> HIDE DEF want
    <3> QED
      BY <3>1, <3>2, <3>3, MergeType
  <2>4. behind' \in BOOLEAN
    BY <1>8 DEF Commit, TypeOK
  <2>5. UNCHANGED <<policy, script, file, traits, op, on, base, asked, clash, faults>>
    BY <1>8 DEF Commit
  <2> QED
    BY <2>1, <2>2, <2>3, <2>4, <2>5 DEF TypeOK
<1>9. ASSUME NEW s \in Session, Fail(s) PROVE TypeOK'
  <2>1. seen' \in [Session -> Seen]
    BY <1>9, <1>s DEF Fail, Ends, TypeOK
  <2>2. faults' \in 0..MaxFaults
    BY <1>9, PromotionAssumption DEF Fail, TypeOK
  <2>3. behind' \in BOOLEAN
    BY <1>9 DEF Fail, TypeOK
  <2> QED
    BY <1>9, <2>1, <2>2, <2>3 DEF Fail, Ends, TypeOK, tables
<1>10. CASE UNCHANGED vars
  BY <1>10 DEF TypeOK, vars, tables, session, history
<1> QED
  BY <1>1, <1>2, <1>3, <1>4, <1>5, <1>6, <1>7, <1>8, <1>9, <1>10 DEF Next

\* Every variable keeps its type.
THEOREM TypeCorrect == Spec => []TypeOK
  BY TypeInit, TypeStep, PTL DEF Spec

-----------------------------------------------------------------------------
(***************************************************************************)
(* Only what was let through runs.  What a repair job proposed is settled  *)
(* before anybody can see it, so that LetThrough stays true; and a session *)
(* that may come to activate or write a script is one that may do so.      *)
(***************************************************************************)
\* Nobody sees anything of a job that has not proposed yet.
Unseen ==
    \A j \in Job : pc[<<"job", j>>] \in {"new", "working"} =>
        /\ file # j /\ repair[j] = "none"
        /\ \A v \in Version : script[v] # j

\* A human decides about a repair there is, and an approval is on record.
Humans ==
    \A s \in Web \cup Mcp : Open(s) =>
        /\ on[s] \in Job /\ pc[<<"job", on[s]>>] \notin {"new", "working"}
        /\ op[s] \in {"approve", "reject"}
        /\ op[s] = "approve" => on[s] \in asked

\* A job promotes what the policy lets through.
Repairers ==
    \A j \in Job :
        LET s == <<"job", j>> IN
        /\ on[s] = j
        /\ Open(s) => op[s] \in {"promote", "park"}
        /\ Open(s) /\ op[s] = "promote" => LetThrough(j)

Inv == TypeOK /\ Unseen /\ Humans /\ Repairers /\ OnlyLetThrough

\* What the code lets through by itself is what a reader expects of the policy.
LEMMA PolicyLetsThrough ==
    ASSUME policy \in Policy, NEW j \in Job, MayPromote(policy, traits[j])
    PROVE  LetThrough(j)
  BY DEF MayPromote, LetThrough, Policy

\* As long as nobody takes back an approval, and nothing about a job changes, what
\* was let through stays so.
LEMMA LetThroughStays ==
    ASSUME NEW j \in Job, LetThrough(j), asked \subseteq asked', UNCHANGED policy,
           traits'[j] = traits[j]
    PROVE  LetThrough(j)'
  BY DEF LetThrough

LEMMA InvInit == Init => Inv
<1> SUFFICES ASSUME Init PROVE Inv
  OBVIOUS
<1>1. TypeOK
  BY TypeInit
<1>2. \A s \in Session : pc[s] = "new"
  BY DEF Init
<1>3. Unseen
  BY PromotionAssumption DEF Init, Unseen
<1>4. Humans
  BY <1>2, Kinds DEF Humans, Open
<1>5. Repairers
  BY <1>2, Kinds DEF Init, Repairers, Open
<1>6. OnlyLetThrough
  BY PromotionAssumption DEF Init, OnlyLetThrough
<1> QED
  BY <1>1, <1>3, <1>4, <1>5, <1>6 DEF Inv

LEMMA InvStep == Inv /\ [Next]_vars => Inv'
<1> SUFFICES ASSUME Inv, [Next]_vars PROVE Inv'
  OBVIOUS
<1>t. TypeOK /\ TypeOK'
  BY TypeStep DEF Inv
<1>i. Unseen /\ Humans /\ Repairers /\ OnlyLetThrough
  BY DEF Inv
<1> USE <1>t, <1>i, Kinds DEF Inv
\* A step that touches neither scripts, versions, file, policy nor traits, and
\* takes back no approval, leaves alone what was let through.
<1>u. ASSUME UNCHANGED <<tables, file, policy, traits>>, asked \subseteq asked'
      PROVE  /\ OnlyLetThrough'
             /\ \A j \in Job : LetThrough(j) => LetThrough(j)'
  BY <1>u DEF OnlyLetThrough, LetThrough, tables
<1>1. ASSUME NEW j \in Job, Start(j) PROVE Inv'
  <2>1. Unseen'
    BY <1>1 DEF Start, Unseen, tables, TypeOK
  <2>2. Humans'
    BY <1>1 DEF Start, Humans, Open, tables, history, TypeOK
  <2>3. Repairers'
    BY <1>1, <1>u DEF Start, Repairers, Open, history, TypeOK
  <2> QED
    BY <1>1, <1>u, <2>1, <2>2, <2>3 DEF Start, history
<1>2. ASSUME NEW j \in Job, GiveUp(j) PROVE Inv'
  <2>1. Unseen'
    BY <1>2 DEF GiveUp, Unseen, tables, TypeOK
  <2>2. Humans'
    BY <1>2 DEF GiveUp, Humans, Open, tables, history, TypeOK
  <2>3. Repairers'
    BY <1>2, <1>u DEF GiveUp, Repairers, Open, history, TypeOK
  <2> QED
    BY <1>2, <1>u, <2>1, <2>2, <2>3 DEF GiveUp, history
<1>3. ASSUME NEW j \in Job, Propose(j) PROVE Inv'
  <2> DEFINE s == <<"job", j>>
  <2>1. PICK t \in SUBSET Trait : Propose(j)!(t)
    BY <1>3 DEF Propose
  <2>2. /\ pc[s] = "working" /\ pc' = [pc EXCEPT ![s] = "read"]
        /\ op' = [op EXCEPT ![s] = IF MayPromote(policy, t) THEN "promote" ELSE "park"]
        /\ traits' = [traits EXCEPT ![j] = t]
        /\ UNCHANGED <<policy, script, version, repair, file, on, asked>>
    BY <2>1 DEF Read, tables
  <2>3. s \in Repairer /\ s \in Session
    OBVIOUS
  <2>4. \A i \in Job : i # j => (LetThrough(i) <=> LetThrough(i)')
    BY <2>2 DEF LetThrough, TypeOK
  <2>5. MayPromote(policy, t) => LetThrough(j)'
    BY <2>2 DEF MayPromote, LetThrough, Policy, TypeOK
  <2>6. Unseen'
    BY <2>2 DEF Unseen, TypeOK
  <2>7. Humans'
    BY <2>2, <2>3 DEF Humans, Open, TypeOK
  <2>8. Repairers'
    BY <2>2, <2>3, <2>4, <2>5 DEF Repairers, Open, TypeOK
  <2>9. OnlyLetThrough'
    BY <2>2, <2>4 DEF OnlyLetThrough, Unseen
  <2> QED
    BY <2>6, <2>7, <2>8, <2>9
<1>4. ASSUME NEW j \in Job, Store(j) PROVE Inv'
  <2> DEFINE s == <<"job", j>>
  <2> DEFINE new == base[j] + 1
  <2>1. /\ pc[s] \in {"read", "written"} /\ pc' \in {[pc EXCEPT ![s] = "done"], [pc EXCEPT ![s] = "failed"]}
        /\ UNCHANGED <<policy, file, traits, op, on, asked>>
    BY <1>4 DEF Store, Ends
  <2>2. s \in Repairer /\ s \in Session
    OBVIOUS
  <2>3. \A i \in Job : LetThrough(i) <=> LetThrough(i)'
    BY <2>1 DEF LetThrough
  <2>4. \A i \in Job : pc'[<<"job", i>>] \in {"new", "working"} =>
                         i # j /\ pc[<<"job", i>>] \in {"new", "working"}
    BY <2>1, <2>2 DEF TypeOK
  <2>5. \A v \in Version, i \in Job : script'[v] = i => i = j \/ script[v] = i
    BY <1>4 DEF Store, tables, TypeOK
  <2>6. \A i \in Job : i # j => repair'[i] = repair[i]
    BY <1>4 DEF Store, tables, TypeOK
  <2>7. Unseen'
    BY <2>1, <2>4, <2>5, <2>6 DEF Unseen
  <2>8. Humans'
    BY <2>1, <2>2, ZenonT(30) DEF Humans, Open, TypeOK
  <2>9. Repairers'
    BY <2>1, <2>2, <2>3 DEF Repairers, Open, TypeOK
  <2>10. \A v \in Version : version'[v] = "active" =>
            \/ version[v] = "active" /\ script'[v] = script[v]
            \/ v = new /\ op[s] = "promote" /\ script'[v] = j
    <3>1. CASE script[new] = NoScript
      <4>1. \A v \in Version : script'[v] = IF v = new THEN j ELSE script[v]
        BY <1>4, <3>1 DEF Store, TypeOK
      <4>2. \A v \in Version : version'[v] = "active" =>
               (v = new /\ op[s] = "promote") \/ (v # new /\ version[v] = "active")
        <5> DEFINE gone == IF op[s] = "promote" THEN Retired(s, seen[s].version, {new}) ELSE {}
        <5>1. version' = [v \in Version |->
                 IF v = new THEN (IF op[s] = "promote" THEN "active" ELSE "candidate")
                 ELSE IF v \in gone THEN "retired" ELSE version[v]]
          BY <1>4, <3>1 DEF Store
        <5> HIDE DEF gone
        <5> QED
          BY <5>1
      <4> QED
        BY <4>1, <4>2
    <3>2. CASE script[new] # NoScript
      BY <1>4, <3>2 DEF Store, tables
    <3> QED
      BY <3>1, <3>2
  <2>11. op[s] = "promote" => LetThrough(j)
    BY <2>1 DEF Repairers, Open
  <2>12. OnlyLetThrough'
    BY <2>1, <2>3, <2>10, <2>11, PromotionAssumption DEF OnlyLetThrough
  <2> QED
    BY <2>7, <2>8, <2>9, <2>12
<1>5. ASSUME NEW s \in Session, NEW j \in Job, NEW o \in {"approve", "reject"},
             (McpApprove(s, j) /\ o = "approve") \/ Decide(s, j, o)
      PROVE  Inv'
  <2>1. /\ s \in Web \cup Mcp /\ pc[s] = "new" /\ repair[j] # "none"
        /\ pc' = [pc EXCEPT ![s] = "read"] /\ op' = [op EXCEPT ![s] = o]
        /\ on' = [on EXCEPT ![s] = j]
        /\ asked' = IF o = "approve" THEN asked \cup {j} ELSE asked
        /\ UNCHANGED <<policy, tables, file, traits>>
    BY <1>5 DEF McpApprove, Decide, Read
  <2>2. s \notin Repairer
    BY <2>1
  <2>3. pc[<<"job", j>>] \notin {"new", "working"}
    BY <2>1 DEF Unseen
  <2>4. Unseen'
    BY <2>1, <2>2 DEF Unseen, tables, TypeOK
  <2>5. Humans'
    BY <2>1, <2>2, <2>3 DEF Humans, Open, TypeOK
  <2>6. Repairers'
    <3>1. \A i \in Job : LetThrough(i) => LetThrough(i)'
      BY <2>1, <1>u
    <3>2. ASSUME NEW w \in Repairer
          PROVE  on'[w] = on[w] /\ op'[w] = op[w] /\ pc'[w] = pc[w]
      <4>1. w # s /\ w \in Session
        BY <2>2
      <4> QED
        BY <2>1, <4>1 DEF TypeOK
    <3> QED
      BY <3>1, <3>2 DEF Repairers, Open
  <2> QED
    BY <2>1, <1>u, <2>4, <2>5, <2>6
<1>6. ASSUME NEW s \in Session, WriteFile(s) PROVE Inv'
  <2>1. /\ pc[s] = "read" /\ WritesFile(s) /\ file' = on[s]
        /\ pc' = [pc EXCEPT ![s] = "written"]
        /\ UNCHANGED <<policy, script, version, repair, traits, op, on, asked>>
    BY <1>6 DEF WriteFile, tables, history
  <2>2. on[s] \in Job /\ pc[<<"job", on[s]>>] \notin {"new", "working"} /\ LetThrough(on[s])
    <3>1. CASE s \in Web \cup Mcp
      BY <2>1, <3>1 DEF Humans, Open, WritesFile, LetThrough
    <3>2. CASE s \in Repairer
      BY <2>1, <3>2 DEF Repairers, Open, WritesFile
    <3> QED
      BY <3>1, <3>2
  <2>3. \A i \in Job : LetThrough(i) <=> LetThrough(i)'
    BY <2>1 DEF LetThrough
  <2>4. Unseen'
    BY <2>1, <2>2, ZenonT(30) DEF Unseen, TypeOK
  <2>5. Humans'
    BY <2>1 DEF Humans, Open, TypeOK
  <2>6. Repairers'
    BY <2>1, <2>3 DEF Repairers, Open, TypeOK
  <2>7. OnlyLetThrough'
    BY <2>1, <2>2, <2>3 DEF OnlyLetThrough
  <2> QED
    BY <2>4, <2>5, <2>6, <2>7
<1>7. ASSUME NEW s \in Session, Commit(s) PROVE Inv'
  <2> DEFINE j == on[s]
  <2>1. /\ s \in Web \cup Mcp /\ pc[s] \in {"read", "written"}
        /\ pc' = [pc EXCEPT ![s] = "done"]
        /\ UNCHANGED <<policy, script, file, traits, op, on, asked>>
    BY <1>7 DEF Commit, Ends
  <2>2. s \notin Repairer
    BY <2>1
  <2>3. /\ j \in Job /\ pc[<<"job", j>>] \notin {"new", "working"}
        /\ op[s] \in {"approve", "reject"}
        /\ op[s] = "approve" => LetThrough(j)
    BY <2>1 DEF Humans, Open, LetThrough
  <2>4. \A i \in Job : LetThrough(i) <=> LetThrough(i)'
    BY <2>1 DEF LetThrough
  <2>5. \A i \in Job : i # j => repair'[i] = repair[i]
    BY <1>7 DEF Commit, Merge, TypeOK
  <2>6. \A v \in Version : version'[v] = "active" =>
           version[v] = "active" \/ (v \in VersionOf(j) /\ op[s] = "approve")
    <3> DEFINE old == IF op[s] = "reject" THEN version ELSE seen[s].version
    <3> DEFINE gone == IF op[s] = "approve" THEN Retired(s, old, VersionOf(j)) ELSE {}
    <3> DEFINE want == [v \in Version |-> IF v \in VersionOf(j) THEN CandidateAfter(op[s])
                                          ELSE IF v \in gone THEN "retired" ELSE old[v]]
    <3>1. version' = Merge(version, old, want)
      BY <1>7 DEF Commit
    <3>2. \A v \in Version : version'[v] = IF want[v] # old[v] THEN want[v] ELSE version[v]
      <4> HIDE DEF want, old
      <4> QED
        BY <3>1 DEF Merge, TypeOK
    <3>3. \A v \in Version : want[v] # old[v] /\ want[v] = "active" =>
              v \in VersionOf(j) /\ op[s] # "reject"
      <4> HIDE DEF gone, old
      <4> QED
        BY DEF CandidateAfter
    <3> HIDE DEF want, old, gone
    <3>4. ASSUME NEW v \in Version, version'[v] = "active"
          PROVE  version[v] = "active" \/ (v \in VersionOf(j) /\ op[s] = "approve")
      <4>1. CASE want[v] # old[v]
        BY <3>2, <3>3, <3>4, <4>1, <2>3
      <4>2. CASE want[v] = old[v]
        BY <3>2, <3>4, <4>2
      <4> QED
        BY <4>1, <4>2
    <3> QED
      BY <3>4
  <2>7. Unseen'
    BY <2>1, <2>2, <2>3, <2>5, ZenonT(30) DEF Unseen, TypeOK
  <2>8. Humans'
    BY <2>1, <2>2 DEF Humans, Open, TypeOK
  <2>9. Repairers'
    BY <2>1, <2>2, <2>4 DEF Repairers, Open, TypeOK
  <2>10. OnlyLetThrough'
    BY <2>1, <2>3, <2>4, <2>6 DEF OnlyLetThrough, VersionOf
  <2> QED
    BY <2>7, <2>8, <2>9, <2>10
<1>8. ASSUME NEW s \in Session, Fail(s) PROVE Inv'
  <2>1. /\ pc[s] \notin {"new"} /\ pc' = [pc EXCEPT ![s] = "failed"]
        /\ UNCHANGED <<policy, tables, file, traits, op, on, asked>>
    BY <1>8 DEF Fail, Ends, Open
  <2>2. Unseen'
    BY <2>1 DEF Unseen, tables, TypeOK
  <2>3. Humans'
    BY <2>1 DEF Humans, Open, TypeOK
  <2>4. Repairers'
    BY <2>1, <1>u DEF Repairers, Open, TypeOK
  <2> QED
    BY <2>1, <1>u, <2>2, <2>3, <2>4
<1>9. CASE UNCHANGED vars
  BY <1>9 DEF vars, tables, session, history, Unseen, Humans, Repairers, OnlyLetThrough, LetThrough, Open
<1> QED
  BY <1>1, <1>2, <1>3, <1>4, <1>5, <1>6, <1>7, <1>8, <1>9 DEF Next

\* A script that is active or in the file was approved by a human or is one the
\* policy lets through.
THEOREM OnlyLetThroughRuns == Spec => []OnlyLetThrough
<1>1. Inv => OnlyLetThrough
  BY DEF Inv
<1> QED
  BY <1>1, InvInit, InvStep, PTL DEF Spec

-----------------------------------------------------------------------------
(***************************************************************************)
(* Sessions that do not overlap.  Then one session is open at most, what   *)
(* it read is what the tables still say, and so a promotion retires the    *)
(* one active version there is.                                            *)
(***************************************************************************)
\* A job stores its script once, and only when it ends.
OneVersionEach ==
    \A j \in Job :
        /\ pc[<<"job", j>>] # "done" => \A v \in Version : script[v] # j
        /\ \A v, w \in Version : script[v] = j /\ script[w] = j => v = w

\* Who wrote the file may do so.
WritersMay == \A s \in Session : pc[s] = "written" => WritesFile(s)

OneOpen == ~clash => \A s, t \in Session : Open(s) /\ Open(t) => s = t
SeenIsTable == ~clash => \A s \in Session : Open(s) => seen[s] = Table
FileIsWritten == ~clash => \A s \in Session : pc[s] = "written" => file = on[s]

Apart ==
    /\ OneVersionEach /\ WritersMay
    /\ OneOpen /\ SeenIsTable /\ FileIsWritten
    /\ AtMostOneActive /\ DecisionMatchesVersion /\ FileFollowsTable

LEMMA VersionsAreNumbers == Version \subseteq Nat
  BY PromotionAssumption, FS_CardinalityType DEF Version

\* Where one version is active at most, active_version is that one.
LEMMA TopOfOne ==
    ASSUME NEW vs \in SUBSET Version, \A v, w \in vs : v = w
    PROVE  Top(vs) = vs
<1>1. ASSUME NEW v \in vs, NEW w \in vs PROVE w <= v
  <2>1. v \in Nat /\ w = v
    BY VersionsAreNumbers
  <2> QED
    BY <2>1
<1> QED
  BY <1>1 DEF Top

LEMMA ApartInit == Init => Apart
<1> SUFFICES ASSUME Init PROVE Apart
  OBVIOUS
<1>1. \A s \in Session : pc[s] = "new"
  BY DEF Init
<1>2. \A v \in Version, j \in Job : script[v] # j
  BY PromotionAssumption DEF Init
<1>3. OneVersionEach /\ DecisionMatchesVersion
  BY <1>2 DEF OneVersionEach, DecisionMatchesVersion
<1>4. WritersMay /\ OneOpen /\ SeenIsTable /\ FileIsWritten
  BY <1>1 DEF WritersMay, OneOpen, SeenIsTable, FileIsWritten, Open
<1>5. AtMostOneActive /\ FileFollowsTable
  BY DEF Init, AtMostOneActive, FileFollowsTable, Actives
<1> QED
  BY <1>3, <1>4, <1>5 DEF Apart

\* A session that opens, when none was, sees the tables as they are.
LEMMA ApartRead ==
    ASSUME Inv, Apart, TypeOK', NEW s \in Session, NEW o, Read(s, o), pc[s] \in {"new", "working"},
           UNCHANGED <<tables, file, behind>>,
           s \in Repairer \/ s \in Web \cup Mcp,
           \A w \in Session : w # s => on'[w] = on[w]
    PROVE  Apart'
<1>1. /\ pc' = [pc EXCEPT ![s] = "read"] /\ op' = [op EXCEPT ![s] = o]
      /\ seen' = [seen EXCEPT ![s] = Table]
      /\ clash' = (clash \/ ~NoneOpen)
      /\ UNCHANGED <<script, version, repair, file, behind>>
  BY DEF Read, tables
<1>t. TypeOK
  BY DEF Inv
<1>2. ~Open(s) /\ \A w \in Session : (pc'[w] = "written") <=> (pc[w] = "written")
  BY <1>1, <1>t DEF Open, TypeOK
<1>3. \A w \in Session : w # s => /\ pc'[w] = pc[w] /\ op'[w] = op[w]
                                  /\ seen'[w] = seen[w] /\ on'[w] = on[w]
  BY <1>1, <1>t DEF TypeOK
<1>4. pc'[s] = "read" /\ seen'[s] = Table
  BY <1>1, <1>t DEF TypeOK
<1>5. ~clash' => ~clash /\ \A w \in Session : ~Open(w)
  BY <1>1 DEF NoneOpen
<1>6. OneVersionEach'
  BY <1>1, <1>t, Kinds DEF OneVersionEach, Apart, TypeOK
<1>7. WritersMay'
  BY <1>3, <1>4 DEF WritersMay, Apart, WritesFile
<1>8. OneOpen' /\ SeenIsTable'
  BY <1>1, <1>3, <1>4, <1>5 DEF OneOpen, SeenIsTable, Open, Table
<1>9. FileIsWritten'
  BY <1>1, <1>3, <1>4, <1>5 DEF FileIsWritten, Apart
<1>10. AtMostOneActive' /\ DecisionMatchesVersion'
  BY <1>1, <1>5 DEF AtMostOneActive, DecisionMatchesVersion, Actives, Apart
<1>11. FileFollowsTable'
  BY <1>1, <1>2, <1>5 DEF FileFollowsTable, Actives, Apart
<1> QED
  BY <1>6, <1>7, <1>8, <1>9, <1>10, <1>11 DEF Apart

\* A session that is not open has no part in it.
LEMMA ApartOutside ==
    ASSUME Inv, Apart, NEW s \in Session, NEW how \in {"working", "done", "failed"},
           pc' = [pc EXCEPT ![s] = how], pc[s] # "done",
           UNCHANGED <<tables, file, on, op, clash>>,
           \A w \in Session : w # s => seen'[w] = seen[w],
           behind' = (behind \/ pc[s] = "written")
    PROVE  Apart'
<1>t. TypeOK
  BY DEF Inv
<1>1. ~Open(s)' /\ \A w \in Session : w # s => pc'[w] = pc[w] /\ (Open(w)' <=> Open(w))
  BY <1>t DEF Open, TypeOK
<1>2. UNCHANGED <<script, version, repair>>
  BY DEF tables
<1>3. OneVersionEach'
  BY <1>1, <1>2, Kinds DEF OneVersionEach, Apart
<1>4. WritersMay' /\ FileIsWritten'
  BY <1>1 DEF WritersMay, FileIsWritten, Apart, WritesFile, Open
<1>5. OneOpen' /\ SeenIsTable'
  BY <1>1, <1>2 DEF OneOpen, SeenIsTable, Apart, Table
<1>6. AtMostOneActive' /\ DecisionMatchesVersion'
  BY <1>2 DEF AtMostOneActive, DecisionMatchesVersion, Actives, Apart
<1>7. FileFollowsTable'
  BY <1>1, <1>2 DEF FileFollowsTable, Actives, Apart
<1> QED
  BY <1>3, <1>4, <1>5, <1>6, <1>7 DEF Apart

\* A job stores its candidate, or finds its version taken.
LEMMA ApartStore ==
    ASSUME Inv, Apart, TypeOK', NEW j \in Job, Store(j)
    PROVE  Apart'
<1> DEFINE s == <<"job", j>>
<1> DEFINE new == base[j] + 1
<1> DEFINE gone == IF op[s] = "promote" THEN Retired(s, seen[s].version, {new}) ELSE {}
<1>t. TypeOK
  BY DEF Inv
<1>s. s \in Repairer /\ s \in Session
  BY Kinds
<1>1. CASE script[new] # NoScript
  <2>1. /\ pc' = [pc EXCEPT ![s] = "failed"] /\ pc[s] # "done"
        /\ UNCHANGED <<tables, file, on, op, clash>>
        /\ seen' = [seen EXCEPT ![s] = NothingSeen]
        /\ behind' = (behind \/ pc[s] = "written")
    BY <1>1 DEF Store, Ends
  <2>2. \A w \in Session : w # s => seen'[w] = seen[w]
    BY <2>1, <1>t DEF TypeOK
  <2> HIDE DEF s
  <2> QED
    BY <1>s, <2>1, <2>2, ApartOutside
<1>2. CASE script[new] = NoScript
  <2>1. /\ pc' = [pc EXCEPT ![s] = "done"]
        /\ pc[s] = IF WritesFile(s) THEN "written" ELSE "read"
        /\ script' = [script EXCEPT ![new] = j]
        /\ repair' = [repair EXCEPT ![j] = IF op[s] = "promote" THEN "auto_promoted" ELSE "pending_approval"]
        /\ behind' = (behind /\ op[s] # "promote")
        /\ seen' = [seen EXCEPT ![s] = NothingSeen]
        /\ UNCHANGED <<file, op, on, asked, clash>>
    BY <1>2 DEF Store, Ends
  <2>2. version' = [v \in Version |->
           IF v = new THEN (IF op[s] = "promote" THEN "active" ELSE "candidate")
           ELSE IF v \in gone THEN "retired" ELSE version[v]]
    BY <1>2 DEF Store
  <2> HIDE DEF gone
  <2>3. \A v \in Version :
           /\ script'[v] = IF v = new THEN j ELSE script[v]
           /\ version'[v] = IF v = new THEN (IF op[s] = "promote" THEN "active" ELSE "candidate")
                            ELSE IF v \in gone THEN "retired" ELSE version[v]
    BY <2>1, <2>2, <1>t DEF TypeOK
  <2>4. \A w \in Session : w # s => pc'[w] = pc[w] /\ seen'[w] = seen[w] /\ (Open(w)' <=> Open(w))
    BY <2>1, <1>t DEF TypeOK, Open
  <2>5. pc'[s] = "done" /\ ~Open(s)' /\ Open(s) /\ on[s] = j /\ op[s] \in {"promote", "park"}
    BY <2>1, <1>s, <1>t DEF TypeOK, Open, Inv, Repairers
  <2>6. ~clash => /\ \A w \in Session : ~Open(w)'
                  /\ seen[s] = Table
                  /\ pc[s] = "written" => file = j
    BY <2>4, <2>5, <1>s DEF Apart, OneOpen, SeenIsTable, FileIsWritten
  <2>7. \A v \in Version : script[v] # j
    BY <2>5, <2>1 DEF Apart, OneVersionEach
  \* Where one version was active, it is the one that is retired.
  <2>8. ~clash /\ op[s] = "promote" =>
           \A v \in Version : version[v] = "active" /\ v # new => v \in gone
    <3> SUFFICES ASSUME ~clash, op[s] = "promote" PROVE Actives(version) \ {new} = gone
      BY DEF Actives
    <3>1. seen[s].version = version
      BY <2>6 DEF Table
    <3>2. Top(Actives(version)) = Actives(version)
      BY TopOfOne DEF Apart, AtMostOneActive, Actives
    <3> QED
      BY <3>1, <3>2, <1>s, Kinds DEF gone, Retired
  <2>9. OneVersionEach'
    <3>1. ASSUME NEW i \in Job, pc'[<<"job", i>>] # "done" PROVE \A v \in Version : script'[v] # i
      <4>1. i # j /\ pc[<<"job", i>>] # "done"
        BY <2>4, <2>5, <3>1, Kinds
      <4> QED
        BY <4>1, <2>3 DEF Apart, OneVersionEach
    <3>2. ASSUME NEW i \in Job, NEW v \in Version, NEW w \in Version, script'[v] = i, script'[w] = i
          PROVE  v = w
      BY <3>2, <2>3, <2>7 DEF Apart, OneVersionEach
    <3> QED
      BY <3>1, <3>2 DEF OneVersionEach
  <2>10. WritersMay'
    BY <2>1, <2>4, <2>5 DEF WritersMay, Apart, WritesFile
  <2>11. OneOpen' /\ SeenIsTable' /\ FileIsWritten'
    BY <2>1, <2>6 DEF OneOpen, SeenIsTable, FileIsWritten, Open
  <2>12. AtMostOneActive'
    <3>1. ASSUME ~clash, NEW v \in Version, version'[v] = "active"
          PROVE  IF op[s] = "promote" THEN v = new ELSE version[v] = "active"
      BY <3>1, <2>3, <2>8
    <3> QED
      BY <3>1, <2>1 DEF AtMostOneActive, Actives, Apart
  <2>13. DecisionMatchesVersion'
    <3> SUFFICES ASSUME ~clash, NEW v \in Version, NEW i \in Job, script'[v] = i
                 PROVE  /\ repair'[i] = "pending_approval" => version'[v] = "candidate"
                        /\ repair'[i] = "rejected" => version'[v] = "rejected"
                        /\ repair'[i] \notin {"pending_approval", "rejected"} => version'[v] \in {"active", "retired"}
      BY <2>1 DEF DecisionMatchesVersion
    <3>1. CASE v = new
      <4>1. i = j /\ repair'[i] = IF op[s] = "promote" THEN "auto_promoted" ELSE "pending_approval"
        BY <3>1, <2>1, <2>3, <1>t DEF TypeOK
      <4> QED
        BY <3>1, <4>1, <2>3
    <3>2. CASE v # new
      <4>1. i # j /\ script[v] = i /\ repair'[i] = repair[i]
        BY <3>2, <2>1, <2>3, <2>7, <1>t DEF TypeOK
      <4>2. v \in gone => version[v] = "active"
        <5>1. v \in gone => ~clash /\ v \in Actives(seen[s].version)
          BY <1>s, Kinds DEF gone, Retired, Top
        <5> QED
          BY <5>1, <2>6 DEF Table, Actives
      <4>3. /\ repair[i] = "pending_approval" => version[v] = "candidate"
            /\ repair[i] = "rejected" => version[v] = "rejected"
            /\ repair[i] \notin {"pending_approval", "rejected"} => version[v] \in {"active", "retired"}
        BY <4>1 DEF Apart, DecisionMatchesVersion
      <4>4. version'[v] = IF v \in gone THEN "retired" ELSE version[v]
        BY <3>2, <2>3
      <4> QED
        BY <4>1, <4>2, <4>3, <4>4
    <3> QED
      BY <3>1, <3>2
  <2>14. FileFollowsTable'
    <3> SUFFICES ASSUME ~clash, ~behind', NEW v \in Version, version'[v] = "active"
                 PROVE  file = script'[v]
      BY <2>1 DEF FileFollowsTable, Actives
    <3>1. CASE op[s] = "promote"
      <4>1. pc[s] = "written" /\ v = new
        BY <3>1, <2>1, <2>3, <2>8 DEF WritesFile
      <4> QED
        BY <4>1, <2>3, <2>6
    <3>2. CASE op[s] # "promote"
      <4>1. version[v] = "active" /\ v # new
        BY <3>2, <2>3 DEF gone
      <4>2. \A w \in Session : pc[w] # "written"
        <5>1. pc[s] # "written"
          BY <3>2, <2>1, <2>5 DEF WritesFile
        <5> QED
          BY <5>1, <2>4, <2>6 DEF Open
      <4> QED
        BY <3>2, <4>1, <4>2, <2>1, <2>3 DEF Apart, FileFollowsTable, Actives
    <3> QED
      BY <3>1, <3>2
  <2> QED
    BY <2>9, <2>10, <2>11, <2>12, <2>13, <2>14 DEF Apart
<1> QED
  BY <1>1, <1>2

\* The session that promotes writes the file.
LEMMA ApartWrite ==
    ASSUME Inv, Apart, NEW s \in Session, WriteFile(s)
    PROVE  Apart'
<1>t. TypeOK
  BY DEF Inv
<1>1. /\ pc[s] = "read" /\ WritesFile(s) /\ file' = on[s]
      /\ pc' = [pc EXCEPT ![s] = "written"]
      /\ UNCHANGED <<script, version, repair, op, on, seen, behind, clash>>
  BY DEF WriteFile, tables, history
<1>2. /\ pc'[s] = "written"
      /\ \A w \in Session : w # s => pc'[w] = pc[w]
      /\ \A w \in Session : Open(w)' <=> Open(w)
      /\ Open(s)
  BY <1>1, <1>t DEF TypeOK, Open
<1>3. OneVersionEach'
  BY <1>1, <1>2, Kinds DEF Apart, OneVersionEach
<1>4. WritersMay'
  BY <1>1, <1>2 DEF Apart, WritersMay, WritesFile
<1>5. OneOpen' /\ SeenIsTable'
  BY <1>1, <1>2 DEF Apart, OneOpen, SeenIsTable, Table
<1>6. FileIsWritten'
  BY <1>1, <1>2 DEF Apart, OneOpen, FileIsWritten, Open
<1>7. AtMostOneActive' /\ DecisionMatchesVersion'
  BY <1>1 DEF Apart, AtMostOneActive, DecisionMatchesVersion, Actives
<1>8. FileFollowsTable'
  BY <1>2 DEF FileFollowsTable
<1> QED
  BY <1>3, <1>4, <1>5, <1>6, <1>7, <1>8 DEF Apart

\* What the decision of a human leaves, where no other session was open: one
\* other row of the table at most changes, and that is the version retired.
LEMMA DecisionAlone ==
    ASSUME Inv, Apart, ~clash, NEW s \in Session, Commit(s)
    PROVE  /\ op[s] = "approve" => \A v \in Version :
                /\ v \in VersionOf(on[s]) => version'[v] = "active"
                /\ v \notin VersionOf(on[s]) =>
                     version'[v] = IF version[v] = "active" THEN "retired" ELSE version[v]
           /\ op[s] = "reject" => \A v \in Version :
                version'[v] = IF v \in VersionOf(on[s]) THEN "rejected" ELSE version[v]
           /\ \A i \in Job : repair'[i] =
                IF i # on[s] THEN repair[i] ELSE IF op[s] = "approve" THEN "approved" ELSE "rejected"
<1> DEFINE new == VersionOf(on[s])
<1> DEFINE gone == IF op[s] = "approve" THEN Retired(s, version, new) ELSE {}
<1> DEFINE want == [v \in Version |-> IF v \in new THEN CandidateAfter(op[s])
                                      ELSE IF v \in gone THEN "retired" ELSE version[v]]
<1>t. TypeOK
  BY DEF Inv
<1>1. Open(s) /\ s \in Web \cup Mcp /\ seen[s] = Table
  BY DEF Commit, Open, Apart, SeenIsTable
<1>2. version' = Merge(version, version, want)
  BY <1>1 DEF Commit, Table
<1>3. \A v \in Version : version'[v] = want[v]
  <2> HIDE DEF want
  <2> QED
    BY <1>2, <1>t DEF Merge, TypeOK
<1>4. \A i \in Job : repair'[i] =
         IF i # on[s] THEN repair[i] ELSE IF op[s] = "approve" THEN "approved" ELSE "rejected"
  <2> DEFINE become == [repair EXCEPT ![on[s]] = IF op[s] = "approve" THEN "approved" ELSE "rejected"]
  <2>1. repair' = Merge(repair, repair, become)
    BY <1>1 DEF Commit, Table
  <2>2. \A i \in Job : repair'[i] = become[i]
    <3> HIDE DEF become
    <3> QED
      BY <2>1, <1>t DEF Merge, TypeOK
  <2> QED
    BY <2>2, <1>t DEF TypeOK
<1>5. op[s] = "approve" => gone = Actives(version) \ new
  <2>1. Top(Actives(version)) = Actives(version)
    BY TopOfOne DEF Apart, AtMostOneActive, Actives
  <2> QED
    BY <2>1, <1>1 DEF Retired
<1>6. \A v \in Version : want[v] = IF v \in new THEN CandidateAfter(op[s])
                                   ELSE IF v \in gone THEN "retired" ELSE version[v]
  OBVIOUS
<1>7. op[s] = "approve" => \A v \in Version :
         /\ v \in new => version'[v] = "active"
         /\ v \notin new => version'[v] = IF version[v] = "active" THEN "retired" ELSE version[v]
  <2> HIDE DEF new, gone, want
  <2> QED
    BY <1>3, <1>5, <1>6 DEF CandidateAfter, Actives
<1>8. op[s] = "reject" => \A v \in Version :
         version'[v] = IF v \in new THEN "rejected" ELSE version[v]
  <2>1. op[s] = "reject" => gone = {}
    OBVIOUS
  <2> HIDE DEF new, gone, want
  <2> QED
    BY <1>3, <1>6, <2>1 DEF CandidateAfter
<1> QED
  BY <1>4, <1>7, <1>8

LEMMA ApartCommit ==
    ASSUME Inv, Apart, NEW s \in Session, Commit(s)
    PROVE  Apart'
<1> DEFINE j == on[s]
<1>t. TypeOK
  BY DEF Inv
<1>1. /\ s \in Web \cup Mcp
      /\ pc[s] = IF WritesFile(s) THEN "written" ELSE "read"
      /\ pc' = [pc EXCEPT ![s] = "done"]
      /\ seen' = [seen EXCEPT ![s] = NothingSeen]
      /\ behind' = (s \in Mcp \/ (behind /\ op[s] = "reject"))
      /\ UNCHANGED <<script, file, op, on, clash>>
  BY DEF Commit, Ends
<1>2. s \notin Repairer /\ Open(s) /\ j \in Job /\ op[s] \in {"approve", "reject"}
  BY <1>1, Kinds DEF Open, Inv, Humans
<1>3. /\ ~Open(s)' /\ pc'[s] = "done"
      /\ \A w \in Session : w # s => pc'[w] = pc[w] /\ seen'[w] = seen[w] /\ (Open(w)' <=> Open(w))
  BY <1>1, <1>t DEF TypeOK, Open
<1>4. ~clash => /\ \A w \in Session : ~Open(w)'
                /\ \A w \in Session : w # s => pc[w] # "written"
                /\ pc[s] = "written" => file = j
  BY <1>2, <1>3 DEF Apart, OneOpen, FileIsWritten, Open
<1>5. OneVersionEach'
  <2>1. ASSUME NEW i \in Job PROVE pc'[<<"job", i>>] = pc[<<"job", i>>]
    <3>1. <<"job", i>> # s /\ <<"job", i>> \in Session
      BY <1>2, Kinds
    <3> QED
      BY <3>1, <1>3
  <2> QED
    BY <2>1, <1>1 DEF Apart, OneVersionEach
<1>6. WritersMay'
  BY <1>1, <1>3 DEF Apart, WritersMay, WritesFile
<1>7. OneOpen' /\ SeenIsTable' /\ FileIsWritten'
  BY <1>1, <1>4 DEF OneOpen, SeenIsTable, FileIsWritten, Open
<1>8. AtMostOneActive'
  <2> SUFFICES ASSUME ~clash, NEW v \in Version, NEW w \in Version, version'[v] = "active", version'[w] = "active"
               PROVE  v = w
    BY <1>1 DEF AtMostOneActive, Actives
  <2>1. CASE op[s] = "approve"
    <3>1. v \in VersionOf(j) /\ w \in VersionOf(j)
      BY <2>1, DecisionAlone
    <3> QED
      BY <3>1, <1>2 DEF VersionOf, Apart, OneVersionEach
  <2>2. CASE op[s] = "reject"
    <3>1. version[v] = "active" /\ version[w] = "active"
      BY <2>2, DecisionAlone
    <3> QED
      BY <3>1 DEF Apart, AtMostOneActive, Actives
  <2> QED
    BY <2>1, <2>2, <1>2
<1>9. DecisionMatchesVersion'
  <2> SUFFICES ASSUME ~clash, NEW v \in Version, NEW i \in Job, script[v] = i
               PROVE  /\ repair'[i] = "pending_approval" => version'[v] = "candidate"
                      /\ repair'[i] = "rejected" => version'[v] = "rejected"
                      /\ repair'[i] \notin {"pending_approval", "rejected"} => version'[v] \in {"active", "retired"}
    BY <1>1 DEF DecisionMatchesVersion
  <2>1. CASE i = j
    <3>1. v \in VersionOf(j)
      BY <2>1 DEF VersionOf
    <3> QED
      BY <2>1, <3>1, <1>2, DecisionAlone
  <2>2. CASE i # j
    <3>1. v \notin VersionOf(j)
      BY <2>2 DEF VersionOf
    <3>2. repair'[i] = repair[i]
      BY <2>2, DecisionAlone
    <3>3. version'[v] = version[v] \/ (version[v] = "active" /\ version'[v] = "retired")
      BY <3>1, <1>2, DecisionAlone
    <3>4. /\ repair[i] = "pending_approval" => version[v] = "candidate"
          /\ repair[i] = "rejected" => version[v] = "rejected"
          /\ repair[i] \notin {"pending_approval", "rejected"} => version[v] \in {"active", "retired"}
      BY DEF Apart, DecisionMatchesVersion
    <3> QED
      BY <3>2, <3>3, <3>4
  <2> QED
    BY <2>1, <2>2
<1>10. FileFollowsTable'
  <2> SUFFICES ASSUME ~clash, ~behind', NEW v \in Version, version'[v] = "active"
               PROVE  file = script[v]
    BY <1>1 DEF FileFollowsTable, Actives
  <2>1. CASE op[s] = "approve"
    <3>1. s \in Web /\ pc[s] = "written"
      BY <2>1, <1>1 DEF WritesFile
    <3>2. v \in VersionOf(j)
      BY <2>1, DecisionAlone
    <3> QED
      BY <3>1, <3>2, <1>4 DEF VersionOf
  <2>2. CASE op[s] = "reject"
    <3>1. pc[s] # "written" /\ ~behind
      BY <2>2, <1>1 DEF WritesFile
    <3>2. version[v] = "active"
      BY <2>2, DecisionAlone
    <3> QED
      BY <3>1, <3>2, <1>4 DEF Apart, FileFollowsTable, Actives
  <2> QED
    BY <2>1, <2>2, <1>2
<1> QED
  BY <1>5, <1>6, <1>7, <1>8, <1>9, <1>10 DEF Apart

LEMMA ApartStep == Inv /\ Apart /\ [Next]_vars => Apart'
<1> SUFFICES ASSUME Inv, Apart, [Next]_vars PROVE Apart'
  OBVIOUS
<1>t. TypeOK /\ TypeOK'
  BY TypeStep DEF Inv
<1>j. \A j \in Job : <<"job", j>> \in Session /\ <<"job", j>> \in Repairer
  BY Kinds
<1>1. ASSUME NEW j \in Job, Start(j) PROVE Apart'
  <2>1. /\ pc' = [pc EXCEPT ![<<"job", j>>] = "working"] /\ pc[<<"job", j>>] = "new"
        /\ UNCHANGED <<tables, file, on, op, clash, seen, behind>>
    BY <1>1 DEF Start, history
  <2>2. behind' = (behind \/ pc[<<"job", j>>] = "written")
    BY <2>1, <1>t DEF TypeOK
  <2> QED
    BY <2>1, <2>2, <1>j, ApartOutside
<1>2. ASSUME NEW j \in Job, GiveUp(j) PROVE Apart'
  <2>1. /\ pc' = [pc EXCEPT ![<<"job", j>>] = "done"] /\ pc[<<"job", j>>] = "working"
        /\ UNCHANGED <<tables, file, on, op, clash, seen, behind>>
    BY <1>2 DEF GiveUp, history
  <2>2. behind' = (behind \/ pc[<<"job", j>>] = "written")
    BY <2>1, <1>t DEF TypeOK
  <2> QED
    BY <2>1, <2>2, <1>j, ApartOutside
<1>3. ASSUME NEW j \in Job, Propose(j) PROVE Apart'
  <2>1. PICK t \in SUBSET Trait : Propose(j)!(t)
    BY <1>3 DEF Propose
  <2>2. /\ pc[<<"job", j>>] = "working"
        /\ Read(<<"job", j>>, IF MayPromote(policy, t) THEN "promote" ELSE "park")
        /\ UNCHANGED <<tables, file, behind, on>>
    BY <2>1
  <2> QED
    BY <2>2, <1>j, <1>t, ApartRead
<1>4. ASSUME NEW j \in Job, Store(j) PROVE Apart'
  BY <1>4, <1>t, ApartStore
<1>5. ASSUME NEW s \in Session, NEW j \in Job, NEW o \in {"approve", "reject"},
             (McpApprove(s, j) /\ o = "approve") \/ Decide(s, j, o)
      PROVE  Apart'
  <2>1. /\ pc[s] = "new" /\ Read(s, o) /\ s \in Web \cup Mcp
        /\ on' = [on EXCEPT ![s] = j]
        /\ UNCHANGED <<tables, file, behind>>
    BY <1>5 DEF McpApprove, Decide
  <2>2. \A w \in Session : w # s => on'[w] = on[w]
    BY <2>1, <1>t DEF TypeOK
  <2> QED
    BY <2>1, <2>2, <1>t, ApartRead
<1>6. ASSUME NEW s \in Session, WriteFile(s) PROVE Apart'
  BY <1>6, ApartWrite
<1>7. ASSUME NEW s \in Session, Commit(s) PROVE Apart'
  BY <1>7, ApartCommit
<1>8. ASSUME NEW s \in Session, Fail(s) PROVE Apart'
  <2>1. /\ pc' = [pc EXCEPT ![s] = "failed"] /\ pc[s] # "done"
        /\ UNCHANGED <<tables, file, on, op, clash>>
        /\ seen' = [seen EXCEPT ![s] = NothingSeen]
        /\ behind' = (behind \/ pc[s] = "written")
    BY <1>8 DEF Fail, Ends, Open
  <2>2. \A w \in Session : w # s => seen'[w] = seen[w]
    BY <2>1, <1>t DEF TypeOK
  <2> QED
    BY <2>1, <2>2, ApartOutside
<1>9. CASE UNCHANGED vars
  BY <1>9 DEF vars, tables, session, history, Apart, OneVersionEach, WritersMay, WritesFile, OneOpen,
       SeenIsTable, FileIsWritten, AtMostOneActive, DecisionMatchesVersion, FileFollowsTable,
       Actives, Table, Open
<1> QED
  BY <1>1, <1>2, <1>3, <1>4, <1>5, <1>6, <1>7, <1>8, <1>9 DEF Next

LEMMA AlwaysApart == Spec => [](Inv /\ Apart)
  BY InvInit, InvStep, ApartInit, ApartStep, PTL DEF Spec

\* Where sessions do not overlap, one version is active at most.
THEOREM OneActive == Spec => []AtMostOneActive
<1>1. Apart => AtMostOneActive
  BY DEF Apart
<1> QED
  BY <1>1, AlwaysApart, PTL

\* Where sessions do not overlap, repairs and versions agree.
THEOREM DecisionsMatch == Spec => []DecisionMatchesVersion
<1>1. Apart => DecisionMatchesVersion
  BY DEF Apart
<1> QED
  BY <1>1, AlwaysApart, PTL

\* Where sessions do not overlap and nothing left the file behind, the active
\* version is the script that runs execute.
THEOREM FileFollows == Spec => []FileFollowsTable
<1>1. Apart => FileFollowsTable
  BY DEF Apart
<1> QED
  BY <1>1, AlwaysApart, PTL
=============================================================================
