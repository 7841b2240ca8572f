----------------------------- MODULE AgentProofs ------------------------------
(***************************************************************************)
(* What is proved of the agents: a session of one (AgentSession), and the  *)
(* jobs that use sessions to build and repair scripts (AgentJobs).         *)
(***************************************************************************)
EXTENDS AgentSession, AgentJobs, SequenceTheorems, FiniteSetTheorems, NaturalsInduction,
        WellFoundedInduction, TLAPS

-----------------------------------------------------------------------------
(***************************************************************************)
(* However the stream of an agent ends, a script that passed its trial     *)
(* comes back, and none that failed one: proved for any number of          *)
(* proposals and of rows.                                                  *)
(*                                                                         *)
(* While the stream is open, a proposal without a test is an invalid one   *)
(* or the one whose trial is going on (TrialIsLast), so that the last      *)
(* accepted proposal is one that passed or one that is being tried.        *)
(***************************************************************************)
AnyTest == [ok : BOOLEAN, rows : Nat, answered : BOOLEAN]
AnyProposal == [valid : BOOLEAN, test : AnyTest, run : Nat]

SessionTypes ==
    /\ proposals \in Seq(AnyProposal) /\ trialRuns \in Seq(RunStatus)
    /\ trial \in BOOLEAN

\* A test that is not there is NoTest; only what is valid is tried.
TestsFit ==
    \A i \in DOMAIN proposals : proposals[i].test.ok => proposals[i].valid /\ proposals[i].test.answered

TrialIsLast ==
    /\ trial => Len(proposals) > 0 /\ proposals[Len(proposals)].valid
                /\ ~proposals[Len(proposals)].test.answered
    /\ \A i \in DOMAIN proposals : proposals[i].valid /\ ~proposals[i].test.answered =>
          trial /\ i = Len(proposals)

\* What build and repair take from the toolbox.
Concluded == result.ok = (Accepted # 0) /\ (result.ok => result.script = Accepted)

SessionInv == SessionTypes /\ TestsFit /\ TrialIsLast /\ (agent # "open" => Concluded)

-----------------------------------------------------------------------------
LEMMA LastPlace ==
    ASSUME NEW n \in Nat, NEW T \in SUBSET (1..n), T # {}
    PROVE  Max(T) \in T /\ \A i \in T : i <= Max(T)
<1> DEFINE D == {n - i : i \in T}
<1>1. D \in SUBSET Nat /\ D # {}
  <2>1. ASSUME NEW i \in T PROVE n - i \in Nat
    <3>1. i \in 1..n
      OBVIOUS
    <3> QED BY <3>1
  <2> QED BY <2>1
<1>2. PICK d \in D : \A e \in D : ~(<<e, d>> \in OpToRel(<, Nat))
  <2> HIDE DEF D
  <2> QED BY <1>1, NatLessThanWellFounded, WFMin
<1>3. \A e \in D : e >= d
  <2>1. \A e \in D : ~(e < d) /\ e \in Nat /\ d \in Nat
    BY <1>1, <1>2 DEF OpToRel
  <2> QED BY <2>1
<1>4. PICK m \in T : d = n - m
  OBVIOUS
<1>5. \A i \in T : i \in Nat /\ i <= m
  <2>1. ASSUME NEW i \in T PROVE i \in Nat /\ i <= m
    <3>1. n - i >= n - m /\ i \in 1..n /\ m \in 1..n
      BY <1>3, <1>4
    <3> QED BY <3>1
  <2> QED BY <2>1
<1>6. \E x \in T : \A y \in T : x >= y
  BY <1>5
<1>7. Max(T) \in T /\ \A y \in T : Max(T) >= y
  BY <1>6 DEF Max
<1> QED BY <1>5, <1>7

\* Proposal.accepted, of the last proposal that is.
LEMMA AcceptedIsLast ==
    ASSUME SessionTypes
    PROVE  LET A == {i \in DOMAIN proposals : AcceptedProposal(proposals[i])} IN
           /\ Accepted # 0 <=> A # {}
           /\ A # {} => Accepted \in A /\ \A i \in A : i <= Accepted
<1> DEFINE A == {i \in DOMAIN proposals : AcceptedProposal(proposals[i])}
           n == Len(proposals)
<1>1. n \in Nat /\ DOMAIN proposals = 1..n
  BY DEF SessionTypes
<1>2. Accepted = IF A # {} THEN Max(A) ELSE 0
  BY <1>1 DEF Accepted, SelectLastInSeq
<1>3. A \in SUBSET (1..n)
  BY <1>1
<1> HIDE DEF A, n
<1>4. A # {} => Max(A) \in A /\ (\A i \in A : i <= Max(A)) /\ Max(A) # 0
  <2>1. A # {} => Max(A) \in A /\ \A i \in A : i <= Max(A)
    BY <1>1, <1>3, LastPlace
  <2>2. \A i \in A : i # 0
    BY <1>1, <1>3
  <2> QED BY <2>1, <2>2
<1> QED BY <1>2, <1>4 DEF A

-----------------------------------------------------------------------------
LEMMA SessionInvInit == SessionInit => SessionInv
<1> SUFFICES ASSUME SessionInit PROVE SessionInv
  OBVIOUS
<1>1. SessionTypes
  <2>1. <<>> \in Seq(AnyProposal) /\ <<>> \in Seq(RunStatus)
    BY EmptySeq
  <2> QED BY <2>1 DEF SessionInit, SessionTypes
<1>2. proposals = <<>> /\ DOMAIN proposals = {} /\ trial = FALSE /\ agent = "open"
  BY DEF SessionInit
<1> QED BY <1>1, <1>2 DEF SessionInv, TestsFit, TrialIsLast

\* The stream stays open, and no proposal is added or tested.
LEMMA ToolKeeps ==
    ASSUME SessionInv, agent = "open", UNCHANGED <<proposals, trialRuns, trial, agent>>
    PROVE  SessionInv'
  BY DEF SessionInv, SessionTypes, TestsFit, TrialIsLast

LEMMA ProposeKeeps ==
    ASSUME SessionInv, agent = "open", agent' = agent, ~trial,
           NEW p \in AnyProposal, ~p.test.ok, ~p.test.answered,
           proposals' = Append(proposals, p), trialRuns' \in Seq(RunStatus), trial' = p.valid
    PROVE  SessionInv'
<1> DEFINE n == Len(proposals)
<1>1. proposals \in Seq(AnyProposal) /\ n \in Nat /\ DOMAIN proposals = 1..n
  BY DEF SessionInv, SessionTypes
<1>2. /\ proposals' \in Seq(AnyProposal) /\ Len(proposals') = n + 1
      /\ \A i \in 1..n : proposals'[i] = proposals[i]
      /\ proposals'[n + 1] = p
  BY <1>1, AppendProperties
<1>3. DOMAIN proposals' = 1..(n + 1) /\ \A i \in 1..(n + 1) : i \in 1..n \/ i = n + 1
  BY <1>1, <1>2
<1>4. p.valid \in BOOLEAN
  BY DEF AnyProposal
<1>5. SessionTypes'
  BY <1>2, <1>4 DEF SessionTypes
<1>6. TestsFit'
  BY <1>1, <1>2, <1>3 DEF SessionInv, TestsFit
<1>7. TrialIsLast'
  BY <1>1, <1>2, <1>3 DEF SessionInv, TrialIsLast
<1> QED BY <1>5, <1>6, <1>7 DEF SessionInv

LEMMA AnswerKeeps ==
    ASSUME SessionInv, agent = "open", agent' = agent, trial, NEW ok \in BOOLEAN, NEW rows \in Nat,
           Answer(ok, rows), trialRuns' \in Seq(RunStatus)
    PROVE  SessionInv'
<1> DEFINE n == Len(proposals)
           test == [ok |-> ok, rows |-> rows, answered |-> TRUE]
           p == [proposals[n] EXCEPT !.test = test]
<1>1. /\ proposals \in Seq(AnyProposal) /\ n \in Nat /\ DOMAIN proposals = 1..n /\ n > 0
      /\ proposals[n].valid
  BY DEF SessionInv, SessionTypes, TrialIsLast
<1>2. proposals[n] \in AnyProposal
  BY <1>1
<1>3. test \in AnyTest /\ test.answered /\ test.ok = ok
  BY DEF AnyTest
<1> HIDE DEF test
<1>4. p \in AnyProposal /\ p.valid = proposals[n].valid /\ p.test = test
  BY <1>2, <1>3 DEF AnyProposal
<1>5. proposals' = [proposals EXCEPT ![n] = p] /\ trial' = FALSE
  BY DEF Answer, test
<1> HIDE DEF p
<1>6. proposals' \in Seq(AnyProposal) /\ Len(proposals') = n
  BY <1>1, <1>4, <1>5, ExceptSeq
<1>7. DOMAIN proposals' = 1..n /\ \A i \in 1..n : proposals'[i] = IF i = n THEN p ELSE proposals[i]
  BY <1>1, <1>5
<1>8. SessionTypes'
  BY <1>5, <1>6 DEF SessionTypes
<1>9. TestsFit'
  BY <1>1, <1>3, <1>4, <1>7 DEF SessionInv, TestsFit
<1>10. TrialIsLast'
  BY <1>1, <1>3, <1>4, <1>5, <1>7 DEF SessionInv, TrialIsLast
<1> QED BY <1>8, <1>9, <1>10 DEF SessionInv

LEMMA RunCloses ==
    ASSUME SessionTypes, NEW status \in RunStatus, CloseTrialRun(status)
    PROVE  trialRuns' \in Seq(RunStatus)
<1>1. CASE kind = "repair"
  <2> DEFINE n == Len(trialRuns)
  <2>1. trialRuns' = [trialRuns EXCEPT ![n] = status]
    BY <1>1 DEF CloseTrialRun
  <2>2. n \in Nat /\ trialRuns \in [1..n -> RunStatus]
    BY DEF SessionTypes
  <2> HIDE DEF n
  <2>3. trialRuns' \in [1..n -> RunStatus]
    BY <2>1, <2>2
  <2> QED BY <2>2, <2>3
<1>2. CASE kind # "repair"
  BY <1>2 DEF CloseTrialRun, SessionTypes
<1> QED BY <1>1, <1>2

\* The stream is over: what comes back is what is accepted then.
LEMMA ConcludeKeeps ==
    ASSUME SessionInv, NEW billed \in BOOLEAN, Conclude(billed), agent' # "open",
           UNCHANGED <<proposals, trialRuns, trial>>
    PROVE  SessionInv'
<1>1. Accepted' = Accepted
  BY DEF Accepted, AcceptedProposal, SelectLastInSeq
<1>2. Concluded'
  <2>1. CASE Accepted = 0
    <3>1. result' = [NoResult EXCEPT !.billed = billed]
      BY <2>1 DEF Conclude, BuildResult, RepairResult
    <3>2. result'.ok = FALSE
      BY <3>1 DEF NoResult
    <3> QED BY <1>1, <2>1, <3>2 DEF Concluded
  <2>2. CASE Accepted # 0
    <3> DEFINE a == Accepted
    <3>1. result'.ok = TRUE /\ result'.script = a
      <4>1. CASE kind = "build"
        BY <2>2, <4>1 DEF Conclude, BuildResult
      <4>2. CASE kind # "build"
        <5>1. result' = [NoResult EXCEPT !.ok = TRUE, !.script = Accepted, !.billed = billed,
                                         !.test = LastTest, !.run = justified]
          BY <2>2, <4>2 DEF Conclude, RepairResult
        <5> QED BY <5>1 DEF NoResult
      <4> QED BY <4>1, <4>2
    <3> QED BY <1>1, <2>2, <3>1 DEF Concluded
  <2> QED BY <2>1, <2>2
<1>3. SessionTypes' /\ TestsFit' /\ TrialIsLast'
  BY DEF SessionInv, SessionTypes, TestsFit, TrialIsLast
<1> QED BY <1>2, <1>3 DEF SessionInv

LEMMA SessionInvNext == MaxTrialRows \in Nat /\ SessionInv /\ [SessionNext]_session => SessionInv'
<1> SUFFICES ASSUME MaxTrialRows \in Nat, SessionInv, [SessionNext]_session PROVE SessionInv'
  OBVIOUS
<1>1. CASE Snapshot
  BY <1>1, ToolKeeps DEF Snapshot, Calls
<1>2. ASSUME NEW op \in Interaction, Interact(op) PROVE SessionInv'
  BY <1>2, ToolKeeps DEF Interact, Calls
<1>3. CASE Finish
  BY <1>3, ToolKeeps DEF Finish, Calls
<1>4. NoTest \in AnyTest /\ ~NoTest.ok /\ ~NoTest.answered
  BY DEF NoTest, AnyTest
<1>5. CASE ProposeInvalid
  <2> DEFINE p == [valid |-> FALSE, test |-> NoTest, run |-> 0]
  <2>1. p \in AnyProposal /\ p.test = NoTest /\ p.valid = FALSE
    BY <1>4 DEF AnyProposal
  <2>2. agent = "open" /\ agent' = agent /\ ~trial /\ proposals' = Append(proposals, p)
        /\ trialRuns' = trialRuns /\ trial' = trial
    BY <1>5 DEF ProposeInvalid, Calls
  <2> HIDE DEF p
  <2>3. trialRuns' \in Seq(RunStatus) /\ trial' = p.valid
    BY <2>1, <2>2 DEF SessionInv, SessionTypes
  <2> QED BY <1>4, <2>1, <2>2, <2>3, ProposeKeeps
<1>6. CASE Propose
  <2> DEFINE run == Len(trialRuns')
             p == [valid |-> TRUE, test |-> NoTest, run |-> run]
  <2>1. trialRuns' \in Seq(RunStatus)
    <3>1. trialRuns \in Seq(RunStatus) /\ "running" \in RunStatus
      BY DEF SessionInv, SessionTypes, RunStatus
    <3>2. Append(trialRuns, "running") \in Seq(RunStatus)
      BY <3>1, AppendProperties
    <3> QED BY <1>6, <3>1, <3>2 DEF Propose
  <2>2. run \in Nat
    BY <2>1
  <2>3. agent = "open" /\ agent' = agent /\ ~trial /\ proposals' = Append(proposals, p) /\ trial' = TRUE
    BY <1>6 DEF Propose, Calls
  <2> HIDE DEF run
  <2>4. p \in AnyProposal /\ p.test = NoTest /\ p.valid = TRUE
    BY <1>4, <2>2 DEF AnyProposal
  <2> HIDE DEF p
  <2>5. trial' = p.valid
    BY <2>3, <2>4
  <2> QED BY <1>4, <2>1, <2>3, <2>4, <2>5, ProposeKeeps
<1>7. CASE TrialJudged
  <2>1. PICK ok \in BOOLEAN, rows \in 0..MaxTrialRows :
            /\ agent = "open" /\ trial /\ Answer(ok, rows) /\ agent' = agent
            /\ CloseTrialRun(IF ok THEN "passed" ELSE "validation_failed")
    BY <1>7 DEF TrialJudged
  <2>2. (IF ok THEN "passed" ELSE "validation_failed") \in RunStatus
    BY DEF RunStatus
  <2>3. trialRuns' \in Seq(RunStatus) /\ rows \in Nat
    BY <2>1, <2>2, RunCloses DEF SessionInv
  <2> QED BY <2>1, <2>3, AnswerKeeps
<1>8. CASE TrialFailed
  <2>1. PICK status \in {"error", "blocked"}, rows \in 0..MaxTrialRows :
            /\ agent = "open" /\ trial /\ Answer(FALSE, rows) /\ agent' = agent
            /\ CloseTrialRun(status)
    BY <1>8 DEF TrialFailed
  <2>2. status \in RunStatus
    BY DEF RunStatus
  <2>3. trialRuns' \in Seq(RunStatus) /\ rows \in Nat
    BY <2>1, <2>2, RunCloses DEF SessionInv
  <2> QED BY <2>1, <2>3, AnswerKeeps
<1>9. CASE TrialRaises
  <2>1. agent = "open" /\ trial /\ Answer(FALSE, 0) /\ agent' = agent /\ trialRuns' \in Seq(RunStatus)
    BY <1>9 DEF TrialRaises, SessionInv, SessionTypes
  <2> QED BY <2>1, AnswerKeeps
<1>10. CASE StreamEnds \/ StreamBreaks
  <2>1. PICK billed \in BOOLEAN : Conclude(billed)
    BY <1>10 DEF StreamEnds, StreamBreaks
  <2>2. agent' # "open" /\ UNCHANGED <<proposals, trialRuns, trial>>
    BY <1>10 DEF StreamEnds, StreamBreaks
  <2> QED BY <2>1, <2>2, ConcludeKeeps
<1>11. CASE UNCHANGED session
  <2>1. Accepted' = Accepted
    BY <1>11 DEF session, Accepted, AcceptedProposal, SelectLastInSeq
  <2> QED BY <1>11, <2>1 DEF session, SessionInv, SessionTypes, TestsFit, TrialIsLast, Concluded
<1> QED BY <1>1, <1>2, <1>3, <1>5, <1>6, <1>7, <1>8, <1>9, <1>10, <1>11 DEF SessionNext

LEMMA SessionInvImplies == SessionInv => PassedScriptComesBack
<1> SUFFICES ASSUME SessionInv, agent # "open"
             PROVE  /\ (\E i \in DOMAIN proposals : proposals[i].test.ok) => result.ok
                    /\ result.ok =>
                         /\ proposals[result.script].test.ok \/ (trial /\ result.script = Len(proposals))
                         /\ \A i \in DOMAIN proposals : proposals[i].test.ok => i <= result.script
  BY DEF PassedScriptComesBack
<1> DEFINE A == {i \in DOMAIN proposals : AcceptedProposal(proposals[i])}
<1>1. /\ Accepted # 0 <=> A # {}
      /\ A # {} => Accepted \in A /\ \A i \in A : i <= Accepted
  BY AcceptedIsLast DEF SessionInv
<1>2. result.ok = (Accepted # 0) /\ (result.ok => result.script = Accepted)
  BY DEF SessionInv, Concluded
<1>3. \A i \in DOMAIN proposals : proposals[i].test.ok => i \in A
  BY DEF SessionInv, TestsFit, AcceptedProposal
<1>4. ASSUME NEW i \in A
      PROVE  proposals[i].test.ok \/ (trial /\ i = Len(proposals))
  BY DEF SessionInv, TrialIsLast, AcceptedProposal
<1> HIDE DEF A
<1> QED BY <1>1, <1>2, <1>3, <1>4

-----------------------------------------------------------------------------
\* agents/tools_browser.py, builder.py and repair.py: whatever ends a session, a script
\* that passed its trial comes back unless a later one does, and what comes back passed
\* its trial or was being tried as the stream broke.
THEOREM PassedScriptIsReturned == MaxTrialRows \in Nat => (SessionSpec => []PassedScriptComesBack)
<1> SUFFICES ASSUME MaxTrialRows \in Nat PROVE SessionSpec => []PassedScriptComesBack
  OBVIOUS
<1>1. SessionInv /\ [SessionNext]_session => SessionInv'
  BY SessionInvNext
<1>2. SessionInit => SessionInv
  BY SessionInvInit
<1>3. SessionInv => PassedScriptComesBack
  BY SessionInvImplies
<1> QED BY <1>1, <1>2, <1>3, PTL DEF SessionSpec

-----------------------------------------------------------------------------
(***************************************************************************)
(* The script file is that of the active version, but for names two jobs   *)
(* found free at once and promotions that changed only one of the two:     *)
(* proved for any builds, repairs, imports and decisions, of any scrapers, *)
(* in any order, with any of them dying at any point.                      *)
(*                                                                         *)
(* A job claims a name from the moment it found it free until its rows     *)
(* are there.  While a name that was not raced for is claimed, it has one  *)
(* claimant and no versions (OneClaim), so that nobody else writes its     *)
(* file; and a claimant about to insert has written it (FileOfClaim).      *)
(* Repairs and decisions presuppose versions, which never go away.  A      *)
(* repair between its file and its rows finds the file as it wrote it      *)
(* (FileOfPromotion), so that there is one at most.                        *)
(***************************************************************************)
JobTypes ==
    /\ pc \in [Job -> Point] /\ of \in [Job -> Name]
    /\ versions \in [Name -> [Version -> VersionStatus]]
    /\ author \in [Name -> [Version -> Job \cup {Nobody}]]
    /\ file \in [Name -> Job \cup {Nobody}]
    /\ raced \subseteq Name /\ torn \subseteq Name

OneActive ==
    \A n \in Name : \A u, v \in Version :
        versions[n][u] = "active" /\ versions[n][v] = "active" => u = v

OneClaim ==
    \A i \in Job : Claims(i) /\ of[i] \notin raced =>
        /\ ~Exists(of[i])
        /\ \A j \in Job : Claims(j) /\ of[j] = of[i] => j = i

FileOfClaim ==
    \A i \in Job : Claims(i) /\ pc[i] = "insert" /\ of[i] \notin raced => file[of[i]] = i

RepairsHaveVersions ==
    \A j \in Repairs : pc[j] \in {"budget", "session", "persist", "promote"} => Exists(of[j])

FileOfPromotion ==
    \A j \in Repairs : pc[j] = "promote" /\ of[j] \notin raced \cup torn => file[of[j]] = j

JobInv ==
    /\ JobTypes /\ OneActive /\ OneClaim /\ FileOfClaim /\ RepairsHaveVersions
    /\ FileOfPromotion /\ FileIsActiveScript

-----------------------------------------------------------------------------
LEMMA KindsApart == \A j \in Builds \cup Imports : j \notin Repairs
  BY JobsAssumption

LEMMA JobInvInit == Init => JobInv
<1> SUFFICES ASSUME Init PROVE JobInv
  OBVIOUS
<1>1. JobTypes
  <2>1. pc \in [Job -> Point] /\ of \in [Job -> Name]
    BY DEF Init, Point
  <2>2. ASSUME NEW n \in Name PROVE versions[n] \in [Version -> VersionStatus]
    BY DEF Init, VersionStatus
  <2>3. versions \in [Name -> [Version -> VersionStatus]]
    <3>1. versions = [n \in Name |-> versions[n]]
      BY DEF Init
    <3> QED BY <2>2, <3>1
  <2>4. author \in [Name -> [Version -> Job \cup {Nobody}]] /\ file \in [Name -> Job \cup {Nobody}]
    BY DEF Init
  <2> QED BY <2>1, <2>3, <2>4 DEF Init, JobTypes
<1>2. OneActive
  <2>1. ASSUME NEW n \in Name, NEW v \in Version, versions[n][v] = "active" PROVE v = 1
    BY <2>1 DEF Init
  <2> QED BY <2>1 DEF OneActive
<1>3. \A j \in Job : pc[j] = "new"
  BY DEF Init
<1>4. OneClaim /\ FileOfClaim /\ RepairsHaveVersions /\ FileOfPromotion
  BY <1>3 DEF OneClaim, FileOfClaim, RepairsHaveVersions, FileOfPromotion, Claims, Job
<1>5. FileIsActiveScript
  BY DEF Init, FileIsActiveScript, ActiveVersions
<1> QED BY <1>1, <1>2, <1>4, <1>5 DEF JobInv

-----------------------------------------------------------------------------
(***************************************************************************)
(* What the steps of jobs have in common.                                  *)
(***************************************************************************)
\* A job goes on, claims nothing it did not claim, and no row or file changes.  If it
\* was promoting a candidate, file and table are torn.
LEMMA GoesOn ==
    ASSUME JobInv, NEW j \in Job, NEW to \in Point, Goto(j, to),
           UNCHANGED <<of, versions, author, file, raced>>,
           torn' = torn \/ torn' = torn \cup {of[j]},
           pc[j] = "promote" => of[j] \in torn', to # "promote",
           j \notin Repairs /\ to \in {"open", "session", "save", "insert"} =>
              Claims(j) /\ (to = "insert" => pc[j] = "insert"),
           j \in Repairs /\ to \in {"budget", "session", "persist"} => Exists(of[j])
    PROVE  JobInv'
<1>1. JobTypes /\ pc' = [pc EXCEPT ![j] = to] /\ of[j] \in Name
  BY DEF JobInv, Goto, JobTypes
<1>2. JobTypes'
  BY <1>1 DEF JobTypes
<1>3. \A i \in Job : pc'[i] = IF i = j THEN to ELSE pc[i]
  BY <1>1 DEF JobTypes
<1>4. \A i \in Job : /\ Claims(i)' => Claims(i)
                     /\ Claims(i)' /\ pc'[i] = "insert" => pc[i] = "insert"
  BY <1>3 DEF Claims
<1>5. \A n : Exists(n)' <=> Exists(n)
  BY DEF Exists
<1>6. OneActive'
  BY DEF JobInv, OneActive
<1>7. OneClaim'
  BY <1>4, <1>5 DEF JobInv, OneClaim
<1>8. FileOfClaim'
  BY <1>4 DEF JobInv, FileOfClaim
<1>9. RepairsHaveVersions'
  BY <1>3, <1>5 DEF JobInv, RepairsHaveVersions, Job
<1>10. torn \subseteq torn' /\ \A i \in Repairs : pc[i] = "promote" => pc'[i] = "promote" \/ of[i] \in torn'
  BY <1>3 DEF Job
<1>11. FileOfPromotion'
  BY <1>3, <1>10 DEF JobInv, FileOfPromotion, Job
<1>12. FileIsActiveScript'
  <2> SUFFICES ASSUME NEW n \in Name \ (raced \cup torn'), Promoting(n)' = {},
                      NEW v \in ActiveVersions(n), author[n][v] # Nobody
               PROVE  file[n] = author[n][v]
    BY DEF FileIsActiveScript, ActiveVersions
  <2>1. Promoting(n) = {}
    BY <1>10 DEF Promoting
  <2> QED BY <1>10, <2>1 DEF JobInv, FileIsActiveScript
<1> QED BY <1>2, <1>6, <1>7, <1>8, <1>9, <1>11, <1>12 DEF JobInv

\* A job finds a name free and claims it; if it is to insert next it has written the
\* file.  When somebody claims the name already, it is raced for from now on.
LEMMA ClaimsName ==
    ASSUME JobInv, NEW j \in Job, j \notin Repairs, NEW to \in {"open", "insert"}, Goto(j, to),
           ~Exists(of[j]), ~Claims(j),
           raced' = IF \E i \in Job \ {j} : of[i] = of[j] /\ Claims(i)
                      THEN raced \cup {of[j]} ELSE raced,
           UNCHANGED <<of, versions, author, torn>>,
           to = "open" => UNCHANGED file,
           to = "insert" => file' = [file EXCEPT ![of[j]] = j]
    PROVE  JobInv'
<1> DEFINE n == of[j]
<1>1. JobTypes /\ pc' = [pc EXCEPT ![j] = to] /\ n \in Name
  BY DEF JobInv, Goto, JobTypes
<1>2. JobTypes'
  <2>1. to \in Point
    BY DEF Point
  <2> QED BY <1>1, <2>1 DEF JobTypes
<1>3. \A i \in Job : pc'[i] = IF i = j THEN to ELSE pc[i]
  BY <1>1 DEF JobTypes
<1>4. \A i \in Job \ {j} : (Claims(i)' <=> Claims(i)) /\ pc'[i] = pc[i]
  BY <1>3 DEF Claims
<1>5. \A m : Exists(m)' <=> Exists(m)
  BY DEF Exists
<1>6. raced \subseteq raced'
  OBVIOUS
<1>7. \A m \in Name : m # n => file'[m] = file[m]
  BY <1>1 DEF JobTypes
<1>8. n \notin raced' => \A i \in Job \ {j} : of[i] = n => ~Claims(i)
  OBVIOUS
<1>9. OneActive'
  BY DEF JobInv, OneActive
<1>10. OneClaim'
  <2> SUFFICES ASSUME NEW i \in Job, Claims(i)', of[i] \notin raced'
               PROVE  ~Exists(of[i]) /\ \A k \in Job : Claims(k)' /\ of[k] = of[i] => k = i
    BY <1>5 DEF OneClaim
  <2>1. CASE of[i] = n
    BY <1>4, <1>8, <2>1
  <2>2. CASE of[i] # n
    <3>1. Claims(i) /\ of[i] \notin raced
      BY <1>4, <1>6, <2>2
    <3> QED BY <1>4, <2>2, <3>1 DEF JobInv, OneClaim
  <2> QED BY <2>1, <2>2
<1>11. FileOfClaim'
  <2> SUFFICES ASSUME NEW i \in Job, Claims(i)', pc'[i] = "insert", of[i] \notin raced'
               PROVE  file'[of[i]] = i
    BY DEF FileOfClaim
  <2>1. CASE i = j
    BY <1>1, <1>3, <2>1 DEF JobTypes
  <2>2. CASE i # j
    <3>1. of[i] # n /\ Claims(i) /\ pc[i] = "insert" /\ of[i] \notin raced
      BY <1>4, <1>6, <1>8, <2>2
    <3>2. of[i] \in Name
      BY <1>1 DEF JobTypes
    <3> QED BY <1>7, <3>1, <3>2 DEF JobInv, FileOfClaim
  <2> QED BY <2>1, <2>2
<1>12. RepairsHaveVersions'
  BY <1>3, <1>5 DEF JobInv, RepairsHaveVersions, Job
<1>13. \A i \in Repairs : /\ pc'[i] = pc[i]
                          /\ pc[i] = "promote" => of[i] \in Name /\ of[i] # n
  BY <1>1, <1>3 DEF JobInv, JobTypes, RepairsHaveVersions, Job
<1>14. FileOfPromotion'
  BY <1>6, <1>7, <1>13 DEF JobInv, FileOfPromotion
<1>15. FileIsActiveScript'
  <2> SUFFICES ASSUME NEW m \in Name \ (raced' \cup torn), Promoting(m)' = {},
                      NEW v \in Version, versions[m][v] = "active", author[m][v] # Nobody
               PROVE  file'[m] = author[m][v]
    BY DEF FileIsActiveScript, ActiveVersions
  <2>1. m # n
    BY DEF Exists
  <2>2. Promoting(m) = {}
    BY <1>13 DEF Promoting
  <2>3. file[m] = author[m][v]
    BY <1>6, <2>2 DEF JobInv, FileIsActiveScript, ActiveVersions
  <2> QED BY <1>7, <2>1, <2>3
<1> QED BY <1>2, <1>9, <1>10, <1>11, <1>12, <1>14, <1>15 DEF JobInv

\* A change to the versions of n, with which the jobs of J are done: it has some then,
\* nobody else claims it, and the file fits the one active version, or is torn.
Publishes(n, J) ==
    /\ \A i \in Job \ J : pc'[i] = pc[i]
    /\ \A i \in J : of[i] = n /\ pc'[i] \in {"record", "done"}
    /\ of' = of /\ raced' = raced
    /\ \A m \in Name \ {n} : /\ versions'[m] = versions[m] /\ author'[m] = author[m]
                            /\ file'[m] = file[m] /\ (m \in torn' <=> m \in torn)
    /\ Exists(n)'
    /\ n \notin raced => \A i \in Job : of[i] = n /\ Claims(i) => i \in J
    /\ \A u, v \in Version : versions'[n][u] = "active" /\ versions'[n][v] = "active" => u = v
    /\ n \notin raced \cup torn' /\ Promoting(n)' = {} => \A v \in Version :
          versions'[n][v] = "active" /\ author'[n][v] # Nobody => file'[n] = author'[n][v]
    /\ n \notin raced \cup torn' => \A i \in Promoting(n)' : file'[n] = i

LEMMA PublishingKeeps ==
    ASSUME JobInv, NEW n \in Name, NEW J \in SUBSET Job, JobTypes', Publishes(n, J)
    PROVE  JobInv'
<1> USE DEF Publishes
<1>1. JobTypes
  BY DEF JobInv
<1>2. \A m \in Name \ {n} : Exists(m)' <=> Exists(m)
  BY DEF Exists
<1>3. OneActive'
  BY DEF JobInv, OneActive
<1>4. \A i \in Job : Claims(i)' => Claims(i) /\ i \notin J /\ pc'[i] = pc[i]
  BY DEF Claims
<1>5. \A i \in Job : of[i] \in Name
  BY <1>1 DEF JobTypes
<1>6. \A i \in Job : Claims(i)' /\ of[i] \notin raced => of[i] # n
  BY <1>4
<1>7. OneClaim'
  BY <1>2, <1>4, <1>5, <1>6 DEF JobInv, OneClaim
<1>8. FileOfClaim'
  BY <1>4, <1>5, <1>6 DEF JobInv, FileOfClaim
<1>9. RepairsHaveVersions'
  <2> SUFFICES ASSUME NEW i \in Repairs, pc'[i] \in {"budget", "session", "persist", "promote"}
               PROVE  Exists(of[i])'
    BY DEF RepairsHaveVersions
  <2>1. i \in Job /\ i \notin J /\ pc'[i] = pc[i]
    BY DEF Job
  <2>2. Exists(of[i])
    BY <2>1 DEF JobInv, RepairsHaveVersions
  <2>3. CASE of[i] = n
    BY <2>3
  <2>4. CASE of[i] # n
    BY <1>2, <1>5, <2>1, <2>2, <2>4
  <2> QED BY <2>3, <2>4
<1>10. FileOfPromotion'
  <2> SUFFICES ASSUME NEW i \in Repairs, pc'[i] = "promote", of[i] \notin raced \cup torn'
               PROVE  file'[of[i]] = i
    BY DEF FileOfPromotion
  <2>1. i \in Job /\ i \notin J /\ pc[i] = "promote"
    BY DEF Job
  <2>2. CASE of[i] = n
    BY <2>2 DEF Promoting
  <2>3. CASE of[i] # n
    BY <1>5, <2>1, <2>3 DEF JobInv, FileOfPromotion
  <2> QED BY <2>2, <2>3
<1>11. FileIsActiveScript'
  <2> SUFFICES ASSUME NEW m \in Name \ (raced \cup torn'), Promoting(m)' = {},
                      NEW v \in Version, versions'[m][v] = "active", author'[m][v] # Nobody
               PROVE  file'[m] = author'[m][v]
    BY DEF FileIsActiveScript, ActiveVersions
  <2>1. CASE m = n
    BY <2>1
  <2>2. CASE m # n
    <3>1. Promoting(m) = {}
      <4>1. \A i \in Repairs : of[i] = m => i \in Job \ J
        BY <2>2 DEF Job
      <4> QED BY <4>1 DEF Promoting
    <3> QED BY <2>2, <3>1 DEF JobInv, FileIsActiveScript, ActiveVersions
  <2> QED BY <2>1, <2>2
<1> QED BY <1>3, <1>7, <1>8, <1>9, <1>10, <1>11 DEF JobInv

\* Whoever has versions is claimed by nobody, if it was not raced for.
LEMMA NoClaim ==
    ASSUME JobInv, NEW n \in Name, Exists(n), n \notin raced
    PROVE  \A i \in Job : of[i] = n => ~Claims(i)
  BY DEF JobInv, OneClaim

LEMMA MaxOfOne ==
    ASSUME NEW u \in Version
    PROVE  Max({u}) = u
<1>1. u \in Nat
  BY DEF Version
<1> QED BY <1>1 DEF Max

\* A promotion leaves one active version.
LEMMA PromotedIsOne ==
    ASSUME JobTypes, OneActive, NEW n \in Name, NEW w \in Version
    PROVE  /\ Promoted(n, w) \in [Version -> VersionStatus]
           /\ \A u \in Version : Promoted(n, w)[u] = "active" <=> u = w
<1>1. \A u \in Version : versions[n][u] \in VersionStatus
  BY DEF JobTypes
<1>2. \A u \in Version : Promoted(n, w)[u] =
         IF u = w THEN "active"
         ELSE IF versions[n][u] = "active" /\ u = Max(ActiveVersions(n)) THEN "retired"
         ELSE versions[n][u]
  BY DEF Promoted
<1>3. ASSUME NEW u \in Version, versions[n][u] = "active"
      PROVE  u = Max(ActiveVersions(n))
  <2>1. ActiveVersions(n) = {u}
    BY <1>3 DEF ActiveVersions, OneActive
  <2> QED BY <2>1, MaxOfOne
<1>4. Promoted(n, w) \in [Version -> VersionStatus]
  BY <1>1 DEF Promoted, VersionStatus
<1> QED BY <1>2, <1>3, <1>4

-----------------------------------------------------------------------------
(***************************************************************************)
(* The steps that write rows or files.                                     *)
(***************************************************************************)
LEMMA LookUpKeeps ==
    ASSUME JobInv, NEW j \in Builds \cup Imports, NEW next \in {"open", "insert"},
           LookUpName(j, next), ~Claims(j), UNCHANGED <<of, versions, author, torn>>,
           pc[j] # "promote",
           next = "open" => UNCHANGED file,
           next = "insert" => file' = IF Exists(of[j]) THEN file ELSE [file EXCEPT ![of[j]] = j]
    PROVE  JobInv'
<1>1. j \in Job /\ j \notin Repairs
  BY KindsApart DEF Job
<1>2. CASE Exists(of[j])
  <2>1. Goto(j, "refused") /\ raced' = raced /\ file' = file /\ "refused" \in Point
    BY <1>2 DEF LookUpName, Point
  <2>2. UNCHANGED <<of, versions, author, file, raced>>
    BY <2>1
  <2> QED BY <1>1, <2>1, <2>2, GoesOn
<1>3. CASE ~Exists(of[j])
  <2>1. /\ Goto(j, next)
        /\ raced' = IF \E i \in Job \ {j} : of[i] = of[j] /\ Claims(i) THEN raced \cup {of[j]} ELSE raced
        /\ next = "insert" => file' = [file EXCEPT ![of[j]] = j]
    BY <1>3 DEF LookUpName
  <2> QED BY <1>1, <1>3, <2>1, ClaimsName
<1> QED BY <1>2, <1>3

LEMMA SaveKeeps ==
    ASSUME JobInv, NEW j \in Builds, SaveFile(j)
    PROVE  JobInv'
<1> DEFINE n == of[j]
<1>1. JobTypes /\ j \in Job /\ j \notin Repairs /\ n \in Name
  BY KindsApart DEF JobInv, JobTypes, Job
<1>2. /\ pc[j] = "save" /\ pc' = [pc EXCEPT ![j] = "insert"]
      /\ file' = [file EXCEPT ![n] = j] /\ UNCHANGED <<of, versions, author, raced, torn>>
  BY DEF SaveFile, Goto, own, history
<1>3. JobTypes'
  <2>1. "insert" \in Point
    BY DEF Point
  <2> QED BY <1>1, <1>2, <2>1 DEF JobTypes
<1>4. Claims(j)
  BY <1>1, <1>2 DEF Claims
<1>5. \A i \in Job : (Claims(i)' <=> Claims(i)) /\ (i # j => pc'[i] = pc[i])
  BY <1>1, <1>2 DEF Claims, JobTypes
<1>6. \A m : Exists(m)' <=> Exists(m)
  BY <1>2 DEF Exists
<1>7. \A m \in Name : file'[m] = IF m = n THEN j ELSE file[m]
  BY <1>1, <1>2 DEF JobTypes
<1>8. n \notin raced => ~Exists(n) /\ \A i \in Job : Claims(i) /\ of[i] = n => i = j
  BY <1>1, <1>4 DEF JobInv, OneClaim
<1>9. OneActive' /\ OneClaim'
  BY <1>2, <1>5, <1>6 DEF JobInv, OneActive, OneClaim
<1>10. FileOfClaim'
  <2> SUFFICES ASSUME NEW i \in Job, Claims(i)', pc'[i] = "insert", of[i] \notin raced
               PROVE  file'[of[i]] = i
    BY <1>2 DEF FileOfClaim
  <2>1. of[i] \in Name
    BY <1>1 DEF JobTypes
  <2>2. CASE i = j
    BY <1>1, <1>7, <2>2
  <2>3. CASE i # j
    <3>1. Claims(i) /\ pc[i] = "insert" /\ of[i] # n
      BY <1>5, <1>8, <2>3
    <3> QED BY <1>7, <2>1, <3>1 DEF JobInv, FileOfClaim
  <2> QED BY <2>2, <2>3
<1>11. RepairsHaveVersions'
  <2> SUFFICES ASSUME NEW i \in Repairs, pc'[i] \in {"budget", "session", "persist", "promote"}
               PROVE  Exists(of[i])
    BY <1>2, <1>6 DEF RepairsHaveVersions
  <2>1. i \in Job /\ i # j
    BY <1>1 DEF Job
  <2> QED BY <1>5, <2>1 DEF JobInv, RepairsHaveVersions
<1>12. \A i \in Repairs : /\ pc'[i] = pc[i]
                          /\ pc[i] = "promote" => of[i] \in Name /\ (n \notin raced => of[i] # n)
  BY <1>1, <1>5, <1>8 DEF JobInv, JobTypes, RepairsHaveVersions, Job
<1>13. FileOfPromotion'
  BY <1>2, <1>7, <1>12 DEF JobInv, FileOfPromotion
<1>14. FileIsActiveScript'
  <2> SUFFICES ASSUME NEW m \in Name \ (raced \cup torn), Promoting(m)' = {},
                      NEW v \in Version, versions[m][v] = "active", author[m][v] # Nobody
               PROVE  file'[m] = author[m][v]
    BY <1>2 DEF FileIsActiveScript, ActiveVersions
  <2>1. m # n
    BY <1>8 DEF Exists
  <2>2. Promoting(m) = {}
    BY <1>2, <1>12 DEF Promoting
  <2>3. file[m] = author[m][v]
    BY <2>2 DEF JobInv, FileIsActiveScript, ActiveVersions
  <2> QED BY <1>7, <2>1, <2>3
<1> QED BY <1>3, <1>9, <1>10, <1>11, <1>13, <1>14 DEF JobInv

LEMMA InsertKeeps ==
    ASSUME JobInv, NEW j \in Builds \cup Imports, InsertScraper(j)
    PROVE  JobInv'
<1> DEFINE n == of[j]
<1>1. JobTypes /\ j \in Job /\ j \notin Repairs /\ n \in Name
  BY KindsApart DEF JobInv, JobTypes, Job
<1>2. PICK w \in Version, status \in {"active", "candidate"} :
        /\ pc[j] = "insert"
        /\ IF Exists(n)
             THEN Goto(j, "raised") /\ UNCHANGED <<versions, author>>
             ELSE /\ versions' = [versions EXCEPT ![n][w] = status]
                  /\ author' = [author EXCEPT ![n][w] = j]
                  /\ Goto(j, IF j \in Builds THEN "record" ELSE "done")
        /\ UNCHANGED <<own, file, ledger, history, bounds>>
  BY DEF InsertScraper
<1>3. UNCHANGED <<of, file, raced, torn>>
  BY <1>2 DEF own, history
<1>4. CASE Exists(n)
  <2>1. Goto(j, "raised") /\ "raised" \in Point /\ UNCHANGED <<of, versions, author, file, raced, torn>>
    BY <1>2, <1>3, <1>4 DEF Point
  <2> QED BY <1>1, <1>2, <2>1, GoesOn
<1>5. CASE ~Exists(n)
  <2>1. PICK to \in {"record", "done"} : pc' = [pc EXCEPT ![j] = to]
    BY <1>2, <1>5 DEF Goto
  <2>2. versions' = [versions EXCEPT ![n][w] = status] /\ author' = [author EXCEPT ![n][w] = j]
    BY <1>2, <1>5
  <2>3. JobTypes'
    <3>1. pc' \in [Job -> Point]
      BY <1>1, <2>1 DEF JobTypes, Point
    <3>2. versions' \in [Name -> [Version -> VersionStatus]]
      BY <1>1, <2>2 DEF JobTypes, VersionStatus
    <3>3. author' \in [Name -> [Version -> Job \cup {Nobody}]]
      BY <1>1, <2>2 DEF JobTypes
    <3> QED BY <1>1, <1>3, <3>1, <3>2, <3>3 DEF JobTypes
  <2>4. (\A i \in Job \ {j} : pc'[i] = pc[i]) /\ \A i \in {j} : pc'[i] \in {"record", "done"}
    BY <1>1, <2>1 DEF JobTypes
  <2>5. \A m \in Name \ {n} : versions'[m] = versions[m] /\ author'[m] = author[m] /\ file'[m] = file[m]
    BY <1>1, <1>3, <2>2 DEF JobTypes
  <2>6. \A v \in Version : /\ versions'[n][v] = IF v = w THEN status ELSE versions[n][v]
                           /\ author'[n][v] = IF v = w THEN j ELSE author[n][v]
    BY <1>1, <2>2 DEF JobTypes
  <2>7. \A v \in Version : versions[n][v] = "none"
    BY <1>5 DEF Exists
  <2>8. Exists(n)'
    BY <1>3, <2>6 DEF Exists
  <2>9. Claims(j)
    BY <1>1, <1>2 DEF Claims
  <2>10. n \notin raced => file[n] = j /\ \A i \in Job : of[i] = n /\ Claims(i) => i \in {j}
    BY <1>1, <1>2, <2>9 DEF JobInv, FileOfClaim, OneClaim
  <2>11. \A v \in Version : versions'[n][v] = "active" => v = w
    BY <2>6, <2>7
  <2>12. n \notin raced => \A v \in Version :
            versions'[n][v] = "active" /\ author'[n][v] # Nobody => file'[n] = author'[n][v]
    BY <1>3, <2>6, <2>10, <2>11
  <2>13. Promoting(n)' = {}
    <3>1. \A i \in Repairs : i \in Job /\ pc'[i] = pc[i]
      BY <1>1, <2>4 DEF Job
    <3>2. \A i \in Repairs : pc[i] = "promote" => of[i] # n
      BY <1>5 DEF JobInv, RepairsHaveVersions
    <3> QED BY <1>3, <3>1, <3>2 DEF Promoting
  <2>14. Publishes(n, {j})
    BY <1>3, <2>4, <2>5, <2>8, <2>10, <2>11, <2>12, <2>13 DEF Publishes
  <2> QED BY <1>1, <2>3, <2>14, PublishingKeeps
<1> QED BY <1>4, <1>5

LEMMA ParkKeeps ==
    ASSUME JobInv, NEW j \in Repairs, ParkRepair(j)
    PROVE  JobInv'
<1> DEFINE n == of[j]
           w == NumberOf(j)
<1>1. JobTypes /\ j \in Job /\ n \in Name
  BY DEF JobInv, JobTypes, Job
<1>2. pc[j] = "persist" /\ w \in Version /\ UNCHANGED <<of, raced, torn, file>>
  BY DEF ParkRepair, own, history
<1>3. Exists(n)
  BY <1>2 DEF JobInv, RepairsHaveVersions
<1>4. CASE NumberTaken(j)
  <2>1. Goto(j, "raised") /\ "raised" \in Point /\ UNCHANGED <<of, versions, author, file, raced, torn>>
    BY <1>2, <1>4 DEF ParkRepair, Point
  <2> QED BY <1>1, <1>2, <2>1, GoesOn
<1>5. CASE ~NumberTaken(j)
  <2>1. /\ author' = [author EXCEPT ![n][w] = j]
        /\ pc' = [pc EXCEPT ![j] = "record"]
        /\ versions' = [versions EXCEPT ![n][w] = "candidate"]
    BY <1>5 DEF ParkRepair, Goto
  <2> HIDE DEF w
  <2>2. JobTypes'
    <3>1. pc' \in [Job -> Point]
      BY <1>1, <2>1 DEF JobTypes, Point
    <3>2. author' \in [Name -> [Version -> Job \cup {Nobody}]]
      BY <1>1, <1>2, <2>1 DEF JobTypes
    <3>3. versions' \in [Name -> [Version -> VersionStatus]]
      BY <1>1, <1>2, <2>1 DEF JobTypes, VersionStatus
    <3> QED BY <1>1, <1>2, <3>1, <3>2, <3>3 DEF JobTypes
  <2>3. (\A i \in Job \ {j} : pc'[i] = pc[i]) /\ \A i \in {j} : of[i] = n /\ pc'[i] \in {"record", "done"}
    BY <1>1, <2>1 DEF JobTypes
  <2>4. \A m \in Name \ {n} : /\ versions'[m] = versions[m] /\ author'[m] = author[m]
                              /\ file'[m] = file[m] /\ (m \in torn' <=> m \in torn)
    BY <1>1, <1>2, <2>1 DEF JobTypes
  <2>5. \A v \in Version : /\ author'[n][v] = IF v = w THEN j ELSE author[n][v]
                           /\ versions'[n][v] = IF v = w THEN "candidate" ELSE versions[n][v]
    BY <1>1, <1>2, <2>1 DEF JobTypes
  <2>6. n \notin raced => \A i \in Job : of[i] = n /\ Claims(i) => i \in {j}
    BY <1>1, <1>3, NoClaim
  <2>7. \A u, v \in Version : versions'[n][u] = "active" /\ versions'[n][v] = "active" => u = v
    BY <1>1, <2>5 DEF JobInv, OneActive
  <2>8. Promoting(n)' = Promoting(n)
    <3>1. \A i \in Repairs : pc'[i] = "promote" <=> pc[i] = "promote"
      BY <1>2, <2>1, <2>3 DEF Job
    <3> QED BY <1>2, <3>1 DEF Promoting
  <2>9. n \notin raced \cup torn' /\ Promoting(n)' = {} => \A v \in Version :
          versions'[n][v] = "active" /\ author'[n][v] # Nobody => file'[n] = author'[n][v]
    <3>1. n \notin raced \cup torn /\ Promoting(n) = {} => \A v \in Version :
            versions[n][v] = "active" /\ author[n][v] # Nobody => file[n] = author[n][v]
      BY <1>1 DEF JobInv, FileIsActiveScript, ActiveVersions
    <3>2. \A v \in Version : versions'[n][v] = "active" =>
            versions[n][v] = "active" /\ author'[n][v] = author[n][v]
      BY <2>5
    <3> QED BY <1>2, <2>8, <3>1, <3>2
  <2>10. n \notin raced \cup torn' => \A i \in Promoting(n)' : file'[n] = i
    BY <1>2, <2>8 DEF JobInv, FileOfPromotion, Promoting
  <2>11. Exists(n)'
    BY <1>2, <2>5 DEF Exists
  <2>12. Publishes(n, {j})
    BY <1>2, <2>3, <2>4, <2>6, <2>7, <2>9, <2>10, <2>11 DEF Publishes
  <2> QED BY <1>1, <2>2, <2>12, PublishingKeeps
<1> QED BY <1>4, <1>5

LEMMA WriteKeeps ==
    ASSUME JobInv, NEW j \in Repairs, WriteRepair(j)
    PROVE  JobInv'
<1> DEFINE n == of[j]
<1>1. JobTypes /\ j \in Job /\ n \in Name
  BY DEF JobInv, JobTypes, Job
<1>2. /\ pc[j] = "persist" /\ pc' = [pc EXCEPT ![j] = "promote"]
      /\ file' = [file EXCEPT ![n] = j] /\ UNCHANGED <<of, versions, author, raced>>
      /\ torn' = IF Promoting(n) = {} THEN torn ELSE torn \cup {n}
  BY DEF WriteRepair, Goto, own
<1>3. JobTypes'
  <2>1. "promote" \in Point
    BY DEF Point
  <2> QED BY <1>1, <1>2, <2>1 DEF JobTypes
<1>4. Exists(n) /\ \A m : Exists(m)' <=> Exists(m)
  BY <1>2 DEF JobInv, RepairsHaveVersions, Exists
<1>5. \A i \in Job : (Claims(i)' <=> Claims(i)) /\ (i # j => pc'[i] = pc[i])
  BY <1>1, <1>2 DEF Claims, JobTypes
<1>6. \A m \in Name : file'[m] = IF m = n THEN j ELSE file[m]
  BY <1>1, <1>2 DEF JobTypes
<1>7. torn \subseteq torn' /\ \A i \in Job : of[i] \in Name
  BY <1>1, <1>2 DEF JobTypes
<1>8. pc'[j] = "promote"
  BY <1>1, <1>2 DEF JobTypes
<1>9. OneActive' /\ OneClaim'
  BY <1>2, <1>4, <1>5 DEF JobInv, OneActive, OneClaim
<1>10. FileOfClaim'
  <2> SUFFICES ASSUME NEW i \in Job, Claims(i)', pc'[i] = "insert", of[i] \notin raced
               PROVE  file'[of[i]] = i
    BY <1>2 DEF FileOfClaim
  <2>1. Claims(i) /\ pc[i] = "insert" /\ of[i] # n
    BY <1>1, <1>4, <1>5, <1>8, NoClaim
  <2> QED BY <1>6, <1>7, <2>1 DEF JobInv, FileOfClaim
<1>11. RepairsHaveVersions'
  BY <1>2, <1>4, <1>5 DEF JobInv, RepairsHaveVersions, Job
<1>12. FileOfPromotion'
  <2> SUFFICES ASSUME NEW i \in Repairs, pc'[i] = "promote", of[i] \notin raced \cup torn'
               PROVE  file'[of[i]] = i
    BY <1>2 DEF FileOfPromotion
  <2>1. i \in Job
    BY DEF Job
  <2>2. CASE i = j
    BY <1>6, <1>1, <2>2
  <2>3. CASE i # j
    <3>1. pc[i] = "promote"
      BY <1>5, <2>1, <2>3
    <3>2. of[i] # n
      BY <1>2, <3>1 DEF Promoting
    <3> QED BY <1>6, <1>7, <2>1, <3>1, <3>2 DEF JobInv, FileOfPromotion
  <2> QED BY <2>2, <2>3
<1>13. FileIsActiveScript'
  <2> SUFFICES ASSUME NEW m \in Name \ (raced \cup torn'), Promoting(m)' = {},
                      NEW v \in Version, versions[m][v] = "active", author[m][v] # Nobody
               PROVE  file'[m] = author[m][v]
    BY <1>2 DEF FileIsActiveScript, ActiveVersions
  <2>1. m # n
    BY <1>2, <1>8 DEF Promoting
  <2>2. Promoting(m) = {}
    BY <1>2, <1>5, <2>1 DEF Promoting, Job
  <2>3. file[m] = author[m][v]
    BY <1>7, <2>2 DEF JobInv, FileIsActiveScript, ActiveVersions
  <2> QED BY <1>6, <2>1, <2>3
<1> QED BY <1>3, <1>9, <1>10, <1>11, <1>12, <1>13 DEF JobInv

LEMMA PromoteKeeps ==
    ASSUME JobInv, NEW j \in Repairs, PromoteRepair(j)
    PROVE  JobInv'
<1> DEFINE n == of[j]
           w == NumberOf(j)
<1>1. JobTypes /\ j \in Job /\ n \in Name
  BY DEF JobInv, JobTypes, Job
<1>2. pc[j] = "promote" /\ w \in Version /\ UNCHANGED <<of, raced, file>>
  BY DEF PromoteRepair, own
<1>3. Exists(n)
  BY <1>2 DEF JobInv, RepairsHaveVersions
<1>4. CASE NumberTaken(j)
  <2>1. /\ Goto(j, "raised") /\ "raised" \in Point /\ UNCHANGED <<of, versions, author, file, raced>>
        /\ torn' = torn \cup {n}
    BY <1>2, <1>4 DEF PromoteRepair, Point
  <2> QED BY <1>1, <2>1, GoesOn
<1>5. CASE ~NumberTaken(j)
  <2>1. /\ author' = [author EXCEPT ![n][w] = j] /\ torn' = torn
        /\ pc' = [pc EXCEPT ![j] = "record"]
        /\ versions' = [versions EXCEPT ![n] = Promoted(n, w)]
    BY <1>5 DEF PromoteRepair, Goto
  <2>2. /\ Promoted(n, w) \in [Version -> VersionStatus]
        /\ \A u \in Version : Promoted(n, w)[u] = "active" <=> u = w
    BY <1>1, <1>2, PromotedIsOne DEF JobInv
  <2> HIDE DEF w
  <2>3. JobTypes'
    <3>1. pc' \in [Job -> Point]
      BY <1>1, <2>1 DEF JobTypes, Point
    <3>2. author' \in [Name -> [Version -> Job \cup {Nobody}]]
      BY <1>1, <1>2, <2>1 DEF JobTypes
    <3>3. versions' \in [Name -> [Version -> VersionStatus]]
      BY <1>1, <2>1, <2>2 DEF JobTypes
    <3> QED BY <1>1, <1>2, <2>1, <3>1, <3>2, <3>3 DEF JobTypes
  <2>4. (\A i \in Job \ {j} : pc'[i] = pc[i]) /\ \A i \in {j} : of[i] = n /\ pc'[i] \in {"record", "done"}
    BY <1>1, <2>1 DEF JobTypes
  <2>5. \A m \in Name \ {n} : /\ versions'[m] = versions[m] /\ author'[m] = author[m]
                              /\ file'[m] = file[m] /\ (m \in torn' <=> m \in torn)
    BY <1>1, <1>2, <2>1 DEF JobTypes
  <2>6. author'[n][w] = j /\ versions'[n] = Promoted(n, w)
    BY <1>1, <1>2, <2>1 DEF JobTypes
  <2>7. n \notin raced => \A i \in Job : of[i] = n /\ Claims(i) => i \in {j}
    BY <1>1, <1>3, NoClaim
  <2>8. \A u, v \in Version : versions'[n][u] = "active" /\ versions'[n][v] = "active" => u = v
    BY <2>2, <2>6
  <2>9. n \notin raced \cup torn' => file'[n] = j
    BY <1>2, <2>1 DEF JobInv, FileOfPromotion
  <2>10. n \notin raced \cup torn' /\ Promoting(n)' = {} => \A v \in Version :
          versions'[n][v] = "active" /\ author'[n][v] # Nobody => file'[n] = author'[n][v]
    BY <2>2, <2>6, <2>9
  <2>11. n \notin raced \cup torn' => \A i \in Promoting(n)' : file'[n] = i
    <3>1. \A i \in Promoting(n)' : i \in Repairs /\ pc[i] = "promote" /\ of[i] = n
      BY <1>2, <2>4 DEF Promoting, Job
    <3> QED BY <1>2, <2>1, <3>1 DEF JobInv, FileOfPromotion
  <2>12. Exists(n)'
    BY <1>2, <2>2, <2>6 DEF Exists
  <2>13. Publishes(n, {j})
    BY <1>2, <2>4, <2>5, <2>7, <2>8, <2>10, <2>11, <2>12 DEF Publishes
  <2> QED BY <1>1, <2>3, <2>13, PublishingKeeps
<1> QED BY <1>4, <1>5

LEMMA ReviewKeeps ==
    ASSUME JobInv, NEW n \in Name, NEW w \in Version, Review(n, w)
    PROVE  JobInv'
<1>1. JobTypes /\ OneActive /\ author[n][w] \in Job \cup {Nobody}
  BY DEF JobInv, JobTypes
<1>2. versions[n][w] = "candidate" /\ UNCHANGED <<pc, of, author, raced>>
  BY DEF Review, own
<1>3. Exists(n)
  BY <1>2 DEF Exists
<1> DEFINE Rejected == [versions EXCEPT ![n][w] = "rejected"]
           Approved == [versions EXCEPT ![n] = Promoted(n, w)]
           Written == [file EXCEPT ![n] = author[n][w]]
<1>4. /\ versions' \in {versions, Rejected, Approved} /\ file' \in {file, Written}
      /\ \A m \in Name \ {n} : m \in torn' <=> m \in torn
      /\ torn' \subseteq torn \cup {n}
  BY DEF Review, Reject, ApproveInWeb, ApprovalDies, ApproveOverMcp
<1>5. \/ n \in torn'
      \/ UNCHANGED <<file, torn>> /\ versions' = Rejected
      \/ Promoting(n) = {} /\ versions' = Approved /\ file' = Written
  BY DEF Review, Reject, ApproveInWeb, ApprovalDies, ApproveOverMcp
<1>6. /\ Promoted(n, w) \in [Version -> VersionStatus]
      /\ \A u \in Version : Promoted(n, w)[u] = "active" <=> u = w
  BY <1>1, PromotedIsOne
<1>7. /\ \A m \in Name \ {n} : Rejected[m] = versions[m] /\ Approved[m] = versions[m] /\ Written[m] = file[m]
      /\ \A u \in Version : /\ Rejected[n][u] = IF u = w THEN "rejected" ELSE versions[n][u]
                            /\ Approved[n][u] = Promoted(n, w)[u]
      /\ Written[n] = author[n][w]
  BY <1>1 DEF JobTypes
<1>8. /\ Rejected \in [Name -> [Version -> VersionStatus]]
      /\ Approved \in [Name -> [Version -> VersionStatus]]
      /\ Written \in [Name -> Job \cup {Nobody}]
  <2>1. Rejected \in [Name -> [Version -> VersionStatus]]
    BY <1>1 DEF JobTypes, VersionStatus
  <2> QED BY <1>1, <1>6, <2>1 DEF JobTypes
<1> HIDE DEF Rejected, Approved, Written
<1>9. JobTypes'
  BY <1>1, <1>2, <1>4, <1>8 DEF JobTypes
<1>10. n \notin raced => \A i \in Job : of[i] = n /\ Claims(i) => i \in {}
  BY <1>3, NoClaim
<1>11. Exists(n)'
  <2>1. versions'[n][w] # "none"
    BY <1>2, <1>4, <1>6, <1>7
  <2> QED BY <2>1 DEF Exists
<1>12. \A u, v \in Version : versions'[n][u] = "active" /\ versions'[n][v] = "active" => u = v
  <2>1. CASE versions' = versions
    BY <1>1, <2>1 DEF OneActive
  <2>2. CASE versions' = Rejected
    BY <1>1, <1>7, <2>2 DEF OneActive
  <2>3. CASE versions' = Approved
    BY <1>6, <1>7, <2>3
  <2> QED BY <1>4, <2>1, <2>2, <2>3
<1>13. Promoting(n)' = Promoting(n)
  BY <1>2 DEF Promoting
<1>14. n \notin raced \cup torn' /\ Promoting(n)' = {} => \A v \in Version :
          versions'[n][v] = "active" /\ author'[n][v] # Nobody => file'[n] = author'[n][v]
  <2>1. CASE UNCHANGED <<file, torn>> /\ versions' = Rejected
    <3>1. n \notin raced \cup torn /\ Promoting(n) = {} => \A v \in Version :
            versions[n][v] = "active" /\ author[n][v] # Nobody => file[n] = author[n][v]
      BY DEF JobInv, FileIsActiveScript, ActiveVersions
    <3>2. \A v \in Version : versions'[n][v] = "active" => versions[n][v] = "active"
      BY <1>7, <2>1
    <3> QED BY <1>2, <1>13, <2>1, <3>1, <3>2
  <2>2. CASE Promoting(n) = {} /\ versions' = Approved /\ file' = Written
    BY <1>2, <1>6, <1>7, <2>2
  <2> QED BY <1>5, <2>1, <2>2
<1>15. n \notin raced \cup torn' => \A i \in Promoting(n)' : file'[n] = i
  BY <1>5, <1>13 DEF JobInv, FileOfPromotion, Promoting
<1>16. (\A i \in Job \ {} : pc'[i] = pc[i]) /\ \A i \in {} : of[i] = n /\ pc'[i] \in {"record", "done"}
  BY <1>2
<1>17. \A m \in Name \ {n} : /\ versions'[m] = versions[m] /\ author'[m] = author[m]
                             /\ file'[m] = file[m] /\ (m \in torn' <=> m \in torn)
  BY <1>2, <1>4, <1>7
<1>18. Publishes(n, {})
  BY <1>2, <1>10, <1>11, <1>12, <1>14, <1>15, <1>16, <1>17 DEF Publishes
<1> QED BY <1>9, <1>18, PublishingKeeps

-----------------------------------------------------------------------------
LEMMA JobInvNext == JobInv /\ [Next]_vars => JobInv'
<1> SUFFICES ASSUME JobInv, [Next]_vars PROVE JobInv'
  OBVIOUS
<1>1. ASSUME NEW j \in Builds, BuildStep(j) PROVE JobInv'
  <2>1. j \in Job /\ j \notin Repairs
    BY KindsApart DEF Job
  <2>2. CASE BeginBuild(j)
    <3>1. PICK to \in {"refused", "named"} : Goto(j, to)
      BY <2>2 DEF BeginBuild, ReadBudget
    <3>2. UNCHANGED <<of, versions, author, file, raced, torn>> /\ pc[j] # "promote"
      BY <2>2 DEF BeginBuild, world
    <3>3. to \in Point /\ to \notin {"open", "session", "save", "insert"}
      BY DEF Point
    <3> QED BY <2>1, <3>1, <3>2, <3>3, GoesOn
  <2>3. CASE CheckName(j)
    <3>1. /\ LookUpName(j, "open") /\ pc[j] = "named" /\ UNCHANGED <<of, versions, author, torn>> /\ file' = file
      BY <2>3 DEF CheckName, own, world
    <3>2. ~Claims(j)
      BY <3>1 DEF Claims
    <3> QED BY <3>1, <3>2, LookUpKeeps
  <2>4. CASE OpenEngine(j) \/ BuildSession(j)
    <3>1. PICK to \in {"open", "session", "save", "record"} : Goto(j, to)
      BY <2>4 DEF OpenEngine, BuildSession, Climb, GiveUp
    <3>2. UNCHANGED <<of, versions, author, file, raced, torn>> /\ pc[j] # "promote"
      BY <2>4 DEF OpenEngine, BuildSession, world, history
    <3>3. Claims(j)
      BY <2>1, <2>4 DEF OpenEngine, BuildSession, Claims
    <3>4. to \in Point /\ to # "insert"
      BY DEF Point
    <3> QED BY <2>1, <3>1, <3>2, <3>3, <3>4, GoesOn
  <2>5. CASE SaveFile(j)
    BY <2>5, SaveKeeps
  <2>6. CASE InsertScraper(j)
    BY <2>6, InsertKeeps
  <2> QED BY <1>1, <2>2, <2>3, <2>4, <2>5, <2>6 DEF BuildStep
<1>2. ASSUME NEW j \in Repairs, RepairStep(j) PROVE JobInv'
  <2>1. j \in Job
    BY DEF Job
  <2>2. CASE BeginRepair(j)
    <3>1. UNCHANGED <<of, versions, author, file, raced, torn>> /\ pc[j] # "promote"
      BY <2>2 DEF BeginRepair, world, history
    <3>2. CASE ActiveVersions(of[j]) = {}
      <4>1. Goto(j, "refused") /\ "refused" \in Point
        BY <2>2, <3>2 DEF BeginRepair, Point
      <4> QED BY <2>1, <3>1, <4>1, GoesOn
    <3>3. CASE ActiveVersions(of[j]) # {}
      <4>1. Goto(j, "budget") /\ "budget" \in Point
        BY <2>2, <3>3 DEF BeginRepair, Point
      <4>2. Exists(of[j])
        BY <3>3 DEF ActiveVersions, Exists
      <4> QED BY <2>1, <3>1, <4>1, <4>2, GoesOn
    <3> QED BY <3>2, <3>3
  <2>3. CASE RepairBudget(j) \/ RepairSession(j)
    <3>1. PICK to \in {"refused", "session", "persist", "record"} : Goto(j, to)
      BY <2>3 DEF RepairBudget, RepairSession, ReadBudget
    <3>2. UNCHANGED <<of, versions, author, file, raced, torn>> /\ pc[j] # "promote"
      BY <2>3 DEF RepairBudget, RepairSession, world, history
    <3>3. Exists(of[j])
      BY <2>3 DEF RepairBudget, RepairSession, JobInv, RepairsHaveVersions
    <3>4. to \in Point
      BY DEF Point
    <3> QED BY <2>1, <3>1, <3>2, <3>3, <3>4, GoesOn
  <2>4. CASE ParkRepair(j)
    BY <2>4, ParkKeeps
  <2>5. CASE WriteRepair(j)
    BY <2>5, WriteKeeps
  <2>6. CASE PromoteRepair(j)
    BY <2>6, PromoteKeeps
  <2> QED BY <1>2, <2>2, <2>3, <2>4, <2>5, <2>6 DEF RepairStep
<1>3. ASSUME NEW j \in Imports, ImportStep(j) PROVE JobInv'
  <2>1. CASE ImportFile(j)
    <3>1. /\ LookUpName(j, "insert") /\ pc[j] = "new" /\ UNCHANGED <<of, versions, author, torn>>
          /\ file' = IF Exists(of[j]) THEN file ELSE [file EXCEPT ![of[j]] = j]
      BY <2>1 DEF ImportFile, own
    <3>2. ~Claims(j)
      BY <3>1 DEF Claims
    <3> QED BY <3>1, <3>2, LookUpKeeps
  <2>2. CASE InsertScraper(j)
    BY <2>2, InsertKeeps
  <2> QED BY <1>3, <2>1, <2>2 DEF ImportStep
<1>4. ASSUME NEW j \in Job, RecordUsage(j) \/ JobDies(j) PROVE JobInv'
  <2>1. PICK to \in {"done", "raised"} : Goto(j, to)
    BY <1>4 DEF RecordUsage, JobDies
  <2>2. /\ UNCHANGED <<of, versions, author, file, raced>>
        /\ torn' = torn \/ torn' = torn \cup {of[j]}
        /\ pc[j] = "promote" => of[j] \in torn'
    BY <1>4 DEF RecordUsage, JobDies, own, world, history
  <2>3. to \in Point /\ to \notin {"open", "session", "save", "insert", "budget", "persist", "promote"}
    BY DEF Point
  <2> QED BY <2>1, <2>2, <2>3, GoesOn
<1>5. ASSUME NEW n \in Name, NEW v \in Version, Review(n, v) PROVE JobInv'
  BY <1>5, ReviewKeeps
<1>6. CASE UNCHANGED vars
  <2>1. UNCHANGED <<pc, of, versions, author, file, raced, torn>>
    BY <1>6 DEF vars, own, world, history
  <2>2. JobTypes' /\ OneActive'
    BY <2>1 DEF JobInv, JobTypes, OneActive
  <2>3. OneClaim' /\ FileOfClaim' /\ RepairsHaveVersions' /\ FileOfPromotion'
    BY <2>1 DEF JobInv, OneClaim, FileOfClaim, RepairsHaveVersions, FileOfPromotion, Claims, Exists
  <2>4. FileIsActiveScript'
    BY <2>1 DEF JobInv, FileIsActiveScript, ActiveVersions, Promoting
  <2> QED BY <2>2, <2>3, <2>4 DEF JobInv
<1> QED BY <1>1, <1>2, <1>3, <1>4, <1>5, <1>6 DEF Next

-----------------------------------------------------------------------------
\* agents/jobs.py and importer.py: the script file of a scraper is that of its active
\* version, but for two jobs finding its name free at once and promotions that changed
\* only one of the two, until an approval in the web UI.
THEOREM FileIsThatOfTheActiveVersion == Spec => []FileIsActiveScript
<1>1. JobInv /\ [Next]_vars => JobInv'
  BY JobInvNext
<1>2. JobInv => FileIsActiveScript
  BY DEF JobInv
<1> QED BY JobInvInit, <1>1, <1>2, PTL DEF Spec

-----------------------------------------------------------------------------
(***************************************************************************)
(* The spend stays capped: a job's own budget, and the caps of the month   *)
(* and of each scraper as long as no two jobs are under way at once, but   *)
(* for what one session goes beyond its max_budget_usd.  Proved for any    *)
(* number of jobs, rungs and scrapers, any caps and any overrun.           *)
(*                                                                         *)
(* First, what a sum over a finite set of jobs is.  It is a fold that      *)
(* takes out the jobs in an order of its own (First); the lemmas say that  *)
(* there is one such function (AddsExists, AddsAgree), that the order does *)
(* not matter (TotalWithout) and that more jobs cost more (TotalGrows).    *)
(***************************************************************************)
Amounts == Nat \cup {Unknown}
Amount(led, x) == IF led[x] = Unknown THEN 0 ELSE led[x]
Total(led, S) == MapThenSumSet(LAMBDA x : IF led[x] = Unknown THEN 0 ELSE led[x], S)

First(s) == CHOOSE x \in s : TRUE
Adds(led, k, S) ==
    k = [s \in SUBSET S |-> IF s = {} THEN 0 ELSE Amount(led, First(s)) + k[s \ {First(s)}]]

LEMMA LeastNumber ==
    ASSUME NEW T \in SUBSET Nat, T # {}
    PROVE  \E m \in T : \A i \in T : m <= i
<1>1. PICK m \in T : \A i \in T : ~(<<i, m>> \in OpToRel(<, Nat))
  BY NatLessThanWellFounded, WFMin
<1>2. \A i \in T : ~(i < m) /\ i \in Nat /\ m \in Nat
  BY <1>1 DEF OpToRel
<1> QED BY <1>2

LEMMA SmallestSet ==
    ASSUME NEW S, IsFiniteSet(S), NEW T \in SUBSET (SUBSET S), T # {}
    PROVE  \E m \in T : \A t \in T : t \subseteq m => t = m
<1>1. \A t \in T : IsFiniteSet(t) /\ Cardinality(t) \in Nat
  BY FS_Subset, FS_CardinalityType
<1> DEFINE sizes == {Cardinality(t) : t \in T}
<1>2. PICK n \in sizes : \A i \in sizes : n <= i
  <2>1. sizes \in SUBSET Nat /\ sizes # {}
    BY <1>1
  <2> HIDE DEF sizes
  <2> QED BY <2>1, LeastNumber
<1>3. PICK m \in T : n = Cardinality(m)
  OBVIOUS
<1>4. ASSUME NEW t \in T, t \subseteq m PROVE t = m
  <2>1. Cardinality(m) <= Cardinality(t) /\ Cardinality(t) <= Cardinality(m)
    BY <1>1, <1>2, <1>3, <1>4, FS_Subset
  <2>2. Cardinality(m) = Cardinality(t)
    BY <2>1, <1>1
  <2> QED BY <2>2, <1>1, <1>4, FS_Subset
<1> QED BY <1>4

LEMMA FirstIsIn == \A s : s # {} => First(s) \in s /\ s \ {First(s)} \subseteq s /\ s \ {First(s)} # s
BY DEF First

\* Two sums agree on a set on which their ledgers do.
LEMMA AddsAgree ==
    ASSUME NEW led1, NEW led2, NEW k1, NEW k2, NEW S1, NEW S2, Adds(led1, k1, S1), Adds(led2, k2, S2),
           NEW S, S \subseteq S1, S \subseteq S2, IsFiniteSet(S),
           \A x \in S : Amount(led1, x) = Amount(led2, x)
    PROVE  k1[S] = k2[S]
<1> DEFINE T == {s \in SUBSET S : k1[s] # k2[s]}
<1> SUFFICES ASSUME T # {} PROVE FALSE
  OBVIOUS
<1>1. PICK s \in T : \A t \in T : t \subseteq s => t = s
  <2>1. T \in SUBSET (SUBSET S)
    OBVIOUS
  <2> HIDE DEF T
  <2> QED BY <2>1, SmallestSet
<1>2. /\ k1[s] = IF s = {} THEN 0 ELSE Amount(led1, First(s)) + k1[s \ {First(s)}]
      /\ k2[s] = IF s = {} THEN 0 ELSE Amount(led2, First(s)) + k2[s \ {First(s)}]
  BY DEF Adds
<1>3. s # {}
  BY <1>2
<1>4. k1[s \ {First(s)}] = k2[s \ {First(s)}]
  BY <1>1, <1>3, FirstIsIn
<1>5. Amount(led1, First(s)) = Amount(led2, First(s))
  BY <1>3, FirstIsIn
<1> QED BY <1>2, <1>3, <1>4, <1>5

LEMMA AddsExists ==
    ASSUME NEW S, IsFiniteSet(S), NEW led
    PROVE  \E k : Adds(led, k, S)
<1> DEFINE T == {s \in SUBSET S : ~\E k : Adds(led, k, s)}
<1> SUFFICES ASSUME T # {} PROVE FALSE
  OBVIOUS
<1>1. PICK s \in T : \A t \in T : t \subseteq s => t = s
  <2>1. T \in SUBSET (SUBSET S)
    OBVIOUS
  <2> HIDE DEF T
  <2> QED BY <2>1, SmallestSet
<1> DEFINE of_(u) == CHOOSE k : Adds(led, k, u)
           V(u) == of_(u)[u]
           k0 == [t \in SUBSET s |-> IF t = {} THEN 0 ELSE Amount(led, First(t)) + V(t \ {First(t)})]
<1>2. \A u \in SUBSET s : u # s => Adds(led, of_(u), u)
  BY <1>1
<1>3. ASSUME NEW u \in SUBSET s, u # s
      PROVE  V(u) = IF u = {} THEN 0 ELSE Amount(led, First(u)) + V(u \ {First(u)})
  <2>1. Adds(led, of_(u), u)
    BY <1>2, <1>3
  <2>2. V(u) = IF u = {} THEN 0 ELSE Amount(led, First(u)) + of_(u)[u \ {First(u)}]
    <3> DEFINE k == of_(u)
    <3>1. k = [t \in SUBSET u |-> IF t = {} THEN 0 ELSE Amount(led, First(t)) + k[t \ {First(t)}]]
      BY <2>1 DEF Adds
    <3> HIDE DEF k
    <3>2. k[u] = IF u = {} THEN 0 ELSE Amount(led, First(u)) + k[u \ {First(u)}]
      BY <3>1
    <3> QED BY <3>2 DEF k
  <2>3. ASSUME u # {} PROVE of_(u)[u \ {First(u)}] = V(u \ {First(u)})
    <3> DEFINE w == u \ {First(u)}
    <3>1. w \in SUBSET s /\ w # s /\ w \subseteq u /\ w \subseteq w /\ IsFiniteSet(w)
      BY <2>3, <1>3, FirstIsIn, FS_Subset
    <3>2. Adds(led, of_(w), w)
      BY <3>1, <1>2
    <3> HIDE DEF w, of_
    <3>3. of_(u)[w] = of_(w)[w]
      BY <2>1, <3>1, <3>2, AddsAgree
    <3> QED BY <3>3 DEF w
  <2> QED BY <2>2, <2>3
<1>4. \A u \in SUBSET s : u # s => k0[u] = V(u)
  <2> HIDE DEF V
  <2> QED BY <1>3
<1>5. Adds(led, k0, s)
  <2>1. \A t \in SUBSET s : t # {} => k0[t \ {First(t)}] = V(t \ {First(t)})
    <3> SUFFICES ASSUME NEW t \in SUBSET s, t # {} PROVE t \ {First(t)} \in SUBSET s /\ t \ {First(t)} # s
      BY <1>4
    <3> QED BY FirstIsIn
  <2>2. k0 = [t \in SUBSET s |-> IF t = {} THEN 0 ELSE Amount(led, First(t)) + k0[t \ {First(t)}]]
    <3> DEFINE k1 == [t \in SUBSET s |-> IF t = {} THEN 0 ELSE Amount(led, First(t)) + k0[t \ {First(t)}]]
    <3>1. \A t \in SUBSET s : k1[t] = k0[t]
      <4> HIDE DEF V
      <4> QED BY <2>1
    <3>2. DOMAIN k1 = DOMAIN k0 /\ k1 = [t \in SUBSET s |-> k1[t]] /\ k0 = [t \in SUBSET s |-> k0[t]]
      OBVIOUS
    <3> HIDE DEF k0, k1
    <3>3. k1 = k0
      BY <3>1, <3>2
    <3> QED BY <3>3 DEF k1
  <2> HIDE DEF k0
  <2> QED BY <2>2 DEF Adds
<1> QED BY <1>1, <1>5

LEMMA TotalIs ==
    ASSUME NEW S, IsFiniteSet(S), NEW led
    PROVE  \E k : Adds(led, k, S) /\ Total(led, S) = k[S]
<1> DEFINE iter == CHOOSE k : k = [s \in SUBSET S |-> IF s = {} THEN 0 ELSE LET x == CHOOSE x \in s : TRUE IN (IF led[x] = Unknown THEN 0 ELSE led[x]) + k[s \ {x}]]
<1>0. \E k : Adds(led, k, S)
  BY AddsExists
<1>1. Adds(led, iter, S)
  BY <1>0 DEF Adds, Amount, First
<1>2. Total(led, S) = iter[S]
  BY DEF Total, MapThenSumSet, MapThenFoldSet
<1> HIDE DEF iter
<1> QED BY <1>1, <1>2

LEMMA TotalsAgree ==
    ASSUME NEW led1, NEW led2, NEW S, IsFiniteSet(S), \A x \in S : Amount(led1, x) = Amount(led2, x)
    PROVE  Total(led1, S) = Total(led2, S)
<1>1. PICK k1 : Adds(led1, k1, S) /\ Total(led1, S) = k1[S]
  BY TotalIs
<1>2. PICK k2 : Adds(led2, k2, S) /\ Total(led2, S) = k2[S]
  BY TotalIs
<1> QED BY <1>1, <1>2, AddsAgree

LEMMA TotalIsNat ==
    ASSUME NEW S, IsFiniteSet(S), NEW led, \A x \in S : led[x] \in Amounts
    PROVE  Total(led, S) \in Nat
<1>1. PICK k : Adds(led, k, S) /\ Total(led, S) = k[S]
  BY TotalIs
<1> DEFINE T == {s \in SUBSET S : k[s] \notin Nat}
<1>2. ASSUME T # {} PROVE FALSE
  <2>1. PICK s \in T : \A t \in T : t \subseteq s => t = s
    <3>1. T \in SUBSET (SUBSET S)
      OBVIOUS
    <3> HIDE DEF T
    <3> QED BY <1>2, <3>1, SmallestSet
  <2>2. k[s] = IF s = {} THEN 0 ELSE Amount(led, First(s)) + k[s \ {First(s)}]
    BY <1>1 DEF Adds
  <2>3. s # {}
    BY <2>2
  <2>4. k[s \ {First(s)}] \in Nat
    BY <2>1, <2>3, FirstIsIn
  <2>5. Amount(led, First(s)) \in Nat
    BY <2>3, FirstIsIn DEF Amount, Amounts, Unknown
  <2> QED BY <2>2, <2>3, <2>4, <2>5
<1> QED BY <1>1, <1>2

\* The sum of a smaller set is the same function's value there.
LEMMA TotalOfPart ==
    ASSUME NEW S, IsFiniteSet(S), NEW led, NEW k, Adds(led, k, S), NEW s \in SUBSET S
    PROVE  Total(led, s) = k[s]
<1>1. IsFiniteSet(s)
  BY FS_Subset
<1>2. PICK k1 : Adds(led, k1, s) /\ Total(led, s) = k1[s]
  BY <1>1, TotalIs
<1> QED BY <1>1, <1>2, AddsAgree

LEMMA TotalOfFirst ==
    ASSUME NEW S, IsFiniteSet(S), NEW led, S # {}
    PROVE  Total(led, S) = Amount(led, First(S)) + Total(led, S \ {First(S)})
<1>1. PICK k : Adds(led, k, S) /\ Total(led, S) = k[S]
  BY TotalIs
<1>2. k[S] = Amount(led, First(S)) + k[S \ {First(S)}]
  BY <1>1 DEF Adds
<1>3. S \ {First(S)} \in SUBSET S
  OBVIOUS
<1>4. Total(led, S \ {First(S)}) = k[S \ {First(S)}]
  BY <1>1, <1>3, TotalOfPart
<1> QED BY <1>1, <1>2, <1>4

\* Any member may be taken out first.
LEMMA TotalWithout ==
    ASSUME NEW S, IsFiniteSet(S), NEW led, \A x \in S : led[x] \in Amounts, NEW x \in S
    PROVE  Total(led, S) = Amount(led, x) + Total(led, S \ {x})
<1> DEFINE T == {s \in SUBSET S : \E y \in s : Total(led, s) # Amount(led, y) + Total(led, s \ {y})}
<1> SUFFICES ASSUME T # {} PROVE FALSE
  OBVIOUS
<1>1. PICK s \in T : \A t \in T : t \subseteq s => t = s
  <2>1. T \in SUBSET (SUBSET S)
    OBVIOUS
  <2> HIDE DEF T
  <2> QED BY <2>1, SmallestSet
<1>2. PICK y \in s : Total(led, s) # Amount(led, y) + Total(led, s \ {y})
  BY <1>1
<1> DEFINE z == First(s)
<1>3. z \in s /\ IsFiniteSet(s) /\ s \in SUBSET S
  BY <1>1, <1>2, FirstIsIn, FS_Subset
<1>4. Total(led, s) = Amount(led, z) + Total(led, s \ {z})
  BY <1>3, TotalOfFirst
<1> HIDE DEF z
<1>5. y # z
  BY <1>2, <1>4
<1>6. Total(led, s \ {z}) = Amount(led, y) + Total(led, (s \ {z}) \ {y})
  <2>1. s \ {z} \in SUBSET S /\ s \ {z} # s /\ s \ {z} \subseteq s /\ y \in s \ {z}
    BY <1>3, <1>5
  <2> QED BY <2>1, <1>1
<1>7. Total(led, s \ {y}) = Amount(led, z) + Total(led, (s \ {y}) \ {z})
  <2>1. s \ {y} \in SUBSET S /\ s \ {y} # s /\ s \ {y} \subseteq s /\ z \in s \ {y}
    BY <1>3, <1>5
  <2> QED BY <2>1, <1>1
<1>8. (s \ {z}) \ {y} = (s \ {y}) \ {z}
  OBVIOUS
<1> DEFINE w == (s \ {z}) \ {y}
<1>9. Total(led, w) \in Nat
  <2>1. w \in SUBSET S /\ IsFiniteSet(w)
    BY <1>3, FS_Subset
  <2> HIDE DEF w
  <2> QED BY <2>1, TotalIsNat
<1>10. Amount(led, y) \in Nat /\ Amount(led, z) \in Nat
  BY <1>3 DEF Amount, Amounts, Unknown
<1> QED BY <1>2, <1>4, <1>6, <1>7, <1>8, <1>9, <1>10

LEMMA TotalGrows ==
    ASSUME NEW S, IsFiniteSet(S), NEW led, \A x \in S : led[x] \in Amounts, NEW R \in SUBSET S
    PROVE  Total(led, R) <= Total(led, S)
<1> DEFINE T == {s \in SUBSET S : R \subseteq s /\ ~(Total(led, R) <= Total(led, s))}
<1> SUFFICES ASSUME T # {} PROVE FALSE
  OBVIOUS
<1>1. PICK s \in T : \A t \in T : t \subseteq s => t = s
  <2>1. T \in SUBSET (SUBSET S)
    OBVIOUS
  <2> HIDE DEF T
  <2> QED BY <2>1, SmallestSet
<1>2. IsFiniteSet(s) /\ IsFiniteSet(R) /\ s \in SUBSET S
  BY <1>1, FS_Subset
<1>3. Total(led, s) \in Nat /\ Total(led, R) \in Nat
  <2>1. (\A x \in s : led[x] \in Amounts) /\ (\A x \in R : led[x] \in Amounts)
    BY <1>2
  <2> QED BY <1>2, <2>1, TotalIsNat
<1>4. s # R
  BY <1>1, <1>3
<1>5. PICK x \in s : x \notin R
  BY <1>1, <1>4
<1> DEFINE t == s \ {x}
<1>6. t \in SUBSET S /\ R \subseteq t /\ t \subseteq s /\ t # s
  BY <1>1, <1>5
<1>7. Total(led, R) <= Total(led, t)
  BY <1>1, <1>6
<1>8. Total(led, s) = Amount(led, x) + Total(led, t)
  <2>1. \A y \in s : led[y] \in Amounts
    BY <1>2
  <2> QED BY <1>2, <2>1, TotalWithout
<1>9. Total(led, t) \in Nat /\ Amount(led, x) \in Nat
  <2>1. IsFiniteSet(t) /\ \A y \in t : led[y] \in Amounts
    BY <1>6, FS_Subset
  <2>2. led[x] \in Amounts
    BY <1>2
  <2> HIDE DEF t
  <2> QED BY <2>1, <2>2, TotalIsNat DEF Amount, Amounts, Unknown
<1> HIDE DEF t
<1>10. Total(led, R) <= Total(led, s)
  BY <1>3, <1>7, <1>8, <1>9
<1> QED BY <1>1, <1>10

-----------------------------------------------------------------------------
(***************************************************************************)
(* Each job keeps its account (AccountOf).  While no two jobs overlapped,  *)
(* one spends at most (OneSpends), and what it may spend (Most) fits under *)
(* both caps and one overrun beside what is recorded (Reserved); hence     *)
(* recording its usage keeps the caps.  An exhausted budget starts no      *)
(* session, so that only the last one of a job goes beyond.                *)
(***************************************************************************)
SpendTypes ==
    /\ pc \in [Job -> Point] /\ of \in [Job -> Name]
    /\ limit \in [Job -> Nat] /\ spent \in [Job -> Nat] /\ known \in [Job -> Nat]
    /\ usage \in [Job -> Amounts] /\ ledger \in [Job -> Amounts]
    /\ overlap \in BOOLEAN

RepairsOf(n) == {j \in Repairs : of[j] = n}
Spending(j) == j \notin Imports /\ AtWork(j) /\ pc[j] # "budget"

Most(j) == IF limit[j] = 0 THEN 0 ELSE limit[j] + Overrun

AccountOf(j) ==
    /\ known[j] = spent[j] /\ spent[j] <= Most(j)
    /\ usage[j] <= known[j] /\ ledger[j] <= known[j]
    /\ ledger[j] # Unknown => pc[j] = "done"
    /\ pc[j] \in {"new", "budget"} => spent[j] = 0 /\ usage[j] = Unknown
    /\ j \in Imports => pc[j] \in {"new", "insert", "done", "refused", "raised"}
Accounts == \A j \in Job : AccountOf(j)

Reserved(j) ==
    /\ Total(ledger, Job) + Most(j) <= Cap + Overrun
    /\ j \in Repairs => Total(ledger, RepairsOf(of[j])) + Most(j) <= ScraperCap + Overrun
OneSpends ==
    /\ \A i, j \in Job : Spending(i) /\ Spending(j) => i = j
    /\ \A j \in Job : Spending(j) => Reserved(j)
WithinCaps ==
    /\ Total(ledger, Job) <= Cap + Overrun
    /\ \A n \in Name : Total(ledger, RepairsOf(n)) <= ScraperCap + Overrun

SpendInv == SpendTypes /\ Accounts /\ (overlap \/ (OneSpends /\ WithinCaps))

LEMMA JobsAreFinite ==
    /\ IsFiniteSet(Job)
    /\ \A S \in SUBSET Job : IsFiniteSet(S)
    /\ \A n : RepairsOf(n) \subseteq Job
<1>1. IsFiniteSet(Builds \cup Repairs)
  BY JobsAssumption, FS_Union
<1>2. IsFiniteSet(Job)
  BY <1>1, JobsAssumption, FS_Union DEF Job
<1>3. \A n : RepairsOf(n) \subseteq Job
  BY DEF RepairsOf, Job
<1> QED BY <1>2, <1>3, FS_Subset

LEMMA TotalsAreNat ==
    ASSUME SpendTypes
    PROVE  \A S \in SUBSET Job : Total(ledger, S) \in Nat
<1> SUFFICES ASSUME NEW S \in SUBSET Job PROVE Total(ledger, S) \in Nat
  OBVIOUS
<1>1. IsFiniteSet(S) /\ \A x \in S : ledger[x] \in Amounts
  BY JobsAreFinite DEF SpendTypes
<1> QED BY <1>1, TotalIsNat

\* A job records its usage for the first time.
LEMMA TotalOfRecord ==
    ASSUME NEW S, IsFiniteSet(S), NEW led1, NEW led2, NEW x \in S,
           \A y \in S : led1[y] \in Amounts /\ led2[y] \in Amounts,
           \A y \in S \ {x} : led2[y] = led1[y], led1[x] = Unknown
    PROVE  Total(led2, S) = Total(led1, S) + Amount(led2, x)
<1> DEFINE R == S \ {x}
<1>1. Total(led1, S) = Amount(led1, x) + Total(led1, R)
  BY TotalWithout
<1>2. Total(led2, S) = Amount(led2, x) + Total(led2, R)
  BY TotalWithout
<1>3. IsFiniteSet(R) /\ (\A y \in R : led1[y] \in Amounts) /\ (\A y \in R : Amount(led2, y) = Amount(led1, y))
  BY FS_Subset DEF Amount
<1> HIDE DEF R
<1>4. Total(led1, R) = Total(led2, R) /\ Total(led1, R) \in Nat
  BY <1>3, TotalsAgree, TotalIsNat
<1>5. Amount(led1, x) = 0 /\ Amount(led2, x) \in Nat
  BY DEF Amount, Amounts, Unknown
<1> QED BY <1>1, <1>2, <1>4, <1>5

-----------------------------------------------------------------------------
LEMMA SpendInit == Init => SpendInv
<1> SUFFICES ASSUME Init PROVE SpendInv
  OBVIOUS
<1>1. SpendTypes
  BY DEF Init, SpendTypes, Point, Amounts
<1>2. Accounts
  BY DEF Init, Accounts, AccountOf, Most, Unknown
<1>3. ASSUME NEW S \in SUBSET Job PROVE Total(ledger, S) = 0
  <2>1. IsFiniteSet(S) /\ \A x \in S : ledger[x] = Unknown
    BY JobsAreFinite DEF Init
  <2>2. PICK k : Adds(ledger, k, S) /\ Total(ledger, S) = k[S]
    BY <2>1, TotalIs
  <2> DEFINE T == {s \in SUBSET S : k[s] # 0}
  <2>3. ASSUME T # {} PROVE FALSE
    <3>1. PICK s \in T : \A t \in T : t \subseteq s => t = s
      <4>1. T \in SUBSET (SUBSET S)
        OBVIOUS
      <4> HIDE DEF T
      <4> QED BY <2>1, <2>3, <4>1, SmallestSet
    <3>2. k[s] = IF s = {} THEN 0 ELSE Amount(ledger, First(s)) + k[s \ {First(s)}]
      BY <2>2 DEF Adds
    <3>3. s # {}
      BY <3>2
    <3>4. k[s \ {First(s)}] = 0 /\ Amount(ledger, First(s)) = 0
      BY <2>1, <3>1, <3>3, FirstIsIn DEF Amount
    <3> QED BY <3>2, <3>3, <3>4
  <2> QED BY <2>2, <2>3
<1>4. WithinCaps
  BY <1>3, JobsAreFinite, JobsAssumption DEF WithinCaps
<1>5. OneSpends
  BY DEF Init, OneSpends, Spending, AtWork
<1> QED BY <1>1, <1>2, <1>4, <1>5 DEF SpendInv

\* A job goes on without a session, and nobody comes to spend who did not.
LEMMA SpendMovesOn ==
    ASSUME SpendInv, NEW j \in Job, NEW to \in Point, Goto(j, to),
           UNCHANGED <<of, limit, spent, known, ledger, overlap>>,
           UNCHANGED usage \/ usage' = [usage EXCEPT ![j] = Unknown],
           pc[j] # "done", to # "new", to = "budget" => pc[j] = "new",
           Spending(j) \/ to \in {"budget", "done", "refused", "raised"} \/ j \in Imports,
           j \in Imports => to \in {"insert", "done", "refused", "raised"}
    PROVE  SpendInv'
<1>1. SpendTypes /\ Accounts /\ pc' = [pc EXCEPT ![j] = to]
  BY DEF SpendInv, Goto
<1>2. SpendTypes'
  BY <1>1 DEF SpendTypes, Amounts
<1>3. \A i \in Job : /\ pc'[i] = IF i = j THEN to ELSE pc[i]
                     /\ usage'[i] = usage[i] \/ usage'[i] = Unknown
                     /\ i # j => usage'[i] = usage[i]
  BY <1>1 DEF SpendTypes
<1>4. Accounts'
  <2> SUFFICES ASSUME NEW i \in Job PROVE AccountOf(i)'
    BY DEF Accounts
  <2>1. AccountOf(i) /\ known[i] \in Nat
    BY <1>1 DEF Accounts, SpendTypes
  <2>2. usage'[i] <= known[i]
    BY <1>3, <2>1 DEF AccountOf, Unknown
  <2> QED BY <1>3, <2>1, <2>2 DEF AccountOf, Most
<1>5. \A i \in Job : Spending(i)' => Spending(i)
  BY <1>3 DEF Spending, AtWork
<1>6. \A i \in Job : Reserved(i) => Reserved(i)'
  BY DEF Reserved, RepairsOf, Most
<1>7. OneSpends /\ WithinCaps => OneSpends' /\ WithinCaps'
  BY <1>5, <1>6 DEF OneSpends, WithinCaps, RepairsOf
<1>8. overlap' = overlap
  OBVIOUS
<1> QED BY <1>2, <1>4, <1>7, <1>8 DEF SpendInv

\* A job reads its budget: at most what is left of both caps, unless it overlaps.
LEMMA SpendBudget ==
    ASSUME SpendInv, NEW j \in Builds \cup Repairs, pc[j] \in {"new", "budget"},
           NEW next \in {"named", "session"}, ReadBudget(j, next),
           UNCHANGED <<of, spent, usage, known, ledger>>
    PROVE  SpendInv'
<1> DEFINE to == IF Refused(j) THEN "refused" ELSE next
           most == IF Refused(j) THEN 0 ELSE Headroom(j)
<1>1. /\ SpendTypes /\ Accounts /\ j \in Job
      /\ pc' = [pc EXCEPT ![j] = to] /\ limit' = [limit EXCEPT ![j] = most]
      /\ overlap' = (overlap \/ (~Refused(j) /\ \E i \in (Builds \cup Repairs) \ {j} : AtWork(i)))
  BY DEF SpendInv, ReadBudget, Goto, Job
<1> DEFINE month == Total(ledger, Job)
           here == Total(ledger, RepairsOf(of[j]))
           all == SpentOn(of[j])
<1>2. month \in Nat /\ here \in Nat /\ all \in Nat /\ here <= all /\ Month = month
  <2> DEFINE S == {i \in Job : of[i] = of[j] /\ (i \in Builds => Built(i))}
  <2>1. S \in SUBSET Job /\ RepairsOf(of[j]) \in SUBSET S /\ Job \in SUBSET Job
    BY JobsAssumption DEF RepairsOf, Job
  <2>2. all = Total(ledger, S) /\ Month = month
    BY DEF SpentOn, Month, SpendOf, Total
  <2> HIDE DEF S
  <2>3. IsFiniteSet(S) /\ \A x \in S : ledger[x] \in Amounts
    BY <1>1, <2>1, JobsAreFinite DEF SpendTypes
  <2>4. here <= Total(ledger, S)
    BY <2>1, <2>3, TotalGrows
  <2> QED BY <1>1, <2>1, <2>2, <2>4, TotalsAreNat, JobsAreFinite
<1> HIDE DEF month, here, all
<1> DEFINE bill == IF most = 0 THEN 0 ELSE most + Overrun
<1>3. most \in Nat /\ (WithinCaps /\ ~Refused(j) =>
          /\ month + bill <= Cap + Overrun
          /\ j \in Repairs => here + bill <= ScraperCap + Overrun)
  <2>1. WithinCaps => month <= Cap + Overrun /\ here <= ScraperCap + Overrun
    BY <1>1 DEF WithinCaps, month, here, SpendTypes
  <2>2. Headroom(j) = Larger(IF j \in Repairs THEN Smaller(Cap - month, ScraperCap - all) ELSE Cap - month, 0)
    BY <1>2 DEF Headroom, all
  <2>3. Cap - month \in Int /\ ScraperCap - all \in Int /\ Cap \in Nat /\ ScraperCap \in Nat
        /\ Overrun \in Nat
    BY <1>2, JobsAssumption
  <2>4. CASE j \in Repairs
    BY <1>2, <2>1, <2>2, <2>3, <2>4 DEF Larger, Smaller
  <2>5. CASE j \notin Repairs
    BY <1>2, <2>1, <2>2, <2>3, <2>5 DEF Larger, Smaller
  <2> QED BY <2>4, <2>5
<1> HIDE DEF most
<1>4. to \in {"refused", "named", "session"} /\ to \in Point
  BY DEF Point
<1>5. \A i \in Job : /\ pc'[i] = IF i = j THEN to ELSE pc[i]
                     /\ limit'[i] = IF i = j THEN most ELSE limit[i]
  BY <1>1 DEF SpendTypes
<1>6. SpendTypes'
  <2>1. pc' \in [Job -> Point] /\ limit' \in [Job -> Nat] /\ overlap' \in BOOLEAN
    BY <1>1, <1>3, <1>4 DEF SpendTypes
  <2> QED BY <1>1, <2>1 DEF SpendTypes
<1>7. Accounts'
  <2> SUFFICES ASSUME NEW i \in Job PROVE AccountOf(i)'
    BY DEF Accounts
  <2>1. AccountOf(i) /\ AccountOf(j)
    BY <1>1 DEF Accounts
  <2>2. CASE i = j
    <3>1. spent[j] = 0 /\ usage[j] = Unknown /\ ledger[j] = Unknown /\ j \notin Imports
      BY <2>1, JobsAssumption DEF AccountOf
    <3>2. bill \in Nat /\ Most(i)' = bill
      BY <1>3, <1>5, <2>2, JobsAssumption DEF Most
    <3> QED BY <1>4, <1>5, <2>1, <2>2, <3>1, <3>2 DEF AccountOf
  <2>3. CASE i # j
    BY <1>5, <2>1, <2>3 DEF AccountOf, Most
  <2> QED BY <2>2, <2>3
<1>8. ASSUME ~overlap' PROVE OneSpends' /\ WithinCaps'
  <2>1. OneSpends /\ WithinCaps
    BY <1>1, <1>8 DEF SpendInv
  <2>2. WithinCaps'
    BY <2>1 DEF WithinCaps, RepairsOf
  <2>3. \A i \in Job \ {j} : Spending(i)' => Spending(i)
    BY <1>5 DEF Spending, AtWork
  <2>4. \A i \in Job \ {j} : Reserved(i) => Reserved(i)'
    BY <1>5 DEF Reserved, RepairsOf, Most
  <2>5. Spending(j)' => ~Refused(j)
    BY <1>1, <1>5 DEF Spending, AtWork
  <2>6. ~Refused(j) => \A i \in Job \ {j} : ~Spending(i)
    BY <1>1, <1>8 DEF Spending, Job
  <2>7. Spending(j)' => Reserved(j)'
    <3>1. Most(j)' = bill
      BY <1>1, <1>5 DEF Most
    <3> QED BY <1>1, <1>3, <2>1, <2>5, <3>1 DEF Reserved, RepairsOf, month, here
  <2>8. \A i, k \in Job : Spending(i)' /\ Spending(k)' => i = k
    BY <2>1, <2>3, <2>5, <2>6 DEF OneSpends
  <2>9. \A i \in Job : Spending(i)' => Reserved(i)'
    BY <2>1, <2>3, <2>4, <2>7 DEF OneSpends
  <2> QED BY <2>2, <2>8, <2>9 DEF OneSpends
<1> QED BY <1>6, <1>7, <1>8 DEF SpendInv

\* A session costs at most what is left of the budget.
LEMMA SpendSession ==
    ASSUME SpendInv, NEW j \in Job, pc[j] = "session", NEW cost \in Nat, NEW billed \in BOOLEAN,
           Charge(j, cost, billed), NEW to \in {"open", "save", "persist", "record"}, Goto(j, to),
           UNCHANGED <<of, limit, ledger, overlap>>
    PROVE  SpendInv'
<1> DEFINE charge == IF billed THEN cost ELSE 0
<1>1. SpendTypes /\ Accounts /\ pc' = [pc EXCEPT ![j] = to] /\ AccountOf(j)
  BY DEF SpendInv, Goto, Accounts
<1>2. spent[j] \in Nat /\ limit[j] \in Nat /\ known[j] \in Nat /\ charge \in Nat /\ Overrun \in Nat
  BY <1>1, JobsAssumption DEF SpendTypes
<1>3. spent[j] + charge <= Most(j)
  <2>1. CASE billed
    <3>1. spent[j] < limit[j]
      BY <1>2, <2>1 DEF Charge, Exhausted
    <3>2. cost <= Larger(limit[j] - spent[j], 0) + Overrun
      BY <1>2 DEF Charge, Remaining, Larger
    <3>3. Larger(limit[j] - spent[j], 0) = limit[j] - spent[j]
      BY <1>2, <3>1 DEF Larger
    <3> QED BY <1>2, <2>1, <3>1, <3>2, <3>3 DEF Most
  <2>2. CASE ~billed
    BY <1>1, <1>2, <2>2 DEF AccountOf, Most
  <2> QED BY <2>1, <2>2
<1>4. \A i \in Job : /\ pc'[i] = IF i = j THEN to ELSE pc[i]
                     /\ spent'[i] = IF i = j THEN spent[j] + charge ELSE spent[i]
                     /\ known'[i] = IF i = j THEN known[j] + charge ELSE known[i]
                     /\ usage'[i] = IF i = j THEN IF billed THEN charge ELSE Unknown ELSE usage[i]
  BY <1>1, <1>2 DEF SpendTypes, Charge
<1>5. SpendTypes'
  <2>1. pc' \in [Job -> Point]
    BY <1>1 DEF SpendTypes, Point
  <2>2. spent' \in [Job -> Nat] /\ known' \in [Job -> Nat]
    BY <1>1, <1>2 DEF SpendTypes, Charge
  <2>3. usage' \in [Job -> Amounts]
    BY <1>1 DEF SpendTypes, Charge, Amounts
  <2> QED BY <1>1, <2>1, <2>2, <2>3 DEF SpendTypes
<1>6. Accounts'
  <2> SUFFICES ASSUME NEW i \in Job PROVE AccountOf(i)'
    BY DEF Accounts
  <2>1. AccountOf(i)
    BY <1>1 DEF Accounts
  <2>2. CASE i = j
    <3>1. ledger[j] = Unknown /\ j \notin Imports /\ known[j] = spent[j]
      BY <1>1 DEF AccountOf
    <3>2. Most(i)' = Most(i)
      BY DEF Most
    <3> HIDE DEF charge
    <3> QED BY <1>2, <1>3, <1>4, <2>1, <2>2, <3>1, <3>2 DEF AccountOf, Unknown
  <2>3. CASE i # j
    BY <1>4, <2>1, <2>3 DEF AccountOf, Most
  <2> QED BY <2>2, <2>3
<1>7. \A i \in Job : Spending(i)' => Spending(i)
  <2>1. Spending(j)
    BY <1>1 DEF Spending, AtWork, AccountOf
  <2> QED BY <1>4, <2>1 DEF Spending, AtWork
<1>8. \A i \in Job : Reserved(i) => Reserved(i)'
  BY DEF Reserved, RepairsOf, Most
<1>9. OneSpends /\ WithinCaps => OneSpends' /\ WithinCaps'
  BY <1>7, <1>8 DEF OneSpends, WithinCaps, RepairsOf
<1>10. overlap' = overlap
  OBVIOUS
<1> QED BY <1>5, <1>6, <1>9, <1>10 DEF SpendInv

\* What is recorded was reserved.
LEMMA SpendRecord ==
    ASSUME SpendInv, NEW j \in Job, RecordUsage(j)
    PROVE  SpendInv'
<1>1. /\ SpendTypes /\ Accounts /\ AccountOf(j) /\ pc[j] = "record" /\ pc' = [pc EXCEPT ![j] = "done"]
      /\ ledger' = [ledger EXCEPT ![j] = usage[j]]
      /\ UNCHANGED <<of, limit, spent, usage, known, overlap>>
  BY DEF SpendInv, RecordUsage, Goto, Accounts, own, history
<1>2. SpendTypes'
  BY <1>1 DEF SpendTypes, Point
<1>3. \A i \in Job : /\ pc'[i] = IF i = j THEN "done" ELSE pc[i]
                     /\ ledger'[i] = IF i = j THEN usage[j] ELSE ledger[i]
  BY <1>1 DEF SpendTypes
<1>4. Accounts'
  <2> SUFFICES ASSUME NEW i \in Job PROVE AccountOf(i)'
    BY DEF Accounts
  <2>1. AccountOf(i)
    BY <1>1 DEF Accounts
  <2> QED BY <1>1, <1>3, <2>1 DEF AccountOf, Most
<1>5. ASSUME ~overlap' PROVE OneSpends' /\ WithinCaps'
  <2>1. OneSpends /\ WithinCaps /\ Spending(j) /\ j \notin Imports /\ ledger[j] = Unknown
    BY <1>1, <1>5 DEF SpendInv, Spending, AtWork, AccountOf
  <2>2. \A i \in Job : ~Spending(i)'
    BY <1>3, <2>1 DEF Spending, AtWork, OneSpends
  <2>3. Reserved(j)
    BY <2>1 DEF OneSpends
  <2> DEFINE a == Amount(ledger', j)
  <2>4. a \in Nat /\ a <= Most(j) /\ Most(j) \in Nat /\ Overrun \in Nat
    <3>1. Most(j) \in Nat /\ Overrun \in Nat /\ known[j] \in Nat
      BY <1>1, JobsAssumption DEF Most, SpendTypes
    <3> QED BY <1>1, <1>3, <3>1 DEF SpendTypes, Amounts, Amount, AccountOf
  <2>5. ASSUME NEW S \in SUBSET Job, j \in S PROVE Total(ledger', S) = Total(ledger, S) + a
    <3>1. /\ IsFiniteSet(S) /\ \A y \in S : ledger[y] \in Amounts /\ ledger'[y] \in Amounts
          /\ \A y \in S \ {j} : ledger'[y] = ledger[y]
      BY <1>1, <1>2, <1>3, JobsAreFinite DEF SpendTypes
    <3> QED BY <2>1, <2>5, <3>1, TotalOfRecord
  <2>6. ASSUME NEW S \in SUBSET Job, j \notin S PROVE Total(ledger', S) = Total(ledger, S)
    <3>1. IsFiniteSet(S) /\ \A y \in S : Amount(ledger', y) = Amount(ledger, y)
      BY <1>3, <2>6, JobsAreFinite DEF Amount
    <3> QED BY <3>1, TotalsAgree
  <2> HIDE DEF a
  <2>7. \A S \in SUBSET Job : Total(ledger, S) \in Nat
    BY <1>1, TotalsAreNat
  <2>8. Total(ledger', Job) <= Cap + Overrun
    <3>1. Total(ledger', Job) = Total(ledger, Job) + a /\ Total(ledger, Job) \in Nat
      BY <2>5, <2>7
    <3> QED BY <2>3, <2>4, <3>1, JobsAssumption DEF Reserved
  <2>9. ASSUME NEW n \in Name PROVE Total(ledger', RepairsOf(n)) <= ScraperCap + Overrun
    <3>1. RepairsOf(n) \in SUBSET Job /\ Total(ledger, RepairsOf(n)) <= ScraperCap + Overrun
      BY <2>1, JobsAreFinite DEF WithinCaps
    <3>2. CASE j \in RepairsOf(n)
      <4>1. Total(ledger, RepairsOf(n)) + Most(j) <= ScraperCap + Overrun
        BY <2>3, <3>2 DEF Reserved, RepairsOf
      <4>2. Total(ledger', RepairsOf(n)) = Total(ledger, RepairsOf(n)) + a /\ Total(ledger, RepairsOf(n)) \in Nat
        BY <2>5, <2>7, <3>1, <3>2
      <4> QED BY <2>4, <4>1, <4>2, JobsAssumption
    <3>3. CASE j \notin RepairsOf(n)
      BY <2>6, <3>1, <3>3
    <3> QED BY <3>2, <3>3
  <2>10. \A n : RepairsOf(n)' = RepairsOf(n)
    BY <1>1 DEF RepairsOf
  <2> QED BY <2>2, <2>8, <2>9, <2>10 DEF OneSpends, WithinCaps
<1> QED BY <1>1, <1>2, <1>4, <1>5 DEF SpendInv

LEMMA SpendNext == SpendInv /\ [Next]_vars => SpendInv'
<1> SUFFICES ASSUME SpendInv, [Next]_vars PROVE SpendInv'
  OBVIOUS
<1>1. ASSUME NEW j \in Builds, BuildStep(j) PROVE SpendInv'
  <2>1. j \in Job /\ j \in Builds \cup Repairs /\ j \notin Imports
    BY JobsAssumption DEF Job
  <2>2. CASE BeginBuild(j)
    BY <2>1, <2>2, SpendBudget DEF BeginBuild, world
  <2>3. CASE CheckName(j) \/ OpenEngine(j) \/ SaveFile(j) \/ InsertScraper(j)
    <3>1. /\ UNCHANGED <<of, limit, spent, known, ledger, overlap>>
          /\ UNCHANGED usage \/ usage' = [usage EXCEPT ![j] = Unknown]
          /\ pc[j] \in {"named", "open", "save", "insert"}
      BY <2>3 DEF CheckName, OpenEngine, SaveFile, InsertScraper, LookUpName, own, world, history
    <3>2. PICK to \in {"open", "refused", "session", "record", "insert", "raised"} : Goto(j, to)
      BY <2>1, <2>3 DEF CheckName, OpenEngine, SaveFile, InsertScraper, LookUpName, Climb, GiveUp
    <3>3. Spending(j) /\ to \in Point
      BY <2>1, <3>1, <3>2 DEF Spending, AtWork, Point
    <3> QED BY <2>1, <3>1, <3>2, <3>3, SpendMovesOn
  <2>4. CASE BuildSession(j)
    <3>1. PICK cost \in 0..(Cap + Overrun), billed \in BOOLEAN :
            /\ pc[j] = "session" /\ Charge(j, cost, billed) /\ UNCHANGED <<of, limit, ledger, overlap>>
            /\ \E to \in {"open", "save", "record"} : Goto(j, to)
      BY <2>4 DEF BuildSession, Climb, GiveUp, world
    <3>2. cost \in Nat
      BY JobsAssumption
    <3> QED BY <2>1, <3>1, <3>2, SpendSession
  <2> QED BY <1>1, <2>2, <2>3, <2>4 DEF BuildStep
<1>2. ASSUME NEW j \in Repairs, RepairStep(j) PROVE SpendInv'
  <2>1. j \in Job /\ j \in Builds \cup Repairs /\ j \notin Imports
    BY JobsAssumption DEF Job
  <2>2. CASE BeginRepair(j)
    <3>1. pc[j] = "new" /\ UNCHANGED <<of, limit, spent, usage, known, ledger, overlap>>
      BY <2>2 DEF BeginRepair, world, history
    <3>2. PICK to \in {"refused", "budget"} : Goto(j, to)
      BY <2>2 DEF BeginRepair
    <3> QED BY <2>1, <3>1, <3>2, SpendMovesOn DEF Point
  <2>3. CASE RepairBudget(j)
    BY <2>1, <2>3, SpendBudget DEF RepairBudget, world
  <2>4. CASE RepairSession(j)
    <3>1. PICK cost \in 0..(Cap + Overrun), billed \in BOOLEAN :
            /\ pc[j] = "session" /\ Charge(j, cost, billed) /\ UNCHANGED <<of, limit, ledger, overlap>>
            /\ \E to \in {"persist", "record"} : Goto(j, to)
      BY <2>4 DEF RepairSession, world
    <3>2. cost \in Nat
      BY JobsAssumption
    <3> QED BY <2>1, <3>1, <3>2, SpendSession
  <2>5. CASE ParkRepair(j) \/ WriteRepair(j) \/ PromoteRepair(j)
    <3>1. pc[j] \in {"persist", "promote"} /\ UNCHANGED <<of, limit, spent, usage, known, ledger, overlap>>
      BY <2>5 DEF ParkRepair, WriteRepair, PromoteRepair, own, history
    <3>2. PICK to \in {"raised", "record", "promote"} : Goto(j, to)
      BY <2>5 DEF ParkRepair, WriteRepair, PromoteRepair
    <3>3. Spending(j)
      BY <2>1, <3>1 DEF Spending, AtWork
    <3> QED BY <2>1, <3>1, <3>2, <3>3, SpendMovesOn DEF Point
  <2> QED BY <1>2, <2>2, <2>3, <2>4, <2>5 DEF RepairStep
<1>3. ASSUME NEW j \in Imports, ImportStep(j) PROVE SpendInv'
  <2>1. j \in Job /\ j \notin Builds
    BY JobsAssumption DEF Job
  <2>2. UNCHANGED <<of, limit, spent, usage, known, ledger, overlap>> /\ pc[j] \in {"new", "insert"}
    BY <1>3 DEF ImportStep, ImportFile, InsertScraper, LookUpName, own, history
  <2>3. PICK to \in {"insert", "refused", "raised", "done"} : Goto(j, to)
    BY <1>3, <2>1 DEF ImportStep, ImportFile, InsertScraper, LookUpName
  <2> QED BY <2>1, <2>2, <2>3, SpendMovesOn DEF Point
<1>4. ASSUME NEW j \in Job, JobDies(j) PROVE SpendInv'
  <2>1. AtWork(j) /\ Goto(j, "raised") /\ UNCHANGED <<of, limit, spent, usage, known, ledger, overlap>>
    BY <1>4 DEF JobDies, own, world, history
  <2> QED BY <2>1, SpendMovesOn DEF AtWork, Point
<1>5. ASSUME UNCHANGED <<pc, of, limit, spent, usage, known, ledger, overlap>> PROVE SpendInv'
  <2>1. SpendTypes' /\ Accounts'
    BY <1>5 DEF SpendInv, SpendTypes, Accounts, AccountOf, Most
  <2>2. OneSpends /\ WithinCaps => OneSpends' /\ WithinCaps'
    BY <1>5 DEF OneSpends, WithinCaps, Reserved, RepairsOf, Most, Spending, AtWork
  <2> QED BY <1>5, <2>1, <2>2 DEF SpendInv
<1>6. ASSUME NEW n \in Name, NEW v \in Version, Review(n, v) PROVE SpendInv'
  BY <1>5, <1>6 DEF Review, own, history
<1>7. CASE UNCHANGED vars
  BY <1>5, <1>7 DEF vars, own, world, history
<1> QED BY <1>1, <1>2, <1>3, <1>4, <1>6, <1>7, SpendRecord DEF Next

\* agents/jobs.py: the sessions of a job stay within the headroom it read, and the caps
\* hold as long as no two jobs are under way at once, but for what one session went
\* beyond its max_budget_usd.
THEOREM SpendStaysCapped == Spec => []SpendIsCapped
<1>1. SpendInv => SpendIsCapped
  <2> SUFFICES ASSUME SpendInv PROVE SpendIsCapped
    OBVIOUS
  <2>1. JobStaysInHeadroom
    <3> SUFFICES ASSUME NEW j \in Job PROVE known[j] <= limit[j] + Overrun /\ ledger[j] <= known[j]
      BY DEF JobStaysInHeadroom
    <3>1. AccountOf(j) /\ limit[j] \in Nat /\ known[j] \in Nat /\ Overrun \in Nat
      BY JobsAssumption DEF SpendInv, Accounts, SpendTypes
    <3> QED BY <3>1 DEF AccountOf, Most
  <2>2. Month = Total(ledger, Job)
    BY DEF Month, SpendOf, Total
  <2>3. \A n : SpendOf({j \in Repairs : of[j] = n}) = Total(ledger, RepairsOf(n))
    BY DEF SpendOf, Total, RepairsOf
  <2>4. CapsHoldAlone
    BY <2>2, <2>3 DEF SpendInv, WithinCaps, CapsHoldAlone
  <2> QED BY <2>1, <2>4 DEF SpendIsCapped
<1> QED BY <1>1, SpendInit, SpendNext, PTL DEF Spec
=============================================================================
