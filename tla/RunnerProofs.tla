----------------------------- MODULE RunnerProofs -----------------------------
(***************************************************************************)
(* What is proved of one run (Runner), for every set of scripts that the   *)
(* DSL's models admit, of any length and depth, and any number of pages.   *)
(***************************************************************************)
EXTENDS Runner, SequenceTheorems, WellFoundedInduction, TLAPS

-----------------------------------------------------------------------------
(***************************************************************************)
(* The invariant.  All that a context holds was extracted by the rung that  *)
(* is tried: the rows in its bags, its variables, and in the frames of its  *)
(* loops (Seen).  The stack alternates blocks and the steps that repeat     *)
(* them, so that what is under the frame of a loop or of a pagination is    *)
(* the block to return to.                                                  *)
(***************************************************************************)
Seen == {level} \X Bags \X Nat

BlockFrame == [kind : {"block"}, steps : Seq(Steps), at : Nat \ {0}, from : Nat \ {0}]
LoopFrame(R) ==
    [kind : {"loop"}, step : {s \in Steps : s.op = "loop"}, left : Seq(R),
     item : R \cup {NoRow}, saved : R \cup {NoRow}]
PagesFrame ==
    [kind : {"pages"}, step : {s \in Steps : s.op = "paginate"}, block : Seq(Steps),
     url : BOOLEAN, turns : Nat, no : Nat, before : [Bags -> Nat]]
Frame(R) == BlockFrame \cup LoopFrame(R) \cup PagesFrame

StackFits(st, R) ==
    /\ st \in Seq(Frame(R)) /\ st # <<>> /\ st[1].kind = "block"
    /\ \A i \in 1..Len(st) : st[i].kind = "block" => st[i].from <= st[i].at
    /\ \A i \in 2..Len(st) : (st[i].kind = "block") # (st[i - 1].kind = "block")

ContextTypes ==
    /\ stack = <<>> \/ StackFits(stack, Seen)
    /\ doc \in [list : BOOLEAN, first : Nat, last : Nat]
    /\ page \in Nat /\ visited \in Nat
    /\ scope \in [Items -> Seen \cup {NoRow}]
    /\ named \subseteq Bags /\ bags \in [Bags -> Seq(Seen)]
    /\ rows \in Seq(Seen)

OutcomeTypes ==
    /\ attempts \in Seq(Rung \X (Failure \cup {"ok"}))
    /\ outcome \in [how : How, rows : Seq(Row)]
    /\ outcome.how = "ok" => outcome.rows \in Seq(Seen)
    /\ file \in Seq(Row)

\* The outcome, the exit code and the line that counts at each stage of the run.
CodeTells ==
    /\ outcome.how = "ok" => code \in {0, 1}
    /\ outcome.how = "blocked" => code = 2
    /\ outcome.how \notin {"ok", "blocked"} => code = 3
CodeOfScript == outcome = NoOutcome /\ code \in 0..3
LineTells ==
    /\ line \in Line
    /\ line = "blocked" => attempts # <<>> /\ attempts[Len(attempts)][2] = "blocked"
    /\ pc = "steps" => line = "other"
    /\ pc \in {"told", "exited"} => line # "nothing"
RunTells ==
    IF pc = "recorded"
    THEN /\ code # NoCode => run.status = EXIT_STATUS[code + 1]
         /\ code = NoCode => run.status = "error" \/ (run.status = "blocked" /\ line = "blocked")
    ELSE run.status = "running"
Stages ==
    /\ pc \in {"load", "open", "steps"} => outcome = NoOutcome
    /\ pc \in {"judge", "told"} => outcome.how # "none"
    /\ outcome.how \in Failure \cup {"ok"} =>
         attempts # <<>> /\ attempts[Len(attempts)][2] = outcome.how
    /\ outcome.how = "unhandled" => attempts # <<>> /\ attempts[Len(attempts)][2] = "ok"
    /\ pc \in {"load", "open", "steps", "judge", "killed", "overdue"} => code = NoCode
    /\ pc = "told" => CodeTells
    /\ pc = "exited" => CodeTells \/ CodeOfScript
    /\ pc = "recorded" => code = NoCode \/ CodeTells \/ CodeOfScript
    /\ LineTells /\ RunTells
    /\ run.records \in Seq(Row) /\ run.row_count \in Nat

RunnerInv ==
    /\ script \in Scripts /\ pc \in PcState /\ level \in 1..Len(rungs)
    /\ pc = "steps" => stack # <<>>
    /\ ContextTypes /\ OutcomeTypes /\ Stages /\ EmittedIsOnDisk
-----------------------------------------------------------------------------
(***************************************************************************)
(* Lemmas on sequences.                                                    *)
(***************************************************************************)
LEMMA FirstPlace ==
    ASSUME NEW T \in SUBSET Nat, T # {}
    PROVE  \E m \in T : \A i \in T : m <= i
<1>1. PICK m \in T : \A i \in T : ~(<<i, m>> \in OpToRel(<, Nat))
  BY NatLessThanWellFounded, WFMin
<1>2. \A i \in T : ~(i < m) /\ i \in Nat /\ m \in Nat
  BY <1>1 DEF OpToRel
<1> QED BY <1>2

LEMMA SuffixMeans ==
    ASSUME NEW S, NEW s \in Seq(S), NEW t \in Seq(S)
    PROVE  IsSuffix(s, t) <=>
             Len(s) <= Len(t) /\ \A i \in 1..Len(s) : s[i] = t[Len(t) - Len(s) + i]
<1> DEFINE u == Reverse(s)
           v == Reverse(t)
<1>1. /\ u \in Seq(S) /\ Len(u) = Len(s)
      /\ \A i \in 1..Len(s) : u[i] = s[Len(s) - i + 1]
  BY DEF Reverse
<1>2. /\ v \in Seq(S) /\ Len(v) = Len(t)
      /\ \A i \in 1..Len(t) : v[i] = t[Len(t) - i + 1]
  BY DEF Reverse
<1>3. IsSuffix(s, t) <=> Len(u) <= Len(v) /\ SubSeq(u, 1, Len(u)) = SubSeq(v, 1, Len(u))
  BY DEF IsSuffix, IsPrefix
<1> HIDE DEF u, v
<1>4. ASSUME Len(u) <= Len(v)
      PROVE  SubSeq(u, 1, Len(u)) = SubSeq(v, 1, Len(u)) <=> \A i \in 1..Len(u) : u[i] = v[i]
  <2>1. /\ SubSeq(u, 1, Len(u)) \in Seq(S) /\ Len(SubSeq(u, 1, Len(u))) = Len(u)
        /\ \A i \in 1..Len(u) : SubSeq(u, 1, Len(u))[i] = u[i]
    BY <1>1
  <2>2. /\ SubSeq(v, 1, Len(u)) \in Seq(S) /\ Len(SubSeq(v, 1, Len(u))) = Len(u)
        /\ \A i \in 1..Len(u) : SubSeq(v, 1, Len(u))[i] = v[i]
    BY <1>1, <1>2, <1>4
  <2> QED BY <2>1, <2>2, SeqEqual
<1>5. ASSUME Len(s) <= Len(t)
      PROVE  (\A i \in 1..Len(s) : u[i] = v[i])
             <=> \A i \in 1..Len(s) : s[i] = t[Len(t) - Len(s) + i]
  <2>1. ASSUME \A i \in 1..Len(s) : u[i] = v[i], NEW i \in 1..Len(s)
        PROVE  s[i] = t[Len(t) - Len(s) + i]
    <3>1. Len(s) - i + 1 \in 1..Len(s) /\ Len(s) - i + 1 \in 1..Len(t)
          /\ Len(s) - (Len(s) - i + 1) + 1 = i
          /\ Len(t) - (Len(s) - i + 1) + 1 = Len(t) - Len(s) + i
      BY <1>5
    <3>2. /\ u[Len(s) - i + 1] = s[Len(s) - (Len(s) - i + 1) + 1]
          /\ v[Len(s) - i + 1] = t[Len(t) - (Len(s) - i + 1) + 1]
          /\ u[Len(s) - i + 1] = v[Len(s) - i + 1]
      BY <1>1, <1>2, <2>1, <3>1
    <3> QED BY <3>1, <3>2
  <2>2. ASSUME \A i \in 1..Len(s) : s[i] = t[Len(t) - Len(s) + i], NEW i \in 1..Len(s)
        PROVE  u[i] = v[i]
    <3>1. Len(s) - i + 1 \in 1..Len(s) /\ i \in 1..Len(t)
          /\ Len(t) - Len(s) + (Len(s) - i + 1) = Len(t) - i + 1
      BY <1>5
    <3> QED BY <1>1, <1>2, <2>2, <3>1
  <2> QED BY <2>1, <2>2
<1> QED BY <1>1, <1>2, <1>3, <1>4, <1>5

LEMMA EmptySuffix ==
    ASSUME NEW S, NEW t \in Seq(S)
    PROVE  IsSuffix(<<>>, t)
<1>1. <<>> \in Seq(S) /\ Len(<<>>) = 0 /\ 1..0 = {} /\ 0 <= Len(t)
  BY EmptySeq
<1> QED BY <1>1, SuffixMeans

LEMMA SuffixGrows ==
    ASSUME NEW S, NEW s \in Seq(S), NEW t \in Seq(S), NEW e \in Seq(S), IsSuffix(s, t)
    PROVE  IsSuffix(s \o e, t \o e)
<1> DEFINE u == s \o e
           v == t \o e
<1>1. Len(s) <= Len(t) /\ \A i \in 1..Len(s) : s[i] = t[Len(t) - Len(s) + i]
  BY SuffixMeans
<1>2. /\ u \in Seq(S) /\ Len(u) = Len(s) + Len(e)
      /\ v \in Seq(S) /\ Len(v) = Len(t) + Len(e)
  OBVIOUS
<1>3. ASSUME NEW i \in 1..Len(u)
      PROVE  u[i] = v[Len(v) - Len(u) + i]
  <2>1. Len(v) - Len(u) + i = Len(t) - Len(s) + i /\ Len(t) - Len(s) + i \in 1..Len(v)
    BY <1>1, <1>2
  <2>2. CASE i <= Len(s)
    <3>1. u[i] = s[i] /\ v[Len(t) - Len(s) + i] = t[Len(t) - Len(s) + i]
      BY <1>1, <2>2
    <3> QED BY <1>1, <2>1, <2>2, <3>1
  <2>3. CASE i > Len(s)
    <3>1. u[i] = e[i - Len(s)] /\ v[Len(t) - Len(s) + i] = e[Len(t) - Len(s) + i - Len(t)]
      BY <1>1, <1>2, <2>1, <2>3
    <3> QED BY <2>1, <3>1
  <2>4. i <= Len(s) \/ i > Len(s)
    BY <1>2
  <2> QED BY <2>2, <2>3, <2>4
<1>4. Len(u) <= Len(v)
  BY <1>1, <1>2
<1> QED BY <1>2, <1>3, <1>4, SuffixMeans

LEMMA SeqOfLess ==
    ASSUME NEW S, NEW T, S \subseteq T
    PROVE  Seq(S) \subseteq Seq(T)
OBVIOUS

\* A slice that starts at the front is a sequence, whatever its end.
LEMMA FirstOfType ==
    ASSUME NEW S, NEW s \in Seq(S), NEW max \in Int
    PROVE  FirstOf(s, max) \in Seq(S)
<1> DEFINE n == Lower(Len(s), IF max < 0 THEN Len(s) + max ELSE max)
<1>1. n \in Int /\ n <= Len(s)
  BY DEF Lower
<1>2. \A i \in 1..n : s[i] \in S
  BY <1>1
<1> HIDE DEF n
<1>3. SubSeq(s, 1, n) \in Seq(S)
  BY <1>1, <1>2, SubSeqProperties
<1> QED BY <1>3 DEF FirstOf, n

-----------------------------------------------------------------------------
(***************************************************************************)
(* The ladder of a script has a rung.                                      *)
(***************************************************************************)
LEMMA FromType ==
    ASSUME NEW ladder \in Seq(Rung), ladder # <<>>, NEW r \in Rung
    PROVE  From(ladder, r) \in Seq(Rung) /\ From(ladder, r) # <<>>
<1>1. CASE r \in ToSet(ladder)
  <2> DEFINE T == {i \in 1..Len(ladder) : ladder[i] = r}
             first == CHOOSE i \in DOMAIN ladder :
                        ladder[i] = r /\ \A j \in 1..(i - 1) : ladder[j] # r
  <2>1. T \in SUBSET Nat /\ T # {}
    BY <1>1 DEF ToSet
  <2>2. PICK m \in T : \A i \in T : m <= i
    BY <2>1, FirstPlace
  <2>3. m \in DOMAIN ladder /\ ladder[m] = r /\ \A j \in 1..(m - 1) : ladder[j] # r
    BY <2>2
  <2>4. first \in DOMAIN ladder
    BY <2>3
  <2>5. From(ladder, r) = SubSeq(ladder, first, Len(ladder))
    BY <1>1 DEF From
  <2> HIDE DEF first
  <2>6. first \in Int /\ Len(ladder) \in Int /\ first <= Len(ladder)
        /\ \A i \in first..Len(ladder) : ladder[i] \in Rung
    BY <2>4
  <2>7. SubSeq(ladder, first, Len(ladder)) \in Seq(Rung)
        /\ Len(SubSeq(ladder, first, Len(ladder))) # 0
    BY <2>6, SubSeqProperties
  <2> QED BY <2>5, <2>7
<1>2. CASE r \notin ToSet(ladder)
  <2>1. From(ladder, r) = <<r>> \o ladder
    BY <1>2 DEF From
  <2> QED BY <2>1
<1> QED BY <1>1, <1>2

LEMMA LadderType ==
    ASSUME NEW sc \in Scripts
    PROVE  Ladder(sc) \in Seq(Rung) /\ Len(Ladder(sc)) >= 1
<1>1. sc.engine \in Engines /\ sc.escalation \in Seq(Rung)
  BY ScriptsAssumption
<1>2. Declared(sc) \in Seq(Rung) /\ Declared(sc) # <<>>
  <2>1. <<"http", "patchright">> \in Seq(Rung) /\ <<"http", "patchright">> # <<>>
    BY DEF Rung
  <2> QED BY <1>1, <2>1 DEF Declared
<1>3. CASE sc.engine = "auto"
  BY <1>2, <1>3 DEF Ladder
<1>4. CASE sc.engine # "auto"
  <2>1. ENGINE_RUNG[sc.engine] \in Rung
    BY <1>1, <1>4 DEF Engines, ENGINE_RUNG, Rung
  <2>2. From(Declared(sc), ENGINE_RUNG[sc.engine]) \in Seq(Rung)
        /\ From(Declared(sc), ENGINE_RUNG[sc.engine]) # <<>>
    BY <1>2, <2>1, FromType
  <2> QED BY <1>4, <2>2 DEF Ladder
<1> QED BY <1>3, <1>4

-----------------------------------------------------------------------------
(***************************************************************************)
(* The block that a pagination repeats: the recursive function `kept` of   *)
(* WithoutGotos exists, and it is the steps that are left.                 *)
(***************************************************************************)
KeptOf(block, k) ==
    k = [n \in 0..Len(block) |-> IF n = 0 THEN <<>>
            ELSE IF block[n].op = "goto" THEN k[n - 1] ELSE Append(k[n - 1], block[n])]

LEMMA KeptExists ==
    ASSUME NEW S, NEW block \in Seq(S)
    PROVE  \E k : KeptOf(block, k)
<1> DEFINE L == Len(block)
           Fits(m, k) == /\ k \in [0..m -> Seq(S)] /\ k[0] = <<>>
                         /\ \A n \in 1..m : k[n] = IF block[n].op = "goto" THEN k[n - 1]
                                                   ELSE Append(k[n - 1], block[n])
           T == {m \in 0..L : ~\E k : Fits(m, k)}
<1>1. L \in Nat
  OBVIOUS
<1>2. \E k : Fits(0, k)
  <2>1. Fits(0, [n \in 0..0 |-> <<>>])
    BY EmptySeq
  <2> QED BY <2>1
<1>3. ASSUME NEW m \in 1..L, NEW k, Fits(m - 1, k)
      PROVE  \E l : Fits(m, l)
  <2> DEFINE next == IF block[m].op = "goto" THEN k[m - 1] ELSE Append(k[m - 1], block[m])
             l == [n \in 0..m |-> IF n = m THEN next ELSE k[n]]
  <2>1. next \in Seq(S)
    BY <1>3
  <2>2. l \in [0..m -> Seq(S)] /\ l[0] = <<>> /\ l[m] = next /\ \A n \in 0..(m - 1) : l[n] = k[n]
    BY <1>3, <2>1
  <2>3. ASSUME NEW n \in 1..m
        PROVE  l[n] = IF block[n].op = "goto" THEN l[n - 1] ELSE Append(l[n - 1], block[n])
    <3>1. l[n - 1] = k[n - 1]
      BY <2>2
    <3>2. CASE n = m
      BY <2>2, <3>1, <3>2
    <3>3. CASE n # m
      <4>1. n \in 1..(m - 1)
        BY <3>3
      <4>2. l[n] = k[n] /\ k[n] = IF block[n].op = "goto" THEN k[n - 1] ELSE Append(k[n - 1], block[n])
        BY <1>3, <2>2, <4>1
      <4> QED BY <3>1, <4>2
    <3> QED BY <3>2, <3>3
  <2> HIDE DEF l
  <2> QED BY <2>2, <2>3
<1>4. T = {}
  <2> SUFFICES ASSUME T # {} PROVE FALSE
    OBVIOUS
  <2>1. T \in SUBSET Nat
    BY <1>1
  <2>2. PICK m \in T : \A i \in T : m <= i
    <3> HIDE DEF T
    <3> QED BY <2>1, FirstPlace
  <2>3. m \in 0..L /\ ~\E k : Fits(m, k)
    BY <2>2
  <2> HIDE DEF Fits
  <2>4. m \in 1..L /\ m - 1 \in 0..L
    BY <1>1, <1>2, <2>3
  <2>5. m - 1 \notin T
    <3> HIDE DEF T
    <3> QED BY <2>1, <2>2, <2>4
  <2>6. \E k : Fits(m - 1, k)
    BY <2>4, <2>5
  <2> QED BY <1>3, <2>3, <2>4, <2>6
<1>5. PICK k : Fits(L, k)
  BY <1>1, <1>4
<1>6. k = [n \in 0..L |-> IF n = 0 THEN <<>>
            ELSE IF block[n].op = "goto" THEN k[n - 1] ELSE Append(k[n - 1], block[n])]
  <2>1. k = [n \in 0..L |-> k[n]]
    BY <1>5
  <2>2. ASSUME NEW n \in 0..L
        PROVE  k[n] = IF n = 0 THEN <<>>
            ELSE IF block[n].op = "goto" THEN k[n - 1] ELSE Append(k[n - 1], block[n])
    <3>1. n = 0 \/ n \in 1..L
      BY <1>1
    <3>2. k[0] = <<>> /\ \A i \in 1..L : k[i] = IF block[i].op = "goto" THEN k[i - 1]
                                                 ELSE Append(k[i - 1], block[i])
      BY <1>5
    <3>3. n \in 1..L => n # 0
      BY <1>1
    <3> QED BY <3>1, <3>2, <3>3, Zenon
  <2> QED BY <2>1, <2>2, Zenon
<1> QED BY <1>6 DEF KeptOf

LEMMA WithoutGotosIs ==
    ASSUME NEW S, NEW block \in Seq(S)
    PROVE  \E k : KeptOf(block, k) /\ WithoutGotos(block) = k[Len(block)]
<1> DEFINE kept == CHOOSE k : k = [n \in 0..Len(block) |-> IF n = 0 THEN <<>>
            ELSE IF block[n].op = "goto" THEN k[n - 1] ELSE Append(k[n - 1], block[n])]
<1>1. KeptOf(block, kept)
  BY KeptExists DEF KeptOf
<1>2. WithoutGotos(block) = kept[Len(block)]
  BY DEF WithoutGotos
<1> HIDE DEF kept
<1> QED BY <1>1, <1>2

LEMMA WithoutGotosAre ==
    ASSUME NEW S, NEW block \in Seq(S)
    PROVE  WithoutGotos(block) \in Seq({s \in S : s.op # "goto"})
<1> DEFINE U == {s \in S : s.op # "goto"}
<1>1. PICK k : KeptOf(block, k) /\ WithoutGotos(block) = k[Len(block)]
  BY WithoutGotosIs
<1>2. /\ k[0] = <<>>
      /\ \A n \in 1..Len(block) : k[n] = IF block[n].op = "goto" THEN k[n - 1] ELSE Append(k[n - 1], block[n])
  <2>1. ASSUME NEW n \in 0..Len(block)
        PROVE  k[n] = IF n = 0 THEN <<>>
            ELSE IF block[n].op = "goto" THEN k[n - 1] ELSE Append(k[n - 1], block[n])
    BY <1>1, Zenon DEF KeptOf
  <2> QED BY <2>1
<1> DEFINE T == {n \in 0..Len(block) : k[n] \notin Seq(U)}
<1>3. ASSUME T # {} PROVE FALSE
  <2>1. T \in SUBSET Nat
    OBVIOUS
  <2>2. PICK n \in T : \A i \in T : n <= i
    <3> HIDE DEF T
    <3> QED BY <1>3, <2>1, FirstPlace
  <2>3. n \in 0..Len(block) /\ k[n] \notin Seq(U)
    BY <2>2
  <2>4. n \in 1..Len(block) /\ n - 1 \in 0..Len(block)
    <3>1. n # 0
      BY <1>2, <2>3, EmptySeq
    <3> QED BY <2>3, <3>1
  <2>5. n - 1 \notin T
    <3> HIDE DEF T
    <3> QED BY <2>1, <2>2, <2>4
  <2>6. k[n - 1] \in Seq(U) /\ (block[n].op # "goto" => block[n] \in U)
    BY <2>4, <2>5
  <2> HIDE DEF T, U
  <2>7. block[n].op # "goto" => Append(k[n - 1], block[n]) \in Seq(U)
    BY <2>6, AppendProperties
  <2>8. k[n] = IF block[n].op = "goto" THEN k[n - 1] ELSE Append(k[n - 1], block[n])
    BY <1>2, <2>4
  <2> QED BY <2>3, <2>6, <2>7, <2>8
<1>4. Len(block) \in 0..Len(block)
  OBVIOUS
<1>5. k[Len(block)] \in Seq(U)
  BY <1>3, <1>4
<1> QED BY <1>1, <1>5

LEMMA WithoutGotosType ==
    ASSUME NEW S, NEW block \in Seq(S)
    PROVE  WithoutGotos(block) \in Seq(S)
BY WithoutGotosAre, SeqOfLess

-----------------------------------------------------------------------------
(***************************************************************************)
(* What is done to a stack.                                                *)
(***************************************************************************)
LEMMA TopIsFrame ==
    ASSUME NEW R, NEW st, StackFits(st, R)
    PROVE  /\ Len(st) \in Nat \ {0} /\ st[Len(st)] \in Frame(R)
           /\ \A i \in 1..Len(st) : st[i] \in Frame(R)
BY EmptySeq, ElementOfSeq DEF StackFits

LEMMA KindOfFrame ==
    ASSUME NEW R, NEW f \in Frame(R)
    PROVE  /\ f.kind \in {"block", "loop", "pages"}
           /\ f.kind = "block" => f \in BlockFrame
           /\ f.kind = "loop" => f \in LoopFrame(R)
           /\ f.kind = "pages" => f \in PagesFrame
BY DEF Frame, BlockFrame, LoopFrame, PagesFrame

LEMMA TopReplaced ==
    ASSUME NEW R, NEW st, StackFits(st, R), NEW f \in Frame(R),
           (f.kind = "block") = (st[Len(st)].kind = "block"),
           f.kind = "block" => f.from <= f.at
    PROVE  StackFits([st EXCEPT ![Len(st)] = f], R)
<1> DEFINE n == Len(st)
           t == [st EXCEPT ![n] = f]
<1>1. st \in Seq(Frame(R)) /\ n \in 1..n
  BY TopIsFrame DEF StackFits
<1>2. /\ t \in Seq(Frame(R)) /\ Len(t) = n
      /\ \A i \in 1..n : t[i] = IF i = n THEN f ELSE st[i]
  BY <1>1, ExceptSeq
<1>3. t # <<>>
  BY <1>1, <1>2
<1> HIDE DEF t
<1> QED BY <1>1, <1>2, <1>3 DEF StackFits

LEMMA Pushed ==
    ASSUME NEW R, NEW st, StackFits(st, R), NEW f \in Frame(R),
           (f.kind = "block") # (st[Len(st)].kind = "block"),
           f.kind = "block" => f.from <= f.at
    PROVE  StackFits(Append(st, f), R)
<1> DEFINE n == Len(st)
           t == Append(st, f)
<1>1. st \in Seq(Frame(R)) /\ n \in Nat \ {0}
  BY TopIsFrame DEF StackFits
<1>2. /\ t \in Seq(Frame(R)) /\ t # <<>> /\ Len(t) = n + 1
      /\ \A i \in 1..n : t[i] = st[i]
      /\ t[n + 1] = f
  BY <1>1, AppendProperties
<1> HIDE DEF t
<1>3. ASSUME NEW i \in 1..Len(t), t[i].kind = "block" PROVE t[i].from <= t[i].at
  BY <1>1, <1>2, <1>3 DEF StackFits
<1>4. ASSUME NEW i \in 2..Len(t) PROVE (t[i].kind = "block") # (t[i - 1].kind = "block")
  <2>1. CASE i = n + 1
    BY <1>1, <1>2, <2>1
  <2>2. CASE i # n + 1
    <3>1. i \in 2..n /\ i \in 1..n /\ i - 1 \in 1..n
      BY <1>1, <1>2, <2>2
    <3> QED BY <1>2, <3>1 DEF StackFits
  <2> QED BY <2>1, <2>2
<1> QED BY <1>1, <1>2, <1>3, <1>4 DEF StackFits

\* The first frames of a stack, as many as there are of them.
LEMMA Lowered ==
    ASSUME NEW R, NEW st, StackFits(st, R), NEW n \in 1..Len(st)
    PROVE  /\ StackFits(SubSeq(st, 1, n), R) /\ Len(SubSeq(st, 1, n)) = n
           /\ SubSeq(st, 1, n)[n] = st[n]
<1> DEFINE t == SubSeq(st, 1, n)
<1>1. st \in Seq(Frame(R)) /\ Len(st) \in Nat \ {0}
      /\ \A i \in 1..n : st[i] \in Frame(R)
  BY TopIsFrame DEF StackFits
<1>2. /\ t \in Seq(Frame(R)) /\ Len(t) = n
      /\ \A i \in 1..n : t[i] = st[i]
  BY <1>1, SubSeqProperties
<1>3. t # <<>>
  BY <1>2
<1> HIDE DEF t
<1>4. \A i \in 1..n : t[i].kind = "block" => t[i].from <= t[i].at
  BY <1>1, <1>2 DEF StackFits
<1>5. \A i \in 2..n : (t[i].kind = "block") # (t[i - 1].kind = "block")
  BY <1>1, <1>2 DEF StackFits
<1>6. t[1].kind = "block" /\ n \in 1..n
  BY <1>1, <1>2 DEF StackFits
<1>7. StackFits(t, R)
  BY <1>2, <1>3, <1>4, <1>5, <1>6 DEF StackFits
<1> QED BY <1>2, <1>6, <1>7 DEF t

LEMMA FrontIs ==
    ASSUME NEW R, NEW st, StackFits(st, R), Len(st) > 1
    PROVE  /\ Front(st) = SubSeq(st, 1, Len(st) - 1)
           /\ StackFits(Front(st), R) /\ Len(Front(st)) = Len(st) - 1
           /\ Front(st)[Len(st) - 1] = st[Len(st) - 1]
<1>1. Front(st) = SubSeq(st, 1, Len(st) - 1)
  BY DEF Front
<1>2. Len(st) - 1 \in 1..Len(st)
  BY TopIsFrame
<1> QED BY <1>1, <1>2, Lowered

LEMMA OnwardFits ==
    ASSUME NEW R, NEW st, StackFits(st, R), st[Len(st)].kind = "block"
    PROVE  StackFits(Onward(st), R)
<1> DEFINE f == st[Len(st)]
           at == f.at + 1
           from == IF f.steps[f.at].op = "paginate" THEN f.at + 1 ELSE f.from
           on == [f EXCEPT !.at = at, !.from = from]
<1>1. f \in BlockFrame /\ f.from <= f.at
  BY TopIsFrame, KindOfFrame DEF StackFits
<1>2. on \in BlockFrame /\ on.from <= on.at
  <2>1. f.at \in Nat \ {0} /\ f.from \in Nat \ {0}
    BY <1>1 DEF BlockFrame
  <2>2. at \in Nat \ {0} /\ from \in Nat \ {0} /\ from <= at
    BY <1>1, <2>1
  <2> HIDE DEF f, at, from
  <2> QED BY <1>1, <2>2 DEF BlockFrame
<1>3. on \in Frame(R) /\ on.kind = "block"
  BY <1>2 DEF Frame, BlockFrame
<1>4. Onward(st) = [st EXCEPT ![Len(st)] = on]
  BY DEF Onward
<1> HIDE DEF on
<1> QED BY <1>2, <1>3, <1>4, TopReplaced

-----------------------------------------------------------------------------
(***************************************************************************)
(* The steps that all handlers share.                                      *)
(***************************************************************************)
LEMMA RungIs ==
    ASSUME RunnerInv
    PROVE  rungs \in Seq(Rung) /\ level \in 1..Len(rungs) /\ level \in Nat \ {0} /\ rung \in Rung
<1>1. rungs \in Seq(Rung) /\ Len(rungs) >= 1
  BY LadderType DEF RunnerInv, rungs
<1> QED BY <1>1 DEF RunnerInv, rung

LEMMA SeenAreRows ==
    ASSUME level \in Nat
    PROVE  Seen \subseteq Row /\ Seq(Seen) \subseteq Seq(Row)
<1>1. Seen \subseteq Row
  BY DEF Seen, Row
<1> QED BY <1>1, SeqOfLess

LEMMA NewContextFits ==
    ASSUME NewContext
    PROVE  ContextTypes' /\ rows' = <<>> /\ stack' = <<>>
<1>1. /\ stack' = <<>> /\ doc' = NoDoc /\ page' = 1 /\ scope' = NoItems
      /\ named' = {} /\ bags' = NoBags /\ rows' = <<>> /\ visited' = 0
  BY DEF NewContext, BagsOfNext
<1>2. NoDoc \in [list : BOOLEAN, first : Nat, last : Nat]
  BY DEF NoDoc, Doc
<1>3. NoItems \in [Items -> Seen' \cup {NoRow}]
  BY DEF NoItems
<1>4. NoBags \in [Bags -> Seq(Seen')] /\ <<>> \in Seq(Seen')
  BY EmptySeq DEF NoBags
<1> QED BY <1>1, <1>2, <1>3, <1>4 DEF ContextTypes

\* An exception that ends the attempt.
LEMMA FailsKeeps ==
    ASSUME RunnerInv, pc \in {"open", "steps"}, NEW failure \in Failure, Fails(failure)
    PROVE  RunnerInv'
<1>1. ContextTypes' /\ rows' = <<>>
  BY NewContextFits DEF Fails
<1>2. /\ attempts' \in Seq(Rung \X (Failure \cup {"ok"})) /\ attempts' # <<>>
      /\ attempts'[Len(attempts')][2] = failure
  <2> DEFINE tried == <<rung, failure>>
  <2>1. tried \in Rung \X (Failure \cup {"ok"}) /\ tried[2] = failure
    BY RungIs
  <2>2. attempts \in Seq(Rung \X (Failure \cup {"ok"})) /\ attempts' = Append(attempts, tried)
    BY DEF RunnerInv, OutcomeTypes, Fails
  <2> HIDE DEF tried
  <2>3. /\ attempts' \in Seq(Rung \X (Failure \cup {"ok"})) /\ attempts' # <<>>
        /\ Len(attempts') = Len(attempts) + 1 /\ attempts'[Len(attempts) + 1] = tried
    BY <2>1, <2>2, AppendProperties
  <2> QED BY <2>1, <2>3
<1>3. outcome = NoOutcome /\ code = NoCode /\ file \in Seq(Row) /\ run.status = "running"
      /\ run.records \in Seq(Row) /\ run.row_count \in Nat /\ script \in Scripts
  BY DEF RunnerInv, Stages, RunTells, OutcomeTypes
<1>4. UNCHANGED <<script, file, code, run>> /\ rungs' = rungs /\ line' = LineOf(failure)
  BY DEF Fails, rungs
<1>5. IsSuffix(<<>>, file)
  BY <1>3, EmptySuffix
<1>6. CASE Climbs(failure, rung, level < Len(rungs))
  <2>1. pc' = "open" /\ level' = level + 1 /\ outcome' = outcome /\ level < Len(rungs)
    BY <1>6 DEF Fails, Climbs
  <2>2. level' \in 1..Len(rungs')
    BY <1>4, <2>1, RungIs
  <2>3. OutcomeTypes'
    BY <1>2, <1>3, <1>4, <2>1, EmptySeq DEF OutcomeTypes, NoOutcome, How
  <2>4. Stages'
    <3>1. LineTells'
      BY <1>2, <1>4, <2>1 DEF LineTells, LineOf, Line
    <3> QED BY <1>3, <1>4, <2>1, <3>1 DEF Stages, RunTells, NoOutcome, Failure
  <2>5. EmittedIsOnDisk'
    BY <1>1, <1>3, <1>4, <1>5, <2>1 DEF EmittedIsOnDisk, NoOutcome
  <2> QED BY <1>1, <1>3, <1>4, <2>1, <2>2, <2>3, <2>4, <2>5 DEF RunnerInv, PcState
<1>7. CASE ~Climbs(failure, rung, level < Len(rungs))
  <2>1. pc' = "judge" /\ level' = level /\ outcome' = [how |-> failure, rows |-> <<>>]
    BY <1>7 DEF Fails
  <2>2. level' \in 1..Len(rungs')
    BY <1>4, <2>1, RungIs
  <2>3. OutcomeTypes'
    BY <1>2, <1>3, <1>4, <2>1, EmptySeq DEF OutcomeTypes, How, Failure
  <2>4. Stages'
    <3>1. LineTells'
      BY <1>2, <1>4, <2>1 DEF LineTells, LineOf, Line
    <3> QED BY <1>2, <1>3, <1>4, <2>1, <3>1 DEF Stages, RunTells, Failure
  <2>5. EmittedIsOnDisk'
    BY <1>1, <1>3, <1>4, <1>5, <2>1 DEF EmittedIsOnDisk, Failure
  <2> QED BY <1>1, <1>3, <1>4, <2>1, <2>2, <2>3, <2>4, <2>5 DEF RunnerInv, PcState
<1> QED BY <1>6, <1>7

\* A step that does not end the attempt.
GoesOn == pc = "steps" /\ UNCHANGED <<script, pc, level, result, run>>

LEMMA GoesOnKeeps ==
    ASSUME RunnerInv, GoesOn, ContextTypes', stack' # <<>>,
           file' \in Seq(Row), IsSuffix(rows', file')
    PROVE  RunnerInv'
<1>1. outcome = NoOutcome /\ UNCHANGED <<pc, attempts, outcome, line, code, run>> /\ pc = "steps"
  BY DEF GoesOn, RunnerInv, Stages, result
<1>2. OutcomeTypes'
  BY <1>1 DEF RunnerInv, OutcomeTypes, NoOutcome
<1>3. Stages'
  BY <1>1 DEF RunnerInv, Stages, CodeTells, CodeOfScript, LineTells, RunTells
<1>4. EmittedIsOnDisk'
  BY <1>1 DEF EmittedIsOnDisk, NoOutcome
<1> QED BY <1>2, <1>3, <1>4 DEF RunnerInv, GoesOn, rungs

\* One that emits nothing either.
LEMMA NothingEmitted ==
    ASSUME RunnerInv, GoesOn, UNCHANGED <<rows, file>>, StackFits(stack', Seen),
           doc' \in [list : BOOLEAN, first : Nat, last : Nat], page' \in Nat, visited' \in Nat,
           scope' \in [Items -> Seen \cup {NoRow}],
           named' \subseteq Bags, bags' \in [Bags -> Seq(Seen)]
    PROVE  RunnerInv'
<1>1. Seen' = Seen
  BY DEF GoesOn, Seen
<1>2. ContextTypes' /\ stack' # <<>>
  BY <1>1 DEF RunnerInv, ContextTypes, StackFits
<1>3. file' \in Seq(Row) /\ IsSuffix(rows', file')
  BY DEF RunnerInv, OutcomeTypes, EmittedIsOnDisk
<1> QED BY <1>2, <1>3, GoesOnKeeps

LEMMA StepIs ==
    ASSUME RunnerInv, Executing
    PROVE  /\ pc = "steps" /\ StackFits(stack, Seen) /\ Top.kind = "block"
           /\ Top \in BlockFrame /\ Top.from \in 1..Top.at /\ Top.at \in 1..Len(Top.steps)
           /\ Step \in Steps
<1>1. pc = "steps" /\ StackFits(stack, Seen) /\ Top.kind = "block" /\ Top.at <= Len(Top.steps)
  BY DEF RunnerInv, ContextTypes, Executing, InBlock
<1>2. Top \in BlockFrame /\ Top.from <= Top.at
  BY <1>1, TopIsFrame, KindOfFrame DEF Top, StackFits
<1>3. Top.steps \in Seq(Steps) /\ Top.at \in 1..Len(Top.steps) /\ Top.from \in 1..Top.at
  BY <1>1, <1>2 DEF BlockFrame
<1> QED BY <1>1, <1>2, <1>3 DEF Step

LEMMA AdvanceKeeps ==
    ASSUME RunnerInv, Executing, Advance
    PROVE  StackFits(stack', Seen)
BY StepIs, OnwardFits DEF Advance, Top

LEMMA ReturnKeeps ==
    ASSUME RunnerInv, pc = "steps", Top.kind # "block", Return
    PROVE  StackFits(stack', Seen)
<1>1. StackFits(stack, Seen) /\ Len(stack) \in Nat \ {0}
  BY TopIsFrame DEF RunnerInv, ContextTypes
<1>2. Len(stack) > 1
  BY <1>1 DEF StackFits, Top
<1>3. stack[Len(stack) - 1].kind = "block"
  BY <1>1, <1>2 DEF StackFits, Top
<1>4. /\ StackFits(Front(stack), Seen) /\ Len(Front(stack)) = Len(stack) - 1
      /\ Front(stack)[Len(stack) - 1].kind = "block"
  BY <1>1, <1>2, <1>3, FrontIs
<1> QED BY <1>4, OnwardFits DEF Return

\* What the context holds while a rung is tried.
LEMMA ContextIs ==
    ASSUME RunnerInv
    PROVE  /\ doc \in [list : BOOLEAN, first : Nat, last : Nat]
           /\ page \in Nat /\ visited \in Nat
           /\ scope \in [Items -> Seen \cup {NoRow}]
           /\ named \subseteq Bags /\ bags \in [Bags -> Seq(Seen)] /\ rows \in Seq(Seen)
           /\ file \in Seq(Row) /\ level \in Nat \ {0}
BY RungIs DEF RunnerInv, ContextTypes, OutcomeTypes

\* How a step may end: well, or by an exception.
LEMMA EndsIn ==
    ASSUME NEW step, NEW end \in Ends(step), end # "ok"
    PROVE  end \in Failure
BY DEF Ends, Failure

LEMMA PlainStepKeeps == RunnerInv /\ PlainStep => RunnerInv'
<1> SUFFICES ASSUME RunnerInv, PlainStep PROVE RunnerInv'
  OBVIOUS
<1>1. Executing /\ pc = "steps"
  BY StepIs DEF PlainStep
<1>2. PICK end \in Ends(Step) :
        IF end = "ok"
        THEN /\ Advance
             /\ UNCHANGED <<script, pc, level, doc, page, scope, named, bags, rows, visited,
                            file, result, run>>
        ELSE Fails(end)
  BY DEF PlainStep
<1>3. CASE end = "ok"
  BY <1>1, <1>2, <1>3, AdvanceKeeps, ContextIs, NothingEmitted DEF GoesOn, result
<1>4. CASE end # "ok"
  <2>1. end \in Failure
    BY <1>2, <1>4, EndsIn
  <2> QED BY <1>1, <1>2, <1>4, <2>1, FailsKeeps
<1> QED BY <1>3, <1>4

LEMMA FetchedIs ==
    ASSUME NEW url
    PROVE  /\ url = "fixed" => Fetched(url) = Doc(TRUE, 1, 1)
           /\ url = "page" => Fetched(url) = Doc(TRUE, page, page)
           /\ url \notin {"fixed", "page"} => Fetched(url) = Doc(FALSE, scope[url][3], scope[url][3])
BY ZenonT(30) DEF Fetched

LEMMA GotoKeeps == RunnerInv /\ Goto => RunnerInv'
<1> SUFFICES ASSUME RunnerInv, Goto PROVE RunnerInv'
  OBVIOUS
<1>1. Executing /\ pc = "steps" /\ Step \in Steps /\ Step.op = "goto"
  BY StepIs DEF Goto
<1>2. CASE \E failure \in {"step", "unexpected", "blocked"} : Fails(failure)
  BY <1>1, <1>2, FailsKeeps DEF Failure
<1>3. CASE /\ ~(Step.url \in Items /\ scope[Step.url] = NoRow)
           /\ visited' = visited + 1 /\ doc' = Fetched(Step.url) /\ Advance
           /\ UNCHANGED <<script, pc, level, page, scope, named, bags, rows, file, result, run>>
  <2>1. Step.url \in Items \cup {"fixed", "page"}
    BY <1>1, ScriptsAssumption
  <2>2. Step.url \notin {"fixed", "page"} => scope[Step.url][3] \in Nat
    BY <1>3, <2>1, ContextIs DEF Seen
  <2>3. Fetched(Step.url) \in [list : BOOLEAN, first : Nat, last : Nat]
    <3>1. CASE Step.url = "fixed"
      <4>1. Fetched(Step.url) = Doc(TRUE, 1, 1)
        BY <3>1, FetchedIs
      <4> QED BY <4>1 DEF Doc
    <3>2. CASE Step.url = "page"
      <4>1. Fetched(Step.url) = Doc(TRUE, page, page)
        BY <3>2, FetchedIs
      <4> QED BY <4>1, ContextIs DEF Doc
    <3>3. CASE Step.url \notin {"fixed", "page"}
      <4>1. Fetched(Step.url) = Doc(FALSE, scope[Step.url][3], scope[Step.url][3])
        BY <3>3, FetchedIs
      <4> QED BY <2>2, <3>3, <4>1 DEF Doc
    <3> QED BY <3>1, <3>2, <3>3
  <2> QED BY <1>1, <1>3, <2>3, AdvanceKeeps, ContextIs, NothingEmitted DEF GoesOn, result
<1> QED BY <1>2, <1>3 DEF Goto

\* Any choice of the rows that the document shows.
LEMMA ChosenAre ==
    ASSUME RunnerInv, NEW chosen \in RowsOf(Shown)
    PROVE  chosen \in Seq(Nat) /\ \A i, j \in DOMAIN chosen : i < j => chosen[i] < chosen[j]
<1>1. PICK n \in 0..Cardinality(Shown) : chosen \in [1..n -> Shown]
  BY DEF RowsOf
<1>2. n \in Nat /\ Shown \subseteq Nat
  BY RunnerAssumption DEF Shown
<1>3. chosen \in [1..n -> Nat]
  BY <1>1, <1>2
<1>4. chosen \in Seq(Nat)
  BY <1>2, <1>3
<1>5. \A i, j \in DOMAIN chosen : i < j => chosen[i] < chosen[j]
  BY DEF RowsOf
<1> QED BY <1>4, <1>5

LEMMA ExtractedAre ==
    ASSUME RunnerInv, NEW b \in Bags, NEW chosen \in Seq(Nat)
    PROVE  /\ Extracted(b, chosen) \in Seq(Seen) /\ Len(Extracted(b, chosen)) = Len(chosen)
           /\ \A i \in 1..Len(chosen) : Extracted(b, chosen)[i] = <<level, b, chosen[i]>>
BY DEF Extracted, Seen

LEMMA PutKeeps ==
    ASSUME RunnerInv, NEW b \in Bags, NEW e \in Seq(Seen), PutInto(b, e)
    PROVE  named' \subseteq Bags /\ bags' \in [Bags -> Seq(Seen)]
BY ContextIs DEF PutInto

LEMMA ExtractKeeps == RunnerInv /\ Extract => RunnerInv'
<1> SUFFICES ASSUME RunnerInv, Extract PROVE RunnerInv'
  OBVIOUS
<1>1. Executing /\ pc = "steps" /\ Step \in Steps /\ Step.op = "extract"
  BY StepIs DEF Extract
<1>2. CASE \E f \in {"selector", "validation", "unexpected"} : Fails(f)
  BY <1>1, <1>2, FailsKeeps DEF Failure
<1>3. CASE /\ PutInto(Step.as, Extracted(Step.as, <<doc.first>>)) /\ Advance
           /\ UNCHANGED <<script, pc, level, doc, page, scope, rows, visited, file, result, run>>
  <2>1. Step.as \in Bags
    BY <1>1, ScriptsAssumption
  <2>2. <<doc.first>> \in Seq(Nat)
    BY ContextIs
  <2>3. named' \subseteq Bags /\ bags' \in [Bags -> Seq(Seen)]
    BY <1>3, <2>1, <2>2, ExtractedAre, PutKeeps
  <2> QED BY <1>1, <1>3, <2>3, AdvanceKeeps, ContextIs, NothingEmitted DEF GoesOn, result
<1> QED BY <1>2, <1>3 DEF Extract

LEMMA ExtractListKeeps == RunnerInv /\ ExtractList => RunnerInv'
<1> SUFFICES ASSUME RunnerInv, ExtractList PROVE RunnerInv'
  OBVIOUS
<1>1. Executing /\ pc = "steps" /\ Step \in Steps /\ Step.op = "extract_list"
  BY StepIs DEF ExtractList
<1>2. CASE \E f \in {"selector", "validation", "unexpected"} : Fails(f)
  BY <1>1, <1>2, FailsKeeps DEF Failure
<1>3. CASE \E chosen \in RowsOf(Shown) :
              /\ PutInto(Step.as, Extracted(Step.as, chosen)) /\ Advance
              /\ UNCHANGED <<script, pc, level, doc, page, scope, rows, visited, file, result, run>>
  <2>1. PICK chosen \in RowsOf(Shown) :
              /\ PutInto(Step.as, Extracted(Step.as, chosen)) /\ Advance
              /\ UNCHANGED <<script, pc, level, doc, page, scope, rows, visited, file, result, run>>
    BY <1>3
  <2>2. Step.as \in Bags
    BY <1>1, ScriptsAssumption
  <2>3. named' \subseteq Bags /\ bags' \in [Bags -> Seq(Seen)]
    BY <2>1, <2>2, ChosenAre, ExtractedAre, PutKeeps
  <2> QED BY <1>1, <2>1, <2>3, AdvanceKeeps, ContextIs, NothingEmitted DEF GoesOn, result
<1> QED BY <1>2, <1>3 DEF ExtractList

LEMMA CustomPythonKeeps == RunnerInv /\ CustomPython => RunnerInv'
<1> SUFFICES ASSUME RunnerInv, CustomPython PROVE RunnerInv'
  OBVIOUS
<1>1. Executing /\ pc = "steps" /\ Step \in Steps /\ Step.op = "custom_python"
  BY StepIs DEF CustomPython
<1>2. CASE Fails("step")
  BY <1>1, <1>2, FailsKeeps DEF Failure
<1>3. CASE /\ \E chosen \in RowsOf(Shown) : PutInto(Step.as, Extracted(Step.as, chosen))
           /\ Advance
           /\ UNCHANGED <<script, pc, level, doc, page, scope, rows, visited, file, result, run>>
  <2>1. PICK chosen \in RowsOf(Shown) : PutInto(Step.as, Extracted(Step.as, chosen))
    BY <1>3
  <2>2. Step.as \in Bags
    BY <1>1, ScriptsAssumption
  <2>3. named' \subseteq Bags /\ bags' \in [Bags -> Seq(Seen)]
    BY <2>1, <2>2, ChosenAre, ExtractedAre, PutKeeps
  <2> QED BY <1>1, <1>3, <2>3, AdvanceKeeps, ContextIs, NothingEmitted DEF GoesOn, result
<1> QED BY <1>2, <1>3 DEF CustomPython

\* What is emitted goes to the context and to the file, at the end of both.
LEMMA EmitKeeps == RunnerInv /\ Emit => RunnerInv'
<1> SUFFICES ASSUME RunnerInv, Emit PROVE RunnerInv'
  OBVIOUS
<1>1. Executing /\ pc = "steps" /\ StackFits(stack, Seen)
  BY StepIs DEF Emit
<1>2. CASE Step.source \in named \/ (Step.source \in Items /\ scope[Step.source] # NoRow)
  <2> DEFINE emitted == IF Step.source \in named THEN bags[Step.source] ELSE <<scope[Step.source]>>
  <2>1. /\ rows' = rows \o emitted /\ file' = file \o emitted /\ Advance
        /\ UNCHANGED <<script, pc, level, doc, page, scope, named, bags, visited, result, run>>
    BY <1>2 DEF Emit, FileAfter
  <2>2. emitted \in Seq(Seen)
    <3>1. CASE Step.source \in named
      BY <3>1, ContextIs
    <3>2. CASE Step.source \notin named
      <4>1. scope[Step.source] \in Seen
        BY <1>2, <3>2, ContextIs
      <4> QED BY <3>2, <4>1
    <3> QED BY <3>1, <3>2
  <2> HIDE DEF emitted
  <2>3. Seq(Seen) \subseteq Seq(Row)
    BY RungIs, SeenAreRows
  <2>4. IsSuffix(rows \o emitted, file \o emitted)
    <3>1. rows \in Seq(Row) /\ file \in Seq(Row) /\ emitted \in Seq(Row)
      BY <2>2, <2>3, ContextIs
    <3>2. IsSuffix(rows, file)
      BY DEF RunnerInv, EmittedIsOnDisk
    <3> QED BY <3>1, <3>2, SuffixGrows
  <2>5. rows' \in Seq(Seen) /\ file' \in Seq(Row)
    <3>1. rows \in Seq(Seen) /\ file \in Seq(Row) /\ emitted \in Seq(Row)
      BY <2>2, <2>3, ContextIs
    <3> QED BY <2>1, <2>2, <3>1, ConcatProperties
  <2>6. GoesOn /\ Seen' = Seen
    BY <1>1, <2>1 DEF GoesOn, result, Seen
  <2>7. ContextTypes' /\ stack' # <<>>
    BY <1>1, <2>1, <2>5, <2>6, AdvanceKeeps, ContextIs DEF ContextTypes, StackFits
  <2> QED BY <2>1, <2>4, <2>5, <2>6, <2>7, GoesOnKeeps
<1>3. CASE ~(Step.source \in named \/ (Step.source \in Items /\ scope[Step.source] # NoRow))
  BY <1>1, <1>3, FailsKeeps DEF Emit, Failure
<1> QED BY <1>2, <1>3

-----------------------------------------------------------------------------
(***************************************************************************)
(* Loops and pages.                                                        *)
(***************************************************************************)
LEMMA LoopStartKeeps == RunnerInv /\ LoopStart => RunnerInv'
<1> SUFFICES ASSUME RunnerInv, LoopStart PROVE RunnerInv'
  OBVIOUS
<1>1. /\ Executing /\ pc = "steps" /\ Step \in Steps /\ Step.op = "loop"
      /\ StackFits(stack, Seen) /\ Top.kind = "block"
  BY StepIs DEF LoopStart
<1>2. CASE Loops > 5 \/ Step.over \notin named
  BY <1>1, <1>2, FailsKeeps DEF LoopStart, Failure
<1>3. CASE ~(Loops > 5 \/ Step.over \notin named)
  <2> DEFINE items == FirstOf(bags[Step.over], Step.max)
             f == [kind |-> "loop", step |-> Step, left |-> items,
                   item |-> NoRow, saved |-> scope[Step.as]]
  <2>1. /\ stack' = Append(stack, f)
        /\ UNCHANGED <<script, pc, level, doc, page, scope, named, bags, rows, visited,
                       file, result, run>>
    BY <1>3 DEF LoopStart
  <2>2. Step.as \in Items /\ Step.max \in Int
    BY <1>1, ScriptsAssumption
  <2>3. items \in Seq(Seen)
    <3>1. bags[Step.over] \in Seq(Seen)
      BY <1>3, ContextIs
    <3> QED BY <2>2, <3>1, FirstOfType
  <2>4. scope[Step.as] \in Seen \cup {NoRow}
    BY <2>2, ContextIs
  <2> HIDE DEF items
  <2>5. f \in Frame(Seen) /\ f.kind = "loop"
    BY <1>1, <2>3, <2>4 DEF Frame, LoopFrame
  <2> HIDE DEF f
  <2>6. StackFits(stack', Seen)
    BY <1>1, <2>1, <2>5, Pushed DEF Top
  <2> QED BY <1>1, <2>1, <2>6, ContextIs, NothingEmitted DEF GoesOn, result
<1> QED BY <1>2, <1>3

LEMMA BlockIsFrame ==
    ASSUME NEW R, NEW steps \in Seq(Steps)
    PROVE  Block(steps) \in Frame(R) /\ Block(steps).kind = "block"
           /\ Block(steps).from <= Block(steps).at
BY DEF Block, Frame, BlockFrame

LEMMA LoopNextKeeps == RunnerInv /\ LoopNext => RunnerInv'
<1> SUFFICES ASSUME RunnerInv, LoopNext PROVE RunnerInv'
  OBVIOUS
<1>1. /\ pc = "steps" /\ StackFits(stack, Seen) /\ Top.kind = "loop" /\ Top = stack[Len(stack)]
      /\ Top \in LoopFrame(Seen)
      /\ UNCHANGED <<script, pc, level, doc, page, named, bags, rows, visited, file, result, run>>
  BY TopIsFrame, KindOfFrame DEF LoopNext, RunnerInv, ContextTypes, Top
<1>2. /\ Top.step \in Steps /\ Top.step.op = "loop" /\ Top.left \in Seq(Seen)
      /\ Top.saved \in Seen \cup {NoRow}
  BY <1>1 DEF LoopFrame
<1>3. Top.step.as \in Items /\ Top.step.steps \in Seq(Steps)
  BY <1>2, ScriptsAssumption
<1>4. CASE Top.left = <<>>
  <2>1. Return /\ scope' = [scope EXCEPT ![Top.step.as] = Top.saved]
    BY <1>4 DEF LoopNext, Restored
  <2>2. scope' \in [Items -> Seen \cup {NoRow}]
    BY <1>2, <1>3, <2>1, ContextIs
  <2> QED BY <1>1, <2>1, <2>2, ReturnKeeps, ContextIs, NothingEmitted DEF GoesOn, result
<1>5. CASE Top.left # <<>>
  <2> DEFINE first == Head(Top.left)
             left == Tail(Top.left)
             f == [Top EXCEPT !.left = left, !.item = first]
             st == [stack EXCEPT ![Len(stack)] = f]
  <2>1. scope' = [scope EXCEPT ![Top.step.as] = first] /\ stack' = Append(st, Block(Top.step.steps))
    <3>1. [stack EXCEPT ![Len(stack)].left = Tail(@), ![Len(stack)].item = Head(Top.left)] = st
      BY <1>1, TopIsFrame DEF StackFits
    <3> QED BY <1>5, <3>1 DEF LoopNext
  <2>2. first \in Seen /\ left \in Seq(Seen)
    BY <1>2, <1>5, HeadTailProperties
  <2> HIDE DEF first, left
  <2>3. f \in LoopFrame(Seen) /\ f.kind = "loop"
    BY <1>1, <2>2 DEF LoopFrame
  <2> HIDE DEF f
  <2>4. f \in Frame(Seen)
    BY <2>3 DEF Frame
  <2>5. StackFits(st, Seen) /\ Len(st) = Len(stack) /\ st[Len(st)] = f
    BY <1>1, <2>3, <2>4, TopReplaced, TopIsFrame DEF Top, StackFits
  <2> HIDE DEF st
  <2>6. StackFits(stack', Seen)
    BY <1>3, <2>1, <2>3, <2>5, BlockIsFrame, Pushed
  <2>7. scope' \in [Items -> Seen \cup {NoRow}]
    BY <1>3, <2>1, <2>2, ContextIs
  <2> QED BY <1>1, <2>6, <2>7, ContextIs, NothingEmitted DEF GoesOn, result
<1> QED BY <1>4, <1>5

LEMMA CountsAre ==
    ASSUME RunnerInv
    PROVE  RowsInBags \in [Bags -> Nat]
BY ContextIs DEF RowsInBags

LEMMA PaginateStartKeeps == RunnerInv /\ PaginateStart => RunnerInv'
<1> SUFFICES ASSUME RunnerInv, PaginateStart PROVE RunnerInv'
  OBVIOUS
<1>1. /\ Executing /\ pc = "steps" /\ Step \in Steps /\ Step.op = "paginate"
      /\ StackFits(stack, Seen) /\ Top.kind = "block" /\ Top \in BlockFrame
      /\ Top.from \in 1..Top.at /\ Top.at \in 1..Len(Top.steps)
      /\ UNCHANGED <<script, pc, level, doc, page, scope, named, bags, rows, visited, file, result, run>>
  BY StepIs DEF PaginateStart
<1> DEFINE block == SubSeq(Top.steps, Top.from, Top.at - 1)
           again == Replay(block)
           driven == Drives(block)
           counts == RowsInBags
           f == [kind |-> "pages", step |-> Step, block |-> again, url |-> driven,
                 turns |-> 0, no |-> page, before |-> counts]
<1>2. stack' = Append(stack, f)
  BY DEF PaginateStart
<1>3. block \in Seq(Steps)
  <2>1. Top.steps \in Seq(Steps)
    BY <1>1 DEF BlockFrame
  <2>2. \A i \in Top.from..(Top.at - 1) : Top.steps[i] \in Steps
    BY <1>1, <2>1
  <2>3. Top.from \in Int /\ Top.at - 1 \in Int
    BY <1>1
  <2> QED BY <2>2, <2>3, SubSeqProperties
<1> HIDE DEF block
<1>4. again \in Seq(Steps) /\ driven \in BOOLEAN /\ counts \in [Bags -> Nat] /\ page \in Nat
  BY <1>3, WithoutGotosType, CountsAre, ContextIs DEF Replay, Drives
<1> HIDE DEF again, driven, counts
<1>5. f \in Frame(Seen) /\ f.kind = "pages"
  BY <1>1, <1>4 DEF Frame, PagesFrame
<1> HIDE DEF f
<1>6. StackFits(stack', Seen)
  BY <1>1, <1>2, <1>5, Pushed DEF Top
<1> QED BY <1>1, <1>6, ContextIs, NothingEmitted DEF GoesOn, result

LEMMA PagesIs ==
    ASSUME RunnerInv, InPages
    PROVE  /\ pc = "steps" /\ StackFits(stack, Seen) /\ Top.kind = "pages"
           /\ Top = stack[Len(stack)] /\ Top \in PagesFrame /\ Top.no \in Nat /\ Top.block \in Seq(Steps)
<1>1. /\ pc = "steps" /\ StackFits(stack, Seen) /\ Top.kind = "pages"
      /\ Top = stack[Len(stack)] /\ Top \in PagesFrame
  BY TopIsFrame, KindOfFrame DEF InPages, RunnerInv, ContextTypes, Top
<1> QED BY <1>1 DEF PagesFrame

LEMMA PaginateEndKeeps == RunnerInv /\ PaginateEnd => RunnerInv'
<1> SUFFICES ASSUME RunnerInv, PaginateEnd PROVE RunnerInv'
  OBVIOUS
<1> QED BY PagesIs, ReturnKeeps, ContextIs, NothingEmitted DEF PaginateEnd, GoesOn, result

LEMMA TurnKeeps == RunnerInv /\ Turn => RunnerInv'
<1> SUFFICES ASSUME RunnerInv, Turn PROVE RunnerInv'
  OBVIOUS
<1>1. /\ pc = "steps" /\ StackFits(stack, Seen) /\ Top.kind = "pages"
      /\ Top = stack[Len(stack)] /\ Top \in PagesFrame /\ Top.no \in Nat /\ Top.block \in Seq(Steps)
      /\ UNCHANGED <<script, pc, level, scope, named, bags, rows, file, result, run>>
  BY PagesIs DEF Turn
<1> DEFINE f == Turned(Top)
           st == [stack EXCEPT ![Len(stack)] = f]
<1>2. stack' = Append(st, Block(Top.block)) /\ page' = Top.no + 1
  BY <1>1 DEF Turn
<1>3. f \in PagesFrame /\ f.kind = "pages"
  <2> DEFINE turns == Top.turns + 1
             no == Top.no + 1
             counts == RowsInBags
  <2>1. turns \in Nat /\ no \in Nat /\ counts \in [Bags -> Nat]
    BY <1>1, CountsAre DEF PagesFrame
  <2>2. f = [Top EXCEPT !.turns = turns, !.no = no, !.before = counts]
    BY DEF Turned
  <2> HIDE DEF turns, no, counts, f
  <2> QED BY <1>1, <2>1, <2>2 DEF PagesFrame
<1> HIDE DEF f
<1>4. f \in Frame(Seen)
  BY <1>3 DEF Frame
<1>5. StackFits(st, Seen) /\ Len(st) = Len(stack) /\ st[Len(st)] = f
  BY <1>1, <1>3, <1>4, TopReplaced, TopIsFrame DEF StackFits
<1> HIDE DEF st
<1>6. StackFits(stack', Seen)
  BY <1>1, <1>2, <1>3, <1>5, BlockIsFrame, Pushed
<1>7. page' \in Nat /\ visited' \in Nat /\ doc' \in [list : BOOLEAN, first : Nat, last : Nat]
  <2>1. page' \in Nat
    BY <1>1, <1>2
  <2>2. CASE Top.url
    BY <2>1, <2>2, ContextIs DEF Turn
  <2>3. CASE ~Top.url
    <3> DEFINE first == IF Top.step.more /\ ~http THEN doc.first ELSE doc.last + 1
               last == doc.last + 1
    <3>1. visited' = visited + 1 /\ doc' = Doc(TRUE, first, last)
      BY <2>3 DEF Turn
    <3>2. first \in Nat /\ last \in Nat
      BY ContextIs
    <3> HIDE DEF first, last
    <3> QED BY <2>1, <3>1, <3>2, ContextIs DEF Doc
  <2> QED BY <2>2, <2>3
<1> QED BY <1>1, <1>6, <1>7, ContextIs, NothingEmitted DEF GoesOn, result

LEMMA TurnFailsKeeps == RunnerInv /\ TurnFails => RunnerInv'
<1> SUFFICES ASSUME RunnerInv, TurnFails PROVE RunnerInv'
  OBVIOUS
<1>1. pc = "steps" /\ Top.kind = "pages" /\ Top.no \in Nat
  BY PagesIs DEF TurnFails
<1>2. CASE \E failure \in {"unsupported", "blocked"} : Fails(failure)
  BY <1>1, <1>2, FailsKeeps DEF Failure
<1>3. CASE /\ page' = Top.no + 1 /\ Return
           /\ UNCHANGED <<script, pc, level, doc, scope, named, bags, rows, visited, file, result, run>>
  BY <1>1, <1>3, ReturnKeeps, ContextIs, NothingEmitted DEF GoesOn, result
<1> QED BY <1>2, <1>3 DEF TurnFails

LEMMA BlockEndsKeeps == RunnerInv /\ BlockEnds => RunnerInv'
<1> SUFFICES ASSUME RunnerInv, BlockEnds PROVE RunnerInv'
  OBVIOUS
<1>1. /\ pc = "steps" /\ StackFits(stack, Seen) /\ Top.kind = "block" /\ Len(stack) > 1
      /\ Len(stack) \in Nat
      /\ UNCHANGED <<script, pc, level, doc, page, scope, named, bags, rows, visited, file, result, run>>
  BY TopIsFrame DEF BlockEnds, InBlock, RunnerInv, ContextTypes
<1>2. Below.kind # "block" /\ Len(stack) - 2 \in 1..Len(stack) /\ stack[Len(stack) - 2].kind = "block"
  <2>1. Below.kind # "block"
    BY <1>1 DEF StackFits, Below, Top
  <2>2. Len(stack) # 2
    BY <2>1, <1>1 DEF StackFits, Below
  <2> QED BY <1>1, <2>1, <2>2 DEF StackFits, Below
<1> DEFINE n == Len(stack) - 2
           st == SubSeq(stack, 1, n)
<1>3. StackFits(st, Seen) /\ st[Len(st)].kind = "block"
  BY <1>1, <1>2, Lowered
<1>4. StackFits(Onward(st), Seen)
  <2> HIDE DEF st
  <2> QED BY <1>3, OnwardFits
<1>5. StackFits(Front(stack), Seen)
  BY <1>1, FrontIs
<1>6. stack' = Onward(st) \/ stack' = Front(stack)
  BY DEF BlockEnds
<1>7. StackFits(stack', Seen)
  <2> HIDE DEF st
  <2> QED BY <1>4, <1>5, <1>6
<1> QED BY <1>1, <1>7, ContextIs, NothingEmitted DEF GoesOn, result

-----------------------------------------------------------------------------
(***************************************************************************)
(* The beginning and the end of a run.                                     *)
(***************************************************************************)
LEMMA RunnerInit == Init => RunnerInv
<1> SUFFICES ASSUME Init PROVE RunnerInv
  OBVIOUS
<1>1. script \in Scripts /\ pc = "load" /\ level = 1 /\ level \in 1..Len(rungs)
  BY LadderType DEF Init, rungs
<1>2. ContextTypes
  <2>1. doc \in [list : BOOLEAN, first : Nat, last : Nat]
    BY DEF Init, NoDoc, Doc
  <2>2. scope \in [Items -> Seen \cup {NoRow}] /\ bags \in [Bags -> Seq(Seen)] /\ rows \in Seq(Seen)
    BY EmptySeq DEF Init, NoItems, NoBags
  <2> QED BY <2>1, <2>2 DEF Init, ContextTypes
<1>3. OutcomeTypes
  BY EmptySeq DEF Init, OutcomeTypes, NoOutcome, How
<1>4. Stages
  BY <1>1, EmptySeq DEF Init, Stages, LineTells, Line, RunTells, NoOutcome, NoCode, NotRecorded, Failure
<1>5. EmittedIsOnDisk
  <2>1. <<>> \in Seq(Row)
    BY EmptySeq
  <2> QED BY <2>1, EmptySuffix DEF Init, EmittedIsOnDisk, NoOutcome
<1> QED BY <1>1, <1>2, <1>3, <1>4, <1>5 DEF RunnerInv, PcState

LEMMA LoadKeeps == RunnerInv /\ Load => RunnerInv'
<1> SUFFICES ASSUME RunnerInv, Load PROVE RunnerInv'
  OBVIOUS
<1>1. UNCHANGED <<script, level, context, file, attempts, code, run>> /\ pc = "load" /\ line' = "other"
  BY DEF Load
<1>2. /\ ContextTypes' /\ rungs' = rungs /\ rows' = rows
  BY <1>1 DEF RunnerInv, ContextTypes, context, Seen, rungs
<1>3. outcome = NoOutcome /\ \/ pc' = "open" /\ outcome' = outcome
                             \/ pc' = "judge" /\ outcome' = [how |-> "script", rows |-> <<>>]
  BY <1>1 DEF Load, RunnerInv, Stages
<1>4. OutcomeTypes'
  <2>1. file \in Seq(Row) /\ attempts \in Seq(Rung \X (Failure \cup {"ok"})) /\ <<>> \in Seq(Row)
    BY EmptySeq DEF RunnerInv, OutcomeTypes
  <2>2. outcome' \in [how : How, rows : Seq(Row)] /\ outcome'.how # "ok"
    <3>1. outcome' = [how |-> "none", rows |-> <<>>] \/ outcome' = [how |-> "script", rows |-> <<>>]
      BY <1>3 DEF NoOutcome
    <3>2. "none" \in How /\ "script" \in How
      BY DEF How
    <3>3. ASSUME NEW h \in How, NEW r \in Seq(Row), h # "ok", outcome' = [how |-> h, rows |-> r]
          PROVE  outcome' \in [how : How, rows : Seq(Row)] /\ outcome'.how # "ok"
      BY <3>3
    <3> QED BY <2>1, <3>1, <3>2, <3>3
  <2> QED BY <1>1, <2>1, <2>2 DEF OutcomeTypes
<1>5. Stages'
  <2>1. LineTells'
    BY <1>1, <1>3 DEF LineTells, Line
  <2> QED BY <1>1, <1>3, <2>1 DEF RunnerInv, Stages, RunTells, NoOutcome, Failure
<1>6. EmittedIsOnDisk'
  BY <1>1, <1>2, <1>3 DEF RunnerInv, EmittedIsOnDisk, NoOutcome
<1> QED BY <1>1, <1>2, <1>3, <1>4, <1>5, <1>6 DEF RunnerInv, PcState

LEMMA OpenKeeps == RunnerInv /\ Open => RunnerInv'
<1> SUFFICES ASSUME RunnerInv, Open PROVE RunnerInv'
  OBVIOUS
<1>1. /\ pc = "open" /\ pc' = "steps" /\ stack' = <<Block(script.steps)>>
      /\ UNCHANGED <<script, level, doc, page, scope, named, bags, rows, visited, file, attempts,
                     outcome, code, run>>
      /\ line' = "other"
  BY DEF Open
<1>2. StackFits(stack', Seen')
  <2> DEFINE f == Block(script.steps)
  <2>1. script.steps \in Seq(Steps)
    BY ScriptsAssumption DEF RunnerInv
  <2>2. f \in Frame(Seen') /\ f.kind = "block" /\ f.from <= f.at
    BY <2>1, BlockIsFrame
  <2> HIDE DEF f
  <2>3. stack' = <<f>>
    BY <1>1 DEF f
  <2> QED BY <2>2, <2>3 DEF StackFits
<1>3. ContextTypes' /\ rungs' = rungs /\ stack' # <<>>
  BY <1>1, <1>2 DEF RunnerInv, ContextTypes, Seen, rungs
<1>4. OutcomeTypes'
  BY <1>1 DEF RunnerInv, OutcomeTypes, Seen
<1>5. Stages'
  <2>1. LineTells'
    BY <1>1 DEF LineTells, Line
  <2> QED BY <1>1, <2>1 DEF RunnerInv, Stages, RunTells
<1>6. EmittedIsOnDisk'
  BY <1>1 DEF RunnerInv, EmittedIsOnDisk
<1> QED BY <1>1, <1>3, <1>4, <1>5, <1>6 DEF RunnerInv, PcState

LEMMA OpenFailsKeeps == RunnerInv /\ OpenFails => RunnerInv'
BY FailsKeeps DEF OpenFails, Failure

LEMMA RungPassesKeeps == RunnerInv /\ RungPasses => RunnerInv'
<1> SUFFICES ASSUME RunnerInv, RungPasses PROVE RunnerInv'
  OBVIOUS
<1>1. /\ pc = "steps" /\ pc' = "judge" /\ attempts' = Append(attempts, <<rung, "ok">>)
      /\ outcome' = [how |-> "ok", rows |-> rows]
      /\ UNCHANGED <<script, level, file, line, code, run>>
  BY DEF RungPasses, InBlock
<1>2. ContextTypes' /\ rows' = <<>>
  BY NewContextFits DEF RungPasses
<1>3. rungs' = rungs /\ Seen' = Seen
  BY <1>1 DEF rungs, Seen
<1>4. /\ attempts' \in Seq(Rung \X (Failure \cup {"ok"})) /\ attempts' # <<>>
      /\ attempts'[Len(attempts')][2] = "ok"
  <2> DEFINE tried == <<rung, "ok">>
  <2>1. tried \in Rung \X (Failure \cup {"ok"}) /\ tried[2] = "ok"
    BY RungIs
  <2>2. attempts \in Seq(Rung \X (Failure \cup {"ok"})) /\ attempts' = Append(attempts, tried)
    BY <1>1 DEF RunnerInv, OutcomeTypes
  <2> HIDE DEF tried
  <2>3. /\ attempts' \in Seq(Rung \X (Failure \cup {"ok"})) /\ attempts' # <<>>
        /\ Len(attempts') = Len(attempts) + 1 /\ attempts'[Len(attempts) + 1] = tried
    BY <2>1, <2>2, AppendProperties
  <2> QED BY <2>1, <2>3
<1>5. rows \in Seq(Seen) /\ rows \in Seq(Row) /\ file \in Seq(Row) /\ IsSuffix(rows, file)
  BY RungIs, SeenAreRows, ContextIs DEF RunnerInv, EmittedIsOnDisk
<1>6. OutcomeTypes'
  BY <1>1, <1>3, <1>4, <1>5 DEF OutcomeTypes, How
<1>7. Stages'
  <2>1. LineTells'
    BY <1>1 DEF RunnerInv, Stages, LineTells
  <2> QED BY <1>1, <1>4, <2>1 DEF RunnerInv, Stages, RunTells, Failure
<1>8. EmittedIsOnDisk'
  BY <1>1, <1>2, <1>5, EmptySuffix DEF EmittedIsOnDisk
<1> QED BY <1>1, <1>2, <1>3, <1>6, <1>7, <1>8 DEF RunnerInv, PcState

LEMMA TimeoutKeeps == RunnerInv /\ Timeout => RunnerInv'
<1> SUFFICES ASSUME RunnerInv, Timeout PROVE RunnerInv'
  OBVIOUS
<1>1. /\ pc \in {"open", "steps"} /\ pc' = "judge" /\ outcome' = [how |-> "timeout", rows |-> file]
      /\ UNCHANGED <<script, level, file, attempts, code, run>> /\ line' = "other"
  BY DEF Timeout
<1>2. ContextTypes' /\ rows' = <<>> /\ stack' = <<>> /\ rungs' = rungs
  BY <1>1, NewContextFits DEF Timeout, rungs
<1>3. OutcomeTypes'
  <2>1. file \in Seq(Row) /\ attempts \in Seq(Rung \X (Failure \cup {"ok"}))
    BY DEF RunnerInv, OutcomeTypes
  <2> QED BY <1>1, <2>1 DEF OutcomeTypes, How
<1>4. Stages'
  <2>1. LineTells'
    BY <1>1 DEF LineTells, Line
  <2> QED BY <1>1, <2>1 DEF RunnerInv, Stages, RunTells, Failure
<1>5. EmittedIsOnDisk'
  BY <1>1, <1>2, EmptySuffix DEF RunnerInv, OutcomeTypes, EmittedIsOnDisk
<1> QED BY <1>1, <1>2, <1>3, <1>4, <1>5 DEF RunnerInv, PcState

\* What the parent read last.
LEMMA LastReadTells ==
    ASSUME RunnerInv, line' \in LastRead, UNCHANGED attempts, pc' # "steps"
    PROVE  /\ line' \in Line
           /\ line' = "blocked" => attempts' # <<>> /\ attempts'[Len(attempts')][2] = "blocked"
           /\ pc = "told" => line' # "nothing"
<1>1. line' \in {line, LineOf(outcome.how), "other"} /\ LineTells
  BY DEF LastRead, RunnerInv, Stages
<1>2. LineOf(outcome.how) \in {"other", "blocked"}
      /\ (LineOf(outcome.how) = "blocked" => outcome.how = "blocked")
  BY DEF LineOf
<1>3. outcome.how = "blocked" => attempts # <<>> /\ attempts[Len(attempts)][2] = "blocked"
  BY DEF RunnerInv, Stages, Failure
<1> QED BY <1>1, <1>2, <1>3 DEF LineTells, Line

LEMMA KilledKeeps == RunnerInv /\ Killed => RunnerInv'
<1> SUFFICES ASSUME RunnerInv, Killed PROVE RunnerInv'
  OBVIOUS
<1>1. /\ pc \in {"load", "open", "steps", "judge", "told"} /\ pc' \in {"killed", "overdue"}
      /\ line' \in LastRead /\ code' = NoCode
      /\ outcome' = outcome \/ outcome' = NoOutcome
      /\ UNCHANGED <<script, level, file, attempts, run>>
  BY DEF Killed
<1>2. ContextTypes' /\ rows' = <<>> /\ stack' = <<>> /\ rungs' = rungs /\ Seen' = Seen
  BY <1>1, NewContextFits DEF Killed, rungs, Seen
<1>3. OutcomeTypes'
  <2>1. NoOutcome \in [how : How, rows : Seq(Row)] /\ NoOutcome.how # "ok"
    BY EmptySeq DEF NoOutcome, How
  <2>2. /\ attempts \in Seq(Rung \X (Failure \cup {"ok"})) /\ file \in Seq(Row)
        /\ outcome \in [how : How, rows : Seq(Row)]
        /\ outcome.how = "ok" => outcome.rows \in Seq(Seen)
    BY DEF RunnerInv, OutcomeTypes
  <2>3. CASE outcome' = outcome
    BY <1>1, <1>2, <2>2, <2>3 DEF OutcomeTypes
  <2>4. CASE outcome' = NoOutcome
    BY <1>1, <1>2, <2>1, <2>2, <2>4 DEF OutcomeTypes
  <2> QED BY <1>1, <2>3, <2>4
<1>4. Stages'
  <2>1. LineTells'
    BY <1>1, LastReadTells DEF LineTells
  <2> QED BY <1>1, <2>1 DEF RunnerInv, Stages, RunTells, NoOutcome, Failure
<1>5. EmittedIsOnDisk'
  BY <1>1, <1>2, EmptySuffix DEF RunnerInv, OutcomeTypes, EmittedIsOnDisk, NoOutcome
<1> QED BY <1>1, <1>2, <1>3, <1>4, <1>5 DEF RunnerInv, PcState

LEMMA CustomPythonExitsKeeps == RunnerInv /\ CustomPythonExits => RunnerInv'
<1> SUFFICES ASSUME RunnerInv, CustomPythonExits PROVE RunnerInv'
  OBVIOUS
<1>1. /\ pc = "steps" /\ pc' = "exited" /\ code' \in 0..3
      /\ UNCHANGED <<script, level, file, attempts, outcome, line, run>>
  BY DEF CustomPythonExits, Executing, InBlock
<1>2. ContextTypes' /\ rows' = <<>> /\ stack' = <<>> /\ rungs' = rungs
  BY <1>1, NewContextFits DEF CustomPythonExits, rungs
<1>3. outcome = NoOutcome
  BY <1>1 DEF RunnerInv, Stages
<1>4. OutcomeTypes'
  BY <1>1, <1>3 DEF RunnerInv, OutcomeTypes, NoOutcome
<1>5. Stages'
  <2>1. LineTells'
    BY <1>1 DEF RunnerInv, Stages, LineTells
  <2>2. CodeOfScript'
    BY <1>1, <1>3 DEF CodeOfScript
  <2> QED BY <1>1, <1>3, <2>1, <2>2 DEF RunnerInv, Stages, RunTells, NoOutcome, Failure
<1>6. EmittedIsOnDisk'
  BY <1>1, <1>2, <1>3, EmptySuffix DEF RunnerInv, OutcomeTypes, EmittedIsOnDisk, NoOutcome
<1> QED BY <1>1, <1>2, <1>4, <1>5, <1>6 DEF RunnerInv, PcState

LEMMA ExitKeeps == RunnerInv /\ Exit => RunnerInv'
<1> SUFFICES ASSUME RunnerInv, Exit PROVE RunnerInv'
  OBVIOUS
<1>1. /\ pc = "told" /\ pc' = "exited" /\ line' \in LastRead
      /\ UNCHANGED <<script, level, context, file, attempts, outcome, code, run>>
  BY DEF Exit
<1>2. ContextTypes' /\ rungs' = rungs /\ rows' = rows /\ Seen' = Seen
  BY <1>1 DEF RunnerInv, ContextTypes, context, Seen, rungs
<1>3. OutcomeTypes' /\ EmittedIsOnDisk'
  BY <1>1, <1>2 DEF RunnerInv, OutcomeTypes, EmittedIsOnDisk
<1>4. Stages'
  <2>1. LineTells'
    BY <1>1, LastReadTells DEF LineTells
  <2>2. CodeTells'
    BY <1>1 DEF RunnerInv, Stages, CodeTells
  <2> QED BY <1>1, <2>1, <2>2 DEF RunnerInv, Stages, RunTells
<1> QED BY <1>1, <1>2, <1>3, <1>4 DEF RunnerInv, PcState

\* exit_code_for.
LEMMA ExitCodeIs ==
    ASSUME NEW how, NEW verdict
    PROVE  /\ how = "blocked" => ExitCode(how, verdict) = 2
           /\ how \notin {"ok", "blocked"} => ExitCode(how, verdict) = 3
           /\ how = "ok" => ExitCode(how, verdict) = IF verdict = "failed" THEN 1 ELSE 0
<1>1. how = "blocked" => ExitCode(how, verdict) = 2
  BY ZenonT(30) DEF ExitCode
<1>2. how \notin {"ok", "blocked"} => ExitCode(how, verdict) = 3
  BY ZenonT(30) DEF ExitCode
<1>3. how = "ok" => ExitCode(how, verdict) = IF verdict = "failed" THEN 1 ELSE 0
  BY ZenonT(30) DEF ExitCode
<1> QED BY <1>1, <1>2, <1>3

LEMMA JudgeKeeps == RunnerInv /\ Judge => RunnerInv'
<1> SUFFICES ASSUME RunnerInv, Judge PROVE RunnerInv'
  OBVIOUS
<1>1. /\ pc = "judge" /\ pc' = "told" /\ line' = "outcome"
      /\ UNCHANGED <<script, level, context, file, attempts, run>>
  BY DEF Judge
<1>2. ContextTypes' /\ rungs' = rungs /\ rows' = rows /\ Seen' = Seen
  BY <1>1 DEF RunnerInv, ContextTypes, context, Seen, rungs
<1>5. LineTells'
  BY <1>1 DEF LineTells, Line
<1>3. CASE \E verdict : code' = ExitCode(outcome.how, verdict) /\ outcome' = outcome
  <2>1. /\ outcome.how = "ok" => code' \in {0, 1}
        /\ outcome.how = "blocked" => code' = 2
        /\ outcome.how \notin {"ok", "blocked"} => code' = 3
    BY <1>3, ExitCodeIs
  <2>2. CodeTells'
    BY <1>3, <2>1 DEF CodeTells
  <2>3. OutcomeTypes' /\ EmittedIsOnDisk'
    BY <1>1, <1>2, <1>3 DEF RunnerInv, OutcomeTypes, EmittedIsOnDisk
  <2>4. Stages'
    BY <1>1, <1>3, <1>5, <2>2 DEF RunnerInv, Stages, RunTells
  <2> QED BY <1>1, <1>2, <2>3, <2>4 DEF RunnerInv, PcState
<1>4. CASE /\ outcome.how = "ok" /\ outcome' = [how |-> "unhandled", rows |-> <<>>] /\ code' = 3
  <2>1. CodeTells'
    BY <1>4 DEF CodeTells
  <2>2. OutcomeTypes'
    BY <1>1, <1>4, EmptySeq DEF RunnerInv, OutcomeTypes, How
  <2>3. EmittedIsOnDisk'
    BY <1>1, <1>2, <1>4 DEF RunnerInv, EmittedIsOnDisk
  <2>4. Stages'
    BY <1>1, <1>4, <1>5, <2>1 DEF RunnerInv, Stages, RunTells, Failure
  <2> QED BY <1>1, <1>2, <2>2, <2>3, <2>4 DEF RunnerInv, PcState
<1> QED BY <1>3, <1>4 DEF Judge

LEMMA RecordKeeps == RunnerInv /\ Record => RunnerInv'
<1> SUFFICES ASSUME RunnerInv, Record PROVE RunnerInv'
  OBVIOUS
<1>1. /\ pc \in {"exited", "killed", "overdue"} /\ pc' = "recorded"
      /\ UNCHANGED <<script, level, context, file, attempts, outcome, line, code>>
  BY DEF Record, Ended, result
<1>2. ContextTypes' /\ rungs' = rungs /\ rows' = rows /\ Seen' = Seen
  BY <1>1 DEF RunnerInv, ContextTypes, context, Seen, rungs
<1>3. OutcomeTypes' /\ EmittedIsOnDisk'
  BY <1>1, <1>2 DEF RunnerInv, OutcomeTypes, EmittedIsOnDisk
<1> DEFINE told == IF line = "outcome" THEN outcome.rows ELSE <<>>
           records == IF file # <<>> THEN file ELSE told
           counted == IF pc = "overdue" THEN 0 ELSE Len(told)
<1>4. run' = [status |-> Status, records |-> records,
              row_count |-> IF counted = 0 THEN Len(records) ELSE counted]
  BY DEF Record
<1>5. records \in Seq(Row) /\ counted \in Nat /\ Len(records) \in Nat
  BY EmptySeq DEF RunnerInv, OutcomeTypes
<1> HIDE DEF records, counted
<1>6. run'.status = Status /\ run'.records \in Seq(Row) /\ run'.row_count \in Nat
  BY <1>4, <1>5
<1>7. /\ pc = "exited" => CodeTells \/ CodeOfScript
      /\ pc \in {"killed", "overdue"} => code = NoCode
      /\ LineTells
  BY DEF RunnerInv, Stages
<1>8. (CodeTells' <=> CodeTells) /\ (CodeOfScript' <=> CodeOfScript) /\ LineTells'
  BY <1>1, <1>7 DEF CodeTells, CodeOfScript, LineTells
<1>9. RunTells'
  <2>1. CASE pc = "exited"
    <3>1. Status = EXIT_STATUS[code + 1] /\ code # NoCode
      BY <1>7, <2>1 DEF Status, LineTells, CodeTells, CodeOfScript, NoCode
    <3> QED BY <1>1, <1>6, <3>1 DEF RunTells
  <2>2. CASE pc \in {"killed", "overdue"}
    <3>1. code = NoCode /\ (Status = "error" \/ (Status = "blocked" /\ line = "blocked"))
      BY <1>7, <2>2 DEF Status
    <3> QED BY <1>1, <1>6, <3>1 DEF RunTells
  <2> QED BY <1>1, <2>1, <2>2
<1>10. Stages'
  BY <1>1, <1>6, <1>7, <1>8, <1>9 DEF RunnerInv, Stages
<1> QED BY <1>1, <1>2, <1>3, <1>10 DEF RunnerInv, PcState

-----------------------------------------------------------------------------
LEMMA RunnerNext == RunnerInv /\ [Next]_vars => RunnerInv'
<1> SUFFICES ASSUME RunnerInv, [Next]_vars PROVE RunnerInv'
  OBVIOUS
<1>1. CASE StepOfScript
  BY <1>1, PlainStepKeeps, GotoKeeps, ExtractKeeps, ExtractListKeeps, CustomPythonKeeps, EmitKeeps,
     LoopStartKeeps, LoopNextKeeps, PaginateStartKeeps, PaginateEndKeeps, TurnKeeps, TurnFailsKeeps,
     BlockEndsKeeps, RungPassesKeeps DEF StepOfScript
<1>2. CASE Load \/ Open \/ OpenFails \/ Judge \/ Exit \/ Record \/ Timeout \/ CustomPythonExits \/ Killed
  BY <1>2, LoadKeeps, OpenKeeps, OpenFailsKeeps, JudgeKeeps, ExitKeeps, RecordKeeps, TimeoutKeeps,
     CustomPythonExitsKeeps, KilledKeeps
<1>3. CASE UNCHANGED vars
  <2>1. UNCHANGED <<script, pc, level, stack, doc, page, scope, named, bags, rows, visited, file,
                    attempts, outcome, line, code, run>>
    BY <1>3 DEF vars, context, result
  <2>2. ContextTypes' /\ OutcomeTypes' /\ rungs' = rungs
    BY <2>1 DEF RunnerInv, ContextTypes, OutcomeTypes, Seen, rungs
  <2>3. Stages' /\ EmittedIsOnDisk'
    BY <2>1 DEF RunnerInv, Stages, CodeTells, CodeOfScript, LineTells, RunTells, EmittedIsOnDisk
  <2> QED BY <2>1, <2>2, <2>3 DEF RunnerInv
<1> QED BY <1>1, <1>2, <1>3 DEF Next, Progress

\* The inductive invariant: what the context, the stack and the outcome hold at each
\* point of the run, for every script (steps.py, escalation.py, cli.py).
THEOREM RunnerInvariant == Spec => []RunnerInv
<1>1. Init => RunnerInv
  BY RunnerInit
<1>2. RunnerInv /\ [Next]_vars => RunnerInv'
  BY RunnerNext
<1> QED BY <1>1, <1>2, PTL DEF Spec

-----------------------------------------------------------------------------
(***************************************************************************)
(* What follows of the properties that the run checks.                     *)
(***************************************************************************)
\* Every variable has its type.
THEOREM RunnerTypes == Spec => []TypeOK
<1>1. RunnerInv => TypeOK
  <2> SUFFICES ASSUME RunnerInv PROVE TypeOK
    OBVIOUS
  <2>1. Seen \subseteq Row /\ Seq(Seen) \subseteq Seq(Row)
    BY RungIs, SeenAreRows
  <2>2. \A i \in DOMAIN stack : stack[i].kind \in {"block", "loop", "pages"}
    <3>1. CASE stack = <<>>
      BY <3>1
    <3>2. CASE stack # <<>>
      <4>1. StackFits(stack, Seen) /\ DOMAIN stack = 1..Len(stack)
        BY <3>2 DEF RunnerInv, ContextTypes, StackFits
      <4> QED BY <4>1, TopIsFrame, KindOfFrame
    <3> QED BY <3>1, <3>2
  <2>3. /\ doc \in [list : BOOLEAN, first : Nat, last : Nat]
        /\ page \in Nat /\ visited \in Nat
        /\ scope \in [Items -> Row \cup {NoRow}]
        /\ named \subseteq Bags /\ bags \in [Bags -> Seq(Row)]
        /\ rows \in Seq(Row) /\ file \in Seq(Row)
    BY <2>1, ContextIs
  <2>4. attempts \in Seq(Rung \X (Failure \cup {"ok"})) /\ outcome.how \in How /\ outcome.rows \in Seq(Row)
    BY DEF RunnerInv, OutcomeTypes
  <2>5. /\ script \in Scripts /\ pc \in PcState /\ level \in 1..Len(rungs)
        /\ run.records \in Seq(Row) /\ run.row_count \in Nat
    BY DEF RunnerInv, Stages
  <2>6. line \in Line /\ code \in -1..3
    BY DEF RunnerInv, Stages, LineTells, CodeTells, CodeOfScript, NoCode, PcState
  <2>7. run.status \in {"running", "passed", "validation_failed", "blocked", "error"}
    BY <2>6 DEF RunnerInv, Stages, RunTells, NoCode, EXIT_STATUS
  <2> QED BY <2>2, <2>3, <2>4, <2>5, <2>6, <2>7 DEF TypeOK
<1> QED BY <1>1, RunnerInvariant, PTL

\* What is judged is what one rung found: no row of a rung that failed is left in the
\* context of a later one (escalation.py), for scripts of any shape.
THEOREM OnlyRowsOfTheRung == Spec => []RowsOfOneRung
<1>1. RunnerInv => RowsOfOneRung
  <2>1. ASSUME NEW s \in Seq(Seen) PROVE \A i \in DOMAIN s : s[i][1] = level
    BY <2>1 DEF Seen
  <2> QED BY <2>1 DEF RunnerInv, ContextTypes, OutcomeTypes, RowsOfOneRung
<1> QED BY <1>1, RunnerInvariant, PTL

\* Whenever a run is stopped, what it emitted is on disk, in order, and so is every
\* row that was judged (artifacts.append_record).
THEOREM WhatIsEmittedIsOnDisk == Spec => []EmittedIsOnDisk
<1>1. RunnerInv => EmittedIsOnDisk
  BY DEF RunnerInv
<1> QED BY <1>1, RunnerInvariant, PTL

\* Whenever and however the child ends, and whether or not its outcome line arrives: a
\* verdict means that the last rung came through and the child ended by itself, blocked
\* that this rung was refused, and what ended by itself has the status of its outcome
\* (cli.exit_code_for, tasks._status_of); only code of the script that ends the
\* process can leave another exit code.
THEOREM StatusTells == Spec => []StatusTellsHow
<1>1. RunnerInv => StatusTellsHow
  <2> SUFFICES ASSUME RunnerInv, pc = "recorded" PROVE StatusTellsHow
    BY DEF StatusTellsHow
  <2>1. /\ code = NoCode \/ CodeTells \/ CodeOfScript
        /\ outcome.how \in Failure \cup {"ok"} =>
              attempts # <<>> /\ attempts[Len(attempts)][2] = outcome.how
        /\ line = "blocked" => attempts # <<>> /\ attempts[Len(attempts)][2] = "blocked"
        /\ code # NoCode => run.status = EXIT_STATUS[code + 1]
        /\ code = NoCode => run.status = "error" \/ (run.status = "blocked" /\ line = "blocked")
    BY DEF RunnerInv, Stages, LineTells, RunTells
  <2>2. Last(attempts) = attempts[Len(attempts)]
    BY DEF Last
  <2>3. CASE code = NoCode
    BY <2>1, <2>2, <2>3 DEF StatusTellsHow
  <2>4. CASE code # NoCode /\ CodeOfScript
    BY <2>4 DEF StatusTellsHow, CodeOfScript
  <2>5. CASE code # NoCode /\ CodeTells
    <3>1. /\ (run.status = "blocked") = (outcome.how = "blocked")
          /\ (run.status = "error") = (outcome.how \notin {"ok", "blocked"})
          /\ run.status \in {"passed", "validation_failed"} => outcome.how = "ok"
      BY <2>1, <2>5 DEF CodeTells, EXIT_STATUS
    <3>2. outcome.how \in {"ok", "blocked"} => attempts # <<>> /\ Last(attempts)[2] = outcome.how
      BY <2>1, <2>2 DEF Failure
    <3> QED BY <2>5, <3>1, <3>2 DEF StatusTellsHow
  <2> QED BY <2>1, <2>3, <2>4, <2>5
<1> QED BY <1>1, RunnerInvariant, PTL

-----------------------------------------------------------------------------
(***************************************************************************)
(* The walk over a listing: for any script that is one, any number of      *)
(* pages with rows or without, and any cap.                                *)
(*                                                                         *)
(* The pagination keeps the number of the page it is at in its frame; the  *)
(* document, and with pagination by url the page variable, follow it, and  *)
(* the bag has rows of the pages before it only until the page is read.    *)
(***************************************************************************)
Ascends(s) == \A i, j \in DOMAIN s : i < j => s[i][3] < s[j][3]
UpTo(s, n) == \A i \in DOMAIN s : s[i][3] <= n

Main == stack[1]
Paging == stack[2]
Body == stack[3]
At(n) == Len(stack) = 1 /\ Main.at = n
InPage(n) == Len(stack) = 3 /\ Body.at = n

Driven == script.steps[1].url = "page"
Again == IF Driven THEN <<script.steps[1], script.steps[2]>> ELSE <<script.steps[2]>>
TakesOnce == http \/ ~script.steps[3].more
Bag == bags[script.steps[2].as]
Limit == Lower(script.steps[3].max, script.cap)

\* Where the walk is: before, in or behind the pagination, at its head or in a page.
Shape ==
    /\ Len(stack) \in 1..3
    /\ Main.steps = script.steps /\ Main.at \in 1..5
    /\ Main.at <= 3 => Main.from = 1
    /\ Len(stack) > 1 =>
         /\ Main.at = 3 /\ Paging.kind = "pages" /\ Paging.step = script.steps[3]
         /\ Paging.url = Driven /\ Paging.block = Again
    /\ Len(stack) = 3 => Body.steps = Again /\ Body.at \in 1..(Len(Again) + 1)

\* Which pages the document has, by the number in the pagination's frame.
Numbers ==
    /\ scope = NoItems
    /\ At(1) => page = 1
    /\ At(2) => page = 1 /\ doc.first = 1 /\ doc.last = 1
    /\ At(3) => page = 1 /\ doc.last = 1
    /\ Len(stack) > 1 /\ ~Driven => doc.last = Paging.no
    /\ Len(stack) = 3 /\ Driven => page = Paging.no
    /\ InPage(Len(Again)) => doc.last = Paging.no /\ (TakesOnce => doc.first = Paging.no)

\* Which pages the rows in the bag are from.
Order ==
    /\ Main.at <= 4 => rows = <<>>
    /\ At(1) \/ At(2) => Bag = <<>>
    /\ TakesOnce =>
         /\ Ascends(rows) /\ Ascends(Bag)
         /\ At(3) => UpTo(Bag, 1)
         /\ Len(stack) = 2 => UpTo(Bag, Paging.no)
         /\ Len(stack) = 3 => UpTo(Bag, IF Body.at > Len(Again) THEN Paging.no ELSE Paging.no - 1)

\* How many pages were visited.
Capped ==
    /\ At(1) => visited = 0
    /\ At(2) \/ At(3) => visited = 1
    /\ Len(stack) > 1 => visited <= Paging.turns + 1 /\ (Paging.turns > 0 => Paging.turns < Limit)
    /\ InPage(1) /\ Driven => visited <= Paging.turns
    /\ At(4) \/ At(5) => visited <= 1 \/ visited <= Limit

Walk == Shape /\ Numbers /\ Order /\ Capped

\* Between two attempts.
Fresh ==
    /\ page = 1 /\ scope = NoItems /\ bags = NoBags /\ rows = <<>> /\ visited = 0

ListingInv ==
    IF pc = "steps" THEN IsListing => Walk ELSE Fresh

-----------------------------------------------------------------------------
(***************************************************************************)
(* Lemmas on the steps of a listing and on rows.                           *)
(***************************************************************************)
LEMMA ListingSteps ==
    ASSUME RunnerInv, IsListing
    PROVE  /\ script.steps \in Seq(Steps) /\ Len(script.steps) = 4
           /\ \A n \in 1..4 : script.steps[n] \in Steps
           /\ script.steps[1].op = "goto" /\ script.steps[2].op = "extract_list"
           /\ script.steps[3].op = "paginate" /\ script.steps[4].op = "emit"
           /\ script.steps[4].source = script.steps[2].as /\ script.steps[2].as \in Bags
           /\ script.steps[3].max \in Int /\ script.cap \in Int /\ Limit \in Int
<1>1. script \in Scripts
  BY DEF RunnerInv
<1>2. script.steps \in Seq(Steps) /\ script.cap \in Int
  BY <1>1, ScriptsAssumption
<1>3. /\ Len(script.steps) = 4
      /\ script.steps[1].op = "goto" /\ script.steps[2].op = "extract_list"
      /\ script.steps[3].op = "paginate" /\ script.steps[4].op = "emit"
      /\ script.steps[4].source = script.steps[2].as
  BY DEF IsListing
<1>4. \A n \in 1..4 : script.steps[n] \in Steps
  BY <1>2, <1>3
<1>5. script.steps[2].as \in Bags /\ script.steps[3].max \in Int
  BY <1>3, <1>4, ScriptsAssumption
<1> QED BY <1>2, <1>3, <1>4, <1>5 DEF Limit, Lower

LEMMA AgainIs ==
    ASSUME RunnerInv, IsListing
    PROVE  /\ Driven => Len(Again) = 2 /\ Again[1] = script.steps[1] /\ Again[2] = script.steps[2]
           /\ ~Driven => Len(Again) = 1 /\ Again[1] = script.steps[2]
           /\ Len(Again) \in {1, 2} /\ Again[Len(Again)] = script.steps[2]
BY ListingSteps DEF Again

\* What a pagination repeats: all that is before it when its first step goes by the
\* page, and only the extraction otherwise.
LEMMA ReplayIs ==
    ASSUME RunnerInv, IsListing, NEW block, block = SubSeq(script.steps, 1, 2)
    PROVE  Drives(block) = Driven /\ Replay(block) = Again
<1>1. /\ block \in Seq(Steps) /\ Len(block) = 2 /\ DOMAIN block = {1, 2}
      /\ block[1] = script.steps[1] /\ block[2] = script.steps[2]
  <2>1. \A i \in 1..2 : script.steps[i] \in Steps
    BY ListingSteps
  <2> QED BY <2>1, SubSeqProperties
<1>2. block[1].op = "goto" /\ block[2].op = "extract_list"
  BY <1>1, ListingSteps
<1>3. Drives(block) = Driven
  <2>1. Drives(block) <=> block[1].url = "page"
    BY <1>1, <1>2 DEF Drives
  <2>2. Drives(block) \in BOOLEAN /\ Driven \in BOOLEAN
    BY DEF Drives, Driven
  <2> QED BY <1>1, <2>1, <2>2 DEF Driven
<1>4. CASE Driven
  <2>1. block = <<script.steps[1], script.steps[2]>>
    <3> DEFINE pair == <<script.steps[1], script.steps[2]>>
    <3>1. /\ pair \in Seq(Steps) /\ Len(pair) = 2
          /\ pair[1] = script.steps[1] /\ pair[2] = script.steps[2]
      BY ListingSteps
    <3> HIDE DEF pair
    <3>2. \A i \in 1..2 : block[i] = pair[i]
      BY <1>1, <3>1
    <3>3. block = pair
      BY <1>1, <3>1, <3>2, SeqEqual
    <3> QED BY <3>3 DEF pair
  <2> QED BY <1>3, <1>4, <2>1 DEF Replay, Again
<1>5. CASE ~Driven
  <2>1. PICK k : KeptOf(block, k) /\ WithoutGotos(block) = k[Len(block)]
    BY <1>1, WithoutGotosIs
  <2>2. ASSUME NEW n \in 0..2
        PROVE  k[n] = IF n = 0 THEN <<>>
            ELSE IF block[n].op = "goto" THEN k[n - 1] ELSE Append(k[n - 1], block[n])
    <3>1. n \in 0..Len(block)
      BY <1>1
    <3> QED BY <2>1, <3>1, Zenon DEF KeptOf
  <2>3. k[0] = <<>>
    BY <2>2
  <2>4. k[1] = k[0]
    BY <1>2, <2>2
  <2>5. k[2] = Append(k[1], block[2])
    <3>1. k[2] = IF 2 = 0 THEN <<>>
            ELSE IF block[2].op = "goto" THEN k[2 - 1] ELSE Append(k[2 - 1], block[2])
      BY <2>2
    <3>2. 2 # 0 /\ 2 - 1 = 1 /\ block[2].op # "goto"
      BY <1>2
    <3> QED BY <3>1, <3>2, Zenon
  <2>6. WithoutGotos(block) = <<script.steps[2]>>
    <3>1. WithoutGotos(block) = Append(<<>>, block[2])
      BY <1>1, <2>1, <2>3, <2>4, <2>5, Zenon
    <3> QED BY <1>1, <3>1
  <2> QED BY <1>3, <1>5, <2>6 DEF Replay, Again
<1> QED BY <1>3, <1>4, <1>5

\* Rows of later pages behind rows of earlier ones.
LEMMA AscendsOn ==
    ASSUME NEW R, R \subseteq Row, NEW s \in Seq(R), NEW e \in Seq(R), NEW n \in Int,
           Ascends(s), UpTo(s, n - 1), Ascends(e), \A i \in DOMAIN e : e[i][3] = n
    PROVE  Ascends(s \o e) /\ UpTo(s \o e, n)
<1> DEFINE t == s \o e
<1>1. /\ t \in Seq(R) /\ Len(t) = Len(s) + Len(e)
      /\ \A i \in 1..Len(t) : t[i] = IF i <= Len(s) THEN s[i] ELSE e[i - Len(s)]
  BY ConcatProperties
<1>2. \A i \in 1..Len(t) : t[i][3] \in Nat
  BY <1>1 DEF Row
<1>3. \A i \in 1..Len(s) : s[i][3] <= n - 1 /\ s[i][3] \in Nat
  BY DEF UpTo, Row
<1>4. \A i \in 1..Len(e) : e[i][3] = n
  OBVIOUS
<1>5. \A i \in 1..Len(t) : t[i][3] = IF i <= Len(s) THEN s[i][3] ELSE e[i - Len(s)][3]
  BY <1>1
<1>6. \A i \in 1..Len(t) : ~(i <= Len(s)) => i - Len(s) \in 1..Len(e)
  BY <1>1
<1> HIDE DEF t
<1>7. UpTo(t, n)
  BY <1>1, <1>3, <1>4, <1>5, <1>6 DEF UpTo
<1>8. ASSUME NEW i \in 1..Len(t), NEW j \in 1..Len(t), i < j PROVE t[i][3] < t[j][3]
  <2>1. CASE j <= Len(s)
    <3>1. i \in 1..Len(s) /\ j \in 1..Len(s)
      BY <1>8, <2>1
    <3> QED BY <1>5, <1>8, <3>1 DEF Ascends
  <2>2. CASE i <= Len(s) /\ ~(j <= Len(s))
    <3>1. t[i][3] = s[i][3] /\ s[i][3] <= n - 1 /\ s[i][3] \in Nat
      BY <1>3, <1>5, <2>2
    <3>2. t[j][3] = n
      BY <1>4, <1>5, <1>6, <2>2
    <3> QED BY <3>1, <3>2
  <2>3. CASE ~(i <= Len(s))
    <3>1. ~(j <= Len(s)) /\ i - Len(s) \in 1..Len(e) /\ j - Len(s) \in 1..Len(e)
          /\ i - Len(s) < j - Len(s)
      BY <1>6, <1>8, <2>3
    <3>2. e[i - Len(s)][3] < e[j - Len(s)][3]
      BY <3>1 DEF Ascends
    <3> QED BY <1>5, <2>3, <3>1, <3>2
  <2> QED BY <2>1, <2>2, <2>3
<1> QED BY <1>1, <1>7, <1>8 DEF t, Ascends

\* What is extracted from a document ascends, and is from its pages.
LEMMA ExtractedInOrder ==
    ASSUME RunnerInv, NEW b \in Bags, NEW chosen \in RowsOf(Shown)
    PROVE  LET e == Extracted(b, chosen) IN
           /\ e \in Seq(Seen) /\ Ascends(e)
           /\ \A i \in DOMAIN e : e[i][3] \in doc.first..doc.last
<1>1. chosen \in Seq(Nat) /\ \A i, j \in DOMAIN chosen : i < j => chosen[i] < chosen[j]
  BY ChosenAre
<1>2. \A i \in DOMAIN chosen : chosen[i] \in doc.first..doc.last
  <2>1. PICK n \in 0..Cardinality(Shown) : chosen \in [1..n -> Shown]
    BY DEF RowsOf
  <2> QED BY <2>1 DEF Shown
<1> DEFINE e == Extracted(b, chosen)
<1>3. /\ e \in Seq(Seen) /\ Len(e) = Len(chosen)
      /\ \A i \in 1..Len(chosen) : e[i] = <<level, b, chosen[i]>>
  BY <1>1, ExtractedAre
<1> HIDE DEF e
<1>4. DOMAIN e = 1..Len(e) /\ DOMAIN chosen = 1..Len(e)
  BY <1>1, <1>3
<1>5. \A i \in DOMAIN e : e[i][3] = chosen[i]
  BY <1>3, <1>4
<1> QED BY <1>1, <1>2, <1>3, <1>4, <1>5 DEF Ascends, e

-----------------------------------------------------------------------------
(***************************************************************************)
(* Where a step of the walk is.                                            *)
(***************************************************************************)
\* A block after its step.
LEMMA OnwardIs ==
    ASSUME NEW R, NEW st, StackFits(st, R), st[Len(st)].kind = "block"
    PROVE  /\ Len(Onward(st)) = Len(st)
           /\ \A i \in 1..(Len(st) - 1) : Onward(st)[i] = st[i]
           /\ LET f == st[Len(st)]
                  g == Onward(st)[Len(st)]
              IN  /\ g.kind = "block" /\ g.steps = f.steps /\ g.at = f.at + 1
                  /\ g.from = IF f.steps[f.at].op = "paginate" THEN f.at + 1 ELSE f.from
<1> DEFINE f == st[Len(st)]
           at == f.at + 1
           from == IF f.steps[f.at].op = "paginate" THEN f.at + 1 ELSE f.from
           on == [f EXCEPT !.at = at, !.from = from]
<1>1. f \in BlockFrame /\ Len(st) \in Nat \ {0} /\ st \in Seq(Frame(R))
  BY TopIsFrame, KindOfFrame DEF StackFits
<1>2. on.kind = "block" /\ on.steps = f.steps /\ on.at = at /\ on.from = from
  <2> HIDE DEF f, at, from
  <2> QED BY <1>1 DEF BlockFrame
<1>3. Onward(st) = [st EXCEPT ![Len(st)] = on]
  BY DEF Onward
<1> HIDE DEF on
<1>4. /\ Len(Onward(st)) = Len(st)
      /\ \A i \in 1..(Len(st) - 1) : Onward(st)[i] = st[i]
      /\ Onward(st)[Len(st)] = on
  BY <1>1, <1>3
<1>5. on.kind = "block" /\ on.steps = f.steps /\ on.at = f.at + 1
      /\ on.from = IF f.steps[f.at].op = "paginate" THEN f.at + 1 ELSE f.from
  BY <1>2
<1> HIDE DEF f
<1> QED BY <1>4, <1>5 DEF f

LEMMA WhereIs ==
    ASSUME RunnerInv, IsListing, Shape, Executing
    PROVE  \/ Len(stack) = 1 /\ Top = Main /\ Main.at \in 1..4 /\ Step = script.steps[Main.at]
           \/ /\ Len(stack) = 3 /\ Top = Body /\ Body.at \in 1..Len(Again) /\ Step = Again[Body.at]
              /\ Main.at = 3
<1>1. Top.kind = "block" /\ Top.at \in 1..Len(Top.steps) /\ StackFits(stack, Seen)
  BY StepIs
<1>2. CASE Len(stack) = 1
  BY <1>1, <1>2, ListingSteps DEF Shape, Top, Main, Step
<1>3. CASE Len(stack) = 2
  BY <1>1, <1>3 DEF Shape, Top, Paging
<1>4. CASE Len(stack) = 3
  BY <1>1, <1>4 DEF Shape, Top, Body, Main, Step
<1> QED BY <1>2, <1>3, <1>4 DEF Shape

LEMMA StepOfListing ==
    ASSUME RunnerInv, IsListing, Shape, Executing
    PROVE  \/ Step.op = "goto" /\ Len(stack) = 1 /\ Main.at = 1 /\ Step = script.steps[1]
           \/ /\ Step.op = "goto" /\ Len(stack) = 3 /\ Body.at = 1 /\ Step = script.steps[1]
              /\ Driven /\ Len(Again) = 2 /\ Main.at = 3
           \/ Step.op = "extract_list" /\ Len(stack) = 1 /\ Main.at = 2 /\ Step = script.steps[2]
           \/ /\ Step.op = "extract_list" /\ Len(stack) = 3 /\ Body.at = Len(Again)
              /\ Step = script.steps[2] /\ Main.at = 3
           \/ Step.op = "paginate" /\ Len(stack) = 1 /\ Main.at = 3 /\ Step = script.steps[3] /\ Top = Main
           \/ Step.op = "emit" /\ Len(stack) = 1 /\ Main.at = 4 /\ Step = script.steps[4]
<1>1. CASE Len(stack) = 1 /\ Top = Main /\ Main.at \in 1..4 /\ Step = script.steps[Main.at]
  <2>1. Main.at = 1 \/ Main.at = 2 \/ Main.at = 3 \/ Main.at = 4
    BY <1>1
  <2> QED BY <1>1, <2>1, ListingSteps
<1>2. CASE /\ Len(stack) = 3 /\ Top = Body /\ Body.at \in 1..Len(Again) /\ Step = Again[Body.at]
           /\ Main.at = 3
  <2>1. CASE Driven
    <3>1. Len(Again) = 2 /\ (Body.at = 1 \/ Body.at = 2)
      <4>1. Len(Again) = 2 /\ Body.at \in 1..Len(Again)
        BY <1>2, <2>1, AgainIs
      <4>2. Body.at \in 1..2
        BY <4>1, Zenon
      <4> QED BY <4>1, <4>2
    <3> QED BY <1>2, <2>1, <3>1, AgainIs, ListingSteps
  <2>2. CASE ~Driven
    <3>1. Len(Again) = 1 /\ Body.at = 1
      <4>1. Len(Again) = 1 /\ Body.at \in 1..Len(Again)
        BY <1>2, <2>2, AgainIs
      <4>2. Body.at \in 1..1
        BY <4>1, Zenon
      <4> QED BY <4>1, <4>2
    <3> QED BY <1>2, <2>2, <3>1, AgainIs, ListingSteps
  <2> QED BY <2>1, <2>2
<1> QED BY <1>1, <1>2, WhereIs

LEMMA PagingIs ==
    ASSUME RunnerInv, IsListing, Shape, pc = "steps", Len(stack) > 1
    PROVE  Paging \in PagesFrame /\ Paging.no \in Nat /\ Paging.turns \in Nat
<1>1. StackFits(stack, Seen) /\ 2 \in 1..Len(stack)
  BY DEF RunnerInv, ContextTypes, Shape
<1>2. Paging \in Frame(Seen) /\ Paging.kind = "pages"
  BY <1>1, TopIsFrame DEF Paging, Shape
<1>3. Paging \in PagesFrame
  BY <1>2, KindOfFrame
<1> QED BY <1>3 DEF PagesFrame

\* The frame of the pagination at the top of the stack is the second one.
LEMMA PagesOnTop ==
    ASSUME RunnerInv, Shape, InPages
    PROVE  Len(stack) = 2 /\ Top = Paging /\ Main.at = 3
<1>1. StackFits(stack, Seen) /\ Top.kind = "pages" /\ Top = stack[Len(stack)] /\ Len(stack) \in 1..3
  BY PagesIs DEF Shape
<1>2. /\ stack[1].kind = "block"
      /\ \A i \in 2..Len(stack) : (stack[i].kind = "block") # (stack[i - 1].kind = "block")
  BY <1>1 DEF StackFits
<1>3. Len(stack) > 1 => stack[2].kind = "pages" /\ Main.at = 3
  BY DEF Shape, Paging
<1>4. Len(stack) # 1
  BY <1>1, <1>2
<1>5. Len(stack) # 3
  <2> SUFFICES ASSUME Len(stack) = 3 PROVE FALSE
    OBVIOUS
  <2>1. 3 \in 2..Len(stack) /\ 3 - 1 = 2 /\ Len(stack) > 1
    OBVIOUS
  <2>2. (stack[3].kind = "block") # (stack[2].kind = "block")
    BY <1>2, <2>1
  <2> QED BY <1>1, <1>3, <2>1, <2>2
<1>6. Len(stack) = 2
  BY <1>1, <1>4, <1>5
<1> QED BY <1>1, <1>3, <1>6 DEF Paging

LEMMA MainMoves ==
    ASSUME RunnerInv, IsListing, Shape, Executing, Len(stack) = 1, Main.at # 3, Advance,
           UNCHANGED script
    PROVE  /\ Shape' /\ Len(stack') = 1 /\ Main'.at = Main.at + 1
<1>1. StackFits(stack, Seen) /\ Top = Main /\ Top.kind = "block" /\ Main.at \in 1..4
      /\ Step = script.steps[Main.at]
  BY StepIs, WhereIs
<1>2. Step.op # "paginate"
  BY <1>1, ListingSteps
<1>3. /\ Len(stack') = 1 /\ Main'.steps = Main.steps /\ Main'.at = Main.at + 1 /\ Main'.from = Main.from
  <2>1. stack' = Onward(stack) /\ Main = stack[Len(stack)] /\ Main' = stack'[1]
        /\ Main.steps[Main.at].op # "paginate" /\ Len(stack) = 1
    BY <1>1, <1>2 DEF Advance, Main, Top, Step
  <2>2. Main.kind = "block"
    BY <1>1
  <2>3. /\ Len(Onward(stack)) = Len(stack)
        /\ LET f == stack[Len(stack)]
               g == Onward(stack)[Len(stack)]
           IN  /\ g.steps = f.steps /\ g.at = f.at + 1
               /\ g.from = IF f.steps[f.at].op = "paginate" THEN f.at + 1 ELSE f.from
    BY <1>1, <2>1, <2>2, OnwardIs
  <2> QED BY <2>1, <2>3
<1> QED BY <1>1, <1>3 DEF Shape

LEMMA BodyMoves ==
    ASSUME RunnerInv, IsListing, Shape, Executing, Len(stack) = 3, Advance, UNCHANGED script
    PROVE  /\ Shape' /\ Len(stack') = 3 /\ Body'.at = Body.at + 1
           /\ Main' = Main /\ Paging' = Paging /\ Again' = Again
<1>1. StackFits(stack, Seen) /\ Top = Body /\ Top.kind = "block" /\ Body.at \in 1..Len(Again)
  BY StepIs, WhereIs
<1>2. /\ Len(stack') = 3 /\ Body'.steps = Body.steps /\ Body'.at = Body.at + 1
      /\ Main' = Main /\ Paging' = Paging
  <2>1. stack' = Onward(stack) /\ Body = stack[Len(stack)] /\ Body' = stack'[3]
        /\ Body.kind = "block" /\ Len(stack) = 3
    BY <1>1 DEF Advance, Body
  <2>2. /\ Len(Onward(stack)) = 3 /\ \A i \in 1..2 : Onward(stack)[i] = stack[i]
        /\ Onward(stack)[3].steps = Body.steps /\ Onward(stack)[3].at = Body.at + 1
    <3>1. 3 - 1 = 2
      OBVIOUS
    <3>2. StackFits(stack, Seen) /\ stack[Len(stack)].kind = "block" /\ Len(stack) = 3
          /\ stack[3] = Body
      BY <1>1, <2>1
    <3>3. /\ Len(Onward(stack)) = Len(stack)
          /\ \A i \in 1..(Len(stack) - 1) : Onward(stack)[i] = stack[i]
          /\ Onward(stack)[Len(stack)].steps = stack[Len(stack)].steps
          /\ Onward(stack)[Len(stack)].at = stack[Len(stack)].at + 1
      BY <3>2, OnwardIs
    <3> QED BY <3>1, <3>2, <3>3
  <2> QED BY <2>1, <2>2 DEF Main, Paging
<1>3. Again' = Again /\ Driven' = Driven
  BY DEF Again, Driven
<1>4. Len(Again) \in {1, 2}
  BY AgainIs
<1> QED BY <1>1, <1>2, <1>3, <1>4 DEF Shape

-----------------------------------------------------------------------------
(***************************************************************************)
(* The steps of the walk.                                                  *)
(***************************************************************************)
Remains == UNCHANGED <<script, level>>

LEMMA RemainsSame ==
    ASSUME Remains
    PROVE  /\ Driven' = Driven /\ Again' = Again /\ Limit' = Limit
           /\ TakesOnce' = TakesOnce /\ IsListing' = IsListing
           /\ Bag' = bags'[script.steps[2].as]
BY DEF Remains, Driven, Again, Limit, TakesOnce, http, rung, rungs, IsListing, Bag

LEMMA BagIs ==
    ASSUME RunnerInv, IsListing
    PROVE  Bag \in Seq(Seen) /\ Seen \subseteq Row
BY ListingSteps, ContextIs, RungIs, SeenAreRows DEF Bag

LEMMA EmptyIsInOrder ==
    ASSUME NEW n
    PROVE  Ascends(<<>>) /\ UpTo(<<>>, n)
BY DEF Ascends, UpTo

LEMMA FailsFresh ==
    ASSUME NEW failure, Fails(failure)
    PROVE  ListingInv'
BY DEF Fails, NewContext, BagsOfNext, Fresh, ListingInv

LEMMA OpenWalks ==
    ASSUME RunnerInv, Fresh, IsListing, Open
    PROVE  Walk'
<1>1. /\ stack' = <<Block(script.steps)>> /\ Remains
      /\ UNCHANGED <<page, scope, bags, rows, visited>>
  BY DEF Open, Remains
<1>2. Len(stack') = 1 /\ Main' = Block(script.steps) /\ Main'.at = 1 /\ Main'.from = 1
      /\ Main'.steps = script.steps /\ script' = script
  BY <1>1 DEF Main, Block, Remains
<1>3. Bag' = <<>> /\ rows' = <<>> /\ page' = 1 /\ scope' = NoItems /\ visited' = 0
  BY <1>1, RemainsSame, ListingSteps DEF Fresh, NoBags
<1>4. Shape'
  BY <1>2 DEF Shape
<1>5. Numbers'
  <2>1. /\ ~(Len(stack') > 1) /\ Len(stack') # 3 /\ Main'.at # 2 /\ Main'.at # 3
    BY <1>2
  <2> QED BY <1>3, <2>1 DEF Numbers, At, InPage
<1>6. Order'
  BY <1>2, <1>3, EmptyIsInOrder DEF Order, At
<1>7. Capped'
  BY <1>2, <1>3 DEF Capped, At, InPage
<1> QED BY <1>4, <1>5, <1>6, <1>7 DEF Walk

\* _goto: to the listing, or to its page.
LEMMA GotoWalks ==
    ASSUME RunnerInv, IsListing, Walk, Executing, Step.op = "goto", Remains, Advance,
           ~(Step.url \in Items /\ scope[Step.url] = NoRow),
           visited' = visited + 1, doc' = Fetched(Step.url),
           UNCHANGED <<page, scope, bags, rows>>
    PROVE  Walk'
<1>1. Step \in Steps /\ Shape /\ Numbers /\ Order /\ Capped /\ visited \in Nat
  BY StepIs, ContextIs DEF Walk
<1>2. Step.url \in {"fixed", "page"}
  BY <1>1, ScriptsAssumption DEF Numbers, NoItems
<1>3. Bag' = Bag
  BY RemainsSame DEF Bag
<1>4. CASE Len(stack) = 1
  <2>1. Main.at = 1 /\ Step = script.steps[1]
    BY <1>1, <1>4, StepOfListing
  <2>2. Shape' /\ Len(stack') = 1 /\ Main'.at = 2
    BY <1>1, <1>4, <2>1, MainMoves DEF Remains
  <2>3. page = 1 /\ visited = 0 /\ Bag = <<>> /\ rows = <<>> /\ scope = NoItems
    BY <1>1, <1>4, <2>1 DEF Numbers, Order, Capped, At
  <2>4. doc' = Doc(TRUE, 1, 1)
    BY <1>2, <2>3, FetchedIs
  <2>5. Numbers'
    BY <2>2, <2>3, <2>4 DEF Numbers, At, InPage, Doc
  <2>6. Order'
    BY <1>3, <2>2, <2>3, EmptyIsInOrder DEF Order, At
  <2>7. Capped'
    BY <2>2, <2>3 DEF Capped, At, InPage
  <2> QED BY <2>2, <2>5, <2>6, <2>7 DEF Walk
<1>5. CASE Len(stack) = 3
  <2>1. Driven /\ Body.at = 1 /\ Step = script.steps[1] /\ Main.at = 3
    BY <1>1, <1>5, StepOfListing
  <2>2. /\ Shape' /\ Len(stack') = 3 /\ Body'.at = 2
        /\ Main' = Main /\ Paging' = Paging /\ Len(Again) = 2
    BY <1>1, <1>5, <2>1, BodyMoves, AgainIs DEF Remains
  <2>3. /\ page = Paging.no /\ scope = NoItems /\ rows = <<>>
        /\ visited <= Paging.turns /\ (Paging.turns > 0 => Paging.turns < Limit)
        /\ TakesOnce => Ascends(Bag) /\ UpTo(Bag, Paging.no - 1)
    BY <1>1, <1>5, <2>1, <2>2 DEF Numbers, Order, Capped, InPage
  <2>4. doc' = Doc(TRUE, page, page)
    BY <2>1, FetchedIs DEF Driven
  <2>5. Numbers'
    BY <2>1, <2>2, <2>3, <2>4, RemainsSame DEF Numbers, At, InPage, Doc
  <2>6. Order'
    <3>1. TakesOnce' => Ascends(rows') /\ Ascends(Bag') /\ UpTo(Bag', Paging'.no - 1)
      BY <1>3, <2>2, <2>3, RemainsSame, EmptyIsInOrder
    <3>2. Len(stack') = 3 /\ rows' = <<>> /\ Body'.at = 2 /\ Len(Again') = 2
      BY <2>2, <2>3, RemainsSame
    <3> QED BY <3>1, <3>2 DEF Order, At
  <2>7. Capped'
    <3>1. Paging.turns \in Nat
      BY <1>1, <1>5, StepIs, PagingIs
    <3> QED BY <1>1, <2>1, <2>2, <2>3, <3>1, RemainsSame DEF Capped, At, InPage
  <2> QED BY <2>2, <2>5, <2>6, <2>7 DEF Walk
<1> QED BY <1>1, <1>4, <1>5, StepOfListing

\* _extract_list: the rows of the page the walk is at.
LEMMA ExtractListWalks ==
    ASSUME RunnerInv, IsListing, Walk, Executing, Step.op = "extract_list", Remains, Advance,
           NEW chosen \in RowsOf(Shown), PutInto(Step.as, Extracted(Step.as, chosen)),
           UNCHANGED <<doc, page, scope, rows, visited>>
    PROVE  Walk'
<1>1. Step \in Steps /\ Shape /\ Numbers /\ Order /\ Capped /\ pc = "steps"
  BY StepIs DEF Walk
<1>2. \/ Len(stack) = 1 /\ Main.at = 2 /\ Step = script.steps[2]
      \/ Len(stack) = 3 /\ Body.at = Len(Again) /\ Step = script.steps[2] /\ Main.at = 3
  BY <1>1, StepOfListing
<1> DEFINE b == script.steps[2].as
           e == Extracted(b, chosen)
<1>3. /\ e \in Seq(Seen) /\ Ascends(e) /\ \A i \in DOMAIN e : e[i][3] \in doc.first..doc.last
      /\ b \in Bags
  BY ListingSteps, ExtractedInOrder
<1>4. Bag' = Bag \o e
  <2>1. bags' = [bags EXCEPT ![b] = bags[b] \o e]
    BY <1>2 DEF PutInto
  <2>2. bags'[b] = bags[b] \o e
    BY <1>3, <2>1, ContextIs
  <2> QED BY <2>2, RemainsSame DEF Bag
<1> HIDE DEF e, b
<1>5. Bag \in Seq(Seen) /\ Seen \subseteq Row
  BY BagIs
<1>6. ASSUME NEW n \in Nat, doc.first = n, doc.last = n, Ascends(Bag), UpTo(Bag, n - 1)
      PROVE  Ascends(Bag') /\ UpTo(Bag', n)
  <2>1. \A i \in DOMAIN e : e[i][3] = n
    BY <1>3, <1>6
  <2> QED BY <1>3, <1>4, <1>5, <1>6, <2>1, AscendsOn
<1>7. CASE Len(stack) = 1
  <2>1. Shape' /\ Len(stack') = 1 /\ Main'.at = 3
    BY <1>1, <1>2, <1>7, MainMoves DEF Remains
  <2>2. /\ page = 1 /\ doc.first = 1 /\ doc.last = 1 /\ visited = 1 /\ Bag = <<>> /\ rows = <<>>
        /\ scope = NoItems
    BY <1>1, <1>2, <1>7 DEF Numbers, Order, Capped, At
  <2>3. Numbers'
    BY <2>1, <2>2 DEF Numbers, At, InPage
  <2>4. Order'
    <3>1. Ascends(Bag') /\ UpTo(Bag', 1) /\ Ascends(rows')
      BY <1>6, <2>2, EmptyIsInOrder
    <3> QED BY <2>1, <2>2, <3>1 DEF Order, At
  <2>5. Capped'
    BY <2>1, <2>2 DEF Capped, At, InPage
  <2> QED BY <2>1, <2>3, <2>4, <2>5 DEF Walk
<1>8. CASE Len(stack) = 3
  <2>1. /\ Shape' /\ Len(stack') = 3 /\ Body'.at = Len(Again) + 1 /\ Again' = Again
        /\ Main' = Main /\ Paging' = Paging /\ Main.at = 3 /\ Len(Again) \in {1, 2}
        /\ Body.at = Len(Again)
    BY <1>1, <1>2, <1>8, BodyMoves, AgainIs DEF Remains
  <2>2. Paging.no \in Nat /\ Paging.turns \in Nat
    BY <1>1, <1>8, PagingIs
  <2>3. /\ (Driven => page = Paging.no) /\ scope = NoItems /\ rows = <<>>
        /\ doc.last = Paging.no /\ (TakesOnce => doc.first = Paging.no)
        /\ TakesOnce => Ascends(Bag) /\ UpTo(Bag, Paging.no - 1)
        /\ visited <= Paging.turns + 1 /\ (Paging.turns > 0 => Paging.turns < Limit)
    BY <1>1, <1>2, <1>8, <2>1 DEF Numbers, Order, Capped, InPage
  <2>4. Numbers'
    BY <2>1, <2>3, RemainsSame DEF Numbers, At, InPage
  <2>5. Order'
    <3>1. TakesOnce => Ascends(Bag') /\ UpTo(Bag', Paging.no)
      BY <1>6, <2>2, <2>3
    <3>2. TakesOnce' => Ascends(rows') /\ Ascends(Bag') /\ UpTo(Bag', Paging'.no)
      BY <2>1, <2>3, <3>1, RemainsSame, EmptyIsInOrder
    <3>3. Len(stack') = 3 /\ rows' = <<>> /\ Body'.at > Len(Again')
      BY <2>1, <2>3
    <3> QED BY <3>2, <3>3 DEF Order, At
  <2>6. Capped'
    <3>1. Body'.at # 1
      <4> DEFINE n == Len(Again)
      <4>1. n \in {1, 2} /\ Body'.at = n + 1
        BY <2>1
      <4> HIDE DEF n
      <4> QED BY <4>1
    <3>2. Len(stack') = 3 /\ Limit' = Limit /\ visited' = visited
      BY <2>1, RemainsSame
    <3> QED BY <2>1, <2>3, <3>1, <3>2 DEF Capped, At, InPage
  <2> QED BY <2>1, <2>4, <2>5, <2>6 DEF Walk
<1> QED BY <1>2, <1>7, <1>8

\* _emit: the whole bag, once.
LEMMA EmitWalks ==
    ASSUME RunnerInv, IsListing, Walk, Executing, Step.op = "emit", Remains, Advance,
           Step.source \in named \/ (Step.source \in Items /\ scope[Step.source] # NoRow),
           rows' = rows \o (IF Step.source \in named THEN bags[Step.source]
                            ELSE <<scope[Step.source]>>),
           UNCHANGED <<doc, page, scope, bags, visited>>
    PROVE  Walk'
<1>1. Step \in Steps /\ Shape /\ Numbers /\ Order /\ Capped /\ pc = "steps" /\ Bag \in Seq(Seen)
  BY StepIs, BagIs DEF Walk
<1>2. Len(stack) = 1 /\ Main.at = 4 /\ Step = script.steps[4]
  BY <1>1, StepOfListing
<1>3. rows' = Bag
  <2>1. Step.source \in named /\ Step.source = script.steps[2].as
    BY <1>1, <1>2, ListingSteps DEF Numbers, NoItems
  <2>2. rows = <<>>
    BY <1>1, <1>2 DEF Order
  <2> QED BY <1>1, <2>1, <2>2, ConcatEmptySeq DEF Bag
<1>4. Shape' /\ Len(stack') = 1 /\ Main'.at = 5
  <2>1. Main.at # 3 /\ Main.at + 1 = 5 /\ Len(stack) = 1 /\ UNCHANGED script
    BY <1>2 DEF Remains
  <2>2. Shape' /\ Len(stack') = 1 /\ Main'.at = Main.at + 1
    BY <1>1, <2>1, MainMoves
  <2> QED BY <2>1, <2>2
<1>5. Numbers'
  BY <1>1, <1>4 DEF Numbers, At, InPage
<1>6. Order'
  <2>1. TakesOnce' => Ascends(rows') /\ Ascends(Bag')
    BY <1>1, <1>3, RemainsSame DEF Order, Bag
  <2> QED BY <1>4, <2>1 DEF Order, At
<1>7. Capped'
  <2>1. visited' <= 1 \/ visited' <= Limit'
    BY <1>1, <1>2, RemainsSame DEF Capped, At
  <2> QED BY <1>4, <2>1 DEF Capped, At, InPage
<1> QED BY <1>4, <1>5, <1>6, <1>7 DEF Walk

\* _paginate begins: the block it repeats is what is before it.
LEMMA PaginateStartWalks ==
    ASSUME RunnerInv, IsListing, Walk, PaginateStart
    PROVE  Walk'
<1>1. /\ Executing /\ Step.op = "paginate" /\ Remains
      /\ UNCHANGED <<doc, page, scope, bags, rows, visited>>
  BY DEF PaginateStart, Remains
<1>2. Shape /\ Numbers /\ Order /\ Capped /\ pc = "steps" /\ StackFits(stack, Seen)
  BY <1>1, StepIs DEF Walk
<1>3. Len(stack) = 1 /\ Main.at = 3 /\ Step = script.steps[3] /\ Top = Main
  BY <1>1, <1>2, StepOfListing
<1>4. Top.steps = script.steps /\ Top.from = 1 /\ Top.at = 3
  BY <1>2, <1>3 DEF Shape
<1> DEFINE block == SubSeq(Top.steps, Top.from, Top.at - 1)
           again == Replay(block)
           driven == Drives(block)
           counts == RowsInBags
           f == [kind |-> "pages", step |-> Step, block |-> again, url |-> driven,
                 turns |-> 0, no |-> page, before |-> counts]
<1>5. block = SubSeq(script.steps, 1, 2)
  BY <1>4
<1>6. stack' = Append(stack, f)
  BY DEF PaginateStart
<1> HIDE DEF block
<1>7. again = Again /\ driven = Driven
  BY <1>5, ReplayIs
<1> HIDE DEF again, driven, counts
<1>8. /\ f.kind = "pages" /\ f.step = script.steps[3] /\ f.block = Again /\ f.url = Driven
      /\ f.turns = 0 /\ f.no = page
  BY <1>3, <1>7
<1> HIDE DEF f
<1>9. Len(stack') = 2 /\ Main' = Main /\ Paging' = f
  <2> DEFINE S == Frame(Seen) \cup {f}
  <2>1. stack \in Seq(S) /\ f \in S
    BY <1>2, SeqOfLess DEF StackFits
  <2> HIDE DEF S
  <2>2. /\ Len(Append(stack, f)) = Len(stack) + 1
        /\ \A i \in 1..Len(stack) : Append(stack, f)[i] = stack[i]
        /\ Append(stack, f)[Len(stack) + 1] = f
    BY <2>1, AppendProperties
  <2>3. Len(stack) + 1 = 2 /\ 1 \in 1..Len(stack)
    BY <1>3
  <2> QED BY <1>6, <2>2, <2>3 DEF Main, Paging
<1>10. Shape'
  BY <1>1, <1>2, <1>3, <1>8, <1>9, RemainsSame DEF Shape, Remains
<1>11. page = 1 /\ doc.last = 1 /\ visited = 1 /\ rows = <<>> /\ (TakesOnce => Ascends(Bag) /\ UpTo(Bag, 1))
  BY <1>2, <1>3 DEF Numbers, Order, Capped, At
<1>12. Numbers'
  BY <1>1, <1>2, <1>8, <1>9, <1>11 DEF Numbers, At, InPage
<1>13. Order'
  <2>1. Bag' = Bag
    BY <1>1, RemainsSame DEF Bag
  <2>2. TakesOnce' => Ascends(rows') /\ Ascends(Bag') /\ UpTo(Bag', Paging'.no)
    BY <1>1, <1>8, <1>9, <1>11, <2>1, RemainsSame, EmptyIsInOrder
  <2>3. Len(stack') = 2 /\ rows' = <<>>
    BY <1>1, <1>9, <1>11
  <2> QED BY <2>2, <2>3 DEF Order, At
<1>14. Capped'
  BY <1>1, <1>8, <1>9, <1>11 DEF Capped, At, InPage
<1> QED BY <1>10, <1>12, <1>13, <1>14 DEF Walk

\* The next page of _paginate.
LEMMA TurnWalks ==
    ASSUME RunnerInv, IsListing, Walk, Turn
    PROVE  Walk'
<1>1. /\ Shape /\ Numbers /\ Order /\ Capped /\ pc = "steps" /\ Top.kind = "pages" /\ Top = stack[Len(stack)]
      /\ Remains /\ StackFits(stack, Seen)
  BY PagesIs DEF Walk, Turn, Remains
<1>2. Len(stack) = 2 /\ Top = Paging /\ Main.at = 3
  BY <1>1, PagesOnTop DEF Turn
<1>3. Paging \in PagesFrame /\ Paging.no \in Nat /\ Paging.turns \in Nat
  BY <1>1, <1>2, PagingIs
<1> DEFINE f == Turned(Paging)
           st == [stack EXCEPT ![2] = f]
           g == Block(Again)
<1>4. /\ f.kind = "pages" /\ f.step = Paging.step /\ f.block = Paging.block /\ f.url = Paging.url
      /\ f.turns = Paging.turns + 1 /\ f.no = Paging.no + 1
  <2> DEFINE turns == Paging.turns + 1
             no == Paging.no + 1
             counts == RowsInBags
  <2>1. f = [Paging EXCEPT !.turns = turns, !.no = no, !.before = counts]
    BY DEF Turned
  <2> HIDE DEF turns, no, counts, f
  <2>2. /\ f.kind = "pages" /\ f.step = Paging.step /\ f.block = Paging.block /\ f.url = Paging.url
        /\ f.turns = turns /\ f.no = no
    BY <1>3, <2>1 DEF PagesFrame
  <2> QED BY <2>2 DEF turns, no
<1>5. g.steps = Again /\ g.at = 1
  BY DEF Block
<1>6. /\ stack' = Append(st, g) /\ page' = Paging.no + 1
      /\ IF Driven THEN UNCHANGED <<doc, visited>>
         ELSE /\ visited' = visited + 1
              /\ doc' = Doc(TRUE, IF Paging.step.more /\ ~http THEN doc.first ELSE doc.last + 1,
                            doc.last + 1)
      /\ UNCHANGED <<scope, bags, rows>>
  <2>1. /\ Paging.url = Driven /\ Paging.block = Again /\ stack[2] = Paging
    BY <1>1, <1>2 DEF Shape, Paging
  <2>2. /\ stack' = Append([stack EXCEPT ![Len(stack)] = Turned(stack[Len(stack)])], Block(Top.block))
        /\ page' = Top.no + 1
        /\ IF Top.url THEN UNCHANGED <<doc, visited>>
           ELSE /\ visited' = visited + 1
                /\ doc' = Doc(TRUE, IF Top.step.more /\ ~http THEN doc.first ELSE doc.last + 1,
                              doc.last + 1)
        /\ UNCHANGED <<scope, bags, rows>>
    BY DEF Turn
  <2>3. Append([stack EXCEPT ![Len(stack)] = Turned(stack[Len(stack)])], Block(Top.block)) = Append(st, g)
    BY <1>2, <2>1, Zenon
  <2> HIDE DEF st, g
  <2> QED BY <1>2, <2>1, <2>2, <2>3
<1>7. MayTurn(Paging) /\ Paging.step = script.steps[3] /\ Paging.url = Driven /\ Paging.block = Again
  BY <1>1, <1>2 DEF Turn, Shape
<1> HIDE DEF f, g
<1>8. Len(stack') = 3 /\ Main' = Main /\ Paging' = f /\ Body' = g
  <2> DEFINE S == Frame(Seen) \cup {f, g}
  <2>1. stack \in Seq(S) /\ f \in S /\ g \in S
    BY <1>1, SeqOfLess DEF StackFits
  <2> HIDE DEF S
  <2>2. st \in Seq(S) /\ Len(st) = 2 /\ st[1] = stack[1] /\ st[2] = f
    <3>1. 2 \in 1..Len(stack) /\ 1 \in 1..Len(stack)
      BY <1>2
    <3>2. /\ st \in Seq(S) /\ Len(st) = Len(stack)
          /\ \A j \in 1..Len(stack) : st[j] = IF j = 2 THEN f ELSE stack[j]
      BY <2>1, <3>1, ExceptSeq
    <3> HIDE DEF st
    <3> QED BY <1>2, <3>1, <3>2
  <2> HIDE DEF st
  <2>3. /\ Len(Append(st, g)) = Len(st) + 1
        /\ \A i \in 1..Len(st) : Append(st, g)[i] = st[i]
        /\ Append(st, g)[Len(st) + 1] = g
    <3>1. st \in Seq(S) /\ g \in S
      BY <2>1, <2>2
    <3> QED BY <3>1, AppendProperties
  <2>4. Len(st) + 1 = 3 /\ 1 \in 1..Len(st) /\ 2 \in 1..Len(st)
    BY <2>2
  <2> QED BY <1>6, <2>2, <2>3, <2>4 DEF Main, Paging, Body
<1> DEFINE last == Len(Again)
<1>9. last \in {1, 2} /\ (Driven => last = 2) /\ 1 \in 1..(last + 1)
  BY AgainIs
<1>10. Shape'
  BY <1>1, <1>2, <1>4, <1>5, <1>7, <1>8, <1>9, RemainsSame DEF Shape, Remains
<1>11. Limit \in Int /\ Paging.turns < Limit - 1
  BY <1>7, ListingSteps DEF MayTurn, Limit
<1>12. /\ rows = <<>> /\ scope = NoItems /\ (~Driven => doc.last = Paging.no)
       /\ visited <= Paging.turns + 1 /\ (TakesOnce => Ascends(Bag) /\ UpTo(Bag, Paging.no))
  BY <1>1, <1>2 DEF Numbers, Order, Capped
<1>13. Numbers'
  <2>1. ASSUME ~Driven
        PROVE  doc'.last = Paging.no + 1 /\ (TakesOnce => doc'.first = Paging.no + 1)
    BY <1>6, <1>7, <1>12, <2>1 DEF TakesOnce, Doc
  <2>2. /\ Len(stack') = 3 /\ Body'.at = 1 /\ Paging'.no = Paging.no + 1 /\ scope' = NoItems
        /\ page' = Paging.no + 1
    BY <1>4, <1>5, <1>6, <1>8, <1>12
  <2>3. Driven => Len(Again') # 1
    BY <1>9, RemainsSame, <1>1
  <2>4. Driven' = Driven /\ TakesOnce' = TakesOnce
    BY <1>1, RemainsSame
  <2> QED BY <2>1, <2>2, <2>3, <2>4 DEF Numbers, At, InPage
<1>14. Order'
  <2>1. Bag' = Bag
    BY <1>1, <1>6, RemainsSame DEF Bag
  <2>2. (Paging.no + 1) - 1 = Paging.no /\ Paging'.no = Paging.no + 1
    BY <1>3, <1>4, <1>8
  <2>3. TakesOnce' => Ascends(rows') /\ Ascends(Bag') /\ UpTo(Bag', Paging'.no - 1)
    BY <1>1, <1>6, <1>12, <2>1, <2>2, RemainsSame, EmptyIsInOrder
  <2>4. Len(Again') = last
    BY <1>1, RemainsSame
  <2>5. Len(stack') = 3 /\ rows' = <<>> /\ ~(Body'.at > Len(Again'))
    <3> HIDE DEF last
    <3> QED BY <1>5, <1>6, <1>8, <1>9, <1>12, <2>4
  <2> QED BY <2>3, <2>5 DEF Order, At
<1>15. Capped'
  <2>1. visited' <= Paging.turns + 2 /\ (Driven => visited' <= Paging.turns + 1)
    <3>1. (Driven => visited' = visited) /\ (~Driven => visited' = visited + 1)
      BY <1>6
    <3>2. visited \in Nat
      BY ContextIs
    <3> QED BY <1>3, <1>12, <3>1, <3>2
  <2>2. Len(stack') = 3 /\ Paging'.turns = Paging.turns + 1 /\ Limit' = Limit /\ Driven' = Driven
    BY <1>1, <1>4, <1>8, RemainsSame
  <2> QED BY <1>3, <1>11, <2>1, <2>2 DEF Capped, At, InPage
<1> QED BY <1>10, <1>13, <1>14, <1>15 DEF Walk

\* The pagination is over: its frame goes, and the main block goes on behind it.
LEMMA PaginationEnds ==
    ASSUME RunnerInv, IsListing, Walk, pc = "steps", Remains, NEW st, StackFits(st, Seen),
           Len(st) = 1, st[1] = Main, Main.at = 3, stack' = Onward(st), Len(stack) > 1,
           TakesOnce => Ascends(Bag),
           UNCHANGED <<scope, bags, rows, visited>>
    PROVE  Walk'
<1>1. Shape /\ Numbers /\ Order /\ Capped /\ StackFits(stack, Seen)
  BY DEF Walk, RunnerInv, ContextTypes, Shape
<1>2. Main.kind = "block"
  BY DEF StackFits
<1>3. Len(stack') = 1 /\ Main'.steps = Main.steps /\ Main'.at = 4
  <2>1. st[Len(st)] = Main /\ st[Len(st)].kind = "block"
    BY <1>2
  <2>2. /\ Len(Onward(st)) = Len(st) /\ Onward(st)[Len(st)].steps = st[Len(st)].steps
        /\ Onward(st)[Len(st)].at = st[Len(st)].at + 1
    BY <2>1, OnwardIs
  <2>3. Main' = Onward(st)[Len(st)]
    BY DEF Main
  <2> QED BY <2>1, <2>2, <2>3
<1>4. Shape'
  BY <1>1, <1>3 DEF Shape, Remains
<1>5. Numbers'
  BY <1>1, <1>3 DEF Numbers, At, InPage
<1>6. Order'
  <2>1. Bag' = Bag /\ rows' = <<>>
    BY <1>1, RemainsSame DEF Bag, Order
  <2>2. TakesOnce' => Ascends(rows') /\ Ascends(Bag')
    BY <2>1, RemainsSame, EmptyIsInOrder
  <2> QED BY <1>3, <2>1, <2>2 DEF Order, At
<1>7. visited <= 1 \/ visited <= Limit
  <2>1. Paging.turns \in Nat /\ Limit \in Int /\ visited \in Nat
    BY <1>1, PagingIs, ListingSteps, ContextIs
  <2> QED BY <1>1, <2>1 DEF Capped
<1>8. Capped'
  BY <1>3, <1>7, RemainsSame DEF Capped, At, InPage
<1> QED BY <1>4, <1>5, <1>6, <1>8 DEF Walk

LEMMA PagesReturnWalks ==
    ASSUME RunnerInv, IsListing, Walk, InPages, Return, Remains,
           UNCHANGED <<scope, bags, rows, visited>>
    PROVE  Walk'
<1>1. /\ Shape /\ Order /\ pc = "steps" /\ Top.kind = "pages" /\ Top = stack[Len(stack)]
      /\ StackFits(stack, Seen)
  BY PagesIs DEF Walk
<1>2. Len(stack) = 2 /\ Main.at = 3
  BY <1>1, PagesOnTop
<1>3. StackFits(Front(stack), Seen) /\ Len(Front(stack)) = 1 /\ Front(stack)[1] = Main
  <2>1. Len(stack) > 1 /\ Len(stack) - 1 = 1
    BY <1>2
  <2>2. /\ StackFits(Front(stack), Seen) /\ Len(Front(stack)) = Len(stack) - 1
        /\ Front(stack)[Len(stack) - 1] = stack[Len(stack) - 1]
    BY <1>1, <2>1, FrontIs
  <2> QED BY <2>1, <2>2 DEF Main
<1>4. TakesOnce => Ascends(Bag)
  BY <1>1 DEF Order
<1> QED BY <1>1, <1>2, <1>3, <1>4, PaginationEnds DEF Return

\* The end of a page: back to the pagination, or on behind it when there was nothing.
LEMMA BlockEndsWalks ==
    ASSUME RunnerInv, IsListing, Walk, BlockEnds
    PROVE  Walk'
<1>1. /\ Shape /\ Numbers /\ Order /\ Capped /\ pc = "steps" /\ Top.kind = "block" /\ Len(stack) > 1
      /\ Top.at > Len(Top.steps) /\ Remains /\ StackFits(stack, Seen)
      /\ UNCHANGED <<doc, page, scope, bags, rows, visited>>
  BY DEF Walk, BlockEnds, InBlock, Remains, RunnerInv, ContextTypes, Shape
<1>2. Len(stack) = 3 /\ Top = Body /\ Main.at = 3
  BY <1>1 DEF Shape, Top, Paging, Body
<1>3. Paging.no \in Nat /\ Paging.turns \in Nat
  BY <1>1, <1>2, PagingIs
<1>4. /\ rows = <<>> /\ scope = NoItems /\ Body.at > Len(Again)
      /\ TakesOnce => Ascends(Bag) /\ UpTo(Bag, Paging.no)
      /\ visited <= Paging.turns + 1 /\ (Paging.turns > 0 => Paging.turns < Limit)
  BY <1>1, <1>2 DEF Shape, Numbers, Order, Capped
<1>5. CASE stack' = Front(stack)
  <2>1. /\ Front(stack) = SubSeq(stack, 1, 2) /\ Len(Front(stack)) = 2
    <3>1. Len(stack) > 1 /\ Len(stack) - 1 = 2
      BY <1>2
    <3>2. Front(stack) = SubSeq(stack, 1, Len(stack) - 1) /\ Len(Front(stack)) = Len(stack) - 1
      BY <1>1, <3>1, FrontIs
    <3> QED BY <3>1, <3>2
  <2>2. Len(stack') = 2 /\ Main' = Main /\ Paging' = Paging
    <3>1. \A i \in 1..2 : stack[i] \in Frame(Seen)
      <4>1. \A i \in 1..Len(stack) : stack[i] \in Frame(Seen)
        BY <1>1, TopIsFrame
      <4>2. \A i \in 1..2 : i \in 1..Len(stack)
        BY <1>2
      <4> QED BY <4>1, <4>2
    <3>2. SubSeq(stack, 1, 2)[1] = stack[1] /\ SubSeq(stack, 1, 2)[2] = stack[2]
      BY <3>1, SubSeqProperties
    <3> QED BY <1>5, <2>1, <3>2 DEF Main, Paging
  <2>3. Shape'
    BY <1>1, <1>2, <2>2, RemainsSame DEF Shape, Remains
  <2>4. ~Driven => doc.last = Paging.no
    BY <1>1, <1>2 DEF Numbers
  <2>5. Numbers'
    BY <1>1, <1>4, <2>2, <2>4, RemainsSame DEF Numbers, At, InPage
  <2>6. Order'
    <3>1. Bag' = Bag
      BY <1>1, RemainsSame DEF Bag
    <3>2. TakesOnce' => Ascends(rows') /\ Ascends(Bag') /\ UpTo(Bag', Paging'.no)
      BY <1>1, <1>4, <2>2, <3>1, RemainsSame, EmptyIsInOrder
    <3>3. Len(stack') = 2 /\ rows' = <<>>
      BY <1>1, <1>4, <2>2
    <3> QED BY <3>2, <3>3 DEF Order, At
  <2>7. Capped'
    BY <1>1, <1>4, <2>2, RemainsSame DEF Capped, At, InPage
  <2> QED BY <2>3, <2>5, <2>6, <2>7 DEF Walk
<1>6. CASE stack' = Onward(SubSeq(stack, 1, Len(stack) - 2))
  <2> DEFINE st == SubSeq(stack, 1, 1)
  <2>1. stack' = Onward(st)
    BY <1>2, <1>6
  <2>2. StackFits(st, Seen) /\ Len(st) = 1 /\ st[1] = Main
    <3>1. 1 \in 1..Len(stack)
      BY <1>2
    <3>2. StackFits(st, Seen) /\ Len(st) = 1 /\ st[1] = stack[1]
      BY <1>1, <3>1, Lowered
    <3> QED BY <3>2 DEF Main
  <2> HIDE DEF st
  <2> QED BY <1>1, <1>2, <1>4, <2>1, <2>2, PaginationEnds
<1> QED BY <1>5, <1>6 DEF BlockEnds

-----------------------------------------------------------------------------
(***************************************************************************)
(* The steps of the specification.                                         *)
(***************************************************************************)
LEMMA ListingInit == Init => ListingInv
BY DEF Init, ListingInv, Fresh, NoBags

\* The steps a listing does not have.
LEMMA NotOfAListing ==
    ASSUME RunnerInv, IsListing, Walk
    PROVE  ~PlainStep /\ ~Extract /\ ~CustomPython /\ ~LoopStart /\ ~LoopNext
<1>1. Shape
  BY DEF Walk
<1>2. Executing => Step.op \in {"goto", "extract_list", "paginate", "emit"}
  BY <1>1, StepOfListing
<1>3. ~LoopNext
  <2> SUFFICES ASSUME LoopNext PROVE FALSE
    OBVIOUS
  <2>1. /\ Top.kind = "loop" /\ Top = stack[Len(stack)] /\ StackFits(stack, Seen) /\ Len(stack) \in 1..3
    BY <1>1 DEF LoopNext, RunnerInv, ContextTypes, Top, Shape
  <2>2. stack[1].kind = "block" /\ \A i \in 2..Len(stack) : (stack[i].kind = "block") # (stack[i - 1].kind = "block")
    BY <2>1 DEF StackFits
  <2>3. Len(stack) > 1 => stack[2].kind = "pages"
    BY <1>1 DEF Shape, Paging
  <2>4. Len(stack) # 1
    BY <2>1, <2>2
  <2>5. Len(stack) # 2
    BY <2>1, <2>3
  <2>6. Len(stack) # 3
    <3> SUFFICES ASSUME Len(stack) = 3 PROVE FALSE
      OBVIOUS
    <3>1. 3 \in 2..Len(stack) /\ 3 - 1 = 2 /\ Len(stack) > 1
      OBVIOUS
    <3>2. (stack[3].kind = "block") # (stack[2].kind = "block")
      BY <2>2, <3>1
    <3> QED BY <2>1, <2>3, <3>1, <3>2
  <2> QED BY <2>1, <2>4, <2>5, <2>6
<1>4. ~PlainStep
  BY <1>2 DEF PlainStep, Plain
<1>5. ~Extract /\ ~CustomPython /\ ~LoopStart
  BY <1>2 DEF Extract, CustomPython, LoopStart
<1> QED BY <1>3, <1>4, <1>5

LEMMA StepWalks ==
    ASSUME RunnerInv, ListingInv, StepOfScript
    PROVE  ListingInv'
<1>1. pc = "steps"
  BY DEF StepOfScript, PlainStep, Goto, Extract, ExtractList, CustomPython, Emit, LoopStart, LoopNext,
         PaginateStart, PaginateEnd, Turn, TurnFails, BlockEnds, RungPasses, Executing, InBlock, InPages
<1>2. CASE \E failure : Fails(failure)
  BY <1>2, FailsFresh
<1>3. CASE RungPasses
  BY <1>3 DEF RungPasses, NewContext, BagsOfNext, Fresh, ListingInv
<1>4. CASE ~(\E failure : Fails(failure)) /\ ~RungPasses
  <2>1. Remains /\ UNCHANGED pc
    BY <1>4 DEF StepOfScript, PlainStep, Goto, Extract, ExtractList, CustomPython, Emit, LoopStart,
                LoopNext, PaginateStart, PaginateEnd, Turn, TurnFails, BlockEnds, Remains
  <2>2. SUFFICES ASSUME IsListing PROVE Walk'
    BY <1>1, <2>1, RemainsSame DEF ListingInv
  <2>3. Walk
    BY <1>1, <2>2 DEF ListingInv
  <2>4. CASE Goto
    <3>1. /\ Executing /\ Step.op = "goto" /\ Advance
          /\ ~(Step.url \in Items /\ scope[Step.url] = NoRow)
          /\ visited' = visited + 1 /\ doc' = Fetched(Step.url)
          /\ UNCHANGED <<page, scope, bags, rows>>
      BY <1>4, <2>4 DEF Goto
    <3> QED BY <2>1, <2>2, <2>3, <3>1, GotoWalks
  <2>5. CASE ExtractList
    <3>1. PICK chosen \in RowsOf(Shown) : PutInto(Step.as, Extracted(Step.as, chosen))
      BY <1>4, <2>5 DEF ExtractList
    <3>2. /\ Executing /\ Step.op = "extract_list" /\ Advance
          /\ UNCHANGED <<doc, page, scope, rows, visited>>
      BY <1>4, <2>5 DEF ExtractList
    <3> QED BY <2>1, <2>2, <2>3, <3>1, <3>2, ExtractListWalks
  <2>6. CASE Emit
    <3>1. /\ Executing /\ Step.op = "emit" /\ Advance
          /\ Step.source \in named \/ (Step.source \in Items /\ scope[Step.source] # NoRow)
          /\ rows' = rows \o (IF Step.source \in named THEN bags[Step.source]
                              ELSE <<scope[Step.source]>>)
          /\ UNCHANGED <<doc, page, scope, bags, visited>>
      BY <1>4, <2>6 DEF Emit
    <3> QED BY <2>1, <2>2, <2>3, <3>1, EmitWalks
  <2>7. CASE PaginateStart
    BY <2>2, <2>3, <2>7, PaginateStartWalks
  <2>8. CASE Turn
    BY <2>2, <2>3, <2>8, TurnWalks
  <2>9. CASE PaginateEnd \/ TurnFails
    <3>1. InPages /\ Return /\ UNCHANGED <<scope, bags, rows, visited>>
      BY <1>4, <2>9 DEF PaginateEnd, TurnFails
    <3> QED BY <2>1, <2>2, <2>3, <3>1, PagesReturnWalks
  <2>10. CASE BlockEnds
    BY <2>2, <2>3, <2>10, BlockEndsWalks
  <2> QED BY <1>4, <2>2, <2>3, <2>4, <2>5, <2>6, <2>7, <2>8, <2>9, <2>10, NotOfAListing DEF StepOfScript
<1> QED BY <1>2, <1>3, <1>4

LEMMA ListingNext == RunnerInv /\ ListingInv /\ [Next]_vars => ListingInv'
<1> SUFFICES ASSUME RunnerInv, ListingInv, [Next]_vars PROVE ListingInv'
  OBVIOUS
<1>1. CASE StepOfScript
  BY <1>1, StepWalks
<1>2. CASE Open
  <2>1. pc = "open" /\ pc' = "steps" /\ Remains
    BY <1>2 DEF Open, Remains
  <2>2. Fresh
    BY <2>1 DEF ListingInv
  <2>3. IsListing' = IsListing
    BY <2>1, RemainsSame
  <2> QED BY <1>2, <2>1, <2>2, <2>3, OpenWalks DEF ListingInv
<1>3. CASE OpenFails
  BY <1>3, FailsFresh DEF OpenFails
<1>4. CASE Timeout \/ CustomPythonExits \/ Killed
  <2>1. pc' # "steps" /\ NewContext
    BY <1>4 DEF Timeout, CustomPythonExits, Killed
  <2> QED BY <2>1 DEF NewContext, BagsOfNext, Fresh, ListingInv
<1>5. CASE Load \/ Judge \/ Exit \/ Record
  <2>1. pc # "steps" /\ pc' # "steps" /\ UNCHANGED context
    BY <1>5 DEF Load, Judge, Exit, Record, Ended
  <2> QED BY <2>1 DEF ListingInv, Fresh, context
<1>6. CASE UNCHANGED vars
  <2>1. UNCHANGED <<script, pc, level, stack, doc, page, scope, named, bags, rows, visited>>
    BY <1>6 DEF vars, context
  <2>2. Walk' <=> Walk
    BY <2>1, RemainsSame DEF Walk, Shape, Numbers, Order, Capped, Main, Paging, Body, At, InPage, Bag,
       Remains
  <2>3. IsListing' = IsListing
    BY <2>1 DEF IsListing
  <2> QED BY <2>1, <2>2, <2>3 DEF ListingInv, Fresh
<1> QED BY <1>1, <1>2, <1>3, <1>4, <1>5, <1>6 DEF Next, Progress

-----------------------------------------------------------------------------
(***************************************************************************)
(* How far the paginations of any script go.  A block that visits one page *)
(* has no loop and, since it begins behind the last pagination, none of    *)
(* those: its pagination or its page is what is executed.                  *)
(***************************************************************************)
SectionFits(f) == \A n \in f.from..(f.at - 1) : f.steps[n].op # "paginate"
RepeatFits(f) ==
    \A n \in DOMAIN f.block : f.block[n].op # "paginate" /\ (f.block[n].op = "goto" => f.url)
ToVisit(block, at) == \E n \in at..Len(block) : block[n].op = "goto"

TurnFits(st, i, v, cap) ==
    /\ i < Len(st) => st[i + 1].steps = st[i].block
    /\ VisitsOnce(st[i].block) =>
         /\ i >= Len(st) - 1
         /\ st[i].turns > 0 => v <= cap
         /\ i < Len(st) /\ ToVisit(st[i].block, st[i + 1].at) => v < cap

PagesFit(st, v, cap) ==
    \A i \in 1..Len(st) :
      /\ st[i].kind = "block" => SectionFits(st[i])
      /\ st[i].kind = "pages" => RepeatFits(st[i]) /\ TurnFits(st, i, v, cap)

CapInv == IF pc = "steps" THEN PagesFit(stack, visited, script.cap) ELSE stack = <<>>

\* A step of a block; it may be the goto that visits the page.
LEMMA PagesOnward ==
    ASSUME NEW R, NEW st, StackFits(st, R), st[Len(st)].kind = "block",
           NEW v \in Nat, NEW w \in Nat, NEW cap \in Int, PagesFit(st, v, cap),
           LET f == st[Len(st)] IN
           w = v \/ (w = v + 1 /\ f.at <= Len(f.steps) /\ f.steps[f.at].op = "goto")
    PROVE  PagesFit(Onward(st), w, cap)
<1> DEFINE t == Onward(st)
           L == Len(st)
           f == st[L]
           g == t[L]
<1>1. /\ Len(t) = L /\ \A i \in 1..(L - 1) : t[i] = st[i]
      /\ g.kind = "block" /\ g.steps = f.steps /\ g.at = f.at + 1
      /\ g.from = IF f.steps[f.at].op = "paginate" THEN f.at + 1 ELSE f.from
  BY OnwardIs
<1>2. /\ L \in Nat \ {0} /\ f \in BlockFrame /\ f.at \in Nat \ {0} /\ f.from \in Nat \ {0}
      /\ Len(f.steps) \in Nat
  BY TopIsFrame, KindOfFrame DEF BlockFrame
<1>3. \A i \in 1..L : st[i] \in Frame(R)
  BY TopIsFrame
<1>4. w = v \/ (w = v + 1 /\ f.at <= Len(f.steps) /\ f.steps[f.at].op = "goto")
  OBVIOUS
<1> HIDE DEF t, L, f, g
<1>5. SectionFits(g)
  <2>1. SectionFits(f)
    BY <1>2 DEF PagesFit, L, f
  <2> QED BY <1>1, <1>2, <2>1 DEF SectionFits
<1>6. ASSUME NEW i \in 1..(L - 1) PROVE st[i].kind = "block" => SectionFits(t[i])
  BY <1>1, <1>2 DEF PagesFit, L
<1>7. ASSUME NEW i \in 1..(L - 1), st[i].kind = "pages"
      PROVE  RepeatFits(t[i]) /\ TurnFits(t, i, w, cap)
  <2> DEFINE p == st[i]
  <2>1. i \in 1..L /\ i < L /\ i + 1 \in 1..L /\ t[i] = p /\ p.kind = "pages"
    BY <1>1, <1>2, <1>7
  <2>2. RepeatFits(p) /\ TurnFits(st, i, v, cap)
    BY <2>1 DEF PagesFit, L
  <2>3. p.turns \in Nat /\ p.block \in Seq(Steps)
    BY <1>3, <2>1, KindOfFrame DEF PagesFrame
  <2>4. st[i + 1].steps = p.block
    BY <2>1, <2>2 DEF TurnFits, L
  <2>5. t[i + 1].steps = p.block
    <3>1. CASE i + 1 = L
      BY <1>1, <2>4, <3>1 DEF f, g
    <3>2. CASE i + 1 # L
      <4>1. i + 1 \in 1..(L - 1)
        BY <1>2, <2>1, <3>2
      <4> QED BY <1>1, <2>4, <4>1
    <3> QED BY <3>1, <3>2
  <2>6. ASSUME VisitsOnce(p.block)
        PROVE  /\ i >= L - 1
               /\ p.turns > 0 => w <= cap
               /\ ToVisit(p.block, t[i + 1].at) => w < cap
    <3>1. /\ i = L - 1 /\ i + 1 = L
          /\ p.turns > 0 => v <= cap
          /\ ToVisit(p.block, st[i + 1].at) => v < cap
      BY <1>2, <2>1, <2>2, <2>6 DEF TurnFits, L
    <3>2. f.steps = p.block /\ st[i + 1].at = f.at /\ t[i + 1].at = f.at + 1
      BY <1>1, <2>4, <3>1 DEF f, g
    <3>3. ToVisit(p.block, f.at + 1) => ToVisit(p.block, f.at)
      BY <1>2, <3>2 DEF ToVisit
    <3>4. CASE w = v
      BY <3>1, <3>2, <3>3, <3>4
    <3>5. CASE w = v + 1 /\ f.at <= Len(f.steps) /\ f.steps[f.at].op = "goto"
      <4>1. ToVisit(p.block, f.at) /\ f.at \in DOMAIN p.block
        <5>1. f.at \in 1..Len(p.block) /\ p.block[f.at].op = "goto" /\ DOMAIN p.block = 1..Len(p.block)
          <6>1. f.at \in Nat \ {0} /\ f.at <= Len(p.block) /\ Len(p.block) \in Nat
            BY <1>2, <2>3, <3>2, <3>5
          <6>2. p.block[f.at].op = "goto" /\ DOMAIN p.block = 1..Len(p.block)
            BY <2>3, <3>2, <3>5
          <6> QED BY <6>1, <6>2
        <5>2. f.at \in f.at..Len(p.block)
          BY <5>1
        <5> QED BY <5>1, <5>2 DEF ToVisit
      <4>2. ~ToVisit(p.block, f.at + 1)
        <5> SUFFICES ASSUME NEW n \in (f.at + 1)..Len(p.block), p.block[n].op = "goto" PROVE FALSE
          BY DEF ToVisit
        <5>1. n \in DOMAIN p.block /\ n # f.at /\ p.block[f.at].op = "goto"
          BY <1>2, <2>3, <3>2, <3>5
        <5> QED BY <2>6, <4>1, <5>1 DEF VisitsOnce
      <4> QED BY <3>1, <3>2, <3>5, <4>1, <4>2
    <3> QED BY <1>4, <3>1, <3>4, <3>5
  <2>7. TurnFits(t, i, w, cap)
    BY <1>1, <2>1, <2>5, <2>6 DEF TurnFits
  <2> QED BY <2>1, <2>2, <2>7
<1>8. \A i \in 1..L : i = L \/ i \in 1..(L - 1)
  BY <1>2
<1>9. ASSUME NEW i \in 1..L
      PROVE  /\ t[i].kind = "block" => SectionFits(t[i])
             /\ t[i].kind = "pages" => RepeatFits(t[i]) /\ TurnFits(t, i, w, cap)
  <2>1. CASE i = L
    <3>1. t[i] = g /\ g.kind # "pages"
      BY <1>1, <2>1 DEF g
    <3> QED BY <1>5, <3>1
  <2>2. CASE i \in 1..(L - 1)
    <3>1. t[i] = st[i]
      BY <1>1, <2>2
    <3>2. /\ st[i].kind = "block" => SectionFits(t[i])
          /\ st[i].kind = "pages" => RepeatFits(t[i]) /\ TurnFits(t, i, w, cap)
      BY <1>6, <1>7, <2>2
    <3> QED BY <3>1, <3>2
  <2> QED BY <1>8, <2>1, <2>2
<1>10. PagesFit(t, w, cap)
  BY <1>1, <1>9 DEF PagesFit
<1> QED BY <1>10 DEF t

\* What is below the top of the stack.
LEMMA PagesLowered ==
    ASSUME NEW R, NEW st, StackFits(st, R), NEW n \in 1..Len(st),
           NEW v, NEW cap, PagesFit(st, v, cap)
    PROVE  PagesFit(SubSeq(st, 1, n), v, cap)
<1> DEFINE t == SubSeq(st, 1, n)
<1>1. Len(t) = n /\ Len(st) \in Nat \ {0} /\ \A i \in 1..n : t[i] = st[i]
  <2>1. Len(st) \in Nat \ {0} /\ \A i \in 1..n : st[i] \in Frame(R)
    BY TopIsFrame
  <2> QED BY <2>1, SubSeqProperties
<1> HIDE DEF t
<1>2. ASSUME NEW i \in 1..n, st[i].kind = "pages" PROVE TurnFits(t, i, v, cap)
  <2>1. TurnFits(st, i, v, cap) /\ t[i] = st[i]
    BY <1>1, <1>2 DEF PagesFit
  <2>2. i < n => i < Len(st) /\ t[i + 1] = st[i + 1]
    BY <1>1
  <2>3. i >= Len(st) - 1 => i >= n - 1
    BY <1>1
  <2> QED BY <1>1, <2>1, <2>2, <2>3 DEF TurnFits
<1>3. PagesFit(t, v, cap)
  BY <1>1, <1>2 DEF PagesFit
<1> QED BY <1>3 DEF t

\* A loop or a pagination begins: not in the page of a block that visits one.
LEMMA PagesPushed ==
    ASSUME NEW R, NEW st, StackFits(st, R), st[Len(st)].kind = "block",
           NEW v, NEW cap, PagesFit(st, v, cap),
           LET f == st[Len(st)] IN
           f.at \in 1..Len(f.steps) /\ f.steps[f.at].op \in {"loop", "paginate"},
           NEW g \in Frame(R), g.kind # "block",
           g.kind = "pages" => RepeatFits(g) /\ g.turns = 0
    PROVE  PagesFit(Append(st, g), v, cap)
<1> DEFINE t == Append(st, g)
           L == Len(st)
           f == st[L]
<1>1. /\ L \in Nat \ {0} /\ Len(t) = L + 1 /\ (\A i \in 1..L : t[i] = st[i]) /\ t[L + 1] = g
  <2>1. st \in Seq(Frame(R)) /\ L \in Nat \ {0}
    BY TopIsFrame DEF StackFits
  <2> QED BY <2>1, AppendProperties
<1>2. f.kind = "block" /\ f.at \in 1..Len(f.steps) /\ f.steps[f.at].op \in {"loop", "paginate"}
  OBVIOUS
<1>3. \A i \in 1..L : st[i] \in Frame(R)
  BY TopIsFrame
<1> HIDE DEF t, L, f
<1>4. ASSUME NEW i \in 1..L, st[i].kind = "pages" PROVE TurnFits(t, i, v, cap)
  <2>1. i < L /\ i + 1 \in 1..L /\ t[i] = st[i] /\ t[i + 1] = st[i + 1]
    <3>1. i # L
      BY <1>2, <1>4 DEF f
    <3> QED BY <1>1, <3>1
  <2>2. RepeatFits(st[i]) /\ TurnFits(st, i, v, cap) /\ st[i].block \in Seq(Steps)
    BY <1>3, <1>4, KindOfFrame DEF PagesFit, L, PagesFrame
  <2>3. ~VisitsOnce(st[i].block)
    <3> SUFFICES ASSUME VisitsOnce(st[i].block) PROVE FALSE
      OBVIOUS
    <3>1. i + 1 = L /\ st[i + 1].steps = st[i].block
      BY <1>1, <2>1, <2>2 DEF TurnFits, L
    <3>2. f.at \in DOMAIN st[i].block /\ st[i].block[f.at].op \in {"loop", "paginate"}
      BY <1>2, <2>2, <3>1 DEF f
    <3> QED BY <2>2, <3>2 DEF VisitsOnce, RepeatFits
  <2> QED BY <2>1, <2>2, <2>3 DEF TurnFits, L
<1>5. g.kind = "pages" => TurnFits(t, L + 1, v, cap)
  <2>1. ~(L + 1 < Len(t)) /\ L + 1 >= Len(t) - 1
    BY <1>1
  <2>2. g.kind = "pages" => ~(t[L + 1].turns > 0)
    BY <1>1
  <2> QED BY <2>1, <2>2 DEF TurnFits
<1>6. \A i \in 1..(L + 1) : i = L + 1 \/ i \in 1..L
  BY <1>1
<1>7. ASSUME NEW i \in 1..(L + 1)
      PROVE  /\ t[i].kind = "block" => SectionFits(t[i])
             /\ t[i].kind = "pages" => RepeatFits(t[i]) /\ TurnFits(t, i, v, cap)
  <2>1. CASE i = L + 1
    <3>1. t[i] = g /\ g.kind # "block" /\ (g.kind = "pages" => RepeatFits(g))
      BY <1>1, <2>1
    <3>2. t[i].kind = "pages" => RepeatFits(t[i])
      BY <3>1
    <3>3. t[i].kind = "pages" => TurnFits(t, i, v, cap)
      BY <1>5, <2>1, <3>1
    <3>4. t[i].kind # "block"
      BY <3>1
    <3> QED BY <3>2, <3>3, <3>4
  <2>2. CASE i \in 1..L
    <3>1. t[i] = st[i] /\ (st[i].kind = "block" => SectionFits(st[i]))
          /\ (st[i].kind = "pages" => RepeatFits(st[i]) /\ TurnFits(t, i, v, cap))
      BY <1>1, <1>4, <2>2 DEF PagesFit, L
    <3>2. (t[i].kind = "block" => SectionFits(t[i])) /\ (t[i].kind = "pages" => RepeatFits(t[i]))
      BY <3>1
    <3> QED BY <3>1, <3>2
  <2> QED BY <1>6, <2>1, <2>2
<1>8. PagesFit(t, v, cap)
  BY <1>1, <1>7 DEF PagesFit
<1> QED BY <1>8 DEF t

\* A round of a loop or a page begins.
LEMMA PagesRound ==
    ASSUME NEW R, NEW st, StackFits(st, R), st[Len(st)].kind # "block",
           NEW v, NEW w, NEW cap, PagesFit(st, v, cap),
           NEW g \in Frame(R), g.kind = st[Len(st)].kind,
           NEW steps \in Seq(Steps),
           g.kind = "pages" =>
             /\ RepeatFits(g) /\ g.block = steps
             /\ VisitsOnce(steps) => w <= cap /\ (ToVisit(steps, 1) => w < cap)
    PROVE  PagesFit(Append([st EXCEPT ![Len(st)] = g], Block(steps)), w, cap)
<1> DEFINE L == Len(st)
           u == [st EXCEPT ![L] = g]
           b == Block(steps)
           t == Append(u, b)
<1>1. L \in Nat \ {0} /\ st \in Seq(Frame(R))
  BY TopIsFrame DEF StackFits
<1>2. u \in Seq(Frame(R)) /\ Len(u) = L /\ \A i \in 1..L : u[i] = IF i = L THEN g ELSE st[i]
  BY <1>1, ExceptSeq
<1> HIDE DEF u
<1>3. b \in Frame(R) /\ b.kind = "block" /\ b.steps = steps /\ b.at = 1 /\ b.from = 1
  BY BlockIsFrame DEF Block
<1> HIDE DEF b
<1>4. /\ Len(t) = L + 1 /\ t[L + 1] = b /\ t[L] = g /\ \A i \in 1..(L - 1) : t[i] = st[i]
  BY <1>1, <1>2, <1>3, AppendProperties
<1>5. st[L].kind # "block"
  OBVIOUS
<1> HIDE DEF t, L
<1>6. SectionFits(b)
  BY <1>3 DEF SectionFits
<1>7. g.kind = "pages" => RepeatFits(g) /\ TurnFits(t, L, w, cap)
  <2> SUFFICES ASSUME g.kind = "pages" PROVE RepeatFits(g) /\ TurnFits(t, L, w, cap)
    OBVIOUS
  <2>1. t[L] = g /\ t[L + 1].steps = g.block /\ t[L + 1].at = 1 /\ L >= Len(t) - 1
    BY <1>1, <1>3, <1>4
  <2> QED BY <2>1 DEF TurnFits
<1>8. ASSUME NEW i \in 1..(L - 1), st[i].kind = "pages" PROVE TurnFits(t, i, w, cap)
  <2>1. i \in 1..L /\ i < L /\ t[i] = st[i]
    BY <1>1, <1>4
  <2>2. TurnFits(st, i, v, cap)
    BY <1>8, <2>1 DEF PagesFit, L
  <2>3. i + 1 # L
    <3> SUFFICES ASSUME i + 1 = L PROVE FALSE
      OBVIOUS
    <3>1. L \in 2..L /\ L - 1 = i
      BY <1>1, <2>1
    <3>2. (st[L].kind = "block") # (st[L - 1].kind = "block")
      BY <3>1 DEF StackFits, L
    <3> QED BY <1>5, <1>8, <3>1, <3>2
  <2>4. i + 1 \in 1..(L - 1) /\ ~(i >= L - 1)
    BY <1>1, <2>1, <2>3
  <2>5. t[i + 1] = st[i + 1] /\ ~VisitsOnce(st[i].block)
    BY <1>4, <2>2, <2>4 DEF TurnFits, L
  <2> QED BY <2>1, <2>2, <2>5 DEF TurnFits, L
<1>9. \A i \in 1..(L + 1) : i = L + 1 \/ i = L \/ i \in 1..(L - 1)
  BY <1>1
<1>10. \A i \in 1..(L - 1) : /\ t[i].kind = "block" => SectionFits(t[i])
                            /\ t[i].kind = "pages" => RepeatFits(t[i]) /\ TurnFits(t, i, w, cap)
  <2>1. \A i \in 1..(L - 1) : i \in 1..L
    BY <1>1
  <2> QED BY <1>4, <1>8, <2>1 DEF PagesFit, L
<1>11. PagesFit(t, w, cap)
  BY <1>1, <1>3, <1>4, <1>5, <1>6, <1>7, <1>9, <1>10 DEF PagesFit, L
<1> QED BY <1>11 DEF t, u, b, L

\* What a pagination repeats has no pagination, and a goto only if it goes by the page.
LEMMA RepeatIs ==
    ASSUME NEW block \in Seq({s \in Steps : s.op # "paginate"}), NEW f,
           f.block = Replay(block), f.url = Drives(block)
    PROVE  RepeatFits(f)
<1> DEFINE S == {s \in Steps : s.op # "paginate"}
           U == {s \in S : s.op # "goto"}
<1>1. CASE Drives(block)
  <2>1. f.block = block /\ f.url
    BY <1>1 DEF Replay
  <2>2. \A n \in DOMAIN block : block[n] \in S
    BY ElementOfSeq
  <2> QED BY <2>1, <2>2 DEF RepeatFits
<1>2. CASE ~Drives(block)
  <2>1. f.block = WithoutGotos(block)
    BY <1>2 DEF Replay
  <2>2. f.block \in Seq(U)
    BY <2>1, WithoutGotosAre
  <2>3. \A n \in DOMAIN f.block : f.block[n] \in U
    BY <2>2, ElementOfSeq
  <2> QED BY <2>3 DEF RepeatFits
<1> QED BY <1>1, <1>2

LEMMA CapIs ==
    ASSUME RunnerInv
    PROVE  script.cap \in Int /\ visited \in Nat
BY ScriptsAssumption, ContextIs DEF RunnerInv

LEMMA AdvanceCaps ==
    ASSUME RunnerInv, CapInv, Executing, Advance, pc' = "steps", UNCHANGED script,
           visited' = visited \/ (visited' = visited + 1 /\ Step.op = "goto")
    PROVE  CapInv'
<1>1. /\ StackFits(stack, Seen) /\ stack[Len(stack)].kind = "block" /\ PagesFit(stack, visited, script.cap)
      /\ Top = stack[Len(stack)] /\ Top.at \in 1..Len(Top.steps) /\ Step = Top.steps[Top.at]
      /\ stack' = Onward(stack)
  BY StepIs DEF CapInv, Top, Step, Advance
<1>2. visited' \in Nat /\ visited \in Nat /\ script.cap \in Int /\ Top.at <= Len(Top.steps)
  BY <1>1, CapIs
<1>3. PagesFit(Onward(stack), visited', script.cap)
  BY <1>1, <1>2, PagesOnward
<1> QED BY <1>1, <1>3 DEF CapInv

LEMMA ReturnCaps ==
    ASSUME RunnerInv, CapInv, pc = "steps", Top.kind # "block", Return,
           pc' = "steps", UNCHANGED <<script, visited>>
    PROVE  CapInv'
<1>1. /\ StackFits(stack, Seen) /\ Len(stack) \in Nat \ {0} /\ PagesFit(stack, visited, script.cap)
      /\ Top = stack[Len(stack)]
  BY TopIsFrame DEF RunnerInv, ContextTypes, CapInv, Top
<1>2. Len(stack) > 1 /\ stack[Len(stack) - 1].kind = "block"
  <2>1. Len(stack) > 1
    BY <1>1 DEF StackFits
  <2> QED BY <1>1, <2>1 DEF StackFits
<1> DEFINE st == Front(stack)
<1>3. /\ st = SubSeq(stack, 1, Len(stack) - 1) /\ StackFits(st, Seen) /\ Len(st) = Len(stack) - 1
      /\ st[Len(stack) - 1] = stack[Len(stack) - 1]
  BY <1>1, <1>2, FrontIs
<1>4. Len(stack) - 1 \in 1..Len(stack)
  BY <1>1, <1>2
<1>5. PagesFit(st, visited, script.cap) /\ st[Len(st)].kind = "block"
  BY <1>1, <1>2, <1>3, <1>4, PagesLowered
<1>6. stack' = Onward(st)
  BY DEF Return
<1> HIDE DEF st
<1>7. PagesFit(Onward(st), visited, script.cap)
  BY <1>3, <1>5, CapIs, PagesOnward
<1> QED BY <1>6, <1>7 DEF CapInv

LEMMA LoopStartCaps ==
    ASSUME RunnerInv, CapInv, LoopStart, pc' = "steps"
    PROVE  CapInv'
<1>1. /\ Executing /\ Step.op = "loop" /\ StackFits(stack, Seen) /\ stack[Len(stack)].kind = "block"
      /\ PagesFit(stack, visited, script.cap) /\ Step \in Steps /\ Top = stack[Len(stack)]
      /\ Top.at \in 1..Len(Top.steps) /\ Step = Top.steps[Top.at] /\ pc = "steps"
  BY StepIs DEF LoopStart, CapInv, Top, Step
<1>2. ~(Loops > 5 \/ Step.over \notin named)
  BY <1>1 DEF LoopStart, Fails
<1> DEFINE items == FirstOf(bags[Step.over], Step.max)
           f == [kind |-> "loop", step |-> Step, left |-> items,
                 item |-> NoRow, saved |-> scope[Step.as]]
<1>3. stack' = Append(stack, f) /\ UNCHANGED <<script, visited>>
  BY <1>2 DEF LoopStart
<1>4. Step.as \in Items /\ Step.max \in Int
  BY <1>1, ScriptsAssumption
<1>5. items \in Seq(Seen)
  <2>1. bags[Step.over] \in Seq(Seen)
    BY <1>2, ContextIs
  <2> QED BY <1>4, <2>1, FirstOfType
<1>6. scope[Step.as] \in Seen \cup {NoRow}
  BY <1>4, ContextIs
<1> HIDE DEF items
<1>7. f \in Frame(Seen) /\ f.kind = "loop"
  BY <1>1, <1>5, <1>6 DEF Frame, LoopFrame
<1> HIDE DEF f
<1>8. PagesFit(Append(stack, f), visited, script.cap)
  BY <1>1, <1>7, PagesPushed
<1> QED BY <1>3, <1>8 DEF CapInv

LEMMA LoopNextCaps ==
    ASSUME RunnerInv, CapInv, LoopNext, pc' = "steps"
    PROVE  CapInv'
<1>1. /\ pc = "steps" /\ StackFits(stack, Seen) /\ Top.kind = "loop" /\ Top = stack[Len(stack)]
      /\ Top \in LoopFrame(Seen) /\ PagesFit(stack, visited, script.cap)
      /\ UNCHANGED <<script, visited>>
  BY TopIsFrame, KindOfFrame DEF LoopNext, RunnerInv, ContextTypes, Top, CapInv
<1>2. /\ Top.step \in Steps /\ Top.step.op = "loop" /\ Top.left \in Seq(Seen)
  BY <1>1 DEF LoopFrame
<1>3. Top.step.steps \in Seq(Steps)
  BY <1>2, ScriptsAssumption
<1>4. CASE Top.left = <<>>
  BY <1>1, <1>4, ReturnCaps DEF LoopNext
<1>5. CASE Top.left # <<>>
  <2> DEFINE first == Head(Top.left)
             left == Tail(Top.left)
             f == [Top EXCEPT !.left = left, !.item = first]
             st == [stack EXCEPT ![Len(stack)] = f]
             steps == Top.step.steps
  <2>1. stack' = Append(st, Block(steps))
    <3>1. [stack EXCEPT ![Len(stack)].left = Tail(@), ![Len(stack)].item = Head(Top.left)] = st
      BY <1>1, TopIsFrame DEF StackFits
    <3> QED BY <1>5, <3>1 DEF LoopNext
  <2>2. first \in Seen /\ left \in Seq(Seen)
    BY <1>2, <1>5, HeadTailProperties
  <2> HIDE DEF first, left
  <2>3. f \in Frame(Seen) /\ f.kind = "loop"
    BY <1>1, <2>2 DEF LoopFrame, Frame
  <2> HIDE DEF f, steps
  <2>4. steps \in Seq(Steps) /\ stack[Len(stack)].kind = "loop"
    BY <1>1, <1>3 DEF steps
  <2>5. PagesFit(Append(st, Block(steps)), visited, script.cap)
    BY <1>1, <2>3, <2>4, PagesRound
  <2> QED BY <1>1, <2>1, <2>5 DEF CapInv
<1> QED BY <1>4, <1>5

LEMMA PaginateStartCaps ==
    ASSUME RunnerInv, CapInv, PaginateStart, pc' = "steps"
    PROVE  CapInv'
<1>1. /\ Executing /\ pc = "steps" /\ Step \in Steps /\ Step.op = "paginate"
      /\ StackFits(stack, Seen) /\ Top.kind = "block" /\ Top \in BlockFrame
      /\ Top.from \in 1..Top.at /\ Top.at \in 1..Len(Top.steps) /\ Top = stack[Len(stack)]
      /\ Step = Top.steps[Top.at] /\ PagesFit(stack, visited, script.cap)
      /\ UNCHANGED <<script, visited>>
  BY StepIs DEF PaginateStart, CapInv, Top, Step
<1> DEFINE block == SubSeq(Top.steps, Top.from, Top.at - 1)
           again == Replay(block)
           driven == Drives(block)
           counts == RowsInBags
           f == [kind |-> "pages", step |-> Step, block |-> again, url |-> driven,
                 turns |-> 0, no |-> page, before |-> counts]
<1>2. stack' = Append(stack, f)
  BY DEF PaginateStart
<1>3. block \in Seq({s \in Steps : s.op # "paginate"})
  <2>1. Top.steps \in Seq(Steps) /\ SectionFits(Top)
    BY <1>1, TopIsFrame DEF BlockFrame, PagesFit
  <2>2. \A i \in Top.from..(Top.at - 1) : Top.steps[i] \in {s \in Steps : s.op # "paginate"}
    BY <1>1, <2>1 DEF SectionFits
  <2>3. Top.from \in Int /\ Top.at - 1 \in Int
    BY <1>1
  <2> QED BY <2>2, <2>3, SubSeqProperties
<1> HIDE DEF block
<1>4. block \in Seq(Steps)
  BY <1>3, SeqOfLess
<1>5. again \in Seq(Steps) /\ driven \in BOOLEAN /\ counts \in [Bags -> Nat] /\ page \in Nat
  BY <1>4, WithoutGotosType, CountsAre, ContextIs DEF Replay, Drives
<1>6. f.block = Replay(block) /\ f.url = Drives(block)
  OBVIOUS
<1> HIDE DEF again, driven, counts
<1>7. f \in Frame(Seen) /\ f.kind = "pages" /\ f.turns = 0
  BY <1>1, <1>5 DEF Frame, PagesFrame
<1> HIDE DEF f
<1>8. RepeatFits(f)
  BY <1>3, <1>6, RepeatIs
<1>9. PagesFit(Append(stack, f), visited, script.cap)
  BY <1>1, <1>7, <1>8, PagesPushed
<1> QED BY <1>1, <1>2, <1>9 DEF CapInv

LEMMA TurnCaps ==
    ASSUME RunnerInv, CapInv, Turn, pc' = "steps"
    PROVE  CapInv'
<1>1. /\ pc = "steps" /\ StackFits(stack, Seen) /\ Top.kind = "pages"
      /\ Top = stack[Len(stack)] /\ Top \in PagesFrame /\ Top.block \in Seq(Steps)
      /\ PagesFit(stack, visited, script.cap) /\ UNCHANGED script
  BY PagesIs DEF Turn, CapInv
<1> DEFINE f == Turned(Top)
           st == [stack EXCEPT ![Len(stack)] = f]
           block == Top.block
<1>2. /\ stack' = Append(st, Block(block)) /\ visited < script.cap
      /\ IF Top.url THEN visited' = visited ELSE visited' = visited + 1
  BY <1>1 DEF Turn, MayTurn
<1>3. f \in PagesFrame /\ f.kind = "pages" /\ f.block = block /\ f.url = Top.url
  <2> DEFINE turns == Top.turns + 1
             no == Top.no + 1
             counts == RowsInBags
  <2>1. turns \in Nat /\ no \in Nat /\ counts \in [Bags -> Nat]
    BY <1>1, CountsAre DEF PagesFrame
  <2>2. f = [Top EXCEPT !.turns = turns, !.no = no, !.before = counts]
    BY DEF Turned
  <2> HIDE DEF turns, no, counts, f
  <2> QED BY <1>1, <2>1, <2>2 DEF PagesFrame
<1> HIDE DEF f
<1>4. RepeatFits(f)
  <2>1. RepeatFits(Top)
    BY <1>1, TopIsFrame DEF PagesFit
  <2> QED BY <1>3, <2>1 DEF RepeatFits
<1>5. visited' <= script.cap /\ (ToVisit(block, 1) => visited' < script.cap)
  <2>1. visited \in Nat /\ script.cap \in Int
    BY CapIs
  <2>2. ToVisit(block, 1) => Top.url
    BY <1>1, <1>3, <1>4 DEF ToVisit, RepeatFits
  <2> QED BY <1>2, <2>1, <2>2
<1>6. f \in Frame(Seen) /\ stack[Len(stack)].kind = f.kind /\ block \in Seq(Steps)
  BY <1>1, <1>3 DEF Frame
<1> HIDE DEF block
<1>7. PagesFit(Append(st, Block(block)), visited', script.cap)
  BY <1>1, <1>3, <1>4, <1>5, <1>6, PagesRound
<1> QED BY <1>1, <1>2, <1>7 DEF CapInv

LEMMA BlockEndsCaps ==
    ASSUME RunnerInv, CapInv, BlockEnds, pc' = "steps"
    PROVE  CapInv'
<1>1. /\ pc = "steps" /\ StackFits(stack, Seen) /\ Top.kind = "block" /\ Len(stack) > 1
      /\ Len(stack) \in Nat /\ PagesFit(stack, visited, script.cap)
      /\ UNCHANGED <<script, visited>>
  BY TopIsFrame DEF BlockEnds, InBlock, RunnerInv, ContextTypes, CapInv
<1>2. Len(stack) - 2 \in 1..Len(stack) /\ stack[Len(stack) - 2].kind = "block"
  <2>1. Below.kind # "block"
    BY <1>1 DEF StackFits, Below, Top
  <2>2. Len(stack) # 2
    BY <2>1, <1>1 DEF StackFits, Below
  <2> QED BY <1>1, <2>1, <2>2 DEF StackFits, Below
<1> DEFINE n == Len(stack) - 2
           st == SubSeq(stack, 1, n)
<1>3. StackFits(st, Seen) /\ st[Len(st)].kind = "block" /\ PagesFit(st, visited, script.cap)
  BY <1>1, <1>2, Lowered, PagesLowered
<1>4. PagesFit(Onward(st), visited, script.cap)
  <2> HIDE DEF st
  <2> QED BY <1>3, CapIs, PagesOnward
<1> HIDE DEF st
<1>5. PagesFit(Front(stack), visited, script.cap)
  <2>1. Len(stack) - 1 \in 1..Len(stack)
    BY <1>1
  <2>2. Front(stack) = SubSeq(stack, 1, Len(stack) - 1)
    BY <1>1, FrontIs
  <2>3. PagesFit(SubSeq(stack, 1, Len(stack) - 1), visited, script.cap)
    BY <1>1, <2>1, PagesLowered
  <2> QED BY <2>2, <2>3
<1>6. stack' = Onward(st) \/ stack' = Front(stack)
  BY DEF BlockEnds, st
<1>7. PagesFit(stack', visited, script.cap)
  BY <1>4, <1>5, <1>6
<1> QED BY <1>1, <1>7 DEF CapInv

LEMMA OpenCaps ==
    ASSUME Open, pc' = "steps"
    PROVE  CapInv'
<1>1. stack' = <<Block(script.steps)>>
  BY DEF Open
<1>2. Len(stack') = 1 /\ stack'[1].kind = "block" /\ stack'[1].from = 1 /\ stack'[1].at = 1
  BY <1>1 DEF Block
<1> QED BY <1>2 DEF CapInv, PagesFit, SectionFits

LEMMA CapNext == RunnerInv /\ CapInv /\ [Next]_vars => CapInv'
<1> SUFFICES ASSUME RunnerInv, CapInv, [Next]_vars PROVE CapInv'
  OBVIOUS
<1>1. CASE pc' # "steps"
  <2>1. CASE NewContext
    BY <1>1, <2>1 DEF NewContext, CapInv
  <2>2. CASE UNCHANGED stack /\ pc # "steps"
    BY <1>1, <2>2 DEF CapInv
  <2>3. CASE \E failure : Fails(failure)
    BY <1>1, <2>3 DEF Fails, NewContext, CapInv
  <2>4. CASE RungPasses \/ Timeout \/ CustomPythonExits \/ Killed
    BY <2>1, <2>4 DEF RungPasses, Timeout, CustomPythonExits, Killed
  <2>5. CASE Load \/ Judge \/ Exit \/ Record
    BY <2>2, <2>5 DEF Load, Judge, Exit, Record, Ended, context
  <2>6. CASE StepOfScript /\ ~RungPasses /\ ~(\E failure : Fails(failure))
    <3>1. pc = "steps" /\ UNCHANGED pc
      BY <2>6 DEF StepOfScript, PlainStep, Goto, Extract, ExtractList, CustomPython, Emit, LoopStart,
                  LoopNext, PaginateStart, PaginateEnd, Turn, TurnFails, BlockEnds, Executing, InBlock,
                  InPages
    <3> QED BY <1>1, <3>1
  <2>7. CASE UNCHANGED vars
    BY <1>1, <2>7 DEF vars, context, CapInv
  <2>8. ~Open /\ (OpenFails => \E failure : Fails(failure))
    BY <1>1 DEF Open, OpenFails
  <2> QED BY <2>3, <2>4, <2>5, <2>6, <2>7, <2>8 DEF Next, Progress
<1>2. CASE pc' = "steps"
  <2>1. ~(\E failure : Fails(failure))
    BY <1>2 DEF Fails
  <2>2. CASE PlainStep \/ Goto \/ Extract \/ ExtractList \/ CustomPython \/ Emit
    <3>1. Executing /\ Advance /\ UNCHANGED script
          /\ (visited' = visited \/ (visited' = visited + 1 /\ Step.op = "goto"))
      BY <2>1, <2>2 DEF PlainStep, Goto, Extract, ExtractList, CustomPython, Emit
    <3> QED BY <1>2, <3>1, AdvanceCaps
  <2>3. CASE LoopStart
    BY <1>2, <2>3, LoopStartCaps
  <2>4. CASE PaginateEnd \/ TurnFails
    <3>1. pc = "steps" /\ Top.kind = "pages" /\ Return /\ UNCHANGED <<script, visited>>
      BY <2>1, <2>4 DEF PaginateEnd, TurnFails, InPages
    <3> QED BY <1>2, <3>1, ReturnCaps
  <2>5. CASE LoopNext \/ PaginateStart \/ Turn \/ BlockEnds
    BY <1>2, <2>5, LoopNextCaps, PaginateStartCaps, TurnCaps, BlockEndsCaps
  <2>6. CASE Open
    BY <1>2, <2>6, OpenCaps
  <2>7. /\ ~RungPasses /\ ~Load /\ ~OpenFails /\ ~Judge /\ ~Exit /\ ~Record
        /\ ~Timeout /\ ~CustomPythonExits /\ ~Killed
    BY <1>2, <2>1 DEF RungPasses, Load, OpenFails, Judge, Exit, Record, Timeout, CustomPythonExits, Killed
  <2>8. CASE UNCHANGED vars
    BY <2>8 DEF vars, context, CapInv
  <2> QED BY <2>2, <2>3, <2>4, <2>5, <2>6, <2>7, <2>8 DEF Next, Progress, StepOfScript
<1> QED BY <1>1, <1>2

-----------------------------------------------------------------------------
(***************************************************************************)
(* The theorems.                                                           *)
(***************************************************************************)
\* The inductive invariant of the walk: document, page variable and bag follow the
\* number that the pagination keeps in its frame (_paginate, _replay).
THEOREM ListingInvariant == Spec => []ListingInv
<1>1. Init => ListingInv
  BY ListingInit
<1>2. RunnerInv /\ ListingInv /\ [Next]_vars => ListingInv'
  BY ListingNext
<1> QED BY <1>1, <1>2, RunnerInvariant, PTL DEF Spec

\* Pagination by url or by a next link walks the pages in order and takes no row twice,
\* whatever pages are empty and whichever rungs failed before (_paginate, _replay).
THEOREM TakenInOrder == Spec => []ListingInOrder
<1>1. ListingInv => ListingInOrder
  <2> SUFFICES ASSUME ListingInv, IsListing, TakesOnce PROVE Ascends(rows)
    BY DEF ListingInOrder, TakesOnce, Ascends
  <2>1. CASE pc = "steps"
    BY <2>1 DEF ListingInv, Walk, Order
  <2>2. CASE pc # "steps"
    BY <2>2, EmptyIsInOrder DEF ListingInv, Fresh
  <2> QED BY <2>1, <2>2
<1> QED BY <1>1, ListingInvariant, PTL

\* A listing visits no more pages than both caps allow, and a pagination of any script
\* that visits one page at a turn turns to none past the cap of the run (_paginate).
THEOREM CapsHold == Spec => []WalkIsCapped
<1>1. Init => CapInv
  BY DEF Init, CapInv
<1>2. RunnerInv /\ CapInv /\ [Next]_vars => CapInv'
  BY CapNext
<1>3. RunnerInv /\ ListingInv /\ IsListing => visited <= 1 \/ visited <= Limit
  <2> SUFFICES ASSUME RunnerInv, ListingInv, IsListing PROVE visited <= 1 \/ visited <= Limit
    OBVIOUS
  <2>1. CASE pc # "steps"
    BY <2>1 DEF ListingInv, Fresh
  <2>2. CASE pc = "steps"
    <3>1. Shape /\ Capped /\ visited \in Nat /\ Limit \in Int
      BY <2>2, ContextIs, ListingSteps DEF ListingInv, Walk
    <3>2. CASE Len(stack) = 1
      <4>1. Main.at \in 1..5
        BY <3>1 DEF Shape
      <4>2. CASE Main.at = 1 \/ Main.at = 2 \/ Main.at = 3
        BY <3>1, <3>2, <4>2 DEF Capped, At
      <4>3. CASE Main.at = 4 \/ Main.at = 5
        BY <3>1, <3>2, <4>3 DEF Capped, At
      <4> QED BY <4>1, <4>2, <4>3
    <3>3. CASE Len(stack) > 1
      <4>1. Paging.turns \in Nat
        BY <2>2, <3>1, <3>3, PagingIs
      <4>2. visited <= Paging.turns + 1 /\ (Paging.turns > 0 => Paging.turns < Limit)
        BY <3>1, <3>3 DEF Capped
      <4> QED BY <3>1, <4>1, <4>2
    <3>4. Len(stack) = 1 \/ Len(stack) > 1
      <4>1. Len(stack) \in 1..3
        BY <3>1 DEF Shape
      <4> QED BY <4>1
    <3> QED BY <3>2, <3>3, <3>4
  <2> QED BY <2>1, <2>2
<1>4. ASSUME RunnerInv, CapInv, NEW i \in DOMAIN stack,
             stack[i].kind = "pages", stack[i].turns > 0, VisitsOnce(stack[i].block)
      PROVE  visited <= script.cap
  <2>1. pc = "steps"
    BY <1>4 DEF CapInv
  <2>2. StackFits(stack, Seen) /\ i \in 1..Len(stack)
    BY <1>4, <2>1 DEF RunnerInv, ContextTypes, StackFits
  <2> QED BY <1>4, <2>1, <2>2 DEF CapInv, PagesFit, TurnFits
<1>5. RunnerInv /\ CapInv /\ ListingInv => WalkIsCapped
  BY <1>3, <1>4 DEF WalkIsCapped, Limit
<1> QED BY <1>1, <1>2, <1>5, RunnerInvariant, ListingInvariant, PTL DEF Spec

=============================================================================
