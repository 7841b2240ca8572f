--------------------------- MODULE FunctionProofs ---------------------------
(***************************************************************************)
(* Proofs about the functions that module MCServices samples: how a page   *)
(* is read (Reading), how rows and row counts are judged (Verdicts), and   *)
(* how a session is billed (Spending); for inputs of any size.             *)
(***************************************************************************)
EXTENDS ServicesProofs

-----------------------------------------------------------------------------
(***************************************************************************)
(* Folds.  FoldLeft is a recursion on sets of places, the last place taken *)
(* first.  For each fold of the modules: that what it computes exists, and *)
(* what it is place by place (Unrolls), so that what a fold keeps can be   *)
(* shown by going on from one place to the next.                           *)
(***************************************************************************)
\* Induction up to n, over the places where something holds.
LEMMA UpToAll ==
    ASSUME NEW n \in Nat, NEW S, 0 \in S, \A k \in 0..(n - 1) : k \in S => k + 1 \in S
    PROVE  \A k \in 0..n : k \in S
<1> DEFINE Bad == {k \in 0..n : k \notin S}
<1> SUFFICES ASSUME Bad # {} PROVE FALSE
  OBVIOUS
<1>1. Bad \in SUBSET Nat
  OBVIOUS
<1>2. PICK m \in Bad : \A i \in Bad : m <= i
  <2> HIDE DEF Bad
  <2> QED BY <1>1, LeastNumber
<1>3. m \in 0..n /\ m # 0 /\ m \notin S
  OBVIOUS
<1>4. m - 1 \in 0..(n - 1) /\ m - 1 \in 0..n /\ (m - 1) + 1 = m /\ m - 1 < m
  BY <1>3
<1>5. m - 1 \in S
  <2> SUFFICES ASSUME m - 1 \notin S PROVE FALSE
    OBVIOUS
  <2>1. m - 1 \in Bad
    BY <1>4
  <2>2. m <= m - 1
    BY <1>2, <2>1
  <2> QED BY <1>3, <1>4, <2>2
<1> QED BY <1>3, <1>4, <1>5

\* The step of each fold.
StepOf(fold, with, out, e) ==
    IF fold = "tokens" THEN out + e.tokens
    ELSE IF fold = "cost" THEN out + Bills!SliceCost(e)
    ELSE IF fold = "row" THEN Bills!TakeRow(out, e)
    ELSE IF fold = "chunk" THEN Bills!ExtractChunk(out, e, with)
    ELSE IF fold = "recent" THEN IF Judging!PassedOnly(e) THEN <<e.rows>> \o out ELSE out
    ELSE IF fold = "judged"
      THEN Append(out, [rows |-> e, passed |-> Judging!RowCountBand(e, with, Judging!RecentRowCounts(out))])
    ELSE IF fold = "candidate" THEN IF e = "" \/ Reads!Contains(out, e) THEN out ELSE Append(out, e)
    ELSE IF fold = "squeeze" THEN Reads!Joined(out, e)
    ELSE out + e.width

\* f is what FoldLeft computes on sets of places of s.
FoldsBy(fold, with, zero, s, f) ==
    f = [p \in SUBSET (1..Len(s)) |->
           IF p = {} THEN zero ELSE StepOf(fold, with, f[p \ {Top(p)}], s[Top(p)])]

LEMMA FoldByExists ==
    ASSUME NEW fold, NEW with, NEW zero, NEW s, Len(s) \in Nat
    PROVE  \E f : FoldsBy(fold, with, zero, s, f)
<1> DEFINE n == Len(s)
           Then(f, p) == StepOf(fold, with, f[p \ {Top(p)}], s[Top(p)])
           Good(m, f) == f = [p \in SUBSET (1..m) |-> IF p = {} THEN zero ELSE Then(f, p)]
           Has == {m \in Nat : \E f : Good(m, f)}
<1>1. 0 \in Has
  <2> DEFINE f == [p \in SUBSET (1..0) |-> zero]
  <2>1. \A p \in SUBSET (1..0) : p = {}
    OBVIOUS
  <2>2. f = [p \in SUBSET (1..0) |-> IF p = {} THEN zero ELSE Then(f, p)]
    <3> HIDE DEF Then
    <3> QED BY <2>1
  <2> HIDE DEF f
  <2>3. Good(0, f)
    BY <2>2
  <2> HIDE DEF Good
  <2> QED BY <2>3
<1>2. ASSUME NEW k \in 0..(n - 1), k \in Has PROVE k + 1 \in Has
  <2> DEFINE m == k + 1
  <2>1. PICK f : f = [p \in SUBSET (1..k) |-> IF p = {} THEN zero ELSE Then(f, p)]
    BY <1>2
  <2> DEFINE g == [p \in SUBSET (1..m) |-> IF m \in p THEN StepOf(fold, with, f[p \ {m}], s[m]) ELSE f[p]]
  <2>2. k \in Nat /\ m \in Nat \ {0} /\ 1..k = (1..m) \ {m}
    OBVIOUS
  <2> HIDE DEF m
  <2>3. \A p \in SUBSET (1..m) : /\ p \ {m} \in SUBSET (1..k) /\ p \ {m} \in SUBSET (1..m)
                                 /\ m \notin p => p \in SUBSET (1..k)
    BY <2>2
  <2>4. \A p \in SUBSET (1..m) : m \notin p => g[p] = f[p]
    OBVIOUS
  <2>5. ASSUME NEW p \in SUBSET (1..m) PROVE g[p] = IF p = {} THEN zero ELSE Then(g, p)
    <3>1. CASE m \in p
      <4>1. Top(p) = m /\ p # {}
        BY <2>2, <3>1, TopOfFirst
      <4>2. g[p] = StepOf(fold, with, f[p \ {m}], s[m])
        BY <3>1
      <4>3. m \notin p \ {m} /\ p \ {m} \in SUBSET (1..m)
        BY <2>3
      <4> HIDE DEF g
      <4>4. g[p \ {m}] = f[p \ {m}]
        BY <2>4, <4>3
      <4> QED BY <4>1, <4>2, <4>4
    <3>2. CASE m \notin p
      <4>1. p \in SUBSET (1..k)
        BY <2>3, <3>2
      <4>2. f[p] = IF p = {} THEN zero ELSE Then(f, p)
        <5> HIDE DEF Then, g
        <5> QED BY <2>1, <4>1
      <4>3. p \ {Top(p)} \in SUBSET (1..m) /\ m \notin p \ {Top(p)}
        BY <3>2
      <4>4. g[p \ {Top(p)}] = f[p \ {Top(p)}] /\ g[p] = f[p]
        <5> HIDE DEF g
        <5> QED BY <2>4, <3>2, <4>3
      <4> HIDE DEF g
      <4> QED BY <4>2, <4>4
    <3> QED BY <3>1, <3>2
  <2>6. g = [p \in SUBSET (1..m) |-> g[p]]
    OBVIOUS
  <2> HIDE DEF g, Then
  <2>7. Good(m, g)
    BY <2>5, <2>6
  <2> HIDE DEF Good
  <2>8. m \in Has
    BY <2>2, <2>7
  <2> QED BY <2>8 DEF m
<1>3. n \in Has
  <2>1. n \in Nat /\ n \in 0..n
    OBVIOUS
  <2> HIDE DEF Has, n
  <2>2. \A k \in 0..n : k \in Has
    BY <1>1, <1>2, <2>1, UpToAll
  <2> QED BY <2>1, <2>2
<1> HIDE DEF Then
<1>4. PICK f : Good(n, f)
  BY <1>3
<1> QED BY <1>4 DEF FoldsBy, Then

\* Place by place.
Unrolls(fold, with, zero, s, F) ==
    /\ F[0] = zero
    /\ \A k \in 1..Len(s) : F[k] = StepOf(fold, with, F[k - 1], s[k])

LEMMA FoldUnrolls ==
    ASSUME NEW fold, NEW with, NEW zero, NEW s, NEW f, Len(s) \in Nat, FoldsBy(fold, with, zero, s, f)
    PROVE  \E F : Unrolls(fold, with, zero, s, F) /\ F[Len(s)] = f[1..Len(s)]
<1> DEFINE n == Len(s)
           F == [k \in 0..n |-> f[1..k]]
           Then(p) == IF p = {} THEN zero ELSE StepOf(fold, with, f[p \ {Top(p)}], s[Top(p)])
<1>1. \A p \in SUBSET (1..n) : f[p] = Then(p)
  <2>1. f = [p \in SUBSET (1..n) |-> Then(p)]
    BY DEF FoldsBy
  <2> DEFINE R == SUBSET (1..n)
  <2> HIDE DEF Then, R
  <2>2. f = [p \in R |-> Then(p)]
    BY <2>1 DEF R
  <2>3. \A p \in R : f[p] = Then(p)
    BY <2>2, Zenon
  <2> QED BY <2>3 DEF R
<1>2. F[0] = zero
  <2>1. 1..0 = {} /\ 0 \in 0..n
    OBVIOUS
  <2>2. f[{}] = zero
    BY <1>1
  <2> QED BY <2>1, <2>2
<1>3. ASSUME NEW k \in 1..n PROVE F[k] = StepOf(fold, with, F[k - 1], s[k])
  <2>1. 1..k \in SUBSET (1..n) /\ 1..k # {} /\ (1..k) \ {k} = 1..(k - 1) /\ k \in 0..n /\ k - 1 \in 0..n
    <3>1. n \in Nat /\ k \in Nat \ {0} /\ k <= n
      OBVIOUS
    <3> HIDE DEF n, F, Then
    <3>2. 1..k \subseteq 1..n /\ k \in 1..k /\ k \in 0..n /\ k - 1 \in 0..n
      BY <3>1
    <3>3. (1..k) \ {k} = 1..(k - 1)
      BY <3>1
    <3> QED BY <3>2, <3>3
  <2>2. Top(1..k) = k
    <3>1. k \in Nat \ {0} /\ 1..k \in SUBSET (1..k) /\ k \in 1..k
      OBVIOUS
    <3> QED BY <3>1, TopOfFirst
  <2>3. F[k] = f[1..k] /\ F[k - 1] = f[1..(k - 1)]
    BY <2>1
  <2> HIDE DEF F
  <2>4. f[1..k] = Then(1..k)
    <3> DEFINE p == 1..k
               R == SUBSET (1..n)
    <3>1. p \in R /\ \A q \in R : f[q] = Then(q)
      BY <1>1, <2>1
    <3> HIDE DEF Then, p, R
    <3>2. f[p] = Then(p)
      BY <3>1
    <3> QED BY <3>2 DEF p
  <2> QED BY <2>1, <2>2, <2>3, <2>4
<1>4. F[n] = f[1..n]
  OBVIOUS
<1> HIDE DEF F
<1> QED BY <1>2, <1>3, <1>4 DEF Unrolls

\* The tokens of all slices.
LEMMA TokensUnroll ==
    ASSUME NEW slices, Len(slices) \in Nat, DOMAIN slices = 1..Len(slices)
    PROVE  \E F : Unrolls("tokens", 0, 0, slices, F) /\ Bills!Tokens(slices) = F[Len(slices)]
<1> DEFINE Step_(f, p_) == IF p_ = {} THEN 0
                          ELSE LET x == Bills!Max(p_) IN f[p_ \ {x}] + slices[x].tokens
           iter == CHOOSE f : f = [p_ \in SUBSET (DOMAIN slices) |-> Step_(f, p_)]
<1>1. Bills!Tokens(slices) = iter[1..Len(slices)]
  BY DEF Bills!Tokens, Bills!TotalOf, Bills!FoldLeft, Bills!MapThenFoldSet
<1>2. ASSUME NEW f, NEW p_
      PROVE  Step_(f, p_) = IF p_ = {} THEN 0 ELSE StepOf("tokens", 0, f[p_ \ {Top(p_)}], slices[Top(p_)])
  BY DEF StepOf, Bills!Max, Top
<1> HIDE DEF Step_
<1>3. ASSUME NEW f PROVE FoldsBy("tokens", 0, 0, slices, f)
             <=> f = [p_ \in SUBSET (DOMAIN slices) |-> Step_(f, p_)]
  BY <1>2 DEF FoldsBy
<1>4. \E f : f = [p_ \in SUBSET (DOMAIN slices) |-> Step_(f, p_)]
  BY <1>3, FoldByExists
<1>5. iter = [p_ \in SUBSET (DOMAIN slices) |-> Step_(iter, p_)]
  BY <1>4
<1> HIDE DEF iter
<1>6. FoldsBy("tokens", 0, 0, slices, iter)
  BY <1>3, <1>5
<1> QED BY <1>1, <1>6, FoldUnrolls

\* Their cost.
LEMMA ComputedUnrolls ==
    ASSUME NEW asked, NEW slices, Len(slices) \in Nat, DOMAIN slices = 1..Len(slices)
    PROVE  \E F : Unrolls("cost", 0, 0, slices, F) /\ Bills!Computed(asked, slices) = F[Len(slices)]
<1> DEFINE Step_(f, p_) == IF p_ = {} THEN 0
                          ELSE LET x == Bills!Max(p_) IN f[p_ \ {x}] + Bills!SliceCost(slices[x])
           iter == CHOOSE f : f = [p_ \in SUBSET (DOMAIN slices) |-> Step_(f, p_)]
<1>1. Bills!Computed(asked, slices) = iter[1..Len(slices)]
  BY DEF Bills!Computed, Bills!TotalOf, Bills!FoldLeft, Bills!MapThenFoldSet
<1>2. ASSUME NEW f, NEW p_
      PROVE  Step_(f, p_) = IF p_ = {} THEN 0 ELSE StepOf("cost", 0, f[p_ \ {Top(p_)}], slices[Top(p_)])
  BY DEF StepOf, Bills!Max, Top
<1> HIDE DEF Step_
<1>3. ASSUME NEW f PROVE FoldsBy("cost", 0, 0, slices, f)
             <=> f = [p_ \in SUBSET (DOMAIN slices) |-> Step_(f, p_)]
  BY <1>2 DEF FoldsBy
<1>4. \E f : f = [p_ \in SUBSET (DOMAIN slices) |-> Step_(f, p_)]
  BY <1>3, FoldByExists
<1>5. iter = [p_ \in SUBSET (DOMAIN slices) |-> Step_(iter, p_)]
  BY <1>4
<1> HIDE DEF iter
<1>6. FoldsBy("cost", 0, 0, slices, iter)
  BY <1>3, <1>5
<1> QED BY <1>1, <1>6, FoldUnrolls

\* The rows of an answer.
LEMMA RowsUnroll ==
    ASSUME NEW s, NEW zero, Len(s) \in Nat, DOMAIN s = 1..Len(s)
    PROVE  \E F : Unrolls("row", 0, zero, s, F) /\ Bills!FoldLeft(Bills!TakeRow, zero, s) = F[Len(s)]
<1> DEFINE Step_(f, p_) == IF p_ = {} THEN zero
                          ELSE LET x == Bills!Max(p_) IN Bills!TakeRow(f[p_ \ {x}], s[x])
           iter == CHOOSE f : f = [p_ \in SUBSET (DOMAIN s) |-> Step_(f, p_)]
<1>1. Bills!FoldLeft(Bills!TakeRow, zero, s) = iter[1..Len(s)]
  BY DEF Bills!FoldLeft, Bills!MapThenFoldSet
<1>2. ASSUME NEW f, NEW p_
      PROVE  Step_(f, p_) = IF p_ = {} THEN zero ELSE StepOf("row", 0, f[p_ \ {Top(p_)}], s[Top(p_)])
  BY DEF StepOf, Bills!Max, Top
<1> HIDE DEF Step_
<1>3. ASSUME NEW f PROVE FoldsBy("row", 0, zero, s, f) <=> f = [p_ \in SUBSET (DOMAIN s) |-> Step_(f, p_)]
  BY <1>2 DEF FoldsBy
<1>4. \E f : f = [p_ \in SUBSET (DOMAIN s) |-> Step_(f, p_)]
  BY <1>3, FoldByExists
<1>5. iter = [p_ \in SUBSET (DOMAIN s) |-> Step_(iter, p_)]
  BY <1>4
<1> HIDE DEF iter
<1>6. FoldsBy("row", 0, zero, s, iter)
  BY <1>3, <1>5
<1> QED BY <1>1, <1>6, FoldUnrolls

\* The chunks of a page.
LEMMA ChunksUnroll ==
    ASSUME NEW chunks, NEW cap, Len(chunks) \in Nat, DOMAIN chunks = 1..Len(chunks)
    PROVE  \E F : Unrolls("chunk", cap, Bills!ExtractBegun, chunks, F)
           /\ Bills!ExtractChunks(chunks, cap) = F[Len(chunks)]
<1> DEFINE Step_(f, p_) == IF p_ = {} THEN Bills!ExtractBegun
                          ELSE LET x == Bills!Max(p_) IN Bills!ExtractChunk(f[p_ \ {x}], chunks[x], cap)
           iter == CHOOSE f : f = [p_ \in SUBSET (DOMAIN chunks) |-> Step_(f, p_)]
<1>1. Bills!ExtractChunks(chunks, cap) = iter[1..Len(chunks)]
  BY DEF Bills!ExtractChunks, Bills!FoldLeft, Bills!MapThenFoldSet
<1>2. ASSUME NEW f, NEW p_
      PROVE  Step_(f, p_) = IF p_ = {} THEN Bills!ExtractBegun
             ELSE StepOf("chunk", cap, f[p_ \ {Top(p_)}], chunks[Top(p_)])
  BY DEF StepOf, Bills!Max, Top
<1> HIDE DEF Step_
<1>3. ASSUME NEW f PROVE FoldsBy("chunk", cap, Bills!ExtractBegun, chunks, f)
             <=> f = [p_ \in SUBSET (DOMAIN chunks) |-> Step_(f, p_)]
  BY <1>2 DEF FoldsBy
<1>4. \E f : f = [p_ \in SUBSET (DOMAIN chunks) |-> Step_(f, p_)]
  BY <1>3, FoldByExists
<1>5. iter = [p_ \in SUBSET (DOMAIN chunks) |-> Step_(iter, p_)]
  BY <1>4
<1> HIDE DEF iter
<1>6. FoldsBy("chunk", cap, Bills!ExtractBegun, chunks, iter)
  BY <1>3, <1>5
<1> QED BY <1>1, <1>6, FoldUnrolls

\* The row counts of runs that passed.
LEMMA RecentUnrolls ==
    ASSUME NEW s, Len(s) \in Nat, DOMAIN s = 1..Len(s)
    PROVE  \E F : Unrolls("recent", 0, <<>>, s, F) /\ Judging!RecentRowCounts(s) = F[Len(s)]
<1> DEFINE Step_(f, p_) == IF p_ = {} THEN <<>>
                          ELSE LET x == Judging!Max(p_) IN
                                IF Judging!PassedOnly(s[x]) THEN <<s[x].rows>> \o f[p_ \ {x}] ELSE f[p_ \ {x}]
           iter == CHOOSE f : f = [p_ \in SUBSET (DOMAIN s) |-> Step_(f, p_)]
<1>1. Judging!RecentRowCounts(s) = iter[1..Len(s)]
  BY DEF Judging!RecentRowCounts, Judging!FoldLeft, Judging!MapThenFoldSet
<1>2. ASSUME NEW f, NEW p_
      PROVE  Step_(f, p_) = IF p_ = {} THEN <<>> ELSE StepOf("recent", 0, f[p_ \ {Top(p_)}], s[Top(p_)])
  BY DEF StepOf, Judging!Max, Top
<1> HIDE DEF Step_
<1>3. ASSUME NEW f PROVE FoldsBy("recent", 0, <<>>, s, f) <=> f = [p_ \in SUBSET (DOMAIN s) |-> Step_(f, p_)]
  BY <1>2 DEF FoldsBy
<1>4. \E f : f = [p_ \in SUBSET (DOMAIN s) |-> Step_(f, p_)]
  BY <1>3, FoldByExists
<1>5. iter = [p_ \in SUBSET (DOMAIN s) |-> Step_(iter, p_)]
  BY <1>4
<1> HIDE DEF iter
<1>6. FoldsBy("recent", 0, <<>>, s, iter)
  BY <1>3, <1>5
<1> QED BY <1>1, <1>6, FoldUnrolls

\* Runs that are judged one after the other.
LEMMA JudgedUnrolls ==
    ASSUME NEW counts, NEW band, Len(counts) \in Nat, DOMAIN counts = 1..Len(counts)
    PROVE  \E F : Unrolls("judged", band, <<>>, counts, F) /\ Judging!Judged(counts, band) = F[Len(counts)]
<1> DEFINE Step_(f, p_) == IF p_ = {} THEN <<>>
                          ELSE LET x == Judging!Max(p_) IN
                                Append(f[p_ \ {x}],
                                       [rows |-> counts[x],
                                        passed |-> Judging!RowCountBand(counts[x], band,
                                                      Judging!RecentRowCounts(f[p_ \ {x}]))])
           iter == CHOOSE f : f = [p_ \in SUBSET (DOMAIN counts) |-> Step_(f, p_)]
<1>1. Judging!Judged(counts, band) = iter[1..Len(counts)]
  BY DEF Judging!Judged, Judging!FoldLeft, Judging!MapThenFoldSet
<1>2. ASSUME NEW f, NEW p_
      PROVE  Step_(f, p_) = IF p_ = {} THEN <<>> ELSE StepOf("judged", band, f[p_ \ {Top(p_)}], counts[Top(p_)])
  BY DEF StepOf, Judging!Max, Top
<1> HIDE DEF Step_
<1>3. ASSUME NEW f PROVE FoldsBy("judged", band, <<>>, counts, f)
             <=> f = [p_ \in SUBSET (DOMAIN counts) |-> Step_(f, p_)]
  BY <1>2 DEF FoldsBy
<1>4. \E f : f = [p_ \in SUBSET (DOMAIN counts) |-> Step_(f, p_)]
  BY <1>3, FoldByExists
<1>5. iter = [p_ \in SUBSET (DOMAIN counts) |-> Step_(iter, p_)]
  BY <1>4
<1> HIDE DEF iter
<1>6. FoldsBy("judged", band, <<>>, counts, iter)
  BY <1>3, <1>5
<1> QED BY <1>1, <1>6, FoldUnrolls

\* The selectors of a step.
LEMMA CandidatesUnroll ==
    ASSUME NEW primary, NEW more, NEW s, Len(s) \in Nat, DOMAIN s = 1..Len(s)
    PROVE  \E F : Unrolls("candidate", 0, <<>>, s, F)
           /\ (s = <<primary>> \o more => Reads!CandidatesOf(primary, more) = F[Len(s)])
<1> DEFINE Step_(f, p_) == IF p_ = {} THEN <<>>
                          ELSE LET x == Reads!Max(p_) IN
                                IF s[x] = "" \/ Reads!Contains(f[p_ \ {x}], s[x]) THEN f[p_ \ {x}]
                                ELSE Append(f[p_ \ {x}], s[x])
           iter == CHOOSE f : f = [p_ \in SUBSET (DOMAIN s) |-> Step_(f, p_)]
<1>1. s = <<primary>> \o more => Reads!CandidatesOf(primary, more) = iter[1..Len(s)]
  BY DEF Reads!CandidatesOf, Reads!FoldLeft, Reads!MapThenFoldSet
<1>2. ASSUME NEW f, NEW p_
      PROVE  Step_(f, p_) = IF p_ = {} THEN <<>> ELSE StepOf("candidate", 0, f[p_ \ {Top(p_)}], s[Top(p_)])
  BY DEF StepOf, Reads!Max, Top
<1> HIDE DEF Step_
<1>3. ASSUME NEW f PROVE FoldsBy("candidate", 0, <<>>, s, f) <=> f = [p_ \in SUBSET (DOMAIN s) |-> Step_(f, p_)]
  BY <1>2 DEF FoldsBy
<1>4. \E f : f = [p_ \in SUBSET (DOMAIN s) |-> Step_(f, p_)]
  BY <1>3, FoldByExists
<1>5. iter = [p_ \in SUBSET (DOMAIN s) |-> Step_(iter, p_)]
  BY <1>4
<1> HIDE DEF iter
<1>6. FoldsBy("candidate", 0, <<>>, s, iter)
  BY <1>3, <1>5
<1>7. \E F : Unrolls("candidate", 0, <<>>, s, F) /\ F[Len(s)] = iter[1..Len(s)]
  BY <1>6, FoldUnrolls
<1> QED BY <1>1, <1>7

\* A number without its spaces.
LEMMA SqueezedUnrolls ==
    ASSUME NEW s, Len(s) \in Nat, DOMAIN s = 1..Len(s)
    PROVE  \E F : Unrolls("squeeze", 0, <<>>, s, F) /\ Reads!Squeezed(s) = F[Len(s)]
<1> DEFINE Step_(f, p_) == IF p_ = {} THEN <<>>
                          ELSE LET x == Reads!Max(p_) IN Reads!Joined(f[p_ \ {x}], s[x])
           iter == CHOOSE f : f = [p_ \in SUBSET (DOMAIN s) |-> Step_(f, p_)]
<1>1. Reads!Squeezed(s) = iter[1..Len(s)]
  BY DEF Reads!Squeezed, Reads!FoldLeft, Reads!MapThenFoldSet
<1>2. ASSUME NEW f, NEW p_
      PROVE  Step_(f, p_) = IF p_ = {} THEN <<>> ELSE StepOf("squeeze", 0, f[p_ \ {Top(p_)}], s[Top(p_)])
  BY DEF StepOf, Reads!Max, Top
<1> HIDE DEF Step_
<1>3. ASSUME NEW f PROVE FoldsBy("squeeze", 0, <<>>, s, f) <=> f = [p_ \in SUBSET (DOMAIN s) |-> Step_(f, p_)]
  BY <1>2 DEF FoldsBy
<1>4. \E f : f = [p_ \in SUBSET (DOMAIN s) |-> Step_(f, p_)]
  BY <1>3, FoldByExists
<1>5. iter = [p_ \in SUBSET (DOMAIN s) |-> Step_(iter, p_)]
  BY <1>4
<1> HIDE DEF iter
<1>6. FoldsBy("squeeze", 0, <<>>, s, iter)
  BY <1>3, <1>5
<1> QED BY <1>1, <1>6, FoldUnrolls

\* The digits of a number.
LEMMA WidthUnrolls ==
    ASSUME NEW s, Len(s) \in Nat, DOMAIN s = 1..Len(s)
    PROVE  \E F : Unrolls("width", 0, 0, s, F) /\ Reads!Width(s) = F[Len(s)]
<1> DEFINE Step_(f, p_) == IF p_ = {} THEN 0
                          ELSE LET x == Reads!Max(p_) IN f[p_ \ {x}] + s[x].width
           iter == CHOOSE f : f = [p_ \in SUBSET (DOMAIN s) |-> Step_(f, p_)]
<1>1. Reads!Width(s) = iter[1..Len(s)]
  BY DEF Reads!Width, Reads!FoldLeft, Reads!MapThenFoldSet
<1>2. ASSUME NEW f, NEW p_
      PROVE  Step_(f, p_) = IF p_ = {} THEN 0 ELSE StepOf("width", 0, f[p_ \ {Top(p_)}], s[Top(p_)])
  BY DEF StepOf, Reads!Max, Top
<1> HIDE DEF Step_
<1>3. ASSUME NEW f PROVE FoldsBy("width", 0, 0, s, f) <=> f = [p_ \in SUBSET (DOMAIN s) |-> Step_(f, p_)]
  BY <1>2 DEF FoldsBy
<1>4. \E f : f = [p_ \in SUBSET (DOMAIN s) |-> Step_(f, p_)]
  BY <1>3, FoldByExists
<1>5. iter = [p_ \in SUBSET (DOMAIN s) |-> Step_(iter, p_)]
  BY <1>4
<1> HIDE DEF iter
<1>6. FoldsBy("width", 0, 0, s, iter)
  BY <1>3, <1>5
<1> QED BY <1>1, <1>6, FoldUnrolls

(* Spending *)
\* What a model did for a session: what it cost is unknown, or known.
-----------------------------------------------------------------------------
(***************************************************************************)
(* Bills.  The shares of any models, with any tokens and any reported      *)
(* costs; and answers of any rows.                                         *)
(***************************************************************************)
Bill == {{}} \cup {{c} : c \in Nat}
SliceOver(Models) == [model : Models, tokens : Nat, cost : Bill]

LEMMA PricesAre == \A model, tokens : /\ tokens \in Nat => Bills!PriceSlice(model, tokens) \in Nat
                                      /\ tokens \in Nat
                                             /\ Bills!Priced(model) => Bills!CostOf(model, tokens) \in Nat
<1> SUFFICES ASSUME NEW model, NEW tokens \in Nat
             PROVE  Bills!PriceSlice(model, tokens) \in Nat
                    /\ (Bills!Priced(model) => Bills!CostOf(model, tokens) \in Nat)
  OBVIOUS
<1>1. Bills!Priced(model) => Bills!Prices[model] \in Nat
  BY DEF Bills!Priced, Bills!Prices
<1>2. \A price \in Nat : tokens * price \in Nat
  OBVIOUS
<1>3. Bills!Priced(model) => Bills!CostOf(model, tokens) \in Nat
  BY <1>1, <1>2 DEF Bills!CostOf
<1> QED BY <1>3 DEF Bills!PriceSlice

LEMMA SliceCostIs == ASSUME NEW Models, NEW slice \in SliceOver(Models) PROVE Bills!SliceCost(slice) \in Nat
<1>1. slice.tokens \in Nat /\ slice.cost \in Bill
  BY DEF SliceOver
<1>2. CASE slice.cost = {}
  BY <1>1, <1>2, PricesAre DEF Bills!SliceCost
<1>3. CASE slice.cost # {}
  <2>1. PICK c \in Nat : slice.cost = {c}
    BY <1>1, <1>3 DEF Bill
  <2>2. (CHOOSE b \in slice.cost : TRUE) = c
    BY <2>1
  <2> QED BY <1>3, <2>1, <2>2 DEF Bills!SliceCost
<1> QED BY <1>2, <1>3

LEMMA TokensAre ==
    ASSUME NEW Models, NEW slices \in Seq(SliceOver(Models))
    PROVE  Bills!Tokens(slices) \in Nat
<1>0. Len(slices) \in Nat /\ DOMAIN slices = 1..Len(slices)
             /\ \A k \in 1..Len(slices) : slices[k].tokens \in Nat
  <2>1. \A k \in 1..Len(slices) : slices[k] \in SliceOver(Models)
    OBVIOUS
  <2>2. \A slice \in SliceOver(Models) : slice.tokens \in Nat
    BY DEF SliceOver
  <2> QED BY <2>1, <2>2
<1>1. PICK F : Unrolls("tokens", 0, 0, slices, F) /\ Bills!Tokens(slices) = F[Len(slices)]
  BY <1>0, TokensUnroll
<1>2. F[0] = 0 /\ \A k \in 1..Len(slices) : F[k] = F[k - 1] + slices[k].tokens
  BY <1>1 DEF Unrolls, StepOf
<1> DEFINE n == Len(slices)
           S == {k \in 0..n : F[k] \in Nat}
<1>3. 0 \in S /\ \A k \in 0..(n - 1) : k \in S => k + 1 \in S
  <2>1. ASSUME NEW k \in 0..(n - 1), F[k] \in Nat PROVE k + 1 \in 1..n /\ F[k + 1] \in Nat
    <3>1. k + 1 \in 1..n /\ (k + 1) - 1 = k
      BY <1>0
    <3>2. F[k + 1] = F[k] + slices[k + 1].tokens
      BY <1>2, <3>1
    <3> QED BY <1>0, <2>1, <3>1, <3>2
  <2> QED BY <1>0, <1>2, <2>1
<1>4. n \in S
  <2> HIDE DEF S
  <2>1. n \in Nat /\ n \in 0..n
    BY <1>0
  <2> QED BY <1>3, <2>1, UpToAll
<1> QED BY <1>1, <1>4

\* The costs of the slices, summed place by place.
Costs(slices, F) ==
    F[0] = 0 /\ \A k \in 1..Len(slices) : F[k] = F[k - 1] + Bills!SliceCost(slices[k])

LEMMA ComputedIs ==
    ASSUME NEW Models, NEW slices \in Seq(SliceOver(Models)), NEW asked
    PROVE  \E F : /\ Costs(slices, F) /\ Bills!Computed(asked, slices) = F[Len(slices)]
                  /\ \A k \in 0..Len(slices) : F[k] \in Nat
<1>0. /\ Len(slices) \in Nat /\ DOMAIN slices = 1..Len(slices)
      /\ \A k \in 1..Len(slices) : Bills!SliceCost(slices[k]) \in Nat
  BY SliceCostIs
<1>1. PICK F : Unrolls("cost", 0, 0, slices, F) /\ Bills!Computed(asked, slices) = F[Len(slices)]
  BY <1>0, ComputedUnrolls
<1>2. Costs(slices, F)
  BY <1>1 DEF Unrolls, StepOf, Costs
<1> DEFINE n == Len(slices)
           S == {k \in 0..n : F[k] \in Nat}
<1>3. 0 \in S /\ \A k \in 0..(n - 1) : k \in S => k + 1 \in S
  <2>1. ASSUME NEW k \in 0..(n - 1), F[k] \in Nat PROVE k + 1 \in 1..n /\ F[k + 1] \in Nat
    <3>1. k + 1 \in 1..n /\ (k + 1) - 1 = k
      BY <1>0
    <3>2. F[k + 1] = F[k] + Bills!SliceCost(slices[k + 1])
      BY <1>2, <3>1 DEF Costs
    <3> QED BY <1>0, <2>1, <3>1, <3>2
  <2> QED BY <1>0, <1>2, <2>1 DEF Costs
<1>4. \A k \in 0..n : k \in S
  <2> HIDE DEF S
  <2> QED BY <1>0, <1>3, UpToAll
<1> QED BY <1>1, <1>2, <1>4

LEMMA WithoutOne ==
    ASSUME NEW S, NEW s \in Seq(S), NEW i \in 1..Len(s)
    PROVE  /\ Bills!RemoveAt(s, i) \in Seq(S) /\ Len(Bills!RemoveAt(s, i)) = Len(s) - 1
           /\ \A k \in 1..(Len(s) - 1) : Bills!RemoveAt(s, i)[k] = IF k < i THEN s[k] ELSE s[k + 1]
<1> DEFINE a == SubSeq(s, 1, i - 1)
           b == SubSeq(s, i + 1, Len(s))
<1>0. Bills!RemoveAt(s, i) = a \o b
  BY DEF Bills!RemoveAt
<1>1. a \in Seq(S) /\ Len(a) = i - 1 /\ \A k \in 1..(i - 1) : a[k] = s[k]
  OBVIOUS
<1>2. b \in Seq(S) /\ Len(b) = Len(s) - i /\ \A k \in 1..(Len(s) - i) : b[k] = s[i + k]
  OBVIOUS
<1>3. Len(s) \in Nat /\ i \in Nat
  OBVIOUS
<1> HIDE DEF a, b
<1>4. (a \o b) \in Seq(S) /\ Len(a \o b) = (i - 1) + (Len(s) - i)
  <2>1. (a \o b) \in Seq(S) /\ Len(a \o b) = Len(a) + Len(b)
    BY <1>1, <1>2, ConcatProperties
  <2> QED BY <1>1, <1>2, <1>3, <2>1
<1>5. ASSUME NEW k \in 1..(Len(s) - 1) PROVE (a \o b)[k] = IF k < i THEN s[k] ELSE s[k + 1]
  <2>1. CASE k < i
    BY <1>1, <1>2, <1>3, <2>1
  <2>2. CASE ~(k < i)
    <3>1. k - (i - 1) \in 1..(Len(s) - i) /\ i + (k - (i - 1)) = k + 1
      BY <1>3, <2>2
    <3>2. (a \o b)[k] = b[k - (i - 1)]
      BY <1>1, <1>2, <1>3, <2>2
    <3> QED BY <1>2, <2>2, <3>1, <3>2
  <2> QED BY <2>1, <2>2
<1> QED BY <1>0, <1>3, <1>4, <1>5

\* One slice more is its cost more.
LEMMA ShareCounts ==
    ASSUME NEW Models, NEW slices \in Seq(SliceOver(Models)), NEW asked, NEW i \in 1..Len(slices)
    PROVE  Bills!Computed(asked, slices)
             = Bills!Computed(asked, Bills!RemoveAt(slices, i)) + Bills!SliceCost(slices[i])
<1> DEFINE n == Len(slices)
           t == Bills!RemoveAt(slices, i)
           c == Bills!SliceCost(slices[i])
<1>0. n \in Nat /\ i \in 1..n /\ c \in Nat
  BY SliceCostIs
<1>1. t \in Seq(SliceOver(Models)) /\ Len(t) = n - 1
      /\ \A k \in 1..(n - 1) : t[k] = IF k < i THEN slices[k] ELSE slices[k + 1]
  BY WithoutOne
<1> HIDE DEF t, c
<1>2. PICK F : Costs(slices, F) /\ Bills!Computed(asked, slices) = F[n] /\ \A k \in 0..n : F[k] \in Nat
  BY ComputedIs
<1>3. PICK G : Costs(t, G) /\ Bills!Computed(asked, t) = G[n - 1] /\ \A k \in 0..(n - 1) : G[k] \in Nat
  BY <1>1, ComputedIs
<1> HIDE DEF n
<1>4. F[0] = 0 /\ \A k \in 1..n : F[k] = F[k - 1] + Bills!SliceCost(slices[k])
  BY <1>2 DEF Costs, n
<1>5. G[0] = 0 /\ \A k \in 1..(n - 1) : G[k] = G[k - 1] + Bills!SliceCost(t[k])
  BY <1>1, <1>3 DEF Costs
<1>8. \A k \in 1..n : Bills!SliceCost(slices[k]) \in Nat
  BY SliceCostIs DEF n
<1> DEFINE S == {k \in 0..(n - 1) : (k < i => G[k] = F[k]) /\ (~(k < i) => F[k + 1] = G[k] + c)}
<1>6. 0 \in S
  BY <1>0, <1>4, <1>5
<1>7. ASSUME NEW k \in 0..(n - 1 - 1), k \in S PROVE k + 1 \in S
  <2>1. k + 1 \in 1..(n - 1) /\ k + 1 \in 0..(n - 1) /\ (k + 1) - 1 = k /\ k \in Nat /\ k + 1 \in 1..n
               /\ k + 1 + 1 \in 1..n
        /\ (k + 1 + 1) - 1 = k + 1 /\ k \in 0..(n - 1) /\ k \in 0..n /\ k + 1 \in 0..n
    BY <1>0
  <2>2. G[k + 1] = G[k] + Bills!SliceCost(t[k + 1])
    BY <1>5, <2>1
  <2>3. F[k + 1] = F[k] + Bills!SliceCost(slices[k + 1])
               /\ F[k + 1 + 1] = F[k + 1] + Bills!SliceCost(slices[k + 1 + 1])
    BY <1>4, <2>1
  <2>4. F[k] \in Nat /\ F[k + 1] \in Nat /\ G[k] \in Nat /\ G[k + 1] \in Nat
    BY <1>2, <1>3, <2>1
  <2>5. (k < i => G[k] = F[k]) /\ (~(k < i) => F[k + 1] = G[k] + c)
    BY <1>7
  <2>6. CASE k + 1 < i
    <3>1. t[k + 1] = slices[k + 1] /\ k < i
      BY <1>0, <1>1, <2>1, <2>6
    <3> QED BY <2>1, <2>2, <2>3, <2>5, <2>6, <3>1
  <2>7. CASE ~(k + 1 < i)
    <3>1. t[k + 1] = slices[k + 1 + 1]
      BY <1>1, <2>1, <2>7
    <3>2. F[k + 1] = G[k] + c
      <4>1. CASE k < i
        <5>1. k + 1 = i
          BY <1>0, <2>1, <2>7, <4>1
        <5> QED BY <2>3, <2>5, <4>1, <5>1 DEF c
      <4> QED BY <2>5, <4>1
    <3>3. Bills!SliceCost(slices[k + 1 + 1]) \in Nat
      BY <1>8, <2>1
    <3>4. F[k + 1 + 1] = G[k + 1] + c
      BY <1>0, <2>2, <2>3, <2>4, <3>1, <3>2, <3>3
    <3> QED BY <2>1, <2>7, <3>4
  <2> QED BY <2>6, <2>7
<1>9. n - 1 \in S
  <2> DEFINE m == n - 1
  <2>1. m \in Nat /\ m \in 0..m
    BY <1>0
  <2>2. 0 \in S /\ \A k \in 0..(m - 1) : k \in S => k + 1 \in S
    BY <1>6, <1>7
  <2> HIDE DEF S, m
  <2>3. m \in S
    BY <2>1, <2>2, UpToAll
  <2> QED BY <2>3 DEF m
<1>10. ~(n - 1 < i) => F[n] = G[n - 1] + c
  <2>1. (n - 1) + 1 = n
    BY <1>0
  <2> QED BY <1>9, <2>1
<1>11. CASE n - 1 < i
  <2>1. n = i /\ n - 1 \in 0..(n - 1) /\ n - 1 < i /\ n \in 1..n
    BY <1>0, <1>11
  <2>2. G[n - 1] = F[n - 1]
    BY <1>9, <2>1
  <2>3. F[n] = F[n - 1] + c
    BY <1>4, <2>1 DEF c
  <2> QED BY <1>2, <1>3, <2>2, <2>3 DEF t, c
<1> QED BY <1>2, <1>3, <1>10, <1>11 DEF t, c

\* The bill of a session, whatever models it used for whatever tokens.
LEMMA BillsAreWhole ==
    ASSUME NEW Models, NEW slices \in Seq(SliceOver(Models)), NEW asked, NEW reported \in Nat
    PROVE  Bills!BillIsWhole(asked, slices, reported)
<1> DEFINE billed == Bills!UsageFromResult(asked, slices, reported)
<1>1. billed.tokens = Bills!Tokens(slices)
      /\ billed.cost = IF reported > 0 THEN reported ELSE Bills!Computed(asked, slices)
  BY DEF Bills!UsageFromResult
<1>2. Bills!Tokens(slices) \in Nat
  BY TokensAre
<1>3. \A more \in Seq(SliceOver(Models)) : Bills!Computed(asked, more) \in Nat
  <2> SUFFICES ASSUME NEW more \in Seq(SliceOver(Models)) PROVE Bills!Computed(asked, more) \in Nat
    OBVIOUS
  <2>1. Len(more) \in 0..Len(more)
    OBVIOUS
  <2> QED BY <2>1, ComputedIs
<1>4. billed.cost \in Nat
  BY <1>1, <1>3
<1> HIDE DEF billed
<1>5. reported > 0 => billed.cost = reported
  BY <1>1
<1>6. ASSUME reported = 0, NEW i \in DOMAIN slices
      PROVE  billed.cost
             = Bills!UsageFromResult(asked, Bills!RemoveAt(slices, i), 0).cost + Bills!SliceCost(slices[i])
  <2>1. i \in 1..Len(slices)
    OBVIOUS
  <2>2. Bills!UsageFromResult(asked, Bills!RemoveAt(slices, i), 0).cost
               = Bills!Computed(asked, Bills!RemoveAt(slices, i))
    BY DEF Bills!UsageFromResult
  <2>3. billed.cost = Bills!Computed(asked, slices)
    BY <1>1, <1>6
  <2> QED BY <2>1, <2>2, <2>3, ShareCounts
<1>7. CASE billed.cost > 0
  <2>1. Bills!UsageRow(asked, billed) = {billed.cost}
    BY <1>7 DEF Bills!UsageRow
  <2> QED BY <1>4, <1>5, <1>6, <2>1 DEF Bills!BillIsWhole, billed
<1>8. CASE ~(billed.cost > 0)
  <2>1. billed.cost = 0
    BY <1>4, <1>8
  <2>2. Bills!UsageRow(asked, billed) = IF Bills!Priced(asked) THEN {Bills!CostOf(asked, billed.tokens)} ELSE {}
    BY <1>8 DEF Bills!UsageRow
  <2>3. Bills!Priced(asked) => Bills!CostOf(asked, billed.tokens) \in Nat
    BY <1>1, <1>2, PricesAre
  <2>4. \A cost \in Bills!UsageRow(asked, billed) : cost >= billed.cost
    BY <2>1, <2>2, <2>3
  <2>5. Bills!UsageRow(asked, billed) = {} => billed.cost = 0 /\ ~Bills!Priced(asked)
    BY <2>1, <2>2
  <2> QED BY <1>5, <1>6, <2>4, <2>5 DEF Bills!BillIsWhole, billed
<1> QED BY <1>7, <1>8

\* Chunks with any rows.
ChunkAnswer == {"rows", "failed", "unpriced"}
ChunkOver(Rows) == [cost : Nat, answer : ChunkAnswer, rows : Seq(Rows)]
ExtractOver(Rows) == [sent : Nat, cost : Nat, rows : Seq(Rows), dropped : Nat, answer : ChunkAnswer]

\* The rows so far are complete and different.
Complete(out) ==
    \A i, j \in DOMAIN out.rows : ~Bills!Lacking(out.rows[i]) /\ (out.rows[i] = out.rows[j] => i = j)

LEMMA RowIsTaken ==
    ASSUME NEW Rows, NEW out \in ExtractOver(Rows), Complete(out), NEW entry \in Rows
    PROVE  /\ Bills!TakeRow(out, entry) \in ExtractOver(Rows) /\ Complete(Bills!TakeRow(out, entry))
           /\ Bills!TakeRow(out, entry).sent = out.sent /\ Bills!TakeRow(out, entry).cost = out.cost
           /\ Bills!TakeRow(out, entry).answer = out.answer
<1>1. CASE Bills!Lacking(entry)
  <2>1. Bills!TakeRow(out, entry) = [out EXCEPT !.dropped = @ + 1]
    BY <1>1 DEF Bills!TakeRow
  <2> QED BY <2>1 DEF ExtractOver, Complete
<1>2. CASE ~Bills!Lacking(entry) /\ Bills!Contains(out.rows, entry)
  <2>1. Bills!TakeRow(out, entry) = out
    BY <1>2 DEF Bills!TakeRow
  <2> QED BY <2>1
<1>3. CASE ~Bills!Lacking(entry) /\ ~Bills!Contains(out.rows, entry)
  <2> DEFINE more == Append(out.rows, entry)
             new == [out EXCEPT !.rows = more]
  <2>1. Bills!TakeRow(out, entry) = new
    BY <1>3 DEF Bills!TakeRow
  <2>2. out.rows \in Seq(Rows) /\ more \in Seq(Rows) /\ Len(out.rows) \in Nat
    BY DEF ExtractOver
  <2>3. \A i \in DOMAIN out.rows : out.rows[i] # entry
    BY <1>3, <2>2 DEF Bills!Contains
  <2>4. DOMAIN more = 1..(Len(out.rows) + 1) /\ DOMAIN out.rows = 1..Len(out.rows)
        /\ \A i \in 1..(Len(out.rows) + 1) : more[i] = IF i = Len(out.rows) + 1 THEN entry ELSE out.rows[i]
    BY <2>2
  <2> HIDE DEF more
  <2>5. /\ new.rows = more /\ new.sent = out.sent /\ new.cost = out.cost /\ new.answer = out.answer
        /\ new \in ExtractOver(Rows)
    BY <2>2 DEF ExtractOver
  <2> HIDE DEF new
  <2>6. ASSUME NEW i \in DOMAIN more, NEW j \in DOMAIN more
        PROVE  ~Bills!Lacking(more[i]) /\ (more[i] = more[j] => i = j)
    <3>1. \A k \in DOMAIN more : k \in DOMAIN out.rows \/ k = Len(out.rows) + 1
      BY <2>2, <2>4
    <3>2. \A k \in DOMAIN out.rows : k \in DOMAIN more /\ k # Len(out.rows) + 1 /\ more[k] = out.rows[k]
      BY <2>2, <2>4
    <3>3. more[Len(out.rows) + 1] = entry
      BY <2>2, <2>4
    <3>4. \A k, m \in DOMAIN out.rows : ~Bills!Lacking(out.rows[k]) /\ (out.rows[k] = out.rows[m] => k = m)
      BY DEF Complete
    <3>5. ~Bills!Lacking(more[i])
      BY <1>3, <3>1, <3>2, <3>3, <3>4
    <3>6. more[i] = more[j] => i = j
      BY <2>3, <3>1, <3>2, <3>3, <3>4
    <3> QED BY <3>5, <3>6
  <2>7. Complete(new)
    BY <2>5, <2>6 DEF Complete
  <2> QED BY <2>1, <2>5, <2>7
<1> QED BY <1>1, <1>2, <1>3

LEMMA RowsAreTaken ==
    ASSUME NEW Rows, NEW out \in ExtractOver(Rows), Complete(out), NEW rows \in Seq(Rows)
    PROVE  \E end \in ExtractOver(Rows) :
              /\ Bills!FoldLeft(Bills!TakeRow, out, rows) = end
              /\ Complete(end) /\ end.sent = out.sent /\ end.cost = out.cost /\ end.answer = out.answer
<1>0. Len(rows) \in Nat /\ DOMAIN rows = 1..Len(rows)
  OBVIOUS
<1>1. PICK F : Unrolls("row", 0, out, rows, F) /\ Bills!FoldLeft(Bills!TakeRow, out, rows) = F[Len(rows)]
  BY <1>0, RowsUnroll
<1>2. F[0] = out /\ \A k \in 1..Len(rows) : F[k] = Bills!TakeRow(F[k - 1], rows[k])
  BY <1>1 DEF Unrolls, StepOf
<1> DEFINE n == Len(rows)
           Good(o) == o \in ExtractOver(Rows) /\ Complete(o) /\ o.sent = out.sent /\ o.cost = out.cost
                  /\ o.answer = out.answer
           S == {k \in 0..n : Good(F[k])}
<1>3. 0 \in S
  BY <1>0, <1>2
<1>4. ASSUME NEW k \in 0..(n - 1), k \in S PROVE k + 1 \in S
  <2>1. k + 1 \in 1..n /\ (k + 1) - 1 = k /\ k + 1 \in 0..n
    BY <1>0
  <2>2. F[k + 1] = Bills!TakeRow(F[k], rows[k + 1]) /\ rows[k + 1] \in Rows
    BY <1>2, <2>1
  <2>3. Good(F[k])
    BY <1>4
  <2>4. Good(F[k + 1])
    BY <2>2, <2>3, RowIsTaken
  <2> QED BY <2>1, <2>4
<1>5. n \in S
  <2> HIDE DEF S
  <2>1. n \in Nat /\ n \in 0..n
    BY <1>0
  <2> QED BY <1>3, <1>4, <2>1, UpToAll
<1> QED BY <1>1, <1>5

\* After so many chunks.
CapSoFar(Rows, chunks, cap, k, out) ==
    /\ out \in ExtractOver(Rows) /\ Complete(out)
    /\ out.sent <= k /\ (~Bills!Stopped(out, cap) => out.sent = k)
    /\ out.sent > 0 => out.cost - Bills!ChunkCost(chunks[out.sent]) < cap

LEMMA ChunkIsExtracted ==
    ASSUME NEW Rows, NEW chunks \in Seq(ChunkOver(Rows)), NEW cap \in Nat, NEW k \in 0..(Len(chunks) - 1), NEW out,
           CapSoFar(Rows, chunks, cap, k, out)
    PROVE  CapSoFar(Rows, chunks, cap, k + 1, Bills!ExtractChunk(out, chunks[k + 1], cap))
<1> DEFINE chunk == chunks[k + 1]
           called == Bills!Called(out, chunk)
           new == Bills!ExtractChunk(out, chunk, cap)
<1>1. k \in Nat /\ k + 1 \in 1..Len(chunks) /\ chunk \in ChunkOver(Rows)
  OBVIOUS
<1>2. /\ out \in ExtractOver(Rows) /\ Complete(out)
      /\ out.sent <= k /\ (~Bills!Stopped(out, cap) => out.sent = k)
      /\ out.sent > 0 => out.cost - Bills!ChunkCost(chunks[out.sent]) < cap
  BY DEF CapSoFar
<1>3. CASE Bills!Stopped(out, cap)
  <2>1. new = out
    BY <1>3 DEF Bills!ExtractChunk
  <2>2. out.sent \in Nat /\ out.sent <= k + 1
    BY <1>1, <1>2 DEF ExtractOver
  <2> QED BY <1>2, <1>3, <2>1, <2>2 DEF CapSoFar
<1>4. CASE ~Bills!Stopped(out, cap)
  <2> DEFINE paid == Bills!ChunkCost(chunk)
  <2>0. paid \in Nat
    <3>1. paid = 0 \/ paid = chunk.cost
      BY DEF Bills!ChunkCost
    <3>2. chunk.cost \in Nat
      BY <1>1 DEF ChunkOver
    <3> HIDE DEF paid
    <3> QED BY <3>1, <3>2
  <2>1. out.sent = k /\ out.cost < cap /\ out.cost \in Nat /\ chunk.rows \in Seq(Rows)
    BY <1>1, <1>2, <1>4 DEF Bills!Stopped, ExtractOver, ChunkOver
  <2>2. /\ called \in ExtractOver(Rows) /\ called.sent = k + 1 /\ called.cost = out.cost + paid
        /\ called.rows = out.rows
    <3>1. chunk.answer \in ChunkAnswer /\ out.rows \in Seq(Rows) /\ out.dropped \in Nat /\ out.sent + 1 \in Nat
          /\ out.cost + paid \in Nat
      <4> HIDE DEF paid
      <4> QED BY <1>1, <1>2, <2>0, <2>1 DEF ExtractOver, ChunkOver
    <3>2. called = [sent |-> out.sent + 1, cost |-> out.cost + paid, rows |-> out.rows,
                    dropped |-> out.dropped, answer |-> chunk.answer]
      BY DEF Bills!Called
    <3> HIDE DEF called, paid, chunk
    <3> QED BY <2>1, <3>1, <3>2 DEF ExtractOver
  <2>3. Complete(called)
    BY <1>2, <2>2 DEF Complete
  <2> HIDE DEF chunk, called, paid
  <2>4. new = called \/ new = Bills!FoldLeft(Bills!TakeRow, called, chunk.rows)
    BY <1>4 DEF Bills!ExtractChunk, called
  <2>5. new \in ExtractOver(Rows) /\ Complete(new) /\ new.sent = called.sent /\ new.cost = called.cost
    <3>1. CASE new = called
      BY <2>2, <2>3, <3>1
    <3>2. CASE new = Bills!FoldLeft(Bills!TakeRow, called, chunk.rows)
      BY <2>1, <2>2, <2>3, <3>2, RowsAreTaken
    <3> QED BY <2>4, <3>1, <3>2
  <2>6. new.sent = k + 1 /\ new.cost - paid < cap
    <3>1. (out.cost + paid) - paid = out.cost
      BY <2>0, <2>1
    <3> QED BY <2>1, <2>2, <2>5, <3>1
  <2> HIDE DEF new
  <2>7. CapSoFar(Rows, chunks, cap, k + 1, new)
    BY <1>1, <2>5, <2>6 DEF CapSoFar, chunk, paid
  <2> QED BY <2>7 DEF new, chunk
<1> QED BY <1>3, <1>4

\* The chunks that were taken of a page.
LEMMA ChunksAreRead ==
    ASSUME NEW Rows, NEW chunks \in Seq(ChunkOver(Rows)), NEW cap \in Nat
    PROVE  CapSoFar(Rows, chunks, cap, Len(chunks), Bills!ExtractChunks(chunks, cap))
<1> DEFINE n == Len(chunks)
           out == Bills!ExtractChunks(chunks, cap)
<1>0. n \in Nat /\ DOMAIN chunks = 1..n
  OBVIOUS
<1>1. PICK F : Unrolls("chunk", cap, Bills!ExtractBegun, chunks, F) /\ out = F[n]
  BY <1>0, ChunksUnroll
<1>2. F[0] = Bills!ExtractBegun /\ \A k \in 1..n : F[k] = Bills!ExtractChunk(F[k - 1], chunks[k], cap)
  BY <1>1 DEF Unrolls, StepOf
<1> DEFINE S == {k \in 0..n : CapSoFar(Rows, chunks, cap, k, F[k])}
<1>3. 0 \in S
  <2>1. Bills!ExtractBegun \in ExtractOver(Rows) /\ Complete(Bills!ExtractBegun) /\ Bills!ExtractBegun.sent = 0
    BY DEF Bills!ExtractBegun, ExtractOver, ChunkAnswer, Complete
  <2>2. CapSoFar(Rows, chunks, cap, 0, Bills!ExtractBegun)
    BY <2>1 DEF CapSoFar
  <2>3. 0 \in 0..n
    BY <1>0
  <2> QED BY <1>2, <2>2, <2>3
<1>4. ASSUME NEW k \in 0..(n - 1), k \in S PROVE k + 1 \in S
  <2>1. k + 1 \in 1..n /\ (k + 1) - 1 = k /\ k + 1 \in 0..n
    BY <1>0
  <2>2. F[k + 1] = Bills!ExtractChunk(F[k], chunks[k + 1], cap)
    BY <1>2, <2>1
  <2>3. CapSoFar(Rows, chunks, cap, k + 1, F[k + 1])
    BY <1>4, <2>2, ChunkIsExtracted
  <2> QED BY <2>1, <2>3
<1>5. n \in S
  <2> HIDE DEF S, n
  <2>1. n \in 0..n
    BY <1>0
  <2> QED BY <1>0, <1>3, <1>4, <2>1, UpToAll
<1> QED BY <1>1, <1>5

\* What is taken of a page is its beginning, of most chunks if it has more.
LEMMA TakenIs ==
    ASSUME NEW S, NEW sheet \in Seq(S), NEW most \in Nat
    PROVE  /\ Bills!Taken(sheet, most) \in Seq(S)
           /\ Len(Bills!Taken(sheet, most)) = IF Len(sheet) > most THEN most ELSE Len(sheet)
           /\ \A i \in 1..Len(Bills!Taken(sheet, most)) : Bills!Taken(sheet, most)[i] = sheet[i]
<1>1. Len(sheet) \in Nat
  OBVIOUS
<1>2. CASE Len(sheet) > most
  <2> DEFINE cut == SubSeq(sheet, 1, most)
  <2>1. Bills!Taken(sheet, most) = cut
    BY <1>2 DEF Bills!Taken
  <2>2. cut \in Seq(S) /\ Len(cut) = most /\ \A i \in 1..most : cut[i] = sheet[i]
    BY <1>1, <1>2
  <2> HIDE DEF cut
  <2> QED BY <1>2, <2>1, <2>2
<1>3. CASE ~(Len(sheet) > most)
  BY <1>3 DEF Bills!Taken
<1> QED BY <1>2, <1>3

\* The extractor, over a page of any chunks with any rows.
LEMMA CapsAreKept ==
    ASSUME NEW Rows, NEW sheet \in Seq(ChunkOver(Rows)), NEW cap \in Nat, NEW most \in Nat \ {0}
    PROVE  Bills!CapIsKept(sheet, cap, most)
<1> DEFINE chunks == Bills!Taken(sheet, most)
           n == Len(chunks)
           out == Bills!ExtractRows(sheet, cap, most)
<1>1. /\ chunks \in Seq(ChunkOver(Rows)) /\ n \in Nat /\ Len(sheet) \in Nat
      /\ n = IF Len(sheet) > most THEN most ELSE Len(sheet)
      /\ \A i \in 1..n : chunks[i] = sheet[i]
  BY TakenIs
<1>2. out = Bills!ExtractChunks(chunks, cap)
  BY DEF Bills!ExtractRows
<1> HIDE DEF chunks, out
<1>3. CapSoFar(Rows, chunks, cap, n, out)
  BY <1>1, <1>2, ChunksAreRead
<1>4. out.sent \in Nat /\ out.sent <= n
  BY <1>3 DEF CapSoFar, ExtractOver
<1>5. out.sent > 0 => out.cost - Bills!ChunkCost(sheet[out.sent]) < cap
  <2> HAVE out.sent > 0
  <2>1. out.sent \in 1..n
    BY <1>1, <1>4
  <2>2. chunks[out.sent] = sheet[out.sent]
    BY <1>1, <2>1
  <2>3. out.cost - Bills!ChunkCost(chunks[out.sent]) < cap
    BY <1>3 DEF CapSoFar
  <2> QED BY <2>2, <2>3
<1>6. \A i, j \in DOMAIN out.rows : out.rows[i].lacks = {} /\ (out.rows[i] = out.rows[j] => i = j)
  BY <1>3 DEF CapSoFar, Complete, Bills!Lacking
<1>7. ASSUME Bills!Ok(sheet, cap, most), ~Bills!Capped(sheet, cap, most)
      PROVE  out.sent = Bills!Total(sheet, most) /\ out.sent \in {Len(sheet), most}
  <2>1. Bills!Total(sheet, most) = n
    BY DEF Bills!Total, chunks
  <2>2. out.answer = "rows" /\ ~(out.cost >= cap /\ out.sent < n)
    BY <1>7, <2>1 DEF Bills!Ok, Bills!Capped, out
  <2>3. out.sent = n
    <3> SUFFICES ASSUME out.sent < n PROVE FALSE
      BY <1>1, <1>4
    <3>1. Bills!Stopped(out, cap)
      BY <1>1, <1>3, <1>4 DEF CapSoFar
    <3> QED BY <2>2, <3>1 DEF Bills!Stopped
  <2>4. n \in {Len(sheet), most}
    BY <1>1
  <2> QED BY <2>1, <2>3, <2>4
<1> QED BY <1>5, <1>6, <1>7 DEF Bills!CapIsKept, out

-----------------------------------------------------------------------------
(***************************************************************************)
(* Row counts.  Runs of any number and counts, one judged after the other  *)
(* by any band: as long as the count stays where it broke, a run is        *)
(* broken.                                                                 *)
(***************************************************************************)
JudgedRun == [rows : Nat, passed : BOOLEAN]
BandOver == [relative_to : DOMAIN Judging!HistorySize, tolerance : Nat]

\* One run more is one count more, if it passed.
LEMMA RecentOfOneMore ==
    ASSUME NEW s \in Seq(JudgedRun), NEW r \in JudgedRun
    PROVE  Judging!RecentRowCounts(Append(s, r))
             = IF r.passed THEN <<r.rows>> \o Judging!RecentRowCounts(s) ELSE Judging!RecentRowCounts(s)
<1> DEFINE n == Len(s)
           t == Append(s, r)
<1>1. /\ n \in Nat /\ DOMAIN s = 1..n /\ Len(t) = n + 1 /\ DOMAIN t = 1..Len(t) /\ Len(t) \in Nat
      /\ t[n + 1] = r /\ \A k \in 1..n : t[k] = s[k]
  OBVIOUS
<1> HIDE DEF n, t
<1>2. PICK F : Unrolls("recent", 0, <<>>, s, F) /\ Judging!RecentRowCounts(s) = F[n]
  BY <1>1, RecentUnrolls DEF n
<1>3. PICK G : Unrolls("recent", 0, <<>>, t, G) /\ Judging!RecentRowCounts(t) = G[n + 1]
  BY <1>1, RecentUnrolls
<1>4. F[0] = <<>> /\ \A k \in 1..n : F[k] = StepOf("recent", 0, F[k - 1], s[k])
  BY <1>2 DEF Unrolls, n
<1>5. G[0] = <<>> /\ \A k \in 1..(n + 1) : G[k] = StepOf("recent", 0, G[k - 1], t[k])
  BY <1>1, <1>3 DEF Unrolls
<1> DEFINE S == {k \in 0..n : G[k] = F[k]}
<1>6. 0 \in S
  BY <1>1, <1>4, <1>5
<1>7. ASSUME NEW k \in 0..(n - 1), k \in S PROVE k + 1 \in S
  <2>1. k + 1 \in 1..n /\ (k + 1) - 1 = k /\ k + 1 \in 0..n /\ k + 1 \in 1..(n + 1) /\ G[k] = F[k]
    BY <1>1, <1>7
  <2>2. F[k + 1] = StepOf("recent", 0, F[k], s[k + 1]) /\ G[k + 1] = StepOf("recent", 0, G[k], t[k + 1])
    BY <1>4, <1>5, <2>1
  <2> QED BY <1>1, <2>1, <2>2
<1>8. n \in S
  <2> HIDE DEF S
  <2>1. n \in 0..n
    BY <1>1
  <2> QED BY <1>1, <1>6, <1>7, <2>1, UpToAll
<1>9. G[n + 1] = StepOf("recent", 0, F[n], r)
  <2>1. n + 1 \in 1..(n + 1) /\ (n + 1) - 1 = n
    BY <1>1
  <2> QED BY <1>1, <1>5, <1>8, <2>1
<1> QED BY <1>2, <1>3, <1>9 DEF StepOf, Judging!PassedOnly, t

LEMMA RecentOfNone == Judging!RecentRowCounts(<<>>) = <<>>
<1> DEFINE s == <<>>
<1>1. Len(s) = 0 /\ Len(s) \in Nat /\ DOMAIN s = 1..Len(s)
  OBVIOUS
<1> HIDE DEF s
<1>2. PICK F : Unrolls("recent", 0, <<>>, s, F) /\ Judging!RecentRowCounts(s) = F[0]
  BY <1>1, RecentUnrolls
<1> QED BY <1>2 DEF Unrolls, s

\* The runs so far.
JudgedSoFar(counts, band, k, past) ==
    /\ past \in [0..k -> Seq(JudgedRun)]
    /\ past[0] = <<>>
    /\ \A i \in 1..k :
         past[i] = Append(past[i - 1], [rows |-> counts[i],
                          passed |-> Judging!RowCountBand(counts[i], band, Judging!RecentRowCounts(past[i - 1]))])

LEMMA BandTells == \A n, band, counts : Judging!RowCountBand(n, band, counts) \in BOOLEAN
BY DEF Judging!RowCountBand

LEMMA JudgedInTurn ==
    ASSUME NEW counts \in Seq(Nat), NEW band
    PROVE  \E past : /\ JudgedSoFar(counts, band, Len(counts), past)
                     /\ Judging!Judged(counts, band) = past[Len(counts)]
<1> DEFINE n == Len(counts)
           Run(k, old) == [rows |-> counts[k],
                           passed |-> Judging!RowCountBand(counts[k], band, Judging!RecentRowCounts(old))]
<1>0. n \in Nat /\ DOMAIN counts = 1..n
  OBVIOUS
<1>1. PICK F : Unrolls("judged", band, <<>>, counts, F) /\ Judging!Judged(counts, band) = F[n]
  BY <1>0, JudgedUnrolls
<1>2. F[0] = <<>> /\ \A k \in 1..n : F[k] = Append(F[k - 1], Run(k, F[k - 1]))
  BY <1>1 DEF Unrolls, StepOf
<1>3. \A k \in 1..n : \A old : Run(k, old) \in JudgedRun
  <2> SUFFICES ASSUME NEW k \in 1..n, NEW old PROVE Run(k, old) \in JudgedRun
    OBVIOUS
  <2> DEFINE told == Judging!RowCountBand(counts[k], band, Judging!RecentRowCounts(old))
  <2>1. counts[k] \in Nat /\ told \in BOOLEAN
    BY BandTells
  <2> HIDE DEF told
  <2>2. [rows |-> counts[k], passed |-> told] \in JudgedRun
    BY <2>1 DEF JudgedRun
  <2> QED BY <2>2 DEF told
<1> HIDE DEF Run
<1> DEFINE S == {k \in 0..n : F[k] \in Seq(JudgedRun)}
           past == [k \in 0..n |-> F[k]]
<1>4. 0 \in S
  <2>1. <<>> \in Seq(JudgedRun) /\ 0 \in 0..n
    BY <1>0
  <2>2. F[0] \in Seq(JudgedRun)
    BY <1>2, <2>1
  <2> QED BY <2>1, <2>2
<1>5. ASSUME NEW k \in 0..(n - 1), k \in S PROVE k + 1 \in S
  <2>1. k + 1 \in 1..n /\ (k + 1) - 1 = k /\ k + 1 \in 0..n
    BY <1>0
  <2>2. F[k + 1] = Append(F[k], Run(k + 1, F[k]))
    BY <1>2, <2>1
  <2>3. Run(k + 1, F[k]) \in JudgedRun /\ F[k] \in Seq(JudgedRun)
    BY <1>3, <1>5, <2>1
  <2>4. F[k + 1] \in Seq(JudgedRun)
    BY <2>2, <2>3
  <2> QED BY <2>1, <2>4
<1>6. \A k \in 0..n : k \in S
  <2> HIDE DEF S
  <2> QED BY <1>0, <1>4, <1>5, UpToAll
<1>7. past \in [0..n -> Seq(JudgedRun)] /\ past[0] = <<>> /\ past[n] = F[n]
  BY <1>0, <1>2, <1>6
<1>8. ASSUME NEW i \in 1..n PROVE past[i] = Append(past[i - 1], Run(i, past[i - 1]))
  <2>1. i \in 0..n /\ i - 1 \in 0..n
    BY <1>0
  <2> QED BY <1>2, <2>1
<1> HIDE DEF past
<1>9. JudgedSoFar(counts, band, n, past)
  BY <1>7, <1>8 DEF JudgedSoFar, Run
<1> QED BY <1>1, <1>7, <1>9

\* Each run of them.
LEMMA RunsKeepPlaces ==
    ASSUME NEW counts, NEW band, NEW k \in Nat, NEW past, JudgedSoFar(counts, band, k, past)
    PROVE  \A m \in 0..k : /\ past[m] \in Seq(JudgedRun) /\ Len(past[m]) = m
                           /\ \A i \in 1..m : past[m][i] = past[i][i]
<1> DEFINE S == {m \in 0..k : Len(past[m]) = m /\ \A i \in 1..m : past[m][i] = past[i][i]}
<1>1. \A m \in 0..k : past[m] \in Seq(JudgedRun)
  BY DEF JudgedSoFar
<1>2. 0 \in S
  BY DEF JudgedSoFar
<1>3. ASSUME NEW m \in 0..(k - 1), m \in S PROVE m + 1 \in S
  <2>1. m + 1 \in 1..k /\ (m + 1) - 1 = m /\ m + 1 \in 0..k /\ m \in 0..k
    OBVIOUS
  <2>2. PICK r : past[m + 1] = Append(past[m], r)
    BY <2>1 DEF JudgedSoFar
  <2>3. past[m] \in Seq(JudgedRun) /\ Len(past[m]) = m /\ \A i \in 1..m : past[m][i] = past[i][i]
    BY <1>1, <1>3, <2>1
  <2>4. Len(past[m + 1]) = m + 1 /\ \A i \in 1..m : past[m + 1][i] = past[m][i]
    BY <2>2, <2>3
  <2>5. ASSUME NEW i \in 1..(m + 1) PROVE past[m + 1][i] = past[i][i]
    <3>1. i = m + 1 \/ i \in 1..m
      BY <2>1
    <3> QED BY <2>3, <2>4, <3>1
  <2> QED BY <2>1, <2>4, <2>5
<1>4. \A m \in 0..k : m \in S
  <2> HIDE DEF S
  <2> QED BY <1>2, <1>3, UpToAll
<1> QED BY <1>1, <1>4

LEMMA RunIs ==
    ASSUME NEW counts \in Seq(Nat), NEW band, NEW past, JudgedSoFar(counts, band, Len(counts), past),
           NEW i \in 1..Len(counts)
    PROVE  /\ past[Len(counts)][i].rows = counts[i]
           /\ past[Len(counts)][i].passed
                  = Judging!RowCountBand(counts[i], band, Judging!RecentRowCounts(past[i - 1]))
           /\ past[i] = Append(past[i - 1], past[Len(counts)][i])
           /\ past[Len(counts)][i] \in JudgedRun /\ past[i - 1] \in Seq(JudgedRun)
<1> DEFINE n == Len(counts)
           r == [rows |-> counts[i],
                 passed |-> Judging!RowCountBand(counts[i], band, Judging!RecentRowCounts(past[i - 1]))]
<1>1. n \in Nat /\ i \in 1..n /\ n \in 0..n /\ i \in 0..n /\ i - 1 \in 0..n /\ i \in 1..i
  OBVIOUS
<1> HIDE DEF n
<1>7. JudgedSoFar(counts, band, n, past)
  BY DEF n
<1> HIDE DEF r
<1>8. \A m \in 0..n : /\ past[m] \in Seq(JudgedRun) /\ Len(past[m]) = m
                       /\ \A j \in 1..m : past[m][j] = past[j][j]
  BY <1>1, <1>7, RunsKeepPlaces
<1>2. past[i] = Append(past[i - 1], r)
  BY <1>1, <1>7 DEF JudgedSoFar, r
<1>3. past[i - 1] \in Seq(JudgedRun) /\ Len(past[i - 1]) = i - 1
  BY <1>1, <1>8
<1>4. past[n][i] = past[i][i]
  BY <1>1, <1>8
<1>5. r.rows = counts[i] /\ r \in JudgedRun
        /\ r.passed = Judging!RowCountBand(counts[i], band, Judging!RecentRowCounts(past[i - 1]))
  <2> DEFINE told == Judging!RowCountBand(counts[i], band, Judging!RecentRowCounts(past[i - 1]))
  <2>1. counts[i] \in Nat /\ told \in BOOLEAN
    BY BandTells
  <2> HIDE DEF told
  <2>2. r = [rows |-> counts[i], passed |-> told]
    BY DEF r, told
  <2>3. r.rows = counts[i] /\ r.passed = told /\ r \in JudgedRun
    BY <2>1, <2>2 DEF JudgedRun
  <2> QED BY <2>3 DEF told
<1>6. past[i][i] = r
  BY <1>1, <1>2, <1>3
<1> QED BY <1>2, <1>3, <1>4, <1>5, <1>6 DEF n

\* While all counts are the same, so is the history; and the first run passes.
LEMMA HistoryOfSame ==
    ASSUME NEW counts \in Seq(Nat), NEW band, NEW past, JudgedSoFar(counts, band, Len(counts), past),
           NEW c \in Nat, NEW m \in 0..Len(counts), \A j \in 1..m : counts[j] = c
    PROVE  /\ Judging!RecentRowCounts(past[m]) \in Seq({c})
           /\ m > 0 => Len(Judging!RecentRowCounts(past[m])) > 0
<1> DEFINE Told(k) == Judging!RecentRowCounts(past[k])
           S == {k \in 0..m : Told(k) \in Seq({c}) /\ (k > 0 => Len(Told(k)) > 0)}
<1>0. m \in Nat /\ Len(counts) \in Nat /\ past[0] = <<>>
  BY DEF JudgedSoFar
<1>1. Told(0) = <<>>
  BY <1>0, RecentOfNone
<1>2. 0 \in S
  <2> HIDE DEF Told
  <2>1. <<>> \in Seq({c}) /\ 0 \in 0..m /\ ~(0 > 0)
    BY <1>0
  <2>2. Told(0) \in Seq({c})
    BY <1>1, <2>1, Zenon
  <2> QED BY <2>1, <2>2
<1>3. ASSUME NEW k \in 0..(m - 1), k \in S PROVE k + 1 \in S
  <2>1. k + 1 \in 1..m /\ (k + 1) - 1 = k /\ k + 1 \in 0..m /\ k + 1 \in 1..Len(counts) /\ k \in Nat
    BY <1>0
  <2> DEFINE r == past[Len(counts)][k + 1]
  <2>2. r.rows = c /\ r \in JudgedRun /\ past[k + 1] = Append(past[k], r) /\ past[k] \in Seq(JudgedRun)
        /\ r.passed = Judging!RowCountBand(counts[k + 1], band, Told(k))
    <3>1. /\ past[Len(counts)][k + 1].rows = counts[k + 1]
          /\ past[Len(counts)][k + 1].passed
               = Judging!RowCountBand(counts[k + 1], band, Judging!RecentRowCounts(past[(k + 1) - 1]))
          /\ past[k + 1] = Append(past[(k + 1) - 1], past[Len(counts)][k + 1])
          /\ past[Len(counts)][k + 1] \in JudgedRun /\ past[(k + 1) - 1] \in Seq(JudgedRun)
      BY <2>1, RunIs
    <3>2. counts[k + 1] = c
      BY <2>1
    <3> QED BY <2>1, <3>1, <3>2, Zenon
  <2> HIDE DEF r
  <2>3. Told(k + 1) = IF r.passed THEN <<c>> \o Told(k) ELSE Told(k)
    BY <2>2, RecentOfOneMore
  <2>4. k = 0 => r.passed
    <3> SUFFICES ASSUME k = 0 PROVE r.passed
      OBVIOUS
    <3>1. Told(k) = <<>>
      BY <1>1
    <3> HIDE DEF Told
    <3>2. Judging!Window(<<>>, band) = <<>>
      BY DEF Judging!Window, Judging!FirstOf
    <3> QED BY <2>2, <3>1, <3>2 DEF Judging!RowCountBand
  <2>5. Told(k) \in Seq({c}) /\ (k > 0 => Len(Told(k)) > 0)
    BY <1>3
  <2> HIDE DEF Told
  <2>6. CASE r.passed
    <3>1. <<c>> \o Told(k) \in Seq({c}) /\ Len(<<c>> \o Told(k)) = 1 + Len(Told(k)) /\ Len(Told(k)) \in Nat
      <4>1. <<c>> \in Seq({c}) /\ Len(<<c>>) = 1 /\ Len(Told(k)) \in Nat
        BY <2>5
      <4> QED BY <2>5, <4>1, ConcatProperties
    <3>2. 1 + Len(Told(k)) > 0
      BY <3>1
    <3> QED BY <2>1, <2>3, <2>6, <3>1, <3>2
  <2>7. CASE ~r.passed
    <3>1. Told(k + 1) = Told(k) /\ k > 0
      BY <2>1, <2>3, <2>4, <2>7
    <3> QED BY <2>1, <2>5, <3>1
  <2> QED BY <2>6, <2>7
<1>4. m \in S
  <2> HIDE DEF S
  <2>1. m \in 0..m
    BY <1>0
  <2> QED BY <1>0, <1>2, <1>3, <2>1, UpToAll
<1> QED BY <1>4

LEMMA TotalOfSame ==
    ASSUME NEW c \in Nat, NEW s \in Seq({c})
    PROVE  Judging!TotalOf(s) = c * Len(s)
<1> DEFINE n == Len(s)
<1>1. n \in Nat /\ DOMAIN s = 1..n /\ \A i \in 1..n : s[i] = c
  OBVIOUS
<1>2. Judging!TotalOf(s) = Answering!FoldFunctionOnSet(+, 0, s, DOMAIN s)
  BY DEF Judging!TotalOf, Judging!FoldSeq, Judging!FoldFunction, Judging!FoldFunctionOnSet, Judging!MapThenFoldSet,
         Answering!FoldFunctionOnSet, Answering!MapThenFoldSet
<1> HIDE DEF n
<1>3. Answering!FoldFunctionOnSet(+, 0, s, 1..n) = c * Cardinality(1..n)
  BY <1>1, SumOfSame
<1>4. Cardinality(1..n) = n
  <2>1. 1 \in Int /\ n \in Int
    BY <1>1
  <2>2. Cardinality(1..n) = IF 1 > n THEN 0 ELSE n - 1 + 1
    BY <2>1, FS_Interval
  <2> QED BY <1>1, <2>2
<1> QED BY <1>1, <1>2, <1>3, <1>4 DEF n

\* A half is not within a half, or less.
LEMMA HalfIsOff ==
    ASSUME NEW p \in Nat, p > 0, NEW tolerance \in Nat, tolerance <= 50
    PROVE  ~(p * 100 < tolerance * (2 * p))
<1>1. tolerance * (2 * p) <= 50 * (2 * p)
  <2>1. \A x, y, z \in Nat : x <= y => x * z <= y * z
    <3> SUFFICES ASSUME NEW x \in Nat, NEW y \in Nat, NEW z \in Nat, x <= y PROVE x * z <= y * z
      OBVIOUS
    <3>1. y - x \in Nat /\ y = x + (y - x)
      OBVIOUS
    <3>2. y * z = x * z + (y - x) * z
      BY <3>1
    <3>3. (y - x) * z \in Nat /\ x * z \in Nat
      BY <3>1
    <3> QED BY <3>2, <3>3
  <2>2. 2 * p \in Nat /\ 50 \in Nat
    OBVIOUS
  <2> QED BY <2>1, <2>2
<1>2. 50 * (2 * p) = p * 100 /\ tolerance * (2 * p) \in Nat
  OBVIOUS
<1> QED BY <1>1, <1>2

LEMMA HalvesAreCaught ==
    ASSUME NEW band \in BandOver, band.tolerance <= 50, NEW n \in Nat, n > 0,
           NEW told \in Seq({2 * n}), Len(told) > 0
    PROVE  ~Judging!RowCountBand(n, band, told)
<1> DEFINE places == Judging!HistorySize[band.relative_to]
           m == IF Len(told) < places THEN Len(told) ELSE places
           window == Judging!Window(told, band)
           p == n * m
<1>1. places \in Nat /\ places > 0
  BY DEF BandOver, Judging!HistorySize
<1>2. m \in Nat /\ m > 0 /\ m <= Len(told)
  BY <1>1
<1>3. window = SubSeq(told, 1, m)
  BY DEF Judging!Window, Judging!FirstOf
<1> HIDE DEF m, window
<1>4. window \in Seq({2 * n}) /\ Len(window) = m
  BY <1>2, <1>3
<1>5. Judging!TotalOf(window) = (2 * n) * m
  <2> DEFINE c == 2 * n
  <2>1. c \in Nat /\ window \in Seq({c}) /\ Len(window) = m
    BY <1>4
  <2> HIDE DEF c
  <2>2. Judging!TotalOf(window) = c * m
    BY <2>1, TotalOfSame
  <2> QED BY <2>2 DEF c
<1>6. p \in Nat /\ p > 0 /\ (2 * n) * m = 2 * p
  <2>1. p = n + n * (m - 1) /\ n * (m - 1) \in Nat
    BY <1>2
  <2> QED BY <1>2, <2>1
<1>7. Judging!RowCountBand(n, band, told)
        = LET off == n * Len(window) - Judging!TotalOf(window)
              distance == IF off < 0 THEN -off ELSE off
          IN window = <<>> \/ Judging!TotalOf(window) = 0 \/ off = 0
               \/ distance * 100 < band.tolerance * Judging!TotalOf(window)
  BY DEF Judging!RowCountBand, window
<1>8. n * Len(window) = p /\ Judging!TotalOf(window) = 2 * p /\ window # <<>>
  BY <1>2, <1>4, <1>5, <1>6
<1> HIDE DEF p
<1>9. Judging!RowCountBand(n, band, told) => p * 100 < band.tolerance * (2 * p)
  <2>1. p - 2 * p = -p /\ -p < 0 /\ -(-p) = p /\ 2 * p # 0 /\ -p # 0
    BY <1>6
  <2> QED BY <1>7, <1>8, <2>1
<1>10. band.tolerance \in Nat
  BY DEF BandOver
<1> QED BY <1>6, <1>9, <1>10, HalfIsOff

\* Counts of any size, any number of them, with any window and any tolerance.
LEMMA BrokenStaysBroken ==
    ASSUME NEW counts \in Seq(Nat), NEW band \in BandOver
    PROVE  Judging!BreakageIsKept(counts, band)
<1> DEFINE n == Len(counts)
<1>1. PICK past : JudgedSoFar(counts, band, n, past) /\ Judging!Judged(counts, band) = past[n]
  BY JudgedInTurn
<1> DEFINE runs_ == past[n]
<1>2. DOMAIN runs_ = 1..n /\ n \in Nat
  <2>1. n \in Nat /\ n \in 0..n
    OBVIOUS
  <2> HIDE DEF n
  <2>3. \A m \in 0..n : /\ past[m] \in Seq(JudgedRun) /\ Len(past[m]) = m
                         /\ \A j \in 1..m : past[m][j] = past[j][j]
    BY <1>1, <2>1, RunsKeepPlaces
  <2>2. runs_ \in Seq(JudgedRun) /\ Len(runs_) = n
    BY <2>1, <2>3
  <2> HIDE DEF runs_, n
  <2> QED BY <2>1, <2>2
<1> SUFFICES ASSUME NEW i \in (1..n) \ {1}
             PROVE  /\ ~runs_[i - 1].passed /\ runs_[i].rows = runs_[i - 1].rows => ~runs_[i].passed
                    /\ \A k \in 1..10 : band.tolerance <= 50
                           /\ (\A j \in 1..(i - 1) : counts[j] = 2 * k) /\ counts[i] = k
                         => ~runs_[i].passed
  <2> HIDE DEF runs_
  <2> QED BY <1>1, <1>2 DEF Judging!BreakageIsKept, runs_
<1>3. i \in 1..n /\ i - 1 \in 1..n /\ i - 1 \in 0..n /\ i - 1 > 0 /\ (i - 1) - 1 \in 0..n
  BY <1>2
<1>4. /\ runs_[i].rows = counts[i]
      /\ runs_[i].passed = Judging!RowCountBand(counts[i], band, Judging!RecentRowCounts(past[i - 1]))
  BY <1>1, <1>3, RunIs
<1>5. /\ runs_[i - 1].rows = counts[i - 1]
      /\ runs_[i - 1].passed
             = Judging!RowCountBand(counts[i - 1], band, Judging!RecentRowCounts(past[(i - 1) - 1]))
      /\ past[i - 1] = Append(past[(i - 1) - 1], runs_[i - 1])
      /\ runs_[i - 1] \in JudgedRun /\ past[(i - 1) - 1] \in Seq(JudgedRun)
  BY <1>1, <1>3, RunIs
<1> HIDE DEF runs_, n
<1>6. ASSUME ~runs_[i - 1].passed, runs_[i].rows = runs_[i - 1].rows PROVE ~runs_[i].passed
  <2>1. Judging!RecentRowCounts(past[i - 1]) = Judging!RecentRowCounts(past[(i - 1) - 1])
    BY <1>5, <1>6, RecentOfOneMore
  <2> QED BY <1>4, <1>5, <1>6, <2>1
<1>7. ASSUME NEW k \in 1..10, band.tolerance <= 50, \A j \in 1..(i - 1) : counts[j] = 2 * k, counts[i] = k
      PROVE  ~runs_[i].passed
  <2> DEFINE told == Judging!RecentRowCounts(past[i - 1])
             c == 2 * k
  <2>1. c \in Nat /\ k \in Nat /\ k > 0
    OBVIOUS
  <2>2. told \in Seq({c}) /\ Len(told) > 0
    BY <1>1, <1>3, <1>7, <2>1, HistoryOfSame DEF n
  <2> HIDE DEF told
  <2>3. ~Judging!RowCountBand(k, band, told)
    BY <1>7, <2>1, <2>2, HalvesAreCaught
  <2> QED BY <1>4, <1>7, <2>3 DEF told
<1> QED BY <1>6, <1>7

LEMMA CardinalityOfJudging == \A S : Judging!Cardinality(S) = Cardinality(S)
BY DEF Judging!Cardinality, Cardinality

-----------------------------------------------------------------------------
(***************************************************************************)
(* Trials.  Rows of any number, with any fields, and any thresholds.       *)
(***************************************************************************)
RowsOver(Names) == Seq(UNION {[F -> Judging!Values] : F \in SUBSET Names})
RatesOver(Names) == UNION {[F -> Nat] : F \in SUBSET Names}
SchemaOver(Names) ==
    [types : UNION {[F -> SUBSET STRING] : F \in SUBSET Names}, required : SUBSET Names]
ThresholdsOver(Names) ==
    [min_rows : Nat, max_rows : SUBSET Nat, row_count_band : SUBSET BandOver,
     max_null_rate : RatesOver(Names), unique : SUBSET Names, required_fields : SUBSET Names]
TriedOver(Names) ==
    [fields : SUBSET Names, validation : ThresholdsOver(Names), output_schema : SUBSET SchemaOver(Names)]

LEMMA RowsAre ==
    ASSUME NEW Names, NEW rows \in RowsOver(Names)
    PROVE  /\ Len(rows) \in Nat /\ DOMAIN rows = 1..Len(rows)
           /\ \A i \in DOMAIN rows : \A f \in DOMAIN rows[i] : rows[i][f] \in Judging!Values
<1> DEFINE R == UNION {[F -> Judging!Values] : F \in SUBSET Names}
<1>1. \A entry \in R : \A f \in DOMAIN entry : entry[f] \in Judging!Values
  OBVIOUS
<1>2. rows \in Seq(R)
  BY DEF RowsOver
<1> HIDE DEF R
<1>3. Len(rows) \in Nat /\ DOMAIN rows = 1..Len(rows) /\ \A i \in DOMAIN rows : rows[i] \in R
  BY <1>2
<1> QED BY <1>1, <1>3

\* Within what is foreseen, null and unfilled are the same.
LEMMA NullIsUnfilled ==
    ASSUME NEW Names, NEW rows \in RowsOver(Names), ~Judging!Unforeseen(rows), NEW f
    PROVE  /\ Judging!Nulls(rows, f) = Judging!Unfilled(rows, f)
           /\ Judging!Unfilled(rows, f) \in 0..Len(rows)
           /\ Judging!Unfilled(rows, f) = 0 => \A i \in DOMAIN rows : Judging!Get(rows[i], f) # Judging!None
<1> DEFINE n == Len(rows)
           U == {i \in DOMAIN rows : Judging!Get(rows[i], f) \in {Judging!None, ""}}
           N == {i \in DOMAIN rows : Judging!IsNull(Judging!Get(rows[i], f))}
<1>0. n \in Nat /\ DOMAIN rows = 1..n
  BY RowsAre
<1>1. \A i \in DOMAIN rows : \A g \in DOMAIN rows[i] : rows[i][g] \notin {" ", "[]"}
  BY DEF Judging!Unforeseen
<1>2. ASSUME NEW i \in DOMAIN rows
      PROVE  Judging!IsNull(Judging!Get(rows[i], f)) <=> Judging!Get(rows[i], f) \in {Judging!None, ""}
  <2>1. Judging!Get(rows[i], f) \notin {" ", "[]"}
    BY <1>1 DEF Judging!Get, Judging!None
  <2> QED BY <2>1 DEF Judging!IsNull
<1>3. N = U
  BY <1>2
<1>4. Judging!Nulls(rows, f) = Cardinality(N) /\ Judging!Unfilled(rows, f) = Cardinality(U)
  BY CardinalityOfJudging DEF Judging!Nulls, Judging!Unfilled, Judging!Having
<1>5. U \subseteq 1..n
  BY <1>0
<1> HIDE DEF n, N
<1>6. IsFiniteSet(1..n) /\ Cardinality(1..n) = n
  <2>1. 1 \in Int /\ n \in Int
    BY <1>0
  <2>2. Cardinality(1..n) = IF 1 > n THEN 0 ELSE n - 1 + 1
    BY <2>1, FS_Interval
  <2>3. IsFiniteSet(1..n)
    BY <2>1, FS_Interval
  <2> QED BY <1>0, <2>2, <2>3
<1>7. IsFiniteSet(U) /\ Cardinality(U) \in Nat /\ Cardinality(U) <= n
  <2> HIDE DEF U
  <2> QED BY <1>5, <1>6, FS_Subset, FS_CardinalityType
<1>8. Cardinality(U) = 0 => \A i \in DOMAIN rows : Judging!Get(rows[i], f) # Judging!None
  <2> HAVE Cardinality(U) = 0
  <2>1. U = {}
    <3> HIDE DEF U
    <3> QED BY <1>7, FS_EmptySet
  <2> QED BY <2>1
<1> HIDE DEF U
<1> QED BY <1>0, <1>3, <1>4, <1>7, <1>8 DEF n

\* The rate, rounded.
RateOf(u, n) == (2 * 10000 * u + n) \div (2 * n)

LEMMA RateIs ==
    ASSUME NEW n \in Nat, n > 0, NEW u \in 0..n
    PROVE  /\ RateOf(u, n) \in Nat /\ u * 10000 <= (RateOf(u, n) + 500) * n /\ u * 10000 <= 10000 * n
           /\ n <= 20000 /\ RateOf(u, n) = 0 => u = 0
<1> DEFINE r == RateOf(u, n)
           a == 20000 * u + n
           b == 2 * n
<1>1. a \in Nat /\ b \in Nat /\ b > 0 /\ 2 * 10000 * u + n = a
  OBVIOUS
<1>2. r = a \div b
  BY <1>1 DEF RateOf
<1> HIDE DEF a, b, r
<1>3. r \in Nat /\ b * r <= a /\ a < b * r + b
  BY <1>1, <1>2
<1> DEFINE p == r * n
<1>4. p \in Nat /\ b * r = 2 * p /\ (r + 500) * n = p + 500 * n
  BY <1>3 DEF b
<1> HIDE DEF p
<1>5. 20000 * u + n < 2 * p + 2 * n
  BY <1>3, <1>4 DEF a, b
<1>6. u * 10000 <= p + 500 * n
  BY <1>4, <1>5
<1>7. n <= 20000 /\ r = 0 => u = 0
  <2> SUFFICES ASSUME n <= 20000, r = 0 PROVE u = 0
    OBVIOUS
  <2>1. p = 0
    BY DEF p
  <2>2. 20000 * u < n
    BY <1>5, <2>1
  <2> QED BY <2>2
<1> QED BY <1>3, <1>4, <1>6, <1>7 DEF r

LEMMA TypesAreSeen ==
    ASSUME NEW rows, NEW i \in DOMAIN rows, NEW f \in DOMAIN rows[i]
    PROVE  /\ Judging!JsonType(rows[i][f]) \in Judging!TypesSeen(rows, f) /\ f \in Judging!NamesOf(rows)
<1>1. f \in Judging!NamesOf(rows)
  BY DEF Judging!NamesOf
<1>2. i \in {j \in DOMAIN rows : f \in DOMAIN rows[j]}
  OBVIOUS
<1> QED BY <1>1, <1>2 DEF Judging!TypesSeen

\* The schema that a build derives.
LEMMA OutputSchemaFits ==
    ASSUME NEW Names, NEW rows \in RowsOver(Names), ~Judging!Unforeseen(rows), NEW declared
    PROVE  Judging!CheckSchema(rows, {Judging!InferOutputSchema(rows)}, declared)
<1> DEFINE schema == Judging!InferOutputSchema(rows)
           Types(f) == IF Judging!TypesSeen(rows, f) \subseteq {"null"} THEN {"string", "null"}
                       ELSE Judging!TypesSeen(rows, f) \ {"null"}
<1>1. /\ schema.types = [f \in Judging!NamesOf(rows) |-> Types(f)]
      /\ schema.required = {f \in Judging!NamesOf(rows) : Judging!Unfilled(rows, f) = 0}
  BY DEF Judging!InferOutputSchema
<1> HIDE DEF schema
<1>2. ASSUME NEW i \in DOMAIN rows PROVE Judging!FitsSchema(rows[i], schema)
  <2>1. ASSUME NEW f \in schema.required PROVE Judging!Get(rows[i], f) # Judging!None
    <3>1. Judging!Unfilled(rows, f) = 0
      BY <1>1
    <3> QED BY <3>1, NullIsUnfilled
  <2>2. ASSUME NEW f \in DOMAIN schema.types \cap DOMAIN rows[i]
               PROVE Judging!TypeFits(rows[i][f], schema.types[f])
    <3> DEFINE t == Judging!JsonType(rows[i][f])
               T == Judging!TypesSeen(rows, f)
    <3>1. t \in T /\ f \in Judging!NamesOf(rows)
      BY TypesAreSeen
    <3>2. "null" \in T => T = {"null"}
      BY <3>1 DEF Judging!Unforeseen
    <3>3. schema.types[f] = IF T \subseteq {"null"} THEN {"string", "null"} ELSE T \ {"null"}
      BY <1>1, <3>1
    <3> HIDE DEF T, t
    <3>4. t \in schema.types[f]
      BY <3>1, <3>2, <3>3
    <3> QED BY <3>4 DEF Judging!TypeFits, t
  <2> QED BY <2>1, <2>2 DEF Judging!FitsSchema
<1> QED BY <1>2 DEF Judging!CheckSchema, schema

\* And the other one.
LEMMA InferredFits ==
    ASSUME NEW Names, NEW rows \in RowsOver(Names)
    PROVE  Judging!InferredSchemaFits(rows)
<1> DEFINE schema == Judging!InferSchema(rows)
<1>1. /\ schema.types = [f \in Judging!NamesOf(rows) |-> Judging!MergeTypes(Judging!TypesSeen(rows, f))]
      /\ schema.required = {f \in Judging!NamesOf(rows) : Judging!Unfilled(rows, f) = 0}
  BY DEF Judging!InferSchema
<1> HIDE DEF schema
<1>0. Len(rows) \in Nat /\ DOMAIN rows = 1..Len(rows)
  BY RowsAre
<1>2. ASSUME NEW i \in DOMAIN rows PROVE Judging!FitsSchema(rows[i], schema)
  <2>1. ASSUME NEW f \in schema.required PROVE Judging!Get(rows[i], f) # Judging!None
    <3> DEFINE U == {j \in DOMAIN rows : Judging!Get(rows[j], f) \in {Judging!None, ""}}
    <3>1. Cardinality(U) = 0
      BY <1>1, CardinalityOfJudging DEF Judging!Unfilled, Judging!Having
    <3>2. IsFiniteSet(U)
      <4>1. U \subseteq 1..Len(rows)
        BY <1>0
      <4> HIDE DEF U
      <4> QED BY <1>0, <4>1, PartOfPlaces
    <3>3. U = {}
      <4> HIDE DEF U
      <4> QED BY <3>1, <3>2, FS_EmptySet
    <3> QED BY <3>3
  <2>2. ASSUME NEW f \in DOMAIN schema.types \cap DOMAIN rows[i]
               PROVE Judging!TypeFits(rows[i][f], schema.types[f])
    <3> DEFINE t == Judging!JsonType(rows[i][f])
               T == Judging!TypesSeen(rows, f)
    <3>1. t \in T /\ f \in Judging!NamesOf(rows)
      BY TypesAreSeen
    <3>2. schema.types[f] = Judging!MergeTypes(T)
      BY <1>1, <3>1
    <3> HIDE DEF T, t
    <3>3. t \in schema.types[f] \/ (t = "integer" /\ "number" \in schema.types[f])
      BY <3>1, <3>2 DEF Judging!MergeTypes
    <3> QED BY <3>3 DEF Judging!TypeFits, t
  <2> QED BY <2>1, <2>2 DEF Judging!FitsSchema
<1> QED BY <1>2 DEF Judging!CheckSchema, Judging!InferredSchemaFits, schema

\* The thresholds that a build derives.
Meets(rows, v) ==
    /\ Judging!MinRows(rows, v) /\ Judging!MaxRows(rows, v) /\ Judging!RequiredFields(rows, v)
    /\ Judging!NullRates(rows, v) /\ Judging!Unique(rows, v)

Derived(v, rows) == Judging!DeriveValidation(v, TRUE, Len(rows), rows)

LEMMA ThresholdsHold ==
    ASSUME NEW Names, NEW rows \in RowsOver(Names), ~Judging!Unforeseen(rows), rows # <<>>, Len(rows) <= 20000,
           NEW v \in ThresholdsOver(Names),
           Meets(rows, v)
    PROVE  Meets(rows, Derived(v, rows))
<1> DEFINE n == Len(rows)
           w == Derived(v, rows)
           Rate(f) == Judging!MeasuredNullRate(rows, f)
           minimum == IF v.min_rows = Judging!DefaultValidation.min_rows THEN Judging!Half(n) ELSE v.min_rows
           maximum == IF v.max_rows = {} THEN {Judging!Threefold(n)} ELSE v.max_rows
           rates == IF DOMAIN v.max_null_rate = {}
                      THEN [f \in Judging!NamesOf(rows) |-> Judging!WithHeadroom(Rate(f))] ELSE v.max_null_rate
           required == IF v.required_fields = {} THEN Judging!Filled(rows) ELSE v.required_fields
<1>1. n \in Nat /\ n > 0 /\ DOMAIN rows = 1..n
  BY RowsAre
<1>2. ASSUME NEW f
      PROVE  /\ Judging!Nulls(rows, f) \in 0..n /\ Rate(f) \in Nat
             /\ Judging!Nulls(rows, f) * 10000 <= (Rate(f) + 500) * n
             /\ Judging!Nulls(rows, f) * 10000 <= 10000 * n
             /\ Rate(f) = 0 => Judging!Nulls(rows, f) = 0
  <2> DEFINE u == Judging!Unfilled(rows, f)
  <2>1. Judging!Nulls(rows, f) = u /\ u \in 0..n
    BY NullIsUnfilled
  <2>2. Rate(f) = RateOf(u, n)
    BY DEF Judging!MeasuredNullRate, RateOf
  <2> HIDE DEF u, n, Rate
  <2>3. n <= 20000
    BY DEF n
  <2>4. /\ RateOf(u, n) \in Nat /\ u * 10000 <= (RateOf(u, n) + 500) * n /\ u * 10000 <= 10000 * n
        /\ n <= 20000 /\ RateOf(u, n) = 0 => u = 0
    BY <1>1, <2>1, RateIs
  <2> QED BY <2>1, <2>2, <2>3, <2>4
<1> HIDE DEF Rate
<1>3. /\ w.min_rows = minimum /\ w.max_rows = maximum /\ w.max_null_rate = rates
      /\ w.required_fields = required /\ w.unique = v.unique
  <2>1. w = [v EXCEPT !.min_rows = minimum, !.max_rows = maximum,
                  !.max_null_rate = rates, !.required_fields = required]
    BY <1>1 DEF Derived, Judging!DeriveValidation, Rate
  <2> HIDE DEF w, minimum, maximum, rates, required
  <2> QED BY <2>1 DEF ThresholdsOver
<1> HIDE DEF w, n
<1>4. Judging!MinRows(rows, w)
  <2>1. n >= v.min_rows
    BY DEF Meets, Judging!MinRows, n
  <2>2. n >= Judging!Half(n)
    BY <1>1 DEF Judging!Half, Judging!AtLeastOne
  <2> QED BY <1>3, <2>1, <2>2 DEF Judging!MinRows, n
<1>5. Judging!MaxRows(rows, w)
  <2>1. \A m \in v.max_rows : n <= m
    BY DEF Meets, Judging!MaxRows, n
  <2>2. n <= Judging!Threefold(n)
    BY <1>1 DEF Judging!Threefold, Judging!AtLeastOne
  <2>3. \A m \in maximum : n <= m
    BY <2>1, <2>2
  <2> HIDE DEF maximum
  <2> QED BY <1>3, <2>3 DEF Judging!MaxRows, n
<1>6. Judging!RequiredFields(rows, w)
  <2>1. \A f \in Judging!Filled(rows) : Judging!Nulls(rows, f) = 0
    BY <1>2 DEF Judging!Filled, Rate
  <2>2. \A f \in v.required_fields : Judging!Nulls(rows, f) = 0
    BY DEF Meets, Judging!RequiredFields
  <2>3. \A f \in required : Judging!Nulls(rows, f) = 0
    BY <2>1, <2>2
  <2> HIDE DEF required
  <2> QED BY <1>3, <2>3 DEF Judging!RequiredFields
<1>7. Judging!NullRates(rows, w)
  <2>1. ASSUME NEW f \in DOMAIN rates PROVE Judging!Nulls(rows, f) * 10000 <= rates[f] * n
    <3>1. CASE DOMAIN v.max_null_rate = {}
      <4>1. rates[f] = Judging!WithHeadroom(Rate(f))
        BY <2>1, <3>1
      <4>2. rates[f] = 10000 \/ rates[f] = Rate(f) + 500
        BY <4>1 DEF Judging!WithHeadroom
      <4> HIDE DEF rates
      <4> QED BY <1>2, <4>2
    <3>2. CASE DOMAIN v.max_null_rate # {}
      <4>1. rates = v.max_null_rate
        BY <3>2
      <4> HIDE DEF rates
      <4> QED BY <2>1, <4>1 DEF Meets, Judging!NullRates, n
    <3> QED BY <3>1, <3>2
  <2> HIDE DEF rates
  <2> QED BY <1>3, <2>1 DEF Judging!NullRates, n
<1>8. Judging!Unique(rows, w)
  BY <1>3 DEF Meets, Judging!Unique
<1>9. Meets(rows, w)
  BY <1>4, <1>5, <1>6, <1>7, <1>8 DEF Meets
<1> QED BY <1>9 DEF w

LEMMA ForeseenIsReported == \A rows : ~Judging!Unforeseen(rows) => ~(Len(rows) > SampleSize)
BY DEF Judging!Unforeseen

LEMMA ValidateTells == \A rows, script, told : Judging!Validate(rows, script, told) \in BOOLEAN
BY Zenon DEF Judging!Validate

LEMMA BandOfNone == \A n, band : Judging!RowCountBand(n, band, <<>>)
<1> TAKE n, band
<1>1. Judging!Window(<<>>, band) = <<>>
  BY DEF Judging!Window, Judging!FirstOf
<1> QED BY <1>1 DEF Judging!RowCountBand

\* Trials of any rows with any fields, and scripts with any thresholds.
LEMMA TrialsAreAccepted ==
    ASSUME SampleSize \in Nat, SampleSize <= 20000,
           NEW Names, NEW rows \in RowsOver(Names), NEW script \in TriedOver(Names)
    PROVE  Judging!BuiltScriptAcceptsTrial(rows, script)
<1> SUFFICES ASSUME Judging!Validate(rows, script, <<>>), ~Judging!Unforeseen(rows)
             PROVE  Judging!Validate(rows, Judging!BuiltScript(script, rows), <<>>)
  BY DEF Judging!BuiltScriptAcceptsTrial
<1> DEFINE n == Len(rows)
           v == script.validation
           built == Judging!BuiltScript(script, rows)
           w == Derived(v, rows)
           schema == IF script.output_schema = {} /\ rows # <<>> THEN {Judging!InferOutputSchema(rows)}
                     ELSE script.output_schema
<1>1. n \in Nat /\ n <= SampleSize /\ n <= 20000
  <2>1. n \in Nat
    BY RowsAre
  <2>2. ~(n > SampleSize)
    BY ForeseenIsReported
  <2> QED BY <2>1, <2>2
<1>2. Judging!Reported(rows) = rows
  <2>1. Judging!Reported(rows) = SubSeq(rows, 1, n)
    BY <1>1 DEF Judging!Reported, Judging!FirstOf
  <2>2. rows \in Seq(UNION {[F -> Judging!Values] : F \in SUBSET Names})
    BY DEF RowsOver
  <2> QED BY <2>1, <2>2
<1>3. built.validation = w /\ built.output_schema = schema /\ built.fields = script.fields
  <2>0. Judging!Validate(rows, script, <<>>) = TRUE
    BY ValidateTells
  <2>1. built = [script EXCEPT !.validation = w, !.output_schema = schema]
    <3> DEFINE ok == Judging!Validate(rows, script, <<>>)
               seen_ == Judging!Reported(rows)
               d == Judging!DeriveValidation(v, ok, n, seen_)
               o == IF script.output_schema = {} /\ rows # <<>> THEN {Judging!InferOutputSchema(seen_)}
                    ELSE script.output_schema
    <3>1. built = [script EXCEPT !.validation = d, !.output_schema = o]
      BY DEF Judging!BuiltScript
    <3>2. ok = TRUE /\ seen_ = rows
      BY <1>2, <2>0
    <3> HIDE DEF ok, seen_
    <3>3. d = w /\ o = schema
      BY <3>2 DEF Derived
    <3> HIDE DEF d, o, w, schema, built
    <3> QED BY <3>1, <3>3
  <2> HIDE DEF built, w, schema
  <2> QED BY <2>1 DEF TriedOver
<1>4. v \in ThresholdsOver(Names)
  BY DEF TriedOver
<1>5. Meets(rows, v) /\ Judging!CheckSchema(rows, script.output_schema, script.fields)
  BY DEF Judging!Validate, Meets
<1>6. Meets(rows, w)
  <2>1. CASE rows = <<>>
    <3>1. n = 0
      BY <2>1
    <3>2. w = v
      BY <3>1 DEF Derived, Judging!DeriveValidation
    <3> HIDE DEF w, v
    <3> QED BY <1>5, <3>2
  <2>2. CASE rows # <<>>
    <3> HIDE DEF v
    <3>1. Meets(rows, Derived(v, rows))
      BY <1>1, <1>4, <1>5, <2>2, ThresholdsHold
    <3> QED BY <3>1
  <2> HIDE DEF v, w
  <2> QED BY <2>1, <2>2
<1>7. Judging!CheckSchema(rows, schema, script.fields)
  <2>1. CASE script.output_schema = {} /\ rows # <<>>
    BY <2>1, OutputSchemaFits
  <2>2. CASE ~(script.output_schema = {} /\ rows # <<>>)
    BY <1>5, <2>2
  <2> QED BY <2>1, <2>2
<1> HIDE DEF built, w, schema
<1>8. \A band \in built.validation.row_count_band : Judging!RowCountBand(Len(rows), band, <<>>)
  BY BandOfNone
<1>9. Judging!Validate(rows, built, <<>>)
  BY <1>3, <1>6, <1>7, <1>8 DEF Judging!Validate, Meets
<1> QED BY <1>9 DEF built

-----------------------------------------------------------------------------
(***************************************************************************)
(* Pages.  Responses, dates of any numbers, ladders of any selectors, and  *)
(* numbers of any groups of digits.                                        *)
(***************************************************************************)
\* Every response is told.
LEMMA WallsAreTold ==
    ASSUME NEW r \in Reads!Response
    PROVE  Reads!WallIsTold(r)
<1> DEFINE told == Reads!DetectBlock(r)
           emptyPage == Reads!IsEmptyJsOnly(r)
           shell == Reads!IsChallengeShell(r)
<1>1. /\ r.status \in {"ok", "refused", "ambiguous", "server_error"}
             /\ r.text \in {"no page", "little", "some", "much"}
      /\ r.vendor \in BOOLEAN /\ r.captcha \in BOOLEAN /\ r.script \in BOOLEAN /\ r.noscript \in BOOLEAN
  BY DEF Reads!Response, Reads!Statuses, Reads!Texts
<1>2. Reads!None = "None"
  BY DEF Reads!None
<1>3. told = IF r.vendor /\ (Reads!Refusal(r) \/ r.captcha \/ shell) THEN "vendor"
             ELSE IF r.captcha /\ (Reads!Refusal(r) \/ emptyPage) THEN IF r.vendor THEN "vendor" ELSE "captcha"
             ELSE IF r.status = "refused" THEN IF r.vendor THEN "vendor" ELSE "status"
             ELSE IF r.status # "server_error" /\ emptyPage THEN "empty"
             ELSE IF r.status = "ambiguous" /\ (r.vendor \/ r.captcha)
                THEN IF r.vendor THEN "vendor" ELSE "unknown"
             ELSE "None"
  BY DEF Reads!DetectBlock, Reads!None
<1>4. Reads!Refusal(r) <=> r.status \in {"refused", "ambiguous"}
  BY DEF Reads!Refusal
<1>5. r.text = "much" => ~emptyPage /\ ~shell
  BY DEF Reads!IsEmptyJsOnly, Reads!IsChallengeShell
<1>6. r.text = "no page" => emptyPage
  BY DEF Reads!IsEmptyJsOnly
<1> HIDE DEF told, emptyPage, shell
<1>7. ~Reads!Refusal(r) /\ r.text = "much" /\ ~(r.vendor /\ r.captcha) => told = Reads!None
  BY <1>2, <1>3, <1>4, <1>5
<1>8. r.status = "refused" => told # Reads!None
  BY <1>2, <1>3
<1>9. r.vendor => told \in {Reads!None, "vendor", "empty"}
  BY <1>2, <1>3
<1>10. r.status = "ok" /\ r.text = "no page" => told # Reads!None
  BY <1>2, <1>3, <1>6
<1> QED BY <1>7, <1>8, <1>9, <1>10 DEF Reads!WallIsTold, told

\* What SelectInSeq picks.
LEMMA MinIs ==
    ASSUME NEW I \in SUBSET Nat, I # {}
    PROVE  Reads!Min(I) \in I /\ \A j \in I : Reads!Min(I) <= j
<1>1. \E m \in I : \A i \in I : m <= i
  BY LeastNumber
<1> QED BY <1>1 DEF Reads!Min

\* The formats of a date.
LEMMA FormatsAre ==
    /\ \A sep \in {"/", "-", "."} : /\ DOMAIN Reads!DateFormats(sep) \in {{1}, {1, 2}}
                                    /\ 1..Len(Reads!DateFormats(sep)) = DOMAIN Reads!DateFormats(sep)
                                    /\ Reads!DateFormats(sep)[1] = "day first"
    /\ DOMAIN Reads!DateFormats("/") = {1, 2} /\ Reads!DateFormats("/")[2] = "month first"
<1>1. Reads!DateFormats("/") = <<"day first", "month first">>
      /\ Reads!DateFormats("-") = <<"day first">> /\ Reads!DateFormats(".") = <<"day first">>
  BY DEF Reads!DateFormats
<1> DEFINE two == <<"day first", "month first">>
           one == <<"day first">>
<1>2. DOMAIN two = {1, 2} /\ 1..Len(two) = DOMAIN two /\ two[1] = "day first" /\ two[2] = "month first"
  OBVIOUS
<1>3. DOMAIN one = {1} /\ 1..Len(one) = DOMAIN one /\ one[1] = "day first"
  OBVIOUS
<1>4. Reads!DateFormats("/") = two /\ Reads!DateFormats("-") = one /\ Reads!DateFormats(".") = one
  BY <1>1
<1> HIDE DEF two, one
<1>5. ASSUME NEW sep \in {"/", "-", "."}
      PROVE  /\ DOMAIN Reads!DateFormats(sep) \in {{1}, {1, 2}}
             /\ 1..Len(Reads!DateFormats(sep)) = DOMAIN Reads!DateFormats(sep)
             /\ Reads!DateFormats(sep)[1] = "day first"
  <2>1. Reads!DateFormats(sep) \in {one, two}
    BY <1>4
  <2> QED BY <1>2, <1>3, <2>1
<1>6. DOMAIN Reads!DateFormats("/") = {1, 2} /\ Reads!DateFormats("/")[2] = "month first"
  BY <1>2, <1>4
<1> QED BY <1>5, <1>6

\* Which format a date is read with: the first that fits.
FormatFits(a, b, sep, i) == Reads!IsDate(Reads!AsDate(Reads!DateFormats(sep)[i], a, b))
FormatsThatFit(a, b, sep) == {i \in DOMAIN Reads!DateFormats(sep) : FormatFits(a, b, sep, i)}

LEMMA DateIsReadAs ==
    ASSUME NEW a \in Nat, NEW b \in Nat, NEW sep \in {"/", "-", "."},
           NEW i \in {1, 2}, i \in FormatsThatFit(a, b, sep), i = 1 \/ 1 \notin FormatsThatFit(a, b, sep)
    PROVE  Reads!ParseDate(a, b, sep) = Reads!AsDate(Reads!DateFormats(sep)[i], a, b)
<1> DEFINE I == FormatsThatFit(a, b, sep)
           first == IF I # {} THEN Reads!Min(I) ELSE 0
<1>0. 1..Len(Reads!DateFormats(sep)) = DOMAIN Reads!DateFormats(sep)
  BY FormatsAre
<1>1. Reads!ParseDate(a, b, sep)
        = IF first = 0 THEN <<0, 0>> ELSE Reads!AsDate(Reads!DateFormats(sep)[first], a, b)
  BY <1>0 DEF Reads!ParseDate, Reads!SelectInSeq, FormatsThatFit, FormatFits
<1>2. DOMAIN Reads!DateFormats(sep) \in {{1}, {1, 2}}
  BY FormatsAre
<1>3. I \in SUBSET {1, 2}
  BY <1>2 DEF FormatsThatFit
<1> HIDE DEF I
<1>4. I \in SUBSET Nat /\ I # {} /\ i \in I
  BY <1>3 DEF I
<1>5. Reads!Min(I) \in I /\ \A j \in I : Reads!Min(I) <= j
  BY <1>4, MinIs
<1>6. Reads!Min(I) = i
  <2>1. i = 1 \/ 1 \notin I
    BY DEF I
  <2> DEFINE m == Reads!Min(I)
  <2>2. m \in {1, 2} /\ m \in I /\ m <= i
    BY <1>3, <1>4, <1>5
  <2> HIDE DEF m
  <2>3. m = i
    <3>1. CASE i = 1
      BY <2>2, <3>1
    <3>2. CASE i = 2
      <4>1. 1 \notin I
        BY <2>1, <3>2
      <4>2. m # 1
        BY <2>2, <4>1
      <4> QED BY <2>2, <3>2, <4>2
    <3> QED BY <3>1, <3>2
  <2> QED BY <2>3 DEF m
<1>7. first = i /\ first # 0
  BY <1>4, <1>6
<1> HIDE DEF first
<1> QED BY <1>1, <1>7

\* Dates of any days and months.
LEMMA DatesAreRead ==
    ASSUME NEW a \in Nat, NEW b \in Nat
    PROVE  Reads!DateIsRead(a, b)
<1>1. Reads!AsDate("day first", a, b) = <<a, b>> /\ Reads!AsDate("month first", a, b) = <<b, a>>
  BY DEF Reads!AsDate
<1>2. ASSUME NEW sep \in {"/", "-", "."}
      PROVE  /\ 1 \in DOMAIN Reads!DateFormats(sep)
             /\ FormatFits(a, b, sep, 1) = Reads!IsDate(<<a, b>>)
             /\ Reads!AsDate(Reads!DateFormats(sep)[1], a, b) = <<a, b>>
  <2>1. DOMAIN Reads!DateFormats(sep) \in {{1}, {1, 2}} /\ Reads!DateFormats(sep)[1] = "day first"
    BY FormatsAre
  <2>2. 1 \in DOMAIN Reads!DateFormats(sep)
    BY <2>1
  <2> QED BY <1>1, <2>1, <2>2 DEF FormatFits
<1>3. ASSUME Reads!IsDate(<<a, b>>), NEW sep \in {"/", "-", "."} PROVE Reads!ParseDate(a, b, sep) = <<a, b>>
  <2>1. 1 \in FormatsThatFit(a, b, sep)
    BY <1>2, <1>3 DEF FormatsThatFit
  <2>2. Reads!ParseDate(a, b, sep) = Reads!AsDate(Reads!DateFormats(sep)[1], a, b)
    BY <2>1, DateIsReadAs
  <2> QED BY <1>2, <2>2
<1>4. ASSUME Reads!IsDate(<<b, a>>), a = b \/ b > 12 PROVE Reads!ParseDate(a, b, "/") = <<b, a>>
  <2>1. CASE a = b
    <3>1. Reads!ParseDate(a, b, "/") = <<a, b>>
      BY <1>3, <1>4, <2>1
    <3> QED BY <2>1, <3>1
  <2>2. CASE b > 12
    <3>1. ~Reads!IsDate(<<a, b>>)
      BY <2>2 DEF Reads!IsDate
    <3>2. 1 \notin FormatsThatFit(a, b, "/")
      BY <1>2, <3>1 DEF FormatsThatFit
    <3>3. 2 \in DOMAIN Reads!DateFormats("/") /\ Reads!AsDate(Reads!DateFormats("/")[2], a, b) = <<b, a>>
      <4>1. DOMAIN Reads!DateFormats("/") = {1, 2} /\ Reads!DateFormats("/")[2] = "month first"
        BY FormatsAre
      <4>2. 2 \in DOMAIN Reads!DateFormats("/")
        BY <4>1
      <4> QED BY <1>1, <4>1, <4>2
    <3>4. 2 \in FormatsThatFit(a, b, "/")
      BY <1>4, <3>3 DEF FormatsThatFit, FormatFits
    <3>5. Reads!ParseDate(a, b, "/") = Reads!AsDate(Reads!DateFormats("/")[2], a, b)
      BY <3>2, <3>4, DateIsReadAs
    <3> QED BY <3>3, <3>5
  <2> QED BY <1>4, <2>1, <2>2
<1> QED BY <1>3, <1>4 DEF Reads!DateIsRead

\* What a ladder of selectors keeps when another is tried: the ones before it.
Extends(out, next) == Len(out) <= Len(next) /\ \A i \in 1..Len(out) : next[i] = out[i]
EntriesOf(s) == {s[i] : i \in 1..Len(s)}

LEMMA ExtendsItself ==
    ASSUME NEW S, NEW s \in Seq(S)
    PROVE  Extends(s, s)
BY LenProperties DEF Extends

Tried(out, e) == StepOf("candidate", 0, out, e)
GrowsBy(S, out, e, next) ==
    /\ next \in Seq(S) /\ Extends(out, next)
    /\ EntriesOf(next) = EntriesOf(out) \cup ({e} \ {""})

LEMMA CandidateStep ==
    ASSUME NEW S, NEW out \in Seq(S), NEW e \in S
    PROVE  GrowsBy(S, out, e, Tried(out, e))
<1>1. Tried(out, e) = IF e = "" \/ Reads!Contains(out, e) THEN out ELSE Append(out, e)
  BY DEF Tried, StepOf
<1>2. Reads!Contains(out, e) <=> e \in EntriesOf(out)
  BY DEF Reads!Contains, EntriesOf
<1>3. Len(out) \in Nat
  OBVIOUS
<1>4. CASE e = "" \/ Reads!Contains(out, e)
  <2>1. Tried(out, e) = out
    BY <1>1, <1>4
  <2>2. Extends(out, out)
    BY <1>3 DEF Extends
  <2>3. EntriesOf(out) = EntriesOf(out) \cup ({e} \ {""})
    BY <1>2, <1>4
  <2> QED BY <2>1, <2>2, <2>3 DEF GrowsBy
<1>5. CASE ~(e = "" \/ Reads!Contains(out, e))
  <2> DEFINE next == Append(out, e)
  <2>1. Tried(out, e) = next
    BY <1>1, <1>5
  <2>2. next \in Seq(S) /\ Len(next) = Len(out) + 1 /\ next[Len(out) + 1] = e
        /\ \A i \in 1..Len(out) : next[i] = out[i]
    OBVIOUS
  <2>3. 1..Len(next) = (1..Len(out)) \cup {Len(out) + 1}
    BY <1>3, <2>2
  <2> HIDE DEF next
  <2>4. Extends(out, next)
    BY <1>3, <2>2 DEF Extends
  <2>5. EntriesOf(next) = EntriesOf(out) \cup {e}
    BY <2>2, <2>3 DEF EntriesOf
  <2>6. {e} \ {""} = {e}
    BY <1>5
  <2> QED BY <2>1, <2>2, <2>4, <2>5, <2>6 DEF GrowsBy
<1> QED BY <1>4, <1>5

\* Two ladders that begin alike.
LEMMA CandidatesGrow ==
    ASSUME NEW S, NEW s \in Seq(S), NEW t \in Seq(S), Extends(s, t), NEW F, NEW G,
           Unrolls("candidate", 0, <<>>, s, F), Unrolls("candidate", 0, <<>>, t, G)
    PROVE  /\ F[Len(s)] \in Seq(S) /\ G[Len(t)] \in Seq(S)
           /\ EntriesOf(F[Len(s)]) = EntriesOf(s) \ {""}
           /\ Extends(F[Len(s)], G[Len(t)])
<1> DEFINE n == Len(s)
           m == Len(t)
<1>1. n \in Nat /\ m \in Nat /\ n <= m /\ \A i \in 1..n : t[i] = s[i]
  BY DEF Extends
<1>2. \A i \in 1..n : s[i] \in S
  OBVIOUS
<1>3. \A i \in 1..m : t[i] \in S
  OBVIOUS
<1>4. F[0] = <<>> /\ \A k \in 1..n : F[k] = Tried(F[k - 1], s[k])
  BY DEF Unrolls, Tried
<1>5. G[0] = <<>> /\ \A k \in 1..m : G[k] = Tried(G[k - 1], t[k])
  BY DEF Unrolls, Tried
<1> HIDE DEF n, m
<1> DEFINE Same == {k \in 0..n : F[k] = G[k] /\ F[k] \in Seq(S) /\ EntriesOf(F[k]) = {s[i] : i \in 1..k} \ {""}}
<1>6. 0 \in Same
  <2>1. <<>> \in Seq(S)
    OBVIOUS
  <2>2. EntriesOf(<<>>) = {} /\ 1..0 = {}
    BY DEF EntriesOf
  <2>3. {s[i] : i \in 1..0} \ {""} = {}
    BY <2>2
  <2>4. F[0] = G[0] /\ F[0] \in Seq(S) /\ EntriesOf(F[0]) = {}
    BY <1>4, <1>5, <2>1, <2>2
  <2>5. 0 \in 0..n
    BY <1>1
  <2> QED BY <2>3, <2>4, <2>5
<1>7. ASSUME NEW k \in 0..(n - 1), k \in Same PROVE k + 1 \in Same
  <2>1. k + 1 \in 1..n /\ k + 1 \in 1..m /\ (k + 1) - 1 = k /\ k + 1 \in 0..n /\ k \in Nat
    BY <1>1
  <2>2. F[k + 1] = Tried(F[k], s[k + 1])
    BY <1>4, <2>1
  <2>3. G[k + 1] = Tried(G[k], t[k + 1])
    BY <1>5, <2>1
  <2>4. t[k + 1] = s[k + 1] /\ s[k + 1] \in S
    BY <1>1, <1>2, <2>1
  <2>5. F[k] = G[k] /\ F[k] \in Seq(S) /\ EntriesOf(F[k]) = {s[i] : i \in 1..k} \ {""}
    BY <1>7
  <2> HIDE DEF Same
  <2>6. /\ Tried(F[k], s[k + 1]) \in Seq(S)
        /\ Extends(F[k], Tried(F[k], s[k + 1]))
        /\ EntriesOf(Tried(F[k], s[k + 1])) = EntriesOf(F[k]) \cup ({s[k + 1]} \ {""})
    <3> DEFINE out == F[k]
               e == s[k + 1]
    <3>1. out \in Seq(S) /\ e \in S
      BY <2>4, <2>5
    <3> HIDE DEF out, e
    <3>2. GrowsBy(S, out, e, Tried(out, e))
      BY <3>1, CandidateStep
    <3> QED BY <3>2 DEF out, e, GrowsBy
  <2>7. 1..(k + 1) = (1..k) \cup {k + 1}
    BY <2>1
  <2>8. {s[i] : i \in 1..(k + 1)} = {s[i] : i \in 1..k} \cup {s[k + 1]}
    BY <2>7
  <2>9. EntriesOf(F[k + 1]) = {s[i] : i \in 1..(k + 1)} \ {""}
    BY <2>2, <2>5, <2>6, <2>8
  <2> QED BY <2>1, <2>2, <2>3, <2>4, <2>5, <2>6, <2>9 DEF Same
<1>8. n \in Same
  <2> HIDE DEF Same
  <2>1. \A k \in 0..n : k \in Same
    BY <1>1, <1>6, <1>7, UpToAll
  <2> QED BY <1>1, <2>1
<1> DEFINE first == F[n]
           On == {k \in 0..m : k >= n => G[k] \in Seq(S) /\ Extends(first, G[k])}
<1>9. first = G[n] /\ first \in Seq(S) /\ EntriesOf(first) = {s[i] : i \in 1..n} \ {""}
  BY <1>8
<1> HIDE DEF first, Same
<1>10. ASSUME NEW k \in 0..m, k = n PROVE k \in On
  <2>1. Extends(first, first)
    BY <1>9, ExtendsItself
  <2>2. G[k] = first
    BY <1>9, <1>10
  <2>3. G[k] \in Seq(S) /\ Extends(first, G[k])
    BY <1>9, <2>1, <2>2
  <2> QED BY <2>3
<1>11. 0 \in On
  <2>1. 0 \in 0..m
    BY <1>1
  <2>2. 0 >= n => 0 = n
    BY <1>1
  <2> QED BY <1>10, <2>1, <2>2
<1>12. ASSUME NEW k \in 0..(m - 1), k \in On PROVE k + 1 \in On
  <2>1. k + 1 \in 1..m /\ (k + 1) - 1 = k /\ k + 1 \in 0..m /\ k \in Nat
    BY <1>1
  <2>2. CASE k + 1 <= n
    <3>1. k + 1 >= n => k + 1 = n
      BY <1>1, <2>1, <2>2
    <3> QED BY <1>10, <2>1, <3>1
  <2>3. CASE k >= n
    <3>1. G[k] \in Seq(S) /\ Extends(first, G[k])
      BY <1>12, <2>3
    <3> HIDE DEF On
    <3>2. G[k + 1] = Tried(G[k], t[k + 1]) /\ t[k + 1] \in S
      BY <1>3, <1>5, <2>1
    <3>3. /\ Tried(G[k], t[k + 1]) \in Seq(S)
          /\ Extends(G[k], Tried(G[k], t[k + 1]))
          /\ EntriesOf(Tried(G[k], t[k + 1])) = EntriesOf(G[k]) \cup ({t[k + 1]} \ {""})
      <4> DEFINE out == G[k]
                 e == t[k + 1]
      <4>1. out \in Seq(S) /\ e \in S
        BY <3>1, <3>2
      <4> HIDE DEF out, e
      <4>2. GrowsBy(S, out, e, Tried(out, e))
        BY <4>1, CandidateStep
      <4> QED BY <4>2 DEF out, e, GrowsBy
    <3>4. G[k + 1] \in Seq(S) /\ Extends(G[k], G[k + 1])
      BY <3>2, <3>3
    <3>5. Extends(first, G[k + 1])
      <4>1. Len(first) \in Nat /\ Len(G[k]) \in Nat /\ Len(G[k + 1]) \in Nat
        <5>1. \A x \in Seq(S) : Len(x) \in Nat
          OBVIOUS
        <5> QED BY <1>9, <3>1, <3>4, <5>1
      <4>2. Len(first) <= Len(G[k]) /\ \A i \in 1..Len(first) : G[k][i] = first[i]
        BY <3>1 DEF Extends
      <4>3. Len(G[k]) <= Len(G[k + 1]) /\ \A i \in 1..Len(G[k]) : G[k + 1][i] = G[k][i]
        BY <3>4 DEF Extends
      <4>4. \A i \in 1..Len(first) : i \in 1..Len(G[k])
        BY <4>1, <4>2
      <4>5. Len(first) <= Len(G[k + 1])
        BY <4>1, <4>2, <4>3
      <4> QED BY <4>2, <4>3, <4>4, <4>5 DEF Extends
    <3> QED BY <2>1, <3>4, <3>5 DEF On
  <2> QED BY <1>1, <2>1, <2>2, <2>3
<1>13. m \in On
  <2> HIDE DEF On
  <2>1. \A k \in 0..m : k \in On
    BY <1>1, <1>11, <1>12, UpToAll
  <2> QED BY <1>1, <2>1
<1>14. G[m] \in Seq(S) /\ Extends(first, G[m])
  BY <1>1, <1>13
<1>15. EntriesOf(s) = {s[i] : i \in 1..n}
  BY DEF EntriesOf, n
<1> QED BY <1>9, <1>14, <1>15 DEF n, m, first

\* A selector that finds enough, and the place of the first that does.
Finds(found, minimum, x) == x \in DOMAIN found /\ found[x] >= minimum
FirstThatFinds(c, found, minimum) ==
    LET I == {i \in 1..Len(c) : Finds(found, minimum, c[i])}
    IN IF I # {} THEN Reads!Min(I) ELSE 0

LEMMA ResolvesTo ==
    ASSUME NEW primary, NEW fallbacks, NEW found, NEW minimum
    PROVE  Reads!ResolveFirst(primary, fallbacks, found, minimum)
             = FirstThatFinds(Reads!CandidatesOf(primary, fallbacks), found, minimum)
BY DEF Reads!ResolveFirst, Reads!SelectInSeq, FirstThatFinds, Finds

\* It stays the first when the ladder grows.
LEMMA FirstStays ==
    ASSUME NEW S, NEW c \in Seq(S), NEW d \in Seq(S), Extends(c, d), NEW found, NEW minimum
    PROVE  /\ FirstThatFinds(c, found, minimum) > 0
                => FirstThatFinds(d, found, minimum) = FirstThatFinds(c, found, minimum)
           /\ FirstThatFinds(c, found, minimum) > 0 <=> \E x \in EntriesOf(c) : Finds(found, minimum, x)
<1> DEFINE I == {i \in 1..Len(c) : Finds(found, minimum, c[i])}
           J == {i \in 1..Len(d) : Finds(found, minimum, d[i])}
<1>1. FirstThatFinds(c, found, minimum) = IF I # {} THEN Reads!Min(I) ELSE 0
  BY DEF FirstThatFinds
<1>2. FirstThatFinds(d, found, minimum) = IF J # {} THEN Reads!Min(J) ELSE 0
  BY DEF FirstThatFinds
<1>3. Len(c) \in Nat /\ Len(d) \in Nat /\ Len(c) <= Len(d) /\ \A i \in 1..Len(c) : d[i] = c[i]
  BY DEF Extends
<1>4. I \subseteq 1..Len(c) /\ J \subseteq 1..Len(d)
  OBVIOUS
<1>5. \A i \in 1..Len(c) : i \in J <=> i \in I
  <2>1. \A i \in 1..Len(c) : i \in 1..Len(d)
    BY <1>3
  <2> QED BY <1>3, <2>1
<1>6. I # {} <=> \E x \in EntriesOf(c) : Finds(found, minimum, x)
  BY DEF EntriesOf
<1> HIDE DEF I, J
<1>7. I \in SUBSET Nat /\ J \in SUBSET Nat /\ \A i \in I : i > 0
  BY <1>3, <1>4
<1>8. CASE I = {}
  <2>1. FirstThatFinds(c, found, minimum) = 0
    BY <1>1, <1>8
  <2> QED BY <1>6, <1>8, <2>1
<1>9. CASE I # {}
  <2>1. Reads!Min(I) \in I /\ \A j \in I : Reads!Min(I) <= j
    BY <1>7, <1>9, MinIs
  <2> DEFINE i == Reads!Min(I)
  <2>2. i \in I /\ i \in Nat /\ i > 0 /\ i <= Len(c) /\ i \in 1..Len(c)
    BY <1>3, <1>4, <1>7, <2>1
  <2>3. J # {} /\ i \in J
    BY <1>5, <2>2
  <2>4. Reads!Min(J) \in J /\ \A j \in J : Reads!Min(J) <= j
    BY <1>7, <2>3, MinIs
  <2> DEFINE j == Reads!Min(J)
  <2>5. j \in J /\ j <= i /\ j \in 1..Len(d)
    BY <1>4, <2>3, <2>4
  <2> HIDE DEF j
  <2>6. j \in 1..Len(c)
    BY <1>3, <2>2, <2>5
  <2>7. i <= j
    BY <1>5, <2>1, <2>5, <2>6
  <2> HIDE DEF i
  <2>8. j = i
    BY <2>2, <2>5, <2>6, <2>7
  <2>9. FirstThatFinds(c, found, minimum) = i
    BY <1>1, <1>9 DEF i
  <2>10. FirstThatFinds(d, found, minimum) = j
    BY <1>2, <2>3 DEF j
  <2> QED BY <1>6, <1>9, <2>2, <2>8, <2>9, <2>10
<1> QED BY <1>8, <1>9

\* Selectors in a row.
Prepended(x, s) == <<x>> \o s

LEMMA PrependedIs ==
    ASSUME NEW S, NEW x \in S, NEW s \in Seq(S)
    PROVE  /\ Prepended(x, s) \in Seq(S) /\ Len(Prepended(x, s)) = Len(s) + 1
           /\ Prepended(x, s)[1] = x /\ \A i \in 1..Len(s) : Prepended(x, s)[i + 1] = s[i]
<1> DEFINE one == <<x>>
<1>1. one \in Seq(S) /\ Len(one) = 1 /\ one[1] = x
  OBVIOUS
<1>2. Prepended(x, s) = one \o s
  BY DEF Prepended
<1> HIDE DEF one
<1> DEFINE both == one \o s
<1>3. /\ both \in Seq(S) /\ Len(both) = Len(one) + Len(s)
      /\ \A i \in 1..Len(both) : both[i] = IF i <= Len(one) THEN one[i] ELSE s[i - Len(one)]
  BY <1>1, ConcatProperties
<1> HIDE DEF both
<1>4. Len(s) \in Nat /\ Len(both) = Len(s) + 1
  BY <1>1, <1>3
<1>5. both[1] = x
  <2>1. 1 \in 1..Len(both) /\ 1 <= Len(one)
    BY <1>1, <1>4
  <2> QED BY <1>1, <1>3, <2>1
<1>6. ASSUME NEW i \in 1..Len(s) PROVE both[i + 1] = s[i]
  <2>1. i + 1 \in 1..Len(both) /\ ~(i + 1 <= Len(one)) /\ (i + 1) - Len(one) = i
    BY <1>1, <1>4
  <2> QED BY <1>3, <2>1
<1> QED BY <1>2, <1>3, <1>4, <1>5, <1>6 DEF both

LEMMA PrependedExtends ==
    ASSUME NEW S, NEW x \in S, NEW s \in Seq(S), NEW t \in Seq(S), Extends(s, t)
    PROVE  Extends(Prepended(x, s), Prepended(x, t))
<1> DEFINE a == Prepended(x, s)
           b == Prepended(x, t)
<1>1. a \in Seq(S) /\ Len(a) = Len(s) + 1 /\ a[1] = x /\ \A i \in 1..Len(s) : a[i + 1] = s[i]
  BY PrependedIs
<1>2. b \in Seq(S) /\ Len(b) = Len(t) + 1 /\ b[1] = x /\ \A i \in 1..Len(t) : b[i + 1] = t[i]
  BY PrependedIs
<1>3. Len(s) \in Nat /\ Len(t) \in Nat /\ Len(s) <= Len(t) /\ \A i \in 1..Len(s) : t[i] = s[i]
  BY DEF Extends
<1> HIDE DEF a, b
<1>4. ASSUME NEW i \in 1..Len(a) PROVE b[i] = a[i]
  <2>1. CASE i = 1
    BY <1>1, <1>2, <2>1
  <2>2. CASE i # 1
    <3>1. i - 1 \in 1..Len(s) /\ i - 1 \in 1..Len(t) /\ (i - 1) + 1 = i
      BY <1>1, <1>3, <2>2
    <3>2. a[(i - 1) + 1] = s[i - 1] /\ b[(i - 1) + 1] = t[i - 1] /\ t[i - 1] = s[i - 1]
      BY <1>1, <1>2, <1>3, <3>1
    <3> QED BY <3>1, <3>2
  <2> QED BY <2>1, <2>2
<1>5. Len(a) <= Len(b)
  BY <1>1, <1>2, <1>3
<1>6. Extends(a, b)
  BY <1>4, <1>5 DEF Extends
<1> QED BY <1>6 DEF a, b

LEMMA ConcatExtends ==
    ASSUME NEW S, NEW s \in Seq(S), NEW more \in Seq(S)
    PROVE  s \o more \in Seq(S) /\ Extends(s, s \o more)
<1> DEFINE t == s \o more
<1>1. /\ t \in Seq(S) /\ Len(t) = Len(s) + Len(more)
      /\ \A i \in 1..Len(t) : t[i] = IF i <= Len(s) THEN s[i] ELSE more[i - Len(s)]
  BY ConcatProperties
<1> HIDE DEF t
<1>2. Len(s) \in Nat /\ Len(more) \in Nat
  OBVIOUS
<1>3. \A i \in 1..Len(s) : i \in 1..Len(t) /\ i <= Len(s)
  BY <1>1, <1>2
<1>4. Len(s) <= Len(t)
  BY <1>1, <1>2
<1>5. Extends(s, t)
  BY <1>1, <1>3, <1>4 DEF Extends
<1> QED BY <1>1, <1>5 DEF t

\* The fold over a row of selectors.
LEMMA LadderUnrolls ==
    ASSUME NEW S, NEW primary \in S, NEW rest \in Seq(S)
    PROVE  \E F : Unrolls("candidate", 0, <<>>, Prepended(primary, rest), F)
                  /\ Reads!CandidatesOf(primary, rest) = F[Len(Prepended(primary, rest))]
<1> DEFINE s == Prepended(primary, rest)
<1>1. s \in Seq(S)
  BY PrependedIs
<1>2. s = <<primary>> \o rest
  BY DEF Prepended
<1> HIDE DEF s
<1>3. Len(s) \in Nat /\ DOMAIN s = 1..Len(s)
  BY <1>1
<1>4. \E F : Unrolls("candidate", 0, <<>>, s, F)
             /\ (s = <<primary>> \o rest => Reads!CandidatesOf(primary, rest) = F[Len(s)])
  BY <1>3, CandidatesUnroll
<1>5. \E F : Unrolls("candidate", 0, <<>>, s, F) /\ Reads!CandidatesOf(primary, rest) = F[Len(s)]
  BY <1>2, <1>4
<1> QED BY <1>5 DEF s

\* Ladders of any length.
LEMMA LaddersAreStable ==
    ASSUME NEW S, NEW primary \in S, NEW fallbacks \in Seq(S), NEW more \in Seq(S),
           NEW found, "" \notin DOMAIN found, NEW minimum
    PROVE  Reads!LadderIsStable(primary, fallbacks, more, found, minimum)
<1> DEFINE longer == fallbacks \o more
           s == Prepended(primary, fallbacks)
           t == Prepended(primary, longer)
           c == Reads!CandidatesOf(primary, fallbacks)
           d == Reads!CandidatesOf(primary, longer)
<1>1. longer \in Seq(S) /\ Extends(fallbacks, longer)
  BY ConcatExtends
<1>2. Reads!LadderIsStable(primary, fallbacks, more, found, minimum)
        <=> LET i == Reads!ResolveFirst(primary, fallbacks, found, minimum) IN
            /\ i > 0 => Reads!ResolveFirst(primary, longer, found, minimum) = i
            /\ i > 0 <=> \E x \in Reads!ToSet(s) \cap DOMAIN found : found[x] >= minimum
  BY DEF Reads!LadderIsStable, Prepended
<1> HIDE DEF longer
<1>3. s \in Seq(S) /\ t \in Seq(S)
  BY <1>1, PrependedIs
<1>5. Extends(s, t)
  BY <1>1, PrependedExtends
<1>6. \E F : Unrolls("candidate", 0, <<>>, s, F) /\ c = F[Len(s)]
  BY LadderUnrolls
<1>7. \E G : Unrolls("candidate", 0, <<>>, t, G) /\ d = G[Len(t)]
  BY <1>1, LadderUnrolls
<1>8. Reads!ResolveFirst(primary, fallbacks, found, minimum) = FirstThatFinds(c, found, minimum)
  BY ResolvesTo
<1>9. Reads!ResolveFirst(primary, longer, found, minimum) = FirstThatFinds(d, found, minimum)
  BY ResolvesTo
<1> HIDE DEF s, t, c, d
<1>10. Reads!ToSet(s) = EntriesOf(s)
  <2>1. Reads!ToSet(s) = {s[i] : i \in DOMAIN s}
    BY DEF Reads!ToSet
  <2>3. DOMAIN s = 1..Len(s)
    BY <1>3, LenProperties
  <2> QED BY <2>1, <2>3 DEF EntriesOf
<1>13. PICK F : Unrolls("candidate", 0, <<>>, s, F) /\ c = F[Len(s)]
  BY <1>6
<1>14. PICK G : Unrolls("candidate", 0, <<>>, t, G) /\ d = G[Len(t)]
  BY <1>7
<1>15. /\ F[Len(s)] \in Seq(S) /\ G[Len(t)] \in Seq(S)
       /\ EntriesOf(F[Len(s)]) = EntriesOf(s) \ {""}
       /\ Extends(F[Len(s)], G[Len(t)])
  BY <1>5, <1>3, <1>13, <1>14, CandidatesGrow
<1>16. c \in Seq(S) /\ d \in Seq(S) /\ EntriesOf(c) = EntriesOf(s) \ {""} /\ Extends(c, d)
  BY <1>13, <1>14, <1>15
<1>17. /\ FirstThatFinds(c, found, minimum) > 0
            => FirstThatFinds(d, found, minimum) = FirstThatFinds(c, found, minimum)
       /\ FirstThatFinds(c, found, minimum) > 0 <=> \E x \in EntriesOf(c) : Finds(found, minimum, x)
  BY <1>16, FirstStays
<1>18. (\E x \in EntriesOf(c) : Finds(found, minimum, x))
         <=> \E x \in Reads!ToSet(s) \cap DOMAIN found : found[x] >= minimum
  BY <1>10, <1>16 DEF Finds
<1> QED BY <1>8, <1>9, <1>2, <1>17, <1>18

\* A number: groups of digits, and how many have a separator before them.
Group == [sep : {"none", "point", "comma", "space"}, width : Nat]
PlacesOf(t, sep) == {i \in DOMAIN t : t[i].sep = sep}

GroupSeqs == Seq(Group)

LEMMA GroupsAre ==
    ASSUME NEW t \in GroupSeqs
    PROVE  /\ Len(t) \in Nat /\ DOMAIN t = 1..Len(t)
           /\ \A i \in 1..Len(t) : t[i] \in Group /\ t[i].width \in Nat
<1>1. t \in Seq(Group)
  BY DEF GroupSeqs
<1>2. Len(t) \in Nat /\ DOMAIN t = 1..Len(t)
  BY <1>1, LenProperties
<1>3. \A i \in 1..Len(t) : t[i] \in Group
  BY <1>1
<1>4. \A g \in Group : g.width \in Nat
  BY DEF Group
<1> QED BY <1>2, <1>3, <1>4

LEMMA NoGroups == <<>> \in GroupSeqs /\ Len(<<>>) = 0
BY DEF GroupSeqs

LEMMA GroupAppended ==
    ASSUME NEW out \in GroupSeqs, NEW g \in Group
    PROVE  /\ Append(out, g) \in GroupSeqs /\ Len(Append(out, g)) = Len(out) + 1
           /\ Append(out, g)[Len(out) + 1] = g /\ \A i \in 1..Len(out) : Append(out, g)[i] = out[i]
<1>1. out \in Seq(Group)
  BY DEF GroupSeqs
<1> DEFINE next == Append(out, g)
<1>2. next \in Seq(Group) /\ Len(next) = Len(out) + 1 /\ next[Len(out) + 1] = g
      /\ \A i \in 1..Len(out) : next[i] = out[i]
  BY <1>1
<1> QED BY <1>2 DEF GroupSeqs

LEMMA SameGroups ==
    ASSUME NEW s \in GroupSeqs, NEW t \in GroupSeqs, Len(s) = Len(t), \A i \in 1..Len(s) : s[i] = t[i]
    PROVE  s = t
<1>1. s \in Seq(Group) /\ t \in Seq(Group)
  BY DEF GroupSeqs
<1> QED BY <1>1

LEMMA FirstGroup ==
    ASSUME NEW g \in Group
    PROVE  Append(<<>>, g) \in GroupSeqs /\ Len(Append(<<>>, g)) = 1 /\ Append(<<>>, g)[1] = g
<1> DEFINE r == <<g>>
<1>1. Append(<<>>, g) = r
  OBVIOUS
<1>2. r \in Seq(Group) /\ Len(r) = 1 /\ r[1] = g
  OBVIOUS
<1> HIDE DEF r
<1> QED BY <1>1, <1>2 DEF GroupSeqs

LEMMA CardinalityOfReads == \A S : Reads!Cardinality(S) = Cardinality(S)
BY DEF Reads!Cardinality, Cardinality

LEMMA CountIs ==
    ASSUME NEW t \in GroupSeqs, NEW sep
    PROVE  /\ Reads!Count(t, sep) \in Nat
           /\ Reads!Count(t, sep) = 0 <=> PlacesOf(t, sep) = {}
           /\ \A i : PlacesOf(t, sep) = {i} => Reads!Count(t, sep) = 1
<1> DEFINE P == PlacesOf(t, sep)
           n == Len(t)
<1>1. n \in Nat /\ DOMAIN t = 1..n
  BY GroupsAre
<1>2. Reads!Count(t, sep) = Cardinality(P)
  BY CardinalityOfReads DEF Reads!Count, PlacesOf
<1>3. P \subseteq 1..n
  BY <1>1 DEF PlacesOf
<1> HIDE DEF P, n
<1>4. IsFiniteSet(P) /\ Cardinality(P) \in Nat
  BY <1>1, <1>3, PartOfPlaces
<1>5. Cardinality(P) = 0 <=> P = {}
  BY <1>4, FS_EmptySet
<1>6. \A i : P = {i} => Cardinality(P) = 1
  BY FS_Singleton
<1> QED BY <1>2, <1>4, <1>5, <1>6 DEF P

\* What is left of a number without its spaces, as a country writes it.
WrittenAs(t, group, point, decimals) ==
    /\ Len(t) >= 1 /\ t[1].sep = "none"
    /\ decimals = 0 => \A i \in 2..Len(t) : t[i].sep = group /\ t[i].width = 3
    /\ decimals > 0 => /\ Len(t) >= 2 /\ t[Len(t)].sep = point /\ t[Len(t)].width = decimals
                       /\ \A i \in 2..(Len(t) - 1) : t[i].sep = group /\ t[i].width = 3

\* _strip_grouping with and without triples.
StripAny(token) == Reads!StripGrouping(token, TRUE)
StripStrict(token) == Reads!StripGrouping(token, FALSE)

LEMMA WrittenIsRead ==
    ASSUME NEW t \in GroupSeqs, NEW group \in {"point", "comma"}, NEW point \in {"point", "comma"}, group # point,
           NEW decimals \in {0, 1, 2}, WrittenAs(t, group, point, decimals),
           NEW token, Reads!Squeezed(token) = t
    PROVE  /\ Reads!ParseNumber(token) = decimals /\ StripAny(token) = {decimals}
           /\ decimals > 0 => StripStrict(token) = {decimals}
<1> DEFINE n == Len(t)
           w == t[n].width
           dots == Reads!Count(t, "point")
           commas == Reads!Count(t, "comma")
           alike == Reads!Count(t, t[n].sep)
<1>1. n \in Nat /\ DOMAIN t = 1..n /\ n >= 1
  BY GroupsAre DEF WrittenAs
<1>2. Reads!Last(t) = t[n]
  BY DEF Reads!Last
<1>3. Reads!ParseNumber(token) = IF n > 1 /\ w \in {1, 2} THEN w ELSE 0
  BY <1>2 DEF Reads!ParseNumber
<1>4. StripAny(token)
        = IF dots > 0 /\ commas > 0 THEN IF alike > 1 THEN {} ELSE {w}
          ELSE IF commas > 0 THEN IF commas > 1 \/ w = 3 THEN {0} ELSE {w}
          ELSE IF dots > 0 THEN IF dots > 1 \/ w = 3 THEN {0} ELSE {w} ELSE {0}
  BY <1>2 DEF StripAny, Reads!StripGrouping
<1>5. StripStrict(token)
        = IF dots > 0 /\ commas > 0 THEN IF alike > 1 THEN {} ELSE {w}
          ELSE IF commas > 0 THEN IF commas > 1 \/ w = 3 THEN {0} ELSE {w}
          ELSE IF dots > 0 THEN IF dots > 1 THEN {0} ELSE {w} ELSE {0}
  BY <1>2 DEF StripStrict, Reads!StripGrouping
<1>6. dots \in Nat /\ (dots = 0 <=> PlacesOf(t, "point") = {})
      /\ \A i : PlacesOf(t, "point") = {i} => dots = 1
  BY CountIs
<1>7. commas \in Nat /\ (commas = 0 <=> PlacesOf(t, "comma") = {})
      /\ \A i : PlacesOf(t, "comma") = {i} => commas = 1
  BY CountIs
<1>8. t[1].sep = "none" /\ "none" # "point" /\ "none" # "comma" /\ "point" # "comma"
  BY DEF WrittenAs
<1>9. \A sep : PlacesOf(t, sep) = {i \in 1..n : t[i].sep = sep}
  BY <1>1 DEF PlacesOf
<1>10. CASE decimals = 0
  <2>1. \A i \in 2..n : t[i].sep = group /\ t[i].width = 3
    BY <1>10 DEF WrittenAs
  <2>2. n > 1 => n \in 2..n
    BY <1>1
  <2>3. n > 1 => w = 3 /\ t[n].sep = group
    BY <2>1, <2>2
  <2>4. \A i \in 1..n : i = 1 \/ i \in 2..n
    BY <1>1
  <2>5. PlacesOf(t, point) = {}
    BY <1>8, <1>9, <2>1, <2>4
  <2>6. n = 1 => PlacesOf(t, group) = {}
    <3> HAVE n = 1
    <3>1. \A i \in 1..n : i = 1
      BY <1>1
    <3> QED BY <1>8, <1>9, <3>1
  <2>7. n > 1 => PlacesOf(t, group) # {}
    <3> HAVE n > 1
    <3>1. n \in 1..n
      BY <1>1
    <3> QED BY <1>9, <2>3, <3>1
  <2> HIDE DEF n, w, dots, commas, alike
  <2>8. Reads!ParseNumber(token) = 0
    BY <1>1, <1>3, <2>3
  <2>9. StripAny(token) = {0}
    <3>1. CASE group = "point"
      <4>1. commas = 0
        BY <1>7, <2>5, <3>1
      <4>2. dots = 0 \/ (dots > 0 /\ w = 3)
        BY <1>1, <1>6, <2>3, <2>6, <3>1
      <4> QED BY <1>4, <1>6, <4>1, <4>2
    <3>2. CASE group = "comma"
      <4>1. dots = 0
        BY <1>6, <2>5, <3>2
      <4>2. commas = 0 \/ (commas > 0 /\ w = 3)
        BY <1>1, <1>7, <2>3, <2>6, <3>2
      <4> QED BY <1>4, <1>7, <4>1, <4>2
    <3> QED BY <3>1, <3>2
  <2> QED BY <1>10, <2>8, <2>9
<1>11. CASE decimals \in {1, 2}
  <2>1. n >= 2 /\ t[n].sep = point /\ w = decimals /\ \A i \in 2..(n - 1) : t[i].sep = group
    BY <1>11 DEF WrittenAs
  <2>2. \A i \in 1..n : i = 1 \/ i \in 2..(n - 1) \/ i = n
    <3> HIDE DEF n
    <3> QED BY <1>1
  <2>3. PlacesOf(t, point) = {n}
    <3>1. n \in 1..n
      BY <1>1
    <3> QED BY <1>8, <1>9, <2>1, <2>2, <3>1
  <2>4. alike = Reads!Count(t, point)
    BY <2>1
  <2> HIDE DEF n, w, alike, dots, commas
  <2>5. Reads!ParseNumber(token) = decimals
    BY <1>1, <1>3, <1>11, <2>1
  <2>6. StripAny(token) = {decimals} /\ StripStrict(token) = {decimals}
    <3>1. CASE point = "point"
      <4>1. dots = 1
        BY <1>6, <2>3, <3>1
      <4>2. alike = 1
        BY <2>4, <3>1, <4>1 DEF dots
      <4> QED BY <1>4, <1>5, <1>7, <1>11, <2>1, <4>1, <4>2
    <3>2. CASE point = "comma"
      <4>1. commas = 1
        BY <1>7, <2>3, <3>2
      <4>2. alike = 1
        BY <2>4, <3>2, <4>1 DEF commas
      <4> QED BY <1>4, <1>5, <1>6, <1>11, <2>1, <4>1, <4>2
    <3> QED BY <3>1, <3>2
  <2> QED BY <2>5, <2>6
<1> QED BY <1>10, <1>11

\* How a group is taken.
LEMMA JoinedOther ==
    ASSUME NEW out, NEW g, g.sep # "space"
    PROVE  Reads!Joined(out, g) = Append(out, g)
BY DEF Reads!Joined

\* A first group, as it grows.
Single(out) == out \in GroupSeqs /\ Len(out) = 1 /\ out[1].sep = "none"

LEMMA JoinedSpace ==
    ASSUME NEW out, Single(out), NEW g \in Group, g.sep = "space"
    PROVE  Single(Reads!Joined(out, g))
<1>1. out \in GroupSeqs /\ Len(out) = 1 /\ out[1].sep = "none" /\ out[1] \in Group
  <2>1. out \in GroupSeqs /\ Len(out) = 1 /\ out[1].sep = "none"
    BY DEF Single
  <2>2. \A i \in 1..Len(out) : out[i] \in Group
    BY <2>1, GroupsAre
  <2>3. 1 \in 1..Len(out)
    BY <2>1
  <2> QED BY <2>1, <2>2, <2>3
<1> DEFINE e == [Reads!Last(out) EXCEPT !.width = @ + g.width]
           before == Reads!Front(out)
<1>2. Reads!Joined(out, g) = Append(before, e)
  BY DEF Reads!Joined
<1>3. before = <<>>
  BY <1>1 DEF Reads!Front
<1>4. e \in Group /\ e.sep = "none"
  <2>1. Reads!Last(out) = out[1]
    BY <1>1 DEF Reads!Last
  <2>2. out[1].width \in Nat /\ g.width \in Nat
    BY <1>1 DEF Group
  <2>3. out[1].width + g.width \in Nat
    BY <2>2
  <2> QED BY <1>1, <2>1, <2>3 DEF Group
<1> HIDE DEF e, before
<1> DEFINE r == Append(<<>>, e)
<1>6. r \in GroupSeqs /\ Len(r) = 1 /\ r[1] = e
  BY <1>4, FirstGroup
<1>7. Reads!Joined(out, g) = r
  BY <1>2, <1>3
<1> HIDE DEF r
<1> QED BY <1>4, <1>6, <1>7 DEF Single

\* Groups without spaces are kept as they are.
LEMMA SqueezedSame ==
    ASSUME NEW s \in GroupSeqs, \A i \in 1..Len(s) : s[i].sep # "space"
    PROVE  Reads!Squeezed(s) = s
<1> DEFINE n == Len(s)
<1>1. n \in Nat /\ DOMAIN s = 1..n
  BY GroupsAre
<1>2. PICK F : Unrolls("squeeze", 0, <<>>, s, F) /\ Reads!Squeezed(s) = F[n]
  BY <1>1, SqueezedUnrolls
<1>3. F[0] = <<>> /\ \A k \in 1..n : F[k] = Reads!Joined(F[k - 1], s[k])
  BY <1>2 DEF Unrolls, StepOf
<1>4. \A k \in 1..n : s[k] \in Group
  BY GroupsAre
<1>0. n = Len(s)
  OBVIOUS
<1> HIDE DEF n
<1> DEFINE Kept(out, k) == out \in GroupSeqs /\ Len(out) = k /\ \A i \in 1..k : out[i] = s[i]
           On == {k \in 0..n : Kept(F[k], k)}
<1>5. 0 \in On
  <2>1. \A i \in 1..0 : FALSE
    OBVIOUS
  <2>3. Kept(<<>>, 0)
    BY <2>1, NoGroups
  <2> HIDE DEF Kept
  <2> QED BY <1>1, <1>3, <2>3
<1>6. ASSUME NEW k \in 0..(n - 1), k \in On PROVE k + 1 \in On
  <2>1. k + 1 \in 1..n /\ (k + 1) - 1 = k /\ k + 1 \in 0..n /\ k \in Nat
    BY <1>1
  <2> DEFINE out == F[k]
             g == s[k + 1]
             next == Append(out, g)
  <2>2. out \in GroupSeqs /\ Len(out) = k /\ \A i \in 1..k : out[i] = s[i]
    BY <1>6
  <2>3. g \in Group /\ g.sep # "space"
    BY <1>0, <1>4, <2>1
  <2>4. F[k + 1] = next
    <3>1. F[k + 1] = Reads!Joined(out, g)
      BY <1>3, <2>1
    <3> HIDE DEF out, g
    <3> QED BY <2>3, <3>1, JoinedOther
  <2> HIDE DEF out, g, On, Kept
  <2>5. next \in GroupSeqs /\ Len(next) = k + 1 /\ next[k + 1] = g /\ \A i \in 1..k : next[i] = out[i]
    <3>1. /\ next \in GroupSeqs /\ Len(next) = Len(out) + 1
          /\ next[Len(out) + 1] = g /\ \A i \in 1..Len(out) : next[i] = out[i]
      BY <2>2, <2>3, GroupAppended
    <3> HIDE DEF next
    <3> QED BY <2>2, <3>1
  <2> HIDE DEF next
  <2>6. \A i \in 1..(k + 1) : i \in 1..k \/ i = k + 1
    BY <2>1
  <2>7. Kept(next, k + 1)
    BY <2>2, <2>5, <2>6 DEF Kept, g
  <2> QED BY <2>1, <2>4, <2>7 DEF On
<1>7. n \in On
  <2> HIDE DEF On
  <2>1. \A k \in 0..n : k \in On
    BY <1>1, <1>5, <1>6, UpToAll
  <2> QED BY <1>1, <2>1
<1> DEFINE t == F[n]
<1>8. t \in GroupSeqs /\ Len(t) = n /\ \A i \in 1..n : t[i] = s[i]
  BY <1>7
<1> HIDE DEF t
<1>9. t = s
  BY <1>0, <1>8, SameGroups
<1> QED BY <1>2, <1>9 DEF t

\* Groups with spaces before them become one, and the decimals stay apart.
LEMMA SqueezedSpaces ==
    ASSUME NEW s \in GroupSeqs, Len(s) >= 1, s[1].sep = "none", NEW m \in 1..Len(s), m >= Len(s) - 1,
           \A i \in 2..m : s[i].sep = "space", m < Len(s) => s[Len(s)].sep # "space"
    PROVE  /\ m = Len(s) => Single(Reads!Squeezed(s))
           /\ m < Len(s) => \E out : Single(out) /\ Reads!Squeezed(s) = Append(out, s[Len(s)])
<1> DEFINE n == Len(s)
<1>1. n \in Nat /\ DOMAIN s = 1..n /\ m \in Nat /\ m >= 1 /\ m <= n
  BY GroupsAre
<1>2. PICK F : Unrolls("squeeze", 0, <<>>, s, F) /\ Reads!Squeezed(s) = F[n]
  BY <1>1, SqueezedUnrolls
<1>3. F[0] = <<>> /\ \A k \in 1..n : F[k] = Reads!Joined(F[k - 1], s[k])
  BY <1>2 DEF Unrolls, StepOf
<1>4. \A k \in 1..n : s[k] \in Group
  BY GroupsAre
<1>0. n = Len(s)
  OBVIOUS
<1> HIDE DEF n
<1> DEFINE On == {k \in 0..m : k = 0 \/ Single(F[k])}
<1>5. 0 \in On
  BY <1>1
<1>6. ASSUME NEW k \in 0..(m - 1), k \in On PROVE k + 1 \in On
  <2>1. k + 1 \in 1..n /\ (k + 1) - 1 = k /\ k + 1 \in 0..m /\ k \in Nat
    BY <1>1
  <2> DEFINE out == F[k]
             g == s[k + 1]
  <2>2. F[k + 1] = Reads!Joined(out, g) /\ g \in Group
    BY <1>3, <1>4, <2>1
  <2>3. CASE k = 0
    <3>1. out = <<>> /\ g.sep = "none" /\ g = s[1]
      BY <1>3, <2>3
    <3> HIDE DEF out, g
    <3>2. F[k + 1] = Append(out, g)
      BY <2>2, <3>1, JoinedOther
    <3> DEFINE r == Append(<<>>, g)
    <3>3. Append(<<>>, g) = r
      OBVIOUS
    <3>4. r \in GroupSeqs /\ Len(r) = 1 /\ r[1] = g
      BY <2>2, FirstGroup
    <3> HIDE DEF r
    <3>5. Single(r)
      BY <3>1, <3>4 DEF Single
    <3> QED BY <2>1, <3>1, <3>2, <3>3, <3>5
  <2>4. CASE k # 0
    <3>1. Single(out)
      BY <1>6, <2>4
    <3>2. k + 1 \in 2..m
      BY <1>1, <2>1, <2>4
    <3>3. g.sep = "space"
      BY <3>2
    <3> HIDE DEF out, g
    <3>4. Single(Reads!Joined(out, g))
      BY <2>2, <3>1, <3>3, JoinedSpace
    <3> QED BY <2>1, <2>2, <3>4
  <2> QED BY <2>3, <2>4
<1>7. m \in On
  <2> HIDE DEF On
  <2>1. \A k \in 0..m : k \in On
    BY <1>1, <1>5, <1>6, UpToAll
  <2> QED BY <1>1, <2>1
<1>8. Single(F[m])
  BY <1>1, <1>7
<1>9. CASE m = n
  <2>1. Single(Reads!Squeezed(s))
    BY <1>2, <1>8, <1>9
  <2> QED BY <1>0, <1>9, <2>1
<1>10. CASE m < n
  <2>1. n \in 1..n /\ n - 1 = m
    BY <1>1, <1>10
  <2> DEFINE out == F[m]
             g == s[n]
  <2>2. F[n] = Reads!Joined(out, g)
    BY <1>3, <2>1
  <2>3. g.sep # "space" /\ Single(out)
    BY <1>0, <1>8, <1>10
  <2> HIDE DEF out, g
  <2>4. F[n] = Append(out, g)
    BY <2>2, <2>3, JoinedOther
  <2>5. Single(out) /\ Reads!Squeezed(s) = Append(out, g)
    BY <1>2, <2>3, <2>4
  <2> QED BY <1>0, <1>10, <2>5 DEF g
<1> QED BY <1>1, <1>9, <1>10

\* The digits of a number.
LEMMA WidthIsNat ==
    ASSUME NEW s \in GroupSeqs
    PROVE  Reads!Width(s) \in Nat
<1> DEFINE n == Len(s)
<1>1. n \in Nat /\ DOMAIN s = 1..n
  BY GroupsAre
<1>2. PICK F : Unrolls("width", 0, 0, s, F) /\ Reads!Width(s) = F[n]
  BY <1>1, WidthUnrolls
<1>3. F[0] = 0 /\ \A k \in 1..n : F[k] = F[k - 1] + s[k].width
  BY <1>2 DEF Unrolls, StepOf
<1>4. \A k \in 1..n : s[k].width \in Nat
  BY GroupsAre
<1> HIDE DEF n
<1> DEFINE On == {k \in 0..n : F[k] \in Nat}
<1>5. 0 \in On
  BY <1>1, <1>3
<1>6. ASSUME NEW k \in 0..(n - 1), k \in On PROVE k + 1 \in On
  <2>1. k + 1 \in 1..n /\ (k + 1) - 1 = k /\ k + 1 \in 0..n
    BY <1>1
  <2>2. F[k + 1] = F[k] + s[k + 1].width /\ F[k] \in Nat /\ s[k + 1].width \in Nat
    BY <1>3, <1>4, <1>6, <2>1
  <2>3. F[k + 1] \in Nat
    BY <2>2
  <2> QED BY <2>1, <2>3
<1>7. n \in On
  <2> HIDE DEF On
  <2>1. \A k \in 0..n : k \in On
    BY <1>1, <1>5, <1>6, UpToAll
  <2> QED BY <1>1, <2>1
<1> QED BY <1>2, <1>7

\* Groups of three, each behind the same separator.
Grouped(token, group, upto) == \A i \in 2..upto : token[i].sep = group /\ token[i].width = 3

LEMMA FrontIs ==
    ASSUME NEW t \in GroupSeqs, Len(t) >= 1
    PROVE  /\ Reads!Front(t) # <<>> => Len(t) >= 2
           /\ DOMAIN Reads!Front(t) = 1..(Len(t) - 1)
           /\ \A i \in 1..(Len(t) - 1) : Reads!Front(t)[i] = t[i]
<1> DEFINE n == Len(t)
           m == n - 1
           front == SubSeq(t, 1, m)
<1>1. n \in Nat /\ DOMAIN t = 1..n /\ n >= 1
  BY GroupsAre
<1>2. Reads!Front(t) = front
  BY DEF Reads!Front
<1>3. t \in Seq(Group) /\ n = Len(t)
  BY DEF GroupSeqs
<1> HIDE DEF n, front
<1>4. m \in Nat /\ m <= n
  BY <1>1
<1>5. 1 \in 1..(n + 1) /\ m \in 0..n
  BY <1>1, <1>4
<1>6. front \in Seq(Group) /\ Len(front) = m /\ \A i \in 1..m : front[i] = t[i]
  <2> HIDE DEF m
  <2>1. Len(front) = IF 1 <= m THEN m - 1 + 1 ELSE 0
    BY <1>3, <1>5, SubSeqProperties DEF front
  <2>2. front \in Seq(Group)
    BY <1>3, <1>5, SubSeqProperties DEF front
  <2>3. \A i \in 1..m - 1 + 1 : front[i] = t[1 + i - 1]
    BY <1>3, <1>5, SubSeqProperties DEF front
  <2>4. Len(front) = m
    BY <1>4, <2>1
  <2>5. ASSUME NEW i \in 1..m PROVE front[i] = t[i]
    <3>1. i \in 1..m - 1 + 1 /\ 1 + i - 1 = i
      BY <1>4
    <3> QED BY <2>3, <3>1
  <2> QED BY <2>2, <2>4, <2>5
<1>7. DOMAIN front = 1..m
  BY <1>6, LenProperties
<1>8. front # <<>> => n >= 2
  <2> SUFFICES ASSUME n < 2 PROVE front = <<>>
    BY <1>1
  <2>1. Len(front) = 0
    BY <1>1, <1>6
  <2> QED BY <1>6, <2>1, EmptySeq
<1> QED BY <1>2, <1>6, <1>7, <1>8 DEF n

\* What it is to be written so.
LEMMA WritesMeans ==
    ASSUME NEW token \in GroupSeqs, Len(token) >= 1, NEW group, NEW point, NEW decimals \in {0, 1, 2},
           Reads!Writes(group, point, decimals, token)
    PROVE  /\ decimals = 0 => Grouped(token, group, Len(token))
           /\ decimals > 0 => /\ Len(token) >= 2 /\ Grouped(token, group, Len(token) - 1)
                              /\ token[Len(token)].sep = point /\ token[Len(token)].width = decimals
<1> DEFINE n == Len(token)
           whole == IF decimals = 0 THEN token ELSE Reads!Front(token)
<1>1. n \in Nat /\ DOMAIN token = 1..n /\ n >= 1
  BY GroupsAre
<1>2. /\ Reads!Front(token) # <<>> => n >= 2
      /\ DOMAIN Reads!Front(token) = 1..(n - 1)
      /\ \A i \in 1..(n - 1) : Reads!Front(token)[i] = token[i]
  BY FrontIs
<1>3. /\ whole # <<>>
      /\ decimals > 0 => Reads!Last(token).sep = point /\ Reads!Last(token).width = decimals
      /\ \A i \in DOMAIN whole \ {1} : whole[i].sep = group /\ whole[i].width = 3
  BY DEF Reads!Writes
<1>4. Reads!Last(token) = token[n]
  BY DEF Reads!Last
<1>5. decimals = 0 => whole = token
  OBVIOUS
<1>6. decimals > 0 => whole = Reads!Front(token)
  OBVIOUS
<1> HIDE DEF whole, n
<1>7. ASSUME decimals = 0 PROVE Grouped(token, group, n)
  <2>1. \A i \in 2..n : i \in DOMAIN token \ {1}
    BY <1>1
  <2> QED BY <1>3, <1>5, <1>7, <2>1 DEF Grouped
<1>8. ASSUME decimals > 0 PROVE n >= 2 /\ Grouped(token, group, n - 1)
  <2>1. n >= 2
    BY <1>2, <1>3, <1>6, <1>8
  <2>2. \A i \in 2..(n - 1) : i \in (1..(n - 1)) \ {1} /\ i \in 1..(n - 1)
    BY <1>1
  <2>3. \A i \in 2..(n - 1) : whole[i] = token[i] /\ i \in DOMAIN whole \ {1}
    BY <1>2, <1>6, <1>8, <2>2
  <2> QED BY <1>3, <2>1, <2>3 DEF Grouped
<1> QED BY <1>3, <1>4, <1>7, <1>8 DEF n

\* A number on a page.
IsToken(token) ==
    /\ token \in GroupSeqs /\ Len(token) >= 1 /\ token[1].sep = "none"
    /\ \A i \in 2..Len(token) : token[i].sep \in Reads!Separators

LEMMA TokenIs ==
    ASSUME NEW w \in Nat, NEW rest \in Seq([sep : Reads!Separators, width : Nat])
    PROVE  IsToken(Reads!Token(w, rest))
<1> DEFINE R == [sep : Reads!Separators, width : Nat]
           first == [sep |-> "none", width |-> w]
           token == Prepended(first, rest)
<1>1. \A g \in R : g.sep \in Reads!Separators /\ g \in Group
  BY DEF Group, Reads!Separators
<1>2. first \in Group /\ first.sep = "none"
  BY DEF Group
<1>3. rest \in Seq(R)
  OBVIOUS
<1>4. Reads!Token(w, rest) = token
  BY DEF Reads!Token, Prepended
<1> HIDE DEF R, first
<1>5. Len(rest) \in Nat /\ \A i \in 1..Len(rest) : rest[i] \in R
  BY <1>3
<1>6. rest \in Seq(Group)
  BY <1>1, <1>3
<1>7. /\ token \in Seq(Group) /\ Len(token) = Len(rest) + 1
      /\ token[1] = first /\ \A i \in 1..Len(rest) : token[i + 1] = rest[i]
  BY <1>2, <1>6, PrependedIs
<1> HIDE DEF token
<1>8. ASSUME NEW i \in 2..Len(token) PROVE token[i].sep \in Reads!Separators
  <2>1. i - 1 \in 1..Len(rest) /\ (i - 1) + 1 = i
    BY <1>5, <1>7
  <2>2. token[i] = rest[i - 1]
    BY <1>7, <2>1
  <2> QED BY <1>1, <1>5, <2>1, <2>2
<1>9. Len(token) >= 1
  BY <1>5, <1>7
<1>10. token \in GroupSeqs
  BY <1>7 DEF GroupSeqs
<1> QED BY <1>2, <1>4, <1>7, <1>8, <1>9, <1>10 DEF IsToken

\* What its groups come to once the spaces are gone.
LEMMA TokenIsWritten ==
    ASSUME NEW token, IsToken(token), NEW group \in Reads!Separators, NEW point \in {"point", "comma"},
           NEW decimals \in {0, 1, 2}, group # point, Reads!Writes(group, point, decimals, token)
    PROVE  \E t \in GroupSeqs, sign \in {"point", "comma"} :
              sign # point /\ Reads!Squeezed(token) = t /\ WrittenAs(t, sign, point, decimals)
<1> DEFINE n == Len(token)
<1>1. token \in GroupSeqs /\ n >= 1 /\ token[1].sep = "none"
  BY DEF IsToken
<1>2. n \in Nat /\ \A i \in 1..n : token[i] \in Group
  BY <1>1, GroupsAre
<1>3. /\ decimals = 0 => Grouped(token, group, n)
      /\ decimals > 0 => /\ n >= 2 /\ Grouped(token, group, n - 1)
                         /\ token[n].sep = point /\ token[n].width = decimals
  BY <1>1, WritesMeans
<1>4. group \in {"point", "comma", "space"}
  BY DEF Reads!Separators
<1>5. decimals = 0 => \A i \in 2..n : token[i].sep = group /\ token[i].width = 3
  BY <1>3 DEF Grouped
<1>6. decimals > 0 => \A i \in 2..(n - 1) : token[i].sep = group /\ token[i].width = 3
  BY <1>3 DEF Grouped
<1>7. CASE group # "space"
  <2>1. \A i \in 1..n : i = 1 \/ i \in 2..(n - 1) \/ i = n
    <3> HIDE DEF n
    <3> QED BY <1>2
  <2>2. \A i \in 2..(n - 1) : i \in 2..n
    <3> HIDE DEF n
    <3> QED BY <1>2
  <2>3. n = 1 \/ n \in 2..n
    <3> HIDE DEF n
    <3> QED BY <1>1, <1>2
  <2>4. \A i \in 1..n : token[i].sep # "space"
    <3> SUFFICES ASSUME NEW i \in 1..n PROVE token[i].sep # "space"
      OBVIOUS
    <3>1. CASE decimals = 0
      BY <1>1, <1>5, <1>7, <2>1, <2>2, <2>3, <3>1
    <3>2. CASE decimals > 0
      BY <1>1, <1>3, <1>6, <1>7, <2>1, <3>2
    <3> QED BY <3>1, <3>2
  <2>5. Reads!Squeezed(token) = token
    BY <1>1, <2>4, SqueezedSame
  <2>6. WrittenAs(token, group, point, decimals)
    BY <1>1, <1>3, <1>5, <1>6 DEF WrittenAs
  <2>7. group \in {"point", "comma"}
    BY <1>4, <1>7
  <2> QED BY <1>1, <2>5, <2>6, <2>7
<1>8. CASE group = "space"
  <2> DEFINE m == IF decimals = 0 THEN n ELSE n - 1
  <2>1. PICK sign \in {"point", "comma"} : sign # point
    <3>1. "point" # "comma"
      OBVIOUS
    <3> QED BY <3>1
  <2>2. m \in 1..n /\ m >= n - 1
    <3> HIDE DEF n
    <3> QED BY <1>1, <1>2, <1>3
  <2>3. \A i \in 2..m : token[i].sep = "space"
    <3> HIDE DEF n
    <3>1. CASE decimals = 0
      BY <1>5, <1>8, <3>1
    <3>2. CASE decimals > 0
      BY <1>6, <1>8, <3>2
    <3> QED BY <3>1, <3>2
  <2>4. m < n => token[n].sep # "space"
    <3> HIDE DEF n
    <3> QED BY <1>2, <1>3
  <2>5. (m = n <=> decimals = 0) /\ (m < n <=> decimals > 0)
    <3> HIDE DEF n
    <3> QED BY <1>2
  <2> HIDE DEF m
  <2>6. /\ m = n => Single(Reads!Squeezed(token))
        /\ m < n => \E out : Single(out) /\ Reads!Squeezed(token) = Append(out, token[n])
    BY <1>1, <2>2, <2>3, <2>4, SqueezedSpaces
  <2>7. CASE decimals = 0
    <3> DEFINE t == Reads!Squeezed(token)
    <3>1. t \in GroupSeqs /\ Len(t) = 1 /\ t[1].sep = "none"
      BY <2>5, <2>6, <2>7 DEF Single
    <3> HIDE DEF t
    <3>2. WrittenAs(t, sign, point, 0)
      BY <3>1 DEF WrittenAs
    <3> QED BY <2>1, <2>7, <3>1, <3>2 DEF t
  <2>8. CASE decimals > 0
    <3>1. PICK out : Single(out) /\ Reads!Squeezed(token) = Append(out, token[n])
      BY <2>5, <2>6, <2>8
    <3> DEFINE g == token[n]
               t == Append(out, g)
    <3>2. out \in GroupSeqs /\ Len(out) = 1 /\ out[1].sep = "none"
      BY <3>1 DEF Single
    <3>3. g \in Group
      <4>1. n \in 1..n
        <5> HIDE DEF n
        <5> QED BY <1>1, <1>2
      <4> QED BY <1>2, <4>1
    <3>4. g.sep = point /\ g.width = decimals
      BY <1>3, <2>8
    <3> HIDE DEF g
    <3>5. /\ t \in GroupSeqs /\ Len(t) = Len(out) + 1
          /\ t[Len(out) + 1] = g /\ \A i \in 1..Len(out) : t[i] = out[i]
      BY <3>2, <3>3, GroupAppended
    <3> HIDE DEF t
    <3>6. Len(t) = 2 /\ t[2] = g /\ t[1].sep = "none"
      BY <3>2, <3>5
    <3>7. WrittenAs(t, sign, point, decimals)
      BY <2>8, <3>4, <3>6 DEF WrittenAs
    <3> QED BY <2>1, <3>1, <3>5, <3>7 DEF t, g
  <2> QED BY <2>7, <2>8
<1> QED BY <1>7, <1>8

\* Numbers of any groups and widths.
LEMMA NumbersAreRead ==
    ASSUME NEW w \in Nat, NEW rest \in Seq([sep : Reads!Separators, width : Nat])
    PROVE  Reads!NumberIsRead(Reads!Token(w, rest))
<1> DEFINE token == Reads!Token(w, rest)
<1>1. IsToken(token)
  BY TokenIs
<1> HIDE DEF token
<1>2. Reads!Width(token) \in Nat
  BY <1>1, WidthIsNat DEF IsToken
<1>3. ASSUME NEW group \in Reads!Separators, NEW point \in {"point", "comma"}, NEW decimals \in {0, 1, 2},
             group # point, Reads!Writes(group, point, decimals, token)
      PROVE  /\ Reads!ParseNumber(token) = decimals
             /\ Reads!StripGrouping(token, decimals = 0) = {decimals}
             /\ Reads!CoerceInt(token) = Reads!Width(token) - decimals
             /\ Reads!ParseInt(token, FALSE) = IF decimals = 0 THEN {Reads!Width(token)} ELSE {}
  <2>1. PICK t \in GroupSeqs, sign \in {"point", "comma"} :
              sign # point /\ Reads!Squeezed(token) = t /\ WrittenAs(t, sign, point, decimals)
    BY <1>1, <1>3, TokenIsWritten
  <2>2. /\ Reads!ParseNumber(token) = decimals /\ StripAny(token) = {decimals}
        /\ decimals > 0 => StripStrict(token) = {decimals}
    BY <2>1, WrittenIsRead
  <2>3. Reads!StripGrouping(token, decimals = 0) = {decimals}
    <3>1. CASE decimals = 0
      <4>1. (decimals = 0) = TRUE
        BY <3>1
      <4>2. Reads!StripGrouping(token, decimals = 0) = StripAny(token)
        BY <4>1, Zenon DEF StripAny
      <4> QED BY <2>2, <4>2
    <3>2. CASE decimals # 0
      <4>1. (decimals = 0) = FALSE
        BY <3>2
      <4>2. Reads!StripGrouping(token, decimals = 0) = StripStrict(token)
        BY <4>1, Zenon DEF StripStrict
      <4>3. decimals > 0
        BY <3>2
      <4> QED BY <2>2, <4>2, <4>3
    <3> QED BY <3>1, <3>2
  <2>4. Reads!CoerceInt(token) = Reads!Width(token) - decimals
    BY <2>2 DEF Reads!CoerceInt
  <2>5. Reads!ParseInt(token, FALSE) = {Reads!Width(token) - d : d \in {k \in StripAny(token) : k = 0}}
    BY DEF Reads!ParseInt, StripAny
  <2>6. Reads!ParseInt(token, FALSE) = IF decimals = 0 THEN {Reads!Width(token)} ELSE {}
    <3> DEFINE K == {k \in StripAny(token) : k = 0}
               width == Reads!Width(token)
               whole == Reads!ParseInt(token, FALSE)
    <3>1. K = IF decimals = 0 THEN {0} ELSE {}
      BY <2>2
    <3>2. whole = {width - d : d \in K} /\ width \in Nat
      BY <1>2, <2>5
    <3> HIDE DEF K, width, whole
    <3>3. CASE decimals = 0
      <4>1. K = {0} /\ width - 0 = width
        BY <3>1, <3>2, <3>3
      <4>2. whole = {width}
        BY <3>2, <4>1
      <4> QED BY <3>3, <4>2 DEF width, whole
    <3>4. CASE decimals # 0
      <4>1. K = {}
        BY <3>1, <3>4
      <4>2. whole = {}
        BY <3>2, <4>1
      <4> QED BY <3>4, <4>2 DEF width, whole
    <3> QED BY <3>3, <3>4
  <2> QED BY <2>2, <2>3, <2>4, <2>6
<1>4. \A decimals \in 0..2 : decimals \in {0, 1, 2}
  OBVIOUS
<1>5. Reads!NumberIsRead(token)
  <2> SUFFICES ASSUME NEW group \in Reads!Separators, NEW point \in {"point", "comma"}, NEW decimals \in 0..2,
                      group # point, Reads!Writes(group, point, decimals, token)
               PROVE  /\ Reads!ParseNumber(token) = decimals
                      /\ Reads!StripGrouping(token, decimals = 0) = {decimals}
                      /\ Reads!CoerceInt(token) = Reads!Width(token) - decimals
                      /\ Reads!ParseInt(token, FALSE) = IF decimals = 0 THEN {Reads!Width(token)} ELSE {}
    BY Zenon DEF Reads!NumberIsRead
  <2>1. decimals \in {0, 1, 2}
    BY <1>4
  <2>2. group # point /\ Reads!Writes(group, point, decimals, token)
    OBVIOUS
  <2> QED BY <1>3, <2>1, <2>2, Zenon
<1> QED BY <1>5 DEF token

-----------------------------------------------------------------------------
(***************************************************************************)
(* The samples of MCServices are such inputs.                              *)
(***************************************************************************)
LEMMA SampledUsages ==
    ASSUME NEW u \in Usages
    PROVE  (\E Models : u.slices \in Seq(SliceOver(Models))) /\ u.reported \in Nat
<1> DEFINE Models == {"opus", "haiku", "other"}
           R == SliceOver(Models)
<1>1. u.slices \in UpTo(2, UsageSlices) /\ u.reported \in {0, 4}
  BY DEF Usages
<1>2. UsageSlices \subseteq R
  <2>1. \A cost \in {{}, {3}} : cost \in Bill
    BY DEF Bill
  <2>2. \A n \in 0..2 : n \in Nat
    OBVIOUS
  <2> QED BY <2>1, <2>2 DEF UsageSlices, SliceOver
<1> HIDE DEF R
<1>3. u.slices \in Seq(UsageSlices)
  BY <1>1, UpToIsSeq
<1>4. u.slices \in Seq(R)
  BY <1>2, <1>3
<1>5. u.reported \in Nat
  BY <1>1
<1> QED BY <1>4, <1>5 DEF R

LEMMA SampledExtractions ==
    ASSUME NEW x \in Extractions
    PROVE  (\E Rows : x.page \in Seq(ChunkOver(Rows))) /\ x.cap \in Nat /\ x.most \in Nat \ {0}
<1> DEFINE Rows == [id : {1, 2}, lacks : {{}, {"f"}}]
           R == ChunkOver(Rows)
<1>1. x.page \in UpTo(2, Chunks) /\ x.cap \in 0..3 /\ x.most \in 1..2
  BY DEF Extractions
<1>2. Chunks \subseteq R
  <2>1. \A s \in UpTo(1, Rows) : s \in Seq(Rows)
    <3> HIDE DEF Rows
    <3>1. 1 \in Nat
      OBVIOUS
    <3> QED BY <3>1, UpToIsSeq
  <2>2. (\A n \in 0..2 : n \in Nat) /\ 0 \in Nat /\ <<>> \in Seq(Rows)
    OBVIOUS
  <2>3. {"rows", "failed"} \subseteq ChunkAnswer /\ "unpriced" \in ChunkAnswer
    BY DEF ChunkAnswer
  <2> DEFINE answered == [cost : 0..2, answer : {"rows", "failed"}, rows : UpTo(1, Rows)]
             unpriced == [cost : {0}, answer : {"unpriced"}, rows : {<<>>}]
  <2>4. Chunks = answered \cup unpriced
    BY DEF Chunks
  <2> HIDE DEF Rows
  <2>5. answered \subseteq R
    BY <2>1, <2>2, <2>3 DEF ChunkOver
  <2>6. unpriced \subseteq R
    BY <2>2, <2>3 DEF ChunkOver
  <2> QED BY <2>4, <2>5, <2>6
<1> HIDE DEF R
<1>3. x.page \in Seq(Chunks)
  BY <1>1, UpToIsSeq
<1>4. x.page \in Seq(R)
  BY <1>2, <1>3
<1>5. x.cap \in Nat /\ x.most \in Nat \ {0}
  BY <1>1
<1> QED BY <1>4, <1>5 DEF R

LEMMA SampledCounts ==
    ASSUME NEW c \in Counts
    PROVE  c.counts \in Seq(Nat) /\ c.band \in BandOver
<1>1. c.counts \in UpTo(4, 0..4)
             /\ c.band \in [relative_to : DOMAIN Judging!HistorySize, tolerance : {0, 50, 100}]
  BY DEF Counts
<1>2. c.counts \in Seq(0..4)
  BY <1>1, UpToIsSeq
<1>3. 0..4 \subseteq Nat
  OBVIOUS
<1>4. c.counts \in Seq(Nat)
  BY <1>2, <1>3
<1>5. c.band \in BandOver
  BY <1>1 DEF BandOver
<1> QED BY <1>4, <1>5

LEMMA SampledTrials ==
    ASSUME NEW t \in Trials
    PROVE  \E Names : t.rows \in RowsOver(Names) /\ t.script \in TriedOver(Names)
<1> DEFINE Names == {"f"}
           R == UNION {[F -> Judging!Values] : F \in SUBSET Names}
<1>1. /\ t.rows \in UpTo(3, R)
      /\ t.script \in [fields : {Names}, validation : Thresholds, output_schema : {{}}]
  BY DEF Trials, TrialRows
<1>2. t.rows \in RowsOver(Names)
  <2> HIDE DEF R
  <2>1. t.rows \in Seq(R)
    BY <1>1, UpToIsSeq
  <2> QED BY <2>1 DEF R, RowsOver
<1> HIDE DEF R
<1>3. Thresholds \subseteq ThresholdsOver(Names)
  <2> DEFINE none == [f \in {} |-> 0]
             all == [f \in Names |-> 5000]
             W(least, most, band, rates, unique, required) ==
                [min_rows |-> least, max_rows |-> most, row_count_band |-> band,
                 max_null_rate |-> rates, unique |-> unique, required_fields |-> required]
             V(least, rates, unique, required) == W(least, {}, {}, rates, unique, required)
  <2>1. Judging!DefaultValidation = V(1, none, {}, {})
    BY DEF Judging!DefaultValidation
  <2>2. Thresholds = {V(1, none, {}, {}), V(1, none, Names, {}), V(2, none, {}, Names), V(1, all, {}, {})}
    <3>1. \A least, most, band, rates, unique, required, other :
             [W(least, most, band, rates, unique, required) EXCEPT !.unique = other]
               = W(least, most, band, rates, other, required)
      OBVIOUS
    <3>2. \A least, most, band, rates, unique, required, other :
             [W(least, most, band, rates, unique, required) EXCEPT !.required_fields = other]
               = W(least, most, band, rates, unique, other)
      OBVIOUS
    <3>3. \A least, most, band, rates, unique, required, other :
             [W(least, most, band, rates, unique, required) EXCEPT !.min_rows = other]
               = W(other, most, band, rates, unique, required)
      OBVIOUS
    <3>4. \A least, most, band, rates, unique, required, other :
             [W(least, most, band, rates, unique, required) EXCEPT !.max_null_rate = other]
               = W(least, most, band, other, unique, required)
      OBVIOUS
    <3> HIDE DEF W, none, all, Names
    <3>5. [V(1, none, {}, {}) EXCEPT !.unique = Names] = V(1, none, Names, {})
      BY <3>1
    <3>6. [V(1, none, {}, {}) EXCEPT !.max_null_rate = all] = V(1, all, {}, {})
      BY <3>4
    <3>7. [V(1, none, {}, {}) EXCEPT !.required_fields = Names, !.min_rows = 2] = V(2, none, {}, Names)
      <4>1. [V(1, none, {}, {}) EXCEPT !.required_fields = Names] = V(1, none, {}, Names)
        BY <3>2
      <4>2. [V(1, none, {}, Names) EXCEPT !.min_rows = 2] = V(2, none, {}, Names)
        BY <3>3
      <4> HIDE DEF V
      <4>3. \A d : [d EXCEPT !.required_fields = Names, !.min_rows = 2]
                     = [[d EXCEPT !.required_fields = Names] EXCEPT !.min_rows = 2]
        BY Zenon
      <4> QED BY <4>1, <4>2, <4>3, Zenon
    <3> HIDE DEF V
    <3>8. Thresholds = {Judging!DefaultValidation,
                        [Judging!DefaultValidation EXCEPT !.unique = Names],
                        [Judging!DefaultValidation EXCEPT !.required_fields = Names, !.min_rows = 2],
                        [Judging!DefaultValidation EXCEPT !.max_null_rate = all]}
      BY Zenon DEF Thresholds, Names, all
    <3> QED BY <2>1, <3>5, <3>6, <3>7, <3>8, Zenon
  <2>3. none \in RatesOver(Names) /\ all \in RatesOver(Names)
    <3>1. none \in [{} -> Nat] /\ all \in [Names -> Nat] /\ {} \in SUBSET Names /\ Names \in SUBSET Names
      OBVIOUS
    <3> HIDE DEF none, all, Names
    <3> QED BY <3>1, Zenon DEF RatesOver
  <2> HIDE DEF none, all, Names
  <2>4. \A least \in {1, 2}, rates \in {none, all}, unique, required \in {{}, Names} :
           V(least, rates, unique, required) \in ThresholdsOver(Names)
    <3>1. {} \in SUBSET Nat /\ {} \in SUBSET BandOver /\ {} \in SUBSET Names /\ Names \in SUBSET Names
      OBVIOUS
    <3> QED BY <2>3, <3>1 DEF ThresholdsOver
  <2> HIDE DEF V
  <2> QED BY <2>2, <2>4
<1>4. t.script \in TriedOver(Names)
  BY <1>1, <1>3 DEF TriedOver
<1> QED BY <1>2, <1>4

LEMMA SampledNumbers ==
    ASSUME NEW x \in Numbers
    PROVE  \E w \in Nat, rest \in Seq([sep : Reads!Separators, width : Nat]) : x.token = Reads!Token(w, rest)
<1> DEFINE R == [sep : Reads!Separators, width : Nat]
<1>1. PICK w \in 1..4, rest \in UpTo(3, Groups) : x = [of |-> "number", token |-> Reads!Token(w, rest)]
  BY DEF Numbers
<1>2. Groups \subseteq R
  BY DEF Groups
<1> HIDE DEF R
<1>3. rest \in Seq(Groups)
  BY <1>1, UpToIsSeq
<1>4. rest \in Seq(R) /\ w \in Nat
  BY <1>2, <1>3
<1>5. x.token = Reads!Token(w, rest)
  BY <1>1
<1> QED BY <1>4, <1>5 DEF R

LEMMA SampledLadders ==
    ASSUME NEW x \in Ladders
    PROVE  /\ \E S : x.primary \in S /\ x.fallbacks \in Seq(S) /\ x.more \in Seq(S)
           /\ "" \notin DOMAIN x.found
<1> DEFINE S == {Blank, "a", "b", "c", "bad"}
           one == <<"b">>
           two == <<"a", "c">>
           none == <<>>
<1>1. /\ x.primary \in {Blank, "a", "b"} /\ x.fallbacks \in UpTo(2, {Blank, "a", "b", "bad"})
      /\ x.more \in {none, one, two} /\ x.found \in [{"a", "b", "c"} -> 0..2]
  BY DEF Ladders, Blank
<1>2. one \in Seq(S) /\ two \in Seq(S) /\ none \in Seq(S)
  OBVIOUS
<1> HIDE DEF one, two, none
<1>3. x.fallbacks \in Seq({Blank, "a", "b", "bad"})
  BY <1>1, UpToIsSeq
<1>4. x.fallbacks \in Seq(S)
  BY <1>3
<1>5. "" \notin DOMAIN x.found
  <2>1. DOMAIN x.found = {"a", "b", "c"}
    BY <1>1
  <2>2. "" # "a" /\ "" # "b" /\ "" # "c"
    BY Zenon
  <2> QED BY <2>1, <2>2, Zenon
<1>6. x.primary \in S /\ x.more \in Seq(S)
  BY <1>1, <1>2
<1> QED BY <1>4, <1>5, <1>6

-----------------------------------------------------------------------------
\* agents/gateway.py, cost.py and fallback.py: however many shares a session had, of
\* whatever models, its bill counts each once, at its own rate, unless the harness
\* reported a total, and no less is recorded; and whatever an extractor is answered, it
\* overruns its cap by its last call at most, its rows are complete and different, and one
\* that says ok and not capped has read the page to its end, or to max_chunks.
THEOREM SessionsAreBilled ==
    /\ \A Models : \A slices \in Seq(SliceOver(Models)), reported \in Nat : \A asked :
           Bills!BillIsWhole(asked, slices, reported)
    /\ \A Rows : \A sheet \in Seq(ChunkOver(Rows)), cap \in Nat, most \in Nat \ {0} :
           Bills!CapIsKept(sheet, cap, most)
    /\ ServicesSpec => []SpendIsWhole
<1>1. \A Models : \A slices \in Seq(SliceOver(Models)), reported \in Nat : \A asked :
          Bills!BillIsWhole(asked, slices, reported)
  BY BillsAreWhole
<1>2. \A Rows : \A sheet \in Seq(ChunkOver(Rows)), cap \in Nat, most \in Nat \ {0} :
          Bills!CapIsKept(sheet, cap, most)
  BY CapsAreKept
<1>3. ASSUME Sampled PROVE SpendIsWhole
  <2>1. ASSUME sample.of = "usage" PROVE Bills!BillIsWhole(sample.asked, sample.slices, sample.reported)
    <3>1. sample \in Usages
      BY <1>3, <2>1, SampledByKind
    <3>2. (\E Models : sample.slices \in Seq(SliceOver(Models))) /\ sample.reported \in Nat
      BY <3>1, SampledUsages
    <3> QED BY <1>1, <3>2
  <2>2. ASSUME sample.of = "extract" PROVE Bills!CapIsKept(sample.page, sample.cap, sample.most)
    <3>1. sample \in Extractions
      BY <1>3, <2>2, SampledByKind
    <3>2. (\E Rows : sample.page \in Seq(ChunkOver(Rows))) /\ sample.cap \in Nat /\ sample.most \in Nat \ {0}
      BY <3>1, SampledExtractions
    <3> QED BY <1>2, <3>2
  <2> QED BY <2>1, <2>2 DEF SpendIsWhole
<1>4. Sampled => SpendIsWhole
  BY <1>3
<1>5. ServicesSpec => []SpendIsWhole
  BY <1>4, SampleIsKept, PTL
<1> QED BY <1>1, <1>2, <1>5

\* validate/drift.py and repo.py recent_row_counts: only runs that passed make the
\* history that a run is compared with, so a count that is broken, and stays where it
\* broke, is told in every run from then on: for any counts, window and tolerance.
THEOREM BreakageStays ==
    /\ \A counts \in Seq(Nat), band \in BandOver : Judging!BreakageIsKept(counts, band)
    /\ ServicesSpec => []BreakageIsKept
<1>1. \A counts \in Seq(Nat), band \in BandOver : Judging!BreakageIsKept(counts, band)
  BY BrokenStaysBroken
<1>2. ASSUME Sampled PROVE BreakageIsKept
  <2>1. ASSUME sample.of = "counts" PROVE Judging!BreakageIsKept(sample.counts, sample.band)
    <3>1. sample \in Counts
      BY <1>2, <2>1, SampledByKind
    <3>2. sample.counts \in Seq(Nat) /\ sample.band \in BandOver
      BY <3>1, SampledCounts
    <3> QED BY <1>1, <3>2
  <2> QED BY <2>1 DEF BreakageIsKept
<1>3. Sampled => BreakageIsKept
  BY <1>2
<1>4. ServicesSpec => []BreakageIsKept
  BY <1>3, SampleIsKept, PTL
<1> QED BY <1>1, <1>4

\* agents/builder.py against validate/validator.py: for rows of any number and any
\* fields, and whatever the agent set, the thresholds and the schema derived from a
\* trial pass the rows they are derived from, and the schema inferred from rows fits
\* them.  A null rate is rounded to four places, so that one empty value in more than
\* 20000 rows would be rounded away; the code looks at 20.
TrialsAssumed == SampleSize \in Nat /\ SampleSize <= 20000

THEOREM TrialsPass ==
    /\ TrialsAssumed => \A Names : \A rowsFound \in RowsOver(Names), script \in TriedOver(Names) :
           Judging!BuiltScriptAcceptsTrial(rowsFound, script)
    /\ \A Names : \A rowsFound \in RowsOver(Names) : Judging!InferredSchemaFits(rowsFound)
    /\ TrialsAssumed /\ ServicesSpec => []BuiltScriptAcceptsTrial
<1>1. TrialsAssumed => \A Names : \A rowsFound \in RowsOver(Names), script \in TriedOver(Names) :
          Judging!BuiltScriptAcceptsTrial(rowsFound, script)
  BY TrialsAreAccepted DEF TrialsAssumed
<1>2. \A Names : \A rowsFound \in RowsOver(Names) : Judging!InferredSchemaFits(rowsFound)
  BY InferredFits
<1>3. ASSUME TrialsAssumed PROVE ServicesSpec => []BuiltScriptAcceptsTrial
  <2>1. ASSUME Sampled PROVE BuiltScriptAcceptsTrial
    <3>1. ASSUME sample.of = "trial"
          PROVE  Judging!BuiltScriptAcceptsTrial(sample.rows, sample.script)
                 /\ Judging!InferredSchemaFits(sample.rows)
      <4>1. sample \in Trials
        BY <2>1, <3>1, SampledByKind
      <4>2. \E Names : sample.rows \in RowsOver(Names) /\ sample.script \in TriedOver(Names)
        BY <4>1, SampledTrials
      <4> QED BY <1>1, <1>2, <1>3, <4>2
    <3> QED BY <3>1 DEF BuiltScriptAcceptsTrial
  <2>2. Sampled => BuiltScriptAcceptsTrial
    BY <2>1
  <2> QED BY <2>2, SampleIsKept, PTL
<1> QED BY <1>1, <1>2, <1>3

\* runner/block_detect.py, locators.py and parsing.py: every response is told from a
\* wall; a date of any numbers is read day first, and month first only where that makes no
\* date; a number of any groups of digits and at most two decimals is read as some country
\* writes it; and a ladder of any selectors, blank and repeated ones too, keeps to the first
\* that finds enough when others are added behind.
THEOREM PagesAreRead ==
    /\ \A r \in Reads!Response : Reads!WallIsTold(r)
    /\ \A a, b \in Nat : Reads!DateIsRead(a, b)
    /\ \A w \in Nat, rest \in Seq([sep : Reads!Separators, width : Nat]) :
           Reads!NumberIsRead(Reads!Token(w, rest))
    /\ \A S, found, minimum : \A primary \in S, fallbacks, more \in Seq(S) :
           "" \notin DOMAIN found => Reads!LadderIsStable(primary, fallbacks, more, found, minimum)
    /\ ServicesSpec => []PageIsRead
<1>1. \A r \in Reads!Response : Reads!WallIsTold(r)
  BY WallsAreTold
<1>2. \A a, b \in Nat : Reads!DateIsRead(a, b)
  BY DatesAreRead
<1>3. \A w \in Nat, rest \in Seq([sep : Reads!Separators, width : Nat]) :
           Reads!NumberIsRead(Reads!Token(w, rest))
  BY NumbersAreRead
<1>4. \A S, found, minimum : \A primary \in S, fallbacks, more \in Seq(S) :
          "" \notin DOMAIN found => Reads!LadderIsStable(primary, fallbacks, more, found, minimum)
  BY LaddersAreStable, Zenon
<1>5. ASSUME Sampled PROVE PageIsRead
  <2>1. ASSUME sample.of = "number" PROVE Reads!NumberIsRead(sample.token)
    <3>1. sample \in Numbers
      BY <1>5, <2>1, SampledByKind
    <3>2. \E w \in Nat, rest \in Seq([sep : Reads!Separators, width : Nat]) :
            sample.token = Reads!Token(w, rest)
      BY <3>1, SampledNumbers
    <3> QED BY <1>3, <3>2
  <2>2. ASSUME sample.of = "date" PROVE Reads!DateIsRead(sample.a, sample.b)
    <3>1. sample \in Dates
      BY <1>5, <2>2, SampledByKind
    <3>2. sample.a \in Nat /\ sample.b \in Nat
      BY <3>1 DEF Dates
    <3> QED BY <1>2, <3>2
  <2>3. ASSUME sample.of = "response" PROVE Reads!WallIsTold(sample.response)
    <3>1. sample \in Responses
      BY <1>5, <2>3, SampledByKind
    <3>2. sample.response \in Reads!Response
      BY <3>1 DEF Responses
    <3> QED BY <1>1, <3>2
  <2>4. ASSUME sample.of = "ladder"
        PROVE  Reads!LadderIsStable(sample.primary, sample.fallbacks, sample.more, sample.found, sample.minimum)
    <3>1. sample \in Ladders
      BY <1>5, <2>4, SampledByKind
    <3>2. /\ \E S : sample.primary \in S /\ sample.fallbacks \in Seq(S) /\ sample.more \in Seq(S)
          /\ "" \notin DOMAIN sample.found
      BY <3>1, SampledLadders
    <3> QED BY <1>4, <3>2, Zenon
  <2> QED BY <2>1, <2>2, <2>3, <2>4 DEF PageIsRead
<1>6. Sampled => PageIsRead
  BY <1>5
<1>7. ServicesSpec => []PageIsRead
  BY <1>6, SampleIsKept, PTL
<1> QED BY <1>1, <1>2, <1>3, <1>4, <1>7
====
