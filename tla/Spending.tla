------------------------------ MODULE Spending -------------------------------
(***************************************************************************)
(* What the use of a model costs (agents/cost.py, usage_from_result in     *)
(* agents/gateway.py), and how the extractor that reads rows off a page by *)
(* model keeps to its cap (agents/fallback.py).  Functions only.  Costs    *)
(* are whole numbers; a slice is what one model did for a session.         *)
(***************************************************************************)
EXTENDS Naturals, Sequences, SequencesExt, FiniteSets

\* PRICES, of a token; a model that is not in it has none.
Prices == [opus |-> 5, haiku |-> 1]
Priced(model) == model \in DOMAIN Prices

\* cost: costUSD of the harness, a set of at most one.
CostOf(model, tokens) == tokens * Prices[model]

\* _price_slice: without a price, zero.
PriceSlice(model, tokens) == IF Priced(model) THEN CostOf(model, tokens) ELSE 0
SliceCost(slice) ==
    IF slice.cost = {} THEN PriceSlice(slice.model, slice.tokens) ELSE CHOOSE c \in slice.cost : TRUE

TotalOf(slices, of(_)) == FoldLeft(LAMBDA sum, slice : sum + of(slice), 0, slices)
Tokens(slices) == TotalOf(slices, LAMBDA slice : slice.tokens)
\* A mutation: all tokens at the rate of the model that was asked for.
ComputedAtOneRate(asked, slices) == PriceSlice(asked, Tokens(slices))

Computed(asked, slices) == TotalOf(slices, SliceCost)

\* usage_from_result: reported is total_cost_usd, the harness's own total.  A result
\* without slices has only tokens, of the model that was asked for.
UsageFromResult(asked, slices, reported) ==
    [tokens |-> Tokens(slices),
     cost |-> IF reported > 0 THEN reported ELSE Computed(asked, slices)]

\* usage_row: a cost of zero is computed once more, of all tokens at the rate of the
\* model that was asked for; without a price for it the row cannot be made.
UsageRow(asked, usage) ==
    IF usage.cost > 0 THEN {usage.cost}
    ELSE IF Priced(asked) THEN {CostOf(asked, usage.tokens)} ELSE {}

-----------------------------------------------------------------------------
(***************************************************************************)
(* extract_rows, over the chunks of a page.  A chunk is what its call will *)
(* answer: rows, of which each says which required fields it lacks; a      *)
(* failure; or a use that the harness gave no cost for, of a model without *)
(* a price, at which cost_of raises and extract_rows has no result.        *)
(***************************************************************************)
ExtractBegun == [sent |-> 0, cost |-> 0, rows |-> <<>>, dropped |-> 0, answer |-> "rows"]

\* chunk_html: a page is cut off after max_chunks, which is not 0 here.
Taken(page, most) == IF Len(page) > most THEN SubSeq(page, 1, most) ELSE page

\* A row of an answer is dropped, or a repetition, or one more.
Lacking(row) == row.lacks # {}
TakeRow(out, row) ==
    IF Lacking(row) THEN [out EXCEPT !.dropped = @ + 1]
    ELSE IF Contains(out.rows, row) THEN out ELSE [out EXCEPT !.rows = Append(@, row)]

\* One call, unless the cap is reached or a call did not answer with rows before.
Stopped(out, cap) == out.answer # "rows" \/ out.cost >= cap
ChunkCost(chunk) == IF chunk.answer = "unpriced" THEN 0 ELSE chunk.cost
Called(out, chunk) ==
    [sent |-> out.sent + 1, cost |-> out.cost + ChunkCost(chunk), rows |-> out.rows,
     dropped |-> out.dropped, answer |-> chunk.answer]
ExtractChunk(out, chunk, cap) ==
    IF Stopped(out, cap) THEN out
    ELSE IF chunk.answer = "rows" THEN FoldLeft(TakeRow, Called(out, chunk), chunk.rows)
    ELSE Called(out, chunk)
ExtractChunks(chunks, cap) ==
    FoldLeft(LAMBDA out, chunk : ExtractChunk(out, chunk, cap), ExtractBegun, chunks)
ExtractRows(page, cap, most) == ExtractChunks(Taken(page, most), cap)

\* What FallbackResult says, where there is one: total is counted after the cut.
Total(page, most) == Len(Taken(page, most))
Ok(page, cap, most) == ExtractRows(page, cap, most).answer = "rows" /\ Total(page, most) > 0
Capped(page, cap, most) ==
    LET out == ExtractRows(page, cap, most) IN out.cost >= cap /\ out.sent < Total(page, most)

-----------------------------------------------------------------------------
\* The budgets count what was spent: the harness's total is the bill; without it each
\* model's share counts at what the harness said, or at its own rate, and never at
\* another's.  What is recorded is never less, unless it cannot be recorded at all.
BillIsWhole(asked, slices, reported) ==
    LET usage == UsageFromResult(asked, slices, reported) IN
    /\ reported > 0 => usage.cost = reported
    /\ reported = 0 => \A i \in DOMAIN slices :
          LET without == UsageFromResult(asked, RemoveAt(slices, i), 0).cost
          IN usage.cost = without + SliceCost(slices[i])
    /\ \A cost \in UsageRow(asked, usage) : cost >= usage.cost
    /\ UsageRow(asked, usage) = {} => usage.cost = 0 /\ ~Priced(asked)

\* The extractor's cap is overrun by its last call at most, the rows it returns are
\* complete and different, and where it says ok and not capped, it read the page to its
\* end or to the chunk at which chunk_html cut it off.  That the page went on behind the
\* cut, nothing in the result tells: chunks_sent is chunks_total either way.
CapIsKept(page, cap, most) ==
    LET out == ExtractRows(page, cap, most) IN
    /\ out.sent > 0 => out.cost - ChunkCost(page[out.sent]) < cap
    /\ \A i, j \in DOMAIN out.rows : out.rows[i].lacks = {} /\ (out.rows[i] = out.rows[j] => i = j)
    /\ Ok(page, cap, most) /\ ~Capped(page, cap, most)
          => out.sent = Total(page, most) /\ out.sent \in {Len(page), most}
=============================================================================
