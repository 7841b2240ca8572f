-------------------------------- MODULE Sinks --------------------------------
(***************************************************************************)
(* The inside of one attempt to deliver: _send_with_retry and _send_batches*)
(* (delivery/base.py) over the sinks (delivery/webhook.py, file.py, s3.py, *)
(* email_.py, apprise_.py, mcp_.py) and the MCP client (mcp/client.py),    *)
(* against a receiver that may take rows and have its answer lost.         *)
(* Module Delivery sees all of this as one answer.                         *)
(***************************************************************************)
EXTENDS Naturals, FiniteSets

CONSTANTS
    NumRows,      \* rows of the run
    Sizes,        \* values of batch_size; 0 is none
    Preview,      \* preview_rows of an apprise target
    MaxAttempts   \* max_attempts

VARIABLES
    sink,       \* which sink it is, and how an MCP target sends: per row or per batch
    toolRetry,  \* retry_on_tool_error of an MCP target
    size,       \* batch_size
    batch,      \* the batch that is being sent
    call,       \* the call of it
    second,     \* the MCP client is at its second try
    attempts,   \* of _send_with_retry
    taken,      \* the receiver, of a mail one addressee: how often it took each row
    answer      \* what _send_with_retry returned

sending == <<sink, toolRetry, size, batch, call, second, attempts, taken, answer>>

OverMcp == {"mcp per row", "mcp batch"}
Batched == OverMcp \cup {"webhook"}
\* A dated name has the second in it, as the default name of a file has, so that another
\* attempt writes another one.  (One within the same second overwrites: "file", "s3".)
Files == {"file", "append", "dated file"}
Objects == {"s3", "dated s3"}
Mails == {"email", "bare email"}   \* with the rows attached, and without: attach: false
RowSinks == Batched \cup Files \cup Objects
Kinds == RowSinks \cup Mails \cup {"apprise"}
Row == 1..NumRows

NoAnswer == [ended |-> FALSE, ok |-> FALSE, retryable |-> FALSE, sent |-> 0]

Split == sink \in Batched /\ size # 0 /\ NumRows > size
Batches == IF Split THEN (NumRows + size - 1) \div size ELSE 1
RowsOf(b) == IF Split THEN {r \in Row : (b - 1) * size < r /\ r <= b * size} ELSE Row

\* build_arguments: a call for each row, or one for the batch.
Calls(b) == IF sink = "mcp per row" THEN Cardinality(RowsOf(b)) ELSE 1
RowsBefore(b) == IF Split THEN (b - 1) * size ELSE 0
RowsOfCall(b, c) == IF sink = "mcp per row" THEN {RowsBefore(b) + c} ELSE RowsOf(b)

\* _rows_done, after a call failed: in per-row mode the calls that got through.
RowsDoneAll(c) == IF Calls(batch) = Cardinality(RowsOf(batch)) THEN c ELSE 0  \* a mutation
RowsDone(c) == IF Calls(batch) = Cardinality(RowsOf(batch)) THEN c - 1 ELSE 0

\* _send_batches on a batch that failed: rows of the batches before it.
RowsSent == IF Split THEN RowsBefore(batch) ELSE IF sink \in OverMcp THEN RowsDone(call) ELSE 0

\* What may come of a call, sink by sink.  unfit: the target's configuration or a missing
\* package forbids it, so that nothing is sent; refused: an answer that another attempt
\* would get again; busy: one that it might not; lost: no answer came.

\* No url; a status; one that is_retryable_status names; a transport error.
WebhookReplies == {"unfit", "refused", "busy", "lost"}
\* A format it cannot write or pyarrow missing; OSError, also in the middle of the rows.
FileReplies == {"unfit", "busy"}
\* boto3 or the bucket missing, or the format; TERMINAL_CODES; any other error of put_object.
S3Replies == {"unfit", "refused", "busy", "lost"}
\* No recipient; TERMINAL_SMTP; any other code; a connection that breaks.
EmailReplies == {"unfit", "refused", "busy", "lost"}
\* No or bad urls or apprise missing; False, for whichever of the endpoints failed.
AppriseReplies == {"unfit", "busy"}
\* No tool, no server or no client; a tool error; an error that tells itself retryable.
McpReplies == {"unfit", "refused", "lost"}

RepliesOf ==
    CASE sink = "webhook" -> WebhookReplies
      [] sink \in Files -> FileReplies
      [] sink \in Objects -> S3Replies
      [] sink \in Mails -> EmailReplies
      [] sink = "apprise" -> AppriseReplies
      [] sink \in OverMcp -> McpReplies

\* raises: building the payload fails (a mapping, a template, a directory), which
\* _send_with_retry takes for worth another attempt.
Replies == {"unfit", "refused", "busy", "lost", "raises"}
Retryable(reply) ==
    \/ reply \in {"busy", "lost", "raises"}
    \/ reply = "refused" /\ sink \in OverMcp /\ toolRetry

\* The receiver after rows S reached it: a file is begun anew, an object replaced.
Reached(S) ==
    CASE sink = "file" -> [r \in Row |-> IF r \in S THEN 1 ELSE 0]
      [] sink = "s3" -> [r \in Row |-> IF r \in S THEN 1 ELSE taken[r]]
      [] OTHER -> [r \in Row |-> IF r \in S THEN taken[r] + 1 ELSE taken[r]]

-----------------------------------------------------------------------------
SinksInit ==
    /\ sink \in Kinds /\ toolRetry \in BOOLEAN /\ size \in Sizes
    /\ batch = 1 /\ call = 1 /\ second = FALSE
    /\ attempts = 1
    /\ taken = [r \in Row |-> 0]
    /\ answer = NoAnswer

\* What a call that gets through brings, of its rows R: all of them to a sink for rows.
\* A chat message has a preview of the first few, cut at its length; a mail has them all
\* or has no attachment, and one server reply says ok though it refused this addressee
\* (neither SMTP client raises unless it refused them all).
Brings(R) ==
    CASE sink \in RowSinks -> {R}
      [] sink = "email" -> {R, {}}
      [] sink = "bare email" -> {{}}
      [] sink = "apprise" -> {{r \in R : r <= n} : n \in 0..Preview}

\* A call got through: the next one, the next batch, or the end, which counts every row
\* as sent whatever the sink made of them.
Accepted ==
    /\ ~answer.ended
    /\ \E S \in Brings(RowsOfCall(batch, call)) : taken' = Reached(S)
    /\ second' = FALSE
    /\ IF call < Calls(batch) THEN call' = call + 1 /\ UNCHANGED <<batch, answer>>
       ELSE IF batch < Batches THEN batch' = batch + 1 /\ call' = 1 /\ UNCHANGED answer
       ELSE /\ answer' = [ended |-> TRUE, ok |-> TRUE, retryable |-> FALSE, sent |-> NumRows]
            /\ UNCHANGED <<batch, call>>
    /\ UNCHANGED <<sink, toolRetry, size, attempts>>

\* A call failed.  The first rows of it may have been taken where the answer is lost
\* or the medium fails in the middle: what it brings or none, but for files.
Taken(reply) ==
    LET R == RowsOfCall(batch, call) IN
    CASE reply \in {"unfit", "refused", "raises"} -> {{}}
      [] reply \in {"busy", "lost"} ->
             IF sink \in Files THEN {{r \in R : r <= n} : n \in Row \cup {0}}
             ELSE {{}} \cup Brings(R)

\* What _send_with_retry makes of it: all again from the first batch on, or the end.
Failed(retryable) ==
    IF retryable /\ attempts < MaxAttempts
      THEN /\ attempts' = attempts + 1 /\ batch' = 1 /\ call' = 1
           /\ UNCHANGED answer
      ELSE /\ answer' = [ended |-> TRUE, ok |-> FALSE, retryable |-> retryable, sent |-> RowsSent]
           /\ UNCHANGED <<attempts, batch, call>>

\* call_tool of the MCP client tries a lost call once more, by itself.
TriesAgain(reply) == sink \in OverMcp /\ reply = "lost" /\ ~second

Fails(reply) ==
    /\ ~answer.ended
    /\ reply \in RepliesOf \cup {"raises"}
    /\ reply = "raises" => call = 1 /\ ~second
    /\ reply = "unfit" => batch = 1 /\ call = 1 /\ attempts = 1 /\ ~second
    /\ \E S \in Taken(reply) :
           taken' = IF reply \in {"unfit", "refused", "raises"} THEN taken ELSE Reached(S)
    /\ IF TriesAgain(reply)
         THEN second' = TRUE /\ UNCHANGED <<attempts, batch, call, answer>>
         ELSE second' = FALSE /\ Failed(Retryable(reply))
    /\ UNCHANGED <<sink, toolRetry, size>>

SinksNext == Accepted \/ \E reply \in Replies : Fails(reply)

SinksSpec == SinksInit /\ [][SinksNext]_sending

-----------------------------------------------------------------------------
SinksTypeOK ==
    /\ sink \in Kinds /\ toolRetry \in BOOLEAN /\ size \in Sizes /\ second \in BOOLEAN
    /\ batch \in 1..Batches /\ call \in 1..NumRows /\ attempts \in 1..MaxAttempts
    /\ taken \in [Row -> 0..(2 * MaxAttempts)]

\* A row that is counted as sent was taken, at the sinks for rows: all of them when the
\* delivery is sent, and those of the calls and batches that got through when it
\* failed, whichever sink, batch, call and attempt failed and whatever got through with
\* its answer lost.  (A chat message or a mail that is sent may have brought no row: it
\* counts them all the same.)  No row is sent more often than the attempts explain:
\* twice in each over MCP, whose client tries again by itself.
SinkTellsTruth ==
    /\ answer.ok => answer.sent = NumRows
    /\ sink \in RowSinks => \A r \in 1..answer.sent : taken[r] > 0
    /\ \A r \in Row : taken[r] <= attempts * (IF sink \in OverMcp THEN 2 ELSE 1)
=============================================================================
