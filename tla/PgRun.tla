------------------------------- MODULE PgRun -------------------------------
(***************************************************************************)
(* PostgresDatabase::run(): how one batch's results become a QueryResult   *)
(* (src/postgres_connection.cpp).  PgSession treats this loop as one round *)
(* trip; here every PQgetResult is a step.                                 *)
(*                                                                         *)
(* With a row limit the rows arrive in chunks, at most rowLimit of them    *)
(* are kept, and a single read outside a transaction is stopped with       *)
(* cancel() once more than rowLimit rows were seen; the error that the     *)
(* cancel causes then counts as the end of the rows.                       *)
(*                                                                         *)
(* A batch is a sequence of statement kinds; rows are counted, not         *)
(* represented.  The server (external) decides how many rows a read has    *)
(* and when a statement fails.                                             *)
(***************************************************************************)
EXTENDS Integers, Sequences

CONSTANTS
    Kinds,          \* statement kinds of the batches: "read", "write", "empty", "copy"
    MaxStatements,  \* bound: statements of one batch
    MaxRows,        \* bound: rows of one read
    Limits,         \* the rowLimits the host passes
    ChunkCap        \* the code's 500, scaled down

ASSUME RunAssumption ==
    /\ Kinds \subseteq {"read", "write", "empty", "copy"}
    /\ MaxStatements \in Nat
    /\ MaxRows \in Nat
    /\ Limits \subseteq Int
    /\ ChunkCap \in Nat \ {0}

\* Empty statements are dropped by the server's parser: an empty query is a
\* batch of its own.
Batches ==
    (UNION {[1 .. n -> Kinds \ {"empty"}] : n \in 1 .. MaxStatements})
    \cup [1 .. 1 -> Kinds]

VARIABLES
    batch,      \* the statements of sql
    limit,      \* rowLimit
    idle,       \* PQtransactionStatus(conn_) == PQTRANS_IDLE when run() begins
    at,         \* server: the statement being executed, Len(batch) + 1 after the last
    total,      \* server: the rows of the read being executed
    sent,       \* server: how many of them it has sent
    streaming, kept, seen, stopped,   \* run()'s own variables; kept counts rows.tableData
    out,        \* result.statements
    spin,       \* flips whenever PQgetResult repeats a result
    done        \* PQgetResult returned null

runVars == <<batch, limit, idle, at, total, sent, streaming, kept, seen, stopped, out, spin,
             done>>
input == <<batch, limit, idle>>

\* A StatementResult; rows is what the server had for the statement.
Statement == [success : BOOLEAN, kept : Nat, rows : Nat, limited : BOOLEAN]

RunTypeOK ==
    /\ batch \in Seq(Kinds)
    /\ limit \in Limits
    /\ idle \in BOOLEAN
    /\ at \in Nat
    /\ total \in Nat
    /\ sent \in Nat
    /\ streaming \in BOOLEAN
    /\ kept \in Nat
    /\ seen \in Nat
    /\ stopped \in BOOLEAN
    /\ out \in Seq(Statement)
    /\ spin \in BOOLEAN
    /\ done \in BOOLEAN

RunInit ==
    /\ batch \in Batches
    /\ limit \in Limits
    /\ idle \in BOOLEAN
    /\ at = 1
    /\ total \in 0 .. MaxRows
    /\ sent = 0
    /\ streaming = FALSE
    /\ kept = 0
    /\ seen = 0
    /\ stopped = FALSE
    /\ out = <<>>
    /\ spin = FALSE
    /\ done = FALSE

----------------------------------------------------------------------------
Least(a, b) == IF a <= b THEN a ELSE b

capped == limit > 0

\* Mutant: what follows the first statement is not looked at.
stoppableFirst == batch[1] = "read"

\* One plain read statement, and nothing after it.
stoppableRead == Len(batch) = 1 /\ batch[1] = "read"

stoppable == capped /\ idle /\ stoppableRead

\* Mutant: the rows already kept are forgotten.
AppendedAfresh(n, h) == IF capped THEN Least(n, limit) ELSE n

\* How many of n further rows appendPgRows keeps when it has h already.
Appended(n, h) ==
    IF capped THEN Least(n, IF limit > h THEN limit - h ELSE 0) ELSE n

\* setRowsMessage: whether the message says the rows were limited.
SaysLimited(t, stop) == stop \/ (capped /\ t > limit)

Rows(k, r, stop, t) ==
    [success |-> TRUE, kept |-> k, rows |-> r, limited |-> SaysLimited(t, stop)]
Command == [success |-> TRUE, kept |-> 0, rows |-> 0, limited |-> FALSE]
Failed == [success |-> FALSE, kept |-> 0, rows |-> 0, limited |-> FALSE]

Executing(k) == ~done /\ at <= Len(batch) /\ batch[at] = k

\* The server goes on with the next statement of the batch.
NextStatement ==
    /\ at' = at + 1
    /\ total' \in 0 .. MaxRows
    /\ sent' = 0

\* PGRES_TUPLES_CHUNK.
Chunk ==
    /\ Executing("read")
    /\ capped
    /\ sent < total
    /\ LET n == Least(Least(limit, ChunkCap), total - sent) IN
        /\ sent' = sent + n
        /\ kept' = kept + Appended(n, kept)
        /\ seen' = seen + n
    /\ streaming' = TRUE
    /\ stopped' = (stopped \/ (stoppable /\ seen' > limit))
    /\ UNCHANGED <<input, at, total, out, done, spin>>

\* Mutant: seen is carried over to the next row set.
LastChunkSeen ==
    /\ Executing("read")
    /\ streaming
    /\ sent = total
    /\ out' = Append(out, Rows(kept, total, FALSE, seen))
    /\ streaming' = FALSE
    /\ kept' = 0
    /\ NextStatement
    /\ UNCHANGED <<input, seen, stopped, done, spin>>

\* PGRES_TUPLES_OK after chunks: the row set is complete.
LastChunk ==
    /\ Executing("read")
    /\ streaming
    /\ sent = total
    /\ out' = Append(out, Rows(kept, total, FALSE, seen))
    /\ streaming' = FALSE
    /\ kept' = 0
    /\ seen' = 0
    /\ NextStatement
    /\ UNCHANGED <<input, stopped, done, spin>>

\* PGRES_TUPLES_OK alone: an uncapped row set, or one without rows.
WholeRows ==
    /\ Executing("read")
    /\ ~streaming
    /\ capped => total = 0
    /\ out' = Append(out, Rows(Appended(total, 0), total, FALSE, total))
    /\ NextStatement
    /\ UNCHANGED <<input, streaming, kept, seen, stopped, done, spin>>

\* PGRES_COMMAND_OK.
CommandOk ==
    /\ Executing("write")
    /\ out' = Append(out, Command)
    /\ NextStatement
    /\ UNCHANGED <<input, streaming, kept, seen, stopped, done, spin>>

\* PGRES_EMPTY_QUERY: not a success and without an error message, so dropped.
EmptyQuery ==
    /\ Executing("empty")
    /\ NextStatement
    /\ UNCHANGED <<input, streaming, kept, seen, stopped, out, done, spin>>

\* PGRES_COPY_IN or PGRES_COPY_OUT: dropped like an empty query, but libpq gives
\* the same result again until the copy is ended, which run() never does.
CopyResult ==
    /\ Executing("copy")
    /\ spin' = ~spin
    /\ UNCHANGED <<input, at, total, sent, streaming, kept, seen, stopped, out, done>>

\* PGRES_FATAL_ERROR: the statement's own, the host's cancel(), or the one that
\* run()'s cancel() caused.  The server skips the rest of the batch.
Error ==
    /\ ~done
    /\ at <= Len(batch)
    /\ out' = Append(out, IF streaming /\ stopped THEN Rows(kept, total, TRUE, seen) ELSE Failed)
    /\ streaming' = FALSE
    /\ kept' = 0
    /\ seen' = 0
    /\ at' = Len(batch) + 1
    /\ UNCHANGED <<input, total, sent, stopped, done, spin>>

\* Mutant: the loop waits for at least one result.
NoMoreResultsYet ==
    /\ ~done
    /\ at > Len(batch)
    /\ out # <<>>
    /\ done' = TRUE
    /\ UNCHANGED <<input, at, total, sent, streaming, kept, seen, stopped, out, spin>>

\* PQgetResult returns null.
NoMoreResults ==
    /\ ~done
    /\ at > Len(batch)
    /\ done' = TRUE
    /\ UNCHANGED <<input, at, total, sent, streaming, kept, seen, stopped, out, spin>>

RunNext ==
    \/ Chunk
    \/ LastChunk
    \/ WholeRows
    \/ CommandOk
    \/ EmptyQuery
    \/ CopyResult
    \/ Error
    \/ NoMoreResults

\* What the server does without failing, and the end of the loop.
Progress ==
    Chunk \/ LastChunk \/ WholeRows \/ CommandOk \/ EmptyQuery \/ CopyResult \/ NoMoreResults

RunSpec == RunInit /\ [][RunNext]_runVars

\* The server answers, and run() keeps asking.
FairSpec == RunSpec /\ WF_runVars(Progress)

----------------------------------------------------------------------------
(* Properties *)

\* QueryResult::success()
Success == out # <<>> /\ \A i \in DOMAIN out : out[i].success

\* A row limit is never exceeded, and 0 or less means unlimited.
RowsWithinLimit ==
    \A i \in DOMAIN out :
        /\ limit > 0 => out[i].kept <= limit
        /\ limit <= 0 => ~out[i].limited

\* Rows are never missing without a word: a row set that is not said to be
\* limited is complete, and one that is holds exactly rowLimit rows.
NoSilentTruncation ==
    \A i \in DOMAIN out :
        out[i].success => out[i].kept = IF out[i].limited THEN limit ELSE out[i].rows

\* run()'s own cancel() never costs a statement: a batch reported as successful
\* was executed to its last statement, writes after a long read included.
SuccessIsWholeBatch ==
    done /\ Success => Len(out) = Len(batch)

\* The loop ends for every batch, whatever fails and wherever the limit falls,
\* unless it comes to a COPY.
OnlyCopyHangs == <>(done \/ Executing("copy"))
=============================================================================
