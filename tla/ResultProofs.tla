---------------------------- MODULE ResultProofs ----------------------------
(***************************************************************************)
(* Proofs about what a call returns: the row sets of PgRun, for batches of *)
(* any length, any number of rows, any row limit and any chunk size, and   *)
(* the tables of CatalogLoad, for any number of tables, any foreign keys   *)
(* in and out of their schema and any number of changes by other sessions. *)
(*                                                                         *)
(* The properties of PgRun speak of the statements already in the result;  *)
(* to keep them, the invariant relates the counters of the row set being   *)
(* read to the rows the server sent (Counters), says when the loop can     *)
(* have sent its own cancel (Stopping), and ties the length of the result  *)
(* to the statement being executed (Progressing).                          *)
(*                                                                         *)
(* Those of CatalogLoad speak of a call that has returned; on the way      *)
(* there a part of a table's answer is read already or its query is still  *)
(* to come (Loaded).  That a query which runs does store what it read      *)
(* needs the order of the queries (KeysAfterColumns), that one which fails *)
(* leaves no gap needs that only sizes are passed over (OnlySizes).  No    *)
(* incoming key is false because what was read of a table that nobody      *)
(* touched is its present version, also on a call whose results were cut   *)
(* (ReadAsIs).                                                             *)
(***************************************************************************)
EXTENDS PgRun, CatalogLoad, TLAPS

(***************************************************************************)
(* PostgresDatabase::run.                                                  *)
(***************************************************************************)
\* A batch is not empty, and an empty statement is a batch of its own.
Batch ==
    /\ Len(batch) >= 1
    /\ \A i \in 1 .. Len(batch) : batch[i] = "empty" => Len(batch) = 1

\* A row set is being read only of a read and only with a limit; kept holds
\* the rows sent so far, up to the limit.
Counters ==
    /\ at \in 1 .. Len(batch) + 1
    /\ at <= Len(batch) => sent <= total
    /\ streaming => /\ capped
                    /\ at <= Len(batch)
                    /\ batch[at] = "read"
                    /\ sent = seen
                    /\ kept = Least(limit, seen)
    /\ ~streaming => kept = 0 /\ seen = 0
    /\ ~streaming /\ at <= Len(batch) => sent = 0

\* The loop cancels only a read that is the whole batch, past the limit.
Stopping ==
    stopped => /\ stoppable
               /\ streaming \/ at > Len(batch)
               /\ streaming => seen > limit

\* As long as nothing failed, the result has one entry per statement executed.
Progressing ==
    /\ Len(out) <= at - 1
    /\ (\A i \in 1 .. Len(out) : out[i].success) =>
            Len(out) = at - 1 \/ (out = <<>> /\ at > Len(batch))
    /\ done => at = Len(batch) + 1

\* What the properties say of one statement's result.
Faithful(r) ==
    /\ limit > 0 => r.kept <= limit
    /\ limit <= 0 => ~r.limited
    /\ r.success => r.kept = IF r.limited THEN limit ELSE r.rows

Results == \A i \in 1 .. Len(out) : Faithful(out[i])

RunInv == RunTypeOK /\ Batch /\ Counters /\ Stopping /\ Progressing /\ Results

----------------------------------------------------------------------------
\* Keeping n more rows keeps the rows kept at the smaller of limit and rows seen.
LEMMA AppendedKeeps ==
  ASSUME limit \in Int, capped, NEW n \in Nat, NEW h \in Nat
  PROVE  Least(limit, h) + Appended(n, Least(limit, h)) = Least(limit, h + n)
BY DEF Appended, Least, capped

\* appendPgRows never takes rows that are not there.
LEMMA AppendedType ==
  ASSUME limit \in Int, NEW n \in Nat, NEW h \in Nat
  PROVE  Appended(n, h) \in Nat
BY DEF Appended, Least, capped

\* One more result keeps what is known of all of them.
LEMMA AppendStep ==
  ASSUME RunTypeOK, Results, NEW r \in Statement, Faithful(r), UNCHANGED limit,
         out' = Append(out, r)
  PROVE  Results' /\ out' \in Seq(Statement) /\ Len(out') = Len(out) + 1
<1>1. Len(out') = Len(out) + 1 /\ out' \in Seq(Statement)
  BY DEF RunTypeOK
<1>2. \A i \in 1 .. Len(out') : out'[i] = IF i <= Len(out) THEN out[i] ELSE r
  BY <1>1 DEF RunTypeOK
<1>3. QED
  BY <1>1, <1>2 DEF Results, Faithful, RunTypeOK

\* A statement's result is what its fields say.
LEMMA FaithfulRecord ==
  ASSUME NEW b \in BOOLEAN, NEW k \in Nat, NEW n \in Nat, NEW l \in BOOLEAN,
         limit > 0 => k <= limit, limit <= 0 => ~l,
         b => k = IF l THEN limit ELSE n,
         NEW r, r = [success |-> b, kept |-> k, rows |-> n, limited |-> l]
  PROVE  r \in Statement /\ Faithful(r) /\ r.success = b
<1>1. r.success = b /\ r.kept = k /\ r.rows = n /\ r.limited = l
  BY Zenon
<1>2. r \in Statement
  BY Zenon DEF Statement
<1>3. Faithful(r)
  BY <1>1, Zenon DEF Faithful
<1>4. QED
  BY <1>1, <1>2, <1>3

\* A statement that ends well, with result r, and the next one begins.
LEMMA StatementStep ==
  ASSUME RunInv, NEW r \in Statement, Faithful(r), r.success,
         ~done, at <= Len(batch), batch[at] # "empty",
         out' = Append(out, r), NextStatement,
         streaming' = FALSE, kept' = 0, seen' = 0,
         UNCHANGED <<input, stopped, done, spin>>
  PROVE  RunInv'
<1> USE RunAssumption DEF RunInv, NextStatement, input
<1>1. Results' /\ out' \in Seq(Statement) /\ Len(out') = Len(out) + 1
  BY AppendStep
<1>2. at \in Nat /\ Len(batch) \in Nat /\ Len(out) \in Nat
  BY DEF RunTypeOK
<1>3. RunTypeOK'
  <2>1. at' \in Nat /\ total' \in Nat /\ sent' \in Nat
    BY <1>2
  <2>2. streaming' \in BOOLEAN /\ stopped' \in BOOLEAN /\ done' \in BOOLEAN /\ spin' \in BOOLEAN
    BY Zenon DEF RunTypeOK
  <2>3. QED
    BY <1>1, <2>1, <2>2 DEF RunTypeOK
<1>4. Batch'
  BY DEF Batch
<1>5. Counters'
  BY <1>2, <1>3 DEF Counters, RunTypeOK
<1>6. Stopping'
  <2> SUFFICES ASSUME stopped PROVE stoppable /\ at' > Len(batch)
    BY DEF Stopping, stoppable, stoppableRead, capped
  <2>1. stoppable /\ Len(batch) = 1
    BY DEF Stopping, stoppable, stoppableRead
  <2>2. QED
    BY <1>2, <2>1 DEF Counters
<1>7. Progressing'
  <2>1. \A i \in 1 .. Len(out) : out'[i] = out[i]
    BY DEF RunTypeOK
  <2>2. out = <<>> => Len(out) = 0
    OBVIOUS
  <2>3. QED
    BY <1>1, <1>2, <2>1, <2>2 DEF Progressing
<1>8. QED
  BY <1>1, <1>3, <1>4, <1>5, <1>6, <1>7

\* A chunk of rows keeps the counters of its row set right.
LEMMA ChunkStep ==
  ASSUME RunInv, Chunk
  PROVE  RunInv'
<1> USE RunAssumption DEF RunInv, input
<1> DEFINE n == Least(Least(limit, ChunkCap), total - sent)
<1>1. /\ limit \in Int /\ limit > 0 /\ limit' = limit
      /\ at \in Nat /\ Len(batch) \in Nat /\ at <= Len(batch)
      /\ total \in Nat /\ sent \in Nat /\ sent < total /\ seen \in Nat
      /\ batch[at] = "read"
  BY DEF RunTypeOK, Chunk, Executing, capped
<1>2. n \in Nat /\ n >= 1 /\ sent + n <= total
  BY <1>1 DEF Least
<1>3. kept = Least(limit, seen) /\ sent = seen /\ kept \in Nat
  BY <1>1 DEF Counters, Least, RunTypeOK
<1>4. /\ sent' = sent + n /\ seen' = seen + n
      /\ kept' = kept + Appended(n, kept)
  BY DEF Chunk
<1>5. kept' = Least(limit, seen') /\ kept' \in Nat
  <2>1. kept' = Least(limit, seen + n)
    BY <1>1, <1>2, <1>3, <1>4, AppendedKeeps DEF Chunk
  <2>2. Appended(n, kept) \in Nat
    BY <1>1, <1>2, <1>3, AppendedType
  <2>3. QED
    BY <1>3, <1>4, <2>1, <2>2
<1>6. RunTypeOK'
  <2>1. streaming' \in BOOLEAN /\ stopped' \in BOOLEAN /\ done' \in BOOLEAN /\ spin' \in BOOLEAN
    BY Zenon DEF Chunk, RunTypeOK
  <2>2. QED
    BY <1>1, <1>2, <1>4, <1>5, <2>1 DEF RunTypeOK, Chunk
<1>7. Batch'
  BY DEF Batch, Chunk
<1>8. Counters'
  BY <1>1, <1>2, <1>3, <1>4, <1>5 DEF Counters, Chunk, capped
<1>9. Stopping'
  <2> SUFFICES ASSUME stopped' PROVE stoppable' /\ streaming' /\ seen' > limit
    BY <1>1 DEF Stopping
  <2>1. streaming' /\ stoppable' = stoppable
    BY DEF Chunk, stoppable, stoppableRead, capped
  <2>2. CASE stopped
    <3>1. streaming
      BY <1>1, <2>2 DEF Stopping
    <3>2. QED
      BY <1>1, <1>2, <1>4, <2>1, <2>2, <3>1 DEF Stopping
  <2>3. CASE ~stopped
    <3>1. stoppable /\ seen' > limit
      BY <2>3 DEF Chunk
    <3>2. QED
      BY <2>1, <3>1
  <2>4. QED
    BY <2>2, <2>3
<1>10. Progressing' /\ Results'
  BY <1>1 DEF Progressing, Results, Faithful, Chunk
<1>11. QED
  BY <1>6, <1>7, <1>8, <1>9, <1>10

\* An error ends the batch; only a read that was the whole batch and that the
\* loop stopped itself counts as a success.
LEMMA ErrorStep ==
  ASSUME RunInv, Error
  PROVE  RunInv'
<1> USE RunAssumption DEF RunInv, input
<1> DEFINE r == IF streaming /\ stopped THEN Rows(kept, total, TRUE, seen) ELSE Failed
<1>1. /\ limit \in Int /\ limit' = limit /\ batch' = batch
      /\ at \in Nat /\ Len(batch) \in Nat /\ at <= Len(batch) /\ at >= 1
      /\ at' = Len(batch) + 1 /\ Len(out) \in Nat
      /\ total \in Nat /\ kept \in Nat /\ seen \in Nat
  BY DEF RunTypeOK, Error, Counters
<1>2. r \in Statement /\ Faithful(r) /\ (r.success => Len(batch) = 1)
  <2>1. CASE streaming /\ stopped
    <3>1. r = [success |-> TRUE, kept |-> kept, rows |-> total, limited |-> TRUE]
      BY <2>1 DEF Rows, SaysLimited
    <3>2. kept = limit /\ limit > 0 /\ Len(batch) = 1
      BY <1>1, <2>1 DEF Counters, Stopping, Least, capped, stoppable, stoppableRead
    <3>3. limit > 0 => kept <= limit
      BY <1>1, <3>2
    <3>4. ~(limit <= 0)
      BY <1>1, <3>2
    <3>5. r \in Statement /\ Faithful(r)
      BY <1>1, <3>1, <3>2, <3>3, <3>4, FaithfulRecord, Zenon
    <3>6. QED
      BY <3>2, <3>5
  <2>2. CASE ~(streaming /\ stopped)
    <3>1. r = [success |-> FALSE, kept |-> 0, rows |-> 0, limited |-> FALSE]
      BY <2>2 DEF Failed
    <3>2. (limit > 0 => 0 <= limit) /\ 0 \in Nat
      BY <1>1
    <3>3. r \in Statement /\ Faithful(r) /\ r.success = FALSE
      BY <3>1, <3>2, FaithfulRecord, Zenon
    <3>4. QED
      BY <3>3
  <2>3. QED
    BY <2>1, <2>2
<1> HIDE DEF r
<1>3. out' = Append(out, r)
  BY DEF Error, r
<1>4. Results' /\ out' \in Seq(Statement) /\ Len(out') = Len(out) + 1
  BY <1>1, <1>2, <1>3, AppendStep
<1>5. RunTypeOK'
  <2>1. streaming' \in BOOLEAN /\ stopped' \in BOOLEAN /\ done' \in BOOLEAN /\ spin' \in BOOLEAN
    BY Zenon DEF Error, RunTypeOK
  <2>2. at' \in Nat /\ total' \in Nat /\ sent' \in Nat /\ kept' \in Nat /\ seen' \in Nat
    BY <1>1 DEF RunTypeOK, Error
  <2>3. batch' \in Seq(Kinds) /\ limit' \in Limits /\ idle' \in BOOLEAN
    BY Zenon DEF Error, RunTypeOK
  <2>4. QED
    BY <1>4, <2>1, <2>2, <2>3 DEF RunTypeOK
<1>6. Batch'
  BY <1>1 DEF Batch
<1>7. Counters'
  BY <1>1 DEF Counters, Error
<1>8. Stopping'
  <2> SUFFICES ASSUME stopped' PROVE stoppable' /\ at' > Len(batch')
    BY DEF Stopping, Error
  <2>1. stoppable' = stoppable /\ stopped
    BY DEF Error, stoppable, stoppableRead, capped
  <2>2. QED
    BY <1>1, <2>1 DEF Stopping
<1>9. Progressing'
  <2>1. out'[Len(out) + 1] = r /\ Len(out) + 1 \in 1 .. Len(out')
    BY <1>1, <1>3, <1>4 DEF RunTypeOK
  <2>2. \A i \in 1 .. Len(out) : out'[i] = out[i]
    BY <1>3 DEF RunTypeOK
  <2>3. ASSUME \A i \in 1 .. Len(out') : out'[i].success
        PROVE  Len(out') = at' - 1
    <3>1. Len(batch) = 1 /\ at = 1
      <4>1. r.success
        BY <2>1, <2>3, Zenon
      <4>2. Len(batch) = 1
        BY <1>2, <4>1, Zenon
      <4>3. QED
        BY <1>1, <4>2
    <3>2. Len(out) = 0
      BY <1>1, <3>1 DEF Progressing
    <3>3. QED
      BY <1>1, <1>4, <3>1, <3>2
  <2>4. Len(out') <= at' - 1 /\ (done' => at' = Len(batch') + 1)
    BY <1>1, <1>4 DEF Progressing, Error
  <2>5. QED
    BY <2>3, <2>4 DEF Progressing
<1>10. QED
  BY <1>4, <1>5, <1>6, <1>7, <1>8, <1>9

----------------------------------------------------------------------------
\* Whatever the server answers, the invariant of the loop is kept.
LEMMA LoopStep ==
  ASSUME RunInv, [RunNext]_runVars
  PROVE  RunInv'
<1> USE RunAssumption DEF input
<1>num. /\ limit \in Int /\ at \in Nat /\ Len(batch) \in Nat /\ Len(out) \in Nat
        /\ total \in Nat /\ sent \in Nat /\ kept \in Nat /\ seen \in Nat
  BY DEF RunInv, RunTypeOK
<1>1. CASE Chunk
  BY <1>1, ChunkStep
<1>2. CASE LastChunk
  <2> DEFINE l == SaysLimited(seen, FALSE)
             r == Rows(kept, total, FALSE, seen)
  <2>1. /\ capped /\ seen = total /\ kept = Least(limit, total)
        /\ at <= Len(batch) /\ batch[at] = "read" /\ ~done
    BY <1>2, <1>num DEF RunInv, Counters, LastChunk, Executing
  <2>2. /\ limit > 0 /\ kept <= limit /\ ~(limit <= 0)
        /\ l <=> total > limit
    BY <1>num, <2>1 DEF Least, SaysLimited, capped
  <2>3. kept = IF l THEN limit ELSE total
    <3>1. kept = IF total > limit THEN limit ELSE total
      BY <1>num, <2>1 DEF Least
    <3>2. QED
      BY <2>2, <3>1, Zenon
  <2>4. l \in BOOLEAN
    BY Zenon DEF SaysLimited
  <2>5. r = [success |-> TRUE, kept |-> kept, rows |-> total, limited |-> l]
    BY DEF Rows
  <2> HIDE DEF r, l
  <2>6. r \in Statement /\ Faithful(r) /\ r.success = TRUE
    BY <1>num, <2>2, <2>3, <2>4, <2>5, FaithfulRecord, Zenon
  <2>7. out' = Append(out, r)
    BY <1>2 DEF LastChunk, r
  <2>8. QED
    BY <1>2, <2>1, <2>6, <2>7, StatementStep DEF LastChunk
<1>3. CASE WholeRows
  <2> DEFINE l == SaysLimited(total, FALSE)
             k == Appended(total, 0)
             r == Rows(k, total, FALSE, total)
  <2>1. /\ ~streaming /\ kept = 0 /\ seen = 0 /\ (capped => total = 0)
        /\ at <= Len(batch) /\ batch[at] = "read" /\ ~done
    BY <1>3 DEF RunInv, Counters, WholeRows, Executing
  <2>2. k = total /\ ~l
    BY <1>num, <2>1 DEF Appended, Least, SaysLimited, capped
  <2>3. limit > 0 => total <= limit
    BY <1>num, <2>1 DEF capped
  <2>4. l = FALSE
    BY <2>2, Zenon DEF SaysLimited
  <2>5. r = [success |-> TRUE, kept |-> total, rows |-> total, limited |-> FALSE]
    BY <2>2, <2>4, Zenon DEF Rows
  <2> HIDE DEF r, l, k
  <2>6. r \in Statement /\ Faithful(r) /\ r.success = TRUE
    BY <1>num, <2>3, <2>5, FaithfulRecord, Zenon
  <2>7. out' = Append(out, r)
    BY <1>3 DEF WholeRows, r, k
  <2>8. streaming' = FALSE /\ kept' = 0 /\ seen' = 0
    BY <1>3, <2>1 DEF WholeRows, RunInv, RunTypeOK
  <2>9. QED
    BY <1>3, <2>1, <2>6, <2>7, <2>8, StatementStep DEF WholeRows
<1>4. CASE CommandOk
  <2>1. /\ ~streaming /\ kept = 0 /\ seen = 0
        /\ at <= Len(batch) /\ batch[at] = "write" /\ ~done
    BY <1>4 DEF RunInv, Counters, CommandOk, Executing
  <2>2. (limit > 0 => 0 <= limit) /\ 0 \in Nat
    BY <1>num
  <2>3. Command \in Statement /\ Faithful(Command) /\ Command.success = TRUE
    BY <2>2, FaithfulRecord, Zenon DEF Command
  <2>4. streaming' = FALSE /\ kept' = 0 /\ seen' = 0
    BY <1>4, <2>1 DEF CommandOk, RunInv, RunTypeOK
  <2>5. QED
    BY <1>4, <2>1, <2>3, <2>4, StatementStep DEF CommandOk
<1>5. CASE EmptyQuery
  <2>1. /\ ~streaming /\ Len(batch) = 1 /\ at = 1 /\ ~done
    BY <1>5, <1>num DEF RunInv, Counters, Batch, EmptyQuery, Executing
  <2>2. /\ at' = 2 /\ sent' = 0 /\ total' \in Nat
        /\ UNCHANGED <<batch, limit, idle, streaming, kept, seen, stopped, out, done, spin>>
    BY <1>5, <2>1 DEF EmptyQuery, NextStatement
  <2>3. Len(out) = 0 /\ out = <<>>
    BY <1>num, <2>1 DEF RunInv, Progressing, RunTypeOK
  <2>4. RunTypeOK' /\ Batch' /\ Results'
    BY <2>2 DEF RunInv, RunTypeOK, Batch, Results, Faithful
  <2>5. Counters' /\ Progressing'
    <3>1. Counters'
      BY <1>num, <2>1, <2>2 DEF RunInv, Counters
    <3>2. Len(out') = 0 /\ out' = <<>> /\ Len(batch') = 1 /\ ~done'
      BY <2>1, <2>2, <2>3
    <3>3. Progressing'
      BY <2>2, <3>2 DEF Progressing
    <3>4. QED
      BY <3>1, <3>3
  <2>6. Stopping'
    BY <2>1, <2>2 DEF RunInv, Stopping, stoppable, stoppableRead, capped
  <2>7. QED
    BY <2>4, <2>5, <2>6 DEF RunInv
<1>6. CASE CopyResult \/ UNCHANGED runVars
  <2>1. UNCHANGED <<batch, limit, idle, at, total, sent, streaming, kept, seen, stopped, out, done>>
    BY <1>6 DEF CopyResult, runVars
  <2>2. spin' \in BOOLEAN
    BY <1>6, Zenon DEF CopyResult, runVars, RunInv, RunTypeOK
  <2>3. RunTypeOK' /\ Batch' /\ Results'
    BY <2>1, <2>2 DEF RunInv, RunTypeOK, Batch, Results, Faithful
  <2>4. Counters' /\ Progressing' /\ Stopping'
    BY <2>1 DEF RunInv, Counters, Progressing, Stopping, stoppable, stoppableRead, capped
  <2>5. QED
    BY <2>3, <2>4 DEF RunInv
<1>7. CASE Error
  BY <1>7, ErrorStep
<1>8. CASE NoMoreResults
  <2>1. /\ done' = TRUE /\ at > Len(batch)
        /\ UNCHANGED <<batch, limit, idle, at, total, sent, streaming, kept, seen, stopped, out, spin>>
    BY <1>8 DEF NoMoreResults
  <2>2. RunTypeOK' /\ Batch' /\ Results'
    BY <2>1 DEF RunInv, RunTypeOK, Batch, Results, Faithful
  <2>3. Counters' /\ Progressing' /\ Stopping'
    BY <1>num, <2>1 DEF RunInv, Counters, Progressing, Stopping, stoppable, stoppableRead, capped
  <2>4. QED
    BY <2>2, <2>3 DEF RunInv
<1>9. QED
  BY <1>1, <1>2, <1>3, <1>4, <1>5, <1>6, <1>7, <1>8 DEF RunNext

\* The invariant holds in every behaviour of the loop.
THEOREM RunInvCorrect == RunSpec => []RunInv
<1>1. RunInit => RunInv
  <2> SUFFICES ASSUME RunInit PROVE RunInv
    OBVIOUS
  <2> USE RunAssumption
  <2>1. PICK n \in Nat : n >= 1 /\ batch \in [1 .. n -> Kinds]
                         /\ \A i \in 1 .. n : batch[i] = "empty" => n = 1
    <3>1. CASE batch \in [1 .. 1 -> Kinds]
      BY <3>1
    <3>2. CASE batch \in UNION {[1 .. m -> Kinds \ {"empty"}] : m \in 1 .. MaxStatements}
      <4>1. PICK m \in 1 .. MaxStatements : batch \in [1 .. m -> Kinds \ {"empty"}]
        BY <3>2
      <4>2. m \in Nat /\ m >= 1 /\ batch \in [1 .. m -> Kinds]
        BY <4>1
      <4>3. \A i \in 1 .. m : batch[i] # "empty"
        BY <4>1
      <4>4. QED
        BY <4>2, <4>3
    <3>3. QED
      BY <3>1, <3>2 DEF RunInit, Batches
  <2>2. Len(batch) = n /\ batch \in Seq(Kinds)
    BY <2>1
  <2>3. RunTypeOK
    <3>1. total \in Nat
      BY DEF RunInit
    <3>2. out \in Seq(Statement)
      BY DEF RunInit
    <3>3. streaming \in BOOLEAN /\ stopped \in BOOLEAN /\ done \in BOOLEAN /\ spin \in BOOLEAN
      BY Zenon DEF RunInit
    <3>4. QED
      BY <2>2, <3>1, <3>2, <3>3 DEF RunTypeOK, RunInit
  <2>4. Batch
    BY <2>1, <2>2 DEF Batch
  <2>5. Counters /\ Stopping /\ Progressing /\ Results
    BY <2>1, <2>2, <2>3 DEF Counters, Stopping, Progressing, Results, RunInit, RunTypeOK
  <2>6. QED
    BY <2>3, <2>4, <2>5 DEF RunInv
<1>2. RunInv /\ [RunNext]_runVars => RunInv'
  BY LoopStep
<1>3. QED
  BY <1>1, <1>2, PTL DEF RunSpec

\* The state of the loop keeps its types.
THEOREM RunTypeCorrect == RunSpec => []RunTypeOK
<1>1. RunInv => RunTypeOK
  BY DEF RunInv
<1>2. QED
  BY <1>1, RunInvCorrect, PTL

\* A row limit is never exceeded, whatever the chunks.
THEOREM LimitCorrect == RunSpec => []RowsWithinLimit
<1>1. RunInv => RowsWithinLimit
  BY DEF RunInv, Results, Faithful, RowsWithinLimit, RunTypeOK
<1>2. QED
  BY <1>1, RunInvCorrect, PTL

\* A row set not said to be limited is complete; one that is holds rowLimit rows.
THEOREM TruncationCorrect == RunSpec => []NoSilentTruncation
<1>1. RunInv => NoSilentTruncation
  BY DEF RunInv, Results, Faithful, NoSilentTruncation, RunTypeOK
<1>2. QED
  BY <1>1, RunInvCorrect, PTL

\* A batch reported as successful was executed to its last statement.
THEOREM WholeBatchCorrect == RunSpec => []SuccessIsWholeBatch
<1>1. RunInv => SuccessIsWholeBatch
  BY DEF RunInv, Progressing, Success, SuccessIsWholeBatch, RunTypeOK
<1>2. QED
  BY <1>1, RunInvCorrect, PTL

----------------------------------------------------------------------------
(***************************************************************************)
(* The catalog calls.                                                      *)
(***************************************************************************)
Query == [part : Parts, fails : {"throw", "skip", "retry"}]

\* A part has a query that is still to come.
Pending(p) == \E i \in DOMAIN todo : todo[i].part = p

\* Before the names there is nothing to ask, and a call returns with nothing left to ask.
Phases ==
    /\ state = "names" => names = {} /\ left = {} /\ about = {} /\ todo = <<>>
    /\ state = "returned" => left = {} /\ todo = <<>>

\* Only sizes may be passed over.
OnlySizes == \A i \in DOMAIN todo : todo[i].fails = "skip" => todo[i].part = "size"

\* The names are those of the tables that exist, as far as nobody changed them.
Listed ==
    state \in {"loading", "returned"} /\ ~cut /\ call # "describe" =>
        \A t \in stable : t \in names <=> t \in Existing

\* Keys are read after the columns they are flags of.
KeysAfterColumns ==
    ~cut => \A i \in DOMAIN todo : todo[i].part = "primaryKeys" =>
        \A t \in stable \cap about \cap Existing :
            got[t]["columns"] > 0 \/ \E j \in 1..(i - 1) : todo[j].part = "columns"

\* A listed table that nobody changed has each part it is owed, or the query is to come.
Loaded ==
    state \in {"loading", "returned"} /\ ~cut =>
        \A t \in stable \cap names \cap Existing : \A p \in Owed :
            t \in left \/ (t \in about /\ Pending(p)) \/ got[t][p] = version[t]

\* What was read of a table that nobody changed is what it is.
ReadAsIs == \A t \in stable : \A p \in Parts : got[t][p] \in {0, version[t]}

\* The incoming keys are the ones of the answer.
Filed == state = "returned" /\ call = "tables" => incoming = populateIncomingForeignKeys

CatalogInv ==
    /\ TypeOK /\ Phases /\ OnlySizes /\ Listed /\ KeysAfterColumns /\ Loaded /\ Filed
    /\ ReadAsIs

\* What the tables of queries say: sizes are the only optional part, columns come before keys,
\* and a listing of tables reads their foreign keys.
LEMMA QueriesFacts ==
  ASSUME NEW e \in Engines, NEW c \in Calls
  PROVE  /\ Queries(e, c) \in Seq(Query)
         /\ \A i \in DOMAIN Queries(e, c) :
                Queries(e, c)[i].fails = "skip" => Queries(e, c)[i].part = "size"
         /\ \A i \in DOMAIN Queries(e, c) : Queries(e, c)[i].part = "primaryKeys" =>
                \E j \in 1..(i - 1) : Queries(e, c)[j].part = "columns"
         /\ c = "tables" =>
                \E i \in DOMAIN Queries(e, c) : Queries(e, c)[i].part = "foreignKeys"
<1> DEFINE Good(s) ==
      /\ s \in Seq(Query)
      /\ \A i \in DOMAIN s : s[i].fails = "skip" => s[i].part = "size"
      /\ \A i \in DOMAIN s : s[i].part = "primaryKeys" => \E j \in 1..(i - 1) : s[j].part = "columns"
<1>1. Good(<<>>)
  OBVIOUS
<1>2. Good(<<Reader("columns")>>)
  BY DEF Reader, Query, Parts
<1>3. Good(tablesIn) /\ \E i \in DOMAIN tablesIn : tablesIn[i].part = "foreignKeys"
  <2>1. /\ Len(tablesIn) = 3 /\ tablesIn \in Seq(Query) /\ DOMAIN tablesIn = 1..3
        /\ tablesIn[1] = Reader("columns") /\ tablesIn[2] = Retried("foreignKeys")
        /\ tablesIn[3] = Optional("size")
    BY DEF tablesIn, Reader, Retried, Optional, Query, Parts
  <2>2. QED
    BY <2>1 DEF Reader, Retried, Optional
<1>4. /\ Good(loadTablesForSchema)
      /\ \E i \in DOMAIN loadTablesForSchema : loadTablesForSchema[i].part = "foreignKeys"
  <2>1. /\ loadTablesForSchema \in Seq(Query) /\ DOMAIN loadTablesForSchema = 1..4
        /\ loadTablesForSchema[1] = Reader("columns") /\ loadTablesForSchema[2] = Reader("primaryKeys")
        /\ loadTablesForSchema[3] = Reader("foreignKeys") /\ loadTablesForSchema[4] = Reader("indexes")
    BY DEF loadTablesForSchema, Reader, Query, Parts
  <2>2. QED
    BY <2>1 DEF Reader
<1>5. describeTableInSchema = loadTablesForSchema /\ oracleReaders = loadTablesForSchema
  BY DEF describeTableInSchema, oracleReaders, loadTablesForSchema
<1>6. Good(describeIn)
  <2>1. /\ describeIn \in Seq(Query) /\ DOMAIN describeIn = 1..5
        /\ describeIn[1] = Reader("columns") /\ describeIn[2] = Reader("primaryKeys")
        /\ describeIn[3] = Reader("indexes") /\ describeIn[4] = Reader("foreignKeys")
        /\ describeIn[5] = Optional("size")
    BY DEF describeIn, Reader, Optional, Query, Parts
  <2>2. QED
    BY <2>1 DEF Reader, Optional
<1>7. /\ Good(sqliteLoad(FALSE)) /\ sqliteLoad(TRUE) = <<Reader("columns")>>
      /\ \E i \in DOMAIN sqliteLoad(FALSE) : sqliteLoad(FALSE)[i].part = "foreignKeys"
  <2>1. /\ sqliteLoad(FALSE) \in Seq(Query) /\ DOMAIN sqliteLoad(FALSE) = 1..4
        /\ sqliteLoad(FALSE)[1] = Reader("columns") /\ sqliteLoad(FALSE)[2] = Reader("foreignKeys")
        /\ sqliteLoad(FALSE)[3] = Reader("indexes") /\ sqliteLoad(FALSE)[4] = Optional("size")
    BY DEF sqliteLoad, sqliteSize, Reader, Optional, Query, Parts
  <2>2. sqliteLoad(TRUE) = <<Reader("columns")>>
    BY DEF sqliteLoad
  <2>3. ASSUME NEW s, s = sqliteLoad(FALSE)
        PROVE  Good(s) /\ \E i \in DOMAIN s : s[i].part = "foreignKeys"
    <3>1. /\ s[4] = Optional("size") /\ DOMAIN s = 1..4 /\ s[2] = Reader("foreignKeys") /\ s[3] = Reader("indexes")
          /\ s[1] = Reader("columns") /\ s \in Seq(Query)
      BY <2>1, <2>3
    <3>2. QED
      BY ONLY <3>1 DEF Reader, Optional
  <2>4. QED
    BY <2>2, <2>3
<1>8. /\ Good(duckdbLoad(FALSE)) /\ duckdbLoad(TRUE) = <<Reader("columns")>>
      /\ \E i \in DOMAIN duckdbLoad(FALSE) : duckdbLoad(FALSE)[i].part = "foreignKeys"
  <2>1. /\ duckdbLoad(FALSE) \in Seq(Query) /\ DOMAIN duckdbLoad(FALSE) = 1..3
        /\ duckdbLoad(FALSE)[1] = Reader("columns") /\ duckdbLoad(FALSE)[2] = Reader("indexes")
        /\ duckdbLoad(FALSE)[3] = Reader("foreignKeys")
    BY DEF duckdbLoad, Reader, Query, Parts
  <2>2. duckdbLoad(TRUE) = <<Reader("columns")>>
    BY DEF duckdbLoad
  <2>3. ASSUME NEW s, s = duckdbLoad(FALSE)
        PROVE  Good(s) /\ \E i \in DOMAIN s : s[i].part = "foreignKeys"
    <3>1. /\ s[2] = Reader("indexes") /\ DOMAIN s = 1..3 /\ s[3] = Reader("foreignKeys")
          /\ s[1] = Reader("columns") /\ s \in Seq(Query)
      BY <2>1, <2>3
    <3>2. QED
      BY ONLY <3>1 DEF Reader
  <2>4. QED
    BY <2>2, <2>3
<1> HIDE DEF Good
<1>9. CASE c = "tables"
  <2>1. /\ e = "postgres" => Queries(e, c) = tablesIn
        /\ e = "mssql" => Queries(e, c) = loadTablesForSchema
        /\ e = "oracle" => Queries(e, c) = oracleReaders
        /\ e = "sqlite" => Queries(e, c) = sqliteLoad(FALSE)
        /\ e = "duckdb" => Queries(e, c) = duckdbLoad(FALSE)
    BY <1>9 DEF Queries, oracleTables
  <2>2. Good(Queries(e, c)) /\ \E i \in DOMAIN Queries(e, c) : Queries(e, c)[i].part = "foreignKeys"
    BY <1>3, <1>4, <1>5, <1>7, <1>8, <2>1 DEF Engines
  <2>3. QED
    BY <2>2 DEF Good
<1>10. CASE c # "tables"
  <2>1. CASE c = "views"
    <3>1. Queries(e, c) = <<Reader("columns")>>
      <4>1. /\ e = "sqlite" => Queries(e, c) = sqliteLoad(TRUE)
            /\ e = "duckdb" => Queries(e, c) = duckdbLoad(TRUE)
        BY <2>1 DEF Queries
      <4>2. e \in {"postgres", "mssql", "oracle"} => Queries(e, c) = <<Reader("columns")>>
        BY <2>1 DEF Queries, viewsIn, loadViewsForSchema, oracleViews
      <4>3. QED
        BY <1>7, <1>8, <4>1, <4>2 DEF Engines
    <3>2. QED
      BY <1>2, <1>10, <3>1 DEF Good
  <2>2. CASE c = "materializedViews"
    <3>1. Queries(e, c) = <<Reader("columns")>>
      BY <2>2 DEF Queries, materializedViewsIn
    <3>2. QED
      BY <1>2, <1>10, <3>1 DEF Good
  <2>3. CASE c = "names"
    <3>1. Queries(e, c) = <<>>
      BY <2>3 DEF Queries, Engines, routinesIn, loadRoutinesForSchema, oracleRoutines, sequences
    <3>2. QED
      BY <1>1, <1>10, <3>1 DEF Good
  <2>4. CASE c = "describe"
    <3>1. /\ e = "postgres" => Queries(e, c) = describeIn
          /\ e = "mssql" => Queries(e, c) = describeTableInSchema
          /\ e = "oracle" => Queries(e, c) = oracleReaders
          /\ e = "sqlite" => Queries(e, c) = sqliteLoad(FALSE)
          /\ e = "duckdb" => Queries(e, c) = duckdbLoad(FALSE)
      BY <2>4 DEF Queries, oracleDescribe
    <3>2. Good(Queries(e, c))
      BY <1>4, <1>5, <1>6, <1>7, <1>8, <3>1 DEF Engines
    <3>3. QED
      BY <1>10, <3>2 DEF Good
  <2>5. QED
    BY <1>10, <2>1, <2>2, <2>3, <2>4 DEF Calls
<1>11. QED
  BY <1>9, <1>10

\* Every call begins so.
LEMMA CatalogStarts == Init => CatalogInv
<1> SUFFICES ASSUME Init PROVE CatalogInv
  OBVIOUS
<1>0. todo = <<>> /\ DOMAIN todo = {} /\ MaxDdl \in Nat
  BY CatalogAssumption DEF Init
<1>1. TypeOK
  <2>1. version \in [Tables -> Versions]
    BY <1>0 DEF Init, Versions
  <2>2. got \in [Tables -> [Parts -> Versions]]
    BY <1>0 DEF Init, Nothing, Versions
  <2>3. call \in Calls /\ names \subseteq Tables
    BY DEF Init
  <2>4. /\ left \subseteq names /\ about \subseteq names
        /\ state \in {"names", "loading", "returned", "threw"}
    BY DEF Init
  <2>5. todo \in Seq([part : Parts, fails : {"throw", "skip", "retry"}])
    BY <1>0
  <2>6. ddl \in 0..MaxDdl /\ stable \subseteq Tables /\ engine \in Engines
    BY <1>0 DEF Init
  <2>7. cut \in BOOLEAN
    BY Zenon DEF Init
  <2>8. incoming \in [Tables -> SUBSET Tables] /\ \A t \in Tables \ names : got[t] = Nothing[t]
    BY DEF Init
  <2>9. QED
    BY <2>1, <2>2, <2>3, <2>4, <2>5, <2>6, <2>7, <2>8 DEF TypeOK
<1>2. /\ state \in {"names", "loading"} /\ left = names
      /\ state = "names" => names = {} /\ about = {}
      /\ state = "loading" => call = "describe"
  BY DEF Init
<1>3. Phases /\ OnlySizes
  BY <1>0, <1>2 DEF Phases, OnlySizes
<1>4. Listed /\ KeysAfterColumns /\ Loaded /\ Filed
  BY <1>0, <1>2 DEF Listed, KeysAfterColumns, Loaded, Filed
<1>5. ReadAsIs
  BY DEF Init, ReadAsIs, Nothing
<1>6. QED
  BY <1>1, <1>3, <1>4, <1>5 DEF CatalogInv

\* Another session's change takes its table out of the ones the call answers for.
LEMMA DdlKeeps ==
  ASSUME CatalogInv, NEW t \in Tables, Ddl(t)
  PROVE  CatalogInv'
<1>0. /\ TypeOK /\ MaxDdl \in Nat
      /\ state \in {"names", "loading"} /\ ddl' \in 0..MaxDdl /\ stable' = stable \ {t}
      /\ UNCHANGED <<engine, call, names, left, about, todo, got, state, incoming, cut>>
  BY CatalogAssumption DEF CatalogInv, Ddl, TypeOK
<1>1. /\ version' \in [Tables -> Versions]
      /\ \A s \in Tables \ {t} : version'[s] = version[s]
  BY <1>0 DEF Ddl, TypeOK, Versions
<1>2. \A s \in stable' : s \in Tables /\ s \in stable /\ version'[s] = version[s]
  BY <1>0, <1>1 DEF TypeOK
<1>3. \A s \in stable' : s \in Existing' <=> s \in Existing
  BY <1>2 DEF Existing
<1>4. TypeOK'
  BY <1>0, <1>1 DEF TypeOK
<1>5. Phases' /\ OnlySizes'
  BY <1>0 DEF CatalogInv, Phases, OnlySizes
<1>6. Listed'
  BY <1>0, <1>2, <1>3 DEF CatalogInv, Listed
<1>7. KeysAfterColumns'
  BY <1>0, <1>2, <1>3 DEF CatalogInv, KeysAfterColumns
<1>8. Loaded'
  BY <1>0, <1>2, <1>3 DEF CatalogInv, Loaded, Owed, Pending
<1>9. Filed'
  BY <1>0 DEF Filed
<1>10. ReadAsIs'
  BY <1>0, <1>2 DEF CatalogInv, ReadAsIs
<1>11. QED
  BY <1>4, <1>5, <1>6, <1>7, <1>8, <1>9, <1>10 DEF CatalogInv

\* The names query lists what exists, or a part of it that it knows to be cut.
LEMMA NamesKeep ==
  ASSUME CatalogInv, NamesQuery \/ NamesThrow
  PROVE  CatalogInv'
<1>0. /\ TypeOK /\ state = "names" /\ state' \in {"loading", "threw"}
      /\ names = {} /\ about = {} /\ todo = <<>> /\ DOMAIN todo = {}
      /\ UNCHANGED <<engine, call, version, ddl, stable, about, todo, got, incoming>>
  BY DEF CatalogInv, Phases, NamesQuery, NamesThrow
<1>1. /\ names' \subseteq Tables /\ left' \subseteq names'
      /\ state' = "loading" => left' = names' /\ (cut' \/ names' = Existing)
  <2>1. CASE NamesThrow
    BY <1>0, <2>1 DEF CatalogInv, Phases, TypeOK, NamesThrow
  <2>2. CASE NamesQuery
    <3>1. PICK ns \in SUBSET Existing : names' = ns /\ left' = ns /\ cut' = (cut \/ ns # Existing)
      BY <2>2 DEF NamesQuery
    <3>2. cut' \/ ns = Existing
      BY <3>1, Zenon
    <3>3. QED
      BY <3>1, <3>2 DEF Existing
  <2>3. QED
    BY <2>1, <2>2
<1>2. cut' \in BOOLEAN
  BY <1>0, Zenon DEF TypeOK, NamesQuery, NamesThrow
<1>3. TypeOK'
  BY <1>0, <1>1, <1>2 DEF TypeOK
<1>4. Phases' /\ OnlySizes' /\ KeysAfterColumns' /\ Filed'
  BY <1>0 DEF Phases, OnlySizes, KeysAfterColumns, Filed
<1>5. Listed' /\ Loaded'
  BY <1>0, <1>1 DEF Listed, Loaded, Existing
<1>6. ReadAsIs'
  BY <1>0 DEF CatalogInv, ReadAsIs
<1>7. QED
  BY <1>3, <1>4, <1>5, <1>6 DEF CatalogInv

\* The next load begins when nothing is left of the one before, which is why a table keeps
\* what was read of it.
LEMMA NextLoadKeeps ==
  ASSUME CatalogInv, NextLoad
  PROVE  CatalogInv'
<1> DEFINE qs == Queries(engine, call)
<1>0. /\ TypeOK /\ state = "loading" /\ todo = <<>> /\ DOMAIN todo = {} /\ todo' = qs
      /\ UNCHANGED <<engine, call, version, ddl, stable, names, got, state, incoming, cut>>
  BY DEF CatalogInv, NextLoad
<1>1. /\ qs \in Seq(Query)
      /\ \A i \in DOMAIN qs : qs[i].fails = "skip" => qs[i].part = "size"
      /\ \A i \in DOMAIN qs : qs[i].part = "primaryKeys" =>
             \E j \in 1..(i - 1) : qs[j].part = "columns"
  BY <1>0, QueriesFacts DEF TypeOK
<1> HIDE DEF qs
<1>2. about' \subseteq left /\ left' = left \ about'
  BY <1>0 DEF NextLoad
<1>3. TypeOK'
  BY <1>0, <1>1, <1>2 DEF TypeOK, Query
<1>4. Phases' /\ OnlySizes' /\ Filed' /\ KeysAfterColumns'
  BY <1>0, <1>1 DEF Phases, OnlySizes, Filed, KeysAfterColumns
<1>5. Listed'
  BY <1>0 DEF CatalogInv, Listed, Existing
<1>6. Owed' = Owed /\ Existing' = Existing
  BY <1>0 DEF Owed, Existing
<1>7. \A p \in Owed : Pending(p)'
  BY <1>0 DEF Owed, Pending, qs
<1>8. \A p : ~Pending(p)
  BY <1>0 DEF Pending
<1>9. Loaded'
  BY <1>0, <1>2, <1>6, <1>7, <1>8 DEF CatalogInv, Loaded
<1>10. ReadAsIs'
  BY <1>0 DEF CatalogInv, ReadAsIs
<1>11. QED
  BY <1>3, <1>4, <1>5, <1>9, <1>10 DEF CatalogInv

\* What is left after the first query of todo.
LEMMA TailFacts ==
  ASSUME NEW s \in Seq(Query), s # <<>>
  PROVE  /\ s[1] \in Query /\ Head(s) = s[1] /\ 1 \in DOMAIN s
         /\ Tail(s) \in Seq(Query)
         /\ \A i \in DOMAIN Tail(s) : i + 1 \in DOMAIN s /\ i \in Nat \ {0} /\ Tail(s)[i] = s[i + 1]
         /\ \A i \in DOMAIN s : i \in Nat \ {0} /\ (i # 1 => i - 1 \in DOMAIN Tail(s))
<1>1. /\ Len(s) \in Nat \ {0} /\ DOMAIN s = 1..Len(s)
      /\ Len(Tail(s)) = Len(s) - 1 /\ DOMAIN Tail(s) = 1..Len(Tail(s)) /\ Tail(s) \in Seq(Query)
      /\ \A i \in 1..(Len(s) - 1) : Tail(s)[i] = s[i + 1]
  OBVIOUS
<1>2. s[1] \in Query /\ Head(s) = s[1]
  BY <1>1
<1>3. QED
  BY <1>1, <1>2

\* The rest of the queries still has sizes as its only optional part, and a part that was
\* pending still is or was the one just asked for.
LEMMA RestFacts ==
  ASSUME TypeOK, OnlySizes, todo # <<>>, todo' = Tail(todo)
  PROVE  /\ OnlySizes'
         /\ todo' \in Seq(Query)
         /\ \A p : Pending(p) => Pending(p)' \/ p = Head(todo).part
<1>1. todo \in Seq(Query)
  BY DEF TypeOK, Query
<1>2. /\ Head(todo) = todo[1] /\ Tail(todo) \in Seq(Query)
      /\ \A i \in DOMAIN Tail(todo) : i + 1 \in DOMAIN todo /\ Tail(todo)[i] = todo[i + 1]
      /\ \A i \in DOMAIN todo : i \in Nat \ {0} /\ (i # 1 => i - 1 \in DOMAIN Tail(todo))
  BY <1>1, TailFacts
<1>3. OnlySizes'
  BY <1>2 DEF OnlySizes
<1>4. ASSUME NEW p, Pending(p), p # Head(todo).part PROVE Pending(p)'
  <2>1. PICK i \in DOMAIN todo : todo[i].part = p
    BY <1>4 DEF Pending
  <2>2. i - 1 \in DOMAIN Tail(todo) /\ Tail(todo)[i - 1] = todo[i]
    BY <1>2, <1>4, <2>1
  <2>3. QED
    BY <2>1, <2>2 DEF Pending
<1>5. QED
  BY <1>2, <1>3, <1>4

\* A query that runs fills its part of every table it is about, unless its result is cut:
\* keys find the columns they are flags of.
LEMMA QueryRunsKeeps ==
  ASSUME CatalogInv, QueryRuns
  PROVE  CatalogInv'
<1> DEFINE q == Head(todo)
<1>0. /\ TypeOK /\ OnlySizes /\ state = "loading" /\ todo # <<>> /\ todo \in Seq(Query)
      /\ UNCHANGED <<engine, call, version, ddl, stable, names, left, about, state, incoming>>
      /\ version \in [Tables -> Versions] /\ got \in [Tables -> [Parts -> Versions]]
      /\ about \subseteq names /\ names \subseteq Tables /\ MaxDdl \in Nat
  BY CatalogAssumption DEF CatalogInv, QueryRuns, TypeOK, Query
<1>1. PICK found \in SUBSET Found :
        /\ got' = [t \in Tables |->
                    IF t \in found /\ Stored(t, q) THEN [got[t] EXCEPT ![q.part] = version[t]] ELSE got[t]]
        /\ cut' = (cut \/ found # Found)
        /\ todo' = Rest(q, found)
        /\ ~CutsResults => found = Found
  BY DEF QueryRuns
<1>2. q = todo[1] /\ q \in Query /\ q.part \in Parts
  BY <1>0, TailFacts DEF Query
<1>3. /\ got' \in [Tables -> [Parts -> Versions]]
      /\ \A t \in Tables : t \notin found => got'[t] = got[t]
      /\ \A t \in Tables : \A p \in Parts : got'[t][p] = got[t][p] \/ got'[t][p] = version[t]
      /\ \A t \in found : Stored(t, q) => got'[t][q.part] = version[t]
  <2>1. found \subseteq Tables
    BY <1>0 DEF Found
  <2>2. QED
    BY <1>0, <1>1, <1>2, <2>1
<1>4. cut' \in BOOLEAN
  BY <1>1, Zenon
<1>5. ~cut' => ~cut /\ found = Found
  BY <1>1, Zenon
<1>6. (todo' = <<>> /\ Found = {}) \/ todo' = Tail(todo)
  BY <1>1 DEF Rest, CutsResults
<1> HIDE DEF q
<1>7. /\ OnlySizes' /\ todo' \in Seq(Query)
      /\ \A p : Pending(p) => Pending(p)' \/ p = q.part \/ Found = {}
  <2>1. CASE todo' = Tail(todo)
    BY <1>0, <2>1, RestFacts DEF q
  <2>2. CASE todo' = <<>> /\ Found = {}
    BY <2>2 DEF OnlySizes
  <2>3. QED
    BY <1>6, <2>1, <2>2
<1>8. TypeOK'
  <2>1. \A t \in Tables \ names : got'[t] = Nothing[t]
    BY <1>0, <1>3 DEF TypeOK, Found
  <2>2. Nothing' = Nothing
    BY DEF Nothing
  <2>3. QED
    BY <1>0, <1>3, <1>4, <1>7, <2>1, <2>2 DEF TypeOK, Query
<1>9. Phases' /\ Filed'
  BY <1>0 DEF Phases, Filed
<1>10. Listed'
  BY <1>0, <1>5 DEF CatalogInv, Listed, Existing
<1>11. Existing' = Existing /\ Owed' = Owed
  BY <1>0 DEF Existing, Owed
<1>12. \A t \in stable \cap about \cap Existing :
          /\ t \in Found /\ t \in Tables /\ version[t] > 0
          /\ ~cut => Stored(t, q)
  <2> SUFFICES ASSUME NEW t \in stable \cap about \cap Existing, ~cut, q.part = "primaryKeys"
               PROVE  got[t]["columns"] > 0
    BY <1>0 DEF Found, Existing, Stored
  <2>1. 1 \in DOMAIN todo
    BY <1>0, TailFacts
  <2>2. got[t]["columns"] > 0 \/ \E j \in 1..(1 - 1) : todo[j].part = "columns"
    BY <1>2, <2>1 DEF CatalogInv, KeysAfterColumns
  <2>3. QED
    BY <2>2
<1>13. KeysAfterColumns'
  <2> SUFFICES ASSUME ~cut', NEW i \in DOMAIN todo', todo'[i].part = "primaryKeys",
                      NEW t \in stable \cap about \cap Existing
               PROVE  got'[t]["columns"] > 0 \/ \E j \in 1..(i - 1) : todo'[j].part = "columns"
    BY <1>0, <1>11 DEF KeysAfterColumns
  <2>1. todo' = Tail(todo)
    BY <1>6
  <2>2. /\ i \in Nat \ {0} /\ i + 1 \in DOMAIN todo /\ todo'[i] = todo[i + 1]
        /\ \A j \in DOMAIN Tail(todo) : j + 1 \in DOMAIN todo /\ Tail(todo)[j] = todo[j + 1]
        /\ \A j \in DOMAIN todo : j \in Nat \ {0} /\ (j # 1 => j - 1 \in DOMAIN Tail(todo))
    BY <1>0, <2>1, TailFacts
  <2>3. t \in Tables /\ version[t] > 0 /\ version[t] \in Nat /\ "columns" \in Parts
    BY <1>0, <1>12 DEF Versions, Parts
  <2>4. CASE got[t]["columns"] > 0
    BY <1>3, <2>3, <2>4
  <2>5. ASSUME NEW j \in 1..i, todo[j].part = "columns"
        PROVE  got'[t]["columns"] > 0 \/ \E k \in 1..(i - 1) : todo'[k].part = "columns"
    <3>1. CASE j = 1
      BY <1>2, <1>3, <1>5, <1>12, <2>3, <2>5, <3>1
    <3>2. CASE j # 1
      <4>1. j \in DOMAIN todo
        BY <1>0, <2>2, <2>5
      <4>2. j - 1 \in 1..(i - 1) /\ j - 1 \in DOMAIN Tail(todo)
        BY <2>2, <2>5, <3>2, <4>1
      <4>3. todo'[j - 1] = todo[j]
        BY <2>1, <2>2, <4>2
      <4>4. QED
        BY <2>5, <4>2, <4>3
    <3>3. QED
      BY <3>1, <3>2
  <2>6. got[t]["columns"] > 0 \/ \E j \in 1..i : todo[j].part = "columns"
    BY <1>5, <2>2 DEF CatalogInv, KeysAfterColumns
  <2>7. QED
    BY <2>4, <2>5, <2>6
<1>14. Loaded'
  <2> SUFFICES ASSUME ~cut', NEW t \in stable \cap names \cap Existing, NEW p \in Owed, t \notin left
               PROVE  (t \in about /\ Pending(p)') \/ got'[t][p] = version[t]
    BY <1>0, <1>11 DEF Loaded
  <2>1. t \in Tables /\ p \in Parts
    <3>1. PICK i \in DOMAIN Queries(engine, call) : p = Queries(engine, call)[i].part
      BY DEF Owed
    <3>2. Queries(engine, call) \in Seq(Query)
      BY <1>0, QueriesFacts DEF TypeOK
    <3>3. Queries(engine, call)[i] \in Query
      BY <3>1, <3>2
    <3>4. QED
      BY <1>0, <3>1, <3>3 DEF Query
  <2>2. (t \in about /\ Pending(p)) \/ got[t][p] = version[t]
    BY <1>0, <1>5 DEF CatalogInv, Loaded
  <2>3. CASE got[t][p] = version[t]
    BY <1>3, <2>1, <2>3
  <2>4. CASE t \in about /\ Pending(p)
    <3>1. t \in Found /\ Stored(t, q)
      BY <1>5, <1>12, <2>4
    <3>2. CASE p = q.part
      BY <1>3, <1>5, <3>1, <3>2
    <3>3. QED
      BY <1>7, <2>4, <3>1, <3>2
  <2>5. QED
    BY <2>2, <2>3, <2>4
<1>15. ReadAsIs'
  BY <1>0, <1>3 DEF CatalogInv, TypeOK, ReadAsIs
<1>16. QED
  BY <1>7, <1>8, <1>9, <1>10, <1>13, <1>14, <1>15 DEF CatalogInv

\* A query that fails ends the call, is asked again in its second form, or was for sizes.
LEMMA QueryFailsKeeps ==
  ASSUME CatalogInv, QueryFails
  PROVE  CatalogInv'
<1>0. /\ TypeOK /\ OnlySizes /\ state = "loading" /\ todo # <<>> /\ todo \in Seq(Query)
      /\ UNCHANGED <<engine, call, version, ddl, stable, names, left, about, got, incoming, cut>>
  BY DEF CatalogInv, QueryFails, TypeOK, Query
<1>1. Existing' = Existing /\ Owed' = Owed
  BY <1>0 DEF Existing, Owed
<1>2. Filed' /\ Phases' /\ Listed' /\ ReadAsIs' /\ state' \in {"loading", "threw"}
  BY <1>0 DEF QueryFails, Filed, Phases, CatalogInv, Listed, Existing, ReadAsIs
<1>3. CASE Head(todo).fails = "throw" /\ state' = "threw" /\ UNCHANGED todo
  <2>1. TypeOK' /\ OnlySizes'
    BY <1>0, <1>3 DEF TypeOK, OnlySizes
  <2>2. KeysAfterColumns' /\ Loaded'
    BY <1>0, <1>1, <1>3 DEF CatalogInv, KeysAfterColumns, Loaded
  <2>3. QED
    BY <1>2, <2>1, <2>2 DEF CatalogInv
<1>4. CASE Head(todo).fails = "skip" /\ todo' = Tail(todo) /\ UNCHANGED state
  <2>1. /\ OnlySizes' /\ todo' \in Seq(Query)
        /\ \A p : Pending(p) => Pending(p)' \/ p = Head(todo).part
    BY <1>0, <1>4, RestFacts
  <2>2. /\ Head(todo) = todo[1] /\ 1 \in DOMAIN todo
        /\ \A i \in DOMAIN Tail(todo) : i + 1 \in DOMAIN todo /\ i \in Nat \ {0} /\ Tail(todo)[i] = todo[i + 1]
        /\ \A i \in DOMAIN todo : i \in Nat \ {0} /\ (i # 1 => i - 1 \in DOMAIN Tail(todo))
    BY <1>0, TailFacts
  <2>3. Head(todo).part = "size"
    BY <1>0, <1>4, <2>2 DEF OnlySizes
  <2>4. TypeOK'
    BY <1>0, <1>4, <2>1 DEF TypeOK, Query
  <2>5. Loaded'
    BY <1>0, <1>1, <1>4, <2>1, <2>3 DEF CatalogInv, Loaded, Owed
  <2>6. KeysAfterColumns'
    <3> SUFFICES ASSUME ~cut, NEW i \in DOMAIN todo', todo'[i].part = "primaryKeys",
                        NEW t \in stable \cap about \cap Existing, ~(got[t]["columns"] > 0)
                 PROVE  \E k \in 1..(i - 1) : todo'[k].part = "columns"
      BY <1>0, <1>1 DEF KeysAfterColumns
    <3>1. PICK j \in 1..i : todo[j].part = "columns"
      BY <1>4, <2>2 DEF CatalogInv, KeysAfterColumns
    <3>2. j # 1 /\ j \in DOMAIN todo
      BY <1>0, <1>4, <2>2, <2>3, <3>1
    <3>3. j - 1 \in 1..(i - 1) /\ todo'[j - 1] = todo[j]
      BY <1>4, <2>2, <3>1, <3>2
    <3>4. QED
      BY <3>1, <3>3
  <2>7. QED
    BY <1>2, <2>1, <2>4, <2>5, <2>6 DEF CatalogInv
<1>5. CASE /\ Head(todo).fails = "retry" /\ todo' = [todo EXCEPT ![1] = Reader(@.part)]
           /\ UNCHANGED state
  <2>1. todo[1] \in Query /\ 1 \in DOMAIN todo
    BY <1>0, TailFacts
  <2>2. /\ todo' \in Seq(Query) /\ DOMAIN todo' = DOMAIN todo
        /\ \A i \in DOMAIN todo : i # 1 => todo'[i] = todo[i]
        /\ todo'[1].part = todo[1].part /\ todo'[1].fails = "throw"
    BY <1>0, <1>5, <2>1 DEF Query, Reader
  <2>3. \A i \in DOMAIN todo : todo'[i].part = todo[i].part
    BY <2>2
  <2>4. TypeOK'
    BY <1>0, <1>5, <2>2 DEF TypeOK, Query
  <2>5. OnlySizes'
    BY <1>0, <2>2, <2>3 DEF OnlySizes
  <2>6. \A p : Pending(p)' <=> Pending(p)
    BY <2>2, <2>3 DEF Pending
  <2>7. Loaded'
    BY <1>0, <1>1, <1>5, <2>6 DEF CatalogInv, Loaded
  <2>8. KeysAfterColumns'
    <3> SUFFICES ASSUME ~cut, NEW i \in DOMAIN todo, todo[i].part = "primaryKeys",
                        NEW t \in stable \cap about \cap Existing, ~(got[t]["columns"] > 0)
                 PROVE  \E k \in 1..(i - 1) : todo'[k].part = "columns"
      BY <1>0, <1>1, <2>2, <2>3 DEF KeysAfterColumns
    <3>1. PICK j \in 1..(i - 1) : todo[j].part = "columns"
      BY DEF CatalogInv, KeysAfterColumns
    <3>2. j \in DOMAIN todo
      BY <1>0, <3>1
    <3>3. QED
      BY <2>3, <3>1, <3>2
  <2>9. QED
    BY <1>2, <2>4, <2>5, <2>7, <2>8 DEF CatalogInv
<1>6. QED
  BY <1>3, <1>4, <1>5 DEF QueryFails

\* The call returns when nothing is left to ask, with the incoming keys of its answer.
LEMMA AssembleKeeps ==
  ASSUME CatalogInv, Assemble
  PROVE  CatalogInv'
<1>0. /\ TypeOK /\ state = "loading" /\ todo = <<>> /\ left = {} /\ state' = "returned"
      /\ UNCHANGED <<engine, call, version, ddl, stable, names, left, about, todo, got, cut>>
      /\ call = "tables" => incoming' = populateIncomingForeignKeys
      /\ call # "tables" => incoming' = incoming
  BY DEF CatalogInv, Assemble
<1>1. populateIncomingForeignKeys \in [Tables -> SUBSET Tables]
  BY <1>0 DEF populateIncomingForeignKeys, TypeOK
<1>2. TypeOK'
  BY <1>0, <1>1 DEF TypeOK
<1>3. Existing' = Existing /\ Owed' = Owed /\ populateIncomingForeignKeys' = populateIncomingForeignKeys
  BY <1>0 DEF Existing, Owed, populateIncomingForeignKeys, targetTables, LeavesSchemaOut
<1>4. Phases' /\ OnlySizes' /\ Filed'
  BY <1>0, <1>3 DEF Phases, OnlySizes, Filed
<1>5. Listed' /\ KeysAfterColumns' /\ Loaded'
  BY <1>0, <1>3 DEF CatalogInv, Listed, KeysAfterColumns, Loaded, Pending
<1>6. ReadAsIs'
  BY <1>0 DEF CatalogInv, ReadAsIs
<1>7. QED
  BY <1>2, <1>4, <1>5, <1>6 DEF CatalogInv

\* Every catalog call of every backend keeps CatalogInv: each part a listed table is owed has
\* been read at the version the table has, or its query is still to come, with the columns
\* before the keys; for any number of tables and of changes by other sessions.
THEOREM CatalogInvCorrect == Spec => []CatalogInv
<1>1. Init => CatalogInv
  BY CatalogStarts
<1>2. CatalogInv /\ [Next]_vars => CatalogInv'
  <2> SUFFICES ASSUME CatalogInv, [Next]_vars PROVE CatalogInv'
    OBVIOUS
  <2>1. CASE Next
    BY <2>1, DdlKeeps, NamesKeep, NextLoadKeeps, QueryRunsKeeps, QueryFailsKeeps, AssembleKeeps DEF Next
  <2>2. CASE UNCHANGED vars
    <3>1. Existing' = Existing /\ Owed' = Owed /\ populateIncomingForeignKeys' = populateIncomingForeignKeys
      BY <2>2 DEF vars, Existing, Owed, populateIncomingForeignKeys, targetTables, LeavesSchemaOut
    <3>2. TypeOK' /\ Phases' /\ OnlySizes'
      BY <2>2 DEF vars, CatalogInv, TypeOK, Phases, OnlySizes
    <3>3. Listed' /\ KeysAfterColumns' /\ Loaded' /\ Filed'
      BY <2>2, <3>1 DEF vars, CatalogInv, Listed, KeysAfterColumns, Loaded, Pending, Filed
    <3>4. ReadAsIs'
      BY <2>2 DEF vars, CatalogInv, ReadAsIs
    <3>5. QED
      BY <3>2, <3>3, <3>4 DEF CatalogInv
  <2>3. QED
    BY <2>1, <2>2
<1>3. QED
  BY <1>1, <1>2, PTL DEF Spec

\* A catalog call that returns (postgres_connection.cpp:542, mssql_connection.cpp:344,
\* oracle_connection.cpp:629, sqlite_connection.cpp:235, duckdb_connection.cpp:261) lists
\* every table that nobody touched while it ran, with all the parts it is owed, whatever
\* other sessions did to any other tables in between and whichever queries failed.
THEOREM CompleteCorrect == Spec => []StableTablesComplete
<1>1. CatalogInv => StableTablesComplete
  <2> SUFFICES ASSUME CatalogInv, state = "returned", ~cut, NEW t \in stable
               PROVE  /\ call # "describe" => (t \in names <=> t \in Existing)
                      /\ t \in names /\ t \in Existing => \A p \in Owed : got[t][p] = version[t]
    BY DEF StableTablesComplete
  <2>1. left = {} /\ \A p : ~Pending(p)
    BY DEF CatalogInv, Phases, Pending
  <2>2. call # "describe" => (t \in names <=> t \in Existing)
    BY DEF CatalogInv, Listed
  <2>3. ASSUME t \in names, t \in Existing, NEW p \in Owed PROVE got[t][p] = version[t]
    BY <2>1, <2>3 DEF CatalogInv, Loaded
  <2>4. QED
    BY <2>2, <2>3
<1>2. QED
  BY <1>1, CatalogInvCorrect, PTL

\* populateIncomingForeignKeys (types.cpp:7) gives every listed table the tables of the
\* schema that refer to it, both sides read at different moments: of two tables nobody
\* touched none is missing, and a table nobody touched is filed under no table it does not
\* refer to, except on SQL Server and Oracle under the namesake of one in another schema.
THEOREM KeysCorrect == Spec => []KeysBothWays
<1>1. CatalogInv => KeysBothWays
  <2> SUFFICES ASSUME CatalogInv, state = "returned", call = "tables" PROVE KeysBothWays
    BY DEF KeysBothWays
  <2>1. incoming = populateIncomingForeignKeys /\ names \subseteq Tables
    BY DEF CatalogInv, Filed, TypeOK
  <2>2. ASSUME NEW t \in Tables, NEW s \in incoming[t] \cap stable
        PROVE  RefersTo(s, t) \/ (LeavesSchemaOut /\ RefersToNamesake(s, t))
    <3>1. got[s]["foreignKeys"] > 0 /\ t \in targetTables(s, got[s]["foreignKeys"])
      BY <2>1, <2>2 DEF populateIncomingForeignKeys
    <3>2. got[s]["foreignKeys"] \in {0, version[s]}
      BY <2>2 DEF CatalogInv, ReadAsIs, Parts
    <3>3. t \in targetTables(s, version[s])
      BY <3>1, <3>2
    <3>4. PICK k \in Keys(s, version[s]) : k.table = t /\ (k.schema = "own" \/ LeavesSchemaOut)
      BY <3>3 DEF targetTables
    <3>5. QED
      BY <3>4 DEF RefersTo, RefersToNamesake
  <2>3. ASSUME ~cut, NEW s \in stable \cap Existing, NEW t \in stable \cap Existing, RefersTo(s, t)
        PROVE  s \in incoming[t]
    <3>1. s \in names /\ t \in names /\ s \in Tables /\ t \in Tables /\ version[s] > 0
      BY <2>3 DEF CatalogInv, Listed, Existing
    <3>2. left = {} /\ ~Pending("foreignKeys")
      BY DEF CatalogInv, Phases, Pending
    <3>3. "foreignKeys" \in Owed
      <4>1. \E i \in DOMAIN Queries(engine, call) : Queries(engine, call)[i].part = "foreignKeys"
        BY QueriesFacts DEF CatalogInv, TypeOK
      <4>2. QED
        BY <4>1 DEF Owed
    <3>4. got[s]["foreignKeys"] = version[s]
      BY <2>3, <3>1, <3>2, <3>3 DEF CatalogInv, Loaded
    <3>5. t \in targetTables(s, version[s])
      BY <2>3 DEF RefersTo, targetTables
    <3>6. QED
      BY <2>1, <3>1, <3>4, <3>5 DEF populateIncomingForeignKeys
  <2>4. QED
    BY <2>2, <2>3 DEF KeysBothWays
<1>2. QED
  BY <1>1, CatalogInvCorrect, PTL
=============================================================================
