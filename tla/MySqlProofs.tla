----------------------------- MODULE MySqlProofs -----------------------------
(***************************************************************************)
(* Proofs about MySqlDatabase, for any number of threads, of tables in a   *)
(* listing, of statements in a batch, of calls and of cancels.             *)
(*                                                                         *)
(* A call's remaining queries are a tail of its script (RestOfCall), which *)
(* is what the types need (Types).  openMu_ and mu_ give mutual exclusion  *)
(* (Opening, Locking), so conn_ is set once and the results on the wire    *)
(* belong to the one call that is reading them (Wire).  execute() tells a  *)
(* partial batch apart because a statement of the batch that did not run   *)
(* is still to be met on the wire as long as nothing was reported          *)
(* (Reported).                                                             *)
(***************************************************************************)
EXTENDS MySqlDatabase, SequenceTheorems, TLAPS

\* The queries of the metadata and paging calls.
Queries == {"names", "columns", "foreignKeys", "routines", "uniques", "indexes", "data", "count"}

\* What is left of a call's queries: a tail of one of the scripts.
IsRest(q) == \E s \in Scripts : \E k \in 0..Len(s) : q = SubSeq(s, k + 1, Len(s))

Calls == [pc : PCs, script : Seq(Queries \cup {"execute"}), batch : Seq(Outcomes), ok : BOOLEAN]

\* The types of the state but the wire.
Types ==
    /\ conn \in Nat
    /\ threadId \in BOOLEAN
    /\ openMu \in Threads \cup {NoThread}
    /\ mu \in Threads \cup {NoThread}
    /\ lost \in BOOLEAN
    /\ killer \in {"none", "sent"}
    /\ kills \in 0..MaxKills
    /\ calls \in 0..MaxCalls
    /\ th \in [Threads -> Calls]

\* The queries left at each stage of a call.
LeftIn(r) ==
    /\ r.script = <<"execute">> \/ IsRest(r.script)
    /\ r.pc \in {"lock", "send", "result", "drain"} => r.script # <<>>
    /\ r.pc = "result" => r.script = <<"execute">>
    /\ r.pc = "drain" => r.script # <<"execute">>

Left == \A t \in Threads : LeftIn(th[t])

\* openMu_ is held by the thread that is connecting, and only before conn_ is set.
Opening ==
    /\ \A t \in Threads : openMu = t <=> th[t].pc = "connect"
    /\ openMu # NoThread => conn = 0
    /\ conn \in 0..1
    /\ conn = 1 => threadId

\* mu_ is held by exactly the thread that is past its lock and not yet past its unlock.
Locking == \A t \in Threads : mu = t <=> th[t].pc \in {"send", "result", "drain", "done"}

\* There are results on the wire exactly while a call is reading them, and the
\* next one is not the failure mysql_next_result would have reported.
Wire ==
    /\ wire \in Seq(Outcomes)
    /\ wire # <<>> <=> \E t \in Threads : th[t].pc \in {"result", "drain"}
    /\ wire # <<>> => Head(wire) # "fail"

\* Some statement of a batch, or some result, is an error.
Bad(b) == \E i \in 1..Len(b) : b[i] \in Ends

\* An error of the batch that execute() has not reported is still to come.
Reported ==
    \A t \in Threads : th[t].script = <<"execute">> /\ th[t].ok =>
        /\ th[t].pc = "result" /\ Bad(th[t].batch) => Bad(wire)
        /\ th[t].pc = "done" => ~Bad(th[t].batch)

----------------------------------------------------------------------------
(* Scripts *)

\* The queries a listing sends for n names, one or two for each, are queries.
LEMMA PerNameIsSeq ==
  ASSUME NEW n \in Nat, NEW qs \in Seq(Queries), Len(qs) \in {1, 2}
  PROVE  PerName(n, qs) \in Seq(Queries)
<1>1. n * Len(qs) \in Nat
  OBVIOUS
<1>2. ASSUME NEW i \in 1..(n * Len(qs)) PROVE ((i - 1) % Len(qs)) + 1 \in 1..Len(qs)
  OBVIOUS
<1>3. QED
  BY <1>1, <1>2 DEF PerName

\* Every call of a handle sends at least one query, whatever the number of tables.
LEMMA ScriptsAreSeqs == \A s \in Scripts : s \in Seq(Queries) /\ Len(s) > 0
<1>1. ASSUME NEW n \in 0..MaxTables PROVE tables(n) \in Seq(Queries) /\ Len(tables(n)) > 0
  <2>1. PerName(n, <<"columns", "foreignKeys">>) \in Seq(Queries)
    <3>1. <<"columns", "foreignKeys">> \in Seq(Queries) /\ Len(<<"columns", "foreignKeys">>) \in {1, 2}
      BY DEF Queries
    <3>2. n \in Nat
      BY MySqlAssumption
    <3>3. QED
      BY <3>1, <3>2, PerNameIsSeq
  <2>2. <<"names">> \in Seq(Queries)
    BY DEF Queries
  <2>3. QED
    BY <2>1, <2>2 DEF tables
<1>2. ASSUME NEW n \in 0..MaxTables PROVE views(n) \in Seq(Queries) /\ Len(views(n)) > 0
  <2>1. PerName(n, <<"columns">>) \in Seq(Queries)
    <3>1. <<"columns">> \in Seq(Queries) /\ Len(<<"columns">>) \in {1, 2}
      BY DEF Queries
    <3>2. n \in Nat
      BY MySqlAssumption
    <3>3. QED
      BY <3>1, <3>2, PerNameIsSeq
  <2>2. <<"names">> \in Seq(Queries)
    BY DEF Queries
  <2>3. QED
    BY <2>1, <2>2 DEF views
<1>3. \A s \in {routines, describeTable, getTableData, getColumnNames, getRowCount} :
        s \in Seq(Queries) /\ Len(s) > 0
  <2>1. routines \in Seq(Queries) /\ Len(routines) > 0
    BY DEF Queries, routines
  <2>2. describeTable \in Seq(Queries) /\ Len(describeTable) > 0
    BY DEF Queries, describeTable
  <2>3. getTableData \in Seq(Queries) /\ Len(getTableData) > 0
    BY DEF Queries, getTableData
  <2>4. getColumnNames \in Seq(Queries) /\ Len(getColumnNames) > 0
    BY DEF Queries, getColumnNames
  <2>5. getRowCount \in Seq(Queries) /\ Len(getRowCount) > 0
    BY DEF Queries, getRowCount
  <2>6. QED
    BY <2>1, <2>2, <2>3, <2>4, <2>5
<1>4. QED
  BY <1>1, <1>2, <1>3 DEF Scripts

\* A call starts with all of its script, and what is left after one query is again
\* a tail of the script.
LEMMA RestOfCall ==
  /\ \A s \in Scripts \cup {<<>>} : IsRest(s)
  /\ \A q : IsRest(q) => q \in Seq(Queries) /\ (q # <<>> => IsRest(Tail(q)))
<1>1. ASSUME NEW s \in Scripts PROVE IsRest(s) /\ IsRest(<<>>)
  <2>1. s \in Seq(Queries) /\ Len(s) \in Nat
    BY ScriptsAreSeqs
  <2>2. s = SubSeq(s, 0 + 1, Len(s)) /\ <<>> = SubSeq(s, Len(s) + 1, Len(s))
    BY <2>1, SubSeqFull, SubSeqEmpty
  <2>3. 0 \in 0..Len(s) /\ Len(s) \in 0..Len(s)
    BY <2>1
  <2>4. QED
    BY <2>2, <2>3, Zenon DEF IsRest
<1>2. routines \in Scripts
  BY DEF Scripts
<1>3. ASSUME NEW q, IsRest(q) PROVE q \in Seq(Queries) /\ (q # <<>> => IsRest(Tail(q)))
  <2>0. PICK s \in Scripts : \E k \in 0..Len(s) : q = SubSeq(s, k + 1, Len(s))
    BY <1>3 DEF IsRest
  <2>1. PICK k \in 0..Len(s) : q = SubSeq(s, k + 1, Len(s))
    BY <2>0
  <2>2. s \in Seq(Queries) /\ Len(s) \in Nat
    BY ScriptsAreSeqs
  <2>3. q \in Seq(Queries)
    BY <2>1, <2>2, SubSeqProperties
  <2>4. ASSUME q # <<>> PROVE IsRest(Tail(q))
    <3>1. k < Len(s)
      BY <2>1, <2>2, <2>4, SubSeqEmpty
    <3>2. Tail(q) = SubSeq(s, (k + 1) + 1, Len(s))
      BY <2>1, <2>2, <3>1, HeadTailOfSubSeq
    <3>3. k + 1 \in 0..Len(s)
      BY <2>2, <3>1
    <3>4. QED
      BY <3>2, <3>3, Zenon DEF IsRest
  <2>5. QED
    BY <2>3, <2>4
<1>4. QED
  BY <1>1, <1>2, <1>3

----------------------------------------------------------------------------
\* A text is a sequence of outcomes, and is not empty.
LEMMA TextsAreSeqs ==
  \A text : text \in Batches \/ (\E q : text \in Texts(q)) =>
      text \in Seq(Outcomes) /\ text # <<>>
<1>1. ASSUME NEW o \in Outcomes, NEW p \in Outcomes
      PROVE  /\ <<o>> \in Seq(Outcomes) /\ <<o>> # <<>>
             /\ <<o, p>> \in Seq(Outcomes) /\ <<o, p>> # <<>>
  OBVIOUS
<1>2. ASSUME NEW text \in Batches PROVE text \in Seq(Outcomes) /\ text # <<>>
  <2>1. PICK n \in 1..MaxBatch : text \in [1..n -> Outcomes]
    BY DEF Batches
  <2>2. n \in Nat /\ n > 0
    BY MySqlAssumption
  <2>3. text \in Seq(Outcomes) /\ Len(text) = n
    BY <2>1, <2>2
  <2>4. QED
    BY <2>2, <2>3
<1>3. "rows" \in Outcomes /\ "fail" \in Outcomes /\ "broken" \in Outcomes
  BY DEF Outcomes
<1>4. ASSUME NEW q, NEW text \in Texts(q) PROVE text \in Seq(Outcomes) /\ text # <<>>
  <2>1. CASE text \in Catalog
    BY <1>1, <1>3, <2>1 DEF Catalog
  <2>2. CASE text \in {<<"rows", o>> : o \in Outcomes}
    BY <1>1, <1>3, <2>2
  <2>3. QED
    BY <2>1, <2>2 DEF Texts, WithClause
<1>5. QED
  BY <1>2, <1>4

\* The call a step leaves the thread in is one of the model's.
LEMMA CallStates ==
  ASSUME NEW r \in Calls
  PROVE  /\ Idle \in Calls
         /\ \A p \in PCs : [r EXCEPT !.pc = p] \in Calls
         /\ r.script # <<>> => NextQuery(r) \in Calls
         /\ \A p \in PCs, q \in Seq(Queries \cup {"execute"}) :
                [r EXCEPT !.script = q, !.pc = p] \in Calls
         /\ \A p \in PCs, b \in BOOLEAN : [r EXCEPT !.ok = b, !.pc = p] \in Calls
         /\ \A p \in PCs, x \in Seq(Outcomes), b \in BOOLEAN :
                /\ [r EXCEPT !.batch = x, !.pc = p] \in Calls
                /\ [r EXCEPT !.batch = x, !.ok = b, !.pc = p] \in Calls
<1>1. Idle \in Calls
  BY EmptySeq DEF Calls, Idle, PCs
<1>2. ASSUME r.script # <<>> PROVE NextQuery(r) \in Calls
  <2>1. Tail(r.script) \in Seq(Queries \cup {"execute"})
    BY <1>2 DEF Calls
  <2>2. QED
    BY <2>1 DEF Calls, PCs, NextQuery
<1>3. \A p \in PCs, q \in Seq(Queries \cup {"execute"}) :
        [r EXCEPT !.pc = p] \in Calls /\ [r EXCEPT !.script = q, !.pc = p] \in Calls
  BY DEF Calls
<1>4. \A p \in PCs, b \in BOOLEAN : [r EXCEPT !.ok = b, !.pc = p] \in Calls
  BY DEF Calls
<1>5. \A p \in PCs, x \in Seq(Outcomes), b \in BOOLEAN :
        /\ [r EXCEPT !.batch = x, !.pc = p] \in Calls
        /\ [r EXCEPT !.batch = x, !.ok = b, !.pc = p] \in Calls
  BY DEF Calls
<1>6. QED
  BY <1>1, <1>2, <1>3, <1>4, <1>5, EmptySeq

\* What is left at the stages that follow a query or its results.
LEMMA LeftSteps ==
  ASSUME NEW r \in Calls, LeftIn(r)
  PROVE  /\ LeftIn(Idle)
         /\ r.script # <<>> /\ r.script # <<"execute">> => LeftIn(NextQuery(r))
         /\ LeftIn([r EXCEPT !.script = <<>>, !.pc = "done"])
         /\ \A p \in {"idle", "openLock", "connect", "done"} : LeftIn([r EXCEPT !.pc = p])
         /\ r.script # <<>> => LeftIn([r EXCEPT !.pc = "lock"]) /\ LeftIn([r EXCEPT !.pc = "send"])
<1> USE DEF Calls
<1>1. IsRest(<<>>)
  BY RestOfCall
<1>2. LeftIn(Idle) /\ LeftIn([r EXCEPT !.script = <<>>, !.pc = "done"])
  BY <1>1 DEF LeftIn, Idle
<1>3. ASSUME r.script # <<>>, r.script # <<"execute">> PROVE LeftIn(NextQuery(r))
  <2>1. IsRest(Tail(r.script))
    BY <1>3, RestOfCall DEF LeftIn
  <2>2. Len(r.script) # 1 => Tail(r.script) # <<>>
    <3>1. r.script \in Seq(Queries \cup {"execute"})
      OBVIOUS
    <3>2. Len(r.script) \in Nat /\ Len(Tail(r.script)) = Len(r.script) - 1
      BY <3>1, <1>3, HeadTailProperties, LenProperties
    <3>3. Len(<<>>) = 0
      BY EmptySeq
    <3>4. ASSUME Tail(r.script) = <<>> PROVE Len(r.script) = 1
      <4>1. Len(Tail(r.script)) = 0
        BY <3>3, <3>4, Zenon
      <4>2. QED
        BY <3>2, <4>1
    <3>5. QED
      BY <3>4
  <2>3. QED
    BY <2>1, <2>2 DEF LeftIn, NextQuery
<1>4. \A p \in {"idle", "openLock", "connect", "done"} : LeftIn([r EXCEPT !.pc = p])
  BY DEF LeftIn
<1>5. r.script # <<>> => LeftIn([r EXCEPT !.pc = "lock"]) /\ LeftIn([r EXCEPT !.pc = "send"])
  BY DEF LeftIn
<1>6. QED
  BY <1>2, <1>3, <1>4, <1>5

\* A step that gives one thread a call of the model keeps the types of th.
LEMMA OneCall ==
  ASSUME Types, Left, NEW t \in Threads, NEW r \in Calls, LeftIn(r), Set(t, r)
  PROVE  th' \in [Threads -> Calls] /\ Left'
BY DEF Types, Left, Set

\* Every variable keeps its type.
LEMMA TypesCorrect == Spec => [](Types /\ Left)
<1> DEFINE Inv == Types /\ Left
<1> USE MySqlAssumption
<1>1. Init => Inv
  <2> SUFFICES ASSUME Init PROVE Inv
    OBVIOUS
  <2>1. threadId \in BOOLEAN /\ lost \in BOOLEAN
    BY Zenon DEF Init
  <2>2. Idle \in Calls /\ IsRest(<<>>)
    BY EmptySeq, RestOfCall DEF Calls, Idle, PCs, Init
  <2>3. LeftIn(Idle)
    BY <2>2 DEF LeftIn, Idle
  <2>4. QED
    BY <2>1, <2>2, <2>3 DEF Init, Types, Left
<1>2. Inv /\ [Next]_vars => Inv'
  <2> SUFFICES ASSUME Inv, [Next]_vars PROVE Inv'
    OBVIOUS
  <2>0. \A t \in Threads : th[t] \in Calls /\ LeftIn(th[t])
    BY DEF Types, Left
  <2>1. ASSUME NEW t \in Threads, Call(t) PROVE Inv'
    <3>1. PICK s \in Scripts \cup {<<"execute">>, <<>>} :
            Set(t, [Idle EXCEPT !.script = s,
                                !.pc = IF conn = 0 THEN "openLock"
                                       ELSE IF s = <<>> THEN "idle" ELSE "lock"])
      BY <2>1 DEF Call
    <3>2. /\ s \in Seq(Queries \cup {"execute"})
          /\ s = <<"execute">> \/ IsRest(s)
      <4>1. <<"execute">> \in Seq(Queries \cup {"execute"})
        OBVIOUS
      <4>2. ASSUME IsRest(s) PROVE s \in Seq(Queries \cup {"execute"})
        BY <4>2, RestOfCall, SeqMonotonic
      <4>3. s = <<"execute">> \/ IsRest(s)
        BY RestOfCall
      <4>4. QED
        BY <4>1, <4>2, <4>3
    <3> DEFINE r == [Idle EXCEPT !.script = s,
                                 !.pc = IF conn = 0 THEN "openLock"
                                        ELSE IF s = <<>> THEN "idle" ELSE "lock"]
    <3>3. r \in Calls
      BY <3>2, EmptySeq DEF Calls, Idle, PCs
    <3>4. LeftIn(r)
      BY <3>2 DEF LeftIn, Idle
    <3>5. th' \in [Threads -> Calls] /\ Left'
      BY <3>1, <3>3, <3>4, OneCall
    <3>6. QED
      BY <2>1, <3>5 DEF Call, Types
  <2>2. ASSUME NEW t \in Threads, OpenLock(t) PROVE Inv'
    <3>1. \E p \in {"connect", AfterConn(t)} : Set(t, [th[t] EXCEPT !.pc = p])
      BY <2>2 DEF OpenLock, Goto
    <3>2. th' \in [Threads -> Calls] /\ Left'
      BY <3>1, <2>0, CallStates, LeftSteps, OneCall DEF AfterConn, PCs
    <3>3. QED
      BY <2>2, <3>2 DEF OpenLock, Types
  <2>3. ASSUME NEW t \in Threads, Connect(t) \/ ConnectFails(t) \/ Lock(t) \/ Return(t) PROVE Inv'
    <3>1. th' \in [Threads -> Calls] /\ Left'
      <4>1. CASE ConnectFails(t) \/ Return(t)
        BY <2>0, <4>1, CallStates, LeftSteps, OneCall DEF ConnectFails, Return
      <4>2. CASE Connect(t)
        BY <2>0, <4>2, CallStates, LeftSteps, OneCall DEF Connect, Goto, AfterConn, PCs
      <4>3. CASE Lock(t)
        <5>1. th[t].script # <<>>
          BY <2>0, <4>3 DEF Lock, LeftIn
        <5>2. QED
          BY <2>0, <4>3, <5>1, CallStates, LeftSteps, OneCall DEF Lock, Goto, PCs
      <4>4. QED
        BY <2>3, <4>1, <4>2, <4>3
    <3>2. threadId' \in BOOLEAN
      BY <2>3, Zenon DEF Connect, ConnectFails, Lock, Return, Types
    <3>3. QED
      BY <2>3, <3>1, <3>2 DEF Connect, ConnectFails, Lock, Return, Types
  <2>4. ASSUME NEW t \in Threads, ExecuteSend(t) PROVE Inv'
    <3>1. PICK text \in Batches :
            IF Refused(text)
            THEN /\ wire' = <<>>
                 /\ Set(t, [th[t] EXCEPT !.batch = <<"fail">>, !.ok = FALSE, !.pc = "done"])
            ELSE /\ wire' = text
                 /\ Set(t, [th[t] EXCEPT !.batch = text, !.pc = "result"])
      BY <2>4 DEF ExecuteSend
    <3>2. text \in Seq(Outcomes) /\ <<"fail">> \in Seq(Outcomes)
      BY TextsAreSeqs DEF Outcomes
    <3>3. th' \in [Threads -> Calls] /\ Left'
      <4> DEFINE r1 == [th[t] EXCEPT !.batch = <<"fail">>, !.ok = FALSE, !.pc = "done"]
      <4> DEFINE r2 == [th[t] EXCEPT !.batch = text, !.pc = "result"]
      <4>1. r1 \in Calls /\ r2 \in Calls
        BY <2>0, <3>2 DEF Calls, PCs
      <4>2. LeftIn(r1) /\ LeftIn(r2)
        BY <2>0, <2>4 DEF Calls, LeftIn, ExecuteSend
      <4>3. Set(t, r1) \/ Set(t, r2)
        BY <3>1
      <4> HIDE DEF r1, r2
      <4>4. QED
        BY <4>1, <4>2, <4>3, OneCall
    <3>4. QED
      BY <2>4, <3>3 DEF ExecuteSend, Types
  <2>5. ASSUME NEW t \in Threads, ExecuteResult(t) PROVE Inv'
    <3> DEFINE b == th[t].ok /\ Extract(Head(wire)) /\ NextResult # "error"
               p == IF NextResult = "more" THEN "result" ELSE "done"
               r == [th[t] EXCEPT !.ok = b, !.pc = p]
    <3>1. Set(t, r)
      BY <2>5 DEF ExecuteResult
    <3>2. b \in BOOLEAN /\ p \in PCs
      BY Zenon DEF PCs
    <3>3. r \in Calls
      BY <2>0, <3>2 DEF Calls
    <3>4. LeftIn(r)
      BY <2>0, <2>5 DEF Calls, LeftIn, ExecuteResult
    <3>5. th' \in [Threads -> Calls] /\ Left'
      BY <3>1, <3>3, <3>4, OneCall
    <3>6. QED
      BY <2>5, <3>5 DEF ExecuteResult, Types
  <2>6. ASSUME NEW t \in Threads, CatalogSend(t) PROVE Inv'
    <3>1. PICK text \in Texts(Head(th[t].script)) :
            IF Refused(text)
            THEN /\ wire' = <<>>
                 /\ Set(t, IF Head(th[t].script) \in {"names", "data"}
                           THEN [th[t] EXCEPT !.script = <<>>, !.pc = "done"]
                           ELSE NextQuery(th[t]))
            ELSE /\ wire' = text
                 /\ Set(t, [th[t] EXCEPT !.pc = "drain"])
      BY <2>6 DEF CatalogSend, Goto
    <3>2. th[t].script # <<>> /\ th[t].script # <<"execute">>
      BY <2>0, <2>6 DEF CatalogSend, LeftIn
    <3>3. th' \in [Threads -> Calls] /\ Left'
      <4>1. LeftIn([th[t] EXCEPT !.pc = "drain"]) /\ [th[t] EXCEPT !.pc = "drain"] \in Calls
        BY <2>0, <3>2 DEF LeftIn, Calls, PCs
      <4>2. QED
        BY <2>0, <3>1, <3>2, <4>1, CallStates, LeftSteps, OneCall, EmptySeq DEF PCs
    <3>4. QED
      BY <2>6, <3>3 DEF CatalogSend, Types
  <2>7. ASSUME NEW t \in Threads, Drain(t) PROVE Inv'
    <3>1. th[t].script # <<>> /\ th[t].script # <<"execute">>
      BY <2>0, <2>7 DEF Drain, LeftIn
    <3>2. th' \in [Threads -> Calls] /\ Left'
      BY <2>0, <2>7, <3>1, CallStates, LeftSteps, OneCall, EmptySeq DEF Drain, PCs
    <3>3. QED
      BY <2>7, <3>2, EmptySeq DEF Drain, Types
  <2>8. CASE Cancel \/ KillMisses
    BY <2>8 DEF Cancel, KillMisses, Types, Left
  <2>9. CASE KillHits \/ ConnectionLost
    <3>1. th' = th \/ th' = [th EXCEPT ![mu].batch = @ \o <<"fail">>]
      BY <2>9 DEF KillHits, ConnectionLost
    <3>2. th' \in [Threads -> Calls] /\ Left'
      <4>1. CASE th' = [th EXCEPT ![mu].batch = @ \o <<"fail">>] /\ mu \in Threads
        <5> DEFINE r == [th[mu] EXCEPT !.batch = @ \o <<"fail">>]
        <5>1. r \in Calls
          <6>1. th[mu].batch \in Seq(Outcomes) /\ <<"fail">> \in Seq(Outcomes)
            BY <2>0, <4>1 DEF Calls, Outcomes
          <6>2. th[mu].batch \o <<"fail">> \in Seq(Outcomes)
            BY <6>1, ConcatProperties
          <6>3. QED
            BY <2>0, <4>1, <6>2 DEF Calls
        <5>2. LeftIn(r)
          BY <2>0, <4>1 DEF Calls, LeftIn
        <5>3. Set(mu, r)
          BY <4>1 DEF Set
        <5> HIDE DEF r
        <5>4. QED
          BY <4>1, <5>1, <5>2, <5>3, OneCall
      <4>2. CASE th' = th \/ mu \notin Threads
        BY <3>1, <4>2 DEF Types, Left
      <4>3. QED
        BY <3>1, <4>1, <4>2
    <3>3. lost' \in BOOLEAN
      BY <2>9, Zenon DEF KillHits, ConnectionLost, Types
    <3>4. QED
      BY <2>9, <3>2, <3>3 DEF KillHits, ConnectionLost, Types
  <2>10. CASE UNCHANGED vars
    BY <2>10 DEF vars, Types, Left
  <2>11. QED
    BY <2>1, <2>2, <2>3, <2>4, <2>5, <2>6, <2>7, <2>8, <2>9, <2>10 DEF Next, Step
<1>3. QED
  BY <1>1, <1>2, PTL DEF Spec

----------------------------------------------------------------------------
(* The two mutexes *)

\* The stages each step leads from and to.
LEMMA Moves ==
  ASSUME Types, Left, NEW t \in Threads
  PROVE  /\ Call(t) => th[t].pc = "idle" /\ th'[t].pc \in {"idle", "openLock", "lock"}
         /\ OpenLock(t) => /\ th[t].pc = "openLock"
                           /\ conn = 0 => th'[t].pc = "connect"
                           /\ conn # 0 => th'[t].pc \in {"idle", "lock"}
         /\ Connect(t) \/ ConnectFails(t) =>
                th[t].pc = "connect" /\ th'[t].pc \in {"idle", "lock"}
         /\ Lock(t) => th[t].pc = "lock" /\ th'[t].pc = "send"
         /\ ExecuteSend(t) => th[t].pc = "send" /\ th'[t].pc \in {"result", "done"}
         /\ ExecuteResult(t) => th[t].pc = "result" /\ th'[t].pc \in {"result", "done"}
         /\ CatalogSend(t) => th[t].pc = "send" /\ th'[t].pc \in {"send", "drain", "done"}
         /\ Drain(t) => th[t].pc = "drain" /\ th'[t].pc \in {"send", "done"}
         /\ Return(t) => th[t].pc = "done" /\ th'[t].pc = "idle"
<1> USE DEF Types, Calls, Set, Goto, Idle, AfterConn, NextQuery
<1>1. Call(t) => th[t].pc = "idle" /\ th'[t].pc \in {"idle", "openLock", "lock"}
  BY DEF Call
<1>2. OpenLock(t) => /\ th[t].pc = "openLock"
                     /\ conn = 0 => th'[t].pc = "connect"
                     /\ conn # 0 => th'[t].pc \in {"idle", "lock"}
  BY DEF OpenLock
<1>3. Connect(t) \/ ConnectFails(t) => th[t].pc = "connect" /\ th'[t].pc \in {"idle", "lock"}
  BY DEF Connect, ConnectFails
<1>4. /\ Lock(t) => th[t].pc = "lock" /\ th'[t].pc = "send"
      /\ Return(t) => th[t].pc = "done" /\ th'[t].pc = "idle"
  BY DEF Lock, Return
<1>5. ExecuteSend(t) => th[t].pc = "send" /\ th'[t].pc \in {"result", "done"}
  BY DEF ExecuteSend
<1>6. ExecuteResult(t) => th[t].pc = "result" /\ th'[t].pc \in {"result", "done"}
  BY DEF ExecuteResult
<1>7. CatalogSend(t) => th[t].pc = "send" /\ th'[t].pc \in {"send", "drain", "done"}
  BY DEF CatalogSend
<1>8. Drain(t) => th[t].pc = "drain" /\ th'[t].pc \in {"send", "done"}
  BY DEF Drain
<1>9. QED
  BY <1>1, <1>2, <1>3, <1>4, <1>5, <1>6, <1>7, <1>8

\* A step of a thread leaves the other threads' calls alone.
LEMMA OthersStay ==
  ASSUME Types, NEW t \in Threads, Call(t) \/ Step(t)
  PROVE  \A u \in Threads \ {t} : th'[u] = th[u]
<1> USE DEF Types, Set, Goto
<1>1. CASE Call(t)
  BY <1>1 DEF Call
<1>2. CASE Step(t)
  BY <1>2 DEF Step, OpenLock, Connect, ConnectFails, Lock, ExecuteSend, ExecuteResult,
              Return, CatalogSend, Drain
<1>3. QED
  BY <1>1, <1>2

\* The server's side changes at most the batch of the call that holds mu_.
LEMMA ServerSteps ==
  ASSUME Types, KillHits \/ ConnectionLost
  PROVE  /\ \A t \in Threads : /\ th'[t].pc = th[t].pc /\ th'[t].script = th[t].script
                               /\ th'[t].ok = th[t].ok
                               /\ t # mu => th'[t] = th[t]
         /\ UNCHANGED <<conn, threadId, openMu, mu, kills, calls>>
<1>1. UNCHANGED <<conn, threadId, openMu, mu, kills, calls>>
  BY DEF KillHits, ConnectionLost
<1>2. th' = th \/ th' = [th EXCEPT ![mu].batch = @ \o <<"fail">>]
  BY DEF KillHits, ConnectionLost
<1>3. \A t \in Threads : th[t] \in Calls
  BY DEF Types
<1>4. ASSUME NEW t \in Threads
      PROVE  /\ th'[t].pc = th[t].pc /\ th'[t].script = th[t].script /\ th'[t].ok = th[t].ok
             /\ t # mu => th'[t] = th[t]
  <2>1. CASE th' = th
    BY <2>1
  <2>2. CASE th' = [th EXCEPT ![mu].batch = @ \o <<"fail">>] /\ t # mu
    BY <2>2 DEF Types
  <2>3. CASE th' = [th EXCEPT ![mu].batch = @ \o <<"fail">>] /\ t = mu
    <3>1. th'[t] = [th[t] EXCEPT !.batch = th[t].batch \o <<"fail">>]
      BY <2>3 DEF Types
    <3>2. QED
      BY <1>3, <2>3, <3>1 DEF Calls
  <2>4. QED
    BY <1>2, <2>1, <2>2, <2>3
<1>5. QED
  BY <1>1, <1>4

\* The first calls of two threads race for conn_, and it is set once: openMu_ is
\* held by whoever connects, who has looked at conn_ under it.
LEMMA OpeningCorrect == Spec => []Opening
<1> USE MySqlAssumption
<1>1. Init => Opening
  BY DEF Init, Opening, Idle
<1>2. Types /\ Left /\ Opening /\ [Next]_vars => Opening'
  <2> SUFFICES ASSUME Types, Left, Opening, [Next]_vars PROVE Opening'
    OBVIOUS
  <2>0. NoThread \notin Threads /\ conn \in Nat
    BY DEF Types
  <2>1. ASSUME NEW t \in Threads, OpenLock(t) PROVE Opening'
    BY <2>0, <2>1, Moves, OthersStay DEF OpenLock, Opening, Step
  <2>2. ASSUME NEW t \in Threads, Connect(t) PROVE Opening'
    BY <2>0, <2>2, Moves, OthersStay DEF Connect, Opening, Step
  <2>3. ASSUME NEW t \in Threads, ConnectFails(t) PROVE Opening'
    BY <2>0, <2>3, Moves, OthersStay DEF ConnectFails, Opening, Step
  <2>4. ASSUME NEW t \in Threads,
               \/ Call(t) \/ Lock(t) \/ ExecuteSend(t) \/ ExecuteResult(t)
               \/ Return(t) \/ CatalogSend(t) \/ Drain(t)
        PROVE  Opening'
    <3>1. th[t].pc # "connect" /\ th'[t].pc # "connect"
      BY <2>4, Moves
    <3>2. \A u \in Threads \ {t} : th'[u] = th[u]
      BY <2>4, OthersStay DEF Step
    <3>3. UNCHANGED <<conn, threadId, openMu>>
      BY <2>4 DEF Call, Lock, ExecuteSend, ExecuteResult, Return, CatalogSend, Drain
    <3>4. QED
      BY <3>1, <3>2, <3>3 DEF Opening
  <2>5. CASE KillHits \/ ConnectionLost
    BY <2>5, ServerSteps DEF Opening
  <2>6. CASE Cancel \/ KillMisses \/ UNCHANGED vars
    BY <2>6 DEF Cancel, KillMisses, vars, Opening
  <2>7. QED
    BY <2>1, <2>2, <2>3, <2>4, <2>5, <2>6 DEF Next, Step
<1>3. QED
  BY <1>1, <1>2, TypesCorrect, PTL DEF Spec

\* mu_ is held by exactly the thread that is past its lock and not yet past its
\* unlock.
THEOREM LocksCorrect == Spec => []Locking
<1> USE MySqlAssumption
<1>1. Init => Locking
  <2> SUFFICES ASSUME Init PROVE Locking
    OBVIOUS
  <2>1. \A t \in Threads : th[t].pc = "idle" /\ mu # t
    BY DEF Init, Idle
  <2>2. QED
    BY <2>1 DEF Locking
<1>2. Types /\ Left /\ Locking /\ [Next]_vars => Locking'
  <2> SUFFICES ASSUME Types, Left, Locking, [Next]_vars PROVE Locking'
    OBVIOUS
  <2>0. NoThread \notin Threads
    OBVIOUS
  <2>1. ASSUME NEW t \in Threads, Lock(t) PROVE Locking'
    BY <2>0, <2>1, Moves, OthersStay DEF Lock, Locking, Step
  <2>2. ASSUME NEW t \in Threads, Return(t) PROVE Locking'
    BY <2>0, <2>2, Moves, OthersStay DEF Return, Locking, Step
  <2>3. ASSUME NEW t \in Threads,
               Call(t) \/ OpenLock(t) \/ Connect(t) \/ ConnectFails(t)
        PROVE  Locking'
    <3>1. /\ th[t].pc \notin {"send", "result", "drain", "done"}
          /\ th'[t].pc \notin {"send", "result", "drain", "done"}
      BY <2>3, Moves
    <3>2. \A u \in Threads \ {t} : th'[u] = th[u]
      BY <2>3, OthersStay DEF Step
    <3>3. UNCHANGED mu
      BY <2>3 DEF Call, OpenLock, Connect, ConnectFails
    <3>4. QED
      BY <3>1, <3>2, <3>3 DEF Locking
  <2>4. ASSUME NEW t \in Threads,
               ExecuteSend(t) \/ ExecuteResult(t) \/ CatalogSend(t) \/ Drain(t)
        PROVE  Locking'
    <3>1. /\ th[t].pc \in {"send", "result", "drain", "done"}
          /\ th'[t].pc \in {"send", "result", "drain", "done"}
      BY <2>4, Moves
    <3>2. \A u \in Threads \ {t} : th'[u] = th[u]
      BY <2>4, OthersStay DEF Step
    <3>3. UNCHANGED mu
      BY <2>4 DEF ExecuteSend, ExecuteResult, CatalogSend, Drain
    <3>4. QED
      BY <3>1, <3>2, <3>3 DEF Locking
  <2>5. CASE KillHits \/ ConnectionLost
    BY <2>5, ServerSteps DEF Locking
  <2>6. CASE Cancel \/ KillMisses \/ UNCHANGED vars
    BY <2>6 DEF Cancel, KillMisses, vars, Locking
  <2>7. QED
    BY <2>1, <2>2, <2>3, <2>4, <2>5, <2>6 DEF Next, Step
<1>3. QED
  BY <1>1, <1>2, TypesCorrect, PTL DEF Spec

----------------------------------------------------------------------------
(* The wire *)

\* What mysql_next_result finds.
LEMMA NextResultReads ==
  ASSUME wire \in Seq(Outcomes), wire # <<>>
  PROVE  /\ NextResult = "more" => /\ Tail(wire) \in Seq(Outcomes) /\ Tail(wire) # <<>>
                                   /\ Head(Tail(wire)) # "fail"
                                   /\ \A i \in 1..Len(wire) :
                                        i = 1 \/ (i - 1 \in 1..Len(Tail(wire))
                                                  /\ Tail(wire)[i - 1] = wire[i])
         /\ NextResult = "none" => Len(wire) = 1
         /\ NextResult \in {"more", "none", "error"}
<1>1. Len(wire) \in Nat \ {0}
  BY EmptySeq
<1>2. /\ Tail(wire) \in Seq(Outcomes) /\ Len(Tail(wire)) = Len(wire) - 1
      /\ \A i \in 1..Len(Tail(wire)) : Tail(wire)[i] = wire[i + 1]
  BY HeadTailProperties
<1>3. ASSUME Len(wire) # 1 PROVE Tail(wire) # <<>> /\ Head(Tail(wire)) = wire[2]
  <2>1. Len(Tail(wire)) # 0
    BY <1>1, <1>2, <1>3
  <2>2. Tail(wire) # <<>>
    BY <2>1, EmptySeq, Zenon
  <2>3. Head(Tail(wire)) = Tail(wire)[1]
    BY <1>2, <2>2
  <2>4. QED
    BY <1>1, <1>2, <1>3, <2>2, <2>3
<1>4. \A i \in 1..Len(wire) : i = 1 \/ (i - 1 \in 1..Len(Tail(wire)) /\ Tail(wire)[i - 1] = wire[i])
  BY <1>1, <1>2
<1>5. QED
  BY <1>2, <1>3, <1>4 DEF NextResult

\* What KILL QUERY and a lost connection leave to be read of the results of a
\* call: something, that does not begin with an error and has one further on.
LEMMA CutShort ==
  ASSUME wire \in Seq(Outcomes), wire # <<>> => Head(wire) # "fail",
         KillHits \/ ConnectionLost
  PROVE  /\ wire' \in Seq(Outcomes)
         /\ wire' # <<>> <=> wire # <<>>
         /\ wire' # <<>> => Head(wire') # "fail"
         /\ (wire' = wire /\ th' = th) \/ Bad(wire')
<1> USE DEF Outcomes
<1>1. wire # <<>> => Head(wire) \in Outcomes
  BY HeadTailProperties
<1>2. ASSUME NEW o \in Outcomes, o # "fail"
      PROVE  /\ <<o, "fail">> \in Seq(Outcomes) /\ <<o, "fail">> # <<>>
             /\ Head(<<o, "fail">>) # "fail"
             /\ Bad(<<o, "fail">>)
  BY <1>2 DEF Bad, Ends
<1>3. <<"broken">> \in Seq(Outcomes) /\ <<"broken">> # <<>> /\ Head(<<"broken">>) # "fail"
      /\ Bad(<<"broken">>)
  BY DEF Bad, Ends
<1>4. CASE KillHits
  <2>1. wire # <<>>
    BY <1>4, EmptySeq DEF KillHits
  <2>2. wire' \in {<<"broken">>, <<Head(wire), "fail">>}
    BY <1>4 DEF KillHits
  <2>3. QED
    BY <1>1, <1>2, <1>3, <2>1, <2>2
<1>5. CASE ConnectionLost
  <2>1. CASE wire \in {<<>>, <<"command">>}
    BY <1>5, <2>1 DEF ConnectionLost
  <2>2. CASE wire \notin {<<>>, <<"command">>}
    <3>1. wire' \in {<<"broken">>, <<Head(wire), "fail">>}
      BY <1>5, <2>2 DEF ConnectionLost
    <3>2. QED
      BY <1>1, <1>2, <1>3, <2>2, <3>1
  <2>3. QED
    BY <2>1, <2>2
<1>6. QED
  BY <1>4, <1>5

\* Results are on the wire exactly while a call that holds mu_ is reading them.
LEMMA WireCorrect == Spec => []Wire
<1> USE MySqlAssumption
<1>1. Init => Wire
  BY EmptySeq DEF Init, Wire, Idle
<1>2. Types /\ Left /\ Locking /\ Wire /\ [Next]_vars => Wire'
  <2> SUFFICES ASSUME Types, Left, Locking, Wire, [Next]_vars PROVE Wire'
    OBVIOUS
  <2>0. ASSUME NEW t \in Threads, th[t].pc \in {"send", "result", "drain"}
        PROVE  \A u \in Threads \ {t} : th[u].pc \notin {"result", "drain"}
    BY <2>0 DEF Locking
  <2>1. ASSUME NEW t \in Threads,
               \/ Call(t) \/ OpenLock(t) \/ Connect(t) \/ ConnectFails(t)
               \/ Lock(t) \/ Return(t)
        PROVE  Wire'
    <3>1. th[t].pc \notin {"result", "drain"} /\ th'[t].pc \notin {"result", "drain"}
      BY <2>1, Moves
    <3>2. \A u \in Threads \ {t} : th'[u] = th[u]
      BY <2>1, OthersStay DEF Step
    <3>3. UNCHANGED wire
      BY <2>1 DEF Call, OpenLock, Connect, ConnectFails, Lock, Return
    <3>4. QED
      BY <3>1, <3>2, <3>3 DEF Wire
  <2>2. ASSUME NEW t \in Threads, ExecuteSend(t) \/ CatalogSend(t) PROVE Wire'
    <3>1. \A u \in Threads \ {t} : th'[u] = th[u] /\ th[u].pc \notin {"result", "drain"}
      BY <2>0, <2>2, OthersStay, Moves DEF Step
    <3>2. \/ wire' = <<>> /\ th'[t].pc \notin {"result", "drain"}
          \/ /\ th'[t].pc \in {"result", "drain"}
             /\ \E text : /\ text \in Batches \/ \E q : text \in Texts(q)
                          /\ wire' = text /\ Head(text) # "fail"
      <4> USE DEF Types, Calls, Set, Goto, NextQuery, Refused
      <4>1. CASE ExecuteSend(t)
        BY <4>1 DEF ExecuteSend
      <4>2. CASE CatalogSend(t)
        <5>1. PICK text \in Texts(Head(th[t].script)) :
                IF Refused(text)
                THEN /\ wire' = <<>>
                     /\ \/ Set(t, [th[t] EXCEPT !.script = <<>>, !.pc = "done"])
                        \/ Set(t, NextQuery(th[t]))
                ELSE wire' = text /\ Goto(t, "drain")
          BY <4>2 DEF CatalogSend
        <5>2. CASE Refused(text)
          <6>1. wire' = <<>>
            BY <5>1, <5>2
          <6>2. \/ Set(t, [th[t] EXCEPT !.script = <<>>, !.pc = "done"])
                \/ Set(t, NextQuery(th[t]))
            BY <5>1, <5>2
          <6>3. th \in [Threads -> Calls]
            OBVIOUS
          <6>4. CASE Set(t, [th[t] EXCEPT !.script = <<>>, !.pc = "done"])
            BY <6>1, <6>3, <6>4
          <6>5. CASE Set(t, NextQuery(th[t]))
            BY <6>1, <6>3, <6>5
          <6>6. QED
            BY <6>2, <6>4, <6>5
        <5>3. CASE ~Refused(text)
          <6>1. wire' = text /\ Head(text) # "fail" /\ th'[t].pc = "drain"
            BY <5>1, <5>3
          <6>2. QED
            BY <6>1
        <5>4. QED
          BY <5>2, <5>3
      <4>3. QED
        BY <2>2, <4>1, <4>2
    <3>3. QED
      BY <3>1, <3>2, TextsAreSeqs, EmptySeq DEF Wire
  <2>3. ASSUME NEW t \in Threads, ExecuteResult(t) PROVE Wire'
    <3>1. \A u \in Threads \ {t} : th'[u] = th[u] /\ th[u].pc \notin {"result", "drain"}
      BY <2>0, <2>3, OthersStay, Moves DEF Step
    <3>2. wire \in Seq(Outcomes) /\ wire # <<>>
      BY <2>3, Moves DEF Wire
    <3>3. /\ wire' = IF NextResult = "more" THEN Tail(wire) ELSE <<>>
          /\ th'[t].pc = IF NextResult = "more" THEN "result" ELSE "done"
      BY <2>3 DEF ExecuteResult, Types, Calls, Set
    <3>4. QED
      BY <3>1, <3>2, <3>3, NextResultReads, EmptySeq DEF Wire
  <2>4. ASSUME NEW t \in Threads, Drain(t) PROVE Wire'
    <3>1. \A u \in Threads \ {t} : th'[u] = th[u] /\ th[u].pc \notin {"result", "drain"}
      BY <2>0, <2>4, OthersStay, Moves DEF Step
    <3>2. wire' = <<>> /\ th'[t].pc \notin {"result", "drain"}
      BY <2>4, Moves DEF Drain
    <3>3. QED
      BY <3>1, <3>2, EmptySeq DEF Wire
  <2>5. CASE KillHits \/ ConnectionLost
    BY <2>5, CutShort, ServerSteps DEF Wire
  <2>6. CASE Cancel \/ KillMisses \/ UNCHANGED vars
    BY <2>6 DEF Cancel, KillMisses, vars, Wire
  <2>7. QED
    BY <2>1, <2>2, <2>3, <2>4, <2>5, <2>6 DEF Next, Step
<1>3. QED
  BY <1>1, <1>2, TypesCorrect, LocksCorrect, PTL DEF Spec

\* Every variable keeps its type, and a handle never has a second connection,
\* whichever threads race for the first.
THEOREM TypeCorrect == Spec => []TypeOK
<1>1. Types /\ Left /\ Opening /\ Wire => TypeOK
  <2> SUFFICES ASSUME Types, Left, Opening, Wire PROVE TypeOK
    OBVIOUS
  <2>1. ASSUME NEW t \in Threads
        PROVE  /\ th[t].pc \in PCs /\ th[t].batch \in Seq(Outcomes) /\ th[t].ok \in BOOLEAN
               /\ th[t].script = <<"execute">> \/ IsRest(th[t].script)
    BY DEF Types, Calls, Left, LeftIn
  <2>2. QED
    BY <2>1 DEF Types, Opening, Wire, TypeOK, IsRest
<1>2. QED
  BY <1>1, TypesCorrect, OpeningCorrect, WireCorrect, PTL

\* A query is only sent on a connection whose results have all been read, by
\* whichever thread, after whatever failure, kill or loss.
THEOREM InSyncCorrect == Spec => []InSync
<1>1. Types /\ Locking /\ Wire => InSync
  <2> SUFFICES ASSUME Types, Locking, Wire PROVE InSync
    OBVIOUS
  <2>1. mu = NoThread => wire = <<>>
    BY MySqlAssumption DEF Locking, Wire
  <2>2. ASSUME NEW t \in Threads, th[t].pc = "send" PROVE mu = t /\ wire = <<>>
    BY <2>2 DEF Locking, Wire
  <2>3. QED
    BY <2>1, <2>2 DEF InSync
<1>2. QED
  BY <1>1, TypesCorrect, LocksCorrect, WireCorrect, PTL

----------------------------------------------------------------------------
(* Batches *)

\* A catalog call's queries are never those of execute().
LEMMA RestIsNoExecute == \A q : IsRest(q) => q # <<"execute">>
<1> SUFFICES ASSUME IsRest(<<"execute">>) PROVE FALSE
  OBVIOUS
<1>1. <<"execute">> \in Seq(Queries)
  BY RestOfCall
<1>2. 1 \in 1..Len(<<"execute">>) /\ <<"execute">>[1] = "execute"
  OBVIOUS
<1>3. "execute" \in Queries
  BY <1>1, <1>2, ElementOfSeq
<1>4. QED
  BY <1>3 DEF Queries

\* A catalog call that goes on or ends is none of execute().
LEMMA CatalogIsNoExecute ==
  ASSUME Types, Left, NEW t \in Threads, CatalogSend(t) \/ Drain(t)
  PROVE  th'[t].script # <<"execute">>
<1>1. th[t] \in Calls /\ LeftIn(th[t])
  BY DEF Types, Left
<1>2. th[t].script # <<>> /\ th[t].script # <<"execute">> /\ IsRest(th[t].script)
  BY <1>1 DEF LeftIn, CatalogSend, Drain
<1>3. IsRest(Tail(th[t].script)) /\ IsRest(<<>>)
  BY <1>2, RestOfCall
<1>4. th'[t].script \in {<<>>, th[t].script, Tail(th[t].script)}
  <2>1. \/ Set(t, [th[t] EXCEPT !.script = <<>>, !.pc = "done"])
        \/ Set(t, NextQuery(th[t]))
        \/ Goto(t, "drain")
    BY DEF CatalogSend, Drain
  <2>2. QED
    BY <2>1 DEF Types, Calls, Set, Goto, NextQuery
<1>5. QED
  BY <1>2, <1>3, <1>4, RestIsNoExecute

\* A statement of the batch that failed, was killed or was lost is reported, or
\* is still to be met among the results.
LEMMA ReportedCorrect == Spec => []Reported
<1> USE MySqlAssumption
<1>1. Init => Reported
  BY DEF Init, Reported, Idle
<1>2. Types /\ Left /\ Locking /\ Wire /\ Reported /\ [Next]_vars => Reported'
  <2> SUFFICES ASSUME Types, Left, Locking, Wire, Reported, [Next]_vars PROVE Reported'
    OBVIOUS
  <2>0. ASSUME NEW t \in Threads, th[t].pc \in {"send", "result", "drain"}
        PROVE  \A u \in Threads \ {t} : th[u].pc \notin {"result", "done"}
    BY <2>0 DEF Locking
  <2>1. ASSUME NEW t \in Threads,
               \/ Call(t) \/ OpenLock(t) \/ Connect(t) \/ ConnectFails(t)
               \/ Lock(t) \/ Return(t)
        PROVE  Reported'
    <3>1. th'[t].pc \notin {"result", "done"}
      BY <2>1, Moves
    <3>2. \A u \in Threads \ {t} : th'[u] = th[u]
      BY <2>1, OthersStay DEF Step
    <3>3. UNCHANGED wire
      BY <2>1 DEF Call, OpenLock, Connect, ConnectFails, Lock, Return
    <3>4. QED
      BY <3>1, <3>2, <3>3 DEF Reported, Bad
  <2>2. ASSUME NEW t \in Threads, ExecuteSend(t) PROVE Reported'
    <3>1. \A u \in Threads \ {t} : th'[u] = th[u] /\ th[u].pc \notin {"result", "done"}
      BY <2>0, <2>2, OthersStay, Moves DEF Step
    <3>2. \/ th'[t].ok = FALSE
          \/ th'[t].pc = "result" /\ th'[t].batch = wire'
      BY <2>2 DEF ExecuteSend, Types, Calls, Set
    <3>3. QED
      BY <3>1, <3>2 DEF Reported, Bad
  <2>3. ASSUME NEW t \in Threads, ExecuteResult(t) PROVE Reported'
    <3>1. \A u \in Threads \ {t} : th'[u] = th[u] /\ th[u].pc \notin {"result", "done"}
      BY <2>0, <2>3, OthersStay, Moves DEF Step
    <3>2. /\ wire \in Seq(Outcomes) /\ wire # <<>> /\ Head(wire) # "fail"
          /\ th[t].pc = "result"
      BY <2>3, Moves DEF Wire
    <3>3. /\ wire' = IF NextResult = "more" THEN Tail(wire) ELSE <<>>
          /\ th'[t].pc = IF NextResult = "more" THEN "result" ELSE "done"
          /\ th'[t].script = th[t].script /\ th'[t].batch = th[t].batch
          /\ th'[t].ok => th[t].ok /\ Head(wire) # "broken" /\ NextResult # "error"
      BY <2>3 DEF ExecuteResult, Types, Calls, Set, Extract
    <3>4. ASSUME th'[t].ok, th'[t].script = <<"execute">>
          PROVE  /\ th'[t].pc = "result" /\ Bad(th'[t].batch) => Bad(wire')
                 /\ th'[t].pc = "done" => ~Bad(th'[t].batch)
      <4>1. Bad(th[t].batch) => Bad(wire)
        BY <3>2, <3>3, <3>4 DEF Reported
      <4>2. Head(wire) = wire[1] /\ wire[1] \notin Ends
        BY <3>2, <3>3, <3>4 DEF Ends
      <4>3. CASE NextResult = "more"
        <5>1. Bad(wire) => Bad(Tail(wire))
          BY <3>2, <4>2, <4>3, NextResultReads DEF Bad
        <5>2. QED
          BY <3>3, <4>1, <4>3, <5>1
      <4>4. CASE NextResult = "none"
        <5>1. Len(wire) = 1
          BY <3>2, <4>4, NextResultReads
        <5>2. ~Bad(wire)
          BY <4>2, <5>1 DEF Bad
        <5>3. QED
          BY <3>3, <4>1, <4>4, <5>2
      <4>5. QED
        BY <3>2, <3>3, <3>4, <4>3, <4>4, NextResultReads
    <3>5. QED
      BY <3>1, <3>4 DEF Reported
  <2>4. ASSUME NEW t \in Threads, CatalogSend(t) \/ Drain(t) PROVE Reported'
    <3>1. \A u \in Threads \ {t} : th'[u] = th[u] /\ th[u].pc \notin {"result", "done"}
      BY <2>0, <2>4, OthersStay, Moves DEF Step
    <3>2. QED
      BY <2>4, <3>1, CatalogIsNoExecute DEF Reported
  <2>5. CASE KillHits \/ ConnectionLost
    <3>1. (wire' = wire /\ th' = th) \/ (Bad(wire') /\ wire # <<>>)
      <4>1. Bad(<<>>) => FALSE
        BY DEF Bad
      <4>2. QED
        BY <2>5, <4>1, CutShort DEF Wire
    <3>2. ASSUME wire # <<>>, NEW t \in Threads, th[t].pc = "done" PROVE th'[t] = th[t]
      BY <2>5, <3>2, ServerSteps DEF Wire, Locking
    <3>3. \A t \in Threads : /\ th'[t].pc = th[t].pc /\ th'[t].script = th[t].script
                             /\ th'[t].ok = th[t].ok
      BY <2>5, ServerSteps
    <3>4. CASE wire' = wire /\ th' = th
      BY <3>4 DEF Reported, Bad
    <3>5. CASE Bad(wire') /\ wire # <<>>
      BY <3>2, <3>3, <3>5 DEF Reported
    <3>6. QED
      BY <3>1, <3>4, <3>5
  <2>6. CASE Cancel \/ KillMisses \/ UNCHANGED vars
    BY <2>6 DEF Cancel, KillMisses, vars, Reported, Bad
  <2>7. QED
    BY <2>1, <2>2, <2>3, <2>4, <2>5, <2>6 DEF Next, Step
<1>3. QED
  BY <1>1, <1>2, TypesCorrect, LocksCorrect, WireCorrect, PTL DEF Spec

\* execute() reports success only if every statement of its batch ran, however
\* the kills, the loss of the connection and the other threads are timed.
THEOREM SuccessCorrect == Spec => []SuccessIsWholeBatch
<1>1. Reported => SuccessIsWholeBatch
  BY DEF Reported, SuccessIsWholeBatch, Bad
<1>2. QED
  BY <1>1, ReportedCorrect, PTL
=============================================================================
