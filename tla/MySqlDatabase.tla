---------------------------- MODULE MySqlDatabase ----------------------------
(***************************************************************************)
(* One MySQL database handle (MySQLDatabase, src/mysql_connection.cpp)     *)
(* shared by threads: the lazily opened connection, multi-statement        *)
(* batches and their results, the catalog calls and cancel().              *)
(*                                                                         *)
(* A query text is the sequence of outcomes its statements will have; the  *)
(* server stops at the first that fails.  wire holds the results the       *)
(* client has not read yet: a client that sends while it is not empty gets *)
(* "Commands out of sync".                                                 *)
(***************************************************************************)
EXTENDS Naturals, Sequences

CONSTANTS
    Threads,     \* the host's threads
    NoThread,    \* not a thread
    MaxTables,   \* bound: tables a listing finds
    MaxBatch,    \* bound: statements of a batch
    MaxCalls,    \* bound: calls made by all threads together
    MaxKills     \* bound: cancels

ASSUME MySqlAssumption ==
    /\ NoThread \notin Threads
    /\ MaxTables \in Nat /\ MaxCalls \in Nat /\ MaxKills \in Nat
    /\ MaxBatch \in Nat

VARIABLES
    conn,      \* connections opened for this handle: conn_ is set when 1
    threadId,  \* threadId_ # 0
    openMu,    \* holder of openMu_
    mu,        \* holder of mu_
    wire,      \* results of the last query not read yet
    lost,      \* the server closed the connection
    killer,    \* "none", or a cancel() that has read threadId_ ("sent")
    kills,     \* cancels so far
    calls,     \* calls so far
    th         \* the call each thread is in

vars == <<conn, threadId, openMu, mu, wire, lost, killer, kills, calls, th>>

\* "broken": the rows of this result stop half way (store_result fails).
Outcomes == {"rows", "command", "fail", "broken"}
Ends == {"fail", "broken"}

\* What a text can make the server answer: nothing comes after the statement that ends it.
Batches ==
    {text \in UNION {[1..n -> Outcomes] : n \in 1..MaxBatch} :
        \A i \in 1..(Len(text) - 1) : text[i] \notin Ends}

\* The text of a catalog query, and one that ends in a caller's WHERE clause.
Catalog == {<<"rows">>, <<"fail">>, <<"broken">>}
WithClause == Catalog \cup {<<"rows", o>> : o \in Outcomes}

----------------------------------------------------------------------------
(***************************************************************************)
(* The queries of a call in their order, as the sets of texts they may be. *)
(* A listing asks for the names first and then per name; n is what it will *)
(* find.                                                                   *)
(***************************************************************************)
PerName(n, qs) ==
    [i \in 1..(n * Len(qs)) |-> qs[((i - 1) % Len(qs)) + 1]]

tables(n) == <<"names">> \o PerName(n, <<"columns", "foreignKeys">>)
views(n) == <<"names">> \o PerName(n, <<"columns">>)
routines == <<"routines">>
describeTable == <<"columns", "uniques", "indexes", "foreignKeys">>
getTableData == <<"data">>
getColumnNames == <<"columns">>
getRowCount == <<"count">>

Scripts ==
    {tables(n) : n \in 0..MaxTables} \cup {views(n) : n \in 0..MaxTables}
    \cup {routines, describeTable, getTableData, getColumnNames, getRowCount}

Texts(q) == IF q \in {"data", "count"} THEN WithClause ELSE Catalog

----------------------------------------------------------------------------
Idle == [pc |-> "idle", script |-> <<>>, batch |-> <<>>, ok |-> TRUE]

PCs == {"idle", "openLock", "connect", "lock", "send", "result", "drain", "done"}

(***************************************************************************)
(* Types; a handle never has a second connection (the first calls of two   *)
(* threads race for it), and once there is one cancel() sees its thread    *)
(* id.                                                                     *)
(***************************************************************************)
TypeOK ==
    /\ conn \in 0..1
    /\ threadId \in BOOLEAN
    /\ conn = 1 => threadId
    /\ {openMu, mu} \subseteq Threads \cup {NoThread}
    /\ wire \in Seq(Outcomes)
    /\ lost \in BOOLEAN
    /\ killer \in {"none", "sent"}
    /\ kills \in 0..MaxKills
    /\ calls \in 0..MaxCalls
    /\ \A t \in Threads :
        /\ th[t].pc \in PCs
        /\ th[t].script = <<"execute">> \/ \E s \in Scripts : \E k \in 0..Len(s) :
                th[t].script = SubSeq(s, k + 1, Len(s))
        /\ th[t].batch \in Seq(Outcomes)
        /\ th[t].ok \in BOOLEAN

Init ==
    /\ conn = 0
    /\ threadId = FALSE
    /\ openMu = NoThread
    /\ mu = NoThread
    /\ wire = <<>>
    /\ lost = FALSE
    /\ killer = "none"
    /\ kills = 0
    /\ calls = 0
    /\ th = [t \in Threads |-> Idle]

Set(t, r) == th' = [th EXCEPT ![t] = r]
Goto(t, pc) == Set(t, [th[t] EXCEPT !.pc = pc])

\* execute, a DDL helper built on it, or a catalog call; open() is a call without queries.
Call(t) ==
    /\ th[t].pc = "idle"
    /\ calls < MaxCalls
    /\ calls' = calls + 1
    /\ \E s \in Scripts \cup {<<"execute">>, <<>>} :
        Set(t, [Idle EXCEPT !.script = s,
                            !.pc = IF conn = 0 THEN "openLock"
                                   ELSE IF s = <<>> THEN "idle" ELSE "lock"])
    /\ UNCHANGED <<conn, threadId, openMu, mu, wire, lost, killer, kills>>

AfterConn(t) == IF th[t].script = <<>> THEN "idle" ELSE "lock"

\* ensureConn without its second look at conn_.
OpenLockBlind(t) ==
    /\ th[t].pc = "openLock"
    /\ openMu = NoThread
    /\ openMu' = t
    /\ Goto(t, "connect")
    /\ UNCHANGED <<conn, threadId, mu, wire, lost, killer, kills, calls>>

\* ensureConn: the lock, and a second look at conn_ under it.
OpenLock(t) ==
    /\ th[t].pc = "openLock"
    /\ openMu = NoThread
    /\ IF conn = 0
       THEN openMu' = t /\ Goto(t, "connect")
       ELSE UNCHANGED openMu /\ Goto(t, AfterConn(t))
    /\ UNCHANGED <<conn, threadId, mu, wire, lost, killer, kills, calls>>

\* openMysql succeeds; the thread id is stored before conn_.
Connect(t) ==
    /\ th[t].pc = "connect"
    /\ conn' = conn + 1
    /\ threadId' = TRUE
    /\ openMu' = NoThread
    /\ Goto(t, AfterConn(t))
    /\ UNCHANGED <<mu, wire, lost, killer, kills, calls>>

\* openMysql throws: execute answers with a failed statement, catalog calls with nothing.
ConnectFails(t) ==
    /\ th[t].pc = "connect"
    /\ openMu' = NoThread
    /\ Set(t, Idle)
    /\ UNCHANGED <<conn, threadId, mu, wire, lost, killer, kills, calls>>

\* mu_ is taken for the whole call.
Lock(t) ==
    /\ th[t].pc = "lock"
    /\ mu = NoThread
    /\ mu' = t
    /\ Goto(t, "send")
    /\ UNCHANGED <<conn, threadId, openMu, wire, lost, killer, kills, calls>>

----------------------------------------------------------------------------
\* A lost connection refuses the query; so does the server when the first statement fails.
Refused(text) == lost \/ Head(text) = "fail"

(***************************************************************************)
(* execute: mysql_real_query reports only the failure of the first         *)
(* statement.                                                              *)
(***************************************************************************)
ExecuteSend(t) ==
    /\ th[t].pc = "send"
    /\ th[t].script = <<"execute">>
    /\ \E text \in Batches :
        IF Refused(text)
        THEN /\ wire' = <<>>
             /\ Set(t, [th[t] EXCEPT !.batch = <<"fail">>, !.ok = FALSE, !.pc = "done"])
        ELSE /\ wire' = text
             /\ Set(t, [th[t] EXCEPT !.batch = text, !.pc = "result"])
    /\ UNCHANGED <<conn, threadId, openMu, mu, lost, killer, kills, calls>>

\* extractMysqlResult: a result that ends in an error is a failed statement.
Extract(o) == o # "broken"

\* mysql_next_result after the head of wire was read: more, none, or an error.
NextResult ==
    IF Len(wire) = 1 THEN "none"
    ELSE IF wire[2] = "fail" THEN "error" ELSE "more"

\* The loop of execute, leaving on an error as it leaves at the end.
ExecuteResultQuiet(t) ==
    /\ th[t].pc = "result"
    /\ Set(t, [th[t] EXCEPT !.ok = @ /\ Extract(Head(wire)),
                            !.pc = IF NextResult = "more" THEN "result" ELSE "done"])
    /\ wire' = IF NextResult = "more" THEN Tail(wire) ELSE <<>>
    /\ UNCHANGED <<conn, threadId, openMu, mu, lost, killer, kills, calls>>

\* The loop of execute: one result, then mysql_next_result; > 0 is recorded as a failed statement.
ExecuteResult(t) ==
    /\ th[t].pc = "result"
    /\ Set(t, [th[t] EXCEPT !.ok = @ /\ Extract(Head(wire)) /\ NextResult # "error",
                            !.pc = IF NextResult = "more" THEN "result" ELSE "done"])
    /\ wire' = IF NextResult = "more" THEN Tail(wire) ELSE <<>>
    /\ UNCHANGED <<conn, threadId, openMu, mu, lost, killer, kills, calls>>

\* mu_ is released and the call returns.
Return(t) ==
    /\ th[t].pc = "done"
    /\ mu' = NoThread
    /\ Set(t, Idle)
    /\ UNCHANGED <<conn, threadId, openMu, wire, lost, killer, kills, calls>>

----------------------------------------------------------------------------
\* The next query of the call, or its end.
NextQuery(r) == [r EXCEPT !.script = Tail(@), !.pc = IF Len(r.script) = 1 THEN "done" ELSE "send"]

(***************************************************************************)
(* A catalog query: a failure is skipped, except that without the names    *)
(* there is nothing to loop over and getTableData returns at once.         *)
(***************************************************************************)
CatalogSend(t) ==
    /\ th[t].pc = "send"
    /\ th[t].script # <<"execute">>
    /\ \E text \in Texts(Head(th[t].script)) :
        IF Refused(text)
        THEN /\ wire' = <<>>
             /\ Set(t, IF Head(th[t].script) \in {"names", "data"}
                       THEN [th[t] EXCEPT !.script = <<>>, !.pc = "done"]
                       ELSE NextQuery(th[t]))
        ELSE /\ wire' = text
             /\ Goto(t, "drain")
    /\ UNCHANGED <<conn, threadId, openMu, mu, lost, killer, kills, calls>>

\* Reads the first result only and goes on to the next query.
DrainOne(t) ==
    /\ th[t].pc = "drain"
    /\ wire' = Tail(wire)
    /\ Set(t, NextQuery(th[t]))
    /\ UNCHANGED <<conn, threadId, openMu, mu, lost, killer, kills, calls>>

\* mysql_store_result and drainExtraResults: everything there is, up to an error.
Drain(t) ==
    /\ th[t].pc = "drain"
    /\ wire' = <<>>
    /\ Set(t, IF Head(th[t].script) = "names" /\ Head(wire) = "broken"
              THEN [th[t] EXCEPT !.script = <<>>, !.pc = "done"]
              ELSE NextQuery(th[t]))
    /\ UNCHANGED <<conn, threadId, openMu, mu, lost, killer, kills, calls>>

----------------------------------------------------------------------------
\* cancel(): reads threadId_ with no lock and opens a connection of its own.
Cancel ==
    /\ killer = "none"
    /\ kills < MaxKills
    /\ kills' = kills + 1
    /\ killer' = IF threadId THEN "sent" ELSE "none"
    /\ UNCHANGED <<conn, threadId, openMu, mu, wire, lost, calls, th>>

\* The killer could not connect, or KILL QUERY found the session between two queries.
KillMisses ==
    /\ killer = "sent"
    /\ killer' = "none"
    /\ UNCHANGED <<conn, threadId, openMu, mu, wire, lost, kills, calls, th>>

\* KILL QUERY hits what the session is doing: nothing more of the batch runs.
KillHits ==
    /\ killer = "sent"
    /\ Len(wire) > 1 \/ (wire # <<>> /\ Head(wire) = "rows")
    /\ killer' = "none"
    /\ wire' = IF Len(wire) = 1 THEN <<"broken">> ELSE <<Head(wire), "fail">>
    /\ th' = [th EXCEPT ![mu].batch = @ \o <<"fail">>]
    /\ UNCHANGED <<conn, threadId, openMu, mu, lost, kills, calls>>

\* The server closes the connection: what was still to come is lost.  conn_ is never reset.
ConnectionLost ==
    /\ conn > 0
    /\ ~lost
    /\ lost' = TRUE
    /\ wire' = CASE wire \in {<<>>, <<"command">>} -> wire
                  [] wire # <<>> /\ Head(wire) = "rows" -> <<"broken">>
                  [] OTHER -> <<Head(wire), "fail">>
    /\ th' = IF wire \in {<<>>, <<"command">>} THEN th ELSE [th EXCEPT ![mu].batch = @ \o <<"fail">>]
    /\ UNCHANGED <<conn, threadId, openMu, mu, killer, kills, calls>>

----------------------------------------------------------------------------
Step(t) ==
    \/ OpenLock(t) \/ Connect(t) \/ ConnectFails(t) \/ Lock(t)
    \/ ExecuteSend(t) \/ ExecuteResult(t) \/ Return(t)
    \/ CatalogSend(t) \/ Drain(t)

Next ==
    \/ \E t \in Threads : Call(t) \/ Step(t)
    \/ Cancel \/ KillMisses \/ KillHits \/ ConnectionLost

Spec == Init /\ [][Next]_vars

----------------------------------------------------------------------------
(***************************************************************************)
(* A query is only sent on a connection whose results have all been read:  *)
(* whatever a batch or a caller's WHERE clause produced, at whatever point *)
(* it failed, was killed or lost its connection, the next query of this or *)
(* another thread finds the protocol in step.                              *)
(***************************************************************************)
InSync ==
    /\ mu = NoThread => wire = <<>>
    /\ \A t \in Threads : th[t].pc = "send" => mu = t /\ wire = <<>>

(***************************************************************************)
(* execute reports success only if every statement of the batch ran: no    *)
(* statement failed, none was killed, and the connection was there to the  *)
(* end (the comment at mysql_connection.cpp:297: "stopping on >0 without   *)
(* recording it would report a partial batch as applied").                 *)
(***************************************************************************)
SuccessIsWholeBatch ==
    \A t \in Threads :
        th[t].pc = "done" /\ th[t].script = <<"execute">> /\ th[t].ok =>
            \A i \in 1..Len(th[t].batch) : th[t].batch[i] \notin Ends
=============================================================================
