----------------------------- MODULE RedisProofs -----------------------------
(***************************************************************************)
(* Proofs about RedisSession, for any number of threads, of logical        *)
(* databases and of handle indexes, and for any host commands.             *)
(*                                                                         *)
(* SelectedDbSound is inductive once the types are known.  SuccessMeansRan *)
(* needs what the stages of a call know (Stages): nothing ran before the   *)
(* first section under mu, and something did before the second half of     *)
(* getTableData; and that a context that was neither closed nor broken     *)
(* since the first half serves the second one as well (Marked).  The       *)
(* refinement needs that a host that leaves SELECT and MULTI to the        *)
(* library is never seen sending one (Polite), and that what ran, ran in   *)
(* the handle's own database (RanOwn).                                     *)
(***************************************************************************)
EXTENDS RedisSession, TLAPS

\* What a call has done at each of its stages.
Stages ==
    \A t \in Threads :
        /\ pc[t] \in {"idle", "wait"} => ranIn[t] = None
        /\ pc[t] \in {"idle", "wait", "details"} => result[t] = "none"
        /\ pc[t] = "details" => ranIn[t] # None

\* A call between the two halves of getTableData, and what it makes of a second half
\* that failed.
Marked ==
    \A t \in Threads :
        /\ pc[t] = "details" =>
               t \in lost \/ (ctx = "up" /\ (touched = "yes" \/ idx[t] \in ServerDbs))
        /\ result[t] \in {"unknown", "blank"} => t \in lost \/ (ctx = "up" /\ touched = "yes")

\* What is reported ran.
Told ==
    \A t \in Threads :
        /\ result[t] \in {"ok", "rows", "unknown", "blank"} => ranIn[t] # None
        /\ result[t] = "rows" /\ cmd[t] = "data" => t \in detailed

\* Where the host never sends SELECT or MULTI, no call does.
Polite ==
    touched = "never" => \A t \in Threads :
        pc[t] = "wait" => cmd[t] \in {"key", "data", "count"}

\* Where the host never sends SELECT or MULTI, what ran ran in the database of its handle.
RanOwn ==
    touched = "never" => \A t \in Threads : ranIn[t] \in {None, idx[t]}

----------------------------------------------------------------------------
\* What ensureSelectedLocked() leaves behind: some database is met, and where
\* selectedDb was right, the one the handle stands for, outside any MULTI.
LEMMA SelectedMeets ==
  ASSUME TypeOK, NEW i \in Nat, NEW d \in ServerDbs, NEW q \in ServerDbs \cup {None},
         Selected(i, d, q)
  PROVE  /\ selectedDb' = i /\ ctx = "up"
         /\ Effective(d, q) \in ServerDbs
         /\ SelectedDbSound /\ touched # "yes" => d = i /\ q = None
BY RedisAssumption DEF TypeOK, Selected, ServerSelect, Effective, SelectedDbSound, ServerDbs

\* The server's databases are numbers, so none of them is None.
LEMMA ServerDbsAreNat == ServerDbs \subseteq Nat /\ 0 \in ServerDbs /\ None \notin ServerDbs
BY RedisAssumption DEF ServerDbs

\* A section of a call that reaches the server selects the handle's index and
\* runs in one of the server's databases: the handle's own, where selectedDb was
\* right.
LEMMA SectionRuns ==
  ASSUME TypeOK, NEW t \in Threads, Execute(t) \/ Scan(t) \/ Details(t)
  PROVE  /\ ctx = "up"
         /\ selectedDb' = idx[t]
         /\ \E d \in ServerDbs : /\ ranIn' = [ranIn EXCEPT ![t] = d]
                                 /\ SelectedDbSound /\ touched # "yes" => d = idx[t]
<1>1. PICK d \in ServerDbs, q \in ServerDbs \cup {None} :
        /\ Selected(idx[t], d, q)
        /\ ranIn' = [ranIn EXCEPT ![t] = Effective(d, q)]
  BY DEF Execute, Scan, Details
<1>2. idx[t] \in Nat
  BY DEF TypeOK
<1>3. QED
  BY <1>1, <1>2, SelectedMeets DEF Effective

\* Every variable keeps its type: no SELECT, MULTI, EXEC or failure takes the
\* connection to a database the server does not have.
THEOREM TypeCorrect == Spec => []TypeOK
<1> USE RedisAssumption, ServerDbsAreNat
<1>1. Init => TypeOK
  BY DEF Init, TypeOK, AllCommands, Results
<1>2. TypeOK /\ [Next]_vars => TypeOK'
  <2> SUFFICES ASSUME TypeOK, [Next]_vars PROVE TypeOK'
    OBVIOUS
  <2>run. ASSUME NEW t \in Threads, Execute(t) \/ Scan(t) \/ Details(t)
          PROVE  selectedDb' = idx[t] /\ \E d \in ServerDbs : ranIn' = [ranIn EXCEPT ![t] = d]
    BY <2>run, SectionRuns
  <2> USE DEF TypeOK, server, halves, Results, Finish, Refusal, Begun
  <2>1. ASSUME NEW t \in Threads, NEW i \in HandleIndexes, NEW c \in Requests, Call(t, i, c)
        PROVE  TypeOK'
    BY <2>1 DEF Call, Requests
  <2>2. ASSUME NEW t \in Threads,
               NotSelected(t) \/ NoReply(t) \/ NoDetails(t) \/ DetailsNoReply(t) \/ Return(t)
        PROVE  TypeOK'
    BY <2>2 DEF NotSelected, NoReply, NoDetails, DetailsNoReply, Return, AllCommands
  <2>3. ASSUME NEW t \in Threads, Execute(t) PROVE TypeOK'
    <3>1. selectedDb' \in Nat /\ ranIn' \in [Threads -> Nat \cup {None}]
      BY <2>3, <2>run
    <3>2. db' \in ServerDbs /\ queuedDb' \in ServerDbs \cup {None}
      BY <2>3 DEF Execute, CommandEffect, CommandError
    <3>3. QED
      BY <2>3, <3>1, <3>2 DEF Execute
  <2>4. ASSUME NEW t \in Threads, Scan(t) PROVE TypeOK'
    <3>1. selectedDb' \in Nat /\ ranIn' \in [Threads -> Nat \cup {None}]
      BY <2>4, <2>run
    <3>2. QED
      BY <2>4, <3>1 DEF Scan
  <2>5. ASSUME NEW t \in Threads, Details(t) PROVE TypeOK'
    <3>1. selectedDb' \in Nat /\ ranIn' \in [Threads -> Nat \cup {None}]
      BY <2>5, <2>run
    <3>2. QED
      BY <2>5, <3>1 DEF Details
  <2>6. ASSUME NEW t \in Threads, Connection(t) PROVE TypeOK'
    <3>1. CASE Open(t) \/ Close(t)
      BY <3>1 DEF Open, Close
    <3>2. ASSUME NEW i \in HandleIndexes, SelectDatabase(t, i) PROVE TypeOK'
      BY <3>2 DEF SelectDatabase, ServerSelect
    <3>3. QED
      BY <2>6, <3>1, <3>2 DEF Connection
  <2>7. CASE ContextBreaks \/ UNCHANGED vars
    BY <2>7 DEF ContextBreaks, vars
  <2>8. QED
    BY <2>1, <2>2, <2>3, <2>4, <2>5, <2>6, <2>7 DEF Next, Handle
<1>3. QED
  BY <1>1, <1>2, PTL DEF Spec

----------------------------------------------------------------------------
\* RedisState::selectedDb is where the connection is, until the host sends
\* SELECT or MULTI itself: a SELECT that fails, a close() and a reopen keep the
\* two together.
THEOREM SelectedDbCorrect == Spec => []SelectedDbSound
<1> USE RedisAssumption, ServerDbsAreNat DEF SelectedDbSound
<1>1. Init => SelectedDbSound
  BY DEF Init
<1>2. TypeOK /\ SelectedDbSound /\ [Next]_vars => SelectedDbSound'
  <2> SUFFICES ASSUME TypeOK, SelectedDbSound, [Next]_vars PROVE SelectedDbSound'
    OBVIOUS
  <2> USE DEF server, Finish
  <2>1. ASSUME NEW t \in Threads, NEW i \in HandleIndexes, NEW c \in Requests, Call(t, i, c)
        PROVE  SelectedDbSound'
    BY <2>1 DEF Call
  <2>2. ASSUME NEW t \in Threads,
               NotSelected(t) \/ NoReply(t) \/ NoDetails(t) \/ DetailsNoReply(t) \/ Return(t)
        PROVE  SelectedDbSound'
    BY <2>2 DEF NotSelected, NoReply, NoDetails, DetailsNoReply, Return
  <2>3. ASSUME NEW t \in Threads, Execute(t) PROVE SelectedDbSound'
    <3>1. PICK d \in ServerDbs, q \in ServerDbs \cup {None} :
            /\ Selected(idx[t], d, q)
            /\ CommandEffect(cmd[t], d, q) \/ CommandError(cmd[t], d, q)
      BY <2>3 DEF Execute
    <3>2. idx[t] \in Nat
      BY DEF TypeOK
    <3>3. selectedDb' = idx[t] /\ (touched # "yes" => d = idx[t] /\ q = None)
      BY <3>1, <3>2, SelectedMeets
    <3>4. CASE cmd[t] \in {"select", "multi"}
      BY <2>3, <3>4 DEF Execute
    <3>5. CASE cmd[t] \notin {"select", "multi"}
      <4>1. touched' = touched
        BY <2>3, <3>5 DEF Execute
      <4>2. q = None => db' = d /\ queuedDb' = None
        BY <3>1, <3>5 DEF CommandEffect, CommandError
      <4>3. QED
        BY <3>3, <4>1, <4>2
    <3>6. QED
      BY <3>4, <3>5
  <2>4. ASSUME NEW t \in Threads, Scan(t) \/ Details(t) PROVE SelectedDbSound'
    <3>1. PICK d \in ServerDbs, q \in ServerDbs \cup {None} :
            Selected(idx[t], d, q) /\ db' = d /\ queuedDb' = q
      BY <2>4 DEF Scan, Details
    <3>2. idx[t] \in Nat
      BY DEF TypeOK
    <3>3. selectedDb' = idx[t] /\ (touched # "yes" => d = idx[t] /\ q = None)
      BY <3>1, <3>2, SelectedMeets
    <3>4. QED
      BY <2>4, <3>1, <3>3 DEF Scan, Details
  <2>5. ASSUME NEW t \in Threads, Connection(t) PROVE SelectedDbSound'
    <3>1. CASE Open(t) \/ Close(t)
      BY <3>1 DEF Open, Close
    <3>2. ASSUME NEW i \in HandleIndexes, SelectDatabase(t, i) PROVE SelectedDbSound'
      BY <3>2 DEF SelectDatabase, ServerSelect, ServerDbs
    <3>3. QED
      BY <2>5, <3>1, <3>2 DEF Connection
  <2>6. CASE ContextBreaks \/ UNCHANGED vars
    BY <2>6 DEF ContextBreaks, vars
  <2>7. QED
    BY <2>1, <2>2, <2>3, <2>4, <2>5, <2>6 DEF Next, Handle
<1>3. QED
  BY <1>1, <1>2, TypeCorrect, PTL DEF Spec

----------------------------------------------------------------------------
\* What a call has done is what its stage says.
LEMMA StagesCorrect == Spec => []Stages
<1> USE RedisAssumption, ServerDbsAreNat DEF Stages
<1>1. Init => Stages
  BY DEF Init
<1>2. TypeOK /\ Stages /\ [Next]_vars => Stages'
  <2> SUFFICES ASSUME TypeOK, Stages, [Next]_vars PROVE Stages'
    OBVIOUS
  <2>run. ASSUME NEW t \in Threads, Execute(t) \/ Scan(t) \/ Details(t)
          PROVE  selectedDb' = idx[t] /\ \E d \in ServerDbs : ranIn' = [ranIn EXCEPT ![t] = d]
    BY <2>run, SectionRuns
  <2> USE DEF TypeOK, Finish
  <2>1. ASSUME NEW t \in Threads, NEW i \in HandleIndexes, NEW c \in Requests, Call(t, i, c)
        PROVE  Stages'
    BY <2>1 DEF Call
  <2>2. ASSUME NEW t \in Threads,
               NotSelected(t) \/ NoReply(t) \/ NoDetails(t) \/ DetailsNoReply(t) \/ Return(t)
        PROVE  Stages'
    BY <2>2 DEF NotSelected, NoReply, NoDetails, DetailsNoReply, Return
  <2>3. ASSUME NEW t \in Threads, Execute(t) \/ Details(t) PROVE Stages'
    BY <2>3 DEF Execute, Details
  <2>4. ASSUME NEW t \in Threads, Scan(t) PROVE Stages'
    <3>1. \E d \in ServerDbs : ranIn' = [ranIn EXCEPT ![t] = d]
      BY <2>4, <2>run
    <3>2. QED
      BY <2>4, <3>1 DEF Scan
  <2>5. CASE (\E t \in Threads : Connection(t)) \/ ContextBreaks \/ UNCHANGED vars
    BY <2>5 DEF Connection, Open, Close, SelectDatabase, ContextBreaks, vars
  <2>6. QED
    BY <2>1, <2>2, <2>3, <2>4, <2>5 DEF Next, Handle
<1>3. QED
  BY <1>1, <1>2, TypeCorrect, PTL DEF Spec

\* A call whose context was neither closed nor broken since its first half can still
\* select its database, unless the host moved the connection itself.
LEMMA MarkedCorrect == Spec => []Marked
<1> USE RedisAssumption, ServerDbsAreNat DEF Marked
<1>1. Init => Marked
  BY DEF Init
<1>2. TypeOK /\ SelectedDbSound /\ Stages /\ Marked /\ [Next]_vars => Marked'
  <2> SUFFICES ASSUME TypeOK, SelectedDbSound, Stages, Marked, [Next]_vars PROVE Marked'
    OBVIOUS
  <2> USE DEF TypeOK, Finish, server, halves
  <2>1. ASSUME NEW t \in Threads, NEW i \in HandleIndexes, NEW c \in Requests, Call(t, i, c)
        PROVE  Marked'
    BY <2>1 DEF Call, Stages
  <2>2. ASSUME NEW t \in Threads, NotSelected(t) \/ NoReply(t) PROVE Marked'
    BY <2>2 DEF NotSelected, NoReply, Refusal
  <2>3. ASSUME NEW t \in Threads, NoDetails(t) PROVE Marked'
    BY <2>3 DEF NoDetails, Unselectable
  <2>4. ASSUME NEW t \in Threads, DetailsNoReply(t) \/ Return(t) PROVE Marked'
    BY <2>4 DEF DetailsNoReply, Return
  <2>5. ASSUME NEW t \in Threads, Execute(t) PROVE Marked'
    <3>1. ctx = "up" /\ (touched = "yes" => touched' = "yes")
      BY <2>5, SectionRuns DEF Execute
    <3>2. /\ \A u \in Threads \ {t} : pc'[u] = pc[u] /\ result'[u] = result[u]
          /\ pc'[t] = "done" /\ result'[t] \in {"ok", "error"} /\ UNCHANGED <<idx, ctx, lost>>
      BY <2>5 DEF Execute
    <3>3. QED
      BY <3>1, <3>2
  <2>6. ASSUME NEW t \in Threads, Scan(t) PROVE Marked'
    <3>1. PICK d \in ServerDbs, q \in ServerDbs \cup {None} : Selected(idx[t], d, q)
      BY <2>6 DEF Scan
    <3>2. ctx = "up" /\ (touched # "yes" => idx[t] \in ServerDbs)
      BY <3>1, SelectedMeets
    <3>3. /\ \A u \in Threads \ {t} : pc'[u] = pc[u] /\ result'[u] = result[u]
          /\ result'[t] \in {"empty", "rows", "none"} /\ UNCHANGED <<idx, ctx, lost, touched>>
      BY <2>6 DEF Scan, Stages
    <3>4. QED
      BY <3>2, <3>3
  <2>7. ASSUME NEW t \in Threads, Details(t) PROVE Marked'
    <3>1. ctx = "up" /\ pc[t] = "details" /\ UNCHANGED <<idx, touched>>
      BY <2>7, SectionRuns DEF Details
    <3>2. CASE result' = [result EXCEPT ![t] = "rows"] /\ UNCHANGED <<ctx, lost>>
      BY <2>7, <3>1, <3>2 DEF Details
    <3>3. CASE lost' = lost \cup Begun
      <4>1. \A u \in Threads : pc'[u] = "details" => u \in lost'
        BY <2>7, <3>3 DEF Details, Begun
      <4>2. \A u \in Threads : result'[u] \in {"unknown", "blank"} => u \in lost'
        BY <2>7, <3>1, <3>3 DEF Details, Begun, Stages
      <4>3. QED
        BY <4>1, <4>2
    <3>4. QED
      BY <2>7, <3>2, <3>3 DEF Details
  <2>8. ASSUME NEW t \in Threads, Connection(t) PROVE Marked'
    <3>1. CASE Open(t)
      BY <3>1 DEF Open
    <3>2. CASE Close(t)
      BY <3>2 DEF Close, Begun, Stages
    <3>3. ASSUME NEW i \in HandleIndexes, SelectDatabase(t, i) PROVE Marked'
      BY <3>3 DEF SelectDatabase
    <3>4. QED
      BY <2>8, <3>1, <3>2, <3>3 DEF Connection
  <2>9. CASE ContextBreaks
    BY <2>9 DEF ContextBreaks, Begun, Stages
  <2>10. CASE UNCHANGED vars
    BY <2>10 DEF vars
  <2>11. QED
    BY <2>1, <2>2, <2>3, <2>4, <2>5, <2>6, <2>7, <2>8, <2>9, <2>10 DEF Next, Handle
<1>3. QED
  BY <1>1, <1>2, TypeCorrect, SelectedDbCorrect, StagesCorrect, PTL DEF Spec

\* What a handle reports as executed or read reached the server, each half of
\* getTableData in its own section; rows without their details come only from a
\* context that was closed or broke in between.
THEOREM SuccessCorrect == Spec => []SuccessMeansRan
<1> USE RedisAssumption, ServerDbsAreNat DEF Told
<1>1. Init => Told
  BY DEF Init
<1>2. TypeOK /\ Stages /\ Told /\ [Next]_vars => Told'
  <2> SUFFICES ASSUME TypeOK, Stages, Told, [Next]_vars PROVE Told'
    OBVIOUS
  <2> USE DEF TypeOK, Finish, halves
  <2>1. ASSUME NEW t \in Threads, NEW i \in HandleIndexes, NEW c \in Requests, Call(t, i, c)
        PROVE  Told'
    BY <2>1 DEF Call, Stages
  <2>2. ASSUME NEW t \in Threads, NotSelected(t) \/ NoReply(t) PROVE Told'
    BY <2>2 DEF NotSelected, NoReply, Refusal
  <2>3. ASSUME NEW t \in Threads, NoDetails(t) \/ DetailsNoReply(t) \/ Return(t) PROVE Told'
    BY <2>3 DEF NoDetails, DetailsNoReply, Return, Stages
  <2>4. ASSUME NEW t \in Threads, Execute(t) \/ Scan(t) \/ Details(t) PROVE Told'
    <3>1. \E d \in ServerDbs : ranIn' = [ranIn EXCEPT ![t] = d]
      BY <2>4, SectionRuns
    <3>2. /\ \A u \in Threads \ {t} : result'[u] = result[u] /\ cmd'[u] = cmd[u]
          /\ detailed \subseteq detailed'
      BY <2>4 DEF Execute, Scan, Details
    <3>3. result'[t] = "rows" /\ cmd'[t] = "data" => t \in detailed'
      BY <2>4 DEF Execute, Scan, Details, Stages
    <3>4. QED
      BY <3>1, <3>2, <3>3
  <2>5. CASE (\E t \in Threads : Connection(t)) \/ ContextBreaks \/ UNCHANGED vars
    BY <2>5 DEF Connection, Open, Close, SelectDatabase, ContextBreaks, vars
  <2>6. QED
    BY <2>1, <2>2, <2>3, <2>4, <2>5 DEF Next, Handle
<1>3. Told /\ Marked => SuccessMeansRan
  BY DEF Marked, SuccessMeansRan
<1>4. QED
  BY <1>1, <1>2, <1>3, TypeCorrect, StagesCorrect, MarkedCorrect, PTL DEF Spec

----------------------------------------------------------------------------
\* A host is of one kind for good: one that leaves SELECT and MULTI to the
\* library still does after any step, and one that may send them still may.
LEMMA TouchedStep ==
  ASSUME Polite, [Next]_vars
  PROVE  touched' = "never" <=> touched = "never"
<1> USE DEF server, Polite
<1>1. ASSUME NEW t \in Threads, Execute(t) PROVE touched' = "never" <=> touched = "never"
  BY <1>1 DEF Execute
<1>2. ASSUME NEW t \in Threads, Handle(t), ~Execute(t) PROVE UNCHANGED touched
  BY <1>2 DEF Handle, NotSelected, NoReply, Scan, Details, NoDetails, DetailsNoReply, Return
<1>3. ASSUME NEW t \in Threads, Connection(t) PROVE touched' = "never" <=> touched = "never"
  BY <1>3 DEF Connection, Open, Close, SelectDatabase
<1>4. QED
  BY <1>1, <1>2, <1>3 DEF Next, Call, ContextBreaks, vars

\* A polite host stays polite: what it asks for is neither SELECT nor MULTI.
LEMMA PoliteCorrect == Spec => []Polite
<1>1. Init => Polite
  BY DEF Init, Polite
<1>2. TypeOK /\ Polite /\ [Next]_vars => Polite'
  <2> SUFFICES ASSUME TypeOK, Polite, [Next]_vars, touched' = "never" PROVE Polite'
    BY DEF Polite
  <2>1. touched = "never"
    BY TouchedStep
  <2> USE <2>1 DEF Polite, TypeOK
  <2>2. ASSUME NEW t \in Threads, NEW i \in HandleIndexes, NEW c \in Requests, Call(t, i, c)
        PROVE  Polite'
    BY <2>2 DEF Call
  <2>3. ASSUME NEW t \in Threads, Handle(t) PROVE Polite'
    <3>1. \A u \in Threads : pc'[u] = "wait" => pc[u] = "wait" /\ cmd'[u] = cmd[u]
      BY <2>3 DEF Handle, NotSelected, NoReply, Execute, Scan, Details, NoDetails,
                  DetailsNoReply, Return, Finish
    <3>2. QED
      BY <3>1
  <2>4. CASE (\E t \in Threads : Connection(t)) \/ ContextBreaks \/ UNCHANGED vars
    BY <2>4 DEF Connection, Open, Close, SelectDatabase, ContextBreaks, vars
  <2>5. QED
    BY <2>2, <2>3, <2>4 DEF Next
<1>3. QED
  BY <1>1, <1>2, TypeCorrect, PTL DEF Spec

\* With a polite host, no two handles' SELECTs interleave with a command: what a
\* handle's call ran, in either half of getTableData, ran in its own database.
THEOREM RanOwnCorrect == Spec => []RanOwn
<1>1. Init => RanOwn
  BY DEF Init, RanOwn
<1>2. TypeOK /\ SelectedDbSound /\ Stages /\ Polite /\ RanOwn /\ [Next]_vars => RanOwn'
  <2> SUFFICES ASSUME TypeOK, SelectedDbSound, Stages, Polite, RanOwn, [Next]_vars,
                      touched' = "never"
               PROVE  RanOwn'
    BY DEF RanOwn
  <2>1. touched = "never"
    BY TouchedStep
  <2>run. ASSUME NEW t \in Threads, Execute(t) \/ Scan(t) \/ Details(t)
          PROVE  ranIn' = [ranIn EXCEPT ![t] = idx[t]] /\ UNCHANGED idx
    BY <2>run, <2>1, SectionRuns DEF Execute, Scan, Details
  <2> USE <2>1 DEF RanOwn, TypeOK
  <2>2. ASSUME NEW t \in Threads, NEW i \in HandleIndexes, NEW c \in Requests, Call(t, i, c)
        PROVE  RanOwn'
    BY <2>2 DEF Call, Stages
  <2>3. ASSUME NEW t \in Threads, Execute(t) \/ Scan(t) \/ Details(t) PROVE RanOwn'
    BY <2>3, <2>run
  <2>4. ASSUME NEW t \in Threads,
               NotSelected(t) \/ NoReply(t) \/ NoDetails(t) \/ DetailsNoReply(t) \/ Return(t)
        PROVE  RanOwn'
    BY <2>4 DEF NotSelected, NoReply, NoDetails, DetailsNoReply, Return
  <2>5. CASE (\E t \in Threads : Connection(t)) \/ ContextBreaks \/ UNCHANGED vars
    BY <2>5 DEF Connection, Open, Close, SelectDatabase, ContextBreaks, vars
  <2>6. QED
    BY <2>2, <2>3, <2>4, <2>5 DEF Next, Handle
<1>3. QED
  BY <1>1, <1>2, TypeCorrect, SelectedDbCorrect, StagesCorrect, PoliteCorrect, PTL DEF Spec

----------------------------------------------------------------------------
IInv == TypeOK /\ SelectedDbSound /\ Stages /\ Polite /\ RanOwn

\* A step of the session is a step of NamespacedSession, or one its caller does
\* not see.
LEMMA AbsStep ==
  ASSUME IInv, [Next]_vars
  PROVE  [Abs!Next]_(Abs!vars)
<1> DEFINE Same(t) == /\ AbsStage(t)' = AbsStage(t)
                      /\ AbsStage(t) # "idle" => idx'[t] = idx[t] /\ ranIn'[t] = ranIn[t]
<1>same. ASSUME \A t \in Threads : Same(t) PROVE UNCHANGED Abs!vars
  BY <1>same DEF Abs!vars, AbsStage
<1>1. touched' = "never" <=> touched = "never"
  BY TouchedStep DEF IInv
<1>2. CASE touched # "never"
  <2>1. \A t \in Threads : Same(t)
    BY <1>1, <1>2 DEF AbsStage
  <2>2. QED
    BY <2>1, <1>same
<1>3. CASE touched = "never"
  <2>run. ASSUME NEW t \in Threads, Execute(t) \/ Scan(t) \/ Details(t)
          PROVE  ranIn' = [ranIn EXCEPT ![t] = idx[t]] /\ UNCHANGED idx
    BY <2>run, <1>3, SectionRuns DEF Execute, Scan, Details, IInv
  <2> USE RedisAssumption, <1>1, <1>3 DEF IInv, TypeOK, AbsStage, Finish
  <2>1. ASSUME NEW t \in Threads, NEW i \in HandleIndexes, NEW c \in Requests, Call(t, i, c)
        PROVE  Abs!Invoke(t, i)
    BY <2>1 DEF Call, Abs!Invoke, Stages
  <2>2. ASSUME NEW t \in Threads, Execute(t) \/ Scan(t) PROVE Abs!Run(t)
    <3>1. /\ pc[t] = "wait"
          /\ \E p \in {"details", "done"} : pc' = [pc EXCEPT ![t] = p]
      BY <2>2 DEF Execute, Scan
    <3>2. ranIn' = [ranIn EXCEPT ![t] = idx[t]] /\ UNCHANGED idx /\ ranIn[t] = None
      BY <2>2, <2>run, <3>1 DEF Stages
    <3>3. /\ AbsStage(t) = "waiting" /\ AbsStage(t)' = "ran"
          /\ \A u \in Threads \ {t} : Same(u)
      BY <3>1, <3>2
    <3>4. QED
      BY <3>1, <3>2, <3>3 DEF Abs!Run
  <2>3. ASSUME NEW t \in Threads, NotSelected(t) \/ NoReply(t) PROVE Abs!Refuse(t)
    <3>1. /\ pc[t] = "wait" /\ pc' = [pc EXCEPT ![t] = "done"]
          /\ UNCHANGED <<idx, ranIn>> /\ ranIn[t] = None
      BY <2>3 DEF NotSelected, NoReply, Stages
    <3>2. /\ AbsStage(t) = "waiting" /\ AbsStage(t)' = "refused"
          /\ \A u \in Threads \ {t} : Same(u)
      BY <3>1
    <3>3. QED
      BY <3>1, <3>2 DEF Abs!Refuse
  <2>4. ASSUME NEW t \in Threads, Details(t) \/ NoDetails(t) \/ DetailsNoReply(t)
        PROVE  \A u \in Threads : Same(u)
    <3>1. CASE Details(t)
      <4>1. ranIn[t] = idx[t]
        BY <3>1 DEF Details, Stages, RanOwn
      <4>2. /\ pc' = [pc EXCEPT ![t] = "done"] /\ pc[t] = "details" /\ UNCHANGED idx
            /\ ranIn' = [ranIn EXCEPT ![t] = idx[t]]
        BY <3>1, <2>run DEF Details
      <4>3. QED
        BY <4>1, <4>2
    <3>2. CASE NoDetails(t) \/ DetailsNoReply(t)
      BY <3>2 DEF NoDetails, DetailsNoReply
    <3>3. QED
      BY <2>4, <3>1, <3>2
  <2>5. ASSUME NEW t \in Threads, Return(t) PROVE Abs!Return(t)
    BY <2>5 DEF Return, Abs!Return
  <2>6. CASE (\E t \in Threads : Connection(t)) \/ ContextBreaks \/ UNCHANGED vars
    <3>1. \A u \in Threads : Same(u)
      BY <2>6 DEF Connection, Open, Close, SelectDatabase, ContextBreaks, vars
    <3>2. QED
      BY <3>1, <1>same
  <2>7. ASSUME NEW t \in Threads, Handle(t) PROVE Abs!Next \/ UNCHANGED Abs!vars
    <3>1. CASE \A u \in Threads : Same(u)
      BY <3>1, <1>same
    <3>2. CASE Abs!Run(t) \/ Abs!Refuse(t) \/ Abs!Return(t)
      BY <3>2 DEF Abs!Next
    <3>3. QED
      BY <2>2, <2>3, <2>4, <2>5, <2>7, <3>1, <3>2 DEF Handle
  <2>8. QED
    BY <2>1, <2>6, <2>7 DEF Next, Abs!Next
<1>4. QED
  BY <1>2, <1>3

\* Handles of different logical databases share one connection and each behave
\* as a handle of NamespacedSession: own database or nowhere, at most once,
\* success only if it ran.
THEOREM SessionRefines == Spec => ImplementsNamespacedSession
<1>1. Init => Abs!Init
  BY DEF Init, Abs!Init, AbsStage
<1>2. IInv /\ [Next]_vars => [Abs!Next]_(Abs!vars)
  BY AbsStep
<1>3. Spec => []IInv
  BY TypeCorrect, SelectedDbCorrect, StagesCorrect, PoliteCorrect, RanOwnCorrect, PTL DEF IInv
<1>4. QED
  BY <1>1, <1>2, <1>3, PTL DEF Spec, ImplementsNamespacedSession, Abs!Spec
=============================================================================
