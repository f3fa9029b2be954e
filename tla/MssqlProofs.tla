---------------------------- MODULE MssqlProofs ----------------------------
(***************************************************************************)
(* Proofs about MssqlDatabase, for any number of calling and cancelling    *)
(* threads, any number of result sets and any bound on the cancels.        *)
(*                                                                         *)
(* inCall_ is a count, so its invariant is a cardinality (Counted); mu_    *)
(* gives mutual exclusion (Locking); CancelsBoundCalls needs the cancels   *)
(* that have not stopped a call yet, wherever they are: read inCall_ and   *)
(* about to raise the flag, or in the flag itself (Budget).                *)
(***************************************************************************)
EXTENDS MssqlDatabase, FiniteSets, FiniteSetTheorems, TLAPS

\* The stages of execute() between ++inCall_ and --inCall_, and those with mu_.
Running == {"connect", "use", "send", "results", "rows", "check"}
Calling == Running \cup {"lock", "clear", "leave"}
Holding == Running \cup {"clear", "leave", "openConnect", "openUse"}

InCalls == {t \in Threads : pc[t] \in Calling}
Markers == {c \in Cancellers : marking[c]}

Types ==
    /\ pc \in [Threads -> Stages]
    /\ mu \in Threads \cup {None}
    /\ inCall \in Int
    /\ cancelled \in BOOLEAN
    /\ marking \in [Cancellers -> BOOLEAN]
    /\ conn \in {"null", "up", "dead"}
    /\ results \in [Threads -> Nat]
    /\ outcome \in [Threads -> {"none", "ok", "failed", "cancelled", "empty"}]
    /\ pending \in [Threads -> BOOLEAN]
    /\ aimed \in Nat
    /\ hits \in Nat

Locking == \A t \in Threads : mu = t <=> pc[t] \in Holding

Counted == IsFiniteSet(InCalls) /\ inCall = Cardinality(InCalls)

\* A call that found the flag up still has it up, has not got past a result
\* set with it, and does not end well.
Honoured ==
    \A t \in Threads :
        /\ pc[t] \in {"idle", "lock", "openConnect", "openUse"} => ~pending[t]
        /\ pc[t] \in {"idle", "openConnect", "openUse", "lock", "connect", "use", "send"} => results[t] = 0
        /\ pc[t] \in {"idle", "lock", "openConnect", "openUse"} \cup Running => outcome[t] = "none"
        /\ pending[t] /\ pc[t] \in Running => cancelled /\ (pc[t] = "results" => results[t] = 0)
        /\ pending[t] => outcome[t] # "ok"

\* The flag has stopped the call that is about to lower it.
Spent == \E t \in Threads : pc[t] = "clear" /\ outcome[t] = "cancelled"

InFlag == IF cancelled /\ ~Spent THEN 1 ELSE 0

Budget ==
    /\ IsFiniteSet(Markers)
    /\ hits + Cardinality(Markers) + InFlag <= aimed

----------------------------------------------------------------------------
\* The types that do not depend on counting.
LEMMA TypesCorrect == Spec => []Types
<1> USE MssqlAssumption DEF Types, Stages
<1>1. Init => Types
  <2> SUFFICES ASSUME Init PROVE Types
    OBVIOUS
  <2>1. /\ marking \in [Cancellers -> BOOLEAN]
        /\ pending \in [Threads -> BOOLEAN]
        /\ cancelled \in BOOLEAN
    BY Zenon DEF Init
  <2>2. QED
    BY <2>1 DEF Init
<1>2. Types /\ [Next]_vars => Types'
  <2> SUFFICES ASSUME Types, [Next]_vars PROVE Types'
    OBVIOUS
  <2> USE DEF history, Goto
  <2>1. ASSUME NEW t \in Threads, CallExecute(t) \/ CallOpen(t) \/ Lock(t) PROVE Types'
    BY <2>1 DEF CallExecute, CallOpen, Lock
  <2>2. ASSUME NEW t \in Threads, Connect(t) \/ Use(t) PROVE Types'
    BY <2>2 DEF Connect, Use, Ends
  <2>3. ASSUME NEW t \in Threads, Send(t) \/ Check(t) PROVE Types'
    BY <2>3 DEF Send, Check, Ends, ErrorOutcome
  <2>4. ASSUME NEW t \in Threads, Results(t) PROVE Types'
    BY <2>4 DEF Results, Ends, ErrorOutcome
  <2>5. ASSUME NEW t \in Threads, Rows(t) \/ Leave(t) \/ OpenConnect(t) \/ OpenUse(t) PROVE Types'
    BY <2>5 DEF Rows, Leave, OpenConnect, OpenUse
  <2>6. ASSUME NEW t \in Threads, Clear(t) PROVE Types'
    BY <2>6 DEF Clear
  <2>7. ASSUME NEW t \in Threads, Return(t) PROVE Types'
    <3>1. pending' \in [Threads -> BOOLEAN]
      BY <2>7, Zenon DEF Return
    <3>2. QED
      BY <2>7, <3>1 DEF Return
  <2>8. ASSUME NEW t \in Threads, DeadFails(t) \/ Interrupt(t) PROVE Types'
    BY <2>8 DEF DeadFails, Interrupt, Ends, ErrorOutcome
  <2>9. ASSUME NEW c \in Cancellers, CancelCheck(c) PROVE Types'
    BY <2>9 DEF CancelCheck
  <2>10. ASSUME NEW c \in Cancellers, CancelMark(c) PROVE Types'
    BY <2>10 DEF CancelMark
  <2>11. CASE SessionLost \/ UNCHANGED vars
    BY <2>11 DEF SessionLost, vars
  <2>12. QED
    BY <2>1, <2>2, <2>3, <2>4, <2>5, <2>6, <2>7, <2>8, <2>9, <2>10, <2>11
    DEF Next, Client, Server
<1>3. QED
  BY <1>1, <1>2, PTL DEF Spec

----------------------------------------------------------------------------
\* A step of t's execute() that neither begins the call nor ends it moves pc
\* inside it and leaves mu_ and inCall_ alone.
LEMMA InnerStep ==
  ASSUME Types, NEW t \in Threads,
         Connect(t) \/ (Server(t) /\ ~OpenUse(t)) \/ Check(t) \/ DeadFails(t) \/ Interrupt(t) \/ Clear(t)
  PROVE  /\ pc[t] \in Running \cup {"clear"}
         /\ \E p \in Running \cup {"clear", "leave"} : pc' = [pc EXCEPT ![t] = p]
         /\ UNCHANGED <<mu, inCall, marking, aimed>>
<1> USE DEF Running, Goto, Ends, history
<1>1. CASE Connect(t) \/ Check(t) \/ Clear(t)
  BY <1>1 DEF Connect, Check, Clear
<1>2. CASE Server(t) /\ ~OpenUse(t)
  BY <1>2 DEF Server, Use, Send, Results, Rows
<1>3. CASE DeadFails(t) \/ Interrupt(t)
  BY <1>3 DEF DeadFails, Interrupt
<1>4. QED
  BY <1>1, <1>2, <1>3

\* mu_ is held by exactly the thread that is past its lock and not yet past its
\* unlock.
THEOREM LocksCorrect == Spec => []Locking
<1> USE MssqlAssumption DEF Locking, Running, Holding
<1>1. Init => Locking
  BY DEF Init
<1>2. Types /\ Locking /\ [Next]_vars => Locking'
  <2> SUFFICES ASSUME Types, Locking, [Next]_vars PROVE Locking'
    OBVIOUS
  <2> USE DEF Types, Goto
  <2>1. ASSUME NEW t \in Threads, CallExecute(t) \/ Return(t) PROVE Locking'
    BY <2>1 DEF CallExecute, Return
  <2>2. ASSUME NEW t \in Threads, CallOpen(t) \/ Lock(t) PROVE Locking'
    BY <2>2 DEF CallOpen, Lock
  <2>3. ASSUME NEW t \in Threads, Leave(t) \/ OpenConnect(t) \/ OpenUse(t) PROVE Locking'
    BY <2>3 DEF Leave, OpenConnect, OpenUse
  <2>4. ASSUME NEW t \in Threads,
               Connect(t) \/ (Server(t) /\ ~OpenUse(t)) \/ Check(t) \/ DeadFails(t) \/ Interrupt(t) \/ Clear(t)
        PROVE  Locking'
    <3>1. /\ pc[t] \in Running \cup {"clear"}
          /\ \E p \in Running \cup {"clear", "leave"} : pc' = [pc EXCEPT ![t] = p]
          /\ UNCHANGED mu
      BY <2>4, InnerStep
    <3>2. QED
      BY <3>1
  <2>5. ASSUME NEW c \in Cancellers, CancelCheck(c) \/ CancelMark(c) PROVE Locking'
    BY <2>5 DEF CancelCheck, CancelMark
  <2>6. CASE SessionLost \/ UNCHANGED vars
    BY <2>6 DEF SessionLost, vars
  <2>7. QED
    BY <2>1, <2>2, <2>3, <2>4, <2>5, <2>6 DEF Next, Client
<1>3. QED
  BY <1>1, <1>2, TypesCorrect, PTL DEF Spec

\* inCall_ is the number of execute() calls that wait for mu_ or hold it.
THEOREM CountCorrect == Spec => []Counted
<1>1. Init => Counted
  <2> SUFFICES ASSUME Init PROVE Counted
    OBVIOUS
  <2>1. InCalls = {} /\ inCall = 0
    BY DEF Init, InCalls, Calling, Running
  <2>2. QED
    BY <2>1, FS_EmptySet DEF Counted
<1>2. Types /\ Counted /\ [Next]_vars => Counted'
  <2> SUFFICES ASSUME Types, Counted, [Next]_vars PROVE Counted'
    OBVIOUS
  <2> USE DEF Calling, Running, Goto
  <2>same. ASSUME InCalls' = InCalls, inCall' = inCall PROVE Counted'
    BY <2>same DEF Counted
  <2>1. ASSUME NEW t \in Threads, CallExecute(t) PROVE Counted'
    <3>1. InCalls' = InCalls \cup {t} /\ t \notin InCalls
      BY <2>1 DEF CallExecute, InCalls, Types
    <3>2. inCall' = inCall + 1
      BY <2>1 DEF CallExecute
    <3>3. QED
      BY <3>1, <3>2, FS_AddElement DEF Counted
  <2>2. ASSUME NEW t \in Threads, Leave(t) PROVE Counted'
    <3>1. InCalls' = InCalls \ {t} /\ t \in InCalls
      BY <2>2 DEF Leave, InCalls, Types
    <3>2. inCall' = inCall - 1
      BY <2>2 DEF Leave
    <3>3. QED
      BY <3>1, <3>2, FS_RemoveElement DEF Counted
  <2>3. ASSUME NEW t \in Threads, CallOpen(t) \/ Lock(t) \/ Return(t) \/ OpenConnect(t) \/ OpenUse(t)
        PROVE  Counted'
    BY <2>3, <2>same DEF CallOpen, Lock, Return, OpenConnect, OpenUse, InCalls, Types
  <2>4. ASSUME NEW t \in Threads,
               Connect(t) \/ (Server(t) /\ ~OpenUse(t)) \/ Check(t) \/ DeadFails(t) \/ Interrupt(t) \/ Clear(t)
        PROVE  Counted'
    <3>1. /\ pc[t] \in Running \cup {"clear"}
          /\ \E p \in Running \cup {"clear", "leave"} : pc' = [pc EXCEPT ![t] = p]
          /\ UNCHANGED inCall
      BY <2>4, InnerStep
    <3>2. QED
      BY <3>1, <2>same DEF InCalls, Types
  <2>5. ASSUME NEW c \in Cancellers, CancelCheck(c) \/ CancelMark(c) PROVE Counted'
    BY <2>5, <2>same DEF CancelCheck, CancelMark, InCalls
  <2>6. CASE SessionLost \/ UNCHANGED vars
    BY <2>6, <2>same DEF SessionLost, vars, InCalls
  <2>7. QED
    BY <2>1, <2>2, <2>3, <2>4, <2>5, <2>6 DEF Next, Client
<1>3. QED
  BY <1>1, <1>2, TypesCorrect, PTL DEF Spec

\* The state keeps its types: inCall_ in particular never goes below zero.
THEOREM TypeCorrect == Spec => []TypeOK
<1>1. Types /\ Counted => TypeOK
  BY FS_CardinalityType DEF Types, Counted, TypeOK
<1>2. QED
  BY <1>1, TypesCorrect, CountCorrect, PTL

\* One thread at a time drives the DBPROCESS, and inCall_ shows its call.
THEOREM OneDriverCorrect == Spec => []OneDriver
<1>1. Types /\ Locking /\ Counted => OneDriver
  <2> SUFFICES ASSUME Types, Locking, Counted, NEW t \in Threads, NEW u \in Threads,
                      pc[t] \in Running
               PROVE  inCall > 0 /\ (pc[u] \in Running \cup {"openConnect", "openUse"} => u = t)
    BY DEF OneDriver, Running
  <2>1. t \in InCalls
    BY DEF InCalls, Calling
  <2>2. inCall > 0
    BY <2>1, FS_EmptySet, FS_CardinalityType DEF Counted
  <2>3. pc[u] \in Running \cup {"openConnect", "openUse"} => u = t
    BY DEF Locking, Holding
  <2>4. QED
    BY <2>2, <2>3
<1>2. QED
  BY <1>1, TypesCorrect, LocksCorrect, CountCorrect, PTL

----------------------------------------------------------------------------
\* The flag a call found up stays up until that call lowers it.
THEOREM HonouredCorrect == Spec => []Honoured
<1>1. Init => Honoured
  BY DEF Init, Honoured, Running
<1>2. Types /\ Locking /\ Honoured /\ [Next]_vars => Honoured'
  <2> SUFFICES ASSUME Types, Locking, Honoured, [Next]_vars PROVE Honoured'
    OBVIOUS
  <2> USE DEF Honoured, Types, Running, Goto, history
  <2>1. ASSUME NEW t \in Threads, CallExecute(t) \/ CallOpen(t) PROVE Honoured'
    BY <2>1 DEF CallExecute, CallOpen
  <2>2. ASSUME NEW t \in Threads, Lock(t) PROVE Honoured'
    BY <2>2 DEF Lock
  <2>3. ASSUME NEW t \in Threads, Connect(t) \/ Use(t) PROVE Honoured'
    BY <2>3 DEF Connect, Use, Ends
  <2>4. ASSUME NEW t \in Threads, Send(t) PROVE Honoured'
    BY <2>4 DEF Send, Ends, ErrorOutcome
  <2>5. ASSUME NEW t \in Threads, Results(t) PROVE Honoured'
    BY <2>5 DEF Results, Ends, ErrorOutcome
  <2>6. ASSUME NEW t \in Threads, Rows(t) \/ Check(t) PROVE Honoured'
    BY <2>6 DEF Rows, Check, Ends
  <2>7. ASSUME NEW t \in Threads, DeadFails(t) \/ Interrupt(t) PROVE Honoured'
    BY <2>7 DEF DeadFails, Interrupt, Ends, ErrorOutcome
  <2>8. ASSUME NEW t \in Threads, Clear(t) PROVE Honoured'
    <3>1. \A u \in Threads : u # t => pc[u] \notin Running
      BY <2>8 DEF Clear, Locking, Holding
    <3>2. QED
      BY <2>8, <3>1 DEF Clear
  <2>9. ASSUME NEW t \in Threads, Leave(t) PROVE Honoured'
    BY <2>9 DEF Leave
  <2>10. ASSUME NEW t \in Threads, OpenConnect(t) \/ OpenUse(t) PROVE Honoured'
    BY <2>10 DEF OpenConnect, OpenUse
  <2>11. ASSUME NEW t \in Threads, Return(t) PROVE Honoured'
    BY <2>11 DEF Return
  <2>12. ASSUME NEW c \in Cancellers, CancelCheck(c) \/ CancelMark(c) PROVE Honoured'
    BY <2>12 DEF CancelCheck, CancelMark
  <2>13. CASE SessionLost \/ UNCHANGED vars
    BY <2>13 DEF SessionLost, vars
  <2>14. QED
    BY <2>1, <2>2, <2>3, <2>4, <2>5, <2>6, <2>7, <2>8, <2>9, <2>10, <2>11, <2>12, <2>13
    DEF Next, Client, Server
<1>3. QED
  BY <1>1, <1>2, TypesCorrect, LocksCorrect, PTL DEF Spec

\* A call that finds the flag raised when it takes mu_ never reports success.
THEOREM PendingCorrect == Spec => []PendingCancelHonoured
<1>1. Honoured => PendingCancelHonoured
  BY DEF Honoured, PendingCancelHonoured
<1>2. QED
  BY <1>1, HonouredCorrect, PTL

----------------------------------------------------------------------------
\* A step that ends a batch stops it for a cancel only when the flag is up.
LEMMA EndStep ==
  ASSUME Types, Locking, Budget, NEW t \in Threads, pc[t] \in Running,
         UNCHANGED <<cancelled, marking>>,
         NEW o \in {"ok", "failed", "cancelled", "empty"}, Ends(t, o),
         o = "cancelled" => cancelled
  PROVE  Budget'
<1> USE DEF Types, Ends, Goto, Running
<1>1. Markers' = Markers
  BY DEF Markers
<1>2. Cardinality(Markers) \in Nat
  BY FS_CardinalityType DEF Budget
<1>3. ~Spent
  BY DEF Spent, Locking, Holding
<1>4. CASE o = "cancelled"
  <2>1. Spent'
    BY <1>4 DEF Spent
  <2>2. InFlag = 1 /\ InFlag' = 0
    BY <1>3, <1>4, <2>1 DEF InFlag
  <2>3. QED
    BY <1>1, <1>2, <1>4, <2>2 DEF Budget
<1>5. CASE o # "cancelled"
  <2>1. ~Spent'
    BY <1>3, <1>5 DEF Spent
  <2>2. InFlag' = InFlag
    BY <1>3, <2>1 DEF InFlag
  <2>3. QED
    BY <1>1, <1>2, <1>5, <2>2 DEF Budget
<1>6. QED
  BY <1>4, <1>5

\* A step that neither moves the flag, nor a cancel(), nor ends a call.
LEMMA QuietStep ==
  ASSUME Budget, UNCHANGED <<cancelled, marking, aimed, hits>>, Spent' <=> Spent
  PROVE  Budget'
BY DEF Budget, InFlag, Markers

\* Every call that was stopped used up a cancel() of its own.
THEOREM BudgetCorrect == Spec => []Budget
<1>1. Init => Budget
  <2> SUFFICES ASSUME Init PROVE Budget
    OBVIOUS
  <2>1. Markers = {} /\ InFlag = 0 /\ hits = 0 /\ aimed = 0
    BY DEF Init, Markers, InFlag
  <2>2. QED
    BY <2>1, FS_EmptySet DEF Budget
<1>2. Types /\ Locking /\ Honoured /\ Budget /\ [Next]_vars => Budget'
  <2> SUFFICES ASSUME Types, Locking, Honoured, Budget, [Next]_vars PROVE Budget'
    OBVIOUS
  <2> USE DEF Types, Goto, history, Running
  <2>card. Cardinality(Markers) \in Nat
    BY FS_CardinalityType DEF Budget
  <2>1. ASSUME NEW t \in Threads, CallExecute(t) \/ CallOpen(t) \/ Lock(t) \/ Rows(t)
        PROVE  Budget'
    BY <2>1, QuietStep DEF CallExecute, CallOpen, Lock, Rows, Spent
  <2>2. ASSUME NEW t \in Threads, Leave(t) \/ Return(t) \/ OpenConnect(t) \/ OpenUse(t)
        PROVE  Budget'
    BY <2>2, QuietStep DEF Leave, Return, OpenConnect, OpenUse, Spent
  <2>3. ASSUME NEW t \in Threads, Connect(t) \/ Use(t) PROVE Budget'
    <3>1. CASE Ends(t, "failed")
      BY <2>3, <3>1, EndStep DEF Connect, Use
    <3>2. CASE ~Ends(t, "failed")
      BY <2>3, <3>2, QuietStep DEF Connect, Use, Spent
    <3>3. QED
      BY <3>1, <3>2
  <2>4. ASSUME NEW t \in Threads, Send(t) PROVE Budget'
    <3>1. CASE Ends(t, ErrorOutcome)
      BY <2>4, <3>1, EndStep DEF Send, ErrorOutcome
    <3>2. CASE ~Ends(t, ErrorOutcome)
      BY <2>4, <3>2, QuietStep DEF Send, Spent
    <3>3. QED
      BY <3>1, <3>2
  <2>5. ASSUME NEW t \in Threads, Results(t) PROVE Budget'
    <3>1. PICK o \in {"ok", "failed", "cancelled", "empty", "none"} :
            /\ o = "cancelled" => cancelled
            /\ IF o = "none" THEN Goto(t, "rows") /\ UNCHANGED <<outcome, history>>
                             ELSE Ends(t, o)
      BY <2>5 DEF Results, ErrorOutcome
    <3>2. CASE o # "none"
      BY <2>5, <3>1, <3>2, EndStep DEF Results
    <3>3. CASE o = "none"
      BY <2>5, <3>1, <3>3, QuietStep DEF Results, Spent
    <3>4. QED
      BY <3>2, <3>3
  <2>6. ASSUME NEW t \in Threads, Check(t) PROVE Budget'
    <3>1. CASE cancelled
      BY <2>6, <3>1, EndStep DEF Check
    <3>2. CASE ~cancelled
      BY <2>6, <3>2, QuietStep DEF Check, Spent
    <3>3. QED
      BY <3>1, <3>2
  <2>7. ASSUME NEW t \in Threads, DeadFails(t) PROVE Budget'
    <3>1. CASE pc[t] = "rows"
      BY <2>7, <3>1, QuietStep DEF DeadFails, Spent
    <3>2. CASE pc[t] # "rows"
      BY <2>7, <3>2, EndStep DEF DeadFails, ErrorOutcome
    <3>3. QED
      BY <3>1, <3>2
  <2>8. ASSUME NEW t \in Threads, Interrupt(t) PROVE Budget'
    <3>1. CASE pc[t] = "rows"
      BY <2>8, <3>1, QuietStep DEF Interrupt, Spent
    <3>2. CASE pc[t] # "rows"
      BY <2>8, <3>2, EndStep DEF Interrupt
    <3>3. QED
      BY <3>1, <3>2
  <2>9. ASSUME NEW t \in Threads, Clear(t) PROVE Budget'
    <3>1. InFlag' = 0 /\ InFlag \in {0, 1} /\ Markers' = Markers
      BY <2>9 DEF Clear, InFlag, Markers
    <3>2. UNCHANGED <<hits, aimed>>
      BY <2>9 DEF Clear
    <3>3. QED
      BY <2>card, <3>1, <3>2 DEF Budget
  <2>10. ASSUME NEW c \in Cancellers, CancelCheck(c) PROVE Budget'
    <3>1. Markers' = Markers \cup {c} /\ c \notin Markers
      BY <2>10 DEF CancelCheck, Markers
    <3>2. InFlag' = InFlag /\ InFlag \in {0, 1}
      BY <2>10 DEF CancelCheck, InFlag, Spent
    <3>3. hits' = hits /\ aimed' = aimed + 1
      BY <2>10 DEF CancelCheck
    <3>4. IsFiniteSet(Markers') /\ Cardinality(Markers') = Cardinality(Markers) + 1
      BY <3>1, FS_AddElement DEF Budget
    <3>5. QED
      BY <2>card, <3>2, <3>3, <3>4 DEF Budget
  <2>11. ASSUME NEW c \in Cancellers, CancelMark(c) PROVE Budget'
    <3>1. Markers' = Markers \ {c} /\ c \in Markers
      BY <2>11 DEF CancelMark, Markers
    <3>2. InFlag' \in {0, 1} /\ InFlag \in {0, 1}
      BY DEF InFlag
    <3>3. hits' = hits /\ aimed' = aimed
      BY <2>11 DEF CancelMark
    <3>4. IsFiniteSet(Markers') /\ Cardinality(Markers') = Cardinality(Markers) - 1
      BY <3>1, FS_RemoveElement DEF Budget
    <3>5. QED
      BY <2>card, <3>2, <3>3, <3>4 DEF Budget
  <2>12. CASE SessionLost \/ UNCHANGED vars
    BY <2>12, QuietStep DEF SessionLost, vars, Spent
  <2>13. QED
    BY <2>1, <2>2, <2>3, <2>4, <2>5, <2>6, <2>7, <2>8, <2>9, <2>10, <2>11, <2>12
    DEF Next, Client, Server
<1>3. QED
  BY <1>1, <1>2, TypesCorrect, LocksCorrect, HonouredCorrect, PTL DEF Spec

\* However calls and cancels interleave, a cancel() stops at most one call.
THEOREM CancelsBoundCorrect == Spec => []CancelsBoundCalls
<1>1. Types /\ Budget => CancelsBoundCalls
  BY FS_CardinalityType DEF Types, Budget, InFlag, CancelsBoundCalls
<1>2. QED
  BY <1>1, TypesCorrect, BudgetCorrect, PTL
=============================================================================
