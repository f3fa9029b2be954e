----------------------------- MODULE MongoProofs -----------------------------
(***************************************************************************)
(* Proofs about MongoPool, for any finite set of threads, any number of    *)
(* database names, pools and calls and any size of a pool.                 *)
(*                                                                         *)
(* The calls (Types) say which stages hold how many clients and that a     *)
(* call works on a pool that was made; conservation of the clients is then *)
(* inductive for every pool, the ones not made yet included, because the   *)
(* change of free in a step is the change of what the thread holds.  That  *)
(* nobody waits on everybody follows from these and from who holds mu_.    *)
(***************************************************************************)
EXTENDS MongoPool, FiniteSetTheorems, TLAPS

Call == [pc : PCs, p : 0..MaxOpens, held : 0..2, todo : SUBSET Names, names : BOOLEAN]

\* The calls a thread can be in after m pools were made.
CallAt(m) ==
    {c \in Call :
        /\ c.held = 0 <=> c.pc \in {"idle", "fail", "acquire"}
        /\ c.held = 2 <=> c.pc = "infer"
        /\ c.pc # "idle" => c.p \in 1..m}

\* The parts of the types; every pool named anywhere has been made.
Types ==
    /\ made \in 0..MaxOpens
    /\ pool \in 0..made
    /\ cache \in [Names -> 0..made]
    /\ given \subseteq 1..made
    /\ free \in [Pools -> Int]
    /\ calls \in 0..MaxCalls
    /\ th \in [Threads -> CallAt(made)]

\* A client is free or held, in the pools not made yet too.
Conserved == \A p \in Pools : free[p] + HeldOf(p) = MaxPool

\* The free clients of a pool are counted from 0 up.
Stock == free \in [Pools -> Nat]

Flag == open \in BOOLEAN

\* mu_ is held through the smoke test of open() and by nobody else across a step.
Locking ==
    /\ mu \in Threads \cup {NoThread}
    /\ \A t \in Threads : mu = t <=> th[t].pc = "open"

\* The clients of p that call c holds.
Of(c, p) == IF c.p = p THEN c.held ELSE 0

----------------------------------------------------------------------------
\* Records stay records of calls when fields are given values of their types.
LEMMA Records ==
  /\ Idle \in Call
  /\ \A c \in Call, a \in PCs : [c EXCEPT !.pc = a] \in Call
  /\ \A c \in Call, p \in 0..MaxOpens : [c EXCEPT !.p = p] \in Call
  /\ \A c \in Call, h \in 0..2 : [c EXCEPT !.held = h] \in Call
  /\ \A c \in Call, s \in SUBSET Names : [c EXCEPT !.todo = s] \in Call
  /\ \A c \in Call, n \in BOOLEAN : [c EXCEPT !.names = n] \in Call
<1>1. Idle \in Call
  <2>1. 0 \in 0..MaxOpens /\ 0 \in 0..2 /\ {} \in SUBSET Names /\ "idle" \in PCs
    BY MongoAssumption DEF PCs
  <2>2. QED
    BY <2>1, Zenon DEF Idle, Call
<1>2. \A c \in Call, a \in PCs : [c EXCEPT !.pc = a] \in Call
  BY DEF Call
<1>3. \A c \in Call, p \in 0..MaxOpens : [c EXCEPT !.p = p] \in Call
  BY DEF Call
<1>4. \A c \in Call, h \in 0..2 : [c EXCEPT !.held = h] \in Call
  BY DEF Call
<1>5. \A c \in Call, s \in SUBSET Names : [c EXCEPT !.todo = s] \in Call
  BY DEF Call
<1>6. \A c \in Call, n \in BOOLEAN : [c EXCEPT !.names = n] \in Call
  BY DEF Call
<1>7. QED
  BY <1>1, <1>2, <1>3, <1>4, <1>5, <1>6

\* The calls a thread can begin with.
LEMMA FirstCalls ==
  ASSUME NEW m \in 0..MaxOpens
  PROVE  /\ Idle \in CallAt(m)
         /\ \A p \in 1..m : OneClient(p) \in CallAt(m)
         /\ \A p \in 1..m, s \in SUBSET Names : [OneClient(p) EXCEPT !.todo = s] \in CallAt(m)
         /\ \A p \in 1..m : [OneClient(p) EXCEPT !.names = TRUE] \in CallAt(m)
         /\ m # 0 => [Idle EXCEPT !.pc = "open", !.p = m, !.held = 1] \in CallAt(m)
<1>0. m \in Nat /\ 0..m \subseteq 0..MaxOpens /\ 1..m \subseteq 0..MaxOpens
  BY MongoAssumption
<1>i. /\ Idle.pc = "idle" /\ Idle.p = 0 /\ Idle.held = 0 /\ Idle.todo = {}
      /\ Idle \in Call
  BY Records DEF Idle
<1>1. Idle \in CallAt(m)
  BY <1>i DEF CallAt
<1>2. ASSUME NEW p \in 1..m PROVE OneClient(p) \in Call
  <2>1. [Idle EXCEPT !.pc = "acquire"] \in Call
    BY <1>i, Records DEF PCs
  <2>2. QED
    BY <1>0, <2>1, Records DEF OneClient
<1>3. ASSUME NEW p \in 1..m
      PROVE  OneClient(p).pc = "acquire" /\ OneClient(p).p = p /\ OneClient(p).held = 0
  BY <1>i DEF OneClient, Call
<1>4. \A p \in 1..m : OneClient(p) \in CallAt(m)
  BY <1>2, <1>3 DEF CallAt
<1>5. ASSUME NEW p \in 1..m, NEW s \in SUBSET Names
      PROVE  [OneClient(p) EXCEPT !.todo = s] \in CallAt(m)
  <2>1. [OneClient(p) EXCEPT !.todo = s] \in Call
    BY <1>2, Records
  <2>2. QED
    BY <1>2, <1>3, <2>1 DEF CallAt, Call
<1>6. ASSUME NEW p \in 1..m
      PROVE  [OneClient(p) EXCEPT !.names = TRUE] \in CallAt(m)
  <2>1. [OneClient(p) EXCEPT !.names = TRUE] \in Call
    BY <1>2, Records
  <2>2. QED
    BY <1>2, <1>3, <2>1 DEF CallAt, Call
<1>7. ASSUME m # 0 PROVE [Idle EXCEPT !.pc = "open", !.p = m, !.held = 1] \in CallAt(m)
  <2> DEFINE a == [Idle EXCEPT !.pc = "open"]
             b == [a EXCEPT !.p = m]
             c == [b EXCEPT !.held = 1]
  <2>1. a \in Call /\ a.pc = "open"
    BY <1>i, Records DEF PCs, Call
  <2> HIDE DEF a
  <2>2. b \in Call /\ b.pc = "open" /\ b.p = m
    BY <1>0, <2>1, Records DEF Call
  <2> HIDE DEF b
  <2>3. c \in Call /\ c.pc = "open" /\ c.p = m /\ c.held = 1
    BY <2>2, Records DEF Call
  <2> HIDE DEF c
  <2>4. c \in CallAt(m)
    BY <1>0, <1>7, <2>3 DEF CallAt
  <2>5. QED
    BY <2>4 DEF a, b, c
<1>8. QED
  BY <1>1, <1>4, <1>5, <1>6, <1>7

\* The calls a thread goes on to.
LEMMA LaterCalls ==
  ASSUME NEW m \in 0..MaxOpens, NEW c \in CallAt(m)
  PROVE  /\ c.pc = "acquire" =>
            \A a \in {"nested", "work"} : [c EXCEPT !.held = 1, !.pc = a] \in CallAt(m)
         /\ c.pc = "nested" => [c EXCEPT !.held = 2, !.pc = "infer"] \in CallAt(m)
         /\ c.pc = "infer" => [c EXCEPT !.held = 1, !.pc = "work", !.todo = {}] \in CallAt(m)
         /\ c.pc = "open" => [c EXCEPT !.pc = "fail", !.held = 0] \in CallAt(m)
         /\ c.pc = "work" => [c EXCEPT !.pc = "each", !.todo = Names] \in CallAt(m)
         /\ \A n \in c.todo : [c EXCEPT !.todo = c.todo \ {n}] \in CallAt(m)
         /\ \A k \in Nat : m + k <= MaxOpens => c \in CallAt(m + k)
<1>0. c \in Call /\ m \in Nat
  BY MongoAssumption DEF CallAt
<1>f. c.pc # "idle" => c.p \in 1..m
  BY DEF CallAt
<1>a. ASSUME NEW a \in PCs, NEW h \in 0..2, c.pc # "idle",
             h = 0 <=> a \in {"idle", "fail", "acquire"}, h = 2 <=> a = "infer"
      PROVE  /\ [c EXCEPT !.held = h, !.pc = a] \in CallAt(m)
             /\ [c EXCEPT !.pc = a, !.held = h] \in CallAt(m)
  <2> DEFINE d == [c EXCEPT !.held = h]
             e == [d EXCEPT !.pc = a]
  <2>1. d \in Call /\ d.p = c.p /\ d.held = h
    BY <1>0, Records DEF Call
  <2> HIDE DEF d
  <2>2. e \in Call /\ e.p = c.p /\ e.held = h /\ e.pc = a
    BY <2>1, Records DEF Call
  <2> HIDE DEF e
  <2>3. e \in CallAt(m)
    BY <1>f, <1>a, <2>2 DEF CallAt
  <2>4. [c EXCEPT !.held = h, !.pc = a] = e
    BY DEF d, e
  <2>5. [c EXCEPT !.pc = a, !.held = h] = e
    BY <1>0 DEF d, e, Call
  <2>6. QED
    BY <2>3, <2>4, <2>5
<1>1. c.pc = "acquire" => \A a \in {"nested", "work"} : [c EXCEPT !.held = 1, !.pc = a] \in CallAt(m)
  <2> SUFFICES ASSUME c.pc = "acquire"
               PROVE  /\ [c EXCEPT !.held = 1, !.pc = "nested"] \in CallAt(m)
                      /\ [c EXCEPT !.held = 1, !.pc = "work"] \in CallAt(m)
    OBVIOUS
  <2>1. QED
    BY <1>a DEF PCs
<1>2. c.pc = "nested" => [c EXCEPT !.held = 2, !.pc = "infer"] \in CallAt(m)
  BY <1>a DEF PCs
<1>t. \A d \in CallAt(m), s \in SUBSET Names : [d EXCEPT !.todo = s] \in CallAt(m)
  BY DEF CallAt, Call
<1>3. c.pc = "infer" => [c EXCEPT !.held = 1, !.pc = "work", !.todo = {}] \in CallAt(m)
  <2>1. c.pc = "infer" => [c EXCEPT !.held = 1, !.pc = "work"] \in CallAt(m)
    BY <1>a DEF PCs
  <2>2. QED
    BY <2>1, <1>t
<1>4. c.pc = "open" => [c EXCEPT !.pc = "fail", !.held = 0] \in CallAt(m)
  BY <1>a DEF PCs
<1>5. c.pc = "work" => [c EXCEPT !.pc = "each", !.todo = Names] \in CallAt(m)
  BY MongoAssumption DEF CallAt, Call, PCs
<1>6. \A n \in c.todo : [c EXCEPT !.todo = c.todo \ {n}] \in CallAt(m)
  BY MongoAssumption DEF CallAt, Call, PCs
<1>7. \A k \in Nat : m + k <= MaxOpens => c \in CallAt(m + k)
  BY <1>0 DEF CallAt
<1>8. QED
  BY <1>1, <1>2, <1>3, <1>4, <1>5, <1>6, <1>7

----------------------------------------------------------------------------
\* Who holds a client of p changes by the thread that moves.
LEMMA Moved ==
  ASSUME NEW m \in 0..MaxOpens, th \in [Threads -> CallAt(m)],
         NEW t \in Threads, NEW r \in Call, th' = [th EXCEPT ![t] = r], NEW p
  PROVE  /\ HeldOf(p) \in Nat
         /\ HeldOf(p)' = HeldOf(p) + Of(r, p) - Of(th[t], p)
<1>0. /\ \A u \in Threads : th[u].held \in 0..2
      /\ \A u \in Threads : th'[u] = IF u = t THEN r ELSE th[u]
      /\ r.held \in 0..2
  BY DEF CallAt, Call
<1>f. \A k : IsFiniteSet(Holding(p, k)) /\ Cardinality(Holding(p, k)) \in Nat
  BY MongoAssumption, FS_Subset, FS_CardinalityType DEF Holding
<1>1. ASSUME NEW k \in {1, 2}
      PROVE  Cardinality(Holding(p, k)') = Cardinality(Holding(p, k))
               + (IF Of(r, p) >= k THEN 1 ELSE 0) - (IF Of(th[t], p) >= k THEN 1 ELSE 0)
  <2> DEFINE A == Holding(p, k)
             B == A \ {t}
  <2>1. IsFiniteSet(A) /\ IsFiniteSet(B) /\ Cardinality(B) \in Nat /\ t \notin B
    BY <1>f, FS_Subset, FS_CardinalityType
  <2>2. Cardinality(B \cup {t}) = Cardinality(B) + 1
    BY <2>1, FS_AddElement
  <2>3. A = IF Of(th[t], p) >= k THEN B \cup {t} ELSE B
    BY <1>0 DEF Holding, Of
  <2>4. A' = IF Of(r, p) >= k THEN B \cup {t} ELSE B
    BY <1>0 DEF Holding, Of
  <2> HIDE DEF B
  <2>5. QED
    BY <2>1, <2>2, <2>3, <2>4
<1>2. Of(r, p) \in 0..2 /\ Of(th[t], p) \in 0..2
  BY <1>0 DEF Of
<1>3. HeldOf(p) \in Nat
  BY <1>f DEF HeldOf
<1>4. QED
  BY <1>1, <1>2, <1>3, <1>f DEF HeldOf

----------------------------------------------------------------------------
\* A step leaves every call at a stage of its own and names no pool that was not made.
LEMMA TypesStep == Types /\ [Next]_vars => Types'
<1> SUFFICES ASSUME Types, [Next]_vars PROVE Types'
  OBVIOUS
<1>0. /\ made \in 0..MaxOpens /\ pool \in 0..made /\ cache \in [Names -> 0..made]
      /\ given \subseteq 1..made /\ free \in [Pools -> Int] /\ calls \in 0..MaxCalls
      /\ th \in [Threads -> CallAt(made)]
  BY DEF Types
<1>c. \A u \in Threads : th[u] \in CallAt(made) /\ th[u].p \in 0..MaxOpens /\ th[u].held \in 0..2
  BY <1>0 DEF CallAt, Call
<1>go. ASSUME NEW t \in Threads, NEW r \in CallAt(made), Go(t, r)
       PROVE  th' \in [Threads -> CallAt(made)]
  BY <1>0, <1>go DEF Go
<1>in. ASSUME NEW t \in Threads, NEW r \in CallAt(made), Enter(t, r)
       PROVE  th' \in [Threads -> CallAt(made)] /\ calls' \in 0..MaxCalls
  BY <1>0, <1>in, <1>go, MongoAssumption DEF Enter
<1>fr. /\ \A p, k : k \in Int /\ Give(p, k) => free' \in [Pools -> Int]
       /\ \A p : Take(p) => free' \in [Pools -> Int]
  BY <1>0 DEF Give, Take
<1>look. ASSUME NEW n \in Names, Lookup(n)
         PROVE  cache' \in [Names -> 0..made] /\ given' \subseteq 1..made
  <2>1. HandleFor(n) \in 0..made
    BY <1>0 DEF HandleFor
  <2>2. QED
    <3>1. cache' \in [Names -> 0..made]
      <4>1. [cache EXCEPT ![n] = HandleFor(n)] \in [Names -> 0..made]
        BY <1>0, <2>1
      <4>2. QED
        BY <1>0, <1>look, <4>1 DEF Lookup
    <3>2. {HandleFor(n)} \ {0} \subseteq 1..made
      BY <2>1, <1>0, MongoAssumption
    <3>3. QED
      BY <1>0, <1>look, <3>1, <3>2 DEF Lookup
<1>i. Idle \in CallAt(made)
  BY <1>0, FirstCalls
<1>o. \A p \in 1..made : OneClient(p) \in CallAt(made)
  BY <1>0, FirstCalls
<1>1. ASSUME NEW t \in Threads,
             Execute(t) \/ TablesOrDescribe(t) \/ CountCreateDrop(t) \/ GetColumnNames(t)
      PROVE  Types'
  <2>1. th' \in [Threads -> CallAt(made)] /\ calls' \in 0..MaxCalls
    BY <1>0, <1>1, <1>in, <1>i, <1>o
    DEF Execute, TablesOrDescribe, CountCreateDrop, GetColumnNames
  <2>2. QED
    BY <1>0, <1>1, <2>1 DEF Types, Execute, TablesOrDescribe, CountCreateDrop, GetColumnNames
<1>2. ASSUME NEW t \in Threads, GetTableData(t) PROVE Types'
  <2>1. PICK p \in given, todo \in {{}, Names} : Enter(t, [OneClient(p) EXCEPT !.todo = todo])
    BY <1>2 DEF GetTableData
  <2>2. [OneClient(p) EXCEPT !.todo = todo] \in CallAt(made)
    BY <1>0, FirstCalls
  <2>3. QED
    BY <1>0, <1>2, <1>in, <2>1, <2>2 DEF Types, GetTableData
<1>3. ASSUME NEW t \in Threads, OpenBegin(t) PROVE Types'
  <2>1. made' = made + 1 /\ made' \in 0..MaxOpens /\ made' # 0
    BY <1>0, <1>3, MongoAssumption DEF OpenBegin
  <2>2. [Idle EXCEPT !.pc = "open", !.p = made + 1, !.held = 1] \in CallAt(made')
    BY <2>1, FirstCalls
  <2>3. th \in [Threads -> CallAt(made')]
    <3>1. ASSUME NEW u \in Threads PROVE th[u] \in CallAt(made + 1)
      <4>1. \A k \in Nat : made + k <= MaxOpens => th[u] \in CallAt(made + k)
        BY <1>0, <1>c, LaterCalls, Zenon
      <4>2. 1 \in Nat /\ made + 1 <= MaxOpens
        BY <1>0, <2>1, MongoAssumption
      <4>3. QED
        BY <4>1, <4>2, Zenon
    <3>2. QED
      BY <1>0, <2>1, <3>1
  <2>4. th' \in [Threads -> CallAt(made')] /\ calls' \in 0..MaxCalls
    BY <1>0, <1>3, <2>2, <2>3, MongoAssumption DEF OpenBegin, Enter, Go
  <2>5. free' \in [Pools -> Int]
    BY <1>3, <1>fr DEF OpenBegin
  <2>6. QED
    BY <1>0, <1>3, <2>1, <2>4, <2>5 DEF Types, OpenBegin
<1>4. ASSUME NEW t \in Threads, Close(t) PROVE Types'
  BY <1>0, <1>4, <1>in, <1>i DEF Types, Close
<1>5. ASSUME NEW t \in Threads, Database(t) PROVE Types'
  BY <1>0, <1>5, <1>in, <1>i, <1>look DEF Types, Database
<1>6. ASSUME NEW t \in Threads, Databases(t) PROVE Types'
  <2>1. pool # 0 => [OneClient(pool) EXCEPT !.names = TRUE] \in CallAt(made)
    <3>1. pool # 0 => pool \in 1..made
      BY <1>0, MongoAssumption
    <3>2. QED
      BY <1>0, <3>1, FirstCalls
  <2>2. QED
    BY <1>0, <1>6, <1>in, <1>i, <2>1 DEF Types, Databases
<1>7. ASSUME NEW t \in Threads, DropDatabase(t) PROVE Types'
  <2>1. th' \in [Threads -> CallAt(made)] /\ calls' \in 0..MaxCalls
    BY <1>0, <1>7, <1>in, <1>i, <1>o DEF DropDatabase
  <2>2. QED
    BY <1>0, <1>7, <2>1 DEF Types, DropDatabase
<1>8. ASSUME NEW t \in Threads, Acquire(t) PROVE Types'
  <2>1. th' \in [Threads -> CallAt(made)]
    BY <1>0, <1>c, <1>8, <1>go, LaterCalls DEF Acquire
  <2>2. QED
    BY <1>0, <1>8, <1>fr, <2>1 DEF Types, Acquire
<1>9. ASSUME NEW t \in Threads, AcquireNested(t) \/ Inferred(t) PROVE Types'
  <2>1. th' \in [Threads -> CallAt(made)]
    BY <1>0, <1>c, <1>9, <1>go, LaterCalls DEF AcquireNested, Inferred
  <2>2. QED
    BY <1>0, <1>9, <1>fr, <2>1 DEF Types, AcquireNested, Inferred
<1>10. ASSUME NEW t \in Threads,
              Finish(t) \/ OpenSucceeds(t) \/ DatabasesThrow(t) \/ DatabasesReturn(t)
       PROVE  Types'
  <2>1. th' \in [Threads -> CallAt(made)]
    BY <1>10, <1>go, <1>i DEF Finish, OpenSucceeds, DatabasesThrow, DatabasesReturn
  <2>2. free' \in [Pools -> Int]
    BY <1>c, <1>10, <1>fr DEF Finish, OpenSucceeds, DatabasesThrow, DatabasesReturn
  <2>3. QED
    BY <1>0, <1>10, <2>1, <2>2 DEF Types, Finish, OpenSucceeds, DatabasesThrow, DatabasesReturn
<1>11. ASSUME NEW t \in Threads, OpenThrows(t) PROVE Types'
  <2>1. th' \in [Threads -> CallAt(made)]
    BY <1>0, <1>c, <1>11, <1>go, LaterCalls DEF OpenThrows
  <2>2. free' \in [Pools -> Int]
    BY <1>11, <1>fr DEF OpenThrows
  <2>3. QED
    BY <1>0, <1>11, <2>1, <2>2 DEF Types, OpenThrows
<1>12. ASSUME NEW t \in Threads, OpenFails(t) PROVE Types'
  BY <1>0, <1>12, <1>go, <1>i DEF Types, OpenFails
<1>13. ASSUME NEW t \in Threads, DatabasesListed(t) PROVE Types'
  BY <1>0, <1>c, <1>13, <1>go, LaterCalls DEF Types, DatabasesListed
<1>14. ASSUME NEW t \in Threads, DatabasesNext(t) PROVE Types'
  <2>1. PICK n \in th[t].todo : Lookup(n) /\ Go(t, [th[t] EXCEPT !.todo = @ \ {n}])
    BY <1>14 DEF DatabasesNext
  <2>2. n \in Names
    BY <1>0 DEF CallAt, Call
  <2>3. QED
    BY <1>0, <1>c, <1>14, <1>go, <1>look, <2>1, <2>2, LaterCalls DEF Types, DatabasesNext
<1>15. CASE UNCHANGED vars
  BY <1>0, <1>15 DEF vars, Types
<1>16. QED
  BY <1>1, <1>2, <1>3, <1>4, <1>5, <1>6, <1>7, <1>8, <1>9, <1>10, <1>11, <1>12, <1>13, <1>14, <1>15
  DEF Next, Begin, Continue

\* Every call is at a stage its step leaves it at and every pool named anywhere
\* has been made.
LEMMA TypesCorrect == Spec => []Types
<1>1. Init => Types
  <2> SUFFICES ASSUME Init PROVE Types
    OBVIOUS
  <2>1. Idle \in CallAt(0)
    <3>1. 0 \in 0..MaxOpens
      BY MongoAssumption
    <3>2. QED
      BY <3>1, FirstCalls
  <2>2. QED
    BY <2>1, MongoAssumption DEF Init, Types, Pools
<1>2. QED
  BY <1>1, TypesStep, PTL DEF Spec

----------------------------------------------------------------------------
\* The calls that do not open the connection.
Plain(t) ==
    \/ Execute(t) \/ TablesOrDescribe(t) \/ CountCreateDrop(t) \/ GetColumnNames(t)
    \/ GetTableData(t) \/ Close(t) \/ Database(t) \/ Databases(t) \/ DropDatabase(t)

\* Such a call begins with no client in hand and without mu_.
LEMMA PlainCalls ==
  ASSUME NEW t \in Threads, Plain(t)
  PROVE  \E r : Enter(t, r) /\ r.pc # "open" /\ r.held = 0 /\ UNCHANGED <<mu, free>>
<1>0. /\ Idle.pc = "idle" /\ Idle.held = 0
      /\ \A p : OneClient(p).pc = "acquire" /\ OneClient(p).held = 0
      /\ \A p, s : LET r == [OneClient(p) EXCEPT !.todo = s] IN r.pc = "acquire" /\ r.held = 0
      /\ \A p : LET r == [OneClient(p) EXCEPT !.names = TRUE] IN r.pc = "acquire" /\ r.held = 0
  BY DEF OneClient, Idle
<1>1. CASE Execute(t) \/ TablesOrDescribe(t) \/ CountCreateDrop(t) \/ GetColumnNames(t)
  BY <1>0, <1>1 DEF Execute, TablesOrDescribe, CountCreateDrop, GetColumnNames
<1>2. CASE GetTableData(t)
  BY <1>0, <1>2 DEF GetTableData
<1>3. CASE Close(t) \/ Database(t)
  BY <1>0, <1>3 DEF Close, Database
<1>4. CASE Databases(t) \/ DropDatabase(t)
  BY <1>0, <1>4 DEF Databases, DropDatabase
<1>5. QED
  BY <1>1, <1>2, <1>3, <1>4 DEF Plain

\* mu_ is held exactly by the open() that is in its smoke test: databases() and
\* dropDatabase() let go of it before they wait for a client.
THEOREM LocksCorrect == Spec => []Locking
<1>1. Init => Locking
  BY MongoAssumption DEF Init, Locking, Idle
<1>2. Types /\ Locking /\ [Next]_vars => Locking'
  <2> SUFFICES ASSUME Types, Locking, [Next]_vars PROVE Locking'
    OBVIOUS
  <2>0. th \in [Threads -> CallAt(made)]
    BY DEF Types
  <2>pc. /\ Idle.pc = "idle"
         /\ \A p : OneClient(p).pc = "acquire"
         /\ \A p, s : [OneClient(p) EXCEPT !.todo = s].pc = "acquire"
         /\ \A p : [OneClient(p) EXCEPT !.names = TRUE].pc = "acquire"
         /\ \A p : [Idle EXCEPT !.pc = "open", !.p = p, !.held = 1].pc = "open"
    BY DEF OneClient, Idle
  <2>rec. th \in [Threads -> Call]
    BY <2>0 DEF CallAt
  <2>stay. ASSUME NEW t \in Threads, NEW r, Go(t, r), th[t].pc # "open", r.pc # "open",
                  UNCHANGED mu
           PROVE  Locking'
    BY <2>0, <2>stay DEF Go, Locking
  <2>rel. ASSUME NEW t \in Threads, NEW r, Go(t, r), th[t].pc = "open", r.pc # "open",
                 mu' = NoThread
          PROVE  Locking'
    BY <2>0, <2>rel, MongoAssumption DEF Go, Locking
  <2>1. ASSUME NEW t \in Threads, Plain(t) PROVE Locking'
    <3>1. PICK r : Enter(t, r) /\ r.pc # "open" /\ UNCHANGED mu
      BY <2>1, PlainCalls
    <3>2. QED
      BY <2>stay, <3>1 DEF Enter
  <2>2. ASSUME NEW t \in Threads, OpenBegin(t) PROVE Locking'
    <3>1. PICK r : Enter(t, r) /\ r.pc = "open"
      BY <2>2, <2>pc DEF OpenBegin
    <3>2. mu = NoThread /\ mu' = t
      BY <2>2 DEF OpenBegin
    <3>3. QED
      BY <2>0, <3>1, <3>2, MongoAssumption DEF Enter, Go, Locking
  <2>3. ASSUME NEW t \in Threads,
               \/ Acquire(t) \/ AcquireNested(t) \/ Inferred(t)
               \/ DatabasesListed(t) \/ DatabasesNext(t)
        PROVE  Locking'
    <3>1. th'[t].pc # "open"
      <4>1. CASE Acquire(t)
        BY <2>rec, <4>1 DEF Acquire, Go, Call
      <4>2. CASE AcquireNested(t)
        BY <2>rec, <4>2 DEF AcquireNested, Go, Call
      <4>3. CASE Inferred(t)
        BY <2>rec, <4>3 DEF Inferred, Go, Call
      <4>4. CASE DatabasesListed(t)
        BY <2>rec, <4>4 DEF DatabasesListed, Go, Call
      <4>5. CASE DatabasesNext(t)
        BY <2>rec, <4>5 DEF DatabasesNext, Go, Call
      <4>6. QED
        BY <2>3, <4>1, <4>2, <4>3, <4>4, <4>5
    <3>2. th[t].pc # "open" /\ UNCHANGED mu /\ \A u \in Threads \ {t} : th'[u] = th[u]
      BY <2>3, <2>0 DEF Acquire, AcquireNested, Inferred, DatabasesListed, DatabasesNext, Go
    <3>3. QED
      BY <3>1, <3>2 DEF Locking
  <2>4. ASSUME NEW t \in Threads,
               Finish(t) \/ OpenFails(t) \/ DatabasesThrow(t) \/ DatabasesReturn(t)
        PROVE  Locking'
    BY <2>4, <2>stay, <2>pc DEF Finish, OpenFails, DatabasesThrow, DatabasesReturn
  <2>5. ASSUME NEW t \in Threads, OpenSucceeds(t) PROVE Locking'
    BY <2>5, <2>rel, <2>pc DEF OpenSucceeds
  <2>6. ASSUME NEW t \in Threads, OpenThrows(t) PROVE Locking'
    <3>1. th'[t].pc = "fail" /\ \A u \in Threads \ {t} : th'[u] = th[u]
      BY <2>6, <2>rec DEF OpenThrows, Go, Call
    <3>2. QED
      BY <2>6, <3>1, MongoAssumption DEF OpenThrows, Locking
  <2>7. CASE UNCHANGED vars
    BY <2>7 DEF vars, Locking
  <2>8. QED
    BY <2>1, <2>2, <2>3, <2>4, <2>5, <2>6, <2>7 DEF Next, Begin, Continue, Plain
<1>3. QED
  BY <1>1, <1>2, TypesCorrect, PTL DEF Spec

----------------------------------------------------------------------------
\* No client of a pool is lost or invented: an exception, an early return and
\* the second client of getTableData included.
LEMMA ConservedCorrect == Spec => []Conserved
<1>1. Init => Conserved
  <2> SUFFICES ASSUME Init, NEW p \in Pools PROVE free[p] + HeldOf(p) = MaxPool
    BY DEF Conserved
  <2>1. Holding(p, 1) = {} /\ Holding(p, 2) = {}
    BY DEF Init, Holding, Idle
  <2>2. QED
    <3>1. Cardinality(Holding(p, 1)) = 0 /\ Cardinality(Holding(p, 2)) = 0
      BY <2>1, FS_EmptySet
    <3>2. free[p] = MaxPool
      BY DEF Init
    <3>3. QED
      BY <3>1, <3>2, MongoAssumption DEF HeldOf
<1>2. Types /\ Conserved /\ [Next]_vars => Conserved'
  <2> SUFFICES ASSUME Types, Conserved, [Next]_vars PROVE Conserved'
    OBVIOUS
  <2>0. /\ made \in 0..MaxOpens /\ free \in [Pools -> Int] /\ th \in [Threads -> CallAt(made)]
        /\ th' \in [Threads -> CallAt(made')]
    BY TypesStep DEF Types
  <2>rec. th \in [Threads -> Call] /\ th' \in [Threads -> Call]
    BY <2>0 DEF CallAt
  <2>st. \A u \in Threads : /\ th[u].pc \in {"idle", "fail", "acquire"} <=> th[u].held = 0
                            /\ th[u].pc = "infer" <=> th[u].held = 2
                            /\ th[u].held \in 0..2
                            /\ th[u].pc # "idle" => th[u].p \in Pools
    BY <2>0, MongoAssumption DEF CallAt, Call, Pools
  <2>mv. ASSUME NEW t \in Threads, th' = [th EXCEPT ![t] = th'[t]],
                \A p \in Pools : free'[p] = free[p] + Of(th[t], p) - Of(th'[t], p)
         PROVE  Conserved'
    <3> SUFFICES ASSUME NEW p \in Pools PROVE free'[p] + HeldOf(p)' = MaxPool
      BY DEF Conserved
    <3> DEFINE r == th'[t]
    <3>1. r \in Call /\ th' = [th EXCEPT ![t] = r]
      BY <2>mv, <2>rec
    <3>2. HeldOf(p) \in Nat /\ HeldOf(p)' = HeldOf(p) + Of(r, p) - Of(th[t], p)
      <4> HIDE DEF r
      <4>1. QED
        BY <2>0, <3>1, Moved
    <3>3. Of(r, p) \in 0..2 /\ Of(th[t], p) \in 0..2 /\ free[p] \in Int
      BY <2>rec, <2>0 DEF Of, Call
    <3>4. free[p] + HeldOf(p) = MaxPool
      BY DEF Conserved
    <3>5. QED
      BY <2>mv, <3>2, <3>3, <3>4
  <2>fix. ASSUME NEW t \in Threads, NEW r, Go(t, r)
          PROVE  th' = [th EXCEPT ![t] = th'[t]] /\ th'[t] = r
    BY <2>fix, <2>rec DEF Go
  <2>same. ASSUME NEW t \in Threads, NEW r, Go(t, r), r.held = 0, th[t].held = 0, UNCHANGED free
           PROVE  Conserved'
    BY <2>same, <2>fix, <2>mv, <2>0 DEF Of
  <2>back. ASSUME NEW t \in Threads, th[t].pc # "idle", NEW r, Go(t, r),
                  r.p = th[t].p \/ r.held = 0, r.held \in 0..2,
                  \A p \in Pools : free'[p] = IF p = th[t].p THEN free[p] + (th[t].held - r.held)
                                                          ELSE free[p]
           PROVE  Conserved'
    <3>1. ASSUME NEW p \in Pools PROVE free'[p] = free[p] + Of(th[t], p) - Of(r, p)
      <4>1. th[t].held \in 0..2 /\ th[t].p \in Pools /\ free[p] \in Int
        BY <2>st, <2>back, <2>0
      <4>2. CASE p = th[t].p
        <5>1. free'[p] = free[p] + (th[t].held - r.held)
          BY <2>back, <4>2
        <5>2. Of(th[t], p) = th[t].held /\ Of(r, p) = r.held
          BY <2>back, <4>2 DEF Of
        <5>3. QED
          BY <2>back, <4>1, <5>1, <5>2
      <4>3. CASE p # th[t].p
        <5>1. free'[p] = free[p]
          BY <2>back, <4>3
        <5>2. Of(th[t], p) = 0 /\ Of(r, p) = 0
          BY <2>back, <4>3 DEF Of
        <5>3. QED
          BY <4>1, <5>1, <5>2
      <4>4. QED
        BY <4>2, <4>3
    <3>2. QED
      BY <2>back, <2>fix, <2>mv, <3>1
  <2>i. Idle.held = 0
    BY DEF Idle
  <2>1. ASSUME NEW t \in Threads, Plain(t) PROVE Conserved'
    <3>1. PICK r : Enter(t, r) /\ r.held = 0 /\ UNCHANGED free
      BY <2>1, PlainCalls
    <3>2. QED
      BY <2>same, <2>st, <3>1 DEF Enter
  <2>2. ASSUME NEW t \in Threads, OpenBegin(t) PROVE Conserved'
    <3> DEFINE r == [Idle EXCEPT !.pc = "open", !.p = made + 1, !.held = 1]
    <3>1. r.p = made + 1 /\ r.held = 1
      BY DEF Idle
    <3>2. Go(t, r) /\ th[t].held = 0
      BY <2>2, <2>st DEF OpenBegin, Enter
    <3> HIDE DEF r
    <3>3. ASSUME NEW p \in Pools PROVE free'[p] = free[p] + Of(th[t], p) - Of(r, p)
      <4>1. free'[p] = IF p = made + 1 THEN free[p] - 1 ELSE free[p]
        BY <2>0, <2>2 DEF OpenBegin, Take
      <4>2. Of(th[t], p) = 0 /\ Of(r, p) = IF p = made + 1 THEN 1 ELSE 0
        BY <3>1, <3>2 DEF Of
      <4>3. free[p] \in Int
        BY <2>0
      <4>4. QED
        BY <4>1, <4>2, <4>3
    <3>4. QED
      BY <2>fix, <2>mv, <3>2, <3>3
  <2>3. ASSUME NEW t \in Threads, Acquire(t) PROVE Conserved'
    <3> DEFINE a == IF th[t].todo # {} THEN "nested" ELSE "work"
               r == [th[t] EXCEPT !.held = 1, !.pc = a]
    <3>1. Go(t, r) /\ th[t].pc = "acquire" /\ Take(th[t].p)
      BY <2>3 DEF Acquire
    <3>2. r.p = th[t].p /\ r.held = 1
      BY <2>rec DEF Call
    <3> HIDE DEF r
    <3>3. th[t].held = 0
      BY <2>st, <3>1
    <3>4. QED
      BY <2>0, <2>back, <3>1, <3>2, <3>3 DEF Take
  <2>4. ASSUME NEW t \in Threads, AcquireNested(t) PROVE Conserved'
    <3> DEFINE r == [th[t] EXCEPT !.held = 2, !.pc = "infer"]
    <3>1. Go(t, r) /\ th[t].pc = "nested" /\ Take(th[t].p)
      BY <2>4 DEF AcquireNested
    <3>2. r.p = th[t].p /\ r.held = 2
      BY <2>rec DEF Call
    <3> HIDE DEF r
    <3>3. th[t].held = 1
      BY <2>st, <3>1
    <3>4. QED
      BY <2>0, <2>back, <3>1, <3>2, <3>3 DEF Take
  <2>5. ASSUME NEW t \in Threads, Inferred(t) PROVE Conserved'
    <3> DEFINE r == [th[t] EXCEPT !.held = 1, !.pc = "work", !.todo = {}]
    <3>1. Go(t, r) /\ th[t].pc = "infer" /\ Give(th[t].p, 1)
      BY <2>5 DEF Inferred
    <3>2. r.p = th[t].p /\ r.held = 1
      BY <2>rec DEF Call
    <3> HIDE DEF r
    <3>3. th[t].held = 2
      BY <2>st, <3>1
    <3>4. QED
      BY <2>0, <2>back, <3>1, <3>2, <3>3 DEF Give
  <2>6. ASSUME NEW t \in Threads,
               Finish(t) \/ OpenSucceeds(t) \/ DatabasesThrow(t) \/ DatabasesReturn(t)
        PROVE  Conserved'
    <3>1. /\ th[t].pc \in {"work", "open", "each"} /\ Go(t, Idle)
          /\ Give(th[t].p, 1) \/ Give(th[t].p, th[t].held)
      BY <2>6 DEF Finish, OpenSucceeds, DatabasesThrow, DatabasesReturn
    <3>2. th[t].held = 1
      BY <2>st, <3>1
    <3>3. QED
      BY <2>0, <2>back, <2>i, <3>1, <3>2 DEF Give
  <2>7. ASSUME NEW t \in Threads, OpenThrows(t) PROVE Conserved'
    <3> DEFINE r == [th[t] EXCEPT !.pc = "fail", !.held = 0]
    <3>1. Go(t, r) /\ th[t].pc = "open" /\ Give(th[t].p, 1)
      BY <2>7 DEF OpenThrows
    <3>2. r.held = 0
      BY <2>rec DEF Call
    <3> HIDE DEF r
    <3>3. th[t].held = 1
      BY <2>st, <3>1
    <3>4. QED
      BY <2>0, <2>back, <3>1, <3>2, <3>3 DEF Give
  <2>8. ASSUME NEW t \in Threads, OpenFails(t) PROVE Conserved'
    BY <2>8, <2>same, <2>st, <2>i DEF OpenFails
  <2>9. ASSUME NEW t \in Threads, DatabasesListed(t) \/ DatabasesNext(t) PROVE Conserved'
    <3>1. /\ th' = [th EXCEPT ![t] = th'[t]] /\ th'[t].p = th[t].p /\ th'[t].held = th[t].held
          /\ UNCHANGED free
      BY <2>9, <2>rec DEF DatabasesListed, DatabasesNext, Go, Call
    <3>2. \A p \in Pools : free'[p] = free[p] + Of(th[t], p) - Of(th'[t], p)
      BY <2>0, <2>st, <3>1 DEF Of
    <3>3. QED
      BY <2>mv, <3>1, <3>2
  <2>10. CASE UNCHANGED vars
    BY <2>10 DEF vars, Conserved, HeldOf, Holding
  <2>11. QED
    BY <2>1, <2>2, <2>3, <2>4, <2>5, <2>6, <2>7, <2>8, <2>9, <2>10 DEF Next, Begin, Continue, Plain
<1>3. QED
  BY <1>1, <1>2, TypesCorrect, PTL DEF Spec

----------------------------------------------------------------------------
\* A client is only taken when there is one; a new pool is full, because a pool
\* that was not made yet has no holders.
LEMMA StockCorrect == Spec => []Stock
<1>1. Init => Stock
  BY MongoAssumption DEF Init, Stock
<1>2. Types /\ Conserved /\ Stock /\ [Next]_vars => Stock'
  <2> SUFFICES ASSUME Types, Conserved, Stock, [Next]_vars PROVE Stock'
    OBVIOUS
  <2>0. free \in [Pools -> Nat] /\ \A u \in Threads : th[u].held \in Nat
    BY DEF Stock, Types, CallAt, Call
  <2>give. ASSUME NEW p, NEW k \in Nat, Give(p, k) PROVE Stock'
    <3>1. ASSUME NEW q \in Pools PROVE free'[q] \in Nat
      <4>1. free'[q] = IF q = p THEN free[q] + k ELSE free[q]
        BY <2>0, <2>give DEF Give
      <4>2. QED
        BY <2>0, <2>give, <4>1
    <3>2. free' = [q \in Pools |-> free'[q]]
      BY <2>0, <2>give DEF Give
    <3>3. QED
      BY <3>1, <3>2 DEF Stock
  <2>take. ASSUME NEW p, p \in Pools => free[p] > 0, Take(p) PROVE Stock'
    <3>1. ASSUME NEW q \in Pools PROVE free'[q] \in Nat
      <4>1. free'[q] = IF q = p THEN free[q] - 1 ELSE free[q]
        BY <2>0, <2>take DEF Take
      <4>2. QED
        BY <2>0, <2>take, <4>1
    <3>2. free' = [q \in Pools |-> free'[q]]
      BY <2>0, <2>take DEF Take
    <3>3. QED
      BY <3>1, <3>2 DEF Stock
  <2>1. ASSUME NEW t \in Threads, OpenBegin(t) PROVE Stock'
    <3>0. made \in Nat /\ made + 1 \in Pools
      BY <2>1, MongoAssumption DEF OpenBegin, Types, Pools
    <3>1. Holding(made + 1, 1) = {} /\ Holding(made + 1, 2) = {}
      BY <3>0 DEF Types, Holding, CallAt, Call
    <3>2. Cardinality(Holding(made + 1, 1)) = 0 /\ Cardinality(Holding(made + 1, 2)) = 0
      BY <3>1, FS_EmptySet
    <3>3. free[made + 1] + HeldOf(made + 1) = MaxPool
      BY <3>0 DEF Conserved
    <3>4. free[made + 1] > 0
      BY <2>0, <3>0, <3>2, <3>3, MongoAssumption DEF HeldOf
    <3>5. QED
      BY <2>1, <2>take, <3>4 DEF OpenBegin
  <2>2. ASSUME NEW t \in Threads, Acquire(t) \/ AcquireNested(t) PROVE Stock'
    BY <2>2, <2>take DEF Acquire, AcquireNested
  <2>3. ASSUME NEW t \in Threads,
               \/ Inferred(t) \/ Finish(t) \/ OpenSucceeds(t) \/ OpenThrows(t)
               \/ DatabasesThrow(t) \/ DatabasesReturn(t)
        PROVE  Stock'
    BY <2>0, <2>3, <2>give
    DEF Inferred, Finish, OpenSucceeds, OpenThrows, DatabasesThrow, DatabasesReturn
  <2>4. ASSUME NEW t \in Threads,
               Plain(t) \/ OpenFails(t) \/ DatabasesListed(t) \/ DatabasesNext(t)
        PROVE  UNCHANGED free
    BY <2>4, PlainCalls DEF OpenFails, DatabasesListed, DatabasesNext
  <2>5. CASE UNCHANGED free
    BY <2>5 DEF Stock
  <2>6. QED
    BY <2>1, <2>2, <2>3, <2>4, <2>5 DEF Next, Begin, Continue, Plain, vars
<1>3. QED
  BY <1>1, <1>2, TypesCorrect, ConservedCorrect, PTL DEF Spec

\* open_ is a flag.
LEMMA FlagCorrect == Spec => []Flag
<1>1. Init => Flag
  BY DEF Init, Flag
<1>2. Flag /\ [Next]_vars => Flag'
  BY DEF Flag, Next, Begin, Continue, vars, Execute, TablesOrDescribe, CountCreateDrop,
         GetColumnNames, GetTableData, OpenBegin, Close, Database, Databases, DropDatabase,
         Acquire, AcquireNested, Inferred, Finish, OpenSucceeds, OpenThrows, OpenFails,
         DatabasesListed, DatabasesThrow, DatabasesNext, DatabasesReturn
<1>3. QED
  BY <1>1, <1>2, PTL DEF Spec

\* Every part of the state has its type and no client is lost or invented,
\* whatever the number of threads, pools and clients: each exception and early
\* return of a handle's call gives back exactly what the call took.
THEOREM TypeCorrect == Spec => []TypeOK
<1>1. Types /\ Flag /\ Locking /\ Conserved /\ Stock => TypeOK
  <2> SUFFICES ASSUME Types, Flag, Locking, Conserved, Stock PROVE TypeOK
    OBVIOUS
  <2>1. free \in [Pools -> 0..MaxPool]
    <3>1. ASSUME NEW p \in Pools PROVE free[p] \in 0..MaxPool
      <4>1. IsFiniteSet(Holding(p, 1)) /\ IsFiniteSet(Holding(p, 2))
        BY MongoAssumption, FS_Subset DEF Holding
      <4>2. HeldOf(p) \in Nat
        BY <4>1, FS_CardinalityType DEF HeldOf
      <4>3. free[p] \in Nat /\ free[p] + HeldOf(p) = MaxPool
        BY DEF Stock, Conserved
      <4>4. QED
        BY <4>2, <4>3, MongoAssumption
    <3>2. QED
      BY <3>1 DEF Types
  <2>2. /\ pool \in 0..MaxOpens /\ cache \in [Names -> 0..MaxOpens] /\ given \subseteq Pools
        /\ made \in 0..MaxOpens /\ calls \in 0..MaxCalls
    <3>1. 0..made \subseteq 0..MaxOpens /\ 1..made \subseteq Pools
      BY MongoAssumption DEF Types, Pools
    <3>2. QED
      BY <3>1 DEF Types
  <2>3. ASSUME NEW t \in Threads
        PROVE  /\ th[t].pc \in PCs /\ th[t].p \in 0..MaxOpens /\ th[t].held \in 0..2
               /\ th[t].todo \subseteq Names
               /\ th[t].pc = "idle" => th[t].held = 0
    BY DEF Types, CallAt, Call
  <2>4. \A p \in 1..made : free[p] + HeldOf(p) = MaxPool
    BY MongoAssumption DEF Types, Conserved, Pools
  <2>5. QED
    BY <2>1, <2>2, <2>3, <2>4 DEF TypeOK, Flag, Locking
<1>2. QED
  BY <1>1, TypesCorrect, FlagCorrect, LocksCorrect, ConservedCorrect, StockCorrect, PTL

----------------------------------------------------------------------------
\* Nobody waits on everybody: with any number of threads and clients, a call that
\* cannot go on waits for a call that can, unless every client of its pool is in
\* a getTableData that waits for its second one.
THEOREM WaitsCorrect == Spec => []WaitsAreServed
<1>1. Types /\ Locking /\ Conserved /\ Stock => WaitsAreServed
  <2> SUFFICES ASSUME Types, Locking, Conserved, Stock,
                      NEW t \in Threads, th[t].pc # "idle",
                      ~ \E u \in Threads :
                          \/ th[u].pc \in {"open", "infer", "work"}
                          \/ th[u].pc \in {"acquire", "nested"} /\ free[th[u].p] > 0
                          \/ th[u].pc = "fail" /\ mu = NoThread
                          \/ th[u].pc = "each" /\ (th[u].todo = {} \/ mu = NoThread)
               PROVE  Exhausted(th[t].p)
    BY DEF WaitsAreServed
  <2> DEFINE p == th[t].p
  <2>1. mu = NoThread
    BY DEF Locking
  <2>2. \A u \in Threads : th[u].pc \in {"idle", "acquire", "nested"}
    <3>1. \A u \in Threads : th[u].pc \in PCs
      BY DEF Types, CallAt, Call
    <3>2. QED
      BY <2>1, <3>1 DEF PCs
  <2>3. p \in Pools /\ p # 0 /\ free[p] \in Nat
    BY MongoAssumption DEF Types, CallAt, Call, Pools, Stock
  <2>4. free[p] = 0
    BY <2>2, <2>3
  <2>5. \A u \in Threads : /\ th[u].held \in 0..1
                           /\ th[u].held = 1 <=> th[u].pc = "nested"
    BY <2>2 DEF Types, CallAt, Call
  <2>6. Holding(p, 1) = Nested(p) /\ Holding(p, 2) = {}
    BY <2>5 DEF Holding, Nested
  <2> HIDE DEF p
  <2>7. IsFiniteSet(Nested(p)) /\ Cardinality(Nested(p)) \in Nat
    BY MongoAssumption, FS_Subset, FS_CardinalityType DEF Nested
  <2>8. Cardinality(Holding(p, 2)) = 0
    BY <2>6, FS_EmptySet
  <2>9. free[p] + (Cardinality(Nested(p)) + 0) = MaxPool
    BY <2>3, <2>6, <2>8 DEF Conserved, HeldOf
  <2>10. Exhausted(p)
    BY <2>3, <2>4, <2>7, <2>9 DEF Exhausted
  <2>11. QED
    BY <2>10 DEF p
<1>2. QED
  BY <1>1, TypesCorrect, LocksCorrect, ConservedCorrect, StockCorrect, PTL
=============================================================================
