------------------------------ MODULE MongoPool ------------------------------
(***************************************************************************)
(* The MongoDB backend (src/mongodb_connection.cpp): a connection with a   *)
(* pool of clients and a cache of database handles, and the calls of its   *)
(* handles.  A handle is its pool: it keeps the pool alive (shared_ptr)    *)
(* whatever the connection does later.  Pools are numbered in the order    *)
(* open() makes them and 0 is "no pool" (a null pointer).                  *)
(* What a call sends and how the answer is converted is left out.          *)
(***************************************************************************)
EXTENDS Naturals, FiniteSets

CONSTANTS
    Threads,   \* the host's threads
    Names,     \* database names
    NoThread,  \* not a thread: nobody holds mu_
    MaxPool,   \* clients of one pool (the driver's maxPoolSize)
    MaxOpens,  \* bound: pools open() may make
    MaxCalls   \* bound: calls made by all threads together

ASSUME MongoAssumption ==
    /\ IsFiniteSet(Threads)
    /\ NoThread \notin Threads
    /\ MaxPool \in Nat \ {0}
    /\ MaxOpens \in Nat \ {0}
    /\ MaxCalls \in Nat

VARIABLES
    pool,    \* pool_
    cache,   \* cache_: the pool of the handle cached under a name, 0 for none
    open,    \* open_
    mu,      \* holder of mu_
    given,   \* pools of the handles callers have been given
    free,    \* clients of each pool nobody holds
    made,    \* pools made so far
    calls,   \* calls made so far
    th       \* the call each thread is in

vars == <<pool, cache, open, mu, given, free, made, calls, th>>

Pools == 1..MaxOpens

\* A thread outside any call.  In a call: pc, the pool p it works on, the clients
\* held, the names still to look up (todo) and, for databases(), names is TRUE.
Idle == [pc |-> "idle", p |-> 0, held |-> 0, todo |-> {}, names |-> FALSE]

\* A call that takes one client of p, asks the server and gives the client back.
OneClient(p) == [Idle EXCEPT !.pc = "acquire", !.p = p]

PCs == {"idle", "open", "fail", "acquire", "work", "nested", "infer", "each"}

(***************************************************************************)
(* Every part of the state has its type and no client is lost or invented: *)
(* a client of a pool is free or held by a call.  The callers never see    *)
(* the pool entry, so a leak (an early return or an exception that forgot  *)
(* it) would only show as a hang much later.                               *)
(***************************************************************************)
Holding(p, k) == {t \in Threads : th[t].p = p /\ th[t].held >= k}

HeldOf(p) == Cardinality(Holding(p, 1)) + Cardinality(Holding(p, 2))

TypeOK ==
    /\ pool \in 0..MaxOpens
    /\ cache \in [Names -> 0..MaxOpens]
    /\ open \in BOOLEAN
    /\ mu \in Threads \cup {NoThread}
    /\ given \subseteq Pools
    /\ free \in [Pools -> 0..MaxPool]
    /\ made \in 0..MaxOpens
    /\ calls \in 0..MaxCalls
    /\ \A t \in Threads :
        /\ th[t].pc \in PCs
        /\ th[t].p \in 0..MaxOpens
        /\ th[t].held \in 0..2
        /\ th[t].todo \subseteq Names
        /\ th[t].pc = "idle" => th[t].held = 0
    /\ \A p \in 1..made : free[p] + HeldOf(p) = MaxPool

Init ==
    /\ pool = 0
    /\ cache = [n \in Names |-> 0]
    /\ open = FALSE
    /\ mu = NoThread
    /\ given = {}
    /\ free = [p \in Pools |-> MaxPool]
    /\ made = 0
    /\ calls = 0
    /\ th = [t \in Threads |-> Idle]

Go(t, r) == th' = [th EXCEPT ![t] = r]

\* A thread begins a call.
Enter(t, r) ==
    /\ th[t].pc = "idle"
    /\ calls < MaxCalls
    /\ calls' = calls + 1
    /\ Go(t, r)

Take(p) == free' = [free EXCEPT ![p] = @ - 1]
Give(p, k) == free' = [free EXCEPT ![p] = @ + k]

----------------------------------------------------------------------------
(* Handles *)

(***************************************************************************)
(* MongoDBDatabase::execute.  A text that is not JSON is answered before a *)
(* client is taken; anything else takes one.                               *)
(***************************************************************************)
Execute(t) ==
    \E p \in given, json \in BOOLEAN :
        /\ IF json
           THEN Enter(t, OneClient(p))
           ELSE Enter(t, Idle)
        /\ UNCHANGED <<pool, cache, open, mu, given, free, made>>

\* tables and describeTable: the sample and the indexes of every collection come
\* over the one client the call took; their errors are swallowed.
TablesOrDescribe(t) ==
    \E p \in given :
        /\ Enter(t, OneClient(p))
        /\ UNCHANGED <<pool, cache, open, mu, given, free, made>>

\* getRowCount, createTable, dropTable.
CountCreateDrop(t) ==
    \E p \in given :
        /\ Enter(t, OneClient(p))
        /\ UNCHANGED <<pool, cache, open, mu, given, free, made>>

\* getColumnNames: the columns of the table if the caller has them, a sample otherwise.
GetColumnNames(t) ==
    \E p \in given, known \in BOOLEAN :
        /\ IF known
           THEN Enter(t, Idle)
           ELSE Enter(t, OneClient(p))
        /\ UNCHANGED <<pool, cache, open, mu, given, free, made>>

\* getTableData; todo is not empty when its getColumnNames has to take a sample.
GetTableData(t) ==
    \E p \in given, todo \in {{}, Names} :
        /\ Enter(t, [OneClient(p) EXCEPT !.todo = todo])
        /\ UNCHANGED <<pool, cache, open, mu, given, free, made>>

\* pool::acquire: waits until the pool has a client.
Acquire(t) ==
    /\ th[t].pc = "acquire"
    /\ free[th[t].p] > 0
    /\ Take(th[t].p)
    /\ Go(t, [th[t] EXCEPT !.held = 1,
                           !.pc = IF th[t].todo # {}
                                  THEN "nested" ELSE "work"])
    /\ UNCHANGED <<pool, cache, open, mu, given, made, calls>>

(***************************************************************************)
(* getTableData calls getColumnNames with its own client in hand, and that *)
(* takes a second one from the same pool.                                  *)
(***************************************************************************)
AcquireNested(t) ==
    /\ th[t].pc = "nested"
    /\ free[th[t].p] > 0
    /\ Take(th[t].p)
    /\ Go(t, [th[t] EXCEPT !.held = 2, !.pc = "infer"])
    /\ UNCHANGED <<pool, cache, open, mu, given, made, calls>>

\* The same, with an early return that forgets the client.
InferredKeeping(t) ==
    /\ th[t].pc = "infer"
    /\ Go(t, [th[t] EXCEPT !.held = 1, !.pc = "work"])
    /\ UNCHANGED <<pool, cache, open, mu, given, free, made, calls>>

\* inferSchemaFromSample swallows its errors: the second client always comes back.
Inferred(t) ==
    /\ th[t].pc = "infer"
    /\ Give(th[t].p, 1)
    /\ Go(t, [th[t] EXCEPT !.held = 1, !.pc = "work", !.todo = {}])
    /\ UNCHANGED <<pool, cache, open, mu, given, made, calls>>

(***************************************************************************)
(* The server answers or the driver throws.  Either way the call ends, as  *)
(* a result, a failed statement, a failed Status or an Error, and the      *)
(* entry's destructor gives the client back.                               *)
(***************************************************************************)
Finish(t) ==
    /\ th[t].pc = "work"
    /\ ~th[t].names
    /\ Give(th[t].p, th[t].held)
    /\ Go(t, Idle)
    /\ UNCHANGED <<pool, cache, open, mu, given, made, calls>>

----------------------------------------------------------------------------
(* The connection *)

\* open(): the lock is taken and held to the end of the smoke test.
OpenBegin(t) ==
    /\ mu = NoThread
    /\ made < MaxOpens
    /\ Enter(t, [Idle EXCEPT !.pc = "open", !.p = made + 1, !.held = 1])
    /\ mu' = t
    /\ made' = made + 1
    /\ pool' = made + 1
    /\ Take(made + 1)
    /\ UNCHANGED <<cache, open, given>>

\* The new pool's first client is held during list_database_names().
OpenSucceeds(t) ==
    /\ th[t].pc = "open"
    /\ open' = TRUE
    /\ mu' = NoThread
    /\ Give(th[t].p, 1)
    /\ Go(t, Idle)
    /\ UNCHANGED <<pool, cache, given, made, calls>>

\* An exception unlocks mu_ on its way to the handler, which locks it again.
OpenThrows(t) ==
    /\ th[t].pc = "open"
    /\ mu' = NoThread
    /\ Give(th[t].p, 1)
    /\ Go(t, [th[t] EXCEPT !.pc = "fail", !.held = 0])
    /\ UNCHANGED <<pool, cache, open, given, made, calls>>

OpenFails(t) ==
    /\ th[t].pc = "fail"
    /\ mu = NoThread
    /\ pool' = 0
    /\ open' = FALSE
    /\ Go(t, Idle)
    /\ UNCHANGED <<cache, mu, given, free, made, calls>>

Close(t) ==
    /\ mu = NoThread
    /\ Enter(t, Idle)
    /\ cache' = [n \in Names |-> 0]
    /\ pool' = 0
    /\ open' = FALSE
    /\ UNCHANGED <<mu, given, free, made>>

\* The body of database(n) under mu_: the handle it answers with, 0 for nullptr.
HandleFor(n) == IF pool = 0 THEN 0 ELSE IF cache[n] # 0 THEN cache[n] ELSE pool

Lookup(n) ==
    /\ cache' = IF pool = 0 THEN cache ELSE [cache EXCEPT ![n] = HandleFor(n)]
    /\ given' = given \cup ({HandleFor(n)} \ {0})

Database(t) ==
    /\ mu = NoThread
    /\ Enter(t, Idle)
    /\ \E n \in Names : Lookup(n)
    /\ UNCHANGED <<pool, open, mu, free, made>>

\* databases() with mu_ kept while the names are listed.
DatabasesLocked(t) ==
    /\ mu = NoThread
    /\ IF pool = 0
       THEN Enter(t, Idle) /\ UNCHANGED mu
       ELSE /\ Enter(t, [OneClient(pool) EXCEPT !.names = TRUE])
            /\ mu' = t
    /\ UNCHANGED <<pool, cache, open, given, free, made>>

\* databases(): the pool is copied under mu_ and a client taken without it.
Databases(t) ==
    /\ mu = NoThread
    /\ IF pool = 0
       THEN Enter(t, Idle)
       ELSE Enter(t, [OneClient(pool) EXCEPT !.names = TRUE])
    /\ UNCHANGED <<pool, cache, open, mu, given, free, made>>

\* The names came: database(n) for each, with the client still in hand.
DatabasesListed(t) ==
    /\ th[t].pc = "work"
    /\ th[t].names
    /\ Go(t, [th[t] EXCEPT !.pc = "each", !.todo = Names])
    /\ UNCHANGED <<pool, cache, open, mu, given, free, made, calls>>

DatabasesThrow(t) ==
    /\ th[t].pc = "work"
    /\ th[t].names
    /\ Give(th[t].p, 1)
    /\ Go(t, Idle)
    /\ UNCHANGED <<pool, cache, open, mu, given, made, calls>>

DatabasesNext(t) ==
    /\ th[t].pc = "each"
    /\ mu = NoThread
    /\ \E n \in th[t].todo :
        /\ Lookup(n)
        /\ Go(t, [th[t] EXCEPT !.todo = @ \ {n}])
    /\ UNCHANGED <<pool, open, mu, free, made, calls>>

DatabasesReturn(t) ==
    /\ th[t].pc = "each"
    /\ th[t].todo = {}
    /\ Give(th[t].p, 1)
    /\ Go(t, Idle)
    /\ UNCHANGED <<pool, cache, open, mu, given, made, calls>>

\* dropDatabase(name): forgets the handle, then drops with a client of the copied pool.
DropDatabase(t) ==
    /\ mu = NoThread
    /\ \E n \in Names : cache' = [cache EXCEPT ![n] = 0]
    /\ IF pool = 0
       THEN Enter(t, Idle)
       ELSE Enter(t, OneClient(pool))
    /\ UNCHANGED <<pool, open, mu, given, free, made>>

----------------------------------------------------------------------------
Begin(t) ==
    \/ Execute(t) \/ TablesOrDescribe(t) \/ CountCreateDrop(t) \/ GetColumnNames(t) \/ GetTableData(t)
    \/ OpenBegin(t) \/ Close(t) \/ Database(t) \/ Databases(t) \/ DropDatabase(t)

Continue(t) ==
    \/ Acquire(t) \/ AcquireNested(t) \/ Inferred(t) \/ Finish(t)
    \/ OpenSucceeds(t) \/ OpenThrows(t) \/ OpenFails(t)
    \/ DatabasesListed(t) \/ DatabasesThrow(t) \/ DatabasesNext(t) \/ DatabasesReturn(t)

Next == \E t \in Threads : Begin(t) \/ Continue(t)

Spec == Init /\ [][Next]_vars

----------------------------------------------------------------------------
\* Threads in getTableData that hold a client of p and wait for a second one.
Nested(p) == {t \in Threads : th[t].pc = "nested" /\ th[t].p = p}

Exhausted(p) == p # 0 /\ free[p] = 0 /\ Cardinality(Nested(p)) = MaxPool

(***************************************************************************)
(* Nobody waits on everybody: a call in progress that cannot go on waits   *)
(* for mu_ or a client some other call will give back, unless all clients  *)
(* of its pool are in getTableData calls that wait for a second one        *)
(* (mongodb_connection.cpp:446).  In particular no call waits for a client *)
(* with mu_ in its hands (databases() lists names and then calls           *)
(* database(), which locks).                                               *)
(***************************************************************************)
WaitsAreServed ==
    \A t \in Threads : th[t].pc # "idle" =>
        \/ Exhausted(th[t].p)
        \/ \E u \in Threads :
            \/ th[u].pc \in {"open", "infer", "work"}
            \/ th[u].pc \in {"acquire", "nested"} /\ free[th[u].p] > 0
            \/ th[u].pc = "fail" /\ mu = NoThread
            \/ th[u].pc = "each" /\ (th[u].todo = {} \/ mu = NoThread)
=============================================================================
