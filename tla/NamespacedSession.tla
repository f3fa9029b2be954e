------------------------- MODULE NamespacedSession -------------------------
(***************************************************************************)
(* What a handle of a shared session promises its callers, whatever the    *)
(* backend: a handle stands for one namespace (a Postgres schema, a Redis  *)
(* logical database, a Cassandra keyspace), several handles share one      *)
(* server session that is in one namespace at a time, and a statement      *)
(* given to a handle                                                       *)
(*   - runs in the handle's namespace, or does not run at all;             *)
(*   - runs at most once per call;                                         *)
(*   - is reported as successful only when it ran.                         *)
(* PgSession, RedisSession and CassandraSession implement this module.     *)
(***************************************************************************)
CONSTANTS
    Threads,     \* the host's threads, each with at most one call under way
    Namespaces,  \* what a handle can stand for
    Nowhere      \* "the statement did not run", no member of Namespaces

VARIABLES
    stage,   \* stage[t]: where t's call is: "idle", "waiting", "ran" or "refused"
    want,    \* want[t]: the namespace of the handle t called, Nowhere when idle
    ranIn    \* ranIn[t]: the namespace t's statement ran in, or Nowhere

vars == <<stage, want, ranIn>>

Init ==
    /\ stage = [t \in Threads |-> "idle"]
    /\ want = [t \in Threads |-> Nowhere]
    /\ ranIn = [t \in Threads |-> Nowhere]

\* t calls execute() on a handle for namespace n.
Invoke(t, n) ==
    /\ stage[t] = "idle"
    /\ stage' = [stage EXCEPT ![t] = "waiting"]
    /\ want' = [want EXCEPT ![t] = n]
    /\ UNCHANGED ranIn

\* The server runs t's statement, in the namespace t asked for.
Run(t) ==
    /\ stage[t] = "waiting"
    /\ stage' = [stage EXCEPT ![t] = "ran"]
    /\ ranIn' = [ranIn EXCEPT ![t] = want[t]]
    /\ UNCHANGED want

\* The call fails before its statement ran.
Refuse(t) ==
    /\ stage[t] = "waiting"
    /\ stage' = [stage EXCEPT ![t] = "refused"]
    /\ UNCHANGED <<want, ranIn>>

\* The call returns to the host.
Return(t) ==
    /\ stage[t] \in {"ran", "refused"}
    /\ stage' = [stage EXCEPT ![t] = "idle"]
    /\ want' = [want EXCEPT ![t] = Nowhere]
    /\ ranIn' = [ranIn EXCEPT ![t] = Nowhere]

Next ==
    \E t \in Threads :
        \/ \E n \in Namespaces : Invoke(t, n)
        \/ Run(t)
        \/ Refuse(t)
        \/ Return(t)

Spec == Init /\ [][Next]_vars
=============================================================================
