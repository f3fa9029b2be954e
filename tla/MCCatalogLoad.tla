---------------------------- MODULE MCCatalogLoad ----------------------------
(***************************************************************************)
(* Two tables.  t1 refers to t2, t2 to itself and to a table of another    *)
(* schema that is called t1 too; altered, t1 loses its key and gets one to *)
(* another schema's t2, and t2 loses its keys.                             *)
(***************************************************************************)
EXTENDS CatalogLoad

CONSTANTS t1, t2

MCTables == {t1, t2}

Key(schema, table) == [schema |-> schema, table |-> table]

MCKeys(t, v) ==
    CASE t = t1 /\ v = 1 -> {Key("own", t2)}
      [] t = t1 /\ v > 1 -> {Key("other", t2)}
      [] t = t2 /\ v = 1 -> {Key("own", t2), Key("other", t1)}
      [] OTHER -> {}
=============================================================================
