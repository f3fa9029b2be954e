----------------------------- MODULE SqlScopes -----------------------------
(***************************************************************************)
(* The Analyzer of src/completion.cpp over the tokens of one statement,    *)
(* and the two calls built on it: complete(), for a cursor after the last  *)
(* token, and resolveIdentifierAt().                                       *)
(*                                                                         *)
(* A token is its text; comments, the case of letters, DISTINCT ON and TOP *)
(* with an expression, and most of the keywords are left out.              *)
(* An operator on a takes an Analyzer, or its groups only.                 *)
(* Positions count from 1.  A parenthesis group is named by the position   *)
(* of its "(", and 0 is the statement itself.  A column is its name and    *)
(* the place of its table in the catalog, 0 when it is not a column of one.*)
(***************************************************************************)
EXTENDS Naturals, Sequences, FiniteSets, FiniteSetsExt, SequencesExt

CONSTANTS
    Catalog,       \* relations [name, schema, columns], the tables before the views
    DefaultSchema  \* catalog_.defaultSchema

ASSUME CatalogAssumption ==
    /\ Len(Catalog) \in Nat
    /\ \A i \in DOMAIN Catalog : DOMAIN Catalog[i] = {"name", "schema", "columns"}

\* The token at position i, "" when there is none.
At(a, i) == IF i \in DOMAIN a.toks THEN a.toks[i] ELSE ""

notAliasWords == {"WHERE", "ON", "USING", "JOIN", "SET", "VALUES", "GROUP", "LIMIT", "UNION",
                  "RETURNING", "SELECT", "FROM", "AS", "WITH", "LATERAL", "ONLY", "INTO",
                  "NOT", "IF", "TOP"}

isIdent(a, i) == At(a, i) \notin {"", "(", ")", ",", ".", "*"}
isNameIdent(a, i) == isIdent(a, i) /\ a.toks[i] \notin notAliasWords

\* The first position from i on whose token is none of the words.
Skip(a, i, words) == Min({j \in i .. Len(a.toks) : a.toks[j] \notin words} \cup {Max({i, Len(a.toks) + 1})})

----------------------------------------------------------------------------
(* Groups *)

\* The stack of open parentheses after token k; one too many ")" is ignored.
push(s, open, k) ==
    CASE s[k] = "(" -> Append(open, k)
      [] s[k] = ")" /\ open # <<>> -> Front(open)
      [] OTHER -> open

\* buildGroups: the stack before every token and at the end.
buildGroups(s) ==
    LET stack[i \in 1 .. Len(s) + 1] == IF i = 1 THEN <<>> ELSE push(s, stack[i - 1], i - 1)
    IN  [toks |-> s, stack |-> stack]

groupAt(a, i) == IF a.stack[i] = <<>> THEN 0 ELSE Last(a.stack[i])

\* The group a token is in; a ")" is in the group it returns to.
groupOf(a, i) == groupAt(a, IF a.toks[i] = ")" THEN i + 1 ELSE i)

\* Where the group opened at k ends: at the ")" that finds it on top, or with the text.
closeOf(a, k) ==
    Min({i \in k + 1 .. Len(a.toks) : a.toks[i] = ")" /\ groupAt(a, i) = k} \cup {Len(a.toks) + 1})

depthOf(a, g) == IF g = 0 THEN 0 ELSE Len(a.stack[g]) + 1

isAncestorOrSelf(a, h, g) == h \in {0, g} \/ (g # 0 /\ h \in ToSet(a.stack[g]))

identsInGroup(a, k) ==
    LET in == SelectSeq([j \in DOMAIN a.toks |-> j],
                        LAMBDA j : k < j /\ j < closeOf(a, k) /\ groupOf(a, j) = k /\ isIdent(a, j))
    IN  [i \in DOMAIN in |-> a.toks[in[i]]]

----------------------------------------------------------------------------
(* Relations *)

\* WITH a (x) AS [NOT] MATERIALIZED (...), b AS (...): what follows position i.
ctesFrom(a, i) ==
    LET more[j \in Nat] ==
            LET columns == At(a, j + 1) = "("
                as == IF columns THEN closeOf(a, j + 1) + 1 ELSE j + 1
                body == Skip(a, as + 1, {"NOT", "MATERIALIZED"})
                rest == closeOf(a, body) + 1
            IN  IF ~isIdent(a, j) \/ At(a, as) # "AS" \/ At(a, body) # "(" THEN <<>>
                ELSE <<[name |-> a.toks[j], body |-> body,
                        columns |-> IF columns THEN identsInGroup(a, j + 1) ELSE <<>>]>>
                     \o (IF At(a, rest) = "," THEN more[rest + 1] ELSE <<>>)
    IN  more[IF At(a, i) = "RECURSIVE" THEN i + 1 ELSE i]

collectCtes(a) == FlattenSeq([i \in DOMAIN a.toks |-> IF a.toks[i] = "WITH" THEN ctesFrom(a, i + 1) ELSE <<>>])

\* FROM of a relation, not of EXTRACT(x FROM y) or IS DISTINCT FROM.
isTableFrom(a, i) ==
    /\ At(a, i - 1) # "DISTINCT"
    /\ groupOf(a, i) = 0 \/ At(a, groupOf(a, i) - 1) \notin {"EXTRACT", "SUBSTRING", "TRIM"}

isRelationKeyword(a, i) ==
    \/ At(a, i) = "FROM" /\ isTableFrom(a, i)
    \/ At(a, i) = "USING" /\ At(a, i + 1) # "("
    \/ At(a, i) \in {"JOIN", "UPDATE", "INTO", "TABLE"}

isCreateTable(a, i) ==
    LET before == {j \in 1 .. i - 1 : a.toks[j] \notin {"TEMP", "OR", "REPLACE"}}
    IN  At(a, i) = "TABLE" /\ before # {} /\ a.toks[Max(before)] = "CREATE"

\* The position after a.b.c, whose first name is at j.
pathEnd(a, j) ==
    LET after[k \in Nat] == IF At(a, k) = "." /\ isIdent(a, k + 1) THEN after[k + 2] ELSE k
    IN  after[j + 1]

\* One item of a relation list and the position after it; the name is "" for a derived
\* table without an alias, and there is no item at all when ok is FALSE.
relationAt(a, kw, j) ==
    LET derived == At(a, j) = "("
        into == a.toks[kw] = "INTO"
        end == pathEnd(a, j)
        path == IF derived THEN <<>> ELSE [i \in 1 .. (end - j + 1) \div 2 |-> a.toks[j + 2 * (i - 1)]]
        function == ~derived /\ ~into /\ At(a, end) = "("
        k == IF derived THEN closeOf(a, j) + 1 ELSE IF function THEN closeOf(a, end) + 1 ELSE end
        as == At(a, k) = "AS"
        alias == CASE as -> (IF isIdent(a, k + 1) THEN a.toks[k + 1] ELSE "")
                   [] ~as /\ ~into /\ isNameIdent(a, k) -> a.toks[k]
                   [] OTHER -> ""
        m == k + (IF as THEN 1 ELSE 0) + (IF alias # "" THEN 1 ELSE 0)
        aliases == alias # "" /\ At(a, m) = "(" /\ (derived \/ function)
    IN  [ok |-> derived \/ isNameIdent(a, j),
         ref |-> [name |-> IF alias # "" THEN alias ELSE IF derived THEN "" ELSE Last(path),
                  path |-> path, group |-> groupOf(a, kw),
                  derived |-> IF derived THEN j ELSE 0, function |-> function,
                  columnAliases |-> IF aliases THEN identsInGroup(a, m) ELSE <<>>],
         next |-> IF aliases THEN closeOf(a, m) + 1 ELSE m]

parseRelationList(a, kw) ==
    LET items[j \in Nat] ==
            LET r == relationAt(a, kw, Skip(a, j, {"LATERAL", "ONLY", "IF", "NOT", "EXISTS"}))
            IN  IF j > Len(a.toks) \/ groupOf(a, j) # groupOf(a, kw) \/ ~r.ok THEN <<>>
                ELSE (IF r.ref.name = "" THEN <<>> ELSE <<r.ref>>)
                     \o (IF a.toks[kw] \in {"FROM", "USING"} /\ At(a, r.next) = ","
                         THEN items[r.next + 1] ELSE <<>>)
    IN  items[kw + 1]

collectRefs(a) ==
    FlattenSeq([i \in DOMAIN a.toks |-> IF isRelationKeyword(a, i) /\ ~isCreateTable(a, i)
                                   THEN parseRelationList(a, i) ELSE <<>>])

\* The Analyzer of a statement: its groups, its CTEs and its references.
Analyzer(s) ==
    LET a == buildGroups(s)
    IN  [toks |-> s, stack |-> a.stack, ctes |-> collectCtes(a), refs |-> collectRefs(a)]

Named(list, name) == SelectSeq(list, LAMBDA r : r.name = name)

\* The catalog's relation a path means, 0 for none: the default schema's before one
\* without a schema before the others, and the first of equals.
findRelation(path) ==
    LET fits(i) == /\ Catalog[i].name = Last(path)
                   /\ Len(path) = 1 \/ (Len(path) = 2 /\ Catalog[i].schema = path[1])
        rank(i) == IF Catalog[i].schema = DefaultSchema THEN 4
                   ELSE IF Catalog[i].schema = "" THEN 2 ELSE 0
        found == {i \in DOMAIN Catalog : fits(i)}
    IN  IF path = <<>> \/ found = {} THEN 0
        ELSE Min({i \in found : \A j \in found : rank(j) <= rank(i)})

\* visibleRefs: those of the enclosing groups, nearest scope first.
visibleRefs(a, g) ==
    LET visible == SelectSeq(a.refs, LAMBDA r : isAncestorOrSelf(a, r.group, g))
        at(depth) == SelectSeq(visible, LAMBDA r : depthOf(a, r.group) = depth)
    IN  FlattenSeq([i \in 1 .. Len(a.toks) + 1 |-> at(Len(a.toks) + 1 - i)])

\* The last of the nearest, not the first.
findRefLast(a, name, g) ==
    FoldLeft(LAMBDA best, r : IF r.name = name /\ isAncestorOrSelf(a, r.group, g)
                                 /\ (best = <<>> \/ depthOf(a, r.group) >= depthOf(a, best[1].group))
                              THEN <<r>> ELSE best,
             <<>>, a.refs)

\* The closest visible reference of that name, in a sequence of at most one.
findRef(a, name, g) ==
    FoldLeft(LAMBDA best, r : IF r.name = name /\ isAncestorOrSelf(a, r.group, g)
                                 /\ (best = <<>> \/ depthOf(a, r.group) > depthOf(a, best[1].group))
                              THEN <<r>> ELSE best,
             <<>>, a.refs)

findRefIn(a, name, g) ==
    LET own == SelectSeq(a.refs, LAMBDA r : r.group = g /\ r.name = name)
    IN  IF own # <<>> THEN <<own[1]>> ELSE findRef(a, name, g)

----------------------------------------------------------------------------
(* Columns *)

tableColumns(i) == [k \in DOMAIN Catalog[i].columns |-> [name |-> Catalog[i].columns[k], of |-> i]]

applyAliases(cols, aliases) ==
    [k \in 1 .. Max({Len(cols), Len(aliases)}) |->
        IF k <= Len(aliases) THEN [name |-> aliases[k], of |-> 0] ELSE cols[k]]

\* The first column of that name, in a sequence of at most one.
columnIn(cols, name) ==
    LET found == SelectSeq(cols, LAMBDA c : c.name = name)
    IN  IF found = <<>> THEN <<>> ELSE <<found[1]>>

SelectEnds == {"FROM", "INTO", "WHERE", "GROUP", "ORDER", "LIMIT", "UNION"}

\* The select list from k on: its items, each the positions of its elements, where a
\* parenthesis is one element.
selectItems(a, k, end) ==
    LET from[j \in Nat, item \in Seq(Nat)] ==
            CASE j >= end -> <<item>>
              [] j < end /\ At(a, j) \in SelectEnds -> <<item>>
              [] j < end /\ At(a, j) = "," -> <<item>> \o from[j + 1, <<>>]
              [] j < end /\ At(a, j) = "(" -> from[closeOf(a, j) + 1, Append(item, j)]
              [] OTHER -> from[j + 1, Append(item, j)]
    IN  from[k, <<>>]

RECURSIVE selectColumns(_, _, _)
RECURSIVE refColumns(_, _, _)

cteColumns(a, c, depth) == applyAliases(selectColumns(a, c.body, depth + 1), c.columns)

\* The columns of a reference: of its subquery, of a CTE, of a table; the depth ends
\* the recursion of a CTE that selects from itself.
refColumns(a, r, depth) ==
    LET cte == IF Len(r.path) = 1 THEN Named(a.ctes, r.path[1]) ELSE <<>>
        cols == CASE r.derived # 0 -> selectColumns(a, r.derived, depth + 1)
                  [] r.derived = 0 /\ ~r.function /\ cte # <<>> -> cteColumns(a, cte[1], depth)
                  [] r.derived = 0 /\ ~r.function /\ cte = <<>> /\ findRelation(r.path) # 0 ->
                        tableColumns(findRelation(r.path))
                  [] OTHER -> <<>>
    IN  IF depth > 6 THEN <<>> ELSE applyAliases(cols, r.columnAliases)

\* What one item of a select list is called, and its column when it has one.
deriveItem(a, item, g, depth) ==
    LET n == Len(item)
        last == item[n]
        of(refs) == FlattenSeq([i \in DOMAIN refs |-> refColumns(a, refs[i], depth + 1)])
        own == SelectSeq(a.refs, LAMBDA r : r.group = g)
        owner == IF n >= 3 THEN findRefIn(a, a.toks[item[n - 2]], g) ELSE IF n = 1 THEN own ELSE <<>>
        qualified == n % 2 = 1 /\ \A i \in 1 .. n :
                        IF i % 2 = 1 THEN isIdent(a, item[i]) ELSE a.toks[item[i]] = "."
        column(r) == columnIn(refColumns(a, r, depth + 1), a.toks[last])
        known == SelectSeq(FlattenSeq([i \in DOMAIN owner |-> column(owner[i])]), LAMBDA c : c.of # 0)
        plain == <<[name |-> a.toks[last], of |-> 0]>>
    IN  CASE n = 0 -> <<>>
          [] n = 1 /\ a.toks[last] = "*" -> of(own)
          [] n >= 3 /\ a.toks[last] = "*" /\ a.toks[item[n - 1]] = "." /\ isIdent(a, item[n - 2]) -> of(owner)
          [] isIdent(a, last) /\ n >= 2 /\ a.toks[item[n - 1]] = "AS" -> plain
          [] isIdent(a, last) /\ qualified -> IF known # <<>> THEN <<known[1]>> ELSE plain
          [] isNameIdent(a, last) /\ n >= 2 /\ ~qualified /\ a.toks[item[n - 1]] \notin {".", "*", "AS"} -> plain
          [] OTHER -> <<>>

selectColumns(a, g, depth) ==
    LET end == closeOf(a, g)
        selects == {k \in g + 1 .. end - 1 : a.toks[k] = "SELECT" /\ groupOf(a, k) = g}
        items == selectItems(a, Skip(a, Min(selects) + 1, {"DISTINCT", "ALL"}), end)
    IN  IF depth > 6 \/ selects = {} THEN <<>>
        ELSE FlattenSeq([i \in DOMAIN items |-> deriveItem(a, items[i], g, depth)])

----------------------------------------------------------------------------
(* Context *)

\* a.b. before position i: the names, and where the first one is.
qualifierBefore(a, i) ==
    LET back[j \in Nat] ==
            IF j > 2 /\ a.toks[j - 1] = "." /\ isIdent(a, j - 2) THEN back[j - 2] ELSE j
        start == back[i]
    IN  [start |-> start, path |-> [k \in 1 .. (i - start) \div 2 |-> a.toks[start + 2 * (k - 1)]]]

\* The commas of a list do not make room for another name.
slotEmptyOnce(a, kw, start) ==
    Skip(a, kw + 1, {"LATERAL", "ONLY", "IF", "NOT", "EXISTS"}) >= start

\* Nothing but the start of a name between the keyword and start.
relationSlotEmpty(a, kw, start) ==
    LET count[k \in Nat, n \in Nat] ==
            CASE k >= start -> n
              [] k < start /\ a.toks[k] = "(" -> count[closeOf(a, k) + 1, n + 1]
              [] k < start /\ a.toks[k] = "," /\ a.toks[kw] \in {"FROM", "USING"} -> count[k + 1, 0]
              [] k < start /\ a.toks[k] \in {"LATERAL", "ONLY", "IF", "NOT", "EXISTS"} -> count[k + 1, n]
              [] OTHER -> count[k + 1, n + 1]
    IN  count[kw + 1, 0] = 0

Context(kind) == [kind |-> kind, target |-> <<>>]

\* What the first parenthesis the walk leaves says: INSERT INTO t (, CREATE ... ON t (.
targetAt(a, k) ==
    LET q == qualifierBefore(a, k - 1)
    IN  CASE isIdent(a, k - 1) /\ (\/ At(a, q.start - 1) = "INTO"
                                   \/ At(a, q.start - 1) = "ON" /\ a.toks[1] = "CREATE") ->
                <<[kind |-> "TargetColumns", target |-> Append(q.path, a.toks[k - 1])]>>
          [] At(a, k - 1) = "USING" -> <<Context("Column")>>
          [] OTHER -> <<>>

\* Back from start to the keyword that decides what belongs there; closed
\* parentheses are passed over (depth), the first open one is looked at (crossed).
detectContext(a, start) ==
    LET back[k \in Nat, depth \in Nat, crossed \in BOOLEAN] ==
            CASE k = 0 -> Context(IF crossed \/ start > 1 THEN "Keyword" ELSE "StatementStart")
              [] k > 0 /\ At(a, k) = ")" -> back[k - 1, depth + 1, crossed]
              [] k > 0 /\ At(a, k) = "(" /\ depth > 0 -> back[k - 1, depth - 1, crossed]
              [] k > 0 /\ At(a, k) = "(" /\ depth = 0 ->
                    IF ~crossed /\ targetAt(a, k) # <<>> THEN targetAt(a, k)[1]
                    ELSE back[k - 1, depth, TRUE]
              [] k > 0 /\ depth = 0 /\ isRelationKeyword(a, k) ->
                    Context(IF isCreateTable(a, k) THEN "None"
                            ELSE IF crossed THEN "Keyword"
                            ELSE IF relationSlotEmpty(a, k, start) THEN "Relation"
                            ELSE "AfterRelation")
              [] k > 0 /\ depth = 0 /\ At(a, k) \in {"SELECT", "WHERE", "ON", "BY", "SET",
                                                  "RETURNING", "VALUES"} -> Context("Column")
              [] k > 0 /\ depth = 0 /\ At(a, k) \in {"LIMIT", "OFFSET", "TOP"} -> Context("Keyword")
              [] OTHER -> back[k - 1, depth, crossed]
        g == groupOf(a, start - 1)
        keyword == (g > 0 /\ At(a, g - 1) \in {"CAST", "TRY_CAST"}) \/ a.toks[1] \in {"CREATE", "ALTER"}
    IN  IF start > 1 /\ At(a, start - 1) = "AS" THEN Context(IF keyword THEN "Keyword" ELSE "None")
        ELSE back[start - 1, 0, FALSE]

----------------------------------------------------------------------------
(* complete() and resolveIdentifierAt() *)

\* One reference for each name, the first.
FirstNamed(refs) ==
    SelectSeq([i \in DOMAIN refs |-> [ref |-> refs[i], first |-> \A j \in 1 .. i - 1 : refs[j].name # refs[i].name]],
              LAMBDA x : x.first)

NamesOf(cols) == {cols[i].name : i \in DOMAIN cols}

\* The columns complete() offers after the last token, by name.
complete(a) ==
    LET cursor == Len(a.toks) + 1
        q == qualifierBefore(a, cursor)
        ctx == detectContext(a, q.start)
        g == groupAt(a, cursor)
        ref == findRef(a, q.path[1], g)
        cte == Named(a.ctes, IF q.path = <<>> THEN "" ELSE q.path[1])
        target == Named(a.ctes, IF ctx.target = <<>> THEN "" ELSE ctx.target[1])
        visible == FirstNamed(visibleRefs(a, g))
        ofTable(path) == IF findRelation(path) = 0 THEN <<>> ELSE tableColumns(findRelation(path))
    IN  CASE q.path # <<>> /\ ctx.kind \in {"Relation", "AfterRelation"} -> {}
          [] Len(q.path) = 1 /\ ref # <<>> /\ ctx.kind \notin {"Relation", "AfterRelation"} ->
                NamesOf(refColumns(a, ref[1], 0))
          [] Len(q.path) = 1 /\ ref = <<>> /\ cte # <<>> /\ ctx.kind \notin {"Relation", "AfterRelation"} ->
                NamesOf(cteColumns(a, cte[1], 0))
          [] q.path # <<>> /\ ctx.kind \notin {"Relation", "AfterRelation"} -> NamesOf(ofTable(q.path))
          [] q.path = <<>> /\ ctx.kind = "TargetColumns" ->
                NamesOf(IF Len(ctx.target) = 1 /\ target # <<>> /\ cteColumns(a, target[1], 0) # <<>>
                        THEN cteColumns(a, target[1], 0) ELSE ofTable(ctx.target))
          [] q.path = <<>> /\ ctx.kind = "Column" ->
                UNION {NamesOf(refColumns(a, visible[i].ref, 0)) : i \in DOMAIN visible}
          [] OTHER -> {}

\* Like bareColumn, in the identifier's own group only.
bareColumnOwn(a, name, g) ==
    LET refs == SelectSeq(a.refs, LAMBDA r : r.group = g)
    IN  FlattenSeq([i \in DOMAIN refs |-> columnIn(refColumns(a, refs[i], 0), name)])

\* asColumn: the column of the nearest visible reference that has one of that name.
bareColumn(a, name, g) ==
    LET refs == visibleRefs(a, g)
    IN  FlattenSeq([i \in DOMAIN refs |-> columnIn(refColumns(a, refs[i], 0), name)])

Found(kind, of) == <<[kind |-> kind, of |-> of]>>
FirstOf(attempts) == LET found == FlattenSeq(attempts) IN IF found = <<>> THEN <<>> ELSE <<found[1]>>

\* The table a reference points to, or an alias when that is not one of the catalog.
describeRef(a, r) ==
    IF r.derived = 0 /\ ~r.function /\ findRelation(r.path) # 0
         /\ ~(Len(r.path) = 1 /\ Named(a.ctes, r.path[1]) # <<>>)
    THEN Found("Table", findRelation(r.path)) ELSE Found("Alias", 0)

\* What the identifier at position i is: the first attempt that finds something.
resolveIdentifierAt(a, i) ==
    LET name == a.toks[i]
        q == qualifierBefore(a, i)
        g == groupOf(a, i)
        ctx == detectContext(a, i)
        ref(n) == findRef(a, n, g)
        cte(n) == Named(a.ctes, n)
        column(cols) == LET c == columnIn(cols, name) IN IF c = <<>> THEN <<>> ELSE Found("Column", c[1].of)
        tableColumn(path) == IF findRelation(path) = 0 THEN <<>> ELSE column(tableColumns(findRelation(path)))
        relation(path) == IF findRelation(path) = 0 THEN <<>> ELSE Found("Table", findRelation(path))
        asRef == IF ref(name) = <<>> THEN <<>> ELSE describeRef(a, ref(name)[1])
        asCte == IF cte(name) = <<>> THEN <<>> ELSE Found("Alias", 0)
        asSchema == IF \E k \in DOMAIN Catalog : Catalog[k].schema = name THEN Found("Schema", 0) ELSE <<>>
        asColumn == IF ctx.kind = "TargetColumns" THEN tableColumn(ctx.target)
                    ELSE column(bareColumn(a, name, g))
        one == Len(q.path) = 1
    IN  CASE q.path # <<>> ->
                FirstOf(<<IF one /\ ref(q.path[1]) # <<>>
                          THEN column(refColumns(a, ref(q.path[1])[1], 0)) ELSE <<>>,
                          IF one /\ cte(q.path[1]) # <<>>
                          THEN column(cteColumns(a, cte(q.path[1])[1], 0)) ELSE <<>>,
                          tableColumn(q.path),
                          relation(Append(q.path, name))>>)
          [] q.path = <<>> /\ ctx.kind = "Relation" ->
                FirstOf(IF At(a, i + 1) = "." THEN <<asCte, asSchema, relation(<<name>>)>>
                        ELSE <<asCte, relation(<<name>>), asSchema>>)
          [] q.path = <<>> /\ ctx.kind # "Relation" /\ At(a, i + 1) = "." ->
                FirstOf(<<asRef, asCte, relation(<<name>>), asSchema>>)
          [] q.path = <<>> /\ ctx.kind = "AfterRelation" /\ At(a, i + 1) # "." ->
                FirstOf(<<asRef, relation(<<name>>), asCte>>)
          [] OTHER -> FirstOf(<<asColumn, asRef, asCte, relation(<<name>>), asSchema>>)
=============================================================================
