---------------------------- MODULE MCSqlEditor ----------------------------
(***************************************************************************)
(* The texts an editor hands to src/completion.cpp: every text of up to    *)
(* MaxChars characters in each dialect, and every continuation by up to    *)
(* MaxTokens tokens of some beginnings of a statement.                     *)
(***************************************************************************)
EXTENDS SqlText, SqlScopes

CONSTANTS
    MaxChars,   \* characters typed
    MaxTokens   \* tokens typed after a beginning

VARIABLES
    type, text, tokens,     \* a dialect, a text and tokenize() of it
    seed, toks, analyzer    \* a beginning, the tokens of a statement and its Analyzer

vars == <<type, text, tokens, seed, toks, analyzer>>

d == dialectFor(type)

MCCatalog == << [name |-> "a", schema |-> "s", columns |-> <<"x">>],
                [name |-> "a", schema |-> "p", columns |-> <<"x", "y">>],
                [name |-> "b", schema |-> "p", columns |-> <<"z">>] >>

Characters(t) ==
    CASE t = "postgres" -> {"'", "dquote", "$", "A", ";", "-", "newline"}
      [] t = "mysql" -> {"'", "backslash", "backtick", "#", "a", ";", "newline"}
      [] t = "mssql" -> {"[", "]", "#", "a", ";", "/", "*"}
      [] t = "sqlite" -> {"backtick", "[", "]", "dquote", ";", " "}
      [] t = "oracle" -> {"dquote", "a", "A", "1", ".", ";"}

Beginnings == << << >>,
                 <<"FROM", "(", "SELECT", "*", "FROM">>,
                 <<"WITH", "b", "AS", "(", "SELECT", "*", "FROM">>,
                 <<"FROM", "a", "WHERE", "(", "SELECT">>,
                 <<"INTO", "a">> >>

Words(k) == CASE k = 1 -> {"(", ")", ",", "FROM", "a"}
              [] k = 2 -> {"a", ")", "b", ".", ",", "WHERE"}
              [] k = 3 -> {"a", ")", "b", "FROM", "WHERE"}
              [] k = 4 -> {"b", ")", "FROM", "a", ".", "WHERE"}
              [] k = 5 -> {"(", ")", "AS", "b", "JOIN"}

Init ==
    /\ text = <<>>
    /\ tokens = <<>>
    /\ \/ type \in Types /\ seed = 0 /\ toks = <<>>
       \/ type = "postgres" /\ seed \in DOMAIN Beginnings /\ toks = Beginnings[seed]
    /\ analyzer = Analyzer(toks)

TypeCharacter ==
    /\ seed = 0
    /\ Len(text) < MaxChars
    /\ \E c \in Characters(type) : text' = Append(text, c)
    /\ tokens' = tokenize(text', d)
    /\ UNCHANGED <<type, seed, toks, analyzer>>

TypeToken ==
    /\ seed # 0
    /\ Len(toks) < Len(Beginnings[seed]) + MaxTokens
    /\ \E w \in Words(seed) : toks' = Append(toks, w)
    /\ analyzer' = Analyzer(toks')
    /\ UNCHANGED <<type, text, tokens, seed>>

Next == TypeCharacter \/ TypeToken
Spec == Init /\ [][Next]_vars

----------------------------------------------------------------------------
\* Where a literal or comment may be typed; in MySQL also between double quotes.
Quiet == {"'", "escaped '", "line", "block", "*"}
           \cup (IF type = "mysql" THEN {"dquote", "escaped dquote"} ELSE {})

\* tokenize() agrees with a reader of the text, one character at a time: a statement
\* separator is found exactly outside every string, quoted name and comment (a missed one
\* runs two statements as one, an invented one cuts a literal in two), and complete() is
\* quiet inside every string and comment, closed or not.
LiteralsAgree ==
    "$" \notin ToSet(text) =>
        /\ {tokens[i].begin : i \in {k \in DOMAIN tokens : isSeparator(tokens[k])}}
             = {j \in DOMAIN text : text[j] = ";" /\ ModeAt(text, j, d) \notin Open}
        /\ \A o \in 1 .. Len(text) + 1 : ModeAt(text, o, d) \in Quiet => insideLiteral(tokens, o)

\* statementRanges() (the gutter's statements) and statementRangeAt() (the one the cursor
\* runs) agree: the statement at the cursor covers the range the cursor is in, and
\* never a part of a range or two ranges.
OneStatementAtCursor ==
    LET ranges == ToSet(statementRanges(tokens))
        black(r) == {j \in r.begin .. r.end - 1 : text[j] \notin Spaces}
    IN  \A o \in 1 .. Len(text) + 1 :
            LET at == black(statementRangeAt(text, tokens, o))
            IN  \A r \in ranges :
                  /\ r.begin <= o /\ o <= r.end => black(r) \subseteq at
                  /\ black(r) \subseteq at \/ black(r) \cap at = {}
                  /\ black(r) \subseteq at => \A q \in ranges \ {r} : black(q) \cap at = {}

\* What the server makes of a name without quotes.
Fold(c) == CASE type = "postgres" /\ c = "A" -> "a"
             [] type = "oracle" /\ c = "a" -> "A"
             [] OTHER -> c

\* Any name, written by quoteIdentifierIfNeeded() and read back by the tokenizer of the same
\* dialect, is one closed token that means this name: neither its quotes, nor the
\* closing brackets, nor the case folding of the server change it.
NamesReadBack ==
    LET read == tokenize(quoteIdentifierIfNeeded(text, type), d)
    IN  /\ Len(read) = 1
        /\ read[1].closed
        /\ \/ read[1].kind = "quotedIdent" /\ read[1].text = text
           \/ read[1].kind = "word" /\ [i \in DOMAIN read[1].text |-> Fold(read[1].text[i])] = text

\* findRef(), which looks for the reference of a name in the order of the text, and
\* visibleRefs(), which sorts the references by depth, agree on the nearest one: what is
\* offered for an alias is what the alias resolves to.
NearestWins ==
    \A i \in DOMAIN toks : isIdent(analyzer, i) =>
        LET g == groupOf(analyzer, i)
            visible == Named(visibleRefs(analyzer, g), toks[i])
        IN  findRef(analyzer, toks[i], g) = (IF visible = <<>> THEN <<>> ELSE <<visible[1]>>)

NewName == "n"

\* Where a new name would be read as a relation by parseRelationList(), which goes forward
\* from the keyword, detectContext(), which goes back from the cursor, offers relations.
\* Only texts where a name follows every dot: parseRelationList() takes a keyword after a
\* dot for a part of the path, detectContext() does not.
RelationSlots ==
    (/\ \E r \in ToSet(Analyzer(Append(toks, NewName)).refs) : r.path = <<NewName>>
     /\ \A i \in DOMAIN toks : toks[i] = "." => isNameIdent(analyzer, i + 1))
    => detectContext(analyzer, Len(toks) + 1).kind = "Relation"

\* A column complete() offers at the cursor, once accepted, is a column to
\* resolveIdentifierAt() at the same place.  (Not so for the columns of a CTE offered as the
\* target of INSERT INTO, which the beginnings leave out.)
OfferedResolves ==
    \A c \in complete(analyzer) :
        \E found \in ToSet(resolveIdentifierAt(Analyzer(Append(toks, c)), Len(toks) + 1)) :
            found.kind = "Column"
=============================================================================
