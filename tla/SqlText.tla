------------------------------ MODULE SqlText ------------------------------
(***************************************************************************)
(* The SQL tokenizer of src/completion.cpp and what is built on it alone:  *)
(* the statements of a text, the statement at a cursor, whether a cursor   *)
(* is inside a literal or comment, and quoting a name.                     *)
(*                                                                         *)
(* A text is a sequence of characters.  Positions count from 1 and a       *)
(* token is [begin, end): end is the position after its last character.    *)
(***************************************************************************)
EXTENDS Naturals, Sequences, FiniteSetsExt, SequencesExt

Letters == {"a", "A"}
Digits == {"1"}
Spaces == {" ", "newline"}
isIdentStartByte(c) == c \in Letters \cup {"_"}
isIdentByte(c) == c \in Letters \cup Digits \cup {"_", "$"}

Types == {"postgres", "mysql", "mssql", "sqlite", "oracle"}

dialectFor(type) ==
    [backtickIdent    |-> type \in {"mysql", "sqlite"},
     bracketIdent     |-> type \in {"mssql", "sqlite"},
     doubleQuoteIdent |-> type # "mysql",
     dollarQuote      |-> type = "postgres",
     hashComment      |-> type = "mysql",
     backslashEscape  |-> type = "mysql",
     hashIdent        |-> type = "mssql"]

----------------------------------------------------------------------------
(* tokenize *)

Ch(s, i) == IF i \in DOMAIN s THEN s[i] ELSE ""

\* The first position from i on where P holds, or the end of the text.
First(s, i, P(_)) == Min({j \in i .. Len(s) : P(j)} \cup {Len(s) + 1})

\* Is w at position j of s?
Occurs(s, w, j) == j + Len(w) - 1 <= Len(s) /\ SubSeq(s, j, j + Len(w) - 1) = w

Tok(kind, i, end, closed, text) ==
    [kind |-> kind, begin |-> i, end |-> end, closed |-> closed, text |-> text]

\* The closing character ends it unless it is doubled or, with backslash, escaped.
scanQuoted(s, i, kind, close, backslash) ==
    LET scan[j \in 1 .. Len(s) + 1, text \in Seq(STRING)] ==
            CASE j > Len(s) -> Tok(kind, i, j, FALSE, text)
              [] j < Len(s) /\ ((backslash /\ s[j] = "backslash") \/ (s[j] = close /\ s[j + 1] = close)) ->
                    scan[j + 2, Append(text, s[j + 1])]
              [] s[j] = close /\ Ch(s, j + 1) # close -> Tok(kind, i, j + 1, TRUE, text)
              [] OTHER -> scan[j + 1, Append(text, s[j])]
    IN  scan[i + 1, <<>>]

\* Like Until, with the mark that opened the token taken for part of the one that ends it.
UntilOverlapping(s, i, kind, w, j) ==
    LET e == First(s, j - 1, LAMBDA k : Occurs(s, w, k))
        closed == e <= Len(s)
    IN  Tok(kind, i, IF closed THEN e + Len(w) ELSE Len(s) + 1, closed, <<>>)

\* A token that ends after the first w from j on, or with the text.
Until(s, i, kind, w, j) ==
    LET e == First(s, j, LAMBDA k : Occurs(s, w, k))
        closed == e <= Len(s)
    IN  Tok(kind, i, IF closed THEN e + Len(w) ELSE Len(s) + 1, closed, <<>>)

\* $tag$ ... $tag$, where i is at the first dollar; otherwise that dollar is an operator.
dollarQuoted(s, i) ==
    LET k == First(s, i + 1, LAMBDA j : s[j] = "$" \/ ~isIdentByte(s[j]))
    IN  IF Ch(s, k) = "$"
        THEN Until(s, i, "string", SubSeq(s, i, k), k + 1)
        ELSE Tok("op", i, i + 1, TRUE, <<"$">>)

startsNumber(s, i) ==
    \/ s[i] \in Digits
    \/ /\ s[i] = "." /\ Ch(s, i + 1) \in Digits
       /\ i = 1 \/ ~(isIdentByte(s[i - 1]) \/ s[i - 1] \in {"dquote", "backtick", "]", ")"})

startsParam(s, i) ==
    \/ s[i] \in {"@", "?"}
    \/ s[i] = ":" /\ isIdentStartByte(Ch(s, i + 1)) /\ (i = 1 \/ s[i - 1] # ":")
    \/ s[i] = "$" /\ Ch(s, i + 1) \in Digits

\* The token at position i, which is not a space; the exponents of numbers are left out.
tokenAt(s, i, d) ==
    LET c == s[i]
        next == Ch(s, i + 1)
        while(kind, P(_)) ==
            LET k == First(s, i + 1, LAMBDA j : ~P(s[j]))
            IN  Tok(kind, i, k, TRUE, SubSeq(s, i, k - 1))
    IN  CASE (c = "-" /\ next = "-") \/ (c = "#" /\ d.hashComment) -> while("line", LAMBDA x : x # "newline")
          [] c = "/" /\ next = "*" -> Until(s, i, "comment", <<"*", "/">>, i + 2)
          [] c = "'" -> scanQuoted(s, i, "string", "'", d.backslashEscape)
          [] c = "dquote" ->
                IF d.doubleQuoteIdent THEN scanQuoted(s, i, "quotedIdent", "dquote", FALSE)
                ELSE scanQuoted(s, i, "string", "dquote", d.backslashEscape)
          [] c = "backtick" /\ d.backtickIdent -> scanQuoted(s, i, "quotedIdent", "backtick", FALSE)
          [] c = "[" /\ d.bracketIdent -> scanQuoted(s, i, "quotedIdent", "]", FALSE)
          [] c = "$" /\ d.dollarQuote /\ (next = "$" \/ isIdentStartByte(next)) -> dollarQuoted(s, i)
          [] startsNumber(s, i) -> while("number", LAMBDA x : x \in Letters \cup Digits \cup {"_", "."})
          [] isIdentStartByte(c) \/ (c = "#" /\ d.hashIdent) ->
                while("word", LAMBDA x : isIdentByte(x) \/ (d.hashIdent /\ x = "#"))
          [] startsParam(s, i) -> while("param", LAMBDA x : x = "@" \/ isIdentByte(x))
          [] c \in {"(", ")", ",", ";"} \/ (c = "." /\ ~startsNumber(s, i)) ->
                Tok("punct", i, i + 1, TRUE, <<c>>)
          [] OTHER -> Tok("op", i, i + 1, TRUE, <<c>>)

tokenize(s, d) ==
    LET from[i \in 1 .. Len(s) + 1] ==
            CASE i > Len(s) -> <<>>
              [] i <= Len(s) /\ Ch(s, i) \in Spaces -> from[i + 1]
              [] OTHER -> LET t == tokenAt(s, i, d) IN <<t>> \o from[t.end]
    IN  from[1]

isSeparator(t) == t.kind = "punct" /\ t.text = <<";">>
isComment(t) == t.kind \in {"line", "comment"}

----------------------------------------------------------------------------
(* Statements *)

\* The tokens between the last separator that ends at or before the cursor and the next
\* one; a cursor o is before position o.
statementAt(toks, o, n) ==
    LET seps == {i \in DOMAIN toks : isSeparator(toks[i])}
        before == {i \in seps : toks[i].end <= o}
    IN  [begin |-> Max({1} \cup {toks[i].end : i \in before}),
         end |-> Min({n + 1} \cup {toks[i].begin : i \in seps \ before})]

\* Of the text s with the tokens toks, without the spaces around it.
statementRangeAt(s, toks, o) ==
    LET span == statementAt(toks, o, Len(s))
        black == {j \in span.begin .. span.end - 1 : s[j] \notin Spaces}
    IN  IF black = {} THEN [begin |-> span.end, end |-> span.end]
        ELSE [begin |-> Min(black), end |-> Max(black) + 1]

\* Like extend, without the flush at a separator.
extendUnflushed(acc, t) ==
    CASE isSeparator(t) \/ isComment(t) -> acc
      [] OTHER -> IF acc.open
                  THEN [acc EXCEPT !.out = Append(Front(@), [Last(@) EXCEPT !.end = t.end])]
                  ELSE [open |-> TRUE, out |-> Append(acc.out, [begin |-> t.begin, end |-> t.end])]

\* A token extends the statement that is open, or opens one; comments do neither.
extend(acc, t) ==
    CASE isSeparator(t) -> [acc EXCEPT !.open = FALSE]
      [] isComment(t) -> acc
      [] OTHER -> IF acc.open
                  THEN [acc EXCEPT !.out = Append(Front(@), [Last(@) EXCEPT !.end = t.end])]
                  ELSE [open |-> TRUE, out |-> Append(acc.out, [begin |-> t.begin, end |-> t.end])]

statementRanges(toks) == FoldLeft(extend, [open |-> FALSE, out |-> <<>>], toks).out

\* complete() offers nothing at a cursor inside a literal, comment, number or parameter.
insideLiteral(toks, o) ==
    \E i \in DOMAIN toks :
        LET t == toks[i]
        IN  /\ t.begin < o
            /\ CASE t.kind = "comment" \/ t.kind = "string" -> o < t.end \/ ~t.closed
                 [] t.kind \in {"line", "number", "param"} -> o <= t.end
                 [] OTHER -> FALSE

----------------------------------------------------------------------------
(* Names *)

\* The builders: an identifier in quotes, its closing quote doubled.
quoteIdentifier(name, type) ==
    LET open == IF type = "mysql" THEN "backtick" ELSE IF type = "mssql" THEN "[" ELSE "dquote"
        close == IF type = "mssql" THEN "]" ELSE open
        double(c) == IF c = close THEN <<c, c>> ELSE <<c>>
    IN  <<open>> \o FlattenSeq([i \in DOMAIN name |-> double(name[i])]) \o <<close>>

\* Without looking at the case of the letters.
needsQuotingAnyCase(name, type) ==
    \/ name = <<>>
    \/ ~isIdentStartByte(name[1])
    \/ \E i \in DOMAIN name : name[i] \notin Letters \cup Digits \cup {"_"}

\* A name the server would read as another one or as several; reserved words are left out.
identifierNeedsQuoting(name, type) ==
    \/ name = <<>>
    \/ ~isIdentStartByte(name[1])
    \/ \E i \in DOMAIN name :
        \/ name[i] \notin Letters \cup Digits \cup {"_"}
        \/ type = "postgres" /\ name[i] = "A"
        \/ type = "oracle" /\ name[i] = "a"

quoteIdentifierIfNeeded(name, type) ==
    IF identifierNeedsQuoting(name, type) THEN quoteIdentifier(name, type) ELSE name

----------------------------------------------------------------------------
(***************************************************************************)
(* Reference: the same text read one character at a time.  A mode is what  *)
(* the characters so far have opened: "code", a closing quote, "line",     *)
(* "block"; "-", "/", "*" and "backslash" are halves of two-character marks and   *)
(* "]?" is a bracket that may be doubled.  Dollar quotes are not covered.  *)
(***************************************************************************)
InCode(c, d) ==
    CASE c = "'" -> "'"
      [] c = "dquote" -> "dquote"
      [] c = "backtick" /\ d.backtickIdent -> "backtick"
      [] c = "[" /\ d.bracketIdent -> "]"
      [] c = "#" /\ d.hashComment -> "line"
      [] c \in {"-", "/"} -> c
      [] OTHER -> "code"

Escapes(m, d) == d.backslashEscape /\ m \in {"'", "dquote"}

ModeStep(m, c, d) ==
    CASE m = "line" -> IF c = "newline" THEN "code" ELSE "line"
      [] m \in {"block", "*"} -> IF m = "*" /\ c = "/" THEN "code" ELSE IF c = "*" THEN "*" ELSE "block"
      [] m \in {"'", "dquote", "backtick"} ->
            IF c = m THEN "code" ELSE IF c = "backslash" /\ Escapes(m, d) THEN (IF m = "'" THEN "escaped '" ELSE "escaped dquote") ELSE m
      [] m \in {"escaped '", "escaped dquote"} -> IF m = "escaped '" THEN "'" ELSE "dquote"
      [] m = "]" -> IF c = "]" THEN "]?" ELSE "]"
      [] m = "]?" /\ c = "]" -> "]"
      [] m = "-" /\ c = "-" -> "line"
      [] m = "/" /\ c = "*" -> "block"
      [] OTHER -> InCode(c, d)

\* The mode before position i.
ModeAt(s, i, d) == FoldLeft(LAMBDA m, c : ModeStep(m, c, d), "code", SubSeq(s, 1, i - 1))

Open == {"'", "dquote", "backtick", "]", "escaped '", "escaped dquote", "line", "block", "*"}
=============================================================================
