---------------------------- MODULE QueryParser ----------------------------
(***************************************************************************)
(* ql/internal: from the text of a query to its tree.  The text is a        *)
(* sequence of the words that text/scanner finds in it.  The parser is the  *)
(* one goyacc generated from parser.y: the loop over its tables, and what   *)
(* its reductions build.                                                    *)
(***************************************************************************)
EXTENDS QueryAst, SequencesExt

CONSTANT yyInitialStackSize \* length of the array that Parse reads back

\* The words of a query, as scanner.Scanner classifies them.
Word(s) == [k |-> "Ident", s |-> s]
Quoted(s) == [k |-> "String", s |-> s]
Digits(n) == [k |-> "Int", n |-> n]
Sign(s) == [k |-> "sign", s |-> s]

\* Tokens in the internal numbering of the parser.
END == 1
UNK == 3
NUMBER == 5
IDENT == 6
QUOTED == 7
NOT == 8
DUR == 16

Signs ==
  "(" :> 4 @@ "<" :> 19 @@ ">" :> 20 @@ "~" :> 21 @@ "," :> 22 @@ ")" :> 23 @@
  "<>" :> 12 @@ "!=" :> 12 @@ "!" :> NOT @@ ":" :> 11 @@ "=" :> 11

Keywords ==
  "NOT" :> NOT @@ "AND" :> 9 @@ "OR" :> 10 @@ "ORDER" :> 13 @@ "BY" :> 14 @@
  "LIMIT" :> 15 @@ "ASC" :> 17 @@ "DESC" :> 18

Units == {"w", "d", "h", "m", "s"}

\* Mutant of ident: a unit is a unit after any word.
identAnywhere(s, prevTok) ==
  IF s \in DOMAIN Keywords THEN Keywords[s] ELSE IF s \in Units THEN DUR ELSE IDENT

\* A unit is one only after a number.
ident(s, prevTok) ==
  IF s \in DOMAIN Keywords THEN Keywords[s]
  ELSE IF s \in Units /\ prevTok = NUMBER THEN DUR
  ELSE IDENT

Match(word, prevTok) ==
  CASE word.k = "Int" -> NUMBER
    [] word.k = "String" -> QUOTED
    [] word.k = "Ident" -> ident(word.s, prevTok)
    [] word.k = "sign" -> IF word.s \in DOMAIN Signs THEN Signs[word.s] ELSE UNK

Lex(words) ==
  FoldLeft(LAMBDA toks, w :
             Append(toks, [tok |-> Match(w, IF toks = <<>> THEN 0 ELSE Last(toks).tok),
                           val |-> w]),
           <<>>, words)
----------------------------------------------------------------------------
\* The tables of goyacc (a table that starts at 0 in the code does so here).
table(t) == [i \in 0..(Len(t) - 1) |-> t[i + 1]]

yyFlag == -1000
yyLast == 59

yyAct == table(<<
  33, 12, 13, 14, 15, 35, 12, 13, 14, 15, 16, 9, 10, 11, 19, 30, 9, 10, 11, 12,
  21, 14, 15, 34, 14, 15, 37, 38, 29, 9, 10, 11, 9, 10, 11, 2, 39, 14, 15, 17,
  18, 31, 20, 36, 32, 22, 23, 24, 25, 26, 27, 28, 4, 5, 6, 7, 3, 8, 1>>)

yyPact == table(<<
  48, -1000, -3, 48, 48, -2, -1000, -1000, 5, 48, 48, 48, 48, 48, 48, 48, 14, 13,
  -8, -1000, -1000, 36, 26, 26, 26, 13, 10, -1000, -1000, 17, -1000, -1000, -17,
  -1000, 9, 17, -1000, -1000, -1000, -1000>>)

yyPgo == table(<<0, 58, 35, 57, 44, 0, 43, 42>>)

yyR1 == table(<<0, 1, 7, 7, 3, 3, 4, 4, 5, 6, 6, 6, 2, 2, 2, 2, 2, 2, 2, 2, 2, 2,
                2, 2, 2>>)

yyR2 == table(<<0, 3, 0, 2, 0, 3, 1, 3, 2, 0, 1, 1, 2, 3, 3, 3, 3, 3, 3, 3, 3, 2,
                1, 1, 1>>)

yyChk == table(<<
  -1000, -1, -2, 8, 4, 5, 6, 7, -3, 19, 20, 21, 9, 10, 11, 12, 13, -2, -2, 16, -7,
  15, -2, -2, -2, -2, -2, -2, -2, 14, 23, 5, -4, -5, 6, 22, -6, 17, 18, -5>>)

yyDef == table(<<
  0, -2, 4, 0, 0, 22, 23, 24, 2, 0, 0, 0, 0, 0, 0, 0, 0, 12, 0, 21, 1, 0, 13, 14,
  15, 16, 17, 18, 19, 0, 20, 3, 5, 6, 9, 0, 8, 10, 11, 7>>)

\* The semantic value of production p over the values d of its right side.
reduction(p, d) ==
  CASE p = 1 -> Plan(d[1], d[2], d[3])
    [] p = 2 -> 0
    [] p = 3 -> d[2].n
    [] p = 4 -> <<>>
    [] p = 5 -> d[3]
    [] p = 6 -> <<d[1]>>
    [] p = 7 -> Append(d[1], d[3])
    [] p = 8 -> OrderBy(d[1].s, d[2])
    [] p \in {9, 10} -> TRUE
    [] p = 11 -> FALSE
    [] p = 12 -> Not(d[2])
    [] p \in 13..18 ->
         Node(<<"less", "greater", "contains", "and", "or", "equals">>[p - 12], d[1], d[3])
    [] p = 19 -> Not(Node("equals", d[1], d[3]))
    [] p = 20 -> d[2]
    [] p = 21 -> Duration
    [] p = 22 -> Number(d[1].n)
    [] p = 23 -> Ident(d[1].s)
    [] p = 24 -> String(d[1].s)

\* The state that the goto table gives for production p over state s.
goto(p, s) ==
  LET g == yyPgo[yyR1[p]]
      j == g + s + 1
  IN  IF j < yyLast /\ yyChk[yyAct[j]] = -yyR1[p] THEN yyAct[j] ELSE yyAct[g]

\* The state that is shifted to in state s at a token; -1 is none.
shift(s, tok) ==
  LET n == yyPact[s] + tok
  IN  IF yyPact[s] > yyFlag /\ n \in 0..(yyLast - 1) /\ yyChk[yyAct[n]] = tok
        THEN yyAct[n] ELSE -1

SyntaxError == [err |-> TRUE]

\* What Parse reads back: once the stack has outgrown the array of the parser,
\* the array holds no query.
readBack(query, deepest) ==
  [err |-> FALSE,
   query |-> IF deepest < yyInitialStackSize THEN query ELSE Plan(Nil, <<>>, 0)]

\* The loop of yyParserImpl.Parse.  stack holds the entries from yyS[1] on, so
\* that its length is yyp; state 0 is below them.  No state shifts an error
\* token: the first error empties the stack and ends the loop.
RECURSIVE parse(_, _, _)
parse(stack, toks, deepest) ==
  LET state == IF stack = <<>> THEN 0 ELSE Last(stack).yys
      tok   == IF toks = <<>> THEN END ELSE Head(toks).tok
      to    == shift(state, tok)
      p     == yyDef[state]
      push(s, yys, val, rest) ==
        parse(Append(s, [yys |-> yys, val |-> val]), rest, Max({Len(s) + 1, deepest}))
  IN  IF to >= 0 THEN push(stack, to, Head(toks).val, Tail(toks))
      ELSE IF p = -2 /\ tok = END THEN readBack(Last(stack).val, deepest)
      ELSE IF p \in {-2, 0} THEN SyntaxError
      ELSE LET under == SubSeq(stack, 1, Len(stack) - yyR2[p])
               d     == [i \in 1..yyR2[p] |-> stack[Len(under) + i].val]
               s     == IF under = <<>> THEN 0 ELSE Last(under).yys
           IN  push(under, goto(p, s), reduction(p, d), toks)

\* The empty text asks for everything.
Parse(words) ==
  IF words = <<>> THEN readBack(Plan(Bool(TRUE), <<>>, 20), 0)
  ELSE parse(<<>>, Lex(words), 0)
=============================================================================
