------------------------------ MODULE DslParser ------------------------------
(***************************************************************************)
(* linling_dsl/parser.py and linter.py: from the lines of a rule file to   *)
(* handlers with nested bodies, from a text to its parts, and what the     *)
(* linter says of the result.                                              *)
(*                                                                         *)
(* A line is what the parser tells it by; a text is a sequence of          *)
(* characters, of which those that mean something are themselves and "a"   *)
(* stands for all others.  A statement names the line it stands on.        *)
(***************************************************************************)
EXTENDS Integers, Sequences, SequencesExt, FiniteSets, FiniteSetsExt

\* word: an output or a trigger that begins with a keyword; expose, mode, typo:
\* a directive of the ledger, the last with a value it does not know; caret: any
\* other line that begins with ^.
Shapes == {"blank", "comment", "config", "if", "endif", "return", "label", "jump",
           "call", "assign", "text", "word", "decoration", "expose", "mode", "typo", "caret"}

--------------------------------------------------------------------------------
\* Blocks: the positions of a handler's lines, without blank ones.

Continues(shape) == shape \in {"comment", "if", "endif", "return", "label", "word"}

\* How many blank lines stand before line i, with none between.
Gap(lines, i) ==
  CHOOSE n \in 0 .. i - 1 :
    /\ \A j \in i - n .. i - 1 : lines[j] = "blank"
    /\ n = i - 1 \/ lines[i - n - 1] # "blank"

Begins(lines, i) ==
  /\ lines[i] # "blank"
  /\ \/ Gap(lines, i) = i - 1
     \/ Gap(lines, i) >= 2
     \/ Gap(lines, i) = 1 /\ ~Continues(lines[i])

Block(lines, first) ==
  SelectSeq([i \in 1 .. Len(lines) |-> i],
            LAMBDA i : /\ i >= first /\ lines[i] # "blank"
                       /\ \A j \in first + 1 .. i : ~Begins(lines, j))

Blocks(lines) ==
  LET firsts == SelectSeq([i \in 1 .. Len(lines) |-> i], LAMBDA i : Begins(lines, i))
  IN [n \in DOMAIN firsts |-> Block(lines, firsts[n])]

--------------------------------------------------------------------------------
\* Bodies.  "block" is what is left of a block; the line of a statement is
\* counted from the first one, without the blank lines between.

Skipped == {"comment", "config", "decoration"}

Numbered(lines, block) ==
  [n \in DOMAIN block |-> [at |-> block[n], line |-> block[1] + n - 1, shape |-> lines[block[n]]]]

\* The place of the end of the condition a block begins with, or zero.
Close(block) ==
  LET Count(shape, n) == Cardinality({m \in 1 .. n : block[m].shape = shape})
      ends == {n \in DOMAIN block : block[n].shape = "endif" /\ Count("if", n) = Count("endif", n)}
  IN IF ends = {} THEN 0 ELSE Min(ends)

Stmt(line, body) == [at |-> line.at, line |-> line.line, shape |-> line.shape, body |-> body]
Raise(line) == <<[at |-> line.at, line |-> line.line, shape |-> "error", body |-> <<>>]>>

RECURSIVE Body(_, _)
Body(block, strict) ==
  IF block = <<>> THEN <<>>
  ELSE LET line == Head(block)
           close == Close(block) IN
       CASE line.shape \in Skipped -> Body(Tail(block), strict)
         [] line.shape = "if" /\ close = 0 ->
              IF strict THEN Raise(line) ELSE <<Stmt(line, Body(Tail(block), strict))>>
         [] line.shape = "if" /\ close # 0 ->
              <<Stmt(line, Body(SubSeq(block, 2, close - 1), strict))>>
                \o Body(SubSeq(block, close + 1, Len(block)), strict)
         [] line.shape = "endif" ->
              IF strict THEN Raise(line) ELSE Body(Tail(block), strict)
         [] OTHER -> <<Stmt(line, <<>>)>> \o Body(Tail(block), strict)

--------------------------------------------------------------------------------
\* Handlers.

Directives == {"expose", "mode", "typo"}

\* How many lines after the trigger are directives.
Metas(block) ==
  CHOOSE n \in 0 .. Len(block) - 1 :
    /\ \A m \in 2 .. n + 1 : block[m].shape \in Directives
    /\ n = Len(block) - 1 \/ block[n + 2].shape \notin Directives

Handler(block, strict) ==
  LET metas == Metas(block)
      Given(shape) == \E n \in 2 .. metas + 1 : block[n].shape = shape IN
  [trigger |-> block[1].at, expose |-> Given("expose"), mode |-> Given("mode"),
   body |-> Body(SubSeq(block, metas + 2, Len(block)), strict)]

IsDropped(block) == block[1].shape \in {"config", "comment"}

Parse(lines, strict) ==
  LET blocks == Blocks(lines)
      numbered == [n \in DOMAIN blocks |-> Numbered(lines, blocks[n])]
      kept == SelectSeq(numbered, LAMBDA block : ~IsDropped(block))
  IN [n \in DOMAIN kept |-> Handler(kept[n], strict)]

\* Every statement of a body, conditions before what they contain (_walk_stmts).
RECURSIVE Walk(_, _)
Walk(body, depth) ==
  IF body = <<>> THEN <<>>
  ELSE <<[stmt |-> Head(body), depth |-> depth]>> \o Walk(Head(body).body, depth + 1)
         \o Walk(Tail(body), depth)

Raises(script) ==
  \E n \in DOMAIN script : \E step \in Range(Walk(script[n].body, 0)) : step.stmt.shape = "error"

\* The linter's L110: what stands after a return or a jump in the same body.
Unreachable(body) ==
  LET ends == {n \in 1 .. Len(body) - 1 : body[n].shape \in {"return", "jump"}}
  IN IF ends = {} THEN {} ELSE {body[Min(ends) + 1]}

Flagged(handler) ==
  Unreachable(handler.body)
    \cup UNION {Unreachable(step.stmt.body) : step \in Range(Walk(handler.body, 0))}

--------------------------------------------------------------------------------
\* Texts: where the next character c is, from position i on, or zero.

Find(text, c, i) ==
  LET places == {n \in i .. Len(text) : text[n] = c} IN IF places = {} THEN 0 ELSE Min(places)

\* The bracket that closes the one at position i, or zero.
Matching(text, i) ==
  LET Count(c, n) == Cardinality({m \in i .. n : text[m] = c})
      ends == {n \in i .. Len(text) : text[n] = "]" /\ Count("[", n) = Count("]", n)}
  IN IF ends = {} THEN 0 ELSE Min(ends)

\* Behind the fields [..][..] that begin at position i, or zero.
RECURSIVE AfterFields(_, _)
AfterFields(text, i) ==
  LET close == Find(text, "]", i) IN
  IF i > Len(text) \/ text[i] # "[" THEN i
  ELSE IF close = 0 THEN 0 ELSE AfterFields(text, close + 1)

\* Behind the access @name[..][..] at position i, or zero.
AfterAccess(text, i) ==
  LET open == Find(text, "[", i) IN
  IF open = 0 \/ \E n \in i + 1 .. open - 1 : text[n] \in {" ", "%", "$"} THEN 0
  ELSE AfterFields(text, open)

Part(kind, text) == [kind |-> kind, text |-> text, args |-> <<>>]

\* Arguments end at a space that is in no variable and in no bracket.
Delimited(text) ==
  LET Count(c) == Cardinality({n \in DOMAIN text : text[n] = c})
  IN Count("%") % 2 = 1 \/ Count("[") > Count("]")

RECURSIVE Tokens(_, _)
Tokens(text, current) ==
  IF text = <<>> THEN IF current = <<>> THEN <<>> ELSE <<current>>
  ELSE IF Head(text) = " " /\ ~Delimited(current)
       THEN (IF current = <<>> THEN <<>> ELSE <<current>>) \o Tokens(Tail(text), <<>>)
       ELSE Tokens(Tail(text), Append(current, Head(text)))

RECURSIVE Expr(_), Interpolated(_, _, _)

\* What stands between two dollars: a name, and arguments.
Call(inner) ==
  LET space == Find(inner, " ", 1) IN
  IF space = 0 THEN Part("call", inner)
  ELSE LET tokens == Tokens(SubSeq(inner, space + 1, Len(inner)), <<>>) IN
       [kind |-> "call", text |-> SubSeq(inner, 1, space - 1),
        args |-> [n \in DOMAIN tokens |-> Expr(tokens[n])]]

Plain(literal) == IF literal = <<>> THEN <<>> ELSE <<Part("literal", literal)>>

\* The parts of a text from position i on, with the plain text before it.
Interpolated(text, i, literal) ==
  LET c == text[i]
      inside(close) == SubSeq(text, i + 1, close - 1)
      pair == Find(text, c, i + 1)
      close == Matching(text, i)
      after == AfterAccess(text, i)
      access == SubSeq(text, i, after - 1)
  IN
  IF i > Len(text) THEN Plain(literal)
  ELSE CASE c = "%" /\ pair > 0 ->
              Plain(literal) \o <<Part("var", inside(pair))>> \o Interpolated(text, pair + 1, <<>>)
         [] c = "$" /\ pair > 0 ->
              Plain(literal) \o <<Call(inside(pair))>> \o Interpolated(text, pair + 1, <<>>)
         [] c = "[" /\ close > 0 ->
              Plain(literal) \o <<Part("arith", inside(close))>> \o Interpolated(text, close + 1, <<>>)
         [] c = "@" /\ after > 0 /\ text[i + 1] # "[" ->
              Plain(literal) \o <<Part("json", access)>> \o Interpolated(text, after, <<>>)
         [] c = "@" /\ after > 0 /\ text[i + 1] = "[" ->
              Plain(literal) \o Interpolated(text, i + 1, <<c>>)
         [] OTHER -> Interpolated(text, i + 1, Append(literal, c))

Pieces(text) ==
  IF text = <<>> THEN <<Part("literal", <<>>)>> ELSE Interpolated(text, 1, <<>>)

\* _is_balanced_brackets: some bracket closes, or none is left open.
Balanced(text) ==
  \/ Matching(text, 1) > 0
  \/ Cardinality({n \in DOMAIN text : text[n] = "["}) = Cardinality({n \in DOMAIN text : text[n] = "]"})

\* A text that is taken as one expression: an argument, a value.
Expr(text) ==
  LET Around(c, d) == Len(text) > 1 /\ Head(text) = c /\ Last(text) = d
      inner == SubSeq(text, 2, Len(text) - 1)
      pieces == Pieces(text) IN
  CASE Around("%", "%") /\ Find(inner, "%", 1) = 0 -> Part("var", inner)
    [] Around("[", "]") /\ Balanced(text) -> Part("arith", inner)
    [] text # <<>> /\ Head(text) = "@" /\ Len(text) > 1 /\ text[2] # "["
         /\ Find(text, "[", 1) > 0 /\ AfterFields(text, Find(text, "[", 1)) = Len(text) + 1 ->
         Part("json", text)
    [] Around("$", "$") /\ Len(text) > 2 -> Call(inner)
    [] OTHER -> IF Len(pieces) = 1 THEN pieces[1] ELSE Part("literal", text)

--------------------------------------------------------------------------------
\* How many conditions are open at line n of a block, strays and the trigger aside.
Open(block, n) ==
  LET Count(shape, m) == Cardinality({i \in m .. n - 1 : block[i].shape = shape})
  IN Max({0} \cup {Count("if", m) - Count("endif", m) : m \in 2 .. n - 1})

\* What the body of a block is to contain, and how deep.
Meant(block) ==
  LET lines == SelectSeq([n \in DOMAIN block |-> n],
                         LAMBDA n : n > Metas(block) + 1 /\ block[n].shape \notin Skipped \cup {"endif"})
  IN [i \in DOMAIN lines |-> <<block[lines[i]].at, Open(block, lines[i])>>]

\* Every condition of a block has its end.
Paired(block) ==
  LET Count(shape, n) == Cardinality({i \in 1 .. n : block[i].shape = shape})
  IN /\ \A n \in DOMAIN block : Count("endif", n) <= Count("if", n)
     /\ Count("endif", Len(block)) = Count("if", Len(block))

Kept(lines) ==
  LET blocks == Blocks(lines)
  IN SelectSeq([n \in DOMAIN blocks |-> Numbered(lines, blocks[n])], LAMBDA block : ~IsDropped(block))

\* Each line of a handler is in its body once, in order and as deep as the
\* conditions open above it, whatever ends are missing or left over; the strict
\* parser refuses exactly those, and agrees on the rest (parse: two
\* irregularities are tolerated).
BodiesAreMeant(lines) ==
  LET kept == Kept(lines)
      lenient == Parse(lines, FALSE)
      strict == Parse(lines, TRUE) IN
  /\ ~Raises(lenient) /\ Len(lenient) = Len(kept)
  /\ Raises(strict) <=> \E n \in DOMAIN kept : ~Paired(SubSeq(kept[n], 2, Len(kept[n])))
  /\ ~Raises(strict) => strict = lenient
  /\ \A n \in DOMAIN kept :
       LET steps == Walk(lenient[n].body, 0)
       IN [i \in DOMAIN steps |-> <<steps[i].stmt.at, steps[i].depth>>] = Meant(kept[n])

\* A text's parts make up the text, and what they leave plain is plain.
RECURSIVE Shown(_)
Shown(part) ==
  LET args == FlattenSeq([n \in DOMAIN part.args |-> Shown(part.args[n])]) IN
  CASE part.kind = "var" -> <<"%">> \o part.text \o <<"%">>
    [] part.kind = "arith" -> <<"[">> \o part.text \o <<"]">>
    [] part.kind = "call" -> <<"$">> \o part.text \o args \o <<"$">>
    [] OTHER -> part.text

Dense(text) == SelectSeq(text, LAMBDA c : c # " ")

TextIsKept(text) ==
  LET pieces == Pieces(text) IN
  /\ Dense(FlattenSeq([n \in DOMAIN pieces |-> Shown(pieces[n])])) = Dense(text)
  /\ Dense(Shown(Expr(text))) = Dense(text)
  /\ \A n \in DOMAIN pieces :
       pieces[n].kind = "literal" => Pieces(pieces[n].text) = <<pieces[n]>>

\* The line a statement names is the one it stands on.
LinesAreTrue(lines) ==
  \A n \in DOMAIN Parse(lines, FALSE) :
    \A step \in Range(Walk(Parse(lines, FALSE)[n].body, 0)) : step.stmt.line = step.stmt.at

\* A commented-out handler is gone with its body (_parse_handler).
CommentedOutIsGone(lines) ==
  \A i, j \in DOMAIN lines :
    /\ i < j /\ \A n \in i .. j : lines[n] # "blank"
    /\ lines[i] = "comment" /\ (i = 1 \/ lines[i - 1] = "blank")
    => \A n \in DOMAIN Parse(lines, FALSE) :
         \A step \in Range(Walk(Parse(lines, FALSE)[n].body, 0)) : step.stmt.at # j

\* What the linter calls unreachable is no target of a jump.
UnreachableIsTrue(lines) ==
  \A n \in DOMAIN Parse(lines, FALSE) :
    LET handler == Parse(lines, FALSE)[n]
        steps == Range(Walk(handler.body, 0)) IN
    (\E step \in steps : step.stmt.shape = "jump")
      => \A stmt \in Flagged(handler) : stmt.shape # "label"

\* One expression in brackets is one (_is_balanced_brackets).
OneExpression(text) ==
  Expr(text).kind = "arith" => Matching(text, 1) = Len(text)
===============================================================================
