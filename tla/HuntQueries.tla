------------------------------ MODULE HuntQueries ------------------------------
(***************************************************************************)
(* The query language of the threat hunters (detector/hunting.py): the     *)
(* lexemes of a query become tokens, a recursive descent makes a tree of   *)
(* them, and the tree is evaluated on a flow.                              *)
(*                                                                         *)
(* A lexeme is [lex, text]: lex is "(", ")", "op", "word", "quoted" or     *)
(* "list"; the text of a word or of an element of a list is a name or      *)
(* [digits, unit].  Values are [n |-> number] or [s |-> name]; no two names *)
(* differ in case alone.                                                   *)
(***************************************************************************)
EXTENDS Integers, Sequences, FiniteSets, SequencesExt, TLC

CONSTANT Occurs   \* the pairs <<a, b>> of values, a being written inside b

Num(n) == [n |-> n]
Str(s) == [s |-> s]
IsNum(v) == DOMAIN v = {"n"}

\* parse_byte_units: a number with a suffix is a number of bytes.
Units == ("" :> 1) @@ ("k" :> 1024) @@ ("m" :> 1048576)
InBytes(text) ==
  IF DOMAIN text = {"digits", "unit"} THEN Num(text.digits * Units[text.unit]) ELSE text

Token(kind, value) == [kind |-> kind, value |-> value]

\* tokenize: connectives are words, but not between quotes; = is ==.
TokenOf(lexeme) ==
  CASE lexeme.lex \in {"(", ")"} -> Token(lexeme.lex, Str(lexeme.lex))
    [] lexeme.lex = "op" ->
         Token("op", IF lexeme.text = Str("=") THEN Str("==") ELSE lexeme.text)
    [] lexeme.lex = "list" ->
         Token("list", [i \in DOMAIN lexeme.text |-> InBytes(lexeme.text[i])])
    [] lexeme.lex = "word" /\ lexeme.text \in {Str("and"), Str("or"), Str("not")} ->
         Token(lexeme.text.s, lexeme.text)
    [] lexeme.lex = "word" /\ lexeme.text \in {Str("in"), Str("contains")} ->
         Token("op", lexeme.text)
    [] OTHER -> Token("value", InBytes(lexeme.text))

Tokens(query) == [i \in DOMAIN query |-> TokenOf(query[i])]
-----------------------------------------------------------------------------
(***************************************************************************)
(* The parser: each rule returns the position it reached and its tree, or  *)
(* Bad, with which every rule above it raises ValueError.                  *)
(***************************************************************************)
Bad == [at |-> 0, tree |-> [op |-> "bad"]]
Kind(ts, at) == IF at <= Len(ts) THEN ts[at].kind ELSE "end"
Binary(op, l, r) == [op |-> op, left |-> l, right |-> r]

RECURSIVE ParseOr(_, _), ParseAnd(_, _), ParseNot(_, _), ParsePrimary(_, _)
RECURSIVE OrRest(_, _), AndRest(_, _)

\* Field, operator, and any token at all as the value.
ParseCondition(ts, at) ==
  IF Kind(ts, at) = "value" /\ Kind(ts, at + 1) = "op" /\ at + 2 <= Len(ts)
  THEN [at |-> at + 3, tree |-> [op |-> "cond", field |-> ts[at].value,
                                 cmp |-> ts[at + 1].value.s,
                                 target |-> ts[at + 2]]]
  ELSE Bad

ParsePrimary(ts, at) ==
  IF Kind(ts, at) # "(" THEN ParseCondition(ts, at)
  ELSE LET inner == ParseOr(ts, at + 1)
       IN IF inner # Bad /\ Kind(ts, inner.at) = ")"
          THEN [inner EXCEPT !.at = @ + 1] ELSE Bad

ParseNot(ts, at) ==
  IF Kind(ts, at) # "not" THEN ParsePrimary(ts, at)
  ELSE LET operand == ParseNot(ts, at + 1)
       IN IF operand = Bad THEN Bad
          ELSE [at |-> operand.at, tree |-> [op |-> "not", arg |-> operand.tree]]

\* Mutant: and and or bind alike, from left to right.
FlatRest(ts, left) ==
  IF left = Bad \/ Kind(ts, left.at) \notin {"and", "or"} THEN left
  ELSE LET right == ParseNot(ts, left.at + 1)
       IN IF right = Bad THEN Bad
          ELSE AndRest(ts, [at |-> right.at,
                            tree |-> Binary(Kind(ts, left.at), left.tree, right.tree)])

\* The loop of parse_and, from its first operand on.
AndRest(ts, left) ==
  IF left = Bad \/ Kind(ts, left.at) # "and" THEN left
  ELSE LET right == ParseNot(ts, left.at + 1)
       IN IF right = Bad THEN Bad
          ELSE AndRest(ts, [at |-> right.at, tree |-> Binary("and", left.tree, right.tree)])

ParseAnd(ts, at) == AndRest(ts, ParseNot(ts, at))

OrRest(ts, left) ==
  IF left = Bad \/ Kind(ts, left.at) # "or" THEN left
  ELSE LET right == ParseAnd(ts, left.at + 1)
       IN IF right = Bad THEN Bad
          ELSE OrRest(ts, [at |-> right.at, tree |-> Binary("or", left.tree, right.tree)])

ParseOr(ts, at) == OrRest(ts, ParseAnd(ts, at))

\* parse: nothing may be left after the expression.
Parse(query) ==
  LET ts == Tokens(query)
      r == ParseOr(ts, 1)
  IN IF ts = <<>> \/ r.at # Len(ts) + 1 THEN Bad.tree ELSE r.tree
-----------------------------------------------------------------------------
ProtocolNumber == ("tcp" :> 6) @@ ("udp" :> 17) @@ ("icmp" :> 1)
AsProtocol(v) ==
  CASE IsNum(v) -> IF v.n \in {1, 6, 17} THEN v.n ELSE 0
    [] OTHER -> IF v.s \in DOMAIN ProtocolNumber THEN ProtocolNumber[v.s] ELSE 0

\* The fields execute_flow_hunt gives a flow; src_port is as dst_port is.  Field
\* proto is a text: that of another protocol spells its number, and stands for it.
Context(r) ==
  [src_ip |-> Str(r.src), dst_ip |-> Str(r.dst), dst_port |-> Num(r.port),
   dpt |-> Num(r.port), protocol |-> Num(r.proto), bytes |-> Num(r.bytes),
   packets |-> Num(r.packets),
   proto |-> CASE r.proto = 6 -> Str("tcp") [] r.proto = 17 -> Str("udp")
               [] OTHER -> Num(r.proto)]

IsPart(a, b) == a = b \/ <<a, b>> \in Occurs

\* _compare
Compares(actual, cmp, token) ==
  LET target == token.value
  IN CASE cmp = "in" /\ token.kind = "list" -> actual \in ToSet(target)
       [] cmp = "contains" -> token.kind # "list" /\ IsPart(target, actual)
       [] cmp = "in" -> IsPart(actual, target)
       [] token.kind = "list" -> cmp = "!="
       [] cmp = "==" -> actual = target
       [] cmp = "!=" -> actual # target
       [] ~IsNum(actual) \/ ~IsNum(target) -> FALSE
       [] cmp = ">" -> actual.n > target.n
       [] cmp = ">=" -> actual.n >= target.n
       [] cmp = "<" -> actual.n < target.n
       [] cmp = "<=" -> actual.n <= target.n

(***************************************************************************)
(* ConditionNode.evaluate: a field the flow lacks is unlike everything,    *)
(* != included; protocols are compared as numbers, and then only for being *)
(* the same or not, and no order holds between a text and anything.        *)
(***************************************************************************)
Holds(c, context) ==
  LET val == context[c.field.s]
      numbers == {AsProtocol(val), AsProtocol(c.target.value)}
  IN IF IsNum(c.field) \/ c.field.s \notin DOMAIN context THEN FALSE
     ELSE IF c.field.s \in {"protocol", "proto"} /\ c.target.kind # "list" /\ 0 \notin numbers
     THEN c.cmp = (IF Cardinality(numbers) = 1 THEN "==" ELSE "!=")
     ELSE IF c.field.s = "proto" /\ c.cmp \in {">", ">=", "<", "<="} THEN FALSE
     ELSE Compares(val, c.cmp, c.target)

RECURSIVE Evaluate(_, _)
Evaluate(tree, context) ==
  CASE tree.op = "and" -> Evaluate(tree.left, context) /\ Evaluate(tree.right, context)
    [] tree.op = "or" -> Evaluate(tree.left, context) \/ Evaluate(tree.right, context)
    [] tree.op = "not" -> ~Evaluate(tree.arg, context)
    [] OTHER -> Holds(tree, context)

\* execute_flow_hunt: the first flows that match, one at least if any does.
Hunt(query, flows, limit) ==
  LET tree == Parse(query)
      found == SelectSeq(flows, LAMBDA r : Evaluate(tree, Context(r)))
  IN SubSeq(found, 1, IF Len(found) < limit THEN Len(found) ELSE IF limit < 1 THEN 1 ELSE limit)
=============================================================================
