------------------------------- MODULE ExprTree -------------------------------
(***************************************************************************)
(* patterns::Expr, a variant of literals and of owned binary and unary     *)
(* nodes: the factories, which move their arguments into a new node, and   *)
(* the visitors evaluate and to_string.  evaluate computes with rationals; *)
(* to_string rounds the literals to six decimals.                          *)
(***************************************************************************)
EXTENDS Decimals, FiniteSetsExt

CONSTANTS
  Exprs,      \* the variables of the program that hold an Expr
  Literals,   \* the numbers of literals, with those printed in their place
  BinaryOps,  \* operators; evaluate knows "+", "-", "*" and "/"
  MaxNodes    \* bound: the nodes of all the trees

ASSUME ExprAssumption ==
  /\ Literals \subseteq Printable /\ MaxNodes \in Nat
  /\ \A v \in Literals : AsPrinted(v) \in Literals

VARIABLE tree  \* per variable, its tree

exprVars == <<tree>>

(* A variable whose content was moved into a node. *)
Moved == [kind |-> "moved"]

lit(v) == [kind |-> "literal", value |-> v]

bin(op, l, r) == [kind |-> "binary", op |-> op, lhs |-> l, rhs |-> r]

neg(e) == [kind |-> "unary", op |-> "-", operand |-> e]

ExprInit == tree = [x \in Exprs |-> Moved]

\* The alternatives of the variant, with nodes that own the trees in s.
Variants(s) ==
  [kind : {"literal"}, value : Literals]
    \cup [kind : {"unary"}, op : {"-"}, operand : s]
    \cup [kind : {"binary"}, op : BinaryOps, lhs : s, rhs : s]

\* Trees of at most h levels.
TreesUpTo(h) ==
  LET trees[k \in 0..h] == IF k = 0 THEN {} ELSE Variants(trees[k - 1]) IN trees[h]

Nodes(e) ==
  LET nodes[t \in TreesUpTo(MaxNodes)] ==
        CASE t.kind = "literal" -> 1
          [] t.kind = "unary"   -> 1 + nodes[t.operand]
          [] t.kind = "binary"  -> 1 + nodes[t.lhs] + nodes[t.rhs]
  IN  IF e = Moved THEN 0 ELSE nodes[e]

\* Once e has replaced the trees of xs; it has no more levels than nodes.
RoomFor(xs, e) ==
  LET nodes(y) == Nodes(tree[y]) IN
  /\ e \in TreesUpTo(MaxNodes)
  /\ Nodes(e) + MapThenSumSet(nodes, Exprs \ xs) <= MaxNodes

MakeLiteral(x, v) ==
  /\ RoomFor({x}, lit(v))
  /\ tree' = [tree EXCEPT ![x] = lit(v)]

MakeNegation(x) ==
  /\ tree[x] # Moved
  /\ RoomFor({x}, neg(tree[x]))
  /\ tree' = [tree EXCEPT ![x] = neg(tree[x])]

\* bin(op, std::move(x), std::move(y)), assigned to x.
MakeBinary(x, y, op) ==
  /\ x # y
  /\ tree[x] # Moved /\ tree[y] # Moved
  /\ RoomFor({x, y}, bin(op, tree[x], tree[y]))
  /\ tree' = [tree EXCEPT ![x] = bin(op, tree[x], tree[y]), ![y] = Moved]

\* bin(op, std::move(x), lit(v)), assigned to x.
MakeBinaryOf(x, v, op) ==
  /\ tree[x] # Moved
  /\ RoomFor({x}, bin(op, tree[x], lit(v)))
  /\ tree' = [tree EXCEPT ![x] = bin(op, tree[x], lit(v))]

ExprNext ==
  \/ \E x \in Exprs, v \in Literals : MakeLiteral(x, v)
  \/ \E x \in Exprs : MakeNegation(x)
  \/ \E x, y \in Exprs, op \in BinaryOps : MakeBinary(x, y, op)
  \/ \E x \in Exprs, v \in Literals, op \in BinaryOps : MakeBinaryOf(x, v, op)

ExprSpec == ExprInit /\ [][ExprNext]_exprVars

-----------------------------------------------------------------------------
(* evaluate: a rational <<numerator, denominator>>, or Throws. *)

Throws == <<0, 0>>

Combine(op, l, r) ==
  CASE op = "+" -> <<l[1] * r[2] + r[1] * l[2], l[2] * r[2]>>
    [] op = "-" -> <<l[1] * r[2] - r[1] * l[2], l[2] * r[2]>>
    [] op = "*" -> <<l[1] * r[1], l[2] * r[2]>>
    [] op = "/" -> IF r[1] = 0 THEN Throws ELSE <<l[1] * r[2], l[2] * r[1]>>
    [] OTHER    -> <<0, 1>>

\* The lambdas that evaluate visits a node with, val being evaluate.
VisitValue(val, t) ==
  CASE t.kind = "literal" -> <<t.value, One>>
    [] t.kind = "unary"   ->
         LET v == val[t.operand] IN
         IF v # Throws /\ t.op = "-" THEN <<-v[1], v[2]>> ELSE v
    [] t.kind = "binary"  ->
         LET l == val[t.lhs]
             r == val[t.rhs] IN
         IF Throws \in {l, r} THEN Throws ELSE Combine(t.op, l, r)

evaluate(e) ==
  LET val[t \in TreesUpTo(MaxNodes)] == VisitValue(val, t) IN val[e]

(* Mutant: without the parentheses. *)
PrintBinaryBare(op, l, r) == l \o <<" ", op, " ">> \o r

PrintBinary(op, l, r) == <<"(">> \o l \o <<" ", op, " ">> \o r \o <<")">>

VisitText(str, t) ==
  CASE t.kind = "literal" -> PrintNumber(t.value)
    [] t.kind = "unary"   -> <<t.op>> \o str[t.operand]
    [] t.kind = "binary"  -> PrintBinary(t.op, str[t.lhs], str[t.rhs])

to_string(e) ==
  LET str[t \in TreesUpTo(MaxNodes)] == VisitText(str, t) IN str[e]

Same(v, w) == (v = Throws <=> w = Throws) /\ v[1] * w[2] = w[1] * v[2]

VisitWritten(wr, t) ==
  CASE t.kind = "literal" -> lit(AsPrinted(t.value))
    [] t.kind = "unary"   -> neg(wr[t.operand])
    [] t.kind = "binary"  -> bin(t.op, wr[t.lhs], wr[t.rhs])

\* The tree that a reader of e's text sees: its literals are the printed ones.
AsWritten(e) ==
  LET wr[t \in TreesUpTo(MaxNodes)] == VisitWritten(wr, t) IN wr[e]

(* The two visitors agree on what an expression is, but for the decimals that
   are not printed: trees that print alike, of which there are several for one
   text, have the same value with the literals that were printed, or both throw
   for a division by zero, however deep it is.  Trees of literals that print
   exactly are written as they are, so these have the same value themselves. *)
TextTellsValue ==
  \A x, y \in Exprs :
    /\ tree[x] # Moved /\ tree[y] # Moved
    /\ to_string(tree[x]) = to_string(tree[y])
    => Same(evaluate(AsWritten(tree[x])), evaluate(AsWritten(tree[y])))
=============================================================================
