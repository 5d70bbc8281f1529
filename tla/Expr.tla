-------------------------------- MODULE Expr --------------------------------
(***************************************************************************)
(* scripts/config/expr.c: the functions that walk a whole expression.  The *)
(* C code rewrites trees in place through pointers to their nodes; here    *)
(* each function returns the tree it leaves behind.                        *)
(*                                                                         *)
(* Several of them look at all operands of one level of || or &&, whatever *)
(* the parentheses: Operands lists the leaves of a level from left to      *)
(* right, WithOperands puts others in their places.                        *)
(***************************************************************************)
EXTENDS ExprJoin, Sequences, SequencesExt

RECURSIVE Operands(_, _), WithOperands(_, _, _), ExprEq(_, _),
          EliminateYn(_), EliminateDups1(_, _), EliminateDups(_), TransBool(_),
          Transform(_), ContainsSymbol(_, _), DependsSymbol(_, _),
          TransCompare(_, _, _), Value(_, _), SymbolsOf(_), Printed(_, _),
          ReadBack(_), RevDepLines(_, _, _)

Operands(type, e) ==
  IF e.type = type THEN Operands(type, e.left) \o Operands(type, e.right) ELSE <<e>>

WithOperands(type, e, ops) ==
  IF e.type # type THEN ops[1]
  ELSE LET n == Len(Operands(type, e.left))
       IN Two(type, WithOperands(type, e.left, SubSeq(ops, 1, n)),
                    WithOperands(type, e.right, SubSeq(ops, n + 1, Len(ops))))

(* Every operand of the one against every operand of the other. *)
PairsOf(m, n) == [k \in 1 .. m * n |-> <<((k - 1) \div n) + 1, ((k - 1) % n) + 1>>]

(* The operand that changes nothing at a level. *)
Neutral(type) == IF type = "OR" THEN No ELSE Yes

(***************************************************************************)
(* expr_eliminate_eq: operands common to both are struck out, at the level *)
(* of the first expression, then at the level of the second.               *)
(***************************************************************************)
Levels == {"OR", "AND"}
Strike(type, ops, i, j) ==
  IF ExprEq(ops[1][i], ops[2][j]) /\ ~(ops[1][i] = ops[2][j] /\ ops[1][i] \in {Yes, No})
  THEN [ops EXCEPT ![1][i] = Neutral(type), ![2][j] = Neutral(type)] ELSE ops
StrikeAll(type, ops) ==
  FoldLeft(LAMBDA acc, p : Strike(type, acc, p[1], p[2]), ops, PairsOf(Len(ops[1]), Len(ops[2])))
Replaced(type, pair, ops) ==
  <<WithOperands(type, pair[1], ops[1]), WithOperands(type, pair[2], ops[2])>>
StrikeOut(type, pair) ==
  IF type \notin Levels THEN pair
  ELSE Replaced(type, pair, StrikeAll(type, [i \in 1 .. 2 |-> Operands(type, pair[i])]))
StrikeSecond(pair) ==
  IF pair[1].type = pair[2].type THEN pair ELSE StrikeOut(pair[2].type, pair)
Simplified(pair) == <<EliminateYn(pair[1]), EliminateYn(pair[2])>>
EliminateEq(e1, e2) ==
  IF Null \in {e1, e2} THEN <<e1, e2>>
  ELSE Simplified(StrikeSecond(StrikeOut(e1.type, <<e1, e2>>)))

(* Mutant: two levels of one kind are taken to be equal. *)
BugExprEq(e1, e2) ==
  e1.type = e2.type /\ (e1 = e2 \/ e1.type \in {"AND", "OR"})

OneSymbol(pair) == pair[1].type = "SYMBOL" /\ pair[2] = pair[1]

(* Equal after minor simplification; Null is taken to be y. *)
ExprEq(e1, e2) ==
  IF Null \in {e1, e2} THEN IsYes(e1) /\ IsYes(e2)
  ELSE /\ e1.type = e2.type
       /\ CASE e1.type = "NOT" -> ExprEq(e1.left, e2.left)
            [] e1.type \in Levels -> OneSymbol(EliminateEq(e1, e2))
            [] OTHER -> e1 = e2

(* expr && n -> n, expr && y -> expr and the like, both ways round. *)
WithoutYn(type, l, r) ==
  LET zero == IF type = "AND" THEN No ELSE Yes
  IN IF zero \in {l, r} THEN zero
     ELSE IF l = Neutral(type) THEN r
     ELSE IF r = Neutral(type) THEN l
     ELSE Two(type, l, r)
EliminateYn(e) ==
  IF e.type \in Levels THEN WithoutYn(e.type, EliminateYn(e.left), EliminateYn(e.right)) ELSE e

(* FOO!=n -> FOO, which the C code does for tristate symbols. *)
TransBool(e) ==
  CASE e.type \in {"AND", "OR"} -> Two(e.type, TransBool(e.left), TransBool(e.right))
    [] e.type = "NOT" -> Not(TransBool(e.left))
    [] e.type = "UNEQUAL" /\ TypeOf[e.sym] = "tristate" /\ e.rsym = SymbolNo ->
         Symbol(e.sym)
    [] OTHER -> e

Join(type, e1, e2) ==
  IF ExprEq(e1, e2) THEN e1
  ELSE IF type = "OR" THEN OrRule(e1, e2) ELSE AndRule(e1, e2)

(***************************************************************************)
(* expr_eliminate_dups1: each operand of a level is joined with each other *)
(* one.  The first of a joined pair becomes the unit, the second the       *)
(* result.  An operand that is itself an || or && is treated likewise      *)
(* before it is compared.  The walk is repeated, with the units removed in *)
(* between, until it joins nothing.  done counts what was joined.          *)
(***************************************************************************)
Inside(a) ==
  IF a.type \in Levels THEN EliminateDups1(a.type, a) ELSE [expr |-> a, done |-> 0]
Joined(type, acc, i, j, joined) ==
  IF joined = Null THEN acc
  ELSE [ops |-> [acc.ops EXCEPT ![i] = Neutral(type), ![j] = joined], done |-> acc.done + 1]
TryJoin(type, acc, i, j) == Joined(type, acc, i, j, Join(type, acc.ops[i], acc.ops[j]))
WithInside(acc, i, in) ==
  [ops |-> [acc.ops EXCEPT ![i] = in.expr], done |-> acc.done + in.done]
JoinStep(type, acc, i, j) ==
  IF i = j THEN acc ELSE TryJoin(type, WithInside(acc, i, Inside(acc.ops[i])), i, j)
JoinAll(type, ops) ==
  FoldLeft(LAMBDA acc, p : JoinStep(type, acc, p[1], p[2]), [ops |-> ops, done |-> 0],
           PairsOf(Len(ops), Len(ops)))
Walked(type, e, all) == [expr |-> WithOperands(type, e, all.ops), done |-> all.done]
EliminateDups1(type, e) == Walked(type, e, JoinAll(type, Operands(type, e)))

Again(walk) == IF walk.done = 0 THEN walk.expr ELSE EliminateDups(EliminateYn(walk.expr))
EliminateDups(e) == IF e.type \in Levels THEN Again(EliminateDups1(e.type, e)) ELSE e

(***************************************************************************)
(* expr_transform: leaves are rewritten by BooleanTest, and negations move *)
(* down to them.                                                           *)
(***************************************************************************)
(* Mutant of Negated: the operator under the ! is kept. *)
BugNegated(e) ==
  CASE e.type = "NOT" -> Transform(e.left)
    [] e.type \in Comparisons -> Compare(Opposite[e.type], e.sym, e.rsym)
    [] e.type \in {"OR", "AND"} ->
         Transform(Two(e.type, Not(e.left), Not(e.right)))
    [] OTHER -> Not(e)

(* !e, for an e that has been transformed. *)
Negated(e) ==
  CASE e.type = "NOT" -> Transform(e.left)
    [] e.type \in Comparisons -> Compare(Opposite[e.type], e.sym, e.rsym)
    [] e.type = "OR" -> Transform(Two("AND", Not(e.left), Not(e.right)))
    [] e.type = "AND" -> Transform(Two("OR", Not(e.left), Not(e.right)))
    [] e = Yes -> No
    [] e = No -> Yes
    [] e = Symbol(SymbolMod) -> e
    [] OTHER -> Not(e)

Transform(e) ==
  CASE e.type \in {"AND", "OR"} -> Two(e.type, Transform(e.left), Transform(e.right))
    [] e.type \in {"EQUAL", "UNEQUAL"} -> BooleanTest(e)
    [] e.type = "NOT" -> Negated(Transform(e.left))
    [] OTHER -> e

(***************************************************************************)
(* What an expression says of a symbol.                                    *)
(***************************************************************************)
ContainsSymbol(dep, s) ==
  CASE dep.type \in {"AND", "OR"} ->
         ContainsSymbol(dep.left, s) \/ ContainsSymbol(dep.right, s)
    [] dep.type = "NOT" -> ContainsSymbol(dep.left, s)
    [] dep.type = "SYMBOL" -> dep.sym = s
    [] dep.type \in Comparisons -> s \in {dep.sym, dep.rsym}
    [] OTHER -> FALSE

(* Mutant: one of the two is enough for an || too. *)
BugDependsSymbol(dep, s) ==
  CASE dep.type \in {"AND", "OR"} -> DependsSymbol(dep.left, s) \/ DependsSymbol(dep.right, s)
    [] dep.type = "SYMBOL" -> dep.sym = s
    [] OTHER -> FALSE

DependsSymbol(dep, s) ==
  CASE dep.type = "AND" -> DependsSymbol(dep.left, s) \/ DependsSymbol(dep.right, s)
    [] dep.type = "SYMBOL" -> dep.sym = s
    [] dep.type = "EQUAL" -> dep.sym = s /\ dep.rsym \in {SymbolYes, SymbolMod}
    [] dep.type = "UNEQUAL" -> dep.sym = s /\ dep.rsym = SymbolNo
    [] OTHER -> FALSE

(* expr_trans_compare: the expression that says `e is s', or `e is not s'. *)
TransCompare(e, type, s) ==
  LET MaybeNot(f) == IF type = "UNEQUAL" THEN Not(f) ELSE f
      Parts(t) == Two(t, TransCompare(e.left, "EQUAL", s), TransCompare(e.right, "EQUAL", s))
  IN CASE e = Null -> MaybeNot(Symbol(s))
       [] e.type \in {"AND", "OR"} ->
            MaybeNot(CASE s = SymbolYes -> Parts(e.type)
                       [] s = SymbolNo -> Parts(IF e.type = "AND" THEN "OR" ELSE "AND")
                       [] OTHER -> e)
       [] e.type = "NOT" ->
            TransCompare(e.left, IF type = "EQUAL" THEN "UNEQUAL" ELSE "EQUAL", s)
       [] e.type \in Comparisons ->
            CASE s = SymbolYes -> MaybeNot(e)
              [] s = SymbolMod -> IF type = "EQUAL" THEN No ELSE Yes
              [] s = SymbolNo -> IF type = "EQUAL" THEN Not(e) ELSE e
              [] OTHER -> Null
       [] OTHER -> Compare(type, e.sym, s)

Least(a, b) == IF a < b THEN a ELSE b
Most(a, b) == IF a > b THEN a ELSE b

(* expr_calc_value, once the symbols of e have their values in env. *)
Value(env, e) ==
  CASE e = Null -> yes
    [] e.type = "AND" -> Least(Value(env, e.left), Value(env, e.right))
    [] e.type = "OR" -> Most(Value(env, e.left), Value(env, e.right))
    [] e.type = "NOT" -> yes - Value(env, e.left)
    [] OTHER -> BaseValue(env, e)

(* The symbols of e in the order expr_calc_value comes to them. *)
SymbolsOf(e) ==
  CASE e.type \in {"AND", "OR"} -> SymbolsOf(e.left) \o SymbolsOf(e.right)
    [] e.type = "NOT" -> SymbolsOf(e.left)
    [] e.type = "SYMBOL" -> <<e.sym>>
    [] e.type \in Comparisons -> <<e.sym, e.rsym>>
    [] OTHER -> <<>>

(***************************************************************************)
(* The text of an expression, as a sequence of tokens: how the help of a   *)
(* symbol shows its dependencies.  Parentheses are put round an operand    *)
(* that binds weaker than the operator before it (expr_compare_type).      *)
(***************************************************************************)
(* Mutant: ! and && bind alike. *)
BugBinds == [EQUAL |-> 4, UNEQUAL |-> 4, LTH |-> 5, LEQ |-> 5, GTH |-> 5, GEQ |-> 5,
             NOT |-> 2, AND |-> 2, OR |-> 1, NONE |-> 0]

Binds == [EQUAL |-> 4, UNEQUAL |-> 4, LTH |-> 5, LEQ |-> 5, GTH |-> 5, GEQ |-> 5,
          NOT |-> 3, AND |-> 2, OR |-> 1, NONE |-> 0]

Weaker(prev, type) == type \in DOMAIN Binds /\ Binds[prev] > Binds[type]

Sign == [EQUAL |-> "=", UNEQUAL |-> "!=", LTH |-> "<", LEQ |-> "<=", GTH |-> ">",
         GEQ |-> ">=", AND |-> "&&", OR |-> "||"]

Printed(e, prev) ==
  LET text == CASE e = Null -> <<"y">>
                [] e.type = "SYMBOL" -> <<e.sym>>
                [] e.type = "NOT" -> <<"!">> \o Printed(e.left, "NOT")
                [] e.type \in Comparisons -> <<e.sym, Sign[e.type], e.rsym>>
                [] OTHER -> Printed(e.left, e.type) \o <<Sign[e.type]>>
                              \o Printed(e.right, e.type)
  IN IF Weaker(prev, e.type) THEN <<"(">> \o text \o <<")">> ELSE text

(***************************************************************************)
(* What the grammar of parser.y makes of such a text: || binds weakest, && *)
(* next, both to the left, and a ! takes one symbol, comparison or         *)
(* parenthesis.                                                            *)
(***************************************************************************)
Depth(toks, i) == Len(SelectSeq(SubSeq(toks, 1, i), LAMBDA t : t = "("))
                    - Len(SelectSeq(SubSeq(toks, 1, i), LAMBDA t : t = ")"))
LastAt(toks, sign) ==
  LET at == {i \in DOMAIN toks : toks[i] = sign /\ Depth(toks, i) = 0}
  IN IF at = {} THEN 0 ELSE CHOOSE i \in at : \A j \in at : j <= i

ReadBack(toks) ==
  LET or == LastAt(toks, "||")
      and == LastAt(toks, "&&")
      Around(type, i) == Two(type, ReadBack(SubSeq(toks, 1, i - 1)),
                                   ReadBack(SubSeq(toks, i + 1, Len(toks))))
  IN CASE or # 0 -> Around("OR", or)
       [] or = 0 /\ and # 0 -> Around("AND", and)
       [] or = 0 /\ and = 0 /\ toks[1] = "!" -> Not(ReadBack(Tail(toks)))
       [] or = 0 /\ and = 0 /\ toks[1] = "(" ->
            ReadBack(SubSeq(toks, 2, Len(toks) - 1))
       [] Len(toks) = 1 -> Symbol(toks[1])
       [] OTHER -> Compare(CHOOSE t \in Comparisons : Sign[t] = toks[2], toks[1], toks[3])

(* The lines of the help under `Selected by [y]' and the like: the         *)
(* alternatives of a reverse dependency whose value is the one asked for.  *)
RevDepLines(env, e, value) ==
  IF e.type = "OR" THEN RevDepLines(env, e.left, value) \o RevDepLines(env, e.right, value)
  ELSE IF Value(env, e) = value THEN <<Printed(e, "NONE")>> ELSE <<>>
=============================================================================
