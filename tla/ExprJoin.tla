------------------------------ MODULE ExprJoin ------------------------------
(***************************************************************************)
(* The expressions of a Kconfig file (scripts/config/expr.h) and the part  *)
(* of expr.c that looks at one or two operands only: what a symbol or a    *)
(* comparison is worth, and which pairs of operands of || and && are       *)
(* joined into one.  Nothing here is recursive; Expr.tla builds the        *)
(* functions that walk whole expressions on top of it.                     *)
(*                                                                         *)
(* An expression is a record.  Its type is the C type without E_:          *)
(*   SYMBOL              sym                                               *)
(*   EQUAL ... GEQ       sym, rsym      (two symbols are compared)         *)
(*   NOT                 left                                              *)
(*   AND, OR             left, right                                       *)
(* and Null stands for the null pointer.                                   *)
(***************************************************************************)
EXTENDS Integers

CONSTANTS
  Symbols,      \* every symbol, the constant ones too
  ConstSymbols, \* those with SYMBOL_CONST: y, m, n and literals such as "0"
  SymbolYes, SymbolMod, SymbolNo,
  TypeOf,       \* symbol -> "unknown" (constants too), "boolean", ...
  Rank,         \* string -> its place in the order of strcmp
  IntOf,        \* string -> number, for the strings strtoll reads in base 10
  HexOf,        \* the same in base 16
  AutoOf,       \* the same in base 0, for symbols without a numeric type
  Wrap          \* stands for 2^64, where an unsigned number wraps

Trits == {"n", "m", "y"}

ASSUME SymbolAssumption ==
  /\ {SymbolYes, SymbolMod, SymbolNo} \subseteq ConstSymbols
  /\ SymbolYes # SymbolMod /\ SymbolMod # SymbolNo /\ SymbolNo # SymbolYes
  /\ ConstSymbols \subseteq Symbols
  /\ \A c \in ConstSymbols : TypeOf[c] = "unknown"

(* y, m and n are no numbers, and strcmp tells them apart. *)
ASSUME StringAssumption ==
  /\ \A a \in Trits : a \notin DOMAIN AutoOf /\ Rank[a] \in Int
  /\ \A a, b \in Trits : Rank[a] = Rank[b] => a = b

(* enum tristate: no, mod and yes are ordered numbers. *)
no == 0
mod == 1
yes == 2
Tristates == {no, mod, yes}

Comparisons == {"EQUAL", "UNEQUAL", "LTH", "LEQ", "GTH", "GEQ"}

Null == [type |-> "NULL"]
Symbol(s) == [type |-> "SYMBOL", sym |-> s]
Compare(type, s1, s2) == [type |-> type, sym |-> s1, rsym |-> s2]
Not(e) == [type |-> "NOT", left |-> e]
Two(type, e1, e2) == [type |-> type, left |-> e1, right |-> e2]

Yes == Symbol(SymbolYes)
No == Symbol(SymbolNo)

AllocAnd(e1, e2) ==
  IF e1 = Null THEN e2 ELSE IF e2 = Null THEN e1 ELSE Two("AND", e1, e2)
AllocOr(e1, e2) ==
  IF e1 = Null THEN e2 ELSE IF e2 = Null THEN e1 ELSE Two("OR", e1, e2)

IsYes(e) == e \in {Null, Yes}

(***************************************************************************)
(* What the leaves are worth.  env.tri and env.str give every symbol its   *)
(* tristate and its string, as sym_calc_value leaves them.                 *)
(***************************************************************************)
TriOf(str) ==
  IF str = "n" THEN no ELSE IF str = "m" THEN mod ELSE IF str = "y" THEN yes ELSE -1

(* How a string is read as a number when it is compared, by the type of    *)
(* the symbol it belongs to; kind "string" when it is no number.           *)
Digits(type) == IF type = "int" THEN IntOf ELSE IF type = "hex" THEN HexOf ELSE AutoOf
ReadDigits(str, type, digits) ==
  IF str \in DOMAIN digits
  THEN [kind |-> IF type = "hex" THEN "unsigned" ELSE "signed", num |-> digits[str]]
  ELSE [kind |-> "string", num |-> 0]
ParseString(str, type) ==
  IF type \in {"boolean", "tristate"} THEN [kind |-> "signed", num |-> TriOf(str)]
  ELSE ReadDigits(str, type, Digits(type))

Unsigned(n) == IF n < 0 THEN n + Wrap ELSE n

(* The sign of the comparison of two symbols: as strings when one of them  *)
(* is no number or both are string symbols, without sign when one is hex.  *)
Apart(env, s1, s2, read) ==
  IF \/ TypeOf[s1] = "string" /\ TypeOf[s2] = "string"
     \/ \E s \in {s1, s2} : read[s].kind = "string"
    THEN Rank[env.str[s1]] - Rank[env.str[s2]]
  ELSE IF \E s \in {s1, s2} : read[s].kind = "unsigned"
    THEN Unsigned(read[s1].num) - Unsigned(read[s2].num)
  ELSE read[s1].num - read[s2].num
Difference(env, s1, s2) ==
  Apart(env, s1, s2, [s \in {s1, s2} |-> ParseString(env.str[s], TypeOf[s])])

Holds(type, d) ==
  \/ type = "EQUAL" /\ d = 0
  \/ type = "UNEQUAL" /\ d # 0
  \/ type = "LTH" /\ d < 0
  \/ type = "LEQ" /\ d <= 0
  \/ type = "GTH" /\ d > 0
  \/ type = "GEQ" /\ d >= 0

(* The value of a symbol or of a comparison. *)
BaseValue(env, e) ==
  IF e.type = "SYMBOL" THEN env.tri[e.sym]
  ELSE IF Holds(e.type, Difference(env, e.sym, e.rsym)) THEN yes ELSE no

(* The value of an operand the join rules look at. *)
LeafValue(env, e) ==
  IF e.type = "NOT" THEN yes - BaseValue(env, e.left) ELSE BaseValue(env, e)

(***************************************************************************)
(* The join rules.  Both functions first find the symbol the two operands  *)
(* are about: none unless each is a symbol, a test for (in)equality or the *)
(* negation of one, of a boolean or tristate symbol.                       *)
(***************************************************************************)
Simple == {"EQUAL", "UNEQUAL", "SYMBOL"}

Joinable(e1, e2) ==
  LET sym1 == IF e1.type = "NOT" THEN e1.left.sym ELSE e1.sym
      sym2 == IF e2.type = "NOT" THEN e2.left.sym ELSE e2.sym
  IN /\ e1.type \in Simple \cup {"NOT"} /\ e2.type \in Simple \cup {"NOT"}
     /\ e1.type = "NOT" => e1.left.type \in Simple
     /\ e2.type = "NOT" => e2.left.type = "SYMBOL"
     /\ sym1 = sym2
     /\ TypeOf[sym1] \in {"boolean", "tristate"}

SymbolOf(e) == IF e.type = "NOT" THEN e.left.sym ELSE e.sym

(* Both operands have type t and compare with a and b, in either order. *)
TestBoth(e1, e2, t, a, b) ==
  /\ e1.type = t /\ e2.type = t
  /\ \/ e1.rsym = a /\ e2.rsym = b
     \/ e1.rsym = b /\ e2.rsym = a

(* One operand is the symbol itself, the other compares it with a. *)
SymbolAndTest(e1, e2, t, a) ==
  \/ e1.type = "SYMBOL" /\ e2.type = t /\ e2.rsym = a
  \/ e2.type = "SYMBOL" /\ e1.type = t /\ e1.rsym = a

OrRule(e1, e2) ==
  LET s == SymbolOf(e1)
      Pair(a, b) == TypeOf[s] = "tristate" /\ TestBoth(e1, e2, "EQUAL", a, b)
      Excluded == /\ TypeOf[s] = "boolean"
                  /\ \/ e1.type = "SYMBOL" /\ e2.type = "NOT"
                     \/ e2.type = "SYMBOL" /\ e1 = Not(e2)
  IN IF ~Joinable(e1, e2) THEN Null
     ELSE IF Pair(SymbolYes, SymbolMod) THEN Compare("UNEQUAL", s, SymbolNo)
     ELSE IF Pair(SymbolYes, SymbolNo) THEN Compare("UNEQUAL", s, SymbolMod)
     ELSE IF Pair(SymbolMod, SymbolNo) THEN Compare("UNEQUAL", s, SymbolYes)
     ELSE IF Excluded THEN Yes ELSE Null

(* (a = b) && (a # c) for two constants: n when they are one, else a = b. *)
TestConstants(s, b, c) == IF b # c THEN Compare("EQUAL", s, b) ELSE No

(* Mutant: a is not m, so it has a value. *)
BugAndRule(e1, e2) ==
  IF Joinable(e1, e2) /\ SymbolAndTest(e1, e2, "UNEQUAL", SymbolMod)
  THEN Symbol(SymbolOf(e1)) ELSE Null

AndRule(e1, e2) ==
  LET s == SymbolOf(e1)
      Pair(a, b) == TestBoth(e1, e2, "UNEQUAL", a, b)
      BothConst == {e1.rsym, e2.rsym} \subseteq ConstSymbols
  IN IF ~Joinable(e1, e2) THEN Null
     ELSE IF SymbolAndTest(e1, e2, "EQUAL", SymbolYes) THEN Compare("EQUAL", s, SymbolYes)
     ELSE IF SymbolAndTest(e1, e2, "UNEQUAL", SymbolNo) THEN Symbol(s)
     ELSE IF SymbolAndTest(e1, e2, "UNEQUAL", SymbolMod) THEN Compare("EQUAL", s, SymbolYes)
     ELSE IF TypeOf[s] # "tristate" THEN Null
     ELSE IF e1.type = "EQUAL" /\ e2.type = "UNEQUAL" /\ BothConst
       THEN TestConstants(s, e1.rsym, e2.rsym)
     ELSE IF e1.type = "UNEQUAL" /\ e2.type = "EQUAL" /\ BothConst
       THEN TestConstants(s, e2.rsym, e1.rsym)
     ELSE IF Pair(SymbolYes, SymbolNo) THEN Compare("EQUAL", s, SymbolMod)
     ELSE IF Pair(SymbolYes, SymbolMod) THEN Compare("EQUAL", s, SymbolNo)
     ELSE IF Pair(SymbolMod, SymbolNo) THEN Compare("EQUAL", s, SymbolYes)
     ELSE Null

(***************************************************************************)
(* expr_transform, at a leaf: comparisons of a boolean with y, m or n      *)
(* become the symbol, its negation or a constant; a negated comparison the *)
(* opposite one.                                                           *)
(***************************************************************************)
BooleanRule(is, s, c) ==
  CASE c = SymbolNo -> IF is THEN Not(Symbol(s)) ELSE Symbol(s)
    [] c = SymbolMod -> IF is THEN No ELSE Yes
    [] c = SymbolYes -> IF is THEN Symbol(s) ELSE Not(Symbol(s))
BooleanTest(e) ==
  IF TypeOf[e.sym] = "boolean" /\ e.rsym \in {SymbolYes, SymbolMod, SymbolNo}
  THEN BooleanRule(e.type = "EQUAL", e.sym, e.rsym) ELSE e

Opposite == [EQUAL |-> "UNEQUAL", UNEQUAL |-> "EQUAL", LEQ |-> "GTH",
             GEQ |-> "LTH", LTH |-> "GEQ", GTH |-> "LEQ"]
=============================================================================
