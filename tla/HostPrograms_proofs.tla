-------------------------- MODULE HostPrograms_proofs --------------------------
(***************************************************************************)
(* Seven parts of the programs of the build host.                           *)
(*                                                                         *)
(* The rules by which expr.c rewrites leaves of an expression keep its     *)
(* value, for every symbol, every order of strings and every value the     *)
(* symbols may have at a time.  Expr.tla applies them all over a tree; that *)
(* the whole tree keeps its value then is left to model checking.          *)
(*                                                                         *)
(* The lists of lxdialog show what they hold: for lists of every length in *)
(* windows of every height, the rows printed are the items of the window,  *)
(* and the item chosen is the one highlighted.                             *)
(*                                                                         *)
(* A digest of mkhash.c is that of the message, its padding and its        *)
(* length, for messages of every length read in pieces of every size.      *)
(*                                                                         *)
(* The kernel that LzmaDecode.c writes is what the packets of the stream   *)
(* say, for distances and lengths of every width.                          *)
(*                                                                         *)
(* The editors of a line keep the text that is typed and show where the    *)
(* cursor is, for texts of every length in fields of every width.          *)
(*                                                                         *)
(* The text box goes back over the lines that it has drawn, for every text *)
(* and every height of its window.                                         *)
(*                                                                         *)
(* A save of a configuration keeps the last whole one, wherever it is cut  *)
(* off or fails.                                                           *)
(***************************************************************************)
EXTENDS ExprJoin, Dialogs, Mkhash, LzmaDecode, Saves, FiniteSetTheorems, SequenceTheorems,
        WellFoundedInduction, TLAPS

Tests == {SymbolYes, SymbolMod, SymbolNo}

(* What the rules are about: a boolean or tristate symbol, its comparison  *)
(* with y, m or n, or the negation of one of these.                        *)
Logical == {s \in Symbols : TypeOf[s] \in {"boolean", "tristate"}}
Plain ==
  {Symbol(s) : s \in Symbols}
    \cup {Compare(t, s, c) : t \in {"EQUAL", "UNEQUAL"}, s \in Symbols, c \in Tests}
Leaf == Plain \cup {Not(e) : e \in Plain}

(* The values sym_calc_value leaves: string and tristate of a symbol say   *)
(* the same, and a boolean is not m.                                       *)
Consistent(env) ==
  /\ \A s \in Symbols : env.tri[s] \in Tristates
  /\ \A s \in Logical : env.str[s] \in Trits /\ env.tri[s] = TriOf(env.str[s])
  /\ \A s \in Symbols : TypeOf[s] = "boolean" => env.tri[s] # mod
  /\ env.str[SymbolYes] = "y" /\ env.str[SymbolMod] = "m" /\ env.str[SymbolNo] = "n"
  /\ env.tri[SymbolYes] = yes /\ env.tri[SymbolMod] = mod /\ env.tri[SymbolNo] = no

Larger(a, b) == IF a > b THEN a ELSE b
Smaller(a, b) == IF a < b THEN a ELSE b

(* expr_calc_value: a comparison with y, m or n compares tristates, though *)
(* the code compares strings, those three being no numbers.                *)
LEMMA TestValue ==
  ASSUME NEW env, Consistent(env), NEW s \in Logical, NEW c \in Tests
  PROVE  /\ BaseValue(env, Compare("EQUAL", s, c)) = IF env.tri[s] = env.tri[c] THEN yes ELSE no
         /\ BaseValue(env, Compare("UNEQUAL", s, c)) = IF env.tri[s] = env.tri[c] THEN no ELSE yes
<1>1. c \in Symbols /\ TypeOf[c] = "unknown" /\ env.str[c] \in Trits /\ env.tri[c] = TriOf(env.str[c])
  BY SymbolAssumption DEF Consistent, Tests, Trits, TriOf, yes, mod, no
<1>2. env.str[s] \in Trits /\ env.tri[s] = TriOf(env.str[s])
  BY DEF Consistent
<1>3. ParseString(env.str[c], TypeOf[c]).kind = "string"
  BY <1>1, StringAssumption DEF ParseString, ReadDigits, Digits
<1>4. Difference(env, s, c) = Rank[env.str[s]] - Rank[env.str[c]]
  BY <1>3 DEF Difference, Apart
<1>5. (Difference(env, s, c) = 0) <=> (env.tri[s] = env.tri[c])
  <2>1. Rank[env.str[s]] \in Int /\ Rank[env.str[c]] \in Int
    BY <1>1, <1>2, StringAssumption
  <2>2. (Rank[env.str[s]] = Rank[env.str[c]]) <=> (env.str[s] = env.str[c])
    BY <1>1, <1>2, StringAssumption
  <2>3. (env.str[s] = env.str[c]) <=> (env.tri[s] = env.tri[c])
    BY <1>1, <1>2 DEF Trits, TriOf, yes, mod, no
  <2> QED BY <1>4, <2>1, <2>2, <2>3
<1> QED BY <1>5 DEF BaseValue, Compare, Holds

(* What each kind of leaf over a logical symbol is worth. *)
LEMMA LeafValues ==
  ASSUME NEW env, Consistent(env), NEW s \in Logical, NEW c \in Tests
  PROVE  /\ LeafValue(env, Symbol(s)) = env.tri[s]
         /\ LeafValue(env, Not(Symbol(s))) = yes - env.tri[s]
         /\ LeafValue(env, Compare("EQUAL", s, c)) = IF env.tri[s] = env.tri[c] THEN yes ELSE no
         /\ LeafValue(env, Compare("UNEQUAL", s, c)) = IF env.tri[s] = env.tri[c] THEN no ELSE yes
<1>1. BaseValue(env, Symbol(s)) = env.tri[s]
  BY DEF BaseValue, Symbol
<1> QED BY <1>1, TestValue DEF LeafValue, Symbol, Not, Compare

(* y and n are worth what their names say. *)
LEMMA ConstantValues ==
  ASSUME NEW env, Consistent(env)
  PROVE  LeafValue(env, Yes) = yes /\ LeafValue(env, No) = no
BY DEF LeafValue, BaseValue, Yes, No, Symbol, Consistent

(* The symbol two joinable leaves are about is logical, and the leaves are *)
(* the symbol, its negation, or a comparison of it, as it is or negated.   *)
About(e, s) ==
  \/ e = Symbol(s) \/ e = Not(Symbol(s))
  \/ \E t \in {"EQUAL", "UNEQUAL"}, c \in Tests : e = Compare(t, s, c) \/ e = Not(Compare(t, s, c))

(* The kinds of leaf there are. *)
LEMMA LeafCases ==
  ASSUME NEW e \in Leaf
  PROVE  /\ e.type \in Simple \cup {"NOT"}
         /\ SymbolOf(e) \in Symbols /\ About(e, SymbolOf(e))
<1>1. CASE e \in Plain
  BY <1>1 DEF Plain, Simple, SymbolOf, About, Symbol, Compare
<1>2. CASE e \in {Not(f) : f \in Plain}
  <2> PICK f \in Plain : e = Not(f)
    BY <1>2
  <2> QED BY DEF Plain, Simple, SymbolOf, About, Symbol, Compare, Not
<1> QED BY <1>1, <1>2 DEF Leaf

(* Leaves that can be joined are about one symbol, a logical one. *)
LEMMA JoinableCases ==
  ASSUME NEW e1 \in Leaf, NEW e2 \in Leaf, Joinable(e1, e2)
  PROVE  /\ SymbolOf(e1) \in Logical
         /\ About(e1, SymbolOf(e1)) /\ About(e2, SymbolOf(e1))
BY LeafCases DEF Joinable, SymbolOf, Logical

(* What a leaf that is a comparison or the symbol itself is worth. *)
LEMMA ComparedLeaf ==
  ASSUME NEW env, Consistent(env), NEW s \in Logical, NEW e, About(e, s)
  PROVE  /\ e.type = "SYMBOL" => e = Symbol(s) /\ LeafValue(env, e) = env.tri[s]
         /\ e.type \in {"EQUAL", "UNEQUAL"} => e.rsym \in Tests
         /\ e.type = "EQUAL" =>
              LeafValue(env, e) = IF env.tri[s] = env.tri[e.rsym] THEN yes ELSE no
         /\ e.type = "UNEQUAL" =>
              LeafValue(env, e) = IF env.tri[s] = env.tri[e.rsym] THEN no ELSE yes
<1>1. CASE e = Symbol(s)
  BY <1>1, LeafValues DEF Symbol, Tests
<1>2. CASE e.type = "NOT"
  BY <1>2
<1>3. ASSUME NEW t \in {"EQUAL", "UNEQUAL"}, NEW c \in Tests, e = Compare(t, s, c)
      PROVE  /\ e.type = t /\ e.rsym = c
             /\ t = "EQUAL" => LeafValue(env, e) = IF env.tri[s] = env.tri[c] THEN yes ELSE no
             /\ t = "UNEQUAL" => LeafValue(env, e) = IF env.tri[s] = env.tri[c] THEN no ELSE yes
  <2>1. e.type = t /\ e.rsym = c
    BY <1>3 DEF Compare
  <2>2. t = "EQUAL" => LeafValue(env, e) = IF env.tri[s] = env.tri[c] THEN yes ELSE no
    BY <1>3, LeafValues
  <2>3. t = "UNEQUAL" => LeafValue(env, e) = IF env.tri[s] = env.tri[c] THEN no ELSE yes
    BY <1>3, LeafValues
  <2> QED BY <2>1, <2>2, <2>3
<1> QED BY <1>1, <1>2, <1>3 DEF About, Not, Symbol

(* expr_join_or: what two operands of || are joined into is worth the      *)
(* larger of them.                                                         *)
THEOREM OrRuleKeepsValue ==
  ASSUME NEW env, Consistent(env), NEW e1 \in Leaf, NEW e2 \in Leaf, OrRule(e1, e2) # Null
  PROVE  LeafValue(env, OrRule(e1, e2)) = Larger(LeafValue(env, e1), LeafValue(env, e2))
<1> DEFINE s == SymbolOf(e1)
           Pair(a, b) == TypeOf[s] = "tristate" /\ TestBoth(e1, e2, "EQUAL", a, b)
           Excluded == /\ TypeOf[s] = "boolean"
                       /\ \/ e1.type = "SYMBOL" /\ e2.type = "NOT"
                          \/ e2.type = "SYMBOL" /\ e1 = Not(e2)
<1>1. Joinable(e1, e2)
  BY DEF OrRule
<1>2. s \in Logical /\ About(e1, s) /\ About(e2, s)
  BY <1>1, JoinableCases
<1>3. env.tri[s] \in Tristates /\ (TypeOf[s] = "boolean" => env.tri[s] # mod)
  BY <1>2 DEF Consistent, Logical
<1>4. /\ env.tri[SymbolYes] = yes /\ env.tri[SymbolMod] = mod /\ env.tri[SymbolNo] = no
      /\ SymbolYes # SymbolMod /\ SymbolMod # SymbolNo /\ SymbolNo # SymbolYes
  BY SymbolAssumption DEF Consistent
<1>5. \A a, b \in Tests : Pair(a, b) =>
        /\ LeafValue(env, e1) = IF env.tri[s] = env.tri[e1.rsym] THEN yes ELSE no
        /\ LeafValue(env, e2) = IF env.tri[s] = env.tri[e2.rsym] THEN yes ELSE no
        /\ \/ e1.rsym = a /\ e2.rsym = b
           \/ e1.rsym = b /\ e2.rsym = a
  BY <1>2, ComparedLeaf DEF TestBoth
<1>6. \A t \in Tests : LeafValue(env, Compare("UNEQUAL", s, t))
                         = IF env.tri[s] = env.tri[t] THEN no ELSE yes
  BY <1>2, LeafValues
<1>7. CASE Pair(SymbolYes, SymbolMod)
  <2>1. OrRule(e1, e2) = Compare("UNEQUAL", s, SymbolNo)
    BY <1>1, <1>7 DEF OrRule
  <2> QED BY <1>3, <1>4, <1>5, <1>6, <1>7, <2>1 DEF Tests, Tristates, Larger, yes, mod, no
<1>8. CASE Pair(SymbolYes, SymbolNo) /\ ~Pair(SymbolYes, SymbolMod)
  <2>1. OrRule(e1, e2) = Compare("UNEQUAL", s, SymbolMod)
    BY <1>1, <1>8 DEF OrRule
  <2> QED BY <1>3, <1>4, <1>5, <1>6, <1>8, <2>1 DEF Tests, Tristates, Larger, yes, mod, no
<1>9. CASE /\ Pair(SymbolMod, SymbolNo)
           /\ ~Pair(SymbolYes, SymbolNo) /\ ~Pair(SymbolYes, SymbolMod)
  <2>1. OrRule(e1, e2) = Compare("UNEQUAL", s, SymbolYes)
    BY <1>1, <1>9 DEF OrRule
  <2> QED BY <1>3, <1>4, <1>5, <1>6, <1>9, <2>1 DEF Tests, Tristates, Larger, yes, mod, no
<1>10. CASE /\ ~Pair(SymbolMod, SymbolNo)
            /\ ~Pair(SymbolYes, SymbolNo) /\ ~Pair(SymbolYes, SymbolMod)
  <2>1. Excluded /\ OrRule(e1, e2) = Yes
    BY <1>1, <1>10 DEF OrRule
  <2>2. \/ e1 = Symbol(s) /\ e2 = Not(Symbol(s))
        \/ e2 = Symbol(s) /\ e1 = Not(Symbol(s))
    BY <1>1, <1>2, <2>1 DEF About, Symbol, Not, Compare, Joinable
  <2>3. {LeafValue(env, e1), LeafValue(env, e2)} = {no, yes}
    BY <1>2, <1>3, <2>1, <2>2, LeafValues DEF Tests, Tristates, yes, mod, no
  <2> QED BY <2>1, <2>3, ConstantValues DEF Larger, yes, no
<1> QED BY <1>7, <1>8, <1>9, <1>10

(* expr_join_and: what two operands of && are joined into is worth the     *)
(* smaller of them.                                                        *)
THEOREM AndRuleKeepsValue ==
  ASSUME NEW env, Consistent(env), NEW e1 \in Leaf, NEW e2 \in Leaf, AndRule(e1, e2) # Null
  PROVE  LeafValue(env, AndRule(e1, e2)) = Smaller(LeafValue(env, e1), LeafValue(env, e2))
<1> DEFINE s == SymbolOf(e1)
           And(t, a) == SymbolAndTest(e1, e2, t, a)
           Pair(a, b) == TestBoth(e1, e2, "UNEQUAL", a, b)
           EqualFirst == e1.type = "EQUAL" /\ e2.type = "UNEQUAL"
           EqualLast == e1.type = "UNEQUAL" /\ e2.type = "EQUAL"
<1>1. Joinable(e1, e2)
  BY DEF AndRule
<1>2. s \in Logical /\ About(e1, s) /\ About(e2, s)
  BY <1>1, JoinableCases
<1>3. env.tri[s] \in Tristates
  BY <1>2 DEF Consistent, Logical
<1>4. /\ env.tri[SymbolYes] = yes /\ env.tri[SymbolMod] = mod /\ env.tri[SymbolNo] = no
      /\ SymbolYes # SymbolMod /\ SymbolMod # SymbolNo /\ SymbolNo # SymbolYes
      /\ Tests \subseteq ConstSymbols
  BY SymbolAssumption DEF Consistent, Tests
<1>5. \A t \in Tests : /\ LeafValue(env, Compare("EQUAL", s, t))
                            = IF env.tri[s] = env.tri[t] THEN yes ELSE no
                       /\ LeafValue(env, Symbol(s)) = env.tri[s]
  BY <1>2, LeafValues
<1>6. \A t \in {"EQUAL", "UNEQUAL"}, a \in Tests : And(t, a) =>
        \E v, w : /\ v = env.tri[s]
                  /\ w = IF (env.tri[s] = env.tri[a]) = (t = "EQUAL") THEN yes ELSE no
                  /\ \/ LeafValue(env, e1) = v /\ LeafValue(env, e2) = w
                     \/ LeafValue(env, e2) = v /\ LeafValue(env, e1) = w
  BY <1>2, ComparedLeaf DEF SymbolAndTest
<1>7. CASE And("EQUAL", SymbolYes)
  <2>1. AndRule(e1, e2) = Compare("EQUAL", s, SymbolYes)
    BY <1>1, <1>7 DEF AndRule
  <2> QED BY <1>3, <1>4, <1>5, <1>6, <1>7, <2>1 DEF Tests, Tristates, Smaller, yes, mod, no
<1>8. CASE And("UNEQUAL", SymbolNo) /\ ~And("EQUAL", SymbolYes)
  <2>1. AndRule(e1, e2) = Symbol(s)
    BY <1>1, <1>8 DEF AndRule
  <2> QED BY <1>3, <1>4, <1>5, <1>6, <1>8, <2>1 DEF Tests, Tristates, Smaller, yes, mod, no
<1>9. CASE And("UNEQUAL", SymbolMod) /\ ~And("UNEQUAL", SymbolNo) /\ ~And("EQUAL", SymbolYes)
  <2>1. AndRule(e1, e2) = Compare("EQUAL", s, SymbolYes)
    BY <1>1, <1>9 DEF AndRule
  <2> QED BY <1>3, <1>4, <1>5, <1>6, <1>9, <2>1 DEF Tests, Tristates, Smaller, yes, mod, no
<1>10. CASE ~And("UNEQUAL", SymbolMod) /\ ~And("UNEQUAL", SymbolNo) /\ ~And("EQUAL", SymbolYes)
  <2>1. TypeOf[s] = "tristate"
    BY <1>1, <1>10 DEF AndRule
  <2>2. CASE EqualFirst
    <3>1. e1.rsym \in Tests /\ e2.rsym \in Tests
      BY <1>2, <2>2, ComparedLeaf
    <3>2. AndRule(e1, e2) = TestConstants(s, e1.rsym, e2.rsym)
      BY <1>1, <1>4, <1>10, <2>1, <2>2, <3>1 DEF AndRule
    <3>3. /\ LeafValue(env, e1) = IF env.tri[s] = env.tri[e1.rsym] THEN yes ELSE no
          /\ LeafValue(env, e2) = IF env.tri[s] = env.tri[e2.rsym] THEN no ELSE yes
      BY <1>2, <2>2, ComparedLeaf
    <3>4. CASE e1.rsym = e2.rsym
      BY <3>2, <3>3, <3>4, ConstantValues DEF TestConstants, Smaller, yes, no
    <3>5. CASE e1.rsym # e2.rsym
      <4>1. AndRule(e1, e2) = Compare("EQUAL", s, e1.rsym)
        BY <3>2, <3>5 DEF TestConstants
      <4>2. env.tri[e1.rsym] # env.tri[e2.rsym]
        BY <1>4, <3>1, <3>5 DEF Tests, yes, mod, no
      <4> QED BY <1>5, <3>1, <3>3, <4>1, <4>2 DEF Smaller, yes, no
    <3> QED BY <3>4, <3>5
  <2>3. CASE EqualLast
    <3>1. e1.rsym \in Tests /\ e2.rsym \in Tests
      BY <1>2, <2>3, ComparedLeaf
    <3>2. AndRule(e1, e2) = TestConstants(s, e2.rsym, e1.rsym)
      BY <1>1, <1>4, <1>10, <2>1, <2>3, <3>1 DEF AndRule
    <3>3. /\ LeafValue(env, e1) = IF env.tri[s] = env.tri[e1.rsym] THEN no ELSE yes
          /\ LeafValue(env, e2) = IF env.tri[s] = env.tri[e2.rsym] THEN yes ELSE no
      BY <1>2, <2>3, ComparedLeaf
    <3>4. CASE e1.rsym = e2.rsym
      BY <3>2, <3>3, <3>4, ConstantValues DEF TestConstants, Smaller, yes, no
    <3>5. CASE e1.rsym # e2.rsym
      <4>1. AndRule(e1, e2) = Compare("EQUAL", s, e2.rsym)
        BY <3>2, <3>5 DEF TestConstants
      <4>2. env.tri[e1.rsym] # env.tri[e2.rsym]
        BY <1>4, <3>1, <3>5 DEF Tests, yes, mod, no
      <4> QED BY <1>5, <3>1, <3>3, <4>1, <4>2 DEF Smaller, yes, no
    <3> QED BY <3>4, <3>5
  <2>4. CASE ~EqualFirst /\ ~EqualLast
    <3>1. \/ Pair(SymbolYes, SymbolNo) /\ AndRule(e1, e2) = Compare("EQUAL", s, SymbolMod)
          \/ Pair(SymbolYes, SymbolMod) /\ AndRule(e1, e2) = Compare("EQUAL", s, SymbolNo)
          \/ Pair(SymbolMod, SymbolNo) /\ AndRule(e1, e2) = Compare("EQUAL", s, SymbolYes)
      BY <1>1, <1>10, <2>1, <2>4 DEF AndRule
    <3>2. \A a, b \in Tests : Pair(a, b) =>
            /\ LeafValue(env, e1) = IF env.tri[s] = env.tri[e1.rsym] THEN no ELSE yes
            /\ LeafValue(env, e2) = IF env.tri[s] = env.tri[e2.rsym] THEN no ELSE yes
            /\ \/ e1.rsym = a /\ e2.rsym = b
               \/ e1.rsym = b /\ e2.rsym = a
      BY <1>2, ComparedLeaf DEF TestBoth
    <3> QED BY <1>3, <1>4, <1>5, <3>1, <3>2 DEF Tests, Tristates, Smaller, yes, mod, no
  <2> QED BY <2>2, <2>3, <2>4
<1> QED BY <1>7, <1>8, <1>9, <1>10

(* expr_transform: a comparison of a boolean with y, m or n is worth what  *)
(* it is rewritten to; m is taken to be out of reach of a boolean.         *)
THEOREM BooleanTestKeepsValue ==
  ASSUME NEW env, Consistent(env), NEW s \in Logical, NEW c \in Tests,
         NEW t \in {"EQUAL", "UNEQUAL"}
  PROVE  LeafValue(env, BooleanTest(Compare(t, s, c))) = LeafValue(env, Compare(t, s, c))
<1> DEFINE e == Compare(t, s, c)
<1>1. e.type = t /\ e.sym = s /\ e.rsym = c
  BY DEF Compare
<1>2. env.tri[s] \in Tristates /\ (TypeOf[s] = "boolean" => env.tri[s] # mod)
  BY DEF Consistent, Logical
<1>3. /\ env.tri[SymbolYes] = yes /\ env.tri[SymbolMod] = mod /\ env.tri[SymbolNo] = no
      /\ SymbolYes # SymbolMod /\ SymbolMod # SymbolNo /\ SymbolNo # SymbolYes
  BY SymbolAssumption DEF Consistent
<1>4. LeafValue(env, e) = IF (env.tri[s] = env.tri[c]) = (t = "EQUAL") THEN yes ELSE no
  <2>1. CASE t = "EQUAL"
    BY <2>1, LeafValues
  <2>2. CASE t = "UNEQUAL"
    BY <2>2, LeafValues
  <2> QED BY <2>1, <2>2
<1>5. /\ LeafValue(env, Symbol(s)) = env.tri[s] /\ LeafValue(env, Not(Symbol(s))) = yes - env.tri[s]
      /\ LeafValue(env, Yes) = yes /\ LeafValue(env, No) = no
  BY LeafValues, ConstantValues
<1>6. CASE TypeOf[s] # "boolean"
  BY <1>1, <1>6 DEF BooleanTest
<1>7. CASE TypeOf[s] = "boolean" /\ c = SymbolNo
  <2>1. BooleanTest(e) = IF t = "EQUAL" THEN Not(Symbol(s)) ELSE Symbol(s)
    BY <1>1, <1>3, <1>7 DEF BooleanTest, BooleanRule
  <2> QED BY <1>2, <1>3, <1>4, <1>5, <1>7, <2>1 DEF Tristates, yes, mod, no
<1>8. CASE TypeOf[s] = "boolean" /\ c = SymbolMod
  <2>1. BooleanTest(e) = IF t = "EQUAL" THEN No ELSE Yes
    BY <1>1, <1>3, <1>8 DEF BooleanTest, BooleanRule
  <2> QED BY <1>2, <1>3, <1>4, <1>5, <1>8, <2>1 DEF Tristates, yes, mod, no
<1>9. CASE TypeOf[s] = "boolean" /\ c = SymbolYes
  <2>1. BooleanTest(e) = IF t = "EQUAL" THEN Symbol(s) ELSE Not(Symbol(s))
    BY <1>1, <1>3, <1>9 DEF BooleanTest, BooleanRule
  <2> QED BY <1>2, <1>3, <1>4, <1>5, <1>9, <2>1 DEF Tristates, yes, mod, no
<1> QED BY <1>6, <1>7, <1>8, <1>9 DEF Tests

(* expr_transform: a negated comparison, of any two symbols, is worth what *)
(* the opposite comparison is.                                             *)
THEOREM OppositeIsNegation ==
  ASSUME NEW env, NEW s1 \in Symbols, NEW s2 \in Symbols, NEW t \in Comparisons,
         Difference(env, s1, s2) \in Int
  PROVE  LeafValue(env, Compare(Opposite[t], s1, s2)) = LeafValue(env, Not(Compare(t, s1, s2)))
<1>1. Opposite[t] \in Comparisons
  BY DEF Opposite, Comparisons
<1>2. Holds(Opposite[t], Difference(env, s1, s2)) <=> ~Holds(t, Difference(env, s1, s2))
  BY DEF Holds, Opposite, Comparisons
<1>3. ASSUME NEW u \in Comparisons
      PROVE  /\ LeafValue(env, Compare(u, s1, s2))
                  = IF Holds(u, Difference(env, s1, s2)) THEN yes ELSE no
             /\ LeafValue(env, Not(Compare(u, s1, s2)))
                  = IF Holds(u, Difference(env, s1, s2)) THEN no ELSE yes
  BY DEF LeafValue, BaseValue, Compare, Not, Comparisons, yes, no
<1> QED BY <1>1, <1>2, <1>3
(***************************************************************************)
(* Numbers.  The library has that < is well founded on them, which is      *)
(* enough for induction over a set of numbers and for the least of one.    *)
(***************************************************************************)
NatLess == OpToRel(<, Nat)

(* The order of the numbers has no endless descent. *)
LEMMA NatLessFounded == IsWellFoundedOn(NatLess, Nat)
BY NatLessThanWellFounded DEF NatLess

(* A smaller number stands in it to a larger one. *)
LEMMA NatLessIs == \A x, y \in Nat : x < y => <<x, y>> \in NatLess
BY DEF NatLess, OpToRel

(* Induction over the numbers, for a set of them. *)
LEMMA NatByStep ==
  ASSUME NEW S \in SUBSET Nat, 0 \in S, \A n \in S : n + 1 \in S
  PROVE  S = Nat
<1> DEFINE T == Nat \ S
<1>1. SUFFICES ASSUME T # {} PROVE FALSE
  OBVIOUS
<1>2. PICK x \in T : \A y \in T : ~(<<y, x>> \in NatLess)
  <2>1. T \subseteq Nat OBVIOUS
  <2> HIDE DEF T
  <2> QED BY <1>1, <2>1, NatLessFounded, WFMin
<1>3. x # 0 /\ x \in Nat /\ x - 1 \in Nat BY <1>2
<1>4. <<x - 1, x>> \in NatLess BY <1>3, NatLessIs
<1>5. x - 1 \in S BY <1>2, <1>3, <1>4
<1>6. x \in S BY <1>5, <1>3
<1> QED BY <1>6, <1>2

(* A set of numbers has a least one, so Min picks one of its members. *)
LEMMA LeastOf == ASSUME NEW S \in SUBSET Nat, S # {} PROVE Min(S) \in S
<1>1. PICK x \in S : \A y \in S : ~(<<y, x>> \in NatLess)
  BY NatLessFounded, WFMin
<1>2. ASSUME NEW y \in S PROVE x <= y
  <2>1. x \in Nat /\ y \in Nat OBVIOUS
  <2>2. ~(y < x) BY <1>1, <2>1, NatLessIs
  <2> QED BY <2>1, <2>2
<1> QED BY <1>2 DEF Min

(***************************************************************************)
(* The lists of lxdialog                                                   *)
(***************************************************************************)
(* f is what the loop of a page makes of d, step by step. *)
Loop(f, d, by, n) == f = [i \in 0 .. n |-> IF i = 0 THEN d ELSE Line(f[i - 1], by)]

(* The loop has a value, however long. *)
LEMMA LoopExists == ASSUME NEW d, NEW by PROVE \A n \in Nat : \E f : Loop(f, d, by, n)
<1> DEFINE S == {k \in Nat : \E f : Loop(f, d, by, k)}
<1>1. 0 \in S
  <2> DEFINE f == [i \in 0 .. 0 |-> d]
  <2>1. Loop(f, d, by, 0) BY DEF Loop
  <2> QED BY <2>1
<1>2. ASSUME NEW k \in S PROVE k + 1 \in S
  <2>1. PICK f : Loop(f, d, by, k) OBVIOUS
  <2> DEFINE g == [i \in 0 .. k + 1 |-> IF i = 0 THEN d ELSE Line(f[i - 1], by)]
  <2>2. \A i \in 0 .. k : g[i] = f[i] BY <2>1 DEF Loop
  <2>3. k \in Nat OBVIOUS
  <2>4. \A i \in 0 .. k + 1 : i # 0 => i - 1 \in 0 .. k BY <2>3
  <2>5. \A i \in 0 .. k + 1 : i # 0 => g[i - 1] = f[i - 1] BY <2>2, <2>4
  <2>6. Loop(g, d, by, k + 1) BY <2>5 DEF Loop
  <2> HIDE DEF g
  <2> QED BY <2>3, <2>6
<1>3. S = Nat
  <2>1. S \in SUBSET Nat OBVIOUS
  <2> HIDE DEF S
  <2> QED BY <1>1, <1>2, <2>1, NatByStep
<1> QED BY <1>3

(* So a page is what the loop ends with. *)
LEMMA PageIs ==
  ASSUME NEW d, NEW by, d.max \in Nat
  PROVE  \E f : Loop(f, d, by, d.max) /\ Paged(d, by) = f[d.max]
<1>1. \E f : Loop(f, d, by, d.max) BY LoopExists
<1> QED BY <1>1, Zenon DEF Paged, Loop

Row == [item : Int, lit : BOOLEAN]
AnyRows == UNION {[1 .. n -> Row] : n \in Nat}
Dialog ==
  [kind : {"menu", "checklist"}, items : ItemLists, height : Nat, max : Nat, scroll : Int,
   choice : Int, first : Int, selected : Int, saved : Int, rows : AnyRows, button : Int,
   result : {"closed", "none", "chosen", "esc", "crash"}, code : Int, picked : Int,
   stale : BOOLEAN]

(* The window lies on the list and the choice in the window. *)
Window(d) ==
  /\ d \in Dialog
  /\ d.height > 0 /\ d.max = Fewer(d.height, Count(d)) /\ d.rows \in [1 .. d.height -> Row]
  /\ d.scroll \in 0 .. Count(d) - d.max
  /\ Count(d) > 0 => d.choice \in 0 .. d.max - 1

(* The rows show the items of the window, the row lit being highlighted. *)
Shows(d, lit) ==
  ~d.stale =>
    \A i \in 1 .. d.max : d.rows[i] = [item |-> d.scroll + i - 1, lit |-> i - 1 = lit]

(* What a key that moves leaves alone. *)
Same(d, e) ==
  /\ e.kind = d.kind /\ e.items = d.items /\ e.height = d.height /\ e.max = d.max
  /\ e.selected = d.selected /\ e.result = d.result /\ e.stale = d.stale

(* A window on a list with items, with no row lit or with that of the choice lit. *)
Dark(d) == Window(d) /\ Shows(d, -1) /\ Count(d) > 0
Bright(d) == Window(d) /\ Shows(d, d.choice) /\ Count(d) > 0

(* A list has a number of items. *)
LEMMA CountIs == ASSUME ListSizes, NEW d \in Dialog PROVE Count(d) \in Nat
BY DEF ListSizes, Dialog, Count

(* Rows of any window are rows. *)
LEMMA RowsTyped == ASSUME NEW n \in Nat, NEW f \in [1 .. n -> Row] PROVE f \in AnyRows
BY DEF AnyRows

(* What the arithmetic on a window needs. *)
LEMMA InWindow ==
  ASSUME ListSizes, NEW d, Window(d), Count(d) > 0
  PROVE  /\ d.height \in Nat \ {0} /\ d.max \in Nat \ {0} /\ d.max <= d.height /\ d.max <= Count(d)
         /\ d.scroll \in Int /\ d.choice \in 0 .. d.max - 1 /\ d.choice \in 0 .. d.height - 1
         /\ d.rows \in [1 .. d.height -> Row]
<1>1. /\ d \in Dialog /\ d.height > 0 /\ d.max = Fewer(d.height, Count(d))
      /\ d.choice \in 0 .. d.max - 1 /\ d.rows \in [1 .. d.height -> Row]
  BY DEF Window
<1>2. Count(d) \in Nat BY <1>1, CountIs
<1>3. d.height \in Nat /\ d.scroll \in Int BY <1>1 DEF Dialog
<1>4. d.max \in Nat \ {0} /\ d.max <= d.height /\ d.max <= Count(d) BY <1>1, <1>2, <1>3 DEF Fewer
<1>5. d.choice \in 0 .. d.height - 1 BY <1>1, <1>3, <1>4
<1> QED BY <1>1, <1>3, <1>4, <1>5

(* e is d with another row at `at'. *)
Printed(d, e, at, row) ==
  /\ e \in Dialog /\ e = [d EXCEPT !.rows = e.rows]
  /\ e.rows \in [1 .. d.height -> Row]
  /\ e.rows[at] = row
  /\ \A i \in 1 .. d.height : i # at => e.rows[i] = d.rows[i]

(* print_item changes one row. *)
LEMMA PrintIs ==
  ASSUME NEW d \in Dialog, NEW row \in 0 .. d.height - 1, NEW item \in Int, NEW lit \in BOOLEAN,
         d.rows \in [1 .. d.height -> Row]
  PROVE  Printed(d, PrintItem(d, row, item, lit), row + 1, [item |-> item, lit |-> lit])
<1> DEFINE r == [d.rows EXCEPT ![row + 1] = [item |-> item, lit |-> lit]]
<1>1. PrintItem(d, row, item, lit) = [d EXCEPT !.rows = r] BY DEF PrintItem
<1>2. d.height \in Nat /\ row + 1 \in 1 .. d.height BY DEF Dialog
<1>3. [item |-> item, lit |-> lit] \in Row BY DEF Row
<1>4. /\ r \in [1 .. d.height -> Row] /\ r[row + 1] = [item |-> item, lit |-> lit]
      /\ \A i \in 1 .. d.height : i # row + 1 => r[i] = d.rows[i]
  BY <1>2, <1>3
<1>5. r \in AnyRows BY <1>2, <1>4, RowsTyped
<1> HIDE DEF r
<1>6. [d EXCEPT !.rows = r] \in Dialog /\ [d EXCEPT !.rows = r].rows = r BY <1>5 DEF Dialog
<1> QED BY <1>1, <1>4, <1>6 DEF Printed

(* Printing the choice plain darkens the window. *)
LEMMA UnlitIs ==
  ASSUME ListSizes, NEW d, Bright(d)
  PROVE  Dark(Unlit(d)) /\ Same(d, Unlit(d)) /\ Unlit(d).choice = d.choice /\ Unlit(d).scroll = d.scroll
<1> DEFINE e == Unlit(d)
<1>1. d \in Dialog /\ Count(d) \in Nat /\ d.height \in Nat BY CountIs DEF Bright, Window, Dialog
<1>2. /\ d.choice \in 0 .. d.max - 1 /\ d.max <= d.height /\ d.max \in Nat
      /\ d.choice \in 0 .. d.height - 1 /\ d.scroll + d.choice \in Int
      /\ d.rows \in [1 .. d.height -> Row]
  <2>1. Window(d) /\ Count(d) > 0 BY DEF Bright
  <2> QED BY <2>1, InWindow
<1>3. /\ e \in Dialog /\ e = [d EXCEPT !.rows = e.rows]
      /\ e.rows \in [1 .. d.height -> Row]
      /\ e.rows[d.choice + 1] = [item |-> d.scroll + d.choice, lit |-> FALSE]
      /\ \A i \in 1 .. d.height : i # d.choice + 1 => e.rows[i] = d.rows[i]
  <2>1. Printed(d, e, d.choice + 1, [item |-> d.scroll + d.choice, lit |-> FALSE])
    BY <1>1, <1>2, PrintIs DEF Unlit
  <2> HIDE DEF e
  <2> QED BY <2>1 DEF Printed
<1> HIDE DEF e
<1>4. Same(d, e) /\ e.choice = d.choice /\ e.scroll = d.scroll
  BY <1>1, <1>3 DEF Same, Dialog
<1>5. Window(e) BY <1>1, <1>2, <1>3, <1>4 DEF Bright, Window, Same, Count
<1>6. ASSUME ~e.stale, NEW i \in 1 .. e.max
      PROVE  e.rows[i] = [item |-> e.scroll + i - 1, lit |-> i - 1 = -1]
  <2>1. /\ i \in 1 .. d.height /\ i \in 1 .. d.max /\ i - 1 # -1
        /\ d.scroll \in Int /\ d.choice \in Int /\ i \in Int /\ e.scroll = d.scroll
    <3>1. e.max = d.max /\ e.scroll = d.scroll /\ d.scroll \in Int BY <1>1, <1>4 DEF Same, Dialog
    <3> QED BY <1>1, <1>2, <3>1
  <2>2. CASE i = d.choice + 1
    <3>1. d.scroll + d.choice = e.scroll + i - 1 BY <2>1, <2>2
    <3> QED BY <1>3, <2>1, <2>2, <3>1
  <2>3. CASE i # d.choice + 1
    <3>1. d.rows[i] = [item |-> d.scroll + i - 1, lit |-> i - 1 = d.choice]
      BY <1>4, <1>6, <2>1 DEF Bright, Shows, Same
    <3>2. i - 1 # d.choice BY <2>1, <2>3
    <3> QED BY <1>3, <2>1, <2>3, <3>1, <3>2
  <2> QED BY <2>2, <2>3
<1> QED BY <1>4, <1>5, <1>6 DEF Dark, Shows, Bright, Same, Count, e

(* Printing the choice highlighted lights it again. *)
LEMMA LitIs ==
  ASSUME ListSizes, NEW d, Dark(d)
  PROVE  Bright(Lit(d)) /\ Same(d, Lit(d))
<1> DEFINE e == Lit(d)
<1>1. d \in Dialog /\ Count(d) \in Nat /\ d.height \in Nat BY CountIs DEF Dark, Window, Dialog
<1>2. /\ d.choice \in 0 .. d.max - 1 /\ d.max <= d.height /\ d.max \in Nat
      /\ d.choice \in 0 .. d.height - 1 /\ d.scroll + d.choice \in Int
      /\ d.rows \in [1 .. d.height -> Row]
  <2>1. Window(d) /\ Count(d) > 0 BY DEF Dark
  <2> QED BY <2>1, InWindow
<1>3. /\ e \in Dialog /\ e = [d EXCEPT !.rows = e.rows]
      /\ e.rows \in [1 .. d.height -> Row]
      /\ e.rows[d.choice + 1] = [item |-> d.scroll + d.choice, lit |-> TRUE]
      /\ \A i \in 1 .. d.height : i # d.choice + 1 => e.rows[i] = d.rows[i]
  <2>1. Printed(d, e, d.choice + 1, [item |-> d.scroll + d.choice, lit |-> TRUE])
    BY <1>1, <1>2, PrintIs DEF Lit
  <2> HIDE DEF e
  <2> QED BY <2>1 DEF Printed
<1> HIDE DEF e
<1>4. Same(d, e) /\ e.choice = d.choice /\ e.scroll = d.scroll
  BY <1>1, <1>3 DEF Same, Dialog
<1>5. Window(e) BY <1>1, <1>2, <1>3, <1>4 DEF Dark, Window, Same, Count
<1>6. ASSUME ~e.stale, NEW i \in 1 .. e.max
      PROVE  e.rows[i] = [item |-> e.scroll + i - 1, lit |-> i - 1 = e.choice]
  <2>1. /\ i \in 1 .. d.height /\ i \in 1 .. d.max /\ i - 1 # -1
        /\ d.scroll \in Int /\ d.choice \in Int /\ i \in Int
    <3>1. e.max = d.max /\ d.scroll \in Int BY <1>1, <1>4 DEF Same, Dialog
    <3> QED BY <1>1, <1>2, <3>1
  <2>2. CASE i = d.choice + 1
    <3>1. d.scroll + d.choice = e.scroll + i - 1 /\ i - 1 = e.choice BY <1>4, <2>1, <2>2
    <3> QED BY <1>3, <2>1, <2>2, <3>1
  <2>3. CASE i # d.choice + 1
    <3>1. d.rows[i] = [item |-> d.scroll + i - 1, lit |-> i - 1 = -1]
      BY <1>4, <1>6, <2>1 DEF Dark, Shows, Same
    <3>2. i - 1 # e.choice BY <1>4, <2>1, <2>3
    <3> QED BY <1>3, <1>4, <2>1, <2>3, <3>1, <3>2
  <2> QED BY <2>2, <2>3
<1> QED BY <1>4, <1>5, <1>6 DEF Dark, Shows, Bright, Same, Count, e

(* e is d with its rows, and the window, moved by `by'. *)
Moved(d, e, by) ==
  /\ e \in Dialog /\ e = [d EXCEPT !.rows = e.rows, !.scroll = d.scroll + by]
  /\ e.rows \in [1 .. d.height -> Row]
  /\ \A i \in 1 .. d.height : i + by \in 1 .. d.height => e.rows[i] = d.rows[i + by]

(* wscrl moves the rows and the window together. *)
LEMMA ScrollIs ==
  ASSUME NEW d \in Dialog, d.rows \in [1 .. d.height -> Row], NEW by \in {-1, 1}
  PROVE  Moved(d, Scroll(d, by), by)
<1> DEFINE r == Shifted(d.rows, by)
<1>1. d.height \in Nat /\ d.scroll + by \in Int BY DEF Dialog
<1>2. \A i \in 1 .. d.height : RowOr(d.rows, i + by) \in Row
  BY <1>1 DEF RowOr, Nothing, Row
<1>3. r = [i \in 1 .. d.height |-> RowOr(d.rows, i + by)] BY DEF Shifted
<1>4. r \in [1 .. d.height -> Row] BY <1>2, <1>3
<1>5. \A i \in 1 .. d.height : i + by \in 1 .. d.height => r[i] = d.rows[i + by]
  BY <1>3 DEF RowOr
<1>6. r \in AnyRows BY <1>1, <1>4, RowsTyped
<1>7. Scroll(d, by) = [d EXCEPT !.rows = r, !.scroll = d.scroll + by]
  BY DEF Scroll, Dialog
<1> HIDE DEF r
<1>8. Scroll(d, by) \in Dialog /\ Scroll(d, by).rows = r BY <1>1, <1>6, <1>7 DEF Dialog
<1> QED BY <1>4, <1>5, <1>7, <1>8 DEF Moved

(* A dark window scrolled by one row, the row that appears being printed. *)
LEMMA UpOne ==
  ASSUME ListSizes, NEW d, Dark(d), d.scroll > 0
  PROVE  Dark(PrintTop(Scroll(d, -1))) /\ Same(d, PrintTop(Scroll(d, -1)))
<1> DEFINE e == Scroll(d, -1)
           g == PrintTop(e)
<1>1. d \in Dialog /\ Count(d) \in Nat /\ d.height \in Nat BY CountIs DEF Dark, Window, Dialog
<1>2. /\ d.choice \in 0 .. d.max - 1 /\ d.max <= d.height /\ d.max \in Nat
      /\ d.rows \in [1 .. d.height -> Row] /\ d.scroll \in Int
  <2>1. Window(d) /\ Count(d) > 0 BY DEF Dark
  <2> QED BY <2>1, InWindow
<1>3. /\ e \in Dialog /\ e = [d EXCEPT !.rows = e.rows, !.scroll = d.scroll + (-1)]
      /\ e.rows \in [1 .. d.height -> Row]
      /\ \A i \in 1 .. d.height : i + (-1) \in 1 .. d.height => e.rows[i] = d.rows[i + (-1)]
  <2>1. Moved(d, e, -1) BY <1>1, <1>2, ScrollIs
  <2> HIDE DEF e
  <2> QED BY <2>1 DEF Moved
<1> HIDE DEF e
<1>4. Same(d, e) /\ e.choice = d.choice /\ e.scroll = d.scroll - 1
  BY <1>1, <1>2, <1>3 DEF Same, Dialog
<1>5. /\ e.height = d.height /\ 0 \in 0 .. e.height - 1 /\ e.scroll \in Int
      /\ e.rows \in [1 .. e.height -> Row]
  BY <1>1, <1>2, <1>3, <1>4 DEF Same
<1>20. g = PrintItem(e, 0, e.scroll, FALSE) BY DEF PrintTop
<1>21. FALSE \in BOOLEAN /\ 0 + 1 = 1 OBVIOUS
<1> HIDE DEF g
<1>6. /\ g \in Dialog /\ g = [e EXCEPT !.rows = g.rows]
      /\ g.rows \in [1 .. e.height -> Row]
      /\ g.rows[1] = [item |-> e.scroll, lit |-> FALSE]
      /\ \A i \in 1 .. e.height : i # 1 => g.rows[i] = e.rows[i]
  <2>1. Printed(e, g, 0 + 1, [item |-> e.scroll, lit |-> FALSE])
    BY <1>3, <1>5, <1>20, PrintIs
  <2> QED BY <2>1, <1>21 DEF Printed
<1>7. Same(d, g) /\ g.choice = d.choice /\ g.scroll = d.scroll - 1
  BY <1>3, <1>4, <1>6 DEF Same, Dialog
<1>8. Window(g)
  <2>1. Count(g) = Count(d) /\ g.max = d.max /\ g.height = d.height
    BY <1>7 DEF Same, Count
  <2>2. g.scroll \in 0 .. Count(g) - g.max
    <3>1. d.scroll \in 0 .. Count(d) - d.max /\ d.scroll > 0 BY <1>1, <1>2 DEF Dark, Window
    <3> QED BY <1>1, <1>2, <1>7, <2>1, <3>1
  <2> QED BY <1>2, <1>5, <1>6, <1>7, <2>1, <2>2 DEF Dark, Window
<1>9. ASSUME ~g.stale, NEW i \in 1 .. g.max
      PROVE  g.rows[i] = [item |-> g.scroll + i - 1, lit |-> i - 1 = -1]
  <2>1. i \in 1 .. d.height /\ i \in 1 .. d.max /\ i - 1 # -1 /\ i \in Int
    BY <1>1, <1>2, <1>7 DEF Same, Dialog
  <2>2. CASE i = 1
    <3>1. e.scroll = g.scroll + i - 1 BY <1>2, <1>4, <1>7, <2>1, <2>2
    <3> QED BY <1>6, <2>1, <2>2, <3>1
  <2>3. CASE i # 1
    <3>4. i + (-1) \in 1 .. d.height /\ i + (-1) \in 1 .. d.max
      BY <1>1, <1>2, <2>1, <2>3
    <3>5. (i + (-1)) - 1 # -1 BY <2>1, <2>3
    <3>6. d.scroll + (i + (-1)) - 1 = g.scroll + i - 1 BY <1>2, <1>7, <2>1
    <3>1. /\ i + (-1) \in 1 .. d.height /\ i + (-1) \in 1 .. d.max /\ (i + (-1)) - 1 # -1
          /\ d.scroll + (i + (-1)) - 1 = g.scroll + i - 1
      BY <3>4, <3>5, <3>6
    <3>2. d.rows[i + (-1)] = [item |-> d.scroll + (i + (-1)) - 1, lit |-> (i + (-1)) - 1 = -1]
      BY <1>7, <1>9, <3>1 DEF Dark, Shows, Same
    <3>3. g.rows[i] = d.rows[i + (-1)] BY <1>3, <1>5, <1>6, <2>1, <2>3, <3>1
    <3> QED BY <2>1, <3>1, <3>2, <3>3
  <2> QED BY <2>2, <2>3
<1> QED BY <1>7, <1>8, <1>9 DEF Dark, Shows, Same, Count, g, e

(* The same, the other way. *)
LEMMA DownOne ==
  ASSUME ListSizes, NEW d, Dark(d), MoreBelow(d)
  PROVE  Dark(PrintBottom(Scroll(d, 1))) /\ Same(d, PrintBottom(Scroll(d, 1)))
<1> DEFINE e == Scroll(d, 1)
           g == PrintBottom(e)
<1>1. d \in Dialog /\ Count(d) \in Nat /\ d.height \in Nat BY CountIs DEF Dark, Window, Dialog
<1>2. /\ d.choice \in 0 .. d.max - 1 /\ d.max = d.height /\ d.max \in Nat \ {0}
      /\ d.rows \in [1 .. d.height -> Row] /\ d.scroll \in Nat /\ d.scroll + d.max < Count(d)
  <2>1. Window(d) /\ Count(d) > 0 BY DEF Dark
  <2>2. d.scroll \in 0 .. Count(d) - d.max /\ d.max = Fewer(d.height, Count(d)) BY <2>1 DEF Window
  <2>3. d.scroll + d.max < Count(d) BY DEF MoreBelow
  <2>4. d.scroll \in Nat /\ d.max < Count(d) BY <1>1, <2>1, <2>2, <2>3, InWindow
  <2>5. d.max = d.height BY <1>1, <2>2, <2>4 DEF Fewer
  <2> QED BY <2>1, <2>3, <2>4, <2>5, InWindow
<1>3. /\ e \in Dialog /\ e = [d EXCEPT !.rows = e.rows, !.scroll = d.scroll + 1]
      /\ e.rows \in [1 .. d.height -> Row]
      /\ \A i \in 1 .. d.height : i + 1 \in 1 .. d.height => e.rows[i] = d.rows[i + 1]
  <2>1. Moved(d, e, 1) BY <1>1, <1>2, ScrollIs
  <2> HIDE DEF e
  <2> QED BY <2>1 DEF Moved
<1> HIDE DEF e
<1>4. Same(d, e) /\ e.choice = d.choice /\ e.scroll = d.scroll + 1
  BY <1>1, <1>2, <1>3 DEF Same, Dialog
<1>5. /\ e.height = d.height /\ e.max = d.max /\ e.max - 1 \in 0 .. e.height - 1
      /\ e.scroll + e.max - 1 \in Int /\ e.rows \in [1 .. e.height -> Row]
      /\ e.max - 1 + 1 = d.max
  BY <1>1, <1>2, <1>3, <1>4 DEF Same
<1>6. g = PrintItem(e, e.max - 1, e.scroll + e.max - 1, FALSE) BY DEF PrintBottom
<1> HIDE DEF g
<1>7. /\ g \in Dialog /\ g = [e EXCEPT !.rows = g.rows]
      /\ g.rows \in [1 .. e.height -> Row]
      /\ g.rows[d.max] = [item |-> e.scroll + e.max - 1, lit |-> FALSE]
      /\ \A i \in 1 .. e.height : i # d.max => g.rows[i] = e.rows[i]
  <2>1. Printed(e, g, e.max - 1 + 1, [item |-> e.scroll + e.max - 1, lit |-> FALSE])
    BY <1>3, <1>5, <1>6, PrintIs
  <2> QED BY <2>1, <1>5 DEF Printed
<1>8. Same(d, g) /\ g.choice = d.choice /\ g.scroll = d.scroll + 1
  BY <1>3, <1>4, <1>7 DEF Same, Dialog
<1>9. Window(g)
  <2>1. Count(g) = Count(d) /\ g.max = d.max /\ g.height = d.height
    BY <1>8 DEF Same, Count
  <2>2. g.scroll \in 0 .. Count(g) - g.max BY <1>1, <1>2, <1>8, <2>1
  <2> QED BY <1>2, <1>5, <1>7, <1>8, <2>1, <2>2 DEF Dark, Window
<1>10. ASSUME ~g.stale, NEW i \in 1 .. g.max
       PROVE  g.rows[i] = [item |-> g.scroll + i - 1, lit |-> i - 1 = -1]
  <2>1. i \in 1 .. d.height /\ i \in 1 .. d.max /\ i - 1 # -1 /\ i \in Int
    BY <1>1, <1>2, <1>8 DEF Same, Dialog
  <2>2. CASE i = d.max
    <3>1. e.scroll + e.max - 1 = g.scroll + i - 1 BY <1>2, <1>4, <1>5, <1>8, <2>1, <2>2
    <3> QED BY <1>7, <2>1, <2>2, <3>1
  <2>3. CASE i # d.max
    <3>1. i + 1 \in 1 .. d.height /\ i + 1 \in 1 .. d.max
      BY <1>1, <1>2, <2>1, <2>3
    <3>2. (i + 1) - 1 # -1 BY <2>1, <2>3
    <3>3. d.scroll + (i + 1) - 1 = g.scroll + i - 1 BY <1>2, <1>8, <2>1
    <3>4. d.rows[i + 1] = [item |-> d.scroll + (i + 1) - 1, lit |-> (i + 1) - 1 = -1]
      BY <1>8, <1>10, <3>1 DEF Dark, Shows, Same
    <3>5. g.rows[i] = d.rows[i + 1] BY <1>3, <1>5, <1>7, <2>1, <2>3, <3>1
    <3> QED BY <2>1, <3>2, <3>3, <3>4, <3>5
  <2> QED BY <2>2, <2>3
<1> QED BY <1>8, <1>9, <1>10 DEF Dark, Shows, Same, Count, g, e

(* The choice moves within a dark window. *)
LEMMA ChooseIs ==
  ASSUME ListSizes, NEW d, Dark(d), NEW k \in 0 .. d.max - 1
  PROVE  Dark([d EXCEPT !.choice = k]) /\ Same(d, [d EXCEPT !.choice = k])
<1> DEFINE e == [d EXCEPT !.choice = k]
<1>1. d \in Dialog /\ d.max \in Nat BY DEF Dark, Window, Dialog
<1>2. k \in Int BY <1>1
<1>3. /\ e \in Dialog /\ Same(d, e) /\ e.choice = k /\ e.scroll = d.scroll /\ e.rows = d.rows
  BY <1>1, <1>2 DEF Same, Dialog
<1> HIDE DEF e
<1>4. Window(e) BY <1>1, <1>3 DEF Dark, Window, Same, Count
<1>5. Shows(e, -1) BY <1>3 DEF Dark, Shows, Same
<1> QED BY <1>3, <1>4, <1>5 DEF Dark, Same, Count, e

(* A key that only moves the choice. *)
LEMMA MoveIs ==
  ASSUME ListSizes, NEW d, Dark(d), NEW by \in {-1, 1}
  PROVE  Dark(Move(d, by)) /\ Same(d, Move(d, by))
<1>1. d \in Dialog /\ d.max \in Nat /\ d.choice \in 0 .. d.max - 1 BY DEF Dark, Window, Dialog
<1>2. Fewer(Greater(d.choice + by, 0), d.max - 1) \in 0 .. d.max - 1 BY <1>1 DEF Fewer, Greater
<1>3. Move(d, by) = [d EXCEPT !.choice = Fewer(Greater(d.choice + by, 0), d.max - 1)]
  BY <1>1 DEF Move, Dialog
<1> QED BY <1>2, <1>3, ChooseIs

(* One line up or down keeps the window dark and on the list. *)
LEMMA LineIs ==
  ASSUME ListSizes, NEW d, Dark(d), NEW by \in {-1, 1}
  PROVE  Dark(Line(d, by)) /\ Same(d, Line(d, by))
<1>1. Dark(LineUp(d)) /\ Same(d, LineUp(d)) BY UpOne, MoveIs DEF LineUp
<1>2. Dark(LineDown(d)) /\ Same(d, LineDown(d)) BY DownOne, MoveIs DEF LineDown
<1> QED BY <1>1, <1>2 DEF Line

(* So does every line of a page, by induction over them. *)
LEMMA PageKeeps ==
  ASSUME ListSizes, NEW d, Dark(d), NEW by \in {-1, 1}
  PROVE  Dark(Paged(d, by)) /\ Same(d, Paged(d, by))
<1>1. d.max \in Nat BY DEF Dark, Window, Dialog
<1>2. PICK f : Loop(f, d, by, d.max) /\ Paged(d, by) = f[d.max] BY <1>1, PageIs
<1> DEFINE S == {i \in Nat : i <= d.max => Dark(f[i]) /\ Same(d, f[i])}
<1>3. 0 \in S
  <2>1. f[0] = d BY <1>1, <1>2 DEF Loop
  <2>2. Same(d, d) BY DEF Same
  <2> QED BY <2>1, <2>2
<1>4. ASSUME NEW n \in S PROVE n + 1 \in S
  <2>1. SUFFICES ASSUME n + 1 <= d.max PROVE Dark(f[n + 1]) /\ Same(d, f[n + 1])
    OBVIOUS
  <2>2. n \in Nat /\ Dark(f[n]) /\ Same(d, f[n]) BY <1>1, <2>1
  <2>3. n + 1 \in 0 .. d.max /\ n + 1 # 0 /\ (n + 1) - 1 = n BY <1>1, <2>1, <2>2
  <2>4. f[n + 1] = Line(f[n], by) BY <1>2, <2>3 DEF Loop
  <2>5. Dark(Line(f[n], by)) /\ Same(f[n], Line(f[n], by)) BY <2>2, LineIs
  <2> QED BY <2>2, <2>4, <2>5 DEF Same
<1>5. S = Nat
  <2>1. S \in SUBSET Nat OBVIOUS
  <2> HIDE DEF S
  <2> QED BY <1>3, <1>4, <2>1, NatByStep
<1> QED BY <1>1, <1>2, <1>5

(* A key that moves in a menu. *)
LEMMA HitsIn ==
  ASSUME ListSizes, NEW d, Window(d), NEW key
  PROVE  Hits(d, key) \in SUBSET Nat /\ Hits(d, key) \subseteq 0 .. d.max - 1
<1>1. d.max \in Nat BY DEF Window, Dialog
<1> QED BY <1>1 DEF Hits

(* A letter picks an item that is in the window. *)
LEMMA NextHitIn ==
  ASSUME NEW d, NEW hits \in SUBSET Nat, hits # {}
  PROVE  NextHit(d, hits) \in hits
<1> DEFINE behind == {i \in hits : i > d.choice}
<1>1. CASE behind # {}
  <2>1. behind \in SUBSET Nat OBVIOUS
  <2>2. Min(behind) \in behind
    <3> HIDE DEF behind
    <3> QED BY <1>1, <2>1, LeastOf
  <2> QED BY <1>1, <2>2 DEF NextHit
<1>2. CASE behind = {}
  <2>1. Min(hits) \in hits BY LeastOf
  <2> QED BY <1>2, <2>1 DEF NextHit
<1> QED BY <1>1, <1>2

(* What the keys of a menu that move do to a dark window. *)
LEMMA MenuMovedIs ==
  ASSUME ListSizes, NEW d, Dark(d), NEW key,
         key \in {"up", "down", "pageup", "pagedown"} \/ Hits(d, key) # {}
  PROVE  Dark(MenuMoved(d, key)) /\ Same(d, MenuMoved(d, key))
<1>1. Dark(MenuUp(d)) /\ Same(d, MenuUp(d)) BY UpOne, MoveIs DEF MenuUp
<1>2. Dark(MenuDown(d)) /\ Same(d, MenuDown(d)) BY DownOne, MoveIs DEF MenuDown
<1>3. /\ Dark(Paged(d, -1)) /\ Same(d, Paged(d, -1))
      /\ Dark(Paged(d, 1)) /\ Same(d, Paged(d, 1))
  BY PageKeeps
<1>4. CASE key \notin {"up", "down", "pageup", "pagedown"}
  <2>1. Hits(d, key) \in SUBSET Nat /\ Hits(d, key) \subseteq 0 .. d.max - 1
    BY HitsIn DEF Dark
  <2>2. NextHit(d, Hits(d, key)) \in 0 .. d.max - 1 BY <1>4, <2>1, NextHitIn
  <2>3. MenuMoved(d, key) = [d EXCEPT !.choice = NextHit(d, Hits(d, key))]
    BY <1>4 DEF MenuMoved
  <2> QED BY <2>2, <2>3, ChooseIs
<1>5. CASE key = "up" BY <1>1, <1>5 DEF MenuMoved
<1>6. CASE key = "down" BY <1>2, <1>6 DEF MenuMoved
<1>7. CASE key = "pageup" BY <1>3, <1>7 DEF MenuMoved
<1>8. CASE key = "pagedown" BY <1>3, <1>8 DEF MenuMoved
<1> QED BY <1>4, <1>5, <1>6, <1>7, <1>8

(* The whole handler: darken, move, light. *)
LEMMA MenuMoveIs ==
  ASSUME ListSizes, NEW d, Bright(d), NEW key, MenuMoves(d, key)
  PROVE  Bright(MenuMove(d, key)) /\ Same(d, MenuMove(d, key))
<1> DEFINE u == Unlit(d)
           m == MenuMoved(u, key)
<1>1. Dark(u) /\ Same(d, u) /\ u.choice = d.choice /\ u.scroll = d.scroll BY UnlitIs
<1>2. Hits(u, key) = Hits(d, key) BY <1>1 DEF Same, Hits
<1>3. key \in {"up", "down", "pageup", "pagedown"} \/ Hits(u, key) # {}
  BY <1>2 DEF MenuMoves
<1> HIDE DEF u
<1>4. Dark(m) /\ Same(u, m) BY <1>1, <1>3, MenuMovedIs
<1> HIDE DEF m
<1>5. Bright(Lit(m)) /\ Same(m, Lit(m)) BY <1>4, LitIs
<1>6. Same(d, Lit(m)) BY <1>1, <1>4, <1>5 DEF Same
<1> QED BY <1>5, <1>6 DEF MenuMove, m, u

(* A key that moves in a checklist. *)
LEMMA SelectIs ==
  ASSUME ListSizes, NEW d, Bright(d), NEW i \in 0 .. d.max - 1
  PROVE  Bright(Select(d, i)) /\ Same(d, Select(d, i))
<1> DEFINE u == Unlit(d)
           c == [u EXCEPT !.choice = i]
<1>1. Dark(u) /\ Same(d, u) BY UnlitIs
<1>2. i \in 0 .. u.max - 1 BY <1>1 DEF Same
<1> HIDE DEF u
<1>3. Dark(c) /\ Same(u, c) BY <1>1, <1>2, ChooseIs
<1> HIDE DEF c
<1>4. Bright(Lit(c)) /\ Same(c, Lit(c)) BY <1>3, LitIs
<1>5. Same(d, Lit(c)) BY <1>1, <1>3, <1>4 DEF Same
<1> QED BY <1>4, <1>5 DEF Select, c, u

(* The list is scrolled by a row at its edge, and the choice is printed at *)
(* the row it stays in: every other row shows what was next to it.         *)
LEMMA ScrollLitIs ==
  ASSUME ListSizes, NEW d, Bright(d), NEW by \in {-1, 1}, d.scroll + by \in 0 .. Count(d) - d.max,
         d.choice = IF by = 1 THEN d.max - 1 ELSE 0
  PROVE  Bright(ScrollLit(d, by)) /\ Same(d, ScrollLit(d, by))
<1>1. d \in Dialog /\ Count(d) \in Nat /\ d.height \in Nat BY CountIs DEF Bright, Window, Dialog
<1>2. /\ d.max = d.height /\ d.max \in Nat \ {0} /\ d.scroll \in Int
      /\ d.rows \in [1 .. d.height -> Row] /\ d.choice \in 0 .. d.max - 1
  <2>1. Window(d) /\ Count(d) > 0 BY DEF Bright
  <2>2. d.scroll >= 0 /\ d.scroll <= Count(d) - d.max BY <1>1, <2>1, InWindow DEF Window
  <2>3. d.max < Count(d) => d.max = d.height
    BY <1>1, <2>1 DEF Window, Fewer
  <2>4. d.max < Count(d)
    <3>1. /\ d.scroll \in Int /\ d.max \in Nat \ {0} /\ Count(d) \in Nat
          /\ d.scroll + by >= 0 /\ d.scroll + by <= Count(d) - d.max
      BY <1>1, <2>1, InWindow
    <3> QED BY <2>2, <3>1
  <2> QED BY <2>1, <2>3, <2>4, InWindow
<1> DEFINE u == Unlit(d)
           e == IF d.height > 1 THEN Scroll(u, by) ELSE [d EXCEPT !.scroll = @ + by]
           g == Lit(e)
<1>3. Dark(u) /\ Same(d, u) /\ u.choice = d.choice /\ u.scroll = d.scroll BY UnlitIs
<1>4. u \in Dialog /\ u.rows \in [1 .. u.height -> Row] /\ u.height = d.height
  BY <1>3 DEF Dark, Window, Same
<1> HIDE DEF u
<1>5. /\ e \in Dialog /\ Same(d, e) /\ e.choice = d.choice /\ e.scroll = d.scroll + by
      /\ e.rows \in [1 .. d.height -> Row]
      /\ ~d.stale => \A i \in 1 .. d.height : i + by \in 1 .. d.height =>
           e.rows[i] = [item |-> d.scroll + (i + by) - 1, lit |-> FALSE]
  <2>1. CASE d.height > 1
    <3>1. e = Scroll(u, by) BY <2>1
    <3> HIDE DEF e
    <3>2. /\ e \in Dialog /\ e = [u EXCEPT !.rows = e.rows, !.scroll = u.scroll + by]
          /\ e.rows \in [1 .. u.height -> Row]
          /\ \A i \in 1 .. u.height : i + by \in 1 .. u.height => e.rows[i] = u.rows[i + by]
      <4>1. Moved(u, e, by) BY <1>4, <3>1, ScrollIs
      <4> QED BY <4>1 DEF Moved
    <3>3. Same(d, e) /\ e.choice = d.choice /\ e.scroll = d.scroll + by
      <4>1. Same(u, e) /\ e.choice = u.choice /\ e.scroll = u.scroll + by
        BY <1>4, <3>2 DEF Same, Dialog
      <4> QED BY <1>3, <4>1 DEF Same
    <3>4. ASSUME ~d.stale, NEW i \in 1 .. d.height, i + by \in 1 .. d.height
          PROVE  e.rows[i] = [item |-> d.scroll + (i + by) - 1, lit |-> FALSE]
      <4>1. e.rows[i] = u.rows[i + by] BY <1>4, <3>2, <3>4
      <4>2. ~u.stale /\ i + by \in 1 .. u.max BY <1>2, <1>3, <3>4 DEF Same
      <4>3. u.rows[i + by] = [item |-> u.scroll + (i + by) - 1, lit |-> (i + by) - 1 = -1]
        BY <1>3, <4>2 DEF Dark, Shows
      <4>4. (i + by) - 1 # -1 BY <3>4
      <4> QED BY <1>3, <4>1, <4>3, <4>4
    <3> QED BY <1>4, <3>2, <3>3, <3>4
  <2>2. CASE ~(d.height > 1)
    <3>1. e = [d EXCEPT !.scroll = d.scroll + by] BY <1>1, <2>2 DEF Dialog
    <3> HIDE DEF e
    <3>2. d.height = 1 BY <1>1, <1>2, <2>2
    <3>5. d.scroll + by \in Int BY <1>2
    <3>6. e \in Dialog BY <1>1, <3>1, <3>5 DEF Dialog
    <3>7. Same(d, e) /\ e.choice = d.choice /\ e.rows = d.rows BY <1>1, <3>1 DEF Same, Dialog
    <3>8. e.scroll = d.scroll + by BY <1>1, <3>1 DEF Dialog
    <3>3. e \in Dialog /\ Same(d, e) /\ e.choice = d.choice /\ e.scroll = d.scroll + by /\ e.rows = d.rows
      BY <3>6, <3>7, <3>8
    <3>4. ASSUME NEW i \in 1 .. d.height, i + by \in 1 .. d.height PROVE FALSE BY <3>2, <3>4
    <3> QED BY <1>2, <3>3, <3>4
  <2> QED BY <2>1, <2>2
<1> HIDE DEF e
<1>6. e.height = d.height /\ e.choice \in 0 .. e.height - 1 /\ e.scroll + e.choice \in Int
      /\ e.rows \in [1 .. e.height -> Row]
  BY <1>2, <1>5 DEF Same
<1>7. Printed(e, g, e.choice + 1, [item |-> e.scroll + e.choice, lit |-> TRUE])
  BY <1>5, <1>6, PrintIs DEF Lit
<1> HIDE DEF g
<1>8. g \in Dialog /\ Same(d, g) /\ g.choice = d.choice /\ g.scroll = d.scroll + by
  BY <1>5, <1>6, <1>7 DEF Printed, Same, Dialog
<1>9. Window(g)
  <2>1. Count(g) = Count(d) /\ g.max = d.max /\ g.height = d.height
    BY <1>8 DEF Same, Count
  <2>2. g.rows \in [1 .. g.height -> Row] BY <1>6, <1>7, <2>1 DEF Printed
  <2> QED BY <1>2, <1>8, <2>1, <2>2 DEF Bright, Window
<1>10. ASSUME ~g.stale, NEW i \in 1 .. g.max
       PROVE  g.rows[i] = [item |-> g.scroll + i - 1, lit |-> i - 1 = g.choice]
  <2>1. i \in 1 .. d.height /\ i \in Int /\ ~d.stale /\ e.scroll = g.scroll /\ e.choice = g.choice
    BY <1>1, <1>2, <1>5, <1>8, <1>10 DEF Same, Dialog
  <2>2. CASE i = e.choice + 1
    <3>1. e.scroll + e.choice = g.scroll + i - 1 /\ i - 1 = g.choice
      BY <1>2, <1>5, <2>1, <2>2
    <3> QED BY <1>6, <1>7, <2>1, <2>2, <3>1 DEF Printed
  <2>3. CASE i # e.choice + 1
    <3>1. i + by \in 1 .. d.height BY <1>1, <1>2, <1>5, <2>1, <2>3
    <3>2. d.scroll + (i + by) - 1 = g.scroll + i - 1
      <4>1. \A a, b, c \in Int : a + (c + b) - 1 = (a + b) + c - 1 OBVIOUS
      <4>2. d.scroll \in Int /\ by \in Int /\ i \in Int /\ g.scroll = d.scroll + by
        BY <1>2, <1>8, <2>1
      <4>3. d.scroll + (i + by) - 1 = (d.scroll + by) + i - 1 BY <4>1, <4>2, Zenon
      <4> QED BY <4>2, <4>3
    <3>3. i - 1 # g.choice BY <1>2, <1>5, <2>1, <2>3
    <3>4. g.rows[i] = e.rows[i] BY <1>6, <1>7, <2>1, <2>3 DEF Printed
    <3> QED BY <1>5, <2>1, <3>1, <3>2, <3>3, <3>4
  <2> QED BY <2>2, <2>3
<1> QED BY <1>8, <1>9, <1>10 DEF Bright, Shows, Same, Count, g, e, u, ScrollLit

(* The keys of a checklist that move. *)
LEMMA ListMoveIs ==
  ASSUME ListSizes, NEW d, Bright(d), NEW key, ListMoves(d, key)
  PROVE  Bright(ListMove(d, key)) /\ Same(d, ListMove(d, key))
<1>1. /\ d \in Dialog /\ Count(d) \in Nat /\ d.max \in Nat /\ d.scroll \in 0 .. Count(d) - d.max
      /\ d.choice \in 0 .. d.max - 1
  BY CountIs DEF Bright, Window, Dialog
<1>2. Same(d, d) BY DEF Same
<1>3. CASE key = "up"
  <2>1. CASE d.choice > 0
    <3>1. d.choice - 1 \in 0 .. d.max - 1 BY <1>1, <2>1
    <3> QED BY <1>3, <2>1, <3>1, SelectIs DEF ListMove, ListUp
  <2>2. CASE ~(d.choice > 0) /\ d.scroll > 0
    <3>1. d.scroll + (-1) \in 0 .. Count(d) - d.max /\ d.choice = 0 BY <1>1, <2>2
    <3>2. Bright(ScrollLit(d, -1)) /\ Same(d, ScrollLit(d, -1)) BY <3>1, ScrollLitIs
    <3> QED BY <1>3, <2>2, <3>2 DEF ListMove, ListUp
  <2>3. CASE ~(d.choice > 0) /\ ~(d.scroll > 0) BY <1>2, <1>3, <2>3 DEF ListMove, ListUp
  <2> QED BY <2>1, <2>2, <2>3
<1>4. CASE key = "down"
  <2>1. CASE d.choice # d.max - 1
    <3>1. d.choice + 1 \in 0 .. d.max - 1 BY <1>1, <2>1
    <3> QED BY <1>4, <2>1, <3>1, SelectIs DEF ListMove, ListDown
  <2>2. CASE d.choice = d.max - 1 /\ d.scroll + d.choice < Count(d) - 1
    <3>1. d.scroll + 1 \in 0 .. Count(d) - d.max BY <1>1, <2>2
    <3>2. Bright(ScrollLit(d, 1)) /\ Same(d, ScrollLit(d, 1)) BY <2>2, <3>1, ScrollLitIs
    <3> QED BY <1>4, <2>2, <3>2 DEF ListMove, ListDown
  <2>3. CASE d.choice = d.max - 1 /\ ~(d.scroll + d.choice < Count(d) - 1)
    BY <1>2, <1>4, <2>3 DEF ListMove, ListDown
  <2> QED BY <2>1, <2>2, <2>3
<1>5. CASE key \notin {"up", "down"}
  <2>1. Hits(d, key) \in SUBSET Nat /\ Hits(d, key) \subseteq 0 .. d.max - 1 /\ Hits(d, key) # {}
    BY <1>5, HitsIn DEF Bright, ListMoves
  <2>2. Min(Hits(d, key)) \in 0 .. d.max - 1 BY <2>1, LeastOf
  <2>3. ListMove(d, key) = Select(d, Min(Hits(d, key))) BY <1>5 DEF ListMove
  <2> QED BY <2>2, <2>3, SelectIs
<1> QED BY <1>3, <1>4, <1>5

(* A key that ends the dialog or turns to another button. *)
LEMMA CommandIs ==
  ASSUME NEW d \in Dialog, d.result = "none", NEW key, NEW buttons \in Nat \ {0}, NEW results,
         \A k \in DOMAIN results : results[k] \in Int /\ k \notin {"left", "right", "x"}
  PROVE  LET e == Command(d, key, results, buttons)
         IN /\ e \in Dialog /\ e.items = d.items /\ e.selected = d.selected
            /\ \/ e.result \in {"chosen", "esc"}
               \/ e.result = "none" /\ e = [d EXCEPT !.button = e.button]
<1> DEFINE e == Command(d, key, results, buttons)
<1>1. CASE key \in DOMAIN results
  <2>1. e = [d EXCEPT !.result = "chosen", !.code = results[key], !.picked = d.scroll + d.choice]
    <3>1. Command(d, key, results, buttons) = Return(d, results[key]) BY <1>1 DEF Command
    <3> QED BY <3>1 DEF Return
  <2>2. results[key] \in Int /\ d.scroll + d.choice \in Int BY <1>1 DEF Dialog
  <2> HIDE DEF e
  <2>3. e \in Dialog /\ e.items = d.items /\ e.selected = d.selected /\ e.result = "chosen"
    BY <2>1, <2>2 DEF Dialog
  <2> QED BY <2>3 DEF e
<1>2. CASE key \notin DOMAIN results /\ key \in {"left", "right"}
  <2>1. PICK by \in {-1, 1} : e = [d EXCEPT !.button = (@ + by) % buttons]
    <3>1. e = Turned(d, IF key = "left" THEN -1 ELSE 1, buttons) BY <1>2 DEF Command
    <3>2. (IF key = "left" THEN -1 ELSE 1) \in {-1, 1} OBVIOUS
    <3> HIDE DEF e
    <3> QED BY <3>1, <3>2 DEF Turned
  <2> DEFINE b == (d.button + by) % buttons
  <2>2. b \in Int BY DEF Dialog
  <2>3. e = [d EXCEPT !.button = b] BY <2>1 DEF Dialog
  <2> HIDE DEF e, b
  <2>4. e \in Dialog /\ e.items = d.items /\ e.selected = d.selected /\ e.result = "none"
        /\ e.button = b
    BY <2>2, <2>3 DEF Dialog
  <2> QED BY <2>3, <2>4 DEF e
<1>3. CASE key \notin DOMAIN results /\ key \notin {"left", "right"} /\ key = "x"
  <2>1. e = [d EXCEPT !.result = "esc"] BY <1>3 DEF Command, Leave
  <2> HIDE DEF e
  <2>2. e \in Dialog /\ e.items = d.items /\ e.selected = d.selected /\ e.result = "esc"
    BY <2>1 DEF Dialog
  <2> QED BY <2>2 DEF e
<1>4. CASE key \notin DOMAIN results /\ key \notin {"left", "right"} /\ key # "x"
  <2>1. e = d BY <1>4 DEF Command
  <2>2. d = [d EXCEPT !.button = d.button] BY DEF Dialog
  <2> HIDE DEF e
  <2>3. e \in Dialog /\ e.items = d.items /\ e.selected = d.selected /\ e.result = "none"
        /\ e = [d EXCEPT !.button = e.button]
    BY <2>1, <2>2
  <2> QED BY <2>3 DEF e
<1> QED BY <1>1, <1>2, <1>3, <1>4

(* What a dialog that is open keeps, and one that is not. *)
Kept(d) ==
  /\ d \in Dialog /\ d.selected \in -1 .. Count(d) - 1
  /\ d.result = "none" =>
       Window(d) /\ Shows(d, d.choice) /\ (d.kind = "checklist" => Count(d) > 0)
  /\ d.result = "crash" => d.stale

(* Moving keeps the invariant. *)
LEMMA KeptByMove ==
  ASSUME ListSizes, NEW d, Kept(d), d.result = "none", NEW e, Bright(e), Same(d, e)
  PROVE  Kept(e)
<1>1. e \in Dialog /\ e.items = d.items /\ e.selected = d.selected /\ e.result = "none"
      /\ e.kind = d.kind
  BY DEF Bright, Window, Same
<1> QED BY <1>1 DEF Kept, Bright, Count

(* So does every other key: the buttons and those that leave. *)
LEMMA KeptByCommand ==
  ASSUME ListSizes, NEW d, Kept(d), d.result = "none", NEW key, NEW buttons \in Nat \ {0}, NEW results,
         \A k \in DOMAIN results : results[k] \in Int /\ k \notin {"left", "right", "x"}
  PROVE  Kept(Command(d, key, results, buttons))
<1> DEFINE e == Command(d, key, results, buttons)
<1>1. d \in Dialog BY DEF Kept
<1>2. /\ e \in Dialog /\ e.items = d.items /\ e.selected = d.selected
      /\ \/ e.result \in {"chosen", "esc"}
         \/ e.result = "none" /\ e = [d EXCEPT !.button = e.button]
  BY <1>1, CommandIs
<1> HIDE DEF e
<1>3. ASSUME e.result \in {"chosen", "esc"} PROVE Kept(e) BY <1>2, <1>3 DEF Kept, Count
<1>4. ASSUME e.result = "none", e = [d EXCEPT !.button = e.button] PROVE Kept(e)
  <2>1. /\ e.kind = d.kind /\ e.height = d.height /\ e.max = d.max /\ e.scroll = d.scroll
        /\ e.choice = d.choice /\ e.rows = d.rows /\ e.stale = d.stale
    BY <1>1, <1>4 DEF Dialog
  <2> QED BY <1>2, <1>4, <2>1 DEF Kept, Window, Shows, Count
<1> QED BY <1>2, <1>3, <1>4 DEF e

(* A key pressed in a menu keeps the invariant. *)
LEMMA MenuKeyIs ==
  ASSUME ListSizes, NEW d, Kept(d), d.result = "none", NEW key
  PROVE  Kept(MenuKey(d, key))
<1>1. CASE MenuMoves(d, key)
  <2>1. Count(d) \in Nat /\ Count(d) > 0 BY <1>1, CountIs DEF MenuMoves, Kept
  <2>2. Bright(d) BY <2>1 DEF Kept, Bright
  <2>3. Bright(MenuMove(d, key)) /\ Same(d, MenuMove(d, key)) BY <1>1, <2>2, MenuMoveIs
  <2>4. MenuKey(d, key) = MenuMove(d, key) BY <1>1 DEF MenuKey
  <2> QED BY <2>3, <2>4, KeptByMove
<1>2. CASE ~MenuMoves(d, key)
  <2> DEFINE s == IF key \in DOMAIN MenuResult(d) THEN d.scroll ELSE d.saved
             e == [d EXCEPT !.saved = s]
  <2>1. d \in Dialog /\ s \in Int /\ d.button \in Int BY DEF Kept, Dialog
  <2>2. MenuKey(d, key) = Command(e, key, MenuResult(d), 5) BY <1>2, <2>1 DEF MenuKey, Dialog
  <2> HIDE DEF s
  <2>3. /\ e \in Dialog /\ e.items = d.items /\ e.selected = d.selected /\ e.result = "none"
        /\ e.kind = d.kind /\ e.height = d.height /\ e.max = d.max /\ e.scroll = d.scroll
        /\ e.choice = d.choice /\ e.rows = d.rows /\ e.stale = d.stale
    BY <2>1 DEF Dialog
  <2> HIDE DEF e
  <2>4. Kept(e) BY <2>3 DEF Kept, Window, Shows, Count
  <2>5. \A k \in DOMAIN MenuResult(d) : MenuResult(d)[k] \in Int /\ k \notin {"left", "right", "x"}
    BY <2>1 DEF MenuResult
  <2> QED BY <2>2, <2>3, <2>4, <2>5, KeptByCommand
<1> QED BY <1>1, <1>2

(* A key pressed in a checklist keeps the invariant. *)
LEMMA ListKeyIs ==
  ASSUME ListSizes, NEW d, Kept(d), d.result = "none", d.kind = "checklist", NEW key
  PROVE  Kept(ListKey(d, key))
<1>1. CASE ListMoves(d, key)
  <2>1. Bright(d) BY DEF Kept, Bright
  <2>2. Bright(ListMove(d, key)) /\ Same(d, ListMove(d, key)) BY <1>1, <2>1, ListMoveIs
  <2>3. ListKey(d, key) = ListMove(d, key) BY <1>1 DEF ListKey
  <2> QED BY <2>2, <2>3, KeptByMove
<1>2. CASE ~ListMoves(d, key)
  <2>1. d.button \in Int BY DEF Kept, Dialog
  <2>2. \A k \in DOMAIN ListResult(d) : ListResult(d)[k] \in Int /\ k \notin {"left", "right", "x"}
    BY <2>1 DEF ListResult
  <2>3. ListKey(d, key) = Command(d, key, ListResult(d), 2) BY <1>2 DEF ListKey
  <2> QED BY <2>2, <2>3, KeptByCommand
<1> QED BY <1>1, <1>2

(* Drawing prints the rows from some item on, or crashes. *)
Redrawn(d, e, from) ==
  /\ e \in Dialog /\ e.kind = d.kind /\ e.items = d.items /\ e.selected = d.selected
  /\ e.stale = d.stale /\ e.scroll = d.scroll /\ e.choice = d.choice
  /\ e.height = d.height /\ e.max = d.max
  /\ IF from + d.max > Count(d) THEN e.result = "crash"
     ELSE /\ e.result = d.result /\ e.rows \in [1 .. d.height -> Row]
          /\ \A i \in 1 .. d.max :
               e.rows[i] = [item |-> from + i - 1, lit |-> i - 1 = d.choice]

(* So it does when the list has the items, and crashes when it has not. *)
LEMMA DrawFromIs ==
  ASSUME NEW d \in Dialog, NEW from \in Int, d.max <= d.height
  PROVE  Redrawn(d, DrawFrom(d, from), from)
<1> DEFINE e == DrawFrom(d, from)
           r == [i \in 1 .. d.height |->
                   IF i <= d.max THEN [item |-> from + i - 1, lit |-> i - 1 = d.choice] ELSE Nothing]
<1>1. d.height \in Nat /\ d.max \in Nat BY DEF Dialog
<1>2. CASE from + d.max > Count(d)
  <2>1. e = [d EXCEPT !.result = "crash"] BY <1>2 DEF DrawFrom
  <2> HIDE DEF e
  <2> QED BY <1>2, <2>1 DEF Redrawn, Dialog, e
<1>3. CASE ~(from + d.max > Count(d))
  <2>1. e = [d EXCEPT !.rows = r] BY <1>3 DEF DrawFrom
  <2>2. \A i \in 1 .. d.height : r[i] \in Row
    <3>1. ASSUME NEW i \in 1 .. d.height
          PROVE  [item |-> from + i - 1, lit |-> i - 1 = d.choice] \in Row /\ Nothing \in Row
      <4>1. from + i - 1 \in Int OBVIOUS
      <4> QED BY <4>1 DEF Row, Nothing
    <3> QED BY <3>1
  <2>3. r \in [1 .. d.height -> Row] BY <2>2
  <2>4. r \in AnyRows BY <1>1, <2>3, RowsTyped
  <2>5. \A i \in 1 .. d.max : r[i] = [item |-> from + i - 1, lit |-> i - 1 = d.choice]
    BY <1>1
  <2> HIDE DEF e, r
  <2>6. /\ e \in Dialog /\ e.kind = d.kind /\ e.items = d.items /\ e.selected = d.selected
        /\ e.stale = d.stale /\ e.scroll = d.scroll /\ e.choice = d.choice
        /\ e.height = d.height /\ e.max = d.max /\ e.result = d.result /\ e.rows = r
    BY <2>1, <2>4 DEF Dialog
  <2> QED BY <1>3, <2>3, <2>5, <2>6 DEF Redrawn, e
<1> QED BY <1>2, <1>3

(* A drawing leaves a window that shows the list, or nothing at all.  d is *)
(* the dialog to be drawn, its scroll position and its choice being right. *)
LEMMA DrawKeeps ==
  ASSUME ListSizes, NEW d \in Dialog, NEW from \in Int, d.height > 0, d.max = Fewer(d.height, Count(d)),
         d.scroll \in 0 .. Count(d) - d.max, Count(d) > 0 => d.choice \in 0 .. d.max - 1,
         d.selected \in -1 .. Count(d) - 1, d.result = "none", ~d.stale => from = d.scroll,
         d.kind = "checklist" => Count(d) > 0
  PROVE  Kept(DrawFrom(d, from))
<1> DEFINE e == DrawFrom(d, from)
<1>1. d.height \in Nat /\ d.max \in Nat /\ Count(d) \in Nat /\ d.scroll \in Int
  BY CountIs DEF Dialog
<1>2. d.max <= d.height BY <1>1 DEF Fewer
<1>3. Redrawn(d, e, from) BY <1>2, DrawFromIs
<1> HIDE DEF e
<1>4. /\ e \in Dialog /\ Count(e) = Count(d) /\ e.selected = d.selected /\ e.kind = d.kind
      /\ e.stale = d.stale /\ e.max = d.max /\ e.height = d.height /\ e.scroll = d.scroll
      /\ e.choice = d.choice
  BY <1>3 DEF Redrawn, Count
<1>5. CASE from + d.max > Count(d)
  <2>1. e.result = "crash" BY <1>3, <1>5 DEF Redrawn
  <2>2. d.stale \in BOOLEAN /\ d.stale
    <3>1. d.stale \in BOOLEAN BY DEF Dialog
    <3>2. ~(from = d.scroll) BY <1>1, <1>5
    <3> QED BY <3>1, <3>2
  <2> QED BY <1>4, <2>1, <2>2 DEF Kept, e
<1>6. CASE ~(from + d.max > Count(d))
  <2>1. /\ e.result = "none" /\ e.rows \in [1 .. d.height -> Row]
        /\ \A i \in 1 .. d.max : e.rows[i] = [item |-> from + i - 1, lit |-> i - 1 = d.choice]
    BY <1>3, <1>6 DEF Redrawn
  <2>2. Window(e) BY <1>4, <2>1 DEF Window
  <2>3. Shows(e, e.choice) BY <1>4, <2>1 DEF Shows
  <2> QED BY <1>4, <2>1, <2>2, <2>3 DEF Kept, e
<1> QED BY <1>5, <1>6

(* ScrollTo leaves alone all but where the window lies. *)
LEMMA ScrollToIs ==
  ASSUME NEW d \in Dialog, NEW at \in Int
  PROVE  LET e == ScrollTo(d, at)
         IN /\ e \in Dialog /\ e.scroll = at /\ e.choice = d.choice - at
            /\ e.kind = d.kind /\ e.items = d.items /\ e.result = d.result
            /\ e.selected = d.selected /\ e.height = d.height /\ e.max = d.max
<1> DEFINE e == ScrollTo(d, at)
           k == d.choice - at
<1>1. k \in Int BY DEF Dialog
<1>2. e = [d EXCEPT !.first = at, !.scroll = at, !.choice = k] BY DEF ScrollTo, Dialog
<1> HIDE DEF e, k
<1>3. e \in Dialog BY <1>1, <1>2 DEF Dialog
<1>4. e.scroll = at /\ e.choice = k BY <1>2 DEF Dialog
<1>5. /\ e.kind = d.kind /\ e.items = d.items /\ e.result = d.result
      /\ e.selected = d.selected /\ e.height = d.height /\ e.max = d.max
  BY <1>2 DEF Dialog
<1> QED BY <1>3, <1>4, <1>5 DEF e, k

(* From a choice that is on the list, however it came about, do_resize of  *)
(* a menu finds a window with the choice in it.                            *)
LEMMA DrawMenuKeeps ==
  ASSUME ListSizes, NEW d \in Dialog, d.kind = "menu", d.result = "none", NEW height \in Heights,
         d.selected \in -1 .. Count(d) - 1, Count(d) > 0 => d.choice \in 0 .. Count(d) - 1
  PROVE  Kept(DrawMenu(d, height))
<1>1. height \in Nat /\ height > 0 /\ Count(d) \in Nat BY CountIs DEF ListSizes
<1> DEFINE n == Count(d)
           m == Fewer(height, n)
           s == Sized(d, height)
           t == Default(s)
           r == Restored(t)
           c == Centered(r)
           f == [c EXCEPT !.stale = c.first # c.scroll]
<1>2. m \in Nat /\ m <= n /\ (n > 0 => m > 0) BY <1>1 DEF Fewer
<1>3. m \div 2 \in Nat /\ 2 * (m \div 2) <= m /\ m <= 2 * (m \div 2) + 1 BY <1>2
<1>4. n \in Nat BY <1>1
<1> HIDE DEF n, m
<1>5. s = [d EXCEPT !.height = height, !.max = m] BY DEF Sized, m, n
<1> HIDE DEF s
<1> DEFINE Fixed(z) == /\ z \in Dialog /\ z.kind = "menu" /\ z.items = d.items /\ z.result = "none"
                       /\ z.selected = d.selected /\ z.height = height /\ z.max = m
<1>6. Fixed(s) /\ s.choice = d.choice BY <1>1, <1>2, <1>5 DEF Dialog
<1>7. \A z : Fixed(z) => Count(z) = n BY DEF Count, n
<1>8. Fixed(t) /\ (n > 0 => t.choice \in 0 .. n - 1)
  <2>1. d.selected \in Int /\ (n > 0 => d.choice \in 0 .. n - 1) /\ d.selected <= n - 1
    BY DEF n, Dialog
  <2>2. CASE s.selected >= 0
    <3>1. t = [s EXCEPT !.choice = s.selected] BY <2>2 DEF Default
    <3> HIDE DEF t
    <3>2. Fixed(t) /\ t.choice = d.selected BY <1>6, <2>1, <3>1 DEF Dialog
    <3> QED BY <1>6, <2>1, <2>2, <3>2
  <2>3. CASE ~(s.selected >= 0) BY <1>6, <2>1, <2>3 DEF Default
  <2> QED BY <2>2, <2>3
<1> HIDE DEF t
<1>9. /\ Fixed(r) /\ r.scroll \in 0 .. n - m
      /\ n > 0 => r.choice \in 0 .. n - 1 /\ (r.choice >= m => r.scroll = 0)
  <2>1. Count(t) = n /\ t.saved \in Int /\ t.choice \in Int /\ t.max = m BY <1>7, <1>8 DEF Dialog
  <2>2. CASE SavedFits(t)
    <3>1. r = ScrollTo(t, t.saved) BY <2>2 DEF Restored
    <3>2. t.choice - t.saved \in 0 .. m - 1 /\ t.saved \in 0 .. n - m
      BY <1>2, <1>4, <2>1, <2>2 DEF SavedFits
    <3> HIDE DEF r
    <3>3. Fixed(r) /\ r.scroll = t.saved /\ r.choice = t.choice - t.saved
      BY <1>8, <2>1, <3>1, ScrollToIs
    <3> QED BY <1>2, <1>4, <3>2, <3>3
  <2>3. CASE ~SavedFits(t)
    <3>1. r = [t EXCEPT !.scroll = 0] BY <2>3 DEF Restored
    <3> HIDE DEF r
    <3>2. Fixed(r) /\ r.scroll = 0 /\ r.choice = t.choice BY <1>8, <3>1 DEF Dialog
    <3> QED BY <1>2, <1>4, <1>8, <3>2
  <2> QED BY <2>2, <2>3
<1> HIDE DEF r
<1>10. /\ Fixed(c) /\ c.scroll \in 0 .. n - m /\ (n > 0 => c.choice \in 0 .. m - 1)
  <2>1. Count(r) = n /\ r.choice \in Int /\ r.max = m BY <1>7, <1>9 DEF Dialog
  <2>2. CASE r.choice >= m
    <3> DEFINE a == Around(r)
    <3>1. a = IF r.choice >= n - m \div 2 THEN n - m ELSE r.choice - m \div 2
      BY <2>1 DEF Around
    <3> HIDE DEF a
    <3>2. a \in 0 .. n - m /\ (n > 0 => r.choice - a \in 0 .. m - 1) /\ a \in Int
      <4>1. CASE n = 0
        <5>1. m = 0 /\ m \div 2 = 0 BY <1>2, <1>3, <4>1
        <5> QED BY <2>1, <2>2, <3>1, <4>1, <5>1
      <4>2. CASE n > 0 /\ r.choice >= n - m \div 2
        BY <1>2, <1>3, <1>4, <1>9, <2>1, <2>2, <3>1, <4>2
      <4>3. CASE n > 0 /\ ~(r.choice >= n - m \div 2)
        <5>1. a = r.choice - m \div 2 BY <3>1, <4>3
        <5>2. a \in Int /\ a >= 0 BY <1>2, <1>3, <2>1, <2>2, <5>1
        <5>3. a <= n - m BY <1>2, <1>3, <1>4, <2>1, <4>3, <5>1
        <5>4. r.choice - a = m \div 2 BY <1>3, <2>1, <5>1
        <5>5. m \div 2 <= m - 1 BY <1>2, <1>3, <4>3
        <5> QED BY <1>2, <1>3, <1>4, <5>2, <5>3, <5>4, <5>5
      <4> QED BY <1>4, <4>1, <4>2, <4>3
    <3>3. c = ScrollTo(r, a) BY <2>1, <2>2 DEF Centered, a
    <3> HIDE DEF c
    <3>4. Fixed(c) /\ c.scroll = a /\ c.choice = r.choice - a
      BY <1>9, <3>2, <3>3, ScrollToIs
    <3> QED BY <3>2, <3>4
  <2>3. CASE ~(r.choice >= m)
    <3>1. c = r BY <2>1, <2>3 DEF Centered
    <3> QED BY <1>2, <1>4, <1>9, <2>1, <2>3, <3>1
  <2> QED BY <2>2, <2>3
<1> HIDE DEF c
<1>11. /\ Fixed(f) /\ f.scroll = c.scroll /\ f.choice = c.choice /\ f.first = c.first
       /\ f.stale = (c.first # c.scroll)
  BY <1>10 DEF Dialog
<1>12. DrawMenu(d, height) = DrawFrom(f, c.first) BY DEF DrawMenu, Drawn, c, r, t, s
<1> HIDE DEF f
<1>13. Count(f) = n /\ c.first \in Int BY <1>7, <1>10, <1>11 DEF Dialog
<1>14. ~f.stale => c.first = f.scroll BY <1>11
<1>15. f.selected \in -1 .. Count(f) - 1 BY <1>11, <1>13 DEF n
<1>16. f.max = Fewer(f.height, Count(f)) BY <1>11, <1>13 DEF m
<1>17. Kept(DrawFrom(f, c.first))
  BY <1>1, <1>10, <1>11, <1>13, <1>14, <1>15, <1>16, DrawKeeps
<1> QED BY <1>12, <1>17

(* Drawing a checklist, the first time or after a resize. *)
LEMMA DrawChecklistKeeps ==
  ASSUME ListSizes, NEW d \in Dialog, d.kind = "checklist", d.result = "none", d.height > 0,
         d.selected \in -1 .. Count(d) - 1, d.choice \in 0 .. Count(d) - 1,
         d.choice < d.height => d.scroll \in 0 .. Count(d) - Fewer(d.height, Count(d))
  PROVE  Kept(DrawChecklist(d))
<1> DEFINE n == Count(d)
           m == Fewer(d.height, n)
           s == Sized(d, d.height)
           v == InView(s)
<1>1. d.height \in Nat /\ n \in Nat /\ n > 0 /\ d.choice \in Int BY CountIs DEF Dialog
<1>2. m \in Nat /\ m <= n /\ m > 0 BY <1>1 DEF Fewer
<1>3. s = [d EXCEPT !.height = d.height, !.max = m] BY DEF Sized
<1> DEFINE Fixed(z) == /\ z \in Dialog /\ z.kind = "checklist" /\ z.items = d.items
                       /\ z.result = "none" /\ z.selected = d.selected
                       /\ z.height = d.height /\ z.max = m
<1> HIDE DEF n, m, s
<1>4. Fixed(s) /\ s.choice = d.choice /\ s.scroll = d.scroll BY <1>1, <1>2, <1>3 DEF Dialog
<1>5. \A z : Fixed(z) => Count(z) = n BY DEF Count, n
<1>6. Fixed(v) /\ v.scroll \in 0 .. n - m /\ v.choice \in 0 .. m - 1
  <2>1. CASE s.choice >= s.height
    <3>1. v = [s EXCEPT !.scroll = d.choice - d.height + 1, !.choice = d.height - 1]
      BY <1>4, <2>1 DEF InView, Dialog
    <3>2. m = d.height /\ d.choice - d.height + 1 \in 0 .. n - m /\ d.height - 1 \in 0 .. m - 1
      BY <1>1, <1>4, <2>1 DEF Fewer, m, n
    <3> HIDE DEF v
    <3>3. d.choice - d.height + 1 \in Int /\ d.height - 1 \in Int BY <1>1
    <3>4. v \in Dialog BY <1>4, <3>1, <3>3 DEF Dialog
    <3>5. v.scroll = d.choice - d.height + 1 /\ v.choice = d.height - 1
      BY <1>4, <3>1 DEF Dialog
    <3>6. /\ v.kind = s.kind /\ v.items = s.items /\ v.result = s.result /\ v.selected = s.selected
          /\ v.height = s.height /\ v.max = s.max
      BY <1>4, <3>1 DEF Dialog
    <3> QED BY <1>4, <3>2, <3>4, <3>5, <3>6
  <2>2. CASE ~(s.choice >= s.height)
    <3>1. v = s BY <2>2 DEF InView
    <3>2. d.choice < d.height BY <1>1, <1>4, <2>2
    <3>3. d.choice \in 0 .. m - 1 BY <1>1, <3>2 DEF m, n, Fewer
    <3>4. d.scroll \in 0 .. n - m BY <3>2 DEF m, n
    <3> QED BY <1>4, <3>1, <3>3, <3>4
  <2> QED BY <2>1, <2>2
<1>7. DrawChecklist(d) = DrawFrom(v, v.scroll) BY DEF DrawChecklist, DrawnAt, s
<1> HIDE DEF v
<1>8. Count(v) = n /\ v.scroll \in Int BY <1>5, <1>6 DEF Dialog
<1>9. v.selected \in -1 .. Count(v) - 1 /\ v.max = Fewer(v.height, Count(v)) /\ v.height > 0
  BY <1>6, <1>8 DEF n, m
<1>10. Kept(DrawFrom(v, v.scroll)) BY <1>1, <1>6, <1>8, <1>9, DrawKeeps
<1> QED BY <1>7, <1>10

(* A dialog that was not drawn yet has no rows. *)
LEMMA EmptyRows == <<>> \in AnyRows
<1>1. <<>> = [i \in 1 .. 0 |-> Nothing] OBVIOUS
<1>2. [i \in 1 .. 0 |-> Nothing] \in [1 .. 0 -> Row] OBVIOUS
<1> QED BY <1>1, <1>2, RowsTyped

(* No list is open at first. *)
LEMMA InitLists == ASSUME ListSizes, LxMenuInit PROVE Kept(lists)
<1>1. PICK kind \in {"menu", "checklist"}, items \in ItemLists : lists = Closed(kind, items)
  BY DEF LxMenuInit
<1>2. lists \in Dialog /\ lists.selected = -1 /\ lists.result = "closed"
  BY <1>1, EmptyRows DEF Closed, Dialog
<1>3. Count(lists) \in Nat BY <1>2, CountIs
<1> QED BY <1>2, <1>3 DEF Kept

(* A dialog that is opened again starts at the top, with nothing chosen. *)
Fresh(d, e, selected) ==
  /\ e \in Dialog /\ e.kind = d.kind /\ e.items = d.items /\ e.selected = selected
  /\ e.result = "none" /\ e.choice = 0 /\ e.scroll = 0

(* The dialogs open again so. *)
LEMMA ReopenedIs ==
  ASSUME NEW d \in Dialog, NEW selected \in Int
  PROVE  Fresh(d, Reopened(d, selected), selected)
<1> DEFINE e == Reopened(d, selected)
<1>1. 0 \in Int /\ -1 \in Int OBVIOUS
<1>2. e = [d EXCEPT !.scroll = 0, !.choice = 0, !.first = 0, !.button = 0, !.code = 0,
                    !.picked = -1, !.selected = selected, !.result = "none"]
  BY DEF Reopened
<1> HIDE DEF e
<1>3. e \in Dialog BY <1>1, <1>2 DEF Dialog
<1>4. e.kind = d.kind /\ e.items = d.items BY <1>2 DEF Dialog
<1>5. e.selected = selected /\ e.result = "none" /\ e.choice = 0 /\ e.scroll = 0
  BY <1>2 DEF Dialog
<1> QED BY <1>3, <1>4, <1>5 DEF e, Fresh

(* Every step keeps the invariant, one case for each action. *)
LEMMA NextLists == ASSUME ListSizes, Kept(lists), [LxMenuNext]_lists PROVE Kept(lists')
<1> DEFINE n == Count(lists)
<1>1. lists \in Dialog /\ n \in Nat /\ lists.selected \in -1 .. n - 1 BY CountIs DEF Kept
<1>2. CASE OpenMenu
  <2>1. PICK height \in Heights, selected \in ItemsOf(lists) \cup {-1} :
          lists' = DrawMenu(Reopened(lists, selected), height)
    BY <1>2 DEF OpenMenu
  <2>2. selected \in -1 .. n - 1 /\ selected \in Int BY <1>1 DEF ItemsOf
  <2> DEFINE e == Reopened(lists, selected)
  <2>3. /\ e \in Dialog /\ e.kind = lists.kind /\ e.items = lists.items /\ e.selected = selected
        /\ e.result = "none" /\ e.choice = 0
    <3>1. Fresh(lists, e, selected) BY <1>1, <2>2, ReopenedIs
    <3> HIDE DEF e
    <3> QED BY <3>1 DEF Fresh
  <2> HIDE DEF e
  <2>4. Count(e) = n BY <2>3 DEF Count
  <2>5. e.kind = "menu" BY <1>2, <2>3 DEF OpenMenu
  <2>6. Kept(DrawMenu(e, height))
    <3>1. Count(e) > 0 => e.choice \in 0 .. Count(e) - 1 BY <1>1, <2>3, <2>4
    <3> HIDE DEF n
    <3> QED BY <2>2, <2>3, <2>4, <2>5, <3>1, DrawMenuKeeps
  <2> QED BY <2>1, <2>6 DEF e
<1>3. CASE OpenChecklist
  <2>1. PICK height \in Heights, choice \in ItemsOf(lists) :
          lists' = DrawChecklist([Reopened(lists, -1) EXCEPT !.choice = choice, !.height = height])
    BY <1>3 DEF OpenChecklist
  <2> DEFINE o == Reopened(lists, -1)
             e == [o EXCEPT !.choice = choice, !.height = height]
  <2>2. height \in Nat /\ height > 0 /\ choice \in 0 .. n - 1 /\ choice \in Int
    BY <1>1, <2>1 DEF ItemsOf, ListSizes
  <2>3. /\ o \in Dialog /\ o.kind = lists.kind /\ o.items = lists.items /\ o.selected = -1
        /\ o.result = "none" /\ o.scroll = 0
    <3>1. -1 \in Int OBVIOUS
    <3>2. Fresh(lists, o, -1) BY <1>1, <3>1, ReopenedIs
    <3> HIDE DEF o
    <3> QED BY <3>2 DEF Fresh
  <2> HIDE DEF o
  <2>4. /\ e \in Dialog /\ e.kind = lists.kind /\ e.items = lists.items /\ e.selected = -1
        /\ e.result = "none" /\ e.scroll = 0 /\ e.choice = choice /\ e.height = height
    BY <2>2, <2>3 DEF Dialog
  <2> HIDE DEF e
  <2>5. Count(e) = n BY <2>4 DEF Count
  <2>6. e.kind = "checklist" BY <1>3, <2>4 DEF OpenChecklist
  <2>7. 0 \in 0 .. Count(e) - Fewer(e.height, Count(e)) BY <1>1, <2>2, <2>4, <2>5 DEF Fewer
  <2>8. e.selected \in -1 .. Count(e) - 1 BY <1>1, <2>4, <2>5
  <2>9. Kept(DrawChecklist(e))
    <3> HIDE DEF n
    <3> QED BY <2>2, <2>4, <2>5, <2>6, <2>7, <2>8, DrawChecklistKeeps
  <2> QED BY <2>1, <2>9 DEF e, o
<1>4. CASE PressInMenu BY <1>4, MenuKeyIs DEF PressInMenu
<1>5. CASE PressInChecklist BY <1>5, ListKeyIs DEF PressInChecklist
<1>6. CASE Resize
  <2>1. lists.result = "none" /\ Window(lists) BY <1>6 DEF Resize, Kept
  <2>2. /\ lists.max \in Nat /\ lists.max <= n /\ lists.height > 0
        /\ n > 0 => lists.choice \in 0 .. n - 1 /\ lists.choice < lists.height
    <3>1. /\ lists.height > 0 /\ lists.max = Fewer(lists.height, n)
          /\ n > 0 => lists.choice \in 0 .. lists.max - 1
      BY <2>1 DEF Window
    <3>2. lists.height \in Nat BY <1>1 DEF Dialog
    <3> HIDE DEF n
    <3>3. lists.max \in Nat /\ lists.max <= n /\ lists.max <= lists.height
      BY <1>1, <3>1, <3>2 DEF Fewer
    <3> QED BY <1>1, <3>1, <3>2, <3>3
  <2>3. CASE lists.kind = "menu" /\ \E height \in Heights : lists' = DrawMenu(lists, height)
    BY <1>1, <2>1, <2>2, <2>3, DrawMenuKeeps
  <2>4. CASE lists.kind = "checklist" /\ lists' = DrawChecklist(lists)
    <3>1. n > 0 BY <2>1, <2>4 DEF Kept
    <3>2. lists.scroll \in 0 .. n - Fewer(lists.height, n) BY <2>1 DEF Window
    <3>3. Kept(DrawChecklist(lists)) BY <1>1, <2>1, <2>2, <2>4, <3>1, <3>2, DrawChecklistKeeps
    <3> QED BY <2>4, <3>3
  <2> QED BY <1>6, <2>3, <2>4 DEF Resize
<1>7. CASE Escape
  <2>1. lists' = [lists EXCEPT !.result = "esc"] BY <1>7 DEF Escape, Leave
  <2>2. lists' \in Dialog /\ lists'.items = lists.items /\ lists'.selected = lists.selected
        /\ lists'.result = "esc"
    BY <1>1, <2>1 DEF Dialog
  <2> QED BY <1>1, <2>2 DEF Kept, Count
<1>8. CASE UNCHANGED lists BY <1>8
<1> QED BY <1>2, <1>3, <1>4, <1>5, <1>6, <1>7, <1>8 DEF LxMenuNext

(* The inductive invariant: what is kept of the dialogue that is open. *)
ListsInv == Kept(lists)

(* The inductive invariant of the lists. *)
THEOREM ListsInvariance == ListSizes => (LxMenuSpec => []ListsInv)
<1> SUFFICES ASSUME ListSizes PROVE LxMenuSpec => []ListsInv OBVIOUS
<1>1. LxMenuInit => ListsInv BY InitLists DEF ListsInv
<1>2. ListsInv /\ [LxMenuNext]_lists => ListsInv' BY NextLists DEF ListsInv
<1> QED BY <1>1, <1>2, PTL DEF LxMenuSpec

(* Every row shows the item it stands for and only the choice is lit. *)
THEOREM ScreenTrueHolds == ListSizes => (LxMenuSpec => []ScreenTrue)
<1> SUFFICES ASSUME ListSizes PROVE LxMenuSpec => []ScreenTrue OBVIOUS
<1>1. ListsInv => ScreenTrue BY DEF ListsInv, Kept, Shows, ScreenTrue
<1>2. LxMenuSpec => []ListsInv BY ListsInvariance
<1> QED BY <1>1, <1>2, PTL

(* The choice stays in the window and the window on the list. *)
THEOREM ChoiceInViewHolds == ListSizes => (LxMenuSpec => []ChoiceInView)
<1> SUFFICES ASSUME ListSizes PROVE LxMenuSpec => []ChoiceInView OBVIOUS
<1>1. ListsInv => ChoiceInView BY DEF ListsInv, Kept, Window, ChoiceInView
<1>2. LxMenuSpec => []ListsInv BY ListsInvariance
<1> QED BY <1>1, <1>2, PTL

(***************************************************************************)
(* mkhash.c.  Blocks mixed and bytes that wait are the message read so far, *)
(* the length counted is its length; the end adds padding and length.      *)
(***************************************************************************)
Bytes ==
  {<<"data", i>> : i \in Nat} \cup {<<"80">>, <<"00">>, <<"stack">>}
    \cup {<<"length", v, i>> : v \in Nat, i \in Nat}
Blocks == [1 .. Block -> Bytes]
Contexts ==
  [kind : {"md5", "sha256"}, lo : Nat, hi : Nat, count : Nat, fed : Nat, mixed : Seq(Blocks),
   buffer : Blocks, ended : BOOLEAN]

(* The context h has taken in message, of which the last used bytes wait. *)
Has(h, message, used) ==
  /\ h \in Contexts /\ message \in Seq(Bytes) /\ used \in 0 .. Block - 1
  /\ Len(message) = Len(h.mixed) * Block + used
  /\ \A k \in 1 .. Len(h.mixed), j \in 1 .. Block : h.mixed[k][j] = message[(k - 1) * Block + j]
  /\ \A j \in 1 .. used : h.buffer[j] = message[Len(h.mixed) * Block + j]

(* What the mixing leaves alone. *)
Rest(h) == [kind |-> h.kind, lo |-> h.lo, hi |-> h.hi, count |-> h.count, fed |-> h.fed,
            ended |-> h.ended]

(* Quotient and remainder are read off a division with remainder. *)
LEMMA Division ==
  ASSUME NEW b \in Nat \ {0}, NEW q \in Int, NEW r \in 0 .. b - 1
  PROVE  (q * b + r) % b = r /\ (q * b + r) \div b = q
  OBVIOUS

(* Every number has a quotient and a remainder. *)
LEMMA Divided ==
  ASSUME NEW b \in Nat \ {0}, NEW n \in Nat
  PROVE  n \div b \in Nat /\ (n % b) \in 0 .. b - 1 /\ n = (n \div b) * b + (n % b)
  OBVIOUS

(* Multiplication distributes over a sum. *)
LEMMA Distributes ==
  ASSUME NEW a \in Nat, NEW b \in Nat, NEW c \in Nat
  PROVE  (a + b) * c = a * c + b * c
  OBVIOUS

(* The bytes of a block lie within those of all. *)
LEMMA Within ==
  ASSUME NEW b \in Nat, NEW n \in Nat, NEW k \in 1 .. n, NEW j \in 1 .. b
  PROVE  (k - 1) * b + j \in 1 .. n * b
  <1>1. (k - 1) * b \in Nat /\ k * b = (k - 1) * b + b OBVIOUS
  <1>2. n * b = k * b + (n - k) * b /\ (n - k) * b \in Nat OBVIOUS
  <1> QED BY <1>1, <1>2

(* What memcpy leaves in the buffer. *)
LEMMA FilledIs ==
  ASSUME HashSizes, NEW buffer \in Blocks, NEW at \in Nat, NEW bytes \in Seq(Bytes)
  PROVE  /\ Filled(buffer, at, bytes) \in Blocks
         /\ \A i \in 1 .. Block :
              Filled(buffer, at, bytes)[i] =
                IF i - at \in 1 .. Len(bytes) THEN bytes[i - at] ELSE buffer[i]
  <1>1. DOMAIN bytes = 1 .. Len(bytes) /\ \A i \in 1 .. Len(bytes) : bytes[i] \in Bytes OBVIOUS
  <1> QED BY <1>1 DEF Filled, Blocks

(* Writing into the buffer changes the buffer alone. *)
LEMMA BufferedIs ==
  ASSUME HashSizes, NEW h \in Contexts, NEW used \in Nat, NEW bytes \in Seq(Bytes)
  PROVE  /\ Buffered(h, used, bytes) \in Contexts
         /\ Buffered(h, used, bytes).mixed = h.mixed
         /\ Buffered(h, used, bytes).buffer = Filled(h.buffer, used, bytes)
         /\ Rest(Buffered(h, used, bytes)) = Rest(h)
  <1>1. Filled(h.buffer, used, bytes) \in Blocks BY FilledIs DEF Contexts
  <1> QED BY <1>1 DEF Buffered, Contexts, Rest

(* Mixing appends blocks and changes nothing else. *)
LEMMA MixIs ==
  ASSUME HashSizes, NEW h \in Contexts, NEW blocks \in Seq(Blocks)
  PROVE  /\ Mix(h, blocks) \in Contexts
         /\ Mix(h, blocks).mixed = h.mixed \o blocks
         /\ Mix(h, blocks).buffer = h.buffer
         /\ Rest(Mix(h, blocks)) = Rest(h)
  <1>1. h.mixed \in Seq(Blocks) BY DEF Contexts
  <1>2. h.mixed \o blocks \in Seq(Blocks) BY <1>1, ConcatProperties
  <1> QED BY <1>2 DEF Mix, Contexts, Rest

(* Where the brackets are does not matter. *)
LEMMA Brackets ==
  \A a, b, c \in Seq(Bytes) : (a \o b) \o c = a \o (b \o c)
  BY ConcatAssociative


(* Bytes that do not fill the buffer wait in it. *)
LEMMA BufferedHas ==
  ASSUME HashSizes, NEW h, NEW m, NEW used, Has(h, m, used), NEW bytes \in Seq(Bytes),
         used + Len(bytes) < Block
  PROVE  Has(Buffered(h, used, bytes), m \o bytes, used + Len(bytes))
  <1> DEFINE g == Buffered(h, used, bytes)
             n == Len(h.mixed)
             N == n * Block
             w == m \o bytes
  <1>1. /\ h \in Contexts /\ m \in Seq(Bytes) /\ used \in 0 .. Block - 1 /\ n \in Nat
        /\ Block \in Nat /\ h.buffer \in Blocks /\ Len(m) \in Nat /\ Len(bytes) \in Nat
    BY DEF Has, Contexts, HashSizes
  <1>2. g \in Contexts /\ g.mixed = h.mixed /\ g.buffer = Filled(h.buffer, used, bytes)
    BY <1>1, BufferedIs
  <1>3. w \in Seq(Bytes) /\ Len(w) = Len(m) + Len(bytes)
        /\ \A i \in 1 .. Len(m) + Len(bytes) :
             w[i] = IF i <= Len(m) THEN m[i] ELSE bytes[i - Len(m)]
    BY <1>1, ConcatProperties
  <1> HIDE DEF w
  <1>4. Len(m) = N + used /\ N \in Nat BY <1>1 DEF Has
  <1>40. \A i \in 1 .. Block :
           Filled(h.buffer, used, bytes)[i] =
             IF i - used \in 1 .. Len(bytes) THEN bytes[i - used] ELSE h.buffer[i]
    <2>1. DOMAIN bytes = 1 .. Len(bytes) OBVIOUS
    <2> QED BY <2>1 DEF Filled
  <1>41. \A j \in 1 .. used : h.buffer[j] = m[N + j] BY DEF Has
  <1>5. ASSUME NEW k \in 1 .. n, NEW j \in 1 .. Block
        PROVE  g.mixed[k][j] = w[(k - 1) * Block + j]
    <2>1. (k - 1) * Block + j \in 1 .. N BY <1>1, Within
    <2>2. h.mixed[k][j] = m[(k - 1) * Block + j] BY DEF Has
    <2>3. (k - 1) * Block + j \in 1 .. Len(m) BY <1>1, <1>4, <2>1
    <2> HIDE DEF g
    <2> QED BY <1>1, <1>2, <1>3, <2>2, <2>3
  <1>6. ASSUME NEW j \in 1 .. used + Len(bytes)
        PROVE  g.buffer[j] = w[N + j]
    <2> HIDE DEF N
    <2>0. j \in 1 .. Block /\ N + j \in 1 .. Len(m) + Len(bytes) BY <1>1, <1>4
    <2>1. g.buffer[j] = IF j - used \in 1 .. Len(bytes) THEN bytes[j - used] ELSE h.buffer[j]
      BY <1>2, <1>40, <2>0
    <2>2. w[N + j] =
            IF N + j <= Len(m) THEN m[N + j] ELSE bytes[N + j - Len(m)]
      <3> DEFINE i == N + j
      <3>1. i \in 1 .. Len(m) + Len(bytes) BY <2>0
      <3>2. Len(m) \in Nat /\ Len(bytes) \in Nat BY <1>1
      <3>20. N \in Nat /\ j \in Nat BY <1>1, <1>4
      <3> HIDE DEF i
      <3>3. w[i] = IF i <= Len(m) THEN m[i] ELSE bytes[i - Len(m)] BY ONLY <1>3, <3>1, <3>2
      <3> QED BY <3>2, <3>20, <3>3 DEF i
    <2>3. j <= used => h.buffer[j] = m[N + j] BY <1>41, <2>0
    <2>4. N + j - Len(m) = j - used BY <1>1, <1>4
    <2>5. (N + j <= Len(m)) <=> j <= used BY <1>1, <1>4
    <2>6. (j - used \in 1 .. Len(bytes)) <=> ~ (j <= used) BY <1>1
    <2> HIDE DEF g
    <2> QED BY <2>1, <2>2, <2>3, <2>4, <2>5, <2>6
  <1> HIDE DEF N
  <1>7. used + Len(bytes) \in 0 .. Block - 1 /\ Len(w) = N + (used + Len(bytes))
    BY <1>1, <1>3, <1>4
  <1> HIDE DEF g
  <1>8. Len(g.mixed) = n BY <1>2
  <1>9. Has(g, w, used + Len(bytes))
    BY <1>2, <1>3, <1>5, <1>6, <1>7, <1>8 DEF Has, N
  <1> QED BY <1>9 DEF g, w

(* A buffer that is full is mixed. *)
LEMMA MixedHas ==
  ASSUME HashSizes, NEW h, NEW m, NEW used, Has(h, m, used), NEW bytes \in Seq(Bytes),
         used + Len(bytes) = Block
  PROVE  Has(MixBuffer(Buffered(h, used, bytes)), m \o bytes, 0)
  <1> DEFINE b == Buffered(h, used, bytes)
             g == MixBuffer(b)
             n == Len(h.mixed)
             N == n * Block
             w == m \o bytes
  <1>1. /\ h \in Contexts /\ m \in Seq(Bytes) /\ used \in 0 .. Block - 1 /\ n \in Nat
        /\ Block \in Nat /\ h.buffer \in Blocks /\ Len(m) \in Nat /\ Len(bytes) \in Nat
        /\ h.mixed \in Seq(Blocks) /\ Block # 0
    BY DEF Has, Contexts, HashSizes
  <1>2. b \in Contexts /\ b.mixed = h.mixed /\ b.buffer = Filled(h.buffer, used, bytes)
    BY <1>1, BufferedIs
  <1>20. b.buffer \in Blocks /\ <<b.buffer>> \in Seq(Blocks) BY <1>2 DEF Contexts
  <1> HIDE DEF b
  <1>21. g \in Contexts /\ g.mixed = h.mixed \o <<b.buffer>>
    BY <1>2, <1>20, MixIs DEF MixBuffer
  <1>22. Len(g.mixed) = n + 1 /\ \A k \in 1 .. n + 1 :
           g.mixed[k] = IF k <= n THEN h.mixed[k] ELSE b.buffer
    <2>1. h.mixed \in Seq(Blocks) BY <1>1
    <2> HIDE DEF g
    <2> DEFINE last == b.buffer
    <2>2. last \in Blocks BY <1>20
    <2>3. g.mixed = h.mixed \o <<last>> BY <1>21
    <2> HIDE DEF last
    <2>4. <<last>> \in Seq(Blocks) /\ Len(<<last>>) = 1 /\ <<last>>[1] = last BY <2>2
    <2>5. /\ Len(g.mixed) = n + 1
          /\ \A k \in 1 .. n + 1 : g.mixed[k] = IF k <= n THEN h.mixed[k] ELSE <<last>>[k - n]
      BY ONLY <2>1, <2>3, <2>4, ConcatProperties
    <2>6. ASSUME NEW k \in 1 .. n + 1, ~ (k <= n) PROVE k - n = 1
      <3>1. n \in Nat BY <1>1
      <3> HIDE DEF n
      <3> QED BY ONLY <2>6, <3>1
    <2> QED BY <2>4, <2>5, <2>6 DEF last
  <1>3. w \in Seq(Bytes) /\ Len(w) = Len(m) + Len(bytes)
        /\ \A i \in 1 .. Len(m) + Len(bytes) :
             w[i] = IF i <= Len(m) THEN m[i] ELSE bytes[i - Len(m)]
    BY <1>1, ConcatProperties
  <1> HIDE DEF w
  <1>4. Len(m) = N + used /\ N \in Nat BY <1>1 DEF Has
  <1>40. \A i \in 1 .. Block :
           Filled(h.buffer, used, bytes)[i] =
             IF i - used \in 1 .. Len(bytes) THEN bytes[i - used] ELSE h.buffer[i]
    <2>1. DOMAIN bytes = 1 .. Len(bytes) OBVIOUS
    <2> QED BY <2>1 DEF Filled
  <1>41. \A j \in 1 .. used : h.buffer[j] = m[N + j] BY DEF Has
  <1>5. ASSUME NEW k \in 1 .. n, NEW j \in 1 .. Block
        PROVE  h.mixed[k][j] = w[(k - 1) * Block + j]
    <2>1. (k - 1) * Block + j \in 1 .. N BY <1>1, Within
    <2>2. h.mixed[k][j] = m[(k - 1) * Block + j] BY DEF Has
    <2> DEFINE i == (k - 1) * Block + j
    <2>3. i \in 1 .. N /\ h.mixed[k][j] = m[i] BY <2>1, <2>2
    <2>4. Len(m) \in Nat /\ Len(bytes) \in Nat BY <1>1
    <2> HIDE DEF i, N, n
    <2>5. i \in 1 .. Len(m) + Len(bytes) /\ i <= Len(m) BY ONLY <1>1, <1>4, <2>3, <2>4
    <2>6. w[i] = m[i] BY ONLY <1>3, <2>5
    <2>7. h.mixed[k][j] = w[i] BY ONLY <2>3, <2>6
    <2> QED BY <2>7 DEF i
  <1>6. ASSUME NEW j \in 1 .. Block
        PROVE  b.buffer[j] = w[N + j]
    <2> HIDE DEF N
    <2>0. j \in 1 .. Block /\ N + j \in 1 .. Len(m) + Len(bytes) BY <1>1, <1>4
    <2>1. b.buffer[j] = IF j - used \in 1 .. Len(bytes) THEN bytes[j - used] ELSE h.buffer[j]
      BY <1>2, <1>40, <2>0
    <2>2. w[N + j] =
            IF N + j <= Len(m) THEN m[N + j] ELSE bytes[N + j - Len(m)]
      <3> DEFINE i == N + j
      <3>1. i \in 1 .. Len(m) + Len(bytes) BY <2>0
      <3>2. Len(m) \in Nat /\ Len(bytes) \in Nat BY <1>1
      <3>20. N \in Nat /\ j \in Nat BY <1>1, <1>4
      <3> HIDE DEF i
      <3>3. w[i] = IF i <= Len(m) THEN m[i] ELSE bytes[i - Len(m)] BY ONLY <1>3, <3>1, <3>2
      <3> QED BY <3>2, <3>20, <3>3 DEF i
    <2>3. j <= used => h.buffer[j] = m[N + j] BY <1>41, <2>0
    <2>4. N + j - Len(m) = j - used BY <1>1, <1>4
    <2>5. (N + j <= Len(m)) <=> j <= used BY <1>1, <1>4
    <2>6. (j - used \in 1 .. Len(bytes)) <=> ~ (j <= used) BY <1>1
    <2> QED BY <2>1, <2>2, <2>3, <2>4, <2>5, <2>6
  <1>70. (n + 1) * Block = N + Block BY <1>1
  <1> HIDE DEF N
  <1>71. Len(w) = N + Block
    <2>1. Len(w) = Len(m) + Len(bytes) BY <1>3
    <2>2. used \in Int /\ Len(bytes) \in Int /\ N \in Int BY <1>1, <1>4
    <2>3. Len(w) = (N + used) + Len(bytes) BY <1>4, <2>1
    <2>4. (N + used) + Len(bytes) = N + (used + Len(bytes)) BY <2>2
    <2> QED BY <2>3, <2>4
  <1>7. Len(w) = (n + 1) * Block /\ (n + 1) * Block \in Nat BY <1>1, <1>4, <1>70, <1>71
  <1> HIDE DEF g
  <1>8. ASSUME NEW k \in 1 .. n + 1, NEW j \in 1 .. Block
        PROVE  g.mixed[k][j] = w[(k - 1) * Block + j]
    <2>1. CASE k <= n
      <3>1. k \in 1 .. n BY <1>1, <2>1
      <3>2. g.mixed[k] = h.mixed[k] BY <1>22, <2>1
      <3> QED BY <1>5, <3>1, <3>2
    <2>2. CASE ~ (k <= n)
      <3>1. k = n + 1 /\ k - 1 = n
        <4>1. n \in Int /\ k \in Int /\ k <= n + 1 /\ k > n BY <1>1, <2>2
        <4> QED BY ONLY <4>1
      <3>2. g.mixed[k] = b.buffer BY <1>22, <2>2
      <3>3. w[(k - 1) * Block + j] = w[N + j] BY <3>1 DEF N
      <3> QED BY <1>6, <3>2, <3>3
    <2> QED BY <2>1, <2>2
  <1>9. Has(g, w, 0)
    <2>1. Len(g.mixed) = n + 1 BY <1>22
    <2>2. 0 \in 0 .. Block - 1 /\ 1 .. 0 = {} BY <1>1
    <2>3. Len(w) = Len(g.mixed) * Block + 0 BY <1>7, <2>1
    <2>4. \A k \in 1 .. Len(g.mixed), j \in 1 .. Block : g.mixed[k][j] = w[(k - 1) * Block + j]
      BY <1>8, <2>1
    <2> QED BY <1>3, <1>21, <2>2, <2>3, <2>4 DEF Has
  <1> QED BY <1>9 DEF g, b, w


(* Whole blocks that are mixed where they lie. *)
LEMMA MixHas ==
  ASSUME HashSizes, NEW h, NEW m, Has(h, m, 0), NEW blocks \in Seq(Blocks), NEW bytes \in Seq(Bytes),
         Len(bytes) = Len(blocks) * Block,
         \A k \in 1 .. Len(blocks), j \in 1 .. Block : blocks[k][j] = bytes[(k - 1) * Block + j]
  PROVE  Has(Mix(h, blocks), m \o bytes, 0)
  <1> DEFINE g == Mix(h, blocks)
             n == Len(h.mixed)
             q == Len(blocks)
             w == m \o bytes
  <1>1. /\ h \in Contexts /\ m \in Seq(Bytes) /\ n \in Nat /\ q \in Nat
        /\ Block \in Nat /\ Block # 0 /\ Len(m) \in Nat /\ Len(bytes) \in Nat
        /\ h.mixed \in Seq(Blocks)
    <2>1. h \in Contexts /\ m \in Seq(Bytes) /\ Block \in Nat /\ Block # 0 BY DEF Has, HashSizes
    <2>2. h.mixed \in Seq(Blocks) BY <2>1 DEF Contexts
    <2> QED BY <2>1, <2>2
  <1>2. g \in Contexts /\ g.mixed = h.mixed \o blocks BY <1>1, MixIs
  <1>3. /\ Len(h.mixed \o blocks) = n + q
        /\ \A k \in 1 .. n + q : (h.mixed \o blocks)[k] =
             IF k <= n THEN h.mixed[k] ELSE blocks[k - n]
    BY <1>1, ConcatProperties
  <1>4. w \in Seq(Bytes) /\ Len(w) = Len(m) + Len(bytes)
        /\ \A i \in 1 .. Len(m) + Len(bytes) :
             w[i] = IF i <= Len(m) THEN m[i] ELSE bytes[i - Len(m)]
    BY <1>1, ConcatProperties
  <1>5. Len(m) = n * Block BY <1>1 DEF Has
  <1> HIDE DEF w, g
  <1>6. Len(w) = (n + q) * Block
    <2>0. n \in Nat /\ q \in Nat /\ Block \in Nat BY <1>1
    <2>1. (n + q) * Block = n * Block + q * Block
      <3> HIDE DEF n, q
      <3> QED BY ONLY <2>0, Distributes
    <2>2. Len(w) = Len(m) + Len(bytes) BY <1>4
    <2> QED BY <1>5, <2>1, <2>2
  <1>7. ASSUME NEW k \in 1 .. n + q, NEW j \in 1 .. Block
        PROVE  g.mixed[k][j] = w[(k - 1) * Block + j]
    <2>1. CASE k <= n
      <3>1. k \in 1 .. n BY <1>1, <2>1
      <3>2. (k - 1) * Block + j \in 1 .. n * Block BY <1>1, <3>1, Within
      <3>3. h.mixed[k][j] = m[(k - 1) * Block + j] BY <3>1 DEF Has
      <3>4. g.mixed[k] = h.mixed[k] BY <1>2, <1>3, <2>1
      <3>5. (k - 1) * Block + j \in 1 .. Len(m) BY <1>5, <3>2
      <3> DEFINE i == (k - 1) * Block + j
      <3> HIDE DEF i
      <3>6. i \in 1 .. Len(m) => w[i] = m[i]
        <4>1. Len(m) \in Nat /\ Len(bytes) \in Nat BY <1>1
        <4>2. SUFFICES ASSUME i \in 1 .. Len(m) PROVE w[i] = m[i] OBVIOUS
        <4>3. i \in 1 .. Len(m) + Len(bytes) /\ i <= Len(m) BY <4>1, <4>2
        <4> QED BY <4>3, <1>4
      <3> QED BY <3>3, <3>4, <3>5, <3>6 DEF i
    <2>2. CASE ~ (k <= n)
      <3> DEFINE l == k - n
      <3>1. l \in 1 .. q /\ k = n + l
        <4>1. n \in Nat /\ q \in Nat /\ k \in 1 .. n + q /\ ~ (k <= n) BY <1>1, <2>2
        <4> QED BY ONLY <4>1
      <3>2. (l - 1) * Block + j \in 1 .. q * Block BY <1>1, <3>1, Within
      <3>3. g.mixed[k] = blocks[l] BY <1>2, <1>3, <2>2
      <3>4. blocks[l][j] = bytes[(l - 1) * Block + j] BY <3>1
      <3> HIDE DEF l
      <3>5. (k - 1) * Block + j = Len(m) + ((l - 1) * Block + j)
        <4>1. k - 1 = n + (l - 1) /\ l - 1 \in Nat BY <1>1, <3>1
        <4>2. (n + (l - 1)) * Block = n * Block + (l - 1) * Block
          <5>1. n \in Nat /\ Block \in Nat BY <1>1
          <5> HIDE DEF n
          <5> QED BY ONLY <4>1, <5>1, Distributes
        <4>3. n * Block \in Nat /\ (l - 1) * Block \in Nat BY <1>1, <4>1
        <4>4. (n * Block + (l - 1) * Block) + j = n * Block + ((l - 1) * Block + j) BY <4>3
        <4> QED BY <1>5, <4>1, <4>2, <4>4
      <3> DEFINE i == (l - 1) * Block + j
      <3>6. i \in 1 .. Len(bytes) BY <3>2
      <3> HIDE DEF i
      <3>7. w[Len(m) + i] = bytes[i]
        <4>1. Len(m) + i \in 1 .. Len(m) + Len(bytes) /\ ~ (Len(m) + i <= Len(m))
              /\ (Len(m) + i) - Len(m) = i
          BY <1>1, <3>6
        <4> QED BY <1>4, <4>1
      <3>8. (k - 1) * Block + j = Len(m) + i BY <3>5 DEF i
      <3>9. blocks[l][j] = bytes[i] BY <3>4 DEF i
      <3> QED BY <3>3, <3>7, <3>8, <3>9
    <2> QED BY <2>1, <2>2
  <1>8. Has(g, w, 0)
    <2>1. Len(g.mixed) = n + q BY <1>2, <1>3
    <2>2. 0 \in 0 .. Block - 1 /\ 1 .. 0 = {} BY <1>1
    <2>3. Len(w) = Len(g.mixed) * Block + 0 BY <1>1, <1>6, <2>1
    <2>4. \A k \in 1 .. Len(g.mixed), j \in 1 .. Block : g.mixed[k][j] = w[(k - 1) * Block + j]
      BY <1>7, <2>1
    <2> QED BY <1>2, <1>4, <2>2, <2>3, <2>4 DEF Has
  <1> QED BY <1>8 DEF g, w

(* A message is what is in front of a place and what is behind it. *)
LEMMA Halves ==
  ASSUME NEW bytes \in Seq(Bytes), NEW k \in 0 .. Len(bytes)
  PROVE  /\ SubSeq(bytes, 1, k) \in Seq(Bytes) /\ Behind(bytes, k) \in Seq(Bytes)
         /\ Len(SubSeq(bytes, 1, k)) = k /\ Len(Behind(bytes, k)) = Len(bytes) - k
         /\ SubSeq(bytes, 1, k) \o Behind(bytes, k) = bytes
         /\ \A i \in 1 .. k : SubSeq(bytes, 1, k)[i] = bytes[i]
  <1>1. Len(bytes) \in Nat /\ \A i \in 1 .. Len(bytes) : bytes[i] \in Bytes OBVIOUS
  <1>2. /\ SubSeq(bytes, 1, k) \in Seq(Bytes) /\ Len(SubSeq(bytes, 1, k)) = k
        /\ \A i \in 1 .. k : SubSeq(bytes, 1, k)[i] = bytes[i]
    BY <1>1, SubSeqProperties
  <1>3. Behind(bytes, k) \in Seq(Bytes) /\ Len(Behind(bytes, k)) = Len(bytes) - k
    BY <1>1, SubSeqProperties DEF Behind
  <1>4. SubSeq(bytes, 1, k) \o SubSeq(bytes, k + 1, Len(bytes)) = SubSeq(bytes, 1, Len(bytes))
    <2>1. /\ 1 \in 1 .. Len(bytes) + 1 /\ k \in 1 - 1 .. Len(bytes)
          /\ Len(bytes) \in k .. Len(bytes)
      BY <1>1
    <2> QED BY <2>1, ConcatAdjacentSubSeq
  <1>5. SubSeq(bytes, 1, Len(bytes)) = bytes BY SubSeqFull
  <1> QED BY <1>2, <1>3, <1>4, <1>5 DEF Behind

(* The blocks of a message. *)
LEMMA BlocksOfIs ==
  ASSUME HashSizes, NEW bytes \in Seq(Bytes)
  PROVE  /\ BlocksOf(bytes) \in Seq(Blocks) /\ Len(BlocksOf(bytes)) = Len(bytes) \div Block
         /\ \A k \in 1 .. Len(bytes) \div Block, j \in 1 .. Block :
              BlocksOf(bytes)[k][j] = bytes[(k - 1) * Block + j]
  <1> DEFINE q == Len(bytes) \div Block
  <1>1. Block \in Nat \ {0} /\ Len(bytes) \in Nat BY DEF HashSizes
  <1>2. q \in Nat /\ q * Block <= Len(bytes)
    <2>1. q \in Nat /\ Len(bytes) = q * Block + (Len(bytes) % Block)
          /\ (Len(bytes) % Block) \in 0 .. Block - 1
      BY <1>1, Divided
    <2> QED BY <1>1, <2>1
  <1> HIDE DEF q
  <1>3. ASSUME NEW k \in 1 .. q
        PROVE  /\ SubSeq(bytes, (k - 1) * Block + 1, k * Block) \in Blocks
               /\ \A j \in 1 .. Block :
                    SubSeq(bytes, (k - 1) * Block + 1, k * Block)[j] = bytes[(k - 1) * Block + j]
    <2> DEFINE a == (k - 1) * Block
               e == k * Block
    <2>1. e = a + Block /\ a \in Nat BY <1>1, <1>2
    <2>2. e <= q * Block
      <3>1. (k - 1) * Block + Block \in 1 .. q * Block BY <1>1, <1>2, Within
      <3> QED BY <2>1, <3>1
    <2> DEFINE Q == q * Block
    <2>3. Q \in Nat /\ Q <= Len(bytes) /\ e <= Q BY <1>1, <1>2, <2>2
    <2> HIDE DEF a, e, Q
    <2>4. a + 1 \in Int /\ e \in Int BY <2>1, <1>1
    <2>5. \A i \in a + 1 .. e : i \in 1 .. Len(bytes) BY <1>1, <2>1, <2>3
    <2>6. \A i \in a + 1 .. e : bytes[i] \in Bytes BY <2>5
    <2>7. /\ SubSeq(bytes, a + 1, e) \in Seq(Bytes)
          /\ Len(SubSeq(bytes, a + 1, e)) = IF a + 1 <= e THEN e - (a + 1) + 1 ELSE 0
          /\ \A i \in 1 .. e - (a + 1) + 1 : SubSeq(bytes, a + 1, e)[i] = bytes[a + 1 + i - 1]
      BY <2>4, <2>6, SubSeqProperties
    <2>8. Len(SubSeq(bytes, a + 1, e)) = Block /\ e - (a + 1) + 1 = Block BY <1>1, <2>1, <2>7
    <2>9. \A j \in 1 .. Block : SubSeq(bytes, a + 1, e)[j] = bytes[a + j]
      <3>1. \A j \in 1 .. Block : a + 1 + j - 1 = a + j BY <1>1, <2>1
      <3> QED BY <2>7, <2>8, <3>1
    <2>10. SubSeq(bytes, a + 1, e) \in Blocks BY <2>7, <2>8, LenProperties DEF Blocks
    <2> QED BY <2>9, <2>10 DEF a, e
  <1>4. BlocksOf(bytes) = [i \in 1 .. q |-> SubSeq(bytes, (i - 1) * Block + 1, i * Block)]
    BY DEF BlocksOf, q
  <1>5. BlocksOf(bytes) \in [1 .. q -> Blocks] BY <1>3, <1>4
  <1>6. BlocksOf(bytes) \in Seq(Blocks) /\ Len(BlocksOf(bytes)) = q BY <1>2, <1>5
  <1>7. \A k \in 1 .. q : BlocksOf(bytes)[k] = SubSeq(bytes, (k - 1) * Block + 1, k * Block)
    BY <1>4
  <1>8. \A k \in 1 .. q, j \in 1 .. Block : BlocksOf(bytes)[k][j] = bytes[(k - 1) * Block + j]
    BY <1>3, <1>7
  <1> QED BY <1>6, <1>8 DEF q


(* What waits is what the blocks leave over. *)
LEMMA UsedIs ==
  ASSUME HashSizes, NEW h, NEW m, NEW used, Has(h, m, used)
  PROVE  used = Len(m) % Block
  <1>1. /\ Block \in Nat \ {0} /\ Len(h.mixed) \in Nat /\ used \in 0 .. Block - 1
        /\ Len(m) = Len(h.mixed) * Block + used
    BY DEF Has, HashSizes, Contexts
  <1> DEFINE q == Len(h.mixed)
  <1>2. q \in Int BY <1>1
  <1> HIDE DEF q
  <1>3. (q * Block + used) % Block = used BY <1>1, <1>2, Division
  <1> QED BY <1>1, <1>3 DEF q

(* From h, the context g has taken in message, and nothing else happened to it. *)
Takes(h, g, message) == Has(g, message, Len(message) % Block) /\ Rest(g) = Rest(h)

(* TakeBlocks, behind an empty buffer, takes in all it is given. *)
LEMMA TakeHas ==
  ASSUME HashSizes, NEW h, NEW m, Has(h, m, 0), NEW bytes \in Seq(Bytes)
  PROVE  Takes(h, TakeBlocks(h, bytes), m \o bytes)
  <1> DEFINE q == Len(bytes) \div Block
             k == q * Block
             a == SubSeq(bytes, 1, k)
             b == Behind(bytes, k)
             g == Mix(h, BlocksOf(bytes))
             r == Buffered(g, 0, b)
  <1>1. Block \in Nat \ {0} /\ Len(bytes) \in Nat /\ h \in Contexts /\ m \in Seq(Bytes)
    BY DEF HashSizes, Has
  <1>2. q \in Nat /\ Len(bytes) = k + (Len(bytes) % Block) /\ (Len(bytes) % Block) \in 0 .. Block - 1
    BY <1>1, Divided
  <1>3. k \in Nat /\ k \in 0 .. Len(bytes) BY <1>1, <1>2
  <1>4. BlocksOf(bytes) \in Seq(Blocks) /\ Len(BlocksOf(bytes)) = q
        /\ \A i \in 1 .. q, j \in 1 .. Block : BlocksOf(bytes)[i][j] = bytes[(i - 1) * Block + j]
    BY BlocksOfIs
  <1> HIDE DEF q
  <1>5. /\ a \in Seq(Bytes) /\ b \in Seq(Bytes) /\ Len(a) = k /\ Len(b) = Len(bytes) - k
        /\ a \o b = bytes /\ \A i \in 1 .. k : a[i] = bytes[i]
    <2> HIDE DEF k
    <2> QED BY <1>3, Halves
  <1> HIDE DEF a, b
  <1>6. \A i \in 1 .. Len(BlocksOf(bytes)), j \in 1 .. Block :
          BlocksOf(bytes)[i][j] = a[(i - 1) * Block + j]
    <2> SUFFICES ASSUME NEW i \in 1 .. q, NEW j \in 1 .. Block
                 PROVE  BlocksOf(bytes)[i][j] = a[(i - 1) * Block + j]
      BY <1>4
    <2>1. (i - 1) * Block + j \in 1 .. k BY <1>1, <1>2, Within
    <2> QED BY <1>4, <1>5, <2>1
  <1>7. Has(g, m \o a, 0) /\ Rest(g) = Rest(h)
    <2>1. Len(a) = Len(BlocksOf(bytes)) * Block BY <1>4, <1>5
    <2>2. Has(g, m \o a, 0) BY <1>4, <1>5, <1>6, <2>1, MixHas
    <2> QED BY <1>1, <1>4, <2>2, MixIs
  <1>8. 0 + Len(b) < Block BY <1>1, <1>2, <1>3, <1>5
  <1>9. Has(r, (m \o a) \o b, 0 + Len(b))
    <2> HIDE DEF g
    <2> QED BY <1>5, <1>7, <1>8, BufferedHas
  <1>10. Rest(r) = Rest(g)
    <2>1. g \in Contexts BY <1>7 DEF Has
    <2> HIDE DEF g
    <2> QED BY <1>5, <2>1, BufferedIs
  <1>11. (m \o a) \o b = m \o bytes
    <2>1. m \in Seq(Bytes) /\ a \in Seq(Bytes) /\ b \in Seq(Bytes) BY <1>1, <1>5
    <2>2. (m \o a) \o b = m \o (a \o b) BY ONLY <2>1, Brackets, Zenon
    <2> QED BY ONLY <1>5, <2>2
  <1>12. r = TakeBlocks(h, bytes) BY DEF TakeBlocks, Buffered, b, k, q
  <1> HIDE DEF r
  <1>13. Has(r, m \o bytes, 0 + Len(b)) BY <1>9, <1>11
  <1>14. Has(r, m \o bytes, Len(m \o bytes) % Block) BY <1>13, UsedIs
  <1> QED BY <1>7, <1>10, <1>12, <1>14 DEF Takes

(* A buffer that is filled up, and what is behind. *)
LEMMA FillHas ==
  ASSUME HashSizes, NEW h, NEW m, NEW used, Has(h, m, used), NEW bytes \in Seq(Bytes),
         used + Len(bytes) >= Block
  PROVE  Takes(h, TakeBlocks(MixBuffer(Buffered(h, used, SubSeq(bytes, 1, Block - used))),
                             Behind(bytes, Block - used)), m \o bytes)
  <1> DEFINE k == Block - used
             a == SubSeq(bytes, 1, k)
             b == Behind(bytes, k)
             g == MixBuffer(Buffered(h, used, a))
  <1>1. /\ Block \in Nat \ {0} /\ Len(bytes) \in Nat /\ h \in Contexts /\ m \in Seq(Bytes)
        /\ used \in 0 .. Block - 1
    BY DEF HashSizes, Has
  <1>2. k \in 0 .. Len(bytes) /\ used + k = Block BY <1>1
  <1> HIDE DEF k
  <1>3. a \in Seq(Bytes) /\ b \in Seq(Bytes) /\ Len(a) = k /\ a \o b = bytes
    BY <1>2, Halves
  <1> HIDE DEF a, b
  <1>4. Has(g, m \o a, 0) BY <1>2, <1>3, MixedHas
  <1>5. Rest(g) = Rest(h)
    <2>1. Buffered(h, used, a) \in Contexts /\ Rest(Buffered(h, used, a)) = Rest(h)
      BY <1>1, <1>3, BufferedIs
    <2>2. <<Buffered(h, used, a).buffer>> \in Seq(Blocks) BY <2>1 DEF Contexts
    <2> QED BY <2>1, <2>2, MixIs DEF MixBuffer
  <1> HIDE DEF g
  <1>6. Takes(g, TakeBlocks(g, b), (m \o a) \o b) BY <1>3, <1>4, TakeHas
  <1>7. (m \o a) \o b = m \o bytes
    <2>1. m \in Seq(Bytes) /\ a \in Seq(Bytes) /\ b \in Seq(Bytes) BY <1>1, <1>3
    <2>2. (m \o a) \o b = m \o (a \o b) BY ONLY <2>1, Brackets, Zenon
    <2> QED BY ONLY <1>3, <2>2
  <1>8. Takes(h, TakeBlocks(g, b), m \o bytes) BY <1>5, <1>6, <1>7 DEF Takes
  <1> QED BY <1>8 DEF g, a, b, k

(* Bytes that do not fill the buffer are taken in too. *)
LEMMA KeepHas ==
  ASSUME HashSizes, NEW h, NEW m, NEW used, Has(h, m, used), NEW bytes \in Seq(Bytes),
         used + Len(bytes) < Block
  PROVE  Takes(h, Buffered(h, used, bytes), m \o bytes)
  <1>1. Has(Buffered(h, used, bytes), m \o bytes, used + Len(bytes)) BY BufferedHas
  <1>2. Has(Buffered(h, used, bytes), m \o bytes, Len(m \o bytes) % Block) BY <1>1, UsedIs
  <1>3. h \in Contexts /\ used \in Nat BY DEF Has, HashSizes
  <1>4. Rest(Buffered(h, used, bytes)) = Rest(h) BY <1>3, BufferedIs
  <1> QED BY <1>2, <1>4 DEF Takes

(* MD5_hash and SHA256_Update take in what they are given. *)
LEMMA HashMD5Has ==
  ASSUME HashSizes, NEW h, NEW m, NEW used, Has(h, m, used), NEW bytes \in Seq(Bytes)
  PROVE  Takes(h, HashMD5(h, used, bytes), m \o bytes)
  <1>1. used \in 0 .. Block - 1 /\ Block \in Nat /\ Len(bytes) \in Nat BY DEF Has, HashSizes
  <1>2. CASE used > 0 /\ Fits(Len(bytes), used)
    <2>1. used + Len(bytes) < Block BY <1>1, <1>2 DEF Fits
    <2> QED BY <1>2, <2>1, KeepHas DEF HashMD5
  <1>3. CASE used > 0 /\ ~ Fits(Len(bytes), used)
    <2>1. used + Len(bytes) >= Block BY <1>1, <1>3 DEF Fits
    <2> QED BY <1>3, <2>1, FillHas DEF HashMD5
  <1>4. CASE ~ (used > 0)
    <2>1. used = 0 BY <1>1, <1>4
    <2>2. HashMD5(h, used, bytes) = TakeBlocks(h, bytes) BY <1>4 DEF HashMD5
    <2> QED BY <2>1, <2>2, TakeHas
  <1> QED BY <1>2, <1>3, <1>4

(* The update of SHA256 takes in what it is given, in the same two cases. *)
LEMMA UpdateAtHas ==
  ASSUME HashSizes, NEW h, NEW m, NEW used, Has(h, m, used), NEW bytes \in Seq(Bytes)
  PROVE  Takes(h, UpdateAt(h, used, bytes), m \o bytes)
  <1>1. used \in 0 .. Block - 1 /\ Block \in Nat /\ Len(bytes) \in Nat BY DEF Has, HashSizes
  <1>2. CASE Len(bytes) < Block - used
    <2>1. used + Len(bytes) < Block BY <1>1, <1>2
    <2> QED BY <1>2, <2>1, KeepHas DEF UpdateAt
  <1>3. CASE ~ (Len(bytes) < Block - used)
    <2>1. used + Len(bytes) >= Block BY <1>1, <1>3
    <2> QED BY <1>3, <2>1, FillHas DEF UpdateAt
  <1> QED BY <1>2, <1>3


(* What the buffer is given piece by piece. *)
LEMMA BufferedTwice ==
  ASSUME HashSizes, NEW h \in Contexts, NEW used \in Nat, NEW a \in Seq(Bytes), NEW b \in Seq(Bytes)
  PROVE  Buffered(Buffered(h, used, a), used + Len(a), b) = Buffered(h, used, a \o b)
  <1> DEFINE c == a \o b
             n == Len(a)
  <1>1. h.buffer \in Blocks /\ n \in Nat /\ Len(b) \in Nat /\ DOMAIN a = 1 .. n /\ DOMAIN b = 1 .. Len(b)
    BY DEF Contexts
  <1>2. c \in Seq(Bytes) /\ Len(c) = n + Len(b)
        /\ \A i \in 1 .. n + Len(b) : c[i] = IF i <= n THEN a[i] ELSE b[i - n]
    BY ConcatProperties
  <1> HIDE DEF c
  <1>3. DOMAIN c = 1 .. n + Len(b) BY <1>2
  <1>4. Filled(Filled(h.buffer, used, a), used + n, b) = Filled(h.buffer, used, c)
    <2>1. ASSUME NEW i \in 1 .. Block
          PROVE  (IF i - (used + n) \in 1 .. Len(b) THEN b[i - (used + n)]
                    ELSE IF i - used \in 1 .. n THEN a[i - used] ELSE h.buffer[i])
                 = (IF i - used \in 1 .. n + Len(b) THEN c[i - used] ELSE h.buffer[i])
      <3>1. i - used \in Int /\ i - (used + n) = (i - used) - n BY <1>1
      <3>2. CASE i - used \in 1 .. n
        <4>1. ~ (i - (used + n) \in 1 .. Len(b)) /\ i - used \in 1 .. n + Len(b) /\ i - used <= n
          BY <1>1, <3>1, <3>2
        <4> QED BY <1>2, <3>2, <4>1
      <3>3. CASE i - (used + n) \in 1 .. Len(b)
        <4>1. i - used \in 1 .. n + Len(b) /\ ~ (i - used <= n) BY <1>1, <3>1, <3>3
        <4> QED BY <1>2, <3>1, <3>3, <4>1
      <3>4. CASE ~ (i - used \in 1 .. n) /\ ~ (i - (used + n) \in 1 .. Len(b))
        <4>1. ~ (i - used \in 1 .. n + Len(b)) BY <1>1, <3>1, <3>4
        <4> QED BY <3>4, <4>1
      <3> QED BY <3>2, <3>3, <3>4
    <2> HIDE DEF n
    <2> QED BY <1>1, <1>3, <2>1 DEF Filled
  <1> QED BY <1>4 DEF Buffered, Contexts, c

(* Message, zeros and length are bytes, as many as they say. *)
LEMMA PartsAreBytes ==
  ASSUME HashSizes
  PROVE  /\ <<<<"80">>>> \in Seq(Bytes) /\ Len(<<<<"80">>>>) = 1
         /\ \A n \in Nat : Zeros(n) \in Seq(Bytes) /\ Len(Zeros(n)) = n
         /\ \A v \in Nat : Length(v) \in Seq(Bytes) /\ Len(Length(v)) = LengthSize
         /\ \A i, n \in Nat : Data(i, n) \in Seq(Bytes) /\ Len(Data(i, n)) = n
  <1>1. <<"80">> \in Bytes /\ <<"00">> \in Bytes BY DEF Bytes
  <1>2. ASSUME NEW n \in Nat PROVE Zeros(n) \in Seq(Bytes) /\ Len(Zeros(n)) = n
    <2>1. Zeros(n) \in [1 .. n -> Bytes] BY <1>1 DEF Zeros
    <2> QED BY <2>1
  <1>3. ASSUME NEW v \in Nat PROVE Length(v) \in Seq(Bytes) /\ Len(Length(v)) = LengthSize
    <2>1. \A i \in 1 .. LengthSize : <<"length", v, i>> \in Bytes BY DEF Bytes
    <2>2. Length(v) \in [1 .. LengthSize -> Bytes] BY <2>1 DEF Length
    <2>3. LengthSize \in Nat BY DEF HashSizes
    <2> QED BY <2>2, <2>3
  <1>4. ASSUME NEW i \in Nat, NEW n \in Nat PROVE Data(i, n) \in Seq(Bytes) /\ Len(Data(i, n)) = n
    <2>1. \A j \in 1 .. n : <<"data", i + j>> \in Bytes BY DEF Bytes
    <2>2. Data(i, n) \in [1 .. n -> Bytes] BY <2>1 DEF Data
    <2> QED BY <2>2
  <1> QED BY <1>1, <1>2, <1>3, <1>4

(* Zeros behind zeros are zeros. *)
LEMMA MoreZeros ==
  ASSUME NEW a \in Nat, NEW b \in Nat
  PROVE  Zeros(a) \o Zeros(b) = Zeros(a + b)
  <1> DEFINE S == {<<"00">>}
  <1>1. \A n \in Nat : Zeros(n) \in [1 .. n -> S] BY DEF Zeros
  <1>2. \A n \in Nat : Zeros(n) \in Seq(S) /\ Len(Zeros(n)) = n BY <1>1
  <1>3. \A s \in Seq(S), i \in Nat : i \in 1 .. Len(s) => s[i] = <<"00">> OBVIOUS
  <1>4. Zeros(a) \o Zeros(b) \in Seq(S) /\ Len(Zeros(a) \o Zeros(b)) = a + b
    <2> DEFINE s == Zeros(a)
               t == Zeros(b)
    <2>1. s \in Seq(S) /\ t \in Seq(S) /\ Len(s) = a /\ Len(t) = b BY <1>2
    <2> HIDE DEF S, s, t
    <2>2. s \o t \in Seq(S) /\ Len(s \o t) = a + b BY <2>1, ConcatProperties
    <2> QED BY <2>2 DEF s, t
  <1>5. Zeros(a + b) \in Seq(S) /\ Len(Zeros(a + b)) = a + b BY <1>2
  <1> DEFINE x == Zeros(a) \o Zeros(b)
             y == Zeros(a + b)
  <1>6. \A i \in 1 .. a + b : x[i] = <<"00">> /\ y[i] = <<"00">> BY <1>3, <1>4, <1>5
  <1> HIDE DEF x, y
  <1>7. x \in Seq(S) /\ y \in Seq(S) /\ Len(x) = a + b /\ Len(y) = a + b BY <1>4, <1>5 DEF x, y
  <1>8. x = y BY <1>6, <1>7, SeqEqual
  <1> QED BY <1>8 DEF x, y

(* What is read next belongs behind what was read. *)
LEMMA MoreData ==
  ASSUME NEW a \in Nat, NEW n \in Nat
  PROVE  Data(0, a) \o Data(a, n) = Data(0, a + n)
  <1> DEFINE S == {<<"data", i>> : i \in Nat}
  <1>1. ASSUME NEW f \in Nat, NEW k \in Nat
        PROVE  /\ Data(f, k) \in Seq(S) /\ Len(Data(f, k)) = k
               /\ \A i \in 1 .. k : Data(f, k)[i] = <<"data", f + i>>
    <2>1. Data(f, k) \in [1 .. k -> S] BY DEF Data
    <2>2. \A i \in 1 .. k : Data(f, k)[i] = <<"data", f + i>> BY DEF Data
    <2> HIDE DEF S
    <2>3. Data(f, k) \in Seq(S) /\ Len(Data(f, k)) = k BY <2>1
    <2> QED BY <2>2, <2>3
  <1> DEFINE u == Data(0, a)
             v == Data(a, n)
             x == u \o v
             y == Data(0, a + n)
  <1>2. u \in Seq(S) /\ Len(u) = a /\ v \in Seq(S) /\ Len(v) = n /\ y \in Seq(S) /\ Len(y) = a + n
    <2>1. 0 \in Nat /\ a + n \in Nat OBVIOUS
    <2> QED BY ONLY <1>1, <2>1
  <1>3. /\ \A i \in 1 .. a : u[i] = <<"data", 0 + i>>
        /\ \A i \in 1 .. n : v[i] = <<"data", a + i>>
        /\ \A i \in 1 .. a + n : y[i] = <<"data", 0 + i>>
    <2>1. 0 \in Nat /\ a + n \in Nat OBVIOUS
    <2> QED BY ONLY <1>1, <2>1
  <1> HIDE DEF u, v, y
  <1>4. x \in Seq(S) /\ Len(x) = a + n
        /\ \A i \in 1 .. a + n : x[i] = IF i <= a THEN u[i] ELSE v[i - a]
    BY <1>2, ConcatProperties
  <1> HIDE DEF x
  <1>5. \A i \in 1 .. a + n : x[i] = y[i]
    <2> SUFFICES ASSUME NEW i \in 1 .. a + n PROVE x[i] = y[i] OBVIOUS
    <2>1. CASE i <= a
      <3>1. i \in 1 .. a BY <2>1
      <3> QED BY <1>3, <1>4, <2>1, <3>1
    <2>2. CASE ~ (i <= a)
      <3>1. i - a \in 1 .. n /\ a + (i - a) = 0 + i BY <2>2
      <3> QED BY <1>3, <1>4, <2>2, <3>1
    <2> QED BY <2>1, <2>2
  <1>6. x = y BY <1>2, <1>4, <1>5, SeqEqual
  <1> QED BY <1>6 DEF x, u, v, y


One == <<<<"80">>>>

(* The padding as the two ways of the code make it. *)
LEMMA PaddingShort ==
  ASSUME HashSizes, NEW n \in Nat, (n % Block) < Block - LengthSize
  PROVE  /\ Block - LengthSize - 1 - (n % Block) \in Nat
         /\ PaddingFor(n) = One \o Zeros(Block - LengthSize - 1 - (n % Block))
  <1> DEFINE q == n \div Block
             r == n % Block
             z == Block - LengthSize - 1 - r
  <1>1. Block \in Nat \ {0} /\ LengthSize \in 1 .. Block - 1 BY DEF HashSizes
  <1>2. q \in Nat /\ r \in 0 .. Block - 1 /\ n = q * Block + r BY <1>1, Divided
  <1>3. r < Block - LengthSize OBVIOUS
  <1> HIDE DEF q, r
  <1>4. z \in 0 .. Block - 1 /\ - q \in Int /\ (- q) * Block = - (q * Block) /\ q * Block \in Nat
    BY <1>1, <1>2, <1>3
  <1>5. Block - LengthSize - 1 - n = (- q) * Block + z BY <1>1, <1>2, <1>4
  <1> HIDE DEF z
  <1>6. ((- q) * Block + z) % Block = z BY <1>1, <1>4, Division
  <1>7. PaddingFor(n) = One \o Zeros(z) BY <1>5, <1>6 DEF PaddingFor, One
  <1> QED BY <1>4, <1>7 DEF z, r

(* The padding when the length does not fit behind the 80 byte: it goes on in a second block. *)
LEMMA PaddingLong ==
  ASSUME HashSizes, NEW n \in Nat, ~ ((n % Block) < Block - LengthSize)
  PROVE  /\ Block - 1 - (n % Block) \in Nat /\ Block - LengthSize \in Nat
         /\ PaddingFor(n) = One \o (Zeros(Block - 1 - (n % Block)) \o Zeros(Block - LengthSize))
  <1> DEFINE q == n \div Block
             r == n % Block
             a == Block - 1 - r
             b == Block - LengthSize
             z == a + b
  <1>1. Block \in Nat \ {0} /\ LengthSize \in 1 .. Block - 1 BY DEF HashSizes
  <1>2. q \in Nat /\ r \in 0 .. Block - 1 /\ n = q * Block + r BY <1>1, Divided
  <1>3. ~ (r < Block - LengthSize) OBVIOUS
  <1> HIDE DEF q, r
  <1>4. a \in Nat /\ b \in Nat /\ z \in 0 .. Block - 1 BY <1>1, <1>2, <1>3
  <1>5. - q - 1 \in Int /\ (- q - 1) * Block = - (q * Block) - Block /\ q * Block \in Nat
    BY <1>1, <1>2
  <1>6. Block - LengthSize - 1 - n = (- q - 1) * Block + z BY <1>1, <1>2, <1>5
  <1>7. Zeros(a) \o Zeros(b) = Zeros(z) BY <1>4, MoreZeros
  <1> HIDE DEF z
  <1>8. ((- q - 1) * Block + z) % Block = z BY <1>1, <1>4, <1>5, Division
  <1>9. PaddingFor(n) = One \o Zeros(z) BY <1>6, <1>8 DEF PaddingFor, One
  <1> QED BY <1>4, <1>7, <1>9 DEF r

(* The message, its padding and its length. *)
Whole(m, value) == (m \o PaddingFor(Len(m))) \o Length(value)

(* The end of MD5 when the length fits into the block. *)
LEMMA EndShort ==
  ASSUME HashSizes, NEW h, NEW m, NEW used, Has(h, m, used), NEW value \in Nat,
         used < Block - LengthSize
  PROVE  Has(MixBuffer(Buffered(h, used, (One \o Zeros(Block - LengthSize - 1 - used)) \o Length(value))),
             Whole(m, value), 0)
  <1> DEFINE z == Block - LengthSize - 1 - used
             p == One \o Zeros(z)
             l == Length(value)
  <1>1. /\ Block \in Nat \ {0} /\ LengthSize \in 1 .. Block - 1 /\ used \in 0 .. Block - 1
        /\ m \in Seq(Bytes) /\ Len(m) \in Nat
    BY DEF HashSizes, Has
  <1>2. used = Len(m) % Block BY UsedIs
  <1>3. z \in Nat BY <1>1
  <1>4. PaddingFor(Len(m)) = p BY <1>1, <1>2, PaddingShort
  <1>5. p \in Seq(Bytes) /\ Len(p) = 1 + z
    <2> HIDE DEF z
    <2>1. One \in Seq(Bytes) /\ Zeros(z) \in Seq(Bytes) BY <1>3, PartsAreBytes DEF One
    <2>2. Len(One) = 1 /\ Len(Zeros(z)) = z BY <1>3, PartsAreBytes DEF One
    <2>3. One \o Zeros(z) \in Seq(Bytes) /\ Len(One \o Zeros(z)) = Len(One) + Len(Zeros(z))
      BY ONLY <2>1, ConcatProperties
    <2> QED BY <2>2, <2>3
  <1>6. l \in Seq(Bytes) /\ Len(l) = LengthSize BY PartsAreBytes
  <1>7. used + (1 + z) + LengthSize = Block BY <1>1
  <1> HIDE DEF z, p, l
  <1>8. p \o l \in Seq(Bytes) /\ Len(p \o l) = (1 + z) + LengthSize
    BY <1>5, <1>6, ConcatProperties
  <1>9. used + Len(p \o l) = Block BY <1>1, <1>3, <1>7, <1>8
  <1>10. Has(MixBuffer(Buffered(h, used, p \o l)), m \o (p \o l), 0) BY <1>8, <1>9, MixedHas
  <1>11. m \o (p \o l) = (m \o p) \o l
    <2>1. m \in Seq(Bytes) /\ p \in Seq(Bytes) /\ l \in Seq(Bytes) BY <1>1, <1>5, <1>6
    <2> QED BY ONLY <2>1, Brackets, Zenon
  <1> QED BY <1>4, <1>10, <1>11 DEF Whole, l, p, z

(* The end of MD5 when it does not. *)
LEMMA EndLong ==
  ASSUME HashSizes, NEW h, NEW m, NEW used, Has(h, m, used), NEW value \in Nat,
         ~ (used < Block - LengthSize),
         NEW g, g = MixBuffer(Buffered(h, used, One \o Zeros(Block - 1 - used)))
  PROVE  Has(MixBuffer(Buffered(g, 0, Zeros(Block - LengthSize) \o Length(value))),
             Whole(m, value), 0)
  <1> DEFINE a == Block - 1 - used
             b == Block - LengthSize
             p == One \o Zeros(a)
             s == Zeros(b)
             l == Length(value)
  <1>1. /\ Block \in Nat \ {0} /\ LengthSize \in 1 .. Block - 1 /\ used \in 0 .. Block - 1
        /\ m \in Seq(Bytes) /\ Len(m) \in Nat
    BY DEF HashSizes, Has
  <1>2. used = Len(m) % Block BY UsedIs
  <1>3. a \in Nat /\ b \in Nat /\ used + (1 + a) = Block /\ b + LengthSize = Block BY <1>1
  <1>4. PaddingFor(Len(m)) = One \o (Zeros(a) \o Zeros(b)) BY <1>1, <1>2, PaddingLong
  <1> HIDE DEF a, b
  <1>5. /\ One \in Seq(Bytes) /\ Len(One) = 1 /\ Zeros(a) \in Seq(Bytes) /\ Len(Zeros(a)) = a
        /\ s \in Seq(Bytes) /\ Len(s) = b /\ l \in Seq(Bytes) /\ Len(l) = LengthSize
    BY <1>3, PartsAreBytes DEF One
  <1>50. One \in Seq(Bytes) /\ Zeros(a) \in Seq(Bytes) /\ s \in Seq(Bytes) /\ l \in Seq(Bytes)
    BY <1>5
  <1> HIDE DEF s, l
  <1>6. p \in Seq(Bytes) /\ Len(p) = 1 + a
    <2>1. One \o Zeros(a) \in Seq(Bytes) /\ Len(One \o Zeros(a)) = Len(One) + Len(Zeros(a))
      BY ONLY <1>50, ConcatProperties
    <2> QED BY <1>5, <2>1
  <1>60. One \o (Zeros(a) \o s) = (One \o Zeros(a)) \o s BY ONLY <1>50, Brackets, Zenon
  <1>7. PaddingFor(Len(m)) = p \o s BY <1>4, <1>60 DEF s
  <1> HIDE DEF p
  <1>70. m \in Seq(Bytes) /\ p \in Seq(Bytes) BY <1>1, <1>6
  <1>8. used + Len(p) = Block BY <1>1, <1>3, <1>6
  <1>9. Has(g, m \o p, 0)
    <2>1. Has(MixBuffer(Buffered(h, used, p)), m \o p, 0) BY <1>6, <1>8, MixedHas
    <2> QED BY <2>1 DEF p, a
  <1>10. s \o l \in Seq(Bytes) /\ Len(s \o l) = b + LengthSize BY <1>5, ConcatProperties
  <1>11. 0 + Len(s \o l) = Block BY <1>1, <1>3, <1>10
  <1>12. Has(MixBuffer(Buffered(g, 0, s \o l)), (m \o p) \o (s \o l), 0)
    BY <1>9, <1>10, <1>11, MixedHas
  <1>13. (m \o p) \o (s \o l) = (m \o (p \o s)) \o l
    <2>1. m \o p \in Seq(Bytes) BY <1>1, <1>6, ConcatProperties
    <2> DEFINE x == m \o p
    <2>2. x \o (s \o l) = (x \o s) \o l
      <3>1. x \in Seq(Bytes) /\ s \in Seq(Bytes) /\ l \in Seq(Bytes) BY <1>50, <2>1
      <3> HIDE DEF x
      <3> QED BY ONLY <3>1, Brackets, Zenon
    <2>3. (m \o p) \o s = m \o (p \o s)
      <3>1. m \in Seq(Bytes) /\ p \in Seq(Bytes) /\ s \in Seq(Bytes) BY <1>50, <1>70
      <3> QED BY ONLY <3>1, Brackets, Zenon
    <2> QED BY <2>2, <2>3
  <1> QED BY <1>7, <1>12, <1>13 DEF Whole, s, l, b


(* MD5_end and SHA256_Final. *)
LEMMA EndMD5Has ==
  ASSUME HashSizes, NEW h, NEW m, Has(h, m, h.lo % Block), NEW value \in Nat,
         value = h.lo + LoWrap * h.hi
  PROVE  Has(EndMD5(h), Whole(m, value), 0)
  <1> DEFINE used == h.lo % Block
             b == Buffered(h, used, One)
             z == Block - LengthSize - (used + 1)
             y == Block - (used + 1)
  <1>1. /\ Block \in Nat \ {0} /\ LengthSize \in 1 .. Block - 1 /\ used \in 0 .. Block - 1
        /\ h \in Contexts /\ Has(h, m, used)
    BY DEF HashSizes, Has
  <1> HIDE DEF used
  <1>2. One \in Seq(Bytes) /\ Len(One) = 1 /\ Length(value) \in Seq(Bytes)
    BY PartsAreBytes DEF One
  <1>3. EndMD5(h) = PadMD5(b, used + 1, value) BY DEF EndMD5, used, One
  <1>4. CASE used < Block - LengthSize
    <2>1. RoomMD5(used + 1) BY <1>1, <1>4 DEF RoomMD5
    <2>2. z \in Nat /\ Block - LengthSize - 1 - used = z BY <1>1, <1>4
    <2> HIDE DEF z
    <2>3. Zeros(z) \in Seq(Bytes) BY <2>2, PartsAreBytes
    <2>4. Zeros(z) \o Length(value) \in Seq(Bytes)
      <3>1. Zeros(z) \in Seq(Bytes) /\ Length(value) \in Seq(Bytes) BY <1>2, <2>3
      <3> QED BY ONLY <3>1, ConcatProperties
    <2>5. Buffered(b, used + 1, Zeros(z) \o Length(value))
            = Buffered(h, used, One \o (Zeros(z) \o Length(value)))
      <3> DEFINE x == Zeros(z) \o Length(value)
      <3>1. x \in Seq(Bytes) /\ used \in Nat BY <1>1, <2>4
      <3> HIDE DEF x
      <3>2. h \in Contexts /\ One \in Seq(Bytes) BY <1>1, <1>2
      <3>3. Buffered(b, used + Len(One), x) = Buffered(h, used, One \o x)
        BY ONLY HashSizes, <3>1, <3>2, BufferedTwice
      <3> QED BY <1>2, <3>3 DEF x
    <2>6. One \o (Zeros(z) \o Length(value)) = (One \o Zeros(z)) \o Length(value)
      <3>1. One \in Seq(Bytes) /\ Zeros(z) \in Seq(Bytes) /\ Length(value) \in Seq(Bytes)
        BY <1>2, <2>3
      <3> QED BY ONLY <3>1, Brackets, Zenon
    <2>7. EndMD5(h) = MixBuffer(Buffered(h, used, (One \o Zeros(z)) \o Length(value)))
      BY <1>3, <2>1, <2>5, <2>6 DEF PadMD5, AddLength, z
    <2>8. Has(MixBuffer(Buffered(h, used, (One \o Zeros(z)) \o Length(value))), Whole(m, value), 0)
      BY <1>1, <1>4, <2>2, EndShort
    <2> QED BY <2>7, <2>8
  <1>5. CASE ~ (used < Block - LengthSize)
    <2> DEFINE g == MixBuffer(Buffered(h, used, One \o Zeros(y)))
    <2>1. ~ RoomMD5(used + 1) BY <1>1, <1>5 DEF RoomMD5
    <2>2. y \in Nat /\ Block - 1 - used = y BY <1>1
    <2> HIDE DEF y
    <2>3. Zeros(y) \in Seq(Bytes) BY <2>2, PartsAreBytes
    <2>4. Buffered(b, used + 1, Zeros(y)) = Buffered(h, used, One \o Zeros(y))
      <3> DEFINE x == Zeros(y)
      <3>1. used \in Nat /\ x \in Seq(Bytes) BY <1>1, <2>3
      <3> HIDE DEF x
      <3>2. h \in Contexts /\ One \in Seq(Bytes) BY <1>1, <1>2
      <3>3. Buffered(b, used + Len(One), x) = Buffered(h, used, One \o x)
        BY ONLY HashSizes, <3>1, <3>2, BufferedTwice
      <3> QED BY <1>2, <3>3 DEF x
    <2>5. EndMD5(h) = AddLength(g, 0, value)
      BY <1>3, <2>1, <2>4 DEF PadMD5, y
    <2>6. Block - LengthSize - 0 = Block - LengthSize BY <1>1
    <2> HIDE DEF g
    <2>7. EndMD5(h) = MixBuffer(Buffered(g, 0, Zeros(Block - LengthSize) \o Length(value)))
      BY <2>5, <2>6 DEF AddLength
    <2>8. g = MixBuffer(Buffered(h, used, One \o Zeros(Block - 1 - used))) BY <2>2 DEF g
    <2>9. Has(MixBuffer(Buffered(g, 0, Zeros(Block - LengthSize) \o Length(value))), Whole(m, value), 0)
      BY <1>1, <1>5, <2>8, EndLong
    <2> QED BY <2>7, <2>9
  <1> QED BY <1>4, <1>5

(* What SHA256_Pad takes of its constant. *)
LEMMA PadIs ==
  ASSUME HashSizes, NEW k \in 1 .. Block
  PROVE  SubSeq(Pad, 1, k) = One \o Zeros(k - 1)
  <1> DEFINE a == Zeros(k - 1)
             b == Zeros(Block - k)
  <1>1. Block \in Nat /\ k - 1 \in Nat /\ Block - k \in Nat /\ (k - 1) + (Block - k) = Block - 1
    BY DEF HashSizes
  <1>2. One \in Seq(Bytes) /\ a \in Seq(Bytes) /\ b \in Seq(Bytes) BY <1>1, PartsAreBytes DEF One
  <1>3. Len(One) = 1 /\ Len(a) = k - 1 /\ Len(b) = Block - k BY <1>1, PartsAreBytes DEF One
  <1>4. a \o b = Zeros(Block - 1) BY <1>1, MoreZeros
  <1> HIDE DEF a, b
  <1> DEFINE p == One \o a
  <1>5. One \o (a \o b) = p \o b BY ONLY <1>2, Brackets, Zenon
  <1>6. p \in Seq(Bytes) /\ Len(p) = k
    <2>1. One \o a \in Seq(Bytes) /\ Len(One \o a) = Len(One) + Len(a)
      BY ONLY <1>2, ConcatProperties
    <2> QED BY <1>1, <1>3, <2>1
  <1>7. Pad = p \o b BY <1>4, <1>5 DEF Pad, One
  <1> HIDE DEF p
  <1>8. SubSeq(p \o b, 1, k) = SubSeq(p, 1, k)
    <2>1. 1 \in 1 .. Len(p) /\ k \in 1 .. Len(p) BY <1>1, <1>6
    <2>2. p \in Seq(Bytes) /\ b \in Seq(Bytes) BY <1>2, <1>6
    <2> QED BY ONLY <2>1, <2>2, SubSeqOfConcat1
  <1>9. SubSeq(p, 1, k) = p BY <1>6, SubSeqFull
  <1> QED BY <1>7, <1>8, <1>9 DEF p, a

(* The end of SHA256 leaves the message, its padding and its length. *)
LEMMA EndSHAHas ==
  ASSUME HashSizes, NEW h, NEW m, Has(h, m, Used(h)), NEW value \in Nat, value = h.count \div 8
  PROVE  Has(EndSHA(h), Whole(m, value), 0)
  <1> DEFINE used == Used(h)
  <1>1. /\ Block \in Nat \ {0} /\ LengthSize \in 1 .. Block - 1 /\ used \in 0 .. Block - 1
        /\ h \in Contexts /\ Has(h, m, used)
    BY DEF HashSizes, Has
  <1> HIDE DEF used
  <1>2. One \in Seq(Bytes) /\ Len(One) = 1 /\ Length(value) \in Seq(Bytes)
    BY PartsAreBytes DEF One
  <1>4. CASE used < Block - LengthSize
    <2> DEFINE k == Block - LengthSize - used
               p == One \o Zeros(k - 1)
               b == Buffered(h, used, p)
    <2>1. k \in 1 .. Block /\ k - 1 \in Nat /\ used + k = Block - LengthSize
          /\ Block - LengthSize - 1 - used = k - 1
      BY <1>1, <1>4
    <2> HIDE DEF k
    <2>2. SubSeq(Pad, 1, k) = p BY <2>1, PadIs
    <2>3. EndSHA(h) = FinishSHA(b) BY <1>4, <2>2 DEF EndSHA, used, k
    <2>4. p \in Seq(Bytes) /\ Len(p) = k
      <3>1. One \in Seq(Bytes) /\ Zeros(k - 1) \in Seq(Bytes) BY <2>1, PartsAreBytes DEF One
      <3>2. One \o Zeros(k - 1) \in Seq(Bytes)
            /\ Len(One \o Zeros(k - 1)) = Len(One) + Len(Zeros(k - 1))
        BY ONLY <3>1, ConcatProperties
      <3>3. Len(Zeros(k - 1)) = k - 1 BY <2>1, PartsAreBytes
      <3> QED BY <1>2, <2>1, <3>2, <3>3
    <2> HIDE DEF p
    <2>5. b.count = h.count
      <3>1. Rest(b) = Rest(h) BY <1>1, <2>4, BufferedIs
      <3>2. Rest(b).count = b.count /\ Rest(h).count = h.count BY DEF Rest
      <3> QED BY <3>1, <3>2
    <2>6. Buffered(b, Block - LengthSize, Length(value)) = Buffered(h, used, p \o Length(value))
      <3>1. used \in Nat BY <1>1
      <3> HIDE DEF b
      <3>2. h \in Contexts /\ p \in Seq(Bytes) /\ Length(value) \in Seq(Bytes) BY <1>1, <1>2, <2>4
      <3>3. Buffered(b, used + Len(p), Length(value)) = Buffered(h, used, p \o Length(value))
        BY ONLY HashSizes, <3>1, <3>2, BufferedTwice DEF b
      <3> QED BY <2>1, <2>4, <3>3
    <2>7. FinishSHA(b) = MixBuffer(Buffered(h, used, p \o Length(value)))
      BY <2>5, <2>6 DEF FinishSHA
    <2>8. Has(MixBuffer(Buffered(h, used, p \o Length(value))), Whole(m, value), 0)
      BY <1>1, <1>4, <2>1, EndShort DEF p
    <2> QED BY <2>3, <2>7, <2>8
  <1>5. CASE ~ (used < Block - LengthSize)
    <2> DEFINE k == Block - used
               p == One \o Zeros(k - 1)
               g == MixBuffer(Buffered(h, used, p))
               s == Zeros(Block - LengthSize)
               l == Length(value)
               c == Buffered(g, 0, s)
    <2>1. k \in 1 .. Block /\ k - 1 \in Nat /\ used + k = Block /\ Block - 1 - used = k - 1
          /\ Block - LengthSize \in Nat
      BY <1>1, <1>5
    <2> HIDE DEF k
    <2>2. SubSeq(Pad, 1, k) = p BY <2>1, PadIs
    <2>3. EndSHA(h) = FinishSHA(c) BY <1>5, <2>2 DEF EndSHA, used, k
    <2>4. p \in Seq(Bytes) /\ Len(p) = k
      <3>1. One \in Seq(Bytes) /\ Zeros(k - 1) \in Seq(Bytes) BY <2>1, PartsAreBytes DEF One
      <3>2. One \o Zeros(k - 1) \in Seq(Bytes)
            /\ Len(One \o Zeros(k - 1)) = Len(One) + Len(Zeros(k - 1))
        BY ONLY <3>1, ConcatProperties
      <3>3. Len(Zeros(k - 1)) = k - 1 BY <2>1, PartsAreBytes
      <3> QED BY <1>2, <2>1, <3>2, <3>3
    <2>5. s \in Seq(Bytes) /\ Len(s) = Block - LengthSize BY <2>1, PartsAreBytes
    <2>6. Has(g, m \o p, 0)
      <3> HIDE DEF p
      <3> QED BY <1>1, <2>1, <2>4, MixedHas
    <2>7. g \in Contexts BY <2>6 DEF Has
    <2>8. g.count = h.count
      <3> HIDE DEF p
      <3> DEFINE b == Buffered(h, used, p)
      <3>1. b \in Contexts /\ Rest(b) = Rest(h) BY <1>1, <2>4, BufferedIs
      <3>2. <<b.buffer>> \in Seq(Blocks) BY <3>1 DEF Contexts
      <3> HIDE DEF b
      <3>3. Rest(Mix(b, <<b.buffer>>)) = Rest(b) BY <3>1, <3>2, MixIs
      <3>4. g = Mix(b, <<b.buffer>>) BY DEF MixBuffer, b
      <3>5. Rest(g).count = g.count /\ Rest(h).count = h.count BY DEF Rest
      <3> QED BY <3>1, <3>3, <3>4, <3>5
    <2>9. g = MixBuffer(Buffered(h, used, One \o Zeros(Block - 1 - used))) BY <2>1
    <2> HIDE DEF g, s
    <2>10. c.count = g.count
      <3>1. Rest(c) = Rest(g) BY <2>5, <2>7, BufferedIs
      <3>2. Rest(c).count = c.count /\ Rest(g).count = g.count BY DEF Rest
      <3> QED BY <3>1, <3>2
    <2>11. Buffered(c, 0 + Len(s), l) = Buffered(g, 0, s \o l) BY <1>2, <2>5, <2>7, BufferedTwice
    <2>12. 0 + Len(s) = Block - LengthSize BY <1>1, <2>5
    <2>13. FinishSHA(c) = MixBuffer(Buffered(g, 0, s \o l))
      BY <2>8, <2>10, <2>11, <2>12 DEF FinishSHA
    <2>14. Has(MixBuffer(Buffered(g, 0, s \o l)), Whole(m, value), 0)
      BY <1>1, <1>5, <2>9, EndLong DEF s
    <2> QED BY <2>3, <2>13, <2>14
  <1> QED BY <1>4, <1>5


(* The length is the number of bytes, modulo what its field holds. *)
Counts(h, n) ==
  IF h.kind = "md5"
    THEN /\ h.lo \in 0 .. LoWrap - 1 /\ h.hi \in 0 .. HiWrap - 1
         /\ \E t \in Nat : n = t * (LoWrap * HiWrap) + (h.lo + LoWrap * h.hi)
    ELSE \E c \in 0 .. LoWrap * HiWrap - 1, t \in Nat :
           h.count = 8 * c /\ n = t * (LoWrap * HiWrap) + c

(* Whole blocks do not count for what is left over. *)
LEMMA LeftOver ==
  ASSUME NEW b \in Nat \ {0}, NEW z \in Nat, NEW y \in Nat
  PROVE  (z * b + y) % b = y % b
  <1> DEFINE q == y \div b
             r == y % b
  <1>1. q \in Nat /\ r \in 0 .. b - 1 /\ y = q * b + r BY Divided
  <1> HIDE DEF q, r
  <1>2. (z + q) * b = z * b + q * b BY <1>1, Distributes
  <1>3. z * b \in Nat /\ q * b \in Nat BY <1>1
  <1>4. z * b + y = (z + q) * b + r BY <1>1, <1>2, <1>3
  <1>5. ((z + q) * b + r) % b = r BY <1>1, Division
  <1> QED BY <1>4, <1>5 DEF r

(* The block divides what the length wraps at. *)
LEMMA Wraps ==
  ASSUME HashSizes, NEW t \in Nat, NEW n \in Nat
  PROVE  /\ (t * (LoWrap * HiWrap) + n) % Block = n % Block
         /\ (LoWrap * t + n) % Block = n % Block
  <1> DEFINE w == LoWrap \div Block
  <1>1. Block \in Nat \ {0} /\ LoWrap \in Nat \ {0} /\ HiWrap \in Nat \ {0} /\ LoWrap % Block = 0
    BY DEF HashSizes
  <1>2. w \in Nat /\ LoWrap = w * Block
    <2>1. w \in Nat /\ LoWrap = w * Block + (LoWrap % Block) BY <1>1, Divided
    <2> QED BY <1>1, <2>1
  <1> HIDE DEF w
  <1>3. t * (LoWrap * HiWrap) = (t * (w * HiWrap)) * Block /\ t * (w * HiWrap) \in Nat
    BY <1>1, <1>2
  <1>4. LoWrap * t = (w * t) * Block /\ w * t \in Nat BY <1>1, <1>2
  <1>5. ((t * (w * HiWrap)) * Block + n) % Block = n % Block BY <1>1, <1>3, LeftOver
  <1>6. ((w * t) * Block + n) % Block = n % Block BY <1>1, <1>4, LeftOver
  <1> QED BY <1>3, <1>4, <1>5, <1>6

(* So the buffer's fill can be read off the length, wrapped or not. *)
LEMMA FillMD5 ==
  ASSUME HashSizes, NEW h \in Contexts, NEW n \in Nat, Counts(h, n), h.kind = "md5"
  PROVE  h.lo % Block = n % Block
  <1>1. PICK t \in Nat : n = t * (LoWrap * HiWrap) + (h.lo + LoWrap * h.hi)
    BY DEF Counts
  <1>2. h.lo \in Nat /\ h.hi \in Nat /\ LoWrap * h.hi \in Nat BY DEF Contexts, HashSizes
  <1>3. n % Block = (h.lo + LoWrap * h.hi) % Block BY <1>1, <1>2, Wraps
  <1>4. h.lo + LoWrap * h.hi = LoWrap * h.hi + h.lo BY <1>2
  <1>5. (LoWrap * h.hi + h.lo) % Block = h.lo % Block BY <1>2, Wraps
  <1> QED BY <1>3, <1>4, <1>5

(* The fill that SHA256 derives from its count of bits is that of the buffer. *)
LEMMA FillSHA ==
  ASSUME HashSizes, NEW h \in Contexts, NEW n \in Nat, Counts(h, n), h.kind # "md5"
  PROVE  Used(h) = n % Block
  <1>1. PICK c \in 0 .. LoWrap * HiWrap - 1, t \in Nat :
          h.count = 8 * c /\ n = t * (LoWrap * HiWrap) + c
    BY DEF Counts
  <1>2. LoWrap * HiWrap \in Nat /\ c \in Nat BY DEF HashSizes
  <1>3. h.count \div 8 = c BY <1>1, <1>2
  <1>4. n % Block = c % Block BY <1>1, <1>2, Wraps
  <1> QED BY <1>3, <1>4 DEF Used

(* What is put at the end. *)
LEMMA LengthMD5 ==
  ASSUME HashSizes, NEW h \in Contexts, NEW n \in Nat, Counts(h, n), h.kind = "md5"
  PROVE  h.lo + LoWrap * h.hi = n % (LoWrap * HiWrap)
  <1>1. PICK t \in Nat : n = t * (LoWrap * HiWrap) + (h.lo + LoWrap * h.hi)
    BY DEF Counts
  <1>2. LoWrap \in Nat \ {0} /\ HiWrap \in Nat \ {0} /\ h.lo \in 0 .. LoWrap - 1 /\ h.hi \in 0 .. HiWrap - 1
    BY DEF HashSizes, Counts
  <1> DEFINE M == LoWrap * HiWrap
             v == h.lo + LoWrap * h.hi
  <1>3. M \in Nat \ {0} BY <1>2
  <1>4. v \in 0 .. M - 1
    <2>1. LoWrap * h.hi \in Nat /\ v \in Nat BY <1>2
    <2>2. LoWrap * HiWrap = LoWrap * h.hi + LoWrap * (HiWrap - h.hi) BY <1>2
    <2>3. LoWrap * (HiWrap - h.hi) >= LoWrap BY <1>2
    <2> QED BY <1>2, <1>3, <2>1, <2>2, <2>3
  <1> HIDE DEF M, v
  <1>5. (t * M + v) % M = v BY <1>3, <1>4, Division
  <1> QED BY <1>1, <1>5 DEF M, v

(* The bits counted are those of the message, below the wrap. *)
LEMMA LengthSHA ==
  ASSUME HashSizes, NEW h \in Contexts, NEW n \in Nat, Counts(h, n), h.kind # "md5"
  PROVE  h.count \div 8 = n % (LoWrap * HiWrap)
  <1>1. PICK c \in 0 .. LoWrap * HiWrap - 1, t \in Nat :
          h.count = 8 * c /\ n = t * (LoWrap * HiWrap) + c
    BY DEF Counts
  <1> DEFINE M == LoWrap * HiWrap
  <1>2. M \in Nat \ {0} BY DEF HashSizes
  <1> HIDE DEF M
  <1>3. c \in 0 .. M - 1 BY <1>1 DEF M
  <1>4. h.count \div 8 = c BY <1>1, <1>2, <1>3
  <1>5. (t * M + c) % M = c BY <1>2, <1>3, Division
  <1> QED BY <1>1, <1>4, <1>5 DEF M

(* A carry counts one wrap of lo. *)
LEMMA CarryIs ==
  ASSUME HashSizes, NEW lo \in 0 .. LoWrap - 1, NEW n \in Nat
  PROVE  (lo + n) \div LoWrap = Carry(lo, n) + (n \div LoWrap)
  <1> DEFINE q == n \div LoWrap
             r == n % LoWrap
  <1>1. LoWrap \in Nat \ {0} BY DEF HashSizes
  <1>2. q \in Nat /\ r \in 0 .. LoWrap - 1 /\ n = q * LoWrap + r BY <1>1, Divided
  <1> HIDE DEF q, r
  <1>3. CASE lo + r < LoWrap
    <2>1. lo + n = q * LoWrap + (lo + r) BY <1>1, <1>2
    <2>2. lo + r \in 0 .. LoWrap - 1 BY <1>1, <1>2, <1>3
    <2>3. (lo + n) % LoWrap = lo + r /\ (lo + n) \div LoWrap = q BY <1>1, <1>2, <2>1, <2>2, Division
    <2>4. Carry(lo, n) = 0 BY <1>1, <1>2, <2>3 DEF Carry
    <2> QED BY <1>2, <2>3, <2>4 DEF q
  <1>4. CASE ~ (lo + r < LoWrap)
    <2>0. q + 1 \in Int /\ (q + 1) * LoWrap = q * LoWrap + LoWrap /\ q * LoWrap \in Nat BY <1>1, <1>2
    <2>1. lo + n = (q + 1) * LoWrap + (lo + r - LoWrap) BY <1>1, <1>2, <2>0
    <2>2. lo + r - LoWrap \in 0 .. LoWrap - 1 BY <1>1, <1>2, <1>4
    <2>3. (lo + n) % LoWrap = lo + r - LoWrap /\ (lo + n) \div LoWrap = q + 1
      <3> DEFINE p == q + 1
                 s == lo + r - LoWrap
      <3>1. p \in Int /\ s \in 0 .. LoWrap - 1 BY <2>0, <2>2
      <3> HIDE DEF p, s
      <3>2. (p * LoWrap + s) % LoWrap = s /\ (p * LoWrap + s) \div LoWrap = p
        BY ONLY <1>1, <3>1, Division
      <3> QED BY <2>1, <3>2 DEF p, s
    <2>4. Carry(lo, n) = 1 BY <1>1, <1>2, <2>3 DEF Carry
    <2> QED BY <1>2, <2>3, <2>4 DEF q
  <1> QED BY <1>3, <1>4


(* The two parts of the length of MD5 count a read, with the carry. *)
LEMMA CountMD5Is ==
  ASSUME HashSizes, NEW h \in Contexts, NEW n \in Nat, Counts(h, n), h.kind = "md5", NEW k \in Nat
  PROVE  CountMD5(h, k) \in Contexts /\ Counts(CountMD5(h, k), n + k)
  <1> DEFINE g == CountMD5(h, k)
             a == (h.lo + k) \div LoWrap
             lo == (h.lo + k) % LoWrap
             d == (h.hi + a) \div HiWrap
             hi == (h.hi + a) % HiWrap
  <1>1. LoWrap \in Nat \ {0} /\ HiWrap \in Nat \ {0} /\ h.lo \in 0 .. LoWrap - 1 /\ h.hi \in 0 .. HiWrap - 1
    BY DEF HashSizes, Counts
  <1>2. PICK t \in Nat : n = t * (LoWrap * HiWrap) + (h.lo + LoWrap * h.hi)
    BY DEF Counts
  <1>3. a \in Nat /\ lo \in 0 .. LoWrap - 1 /\ h.lo + k = a * LoWrap + lo
    <2> DEFINE s == h.lo + k
    <2>1. s \in Nat BY <1>1
    <2> HIDE DEF s
    <2>2. s \div LoWrap \in Nat /\ (s % LoWrap) \in 0 .. LoWrap - 1
          /\ s = (s \div LoWrap) * LoWrap + (s % LoWrap)
      BY <1>1, <2>1, Divided
    <2> QED BY <2>2 DEF s
  <1>4. a = Carry(h.lo, k) + (k \div LoWrap) /\ Carry(h.lo, k) \in Nat /\ k \div LoWrap \in Nat
    BY <1>1, CarryIs, Divided DEF Carry
  <1>5. h.hi + Carry(h.lo, k) + k \div LoWrap = h.hi + a BY <1>1, <1>4
  <1> HIDE DEF a, lo
  <1>6. d \in Nat /\ hi \in 0 .. HiWrap - 1 /\ h.hi + a = d * HiWrap + hi
    <2> DEFINE s == h.hi + a
    <2>1. s \in Nat BY <1>1, <1>3
    <2> HIDE DEF s
    <2>2. s \div HiWrap \in Nat /\ (s % HiWrap) \in 0 .. HiWrap - 1
          /\ s = (s \div HiWrap) * HiWrap + (s % HiWrap)
      BY <1>1, <2>1, Divided
    <2> QED BY <2>2 DEF s
  <1>7. g = [h EXCEPT !.lo = lo, !.hi = hi] BY <1>5 DEF CountMD5, lo, Contexts
  <1> HIDE DEF d, hi, g
  <1>8. lo \in Nat /\ hi \in Nat BY <1>1, <1>3, <1>6
  <1>9. g \in Contexts /\ g.lo = lo /\ g.hi = hi /\ g.kind = "md5" BY <1>7, <1>8 DEF Contexts
  <1>10. n + k = (t + d) * (LoWrap * HiWrap) + (lo + LoWrap * hi)
    <2> DEFINE M == LoWrap * HiWrap
    <2>1. (t + d) * M = t * M + d * M /\ t * M \in Nat /\ d * M \in Nat BY <1>1, <1>6, Distributes
    <2>2. LoWrap * (h.hi + a) = LoWrap * h.hi + a * LoWrap BY <1>1, <1>3
    <2>3. LoWrap * (h.hi + a) = d * M + LoWrap * hi
      <3>1. LoWrap * (d * HiWrap + hi) = LoWrap * (d * HiWrap) + LoWrap * hi BY <1>1, <1>6, <1>8
      <3>2. LoWrap * (d * HiWrap) = d * M BY <1>1, <1>6
      <3> QED BY <1>6, <3>1, <3>2
    <2>4. LoWrap * h.hi \in Nat /\ a * LoWrap \in Nat /\ LoWrap * hi \in Nat BY <1>1, <1>3, <1>8
    <2> DEFINE x == LoWrap * h.hi
               y == a * LoWrap
               z == LoWrap * hi
               u == t * M
               v == d * M
    <2>5. x \in Nat /\ y \in Nat /\ z \in Nat /\ u \in Nat /\ v \in Nat BY <2>1, <2>4
    <2>6. n = u + (h.lo + x) /\ h.lo + k = y + lo /\ x + y = v + z BY <1>2, <1>3, <2>2, <2>3
    <2> HIDE DEF x, y, z, u, v
    <2>7. n + k = (u + v) + (lo + z) BY <1>1, <1>3, <2>5, <2>6
    <2> QED BY <2>1, <2>7 DEF u, v, z
  <1>11. t + d \in Nat BY <1>6
  <1>12. Counts(g, n + k) BY <1>3, <1>6, <1>9, <1>10, <1>11 DEF Counts
  <1> QED BY <1>9, <1>12 DEF g

(* The count of SHA256 counts a read. *)
LEMMA CountSHAIs ==
  ASSUME HashSizes, NEW h \in Contexts, NEW n \in Nat, Counts(h, n), h.kind # "md5", NEW k \in Nat
  PROVE  CountSHA(h, k) \in Contexts /\ Counts(CountSHA(h, k), n + k)
  <1> DEFINE g == CountSHA(h, k)
             M == LoWrap * HiWrap
  <1>1. PICK c \in 0 .. LoWrap * HiWrap - 1, t \in Nat :
          h.count = 8 * c /\ n = t * (LoWrap * HiWrap) + c
    BY DEF Counts
  <1>2. M \in Nat \ {0} /\ 8 * LoWrap * HiWrap = 8 * M BY DEF HashSizes
  <1>3. c \in 0 .. M - 1 /\ n = t * M + c BY <1>1
  <1> DEFINE q == (c + k) \div M
             r == (c + k) % M
  <1> HIDE DEF M
  <1>4. q \in Nat /\ r \in 0 .. M - 1 /\ c + k = q * M + r
    <2> DEFINE s == c + k
    <2>1. s \in Nat BY <1>2, <1>3
    <2> HIDE DEF s
    <2>2. s \div M \in Nat /\ (s % M) \in 0 .. M - 1 /\ s = (s \div M) * M + (s % M)
      BY <1>2, <2>1, Divided
    <2> QED BY <2>2 DEF s
  <1> HIDE DEF q, r
  <1>5. (8 * c + 8 * k) % (8 * M) = 8 * r
    <2>1. 8 * (q * M + r) = q * (8 * M) + 8 * r BY <1>2, <1>4
    <2>2. 8 * c + 8 * k = 8 * (c + k) BY <1>2, <1>3
    <2>3. 8 * r \in 0 .. 8 * M - 1 /\ 8 * M \in Nat \ {0} BY <1>2, <1>4
    <2>4. (q * (8 * M) + 8 * r) % (8 * M) = 8 * r BY <1>4, <2>3, Division
    <2> QED BY <1>4, <2>1, <2>2, <2>4
  <1>6. g = [h EXCEPT !.count = 8 * r] BY <1>1, <1>2, <1>5 DEF CountSHA, Contexts
  <1> HIDE DEF g
  <1>7. r \in Nat /\ 8 * r \in Nat BY <1>2, <1>4
  <1>8. g \in Contexts /\ g.count = 8 * r /\ g.kind = h.kind BY <1>6, <1>7 DEF Contexts
  <1>9. n + k = (t + q) * M + r /\ t + q \in Nat
    <2>1. (t + q) * M = t * M + q * M /\ t * M \in Nat /\ q * M \in Nat BY <1>2, <1>4, Distributes
    <2> QED BY <1>2, <1>3, <1>4, <2>1
  <1>10. Counts(g, n + k) BY <1>4, <1>8, <1>9 DEF Counts, M
  <1> QED BY <1>8, <1>10 DEF g

(* What was mixed and what waits is the message. *)
LEMMA MixedIs ==
  ASSUME HashSizes, NEW h, NEW m, NEW used, Has(h, m, used)
  PROVE  /\ Mixed(h) \o SubSeq(h.buffer, 1, used) = m
         /\ used = 0 => Mixed(h) = m
  <1> DEFINE n == Len(h.mixed)
             N == n * Block
             x == Mixed(h)
             y == SubSeq(h.buffer, 1, used)
  <1>1. /\ Block \in Nat \ {0} /\ n \in Nat /\ N \in Nat /\ m \in Seq(Bytes) /\ used \in 0 .. Block - 1
        /\ h.buffer \in Blocks /\ Len(m) = N + used /\ Len(m) \in Nat
    BY DEF HashSizes, Has, Contexts
  <1>2. \A i \in 1 .. N : h.mixed[(i - 1) \div Block + 1][((i - 1) % Block) + 1] = m[i]
    <2> SUFFICES ASSUME NEW i \in 1 .. N
                 PROVE  h.mixed[(i - 1) \div Block + 1][((i - 1) % Block) + 1] = m[i]
      OBVIOUS
    <2> DEFINE q == (i - 1) \div Block
               r == (i - 1) % Block
    <2>1. i - 1 \in Nat BY <1>1
    <2>2. q \in Nat /\ r \in 0 .. Block - 1 /\ i - 1 = q * Block + r BY <1>1, <2>1, Divided
    <2>3. i - 1 < n * Block BY <1>1
    <2> HIDE DEF q, r
    <2>4. q < n
      <3> SUFFICES ASSUME q >= n PROVE FALSE BY <1>1, <2>2
      <3>1. q * Block = n * Block + (q - n) * Block /\ (q - n) * Block \in Nat BY <1>1, <2>2
      <3> QED BY <1>1, <2>2, <2>3, <3>1
    <2>5. q + 1 \in 1 .. n /\ r + 1 \in 1 .. Block BY <1>1, <2>2, <2>4
    <2>6. h.mixed[q + 1][r + 1] = m[((q + 1) - 1) * Block + (r + 1)] BY <2>5 DEF Has
    <2>7. ((q + 1) - 1) * Block + (r + 1) = i
      <3>1. (q + 1) - 1 = q /\ q * Block \in Nat BY <1>1, <2>2
      <3> QED BY <1>1, <2>2, <3>1
    <2> QED BY <2>6, <2>7 DEF q, r
  <1>3. \A i \in 1 .. Len(m) : m[i] \in Bytes BY <1>1
  <1>4. x = [i \in 1 .. N |-> m[i]] BY <1>2 DEF Mixed
  <1> HIDE DEF N
  <1>5. x \in Seq(Bytes) /\ Len(x) = N /\ \A i \in 1 .. N : x[i] = m[i]
    <2>1. x \in [1 .. N -> Bytes] BY <1>1, <1>3, <1>4
    <2> QED BY <1>1, <1>4, <2>1
  <1>6. y \in Seq(Bytes) /\ Len(y) = used /\ \A j \in 1 .. used : y[j] = h.buffer[j]
    <2>1. \A j \in 1 .. used : h.buffer[j] \in Bytes BY <1>1 DEF Blocks
    <2> QED BY <1>1, <2>1, SubSeqProperties
  <1>7. \A j \in 1 .. used : h.buffer[j] = m[N + j] BY DEF Has, N
  <1> HIDE DEF x, y
  <1> DEFINE w == x \o y
  <1>8. w \in Seq(Bytes) /\ Len(w) = N + used
        /\ \A i \in 1 .. N + used : w[i] = IF i <= N THEN x[i] ELSE y[i - N]
    BY <1>5, <1>6, ConcatProperties
  <1> HIDE DEF w
  <1>9. \A i \in 1 .. N + used : w[i] = m[i]
    <2> SUFFICES ASSUME NEW i \in 1 .. N + used PROVE w[i] = m[i] OBVIOUS
    <2>1. CASE i <= N
      <3>1. i \in 1 .. N BY <1>1, <2>1
      <3> QED BY <1>5, <1>8, <2>1, <3>1
    <2>2. CASE ~ (i <= N)
      <3>1. i - N \in 1 .. used /\ N + (i - N) = i BY <1>1, <2>2
      <3>2. w[i] = y[i - N] BY <1>8, <2>2
      <3> QED BY <1>6, <1>7, <3>1, <3>2
    <2> QED BY <2>1, <2>2
  <1>10. w = m BY <1>1, <1>8, <1>9, SeqEqual
  <1>11. ASSUME used = 0 PROVE x = m
    <2>1. Len(m) = N BY <1>1, <1>11
    <2> QED BY <1>1, <1>5, <2>1, SeqEqual
  <1> QED BY <1>10, <1>11 DEF w, x, y


(* What a digest is at every moment: what was read has been taken in, the  *)
(* length is counted, and an end leaves the digest of the message.         *)
HashInv ==
  /\ hash \in Contexts
  /\ ~ hash.ended => /\ Has(hash, Data(0, hash.fed), hash.fed % Block)
                     /\ Counts(hash, hash.fed)
  /\ EndOfMessage

(* What a context has taken in is in its blocks and its buffer. *)
LEMMA HasRest ==
  ASSUME NEW h, NEW m, NEW used, Has(h, m, used), NEW g \in Contexts,
         g.mixed = h.mixed, g.buffer = h.buffer
  PROVE  Has(g, m, used)
  BY DEF Has

(* What Rest compares. *)
LEMMA RestIs ==
  ASSUME NEW h, NEW g, Rest(g) = Rest(h)
  PROVE  /\ g.kind = h.kind /\ g.lo = h.lo /\ g.hi = h.hi /\ g.count = h.count
         /\ g.fed = h.fed /\ g.ended = h.ended
  <1>1. /\ Rest(g).kind = g.kind /\ Rest(g).lo = g.lo /\ Rest(g).hi = g.hi
        /\ Rest(g).count = g.count /\ Rest(g).fed = g.fed /\ Rest(g).ended = g.ended
    BY DEF Rest
  <1>2. /\ Rest(h).kind = h.kind /\ Rest(h).lo = h.lo /\ Rest(h).hi = h.hi
        /\ Rest(h).count = h.count /\ Rest(h).fed = h.fed /\ Rest(h).ended = h.ended
    BY DEF Rest
  <1> QED BY <1>1, <1>2

(* A read adds its bytes. *)
LEMMA UpdateHas ==
  ASSUME HashSizes, NEW h, NEW m, Has(h, m, Len(m) % Block), Counts(h, Len(m)), NEW bytes \in Seq(Bytes)
  PROVE  LET g == Update(h, bytes) IN
         /\ Has(g, m \o bytes, Len(m \o bytes) % Block)
         /\ Counts(g, Len(m) + Len(bytes))
         /\ g.fed = h.fed /\ g.ended = h.ended /\ g.kind = h.kind
  <1>1. h \in Contexts /\ m \in Seq(Bytes) /\ Len(m) \in Nat /\ Len(bytes) \in Nat BY DEF Has
  <1> DEFINE k == Len(bytes)
             n == Len(m)
  <1>2. CASE h.kind = "md5"
    <2> DEFINE c == CountMD5(h, k)
               g == HashMD5(c, h.lo % Block, bytes)
    <2>1. c \in Contexts /\ Counts(c, n + k) BY <1>1, <1>2, CountMD5Is
    <2>2. c.mixed = h.mixed /\ c.buffer = h.buffer /\ c.fed = h.fed /\ c.ended = h.ended /\ c.kind = h.kind
      BY <1>1 DEF CountMD5, Contexts
    <2> HIDE DEF c
    <2>3. h.lo % Block = n % Block BY <1>1, <1>2, FillMD5
    <2>4. Has(c, m, h.lo % Block) BY <2>1, <2>2, <2>3, HasRest
    <2>5. Takes(c, g, m \o bytes) BY <2>4, HashMD5Has
    <2> HIDE DEF g
    <2>6. /\ g.kind = c.kind /\ g.lo = c.lo /\ g.hi = c.hi /\ g.count = c.count
          /\ g.fed = c.fed /\ g.ended = c.ended
      BY <2>5, RestIs DEF Takes
    <2>7. Counts(g, n + k) BY <2>1, <2>6 DEF Counts
    <2>8. Update(h, bytes) = g BY <1>2 DEF Update, UpdateMD5, g, c
    <2> QED BY <2>2, <2>5, <2>6, <2>7, <2>8 DEF Takes
  <1>3. CASE h.kind # "md5"
    <2> DEFINE c == CountSHA(h, k)
               g == UpdateAt(c, Used(h), bytes)
    <2>1. c \in Contexts /\ Counts(c, n + k) BY <1>1, <1>3, CountSHAIs
    <2>2. c.mixed = h.mixed /\ c.buffer = h.buffer /\ c.fed = h.fed /\ c.ended = h.ended /\ c.kind = h.kind
      BY <1>1 DEF CountSHA, Contexts
    <2> HIDE DEF c
    <2>3. Used(h) = n % Block BY <1>1, <1>3, FillSHA
    <2>4. Has(c, m, Used(h)) BY <2>1, <2>2, <2>3, HasRest
    <2>5. Takes(c, g, m \o bytes) BY <2>4, UpdateAtHas
    <2> HIDE DEF g
    <2>6. /\ g.kind = c.kind /\ g.lo = c.lo /\ g.hi = c.hi /\ g.count = c.count
          /\ g.fed = c.fed /\ g.ended = c.ended
      BY <2>5, RestIs DEF Takes
    <2>7. Counts(g, n + k) BY <2>1, <2>6 DEF Counts
    <2>8. Update(h, bytes) = g BY <1>3 DEF Update, UpdateSHA, g, c
    <2> QED BY <2>2, <2>5, <2>6, <2>7, <2>8 DEF Takes
  <1> QED BY <1>2, <1>3

(* The end adds padding and length. *)
LEMMA EndHas ==
  ASSUME HashSizes, NEW h, NEW m, Has(h, m, Len(m) % Block), Counts(h, Len(m))
  PROVE  LET g == IF h.kind = "md5" THEN EndMD5(h) ELSE EndSHA(h) IN
         Has(g, Whole(m, Len(m) % (LoWrap * HiWrap)), 0)
  <1> DEFINE v == Len(m) % (LoWrap * HiWrap)
             w == Whole(m, v)
  <1>1. h \in Contexts /\ Len(m) \in Nat BY DEF Has
  <1>2. v \in Nat
    <2> DEFINE M == LoWrap * HiWrap
    <2>1. M \in Nat \ {0} BY DEF HashSizes
    <2> HIDE DEF M
    <2>2. Len(m) % M \in Nat BY <1>1, <2>1, Divided
    <2> QED BY <2>2 DEF M
  <1> HIDE DEF w
  <1>3. CASE h.kind = "md5"
    <2>1. h.lo % Block = Len(m) % Block BY <1>1, <1>3, FillMD5
    <2>2. h.lo + LoWrap * h.hi = v BY <1>1, <1>3, LengthMD5
    <2> HIDE DEF v
    <2>3. Has(EndMD5(h), w, 0) BY <1>2, <2>1, <2>2, EndMD5Has DEF w
    <2> QED BY <1>3, <2>3 DEF w, v
  <1>4. CASE h.kind # "md5"
    <2>1. Used(h) = Len(m) % Block BY <1>1, <1>4, FillSHA
    <2>2. h.count \div 8 = v BY <1>1, <1>4, LengthSHA
    <2> HIDE DEF v
    <2>3. Has(EndSHA(h), w, 0) BY <1>2, <2>1, <2>2, EndSHAHas DEF w
    <2> QED BY <1>4, <2>3 DEF w, v
  <1> QED BY <1>3, <1>4


(* Nothing but the digest changes at the end. *)
LEMMA EndKeepsFed ==
  ASSUME HashSizes, NEW h, NEW m, Has(h, m, Len(m) % Block), Counts(h, Len(m))
  PROVE  (IF h.kind = "md5" THEN EndMD5(h) ELSE EndSHA(h)).fed = h.fed
  <1>1. h \in Contexts BY DEF Has
  <1> QED BY <1>1 DEF EndMD5, EndSHA, PadMD5, AddLength, FinishSHA, MixBuffer, Mix, Buffered, Contexts

(* A new context has taken in the empty message. *)
LEMMA InitHash ==
  ASSUME HashSizes, HashInit
  PROVE  HashInv
  <1>1. Block \in Nat \ {0} /\ LoWrap \in Nat \ {0} /\ HiWrap \in Nat \ {0} BY DEF HashSizes
  <1>2. [i \in 1 .. Block |-> <<"stack">>] \in Blocks BY DEF Blocks, Bytes
  <1>3. <<>> \in Seq(Blocks) /\ Len(<<>>) = 0 BY EmptySeq
  <1>4. hash \in Contexts /\ hash.mixed = <<>> /\ hash.fed = 0 /\ hash.lo = 0 /\ hash.hi = 0
        /\ hash.count = 0 /\ hash.ended = FALSE
    BY <1>2, <1>3 DEF HashInit, Contexts
  <1>5. 0 % Block = 0 BY <1>1
  <1>6. Data(0, 0) \in Seq(Bytes) /\ Len(Data(0, 0)) = 0 BY PartsAreBytes
  <1>7. Has(hash, Data(0, 0), 0)
    <2>1. 1 .. 0 = {} OBVIOUS
    <2>2. 0 \in 0 .. Block - 1 /\ 0 = 0 * Block + 0 BY <1>1
    <2>3. Len(hash.mixed) = 0 BY <1>3, <1>4
    <2> QED BY <1>4, <1>6, <2>1, <2>2, <2>3 DEF Has
  <1>8. Counts(hash, 0)
    <2> DEFINE M == LoWrap * HiWrap
    <2>1. 0 * M + (0 + LoWrap * 0) = 0 /\ 0 * M + 0 = 0 /\ M \in Nat \ {0} BY <1>1
    <2>2. 0 \in 0 .. LoWrap - 1 /\ 0 \in 0 .. HiWrap - 1 /\ 0 \in 0 .. M - 1 /\ 8 * 0 = 0 BY <1>1, <2>1
    <2> QED BY <1>4, <2>1, <2>2 DEF Counts
  <1> QED BY <1>4, <1>5, <1>7, <1>8 DEF HashInv, EndOfMessage

(* A read and the end keep the invariant. *)
LEMMA NextHash ==
  ASSUME HashSizes, HashInv, [HashNext]_hash
  PROVE  HashInv'
  <1>1. CASE UNCHANGED hash
    BY <1>1 DEF HashInv, EndOfMessage, Mixed, Contexts
  <1>2. ASSUME NEW n \in Chunks, ~ hash.ended,
               hash' = [Update(hash, Data(hash.fed, n)) EXCEPT !.fed = @ + n]
        PROVE  HashInv'
    <2> DEFINE m == Data(0, hash.fed)
               bytes == Data(hash.fed, n)
               g == Update(hash, bytes)
               f == hash.fed + n
    <2>1. n \in Nat /\ hash \in Contexts /\ hash.fed \in Nat BY DEF HashSizes, HashInv, Contexts
    <2>2. /\ m \in Seq(Bytes) /\ Len(m) = hash.fed /\ bytes \in Seq(Bytes) /\ Len(bytes) = n
          /\ m \o bytes = Data(0, f) /\ Len(Data(0, f)) = f /\ f \in Nat
      <3>1. f \in Nat /\ 0 \in Nat BY <2>1
      <3>2. Len(m) = hash.fed /\ m \in Seq(Bytes) BY ONLY <2>1, <3>1, HashSizes, PartsAreBytes
      <3>3. Len(bytes) = n /\ bytes \in Seq(Bytes) BY ONLY <2>1, HashSizes, PartsAreBytes
      <3> HIDE DEF f
      <3>4. Len(Data(0, f)) = f BY ONLY <3>1, HashSizes, PartsAreBytes
      <3>5. m \o bytes = Data(0, f) BY <2>1, MoreData DEF f
      <3> QED BY <3>1, <3>2, <3>3, <3>4, <3>5
    <2>3. Has(hash, m, Len(m) % Block) /\ Counts(hash, Len(m)) BY <1>2, <2>2 DEF HashInv
    <2> HIDE DEF m, bytes
    <2>4. /\ Has(g, m \o bytes, Len(m \o bytes) % Block) /\ Counts(g, Len(m) + Len(bytes))
          /\ g.fed = hash.fed /\ g.ended = hash.ended /\ g.kind = hash.kind
      BY <2>2, <2>3, UpdateHas
    <2>5. Has(g, Data(0, f), f % Block) /\ Counts(g, f) BY <2>2, <2>4
    <2>6. g \in Contexts BY <2>5 DEF Has
    <2>7. hash' = [g EXCEPT !.fed = @ + n] BY <1>2 DEF bytes
    <2> HIDE DEF g
    <2>8. /\ hash' \in Contexts /\ hash'.fed = f /\ hash'.mixed = g.mixed /\ hash'.buffer = g.buffer
          /\ hash'.lo = g.lo /\ hash'.hi = g.hi /\ hash'.count = g.count /\ hash'.kind = g.kind
          /\ ~ hash'.ended
      <3>1. g.fed + n \in Nat /\ g.fed + n = f BY <2>1, <2>4
      <3>2. ~ g.ended BY <1>2, <2>4
      <3> HIDE DEF f
      <3> QED BY <2>6, <2>7, <3>1, <3>2 DEF Contexts
    <2> HIDE DEF f
    <2>9. Has(hash', Data(0, f), f % Block) BY <2>5, <2>8, HasRest
    <2>10. Counts(hash', f) BY <2>5, <2>8 DEF Counts
    <2> QED BY <2>8, <2>9, <2>10 DEF HashInv, EndOfMessage, Contexts
  <1>3. ASSUME ~ hash.ended,
               hash' = [(IF hash.kind = "md5" THEN EndMD5(hash) ELSE EndSHA(hash)) EXCEPT !.ended = TRUE]
        PROVE  HashInv'
    <2> DEFINE m == Data(0, hash.fed)
               g == IF hash.kind = "md5" THEN EndMD5(hash) ELSE EndSHA(hash)
               w == Whole(m, Len(m) % (LoWrap * HiWrap))
    <2>1. hash \in Contexts /\ hash.fed \in Nat BY DEF HashInv, Contexts
    <2>2. Len(m) = hash.fed BY <2>1, PartsAreBytes
    <2>3. Has(hash, m, Len(m) % Block) /\ Counts(hash, Len(m)) BY <1>3, <2>2 DEF HashInv
    <2> HIDE DEF m
    <2>4. Has(g, w, 0) BY <2>3, EndHas
    <2>5. Mixed(g) = w BY <2>4, MixedIs
    <2>6. g \in Contexts BY <2>4 DEF Has
    <2> HIDE DEF g, w
    <2>7. hash' = [g EXCEPT !.ended = TRUE] BY <1>3 DEF g
    <2>8. hash' \in Contexts /\ hash'.ended /\ hash'.mixed = g.mixed /\ hash'.fed = g.fed
      BY <2>6, <2>7 DEF Contexts
    <2>9. Mixed(hash') = w BY <2>5, <2>8 DEF Mixed
    <2>10. g.fed = hash.fed BY <2>3, EndKeepsFed DEF g
    <2> QED BY <2>2, <2>8, <2>9, <2>10 DEF HashInv, EndOfMessage, w, m, Whole
  <1> QED BY <1>1, <1>2, <1>3 DEF HashNext, ReadChunk, EndOfFile

(* What was read is in the blocks mixed and in the buffer. *)
LEMMA LosesNothing ==
  ASSUME HashSizes, HashInv
  PROVE  NothingLost
  <1> SUFFICES ASSUME ~ hash.ended
               PROVE  Mixed(hash) \o Waiting(hash) = Data(0, hash.fed)
    BY DEF NothingLost
  <1>1. Has(hash, Data(0, hash.fed), hash.fed % Block) BY DEF HashInv
  <1> QED BY <1>1, MixedIs DEF Waiting

(* However a file is read, and however long it is, no byte of it is lost,  *)
(* mixed twice or mixed out of its place; and the digest is that of the    *)
(* message, its padding and its length, also when the length has wrapped:  *)
(* nothing that stood in the context before gets into it.                  *)
THEOREM DigestsAreRight == HashSizes => (HashSpec => []DigestOfMessage)
  <1> SUFFICES ASSUME HashSizes PROVE HashSpec => []DigestOfMessage OBVIOUS
  <1>1. HashInit => HashInv BY InitHash
  <1>2. HashInv /\ [HashNext]_hash => HashInv' BY NextHash
  <1>3. HashInv => DigestOfMessage BY LosesNothing DEF HashInv, DigestOfMessage
  <1> QED BY <1>1, <1>2, <1>3, PTL DEF HashSpec

(***************************************************************************)
(* LzmaDecode.c.  The output is what the packets say, cut at the size of   *)
(* the header.                                                             *)
(***************************************************************************)
(* f doubles 1 n times. *)
Doubles(f, n) == f = [k \in 0 .. n |-> IF k = 0 THEN 1 ELSE 2 * f[k - 1]]

(* There is such a function, of numbers from 1 on. *)
LEMMA DoublesExist ==
  \A n \in Nat : \E f : Doubles(f, n) /\ \A k \in 0 .. n : f[k] \in Nat \ {0}
  <1> DEFINE P(f, n) == Doubles(f, n) /\ \A k \in 0 .. n : f[k] \in Nat \ {0}
             S == {n \in Nat : \E f : P(f, n)}
  <1>1. 0 \in S
    <2> DEFINE f == [k \in 0 .. 0 |-> 1]
    <2>1. P(f, 0) BY DEF Doubles
    <2> QED BY <2>1
  <1>2. ASSUME NEW n \in S PROVE n + 1 \in S
    <2>1. PICK f : P(f, n) OBVIOUS
    <2> DEFINE g == [k \in 0 .. n + 1 |-> IF k = 0 THEN 1 ELSE 2 * f[k - 1]]
    <2>2. n \in Nat OBVIOUS
    <2>3. \A k \in 0 .. n : g[k] = f[k] BY <2>1, <2>2 DEF Doubles
    <2>4. \A k \in 0 .. n + 1 : k # 0 => k - 1 \in 0 .. n BY <2>2
    <2>5. \A k \in 0 .. n + 1 : k # 0 => g[k - 1] = f[k - 1] BY <2>3, <2>4
    <2>6. Doubles(g, n + 1) BY <2>5 DEF Doubles
    <2>7. \A k \in 0 .. n + 1 : g[k] \in Nat \ {0}
      <3> SUFFICES ASSUME NEW k \in 0 .. n + 1 PROVE g[k] \in Nat \ {0} OBVIOUS
      <3>1. CASE k = 0 BY <3>1
      <3>2. CASE k # 0
        <4>1. f[k - 1] \in Nat \ {0} BY <2>1, <2>4, <3>2
        <4>2. g[k] = 2 * f[k - 1] BY <3>2
        <4> QED BY <4>1, <4>2
      <3> QED BY <3>1, <3>2
    <2> HIDE DEF g
    <2> QED BY <2>2, <2>6, <2>7
  <1>3. S = Nat
    <2>1. S \in SUBSET Nat OBVIOUS
    <2> HIDE DEF S
    <2> QED BY <1>1, <1>2, <2>1, NatByStep
  <1> QED BY <1>3

(* Two such functions agree as far as both go. *)
LEMMA DoublesAgree ==
  ASSUME NEW n \in Nat, NEW m \in Nat, NEW f, NEW g, Doubles(f, n), Doubles(g, m), n <= m
  PROVE  f[n] = g[n]
  <1> DEFINE S == {k \in Nat : k <= n => f[k] = g[k]}
  <1>1. 0 \in S BY DEF Doubles
  <1>2. ASSUME NEW k \in S PROVE k + 1 \in S
    <2> SUFFICES ASSUME k + 1 <= n PROVE f[k + 1] = g[k + 1] OBVIOUS
    <2>1. f[k] = g[k] OBVIOUS
    <2>2. k + 1 \in 0 .. n /\ k + 1 \in 0 .. m /\ k + 1 # 0 /\ (k + 1) - 1 = k OBVIOUS
    <2>3. f[k + 1] = 2 * f[k] BY <2>2 DEF Doubles
    <2>4. g[k + 1] = 2 * g[k] BY <2>2 DEF Doubles
    <2> QED BY <2>1, <2>3, <2>4
  <1>3. S = Nat
    <2>1. S \in SUBSET Nat OBVIOUS
    <2> HIDE DEF S
    <2> QED BY <1>1, <1>2, <2>1, NatByStep
  <1> QED BY <1>3

(* A shift is what such a function says. *)
LEMMA BitIs ==
  ASSUME NEW n \in Nat
  PROVE  \E f : Doubles(f, n) /\ Bit(n) = f[n]
  <1>1. \E f : Doubles(f, n) BY DoublesExist
  <1> QED BY <1>1, Zenon DEF Bit, Doubles

(* A shift is a doubling, and a power of 2 not 0. *)
LEMMA Shifts ==
  /\ Bit(0) = 1
  /\ \A n \in Nat : Bit(n) \in Nat \ {0} /\ Bit(n + 1) = 2 * Bit(n)
  <1>1. Bit(0) = 1
    <2>1. PICK f : Doubles(f, 0) /\ Bit(0) = f[0] BY BitIs
    <2> QED BY <2>1 DEF Doubles
  <1>2. ASSUME NEW n \in Nat PROVE Bit(n) \in Nat \ {0}
    <2>1. PICK f : Doubles(f, n) /\ Bit(n) = f[n] BY BitIs
    <2>2. PICK g : Doubles(g, n) /\ \A k \in 0 .. n : g[k] \in Nat \ {0} BY DoublesExist
    <2>3. f[n] = g[n] BY <2>1, <2>2, DoublesAgree
    <2> QED BY <2>1, <2>2, <2>3
  <1>3. ASSUME NEW n \in Nat PROVE Bit(n + 1) = 2 * Bit(n)
    <2>1. PICK f : Doubles(f, n) /\ Bit(n) = f[n] BY BitIs
    <2>2. n + 1 \in Nat OBVIOUS
    <2>3. PICK g : Doubles(g, n + 1) /\ Bit(n + 1) = g[n + 1] BY <2>2, BitIs
    <2>4. f[n] = g[n] BY <2>1, <2>2, <2>3, DoublesAgree
    <2>5. g[n + 1] = 2 * g[n]
      <3>1. n + 1 \in 0 .. n + 1 /\ n + 1 # 0 /\ (n + 1) - 1 = n OBVIOUS
      <3> QED BY <2>3, <3>1 DEF Doubles
    <2> QED BY <2>1, <2>3, <2>4, <2>5
  <1> QED BY <1>1, <1>2, <1>3

(* Shifts add up. *)
LEMMA ShiftsAdd ==
  ASSUME NEW m \in Nat
  PROVE  \A n \in Nat : Bit(m + n) = Bit(m) * Bit(n)
  <1> DEFINE S == {n \in Nat : Bit(m + n) = Bit(m) * Bit(n)}
  <1>1. 0 \in S
    <2>1. Bit(m) \in Nat /\ m + 0 = m BY Shifts
    <2> QED BY <2>1, Shifts
  <1>2. ASSUME NEW n \in S PROVE n + 1 \in S
    <2>1. m + n \in Nat /\ n \in Nat /\ m + (n + 1) = (m + n) + 1 OBVIOUS
    <2>2. Bit(m + (n + 1)) = 2 * Bit(m + n) BY <2>1, Shifts
    <2>3. Bit(m + n) = Bit(m) * Bit(n) OBVIOUS
    <2>4. Bit(n + 1) = 2 * Bit(n) BY <2>1, Shifts
    <2>5. Bit(m) \in Nat /\ Bit(n) \in Nat BY <2>1, Shifts
    <2>6. 2 * (Bit(m) * Bit(n)) = Bit(m) * (2 * Bit(n))
      <3> DEFINE a == Bit(m)
                 b == Bit(n)
      <3>1. a \in Nat /\ b \in Nat BY <2>5
      <3> HIDE DEF a, b
      <3>2. 2 * (a * b) = a * (2 * b) BY <3>1
      <3> QED BY <3>2 DEF a, b
    <2>7. Bit(m + (n + 1)) = Bit(m) * Bit(n + 1) BY <2>2, <2>3, <2>4, <2>6
    <2> QED BY <2>1, <2>7
  <1>3. S = Nat
    <2>1. S \in SUBSET Nat OBVIOUS
    <2> HIDE DEF S
    <2> QED BY <1>1, <1>2, <2>1, NatByStep
  <1> QED BY <1>3

(* The lengths of the trees are numbers. *)
LEMMA LengthsAreNumbers ==
  ASSUME LzmaWidths
  PROVE  Lengths \subseteq Nat
  <1>1. Bit(LowBits) \in Nat /\ Bit(MidBits) \in Nat /\ Bit(HighBits) \in Nat
    BY Shifts DEF LzmaWidths
  <1>2. \A t \in 1 .. 3 : LenOffset[t] \in Nat /\ Bit(LenBits[t]) \in Nat
    BY <1>1 DEF LenOffset, LenBits
  <1> QED BY <1>2 DEF Lengths

(* A larger shift gives more. *)
LEMMA ShiftsGrow ==
  ASSUME NEW m \in Nat, NEW n \in Nat, m <= n
  PROVE  Bit(m) <= Bit(n)
  <1> DEFINE k == n - m
  <1>1. k \in Nat /\ n = m + k OBVIOUS
  <1> HIDE DEF k
  <1>2. Bit(n) = Bit(m) * Bit(k) BY <1>1, ShiftsAdd
  <1>3. Bit(m) \in Nat \ {0} /\ Bit(k) \in Nat \ {0} BY <1>1, Shifts
  <1> DEFINE a == Bit(m)
             b == Bit(k)
  <1> HIDE DEF a, b
  <1>4. a \in Nat \ {0} /\ b \in Nat \ {0} BY <1>3 DEF a, b
  <1>5. a <= a * b
    <2>1. b - 1 \in Nat /\ a * b = a + a * (b - 1) BY <1>4
    <2>2. a * (b - 1) \in Nat BY <1>4, <2>1
    <2> QED BY <1>4, <2>1, <2>2
  <1> QED BY <1>2, <1>5 DEF a, b

(* What the bits behind the first two give. *)
LEMMA BitsBehind ==
  ASSUME LzmaWidths, NEW slot \in Slots, slot >= 4, NEW bits \in Nat, bits < Bit(DirectBits(slot))
  PROVE  SlotBase(slot) + bits \in 0 .. Bit(DistanceBits) - 1
  <1> DEFINE b == DirectBits(slot)
             r == slot % 2
             B == Bit(b)
  <1>1. slot \in Nat /\ DistanceBits \in Nat /\ slot <= 2 * DistanceBits - 1
    BY DEF Slots, LzmaWidths
  <1>2. b \in Nat /\ b + 2 <= DistanceBits /\ r \in 0 .. 1 BY <1>1 DEF DirectBits
  <1>3. B \in Nat BY <1>2, Shifts
  <1>4. SlotBase(slot) = (2 + r) * B BY DEF SlotBase
  <1>5. Bit(b + 2) = 4 * B
    <2>1. b + 1 \in Nat /\ (b + 1) + 1 = b + 2 BY <1>2
    <2>2. Bit(b + 1) = 2 * B BY <1>2, Shifts
    <2>3. Bit((b + 1) + 1) = 2 * Bit(b + 1) BY <2>1, Shifts
    <2> QED BY <1>3, <2>1, <2>2, <2>3
  <1>6. Bit(b + 2) <= Bit(DistanceBits) /\ Bit(DistanceBits) \in Nat
    <2>1. b + 2 \in Nat BY <1>2
    <2> HIDE DEF b
    <2> QED BY <1>1, <1>2, <2>1, ShiftsGrow, Shifts
  <1>7. bits < B OBVIOUS
  <1> HIDE DEF b, r, B
  <1>8. (2 + r) * B = 2 * B + r * B /\ r * B \in 0 .. B
    <2>1. CASE r = 0 BY <1>3, <2>1
    <2>2. CASE r = 1 BY <1>3, <2>2
    <2> QED BY <1>2, <2>1, <2>2
  <1> QED BY <1>3, <1>4, <1>5, <1>6, <1>7, <1>8

(* No distance wraps but the last there is, the mark of the end. *)
LEMMA DistancesFit ==
  ASSUME LzmaWidths, NEW slot \in Slots, NEW d \in DistancesOf(slot)
  PROVE  d \in 0 .. Bit(DistanceBits) - 1
  <1>1. slot \in Nat /\ DistanceBits \in Nat /\ slot <= 2 * DistanceBits - 1 /\ EndPosModelIndex \in Nat
        /\ EndPosModelIndex >= 4 /\ AlignBits \in Nat /\ EndPosModelIndex \div 2 - 1 >= AlignBits
    BY DEF Slots, LzmaWidths
  <1>2. CASE slot < 4
    <2>1. d = slot BY <1>1, <1>2 DEF DistancesOf
    <2>2. Bit(1) = 2 /\ Bit(2) = 4
      <3>1. 0 + 1 = 1 /\ 1 + 1 = 2 OBVIOUS
      <3> QED BY <3>1, Shifts
    <2>3. DistanceBits >= 1 /\ (slot >= 2 => DistanceBits >= 2) BY <1>1
    <2>4. Bit(1) <= Bit(DistanceBits) BY <1>1, <2>3, ShiftsGrow
    <2>5. slot >= 2 => Bit(2) <= Bit(DistanceBits) BY <1>1, <2>3, ShiftsGrow
    <2>6. Bit(DistanceBits) \in Nat BY <1>1, Shifts
    <2> QED BY <1>1, <1>2, <2>1, <2>2, <2>4, <2>5, <2>6
  <1> DEFINE b == DirectBits(slot)
  <1>3. CASE slot \in 4 .. EndPosModelIndex - 1
    <2>1. d \in Modelled(slot) BY <1>1, <1>3 DEF DistancesOf
    <2>2. b \in Nat BY <1>1, <1>3 DEF DirectBits
    <2>3. Bit(b) \in Nat BY <2>2, Shifts
    <2>4. PICK low \in 0 .. Bit(b) - 1 : d = SlotBase(slot) + low BY <2>1 DEF Modelled
    <2>5. low \in Nat /\ low < Bit(b) BY <2>3, <2>4
    <2> QED BY <1>3, <2>4, <2>5, BitsBehind
  <1>4. CASE slot >= EndPosModelIndex
    <2>1. d \in Aligned(slot) BY <1>1, <1>4 DEF DistancesOf
    <2>2. b \in Nat /\ b - AlignBits \in Nat /\ slot >= 4 BY <1>1, <1>4 DEF DirectBits
    <2> DEFINE c == b - AlignBits
               A == Bit(AlignBits)
               C == Bit(c)
    <2>3. Bit(b) = A * C
      <3>1. b = AlignBits + c BY <1>1, <2>2
      <3>2. c \in Nat BY <2>2
      <3> HIDE DEF b, c
      <3>3. Bit(AlignBits + c) = Bit(AlignBits) * Bit(c) BY <1>1, <3>2, ShiftsAdd
      <3> QED BY <3>1, <3>3
    <2>4. A \in Nat /\ C \in Nat
      <3>1. c \in Nat BY <2>2
      <3> HIDE DEF c
      <3> QED BY <1>1, <3>1, Shifts
    <2>5. PICK high \in 0 .. C - 1, low \in 0 .. A - 1 : d = SlotBase(slot) + high * A + low
      BY <2>1 DEF Aligned
    <2> DEFINE bits == high * A + low
               base == SlotBase(slot)
    <2>6. bits \in Nat /\ bits < A * C
      <3> HIDE DEF A, C
      <3>1. high \in Nat /\ low \in Nat /\ low < A /\ high + 1 <= C BY <2>4, <2>5
      <3>2. (high + 1) * A = high * A + A /\ high * A \in Nat BY <2>4, <3>1
      <3>3. (C - (high + 1)) * A \in Nat /\ A * C = (C - (high + 1)) * A + (high + 1) * A BY <2>4, <3>1
      <3> QED BY <2>4, <3>1, <3>2, <3>3
    <2>7. base \in Int
      <3>1. Bit(b) \in Nat BY <2>2, Shifts
      <3>2. 2 + (slot % 2) \in Nat BY <1>1
      <3> DEFINE B == Bit(b)
                 t == 2 + (slot % 2)
      <3> HIDE DEF B, t
      <3>3. t * B \in Int BY <3>1, <3>2 DEF B, t
      <3> QED BY <3>3 DEF SlotBase, B, t
    <2>8. d = base + bits
      <3> DEFINE p == high * A
      <3>1. p \in Int /\ low \in Int BY <2>4, <2>5
      <3>2. d = (base + p) + low BY <2>5
      <3> HIDE DEF p, base
      <3>3. (base + p) + low = base + (p + low) BY <2>7, <3>1
      <3> QED BY <3>2, <3>3 DEF p
    <2> HIDE DEF bits
    <2>9. bits < Bit(b) BY <2>3, <2>6
    <2> QED BY <2>2, <2>6, <2>8, <2>9, BitsBehind
  <1> QED BY <1>1, <1>2, <1>3, <1>4

(* The remainder comes round. *)
LEMMA ComesRound ==
  ASSUME NEW d \in Nat \ {0}, NEW k \in Nat
  PROVE  (k % d) \in 0 .. d - 1 /\ (k < d => k % d = k) /\ (k >= d => (k - d) % d = k % d)
  <1> DEFINE q == k \div d
             r == k % d
  <1>1. q \in Nat /\ r \in 0 .. d - 1 /\ k = q * d + r BY Divided
  <1>2. k < d => k % d = k
    <2> SUFFICES ASSUME k < d PROVE k % d = k OBVIOUS
    <2>1. k \in 0 .. d - 1 /\ 0 * d + k = k /\ 0 \in Int OBVIOUS
    <2>2. (0 * d + k) % d = k BY <2>1, Division
    <2> QED BY <2>1, <2>2
  <1> HIDE DEF q, r
  <1>3. k >= d => (k - d) % d = r
    <2>1. q - 1 \in Int /\ k - d = (q - 1) * d + r
      <3>1. (q - 1) * d = q * d - d BY <1>1
      <3>2. q * d \in Int BY <1>1
      <3> QED BY <1>1, <3>1, <3>2
    <2>2. ((q - 1) * d + r) % d = r BY <1>1, <2>1, Division
    <2> QED BY <2>1, <2>2
  <1> QED BY <1>1, <1>2, <1>3 DEF r

Outs == Seq(Nat)

(* What a copy says: bytes of the output, behind the output. *)
LEMMA CopiedIs ==
  ASSUME NEW out \in Outs, NEW d \in 1 .. Len(out), NEW n \in Nat
  PROVE  /\ Copied(out, d, n) \in Outs /\ Len(Copied(out, d, n)) = Len(out) + n
         /\ \A i \in 1 .. Len(out) : Copied(out, d, n)[i] = out[i]
         /\ \A k \in 0 .. n - 1 :
              Copied(out, d, n)[Len(out) + k + 1] = out[Len(out) - d + 1 + (k % d)]
  <1> DEFINE L == Len(out)
             c == Copied(out, d, n)
  <1>1. L \in Nat /\ d \in Nat \ {0} /\ d <= L /\ \A i \in 1 .. L : out[i] \in Nat BY DEF Outs
  <1> HIDE DEF L
  <1>2. c = [i \in 1 .. L + n |->
               IF i <= L THEN out[i] ELSE out[L - d + 1 + ((i - L - 1) % d)]]
    BY DEF Copied, L
  <1> HIDE DEF c
  <1>3. \A k \in Nat : L - d + 1 + (k % d) \in 1 .. L
    <2> SUFFICES ASSUME NEW k \in Nat PROVE L - d + 1 + (k % d) \in 1 .. L OBVIOUS
    <2>1. (k % d) \in 0 .. d - 1 BY <1>1, ComesRound
    <2> DEFINE r == k % d
    <2> HIDE DEF r
    <2>2. r \in 0 .. d - 1 BY <2>1 DEF r
    <2>3. L - d + 1 + r \in 1 .. L BY <1>1, <2>2
    <2> QED BY <2>3 DEF r
  <1>4. \A i \in 1 .. L : c[i] = out[i] BY <1>1, <1>2
  <1>5. \A k \in 0 .. n - 1 : c[L + k + 1] = out[L - d + 1 + (k % d)]
    <2> SUFFICES ASSUME NEW k \in 0 .. n - 1 PROVE c[L + k + 1] = out[L - d + 1 + (k % d)] OBVIOUS
    <2>1. L + k + 1 \in 1 .. L + n /\ ~ (L + k + 1 <= L) /\ (L + k + 1) - L - 1 = k BY <1>1
    <2> QED BY <1>2, <2>1
  <1>6. \A i \in 1 .. L + n : c[i] \in Nat
    <2> SUFFICES ASSUME NEW i \in 1 .. L + n PROVE c[i] \in Nat OBVIOUS
    <2>1. CASE i <= L
      <3>1. i \in 1 .. L BY <1>1, <2>1
      <3> QED BY <1>1, <1>4, <3>1
    <2>2. CASE ~ (i <= L)
      <3> DEFINE k == i - L - 1
      <3>1. k \in 0 .. n - 1 /\ L + k + 1 = i BY <1>1, <2>2
      <3> HIDE DEF k
      <3>2. c[i] = out[L - d + 1 + (k % d)] BY <1>5, <3>1
      <3>3. k \in Nat BY <3>1
      <3> QED BY <1>1, <1>3, <3>2, <3>3
    <2> QED BY <2>1, <2>2
  <1>7. c \in Outs /\ Len(c) = L + n
    <2>1. L + n \in Nat BY <1>1
    <2>2. c \in [1 .. L + n -> Nat] BY <1>2, <1>6
    <2> QED BY <2>1, <2>2 DEF Outs
  <1> QED BY <1>4, <1>5, <1>7 DEF c, L

(* It is a copy of a byte at a time. *)
LEMMA CopiedStep ==
  ASSUME NEW out \in Outs, NEW d \in 1 .. Len(out), NEW n \in Nat
  PROVE  Copied(out, d, n + 1) =
           Append(Copied(out, d, n), Copied(out, d, n)[Len(Copied(out, d, n)) - d + 1])
  <1> DEFINE L == Len(out)
             c == Copied(out, d, n)
             e == Copied(out, d, n + 1)
             a == Append(c, c[Len(c) - d + 1])
  <1>1. L \in Nat /\ d \in Nat \ {0} /\ d <= L BY DEF Outs
  <1>2. n + 1 \in Nat OBVIOUS
  <1>3. /\ c \in Outs /\ Len(c) = L + n /\ \A i \in 1 .. L : c[i] = out[i]
        /\ \A k \in 0 .. n - 1 : c[L + k + 1] = out[L - d + 1 + (k % d)]
    BY CopiedIs
  <1>4. /\ e \in Outs /\ Len(e) = L + (n + 1) /\ \A i \in 1 .. L : e[i] = out[i]
        /\ \A k \in 0 .. (n + 1) - 1 : e[L + k + 1] = out[L - d + 1 + (k % d)]
    BY <1>2, CopiedIs
  <1> HIDE DEF L, c, e
  <1>5. c[Len(c) - d + 1] = out[L - d + 1 + (n % d)]
    <2>1. CASE n < d
      <3>1. n % d = n BY <1>1, <2>1, ComesRound
      <3> DEFINE i == L - d + 1 + n
      <3>2. i \in 1 .. L /\ (L + n) - d + 1 = i BY <1>1, <2>1
      <3>3. L - d + 1 + (n % d) = i BY <3>1
      <3> HIDE DEF i
      <3>4. c[i] = out[i] BY <1>3, <3>2
      <3> QED BY <1>3, <3>2, <3>3, <3>4
    <2>2. CASE n >= d
      <3>1. (n - d) % d = n % d BY <1>1, <2>2, ComesRound
      <3> DEFINE k == n - d
      <3>2. k \in 0 .. n - 1 /\ (L + n) - d + 1 = L + k + 1 BY <1>1, <2>2
      <3> HIDE DEF k
      <3>3. c[L + k + 1] = out[L - d + 1 + (k % d)] BY <1>3, <3>2
      <3>4. k % d = n % d BY <3>1 DEF k
      <3> QED BY <1>3, <3>2, <3>3, <3>4
    <2> QED BY <1>1, <2>1, <2>2
  <1>6. c[Len(c) - d + 1] \in Nat
    <2>1. Len(c) - d + 1 \in 1 .. Len(c) BY <1>1, <1>3
    <2> QED BY <1>3, <2>1 DEF Outs
  <1>7. /\ a \in Outs /\ Len(a) = L + n + 1 /\ a[L + n + 1] = c[Len(c) - d + 1]
        /\ \A i \in 1 .. L + n : a[i] = c[i]
    <2> DEFINE v == c[Len(c) - d + 1]
    <2>1. v \in Nat /\ c \in Seq(Nat) BY <1>3, <1>6 DEF Outs
    <2> HIDE DEF v
    <2>2. /\ Append(c, v) \in Seq(Nat) /\ Len(Append(c, v)) = Len(c) + 1
          /\ Append(c, v)[Len(c) + 1] = v /\ \A i \in 1 .. Len(c) : Append(c, v)[i] = c[i]
      BY ONLY <2>1, AppendProperties
    <2> QED BY <1>3, <2>2 DEF v, Outs
  <1> HIDE DEF a
  <1>8. \A i \in 1 .. L + n + 1 : a[i] = e[i]
    <2> SUFFICES ASSUME NEW i \in 1 .. L + n + 1 PROVE a[i] = e[i] OBVIOUS
    <2>1. CASE i <= L
      <3>1. i \in 1 .. L /\ i \in 1 .. L + n BY <1>1, <2>1
      <3> QED BY <1>3, <1>4, <1>7, <3>1
    <2>2. CASE i = L + n + 1
      <3>1. n \in 0 .. (n + 1) - 1 OBVIOUS
      <3>2. e[L + n + 1] = out[L - d + 1 + (n % d)] BY <1>4, <3>1
      <3> QED BY <1>5, <1>7, <2>2, <3>2
    <2>3. CASE ~ (i <= L) /\ i # L + n + 1
      <3> DEFINE k == i - L - 1
      <3>1. k \in 0 .. n - 1 /\ k \in 0 .. (n + 1) - 1 /\ L + k + 1 = i /\ i \in 1 .. L + n BY <1>1, <2>3
      <3> HIDE DEF k
      <3>2. c[i] = out[L - d + 1 + (k % d)] BY <1>3, <3>1
      <3>3. e[i] = out[L - d + 1 + (k % d)] BY <1>4, <3>1
      <3> QED BY <1>7, <3>1, <3>2, <3>3
    <2> QED BY <2>1, <2>2, <2>3
  <1>9. a = e
    <2>1. Len(a) = Len(e) BY <1>1, <1>4, <1>7
    <2>2. \A i \in 1 .. Len(a) : a[i] = e[i] BY <1>7, <1>8
    <2>3. a \in Seq(Nat) /\ e \in Seq(Nat) BY <1>4, <1>7 DEF Outs
    <2> QED BY ONLY <2>1, <2>2, <2>3, SeqEqual
  <1> QED BY <1>9 DEF a, c, e

(* A copy that is cut is the beginning of the copy. *)
LEMMA CopiedCut ==
  ASSUME NEW out \in Outs, NEW d \in 1 .. Len(out), NEW n \in Nat, NEW m \in 0 .. n
  PROVE  SubSeq(Copied(out, d, n), 1, Len(out) + m) = Copied(out, d, m)
  <1> DEFINE L == Len(out)
             c == Copied(out, d, m)
             e == Copied(out, d, n)
             s == SubSeq(e, 1, L + m)
  <1>1. L \in Nat /\ d \in Nat \ {0} /\ d <= L /\ m \in Nat BY DEF Outs
  <1>3. /\ c \in Outs /\ Len(c) = L + m /\ \A i \in 1 .. L : c[i] = out[i]
        /\ \A k \in 0 .. m - 1 : c[L + k + 1] = out[L - d + 1 + (k % d)]
    BY <1>1, CopiedIs
  <1>4. /\ e \in Outs /\ Len(e) = L + n /\ \A i \in 1 .. L : e[i] = out[i]
        /\ \A k \in 0 .. n - 1 : e[L + k + 1] = out[L - d + 1 + (k % d)]
    BY CopiedIs
  <1> HIDE DEF L, c, e
  <1>5. s \in Outs /\ Len(s) = L + m /\ \A i \in 1 .. L + m : s[i] = e[i]
    <2>1. e \in Seq(Nat) /\ L + m \in 0 .. Len(e) /\ \A i \in 1 .. Len(e) : e[i] \in Nat BY <1>1, <1>4 DEF Outs
    <2> DEFINE p == L + m
    <2>2. p \in 0 .. Len(e) /\ p \in Nat BY <1>1, <2>1
    <2> HIDE DEF p
    <2>3. \A i \in 1 .. p : e[i] \in Nat BY <2>1, <2>2
    <2>4. /\ SubSeq(e, 1, p) \in Seq(Nat)
          /\ Len(SubSeq(e, 1, p)) = IF 1 <= p THEN p - 1 + 1 ELSE 0
          /\ \A i \in 1 .. p - 1 + 1 : SubSeq(e, 1, p)[i] = e[1 + i - 1]
      BY <2>2, <2>3, SubSeqProperties
    <2>5. Len(SubSeq(e, 1, p)) = p /\ \A i \in 1 .. p : SubSeq(e, 1, p)[i] = e[i]
      <3>1. p - 1 + 1 = p /\ \A i \in 1 .. p : 1 + i - 1 = i BY <2>2
      <3>2. ~ (1 <= p) => p = 0 BY <2>2
      <3> QED BY <2>4, <3>1, <3>2
    <2> QED BY <2>4, <2>5 DEF p, Outs
  <1> HIDE DEF s
  <1>6. \A i \in 1 .. L + m : s[i] = c[i]
    <2> SUFFICES ASSUME NEW i \in 1 .. L + m PROVE s[i] = c[i] OBVIOUS
    <2>1. CASE i <= L
      <3>1. i \in 1 .. L BY <1>1, <2>1
      <3> QED BY <1>3, <1>4, <1>5, <3>1
    <2>2. CASE ~ (i <= L)
      <3> DEFINE k == i - L - 1
      <3>1. k \in 0 .. m - 1 /\ k \in 0 .. n - 1 /\ L + k + 1 = i BY <1>1, <2>2
      <3> HIDE DEF k
      <3>2. c[i] = out[L - d + 1 + (k % d)] BY <1>3, <3>1
      <3>3. e[i] = out[L - d + 1 + (k % d)] BY <1>4, <3>1
      <3> QED BY <1>5, <3>2, <3>3
    <2> QED BY <2>1, <2>2
  <1>7. s = c
    <2>1. Len(s) = Len(c) /\ s \in Seq(Nat) /\ c \in Seq(Nat) BY <1>3, <1>5 DEF Outs
    <2>2. \A i \in 1 .. Len(s) : s[i] = c[i] BY <1>5, <1>6
    <2> QED BY ONLY <2>1, <2>2, SeqEqual
  <1> QED BY <1>7 DEF s, c, e, L


(* What the loader and its history are made of. *)
Kernels == [queue : [1 .. 4 -> Nat], out : Outs, count : Nat, last : {"none", "literal", "match", "rep"}]
Decoders ==
  [state : 0 .. 11, rep : [1 .. 4 -> Nat], out : Outs, outSize : Nat,
   result : {"none", "OK", "DATA_ERROR"}, kernel : Kernels, strayed : {FALSE}, jumped : BOOLEAN]

(* With the distances as they are in use: each within the output, or 1 as  *)
(* at the start; a byte is written once a packet was read.                 *)
InUse(z) ==
  /\ z.rep = z.kernel.queue
  /\ \A k \in 1 .. 4 : z.rep[k] \in 1 .. Len(z.out) \/ z.rep[k] = 1
  /\ (z.state >= NumLitStates) = (z.kernel.last \in {"match", "rep"})
  /\ z.kernel.last # "none" => Len(z.out) > 0

(* The inductive invariant: the output is the packets' one, cut. *)
CutOf(z) ==
  /\ Len(z.out) <= z.outSize /\ Len(z.out) <= Len(z.kernel.out)
  /\ z.out = SubSeq(z.kernel.out, 1, Len(z.out))
  /\ Len(z.out) # Len(z.kernel.out) => Len(z.out) = z.outSize
LoaderInv(z) == z \in Decoders /\ CutOf(z) /\ (z.result = "none" => InUse(z))

(* While it decodes nothing is cut yet. *)
Going(z) == z \in Decoders /\ z.result = "none" /\ Len(z.out) < z.outSize /\ z.out = z.kernel.out

(* A sequence is its own beginning. *)
LEMMA WholeIsItself == \A s \in Outs : SubSeq(s, 1, Len(s)) = s /\ Len(s) \in Nat
  <1> SUFFICES ASSUME NEW s \in Outs PROVE SubSeq(s, 1, Len(s)) = s /\ Len(s) \in Nat OBVIOUS
  <1>1. s \in Seq(Nat) /\ Len(s) \in Nat BY DEF Outs
  <1> QED BY <1>1

(* A loop that goes on has cut nothing. *)
LEMMA GoingIs == ASSUME NEW z, LoaderInv(z), z.result = "none", Len(z.out) < z.outSize
  PROVE Going(z) /\ InUse(z)
  <1>1. z.kernel.out \in Outs /\ z.out \in Outs /\ z \in Decoders BY DEF LoaderInv, Decoders, Kernels
  <1>2. Len(z.out) = Len(z.kernel.out) /\ z.out = SubSeq(z.kernel.out, 1, Len(z.out))
    BY DEF LoaderInv, CutOf
  <1>3. SubSeq(z.kernel.out, 1, Len(z.kernel.out)) = z.kernel.out BY <1>1, WholeIsItself
  <1> QED BY <1>1, <1>2, <1>3 DEF LoaderInv, Going

(* A copy of nothing adds nothing. *)
LEMMA CopiedNothing ==
  ASSUME NEW out \in Outs, NEW d \in 1 .. Len(out)
  PROVE  Copied(out, d, 0) = out
  <1> DEFINE c == Copied(out, d, 0)
  <1>1. 0 \in Nat /\ Len(out) \in Nat BY DEF Outs
  <1>2. c \in Outs /\ Len(c) = Len(out) + 0 /\ \A i \in 1 .. Len(out) : c[i] = out[i]
    BY ONLY <1>1, CopiedIs
  <1> HIDE DEF c
  <1>3. c \in Seq(Nat) /\ out \in Seq(Nat) /\ Len(c) = Len(out) /\ \A i \in 1 .. Len(c) : c[i] = out[i]
    BY <1>1, <1>2 DEF Outs
  <1>4. c = out BY ONLY <1>3, SeqEqual
  <1> QED BY <1>4 DEF c

(* Copy says what Copied says. *)
LEMMA CopyIs ==
  ASSUME NEW z \in Decoders, z.rep[1] \in 1 .. Len(z.out), NEW n \in Nat
  PROVE  Copy(z, n) = [z EXCEPT !.out = Copied(z.out, z.rep[1], n)]
  <1> DEFINE d == z.rep[1]
             c(k) == Copied(z.out, d, k)
             y(k) == [z EXCEPT !.out = c(k)]
             Copies(f) == f = [k \in 0 .. n |-> IF k = 0 THEN z ELSE Write(f[k - 1], At(f[k - 1], d))]
             g == [k \in 0 .. n |-> y(k)]
  <1>1. z.out \in Outs /\ Len(z.out) \in Nat /\ d \in 1 .. Len(z.out) BY DEF Decoders, Outs
  <1>2. y(0) = z
    <2>1. c(0) = z.out BY <1>1, CopiedNothing
    <2> QED BY <2>1 DEF Decoders
  <1>3. ASSUME NEW k \in Nat PROVE y(k + 1) = Write(y(k), At(y(k), d))
    <2>1. c(k) \in Outs /\ Len(c(k)) = Len(z.out) + k BY <1>1, CopiedIs
    <2>2. c(k + 1) = Append(c(k), c(k)[Len(c(k)) - d + 1]) BY <1>1, CopiedStep
    <2> HIDE DEF d, c
    <2>3. y(k).out = c(k) BY DEF Decoders
    <2>4. At(y(k), d) = c(k)[Len(c(k)) - d + 1]
      <3>1. Len(c(k)) - d \in 0 .. Len(c(k)) - 1 BY <1>1, <2>1
      <3> QED BY <2>3, <3>1 DEF At, NowPos
    <2>5. Write(y(k), At(y(k), d)) = [y(k) EXCEPT !.out = Append(y(k).out, At(y(k), d))] BY DEF Write
    <2>6. \A v : [y(k) EXCEPT !.out = v] = [z EXCEPT !.out = v] BY DEF Decoders
    <2> HIDE DEF y
    <2>7. Write(y(k), At(y(k), d)) = [z EXCEPT !.out = c(k + 1)] BY <2>2, <2>3, <2>4, <2>5, <2>6
    <2> QED BY <2>7 DEF y
  <1> HIDE DEF y
  <1>4. Copies(g)
    <2>1. ASSUME NEW k \in 0 .. n PROVE g[k] = IF k = 0 THEN z ELSE Write(g[k - 1], At(g[k - 1], d))
      <3>1. CASE k = 0 BY <1>2, <3>1
      <3>2. CASE k # 0
        <4> DEFINE j == k - 1
        <4>1. j \in Nat /\ j \in 0 .. n /\ j + 1 = k BY <3>2
        <4> HIDE DEF j
        <4>2. y(j + 1) = Write(y(j), At(y(j), d)) BY <1>3, <4>1
        <4>3. g[j] = y(j) /\ g[k] = y(k) BY <4>1
        <4>4. g[k] = Write(g[j], At(g[j], d)) BY <4>1, <4>2, <4>3
        <4> HIDE DEF g
        <4> QED BY <3>2, <4>4 DEF j
      <3> QED BY <3>1, <3>2
    <2> DEFINE h == [k \in 0 .. n |-> IF k = 0 THEN z ELSE Write(g[k - 1], At(g[k - 1], d))]
    <2>2. \A k \in 0 .. n : g[k] = h[k] BY <2>1
    <2>3. g = h BY <2>2
    <2> QED BY <2>3
  <1>5. ASSUME NEW f, Copies(f) PROVE f[n] = y(n)
    <2> DEFINE S == {k \in Nat : k <= n => f[k] = y(k)}
    <2>1. 0 \in S BY <1>2, <1>5
    <2>2. ASSUME NEW k \in S PROVE k + 1 \in S
      <3> SUFFICES ASSUME k + 1 <= n PROVE f[k + 1] = y(k + 1) OBVIOUS
      <3> DEFINE j == k + 1
      <3>1. f[k] = y(k) /\ k \in Nat OBVIOUS
      <3>2. j \in 0 .. n /\ j # 0 /\ j - 1 = k BY <3>1
      <3> HIDE DEF j
      <3>3. f[j] = Write(f[j - 1], At(f[j - 1], d)) BY <1>5, <3>2
      <3>4. f[j] = Write(y(k), At(y(k), d)) BY <3>1, <3>2, <3>3
      <3>5. y(k + 1) = Write(y(k), At(y(k), d)) BY <1>3, <3>1
      <3> QED BY <3>4, <3>5 DEF j
    <2>3. S = Nat
      <3> HIDE DEF S
      <3>1. S \in SUBSET Nat BY DEF S
      <3> QED BY <2>1, <2>2, <3>1, NatByStep
    <2> QED BY <2>3
  <1> HIDE DEF g
  <1>6. \E f : Copies(f) BY <1>4
  <1> DEFINE chosen == CHOOSE f : Copies(f)
  <1>7. Copies(chosen) BY <1>6
  <1>8. Copy(z, n) = chosen[n] BY Zenon DEF Copy
  <1>9. Copy(z, n) = y(n) BY <1>5, <1>7, <1>8
  <1> QED BY <1>9 DEF y

(* A record is what its fields are. *)
LEMMA StopRight ==
  ASSUME NEW z \in Decoders, CutOf(z), NEW result \in {"OK", "DATA_ERROR"}
  PROVE  LoaderInv(Stop(z, result))
  <1> DEFINE y == Stop(z, result)
  <1>1. FirstReps \in [1 .. 4 -> Nat] BY DEF FirstReps
  <1>2. y = [z EXCEPT !.result = result, !.state = 0, !.rep = FirstReps] BY DEF Stop
  <1> HIDE DEF y
  <1>3. y \in Decoders
    <2>1. 0 \in 0 .. 11 /\ result \in {"none", "OK", "DATA_ERROR"} OBVIOUS
    <2> QED BY <1>1, <1>2, <2>1 DEF Decoders
  <1>4. y.out = z.out /\ y.outSize = z.outSize /\ y.kernel = z.kernel /\ y.result # "none"
    BY <1>2 DEF Decoders
  <1>5. CutOf(y) BY <1>4 DEF CutOf
  <1> QED BY <1>3, <1>4, <1>5 DEF LoaderInv, y

(* A copy within the output, of as much as there is room for. *)
LEMMA CopyMatchRight ==
  ASSUME NEW z, Going(z), NEW n \in Nat, NEW packet, NEW says,
         says = Says(z.kernel, packet), packet.kind \in {"match", "rep"},
         z.rep[1] \in 1 .. Len(z.out) =>
           says = [z.kernel EXCEPT !.queue = z.rep, !.out = Copied(@, z.rep[1], n + MatchMinLen)],
         z.state >= NumLitStates, z.rep[1] # 0,
         \A k \in 2 .. 4 : z.rep[k] \in 1 .. Len(z.out) \/ z.rep[k] = 1
  PROVE  LoaderInv(CopyMatch(z, n, packet))
  <1> DEFINE d == z.rep[1]
             L == Len(z.out)
             len == n + MatchMinLen
             m == RoomFor(z, len)
             e == Copied(z.out, d, len)
             c == Copied(z.out, d, m)
  <1>1. z \in Decoders /\ z.out \in Outs /\ L \in Nat /\ z.outSize \in Nat /\ L < z.outSize
        /\ z.kernel \in Kernels /\ z.kernel.out = z.out /\ d \in Nat /\ z.result = "none"
    <2>1. z \in Decoders /\ z.result = "none" /\ L < z.outSize /\ z.out = z.kernel.out BY DEF Going
    <2>2. z.out \in Outs /\ z.outSize \in Nat /\ z.kernel \in Kernels /\ d \in Nat BY <2>1 DEF Decoders
    <2>3. L \in Nat BY <2>2 DEF Outs
    <2> QED BY <2>1, <2>2, <2>3
  <1>2. CutOf(z)
    <2>1. SubSeq(z.out, 1, Len(z.out)) = z.out BY <1>1, WholeIsItself
    <2> QED BY <1>1, <2>1 DEF CutOf
  <1>3. CASE TooFar(z)
    <2>1. CopyMatch(z, n, packet) = Stop(z, "DATA_ERROR") BY <1>3 DEF CopyMatch
    <2> QED BY <1>1, <1>2, <2>1, StopRight
  <1>4. CASE ~ TooFar(z)
    <2>1. d \in 1 .. L BY <1>1, <1>4 DEF TooFar, NowPos
    <2>2. len \in Nat /\ len >= 1 /\ m \in 1 .. len /\ (m < len => L + m = z.outSize) /\ L + m <= z.outSize
      BY <1>1 DEF MatchMinLen, RoomFor, NowPos
    <2> DEFINE y == CopyMatch(z, n, packet)
               k == [z.kernel EXCEPT !.queue = z.rep, !.out = e, !.count = @ + 1, !.last = packet.kind]
    <2> HIDE DEF m
    <2>3. Copy(z, m) = [z EXCEPT !.out = c]
      <3>1. m \in Nat /\ z.rep[1] \in 1 .. Len(z.out) BY <2>1, <2>2
      <3> QED BY <1>1, <3>1, CopyIs
    <2>4. says = [z.kernel EXCEPT !.queue = z.rep, !.out = e] BY <1>1, <2>1
    <2>5. y = Note([z EXCEPT !.out = c], packet) BY <1>4, <2>3 DEF CopyMatch, m
    <2>6. c \in Outs /\ Len(c) = L + m /\ e \in Outs /\ Len(e) = L + len
      BY <1>1, <2>1, <2>2, CopiedIs
    <2>7. SubSeq(e, 1, L + m) = c
      <3>1. m \in 0 .. len BY <2>2
      <3> HIDE DEF len, d
      <3> QED BY <1>1, <2>1, <2>2, <3>1, CopiedCut
    <2> HIDE DEF c, e, len
    <2>8. y = [z EXCEPT !.out = c, !.kernel = k]
      <3>1. [z EXCEPT !.out = c].kernel = z.kernel BY <1>1 DEF Decoders
      <3> DEFINE w == [z EXCEPT !.out = c]
      <3>2. Says(w.kernel, packet) = says BY <3>1
      <3>3. Note(w, packet) = [w EXCEPT !.kernel = Counted(says, packet)]
        <4> HIDE DEF w
        <4> QED BY ONLY <3>2 DEF Note
      <3>4. Counted(says, packet) = k BY <2>4, <1>1 DEF Kernels, Counted
      <3> HIDE DEF k, y
      <3>5. y = [w EXCEPT !.kernel = k] BY <2>5, <3>3, <3>4
      <3> QED BY <1>1, <3>5 DEF Decoders
    <2> HIDE DEF y
    <2>9. k \in Kernels /\ k.queue = z.rep /\ k.out = e /\ k.last \in {"match", "rep"}
      <3>1. z.rep \in [1 .. 4 -> Nat] BY <1>1 DEF Decoders
      <3>2. packet.kind \in {"none", "literal", "match", "rep"} OBVIOUS
      <3>3. z.kernel.count + 1 \in Nat BY <1>1 DEF Kernels
      <3> DEFINE kind == packet.kind
                 rep == z.rep
                 old == z.kernel
      <3>4. old \in Kernels /\ rep \in [1 .. 4 -> Nat] /\ kind \in {"none", "literal", "match", "rep"}
            /\ kind \in {"match", "rep"} /\ old.count + 1 \in Nat /\ e \in Outs
            /\ k = [old EXCEPT !.queue = rep, !.out = e, !.count = old.count + 1, !.last = kind]
        BY <1>1, <2>6, <3>1, <3>2, <3>3
      <3> HIDE DEF kind, rep, old, k
      <3>5. k \in Kernels /\ k.queue = rep /\ k.out = e /\ k.last = kind BY <3>4 DEF Kernels
      <3> QED BY <3>4, <3>5 DEF kind, rep
    <2> HIDE DEF k
    <2>10. /\ y \in Decoders /\ y.out = c /\ y.kernel = k /\ y.outSize = z.outSize
           /\ y.rep = z.rep /\ y.state = z.state
      BY <1>1, <2>6, <2>8, <2>9 DEF Decoders
    <2>11. CutOf(y)
      <3>1. Len(y.out) = L + m /\ Len(y.kernel.out) = L + len BY <2>6, <2>9, <2>10
      <3>2. y.out = SubSeq(y.kernel.out, 1, Len(y.out)) BY <2>7, <2>9, <2>10, <3>1
      <3> QED BY <1>1, <2>2, <2>10, <3>1, <3>2, SMTT(30) DEF CutOf
    <2>12. InUse(y)
      <3>1. Len(y.out) = L + m BY <2>6, <2>10
      <3>2. \A i \in 1 .. 4 : z.rep[i] \in 1 .. Len(y.out) \/ z.rep[i] = 1
        <4>1. \A i \in 1 .. 4 : i = 1 \/ i \in 2 .. 4 OBVIOUS
        <4>2. \A x \in 1 .. L : x \in 1 .. L + m BY <1>1, <2>2
        <4> QED BY <2>1, <3>1, <4>1, <4>2
      <3>3. Len(y.out) > 0 BY <1>1, <2>2, <3>1
      <3> QED BY <2>9, <2>10, <3>2, <3>3 DEF InUse
    <2> QED BY <2>10, <2>11, <2>12 DEF LoaderInv, y
  <1> QED BY <1>3, <1>4

(* A byte of the output is one. *)
LEMMA BytesOfOut == \A s \in Outs : \A i \in 1 .. Len(s) : s[i] \in Nat
  BY ElementOfSeq DEF Outs

(* The history of one packet more. *)
KernelMore(k, o, last) == [k EXCEPT !.out = o, !.count = @ + 1, !.last = last]

(* It is a history. *)
LEMMA KernelOfMore ==
  ASSUME NEW k \in Kernels, NEW o \in Outs, NEW last \in {"literal", "match", "rep"}
  PROVE  /\ KernelMore(k, o, last) \in Kernels /\ KernelMore(k, o, last).queue = k.queue
         /\ KernelMore(k, o, last).out = o /\ KernelMore(k, o, last).last = last
  <1>1. k.count + 1 \in Nat BY DEF Kernels
  <1>2. last \in {"none", "literal", "match", "rep"} OBVIOUS
  <1> QED BY <1>1, <1>2 DEF Kernels, KernelMore

(* A literal, decoded with a byte of the output where it is behind a match. *)
LEMMA LiteralRight ==
  ASSUME NEW z, LoaderInv(z), z.result = "none", Len(z.out) < z.outSize, NEW b \in Nat
  PROVE  LoaderInv(Literal(z, b))
  <1> DEFINE L == Len(z.out)
             state == AfterLiteral(z.state)
             o == Append(z.out, b)
             k == KernelMore(z.kernel, o, "literal")
             y == Literal(z, b)
  <1>1. Going(z) /\ InUse(z) BY GoingIs
  <1>2. z \in Decoders /\ z.kernel.out = z.out BY <1>1 DEF Going
  <1>3. z.out \in Outs /\ z.outSize \in Nat /\ z.kernel \in Kernels /\ z.rep \in [1 .. 4 -> Nat]
        /\ z.strayed = FALSE /\ z.state \in 0 .. 11
    BY <1>2 DEF Decoders
  <1>4. L \in Nat BY <1>3 DEF Outs
  <1>5. ~ StraysBack(z)
    <2> SUFFICES ASSUME z.state >= NumLitStates PROVE At(z, z.rep[1]) # NotWritten BY DEF StraysBack
    <2>1. z.kernel.last # "none" BY <1>1 DEF InUse
    <2>2. L > 0 /\ z.rep[1] \in 1 .. L BY <1>1, <1>4, <2>1 DEF InUse
    <2> DEFINE i == L - z.rep[1] + 1
    <2>3. L - z.rep[1] \in 0 .. L - 1 /\ i \in 1 .. L BY <1>4, <2>2
    <2>4. At(z, z.rep[1]) = z.out[i] BY <2>3 DEF At, NowPos
    <2> HIDE DEF i
    <2>5. z.out[i] \in Nat BY <1>3, <2>3, BytesOfOut
    <2> QED BY <2>4, <2>5 DEF NotWritten
  <1>6. o \in Outs /\ Len(o) = L + 1 BY <1>3 DEF Outs
  <1>7. state \in 0 .. 6 BY <1>3, SMTT(30) DEF AfterLiteral
  <1> HIDE DEF o, state
  <1>8. y = [z EXCEPT !.state = state, !.out = o, !.kernel = k]
    <2> DEFINE p == [kind |-> "literal", byte |-> b]
               w == [z EXCEPT !.state = state, !.out = o]
    <2>1. Write([z EXCEPT !.state = AfterLiteral(@), !.strayed = @ \/ StraysBack(z)], b) = w
      <3>1. [z EXCEPT !.state = AfterLiteral(@), !.strayed = @ \/ StraysBack(z)] = [z EXCEPT !.state = state]
        <4>1. (z.strayed \/ StraysBack(z)) = z.strayed BY <1>3, <1>5
        <4>2. [z EXCEPT !.state = AfterLiteral(@), !.strayed = @ \/ StraysBack(z)] = [z EXCEPT !.state = state, !.strayed = z.strayed]
          BY <4>1 DEF state
        <4> QED BY <1>2, <4>2 DEF Decoders
      <3>2. [z EXCEPT !.state = state].out = z.out BY <1>2 DEF Decoders
      <3> QED BY <1>2, <3>1, <3>2 DEF Write, o, Decoders
    <2>2. y = Note(w, p) BY <2>1 DEF Literal
    <2>3. w.kernel = z.kernel BY <1>2 DEF Decoders
    <2>4. Says(z.kernel, p) = [z.kernel EXCEPT !.out = o] BY <1>2 DEF Says, o
    <2>5. Counted([z.kernel EXCEPT !.out = o], p) = k BY <1>3 DEF Counted, Kernels, KernelMore
    <2>6. Note(w, p) = [w EXCEPT !.kernel = Counted(Says(w.kernel, p), p)] BY DEF Note
    <2> HIDE DEF y, k, p
    <2>7. y = [w EXCEPT !.kernel = k] BY <2>2, <2>3, <2>4, <2>5, <2>6
    <2> QED BY <1>2, <2>7 DEF Decoders
  <1>9. k \in Kernels /\ k.queue = z.kernel.queue /\ k.out = o /\ k.last = "literal"
    BY <1>3, <1>6, KernelOfMore, ZenonT(60)
  <1> HIDE DEF k, y
  <1>10. state \in 0 .. 11 BY <1>7
  <1>11. /\ y \in Decoders /\ y.out = o /\ y.kernel = k /\ y.outSize = z.outSize
         /\ y.rep = z.rep /\ y.state = state
    BY <1>2, <1>6, <1>8, <1>9, <1>10 DEF Decoders
  <1>12. CutOf(y)
    <2>1. SubSeq(o, 1, Len(o)) = o BY <1>6, WholeIsItself
    <2> QED BY <1>3, <1>4, <1>6, <1>9, <1>11, <2>1 DEF CutOf
  <1>13. InUse(y)
    <2>1. \A i \in 1 .. 4 : y.rep[i] \in 1 .. Len(y.out) \/ y.rep[i] = 1
      BY <1>1, <1>4, <1>6, <1>11 DEF InUse
    <2>2. Len(y.out) > 0 /\ ~ (y.state >= NumLitStates) BY <1>4, <1>6, <1>7, <1>11 DEF NumLitStates
    <2>3. y.rep = y.kernel.queue BY <1>1, <1>9, <1>11 DEF InUse
    <2> QED BY <1>9, <1>11, <2>1, <2>2, <2>3 DEF InUse
  <1> QED BY <1>11, <1>12, <1>13 DEF LoaderInv, y

(* A byte at the last distance. *)
LEMMA ShortRepRight ==
  ASSUME NEW z, LoaderInv(z), z.result = "none", Len(z.out) < z.outSize
  PROVE  LoaderInv(ShortRep(z))
  <1> DEFINE L == Len(z.out)
             state == IF z.state < NumLitStates THEN 9 ELSE 11
             v == At(z, z.rep[1])
             o == Append(z.out, v)
             k == KernelMore(z.kernel, o, "rep")
             y == ShortRep(z)
  <1>1. Going(z) /\ InUse(z) /\ CutOf(z) BY GoingIs DEF LoaderInv
  <1>2. z \in Decoders /\ z.kernel.out = z.out BY <1>1 DEF Going
  <1>3. z.out \in Outs /\ z.outSize \in Nat /\ z.kernel \in Kernels /\ z.rep \in [1 .. 4 -> Nat]
    BY <1>2 DEF Decoders
  <1>4. L \in Nat BY <1>3 DEF Outs
  <1>5. CASE L = 0
    <2>1. y = Stop(z, "DATA_ERROR") BY <1>5 DEF ShortRep, NowPos
    <2> QED BY <1>1, <1>2, <2>1, StopRight
  <1>6. CASE L # 0
    <2>1. z.rep[1] \in 1 .. L BY <1>1, <1>4, <1>6 DEF InUse
    <2>2. v = z.out[L - z.rep[1] + 1]
      <3>1. L - z.rep[1] \in 0 .. L - 1 BY <1>4, <2>1
      <3> QED BY <3>1 DEF At, NowPos
    <2>3. v \in Nat
      <3> DEFINE i == L - z.rep[1] + 1
      <3>1. i \in 1 .. L BY <1>4, <2>1
      <3> HIDE DEF i
      <3>2. z.out[i] \in Nat BY <1>3, <3>1, BytesOfOut
      <3> QED BY <2>2, <3>2 DEF i
    <2>4. Copied(z.out, z.rep[1], 1) = o
      <3> DEFINE d == z.rep[1]
      <3>1. d \in 1 .. Len(z.out) /\ 0 \in Nat /\ 0 + 1 = 1 BY <2>1
      <3> HIDE DEF d
      <3>2. Copied(z.out, d, 0) = z.out BY <1>3, <3>1, CopiedNothing
      <3>3. Copied(z.out, d, 0 + 1) = Append(Copied(z.out, d, 0), Copied(z.out, d, 0)[Len(Copied(z.out, d, 0)) - d + 1])
        BY <1>3, <3>1, CopiedStep
      <3>4. Copied(z.out, d, 1) = Append(z.out, z.out[L - d + 1]) BY <3>1, <3>2, <3>3
      <3> QED BY <2>2, <3>4 DEF d
    <2>5. o \in Outs /\ Len(o) = L + 1 BY <1>3, <2>3 DEF Outs
    <2>6. state \in 7 .. 11 BY DEF state
    <2> HIDE DEF o, state, v
    <2>7. y = [z EXCEPT !.state = state, !.out = o, !.kernel = k]
      <3> DEFINE p == [kind |-> "rep", which |-> 1, length |-> 1]
                 w == [z EXCEPT !.state = state, !.out = o]
      <3>1. Write([z EXCEPT !.state = state], v) = w BY <1>2 DEF Write, o, Decoders
      <3>2. y = Note(w, p)
        <4>1. y = Note(Write([z EXCEPT !.state = IF @ < NumLitStates THEN 9 ELSE 11], At(z, z.rep[1])), p)
          BY <1>6 DEF ShortRep, NowPos
        <4> QED BY <3>1, <4>1 DEF state, v
      <3>3. w.kernel = z.kernel BY <1>2 DEF Decoders
      <3>4. Says(z.kernel, p) = [z.kernel EXCEPT !.out = o]
        <4>1. Says(z.kernel, p) =
                [z.kernel EXCEPT !.queue = ToFront(@, 1), !.out = Copied(@, z.kernel.queue[1], 1)]
          BY DEF Says
        <4>2. z.kernel.queue = z.rep BY <1>1 DEF InUse
        <4>3. ToFront(z.rep, 1) = z.rep
          <5>1. \A i \in 1 .. 4 : ~ (i \in 2 .. 1) OBVIOUS
          <5> QED BY <1>3, <5>1, SMTT(30) DEF ToFront
        <4>4. Says(z.kernel, p) = [z.kernel EXCEPT !.queue = z.rep, !.out = o]
          BY <1>2, <2>4, <4>1, <4>2, <4>3
        <4> QED BY <1>3, <4>2, <4>4 DEF Kernels
      <3>5. Counted([z.kernel EXCEPT !.out = o], p) = k BY <1>3 DEF Counted, Kernels, KernelMore
      <3>6. Note(w, p) = [w EXCEPT !.kernel = Counted(Says(w.kernel, p), p)] BY DEF Note
      <3> HIDE DEF y, k, p
      <3>7. y = [w EXCEPT !.kernel = k] BY <3>2, <3>3, <3>4, <3>5, <3>6
      <3> QED BY <1>2, <3>7 DEF Decoders
    <2>8. k \in Kernels /\ k.queue = z.kernel.queue /\ k.out = o /\ k.last = "rep"
      BY <1>3, <2>5, KernelOfMore, ZenonT(60)
    <2> HIDE DEF k, y
    <2>9. state \in 0 .. 11 BY <2>6
    <2>10. /\ y \in Decoders /\ y.out = o /\ y.kernel = k /\ y.outSize = z.outSize
           /\ y.rep = z.rep /\ y.state = state
      BY <1>2, <2>5, <2>7, <2>8, <2>9 DEF Decoders
    <2>11. CutOf(y)
      <3>1. SubSeq(o, 1, Len(o)) = o BY <2>5, WholeIsItself
      <3> QED BY <1>3, <1>4, <2>5, <2>8, <2>10, <3>1 DEF CutOf
    <2>12. InUse(y)
      <3>1. \A i \in 1 .. 4 : y.rep[i] \in 1 .. Len(y.out) \/ y.rep[i] = 1
        BY <1>1, <1>4, <2>5, <2>10 DEF InUse
      <3>2. Len(y.out) > 0 /\ y.state >= NumLitStates BY <1>4, <2>5, <2>6, <2>10 DEF NumLitStates
      <3>3. y.rep = y.kernel.queue BY <1>1, <2>8, <2>10 DEF InUse
      <3> QED BY <2>8, <2>10, <3>1, <3>2, <3>3 DEF InUse
    <2> QED BY <2>10, <2>11, <2>12 DEF LoaderInv, y
  <1> QED BY <1>5, <1>6 DEF y

(* The distances in their new order are the queue's. *)
LEMMA RotateIsToFront ==
  ASSUME NEW rep \in [1 .. 4 -> Nat], NEW which \in 1 .. 4
  PROVE  /\ Rotate(rep, which) = ToFront(rep, which)
         /\ Rotate(rep, which) \in [1 .. 4 -> Nat]
         /\ Rotate(rep, which)[1] = rep[which]
         /\ \A k \in 1 .. 4 : \E j \in 1 .. 4 : Rotate(rep, which)[k] = rep[j]
  <1>1. which \in {1, 2, 3, 4} OBVIOUS
  <1>2. rep = [k \in 1 .. 4 |-> rep[k]] /\ \A k \in 1 .. 4 : rep[k] \in Nat OBVIOUS
  <1>3. CASE which = 1
    <2>1. Rotate(rep, which) = rep BY <1>3 DEF Rotate
    <2>2. ToFront(rep, 1) = rep
      <3>1. \A i \in 1 .. 4 : ~ (i \in 2 .. 1) OBVIOUS
      <3> QED BY <1>2, <3>1 DEF ToFront
    <2> QED BY <1>2, <1>3, <2>1, <2>2
  <1>4. CASE which \in {2, 3, 4}
    <2> DEFINE y == Rotate(rep, which)
               t == ToFront(rep, which)
    <2>1. y = << rep[which], rep[1], IF which = 2 THEN rep[3] ELSE rep[2], IF which = 4 THEN rep[3] ELSE rep[4] >>
      BY <1>4 DEF Rotate
    <2>2. DOMAIN t = 1 .. 4 /\ t[1] = rep[which] /\ t[2] = rep[1]
          /\ t[3] = (IF which = 2 THEN rep[3] ELSE rep[2]) /\ t[4] = (IF which = 4 THEN rep[3] ELSE rep[4])
          /\ t = [k \in 1 .. 4 |-> t[k]]
      BY <1>4 DEF ToFront
    <2>3. y \in [1 .. 4 -> Nat] /\ y = [k \in 1 .. 4 |-> y[k]] BY <1>2, <2>1
    <2>4. y[1] = rep[which] /\ y[2] = rep[1] /\ y[3] = (IF which = 2 THEN rep[3] ELSE rep[2])
          /\ y[4] = (IF which = 4 THEN rep[3] ELSE rep[4])
      BY <2>1
    <2> HIDE DEF y, t
    <2>5. \A k \in 1 .. 4 : k = 1 \/ k = 2 \/ k = 3 \/ k = 4 OBVIOUS
    <2>6. \A k \in 1 .. 4 : y[k] = t[k] BY <2>2, <2>4, <2>5
    <2>7. y = t BY <2>2, <2>3, <2>6
    <2>8. \A k \in 1 .. 4 : \E j \in 1 .. 4 : y[k] = rep[j] BY <2>4, <2>5
    <2> QED BY <2>3, <2>4, <2>7, <2>8 DEF y, t
  <1> QED BY <1>1, <1>3, <1>4

(* A match at a distance used before. *)
LEMMA LongRepRight ==
  ASSUME LzmaWidths, NEW z, LoaderInv(z), z.result = "none", Len(z.out) < z.outSize,
         NEW which \in 1 .. 4, NEW n \in Lengths
  PROVE  LoaderInv(LongRep(z, which, n))
  <1> DEFINE rep == Rotate(z.rep, which)
             state == IF z.state < NumLitStates THEN 8 ELSE 11
             p == [kind |-> "rep", which |-> which, length |-> n + MatchMinLen]
             w == [z EXCEPT !.rep = rep, !.state = state]
  <1>1. Going(z) /\ InUse(z) BY GoingIs
  <1>2. z \in Decoders /\ z.rep \in [1 .. 4 -> Nat] /\ z.kernel \in Kernels /\ z.state \in 0 .. 11
    BY <1>1 DEF Going, Decoders
  <1>3. n \in Nat BY LengthsAreNumbers
  <1>4. /\ rep = ToFront(z.rep, which) /\ rep \in [1 .. 4 -> Nat] /\ rep[1] = z.rep[which]
        /\ \A k \in 1 .. 4 : \E j \in 1 .. 4 : rep[k] = z.rep[j]
    BY <1>2, RotateIsToFront
  <1>5. state \in 0 .. 11 /\ state >= NumLitStates BY DEF NumLitStates
  <1>6. LongRep(z, which, n) = CopyMatch(w, n, p) BY DEF LongRep
  <1> HIDE DEF rep, state
  <1>7. /\ w \in Decoders /\ w.rep = rep /\ w.out = z.out /\ w.kernel = z.kernel
        /\ w.outSize = z.outSize /\ w.result = z.result /\ w.state = state
    BY <1>2, <1>4, <1>5 DEF Decoders
  <1> HIDE DEF w
  <1>8. Going(w) BY <1>1, <1>7 DEF Going
  <1>9. Says(w.kernel, p) = [w.kernel EXCEPT !.queue = w.rep, !.out = Copied(@, w.rep[1], n + MatchMinLen)]
    <2>1. Says(z.kernel, p) =
            [z.kernel EXCEPT !.queue = ToFront(@, which), !.out = Copied(@, z.kernel.queue[which], n + MatchMinLen)]
      BY DEF Says
    <2>2. z.kernel.queue = z.rep BY <1>1 DEF InUse
    <2> QED BY <1>4, <1>7, <2>1, <2>2
  <1>10. p.kind \in {"match", "rep"} OBVIOUS
  <1> HIDE DEF p
  <1>11. \A k \in 1 .. 4 : z.rep[k] \in 1 .. Len(z.out) \/ z.rep[k] = 1 BY <1>1 DEF InUse
  <1>12. \A k \in 1 .. 4 : w.rep[k] \in 1 .. Len(w.out) \/ w.rep[k] = 1 BY <1>4, <1>7, <1>11
  <1>13. w.rep[1] # 0 /\ \A k \in 2 .. 4 : w.rep[k] \in 1 .. Len(w.out) \/ w.rep[k] = 1
    <2>1. 1 \in 1 .. 4 /\ \A k \in 2 .. 4 : k \in 1 .. 4 OBVIOUS
    <2>2. w.rep[1] # 0 BY <1>12, <2>1
    <2> QED BY <1>12, <2>1, <2>2
  <1>14. w.state >= NumLitStates BY <1>5, <1>7
  <1>15. LoaderInv(CopyMatch(w, n, p)) BY <1>3, <1>8, <1>9, <1>10, <1>13, <1>14, CopyMatchRight
  <1> QED BY <1>6, <1>15

(* A match at a new distance, which fits, or the mark of the end. *)
LEMMA MatchRight ==
  ASSUME LzmaWidths, NEW z, LoaderInv(z), z.result = "none", Len(z.out) < z.outSize,
         NEW slot \in Slots, NEW d \in DistancesOf(slot), NEW n \in Lengths
  PROVE  LoaderInv(Match(z, d, n))
  <1> DEFINE B == Bit(DistanceBits)
             first == (d + 1) % B
             rep == << first, z.rep[1], z.rep[2], z.rep[3] >>
             state == IF z.state < NumLitStates THEN 7 ELSE 10
             p == [kind |-> "match", distance |-> d + 1, length |-> n + MatchMinLen]
             w == [z EXCEPT !.state = state, !.rep = rep]
  <1>1. Going(z) /\ InUse(z) /\ CutOf(z) BY GoingIs DEF LoaderInv
  <1>2. z \in Decoders /\ z.rep \in [1 .. 4 -> Nat] /\ z.kernel \in Kernels /\ z.state \in 0 .. 11
    BY <1>1 DEF Going, Decoders
  <1>3. n \in Nat BY LengthsAreNumbers
  <1>4. d \in 0 .. B - 1 /\ B \in Nat \ {0}
    <2>1. d \in 0 .. B - 1 BY DistancesFit
    <2>2. DistanceBits \in Nat BY DEF LzmaWidths
    <2> QED BY <2>1, <2>2, Shifts
  <1>5. (d + 1 < B /\ first = d + 1) \/ (d + 1 = B /\ first = 0)
    <2> HIDE DEF B
    <2>1. CASE d + 1 < B
      <3>1. d + 1 \in 0 .. B - 1 /\ 0 * B + (d + 1) = d + 1 /\ 0 \in Int BY <1>4, <2>1
      <3> DEFINE i == d + 1
      <3>2. i \in 0 .. B - 1 /\ 0 * B + i = i BY <3>1
      <3> HIDE DEF i
      <3>3. (0 * B + i) % B = i BY <1>4, <3>1, <3>2, Division
      <3> QED BY <2>1, <3>2, <3>3 DEF i
    <2>2. CASE ~ (d + 1 < B)
      <3>1. d + 1 = 1 * B + 0 /\ d + 1 = B /\ 0 \in 0 .. B - 1 /\ 1 \in Int BY <1>4, <2>2
      <3>2. (1 * B + 0) % B = 0 BY <1>4, <3>1, Division
      <3> QED BY <3>1, <3>2
    <2> QED BY <2>1, <2>2
  <1>6. first \in Nat BY <1>4, <1>5
  <1>7. NewDistance(z, d) = w BY DEF NewDistance
  <1> HIDE DEF first, B
  <1>8. rep \in [1 .. 4 -> Nat] /\ rep[1] = first /\ rep[2] = z.rep[1] /\ rep[3] = z.rep[2] /\ rep[4] = z.rep[3]
        /\ rep = [k \in 1 .. 4 |-> rep[k]]
    <2>1. z.rep[1] \in Nat /\ z.rep[2] \in Nat /\ z.rep[3] \in Nat BY <1>2
    <2> QED BY <1>6, <2>1
  <1>9. state \in 0 .. 11 /\ state >= NumLitStates BY DEF NumLitStates
  <1> HIDE DEF rep, state
  <1>10. /\ w \in Decoders /\ w.rep = rep /\ w.out = z.out /\ w.kernel = z.kernel
         /\ w.outSize = z.outSize /\ w.result = z.result /\ w.state = state
    BY <1>2, <1>8, <1>9 DEF Decoders
  <1> HIDE DEF w
  <1>11. CASE first = 0
    <2>1. Match(z, d, n) = Stop(w, "OK") BY <1>7, <1>8, <1>10, <1>11 DEF Match, MatchAt
    <2>2. CutOf(w) BY <1>1, <1>10 DEF CutOf
    <2> QED BY <1>10, <2>1, <2>2, StopRight
  <1>12. CASE first # 0
    <2>1. Match(z, d, n) = CopyMatch(w, n, p) BY <1>7, <1>8, <1>10, <1>12 DEF Match, MatchAt
    <2>2. first = d + 1 BY <1>5, <1>12
    <2>3. Going(w) BY <1>1, <1>10 DEF Going
    <2>4. Pushed(z.rep, d + 1) = rep
      <3> DEFINE q == Pushed(z.rep, d + 1)
      <3>1. q = [k \in 1 .. 4 |-> IF k = 1 THEN d + 1 ELSE z.rep[k - 1]] BY DEF Pushed
      <3>2. q[1] = d + 1 /\ q[2] = z.rep[1] /\ q[3] = z.rep[2] /\ q[4] = z.rep[3] BY <3>1
      <3>3. q = [k \in 1 .. 4 |-> q[k]] BY <3>1
      <3> HIDE DEF q
      <3>4. \A k \in 1 .. 4 : k = 1 \/ k = 2 \/ k = 3 \/ k = 4 OBVIOUS
      <3>5. \A k \in 1 .. 4 : q[k] = rep[k] BY <1>8, <2>2, <3>2, <3>4
      <3>6. q = rep BY <1>8, <3>3, <3>5
      <3> QED BY <3>6 DEF q
    <2>5. Says(w.kernel, p) = [w.kernel EXCEPT !.queue = w.rep, !.out = Copied(@, w.rep[1], n + MatchMinLen)]
      <3>1. Says(z.kernel, p) =
              [z.kernel EXCEPT !.queue = Pushed(@, d + 1), !.out = Copied(@, d + 1, n + MatchMinLen)]
        BY DEF Says
      <3>2. z.kernel.queue = z.rep BY <1>1 DEF InUse
      <3> QED BY <1>8, <1>10, <2>2, <2>4, <3>1, <3>2
    <2>6. p.kind \in {"match", "rep"} OBVIOUS
    <2> HIDE DEF p
    <2>7. w.rep[1] # 0 /\ \A k \in 2 .. 4 : w.rep[k] \in 1 .. Len(w.out) \/ w.rep[k] = 1
      <3>1. \A k \in 1 .. 4 : z.rep[k] \in 1 .. Len(z.out) \/ z.rep[k] = 1 BY <1>1 DEF InUse
      <3>2. \A k \in 2 .. 4 : k = 2 \/ k = 3 \/ k = 4 OBVIOUS
      <3>3. 1 \in 1 .. 4 /\ 2 \in 1 .. 4 /\ 3 \in 1 .. 4 OBVIOUS
      <3>4. \A k \in 2 .. 4 : rep[k] \in 1 .. Len(z.out) \/ rep[k] = 1 BY <1>8, <3>1, <3>2, <3>3
      <3> QED BY <1>8, <1>10, <1>12, <3>4
    <2>8. w.state >= NumLitStates BY <1>9, <1>10
    <2>9. LoaderInv(CopyMatch(w, n, p)) BY <1>3, <2>3, <2>5, <2>6, <2>7, <2>8, CopyMatchRight
    <2> QED BY <2>1, <2>9
  <1> QED BY <1>11, <1>12

(* It starts so. *)
LEMMA LoaderStarts == ASSUME LzmaWidths, LzmaInit PROVE LoaderInv(lz)
  <1>1. PICK size \in Sizes :
          lz = [state |-> 0, rep |-> FirstReps, out |-> <<>>, outSize |-> size, result |-> "none",
                kernel |-> NoPackets, strayed |-> FALSE, jumped |-> FALSE]
    BY DEF LzmaInit
  <1>2. size \in Nat BY DEF LzmaWidths
  <1>3. FirstReps \in [1 .. 4 -> Nat] /\ \A k \in 1 .. 4 : FirstReps[k] = 1 BY DEF FirstReps
  <1>4. <<>> \in Outs /\ Len(<<>>) = 0 /\ SubSeq(<<>>, 1, 0) = <<>> BY DEF Outs
  <1>5. NoPackets \in Kernels /\ NoPackets.queue = FirstReps /\ NoPackets.out = <<>> /\ NoPackets.last = "none"
    BY <1>3, <1>4 DEF NoPackets, Kernels
  <1>6. /\ lz.rep = FirstReps /\ lz.out = <<>> /\ lz.kernel = NoPackets /\ lz.outSize = size /\ lz.state = 0
    BY <1>1
  <1>7. lz \in Decoders BY <1>1, <1>2, <1>3, <1>4, <1>5 DEF Decoders
  <1>8. CutOf(lz) BY <1>2, <1>4, <1>5, <1>6 DEF CutOf
  <1>9. InUse(lz) BY <1>3, <1>5, <1>6 DEF InUse, NumLitStates
  <1> QED BY <1>7, <1>8, <1>9 DEF LoaderInv

(* Every round of the loop keeps it so. *)
LEMMA LoaderGoesOn == ASSUME LzmaWidths, LoaderInv(lz), [LzmaNext]_lz PROVE LoaderInv(lz')
  <1>1. CASE DecodeLiteral
    <2>1. lz.kernel.count \in Nat BY DEF LoaderInv, Decoders, Kernels
    <2> QED BY <1>1, <2>1, LiteralRight DEF DecodeLiteral, Decoding, NowPos
  <1>2. CASE DecodeShortRep
    BY <1>2, ShortRepRight DEF DecodeShortRep, Decoding, NowPos
  <1>3. CASE DecodeLongRep
    BY <1>3, LongRepRight DEF DecodeLongRep, Decoding, NowPos
  <1>4. CASE DecodeMatch
    BY <1>4, MatchRight DEF DecodeMatch, Decoding, NowPos
  <1>5. CASE DecodeEnd
    <2>1. lz \in Decoders /\ CutOf(lz) BY DEF LoaderInv
    <2>2. lz' = Stop(lz, "OK") BY <1>5 DEF DecodeEnd
    <2> QED BY <2>1, <2>2, StopRight
  <1>6. CASE Jump
    <2>1. lz.result = "OK" /\ lz' = [lz EXCEPT !.jumped = TRUE] BY <1>6 DEF Jump
    <2>2. lz \in Decoders /\ CutOf(lz) BY DEF LoaderInv
    <2>3. /\ lz' \in Decoders /\ lz'.out = lz.out /\ lz'.outSize = lz.outSize /\ lz'.kernel = lz.kernel
          /\ lz'.result = "OK"
      BY <2>1, <2>2 DEF Decoders
    <2>4. CutOf(lz') BY <2>2, <2>3 DEF CutOf
    <2> QED BY <2>3, <2>4 DEF LoaderInv
  <1>7. CASE UNCHANGED lz BY <1>7
  <1> QED BY <1>1, <1>2, <1>3, <1>4, <1>5, <1>6, <1>7 DEF LzmaNext

(* What the properties say of it. *)
LEMMA LoaderTold == LoaderInv(lz) => LoadedAsTold
  <1> SUFFICES ASSUME LoaderInv(lz) PROVE LoadedAsTold OBVIOUS
  <1>1. lz \in Decoders /\ CutOf(lz) BY DEF LoaderInv
  <1>2. lz.out \in Outs /\ lz.strayed = FALSE BY <1>1 DEF Decoders
  <1>3. OnlyWritten
    <2>1. \A i \in 1 .. Len(lz.out) : lz.out[i] \in Nat BY <1>2, BytesOfOut
    <2> QED BY <1>2, <2>1 DEF OnlyWritten, NowPos, NotWritten
  <1>4. OutputOfPackets BY DEF LoaderInv, CutOf, InUse, OutputOfPackets, NowPos
  <1>5. StateTellsLast BY DEF LoaderInv, InUse, StateTellsLast
  <1> QED BY <1>3, <1>4, <1>5 DEF LoadedAsTold

(* For every width of the trees, and whatever packets the stream holds: no  *)
(* byte is copied that was not written, though a distance is not checked   *)
(* again when it is remembered; what is written is what the packets say;   *)
(* the state tells whether the last was a literal (LzmaDecode, entry).     *)
THEOREM KernelIsLoaded == LzmaWidths => (LzmaSpec => []LoadedAsTold)
  <1> SUFFICES ASSUME LzmaWidths PROVE LzmaSpec => []LoadedAsTold OBVIOUS
  <1>1. LzmaInit => LoaderInv(lz) BY LoaderStarts
  <1>2. LoaderInv(lz) /\ [LzmaNext]_lz => LoaderInv(lz)' BY LoaderGoesOn
  <1>3. LoaderInv(lz) => LoadedAsTold BY LoaderTold
  <1> QED BY <1>1, <1>2, <1>3, PTL DEF LzmaSpec

(***************************************************************************)
(* inputbox.c and the field of nconf.gui.c.  The text is what was typed,   *)
(* and the field shows the part of it that the cursor is in.               *)
(***************************************************************************)
(* A text that is cut at the cursor: l is what is left of it, r what is    *)
(* right of it.                                                            *)
LEMMA CutLeft ==
  ASSUME NEW S, NEW l \in Seq(S), NEW r \in Seq(S)
  PROVE  /\ l \o r \in Seq(S) /\ Len(l \o r) = Len(l) + Len(r)
         /\ SubSeq(l \o r, 1, Len(l)) = l
         /\ SubSeq(l \o r, Len(l) + 1, Len(l \o r)) = r
<1> DEFINE t == l \o r
<1>1. /\ t \in Seq(S) /\ Len(t) = Len(l) + Len(r) /\ Len(l) \in Nat /\ Len(r) \in Nat
      /\ \A i \in 1 .. Len(l) + Len(r) : t[i] = IF i <= Len(l) THEN l[i] ELSE r[i - Len(l)]
  BY ConcatProperties, LenProperties
<1> HIDE DEF t
<1>2. \A i \in 1 .. Len(t) : t[i] \in S BY <1>1, ElementOfSeq
<1> DEFINE a == SubSeq(t, 1, Len(l))
           b == SubSeq(t, Len(l) + 1, Len(t))
<1>3. /\ a \in Seq(S) /\ Len(a) = Len(l) /\ \A i \in 1 .. Len(l) : a[i] = t[i]
  <2>1. 1 \in Int /\ Len(l) \in Int /\ \A i \in 1 .. Len(l) : t[i] \in S BY <1>1, <1>2
  <2>2. /\ a \in Seq(S) /\ Len(a) = IF 1 <= Len(l) THEN Len(l) - 1 + 1 ELSE 0
        /\ \A i \in 1 .. Len(l) - 1 + 1 : a[i] = t[1 + i - 1]
    BY <2>1, SubSeqProperties
  <2> HIDE DEF a
  <2>3. \A i \in 1 .. Len(l) : i \in 1 .. Len(l) - 1 + 1 /\ 1 + i - 1 = i BY <1>1
  <2> QED BY <1>1, <2>2, <2>3
<1>4. /\ b \in Seq(S) /\ Len(b) = Len(r) /\ \A i \in 1 .. Len(r) : b[i] = t[Len(l) + i]
  <2>1. Len(l) + 1 \in Int /\ Len(t) \in Int /\ \A i \in Len(l) + 1 .. Len(t) : t[i] \in S
    BY <1>1, <1>2
  <2>2. /\ b \in Seq(S)
        /\ Len(b) = IF Len(l) + 1 <= Len(t) THEN Len(t) - (Len(l) + 1) + 1 ELSE 0
        /\ \A i \in 1 .. Len(t) - (Len(l) + 1) + 1 : b[i] = t[Len(l) + 1 + i - 1]
    BY <2>1, SubSeqProperties
  <2> HIDE DEF b
  <2>3. Len(t) - (Len(l) + 1) + 1 = Len(r) /\ (Len(l) + 1 <= Len(t) <=> Len(r) > 0) BY <1>1
  <2>4. Len(b) = Len(r) BY <1>1, <2>2, <2>3
  <2>5. ASSUME NEW i \in 1 .. Len(r) PROVE b[i] = t[Len(l) + i]
    <3>1. b[i] = t[Len(l) + 1 + i - 1] BY <2>2, <2>3
    <3>2. Len(l) + 1 + i - 1 = Len(l) + i BY <1>1
    <3> QED BY <3>1, <3>2
  <2> QED BY <2>2, <2>4, <2>5
<1> HIDE DEF a, b
<1>5. a = l
  <2>1. \A i \in 1 .. Len(a) : a[i] = l[i] BY <1>1, <1>3
  <2> QED BY <1>3, <2>1, SeqEqual
<1>6. b = r
  <2>1. ASSUME NEW i \in 1 .. Len(b) PROVE b[i] = r[i]
    <3>1. i \in 1 .. Len(r) /\ Len(l) + i \in 1 .. Len(l) + Len(r) BY <1>1, <1>4
    <3>2. ~(Len(l) + i <= Len(l)) /\ (Len(l) + i) - Len(l) = i BY <1>1, <3>1
    <3>3. t[Len(l) + i] = r[(Len(l) + i) - Len(l)] BY <1>1, <3>1, <3>2
    <3> QED BY <1>4, <3>1, <3>2, <3>3
  <2> QED BY <1>4, <2>1, SeqEqual
<1> QED BY <1>1, <1>5, <1>6 DEF a, b, t

(* The last character of what is left of the cursor, and the first right of it. *)
LEMMA LastApart ==
  ASSUME NEW S, NEW l \in Seq(S), l # <<>>
  PROVE  /\ Front(l) \in Seq(S) /\ Len(Front(l)) = Len(l) - 1 /\ Last(l) \in S
         /\ l = Front(l) \o <<Last(l)>>
<1>1. Len(l) \in Nat \ {0} BY EmptySeq
<1>2. Len(l) \in 1 .. Len(l) /\ 1 \in 1 .. Len(l) BY <1>1
<1>3. SubSeq(l, 1, Len(l)) = SubSeq(l, 1, Len(l) - 1) \o <<l[Len(l)]>>
  BY <1>2, SubSeqRecursiveSecond
<1>4. SubSeq(l, 1, Len(l)) = l BY SubSeqFull
<1>5. Last(l) \in S BY <1>2, ElementOfSeq DEF Last
<1>6. SubSeq(l, 1, Len(l) - 1) \in Seq(S) /\ Len(SubSeq(l, 1, Len(l) - 1)) = Len(l) - 1
  <2>1. \A i \in 1 .. Len(l) - 1 : l[i] \in S BY <1>1, ElementOfSeq
  <2>2. 1 \in Int /\ Len(l) - 1 \in Int BY <1>1
  <2>3. /\ SubSeq(l, 1, Len(l) - 1) \in Seq(S)
        /\ Len(SubSeq(l, 1, Len(l) - 1)) = IF 1 <= Len(l) - 1 THEN Len(l) - 1 - 1 + 1 ELSE 0
    BY <2>1, <2>2, SubSeqProperties
  <2>4. ASSUME NEW n \in Nat \ {0} PROVE (IF 1 <= n - 1 THEN n - 1 - 1 + 1 ELSE 0) = n - 1
    <3>1. CASE n = 1 BY <3>1
    <3>2. CASE n > 1 BY <3>2
    <3> QED BY <3>1, <3>2
  <2>5. (IF 1 <= Len(l) - 1 THEN Len(l) - 1 - 1 + 1 ELSE 0) = Len(l) - 1 BY <1>1, <2>4
  <2> QED BY <2>3, <2>5
<1> QED BY <1>3, <1>4, <1>5, <1>6 DEF Front, Last

(* The first character of what is right of the cursor, and the rest. *)
LEMMA FirstApart ==
  ASSUME NEW S, NEW r \in Seq(S), r # <<>>
  PROVE  /\ Head(r) \in S /\ Tail(r) \in Seq(S) /\ Len(Tail(r)) = Len(r) - 1
         /\ r = <<Head(r)>> \o Tail(r)
<1>1. Len(r) \in Nat \ {0} BY EmptySeq
<1>2. 1 \in 1 .. Len(r) /\ Len(r) \in 1 .. Len(r) BY <1>1
<1>3. Head(r) \in S /\ Tail(r) \in Seq(S) /\ Len(Tail(r)) = Len(r) - 1 BY HeadTailProperties
<1>4. SubSeq(r, 1, Len(r)) = <<r[1]>> \o SubSeq(r, 1 + 1, Len(r))
  BY <1>2, SubSeqRecursiveFirst
<1>5. SubSeq(r, 1, Len(r)) = r BY SubSeqFull
<1>6. Tail(r) = SubSeq(r, 2, Len(r)) BY TailIsSubSeq
<1>7. Head(r) = r[1] OBVIOUS
<1> QED BY <1>3, <1>4, <1>5, <1>6, <1>7

(* What the edits make of the text. *)
LEMMA OneIs == ASSUME NEW S, NEW c \in S PROVE <<c>> \in Seq(S) /\ Len(<<c>>) = 1
OBVIOUS

(* A character put in at the cursor joins what is left of it. *)
LEMMA WithIs ==
  ASSUME NEW S, NEW l \in Seq(S), NEW r \in Seq(S), NEW c \in S
  PROVE  With(l \o r, Len(l), c) = Append(l, c) \o r /\ Append(l, c) \in Seq(S)
         /\ Len(Append(l, c)) = Len(l) + 1
<1>4. /\ SubSeq(l \o r, 1, Len(l)) = l
      /\ SubSeq(l \o r, Len(l) + 1, Len(l \o r)) = r
  BY CutLeft
<1>1. With(l \o r, Len(l), c) = l \o <<c>> \o r BY <1>4 DEF With, FirstOf, From
<1>2. Append(l, c) = l \o <<c>> BY AppendIsConcat
<1>3. Append(l, c) \in Seq(S) /\ Len(Append(l, c)) = Len(l) + 1 BY AppendProperties
<1> QED BY <1>1, <1>2, <1>3

(* A character taken out is missed by nothing else. *)
LEMMA RemoveIs ==
  ASSUME NEW S, NEW l \in Seq(S), NEW r \in Seq(S), NEW c \in S
  PROVE  RemoveAt(l \o (<<c>> \o r), Len(l) + 1) = l \o r
<1> DEFINE t == l \o (<<c>> \o r)
           k == l \o <<c>>
<1>1. <<c>> \in Seq(S) /\ Len(<<c>>) = 1 /\ <<c>> \o r \in Seq(S) BY OneIs, CutLeft
<1>2. SubSeq(t, 1, Len(l)) = l BY <1>1, CutLeft
<1>3. t = k \o r BY <1>1, ConcatAssociative
<1>4. k \in Seq(S) /\ Len(k) = Len(l) + 1 BY <1>1, CutLeft
<1> HIDE DEF k, t
<1>5. SubSeq(t, Len(k) + 1, Len(t)) = r BY <1>3, <1>4, CutLeft
<1>6. Len(l) \in Nat BY LenProperties
<1>7. (Len(l) + 1) - 1 = Len(l) /\ (Len(l) + 1) + 1 = Len(k) + 1 BY <1>4, <1>6
<1> QED BY <1>2, <1>5, <1>7 DEF RemoveAt, t

(* The one left of the cursor is the last there. *)
LEMMA WithoutIs ==
  ASSUME NEW S, NEW l \in Seq(S), NEW r \in Seq(S), l # <<>>
  PROVE  Without(l \o r, Len(l)) = Front(l) \o r
<1> DEFINE f == Front(l)
           c == Last(l)
<1>1. f \in Seq(S) /\ Len(f) = Len(l) - 1 /\ c \in S /\ l = f \o <<c>> BY LastApart
<1> HIDE DEF f, c
<1>2. <<c>> \in Seq(S) BY <1>1, OneIs
<1>3. l \o r = f \o (<<c>> \o r) BY <1>1, <1>2, ConcatAssociative
<1>4. Len(l) \in Nat BY LenProperties
<1>5. Len(l) = Len(f) + 1 BY <1>1, <1>4
<1>6. RemoveAt(f \o (<<c>> \o r), Len(f) + 1) = f \o r BY <1>1, RemoveIs
<1> QED BY <1>3, <1>5, <1>6 DEF Without, f

(* The one right of the cursor is the first there. *)
LEMMA DeleteIs ==
  ASSUME NEW S, NEW l \in Seq(S), NEW r \in Seq(S), r # <<>>
  PROVE  RemoveAt(l \o r, Len(l) + 1) = l \o Tail(r)
<1>1. Head(r) \in S /\ Tail(r) \in Seq(S) /\ r = <<Head(r)>> \o Tail(r) BY FirstApart
<1>2. RemoveAt(l \o (<<Head(r)>> \o Tail(r)), Len(l) + 1) = l \o Tail(r) BY <1>1, RemoveIs
<1> QED BY <1>1, <1>2

(* The cursor goes left, and the text stays. *)
LEMMA LeftIs ==
  ASSUME NEW S, NEW l \in Seq(S), NEW r \in Seq(S), l # <<>>
  PROVE  /\ l \o r = Front(l) \o (<<Last(l)>> \o r)
         /\ <<Last(l)>> \o r \in Seq(S)
<1>1. Front(l) \in Seq(S) /\ Last(l) \in S /\ l = Front(l) \o <<Last(l)>> BY LastApart
<1>2. <<Last(l)>> \in Seq(S) BY <1>1, OneIs
<1>3. (Front(l) \o <<Last(l)>>) \o r = Front(l) \o (<<Last(l)>> \o r)
  BY <1>1, <1>2, ConcatAssociative, SMTT(30)
<1>4. <<Last(l)>> \o r \in Seq(S) BY <1>2, CutLeft
<1> QED BY <1>1, <1>3, <1>4

(* The cursor goes right, and the text stays. *)
LEMMA RightIs ==
  ASSUME NEW S, NEW l \in Seq(S), NEW r \in Seq(S), r # <<>>
  PROVE  l \o r = Append(l, Head(r)) \o Tail(r)
<1>1. Head(r) \in S /\ Tail(r) \in Seq(S) /\ r = <<Head(r)>> \o Tail(r) BY FirstApart
<1>2. <<Head(r)>> \in Seq(S) BY <1>1, OneIs
<1>3. Append(l, Head(r)) = l \o <<Head(r)>> BY <1>1, AppendIsConcat
<1>4. (l \o <<Head(r)>>) \o Tail(r) = l \o (<<Head(r)>> \o Tail(r))
  BY <1>1, <1>2, ConcatAssociative
<1> QED BY <1>1, <1>3, <1>4

(* What is typed is a character of a text. *)
LEMMA TypedAreCharacters == Printable \subseteq Characters
BY DEF Characters

Cells == [1 .. Width -> Characters \cup {" "}]
Editor ==
  [kind : {"lx", "nconf"}, text : Seq(Characters), pos : Int, show : Int, x : Int,
   field : Cells \cup {<<>>}, focus : Int, result : Int, left : Seq(Characters),
   right : Seq(Characters)]

(* The field shows the text from one place on, with the cursor in it. *)
InPlace(z) ==
  /\ z.show \in Nat /\ z.x \in 0 .. Width - 1 /\ z.pos = z.show + z.x
Cell(text, at) == IF at <= Len(text) THEN text[at] ELSE " "
ShowsText(z) ==
  z.field \in Cells /\ \A i \in 1 .. Width : z.field[i] = Cell(z.text, z.show + i)
View(z) == InPlace(z) /\ ShowsText(z)

(* What a key that edits leaves alone. *)
SameLine(z, e) ==
  /\ e.kind = z.kind /\ e.left = z.left /\ e.right = z.right
  /\ e.focus = z.focus /\ e.result = z.result

(* Blanks where the loop that draws the field does not come. *)
BlankBehind(z) ==
  z.field \in Cells /\ \A i \in 1 .. Width : z.show + i > Len(z.text) + 1 => z.field[i] = " "

(* The field as the loop draws it, on blanks behind the text. *)
LEMMA DrawIs ==
  ASSUME LineSizes, NEW z \in Editor, InPlace(z), BlankBehind(z)
  PROVE  LET e == Draw(z)
         IN /\ e \in Editor /\ View(e) /\ SameLine(z, e) /\ e.text = z.text /\ e.pos = z.pos
<1> DEFINE e == Draw(z)
           f == [i \in 1 .. Width |-> FieldAt(z, i)]
<1>1. z.show \in Nat /\ Len(z.text) \in Nat /\ Width \in Nat
  BY LenProperties DEF InPlace, Editor, LineSizes
<1>2. ASSUME NEW i \in 1 .. Width
      PROVE  /\ f[i] = Cell(z.text, z.show + i)
             /\ f[i] \in Characters \cup {" "}
  <2> DEFINE n == Len(z.text)
             k == z.show + i
  <2>1. n \in Nat /\ k \in Nat \ {0} BY <1>1
  <2>2. f[i] = FieldAt(z, i) OBVIOUS
  <2>3. FieldAt(z, i) = CASE k <= n -> z.text[k] [] k = n + 1 -> " " [] k > n + 1 -> z.field[i]
    BY DEF FieldAt
  <2>4. k > n + 1 => z.field[i] = " " BY DEF BlankBehind
  <2>5. k <= n => z.text[k] \in Characters
    <3>1. z.text \in Seq(Characters) BY DEF Editor
    <3>2. k <= n => k \in 1 .. n BY <2>1
    <3> QED BY <3>1, <3>2, ElementOfSeq
  <2> HIDE DEF n, k, f
  <2>6. CASE k <= n
    <3>1. ~(k = n + 1) /\ ~(k > n + 1) BY <2>1, <2>6
    <3>2. f[i] = z.text[k] BY <2>2, <2>3, <2>6, <3>1
    <3> QED BY <2>5, <2>6, <3>2 DEF Cell, k, n
  <2>7. CASE k = n + 1
    <3>1. ~(k <= n) /\ ~(k > n + 1) BY <2>1, <2>7
    <3>2. f[i] = " " BY <2>2, <2>3, <2>7, <3>1
    <3> QED BY <3>1, <3>2 DEF Cell, k, n
  <2>8. CASE k > n + 1
    <3>1. ~(k <= n) /\ ~(k = n + 1) BY <2>1, <2>8
    <3>2. f[i] = " " BY <2>2, <2>3, <2>4, <2>8, <3>1
    <3> QED BY <3>1, <3>2 DEF Cell, k, n
  <2>9. k <= n \/ k = n + 1 \/ k > n + 1 BY <2>1
  <2> QED BY <2>6, <2>7, <2>8, <2>9, Zenon
<1>3. f \in Cells BY <1>2 DEF Cells
<1>4. e = [z EXCEPT !.field = f] BY DEF Draw
<1> HIDE DEF e, f
<1>5. e \in Editor BY <1>3, <1>4 DEF Editor
<1>6. /\ e.field = f /\ e.text = z.text /\ e.pos = z.pos /\ e.show = z.show /\ e.x = z.x
      /\ SameLine(z, e)
  BY <1>4 DEF Editor, SameLine
<1>7. ShowsText(e)
  <2>1. \A i \in 1 .. Width :
          f[i] = Cell(z.text, z.show + i)
    BY <1>2
  <2>2. e.field \in Cells BY <1>3, <1>6
  <2>3. \A i \in 1 .. Width :
          e.field[i] = Cell(e.text, e.show + i)
    BY <1>6, <2>1
  <2> QED BY <2>2, <2>3 DEF ShowsText
<1>8. InPlace(e) BY <1>6 DEF InPlace
<1> QED BY <1>5, <1>6, <1>7, <1>8 DEF e, View

(* The field as it is drawn on blanks. *)
LEMMA BlankIs ==
  ASSUME LineSizes, NEW z \in Editor, InPlace(z)
  PROVE  LET e == Draw(Blank(z))
         IN /\ e \in Editor /\ View(e) /\ SameLine(z, e) /\ e.text = z.text /\ e.pos = z.pos
<1> DEFINE b == Blank(z)
           e == Draw(b)
           f == [i \in 1 .. Width |-> " "]
<1>1. f \in Cells BY DEF Cells
<1>2. b = [z EXCEPT !.field = f] BY DEF Blank
<1>3. \A i \in 1 .. Width : f[i] = " " OBVIOUS
<1> HIDE DEF b, f
<1>4. b \in Editor BY <1>1, <1>2 DEF Editor
<1>5. /\ b.field = f /\ b.text = z.text /\ b.pos = z.pos /\ b.show = z.show /\ b.x = z.x
      /\ SameLine(z, b)
  BY <1>2 DEF Editor, SameLine
<1>6. InPlace(b) /\ BlankBehind(b) BY <1>1, <1>3, <1>5 DEF InPlace, BlankBehind
<1>7. e \in Editor /\ View(e) /\ SameLine(b, e) /\ e.text = b.text /\ e.pos = b.pos
  BY <1>4, <1>6, DrawIs
<1> HIDE DEF e
<1>8. e \in Editor /\ View(e) /\ SameLine(z, e) /\ e.text = z.text /\ e.pos = z.pos
  BY <1>5, <1>7 DEF SameLine
<1> QED BY <1>8 DEF e, b

(* The text is what the keys have put to both sides of the cursor. *)
Typed(z) ==
  /\ z \in Editor /\ z.text = z.left \o z.right /\ z.pos = Len(z.left)
  /\ z.kind = "lx" => Len(z.text) <= MaxLen

(* Opening puts the cursor behind the text. *)
LEMMA OpenLxIs ==
  ASSUME LineSizes, NEW z \in Editor
  PROVE  LET e == OpenLx(z)
         IN /\ e \in Editor /\ View(e) /\ SameLine(z, e) /\ e.text = z.text
            /\ e.pos = Len(z.text)
<1> DEFINE p == PlaceLx(z)
           n == Len(z.text)
<1>1. n \in Nat /\ Width \in Nat \ {0} BY LenProperties DEF Editor, LineSizes
<1> HIDE DEF n
<1>2. p \in Editor /\ InPlace(p) /\ SameLine(z, p) /\ p.text = z.text /\ p.pos = n
  <2>1. CASE n >= Width
    <3>1. p = [z EXCEPT !.show = n - Width + 1, !.x = Width - 1, !.pos = n]
      BY <2>1 DEF PlaceLx, n
    <3>2. n - Width + 1 \in Nat /\ Width - 1 \in 0 .. Width - 1 /\ n \in Int
          /\ n = (n - Width + 1) + (Width - 1)
      BY <1>1, <2>1
    <3> HIDE DEF p
    <3>6. n - Width + 1 \in Int /\ Width - 1 \in Int BY <1>1
    <3>3. p \in Editor BY <3>1, <3>2, <3>6 DEF Editor
    <3>4. p.show = n - Width + 1 /\ p.x = Width - 1 /\ p.pos = n BY <3>1 DEF Editor
    <3>5. SameLine(z, p) /\ p.text = z.text BY <3>1 DEF Editor, SameLine
    <3> QED BY <3>2, <3>3, <3>4, <3>5 DEF InPlace
  <2>2. CASE ~(n >= Width)
    <3>1. p = [z EXCEPT !.show = 0, !.x = n, !.pos = n] BY <2>2 DEF PlaceLx, n
    <3>2. n \in 0 .. Width - 1 /\ n \in Int /\ n = 0 + n BY <1>1, <2>2
    <3> HIDE DEF p
    <3>6. 0 \in Int OBVIOUS
    <3>3. p \in Editor BY <3>1, <3>2, <3>6 DEF Editor
    <3>4. p.show = 0 /\ p.x = n /\ p.pos = n BY <3>1 DEF Editor
    <3>5. SameLine(z, p) /\ p.text = z.text BY <3>1 DEF Editor, SameLine
    <3> QED BY <3>2, <3>3, <3>4, <3>5 DEF InPlace
  <2> QED BY <2>1, <2>2
<1> HIDE DEF p
<1> DEFINE e == Draw(Blank(p))
<1>3. e \in Editor /\ View(e) /\ SameLine(p, e) /\ e.text = p.text /\ e.pos = p.pos
  BY <1>2, BlankIs
<1> HIDE DEF e
<1>4. e \in Editor /\ View(e) /\ SameLine(z, e) /\ e.text = z.text /\ e.pos = n
  BY <1>2, <1>3 DEF SameLine
<1> QED BY <1>4 DEF OpenLx, e, p, n

(* nconf draws the field from wherever the cursor must be to stay in it. *)
LEMMA DrawNconfIs ==
  ASSUME LineSizes, NEW z \in Editor, z.pos \in Nat, z.x <= z.pos
  PROVE  LET e == DrawNconf(z)
         IN /\ e \in Editor /\ View(e) /\ SameLine(z, e) /\ e.text = z.text /\ e.pos = z.pos
<1> DEFINE p == [z EXCEPT !.x = Clamp(z.x), !.show = z.pos - Clamp(z.x)]
<1>1. z.x \in Int /\ Width \in Nat \ {0} BY DEF Editor, LineSizes
<1>2. Clamp(z.x) \in 0 .. Width - 1 /\ Clamp(z.x) <= z.pos /\ Clamp(z.x) \in Int
  BY <1>1 DEF Clamp, Shorter
<1>3. z.pos - Clamp(z.x) \in Nat /\ z.pos = (z.pos - Clamp(z.x)) + Clamp(z.x) BY <1>2
<1>11. z.pos - Clamp(z.x) \in Int BY <1>3
<1>4. p \in Editor BY <1>2, <1>11 DEF Editor
<1>5. p.show = z.pos - Clamp(z.x) /\ p.x = Clamp(z.x) /\ p.pos = z.pos BY DEF Editor
<1>6. SameLine(z, p) /\ p.text = z.text BY DEF Editor, SameLine
<1>7. DrawNconf(z) = Draw(Blank(p)) BY DEF DrawNconf, Editor
<1> HIDE DEF p
<1>8. InPlace(p) BY <1>2, <1>3, <1>5 DEF InPlace
<1> DEFINE e == Draw(Blank(p))
<1>9. e \in Editor /\ View(e) /\ SameLine(p, e) /\ e.text = p.text /\ e.pos = p.pos
  BY <1>4, <1>8, BlankIs
<1> HIDE DEF e
<1>10. e \in Editor /\ View(e) /\ SameLine(z, e) /\ e.text = z.text /\ e.pos = z.pos
  BY <1>5, <1>6, <1>9 DEF SameLine
<1> QED BY <1>7, <1>10 DEF e

Sided(z, l, r, e) ==
  /\ e \in Editor /\ e.left = l /\ e.right = r
  /\ e.kind = z.kind /\ e.text = z.text /\ e.pos = z.pos /\ e.show = z.show
  /\ e.x = z.x /\ e.field = z.field /\ e.focus = z.focus /\ e.result = z.result

(* What a key means changes the two sides alone. *)
LEMMA SidesIs ==
  ASSUME NEW z \in Editor, NEW l \in Seq(Characters), NEW r \in Seq(Characters)
  PROVE  Sided(z, l, r, Sides(z, l, r))
<1> DEFINE e == Sides(z, l, r)
<1>1. e = [z EXCEPT !.left = l, !.right = r] BY DEF Sides
<1> HIDE DEF e
<1>2. Sided(z, l, r, e) BY <1>1 DEF Sided, Editor
<1> QED BY <1>2 DEF e

(* The text and the place in it, changed. *)
Edited(z, e, text, pos) ==
  /\ e \in Editor /\ SameLine(z, e) /\ e.text = text /\ e.pos = pos
  /\ e.show = z.show /\ e.x = z.x /\ e.field = z.field

(* An edit changes the text and the place alone. *)
LEMMA EditIs ==
  ASSUME NEW z \in Editor, NEW text \in Seq(Characters), NEW pos \in Int
  PROVE  Edited(z, [z EXCEPT !.text = text, !.pos = pos], text, pos)
<1> DEFINE e == [z EXCEPT !.text = text, !.pos = pos]
<1>1. e \in Editor BY DEF Editor
<1>2. e.text = text /\ e.pos = pos BY DEF Editor
<1>3. e.show = z.show /\ e.x = z.x /\ e.field = z.field BY DEF Editor
<1>4. SameLine(z, e) BY DEF Editor, SameLine
<1> HIDE DEF e
<1>5. Edited(z, e, text, pos) BY <1>1, <1>2, <1>3, <1>4 DEF Edited
<1> QED BY <1>5 DEF e

(* The cursor of lxdialog a place back or forth: in the field, or with it. *)
Stepped(z, e, by) ==
  /\ e \in Editor /\ SameLine(z, e) /\ e.text = z.text /\ e.pos = z.pos /\ e.field = z.field
  /\ e.show \in Nat /\ e.x \in 0 .. Width - 1 /\ e.show + e.x = z.show + z.x + by
  /\ e.show \in {z.show, z.show + by}

(* A place back: the cursor in the field, or the field. *)
LEMMA BackXIs ==
  ASSUME LineSizes, NEW z \in Editor, z.show \in Nat, z.x \in 0 .. Width - 1, z.show + z.x > 0
  PROVE  Stepped(z, BackX(z), -1) /\ (z.x > 0 => BackX(z).show = z.show)
<1> DEFINE e == BackX(z)
<1>1. Width \in Nat \ {0} BY DEF LineSizes
<1>2. CASE z.x = 0
  <2>1. e = [z EXCEPT !.show = z.show - 1] BY <1>2 DEF BackX, Editor
  <2>2. z.show - 1 \in Nat /\ z.show - 1 \in Int BY <1>2
  <2> HIDE DEF e
  <2>3. e \in Editor BY <2>1, <2>2 DEF Editor
  <2>4. e.show = z.show - 1 /\ e.x = z.x BY <2>1 DEF Editor
  <2>5. SameLine(z, e) /\ e.text = z.text /\ e.pos = z.pos /\ e.field = z.field
    BY <2>1 DEF Editor, SameLine
  <2>6. e.show + e.x = z.show + z.x + (-1) /\ e.show \in {z.show, z.show + (-1)}
    BY <1>2, <2>2, <2>4
  <2>7. Stepped(z, e, -1) BY <2>2, <2>3, <2>4, <2>5, <2>6 DEF Stepped
  <2> QED BY <1>2, <2>7 DEF e
<1>3. CASE ~(z.x = 0)
  <2>1. e = [z EXCEPT !.x = z.x - 1] BY <1>3 DEF BackX, Editor
  <2>2. z.x - 1 \in 0 .. Width - 1 /\ z.x - 1 \in Int BY <1>1, <1>3
  <2> HIDE DEF e
  <2>3. e \in Editor BY <2>1, <2>2 DEF Editor
  <2>4. e.show = z.show /\ e.x = z.x - 1 BY <2>1 DEF Editor
  <2>5. SameLine(z, e) /\ e.text = z.text /\ e.pos = z.pos /\ e.field = z.field
    BY <2>1 DEF Editor, SameLine
  <2>6. e.show + e.x = z.show + z.x + (-1) BY <1>1, <2>4
  <2>7. Stepped(z, e, -1) BY <2>2, <2>3, <2>4, <2>5, <2>6 DEF Stepped
  <2> QED BY <2>4, <2>7 DEF e
<1> QED BY <1>2, <1>3

(* A place forth. *)
LEMMA ForthXIs ==
  ASSUME LineSizes, NEW z \in Editor, z.show \in Nat, z.x \in 0 .. Width - 1
  PROVE  Stepped(z, ForthX(z), 1) /\ (z.x < Width - 1 => ForthX(z).show = z.show)
<1> DEFINE e == ForthX(z)
<1>1. Width \in Nat \ {0} BY DEF LineSizes
<1>2. CASE z.x = Width - 1
  <2>1. e = [z EXCEPT !.show = z.show + 1] BY <1>2 DEF ForthX, Editor
  <2>2. z.show + 1 \in Nat /\ z.show + 1 \in Int OBVIOUS
  <2> HIDE DEF e
  <2>3. e \in Editor BY <2>1, <2>2 DEF Editor
  <2>4. e.show = z.show + 1 /\ e.x = z.x BY <2>1 DEF Editor
  <2>5. SameLine(z, e) /\ e.text = z.text /\ e.pos = z.pos /\ e.field = z.field
    BY <2>1 DEF Editor, SameLine
  <2>6. e.show + e.x = z.show + z.x + 1 /\ e.show \in {z.show, z.show + 1}
    BY <1>1, <2>4
  <2>7. Stepped(z, e, 1) BY <2>2, <2>3, <2>4, <2>5, <2>6 DEF Stepped
  <2> QED BY <1>1, <1>2, <2>7 DEF e
<1>3. CASE ~(z.x = Width - 1)
  <2>1. e = [z EXCEPT !.x = z.x + 1] BY <1>3 DEF ForthX, Editor
  <2>2. z.x + 1 \in 0 .. Width - 1 /\ z.x + 1 \in Int BY <1>1, <1>3
  <2> HIDE DEF e
  <2>3. e \in Editor BY <2>1, <2>2 DEF Editor
  <2>4. e.show = z.show /\ e.x = z.x + 1 BY <2>1 DEF Editor
  <2>5. SameLine(z, e) /\ e.text = z.text /\ e.pos = z.pos /\ e.field = z.field
    BY <2>1 DEF Editor, SameLine
  <2>6. e.show + e.x = z.show + z.x + 1 BY <1>1, <2>4
  <2>7. Stepped(z, e, 1) BY <2>2, <2>3, <2>4, <2>5, <2>6 DEF Stepped
  <2> QED BY <2>4, <2>7 DEF e
<1> QED BY <1>2, <1>3

(* An editor in which nothing is lost and everything is shown. *)
Good(z) == Typed(z) /\ View(z) /\ z.result = -1

(* What there is to know of such an editor. *)
LEMMA GoodIs ==
  ASSUME LineSizes, NEW z, Good(z)
  PROVE  /\ z \in Editor /\ z.left \in Seq(Characters) /\ z.right \in Seq(Characters)
         /\ z.text \in Seq(Characters) /\ z.show \in Nat /\ z.x \in 0 .. Width - 1 /\ z.x \in Int
         /\ z.pos = z.show + z.x /\ z.pos = Len(z.left) /\ z.pos \in Nat /\ z.result = -1
         /\ Len(z.text) = Len(z.left) + Len(z.right)
         /\ Len(z.text) \in Nat /\ Len(z.left) \in Nat /\ Len(z.right) \in Nat
         /\ z.text = z.left \o z.right /\ z.field \in Cells
         /\ (z.pos = 0 <=> z.left = <<>>) /\ (z.pos = Len(z.text) <=> z.right = <<>>)
<1>1. /\ z \in Editor /\ z.left \in Seq(Characters) /\ z.right \in Seq(Characters)
      /\ z.text \in Seq(Characters) /\ z.x \in Int
  BY DEF Good, Typed, Editor
<1>2. /\ z.show \in Nat /\ z.x \in 0 .. Width - 1 /\ z.pos = z.show + z.x /\ z.pos = Len(z.left)
      /\ z.text = z.left \o z.right /\ z.field \in Cells /\ z.result = -1
  BY DEF Good, Typed, View, InPlace, ShowsText
<1>3. Len(z.left) \in Nat /\ Len(z.right) \in Nat /\ Len(z.text) = Len(z.left) + Len(z.right)
  BY <1>1, <1>2, LenProperties, CutLeft
<1>4. (Len(z.left) = 0 <=> z.left = <<>>) /\ (Len(z.right) = 0 <=> z.right = <<>>)
  BY <1>1, EmptySeq
<1>5. Len(z.text) \in Nat /\ (z.pos = Len(z.text) <=> Len(z.right) = 0)
  <2> DEFINE a == Len(z.left)
             b == Len(z.right)
             n == Len(z.text)
             p == z.pos
  <2>1. a \in Nat /\ b \in Nat /\ n = a + b /\ p = a BY <1>2, <1>3
  <2> HIDE DEF a, b, n, p
  <2>2. n \in Nat /\ (p = n <=> b = 0) BY <2>1
  <2> QED BY <2>2 DEF a, b, n, p
<1> QED BY <1>1, <1>2, <1>3, <1>4, <1>5

(* The field behind the text was blank, so it is when the text has moved by a place. *)
LEMMA StillBlank ==
  ASSUME LineSizes, NEW z, Good(z), NEW e \in Editor, e.field = z.field, e.show \in Nat,
         NEW a \in {-1, 1}, e.show \in {z.show, z.show + a},
         Len(e.text) \in {Len(z.text), Len(z.text) + a}
  PROVE  BlankBehind(e)
<1>1. /\ z.show \in Nat /\ Len(z.text) \in Nat /\ z.field \in Cells /\ Len(e.text) \in Nat
  BY GoodIs, LenProperties DEF Editor
<1>2. ASSUME NEW i \in 1 .. Width, e.show + i > Len(e.text) + 1 PROVE e.field[i] = " "
  <2>1. Width \in Nat BY DEF LineSizes
  <2>2. ~(z.show + i <= Len(z.text))
    <3> DEFINE n == Len(z.text)
               m == Len(e.text)
               s == z.show
               t == e.show
    <3>1. n \in Nat /\ m \in Nat /\ s \in Nat /\ t \in Nat /\ i \in Nat /\ t + i > m + 1
          /\ t \in {s, s + a} /\ m \in {n, n + a}
      BY <1>1, <1>2, <2>1
    <3> HIDE DEF n, m, s, t
    <3>2. ~(s + i <= n) BY <3>1
    <3> QED BY <3>2 DEF s, n
  <2>3. z.field[i] = Cell(z.text, z.show + i) BY DEF Good, View, ShowsText
  <2> QED BY <2>2, <2>3 DEF Cell
<1> QED BY <1>1, <1>2 DEF BlankBehind

(* A field that is drawn is one in which everything is shown. *)
LEMMA DrawGood ==
  ASSUME LineSizes, NEW z, z \in Editor, InPlace(z), BlankBehind(z), Typed(z), z.result = -1
  PROVE  Good(Draw(z)) /\ Draw(z).kind = z.kind
<1> DEFINE e == Draw(z)
<1>1. e \in Editor /\ View(e) /\ SameLine(z, e) /\ e.text = z.text /\ e.pos = z.pos BY DrawIs
<1> HIDE DEF e
<1>2. Good(e) /\ e.kind = z.kind BY <1>1 DEF Good, Typed, SameLine
<1> QED BY <1>2 DEF e

(* dialog_inputbox: a key that edits, with what it means for the two sides. *)
LEMMA BackspaceKeeps ==
  ASSUME LineSizes, NEW z, Good(z), z.left # <<>>
  PROVE  LET e == BackspaceLx(Sides(z, Front(z.left), z.right)) IN Good(e) /\ e.kind = z.kind
<1> DEFINE m == Sides(z, Front(z.left), z.right)
           b == BackX(m)
           text == Without(z.text, z.pos)
           g == [b EXCEPT !.text = text, !.pos = z.pos - 1]
<1>1. /\ z \in Editor /\ z.left \in Seq(Characters) /\ z.right \in Seq(Characters)
      /\ z.show \in Nat /\ z.x \in 0 .. Width - 1 /\ z.x \in Int
      /\ z.pos = z.show + z.x /\ z.pos = Len(z.left) /\ z.pos \in Nat /\ z.result = -1
      /\ Len(z.text) = Len(z.left) + Len(z.right)
      /\ Len(z.text) \in Nat /\ Len(z.left) \in Nat /\ Len(z.right) \in Nat
      /\ z.text = z.left \o z.right /\ z.field \in Cells /\ z.pos # 0
  BY GoodIs
<1>2. Front(z.left) \in Seq(Characters) /\ Len(Front(z.left)) = Len(z.left) - 1
  BY <1>1, LastApart
<1>3. /\ m \in Editor /\ m.left = Front(z.left) /\ m.right = z.right
      /\ m.kind = z.kind /\ m.text = z.text /\ m.pos = z.pos /\ m.show = z.show
      /\ m.x = z.x /\ m.field = z.field /\ m.result = z.result
  <2>1. Sided(z, Front(z.left), z.right, m) BY <1>1, <1>2, SidesIs
  <2> HIDE DEF m
  <2> QED BY <2>1 DEF Sided
<1> HIDE DEF m
<1>4. Stepped(m, b, -1)
  <2>1. m.show \in Nat /\ m.x \in 0 .. Width - 1 /\ m.show + m.x > 0 BY <1>1, <1>3
  <2> QED BY <1>3, <2>1, BackXIs
<1>5. text = Front(z.left) \o z.right BY <1>1, WithoutIs
<1>6. text \in Seq(Characters) /\ Len(text) = Len(z.text) - 1
  <2>1. Front(z.left) \o z.right \in Seq(Characters)
        /\ Len(Front(z.left) \o z.right) = Len(Front(z.left)) + Len(z.right)
    <3> DEFINE l == Front(z.left)
               r == z.right
    <3>1. l \in Seq(Characters) /\ r \in Seq(Characters) BY <1>1, <1>2
    <3> HIDE DEF l, r
    <3>2. l \o r \in Seq(Characters) /\ Len(l \o r) = Len(l) + Len(r) BY ONLY <3>1, CutLeft
    <3> QED BY <3>2 DEF l, r
  <2> DEFINE a == Len(z.left)
             b2 == Len(z.right)
             n == Len(z.text)
  <2>2. a \in Nat /\ b2 \in Nat /\ n = a + b2 /\ Len(text) = (a - 1) + b2 BY <1>1, <1>2, <1>5, <2>1
  <2> HIDE DEF a, b2, n, text
  <2>3. Len(text) = n - 1 BY <2>2
  <2> QED BY <1>5, <2>1, <2>3 DEF n
<1>7. BackspaceLx(m) = Draw(g)
  <2>1. b \in Editor /\ b.text = z.text /\ b.pos = z.pos BY <1>3, <1>4 DEF Stepped
  <2>2. [BackX(m) EXCEPT !.text = Without(@, m.pos), !.pos = @ - 1] = g
    BY <1>3, <2>1 DEF Editor
  <2>3. m.pos # 0 BY <1>1, <1>3
  <2> QED BY <2>2, <2>3 DEF BackspaceLx
<1> HIDE DEF b, text
<1>8. Edited(b, g, text, z.pos - 1)
  <2>1. b \in Editor /\ z.pos - 1 \in Int BY <1>1, <1>4 DEF Stepped
  <2> QED BY <1>6, <2>1, EditIs
<1> HIDE DEF g
<1>9. /\ g \in Editor /\ g.kind = z.kind /\ g.left = Front(z.left) /\ g.right = z.right
      /\ g.result = -1 /\ g.text = text /\ g.pos = z.pos - 1 /\ g.show = b.show /\ g.x = b.x
      /\ g.field = z.field
  BY <1>1, <1>3, <1>4, <1>8 DEF Edited, Stepped, SameLine
<1>10. g.show \in Nat /\ g.x \in 0 .. Width - 1 /\ g.show + g.x = z.show + z.x + (-1)
       /\ g.show \in {z.show, z.show + (-1)} /\ b.x \in Int
  BY <1>3, <1>4, <1>9 DEF Stepped, Editor
<1>11. InPlace(g)
  <2>1. g.pos = g.show + g.x BY <1>1, <1>9, <1>10
  <2> QED BY <1>10, <2>1 DEF InPlace
<1>12. Typed(g)
  <2>1. g.pos = Len(g.left) BY <1>1, <1>2, <1>9
  <2>2. g.kind = "lx" => Len(g.text) <= MaxLen
    <3>1. z.kind = "lx" => Len(z.text) <= MaxLen BY DEF Good, Typed
    <3>2. MaxLen \in Nat BY DEF LineSizes
    <3> DEFINE n == Len(z.text)
    <3>3. n \in Nat /\ Len(g.text) = n - 1 BY <1>1, <1>6, <1>9
    <3> HIDE DEF n
    <3>4. n <= MaxLen => Len(g.text) <= MaxLen BY <3>2, <3>3
    <3> QED BY <1>9, <3>1, <3>4 DEF n
  <2> QED BY <1>5, <1>9, <2>1, <2>2 DEF Typed
<1>13. BlankBehind(g)
  <2>1. -1 \in {-1, 1} OBVIOUS
  <2>2. Len(z.text) - 1 = Len(z.text) + (-1) BY <1>1
  <2>3. Len(g.text) \in {Len(z.text), Len(z.text) + (-1)} BY <1>6, <1>9, <2>2
  <2> QED BY <1>9, <1>10, <2>1, <2>3, StillBlank
<1>14. Good(Draw(g)) /\ Draw(g).kind = g.kind BY <1>9, <1>11, <1>12, <1>13, DrawGood
<1> QED BY <1>7, <1>9, <1>14 DEF m

(* A character is typed, where there is room. *)
LEMMA InsertKeeps ==
  ASSUME LineSizes, NEW z, Good(z), NEW c \in Printable, z.kind = "lx", Len(z.text) < MaxLen
  PROVE  LET e == InsertLx(Sides(z, Append(z.left, c), z.right), c) IN Good(e) /\ e.kind = z.kind
<1> DEFINE m == Sides(z, Append(z.left, c), z.right)
           b == ForthX(m)
           text == With(z.text, z.pos, c)
           g == [b EXCEPT !.text = text, !.pos = z.pos + 1]
<1>1. /\ z \in Editor /\ z.left \in Seq(Characters) /\ z.right \in Seq(Characters)
      /\ z.show \in Nat /\ z.x \in 0 .. Width - 1 /\ z.x \in Int
      /\ z.pos = z.show + z.x /\ z.pos = Len(z.left) /\ z.pos \in Nat /\ z.result = -1
      /\ Len(z.text) = Len(z.left) + Len(z.right)
      /\ Len(z.text) \in Nat /\ Len(z.left) \in Nat /\ Len(z.right) \in Nat
      /\ z.text = z.left \o z.right /\ z.field \in Cells
  BY GoodIs
<1>2. /\ text = Append(z.left, c) \o z.right /\ Append(z.left, c) \in Seq(Characters)
      /\ Len(Append(z.left, c)) = Len(z.left) + 1
  <2>1. With(z.left \o z.right, Len(z.left), c) = Append(z.left, c) \o z.right
        /\ Append(z.left, c) \in Seq(Characters) /\ Len(Append(z.left, c)) = Len(z.left) + 1
    <3>1. c \in Characters /\ z.left \in Seq(Characters) /\ z.right \in Seq(Characters)
      BY <1>1, TypedAreCharacters
    <3> QED BY ONLY <3>1, WithIs
  <2>2. text = With(z.left \o z.right, Len(z.left), c) BY <1>1
  <2> HIDE DEF text
  <2> QED BY <2>1, <2>2
<1>3. /\ m \in Editor /\ m.left = Append(z.left, c) /\ m.right = z.right
      /\ m.kind = z.kind /\ m.text = z.text /\ m.pos = z.pos /\ m.show = z.show
      /\ m.x = z.x /\ m.field = z.field /\ m.result = z.result
  <2>1. Sided(z, Append(z.left, c), z.right, m) BY <1>1, <1>2, SidesIs
  <2> HIDE DEF m
  <2> QED BY <2>1 DEF Sided
<1> HIDE DEF m
<1>4. Stepped(m, b, 1)
  <2>1. m.show \in Nat /\ m.x \in 0 .. Width - 1 BY <1>1, <1>3
  <2> QED BY <1>3, <2>1, ForthXIs
<1>6. text \in Seq(Characters) /\ Len(text) = Len(z.text) + 1
  <2>1. Append(z.left, c) \o z.right \in Seq(Characters)
        /\ Len(Append(z.left, c) \o z.right) = Len(Append(z.left, c)) + Len(z.right)
    BY <1>1, <1>2, CutLeft
  <2> DEFINE a == Len(z.left)
             b2 == Len(z.right)
             n == Len(z.text)
  <2>2. a \in Nat /\ b2 \in Nat /\ n = a + b2 /\ Len(text) = (a + 1) + b2 BY <1>1, <1>2, <2>1
  <2> HIDE DEF a, b2, n, text
  <2>3. Len(text) = n + 1 BY <2>2
  <2> QED BY <1>2, <2>1, <2>3 DEF n
<1>7. InsertLx(m, c) = Draw(g)
  <2>1. b \in Editor /\ b.text = z.text /\ b.pos = z.pos BY <1>3, <1>4 DEF Stepped
  <2>2. [ForthX(m) EXCEPT !.text = With(@, m.pos, c), !.pos = @ + 1] = g
    BY <1>3, <2>1 DEF Editor
  <2>3. Len(m.text) # MaxLen
    <3> DEFINE n == Len(z.text)
    <3>1. n \in Nat /\ n < MaxLen /\ MaxLen \in Nat BY <1>1 DEF LineSizes
    <3> HIDE DEF n
    <3>2. n # MaxLen BY <3>1
    <3> QED BY <1>3, <3>2 DEF n
  <2> QED BY <2>2, <2>3 DEF InsertLx
<1> HIDE DEF b, text
<1>8. Edited(b, g, text, z.pos + 1)
  <2>1. b \in Editor /\ z.pos + 1 \in Int BY <1>1, <1>4 DEF Stepped
  <2> QED BY <1>6, <2>1, EditIs
<1> HIDE DEF g
<1>9. /\ g \in Editor /\ g.kind = z.kind /\ g.left = Append(z.left, c) /\ g.right = z.right
      /\ g.result = -1 /\ g.text = text /\ g.pos = z.pos + 1 /\ g.show = b.show /\ g.x = b.x
      /\ g.field = z.field
  BY <1>1, <1>3, <1>4, <1>8 DEF Edited, Stepped, SameLine
<1>10. g.show \in Nat /\ g.x \in 0 .. Width - 1 /\ g.show + g.x = z.show + z.x + 1
       /\ g.show \in {z.show, z.show + 1} /\ b.x \in Int
  BY <1>3, <1>4, <1>9 DEF Stepped, Editor
<1>11. InPlace(g)
  <2>1. g.pos = g.show + g.x BY <1>1, <1>9, <1>10
  <2> QED BY <1>10, <2>1 DEF InPlace
<1>12. Typed(g)
  <2>1. g.pos = Len(g.left) BY <1>1, <1>2, <1>9
  <2>2. Len(g.text) <= MaxLen
    <3>1. MaxLen \in Nat BY DEF LineSizes
    <3> DEFINE n == Len(z.text)
    <3>3. n \in Nat /\ Len(g.text) = n + 1 /\ n < MaxLen BY <1>1, <1>6, <1>9
    <3> HIDE DEF n
    <3> QED BY <3>1, <3>3
  <2> QED BY <1>2, <1>9, <2>1, <2>2 DEF Typed
<1>13. BlankBehind(g)
  <2>1. 1 \in {-1, 1} OBVIOUS
  <2>2. Len(g.text) \in {Len(z.text), Len(z.text) + 1} BY <1>6, <1>9
  <2> QED BY <1>9, <1>10, <2>1, <2>2, StillBlank
<1>14. Good(Draw(g)) /\ Draw(g).kind = g.kind BY <1>9, <1>11, <1>12, <1>13, DrawGood
<1> QED BY <1>7, <1>9, <1>14 DEF m

(* The cursor moves: the field is drawn anew only when it moves with it. *)
CursorMoved(z, b, g) ==
  /\ Good(Draw(g)) /\ Draw(g).kind = z.kind
  /\ b.show = z.show => Good(g) /\ g.kind = z.kind

(* So the cursor that moved is where the text says. *)
LEMMA MovedGood ==
  ASSUME LineSizes, NEW z, Good(z), NEW l \in Seq(Characters), NEW r \in Seq(Characters),
         l \o r = z.text, NEW by \in {-1, 1}, Len(l) = Len(z.left) + by, NEW b,
         Stepped(Sides(z, l, r), b, by)
  PROVE  CursorMoved(z, b, [b EXCEPT !.pos = @ + by])
<1> DEFINE m == Sides(z, l, r)
           g == [b EXCEPT !.pos = z.pos + by]
<1>1. /\ z \in Editor /\ z.text \in Seq(Characters)
      /\ z.show \in Nat /\ z.x \in 0 .. Width - 1 /\ z.x \in Int
      /\ z.pos = z.show + z.x /\ z.pos = Len(z.left) /\ z.pos \in Nat /\ z.result = -1
      /\ Len(z.text) \in Nat /\ Len(z.left) \in Nat /\ z.field \in Cells
  BY GoodIs
<1>3. /\ m \in Editor /\ m.left = l /\ m.right = r
      /\ m.kind = z.kind /\ m.text = z.text /\ m.pos = z.pos /\ m.show = z.show
      /\ m.x = z.x /\ m.field = z.field /\ m.result = z.result
  <2>1. Sided(z, l, r, m) BY <1>1, SidesIs
  <2> HIDE DEF m
  <2> QED BY <2>1 DEF Sided
<1>4. Stepped(m, b, by) OBVIOUS
<1> HIDE DEF m
<1>5. b \in Editor /\ b.text = z.text /\ b.pos = z.pos BY <1>3, <1>4 DEF Stepped
<1>7. [b EXCEPT !.pos = @ + by] = g /\ g = [b EXCEPT !.text = z.text, !.pos = z.pos + by]
  BY <1>5 DEF Editor
<1>8. Edited(b, g, z.text, z.pos + by)
  <2>1. z.pos + by \in Int BY <1>1
  <2> QED BY <1>1, <1>5, <1>7, <2>1, EditIs
<1> HIDE DEF g
<1>9. /\ g \in Editor /\ g.kind = z.kind /\ g.left = l /\ g.right = r
      /\ g.result = -1 /\ g.text = z.text /\ g.pos = z.pos + by /\ g.show = b.show /\ g.x = b.x
      /\ g.field = z.field
  BY <1>1, <1>3, <1>4, <1>8 DEF Edited, Stepped, SameLine
<1>10. g.show \in Nat /\ g.x \in 0 .. Width - 1 /\ g.show + g.x = z.show + z.x + by
       /\ g.show \in {z.show, z.show + by} /\ b.x \in Int
  BY <1>3, <1>4, <1>9 DEF Stepped, Editor
<1>11. InPlace(g)
  <2>1. g.pos = g.show + g.x BY <1>1, <1>9, <1>10
  <2> QED BY <1>10, <2>1 DEF InPlace
<1>12. Typed(g)
  <2>1. g.pos = Len(g.left) BY <1>1, <1>9
  <2>2. g.kind = "lx" => Len(g.text) <= MaxLen BY <1>9 DEF Good, Typed
  <2> QED BY <1>9, <2>1, <2>2 DEF Typed
<1>13. BlankBehind(g)
  <2>1. Len(g.text) \in {Len(z.text), Len(z.text) + by} BY <1>9
  <2> QED BY <1>9, <1>10, <2>1, StillBlank
<1>14. Good(Draw(g)) /\ Draw(g).kind = g.kind BY <1>9, <1>11, <1>12, <1>13, DrawGood
<1>15. ASSUME b.show = z.show PROVE Good(g)
  <2>1. ShowsText(z) BY DEF Good, View
  <2>2. ShowsText(g) BY <1>9, <1>15, <2>1 DEF ShowsText
  <2> QED BY <1>9, <1>11, <1>12, <2>2 DEF Good, View
<1>16. CursorMoved(z, b, g) BY <1>9, <1>14, <1>15 DEF CursorMoved
<1> QED BY <1>7, <1>16

(* dialog_inputbox: the cursor goes left. *)
LEMMA LeftKeeps ==
  ASSUME LineSizes, NEW z, Good(z), z.left # <<>>
  PROVE  LET e == LeftLx(Sides(z, Front(z.left), <<Last(z.left)>> \o z.right))
         IN Good(e) /\ e.kind = z.kind
<1> DEFINE l == Front(z.left)
           r == <<Last(z.left)>> \o z.right
           m == Sides(z, l, r)
           b == BackX(m)
<1>1. /\ z \in Editor /\ z.left \in Seq(Characters) /\ z.right \in Seq(Characters)
      /\ z.show \in Nat /\ z.x \in 0 .. Width - 1 /\ z.x \in Int /\ z.pos = z.show + z.x
      /\ z.text = z.left \o z.right /\ z.pos # 0 /\ z.pos \in Nat /\ Len(z.left) \in Nat
  BY GoodIs
<1>2. l \in Seq(Characters) /\ Len(l) = Len(z.left) - 1 BY <1>1, LastApart
<1>3. l \o r = z.text /\ r \in Seq(Characters) BY <1>1, LeftIs
<1> HIDE DEF l, r
<1>4. m \in Editor /\ m.pos = z.pos /\ m.show = z.show /\ m.x = z.x
  <2>1. Sided(z, l, r, m) BY <1>1, <1>2, <1>3, SidesIs
  <2> HIDE DEF m
  <2> QED BY <2>1 DEF Sided
<1> HIDE DEF m
<1>5. Stepped(m, b, -1) /\ (m.x > 0 => b.show = m.show)
  <2>1. m.show \in Nat /\ m.x \in 0 .. Width - 1 /\ m.show + m.x > 0 BY <1>1, <1>4
  <2> QED BY <1>4, <2>1, BackXIs
<1> DEFINE g == [b EXCEPT !.pos = @ + (-1)]
<1> HIDE DEF b
<1>6. CursorMoved(z, b, g)
  <2>1. Len(l) = Len(z.left) + (-1) BY <1>1, <1>2
  <2>2. -1 \in {-1, 1} OBVIOUS
  <2> QED BY <1>2, <1>3, <1>5, <2>1, <2>2, MovedGood DEF m
<1>7. g = [b EXCEPT !.pos = @ - 1]
  <2>1. b \in Editor /\ b.pos \in Int BY <1>5 DEF Stepped, Editor
  <2>2. b.pos + (-1) = b.pos - 1 BY <2>1
  <2> QED BY <2>1, <2>2 DEF Editor
<1>8. LeftLx(m) = IF m.x > 0 THEN g ELSE Draw(g)
  <2>1. m.pos # 0 BY <1>1, <1>4
  <2> QED BY <1>7, <2>1 DEF LeftLx, b
<1> HIDE DEF g
<1>9. Good(LeftLx(m)) /\ LeftLx(m).kind = z.kind BY <1>4, <1>5, <1>6, <1>8 DEF CursorMoved
<1> QED BY <1>9 DEF m, l, r

(* dialog_inputbox: the cursor goes right. *)
LEMMA RightKeeps ==
  ASSUME LineSizes, NEW z, Good(z), z.right # <<>>
  PROVE  LET e == RightLx(Sides(z, Append(z.left, Head(z.right)), Tail(z.right)))
         IN Good(e) /\ e.kind = z.kind
<1> DEFINE l == Append(z.left, Head(z.right))
           r == Tail(z.right)
           m == Sides(z, l, r)
           b == ForthX(m)
<1>1. /\ z \in Editor /\ z.left \in Seq(Characters) /\ z.right \in Seq(Characters)
      /\ z.show \in Nat /\ z.x \in 0 .. Width - 1 /\ z.x \in Int
      /\ z.text = z.left \o z.right /\ z.pos # Len(z.text) /\ Len(z.left) \in Nat
  BY GoodIs
<1>2. Head(z.right) \in Characters /\ r \in Seq(Characters) BY <1>1, FirstApart
<1>3. l \in Seq(Characters) /\ Len(l) = Len(z.left) + 1 BY <1>1, <1>2, AppendProperties
<1>4. l \o r = z.text BY <1>1, RightIs
<1> HIDE DEF l, r
<1>5. m \in Editor /\ m.pos = z.pos /\ m.show = z.show /\ m.x = z.x /\ m.text = z.text
  <2>1. Sided(z, l, r, m) BY <1>1, <1>2, <1>3, SidesIs
  <2> HIDE DEF m
  <2> QED BY <2>1 DEF Sided
<1> HIDE DEF m
<1>6. Stepped(m, b, 1) /\ (m.x < Width - 1 => b.show = m.show) BY <1>1, <1>5, ForthXIs
<1> DEFINE g == [b EXCEPT !.pos = @ + 1]
<1> HIDE DEF b
<1>7. CursorMoved(z, b, g)
  <2>1. 1 \in {-1, 1} OBVIOUS
  <2> QED BY <1>2, <1>3, <1>4, <1>6, <2>1, MovedGood DEF m
<1>8. RightLx(m) = IF m.x < Width - 1 THEN g ELSE Draw(g)
  <2>1. m.pos # Len(m.text) BY <1>1, <1>5
  <2> QED BY <2>1 DEF RightLx, b
<1> HIDE DEF g
<1>9. Good(RightLx(m)) /\ RightLx(m).kind = z.kind BY <1>5, <1>6, <1>7, <1>8 DEF CursorMoved
<1> QED BY <1>9 DEF m, l, r


(* The inductive invariant: nothing is lost, and while the dialog is open  *)
(* the field shows where the cursor is.                                    *)
LineInv(z) == Typed(z) /\ (z.result = -1 => View(z))

(* The text, the place in it and what is on the screen stay. *)
Still(z, e) ==
  /\ e \in Editor /\ e.kind = z.kind /\ e.text = z.text /\ e.pos = z.pos /\ e.left = z.left
  /\ e.right = z.right /\ e.show = z.show /\ e.x = z.x /\ e.field = z.field

(* A key that changes none of these keeps what is shown. *)
LEMMA StillKeeps ==
  ASSUME NEW z, Good(z), NEW e, Still(z, e)
  PROVE  LineInv(e)
<1>1. Typed(e) BY DEF Still, Good, Typed
<1>2. InPlace(e) BY DEF Still, Good, View, InPlace
<1>3. ShowsText(e) BY DEF Still, Good, View, ShowsText
<1> QED BY <1>1, <1>2, <1>3 DEF LineInv, View

(* Such an editor has the invariant. *)
LEMMA GoodKeeps == \A z : Good(z) => LineInv(z)
BY DEF Good, LineInv

(* The end of the dialog changes nothing in it. *)
LEMMA EndIs ==
  ASSUME NEW z \in Editor, NEW result \in Int
  PROVE  Still(z, End(z, result))
<1> DEFINE e == End(z, result)
<1>1. e = [z EXCEPT !.result = result] BY DEF End
<1> HIDE DEF e
<1>2. Still(z, e) BY <1>1 DEF Still, Editor
<1> QED BY <1>2 DEF e

(* The buttons below the field change nothing in it. *)
LEMMA ButtonIs ==
  ASSUME LineSizes, NEW z \in Editor, NEW key
  PROVE  Still(z, ButtonLx(z, key))
<1>1. z.focus \in Int BY DEF Editor
<1>2. Still(z, z) BY DEF Still
<1>3. CASE key \in {"up", "left", "down", "right"}
  <2> DEFINE to == NextFocus(z, key)
             e == [z EXCEPT !.focus = to]
  <2>1. to \in Int BY <1>1 DEF NextFocus
  <2> HIDE DEF to
  <2>2. Still(z, e) BY <2>1 DEF Still, Editor
  <2>3. ButtonLx(z, key) = e BY <1>3 DEF ButtonLx, to
  <2> QED BY <2>2, <2>3
<1>4. CASE key \in {"o", "h", "enter"}
  <2> DEFINE result == CASE key = "o" -> 0 [] key = "h" -> 1
                         [] key = "enter" -> IF z.focus = -1 THEN 0 ELSE z.focus
  <2>1. result \in Int BY <1>1, <1>4
  <2>2. ButtonLx(z, key) = End(z, result) BY <1>4 DEF ButtonLx
  <2> HIDE DEF result
  <2> QED BY <2>1, <2>2, EndIs
<1>5. CASE ~(key \in {"up", "left", "down", "right"}) /\ ~(key \in {"o", "h", "enter"})
  <2>1. ButtonLx(z, key) = z BY <1>5 DEF ButtonLx
  <2> QED BY <1>2, <2>1
<1> QED BY <1>3, <1>4, <1>5

(* What a key means. *)
LEMMA MeantIs ==
  ASSUME LineSizes, NEW z, NEW back \in SUBSET {"left", "down"}, NEW forth \in SUBSET {"right", "up"}
  PROVE  /\ Meant(z, "backspace", back, forth) =
              IF z.left # <<>> THEN Sides(z, Front(z.left), z.right) ELSE z
         /\ Meant(z, "delete", back, forth) =
              IF z.right # <<>> THEN Sides(z, z.left, Tail(z.right)) ELSE z
         /\ \A key \in back : Meant(z, key, back, forth) =
              IF z.left # <<>> THEN Sides(z, Front(z.left), <<Last(z.left)>> \o z.right) ELSE z
         /\ \A key \in forth : Meant(z, key, back, forth) =
              IF z.right # <<>> THEN Sides(z, Append(z.left, Head(z.right)), Tail(z.right)) ELSE z
         /\ Meant(z, "home", back, forth) = Sides(z, <<>>, z.left \o z.right)
         /\ Meant(z, "end", back, forth) = Sides(z, z.left \o z.right, <<>>)
         /\ \A key \in Printable : Meant(z, key, back, forth) = Sides(z, Append(z.left, key), z.right)
         /\ \A key \in {"enter", "help"} : Meant(z, key, back, forth) = z
<1>1. \A key \in Printable : ~(key \in Named) BY DEF LineSizes
<1>2. \A key \in Named : ~(key \in Printable) BY DEF LineSizes
<1>3. /\ Meant(z, "backspace", back, forth) =
           IF z.left # <<>> THEN Sides(z, Front(z.left), z.right) ELSE z
      /\ Meant(z, "delete", back, forth) =
           IF z.right # <<>> THEN Sides(z, z.left, Tail(z.right)) ELSE z
  <2>1. ~("backspace" \in Printable) /\ ~("delete" \in Printable) BY <1>2 DEF Named
  <2> QED BY <2>1 DEF Meant
<1>4. ASSUME NEW key \in back
      PROVE  Meant(z, key, back, forth) =
              IF z.left # <<>> THEN Sides(z, Front(z.left), <<Last(z.left)>> \o z.right) ELSE z
  <2>1. ~(key \in Printable) /\ ~(key \in forth) /\ key \in {"left", "down"} BY <1>2 DEF Named
  <2> QED BY <2>1 DEF Meant
<1>5. ASSUME NEW key \in forth
      PROVE  Meant(z, key, back, forth) =
              IF z.right # <<>> THEN Sides(z, Append(z.left, Head(z.right)), Tail(z.right)) ELSE z
  <2>1. ~(key \in Printable) /\ ~(key \in back) /\ key \in {"right", "up"} BY <1>2 DEF Named
  <2> QED BY <2>1 DEF Meant
<1>6. /\ Meant(z, "home", back, forth) = Sides(z, <<>>, z.left \o z.right)
      /\ Meant(z, "end", back, forth) = Sides(z, z.left \o z.right, <<>>)
  <2>1. ~("home" \in Printable) /\ ~("end" \in Printable) BY <1>2 DEF Named
  <2> QED BY <2>1 DEF Meant
<1>7. ASSUME NEW key \in Printable
      PROVE  Meant(z, key, back, forth) = Sides(z, Append(z.left, key), z.right)
  <2>1. key # "backspace" /\ key # "delete" /\ key # "home" /\ key # "end"
        /\ ~(key \in back) /\ ~(key \in forth)
    BY <1>1 DEF Named
  <2> QED BY <2>1 DEF Meant
<1>8. ASSUME NEW key \in {"enter", "help"}
      PROVE  Meant(z, key, back, forth) = z
  <2>1. ~(key \in Printable) /\ ~(key \in back) /\ ~(key \in forth) BY <1>2 DEF Named
  <2> QED BY <2>1 DEF Meant
<1> QED BY <1>3, <1>4, <1>5, <1>6, <1>7, <1>8

(* dialog_inputbox: every key. *)
LEMMA LxKeyKeeps ==
  ASSUME LineSizes, NEW z, Good(z), z.kind = "lx", NEW key \in EditKeys
  PROVE  LineInv(KeyLx(IF InField(z, key) /\ (key \in Printable => Len(z.text) < MaxLen)
                         THEN Meant(z, key, {"left"}, {"right"}) ELSE z, key))
<1> DEFINE back == {"left"}
           forth == {"right"}
           m == Meant(z, key, back, forth)
           y == IF InField(z, key) /\ (key \in Printable => Len(z.text) < MaxLen) THEN m ELSE z
<1>1. /\ z \in Editor /\ z.left \in Seq(Characters) /\ z.right \in Seq(Characters)
      /\ (z.pos = 0 <=> z.left = <<>>) /\ (z.pos = Len(z.text) <=> z.right = <<>>)
      /\ Len(z.text) \in Nat
  BY GoodIs
<1>2. back \in SUBSET {"left", "down"} /\ forth \in SUBSET {"right", "up"} OBVIOUS
<1>3. CASE ~InField(z, key)
  <2>1. KeyLx(y, key) = ButtonLx(z, key) BY <1>3 DEF KeyLx
  <2>2. Still(z, ButtonLx(z, key)) BY <1>1, ButtonIs
  <2> QED BY <2>1, <2>2, StillKeeps
<1>4. CASE InField(z, key)
  <2>1. \A e : e.focus = z.focus => InField(e, key) BY <1>4 DEF InField
  <2>2. ASSUME NEW l \in Seq(Characters), NEW r \in Seq(Characters)
        PROVE  KeyLx(Sides(z, l, r), key) = EditLx(Sides(z, l, r), key)
    <3>1. Sides(z, l, r).focus = z.focus BY <1>1, SidesIs DEF Sided
    <3> QED BY <2>1, <3>1 DEF KeyLx
  <2>3. KeyLx(z, key) = EditLx(z, key) BY <1>4 DEF KeyLx
  <2>4. CASE key = "backspace"
    <3>1. ~(key \in Printable) BY <2>4 DEF LineSizes, Named
    <3>2. y = IF z.left # <<>> THEN Sides(z, Front(z.left), z.right) ELSE z
      BY <1>2, <1>4, <2>4, <3>1, MeantIs
    <3> HIDE DEF y
    <3>3. \A e : EditLx(e, key) = BackspaceLx(e) BY <2>4, <3>1 DEF EditLx
    <3>4. CASE z.left # <<>>
      <4>1. Front(z.left) \in Seq(Characters) BY <1>1, <3>4, LastApart
      <4>2. KeyLx(y, key) = BackspaceLx(Sides(z, Front(z.left), z.right))
        BY <1>1, <2>2, <3>2, <3>3, <3>4, <4>1
      <4>3. Good(BackspaceLx(Sides(z, Front(z.left), z.right))) BY <3>4, BackspaceKeeps
      <4> QED BY <4>2, <4>3, GoodKeeps DEF y
    <3>5. CASE z.left = <<>>
      <4>1. KeyLx(y, key) = z BY <1>1, <2>3, <3>2, <3>3, <3>5 DEF BackspaceLx
      <4> QED BY <4>1, GoodKeeps DEF y
    <3> QED BY <3>4, <3>5
  <2>5. CASE key = "left"
    <3>1. ~(key \in Printable) BY <2>5 DEF LineSizes, Named
    <3>2. y = IF z.left # <<>> THEN Sides(z, Front(z.left), <<Last(z.left)>> \o z.right) ELSE z
      <4>1. key \in back BY <2>5
      <4>2. y = m BY <1>4, <3>1
      <4> HIDE DEF back, forth, y
      <4>3. \A k \in back : Meant(z, k, back, forth) =
              IF z.left # <<>> THEN Sides(z, Front(z.left), <<Last(z.left)>> \o z.right) ELSE z
        BY <1>2, MeantIs, ZenonT(60)
      <4> QED BY <4>1, <4>2, <4>3
    <3> HIDE DEF y
    <3>3. \A e : EditLx(e, key) = LeftLx(e) BY <2>5, <3>1 DEF EditLx
    <3>4. CASE z.left # <<>>
      <4>1. Front(z.left) \in Seq(Characters) BY <1>1, <3>4, LastApart
      <4>2. <<Last(z.left)>> \o z.right \in Seq(Characters) BY <1>1, <3>4, LeftIs
      <4>3. KeyLx(y, key) = LeftLx(Sides(z, Front(z.left), <<Last(z.left)>> \o z.right))
        BY <2>2, <3>2, <3>3, <3>4, <4>1, <4>2
      <4>4. Good(LeftLx(Sides(z, Front(z.left), <<Last(z.left)>> \o z.right))) BY <3>4, LeftKeeps
      <4> QED BY <4>3, <4>4, GoodKeeps DEF y
    <3>5. CASE z.left = <<>>
      <4>1. KeyLx(y, key) = z BY <1>1, <2>3, <3>2, <3>3, <3>5 DEF LeftLx
      <4> QED BY <4>1, GoodKeeps DEF y
    <3> QED BY <3>4, <3>5
  <2>6. CASE key = "right"
    <3>1. ~(key \in Printable) BY <2>6 DEF LineSizes, Named
    <3>2. y = IF z.right # <<>> THEN Sides(z, Append(z.left, Head(z.right)), Tail(z.right)) ELSE z
      <4>1. key \in forth BY <2>6
      <4>2. y = m BY <1>4, <3>1
      <4> HIDE DEF back, forth, y
      <4>3. \A k \in forth : Meant(z, k, back, forth) =
              IF z.right # <<>> THEN Sides(z, Append(z.left, Head(z.right)), Tail(z.right)) ELSE z
        BY <1>2, MeantIs
      <4> QED BY <4>1, <4>2, <4>3
    <3> HIDE DEF y
    <3>3. \A e : EditLx(e, key) = RightLx(e) BY <2>6, <3>1 DEF EditLx
    <3>4. CASE z.right # <<>>
      <4>1. Head(z.right) \in Characters /\ Tail(z.right) \in Seq(Characters) BY <1>1, <3>4, FirstApart
      <4>2. Append(z.left, Head(z.right)) \in Seq(Characters) BY <1>1, <4>1, AppendProperties
      <4>3. KeyLx(y, key) = RightLx(Sides(z, Append(z.left, Head(z.right)), Tail(z.right)))
        BY <2>2, <3>2, <3>3, <3>4, <4>1, <4>2
      <4>4. Good(RightLx(Sides(z, Append(z.left, Head(z.right)), Tail(z.right)))) BY <3>4, RightKeeps
      <4> QED BY <4>3, <4>4, GoodKeeps DEF y
    <3>5. CASE z.right = <<>>
      <4>1. KeyLx(y, key) = z BY <1>1, <2>3, <3>2, <3>3, <3>5 DEF RightLx
      <4> QED BY <4>1, GoodKeeps DEF y
    <3> QED BY <3>4, <3>5
  <2>7. CASE key \in Printable
    <3>1. key # "backspace" /\ key # "left" /\ key # "right" BY <2>7 DEF LineSizes, Named
    <3>2. \A e : EditLx(e, key) = InsertLx(e, key) BY <2>7, <3>1 DEF EditLx
    <3>3. CASE Len(z.text) < MaxLen
      <4>1. Append(z.left, key) \in Seq(Characters)
        <5>1. key \in Characters BY <2>7, TypedAreCharacters
        <5> QED BY <1>1, <5>1, AppendProperties
      <4>2. y = Sides(z, Append(z.left, key), z.right) BY <1>2, <1>4, <2>7, <3>3, MeantIs
      <4> HIDE DEF y
      <4>3. KeyLx(y, key) = InsertLx(Sides(z, Append(z.left, key), z.right), key)
        BY <1>1, <2>2, <3>2, <4>1, <4>2
      <4>4. Good(InsertLx(Sides(z, Append(z.left, key), z.right), key)) BY <2>7, <3>3, InsertKeeps
      <4> QED BY <4>3, <4>4, GoodKeeps DEF y
    <3>4. CASE ~(Len(z.text) < MaxLen)
      <4>1. Len(z.text) = MaxLen
        <5>1. Len(z.text) <= MaxLen BY DEF Good, Typed
        <5>2. MaxLen \in Nat BY DEF LineSizes
        <5> DEFINE n == Len(z.text)
        <5>3. n \in Nat /\ n <= MaxLen /\ ~(n < MaxLen) BY <1>1, <3>4, <5>1
        <5> HIDE DEF n
        <5>4. n = MaxLen BY <5>2, <5>3
        <5> QED BY <5>4 DEF n
      <4>2. y = z BY <2>7, <3>4
      <4> HIDE DEF y
      <4>3. KeyLx(y, key) = z BY <2>3, <3>2, <4>1, <4>2 DEF InsertLx
      <4> QED BY <4>3, GoodKeeps DEF y
    <3> QED BY <3>3, <3>4
  <2> QED BY <1>4, <2>4, <2>5, <2>6, <2>7 DEF InField
<1> QED BY <1>3, <1>4

(* The text that was split is not lost where one side is empty. *)
LEMMA SideEmpty ==
  ASSUME NEW S, NEW s \in Seq(S)
  PROVE  s \o <<>> = s /\ <<>> \o s = s /\ <<>> \in Seq(S) /\ Len(<<>>) = 0
<1>1. <<>> \in Seq(S) /\ Len(<<>>) = 0 OBVIOUS
<1>2. s \o <<>> = s /\ <<>> \o s = s BY ConcatEmptySeq
<1> QED BY <1>1, <1>2

(* The resized dialog starts again, with the cursor at the end. *)
LEMMA ResizeKeeps ==
  ASSUME LineSizes, NEW z, Good(z)
  PROVE  LineInv(OpenLx(Meant(z, "end", {}, {})))
<1> DEFINE t == z.left \o z.right
           m == Sides(z, t, <<>>)
           e == OpenLx(m)
<1>1. z \in Editor /\ z.text = t /\ z.text \in Seq(Characters) BY GoodIs
<1>2. {} \in SUBSET {"left", "down"} /\ {} \in SUBSET {"right", "up"} OBVIOUS
<1>3. Meant(z, "end", {}, {}) = m BY <1>2, MeantIs
<1> HIDE DEF t
<1>4. t \in Seq(Characters) /\ <<>> \in Seq(Characters) /\ t \o <<>> = t BY <1>1, SideEmpty
<1>5. m \in Editor /\ m.left = t /\ m.right = <<>> /\ m.text = t /\ m.kind = z.kind
  <2>1. Sided(z, t, <<>>, m) BY <1>1, <1>4, SidesIs
  <2> HIDE DEF m
  <2> QED BY <1>1, <2>1 DEF Sided
<1> HIDE DEF m
<1>6. e \in Editor /\ View(e) /\ SameLine(m, e) /\ e.text = m.text /\ e.pos = Len(m.text)
  BY <1>5, OpenLxIs
<1> HIDE DEF e
<1>7. Typed(e)
  <2>1. z.kind = "lx" => Len(z.text) <= MaxLen BY DEF Good, Typed
  <2>2. e.left = t /\ e.right = <<>> /\ e.kind = z.kind /\ e.text = t /\ e.pos = Len(t)
    BY <1>5, <1>6 DEF SameLine
  <2> QED BY <1>1, <1>4, <1>6, <2>1, <2>2 DEF Typed
<1> QED BY <1>3, <1>6, <1>7 DEF LineInv, e

(* What nconf draws from: nothing is lost, and the field is no further     *)
(* right than the text.                                                    *)
Ready(z) ==
  /\ z \in Editor /\ z.kind = "nconf" /\ z.text = z.left \o z.right /\ z.pos = Len(z.left)
  /\ z.x <= z.pos

(* What is drawn from there has the invariant. *)
LEMMA ReadyKeeps ==
  ASSUME LineSizes, NEW z, Ready(z)
  PROVE  LineInv(DrawNconf(z))
<1> DEFINE e == DrawNconf(z)
<1>1. z \in Editor /\ z.left \in Seq(Characters) BY DEF Ready, Editor
<1>2. z.pos \in Nat /\ z.x <= z.pos
  <2>1. Len(z.left) \in Nat BY <1>1, LenProperties
  <2> QED BY <2>1 DEF Ready
<1>3. e \in Editor /\ View(e) /\ SameLine(z, e) /\ e.text = z.text /\ e.pos = z.pos
  BY <1>1, <1>2, DrawNconfIs
<1> HIDE DEF e
<1>4. Typed(e) BY <1>3 DEF Ready, SameLine, Typed
<1> QED BY <1>3, <1>4 DEF LineInv, e

(* The sides, the text and the cursor, all changed. *)
LEMMA ReadyIs ==
  ASSUME NEW z \in Editor, z.kind = "nconf", NEW l \in Seq(Characters), NEW r \in Seq(Characters),
         NEW x \in Int, x <= Len(l), NEW e,
         e = [Sides(z, l, r) EXCEPT !.text = l \o r, !.pos = Len(l), !.x = x]
  PROVE  Ready(e)
<1> DEFINE text == l \o r
           pos == Len(l)
           m == Sides(z, l, r)
<1>1. text \in Seq(Characters) BY CutLeft
<1>2. pos \in Int /\ x <= pos BY LenProperties
<1>3. m \in Editor /\ m.left = l /\ m.right = r /\ m.kind = "nconf" BY SidesIs DEF Sided
<1>4. e = [m EXCEPT !.text = text, !.pos = pos, !.x = x] OBVIOUS
<1>5. text = l \o r /\ pos = Len(l) OBVIOUS
<1> HIDE DEF text, pos, m
<1>6. e \in Editor BY <1>1, <1>2, <1>3, <1>4 DEF Editor
<1>7. e.text = text /\ e.pos = pos /\ e.x = x /\ e.left = l /\ e.right = r /\ e.kind = "nconf"
  BY <1>3, <1>4 DEF Editor
<1> QED BY <1>2, <1>5, <1>6, <1>7 DEF Ready

(* A key that neither moves nor edits. *)
LEMMA StillReady ==
  ASSUME NEW z, Good(z), z.kind = "nconf", NEW e, Still(z, e)
  PROVE  Ready(e)
<1>1. /\ z.show \in Nat /\ z.x \in Int /\ z.pos = z.show + z.x BY DEF Good, Typed, View, InPlace, Editor
<1>2. z.x <= z.pos BY <1>1
<1> QED BY <1>2 DEF Still, Ready, Good, Typed

(* nconf: every key. *)
LEMMA NconfKeyKeeps ==
  ASSUME LineSizes, NEW z, Good(z), z.kind = "nconf",
         NEW key \in EditKeys \cup {"delete", "home", "end", "help"}
  PROVE  Ready(KeyNconf(Meant(z, key, {"left", "down"}, {"right", "up"}), key))
<1> DEFINE back == {"left", "down"}
           forth == {"right", "up"}
           m == Meant(z, key, back, forth)
           y == KeyNconf(m, key)
           n == Len(z.left)
<1>1. /\ z \in Editor /\ z.left \in Seq(Characters) /\ z.right \in Seq(Characters)
      /\ z.text \in Seq(Characters) /\ z.show \in Nat /\ z.x \in Int /\ z.pos = z.show + z.x
      /\ z.pos = n /\ n \in Nat /\ Len(z.text) = n + Len(z.right) /\ Len(z.right) \in Nat
      /\ z.text = z.left \o z.right
      /\ (z.pos = 0 <=> z.left = <<>>) /\ (z.pos = Len(z.text) <=> z.right = <<>>)
  BY GoodIs
<1> HIDE DEF n
<1>2. z.x <= n BY <1>1
<1>3. back \in SUBSET {"left", "down"} /\ forth \in SUBSET {"right", "up"} OBVIOUS
<1>4. Still(z, z) BY <1>1 DEF Still
<1>5. Ready(z) BY <1>4, StillReady
<1>6. \A k \in Printable : ~(k \in Named) BY DEF LineSizes
<1>7. z.pos > 0 <=> z.left # <<>> BY <1>1
<1>8. z.pos < Len(z.text) <=> z.right # <<>>
  <2> DEFINE b == Len(z.right)
             t == Len(z.text)
             p == z.pos
  <2>1. b \in Nat /\ t = n + b /\ p = n /\ (p = t <=> z.right = <<>>) BY <1>1
  <2> HIDE DEF b, t, p
  <2>2. p < t <=> p # t BY <1>1, <2>1
  <2> QED BY <2>1, <2>2 DEF t, p
<1>9. ASSUME NEW l \in Seq(Characters), NEW r \in Seq(Characters)
      PROVE  LET s == Sides(z, l, r)
             IN  s \in Editor /\ s.text = z.text /\ s.pos = z.pos /\ s.x = z.x
  <2>1. Sided(z, l, r, Sides(z, l, r)) BY <1>1, SidesIs
  <2> QED BY <2>1 DEF Sided
<1>10. CASE key = "backspace"
  <2>1. ~(key \in Printable) BY <1>6, <1>10 DEF Named
  <2>2. m = IF z.left # <<>> THEN Sides(z, Front(z.left), z.right) ELSE z BY <1>3, <1>10, MeantIs
  <2> HIDE DEF m
  <2>3. CASE z.left # <<>>
    <3> DEFINE l == Front(z.left)
    <3>1. l \in Seq(Characters) /\ Len(l) = n - 1 BY <1>1, <2>3, LastApart DEF n
    <3>2. Without(z.text, z.pos) = l \o z.right BY <1>1, <2>3, WithoutIs DEF n
    <3> HIDE DEF l
    <3>3. m = Sides(z, l, z.right) BY <2>2, <2>3 DEF l
    <3>4. m \in Editor /\ m.text = z.text /\ m.pos = z.pos /\ m.x = z.x BY <1>1, <1>9, <3>1, <3>3
    <3>5. y = [Step(m, -1) EXCEPT !.text = Without(@, m.pos)]
      <4>1. m.pos > 0 BY <1>7, <2>3, <3>4
      <4> QED BY <1>10, <2>1, <4>1 DEF KeyNconf
    <3>6. y = [m EXCEPT !.text = l \o z.right, !.pos = n - 1, !.x = z.x - 1]
      <4>1. z.pos + -1 = n - 1 /\ z.x + -1 = z.x - 1 BY <1>1
      <4>2. Step(m, -1) = [m EXCEPT !.pos = n - 1, !.x = z.x - 1] BY <3>4, <4>1 DEF Step, Editor
      <4> DEFINE p == Step(m, -1)
                 text == Without(z.text, z.pos)
      <4>3. p \in Editor /\ p.text = z.text
        <5>1. n - 1 \in Int /\ z.x - 1 \in Int BY <1>1
        <5> QED BY <3>4, <4>2, <5>1 DEF Editor
      <4>4. y = [p EXCEPT !.text = text] BY <3>4, <3>5, <4>3
      <4> HIDE DEF y, p, text
      <4>5. y = [m EXCEPT !.text = text, !.pos = n - 1, !.x = z.x - 1]
        BY <3>4, <4>2, <4>4 DEF Editor, p
      <4> QED BY <3>2, <4>5 DEF text
    <3>7. z.x - 1 \in Int /\ z.x - 1 <= Len(l) BY <1>1, <1>2, <3>1
    <3> HIDE DEF y
    <3>8. Ready(y) BY <1>1, <3>1, <3>3, <3>6, <3>7, ReadyIs
    <3> QED BY <3>8 DEF y, m
  <2>4. CASE z.left = <<>>
    <3>1. m = z /\ ~(m.pos > 0) BY <1>7, <2>2, <2>4
    <3>2. y = z BY <1>10, <2>1, <3>1 DEF KeyNconf
    <3> QED BY <1>5, <3>2 DEF m
  <2> QED BY <2>3, <2>4
<1>11. CASE key = "delete"
  <2>1. ~(key \in Printable) BY <1>6, <1>11 DEF Named
  <2>2. m = IF z.right # <<>> THEN Sides(z, z.left, Tail(z.right)) ELSE z BY <1>3, <1>11, MeantIs
  <2> HIDE DEF m
  <2>3. CASE z.right # <<>>
    <3> DEFINE r == Tail(z.right)
    <3>1. r \in Seq(Characters) BY <1>1, <2>3, FirstApart
    <3>2. RemoveAt(z.text, z.pos + 1) = z.left \o r BY <1>1, <2>3, DeleteIs DEF n
    <3> HIDE DEF r
    <3>3. m = Sides(z, z.left, r) BY <2>2, <2>3 DEF r
    <3>4. m \in Editor /\ m.text = z.text /\ m.pos = z.pos /\ m.x = z.x BY <1>1, <1>9, <3>1, <3>3
    <3>5. y = [m EXCEPT !.text = RemoveAt(@, m.pos + 1)]
      <4>1. m.pos < Len(m.text) BY <1>8, <2>3, <3>4
      <4> QED BY <1>11, <2>1, <4>1 DEF KeyNconf
    <3>6. y = [m EXCEPT !.text = z.left \o r, !.pos = n, !.x = z.x]
      <4> HIDE DEF y
      <4> QED BY <1>1, <3>2, <3>4, <3>5 DEF Editor
    <3> HIDE DEF y
    <3>7. z.x <= Len(z.left) BY <1>2 DEF n
    <3>8. Ready(y) BY <1>1, <3>1, <3>3, <3>6, <3>7, ReadyIs DEF n
    <3> QED BY <3>8 DEF y, m
  <2>4. CASE z.right = <<>>
    <3>1. m = z /\ ~(m.pos < Len(m.text)) BY <1>8, <2>2, <2>4
    <3>2. y = z BY <1>11, <2>1, <3>1 DEF KeyNconf
    <3> QED BY <1>5, <3>2 DEF m
  <2> QED BY <2>3, <2>4
<1>12. CASE key \in {"right", "up"}
  <2>1. ~(key \in Printable) BY <1>6, <1>12 DEF Named
  <2>2. m = IF z.right # <<>> THEN Sides(z, Append(z.left, Head(z.right)), Tail(z.right)) ELSE z
    <3>1. \A k \in forth : Meant(z, k, back, forth) =
            IF z.right # <<>> THEN Sides(z, Append(z.left, Head(z.right)), Tail(z.right)) ELSE z
      BY <1>3, MeantIs
    <3>2. key \in forth BY <1>12
    <3> HIDE DEF back, forth
    <3> QED BY <3>1, <3>2
  <2> HIDE DEF m
  <2>3. CASE z.right # <<>>
    <3> DEFINE l == Append(z.left, Head(z.right))
               r == Tail(z.right)
    <3>1. Head(z.right) \in Characters /\ r \in Seq(Characters) BY <1>1, <2>3, FirstApart
    <3>2. l \in Seq(Characters) /\ Len(l) = n + 1 BY <1>1, <3>1, AppendProperties DEF n
    <3>3. z.text = l \o r BY <1>1, <2>3, RightIs
    <3> HIDE DEF l, r
    <3>4. m = Sides(z, l, r) BY <2>2, <2>3 DEF l, r
    <3>5. m \in Editor /\ m.text = z.text /\ m.pos = z.pos /\ m.x = z.x BY <1>1, <1>9, <3>1, <3>2, <3>4
    <3>6. y = Step(m, 1)
      <4>1. m.pos < Len(m.text) BY <1>8, <2>3, <3>5
      <4> QED BY <1>12, <2>1, <4>1 DEF KeyNconf
    <3>7. y = [m EXCEPT !.text = l \o r, !.pos = n + 1, !.x = z.x + 1]
      <4> HIDE DEF y
      <4> QED BY <1>1, <3>3, <3>5, <3>6 DEF Step, Editor
    <3>8. z.x + 1 \in Int /\ z.x + 1 <= Len(l) BY <1>1, <1>2, <3>2
    <3> HIDE DEF y
    <3>9. Ready(y) BY <1>1, <3>1, <3>2, <3>4, <3>7, <3>8, ReadyIs
    <3> QED BY <3>9 DEF y, m
  <2>4. CASE z.right = <<>>
    <3>1. m = z /\ ~(m.pos < Len(m.text)) BY <1>8, <2>2, <2>4
    <3>2. y = z BY <1>12, <2>1, <3>1 DEF KeyNconf
    <3> QED BY <1>5, <3>2 DEF m
  <2> QED BY <2>3, <2>4
<1>13. CASE key \in {"left", "down"}
  <2>1. ~(key \in Printable) BY <1>6, <1>13 DEF Named
  <2>2. m = IF z.left # <<>> THEN Sides(z, Front(z.left), <<Last(z.left)>> \o z.right) ELSE z
    <3>1. \A k \in back : Meant(z, k, back, forth) =
            IF z.left # <<>> THEN Sides(z, Front(z.left), <<Last(z.left)>> \o z.right) ELSE z
      BY <1>3, MeantIs
    <3>2. key \in back BY <1>13
    <3> HIDE DEF back, forth
    <3> QED BY <3>1, <3>2
  <2> HIDE DEF m
  <2>3. CASE z.left # <<>>
    <3> DEFINE l == Front(z.left)
               r == <<Last(z.left)>> \o z.right
    <3>1. l \in Seq(Characters) /\ Len(l) = n - 1 BY <1>1, <2>3, LastApart DEF n
    <3>2. r \in Seq(Characters) /\ z.text = l \o r BY <1>1, <2>3, LeftIs
    <3> HIDE DEF l, r
    <3>3. m = Sides(z, l, r) BY <2>2, <2>3 DEF l, r
    <3>4. m \in Editor /\ m.text = z.text /\ m.pos = z.pos /\ m.x = z.x BY <1>1, <1>9, <3>1, <3>2, <3>3
    <3>5. y = Step(m, -1)
      <4>1. m.pos > 0 BY <1>7, <2>3, <3>4
      <4> QED BY <1>13, <2>1, <4>1 DEF KeyNconf
    <3>6. y = [m EXCEPT !.text = l \o r, !.pos = n - 1, !.x = z.x - 1]
      <4>1. z.pos + -1 = n - 1 /\ z.x + -1 = z.x - 1 BY <1>1
      <4> HIDE DEF y
      <4> QED BY <3>2, <3>4, <3>5, <4>1 DEF Step, Editor
    <3>7. z.x - 1 \in Int /\ z.x - 1 <= Len(l) BY <1>1, <1>2, <3>1
    <3> HIDE DEF y
    <3>8. Ready(y) BY <1>1, <3>1, <3>2, <3>3, <3>6, <3>7, ReadyIs
    <3> QED BY <3>8 DEF y, m
  <2>4. CASE z.left = <<>>
    <3>1. m = z /\ ~(m.pos > 0) BY <1>7, <2>2, <2>4
    <3>2. y = z BY <1>13, <2>1, <3>1 DEF KeyNconf
    <3> QED BY <1>5, <3>2 DEF m
  <2> QED BY <2>3, <2>4
<1>14. CASE key = "home"
  <2> DEFINE l == <<>>
  <2>1. l \in Seq(Characters) /\ Len(l) = 0 /\ z.text = l \o z.text BY <1>1, SideEmpty
  <2>2. m = Sides(z, l, z.text)
    <3>1. Meant(z, "home", back, forth) = Sides(z, <<>>, z.left \o z.right) BY <1>3, MeantIs
    <3> QED BY <1>1, <1>14, <3>1
  <2> HIDE DEF l, m
  <2>3. m \in Editor /\ m.text = z.text BY <1>1, <1>9, <2>1, <2>2
  <2>4. y = [m EXCEPT !.pos = 0, !.x = 0]
    <3>1. ~(key \in Printable) BY <1>6, <1>14 DEF Named
    <3> QED BY <1>14, <3>1 DEF KeyNconf
  <2> HIDE DEF y
  <2>5. y = [m EXCEPT !.text = l \o z.text, !.pos = 0, !.x = 0] BY <2>1, <2>3, <2>4 DEF Editor
  <2>6. 0 \in Int /\ 0 <= Len(l) BY <2>1
  <2>7. Ready(y) BY <1>1, <2>1, <2>2, <2>5, <2>6, ReadyIs, ZenonT(60)
  <2> QED BY <2>7 DEF y, m
<1>15. CASE key = "end"
  <2> DEFINE r == <<>>
             l == z.text
             k == Len(z.text)
  <2>1. r \in Seq(Characters) /\ z.text = l \o r BY <1>1, SideEmpty
  <2>2. m = Sides(z, l, r)
    <3>1. Meant(z, "end", back, forth) = Sides(z, z.left \o z.right, <<>>) BY <1>3, MeantIs
    <3> QED BY <1>1, <1>15, <3>1
  <2> HIDE DEF r, m
  <2>3. m \in Editor /\ m.text = z.text BY <1>1, <1>9, <2>1, <2>2
  <2>4. y = [m EXCEPT !.pos = k, !.x = k]
    <3>1. ~(key \in Printable) BY <1>6, <1>15 DEF Named
    <3> QED BY <1>15, <2>3, <3>1 DEF KeyNconf
  <2> HIDE DEF y
  <2>5. y = [m EXCEPT !.text = l \o r, !.pos = k, !.x = k] BY <2>1, <2>3, <2>4 DEF Editor
  <2>6. k \in Int /\ k <= Len(l) BY <1>1, LenProperties
  <2>7. Ready(y) BY <1>1, <2>1, <2>2, <2>5, <2>6, ReadyIs
  <2> QED BY <2>7 DEF y, m
<1>16. CASE key \in Printable
  <2> DEFINE l == Append(z.left, key)
  <2>1. l \in Seq(Characters) /\ Len(l) = n + 1 /\ With(z.text, z.pos, key) = l \o z.right
    <3>1. With(z.left \o z.right, Len(z.left), key) = Append(z.left, key) \o z.right
          /\ Append(z.left, key) \in Seq(Characters) /\ Len(Append(z.left, key)) = Len(z.left) + 1
      <4>1. key \in Characters /\ z.left \in Seq(Characters) /\ z.right \in Seq(Characters)
        BY <1>1, <1>16, TypedAreCharacters
      <4> QED BY ONLY <4>1, WithIs
    <3>2. z.pos = Len(z.left) /\ z.text = z.left \o z.right BY <1>1 DEF n
    <3> QED BY <3>1, <3>2 DEF n
  <2>2. m = Sides(z, l, z.right) BY <1>3, <1>16, MeantIs
  <2> HIDE DEF l, m
  <2>3. m \in Editor /\ m.text = z.text /\ m.pos = z.pos /\ m.x = z.x BY <1>1, <1>9, <2>1, <2>2
  <2>4. y = [Step(m, 1) EXCEPT !.text = With(@, m.pos, key)]
    <3>1. key # "backspace" /\ key # "delete" /\ ~(key \in {"right", "up"}) /\ ~(key \in {"left", "down"})
          /\ key # "home" /\ key # "end" /\ key # "enter" /\ key # "help"
      BY <1>6, <1>16 DEF Named
    <3> QED BY <1>16, <3>1 DEF KeyNconf
  <2> HIDE DEF y
  <2>5. y = [m EXCEPT !.text = l \o z.right, !.pos = n + 1, !.x = z.x + 1]
    <3> DEFINE p == Step(m, 1)
               text == With(z.text, z.pos, key)
    <3>1. p = [m EXCEPT !.pos = n + 1, !.x = z.x + 1] BY <1>1, <2>3 DEF Step, Editor
    <3>2. p.text = z.text BY <2>3, <3>1 DEF Editor
    <3>3. y = [p EXCEPT !.text = text] BY <2>3, <2>4, <3>2
    <3> HIDE DEF p, text
    <3>4. y = [m EXCEPT !.text = text, !.pos = n + 1, !.x = z.x + 1] BY <2>3, <3>1, <3>3 DEF Editor
    <3> QED BY <2>1, <3>4 DEF text
  <2>6. z.x + 1 \in Int /\ z.x + 1 <= Len(l) BY <1>1, <1>2, <2>1
  <2>7. Ready(y) BY <1>1, <2>1, <2>2, <2>5, <2>6, ReadyIs
  <2> QED BY <2>7 DEF y, m
<1>17. CASE key \in {"enter", "help"}
  <2>1. ~(key \in Printable) BY <1>6, <1>17 DEF Named
  <2>2. m = z BY <1>3, <1>17, MeantIs
  <2>3. y = End(z, IF key = "enter" THEN 0 ELSE 1) BY <1>17, <2>1, <2>2 DEF KeyNconf
  <2>4. (IF key = "enter" THEN 0 ELSE 1) \in Int OBVIOUS
  <2> HIDE DEF y
  <2>5. Still(z, y) BY <1>1, <2>3, <2>4, EndIs
  <2> QED BY <2>5, StillReady DEF y
<1> QED BY <1>10, <1>11, <1>12, <1>13, <1>14, <1>15, <1>16, <1>17 DEF EditKeys

(* Both editors open like that. *)
LEMMA LineBegins == ASSUME LineSizes, LxInputInit PROVE LineInv(input)
<1>1. PICK init \in Inits : input \in {OpenLx(NewInput("lx", init)), OpenNconf(NewInput("nconf", init))}
  BY DEF LxInputInit
<1>2. init \in Seq(Characters) /\ Len(init) <= MaxLen /\ Len(init) \in Nat
  BY LenProperties DEF LineSizes
<1>3. init \o <<>> = init /\ <<>> \in Seq(Characters) BY <1>2, SideEmpty
<1>4. ASSUME NEW kind \in {"lx", "nconf"}
      PROVE  LET z == NewInput(kind, init)
             IN  z \in Editor /\ z.kind = kind /\ z.text = init /\ z.left = init /\ z.right = <<>>
  BY <1>2, <1>3 DEF NewInput, Editor
<1>5. CASE input = OpenLx(NewInput("lx", init))
  <2> DEFINE z == NewInput("lx", init)
             e == OpenLx(z)
  <2>1. z \in Editor /\ z.kind = "lx" /\ z.text = init /\ z.left = init /\ z.right = <<>> BY <1>4
  <2> HIDE DEF z
  <2>2. e \in Editor /\ View(e) /\ SameLine(z, e) /\ e.text = z.text /\ e.pos = Len(z.text)
    BY <2>1, OpenLxIs
  <2> HIDE DEF e
  <2>3. e.left = init /\ e.right = <<>> /\ e.text = init /\ e.pos = Len(init) BY <2>1, <2>2 DEF SameLine
  <2>4. Typed(e) BY <1>2, <1>3, <2>2, <2>3 DEF Typed
  <2> QED BY <1>5, <2>2, <2>4 DEF LineInv, e, z
<1>6. CASE input = OpenNconf(NewInput("nconf", init))
  <2> DEFINE z == NewInput("nconf", init)
             k == Len(init)
             p == [z EXCEPT !.pos = k, !.x = k]
  <2>1. z \in Editor /\ z.kind = "nconf" /\ z.text = init /\ z.left = init /\ z.right = <<>> BY <1>4
  <2>2. k \in Int /\ k <= k /\ k = Len(init) BY <1>2
  <2> HIDE DEF z, k
  <2>3. OpenNconf(z) = DrawNconf(p) BY <2>1, <2>2 DEF OpenNconf
  <2>4. /\ p \in Editor /\ p.kind = "nconf" /\ p.text = init /\ p.left = init /\ p.right = <<>>
        /\ p.pos = k /\ p.x = k
    BY <2>1, <2>2 DEF Editor
  <2> HIDE DEF p
  <2>5. Ready(p) BY <1>3, <2>2, <2>4 DEF Ready
  <2> QED BY <1>6, <2>3, <2>5, ReadyKeeps DEF z
<1> QED BY <1>1, <1>5, <1>6

(* Every key, a resize, and escape keep it. *)
LEMMA LineGoesOn == ASSUME LineSizes, LineInv(input), [LxInputNext]_input PROVE LineInv(input')
<1>1. input.result = -1 => Good(input) BY DEF LineInv, Good
<1>2. CASE PressLx
  <2>1. PICK key \in EditKeys :
          input' = KeyLx(IF InField(input, key) /\ (key \in Printable => Len(input.text) < MaxLen)
                           THEN Meant(input, key, {"left"}, {"right"}) ELSE input, key)
    BY <1>2 DEF PressLx
  <2>2. Good(input) /\ input.kind = "lx" BY <1>1, <1>2 DEF PressLx
  <2> QED BY <2>1, <2>2, LxKeyKeeps
<1>3. CASE ResizeLx BY <1>1, <1>3, ResizeKeeps DEF ResizeLx
<1>4. CASE PressNconf
  <2>1. PICK key \in EditKeys \cup {"delete", "home", "end", "help"} :
          input' = DrawNconf(KeyNconf(Meant(input, key, {"left", "down"}, {"right", "up"}), key))
    BY <1>4 DEF PressNconf
  <2>2. Good(input) /\ input.kind = "nconf" BY <1>1, <1>4 DEF PressNconf
  <2>3. Ready(KeyNconf(Meant(input, key, {"left", "down"}, {"right", "up"}), key))
    BY <2>2, NconfKeyKeeps
  <2> QED BY <2>1, <2>3, ReadyKeeps
<1>5. CASE EscapeInput
  <2>1. Good(input) /\ input' = End(input, 27) BY <1>1, <1>5 DEF EscapeInput
  <2>2. input \in Editor BY <2>1, GoodIs
  <2>3. Still(input, input') BY <2>1, <2>2, EndIs
  <2> QED BY <2>1, <2>3, StillKeeps
<1>6. CASE UNCHANGED input BY <1>6
<1> QED BY <1>2, <1>3, <1>4, <1>5, <1>6 DEF LxInputNext

(* What the property says of it. *)
LEMMA LineTold == LineInv(input) => TextAsTyped /\ FieldTrue
<1> SUFFICES ASSUME LineInv(input) PROVE TextAsTyped /\ FieldTrue OBVIOUS
<1>1. TextAsTyped BY DEF LineInv, Typed, TextAsTyped
<1>2. FieldTrue
  <2> SUFFICES ASSUME input.result = -1
               PROVE  /\ input.x \in 0 .. Width - 1 /\ input.show >= 0 /\ input.pos = input.show + input.x
                      /\ \A i \in 1 .. Width :
                           input.field[i] = IF input.show + i <= Len(input.text)
                                              THEN input.text[input.show + i] ELSE " "
    BY DEF FieldTrue
  <2>1. InPlace(input) /\ ShowsText(input) BY DEF LineInv, View
  <2>2. input.show \in Nat /\ input.x \in 0 .. Width - 1 /\ input.pos = input.show + input.x
    BY <2>1 DEF InPlace
  <2>3. \A i \in 1 .. Width : input.field[i] = Cell(input.text, input.show + i) BY <2>1 DEF ShowsText
  <2>4. input.show >= 0 BY <2>2
  <2> QED BY <2>2, <2>3, <2>4 DEF Cell
<1> QED BY <1>1, <1>2

(* For every text, however far it is longer than the field, and every      *)
(* sequence of keys and resizes: what is edited is what was typed, and the *)
(* field shows it from one place on, with the cursor where a key would     *)
(* change it (dialog_inputbox; dialog_inputbox of nconf.gui.c).            *)
THEOREM FieldsTrue == LineSizes => (LxInputSpec => [](TextAsTyped /\ FieldTrue))
<1> SUFFICES ASSUME LineSizes PROVE LxInputSpec => [](TextAsTyped /\ FieldTrue) OBVIOUS
<1>1. LxInputInit => LineInv(input) BY LineBegins
<1>2. LineInv(input) /\ [LxInputNext]_input => LineInv(input)' BY LineGoesOn
<1>3. LineInv(input) => TextAsTyped /\ FieldTrue BY LineTold
<1> QED BY <1>1, <1>2, <1>3, PTL DEF LxInputSpec

(***************************************************************************)
(* The text box.  A text of n lines has s[0] = 0 where the first begins,   *)
(* and s[i] behind the newline of line i; the lines that are drawn, and    *)
(* those that are gone back over, are counted in them.                     *)
(***************************************************************************)
(* n lines in the first k characters, and where they begin and end. *)
Rows(buf, k, n, s) ==
  /\ n \in Nat /\ s \in [0 .. n -> 0 .. k] /\ s[0] = 0
  /\ \A i, j \in 0 .. n : i < j => s[i] < s[j]
  /\ \A at \in 1 .. k : buf[at] = "nl" <=> \E i \in 1 .. n : at = s[i]
Layout(buf, n, s) == Rows(buf, Len(buf), n, s) /\ n > 0 /\ s[n] = Len(buf)

(* A line more, or none. *)
LEMMA RowsGrow ==
  ASSUME NEW buf, NEW k \in Nat, NEW n, NEW s, Rows(buf, k, n, s)
  PROVE  \E m, r : Rows(buf, k + 1, m, r)
<1>1. CASE buf[k + 1] = "nl"
  <2> DEFINE r == [i \in 0 .. n + 1 |-> IF i = n + 1 THEN k + 1 ELSE s[i]]
  <2>0. n \in Nat /\ s \in [0 .. n -> 0 .. k] BY DEF Rows
  <2>1. r \in [0 .. n + 1 -> 0 .. k + 1]
    <3>1. ASSUME NEW i \in 0 .. n + 1 PROVE r[i] \in 0 .. k + 1
      <4>1. CASE i = n + 1 BY <4>1, <2>0
      <4>2. CASE i # n + 1
        <5>1. i \in 0 .. n BY <2>0, <4>2
        <5> QED BY <5>1, <2>0
      <4> QED BY <4>1, <4>2
    <3> QED BY <3>1
  <2>2. ASSUME NEW i \in 0 .. n + 1, NEW j \in 0 .. n + 1, i < j PROVE r[i] < r[j]
    <3>1. i \in 0 .. n /\ r[i] = s[i] BY <2>2, <2>0
    <3>2. s[i] \in 0 .. k BY <2>0, <3>1
    <3>3. CASE j = n + 1 BY <3>1, <3>2, <3>3
    <3>4. CASE j # n + 1
      <4>1. j \in 0 .. n /\ r[j] = s[j] BY <3>4, <2>0
      <4> QED BY <2>2, <3>1, <4>1 DEF Rows
    <3> QED BY <3>3, <3>4
  <2>3. ASSUME NEW at \in 1 .. k + 1 PROVE buf[at] = "nl" <=> \E i \in 1 .. n + 1 : at = r[i]
    <3>1. CASE at = k + 1
      <4>1. n + 1 \in 1 .. n + 1 /\ r[n + 1] = k + 1 BY <2>0
      <4> QED BY <4>1, <3>1, <1>1
    <3>2. CASE at # k + 1
      <4>1. at \in 1 .. k BY <3>2
      <4>2. buf[at] = "nl" <=> \E i \in 1 .. n : at = s[i] BY <4>1 DEF Rows
      <4>3. \A i \in 1 .. n : i \in 1 .. n + 1 /\ r[i] = s[i] BY <2>0
      <4>4. ASSUME NEW i \in 1 .. n + 1, at = r[i] PROVE i \in 1 .. n
        <5>1. i # n + 1 BY <4>4, <3>2
        <5> QED BY <5>1, <2>0
      <4> HIDE DEF r
      <4> QED BY <4>2, <4>3, <4>4
    <3> QED BY <3>1, <3>2
  <2>4. r[0] = 0 BY <2>0 DEF Rows
  <2> HIDE DEF r
  <2>5. Rows(buf, k + 1, n + 1, r) BY <2>0, <2>1, <2>2, <2>3, <2>4 DEF Rows
  <2> QED BY <2>5
<1>2. CASE buf[k + 1] # "nl"
  <2>0. n \in Nat /\ s \in [0 .. n -> 0 .. k] BY DEF Rows
  <2>1. s \in [0 .. n -> 0 .. k + 1] BY <2>0
  <2>2. ASSUME NEW at \in 1 .. k + 1 PROVE buf[at] = "nl" <=> \E i \in 1 .. n : at = s[i]
    <3>1. CASE at = k + 1
      <4>1. \A i \in 1 .. n : s[i] \in 0 .. k BY <2>0
      <4> QED BY <4>1, <3>1, <1>2
    <3>2. CASE at # k + 1
      <4>1. at \in 1 .. k BY <3>2
      <4> QED BY <4>1 DEF Rows
    <3> QED BY <3>1, <3>2
  <2>3. Rows(buf, k + 1, n, s) BY <2>0, <2>1, <2>2 DEF Rows
  <2> QED BY <2>3
<1> QED BY <1>1, <1>2

(* Every text has its lines. *)
LEMMA LayoutExists ==
  ASSUME TextSizes, NEW buf \in Texts
  PROVE  \E n, s : Layout(buf, n, s)
<1>0. Len(buf) \in Nat /\ Len(buf) > 0 /\ buf[Len(buf)] = "nl"
  <2>1. buf \in Seq({"x", "nl"}) /\ Len(buf) > 0 /\ buf[Len(buf)] = "nl" BY DEF TextSizes
  <2> QED BY <2>1
<1> DEFINE S == {k \in Nat : \E n, s : Rows(buf, k, n, s)}
<1>1. 0 \in S
  <2> DEFINE s == [i \in 0 .. 0 |-> 0]
  <2>1. s \in [0 .. 0 -> 0 .. 0] /\ s[0] = 0 OBVIOUS
  <2> HIDE DEF s
  <2>2. Rows(buf, 0, 0, s) BY <2>1 DEF Rows
  <2> QED BY <2>2
<1>2. ASSUME NEW k \in S PROVE k + 1 \in S
  <2>1. k \in Nat /\ \E n, s : Rows(buf, k, n, s) OBVIOUS
  <2>2. \E n, s : Rows(buf, k + 1, n, s) BY <2>1, RowsGrow
  <2> QED BY <2>1, <2>2
<1>3. S = Nat
  <2>1. S \in SUBSET Nat OBVIOUS
  <2> HIDE DEF S
  <2> QED BY <1>1, <1>2, <2>1, NatByStep
<1>4. PICK n, s : Rows(buf, Len(buf), n, s) BY <1>3, <1>0
<1>5. PICK i \in 1 .. n : Len(buf) = s[i] BY <1>4, <1>0 DEF Rows
<1>6. n \in Nat /\ s \in [0 .. n -> 0 .. Len(buf)] BY <1>4 DEF Rows
<1>7. i = n
  <2>1. SUFFICES ASSUME i < n PROVE FALSE BY <1>6
  <2>2. s[i] < s[n] /\ s[n] \in 0 .. Len(buf) BY <1>4, <1>6, <2>1 DEF Rows
  <2> QED BY <2>2, <1>5, <1>0
<1> QED BY <1>4, <1>5, <1>6, <1>7 DEF Layout

KeyNames == TextKeys \cup {"open", "resize", "exit", "again"}
TextBox ==
  [buf : Texts, page : Nat, begin : BOOLEAN, end : BOOLEAN, length : Int, hscroll : Int,
   boxh : Lines, start : Nat, vscroll : Nat, open : BOOLEAN, key : KeyNames, was : Nat]

(* The box stands at line p of its text. *)
StandsAt(t, n, s, p) == t \in TextBox /\ Layout(t.buf, n, s) /\ p \in 0 .. n /\ t.page = s[p]

(* What a layout says of two lines, and of the first and the last. *)
LEMMA LayoutFacts ==
  ASSUME NEW buf, NEW n, NEW s, Layout(buf, n, s)
  PROVE  /\ n \in Nat /\ n > 0 /\ s \in [0 .. n -> Nat] /\ s[0] = 0 /\ s[n] = Len(buf)
         /\ \A i \in 0 .. n : s[i] \in 0 .. Len(buf)
         /\ \A i, j \in 0 .. n : i < j <=> s[i] < s[j]
         /\ \A i, j \in 0 .. n : i = j <=> s[i] = s[j]
         /\ \A i \in 1 .. n : buf[s[i]] = "nl" /\ s[i] \in 1 .. Len(buf)
         /\ \A at \in 1 .. Len(buf) : buf[at] = "nl" => \E i \in 1 .. n : at = s[i]
<1>1. n \in Nat /\ n > 0 /\ s \in [0 .. n -> 0 .. Len(buf)] /\ s[0] = 0 /\ s[n] = Len(buf)
  BY DEF Layout, Rows
<1>2. \A i, j \in 0 .. n : i < j => s[i] < s[j] BY DEF Layout, Rows
<1>3. \A i \in 0 .. n : s[i] \in 0 .. Len(buf) BY <1>1
<1>4. \A i \in 0 .. n : s[i] \in Nat
  <2>1. \A x : x \in 0 .. Len(buf) => x \in Nat OBVIOUS
  <2> QED BY <2>1, <1>3
<1>5. ASSUME NEW i \in 0 .. n, NEW j \in 0 .. n PROVE (i < j <=> s[i] < s[j]) /\ (i = j <=> s[i] = s[j])
  <2>1. s[i] \in Nat /\ s[j] \in Nat /\ i \in Int /\ j \in Int BY <1>4, <1>1
  <2>2. (i < j => s[i] < s[j]) /\ (j < i => s[j] < s[i]) BY <1>2
  <2> QED BY <2>1, <2>2
<1>6. s \in [0 .. n -> Nat] BY <1>1, <1>4
<1>7. \A at \in 1 .. Len(buf) : buf[at] = "nl" <=> \E i \in 1 .. n : at = s[i] BY DEF Layout, Rows
<1>8. ASSUME NEW i \in 1 .. n PROVE buf[s[i]] = "nl" /\ s[i] \in 1 .. Len(buf)
  <2>1. 0 \in 0 .. n /\ i \in 0 .. n /\ 0 < i BY <1>1
  <2>2. s[0] < s[i] BY <2>1, <1>5
  <2>3. s[i] \in 0 .. Len(buf) /\ s[i] \in Nat BY <2>1, <1>3, <1>4
  <2>4. s[i] \in 1 .. Len(buf) BY <2>2, <2>3, <1>1
  <2> QED BY <2>4, <1>7
<1> QED BY <1>1, <1>3, <1>5, <1>6, <1>7, <1>8

(* What a line more or a line back makes of a box at line p. *)
OneLine(t, n, s, p) ==
  IF p = n THEN [t EXCEPT !.end = TRUE] ELSE [t EXCEPT !.page = s[p + 1], !.end = FALSE]
OneBack(t, s, p) ==
  [t EXCEPT !.page = s[p - 1], !.begin = IF p = 1 THEN TRUE ELSE t.begin]

(* get_line goes to the next line, and behind the last one says so. *)
LEMMA GetLineIs ==
  ASSUME TextSizes, NEW t, NEW n, NEW s, NEW p, StandsAt(t, n, s, p)
  PROVE  GetLine(t) = OneLine(t, n, s, p)
<1> DEFINE buf == t.buf
<1>0. t \in TextBox /\ Layout(buf, n, s) /\ p \in 0 .. n /\ t.page = s[p] BY DEF StandsAt
<1>1. n \in Nat /\ n > 0 /\ s \in [0 .. n -> Nat] /\ s[0] = 0 /\ s[n] = Len(buf)
  BY <1>0, LayoutFacts
<1>2. \A i \in 0 .. n : s[i] \in 0 .. Len(buf) BY <1>0, LayoutFacts
<1>3. \A i, j \in 0 .. n : i < j <=> s[i] < s[j] BY <1>0, LayoutFacts
<1>4. \A i \in 1 .. n : buf[s[i]] = "nl" /\ s[i] \in 1 .. Len(buf) BY <1>0, LayoutFacts
<1>5. \A at \in 1 .. Len(buf) : buf[at] = "nl" => \E i \in 1 .. n : at = s[i] BY <1>0, LayoutFacts
<1>6. CASE p = n
  <2>1. LineEnds(t) = {}
    <3>1. t.page = Len(buf) /\ Len(buf) \in Nat BY <1>6, <1>0, <1>1
    <3> QED BY <3>1 DEF LineEnds
  <2>2. [t EXCEPT !.page = Len(t.buf), !.end = TRUE] = [t EXCEPT !.end = TRUE]
    BY <1>0, <1>1, <1>6 DEF TextBox
  <2> QED BY <2>1, <2>2, <1>6 DEF GetLine, OneLine
<1>7. CASE p # n
  <2>1. p + 1 \in 1 .. n /\ p \in 0 .. n /\ p + 1 \in 0 .. n /\ p < p + 1 BY <1>0, <1>1, <1>7
  <2>2. s[p] < s[p + 1] /\ s[p] \in Nat /\ s[p + 1] \in 1 .. Len(buf) /\ buf[s[p + 1]] = "nl"
    BY <2>1, <1>1, <1>3, <1>4
  <2> DEFINE next == s[p + 1] - 1
  <2>3. next \in LineEnds(t)
    <3>1. next \in t.page .. Len(buf) - 1 /\ next + 1 = s[p + 1] BY <2>2, <1>0
    <3> QED BY <3>1, <2>2 DEF LineEnds, IsNl
  <2>4. ASSUME NEW at \in LineEnds(t) PROVE next <= at
    <3>1. at \in t.page .. Len(buf) - 1 /\ buf[at + 1] = "nl" BY DEF LineEnds, IsNl
    <3>2. at \in Int /\ s[p] <= at /\ at <= Len(buf) - 1 /\ Len(buf) \in Nat BY <3>1, <1>0, <1>1, <2>1
    <3>3. at + 1 \in 1 .. Len(buf) BY <3>2, <2>2
    <3>4. PICK i \in 1 .. n : at + 1 = s[i] BY <3>1, <3>3, <1>5
    <3>5. i \in 0 .. n /\ s[p] < s[i] BY <3>2, <3>4, <2>2, <1>1
    <3>6. p < i BY <3>5, <2>1, <1>3
    <3>7. i = p + 1 \/ p + 1 < i BY <3>5, <3>6, <2>1
    <3>8. s[p + 1] <= s[i]
      <4>1. CASE i = p + 1 BY <4>1, <2>2
      <4>2. CASE p + 1 < i
        <5>1. s[p + 1] < s[i] BY <4>2, <2>1, <3>5, <1>3
        <5>2. s[i] \in Nat BY <3>5, <1>1
        <5> QED BY <5>1, <5>2, <2>2
      <4> QED BY <4>1, <4>2, <3>7
    <3> QED BY <3>8, <3>4, <3>2, <2>2
  <2>5. \A at \in LineEnds(t) : at \in Int BY <1>0 DEF LineEnds, TextBox
  <2>6. next \in Int BY <2>2
  <2> HIDE DEF next
  <2>7. Nearest(LineEnds(t)) = next
    <3>1. \E at \in LineEnds(t) : \A other \in LineEnds(t) : at <= other BY <2>3, <2>4
    <3>2. Nearest(LineEnds(t)) \in LineEnds(t)
          /\ \A other \in LineEnds(t) : Nearest(LineEnds(t)) <= other
      BY <3>1 DEF Nearest
    <3>3. Nearest(LineEnds(t)) <= next /\ next <= Nearest(LineEnds(t)) BY <3>2, <2>3, <2>4
    <3> QED BY <3>2, <3>3, <2>5, <2>6
  <2>8. Nearest(LineEnds(t)) + 1 = s[p + 1] BY <2>7, <2>2 DEF next
  <2>9. LineEnds(t) # {} BY <2>3
  <2> QED BY <2>8, <2>9, <1>7 DEF GetLine, OneLine
<1> QED BY <1>6, <1>7

(* A line back, from any line but the first. *)
LEMMA BackLineIs ==
  ASSUME TextSizes, NEW t, NEW n, NEW s, NEW p, StandsAt(t, n, s, p), p > 0
  PROVE  BackLine(t) = OneBack(t, s, p)
<1> DEFINE buf == t.buf
<1>0. t \in TextBox /\ Layout(buf, n, s) /\ p \in 0 .. n /\ t.page = s[p] BY DEF StandsAt
<1>1. n \in Nat /\ n > 0 /\ s \in [0 .. n -> Nat] /\ s[0] = 0 /\ s[n] = Len(buf)
  BY <1>0, LayoutFacts
<1>2. \A i \in 0 .. n : s[i] \in 0 .. Len(buf) BY <1>0, LayoutFacts
<1>3. \A i, j \in 0 .. n : i < j <=> s[i] < s[j] BY <1>0, LayoutFacts
<1>4. \A i \in 1 .. n : buf[s[i]] = "nl" /\ s[i] \in 1 .. Len(buf) BY <1>0, LayoutFacts
<1>5. \A at \in 1 .. Len(buf) : buf[at] = "nl" => \E i \in 1 .. n : at = s[i] BY <1>0, LayoutFacts
<1>6. p - 1 \in 0 .. n /\ p \in 0 .. n /\ p - 1 < p /\ p \in Int BY <1>0, <1>1
<1>7. s[p - 1] < s[p] /\ s[p - 1] \in Nat /\ s[p] \in Nat /\ s[p] <= Len(buf)
  BY <1>6, <1>3, <1>1, <1>2
<1>9. Len(buf) \in Nat BY <1>1
<1>8. ASSUME NEW at \in LineStarts(t)
      PROVE  at \in Nat /\ at < s[p] /\ at <= s[p - 1] /\ (at # 0 => \E i \in 1 .. p - 1 : at = s[i])
  <2>1. at \in 0 .. t.page - 1 /\ (at = 0 \/ buf[at - 1 + 1] = "nl") BY DEF LineStarts, IsNl
  <2>2. at \in Nat /\ at < s[p] BY <2>1, <1>0, <1>7
  <2>3. CASE at = 0 BY <2>3, <2>2, <1>7
  <2>4. CASE at # 0
    <3>1. at \in 1 .. Len(buf) /\ at - 1 + 1 = at BY <2>4, <2>2, <1>7, <1>9
    <3>2. buf[at] = "nl" BY <2>1, <2>4, <3>1
    <3>3. PICK i \in 1 .. n : at = s[i] BY <3>1, <3>2, <1>5
    <3>4. i \in 0 .. n /\ i < p BY <3>3, <2>2, <1>3, <1>6, <1>1
    <3>5. i \in 1 .. p - 1 BY <3>4, <1>6
    <3>6. i = p - 1 \/ i < p - 1 BY <3>5, <1>6
    <3>7. s[i] <= s[p - 1]
      <4>1. CASE i = p - 1 BY <4>1, <1>7
      <4>2. CASE i < p - 1
        <5>1. s[i] < s[p - 1] BY <4>2, <3>4, <1>6, <1>3
        <5>2. s[i] \in Nat BY <3>4, <1>1
        <5> QED BY <5>1, <5>2, <1>7
      <4> QED BY <4>1, <4>2, <3>6
    <3> QED BY <2>2, <3>3, <3>5, <3>7
  <2> QED BY <2>3, <2>4
<1>10. CASE p = 1
  <2>1. LineStarts(t) \in {{}, {0}}
    <3>1. \A at \in LineStarts(t) : at = 0 BY <1>8, <1>10, <1>1
    <3> QED BY <3>1
  <2>2. BackLine(t) = [t EXCEPT !.page = 0, !.begin = TRUE] BY <2>1 DEF BackLine, Begin
  <2>3. s[p - 1] = 0 /\ (IF p = 1 THEN TRUE ELSE t.begin) = TRUE BY <1>10, <1>1
  <2> QED BY ONLY <2>2, <2>3 DEF OneBack
<1>11. CASE p # 1
  <2>1. p - 1 \in 1 .. n BY <1>11, <1>6, <1>1
  <2>2. s[p - 1] \in 1 .. Len(buf) /\ buf[s[p - 1]] = "nl" BY <2>1, <1>4
  <2>3. s[p - 1] \in LineStarts(t)
    <3>1. s[p - 1] \in 0 .. t.page - 1 /\ s[p - 1] - 1 + 1 = s[p - 1] BY <1>7, <1>0
    <3> QED BY <3>1, <2>2 DEF LineStarts, IsNl
  <2>4. LineStarts(t) \notin {{}, {0}}
    <3>1. s[p - 1] # 0 BY <2>2
    <3> QED BY <2>3, <3>1
  <2>5. Farthest(LineStarts(t)) = s[p - 1]
    <3>1. \A other \in LineStarts(t) : s[p - 1] >= other BY <1>8, <1>7
    <3>2. \E at \in LineStarts(t) : \A other \in LineStarts(t) : at >= other BY <3>1, <2>3
    <3>3. Farthest(LineStarts(t)) \in LineStarts(t)
          /\ \A other \in LineStarts(t) : Farthest(LineStarts(t)) >= other
      BY <3>2 DEF Farthest
    <3>4. Farthest(LineStarts(t)) >= s[p - 1] /\ Farthest(LineStarts(t)) <= s[p - 1]
          /\ Farthest(LineStarts(t)) \in Nat
      BY <3>3, <2>3, <1>8
    <3> QED BY <3>4, <1>7
  <2>6. BackLine(t) = [t EXCEPT !.page = s[p - 1]] BY <2>4, <2>5 DEF BackLine
  <2> DEFINE x == s[p - 1]
  <2> HIDE DEF x
  <2>7. [t EXCEPT !.page = x] = [t EXCEPT !.page = x, !.begin = t.begin] BY <1>0 DEF TextBox
  <2>8. [t EXCEPT !.page = s[p - 1]] = [t EXCEPT !.page = s[p - 1], !.begin = t.begin]
    BY <2>7 DEF x
  <2>9. (IF p = 1 THEN TRUE ELSE t.begin) = t.begin BY <1>11
  <2>10. [t EXCEPT !.page = s[p - 1], !.begin = IF p = 1 THEN TRUE ELSE t.begin]
           = [t EXCEPT !.page = s[p - 1], !.begin = t.begin]
    BY ONLY <2>9, Zenon
  <2> QED BY ONLY <2>6, <2>8, <2>10 DEF OneBack
<1> QED BY <1>10, <1>11

(* What i lines make of the box, and what going back over k lines does.    *)
Upto(a, b) == IF a > b THEN b ELSE a
AfterLines(t, n, s, p, i) ==
  [t EXCEPT !.page = s[Upto(p + i, n)], !.end = IF i = 0 THEN t.end ELSE p + i > n]
Eaten(t, n, p, k) == IF p = n /\ t.end /\ k > 0 THEN k - 1 ELSE k
Above(p, m) == IF m >= p THEN 0 ELSE p - m
AfterBack(t, n, s, p, k) ==
  [t EXCEPT !.page = s[Above(p, Eaten(t, n, p, k))], !.begin = Eaten(t, n, p, k) >= p,
            !.end = t.end /\ ~(p = n /\ k > 0)]

(* One more of either kind. *)
LEMMA AfterLinesGrow ==
  ASSUME TextSizes, NEW t, NEW n, NEW s, NEW p, StandsAt(t, n, s, p), NEW i \in Nat
  PROVE  /\ AfterLines(t, n, s, p, 0) = t
         /\ StandsAt(AfterLines(t, n, s, p, i), n, s, Upto(p + i, n))
         /\ GetLine(AfterLines(t, n, s, p, i)) = AfterLines(t, n, s, p, i + 1)
<1> DEFINE q == Upto(p + i, n)  u == AfterLines(t, n, s, p, i)
<1>0. t \in TextBox /\ Layout(t.buf, n, s) /\ p \in 0 .. n /\ t.page = s[p] BY DEF StandsAt
<1>1. n \in Nat /\ n > 0 /\ s \in [0 .. n -> Nat] BY <1>0, LayoutFacts
<1>2. q \in 0 .. n /\ s[q] \in Nat
  <2>1. q \in 0 .. n BY <1>0, <1>1 DEF Upto
  <2> QED BY <2>1, <1>1
<1>3. AfterLines(t, n, s, p, 0) = t
  <2>1. Upto(p + 0, n) = p BY <1>0, <1>1 DEF Upto
  <2>2. AfterLines(t, n, s, p, 0) = [t EXCEPT !.page = s[p], !.end = t.end]
    BY <2>1 DEF AfterLines
  <2> QED BY <2>2, <1>0 DEF TextBox
<1> DEFINE e == IF i = 0 THEN t.end ELSE p + i > n
<1>4. u = [t EXCEPT !.page = s[q], !.end = e] BY DEF AfterLines
<1>5. e \in BOOLEAN
  <2>1. t.end \in BOOLEAN /\ (p + i > n) \in BOOLEAN BY <1>0 DEF TextBox
  <2> QED BY <2>1
<1> HIDE DEF e, u, q
<1>6. u \in TextBox /\ u.buf = t.buf /\ u.page = s[q] /\ u.end = e BY <1>0, <1>2, <1>4, <1>5 DEF TextBox
<1>7. StandsAt(u, n, s, q) BY <1>6, <1>0, <1>2 DEF StandsAt
<1>8. GetLine(u) = OneLine(u, n, s, q) BY <1>7, GetLineIs
<1>9. GetLine(u) = AfterLines(t, n, s, p, i + 1)
  <2>0. AfterLines(t, n, s, p, i + 1) = [t EXCEPT !.page = s[Upto(p + (i + 1), n)], !.end = p + (i + 1) > n]
    <3>1. i + 1 # 0 OBVIOUS
    <3> QED BY <3>1 DEF AfterLines
  <2>1. CASE p + i >= n
    <3>1. q = n /\ Upto(p + (i + 1), n) = n /\ (p + (i + 1) > n) = TRUE
      BY <2>1, <1>0, <1>1 DEF Upto, q
    <3>2. GetLine(u) = [t EXCEPT !.page = s[n], !.end = TRUE]
      <4>1. GetLine(u) = [u EXCEPT !.end = TRUE] BY <1>8, <3>1 DEF OneLine
      <4>2. u = [t EXCEPT !.page = s[n], !.end = e] BY <1>4, <3>1
      <4> DEFINE x == s[n]
      <4> HIDE DEF x
      <4>3. u = [t EXCEPT !.page = x, !.end = e] BY <4>2 DEF x
      <4>4. GetLine(u) = [t EXCEPT !.page = x, !.end = TRUE] BY <4>1, <4>3, <1>0 DEF TextBox
      <4> QED BY <4>4 DEF x
    <3> QED BY <3>2, <2>0, <3>1
  <2>2. CASE ~(p + i >= n)
    <3>1. q # n /\ Upto(p + (i + 1), n) = q + 1 /\ (p + (i + 1) > n) = FALSE
      BY <2>2, <1>0, <1>1 DEF Upto, q
    <3>2. GetLine(u) = [t EXCEPT !.page = s[q + 1], !.end = FALSE]
      <4> DEFINE x == s[q + 1]
      <4>1. GetLine(u) = [u EXCEPT !.page = x, !.end = FALSE] BY <1>8, <3>1 DEF OneLine
      <4> HIDE DEF x
      <4> DEFINE v == s[q]
      <4>3. u = [t EXCEPT !.page = v, !.end = e] BY <1>4
      <4> HIDE DEF v
      <4>2. GetLine(u) = [t EXCEPT !.page = x, !.end = FALSE] BY <4>1, <4>3, <1>0 DEF TextBox
      <4> QED BY <4>2 DEF x
    <3> QED BY <3>2, <2>0, <3>1
  <2> QED BY <2>1, <2>2
<1> QED BY <1>3, <1>7, <1>9 DEF u, q

(* A step back more: it drops the line behind the end, or a line of the    *)
(* text, or stays where the text begins.                                   *)
LEMMA AfterBackGrow ==
  ASSUME TextSizes, NEW t, NEW n, NEW s, NEW p, StandsAt(t, n, s, p), p > 0, NEW k \in Nat
  PROVE  /\ AfterBack(t, n, s, p, 0) = [t EXCEPT !.begin = FALSE]
         /\ StandsAt(AfterBack(t, n, s, p, k), n, s, Above(p, Eaten(t, n, p, k)))
         /\ StepBack(AfterBack(t, n, s, p, k)) = AfterBack(t, n, s, p, k + 1)
<1> DEFINE m == Eaten(t, n, p, k)  q == Above(p, m)  u == AfterBack(t, n, s, p, k)
           e == t.end /\ ~(p = n /\ k > 0)
<1>0. t \in TextBox /\ Layout(t.buf, n, s) /\ p \in 0 .. n /\ t.page = s[p] BY DEF StandsAt
<1>1. n \in Nat /\ n > 0 /\ s \in [0 .. n -> Nat] /\ s[n] = Len(t.buf) BY <1>0, LayoutFacts
<1>a. t.end \in BOOLEAN /\ t.begin \in BOOLEAN BY <1>0 DEF TextBox
<1>2. m \in Nat /\ q \in 0 .. n
  <2>1. m \in Nat BY DEF Eaten
  <2>2. q \in 0 .. n
    <3> HIDE DEF m
    <3> QED BY <2>1, <1>0, <1>1 DEF Above
  <2> QED BY <2>1, <2>2
<1>b. s[q] \in Nat BY <1>1, <1>2
<1>3. AfterBack(t, n, s, p, 0) = [t EXCEPT !.begin = FALSE]
  <2>1. Eaten(t, n, p, 0) = 0 BY DEF Eaten
  <2>2. Above(p, 0) = p /\ (0 >= p) = FALSE BY <1>0, <1>1 DEF Above
  <2>3. (t.end /\ ~(p = n /\ 0 > 0)) = t.end BY <1>a
  <2>4. AfterBack(t, n, s, p, 0) = [t EXCEPT !.page = s[p], !.begin = FALSE, !.end = t.end]
    BY <2>1, <2>2, <2>3 DEF AfterBack
  <2> QED BY <2>4, <1>0 DEF TextBox
<1>4. u = [t EXCEPT !.page = s[q], !.begin = m >= p, !.end = e] BY DEF AfterBack
<1>5. e \in BOOLEAN /\ (m >= p) \in BOOLEAN BY <1>a
<1>c. AfterBack(t, n, s, p, k + 1)
        = [t EXCEPT !.page = s[Above(p, Eaten(t, n, p, k + 1))], !.begin = Eaten(t, n, p, k + 1) >= p,
                    !.end = t.end /\ p # n]
  <2>1. (t.end /\ ~(p = n /\ k + 1 > 0)) = (t.end /\ p # n) OBVIOUS
  <2> QED BY <2>1 DEF AfterBack
<1>d. m + 1 = Eaten(t, n, p, k + 1) \/ (p = n /\ t.end /\ k = 0 /\ m = 0 /\ Eaten(t, n, p, k + 1) = 0)
  BY DEF Eaten
<1>h. p = n /\ t.end /\ k = 0 => Eaten(t, n, p, k + 1) = 0 BY DEF Eaten
<1>i. q = n <=> (p = n /\ m = 0)
  <2> HIDE DEF m
  <2> QED BY <1>0, <1>1, <1>2 DEF Above
<1>j. p = n /\ t.end /\ k > 0 /\ m = 0 => ~e OBVIOUS
<1>g. q = 0 <=> m >= p
  <2> HIDE DEF m
  <2> QED BY <1>0, <1>1, <1>2 DEF Above
<1> DEFINE b == m >= p
<1>k. e => t.end OBVIOUS
<1>n. e /\ p = n => k = 0 OBVIOUS
<1>o. k = 0 /\ t.end => e OBVIOUS
<1>q. p # n => e = t.end BY <1>a
<1>r. p = n /\ k > 0 => e = FALSE OBVIOUS
<1>s. ~t.end => e = FALSE OBVIOUS
<1>t. s[Above(p, m)] = s[q] OBVIOUS
<1>6. u \in TextBox /\ u.buf = t.buf /\ u.page = s[q] /\ u.end = e /\ u.begin = (m >= p)
  <2> HIDE DEF e, u, q, m
  <2> QED BY <1>0, <1>b, <1>4, <1>5 DEF TextBox
<1>7. StandsAt(u, n, s, q)
  <2> HIDE DEF u, q
  <2> QED BY <1>6, <1>0, <1>2 DEF StandsAt
<1>8. BehindEnd(u) <=> (q = n /\ e)
  <2>1. \A i, j \in 0 .. n : i = j <=> s[i] = s[j] BY <1>0, LayoutFacts
  <2>2. n \in 0 .. n BY <1>1
  <2> HIDE DEF u, q, e
  <2> QED BY <2>1, <2>2, <1>1, <1>2, <1>6 DEF BehindEnd, AtEnd
<1>9. StepBack(u) = AfterBack(t, n, s, p, k + 1)
  <2>1. CASE m >= p
    <3>1. StepBack(u) = u
      <4> HIDE DEF u
      <4> QED BY <2>1, <1>6 DEF StepBack
    <3>2. m # 0 BY <2>1, <1>0, <1>1
    <3>3. Eaten(t, n, p, k + 1) = m + 1 BY <1>d, <3>2
    <3>4. q = 0 BY <2>1, <1>g
    <3>5. Above(p, m + 1) = 0 /\ (m + 1 >= p) = TRUE /\ (m >= p) = TRUE
      <4> HIDE DEF m
      <4> QED BY <2>1, <1>0, <1>1, <1>2 DEF Above
    <3>6. e = (t.end /\ p # n)
      <4>1. k # 0
        <5>1. k = 0 => m = 0 BY DEF Eaten
        <5> QED BY <5>1, <3>2
      <4> QED BY <4>1, <1>a
    <3> HIDE DEF e, u, q, m
    <3> QED BY <3>1, <1>4, <1>c, <3>3, <3>4, <3>5, <3>6
  <2>2. CASE ~(m >= p) /\ q = n /\ e
    <3>1. StepBack(u) = [u EXCEPT !.end = FALSE]
      <4> HIDE DEF u, q, e, m
      <4> QED BY <2>2, <1>6, <1>8 DEF StepBack
    <3>2. p = n /\ m = 0 BY <2>2, <1>i
    <3>3. k = 0 BY <1>n, <2>2, <3>2
    <3>4. Eaten(t, n, p, k + 1) = 0 BY <1>h, <3>2, <3>3, <2>2, <1>k
    <3>5. (t.end /\ p # n) = FALSE BY <3>2
    <3> HIDE DEF e, u, q, m
    <3>6. Above(p, 0) = q BY <3>2, <2>2, <1>0, <1>1 DEF Above
    <3>7. AfterBack(t, n, s, p, k + 1) = [t EXCEPT !.page = s[q], !.begin = m >= p, !.end = FALSE]
      BY <1>c, <3>4, <3>5, <3>6, <3>2
    <3> DEFINE x == s[q]  y == m >= p
    <3>8. u = [t EXCEPT !.page = x, !.begin = y, !.end = e] BY <1>4
    <3> HIDE DEF x, y
    <3>9. [u EXCEPT !.end = FALSE] = [t EXCEPT !.page = x, !.begin = y, !.end = FALSE]
      BY <3>8, <1>0 DEF TextBox
    <3> QED BY <3>1, <3>7, <3>9 DEF x, y
  <2>3. CASE ~(m >= p) /\ ~(q = n /\ e)
    <3>1. StepBack(u) = BackLine(u)
      <4> HIDE DEF u, q, e, m
      <4> QED BY <2>3, <1>6, <1>8 DEF StepBack
    <3>2. q > 0 BY <2>3, <1>g, <1>2
    <3>3. StepBack(u) = OneBack(u, s, q)
      <4> HIDE DEF u, q, e, m
      <4> QED BY <3>1, <3>2, <1>7, BackLineIs
    <3>4. Eaten(t, n, p, k + 1) = m + 1 BY <1>d, <2>3, <1>i, <1>o
    <3>5. e = (t.end /\ p # n)
      <4>1. CASE p # n BY <4>1, <1>q, <1>a
      <4>2. CASE p = n
        <5>1. e = FALSE BY <4>2, <1>r, <1>s, <1>i, <2>3 DEF Eaten
        <5> QED BY <5>1, <4>2
      <4> QED BY <4>1, <4>2
    <3> HIDE DEF e, u, m
    <3>6. Above(p, m + 1) = q - 1 /\ (m + 1 >= p) = (q = 1) BY <2>3, <1>0, <1>1, <1>2 DEF Above
    <3> HIDE DEF q
    <3> DEFINE x == s[q - 1]  y == q = 1
    <3>7. (IF q = 1 THEN TRUE ELSE u.begin) = y
      <4>1. u.begin = FALSE
        <5> DEFINE w == m >= p
        <5>1. u.begin = w /\ ~w /\ w \in BOOLEAN BY <1>6, <2>3
        <5> HIDE DEF w
        <5> QED BY <5>1
      <4> QED BY <4>1
    <3>8. StepBack(u) = [u EXCEPT !.page = x, !.begin = y]
      <4> HIDE DEF x, y
      <4>1. x = s[q - 1] BY DEF x
      <4> QED BY ONLY <3>3, <3>7, <4>1 DEF OneBack
    <3>9. AfterBack(t, n, s, p, k + 1) = [t EXCEPT !.page = x, !.begin = y, !.end = e]
      BY <1>c, <3>4, <3>5, <3>6
    <3> DEFINE v == s[q]  w == m >= p
    <3>10. u = [t EXCEPT !.page = v, !.begin = w, !.end = e] BY <1>4
    <3> HIDE DEF x, y, v, w
    <3>11. [u EXCEPT !.page = x, !.begin = y] = [t EXCEPT !.page = x, !.begin = y, !.end = e]
      BY <3>10, <1>0 DEF TextBox
    <3> QED BY <3>8, <3>9, <3>11
  <2> QED BY <2>1, <2>2, <2>3
<1> QED BY <1>3, <1>7, <1>9

(* The loops come to what one more line, or one line back, adds up to.     *)
LEMMA GetLinesIs ==
  ASSUME TextSizes, NEW t, NEW n, NEW s, NEW p, StandsAt(t, n, s, p), NEW h \in Nat
  PROVE  GetLines(t, h) = [i \in 0 .. h |-> AfterLines(t, n, s, p, i)]
<1> DEFINE Runs(f) == f = [i \in 0 .. h |-> IF i = 0 THEN t ELSE GetLine(f[i - 1])]
           g == [i \in 0 .. h |-> AfterLines(t, n, s, p, i)]
<1>0. AfterLines(t, n, s, p, 0) = t BY AfterLinesGrow
<1>1. \A i \in Nat : GetLine(AfterLines(t, n, s, p, i)) = AfterLines(t, n, s, p, i + 1)
  BY AfterLinesGrow
<1>2. Runs(g)
  <2>1. ASSUME NEW i \in 0 .. h PROVE g[i] = IF i = 0 THEN t ELSE GetLine(g[i - 1])
    <3>1. CASE i = 0 BY <3>1, <1>0
    <3>2. CASE i # 0
      <4>1. i - 1 \in 0 .. h /\ i - 1 \in Nat /\ i - 1 + 1 = i BY <3>2
      <4>2. g[i - 1] = AfterLines(t, n, s, p, i - 1) BY <4>1
      <4>3. GetLine(g[i - 1]) = AfterLines(t, n, s, p, i) BY <4>2, <4>1, <1>1
      <4> QED BY <4>3, <3>2
    <3> QED BY <3>1, <3>2
  <2> QED BY <2>1
<1>3. Runs(GetLines(t, h))
  <2>1. GetLines(t, h) = CHOOSE f : Runs(f) BY DEF GetLines
  <2> HIDE DEF g, Runs
  <2> QED BY <2>1, <1>2
<1> DEFINE f == GetLines(t, h)
           S == {i \in Nat : i <= h => f[i] = g[i]}
<1> HIDE DEF f
<1>4. f = [i \in 0 .. h |-> IF i = 0 THEN t ELSE GetLine(f[i - 1])] BY <1>3 DEF f
<1>5. 0 \in S
  <2>1. 0 \in 0 .. h OBVIOUS
  <2>2. f[0] = t BY <1>4, <2>1
  <2>3. g[0] = t BY <2>1, <1>0
  <2> QED BY <2>2, <2>3
<1>6. ASSUME NEW i \in S PROVE i + 1 \in S
  <2>1. SUFFICES ASSUME i + 1 <= h PROVE f[i + 1] = g[i + 1] OBVIOUS
  <2>2. i \in 0 .. h /\ i + 1 \in 0 .. h /\ i + 1 # 0 /\ (i + 1) - 1 = i BY <2>1
  <2>3. f[i] = g[i] BY <2>1
  <2>4. f[i + 1] = GetLine(f[i])
    <3>1. f[i + 1] = IF i + 1 = 0 THEN t ELSE GetLine(f[(i + 1) - 1]) BY <1>4, <2>2
    <3> QED BY <3>1, <2>2
  <2>5. g[i] = AfterLines(t, n, s, p, i) /\ g[i + 1] = AfterLines(t, n, s, p, i + 1) BY <2>2
  <2> QED BY <2>3, <2>4, <2>5, <1>1
<1>7. S = Nat
  <2>1. S \in SUBSET Nat OBVIOUS
  <2> HIDE DEF S
  <2> QED BY <1>5, <1>6, <2>1, NatByStep
<1>8. \A i \in 0 .. h : f[i] = g[i]
  <2>1. \A i \in 0 .. h : i \in Nat /\ i <= h OBVIOUS
  <2> QED BY <1>7, <2>1
<1>9. f = g
  <2>1. f = [i \in 0 .. h |-> f[i]] BY <1>4
  <2> QED BY <2>1, <1>8
<1> QED BY <1>9 DEF f

Steps(k) == IF k > 0 THEN k ELSE 0
(* Going back k lines, and none when k is not positive. *)
LEMMA BackLinesIs ==
  ASSUME TextSizes, NEW t, NEW n, NEW s, NEW p, StandsAt(t, n, s, p), p > 0, NEW k \in Int
  PROVE  BackLines(t, k) = AfterBack(t, n, s, p, Steps(k))
<1> DEFINE h == Steps(k)
<1>a. h \in Nat BY DEF Steps
<1>b. BackLines(t, k)
        = LET back[i \in 0 .. h] == IF i = 0 THEN [t EXCEPT !.begin = FALSE] ELSE StepBack(back[i - 1])
          IN back[h]
  BY DEF BackLines, Steps
<1> HIDE DEF h
<1> DEFINE first == [t EXCEPT !.begin = FALSE]
           Runs(f) == f = [i \in 0 .. h |-> IF i = 0 THEN first ELSE StepBack(f[i - 1])]
           g == [i \in 0 .. h |-> AfterBack(t, n, s, p, i)]
           f == CHOOSE x : Runs(x)
           S == {i \in Nat : i <= h => f[i] = g[i]}
<1>0. AfterBack(t, n, s, p, 0) = first BY AfterBackGrow
<1>1. \A i \in Nat : StepBack(AfterBack(t, n, s, p, i)) = AfterBack(t, n, s, p, i + 1)
  BY AfterBackGrow
<1>c. BackLines(t, k) = f[h] BY <1>b
<1> HIDE DEF first
<1>2. Runs(g)
  <2>1. ASSUME NEW i \in 0 .. h PROVE g[i] = IF i = 0 THEN first ELSE StepBack(g[i - 1])
    <3>1. CASE i = 0 BY <3>1, <1>0
    <3>2. CASE i # 0
      <4>1. i - 1 \in 0 .. h /\ i - 1 \in Nat /\ i - 1 + 1 = i BY <3>2, <1>a
      <4>2. g[i - 1] = AfterBack(t, n, s, p, i - 1) BY <4>1
      <4>3. StepBack(g[i - 1]) = AfterBack(t, n, s, p, i) BY <4>2, <4>1, <1>1
      <4> QED BY <4>3, <3>2
    <3> QED BY <3>1, <3>2
  <2> QED BY <2>1
<1>3. Runs(f)
  <2> HIDE DEF g, Runs
  <2> QED BY <1>2
<1> HIDE DEF f
<1>4. f = [i \in 0 .. h |-> IF i = 0 THEN first ELSE StepBack(f[i - 1])] BY <1>3
<1>5. 0 \in S
  <2>1. 0 \in 0 .. h BY <1>a
  <2>2. f[0] = first BY <1>4, <2>1
  <2>3. g[0] = first BY <2>1, <1>0
  <2> QED BY <2>2, <2>3
<1>6. ASSUME NEW i \in S PROVE i + 1 \in S
  <2>1. SUFFICES ASSUME i + 1 <= h PROVE f[i + 1] = g[i + 1] OBVIOUS
  <2>2. i \in 0 .. h /\ i + 1 \in 0 .. h /\ i + 1 # 0 /\ (i + 1) - 1 = i BY <2>1, <1>a
  <2>3. f[i] = g[i] BY <2>1, <1>a
  <2>4. f[i + 1] = StepBack(f[i])
    <3>1. f[i + 1] = IF i + 1 = 0 THEN first ELSE StepBack(f[(i + 1) - 1]) BY <1>4, <2>2
    <3> QED BY <3>1, <2>2
  <2>5. g[i] = AfterBack(t, n, s, p, i) /\ g[i + 1] = AfterBack(t, n, s, p, i + 1) BY <2>2
  <2> QED BY <2>3, <2>4, <2>5, <1>1
<1>7. S = Nat
  <2>1. S \in SUBSET Nat OBVIOUS
  <2> HIDE DEF S
  <2> QED BY <1>5, <1>6, <2>1, NatByStep
<1>8. f[h] = g[h]
  <2>1. h \in S BY <1>7, <1>a
  <2> QED BY <2>1, <1>a
<1>9. g[h] = AfterBack(t, n, s, p, h) BY <1>a
<1> QED BY <1>8, <1>9, <1>c DEF h

(* A page is drawn from line r on. *)
DrawnFrom(t, n, s, r) ==
  [t EXCEPT !.start = s[r], !.page = s[Upto(r + t.boxh, n)], !.end = r + t.boxh > n,
            !.length = Upto(t.boxh, n - r + 1)]

(* The lines counted are those up to the first behind the end. *)
LEMMA CountedIs ==
  ASSUME NEW n \in Nat, NEW r \in 0 .. n, NEW h \in Nat, NEW lines,
         \A i \in 1 .. h : lines[i].end = (r + i > n)
  PROVE  PageLines(lines, h) = Upto(h, n - r + 1)
<1> DEFINE S == {i \in 1 .. h : \A j \in 1 .. i - 1 : ~lines[j].end}  m == Upto(h, n - r + 1)
<1>1. m \in Nat /\ m <= h /\ m <= n - r + 1 BY DEF Upto
<1>2. S = 1 .. m
  <2>1. ASSUME NEW i \in 1 .. m PROVE i \in S
    <3>1. i \in 1 .. h BY <1>1
    <3>2. ASSUME NEW j \in 1 .. i - 1 PROVE ~lines[j].end
      <4>1. j \in 1 .. h /\ ~(r + j > n) BY <3>1, <1>1
      <4> QED BY <4>1
    <3> QED BY <3>1, <3>2
  <2>2. ASSUME NEW i \in S, i \notin 1 .. m PROVE FALSE
    <3>1. i \in 1 .. h /\ i > n - r + 1 BY <2>2 DEF Upto
    <3>2. i - 1 \in 1 .. i - 1 /\ i - 1 \in 1 .. h /\ r + (i - 1) > n BY <3>1
    <3> QED BY <3>2
  <2> QED BY <2>1, <2>2
<1>3. Cardinality(1 .. m) = m
  <2> HIDE DEF m
  <2>1. 1 \in Int /\ m \in Int BY <1>1
  <2>2. Cardinality(1 .. m) = IF 1 > m THEN 0 ELSE m - 1 + 1 BY <2>1, FS_Interval
  <2> QED BY <2>2, <1>1
<1> QED BY <1>2, <1>3 DEF PageLines

(* print_page draws from where the box stands. *)
LEMMA RefreshIs ==
  ASSUME TextSizes, NEW t, NEW n, NEW s, NEW r, StandsAt(t, n, s, r)
  PROVE  Refresh(t) = DrawnFrom(t, n, s, r)
<1> DEFINE u == [t EXCEPT !.start = t.page]  h == t.boxh
<1>0. t \in TextBox /\ Layout(t.buf, n, s) /\ r \in 0 .. n /\ t.page = s[r] BY DEF StandsAt
<1>1. n \in Nat /\ n > 0 /\ s \in [0 .. n -> Nat] BY <1>0, LayoutFacts
<1>2. h \in Nat /\ h > 0
  <2>1. h \in Lines BY <1>0 DEF TextBox
  <2>2. Lines \subseteq Nat \ {0} BY DEF TextSizes
  <2> HIDE DEF h
  <2>3. h \in Nat \ {0} BY <2>1, <2>2
  <2> QED BY <2>3
<1>3. u \in TextBox /\ u.buf = t.buf /\ u.page = s[r] /\ u.boxh = h BY <1>0 DEF TextBox
<1> HIDE DEF u
<1>4. StandsAt(u, n, s, r) BY <1>0, <1>3 DEF StandsAt
<1> DEFINE lines == GetLines(u, h)
<1>5. lines = [i \in 0 .. h |-> AfterLines(u, n, s, r, i)] BY <1>4, <1>2, GetLinesIs
<1> HIDE DEF lines
<1>6. ASSUME NEW i \in 1 .. h PROVE lines[i].end = (r + i > n)
  <2>1. i \in 0 .. h /\ i # 0 BY <1>2
  <2>2. lines[i] = AfterLines(u, n, s, r, i) BY <2>1, <1>5
  <2> DEFINE x == s[Upto(r + i, n)]  y == r + i > n
  <2>3. lines[i] = [u EXCEPT !.page = x, !.end = y] BY <2>1, <2>2 DEF AfterLines
  <2> HIDE DEF x, y
  <2>4. lines[i].end = y BY <2>3, <1>3 DEF TextBox
  <2> QED BY <2>4 DEF y
<1>7. PageLines(lines, h) = Upto(h, n - r + 1) BY <1>6, <1>0, <1>1, <1>2, CountedIs
<1>8. Refresh(t) = [lines[h] EXCEPT !.length = PageLines(lines, h)]
  <2>1. Refresh(t) = PrintPage(t, GetLines(u, t.boxh)) BY DEF Refresh, u
  <2>2. Refresh(t) = PrintPage(t, lines) BY <2>1 DEF lines
  <2> QED BY <2>2 DEF PrintPage
<1>9. lines[h] = AfterLines(u, n, s, r, h) /\ h # 0 BY <1>5, <1>2
<1> DEFINE x == s[Upto(r + h, n)]  y == r + h > n  z == Upto(h, n - r + 1)
<1>10. lines[h] = [u EXCEPT !.page = x, !.end = y] BY <1>9 DEF AfterLines
<1>11. DrawnFrom(t, n, s, r) = [t EXCEPT !.start = s[r], !.page = x, !.end = y, !.length = z] BY DEF DrawnFrom
<1> DEFINE w == s[r]
<1>12. u = [t EXCEPT !.start = w] BY <1>0 DEF u
<1>13. DrawnFrom(t, n, s, r) = [t EXCEPT !.start = w, !.page = x, !.end = y, !.length = z] BY <1>11
<1>14. Refresh(t) = [lines[h] EXCEPT !.length = z] BY <1>8, <1>7
<1> HIDE DEF x, y, z, w
<1> QED BY <1>10, <1>12, <1>13, <1>14, <1>0 DEF TextBox

(***************************************************************************)
(* What is kept: an open window shows the page from some line r on, and a  *)
(* closed one has r for the next time.                                     *)
(***************************************************************************)
Shown(t, n, s, r) ==
  /\ t \in TextBox /\ t.open /\ Layout(t.buf, n, s) /\ r \in 0 .. n
  /\ t.start = s[r] /\ t.begin = (r = 0)
  /\ t.page = s[Upto(r + t.boxh, n)] /\ t.end = (r + t.boxh > n)
  /\ t.length = Upto(t.boxh, n - r + 1)
LeftAt(t, n, s, r) ==
  /\ t \in TextBox /\ ~t.open /\ Layout(t.buf, n, s) /\ r \in 0 .. n
  /\ t.vscroll = r /\ t.was = s[r]
SameText(t, u) ==
  t.buf = u.buf /\ t.boxh = u.boxh /\ t.key = u.key /\ t.was = u.was /\ t.open = u.open

(* There is room for a line. *)
LEMMA BoxSizes ==
  ASSUME TextSizes, NEW t \in TextBox
  PROVE  t.boxh \in Nat /\ t.boxh > 0
<1>1. t.boxh \in Lines BY DEF TextBox
<1>2. Lines \subseteq Nat \ {0} BY DEF TextSizes
<1>3. t.boxh \in Nat \ {0} BY <1>1, <1>2
<1> QED BY <1>3

(* A page is shown from where the box stands. *)
LEMMA RefreshShows ==
  ASSUME TextSizes, NEW t, NEW n, NEW s, NEW r, StandsAt(t, n, s, r), t.begin = (r = 0), t.open
  PROVE  Shown(Refresh(t), n, s, r) /\ SameText(Refresh(t), t)
<1>0. t \in TextBox /\ Layout(t.buf, n, s) /\ r \in 0 .. n /\ t.page = s[r] BY DEF StandsAt
<1>1. n \in Nat /\ n > 0 /\ s \in [0 .. n -> Nat] BY <1>0, LayoutFacts
<1>2. t.boxh \in Nat /\ t.boxh > 0 BY <1>0, BoxSizes
<1> DEFINE w == s[r]  x == s[Upto(r + t.boxh, n)]  y == r + t.boxh > n  z == Upto(t.boxh, n - r + 1)
           u == Refresh(t)
<1>3. u = [t EXCEPT !.start = w, !.page = x, !.end = y, !.length = z]
  <2>1. u = DrawnFrom(t, n, s, r) BY RefreshIs
  <2> QED BY <2>1 DEF DrawnFrom
<1>4. w \in Nat /\ x \in Nat /\ y \in BOOLEAN /\ z \in Int
  <2>1. Upto(r + t.boxh, n) \in 0 .. n BY <1>0, <1>1, <1>2 DEF Upto
  <2>2. z \in Int BY <1>0, <1>1, <1>2 DEF Upto
  <2> QED BY <2>1, <2>2, <1>0, <1>1
<1> HIDE DEF w, x, y, z, u
<1>5. u \in TextBox /\ u.buf = t.buf /\ u.begin = t.begin /\ u.boxh = t.boxh /\ u.open = t.open
      /\ u.key = t.key /\ u.was = t.was /\ u.start = w /\ u.page = x /\ u.end = y /\ u.length = z
  BY <1>0, <1>3, <1>4 DEF TextBox
<1>6. Shown(u, n, s, r) BY <1>5, <1>0 DEF Shown, w, x, y, z
<1>7. SameText(u, t) BY <1>5 DEF SameText
<1> QED BY <1>6, <1>7 DEF u

(* Wherever the box stands, k lines back it stands at a line again. *)
LEMMA BackStands ==
  ASSUME TextSizes, NEW t, NEW n, NEW s, NEW p, StandsAt(t, n, s, p), p > 0, NEW k \in Int
  PROVE  LET q == Above(p, Eaten(t, n, p, Steps(k)))
             u == BackLines(t, k)
         IN  StandsAt(u, n, s, q) /\ u.begin = (q = 0) /\ SameText(u, t)
<1> DEFINE h == Steps(k)  m == Eaten(t, n, p, h)  q == Above(p, m)  u == BackLines(t, k)
<1>0. t \in TextBox /\ Layout(t.buf, n, s) /\ p \in 0 .. n /\ t.page = s[p] BY DEF StandsAt
<1>1. n \in Nat /\ n > 0 /\ s \in [0 .. n -> Nat] BY <1>0, LayoutFacts
<1>2. h \in Nat BY DEF Steps
<1>3. u = AfterBack(t, n, s, p, h) BY BackLinesIs
<1>4. StandsAt(u, n, s, q)
  <2> HIDE DEF h
  <2> QED BY <1>3, <1>2, AfterBackGrow
<1>5. m \in Nat BY <1>2 DEF Eaten
<1>6. (m >= p) = (q = 0)
  <2> HIDE DEF m
  <2> QED BY <1>5, <1>0, <1>1 DEF Above
<1> DEFINE x == s[q]  y == m >= p  e == t.end /\ ~(p = n /\ h > 0)
<1>7. u = [t EXCEPT !.page = x, !.begin = y, !.end = e] BY <1>3 DEF AfterBack
<1>8. u.begin = y /\ u.buf = t.buf /\ u.boxh = t.boxh /\ u.key = t.key /\ u.was = t.was /\ u.open = t.open
  <2> HIDE DEF x, y, e, u
  <2> QED BY <1>7, <1>0 DEF TextBox
<1>9. SameText(u, t)
  <2> HIDE DEF u
  <2> QED BY <1>8 DEF SameText
<1>10. u.begin = (q = 0)
  <2> HIDE DEF u, q, m
  <2> QED BY <1>8, <1>6
<1> QED BY <1>4, <1>9, <1>10

(* Back over the lines of the page and d more, from the end of the page. *)
LEMMA BackFromPage ==
  ASSUME TextSizes, NEW t, NEW n, NEW s, NEW r, Shown(t, n, s, r), NEW d \in Int,
         d >= 0 \/ (d = -1 /\ ~t.end)
  PROVE  LET u == BackLines(t, t.length + d)
         IN  /\ StandsAt(u, n, s, Above(r, d)) /\ u.begin = (Above(r, d) = 0) /\ SameText(u, t)
<1> DEFINE p == Upto(r + t.boxh, n)  k == t.length + d  h == t.boxh
<1>0. /\ t \in TextBox /\ Layout(t.buf, n, s) /\ r \in 0 .. n /\ t.page = s[p]
      /\ t.end = (r + h > n) /\ t.length = Upto(h, n - r + 1)
  BY DEF Shown
<1>1. n \in Nat /\ n > 0 BY <1>0, LayoutFacts
<1>2. h \in Nat /\ h > 0 BY <1>0, BoxSizes
<1>3. p \in 0 .. n /\ p > 0 BY <1>0, <1>1, <1>2 DEF Upto
<1>4. StandsAt(t, n, s, p) BY <1>0, <1>3 DEF StandsAt
<1>5. k \in Int BY <1>0 DEF TextBox
<1>a. t.end <=> r + h > n BY <1>0
<1>b. p = Upto(r + h, n) OBVIOUS
<1> HIDE DEF p, k, h
<1>6. LET q == Above(p, Eaten(t, n, p, Steps(k)))
          u == BackLines(t, k)
      IN  StandsAt(u, n, s, q) /\ u.begin = (q = 0) /\ SameText(u, t)
  BY <1>3, <1>4, <1>5, BackStands
<1>7. Above(p, Eaten(t, n, p, Steps(k))) = Above(r, d)
  <2>1. CASE t.end
    <3>1. r + h > n /\ p = n BY <2>1, <1>a, <1>b, <1>0, <1>1, <1>2 DEF Upto
    <3>a. t.length = Upto(h, n - r + 1) /\ r \in Int BY <1>0
    <3>b. h >= n - r + 1 BY <3>1, <3>a, <1>1, <1>2
    <3>c. Upto(h, n - r + 1) = n - r + 1 BY <3>b, <3>a, <1>1, <1>2 DEF Upto
    <3>2. t.length = n - r + 1 BY <3>a, <3>c
    <3>3. d >= 0 /\ k = n - r + 1 + d /\ k > 0 BY <3>2, <2>1, <1>0, <1>1 DEF k
    <3>4. Eaten(t, n, p, Steps(k)) = n - r + d BY <3>3, <3>1, <2>1, <1>0, <1>1 DEF Eaten, Steps
    <3> QED BY <3>4, <3>1, <3>3, <1>0, <1>1 DEF Above
  <2>2. CASE ~t.end
    <3>1. r + h <= n /\ p = r + h BY <2>2, <1>a, <1>b, <1>0, <1>1, <1>2 DEF Upto
    <3>2. t.length = h BY <3>1, <1>0, <1>1, <1>2 DEF Upto
    <3>3. k = h + d /\ k >= 0 BY <3>2, <1>2 DEF k
    <3>4. Steps(k) = k BY <3>3 DEF Steps
    <3>5. Eaten(t, n, p, Steps(k)) = h + d BY <3>4, <3>3, <2>2 DEF Eaten
    <3> QED BY <3>5, <3>1, <1>0, <1>1, <1>2 DEF Above
  <2> QED BY <2>1, <2>2
<1> QED BY <1>6, <1>7 DEF k

(* The lines above the window are counted. *)
LEMMA LinesAboveIs ==
  ASSUME TextSizes, NEW t, NEW n, NEW s, NEW p, StandsAt(t, n, s, p)
  PROVE  LinesAbove(t) = p
<1> DEFINE S == {at \in 0 .. t.page - 1 : IsNl(t, at)}
           f == [i \in 1 .. p |-> s[i] - 1]
<1>0. t \in TextBox /\ Layout(t.buf, n, s) /\ p \in 0 .. n /\ t.page = s[p] BY DEF StandsAt
<1>1. n \in Nat /\ s \in [0 .. n -> Nat] BY <1>0, LayoutFacts
<1>2. \A i \in 0 .. n : s[i] \in 0 .. Len(t.buf) BY <1>0, LayoutFacts
<1>3. \A i, j \in 0 .. n : i < j <=> s[i] < s[j] BY <1>0, LayoutFacts
<1>4. \A i \in 1 .. n : t.buf[s[i]] = "nl" /\ s[i] \in 1 .. Len(t.buf) BY <1>0, LayoutFacts
<1>5. \A at \in 1 .. Len(t.buf) : t.buf[at] = "nl" => \E i \in 1 .. n : at = s[i] BY <1>0, LayoutFacts
<1>6. \A i, j \in 0 .. n : i = j <=> s[i] = s[j] BY <1>0, LayoutFacts
<1>7. Len(t.buf) \in Nat /\ s[p] \in Nat /\ s[p] <= Len(t.buf)
  <2>1. s[p] \in 0 .. Len(t.buf) /\ s[p] \in Nat /\ s[n] = Len(t.buf) /\ n \in 0 .. n
    BY <1>0, <1>1, <1>2, LayoutFacts
  <2> QED BY <2>1, <1>1
<1>8. ASSUME NEW i \in 1 .. p PROVE f[i] \in S
  <2>1. i \in 1 .. n /\ i \in 0 .. n /\ (i = p \/ i < p) BY <1>0, <1>1
  <2>2. s[i] <= s[p] /\ s[i] \in Nat /\ s[i] \in 1 .. Len(t.buf) /\ t.buf[s[i]] = "nl"
    <3>1. s[i] \in Nat /\ s[i] \in 1 .. Len(t.buf) /\ t.buf[s[i]] = "nl" BY <2>1, <1>1, <1>4
    <3>2. CASE i = p BY <3>1, <3>2
    <3>3. CASE i < p BY <3>1, <3>3, <2>1, <1>0, <1>3, <1>7
    <3> QED BY <3>1, <3>2, <3>3, <2>1
  <2>3. s[i] - 1 \in 0 .. t.page - 1 /\ s[i] - 1 + 1 = s[i] BY <2>2, <1>0, <1>7
  <2> QED BY <2>2, <2>3 DEF IsNl
<1>9. ASSUME NEW i \in 1 .. p, NEW j \in 1 .. p, f[i] = f[j] PROVE i = j
  <2>1. i \in 0 .. n /\ j \in 0 .. n /\ s[i] \in Nat /\ s[j] \in Nat BY <1>0, <1>1
  <2>2. s[i] = s[j] BY <2>1, <1>9
  <2> QED BY <2>1, <2>2, <1>6
<1>10. ASSUME NEW at \in S PROVE \E i \in 1 .. p : f[i] = at
  <2>1. at \in 0 .. s[p] - 1 /\ t.buf[at + 1] = "nl" BY <1>0 DEF IsNl
  <2>2. at + 1 \in 1 .. Len(t.buf) /\ at + 1 <= s[p] /\ at \in Int BY <2>1, <1>7
  <2>3. PICK i \in 1 .. n : at + 1 = s[i] BY <2>1, <2>2, <1>5
  <2>4. ~(p < i)
    <3>1. i \in 0 .. n /\ s[i] \in Nat BY <1>1
    <3> QED BY <3>1, <2>2, <2>3, <1>0, <1>3, <1>7
  <2>5. i \in 1 .. p /\ s[i] - 1 = at BY <2>4, <2>3, <2>2, <1>0, <1>1
  <2> QED BY <2>5
<1>11. f \in Bijection(1 .. p, S)
  <2>1. f \in [1 .. p -> S] BY <1>8
  <2> HIDE DEF f, S
  <2>2. \A i, j \in 1 .. p : f[i] = f[j] => i = j BY <1>9
  <2>3. \A at \in S : \E i \in 1 .. p : f[i] = at BY <1>10
  <2>4. f \in Injection(1 .. p, S) /\ f \in Surjection(1 .. p, S)
    BY <2>1, <2>2, <2>3 DEF Injection, IsInjective, Surjection
  <2> QED BY <2>4 DEF Bijection
<1>12. Cardinality(S) = Cardinality(1 .. p)
  <2>1. IsFiniteSet(1 .. p) BY <1>0, FS_Interval
  <2>2. ExistsBijection(1 .. p, S) BY <1>11 DEF ExistsBijection
  <2> HIDE DEF S
  <2> QED BY <2>1, <2>2, FS_Bijection
<1>13. Cardinality(1 .. p) = p
  <2>1. 1 \in Int /\ p \in Int /\ p >= 0 BY <1>0
  <2>2. Cardinality(1 .. p) = IF 1 > p THEN 0 ELSE p - 1 + 1 BY <2>1, FS_Interval
  <2> QED BY <2>1, <2>2
<1> QED BY <1>12, <1>13 DEF LinesAbove

(* The key that was pressed last moved the window as it says. *)
KeyTold(t, n, s, r) ==
  /\ t.key \in {"left", "right", "zero", "again"} => t.was = s[r]
  /\ t.key = "up" => t.was = 0 \/ (r < n /\ t.was = s[r + 1])
  /\ t.key = "down" => t.was = s[r] \/ (r > 0 /\ t.was = s[r - 1])
ShownAt(t, u, n, s, r) == Shown(t, n, s, r) /\ SameText(t, u)

(* What an open window is. *)
LEMMA ShownFacts ==
  ASSUME TextSizes, NEW t, NEW n, NEW s, NEW r, Shown(t, n, s, r)
  PROVE  /\ t \in TextBox /\ Layout(t.buf, n, s) /\ r \in 0 .. n /\ n \in Nat /\ n > 0 /\ t.open
         /\ s \in [0 .. n -> Nat] /\ s[0] = 0 /\ s[n] = Len(t.buf) /\ t.start = s[r]
         /\ t.boxh \in Nat /\ t.boxh > 0 /\ t.length \in Int
         /\ t.begin <=> r = 0
         /\ t.end <=> r + t.boxh > n
         /\ t.page = s[Upto(r + t.boxh, n)]
<1>1. t \in TextBox /\ Layout(t.buf, n, s) /\ r \in 0 .. n /\ t.open /\ t.start = s[r]
      /\ t.begin = (r = 0) /\ t.end = (r + t.boxh > n) /\ t.page = s[Upto(r + t.boxh, n)]
  BY DEF Shown
<1>2. n \in Nat /\ n > 0 /\ s \in [0 .. n -> Nat] /\ s[0] = 0 /\ s[n] = Len(t.buf)
  BY <1>1, LayoutFacts
<1>3. t.boxh \in Nat /\ t.boxh > 0 BY <1>1, BoxSizes
<1>4. t.length \in Int BY <1>1 DEF TextBox
<1> QED BY <1>1, <1>2, <1>3, <1>4

(* Back over the page and d lines more, and the page from there. *)
LEMMA BackAndShow ==
  ASSUME TextSizes, NEW t, NEW n, NEW s, NEW r, Shown(t, n, s, r), NEW d \in Int,
         d >= 0 \/ (d = -1 /\ ~t.end)
  PROVE  ShownAt(Refresh(BackLines(t, t.length + d)), t, n, s, Above(r, d))
<1> DEFINE u == BackLines(t, t.length + d)  q == Above(r, d)
<1>1. StandsAt(u, n, s, q) /\ u.begin = (q = 0) /\ SameText(u, t) BY BackFromPage
<1>2. t.open BY ShownFacts
<1> HIDE DEF u, q
<1>3. u.open BY <1>1, <1>2 DEF SameText
<1>4. Shown(Refresh(u), n, s, q) /\ SameText(Refresh(u), u) BY <1>1, <1>3, RefreshShows
<1>5. SameText(Refresh(u), t) BY <1>1, <1>4 DEF SameText
<1>6. ShownAt(Refresh(u), t, n, s, q) BY <1>4, <1>5 DEF ShownAt
<1> QED BY <1>6 DEF u, q

(* Drawn again, the page is the same. *)
LEMMA RedrawShows ==
  ASSUME TextSizes, NEW t, NEW n, NEW s, NEW r, Shown(t, n, s, r)
  PROVE  ShownAt(Redraw(t), t, n, s, r)
<1>1. r \in 0 .. n /\ n \in Nat /\ t.length \in Int BY ShownFacts
<1>2. t.length + 0 = t.length /\ Above(r, 0) = r BY <1>1 DEF Above
<1>3. ShownAt(Refresh(BackLines(t, t.length + 0)), t, n, s, Above(r, 0)) BY BackAndShow
<1> QED BY <1>2, <1>3 DEF Redraw

(* The text is moved to the side. *)
LEMMA AsideShows ==
  ASSUME TextSizes, NEW t, NEW n, NEW s, NEW r, Shown(t, n, s, r)
  PROVE  /\ ShownAt(Left(t), t, n, s, r)
         /\ ShownAt(Zero(t), t, n, s, r)
         /\ ShownAt(Right(t), t, n, s, r)
<1>0. t \in TextBox BY ShownFacts
<1>1. ASSUME NEW x \in Int PROVE ShownAt(Redraw([t EXCEPT !.hscroll = x]), t, n, s, r)
  <2> DEFINE u == [t EXCEPT !.hscroll = x]
  <2>1. /\ u \in TextBox /\ u.buf = t.buf /\ u.page = t.page /\ u.begin = t.begin /\ u.end = t.end
        /\ u.length = t.length /\ u.boxh = t.boxh /\ u.start = t.start /\ u.open = t.open
        /\ u.key = t.key /\ u.was = t.was
    BY <1>0 DEF TextBox
  <2> HIDE DEF u
  <2>2. Shown(u, n, s, r) BY <2>1 DEF Shown
  <2>3. ShownAt(Redraw(u), u, n, s, r) BY <2>2, RedrawShows
  <2>4. ShownAt(Redraw(u), t, n, s, r) BY <2>1, <2>3 DEF ShownAt, SameText
  <2> QED BY <2>4 DEF u
<1>2. ShownAt(t, t, n, s, r) BY DEF ShownAt, SameText
<1>3. t.hscroll \in Int /\ t.hscroll - 1 \in Int /\ t.hscroll + 1 \in Int BY <1>0 DEF TextBox
<1>4. ShownAt(Left(t), t, n, s, r) BY <1>1, <1>2, <1>3 DEF Left
<1>5. ShownAt(Zero(t), t, n, s, r) BY <1>1, <1>2 DEF Zero
<1>6. ShownAt(Right(t), t, n, s, r)
  <2> DEFINE far == t.hscroll >= MaxScroll
  <2>1. Right(t) = IF far THEN t ELSE Redraw([t EXCEPT !.hscroll = t.hscroll + 1]) BY DEF Right
  <2> HIDE DEF far
  <2> QED BY <2>1, <1>1, <1>2, <1>3
<1> QED BY <1>4, <1>5, <1>6

(* Home shows the first line, End the last page. *)
LEMMA HomeShows ==
  ASSUME TextSizes, NEW t, NEW n, NEW s, NEW r, Shown(t, n, s, r)
  PROVE  ShownAt(Home(t), t, n, s, 0)
<1>0. t \in TextBox /\ Layout(t.buf, n, s) /\ r \in 0 .. n /\ n \in Nat /\ s[0] = 0 /\ t.open
      /\ (t.begin <=> r = 0)
  BY ShownFacts
<1>1. CASE t.begin
  <2>1. Home(t) = t /\ r = 0 BY <1>0, <1>1 DEF Home
  <2> QED BY <2>1 DEF ShownAt, SameText
<1>2. CASE ~t.begin
  <2> DEFINE u == [t EXCEPT !.begin = TRUE, !.page = 0]
  <2>1. u \in TextBox /\ u.buf = t.buf /\ u.page = 0 /\ u.begin = TRUE /\ SameText(u, t) /\ u.open
    BY <1>0 DEF TextBox, SameText
  <2>2. Home(t) = Refresh(u) BY <1>2 DEF Home
  <2> HIDE DEF u
  <2>3. StandsAt(u, n, s, 0) BY <2>1, <1>0 DEF StandsAt
  <2>4. Shown(Refresh(u), n, s, 0) /\ SameText(Refresh(u), u) BY <2>1, <2>3, RefreshShows
  <2> QED BY <2>1, <2>2, <2>4 DEF ShownAt, SameText
<1> QED BY <1>1, <1>2

(* The last page starts at a line, too. *)
LEMMA EndShows ==
  ASSUME TextSizes, NEW t, NEW n, NEW s, NEW r, Shown(t, n, s, r)
  PROVE  \E q : ShownAt(ToEnd(t), t, n, s, q)
<1>0. t \in TextBox /\ Layout(t.buf, n, s) /\ n \in Nat /\ n > 0 /\ s[n] = Len(t.buf) /\ t.open
      /\ t.boxh \in Nat /\ s \in [0 .. n -> Nat]
  BY ShownFacts
<1>a. Len(t.buf) \in Nat
  <2>1. n \in 0 .. n BY <1>0
  <2> QED BY <2>1, <1>0
<1> DEFINE u == [t EXCEPT !.end = TRUE, !.page = Len(t.buf)]
<1>1. u \in TextBox /\ u.buf = t.buf /\ u.page = s[n] /\ SameText(u, t) /\ u.boxh = t.boxh
  BY <1>0, <1>a DEF TextBox, SameText
<1>2. ToEnd(t) = Refresh(BackLines(u, t.boxh)) BY DEF ToEnd
<1> HIDE DEF u
<1>3. StandsAt(u, n, s, n) BY <1>0, <1>1 DEF StandsAt
<1> DEFINE q == Above(n, Eaten(u, n, n, Steps(t.boxh)))  v == BackLines(u, t.boxh)
<1>4. StandsAt(v, n, s, q) /\ v.begin = (q = 0) /\ SameText(v, u) BY <1>0, <1>3, BackStands
<1> HIDE DEF q, v
<1>5. v.open BY <1>0, <1>1, <1>4 DEF SameText
<1>6. Shown(Refresh(v), n, s, q) /\ SameText(Refresh(v), v) BY <1>4, <1>5, RefreshShows
<1>7. ToEnd(t) = Refresh(v) BY <1>2 DEF v
<1> QED BY <1>1, <1>4, <1>6, <1>7 DEF ShownAt, SameText

(* A line, or a page, up or down. *)
LEMMA UpShows ==
  ASSUME TextSizes, NEW t, NEW n, NEW s, NEW r, Shown(t, n, s, r)
  PROVE  /\ ShownAt(Up(t), t, n, s, IF r = 0 THEN 0 ELSE r - 1)
         /\ \E q : ShownAt(PageUp(t), t, n, s, q)
<1>0. r \in 0 .. n /\ n \in Nat /\ t.boxh \in Nat /\ (t.begin <=> r = 0) BY ShownFacts
<1>1. CASE t.begin
  <2>1. Up(t) = t /\ PageUp(t) = t /\ r = 0 BY <1>0, <1>1 DEF Up, PageUp
  <2>2. ShownAt(t, t, n, s, 0) BY <2>1 DEF ShownAt, SameText
  <2> QED BY <2>1, <2>2
<1>2. CASE ~t.begin
  <2>1. Above(r, 1) = r - 1 /\ r # 0 BY <1>0, <1>2 DEF Above
  <2>2. ShownAt(Refresh(BackLines(t, t.length + 1)), t, n, s, Above(r, 1)) BY BackAndShow
  <2>3. ShownAt(Refresh(BackLines(t, t.length + t.boxh)), t, n, s, Above(r, t.boxh))
    BY <1>0, BackAndShow
  <2>4. Up(t) = Refresh(BackLines(t, t.length + 1))
        /\ PageUp(t) = Refresh(BackLines(t, t.length + t.boxh))
    BY <1>2 DEF Up, PageUp
  <2> QED BY <2>1, <2>2, <2>3, <2>4
<1> QED BY <1>1, <1>2

(* A line or a page down, unless the end is reached. *)
LEMMA DownShows ==
  ASSUME TextSizes, NEW t, NEW n, NEW s, NEW r, Shown(t, n, s, r)
  PROVE  /\ ShownAt(Down(t), t, n, s, IF t.end THEN r ELSE r + 1)
         /\ \E q : ShownAt(PageDown(t), t, n, s, q)
<1>0. /\ t \in TextBox /\ Layout(t.buf, n, s) /\ r \in 0 .. n /\ n \in Nat /\ t.open
      /\ t.boxh \in Nat /\ t.boxh > 0 /\ t.length \in Int
      /\ (t.end <=> r + t.boxh > n) /\ t.page = s[Upto(r + t.boxh, n)]
  BY ShownFacts
<1>1. CASE t.end
  <2>1. Down(t) = t /\ PageDown(t) = t BY <1>1 DEF Down, PageDown
  <2>2. ShownAt(t, t, n, s, r) BY DEF ShownAt, SameText
  <2> QED BY <2>1, <2>2, <1>1
<1>2. CASE ~t.end
  <2>1. ShownAt(Down(t), t, n, s, r + 1)
    <3>1. Above(r, -1) = r + 1 /\ t.length + (-1) = t.length - 1 BY <1>0 DEF Above
    <3>2. ShownAt(Refresh(BackLines(t, t.length + (-1))), t, n, s, Above(r, -1)) BY <1>2, BackAndShow
    <3>3. Down(t) = Refresh(BackLines(t, t.length - 1)) BY <1>2 DEF Down
    <3> QED BY <3>1, <3>2, <3>3
  <2>2. ShownAt(PageDown(t), t, n, s, r + t.boxh)
    <3> DEFINE u == [t EXCEPT !.begin = FALSE]  q == r + t.boxh
    <3>1. q <= n /\ q \in 0 .. n /\ q # 0 BY <1>0, <1>2
    <3>2. t.page = s[q] BY <3>1, <1>0 DEF Upto
    <3>3. u \in TextBox /\ u.buf = t.buf /\ u.page = t.page /\ u.begin = FALSE /\ SameText(u, t) /\ u.open
      BY <1>0 DEF TextBox, SameText
    <3>4. PageDown(t) = Refresh(u) BY <1>2 DEF PageDown
    <3> HIDE DEF u, q
    <3>5. StandsAt(u, n, s, q) BY <3>1, <3>2, <3>3, <1>0 DEF StandsAt
    <3>6. u.begin = (q = 0) BY <3>1, <3>3
    <3>7. Shown(Refresh(u), n, s, q) /\ SameText(Refresh(u), u) BY <3>3, <3>5, <3>6, RefreshShows
    <3>8. ShownAt(PageDown(t), t, n, s, q) BY <3>3, <3>4, <3>7 DEF ShownAt, SameText
    <3> QED BY <3>8 DEF q
  <2> QED BY <2>1, <2>2, <1>2
<1> QED BY <1>1, <1>2

(* Every key leaves a page, and where it says. *)
LEMMA KeyKeeps ==
  ASSUME TextSizes, NEW t, NEW n, NEW s, NEW r, Shown(t, n, s, r), t.was = s[r],
         t.key \in TextKeys
  PROVE  \E q : Shown(Acted(t, t.key), n, s, q) /\ KeyTold(Acted(t, t.key), n, s, q)
<1> DEFINE u == Acted(t, t.key)
<1>0. r \in 0 .. n /\ n \in Nat /\ s[0] = 0 BY ShownFacts
<1>1. ASSUME NEW q, ShownAt(u, t, n, s, q), t.key \notin {"left", "right", "zero", "up", "down"}
      PROVE  Shown(u, n, s, q) /\ KeyTold(u, n, s, q)
  <2>1. u.key = t.key /\ u.key \notin {"left", "right", "zero", "again", "up", "down"}
    BY <1>1 DEF ShownAt, SameText, TextKeys
  <2> QED BY <1>1, <2>1 DEF ShownAt, KeyTold
<1>2. CASE t.key = "home"
  <2>1. u = Home(t) BY <1>2 DEF Acted
  <2>2. ShownAt(u, t, n, s, 0) BY <2>1, HomeShows
  <2> QED BY <2>2, <1>1, <1>2
<1>3. CASE t.key = "end"
  <2>1. u = ToEnd(t) BY <1>3 DEF Acted
  <2>2. \E q : ShownAt(u, t, n, s, q) BY <2>1, EndShows
  <2> QED BY <2>2, <1>1, <1>3
<1>4. CASE t.key = "pageup"
  <2>1. u = PageUp(t) BY <1>4 DEF Acted
  <2>2. \E q : ShownAt(u, t, n, s, q) BY <2>1, UpShows
  <2> QED BY <2>2, <1>1, <1>4
<1>5. CASE t.key = "pagedown"
  <2>1. u = PageDown(t) BY <1>5 DEF Acted
  <2>2. \E q : ShownAt(u, t, n, s, q) BY <2>1, DownShows
  <2> QED BY <2>2, <1>1, <1>5
<1>6. CASE t.key = "up"
  <2> DEFINE q == IF r = 0 THEN 0 ELSE r - 1
  <2>1. u = Up(t) BY <1>6 DEF Acted
  <2>2. ShownAt(u, t, n, s, q) BY <2>1, UpShows
  <2> HIDE DEF u
  <2>3. u.key = "up" /\ u.was = s[r] BY <2>2, <1>6 DEF ShownAt, SameText
  <2>4. CASE r = 0
    <3>1. u.was = 0 BY <2>3, <2>4, <1>0
    <3>2. KeyTold(u, n, s, q) BY <2>3, <3>1 DEF KeyTold
    <3> QED BY <2>2, <3>2 DEF ShownAt, u
  <2>5. CASE r # 0
    <3>1. q < n /\ q + 1 = r BY <2>5, <1>0
    <3>2. u.was = s[q + 1] BY <3>1, <2>3
    <3> HIDE DEF q
    <3>3. KeyTold(u, n, s, q) BY <2>3, <3>1, <3>2 DEF KeyTold
    <3> QED BY <2>2, <3>3 DEF ShownAt, u
  <2> QED BY <2>4, <2>5
<1>7. CASE t.key = "down"
  <2> DEFINE q == IF t.end THEN r ELSE r + 1
  <2>1. u = Down(t) BY <1>7 DEF Acted
  <2>2. ShownAt(u, t, n, s, q) BY <2>1, DownShows
  <2> HIDE DEF u
  <2>3. u.key = "down" /\ u.was = s[r] BY <2>2, <1>7 DEF ShownAt, SameText
  <2>4. q = r \/ (q > 0 /\ q - 1 = r) BY <1>0
  <2> HIDE DEF q
  <2>5. u.was = s[q] \/ (q > 0 /\ u.was = s[q - 1]) BY <2>3, <2>4
  <2>6. KeyTold(u, n, s, q) BY <2>3, <2>5 DEF KeyTold
  <2> QED BY <2>2, <2>6 DEF ShownAt, u
<1>8. CASE t.key \in {"left", "right", "zero"}
  <2>1. u = Left(t) \/ u = Right(t) \/ u = Zero(t) BY <1>8 DEF Acted
  <2>2. ShownAt(u, t, n, s, r) BY <2>1, AsideShows
  <2> HIDE DEF u
  <2>3. u.key \in {"left", "right", "zero"} /\ u.was = s[r] BY <2>2, <1>8 DEF ShownAt, SameText
  <2>4. KeyTold(u, n, s, r) BY <2>3 DEF KeyTold
  <2> QED BY <2>2, <2>4 DEF ShownAt, u
<1> QED BY <1>2, <1>3, <1>4, <1>5, <1>6, <1>7, <1>8 DEF TextKeys

(* The inductive invariant of the text box. *)
TextKept ==
  \E n, s, r :
    IF textbox.open THEN Shown(textbox, n, s, r) /\ KeyTold(textbox, n, s, r)
    ELSE LeftAt(textbox, n, s, r)

(* A text is first shown from its beginning. *)
LEMMA FirstKept == TextSizes /\ LxTextInit => TextKept
<1> SUFFICES ASSUME TextSizes, LxTextInit PROVE TextKept OBVIOUS
<1>1. PICK buf \in Texts, boxh \in Lines : textbox = Refresh(FirstShown(buf, boxh)) BY DEF LxTextInit
<1> DEFINE t == FirstShown(buf, boxh)
<1>2. t \in TextBox /\ t.buf = buf /\ t.page = 0 /\ t.begin = TRUE /\ t.open = TRUE /\ t.key = "open"
  <2>1. boxh \in Lines /\ buf \in Texts /\ "open" \in KeyNames BY DEF KeyNames
  <2> QED BY <2>1 DEF FirstShown, TextBox
<1>3. PICK n, s : Layout(buf, n, s) BY LayoutExists
<1>4. n \in Nat /\ s[0] = 0 BY <1>3, LayoutFacts
<1> HIDE DEF t
<1>5. StandsAt(t, n, s, 0) BY <1>2, <1>3, <1>4 DEF StandsAt
<1>6. Shown(Refresh(t), n, s, 0) /\ SameText(Refresh(t), t) BY <1>2, <1>5, RefreshShows
<1>7. textbox = Refresh(t) BY <1>1 DEF t
<1>8. Shown(textbox, n, s, 0) /\ textbox.open /\ textbox.key = "open" BY <1>2, <1>6, <1>7 DEF SameText
<1>9. KeyTold(textbox, n, s, 0) BY <1>8 DEF KeyTold
<1> QED BY <1>8, <1>9 DEF TextKept

(* A key is noted, and where the window was. *)
LEMMA PressedShows ==
  ASSUME TextSizes, NEW t, NEW n, NEW s, NEW r, Shown(t, n, s, r), NEW key \in KeyNames
  PROVE  Shown(Pressed(t, key), n, s, r) /\ Pressed(t, key).was = s[r] /\ Pressed(t, key).key = key
         /\ Pressed(t, key) \in TextBox
<1> DEFINE u == Pressed(t, key)
<1>1. t \in TextBox /\ t.start = s[r] BY DEF Shown
<1>2. t.start \in Nat BY <1>1 DEF TextBox
<1>3. /\ u \in TextBox /\ u.buf = t.buf /\ u.page = t.page /\ u.begin = t.begin /\ u.end = t.end
      /\ u.length = t.length /\ u.boxh = t.boxh /\ u.start = t.start /\ u.open = t.open
      /\ u.was = t.start /\ u.key = key
  BY <1>1, <1>2 DEF Pressed, TextBox
<1> HIDE DEF u
<1>4. Shown(u, n, s, r) BY <1>3 DEF Shown
<1>5. Shown(u, n, s, r) /\ u.was = s[r] /\ u.key = key /\ u \in TextBox BY <1>1, <1>3, <1>4
<1> QED BY <1>5 DEF u

(* Every key keeps it, *)
LEMMA PressKept == TextSizes /\ TextKept /\ PressKey => TextKept'
<1> SUFFICES ASSUME TextSizes, TextKept, PressKey PROVE TextKept' OBVIOUS
<1>1. textbox.open BY DEF PressKey
<1>2. PICK key \in TextKeys : textbox' = Acted(Pressed(textbox, key), key) BY DEF PressKey
<1>3. PICK n, s, r : Shown(textbox, n, s, r) BY <1>1 DEF TextKept
<1> DEFINE t == Pressed(textbox, key)
<1>4. key \in KeyNames BY DEF KeyNames
<1>5. Shown(t, n, s, r) /\ t.was = s[r] /\ t.key = key BY <1>3, <1>4, PressedShows
<1>6. textbox' = Acted(t, t.key) BY <1>2, <1>5
<1> HIDE DEF t
<1>7. PICK q : Shown(textbox', n, s, q) /\ KeyTold(textbox', n, s, q) BY <1>5, <1>6, KeyKeeps
<1>8. textbox'.open BY <1>7 DEF Shown
<1> QED BY <1>7, <1>8 DEF TextKept

(* and so does a window of another height, *)
LEMMA ResizeKept == TextSizes /\ TextKept /\ ResizeText => TextKept'
<1> SUFFICES ASSUME TextSizes, TextKept, ResizeText PROVE TextKept' OBVIOUS
<1>1. textbox.open BY DEF ResizeText
<1>2. PICK boxh \in Lines : textbox' = Resized(Pressed(textbox, "resize"), boxh) BY DEF ResizeText
<1>3. PICK n, s, r : Shown(textbox, n, s, r) BY <1>1 DEF TextKept
<1> DEFINE t == Pressed(textbox, "resize")
<1>a. "resize" \in KeyNames BY DEF KeyNames
<1>4. Shown(t, n, s, r) /\ t.key = "resize" BY <1>3, <1>a, PressedShows
<1>5. textbox' = Resized(t, boxh) BY <1>2
<1> HIDE DEF t
<1> DEFINE p == Upto(r + t.boxh, n)  k == t.boxh + 4
<1>6. t \in TextBox /\ Layout(t.buf, n, s) /\ r \in 0 .. n /\ n \in Nat /\ n > 0 /\ t.open
      /\ t.boxh \in Nat /\ t.boxh > 0 /\ t.page = s[p]
  BY <1>4, ShownFacts
<1>7. p \in 0 .. n /\ p > 0 /\ k \in Int BY <1>6 DEF Upto
<1>8. StandsAt(t, n, s, p)
  <2> HIDE DEF p
  <2> QED BY <1>6, <1>7 DEF StandsAt
<1> DEFINE q == Above(p, Eaten(t, n, p, Steps(k)))  v == BackLines(t, k)
<1>9. StandsAt(v, n, s, q) /\ v.begin = (q = 0) /\ SameText(v, t)
  <2> HIDE DEF p, k
  <2> QED BY <1>7, <1>8, BackStands
<1> DEFINE w == [v EXCEPT !.boxh = boxh]
<1>10. textbox' = Refresh(w) BY <1>5 DEF Resized
<1> HIDE DEF p, k, q, v
<1>11. v \in TextBox /\ Layout(v.buf, n, s) /\ q \in 0 .. n /\ v.page = s[q] /\ v.open /\ v.key = "resize"
  BY <1>9, <1>6, <1>4 DEF StandsAt, SameText
<1>12. w \in TextBox /\ w.buf = v.buf /\ w.page = v.page /\ w.begin = v.begin /\ w.open = v.open
       /\ w.key = v.key
  BY <1>11 DEF TextBox
<1> HIDE DEF w
<1>13. StandsAt(w, n, s, q) /\ w.begin = (q = 0) /\ w.open BY <1>9, <1>11, <1>12 DEF StandsAt
<1>14. Shown(textbox', n, s, q) /\ SameText(textbox', w) BY <1>10, <1>13, RefreshShows
<1>15. textbox'.open /\ textbox'.key = "resize" BY <1>14, <1>11, <1>12 DEF SameText
<1>16. KeyTold(textbox', n, s, q) BY <1>15 DEF KeyTold
<1> QED BY <1>14, <1>15, <1>16 DEF TextKept

(* the line that is returned, *)
LEMMA ExitKept == TextSizes /\ TextKept /\ Exit => TextKept'
<1> SUFFICES ASSUME TextSizes, TextKept, Exit PROVE TextKept' OBVIOUS
<1>1. textbox.open /\ textbox' = Returned(Pressed(textbox, "exit")) BY DEF Exit
<1>2. PICK n, s, r : Shown(textbox, n, s, r) BY <1>1 DEF TextKept
<1> DEFINE t == Pressed(textbox, "exit")  v == BackLines(t, t.length)
<1>a. "exit" \in KeyNames BY DEF KeyNames
<1>3. Shown(t, n, s, r) /\ t.was = s[r] /\ t \in TextBox BY <1>2, <1>a, PressedShows
<1>4. textbox' = [t EXCEPT !.vscroll = LinesAbove(v), !.open = FALSE] BY <1>1 DEF Returned
<1> HIDE DEF t
<1>5. Layout(t.buf, n, s) /\ r \in 0 .. n /\ n \in Nat /\ t.length \in Int BY <1>3, ShownFacts
<1>6. StandsAt(v, n, s, r)
  <2>1. t.length + 0 = t.length /\ Above(r, 0) = r BY <1>5 DEF Above
  <2>2. StandsAt(BackLines(t, t.length + 0), n, s, Above(r, 0)) BY <1>3, BackFromPage
  <2> QED BY <2>1, <2>2
<1>7. LinesAbove(v) = r BY <1>6, LinesAboveIs
<1>8. textbox' = [t EXCEPT !.vscroll = r, !.open = FALSE] BY <1>4, <1>7
<1>9. r \in Nat BY <1>5
<1>10. textbox' \in TextBox /\ textbox'.buf = t.buf /\ ~textbox'.open /\ textbox'.vscroll = r
       /\ textbox'.was = s[r]
  BY <1>3, <1>8, <1>9 DEF TextBox
<1>11. LeftAt(textbox', n, s, r) BY <1>5, <1>10 DEF LeftAt
<1> QED BY <1>10, <1>11 DEF TextKept

(* and the text that is shown again from that line. *)
LEMMA AgainKept == TextSizes /\ TextKept /\ ShowAgain => TextKept'
<1> SUFFICES ASSUME TextSizes, TextKept, ShowAgain PROVE TextKept' OBVIOUS
<1>1. ~textbox.open /\ textbox' = [ShownAgain(textbox) EXCEPT !.key = "again", !.was = textbox.was]
  BY DEF ShowAgain
<1>2. PICK n, s, r : LeftAt(textbox, n, s, r) BY <1>1 DEF TextKept
<1>3. /\ textbox \in TextBox /\ Layout(textbox.buf, n, s) /\ r \in 0 .. n
      /\ textbox.vscroll = r /\ textbox.was = s[r]
  BY <1>2 DEF LeftAt
<1>4. n \in Nat /\ s[0] = 0 /\ s \in [0 .. n -> Nat] BY <1>3, LayoutFacts
<1> DEFINE first == [FirstShown(textbox.buf, textbox.boxh) EXCEPT
                       !.hscroll = textbox.hscroll, !.vscroll = textbox.vscroll]
           t == [first EXCEPT !.begin = first.vscroll = 0]
           u == GetLines(t, r)[r]
<1>5. /\ first \in TextBox /\ first.buf = textbox.buf /\ first.page = 0 /\ first.open
      /\ first.vscroll = r /\ ~first.end
  <2>1. "open" \in KeyNames BY DEF KeyNames
  <2> DEFINE b == textbox.buf  h == textbox.boxh  x == textbox.hscroll  v == textbox.vscroll
  <2>2. b \in Texts /\ h \in Lines /\ x \in Int /\ v \in Nat /\ v = r BY <1>3 DEF TextBox
  <2>3. first = [FirstShown(b, h) EXCEPT !.hscroll = x, !.vscroll = v] OBVIOUS
  <2> HIDE DEF b, h, x, v, first
  <2> DEFINE f == FirstShown(b, h)
  <2>5. f \in TextBox /\ f.buf = b /\ f.page = 0 /\ f.open = TRUE /\ f.end = FALSE
    BY <2>1, <2>2 DEF FirstShown, TextBox
  <2>6. first = [f EXCEPT !.hscroll = x, !.vscroll = v] BY <2>3
  <2> HIDE DEF f
  <2>4. first \in TextBox /\ first.buf = b /\ first.page = 0 /\ first.open
        /\ first.vscroll = r /\ ~first.end
    BY <2>2, <2>5, <2>6 DEF TextBox
  <2> QED BY <2>4 DEF b
<1>6. ShownAgain(textbox) = Refresh(u) BY <1>5 DEF ShownAgain, Scrolled
<1> HIDE DEF first
<1>7. /\ t \in TextBox /\ t.buf = textbox.buf /\ t.page = 0 /\ t.open /\ ~t.end
      /\ t.begin = (r = 0)
  <2> DEFINE b == first.vscroll = 0
  <2>1. b \in BOOLEAN /\ b = (r = 0) BY <1>5
  <2> HIDE DEF b
  <2>2. /\ t \in TextBox /\ t.buf = textbox.buf /\ t.page = 0 /\ t.open /\ ~t.end
        /\ t.begin = b
    BY <2>1, <1>5 DEF TextBox, b
  <2> QED BY <2>1, <2>2
<1> HIDE DEF t
<1>8. StandsAt(t, n, s, 0) BY <1>3, <1>4, <1>7 DEF StandsAt
<1>9. u = AfterLines(t, n, s, 0, r)
  <2>1. r \in Nat /\ r \in 0 .. r BY <1>3
  <2>2. GetLines(t, r) = [i \in 0 .. r |-> AfterLines(t, n, s, 0, i)] BY <1>8, <2>1, GetLinesIs
  <2> QED BY <2>1, <2>2
<1>10. StandsAt(u, n, s, r)
  <2>1. r \in Nat /\ Upto(0 + r, n) = r BY <1>3, <1>4 DEF Upto
  <2>2. StandsAt(AfterLines(t, n, s, 0, r), n, s, Upto(0 + r, n)) BY <1>8, <2>1, AfterLinesGrow
  <2> QED BY <1>9, <2>1, <2>2
<1>11. u.begin = (r = 0) /\ u.open
  <2> DEFINE x == s[Upto(0 + r, n)]  y == IF r = 0 THEN t.end ELSE 0 + r > n
  <2>1. u = [t EXCEPT !.page = x, !.end = y] BY <1>9 DEF AfterLines
  <2> HIDE DEF x, y, u
  <2>2. u.begin = t.begin /\ u.open = t.open BY <2>1, <1>7 DEF TextBox
  <2> QED BY <2>2, <1>7
<1> HIDE DEF u
<1>12. Shown(Refresh(u), n, s, r) BY <1>10, <1>11, RefreshShows
<1> DEFINE v == Refresh(u)
<1>13. textbox' = [v EXCEPT !.key = "again", !.was = textbox.was] BY <1>1, <1>6
<1> HIDE DEF v
<1>14. v \in TextBox /\ Shown(v, n, s, r) BY <1>12 DEF Shown, v
<1>15. textbox.was \in Nat BY <1>3 DEF TextBox
<1> DEFINE w == textbox.was
<1>16. w = s[r] /\ w \in Nat BY <1>3, <1>15
<1>17. textbox' = [v EXCEPT !.key = "again", !.was = w] BY <1>13
<1> HIDE DEF w
<1>b. "again" \in KeyNames BY DEF KeyNames
<1>18. /\ textbox' \in TextBox /\ textbox'.buf = v.buf /\ textbox'.page = v.page
       /\ textbox'.begin = v.begin /\ textbox'.end = v.end /\ textbox'.length = v.length
       /\ textbox'.boxh = v.boxh /\ textbox'.start = v.start /\ textbox'.open = v.open
       /\ textbox'.was = w /\ textbox'.key = "again"
  BY <1>14, <1>16, <1>17, <1>b DEF TextBox
<1>19. Shown(textbox', n, s, r) BY <1>14, <1>18 DEF Shown
<1>20. KeyTold(textbox', n, s, r) BY <1>16, <1>18 DEF KeyTold
<1>21. textbox'.open BY <1>19 DEF Shown
<1> QED BY <1>19, <1>20, <1>21 DEF TextKept

(* So it is kept throughout. *)
LEMMA TextStays == TextSizes => (LxTextSpec => []TextKept)
<1> SUFFICES ASSUME TextSizes PROVE LxTextSpec => []TextKept OBVIOUS
<1>1. TextKept /\ [LxTextNext]_textbox => TextKept'
  <2> SUFFICES ASSUME TextKept, [LxTextNext]_textbox PROVE TextKept' OBVIOUS
  <2>1. CASE LxTextNext
    BY <2>1, PressKept, ResizeKept, ExitKept, AgainKept DEF LxTextNext
  <2>2. CASE UNCHANGED textbox BY <2>2 DEF TextKept
  <2> QED BY <2>1, <2>2
<1>2. LxTextInit => TextKept BY FirstKept
<1> QED BY <1>1, <1>2, PTL DEF LxTextSpec

(* Where the lines begin. *)
LEMMA StartsAre ==
  ASSUME NEW buf, NEW n, NEW s, Layout(buf, n, s)
  PROVE  /\ \A i \in 0 .. n : s[i] \in StartsOf(buf)
         /\ \A at \in StartsOf(buf) : \E i \in 0 .. n : at = s[i]
<1>1. n \in Nat /\ s[0] = 0 BY LayoutFacts
<1>2. \A i \in 1 .. n : buf[s[i]] = "nl" /\ s[i] \in 1 .. Len(buf) BY LayoutFacts
<1>3. \A at \in 1 .. Len(buf) : buf[at] = "nl" => \E i \in 1 .. n : at = s[i] BY LayoutFacts
<1>4. ASSUME NEW i \in 0 .. n PROVE s[i] \in StartsOf(buf)
  <2>1. i = 0 \/ i \in 1 .. n BY <1>1
  <2> QED BY <2>1, <1>1, <1>2 DEF StartsOf
<1>5. ASSUME NEW at \in StartsOf(buf) PROVE \E i \in 0 .. n : at = s[i]
  <2>1. CASE at = 0
    <3>1. 0 \in 0 .. n BY <1>1
    <3> QED BY <3>1, <2>1, <1>1
  <2>2. CASE at # 0
    <3>1. \E i \in 1 .. n : at = s[i] BY <2>2, <1>3 DEF StartsOf
    <3>2. \A i \in 1 .. n : i \in 0 .. n BY <1>1
    <3> QED BY <3>1, <3>2
  <2> QED BY <2>1, <2>2
<1> QED BY <1>4, <1>5

(* From a line to the next it is one line. *)
LEMMA NextIsOneLine ==
  ASSUME NEW t, NEW n, NEW s, Layout(t.buf, n, s), NEW r, r \in 0 .. n, r < n
  PROVE  IsOneLine(t, s[r], s[r + 1])
<1>1. n \in Nat /\ s \in [0 .. n -> Nat] BY LayoutFacts
<1>2. \A i, j \in 0 .. n : i < j <=> s[i] < s[j] BY LayoutFacts
<1>3. r + 1 \in 0 .. n /\ r \in 0 .. n BY <1>1
<1> DEFINE x == s[r + 1]
<1>4. x \in StartsOf(t.buf) BY <1>3, StartsAre
<1>5. s[r] < x /\ x \in Nat BY <1>1, <1>2, <1>3
<1>6. ASSUME NEW at \in StartsOf(t.buf), s[r] < at, at <= x PROVE at = x
  <2>1. PICK i \in 0 .. n : at = s[i] BY StartsAre
  <2>2. s[i] \in Nat /\ s[r] \in Nat BY <1>1, <1>3
  <2>3. r < i BY <2>1, <1>2, <1>3, <1>6
  <2>4. ~(r + 1 < i) BY <2>1, <2>2, <1>2, <1>3, <1>5, <1>6
  <2>5. i = r + 1 BY <2>3, <2>4, <1>1
  <2> QED BY <2>5, <2>1
<1> HIDE DEF x
<1> DEFINE y == s[r]
<1> HIDE DEF y
<1>9. y < x /\ \A at \in StartsOf(t.buf) : y < at /\ at <= x => at = x BY <1>5, <1>6 DEF y
<1>10. x <= x BY <1>5
<1>11. Between(t, y, x) = {x} BY <1>4, <1>9, <1>10 DEF Between
<1>7. Between(t, s[r], x) = {x} BY <1>11 DEF y
<1>8. IsOneLine(t, s[r], x) BY <1>4, <1>7 DEF IsOneLine
<1> QED BY <1>8 DEF x

(* What is kept is enough for both properties. *)
LEMMA TextIsTrue == TextSizes /\ TextKept => FlagsTrue /\ LinesKept
<1> SUFFICES ASSUME TextSizes, TextKept, textbox.open PROVE FlagsTrue /\ LinesKept
  BY DEF FlagsTrue, LinesKept
<1>1. PICK n, s, r : Shown(textbox, n, s, r) /\ KeyTold(textbox, n, s, r) BY DEF TextKept
<1> DEFINE t == textbox
<1>2. /\ t \in TextBox /\ Layout(t.buf, n, s) /\ r \in 0 .. n /\ n \in Nat /\ t.boxh \in Nat
      /\ s \in [0 .. n -> Nat] /\ s[0] = 0 /\ s[n] = Len(t.buf) /\ t.start = s[r]
      /\ (t.begin <=> r = 0) /\ (t.end <=> r + t.boxh > n) /\ t.page = s[Upto(r + t.boxh, n)]
  BY <1>1, ShownFacts
<1>3. FlagsTrue
  <2>0. Layout(t.buf, n, s) BY <1>2
  <2>1. t.start \in StartsOf(t.buf)
    <3>1. \A i \in 0 .. n : s[i] \in StartsOf(t.buf) BY <2>0, StartsAre
    <3> QED BY <3>1, <1>2
  <2>2. t.begin = (t.start = 0)
    <3>1. \A i, j \in 0 .. n : i = j <=> s[i] = s[j] BY <2>0, LayoutFacts
    <3>2. 0 \in 0 .. n BY <1>2
    <3>3. r = 0 <=> t.start = 0 BY <3>1, <3>2, <1>2
    <3>4. t.begin \in BOOLEAN BY <1>2 DEF TextBox
    <3> QED BY <3>3, <3>4, <1>2
  <2>3. ASSUME t.end PROVE AtEnd(t)
    <3>1. Upto(r + t.boxh, n) = n BY <2>3, <1>2 DEF Upto
    <3> QED BY <3>1, <1>2 DEF AtEnd
  <2> QED BY <2>1, <2>2, <2>3 DEF FlagsTrue
<1>4. LinesKept
  <2>1. CASE t.key \in {"left", "right", "zero", "again"}
    <3>1. t.start = t.was BY <2>1, <1>1, <1>2 DEF KeyTold
    <3> QED BY <3>1, <2>1 DEF LinesKept
  <2>2. CASE t.key = "up"
    <3>1. t.was = 0 \/ (r < n /\ t.was = s[r + 1]) BY <2>2, <1>1 DEF KeyTold
    <3>2. t.was = 0 \/ IsOneLine(t, t.start, t.was)
      <4>1. CASE t.was = 0 BY <4>1
      <4>2. CASE r < n /\ t.was = s[r + 1]
        <5>1. IsOneLine(t, s[r], s[r + 1]) BY <4>2, <1>2, NextIsOneLine
        <5> QED BY <5>1, <4>2, <1>2
      <4> QED BY <3>1, <4>1, <4>2
    <3> QED BY <3>2, <2>2 DEF LinesKept
  <2>3. CASE t.key = "down"
    <3>1. t.was = s[r] \/ (r > 0 /\ t.was = s[r - 1]) BY <2>3, <1>1 DEF KeyTold
    <3>2. t.start = t.was \/ IsOneLine(t, t.was, t.start)
      <4>1. CASE t.was = s[r] BY <4>1, <1>2
      <4>2. CASE r > 0 /\ t.was = s[r - 1]
        <5>1. r - 1 \in 0 .. n /\ r - 1 < n /\ r - 1 + 1 = r BY <4>2, <1>2
        <5>2. IsOneLine(t, s[r - 1], s[r - 1 + 1]) BY <5>1, <1>2, NextIsOneLine
        <5> QED BY <5>1, <5>2, <4>2, <1>2
      <4> QED BY <3>1, <4>1, <4>2
    <3> QED BY <3>2, <2>3 DEF LinesKept
  <2>4. CASE t.key \notin {"left", "right", "zero", "again", "up", "down"}
    BY <2>4 DEF LinesKept
  <2> QED BY <2>1, <2>2, <2>3, <2>4
<1> QED BY <1>3, <1>4

(* The flags of the text box, the place it is shown from and the line it  *)
(* returns are those of the text: back_lines finds the lines again that    *)
(* print_page drew, whatever the text, the window and the keys.            *)
THEOREM TextFlagsTrue == TextSizes => (LxTextSpec => []FlagsTrue)
<1> SUFFICES ASSUME TextSizes PROVE LxTextSpec => []FlagsTrue OBVIOUS
<1>1. TextKept => FlagsTrue BY TextIsTrue
<1>2. LxTextSpec => []TextKept BY TextStays
<1> QED BY <1>1, <1>2, PTL

(* A line up or down is one line, a move to the side none, and a text that *)
(* is shown again starts where it was left: whatever was pressed before.   *)
THEOREM TextLinesKept == TextSizes => (LxTextSpec => []LinesKept)
<1> SUFFICES ASSUME TextSizes PROVE LxTextSpec => []LinesKept OBVIOUS
<1>1. TextKept => LinesKept BY TextIsTrue
<1>2. LxTextSpec => []TextKept BY TextStays
<1> QED BY <1>1, <1>2, PTL

(* The screen is true of each of the dialogs, whatever the others do. *)
THEOREM ScreensAreTrue ==
  ListSizes /\ TextSizes /\ LineSizes =>
    (LxMenuSpec /\ LxTextSpec /\ LxInputSpec => []ScreenIsTrue)
<1> SUFFICES ASSUME ListSizes, TextSizes, LineSizes
             PROVE  LxMenuSpec /\ LxTextSpec /\ LxInputSpec => []ScreenIsTrue
  OBVIOUS
<1>1. LxMenuSpec => []ScreenTrue BY ScreenTrueHolds
<1>2. LxMenuSpec => []ChoiceInView BY ChoiceInViewHolds
<1>3. LxTextSpec => []FlagsTrue BY TextFlagsTrue
<1>4. LxTextSpec => []LinesKept BY TextLinesKept
<1>5. LxInputSpec => [](TextAsTyped /\ FieldTrue) BY FieldsTrue
<1>6. ScreenTrue /\ ChoiceInView /\ FlagsTrue /\ LinesKept /\ TextAsTyped /\ FieldTrue => ScreenIsTrue
  BY DEF ScreenIsTrue
<1> QED BY <1>1, <1>2, <1>3, <1>4, <1>5, <1>6, PTL
(***************************************************************************)
(* The save of a configuration (confdata.c, conf_write)                    *)
(***************************************************************************)

(* While a save is under way its file and the phases after it are known,   *)
(* and what will be renamed stands in the temporary file.                  *)
JobSound ==
  /\ phase \in Elsewhere \/ Saving
  /\ Saving => job.file \in Targets /\ job.then \in Elsewhere /\ job.fail \in Elsewhere
  /\ phase \in {"compare", "rename"} => disk["tmp"] = job.lines
  /\ phase = "rename" => disk[job.file] = Absent

(* The last whole configuration is in .config, or .config is missing and   *)
(* it is in .config.old.                                                   *)
Stands == \/ saved = disk[".config"]
          \/ disk[".config"] = Absent /\ saved = disk[".config.old"]

SavesInv ==
  /\ disk = [f \in Files |-> disk[f]]
  /\ JobSound
  /\ ~inPlace => Stands

LEMMA FileNames ==
  \A f \in Targets :
    /\ f \in Files /\ OldName(f) \in Files /\ "tmp" \in Files
    /\ f # "tmp" /\ OldName(f) # "tmp" /\ f # OldName(f)
    /\ f # ".config" => OldName(f) # ".config" /\ OldName(f) # ".config.old" /\ f # ".config.old"
    /\ f = ".config" => OldName(f) = ".config.old"
BY DEF Targets, Files, OldName

(* A rename moves what was there, and nothing else. *)
LEMMA RenamedIs ==
  ASSUME NEW d, NEW from \in Files, NEW to \in Files, from # to, d = [f \in Files |-> d[f]]
  PROVE  LET r == Renamed(d, from, to)
         IN /\ r = [f \in Files |-> r[f]]
            /\ r[from] = Absent
            /\ d[from] # Absent => r[to] = d[from]
            /\ d[from] = Absent => r = d
            /\ \A f \in Files \ {from, to} : r[f] = d[f]
BY DEF Renamed

LEMMA SavesStep == SavesInv /\ [SavesNext]_savevars => SavesInv'
<1> SUFFICES ASSUME SavesInv, [SavesNext]_savevars PROVE SavesInv'
  OBVIOUS
<1> USE DEF SavesInv
<1>1. CASE BeginSave
  <2>1. PICK file \in Targets, then \in Elsewhere, fail \in Elsewhere :
          StartSave(job'.lines, file, then, fail)
    BY <1>1 DEF BeginSave
  <2>2. /\ phase' = "write" /\ job'.file = file /\ job'.then = then /\ job'.fail = fail
    BY <2>1 DEF StartSave
  <2>3. UNCHANGED <<disk, inPlace, saved, cuts>>
    BY <1>1 DEF BeginSave
  <2>4. JobSound'
    BY <2>2 DEF JobSound, Saving
  <2> QED BY <2>3, <2>4 DEF Stands
<1>2. CASE WriteOver
  <2>1. inPlace /\ inPlace' = inPlace /\ phase' = job.then /\ Saving
    BY <1>2 DEF WriteOver, EndSave, Saving
  <2>2. phase' \in Elsewhere /\ ~Saving'
    BY <2>1 DEF JobSound, Saving, Elsewhere
  <2>3. disk' = [f \in Files |-> disk'[f]]
    BY <1>2 DEF WriteOver
  <2> QED BY <2>1, <2>2, <2>3 DEF JobSound, Saving
<1>3. CASE WriteTmp
  <2>1. /\ phase = "write" /\ phase' = "compare" /\ disk' = [disk EXCEPT !["tmp"] = job.lines]
        /\ job' = job /\ inPlace' = inPlace /\ saved' = saved
    BY <1>3 DEF WriteTmp
  <2>2. /\ disk' = [f \in Files |-> disk'[f]] /\ disk'["tmp"] = job.lines
        /\ disk'[".config"] = disk[".config"] /\ disk'[".config.old"] = disk[".config.old"]
    BY <2>1 DEF Files
  <2> QED BY <2>1, <2>2 DEF JobSound, Saving, Stands
<1>4. CASE NoChange
  <2>1. /\ phase = "compare" /\ phase' = job.then /\ disk' = [disk EXCEPT !["tmp"] = Absent]
        /\ inPlace' = inPlace /\ saved' = saved
    BY <1>4 DEF NoChange, EndSave
  <2>2. phase' \in Elsewhere /\ ~Saving'
    BY <2>1 DEF JobSound, Saving, Elsewhere
  <2>3. /\ disk' = [f \in Files |-> disk'[f]]
        /\ disk'[".config"] = disk[".config"] /\ disk'[".config.old"] = disk[".config.old"]
    BY <2>1 DEF Files
  <2> QED BY <2>1, <2>2, <2>3 DEF JobSound, Saving, Stands
<1>5. CASE RenameOld
  <2> DEFINE file == job.file
  <2>1. /\ phase = "compare" /\ phase' = "rename" /\ disk' = Renamed(disk, file, OldName(file))
        /\ job' = job /\ inPlace' = inPlace /\ saved' = saved /\ file \in Targets
    BY <1>5 DEF RenameOld, FirstRename, JobSound, Saving
  <2>2. /\ disk' = [f \in Files |-> disk'[f]] /\ disk'[file] = Absent
        /\ disk[file] # Absent => disk'[OldName(file)] = disk[file]
        /\ disk[file] = Absent => disk' = disk
        /\ \A f \in Files \ {file, OldName(file)} : disk'[f] = disk[f]
    BY <2>1, FileNames, RenamedIs
  <2>3. JobSound'
    BY <2>1, <2>2, FileNames DEF JobSound, Saving
  <2>4. ASSUME ~inPlace PROVE Stands'
    <3>1. CASE file = ".config"
      BY <2>1, <2>2, <2>4, <3>1, FileNames DEF Stands
    <3>2. CASE file # ".config"
      <4>1. ".config" \in Files \ {file, OldName(file)} /\ ".config.old" \in Files \ {file, OldName(file)}
        BY <2>1, <3>2, FileNames DEF Files
      <4> QED BY <2>1, <2>2, <2>4, <4>1 DEF Stands
    <3> QED BY <3>1, <3>2
  <2> QED BY <2>1, <2>2, <2>3, <2>4
<1>6. CASE RenameNew
  <2> DEFINE file == job.file
  <2>1. /\ phase = "rename" /\ phase' = job.then /\ disk' = Renamed(disk, "tmp", file)
        /\ saved' = IF file = ".config" THEN job.lines ELSE saved
        /\ inPlace' = inPlace /\ file \in Targets /\ disk["tmp"] = job.lines /\ disk[file] = Absent
    BY <1>6 DEF RenameNew, EndSave, JobSound, Saving
  <2>2. phase' \in Elsewhere /\ ~Saving'
    BY <2>1 DEF JobSound, Saving, Elsewhere
  <2>3. /\ disk' = [f \in Files |-> disk'[f]]
        /\ disk["tmp"] # Absent => disk'[file] = disk["tmp"]
        /\ disk["tmp"] = Absent => disk' = disk
        /\ \A f \in Files \ {"tmp", file} : disk'[f] = disk[f]
    BY <2>1, FileNames, RenamedIs
  <2>4. ASSUME ~inPlace PROVE Stands'
    <3>1. CASE file = ".config"
      BY <2>1, <2>3, <3>1 DEF Stands
    <3>2. CASE file # ".config"
      <4>1. ".config" \in Files \ {"tmp", file} /\ ".config.old" \in Files \ {"tmp", file}
        BY <2>1, <3>2, FileNames DEF Files
      <4> QED BY <2>1, <2>3, <2>4, <3>2, <4>1 DEF Stands
    <3> QED BY <3>1, <3>2
  <2> QED BY <2>1, <2>2, <2>3, <2>4 DEF JobSound, Saving
<1>7. CASE SaveFails
  BY <1>7 DEF SaveFails, JobSound, Saving, Elsewhere, Stands
<1>8. CASE Cut
  <2>1. phase' = "off" /\ inPlace' = inPlace /\ saved' = saved /\ disk' = [f \in Files |-> disk'[f]]
    BY <1>8 DEF Cut
  <2>2. ~inPlace => disk' = disk
    BY <1>8 DEF Cut
  <2> QED BY <2>1, <2>2 DEF JobSound, Saving, Elsewhere, Stands
<1>9. CASE Restart
  <2>1. /\ phase' = "load" /\ inPlace' = inPlace /\ saved' = saved /\ disk' = [disk EXCEPT !["tmp"] = Absent]
    BY <1>9 DEF Restart
  <2>2. /\ disk' = [f \in Files |-> disk'[f]]
        /\ disk'[".config"] = disk[".config"] /\ disk'[".config.old"] = disk[".config.old"]
    BY <2>1 DEF Files
  <2> QED BY <2>1, <2>2 DEF JobSound, Saving, Elsewhere, Stands
<1>10. CASE Meanwhile
  <2>1. phase' \in Elsewhere /\ inPlace' = inPlace /\ saved' = saved
    BY <1>10 DEF Meanwhile
  <2>2. /\ disk' = [f \in Files |-> disk'[f]]
        /\ disk'[".config"] = disk[".config"] /\ disk'[".config.old"] = disk[".config.old"]
    BY <1>10 DEF Meanwhile, Files
  <2> QED BY <2>1, <2>2 DEF JobSound, Saving, Elsewhere, Stands
<1>11. CASE UNCHANGED savevars
  BY <1>11 DEF savevars, JobSound, Saving, Stands
<1> QED BY <1>1, <1>2, <1>3, <1>4, <1>5, <1>6, <1>7, <1>8, <1>9, <1>10, <1>11 DEF SavesNext

(* SavedSurvives of the saves by themselves: a cut or a failure at any     *)
(* step of conf_write, and any number of saves, leave the last whole       *)
(* configuration in .config or in .config.old.                             *)
THEOREM SavesSurvive == SavesSpec => []SavedSurvives
<1>1. SavesInit => SavesInv
  <2> SUFFICES ASSUME SavesInit PROVE SavesInv OBVIOUS
  <2>1. disk = [f \in Files |-> disk[f]]
    BY DEF SavesInit
  <2> QED BY <2>1 DEF SavesInit, SavesInv, JobSound, Saving, Elsewhere, Stands
<1>2. SavesInv => SavedSurvives
  BY DEF SavesInv, Stands, SavedSurvives
<1> QED BY <1>1, SavesStep, <1>2, PTL DEF SavesSpec
================================================================================
