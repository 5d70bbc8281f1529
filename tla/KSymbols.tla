------------------------------ MODULE KSymbols ------------------------------
(***************************************************************************)
(* scripts/config/symbol.c: how the symbols of a Kconfig get their values. *)
(*                                                                         *)
(* The C code calculates lazily: sym_calc_value does nothing for a symbol  *)
(* whose SYMBOL_VALID is set, else it calculates what the symbol depends   *)
(* on first, and marks on the way (SYMBOL_WRITE, visible, the parts of its *)
(* dependencies).  A function here takes the whole state st of the library *)
(* and returns the state it leaves, so the order in which the symbols are  *)
(* asked for is kept.                                                      *)
(*                                                                         *)
(*   st.k        the Kconfig as menu_finalize leaves it (see KMenus)       *)
(*   st.curr     symbol -> the calculated value [tri, val]                 *)
(*   st.def      symbol -> the user's value [tri, val]  (def[S_DEF_USER])  *)
(*   st.valid, st.write, st.user, st.need                                  *)
(*               the symbols with SYMBOL_VALID, SYMBOL_WRITE,              *)
(*               SYMBOL_DEF_USER, SYMBOL_NEED_SET_CHOICE_VALUES            *)
(*   st.visible, st.dirTri, st.revTri, st.impTri                           *)
(*               symbol -> visible, dir_dep.tri, rev_dep.tri, implied.tri  *)
(*   st.propTri  property -> visible.tri                                   *)
(*   st.modVal   modules_val                                               *)
(*   st.changed  conf_changed                                              *)
(*                                                                         *)
(* A string value is a member of the tables of ExprJoin.  The marks that   *)
(* only make a window redraw (SYMBOL_CHANGED, MENU_CHANGED) are left out.  *)
(***************************************************************************)
EXTENDS Expr, FiniteSets

CONSTANTS
  IntLiterals,  \* the strings sym_string_valid takes for an int symbol
  HexLiterals,  \* ... and for a hex symbol
  Prefixed      \* a hex literal without 0x -> the literal with it

RECURSIVE CalcValue(_, _), CheckDeps(_, _, _)

Logic == {"boolean", "tristate"}
NoSymbol == "(null)"   \* a null pointer: no symbol, or no string value yet

(* Finding one's way in the Kconfig. *)
Properties(st, s, type) ==
  SelectSeq(st.k.props[s], LAMBDA p : st.k.prop[p].type = type)
Prompts(st, s) == SelectSeq(st.k.props[s], LAMBDA p : st.k.prop[p].text)
IsChoice(st, s) == s \in st.k.choices
IsChoiceValue(st, s) == s \in st.k.choiceVal
ChoiceOf(st, v) == st.k.prop[Properties(st, v, "CHOICE")[1]].expr.sym

Tri(st, s) == st.curr[s].tri

(* Without modules a tristate behaves as a boolean, and so does a value of *)
(* a choice that is y.                                                     *)
TypeNow(st, s) ==
  IF /\ TypeOf[s] = "tristate"
     /\ st.modVal = no \/ (IsChoiceValue(st, s) /\ st.visible[s] = yes)
  THEN "boolean" ELSE TypeOf[s]

(* sym_get_string_value: m reads as n while there are no modules. *)
StringValue(st, s) ==
  IF TypeOf[s] \notin Logic THEN st.curr[s].val
  ELSE IF Tri(st, s) = mod THEN IF Tri(st, st.k.modules) = no THEN "n" ELSE "m"
  ELSE IF Tri(st, s) = yes THEN "y" ELSE "n"

EnvOf(st, syms) == [tri |-> [s \in syms |-> Tri(st, s)],
                    str |-> [s \in syms |-> StringValue(st, s)]]

CalcSymbols(st, syms) == FoldLeft(CalcValue, st, syms)

(* expr_calc_value on st: the symbols are calculated, then it is evaluated. *)
Evaluated(st, syms, e) == [st |-> st, tri |-> Value(EnvOf(st, syms), e)]
CalcIn(st, syms, e) == Evaluated(CalcSymbols(st, syms), Range(syms), e)
CalcExpr(st, e) == CalcIn(st, SymbolsOf(e), e)

(* The first of some properties whose condition is not n; 0 for none. *)
IfActive(c, p) == [st |-> [c.st EXCEPT !.propTri[p] = c.tri],
                   prop |-> IF c.tri = no THEN 0 ELSE p]
TryProp(acc, p) ==
  IF acc.prop # 0 THEN acc ELSE IfActive(CalcExpr(acc.st, acc.st.k.prop[p].visible), p)
FirstActive(st, ps) == FoldLeft(TryProp, [st |-> st, prop |-> 0], ps)

DefaultProp(st, s) == FirstActive(st, Properties(st, s, "DEFAULT"))
RangeProp(st, s) == FirstActive(st, Properties(st, s, "RANGE"))

(* strtoll, which takes what is no number for 0. *)
ReadIn(str, table) == IF str \in DOMAIN table THEN table[str] ELSE 0
ReadNumber(str, hex) == ReadIn(str, IF hex THEN HexOf ELSE IntOf)

RangeVal(st, s, hex) ==
  ReadNumber(st.curr[s].val, IF TypeOf[s] = "int" THEN FALSE
                             ELSE IF TypeOf[s] = "hex" THEN TRUE ELSE hex)

(* sym_validate_range: a number below the range becomes its lower end, one *)
(* above it the upper end.                                                 *)
Copied(st, s, end) == [st EXCEPT !.curr[s].val = st.curr[end].val]
Exceeds(st, a, b, hex) == RangeVal(st, a, hex) > RangeVal(st, b, hex)
AtMost(st, s, end) == IF Exceeds(st, s, end, TypeOf[s] = "hex") THEN Copied(st, s, end) ELSE st
IntoRange(st, s, ends) ==
  IF Exceeds(st, ends.sym, s, TypeOf[s] = "hex") THEN Copied(st, s, ends.sym)
  ELSE AtMost(CalcValue(st, ends.rsym), s, ends.rsym)
Validated(r, s) ==
  IF r.prop = 0 THEN r.st
  ELSE IntoRange(CalcValue(r.st, r.st.k.prop[r.prop].expr.sym), s, r.st.k.prop[r.prop].expr)

(* Mutant: a number is not compared with its range. *)
BugValidateRange(st, s) == st

ValidateRange(st, s) ==
  IF TypeOf[s] \in {"int", "hex"} THEN Validated(RangeProp(st, s), s) ELSE st

(***************************************************************************)
(* sym_calc_visibility: the prompts, then what the symbol depends on and   *)
(* what selects or implies it.  A member of a choice has only prompts.     *)
(***************************************************************************)
HiddenMember(c, s) ==
  /\ IsChoiceValue(c.st, s) /\ TypeOf[s] = "tristate" /\ c.tri = mod
  /\ Tri(c.st, ChoiceOf(c.st, s)) = yes
OfPrompt(c, s) == IF HiddenMember(c, s) THEN [c EXCEPT !.tri = no] ELSE c
AfterPrompt(c, p, before) ==
  [st |-> [c.st EXCEPT !.propTri[p] = c.tri], tri |-> Most(before, c.tri)]
SeePrompts(st, s) ==
  FoldLeft(LAMBDA acc, p : AfterPrompt(OfPrompt(CalcExpr(acc.st, st.k.prop[p].visible), s), p, acc.tri),
           [st |-> st, tri |-> no], Prompts(st, s))
Visible(c, s) ==
  [c.st EXCEPT !.visible[s] = IF c.tri = mod /\ (TypeOf[s] # "tristate" \/ c.st.modVal = no)
                              THEN yes ELSE c.tri]

(* What a condition gives to s, and to s when it is no condition at all.   *)
Given(c, s) == IF c.tri = mod /\ TypeNow(c.st, s) = "boolean" THEN yes ELSE c.tri
GivenBy(c, s, e) == IF e = Null THEN no ELSE Given(c, s)

Depending(c, s) == [c.st EXCEPT !.dirTri[s] = Given(c, s)]
Selected(c, s) == [c.st EXCEPT !.revTri[s] = GivenBy(c, s, c.st.k.revDep[s])]
Implied(c, s) == [c.st EXCEPT !.impTri[s] = GivenBy(c, s, c.st.k.implied[s])]
SeeDependencies(st, s) ==
  LET k == st.k
  IN Implied(CalcExpr(Selected(CalcExpr(Depending(CalcExpr(st, k.dirDep[s]), s),
                                        k.revDep[s]), s), k.implied[s]), s)

UnlessMember(st, s) == IF IsChoiceValue(st, s) THEN st ELSE SeeDependencies(st, s)
CalcVisibility(st, s) == UnlessMember(Visible(SeePrompts(st, s), s), s)

(***************************************************************************)
(* Choices.  The value of a choice that is y is one of its members: the    *)
(* one the user chose while it is visible, else the first visible default, *)
(* else the first visible member.                                          *)
(***************************************************************************)
Members(st, s) == st.k.members[s]
FirstOf(syms) == IF syms = <<>> THEN NoSymbol ELSE syms[1]
FirstVisible(st, syms) == FirstOf(SelectSeq(syms, LAMBDA v : st.visible[v] # no))

IfVisible(c, p, v) == [st |-> [c.st EXCEPT !.propTri[p] = c.tri],
                       sym |-> IF c.tri # no /\ c.st.visible[v] # no THEN v ELSE NoSymbol]
TryDefault(acc, p) ==
  LET prop == acc.st.k.prop[p]
  IN IF acc.sym # NoSymbol THEN acc ELSE IfVisible(CalcExpr(acc.st, prop.visible), p, prop.expr.sym)
OrFirst(d, syms) ==
  IF d.sym # NoSymbol THEN d ELSE [d EXCEPT !.sym = FirstVisible(d.st, syms)]

(* sym_choice_default *)
ChoiceDefault(st, s) ==
  OrFirst(FoldLeft(TryDefault, [st |-> st, sym |-> NoSymbol], Properties(st, s, "DEFAULT")),
          Members(st, s))

(* sym_calc_choice: a choice with a visible member the user has not set    *)
(* counts as not set.                                                      *)
Unset(st, s) ==
  IF \E v \in Range(Members(st, s)) : st.visible[v] # no /\ v \notin st.user
  THEN [st EXCEPT !.user = @ \ {s}] ELSE st
ByDefault(d, s) == [d.st EXCEPT !.curr[s].val = d.sym,
                                !.curr[s].tri = IF d.sym = NoSymbol THEN no ELSE @]

(* Mutant: what the user chose counts although it is hidden by now. *)
BugChosenMember(st, s, chosen) ==
  IF chosen # NoSymbol THEN [st EXCEPT !.curr[s].val = chosen]
  ELSE ByDefault(ChoiceDefault(st, s), s)

ChosenMember(st, s, chosen) ==
  IF chosen # NoSymbol /\ st.visible[chosen] # no THEN [st EXCEPT !.curr[s].val = chosen]
  ELSE ByDefault(ChoiceDefault(st, s), s)
CalcChoice(st, s) ==
  ChosenMember(Unset(FoldLeft(CalcVisibility, st, Members(st, s)), s), s, st.def[s].val)

(* set_all_choice_values (confdata.c) *)
SetAllChoiceValues(st, s) ==
  [st EXCEPT !.def = [v \in Symbols |-> IF v \in Range(Members(st, s)) \ st.user
                                        THEN [@[v] EXCEPT !.tri = no] ELSE @[v]],
             !.user = @ \cup {s}, !.valid = @ \ {s}, !.need = @ \ {s}]

(***************************************************************************)
(* sym_calc_value                                                          *)
(***************************************************************************)

(* What the default and the implying symbols make of a symbol that is not  *)
(* a choice and has no user value in force.                                *)
Written(c, s) == [c EXCEPT !.st.write = @ \cup {s}]
Bounded(c, t) == [c EXCEPT !.tri = Least(@, t)]
PropDefault(d) ==
  IF d.prop = 0 THEN [st |-> d.st, tri |-> no]
  ELSE Bounded(CalcExpr(d.st, d.st.k.prop[d.prop].expr), d.st.propTri[d.prop])
AsDefault(d, s) == IF d.prop = 0 THEN PropDefault(d) ELSE Written(PropDefault(d), s)
AsImplied(c, s) ==
  IF c.st.impTri[s] = no THEN c
  ELSE Written([c EXCEPT !.tri = Least(Most(@, c.st.impTri[s]), c.st.dirTri[s])], s)
DefaultTri(st, s) ==
  IF IsChoice(st, s) THEN [st |-> st, tri |-> no]
  ELSE AsImplied(AsDefault(DefaultProp(st, s), s), s)

(* Selected symbols get at least the value of what selects them, but stay  *)
(* n while their own dependencies are not met.                             *)

(* Mutant: a select wins over the dependencies. *)
BugWithSelects(st, s, t) == Most(t, st.revTri[s])

WithSelects(st, s, t) ==
  IF st.dirTri[s] = no /\ st.revTri[s] # no THEN no ELSE Most(t, st.revTri[s])

Assigned(c, s) == [c.st EXCEPT !.curr[s] = [val |-> "n", tri |-> Given(c, s)]]
NotSetByUser(c, s) == Assigned([c EXCEPT !.tri = WithSelects(c.st, s, c.tri)], s)
WriteSelected(st, s) == IF st.revTri[s] = no THEN st ELSE [st EXCEPT !.write = @ \cup {s}]

CalcTristate(st, s) ==
  IF IsChoiceValue(st, s) /\ st.visible[s] = yes
    THEN Assigned([st |-> st, tri |-> IF st.curr[ChoiceOf(st, s)].val = s THEN yes ELSE no], s)
  ELSE IF st.visible[s] # no /\ s \in st.user
    THEN NotSetByUser([st |-> st, tri |-> Least(st.def[s].tri, st.visible[s])], s)
  ELSE NotSetByUser(DefaultTri(WriteSelected(st, s), s), s)

StringFrom(st, s, from) == [st EXCEPT !.curr[s] = [val |-> st.curr[from].val, tri |-> no]]
DefaultString(d, s) ==
  IF d.prop = 0 THEN d.st
  ELSE IF d.st.k.prop[d.prop].expr.type # "SYMBOL" THEN d.st
  ELSE StringFrom(CalcValue([d.st EXCEPT !.write = @ \cup {s}], d.st.k.prop[d.prop].expr.sym),
                  s, d.st.k.prop[d.prop].expr.sym)
CalcString(st, s) ==
  IF st.visible[s] # no /\ s \in st.user
  THEN [st EXCEPT !.curr[s] = [val |-> st.def[s].val, tri |-> no]]
  ELSE DefaultString(DefaultProp(st, s), s)

(* Before: a member whose choice is still to be settled settles it, and    *)
(* the symbol is marked and looked at.  before is its old value.           *)
Settle(st, s) ==
  IF IsChoiceValue(st, s) /\ s \in st.need
  THEN CalcValue([st EXCEPT !.need = @ \ {s}], ChoiceOf(st, s)) ELSE st
LookAt(st, s) == CalcVisibility([st EXCEPT !.valid = @ \cup {s}, !.write = @ \ {s}], s)
Blanked(st, s) ==
  [st EXCEPT !.curr[s] = [val |-> IF TypeOf[s] \in Logic THEN "n" ELSE "", tri |-> no],
             !.write = IF st.visible[s] = no THEN @ ELSE @ \cup {s}]
CalcByType(st, s) == IF TypeOf[s] \in Logic THEN CalcTristate(st, s) ELSE CalcString(st, s)
CalcIfChoice(st, s) == IF IsChoice(st, s) /\ Tri(st, s) = yes THEN CalcChoice(st, s) ELSE st

(* After: the value of s stands in st.curr.                                *)
MarkModules(st, s, before) ==
  IF s = st.k.modules /\ st.curr[s] # before THEN [st EXCEPT !.modVal = Tri(st, s)] ELSE st
MarkMembers(st, s) ==
  IF IsChoice(st, s) /\ s \in st.write
  THEN [st EXCEPT !.write = @ \cup {v \in Range(Members(st, s)) : st.visible[v] # no}]
  ELSE st
Unwritable(st, s) == IF s \in st.k.noWrite THEN [st EXCEPT !.write = @ \ {s}] ELSE st
SettleMembers(st, s) == IF s \in st.need THEN SetAllChoiceValues(st, s) ELSE st

Calculated(st, s) ==
  SettleMembers(
    Unwritable(
      MarkMembers(
        MarkModules(ValidateRange(CalcIfChoice(CalcByType(Blanked(LookAt(st, s), s), s), s), s),
                    s, st.curr[s]), s), s), s)

CalcValue(st, s) ==
  IF s \in st.valid THEN st
  ELSE IF TypeOf[s] = "unknown"
    THEN [st EXCEPT !.valid = @ \cup {s}, !.curr[s] = [val |-> s, tri |-> no]]
  ELSE Calculated(Settle(st, s), s)

(* sym_clear_all_valid; y, m and n are no members of the symbol table. *)
Fixed == {SymbolYes, SymbolMod, SymbolNo}

(* Mutant: the configuration does not count as changed. *)
BugClearAllValid(st) == CalcValue([st EXCEPT !.valid = Fixed], st.k.modules)

ClearAllValid(st) ==
  CalcValue([st EXCEPT !.valid = Fixed, !.changed = TRUE], st.k.modules)

(***************************************************************************)
(* Setting a value.  Each function returns what the C function returns and *)
(* the state it leaves.                                                    *)
(***************************************************************************)
Fails(st) == [ok |-> FALSE, st |-> st]
Succeeds(st) == [ok |-> TRUE, st |-> st]

(* sym_is_changeable *)
IsChangeable(st, s) == st.visible[s] > st.revTri[s]

TristateWithinRange(st, s, t) ==
  /\ st.visible[s] # no
  /\ TypeNow(st, s) \in Logic
  /\ ~(TypeNow(st, s) = "boolean" /\ t = mod)
  /\ IsChangeable(st, s)
  /\ IF IsChoiceValue(st, s) /\ st.visible[s] = yes
     THEN t = yes ELSE st.revTri[s] <= t /\ t <= st.visible[s]

(* A member of a choice that is set to y is what the user chose, and no    *)
(* visible member counts as new any more.                                  *)
VisibleMembers(st, c) == {m \in Range(Members(st, c)) : st.visible[m] # no}

(* Mutant: the other members stay new. *)
BugChooseIn(st, choice, v) == [st EXCEPT !.def[choice].val = v, !.user = @ \cup {choice}]

ChooseIn(st, choice, v) ==
  [st EXCEPT !.def[choice].val = v, !.user = @ \cup {choice} \cup VisibleMembers(st, choice)]
Choose(st, v, t) ==
  IF IsChoiceValue(st, v) /\ t = yes THEN ChooseIn(st, ChoiceOf(st, v), v) ELSE st

(* Mutant: only a value that rises counts as a change. *)
BugChanged(st, old, t) == IF old < t THEN ClearAllValid(st) ELSE st

Changed(st, old, t) == IF old # t THEN ClearAllValid(st) ELSE st
SetTristate(st, s, t) ==
  IF Tri(st, s) # t /\ ~TristateWithinRange(st, s, t) THEN Fails(st)
  ELSE Succeeds(Changed([Choose([st EXCEPT !.user = @ \cup {s}], s, t) EXCEPT !.def[s].tri = t],
                        Tri(st, s), t))

(* sym_toggle_tristate_value: the next value, round from y to n, that can  *)
(* be set; the old one always can.                                         *)
Try(acc, s, t) == IF acc.ok THEN acc ELSE SetTristate(acc.st, s, t)
Toggle(st, s) ==
  FoldLeft(LAMBDA acc, i : Try(acc, s, (Tri(st, s) + i) % 3), Fails(st), <<1, 2, 3>>).st

StringValid(s, str) ==
  CASE TypeOf[s] = "string" -> TRUE
    [] TypeOf[s] = "int" -> str \in IntLiterals
    [] TypeOf[s] = "hex" -> str \in HexLiterals
    [] TypeOf[s] \in Logic -> str \in Trits
    [] OTHER -> FALSE

(* sym_string_within_range, which may calculate the ends of the range. *)
InsideRange(r, ends, val, hex) ==
  RangeVal(r.st, ends.sym, hex) <= val /\ val <= RangeVal(r.st, ends.rsym, hex)
WithinProp(r, s, val) ==
  [ok |-> r.prop = 0 \/ InsideRange(r, r.st.k.prop[r.prop].expr, val, TypeOf[s] = "hex"),
   st |-> r.st]
StringWithinRange(st, s, str) ==
  CASE TypeOf[s] \in Logic ->
         [ok |-> str \in Trits /\ TristateWithinRange(st, s, TriOf(str)), st |-> st]
    [] TypeOf[s] \in {"int", "hex"} /\ StringValid(s, str) ->
         WithinProp(RangeProp(st, s), s, ReadNumber(str, TypeOf[s] = "hex"))
    [] OTHER -> [ok |-> StringValid(s, str), st |-> st]

(* sym_set_string_value: a hex number without 0x is stored with it.  A     *)
(* value that is stored already changes nothing but the mark of the user.  *)
Stored(s, str) ==
  IF TypeOf[s] = "hex" /\ str \in DOMAIN Prefixed THEN Prefixed[str] ELSE str
Store(st, s, str) ==
  IF Stored(s, str) = str /\ st.def[s].val = str THEN st
  ELSE ClearAllValid([st EXCEPT !.def[s].val = Stored(s, str)])
StoreWithin(within, s, str) ==
  IF within.ok THEN Succeeds(Store([within.st EXCEPT !.user = @ \cup {s}], s, str))
  ELSE Fails(within.st)
SetString(st, s, str) ==
  IF TypeOf[s] \notin Logic THEN StoreWithin(StringWithinRange(st, s, str), s, str)
  ELSE IF str \in Trits THEN SetTristate(st, s, TriOf(str)) ELSE Fails(st)

(* sym_get_string_default: what s would be had the user not set it. *)
ReadsBoolean(st, s) ==
  \/ ~IsChoiceValue(st, s) /\ Tri(st, st.k.modules) = no
  \/ TypeOf[s] = "boolean"
NoModules(st, s, t) == IF t = mod /\ ReadsBoolean(st, s) THEN yes ELSE t
LogicDefault(c, s) ==
  [st |-> c.st,
   str |-> <<"n", "m", "y">>[Most(NoModules(c.st, s, Most(c.tri, c.st.revTri[s])),
                                  c.st.impTri[s]) + 1]]
ShowsValue(st, s) == [st |-> st, str |-> st.curr[s].val]
TextDefault(d, expr) ==
  IF expr.type = "SYMBOL" THEN ShowsValue(CalcValue(d.st, expr.sym), expr.sym)
  ELSE [st |-> d.st, str |-> ""]
DefaultText(d, s) ==
  IF TypeOf[s] \in Logic THEN LogicDefault(PropDefault(d), s)
  ELSE IF d.prop = 0 THEN [st |-> d.st, str |-> ""]
  ELSE TextDefault(d, d.st.k.prop[d.prop].expr)
StringDefault(st, s) ==
  DefaultText(DefaultProp(CalcValue(CalcVisibility(st, s), st.k.modules), s), s)

(***************************************************************************)
(* Finding symbols.  The hash table is a set of symbols: a name stands for *)
(* at most one symbol of each kind, and one that is not found is made.     *)
(***************************************************************************)
Lookup(table, name, kind) ==
  IF name \in Trits \/ [name |-> name, kind |-> kind] \in table
  THEN table ELSE table \cup {[name |-> name, kind |-> kind]}

(* sym_re_search: exact matches first, then in the order of the names.     *)
(* A pattern is the set of the names it matches and those it matches whole.*)
SearchOrder(pattern, a, b) ==
  LET exact(x) == x \in pattern.whole
  IN IF exact(a) # exact(b) THEN exact(a) ELSE Rank[a] < Rank[b]
Search(st, pattern) ==
  LET hit == SelectSeq(st.k.syms, LAMBDA s : s \notin ConstSymbols /\ s \in pattern.matches)
  IN [st |-> CalcSymbols(st, hit),
      syms |-> SortSeq(hit, LAMBDA a, b : SearchOrder(pattern, a, b))]

(***************************************************************************)
(* sym_check_deps: looks for symbols that depend on themselves.  The walk  *)
(* w holds the symbols being checked, those checked once, the error found  *)
(* (NoSymbol when there is none) and whether one was reported.  A choice   *)
(* and its members are checked together.                                   *)
(***************************************************************************)
PropExprs(k, s, p) ==
  CASE k.prop[p].type \in {"CHOICE", "SELECT", "IMPLY"} -> <<>>
    [] k.prop[p].type = "DEFAULT" /\ s \notin k.choices -> <<k.prop[p].visible, k.prop[p].expr>>
    [] OTHER -> <<k.prop[p].visible>>

(* The symbols sym_check_sym_deps comes to from s, in its order. *)
DependsOn(k, s) ==
  FlattenSeq([i \in DOMAIN k.props[s] |-> FlattenSeq(
    [j \in DOMAIN PropExprs(k, s, k.props[s][i]) |-> SymbolsOf(PropExprs(k, s, k.props[s][i])[j])])])
AllDependsOn(k, s) ==
  SymbolsOf(k.dirDep[s]) \o SymbolsOf(k.revDep[s]) \o SymbolsOf(k.implied[s]) \o DependsOn(k, s)

CheckNext(k, w, s) == IF w.found = NoSymbol THEN CheckDeps(k, w, s) ELSE w
CheckSymDeps(k, w, s) ==
  FoldLeft(LAMBDA acc, d : CheckNext(k, acc, d), w, AllDependsOn(k, s))

(* Mutant: a loop through two members of a choice is taken for one of the  *)
(* choice alone, and the members stay checked.                             *)
BugCheckMembers(k, w, c) == w

CheckMembers(k, w, c) ==
  FoldLeft(LAMBDA acc, v : IF acc.found # NoSymbol THEN acc ELSE CheckSymDeps(k, acc, v),
           [w EXCEPT !.check = @ \ {c}], k.members[c])
ChoiceDone(w, c, members) ==
  [w EXCEPT !.check = @ \ members, !.found = IF @ \in members THEN c ELSE @]
CheckChoiceDeps(k, w, c) ==
  LET all == Range(k.members[c]) \cup {c}
  IN ChoiceDone(CheckMembers(k, CheckSymDeps(k, [w EXCEPT !.check = @ \cup all,
                                                          !.checked = @ \cup all], c), c),
                c, Range(k.members[c]))

ChoiceBehind(k, v) ==
  k.prop[SelectSeq(k.props[v], LAMBDA p : k.prop[p].type = "CHOICE")[1]].expr.sym
CheckOwn(k, w, s) ==
  [CheckSymDeps(k, [w EXCEPT !.check = @ \cup {s}, !.checked = @ \cup {s}], s)
     EXCEPT !.check = @ \ {s}]
CheckByKind(k, w, s) ==
  CASE s \in k.choiceVal -> CheckDeps(k, w, ChoiceBehind(k, s))
    [] s \in k.choices -> CheckChoiceDeps(k, w, s)
    [] OTHER -> CheckOwn(k, w, s)
Warned(k, w, s) ==
  IF w.found = s /\ ~k.recursiveIsError THEN [w EXCEPT !.found = NoSymbol] ELSE w

CheckDeps(k, w, s) ==
  IF s \in w.check THEN [w EXCEPT !.found = s, !.reported = TRUE]
  ELSE IF s \in w.checked THEN w
  ELSE Warned(k, CheckByKind(k, w, s), s)

(* The loop of conf_parse over all symbols: how many of them end in an     *)
(* error, and whether any loop was reported.                               *)
CountError(acc, w) ==
  [w |-> [w EXCEPT !.found = NoSymbol],
   errors |-> acc.errors + (IF w.found = NoSymbol THEN 0 ELSE 1)]
Unchecked == [check |-> {}, checked |-> {}, found |-> NoSymbol, reported |-> FALSE]
CheckAll(k) ==
  FoldLeft(LAMBDA acc, s : CountError(acc, CheckDeps(k, acc.w, s)),
           [w |-> Unchecked, errors |-> 0], k.syms)
=============================================================================
