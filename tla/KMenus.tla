-------------------------------- MODULE KMenus --------------------------------
(***************************************************************************)
(* scripts/config/menu.c: the tree of menus of a Kconfig, how the parser   *)
(* builds it, what menu_finalize makes of it and which menus are visible.  *)
(*                                                                         *)
(* The Kconfig is a record k:                                              *)
(*   syms                   the symbol table, in the order of              *)
(*                          for_all_symbols                                *)
(*   menu[m]                parent, list and next (0 is null), sym, prompt *)
(*                          (a property or 0), visibility, dep, file       *)
(*   prop[p]                type, text (it has one), expr, visible, menu   *)
(*   props[s]               the properties of a symbol in their order      *)
(*   type, dirDep, revDep, implied                                         *)
(*   members[c]             the value list of a choice                     *)
(*   choices, choiceVal, optional, noWrite     symbols with these flags    *)
(*   modules                modules_sym                                    *)
(*   current, entry, last   current_menu, current_entry, last_entry_ptr    *)
(* Menu 1 is rootmenu.                                                     *)
(***************************************************************************)
EXTENDS KSymbols

RECURSIVE RewriteM(_, _), Finalize(_, _), FinalizeList(_, _), Submenu(_, _, _, _),
          Flatten(_, _, _), MenuIsVisible(_, _), Chain(_, _), Above(_, _)

Root == 1
NoMenu == 0
NoProp == 0

(* m and the menus linked behind it. *)
Chain(k, m) == IF m = NoMenu THEN <<>> ELSE <<m>> \o Chain(k, k.menu[m].next)
Children(k, m) == Chain(k, k.menu[m].list)

(* m and the menus it lies in, up to the root. *)
Above(k, m) == IF m = NoMenu THEN <<>> ELSE <<m>> \o Above(k, k.menu[m].parent)

(***************************************************************************)
(* Building                                                                *)
(***************************************************************************)
NewMenu(parent, sym, file) ==
  [parent |-> parent, list |-> NoMenu, next |-> NoMenu, sym |-> sym,
   prompt |-> NoProp, visibility |-> Null, dep |-> Null, file |-> file]

(* menu_add_prop: appended to the properties of the entry's symbol. *)
OwnProps(k, s, p) == IF s = NoSymbol THEN k.props ELSE [k.props EXCEPT ![s] = Append(@, p)]
AddProp(k, type, expr, cond) ==
  [k EXCEPT !.prop = Append(@, [type |-> type, text |-> FALSE, expr |-> expr,
                                visible |-> cond, menu |-> k.entry]),
            !.props = OwnProps(k, k.menu[k.entry].sym, Len(k.prop) + 1)]

(* menu_add_entry: linked where last_entry_ptr points. *)
Linked(k, m) == IF k.last.link = "list" THEN [k.menu EXCEPT ![k.last.menu].list = m]
                                        ELSE [k.menu EXCEPT ![k.last.menu].next = m]
AppendEntry(k, m, new) ==
  [k EXCEPT !.menu = Append(Linked(k, m), new), !.last = [menu |-> m, link |-> "next"],
            !.entry = m]
SymbolProp(k, s) == IF s = NoSymbol THEN k ELSE AddProp(k, "SYMBOL", Symbol(s), Null)
AddEntry(k, s, file) ==
  SymbolProp(AppendEntry(k, Len(k.menu) + 1, NewMenu(k.current, s, file)), s)

AddMenu(k) ==
  [k EXCEPT !.last = [menu |-> k.entry, link |-> "list"], !.current = k.entry]

EndMenu(k) ==
  [k EXCEPT !.last = [menu |-> k.current, link |-> "next"],
            !.current = k.menu[k.current].parent]

AddDep(k, dep) == [k EXCEPT !.menu[k.entry].dep = AllocAnd(@, dep)]
AddVisibility(k, e) == [k EXCEPT !.menu[k.entry].visibility = AllocAnd(@, e)]

(* menu_set_type: the first type given to a symbol stays. *)
SetType(k, type) ==
  LET s == k.menu[k.entry].sym
  IN IF k.type[s] = "unknown" THEN [k EXCEPT !.type[s] = type] ELSE k

(* menu_add_prompt: the visibilities of all upper menus are its conditions. *)
PromptCond(k, type, cond) ==
  IF type # "PROMPT" THEN cond
  ELSE FoldLeft(LAMBDA e, m : AllocAnd(e, k.menu[m].visibility), cond, Tail(Above(k, k.entry)))
AsPrompt(k, p) == [k EXCEPT !.prop[p].text = TRUE, !.menu[k.entry].prompt = p]
AddPrompt(k, type, cond) ==
  AsPrompt(AddProp(k, type, Null, PromptCond(k, type, cond)), Len(k.prop) + 1)

(***************************************************************************)
(* menu_finalize                                                           *)
(***************************************************************************)

(* m in a condition is m && MODULES. *)
RewriteM(k, e) ==
  CASE e.type = "NOT" -> Not(RewriteM(k, e.left))
    [] e.type \in {"AND", "OR"} -> Two(e.type, RewriteM(k, e.left), RewriteM(k, e.right))
    [] e = Symbol(SymbolMod) -> AllocAnd(e, Symbol(k.modules))
    [] OTHER -> e

(* A condition together with that of what it lies in. *)
Under(k, outer, e) == EliminateDups(AllocAnd(outer, Transform(RewriteM(k, e))))

PropsOf(k, m) ==
  IF k.menu[m].sym # NoSymbol
    THEN SelectSeq(k.props[k.menu[m].sym], LAMBDA p : k.prop[p].menu = m)
  ELSE IF k.menu[m].prompt = NoProp THEN <<>> ELSE <<k.menu[m].prompt>>

(* The dependencies of a menu are passed on to its properties; those of a  *)
(* select or an imply become a reverse dependency of the other symbol.     *)
CondOf(k, s, joined) ==
  IF s # NoSymbol /\ k.type[s] # "tristate" THEN TransBool(joined) ELSE joined
ReverseDep(k, s, p, other) ==
  CASE k.prop[p].type = "SELECT" ->
         [k EXCEPT !.revDep[other] = AllocOr(@, AllocAnd(Symbol(s), k.prop[p].visible))]
    [] k.prop[p].type = "IMPLY" ->
         [k EXCEPT !.implied[other] = AllocOr(@, AllocAnd(Symbol(s), k.prop[p].visible))]
    [] OTHER -> k
PassTo(k, s, base, p) ==
  ReverseDep([k EXCEPT !.prop[p].visible = CondOf(k, s, Under(k, base, @))], s, p, k.prop[p].expr.sym)
PassDown(k, m) ==
  FoldLeft(LAMBDA acc, p : PassTo(acc, k.menu[m].sym, k.menu[m].dep, p), k, PropsOf(k, m))
Propagate(k, dep, m) == PassDown([k EXCEPT !.menu[m].dep = Under(k, dep, @)], m)

(* A choice takes its type from the first member that has one, and gives   *)
(* it to the members without.                                              *)
TypeFrom(k, c, kids) ==
  FoldLeft(LAMBDA type, m : IF type = "unknown" THEN k.type[k.menu[m].sym] ELSE type,
           k.type[c], kids)
GiveType(k, set, type) ==
  [k EXCEPT !.type = [s \in Symbols |-> IF s \in set /\ @[s] = "unknown" THEN type ELSE @[s]]]
SymbolKids(k, parent) == SelectSeq(Children(k, parent), LAMBDA m : k.menu[m].sym # NoSymbol)

(* Mutant: only the choice gets the type. *)
BugChoiceTypes(k, c, kids) == GiveType(k, {c}, TypeFrom(k, c, kids))

ChoiceTypes(k, c, kids) ==
  GiveType(k, {c} \cup {k.menu[kids[i]].sym : i \in DOMAIN kids}, TypeFrom(k, c, kids))

InChoice(k, m) == k.menu[m].sym \in k.choices

TypeKids(k, parent) ==
  IF InChoice(k, parent) THEN ChoiceTypes(k, k.menu[parent].sym, SymbolKids(k, parent)) ELSE k
OuterDep(k, parent) ==
  IF InChoice(k, parent) THEN Symbol(k.menu[parent].sym) ELSE k.menu[parent].dep
PropagateAll(k, parent) ==
  FoldLeft(LAMBDA acc, m : Propagate(acc, OuterDep(k, parent), m), k, Children(k, parent))
WithChildren(k, parent) ==
  FinalizeList(PropagateAll(TypeKids(k, parent), parent), k.menu[parent].list)

ThenNext(k, m) == FinalizeList(k, k.menu[m].next)
FinalizeList(k, m) == IF m = NoMenu THEN k ELSE ThenNext(Finalize(k, m), m)

(* e as the condition `e is not n', simplified. *)
NotNo(e) == EliminateDups(Transform(TransCompare(e, "UNEQUAL", SymbolNo)))

ShownIf(k, m) ==
  IF k.menu[m].prompt # NoProp THEN k.prop[k.menu[m].prompt].visible ELSE k.menu[m].dep

(* Whether menu m, somewhere behind the entry of s, goes below it: it      *)
(* depends on s, or it mentions s and holds only where s is shown.         *)
GoesBelow(dep, s, base) ==
  /\ ContainsSymbol(dep, s)
  /\ DependsSymbol(dep, s) \/ IsYes(EliminateEq(NotNo(dep), base)[2])

(* at holds the Kconfig, the menu looked at and the last that goes below.  *)
MoveBelow(k, m, parent) ==
  [k |-> [k EXCEPT !.menu[m].parent = parent], m |-> k.menu[m].next, last |-> m]
GoOn(at, parent, base) == Submenu(at.k, at, parent, base)
Submenu(k, at, parent, base) ==
  IF at.m = NoMenu THEN at
  ELSE IF ~GoesBelow(ShownIf(k, at.m), k.menu[parent].sym, base) THEN at
  ELSE GoOn(MoveBelow(Finalize(k, at.m), at.m, parent), parent, base)

BaseOf(k, parent) == NotNo(IF k.menu[parent].prompt # NoProp THEN ShownIf(k, parent) ELSE Null)

(* Mutant: what comes behind the last one below is lost. *)
BugHangBelow(k, parent, last) ==
  IF last = NoMenu THEN k
  ELSE [k EXCEPT !.menu[parent].list = k.menu[parent].next,
                 !.menu[parent].next = NoMenu, !.menu[last].next = NoMenu]

HangBelow(k, parent, last) ==
  IF last = NoMenu THEN k
  ELSE [k EXCEPT !.menu[parent].list = k.menu[parent].next,
                 !.menu[parent].next = k.menu[last].next, !.menu[last].next = NoMenu]
Hang(at, parent) == HangBelow(at.k, parent, at.last)
DirectDep(k, parent) ==
  [k EXCEPT !.dirDep[k.menu[parent].sym] = AllocOr(@, k.menu[parent].dep)]
WithoutChildren(k, parent) ==
  DirectDep(Hang(Submenu(k, [k |-> k, m |-> k.menu[parent].next, last |-> NoMenu],
                         parent, BaseOf(k, parent)), parent), parent)

(* An entry of a choice becomes one of its values.  One that is no         *)
(* tristate, in a choice that is, can be set only while the choice is y.   *)
OnlyIf(k, m, is) ==
  [k EXCEPT !.menu[m].dep = AllocAnd(is, @),
            !.prop = [p \in DOMAIN @ |-> IF p \in Range(PropsOf(k, m))
                                         THEN [@[p] EXCEPT !.visible = AllocAnd(is, @)]
                                         ELSE @[p]]]
IfMixed(k, c, m) ==
  IF k.type[c] = "tristate" /\ k.type[k.menu[m].sym] # "tristate"
  THEN OnlyIf(k, m, Compare("EQUAL", c, SymbolYes)) ELSE k
AddValue(k, c, s) ==
  [AddProp(k, "CHOICE", Symbol(c), Null)
     EXCEPT !.choiceVal = @ \cup {s}, !.members[c] = Append(@, s)]
MakeMember(k, c, m) == AddValue([IfMixed(k, c, m) EXCEPT !.entry = m], c, k.menu[m].sym)

(* The children of a menu without a prompt take its place behind it. *)
Lift(k, parent, m, kids) ==
  [k EXCEPT !.menu =
     [[x \in DOMAIN @ |-> IF x \in Range(kids) THEN [@[x] EXCEPT !.parent = parent] ELSE @[x]]
        EXCEPT ![kids[Len(kids)]].next = k.menu[m].next, ![m].next = k.menu[m].list,
               ![m].list = NoMenu]]
Flat(k, parent, m) ==
  IF k.menu[m].list # NoMenu /\ k.menu[m].prompt = NoProp
  THEN Lift(k, parent, m, Children(k, m)) ELSE k
AsMember(k, parent, m) ==
  IF /\ InChoice(k, parent) /\ k.menu[m].sym # NoSymbol
     /\ k.menu[m].sym \notin k.choiceVal
  THEN MakeMember(k, k.menu[parent].sym, m) ELSE k

FlattenNext(k, parent, m) == Flatten(k, parent, k.menu[m].next)
Flatten(k, parent, m) ==
  IF m = NoMenu THEN k ELSE FlattenNext(Flat(AsMember(k, parent, m), parent, m), parent, m)
FlattenFirst(k, parent) == Flatten(k, parent, k.menu[parent].list)

(* A choice that is not optional cannot be n while it is shown. *)
Require(k, m) ==
  LET s == k.menu[m].sym
  IN IF s = NoSymbol \/ s \in k.optional \/ k.menu[m].prompt = NoProp THEN k
     ELSE [k EXCEPT !.revDep[s] = AllocOr(@, AllocAnd(ShownIf(k, m), Symbol(SymbolMod)))]

FinalizeKind(k, parent) ==
  IF k.menu[parent].list # NoMenu THEN WithChildren(k, parent)
  ELSE IF k.menu[parent].sym # NoSymbol THEN WithoutChildren(k, parent)
  ELSE k
Finalize(k, parent) == Require(FlattenFirst(FinalizeKind(k, parent), parent), parent)

(***************************************************************************)
(* Which menus are shown.  A menu whose own prompt is hidden still shows   *)
(* when its symbol has a value and something below it shows; its symbol    *)
(* then counts as set by the user.                                         *)
(***************************************************************************)
Says(st, is) == [st |-> st, is |-> is]
AnyVisible(st, ms) ==
  FoldLeft(LAMBDA acc, m : IF acc.is THEN acc ELSE MenuIsVisible(acc.st, m), Says(st, FALSE), ms)
IfBelow(below, s) == IF below.is THEN Says([below.st EXCEPT !.user = @ \cup {s}], TRUE) ELSE below
PromptOrBelow(st, m, menu) ==
  IF st.propTri[menu.prompt] # no THEN Says(st, TRUE)
  ELSE IF menu.sym = NoSymbol THEN Says(st, FALSE)
  ELSE IF Tri(st, menu.sym) = no THEN Says(st, FALSE)
  ELSE IfBelow(AnyVisible(st, Children(st.k, m)), menu.sym)
PromptSeen(c, p) == [c.st EXCEPT !.propTri[p] = c.tri]
SeePrompt(st, menu) ==
  IF menu.sym # NoSymbol THEN CalcValue(st, menu.sym)
  ELSE PromptSeen(CalcExpr(st, st.k.prop[menu.prompt].visible), menu.prompt)
Within(outer, m, menu) ==
  IF outer.tri = no THEN Says(outer.st, FALSE) ELSE PromptOrBelow(SeePrompt(outer.st, menu), m, menu)
MenuIsVisible(st, m) ==
  IF st.k.menu[m].prompt = NoProp THEN Says(st, FALSE)
  ELSE Within(CalcExpr(st, st.k.menu[m].visibility), m, st.k.menu[m])

(* menu_is_empty *)
Empty(any) == Says(any.st, ~any.is)
MenuIsEmpty(st, m) == Empty(AnyVisible(st, Children(st.k, m)))

(* menu_get_parent_menu: the menu a front end opens to show m. *)
ParentMenu(st, m) ==
  LET k == st.k
      IsMenu(x) == x = Root \/ (k.menu[x].prompt # NoProp /\ k.prop[k.menu[x].prompt].type = "MENU")
  IN SelectSeq(Above(k, m), IsMenu)[1]

(***************************************************************************)
(* get_prompt_str: where a prompt is found.  Of the menus it lies in, the  *)
(* innermost eight are listed, and the innermost that is visible is where  *)
(* a search jumps to.                                                      *)
(***************************************************************************)
Listed == 8  \* the length of submenu[]
Path(k, m) == SelectSeq(Above(k, m), LAMBDA x : x # Root)
Nearest(path) == SubSeq(path, 1, Least(Listed, Len(path)))

(* Mutant: the innermost is taken, shown or not. *)
BugFound(v, m) == [st |-> v.st, menu |-> m]

Found(v, m) == [st |-> v.st, menu |-> IF v.is THEN m ELSE NoMenu]
Location(st, p) ==
  FoldLeft(LAMBDA acc, m : IF acc.menu # NoMenu THEN acc ELSE Found(MenuIsVisible(acc.st, m), m),
           [st |-> st, menu |-> NoMenu], Nearest(Path(st.k, st.k.prop[p].menu)))

(* get_relations_str: a jump for every definition with a prompt of every   *)
(* symbol found.                                                           *)
Definitions(k, s) ==
  SelectSeq(k.props[s], LAMBDA p : k.prop[p].type = "SYMBOL"
                                     /\ k.menu[k.prop[p].menu].prompt # NoProp)
AddJump(at, to) == [st |-> at.st, to |-> IF at.menu = NoMenu THEN to ELSE Append(to, at.menu)]
Jumps(st, syms) ==
  FoldLeft(LAMBDA acc, p : AddJump(Location(acc.st, st.k.menu[st.k.prop[p].menu].prompt), acc.to),
           [st |-> st, to |-> <<>>],
           FlattenSeq([i \in DOMAIN syms |-> Definitions(st.k, syms[i])]))
===============================================================================
