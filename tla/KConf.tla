-------------------------------- MODULE KConf --------------------------------
(***************************************************************************)
(* scripts/config/conf.c: configuring by questions on a terminal, and the  *)
(* modes without any.  The C code walks the menus by recursion; todo is    *)
(* its call stack, what is still to be done first:                         *)
(*   check      check_conf of a menu                                       *)
(*   conf       conf of a menu                                             *)
(*   sym, string, choice, pick    a question: conf_sym, conf_string, the   *)
(*              first part of conf_choice and its loop over the members;   *)
(*              new tells whether the choice had no value on entry         *)
(*   chosen     conf_choice after conf_sym                                 *)
(*   children   conf of what lies below, which a choice asks only when it  *)
(*              is m                                                       *)
(* An answer is a value, "" for the enter key, "?" for help, or the number *)
(* of a member.                                                            *)
(***************************************************************************)
EXTENDS Kconfig

CONSTANT
  Typed      \* the strings a user types for an int, hex or string symbol

VARIABLES
  mode, todo,
  root,      \* rootEntry
  restarts,  \* conf_cnt
  passes     \* how often main has gone through the menus

confvars == <<mode, todo, root, restarts, passes>>

(* nosilentupdate is syncconfig with KCONFIG_NOSILENTUPDATE set. *)
Asking == {"oldaskconfig", "oldconfig", "syncconfig", "nosilentupdate"}
Listing == {"listnewconfig", "helpnewconfig"}
Rewriting == {"yes2modconfig", "mod2yesconfig", "mod2noconfig"}
SettingAll == {"allnoconfig", "allyesconfig", "allmodconfig", "alldefconfig", "defconfig"}

HasValue(x, s) == s \in x.user
Frame(do, m) == [do |-> do, menu |-> m, new |-> FALSE]
Frames(do, ms) == [i \in DOMAIN ms |-> Frame(do, ms[i])]
SymOf(x, m) == x.k.menu[m].sym
PromptType(x, m) ==
  IF x.k.menu[m].prompt = NoProp THEN "none" ELSE x.k.prop[x.k.menu[m].prompt].type

(***************************************************************************)
(* The modes that ask nothing                                              *)
(***************************************************************************)

(* conf_set_all_new_symbols.  drawn.tri and drawn.member are what          *)
(* randconfig draws for the logic symbols and for the choices.             *)
DefaultOf == [allnoconfig |-> no, allyesconfig |-> yes, allmodconfig |-> mod]

NewLogic(x) ==
  SelectSeq(x.k.syms, LAMBDA s : ~HasValue(x, s) /\ s \notin x.valid /\ TypeNow(x, s) \in Logic)

NewTri(m, drawn, s) == IF m = "randconfig" THEN drawn.tri[s] ELSE DefaultOf[m]
GiveNew(x, m, drawn, s) ==
  [x EXCEPT !.def[s].tri = NewTri(m, drawn, s),
            !.user = IF m = "randconfig" /\ s \in x.k.choices THEN @ ELSE @ \cup {s}]
GiveAll(x, m, drawn) ==
  IF m \in {"alldefconfig", "defconfig"} THEN x
  ELSE FoldLeft(LAMBDA acc, s : GiveNew(acc, m, drawn, s), x, NewLogic(x))

MarkChoices(x) ==
  [x EXCEPT !.need = @ \cup (x.k.choices \ x.user) \cup x.k.choiceVal]

(* randomize_choice_values *)
DrawMember(x, c, v) ==
  [x EXCEPT !.def = [s \in Symbols |->
                       IF s \in Range(Members(x, c))
                       THEN [@[s] EXCEPT !.tri = IF s = v THEN yes ELSE no]
                       ELSE IF s = c THEN [@[s] EXCEPT !.val = v] ELSE @[s]],
            !.user = @ \cup Range(Members(x, c)) \cup {c},
            !.valid = @ \ (Range(Members(x, c)) \cup {c})]

(* The loop over the choices. *)
SetMembers(x, c, m, drawn, changed) ==
  IF m # "randconfig" THEN [st |-> SetAllChoiceValues(x, c), changed |-> TRUE]
  ELSE IF Tri(x, c) # yes THEN [st |-> x, changed |-> changed]
  ELSE [st |-> DrawMember(x, c, drawn.member[c]), changed |-> TRUE]
SetChoice(acc, c, m, drawn) ==
  IF HasValue(acc.st, c) \/ c \notin acc.st.k.choices THEN acc
  ELSE SetMembers(CalcValue(acc.st, c), c, m, drawn, acc.changed)
SetChoices(x, m, drawn, changed) ==
  FoldLeft(LAMBDA acc, c : SetChoice(acc, c, m, drawn), [st |-> x, changed |-> changed], x.k.syms)

IfNotRandom(x, m) == IF m = "randconfig" THEN x ELSE MarkChoices(x)
SetNew(x, m, drawn) ==
  SetChoices(IfNotRandom(GiveAll(x, m, drawn), m), m, drawn, NewLogic(x) # <<>>)
SetAllNew(x, m, drawn) == SetNew(ClearAllValid(x), m, drawn)

(* conf_rewrite_tristates *)
FromTo == [yes2modconfig |-> <<yes, mod>>, mod2yesconfig |-> <<mod, yes>>,
           mod2noconfig |-> <<mod, no>>]
RewriteTristates(x, m) ==
  ClearAllValid(
    [x EXCEPT !.def = [s \in Symbols |->
       IF /\ s \in Range(x.k.syms) /\ TypeNow(x, s) = "tristate"
          /\ @[s].tri = FromTo[m][1]
       THEN [@[s] EXCEPT !.tri = FromTo[m][2]] ELSE @[s]]])

(***************************************************************************)
(* The walk over the menus                                                 *)
(***************************************************************************)

(* print_help: the prompts of the symbol and where they are found. *)
Help(x, s) == Jumps(x, <<s>>).st

(* What is new: a symbol that can be set, or a choice that is y, without a *)
(* value.  seen is the state in which the menu was found visible.          *)

(* Mutant: numbers and strings are never new. *)
BugIsNewNow(x, s) == TypeNow(x, s) \in Logic /\ IsChangeable(x, s)

IsNewNow(x, s) == IsChangeable(x, s) \/ (IsChoice(x, s) /\ Tri(x, s) = yes)
IsNew(seen, s) == s # NoSymbol /\ ~HasValue(seen, s) /\ IsNewNow(CalcValue(seen, s), s)

AskAgain(asks, parent, kids, rest) ==
  /\ todo' = (IF asks THEN <<Frame("conf", parent)>> ELSE <<>>) \o kids \o rest
  /\ root' = IF asks THEN parent ELSE root
  /\ restarts' = IF asks THEN restarts + 1 ELSE restarts
CheckSeen(v, f, rest) ==
  IF ~v.is THEN st' = v.st /\ AskAgain(FALSE, NoMenu, <<>>, rest)
  ELSE /\ st' = IF mode = "helpnewconfig" /\ IsNew(v.st, SymOf(st, f.menu))
                THEN Help(v.st, SymOf(st, f.menu)) ELSE v.st
       /\ AskAgain(mode \notin Listing /\ IsNew(v.st, SymOf(st, f.menu)),
                   ParentMenu(st, f.menu), Frames("check", Children(st.k, f.menu)), rest)
CheckConf(f, rest) == CheckSeen(MenuIsVisible(st, f.menu), f, rest)

Asks(x, f, s) ==
  LET page == PromptType(x, f.menu) = "MENU" /\ mode # "oldaskconfig" /\ root # f.menu
      own == IF s = NoSymbol THEN <<>>
             ELSE IF IsChoice(x, s) THEN <<[Frame("choice", f.menu) EXCEPT !.new = ~HasValue(x, s)]>>
             ELSE <<Frame(IF TypeOf[s] \in Logic THEN "sym" ELSE "string", f.menu)>>
  IN IF page THEN <<Frame("check", f.menu)>> ELSE Append(own, Frame("children", f.menu))
ConfSeen(v, f, rest) ==
  /\ st' = v.st
  /\ todo' = (IF v.is THEN Asks(v.st, f, SymOf(st, f.menu)) ELSE <<>>) \o rest
ConfMenu(f, rest) ==
  ConfSeen(MenuIsVisible(st, f.menu), f, rest) /\ UNCHANGED <<root, restarts>>

Skipped(s) == s # NoSymbol /\ IsChoice(st, s) /\ Tri(st, s) # mod
ConfChildren(f, rest) ==
  /\ todo' = (IF Skipped(SymOf(st, f.menu)) THEN <<>>
              ELSE Frames("conf", Children(st.k, f.menu))) \o rest
  /\ UNCHANGED <<st, root, restarts>>

(* conf_choice up to the loop over the members. *)
PickIfYes(x, f, rest) ==
  IF Tri(x, SymOf(x, f.menu)) = yes THEN <<[f EXCEPT !.do = "pick"]>> \o rest ELSE rest
AskChoice(x, f, rest) ==
  /\ st' = x
  /\ todo' = IF IsChangeable(x, SymOf(x, f.menu))
             THEN <<Frame("sym", f.menu), [f EXCEPT !.do = "chosen"]>> \o rest
             ELSE PickIfYes(x, f, rest)
ConfChoice(f, rest) ==
  AskChoice(CalcValue(st, SymOf(st, f.menu)), f, rest) /\ UNCHANGED <<root, restarts>>

AfterChosen(x, f, rest) == st' = x /\ todo' = PickIfYes(x, f, rest)
Chosen(f, rest) ==
  AfterChosen(CalcValue(st, SymOf(st, f.menu)), f, rest) /\ UNCHANGED <<root, restarts>>

(***************************************************************************)
(* Questions                                                               *)
(***************************************************************************)

(* conf_askvalue returns 0: the symbol cannot be changed, or was answered. *)
Keeps == Asking \ {"oldaskconfig"}
NotAsked(x, s) == ~IsChangeable(x, s) \/ (mode \in Keeps /\ HasValue(x, s))

AfterAnswer(set, s, rest) ==
  IF set.ok THEN st' = set.st /\ todo' = rest ELSE st' = Help(set.st, s) /\ UNCHANGED todo
TryAnswer(x, s, answer) ==
  IF answer = "?" THEN Fails(x)
  ELSE SetTristate(x, s, IF answer = "" THEN Tri(x, s) ELSE TriOf(answer))
AskSym(x, s, rest, answer) ==
  IF NotAsked(x, s) THEN answer = "" /\ st' = x /\ todo' = rest
  ELSE AfterAnswer(TryAnswer(x, s, answer), s, rest)
AnswerSym(f, rest, answer) ==
  AskSym(CalcValue(st, SymOf(st, f.menu)), SymOf(st, f.menu), rest, answer)

AfterText(set, rest) == st' = set.st /\ todo' = IF set.ok THEN rest ELSE todo
AskString(x, s, rest, answer) ==
  IF NotAsked(x, s) THEN answer = "" /\ st' = x /\ todo' = rest
  ELSE IF answer = "?" THEN st' = Help(x, s) /\ UNCHANGED todo
  ELSE AfterText(SetString(x, s, IF answer = "" THEN x.curr[s].val ELSE answer), rest)
AnswerString(f, rest, answer) ==
  AskString(CalcValue(st, SymOf(st, f.menu)), SymOf(st, f.menu), rest, answer)

(* The visible members of a choice, with the state the look leaves. *)

(* Mutant: what has a value already is left out. *)
BugOfferIf(v, child, list) ==
  [st |-> v.st, list |-> IF v.is /\ SymOf(v.st, child) # NoSymbol /\ ~HasValue(v.st, SymOf(v.st, child))
                         THEN Append(list, child) ELSE list]

OfferIf(v, child, list) ==
  [st |-> v.st, list |-> IF v.is /\ SymOf(v.st, child) # NoSymbol THEN Append(list, child) ELSE list]
Offered(x, m) ==
  FoldLeft(LAMBDA acc, child : OfferIf(MenuIsVisible(acc.st, child), child, acc.list),
           [st |-> x, list |-> <<>>], Children(x.k, m))

(* n is the number answered, 0 for the enter key or what no number is;     *)
(* with a ? behind it help is shown.                                       *)
Automatic(f, offer) == Len(offer.list) = 1 \/ (mode \in Keeps /\ ~f.new)
Standing(offer, val) == {i \in DOMAIN offer.list : SymOf(offer.st, offer.list[i]) = val}
AtOr0(at) == IF at = {} THEN 0 ELSE CHOOSE i \in at : TRUE
Numbered(f, offer, n) ==
  IF Len(offer.list) = 1 THEN 1
  ELSE IF n # 0 THEN n
  ELSE AtOr0(Standing(offer, offer.st.curr[SymOf(st, f.menu)].val))

TakeMember(x, child, rest) ==
  /\ st' = SetTristate(CalcValue(x, SymOf(x, child)), SymOf(x, child), yes).st
  /\ todo' = Frames("conf", Children(x.k, child)) \o rest
HelpOn(f, offer, n) == IF n = 0 THEN SymOf(st, f.menu) ELSE SymOf(st, offer.list[n])
PickOffered(f, rest, offer, n, help) ==
  /\ Automatic(f, offer) => n = 0 /\ ~help
  /\ n <= Len(offer.list)
  /\ IF help THEN st' = Help(offer.st, HelpOn(f, offer, n)) /\ UNCHANGED todo
     ELSE IF Numbered(f, offer, n) = 0 THEN st' = offer.st /\ UNCHANGED todo
     ELSE TakeMember(offer.st, offer.list[Numbered(f, offer, n)], rest)
AnswerPick(f, rest, n, help) ==
  PickOffered(f, rest, Offered(CalcValue(st, SymOf(st, f.menu)), f.menu), n, help)

(***************************************************************************)
(* main                                                                    *)
(***************************************************************************)
Input == IF mode = "defconfig" THEN "other" ELSE ".config"

Passes(m) == IF m = "oldaskconfig" THEN <<Frame("conf", Root)>>
             ELSE IF m \in Asking \cup Listing THEN <<Frame("check", Root)>> ELSE <<>>

(* conf_read and what the mode sets at once. *)
NothingDrawn == [tri |-> <<>>, member |-> <<>>]
Asked(read) ==
  LET missing == mode = "defconfig" /\ disk[Input] = Absent
      explicit == mode = "nosilentupdate" /\ read.changed
  IN /\ phase' = IF missing \/ explicit THEN "refused"
                 ELSE IF mode = "randconfig" THEN "draw" ELSE "ask"
     /\ st' = CASE mode \in SettingAll -> SetAllNew(read, mode, NothingDrawn).st
                [] mode \in Rewriting -> RewriteTristates(read, mode)
                [] OTHER -> read
ConfLoad ==
  /\ prog = "conf" /\ phase = "load"
  /\ Asked(ReadConfig(st, disk[Input], mode = "defconfig"))
  /\ todo' = Passes(mode) /\ root' = Root /\ restarts' = 0 /\ passes' = 1
  /\ UNCHANGED <<prog, reader, disk, job, inPlace, saved, cuts, mode>>

(* The loop of randconfig: once more, unless nothing was new. *)
DrawAgain(set) == st' = set.st /\ phase' = IF set.changed THEN "draw" ELSE "ask"
Draw ==
  /\ prog = "conf" /\ phase = "draw"
  /\ \E tri \in [Range(NewLogic(ClearAllValid(st))) -> Tristates],
        member \in [st.k.choices -> st.k.choiceVal] :
       /\ \A s \in DOMAIN tri : TypeOf[s] = "boolean" => tri[s] # mod
       /\ \A c \in DOMAIN member : ChoiceOf(st, member[c]) = c
       /\ DrawAgain(SetAllNew(st, mode, [tri |-> tri, member |-> member]))
  /\ UNCHANGED <<prog, reader, disk, job, inPlace, saved, cuts, confvars>>

Walking == prog = "conf" /\ phase = "ask" /\ todo # <<>>
Questions == {"sym", "string", "pick"}
Keep == UNCHANGED <<prog, phase, reader, disk, job, inPlace, saved, cuts, mode, passes>>

WalkOn ==
  /\ Walking /\ Head(todo).do \notin Questions
  /\ LET f == Head(todo)
         rest == Tail(todo)
     IN CASE f.do = "check" -> CheckConf(f, rest)
          [] f.do = "conf" -> ConfMenu(f, rest)
          [] f.do = "children" -> ConfChildren(f, rest)
          [] f.do = "choice" -> ConfChoice(f, rest)
          [] f.do = "chosen" -> Chosen(f, rest)
  /\ Keep
Answer ==
  /\ Walking
  /\ \/ /\ Head(todo).do = "sym"
        /\ \E a \in Trits \cup {"", "?"} : AnswerSym(Head(todo), Tail(todo), a)
     \/ /\ Head(todo).do = "string"
        /\ \E a \in Typed \cup {"", "?"} : AnswerString(Head(todo), Tail(todo), a)
     \/ /\ Head(todo).do = "pick"
        /\ \E n \in 0 .. 3, help \in BOOLEAN : AnswerPick(Head(todo), Tail(todo), n, help)
  /\ Keep /\ UNCHANGED <<root, restarts>>

(* A pass is over: once more if anything was asked in it.  oldaskconfig    *)
(* goes on as oldconfig.                                                   *)
NextPass ==
  /\ prog = "conf" /\ phase = "ask" /\ todo = <<>>
  /\ mode = "oldaskconfig" \/ restarts > 0
  /\ mode' = IF mode = "oldaskconfig" THEN "oldconfig" ELSE mode
  /\ todo' = Passes("oldconfig") /\ restarts' = 0 /\ passes' = passes + 1
  /\ UNCHANGED <<prog, phase, reader, st, disk, job, inPlace, saved, cuts, root>>

(* The end of main.  listnewconfig, helpnewconfig and an update that must  *)
(* not be silent write nothing, and savedefconfig only the file it was     *)
(* given, with nothing to protect it.                                      *)
Unwritten == Listing \cup {"savedefconfig", "nosilentupdate"}
ConfWrites ==
  /\ prog = "conf" /\ phase = "ask" /\ todo = <<>> /\ restarts = 0
  /\ mode \notin Unwritten \cup {"oldaskconfig"}
  /\ Save(st, ".config", "done", "failed")
  /\ UNCHANGED <<prog, reader, disk, inPlace, saved, cuts, confvars>>
SaveOther(w) == st' = w.st /\ disk' = [disk EXCEPT !["other"] = w.lines]
ConfEnds ==
  /\ prog = "conf" /\ phase = "ask" /\ todo = <<>> /\ restarts = 0
  /\ mode \in Unwritten
  /\ IF mode = "savedefconfig" THEN SaveOther(WriteDefconfig(st)) ELSE UNCHANGED <<st, disk>>
  /\ phase' = "done"
  /\ UNCHANGED <<prog, reader, job, inPlace, saved, cuts, confvars>>

ConfInit(setup) ==
  /\ mode = setup.mode /\ todo = <<>> /\ root = Root /\ restarts = 0 /\ passes = 0
ConfNext == ConfLoad \/ Draw \/ WalkOn \/ Answer \/ NextPass \/ ConfWrites \/ ConfEnds
=============================================================================
