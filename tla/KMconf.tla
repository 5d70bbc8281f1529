-------------------------------- MODULE KMconf --------------------------------
(***************************************************************************)
(* scripts/config/mconf.c: menuconfig.  The functions that show a window   *)
(* and loop call each other; windows is the stack of them, the innermost   *)
(* first.  A window is drawn by one step of the program (which calculates  *)
(* what it shows) and then answered by one key of the user:                *)
(*   menu      conf, with the menu shown and the item the bar stands on    *)
(*   choice    conf_choice         string    conf_string                   *)
(*   load      conf_load           save      conf_save                     *)
(*   results   search_conf: the list of what was found, with its jumps     *)
(*   exit      handle_exit; signal tells that SIGINT led there             *)
(* An item is [menu, tag]; the tag says what the keys do to it.  jumped of *)
(* a menu is how many keys were left behind the jump that opened it.       *)
(***************************************************************************)
EXTENDS Kconfig

CONSTANTS
  Entries,    \* what a user types into an input box
  Patterns    \* what a user searches for: [matches, whole]

VARIABLES
  windows,
  items,      \* what the innermost window shows; NotDrawn before it is drawn
  childCount, \* child_count, which nothing ever resets
  showAll,    \* show_all_options
  single,     \* MENUCONFIG_MODE is single_menu
  opened,     \* the menus with data set: unfolded in single_menu mode
  filename,
  lapsed,     \* history: a load that failed has cleared the mark of a change that is
              \* not in the file
  keys        \* how many keys the user still presses

RECURSIVE Build(_, _)

mconfvars == <<windows, items, childCount, showAll, single, opened, filename, lapsed,
               keys>>

NotDrawn == <<[menu |-> NoMenu, tag |-> "not drawn"]>>
Window(kind, m) == [kind |-> kind, menu |-> m, active |-> NoMenu, signal |-> FALSE,
                    pattern |-> [matches |-> {}, whole |-> {}], target |-> ".config",
                    jumped |-> -1]
Item(m, tag) == [menu |-> m, tag |-> tag]
PromptKind(x, m) ==
  IF x.k.menu[m].prompt = NoProp THEN "none" ELSE x.k.prop[x.k.menu[m].prompt].type
SymbolAt(x, m) == x.k.menu[m].sym

(***************************************************************************)
(* build_conf: b holds the state, the items so far, the count and the menu *)
(* being shown (current_menu).                                             *)
(***************************************************************************)
Show(b, m, tag) == [b EXCEPT !.items = Append(@, Item(m, tag)), !.count = @ + 1]
BuildKids(b, m) == FoldLeft(Build, b, Children(b.st.k, m))

(* The visible member that holds the value of a choice. *)
IfChosen(v, child, m, before) ==
  [st |-> v.st, menu |-> IF v.is /\ SymbolAt(v.st, child) = v.st.curr[SymbolAt(v.st, m)].val
                         THEN child ELSE before]
ChosenMenu(x, m) ==
  FoldLeft(LAMBDA acc, child : IfChosen(MenuIsVisible(acc.st, child), child, m, acc.menu),
           [st |-> x, menu |-> NoMenu], Children(x.k, m))

WithEmptyTest(b, m) == [b EXCEPT !.st = MenuIsEmpty(@, m).st]
BuildFolded(b, m) == IF single /\ m \in opened THEN BuildKids(b, m) ELSE b
BuildMenu(b, m) == BuildFolded(Show(IF single THEN b ELSE WithEmptyTest(b, m), m, "m"), m)
BuildPlain(b, m) ==
  IF m = b.top THEN BuildKids(b, m)
  ELSE IF PromptKind(b.st, m) = "MENU" THEN BuildMenu(b, m)
  ELSE BuildKids(Show(b, m, ":"), m)

ChoiceTag(c, m) ==
  IF IsChangeable(c.st, SymbolAt(c.st, m)) \/ c.menu # NoMenu THEN "t" ELSE ":"
BelowChoice(b, m, chosen) ==
  IF Tri(b.st, SymbolAt(b.st, m)) # yes THEN BuildKids(b, m)
  ELSE IF chosen # NoMenu /\ b.st.k.menu[chosen].list # NoMenu THEN Build(b, chosen)
  ELSE b
ShowChoice(b, m, c) == BelowChoice(Show([b EXCEPT !.st = c.st], m, ChoiceTag(c, m)), m, c.menu)
BuildChoice(b, m) == ShowChoice(b, m, ChosenMenu(b.st, m))

SymbolTag(x, s) ==
  IF IsChoiceValue(x, s) /\ Tri(x, s) = yes THEN ":"
  ELSE IF TypeNow(x, s) \in Logic THEN "t" ELSE "s"
BelowSymbol(b, m, tag) ==
  IF tag # "s" /\ PromptKind(b.st, m) = "MENU" THEN WithEmptyTest(b, m) ELSE BuildKids(b, m)
ShowSymbol(b, m, tag) == BelowSymbol(Show(b, m, tag), m, tag)
BuildSymbol(b, m) ==
  IF m = b.top THEN BuildKids([b EXCEPT !.items = Append(@, Item(m, ":"))], m)
  ELSE ShowSymbol(b, m, SymbolTag(b.st, SymbolAt(b.st, m)))

BuildSeen(b, m) ==
  IF SymbolAt(b.st, m) = NoSymbol THEN BuildPlain(b, m)
  ELSE IF IsChoice(b.st, SymbolAt(b.st, m)) THEN BuildChoice(b, m)
  ELSE BuildSymbol(b, m)
Skips(x, m, visible) == IF showAll THEN x.k.menu[m].prompt = NoProp ELSE ~visible
IfSeen(b, m, visible) == IF Skips(b.st, m, visible) THEN b ELSE BuildSeen(b, m)
BuildAfter(b, m, v) == IfSeen([b EXCEPT !.st = v.st], m, v.is)
Build(b, m) == BuildAfter(b, m, MenuIsVisible(b.st, m))

(***************************************************************************)
(* Drawing a window                                                        *)
(***************************************************************************)
Top == Head(windows)
Rest == Tail(windows)
Showing(p) == prog = p /\ phase = "ask" /\ windows # <<>>
Live == Showing("mconf")
Drawn == Live /\ items # NotDrawn
Redraw == items' = NotDrawn

Begin ==
  /\ phase = "load" /\ phase' = "ask"
  /\ st' = ReadConfig(st, disk[".config"], FALSE)
  /\ windows' = <<Window("menu", Root)>> /\ Redraw
  /\ childCount' = 0 /\ showAll' = FALSE /\ opened' = {} /\ filename' = ".config"
  /\ lapsed' = FALSE
  /\ UNCHANGED <<prog, reader, disk, job, inPlace, saved, cuts, single, keys>>
MLoad == prog = "mconf" /\ Begin

Behind == IF Rest = <<>> THEN <<Window("exit", Root)>> ELSE Rest
DrawItems(b) ==
  /\ st' = b.st /\ childCount' = b.count
  /\ IF b.count = 0 THEN windows' = Behind /\ Redraw
     ELSE items' = b.items /\ UNCHANGED windows
Fresh(m) == [st |-> st, items |-> <<>>, count |-> childCount, top |-> m]
DrawMenu ==
  /\ Live /\ items = NotDrawn /\ Top.kind = "menu"
  /\ DrawItems(Build(Fresh(Top.menu), Top.menu))
  /\ UNCHANGED <<prog, phase, reader, disk, job, inPlace, saved, cuts,
                 showAll, single, opened, filename, lapsed, keys>>

(* The other windows show the members of a choice, or where to jump.       *)
DrawList(r, tag) == st' = r.st /\ items' = [i \in DOMAIN r.to |-> Item(r.to[i], tag)]
IfShown(v, child, before) == [st |-> v.st, to |-> IF v.is THEN Append(before, child) ELSE before]
ShownMembers(x, m) ==
  FoldLeft(LAMBDA acc, child : IfShown(MenuIsVisible(acc.st, child), child, acc.to),
           [st |-> x, to |-> <<>>], Children(x.k, m))
JumpsTo(found) == Jumps(found.st, found.syms)
DrawOther ==
  /\ Live /\ items = NotDrawn /\ Top.kind # "menu"
  /\ CASE Top.kind = "choice" -> DrawList(ShownMembers(st, Top.menu), "X")
       [] Top.kind = "results" -> DrawList(JumpsTo(Search(st, Top.pattern)), "j")
       [] OTHER -> items' = <<>> /\ UNCHANGED st
  /\ UNCHANGED <<prog, phase, reader, disk, job, inPlace, saved, cuts, windows,
                 childCount, showAll, single, opened, filename, lapsed, keys>>

(***************************************************************************)
(* Keys                                                                    *)
(***************************************************************************)
Press == keys > 0 /\ keys' = keys - 1 /\ Redraw
Quietly == UNCHANGED <<prog, reader, disk, job, inPlace, saved, cuts, childCount, single>>
Quiet == Quietly /\ UNCHANGED lapsed

OnItem(i) == [Top EXCEPT !.active = items[i].menu]
Go(i, w) == windows' = <<w, OnItem(i)>> \o Rest
Stay(i) == windows' = <<OnItem(i)>> \o Rest

(* The select key. *)
Select(i) ==
  LET m == items[i].menu
      s == SymbolAt(st, m)
  IN CASE items[i].tag = "m" /\ single ->
            /\ opened' = (IF m \in opened THEN opened \ {m} ELSE opened \cup {m}) /\ Stay(i)
       [] items[i].tag = "m" /\ ~single -> Go(i, Window("menu", m)) /\ UNCHANGED opened
       [] items[i].tag = "t" /\ IsChoice(st, s) /\ Tri(st, s) = yes ->
            Go(i, Window("choice", m)) /\ UNCHANGED opened
       [] items[i].tag = "t" /\ ~(IsChoice(st, s) /\ Tri(st, s) = yes)
            /\ PromptKind(st, m) = "MENU" -> Go(i, Window("menu", m)) /\ UNCHANGED opened
       [] items[i].tag = "s" -> Go(i, Window("string", m)) /\ UNCHANGED opened
       [] OTHER -> Stay(i) /\ UNCHANGED opened

SelectKey ==
  /\ Drawn /\ Top.kind = "menu" /\ Press
  /\ \E i \in DOMAIN items : Select(i)
  /\ Quiet /\ UNCHANGED <<phase, st, showAll, filename>>

(* y falls back to m where y cannot be set. *)
OrMod(set, s) == IF set.ok THEN set.st ELSE SetTristate(set.st, s, mod).st
SetYes(x, s) == OrMod(SetTristate(x, s, yes), s)

ValueKey ==
  /\ Drawn /\ Top.kind = "menu" /\ Press
  /\ \E i \in DOMAIN items :
       LET s == SymbolAt(st, items[i].menu)
       IN /\ items[i].tag = "t" /\ Stay(i)
          /\ \/ st' = SetYes(st, s) \/ st' = Toggle(st, s)
             \/ \E t \in {no, mod} : st' = SetTristate(st, s, t).st
  /\ Quiet /\ UNCHANGED <<phase, showAll, opened, filename>>

(* The space bar on a menu, help, and the hidden options.                  *)
OtherKey ==
  /\ Drawn /\ Top.kind = "menu" /\ Press
  /\ \/ /\ \E i \in DOMAIN items :
             /\ items[i].tag = "m" /\ Go(i, Window("menu", items[i].menu))
        /\ UNCHANGED <<st, showAll>>
     \/ /\ \E i \in DOMAIN items :
             /\ SymbolAt(st, items[i].menu) # NoSymbol
             /\ st' = Jumps(st, <<SymbolAt(st, items[i].menu)>>).st /\ Stay(i)
        /\ UNCHANGED showAll
     \/ showAll' = ~showAll /\ UNCHANGED <<st, windows>>
     \/ /\ \E p \in Patterns :
             windows' = <<[Window("results", Root) EXCEPT !.pattern = p]>> \o windows
        /\ UNCHANGED <<st, showAll>>
     \/ \E kind \in {"load", "save"} :
             windows' = <<Window(kind, Root)>> \o windows /\ UNCHANGED <<st, showAll>>
  /\ Quiet /\ UNCHANGED <<phase, opened, filename>>

(* ESC closes a window; behind the last menu is the question of the exit.  *)
Close ==
  /\ Drawn /\ Top.kind # "exit" /\ Press
  /\ windows' = Behind
  /\ Quiet /\ UNCHANGED <<phase, st, showAll, opened, filename>>

(* conf_choice: a member that was not y resets everything else when the    *)
(* choice says so.                                                         *)
ResetIf(c) == IF c.tri = no THEN [st |-> c.st, done |-> FALSE] ELSE [st |-> Reset(c.st), done |-> TRUE]
ResetOnce(acc, p) ==
  IF acc.done THEN acc ELSE ResetIf(CalcExpr(acc.st, acc.st.k.prop[p].visible))
ResetBefore(x, c, v) ==
  IF Tri(x, v) = yes THEN x
  ELSE FoldLeft(ResetOnce, [st |-> x, done |-> FALSE], Properties(x, c, "RESET")).st

Pick(x, v) ==
  /\ st' = SetTristate(ResetBefore(x, SymbolAt(x, Top.menu), v), v, yes).st
  /\ windows' = Rest
PickMember ==
  /\ Drawn /\ Top.kind = "choice" /\ Press
  /\ \E i \in DOMAIN items :
       LET v == SymbolAt(st, items[i].menu)
       IN IF v = NoSymbol THEN UNCHANGED <<st, windows>> ELSE Pick(st, v)
  /\ Quiet /\ UNCHANGED <<phase, showAll, opened, filename>>

Accept(set) == st' = set.st /\ windows' = IF set.ok THEN Rest ELSE windows
TypeText(text) == Accept(SetString(st, SymbolAt(st, Top.menu), text))
Type ==
  /\ Drawn /\ Top.kind = "string" /\ Press /\ \E text \in Entries : TypeText(text)
  /\ Quiet /\ UNCHANGED <<phase, showAll, opened, filename>>

JumpTo(m) ==
  windows' = <<[Window("menu", st.k.menu[m].parent) EXCEPT !.active = m, !.jumped = keys']>>
               \o windows
Jump ==
  /\ Drawn /\ Top.kind = "results" /\ Press
  /\ \E i \in DOMAIN items : JumpTo(items[i].menu)
  /\ Quiet /\ UNCHANGED <<phase, st, showAll, opened, filename>>

AfterLoad(x) == [x EXCEPT !.changed = TRUE]

(* conf_load: a file that is loaded is what the program saves to from now  *)
(* on; one that is not there leaves the box open, and what was changed     *)
(* before without its mark.                                                *)
TakeOver(x, file) ==
  IF disk[file] = Absent
  THEN st' = x /\ lapsed' = (lapsed \/ st.changed) /\ UNCHANGED <<windows, filename>>
  ELSE st' = AfterLoad(x) /\ lapsed' = FALSE /\ filename' = file /\ windows' = Rest
LoadFrom(file) == TakeOver(ReadConfig(st, disk[file], TRUE), file)
LoadFile ==
  /\ Drawn /\ Top.kind = "load" /\ Press
  /\ \E file \in {".config", "other"} : LoadFrom(file)
  /\ Quietly /\ UNCHANGED <<phase, showAll, opened>>

(* conf_save: the box stays open when the file cannot be written. *)
SaveTo(file) ==
  /\ Save(st, file, "saved", "ask")
  /\ windows' = <<[Top EXCEPT !.target = file]>> \o Rest
SaveFile ==
  /\ Drawn /\ Top.kind = "save" /\ Press
  /\ \E file \in {".config", "other"} : SaveTo(file)
  /\ UNCHANGED <<prog, reader, disk, inPlace, saved, cuts, childCount, single, showAll, opened,
                 filename, lapsed>>
BoxDone ==
  /\ phase = "saved" /\ phase' = "ask"
  /\ filename' = Top.target /\ lapsed' = FALSE /\ windows' = Rest
SaveDone ==
  /\ prog = "mconf" /\ BoxDone
  /\ Quietly /\ UNCHANGED <<st, items, showAll, opened, keys>>

(* handle_exit.  SIGINT leads to it from any window, and then the program  *)
(* ends whatever the answer is.                                            *)
Interrupt ==
  /\ Drawn /\ ~\E i \in DOMAIN windows : windows[i].signal
  /\ Press
  /\ windows' = <<[Window("exit", Root) EXCEPT !.signal = TRUE]>> \o windows
  /\ Quiet /\ UNCHANGED <<phase, st, showAll, opened, filename>>

AsksFirst(x) == x.changed

ExitUnasked ==
  /\ Drawn /\ Top.kind = "exit" /\ ~AsksFirst(st)
  /\ phase' = "done" /\ windows' = <<>>
  /\ UNCHANGED <<items, keys, st, showAll, opened, filename>> /\ Quiet
ExitSaving ==
  /\ Drawn /\ Top.kind = "exit" /\ AsksFirst(st)
  /\ Save(st, filename, "done", "failed") /\ windows' = <<>> /\ lapsed' = FALSE
  /\ UNCHANGED <<prog, reader, disk, inPlace, saved, cuts, items, childCount, showAll, single,
                 opened, filename, keys>>
ExitWithout ==
  /\ Drawn /\ Top.kind = "exit" /\ AsksFirst(st)
  /\ \/ phase' = "given up" /\ windows' = <<>>
     \/ /\ phase' = IF Top.signal THEN "given up" ELSE phase
        /\ windows' = IF Top.signal THEN <<>> ELSE <<Window("menu", Root)>>
  /\ Redraw /\ UNCHANGED <<keys, st, showAll, opened, filename>> /\ Quiet

MconfInit(setup) ==
  /\ windows = <<>> /\ items = NotDrawn /\ childCount = 0 /\ showAll = FALSE
  /\ single = setup.single /\ opened = {} /\ filename = ".config" /\ lapsed = FALSE
  /\ keys = setup.keys

MconfNext ==
  \/ MLoad \/ DrawMenu \/ DrawOther
  \/ SelectKey \/ ValueKey \/ OtherKey \/ Close \/ PickMember \/ Type \/ Jump
  \/ LoadFile \/ SaveFile \/ SaveDone \/ Interrupt \/ ExitUnasked \/ ExitSaving \/ ExitWithout
===============================================================================
