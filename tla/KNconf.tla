-------------------------------- MODULE KNconf --------------------------------
(***************************************************************************)
(* scripts/config/nconf.c: nconfig, written after mconf.c.  Its windows    *)
(* and its state are those of KMconf; what is shown, what the keys do and  *)
(* how the program ends are its own.                                       *)
(*                                                                         *)
(* The function keys work in every menu and choice: on top of any window   *)
(* there can be the boxes of load and save, the results of a search, which *)
(* lead into further menus, and the question of the exit.  An answer that  *)
(* ends the program (global_exit) makes every window below it close, and   *)
(* the results of a search are shown once more on the way.                 *)
(*                                                                         *)
(* The keys that move the bar, and the search within a menu, only choose   *)
(* the item: a key here works on any item.  After a function key the C     *)
(* code asks once more whether the item under the bar is visible, as the   *)
(* redraw that follows does.                                               *)
(***************************************************************************)
EXTENDS KMconf

VARIABLE leaving   \* global_exit: "no", or how the program is to end

RECURSIVE NBuild(_, _)

nconfvars == <<mconfvars, leaving>>

(***************************************************************************)
(* build_conf.  With all options shown nothing is hidden, but every item   *)
(* made is still tested for being visible.                                 *)
(***************************************************************************)
NItem(b, m, tag) ==
  [b EXCEPT !.st = MenuIsVisible(@, m).st, !.items = Append(@, Item(m, tag))]
NShow(b, m, tag) == [NItem(b, m, tag) EXCEPT !.count = @ + 1]
NBuildKids(b, m) == FoldLeft(NBuild, b, Children(b.st.k, m))

NBuildFolded(b, m) == IF single /\ m \in opened THEN NBuildKids(b, m) ELSE b
NBuildMenu(b, m) == NBuildFolded(NShow(IF single THEN b ELSE WithEmptyTest(b, m), m, "m"), m)
NBuildPlain(b, m) ==
  IF m = b.top \/ PromptKind(b.st, m) = "none" THEN NBuildKids(b, m)
  ELSE IF PromptKind(b.st, m) = "MENU" THEN NBuildMenu(b, m)
  ELSE NBuildKids(NShow(b, m, ":"), m)

NBelowChoice(b, m, chosen) ==
  IF Tri(b.st, SymbolAt(b.st, m)) # yes THEN NBuildKids(b, m)
  ELSE IF chosen # NoMenu /\ b.st.k.menu[chosen].list # NoMenu THEN NBuild(b, chosen)
  ELSE b
NShowChoice(b, m, c) ==
  NBelowChoice(NShow([b EXCEPT !.st = c.st], m, ChoiceTag(c, m)), m, c.menu)
NBuildChoice(b, m) == NShowChoice(b, m, ChosenMenu(b.st, m))

NBelowSymbol(b, m, tag) ==
  IF tag # "s" /\ PromptKind(b.st, m) = "MENU" THEN WithEmptyTest(b, m) ELSE NBuildKids(b, m)
NShowSymbol(b, m, tag) == NBelowSymbol(NShow(b, m, tag), m, tag)
NBuildSymbol(b, m) ==
  IF m = b.top THEN NBuildKids(NItem(b, m, ":"), m)
  ELSE NShowSymbol(b, m, SymbolTag(b.st, SymbolAt(b.st, m)))

NBuildSeen(b, m) ==
  IF SymbolAt(b.st, m) = NoSymbol THEN NBuildPlain(b, m)
  ELSE IF IsChoice(b.st, SymbolAt(b.st, m)) THEN NBuildChoice(b, m)
  ELSE NBuildSymbol(b, m)
NIfSeen(b, m, v) ==
  IF v.is THEN NBuildSeen([b EXCEPT !.st = v.st], m) ELSE [b EXCEPT !.st = v.st]
NBuild(b, m) == NIfSeen(b, m, IF showAll THEN Says(b.st, TRUE) ELSE MenuIsVisible(b.st, m))

(***************************************************************************)
(* Drawing                                                                 *)
(***************************************************************************)
NLive == Showing("nconf") /\ leaving = "no"
NDrawn == NLive /\ items # NotDrawn
Still == UNCHANGED <<phase, showAll, opened, filename, leaving>>

NLoad == prog = "nconf" /\ Begin /\ leaving' = "no"

NDrawMenu ==
  /\ NLive /\ items = NotDrawn /\ Top.kind = "menu"
  /\ DrawItems(NBuild(Fresh(Top.menu), Top.menu))
  /\ UNCHANGED <<prog, reader, disk, job, inPlace, saved, cuts, single, lapsed, keys>>
  /\ Still

(* The members of a choice, all of them when all options are shown.        *)
NMembers(x, m) ==
  FoldLeft(LAMBDA acc, child : IfShown([MenuIsVisible(acc.st, child) EXCEPT !.is = @ \/ showAll],
                                       child, acc.to),
           [st |-> x, to |-> <<>>], Children(x.k, m))

NDrawOther ==
  /\ NLive /\ items = NotDrawn /\ Top.kind # "menu"
  /\ CASE Top.kind = "choice" -> DrawList(NMembers(st, Top.menu), ":")
       [] Top.kind = "results" -> DrawList(JumpsTo(Search(st, Top.pattern)), "j")
       [] OTHER -> items' = <<>> /\ UNCHANGED st
  /\ UNCHANGED <<prog, reader, disk, job, inPlace, saved, cuts, windows, childCount, single,
                 lapsed, keys>>
  /\ Still

(***************************************************************************)
(* Keys in a menu (selected_conf).  A key does nothing to an item that is  *)
(* shown although it is not visible.                                       *)
(***************************************************************************)
Push(x, w) == st' = x /\ windows' = <<w>> \o windows /\ UNCHANGED opened
Change(x) == st' = x /\ UNCHANGED <<windows, opened>>
Unfold(x, m) ==
  /\ opened' = IF m \in opened THEN opened \ {m} ELSE opened \cup {m}
  /\ st' = x /\ UNCHANGED windows

(* Enter and the right arrow, which does not toggle. *)
EnterLogic(x, m, s, toggles) ==
  IF IsChoice(x, s) /\ Tri(x, s) = yes THEN Push(x, Window("choice", m))
  ELSE IF PromptKind(x, m) = "MENU" THEN Push(x, Window("menu", m))
  ELSE Change(IF toggles THEN Toggle(x, s) ELSE x)
Enter(v, item, toggles) ==
  CASE ~v.is -> Change(v.st)
    [] v.is /\ item.tag = "m" ->
         IF single THEN Unfold(v.st, item.menu) ELSE Push(v.st, Window("menu", item.menu))
    [] v.is /\ item.tag = "t" -> EnterLogic(v.st, item.menu, SymbolAt(v.st, item.menu), toggles)
    [] v.is /\ item.tag = "s" -> Push(v.st, Window("string", item.menu))
    [] OTHER -> Change(v.st)
NEnterKey ==
  /\ NDrawn /\ Top.kind = "menu" /\ Press
  /\ \E i \in DOMAIN items, toggles \in BOOLEAN :
       Enter(MenuIsVisible(st, items[i].menu), items[i], toggles)
  /\ Quiet /\ UNCHANGED <<phase, showAll, filename, leaving>>

ValueFor(x, s, key) ==
  CASE key = " " -> Toggle(x, s) [] key = "y" -> SetYes(x, s)
    [] OTHER -> SetTristate(x, s, TriOf(key)).st
GiveValue(v, item, key) ==
  CASE v.is /\ item.tag = "t" -> Change(ValueFor(v.st, SymbolAt(v.st, item.menu), key))
    [] v.is /\ item.tag = "m" /\ key = " " -> Push(v.st, Window("menu", item.menu))
    [] OTHER -> Change(v.st)
NValueKey ==
  /\ NDrawn /\ Top.kind = "menu" /\ Press
  /\ \E i \in DOMAIN items, key \in {" ", "y", "n", "m"} :
       GiveValue(MenuIsVisible(st, items[i].menu), items[i], key)
  /\ Quiet /\ UNCHANGED <<phase, showAll, filename, leaving>>

(* ESC, and the left arrow or F5 anywhere but in the root menu. *)
NLeave ==
  /\ NDrawn /\ Top.kind # "exit" /\ Press
  /\ windows' = Behind
  /\ Quiet /\ UNCHANGED st /\ Still

(* process_special_keys: F2, F4, F6, F7, F8 and F9, in a menu or a choice. *)
NFunctionKey ==
  /\ NDrawn /\ Top.kind \in {"menu", "choice"} /\ Press
  /\ \/ /\ \E i \in DOMAIN items :
             /\ SymbolAt(st, items[i].menu) # NoSymbol
             /\ st' = Jumps(st, <<SymbolAt(st, items[i].menu)>>).st
        /\ UNCHANGED <<windows, showAll>>
     \/ showAll' \in BOOLEAN /\ UNCHANGED <<st, windows>>
     \/ /\ \E kind \in {"save", "load", "exit"} :
             windows' = <<Window(kind, Root)>> \o windows
        /\ UNCHANGED <<st, showAll>>
     \/ /\ \E p \in Patterns :
             windows' = <<[Window("results", Root) EXCEPT !.pattern = p]>> \o windows
        /\ UNCHANGED <<st, showAll>>
  /\ Quiet /\ UNCHANGED <<phase, opened, filename, leaving>>

(* conf_choice *)
PickSeen(seen, v) ==
  IF ~seen.is \/ v = NoSymbol THEN st' = seen.st /\ UNCHANGED windows ELSE Pick(seen.st, v)
NPickMember ==
  /\ NDrawn /\ Top.kind = "choice" /\ Press
  /\ \E i \in DOMAIN items :
       PickSeen(MenuIsVisible(st, items[i].menu), SymbolAt(st, items[i].menu))
  /\ Quiet /\ Still

NType ==
  /\ NDrawn /\ Top.kind = "string" /\ Press /\ \E text \in Entries : TypeText(text)
  /\ Quiet /\ Still

NJump ==
  /\ NDrawn /\ Top.kind = "results" /\ Press
  /\ \E i \in DOMAIN items : JumpTo(items[i].menu)
  /\ Quiet /\ UNCHANGED st /\ Still

(***************************************************************************)
(* Files and the end                                                       *)
(***************************************************************************)
NLoadFile ==
  /\ NDrawn /\ Top.kind = "load" /\ Press
  /\ \E file \in {".config", "other"} : LoadFrom(file)
  /\ Quietly /\ UNCHANGED <<phase, showAll, opened, leaving>>
NSaveFile ==
  /\ NDrawn /\ Top.kind = "save" /\ Press
  /\ \E file \in {".config", "other"} : SaveTo(file)
  /\ UNCHANGED <<prog, reader, disk, inPlace, saved, cuts, childCount, single, showAll, opened,
                 filename, lapsed, leaving>>
NSaveDone ==
  /\ prog = "nconf" /\ BoxDone
  /\ Quietly /\ UNCHANGED <<st, items, showAll, opened, keys, leaving>>

(* do_exit: nothing to save, save, throw away or go on.  The program ends  *)
(* also when the file cannot be written, after saying so.                  *)
NExitUnasked ==
  /\ NDrawn /\ Top.kind = "exit" /\ ~AsksFirst(st)
  /\ leaving' = "done" /\ windows' = Rest /\ Redraw
  /\ UNCHANGED <<keys, st, phase, showAll, opened, filename>> /\ Quiet
NExitSaving ==
  /\ NDrawn /\ Top.kind = "exit" /\ AsksFirst(st)
  /\ Save(st, filename, "ask", "not saved") /\ leaving' = "done" /\ windows' = Rest /\ Redraw
  /\ lapsed' = FALSE
  /\ UNCHANGED <<prog, reader, disk, inPlace, saved, cuts, childCount, showAll, single,
                 opened, filename, keys>>
NExitFailed ==
  /\ prog = "nconf" /\ phase = "not saved" /\ phase' = "ask" /\ leaving' = "failed"
  /\ UNCHANGED <<st, windows, items, keys, showAll, opened, filename>> /\ Quiet
NExitWithout ==
  /\ NDrawn /\ Top.kind = "exit" /\ AsksFirst(st)
  /\ \/ leaving' = "given up" /\ windows' = Rest
     \/ /\ windows' = IF Rest = <<>> THEN <<Window("menu", Root)>> ELSE Rest
        /\ UNCHANGED leaving
  /\ Redraw /\ UNCHANGED <<keys, st, phase, showAll, opened, filename>> /\ Quiet

(* The windows close one after the other, and main returns. *)
NUnwind ==
  /\ Showing("nconf") /\ leaving # "no"
  /\ st' = IF Top.kind = "results" THEN JumpsTo(Search(st, Top.pattern)).st ELSE st
  /\ windows' = Rest /\ Redraw
  /\ UNCHANGED <<keys>> /\ Quiet /\ Still
NEnd ==
  /\ prog = "nconf" /\ phase = "ask" /\ windows = <<>> /\ leaving # "no"
  /\ phase' = leaving
  /\ UNCHANGED <<st, windows, items, keys, showAll, opened, filename, leaving>> /\ Quiet

NconfInit(setup) == MconfInit(setup) /\ leaving = "no"

NconfNext ==
  \/ NLoad \/ NDrawMenu \/ NDrawOther
  \/ NEnterKey \/ NValueKey \/ NLeave \/ NFunctionKey \/ NPickMember \/ NType \/ NJump
  \/ NLoadFile \/ NSaveFile \/ NSaveDone
  \/ NExitUnasked \/ NExitSaving \/ NExitFailed \/ NExitWithout \/ NUnwind \/ NEnd
===============================================================================
