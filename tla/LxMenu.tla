--------------------------------- MODULE LxMenu ---------------------------------
(***************************************************************************)
(* The two scrolling lists of lxdialog: dialog_menu of menubox.c and       *)
(* dialog_checklist of checklist.c.  Both redraw only the rows that a key  *)
(* changes, so what is on the screen is state of its own.                  *)
(*                                                                         *)
(* lists is the dialog that is open:                                       *)
(*   kind          "menu" or "checklist"                                   *)
(*   items         the key that finds each item; items count from 0        *)
(*   height        the rows of the window; max is max_choice               *)
(*   scroll, choice, first   scroll, choice and first_item                 *)
(*   selected, saved         the default item or -1, and *s_scroll         *)
(*   rows          what each row shows: [item, lit], item -1 for nothing   *)
(*   button        the button in use                                       *)
(*   result        "none" while it is open, or how it ended                *)
(*   code, picked  the number it returned, and the item                    *)
(*   stale         the rows were drawn from another item than scroll       *)
(***************************************************************************)
EXTENDS Integers, Sequences, FiniteSets, FiniteSetsExt, SequencesExt

CONSTANTS
  ItemLists,    \* sequences of the keys of items
  Heights       \* the heights a terminal leaves for the list

(* What the lists are opened with: sequences, and room for a row. *)
ListSizes == (\A items \in ItemLists : Len(items) \in Nat) /\ Heights \subseteq Nat \ {0}

VARIABLE lists

Fewer(a, b) == IF a < b THEN a ELSE b
Greater(a, b) == IF a > b THEN a ELSE b
Count(d) == Len(d.items)
Nothing == [item |-> -1, lit |-> FALSE]

(* print_item and wscrl *)
PrintItem(d, row, item, lit) == [d EXCEPT !.rows[row + 1] = [item |-> item, lit |-> lit]]
RowOr(rows, i) == IF i \in DOMAIN rows THEN rows[i] ELSE Nothing
Shifted(rows, n) == [i \in DOMAIN rows |-> RowOr(rows, i + n)]
Scroll(d, n) == [d EXCEPT !.rows = Shifted(@, n), !.scroll = @ + n]

(* An item that is not there is read through a null pointer. *)
DrawFrom(d, from) ==
  IF from + d.max > Count(d) THEN [d EXCEPT !.result = "crash"]
  ELSE [d EXCEPT !.rows = [i \in 1 .. d.height |->
          IF i <= d.max THEN [item |-> from + i - 1, lit |-> i - 1 = d.choice] ELSE Nothing]]

(***************************************************************************)
(* do_resize of dialog_menu.  It goes back to the default item; first_item *)
(* stays what it was when the scroll position does not fit any more.       *)
(***************************************************************************)
Sized(d, height) == [d EXCEPT !.height = height, !.max = Fewer(height, Count(d))]
Default(d) == IF d.selected >= 0 THEN [d EXCEPT !.choice = d.selected] ELSE d
SavedFits(d) ==
  d.saved <= d.choice /\ d.saved + d.max > d.choice /\ d.saved >= 0 /\ d.saved + d.max <= Count(d)
ScrollTo(d, at) == [d EXCEPT !.first = at, !.scroll = at, !.choice = @ - at]
Restored(d) == IF SavedFits(d) THEN ScrollTo(d, d.saved) ELSE [d EXCEPT !.scroll = 0]

(* Mutant: the last item is centered like the others. *)
BugAround(d) == d.choice - d.max \div 2

Around(d) ==
  IF d.choice >= Count(d) - d.max \div 2 THEN Count(d) - d.max ELSE d.choice - d.max \div 2
Centered(d) == IF d.choice >= d.max THEN ScrollTo(d, Around(d)) ELSE d
Drawn(d) == DrawFrom([d EXCEPT !.stale = d.first # d.scroll], d.first)
DrawMenu(d, height) == Drawn(Centered(Restored(Default(Sized(d, height)))))

(* do_resize of dialog_checklist: the height of the list is fixed. *)
InView(d) ==
  IF d.choice >= d.height THEN [d EXCEPT !.scroll = d.choice - d.height + 1, !.choice = d.height - 1]
  ELSE d
DrawnAt(d) == DrawFrom(d, d.scroll)
DrawChecklist(d) == DrawnAt(InView(Sized(d, d.height)))

(***************************************************************************)
(* Keys that move                                                          *)
(***************************************************************************)
Hits(d, key) == {i \in 0 .. d.max - 1 : d.items[d.scroll + i + 1] = key}
Unlit(d) == PrintItem(d, d.choice, d.scroll + d.choice, FALSE)
Lit(d) == PrintItem(d, d.choice, d.scroll + d.choice, TRUE)
PrintTop(d) == PrintItem(d, 0, d.scroll, FALSE)
PrintBottom(d) == PrintItem(d, d.max - 1, d.scroll + d.max - 1, FALSE)
MoreBelow(d) == d.scroll + d.max < Count(d)
Move(d, by) == [d EXCEPT !.choice = Fewer(Greater(@ + by, 0), d.max - 1)]

MenuUp(d) == IF d.choice < 2 /\ d.scroll > 0 THEN PrintTop(Scroll(d, -1)) ELSE Move(d, -1)
MenuDown(d) ==
  IF d.choice > d.max - 3 /\ MoreBelow(d) THEN PrintBottom(Scroll(d, 1)) ELSE Move(d, 1)
LineUp(d) == IF d.scroll > 0 THEN PrintTop(Scroll(d, -1)) ELSE Move(d, -1)
LineDown(d) == IF MoreBelow(d) THEN PrintBottom(Scroll(d, 1)) ELSE Move(d, 1)
Line(d, by) == IF by < 0 THEN LineUp(d) ELSE LineDown(d)
Paged(d, by) ==
  LET page[i \in 0 .. d.max] == IF i = 0 THEN d ELSE Line(page[i - 1], by) IN page[d.max]

(* A letter finds the next item of the window, then the first one. *)
NextHit(d, hits) ==
  IF \E i \in hits : i > d.choice THEN Min({i \in hits : i > d.choice}) ELSE Min(hits)
MenuMoved(d, key) ==
  CASE key = "up" -> MenuUp(d) [] key = "down" -> MenuDown(d)
    [] key = "pageup" -> Paged(d, -1) [] key = "pagedown" -> Paged(d, 1)
    [] OTHER -> [d EXCEPT !.choice = NextHit(d, Hits(d, key))]
MenuMove(d, key) == Lit(MenuMoved(Unlit(d), key))
Exempt == {"y", "n", "m", "h"}
MenuMoves(d, key) ==
  /\ Count(d) # 0
  /\ key \in {"up", "down", "pageup", "pagedown"} \/ (key \notin Exempt /\ Hits(d, key) # {})

(* Mutant: the row that scrolls stays lit. *)
BugScrollLit(d, by) == Lit(IF d.height > 1 THEN Scroll(d, by) ELSE [d EXCEPT !.scroll = @ + by])

ScrollLit(d, by) == Lit(IF d.height > 1 THEN Scroll(Unlit(d), by) ELSE [d EXCEPT !.scroll = @ + by])
Select(d, i) == Lit([Unlit(d) EXCEPT !.choice = i])
ListUp(d) ==
  IF d.choice > 0 THEN Select(d, d.choice - 1)
  ELSE IF d.scroll > 0 THEN ScrollLit(d, -1) ELSE d
ListDown(d) ==
  IF d.choice # d.max - 1 THEN Select(d, d.choice + 1)
  ELSE IF d.scroll + d.choice < Count(d) - 1 THEN ScrollLit(d, 1) ELSE d
ListMove(d, key) ==
  CASE key = "up" -> ListUp(d) [] key = "down" -> ListDown(d)
    [] OTHER -> Select(d, Min(Hits(d, key)))
ListMoves(d, key) == key \in {"up", "down"} \/ Hits(d, key) # {}

(***************************************************************************)
(* Keys that end the dialog, or change the button                          *)
(***************************************************************************)
MenuResult(d) == [space |-> 8, s |-> 5, y |-> 5, n |-> 6, m |-> 7, h |-> 2, z |-> 10,
                  slash |-> 9, enter |-> d.button]
ListResult(d) == [space |-> d.button, s |-> d.button, h |-> 1, enter |-> d.button]
Return(d, code) ==
  [d EXCEPT !.result = "chosen", !.code = code, !.picked = d.scroll + d.choice]
Leave(d) == [d EXCEPT !.result = "esc"]
Turned(d, by, buttons) == [d EXCEPT !.button = (@ + by) % buttons]

Command(d, key, results, buttons) ==
  CASE key \in DOMAIN results -> Return(d, results[key])
    [] key \in {"left", "right"} -> Turned(d, IF key = "left" THEN -1 ELSE 1, buttons)
    [] key = "x" -> Leave(d)
    [] OTHER -> d
MenuKey(d, key) ==
  IF MenuMoves(d, key) THEN MenuMove(d, key)
  ELSE Command([d EXCEPT !.saved = IF key \in DOMAIN MenuResult(d) THEN d.scroll ELSE @], key,
               MenuResult(d), 5)
ListKey(d, key) ==
  IF ListMoves(d, key) THEN ListMove(d, key) ELSE Command(d, key, ListResult(d), 2)

Keys == {"up", "down", "pageup", "pagedown", "left", "right", "enter", "space", "slash",
         "a", "b", "s", "x", "y", "n", "m", "h", "z"}

(***************************************************************************)
(* A dialog is opened, used and opened again                               *)
(***************************************************************************)
Closed(kind, items) ==
  [kind |-> kind, items |-> items, height |-> 0, max |-> 0, scroll |-> 0, choice |-> 0,
   first |-> 0, selected |-> -1, saved |-> 0, rows |-> <<>>, button |-> 0, result |-> "closed",
   code |-> 0, picked |-> -1, stale |-> FALSE]
Reopened(d, selected) ==
  [d EXCEPT !.scroll = 0, !.choice = 0, !.first = 0, !.button = 0, !.code = 0,
            !.picked = -1, !.selected = selected, !.result = "none"]
ItemsOf(d) == 0 .. Count(d) - 1
LxMenuInit == \E kind \in {"menu", "checklist"}, items \in ItemLists : lists = Closed(kind, items)

(* The items may have changed before a menu is opened again: mconf passes  *)
(* the entry that was used last, which may not be there.                   *)
OpenMenu ==
  /\ lists.kind = "menu" /\ lists.result \notin {"none", "crash"}
  /\ \E height \in Heights, selected \in ItemsOf(lists) \cup {-1} :
       lists' = DrawMenu(Reopened(lists, selected), height)
OpenChecklist ==
  /\ lists.kind = "checklist" /\ lists.result = "closed"
  /\ \E height \in Heights, choice \in ItemsOf(lists) :
       lists' = DrawChecklist([Reopened(lists, -1) EXCEPT !.choice = choice, !.height = height])
PressInMenu ==
  /\ lists.kind = "menu" /\ lists.result = "none"
  /\ \E key \in Keys : lists' = MenuKey(lists, key)
PressInChecklist ==
  /\ lists.kind = "checklist" /\ lists.result = "none"
  /\ \E key \in Keys : lists' = ListKey(lists, key)
Resize ==
  /\ lists.result = "none"
  /\ \/ lists.kind = "menu" /\ \E height \in Heights : lists' = DrawMenu(lists, height)
     \/ lists.kind = "checklist" /\ lists' = DrawChecklist(lists)
Escape == lists.result = "none" /\ lists' = Leave(lists)
LxMenuNext ==
  OpenMenu \/ OpenChecklist \/ PressInMenu \/ PressInChecklist \/ Resize \/ Escape
LxMenuSpec == LxMenuInit /\ [][LxMenuNext]_lists

(***************************************************************************)
(* Properties                                                              *)
(***************************************************************************)
(* Every row shows the item it stands for and only the choice is lit, so   *)
(* what Enter takes is what the user sees.  (Not judged: a menu that was   *)
(* resized so that its scroll position does not fit any more.)             *)
ScreenTrue ==
  lists.result = "none" /\ ~lists.stale =>
    \A i \in 1 .. lists.max :
      lists.rows[i] = [item |-> lists.scroll + i - 1, lit |-> i - 1 = lists.choice]

(* The choice stays on the screen and the screen on the list, wherever the *)
(* list was scrolled to and however the terminal is resized; no item that  *)
(* is not there is drawn but in the case above.                            *)
ChoiceInView ==
  /\ lists.result = "none" =>
       /\ lists.scroll \in 0 .. Count(lists) - lists.max
       /\ Count(lists) > 0 => lists.choice \in 0 .. lists.max - 1
  /\ lists.result = "crash" => lists.stale
=================================================================================
