--------------------------------- MODULE LxText ---------------------------------
(***************************************************************************)
(* textbox.c of lxdialog: a text in a scrolling window.  The only position *)
(* kept is page, which points behind the lines that were drawn last; where *)
(* the window starts is found again by going back over them, and whether   *)
(* the text begins or ends in it is kept in two flags.                     *)
(*                                                                         *)
(* textbox is the dialog that is open: buf is the text, a sequence of      *)
(* "x" and "nl"; page counts from 0, Len(buf) is the end of the string.    *)
(* key is the last one pressed, was where the window started before it.    *)
(***************************************************************************)
EXTENDS Integers, Sequences, FiniteSets

CONSTANTS
  Texts,      \* what may be shown; each ends with a newline
  Lines,      \* boxh, the lines of the window
  MaxScroll   \* MAX_LEN, how far it may be moved to the right

(* Where the text is shown there is room for a line. *)
TextSizes ==
  /\ \A buf \in Texts : buf \in Seq({"x", "nl"}) /\ Len(buf) > 0 /\ buf[Len(buf)] = "nl"
  /\ Lines \subseteq Nat \ {0}

VARIABLE textbox

AtEnd(t) == t.page = Len(t.buf)
IsNl(t, at) == t.buf[at + 1] = "nl"

(* get_line: page moves behind the next line. *)
LineEnds(t) == {at \in t.page .. Len(t.buf) - 1 : IsNl(t, at)}
Nearest(ends) == CHOOSE at \in ends : \A other \in ends : at <= other
GetLine(t) ==
  IF LineEnds(t) = {} THEN [t EXCEPT !.page = Len(t.buf), !.end = TRUE]
  ELSE [t EXCEPT !.page = Nearest(LineEnds(t)) + 1, !.end = FALSE]

(***************************************************************************)
(* back_lines.  A window that ends behind the text has drawn one line more *)
(* than there is.                                                          *)
(***************************************************************************)
LineStarts(t) == {at \in 0 .. t.page - 1 : at = 0 \/ IsNl(t, at - 1)}
Farthest(starts) == CHOOSE at \in starts : \A other \in starts : at >= other
Begin(t) == [t EXCEPT !.page = 0, !.begin = TRUE]
BackLine(t) ==
  IF LineStarts(t) \in {{}, {0}} THEN Begin(t)
  ELSE [t EXCEPT !.page = Farthest(LineStarts(t))]

(* Mutant: the line behind the end of the text is not counted. *)
BugBehindEnd(t) == FALSE

BehindEnd(t) == AtEnd(t) /\ t.end
StepBack(t) ==
  IF t.begin THEN t ELSE IF BehindEnd(t) THEN [t EXCEPT !.end = FALSE] ELSE BackLine(t)
BackLines(t, n) ==
  LET steps == IF n > 0 THEN n ELSE 0
      back[i \in 0 .. steps] == IF i = 0 THEN [t EXCEPT !.begin = FALSE] ELSE StepBack(back[i - 1])
  IN back[steps]

(* print_page: page_length counts the lines up to the first behind the end. *)
GetLines(t, n) ==
  LET lines[i \in 0 .. n] == IF i = 0 THEN t ELSE GetLine(lines[i - 1]) IN lines
PageLines(lines, n) == Cardinality({i \in 1 .. n : \A j \in 1 .. i - 1 : ~lines[j].end})
PrintPage(t, lines) == [lines[t.boxh] EXCEPT !.length = PageLines(lines, t.boxh)]
Refresh(t) == PrintPage(t, GetLines([t EXCEPT !.start = t.page], t.boxh))

(***************************************************************************)
(* dialog_textbox                                                          *)
(***************************************************************************)
Home(t) == IF t.begin THEN t ELSE Refresh([t EXCEPT !.begin = TRUE, !.page = 0])
ToEnd(t) == Refresh(BackLines([t EXCEPT !.end = TRUE, !.page = Len(t.buf)], t.boxh))
Up(t) == IF t.begin THEN t ELSE Refresh(BackLines(t, t.length + 1))
PageUp(t) == IF t.begin THEN t ELSE Refresh(BackLines(t, t.length + t.boxh))
Down(t) == IF t.end THEN t ELSE Refresh(BackLines(t, t.length - 1))

(* Mutant: the page is still the first one. *)
BugPageDown(t) == IF t.end THEN t ELSE Refresh(t)

PageDown(t) == IF t.end THEN t ELSE Refresh([t EXCEPT !.begin = FALSE])
Redraw(t) == Refresh(BackLines(t, t.length))
Left(t) == IF t.hscroll <= 0 THEN t ELSE Redraw([t EXCEPT !.hscroll = @ - 1])
Zero(t) == IF t.hscroll <= 0 THEN t ELSE Redraw([t EXCEPT !.hscroll = 0])
Right(t) == IF t.hscroll >= MaxScroll THEN t ELSE Redraw([t EXCEPT !.hscroll = @ + 1])

(* A resize goes back by the height of the dialog, four more than boxh. *)
Resized(t, boxh) == Refresh([BackLines(t, t.boxh + 4) EXCEPT !.boxh = boxh])

(* The line at the top is returned, for the next time the text is shown.   *)
LinesAbove(t) == Cardinality({at \in 0 .. t.page - 1 : IsNl(t, at)})
Returned(t) == [t EXCEPT !.vscroll = LinesAbove(BackLines(t, t.length)), !.open = FALSE]

FirstShown(buf, boxh) ==
  [buf |-> buf, page |-> 0, begin |-> TRUE, end |-> FALSE, length |-> 0, hscroll |-> 0,
   boxh |-> boxh, start |-> 0, vscroll |-> 0, open |-> TRUE, key |-> "open", was |-> 0]
Scrolled(t) == GetLines([t EXCEPT !.begin = t.vscroll = 0], t.vscroll)[t.vscroll]
ShownAgain(t) ==
  Refresh(Scrolled([FirstShown(t.buf, t.boxh) EXCEPT !.hscroll = t.hscroll, !.vscroll = t.vscroll]))

Pressed(t, key) == [t EXCEPT !.key = key, !.was = t.start]
Acted(t, key) ==
  CASE key = "home" -> Home(t) [] key = "end" -> ToEnd(t) [] key = "up" -> Up(t)
    [] key = "pageup" -> PageUp(t) [] key = "down" -> Down(t) [] key = "pagedown" -> PageDown(t)
    [] key = "left" -> Left(t) [] key = "zero" -> Zero(t) [] key = "right" -> Right(t)
TextKeys == {"home", "end", "up", "pageup", "down", "pagedown", "left", "zero", "right"}

LxTextInit == \E buf \in Texts, boxh \in Lines : textbox = Refresh(FirstShown(buf, boxh))
PressKey == textbox.open /\ \E key \in TextKeys : textbox' = Acted(Pressed(textbox, key), key)
ResizeText ==
  textbox.open /\ \E boxh \in Lines : textbox' = Resized(Pressed(textbox, "resize"), boxh)
Exit == textbox.open /\ textbox' = Returned(Pressed(textbox, "exit"))
ShowAgain ==
  ~textbox.open /\ textbox' = [ShownAgain(textbox) EXCEPT !.key = "again", !.was = textbox.was]
LxTextNext == PressKey \/ ResizeText \/ Exit \/ ShowAgain
LxTextSpec == LxTextInit /\ [][LxTextNext]_textbox

(***************************************************************************)
(* Properties                                                              *)
(***************************************************************************)
StartsOf(buf) == {0} \cup {at \in 1 .. Len(buf) : buf[at] = "nl"}

(* The flags tell the truth: nothing is above the window when it cannot be *)
(* moved up, and nothing below when it cannot be moved down; it starts at  *)
(* the beginning of a line.                                                *)
FlagsTrue ==
  textbox.open =>
    /\ textbox.start \in StartsOf(textbox.buf)
    /\ textbox.begin = (textbox.start = 0)
    /\ textbox.end => AtEnd(textbox)

(* A line up or down is one line, a move to the side none, and a text that *)
(* is shown again starts where it was left.                                *)
Between(t, a, b) == {at \in StartsOf(t.buf) : a < at /\ at <= b}
IsOneLine(t, a, b) == \E at \in StartsOf(t.buf) : Between(t, a, b) = {at}
LinesKept ==
  textbox.open =>
    CASE textbox.key \in {"left", "right", "zero", "again"} -> textbox.start = textbox.was
      [] textbox.key = "up" -> textbox.was = 0 \/ IsOneLine(textbox, textbox.start, textbox.was)
      [] textbox.key = "down" ->
           textbox.start = textbox.was \/ IsOneLine(textbox, textbox.was, textbox.start)
      [] OTHER -> TRUE
=================================================================================
