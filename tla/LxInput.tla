--------------------------------- MODULE LxInput --------------------------------
(***************************************************************************)
(* The two one-line editors: dialog_inputbox of lxdialog/inputbox.c        *)
(* ("lx"), which moves the text in its field a character at a time, and    *)
(* that of nconf.gui.c ("nconf"), which draws the field anew at every key. *)
(*                                                                         *)
(* input is the dialog that is open: text the string; pos, show and x are  *)
(* pos, show_x and input_x of the first, and cursor_position, what is left *)
(* of the field, and cursor_form_win of the second; field what the screen  *)
(* shows; focus the button in use, -1 being the field.  left and right are *)
(* history: what the keys so far have put to both sides of the cursor.     *)
(***************************************************************************)
EXTENDS Integers, Sequences, SequencesExt

CONSTANTS
  Inits,      \* the strings the dialog may start with
  Printable,  \* characters
  Width,      \* box_width or prompt_width
  MaxLen      \* MAX_LEN of lxdialog

(* What a text may be made of: what it starts with, and what is typed.     *)
Characters == Printable \cup UNION {{init[i] : i \in DOMAIN init} : init \in Inits}

(* There is a field, a string fits into the buffer it is edited in, and no *)
(* character is the name of another key.                                   *)
Named == {"backspace", "delete", "left", "right", "up", "down", "home", "end", "enter", "help"}
LineSizes ==
  /\ Width \in Nat \ {0} /\ MaxLen \in Nat
  /\ Inits \subseteq Seq(Characters) /\ \A init \in Inits : Len(init) <= MaxLen
  /\ Printable \cap Named = {}

VARIABLE input

FirstOf(s, n) == SubSeq(s, 1, n)
From(s, n) == SubSeq(s, n + 1, Len(s))
Shorter(a, b) == IF a < b THEN a ELSE b

(* The loop that draws the field ends with one blank behind the text: what *)
(* is to the right of it stays on the screen.                              *)
FieldAt(z, i) ==
  CASE z.show + i <= Len(z.text) -> z.text[z.show + i]
    [] z.show + i = Len(z.text) + 1 -> " "
    [] z.show + i > Len(z.text) + 1 -> z.field[i]
Draw(z) == [z EXCEPT !.field = [i \in 1 .. Width |-> FieldAt(z, i)]]
Blank(z) == [z EXCEPT !.field = [i \in 1 .. Width |-> " "]]

(***************************************************************************)
(* lxdialog                                                                *)
(***************************************************************************)
PlaceLx(z) ==
  IF Len(z.text) >= Width
    THEN [z EXCEPT !.show = Len(z.text) - Width + 1, !.x = Width - 1, !.pos = Len(z.text)]
  ELSE [z EXCEPT !.show = 0, !.x = Len(z.text), !.pos = Len(z.text)]
OpenLx(z) == Draw(Blank(PlaceLx(z)))

(* Mutant: the field stays where it is. *)
BugBackX(z) == IF z.x = 0 THEN z ELSE [z EXCEPT !.x = @ - 1]

BackX(z) == IF z.x = 0 THEN [z EXCEPT !.show = @ - 1] ELSE [z EXCEPT !.x = @ - 1]
ForthX(z) == IF z.x = Width - 1 THEN [z EXCEPT !.show = @ + 1] ELSE [z EXCEPT !.x = @ + 1]

(* Mutant: the last character is deleted wherever the cursor is. *)
BugWithout(text, at) == Front(text)

Without(text, at) == RemoveAt(text, at)
With(text, at, c) == FirstOf(text, at) \o <<c>> \o From(text, at)
BackspaceLx(z) ==
  IF z.pos = 0 THEN z
  ELSE Draw([BackX(z) EXCEPT !.text = Without(@, z.pos), !.pos = @ - 1])
LeftLx(z) ==
  IF z.pos = 0 THEN z
  ELSE IF z.x > 0 THEN [BackX(z) EXCEPT !.pos = @ - 1] ELSE Draw([BackX(z) EXCEPT !.pos = @ - 1])
RightLx(z) ==
  IF z.pos = Len(z.text) THEN z
  ELSE IF z.x < Width - 1 THEN [ForthX(z) EXCEPT !.pos = @ + 1]
  ELSE Draw([ForthX(z) EXCEPT !.pos = @ + 1])
InsertLx(z, c) ==
  IF Len(z.text) = MaxLen THEN z
  ELSE Draw([ForthX(z) EXCEPT !.text = With(@, z.pos, c), !.pos = @ + 1])

(* Behind the field the keys belong to the buttons. *)
InField(z, key) == z.focus = -1 /\ key \in {"backspace", "left", "right"} \cup Printable
EditLx(z, key) ==
  CASE key = "backspace" -> BackspaceLx(z) [] key = "left" -> LeftLx(z)
    [] key = "right" -> RightLx(z) [] key \in Printable -> InsertLx(z, key)
End(z, result) == [z EXCEPT !.result = result]
NextFocus(z, key) ==
  IF key \in {"up", "left"} THEN ((z.focus + 3) % 3) - 1 ELSE ((z.focus + 2) % 3) - 1
ButtonLx(z, key) ==
  CASE key = "o" -> End(z, 0) [] key = "h" -> End(z, 1)
    [] key = "enter" -> End(z, IF z.focus = -1 THEN 0 ELSE z.focus)
    [] key \in {"up", "left", "down", "right"} -> [z EXCEPT !.focus = NextFocus(z, key)]
    [] OTHER -> z
KeyLx(z, key) == IF InField(z, key) THEN EditLx(z, key) ELSE ButtonLx(z, key)

(***************************************************************************)
(* nconf                                                                   *)
(***************************************************************************)
Clamp(x) == IF x < 0 THEN 0 ELSE Shorter(x, Width - 1)
DrawNconf(z) == Draw(Blank([z EXCEPT !.x = Clamp(@), !.show = z.pos - Clamp(z.x)]))
OpenNconf(z) == DrawNconf([z EXCEPT !.pos = Len(z.text), !.x = Len(z.text)])
Step(z, by) == [z EXCEPT !.pos = @ + by, !.x = @ + by]
KeyNconf(z, key) ==
  CASE key = "backspace" /\ z.pos > 0 -> [Step(z, -1) EXCEPT !.text = Without(@, z.pos)]
    [] key = "delete" /\ z.pos < Len(z.text) -> [z EXCEPT !.text = RemoveAt(@, z.pos + 1)]
    [] key \in {"right", "up"} /\ z.pos < Len(z.text) -> Step(z, 1)
    [] key \in {"left", "down"} /\ z.pos > 0 -> Step(z, -1)
    [] key = "home" -> [z EXCEPT !.pos = 0, !.x = 0]
    [] key = "end" -> [z EXCEPT !.pos = Len(z.text), !.x = Len(z.text)]
    [] key \in Printable -> [Step(z, 1) EXCEPT !.text = With(@, z.pos, key)]
    [] key = "enter" -> End(z, 0)
    [] key = "help" -> End(z, 1)
    [] OTHER -> z

(***************************************************************************)
(* What the keys mean                                                      *)
(***************************************************************************)
Sides(z, left, right) == [z EXCEPT !.left = left, !.right = right]
Meant(z, key, back, forth) ==
  CASE key = "backspace" /\ z.left # <<>> -> Sides(z, Front(z.left), z.right)
    [] key = "delete" /\ z.right # <<>> -> Sides(z, z.left, Tail(z.right))
    [] key \in back /\ z.left # <<>> ->
         Sides(z, Front(z.left), <<Last(z.left)>> \o z.right)
    [] key \in forth /\ z.right # <<>> ->
         Sides(z, Append(z.left, Head(z.right)), Tail(z.right))
    [] key = "home" -> Sides(z, <<>>, z.left \o z.right)
    [] key = "end" -> Sides(z, z.left \o z.right, <<>>)
    [] key \in Printable -> Sides(z, Append(z.left, key), z.right)
    [] OTHER -> z

NewInput(kind, init) ==
  [kind |-> kind, text |-> init, pos |-> 0, show |-> 0, x |-> 0, field |-> <<>>, focus |-> -1,
   result |-> -1, left |-> init, right |-> <<>>]
LxInputInit ==
  \E init \in Inits :
    input \in {OpenLx(NewInput("lx", init)), OpenNconf(NewInput("nconf", init))}

EditKeys == {"backspace", "left", "right", "up", "down", "enter"} \cup Printable
PressLx ==
  /\ input.kind = "lx" /\ input.result = -1
  /\ \E key \in EditKeys :
       input' = KeyLx(IF InField(input, key) /\ (key \in Printable => Len(input.text) < MaxLen)
                        THEN Meant(input, key, {"left"}, {"right"}) ELSE input, key)
ResizeLx ==
  /\ input.kind = "lx" /\ input.result = -1
  /\ input' = OpenLx(Meant(input, "end", {}, {}))
PressNconf ==
  /\ input.kind = "nconf" /\ input.result = -1
  /\ \E key \in EditKeys \cup {"delete", "home", "end", "help"} :
       /\ key \in Printable => Len(input.text) < MaxLen   \* the buffer grows: a bound
       /\ input' = DrawNconf(KeyNconf(Meant(input, key, {"left", "down"}, {"right", "up"}), key))
EscapeInput == input.result = -1 /\ input' = End(input, 27)
LxInputNext == PressLx \/ ResizeLx \/ PressNconf \/ EscapeInput
LxInputSpec == LxInputInit /\ [][LxInputNext]_input

(***************************************************************************)
(* Properties                                                              *)
(***************************************************************************)
(* The string and the cursor are what the keys made them, however far the  *)
(* text is longer than the field.                                          *)
TextAsTyped == input.text = input.left \o input.right /\ input.pos = Len(input.left)

(* The field shows the text from one place on and blanks behind it, and    *)
(* the cursor stands in it at the character that a key would change.       *)
FieldTrue ==
  input.result = -1 =>
    /\ input.x \in 0 .. Width - 1 /\ input.show >= 0 /\ input.pos = input.show + input.x
    /\ \A i \in 1 .. Width :
         input.field[i] = IF input.show + i <= Len(input.text) THEN input.text[input.show + i] ELSE " "
=================================================================================
