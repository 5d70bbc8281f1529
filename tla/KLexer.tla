--------------------------------- MODULE KLexer ---------------------------------
(***************************************************************************)
(* scripts/config/lexer.l: how one Kconfig file becomes tokens.  The input *)
(* is a sequence of symbols: a character, a keyword or an operator, nl and *)
(* tab for what cannot be written, dq and sq for the quotes, and the       *)
(* references of Expansion.  Keywords and references are made of the       *)
(* characters of words, so next to one they are part of it.                *)
(*                                                                         *)
(* The lexer lx:                                                           *)
(*   in          what was not read yet                                     *)
(*   mode        the start condition of flex, or EXPAND: within a word     *)
(*   prev, prevPrev     prev_token, prev_prev_token                        *)
(*   text, quote        the string being read and open_quote               *)
(*   firstTs, lastTs    the indentation of a help text                     *)
(*   out         the tokens given to the parser: [token, text]             *)
(*   file        current_file is set                                       *)
(***************************************************************************)
EXTENDS Integers, Sequences, SequencesExt

CONSTANTS
  Expansion,  \* reference -> the symbols it expands to
  Inputs      \* the files

VARIABLE lexer

KeywordToken == [
  bool |-> "T_BOOL", choice |-> "T_CHOICE", comment |-> "T_COMMENT", config |-> "T_CONFIG",
  def_bool |-> "T_DEF_BOOL", def_tristate |-> "T_DEF_TRISTATE", default |-> "T_DEFAULT",
  depends |-> "T_DEPENDS", endchoice |-> "T_ENDCHOICE", endif |-> "T_ENDIF",
  endmenu |-> "T_ENDMENU", help |-> "T_HELP", hex |-> "T_HEX", if |-> "T_IF",
  imply |-> "T_IMPLY", int |-> "T_INT", mainmenu |-> "T_MAINMENU", menu |-> "T_MENU",
  menuconfig |-> "T_MENUCONFIG", modules |-> "T_MODULES", on |-> "T_ON",
  optional |-> "T_OPTIONAL", prompt |-> "T_PROMPT", range |-> "T_RANGE", reset |-> "T_RESET",
  select |-> "T_SELECT", source |-> "T_SOURCE", string |-> "T_STRING",
  tristate |-> "T_TRISTATE", visible |-> "T_VISIBLE"]
Operators == {"||", "&&", "=", "!=", "<", "<=", ">", ">=", "!", "(", ")", ":=", "+="}
Assigning == {"=", ":=", "+="}
Quotes == {"dq", "sq"}
Blanks == {" ", "tab"}
Letters == {"x", "y", ".", "/"}
IsReference(c) == c \in DOMAIN Expansion
InWord == Letters \cup DOMAIN KeywordToken \cup DOMAIN Expansion

(* How many symbols at the front are in cs. *)
RunOf(in, cs) == SelectInSeq(Append(in, "end"), LAMBDA c : c \notin cs) - 1
FirstN(in, n) == SubSeq(in, 1, n)
Behind(lx, n) == [lx EXCEPT !.in = SubSeq(@, n + 1, Len(@))]
Expanded(cs) == FlattenSeq([i \in DOMAIN cs |-> IF IsReference(cs[i]) THEN Expansion[cs[i]] ELSE <<cs[i]>>])
LineEnd(in) == SelectInSeq(Append(in, "nl"), LAMBDA c : c = "nl") - 1

(***************************************************************************)
(* yylex.  An end of line right behind another is not passed on; behind a  *)
(* word at the start of a line, an assignment operator starts a value.     *)
(* The parser starts a help text behind the line of its keyword.           *)
(***************************************************************************)
StartsValue(lx, token) ==
  lx.prevPrev = "T_EOL" /\ lx.prev = "T_WORD" /\ token \in Assigning
StartHelp(lx) == [lx EXCEPT !.mode = "HELP", !.text = <<>>, !.firstTs = 0, !.lastTs = 0]
WithMode(lx, token) ==
  IF StartsValue(lx, token) THEN [lx EXCEPT !.mode = "ASSIGN_VAL"]
  ELSE IF lx.prev = "T_HELP" /\ token = "T_EOL" THEN StartHelp(lx) ELSE lx
Passed(lx, token, text) ==
  [WithMode(lx, token) EXCEPT !.prevPrev = lx.prev, !.prev = token,
                              !.out = Append(@, [token |-> token, text |-> text])]
Emit(lx, token, text) ==
  IF token = "T_EOL" /\ lx.prev \in {"T_EOL", "T_HELPTEXT"} THEN lx
  ELSE Passed(lx, token, text)

(***************************************************************************)
(* The rules outside of strings, values and help texts                     *)
(***************************************************************************)
WordToken(lx, cs) ==
  IF Len(cs) = 1 /\ cs[1] \in DOMAIN KeywordToken THEN Emit(lx, KeywordToken[cs[1]], <<>>)
  ELSE IF Expanded(cs) = <<>> THEN lx   \* nothing but references to nothing
  ELSE Emit(lx, "T_WORD", Expanded(cs))

(* expand_token reads the rest of the line of a word with a reference.  It *)
(* waits for EOF, but at the end of the file input() of the scanner gives  *)
(* 0: without a newline behind the word it reads on for ever.              *)
EndlessWord(lx, n) == (\E i \in 1 .. n : IsReference(lx.in[i])) /\ "nl" \notin Range(lx.in)
Word(lx, n) ==
  IF EndlessWord(lx, n) THEN [lx EXCEPT !.mode = "EXPAND"]
  ELSE WordToken(Behind(lx, n), FirstN(lx.in, n))
StartString(lx, quote) == [lx EXCEPT !.mode = "STRING", !.text = <<>>, !.quote = quote]

(* The end of the file gives an end of line, the next one the end of all.  *)
EndInitial(lx) ==
  IF lx.file THEN Emit([lx EXCEPT !.mode = "INITIAL", !.file = FALSE], "T_EOL", <<>>)
  ELSE Emit(lx, "end", <<>>)

MatchInitial(lx) ==
  LET c == IF lx.in = <<>> THEN "eof" ELSE Head(lx.in)
  IN CASE c = "eof" -> EndInitial(lx)
       [] c = "#" -> Behind(lx, LineEnd(lx.in))
       [] c \in Blanks -> Behind(lx, 1)
       [] c = "\\" -> Behind(lx, IF Len(lx.in) > 1 /\ lx.in[2] = "nl" THEN 2 ELSE 1)
       [] c = "nl" -> Emit(Behind(lx, 1), "T_EOL", <<>>)
       [] c \in Operators -> Emit(Behind(lx, 1), c, <<>>)
       [] c \in Quotes -> StartString(Behind(lx, 1), c)
       [] c \in InWord -> Word(lx, RunOf(lx.in, InWord))
       [] OTHER -> Behind(lx, 1)   \* an unsupported character

(* The value of an assignment is the rest of its line. *)

(* Mutant: the next line is read as a value, too. *)
BugEndValue(lx) == Emit(lx, "T_EOL", <<>>)

EndValue(lx) == [Emit(lx, "T_EOL", <<>>) EXCEPT !.mode = "INITIAL"]
MatchValue(lx) ==
  LET c == IF lx.in = <<>> THEN "eof" ELSE Head(lx.in)
  IN CASE c = "eof" -> EndInitial(lx)
       [] c = "nl" -> EndValue(Behind(lx, 1))
       [] c \in Blanks -> Behind(lx, 1)
       [] OTHER -> Emit(Behind(lx, LineEnd(lx.in)), "T_ASSIGN_VAL", FirstN(lx.in, LineEnd(lx.in)))

(***************************************************************************)
(* Strings                                                                 *)
(***************************************************************************)
Add(lx, cs) == [lx EXCEPT !.text = @ \o cs]
EndString(lx) == Emit([lx EXCEPT !.mode = "INITIAL"], "T_WORD_QUOTE", lx.text)
Escaped(lx) ==
  IF Len(lx.in) > 1 /\ lx.in[2] # "nl" THEN Add(Behind(lx, 2), <<lx.in[2]>>) ELSE Behind(lx, 1)
MatchString(lx) ==
  LET c == IF lx.in = <<>> THEN "eof" ELSE Head(lx.in)
  IN CASE c = "eof" -> EndString(lx)
       [] c = "nl" -> EndString(lx)   \* and the nl is read again
       [] c = lx.quote -> EndString(Behind(lx, 1))
       [] c = "\\" -> Escaped(lx)
       [] IsReference(c) -> Add(Behind(lx, 1), Expansion[c])
       [] OTHER -> Add(Behind(lx, 1), <<c>>)

(***************************************************************************)
(* Help texts.  The first line sets the indentation.  The text ends before *)
(* a line that is indented less, and before one that is not at all.        *)
(***************************************************************************)

(* Mutant: a tab is eight wide wherever it stands. *)
BugAcross(ts, c) == IF c = "tab" THEN ts + 8 ELSE ts + 1

Across(ts, c) == IF c = "tab" THEN (ts \div 8) * 8 + 8 ELSE ts + 1
WidthOf(blanks) == FoldLeft(Across, 0, blanks)
EndHelp(lx) == Emit([lx EXCEPT !.mode = "INITIAL"], "T_HELPTEXT", lx.text)

Indent(lx, ts) ==
  IF lx.firstTs = 0 THEN lx
  ELSE IF ts < lx.firstTs THEN EndHelp(lx)
  ELSE Add(lx, [i \in 1 .. ts - lx.firstTs |-> " "])
HelpBlanks(lx, n) == Indent([Behind(lx, n) EXCEPT !.lastTs = WidthOf(FirstN(lx.in, n))],
                            WidthOf(FirstN(lx.in, n)))
HelpNewline(lx) ==
  IF lx.in # <<>> /\ Head(lx.in) \notin Blanks \cup {"nl"} THEN EndHelp(lx) ELSE Add(lx, <<"nl">>)

Trimmed(cs) == FirstN(cs, SelectLastInSeq(cs, LAMBDA c : c \notin Blanks))
HelpWords(lx) ==
  [Add(Behind(lx, LineEnd(lx.in)), Trimmed(FirstN(lx.in, LineEnd(lx.in))))
     EXCEPT !.firstTs = IF @ = 0 THEN lx.lastTs ELSE @]
HelpAfter(lx, n) ==
  IF n < Len(lx.in) /\ lx.in[n + 1] = "nl" THEN HelpNewline(Behind(lx, n + 1))
  ELSE IF n > 0 THEN HelpBlanks(lx, n)
  ELSE HelpWords(lx)
MatchHelp(lx) ==
  IF lx.in = <<>> THEN EndHelp(lx) ELSE HelpAfter(lx, RunOf(lx.in, Blanks))

Match(lx) ==
  CASE lx.mode = "INITIAL" -> MatchInitial(lx)
    [] lx.mode = "ASSIGN_VAL" -> MatchValue(lx)
    [] lx.mode = "STRING" -> MatchString(lx)
    [] lx.mode = "HELP" -> MatchHelp(lx)
    [] lx.mode = "EXPAND" -> lx

Opened(in) ==
  [in |-> in, mode |-> "INITIAL", prev |-> "T_EOL", prevPrev |-> "T_EOL", text |-> <<>>,
   quote |-> "dq", firstTs |-> 0, lastTs |-> 0, out |-> <<>>, file |-> TRUE, whole |-> in]

LexerInit == \E in \in Inputs : lexer = Opened(in)
LexerNext == lexer.prev # "end" /\ lexer' = Match(lexer)

(***************************************************************************)
(* Properties                                                              *)
(***************************************************************************)
RECURSIVE Read(_)
Over(lx) == lx.prev = "end" \/ lx.mode = "EXPAND"
Read(lx) == IF Over(lx) THEN lx.out ELSE Read(Match(lx))
TokensOf(in) == SelectSeq(Read(Opened(in)), LAMBDA t : t.token # "end")

(* A line means the same wherever it stands: the tokens of a file are      *)
(* those of its lines one after the other, and those of the lines before   *)
(* a word that is read for ever.  Not so behind a help text, whose lines   *)
(* mean nothing by themselves; and the line after one is not taken for an  *)
(* assignment.                                                             *)
LinesStandAlone ==
  LET in == lexer.whole
      Ends(i) == in[i] = "nl" /\ (i = 1 \/ in[i - 1] # "\\")
  IN Over(lexer) /\ "help" \notin Range(in) =>
       \A i \in {j \in DOMAIN in : Ends(j)} :
         TokensOf(in) = TokensOf(FirstN(in, i)) \o TokensOf(SubSeq(in, i + 1, Len(in)))

(* A file that ends with a newline is never read for ever. *)
EndedFileEnds == lexer.mode = "EXPAND" => Last(lexer.whole) # "nl"

(* The lines of a text, each as its indentation and its words. *)
Cut(lines, c) ==
  IF c = "nl" THEN Append(lines, <<>>)
  ELSE [lines EXCEPT ![Len(lines)] = Append(@, c)]
LinesIn(text) == FoldLeft(Cut, <<<<>>>>, text)
Column(at, c) == IF c = "tab" THEN CHOOSE to \in at + 1 .. at + 8 : to % 8 = 0 ELSE at + 1
BlanksOf(line) == RunOf(line, Blanks)
Shape(line) ==
  IF Trimmed(line) = <<>> THEN [width |-> -1, words |-> <<>>]
  ELSE [width |-> FoldLeft(Column, 0, FirstN(line, BlanksOf(line))),
        words |-> Trimmed(SubSeq(line, BlanksOf(line) + 1, Len(line)))]
Shapes(text) == [i \in DOMAIN LinesIn(text) |-> Shape(LinesIn(text)[i])]
Moved(shapes, by) ==
  [i \in DOMAIN shapes |-> IF shapes[i].width < 0 THEN shapes[i]
                           ELSE [shapes[i] EXCEPT !.width = @ - by]]
WithoutLast(shapes) == FirstN(shapes, SelectLastInSeq(shapes, LAMBDA l : l.words # <<>>))
Stated(shapes, first) ==
  FirstN(shapes, SelectInSeq(Append(shapes, [width |-> 0, words |-> <<"end">>]),
                            LAMBDA l : l.width >= 0 /\ l.width < first) - 1)
FirstWidth(shapes) == shapes[SelectInSeq(shapes, LAMBDA l : l.width >= 0)].width

(* A help text keeps every line up to the first that is indented less than *)
(* its first one, without that indentation; tabs count to the next column  *)
(* of eight, so they may be mixed with blanks.  (A help text that starts   *)
(* without any indentation is not judged.)                                 *)
HelpIsWhole ==
  LET shapes == Shapes(SubSeq(lexer.whole, 3, Len(lexer.whole)))
      texts == SelectSeq(lexer.out, LAMBDA t : t.token = "T_HELPTEXT")
  IN lexer.prev = "end" /\ Len(lexer.whole) > 2 /\ FirstN(lexer.whole, 2) = <<"help", "nl">>
     /\ (\E i \in DOMAIN shapes : shapes[i].width > 0) /\ FirstWidth(shapes) > 0 =>
       WithoutLast(Shapes(texts[1].text)) =
         WithoutLast(Moved(Stated(shapes, FirstWidth(shapes)), FirstWidth(shapes)))
=================================================================================
