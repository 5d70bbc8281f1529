-------------------------------- MODULE KParser --------------------------------
(***************************************************************************)
(* How a Kconfig is read: the include stack of lexer.l, the statements of  *)
(* parser.y and conf_parse.  A file is a sequence of lines and a line is a *)
(* record with its keyword in op:                                          *)
(*   config, menuconfig, choice          sym                               *)
(*   menu, comment, mainmenu, modules, optional, help                      *)
(*   if, depends                         expr                              *)
(*   endmenu, endchoice, endif                                             *)
(*   source                              files, what its pattern matches   *)
(*   type                                type                              *)
(*   prompt, visible, reset              cond (Null without an if)         *)
(*   default, def_type                   expr, cond, and type              *)
(*   select, imply                       sym, cond                         *)
(*   range                               sym, rsym, cond                   *)
(* A prompt on the line of a type is a prompt line before the type line.   *)
(*                                                                         *)
(* The reader r holds the Kconfig k it builds and                          *)
(*   r.ctx     the entry whose options are being read                      *)
(*   r.blocks  the keywords the open blocks end with, innermost first      *)
(*   r.stack   the open files [file, line], the one being read first       *)
(*   r.errors  yynerrs; r.fatal after an exit(1) within the parser         *)
(* After an error the parser skips to a place it understands.  What it     *)
(* builds from there on is never used, because conf_parse exits.           *)
(***************************************************************************)
EXTENDS KMenus

CONSTANT Lines   \* file -> the sequence of its lines

EmptyKconfig(order, fatal) ==
  [syms |-> order, prop |-> <<>>, props |-> [s \in Symbols |-> <<>>],
   menu |-> <<NewMenu(NoMenu, NoSymbol, "")>>,
   type |-> [s \in Symbols |-> "unknown"],
   dirDep |-> [s \in Symbols |-> Null], revDep |-> [s \in Symbols |-> Null],
   implied |-> [s \in Symbols |-> Null], members |-> [s \in Symbols |-> <<>>],
   choices |-> {}, choiceVal |-> {}, optional |-> {}, noWrite |-> {},
   modules |-> NoSymbol, recursiveIsError |-> fatal,
   current |-> Root, entry |-> Root, last |-> [menu |-> Root, link |-> "list"]]

(* zconf_initscan *)
Open(file, order, fatal) ==
  [k |-> EmptyKconfig(order, fatal), ctx |-> "none", blocks |-> <<>>,
   stack |-> <<[file |-> file, line |-> 1]>>, errors |-> 0, fatal |-> FALSE]

CurrentFile(r) == Head(r.stack).file
AtEndOfFile(r) == Head(r.stack).line > Len(Lines[CurrentFile(r)])
ThisLine(r) == Lines[CurrentFile(r)][Head(r.stack).line]
NextLine(r) == [r EXCEPT !.stack[1].line = @ + 1]
Failed(r) == [r EXCEPT !.errors = @ + 1, !.ctx = "none"]

(* __zconf_nextfile, for each match of the pattern in its turn: the last   *)
(* one is read first.  A file that is open already ends the program.       *)

(* Mutant: only the file itself is looked for. *)
BugIsOpen(r, file) == CurrentFile(r) = file

IsOpen(r, file) == \E i \in DOMAIN r.stack : r.stack[i].file = file
NextFile(r, file) ==
  IF r.fatal \/ IsOpen(r, file) THEN [r EXCEPT !.fatal = TRUE]
  ELSE [r EXCEPT !.stack = <<[file |-> file, line |-> 1]>> \o @]

(***************************************************************************)
(* Options                                                                 *)
(***************************************************************************)
OptionsOf(ctx) ==
  CASE ctx \in {"config", "menuconfig"} ->
         {"type", "prompt", "default", "def_type", "select", "imply", "range", "modules",
          "depends", "help"}
    [] ctx = "choice" -> {"prompt", "type", "optional", "reset", "default", "depends", "help"}
    [] ctx = "menu" -> {"visible", "depends"}
    [] ctx = "comment" -> {"depends"}
    [] OTHER -> {}

Option(r, line) ==
  LET k == r.k
      s == k.menu[k.entry].sym
      With(new) == [r EXCEPT !.k = new]
  IN CASE line.op = "type" -> With(SetType(k, line.type))
       [] line.op = "prompt" -> With(AddPrompt(k, "PROMPT", line.cond))
       [] line.op = "default" -> With(AddProp(k, "DEFAULT", line.expr, line.cond))
       [] line.op = "def_type" ->
            With(SetType(AddProp(k, "DEFAULT", line.expr, line.cond), line.type))
       [] line.op = "select" -> With(AddProp(k, "SELECT", Symbol(line.sym), line.cond))
       [] line.op = "imply" -> With(AddProp(k, "IMPLY", Symbol(line.sym), line.cond))
       [] line.op = "range" ->
            With(AddProp(k, "RANGE", Compare("RANGE", line.sym, line.rsym), line.cond))
       [] line.op = "modules" ->
            [With([k EXCEPT !.modules = s])
               EXCEPT !.errors = IF k.modules = NoSymbol THEN @ ELSE @ + 1]
       [] line.op = "optional" -> With([k EXCEPT !.optional = @ \cup {s}])
       [] line.op = "reset" -> With(AddProp(k, "RESET", Null, line.cond))
       [] line.op = "depends" -> With(AddDep(k, line.expr))
       [] line.op = "visible" -> With(AddVisibility(k, line.cond))
       [] line.op = "help" -> r

(* The first line that is no option ends the list of them: what follows a  *)
(* menu or a choice goes inside it.                                        *)
CloseOptions(r) ==
  LET k == r.k
      prompt == k.menu[k.entry].prompt
      Menuconfig == IF prompt = NoProp THEN k ELSE [k EXCEPT !.prop[prompt].type = "MENU"]
  IN [r EXCEPT !.ctx = "none",
               !.k = CASE r.ctx = "menuconfig" -> Menuconfig
                       [] r.ctx \in {"menu", "choice"} -> AddMenu(k)
                       [] OTHER -> k]

(***************************************************************************)
(* Statements                                                              *)
(***************************************************************************)
InChoiceBlock(r) == \E i \in DOMAIN r.blocks : r.blocks[i] = "endchoice"

(* zconf_endtoken: a block is closed by its own keyword and in the file it *)
(* was opened in.                                                          *)

(* Mutant: any file may close it. *)
BugCloses(r, op) == op = Head(r.blocks)

Closes(r, op) == op = Head(r.blocks) /\ r.k.menu[r.k.current].file = CurrentFile(r)
EndBlock(r, op) ==
  IF r.blocks = <<>> THEN Failed(r)
  ELSE IF Closes(r, op) THEN [r EXCEPT !.blocks = Tail(@), !.k = EndMenu(@)]
  ELSE Failed([r EXCEPT !.blocks = Tail(@)])

Entry(r, s, ctx) == [r EXCEPT !.k = AddEntry(@, s, CurrentFile(r)), !.ctx = ctx]

Choice(r, c) ==
  LET k == AddEntry(r.k, c, CurrentFile(r))
      marked == [k EXCEPT !.choices = @ \cup {c}, !.noWrite = @ \cup {c}]
  IN [r EXCEPT !.k = AddProp(marked, "CHOICE", Null, Null), !.ctx = "choice",
               !.blocks = <<"endchoice">> \o @]

Statement(r, line) ==
  LET op == line.op
      Prompted(type) == [r EXCEPT !.k = AddPrompt(AddEntry(@, NoSymbol, CurrentFile(r)), type, Null)]
      Optional(s) == [r EXCEPT !.k.optional = @ \cup {s}]
  IN IF op \in {"endmenu", "endchoice", "endif"} THEN EndBlock(r, op)
     ELSE IF InChoiceBlock(r) /\ op \notin {"config", "comment", "if"} THEN Failed(r)
     ELSE CASE op \in {"config", "menuconfig"} -> Entry(Optional(line.sym), line.sym, op)
          [] op = "choice" -> Choice(r, line.sym)
          [] op = "if" ->
               [Entry(r, NoSymbol, "none") EXCEPT !.k = AddMenu(AddDep(@, line.expr)),
                                                  !.blocks = <<"endif">> \o @]
          [] op = "menu" -> [Prompted("MENU") EXCEPT !.ctx = "menu", !.blocks = <<"endmenu">> \o @]
          [] op = "comment" -> [Prompted("COMMENT") EXCEPT !.ctx = "comment"]
          [] op = "source" -> FoldLeft(NextFile, r, line.files)
          [] op = "mainmenu" /\ Len(r.k.menu) = 1 ->
               [r EXCEPT !.k = AddPrompt(@, "MENU", Null)]
          [] OTHER -> Failed(r)

ReadLine(r) ==
  LET line == ThisLine(r)
      next == NextLine(r)
  IN IF line.op \in OptionsOf(r.ctx) THEN Option(next, line)
     ELSE Statement(CloseOptions(next), line)

(* zconf_endfile: on with the line behind the source statement, or, at the *)
(* end of the last file, with the end of the input.                        *)
EndFile(r) ==
  LET end == CloseOptions(r)
  IN IF Len(r.stack) > 1 THEN [r EXCEPT !.stack = Tail(@)]
     ELSE [end EXCEPT !.stack = <<>>, !.errors = IF r.blocks = <<>> THEN @ ELSE @ + 1]

(***************************************************************************)
(* conf_parse after yyparse: the menus are finalized and the dependencies  *)
(* checked.  ok is FALSE when the program exits.                           *)
(***************************************************************************)
WithModulesSym(k) == IF k.modules = NoSymbol THEN [k EXCEPT !.modules = SymbolNo] ELSE k
WithMainPrompt(k) ==
  IF k.menu[Root].prompt # NoProp THEN k ELSE AddPrompt([k EXCEPT !.entry = Root], "MENU", Null)
Checked(k, check) == [ok |-> check.errors = 0, k |-> k, loop |-> check.w.reported]
CheckedAll(k) == Checked(k, CheckAll(k))
Parsed(r) ==
  IF r.fatal \/ r.errors > 0 THEN [ok |-> FALSE, k |-> r.k, loop |-> FALSE]
  ELSE CheckedAll(Finalize(WithMainPrompt(WithModulesSym(r.k)), Root))

(* The library before anything is calculated. *)
Loaded(k) ==
  LET Blank == [s \in Symbols |-> no]
      zero == [s \in Symbols |-> [val |-> NoSymbol, tri |-> no]]
      fixed == [s \in Symbols |-> CASE s = SymbolYes -> [val |-> "y", tri |-> yes]
                                    [] s = SymbolMod -> [val |-> "m", tri |-> mod]
                                    [] s = SymbolNo -> [val |-> "n", tri |-> no]
                                    [] OTHER -> zero[s]]
  IN [k |-> k, curr |-> fixed, def |-> zero, valid |-> Fixed, write |-> {}, user |-> {},
      need |-> {}, visible |-> Blank, dirTri |-> Blank, revTri |-> Blank, impTri |-> Blank,
      propTri |-> [p \in DOMAIN k.prop |-> no], modVal |-> no, changed |-> TRUE,
      warned |-> FALSE]
================================================================================
