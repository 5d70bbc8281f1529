------------------------------ MODULE KConfData ------------------------------
(***************************************************************************)
(* scripts/config/confdata.c: reading a configuration into the symbols and *)
(* writing it out.  A configuration file is a sequence of lines            *)
(* [sym, val]; `# CONFIG_X is not set' is the line with val "n".  sym may  *)
(* be a name the Kconfig does not know.  Absent stands for no file.        *)
(*                                                                         *)
(* The files a save goes through are disk.config (.config), disk.old       *)
(* (.config.old) and disk.tmp.  Comments and headings are left out, and    *)
(* so are auto.conf and the headers: conf_write_autoconf returns before it *)
(* does anything in this build.                                            *)
(***************************************************************************)
EXTENDS KMenus, Saves

RECURSIVE Walk(_, _), Escaped(_), Unescaped(_)

(***************************************************************************)
(* String values between quotes: a quote or a backslash in one is escaped. *)
(* conf_set_sym_val reads up to the first quote that is not.               *)
(***************************************************************************)
Quote == "\""
Backslash == "\\"
Invalid == <<"invalid">>

Escaped(chars) ==
  IF chars = <<>> THEN <<>>
  ELSE (IF Head(chars) \in {Quote, Backslash} THEN <<Backslash, Head(chars)>>
        ELSE <<Head(chars)>>) \o Escaped(Tail(chars))

EscapeStringValue(chars) == <<Quote>> \o Escaped(chars) \o <<Quote>>

Unescaped(chars) ==
  LET After(n) == SubSeq(chars, n + 1, Len(chars))
      Then(c, rest) == IF rest = Invalid THEN Invalid ELSE <<c>> \o rest
  IN IF chars = <<>> THEN Invalid
     ELSE IF Head(chars) = Quote THEN <<>>
     ELSE IF Head(chars) # Backslash THEN Then(Head(chars), Unescaped(After(1)))
     ELSE IF Len(chars) = 1 THEN Invalid
     ELSE Then(chars[2], Unescaped(After(2)))

(***************************************************************************)
(* Reading                                                                 *)
(***************************************************************************)

(* conf_reset: nobody has set anything but the choices. *)
Reset(st) ==
  [st EXCEPT !.user = st.k.choices, !.valid = Fixed,
             !.def = [s \in Symbols |-> [val |-> NoSymbol, tri |-> no]]]

(* conf_set_sym_val.  ok is FALSE for a value the symbol cannot have. *)
SetSymVal(st, s, val) ==
  CASE TypeOf[s] \in Logic /\ val \in Trits /\ ~(TypeOf[s] = "boolean" /\ val = "m") ->
         Succeeds([st EXCEPT !.user = @ \cup {s}, !.def[s].tri = TriOf(val)])
    [] TypeOf[s] \in {"int", "hex", "string"} /\ StringValid(s, val) ->
         Succeeds([st EXCEPT !.user = @ \cup {s}, !.def[s].val = val])
    [] TypeOf[s] = "unknown" -> Succeeds(st)
    [] OTHER -> Fails(st)

(* What a line about a member of a choice says about the choice. *)
MemberSays(st, v, c, t, joined) ==
  CASE t = mod /\ st.def[c].tri = yes ->
         [st EXCEPT !.user = @ \ {c}, !.warned = TRUE, !.def[c].tri = joined]
    [] t = yes -> [st EXCEPT !.def[c] = [val |-> v, tri |-> joined],
                             !.warned = @ \/ st.def[c].tri # no]
    [] OTHER -> [st EXCEPT !.def[c].tri = joined]
MemberRead(st, v) ==
  LET c == ChoiceOf(st, v)
  IN MemberSays(st, v, c, st.def[v].tri, Most(st.def[c].tri, st.def[v].tri))

Known(st, name) == name \in Range(st.k.syms) \ ConstSymbols

(* One line.  The symbol of a line that only says it is not set need not   *)
(* be a boolean, and then nothing comes of it.                             *)
LineSet(st, line) ==
  IF line.val = "n" /\ TypeOf[line.sym] \notin Logic THEN Succeeds(st)
  ELSE SetSymVal(st, line.sym, line.val)
AfterLine(st, set, s) ==
  IF ~set.ok THEN [st EXCEPT !.warned = TRUE]
  ELSE IF IsChoiceValue(st, s) THEN MemberRead(set.st, s) ELSE set.st
ReadConfigLine(st, line) ==
  IF Known(st, line.sym) THEN AfterLine(st, LineSet(st, line), line.sym)
  ELSE [st EXCEPT !.changed = TRUE]

ReadSimple(st, file) == FoldLeft(ReadConfigLine, [Reset(st) EXCEPT !.warned = FALSE], file)

(***************************************************************************)
(* conf_read.  unsaved counts the symbols whose value is not the one that  *)
(* was saved.                                                              *)
(***************************************************************************)
SavedValue(st, s) ==
  IF TypeOf[s] \in Logic THEN st.def[s].tri = Tri(st, s) ELSE st.curr[s].val = st.def[s].val

Unsaved(st, s) ==
  IF s \in st.user /\ s \in st.write THEN ~SavedValue(st, s)
  ELSE s \in st.user \/ s \in st.write

Counted(st, s, unsaved) ==
  [st |-> st, unsaved |-> IF s \notin st.k.noWrite /\ Unsaved(st, s) THEN unsaved + 1 ELSE unsaved]
CountUnsaved(acc, s) == Counted(CalcValue(acc.st, s), s, acc.unsaved)

(* A value of what is not shown is forgotten, when the saved configuration *)
(* and the Kconfig agree, and so is a number out of its range.             *)
HideValue(acc, s) ==
  [acc.st EXCEPT !.user = IF acc.st.visible[s] = no /\ acc.unsaved = 0 THEN @ \ {s} ELSE @]
IfWithin(within, s, unsaved) ==
  IF within.ok THEN [st |-> within.st, unsaved |-> unsaved]
  ELSE [st |-> [within.st EXCEPT !.valid = @ \ {s}, !.user = @ \ {s}], unsaved |-> unsaved + 1]
DropByType(st, s, unsaved) ==
  IF TypeOf[s] \in {"int", "hex", "string"}
  THEN IfWithin(StringWithinRange(st, s, st.def[s].val), s, unsaved)
  ELSE [st |-> st, unsaved |-> unsaved]
DropValue(acc, s) ==
  IF s \notin acc.st.user \/ IsChoiceValue(acc.st, s) THEN acc
  ELSE DropByType(HideValue(acc, s), s, acc.unsaved)

(* file is Absent when it cannot be opened.  That marks the configuration  *)
(* as changed only when no name was asked for: a named file that is not    *)
(* there leaves the mark cleared.                                          *)
CountAll(st) == FoldLeft(CountUnsaved, [st |-> st, unsaved |-> 0], st.k.syms)
DropAll(acc) == FoldLeft(DropValue, acc, acc.st.k.syms)
WithMark(read) == [read.st EXCEPT !.changed = @ \/ read.st.warned \/ read.unsaved > 0]
WithModules(st) == CalcValue(st, st.k.modules)
ReadConfig(st, file, named) ==
  IF file = Absent THEN WithModules([st EXCEPT !.changed = ~named])
  ELSE WithMark(DropAll(CountAll(WithModules(ReadSimple([st EXCEPT !.changed = FALSE], file)))))

(***************************************************************************)
(* Writing                                                                 *)
(***************************************************************************)

(* The menus below the root in the order they are written: in when the     *)
(* walk comes to one, out when it leaves it.                               *)
Walk(k, m) ==
  IF m = NoMenu THEN <<>>
  ELSE <<[in |-> TRUE, menu |-> m]>> \o Walk(k, k.menu[m].list)
         \o <<[in |-> FALSE, menu |-> m]>> \o Walk(k, k.menu[m].next)

PrintSymbol(st, s) == [sym |-> s, val |-> StringValue(st, s)]

(* conf_write: acc holds the lines and the symbols with SYMBOL_WRITTEN. *)
AddLine(acc, s) ==
  IF s \notin acc.st.write THEN acc
  ELSE [acc EXCEPT !.lines = Append(@, PrintSymbol(acc.st, s)), !.written = @ \cup {s}]

(* Mutant: a symbol is written as it was before it was calculated. *)
BugWriteSymbol(acc, s) == AddLine(acc, s)

WriteSymbol(acc, s) ==
  IF IsChoice(acc.st, s) \/ s \in acc.written THEN acc
  ELSE AddLine([acc EXCEPT !.st = CalcValue(@, s)], s)
WriteMenu(acc, step) ==
  LET s == acc.st.k.menu[step.menu].sym
  IN IF s = NoSymbol THEN [acc EXCEPT !.st = MenuIsVisible(@, step.menu).st]
     ELSE IF step.in THEN WriteSymbol(acc, s) ELSE acc

ConfWrite(st) ==
  FoldLeft(WriteMenu, [st |-> IF st.changed THEN st ELSE ClearAllValid(st),
                       lines |-> <<>>, written |-> {}],
           Walk(st.k, st.k.menu[Root].list) \o <<[in |-> FALSE, menu |-> Root]>>)

(* conf_write_defconfig: only what could be set and is not the default. *)
DefaultMember(d, s, choice) ==
  [st |-> d.st, is |-> /\ choice \notin d.st.k.optional /\ d.sym = s
                       /\ TypeOf[s] = "boolean" /\ Tri(d.st, s) = yes]
AgainstDefault(d, s) ==
  IF StringValue(d.st, s) = d.str THEN [st |-> d.st, is |-> TRUE]
  ELSE IF ~IsChoiceValue(d.st, s) THEN [st |-> d.st, is |-> FALSE]
  ELSE DefaultMember(ChoiceDefault(d.st, ChoiceOf(d.st, s)), s, ChoiceOf(d.st, s))

(* Mutant: what the choice would take by itself is never compared. *)
BugIsDefault(st, s) == [st |-> st, is |-> StringValue(st, s) = "n" \/ IsChoiceValue(st, s)]

IsDefault(st, s) == AgainstDefault(StringDefault(st, s), s)

DefconfigLine(acc, s, default) ==
  [st |-> default.st, lines |-> IF default.is THEN acc.lines
                                ELSE Append(acc.lines, PrintSymbol(default.st, s))]
DefconfigSymbol(acc, s) ==
  LET done == [acc.st EXCEPT !.write = @ \ {s}]
  IN IF s \notin acc.st.write THEN acc
     ELSE IF ~IsChangeable(acc.st, s) THEN [acc EXCEPT !.st = done]
     ELSE DefconfigLine(acc, s, IsDefault(done, s))
DefconfigMenu(acc, step) ==
  LET s == acc.st.k.menu[step.menu].sym
  IN IF ~step.in THEN acc
     ELSE IF s = NoSymbol THEN [acc EXCEPT !.st = MenuIsVisible(@, step.menu).st]
     ELSE IF IsChoice(acc.st, s) THEN acc
     ELSE DefconfigSymbol([acc EXCEPT !.st = CalcValue(@, s)], s)

WriteDefconfig(st) ==
  FoldLeft(DefconfigMenu, [st |-> ClearAllValid(st), lines |-> <<>>],
           Walk(st.k, st.k.menu[Root].list))
==============================================================================
