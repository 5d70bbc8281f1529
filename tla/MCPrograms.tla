------------------------------- MODULE MCPrograms -------------------------------
(***************************************************************************)
(* The parts that run to their end by themselves, one in each behaviour:   *)
(* the check of a build request, the expressions of Kconfig, its lexer and *)
(* macros, the dialogs of menuconfig and nconfig, the digests, the loader  *)
(* in front of a compressed kernel, and the later steps of a unit's setup. *)
(* program is the one that runs.  Expressions, macros and the lexer keep   *)
(* their state in local, the others in the variables of their modules;     *)
(* none shares any.                                                        *)
(***************************************************************************)
EXTENDS Expr, SkuRequests, Mkhash, LzmaDecode, Dialogs, SetupSteps, TLC

VARIABLES program, local

(***************************************************************************)
(* The expressions: every one of the shapes below is transformed and then  *)
(* freed of duplicates.  Envs are values of their symbols that go together.*)
(***************************************************************************)
MCSymbols == {"A", "B", "S", "T", "I", "y", "m", "n", "0", "1", "2"}
MCConst == {"y", "m", "n", "0", "1", "2"}
MCType == [s \in MCSymbols |-> CASE s \in {"A", "B"} -> "boolean" [] s \in {"S", "T"} -> "tristate"
                                 [] s = "I" -> "int" [] OTHER -> "unknown"]
Strings == <<"", "0", "1", "10", "2", "m", "n", "y">>
MCRank == [t \in Range(Strings) |-> CHOOSE i \in DOMAIN Strings : Strings[i] = t]
MCInt == [t \in {"0", "1", "10", "2"} |-> CASE t = "0" -> 0 [] t = "1" -> 1 [] t = "10" -> 10 [] t = "2" -> 2]
MCHex == [t \in {"0", "1", "10", "2"} |-> CASE t = "0" -> 0 [] t = "1" -> 1 [] t = "10" -> 16 [] t = "2" -> 2]

Word(t) == <<"n", "m", "y">>[t + 1]
Env(a, b, c, i) ==
  [tri |-> [s \in MCSymbols |-> CASE s \in {"A", "B"} -> a [] s = "S" -> b [] s = "T" -> c
                                  [] s = "y" -> 2 [] s = "m" -> 1 [] OTHER -> 0],
   str |-> [s \in MCSymbols |-> CASE s \in {"A", "B"} -> Word(a) [] s = "S" -> Word(b)
                                  [] s = "T" -> Word(c) [] s = "I" -> i [] OTHER -> s]]
Envs == {Env(a, b, c, i) : a \in {0, 2}, b \in 0 .. 2, c \in 0 .. 2, i \in {"1", "10"}}

Tests == {Compare(t, s, c) : t \in {"EQUAL", "UNEQUAL"}, s \in {"A", "S"}, c \in {"y", "m", "n"}}
Leaves == {Symbol(s) : s \in {"A", "S", "T", "y", "m", "n"}} \cup Tests
            \cup {Compare("UNEQUAL", "S", "T"), Compare("LTH", "S", "y"), Compare("GEQ", "I", "2")}
Few == {Symbol("A"), Symbol("S"), Compare("EQUAL", "S", "m"), Compare("UNEQUAL", "S", "y"), Not(Symbol("A"))}
Pairs(X, Y) == {Two(t, a, b) : t \in {"AND", "OR"}, a \in X, b \in Y}
Literals == Leaves \cup {Not(a) : a \in Leaves}
Exprs == Literals \cup Pairs(Literals, Few) \cup {Not(e) : e \in Pairs(Few, Few)}
           \cup Pairs(Pairs(Few, Few), Few)
Others == Few \cup Pairs(Few, Few)

ExprInit == \E e \in Exprs : local = [whole |-> e, e |-> e, done |-> "nothing"]
Simplify ==
  \/ local.done = "nothing" /\ local' = [local EXCEPT !.e = Transform(@), !.done = "transform"]
  \/ local.done = "transform" /\ local' = [local EXCEPT !.e = EliminateDups(@), !.done = "dups"]

(***************************************************************************)
(* Macros: two variables, each assigned twice in any way, and every use.   *)
(***************************************************************************)
Letters(t) == [part |-> "literal", text |-> t]
Ref(call) == <<[part |-> "reference", call |-> call]>>
Var(n) == Ref(<<<<Letters(n)>>>>)
CallOf(name, arg) == Ref(<<<<Letters(name)>>, arg>>)
Statement(op, n, t) == [op |-> op, name |-> n, text |-> t]
Assigned == {<<Letters("x")>>, Var("A"), Var("B"), Var("E1"), Var("1"), CallOf("B", Var("E2"))}
Uses ==
  {Var("A") \o Var("B"), Ref(<<Var("A")>>), Ref(<<<<Letters("error-if")>>, Var("A"), <<Letters("no")>>>>),
   <<[part |-> "unterminated"]>>, CallOf("info", <<>>), Var("lineno") \o Var("filename"),
   CallOf("warning-if", Var("A")), Ref(<<<<Letters("B")>>, Var("A"), <<Letters("no")>>, Var("B"), Var("B")>>)}
Script ==
  {Statement(op, n, t) : op \in {"=", ":=", "+="}, n \in {"A", "B"}, t \in Assigned}
    \cup {Statement("use", "", t) : t \in Uses}
Environs == {[E1 |-> "y"], [E1 |-> "E2", E2 |-> "one", A |-> "z"]}
Shell == [x |-> <<"a", "b">>]
M == INSTANCE Preprocess WITH macros <- local, TooDeep <- 2, MaxArgs <- 4, MaxStatements <- 2,
       Environments <- Environs, ShellOf <- Shell, Statements <- Script

(***************************************************************************)
(* The lexer: files of three lines, and help texts of three lines with the *)
(* line after them.                                                        *)
(***************************************************************************)
File(ls) == FlattenSeq([i \in DOMAIN ls |-> ls[i] \o <<"nl">>])
LineSet ==
  {<<"config", " ", "x">>, <<"x", " ", "=", " ", "y", "#", " ">>, <<"x", ":=">>,
   <<"x", "$E", "y", "=", "y">>, <<"$E", "x", "+=", "dq">>, <<>>, <<" ", "#", "config">>,
   <<"prompt", "dq", "x", "\\", "dq", "sq", "$A", "dq">>, <<"prompt", "sq", "x", "\\">>,
   <<"default", " ", "x", "\\">>, <<"depends", "on", " ", "x", "!=", "y", "?">>,
   <<"y", " ", "x", "=", "y">>}
(* Last lines without a newline; a word with a reference in one is endless. *)
Unended ==
  {<<"$A">>, <<"x", "$E">>, <<"$E", " ", "x">>, <<"x", " ", "=", "$A">>, <<"dq", "$A">>,
   <<"config", " ", "x", "$A">>, <<"config", " ", "x">>, <<"#", "$A">>}
Sources ==
  {File(<<a, b, c>>) : a \in LineSet, b \in LineSet,
                       c \in {<<"x", " ", "=", "y">>, <<"config", " ", "x">>}}
    \cup {a \o b : a \in {<<"x">>, <<"help">>}, b \in {<<>>, <<"nl">>}}
    \cup {File(a) \o b : a \in {<<>>} \cup {<<c>> : c \in LineSet}, b \in Unended}
HelpLines ==
  {<<"x", " ">>, <<" ", "x">>, <<" ", " ", "x", " ", "y">>, <<"tab", "y">>, <<" ", "tab", "y">>,
   <<>>, <<" ", "tab">>, [i \in 1 .. 9 |-> IF i < 9 THEN " " ELSE "#"]}
Helps ==
  {<<"help", "nl">> \o File(<<a, b, c>>) \o d :
     a \in HelpLines, b \in HelpLines, c \in HelpLines, d \in {<<"config", " ", "x">>, <<>>}}
Scanned == Sources \cup Helps
Macros == ("$A" :> <<"x", " ">>) @@ ("$E" :> <<>>)
L == INSTANCE KLexer WITH lexer <- local, Inputs <- Scanned, Expansion <- Macros

(***************************************************************************)
(* The others have their variables, and programs.cfg the sizes.  Digests   *)
(* with a block of 8 bytes, a length of 2 that wraps after 32, and reads   *)
(* around every boundary; a dictionary of 16 distances; lists shorter and  *)
(* longer than the window, every text of up to four characters, a field    *)
(* narrower than its text; and steps 2 to 4 of the setup wizard with two   *)
(* detours from the way through.                                           *)
(***************************************************************************)
MCHalves == -2 .. 6
MCItems == {<<>>, <<"a", "b", "a", "s", "b">>, <<"b", "a">>}
MCTexts == {s \in UNION {[1 .. n -> {"x", "nl"}] : n \in 1 .. 4} : s[Len(s)] = "nl"}
MCInits == {<<>>, <<"a", "b", "c", "d">>}
ASSUME SizesHold ==
  BodySizes /\ HashSizes /\ LzmaWidths /\ ListSizes /\ TextSizes /\ LineSizes /\ SetupInputs

(***************************************************************************)
(* One of them runs, and the others have not begun.                        *)
(***************************************************************************)
AnyBody == [tier |-> Absent, sku |-> Absent, cam_base |-> Absent, cam_max |-> Absent]
Runs(name) == program = name
Init ==
  /\ program \in {"expressions", "requests", "macros", "lexer", "mkhash", "loader", "lists",
                  "textbox", "inputbox", "wizard"}
  /\ HashInit /\ (~Runs("mkhash") => hash.kind = "md5")
  /\ LzmaInit /\ (~Runs("loader") => lz.outSize = 0)
  /\ LxMenuInit /\ (~Runs("lists") => lists = Closed("menu", <<>>))
  /\ LxTextInit /\ (~Runs("textbox") => textbox.buf = <<"nl">> /\ textbox.boxh = 1)
  /\ LxInputInit /\ (~Runs("inputbox") => input.kind = "lx" /\ input.text = <<>>)
  /\ StepsInit /\ (~Runs("wizard") => wizard.unit = Unit("ext4"))
  /\ IF Runs("requests") THEN RequestsInit ELSE posted = AnyBody
  /\ CASE Runs("expressions") -> ExprInit
       [] Runs("macros") -> M!PreprocessInit
       [] Runs("lexer") -> L!LexerInit
       [] OTHER -> local = "nothing"

ExprNext == Runs("expressions") /\ Simplify
MacrosNext == Runs("macros") /\ M!PreprocessNext
LexNext == Runs("lexer") /\ L!LexerNext
LocalNext ==
  (ExprNext \/ MacrosNext \/ LexNext)
  /\ UNCHANGED <<posted, hash, lz, lists, textbox, input, wizard>>
RequestNext ==
  Runs("requests") /\ Retag /\ UNCHANGED <<local, hash, lz, lists, textbox, input, wizard>>
DigestNext ==
  Runs("mkhash") /\ HashNext /\ UNCHANGED <<local, posted, lz, lists, textbox, input, wizard>>
LoaderNext ==
  Runs("loader") /\ LzmaNext /\ UNCHANGED <<local, posted, hash, lists, textbox, input, wizard>>
ListNext ==
  Runs("lists") /\ LxMenuNext /\ UNCHANGED <<local, posted, hash, lz, textbox, input, wizard>>
TextNext ==
  Runs("textbox") /\ LxTextNext /\ UNCHANGED <<local, posted, hash, lz, lists, input, wizard>>
LineNext ==
  Runs("inputbox") /\ LxInputNext /\ UNCHANGED <<local, posted, hash, lz, lists, textbox, wizard>>
WizardNext ==
  Runs("wizard") /\ StepsNext /\ UNCHANGED <<local, posted, hash, lz, lists, textbox, input>>
Next ==
  /\ UNCHANGED program
  /\ \/ LocalNext \/ RequestNext \/ DigestNext \/ LoaderNext
     \/ ListNext \/ TextNext \/ LineNext \/ WizardNext

Spec == Init /\ [][Next]_<<program, local, posted, hash, lz, lists, textbox, input, wizard>>

(***************************************************************************)
(* Properties of expressions                                               *)
(***************************************************************************)
(* Neither rewriting changes what an expression is worth, whatever values  *)
(* its symbols take: a `depends on' means what was written.                *)
ValueKept ==
  program = "expressions" => \A v \in Envs : Value(v, local.e) = Value(v, local.whole)

(* The text of an expression, read by the grammar, has its value: the      *)
(* parentheses that expr_print leaves out were not needed.                 *)
PrintedReadsBack ==
  program = "expressions" =>
    LET read == ReadBack(Printed(local.e, "NONE"))
    IN \A v \in Envs : Value(v, read) = Value(v, local.e)

(* Neither rewriting nor printing changes the meaning. *)
MeaningKept == ValueKept /\ PrintedReadsBack

(* What expr_depends_symbol says holds: when the symbol is n, so is the    *)
(* expression.  The menu tree hangs entries below others by it.            *)
DependsIsSound ==
  program = "expressions" =>
    \A s \in {"A", "S"} : DependsSymbol(local.e, s) =>
      \A v \in Envs : v.tri[s] = no => Value(v, local.e) = no

(* Expressions that expr_eq takes to be equal have one value: an entry     *)
(* hung below another by it shows under the same conditions.               *)
EqualMeansEqual ==
  program = "expressions" /\ local.done = "nothing" =>
    \A f \in Others : ExprEq(local.e, f) =>
      \A v \in Envs : Value(v, local.e) = Value(v, f)

(* menu_finalize hangs an entry below the one before it when striking out  *)
(* what the conditions share leaves y of the second: then the first shows  *)
(* whenever the second does.                                               *)
Dedup(f) == EliminateDups(Transform(TransCompare(f, "UNEQUAL", "n")))
HangsBelowSuperset ==
  program = "expressions" /\ local.done = "nothing" =>
    \A f \in Others : IsYes(EliminateEq(Dedup(local.e), Dedup(f))[2]) =>
      \A v \in Envs : Value(v, local.e) # no => Value(v, f) # no

(* An entry that menu_finalize hangs below another is of no use without    *)
(* it, by each of the three tests that may have put it there.              *)
HangingIsSound == DependsIsSound /\ EqualMeansEqual /\ HangsBelowSuperset

(***************************************************************************)
(* Properties of macros and the lexer, whose parts their own modules state *)
(***************************************************************************)
(* Macro expansion gives up just on variables that refer to themselves;    *)
(* extending a macro is assigning the whole text at once; and no variable  *)
(* of the environment had an influence without being in the list.          *)
MacrosExpand == program = "macros" => M!LoopsEnd /\ M!AppendJoins /\ M!EnvRecorded
(* The tokens of a file are those of its lines, also where a reference in  *)
(* the last word keeps the lexer from ever ending; with a newline at its   *)
(* end a file is read to the end; and a help text ends at the first line   *)
(* that is indented less.                                                  *)
TokensOfLines ==
  program = "lexer" => L!LinesStandAlone /\ L!EndedFileEnds /\ L!HelpIsWhole
=================================================================================
