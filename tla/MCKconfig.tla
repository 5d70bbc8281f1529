------------------------------ MODULE MCKconfig ------------------------------
(***************************************************************************)
(* The three front ends of the Kconfig library on small Kconfigs.  A setup *)
(* picks the program, the Kconfig and the files it finds; the programs'    *)
(* steps are KConf's, KMconf's and KNconf's.                               *)
(***************************************************************************)
EXTENDS KConf, KNconf

(***************************************************************************)
(* The symbols of all Kconfigs below                                       *)
(***************************************************************************)
Bools == {"MODULES", "FEAT", "ADV", "M1", "M2", "M3", "CH", "OPT", "O1", "O2", "VIS", "X", "TM",
          "W", "K1", "K2", "K3", "KC"}
Tris == {"TRI", "SUB", "LIB", "TC", "T1", "T2", "IMP"}
MCConst == {"y", "m", "n", "1", "5", "9", "7", "b", "c", "0x5"}
MCSymbols == Bools \cup Tris \cup {"NUM", "NAME", "LIMIT", "HX"} \cup MCConst
MCType == [s \in MCSymbols |->
  CASE s \in Bools -> "boolean" [] s \in Tris -> "tristate"
    [] s \in {"NUM", "LIMIT"} -> "int" [] s = "NAME" -> "string" [] s = "HX" -> "hex"
    [] OTHER -> "unknown"]

(* The strings in the order of strcmp, and those that are numbers. *)
Sorted == <<"", "0x5", "1", "5", "7", "9", "ADV", "CH", "FEAT", "HX", "IMP", "K1", "K2", "K3",
            "KC", "LIB", "LIMIT", "M1", "M2", "M3", "MODULES", "NAME", "NUM", "O1", "O2", "OPT",
            "SUB", "T1", "T2", "TC", "TM", "TRI", "VIS", "W", "X", "b", "c", "m", "n", "y">>
MCRank == [t \in Range(Sorted) |-> CHOOSE i \in DOMAIN Sorted : Sorted[i] = t]
MCInt == [t \in {"1", "5", "7", "9"} |->
  CASE t = "1" -> 1 [] t = "5" -> 5 [] t = "7" -> 7 [] t = "9" -> 9]
MCHex == [t \in {"1", "5", "7", "9", "0x5"} |-> IF t = "0x5" THEN 5 ELSE MCInt[t]]
MCPrefixed == [t \in {"1", "5", "7", "9"} |-> "0x5"]

(***************************************************************************)
(* Kconfigs                                                                *)
(***************************************************************************)
F(s, v) == [sym |-> s, val |-> v]
L(op) == [op |-> op]
C(s) == [op |-> "config", sym |-> s]
T(t) == [op |-> "type", type |-> t]
P(e) == [op |-> "prompt", cond |-> e]
D(e) == [op |-> "depends", expr |-> e]
If(e) == [op |-> "if", expr |-> e]
Def(s, e) == [op |-> "default", expr |-> Symbol(s), cond |-> e]
Sel(s, e) == [op |-> "select", sym |-> s, cond |-> e]
Source(files) == [op |-> "source", files |-> files]

(* Modules, a select with a condition and an int with a range. *)
FileA == <<
  C("MODULES"), P(Null), T("boolean"), L("modules"), Def("y", Null),
  L("menu"),
  C("TRI"), P(Null), T("tristate"),
  C("SUB"), P(Null), T("tristate"), D(Symbol("TRI")),
  C("FEAT"), P(Null), T("boolean"), Sel("LIB", Symbol("SUB")),
  C("LIB"), T("tristate"), D(Symbol("MODULES")),
  C("NUM"), P(Symbol("FEAT")), T("int"),
    [op |-> "range", sym |-> "1", rsym |-> "LIMIT", cond |-> Null], Def("5", Null),
  C("LIMIT"), T("int"), Def("7", Symbol("LIB")), Def("9", Null),
  L("endmenu")>>

(* A choice with a default and a member that comes and goes; a string. *)
FileB == <<
  C("ADV"), P(Null), T("boolean"),
  [op |-> "choice", sym |-> "CH"], P(Null), Def("M2", Symbol("ADV")),
  C("M1"), P(Null), T("boolean"),
  C("M2"), P(Null),
  C("M3"), P(Null), D(Symbol("ADV")),
  L("endchoice"),
  C("NAME"), P(Null), T("string"), Def("b", Symbol("M2"))>>

(* A tristate choice that resets, with a boolean member; an imply. *)
FileC == <<
  L("mainmenu"), C("TM"), P(Null), T("boolean"), L("modules"),
  [op |-> "choice", sym |-> "TC"], P(Null), T("tristate"),
    [op |-> "reset", cond |-> Symbol("X")],
  C("T1"), P(Null), T("tristate"), L("help"),
  C("T2"), P(Null), T("tristate"), D(Symbol("TM")),
  C("W"), P(Null), T("boolean"),
  L("endchoice"),
  C("IMP"), T("tristate"), P(Null),
  C("X"), T("boolean"), P(Null), [op |-> "imply", sym |-> "IMP", cond |-> Symbol("T1")]>>

(* An optional choice, a menu that is hidden, an if, a hex and a comment. *)
FileD == <<
  [op |-> "menuconfig", sym |-> "VIS"], P(Null), T("boolean"),
  [op |-> "choice", sym |-> "OPT"], P(Null), T("boolean"), L("optional"),
  C("O1"), P(Null), T("boolean"),
  C("O2"), P(Symbol("VIS")), T("boolean"),
  L("endchoice"),
  L("menu"), [op |-> "visible", cond |-> Symbol("VIS")],
  If(Not(Symbol("O1"))),
  C("HX"), P(Null), T("hex"), Def("0x5", Null),
    [op |-> "range", sym |-> "1", rsym |-> "0x5", cond |-> Symbol("O2")],
  L("endif"),
  L("comment"), D(Symbol("VIS")),
  L("endmenu")>>

(* Included files, whole and not; statements in the wrong place. *)
K(s) == <<C(s), P(Null), [op |-> "def_type", type |-> "boolean", expr |-> Symbol("y"),
                          cond |-> Null]>>
Included == [
  part |-> K("K2"), other |-> <<If(Symbol("K1"))>> \o K("K3") \o <<L("endif")>>,
  two |-> K("K1") \o <<Source(<<"part", "other">>)>>,
  twice |-> <<Source(<<"part">>), Source(<<"part">>)>> \o K("K1"),
  loop |-> <<Source(<<"back">>)>>, back |-> <<Source(<<"loop">>)>>,
  self |-> <<Source(<<"self">>)>>,
  sibling |-> <<Source(<<"part", "withpart">>)>>, withpart |-> <<Source(<<"part">>)>>,
  open |-> <<Source(<<"opens">>), L("endmenu")>>, opens |-> <<L("menu")>> \o K("K1"),
  close |-> <<L("menu"), Source(<<"closes">>)>>, closes |-> K("K1") \o <<L("endmenu")>>,
  unclosed |-> <<If(Symbol("K1"))>> \o K("K1"),
  crossed |-> <<L("menu"), If(Null), L("endmenu"), L("endif")>>,
  stray |-> <<L("endif")>> \o K("K1"),
  crowded |-> <<[op |-> "choice", sym |-> "KC"], L("menu"), L("endmenu"), L("endchoice")>>,
  misplaced |-> <<L("comment"), P(Null)>>,
  modules |-> K("K1") \o <<L("modules")>> \o K("K2") \o <<L("modules")>>]

(* Dependencies that go round, and some that seem to. *)
Loops == [
  plain |-> <<C("K1"), P(Null), T("boolean"), D(Symbol("K2")),
              C("K2"), P(Null), T("boolean"), D(Symbol("K1"))>>,
  chain |-> <<C("K1"), P(Null), T("boolean"), D(Symbol("K2")),
              C("K2"), P(Null), T("boolean"), Def("K3", Null), C("K3"), P(Null), T("boolean")>>,
  selects |-> <<C("K1"), P(Null), T("boolean"), Sel("K2", Null), D(Symbol("K3")),
                C("K2"), T("boolean"), C("K3"), T("boolean"), Def("K2", Null)>>,
  members |-> <<[op |-> "choice", sym |-> "KC"], P(Null), T("boolean"),
                C("K1"), P(Null), D(Symbol("K2")), C("K2"), P(Null), L("endchoice"),
                C("K3"), P(Null), T("boolean")>>,
  outside |-> <<C("K3"), P(Null), T("boolean"), D(Symbol("K2")),
                [op |-> "choice", sym |-> "KC"], P(Symbol("K3")), T("boolean"),
                C("K1"), P(Null), C("K2"), P(Null), L("endchoice")>>,
  default |-> <<C("K1"), T("boolean"), P(Symbol("K2")), Def("K1", Symbol("K3")),
                C("K2"), P(Null), T("boolean"), C("K3"), P(Null), T("boolean")>>]

MCLines == [f \in {"A", "B", "C", "D"} \cup DOMAIN Included \cup DOMAIN Loops |->
  CASE f = "A" -> FileA [] f = "B" -> FileB [] f = "C" -> FileC [] f = "D" -> FileD
    [] f \in DOMAIN Included -> Included[f] [] OTHER -> Loops[f]]

(***************************************************************************)
(* Setups                                                                  *)
(***************************************************************************)
Orders == [A |-> {<<"MODULES", "TRI", "SUB", "FEAT", "LIB", "NUM", "LIMIT">>,
                  <<"LIMIT", "NUM", "LIB", "FEAT", "SUB", "TRI", "MODULES">>},
           B |-> {<<"ADV", "CH", "M1", "M2", "M3", "NAME">>,
                  <<"NAME", "M3", "M2", "M1", "CH", "ADV">>},
           C |-> {<<"TM", "TC", "T1", "T2", "W", "IMP", "X">>,
                  <<"X", "IMP", "W", "T2", "T1", "TC", "TM">>},
           D |-> {<<"VIS", "OPT", "O1", "O2", "HX">>, <<"HX", "O2", "O1", "OPT", "VIS">>}]
Configs == [A |-> {Absent,
                 <<F("MODULES", "y"), F("TRI", "m"), F("SUB", "m"), F("FEAT", "y"), F("NUM", "9")>>,
                 <<F("MODULES", "n"), F("TRI", "y"), F("OLD", "y")>>},
          B |-> {Absent, <<F("ADV", "y"), F("M3", "y"), F("NAME", "c")>>,
                 <<F("ADV", "n"), F("M1", "n"), F("M2", "y")>>},
          C |-> {Absent, <<F("TM", "y"), F("T1", "m"), F("T2", "m"), F("X", "y")>>,
                 <<F("T1", "m"), F("TM", "y"), F("T2", "y")>>},
          D |-> {Absent, <<F("VIS", "y"), F("O1", "n"), F("HX", "0x5")>>,
                 <<F("VIS", "y"), F("O2", "y"), F("HX", "9")>>}]

AllModes == Asking \cup Listing \cup Rewriting \cup SettingAll
              \cup {"savedefconfig", "olddefconfig", "randconfig"}
Start(p, m, f, order, config) ==
  [prog |-> p, mode |-> m, file |-> f, syms |-> order, config |-> config, other |-> Absent,
   inPlace |-> FALSE, fatal |-> FALSE, single |-> FALSE, keys |-> 0]

AnyOrder(f) == CHOOSE order \in Orders[f] : TRUE
Sync == {"syncconfig", "nosilentupdate"}
Configured ==
  UNION {{Start("conf", m, f, AnyOrder(f), config) :
            m \in IF f = "B" THEN AllModes ELSE AllModes \ Sync, config \in Configs[f]} :
         f \in DOMAIN Orders}
Reordered ==
  UNION {{Start("conf", m, f, order, config) :
            m \in SettingAll \cup {"savedefconfig", "olddefconfig"},
            order \in Orders[f], config \in Configs[f]} : f \in DOMAIN Orders}
FromDefconfig ==
  {[Start("conf", "defconfig", "A", order, Absent) EXCEPT !.other = other, !.inPlace = keep] :
     order \in Orders.A, other \in Configs.A, keep \in BOOLEAN}
Saved(f) == CHOOSE config \in Configs[f] : Len(config) = 3
Menus(p) ==
  UNION {{[Start(p, "none", f, AnyOrder(f), config)
             EXCEPT !.other = other, !.inPlace = (f = "C"), !.single = (f = "D"),
                    !.keys = IF f = "D" /\ config = Absent /\ other = Absent
                             THEN 3 ELSE 2] :
            config \in Configs[f], other \in {Absent, Saved(f)}} : f \in DOMAIN Orders}
Longer(p) == {[Start(p, "none", "twice", <<"K1", "K2", "K3">>, <<F("K1", "n")>>)
                 EXCEPT !.keys = 4, !.other = <<F("K2", "n")>>]}
(* A load of a file that is not there, behind a change and before the end. *)
FailedLoad(p) == {[Start(p, "none", "part", <<"K1", "K2", "K3">>, <<F("K2", "n")>>)
                     EXCEPT !.keys = IF p = "mconf" THEN 4 ELSE 5]}
ParsedOnly == {Start("conf", "olddefconfig", f, <<"K1", "K2", "K3">>, Absent) :
                 f \in DOMAIN Included}
Looping == {[Start("conf", "olddefconfig", f, order, Absent) EXCEPT !.fatal = fatal] :
              f \in DOMAIN Loops, fatal \in BOOLEAN,
              order \in {<<"K1", "K2", "K3", "KC">>, <<"KC", "K3", "K2", "K1">>}}
MCSetups == Configured \cup Reordered \cup FromDefconfig \cup Menus("mconf") \cup Menus("nconf")
              \cup Longer("mconf") \cup Longer("nconf")
              \cup FailedLoad("mconf") \cup FailedLoad("nconf") \cup ParsedOnly \cup Looping

MCPatterns == {[matches |-> {"NUM", "M3", "W", "HX"}, whole |-> {}],
               [matches |-> {"SUB", "CH", "O2", "T2", "IMP", "K2"}, whole |-> {"T2"}]}

vars == <<kvars, confvars, nconfvars>>
Init == \E setup \in Setups : KconfigInit(setup) /\ ConfInit(setup) /\ NconfInit(setup)
Next == \/ Common /\ UNCHANGED <<confvars, nconfvars>>
        \/ ConfNext /\ UNCHANGED nconfvars
        \/ MconfNext /\ UNCHANGED <<confvars, leaving>>
        \/ NconfNext /\ UNCHANGED confvars
Spec == Init /\ [][Next]_vars

(***************************************************************************)
(* Properties of what was parsed                                           *)
(***************************************************************************)

(* The blocks of a file are closed in it, each by its own keyword. *)
Opens == [menu |-> "endmenu", choice |-> "endchoice", if |-> "endif"]
Balanced(file) ==
  LET Read(open, line) ==
        CASE line.op \in DOMAIN Opens -> <<Opens[line.op]>> \o open
          [] line.op \in Range(Opens) ->
               IF open # <<>> /\ Head(open) = line.op THEN Tail(open) ELSE <<"wrong">> \o open
          [] OTHER -> open
  IN FoldLeft(Read, <<>>, Lines[file]) = <<>>
Accepted == phase = "load"   \* the Kconfig does not change any more

(* No file is accepted that leaves a block open, closes one it did not     *)
(* open or closes it with the keyword of another (zconf_endtoken).         *)
BlocksBalance == Accepted =>
  \A f \in {st.k.menu[m].file : m \in 2 .. Len(st.k.menu)} : Balanced(f)

(* The include stack holds no file twice, so it is never deeper than there *)
(* are files and an inclusion that goes round ends the program instead of  *)
(* running on (__zconf_nextfile).                                          *)
IncludesEnd == ~reader.fatal =>
  \A i, j \in DOMAIN reader.stack : reader.stack[i].file = reader.stack[j].file => i = j

Below(k) == UNION {{<<m, Children(k, m)[i]>> : i \in DOMAIN Children(k, m)} : m \in DOMAIN k.menu}
IsTree(k, below) ==
  /\ \A x \in below : k.menu[x[2]].parent = x[1]
  /\ {x[2] : x \in below} = 2 .. Len(k.menu)
  /\ \A m \in DOMAIN k.menu : Cardinality(Range(Children(k, m))) = Len(Children(k, m))

(* The tree that menu_finalize leaves holds every entry that was read      *)
(* exactly once, and the parent of an entry is the menu it hangs below:    *)
(* moving entries below the symbol they depend on and lifting those of     *)
(* menus without a prompt loses none.                                      *)
MenuTree == Accepted => IsTree(st.k, Below(st.k))

(* Every symbol has the type its definition gives it, a choice that of its *)
(* first member with one and a member without one that of its choice.      *)
TypesInferred == Accepted =>
  \A s \in Symbols : st.k.props[s] # <<>> => st.k.type[s] = TypeOf[s]

(* What the values of s are calculated from, a choice standing for its     *)
(* members.                                                                *)
Contracted(k, s) ==
  IF s \in k.choiceVal
  THEN k.prop[SelectSeq(k.props[s], LAMBDA p : k.prop[p].type = "CHOICE")[1]].expr.sym ELSE s
Needs(k, s) ==
  LET exprs == <<k.dirDep[s], k.revDep[s], k.implied[s]>>
                 \o FoldLeft(LAMBDA acc, p : acc \o PropExprs(k, s, p), <<>>, k.props[s])
  IN UNION {Range(SymbolsOf(exprs[i])) : i \in DOMAIN exprs} \ (ConstSymbols \cup k.choices)
Edges(k) == {<<Contracted(k, s), Contracted(k, t)>> :
               <<s, t>> \in {e \in Range(k.syms) \X Range(k.syms) : e[2] \in Needs(k, e[1])}}
RECURSIVE Closure(_)
Closure(r) ==
  LET more == r \cup {<<x[1][1], x[2][2]>> : x \in {y \in r \X r : y[1][2] = y[2][1]}}
  IN IF more = r THEN r ELSE Closure(more)
Cyclic(k) == \E e \in Closure(Edges(k)) : e[1] = e[2]

LoopFound(p) == /\ p.loop = Cyclic(p.k)
                /\ p.k.recursiveIsError => (p.ok <=> ~p.loop)

(* sym_check_deps reports a loop exactly when the dependencies go round,   *)
(* whatever the order of the symbol table, and with --fatalrecursive such  *)
(* a Kconfig is refused.                                                   *)
LoopsFound == (phase = "load" \/ phase = "refused") /\ reader.errors = 0 /\ ~reader.fatal =>
  LoopFound(Parsed(reader))

(* What is accepted is whole: its blocks and includes are closed, its tree *)
(* has every entry once, every symbol has its type, and its dependencies   *)
(* go round only if that was said.                                         *)
ParsedWhole == BlocksBalance /\ IncludesEnd /\ MenuTree /\ TypesInferred /\ LoopsFound

(***************************************************************************)
(* Properties of the values                                                *)
(***************************************************************************)

(* A Kconfig whose dependencies go round is loaded after a warning.  What  *)
(* its symbols show depends on the order they are asked for in.            *)
Round == phase # "parse" /\ st.k.menu[2].file \in DOMAIN Loops
Settled ==
  /\ phase = "ask" /\ ~Round
  /\ IF prog = "conf" THEN todo = <<>> \/ Head(todo).do \in Questions ELSE items # NotDrawn
All == CalcSymbols(st, st.k.syms)
Same(x, y) == \A s \in Range(x.k.syms) : x.curr[s] = y.curr[s]
StringsOf(x) == [s \in Range(x.k.syms) |-> StringValue(x, s)]
ValuesOf(x) == StringsOf(CalcSymbols(x, x.k.syms))

(* A number or a string that was typed once more after it had been         *)
(* dropped, and a choice that can be n and lost its mark to a new member:  *)
(* what they show is left from before.                                     *)
Retyped(s) == /\ TypeOf[s] \notin Logic /\ s \in st.user \cap st.valid
              /\ st.visible[s] # no /\ st.curr[s].val # st.def[s].val
Unmarked(c) == /\ c \in st.k.choices \ st.user /\ Tri(st, c) # no
               /\ c \in st.k.optional \/ TypeOf[c] = "tristate"

(* SYMBOL_VALID never covers a stale value: what every symbol shows is     *)
(* what a calculation from the start would give, after any sequence of     *)
(* answers, keys, loads and saves.                                         *)
ValuesAreFresh ==
  Settled /\ (\A s \in Range(st.k.syms) : ~Retyped(s) /\ ~Unmarked(s)) =>
    Same(CalcSymbols(ClearAllValid(st), st.k.syms), All)

(* No logic symbol has a value while its dependencies are n, selected or   *)
(* not.                                                                    *)
DependenciesMet(x) ==
  \A s \in Range(x.k.syms) \ x.k.choiceVal :
    TypeOf[s] \in Logic /\ Tri(x, s) # no => x.dirTri[s] # no


(* Exactly one visible member of a choice that is y is y. *)
OneMember(x) ==
  \A c \in x.k.choices : Tri(x, c) = yes =>
    Cardinality({v \in Range(Members(x, c)) : x.visible[v] # no /\ Tri(x, v) = yes}) = 1

IsInside(x, s, p, hex) ==
  p # NoProp =>
    /\ RangeVal(x, x.k.prop[p].expr.sym, hex) <= ReadNumber(x.curr[s].val, hex)
    /\ ReadNumber(x.curr[s].val, hex) <= RangeVal(x, x.k.prop[p].expr.rsym, hex)
(* A number is within its range, also when the range depends on others. *)
InRange(x) ==
  \A s \in Range(x.k.syms) :
    TypeOf[s] \in {"int", "hex"} => IsInside(x, s, RangeProp(x, s).prop, TypeOf[s] = "hex")

(* Whatever was set, selected, implied, typed and read so far, and in      *)
(* whatever order, the values together are ones the Kconfig allows.        *)
ValuesAreLegal ==
  Settled => LET x == All IN DependenciesMet(x) /\ OneMember(x) /\ InRange(x)

(***************************************************************************)
(* Properties of the programs                                              *)
(***************************************************************************)
Reread == ValuesOf(ReadConfig(Loaded(st.k), disk[".config"], FALSE))

(* What conf wrote gives the same values when it is read again. *)
RoundTrip == prog = "conf" /\ phase = "done" /\ ~Round /\ mode \notin Unwritten => Reread = ValuesOf(st)

(* The minimal configuration of savedefconfig gives them as well, through  *)
(* defconfig.                                                              *)
DefRoundTrip == prog = "conf" /\ phase = "done" /\ ~Round /\ mode = "savedefconfig" =>
  ValuesOf(SetAllNew(ReadConfig(Loaded(st.k), disk["other"], TRUE), "defconfig", NothingDrawn).st)
    = ValuesOf(st)

(* A configuration, whole or minimal, stands for the values it was written *)
(* from.                                                                   *)
WrittenReadsBack == RoundTrip /\ DefRoundTrip

AllSet(x) ==
  \A s \in Range(x.k.syms) : x.visible[s] # no /\ IsChangeable(x, s) => s \in x.user

(* When oldconfig writes, every symbol that can be set has been set. *)
Answered == prog = "conf" /\ phase = "write" /\ mode \in Keeps => AllSet(All)

(* conf goes through the menus again only when the last pass gave a symbol *)
(* its value, so it has done so at most once for each symbol: asking for   *)
(* what became new comes to an end.                                        *)
PassesEnd == prog = "conf" => passes <= Len(st.k.syms) + 2

Takes(f, offer) == Automatic(f, offer) => Numbered(f, offer, 0) # 0

(* A choice conf answers by itself has a member to take: conf_choice would *)
(* go round for ever without one.                                          *)
PickEnds == Walking /\ Head(todo).do = "pick" =>
  Takes(Head(todo), Offered(CalcValue(st, SymOf(st, Head(todo).menu)), Head(todo).menu))

(* Asking comes to an end, by the passes and within a choice, and then     *)
(* everything has been asked.                                              *)
AskingEnds == PassesEnd /\ PickEnds /\ Answered

(* menuconfig and nconfig end without a question or a warning only when    *)
(* the file holds what they show.  Not so where a load of a file that is   *)
(* not there has come after a change: conf_read clears the mark of the     *)
(* change before it opens the file.                                        *)
QuitAsks == prog # "conf" /\ phase = "done" /\ ~lapsed =>
  ValuesOf(ReadConfig(Loaded(st.k), disk[filename], FALSE)) = ValuesOf(st)

(* A jump from the results of a search shows the entry jumped to, unless   *)
(* it is a member of a choice: until the next key, which may hide it.      *)
JumpShown ==
  /\ prog # "conf" /\ phase = "ask" /\ leaving = "no" /\ windows # <<>> /\ items # NotDrawn
  /\ Top.jumped = keys /\ SymbolAt(st, Top.menu) \notin st.k.choices
  => \E i \in DOMAIN items : items[i].menu = Top.active
===============================================================================
