------------------------------ MODULE Preprocess ------------------------------
(***************************************************************************)
(* scripts/config/preprocess.c: the macros of a Kconfig file.  A text is a *)
(* sequence of parts, each a literal or a reference $(name,arg,...) with   *)
(* the texts between its commas; what an expansion gives is a string and   *)
(* is never split or expanded again.                                       *)
(*                                                                         *)
(* The state x of the preprocessor:                                        *)
(*   vars      name -> [text, flavor, count], count being exp_count        *)
(*   envs      env_list: the environment variables referred to, in order   *)
(*   getenv    the environment                                             *)
(*   fail      why the program exited, or "no"                             *)
(*   results   what the uses of macros in the file gave                    *)
(*   history   the statements read                                         *)
(***************************************************************************)
EXTENDS Integers, Sequences, SequencesExt, TLC

CONSTANTS
  Environments,   \* the environments the program is started in
  ShellOf,        \* command -> the lines it prints; others print nothing
  Statements,     \* what a file may say: records with op, name, text
  MaxStatements,  \* the length of a file
  TooDeep,        \* the depth at which functions stop; 1000 in the code
  MaxArgs         \* FUNCTION_MAX_ARGS

VARIABLE macros

RECURSIVE Expand(_, _, _), Clause(_, _, _)

Lit(s) == [part |-> "literal", text |-> s]
Ref(call) == [part |-> "reference", call |-> call]
Open == [part |-> "unterminated"]

(* What the freed or uninitialised value of a variable may hold. *)
Garbage == <<Lit("?")>>

Gives(x, s) == [x |-> x, out |-> s]
Exits(x, why) == Gives([x EXCEPT !.fail = why], "")

(***************************************************************************)
(* Expansion.  A clause is an argument of the function around it, or else  *)
(* the first of: a variable, a built-in function, an environment variable. *)
(***************************************************************************)
After(before, r) == [r EXCEPT !.out = before \o @]
AddPart(acc, p, args) ==
  IF acc.x.fail # "no" THEN acc
  ELSE CASE p.part = "literal" -> [acc EXCEPT !.out = @ \o p.text]
         [] p.part = "unterminated" -> Exits(acc.x, "unterminated")
         [] OTHER -> After(acc.out, Clause(acc.x, p.call, args))
Expand(x, text, args) ==
  FoldLeft(LAMBDA acc, p : AddPart(acc, p, args), Gives(x, ""), text)

Counted(x, name, n) == [x EXCEPT !.vars[name].count = @ + n]

(* Mutant: the count is not taken back. *)
BugLeave(r, name) == r

Leave(r, name) == [r EXCEPT !.x = Counted(r.x, name, -1)]
InVariable(x, name, argv) ==
  LET v == x.vars[name]
  IN CASE argv = <<>> /\ v.count > 0 -> Exits(x, "recursive")
       [] argv # <<>> /\ v.count > TooDeep -> Exits(x, "too deep")
       [] OTHER -> Leave(Expand(Counted(x, name, 1), v.text,
                                IF v.flavor = "recursive" THEN argv ELSE <<>>), name)

Arity == [filename |-> 0, lineno |-> 0, info |-> 1, shell |-> 1] @@ ("error-if" :> 2)
           @@ ("warning-if" :> 2)
SetToLine(lines) ==
  FoldLeft(LAMBDA acc, l : IF acc = "" THEN l ELSE acc \o " " \o l, "", lines)
Builtin(x, name, argv) ==
  IF Len(argv) < Arity[name] THEN Exits(x, "too few arguments")
  ELSE IF Len(argv) > Arity[name] THEN Exits(x, "too many arguments")
  ELSE CASE name = "error-if" /\ argv[1] = "y" -> Exits(x, "error")
         [] name = "filename" -> Gives(x, "Kconfig")
         [] name = "lineno" -> Gives(x, ToString(Len(x.history) + 1))
         [] name = "shell" /\ argv[1] \in DOMAIN ShellOf -> Gives(x, SetToLine(ShellOf[argv[1]]))
         [] OTHER -> Gives(x, "")

(* env_expand: a variable that is set is remembered for auto.conf.cmd. *)

(* Mutant: only the first one is remembered. *)
BugRemember(envs, name) == IF envs = <<>> THEN <<name>> ELSE envs

Remember(envs, name) == IF name \in Range(envs) THEN envs ELSE Append(envs, name)
Environment(x, name) ==
  IF name \notin DOMAIN x.getenv THEN Gives(x, "")
  ELSE Gives([x EXCEPT !.envs = Remember(@, name)], x.getenv[name])

Named(x, name, argv) ==
  CASE name \in DOMAIN x.vars -> InVariable(x, name, argv)
    [] name \notin DOMAIN x.vars /\ name \in DOMAIN Arity -> Builtin(x, name, argv)
    [] name \notin DOMAIN x.vars \cup DOMAIN Arity /\ argv = <<>> -> Environment(x, name)
    [] OTHER -> Gives(x, "")

AddArg(list, r) == [x |-> r.x, list |-> Append(list, r.out)]
Called(e) ==
  IF e.x.fail # "no" THEN Gives(e.x, "") ELSE Named(e.x, Head(e.list), Tail(e.list))
Places == <<"1", "2", "3">>
Standing(call, args) == {n \in DOMAIN args \cap DOMAIN Places : call = <<<<Lit(Places[n])>>>>}
Clause(x, call, args) ==
  IF Standing(call, args) # {} THEN Gives(x, args[CHOOSE n \in Standing(call, args) : TRUE])
  ELSE IF Len(call) > MaxArgs THEN Exits(x, "too many arguments")
  ELSE Called(FoldLeft(LAMBDA acc, t : AddArg(acc.list, Expand(acc.x, t, args)),
                       [x |-> x, list |-> <<>>], call))

(***************************************************************************)
(* variable_add.  The old value is freed before the new one is expanded,   *)
(* and that of a new variable is not set yet.  += keeps the flavor.        *)
(***************************************************************************)

(* Mutant: += makes a simple variable recursive. *)
BugFlavorOf(x, name, op) == IF op = ":=" THEN "simple" ELSE "recursive"

FlavorOf(x, name, op) ==
  CASE op = "+=" /\ name \in DOMAIN x.vars -> x.vars[name].flavor
    [] op = ":=" -> "simple"
    [] OTHER -> "recursive"

Put(x, name, text, flavor) ==
  [x EXCEPT !.vars = (name :> [text |-> text, flavor |-> flavor, count |-> 0]) @@ @]
WithText(r, name, old) == [r.x EXCEPT !.vars[name].text = old \o <<Lit(r.out)>>]
Evaluate(x, name, text, old) ==
  IF x.vars[name].flavor = "simple" THEN WithText(Expand(x, text, <<>>), name, old)
  ELSE [x EXCEPT !.vars[name].text = old \o text]
Assign(x, name, text, op) ==
  LET flavor == FlavorOf(x, name, op)
      before == x.vars[name].text
  IN IF op = "+=" /\ name \in DOMAIN x.vars
     THEN Evaluate(Put(x, name, before, flavor), name, text, before \o <<Lit(" ")>>)
     ELSE Evaluate(Put(x, name, Garbage, flavor), name, text, <<>>)

(***************************************************************************)
(* A file of statements, each an assignment or a line that uses macros.    *)
(***************************************************************************)
Result(r) == [r.x EXCEPT !.results = Append(@, r.out)]
Done(x, s) == [x EXCEPT !.history = Append(@, s)]
Perform(x, s) ==
  IF s.op = "use" THEN Result(Expand(x, s.text, <<>>)) ELSE Assign(x, s.name, s.text, s.op)
Started(env) == [vars |-> <<>>, envs |-> <<>>, getenv |-> env, fail |-> "no",
                 results |-> <<>>, history |-> <<>>]

Continued(x, s) == Done(Perform(x, s), s)

PreprocessInit == \E env \in Environments : macros = Started(env)
PreprocessNext ==
  /\ macros.fail = "no" /\ Len(macros.history) < MaxStatements
  /\ \E s \in Statements : macros' = Continued(macros, s)

(***************************************************************************)
(* Properties                                                              *)
(***************************************************************************)

(* The names a text of literals and plain references refers to, in its     *)
(* arguments as well.                                                      *)
RECURSIVE NamesIn(_)
NamesOf(p) ==
  IF p.part # "reference" THEN {}
  ELSE {IF Len(p.call[1]) = 1 /\ p.call[1][1].part = "literal" THEN p.call[1][1].text ELSE "computed"}
         \cup UNION {NamesIn(p.call[i]) : i \in DOMAIN p.call}
NamesIn(text) == UNION {NamesOf(text[i]) : i \in DOMAIN text}

RECURSIVE Reached(_, _)
Reached(x, names) ==
  LET more == names \cup UNION {NamesIn(x.vars[n].text) : n \in names \cap DOMAIN x.vars}
  IN IF more = names THEN names ELSE Reached(x, more)
Round(x, name) == name \in DOMAIN x.vars /\ name \in Reached(x, NamesIn(x.vars[name].text))

(* An expansion is given up as recursive only when a variable it comes to  *)
(* refers back to itself, and it always is then: an expansion ends, and a  *)
(* variable may be used any number of times.                               *)
LoopsEnd ==
  \A s \in Statements :
    LET names == Reached(macros, NamesIn(s.text))
        fail == Expand(macros, s.text, <<>>).x.fail
    IN macros.fail = "no" /\ "computed" \notin names =>
         IF \E n \in names : Round(macros, n) THEN fail # "no"
         ELSE fail \notin {"recursive", "too deep"}

(* A variable that is extended holds what it would hold had it been        *)
(* assigned the whole text at once, be it expanded at the assignment or at *)
(* the use.                                                                *)
Whole(t, u) == t \o <<Lit(" ")>> \o u
ValueOf(x, name) == IF x.fail # "no" THEN Gives(x, "") ELSE Expand(x, <<Ref(<<<<Lit(name)>>>>)>>, <<>>)
AppendJoins ==
  macros.fail = "no" /\ Len(macros.history) < MaxStatements =>
    \A s, u \in {a \in Statements : a.op \in {"=", ":="}} :
      s.name = u.name /\ s.name \notin Reached(macros, NamesIn(s.text \o u.text)) =>
        LET first == Assign(macros, s.name, s.text, s.op)
            two == ValueOf(Assign(first, s.name, u.text, "+="), s.name)
            one == ValueOf(Assign(macros, s.name, Whole(s.text, u.text), s.op), s.name)
        IN first.fail = "no" => two.out = one.out /\ two.x.fail = one.x.fail

(* What the environment is asked for is remembered: a variable that is set *)
(* and not in the list could have any other value and the file would mean  *)
(* the same, so auto.conf need not be made again for it.                   *)
Replayed(x, env) == FoldLeft(Continued, Started(env), x.history)
EnvRecorded ==
  \A e \in DOMAIN macros.getenv \ Range(macros.envs) :
    LET again == Replayed(macros, [macros.getenv EXCEPT ![e] = "changed"])
    IN macros.fail = "no" => again.results = macros.results /\ again.vars = macros.vars
===============================================================================
