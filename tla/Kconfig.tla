------------------------------- MODULE Kconfig -------------------------------
(***************************************************************************)
(* What the programs built on the Kconfig library have in common: each     *)
(* parses the Kconfig of the image builder, reads .config, changes values  *)
(* and writes the configuration.  KConf, KMconf and KNconf add what each   *)
(* program does in between, Saves what a save goes through.                *)
(***************************************************************************)
EXTENDS KParser, KConfData, Saves

CONSTANT
  Setups    \* the ways a program is started: records with
            \*   prog, mode   the program, and what conf is asked to do
            \*   file, syms   the Kconfig and the order of its symbol table
            \*   config, other, inPlace   the files and the environment found
            \*   fatal        --fatalrecursive
            \*   single, keys    of a menu program: its mode, how many keys it gets

VARIABLES
  prog,    \* the program that runs
  reader,  \* the parser
  st       \* the library

kvars == <<prog, reader, st, savevars>>

KconfigInit(setup) ==
  /\ prog = setup.prog /\ phase = "parse" /\ inPlace = setup.inPlace
  /\ reader = Open(setup.file, setup.syms, setup.fatal)
  /\ st = Loaded(EmptyKconfig(<<>>, FALSE))
  /\ disk = [f \in Files |-> CASE f = ".config" -> setup.config
                               [] f = "other" -> setup.other [] OTHER -> Absent]
  /\ job = NoJob /\ saved = disk[".config"] /\ cuts = 0

(* conf_parse *)
Parsing == phase = "parse" /\ reader.stack # <<>> /\ ~reader.fatal
ReadALine ==
  /\ Parsing /\ ~AtEndOfFile(reader)
  /\ reader' = ReadLine(reader)
  /\ UNCHANGED <<prog, phase, st, disk, job, inPlace, saved, cuts>>
LeaveFile ==
  /\ Parsing /\ AtEndOfFile(reader)
  /\ reader' = EndFile(reader)
  /\ UNCHANGED <<prog, phase, st, disk, job, inPlace, saved, cuts>>
Load(p) == phase' = (IF p.ok THEN "load" ELSE "refused") /\ st' = Loaded(p.k)
FinishParse ==
  /\ phase = "parse" /\ ~Parsing
  /\ Load(Parsed(reader))
  /\ UNCHANGED <<prog, reader, disk, job, inPlace, saved, cuts>>

(* A save by one of the programs.  What the library shows is written, and  *)
(* counts as unchanged once it is in the file.                             *)
Save(library, file, then, fail) ==
  LET w == ConfWrite(library) IN st' = w.st /\ StartSave(w.lines, file, then, fail)
MarkSaved == st' = [st EXCEPT !.changed = FALSE] /\ UNCHANGED <<prog, reader>>
NotYet == UNCHANGED <<prog, reader, st>>

SaveSteps == \/ WriteOver /\ MarkSaved
             \/ NoChange /\ MarkSaved
             \/ RenameNew /\ MarkSaved
             \/ WriteTmp /\ NotYet
             \/ RenameOld /\ NotYet
             \/ SaveFails /\ NotYet
CutOff == Cut /\ NotYet
StartAgain == Restart /\ st' = Loaded(st.k) /\ UNCHANGED <<prog, reader>>

Common == ReadALine \/ LeaveFile \/ FinishParse \/ SaveSteps \/ CutOff \/ StartAgain
=============================================================================
