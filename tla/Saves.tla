-------------------------------- MODULE Saves --------------------------------
(***************************************************************************)
(* How conf_write puts a configuration into a file: the steps of a save,   *)
(* and what a power cut, a kill or a full disk leaves at each of them.     *)
(* Kconfig adds what the programs on the library do in between.            *)
(***************************************************************************)

EXTENDS Naturals

CONSTANT MaxCuts   \* how often the program is cut off or a file fails it

VARIABLES
  phase,   \* "parse", "load", "ask", the steps of a save, "off" or an end
  disk,    \* file -> its content
  job,     \* the save under way: the file, its lines, the phase after it
  inPlace, \* KCONFIG_OVERWRITECONFIG is set
  saved,   \* the last whole configuration that stood in .config
  cuts

savevars == <<phase, disk, job, inPlace, saved, cuts>>

Absent == <<[sym |-> "no such file", val |-> ""]>>

Targets == {".config", "other"}
Files == {".config", ".config.old", "other", "other.old", "tmp"}
OldName(name) == IF name = ".config" THEN ".config.old" ELSE "other.old"
NoJob == [file |-> "tmp", lines |-> <<>>, then |-> "off", fail |-> "off"]

Saving == phase \in {"write", "compare", "rename"}

(***************************************************************************)
(* A save.  The lines are written to a temporary file, or over the old     *)
(* ones with KCONFIG_OVERWRITECONFIG.                                      *)
(***************************************************************************)
StartSave(lines, file, then, fail) ==
  /\ phase' = "write"
  /\ job' = [file |-> file, lines |-> lines, then |-> then, fail |-> fail]

EndSave == phase' = job.then /\ job' = NoJob

WriteOver ==
  /\ phase = "write" /\ inPlace
  /\ disk' = [disk EXCEPT ![job.file] = job.lines]
  /\ saved' = IF job.file = ".config" THEN job.lines ELSE saved
  /\ EndSave /\ UNCHANGED <<inPlace, cuts>>
WriteTmp ==
  /\ phase = "write" /\ ~inPlace
  /\ disk' = [disk EXCEPT !["tmp"] = job.lines] /\ phase' = "compare"
  /\ UNCHANGED <<job, inPlace, saved, cuts>>
NoChange ==
  /\ phase = "compare" /\ disk[job.file] = disk["tmp"]
  /\ disk' = [disk EXCEPT !["tmp"] = Absent]
  /\ EndSave /\ UNCHANGED <<inPlace, saved, cuts>>

(* A rename of a file that is not there does nothing. *)
Renamed(d, from, to) ==
  IF d[from] = Absent THEN d ELSE [d EXCEPT ![to] = d[from], ![from] = Absent]

(* Mutant: the old file is gone before its copy is made. *)
BugFirstRename(d, file) == [d EXCEPT ![file] = Absent]

FirstRename(d, file) == Renamed(d, file, OldName(file))

RenameOld ==
  /\ phase = "compare" /\ disk[job.file] # disk["tmp"]
  /\ disk' = FirstRename(disk, job.file) /\ phase' = "rename"
  /\ UNCHANGED <<job, inPlace, saved, cuts>>
RenameNew ==
  /\ phase = "rename"
  /\ disk' = Renamed(disk, "tmp", job.file)
  /\ saved' = IF job.file = ".config" THEN job.lines ELSE saved
  /\ EndSave /\ UNCHANGED <<inPlace, cuts>>

(* A file or a rename fails: conf_write returns 1. *)
SaveFails ==
  /\ phase \in {"write", "rename"} /\ cuts < MaxCuts
  /\ phase' = job.fail /\ job' = NoJob /\ cuts' = cuts + 1
  /\ UNCHANGED <<disk, inPlace, saved>>

Cut ==
  /\ Saving /\ cuts < MaxCuts
  /\ disk' = IF inPlace THEN [disk EXCEPT ![job.file] = <<>>] ELSE disk
  /\ phase' = "off" /\ job' = NoJob /\ cuts' = cuts + 1
  /\ UNCHANGED <<inPlace, saved>>

(* The program is started again; its temporary file has another name. *)
Restart ==
  /\ phase = "off" /\ phase' = "load"
  /\ disk' = [disk EXCEPT !["tmp"] = Absent]
  /\ UNCHANGED <<job, inPlace, saved, cuts>>

(***************************************************************************)
(* The saves by themselves.  In between a program does what it likes but   *)
(* for the files: only savedefconfig writes one, past conf_write, and that *)
(* is not .config.  What is found and what is written is left open.        *)
(***************************************************************************)
Elsewhere == {"parse", "refused", "load", "draw", "ask", "saved", "not saved", "off",
              "done", "failed", "given up"}

SavesInit ==
  /\ phase = "parse" /\ inPlace \in BOOLEAN
  /\ disk = [f \in Files |-> IF f \in Targets THEN disk[f] ELSE Absent]
  /\ job = NoJob /\ saved = disk[".config"] /\ cuts = 0

BeginSave ==
  /\ phase \in Elsewhere
  /\ \E file \in Targets, then \in Elsewhere, fail \in Elsewhere :
       StartSave(job'.lines, file, then, fail)
  /\ UNCHANGED <<disk, inPlace, saved, cuts>>
Meanwhile ==
  /\ phase \in Elsewhere /\ phase' \in Elsewhere
  /\ \/ UNCHANGED disk
     \/ disk' = [disk EXCEPT !["other"] = disk'["other"]]
  /\ UNCHANGED <<job, inPlace, saved, cuts>>

SavesNext ==
  \/ BeginSave \/ WriteOver \/ WriteTmp \/ NoChange \/ RenameOld \/ RenameNew \/ SaveFails
  \/ Cut \/ Restart \/ Meanwhile
SavesSpec == SavesInit /\ [][SavesNext]_savevars

(* Whatever step of a save is cut off or fails, and whatever was saved to  *)
(* another file in between, the last whole configuration is in .config or  *)
(* in .config.old (the renames at the end of conf_write).                  *)
SavedSurvives == ~inPlace => saved \in {disk[".config"], disk[".config.old"]}
===============================================================================
