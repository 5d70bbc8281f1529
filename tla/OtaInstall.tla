------------------------------ MODULE OtaInstall ------------------------------
(***************************************************************************)
(* An over-the-air update of nvrd-core and its page: _ota-metadata/        *)
(* install.sh, run by the updater of nvrd-core (pkg/ota, external).        *)
(*                                                                         *)
(* The updater unpacks the payload, runs install.sh with the version of    *)
(* the unit as OTA_FROM_VERSION, and after exit 0 writes the version file  *)
(* and restarts the service.  An attempt that fails, or that a power cut   *)
(* ends, is made again from the start.                                     *)
(*                                                                         *)
(* A file is the version of its content.  The binary is started by procd   *)
(* from the path in the PROG line of the init script: /usr/sbin (dest) or  *)
(* the old place on the data partition (legacy).                           *)
(*                                                                         *)
(* The script never syncs.  What it writes is in the page cache of two     *)
(* file systems, the root overlay and the data partition, each of which    *)
(* reaches its disk in its own time: SyncOverlay and SyncData make the     *)
(* present contents durable, PowerCut falls back to what is durable.  A    *)
(* file system is taken to keep its own order (a journal, with the data of *)
(* a file before its name); between the two there is none.                 *)
(***************************************************************************)
EXTENDS Integers

CONSTANTS
    Last,       \* the versions are 1..Last, shipped one after the other
    Space,      \* bound: how many copies of the binary the overlay has room for
    MaxBreaks   \* bound: power cuts, crashes of the service and failing commands

ASSUME VersionAssumption == Last \in Nat /\ Last >= 1 /\ MaxBreaks \in Nat /\ Space \in Nat

Missing == 0
Versions == 1..Last
Files == Versions \cup {Missing}

VARIABLES
    bin,        \* the binaries at "dest" and "legacy"
    html,       \* index.html
    prog,       \* the PROG line of the init script: "dest" or "legacy"
    running,    \* the nvrd-core process: the path it was started from, its version,
                \* and whether the file it was started from is still there
    version,    \* /etc/vuon_version
    rollback,   \* /root/rollback-ota/<from>: the saved binary and page
    leftovers,  \* temporary copies that nobody removed
    durable,    \* the root overlay as a power cut leaves it
    data,       \* the legacy binary as a power cut leaves it
    stranded,   \* history: a power cut has kept the removal of the legacy binary, on the
                \* data partition, and lost the new PROG line, on the overlay
    failing,    \* the commands that may fail on this unit (its overlay is almost full)
    alone,      \* the updater that ran the script has crashed, and the script runs on
    pc, breaks

disks == <<durable, data, stranded>>
still == <<disks, failing, alone>>     \* what the script itself never changes
vars == <<bin, html, prog, running, version, rollback, leftovers, disks, failing, alone, pc,
          breaks>>

\* The root overlay as programs see it.
Overlay == [dest |-> bin["dest"], html |-> html, prog |-> prog, version |-> version,
            rollback |-> rollback, leftovers |-> leftovers]

\* procd starts what is at the path.
Process(path) == [path |-> path, ver |-> bin[path], linked |-> TRUE]

\* A file of the binary is replaced or removed under the process that runs it.
Replaced(path) == [running EXCEPT !.linked = @ /\ running.path # path]

Init ==
    /\ prog \in {"dest", "legacy"}
    /\ bin \in [{"dest", "legacy"} -> {1, Missing}] /\ bin[prog] = 1
    /\ running = Process(prog)
    /\ html = 1
    /\ version = 1
    /\ rollback = [v \in Versions |-> [bin |-> Missing, html |-> Missing]]
    /\ leftovers = 0
    /\ durable = Overlay /\ data = bin["legacy"] /\ stranded = FALSE
    /\ failing \in SUBSET {"cp", "mv", "sed"}
    /\ alone = FALSE
    /\ pc = "idle" /\ breaks = 0

Goto(from, to) == pc = from /\ pc' = to
Target == version + 1

\* A command may fail while the bound lasts; "die" ends the attempt.
Breaks(command) == command \in failing /\ breaks < MaxBreaks /\ breaks' = breaks + 1
Die(from, command) == Goto(from, "failed") /\ Breaks(command)

-----------------------------------------------------------------------------

\* The payload has been unpacked, and its binary is an ELF file.  The updater is part
\* of nvrd-core: a unit that runs none starts no attempt.
Start ==
    /\ Goto("idle", "backup_bin")
    /\ version < Last /\ running.ver # Missing
    /\ UNCHANGED <<bin, html, prog, running, version, rollback, leftovers, breaks, still>>

\* The binary that is running, by the name of its executable.  The name of one
\* that has been replaced meanwhile ends in " (deleted)", and is no file.
Current ==
    IF running.ver # Missing
      THEN IF running.linked THEN running.ver ELSE Missing
      ELSE IF bin["dest"] # Missing THEN bin["dest"] ELSE bin["legacy"]

\* Mutant of BackupBin: the binary is looked for at its new place only.
BugBackupDest ==
    /\ Goto("backup_bin", "backup_html")
    /\ rollback' = [rollback EXCEPT ![version].bin = bin["dest"]]
    /\ UNCHANGED <<bin, html, prog, running, version, leftovers, breaks, still>>

BackupBin ==
    /\ Goto("backup_bin", "backup_html")
    /\ \/ /\ rollback' = IF Current = Missing THEN rollback
                         ELSE [rollback EXCEPT ![version].bin = Current]
          /\ UNCHANGED breaks
       \/ Breaks("cp") /\ UNCHANGED rollback
    /\ UNCHANGED <<bin, html, prog, running, version, leftovers, still>>

BackupHtml ==
    /\ Goto("backup_html", "copy_bin")
    /\ \/ rollback' = [rollback EXCEPT ![version].html = html] /\ UNCHANGED breaks
       \/ Breaks("cp") /\ UNCHANGED rollback
    /\ UNCHANGED <<bin, html, prog, running, version, leftovers, still>>

\* cp to DEST_BIN.new.$$ || die; chmod || die.  A copy that fails stays behind,
\* and so does every complete one until mv takes it away.
CopyBin ==
    /\ \/ /\ leftovers < Space
          /\ Goto("copy_bin", "mv_bin") /\ leftovers' = leftovers + 1 /\ UNCHANGED breaks
       \/ /\ leftovers < Space
          /\ Die("copy_bin", "cp") /\ leftovers' = leftovers + 1
       \/ /\ leftovers >= Space
          /\ Goto("copy_bin", "failed") /\ UNCHANGED <<leftovers, breaks>>
    /\ UNCHANGED <<bin, html, prog, running, version, rollback, still>>

\* Mutant of MoveBin: a failing mv does not end the attempt.
BugMoveUnchecked ==
    /\ \/ /\ Goto("mv_bin", "copy_html")
          /\ bin' = [bin EXCEPT !["dest"] = Target] /\ running' = Replaced("dest")
          /\ leftovers' = leftovers - 1 /\ UNCHANGED breaks
       \/ Goto("mv_bin", "copy_html") /\ Breaks("mv") /\ UNCHANGED <<bin, running, leftovers>>
    /\ UNCHANGED <<html, prog, version, rollback, still>>

\* mv to DEST_BIN || die
MoveBin ==
    /\ \/ /\ Goto("mv_bin", "copy_html")
          /\ bin' = [bin EXCEPT !["dest"] = Target] /\ running' = Replaced("dest")
          /\ leftovers' = leftovers - 1 /\ UNCHANGED breaks
       \/ Die("mv_bin", "mv") /\ UNCHANGED <<bin, running, leftovers>>
    /\ UNCHANGED <<html, prog, version, rollback, still>>

\* The page, in the same way; its copy is small.
CopyHtml ==
    /\ \/ Goto("copy_html", "mv_html") /\ UNCHANGED breaks
       \/ Die("copy_html", "cp")
    /\ UNCHANGED <<bin, html, prog, running, version, rollback, leftovers, still>>

MoveHtml ==
    /\ \/ Goto("mv_html", "sed") /\ html' = Target /\ UNCHANGED breaks
       \/ Die("mv_html", "mv") /\ UNCHANGED html
    /\ UNCHANGED <<bin, prog, running, version, rollback, leftovers, still>>

\* Mutant of SetProg: the init script is left alone.
BugProgKept ==
    /\ Goto("sed", "unlink")
    /\ UNCHANGED <<bin, html, prog, running, version, rollback, leftovers, breaks, still>>

\* sed -i "s|^PROG=.*|PROG=$DEST_BIN|" is not followed by || die.
SetProg ==
    /\ Goto("sed", "unlink")
    /\ \/ prog' = "dest" /\ UNCHANGED breaks
       \/ Breaks("sed") /\ UNCHANGED prog
    /\ UNCHANGED <<bin, html, running, version, rollback, leftovers, still>>

\* rm -f of the legacy binary; exit 0, to the updater if it is still there
Unlink ==
    /\ Goto("unlink", IF alone THEN "idle" ELSE "version") /\ alone' = FALSE
    /\ bin' = [bin EXCEPT !["legacy"] = Missing] /\ running' = Replaced("legacy")
    /\ UNCHANGED <<html, prog, version, rollback, leftovers, disks, breaks, failing>>

\* die: exit 1, and the updater gives up this attempt.
GiveUp ==
    /\ Goto("failed", "idle") /\ alone' = FALSE
    /\ UNCHANGED <<bin, html, prog, running, version, rollback, leftovers, disks, breaks, failing>>

Install ==
    \/ BackupBin \/ BackupHtml \/ CopyBin \/ MoveBin \/ CopyHtml \/ MoveHtml
    \/ SetProg \/ Unlink \/ GiveUp

-----------------------------------------------------------------------------
(* The updater and the machine around the script (external). *)

WriteVersion ==
    /\ Goto("version", "restart")
    /\ version' = Target
    /\ UNCHANGED <<bin, html, prog, running, rollback, leftovers, breaks, still>>

Restart ==
    /\ Goto("restart", "idle")
    /\ running' = Process(prog)
    /\ UNCHANGED <<bin, html, prog, version, rollback, leftovers, breaks, still>>

\* The service crashes and procd starts it again.  The updater has gone with it, and
\* the script too, or it runs on alone (no attempt is made while it does).
Respawn ==
    /\ breaks < MaxBreaks /\ breaks' = breaks + 1
    /\ running.ver # Missing
    /\ running' = Process(prog)
    /\ \/ pc' = "idle" /\ alone' = FALSE
       \/ pc \notin {"idle", "version", "restart"} /\ alone' = TRUE /\ UNCHANGED pc
    /\ UNCHANGED <<bin, html, prog, version, rollback, leftovers, disks, failing>>

\* The page cache of the overlay, or of the data partition, reaches the disk.
SyncOverlay ==
    /\ durable # Overlay /\ durable' = Overlay
    /\ UNCHANGED <<bin, html, prog, running, version, rollback, leftovers, data, stranded,
                   failing, alone, pc, breaks>>

SyncData ==
    /\ data # bin["legacy"] /\ data' = bin["legacy"]
    /\ UNCHANGED <<bin, html, prog, running, version, rollback, leftovers, durable, stranded,
                   failing, alone, pc, breaks>>

\* Power goes at any step; the unit boots from what the disks hold, and starts whatever
\* the init script names.
PowerCut ==
    /\ breaks < MaxBreaks /\ breaks' = breaks + 1
    /\ pc' = "idle" /\ alone' = FALSE
    /\ bin' = [bin EXCEPT !["dest"] = durable.dest, !["legacy"] = data]
    /\ html' = durable.html /\ prog' = durable.prog /\ version' = durable.version
    /\ rollback' = durable.rollback /\ leftovers' = durable.leftovers
    /\ running' = Process(prog)'
    /\ stranded' = (stranded \/ (prog = "dest" /\ durable.prog = "legacy" /\ data = Missing))
    /\ UNCHANGED <<durable, data, failing>>

\* Every version has been installed, or nobody is left to try again.
Done == (version = Last \/ running.ver = Missing) /\ pc = "idle" /\ UNCHANGED vars

Next ==
    \/ Start \/ Install \/ WriteVersion \/ Restart \/ Respawn
    \/ SyncOverlay \/ SyncData \/ PowerCut \/ Done

Spec == Init /\ [][Next]_vars

\* The updater tries again after a failure, and a script that runs goes on.
Fairness == WF_vars(Start) /\ WF_vars(Install) /\ WF_vars(WriteVersion) /\ WF_vars(Restart)

FairSpec == Spec /\ Fairness

-----------------------------------------------------------------------------

OverlayState ==
    [dest : Files, html : Versions, prog : {"dest", "legacy"}, version : Versions,
     rollback : [Versions -> [bin : Files, html : Files]], leftovers : Nat]

TypeOK ==
    /\ bin \in [{"dest", "legacy"} -> Files]
    /\ html \in Versions
    /\ prog \in {"dest", "legacy"}
    /\ running \in [path : {"dest", "legacy"}, ver : Files, linked : BOOLEAN]
    /\ version \in Versions
    /\ rollback \in [Versions -> [bin : Files, html : Files]]
    /\ leftovers \in Nat
    /\ durable \in OverlayState /\ data \in Files
    /\ stranded \in BOOLEAN /\ alone \in BOOLEAN
    /\ failing \subseteq {"cp", "mv", "sed"}
    /\ pc \in {"idle", "backup_bin", "backup_html", "copy_bin", "mv_bin", "copy_html",
               "mv_html", "sed", "unlink", "version", "restart", "failed"}
    /\ breaks \in 0..MaxBreaks

\* The comments of the script on the migration, "the running process holds its inode
\* until pkg/ota restarts, which then launches the new PROG path": at every moment
\* the path in the init script has a binary that a restart, a respawn or a boot can
\* start.  It takes a sed that works, for its status is not looked at, and it is lost
\* for good where a power cut between the write-back of the two file systems has
\* stranded the unit.  Once the new PROG line is on the disk that can not happen, and
\* the binary it names is on the disk with it.
Startable ==
    "sed" \notin failing =>
        /\ ~ stranded => bin[prog] # Missing
        /\ durable.prog = "dest" => ~ stranded /\ durable.dest # Missing

\* The version file never claims more than what a restart would run and the page
\* on the disk, also after a power cut: it is written last, and only when every fatal
\* step went well.  What a stranded unit would run is nothing.
VersionIsInstalled ==
    /\ "sed" \notin failing /\ ~ stranded => version <= bin[prog]
    /\ version <= html

\* An attempt is under way only while there is a newer version, and its copy of
\* the binary is there to be moved.
StepInv ==
    /\ pc \in {"backup_bin", "backup_html", "copy_bin", "mv_bin", "copy_html", "mv_html",
               "sed", "unlink", "version"} => version < Last
    /\ pc = "mv_bin" => leftovers > 0
    /\ pc \in {"version", "restart", "idle"} => ~ alone

\* What the overlay's disk holds is an earlier state of the overlay, and the removal of
\* the legacy binary gets to the other disk only when PROG has been rewritten; a unit
\* that is stranded runs nothing, and so stays as it is.
DiskInv ==
    /\ prog = "legacy" => version = 1
    /\ durable.prog = "legacy" => durable.version = 1
    /\ prog = "dest" => version <= bin["dest"]
    /\ durable.prog = "dest" => prog = "dest" /\ durable.version <= durable.dest
    /\ prog = "legacy" /\ bin["legacy"] = Missing => stranded
    /\ data = Missing => bin["legacy"] = Missing
    /\ durable.prog = "legacy" /\ data = Missing => prog = "dest" \/ stranded
    /\ stranded => /\ prog = "legacy" /\ durable.prog = "legacy"
                   /\ bin["legacy"] = Missing /\ data = Missing
                   /\ pc = "idle" /\ running.ver = Missing

\* Where the script is, the files it has already replaced are the new ones.
OtaInv ==
    /\ StepInv
    /\ version <= html /\ durable.version <= durable.html
    /\ "sed" \notin failing => DiskInv
    /\ pc \in {"copy_html", "mv_html", "sed", "unlink", "version"} => bin["dest"] = Target
    /\ pc \in {"sed", "unlink", "version"} => html = Target
    /\ pc \in {"unlink", "version"} /\ "sed" \notin failing => prog = "dest"

\* The header of the script, "index.html [...] MUST ship with the tier-aware binary -
\* old UI + new backend is incoherent": whenever no update is under way, the page on
\* the disk belongs to the binary that runs.
UiBelongsToBackend ==
    pc = "idle" /\ running.ver # Missing => running.ver = html

\* The header of step 2, "the binary that is ACTUALLY running": when the first file is
\* about to be replaced, an update that nothing has disturbed so far has saved what
\* the unit runs, wherever it lives, and the page, under the version of the unit.
SavedFirst ==
    pc = "mv_bin" /\ breaks = 0 => rollback[version] = [bin |-> version, html |-> version]

\* Why SavedFirst holds: until the first file is replaced, what runs is what the version
\* file says, and so it is again behind the restart that ends an attempt.
SavedInv ==
    breaks = 0 =>
      /\ ~ alone
      /\ pc \in {"idle", "failed", "backup_bin", "backup_html", "copy_bin", "mv_bin"} =>
           /\ running.linked /\ running.ver = version
           /\ bin[prog] = version /\ html = version
      /\ pc \in {"backup_html", "copy_bin", "mv_bin"} => rollback[version].bin = version
      /\ pc \in {"copy_bin", "mv_bin"} => rollback[version].html = version
      /\ pc \in {"unlink", "version", "restart"} => prog = "dest"
      /\ pc = "restart" => bin["dest"] = version /\ html = version

\* Once nothing breaks any more, the unit gets to the last version, with binary, page
\* and version file in step; unless the copies that failed attempts have left fill the
\* overlay, the init script could not be rewritten, or a power cut stranded the unit.
Converges ==
    <>[]("sed" \notin failing /\ leftovers < Space /\ ~ stranded =>
            version = Last /\ running.ver = Last /\ html = Last)
=============================================================================
