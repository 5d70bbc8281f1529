------------------------------ MODULE MountData ------------------------------
(***************************************************************************)
(* First boot of a unit: files/etc/uci-defaults/96-mount-data carves swap  *)
(* and /mysql out of the unused space of the disk the OS booted from, pins *)
(* both in the fstab and mounts them.                                      *)
(*                                                                         *)
(* The script is one sequential process; what makes it hard is that power  *)
(* may go at any step and that the kernel may not show a new partition on  *)
(* the busy disk.  It is then run again by the uci-defaults runner of      *)
(* OpenWrt (external): a script that exits 0 is deleted, one that exits    *)
(* non-zero is kept for the next boot.                                     *)
(*                                                                         *)
(* Partition table, file systems and swap header reach the disk at once    *)
(* (sgdisk, mkfs.ext4 and mkswap sync before they end).  The overlay, with *)
(* the fstab and the script itself, goes through the page cache: Sync      *)
(* makes it durable, PowerCut falls back to what is durable.               *)
(***************************************************************************)
EXTENDS Integers

CONSTANTS
    SlotCount,    \* entries of the partition table (128)
    ThirdSlots,   \* what slot 3 may hold at first: "free", "other" or "mysql"
    None,         \* no such thing
    MaxCuts       \* bound: how often the power goes in the middle of something

ASSUME SlotAssumption == SlotCount \in Nat /\ SlotCount >= 5
ASSUME NoneAssumption == None \notin 1..SlotCount /\ None \notin {"own", "foreign"}
ASSUME ThirdAssumption == ThirdSlots \subseteq {"free", "other", "mysql"}
ASSUME CutAssumption == MaxCuts \in Nat

Slots == 1..SlotCount

VARIABLES
    disk,       \* the OS disk: can it be found, is it large enough, do sgdisk,
                \* mkfs.ext4 and mkswap fail on it now and then
    foreign,    \* another disk of the machine holds a `mysql' file system
    gpt,        \* the name of the partition in each slot, "free" if none
    visible,    \* the slots the kernel has a device node for
    mysql,      \* the sectors of the data area: file system and database
    swap,       \* the sectors of the swap area: "blank" or "swap"
    overlay,    \* the root overlay as programs see it: script and fstab
    durable,    \* the root overlay as a power cut leaves it
    staged,     \* uci changes not yet committed (in RAM)
    mounted,    \* what /mysql is mounted from; None: it is on the overlay
    pc, rc, myn, swn, cuts

vars == <<disk, foreign, gpt, visible, mysql, swap, overlay, durable, staged, mounted,
          pc, rc, myn, swn, cuts>>
media == <<gpt, mysql, swap>>
files == <<overlay, durable, staged>>

-----------------------------------------------------------------------------

Named(name) == {n \in Slots : gpt[n] = name}
Node(name)  == Named(name) \cap visible

\* Mutant of OwnLabel: the label is looked for on the swap partition.
BugLabelOfSwap == Node("swap") # {} /\ swap = "swap"

\* `block info' reads the superblock of every block device it finds.
OwnLabel == Node("mysql") # {} /\ mysql.fs = "ext4"
Labelled == foreign \/ OwnLabel

EmptyFstab == [mysqlmnt |-> None, swapdev |-> None]

\* What a flashed image, or the eMMC installer stopped at any of its steps, leaves:
\* EFI, root and the BIOS entry in the last slot, perhaps somebody else's partitions
\* or the two named entries, over sectors that may still hold an older data area.
Init ==
    /\ disk \in [found : BOOLEAN, large : BOOLEAN, faulty : BOOLEAN]
    /\ foreign \in BOOLEAN
    /\ \E third \in ThirdSlots :
          gpt = [n \in Slots |-> CASE n = 1 -> "efi"
                                   [] n = 2 -> "rootfs"
                                   [] n = SlotCount -> "bios"
                                   [] n = 3 -> third
                                   [] n = 4 /\ third = "mysql" -> "swap"
                                   [] third = "other" /\ n \in 3..SlotCount-2 -> "other"
                                   [] OTHER -> "free"]
    /\ visible = {n \in Slots : gpt[n] # "free"}
    /\ mysql \in [fs : {"none", "ext4"}, db : BOOLEAN] /\ (mysql.db => mysql.fs = "ext4")
    /\ swap \in {"blank", "swap"}
    /\ overlay = [script |-> TRUE, fstab |-> EmptyFstab]
    /\ durable = overlay
    /\ staged = EmptyFstab
    /\ mounted = None
    /\ pc = "label" /\ rc = 0 /\ myn = None /\ swn = None /\ cuts = 0

Goto(from, to) == pc = from /\ pc' = to

\* return code of provision(): the rest of the script runs in any case.
Return(from, code) == Goto(from, "register") /\ rc' = code

-----------------------------------------------------------------------------
(* provision() *)

\* block info | grep 'LABEL="mysql"' && return 0; then the OS disk is looked up.
CheckLabel ==
    /\ IF Labelled \/ ~ disk.found
         THEN Return("label", 0)
         ELSE Goto("label", "names") /\ UNCHANGED rc
    /\ UNCHANGED <<disk, foreign, media, visible, files, mounted, myn, swn, cuts>>

LowestOf(S) == IF S = {} THEN None ELSE CHOOSE n \in S : \A m \in S : n <= m

\* Mutant of FindNames: entries of an interrupted run are not looked for.
BugNoReuse ==
    /\ Goto("names", "expand")
    /\ myn' = None
    /\ swn' = None
    /\ UNCHANGED <<disk, foreign, media, visible, files, mounted, rc, cuts>>

\* The entries an interrupted run has created are used again, by their names.
FindNames ==
    /\ myn' = LowestOf(Named("mysql"))
    /\ swn' = LowestOf(Named("swap"))
    /\ Goto("names", IF myn' = None THEN "expand" ELSE "partx")
    /\ UNCHANGED <<disk, foreign, media, visible, files, mounted, rc, cuts>>

\* sgdisk -e, then the free space and the two lowest free slots.
Expand ==
    LET free == Named("free")
        low  == LowestOf(free)
        next == LowestOf(free \ {low})
    IN  /\ IF ~ disk.large \/ next = None
             THEN Return("expand", 0) /\ UNCHANGED <<myn, swn>>
             ELSE Goto("expand", "create") /\ myn' = low /\ swn' = next /\ UNCHANGED rc
        /\ UNCHANGED <<disk, foreign, media, visible, files, mounted, cuts>>

\* One sgdisk call writes both entries or none; its status is not looked at.
CreateEntries ==
    /\ Goto("create", "partx")
    /\ \/ gpt' = [gpt EXCEPT ![myn] = "mysql", ![swn] = "swap"]
       \/ disk.faulty /\ UNCHANGED gpt
    /\ UNCHANGED <<disk, foreign, mysql, swap, visible, files, mounted, rc, myn, swn, cuts>>

\* partx -a || partprobe; sleep 1: any of the new nodes may have come up by then.
RegisterNodes ==
    /\ Goto("partx", "mkfs")
    /\ \E new \in SUBSET {n \in Slots : gpt[n] # "free"} : visible' = visible \cup new
    /\ UNCHANGED <<disk, foreign, media, files, mounted, rc, myn, swn, cuts>>

\* The data partition must be there; it is formatted unless it has its label.
MakeFs ==
    /\ IF myn \notin visible
         THEN Return("mkfs", 2) /\ UNCHANGED mysql
         ELSE /\ Goto("mkfs", "mkswap") /\ UNCHANGED rc
              /\ IF OwnLabel
                   THEN UNCHANGED mysql
                   ELSE \/ mysql' = [fs |-> "ext4", db |-> FALSE]
                        \/ disk.faulty /\ UNCHANGED mysql
    /\ UNCHANGED <<disk, foreign, gpt, swap, visible, files, mounted, myn, swn, cuts>>

\* The swap partition is formatted if it is there; else nothing is said.
MakeSwap ==
    /\ Return("mkswap", 0)
    /\ IF swn \in visible /\ swap = "blank"
         THEN swap' = "swap" \/ (disk.faulty /\ UNCHANGED swap)
         ELSE UNCHANGED swap
    /\ UNCHANGED <<disk, foreign, gpt, mysql, visible, files, mounted, myn, swn, cuts>>

-----------------------------------------------------------------------------
(* The rest of the script. *)

\* The first partition with the label, of whichever disk, is pinned by its UUID.
RegisterMysql ==
    /\ Goto("register", "swapdev")
    /\ IF Labelled
         THEN \E which \in (IF OwnLabel THEN {"own"} ELSE {})
                             \cup (IF foreign THEN {"foreign"} ELSE {}) :
                 /\ staged' = [staged EXCEPT !.mysqlmnt = which]
                 /\ mounted' = IF mounted = which THEN None ELSE mounted
         ELSE UNCHANGED <<staged, mounted>>
    /\ UNCHANGED <<disk, foreign, media, visible, overlay, durable, rc, myn, swn, cuts>>

\* findfs PARTLABEL=swap finds a partition by its name, formatted or not; it is
\* pinned by the UUID of its header if it has one, else by its device path.
SwapCandidates ==
    (IF Node("swap") = {} THEN {} ELSE {IF swap = "swap" THEN "own_uuid" ELSE "own_device"})
    \cup (IF foreign THEN {"foreign_uuid"} ELSE {})

RegisterSwap ==
    /\ Goto("swapdev", "commit")
    /\ IF SwapCandidates = {}
         THEN UNCHANGED staged
         ELSE \E which \in SwapCandidates : staged' = [staged EXCEPT !.swapdev = which]
    /\ UNCHANGED <<disk, foreign, media, visible, overlay, durable, mounted, rc, myn, swn, cuts>>

\* uci commit fstab
Commit ==
    /\ Goto("commit", "mount")
    /\ overlay' = [overlay EXCEPT !.fstab = staged]
    /\ UNCHANGED <<disk, foreign, media, visible, durable, staged, mounted, rc, myn, swn, cuts>>

\* What block-mount makes of the fstab.
Mountable(entry) ==
    \/ entry = "own" /\ OwnLabel
    \/ entry = "foreign" /\ foreign
MountedBy(entry) == IF Mountable(entry) THEN entry ELSE None

\* block mount; swapon; mkdir -p /mysql/data/db
Mount ==
    /\ Goto("mount", "exit")
    /\ mounted' = IF mounted # None THEN mounted ELSE MountedBy(overlay.fstab.mysqlmnt)
    /\ UNCHANGED <<disk, foreign, media, visible, files, rc, myn, swn, cuts>>

\* Mutant of Exit: the script always ends with exit 0.
BugAlwaysDone ==
    /\ Goto("exit", "running")
    /\ overlay' = [overlay EXCEPT !.script = FALSE]
    /\ UNCHANGED <<disk, foreign, media, visible, durable, staged, mounted, rc, myn, swn, cuts>>

\* exit 1 keeps the script, exit 0 has the runner delete it.
Exit ==
    /\ Goto("exit", "running")
    /\ overlay' = [overlay EXCEPT !.script = (rc = 2 /\ ~ Labelled)]
    /\ UNCHANGED <<disk, foreign, media, visible, durable, staged, mounted, rc, myn, swn, cuts>>

Script ==
    \/ CheckLabel \/ FindNames \/ Expand \/ CreateEntries \/ RegisterNodes
    \/ MakeFs \/ MakeSwap \/ RegisterMysql \/ RegisterSwap \/ Commit \/ Mount \/ Exit

-----------------------------------------------------------------------------
(* The machine around the script (external). *)

\* nvrd-core opens its database under /mysql once the unit is up.
WriteDatabase ==
    /\ pc = "running" /\ mounted = "own"
    /\ mysql' = [mysql EXCEPT !.db = TRUE]
    /\ UNCHANGED <<disk, foreign, gpt, swap, visible, files, mounted, pc, rc, myn, swn, cuts>>

\* The page cache reaches the disk.
Sync ==
    /\ durable # overlay
    /\ durable' = overlay
    /\ UNCHANGED <<disk, foreign, media, visible, overlay, staged, mounted, pc, rc, myn, swn, cuts>>

\* From off to the uci-defaults runner: the kernel reads the partition table,
\* block-mount the fstab, and the script runs if it is still there.
StartFrom(saved) ==
    /\ UNCHANGED <<disk, foreign, media>>
    /\ overlay' = saved
    /\ durable' = saved
    /\ visible' = {n \in Slots : gpt[n] # "free"}
    /\ staged' = saved.fstab
    /\ mounted' = MountedBy(saved.fstab.mysqlmnt)'
    /\ pc' = IF saved.script THEN "label" ELSE "running"
    /\ rc' = 0 /\ myn' = None /\ swn' = None

PowerCut == cuts < MaxCuts /\ cuts' = cuts + 1 /\ StartFrom(durable)

Reboot == pc = "running" /\ UNCHANGED cuts /\ StartFrom(overlay)

Next == Script \/ WriteDatabase \/ Sync \/ PowerCut \/ Reboot

Spec == Init /\ [][Next]_vars

\* The script runs on, and a unit that is not provisioned yet is rebooted sooner
\* or later; that a clean boot shows every partition is in StartFrom.
Fairness == WF_vars(Script) /\ WF_vars(overlay.script /\ Reboot)

FairSpec == Spec /\ Fairness

-----------------------------------------------------------------------------

Names == {"free", "efi", "rootfs", "bios", "other", "mysql", "swap"}
Fstab == [mysqlmnt : {None, "own", "foreign"},
          swapdev  : {None, "own_uuid", "own_device", "foreign_uuid"}]
FileState == [script : BOOLEAN, fstab : Fstab]

TypeOK ==
    /\ disk \in [found : BOOLEAN, large : BOOLEAN, faulty : BOOLEAN]
    /\ foreign \in BOOLEAN
    /\ gpt \in [Slots -> Names]
    /\ visible \subseteq Slots
    /\ mysql \in [fs : {"none", "ext4"}, db : BOOLEAN]
    /\ swap \in {"blank", "swap"}
    /\ overlay \in FileState /\ durable \in FileState
    /\ staged \in Fstab
    /\ mounted \in {None, "own", "foreign"}
    /\ pc \in {"label", "names", "expand", "create", "partx", "mkfs", "mkswap",
               "register", "swapdev", "commit", "mount", "exit", "running"}
    /\ rc \in {0, 2}
    /\ myn \in Slots \cup {None} /\ swn \in Slots \cup {None}
    /\ cuts \in 0..MaxCuts

\* However often the script is cut short and run again, also when the deletion of
\* the script was lost in the page cache after the unit had been in use, a data
\* area that holds a database is never formatted.
DatabaseIsKept == [][mysql.db => mysql'.db]_vars

\* The script is idempotent: runs that were cut short never leave a second pair of
\* partitions, and the entries of the image are in the slots they had.
OnePair ==
    /\ \A m, n \in Slots : gpt[m] = gpt[n] /\ gpt[m] \in {"mysql", "swap"} => m = n
    /\ Named("mysql") = {} <=> Named("swap") = {}
    /\ gpt[1] = "efi" /\ gpt[2] = "rootfs" /\ gpt[SlotCount] = "bios"

\* When the script has deleted itself for good, a data partition that was created
\* has its file system: a boot that could not show the partition is repeated.  A
\* failing mkfs.ext4 is not noticed.
DoneMeansFormatted ==
    pc = "running" /\ ~ durable.script /\ ~ foreign /\ disk.found /\ ~ disk.faulty =>
        (Named("mysql") # {} => mysql.fs = "ext4")

\* The header of the script, "Idempotent + crash-safe: if a prior boot created the
\* partitions but didn't finish (mkfs/registration), this re-uses the existing GPT
\* entries by name and just formats/registers/mounts": once the script is gone the
\* swap partition that was created has its header too.
DoneMeansSwapReady ==
    pc = "running" /\ ~ durable.script /\ ~ foreign /\ disk.found /\ ~ disk.faulty =>
        (Named("swap") # {} => swap = "swap")

\* What makes it so: only slots that carry a name show up, the script works on the
\* entries it found or has just created, and it creates entries only when the disk
\* has none of them.
KeepInv ==
    /\ OnePair
    /\ mysql.db \/ mounted = "own" => mysql.fs = "ext4"
    /\ \A n \in visible : gpt[n] # "free"
    /\ pc \in {"expand", "create"} => Named("mysql") = {}
    /\ pc = "create" => {myn, swn} \subseteq Named("free") /\ myn # swn
    /\ pc \in {"partx", "mkfs"} => myn \in Named("mysql") \cup Named("free")

\* Why DoneMeansFormatted holds: a script that is gone, in memory or on the disk, had
\* its return code 0 for a reason, on a disk whose tools work.
Formatted == Named("mysql") # {} => mysql.fs = "ext4"
FormattedInv ==
    /\ pc # "running" => overlay.script
    /\ ~ durable.script => ~ overlay.script
    /\ ~ foreign /\ disk.found /\ ~ disk.faulty =>
         /\ ~ overlay.script => Formatted
         /\ pc = "mkswap" => Formatted
         /\ pc \in {"register", "swapdev", "commit", "mount", "exit"} /\ rc = 0 => Formatted

\* There is an area with the label already, or the two entries, or room for them.
HasRoom ==
    \/ foreign
    \/ Named("mysql") # {}
    \/ \E m, n \in Named("free") : m # n

\* A unit with a sound disk that can be found, is large enough and has two free slots
\* ends up with /mysql on a data partition for good.
EndsUpMounted ==
    disk.found /\ disk.large /\ ~ disk.faulty /\ HasRoom ~> [](pc = "running" => mounted # None)
=============================================================================
