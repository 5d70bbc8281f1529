--------------------------- MODULE MountData_proofs ---------------------------
(***************************************************************************)
(* The first-boot script keeps the data it finds and creates its two       *)
(* partitions once, for any size of the partition table, any number of     *)
(* power cuts and tools that fail at any call.                             *)
(***************************************************************************)
EXTENDS MountData, WellFoundedInduction, TLAPS

LEMMA LowestIn ==
    ASSUME NEW S \in SUBSET Slots
    PROVE  IF S = {} THEN LowestOf(S) = None ELSE LowestOf(S) \in S
<1>1. CASE S = {}
  BY <1>1 DEF LowestOf
<1>2. CASE S # {}
  <2>1. S \subseteq Nat
    BY SlotAssumption DEF Slots
  <2>2. \E x \in S : \A y \in S : <<y, x>> \notin OpToRel(<, Nat)
    BY <1>2, <2>1, NatLessThanWellFounded, WFMin, Zenon
  <2>3. \E n \in S : \A m \in S : n <= m
    <3>1. PICK x \in S : \A y \in S : <<y, x>> \notin OpToRel(<, Nat)
      BY <2>2
    <3>2. \A y \in S : ~ (y < x)
      BY <2>1, <3>1, Zenon DEF OpToRel
    <3> QED BY <2>1, <3>2
  <2> QED BY <1>2, <2>3 DEF LowestOf
<1> QED BY <1>1, <1>2

\* The state of the unit always has the shape that TypeOK describes.
THEOREM TypeCorrect == Spec => []TypeOK
<1> USE SlotAssumption, NoneAssumption, ThirdAssumption, CutAssumption DEF Fstab, FileState, Names
<1>1. Init => TypeOK
  <2> SUFFICES ASSUME Init PROVE TypeOK
    OBVIOUS
  <2>1. PICK third \in ThirdSlots :
          gpt = [n \in Slots |-> CASE n = 1 -> "efi"
                                  [] n = 2 -> "rootfs"
                                  [] n = SlotCount -> "bios"
                                  [] n = 3 -> third
                                  [] n = 4 /\ third = "mysql" -> "swap"
                                  [] third = "other" /\ n \in 3..SlotCount-2 -> "other"
                                  [] OTHER -> "free"]
    BY DEF Init
  <2>2. gpt \in [Slots -> Names]
    BY <2>1
  <2>3. EmptyFstab \in Fstab
    BY DEF EmptyFstab
  <2>4. overlay \in FileState /\ durable \in FileState /\ staged \in Fstab
    BY <2>3 DEF Init
  <2>5. /\ disk \in [found : BOOLEAN, large : BOOLEAN, faulty : BOOLEAN] /\ foreign \in BOOLEAN
        /\ mysql \in [fs : {"none", "ext4"}, db : BOOLEAN] /\ swap \in {"blank", "swap"}
    BY DEF Init
  <2>6. visible \subseteq Slots
    BY DEF Init
  <2>7. mounted = None /\ pc = "label" /\ rc = 0 /\ myn = None /\ swn = None /\ cuts = 0
    BY DEF Init
  <2> QED BY <2>2, <2>4, <2>5, <2>6, <2>7 DEF TypeOK
<1>2. ASSUME TypeOK, [Next]_vars PROVE TypeOK'
  <2> USE <1>2 DEF media, files, Goto, Return
  <2>1. CASE UNCHANGED vars
    BY <2>1 DEF vars, TypeOK
  <2>2. CASE CheckLabel
    BY <2>2 DEF CheckLabel, TypeOK
  <2>3. CASE FindNames
    BY <2>3, LowestIn DEF FindNames, TypeOK, Named
  <2>4. CASE Expand
    <3>1. /\ LowestOf(Named("free")) \in Slots \cup {None}
          /\ LowestOf(Named("free") \ {LowestOf(Named("free"))}) \in Slots \cup {None}
      BY LowestIn DEF Named
    <3> QED BY <2>4, <3>1 DEF Expand, TypeOK
  <2>5. CASE CreateEntries
    BY <2>5 DEF CreateEntries, TypeOK
  <2>6. CASE RegisterNodes
    BY <2>6 DEF RegisterNodes, TypeOK
  <2>7. CASE MakeFs
    <3>1. mysql' = mysql \/ mysql' = [fs |-> "ext4", db |-> FALSE]
      BY <2>7 DEF MakeFs
    <3>2. [fs |-> "ext4", db |-> FALSE] \in [fs : {"none", "ext4"}, db : BOOLEAN]
      OBVIOUS
    <3>3. mysql' \in [fs : {"none", "ext4"}, db : BOOLEAN]
      BY <3>1, <3>2, Zenon DEF TypeOK
    <3> QED BY <2>7, <3>3 DEF MakeFs, TypeOK
  <2>8. CASE MakeSwap
    BY <2>8 DEF MakeSwap, TypeOK
  <2>9. CASE RegisterMysql
    BY <2>9 DEF RegisterMysql, TypeOK
  <2>10. CASE RegisterSwap
    BY <2>10 DEF RegisterSwap, SwapCandidates, TypeOK
  <2>11. CASE Commit
    <3>1. overlay' \in FileState
      BY <2>11 DEF Commit, TypeOK
    <3> QED BY <2>11, <3>1 DEF Commit, TypeOK
  <2>12. CASE Mount
    BY <2>12 DEF Mount, MountedBy, TypeOK
  <2>13. CASE Exit
    <3>1. (rc = 2 /\ ~ Labelled) \in BOOLEAN
      OBVIOUS
    <3>2. overlay' \in FileState
      BY <2>13, <3>1 DEF Exit, TypeOK
    <3> QED BY <2>13, <3>2 DEF Exit, TypeOK
  <2>14. CASE WriteDatabase \/ Sync
    <3>1. CASE WriteDatabase
      <4>1. mysql' \in [fs : {"none", "ext4"}, db : BOOLEAN]
        BY <3>1 DEF WriteDatabase, TypeOK
      <4> QED BY <3>1, <4>1 DEF WriteDatabase, TypeOK
    <3>2. CASE Sync
      BY <3>2 DEF Sync, TypeOK
    <3> QED BY <2>14, <3>1, <3>2
  <2>15. ASSUME NEW saved \in FileState, StartFrom(saved), cuts' \in 0..MaxCuts PROVE TypeOK'
    BY <2>15 DEF StartFrom, MountedBy, TypeOK
  <2>16. CASE PowerCut
    BY <2>15, <2>16 DEF PowerCut, TypeOK
  <2>17. CASE Reboot
    BY <2>15, <2>17 DEF Reboot, TypeOK
  <2> QED
    BY <2>1, <2>2, <2>3, <2>4, <2>5, <2>6, <2>7, <2>8, <2>9, <2>10, <2>11, <2>12, <2>13,
       <2>14, <2>16, <2>17 DEF Next, Script
<1> QED BY <1>1, <1>2, PTL DEF Spec

-----------------------------------------------------------------------------

\* A step that leaves the disk alone and does not lead into the steps that create
\* and format partitions keeps the invariant.
LEMMA MediaKept ==
    ASSUME KeepInv, UNCHANGED media, visible' \subseteq visible \/ \A n \in visible' : gpt[n] # "free",
           mounted' = "own" => mounted = "own" \/ OwnLabel,
           pc' \notin {"expand", "create", "partx", "mkfs"}
    PROVE  KeepInv'
BY DEF KeepInv, OnePair, Named, OwnLabel, media

THEOREM KeepInvariance == Spec => []KeepInv
<1> USE SlotAssumption, NoneAssumption, ThirdAssumption
<1>1. Init => KeepInv
  <2> SUFFICES ASSUME Init PROVE KeepInv
    OBVIOUS
  <2>1. PICK third \in ThirdSlots :
          gpt = [n \in Slots |-> CASE n = 1 -> "efi"
                                  [] n = 2 -> "rootfs"
                                  [] n = SlotCount -> "bios"
                                  [] n = 3 -> third
                                  [] n = 4 /\ third = "mysql" -> "swap"
                                  [] third = "other" /\ n \in 3..SlotCount-2 -> "other"
                                  [] OTHER -> "free"]
    BY DEF Init
  <2>2. \A n \in Slots : /\ gpt[n] = "mysql" <=> n = 3 /\ third = "mysql"
                         /\ gpt[n] = "swap" <=> n = 4 /\ third = "mysql"
    BY <2>1 DEF Slots
  <2>3. gpt[1] = "efi" /\ gpt[2] = "rootfs" /\ gpt[SlotCount] = "bios"
    BY <2>1 DEF Slots
  <2>4. 3 \in Slots /\ 4 \in Slots
    BY DEF Slots
  <2>5. OnePair
    BY <2>2, <2>3, <2>4 DEF OnePair, Named
  <2> QED BY <2>5 DEF Init, KeepInv
<1>2. ASSUME TypeOK, KeepInv, [Next]_vars PROVE KeepInv'
  <2> USE <1>2 DEF media, Goto, Return
  <2>1. CASE UNCHANGED vars
    BY <2>1 DEF vars, KeepInv, OnePair, Named
  <2>2. CASE CheckLabel
    BY <2>2 DEF CheckLabel, KeepInv, OnePair, Named
  <2>3. CASE FindNames
    <3>1. IF Named("mysql") = {} THEN myn' = None ELSE myn' \in Named("mysql")
      BY <2>3, LowestIn DEF FindNames, Named
    <3>2. Named("mysql") # {} => myn' # None
      BY <3>1 DEF Named, Slots
    <3> QED BY <2>3, <3>1, <3>2 DEF FindNames, KeepInv, OnePair, Named
  <2>4. CASE Expand
    <3> DEFINE free == Named("free")
               low  == LowestOf(free)
               next == LowestOf(free \ {low})
    <3>1. next # None => low \in free /\ next \in free /\ next # low
      <4>1. free \subseteq Slots /\ free \ {low} \subseteq Slots
        BY DEF Named
      <4>2. next # None => next \in free \ {low}
        BY <4>1, LowestIn
      <4>3. free # {} => low \in free
        BY <4>1, LowestIn
      <4> QED BY <4>2, <4>3
    <3>2. CASE ~ disk.large \/ next = None
      BY <2>4, <3>2, MediaKept DEF Expand
    <3>3. CASE disk.large /\ next # None
      BY <2>4, <3>1, <3>3 DEF Expand, KeepInv, OnePair, Named
    <3> QED BY <3>2, <3>3
  <2>5. CASE CreateEntries
    <3>1. CASE gpt' = gpt
      BY <2>5, <3>1 DEF CreateEntries, KeepInv, OnePair, Named
    <3>2. CASE gpt' = [gpt EXCEPT ![myn] = "mysql", ![swn] = "swap"]
      <4>1. /\ pc = "create" /\ pc' = "partx" /\ myn' = myn /\ swn' = swn
            /\ mysql' = mysql /\ visible' = visible /\ mounted' = mounted
        BY <2>5 DEF CreateEntries
      <4>2. /\ myn \in Slots /\ swn \in Slots /\ myn # swn
            /\ gpt[myn] = "free" /\ gpt[swn] = "free"
            /\ \A n \in Slots : gpt[n] # "mysql" /\ gpt[n] # "swap"
        BY <4>1 DEF KeepInv, OnePair, Named
      <4>3. /\ \A n \in Slots : gpt'[n] = IF n = myn THEN "mysql"
                                         ELSE IF n = swn THEN "swap" ELSE gpt[n]
            /\ 1 \in Slots /\ 2 \in Slots /\ SlotCount \in Slots
        BY <3>2, <4>2 DEF TypeOK, Slots
      <4>4. OnePair'
        BY <4>2, <4>3 DEF KeepInv, OnePair, Named
      <4>5. \A n \in visible' : gpt'[n] # "free"
        BY <4>1, <4>3 DEF KeepInv, TypeOK
      <4>6. myn' \in Named("mysql")'
        BY <4>1, <4>2, <4>3 DEF Named
      <4> QED BY <4>1, <4>4, <4>5, <4>6 DEF KeepInv
    <3> QED BY <2>5, <3>1, <3>2 DEF CreateEntries
  <2>6. CASE RegisterNodes
    BY <2>6 DEF RegisterNodes, KeepInv, OnePair, Named
  <2>7. CASE MakeFs
    BY <2>7 DEF MakeFs, KeepInv, OnePair, Named
  <2>8. CASE MakeSwap
    BY <2>8 DEF MakeSwap, KeepInv, OnePair, Named
  <2>9. CASE RegisterMysql \/ RegisterSwap \/ Commit \/ Mount \/ Exit
    BY <2>9, MediaKept
    DEF RegisterMysql, RegisterSwap, Commit, Mount, MountedBy, Mountable, Exit
  <2>10. CASE WriteDatabase
    <3>1. pc' = pc /\ gpt' = gpt /\ visible' = visible /\ pc = "running" /\ mounted' = mounted
      BY <2>10 DEF WriteDatabase
    <3>2. mysql'.fs = "ext4"
      <4>1. mysql.fs = "ext4"
        BY <2>10 DEF WriteDatabase, KeepInv
      <4> QED BY <2>10, <4>1 DEF WriteDatabase, TypeOK
    <3> QED BY <2>10, <3>1, <3>2 DEF KeepInv, OnePair, Named
  <2>11. CASE Sync
    BY <2>11 DEF Sync, KeepInv, OnePair, Named
  <2>12. CASE PowerCut \/ Reboot
    <3>1. ASSUME NEW saved, StartFrom(saved) PROVE KeepInv'
      <4>1. /\ visible' = {n \in Slots : gpt[n] # "free"} /\ UNCHANGED media
            /\ pc' \in {"label", "running"}
        BY <3>1 DEF StartFrom
      <4>2. mounted' = "own" => OwnLabel'
        BY <3>1 DEF StartFrom, MountedBy, Mountable
      <4> QED BY <4>1, <4>2 DEF KeepInv, OnePair, Named, OwnLabel
    <3> QED BY <2>12, <3>1 DEF PowerCut, Reboot
  <2> QED
    BY <2>1, <2>2, <2>3, <2>4, <2>5, <2>6, <2>7, <2>8, <2>9, <2>10, <2>11, <2>12
    DEF Next, Script
<1> QED BY <1>1, <1>2, TypeCorrect, PTL DEF Spec

\* Interrupted and repeated runs never leave a second pair of partitions, nor
\* touch the entries the image came with.
THEOREM OnlyOnePair == Spec => []OnePair
<1>1. KeepInv => OnePair
  BY DEF KeepInv
<1> QED BY <1>1, KeepInvariance, PTL

\* No step of the script, at any crash or repetition, formats a data area that
\* holds a database: where it formats, the entry shows up under its name, and a
\* database sits in a file system with the label.
THEOREM KeepsDatabase == Spec => DatabaseIsKept
<1>1. ASSUME TypeOK, KeepInv, [Next]_vars PROVE [mysql.db => mysql'.db]_vars
  <2> USE <1>1 DEF media
  <2>1. CASE MakeFs
    <3>1. CASE myn \in visible /\ mysql.db
      <4>1. myn \in Node("mysql")
        BY <2>1, <3>1 DEF MakeFs, Goto, Return, KeepInv, Named, Node
      <4>2. OwnLabel
        BY <3>1, <4>1 DEF OwnLabel, KeepInv
      <4> QED BY <2>1, <3>1, <4>2 DEF MakeFs
    <3>2. CASE myn \notin visible
      BY <2>1, <3>2 DEF MakeFs
    <3> QED BY <3>1, <3>2
  <2>2. CASE WriteDatabase
    BY <2>2 DEF WriteDatabase, TypeOK
  <2>3. CASE Next /\ ~ MakeFs /\ ~ WriteDatabase
    BY <2>3 DEF Next, Script, CheckLabel, FindNames, Expand, CreateEntries, RegisterNodes,
                MakeSwap, RegisterMysql, RegisterSwap, Commit, Mount, Exit, Sync, PowerCut,
                Reboot, StartFrom
  <2> QED BY <2>1, <2>2, <2>3
<1> QED BY <1>1, TypeCorrect, KeepInvariance, PTL DEF Spec, DatabaseIsKept

\* The inductive invariant behind DoneMeansFormatted.
THEOREM FormattedInvariance == Spec => []FormattedInv
<1>1. Init => FormattedInv
  <2> SUFFICES ASSUME Init PROVE FormattedInv
    OBVIOUS
  <2>1. overlay.script /\ durable.script /\ pc = "label"
    BY DEF Init
  <2> QED BY <2>1 DEF FormattedInv
<1>2. ASSUME TypeOK, KeepInv, FormattedInv, [Next]_vars PROVE FormattedInv'
  <2> USE <1>2 DEF media, files, Goto, Return
  <2>1. CASE UNCHANGED vars
    BY <2>1 DEF vars, FormattedInv, Formatted, Named
  <2>2. CASE CheckLabel
    <3>1. Labelled /\ ~ foreign => Formatted
      BY DEF Labelled, OwnLabel, Formatted
    <3> QED BY <2>2, <3>1 DEF CheckLabel, FormattedInv, Formatted, Named
  <2>3. CASE FindNames \/ RegisterNodes
    BY <2>3 DEF FindNames, RegisterNodes, FormattedInv, Formatted, Named
  <2>4. CASE Expand
    <3>1. Formatted
      BY <2>4 DEF Expand, KeepInv, Formatted
    <3> QED BY <2>4, <3>1 DEF Expand, FormattedInv, Formatted, Named
  <2>5. CASE CreateEntries
    BY <2>5 DEF CreateEntries, FormattedInv
  <2>6. CASE MakeFs
    <3>1. ~ disk.faulty /\ myn \in visible => mysql'.fs = "ext4"
      BY <2>6 DEF MakeFs, OwnLabel
    <3> QED BY <2>6, <3>1 DEF MakeFs, FormattedInv, Formatted, Named
  <2>7. CASE MakeSwap
    BY <2>7 DEF MakeSwap, FormattedInv, Formatted, Named
  <2>8. CASE RegisterMysql \/ RegisterSwap \/ Mount
    BY <2>8 DEF RegisterMysql, RegisterSwap, Mount, FormattedInv, Formatted, Named
  <2>9. CASE Commit
    <3>1. overlay'.script = overlay.script
      BY <2>9 DEF Commit, TypeOK, FileState
    <3> QED BY <2>9, <3>1 DEF Commit, FormattedInv, Formatted, Named
  <2>10. CASE Exit
    <3>1. overlay'.script = (rc = 2 /\ ~ Labelled)
      BY <2>10 DEF Exit, TypeOK, FileState
    <3>2. Labelled /\ ~ foreign => Formatted
      BY DEF Labelled, OwnLabel, Formatted
    <3>3. ~ foreign /\ disk.found /\ ~ disk.faulty /\ ~ overlay'.script => Formatted
      BY <2>10, <3>1, <3>2 DEF Exit, TypeOK, FormattedInv
    <3>4. durable.script
      BY <2>10 DEF Exit, FormattedInv
    <3> QED BY <2>10, <3>3, <3>4 DEF Exit, FormattedInv, Formatted, Named
  <2>11. CASE WriteDatabase
    <3>1. mysql'.fs = mysql.fs
      BY <2>11 DEF WriteDatabase, TypeOK
    <3> QED BY <2>11, <3>1 DEF WriteDatabase, FormattedInv, Formatted, Named
  <2>12. CASE Sync
    BY <2>12 DEF Sync, FormattedInv, Formatted, Named
  <2>13. CASE PowerCut \/ Reboot
    <3>1. ASSUME NEW saved, StartFrom(saved), ~ saved.script => ~ overlay.script
          PROVE  FormattedInv'
      BY <3>1 DEF StartFrom, FormattedInv, Formatted, Named
    <3> QED BY <2>13, <3>1 DEF PowerCut, Reboot, FormattedInv
  <2> QED
    BY <2>1, <2>2, <2>3, <2>4, <2>5, <2>6, <2>7, <2>8, <2>9, <2>10, <2>11, <2>12, <2>13
    DEF Next, Script
<1> QED BY <1>1, <1>2, TypeCorrect, KeepInvariance, PTL DEF Spec

\* A script that has deleted itself for good leaves no data partition without a file
\* system, at whichever steps it was cut off before.
THEOREM DoneIsFormatted == Spec => []DoneMeansFormatted
<1>1. FormattedInv => DoneMeansFormatted
  BY DEF FormattedInv, DoneMeansFormatted, Formatted
<1> QED BY <1>1, FormattedInvariance, PTL
=============================================================================
