-------------------------- MODULE OtaInstall_proofs --------------------------
(***************************************************************************)
(* The order of the steps of install.sh keeps a unit startable and its     *)
(* version file honest, for any number of versions, power cuts, respawns   *)
(* and failing copies and moves.  A failing sed is the one failure the     *)
(* script does not look at; on a unit where it may happen, the properties  *)
(* promise nothing of the path in the init script.  The two file systems   *)
(* reach their disks at any time, so a cut can also strand a unit; it does *)
(* so only between the removal of the legacy binary and the write-back of  *)
(* the PROG line, and that is what the inductive invariant is about.       *)
(***************************************************************************)
EXTENDS OtaInstall, TLAPS

Places == {"dest", "legacy"}

\* What a start of the service, by procd or by a boot, makes of the process.
LEMMA ProcessType ==
    ASSUME TypeOK PROVE Process(prog) \in [path : Places, ver : Files, linked : BOOLEAN]
BY DEF Process, Places, TypeOK

LEMMA ReplacedType ==
    ASSUME TypeOK, NEW p PROVE Replaced(p) \in [path : Places, ver : Files, linked : BOOLEAN]
<1>1. (running.linked /\ running.path # p) \in BOOLEAN
  OBVIOUS
<1> QED BY <1>1 DEF Replaced, Places, TypeOK

LEMMA OverlayType == ASSUME TypeOK PROVE Overlay \in OverlayState
BY DEF Overlay, OverlayState, TypeOK, Places

\* An attempt starts below the last version, and only WriteVersion, the last step
\* but one of an attempt, raises the version.
LEMMA Attempts == Spec => [](TypeOK /\ StepInv)
<1> USE VersionAssumption DEF Places
<1>1. Init => TypeOK /\ StepInv
  <2> SUFFICES ASSUME Init PROVE TypeOK /\ StepInv
    OBVIOUS
  <2>1. bin \in [Places -> Files]
    BY DEF Init, Files, Versions, Missing
  <2>2. running \in [path : Places, ver : Files, linked : BOOLEAN]
    BY <2>1 DEF Init, Process
  <2>3. 1 \in Versions /\ rollback \in [Versions -> [bin : Files, html : Files]]
    BY DEF Init, Files, Versions
  <2>4. durable \in OverlayState /\ data \in Files
    BY <2>1, <2>3 DEF Init, Overlay, OverlayState
  <2>5. stranded \in BOOLEAN /\ alone \in BOOLEAN /\ failing \subseteq {"cp", "mv", "sed"}
    BY DEF Init
  <2>6. TypeOK
    BY <2>1, <2>2, <2>3, <2>4, <2>5 DEF Init, TypeOK
  <2>7. StepInv
    BY DEF Init, StepInv
  <2> QED BY <2>6, <2>7
<1>2. ASSUME TypeOK, StepInv, [Next]_vars PROVE TypeOK' /\ StepInv'
  <2> USE <1>2 DEF Goto, still, disks
  <2>1. version < Last => Target \in Versions /\ Target \in Files
    BY DEF Target, Versions, Files, TypeOK
  <2>2. CASE UNCHANGED vars
    BY <2>2 DEF vars, TypeOK, StepInv
  <2>3. CASE Start
    BY <2>3 DEF Start, TypeOK, StepInv
  <2>4. CASE BackupBin
    <3>1. Current \in Files
      BY DEF Current, Files, TypeOK
    <3>2. rollback' \in [Versions -> [bin : Files, html : Files]]
      BY <2>4, <3>1 DEF BackupBin, TypeOK
    <3> QED BY <2>4, <3>2 DEF BackupBin, Breaks, TypeOK, StepInv
  <2>5. CASE BackupHtml
    <3>1. rollback' \in [Versions -> [bin : Files, html : Files]]
      BY <2>5 DEF BackupHtml, TypeOK, Files
    <3> QED BY <2>5, <3>1 DEF BackupHtml, Breaks, TypeOK, StepInv
  <2>6. CASE CopyBin
    BY <2>6 DEF CopyBin, Die, Breaks, TypeOK, StepInv
  <2>7. CASE MoveBin
    <3>1. bin' \in [Places -> Files]
      BY <2>1, <2>7 DEF MoveBin, Die, TypeOK, StepInv
    <3>2. running' \in [path : Places, ver : Files, linked : BOOLEAN]
      BY <2>7, ReplacedType DEF MoveBin, TypeOK
    <3> QED BY <2>7, <3>1, <3>2 DEF MoveBin, Die, Breaks, TypeOK, StepInv
  <2>8. CASE CopyHtml
    BY <2>8 DEF CopyHtml, Die, Breaks, TypeOK, StepInv
  <2>9. CASE MoveHtml
    BY <2>1, <2>9 DEF MoveHtml, Die, Breaks, TypeOK, StepInv
  <2>10. CASE SetProg
    BY <2>10 DEF SetProg, Breaks, TypeOK, StepInv
  <2>11. CASE Unlink
    <3>1. bin' \in [Places -> Files]
      BY <2>11 DEF Unlink, TypeOK, Files
    <3>2. running' \in [path : Places, ver : Files, linked : BOOLEAN]
      BY <2>11, ReplacedType DEF Unlink
    <3> QED BY <2>11, <3>1, <3>2 DEF Unlink, TypeOK, StepInv
  <2>12. CASE GiveUp
    BY <2>12 DEF GiveUp, TypeOK, StepInv
  <2>13. CASE WriteVersion
    BY <2>1, <2>13 DEF WriteVersion, TypeOK, StepInv
  <2>14. CASE Restart
    BY <2>14, ProcessType DEF Restart, TypeOK, StepInv
  <2>15. CASE Respawn
    <3>1. running' \in [path : Places, ver : Files, linked : BOOLEAN]
      BY <2>15, ProcessType DEF Respawn
    <3>2. alone' \in BOOLEAN
      BY <2>15 DEF Respawn
    <3>3. TypeOK'
      BY <2>15, <3>1, <3>2 DEF Respawn, TypeOK
    <3>4. StepInv'
      BY <2>15 DEF Respawn, StepInv
    <3> QED BY <3>3, <3>4
  <2>16. CASE PowerCut
    <3>1. bin' \in [Places -> Files]
      BY <2>16 DEF PowerCut, TypeOK, OverlayState
    <3>2. /\ html' \in Versions /\ prog' \in Places /\ version' \in Versions
          /\ rollback' \in [Versions -> [bin : Files, html : Files]] /\ leftovers' \in Nat
      BY <2>16 DEF PowerCut, TypeOK, OverlayState
    <3>3. running' \in [path : Places, ver : Files, linked : BOOLEAN]
      BY <2>16, <3>1, <3>2 DEF PowerCut, Process
    <3>4. stranded' \in BOOLEAN
      BY <2>16 DEF PowerCut, TypeOK
    <3>5. /\ UNCHANGED <<durable, data, failing>> /\ pc' = "idle" /\ alone' = FALSE
          /\ breaks' \in 0..MaxBreaks
      BY <2>16 DEF PowerCut, TypeOK
    <3>6. TypeOK'
      BY <3>1, <3>2, <3>3, <3>4, <3>5 DEF TypeOK
    <3>7. StepInv'
      BY <3>5 DEF StepInv
    <3> QED BY <3>6, <3>7
  <2>17. CASE SyncOverlay
    BY <2>17, OverlayType DEF SyncOverlay, TypeOK, StepInv
  <2>18. CASE SyncData
    BY <2>18 DEF SyncData, TypeOK, StepInv
  <2> QED
    BY <2>2, <2>3, <2>4, <2>5, <2>6, <2>7, <2>8, <2>9, <2>10, <2>11, <2>12, <2>13, <2>14,
       <2>15, <2>16, <2>17, <2>18 DEF Next, Install, Done
<1> QED BY <1>1, <1>2, PTL DEF Spec

\* The state of the unit always has the shape that TypeOK describes, whatever fails:
\* above all, no attempt goes past the last version.
THEOREM TypeCorrect == Spec => []TypeOK
BY Attempts, PTL

\* The inductive invariant: where an attempt has come to, what it has replaced by then,
\* and what of it the two disks can hold, in whichever order they were written.
THEOREM OtaInvariance == Spec => []OtaInv
<1> USE VersionAssumption DEF Places
<1>1. Init => OtaInv
  <2> SUFFICES ASSUME Init PROVE OtaInv
    OBVIOUS
  <2>1. durable.prog = prog /\ durable.version = 1 /\ durable.html = 1 /\ durable.dest = bin["dest"]
    BY DEF Init, Overlay
  <2>2. DiskInv
    BY <2>1 DEF Init, DiskInv, Missing
  <2> QED BY <2>1, <2>2 DEF Init, OtaInv, StepInv
<1>2. ASSUME TypeOK, StepInv', OtaInv, [Next]_vars PROVE OtaInv'
  <2> USE <1>2 DEF Goto, still, disks
  <2>1. version \in Nat /\ Target = version + 1 /\ bin["dest"] \in Nat /\ html \in Nat
    BY DEF Target, TypeOK, Versions, Files, Missing
  <2>2. CASE UNCHANGED vars
    BY <2>2 DEF vars, OtaInv, DiskInv, Target
  <2>3. CASE Start
    BY <2>3 DEF Start, OtaInv, DiskInv, Target
  <2>4. CASE BackupBin \/ BackupHtml \/ CopyBin \/ CopyHtml \/ GiveUp \/ Restart \/ Respawn
    <3>1. UNCHANGED <<bin, html, prog, version, durable, data, stranded, failing>>
      BY <2>4 DEF BackupBin, BackupHtml, CopyBin, CopyHtml, GiveUp, Restart, Respawn
    <3>2. /\ pc' \in {"copy_html", "mv_html", "sed", "unlink", "version"} =>
                pc \in {"copy_html", "mv_html", "sed", "unlink", "version"}
          /\ pc' \in {"sed", "unlink", "version"} => pc' = pc
      BY <2>4 DEF BackupBin, BackupHtml, CopyBin, CopyHtml, GiveUp, Restart, Respawn, Die
    <3>3. pc # "idle" \/ running.ver # Missing
      BY <2>4 DEF BackupBin, BackupHtml, CopyBin, CopyHtml, GiveUp, Restart, Respawn, Die
    <3>4. "sed" \notin failing => DiskInv'
      BY <3>1, <3>3 DEF OtaInv, DiskInv
    <3> QED BY <3>1, <3>2, <3>4 DEF OtaInv, Target
  <2>5. CASE MoveBin
    <3>1. CASE pc' = "copy_html"
      <4>1. /\ bin' = [bin EXCEPT !["dest"] = Target] /\ pc = "mv_bin"
            /\ UNCHANGED <<html, prog, version, durable, data, stranded, failing>>
        BY <2>5, <3>1 DEF MoveBin, Die
      <4>2. bin'["dest"] = Target' /\ bin'["legacy"] = bin["legacy"]
        BY <2>1, <4>1 DEF TypeOK, Target
      <4>3. "sed" \notin failing => DiskInv'
        BY <2>1, <4>1, <4>2 DEF OtaInv, DiskInv, Target
      <4> QED BY <3>1, <4>1, <4>2, <4>3 DEF OtaInv
    <3>2. CASE pc' # "copy_html"
      BY <2>5, <3>2 DEF MoveBin, Die, OtaInv, DiskInv, Target
    <3> QED BY <3>1, <3>2
  <2>6. CASE MoveHtml
    BY <2>1, <2>6 DEF MoveHtml, Die, OtaInv, DiskInv, Target
  <2>7. CASE SetProg
    <3>1. /\ "sed" \notin failing => prog' = "dest"
          /\ pc = "sed" /\ pc' = "unlink"
          /\ UNCHANGED <<bin, html, version, durable, data, stranded, failing>>
      BY <2>7 DEF SetProg, Breaks
    <3>2. bin["dest"] = Target /\ html = Target
      BY <3>1 DEF OtaInv
    <3>3. "sed" \notin failing => DiskInv'
      BY <2>1, <3>1, <3>2 DEF OtaInv, DiskInv
    <3> QED BY <2>1, <3>1, <3>2, <3>3 DEF OtaInv, Target
  <2>8. CASE Unlink
    <3>1. /\ "sed" \notin failing => prog = "dest"
          /\ bin'["dest"] = bin["dest"] /\ bin'["legacy"] = Missing
          /\ pc = "unlink" /\ pc' \in {"idle", "version"}
          /\ UNCHANGED <<html, prog, version, durable, data, stranded, failing>>
      BY <2>8 DEF Unlink, OtaInv, TypeOK
    <3>2. "sed" \notin failing => DiskInv'
      BY <3>1 DEF OtaInv, DiskInv
    <3> QED BY <3>1, <3>2 DEF OtaInv, Target
  <2>9. CASE WriteVersion
    <3>1. /\ "sed" \notin failing => prog = "dest"
          /\ bin["dest"] = Target /\ html = Target
      BY <2>9 DEF WriteVersion, OtaInv
    <3>2. "sed" \notin failing => DiskInv'
      BY <2>1, <2>9, <3>1 DEF WriteVersion, OtaInv, DiskInv
    <3> QED BY <2>1, <2>9, <3>1, <3>2 DEF WriteVersion, OtaInv
  <2>10. CASE SyncOverlay
    <3>1. /\ durable'.dest = bin["dest"] /\ durable'.prog = prog
          /\ durable'.version = version /\ durable'.html = html
          /\ UNCHANGED <<bin, html, prog, running, version, data, stranded, failing, pc>>
      BY <2>10 DEF SyncOverlay, Overlay
    <3>2. "sed" \notin failing => DiskInv'
      BY <3>1 DEF OtaInv, DiskInv, TypeOK
    <3> QED BY <3>1, <3>2 DEF OtaInv, Target
  <2>11. CASE SyncData
    <3>1. /\ data' = bin["legacy"]
          /\ UNCHANGED <<bin, html, prog, running, version, durable, stranded, failing, pc>>
      BY <2>11 DEF SyncData
    <3>2. "sed" \notin failing => DiskInv'
      BY <3>1 DEF OtaInv, DiskInv, TypeOK
    <3> QED BY <3>1, <3>2 DEF OtaInv, Target
  <2>12. CASE PowerCut
    <3>1. /\ bin'["dest"] = durable.dest /\ bin'["legacy"] = data
          /\ html' = durable.html /\ prog' = durable.prog /\ version' = durable.version
          /\ stranded' = (stranded \/ (prog = "dest" /\ durable.prog = "legacy" /\ data = Missing))
          /\ pc' = "idle" /\ UNCHANGED <<durable, data, failing>>
      BY <2>12 DEF PowerCut, TypeOK
    <3>2. running'.ver = bin'[prog']
      BY <2>12 DEF PowerCut, Process
    <3>3. "sed" \notin failing => DiskInv'
      <4>1. prog' \in Places
        BY <3>1 DEF TypeOK, OverlayState
      <4> QED BY <3>1, <3>2, <4>1 DEF OtaInv, DiskInv, TypeOK
    <3> QED BY <3>1, <3>3 DEF OtaInv
  <2> QED
    BY <2>2, <2>3, <2>4, <2>5, <2>6, <2>7, <2>8, <2>9, <2>10, <2>11, <2>12
    DEF Next, Install, Done
<1> QED BY <1>1, <1>2, Attempts, PTL DEF Spec

\* At every moment, and after any power cut that does not strand the unit, the path in
\* the init script has a binary to start, although the script changes both the path and
\* the binaries; and a unit whose new path is on the disk cannot be stranded any more.
THEOREM AlwaysStartable == Spec => []Startable
<1>1. TypeOK /\ OtaInv => Startable
  <2> SUFFICES ASSUME TypeOK, OtaInv, "sed" \notin failing
               PROVE  /\ ~ stranded => bin[prog] # Missing
                      /\ durable.prog = "dest" => ~ stranded /\ durable.dest # Missing
    BY DEF Startable
  <2>1. DiskInv /\ version \in Nat \ {0} /\ durable.version \in Nat \ {0} /\ prog \in Places
    BY VersionAssumption DEF OtaInv, TypeOK, OverlayState, Versions, Places
  <2>2. CASE prog = "dest"
    BY <2>1, <2>2 DEF DiskInv, Missing
  <2>3. CASE prog = "legacy"
    BY <2>1, <2>3 DEF DiskInv, Missing
  <2> QED BY <2>1, <2>2, <2>3 DEF Places
<1> QED BY <1>1, TypeCorrect, OtaInvariance, PTL

\* The version file never claims a binary or a page that is not installed.
THEOREM VersionIsHonest == Spec => []VersionIsInstalled
<1>1. TypeOK /\ OtaInv => VersionIsInstalled
  <2> SUFFICES ASSUME TypeOK, OtaInv, "sed" \notin failing, ~ stranded
               PROVE  version <= bin[prog]
    BY DEF OtaInv, VersionIsInstalled
  <2>1. DiskInv /\ prog \in Places /\ bin["legacy"] \in Nat
    BY VersionAssumption DEF OtaInv, TypeOK, Files, Versions, Missing, Places
  <2>2. CASE prog = "dest"
    BY <2>1, <2>2 DEF DiskInv
  <2>3. CASE prog = "legacy"
    <3>1. bin["legacy"] # 0 /\ version = 1
      BY <2>1, <2>3 DEF DiskInv, Missing
    <3> QED BY <2>1, <2>3, <3>1
  <2> QED BY <2>1, <2>2, <2>3 DEF Places
<1> QED BY <1>1, TypeCorrect, OtaInvariance, PTL

\* The inductive invariant behind SavedFirst: an update that nothing disturbs starts
\* from a unit that runs the version it claims, and ends with one.
THEOREM SavedInvariance == Spec => []SavedInv
<1> USE VersionAssumption DEF Goto
<1>1. Init => SavedInv
  BY DEF Init, SavedInv, Process
<1>2. ASSUME TypeOK, StepInv, OtaInv, SavedInv, [Next]_vars PROVE SavedInv'
  <2> USE <1>2 DEF still
  <2>1. version \in Versions /\ version # Missing /\ breaks \in Nat
    BY DEF TypeOK, Versions, Missing
  <2>2. CASE UNCHANGED vars
    BY <2>2 DEF vars, SavedInv
  <2>3. CASE Start \/ CopyBin \/ CopyHtml \/ GiveUp
    BY <2>1, <2>3 DEF Start, CopyBin, CopyHtml, GiveUp, Die, Breaks, SavedInv
  <2>4. CASE BackupBin
    <3>1. CASE breaks' = 0
      <4>1. breaks = 0 /\ pc = "backup_bin" /\ pc' = "backup_html"
        BY <2>1, <2>4, <3>1 DEF BackupBin, Breaks
      <4>2. Current = version
        BY <2>1, <4>1 DEF SavedInv, Current
      <4>3. rollback' = [rollback EXCEPT ![version].bin = version]
        BY <2>1, <2>4, <3>1, <4>1, <4>2 DEF BackupBin, Breaks
      <4>4. rollback'[version].bin = version
        BY <2>1, <4>3 DEF TypeOK
      <4> QED BY <2>4, <4>1, <4>4 DEF BackupBin, SavedInv
    <3> QED BY <3>1 DEF SavedInv
  <2>5. CASE BackupHtml
    <3>1. CASE breaks' = 0
      <4>1. /\ breaks = 0 /\ pc = "backup_html" /\ pc' = "copy_bin"
            /\ rollback' = [rollback EXCEPT ![version].html = html]
        BY <2>1, <2>5, <3>1 DEF BackupHtml, Breaks
      <4>2. rollback'[version].html = version /\ rollback'[version].bin = version
        BY <2>1, <4>1 DEF SavedInv, TypeOK
      <4> QED BY <2>5, <4>1, <4>2 DEF BackupHtml, SavedInv
    <3> QED BY <3>1 DEF SavedInv
  <2>6. CASE MoveBin \/ MoveHtml
    BY <2>1, <2>6 DEF MoveBin, MoveHtml, Die, Breaks, SavedInv
  <2>7. CASE SetProg
    BY <2>1, <2>7 DEF SetProg, Breaks, SavedInv
  <2>8. CASE Unlink
    BY <2>8 DEF Unlink, SavedInv
  <2>9. CASE WriteVersion
    BY <2>9 DEF WriteVersion, SavedInv, OtaInv
  <2>10. CASE Restart
    <3>1. CASE breaks = 0
      <4>1. prog = "dest" /\ bin["dest"] = version /\ html = version
        BY <2>10, <3>1 DEF Restart, SavedInv
      <4>2. running'.linked /\ running'.ver = version
        BY <2>10, <4>1 DEF Restart, Process
      <4> QED BY <2>10, <4>1, <4>2 DEF Restart, SavedInv
    <3> QED BY <2>10, <3>1 DEF Restart, SavedInv
  <2>11. CASE Respawn \/ PowerCut
    BY <2>1, <2>11 DEF Respawn, PowerCut, SavedInv
  <2>12. CASE SyncOverlay \/ SyncData
    BY <2>12 DEF SyncOverlay, SyncData, SavedInv
  <2> QED
    BY <2>2, <2>3, <2>4, <2>5, <2>6, <2>7, <2>8, <2>9, <2>10, <2>11, <2>12
    DEF Next, Install, Done
<1> QED BY <1>1, <1>2, Attempts, OtaInvariance, PTL DEF Spec

\* What an undisturbed update saves for the rollback is what the unit ran, wherever
\* its binary lived, and it is complete when the first file is about to be replaced.
THEOREM SavesFirst == Spec => []SavedFirst
<1>1. TypeOK /\ SavedInv => SavedFirst
  <2> SUFFICES ASSUME TypeOK, SavedInv, pc = "mv_bin", breaks = 0
               PROVE  rollback[version] = [bin |-> version, html |-> version]
    BY DEF SavedFirst
  <2>1. rollback[version] \in [bin : Files, html : Files]
    BY DEF TypeOK
  <2>2. rollback[version].bin = version /\ rollback[version].html = version
    BY DEF SavedInv
  <2> QED BY <2>1, <2>2
<1> QED BY <1>1, TypeCorrect, SavedInvariance, PTL
=============================================================================
