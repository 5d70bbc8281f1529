------------------------- MODULE LicenseCheck_proofs -------------------------
(***************************************************************************)
(* Proofs about the licence poller, for any number of runs, verdicts and   *)
(* faults.  LicenseInv is inductive: besides the types it records what a   *)
(* run carries at each step, in particular that the temporary file it is   *)
(* about to rename holds its whole answer, and that it has not touched the *)
(* truth file before it.                                                   *)
(***************************************************************************)
EXTENDS LicenseCheck, TLAPS

\* The initial states satisfy the invariant.
LEMMA InitLicense == Init => LicenseInv
  <1> SUFFICES ASSUME Init PROVE LicenseInv OBVIOUS
  <1> USE NoneAssumption, BoundAssumption DEF Init
  <1>1. TypeOK BY DEF TypeOK, Verdicts
  <1>2. ReaderSeesWhole /\ OnlyKillsLitter BY DEF ReaderSeesWhole, OnlyKillsLitter
  <1>3. ASSUME NEW p \in Runs PROVE RunInv(p) BY DEF RunInv
  <1> QED BY <1>1, <1>2, <1>3 DEF LicenseInv

\* Every step keeps the invariant.
LEMMA NextLicense == LicenseInv /\ [Next]_vars => LicenseInv'
  <1> SUFFICES ASSUME LicenseInv, [Next]_vars PROVE LicenseInv' OBVIOUS
  <1> USE NoneAssumption, BoundAssumption
          DEF LicenseInv, TypeOK, Verdicts, ReaderSeesWhole, OnlyKillsLitter, RunInv, world
  <1>1. CASE UNCHANGED vars BY <1>1 DEF vars
  <1>2. CASE ServerChanges BY <1>2 DEF ServerChanges
  <1>3. CASE Link BY <1>3 DEF Link
  <1>4. CASE Reboot BY <1>4 DEF Reboot, Fault
  <1>5. ASSUME NEW p \in Runs, Start(p) PROVE LicenseInv'
    BY <1>5 DEF Start, Goto
  <1>6. ASSUME NEW p \in Runs, ReadConfig(p) PROVE LicenseInv'
    BY <1>6 DEF ReadConfig, Goto, Exit
  <1>7. ASSUME NEW p \in Runs, Served(p) PROVE LicenseInv'
    BY <1>7 DEF Served, Goto
  <1>8. ASSUME NEW p \in Runs, Receive(p) PROVE LicenseInv'
    BY <1>8 DEF Receive, Goto
  <1>9. ASSUME NEW p \in Runs, MakeTemp(p) PROVE LicenseInv'
    BY <1>9 DEF MakeTemp, Goto
  <1>10. ASSUME NEW p \in Runs, Write(p) PROVE LicenseInv'
    BY <1>10 DEF Write, Goto
  <1>11. ASSUME NEW p \in Runs, Chmod(p) PROVE LicenseInv'
    BY <1>11 DEF Chmod, Goto
  <1>12. ASSUME NEW p \in Runs, Rename(p) PROVE LicenseInv'
    BY <1>12 DEF Rename, Goto
  <1>13. ASSUME NEW p \in Runs, Report(p) PROVE LicenseInv'
    BY <1>13 DEF Report, Exit
  <1>14. ASSUME NEW p \in Runs, PollFails(p) PROVE LicenseInv'
    BY <1>14 DEF PollFails, Exit, Fault
  <1>15. ASSUME NEW p \in Runs, WriteFails(p) PROVE LicenseInv'
    BY <1>15 DEF WriteFails, Exit, Fault
  <1>16. ASSUME NEW p \in Runs, Kill(p) PROVE LicenseInv'
    BY <1>16 DEF Kill, Exit, Fault
  <1> QED BY <1>1, <1>2, <1>3, <1>4, <1>5, <1>6, <1>7, <1>8, <1>9, <1>10, <1>11, <1>12, <1>13,
             <1>14, <1>15, <1>16 DEF Next, Step

\* What a run carries at each step, and the whole of the invariant.
THEOREM LicenseInvariance == Spec => []LicenseInv
  BY InitLicense, NextLicense, PTL DEF Spec

\* The state always has the shape that TypeOK describes; a file is written only by a run
\* that is at it.
THEOREM TypeCorrect == Spec => []TypeOK
  <1>1. LicenseInv => TypeOK BY DEF LicenseInv
  <1> QED BY <1>1, LicenseInvariance, PTL

\* Readers of the truth file never see a file that is half written, nor a
\* verdict the server did not give, whatever runs overlap, fail or are killed.
THEOREM WholeAnswers == Spec => []ReaderSeesWhole
  <1>1. LicenseInv => ReaderSeesWhole BY DEF LicenseInv
  <1> QED BY <1>1, LicenseInvariance, PTL

\* A run that ends with 2 has left the truth file alone, one that ends with 0
\* has written it.
THEOREM HonestExitCodes == Spec => []ExitCodeTellsOfTheFile
  <1>1. LicenseInv => ExitCodeTellsOfTheFile BY DEF LicenseInv, RunInv, ExitCodeTellsOfTheFile
  <1> QED BY <1>1, LicenseInvariance, PTL

\* Runs that fail leave no temporary file.
THEOREM NoLitter == Spec => []OnlyKillsLitter
  <1>1. LicenseInv => OnlyKillsLitter BY DEF LicenseInv
  <1> QED BY <1>1, LicenseInvariance, PTL
-----------------------------------------------------------------------------
(* The poller implements VerdictFile: Served is Ask, Rename is Store, what ends a run *)
(* in between is GiveUp, and the other steps are invisible.                           *)

\* No answer is on its way when the poller starts.
LEMMA InitStores == Init => VF!Init
  BY DEF Init, VF!Init, Pending

\* A run that ends takes its answer with it, if one was still on its way.
LEMMA EndingGivesUp ==
  ASSUME LicenseInv, NEW p \in Runs, NEW code, Exit(p, code), UNCHANGED <<server, truth>>
  PROVE  [VF!Next]_<<server, truth, Pending>>
  <1>1. Pending' = [Pending EXCEPT ![p] = None]
    BY DEF Pending, Exit, LicenseInv, TypeOK
  <1>2. CASE Pending[p] = None
    <2>1. Pending' = Pending BY <1>1, <1>2 DEF Pending
    <2> QED BY <2>1
  <1>3. CASE Pending[p] # None
    <2>1. VF!GiveUp(p) BY <1>1, <1>3 DEF VF!GiveUp
    <2> QED BY <2>1 DEF VF!Next
  <1> QED BY <1>2, <1>3

\* A step of a run that neither has an answer nor gets one, or that keeps the one it
\* has on its way.
LEMMA CarryingIsInvisible ==
  ASSUME LicenseInv, NEW p \in Runs, NEW from, NEW to, Goto(p, from, to),
         UNCHANGED <<server, truth, result>>,
         result[p] = None \/ {from, to} \cap {"off", "report"} = {}
  PROVE  [VF!Next]_<<server, truth, Pending>>
  <1>1. Pending' = Pending BY DEF Pending, Goto, LicenseInv, TypeOK
  <1> QED BY <1>1

\* Every step of the poller is a step of VerdictFile, or invisible to it.
LEMMA NextStores ==
  ASSUME LicenseInv, [Next]_vars
  PROVE  [VF!Next]_<<server, truth, Pending>>
  <1> USE NoneAssumption DEF world
  <1>1. CASE UNCHANGED vars BY <1>1 DEF vars, Pending
  <1>2. CASE ServerChanges
    <2>1. VF!Change BY <1>2 DEF ServerChanges, VF!Change, Pending
    <2> QED BY <2>1 DEF VF!Next
  <1>3. CASE Link BY <1>3 DEF Link, Pending
  <1>4. CASE Reboot
    <2>1. VF!Restart BY <1>4 DEF Reboot, VF!Restart, Pending
    <2> QED BY <2>1 DEF VF!Next
  <1>5. ASSUME NEW p \in Runs, Start(p) PROVE [VF!Next]_<<server, truth, Pending>>
    <2>1. result[p] = None BY <1>5 DEF Start, Goto, LicenseInv, RunInv
    <2> QED BY <1>5, <2>1, CarryingIsInvisible DEF Start
  <1>6. ASSUME NEW p \in Runs, ReadConfig(p) PROVE [VF!Next]_<<server, truth, Pending>>
    <2>1. CASE conf = "linked" BY <1>6, <2>1, CarryingIsInvisible DEF ReadConfig
    <2>2. CASE conf # "linked" BY <1>6, <2>2, EndingGivesUp DEF ReadConfig
    <2> QED BY <2>1, <2>2
  <1>7. ASSUME NEW p \in Runs, Served(p) PROVE [VF!Next]_<<server, truth, Pending>>
    <2>1. Pending[p] = None BY <1>7 DEF Served, Goto, Pending, LicenseInv, RunInv
    <2>2. Pending' = [Pending EXCEPT ![p] = server]
      BY <1>7 DEF Served, Goto, Pending, LicenseInv, TypeOK
    <2>3. VF!Ask(p) BY <1>7, <2>1, <2>2 DEF Served, VF!Ask
    <2> QED BY <2>3 DEF VF!Next
  <1>8. ASSUME NEW p \in Runs, Receive(p) PROVE [VF!Next]_<<server, truth, Pending>>
    BY <1>8, CarryingIsInvisible DEF Receive
  <1>9. ASSUME NEW p \in Runs, MakeTemp(p) PROVE [VF!Next]_<<server, truth, Pending>>
    BY <1>9, CarryingIsInvisible DEF MakeTemp
  <1>10. ASSUME NEW p \in Runs, Write(p) PROVE [VF!Next]_<<server, truth, Pending>>
    BY <1>10, CarryingIsInvisible DEF Write
  <1>11. ASSUME NEW p \in Runs, Chmod(p) PROVE [VF!Next]_<<server, truth, Pending>>
    BY <1>11, CarryingIsInvisible DEF Chmod
  <1>12. ASSUME NEW p \in Runs, Rename(p) PROVE [VF!Next]_<<server, truth, Pending>>
    <2>1. Pending[p] = temp[p] /\ temp[p] # None
      BY <1>12 DEF Rename, Goto, Pending, LicenseInv, RunInv
    <2>2. Pending' = [Pending EXCEPT ![p] = None]
      BY <1>12 DEF Rename, Goto, Pending, LicenseInv, TypeOK
    <2>3. VF!Store(p) BY <1>12, <2>1, <2>2 DEF Rename, VF!Store
    <2> QED BY <2>3 DEF VF!Next
  <1>13. ASSUME NEW p \in Runs, Report(p) PROVE [VF!Next]_<<server, truth, Pending>>
    BY <1>13, EndingGivesUp DEF Report
  <1>14. ASSUME NEW p \in Runs, PollFails(p) PROVE [VF!Next]_<<server, truth, Pending>>
    BY <1>14, EndingGivesUp DEF PollFails
  <1>15. ASSUME NEW p \in Runs, WriteFails(p) PROVE [VF!Next]_<<server, truth, Pending>>
    BY <1>15, EndingGivesUp DEF WriteFails
  <1>16. ASSUME NEW p \in Runs, Kill(p) PROVE [VF!Next]_<<server, truth, Pending>>
    BY <1>16, EndingGivesUp DEF Kill
  <1> QED BY <1>1, <1>2, <1>3, <1>4, <1>5, <1>6, <1>7, <1>8, <1>9, <1>10, <1>11, <1>12, <1>13,
             <1>14, <1>15, <1>16 DEF Next, Step

\* However runs overlap, fail or are killed, the poller takes whole answers of the
\* server and stores each at most once: it implements VerdictFile.
THEOREM PollerRefinement == Spec => StoresWholeAnswers
  <1>1. LicenseInv /\ [Next]_vars => [VF!Next]_<<server, truth, Pending>> BY NextStores
  <1> QED BY <1>1, InitStores, LicenseInvariance, PTL DEF Spec, VF!Spec, StoresWholeAnswers
=============================================================================
