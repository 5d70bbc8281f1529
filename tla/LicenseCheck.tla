----------------------------- MODULE LicenseCheck -----------------------------
(***************************************************************************)
(* The licence poller, files/srv/cctv/scripts/license_check.py: cron runs  *)
(* it every 15 minutes and nvrd-core on a manual resync, with no lock      *)
(* between two runs.  A run asks the server, stamps the answer and         *)
(* replaces the truth file /var/run/cctv-license-state by a rename; the    *)
(* exit code tells the caller what happened.                               *)
(*                                                                         *)
(* The server is external: its verdict changes now and then, and a request *)
(* may fail in any way.  /var/run is a tmpfs, so a reboot empties it.  A   *)
(* verdict is the number of the server's last change, `active' when even.  *)
(***************************************************************************)
EXTENDS Integers, FiniteSets

CONSTANTS
    Runs,        \* the processes that may run at a time
    None,        \* no file, no answer, no exit code
    Partial,     \* the content of a file that is being written
    MaxChanges,  \* bound: how often the server changes its verdict
    MaxFaults    \* bound: failures, kills and reboots, all told

ASSUME NoneAssumption == None \notin Nat /\ Partial \notin Nat /\ None # Partial
ASSUME BoundAssumption == MaxChanges \in Nat /\ MaxFaults \in Nat

VARIABLES
    server,   \* the verdict of the server
    conf,     \* /etc/cctv-license.conf: "missing", "blank" (no TOKEN) or "linked"
    truth,    \* what readers of the truth file see
    temp,     \* the temporary file of each run: None, Partial or a verdict
    litter,   \* temporary files of runs that are gone
    pc,
    result,   \* the answer a run has received
    rc,       \* the exit code of the last run of each process
    wrote,    \* history: this run has changed the truth file
    kills,    \* history: runs killed since the last reboot
    faults

vars == <<server, conf, truth, temp, litter, pc, result, rc, wrote, kills, faults>>
world == <<server, conf, faults>>

Verdicts == 0..MaxChanges
Active(verdict) == verdict % 2 = 0

Init ==
    /\ server = 0
    /\ conf \in {"missing", "blank"}
    /\ truth = None /\ litter = 0
    /\ temp = [p \in Runs |-> None]
    /\ pc = [p \in Runs |-> "off"]
    /\ result = [p \in Runs |-> None]
    /\ rc = [p \in Runs |-> None]
    /\ wrote = [p \in Runs |-> FALSE]
    /\ kills = 0 /\ faults = 0

Goto(p, from, to) == pc[p] = from /\ pc' = [pc EXCEPT ![p] = to]

\* The process ends; its locals go with it.
Exit(p, code) ==
    /\ pc' = [pc EXCEPT ![p] = "off"]
    /\ rc' = [rc EXCEPT ![p] = code]
    /\ result' = [result EXCEPT ![p] = None]

Fault == faults < MaxFaults /\ faults' = faults + 1

-----------------------------------------------------------------------------
(* The world around the script *)

\* The server's verdict changes; finalize_setup links the unit.
ServerChanges ==
    /\ server < MaxChanges /\ server' = server + 1
    /\ UNCHANGED <<conf, truth, temp, litter, pc, result, rc, wrote, kills, faults>>

Link ==
    /\ conf # "linked" /\ conf' = "linked"
    /\ UNCHANGED <<server, truth, temp, litter, pc, result, rc, wrote, kills, faults>>

\* A signal ends the run at any point; its temporary file stays.
Kill(p) ==
    /\ pc[p] # "off" /\ Fault
    /\ Exit(p, None)
    /\ litter' = IF temp[p] = None THEN litter ELSE litter + 1
    /\ temp' = [temp EXCEPT ![p] = None]
    /\ kills' = kills + 1
    /\ UNCHANGED <<server, conf, truth, wrote>>

Reboot ==
    /\ Fault
    /\ truth' = None /\ litter' = 0 /\ kills' = 0
    /\ temp' = [p \in Runs |-> None]
    /\ pc' = [p \in Runs |-> "off"]
    /\ result' = [p \in Runs |-> None]
    /\ rc' = [p \in Runs |-> None]
    /\ wrote' = [p \in Runs |-> FALSE]
    /\ UNCHANGED <<server, conf>>

-----------------------------------------------------------------------------
(* main *)

\* cron, or a manual resync.
Start(p) ==
    /\ Goto(p, "off", "config")
    /\ rc' = [rc EXCEPT ![p] = None]
    /\ wrote' = [wrote EXCEPT ![p] = FALSE]
    /\ UNCHANGED <<world, truth, temp, litter, result, kills>>

ReadConfig(p) ==
    /\ pc[p] = "config"
    /\ IF conf = "linked"
         THEN Goto(p, "config", "poll") /\ UNCHANGED <<rc, result>>
         ELSE Exit(p, 2)
    /\ UNCHANGED <<world, truth, temp, litter, wrote, kills>>

\* The server gives its verdict; it is on its way to the run.
Served(p) ==
    /\ Goto(p, "poll", "receive")
    /\ result' = [result EXCEPT ![p] = server]
    /\ UNCHANGED <<world, truth, temp, litter, rc, wrote, kills>>

\* An HTTP error, a network error, a timeout or a malformed body, before or
\* behind the server's answer, ends the run with 2.  A connection closed by the
\* server, a body cut short and JSON that is no object are not caught: Python
\* ends the run with a traceback, and 1.
PollFails(p) ==
    /\ pc[p] \in {"poll", "receive"} /\ Fault
    /\ \E code \in {1, 2} : Exit(p, code)
    /\ UNCHANGED <<server, conf, truth, temp, litter, wrote, kills>>

Receive(p) ==
    /\ Goto(p, "receive", "mkstemp")
    /\ UNCHANGED <<world, truth, temp, litter, result, rc, wrote, kills>>

-----------------------------------------------------------------------------
(* atomic_write *)

\* Mutant of MakeTemp: all runs use one temporary file, which opening empties.
BugSharedTemp(p) ==
    /\ Goto(p, "mkstemp", "write")
    /\ temp' = [q \in Runs |-> IF q = p \/ temp[q] # None THEN Partial ELSE None]
    /\ UNCHANGED <<world, truth, litter, result, rc, wrote, kills>>

MakeTemp(p) ==
    /\ Goto(p, "mkstemp", "write")
    /\ temp' = [temp EXCEPT ![p] = Partial]
    /\ UNCHANGED <<world, truth, litter, result, rc, wrote, kills>>

\* write, flush and fsync
Write(p) ==
    /\ Goto(p, "write", "chmod")
    /\ temp' = [temp EXCEPT ![p] = result[p]]
    /\ UNCHANGED <<world, truth, litter, result, rc, wrote, kills>>

\* Mutant of Chmod: the rename comes first.
BugRenameFirst(p) ==
    /\ Goto(p, "chmod", "rename")
    /\ truth' = temp[p]
    /\ wrote' = [wrote EXCEPT ![p] = TRUE]
    /\ UNCHANGED <<world, temp, litter, result, rc, kills>>

Chmod(p) ==
    /\ Goto(p, "chmod", "rename")
    /\ UNCHANGED <<world, truth, temp, litter, result, rc, wrote, kills>>

\* Mutant of Rename: a truth file that exists is not replaced.
BugNoReplace(p) ==
    /\ Goto(p, "rename", "report")
    /\ truth' = IF truth = None THEN temp[p] ELSE truth
    /\ wrote' = [wrote EXCEPT ![p] = TRUE]
    /\ temp' = [temp EXCEPT ![p] = None]
    /\ UNCHANGED <<world, litter, result, rc, kills>>

Rename(p) ==
    /\ Goto(p, "rename", "report")
    /\ truth' = temp[p]
    /\ wrote' = [wrote EXCEPT ![p] = TRUE]
    /\ temp' = [temp EXCEPT ![p] = None]
    /\ UNCHANGED <<world, litter, result, rc, kills>>

\* Mutant of WriteFails: the temporary file is left.
BugNoUnlink(p) ==
    /\ pc[p] \in {"mkstemp", "write", "chmod", "rename"} /\ Fault
    /\ Exit(p, 2)
    /\ litter' = IF temp[p] = None THEN litter ELSE litter + 1
    /\ temp' = [temp EXCEPT ![p] = None]
    /\ UNCHANGED <<server, conf, truth, wrote, kills>>

\* Each of the four calls may fail; the temporary file is removed.
WriteFails(p) ==
    /\ pc[p] \in {"mkstemp", "write", "chmod", "rename"} /\ Fault
    /\ Exit(p, 2)
    /\ temp' = [temp EXCEPT ![p] = None]
    /\ UNCHANGED <<server, conf, truth, litter, wrote, kills>>

Report(p) ==
    /\ pc[p] = "report"
    /\ Exit(p, IF Active(result[p]) THEN 0 ELSE 1)
    /\ UNCHANGED <<world, truth, temp, litter, wrote, kills>>

-----------------------------------------------------------------------------

Step(p) ==
    \/ ReadConfig(p) \/ Served(p) \/ Receive(p)
    \/ MakeTemp(p) \/ Write(p) \/ Chmod(p) \/ Rename(p) \/ Report(p)

Next ==
    \/ ServerChanges \/ Link \/ Reboot
    \/ \E p \in Runs : Start(p) \/ Step(p) \/ PollFails(p) \/ WriteFails(p) \/ Kill(p)

Spec == Init /\ [][Next]_vars

\* cron starts one run after the other, and a started run goes on (a request has a
\* timeout).  Nothing makes the operator link the unit or ask for a resync.
FairSpec ==
    /\ Spec
    /\ WF_vars(\E p \in Runs : Start(p))
    /\ \A p \in Runs : WF_vars(Step(p))

-----------------------------------------------------------------------------
(* Properties *)

\* Types; a file is being written only by a run that is at it.
TypeOK ==
    /\ server \in Verdicts /\ conf \in {"missing", "blank", "linked"}
    /\ truth \in Verdicts \cup {None, Partial}
    /\ temp \in [Runs -> Verdicts \cup {None, Partial}]
    /\ \A p \in Runs : temp[p] # None => pc[p] \in {"write", "chmod", "rename"}
    /\ pc \in [Runs -> {"off", "config", "poll", "receive", "mkstemp", "write", "chmod",
                        "rename", "report"}]
    /\ result \in [Runs -> Verdicts \cup {None}]
    /\ rc \in [Runs -> {None, 0, 1, 2}]
    /\ wrote \in [Runs -> BOOLEAN]
    /\ litter \in Nat /\ kills \in 0..faults /\ faults \in 0..MaxFaults

\* atomic_write: "Reader-side never sees a half-written file", whatever runs
\* overlap, fail or are killed, and what it sees is a verdict the server gave.
ReaderSeesWhole == truth # None => truth \in 0..server

\* Exit codes: 2, "the state file is NOT updated, so enforcement keeps acting on
\* the last known good answer"; and 0 means that the answer is in the file, or
\* was until another run replaced it.
ExitCodeTellsOfTheFile ==
    \A p \in Runs : (rc[p] = 2 => ~ wrote[p]) /\ (rc[p] = 0 => wrote[p])

\* Temporary files outlive a run only if it was killed: failures do not fill
\* the tmpfs that everything under /var/run shares.
OnlyKillsLitter == litter <= kills

\* Why these hold: what a run carries at each of its steps.
RunInv(p) ==
    /\ result[p] # None => result[p] \in 0..server
    /\ pc[p] \in {"receive", "mkstemp", "write", "chmod", "rename", "report"} => result[p] # None
    /\ pc[p] \in {"off", "config", "poll"} => result[p] = None
    /\ pc[p] \in {"chmod", "rename"} => temp[p] = result[p]
    /\ pc[p] \in {"off", "config", "poll", "receive", "mkstemp", "report"} => temp[p] = None
    /\ pc[p] \notin {"off", "report"} => ~ wrote[p]
    /\ pc[p] = "report" => wrote[p]
    /\ pc[p] # "off" => rc[p] = None
    /\ rc[p] = 2 => ~ wrote[p]
    /\ rc[p] = 0 => wrote[p]

LicenseInv ==
    /\ TypeOK
    /\ ReaderSeesWhole
    /\ OnlyKillsLitter
    /\ \A p \in Runs : RunInv(p)

\* What is on its way to the truth file.
Pending == [p \in Runs |-> IF pc[p] \in {"off", "report"} THEN None ELSE result[p]]

VF == INSTANCE VerdictFile WITH answer <- Pending

\* The seven steps from the request to the rename, with everything that can end them,
\* amount to two: an answer is taken, and it replaces the file.  So the temporary
\* files of runs that overlap never mix, no answer is stored twice, and no failure
\* or kill changes the file.
StoresWholeAnswers == VF!Spec

\* However runs overlap and overtake each other, the truth file of a linked unit ends
\* up with the server's verdict: a run that overwrites a newer answer with an older
\* one is followed by another.
CatchesUp == <>[](conf = "linked" => truth = server)
=============================================================================
