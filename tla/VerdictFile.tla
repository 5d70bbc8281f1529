----------------------------- MODULE VerdictFile -----------------------------
(***************************************************************************)
(* What the readers of the truth file rely on: the server's verdict is     *)
(* asked for at one moment and the file is replaced at a later one, by     *)
(* that answer, whole, and at most once for each answer.  An answer may    *)
(* also never reach the file.  A reboot empties the file and loses the     *)
(* answers that are on their way.                                          *)
(***************************************************************************)
EXTENDS Integers

CONSTANTS
    Runs,   \* who may ask at a time
    None    \* no file, and no answer on its way

VARIABLES
    server,   \* the verdict of the server
    truth,    \* the file
    answer    \* the answer of each run that is on its way to the file

Init ==
    /\ server = 0
    /\ truth = None
    /\ answer = [p \in Runs |-> None]

Change ==
    /\ server' = server + 1
    /\ UNCHANGED <<truth, answer>>

Ask(p) ==
    /\ answer[p] = None
    /\ answer' = [answer EXCEPT ![p] = server]
    /\ UNCHANGED <<server, truth>>

Store(p) ==
    /\ answer[p] # None
    /\ truth' = answer[p]
    /\ answer' = [answer EXCEPT ![p] = None]
    /\ UNCHANGED server

GiveUp(p) ==
    /\ answer[p] # None
    /\ answer' = [answer EXCEPT ![p] = None]
    /\ UNCHANGED <<server, truth>>

Restart ==
    /\ truth' = None
    /\ answer' = [p \in Runs |-> None]
    /\ UNCHANGED server

Next ==
    \/ Change \/ Restart
    \/ \E p \in Runs : Ask(p) \/ Store(p) \/ GiveUp(p)

Spec == Init /\ [][Next]_<<server, truth, answer>>
=============================================================================
