----------------------------- MODULE SetupSteps_proofs -----------------------------
(***************************************************************************)
(* No step of the wizard is shown before the recorder has stored those in  *)
(* front of it: NeverAhead of SetupSteps, for any lists, entries, accounts *)
(* and bounds.                                                             *)
(*                                                                         *)
(* NeverAhead is not inductive: that step 3 may be shown when the network  *)
(* is accepted rests on what the recorder had stored when it said so, and  *)
(* on what was shown when it was asked.  Behind says it of every request   *)
(* in flight and of every answer on its way; it is kept because the        *)
(* recorder never takes back what it has stored.  Each action has a lemma. *)
(***************************************************************************)
EXTENDS SetupSteps, Functions, FiniteSetTheorems, TLAPS

(* The steps of the wizard, without fairness. *)
StepsSpec == StepsInit /\ [][StepsNext]_wizard

(* Types.  OrNone: a value, or none yet. *)
Kinds == Moves \cup Cloud \cup {"status", "test", "format", "restart", "poll"}
Replies ==
  {"pending", "ok", "lost", "refused", "restart", "unhealthy", "listed", "unlisted", "ext4", "other"}
     \cup Modes
OrNone(S) == S \cup {None}

Forms == [list : OrNone(Lists), net : OrNone(Modes), entry : OrNone(Entries),
          account : OrNone(Accounts), skip : BOOLEAN]
Reports == [list : OrNone(Lists), net : OrNone(Modes), entry : OrNone(Entries),
            linked : BOOLEAN, email : OrNone(Accounts)]
Calls == [id : Nat, kind : Kinds, form : Forms, reply : Replies, deaf : BOOLEAN]
Pages ==
  [shown : SUBSET (1 .. 4), active : 1 .. 4, list : Lists, verified : OrNone(Lists),
   abnormal : BOOLEAN, lock : {"off", "format", "restart", "verify", "failed"}, net : Modes,
   sent : OrNone(Modes), entry : Entries, creds : OrNone(Accounts), linked : BOOLEAN,
   email : OrNone(Accounts), report : Reports, applying : BOOLEAN, complete : BOOLEAN]
Units ==
  [drive : {"ext4", "other"}, daemon : {"current", "stale", "leaving", "down", "degraded"},
   discovery : OrNone(Lists), network : OrNone(Modes), storage : OrNone({"use_existing"}),
   site : OrNone(Entries), admin : OrNone(Entries), account : OrNone(Accounts), applied : Forms]
Wizards ==
  [page : Pages, unit : Units, calls : SUBSET Calls, clicks : Nat, detours : Nat,
   hurried : BOOLEAN, blind : BOOLEAN, astray : BOOLEAN, orphaned : BOOLEAN,
   aborted : BOOLEAN, reconsidered : BOOLEAN]

(* A request carries what its kind is about, and one that nobody listens *)
(* to any more has not been answered.                                    *)
Filled(c) ==
  /\ c.kind = "discovery" => c.form.list # None
  /\ c.kind \in {"network", "apply_network"} => c.form.net # None
  /\ c.kind \in {"site", "admin"} => c.form.entry # None
  /\ c.deaf => c.reply = "pending"

(* The type of the wizard. *)
Fits(z) == z \in Wizards /\ IsFiniteSet(z.calls) /\ \A c \in z.calls : Filled(c)

(***************************************************************************)
(* Requests                                                                *)
(***************************************************************************)
LEMMA FreeIdIsNat == ASSUME NEW z, IsFiniteSet(z.calls) PROVE FreeId(z) \in Nat
<1> DEFINE ids == {c.id : c \in z.calls}
           n == Cardinality(z.calls)
<1>1. n \in Nat
  BY FS_CardinalityType
<1>2. IsFiniteSet(ids) /\ Cardinality(ids) <= n
  <2> DEFINE f == [c \in z.calls |-> c.id]
  <2>1. f \in Surjection(z.calls, ids)
    BY DEF Surjection
  <2> QED
    BY <2>1, FS_Surjection
<1>3. IsFiniteSet(1 .. n + 1) /\ Cardinality(1 .. n + 1) = n + 1
  BY <1>1, FS_Interval
<1>4. \E i \in 1 .. n + 1 : \A c \in z.calls : c.id # i
  <2>1. SUFFICES ASSUME 1 .. n + 1 \subseteq ids PROVE FALSE
    OBVIOUS
  <2>2. Cardinality(1 .. n + 1) <= Cardinality(ids)
    BY <1>2, <2>1, FS_Subset
  <2>3. Cardinality(ids) \in Nat
    BY <1>2, FS_CardinalityType
  <2> QED
    BY <1>1, <1>2, <1>3, <2>2, <2>3
<1> QED
  BY <1>1, <1>4 DEF FreeId

LEMMA CallFits ==
  ASSUME NEW z, Fits(z), NEW kind \in Kinds, NEW form \in Forms,
         \A i : Filled([id |-> i, kind |-> kind, form |-> form, reply |-> "pending", deaf |-> FALSE])
  PROVE  /\ Fits(Call(z, kind, form))
         /\ \E d \in Calls : /\ d.kind = kind /\ d.form = form /\ d.reply = "pending"
                             /\ Call(z, kind, form) = [z EXCEPT !.calls = @ \cup {d}]
<1> DEFINE d == [id |-> FreeId(z), kind |-> kind, form |-> form, reply |-> "pending", deaf |-> FALSE]
<1>1. d \in Calls
  BY FreeIdIsNat DEF Fits, Calls, Replies
<1>2. Call(z, kind, form) = [z EXCEPT !.calls = @ \cup {d}]
  BY DEF Call
<1>3. [z EXCEPT !.calls = @ \cup {d}] \in Wizards
  BY <1>1 DEF Fits, Wizards
<1>4. IsFiniteSet(z.calls \cup {d})
  BY FS_AddElement DEF Fits
<1>5. Filled(d)
  OBVIOUS
<1>6. Fits([z EXCEPT !.calls = @ \cup {d}])
  BY <1>3, <1>4, <1>5 DEF Fits, Wizards
<1> QED
  BY <1>1, <1>2, <1>6

(***************************************************************************)
(* The invariant                                                           *)
(***************************************************************************)
(* What step needs to have been stored. *)
Opened(u, step) ==
  /\ step >= 2 => u.discovery # None
  /\ step >= 3 => u.network # None
  /\ step = 4 => u.site # None /\ u.admin # None
(* What has been stored when a request of a kind is in flight, and when it *)
(* has been accepted.                                                     *)
Grounded(u, kind, reply) ==
  /\ kind = "network" => Opened(u, 2)
  /\ kind \in {"storage", "site"} => Opened(u, 3)
  /\ kind = "admin" => Opened(u, 3) /\ u.site # None
  /\ reply = "ok" =>
       /\ kind = "discovery" => Opened(u, 2)
       /\ kind = "network" => Opened(u, 3)
       /\ kind = "site" => u.site # None
       /\ kind = "admin" => Opened(u, 4)

(* Neither what is shown nor what is asked is ahead of the recorder. *)
Behind(z) ==
  z.orphaned \/ /\ \A step \in z.page.shown : Opened(z.unit, step)
                /\ \A c \in z.calls : ~ c.deaf => Grounded(z.unit, c.kind, c.reply)
Safe(z) == Fits(z) /\ Behind(z)

(***************************************************************************)
(* What keeps it: requests, history, and changes of the page               *)
(***************************************************************************)
LEMMA CallKeeps ==
  ASSUME NEW z, Safe(z), NEW kind \in Kinds, NEW form \in Forms,
         \A i : Filled([id |-> i, kind |-> kind, form |-> form, reply |-> "pending", deaf |-> FALSE]),
         z.orphaned \/ Grounded(z.unit, kind, "pending")
  PROVE  Safe(Call(z, kind, form))
<1>1. PICK d \in Calls : /\ d.kind = kind /\ d.form = form /\ d.reply = "pending"
                         /\ Call(z, kind, form) = [z EXCEPT !.calls = @ \cup {d}]
  BY CallFits DEF Safe
<1>2. Fits(Call(z, kind, form))
  BY CallFits DEF Safe
<1>3. Behind([z EXCEPT !.calls = @ \cup {d}])
  BY <1>1 DEF Safe, Fits, Wizards, Behind
<1> QED
  BY <1>1, <1>2, <1>3 DEF Safe

LEMMA Kept ==
  ASSUME NEW z, NEW y, Safe(z), Fits(y), y.unit = z.unit, y.orphaned = z.orphaned,
         y.calls \subseteq z.calls, y.page.shown \subseteq z.page.shown
  PROVE  Safe(y)
BY DEF Safe, Behind

LEMMA ClickedSafe ==
  ASSUME Safe(wizard)
  PROVE  /\ Safe(Clicked) /\ Safe(Confirmed) /\ Safe(Strayed)
         /\ \A z \in {Clicked, Confirmed, Strayed} :
              /\ z.page = wizard.page /\ z.unit = wizard.unit
              /\ z.calls = wizard.calls /\ z.orphaned = wizard.orphaned
<1> DEFINE hurried == wizard.hurried \/ Busy(wizard, Moves)
           clicks == wizard.clicks + 1
<1>1. hurried \in BOOLEAN /\ clicks \in Nat
  BY DEF Safe, Fits, Wizards, Busy
<1>2. Clicked = [wizard EXCEPT !.clicks = clicks, !.hurried = hurried]
  BY DEF Clicked
<1> HIDE DEF hurried, clicks
<1>3. Clicked \in Wizards
  BY <1>1, <1>2 DEF Safe, Fits, Wizards
<1>4. /\ Clicked.page = wizard.page /\ Clicked.unit = wizard.unit
      /\ Clicked.calls = wizard.calls /\ Clicked.orphaned = wizard.orphaned
  BY <1>2 DEF Safe, Fits, Wizards
<1>5. Safe(Clicked)
  BY <1>3, <1>4, Kept DEF Safe, Fits
<1>6. ASSUME NEW z, Safe(z)
      PROVE  /\ Safe(Detour(z)) /\ Detour(z).page = z.page /\ Detour(z).unit = z.unit
             /\ Detour(z).calls = z.calls /\ Detour(z).orphaned = z.orphaned
  <2>1. /\ Detour(z) \in Wizards /\ Detour(z).page = z.page /\ Detour(z).unit = z.unit
        /\ Detour(z).calls = z.calls /\ Detour(z).orphaned = z.orphaned
    BY <1>6 DEF Safe, Fits, Wizards, Detour
  <2> QED
    BY <1>6, <2>1, Kept DEF Safe, Fits
<1> QED
  BY <1>4, <1>5, <1>6 DEF Confirmed, Strayed

LEMMA PageSafe ==
  ASSUME NEW z, Safe(z), NEW p \in Pages, p.shown \subseteq z.page.shown
  PROVE  Safe([z EXCEPT !.page = p])
<1>1. [z EXCEPT !.page = p] \in Wizards
  BY DEF Safe, Fits, Wizards
<1> DEFINE y == [z EXCEPT !.page = p]
<1>2. y.unit = z.unit /\ y.calls = z.calls /\ y.orphaned = z.orphaned /\ y.page = p
  BY DEF Safe, Fits, Wizards
<1> HIDE DEF y
<1> QED
  BY <1>1, <1>2, Kept DEF Safe, Fits, y

LEMMA ShowSafe ==
  ASSUME NEW z, Safe(z), NEW from \in 1 .. 4, NEW to \in 1 .. 4,
         z.orphaned \/ Opened(z.unit, to)
  PROVE  /\ Safe(Show(z, from, to)) /\ Show(z, from, to).unit = z.unit
         /\ Show(z, from, to).orphaned = z.orphaned
<1> DEFINE y == Show(z, from, to)
<1>1. y \in Wizards
  BY DEF Safe, Fits, Wizards, Pages, Show
<1>2. /\ y.unit = z.unit /\ y.calls = z.calls /\ y.orphaned = z.orphaned
      /\ y.page.shown = (z.page.shown \ {from}) \cup {to}
  BY DEF Safe, Fits, Wizards, Pages, Show
<1> HIDE DEF y
<1> QED
  BY <1>1, <1>2 DEF Safe, Fits, Behind, y

LEMMA Blank == NoForm \in Forms
BY DEF NoForm, Forms, OrNone

LEMMA LoadSafe == ASSUME NEW z, Safe(z) PROVE Safe(LoadStorageStats(z))
<1> DEFINE y == [z EXCEPT !.page = [z.page EXCEPT !.abnormal = FALSE]]
<1>1. [z.page EXCEPT !.abnormal = FALSE] \in Pages
  BY DEF Safe, Fits, Wizards, Pages
<1>2. Safe(y)
  BY <1>1, PageSafe DEF Safe, Fits, Wizards, Pages
<1>3. LoadStorageStats(z) = Call(y, "status", NoForm)
  BY DEF LoadStorageStats, Safe, Fits, Wizards
<1> HIDE DEF y
<1>4. Grounded(y.unit, "status", "pending") /\ "status" \in Kinds
  BY DEF Grounded, Kinds
<1> QED
  BY <1>2, <1>3, <1>4, Blank, CallKeeps DEF Filled

LEMMA TestSafe == ASSUME NEW z, Safe(z) PROVE Safe(TestNetwork(z))
<1>1. Grounded(z.unit, "test", "pending") /\ "test" \in Kinds
  BY DEF Grounded, Kinds
<1> QED
  BY <1>1, Blank, CallKeeps DEF Filled, TestNetwork

(***************************************************************************)
(* Clicks                                                                  *)
(***************************************************************************)
LEMMA EditsSafe ==
  ASSUME Safe(wizard), EditList \/ EditNetwork \/ EditEntry PROVE Safe(wizard')
<1>1. Safe(Strayed) /\ Strayed.page \in Pages
  BY ClickedSafe DEF Safe, Fits, Wizards
<1>2. ASSUME NEW l \in Lists, wizard' = [Strayed EXCEPT !.page.list = l] PROVE Safe(wizard')
  <2>1. [Strayed.page EXCEPT !.list = l] \in Pages
    BY <1>1 DEF Pages
  <2>2. Safe([Strayed EXCEPT !.page = [Strayed.page EXCEPT !.list = l]])
    BY <1>1, <2>1, PageSafe DEF Pages
  <2> QED
    BY <1>1, <1>2, <2>2 DEF Safe, Fits, Wizards
<1>3. ASSUME NEW m \in Modes, wizard' = [Strayed EXCEPT !.page.net = m] PROVE Safe(wizard')
  <2>1. [Strayed.page EXCEPT !.net = m] \in Pages
    BY <1>1 DEF Pages
  <2>2. Safe([Strayed EXCEPT !.page = [Strayed.page EXCEPT !.net = m]])
    BY <1>1, <2>1, PageSafe DEF Pages
  <2> QED
    BY <1>1, <1>3, <2>2 DEF Safe, Fits, Wizards
<1>4. ASSUME NEW e \in Entries, wizard' = [Strayed EXCEPT !.page.entry = e] PROVE Safe(wizard')
  <2>1. [Strayed.page EXCEPT !.entry = e] \in Pages
    BY <1>1 DEF Pages
  <2>2. Safe([Strayed EXCEPT !.page = [Strayed.page EXCEPT !.entry = e]])
    BY <1>1, <2>1, PageSafe DEF Pages
  <2> QED
    BY <1>1, <1>4, <2>2 DEF Safe, Fits, Wizards
<1> QED
  BY <1>2, <1>3, <1>4 DEF EditList, EditNetwork, EditEntry

LEMMA FinalizeGridSafe ==
  ASSUME SetupInputs, Safe(wizard), FinalizeGrid PROVE Safe(wizard')
<1> DEFINE list == wizard.page.list
           p == [Confirmed.page EXCEPT !.verified = list]
           form == [NoForm EXCEPT !.list = list]
           z == [Confirmed EXCEPT !.page = p]
<1>1. Safe(Confirmed) /\ Confirmed.page \in Pages /\ list \in Lists /\ list # None
  BY ClickedSafe DEF Safe, Fits, Wizards, Pages, SetupInputs
<1>2. p \in Pages /\ p.shown = Confirmed.page.shown
  BY <1>1 DEF Pages, OrNone
<1>3. form \in Forms /\ form.list # None
  BY <1>1 DEF NoForm, Forms, OrNone
<1>4. Safe(z)
  BY <1>1, <1>2, PageSafe
<1>5. wizard' = Call(z, "discovery", form)
  BY <1>1 DEF FinalizeGrid, Safe, Fits, Wizards
<1>6. "discovery" \in Kinds /\ Grounded(z.unit, "discovery", "pending")
  BY DEF Kinds, Moves, Grounded
<1> HIDE DEF z, form
<1>7. Safe(Call(z, "discovery", form))
  BY <1>3, <1>4, <1>6, CallKeeps DEF Filled
<1> QED
  BY <1>5, <1>7

LEMMA AsksSafe ==
  ASSUME Safe(wizard), RefreshStatus \/ AskNetwork \/ ApplyNetwork PROVE Safe(wizard')
<1>1. Safe(Strayed) /\ wizard.page.net \in Modes /\ "none" \notin Modes
  BY ClickedSafe DEF Safe, Fits, Wizards, Pages, Modes
<1>2. CASE RefreshStatus
  BY <1>1, <1>2, LoadSafe DEF RefreshStatus
<1>3. CASE AskNetwork
  BY <1>1, <1>3, TestSafe DEF AskNetwork
<1>4. CASE ApplyNetwork
  <2> DEFINE form == [NoForm EXCEPT !.net = wizard.page.net]
  <2>1. form \in Forms /\ form.net # None
    BY <1>1 DEF NoForm, Forms, OrNone, None
  <2>2. "apply_network" \in Kinds /\ Grounded(Strayed.unit, "apply_network", "pending")
    BY DEF Kinds, Moves, Grounded
  <2>3. wizard' = Call(Strayed, "apply_network", form)
    BY <1>4 DEF ApplyNetwork
  <2> HIDE DEF form
  <2> QED
    BY <1>1, <2>1, <2>2, <2>3, CallKeeps DEF Filled
<1> QED
  BY <1>2, <1>3, <1>4

LEMMA FormatSafe ==
  ASSUME Safe(wizard), FormatHardDrive PROVE Safe(wizard')
<1> DEFINE p == [Strayed.page EXCEPT !.lock = "format"]
           z == [Strayed EXCEPT !.page = p]
<1>1. Safe(Strayed) /\ Strayed.page \in Pages
  BY ClickedSafe DEF Safe, Fits, Wizards
<1>2. p \in Pages /\ p.shown = Strayed.page.shown
  BY <1>1 DEF Pages
<1>3. Safe(z)
  BY <1>1, <1>2, PageSafe
<1>4. wizard' = Call(z, "format", NoForm)
  BY <1>1 DEF FormatHardDrive, Safe, Fits, Wizards
<1>5. "format" \in Kinds /\ Grounded(z.unit, "format", "pending")
  BY DEF Kinds, Grounded
<1> HIDE DEF z
<1> QED
  BY <1>3, <1>4, <1>5, Blank, CallKeeps DEF Filled

LEMMA ProceedToStep3Safe ==
  ASSUME Safe(wizard), ProceedToStep3 PROVE Safe(wizard')
<1> DEFINE net == wizard.page.net
           p == [Confirmed.page EXCEPT !.sent = net]
           blind == Confirmed.blind \/ Busy(wizard, {"status"})
           y == [Confirmed EXCEPT !.page = p]
           z == [y EXCEPT !.blind = blind]
<1>1. PICK skip \in BOOLEAN :
        /\ CanConfirm(2)
        /\ wizard' = Call([Confirmed EXCEPT !.page.sent = net, !.blind = @ \/ Busy(wizard, {"status"})],
                          "network", [NoForm EXCEPT !.net = net, !.skip = skip])
  BY DEF ProceedToStep3
<1> DEFINE form == [NoForm EXCEPT !.net = net, !.skip = skip]
<1>2. /\ Safe(Confirmed) /\ Confirmed.page \in Pages /\ Confirmed \in Wizards
      /\ net \in Modes /\ net # None /\ Confirmed.unit = wizard.unit
      /\ Confirmed.orphaned = wizard.orphaned
  BY ClickedSafe DEF Safe, Fits, Wizards, Pages, Modes, None
<1>3. p \in Pages /\ p.shown = Confirmed.page.shown
  BY <1>2 DEF Pages, OrNone
<1>4. Safe(y)
  BY <1>2, <1>3, PageSafe
<1>5. form \in Forms /\ form.net # None
  BY <1>2 DEF NoForm, Forms, OrNone
<1>6. blind \in BOOLEAN
  BY <1>2 DEF Wizards, Busy
<1>7. wizard' = Call(z, "network", form)
  BY <1>1, <1>2 DEF Wizards
<1>8. y.unit = wizard.unit /\ y.orphaned = wizard.orphaned
  BY <1>2 DEF Wizards
<1> HIDE DEF blind, y, form
<1>9. Safe(z) /\ z.unit = wizard.unit /\ z.orphaned = wizard.orphaned
  <2>1. z \in Wizards /\ z.unit = y.unit /\ z.orphaned = y.orphaned /\ z.calls = y.calls
        /\ z.page = y.page
    BY <1>4, <1>6 DEF Safe, Fits, Wizards
  <2> QED
    BY <1>4, <1>8, <2>1, Kept DEF Safe, Fits
<1>10. 2 \in wizard.page.shown
  BY <1>1 DEF CanConfirm, CanClick
<1>11. "network" \in Kinds /\ (wizard.orphaned \/ Grounded(wizard.unit, "network", "pending"))
  BY <1>10 DEF Kinds, Moves, Grounded, Safe, Behind
<1> HIDE DEF z
<1> QED
  BY <1>5, <1>7, <1>9, <1>11, CallKeeps DEF Filled

LEMMA AskCloudSafe ==
  ASSUME Safe(wizard), AskCloud PROVE Safe(wizard')
<1>1. PICK kind \in Cloud \ {"unlink"}, a \in Accounts :
        wizard' = Call([Strayed EXCEPT !.page.creds = a], kind, [NoForm EXCEPT !.account = a])
  BY DEF AskCloud
<1> DEFINE p == [Strayed.page EXCEPT !.creds = a]
           z == [Strayed EXCEPT !.page = p]
           form == [NoForm EXCEPT !.account = a]
<1>2. Safe(Strayed) /\ Strayed.page \in Pages
  BY ClickedSafe DEF Safe, Fits, Wizards
<1>3. p \in Pages /\ p.shown = Strayed.page.shown
  BY <1>2 DEF Pages, OrNone
<1>4. Safe(z)
  BY <1>2, <1>3, PageSafe
<1>5. wizard' = Call(z, kind, form)
  BY <1>1, <1>2 DEF Safe, Fits, Wizards
<1>6. /\ kind \in Kinds /\ Grounded(z.unit, kind, "pending")
      /\ kind \notin {"discovery", "network", "apply_network", "site", "admin"}
  BY DEF Kinds, Cloud, Grounded
<1>7. form \in Forms
  BY DEF NoForm, Forms, OrNone
<1> HIDE DEF z, form
<1> QED
  BY <1>4, <1>5, <1>6, <1>7, CallKeeps DEF Filled

LEMMA ProceedToStep4Safe ==
  ASSUME SetupInputs, Safe(wizard), ProceedToStep4 PROVE Safe(wizard')
<1> DEFINE entry == wizard.page.entry
           form == [NoForm EXCEPT !.entry = entry]
           hurried == Confirmed.hurried \/ Busy(wizard, Cloud)
           z == [Confirmed EXCEPT !.hurried = hurried]
<1>1. /\ Safe(Confirmed) /\ Confirmed \in Wizards /\ Confirmed.unit = wizard.unit
      /\ Confirmed.orphaned = wizard.orphaned /\ entry \in Entries /\ entry # None
  BY ClickedSafe DEF Safe, Fits, Wizards, Pages, SetupInputs
<1>2. form \in Forms /\ form.entry # None
  BY <1>1 DEF NoForm, Forms, OrNone
<1>3. hurried \in BOOLEAN
  BY <1>1 DEF Wizards, Busy
<1>4. wizard' = Call(z, "site", form)
  BY <1>1 DEF Wizards, ProceedToStep4
<1> HIDE DEF hurried, form
<1>5. Safe(z) /\ z.unit = wizard.unit /\ z.orphaned = wizard.orphaned
  <2>1. z \in Wizards /\ z.unit = Confirmed.unit /\ z.orphaned = Confirmed.orphaned
        /\ z.calls = Confirmed.calls /\ z.page = Confirmed.page
    BY <1>1, <1>3 DEF Wizards
  <2> QED
    BY <1>1, <2>1, Kept DEF Safe, Fits
<1>6. 3 \in wizard.page.shown
  BY DEF ProceedToStep4, CanConfirm, CanClick
<1>7. "site" \in Kinds /\ (wizard.orphaned \/ Grounded(wizard.unit, "site", "pending"))
  BY <1>6 DEF Kinds, Moves, Grounded, Safe, Behind
<1> HIDE DEF z
<1> QED
  BY <1>2, <1>4, <1>5, <1>7, CallKeeps DEF Filled

LEMMA ApplyAndRebootSafe ==
  ASSUME Safe(wizard), ApplyAndReboot PROVE Safe(wizard')
<1> DEFINE p == [Confirmed.page EXCEPT !.applying = TRUE]
           z == [Confirmed EXCEPT !.page = p]
           form == Payload(wizard.page)
<1>1. Safe(Confirmed) /\ Confirmed.page \in Pages /\ wizard.page \in Pages
  BY ClickedSafe DEF Safe, Fits, Wizards
<1>2. p \in Pages /\ p.shown = Confirmed.page.shown
  BY <1>1 DEF Pages
<1>3. Safe(z)
  BY <1>1, <1>2, PageSafe
<1>4. form \in Forms
  BY <1>1 DEF Payload, NoForm, Forms, Pages, OrNone
<1>5. wizard' = Call(z, "finalize", form)
  BY <1>1 DEF ApplyAndReboot, Safe, Fits, Wizards
<1>6. "finalize" \in Kinds /\ Grounded(z.unit, "finalize", "pending")
  BY DEF Kinds, Moves, Grounded
<1> HIDE DEF z, form
<1> QED
  BY <1>3, <1>4, <1>5, <1>6, CallKeeps DEF Filled

LEMMA GoBackSafe ==
  ASSUME Safe(wizard), GoBack PROVE Safe(wizard')
<1> DEFINE going == Strayed.reconsidered \/ wizard.aborted
           z == [Strayed EXCEPT !.reconsidered = going]
<1>1. PICK step \in 2 .. 4 : step \in wizard.page.shown /\ wizard' = Show(z, step, step - 1)
  BY DEF GoBack, CanStray, CanClick
<1>2. /\ Safe(Strayed) /\ Strayed \in Wizards /\ wizard \in Wizards
      /\ Strayed.unit = wizard.unit /\ Strayed.orphaned = wizard.orphaned
  BY ClickedSafe DEF Safe, Fits
<1>3. going \in BOOLEAN
  BY <1>2 DEF Wizards
<1> HIDE DEF going
<1>4. Safe(z) /\ z.unit = wizard.unit /\ z.orphaned = wizard.orphaned
  <2>1. z \in Wizards /\ z.unit = Strayed.unit /\ z.orphaned = Strayed.orphaned
        /\ z.calls = Strayed.calls /\ z.page = Strayed.page
    BY <1>2, <1>3 DEF Wizards
  <2> QED
    BY <1>2, <2>1, Kept DEF Safe, Fits
<1>5. wizard.orphaned \/ Opened(wizard.unit, step)
  BY <1>1 DEF Safe, Behind
<1>6. wizard.orphaned \/ Opened(wizard.unit, step - 1)
  BY <1>5 DEF Opened
<1>7. step \in 1 .. 4 /\ step - 1 \in 1 .. 4
  OBVIOUS
<1> HIDE DEF z
<1> QED
  BY <1>1, <1>4, <1>6, <1>7, ShowSafe

LEMMA ReloadSafe ==
  ASSUME SetupInputs, Safe(wizard), Reload PROVE Safe(wizard')
<1> DEFINE p == Page(AList, AnEntry, wizard.page.sent)
           asked == {c \in wizard.calls : c.reply = "pending"}
           calls == {[c EXCEPT !.deaf = TRUE] : c \in asked}
           clicks == wizard.clicks + 1
<1>1. wizard' = [wizard EXCEPT !.page = p, !.calls = calls, !.clicks = clicks]
  BY DEF Reload
<1>2. p \in Pages /\ p.shown = {1}
  <2>1. AList \in Lists /\ AnEntry \in Entries /\ wizard.page.sent \in OrNone(Modes)
    BY DEF AList, AnEntry, SetupInputs, Safe, Fits, Wizards, Pages
  <2>2. NoReport \in Reports
    BY DEF NoReport, Reports, OrNone
  <2> QED
    BY <2>1, <2>2 DEF Page, Pages, OrNone, Modes
<1>3. IsFiniteSet(calls)
  <2> DEFINE f == [c \in asked |-> [c EXCEPT !.deaf = TRUE]]
  <2>1. f \in Surjection(asked, calls)
    BY DEF Surjection
  <2>2. IsFiniteSet(asked)
    BY FS_Subset DEF Safe, Fits
  <2> QED
    BY <2>1, <2>2, FS_Surjection
<1>4. calls \in SUBSET Calls /\ \A d \in calls : Filled(d) /\ d.deaf
  <2>1. SUFFICES ASSUME NEW c \in asked
                 PROVE  /\ [c EXCEPT !.deaf = TRUE] \in Calls /\ Filled([c EXCEPT !.deaf = TRUE])
                        /\ [c EXCEPT !.deaf = TRUE].deaf
    OBVIOUS
  <2>2. c \in Calls /\ Filled(c)
    BY DEF Safe, Fits, Wizards
  <2> QED
    BY <2>2 DEF Calls, Filled
<1>5. clicks \in Nat
  BY DEF Safe, Fits, Wizards
<1> HIDE DEF p, calls, clicks
<1>6. wizard' \in Wizards
  BY <1>1, <1>2, <1>4, <1>5 DEF Safe, Fits, Wizards
<1>7. /\ wizard'.page = p /\ wizard'.calls = calls
  BY <1>1 DEF Safe, Fits, Wizards
<1> QED
  BY <1>2, <1>3, <1>4, <1>6, <1>7 DEF Safe, Fits, Behind, Opened

(***************************************************************************)
(* The recorder                                                            *)
(***************************************************************************)
LEMMA CallsSafe ==
  ASSUME NEW z, Safe(z), NEW S \in SUBSET Calls, IsFiniteSet(S), \A c \in S : Filled(c),
         z.orphaned \/ \A c \in S : c.deaf \/ c \in z.calls \/ Grounded(z.unit, c.kind, c.reply)
  PROVE  /\ Safe([z EXCEPT !.calls = S])
         /\ [z EXCEPT !.calls = S].unit = z.unit /\ [z EXCEPT !.calls = S].page = z.page
         /\ [z EXCEPT !.calls = S].orphaned = z.orphaned
<1> DEFINE y == [z EXCEPT !.calls = S]
<1>1. /\ y \in Wizards /\ y.unit = z.unit /\ y.calls = S /\ y.orphaned = z.orphaned
      /\ y.page = z.page
  BY DEF Safe, Fits, Wizards
<1> HIDE DEF y
<1>2. Fits(y)
  BY <1>1 DEF Fits
<1>3. Behind(y)
  <2>1. CASE z.orphaned
    BY <1>1, <2>1 DEF Behind
  <2>2. CASE ~ z.orphaned
    <3>1. \A step \in z.page.shown : Opened(z.unit, step)
      BY <2>2 DEF Safe, Behind
    <3>2. \A c \in S : ~ c.deaf => Grounded(z.unit, c.kind, c.reply)
      BY <2>2 DEF Safe, Behind
    <3> QED
      BY <1>1, <3>1, <3>2 DEF Behind
  <2> QED
    BY <2>1, <2>2
<1> QED
  BY <1>1, <1>2, <1>3 DEF Safe, y

LEMMA DeafFits ==
  ASSUME NEW c \in Calls, Filled(c), c.reply = "pending"
  PROVE  [c EXCEPT !.deaf = TRUE] \in Calls /\ Filled([c EXCEPT !.deaf = TRUE])
         /\ [c EXCEPT !.deaf = TRUE].deaf
BY DEF Calls, Filled

LEMMA RepliedFits ==
  ASSUME NEW c \in Calls, Filled(c), ~ c.deaf, NEW reply \in Replies
  PROVE  /\ [c EXCEPT !.reply = reply] \in Calls /\ Filled([c EXCEPT !.reply = reply])
         /\ [c EXCEPT !.reply = reply].kind = c.kind /\ [c EXCEPT !.reply = reply].reply = reply
BY DEF Calls, Filled

(* Nothing that was stored is taken back. *)
Grows(u, v) ==
  /\ u.discovery # None => v.discovery # None
  /\ u.network # None => v.network # None
  /\ u.site # None => v.site # None
  /\ u.admin # None => v.admin # None

LEMMA GrownStays ==
  ASSUME NEW u, NEW v, Grows(u, v)
  PROVE  /\ \A step : Opened(u, step) => Opened(v, step)
         /\ \A kind, reply : Grounded(u, kind, reply) => Grounded(v, kind, reply)
BY DEF Grows, Opened, Grounded

LEMMA UnitSafe ==
  ASSUME NEW z, Safe(z), NEW u \in Units, Grows(z.unit, u)
  PROVE  /\ Safe([z EXCEPT !.unit = u]) /\ [z EXCEPT !.unit = u].page = z.page
         /\ [z EXCEPT !.unit = u].calls = z.calls /\ [z EXCEPT !.unit = u].unit = u
         /\ [z EXCEPT !.unit = u].orphaned = z.orphaned
<1> DEFINE y == [z EXCEPT !.unit = u]
<1>1. /\ y \in Wizards /\ y.page = z.page /\ y.calls = z.calls /\ y.unit = u
      /\ y.orphaned = z.orphaned
  BY DEF Safe, Fits, Wizards
<1> HIDE DEF y
<1>2. Fits(y)
  BY <1>1 DEF Safe, Fits
<1>3. Behind(y)
  BY <1>1, GrownStays DEF Safe, Behind
<1> QED
  BY <1>1, <1>2, <1>3 DEF Safe, y

LEMMA HistorySafe ==
  ASSUME NEW z, Safe(z)
  PROVE  /\ \A b \in BOOLEAN : Safe([z EXCEPT !.astray = b])
         /\ \A b \in BOOLEAN : Safe([z EXCEPT !.aborted = b])
         /\ Safe([z EXCEPT !.orphaned = TRUE])
<1>1. ASSUME NEW b \in BOOLEAN PROVE Safe([z EXCEPT !.astray = b])
  <2> DEFINE y == [z EXCEPT !.astray = b]
  <2>1. /\ y \in Wizards /\ y.page = z.page /\ y.calls = z.calls /\ y.unit = z.unit
        /\ y.orphaned = z.orphaned
    BY DEF Safe, Fits, Wizards
  <2> QED
    BY <2>1, Kept DEF Safe, Fits
<1>2. ASSUME NEW b \in BOOLEAN PROVE Safe([z EXCEPT !.aborted = b])
  <2> DEFINE y == [z EXCEPT !.aborted = b]
  <2>1. /\ y \in Wizards /\ y.page = z.page /\ y.calls = z.calls /\ y.unit = z.unit
        /\ y.orphaned = z.orphaned
    BY DEF Safe, Fits, Wizards
  <2> QED
    BY <2>1, Kept DEF Safe, Fits
<1>3. Safe([z EXCEPT !.orphaned = TRUE])
  <2> DEFINE y == [z EXCEPT !.orphaned = TRUE]
  <2>1. y \in Wizards /\ y.calls = z.calls /\ y.orphaned
    BY DEF Safe, Fits, Wizards
  <2> HIDE DEF y
  <2>2. Safe(y)
    BY <2>1 DEF Safe, Fits, Behind
  <2> QED
    BY <2>2 DEF y
<1> QED
  BY <1>1, <1>2, <1>3

LEMMA StoreSafe ==
  ASSUME NEW z, Safe(z),
         NEW field, NEW value,
         \/ field = "discovery" /\ value \in OrNone(Lists) \ {None}
         \/ field = "network" /\ value \in OrNone(Modes) \ {None}
         \/ field = "storage" /\ value = "use_existing"
         \/ field \in {"site", "admin"} /\ value \in OrNone(Entries) \ {None}
         \/ field = "applied" /\ value \in Forms
  PROVE  /\ Safe(Store(z, field, value)) /\ Store(z, field, value).calls = z.calls
         /\ Store(z, field, value).page = z.page
         /\ \/ Store(z, field, value).orphaned
            \/ /\ Grows(z.unit, Store(z, field, value).unit)
               /\ Store(z, field, value).unit[field] = value
<1>1. CASE z.unit.daemon = "current"
  <2> DEFINE u == [z.unit EXCEPT ![field] = value]
  <2>1. z.unit \in Units
    BY DEF Safe, Fits, Wizards
  <2>2. u \in Units /\ Grows(z.unit, u) /\ u[field] = value
    <3>1. CASE field = "discovery"
      BY <2>1, <3>1 DEF Units, Grows
    <3>2. CASE field = "network"
      BY <2>1, <3>2 DEF Units, Grows
    <3>3. CASE field = "storage"
      BY <2>1, <3>3 DEF Units, Grows, OrNone
    <3>4. CASE field = "site"
      BY <2>1, <3>4 DEF Units, Grows
    <3>5. CASE field = "admin"
      BY <2>1, <3>5 DEF Units, Grows
    <3>6. CASE field = "applied"
      BY <2>1, <3>6 DEF Units, Grows
    <3> QED
      BY <3>1, <3>2, <3>3, <3>4, <3>5, <3>6
  <2>3. Store(z, field, value) = [z EXCEPT !.unit = u]
    BY <1>1 DEF Store, Safe, Fits, Wizards
  <2> HIDE DEF u
  <2> QED
    BY <2>2, <2>3, UnitSafe
<1>2. CASE z.unit.daemon # "current"
  <2>1. Store(z, field, value) = [z EXCEPT !.orphaned = TRUE]
    BY <1>2 DEF Store
  <2>2. /\ [z EXCEPT !.orphaned = TRUE].orphaned /\ [z EXCEPT !.orphaned = TRUE].calls = z.calls
        /\ [z EXCEPT !.orphaned = TRUE].page = z.page
    BY DEF Safe, Fits, Wizards
  <2> QED
    BY <2>1, <2>2, HistorySafe
<1> QED
  BY <1>1, <1>2

LEMMA EffectSafe ==
  ASSUME NEW z, Safe(z), NEW kind \in Kinds, NEW form \in Forms,
         \A i : Filled([id |-> i, kind |-> kind, form |-> form, reply |-> "pending", deaf |-> FALSE])
  PROVE  /\ Safe(Effect(z, kind, form)) /\ Effect(z, kind, form).calls = z.calls
         /\ Effect(z, kind, form).page = z.page
         /\ \/ Effect(z, kind, form).orphaned
            \/ /\ Grows(z.unit, Effect(z, kind, form).unit)
               /\ \A reply : Grounded(z.unit, kind, "pending") =>
                    Grounded(Effect(z, kind, form).unit, kind, reply)
<1>1. /\ form.list \in OrNone(Lists) /\ form.net \in OrNone(Modes) /\ form.entry \in OrNone(Entries)
      /\ form.account \in OrNone(Accounts)
  BY DEF Forms
<1>2. /\ kind = "discovery" => form.list # None
      /\ kind \in {"network", "apply_network"} => form.net # None
      /\ kind \in {"site", "admin"} => form.entry # None
  BY DEF Filled
<1>3. Grows(z.unit, z.unit)
  BY DEF Grows
<1>4. CASE kind = "discovery"
  <2>1. Effect(z, kind, form) = Store(z, "discovery", form.list)
    BY <1>4 DEF Effect
  <2> DEFINE y == Store(z, "discovery", form.list)
  <2>2. /\ Safe(y) /\ y.calls = z.calls /\ y.page = z.page
        /\ y.orphaned \/ (Grows(z.unit, y.unit) /\ y.unit.discovery # None)
    BY <1>1, <1>2, <1>4, StoreSafe
  <2> HIDE DEF y
  <2> QED
    BY <1>4, <2>1, <2>2 DEF Grounded, Opened, y
<1>5. CASE kind \in {"network", "apply_network"}
  <2>1. Effect(z, kind, form) = Store(z, "network", form.net)
    BY <1>5 DEF Effect
  <2> DEFINE y == Store(z, "network", form.net)
  <2>2. /\ Safe(y) /\ y.calls = z.calls /\ y.page = z.page
        /\ y.orphaned \/ (Grows(z.unit, y.unit) /\ y.unit.network # None)
    BY <1>1, <1>2, <1>5, StoreSafe
  <2> HIDE DEF y
  <2> QED
    BY <1>5, <2>1, <2>2 DEF Grounded, Opened, Grows, y
<1>6. CASE kind = "storage"
  <2>1. Effect(z, kind, form) = Store(z, "storage", "use_existing")
    BY <1>6 DEF Effect
  <2> DEFINE y == Store(z, "storage", "use_existing")
  <2>2. /\ Safe(y) /\ y.calls = z.calls /\ y.page = z.page
        /\ y.orphaned \/ Grows(z.unit, y.unit)
    BY StoreSafe
  <2> HIDE DEF y
  <2> QED
    BY <1>6, <2>1, <2>2 DEF Grounded, Opened, Grows, y
<1>7. CASE kind \in {"site", "admin"}
  <2>1. Effect(z, kind, form) = Store(z, kind, form.entry)
    BY <1>7 DEF Effect
  <2> DEFINE y == Store(z, kind, form.entry)
  <2>2. /\ Safe(y) /\ y.calls = z.calls /\ y.page = z.page
        /\ y.orphaned \/ (Grows(z.unit, y.unit) /\ y.unit[kind] # None)
    BY <1>1, <1>2, <1>7, StoreSafe
  <2> HIDE DEF y
  <2> QED
    BY <1>7, <2>1, <2>2 DEF Grounded, Opened, Grows, y
<1>8. ASSUME NEW a \in OrNone(Accounts)
      PROVE  /\ Safe([z EXCEPT !.unit.account = a]) /\ [z EXCEPT !.unit.account = a].calls = z.calls
             /\ [z EXCEPT !.unit.account = a].page = z.page
             /\ Grows(z.unit, [z EXCEPT !.unit.account = a].unit)
  <2> DEFINE u == [z.unit EXCEPT !.account = a]
  <2>1. u \in Units /\ Grows(z.unit, u)
    BY <1>8 DEF Safe, Fits, Wizards, Units, Grows
  <2>2. [z EXCEPT !.unit.account = a] = [z EXCEPT !.unit = u]
    BY DEF Safe, Fits, Wizards
  <2> HIDE DEF u
  <2> QED
    BY <2>1, <2>2, UnitSafe
<1>9. CASE kind \in {"link", "verify_otp"}
  <2>1. Effect(z, kind, form) = [z EXCEPT !.unit.account = form.account]
    BY <1>9 DEF Effect
  <2> DEFINE y == [z EXCEPT !.unit.account = form.account]
  <2>2. /\ Safe(y) /\ y.calls = z.calls /\ y.page = z.page /\ Grows(z.unit, y.unit)
    BY <1>1, <1>8
  <2> HIDE DEF y
  <2> QED
    BY <1>9, <2>1, <2>2 DEF Grounded, y
<1>10. CASE kind = "unlink"
  <2> DEFINE y == [z EXCEPT !.unit.account = None]
  <2>1. Effect(z, kind, form) = y \/ Effect(z, kind, form) = z
    BY <1>10 DEF Effect
  <2>2. /\ Safe(y) /\ y.calls = z.calls /\ y.page = z.page /\ Grows(z.unit, y.unit)
    BY <1>8 DEF OrNone
  <2> HIDE DEF y
  <2> QED
    BY <1>3, <1>10, <2>1, <2>2 DEF Grounded
<1>11. CASE kind = "finalize"
  <2> DEFINE y == Store(z, "applied", form)
  <2>1. Effect(z, kind, form) = y \/ Effect(z, kind, form) = z
    BY <1>11 DEF Effect
  <2>2. /\ Safe(y) /\ y.calls = z.calls /\ y.page = z.page
        /\ y.orphaned \/ Grows(z.unit, y.unit)
    BY StoreSafe
  <2> HIDE DEF y
  <2> QED
    BY <1>3, <1>11, <2>1, <2>2 DEF Grounded
<1>12. CASE kind \in {"devices", "unlink_otp", "status", "test", "format", "restart", "poll"}
  <2>1. Effect(z, kind, form) = z
    BY <1>12 DEF Effect
  <2> QED
    BY <1>3, <1>12, <2>1 DEF Grounded
<1> QED
  BY <1>4, <1>5, <1>6, <1>7, <1>9, <1>10, <1>11, <1>12 DEF Kinds, Moves, Cloud

LEMMA OutcomeSafe ==
  ASSUME NEW z, Safe(z), NEW c \in z.calls, c.reply = "pending", NEW o \in Outcomes(z, c)
  PROVE  /\ Safe(o.after) /\ o.after.calls = z.calls /\ o.after.page = z.page /\ o.reply \in Replies
         /\ o.after.orphaned \/ c.deaf \/ Grounded(o.after.unit, c.kind, o.reply)
         /\ o.after.orphaned \/ c.deaf \/ Grounded(o.after.unit, c.kind, "lost")
<1>1. c \in Calls /\ Filled(c) /\ c.kind \in Kinds /\ c.form \in Forms /\ z.unit \in Units
  BY DEF Safe, Fits, Wizards, Calls
<1> DEFINE daemons == {"current", "stale", "leaving", "down", "degraded"}
           After(d, m) == [z EXCEPT !.unit = [z.unit EXCEPT !.drive = d, !.daemon = m]]
<1>2. ASSUME NEW d \in {"ext4", "other"}, NEW m \in daemons
      PROVE  Safe(After(d, m)) /\ After(d, m).calls = z.calls /\ After(d, m).page = z.page
  <2> DEFINE u == [z.unit EXCEPT !.drive = d, !.daemon = m]
  <2>1. u \in Units /\ Grows(z.unit, u)
    BY <1>1 DEF Units, Grows
  <2> HIDE DEF u
  <2> QED
    BY <2>1, UnitSafe DEF u
<1>3. z.unit.drive \in {"ext4", "other"} /\ z.unit.daemon \in daemons
  BY <1>1 DEF Units
<1>4. CASE c.kind = "format"
  <2>1. /\ o.reply \in {"restart", "ok", "refused"}
        /\ \/ o.after = [z EXCEPT !.unit.drive = "ext4", !.unit.daemon = "stale"]
           \/ o.after = [z EXCEPT !.unit.drive = "ext4"]
           \/ o.after = [z EXCEPT !.unit.drive = "other"]
    BY <1>4 DEF Outcomes
  <2>2. /\ [z EXCEPT !.unit.drive = "ext4", !.unit.daemon = "stale"] = After("ext4", "stale")
        /\ [z EXCEPT !.unit.drive = "ext4"] = After("ext4", z.unit.daemon)
        /\ [z EXCEPT !.unit.drive = "other"] = After("other", z.unit.daemon)
    BY <1>1 DEF Safe, Fits, Wizards, Units
  <2> HIDE DEF After
  <2>3. Safe(o.after) /\ o.after.calls = z.calls /\ o.after.page = z.page
    <3>1. CASE o.after = After("ext4", "stale")
      BY <1>2, <3>1
    <3>2. CASE o.after = After("ext4", z.unit.daemon)
      BY <1>2, <1>3, <3>2
    <3>3. CASE o.after = After("other", z.unit.daemon)
      BY <1>2, <1>3, <3>3
    <3> QED
      BY <2>1, <2>2, <3>1, <3>2, <3>3
  <2> QED
    BY <1>4, <2>1, <2>3 DEF Grounded, Replies
<1>5. CASE c.kind = "restart"
  <2> DEFINE y == After(z.unit.drive, "leaving")
  <2>1. /\ o.reply = "ok"
        /\ \/ o.after = [z EXCEPT !.unit.daemon = "down"]
           \/ o.after = [z EXCEPT !.unit.daemon = "leaving", !.astray = TRUE]
    BY <1>5 DEF Outcomes
  <2>2. /\ [z EXCEPT !.unit.daemon = "down"] = After(z.unit.drive, "down")
        /\ [z EXCEPT !.unit.daemon = "leaving", !.astray = TRUE] = [y EXCEPT !.astray = TRUE]
    BY <1>1 DEF Safe, Fits, Wizards, Units
  <2> HIDE DEF After
  <2>3. Safe(y) /\ y.calls = z.calls /\ y.page = z.page
    BY <1>2, <1>3
  <2> HIDE DEF y
  <2>4. /\ Safe([y EXCEPT !.astray = TRUE]) /\ [y EXCEPT !.astray = TRUE].calls = y.calls
        /\ [y EXCEPT !.astray = TRUE].page = y.page
    BY <2>3, HistorySafe DEF Safe, Fits, Wizards
  <2>5. Safe(o.after) /\ o.after.calls = z.calls /\ o.after.page = z.page
    <3>1. CASE o.after = After(z.unit.drive, "down")
      BY <1>2, <1>3, <3>1
    <3>2. CASE o.after = [y EXCEPT !.astray = TRUE]
      BY <2>3, <2>4, <3>2
    <3> QED
      BY <2>1, <2>2, <3>1, <3>2
  <2> QED
    BY <1>5, <2>1, <2>5 DEF Grounded, Replies
<1>6. CASE c.kind \notin {"format", "restart"}
  <2> DEFINE y == Effect(z, c.kind, c.form)
  <2>1. o = [after |-> y, reply |-> Reply(z, c.kind, c.form)]
    BY <1>6 DEF Outcomes
  <2>2. Reply(z, c.kind, c.form) \in Replies
    <3>1. z.unit.drive \in {"ext4", "other"} /\ (z.unit.network # None => z.unit.network \in Modes)
      BY <1>1 DEF Units, OrNone
    <3> QED
      BY <3>1 DEF Reply, Replies, Modes
  <2>3. /\ Safe(y) /\ y.calls = z.calls /\ y.page = z.page
        /\ \/ y.orphaned
           \/ /\ Grows(z.unit, y.unit)
              /\ \A reply : Grounded(z.unit, c.kind, "pending") => Grounded(y.unit, c.kind, reply)
    <3>1. \A i : Filled([id |-> i, kind |-> c.kind, form |-> c.form, reply |-> "pending", deaf |-> FALSE])
      BY <1>1 DEF Filled
    <3> QED
      BY <1>1, <3>1, EffectSafe
  <2>4. z.orphaned \/ c.deaf \/ Grounded(z.unit, c.kind, "pending")
    BY DEF Safe, Behind
  <2>5. z.orphaned => y.orphaned
    BY DEF Effect, Store, Safe, Fits, Wizards
  <2> HIDE DEF y
  <2> QED
    BY <2>1, <2>2, <2>3, <2>4, <2>5
<1> QED
  BY <1>4, <1>5, <1>6

LEMMA ReachedSafe ==
  ASSUME NEW z, Safe(z), NEW c \in z.calls, NEW reply \in Replies,
         z.orphaned \/ c.deaf \/ Grounded(z.unit, c.kind, reply)
  PROVE  Safe(Reached(z, c, reply))
<1> DEFINE d == [c EXCEPT !.reply = reply]
           S == (z.calls \ {c}) \cup IF c.deaf THEN {} ELSE {d}
<1>1. c \in Calls /\ Filled(c) /\ z.calls \subseteq Calls /\ IsFiniteSet(z.calls)
  BY DEF Safe, Fits, Wizards
<1>2. ~ c.deaf => d \in Calls /\ Filled(d) /\ d.kind = c.kind /\ d.reply = reply
  BY <1>1, RepliedFits
<1> HIDE DEF d
<1>3. IsFiniteSet(S)
  <2>1. IsFiniteSet(z.calls \ {c})
    BY <1>1, FS_RemoveElement
  <2>2. IsFiniteSet((z.calls \ {c}) \cup {d})
    BY <2>1, FS_AddElement
  <2> QED
    BY <2>1, <2>2
<1>4. S \in SUBSET Calls /\ \A x \in S : Filled(x)
  BY <1>1, <1>2 DEF Safe, Fits
<1>5. z.orphaned \/ \A x \in S : x.deaf \/ x \in z.calls \/ Grounded(z.unit, x.kind, x.reply)
  BY <1>2
<1> HIDE DEF S
<1>6. Safe([z EXCEPT !.calls = S])
  BY <1>3, <1>4, <1>5, CallsSafe
<1>7. Reached(z, c, reply) = [z EXCEPT !.calls = S]
  BY DEF Reached, S, d
<1> QED
  BY <1>6, <1>7

LEMMA DetourSafe ==
  ASSUME NEW z, Safe(z)
  PROVE  /\ Safe(Detour(z)) /\ Detour(z).page = z.page /\ Detour(z).unit = z.unit
         /\ Detour(z).calls = z.calls /\ Detour(z).orphaned = z.orphaned
<1>1. /\ Detour(z) \in Wizards /\ Detour(z).page = z.page /\ Detour(z).unit = z.unit
      /\ Detour(z).calls = z.calls /\ Detour(z).orphaned = z.orphaned
  BY DEF Safe, Fits, Wizards, Detour
<1> QED
  BY <1>1, Kept DEF Safe, Fits

LEMMA ServeSafe ==
  ASSUME Safe(wizard), Serve PROVE Safe(wizard')
<1>1. PICK c \in wizard.calls : /\ c.reply = "pending"
                                /\ \E o \in Outcomes(wizard, c) : wizard' = Reached(o.after, c, o.reply)
  BY DEF Serve
<1>2. PICK o \in Outcomes(wizard, c) : wizard' = Reached(o.after, c, o.reply)
  BY <1>1
<1> QED
  BY <1>1, <1>2, OutcomeSafe, ReachedSafe

LEMMA LoseSafe ==
  ASSUME Safe(wizard), Lose PROVE Safe(wizard')
<1>1. PICK c \in wizard.calls :
        /\ c.reply = "pending"
        /\ \/ wizard' = Reached(wizard, c, "lost")
           \/ wizard' = Reached([Detour(wizard) EXCEPT !.astray = @ \/ c.kind = "restart"], c, "lost")
           \/ \E o \in Outcomes(wizard, c) : wizard' = Reached(Detour(o.after), c, "lost")
  BY DEF Lose
<1>2. "lost" \in Replies
  BY DEF Replies
<1>3. wizard.orphaned \/ c.deaf \/ Grounded(wizard.unit, c.kind, "lost")
  <2>1. wizard.orphaned \/ c.deaf \/ Grounded(wizard.unit, c.kind, "pending")
    BY <1>1 DEF Safe, Behind
  <2> QED
    BY <2>1 DEF Grounded
<1>4. CASE wizard' = Reached(wizard, c, "lost")
  BY <1>2, <1>3, <1>4, ReachedSafe
<1>5. CASE wizard' = Reached([Detour(wizard) EXCEPT !.astray = @ \/ c.kind = "restart"], c, "lost")
  <2> DEFINE astray == Detour(wizard).astray \/ c.kind = "restart"
             y == [Detour(wizard) EXCEPT !.astray = astray]
  <2>1. Safe(Detour(wizard)) /\ Detour(wizard) \in Wizards
    BY DetourSafe DEF Safe, Fits
  <2>2. astray \in BOOLEAN
    BY <2>1 DEF Wizards
  <2>3. wizard' = Reached(y, c, "lost")
    BY <1>5
  <2> HIDE DEF astray
  <2>4. /\ y.unit = Detour(wizard).unit /\ y.calls = Detour(wizard).calls
        /\ y.orphaned = Detour(wizard).orphaned
    BY <2>1 DEF Wizards
  <2>5. Safe(y)
    BY <2>1, <2>2, HistorySafe
  <2> HIDE DEF y
  <2> QED
    BY <1>2, <1>3, <2>3, <2>4, <2>5, DetourSafe, ReachedSafe
<1>6. CASE \E o \in Outcomes(wizard, c) : wizard' = Reached(Detour(o.after), c, "lost")
  <2>1. PICK o \in Outcomes(wizard, c) : wizard' = Reached(Detour(o.after), c, "lost")
    BY <1>6
  <2> DEFINE y == Detour(o.after)
  <2>2. /\ Safe(o.after) /\ o.after.calls = wizard.calls
        /\ o.after.orphaned \/ c.deaf \/ Grounded(o.after.unit, c.kind, "lost")
    BY <1>1, OutcomeSafe
  <2>3. /\ Safe(y) /\ y.unit = o.after.unit /\ y.calls = wizard.calls
        /\ y.orphaned = o.after.orphaned
    BY <2>2, DetourSafe
  <2> HIDE DEF y
  <2>4. Safe(Reached(y, c, "lost"))
    BY <1>2, <2>2, <2>3, ReachedSafe
  <2> QED
    BY <2>1, <2>4 DEF y
<1> QED
  BY <1>1, <1>4, <1>5, <1>6

LEMMA RespawnSafe ==
  ASSUME Safe(wizard), Respawn PROVE Safe(wizard')
<1>1. PICK d \in {"current", "degraded", "down"} : wizard' = [wizard EXCEPT !.unit.daemon = d]
  BY DEF Respawn
<1> DEFINE u == [wizard.unit EXCEPT !.daemon = d]
<1>2. u \in Units /\ Grows(wizard.unit, u)
  BY DEF Safe, Fits, Wizards, Units, Grows
<1>3. wizard' = [wizard EXCEPT !.unit = u]
  BY <1>1 DEF Safe, Fits, Wizards
<1> HIDE DEF u
<1> QED
  BY <1>2, <1>3, UnitSafe

(***************************************************************************)
(* Answers                                                                 *)
(***************************************************************************)
LEMMA LockSafe ==
  ASSUME NEW z, Safe(z), NEW lock \in {"off", "format", "restart", "verify", "failed"}
  PROVE  Safe([z EXCEPT !.page.lock = lock])
<1> DEFINE p == [z.page EXCEPT !.lock = lock]
<1>1. p \in Pages /\ p.shown = z.page.shown
  BY DEF Safe, Fits, Wizards, Pages
<1>2. [z EXCEPT !.page.lock = lock] = [z EXCEPT !.page = p]
  BY DEF Safe, Fits, Wizards
<1> HIDE DEF p
<1> QED
  BY <1>1, <1>2, PageSafe

LEMMA FailSafe == ASSUME NEW z, Safe(z) PROVE Safe(FailFormatLock(z))
<1> DEFINE y == [z EXCEPT !.page.lock = "failed"]
<1>1. Safe(y)
  BY LockSafe
<1>2. FailFormatLock(z) = [y EXCEPT !.astray = TRUE]
  BY DEF FailFormatLock, Safe, Fits, Wizards
<1> HIDE DEF y
<1> QED
  BY <1>1, <1>2, HistorySafe

LEMMA AnsweredSafe ==
  ASSUME Safe(wizard), NEW c \in wizard.calls
  PROVE  LET z == [wizard EXCEPT !.calls = @ \ {c}]
         IN  /\ Safe(z) /\ z.unit = wizard.unit /\ z.orphaned = wizard.orphaned
             /\ z.page = wizard.page
<1> DEFINE S == wizard.calls \ {c}
<1>1. S \in SUBSET Calls /\ IsFiniteSet(S) /\ \A x \in S : Filled(x) /\ x \in wizard.calls
  BY FS_RemoveElement DEF Safe, Fits, Wizards
<1> HIDE DEF S
<1>2. /\ Safe([wizard EXCEPT !.calls = S]) /\ [wizard EXCEPT !.calls = S].unit = wizard.unit
      /\ [wizard EXCEPT !.calls = S].orphaned = wizard.orphaned
      /\ [wizard EXCEPT !.calls = S].page = wizard.page
  BY <1>1, CallsSafe
<1> QED
  BY <1>2 DEF S

LEMMA GiveUpSafe ==
  ASSUME Safe(wizard), GiveUp PROVE Safe(wizard')
<1>1. PICK c \in wizard.calls :
        \/ wizard' = LoadStorageStats(FailFormatLock([wizard EXCEPT !.calls = @ \ {c}]))
        \/ /\ c.reply = "pending"
           /\ wizard' = [wizard EXCEPT !.calls = (@ \ {c}) \cup {[c EXCEPT !.deaf = TRUE]},
                                       !.page.applying = FALSE, !.aborted = TRUE]
  BY DEF GiveUp
<1>2. CASE wizard' = LoadStorageStats(FailFormatLock([wizard EXCEPT !.calls = @ \ {c}]))
  BY <1>2, AnsweredSafe, FailSafe, LoadSafe
<1>3. CASE /\ c.reply = "pending"
           /\ wizard' = [wizard EXCEPT !.calls = (@ \ {c}) \cup {[c EXCEPT !.deaf = TRUE]},
                                       !.page.applying = FALSE, !.aborted = TRUE]
  <2> DEFINE d == [c EXCEPT !.deaf = TRUE]
             S == (wizard.calls \ {c}) \cup {d}
             y == [wizard EXCEPT !.calls = S]
             p == [y.page EXCEPT !.applying = FALSE]
             z == [y EXCEPT !.page = p]
  <2>1. d \in Calls /\ Filled(d) /\ d.deaf
    BY <1>3, DeafFits DEF Safe, Fits, Wizards
  <2>2. wizard' = [z EXCEPT !.aborted = TRUE]
    BY <1>3 DEF Safe, Fits, Wizards
  <2> HIDE DEF d
  <2>3. S \in SUBSET Calls /\ IsFiniteSet(S) /\ \A x \in S : Filled(x) /\ (x.deaf \/ x \in wizard.calls)
    BY <2>1, FS_RemoveElement, FS_AddElement DEF Safe, Fits, Wizards
  <2> HIDE DEF S
  <2>4. Safe(y)
    BY <2>3, CallsSafe
  <2> HIDE DEF y
  <2>5. p \in Pages /\ p.shown = y.page.shown
    BY <2>4 DEF Safe, Fits, Wizards, Pages
  <2>6. Safe(z)
    BY <2>4, <2>5, PageSafe
  <2> HIDE DEF z
  <2> QED
    BY <2>2, <2>6, HistorySafe
<1> QED
  BY <1>1, <1>2, <1>3

LEMMA BareCallSafe ==
  ASSUME NEW z, Safe(z), NEW form \in Forms,
         NEW kind \in {"status", "test", "format", "restart", "poll", "devices", "unlink"}
  PROVE  Safe(Call(z, kind, form))
<1>1. kind \in Kinds /\ Grounded(z.unit, kind, "pending")
  BY DEF Kinds, Cloud, Grounded
<1> QED
  BY <1>1, CallKeeps DEF Filled

LEMMA VerifySafe == ASSUME NEW z, Safe(z) PROVE Safe(Verify(z))
BY LockSafe, Blank, BareCallSafe DEF Verify

LEMMA TestToldSafe == ASSUME NEW z, Safe(z), NEW c PROVE Safe(TestTold(z, c))
<1>1. CASE c.reply \in Modes
  <2> DEFINE p == [z.page EXCEPT !.net = c.reply]
  <2>1. p \in Pages /\ p.shown = z.page.shown
    BY <1>1 DEF Safe, Fits, Wizards, Pages
  <2>2. TestTold(z, c) = [z EXCEPT !.page = p]
    BY <1>1 DEF TestTold, Safe, Fits, Wizards
  <2> HIDE DEF p
  <2> QED
    BY <2>1, <2>2, PageSafe
<1> QED
  BY <1>1 DEF TestTold

LEMMA StatusToldSafe == ASSUME NEW z, Safe(z), NEW c PROVE Safe(StatusTold(z, c))
<1> DEFINE abnormal == Abnormal(c.reply)
           p == [z.page EXCEPT !.abnormal = abnormal]
<1>1. abnormal \in BOOLEAN
  BY DEF Abnormal
<1>2. StatusTold(z, c) = [z EXCEPT !.page = p]
  BY DEF StatusTold, Safe, Fits, Wizards
<1> HIDE DEF abnormal
<1>3. p \in Pages /\ p.shown = z.page.shown
  BY <1>1 DEF Safe, Fits, Wizards, Pages
<1> HIDE DEF p
<1> QED
  BY <1>2, <1>3, PageSafe

LEMMA FormatToldSafe == ASSUME NEW z, Safe(z), NEW c PROVE Safe(FormatTold(z, c))
<1>1. Safe(Call([z EXCEPT !.page.lock = "restart"], "restart", NoForm))
  BY LockSafe, Blank, BareCallSafe
<1> QED
  BY <1>1, VerifySafe, FailSafe DEF FormatTold

LEMMA PollToldSafe == ASSUME NEW z, Safe(z), NEW c PROVE Safe(PollTold(z, c))
BY LockSafe, LoadSafe, VerifySafe DEF PollTold

LEMMA LinkSafe ==
  ASSUME NEW z, Safe(z), NEW linked \in BOOLEAN, NEW email \in OrNone(Accounts)
  PROVE  /\ Safe([z EXCEPT !.page.linked = linked, !.page.email = email])
         /\ Safe([z EXCEPT !.page.linked = linked])
<1> DEFINE p == [z.page EXCEPT !.linked = linked, !.email = email]
           q == [z.page EXCEPT !.linked = linked]
<1>1. p \in Pages /\ p.shown = z.page.shown /\ q \in Pages /\ q.shown = z.page.shown
  BY DEF Safe, Fits, Wizards, Pages
<1>2. /\ [z EXCEPT !.page.linked = linked, !.page.email = email] = [z EXCEPT !.page = p]
      /\ [z EXCEPT !.page.linked = linked] = [z EXCEPT !.page = q]
  BY DEF Safe, Fits, Wizards
<1> HIDE DEF p, q
<1> QED
  BY <1>1, <1>2, PageSafe

LEMMA FetchSafe == ASSUME NEW z, Safe(z) PROVE Safe(Fetch(z))
<1> DEFINE form == [NoForm EXCEPT !.account = z.page.creds]
<1>1. form \in Forms
  BY DEF NoForm, Forms, OrNone, Safe, Fits, Wizards, Pages
<1> HIDE DEF form
<1>2. Safe(Call(z, "devices", form))
  BY <1>1, BareCallSafe
<1> QED
  BY <1>2 DEF Fetch, form

LEMMA DevicesToldSafe ==
  ASSUME NEW z, Safe(z), NEW c \in Calls PROVE Safe(DevicesTold(z, c))
<1> DEFINE linked == c.reply = "listed"
           email == c.form.account
<1>1. linked \in BOOLEAN /\ email \in OrNone(Accounts)
  BY DEF Calls, Forms
<1>2. \/ DevicesTold(z, c) = z
      \/ DevicesTold(z, c) = [z EXCEPT !.page.email = email, !.page.linked = linked]
  BY DEF DevicesTold
<1>3. [z EXCEPT !.page.email = email, !.page.linked = linked]
        = [z EXCEPT !.page.linked = linked, !.page.email = email]
  BY ZenonT(60) DEF Safe, Fits, Wizards, Pages
<1> HIDE DEF linked, email
<1>4. Safe([z EXCEPT !.page.linked = linked, !.page.email = email])
  BY <1>1, LinkSafe
<1> QED
  BY <1>2, <1>3, <1>4

LEMMA CloudToldSafe ==
  ASSUME NEW z, Safe(z), NEW c \in Calls, c.kind \in Cloud \ {"devices"}
  PROVE  Safe(CloudTold(z, c))
<1>1. c.form \in Forms /\ c.form.account \in OrNone(Accounts)
  BY DEF Calls, Forms
<1>2. Safe(Linked(z, c)) /\ Safe([z EXCEPT !.page.linked = FALSE])
  BY <1>1, LinkSafe DEF Linked
<1>3. /\ Safe(Fetch(Linked(z, c))) /\ Safe(Fetch([z EXCEPT !.page.linked = FALSE]))
      /\ Safe(Call(z, "unlink", c.form))
  BY <1>1, <1>2, FetchSafe, BareCallSafe
<1> QED
  BY <1>2, <1>3 DEF CloudTold, Cloud

LEMMA FinalizeToldSafe == ASSUME NEW z, Safe(z), NEW c PROVE Safe(FinalizeTold(z, c))
<1> DEFINE done == c.reply = "ok"
           p == [z.page EXCEPT !.complete = done, !.applying = done]
<1>1. done \in BOOLEAN
  OBVIOUS
<1>2. FinalizeTold(z, c) = [z EXCEPT !.page = p]
  BY DEF FinalizeTold, Safe, Fits, Wizards
<1> HIDE DEF done
<1>3. p \in Pages /\ p.shown = z.page.shown
  BY <1>1 DEF Safe, Fits, Wizards, Pages
<1> HIDE DEF p
<1> QED
  BY <1>2, <1>3, PageSafe

LEMMA DiscoveryToldSafe ==
  ASSUME NEW z, Safe(z), NEW c, c.reply = "ok" => (z.orphaned \/ Opened(z.unit, 2))
  PROVE  Safe(DiscoveryTold(z, c))
<1>1. 1 \in 1 .. 4 /\ 2 \in 1 .. 4
  OBVIOUS
<1>2. c.reply = "ok" => Safe(Show(z, 1, 2))
  BY <1>1, ShowSafe
<1> QED
  BY <1>2, TestSafe, LoadSafe DEF DiscoveryTold

LEMMA NetworkToldSafe ==
  ASSUME NEW z, Safe(z), NEW c \in Calls,
         c.kind \in {"network", "storage"},
         z.orphaned \/ Grounded(z.unit, c.kind, c.reply)
  PROVE  /\ c.kind = "network" => Safe(Then3(z, c))
         /\ c.kind = "storage" => Safe(IF c.reply = "ok" THEN Show(z, 2, 3) ELSE z)
<1>1. 2 \in 1 .. 4 /\ 3 \in 1 .. 4
  OBVIOUS
<1>2. CASE c.reply = "ok"
  <2>1. z.orphaned \/ Opened(z.unit, 3)
    BY <1>2 DEF Grounded
  <2>2. Safe(Show(z, 2, 3))
    BY <1>1, <2>1, ShowSafe
  <2>3. /\ "storage" \in Kinds /\ c.form \in Forms
        /\ z.orphaned \/ Grounded(z.unit, "storage", "pending")
    BY <2>1 DEF Kinds, Moves, Calls, Grounded
  <2>4. Safe(Call(z, "storage", c.form))
    BY <2>3, CallKeeps DEF Filled
  <2> QED
    BY <1>2, <2>2, <2>4 DEF Then3
<1>3. CASE c.reply # "ok"
  BY <1>3 DEF Then3
<1> QED
  BY <1>2, <1>3

LEMMA SavedToldSafe ==
  ASSUME NEW z, Safe(z), NEW c \in Calls, Filled(c), c.kind \in {"site", "admin"},
         z.orphaned \/ Grounded(z.unit, c.kind, c.reply)
  PROVE  Safe(SavedTold(z, c))
<1>1. 3 \in 1 .. 4 /\ 4 \in 1 .. 4 /\ c.form \in Forms
  BY DEF Calls
<1>2. CASE c.reply # "ok"
  BY <1>2 DEF SavedTold
<1>3. CASE c.reply = "ok" /\ c.kind = "site"
  <2>1. "admin" \in Kinds /\ (z.orphaned \/ Grounded(z.unit, "admin", "pending"))
    BY <1>3 DEF Kinds, Moves, Grounded
  <2>2. c.form.entry # None
    BY DEF Filled
  <2>3. Safe(Call(z, "admin", c.form))
    BY <1>1, <2>1, <2>2, CallKeeps DEF Filled
  <2> QED
    BY <1>3, <2>3 DEF SavedTold
<1>4. CASE c.reply = "ok" /\ c.kind = "admin"
  <2> DEFINE report == Report(z.page, c.form.entry)
             p == [z.page EXCEPT !.report = report]
             y == [z EXCEPT !.page = p]
  <2>1. report \in Reports
    BY DEF Report, Reports, Safe, Fits, Wizards, Pages, Calls, Forms
  <2>2. SavedTold(z, c) = Show(y, 3, 4)
    BY <1>4 DEF SavedTold, Then4, Safe, Fits, Wizards
  <2> HIDE DEF report
  <2>3. p \in Pages /\ p.shown = z.page.shown
    BY <2>1 DEF Safe, Fits, Wizards, Pages
  <2>4. Safe(y) /\ y.unit = z.unit /\ y.orphaned = z.orphaned
    BY <2>3, PageSafe DEF Safe, Fits, Wizards
  <2>5. z.orphaned \/ Opened(z.unit, 4)
    BY <1>4 DEF Grounded
  <2> HIDE DEF y
  <2> QED
    BY <1>1, <2>2, <2>4, <2>5, ShowSafe
<1> QED
  BY <1>2, <1>3, <1>4

LEMMA ReceiveSafe ==
  ASSUME Safe(wizard), Receive PROVE Safe(wizard')
<1>1. PICK c \in wizard.calls :
        c.reply # "pending" /\ wizard' = Told([wizard EXCEPT !.calls = @ \ {c}], c)
  BY DEF Receive
<1> DEFINE z == [wizard EXCEPT !.calls = @ \ {c}]
<1>2. Safe(z) /\ z.unit = wizard.unit /\ z.orphaned = wizard.orphaned
  BY AnsweredSafe
<1>3. c \in Calls /\ Filled(c) /\ c.kind \in Kinds /\ ~ c.deaf
  BY <1>1 DEF Safe, Fits, Wizards, Calls, Filled
<1>4. z.orphaned \/ Grounded(z.unit, c.kind, c.reply)
  BY <1>2, <1>3 DEF Safe, Behind
<1>5. wizard' = Told(z, c)
  BY <1>1
<1> HIDE DEF z
<1>6. CASE c.kind = "discovery"
  <2>1. c.reply = "ok" => (z.orphaned \/ Opened(z.unit, 2))
    BY <1>4, <1>6 DEF Grounded
  <2>2. Told(z, c) = DiscoveryTold(z, c)
    BY <1>6 DEF Told, Cloud
  <2> QED
    BY <1>2, <1>5, <2>1, <2>2, DiscoveryToldSafe
<1>7. CASE c.kind \in {"network", "storage"}
  <2>1. \/ c.kind = "network" /\ Told(z, c) = Then3(z, c)
        \/ c.kind = "storage" /\ Told(z, c) = IF c.reply = "ok" THEN Show(z, 2, 3) ELSE z
    BY <1>7 DEF Told, Cloud
  <2>2. /\ c.kind = "network" => Safe(Then3(z, c))
        /\ c.kind = "storage" => Safe(IF c.reply = "ok" THEN Show(z, 2, 3) ELSE z)
    BY <1>2, <1>3, <1>4, <1>7, NetworkToldSafe
  <2> QED
    BY <1>5, <2>1, <2>2
<1>8. CASE c.kind \in {"site", "admin"}
  <2>1. Told(z, c) = SavedTold(z, c)
    BY <1>8 DEF Told, Cloud
  <2> QED
    BY <1>2, <1>3, <1>4, <1>5, <1>8, <2>1, SavedToldSafe
<1>9. CASE c.kind \in Cloud
  <2>1. Told(z, c) = IF c.kind = "devices" THEN DevicesTold(z, c) ELSE CloudTold(z, c)
    BY <1>9 DEF Told, Cloud
  <2>2. Safe(DevicesTold(z, c)) /\ (c.kind # "devices" => Safe(CloudTold(z, c)))
    BY <1>2, <1>3, <1>9, DevicesToldSafe, CloudToldSafe
  <2> QED
    BY <1>5, <2>1, <2>2
<1>10. CASE c.kind \in {"status", "test", "format", "restart", "poll"}
  <2>1. Told(z, c) \in {TestTold(z, c), StatusTold(z, c), FormatTold(z, c), Verify(z), PollTold(z, c)}
    BY <1>10 DEF Told, RestartTold, Cloud
  <2>2. /\ Safe(TestTold(z, c)) /\ Safe(StatusTold(z, c)) /\ Safe(FormatTold(z, c))
        /\ Safe(Verify(z)) /\ Safe(PollTold(z, c))
    BY <1>2, TestToldSafe, StatusToldSafe, FormatToldSafe, VerifySafe, PollToldSafe
  <2> QED
    BY <1>5, <2>1, <2>2
<1>11. CASE c.kind \in {"finalize", "apply_network"}
  <2>1. Told(z, c) \in {FinalizeTold(z, c), z}
    BY <1>11 DEF Told, Cloud
  <2> QED
    BY <1>2, <1>5, <2>1, FinalizeToldSafe
<1> QED
  BY <1>3, <1>6, <1>7, <1>8, <1>9, <1>10, <1>11 DEF Kinds, Moves

(***************************************************************************)
(* The theorems                                                            *)
(***************************************************************************)
LEMMA InitSafe == ASSUME SetupInputs, StepsInit PROVE Safe(wizard)
<1>1. PICK drive \in {"ext4", "other"} :
        wizard = [page |-> Page(AList, AnEntry, None), unit |-> Unit(drive), calls |-> {},
                  clicks |-> 0, detours |-> 0, hurried |-> FALSE, blind |-> FALSE,
                  astray |-> FALSE, orphaned |-> FALSE, aborted |-> FALSE,
                  reconsidered |-> FALSE]
  BY DEF StepsInit
<1> DEFINE p == Page(AList, AnEntry, None)
           u == Unit(drive)
<1>2. AList \in Lists /\ AnEntry \in Entries
  BY DEF AList, AnEntry, SetupInputs
<1>3. p \in Pages /\ p.shown = {1}
  BY <1>2 DEF Page, Pages, OrNone, Modes, NoReport, Reports
<1>4. u \in Units
  BY DEF Unit, Units, OrNone, NoForm, Forms
<1>5. wizard = [page |-> p, unit |-> u, calls |-> {}, clicks |-> 0, detours |-> 0,
                hurried |-> FALSE, blind |-> FALSE, astray |-> FALSE, orphaned |-> FALSE,
                aborted |-> FALSE, reconsidered |-> FALSE]
  BY <1>1
<1> HIDE DEF p, u
<1>6. wizard \in Wizards /\ wizard.page = p /\ wizard.calls = {}
  BY <1>3, <1>4, <1>5 DEF Wizards
<1>7. IsFiniteSet(wizard.calls)
  BY <1>6, FS_EmptySet
<1> QED
  BY <1>3, <1>6, <1>7 DEF Safe, Fits, Behind, Opened

(* The inductive invariant. *)
StepsInv == Safe(wizard)

(* Types and Behind hold of every state of the wizard, whatever is clicked *)
(* and whatever gets lost, restarted or reloaded.                         *)
THEOREM StepsInvariance == ASSUME SetupInputs PROVE StepsSpec => []StepsInv
<1>1. StepsInit => StepsInv
  BY InitSafe DEF StepsInv
<1>2. StepsInv /\ [StepsNext]_wizard => StepsInv'
  <2>1. CASE StepsNext
    BY <2>1, EditsSafe, FinalizeGridSafe, AsksSafe, FormatSafe, ProceedToStep3Safe, AskCloudSafe,
       ProceedToStep4Safe, ApplyAndRebootSafe, GoBackSafe, ReloadSafe, ServeSafe, LoseSafe,
       RespawnSafe, ReceiveSafe, GiveUpSafe
       DEF StepsNext, StepsInv
  <2>2. CASE UNCHANGED wizard
    BY <2>2 DEF StepsInv
  <2> QED
    BY <2>1, <2>2
<1> QED
  BY <1>1, <1>2, PTL DEF StepsSpec

(* No step is shown before the recorder has stored those in front of it,   *)
(* unless it was writing to a database that the formatted drive hides.     *)
THEOREM NeverAheadHolds == ASSUME SetupInputs PROVE StepsSpec => []NeverAhead
<1>1. StepsInv => NeverAhead
  BY DEF StepsInv, Safe, Behind, Opened, NeverAhead
<1> QED
  BY <1>1, StepsInvariance, PTL
=============================================================================
