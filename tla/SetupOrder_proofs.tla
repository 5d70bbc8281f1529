----------------------------- MODULE SetupOrder_proofs -----------------------------
(***************************************************************************)
(* Steps 2 to 4 of the wizard keep their order: SetupInOrder of            *)
(* SetupSteps, for any lists, entries, accounts and bounds.                *)
(*                                                                         *)
(* None of its five parts is inductive: each is about a page at rest,      *)
(* while the page moves on an answer, and what the answer allows was       *)
(* settled when its request was sent.  InOrder therefore says of every     *)
(* request in flight, and of every answer on its way, what page and        *)
(* recorder have in common with it, and MayAdd what a request must fit in  *)
(* with.  A click adds a request (CallInOrder); what serves or loses one   *)
(* takes it out, changes the recorder, and puts it back with its answer    *)
(* (RepliedInOrder); what receives an answer takes it out (TakenInOrder)   *)
(* and moves the page.  Known is apart: it is re-established, not kept,    *)
(* wherever a status is asked for.                                         *)
(***************************************************************************)
EXTENDS SetupSteps_proofs

(***************************************************************************)
(* The invariant.  Each part is about what the page may conclude from the  *)
(* requests it has in flight.                                              *)
(***************************************************************************)
(* The requests of the lock, one at a time. *)
Chain == {"format", "restart", "poll"}

(* The lock is where its request is, and nothing deafens the page to it. *)
LockKept(z) ==
  /\ \A c \in z.calls :
       /\ c.kind \in Chain => ~ c.deaf
       /\ c.kind = "format" => z.page.lock = "format"
       /\ c.kind = "restart" => z.page.lock = "restart"
       /\ c.kind = "poll" => z.page.lock = "verify"
  /\ \A c, d \in z.calls : c.kind \in Chain /\ d.kind \in Chain => c = d

(* A lock that goes on after the format has a drive with a file system, and *)
(* no answer on its way takes another drive for one.                       *)
DriveKept(z) ==
  /\ z.page.lock \in {"restart", "verify"} => z.unit.drive = "ext4"
  /\ \A c \in z.calls :
       /\ c.kind = "format" /\ c.reply \in {"ok", "restart"} => z.unit.drive = "ext4"
       /\ z.page.lock = "off" /\ c.kind = "status" /\ c.reply = "ext4" => z.unit.drive = "ext4"

(* Once step 1 is behind, the page knows the drive or is about to. *)
Known(z) ==
  \/ z.page.shown = {1} /\ \A c \in z.calls : ~ c.deaf /\ c.kind \in Moves => c.kind = "discovery"
  \/ z.page.lock # "off" \/ Busy(z, {"status"}) \/ z.page.abnormal \/ z.unit.drive = "ext4"

(* Where a step is confirmed from. *)
InPlace(z, kind) ==
  /\ kind = "discovery" => z.page.active = 1
  /\ kind \in {"network", "apply_network", "storage"} => z.page.active = 2
  /\ kind \in {"site", "admin"} => z.page.active = 3
  /\ kind = "finalize" => z.page.active = 4
(* An existing drive is used only when it can be. *)
Usable(z, kind, form) ==
  kind = "storage" \/ (kind = "network" /\ ~ form.skip) => z.blind \/ z.unit.drive = "ext4"

(* An operator who waits sees one step, has one step confirmed at a time,  *)
(* and has heard from the cloud when step 3 is.                            *)
OneMove(z) ==
  /\ z.page.shown = {z.page.active}
  /\ \A c \in z.calls : c.kind \in Moves =>
       \/ c.deaf /\ c.kind = "finalize"
       \/ ~ c.deaf /\ InPlace(z, c.kind) /\ z.page.lock = "off" /\ Usable(z, c.kind, c.form)
  /\ \A c, d \in z.calls : c.kind \in Moves /\ d.kind \in Moves /\ ~ c.deaf /\ ~ d.deaf => c = d
  /\ z.page.lock # "off" => z.page.active = 2
  /\ z.page.complete => z.page.active = 4
  /\ z.page.active = 4 \/ Busy(z, {"site", "admin"}) => ~ Busy(z, Cloud)

(* What a request that confirms a step has in common with the page, and its *)
(* acceptance with the recorder.                                           *)
Answered(z, kind, form, reply) ==
  /\ kind = "discovery" =>
       z.page.verified = form.list /\ (reply = "ok" => z.unit.discovery = form.list)
  /\ kind = "network" => z.page.sent = form.net /\ (reply = "ok" => z.unit.network = form.net)
  /\ kind = "storage" => z.page.sent = z.unit.network
  /\ kind \in {"site", "admin"} => z.page.entry = form.entry
  /\ kind = "site" /\ reply = "ok" => z.unit.site = form.entry
  /\ kind = "admin" => z.unit.site = form.entry /\ (reply = "ok" => z.unit.admin = form.entry)

(* What stands on the page is what the recorder has stored of the steps    *)
(* behind, and the report is what stands on the page.                      *)
Reflected(z) ==
  /\ z.page.active >= 2 => z.page.verified = z.unit.discovery
  /\ z.page.active >= 3 => z.page.sent = z.unit.network
  /\ z.page.active = 4 => /\ z.unit.site = z.page.entry /\ z.unit.admin = z.page.entry
                          /\ z.page.report = Report(z.page, z.page.entry)
  /\ \A c \in z.calls : ~ c.deaf => Answered(z, c.kind, c.form, c.reply)

(* Nobody leaves the report behind a request that was aborted. *)
Stays(z) ==
  /\ z.aborted => z.page.active = 4
  /\ \A c \in z.calls : c.kind = "finalize" /\ c.deaf => z.aborted

(* What is or may be applied is what is reported. *)
Agrees(form, report) ==
  /\ form.list = report.list /\ form.net = report.net /\ form.entry = report.entry
  /\ form.account = report.email
Agreed(z) ==
  /\ z.page.complete => Agrees(z.unit.applied, z.page.report)
  /\ \A c \in z.calls : c.kind = "finalize" =>
       /\ Agrees(c.form, z.page.report)
       /\ c.reply = "ok" => Agrees(z.unit.applied, z.page.report)

(* The daemon is on the new drive when the lock is released, and nothing   *)
(* was stored before.                                                      *)
Stage(z, kind, reply) ==
  /\ kind = "format" =>
       z.unit.daemon = "current" \/ (z.unit.daemon = "stale" /\ reply \in {"restart", "lost"})
  /\ kind = "format" /\ reply = "restart" => z.unit.daemon = "stale"
  /\ kind = "restart" /\ reply = "pending" => z.unit.daemon = "stale"
  /\ kind = "restart" /\ reply # "pending" => z.unit.daemon \in {"current", "down", "degraded"}
  /\ kind = "poll" /\ reply = "ok" => z.unit.daemon = "current"
Written(z) ==
  /\ ~ z.orphaned
  /\ z.page.lock # "failed"
  /\ z.page.lock = "off" => z.unit.daemon = "current"
  /\ z.page.lock = "verify" => z.unit.daemon \in {"current", "down", "degraded"}
  /\ \A c \in z.calls : Stage(z, c.kind, c.reply)

(* All of it but Known, with the history each part depends on. *)
InOrder(z) ==
  /\ LockKept(z) /\ DriveKept(z)
  /\ z.hurried \/ OneMove(z)
  /\ z.hurried \/ z.orphaned \/ Reflected(z)
  /\ z.hurried \/ z.reconsidered \/ Stays(z)
  /\ z.hurried \/ z.reconsidered \/ z.orphaned \/ Agreed(z)
  /\ z.hurried \/ z.reconsidered \/ z.astray \/ Written(z)

(***************************************************************************)
(* Small steps that keep it                                                *)
(***************************************************************************)
(* The history of two states is the same. *)
SameHistory(y, z) ==
  /\ y.hurried = z.hurried /\ y.blind = z.blind /\ y.astray = z.astray
  /\ y.orphaned = z.orphaned /\ y.aborted = z.aborted /\ y.reconsidered = z.reconsidered

(* Two pages show the same and hold the same, but for fields that are sent *)
(* as they stand, and for what is known of the drive.                      *)
SamePage(p, q) ==
  /\ p.shown = q.shown /\ p.active = q.active /\ p.lock = q.lock /\ p.verified = q.verified
  /\ p.sent = q.sent /\ p.entry = q.entry /\ p.linked = q.linked /\ p.email = q.email
  /\ p.report = q.report /\ p.complete = q.complete

(* Two recorders hold the same, but for the account, which is the cloud's. *)
SameUnit(u, v) ==
  /\ u.drive = v.drive /\ u.daemon = v.daemon /\ u.discovery = v.discovery
  /\ u.network = v.network /\ u.site = v.site /\ u.admin = v.admin /\ u.applied = v.applied

(* Fewer requests, on the same page. *)
LEMMA FewerInOrder ==
  ASSUME NEW z, NEW y, InOrder(z), SameHistory(y, z), SamePage(y.page, z.page),
         SameUnit(y.unit, z.unit), y.calls \subseteq z.calls
  PROVE  InOrder(y)
<1> USE DEF SameHistory, SamePage, SameUnit
<1>1. LockKept(y) /\ DriveKept(y)
  BY DEF InOrder, LockKept, DriveKept
<1>2. OneMove(z) => OneMove(y)
  BY DEF OneMove, InPlace, Usable, Busy
<1>3. Reflected(z) => Reflected(y)
  BY DEF Reflected, Answered, Report
<1>4. (Stays(z) => Stays(y)) /\ (Agreed(z) => Agreed(y))
  BY DEF Stays, Agreed, Agrees
<1>5. Written(z) => Written(y)
  BY DEF Written, Stage
<1> QED
  BY <1>1, <1>2, <1>3, <1>4, <1>5 DEF InOrder

(* What a request and its answer must fit in with. *)
MayAdd(z, kind, form, reply) ==
  /\ kind \in Chain => \A c \in z.calls : c.kind \notin Chain
  /\ kind = "format" => z.page.lock = "format"
  /\ kind = "restart" => z.page.lock = "restart"
  /\ kind = "poll" => z.page.lock = "verify"
  /\ kind = "format" /\ reply \in {"ok", "restart"} => z.unit.drive = "ext4"
  /\ z.page.lock = "off" /\ kind = "status" /\ reply = "ext4" => z.unit.drive = "ext4"
  /\ z.hurried \/
       /\ kind \in Moves => /\ ~ Busy(z, Moves) /\ InPlace(z, kind) /\ z.page.lock = "off"
                            /\ Usable(z, kind, form)
       /\ kind \in {"site", "admin"} => ~ Busy(z, Cloud)
       /\ kind \in Cloud => z.page.active # 4 /\ ~ Busy(z, {"site", "admin"})
  /\ z.hurried \/ z.orphaned \/ Answered(z, kind, form, reply)
  /\ z.hurried \/ z.reconsidered \/ z.orphaned \/
       (kind = "finalize" => /\ Agrees(form, z.page.report)
                             /\ reply = "ok" => Agrees(z.unit.applied, z.page.report))
  /\ z.hurried \/ z.reconsidered \/ z.astray \/ Stage(z, kind, reply)

(* A request that fits in. *)
LEMMA AddInOrder ==
  ASSUME NEW z, NEW y, NEW d, InOrder(z), MayAdd(z, d.kind, d.form, d.reply), ~ d.deaf,
         y.calls = z.calls \cup {d}, y.page = z.page, y.unit = z.unit, SameHistory(y, z)
  PROVE  InOrder(y)
<1>1. LockKept(y)
  BY DEF InOrder, LockKept, MayAdd
<1>2. DriveKept(y)
  BY DEF InOrder, DriveKept, MayAdd
<1>3. z.hurried \/ OneMove(y)
  <2> SUFFICES ASSUME ~ z.hurried PROVE OneMove(y)
    OBVIOUS
  <2>1. OneMove(z)
    BY DEF InOrder
  <2>2. \A c \in y.calls : c.kind \in Moves =>
          \/ c.deaf /\ c.kind = "finalize"
          \/ ~ c.deaf /\ InPlace(y, c.kind) /\ y.page.lock = "off" /\ Usable(y, c.kind, c.form)
    BY <2>1 DEF OneMove, MayAdd, InPlace, Usable, SameHistory
  <2>3. \A c, e \in y.calls :
          c.kind \in Moves /\ e.kind \in Moves /\ ~ c.deaf /\ ~ e.deaf => c = e
    BY <2>1 DEF OneMove, MayAdd, Busy
  <2>4. y.page.active = 4 \/ Busy(y, {"site", "admin"}) => ~ Busy(y, Cloud)
    BY <2>1 DEF OneMove, MayAdd, Busy, Cloud
  <2> QED
    BY <2>1, <2>2, <2>3, <2>4 DEF OneMove
<1>4. z.hurried \/ z.orphaned \/ Reflected(y)
  <2> SUFFICES ASSUME ~ z.hurried, ~ z.orphaned PROVE Reflected(y)
    OBVIOUS
  <2>1. Reflected(z) /\ Answered(z, d.kind, d.form, d.reply)
    BY DEF InOrder, MayAdd
  <2>2. \A c \in y.calls : ~ c.deaf => Answered(y, c.kind, c.form, c.reply)
    BY <2>1 DEF Reflected, Answered
  <2> QED
    BY <2>1, <2>2 DEF Reflected
<1>5. z.hurried \/ z.reconsidered \/ Stays(y)
  BY DEF InOrder, Stays, SameHistory
<1>6. z.hurried \/ z.reconsidered \/ z.orphaned \/ Agreed(y)
  BY DEF InOrder, Agreed, MayAdd
<1>7. z.hurried \/ z.reconsidered \/ z.astray \/ Written(y)
  BY DEF InOrder, Written, MayAdd, Stage, SameHistory
<1> QED
  BY <1>1, <1>2, <1>3, <1>4, <1>5, <1>6, <1>7 DEF InOrder, SameHistory

(* One request more. *)
Request(z, kind, form) ==
  [id |-> FreeId(z), kind |-> kind, form |-> form, reply |-> "pending", deaf |-> FALSE]

(* What a call changes: the requests. *)
LEMMA CallShape ==
  ASSUME NEW z, Fits(z), NEW kind, NEW form
  PROVE  /\ Request(z, kind, form).kind = kind /\ Request(z, kind, form).form = form
         /\ Request(z, kind, form).reply = "pending" /\ ~ Request(z, kind, form).deaf
         /\ Call(z, kind, form).calls = z.calls \cup {Request(z, kind, form)}
         /\ Call(z, kind, form).page = z.page /\ Call(z, kind, form).unit = z.unit
         /\ SameHistory(Call(z, kind, form), z)
<1> DEFINE d == Request(z, kind, form)
<1>1. Call(z, kind, form) = [z EXCEPT !.calls = @ \cup {d}]
  BY DEF Call, Request
<1>2. d.kind = kind /\ d.form = form /\ d.reply = "pending" /\ d.deaf = FALSE
  BY DEF Request
<1> HIDE DEF d
<1>3. /\ [z EXCEPT !.calls = @ \cup {d}].calls = z.calls \cup {d}
      /\ [z EXCEPT !.calls = @ \cup {d}].page = z.page
      /\ [z EXCEPT !.calls = @ \cup {d}].unit = z.unit
      /\ SameHistory([z EXCEPT !.calls = @ \cup {d}], z)
  BY DEF Fits, Wizards, SameHistory
<1> QED
  BY <1>1, <1>2, <1>3 DEF d

(* The page sends what fits in. *)
LEMMA CallInOrder ==
  ASSUME NEW z, Fits(z), InOrder(z), NEW kind, NEW form, MayAdd(z, kind, form, "pending")
  PROVE  InOrder(Call(z, kind, form))
<1> DEFINE y == Call(z, kind, form)
           d == Request(z, kind, form)
<1>1. /\ d.kind = kind /\ d.form = form /\ d.reply = "pending" /\ ~ d.deaf
      /\ y.calls = z.calls \cup {d} /\ y.page = z.page /\ y.unit = z.unit
      /\ SameHistory(y, z)
  BY CallShape
<1> HIDE DEF y, d
<1>2. InOrder(y)
  BY <1>1, AddInOrder
<1> QED
  BY <1>2 DEF y

(* Requests that nothing depends on. *)
LEMMA PlainCallInOrder ==
  ASSUME NEW z, Fits(z), InOrder(z), NEW kind \in {"test", "status"}, NEW form
  PROVE  InOrder(Call(z, kind, form))
<1>1. MayAdd(z, kind, form, "pending")
  BY DEF MayAdd, Chain, Moves, Cloud, Answered, Stage
<1> QED
  BY <1>1, CallInOrder

(* Another page with the same on it. *)
LEMMA PageInOrder ==
  ASSUME NEW z, Fits(z), InOrder(z), NEW p, SamePage(p, z.page)
  PROVE  InOrder([z EXCEPT !.page = p])
<1> DEFINE y == [z EXCEPT !.page = p]
<1>1. y.page = p /\ y.unit = z.unit /\ y.calls = z.calls /\ SameHistory(y, z)
  BY DEF Fits, Wizards, SameHistory
<1> HIDE DEF y
<1>2. InOrder(y)
  BY <1>1, FewerInOrder DEF SameUnit
<1> QED
  BY <1>2 DEF y

(* Fields that are filled in. *)
LEMMA FieldsInOrder ==
  ASSUME NEW z, NEW y, InOrder(z), SameHistory(y, z), y.unit = z.unit, y.calls = z.calls,
         y.page.shown = z.page.shown, y.page.active = z.page.active, y.page.lock = z.page.lock,
         y.page.report = z.page.report, y.page.complete = z.page.complete,
         z.hurried \/ z.orphaned \/ Reflected(y)
  PROVE  InOrder(y)
<1>1. LockKept(y) /\ DriveKept(y)
  BY DEF InOrder, LockKept, DriveKept
<1>2. OneMove(z) => OneMove(y)
  BY DEF OneMove, InPlace, Usable, Busy, SameHistory
<1>3. (Stays(z) => Stays(y)) /\ (Agreed(z) => Agreed(y))
  BY DEF Stays, Agreed, SameHistory
<1>4. Written(z) => Written(y)
  BY DEF Written, Stage, SameHistory
<1> QED
  BY <1>1, <1>2, <1>3, <1>4 DEF InOrder, SameHistory

(***************************************************************************)
(* Clicks                                                                  *)
(***************************************************************************)
(* What a click leaves of the history. *)
LEMMA HistoryInOrder ==
  ASSUME NEW z, NEW y, InOrder(z), y.page = z.page, y.unit = z.unit, y.calls = z.calls,
         z.hurried => y.hurried, z.blind => y.blind, z.astray => y.astray,
         z.reconsidered => y.reconsidered, y.orphaned = z.orphaned, y.aborted = z.aborted
  PROVE  InOrder(y)
<1>1. LockKept(y) /\ DriveKept(y)
  BY DEF InOrder, LockKept, DriveKept
<1>2. OneMove(z) => OneMove(y)
  BY DEF OneMove, InPlace, Usable, Busy
<1>3. Reflected(z) => Reflected(y)
  BY DEF Reflected, Answered
<1>4. (Stays(z) => Stays(y)) /\ (Agreed(z) => Agreed(y))
  BY DEF Stays, Agreed
<1>5. Written(z) => Written(y)
  BY DEF Written, Stage
<1> QED
  BY <1>1, <1>2, <1>3, <1>4, <1>5 DEF InOrder

(* A click of an operator who waits comes when no step is being confirmed. *)
Clicking(z) ==
  /\ Fits(z) /\ InOrder(z)
  /\ z.page = wizard.page /\ z.unit = wizard.unit /\ z.calls = wizard.calls
  /\ z.hurried \/ ~ Busy(z, Moves)
  /\ wizard.hurried => z.hurried
  /\ z.blind = wizard.blind /\ z.astray = wizard.astray /\ z.orphaned = wizard.orphaned
  /\ z.aborted = wizard.aborted /\ z.reconsidered = wizard.reconsidered

LEMMA ClickInOrder ==
  ASSUME Safe(wizard), InOrder(wizard) PROVE Clicking(Confirmed) /\ Clicking(Strayed)
<1> DEFINE hurried == wizard.hurried \/ Busy(wizard, Moves)
           clicks == wizard.clicks + 1
<1>1. Clicked = [wizard EXCEPT !.clicks = clicks, !.hurried = hurried]
  BY DEF Clicked
<1>2. hurried \/ ~ Busy(wizard, Moves)
  OBVIOUS
<1>3. wizard.hurried => hurried
  OBVIOUS
<1> HIDE DEF hurried, clicks
<1>4. /\ Clicked.page = wizard.page /\ Clicked.unit = wizard.unit /\ Clicked.calls = wizard.calls
      /\ Clicked.hurried = hurried /\ Clicked.blind = wizard.blind
      /\ Clicked.astray = wizard.astray /\ Clicked.orphaned = wizard.orphaned
      /\ Clicked.aborted = wizard.aborted /\ Clicked.reconsidered = wizard.reconsidered
  BY <1>1 DEF Safe, Fits, Wizards
<1>5. Fits(Clicked) /\ Fits(Confirmed) /\ Fits(Strayed)
  BY ClickedSafe DEF Safe
<1>6. InOrder(Clicked)
  BY <1>3, <1>4, HistoryInOrder
<1>7. Clicked.hurried \/ ~ Busy(Clicked, Moves)
  BY <1>2, <1>4 DEF Busy
<1>8. Clicking(Clicked)
  BY <1>3, <1>4, <1>5, <1>6, <1>7 DEF Clicking
<1>9. /\ Detour(Clicked).page = Clicked.page /\ Detour(Clicked).unit = Clicked.unit
      /\ Detour(Clicked).calls = Clicked.calls /\ SameHistory(Detour(Clicked), Clicked)
  BY <1>5 DEF Fits, Wizards, Detour, SameHistory
<1>10. Clicking(Strayed)
  <2>1. InOrder(Strayed)
    BY <1>6, <1>9, HistoryInOrder DEF Strayed, SameHistory
  <2> QED
    BY <1>5, <1>8, <1>9, <2>1 DEF Clicking, Strayed, SameHistory, Busy
<1> QED
  BY <1>8, <1>10 DEF Confirmed, Strayed

(* Where an operator who waits is. *)
LEMMA HereInOrder ==
  ASSUME InOrder(wizard), NEW z, Clicking(z), NEW step, CanClick(step)
  PROVE  /\ z.page.lock = "off" /\ ~ z.page.complete /\ step \in z.page.shown
         /\ z.hurried \/ z.page.active = step
         /\ \A c \in z.calls : c.kind \notin Chain
BY DEF InOrder, Clicking, CanClick, OneMove, LockKept, Chain

(* Fields are edited before they are confirmed. *)
LEMMA EditsInOrder ==
  ASSUME Safe(wizard), InOrder(wizard), EditList \/ EditNetwork \/ EditEntry
  PROVE  InOrder(wizard') /\ (Known(wizard) => Known(wizard'))
<1> DEFINE z == Strayed
<1>1. Clicking(z) /\ Fits(z) /\ z.page \in Pages
  BY ClickInOrder DEF Clicking, Fits, Wizards
<1>2. ASSUME NEW p, wizard' = [z EXCEPT !.page = p], SamePage(p, z.page),
             p.abnormal = z.page.abnormal
      PROVE  InOrder(wizard') /\ (Known(wizard) => Known(wizard'))
  <2> HIDE DEF z
  <2>1. InOrder(wizard')
    BY <1>1, <1>2, PageInOrder DEF Clicking
  <2>2. wizard'.page = p /\ wizard'.unit = z.unit /\ wizard'.calls = z.calls
    BY <1>1, <1>2 DEF Fits, Wizards
  <2> QED
    BY <1>1, <1>2, <2>1, <2>2 DEF Known, Busy, SamePage, Clicking
<1>3. CASE EditList
  <2>1. PICK l \in Lists : wizard' = [z EXCEPT !.page.list = l]
    BY <1>3 DEF EditList
  <2> HIDE DEF z
  <2>2. wizard' = [z EXCEPT !.page = [z.page EXCEPT !.list = l]]
    BY <1>1, <2>1 DEF Fits, Wizards
  <2>3. SamePage([z.page EXCEPT !.list = l], z.page)
        /\ [z.page EXCEPT !.list = l].abnormal = z.page.abnormal
    BY <1>1 DEF Pages, SamePage
  <2> QED
    BY <1>2, <2>2, <2>3
<1>4. CASE EditNetwork
  <2>1. PICK m \in Modes : wizard' = [z EXCEPT !.page.net = m]
    BY <1>4 DEF EditNetwork
  <2> HIDE DEF z
  <2>2. wizard' = [z EXCEPT !.page = [z.page EXCEPT !.net = m]]
    BY <1>1, <2>1 DEF Fits, Wizards
  <2>3. SamePage([z.page EXCEPT !.net = m], z.page)
        /\ [z.page EXCEPT !.net = m].abnormal = z.page.abnormal
    BY <1>1 DEF Pages, SamePage
  <2> QED
    BY <1>2, <2>2, <2>3
<1>5. CASE EditEntry
  <2>1. PICK e \in Entries : wizard' = [z EXCEPT !.page.entry = e]
    BY <1>5 DEF EditEntry
  <2>2. CanClick(3)
    BY <1>5 DEF EditEntry, CanStray
  <2>3. z.page.lock = "off" /\ (z.hurried \/ z.page.active = 3)
    BY <1>1, <2>2, HereInOrder
  <2> DEFINE p == [z.page EXCEPT !.entry = e]
             y == [z EXCEPT !.page = p]
  <2> HIDE DEF z
  <2>4. wizard' = y
    BY <1>1, <2>1 DEF Fits, Wizards
  <2>5. y.page = p /\ y.unit = z.unit /\ y.calls = z.calls /\ SameHistory(y, z)
    BY <1>1 DEF Fits, Wizards, SameHistory
  <2>6. /\ p.shown = z.page.shown /\ p.active = z.page.active /\ p.lock = z.page.lock
        /\ p.verified = z.page.verified /\ p.sent = z.page.sent /\ p.linked = z.page.linked
        /\ p.email = z.page.email /\ p.report = z.page.report /\ p.complete = z.page.complete
        /\ p.abnormal = z.page.abnormal
    BY <1>1 DEF Pages
  <2> HIDE DEF y, p
  <2>7. InOrder(z) /\ (z.hurried \/ ~ Busy(z, Moves))
    BY <1>1 DEF Clicking
  <2>8. z.hurried \/ z.orphaned \/ Reflected(y)
    <3> SUFFICES ASSUME ~ z.hurried, ~ z.orphaned PROVE Reflected(y)
      OBVIOUS
    <3>1. Reflected(z) /\ ~ Busy(z, Moves) /\ z.page.active = 3
      BY <2>3, <2>7 DEF InOrder
    <3>2. \A c \in y.calls : ~ c.deaf => Answered(y, c.kind, c.form, c.reply)
      BY <2>5, <2>6, <3>1 DEF Reflected, Answered, Busy, Moves
    <3> QED
      BY <2>5, <2>6, <3>1, <3>2 DEF Reflected
  <2>9. InOrder(y)
    BY <2>5, <2>6, <2>7, <2>8, FieldsInOrder
  <2>10. Known(wizard) => Known(y)
    BY <1>1, <2>5, <2>6 DEF Known, Busy, Clicking
  <2> QED
    BY <2>4, <2>9, <2>10
<1> QED
  BY <1>3, <1>4, <1>5

(* A request more and what is known of the drive. *)
LEMMA CallKnown ==
  ASSUME NEW z, Fits(z), Known(z), NEW kind, NEW form,
         kind \notin Moves \/ kind = "discovery" \/ z.page.shown # {1}
  PROVE  Known(Call(z, kind, form))
<1> DEFINE y == Call(z, kind, form)
           d == Request(z, kind, form)
<1>1. /\ d.kind = kind /\ y.calls = z.calls \cup {d} /\ y.page = z.page /\ y.unit = z.unit
  BY CallShape
<1> HIDE DEF y, d
<1>2. Known(y)
  BY <1>1 DEF Known, Busy
<1> QED
  BY <1>2 DEF y

(* The channels are confirmed. *)
LEMMA FinalizeGridInOrder ==
  ASSUME SetupInputs, Safe(wizard), InOrder(wizard), FinalizeGrid
  PROVE  InOrder(wizard') /\ (Known(wizard) => Known(wizard'))
<1> DEFINE z == Confirmed
           list == wizard.page.list
           p == [z.page EXCEPT !.verified = list]
           y == [z EXCEPT !.page = p]
           form == [NoForm EXCEPT !.list = list]
<1>1. Clicking(z) /\ Fits(z) /\ z.page \in Pages /\ z.page = wizard.page
  BY ClickInOrder DEF Clicking, Fits, Wizards
<1>2. CanClick(1)
  BY DEF FinalizeGrid, CanConfirm
<1>3. /\ z.page.lock = "off" /\ (z.hurried \/ z.page.active = 1)
      /\ \A c \in z.calls : c.kind \notin Chain
  BY <1>1, <1>2, HereInOrder
<1>4. form.list = list /\ list \in Lists
  BY DEF NoForm, Safe, Fits, Wizards, Pages
<1> HIDE DEF z, form
<1>5. wizard' = Call(y, "discovery", form)
  BY <1>1 DEF FinalizeGrid, z, form, Fits, Wizards
<1>6. /\ p.shown = z.page.shown /\ p.active = z.page.active /\ p.lock = z.page.lock
      /\ p.verified = list /\ p.sent = z.page.sent /\ p.entry = z.page.entry
      /\ p.report = z.page.report /\ p.complete = z.page.complete /\ p.abnormal = z.page.abnormal
  BY <1>1 DEF Pages
<1>7. p \in Pages
  BY <1>1, <1>4 DEF Pages, OrNone
<1> HIDE DEF p, list
<1>8. /\ y.page = p /\ y.unit = z.unit /\ y.calls = z.calls /\ SameHistory(y, z) /\ Fits(y)
  BY <1>1, <1>7 DEF Fits, Wizards, SameHistory
<1> HIDE DEF y
<1>9. InOrder(z) /\ (z.hurried \/ ~ Busy(z, Moves))
  BY <1>1 DEF Clicking
<1>10. z.hurried \/ z.orphaned \/ Reflected(y)
  <2> SUFFICES ASSUME ~ z.hurried, ~ z.orphaned PROVE Reflected(y)
    OBVIOUS
  <2>1. Reflected(z) /\ ~ Busy(z, Moves) /\ z.page.active = 1
    BY <1>3, <1>9 DEF InOrder
  <2>2. \A c \in y.calls : ~ c.deaf => Answered(y, c.kind, c.form, c.reply)
    BY <1>6, <1>8, <2>1 DEF Reflected, Answered, Busy, Moves
  <2> QED
    BY <1>6, <1>8, <2>1, <2>2 DEF Reflected
<1>11. InOrder(y)
  BY <1>6, <1>8, <1>9, <1>10, FieldsInOrder
<1>12. MayAdd(y, "discovery", form, "pending")
  BY <1>3, <1>4, <1>6, <1>8, <1>9
     DEF MayAdd, Chain, Moves, Cloud, InPlace, Usable, Answered, Stage, Busy, SameHistory
<1>13. Known(wizard) => Known(y)
  BY <1>1, <1>6, <1>8 DEF Known, Busy, Clicking
<1> QED
  BY <1>5, <1>8, <1>11, <1>12, <1>13, CallInOrder, CallKnown

(* A status that is asked for will be known. *)
LEMMA LoadInOrder ==
  ASSUME NEW z, Safe(z), InOrder(z)
  PROVE  InOrder(LoadStorageStats(z)) /\ Known(LoadStorageStats(z))
<1> DEFINE p == [z.page EXCEPT !.abnormal = FALSE]
           y == [z EXCEPT !.page = p]
           d == Request(y, "status", NoForm)
<1>1. z.page \in Pages /\ Fits(z)
  BY DEF Safe, Fits, Wizards
<1>2. LoadStorageStats(z) = Call(y, "status", NoForm)
  BY DEF LoadStorageStats, Safe, Fits, Wizards
<1>3. SamePage(p, z.page) /\ p \in Pages
  BY <1>1 DEF Pages, SamePage
<1> HIDE DEF p
<1>4. InOrder(y) /\ Fits(y)
  BY <1>1, <1>3, PageInOrder DEF Fits, Wizards
<1> HIDE DEF y
<1>5. /\ d.kind = "status" /\ ~ d.deaf
      /\ Call(y, "status", NoForm).calls = y.calls \cup {d}
  BY <1>4, CallShape
<1>6. Known(Call(y, "status", NoForm))
  BY <1>5 DEF Known, Busy
<1> QED
  BY <1>2, <1>4, <1>6, PlainCallInOrder

(* The network test changes nothing but a field. *)
LEMMA TestInOrder ==
  ASSUME NEW z, Fits(z), InOrder(z)
  PROVE  InOrder(TestNetwork(z)) /\ (Known(z) => Known(TestNetwork(z)))
<1>1. "test" \notin Moves
  BY DEF Moves
<1> QED
  BY <1>1, PlainCallInOrder, CallKnown DEF TestNetwork

(* Requests of step 2 that confirm nothing. *)
LEMMA AsksInOrder ==
  ASSUME Safe(wizard), InOrder(wizard), RefreshStatus \/ AskNetwork \/ ApplyNetwork
  PROVE  InOrder(wizard') /\ (Known(wizard) => Known(wizard'))
<1> DEFINE z == Strayed
<1>1. Clicking(z) /\ Safe(z) /\ Fits(z)
  BY ClickInOrder, ClickedSafe DEF Clicking
<1>2. InOrder(z) /\ (Known(wizard) => Known(z))
  BY <1>1 DEF Clicking, Known, Busy
<1>3. CASE RefreshStatus
  BY <1>1, <1>2, <1>3, LoadInOrder DEF RefreshStatus
<1>4. CASE AskNetwork
  BY <1>1, <1>2, <1>4, TestInOrder DEF AskNetwork
<1>5. CASE ApplyNetwork
  <2> DEFINE form == [NoForm EXCEPT !.net = wizard.page.net]
  <2>1. wizard' = Call(z, "apply_network", form) /\ CanClick(2)
    BY <1>5 DEF ApplyNetwork, CanStray
  <2>2. /\ z.page.lock = "off" /\ 2 \in z.page.shown /\ (z.hurried \/ z.page.active = 2)
        /\ \A c \in z.calls : c.kind \notin Chain
    BY <1>1, <2>1, HereInOrder
  <2>3. z.hurried \/ ~ Busy(z, Moves)
    BY <1>1 DEF Clicking
  <2> HIDE DEF form, z
  <2>4. MayAdd(z, "apply_network", form, "pending")
    BY <2>2, <2>3 DEF MayAdd, Chain, Moves, Cloud, InPlace, Usable, Answered, Stage
  <2>5. z.page.shown # {1}
    BY <2>2
  <2> QED
    BY <1>1, <1>2, <2>1, <2>4, <2>5, CallInOrder, CallKnown
<1> QED
  BY <1>3, <1>4, <1>5

(* The format takes the lock. *)
LEMMA FormatInOrder ==
  ASSUME Safe(wizard), InOrder(wizard), FormatHardDrive
  PROVE  InOrder(wizard') /\ Known(wizard')
<1> DEFINE z == Strayed
           p == [z.page EXCEPT !.lock = "format"]
           y == [z EXCEPT !.page = p]
           d == Request(y, "format", NoForm)
<1>1. Clicking(z) /\ Fits(z) /\ z.page \in Pages
  BY ClickInOrder DEF Clicking, Fits, Wizards
<1>2. CanClick(2)
  BY DEF FormatHardDrive, CanStray
<1>3. /\ z.page.lock = "off" /\ ~ z.page.complete /\ (z.hurried \/ z.page.active = 2)
      /\ \A c \in z.calls : c.kind \notin Chain
  BY <1>1, <1>2, HereInOrder
<1> HIDE DEF z
<1>4. wizard' = Call(y, "format", NoForm)
  BY <1>1 DEF FormatHardDrive, z, Fits, Wizards
<1>5. /\ p.shown = z.page.shown /\ p.active = z.page.active /\ p.lock = "format"
      /\ p.verified = z.page.verified /\ p.sent = z.page.sent /\ p.entry = z.page.entry
      /\ p.report = z.page.report /\ p.complete = z.page.complete
  BY <1>1 DEF Pages
<1>6. p \in Pages
  BY <1>1 DEF Pages
<1> HIDE DEF p
<1>7. /\ y.page = p /\ y.unit = z.unit /\ y.calls = z.calls /\ SameHistory(y, z) /\ Fits(y)
  BY <1>1, <1>6 DEF Fits, Wizards, SameHistory
<1> HIDE DEF y
<1>8. InOrder(z) /\ (z.hurried \/ ~ Busy(z, Moves))
  BY <1>1 DEF Clicking
<1>9. LockKept(y) /\ DriveKept(y)
  BY <1>3, <1>5, <1>7, <1>8 DEF InOrder, LockKept, DriveKept, Chain
<1>10. z.hurried \/ OneMove(y)
  <2> SUFFICES ASSUME ~ z.hurried PROVE OneMove(y)
    OBVIOUS
  <2>1. OneMove(z) /\ ~ Busy(z, Moves) /\ z.page.active = 2 /\ ~ z.page.complete
    BY <1>3, <1>8 DEF InOrder
  <2>2. \A c \in y.calls : c.kind \in Moves => c.deaf /\ c.kind = "finalize"
    BY <1>7, <2>1 DEF OneMove, Busy
  <2>3. ~ Busy(y, {"site", "admin"})
    BY <2>2 DEF Busy, Moves
  <2> QED
    BY <1>5, <1>7, <2>1, <2>2, <2>3 DEF OneMove
<1>11. z.hurried \/ z.orphaned \/ Reflected(y)
  BY <1>3, <1>5, <1>7, <1>8 DEF InOrder, Reflected, Answered
<1>12. z.hurried \/ z.reconsidered \/ Stays(y)
  BY <1>5, <1>7, <1>8 DEF InOrder, Stays, SameHistory
<1>13. z.hurried \/ z.reconsidered \/ z.orphaned \/ Agreed(y)
  BY <1>5, <1>7, <1>8 DEF InOrder, Agreed
<1>14. z.hurried \/ z.reconsidered \/ z.astray \/ (Written(y) /\ y.unit.daemon = "current")
  BY <1>3, <1>5, <1>7, <1>8 DEF InOrder, Written, Stage, SameHistory
<1>15. InOrder(y)
  BY <1>7, <1>9, <1>10, <1>11, <1>12, <1>13, <1>14 DEF InOrder, SameHistory
<1>16. MayAdd(y, "format", NoForm, "pending")
  BY <1>3, <1>5, <1>7, <1>14 DEF MayAdd, Chain, Moves, Cloud, Answered, Stage, SameHistory
<1>17. Known(wizard')
  <2>1. wizard'.page = y.page
    BY <1>4, <1>7, CallShape
  <2> QED
    BY <1>5, <1>7, <2>1 DEF Known
<1> QED
  BY <1>4, <1>7, <1>15, <1>16, <1>17, CallInOrder

(* Continue is clicked for a drive that is known, or blindly. *)
LEMMA ProceedToStep3InOrder ==
  ASSUME Safe(wizard), InOrder(wizard), Known(wizard), ProceedToStep3
  PROVE  InOrder(wizard') /\ Known(wizard')
<1> DEFINE net == wizard.page.net
           z == Confirmed
           blind == z.blind \/ Busy(wizard, {"status"})
           p == [z.page EXCEPT !.sent = net]
           x == [z EXCEPT !.blind = blind]
           y == [x EXCEPT !.page = p]
<1>1. PICK skip \in BOOLEAN :
        /\ CanConfirm(2) /\ Offered(skip)
        /\ wizard' = Call([z EXCEPT !.page.sent = net, !.blind = @ \/ Busy(wizard, {"status"})],
                          "network", [NoForm EXCEPT !.net = net, !.skip = skip])
  BY DEF ProceedToStep3
<1> DEFINE form == [NoForm EXCEPT !.net = net, !.skip = skip]
<1>2. /\ Clicking(z) /\ Fits(z) /\ z.page \in Pages /\ z.page = wizard.page
      /\ z.unit = wizard.unit /\ z.calls = wizard.calls
  BY ClickInOrder DEF Clicking, Fits, Wizards
<1>3. CanClick(2)
  BY <1>1 DEF CanConfirm
<1>4. /\ z.page.lock = "off" /\ 2 \in z.page.shown /\ (z.hurried \/ z.page.active = 2)
      /\ \A c \in z.calls : c.kind \notin Chain
  BY <1>2, <1>3, HereInOrder
<1>5. form.net = net /\ form.skip = skip /\ net \in Modes
  BY DEF NoForm, Safe, Fits, Wizards, Pages
<1>6. /\ blind \in BOOLEAN /\ (z.blind => blind)
      /\ skip \/ blind \/ z.unit.drive = "ext4"
  <2>1. skip = z.page.abnormal
    BY <1>1, <1>2 DEF Offered
  <2>2. Busy(z, {"status"}) \/ z.page.abnormal \/ z.unit.drive = "ext4"
    BY <1>2, <1>4 DEF Known, Busy
  <2>3. z.blind \in BOOLEAN
    BY <1>2 DEF Fits, Wizards
  <2> QED
    BY <1>2, <2>1, <2>2, <2>3 DEF Busy
<1> HIDE DEF z, form, blind
<1>7. wizard' = Call(y, "network", form)
  BY <1>1, <1>2 DEF Fits, Wizards, form, blind
<1>8. /\ p.shown = z.page.shown /\ p.active = z.page.active /\ p.lock = z.page.lock
      /\ p.verified = z.page.verified /\ p.sent = net /\ p.entry = z.page.entry
      /\ p.report = z.page.report /\ p.complete = z.page.complete /\ p.abnormal = z.page.abnormal
  BY <1>2 DEF Pages
<1>9. p \in Pages
  BY <1>2, <1>5 DEF Pages, OrNone
<1> HIDE DEF p, net
<1>10. /\ x.page = z.page /\ x.unit = z.unit /\ x.calls = z.calls
       /\ x.hurried = z.hurried /\ x.blind = blind /\ x.astray = z.astray
       /\ x.orphaned = z.orphaned /\ x.aborted = z.aborted /\ x.reconsidered = z.reconsidered
       /\ Fits(x)
  BY <1>2, <1>6 DEF Fits, Wizards
<1> HIDE DEF x
<1>11. /\ y.page = p /\ y.unit = x.unit /\ y.calls = x.calls /\ SameHistory(y, x) /\ Fits(y)
  BY <1>9, <1>10 DEF Fits, Wizards, SameHistory
<1> HIDE DEF y
<1>12. InOrder(x) /\ (x.hurried \/ ~ Busy(x, Moves))
  <2>1. InOrder(z) /\ (z.hurried \/ ~ Busy(z, Moves))
    BY <1>2 DEF Clicking
  <2> QED
    BY <1>6, <1>10, <2>1, HistoryInOrder DEF Busy
<1>13. x.hurried \/ x.orphaned \/ Reflected(y)
  <2> SUFFICES ASSUME ~ x.hurried, ~ x.orphaned PROVE Reflected(y)
    OBVIOUS
  <2>1. Reflected(x) /\ ~ Busy(x, Moves) /\ x.page.active = 2
    BY <1>4, <1>10, <1>12 DEF InOrder
  <2>2. \A c \in y.calls : ~ c.deaf => Answered(y, c.kind, c.form, c.reply)
    BY <1>8, <1>10, <1>11, <2>1 DEF Reflected, Answered, Busy, Moves
  <2> QED
    BY <1>8, <1>10, <1>11, <2>1, <2>2 DEF Reflected
<1>14. InOrder(y)
  BY <1>8, <1>10, <1>11, <1>12, <1>13, FieldsInOrder
<1>15. MayAdd(y, "network", form, "pending")
  BY <1>4, <1>5, <1>6, <1>8, <1>10, <1>11, <1>12
     DEF MayAdd, Chain, Moves, Cloud, InPlace, Usable, Answered, Stage, Busy, SameHistory
<1>16. Known(y) /\ y.page.shown # {1}
  BY <1>2, <1>4, <1>8, <1>10, <1>11 DEF Known, Busy
<1> QED
  BY <1>7, <1>11, <1>14, <1>15, <1>16, CallInOrder, CallKnown

(* Requests to the cloud come before step 3 is confirmed. *)
LEMMA AskCloudInOrder ==
  ASSUME Safe(wizard), InOrder(wizard), AskCloud
  PROVE  InOrder(wizard') /\ (Known(wizard) => Known(wizard'))
<1> DEFINE z == Strayed
<1>1. PICK kind \in Cloud \ {"unlink"}, a \in Accounts :
        /\ CanStray(3)
        /\ wizard' = Call([z EXCEPT !.page.creds = a], kind, [NoForm EXCEPT !.account = a])
  BY DEF AskCloud
<1> DEFINE form == [NoForm EXCEPT !.account = a]
           p == [z.page EXCEPT !.creds = a]
           y == [z EXCEPT !.page = p]
<1>2. Clicking(z) /\ Fits(z) /\ z.page \in Pages
  BY ClickInOrder DEF Clicking, Fits, Wizards
<1>3. CanClick(3)
  BY <1>1 DEF CanStray
<1>4. z.hurried \/ z.page.active = 3
  BY <1>2, <1>3, HereInOrder
<1> HIDE DEF z, form
<1>5. wizard' = Call(y, kind, form)
  BY <1>1, <1>2 DEF Fits, Wizards, form
<1>6. SamePage(p, z.page) /\ p.abnormal = z.page.abnormal /\ p \in Pages
  BY <1>2 DEF Pages, SamePage, OrNone
<1> HIDE DEF p
<1>7. /\ y.page = p /\ y.unit = z.unit /\ y.calls = z.calls /\ SameHistory(y, z) /\ Fits(y)
  BY <1>2, <1>6 DEF Fits, Wizards, SameHistory
<1>8. InOrder(y)
  BY <1>2, <1>6, PageInOrder DEF Clicking
<1> HIDE DEF y
<1>9. z.hurried \/ ~ Busy(z, Moves)
  BY <1>2 DEF Clicking
<1>10. MayAdd(y, kind, form, "pending")
  BY <1>4, <1>6, <1>7, <1>9
     DEF MayAdd, Chain, Moves, Cloud, Answered, Stage, Busy, SamePage, SameHistory
<1>11. (Known(wizard) => Known(y)) /\ kind \notin Moves
  BY <1>2, <1>6, <1>7 DEF Known, Busy, Clicking, SamePage, Moves, Cloud
<1> QED
  BY <1>5, <1>7, <1>8, <1>10, <1>11, CallInOrder, CallKnown

(* Step 3 is confirmed. *)
LEMMA ProceedToStep4InOrder ==
  ASSUME Safe(wizard), InOrder(wizard), ProceedToStep4
  PROVE  InOrder(wizard') /\ (Known(wizard) => Known(wizard'))
<1> DEFINE z == Confirmed
           hurried == z.hurried \/ Busy(wizard, Cloud)
           form == [NoForm EXCEPT !.entry = wizard.page.entry]
           y == [z EXCEPT !.hurried = hurried]
<1>1. /\ Clicking(z) /\ Fits(z) /\ z.page = wizard.page /\ z.calls = wizard.calls
      /\ z.unit = wizard.unit
  BY ClickInOrder DEF Clicking
<1>2. CanClick(3)
  BY DEF ProceedToStep4, CanConfirm
<1>3. /\ z.page.lock = "off" /\ 3 \in z.page.shown /\ (z.hurried \/ z.page.active = 3)
      /\ \A c \in z.calls : c.kind \notin Chain
  BY <1>1, <1>2, HereInOrder
<1>4. /\ hurried \in BOOLEAN /\ (z.hurried => hurried) /\ (hurried \/ ~ Busy(z, Cloud))
  BY <1>1 DEF Fits, Wizards, Busy
<1>5. form.entry = z.page.entry
  BY <1>1 DEF NoForm
<1> HIDE DEF z, form, hurried
<1>6. wizard' = Call(y, "site", form)
  BY <1>1 DEF ProceedToStep4, z, form, hurried, Fits, Wizards
<1>7. /\ y.page = z.page /\ y.unit = z.unit /\ y.calls = z.calls
      /\ y.hurried = hurried /\ y.blind = z.blind /\ y.astray = z.astray
      /\ y.orphaned = z.orphaned /\ y.aborted = z.aborted /\ y.reconsidered = z.reconsidered
      /\ Fits(y)
  BY <1>1, <1>4 DEF Fits, Wizards
<1> HIDE DEF y
<1>8. InOrder(y)
  BY <1>1, <1>4, <1>7, HistoryInOrder DEF Clicking
<1>9. z.hurried \/ ~ Busy(z, Moves)
  BY <1>1 DEF Clicking
<1>10. MayAdd(y, "site", form, "pending")
  BY <1>3, <1>4, <1>5, <1>7, <1>9
     DEF MayAdd, Chain, Moves, Cloud, InPlace, Usable, Answered, Stage, Busy
<1>11. (Known(wizard) => Known(y)) /\ y.page.shown # {1}
  BY <1>1, <1>3, <1>7 DEF Known, Busy
<1> QED
  BY <1>6, <1>7, <1>8, <1>10, <1>11, CallInOrder, CallKnown

(* What is applied is what is on the report. *)
LEMMA ApplyAndRebootInOrder ==
  ASSUME Safe(wizard), InOrder(wizard), ApplyAndReboot
  PROVE  InOrder(wizard') /\ (Known(wizard) => Known(wizard'))
<1> DEFINE z == Confirmed
           form == Payload(wizard.page)
           p == [z.page EXCEPT !.applying = TRUE]
           y == [z EXCEPT !.page = p]
<1>1. Clicking(z) /\ Fits(z) /\ z.page \in Pages /\ z.page = wizard.page
  BY ClickInOrder DEF Clicking, Fits, Wizards
<1>2. CanClick(4)
  BY DEF ApplyAndReboot, CanConfirm
<1>3. /\ z.page.lock = "off" /\ 4 \in z.page.shown /\ (z.hurried \/ z.page.active = 4)
      /\ \A c \in z.calls : c.kind \notin Chain
  BY <1>1, <1>2, HereInOrder
<1>4. /\ form.list = z.page.verified /\ form.net = z.page.sent /\ form.entry = z.page.entry
      /\ form.account = z.page.email
  BY <1>1 DEF Payload, NoForm
<1> HIDE DEF z, form
<1>5. wizard' = Call(y, "finalize", form)
  BY <1>1 DEF ApplyAndReboot, z, form, Fits, Wizards
<1>6. SamePage(p, z.page) /\ p.abnormal = z.page.abnormal /\ p \in Pages
  BY <1>1 DEF Pages, SamePage
<1> HIDE DEF p
<1>7. /\ y.page = p /\ y.unit = z.unit /\ y.calls = z.calls /\ SameHistory(y, z) /\ Fits(y)
  BY <1>1, <1>6 DEF Fits, Wizards, SameHistory
<1>8. InOrder(y)
  BY <1>1, <1>6, PageInOrder DEF Clicking
<1> HIDE DEF y
<1>9. InOrder(z) /\ (z.hurried \/ ~ Busy(z, Moves))
  BY <1>1 DEF Clicking
<1>10. z.hurried \/ z.orphaned \/ Agrees(form, z.page.report)
  BY <1>3, <1>4, <1>9 DEF InOrder, Reflected, Report, Agrees
<1>11. MayAdd(y, "finalize", form, "pending")
  BY <1>3, <1>6, <1>7, <1>9, <1>10
     DEF MayAdd, Chain, Moves, Cloud, InPlace, Usable, Answered, Stage, Busy, SamePage, SameHistory
<1>12. (Known(wizard) => Known(y)) /\ y.page.shown # {1}
  BY <1>1, <1>3, <1>6, <1>7 DEF Known, Busy, Clicking, SamePage
<1> QED
  BY <1>5, <1>7, <1>8, <1>11, <1>12, CallInOrder, CallKnown

(* Going back leaves what was confirmed behind. *)
LEMMA GoBackInOrder ==
  ASSUME Safe(wizard), InOrder(wizard), GoBack
  PROVE  InOrder(wizard') /\ (Known(wizard) => Known(wizard'))
<1>1. PICK step \in 2 .. 4 :
        /\ CanClick(step)
        /\ wizard' = Show([Strayed EXCEPT !.reconsidered = @ \/ wizard.aborted], step, step - 1)
  BY DEF GoBack, CanStray
<1> DEFINE z == Strayed
           going == z.reconsidered \/ wizard.aborted
           shown == (z.page.shown \ {step}) \cup {step - 1}
           p == [z.page EXCEPT !.shown = shown, !.active = step - 1]
           y == [z EXCEPT !.reconsidered = going, !.page = p]
<1>2. /\ Clicking(z) /\ Fits(z) /\ z.page \in Pages /\ z.page = wizard.page
      /\ z.unit = wizard.unit /\ z.calls = wizard.calls
  BY ClickInOrder DEF Clicking, Fits, Wizards
<1>3. /\ z.page.lock = "off" /\ ~ z.page.complete /\ step \in z.page.shown
      /\ z.hurried \/ z.page.active = step
  BY <1>1, <1>2, HereInOrder
<1>4. going = (z.reconsidered \/ z.aborted)
  BY <1>2 DEF Clicking
<1> HIDE DEF z, going
<1>5. wizard' = y
  BY <1>1, <1>2 DEF Show, z, going, Fits, Wizards
<1>6. /\ p.shown = shown /\ p.active = step - 1 /\ p.lock = z.page.lock
      /\ p.verified = z.page.verified /\ p.sent = z.page.sent /\ p.entry = z.page.entry
      /\ p.report = z.page.report /\ p.complete = z.page.complete /\ p.abnormal = z.page.abnormal
  BY <1>2 DEF Pages
<1> HIDE DEF p
<1>7. /\ y.page = p /\ y.unit = z.unit /\ y.calls = z.calls
      /\ y.hurried = z.hurried /\ y.blind = z.blind /\ y.astray = z.astray
      /\ y.orphaned = z.orphaned /\ y.aborted = z.aborted /\ y.reconsidered = going
  BY <1>2 DEF Fits, Wizards
<1> HIDE DEF y
<1>8. InOrder(z) /\ (z.hurried \/ ~ Busy(z, Moves))
  BY <1>2 DEF Clicking
<1>9. LockKept(y) /\ DriveKept(y)
  BY <1>6, <1>7, <1>8 DEF InOrder, LockKept, DriveKept
<1>10. z.hurried \/ OneMove(y)
  <2> SUFFICES ASSUME ~ z.hurried PROVE OneMove(y)
    OBVIOUS
  <2>1. OneMove(z) /\ ~ Busy(z, Moves) /\ z.page.active = step
    BY <1>3, <1>8 DEF InOrder
  <2>2. \A c \in y.calls : c.kind \in Moves => c.deaf /\ c.kind = "finalize"
    BY <1>7, <2>1 DEF OneMove, Busy
  <2>3. ~ Busy(y, {"site", "admin"})
    BY <2>2 DEF Busy, Moves
  <2>4. p.shown = {p.active} /\ p.active # 4 /\ p.lock = "off" /\ ~ p.complete
    BY <1>3, <1>6, <2>1 DEF OneMove
  <2> QED
    BY <1>7, <2>2, <2>3, <2>4 DEF OneMove
<1>11. z.hurried \/ z.orphaned \/ Reflected(y)
  <2> SUFFICES ASSUME ~ z.hurried, ~ z.orphaned PROVE Reflected(y)
    OBVIOUS
  <2>1. Reflected(z) /\ z.page.active = step
    BY <1>3, <1>8 DEF InOrder
  <2>2. \A c \in y.calls : ~ c.deaf => Answered(y, c.kind, c.form, c.reply)
    BY <1>6, <1>7, <2>1 DEF Reflected, Answered
  <2>3. /\ p.active >= 2 => p.verified = y.unit.discovery
        /\ p.active >= 3 => p.sent = y.unit.network
        /\ p.active # 4
    BY <1>6, <1>7, <2>1 DEF Reflected
  <2> QED
    BY <1>7, <2>2, <2>3 DEF Reflected
<1>12. y.hurried \/ y.reconsidered \/ Stays(y)
  BY <1>4, <1>6, <1>7, <1>8 DEF InOrder, Stays
<1>13. y.hurried \/ y.reconsidered \/ z.orphaned \/ Agreed(y)
  BY <1>4, <1>6, <1>7, <1>8 DEF InOrder, Agreed
<1>14. y.hurried \/ y.reconsidered \/ z.astray \/ Written(y)
  BY <1>4, <1>6, <1>7, <1>8 DEF InOrder, Written, Stage
<1>15. InOrder(y)
  BY <1>7, <1>9, <1>10, <1>11, <1>12, <1>13, <1>14 DEF InOrder
<1>16. Known(wizard) => Known(y)
  BY <1>2, <1>3, <1>6, <1>7 DEF Known, Busy
<1> QED
  BY <1>5, <1>15, <1>16

(* A page that is loaded anew knows nothing, and hears nothing. *)
LEMMA ReloadInOrder ==
  ASSUME SetupInputs, Safe(wizard), InOrder(wizard), Reload
  PROVE  InOrder(wizard') /\ Known(wizard')
<1> DEFINE p == Page(AList, AnEntry, wizard.page.sent)
           calls == {[c EXCEPT !.deaf = TRUE] : c \in {d \in wizard.calls : d.reply = "pending"}}
           y == wizard'
<1>1. /\ wizard.page.lock = "failed"
      /\ wizard' = [wizard EXCEPT !.page = p, !.calls = calls, !.clicks = @ + 1]
  BY DEF Reload
<1>2. \A d \in calls : \E c \in wizard.calls :
        d.deaf /\ d.kind = c.kind /\ d.form = c.form /\ d.reply = "pending"
  <2>1. SUFFICES ASSUME NEW c \in wizard.calls, c.reply = "pending", NEW d, d = [c EXCEPT !.deaf = TRUE]
                 PROVE  d.deaf /\ d.kind = c.kind /\ d.form = c.form /\ d.reply = "pending"
    OBVIOUS
  <2> QED
    BY <2>1 DEF Safe, Fits, Wizards, Calls
<1>3. /\ p.shown = {1} /\ p.active = 1 /\ p.lock = "off" /\ p.complete = FALSE
  BY DEF Page
<1> HIDE DEF p, calls
<1>4. y.page = p /\ y.calls = calls /\ y.unit = wizard.unit /\ SameHistory(y, wizard)
  BY <1>1 DEF Safe, Fits, Wizards, SameHistory
<1> HIDE DEF y
<1>5. LockKept(y) /\ DriveKept(y)
  <2>1. \A c \in wizard.calls : c.kind \notin Chain
    BY <1>1 DEF InOrder, LockKept, Chain
  <2> QED
    BY <1>2, <1>3, <1>4, <2>1 DEF LockKept, DriveKept, Chain
<1>6. wizard.hurried \/ (OneMove(wizard) /\ wizard.page.active = 2)
  BY <1>1 DEF InOrder, OneMove
<1>7. wizard.hurried \/ \A d \in calls : d.kind \in Moves =>
        d.kind = "finalize" /\ \E c \in wizard.calls : c.deaf /\ c.kind = "finalize"
  BY <1>1, <1>2, <1>6 DEF OneMove
<1>8. wizard.hurried \/ OneMove(y)
  BY <1>2, <1>3, <1>4, <1>7 DEF OneMove, Busy
<1>9. wizard.hurried \/ wizard.orphaned \/ Reflected(y)
  BY <1>2, <1>3, <1>4 DEF Reflected
<1>10. wizard.hurried \/ wizard.reconsidered \/
         (~ wizard.aborted /\ \A d \in calls : d.kind # "finalize")
  BY <1>6, <1>7 DEF InOrder, Stays, Moves
<1>11. wizard.hurried \/ wizard.reconsidered \/ Stays(y)
  BY <1>4, <1>10 DEF Stays, SameHistory
<1>12. wizard.hurried \/ wizard.reconsidered \/ wizard.orphaned \/ Agreed(y)
  BY <1>3, <1>4, <1>10 DEF Agreed
<1>13. wizard.hurried \/ wizard.reconsidered \/ wizard.astray
  BY <1>1 DEF InOrder, Written
<1>14. InOrder(y)
  BY <1>4, <1>5, <1>8, <1>9, <1>11, <1>12, <1>13 DEF InOrder, SameHistory
<1>15. Known(y)
  BY <1>2, <1>3, <1>4 DEF Known
<1> QED
  BY <1>14, <1>15 DEF y

(***************************************************************************)
(* The recorder                                                            *)
(***************************************************************************)
(* What a request in flight says, apart from the others. *)
LEMMA TakenInOrder ==
  ASSUME NEW z, NEW w, NEW c \in z.calls, InOrder(z), w.page = z.page, w.unit = z.unit,
         SameHistory(w, z), w.calls = z.calls \ {c}
  PROVE  InOrder(w) /\ (~ c.deaf => MayAdd(w, c.kind, c.form, c.reply))
<1>1. InOrder(w)
  BY FewerInOrder DEF SamePage, SameUnit
<1>2. ASSUME ~ c.deaf PROVE MayAdd(w, c.kind, c.form, c.reply)
  <2>1. /\ c.kind \in Chain => \A d \in w.calls : d.kind \notin Chain
        /\ c.kind = "format" => w.page.lock = "format"
        /\ c.kind = "restart" => w.page.lock = "restart"
        /\ c.kind = "poll" => w.page.lock = "verify"
        /\ c.kind = "format" /\ c.reply \in {"ok", "restart"} => w.unit.drive = "ext4"
        /\ w.page.lock = "off" /\ c.kind = "status" /\ c.reply = "ext4" => w.unit.drive = "ext4"
    BY DEF InOrder, LockKept, DriveKept
  <2>2. w.hurried \/
          /\ c.kind \in Moves => /\ ~ Busy(w, Moves) /\ InPlace(w, c.kind) /\ w.page.lock = "off"
                                 /\ Usable(w, c.kind, c.form)
          /\ c.kind \in {"site", "admin"} => ~ Busy(w, Cloud)
          /\ c.kind \in Cloud => w.page.active # 4 /\ ~ Busy(w, {"site", "admin"})
    <3> SUFFICES ASSUME ~ w.hurried
                 PROVE  /\ c.kind \in Moves => /\ ~ Busy(w, Moves) /\ InPlace(w, c.kind)
                                               /\ w.page.lock = "off" /\ Usable(w, c.kind, c.form)
                        /\ c.kind \in {"site", "admin"} => ~ Busy(w, Cloud)
                        /\ c.kind \in Cloud => w.page.active # 4 /\ ~ Busy(w, {"site", "admin"})
      OBVIOUS
    <3>1. OneMove(z)
      BY DEF InOrder, SameHistory
    <3>2. c.kind \in Moves => InPlace(w, c.kind) /\ w.page.lock = "off" /\ Usable(w, c.kind, c.form)
      BY <1>2, <3>1 DEF OneMove, InPlace, Usable, SameHistory
    <3>3. c.kind \in Moves => ~ Busy(w, Moves)
      BY <1>2, <3>1 DEF OneMove, Busy
    <3>4. c.kind \in {"site", "admin"} => Busy(z, {"site", "admin"})
      BY <1>2 DEF Busy
    <3>5. c.kind \in Cloud => Busy(z, Cloud)
      BY <1>2 DEF Busy
    <3>6. /\ Busy(w, Cloud) => Busy(z, Cloud)
          /\ Busy(w, {"site", "admin"}) => Busy(z, {"site", "admin"})
      BY DEF Busy
    <3> QED
      BY <3>1, <3>2, <3>3, <3>4, <3>5, <3>6 DEF OneMove
  <2>3. w.hurried \/ w.orphaned \/ Answered(w, c.kind, c.form, c.reply)
    BY <1>2 DEF InOrder, Reflected, Answered, SameHistory
  <2>4. w.hurried \/ w.reconsidered \/ w.orphaned \/
          (c.kind = "finalize" => /\ Agrees(c.form, w.page.report)
                                  /\ c.reply = "ok" => Agrees(w.unit.applied, w.page.report))
    BY DEF InOrder, Agreed, SameHistory
  <2>5. w.hurried \/ w.reconsidered \/ w.astray \/ Stage(w, c.kind, c.reply)
    BY DEF InOrder, Written, Stage, SameHistory
  <2> QED
    BY <2>1, <2>2, <2>3, <2>4, <2>5 DEF MayAdd
<1> QED
  BY <1>1, <1>2

(* What is stored when a request is served, and what becomes of it when it *)
(* is answered with reply.                                                 *)
Stores(u, v, kind, form, reply) ==
  /\ v.drive = u.drive /\ v.daemon = u.daemon
  /\ v.discovery = IF kind = "discovery" THEN form.list ELSE u.discovery
  /\ v.network = IF kind \in {"network", "apply_network"} THEN form.net ELSE u.network
  /\ v.site = IF kind = "site" THEN form.entry ELSE u.site
  /\ v.admin = IF kind = "admin" THEN form.entry ELSE u.admin
  /\ v.applied = IF kind = "finalize" /\ reply = "ok" THEN form ELSE u.applied

(* The steps are not touched. *)
SameSteps(u, v) ==
  /\ u.discovery = v.discovery /\ u.network = v.network /\ u.site = v.site
  /\ u.admin = v.admin /\ u.applied = v.applied

(* What serving c comes to, with a the state behind it. *)
Outcome(z, a, c, reply) ==
  /\ a.hurried = z.hurried /\ a.blind = z.blind /\ a.aborted = z.aborted
  /\ a.reconsidered = z.reconsidered
  /\ CASE c.kind = "format" ->
            /\ a.astray = z.astray /\ a.orphaned = z.orphaned /\ SameSteps(a.unit, z.unit)
            /\ \/ a.unit.drive = "ext4" /\ a.unit.daemon = "stale" /\ reply = "restart"
               \/ a.unit.drive = "ext4" /\ a.unit.daemon = z.unit.daemon /\ reply = "ok"
               \/ a.unit.drive = "other" /\ a.unit.daemon = z.unit.daemon /\ reply = "refused"
       [] c.kind = "restart" ->
            /\ a.orphaned = z.orphaned /\ SameSteps(a.unit, z.unit) /\ a.unit.drive = z.unit.drive
            /\ reply = "ok"
            /\ a.astray \/ (a.unit.daemon = "down" /\ a.astray = z.astray)
       [] OTHER ->
            /\ a.astray = z.astray
            /\ \/ a.orphaned /\ SameUnit(a.unit, z.unit) /\ c.kind \in Moves
                  /\ z.unit.daemon # "current"
               \/ a.orphaned = z.orphaned /\ Stores(z.unit, a.unit, c.kind, c.form, reply)
            /\ c.kind = "status" => reply = z.unit.drive
            /\ c.kind = "poll" /\ reply = "ok" => z.unit.daemon # "degraded"

(* Drive and daemon are set, and nothing else. *)
LEMMA MachineShape ==
  ASSUME NEW z \in Wizards, NEW drive, NEW daemon
  PROVE  LET a == [z EXCEPT !.unit = [z.unit EXCEPT !.drive = drive, !.daemon = daemon]]
         IN  /\ SameHistory(a, z) /\ SameSteps(a.unit, z.unit)
             /\ a.unit.drive = drive /\ a.unit.daemon = daemon
<1> DEFINE u == [z.unit EXCEPT !.drive = drive, !.daemon = daemon]
           a == [z EXCEPT !.unit = u]
<1>1. SameSteps(u, z.unit) /\ u.drive = drive /\ u.daemon = daemon
  BY DEF SameSteps, Wizards, Units
<1> HIDE DEF u
<1>2. a.unit = u /\ SameHistory(a, z)
  BY DEF SameHistory, Wizards
<1> HIDE DEF a
<1> QED
  BY <1>1, <1>2 DEF a, u

(* Every outcome is one of these. *)
LEMMA OutcomeShape ==
  ASSUME NEW z, Safe(z), NEW c \in z.calls, c.reply = "pending", NEW o \in Outcomes(z, c)
  PROVE  o.after.page = z.page /\ o.after.calls = z.calls /\ Outcome(z, o.after, c, o.reply)
<1>0. o.after.page = z.page /\ o.after.calls = z.calls
  BY OutcomeSafe
<1>1. z.unit \in Units /\ z \in Wizards
  BY DEF Safe, Fits, Wizards
<1>2. CASE c.kind = "format"
  <2>1. /\ \/ o.after = [z EXCEPT !.unit.drive = "ext4", !.unit.daemon = "stale"] /\ o.reply = "restart"
           \/ o.after = [z EXCEPT !.unit.drive = "ext4"] /\ o.reply = "ok"
           \/ o.after = [z EXCEPT !.unit.drive = "other"] /\ o.reply = "refused"
    BY <1>2 DEF Outcomes
  <2> DEFINE After(d, m) == [z EXCEPT !.unit = [z.unit EXCEPT !.drive = d, !.daemon = m]]
  <2>2. /\ [z EXCEPT !.unit.drive = "ext4", !.unit.daemon = "stale"] = After("ext4", "stale")
        /\ [z EXCEPT !.unit.drive = "ext4"] = After("ext4", z.unit.daemon)
        /\ [z EXCEPT !.unit.drive = "other"] = After("other", z.unit.daemon)
    BY <1>1 DEF Wizards, Units
  <2>3. \A d, m : /\ SameHistory(After(d, m), z) /\ SameSteps(After(d, m).unit, z.unit)
                  /\ After(d, m).unit.drive = d /\ After(d, m).unit.daemon = m
    BY <1>1, MachineShape
  <2> HIDE DEF After
  <2>4. /\ SameHistory(o.after, z) /\ SameSteps(o.after.unit, z.unit)
        /\ \/ o.after.unit.drive = "ext4" /\ o.after.unit.daemon = "stale" /\ o.reply = "restart"
           \/ /\ o.after.unit.drive = "ext4" /\ o.after.unit.daemon = z.unit.daemon
              /\ o.reply = "ok"
           \/ /\ o.after.unit.drive = "other" /\ o.after.unit.daemon = z.unit.daemon
              /\ o.reply = "refused"
    BY <2>1, <2>2, <2>3
  <2> QED
    BY <1>0, <1>2, <2>4 DEF Outcome, SameHistory
<1>3. CASE c.kind = "restart"
  <2>1. /\ o.reply = "ok"
        /\ \/ o.after = [z EXCEPT !.unit.daemon = "down"]
           \/ o.after = [z EXCEPT !.unit.daemon = "leaving", !.astray = TRUE]
    BY <1>3 DEF Outcomes
  <2> DEFINE After(m) == [z EXCEPT !.unit = [z.unit EXCEPT !.drive = z.unit.drive, !.daemon = m]]
             leaving == [After("leaving") EXCEPT !.astray = TRUE]
  <2>2. /\ [z EXCEPT !.unit.daemon = "down"] = After("down")
        /\ [z EXCEPT !.unit.daemon = "leaving", !.astray = TRUE] = leaving
    BY <1>1 DEF Wizards, Units
  <2>3. \A m : /\ SameHistory(After(m), z) /\ SameSteps(After(m).unit, z.unit)
               /\ After(m).unit.drive = z.unit.drive /\ After(m).unit.daemon = m
    BY <1>1, MachineShape, ZenonT(60)
  <2>4. /\ leaving.astray /\ leaving.hurried = z.hurried /\ leaving.blind = z.blind
        /\ leaving.aborted = z.aborted /\ leaving.reconsidered = z.reconsidered
        /\ leaving.orphaned = z.orphaned /\ leaving.unit = After("leaving").unit
    BY <1>1, <2>3 DEF SameHistory, Wizards
  <2> HIDE DEF After, leaving
  <2>5. \/ /\ SameHistory(o.after, z) /\ SameSteps(o.after.unit, z.unit)
           /\ o.after.unit.drive = z.unit.drive /\ o.after.unit.daemon = "down"
        \/ o.after = leaving
    BY <2>1, <2>2, <2>3
  <2>6. /\ o.after.hurried = z.hurried /\ o.after.blind = z.blind
        /\ o.after.aborted = z.aborted /\ o.after.reconsidered = z.reconsidered
        /\ o.after.orphaned = z.orphaned /\ SameSteps(o.after.unit, z.unit)
        /\ o.after.unit.drive = z.unit.drive
        /\ o.after.astray \/ (o.after.unit.daemon = "down" /\ o.after.astray = z.astray)
    BY <2>3, <2>4, <2>5 DEF SameHistory
  <2> QED
    BY <1>0, <1>3, <2>1, <2>6 DEF Outcome
<1>4. CASE c.kind \notin {"format", "restart"}
  <2> DEFINE a == Effect(z, c.kind, c.form)
  <2>1. o.after = a /\ o.reply = Reply(z, c.kind, c.form)
    BY <1>4 DEF Outcomes
  <2>2. SameHistory(a, z) \/ (SameHistory(a, [z EXCEPT !.orphaned = TRUE]))
    BY <1>1 DEF Effect, Store, SameHistory, Wizards
  <2>3. \/ a.orphaned /\ SameUnit(a.unit, z.unit) /\ c.kind \in Moves /\ z.unit.daemon # "current"
        \/ a.orphaned = z.orphaned /\ Stores(z.unit, a.unit, c.kind, c.form, o.reply)
    <3>1. CASE c.kind \in Moves
      BY <1>1, <2>1, <3>1, ZenonT(60) DEF Effect, Store, Reply, Stores, SameUnit, Wizards, Units, Moves
    <3>2. CASE c.kind \notin Moves
      BY <1>1, <2>1, <3>2 DEF Effect, Stores, Wizards, Units, Moves
    <3> QED
      BY <3>1, <3>2
  <2>4. /\ c.kind = "status" => o.reply = z.unit.drive
        /\ c.kind = "poll" /\ o.reply = "ok" => z.unit.daemon # "degraded"
    BY <2>1 DEF Reply
  <2> QED
    BY <1>0, <1>1, <1>4, <2>1, <2>2, <2>3, <2>4 DEF Outcome, SameHistory, Wizards
<1> QED
  BY <1>2, <1>3, <1>4

(* The drive and the daemon change behind the lock only. *)
LEMMA MachineInOrder ==
  ASSUME NEW w, NEW x, InOrder(w), x.page = w.page, x.calls = w.calls,
         w.page.lock \in {"format", "restart"}, \A d \in w.calls : d.kind \notin Chain,
         SameSteps(x.unit, w.unit), x.unit.drive = w.unit.drive \/ w.page.lock = "format",
         x.hurried = w.hurried, x.blind = w.blind, x.aborted = w.aborted,
         x.reconsidered = w.reconsidered, x.orphaned = w.orphaned, w.astray => x.astray
  PROVE  InOrder(x)
<1>1. LockKept(x)
  BY DEF InOrder, LockKept
<1>2. DriveKept(x)
  BY DEF InOrder, DriveKept, Chain
<1>3. OneMove(w) => OneMove(x)
  BY DEF OneMove, InPlace, Usable, Busy
<1>4. Reflected(w) => Reflected(x)
  BY DEF Reflected, Answered, SameSteps
<1>5. (Stays(w) => Stays(x)) /\ (Agreed(w) => Agreed(x))
  BY DEF Stays, Agreed, SameSteps
<1>6. Written(w) => Written(x)
  BY DEF Written, Stage, Chain
<1> QED
  BY <1>1, <1>2, <1>3, <1>4, <1>5, <1>6 DEF InOrder

(* What is stored is what the page holds. *)
LEMMA StoreInOrder ==
  ASSUME NEW w, NEW x, NEW kind, NEW form, NEW reply, InOrder(w), x.page = w.page,
         x.calls = w.calls, SameHistory(x, w), Stores(w.unit, x.unit, kind, form, reply),
         w.hurried \/ kind \notin Moves \/ kind = "finalize" \/ (~ Busy(w, Moves) /\ InPlace(w, kind)),
         w.hurried \/ w.reconsidered \/ w.orphaned
           \/ (kind = "finalize" => Agrees(form, w.page.report))
  PROVE  InOrder(x)
<1>1. LockKept(x) /\ DriveKept(x)
  BY DEF InOrder, LockKept, DriveKept, Stores
<1>2. OneMove(w) => OneMove(x)
  BY DEF OneMove, InPlace, Usable, Busy, Stores, SameHistory
<1>3. w.hurried \/ w.orphaned \/ Reflected(x)
  <2> SUFFICES ASSUME ~ w.hurried, ~ w.orphaned PROVE Reflected(x)
    OBVIOUS
  <2>1. Reflected(w) /\ (kind \notin Moves \/ kind = "finalize" \/ (~ Busy(w, Moves) /\ InPlace(w, kind)))
    BY DEF InOrder
  <2>2. CASE kind \notin Moves \/ kind = "finalize"
    <3>1. /\ x.unit.discovery = w.unit.discovery /\ x.unit.network = w.unit.network
          /\ x.unit.site = w.unit.site /\ x.unit.admin = w.unit.admin
      BY <2>2 DEF Stores, Moves
    <3> QED
      BY <2>1, <3>1 DEF Reflected, Answered
  <2>3. CASE kind \in Moves /\ kind # "finalize"
    <3>1. \A c \in x.calls : ~ c.deaf => Answered(x, c.kind, c.form, c.reply)
      BY <2>1, <2>3 DEF Busy, Answered, Moves
    <3>2. /\ x.page.active >= 2 => x.unit.discovery = w.unit.discovery
          /\ x.page.active >= 3 => x.unit.network = w.unit.network
          /\ x.page.active = 4 => x.unit.site = w.unit.site /\ x.unit.admin = w.unit.admin
      BY <2>1, <2>3 DEF Stores, InPlace, Moves
    <3> QED
      BY <2>1, <3>1, <3>2 DEF Reflected
  <2> QED
    BY <2>2, <2>3
<1>4. Stays(w) => Stays(x)
  BY DEF Stays, SameHistory
<1>5. w.hurried \/ w.reconsidered \/ w.orphaned \/ Agreed(x)
  <2> SUFFICES ASSUME ~ w.hurried, ~ w.reconsidered, ~ w.orphaned PROVE Agreed(x)
    OBVIOUS
  <2>1. Agreed(w) /\ (kind = "finalize" => Agrees(form, w.page.report))
    BY DEF InOrder
  <2>2. x.unit.applied = w.unit.applied \/ Agrees(x.unit.applied, x.page.report)
    BY <2>1 DEF Stores
  <2> QED
    BY <2>1, <2>2 DEF Agreed
<1>6. Written(w) => Written(x)
  BY DEF Written, Stage, Stores, SameHistory
<1> QED
  BY <1>1, <1>2, <1>3, <1>4, <1>5, <1>6 DEF InOrder, SameHistory

(* The request is answered with what was stored, unless nobody listens. *)
LEMMA StoredMayAdd ==
  ASSUME NEW w, NEW x, NEW kind, NEW form, NEW reply, x.page = w.page,
         x.calls = w.calls, SameHistory(x, w), Stores(w.unit, x.unit, kind, form, reply),
         MayAdd(w, kind, form, "pending"), kind \notin {"format", "restart"},
         NEW r \in {reply, "lost"},
         kind = "status" => reply = w.unit.drive,
         w.hurried \/ w.reconsidered \/ w.astray \/ (kind = "poll" /\ r = "ok" => w.unit.daemon = "current")
  PROVE  MayAdd(x, kind, form, r)
<1>1. /\ kind \in Chain => \A c \in x.calls : c.kind \notin Chain
      /\ kind = "poll" => x.page.lock = "verify"
      /\ kind = "status" /\ r = "ext4" => x.unit.drive = "ext4"
  BY DEF MayAdd, Stores
<1>2. x.hurried \/
       /\ kind \in Moves => /\ ~ Busy(x, Moves) /\ InPlace(x, kind) /\ x.page.lock = "off"
                            /\ Usable(x, kind, form)
       /\ kind \in {"site", "admin"} => ~ Busy(x, Cloud)
       /\ kind \in Cloud => x.page.active # 4 /\ ~ Busy(x, {"site", "admin"})
  <2> SUFFICES ASSUME ~ x.hurried
               PROVE  /\ kind \in Moves => /\ ~ Busy(x, Moves) /\ InPlace(x, kind)
                                           /\ x.page.lock = "off" /\ Usable(x, kind, form)
                      /\ kind \in {"site", "admin"} => ~ Busy(x, Cloud)
                      /\ kind \in Cloud => x.page.active # 4 /\ ~ Busy(x, {"site", "admin"})
    OBVIOUS
  <2>1. /\ kind \in Moves => /\ ~ Busy(w, Moves) /\ InPlace(w, kind)
                             /\ w.page.lock = "off" /\ Usable(w, kind, form)
        /\ kind \in {"site", "admin"} => ~ Busy(w, Cloud)
        /\ kind \in Cloud => w.page.active # 4 /\ ~ Busy(w, {"site", "admin"})
    BY DEF MayAdd, SameHistory
  <2>2. /\ Busy(x, Moves) <=> Busy(w, Moves)
        /\ Busy(x, Cloud) <=> Busy(w, Cloud)
        /\ Busy(x, {"site", "admin"}) <=> Busy(w, {"site", "admin"})
    BY DEF Busy
  <2>3. /\ InPlace(w, kind) => InPlace(x, kind)
        /\ Usable(w, kind, form) => Usable(x, kind, form)
    BY DEF InPlace, Usable, Stores, SameHistory
  <2> QED
    BY <2>1, <2>2, <2>3
<1>3. x.hurried \/ x.orphaned \/ Answered(x, kind, form, r)
  <2> SUFFICES ASSUME ~ x.hurried, ~ x.orphaned PROVE Answered(x, kind, form, r)
    OBVIOUS
  <2>1. Answered(w, kind, form, "pending")
    BY DEF MayAdd, SameHistory
  <2> QED
    BY <2>1 DEF Answered, Stores
<1>4. x.hurried \/ x.reconsidered \/ x.orphaned \/
        (kind = "finalize" => /\ Agrees(form, x.page.report)
                              /\ r = "ok" => Agrees(x.unit.applied, x.page.report))
  BY DEF MayAdd, SameHistory, Stores
<1>5. x.hurried \/ x.reconsidered \/ x.astray \/ Stage(x, kind, r)
  BY DEF Stage, SameHistory, Stores
<1> QED
  BY <1>1, <1>2, <1>3, <1>4, <1>5 DEF MayAdd

(* What is stored for a daemon whose database is hidden is lost; the order *)
(* has been left before.                                                   *)
LEMMA OrphanedInOrder ==
  ASSUME NEW w, NEW x, InOrder(w), x.page = w.page, x.calls = w.calls, SameUnit(x.unit, w.unit),
         x.hurried = w.hurried, x.blind = w.blind, x.aborted = w.aborted,
         x.reconsidered = w.reconsidered, x.astray = w.astray, x.orphaned,
         w.hurried \/ w.reconsidered \/ w.astray
  PROVE  InOrder(x)
<1>1. LockKept(x) /\ DriveKept(x)
  BY DEF InOrder, LockKept, DriveKept, SameUnit
<1>2. OneMove(w) => OneMove(x)
  BY DEF OneMove, InPlace, Usable, Busy, SameUnit
<1>3. Stays(w) => Stays(x)
  BY DEF Stays
<1> QED
  BY <1>1, <1>2, <1>3 DEF InOrder

(* A request that confirms a step is served by a daemon on the drive. *)
LEMMA NoneLeftBehind ==
  ASSUME NEW z, InOrder(z), NEW c \in z.calls, c.kind \in Moves, z.unit.daemon # "current"
  PROVE  z.hurried \/ z.reconsidered \/ z.astray
<1> SUFFICES ASSUME ~ z.hurried, ~ z.reconsidered, ~ z.astray PROVE FALSE
  OBVIOUS
<1>1. OneMove(z) /\ Stays(z) /\ Written(z)
  BY DEF InOrder
<1>2. z.page.lock # "off" /\ z.page.active = 2
  BY <1>1 DEF Written, OneMove
<1>3. c.deaf /\ c.kind = "finalize"
  BY <1>1, <1>2 DEF OneMove
<1> QED
  BY <1>1, <1>2, <1>3 DEF Stays

(* The history, the page and the requests of z, with other requests. *)
Holding(z, calls) ==
  [page |-> z.page, unit |-> z.unit, calls |-> calls, hurried |-> z.hurried, blind |-> z.blind,
   astray |-> z.astray, orphaned |-> z.orphaned, aborted |-> z.aborted,
   reconsidered |-> z.reconsidered]

(* What the requests are after c was answered with r. *)
Replied(y, z, c, d, r) ==
  /\ y.page = z.page
  /\ y.calls = (z.calls \ {c}) \cup IF c.deaf THEN {} ELSE {d}
  /\ d.kind = c.kind /\ d.form = c.form /\ d.reply = r /\ d.deaf = c.deaf

(* A request that is answered or dropped once the recorder is done. *)
LEMMA RepliedInOrder ==
  ASSUME NEW z, NEW y, NEW c \in z.calls, NEW d, NEW r, Replied(y, z, c, d, r),
         InOrder(Holding(y, z.calls \ {c})),
         ~ c.deaf => MayAdd(Holding(y, z.calls \ {c}), c.kind, c.form, r)
  PROVE  InOrder(y)
<1> DEFINE x == Holding(y, z.calls \ {c})
<1>1. /\ y.page = x.page /\ y.unit = x.unit /\ SameHistory(y, x) /\ x.calls = z.calls \ {c}
  BY DEF Holding, SameHistory
<1>2. InOrder(x) /\ (~ c.deaf => MayAdd(x, c.kind, c.form, r))
  OBVIOUS
<1> HIDE DEF x
<1>3. CASE c.deaf
  BY <1>1, <1>2, <1>3, FewerInOrder DEF Replied, SamePage, SameUnit
<1>4. CASE ~ c.deaf
  <2>1. y.calls = x.calls \cup {d}
    BY <1>1, <1>4 DEF Replied
  <2>2. MayAdd(x, d.kind, d.form, d.reply) /\ ~ d.deaf
    BY <1>2, <1>4 DEF Replied
  <2> QED
    BY <1>1, <1>2, <2>1, <2>2, AddInOrder
<1> QED
  BY <1>3, <1>4

(* What the page knows of the drive is not touched by an answer. *)
LEMMA RepliedKnown ==
  ASSUME NEW z, NEW y, NEW c \in z.calls, NEW d, NEW r, Replied(y, z, c, d, r), Known(z),
         y.unit.drive = z.unit.drive \/ z.page.lock # "off"
  PROVE  Known(y)
<1>1. CASE z.page.lock # "off"
  BY <1>1 DEF Known, Replied
<1>2. CASE y.unit.drive = z.unit.drive
  <2>1. Busy(z, {"status"}) => Busy(y, {"status"})
    BY DEF Busy, Replied
  <2>2. \A e \in y.calls : \E b \in z.calls :
          b.kind = e.kind /\ (~ e.deaf => ~ b.deaf) /\ (e \in z.calls \/ ~ e.deaf)
    BY DEF Replied
  <2>3. (\A b \in z.calls : ~ b.deaf /\ b.kind \in Moves => b.kind = "discovery")
          => (\A e \in y.calls : ~ e.deaf /\ e.kind \in Moves => e.kind = "discovery")
    BY <2>2
  <2> QED
    BY <1>2, <2>1, <2>3 DEF Known, Replied
<1> QED
  BY <1>1, <1>2

(* Serving a request, whether its answer arrives or is lost. *)
LEMMA ServedInOrder ==
  ASSUME NEW z, Safe(z), InOrder(z), Known(z), NEW c \in z.calls, c.reply = "pending",
         z.unit.daemon # "down", NEW o \in Outcomes(z, c), NEW r \in {o.reply, "lost"},
         c.kind = "poll" => r = o.reply, NEW y, NEW d, Replied(y, z, c, d, r),
         y.unit = o.after.unit, SameHistory(y, o.after)
  PROVE  InOrder(y) /\ Known(y)
<1> DEFINE w == Holding(z, z.calls \ {c})
           x == Holding(y, z.calls \ {c})
<1>1. /\ w.page = z.page /\ w.unit = z.unit /\ SameHistory(w, z) /\ w.calls = z.calls \ {c}
  BY DEF Holding, SameHistory
<1>2. /\ x.page = z.page /\ x.unit = o.after.unit /\ SameHistory(x, o.after)
      /\ x.calls = z.calls \ {c}
  BY DEF Holding, SameHistory, Replied
<1>3. Outcome(z, o.after, c, o.reply)
  BY OutcomeShape
<1> HIDE DEF w, x
<1>4. InOrder(w) /\ (~ c.deaf => MayAdd(w, c.kind, c.form, "pending"))
  BY <1>1, TakenInOrder
<1>5. /\ x.hurried = w.hurried /\ x.blind = w.blind /\ x.aborted = w.aborted
      /\ x.reconsidered = w.reconsidered
  BY <1>1, <1>2, <1>3 DEF Outcome, SameHistory
<1>6. c.kind \in Chain => ~ c.deaf
  BY DEF InOrder, LockKept
<1>7. InOrder(y) /\ (z.page.lock = "off" => y.unit.drive = z.unit.drive)
  <2>1. CASE c.kind = "format"
    <3>1. /\ x.astray = w.astray /\ x.orphaned = w.orphaned /\ SameSteps(x.unit, w.unit)
          /\ \/ x.unit.drive = "ext4" /\ x.unit.daemon = "stale" /\ o.reply = "restart"
             \/ x.unit.drive = "ext4" /\ x.unit.daemon = w.unit.daemon /\ o.reply = "ok"
             \/ x.unit.drive = "other" /\ x.unit.daemon = w.unit.daemon /\ o.reply = "refused"
      BY <1>1, <1>2, <1>3, <2>1 DEF Outcome, SameHistory
    <3>2. MayAdd(w, "format", c.form, "pending")
      BY <1>4, <1>6, <2>1 DEF Chain
    <3>3. w.page.lock = "format" /\ (\A e \in w.calls : e.kind \notin Chain)
      BY <3>2 DEF MayAdd, Chain
    <3>4. InOrder(x)
      BY <1>1, <1>2, <1>4, <1>5, <3>1, <3>3, MachineInOrder
    <3>5. w.hurried \/ w.reconsidered \/ w.astray \/ Stage(x, "format", r)
      BY <3>1, <3>2 DEF MayAdd, Stage
    <3>6. r \in {"ok", "restart"} => x.unit.drive = "ext4"
      BY <3>1
    <3>7. MayAdd(x, "format", c.form, r)
      BY <1>1, <1>2, <1>5, <3>1, <3>3, <3>5, <3>6 DEF MayAdd, Moves, Cloud, Answered
    <3> QED
      BY <1>1, <2>1, <3>3, <3>4, <3>7, RepliedInOrder DEF x
  <2>2. CASE c.kind = "restart"
    <3>1. /\ x.orphaned = w.orphaned /\ SameSteps(x.unit, w.unit) /\ x.unit.drive = w.unit.drive
          /\ o.reply = "ok"
          /\ x.astray \/ (x.unit.daemon = "down" /\ x.astray = w.astray)
      BY <1>1, <1>2, <1>3, <2>2 DEF Outcome, SameHistory
    <3>2. MayAdd(w, "restart", c.form, "pending")
      BY <1>4, <1>6, <2>2 DEF Chain
    <3>3. w.page.lock = "restart" /\ (\A e \in w.calls : e.kind \notin Chain)
      BY <3>2 DEF MayAdd, Chain
    <3>4. InOrder(x)
      BY <1>1, <1>2, <1>4, <1>5, <3>1, <3>3, MachineInOrder
    <3>5. x.astray \/ Stage(x, "restart", r)
      BY <3>1 DEF Stage
    <3>6. MayAdd(x, "restart", c.form, r)
      BY <1>1, <1>2, <1>5, <3>1, <3>3, <3>5 DEF MayAdd, Moves, Cloud, Answered
    <3> QED
      BY <1>1, <2>2, <3>3, <3>4, <3>6, RepliedInOrder DEF x
  <2>3. CASE c.kind \notin {"format", "restart"} /\ o.after.orphaned
                /\ SameUnit(o.after.unit, z.unit) /\ c.kind \in Moves /\ z.unit.daemon # "current"
    <3>1. x.astray = w.astray /\ x.orphaned /\ SameUnit(x.unit, w.unit)
      BY <1>1, <1>2, <1>3, <2>3 DEF Outcome, SameHistory
    <3>2. w.hurried \/ w.reconsidered \/ w.astray
      BY <1>1, <2>3, NoneLeftBehind DEF SameHistory
    <3>3. InOrder(x)
      BY <1>1, <1>2, <1>4, <1>5, <3>1, <3>2, OrphanedInOrder
    <3>4. ASSUME ~ c.deaf PROVE MayAdd(x, c.kind, c.form, r)
      <4>1. MayAdd(w, c.kind, c.form, "pending") /\ c.kind \notin Chain /\ c.kind # "status"
        BY <1>4, <2>3, <3>4 DEF Chain, Moves
      <4>2. x.hurried \/
             /\ c.kind \in Moves => /\ ~ Busy(x, Moves) /\ InPlace(x, c.kind) /\ x.page.lock = "off"
                                    /\ Usable(x, c.kind, c.form)
             /\ c.kind \in {"site", "admin"} => ~ Busy(x, Cloud)
             /\ c.kind \in Cloud => x.page.active # 4 /\ ~ Busy(x, {"site", "admin"})
        BY <1>1, <1>2, <1>5, <3>1, <4>1 DEF MayAdd, Busy, InPlace, Usable, SameUnit
      <4> QED
        BY <1>5, <3>1, <3>2, <4>1, <4>2 DEF MayAdd, Chain
    <3> QED
      BY <1>1, <1>2, <2>3, <3>1, <3>3, <3>4, RepliedInOrder DEF x, SameUnit
  <2>4. CASE c.kind \notin {"format", "restart"} /\ o.after.orphaned = z.orphaned
                /\ Stores(z.unit, o.after.unit, c.kind, c.form, o.reply)
    <3>1. SameHistory(x, w) /\ Stores(w.unit, x.unit, c.kind, c.form, o.reply)
      BY <1>1, <1>2, <1>3, <1>5, <2>4 DEF Outcome, SameHistory
    <3>2. w.hurried \/ c.kind \notin Moves \/ c.kind = "finalize"
            \/ (~ Busy(w, Moves) /\ InPlace(w, c.kind))
      <4>1. CASE ~ c.deaf
        BY <1>4, <4>1 DEF MayAdd
      <4>2. CASE c.deaf
        BY <1>1, <4>2 DEF InOrder, OneMove, SameHistory
      <4> QED
        BY <4>1, <4>2
    <3>3. w.hurried \/ w.reconsidered \/ w.orphaned
            \/ (c.kind = "finalize" => Agrees(c.form, w.page.report))
      BY <1>1 DEF InOrder, Agreed, SameHistory
    <3>4. InOrder(x)
      BY <1>1, <1>2, <1>4, <3>1, <3>2, <3>3, StoreInOrder
    <3>5. w.hurried \/ w.reconsidered \/ w.astray
            \/ (c.kind = "poll" /\ r = "ok" => w.unit.daemon = "current")
      <4> SUFFICES ASSUME ~ w.hurried, ~ w.reconsidered, ~ w.astray, c.kind = "poll", r = "ok"
                   PROVE  w.unit.daemon = "current"
        OBVIOUS
      <4>1. z.page.lock = "verify" /\ Written(z)
        BY <1>1 DEF InOrder, LockKept, SameHistory
      <4>2. z.unit.daemon # "degraded"
        BY <1>3 DEF Outcome
      <4> QED
        BY <1>1, <4>1, <4>2 DEF Written
    <3>6. c.kind = "status" => o.reply = w.unit.drive
      BY <1>1, <1>3, <2>4 DEF Outcome
    <3>7. ~ c.deaf => MayAdd(x, c.kind, c.form, r)
      BY <1>1, <1>2, <1>4, <2>4, <3>1, <3>5, <3>6, StoredMayAdd
    <3> QED
      BY <1>1, <1>2, <3>1, <3>4, <3>7, RepliedInOrder DEF x, Stores
  <2> QED
    BY <1>3, <2>1, <2>2, <2>3, <2>4 DEF Outcome
<1> QED
  BY <1>7, RepliedKnown

(* A request that does not get through, or is cut off: a restart that is   *)
(* not known of leads astray, unless a daemon that comes up is behind it.  *)
LEMMA MissedInOrder ==
  ASSUME NEW z, InOrder(z), Known(z), NEW c \in z.calls, c.reply = "pending", c.kind # "poll",
         NEW y, NEW d, Replied(y, z, c, d, "lost"), y.unit = z.unit,
         y.hurried = z.hurried, y.blind = z.blind, y.aborted = z.aborted,
         y.reconsidered = z.reconsidered, y.orphaned = z.orphaned, z.astray => y.astray,
         c.kind = "restart" => y.astray \/ z.unit.daemon = "down"
  PROVE  InOrder(y) /\ Known(y)
<1> DEFINE w == Holding(z, z.calls \ {c})
           x == Holding(y, z.calls \ {c})
<1>1. /\ w.page = z.page /\ w.unit = z.unit /\ SameHistory(w, z) /\ w.calls = z.calls \ {c}
  BY DEF Holding, SameHistory
<1>2. /\ x.page = z.page /\ x.unit = z.unit /\ SameHistory(x, y) /\ x.calls = z.calls \ {c}
  BY DEF Holding, SameHistory, Replied
<1> HIDE DEF w, x
<1>3. InOrder(w) /\ (~ c.deaf => MayAdd(w, c.kind, c.form, "pending"))
  BY <1>1, TakenInOrder
<1>4. InOrder(x)
  BY <1>1, <1>2, <1>3, HistoryInOrder DEF SameHistory
<1>5. ASSUME ~ c.deaf PROVE MayAdd(x, c.kind, c.form, "lost")
  <2>1. MayAdd(w, c.kind, c.form, "pending")
    BY <1>3, <1>5
  <2>2. x.hurried \/
         /\ c.kind \in Moves => /\ ~ Busy(x, Moves) /\ InPlace(x, c.kind) /\ x.page.lock = "off"
                                /\ Usable(x, c.kind, c.form)
         /\ c.kind \in {"site", "admin"} => ~ Busy(x, Cloud)
         /\ c.kind \in Cloud => x.page.active # 4 /\ ~ Busy(x, {"site", "admin"})
    BY <1>1, <1>2, <2>1 DEF MayAdd, Busy, InPlace, Usable, SameHistory
  <2>3. x.hurried \/ x.orphaned \/ Answered(x, c.kind, c.form, "lost")
    BY <1>1, <1>2, <2>1 DEF MayAdd, Answered, SameHistory
  <2>4. x.hurried \/ x.reconsidered \/ x.astray \/ Stage(x, c.kind, "lost")
    BY <1>1, <1>2, <2>1 DEF MayAdd, Stage, SameHistory
  <2> QED
    BY <1>1, <1>2, <2>1, <2>2, <2>3, <2>4 DEF MayAdd, SameHistory
<1>6. InOrder(y)
  BY <1>4, <1>5, RepliedInOrder DEF x
<1> QED
  BY <1>6, RepliedKnown

(* An answer that reaches the page, or its loss. *)
LEMMA ReachedShape ==
  ASSUME NEW z \in Wizards, NEW c \in Calls, NEW r
  PROVE  /\ Replied(Reached(z, c, r), z, c, [c EXCEPT !.reply = r], r)
         /\ Reached(z, c, r).unit = z.unit /\ SameHistory(Reached(z, c, r), z)
<1> DEFINE d == [c EXCEPT !.reply = r]
           calls == (z.calls \ {c}) \cup IF c.deaf THEN {} ELSE {d}
           y == [z EXCEPT !.calls = calls]
<1>1. Reached(z, c, r) = y
  BY DEF Reached
<1>2. d.kind = c.kind /\ d.form = c.form /\ d.reply = r /\ d.deaf = c.deaf
  BY DEF Calls
<1>3. y.page = z.page /\ y.unit = z.unit /\ SameHistory(y, z) /\ y.calls = calls
  <2> HIDE DEF calls
  <2> QED
    BY DEF Wizards, SameHistory
<1> QED
  BY <1>1, <1>2, <1>3 DEF Replied

(* Actions of the recorder. *)
LEMMA ServeInOrder ==
  ASSUME Safe(wizard), InOrder(wizard), Known(wizard), Serve
  PROVE  InOrder(wizard') /\ Known(wizard')
<1>1. PICK c \in wizard.calls :
        /\ c.reply = "pending" /\ wizard.unit.daemon # "down"
        /\ \E o \in Outcomes(wizard, c) : wizard' = Reached(o.after, c, o.reply)
  BY DEF Serve
<1>2. PICK o \in Outcomes(wizard, c) : wizard' = Reached(o.after, c, o.reply)
  BY <1>1
<1>3. /\ o.after \in Wizards /\ c \in Calls
      /\ o.after.page = wizard.page /\ o.after.calls = wizard.calls
  BY <1>1, <1>2, OutcomeSafe DEF Safe, Fits, Wizards
<1> DEFINE d == [c EXCEPT !.reply = o.reply]
<1>4. /\ Replied(wizard', wizard, c, d, o.reply)
      /\ wizard'.unit = o.after.unit /\ SameHistory(wizard', o.after)
  BY <1>2, <1>3, ReachedShape DEF Replied
<1> QED
  BY <1>1, <1>4, ServedInOrder

LEMMA LoseInOrder ==
  ASSUME Safe(wizard), InOrder(wizard), Known(wizard), Lose
  PROVE  InOrder(wizard') /\ Known(wizard')
<1>1. PICK c \in wizard.calls :
        /\ c.reply = "pending" /\ c.kind # "poll"
        /\ \/ wizard.unit.daemon = "down" /\ wizard' = Reached(wizard, c, "lost")
           \/ /\ wizard.unit.daemon # "down"
              /\ wizard' = Reached([Detour(wizard) EXCEPT !.astray = @ \/ c.kind = "restart"], c, "lost")
           \/ /\ wizard.unit.daemon # "down"
              /\ \E o \in Outcomes(wizard, c) : wizard' = Reached(Detour(o.after), c, "lost")
  BY DEF Lose
<1>2. wizard \in Wizards /\ c \in Calls
  BY <1>1 DEF Safe, Fits, Wizards
<1> DEFINE d == [c EXCEPT !.reply = "lost"]
<1>3. CASE wizard.unit.daemon = "down" /\ wizard' = Reached(wizard, c, "lost")
  <2>1. /\ Replied(wizard', wizard, c, d, "lost")
        /\ wizard'.unit = wizard.unit /\ SameHistory(wizard', wizard)
    BY <1>2, <1>3, ReachedShape
  <2> QED
    BY <1>1, <1>3, <2>1, MissedInOrder DEF SameHistory
<1>4. CASE wizard' = Reached([Detour(wizard) EXCEPT !.astray = @ \/ c.kind = "restart"], c, "lost")
  <2> DEFINE astray == wizard.astray \/ c.kind = "restart"
             z == [Detour(wizard) EXCEPT !.astray = astray]
  <2>1. /\ Detour(wizard) \in Wizards /\ Detour(wizard).page = wizard.page
        /\ Detour(wizard).calls = wizard.calls /\ Detour(wizard).unit = wizard.unit
        /\ SameHistory(Detour(wizard), wizard)
    BY <1>2 DEF Wizards, Detour, SameHistory
  <2>2. wizard' = Reached(z, c, "lost")
    BY <1>4, <2>1 DEF SameHistory, Wizards
  <2>3. astray \in BOOLEAN /\ (wizard.astray => astray) /\ (c.kind = "restart" => astray)
    BY <1>2 DEF Wizards
  <2> HIDE DEF astray
  <2>4. /\ z \in Wizards /\ z.page = wizard.page /\ z.unit = wizard.unit /\ z.calls = wizard.calls
        /\ z.astray = astray /\ z.hurried = wizard.hurried /\ z.blind = wizard.blind
        /\ z.aborted = wizard.aborted /\ z.reconsidered = wizard.reconsidered
        /\ z.orphaned = wizard.orphaned
    BY <2>1, <2>3 DEF SameHistory, Wizards
  <2> HIDE DEF z
  <2>5. /\ Replied(wizard', z, c, d, "lost") /\ wizard'.unit = z.unit /\ SameHistory(wizard', z)
    BY <1>2, <2>2, <2>4, ReachedShape
  <2>6. Replied(wizard', wizard, c, d, "lost")
    BY <2>4, <2>5 DEF Replied
  <2> QED
    BY <1>1, <2>3, <2>4, <2>5, <2>6, MissedInOrder DEF SameHistory
<1>5. CASE wizard.unit.daemon # "down"
             /\ \E o \in Outcomes(wizard, c) : wizard' = Reached(Detour(o.after), c, "lost")
  <2>1. PICK o \in Outcomes(wizard, c) : wizard' = Reached(Detour(o.after), c, "lost")
    BY <1>5
  <2>2. /\ o.after \in Wizards /\ o.after.page = wizard.page /\ o.after.calls = wizard.calls
    BY <1>1, <2>1, OutcomeSafe DEF Safe, Fits
  <2>3. /\ Detour(o.after) \in Wizards /\ Detour(o.after).page = wizard.page
        /\ Detour(o.after).calls = wizard.calls /\ Detour(o.after).unit = o.after.unit
        /\ SameHistory(Detour(o.after), o.after)
    BY <2>2 DEF Wizards, Detour, SameHistory
  <2>4. /\ Replied(wizard', wizard, c, d, "lost")
        /\ wizard'.unit = o.after.unit /\ SameHistory(wizard', o.after)
    BY <1>2, <2>1, <2>3, ReachedShape DEF Replied, SameHistory
  <2> QED
    BY <1>1, <1>5, <2>4, ServedInOrder
<1> QED
  BY <1>1, <1>3, <1>4, <1>5

LEMMA RespawnInOrder ==
  ASSUME Safe(wizard), InOrder(wizard), Respawn
  PROVE  InOrder(wizard') /\ (Known(wizard) => Known(wizard'))
<1>1. PICK d \in IF wizard.unit.daemon = "down" THEN {"current", "degraded"} ELSE {"down"} :
        /\ wizard.unit.daemon \in {"leaving", "down", "degraded"}
        /\ wizard' = [wizard EXCEPT !.unit.daemon = d]
  BY DEF Respawn
<1> DEFINE u == [wizard.unit EXCEPT !.daemon = d]
<1>2. u.daemon = d /\ u.drive = wizard.unit.drive /\ SameSteps(u, wizard.unit)
  BY DEF Safe, Fits, Wizards, Units, SameSteps
<1>3. wizard' = [wizard EXCEPT !.unit = u]
  BY <1>1 DEF Safe, Fits, Wizards
<1> HIDE DEF u
<1>4. /\ wizard'.page = wizard.page /\ wizard'.calls = wizard.calls /\ wizard'.unit = u
      /\ SameHistory(wizard', wizard)
  BY <1>3 DEF Safe, Fits, Wizards, SameHistory
<1>5. LockKept(wizard') /\ DriveKept(wizard')
  BY <1>2, <1>4 DEF InOrder, LockKept, DriveKept
<1>6. OneMove(wizard) => OneMove(wizard')
  BY <1>2, <1>4 DEF OneMove, InPlace, Usable, Busy, SameHistory
<1>7. Reflected(wizard) => Reflected(wizard')
  BY <1>2, <1>4 DEF Reflected, Answered, SameSteps
<1>8. (Stays(wizard) => Stays(wizard')) /\ (Agreed(wizard) => Agreed(wizard'))
  BY <1>2, <1>4 DEF Stays, Agreed, SameSteps, SameHistory
<1>9. Written(wizard) => Written(wizard')
  BY <1>1, <1>2, <1>4 DEF Written, Stage, SameHistory
<1>10. InOrder(wizard')
  BY <1>4, <1>5, <1>6, <1>7, <1>8, <1>9 DEF InOrder, SameHistory
<1>11. Known(wizard) => Known(wizard')
  BY <1>2, <1>4 DEF Known, Busy
<1> QED
  BY <1>10, <1>11

(***************************************************************************)
(* Answers                                                                 *)
(***************************************************************************)
(* The lock moves, or is released. *)
LEMMA LockInOrder ==
  ASSUME NEW w, NEW y, InOrder(w), \A d \in w.calls : d.kind \notin Chain, w.page.lock # "off",
         y.unit = w.unit, y.calls = w.calls, SamePage(y.page, [w.page EXCEPT !.lock = y.page.lock]),
         w.page \in Pages,
         y.hurried = w.hurried, y.blind = w.blind, y.aborted = w.aborted,
         y.reconsidered = w.reconsidered, y.orphaned = w.orphaned, w.astray => y.astray,
         y.page.lock \in {"restart", "verify", "off"} => w.unit.drive = "ext4",
         \/ w.hurried \/ w.reconsidered \/ y.astray
         \/ /\ y.page.lock # "failed"
            /\ y.page.lock = "off" => w.unit.daemon = "current"
            /\ y.page.lock = "verify" => w.unit.daemon \in {"current", "down", "degraded"}
  PROVE  InOrder(y)
<1>1. /\ y.page.shown = w.page.shown /\ y.page.active = w.page.active
      /\ y.page.verified = w.page.verified /\ y.page.sent = w.page.sent
      /\ y.page.entry = w.page.entry /\ y.page.linked = w.page.linked
      /\ y.page.email = w.page.email /\ y.page.report = w.page.report
      /\ y.page.complete = w.page.complete
  BY DEF SamePage, Pages
<1>2. LockKept(y)
  BY DEF LockKept, Chain
<1>3. DriveKept(y)
  BY DEF DriveKept, Chain, InOrder
<1>4. OneMove(w) => OneMove(y)
  BY <1>1 DEF OneMove, InPlace, Usable, Busy
<1>5. Reflected(w) => Reflected(y)
  BY <1>1 DEF Reflected, Answered, Report
<1>6. (Stays(w) => Stays(y)) /\ (Agreed(w) => Agreed(y))
  BY <1>1 DEF Stays, Agreed
<1>7. w.hurried \/ w.reconsidered \/ y.astray \/ Written(y)
  BY DEF InOrder, Written, Stage, Chain
<1> QED
  BY <1>2, <1>3, <1>4, <1>5, <1>6, <1>7 DEF InOrder

(* Setting the lock. *)
LEMMA LockShape ==
  ASSUME NEW w, Fits(w), NEW lock \in {"off", "format", "restart", "verify", "failed"}
  PROVE  /\ Fits([w EXCEPT !.page.lock = lock])
         /\ SamePage([w EXCEPT !.page.lock = lock].page, [w.page EXCEPT !.lock = lock])
         /\ [w EXCEPT !.page.lock = lock].page.lock = lock
         /\ [w EXCEPT !.page.lock = lock].unit = w.unit
         /\ [w EXCEPT !.page.lock = lock].calls = w.calls
         /\ SameHistory([w EXCEPT !.page.lock = lock], w)
<1> DEFINE p == [w.page EXCEPT !.lock = lock]
           y == [w EXCEPT !.page = p]
<1>1. p \in Pages /\ p.lock = lock
  BY DEF Fits, Wizards, Pages
<1>2. [w EXCEPT !.page.lock = lock] = y
  BY DEF Fits, Wizards
<1> HIDE DEF p
<1>3. y.page = p /\ y.unit = w.unit /\ y.calls = w.calls /\ SameHistory(y, w) /\ Fits(y)
  BY <1>1 DEF Fits, Wizards, SameHistory
<1> HIDE DEF y
<1> QED
  BY <1>1, <1>2, <1>3 DEF SamePage, p

(* What w is after c was taken from the wizard. *)
Taken(w, c) ==
  /\ Safe(w) /\ c \in Calls /\ InOrder(w) /\ MayAdd(w, c.kind, c.form, c.reply)

(* The page asks the daemon again. *)
LEMMA VerifyInOrder ==
  ASSUME NEW w, Fits(w), InOrder(w), \A d \in w.calls : d.kind \notin Chain, w.page.lock # "off",
         w.unit.drive = "ext4",
         w.hurried \/ w.reconsidered \/ w.astray \/ w.unit.daemon \in {"current", "down", "degraded"}
  PROVE  InOrder(Verify(w)) /\ Known(Verify(w))
<1> DEFINE y == [w EXCEPT !.page.lock = "verify"]
<1>1. /\ Fits(y) /\ SamePage(y.page, [w.page EXCEPT !.lock = "verify"]) /\ y.page.lock = "verify"
      /\ y.unit = w.unit /\ y.calls = w.calls /\ SameHistory(y, w)
  BY LockShape
<1>2. Verify(w) = Call(y, "poll", NoForm)
  BY DEF Verify
<1> HIDE DEF y
<1>3. w.page \in Pages
  BY DEF Fits, Wizards
<1>4. InOrder(y)
  BY <1>1, <1>3, LockInOrder DEF SameHistory
<1>5. MayAdd(y, "poll", NoForm, "pending")
  BY <1>1 DEF MayAdd, Chain, Moves, Cloud, Answered, Stage
<1>6. Call(y, "poll", NoForm).page = y.page
  BY <1>1, CallShape
<1> QED
  BY <1>1, <1>2, <1>4, <1>5, <1>6, CallInOrder DEF Known

(* The lock fails. *)
LEMMA FailShape ==
  ASSUME NEW w, Fits(w)
  PROVE  /\ SamePage(FailFormatLock(w).page, [w.page EXCEPT !.lock = "failed"])
         /\ FailFormatLock(w).page.lock = "failed" /\ FailFormatLock(w).unit = w.unit
         /\ FailFormatLock(w).calls = w.calls /\ FailFormatLock(w).hurried = w.hurried
         /\ FailFormatLock(w).blind = w.blind /\ FailFormatLock(w).aborted = w.aborted
         /\ FailFormatLock(w).reconsidered = w.reconsidered
         /\ FailFormatLock(w).orphaned = w.orphaned /\ FailFormatLock(w).astray
<1> DEFINE y == [w EXCEPT !.page.lock = "failed"]
<1>1. /\ Fits(y) /\ SamePage(y.page, [w.page EXCEPT !.lock = "failed"]) /\ y.page.lock = "failed"
      /\ y.unit = w.unit /\ y.calls = w.calls /\ SameHistory(y, w)
  BY LockShape
<1>2. FailFormatLock(w) = [y EXCEPT !.astray = TRUE]
  BY DEF FailFormatLock, Fits, Wizards
<1> HIDE DEF y
<1>3. /\ [y EXCEPT !.astray = TRUE].page = y.page /\ [y EXCEPT !.astray = TRUE].unit = y.unit
      /\ [y EXCEPT !.astray = TRUE].calls = y.calls /\ [y EXCEPT !.astray = TRUE].astray
      /\ [y EXCEPT !.astray = TRUE].hurried = y.hurried
      /\ [y EXCEPT !.astray = TRUE].blind = y.blind
      /\ [y EXCEPT !.astray = TRUE].aborted = y.aborted
      /\ [y EXCEPT !.astray = TRUE].reconsidered = y.reconsidered
      /\ [y EXCEPT !.astray = TRUE].orphaned = y.orphaned
  BY <1>1 DEF Fits, Wizards
<1> QED
  BY <1>1, <1>2, <1>3 DEF SameHistory

(* A lock that has failed leads astray. *)
LEMMA FailInOrder ==
  ASSUME NEW w, Fits(w), InOrder(w), \A d \in w.calls : d.kind \notin Chain, w.page.lock # "off"
  PROVE  InOrder(FailFormatLock(w)) /\ Known(FailFormatLock(w))
<1> DEFINE y == FailFormatLock(w)
<1>1. /\ SamePage(y.page, [w.page EXCEPT !.lock = y.page.lock]) /\ y.page.lock = "failed"
      /\ y.unit = w.unit /\ y.calls = w.calls /\ y.hurried = w.hurried
      /\ y.blind = w.blind /\ y.aborted = w.aborted /\ y.reconsidered = w.reconsidered
      /\ y.orphaned = w.orphaned /\ y.astray
  BY FailShape
<1> HIDE DEF y
<1>2. w.page \in Pages
  BY DEF Fits, Wizards
<1>3. InOrder(y)
  BY <1>1, <1>2, LockInOrder
<1> QED
  BY <1>1, <1>3 DEF y, Known

(* The three answers of the lock. *)
LEMMA FormatToldInOrder ==
  ASSUME NEW w, NEW c, Taken(w, c), c.kind = "format"
  PROVE  InOrder(FormatTold(w, c)) /\ Known(FormatTold(w, c))
<1>1. /\ Fits(w) /\ InOrder(w) /\ (\A d \in w.calls : d.kind \notin Chain)
      /\ w.page.lock = "format" /\ w.page \in Pages
      /\ c.reply \in {"ok", "restart"} => w.unit.drive = "ext4"
      /\ w.hurried \/ w.reconsidered \/ w.astray \/ Stage(w, "format", c.reply)
  BY DEF Taken, Safe, MayAdd, Chain, Fits, Wizards
<1>2. CASE c.reply = "restart"
  <2> DEFINE y == [w EXCEPT !.page.lock = "restart"]
  <2>1. /\ Fits(y) /\ SamePage(y.page, [w.page EXCEPT !.lock = "restart"])
        /\ y.page.lock = "restart"
        /\ y.unit = w.unit /\ y.calls = w.calls /\ SameHistory(y, w)
    BY <1>1, LockShape
  <2>2. FormatTold(w, c) = Call(y, "restart", NoForm)
    BY <1>2 DEF FormatTold
  <2> HIDE DEF y
  <2>3. InOrder(y)
    BY <1>1, <1>2, <2>1, LockInOrder DEF SameHistory
  <2>4. w.hurried \/ w.reconsidered \/ w.astray \/ Stage(y, "restart", "pending")
    BY <1>1, <1>2, <2>1 DEF Stage
  <2>5. MayAdd(y, "restart", NoForm, "pending")
    BY <1>1, <2>1, <2>4 DEF MayAdd, Chain, Moves, Cloud, Answered, SameHistory
  <2>6. Call(y, "restart", NoForm).page = y.page
    BY <2>1, CallShape
  <2> QED
    BY <2>1, <2>2, <2>3, <2>5, <2>6, CallInOrder DEF Known
<1>3. CASE c.reply = "ok"
  <2>1. w.hurried \/ w.reconsidered \/ w.astray \/ w.unit.daemon = "current"
    BY <1>1, <1>3 DEF Stage
  <2> QED
    BY <1>1, <1>3, <2>1, VerifyInOrder DEF FormatTold
<1>4. CASE c.reply \notin {"ok", "restart"}
  BY <1>1, <1>4, FailInOrder DEF FormatTold
<1> QED
  BY <1>2, <1>3, <1>4

LEMMA RestartToldInOrder ==
  ASSUME NEW w, NEW c, Taken(w, c), c.kind = "restart", c.reply # "pending"
  PROVE  InOrder(RestartTold(w, c)) /\ Known(RestartTold(w, c))
<1>1. /\ Fits(w) /\ InOrder(w) /\ (\A d \in w.calls : d.kind \notin Chain)
      /\ w.page.lock = "restart"
      /\ w.hurried \/ w.reconsidered \/ w.astray \/ Stage(w, "restart", c.reply)
  BY DEF Taken, Safe, MayAdd, Chain
<1>2. w.unit.drive = "ext4"
  BY <1>1 DEF InOrder, DriveKept
<1>3. w.hurried \/ w.reconsidered \/ w.astray \/ w.unit.daemon \in {"current", "down", "degraded"}
  BY <1>1 DEF Stage
<1> QED
  BY <1>1, <1>2, <1>3, VerifyInOrder DEF RestartTold

LEMMA PollToldInOrder ==
  ASSUME NEW w, NEW c, Taken(w, c), c.kind = "poll"
  PROVE  InOrder(PollTold(w, c)) /\ Known(PollTold(w, c))
<1>1. /\ Fits(w) /\ InOrder(w) /\ (\A d \in w.calls : d.kind \notin Chain)
      /\ w.page.lock = "verify" /\ w.page \in Pages
      /\ w.hurried \/ w.reconsidered \/ w.astray \/ Stage(w, "poll", c.reply)
  BY DEF Taken, Safe, MayAdd, Chain, Fits, Wizards
<1>2. w.unit.drive = "ext4"
  BY <1>1 DEF InOrder, DriveKept
<1>3. CASE c.reply = "ok"
  <2> DEFINE y == [w EXCEPT !.page.lock = "off"]
  <2>1. /\ SamePage(y.page, [w.page EXCEPT !.lock = "off"]) /\ y.page.lock = "off"
        /\ y.unit = w.unit /\ y.calls = w.calls /\ SameHistory(y, w)
    BY <1>1, LockShape
  <2>2. PollTold(w, c) = LoadStorageStats(y)
    BY <1>3 DEF PollTold, Healthy
  <2>3. Safe(y)
    BY LockSafe DEF Taken
  <2> HIDE DEF y
  <2>4. w.hurried \/ w.reconsidered \/ w.astray \/ w.unit.daemon = "current"
    BY <1>1, <1>3 DEF Stage
  <2>5. InOrder(y)
    BY <1>1, <1>2, <2>1, <2>4, LockInOrder DEF SameHistory
  <2> QED
    BY <2>2, <2>3, <2>5, LoadInOrder
<1>4. CASE c.reply # "ok"
  <2>1. w.hurried \/ w.reconsidered \/ w.astray \/ w.unit.daemon \in {"current", "down", "degraded"}
    BY <1>1 DEF InOrder, Written
  <2> QED
    BY <1>1, <1>2, <1>4, <2>1, VerifyInOrder DEF PollTold, Healthy
<1> QED
  BY <1>3, <1>4

(* What the page knows of the drive once step 1 is behind. *)
Knows(z) ==
  z.page.lock # "off" \/ Busy(z, {"status"}) \/ z.page.abnormal \/ z.unit.drive = "ext4"

(* Showing a step. *)
LEMMA ShowShape ==
  ASSUME NEW w, Fits(w), NEW from \in 1 .. 4, NEW to \in 1 .. 4
  PROVE  LET y == Show(w, from, to)
         IN  /\ y.page.shown = (w.page.shown \ {from}) \cup {to} /\ y.page.active = to
             /\ y.page.lock = w.page.lock /\ y.page.verified = w.page.verified
             /\ y.page.sent = w.page.sent /\ y.page.entry = w.page.entry
             /\ y.page.linked = w.page.linked /\ y.page.email = w.page.email
             /\ y.page.report = w.page.report /\ y.page.complete = w.page.complete
             /\ y.page.abnormal = w.page.abnormal
             /\ y.unit = w.unit /\ y.calls = w.calls /\ SameHistory(y, w)
<1> DEFINE shown == (w.page.shown \ {from}) \cup {to}
           p == [w.page EXCEPT !.shown = shown, !.active = to]
           y == [w EXCEPT !.page = p]
<1>1. Show(w, from, to) = y
  BY DEF Show, Fits, Wizards
<1>2. /\ p.shown = shown /\ p.active = to /\ p.lock = w.page.lock
      /\ p.verified = w.page.verified /\ p.sent = w.page.sent /\ p.entry = w.page.entry
      /\ p.linked = w.page.linked /\ p.email = w.page.email /\ p.report = w.page.report
      /\ p.complete = w.page.complete /\ p.abnormal = w.page.abnormal
  BY DEF Fits, Wizards, Pages
<1> HIDE DEF p
<1>3. y.page = p /\ y.unit = w.unit /\ y.calls = w.calls /\ SameHistory(y, w)
  BY DEF Fits, Wizards, SameHistory
<1> HIDE DEF y
<1> QED
  BY <1>1, <1>2, <1>3

(* The next step is shown when what confirms the one before is accepted. *)
LEMMA ShowInOrder ==
  ASSUME NEW w, Fits(w), InOrder(w), NEW from \in 1 .. 3,
         w.hurried \/
           /\ w.page.active = from /\ ~ Busy(w, Moves) /\ w.page.lock = "off"
           /\ from = 3 => ~ Busy(w, Cloud),
         w.hurried \/ w.orphaned \/
           /\ from = 1 => w.page.verified = w.unit.discovery
           /\ from = 2 => w.page.sent = w.unit.network
           /\ from = 3 => /\ w.unit.site = w.page.entry /\ w.unit.admin = w.page.entry
                          /\ w.page.report = Report(w.page, w.page.entry)
  PROVE  InOrder(Show(w, from, from + 1)) /\ (Knows(w) => Knows(Show(w, from, from + 1)))
<1> DEFINE to == from + 1
           y == Show(w, from, to)
<1>1. /\ y.page.shown = (w.page.shown \ {from}) \cup {to} /\ y.page.active = to
      /\ y.page.lock = w.page.lock /\ y.page.verified = w.page.verified
      /\ y.page.sent = w.page.sent /\ y.page.entry = w.page.entry
      /\ y.page.linked = w.page.linked /\ y.page.email = w.page.email
      /\ y.page.report = w.page.report /\ y.page.complete = w.page.complete
      /\ y.page.abnormal = w.page.abnormal
      /\ y.unit = w.unit /\ y.calls = w.calls /\ SameHistory(y, w)
  <2>1. from \in 1 .. 4 /\ to \in 1 .. 4
    OBVIOUS
  <2> HIDE DEF to
  <2> QED
    BY <2>1, ShowShape
<1> HIDE DEF y
<1>2. LockKept(y) /\ DriveKept(y)
  BY <1>1 DEF InOrder, LockKept, DriveKept
<1>3. w.hurried \/ (OneMove(w) /\ w.page.active = from /\ ~ w.page.complete)
  BY DEF InOrder, OneMove
<1>4. w.hurried \/ OneMove(y)
  <2> SUFFICES ASSUME ~ w.hurried PROVE OneMove(y)
    OBVIOUS
  <2>1. /\ OneMove(w) /\ ~ Busy(w, Moves) /\ ~ w.page.complete /\ w.page.lock = "off"
        /\ w.page.shown = {from} /\ (to = 4 => ~ Busy(w, Cloud))
    BY <1>3 DEF OneMove
  <2>2. \A c \in y.calls : c.kind \in Moves => c.deaf /\ c.kind = "finalize"
    BY <1>1, <2>1 DEF OneMove, Busy
  <2>3. ~ Busy(y, {"site", "admin"}) /\ (Busy(y, Cloud) => Busy(w, Cloud))
    BY <1>1, <2>2 DEF Busy, Moves
  <2>4. y.page.shown = {y.page.active} /\ y.page.lock = "off" /\ ~ y.page.complete
    BY <1>1, <2>1
  <2> QED
    BY <1>1, <2>1, <2>2, <2>3, <2>4 DEF OneMove
<1>5. w.hurried \/ w.orphaned \/ Reflected(y)
  <2> SUFFICES ASSUME ~ w.hurried, ~ w.orphaned PROVE Reflected(y)
    OBVIOUS
  <2>1. Reflected(w) /\ w.page.active = from
    BY <1>3 DEF InOrder
  <2>2. \A c \in y.calls : ~ c.deaf => Answered(y, c.kind, c.form, c.reply)
    BY <1>1, <2>1 DEF Reflected, Answered
  <2>3. /\ y.page.active >= 2 => y.page.verified = y.unit.discovery
        /\ y.page.active >= 3 => y.page.sent = y.unit.network
    BY <1>1, <2>1 DEF Reflected
  <2>4. y.page.active = 4 =>
          /\ y.unit.site = y.page.entry /\ y.unit.admin = y.page.entry
          /\ y.page.report = Report(y.page, y.page.entry)
    BY <1>1, <2>1 DEF Report
  <2> QED
    BY <2>2, <2>3, <2>4 DEF Reflected
<1>6. w.hurried \/ w.reconsidered \/ (~ w.aborted /\ \A c \in w.calls : c.kind = "finalize" => ~ c.deaf)
  BY <1>3 DEF InOrder, Stays
<1>7. w.hurried \/ w.reconsidered \/ Stays(y)
  BY <1>1, <1>6 DEF Stays, SameHistory
<1>8. Agreed(w) => Agreed(y)
  BY <1>1 DEF Agreed
<1>9. Written(w) => Written(y)
  BY <1>1 DEF Written, Stage, SameHistory
<1>10. InOrder(y)
  BY <1>1, <1>2, <1>4, <1>5, <1>7, <1>8, <1>9 DEF InOrder, SameHistory
<1>11. Knows(w) => Knows(y)
  BY <1>1 DEF Knows, Busy
<1> QED
  BY <1>10, <1>11 DEF y

(* Step 1 is accepted: the drive is asked for. *)
LEMMA DiscoveryToldInOrder ==
  ASSUME NEW w, NEW c, Taken(w, c), c.kind = "discovery", Known(w),
         c.reply = "ok" => (w.orphaned \/ Opened(w.unit, 2))
  PROVE  InOrder(DiscoveryTold(w, c)) /\ Known(DiscoveryTold(w, c))
<1>1. CASE c.reply = "ok"
  <2>1. Fits(w) /\ Safe(w) /\ InOrder(w)
    BY DEF Taken, Safe
  <2>2. w.hurried \/ (w.page.active = 1 /\ ~ Busy(w, Moves) /\ w.page.lock = "off")
    BY DEF Taken, MayAdd, InPlace, Moves
  <2>3. w.hurried \/ w.orphaned \/ w.page.verified = w.unit.discovery
    BY <1>1 DEF Taken, MayAdd, Answered
  <2>4. InOrder(Show(w, 1, 1 + 1))
    <3>1. 1 \in 1 .. 3 /\ 1 # 2 /\ 1 # 3
      OBVIOUS
    <3> QED
      BY <2>1, <2>2, <2>3, <3>1, ShowInOrder
  <2>5. Safe(Show(w, 1, 2))
    <3>1. 1 \in 1 .. 4 /\ 2 \in 1 .. 4
      OBVIOUS
    <3> QED
      BY <1>1, <2>1, <3>1, ShowSafe
  <2>6. InOrder(TestNetwork(Show(w, 1, 2))) /\ Safe(TestNetwork(Show(w, 1, 2)))
    <3>1. 1 + 1 = 2
      OBVIOUS
    <3> QED
      BY <2>4, <2>5, <3>1, TestInOrder, TestSafe DEF Safe
  <2> QED
    BY <1>1, <2>6, LoadInOrder DEF DiscoveryTold
<1>2. CASE c.reply # "ok"
  BY <1>2 DEF DiscoveryTold, Taken
<1> QED
  BY <1>1, <1>2

(* A request of the same step follows one that was accepted. *)
LEMMA FollowInOrder ==
  ASSUME NEW w, NEW c, Taken(w, c), Knows(w), NEW kind, kind # "discovery",
         MayAdd(w, kind, c.form, "pending")
  PROVE  InOrder(Call(w, kind, c.form)) /\ Known(Call(w, kind, c.form))
<1> DEFINE y == Call(w, kind, c.form)
           d == Request(w, kind, c.form)
<1>1. Fits(w) /\ InOrder(w)
  BY DEF Taken, Safe
<1>2. y.calls = w.calls \cup {d} /\ y.page = w.page /\ y.unit = w.unit
  BY <1>1, CallShape
<1> HIDE DEF y, d
<1>3. Known(y)
  BY <1>2 DEF Known, Knows, Busy
<1> QED
  BY <1>1, <1>3, CallInOrder DEF y

(* The network is accepted, and an existing drive behind it. *)
LEMMA NetworkToldInOrder ==
  ASSUME NEW w, NEW c, Taken(w, c), Knows(w), c.kind \in {"network", "storage"},
         NEW y, y = IF c.kind = "network" THEN Then3(w, c)
                    ELSE IF c.reply = "ok" THEN Show(w, 2, 3) ELSE w
  PROVE  InOrder(y) /\ Known(y)
<1>1. Fits(w) /\ InOrder(w) /\ MayAdd(w, c.kind, c.form, c.reply)
  BY DEF Taken, Safe
<1>2. CASE c.reply # "ok"
  BY <1>1, <1>2 DEF Then3, Known, Knows
<1>3. CASE c.reply = "ok" /\ (c.kind = "storage" \/ c.form.skip)
  <2>1. y = Show(w, 2, 3)
    BY <1>3 DEF Then3
  <2>2. w.hurried \/ (w.page.active = 2 /\ ~ Busy(w, Moves) /\ w.page.lock = "off")
    BY <1>1 DEF MayAdd, InPlace, Moves
  <2>3. w.hurried \/ w.orphaned \/ w.page.sent = w.unit.network
    BY <1>1, <1>3 DEF MayAdd, Answered
  <2>4. 2 \in 1 .. 3 /\ 2 # 1 /\ 2 # 3 /\ 2 + 1 = 3
    OBVIOUS
  <2> QED
    BY <1>1, <2>1, <2>2, <2>3, <2>4, ShowInOrder DEF Known, Knows
<1>4. CASE c.reply = "ok" /\ c.kind = "network" /\ ~ c.form.skip
  <2>1. y = Call(w, "storage", c.form)
    BY <1>4 DEF Then3
  <2>2. MayAdd(w, "storage", c.form, "pending")
    BY <1>1, <1>4 DEF MayAdd, Chain, Moves, Cloud, InPlace, Usable, Answered, Stage
  <2> QED
    BY <2>1, <2>2, FollowInOrder
<1> QED
  BY <1>2, <1>3, <1>4

(* A report that is not shown yet is written anew. *)
LEMMA ReportInOrder ==
  ASSUME NEW w, NEW y, InOrder(w), y.unit = w.unit, y.calls = w.calls, SameHistory(y, w),
         y.page.shown = w.page.shown, y.page.active = w.page.active, y.page.lock = w.page.lock,
         y.page.verified = w.page.verified, y.page.sent = w.page.sent,
         y.page.entry = w.page.entry, y.page.complete = w.page.complete,
         w.hurried \/ (w.page.active = 3 /\ ~ Busy(w, Moves))
  PROVE  InOrder(y)
<1>1. LockKept(y) /\ DriveKept(y)
  BY DEF InOrder, LockKept, DriveKept
<1>2. OneMove(w) => OneMove(y)
  BY DEF OneMove, InPlace, Usable, Busy, SameHistory
<1>3. w.hurried \/ (Reflected(w) => Reflected(y))
  BY DEF Reflected, Answered
<1>4. Stays(w) => Stays(y)
  BY DEF Stays, SameHistory
<1>5. w.hurried \/ w.reconsidered \/ Agreed(y)
  <2> SUFFICES ASSUME ~ w.hurried, ~ w.reconsidered PROVE Agreed(y)
    OBVIOUS
  <2>1. OneMove(w) /\ Stays(w) /\ w.page.active = 3 /\ ~ Busy(w, Moves)
    BY DEF InOrder
  <2>2. ~ w.page.complete /\ (\A c \in w.calls : c.kind # "finalize")
    BY <2>1 DEF OneMove, Stays, Busy, Moves
  <2> QED
    BY <2>2 DEF Agreed
<1>6. Written(w) => Written(y)
  BY DEF Written, Stage, SameHistory
<1> QED
  BY <1>1, <1>2, <1>3, <1>4, <1>5, <1>6 DEF InOrder, SameHistory

(* The name is accepted, then the password: the report is shown. *)
LEMMA SavedToldInOrder ==
  ASSUME NEW w, NEW c, Taken(w, c), Knows(w), c.kind \in {"site", "admin"}
  PROVE  InOrder(SavedTold(w, c)) /\ Known(SavedTold(w, c))
<1>1. Fits(w) /\ InOrder(w) /\ MayAdd(w, c.kind, c.form, c.reply) /\ w.page \in Pages
  BY DEF Taken, Safe, Fits, Wizards
<1>2. CASE c.reply # "ok"
  BY <1>1, <1>2 DEF SavedTold, Known, Knows
<1>3. CASE c.reply = "ok" /\ c.kind = "site"
  <2>1. SavedTold(w, c) = Call(w, "admin", c.form)
    BY <1>3 DEF SavedTold
  <2>2. MayAdd(w, "admin", c.form, "pending")
    BY <1>1, <1>3 DEF MayAdd, Chain, Moves, Cloud, InPlace, Usable, Answered, Stage
  <2> QED
    BY <2>1, <2>2, FollowInOrder
<1>4. CASE c.reply = "ok" /\ c.kind = "admin"
  <2> DEFINE report == Report(w.page, c.form.entry)
             p == [w.page EXCEPT !.report = report]
             y == [w EXCEPT !.page = p]
  <2>1. SavedTold(w, c) = Show(y, 3, 4)
    BY <1>1, <1>4 DEF SavedTold, Then4, Fits, Wizards
  <2>2. report \in Reports
    BY <1>1 DEF Report, Reports, Pages, Taken, Calls, Forms, OrNone
  <2>3. report = [list |-> w.page.verified, net |-> w.page.sent, entry |-> c.form.entry,
                  linked |-> w.page.linked, email |-> w.page.email]
    BY DEF Report
  <2> HIDE DEF report
  <2>4. /\ p.shown = w.page.shown /\ p.active = w.page.active /\ p.lock = w.page.lock
        /\ p.verified = w.page.verified /\ p.sent = w.page.sent /\ p.entry = w.page.entry
        /\ p.linked = w.page.linked /\ p.email = w.page.email /\ p.report = report
        /\ p.complete = w.page.complete /\ p.abnormal = w.page.abnormal
        /\ p \in Pages
    BY <1>1, <2>2 DEF Pages
  <2> HIDE DEF p
  <2>5. y.page = p /\ y.unit = w.unit /\ y.calls = w.calls /\ SameHistory(y, w) /\ Fits(y)
    BY <1>1, <2>4 DEF Fits, Wizards, SameHistory
  <2> HIDE DEF y
  <2>6. w.hurried \/ /\ w.page.active = 3 /\ ~ Busy(w, Moves) /\ w.page.lock = "off"
                     /\ ~ Busy(w, Cloud)
    BY <1>1, <1>4 DEF MayAdd, InPlace, Moves
  <2>7. InOrder(y)
    BY <1>1, <2>4, <2>5, <2>6, ReportInOrder
  <2>8. w.hurried \/ w.orphaned \/
          /\ w.unit.site = w.page.entry /\ w.unit.admin = w.page.entry
          /\ c.form.entry = w.page.entry
    BY <1>1, <1>4 DEF MayAdd, Answered
  <2>9. y.hurried \/ y.orphaned \/
          /\ y.unit.site = y.page.entry /\ y.unit.admin = y.page.entry
          /\ y.page.report = Report(y.page, y.page.entry)
    BY <2>3, <2>4, <2>5, <2>8 DEF Report, SameHistory
  <2>10. y.hurried \/ /\ y.page.active = 3 /\ ~ Busy(y, Moves) /\ y.page.lock = "off"
                      /\ ~ Busy(y, Cloud)
    BY <2>4, <2>5, <2>6 DEF Busy, SameHistory
  <2>11. Knows(y)
    BY <2>4, <2>5 DEF Knows, Busy
  <2>12. 3 \in 1 .. 3 /\ 3 # 1 /\ 3 # 2 /\ 3 + 1 = 4
    OBVIOUS
  <2>13. InOrder(Show(y, 3, 4)) /\ Knows(Show(y, 3, 4))
    BY <2>5, <2>7, <2>9, <2>10, <2>11, <2>12, ShowInOrder
  <2> QED
    BY <2>1, <2>13 DEF Known, Knows
<1> QED
  BY <1>2, <1>3, <1>4

(* What is said of the account is not on the report yet. *)
LEMMA LinkInOrder ==
  ASSUME NEW w, NEW c, Taken(w, c), Known(w), c.kind \in Cloud,
         NEW linked \in BOOLEAN, NEW email \in OrNone(Accounts)
  PROVE  LET y == [w EXCEPT !.page.linked = linked, !.page.email = email]
         IN  /\ Safe(y) /\ InOrder(y) /\ Known(y) /\ \A kind \in Cloud : MayAdd(y, kind, NoForm, "pending")
             /\ y.calls = w.calls
<1> DEFINE p == [w.page EXCEPT !.linked = linked, !.email = email]
           y == [w EXCEPT !.page = p]
<1>1. Safe(w) /\ Fits(w) /\ InOrder(w) /\ MayAdd(w, c.kind, c.form, c.reply) /\ w.page \in Pages
  BY DEF Taken, Safe, Fits, Wizards
<1>2. [w EXCEPT !.page.linked = linked, !.page.email = email] = y
  BY <1>1 DEF Fits, Wizards, Pages
<1>3. /\ p.shown = w.page.shown /\ p.active = w.page.active /\ p.lock = w.page.lock
      /\ p.verified = w.page.verified /\ p.sent = w.page.sent /\ p.entry = w.page.entry
      /\ p.report = w.page.report /\ p.complete = w.page.complete
      /\ p.abnormal = w.page.abnormal
  BY <1>1 DEF Pages
<1> HIDE DEF p
<1>4. y.page = p /\ y.unit = w.unit /\ y.calls = w.calls /\ SameHistory(y, w)
  BY <1>1 DEF Fits, Wizards, SameHistory
<1>5. Safe(y)
  BY <1>1, <1>2, LinkSafe
<1> HIDE DEF y
<1>6. w.hurried \/ (w.page.active # 4 /\ ~ Busy(w, {"site", "admin"}))
  BY <1>1 DEF MayAdd
<1>7. w.hurried \/ w.orphaned \/ Reflected(y)
  BY <1>1, <1>3, <1>4, <1>6 DEF InOrder, Reflected, Answered
<1>8. InOrder(y)
  BY <1>1, <1>3, <1>4, <1>7, FieldsInOrder
<1>9. Known(y)
  BY <1>3, <1>4 DEF Known, Busy
<1>10. ASSUME NEW kind \in Cloud PROVE MayAdd(y, kind, NoForm, "pending")
  <2>1. kind \notin Chain /\ kind \notin Moves /\ kind # "status" /\ kind # "finalize"
    BY DEF Cloud, Chain, Moves
  <2>2. Answered(y, kind, NoForm, "pending") /\ Stage(y, kind, "pending")
    BY DEF Answered, Stage, Cloud
  <2>3. y.hurried \/ (y.page.active # 4 /\ ~ Busy(y, {"site", "admin"}))
    BY <1>3, <1>4, <1>6 DEF Busy, SameHistory
  <2> QED
    BY <2>1, <2>2, <2>3 DEF MayAdd, Chain, Moves, Cloud
<1> QED
  BY <1>2, <1>4, <1>5, <1>8, <1>9, <1>10

(* A request to the cloud in step 3. *)
LEMMA CloudCallInOrder ==
  ASSUME NEW y, Safe(y), InOrder(y), Known(y), NEW kind \in Cloud, NEW form,
         MayAdd(y, kind, NoForm, "pending")
  PROVE  InOrder(Call(y, kind, form)) /\ Known(Call(y, kind, form))
<1>1. kind \notin Moves /\ kind \notin Chain /\ kind # "status" /\ kind # "finalize"
  BY DEF Cloud, Moves, Chain
<1>2. Answered(y, kind, form, "pending")
  BY DEF Answered, Cloud
<1>3. MayAdd(y, kind, form, "pending")
  BY <1>1, <1>2 DEF MayAdd, Chain
<1> QED
  BY <1>1, <1>3, CallInOrder, CallKnown DEF Safe

(* The cloud answers. *)
LEMMA CloudToldInOrder ==
  ASSUME NEW w, NEW c, Taken(w, c), Known(w), c.kind \in Cloud, NEW y,
         y = IF c.kind = "devices" THEN DevicesTold(w, c) ELSE CloudTold(w, c)
  PROVE  InOrder(y) /\ Known(y)
<1> DEFINE email == c.form.account
           listed == c.reply = "listed"
           Set(linked, mail) == [w EXCEPT !.page.linked = linked, !.page.email = mail]
<1>1. /\ w \in Wizards /\ w.page \in Pages /\ InOrder(w)
      /\ email \in OrNone(Accounts) /\ w.page.email \in OrNone(Accounts)
      /\ w.page.linked \in BOOLEAN /\ listed \in BOOLEAN
  BY DEF Taken, Safe, Fits, Wizards, Pages, Calls, Forms
<1>2. \A linked \in BOOLEAN, mail \in OrNone(Accounts) :
        /\ Safe(Set(linked, mail)) /\ InOrder(Set(linked, mail)) /\ Known(Set(linked, mail))
        /\ \A kind \in Cloud : MayAdd(Set(linked, mail), kind, NoForm, "pending")
  BY LinkInOrder
<1>3. /\ [w EXCEPT !.page.email = email, !.page.linked = listed] = Set(listed, email)
      /\ [w EXCEPT !.page.linked = TRUE, !.page.email = email] = Set(TRUE, email)
      /\ [w EXCEPT !.page.linked = FALSE] = Set(FALSE, w.page.email)
      /\ w = Set(w.page.linked, w.page.email)
  <2> DEFINE P(linked, mail) == [w.page EXCEPT !.linked = linked, !.email = mail]
  <2>1. \A linked, mail : Set(linked, mail) = [w EXCEPT !.page = P(linked, mail)]
    BY <1>1 DEF Wizards
  <2>2. /\ [w EXCEPT !.page.email = email, !.page.linked = listed]
             = [w EXCEPT !.page = [w.page EXCEPT !.email = email, !.linked = listed]]
        /\ [w EXCEPT !.page.linked = FALSE] = [w EXCEPT !.page = [w.page EXCEPT !.linked = FALSE]]
        /\ w = [w EXCEPT !.page = w.page]
    BY <1>1 DEF Wizards
  <2>3. [w.page EXCEPT !.email = email, !.linked = listed] = P(listed, email)
    BY <1>1 DEF Pages
  <2>4. [w.page EXCEPT !.linked = FALSE] = P(FALSE, w.page.email)
    BY <1>1 DEF Pages
  <2>5. w.page = P(w.page.linked, w.page.email)
    BY <1>1 DEF Pages
  <2> HIDE DEF P, listed, email
  <2>6. [w EXCEPT !.page.email = email, !.page.linked = listed] = Set(listed, email)
    <3> HIDE DEF Set
    <3> QED
      BY <2>1, <2>2, <2>3
  <2>7. [w EXCEPT !.page.linked = FALSE] = Set(FALSE, w.page.email)
    <3> HIDE DEF Set
    <3> QED
      BY <2>1, <2>2, <2>4
  <2>8. w = Set(w.page.linked, w.page.email)
    <3> HIDE DEF Set
    <3> QED
      BY <2>1, <2>2, <2>5
  <2> QED
    BY <2>6, <2>7, <2>8
<1> HIDE DEF Set, listed
<1>4. /\ Linked(w, c) = Set(TRUE, email)
      /\ DevicesTold(w, c) \in {w, Set(listed, email)}
  BY <1>3 DEF Linked, DevicesTold, listed
<1>5. "devices" \in Cloud /\ "unlink" \in Cloud
  BY DEF Cloud
<1> HIDE DEF email
<1>6. \A x \in {Set(TRUE, email), Set(FALSE, w.page.email)} :
        InOrder(Fetch(x)) /\ Known(Fetch(x))
  <2>1. SUFFICES ASSUME NEW x, Safe(x), InOrder(x), Known(x), MayAdd(x, "devices", NoForm, "pending")
                 PROVE  InOrder(Fetch(x)) /\ Known(Fetch(x))
    BY <1>1, <1>2, <1>5
  <2> QED
    BY <1>5, <2>1, CloudCallInOrder DEF Fetch
<1>7. InOrder(Call(w, "unlink", c.form)) /\ Known(Call(w, "unlink", c.form))
  BY <1>1, <1>2, <1>3, <1>5, CloudCallInOrder DEF Taken
<1>8. c.kind # "devices" => InOrder(CloudTold(w, c)) /\ Known(CloudTold(w, c))
  BY <1>1, <1>2, <1>3, <1>4, <1>6, <1>7 DEF CloudTold, Cloud
<1>9. InOrder(DevicesTold(w, c)) /\ Known(DevicesTold(w, c))
  BY <1>1, <1>2, <1>4
<1> QED
  BY <1>8, <1>9

(* What the recorder applied is complete. *)
LEMMA FinalizeToldInOrder ==
  ASSUME NEW w, NEW c, Taken(w, c), Known(w), c.kind = "finalize"
  PROVE  InOrder(FinalizeTold(w, c)) /\ Known(FinalizeTold(w, c))
<1> DEFINE done == c.reply = "ok"
           p == [w.page EXCEPT !.complete = done, !.applying = done]
           y == [w EXCEPT !.page = p]
<1>1. w \in Wizards /\ w.page \in Pages /\ InOrder(w) /\ MayAdd(w, c.kind, c.form, c.reply)
  BY DEF Taken, Safe, Fits, Wizards
<1>2. FinalizeTold(w, c) = y
  BY <1>1 DEF FinalizeTold, Wizards
<1>3. (done => c.reply = "ok") /\ done \in BOOLEAN
  OBVIOUS
<1> HIDE DEF done
<1>4. /\ p.shown = w.page.shown /\ p.active = w.page.active /\ p.lock = w.page.lock
      /\ p.verified = w.page.verified /\ p.sent = w.page.sent /\ p.entry = w.page.entry
      /\ p.linked = w.page.linked /\ p.email = w.page.email /\ p.report = w.page.report
      /\ p.complete = done /\ p.abnormal = w.page.abnormal
  BY <1>1 DEF Pages
<1> HIDE DEF p
<1>5. y.page = p /\ y.unit = w.unit /\ y.calls = w.calls /\ SameHistory(y, w)
  BY <1>1 DEF Wizards, SameHistory
<1> HIDE DEF y
<1>6. w.hurried \/ w.page.active = 4
  BY <1>1 DEF MayAdd, InPlace, Moves
<1>7. w.hurried \/ w.reconsidered \/ w.orphaned \/ (done => Agrees(w.unit.applied, w.page.report))
  BY <1>1, <1>3 DEF MayAdd
<1>8. LockKept(y) /\ DriveKept(y)
  BY <1>1, <1>4, <1>5 DEF InOrder, LockKept, DriveKept
<1>9. w.hurried \/ OneMove(y)
  <2> SUFFICES ASSUME ~ w.hurried PROVE OneMove(y)
    OBVIOUS
  <2>1. OneMove(w)
    BY <1>1 DEF InOrder
  <2> QED
    BY <1>4, <1>5, <1>6, <2>1 DEF OneMove, InPlace, Usable, Busy, SameHistory
<1>10. Reflected(w) => Reflected(y)
  BY <1>4, <1>5 DEF Reflected, Answered, Report
<1>11. Stays(w) => Stays(y)
  BY <1>4, <1>5 DEF Stays, SameHistory
<1>12. w.hurried \/ w.reconsidered \/ w.orphaned \/ Agreed(y)
  BY <1>1, <1>4, <1>5, <1>7 DEF InOrder, Agreed
<1>13. Written(w) => Written(y)
  BY <1>4, <1>5 DEF Written, Stage, SameHistory
<1>14. InOrder(y)
  BY <1>1, <1>5, <1>8, <1>9, <1>10, <1>11, <1>12, <1>13 DEF InOrder, SameHistory
<1>15. Known(y)
  BY <1>4, <1>5 DEF Known, Busy
<1> QED
  BY <1>2, <1>14, <1>15

(* Answers that fill in a field, or tell the drive. *)
LEMMA TestToldInOrder ==
  ASSUME NEW w, NEW c, Taken(w, c), Known(w)
  PROVE  InOrder(TestTold(w, c)) /\ Known(TestTold(w, c))
<1>1. Fits(w) /\ InOrder(w) /\ w.page \in Pages /\ w \in Wizards
  BY DEF Taken, Safe, Fits, Wizards
<1>2. CASE c.reply \in Modes
  <2> DEFINE p == [w.page EXCEPT !.net = c.reply]
             y == [w EXCEPT !.page = p]
  <2>1. TestTold(w, c) = y
    BY <1>1, <1>2 DEF TestTold, Wizards
  <2>2. SamePage(p, w.page) /\ p.abnormal = w.page.abnormal
    BY <1>1 DEF SamePage, Pages
  <2> HIDE DEF p
  <2>3. y.page = p /\ y.unit = w.unit /\ y.calls = w.calls
    BY <1>1 DEF Wizards
  <2>4. InOrder(y)
    BY <1>1, <2>2, PageInOrder
  <2> HIDE DEF y
  <2> QED
    BY <2>1, <2>2, <2>3, <2>4 DEF Known, Busy, SamePage
<1>3. CASE c.reply \notin Modes
  BY <1>1, <1>3 DEF TestTold
<1> QED
  BY <1>2, <1>3

LEMMA StatusToldInOrder ==
  ASSUME NEW w, NEW c, Taken(w, c), c.kind = "status"
  PROVE  InOrder(StatusTold(w, c)) /\ Known(StatusTold(w, c))
<1> DEFINE abnormal == Abnormal(c.reply)
           p == [w.page EXCEPT !.abnormal = abnormal]
           y == [w EXCEPT !.page = p]
<1>1. Fits(w) /\ InOrder(w) /\ w.page \in Pages /\ w \in Wizards
  BY DEF Taken, Safe, Fits, Wizards
<1>2. StatusTold(w, c) = y
  BY <1>1 DEF StatusTold, Wizards
<1>3. abnormal \/ w.page.lock # "off" \/ w.unit.drive = "ext4"
  BY DEF Taken, MayAdd, Abnormal
<1> HIDE DEF abnormal
<1>4. SamePage(p, w.page) /\ p.abnormal = abnormal
  BY <1>1 DEF SamePage, Pages
<1> HIDE DEF p
<1>5. y.page = p /\ y.unit = w.unit /\ y.calls = w.calls
  BY <1>1 DEF Wizards
<1>6. InOrder(y)
  BY <1>1, <1>4, PageInOrder
<1> HIDE DEF y
<1> QED
  BY <1>2, <1>3, <1>4, <1>5, <1>6 DEF Known, SamePage

(* A request that is no longer in flight. *)
LEMMA TakenShape ==
  ASSUME Safe(wizard), InOrder(wizard), NEW c \in wizard.calls
  PROVE  LET w == [wizard EXCEPT !.calls = @ \ {c}]
         IN  /\ Safe(w) /\ InOrder(w) /\ c \in Calls /\ (~ c.deaf => Taken(w, c))
             /\ w.unit = wizard.unit /\ w.page = wizard.page /\ w.calls = wizard.calls \ {c}
             /\ SameHistory(w, wizard)
             /\ c.kind # "status" /\ Known(wizard) => Known(w)
             /\ c.kind \in Moves \ {"discovery"} /\ ~ c.deaf /\ Known(wizard) => Knows(w)
<1> DEFINE w == [wizard EXCEPT !.calls = @ \ {c}]
<1>1. /\ w.page = wizard.page /\ w.unit = wizard.unit /\ w.calls = wizard.calls \ {c}
      /\ SameHistory(w, wizard) /\ c \in Calls
  BY DEF Safe, Fits, Wizards, SameHistory
<1>2. Safe(w)
  BY AnsweredSafe
<1> HIDE DEF w
<1>3. InOrder(w) /\ (~ c.deaf => MayAdd(w, c.kind, c.form, c.reply))
  BY <1>1, TakenInOrder
<1>4. c.kind # "status" /\ Known(wizard) => Known(w)
  BY <1>1 DEF Known, Busy
<1>5. c.kind \in Moves \ {"discovery"} /\ ~ c.deaf /\ Known(wizard) => Knows(w)
  BY <1>1 DEF Known, Knows, Busy, Moves
<1> QED
  BY <1>1, <1>2, <1>3, <1>4, <1>5 DEF Taken, w

(* Every answer. *)
LEMMA ReceiveInOrder ==
  ASSUME Safe(wizard), InOrder(wizard), Known(wizard), Receive
  PROVE  InOrder(wizard') /\ Known(wizard')
<1>1. PICK c \in wizard.calls :
        c.reply # "pending" /\ wizard' = Told([wizard EXCEPT !.calls = @ \ {c}], c)
  BY DEF Receive
<1> DEFINE w == [wizard EXCEPT !.calls = @ \ {c}]
<1>2. c \in Calls /\ Filled(c) /\ c.kind \in Kinds /\ ~ c.deaf
  BY <1>1 DEF Safe, Fits, Wizards, Calls, Filled
<1>3. /\ Taken(w, c) /\ InOrder(w) /\ w.unit = wizard.unit /\ SameHistory(w, wizard)
      /\ c.kind # "status" => Known(w)
      /\ c.kind \in Moves \ {"discovery"} => Knows(w)
  BY <1>2, TakenShape
<1>4. wizard' = Told(w, c)
  BY <1>1
<1> HIDE DEF w
<1>5. CASE c.kind = "discovery"
  <2>1. c.reply = "ok" => (w.orphaned \/ Opened(w.unit, 2))
    BY <1>1, <1>2, <1>3, <1>5 DEF Safe, Behind, Grounded, SameHistory
  <2>2. Told(w, c) = DiscoveryTold(w, c)
    BY <1>5 DEF Told, Cloud
  <2> QED
    BY <1>3, <1>4, <1>5, <2>1, <2>2, DiscoveryToldInOrder
<1>6. CASE c.kind \in {"network", "storage"}
  <2>1. Told(w, c) = IF c.kind = "network" THEN Then3(w, c)
                     ELSE IF c.reply = "ok" THEN Show(w, 2, 3) ELSE w
    BY <1>6 DEF Told, Cloud
  <2>2. Knows(w)
    BY <1>3, <1>6 DEF Moves
  <2> QED
    BY <1>3, <1>4, <1>6, <2>1, <2>2, NetworkToldInOrder
<1>7. CASE c.kind \in {"site", "admin"}
  <2>1. Told(w, c) = SavedTold(w, c) /\ Knows(w)
    BY <1>3, <1>7 DEF Told, Cloud, Moves
  <2> QED
    BY <1>3, <1>4, <1>7, <2>1, SavedToldInOrder
<1>8. CASE c.kind \in Cloud
  <2>1. Told(w, c) = IF c.kind = "devices" THEN DevicesTold(w, c) ELSE CloudTold(w, c)
    BY <1>8 DEF Told, Cloud
  <2>2. Known(w)
    BY <1>3, <1>8 DEF Cloud
  <2> QED
    BY <1>3, <1>4, <1>8, <2>1, <2>2, CloudToldInOrder
<1>9. CASE c.kind = "status"
  <2>1. Told(w, c) = StatusTold(w, c)
    BY <1>9 DEF Told, Cloud
  <2> QED
    BY <1>3, <1>4, <1>9, <2>1, StatusToldInOrder
<1>10. CASE c.kind = "test"
  <2>1. Told(w, c) = TestTold(w, c)
    BY <1>10 DEF Told, Cloud
  <2> QED
    BY <1>3, <1>4, <1>10, <2>1, TestToldInOrder
<1>11. CASE c.kind \in Chain
  <2>1. /\ c.kind = "format" => Told(w, c) = FormatTold(w, c)
        /\ c.kind = "restart" => Told(w, c) = RestartTold(w, c)
        /\ c.kind = "poll" => Told(w, c) = PollTold(w, c)
    BY DEF Told, Cloud
  <2> QED
    BY <1>1, <1>3, <1>4, <1>11, <2>1, FormatToldInOrder, RestartToldInOrder, PollToldInOrder DEF Chain
<1>12. CASE c.kind = "finalize"
  <2>1. Told(w, c) = FinalizeTold(w, c)
    BY <1>12 DEF Told, Cloud
  <2> QED
    BY <1>3, <1>4, <1>12, <2>1, FinalizeToldInOrder
<1>13. CASE c.kind = "apply_network"
  <2>1. Told(w, c) = w
    BY <1>13 DEF Told, Cloud
  <2> QED
    BY <1>3, <1>4, <1>13, <2>1
<1> QED
  BY <1>2, <1>5, <1>6, <1>7, <1>8, <1>9, <1>10, <1>11, <1>12, <1>13 DEF Kinds, Moves, Chain

(* Two timers. *)
LEMMA GiveUpInOrder ==
  ASSUME Safe(wizard), InOrder(wizard), Known(wizard), GiveUp
  PROVE  InOrder(wizard') /\ Known(wizard')
<1>1. PICK c \in wizard.calls :
        \/ /\ c.kind = "poll" /\ wizard.page.lock = "verify"
           /\ wizard' = LoadStorageStats(FailFormatLock([wizard EXCEPT !.calls = @ \ {c}]))
        \/ /\ c.kind = "finalize" /\ ~ c.deaf /\ c.reply = "pending"
           /\ wizard' = [wizard EXCEPT !.calls = (@ \ {c}) \cup {[c EXCEPT !.deaf = TRUE]},
                                       !.page.applying = FALSE, !.aborted = TRUE]
  BY DEF GiveUp
<1>2. CASE /\ c.kind = "poll" /\ wizard.page.lock = "verify"
           /\ wizard' = LoadStorageStats(FailFormatLock([wizard EXCEPT !.calls = @ \ {c}]))
  <2> DEFINE w == [wizard EXCEPT !.calls = @ \ {c}]
  <2>1. Safe(w) /\ InOrder(w) /\ w.page.lock # "off" /\ w.calls = wizard.calls \ {c}
    BY <1>2, TakenShape
  <2>2. wizard' = LoadStorageStats(FailFormatLock(w))
    BY <1>2
  <2> HIDE DEF w
  <2>3. \A d \in w.calls : d.kind \notin Chain
    BY <1>2, <2>1 DEF InOrder, LockKept, Chain
  <2>4. InOrder(FailFormatLock(w)) /\ Safe(FailFormatLock(w))
    BY <2>1, <2>3, FailInOrder, FailSafe DEF Safe
  <2> QED
    BY <2>2, <2>4, LoadInOrder
<1>3. CASE /\ c.kind = "finalize" /\ ~ c.deaf /\ c.reply = "pending"
           /\ wizard' = [wizard EXCEPT !.calls = (@ \ {c}) \cup {[c EXCEPT !.deaf = TRUE]},
                                       !.page.applying = FALSE, !.aborted = TRUE]
  <2> DEFINE d == [c EXCEPT !.deaf = TRUE]
             calls == (wizard.calls \ {c}) \cup {d}
             p == [wizard.page EXCEPT !.applying = FALSE]
             y == [wizard EXCEPT !.calls = calls, !.page = p, !.aborted = TRUE]
  <2>1. wizard \in Wizards /\ c \in Calls /\ wizard.page \in Pages
    BY DEF Safe, Fits, Wizards
  <2>2. wizard' = y
    BY <1>3, <2>1 DEF Wizards
  <2>3. d.kind = "finalize" /\ d.form = c.form /\ d.reply = "pending" /\ d.deaf
    BY <1>3, <2>1 DEF Calls
  <2>4. SamePage(p, wizard.page) /\ p.abnormal = wizard.page.abnormal
    BY <2>1 DEF SamePage, Pages
  <2> HIDE DEF p, d
  <2>5. /\ y.page = p /\ y.unit = wizard.unit /\ y.calls = (wizard.calls \ {c}) \cup {d}
        /\ y.hurried = wizard.hurried /\ y.blind = wizard.blind /\ y.astray = wizard.astray
        /\ y.orphaned = wizard.orphaned /\ y.reconsidered = wizard.reconsidered /\ y.aborted
    BY <2>1 DEF Wizards
  <2> HIDE DEF y
  <2>6. LockKept(y)
    BY <2>3, <2>4, <2>5 DEF InOrder, LockKept, Chain, SamePage
  <2>7. DriveKept(y)
    BY <2>3, <2>4, <2>5 DEF InOrder, DriveKept, SamePage
  <2>8. wizard.hurried \/ (OneMove(wizard) /\ wizard.page.active = 4)
    BY <1>3 DEF InOrder, OneMove, InPlace, Moves
  <2>9. wizard.hurried \/ OneMove(y)
    <3> SUFFICES ASSUME ~ wizard.hurried PROVE OneMove(y)
      OBVIOUS
    <3>1. \A e \in y.calls : e.kind \in Moves =>
            \/ e.deaf /\ e.kind = "finalize"
            \/ ~ e.deaf /\ InPlace(y, e.kind) /\ y.page.lock = "off" /\ Usable(y, e.kind, e.form)
      BY <2>3, <2>4, <2>5, <2>8 DEF OneMove, InPlace, Usable, SamePage
    <3>2. \A e, f \in y.calls : e.kind \in Moves /\ f.kind \in Moves /\ ~ e.deaf /\ ~ f.deaf => e = f
      BY <2>3, <2>5, <2>8 DEF OneMove
    <3>3. ~ Busy(y, Cloud)
      BY <2>3, <2>5, <2>8 DEF OneMove, Busy
    <3> QED
      BY <2>4, <2>5, <2>8, <3>1, <3>2, <3>3 DEF OneMove, SamePage
  <2>10. Reflected(wizard) => Reflected(y)
    BY <2>3, <2>4, <2>5 DEF Reflected, Answered, SamePage, Report
  <2>11. wizard.hurried \/ Stays(y)
    BY <2>4, <2>5, <2>8 DEF Stays, SamePage
  <2>12. Agreed(wizard) => Agreed(y)
    BY <1>3, <2>3, <2>4, <2>5 DEF Agreed, SamePage
  <2>13. Written(wizard) => Written(y)
    BY <2>3, <2>4, <2>5 DEF Written, Stage, SamePage
  <2>14. InOrder(y)
    BY <2>5, <2>6, <2>7, <2>9, <2>10, <2>11, <2>12, <2>13 DEF InOrder
  <2>15. Known(y)
    BY <1>3, <2>3, <2>4, <2>5 DEF Known, Busy, SamePage
  <2> QED
    BY <2>2, <2>14, <2>15
<1> QED
  BY <1>1, <1>2, <1>3

(***************************************************************************)
(* The theorems                                                            *)
(***************************************************************************)
(* A page that is loaded for the first time. *)
LEMMA InitInOrder == ASSUME StepsInit PROVE InOrder(wizard) /\ Known(wizard)
<1>1. PICK drive \in {"ext4", "other"} :
        wizard = [page |-> Page(AList, AnEntry, None), unit |-> Unit(drive), calls |-> {},
                  clicks |-> 0, detours |-> 0, hurried |-> FALSE, blind |-> FALSE,
                  astray |-> FALSE, orphaned |-> FALSE, aborted |-> FALSE,
                  reconsidered |-> FALSE]
  BY DEF StepsInit
<1>2. /\ wizard.calls = {} /\ ~ wizard.orphaned /\ ~ wizard.aborted
      /\ wizard.page.shown = {1} /\ wizard.page.active = 1 /\ wizard.page.lock = "off"
      /\ wizard.page.complete = FALSE /\ wizard.unit.daemon = "current"
  BY <1>1 DEF Page, Unit
<1>3. LockKept(wizard) /\ DriveKept(wizard)
  BY <1>2 DEF LockKept, DriveKept
<1>4. OneMove(wizard)
  BY <1>2 DEF OneMove, Busy
<1>5. Reflected(wizard) /\ Stays(wizard) /\ Agreed(wizard) /\ Written(wizard)
  BY <1>2 DEF Reflected, Stays, Agreed, Written
<1> QED
  BY <1>2, <1>3, <1>4, <1>5 DEF InOrder, Known

(* The inductive invariant of the order of the steps. *)
OrderInv == InOrder(wizard) /\ Known(wizard)

(* Whatever is clicked, served, lost, answered or given up, what the page  *)
(* concludes from its requests in flight holds.                            *)
THEOREM OrderInvariance == ASSUME SetupInputs PROVE StepsSpec => []OrderInv
<1>1. StepsInit => OrderInv
  BY InitInOrder DEF OrderInv
<1>2. StepsInv /\ OrderInv /\ [StepsNext]_wizard => OrderInv'
  <2> SUFFICES ASSUME Safe(wizard), InOrder(wizard), Known(wizard), [StepsNext]_wizard
               PROVE  InOrder(wizard') /\ Known(wizard')
    BY DEF OrderInv, StepsInv
  <2>1. CASE StepsNext
    <3>1. CASE EditList \/ EditNetwork \/ EditEntry \/ RefreshStatus \/ AskNetwork \/ ApplyNetwork
      BY <3>1, EditsInOrder, AsksInOrder
    <3>2. CASE FinalizeGrid \/ FormatHardDrive \/ ProceedToStep3 \/ AskCloud \/ ProceedToStep4
                 \/ ApplyAndReboot \/ GoBack \/ Reload
      BY <3>2, FinalizeGridInOrder, FormatInOrder, ProceedToStep3InOrder, AskCloudInOrder,
         ProceedToStep4InOrder, ApplyAndRebootInOrder, GoBackInOrder, ReloadInOrder
    <3>3. CASE Serve \/ Lose \/ Respawn \/ Receive \/ GiveUp
      BY <3>3, ServeInOrder, LoseInOrder, RespawnInOrder, ReceiveInOrder, GiveUpInOrder
    <3> QED
      BY <2>1, <3>1, <3>2, <3>3 DEF StepsNext
  <2>2. CASE UNCHANGED wizard
    <3>1. wizard' = wizard
      BY <2>2
    <3>2. InOrder(wizard')
      BY <3>1, FewerInOrder DEF SameHistory, SamePage, SameUnit
    <3>3. Known(wizard')
      BY <3>1 DEF Known, Busy
    <3> QED
      BY <3>2, <3>3
  <2> QED
    BY <2>1, <2>2
<1>3. StepsSpec => []StepsInv
  BY StepsInvariance
<1> QED
  BY <1>1, <1>2, <1>3, PTL DEF StepsSpec

(* The five promises of the steps 2 to 4: no step ahead of the recorder,   *)
(* nothing written to a database that the drive hides, Continue for a      *)
(* drive with a file system only, a report that is what is stored, and     *)
(* what is applied is what was reported.                                   *)
THEOREM SetupInOrderHolds == ASSUME SetupInputs PROVE StepsSpec => []SetupInOrder
<1>1. StepsInv => NeverAhead
  BY DEF StepsInv, Safe, Behind, Opened, NeverAhead
<1>2. OrderInv => WritesLast
  BY DEF OrderInv, InOrder, Written, WritesLast
<1>3. OrderInv => DriveIsReady
  <2> SUFFICES ASSUME InOrder(wizard), Known(wizard) PROVE DriveIsReady
    BY DEF OrderInv
  <2>1. 2 \in wizard.page.shown /\ wizard.page.lock = "off" /\ ~ Busy(wizard, {"status"}) =>
          wizard.page.abnormal \/ wizard.unit.drive = "ext4"
    BY DEF Known
  <2>2. Busy(wizard, {"storage"}) => wizard.blind \/ wizard.hurried \/ wizard.unit.drive = "ext4"
    BY DEF InOrder, OneMove, Usable, Busy, Moves
  <2> QED
    BY <2>1, <2>2 DEF DriveIsReady
<1>4. OrderInv => ReportIsTrue
  BY DEF OrderInv, InOrder, OneMove, Reflected, Report, ReportIsTrue
<1>5. OrderInv => AppliedAsReported
  BY DEF OrderInv, InOrder, Agreed, Agrees, AppliedAsReported
<1>6. StepsInv /\ OrderInv => SetupInOrder
  BY <1>1, <1>2, <1>3, <1>4, <1>5 DEF SetupInOrder
<1> QED
  BY <1>6, StepsInvariance, OrderInvariance, PTL

=============================================================================
