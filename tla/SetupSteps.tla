-------------------------------- MODULE SetupSteps --------------------------------
(***************************************************************************)
(* Steps 2 to 4 of the setup wizard (setup.html): network and drive, the   *)
(* unit's name and cloud account, and the report that is applied.          *)
(*                                                                         *)
(* wizard holds the page: shown, the steps that are displayed, and active, *)
(* the pill that is lit; list, the channels added in step 1, and verified, *)
(* those last confirmed; abnormal and lock; net, entry and creds, what     *)
(* stands in the fields of steps 2 and 3; sent, the network of             *)
(* `wizard_system'; linked, email, the report, and whether it is being     *)
(* applied.  calls are its requests in flight.  unit is the recorder:      *)
(* what it has stored of each step, its drive, and its daemon, which is    *)
(* "stale" while it writes into a database that the formatted drive hides, *)
(* and "degraded" when it has come up without the drive.                   *)
(***************************************************************************)
EXTENDS Integers, FiniteSets

CONSTANTS
  Lists,      \* lists of channels
  Entries,    \* what may be entered in step 3: a name and a password
  Accounts,   \* cloud accounts
  MaxClicks,  \* clicks and entries of the operator
  MaxCalls,   \* requests in flight at a click
  MaxDetours  \* what is off the straight way through the steps: clicks and
              \* entries beside the four that confirm a step, those made while
              \* one is being confirmed, and requests or answers that get lost

VARIABLE wizard

None == "none"

(* There is something to choose, and none of it is mistaken for nothing. *)
SetupInputs == Lists # {} /\ Entries # {} /\ None \notin Lists \cup Entries

Modes == {"dhcp", "static"}

NoForm == [list |-> None, net |-> None, entry |-> None, account |-> None, skip |-> FALSE]
NoReport == [list |-> None, net |-> None, entry |-> None, linked |-> FALSE, email |-> None]

Unit(drive) ==
  [drive |-> drive, daemon |-> "current", discovery |-> None, network |-> None, storage |-> None,
   site |-> None, admin |-> None, account |-> None, applied |-> NoForm]
Page(channels, entered, system) ==
  [shown |-> {1}, active |-> 1, list |-> channels, verified |-> None, abnormal |-> FALSE,
   lock |-> "off", net |-> "dhcp", sent |-> system, entry |-> entered, creds |-> None,
   linked |-> FALSE, email |-> None, report |-> NoReport, applying |-> FALSE, complete |-> FALSE]

AList == CHOOSE l \in Lists : TRUE
AnEntry == CHOOSE e \in Entries : TRUE
StepsInit ==
  \E drive \in {"ext4", "other"} :
    wizard = [page |-> Page(AList, AnEntry, None), unit |-> Unit(drive), calls |-> {},
              clicks |-> 0, detours |-> 0, hurried |-> FALSE, blind |-> FALSE, astray |-> FALSE,
              orphaned |-> FALSE, aborted |-> FALSE, reconsidered |-> FALSE]

(***************************************************************************)
(* Requests                                                                *)
(***************************************************************************)
FreeId(z) == CHOOSE i \in 1 .. Cardinality(z.calls) + 1 : \A c \in z.calls : c.id # i
Call(z, kind, form) ==
  [z EXCEPT !.calls = @ \cup {[id |-> FreeId(z), kind |-> kind, form |-> form,
                               reply |-> "pending", deaf |-> FALSE]}]
Busy(z, kinds) == \E c \in z.calls : c.kind \in kinds /\ ~ c.deaf

Moves == {"discovery", "apply_network", "network", "storage", "site", "admin", "finalize"}
Cloud == {"link", "devices", "unlink_otp", "unlink", "verify_otp"}

Show(z, from, to) == [z EXCEPT !.page.shown = (@ \ {from}) \cup {to}, !.page.active = to]

(* The flag is cleared before the answer is there. *)
LoadStorageStats(z) == Call([z EXCEPT !.page.abnormal = FALSE], "status", NoForm)
TestNetwork(z) == Call(z, "test", NoForm)

(***************************************************************************)
(* Clicks.  hurried is history: something was clicked or entered while a   *)
(* step was being confirmed, or a report asked for before the cloud had    *)
(* answered.  blind: Continue was clicked before the status was known.     *)
(* reconsidered: the operator went back after a request was aborted.       *)
(***************************************************************************)
Strays(z) == z.detours < MaxDetours
Detour(z) == [z EXCEPT !.detours = @ + 1]
CanClick(step) ==
  /\ step \in wizard.page.shown /\ wizard.page.lock = "off" /\ ~ wizard.page.complete
  /\ wizard.clicks < MaxClicks /\ Cardinality(wizard.calls) < MaxCalls
CanConfirm(step) == CanClick(step) /\ (Busy(wizard, Moves) => Strays(wizard))
CanStray(step) == CanClick(step) /\ Strays(wizard)
Clicked == [wizard EXCEPT !.clicks = @ + 1, !.hurried = @ \/ Busy(wizard, Moves)]
Confirmed == IF Busy(wizard, Moves) THEN Detour(Clicked) ELSE Clicked
Strayed == Detour(Clicked)

EditList ==
  CanStray(1) /\ \E l \in Lists \ {wizard.page.list} :
    wizard' = [Strayed EXCEPT !.page.list = l]
EditNetwork ==
  CanStray(2) /\ \E m \in Modes \ {wizard.page.net} :
    wizard' = [Strayed EXCEPT !.page.net = m]
EditEntry ==
  CanStray(3) /\ \E e \in Entries \ {wizard.page.entry} :
    wizard' = [Strayed EXCEPT !.page.entry = e]

(* What was added is kept before it is confirmed. *)
FinalizeGrid ==
  /\ CanConfirm(1)
  /\ wizard' = Call([Confirmed EXCEPT !.page.verified = wizard.page.list], "discovery",
                    [NoForm EXCEPT !.list = wizard.page.list])

RefreshStatus == CanStray(2) /\ wizard' = LoadStorageStats(Strayed)
AskNetwork == CanStray(2) /\ wizard' = TestNetwork(Strayed)
ApplyNetwork ==
  CanStray(2) /\ wizard' = Call(Strayed, "apply_network", [NoForm EXCEPT !.net = wizard.page.net])
FormatHardDrive ==
  CanStray(2) /\ wizard' = Call([Strayed EXCEPT !.page.lock = "format"], "format", NoForm)

(* Mutant: Continue does not look at the status. *)
BugOffered(skip) == ~ skip

(* Of the two buttons one is offered. *)
Offered(skip) == skip = wizard.page.abnormal
ProceedToStep3 ==
  \E skip \in BOOLEAN :
    /\ CanConfirm(2) /\ Offered(skip)
    /\ wizard' = Call([Confirmed EXCEPT !.page.sent = wizard.page.net,
                                      !.blind = @ \/ Busy(wizard, {"status"})],
                      "network", [NoForm EXCEPT !.net = wizard.page.net, !.skip = skip])

AskCloud ==
  \E kind \in Cloud \ {"unlink"}, a \in Accounts :
    /\ CanStray(3)
    /\ wizard' = Call([Strayed EXCEPT !.page.creds = a], kind, [NoForm EXCEPT !.account = a])
ProceedToStep4 ==
  /\ CanConfirm(3)
  /\ wizard' = Call([Confirmed EXCEPT !.hurried = @ \/ Busy(wizard, Cloud)], "site",
                    [NoForm EXCEPT !.entry = wizard.page.entry])

(* Mutant: the network is read from the fields, not from `wizard_system'. *)
BugPayload(page) ==
  [NoForm EXCEPT !.list = page.verified, !.net = page.net, !.entry = page.entry,
                 !.account = page.email]

Payload(page) ==
  [NoForm EXCEPT !.list = page.verified, !.net = page.sent, !.entry = page.entry,
                 !.account = page.email]
ApplyAndReboot ==
  /\ CanConfirm(4) /\ ~ wizard.page.applying
  /\ wizard' = Call([Confirmed EXCEPT !.page.applying = TRUE], "finalize", Payload(wizard.page))

GoBack ==
  \E step \in 2 .. 4 :
    /\ CanStray(step)
    /\ wizard' = Show([Strayed EXCEPT !.reconsidered = @ \/ wizard.aborted], step, step - 1)

(* A page that is loaded anew has lost all but `wizard_system'; what it    *)
(* sent is still served.                                                   *)
Reload ==
  /\ wizard.page.lock = "failed" /\ wizard.clicks < MaxClicks
  /\ wizard' = [wizard EXCEPT !.page = Page(AList, AnEntry, wizard.page.sent),
                              !.calls = {[c EXCEPT !.deaf = TRUE] :
                                           c \in {d \in @ : d.reply = "pending"}},
                              !.clicks = @ + 1]

(***************************************************************************)
(* The recorder.  What a daemon stores that is not on the drive is lost:   *)
(* orphaned is history.                                                    *)
(***************************************************************************)
Store(z, field, value) ==
  IF z.unit.daemon = "current" THEN [z EXCEPT !.unit[field] = value]
  ELSE [z EXCEPT !.orphaned = TRUE]
AllStored(u) == \A f \in {"discovery", "network", "storage", "site", "admin"} : u[f] # None

Effect(z, kind, form) ==
  CASE kind = "discovery" -> Store(z, "discovery", form.list)
    [] kind \in {"network", "apply_network"} -> Store(z, "network", form.net)
    [] kind = "storage" -> Store(z, "storage", "use_existing")
    [] kind \in {"site", "admin"} -> Store(z, kind, form.entry)
    [] kind \in {"link", "verify_otp"} -> [z EXCEPT !.unit.account = form.account]
    [] kind = "unlink" /\ z.unit.account = form.account -> [z EXCEPT !.unit.account = None]
    [] kind = "finalize" /\ AllStored(z.unit) -> Store(z, "applied", form)
    [] OTHER -> z
Reply(z, kind, form) ==
  CASE kind = "status" -> z.unit.drive
    [] kind = "test" -> IF z.unit.network = None THEN "dhcp" ELSE z.unit.network
    [] kind = "devices" -> IF z.unit.account = form.account THEN "listed" ELSE "unlisted"
    [] kind = "poll" -> IF z.unit.daemon = "degraded" THEN "unhealthy" ELSE "ok"
    [] kind = "finalize" -> IF AllStored(z.unit) THEN "ok" ELSE "refused"
    [] OTHER -> "ok"

(* A format hides the database that the daemon has open, unless that is    *)
(* not on a drive yet; one that fails may leave no file system.  A restart *)
(* may be under way, or just be asked for, when it is answered.            *)
Outcomes(z, c) ==
  CASE c.kind = "format" ->
         {[after |-> [z EXCEPT !.unit.drive = "ext4", !.unit.daemon = "stale"],
           reply |-> "restart"],
          [after |-> [z EXCEPT !.unit.drive = "ext4"], reply |-> "ok"],
          [after |-> [z EXCEPT !.unit.drive = "other"], reply |-> "refused"]}
    [] c.kind = "restart" ->
         {[after |-> [z EXCEPT !.unit.daemon = "down"], reply |-> "ok"],
          [after |-> [z EXCEPT !.unit.daemon = "leaving", !.astray = TRUE], reply |-> "ok"]}
    [] OTHER -> {[after |-> Effect(z, c.kind, c.form), reply |-> Reply(z, c.kind, c.form)]}

Reached(z, c, reply) ==
  [z EXCEPT !.calls = (@ \ {c}) \cup IF c.deaf THEN {} ELSE {[c EXCEPT !.reply = reply]}]

Serve ==
  \E c \in wizard.calls :
    /\ c.reply = "pending" /\ wizard.unit.daemon # "down"
    /\ \E o \in Outcomes(wizard, c) : wizard' = Reached(o.after, c, o.reply)
(* The request gets lost, or is cut off by the restart, or its answer is. *)
Lose ==
  \E c \in wizard.calls :
    /\ c.reply = "pending" /\ c.kind # "poll"
    /\ \/ wizard.unit.daemon = "down" /\ wizard' = Reached(wizard, c, "lost")
       \/ /\ wizard.unit.daemon # "down" /\ Strays(wizard)
          /\ \/ LET before == [Detour(wizard) EXCEPT !.astray = @ \/ c.kind = "restart"]
                IN wizard' = Reached(before, c, "lost")
             \/ \E o \in Outcomes(wizard, c) : wizard' = Reached(Detour(o.after), c, "lost")

Respawn ==
  /\ wizard.unit.daemon \in {"leaving", "down", "degraded"}
  /\ \E d \in IF wizard.unit.daemon = "down" THEN {"current", "degraded"} ELSE {"down"} :
       wizard' = [wizard EXCEPT !.unit.daemon = d]

(***************************************************************************)
(* What the page does with an answer.  astray is history: the lock ended   *)
(* in a failure, or the daemon was not restarted behind it.                *)
(***************************************************************************)
FailFormatLock(z) == [z EXCEPT !.page.lock = "failed", !.astray = TRUE]
Verify(z) == Call([z EXCEPT !.page.lock = "verify"], "poll", NoForm)

(* Mutant: any answer of the daemon releases the lock. *)
BugHealthy(reply) == reply \in {"ok", "unhealthy"}

Healthy(reply) == reply = "ok"

(* Mutant: step 3 opens whatever the recorder says of the network. *)
BugThen3(z, c) == IF c.form.skip THEN Show(z, 2, 3) ELSE Call(z, "storage", c.form)

Then3(z, c) ==
  CASE c.reply # "ok" -> z
    [] c.reply = "ok" /\ c.form.skip -> Show(z, 2, 3)
    [] OTHER -> Call(z, "storage", c.form)

(* Mutant: the report is kept when it is there. *)
BugReport(page, entry) ==
  IF page.report # NoReport THEN page.report
  ELSE [list |-> page.verified, net |-> page.sent, entry |-> entry,
        linked |-> page.linked, email |-> page.email]

Report(page, entry) ==
  [list |-> page.verified, net |-> page.sent, entry |-> entry,
   linked |-> page.linked, email |-> page.email]
Then4(z, c) ==
  Show([z EXCEPT !.page.report = Report(z.page, c.form.entry)], 3, 4)

(* Mutant: a status that cannot be had is not abnormal. *)
BugAbnormal(reply) == reply = "other"

Abnormal(reply) == reply # "ext4"

(* Whose devices are fetched is read from the fields again. *)
Fetch(z) == Call(z, "devices", [NoForm EXCEPT !.account = z.page.creds])

TestTold(z, c) == IF c.reply \in Modes THEN [z EXCEPT !.page.net = c.reply] ELSE z
StatusTold(z, c) == [z EXCEPT !.page.abnormal = Abnormal(c.reply)]
DiscoveryTold(z, c) ==
  IF c.reply = "ok" THEN LoadStorageStats(TestNetwork(Show(z, 1, 2))) ELSE z
FormatTold(z, c) ==
  CASE c.reply = "restart" -> Call([z EXCEPT !.page.lock = "restart"], "restart", NoForm)
    [] c.reply = "ok" -> Verify(z)
    [] OTHER -> FailFormatLock(z)
(* Nobody looks at the answer to the restart. *)
RestartTold(z, c) == Verify(z)
PollTold(z, c) ==
  IF Healthy(c.reply) THEN LoadStorageStats([z EXCEPT !.page.lock = "off"]) ELSE Verify(z)
DevicesTold(z, c) ==
  IF c.reply = "lost" THEN z
  ELSE [z EXCEPT !.page.email = c.form.account, !.page.linked = c.reply = "listed"]
Linked(z, c) == [z EXCEPT !.page.linked = TRUE, !.page.email = c.form.account]
CloudTold(z, c) ==
  IF c.reply # "ok" THEN z
  ELSE CASE c.kind = "link" -> Fetch(Linked(z, c))
         [] c.kind = "verify_otp" -> Linked(z, c)
         [] c.kind = "unlink_otp" -> Call(z, "unlink", c.form)
         [] c.kind = "unlink" -> Fetch([z EXCEPT !.page.linked = FALSE])
SavedTold(z, c) ==
  CASE c.reply # "ok" -> z
    [] c.reply = "ok" /\ c.kind = "site" -> Call(z, "admin", c.form)
    [] OTHER -> Then4(z, c)
FinalizeTold(z, c) ==
  [z EXCEPT !.page.complete = c.reply = "ok", !.page.applying = c.reply = "ok"]

Told(z, c) ==
  CASE c.kind = "test" -> TestTold(z, c) [] c.kind = "status" -> StatusTold(z, c)
    [] c.kind = "discovery" -> DiscoveryTold(z, c)
    [] c.kind = "network" -> Then3(z, c)
    [] c.kind = "storage" -> IF c.reply = "ok" THEN Show(z, 2, 3) ELSE z
    [] c.kind = "format" -> FormatTold(z, c) [] c.kind = "restart" -> RestartTold(z, c)
    [] c.kind = "poll" -> PollTold(z, c)
    [] c.kind = "devices" -> DevicesTold(z, c)
    [] c.kind \in Cloud \ {"devices"} -> CloudTold(z, c)
    [] c.kind \in {"site", "admin"} -> SavedTold(z, c)
    [] c.kind = "finalize" -> FinalizeTold(z, c)
    [] c.kind = "apply_network" -> z
Receive ==
  \E c \in wizard.calls :
    c.reply # "pending" /\ wizard' = Told([wizard EXCEPT !.calls = @ \ {c}], c)

(* Ninety seconds of polling, and thirty of applying, end in a failure. *)
GiveUp ==
  \E c \in wizard.calls :
    \/ /\ c.kind = "poll" /\ wizard.page.lock = "verify"
       /\ wizard' = LoadStorageStats(FailFormatLock([wizard EXCEPT !.calls = @ \ {c}]))
    \/ /\ c.kind = "finalize" /\ ~ c.deaf /\ c.reply = "pending"
       /\ wizard' = [wizard EXCEPT !.calls = (@ \ {c}) \cup {[c EXCEPT !.deaf = TRUE]},
                                   !.page.applying = FALSE, !.aborted = TRUE]

StepsNext ==
  \/ EditList \/ EditNetwork \/ EditEntry \/ FinalizeGrid \/ RefreshStatus \/ AskNetwork
  \/ ApplyNetwork \/ FormatHardDrive \/ ProceedToStep3 \/ AskCloud \/ ProceedToStep4
  \/ ApplyAndReboot \/ GoBack \/ Reload \/ Serve \/ Lose \/ Respawn \/ Receive \/ GiveUp

(***************************************************************************)
(* Properties                                                              *)
(***************************************************************************)
(* No step is shown before the recorder has stored those in front of it,   *)
(* whatever is clicked meanwhile and whatever gets lost: what the comments *)
(* on the transitions are about.                                           *)
NeverAhead ==
  wizard.orphaned \/ \A step \in wizard.page.shown :
    /\ step >= 2 => wizard.unit.discovery # None
    /\ step >= 3 => wizard.unit.network # None
    /\ step = 4 => wizard.unit.site # None /\ wizard.unit.admin # None

(* Nothing is written to a database that the drive hides: the lock is      *)
(* released for a daemon on the new drive only.  Not if the restart was    *)
(* only asked for or the lock has failed, which the page cannot tell or    *)
(* leaves to the operator, nor for what was sent before the format.        *)
WritesLast ==
  wizard.orphaned => wizard.astray \/ wizard.hurried \/ wizard.reconsidered

(* While nothing is being asked, Continue is offered only for a drive that *)
(* has its file system, and an existing drive is never used without one.   *)
DriveIsReady ==
  /\ 2 \in wizard.page.shown /\ wizard.page.lock = "off" /\ ~ Busy(wizard, {"status"}) =>
       wizard.page.abnormal \/ wizard.unit.drive = "ext4"
  /\ Busy(wizard, {"storage"}) => wizard.blind \/ wizard.hurried \/ wizard.unit.drive = "ext4"

(* An operator who waits for each step sees one step, and on the report    *)
(* just what the recorder has stored.                                      *)
ReportIsTrue ==
  wizard.hurried \/
    /\ wizard.page.shown = {wizard.page.active}
    /\ 4 \in wizard.page.shown /\ ~ wizard.orphaned =>
         /\ wizard.page.report.list = wizard.unit.discovery
         /\ wizard.page.report.net = wizard.unit.network
         /\ {wizard.page.report.entry, wizard.page.entry} = {wizard.unit.site}
         /\ wizard.unit.site = wizard.unit.admin

(* What has been applied when the page says so is what it reported, also   *)
(* after requests that were aborted and repeated, unless the operator went *)
(* back in between.                                                        *)
AppliedAsReported ==
  wizard.page.complete /\ ~ (wizard.hurried \/ wizard.reconsidered \/ wizard.orphaned) =>
    LET applied == wizard.unit.applied
        report == wizard.page.report
    IN /\ applied.list = report.list /\ applied.net = report.net /\ applied.entry = report.entry
       /\ report.linked => applied.account = report.email

(* The steps of the wizard keep their order: all five of the above. *)
SetupInOrder == NeverAhead /\ WritesLast /\ DriveIsReady /\ ReportIsTrue /\ AppliedAsReported
=============================================================================
