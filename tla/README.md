# Verification of the Vuon ImageBuilder

The repository builds the OpenWrt image of a network video recorder, one image
per unit: a factory server bakes the identity of the unit into a shared
ImageBuilder checkout, the image carries first-boot scripts, an on-device web UI
and a licence poller, and an installed unit is updated over the air. The
ImageBuilder is in the repository with the sources of the programs it is driven
by: the Kconfig library with its front ends (`scripts/config`), `mkhash`, and the
loader that unpacks the kernel (`target/linux/generic/image/lzma-loader`). The
recorder `nvrd-core` and its helper daemons are Git LFS pointers without a source;
where they meet the code of the repository they are external actions.

This directory holds TLA+ models of both parts, the TLC configurations that check
them, and proofs for TLAPS. `PROJECT.json` maps each
definition to the lines it models and lists every hazard with the line where it
bites.

## Inventory

| Component | State it keeps | Operations | What makes it hard |
|---|---|---|---|
| Factory builder API, `builder_agent.py` | `CURRENT_BUILD_ID`; the shared `files/` overlay, `build_dir`, `bin/targets`; the finished images | `build_batch`, status, list, download | four waitress threads over one checkout, a lock that is a test and a later assignment, builds cut off half way |
| First-boot data area, `96-mount-data` | partition table, file system, swap header, fstab, and whether the script is kept | `provision`, registration, mount | power cuts at each step, page cache, device nodes that come late |
| OTA install, `_ota-metadata/install.sh` | binary (two places), page, `PROG` line, rollback copies, version file | one attempt, repeated by the updater | power cuts, respawns and failing commands between the files |
| Setup wizard, `setup.html`, step 1 | `discoveredList`, `addedDevices`, the table on screen, the dialogue | search, sweep, logins, add and remove | indices kept over an `await`, lists sorted and replaced behind it |
| Setup wizard, steps 2 to 4 | step shown, storage status, format lock, network, name, cloud account, report; at the recorder what is stored of each step | confirm channels, refresh, format, restart and wait, continue, cloud, finalize | polling a daemon that restarts, requests aborted and repeated |
| Licence poller, `license_check.py` | the truth file in `/var/run`, temporary files | one poll per run | overlapping runs without a lock, kills, answers out of order |
| Factory QA and downloads pages | what is shown | single requests | little state is kept over an `await` |
| SCADA stream and live grid | one `EventSource`, its reconnect timer, open players | connect, error, reopen | a stale timer drops a stream that has been opened since |
| Kconfig library, `scripts/config` | the symbol table with values, flags and caches; the menu tree; the include stack; macros; `.config` | parse, evaluate, set, toggle, search, read and write | everything is calculated lazily and cached, and one change may move any other value |
| `conf`, `mconf`, `nconf` | a call stack of menus and questions, the windows that are open | answers, keys, searches with jumps, load, save, quit | the tree under an open window changes with every answer |
| Dialogs, `lxdialog` and `nconf.gui.c` | scroll position, rows on screen, cursor, text | one key | only what a key changes is drawn again |
| `mkhash` | the block being filled, the length | update, end | reads of any size, padding that just fits or not |
| LZMA kernel loader | dictionary, last four distances, state | one packet | copies that overlap themselves, distances that wrap |
| Disk automount, `_disabled/` | a lock directory | format and mount of a hot-plugged disk | exits that keep the lock (disabled: not in the image) |

The parts meet in few places. The builder bakes files that the first-boot
scripts and `nvrd-core` read; `96-mount-data` runs once and decides what `/mysql`
is; the OTA script replaces what procd starts and the page that
speaks to it; the wizard talks to `nvrd-core` over HTTP, and its
last step links the unit, which is when the poller starts to have something to
ask. None of them shares memory with another, so each is a module of its own with
its neighbours as external actions. The Kconfig library is the exception: the
three front ends are linked with it, share its tables, and are composed with it. The components that are not modelled are in
`PROJECT.json` with the reason for each.

## Modules

| Module | Models | Used by |
|---|---|---|
| `SkuFacts` | `parse_model`, the validation of the SKU facts, as an operator | `SkuRequests`, `BuilderAgent` |
| `SkuRequests` | requests to it, one after the other | `MCPrograms`, `BuilderAgent_proofs` |
| `BuilderAgent` | `build_batch` in every worker thread, statement by statement where files change | `MCBuilderAgent`, `BuilderAgent_proofs` |
| `SerialBuilder` | the abstract builder: one unit at a time, and a file changes only to the image asked for | refined by `BuilderAgent` |
| `MountData` | `96-mount-data`, the runner of uci-defaults, the kernel and the power supply | `MountData_proofs` |
| `OtaInstall` | `install.sh`, the updater around it, procd and the power supply | `OtaInstall_proofs` |
| `SetupDiscovery` | step 1 of the wizard | `MCSetupDiscovery`, `SetupDiscovery_proofs` |
| `SetupSteps` | steps 2 to 4 of the wizard, and the recorder behind them | `MCPrograms`, `SetupSteps_proofs`, `SetupOrder_proofs` |
| `LicenseCheck` | `license_check.py`, cron and resync, the server | `LicenseCheck_proofs` |
| `VerdictFile` | the abstract truth file: an answer is taken at one moment and stored, whole and once, at a later one | refined by `LicenseCheck` |
| `ExprJoin`, `Expr` | `expr.c`: what looks at one or two operands, and what walks a whole expression | all modules of Kconfig, `MCPrograms`, `HostPrograms_proofs` |
| `KSymbols` | `symbol.c`: values, flags and caches, choices, ranges, loops of dependencies | `KMenus` |
| `KMenus` | `menu.c`: building the tree, `menu_finalize`, visibility, the way to a search result | `KParser`, `KConfData` |
| `KParser` | `parser.y` and the include stack of `lexer.l` | `Kconfig` |
| `KConfData` | `confdata.c`: `.config` and defconfig, read and written | `Kconfig` |
| `Saves` | `conf_write` after its lines are known: temporary file, comparison, two renames, power cuts and failures at each | `KConfData`, `HostPrograms_proofs` |
| `Kconfig` | one program over the library: parse, load, save | `KConf`, `KMconf` |
| `KConf`, `KMconf`, `KNconf` | `conf.c`, `mconf.c`, `nconf.c` | `MCKconfig` |
| `Preprocess` | `preprocess.c`: macros | `MCPrograms` |
| `KLexer` | `lexer.l`: characters to tokens | `MCPrograms` |
| `Mkhash` | `mkhash.c` | `MCPrograms`, `HostPrograms_proofs` |
| `LzmaDecode` | `LzmaDecode.c` and `decompress.c` of the kernel loader | `MCPrograms`, `HostPrograms_proofs` |
| `LxMenu`, `LxText`, `LxInput` | `menubox.c`, `checklist.c`, `textbox.c`, `inputbox.c` and the input field of `nconf.gui.c` | `Dialogs` |
| `Dialogs` | the three together: what their screens promise | `MCPrograms`, `HostPrograms_proofs` |

### BuilderAgent

A thread's `pc` names the statement it is about to run. `Receive` is the
validation (400, or 500 for the exception that `parse_model` lets through),
`Check` the test that answers 423, `Claim` the assignment of `CURRENT_BUILD_ID`:
two statements in the source and two actions here. The identity and the facts
are each written in three steps, because `open("w")` empties the file first and
the check behind it rereads it; `VerifyModel` asks only that the keys are there,
as the code does. `Clean`, `PrepareRootfs`, `MakeImage`, `Publish` and `Cleanup`
follow the file system. `Fail` is the `except` clause at any statement that
touches a file or starts a command, `Release` the `finally` clause. `Crash` is
systemd's restart: memory is lost, the checkout stays. `make image` is external:
it copies the overlay into a rootfs, makes an image of it, and may also succeed
without leaving the file the agent looks for. The actions that only read
(status, list, download) are left out.

### MountData

One process and a machine around it. The partition table, the file system and
the swap header reach the disk at once, since the tools sync; the overlay with
the fstab and the script itself goes through the page cache, so `overlay` is what
programs see and `durable` what a power cut leaves. `RegisterNodes` lets any of
the new device nodes appear, which is what the code's comment on the busy disk is
about. `Init` covers disks that are too small, cannot be found or fail now and
then, a table that is full, the two entries an interrupted eMMC install leaves,
and sectors that still hold an older data area, with or without a database.

### OtaInstall

A file is the version of its content. Commands that end in `|| die` end the
attempt when they fail; the `sed` that rewrites `PROG` and the two backups do not,
as in the script. `failing` says which commands may fail on this unit, because
the repository promises nothing about a unit whose `sed` fails. A copy under a
temporary name that is never moved stays in `leftovers` and takes room.

The script never syncs, and it works on two file systems: the root overlay and, for
the legacy binary, the data partition. `durable` and `data` are what is on their
disks, `SyncOverlay` and `SyncData` the write-back of the kernel, at any moment, and
`PowerCut` goes back to what is on the disks. Each file system is assumed to be
journaled and to keep its own order (overlay on ext4 in ordered mode: the version
file, say, is never there before the page); between the two there is no order.
So a cut may keep the `rm` (77) and lose the `sed` (71): `stranded` is the history
variable that says so, and the properties leave these units out by name. They run
nothing, the updater with it, and stay that way. A crash of the service takes the
updater along; the script may run on `alone`, and the next attempt is made when it has
ended. (Two copies of the script at once would use two temporary names and are not
modelled.)

### SetupDiscovery

The page is one JavaScript thread, so an action is everything between two
awaits. What interleaves are answers and clicks. A row is an object that two
lists share, so it is an identity `<<search, camera>>` with its fields in `row`;
the sweep and the dialogue keep an index over the await and look the row up
again, the login to all failed cameras keeps the row, exactly as the code does.
`page` is the table as last rendered, because the buttons the operator can press
are those on screen and several steps change rows without rendering. The state
of addresses and passwords is abstracted to which camera answers: the typed
address is any camera, every successful login reports an identity and none is
known before, the reasons why a camera is unreachable are not told apart, and
one login to all cameras runs at a time. Confirming the list (2449-2501) is in
`SetupSteps`; the relocate dialogue, `addAllToGrid` and drag and drop have no caller
left.

`crossed` is a history variable. It becomes true when the operator does not wait:
a search or a sort replaces the list under a request that holds an index, two
logins run at once, or a row is put in a channel while a login of its own is under
way. Four properties hold as long as it is false, and the
violation run shows what happens otherwise; the other properties need no such
condition. The sort of the list is any order of the indices that is stable by the
rank of the states, of which there is one; the loop over the ticked rows is a
function of the index, so that both can be reasoned about.

### SetupSteps

What a handler does up to its next `await` is one step: a click sends a request
with what the closure has captured, `Serve` is the recorder's part, `Receive` the
page's, and requests and answers overtake each other. `Lose` takes a request
before it is served or its answer after; `GiveUp` is the 90 s of the poll and the
30 s of finalize, whose request stays under way for a page that no longer listens
(`deaf`). The recorder is external and as little as the page needs: what it has
stored of each step, whether the drive has its file system, and its daemon, which
after a format writes into a database that the mounted drive hides, until it is
restarted; then it comes up on the drive, or without it. What was stored before
the format is taken to be carried over, as the comment at 2989 speaks of later
writes only. Which camera, name or password it is does not matter here, so a list
and the entries of step 3 are one value each.

Five history flags name what the page cannot prevent: `hurried`, something was
clicked while a step was being confirmed, as no button is disabled meanwhile;
`blind`, Continue was clicked during a refresh; `astray`, the restart was lost or
only asked for, or the lock has failed; `aborted` and `reconsidered`, the
operator went back after finalize was aborted. `NeverAhead` needs none of them:
it holds for every order of clicks and answers, as long as the recorder stores
what it confirms. All five properties, which `SetupInOrder` puts together, are proved
for any number of clicks, detours and requests.

### LicenseCheck

Each run is a process from configuration to exit code. A verdict of the server
is the number of its last change, so that an old answer can be told from a new
one. `Served` and `Receive` are apart because an answer may be delayed while the
server changes its mind and another run overtakes. `PollFails` ends in 2 for the
exceptions the code catches and in 1 for those it does not. `StoresWholeAnswers` is
the refinement: what is on its way (`Pending`) is the answer of a run that has one and
has not yet renamed its file; `Served` takes it, `Rename` stores it, and the steps in
between, with the temporary file, cannot be seen.

### Expressions, symbols, menus

The C code rewrites trees in place and marks symbols on the way. In `Expr` a
function returns the tree it leaves; in `KSymbols` and `KMenus` it takes the state
`st` of the library and returns the state it leaves, so the order in which symbols
are asked for, which decides what the caches hold, is that of the code. A symbol
with `SYMBOL_VALID` is in `st.valid`, and so on for each flag; `st.k` is the menu
tree with the properties, as `menu_finalize` leaves it. The marks that only make a
window redraw are left out. A string value is a member of the tables of `ExprJoin`
(its order and its number in each base), so comparisons are exact on the values
that occur. `KParser` reads a file line by line: each line is the action of the
grammar rule for that statement. The LALR tables are not modelled, nor what
the parser builds after an error, since `conf_parse` exits then.

`KConfData` works on lines `[sym, val]`. `auto.conf` and the headers are left out:
`conf_write_autoconf` returns before it does anything in this build. `Saves` is a
save in the steps a power cut can separate: temporary file, comparison, the two
renames. `Kconfig` is the life of a program around it.

### The front ends

`KConf` keeps the call stack of `check_conf`, `conf` and the questions in `todo`;
between two questions the program runs alone, so a question is a state and an
answer an action. `KMconf` keeps the stack of windows; a window is drawn by one
step, which calculates what it shows and so changes the caches, and answered by a
key. SIGINT is the key that leads to the exit dialogue from any window. `KNconf`
reuses the windows of `KMconf` and replaces what is different: function keys on top
of any window, and how the program leaves. Moving the bar only chooses the item,
so a key works on any item that is drawn. `lapsed` is history: a load failed behind a
change, and the mark of the change is gone. Drawing and its positions are in `LxMenu`.

### Preprocess, KLexer

A text of `Preprocess` is a sequence of literals and references, so that what is
expanded now, at the use, or twice can be told apart. `X := $(X)` reads a value
that was just freed; `Garbage` stands for it. A shell command is external.
`KLexer` has the four start conditions, the rules in their order and the two last
tokens the rules look at; the tables that flex generates are abstracted to the
longest match. A word with a reference that no newline follows leads to `EXPAND`, where
the lexer stays: it reads the end of the file over and over. It lexes one file, the
stack of files is in `KParser`.

### Mkhash, LzmaDecode

The compression functions are uninterpreted: the digest is the sequence of blocks
that were mixed. The range coder of the loader is a choice of packets, and
the widths of its trees are constants, so a distance can wrap in a small instance
as it does at 2^32. `kernel` is history: the queue of distances and the output that
the packets decoded so far describe, in which a copy is written down at once and
never cut. `strayed` is history as well: a literal was decoded with a byte that was not
written.

### LxMenu, LxText, LxInput, Dialogs

What is on the screen is state: `rows` of a list, the window of a text, the
characters of a field. A key redraws what the code redraws and no more. `stale`
in `LxMenu` marks the rows that a resize draws from the old `first_item`.

## Runs

| Run | Question | States |
|---|---|---|
| `kconfig` | the three front ends over Kconfig files small enough to try every session of a few keys: is the tree complete, are cached values fresh, are dependencies, ranges and choices respected, does a file that was written give the same values, does asking end, and is nothing lost on the way out | 89,887 |
| `programs` | one program in each behaviour: does rewriting an expression keep its value; does `parse_model` accept what the README promises; do macros, lexer, digests, kernel loader and dialogs do what they are for; does the wizard open no step too early, use no bad drive, lose nothing behind a format, and apply what it reports | 1,522,266 |
| `builder_live` | every interleaving of two threads with failures and crashes: does the busy flag always name a live build, and end | 66,796 |
| `builder_serial` | while builds do not overlap, is each image of its own unit, whatever was left in the checkout | 740,061 |
| `builder_mixup` | *violation*: the same without that condition | |
| `mount_crash` | power cuts anywhere: one pair of partitions, no formatted database, `/mysql` mounted in the end | 20,668 |
| `mount_swap` | *violation*: is the swap area formatted when the script is gone | |
| `ota_update` | three versions, three breaks: something to start unless a cut has stranded the unit, an honest version file, saved before replaced, and the last version in the end | 1,563,897 |
| `ota_coherent` | *violation*: does the page always belong to the binary | |
| `setup_discovery` | logins of all kinds, answered in any order, over two searches | 548,392 |
| `setup_mixup` | *violation*: does a channel carry its own camera, if the operator does not wait | |
| `license_check` | overlapping runs with faults: whole files, honest exit codes, no litter, each answer stored whole and at most once, and the last verdict in the end | 29,622 |

Bounds, and why they are enough:

* **builder**: two threads, because two overlapping builds already break what can
  break and a third adds no new pair; `OneRequest` (one device, one good and one
  bad body) where only the lock matters; `AllRequests` (two devices, every
  facts, an infinite `cam_max`) where content matters. A build that crashes at
  each statement leaves its files for the next, so stale content is in the run.
* **mount**: seven slots leave room for the pair beside the image's own and, for
  `other`, a table that is one slot short; two cuts let a repeated run be cut
  again.
* **ota**: three versions make the second update start from a unit that has been
  updated; three breaks let an attempt fail, be repeated and fail again; two
  copies fit on the overlay, so that it can fill up. Write-back is not bounded: the two
  disks are in every order a cut can find them in.
* **setup**: the second search finds fewer cameras than the first, so an index
  kept from the first may mean another camera or none. One worker and two rows
  make the sweep walk the list while it changes; two workers with one search were
  checked as well. The cap drops from 2 to 1, so that adding at and over the
  limit happens. Two logins in flight let one overtake the other.
* **kconfig**: four files written for the interplay of features (a tristate with
  a select and a range between symbols; a choice whose members and default depend
  on others; a tristate choice that resets, with an imply; an optional choice below
  a hidden menu and an `if`), each with a missing configuration and two others,
  every mode of `conf` and both menus with two keys (three and four on
  files with few symbols, four and five where a change, a load of a missing file and the exit have to fit);
  both directions of the symbol table, since its order decides who is asked first;
  nineteen files for includes and blocks, whole and broken; six loops of
  dependencies and near misses, each in two orders. A session of one key cannot
  leave a stale cache; two can, and every mutant of the library is found with these. Three keys on all four files (229,177 states) were checked
  once outside the project.
* **programs**: 920 expressions of up to four leaves, under every value of two
  booleans, two tristates and a number; every two statements of a set of 44 on two
  macros, and a recursion limit of 2 for the 1000 of the code; files of three lines
  and help texts of three, files whose last line has no newline;
  a block of 8 bytes and a length that wraps at 32, with
  reads below, at and above the block; 16 distances, so that they wrap; lists of
  none, two and five items in windows of one and three rows; all texts of up to four
  characters; a field of three characters with texts of up to five.
  The wizard has seven clicks with two requests in flight: the four that go straight
  through leave three, and two detours among clicks off that way, clicks made while
  a step is confirmed, and losses. Every hazard above takes one or two. Eight clicks
  with three detours (21.5 million states) were checked once outside the project.
* **licence**: two runs, two changes, two faults: one answer can be overtaken by
  another and either run can fail or be killed on the way.

`kconfig` and `programs` have a stop in every behaviour (the program ends), so
they check no deadlock. Some states are left out of a property by name, because
the code is known to fail there: `Retyped` and `Unmarked` in `ValuesAreFresh`,
`Round` (a Kconfig with a loop, which is loaded after a warning) in what is said of
values, `lapsed` (a change before a load that failed) in `QuitAsks`, `stale` in
`ScreenTrue` and `ChoiceInView`, `stranded`, a full overlay and a failing `sed` in the
properties of `OtaInstall`, `crossed` in those of `SetupDiscovery`, and the flags of
`SetupSteps`. The list below says what happens in them.

A property of `kconfig` or `programs` is often a conjunction of named parts:
`ParsedWhole` of `BlocksBalance`, `IncludesEnd`, `MenuTree`, `TypesInferred` and
`LoopsFound`; `ValuesAreFresh`, `ValuesAreLegal`, `AskingEnds` and those of
`MCPrograms` likewise. Type invariants are not checked by the runs of modules whose
proofs show them.

The four violation runs are disagreements between the code and what a comment or
README of the repository says; each is quoted in `findings`:

1. `builder_mixup`. "serializes builds (one at a time)": the test (176) and the
   assignment (180) are two statements run by four threads. Two POSTs that both
   pass the test overwrite each other's identity after it was verified.
2. `mount_swap`. "Idempotent + crash-safe": a run cut off between `mkfs.ext4` and
   `mkswap` finds the label on the next boot, returns at once and deletes itself;
   the swap partition never gets its header.
3. `ota_coherent`. "old UI + new backend is incoherent": the binary goes live
   before the page, and a failure or power cut between the two leaves them apart.
4. `setup_mixup`. The channel is meant to carry the serial number of its camera:
   the sort at the end of a login to all cameras moves rows under a probe in
   flight, which then writes through its index into another row.

## Fairness

Stated only where the code or its surroundings give it, and always weak:

* `BuilderAgent`: a thread goes on with its request, since every subprocess ends
  well or badly. No client has to send anything.
* `MountData`: the script goes on, and a unit whose script was kept is rebooted
  sooner or later. `EndsUpMounted` needs that boot, as the code's own comment says.
* `OtaInstall`: a script that runs goes on, and the updater tries again.
* `SetupDiscovery`: a request of the search or the sweep is answered or fails.
  The operator owes nothing.
* `LicenseCheck`: cron starts one run after another, and a run goes on since its
  request has a timeout. Nobody has to link the unit or ask for a resync.

The Kconfig programs and those of `programs` state no fairness: a user may stop at
any question, and a recorder that was formatted may stay down. Where the code could go round by itself, a safety property bounds it
instead: `PassesEnd` counts the passes of oldconfig, `PickEnds` says a choice
answered automatically has a member to take, `IncludesEnd` that no open file is
opened again, `LoopsEnd` that an expansion ends or is refused. Leads-to properties
over the states of three programs were tried and do not finish in TLC.

Faults are bounded in every module (`MaxCuts`, `MaxBreaks`, `MaxFaults`), so the
liveness properties say what happens once faults stop. `Crash` of `BuilderAgent`
is the exception: it may happen for ever.

## Proofs

TLC settles small instances; the theorems hold for any number of threads,
devices, slots, versions, runs and faults. They rest on the named `ASSUME`s of
the modules and on nothing else: well-formed requests (`RequestAssumption`),
sentinels that differ from the values they stand beside (`SentinelAssumption`,
`NoneAssumption`), a table with at least five slots (`SlotAssumption`), and the
kinds of the bounds.

* `BuilderAgent_proofs`. `TypeCorrect` and `BusyIsAlive` hold of `Spec` itself.
  The latter needs only that `req` does not change while a thread holds the
  checkout. `SerialInvariance` is the main result: from each write on, the
  shared file holds what the only thread at work put there, so what the rootfs,
  the image under `bin/targets` and finally the filed image were made of is that
  thread's unit. `SerialImages` and `SerialAnswers` are its consequences, and
  `SerialRefinement` shows that the agent then implements `SerialBuilder`, with
  the unit of the holding thread as the abstract `current`. All four are about
  `SerialSpec`, which is `Spec` without the steps that let two builds overlap;
  `builder_mixup` shows that the condition cannot be dropped.
  About the requests, `AcceptedIs` puts the returns and exceptions of `parse_model`
  into one condition. `AcceptedIsLegal` follows, which no run states, and, for every
  body, the two parts of `RequestsAreBuilt`: `TaggedIsBuilt` and `AcceptedReparses`.
  `RequestsAreBuiltHolds` puts them together for any words and numbers that the
  bodies of `SkuRequests` are made of. They assume that the markers for what is no
  number are no integers (`MarkerAssumption`), and that no word is the marker of a
  missing key (`BodySizes`).
* `MountData_proofs`. `OnePair` is not inductive: whether a second pair may be
  created depends on what `FindNames` saw. `KeepInv` adds that the script is at
  `expand` or `create` only when the table has no data entry, and that the two
  slots it is about to name are distinct and free. With it `OnlyOnePair` follows,
  and `KeepsDatabase`, an action property: `MakeFs` is the only step that formats,
  and it does so only when the label is not on the partition, while a database
  lies in a file system that has the label. `DoneIsFormatted` needs another
  strengthening, `FormattedInv`: the script goes only behind a return code of 0, and
  on a sound disk that code, like every step behind `mkfs`, means a file system.
* `OtaInstall_proofs`. `Attempts` bounds where an attempt may be; `OtaInv` says
  which files are already the new ones at each step. Its part `DiskInv` relates the
  two disks to what programs see: the overlay's disk holds an earlier state of the
  overlay, the legacy binary is gone from its own disk only when `PROG` has been
  rewritten in the cache, and a unit where that rewriting was lost is `stranded`, runs
  nothing and takes no step but write-back and power cuts. `AlwaysStartable` and
  `VersionIsHonest` follow, over every order of write-back. The first says that the
  init script names a binary that is there, and that no cut strands a unit
  once the new `PROG` line is on the disk. `SavesFirst` rests on `SavedInv`: in an update
  that nothing has disturbed, what runs, the file that `PROG` names and the page are
  all of the version the unit says it has, until the first of them is replaced.
* `LicenseCheck_proofs`. `LicenseInv` records what a run carries at each step: the
  temporary file it is about to rename holds its whole answer, and it has not
  touched the truth file before. `TypeCorrect`, `WholeAnswers`, `HonestExitCodes`
  and `NoLitter` follow. `PollerRefinement` shows that the poller implements
  `VerdictFile`, from the same invariant: a run has an answer exactly from `Served` on,
  and what it renames is that answer.
* `HostPrograms_proofs`, first part. The rules by which `expr_join_or`, `expr_join_and` and
  `expr_trans_bool` replace one or two operands, for all symbols and all values
  that are consistent: a logic symbol has the string of its value, a boolean is
  never m, and y, m and n stand for themselves. `OrRuleKeepsValue` and
  `AndRuleKeepsValue` split on the pair of comparisons; `ComparedLeaf` says what a
  comparison with y, m or n can be worth, which is where consistency is needed.
  Comparisons with other constants are excluded, because there the claim is false:
  `(a='n') && (a!='0')` is joined to `a='n'`, though the values differ only when
  strings other than y, m and n are compared with a logic symbol. That the rules
  keep the value of a whole tree is model-checked (`ValueKept`): the functions that
  walk trees are recursive over data.
* `HostPrograms_proofs`, second part. `ListsInvariance` is the inductive invariant of
  the lists of lxdialog, for lists of every length in windows of every height
  (`ListSizes`): the window lies on the list, the choice in the window, and each row
  shows the item it stands for, the choice alone being lit. `ScreenTrue` and
  `ChoiceInView`, which the run `programs` checks as part of `ScreenIsTrue`, follow.
  Neither is inductive: between the two prints of a key no row is lit (`Dark`), and
  that the row a scroll brings in is the right one needs what the other rows show
  (`ScrollIs`). Page Up and Page Down repeat a step as often as the window is high.
  That every such loop has a value (`LoopExists`), and what it leaves (`PageKeeps`),
  are proved by induction over the set of the numbers for which they hold
  (`NatByStep`): the library has that `<` is well founded on the naturals, which
  needs no operator as a parameter. A menu resized so that its scroll position does
  not fit any more (`stale`) is excepted, as in the run.
* `HostPrograms_proofs`, third part. `DigestsAreRight`: both digests of `mkhash` are
  those of the message, for messages of every length read in pieces of every size; the
  run has messages of up to 35 bytes and blocks of 8. What a context has taken in is
  one relation, `Has`: the blocks mixed, put end to end, and the used part of the
  buffer are the message. Each way in which `MD5_hash` and `SHA256_Update` take bytes
  keeps it: they wait (`KeepHas`), fill the buffer (`FillHas`), or are mixed where they
  lie (`TakeHas`). `Counts` says that the length kept in two parts with a carry, or in bits,
  is that of the message up to its wrap, so the fill the code derives from it is that of the
  buffer (`FillMD5`, `FillSHA`). The end has two cases, a length that
  fits behind the 80 byte and one that needs a block of its own (`EndShort`, `EndLong`).
  The hypothesis `HashSizes` says that a block holds more than the length and that the
  low part of the length wraps at the end of a block, as 64, 8, 2^29 and 2^32 do;
  `programs` evaluates it for its own sizes.
* `HostPrograms_proofs`, fourth part. `KernelIsLoaded`: whatever packets the stream
  holds, no byte of the kernel is copied from before its beginning, the kernel is what
  the packets say, cut at the size of the header, and the state tells a literal from the
  rest. The distances the loader remembers are not compared with the output
  again where `rep0` serves a literal or a short repeat; `InUse` says why they need not
  be: each lies within the output, which only grows, or is the 1 of the start. The loop
  that copies a byte at a time, over bytes it has just written, says what `Copied` says in
  one line (`CopyIs`, by induction over its rounds), and a copy that is cut is the
  beginning of the whole one (`CopiedCut`). That a distance fits below the wrap, except
  the one that marks the end, is about the slots of the trees (`DistancesFit`), under
  `LzmaWidths`: the low bits that are aligned are no more than the bits a slot has, as
  with 14, 4 and 32.
* `HostPrograms_proofs`, fifth part. `FieldsTrue`: the editors of a line, `dialog_inputbox`
  of lxdialog and of nconf, for texts of every length in fields of every width. `Typed` is
  inductive by itself: each key does to the text what it means to the two sides of the
  cursor (`WithIs`, `WithoutIs`, `DeleteIs`, `LeftIs`, `RightIs`, over one lemma on a text
  that is cut, `CutLeft`). What the field shows is not, in lxdialog: it redraws up to
  one blank behind the text and leaves the rest of the field as it was, so the screen is
  right only because what was there was right (`BlankBehind`, `StillBlank`): a key
  moves the field and shortens the text by a character at most. The hypothesis
  `LineSizes` says that a field has a place, that the string fits into the buffer of
  lxdialog, and that what is typed is not the name of another key.
* `HostPrograms_proofs`, sixth part. `TextFlagsTrue` and `TextLinesKept`: the text box of
  lxdialog, for every text and windows of every height. `back_lines` and `get_line` know
  a byte of the text and two flags, and no number of a line. `Layout` has the text as the
  sequence of the places where its lines begin. What printing n lines does, and what
  going back n lines does, are each one closed form over it (`AfterLines`, `AfterBack`),
  proved by induction over n; that the two agree, wherever the text ends and however
  short the last page is, is `TextKept`, which each key keeps. The hypothesis `TextSizes`
  says that a text ends with an end of line and that the box has a row: in a terminal of
  eight lines it has none, `begin_reached` is then taken back at the top, and the claim
  is false.
  `ScreensAreTrue` is `ScreenIsTrue` as the run checks it, from the second, fifth and this
  part: the specifications of the three dialogs together.
* `HostPrograms_proofs`, seventh part. `SavesSurvive`: `SavedSurvives` for files of any
  content and any number of saves, cuts, failures and restarts. It is not inductive: that
  the second rename puts in place what counts as saved from then on needs the temporary
  file to hold the lines of the save (`JobSound`), and that the first one loses nothing
  needs more than the property says. The saved configuration is in `.config`, or
  `.config` is *missing* and it is in `.config.old` (`Stands`): were `.config` there and
  older, the next first rename would put it over the good copy. `SavesSpec` leaves open
  what the programs do between saves. `Kconfig` takes its steps from `Saves` and adds
  what the library does with them, and all other steps of the three programs leave
  `.config`, its copy and the save alone, so each is a `BeginSave`, a `Meanwhile` or a
  stutter of it. (TLC finds no behaviour of `kconfig` outside of `SavesSpec` either, when
  it is added to `kconfig.cfg` as a PROPERTY.)

* `SetupSteps_proofs`. `NeverAheadHolds`: no step of the wizard is shown before the
  recorder has stored those in front of it. `programs` checks this as the first
  part of `SetupInOrder` with two requests at a click and two detours; the theorem
  has no bound on clicks, detours or requests in flight. `NeverAhead` is not
  inductive, since the answer that opens a step may have been on its way for long.
  `StepsInv` adds what every request in flight and every answer implies about the
  recorder (`Grounded`), for instance that an accepted network was asked for from
  step 2, behind a stored discovery; it is kept because the recorder never takes
  back what it has stored (`Grows`), and because a request nobody listens to is
  answered to nobody. Its hypothesis `SetupInputs` says that there is a list and an
  entry, and that none of them is the sentinel. There is one lemma per action,
  and for `Receive` one per kind of answer.
* `SetupOrder_proofs`. `SetupInOrderHolds`: the other four parts of `SetupInOrder` as
  well, without the bounds of `programs`. None of them is inductive, because each is
  about a page at rest while the page moves on an answer whose request was sent long
  before. `InOrder` says of every request in flight, and of every answer on its way,
  what page and recorder have in common with it. One request at a time belongs to the
  lock, and it is the one the lock waits for (`LockKept`); a lock behind the format,
  or an answer that names a file system, has one (`DriveKept`). An operator who waits
  has one step confirmed at a time, from the step that is shown, and hears from the
  cloud before step 3 is confirmed (`OneMove`). What stands on the page is what the
  recorder stored of the steps behind (`Reflected`). A finalize that was aborted keeps the
  operator on the report (`Stays`), and what it carries is what is reported
  (`Agreed`). When the lock goes, the daemon is on the new drive, because an answer
  to the poll that is "ok" came from a daemon that was restarted (`Written`, `Stage`).
  Each part holds under its own history flags, which shows which of them a promise
  really needs: `LockKept` and `DriveKept` under none, `OneMove` unless `hurried`,
  `Reflected` also not when `orphaned`. `Known`, whether the page knows the drive or
  has asked, is a disjunction that an answer may break and `LoadStorageStats`
  restores. TLC checked `OrderInv` first (20 million states of a larger instance).
  A step is proved in three moves: the request is taken out (`TakenInOrder`),
  recorder or page move, and it or its successor is put back (`AddInOrder`).
* `SetupDiscovery_proofs`. `OwnAnswer`, `NoCameraTwice`, `AddedAreActivated` and
  `NoRowLeftBehind` follow from one invariant, `Inductive`, for any number of
  cameras, searches, workers, logins and channels. None of the four is inductive.
  What they need besides (`Waited`) is how the lists, the requests and the screen
  hang together while the operator waits: a row is in the list once
  (`IsInjective`); an index the sweep holds still means the row it was sent for, and
  rows are behind the cursor in the state the sweep leaves them (`SweepInOrder`); a
  login under way is for a row that is in no channel (`LoginsInOrder`); the page may
  be older than the rows, but a row it shows as activated is, and one it shows as
  refused may still be asked for a password (`PageInOrder`). The state counts as good when `crossed` is true, so
  the invariant is a disjunction, and `CrossedStays` closes it. `CapHolds` needs
  only types. `AddTicked` is a recursive function, and that it exists
  (`TickedExists`) is proved by a smallest counterexample. The first attempt failed for a reason: with three cameras a row could be added
  under its own login, which two cameras do not show; see below.

The hypotheses that are not an `ASSUME` of a module (`BodySizes`, `HashSizes`,
`LzmaWidths`, `ListSizes`, `TextSizes`, `LineSizes`, `SetupInputs`) are evaluated by TLC
for the sizes of `programs`, in the assumption `SizesHold` of `MCPrograms`.

Only model-checked:

* `MeaningKept`, `HangingIsSound`, `MacrosExpand` and `TokensOfLines` of `programs`, and
  everything of `kconfig` but `SavedSurvives`. The functions that walk expressions, menus
  and macros are recursive over data, and this prover accepts no module that declares
  such operators.
* Every liveness property (`BusyEnds`, `EndsUpMounted`, `Converges`,
  `ButtonComesBack`, `CatchesUp`), which is out of this prover's reach.

## Seen while modelling, without a run

Behaviours that contradict no sentence of the repository, or that a run would
not show better than a line:

* `parse_model` truncates 16.5 to 16, and an infinite number raises an
  `OverflowError` that becomes a 500 instead of a 400.
* A failing `sed` at `install.sh:71` goes unnoticed and the binary that `PROG`
  still names is removed next; hence the condition of `Startable`.
* `install.sh` ends without a sync. A power cut behind it may keep the removal of the
  legacy binary, on the data partition (77), and lose the `PROG` line, on the overlay
  (71): the unit starts nothing, and the updater that would try again is part of what
  is not started. Hence `stranded`.
* An attempt repeated after a power cut saves the binary the interrupted one had
  installed over the one saved before; hence `breaks = 0` in `SavedFirst`.
* Copies of failed attempts stay on the overlay and can fill it; hence
  `leftovers < Space` in `Converges`.
* A licence run whose connection is closed without an answer ends with 1, the
  code that means "inactive".
* The channel count of the licence may arrive after channels were added under the
  default; nothing trims the list. `CapInForce` is about the count known at each
  step.
* A data partition is looked for on every disk, so a second disk with that label
  is pinned in its place; hence `~ foreign` in `DoneMeansFormatted`.

* When a login succeeds at the cap, `moveToAdded` alerts and returns before it
  renders: the row keeps its Authenticate button. It may be asked again under another address,
  and put in a channel while that answer is on its way, when another camera was
  removed meanwhile; two channels may then be of one camera. It takes three cameras.
  Hence the last clause of `crossed`.

Of the wizard's later steps:

* No button of a step is disabled while the step is being confirmed. A second click,
  or Back, lets the late answer show a step beside the one that is open
  (2494, 3164, 3522), and finalize reads name and password from the fields
  (3622-3624), not what was stored; hence `hurried`.
* A refresh clears `storageStatusAbnormal` before its await (2607), so Continue is
  offered for a drive that is known to be bad; hence `blind`.
* The answer to the restart is not looked at (3026-3031), and `check_setup` is
  answered by an old daemon as well: the lock may go while the daemon still writes
  into the hidden database. When the answer to the format is lost, the page is
  reloaded and the daemon is not restarted at all. Hence `astray`.
* After a finalize that was aborted, a changed one may be overtaken by the first;
  hence `reconsidered`.
* The answer of the network test replaces what the operator has chosen meanwhile
  (2748-2777).
* The payload of finalize carries `cloudEmailFinal` (3625) also when the report
  says that no account is linked: neither unlinking (3376) nor a list without this
  unit (3318, 3264) clears it.

Of the Kconfig library and its programs:

* Typing the string or number a symbol had before its user flag was dropped returns
  true without dropping the caches (`symbol.c:640-667`): the old value stays on
  show until the next change.
* A member that appears in a choice takes the user flag of the choice
  (`symbol.c:270-300`); an optional or tristate choice falls back when values are
  calculated next, not before.
* The members of a choice are marked for writing by their visibility of before
  (`symbol.c:426-437`).
* `randconfig` repeats until nothing is new, which a member a random choice creates
  can put off for ever.
* `conf_read` clears the mark of a change before it opens the file, so after a failed
  load the program ends without asking about what was changed before; hence
  `lapsed`. `nconf` also ends when writing failed;
  `mconf`'s SIGINT handler ends the program even after Esc at its question.
* `menu_is_visible` sets the user flag of a symbol it only looks at.
* `child_count` of `mconf` is never reset; Backspace on an empty pattern of `nconf`
  writes before the array, and a search that fails sets the index to -1.
* A symbol defined without and with a condition gets the condition
  (`expr_alloc_or` of nothing and x is x).
* A file matched by a wildcard beside one that includes it is refused as recursive.
* A full disk goes unnoticed by `conf_write`, and the short file replaces the old one.
  Nor is the temporary file synced before it is renamed, so a power cut may leave an
  empty one under the name. Neither is modelled.
* A comment in `expr.c` (569) says `a='m'` where the code makes `a='y'`, which is
  right.
* `expand_token` waits for EOF (`lexer.l:309`), but `input()` of the generated scanner
  gives 0 at the end of a file (`lexer.lex.c:3352`): a last line without a newline that
  ends in a word with a reference is read for ever. Hence the mode `EXPAND`.
* The lexer takes a line in column 0 right behind `help` into the text, reads an
  assignment behind a help text as an option, and goes on with a help text in the
  file around it when a sourced file ends with `help`.
* A macro function called again without arguments inside itself is refused as
  recursive; an environment variable that is not set is not remembered, so setting
  it later does not make `auto.conf` stale.
* `menubox.c` keeps `first_item` over a resize (172-249) when the saved scroll no
  longer fits, and draws other items than Enter takes, or none; `textbox.c` goes
  back the height of the dialogue instead of what was drawn.
* The kernel loader takes an end marker before the size for success
  (`decompress.c:148`) and starts a short kernel.

## Not modelled

* `qconf`: the Qt front end. Its state is that of Qt's widgets and event loop, of
  which the repository has no source; what it calls of the library is modelled.
* `auto.conf`, the headers and `conf_touch_deps`: switched off in this build.
* `yesno.c`, colours, frames, and the buttons and help window of `nconf.gui.c`: one
  position each.
* The consoles of the loader (`print.c`, `printf.c`, `uart16550.c`), make rules, and
  the perl and shell that runs once from start to end.
* `nvrd-core` and the helper daemons: no source.
* The pages of the factory server: single requests.

## Plan

Done in this order, the most valuable first: the builder (what leaves the
factory), the data area (what holds the recordings' database), the update, the
wizard's search, the poller, the programs of the image builder, and the wizard's
later steps. Next:

1. **SCADA event stream and live grid** (`sse.js`, `path_live_grid.js`): at most one
   stream, and every player closed.
2. **Disk automount** (`manage_hdd.sh`): two events and the lock that four exits keep.
3. **The lock of the wizard as an abstract specification** (released only for a new
   daemon on the new drive), refined by `SetupSteps`, and its liveness under the
   fairness of the two timers.
4. **Factory QA page**, if it turns out to keep more than a request.

Theorems to prove next: the safety of item 3 from `OrderInv`.
