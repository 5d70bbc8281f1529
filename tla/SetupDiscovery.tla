---------------------------- MODULE SetupDiscovery ----------------------------
(***************************************************************************)
(* Step 1 of the setup wizard, setup.html: the search for cameras, the     *)
(* sweep that logs in to each of them, the password dialogue, and the      *)
(* channel list.                                                           *)
(*                                                                         *)
(* The page is one JavaScript thread; what interleaves are the answers to  *)
(* its requests and the clicks of the operator.  The rows of a search are  *)
(* objects that discoveredList and addedDevices share, so a row here is an *)
(* identity <<search, camera>> and its fields are in `row'.  The sweep and *)
(* the password dialogue keep an INDEX into discoveredList over the await  *)
(* and look the row up again behind it; the login to all failed cameras    *)
(* keeps the row, and sorts the list when it ends.                         *)
(*                                                                         *)
(* The cameras and the backend are external: any request may be answered   *)
(* well or badly, in any order.  Every camera is taken to report an        *)
(* identity when a login succeeds, and none before.                        *)
(***************************************************************************)
EXTENDS Integers, SequencesExt

CONSTANTS
    Cameras,      \* the cameras on the network, known by the address they answer at
    Workers,      \* how many probes the sweep keeps in flight (4)
    DefaultCap,   \* MAX_CHANNELS before /api/check_setup has answered (16)
    LicenseCap,   \* ... and after
    Findings,     \* bound: the searches that find something, and the cameras they find
    MaxLogins,    \* bound: logins to one camera in flight at once; of logins to
                  \* all failed cameras there is one at a time
    None          \* no answer yet

ASSUME CameraAssumption == None \notin Cameras
ASSUME FindingsAssumption ==
    /\ Findings \in Seq(Seq(Cameras) \ {<<>>})
    /\ \A s \in DOMAIN Findings : IsInjective(Findings[s])
ASSUME NumberAssumption ==
    /\ Workers \in Nat \ {0} /\ MaxLogins \in Nat
    /\ DefaultCap \in Nat \ {0} /\ LicenseCap \in Nat \ {0}

Rows == (DOMAIN Findings) \X Cameras

VARIABLES
    discoveredList, addedDevices,   \* sequences of rows
    row,          \* of each row: address, state, and the camera whose answer
                  \* (serial number, stream addresses) it holds
    page,         \* the state each row showed when the table was last rendered
    MAX_CHANNELS,
    searches,     \* how many searches have found something
    search,       \* the search button: "ready", "searching" or "sweeping"
    cursor,       \* how many probes the sweep has started
    probes,       \* probes in flight: the index, and the address asked
    dialogue,     \* the password dialogue: Closed, Everyone or an index
    ready,        \* whether the button of the dialogue is enabled
    logins,       \* logins to one camera in flight
    everyone,     \* the rows still to answer a login to all failed cameras
    crossed       \* history: the operator did not wait, see below

vars == <<discoveredList, addedDevices, row, page, MAX_CHANNELS, searches, search, cursor,
          probes, dialogue, ready, logins, everyone, crossed>>
sweep == <<searches, search, cursor, probes>>
box   == <<dialogue, ready>>

Closed   == 0
Everyone == -1

Fresh(r) == [ip |-> r[2], state |-> "pending", answer |-> None]

Init ==
    /\ discoveredList = <<>> /\ addedDevices = <<>> /\ page = <<>>
    /\ row = [r \in Rows |-> Fresh(r)]
    /\ MAX_CHANNELS = DefaultCap
    /\ searches = 0 /\ search = "ready"
    /\ cursor = 0 /\ probes = {}
    /\ dialogue = Closed /\ ready = TRUE
    /\ logins = {} /\ everyone = {}
    /\ crossed = FALSE

-----------------------------------------------------------------------------
(* Helpers over the fields `f' of the rows and the channel list `added' *)

\* Mutant of isCameraAlreadyAdded: the test for the double add is lost.
BugNeverAdded(r, f, added) == FALSE

\* By serial number or UUID, which come with the answer, or by address.
isCameraAlreadyAdded(r, f, added) ==
    \E a \in Range(added) :
        \/ f[a].answer # None /\ f[a].answer = f[r].answer
        \/ f[a].ip = f[r].ip

\* Mutant of Push: the number of channels is not looked at.
BugPushUncapped(r, f, added) ==
    IF ~ isCameraAlreadyAdded(r, f, added) THEN Append(added, r) ELSE added

Push(r, f, added) ==
    IF Len(added) < MAX_CHANNELS /\ ~ isCameraAlreadyAdded(r, f, added)
      THEN Append(added, r)
      ELSE added

LoggedIn(r, camera) == [row EXCEPT ![r].state = "activated", ![r].answer = camera]

\* The table of discovered rows, after a step that renders it.
Rendered ==
    [i \in DOMAIN discoveredList' |->
        IF isCameraAlreadyAdded(discoveredList'[i], row', addedDevices')
          THEN "added" ELSE row'[discoveredList'[i]].state]

\* The operator reaches the page only when the dialogue does not cover it.
OnPage == dialogue = Closed

Least(m, n) == IF m < n THEN m ELSE n

-----------------------------------------------------------------------------
(* Loading the page, and the search *)

\* The number of channels in the licence replaces the default.
LoadCheckSetup ==
    /\ MAX_CHANNELS = DefaultCap /\ MAX_CHANNELS' = LicenseCap /\ DefaultCap # LicenseCap
    /\ UNCHANGED <<discoveredList, addedDevices, row, page, sweep, box, logins, everyone, crossed>>

\* The operator starts a search; the rows leave the page until it is rendered again.
startSmartDiscovery ==
    /\ OnPage /\ search = "ready"
    /\ search' = "searching" /\ page' = <<>>
    /\ UNCHANGED <<discoveredList, addedDevices, row, MAX_CHANNELS, searches, cursor, probes, box,
                   logins, everyone, crossed>>

\* Mutant of SearchFailed: an early return leaves the button disabled.
BugButtonLeft ==
    /\ search = "searching"
    /\ search' = "left" /\ page' = <<>>
    /\ UNCHANGED <<discoveredList, addedDevices, row, MAX_CHANNELS, searches, cursor, probes, box,
                   logins, everyone, crossed>>

\* No devices, or no answer: the lists stay as they are.
SearchFailed ==
    /\ search = "searching"
    /\ search' = "ready" /\ page' = <<>>
    /\ UNCHANGED <<discoveredList, addedDevices, row, MAX_CHANNELS, searches, cursor, probes, box,
                   logins, everyone, crossed>>

\* New rows replace the old ones, the channel list starts anew, and each
\* worker of the sweep takes a row.  Old rows live on in the logins in flight;
\* the fields of all others are garbage.
SearchFound ==
    /\ search = "searching" /\ searches < Len(Findings)
    /\ LET found == Findings[searches + 1] IN
         /\ discoveredList' = [i \in DOMAIN found |-> <<searches + 1, found[i]>>]
         /\ cursor' = Least(Workers, Len(found))
         /\ probes' = {[index |-> i, ip |-> found[i]] : i \in 1..cursor'}
    /\ row' = [r \in Rows |-> IF \E i \in 1..cursor' : r = discoveredList'[i]
                                THEN [Fresh(r) EXCEPT !.state = "authenticating"]
                                ELSE IF r \in everyone \cup {l.row : l \in logins}
                                THEN row[r] ELSE Fresh(r)]
    /\ addedDevices' = <<>>
    /\ searches' = searches + 1 /\ search' = "sweeping"
    /\ page' = Rendered
    /\ crossed' = (crossed \/ logins # {} \/ everyone # {} \/ dialogue > 0)
    /\ UNCHANGED <<MAX_CHANNELS, box, logins, everyone>>

-----------------------------------------------------------------------------
(* The sweep *)

\* Mutant of NextProbe: the loop ends one row early.
BugLastRowLeft(p, f) ==
    IF cursor + 1 < Len(discoveredList)
      THEN LET r == discoveredList[cursor + 1] IN
           /\ cursor' = cursor + 1
           /\ row' = [f EXCEPT ![r].state = "authenticating"]
           /\ probes' = (probes \ {p}) \cup {[index |-> cursor', ip |-> f[r].ip]}
           /\ UNCHANGED search
      ELSE /\ row' = f
           /\ probes' = probes \ {p}
           /\ search' = IF probes' = {} THEN "ready" ELSE search
           /\ UNCHANGED cursor

\* The worker of probe p goes on to the next index, or ends; the last to end
\* gives the search button back.
NextProbe(p, f) ==
    IF cursor < Len(discoveredList)
      THEN LET r == discoveredList[cursor + 1] IN
           /\ cursor' = cursor + 1
           /\ row' = [f EXCEPT ![r].state = "authenticating"]
           /\ probes' = (probes \ {p}) \cup {[index |-> cursor', ip |-> f[r].ip]}
           /\ UNCHANGED search
      ELSE /\ row' = f
           /\ probes' = probes \ {p}
           /\ search' = IF probes' = {} THEN "ready" ELSE search
           /\ UNCHANGED cursor

\* The answer is written to the row the index means NOW.
ProbeAnswer(p) ==
    /\ LET r == discoveredList[p.index] IN
         \/ LET f == LoggedIn(r, p.ip) IN
            NextProbe(p, f) /\ addedDevices' = Push(r, f, addedDevices)
         \/ NextProbe(p, [row EXCEPT ![r].state = "auth_failed"]) /\ UNCHANGED addedDevices
    /\ UNCHANGED discoveredList
    /\ page' = Rendered
    /\ UNCHANGED <<MAX_CHANNELS, searches, box, logins, everyone, crossed>>

-----------------------------------------------------------------------------
(* The channel list *)

\* At the cap, or where there is no such row, nothing happens and nothing is
\* rendered.  There is no test that the row is activated.
moveToAdded(i) ==
    IF Len(addedDevices) < MAX_CHANNELS /\ i \in DOMAIN discoveredList
      THEN /\ addedDevices' = Push(discoveredList[i], row', addedDevices)
           /\ page' = Rendered
      ELSE UNCHANGED <<addedDevices, page>>

\* History: a row is in the channel list and a login of its own is in flight.
AddedUnderLogin == \E login \in logins : login.row \in Range(addedDevices')

\* The Add button, on a row that showed success.
ClickAdd(i) ==
    /\ OnPage /\ page[i] = "activated"
    /\ UNCHANGED <<discoveredList, row>>
    /\ moveToAdded(i)
    /\ crossed' = (crossed \/ AddedUnderLogin)
    /\ UNCHANGED <<MAX_CHANNELS, sweep, box, logins, everyone>>

\* Mutant of AddOne: a row need not be activated.
BugAddAny(added, i) == Push(discoveredList[i], row, added)

AddOne(added, i) ==
    IF row[discoveredList[i]].state = "activated" THEN Push(discoveredList[i], row, added) ELSE added

\* The channel list when the ticked rows among the first n have been looked at.
AddTicked(ticked) ==
    LET list[n \in 0..Len(page)] ==
          IF n = 0 THEN addedDevices
          ELSE IF n \in ticked THEN AddOne(list[n - 1], n) ELSE list[n - 1]
    IN  list

\* The ticked rows, in the order of the page; a row of any state can be ticked.
addAllSelected ==
    /\ OnPage
    /\ \E ticked \in SUBSET {i \in DOMAIN page : page[i] # "added"} \ {{}} :
         addedDevices' = AddTicked(ticked)[Len(page)]
    /\ UNCHANGED <<discoveredList, row>>
    /\ page' = Rendered
    /\ crossed' = (crossed \/ AddedUnderLogin)
    /\ UNCHANGED <<MAX_CHANNELS, sweep, box, logins, everyone>>

removeAddedDevice(i) ==
    /\ OnPage
    /\ addedDevices' = RemoveAt(addedDevices, i)
    /\ UNCHANGED <<discoveredList, row>>
    /\ page' = Rendered
    /\ UNCHANGED <<MAX_CHANNELS, sweep, box, logins, everyone, crossed>>

-----------------------------------------------------------------------------
(* The password dialogue *)

\* Where it opens: at a row that showed "Authenticate", or for all of them.
promptPassword(i) ==
    /\ OnPage /\ page[i] = "auth_failed"
    /\ dialogue' = i /\ ready' = TRUE
    /\ UNCHANGED <<discoveredList, addedDevices, row, page, MAX_CHANNELS, sweep, logins, everyone, crossed>>

openUniversalPasswordModal ==
    /\ OnPage
    /\ dialogue' = Everyone /\ ready' = TRUE
    /\ UNCHANGED <<discoveredList, addedDevices, row, page, MAX_CHANNELS, sweep, logins, everyone, crossed>>

\* Cancel closes the dialogue and nothing else: a login in flight goes on.
Cancel ==
    /\ dialogue # Closed /\ dialogue' = Closed
    /\ UNCHANGED <<discoveredList, addedDevices, row, page, MAX_CHANNELS, sweep, ready, logins, everyone, crossed>>

\* Verify for one row, at the address the operator left or typed in the dialogue.
\* A row that is gone raises an error that leaves the button disabled.
SubmitOne ==
    /\ dialogue > 0 /\ ready /\ ready' = FALSE
    /\ IF dialogue \in DOMAIN discoveredList
         THEN /\ \E ip \in Cameras :
                   LET login == [row |-> discoveredList[dialogue], index |-> dialogue, ip |-> ip] IN
                   /\ Cardinality(logins \cup {login}) <= MaxLogins
                   /\ logins' = logins \cup {login}
              /\ crossed' = (crossed \/ logins # {} \/ everyone # {})
         ELSE UNCHANGED <<logins, crossed>>
    /\ UNCHANGED <<discoveredList, addedDevices, row, page, MAX_CHANNELS, sweep, dialogue, everyone>>

\* Mutant of OneAnswer: the address typed is not written back to the row.
BugAddressKept(login) ==
    /\ logins' = logins \ {login}
    /\ \/ /\ row' = LoggedIn(login.row, login.ip)
          /\ dialogue' = Closed
          /\ UNCHANGED <<discoveredList, ready>>
          /\ moveToAdded(login.index)
       \/ /\ ready' = TRUE
          /\ UNCHANGED <<discoveredList, addedDevices, row, page, dialogue>>
    /\ UNCHANGED <<MAX_CHANNELS, sweep, everyone, crossed>>

\* Success marks the row that was asked, closes whatever dialogue is open, and
\* calls moveToAdded with the index.  Locked out, refused or lost: the button comes back.
OneAnswer(login) ==
    /\ logins' = logins \ {login}
    /\ \/ /\ row' = [LoggedIn(login.row, login.ip) EXCEPT ![login.row].ip = login.ip]
          /\ dialogue' = Closed
          /\ UNCHANGED <<discoveredList, ready>>
          /\ moveToAdded(login.index)
       \/ /\ ready' = TRUE
          /\ UNCHANGED <<discoveredList, addedDevices, row, page, dialogue>>
    /\ UNCHANGED <<MAX_CHANNELS, sweep, everyone, crossed>>

\* Test all cameras: one request for each row that has failed.
SubmitEveryone ==
    /\ dialogue = Everyone /\ ready /\ everyone = {} /\ ready' = FALSE
    /\ LET failed == {r \in Range(discoveredList) : row[r].state = "auth_failed"} IN
         /\ everyone' = failed
         /\ dialogue' = IF failed = {} THEN Closed ELSE dialogue
         /\ crossed' = (crossed \/ (failed # {} /\ logins # {}))
    /\ UNCHANGED <<discoveredList, addedDevices, row, page, MAX_CHANNELS, sweep, logins>>

stateRank == [activated |-> 0, authenticating |-> 1, pending |-> 2, auth_failed |-> 3]

\* The order p of the indices is the one the stable sort by state leaves them in.
StablySorted(p, list, f) ==
    \A i, j \in DOMAIN list : i < j =>
        LET m == stateRank[f[list[p[i]]].state]
            n == stateRank[f[list[p[j]]].state] IN
        m < n \/ (m = n /\ p[i] < p[j])

\* The sort with which a login to all failed cameras ends.
SortRows ==
    \E p \in Bijection(DOMAIN discoveredList, DOMAIN discoveredList) :
        /\ StablySorted(p, discoveredList, row')
        /\ discoveredList' = [i \in DOMAIN discoveredList |-> discoveredList[p[i]]]

\* One answer; behind the last the list is sorted, any dialogue is closed and
\* the page is rendered, which it is not before.
EveryoneAnswer(r) ==
    /\ everyone' = everyone \ {r}
    /\ \/ /\ row' = LoggedIn(r, row[r].ip)
          /\ addedDevices' = Push(r, row', addedDevices)
       \/ UNCHANGED <<row, addedDevices>>
    /\ IF everyone' = {}
         THEN /\ SortRows
              /\ dialogue' = Closed
              /\ page' = Rendered
              /\ crossed' = (crossed \/ (discoveredList' # discoveredList
                                           /\ (probes # {} \/ logins # {})))
         ELSE UNCHANGED <<discoveredList, dialogue, page, crossed>>
    /\ UNCHANGED <<MAX_CHANNELS, sweep, ready, logins>>

-----------------------------------------------------------------------------

Answer ==
    \/ SearchFailed \/ SearchFound
    \/ \E p \in probes : ProbeAnswer(p)

Next ==
    \/ LoadCheckSetup \/ startSmartDiscovery \/ Answer
    \/ \E i \in DOMAIN page : ClickAdd(i) \/ promptPassword(i)
    \/ addAllSelected
    \/ \E i \in DOMAIN addedDevices : removeAddedDevice(i)
    \/ openUniversalPasswordModal \/ Cancel \/ SubmitOne \/ SubmitEveryone
    \/ \E login \in logins : OneAnswer(login)
    \/ \E r \in everyone : EveryoneAnswer(r)

Safety == Init /\ [][Next]_vars

\* A request of the page is answered or fails; the operator owes nothing.
Spec == Safety /\ WF_vars(Answer)

-----------------------------------------------------------------------------
(* Properties.  Several of them hold as long as the operator waits for a      *)
(* login before another kind of request is started; `crossed' says that one   *)
(* did not: a search or a sort replaced the list under a request that holds   *)
(* an index, two logins were under way at once, or a row was put in a channel *)
(* while a login of its own was.                                              *)

\* What a row shows and hands to the next steps of the wizard (serial number,
\* stream addresses, port) came from the camera at its address, although the
\* sweep writes through an index and the operator may type another address.
OwnAnswer ==
    ~ crossed => \A r \in Rows :
        /\ row[r].answer \in {None, row[r].ip}
        /\ row[r].state = "activated" => row[r].answer = row[r].ip

\* A camera takes one channel, whichever of the sweep, the buttons and the two
\* kinds of login put it there.
NoCameraTwice ==
    ~ crossed => \A i, j \in DOMAIN addedDevices : i # j =>
        LET a == row[addedDevices[i]] b == row[addedDevices[j]] IN
        a.ip # b.ip /\ (a.answer # None => a.answer # b.answer)

\* Only cameras that were logged in to are in the channel list, although
\* moveToAdded does not look at the state.
AddedAreActivated ==
    ~ crossed => \A r \in Range(addedDevices) : row[r].state = "activated"

\* When the search button is enabled again no row waits for the sweep: a row
\* left behind offers no button at all.
NoRowLeftBehind ==
    ~ crossed /\ search = "ready" =>
        \A r \in Range(discoveredList) : row[r].state \in {"activated", "auth_failed"}

\* No step takes the channel list over the number of channels known at the time.
CapInForce ==
    [][Len(addedDevices') > Len(addedDevices) => Len(addedDevices') <= MAX_CHANNELS]_vars

\* The search button comes back after every search.
ButtonComesBack == search # "ready" ~> search = "ready"

\* What finalizeGridAndProceed relies on when it sends serial number and
\* address of each channel; without the condition on the operator.
ChannelCarriesItsCamera ==
    \A r \in Range(addedDevices) : row[r].answer \in {None, row[r].ip}
=============================================================================
