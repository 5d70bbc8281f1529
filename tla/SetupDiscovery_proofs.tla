------------------------- MODULE SetupDiscovery_proofs -------------------------
(***************************************************************************)
(* Step 1 of the setup wizard keeps the channel list sound, for any number *)
(* of cameras, searches, workers and channels: as long as `crossed' does   *)
(* not say that the operator started one request under another, an answer  *)
(* is kept with the camera that gave it, no camera takes two channels, and *)
(* the sweep leaves no row behind; and no step takes the list over the     *)
(* number of channels.                                                     *)
(***************************************************************************)
EXTENDS SetupDiscovery, SequenceTheorems, WellFoundedInduction, TLAPS

\* The states of a row.
States == {"activated", "authenticating", "pending", "auth_failed"}

\* What a row object holds.
Fields == [ip : Cameras, state : States, answer : Cameras \cup {None}]

\* The shape of the state of the page.
TypeOK ==
    /\ discoveredList \in Seq(Rows) /\ addedDevices \in Seq(Rows)
    /\ row \in [Rows -> Fields]
    /\ page \in Seq(States \cup {"added"})
    /\ page = <<>> \/ Len(page) = Len(discoveredList)
    /\ MAX_CHANNELS \in Nat
    /\ searches \in 0..Len(Findings)
    /\ search \in {"ready", "searching", "sweeping"}
    /\ cursor \in 0..Len(discoveredList)
    /\ probes \subseteq [index : 1..cursor, ip : Cameras]
    /\ dialogue \in Int
    /\ ready \in BOOLEAN
    /\ logins \subseteq [row : Rows, index : Nat, ip : Cameras]
    /\ everyone \subseteq Rows
    /\ crossed \in BOOLEAN

\* The rows of a channel list are activated and have different addresses.
ActiveAndApart(list, f) ==
    /\ \A i \in DOMAIN list : f[list[i]].state = "activated"
    /\ \A i, j \in DOMAIN list : i # j => f[list[i]].ip # f[list[j]].ip

\* What one more row can do to the channel list.
LEMMA PushShape ==
    ASSUME NEW list \in Seq(Rows), NEW r \in Rows, NEW f, MAX_CHANNELS \in Nat
    PROVE  /\ Push(r, f, list) \in Seq(Rows)
           /\ Push(r, f, list) = list \/ Len(Push(r, f, list)) <= MAX_CHANNELS
           /\ Range(Push(r, f, list)) \subseteq Range(list) \cup {r}
           /\ ActiveAndApart(list, f) /\ f[r].state = "activated" =>
                  ActiveAndApart(Push(r, f, list), f)
<1>1. CASE Push(r, f, list) = list
  BY <1>1
<1>2. CASE /\ Push(r, f, list) = Append(list, r)
           /\ Len(list) < MAX_CHANNELS
           /\ ~ isCameraAlreadyAdded(r, f, list)
  <2>1. \A a \in Range(list) : f[a].ip # f[r].ip
    BY <1>2 DEF isCameraAlreadyAdded
  <2>2. \A i \in 1..Len(list) : f[list[i]].ip # f[r].ip
    BY <2>1 DEF Range
  <2>3. /\ Append(list, r) \in Seq(Rows) /\ Len(Append(list, r)) = Len(list) + 1
        /\ DOMAIN Append(list, r) = 1..(Len(list) + 1) /\ DOMAIN list = 1..Len(list)
        /\ \A i \in 1..Len(list) : Append(list, r)[i] = list[i]
        /\ Append(list, r)[Len(list) + 1] = r /\ Len(list) \in Nat
    OBVIOUS
  <2> DEFINE longer == Append(list, r)
  <2>4. Range(longer) \subseteq Range(list) \cup {r}
    <3> SUFFICES ASSUME NEW i \in 1..(Len(list) + 1)
                 PROVE  longer[i] \in Range(list) \cup {r}
      BY <2>3 DEF Range
    <3>1. i \in 1..Len(list) \/ i = Len(list) + 1
      BY <2>3
    <3> QED BY <3>1, <2>3 DEF Range
  <2>5. ASSUME ActiveAndApart(list, f), f[r].state = "activated"
        PROVE  ActiveAndApart(longer, f)
    <3>1. \A i \in 1..(Len(list) + 1) : f[longer[i]].state = "activated"
      BY <2>3, <2>5 DEF ActiveAndApart
    <3>2. \A i, j \in 1..(Len(list) + 1) : i # j => f[longer[i]].ip # f[longer[j]].ip
      BY <2>2, <2>3, <2>5 DEF ActiveAndApart
    <3> QED BY <3>1, <3>2, <2>3 DEF ActiveAndApart
  <2>6. Len(longer) <= MAX_CHANNELS
    BY <1>2, <2>3
  <2> QED BY <1>2, <2>3, <2>4, <2>5, <2>6
<1> QED BY <1>1, <1>2 DEF Push

\* The functions that stand for the loop of addAllSelected, and what they keep.
TickedUpTo(ticked, m) ==
    {list \in [0..m -> Seq(Rows)] :
        /\ list[0] = addedDevices
        /\ \A n \in 1..m :
             list[n] = IF n \in ticked THEN AddOne(list[n - 1], n) ELSE list[n - 1]}

\* The least number of a set of numbers.
LEMMA LeastOf ==
    ASSUME NEW S \in SUBSET Nat, S # {}
    PROVE  \E n \in S : \A m \in S : n <= m
<1>0. \E x \in S : \A y \in S : <<y, x>> \notin OpToRel(<, Nat)
  BY NatLessThanWellFounded, WFMin, Zenon
<1>1. PICK x \in S : \A y \in S : <<y, x>> \notin OpToRel(<, Nat)
  BY <1>0
<1>2. \A y \in S : ~ (y < x)
  BY <1>1, Zenon DEF OpToRel
<1>3. \A y \in S : x <= y
  BY <1>2
<1> QED BY <1>3

\* One ticked row.
LEMMA AddOneShape ==
    ASSUME TypeOK, NEW list \in Seq(Rows), NEW i \in DOMAIN discoveredList
    PROVE  /\ AddOne(list, i) \in Seq(Rows)
           /\ AddOne(list, i) = list \/ Len(AddOne(list, i)) <= MAX_CHANNELS
           /\ ActiveAndApart(list, row) => ActiveAndApart(AddOne(list, i), row)
<1>1. discoveredList[i] \in Rows
  BY DEF TypeOK
<1> QED BY <1>1, PushShape DEF AddOne, TypeOK

\* The recursive function that AddTicked is defined by exists: the equations
\* can be solved up to every index of the page.
LEMMA TickedExists ==
    ASSUME TypeOK, NEW ticked \in SUBSET DOMAIN page
    PROVE  \A m \in 0..Len(page) : TickedUpTo(ticked, m) # {}
<1> DEFINE Bad == {m \in 0..Len(page) : TickedUpTo(ticked, m) = {}}
<1> SUFFICES ASSUME Bad # {} PROVE FALSE
  OBVIOUS
<1>0. Len(page) \in Nat /\ DOMAIN page = 1..Len(page) /\ (page # <<>> => DOMAIN page = DOMAIN discoveredList)
  BY DEF TypeOK
<1>1. Bad \subseteq Nat
  BY <1>0
<1> HIDE DEF Bad
<1>2. PICK m \in Bad : \A n \in Bad : m <= n
  BY <1>1, LeastOf
<1>3. m \in 0..Len(page) /\ TickedUpTo(ticked, m) = {}
  BY <1>2 DEF Bad
<1>4. CASE m = 0
  <2>1. [n \in 0..0 |-> addedDevices] \in TickedUpTo(ticked, 0)
    BY DEF TickedUpTo, TypeOK
  <2> QED BY <1>3, <1>4, <2>1
<1>5. CASE m # 0
  <2>1. m - 1 \in 0..Len(page) /\ m - 1 \notin Bad
    BY <1>0, <1>2, <1>3, <1>5
  <2>2. PICK list \in TickedUpTo(ticked, m - 1) : TRUE
    BY <2>1 DEF Bad
  <2> DEFINE last == IF m \in ticked THEN AddOne(list[m - 1], m) ELSE list[m - 1]
             longer == [n \in 0..m |-> IF n = m THEN last ELSE list[n]]
  <2>3. list \in [0..(m - 1) -> Seq(Rows)]
    BY <2>2 DEF TickedUpTo
  <2>4. list[m - 1] \in Seq(Rows)
    BY <1>0, <1>3, <1>5, <2>3
  <2>5. last \in Seq(Rows)
    BY <1>0, <2>4, AddOneShape, TypeOK
  <2> HIDE DEF last
  <2>6. longer \in [0..m -> Seq(Rows)]
    BY <1>0, <1>3, <1>5, <2>3, <2>5
  <2>7. \A n \in 0..(m - 1) : longer[n] = list[n]
    BY <1>0, <1>3, <1>5
  <2>8. longer[m] = last
    BY <1>0, <1>3
  <2> HIDE DEF longer
  <2>9. \A n \in 1..m : longer[n] = IF n \in ticked THEN AddOne(longer[n - 1], n) ELSE longer[n - 1]
    <3> TAKE n \in 1..m
    <3>1. CASE n = m
      BY <3>1, <2>7, <2>8, <1>0, <1>3, <1>5 DEF last
    <3>2. CASE n # m
      <4>1. n \in 1..(m - 1) /\ n \in 0..(m - 1) /\ n - 1 \in 0..(m - 1)
        BY <3>2, <1>0, <1>3, <1>5
      <4>2. list[n] = IF n \in ticked THEN AddOne(list[n - 1], n) ELSE list[n - 1]
        BY <4>1, <2>2 DEF TickedUpTo
      <4> QED BY <4>1, <4>2, <2>7
    <3> QED BY <3>1, <3>2
  <2>10. longer[0] = addedDevices
    BY <2>2, <2>7, <1>0, <1>3, <1>5 DEF TickedUpTo
  <2>11. longer \in TickedUpTo(ticked, m)
    BY <2>6, <2>9, <2>10 DEF TickedUpTo
  <2> QED BY <1>3, <2>11
<1> QED BY <1>4, <1>5

\* The channel list behind addAllSelected.
LEMMA AddTickedShape ==
    ASSUME TypeOK, NEW ticked \in SUBSET DOMAIN page
    PROVE  LET list == AddTicked(ticked)[Len(page)] IN
           /\ list \in Seq(Rows)
           /\ list = addedDevices \/ Len(list) <= MAX_CHANNELS
           /\ ActiveAndApart(addedDevices, row) => ActiveAndApart(list, row)
<1> DEFINE last == Len(page)
           Equation(g) == g = [n \in 0..last |->
                IF n = 0 THEN addedDevices
                ELSE IF n \in ticked THEN AddOne(g[n - 1], n) ELSE g[n - 1]]
           list == AddTicked(ticked)
<1>0. last \in Nat /\ DOMAIN page = 1..last /\ (page # <<>> => DOMAIN page = DOMAIN discoveredList)
  BY DEF TypeOK
<1>1. PICK g \in TickedUpTo(ticked, last) : TRUE
  BY <1>0, TickedExists
<1>2. Equation(g)
  <2>1. g \in [0..last -> Seq(Rows)] /\ g[0] = addedDevices
    BY <1>1 DEF TickedUpTo
  <2>2. \A n \in 0..last : g[n] = IF n = 0 THEN addedDevices
                ELSE IF n \in ticked THEN AddOne(g[n - 1], n) ELSE g[n - 1]
    BY <1>0, <1>1, <2>1 DEF TickedUpTo
  <2> QED BY <2>1, <2>2
<1>3. list = CHOOSE h : Equation(h)
  BY DEF AddTicked
<1>4. Equation(list)
  <2> HIDE DEF Equation, list
  <2> QED BY <1>2, <1>3
<1>5. /\ list[0] = addedDevices
      /\ \A n \in 1..last : list[n] = IF n \in ticked THEN AddOne(list[n - 1], n) ELSE list[n - 1]
  BY <1>0, <1>4
<1> DEFINE Kept(s) == /\ s \in Seq(Rows)
                      /\ s = addedDevices \/ Len(s) <= MAX_CHANNELS
                      /\ ActiveAndApart(addedDevices, row) => ActiveAndApart(s, row)
           Bad == {n \in 0..last : ~ Kept(list[n])}
<1> HIDE DEF list
<1>6. Bad = {}
  <2> SUFFICES ASSUME Bad # {} PROVE FALSE
    OBVIOUS
  <2>1. Bad \subseteq Nat
    BY <1>0
  <2>2. PICK m \in Bad : \A n \in Bad : m <= n
    BY <2>1, LeastOf
  <2>3. m # 0
    BY <1>5, <2>2 DEF TypeOK
  <2>4. m \in 1..last /\ m - 1 \in 0..last /\ m - 1 \notin Bad
    BY <1>0, <2>2, <2>3
  <2>5. Kept(list[m - 1])
    BY <2>4
  <2>6. m \in ticked => m \in DOMAIN discoveredList
    BY <1>0, <2>4
  <2>7. Kept(list[m])
    BY <1>5, <2>4, <2>5, <2>6, AddOneShape
  <2> QED BY <2>2, <2>7
<1>7. Kept(list[last])
  BY <1>0, <1>6
<1> QED BY <1>7 DEF list

\* A removal keeps the other rows, in their order.
LEMMA RemoveAtShape ==
    ASSUME NEW list \in Seq(Rows), NEW i \in DOMAIN list, NEW f
    PROVE  /\ RemoveAt(list, i) \in Seq(Rows)
           /\ Len(RemoveAt(list, i)) = Len(list) - 1
           /\ Range(RemoveAt(list, i)) \subseteq Range(list)
           /\ ActiveAndApart(list, f) => ActiveAndApart(RemoveAt(list, i), f)
<1> DEFINE front == SubSeq(list, 1, i - 1)
           back  == SubSeq(list, i + 1, Len(list))
           rest  == RemoveAt(list, i)
<1>1. Len(list) \in Nat /\ DOMAIN list = 1..Len(list) /\ i \in 1..Len(list)
      /\ \A k \in 1..Len(list) : list[k] \in Rows
  OBVIOUS
<1>2. /\ front \in Seq(Rows) /\ Len(front) = i - 1
      /\ \A k \in 1..(i - 1) : front[k] = list[k]
  <2>1. \A k \in 1..(i - 1) : list[k] \in Rows
    BY <1>1
  <2> QED BY <1>1, <2>1, SubSeqProperties
<1>3. /\ back \in Seq(Rows) /\ Len(back) = Len(list) - i
      /\ \A k \in 1..(Len(list) - i) : back[k] = list[i + k]
  <2>1. \A k \in (i + 1)..Len(list) : list[k] \in Rows
    BY <1>1
  <2>2. /\ back \in Seq(Rows)
        /\ Len(back) = IF i + 1 <= Len(list) THEN Len(list) - (i + 1) + 1 ELSE 0
        /\ \A k \in 1..(Len(list) - (i + 1) + 1) : back[k] = list[(i + 1) + k - 1]
    BY <1>1, <2>1, SubSeqProperties
  <2> HIDE DEF back
  <2>3. ASSUME NEW k \in 1..(Len(list) - i) PROVE back[k] = list[i + k]
    <3>1. k \in 1..(Len(list) - (i + 1) + 1) /\ (i + 1) + k - 1 = i + k
      BY <1>1
    <3> QED BY <2>2, <3>1
  <2> QED BY <1>1, <2>2, <2>3
<1> HIDE DEF front, back
<1>4. rest = front \o back
  BY DEF RemoveAt, front, back
<1> HIDE DEF rest
<1>5. /\ rest \in Seq(Rows) /\ Len(rest) = Len(front) + Len(back)
      /\ \A k \in 1..(Len(front) + Len(back)) :
            rest[k] = IF k <= Len(front) THEN front[k] ELSE back[k - Len(front)]
  BY <1>2, <1>3, <1>4, ConcatProperties
<1>6. Len(rest) = Len(list) - 1 /\ DOMAIN rest = 1..(Len(list) - 1)
  BY <1>1, <1>2, <1>3, <1>5
<1> DEFINE from(k) == IF k < i THEN k ELSE k + 1
<1>7. ASSUME NEW k \in 1..(Len(list) - 1)
      PROVE  rest[k] = list[from(k)] /\ from(k) \in 1..Len(list)
  <2>1. k \in 1..(Len(front) + Len(back))
    BY <1>1, <1>2, <1>3
  <2>2. CASE k < i
    BY <1>1, <1>2, <1>5, <2>1, <2>2
  <2>3. CASE ~ (k < i)
    <3>1. k - Len(front) \in 1..(Len(list) - i) /\ i + (k - Len(front)) = k + 1 /\ ~ (k <= Len(front))
      BY <1>1, <1>2, <2>3
    <3>2. rest[k] = back[k - Len(front)]
      BY <1>5, <2>1, <3>1
    <3>3. back[k - Len(front)] = list[k + 1]
      BY <1>3, <3>1
    <3> QED BY <1>1, <2>3, <3>2, <3>3
  <2> QED BY <2>2, <2>3
<1>8. \A k, m \in 1..(Len(list) - 1) : k # m => from(k) # from(m)
  BY <1>1
<1> HIDE DEF from
<1>9. Range(rest) \subseteq Range(list)
  BY <1>1, <1>6, <1>7 DEF Range
<1>10. ActiveAndApart(list, f) => ActiveAndApart(rest, f)
  <2> SUFFICES ASSUME ActiveAndApart(list, f) PROVE ActiveAndApart(rest, f)
    OBVIOUS
  <2>1. \A k \in 1..(Len(list) - 1) : f[rest[k]].state = "activated"
    BY <1>1, <1>7 DEF ActiveAndApart
  <2>2. ASSUME NEW k \in 1..(Len(list) - 1), NEW m \in 1..(Len(list) - 1), k # m
        PROVE  f[rest[k]].ip # f[rest[m]].ip
    <3>1. /\ from(k) \in DOMAIN list /\ from(m) \in DOMAIN list /\ from(k) # from(m)
          /\ rest[k] = list[from(k)] /\ rest[m] = list[from(m)]
      BY <1>1, <1>7, <1>8, <2>2
    <3> QED BY <3>1 DEF ActiveAndApart
  <2> QED BY <1>6, <2>1, <2>2 DEF ActiveAndApart
<1> QED BY <1>5, <1>9, <1>10, <1>6 DEF rest

\* What the table shows when it has been rendered.
LEMMA RenderedShape ==
    ASSUME page' = Rendered, discoveredList' \in Seq(Rows), row' \in [Rows -> Fields]
    PROVE  /\ page' \in Seq(States \cup {"added"})
           /\ Len(page') = Len(discoveredList') /\ DOMAIN page' = DOMAIN discoveredList'
           /\ \A i \in DOMAIN page' :
                 /\ page'[i] = "activated" => row'[discoveredList'[i]].state = "activated"
                 /\ page'[i] = "auth_failed" =>
                        /\ row'[discoveredList'[i]].state = "auth_failed"
                        /\ discoveredList'[i] \notin Range(addedDevices')
<1> DEFINE shown == page'
<1>1. DOMAIN discoveredList' = 1..Len(discoveredList') /\ Len(discoveredList') \in Nat
  OBVIOUS
<1>2. DOMAIN page' = DOMAIN discoveredList'
  BY DEF Rendered
<1>3. \A i \in DOMAIN discoveredList' :
        /\ discoveredList'[i] \in Rows
        /\ row'[discoveredList'[i]].state \in States
  BY DEF Fields
<1>4. \A i \in DOMAIN discoveredList' :
        /\ page'[i] \in States \cup {"added"}
        /\ page'[i] # "added" => page'[i] = row'[discoveredList'[i]].state
                                /\ ~ isCameraAlreadyAdded(discoveredList'[i], row', addedDevices')
  BY <1>3 DEF Rendered
<1>5. page' \in [1..Len(discoveredList') -> States \cup {"added"}]
  BY <1>1, <1>4 DEF Rendered
<1>6. page' \in Seq(States \cup {"added"})
  BY <1>1, <1>5
<1>7. Len(page') = Len(discoveredList')
  BY <1>1, <1>2, <1>6
<1>8. ASSUME NEW i \in DOMAIN page', page'[i] = "auth_failed"
      PROVE  discoveredList'[i] \notin Range(addedDevices')
  BY <1>2, <1>4, <1>8 DEF isCameraAlreadyAdded
<1> QED BY <1>2, <1>4, <1>6, <1>7, <1>8

\* What a login that succeeds does to the rows.
LEMMA LoggedInShape ==
    ASSUME TypeOK, NEW r \in Rows, NEW c \in Cameras
    PROVE  /\ LoggedIn(r, c) \in [Rows -> Fields]
           /\ LoggedIn(r, c)[r] = [ip |-> row[r].ip, state |-> "activated", answer |-> c]
           /\ \A s \in Rows \ {r} : LoggedIn(r, c)[s] = row[s]
<1>1. row \in [Rows -> Fields] /\ row[r] \in Fields
  BY DEF TypeOK
<1>2. LoggedIn(r, c)[r] = [ip |-> row[r].ip, state |-> "activated", answer |-> c]
  BY <1>1 DEF LoggedIn, Fields
<1>3. \A s \in Rows \ {r} : LoggedIn(r, c)[s] = row[s]
  BY <1>1 DEF LoggedIn
<1>4. LoggedIn(r, c)[r] \in Fields
  BY <1>1, <1>2 DEF Fields, States
<1>5. LoggedIn(r, c) \in [Rows -> Fields]
  BY <1>1, <1>3, <1>4 DEF LoggedIn
<1> QED BY <1>2, <1>3, <1>5

\* The rows when the probe of row r has failed.
Failed(r) == [row EXCEPT ![r].state = "auth_failed"]

\* ... and what that does to them.
LEMMA FailedShape ==
    ASSUME TypeOK, NEW r \in Rows
    PROVE  /\ Failed(r) \in [Rows -> Fields]
           /\ Failed(r)[r] = [ip |-> row[r].ip, state |-> "auth_failed", answer |-> row[r].answer]
           /\ \A s \in Rows \ {r} : Failed(r)[s] = row[s]
<1>1. row \in [Rows -> Fields] /\ row[r] \in Fields
  BY DEF TypeOK
<1>2. Failed(r)[r] = [ip |-> row[r].ip, state |-> "auth_failed", answer |-> row[r].answer]
  BY <1>1 DEF Failed, Fields
<1>3. \A s \in Rows \ {r} : Failed(r)[s] = row[s]
  BY <1>1 DEF Failed
<1>4. Failed(r)[r] \in Fields
  BY <1>1, <1>2 DEF Fields, States
<1>5. Failed(r) \in [Rows -> Fields]
  BY <1>1, <1>3, <1>4 DEF Failed
<1> QED BY <1>2, <1>3, <1>5

\* What the worker of a probe does next: it takes the next row, or it ends.
LEMMA NextProbeShape ==
    ASSUME TypeOK, NEW p \in probes, NEW f \in [Rows -> Fields], NextProbe(p, f)
    PROVE  \/ /\ cursor < Len(discoveredList) /\ cursor' = cursor + 1
              /\ discoveredList[cursor + 1] \in Rows
              /\ row' \in [Rows -> Fields]
              /\ row'[discoveredList[cursor + 1]] =
                    [f[discoveredList[cursor + 1]] EXCEPT !.state = "authenticating"]
              /\ \A s \in Rows \ {discoveredList[cursor + 1]} : row'[s] = f[s]
              /\ probes' = (probes \ {p}) \cup
                    {[index |-> cursor + 1, ip |-> f[discoveredList[cursor + 1]].ip]}
              /\ search' = search
           \/ /\ cursor = Len(discoveredList) /\ cursor' = cursor /\ row' = f
              /\ probes' = probes \ {p}
              /\ search' = IF probes' = {} THEN "ready" ELSE search
<1>1. cursor \in Nat /\ Len(discoveredList) \in Nat /\ cursor <= Len(discoveredList)
  BY DEF TypeOK
<1>2. CASE cursor < Len(discoveredList)
  <2> DEFINE r == discoveredList[cursor + 1]
  <2>1. r \in Rows
    BY <1>1, <1>2 DEF TypeOK
  <2>2. /\ cursor' = cursor + 1 /\ row' = [f EXCEPT ![r].state = "authenticating"]
        /\ probes' = (probes \ {p}) \cup {[index |-> cursor', ip |-> f[r].ip]}
        /\ search' = search
    BY <1>2 DEF NextProbe
  <2>3. f[r] \in Fields
    BY <2>1
  <2>4. row'[r] = [f[r] EXCEPT !.state = "authenticating"] /\ row'[r] \in Fields
    BY <2>1, <2>2, <2>3 DEF Fields, States
  <2>5. \A s \in Rows \ {r} : row'[s] = f[s]
    BY <2>2
  <2>6. row' \in [Rows -> Fields]
    BY <2>2, <2>4, <2>5
  <2> QED BY <1>2, <2>1, <2>2, <2>4, <2>5, <2>6
<1>3. CASE ~ (cursor < Len(discoveredList))
  BY <1>1, <1>3 DEF NextProbe
<1> QED BY <1>2, <1>3

\* The rows and the first probes of a search that found something.
LEMMA FoundShape ==
    ASSUME TypeOK, SearchFound
    PROVE  LET found == Findings[searches + 1] IN
           /\ searches' \in 0..Len(Findings) /\ search' = "sweeping"
           /\ found \in Seq(Cameras) /\ IsInjective(found) /\ Len(found) \in Nat \ {0}
           /\ discoveredList' \in Seq(Rows) /\ Len(discoveredList') = Len(found)
           /\ \A i \in 1..Len(found) : discoveredList'[i] = <<searches + 1, found[i]>>
                                       /\ discoveredList'[i] \in Rows /\ found[i] \in Cameras
           /\ cursor' \in 1..Len(found)
           /\ probes' = {[index |-> i, ip |-> found[i]] : i \in 1..cursor'}
           /\ row' \in [Rows -> Fields]
           /\ \A r \in Rows : row'[r] =
                IF \E i \in 1..cursor' : r = discoveredList'[i]
                  THEN [ip |-> r[2], state |-> "authenticating", answer |-> None]
                ELSE IF r \in everyone \cup {l.row : l \in logins} THEN row[r]
                ELSE [ip |-> r[2], state |-> "pending", answer |-> None]
<1> DEFINE found == Findings[searches + 1]
<1>1. searches \in Nat /\ Len(Findings) \in Nat /\ searches < Len(Findings)
      /\ DOMAIN Findings = 1..Len(Findings)
  BY FindingsAssumption DEF TypeOK, SearchFound
<1>2. searches + 1 \in DOMAIN Findings
  BY <1>1
<1>3. found \in Seq(Cameras) /\ found # <<>> /\ IsInjective(found)
  <2>1. found \in Seq(Cameras) \ {<<>>}
    BY <1>1, <1>2, FindingsAssumption
  <2>2. IsInjective(found)
    BY <1>2, FindingsAssumption
  <2> QED BY <2>1, <2>2
<1>4. Len(found) \in Nat \ {0} /\ DOMAIN found = 1..Len(found) /\ \A i \in 1..Len(found) : found[i] \in Cameras
  BY <1>3
<1>5. /\ discoveredList' = [i \in DOMAIN found |-> <<searches + 1, found[i]>>]
      /\ cursor' = Least(Workers, Len(found))
      /\ probes' = {[index |-> i, ip |-> found[i]] : i \in 1..cursor'}
      /\ row' = [r \in Rows |-> IF \E i \in 1..cursor' : r = discoveredList'[i]
                                THEN [Fresh(r) EXCEPT !.state = "authenticating"]
                                ELSE IF r \in everyone \cup {l.row : l \in logins}
                                THEN row[r] ELSE Fresh(r)]
      /\ searches' = searches + 1 /\ search' = "sweeping"
  BY DEF SearchFound
<1> HIDE DEF found
<1>6. /\ \A i \in 1..Len(found) : discoveredList'[i] = <<searches + 1, found[i]>>
                                  /\ discoveredList'[i] \in Rows
      /\ discoveredList' \in [1..Len(found) -> Rows]
  BY <1>2, <1>4, <1>5 DEF Rows
<1>7. discoveredList' \in Seq(Rows) /\ Len(discoveredList') = Len(found)
  BY <1>4, <1>6
<1>8. cursor' \in 1..Len(found)
  BY <1>4, <1>5, NumberAssumption DEF Least
<1>9. ASSUME NEW r \in Rows
      PROVE  /\ row'[r] =
                IF \E i \in 1..cursor' : r = discoveredList'[i]
                  THEN [ip |-> r[2], state |-> "authenticating", answer |-> None]
                ELSE IF r \in everyone \cup {l.row : l \in logins} THEN row[r]
                ELSE [ip |-> r[2], state |-> "pending", answer |-> None]
             /\ row'[r] \in Fields
  <2>1. r[2] \in Cameras /\ row[r] \in Fields
    BY DEF Rows, TypeOK
  <2>2. row'[r] =
                IF \E i \in 1..cursor' : r = discoveredList'[i]
                  THEN [ip |-> r[2], state |-> "authenticating", answer |-> None]
                ELSE IF r \in everyone \cup {l.row : l \in logins} THEN row[r]
                ELSE [ip |-> r[2], state |-> "pending", answer |-> None]
    <3>1. Fresh(r) = [ip |-> r[2], state |-> "pending", answer |-> None]
          /\ [Fresh(r) EXCEPT !.state = "authenticating"]
                = [ip |-> r[2], state |-> "authenticating", answer |-> None]
      BY DEF Fresh
    <3> QED BY <1>5, <3>1
  <2> QED BY <2>1, <2>2 DEF Fields, States
<1>10. row' \in [Rows -> Fields]
  BY <1>5, <1>9
<1>11. searches' \in 0..Len(Findings)
  BY <1>1, <1>5
<1> QED BY <1>3, <1>4, <1>5, <1>6, <1>7, <1>8, <1>9, <1>10, <1>11 DEF found

\* The rows behind the answer of one login.
LEMMA OneAnswerRow ==
    ASSUME TypeOK, NEW login \in logins
    PROVE  LET g == [LoggedIn(login.row, login.ip) EXCEPT ![login.row].ip = login.ip] IN
           /\ g \in [Rows -> Fields]
           /\ g[login.row] = [ip |-> login.ip, state |-> "activated", answer |-> login.ip]
           /\ \A s \in Rows \ {login.row} : g[s] = row[s]
<1> DEFINE h == LoggedIn(login.row, login.ip)
<1>1. login.row \in Rows /\ login.ip \in Cameras
  BY DEF TypeOK
<1>2. /\ h \in [Rows -> Fields]
      /\ h[login.row] = [ip |-> row[login.row].ip, state |-> "activated", answer |-> login.ip]
      /\ \A s \in Rows \ {login.row} : h[s] = row[s]
  BY <1>1, LoggedInShape
<1> HIDE DEF h
<1> DEFINE g == [h EXCEPT ![login.row].ip = login.ip]
<1>3. g[login.row] = [ip |-> login.ip, state |-> "activated", answer |-> login.ip]
  BY <1>1, <1>2
<1>4. \A s \in Rows \ {login.row} : g[s] = row[s]
  BY <1>2
<1>5. g[login.row] \in Fields
  BY <1>1, <1>3 DEF Fields, States
<1>6. g \in [Rows -> Fields]
  BY <1>2, <1>4, <1>5
<1> QED BY <1>3, <1>4, <1>6 DEF h

\* A sort keeps the rows.
LEMMA SortShape ==
    ASSUME TypeOK, SortRows
    PROVE  /\ discoveredList' \in Seq(Rows) /\ Len(discoveredList') = Len(discoveredList)
           /\ \A i \in DOMAIN discoveredList' : \E j \in DOMAIN discoveredList :
                 discoveredList'[i] = discoveredList[j]
           /\ IsInjective(discoveredList) => IsInjective(discoveredList')
<1> DEFINE n == Len(discoveredList)
<1>1. n \in Nat /\ DOMAIN discoveredList = 1..n /\ \A i \in 1..n : discoveredList[i] \in Rows
  BY DEF TypeOK
<1>2. PICK p \in Bijection(DOMAIN discoveredList, DOMAIN discoveredList) :
         discoveredList' = [i \in DOMAIN discoveredList |-> discoveredList[p[i]]]
  BY DEF SortRows
<1>3. /\ \A i \in 1..n : p[i] \in 1..n
      /\ \A i, j \in 1..n : p[i] = p[j] => i = j
  BY <1>1, <1>2 DEF Bijection, Injection, IsInjective
<1>4. discoveredList' \in [1..n -> Rows] /\ \A i \in 1..n : discoveredList'[i] = discoveredList[p[i]]
  BY <1>1, <1>2, <1>3
<1>5. discoveredList' \in Seq(Rows) /\ Len(discoveredList') = n /\ DOMAIN discoveredList' = 1..n
  BY <1>1, <1>4
<1>6. IsInjective(discoveredList) => IsInjective(discoveredList')
  BY <1>1, <1>3, <1>4, <1>5 DEF IsInjective
<1>7. \A i \in DOMAIN discoveredList' : \E j \in DOMAIN discoveredList : discoveredList'[i] = discoveredList[j]
  BY <1>1, <1>3, <1>4, <1>5
<1> QED BY <1>5, <1>6, <1>7

\* What moveToAdded does to the channel list and to the page.
LEMMA MoveShape ==
    ASSUME TypeOK, NEW i, moveToAdded(i)
    PROVE  /\ addedDevices' \in Seq(Rows)
           /\ addedDevices' = addedDevices \/ Len(addedDevices') <= MAX_CHANNELS
           /\ \/ addedDevices' = addedDevices /\ page' = page
              \/ /\ i \in DOMAIN discoveredList /\ page' = Rendered
                 /\ Range(addedDevices') \subseteq Range(addedDevices) \cup {discoveredList[i]}
                 /\ ActiveAndApart(addedDevices, row') /\ row'[discoveredList[i]].state = "activated"
                      => ActiveAndApart(addedDevices', row')
<1>1. CASE /\ i \in DOMAIN discoveredList /\ page' = Rendered
           /\ addedDevices' = Push(discoveredList[i], row', addedDevices)
  <2>1. discoveredList[i] \in Rows /\ addedDevices \in Seq(Rows) /\ MAX_CHANNELS \in Nat
    BY <1>1 DEF TypeOK
  <2> QED BY <1>1, <2>1, PushShape
<1>2. CASE addedDevices' = addedDevices /\ page' = page
  BY <1>2 DEF TypeOK
<1> QED BY <1>1, <1>2 DEF moveToAdded

\* The page as it is loaded.
LEMMA InitType == Init => TypeOK
<1> SUFFICES ASSUME Init PROVE TypeOK
  OBVIOUS
<1>1. \A r \in Rows : Fresh(r) \in Fields
  BY DEF Fresh, Fields, States, Rows
<1>2. row \in [Rows -> Fields]
  BY <1>1 DEF Init
<1>3. discoveredList \in Seq(Rows) /\ addedDevices \in Seq(Rows) /\ page \in Seq(States \cup {"added"})
      /\ Len(discoveredList) = 0
  BY DEF Init
<1>4. searches \in 0..Len(Findings) /\ cursor \in 0..Len(discoveredList) /\ MAX_CHANNELS \in Nat
  BY <1>3, NumberAssumption, FindingsAssumption DEF Init
<1>5. ready \in BOOLEAN /\ crossed \in BOOLEAN
  BY DEF Init
<1>6. /\ page = <<>> /\ search = "ready" /\ dialogue \in Int
      /\ probes = {} /\ logins = {} /\ everyone = {}
  BY DEF Init, Closed
<1> QED BY <1>2, <1>3, <1>4, <1>5, <1>6 DEF TypeOK

\* Every step keeps the shape.
LEMMA TypeKept == TypeOK /\ [Next]_vars => TypeOK'
<1> SUFFICES ASSUME TypeOK, [Next]_vars PROVE TypeOK'
  OBVIOUS
<1> USE DEF sweep, box
<1>1. CASE LoadCheckSetup
  BY <1>1, NumberAssumption DEF LoadCheckSetup, TypeOK
<1>2. CASE startSmartDiscovery
  BY <1>2 DEF startSmartDiscovery, TypeOK
<1>3. CASE SearchFailed
  BY <1>3 DEF SearchFailed, TypeOK
<1>4. CASE SearchFound
  <2> DEFINE found == Findings[searches + 1]
  <2>1. /\ page' = Rendered /\ addedDevices' = <<>> /\ crossed' \in BOOLEAN
        /\ MAX_CHANNELS' = MAX_CHANNELS /\ dialogue' = dialogue /\ ready' = ready
        /\ logins' = logins /\ everyone' = everyone
    BY <1>4 DEF SearchFound, TypeOK
  <2>2. /\ discoveredList' \in Seq(Rows) /\ row' \in [Rows -> Fields]
        /\ cursor' \in 1..Len(discoveredList') /\ Len(discoveredList') \in Nat
        /\ probes' = {[index |-> i, ip |-> found[i]] : i \in 1..cursor'}
        /\ \A i \in 1..Len(discoveredList') : found[i] \in Cameras
        /\ searches' \in 0..Len(Findings) /\ search' = "sweeping"
    BY <1>4, FoundShape
  <2>3. page' \in Seq(States \cup {"added"}) /\ Len(page') = Len(discoveredList')
    BY <2>1, <2>2, RenderedShape
  <2>4. probes' \subseteq [index : 1..cursor', ip : Cameras]
    BY <2>2
  <2> QED BY <2>1, <2>2, <2>3, <2>4, SMTT(30) DEF TypeOK
<1>5. ASSUME NEW p \in probes, ProbeAnswer(p) PROVE TypeOK'
  <2> DEFINE r == discoveredList[p.index]
  <2>1. p.index \in 1..cursor /\ p.ip \in Cameras /\ r \in Rows /\ p.index \in DOMAIN discoveredList
    BY DEF TypeOK
  <2>2. /\ discoveredList' = discoveredList /\ page' = Rendered
        /\ UNCHANGED <<MAX_CHANNELS, searches, box, logins, everyone, crossed>>
    BY <1>5 DEF ProbeAnswer
  <2>3. PICK f \in [Rows -> Fields] : NextProbe(p, f) /\ addedDevices' \in Seq(Rows)
    <3>1. CASE NextProbe(p, LoggedIn(r, p.ip)) /\ addedDevices' = Push(r, LoggedIn(r, p.ip), addedDevices)
      BY <2>1, <3>1, LoggedInShape, PushShape DEF TypeOK
    <3>2. CASE NextProbe(p, [row EXCEPT ![r].state = "auth_failed"]) /\ UNCHANGED addedDevices
      <4>1. NextProbe(p, Failed(r))
        BY <3>2 DEF Failed
      <4> QED BY <2>1, <3>2, <4>1, FailedShape DEF TypeOK
    <3> QED BY <1>5, <3>1, <3>2 DEF ProbeAnswer
  <2>4. /\ row' \in [Rows -> Fields] /\ cursor' \in 0..Len(discoveredList)
        /\ probes' \subseteq [index : 1..cursor', ip : Cameras]
        /\ search' \in {"ready", "searching", "sweeping"}
    <3>1. CASE /\ cursor < Len(discoveredList) /\ cursor' = cursor + 1
               /\ discoveredList[cursor + 1] \in Rows
               /\ row' \in [Rows -> Fields]
               /\ probes' = (probes \ {p}) \cup
                    {[index |-> cursor + 1, ip |-> f[discoveredList[cursor + 1]].ip]}
               /\ search' = search
      <4>1. f[discoveredList[cursor + 1]].ip \in Cameras
        BY <2>3, <3>1 DEF Fields
      <4>2. cursor \in Nat /\ Len(discoveredList) \in Nat
        BY DEF TypeOK
      <4>3. 1..cursor \subseteq 1..(cursor + 1) /\ cursor + 1 \in 1..(cursor + 1) /\ cursor + 1 \in 0..Len(discoveredList)
        BY <3>1, <4>2
      <4> QED BY <3>1, <4>1, <4>3 DEF TypeOK
    <3>2. CASE /\ cursor' = cursor /\ row' = f
               /\ probes' = probes \ {p}
               /\ search' = IF probes' = {} THEN "ready" ELSE search
      BY <2>3, <3>2 DEF TypeOK
    <3> QED BY <2>3, <3>1, <3>2, NextProbeShape
  <2>5. page' \in Seq(States \cup {"added"}) /\ Len(page') = Len(discoveredList')
    BY <2>2, <2>4, RenderedShape DEF TypeOK
  <2> QED BY <2>2, <2>3, <2>4, <2>5 DEF TypeOK
<1>6. ASSUME NEW i \in DOMAIN page, ClickAdd(i) PROVE TypeOK'
  <2>1. /\ discoveredList' = discoveredList /\ row' = row /\ moveToAdded(i) /\ crossed' \in BOOLEAN
        /\ UNCHANGED <<MAX_CHANNELS, sweep, box, logins, everyone>>
    BY <1>6 DEF ClickAdd, TypeOK
  <2>2. addedDevices' \in Seq(Rows) /\ (page' = page \/ page' = Rendered)
    BY <2>1, MoveShape
  <2>3. page' \in Seq(States \cup {"added"}) /\ (page' = <<>> \/ Len(page') = Len(discoveredList'))
    BY <2>1, <2>2, RenderedShape DEF TypeOK
  <2> QED BY <2>1, <2>2, <2>3 DEF TypeOK
<1>7. ASSUME NEW i \in DOMAIN page, promptPassword(i) PROVE TypeOK'
  BY <1>7 DEF promptPassword, TypeOK
<1>8. CASE addAllSelected
  <2>1. PICK ticked \in SUBSET DOMAIN page : addedDevices' = AddTicked(ticked)[Len(page)]
    BY <1>8 DEF addAllSelected
  <2>2. addedDevices' \in Seq(Rows)
    BY <2>1, AddTickedShape
  <2>3. /\ discoveredList' = discoveredList /\ row' = row /\ page' = Rendered /\ crossed' \in BOOLEAN
        /\ UNCHANGED <<MAX_CHANNELS, sweep, box, logins, everyone>>
    BY <1>8 DEF addAllSelected, TypeOK
  <2>4. page' \in Seq(States \cup {"added"}) /\ Len(page') = Len(discoveredList')
    BY <2>3, RenderedShape DEF TypeOK
  <2> QED BY <2>2, <2>3, <2>4 DEF TypeOK
<1>9. ASSUME NEW i \in DOMAIN addedDevices, removeAddedDevice(i) PROVE TypeOK'
  <2>1. /\ discoveredList' = discoveredList /\ row' = row /\ page' = Rendered
        /\ addedDevices' = RemoveAt(addedDevices, i)
        /\ UNCHANGED <<MAX_CHANNELS, sweep, box, logins, everyone, crossed>>
    BY <1>9 DEF removeAddedDevice
  <2>2. addedDevices' \in Seq(Rows)
    BY <2>1, RemoveAtShape DEF TypeOK
  <2>3. page' \in Seq(States \cup {"added"}) /\ Len(page') = Len(discoveredList')
    BY <2>1, RenderedShape DEF TypeOK
  <2> QED BY <2>1, <2>2, <2>3 DEF TypeOK
<1>10. CASE openUniversalPasswordModal
  BY <1>10 DEF openUniversalPasswordModal, TypeOK, Everyone
<1>11. CASE Cancel
  BY <1>11 DEF Cancel, TypeOK, Closed
<1>12. CASE SubmitOne
  <2>1. logins' \subseteq [row : Rows, index : Nat, ip : Cameras] /\ crossed' \in BOOLEAN /\ ready' = FALSE
    <3>1. CASE dialogue \in DOMAIN discoveredList
      <4>1. discoveredList[dialogue] \in Rows /\ dialogue \in Nat
        BY <3>1 DEF TypeOK
      <4>2. PICK ip \in Cameras :
               logins' = logins \cup {[row |-> discoveredList[dialogue], index |-> dialogue, ip |-> ip]}
        BY <1>12, <3>1 DEF SubmitOne
      <4>3. crossed' \in BOOLEAN /\ ready' = FALSE
        BY <1>12, <3>1 DEF SubmitOne, TypeOK
      <4> QED BY <4>1, <4>2, <4>3 DEF TypeOK
    <3>2. CASE dialogue \notin DOMAIN discoveredList
      BY <1>12, <3>2 DEF SubmitOne, TypeOK
    <3> QED BY <3>1, <3>2
  <2> QED BY <1>12, <2>1 DEF SubmitOne, TypeOK
<1>13. CASE SubmitEveryone
  <2>1. everyone' \subseteq Rows
    BY <1>13 DEF SubmitEveryone, TypeOK, Range
  <2>2. dialogue' \in Int /\ crossed' \in BOOLEAN /\ ready' = FALSE
    BY <1>13 DEF SubmitEveryone, TypeOK, Closed
  <2> QED BY <1>13, <2>1, <2>2 DEF SubmitEveryone, TypeOK
<1>14. ASSUME NEW login \in logins, OneAnswer(login) PROVE TypeOK'
  <2>1. /\ logins' = logins \ {login} /\ UNCHANGED <<discoveredList, MAX_CHANNELS, sweep, everyone, crossed>>
    BY <1>14 DEF OneAnswer
  <2>2. CASE /\ row' = [LoggedIn(login.row, login.ip) EXCEPT ![login.row].ip = login.ip]
             /\ dialogue' = Closed /\ UNCHANGED ready /\ moveToAdded(login.index)
    <3>1. row' \in [Rows -> Fields]
      BY <2>2, OneAnswerRow
    <3>2. addedDevices' \in Seq(Rows) /\ (page' = page \/ page' = Rendered)
      BY <2>2, MoveShape
    <3>3. page' \in Seq(States \cup {"added"}) /\ (page' = <<>> \/ Len(page') = Len(discoveredList'))
      BY <2>1, <3>1, <3>2, RenderedShape DEF TypeOK
    <3> QED BY <2>1, <2>2, <3>1, <3>2, <3>3 DEF TypeOK, Closed
  <2>3. CASE ready' = TRUE /\ UNCHANGED <<discoveredList, addedDevices, row, page, dialogue>>
    BY <2>1, <2>3 DEF TypeOK
  <2> QED BY <1>14, <2>2, <2>3 DEF OneAnswer
<1>15. ASSUME NEW r \in everyone, EveryoneAnswer(r) PROVE TypeOK'
  <2>1. everyone' = everyone \ {r} /\ UNCHANGED <<MAX_CHANNELS, sweep, ready, logins>>
    BY <1>15 DEF EveryoneAnswer
  <2>2. row' \in [Rows -> Fields] /\ addedDevices' \in Seq(Rows)
    <3>1. r \in Rows /\ row[r].ip \in Cameras
      BY DEF TypeOK, Fields
    <3>2. CASE row' = LoggedIn(r, row[r].ip) /\ addedDevices' = Push(r, row', addedDevices)
      BY <3>1, <3>2, LoggedInShape, PushShape DEF TypeOK
    <3>3. CASE UNCHANGED <<row, addedDevices>>
      BY <3>3 DEF TypeOK
    <3> QED BY <1>15, <3>2, <3>3 DEF EveryoneAnswer
  <2>3. CASE everyone' = {}
    <3>1. SortRows /\ dialogue' = Closed /\ page' = Rendered /\ crossed' \in BOOLEAN
      BY <1>15, <2>3 DEF EveryoneAnswer, TypeOK
    <3>2. discoveredList' \in Seq(Rows) /\ Len(discoveredList') = Len(discoveredList)
      BY <3>1, SortShape
    <3>3. page' \in Seq(States \cup {"added"}) /\ Len(page') = Len(discoveredList')
      BY <2>2, <3>1, <3>2, RenderedShape
    <3> QED BY <2>1, <2>2, <3>1, <3>2, <3>3 DEF TypeOK, Closed
  <2>4. CASE everyone' # {}
    BY <1>15, <2>1, <2>2, <2>4 DEF EveryoneAnswer, TypeOK
  <2> QED BY <2>3, <2>4
<1>16. CASE UNCHANGED vars
  BY <1>16 DEF vars, TypeOK
<1> QED BY <1>1, <1>2, <1>3, <1>4, <1>5, <1>6, <1>7, <1>8, <1>9, <1>10, <1>11, <1>12, <1>13, <1>14,
           <1>15, <1>16 DEF Next, Answer

\* The row at index i has been logged in to, or has refused.
Settled(i) == row[discoveredList[i]].state \in {"activated", "auth_failed"}

\* The sweep has answered for the rows up to the cursor, apart from those of
\* its probes in flight, and for no other.
SweepInOrder ==
    /\ \A p \in probes : /\ row[discoveredList[p.index]].state = "authenticating"
                         /\ row[discoveredList[p.index]].ip = p.ip
    /\ \A p, q \in probes : p.index = q.index => p = q
    /\ \A i \in 1..cursor : Settled(i) \/ \E p \in probes : p.index = i
    /\ \A i \in (cursor + 1)..Len(discoveredList) : row[discoveredList[i]].state = "pending"
    /\ search = "sweeping" <=> probes # {}
    /\ search # "sweeping" => cursor = Len(discoveredList)

\* An activated row holds the answer of the camera at its address, any other
\* row none.
RowsAnswered ==
    \A r \in Rows : row[r].answer = IF row[r].state = "activated" THEN row[r].ip ELSE None

\* A login in flight holds the index of its row, which is in no channel; the
\* rows of a login to all of them have failed.
LoginsInOrder ==
    /\ \A l, m \in logins : l = m
    /\ logins # {} => everyone = {}
    /\ \A l \in logins :
         /\ l.index \in DOMAIN discoveredList /\ discoveredList[l.index] = l.row
         /\ Settled(l.index)
         /\ l.row \notin Range(addedDevices)
    /\ \A r \in everyone : row[r].state = "auth_failed"

\* A password may be asked for row i.
Askable(i) ==
    Settled(i) /\ (everyone = {} => discoveredList[i] \notin Range(addedDevices))

\* The page may be behind the rows, in this direction only.
PageInOrder ==
    /\ \A i \in DOMAIN page :
         /\ page[i] = "activated" => row[discoveredList[i]].state = "activated"
         /\ page[i] = "auth_failed" => Askable(i)
    /\ dialogue > 0 => dialogue \in DOMAIN discoveredList /\ Askable(dialogue)

\* What holds while the operator waits for a request before the next.
Waited ==
    /\ IsInjective(discoveredList) /\ SweepInOrder /\ RowsAnswered
    /\ ActiveAndApart(addedDevices, row) /\ LoginsInOrder /\ PageInOrder

\* The inductive invariant.
Inductive == TypeOK /\ (crossed \/ Waited)

\* A row that is not activated is in no channel.
LEMMA OnlyActivated ==
    ASSUME ActiveAndApart(addedDevices, row), NEW r, row[r].state # "activated"
    PROVE  r \notin Range(addedDevices)
  BY DEF ActiveAndApart, Range

\* What a step that renders the page shows is in order.
LEMMA RenderedInOrder ==
    ASSUME page' = Rendered, TypeOK', dialogue' = Closed \/ dialogue' = Everyone
    PROVE  PageInOrder'
<1>1. /\ DOMAIN page' = DOMAIN discoveredList'
      /\ \A i \in DOMAIN page' :
           /\ page'[i] = "activated" => row'[discoveredList'[i]].state = "activated"
           /\ page'[i] = "auth_failed" =>
                  /\ row'[discoveredList'[i]].state = "auth_failed"
                  /\ discoveredList'[i] \notin Range(addedDevices')
  BY RenderedShape DEF TypeOK
<1>2. ~ (dialogue' > 0)
  BY DEF Closed, Everyone
<1> QED BY <1>1, <1>2 DEF PageInOrder, Askable, Settled

\* The steps of the operator on the channel list.
LEMMA ListStepKeeps ==
    ASSUME TypeOK, TypeOK', Waited,
           UNCHANGED <<discoveredList, row, sweep, box, logins, everyone>>, OnPage,
           ActiveAndApart(addedDevices', row),
           ~ AddedUnderLogin,
           page' = Rendered \/ (page' = page /\ addedDevices' = addedDevices)
    PROVE  Waited'
<1>1. IsInjective(discoveredList)' /\ SweepInOrder' /\ RowsAnswered'
  BY DEF Waited, SweepInOrder, RowsAnswered, Settled, sweep
<1>2. ActiveAndApart(addedDevices, row)'
  BY DEF ActiveAndApart
<1>3. LoginsInOrder'
  BY DEF Waited, LoginsInOrder, Settled, AddedUnderLogin
<1>4. PageInOrder'
  <2>1. CASE page' = Rendered
    BY <2>1, RenderedInOrder DEF OnPage, box
  <2>2. CASE page' = page /\ addedDevices' = addedDevices
    BY <2>2 DEF Waited, PageInOrder, Askable, Settled, box
  <2> QED BY <2>1, <2>2
<1> QED BY <1>1, <1>2, <1>3, <1>4 DEF Waited

\* The Add button adds a row that is activated, which its row on the page said.
LEMMA ClickAddKeeps ==
    ASSUME TypeOK, TypeOK', Waited, NEW i \in DOMAIN page, ClickAdd(i), ~ crossed'
    PROVE  Waited'
<1>1. /\ UNCHANGED <<discoveredList, row, sweep, box, logins, everyone>> /\ OnPage
      /\ ~ AddedUnderLogin /\ moveToAdded(i) /\ page[i] = "activated"
  BY DEF ClickAdd
<1>2. row[discoveredList[i]].state = "activated" /\ ActiveAndApart(addedDevices, row)
  BY <1>1 DEF Waited, PageInOrder
<1>3. /\ ActiveAndApart(addedDevices', row)
      /\ page' = Rendered \/ (page' = page /\ addedDevices' = addedDevices)
  BY <1>1, <1>2, MoveShape
<1> QED BY <1>1, <1>3, ListStepKeeps

\* The ticked rows are added one by one, each only if it is activated.
LEMMA AddAllKeeps ==
    ASSUME TypeOK, TypeOK', Waited, addAllSelected, ~ crossed'
    PROVE  Waited'
<1>1. /\ UNCHANGED <<discoveredList, row, sweep, box, logins, everyone>> /\ OnPage
      /\ ~ AddedUnderLogin /\ page' = Rendered
  BY DEF addAllSelected
<1>2. PICK ticked \in SUBSET DOMAIN page : addedDevices' = AddTicked(ticked)[Len(page)]
  BY DEF addAllSelected
<1>3. ActiveAndApart(addedDevices', row)
  BY <1>2, AddTickedShape DEF Waited
<1> QED BY <1>1, <1>3, ListStepKeeps

\* A removal makes no row of a login in flight a channel.
LEMMA RemoveKeeps ==
    ASSUME TypeOK, TypeOK', Waited, NEW i \in DOMAIN addedDevices, removeAddedDevice(i), ~ crossed'
    PROVE  Waited'
<1>1. /\ UNCHANGED <<discoveredList, row, sweep, box, logins, everyone>> /\ OnPage
      /\ page' = Rendered /\ addedDevices' = RemoveAt(addedDevices, i)
  BY DEF removeAddedDevice
<1>2. /\ Range(addedDevices') \subseteq Range(addedDevices)
      /\ ActiveAndApart(addedDevices', row)
  BY <1>1, RemoveAtShape DEF Waited, TypeOK
<1>3. ~ AddedUnderLogin
  BY <1>2 DEF AddedUnderLogin, Waited, LoginsInOrder
<1> QED BY <1>1, <1>2, <1>3, ListStepKeeps

\* The steps that move the dialogue or the search button only.
LEMMA QuietKeeps ==
    ASSUME TypeOK, TypeOK', Waited, ~ crossed',
           \/ LoadCheckSetup \/ startSmartDiscovery \/ SearchFailed \/ Cancel
           \/ openUniversalPasswordModal
           \/ \E i \in DOMAIN page : promptPassword(i)
           \/ UNCHANGED vars
    PROVE  Waited'
<1>1. UNCHANGED <<discoveredList, addedDevices, row, cursor, probes, logins, everyone>>
  BY DEF LoadCheckSetup, startSmartDiscovery, SearchFailed, Cancel, openUniversalPasswordModal,
         promptPassword, vars, sweep
<1>2. (search' = "sweeping" <=> search = "sweeping")
  BY DEF LoadCheckSetup, startSmartDiscovery, SearchFailed, Cancel, openUniversalPasswordModal,
         promptPassword, vars, sweep
<1>3. IsInjective(discoveredList)' /\ SweepInOrder' /\ RowsAnswered'
  BY <1>1, <1>2 DEF Waited, SweepInOrder, RowsAnswered, Settled
<1>4. ActiveAndApart(addedDevices, row)' /\ LoginsInOrder'
  BY <1>1 DEF Waited, ActiveAndApart, LoginsInOrder, Settled
<1>5. /\ \A i : Askable(i) => Askable(i)'
      /\ page' = page \/ page' = <<>>
  BY <1>1 DEF Askable, Settled, LoadCheckSetup, startSmartDiscovery, SearchFailed, Cancel,
              openUniversalPasswordModal, promptPassword, vars
<1>6. dialogue' > 0 => dialogue' = dialogue \/ (dialogue' \in DOMAIN page /\ page[dialogue'] = "auth_failed")
  BY DEF LoadCheckSetup, startSmartDiscovery, SearchFailed, Cancel, openUniversalPasswordModal,
         promptPassword, vars, box, Everyone, Closed
<1>7. page # <<>> => DOMAIN page = DOMAIN discoveredList
  BY DEF TypeOK
<1>8. PageInOrder'
  BY <1>1, <1>5, <1>6, <1>7 DEF Waited, PageInOrder
<1> QED BY <1>3, <1>4, <1>8 DEF Waited

\* A password is asked for a row that is in no channel, and for one row at a time.
LEMMA SubmitOneKeeps ==
    ASSUME TypeOK, TypeOK', Waited, SubmitOne, ~ crossed'
    PROVE  Waited'
<1>1. /\ dialogue > 0 /\ dialogue' = dialogue
      /\ UNCHANGED <<discoveredList, addedDevices, row, page, sweep, everyone>>
  BY DEF SubmitOne
<1>2. dialogue \in DOMAIN discoveredList /\ Askable(dialogue)
  BY <1>1 DEF Waited, PageInOrder
<1>3. logins = {} /\ everyone = {}
  BY <1>2 DEF SubmitOne
<1>4. PICK ip \in Cameras :
         logins' = {[row |-> discoveredList[dialogue], index |-> dialogue, ip |-> ip]}
  BY <1>2, <1>3 DEF SubmitOne
<1>5. IsInjective(discoveredList)' /\ SweepInOrder' /\ RowsAnswered' /\ ActiveAndApart(addedDevices, row)'
  BY <1>1 DEF Waited, SweepInOrder, RowsAnswered, ActiveAndApart, Settled, sweep
<1>6. LoginsInOrder'
  BY <1>1, <1>2, <1>3, <1>4 DEF LoginsInOrder, Askable, Settled
<1>7. PageInOrder'
  BY <1>1 DEF Waited, PageInOrder, Askable, Settled
<1> QED BY <1>5, <1>6, <1>7 DEF Waited

\* The login to all cameras takes the rows that have failed.
LEMMA SubmitEveryoneKeeps ==
    ASSUME TypeOK, TypeOK', Waited, SubmitEveryone, ~ crossed'
    PROVE  Waited'
<1>1. /\ UNCHANGED <<discoveredList, addedDevices, row, page, sweep, logins>>
      /\ everyone' = {r \in Range(discoveredList) : row[r].state = "auth_failed"}
      /\ everyone' = {} \/ logins = {}
      /\ everyone = {}
      /\ dialogue' = Everyone \/ dialogue' = Closed
  BY DEF SubmitEveryone
<1>2. IsInjective(discoveredList)' /\ SweepInOrder' /\ RowsAnswered' /\ ActiveAndApart(addedDevices, row)'
  BY <1>1 DEF Waited, SweepInOrder, RowsAnswered, ActiveAndApart, Settled, sweep
<1>3. LoginsInOrder'
  BY <1>1 DEF Waited, LoginsInOrder, Settled
<1>4. PageInOrder'
  BY <1>1 DEF Waited, PageInOrder, Askable, Settled, Everyone, Closed
<1> QED BY <1>2, <1>3, <1>4 DEF Waited

\* A search that finds cameras starts anew.
LEMMA SearchFoundKeeps ==
    ASSUME TypeOK, TypeOK', Waited, SearchFound, ~ crossed'
    PROVE  Waited'
<1> DEFINE found == Findings[searches + 1]
<1>1. /\ page' = Rendered /\ addedDevices' = <<>>
      /\ logins = {} /\ logins' = {} /\ everyone = {} /\ everyone' = {}
      /\ ~ (dialogue > 0) /\ dialogue' = dialogue
  BY DEF SearchFound, box
<1>2. /\ search' = "sweeping"
      /\ found \in Seq(Cameras) /\ IsInjective(found) /\ Len(found) \in Nat \ {0}
      /\ discoveredList' \in Seq(Rows) /\ Len(discoveredList') = Len(found)
      /\ \A i \in 1..Len(found) : discoveredList'[i] = <<searches + 1, found[i]>>
                                  /\ discoveredList'[i] \in Rows /\ found[i] \in Cameras
      /\ cursor' \in 1..Len(found)
      /\ probes' = {[index |-> i, ip |-> found[i]] : i \in 1..cursor'}
      /\ \A r \in Rows : row'[r] =
            IF \E i \in 1..cursor' : r = discoveredList'[i]
              THEN [ip |-> r[2], state |-> "authenticating", answer |-> None]
            ELSE [ip |-> r[2], state |-> "pending", answer |-> None]
  BY <1>1, FoundShape
<1> DEFINE n == Len(found)
           c == cursor'
<1> HIDE DEF found
<1>3. DOMAIN discoveredList' = 1..Len(found) /\ DOMAIN found = 1..Len(found)
  BY <1>2
<1>4. /\ n \in Nat /\ c \in 1..n
      /\ \A i \in 1..c : i \in 1..n
      /\ \A i \in (c + 1)..n : i \in 1..n /\ \A j \in 1..c : i # j
  <2>1. n \in Nat /\ c \in 1..n
    BY <1>2
  <2> HIDE DEF n, c
  <2> QED BY <2>1
<1>5. \A r \in Rows : row'[r] =
            IF \E i \in 1..cursor' : r = discoveredList'[i]
              THEN [ip |-> r[2], state |-> "authenticating", answer |-> None]
            ELSE [ip |-> r[2], state |-> "pending", answer |-> None]
  BY <1>2
<1>6. \A i \in 1..n : discoveredList'[i] \in Rows /\ discoveredList'[i][2] = found[i] /\ found[i] \in Cameras
  BY <1>2
<1>7. probes' = {[index |-> i, ip |-> found[i]] : i \in 1..cursor'}
  BY <1>2
<1>8. \A i, j \in 1..Len(found) : discoveredList'[i] = discoveredList'[j] => i = j
  BY <1>2, <1>3 DEF IsInjective
<1>9. IsInjective(discoveredList)'
  BY <1>3, <1>8 DEF IsInjective
<1>10. /\ \A i \in 1..cursor' : row'[discoveredList'[i]] =
            [ip |-> found[i], state |-> "authenticating", answer |-> None]
      /\ \A i \in (cursor' + 1)..Len(found) : row'[discoveredList'[i]].state = "pending"
  <2>1. ASSUME NEW i \in 1..cursor'
        PROVE  row'[discoveredList'[i]] = [ip |-> found[i], state |-> "authenticating", answer |-> None]
    BY <1>4, <1>5, <1>6, ZenonT(60)
  <2>2. ASSUME NEW i \in (cursor' + 1)..Len(found)
        PROVE  row'[discoveredList'[i]].state = "pending"
    <3>1. i \in 1..Len(found) /\ \A j \in 1..cursor' : j \in 1..Len(found) /\ i # j
      BY <1>4
    <3>2. ~ \E j \in 1..cursor' : discoveredList'[i] = discoveredList'[j]
      BY <1>8, <3>1
    <3>3. row'[discoveredList'[i]] = [ip |-> discoveredList'[i][2], state |-> "pending", answer |-> None]
      BY <1>5, <1>6, <3>1, <3>2
    <3> QED BY <3>3
  <2> QED BY <2>1, <2>2
<1>11. SweepInOrder'
  <2>1. \A i \in 1..cursor' : [index |-> i, ip |-> found[i]] \in probes'
    BY <1>7
  <2>2. \A p \in probes' : p.index \in 1..cursor' /\ p = [index |-> p.index, ip |-> found[p.index]]
    BY <1>7
  <2>3. \A p \in probes' : /\ row'[discoveredList'[p.index]].state = "authenticating"
                            /\ row'[discoveredList'[p.index]].ip = p.ip
    <3> TAKE p \in probes'
    <3>1. row'[discoveredList'[p.index]] = [ip |-> found[p.index], state |-> "authenticating", answer |-> None]
      BY <1>10, <2>2
    <3>2. p.ip = found[p.index]
      BY <2>2
    <3> QED BY <3>1, <3>2
  <2>4. \A p, q \in probes' : p.index = q.index => p = q
    <3> TAKE p, q \in probes'
    <3> HAVE p.index = q.index
    <3> QED BY <2>2
  <2>5. \A i \in 1..cursor' : \E p \in probes' : p.index = i
    BY <2>1
  <2>6. probes' # {}
    <3>1. 1 \in 1..cursor'
      BY <1>4
    <3> QED BY <2>1, <3>1
  <2>7. search' = "sweeping" /\ Len(discoveredList') = Len(found)
    BY <1>2
  <2> QED BY <1>10, <2>3, <2>4, <2>5, <2>6, <2>7 DEF SweepInOrder
<1>12. RowsAnswered'
  <2> SUFFICES ASSUME NEW r \in Rows
               PROVE  row'[r].answer = None /\ row'[r].state # "activated"
    BY DEF RowsAnswered
  <2>1. \/ row'[r] = [ip |-> r[2], state |-> "authenticating", answer |-> None]
        \/ row'[r] = [ip |-> r[2], state |-> "pending", answer |-> None]
    BY <1>5
  <2> QED BY <2>1
<1>13. ActiveAndApart(addedDevices, row)' /\ LoginsInOrder'
  BY <1>1 DEF ActiveAndApart, LoginsInOrder
<1>14. PageInOrder'
  <2>1. /\ DOMAIN page' = DOMAIN discoveredList'
        /\ \A i \in DOMAIN page' :
             /\ page'[i] = "activated" => row'[discoveredList'[i]].state = "activated"
             /\ page'[i] = "auth_failed" =>
                    /\ row'[discoveredList'[i]].state = "auth_failed"
                    /\ discoveredList'[i] \notin Range(addedDevices')
    BY <1>1, RenderedShape DEF TypeOK
  <2> QED BY <1>1, <2>1 DEF PageInOrder, Askable, Settled
<1> QED BY <1>9, <1>11, <1>12, <1>13, <1>14 DEF Waited

\* The row of a login is in no channel when its address changes.
LEMMA OneAnswerKeeps ==
    ASSUME TypeOK, TypeOK', Waited, NEW login \in logins, OneAnswer(login), ~ crossed'
    PROVE  Waited'
<1> DEFINE r == login.row
           i == login.index
<1>1. /\ logins = {login} /\ logins' = {} /\ everyone = {} /\ everyone' = {}
      /\ UNCHANGED <<discoveredList, sweep>>
  BY DEF OneAnswer, Waited, LoginsInOrder
<1>2. /\ i \in DOMAIN discoveredList /\ discoveredList[i] = r /\ Settled(i)
      /\ r \notin Range(addedDevices) /\ r \in Rows
  BY DEF Waited, LoginsInOrder, TypeOK
<1>3. CASE /\ ready' = TRUE
           /\ UNCHANGED <<addedDevices, row, page, dialogue>>
  <2>1. IsInjective(discoveredList)' /\ SweepInOrder' /\ RowsAnswered' /\ ActiveAndApart(addedDevices, row)'
    BY <1>1, <1>3 DEF Waited, SweepInOrder, RowsAnswered, ActiveAndApart, Settled, sweep
  <2>2. LoginsInOrder' /\ PageInOrder'
    BY <1>1, <1>3 DEF Waited, LoginsInOrder, PageInOrder, Askable, Settled
  <2> QED BY <2>1, <2>2 DEF Waited
<1>4. CASE /\ row' = [LoggedIn(r, login.ip) EXCEPT ![r].ip = login.ip]
           /\ dialogue' = Closed /\ UNCHANGED ready /\ moveToAdded(i)
  <2>1. /\ row' \in [Rows -> Fields]
        /\ row'[r] = [ip |-> login.ip, state |-> "activated", answer |-> login.ip]
        /\ \A s \in Rows \ {r} : row'[s] = row[s]
    BY <1>4, OneAnswerRow
  <2>2. \A j \in DOMAIN discoveredList :
           /\ discoveredList[j] \in Rows
           /\ discoveredList[j] = r => j = i
    <3>1. IsInjective(discoveredList)
      BY DEF Waited
    <3>2. \A j \in DOMAIN discoveredList : discoveredList[j] = r => j = i
      BY <1>2, <3>1 DEF IsInjective
    <3> QED BY <3>2 DEF TypeOK
  <2>3. RowsAnswered'
    BY <2>1 DEF Waited, RowsAnswered
  <2>4. /\ Len(discoveredList) \in Nat /\ DOMAIN discoveredList = 1..Len(discoveredList)
        /\ cursor \in 0..Len(discoveredList) /\ probes \subseteq [index : 1..cursor, ip : Cameras]
    BY SMTT(30) DEF TypeOK
  <2>5. SweepInOrder'
    <3>1. \A p \in probes : p.index # i /\ p.index \in DOMAIN discoveredList
      BY <1>2, <2>4 DEF Waited, SweepInOrder, Settled
    <3>2. \A p \in probes : row'[discoveredList[p.index]] = row[discoveredList[p.index]]
      BY <2>1, <2>2, <3>1
    <3>3. \A j \in 1..cursor : Settled(j) => Settled(j)'
      <4>1. \A j \in 1..cursor : j \in DOMAIN discoveredList
        BY <2>4
      <4> QED BY <1>1, <2>1, <2>2, <4>1 DEF Settled
    <3>4. \A j \in (cursor + 1)..Len(discoveredList) : j \in DOMAIN discoveredList /\ j # i
      BY <1>2, <2>4 DEF Waited, SweepInOrder, Settled
    <3>5. \A j \in (cursor + 1)..Len(discoveredList) : row'[discoveredList[j]] = row[discoveredList[j]]
      BY <2>1, <2>2, <3>4
    <3> QED BY <1>1, <3>2, <3>3, <3>5 DEF Waited, SweepInOrder, sweep
  <2>6. ActiveAndApart(addedDevices, row')
    <3>1. \A k \in DOMAIN addedDevices : addedDevices[k] \in Rows \ {r}
      BY <1>2, SMTT(30) DEF TypeOK, Range
    <3> QED BY <2>1, <3>1 DEF Waited, ActiveAndApart
  <2>7. /\ ActiveAndApart(addedDevices', row')
        /\ page' = Rendered \/ (page' = page /\ addedDevices' = addedDevices)
    BY <1>2, <1>4, <2>1, <2>6, MoveShape
  <2>8. PageInOrder'
    <3>1. CASE page' = Rendered
      BY <1>4, <3>1, RenderedInOrder
    <3>2. CASE page' = page /\ addedDevices' = addedDevices
      <4>1. \A j \in DOMAIN page : j \in DOMAIN discoveredList
        BY SMTT(30) DEF TypeOK
      <4> QED BY <1>1, <1>4, <2>1, <2>2, <3>2, <4>1 DEF Waited, PageInOrder, Askable, Settled, Closed
    <3> QED BY <2>7, <3>1, <3>2
  <2>9. IsInjective(discoveredList)' /\ LoginsInOrder'
    BY <1>1 DEF Waited, LoginsInOrder
  <2> QED BY <2>3, <2>5, <2>7, <2>8, <2>9 DEF Waited
<1> QED BY <1>3, <1>4 DEF OneAnswer

\* An answer to the sweep reaches the row that was asked, at the index it still has.
LEMMA ProbeAnswerKeeps ==
    ASSUME TypeOK, TypeOK', Waited, NEW p \in probes, ProbeAnswer(p), ~ crossed'
    PROVE  Waited'
<1> DEFINE r == discoveredList[p.index]
           n == discoveredList[cursor + 1]
<1>1. /\ UNCHANGED <<discoveredList, dialogue, logins, everyone>> /\ page' = Rendered
  BY DEF ProbeAnswer, box
<1>2. /\ Len(discoveredList) \in Nat /\ DOMAIN discoveredList = 1..Len(discoveredList)
      /\ cursor \in 0..Len(discoveredList) /\ probes \subseteq [index : 1..cursor, ip : Cameras]
      /\ \A i \in DOMAIN discoveredList : discoveredList[i] \in Rows
  BY SMTT(30) DEF TypeOK
<1>3. /\ p.index \in 1..cursor /\ p.index \in DOMAIN discoveredList /\ r \in Rows /\ p.ip \in Cameras
  BY <1>2
<1>4. /\ row[r].state = "authenticating" /\ row[r].ip = p.ip /\ row[r].answer = None
  BY <1>3 DEF Waited, SweepInOrder, RowsAnswered
<1>5. PICK f \in [Rows -> Fields] :
        /\ NextProbe(p, f)
        /\ f[r].ip = p.ip /\ f[r].state \in {"activated", "auth_failed"}
        /\ f[r].answer = IF f[r].state = "activated" THEN f[r].ip ELSE None
        /\ \A s \in Rows \ {r} : f[s] = row[s]
        /\ \/ f[r].state = "activated" /\ addedDevices' = Push(r, f, addedDevices)
           \/ addedDevices' = addedDevices
  <2>1. CASE /\ NextProbe(p, LoggedIn(r, p.ip))
             /\ addedDevices' = Push(r, LoggedIn(r, p.ip), addedDevices)
    <3> DEFINE g == LoggedIn(r, p.ip)
    <3>1. g \in [Rows -> Fields] /\ g[r] = [ip |-> row[r].ip, state |-> "activated", answer |-> p.ip]
          /\ \A s \in Rows \ {r} : g[s] = row[s]
      BY <1>3, LoggedInShape
    <3> HIDE DEF g
    <3> USE <3>1
    <3> WITNESS g \in [Rows -> Fields]
    <3>2. NextProbe(p, g) /\ addedDevices' = Push(r, g, addedDevices)
      BY <2>1 DEF g
    <3> QED BY <1>4, <3>1, <3>2
  <2>2. CASE NextProbe(p, [row EXCEPT ![r].state = "auth_failed"]) /\ UNCHANGED addedDevices
    <3>1. Failed(r) \in [Rows -> Fields]
          /\ Failed(r)[r] = [ip |-> row[r].ip, state |-> "auth_failed", answer |-> row[r].answer]
          /\ \A s \in Rows \ {r} : Failed(r)[s] = row[s]
      BY <1>3, FailedShape
    <3>2. NextProbe(p, Failed(r))
      BY <2>2 DEF Failed
    <3> USE <3>1
    <3> WITNESS Failed(r) \in [Rows -> Fields]
    <3> QED BY <1>4, <2>2, <3>1, <3>2
  <2> QED BY <2>1, <2>2 DEF ProbeAnswer
<1> HIDE DEF r
<1>6. r \notin Range(addedDevices)
  BY <1>4, OnlyActivated DEF Waited
<1>7. /\ ActiveAndApart(addedDevices', f)
      /\ Range(addedDevices') \subseteq Range(addedDevices) \cup {r}
  <2>1. \A k \in DOMAIN addedDevices : addedDevices[k] \in Rows \ {r}
    BY <1>6 DEF TypeOK, Range
  <2>2. ActiveAndApart(addedDevices, f)
    BY <1>5, <2>1 DEF Waited, ActiveAndApart
  <2>3. CASE addedDevices' = addedDevices
    BY <2>2, <2>3
  <2>4. CASE f[r].state = "activated" /\ addedDevices' = Push(r, f, addedDevices)
    <3>1. addedDevices \in Seq(Rows) /\ MAX_CHANNELS \in Nat
      BY DEF TypeOK
    <3> QED BY <1>3, <2>2, <2>4, <3>1, PushShape
  <2> QED BY <1>5, <2>3, <2>4
<1>8. /\ \A i \in DOMAIN discoveredList : discoveredList[i] = r => i = p.index
      /\ \A i, j \in DOMAIN discoveredList : discoveredList[i] = discoveredList[j] => i = j
  BY <1>3 DEF r, Waited, IsInjective
\* Whether or not the worker takes another row: what becomes of the rows.
<1>9. /\ row' \in [Rows -> Fields]
      /\ row'[r] = f[r]
      /\ \A s \in Rows : s # r /\ row[s].state # "pending" => row'[s] = row[s]
      /\ ActiveAndApart(addedDevices', row')
      /\ RowsAnswered'
      /\ SweepInOrder'
  <2>1. /\ \A q \in probes : /\ row[discoveredList[q.index]].state = "authenticating"
                             /\ row[discoveredList[q.index]].ip = q.ip
                             /\ q.index \in DOMAIN discoveredList /\ q.index <= cursor
        /\ \A q, s \in probes : q.index = s.index => q = s
        /\ \A i \in 1..cursor : Settled(i) \/ \E q \in probes : q.index = i
        /\ \A i \in (cursor + 1)..Len(discoveredList) : row[discoveredList[i]].state = "pending"
        /\ search = "sweeping"
    <3>1. \A q \in probes : q.index \in DOMAIN discoveredList /\ q.index <= cursor
      BY <1>2
    <3> QED BY <3>1 DEF Waited, SweepInOrder
  <2>2. \A q \in probes : q # p => discoveredList[q.index] # r
    BY <1>8, <2>1
  <2>3. CASE /\ cursor < Len(discoveredList) /\ cursor' = cursor + 1
             /\ n \in Rows
             /\ row' \in [Rows -> Fields]
             /\ row'[n] = [f[n] EXCEPT !.state = "authenticating"]
             /\ \A s \in Rows \ {n} : row'[s] = f[s]
             /\ probes' = (probes \ {p}) \cup {[index |-> cursor + 1, ip |-> f[n].ip]}
             /\ search' = search
    <3>1. cursor + 1 \in DOMAIN discoveredList /\ cursor + 1 \in (cursor + 1)..Len(discoveredList)
          /\ cursor + 1 # p.index
      BY <1>2, <1>3, <2>3
    <3>2. n # r /\ row[n].state = "pending"
      BY <1>8, <2>1, <3>1
    <3> HIDE DEF n
    <3>3. f[n] = row[n] /\ f[n] \in Fields
      BY <1>5, <2>3, <3>2
    <3>4. row'[n].state = "authenticating" /\ row'[n].ip = f[n].ip /\ row'[n].answer = f[n].answer
      BY <2>3, <3>3 DEF Fields
    <3>5. row'[r] = f[r]
      BY <1>3, <2>3, <3>2
    <3>6. \A s \in Rows : s # r /\ s # n => row'[s] = row[s]
      BY <1>5, <2>3
    <3>7. n \notin Range(addedDevices')
      <4>1. n \notin Range(addedDevices)
        BY <3>2, OnlyActivated DEF Waited
      <4> QED BY <1>7, <3>2, <4>1
    <3>8. ActiveAndApart(addedDevices', row')
      <4>1. \A k \in DOMAIN addedDevices' : addedDevices'[k] \in Rows \ {n}
        BY <3>7 DEF TypeOK, Range
      <4>2. \A k \in DOMAIN addedDevices' : row'[addedDevices'[k]] = f[addedDevices'[k]]
        BY <2>3, <4>1
      <4> QED BY <1>7, <4>2 DEF ActiveAndApart
    <3>9. RowsAnswered'
      <4>1. ASSUME NEW s \in Rows
            PROVE  row'[s].answer = IF row'[s].state = "activated" THEN row'[s].ip ELSE None
        <5>1. row[s].answer = IF row[s].state = "activated" THEN row[s].ip ELSE None
          BY DEF Waited, RowsAnswered
        <5>2. CASE s = r
          BY <1>5, <3>5, <5>2
        <5>3. CASE s = n
          BY <3>2, <3>3, <3>4, <5>1, <5>3
        <5>4. CASE s # r /\ s # n
          BY <3>6, <5>1, <5>4
        <5> QED BY <5>2, <5>3, <5>4
      <4> QED BY <4>1 DEF RowsAnswered
    <3>10. SweepInOrder'
      <4> DEFINE new == [index |-> cursor + 1, ip |-> f[n].ip]
      <4>1. /\ new \in probes' /\ new.index = cursor + 1 /\ new.ip = f[n].ip
            /\ \A q \in probes' : q = new \/ (q \in probes /\ q # p)
            /\ \A q \in probes : q = p \/ q \in probes'
        BY <2>3
      <4> HIDE DEF new
      <4>2. \A q \in probes' : /\ row'[discoveredList[q.index]].state = "authenticating"
                               /\ row'[discoveredList[q.index]].ip = q.ip
        <5> TAKE q \in probes'
        <5>1. CASE q = new
          BY <3>4, <4>1, <5>1 DEF n
        <5>2. CASE q \in probes /\ q # p
          <6>1. discoveredList[q.index] \in Rows /\ discoveredList[q.index] # r /\ discoveredList[q.index] # n
            BY <1>2, <2>1, <2>2, <3>2, <5>2
          <6> QED BY <2>1, <3>6, <5>2, <6>1
        <5> QED BY <4>1, <5>1, <5>2
      <4>3. \A q, s \in probes' : q.index = s.index => q = s
        <5>1. \A q \in probes : q.index # cursor + 1
          BY <1>2, <2>1
        <5> QED BY <2>1, <4>1, <5>1
      <4>4. \A i \in 1..(cursor + 1) : Settled(i)' \/ \E q \in probes' : q.index = i
        <5> TAKE i \in 1..(cursor + 1)
        <5>1. CASE i = cursor + 1
          BY <4>1, <5>1
        <5>2. CASE i = p.index
          BY <1>1, <1>5, <3>5, <5>2 DEF Settled, r
        <5>3. CASE i # cursor + 1 /\ i # p.index
          <6>1. i \in 1..cursor /\ i \in DOMAIN discoveredList /\ discoveredList[i] \in Rows /\ discoveredList[i] # r
            BY <1>2, <1>8, <5>3
          <6>2. CASE Settled(i)
            <7>1. discoveredList[i] # n
              BY <3>2, <6>2 DEF Settled
            <7> QED BY <1>1, <3>6, <6>1, <6>2, <7>1 DEF Settled
          <6>3. CASE \E q \in probes : q.index = i
            BY <4>1, <5>3, <6>3
          <6> QED BY <2>1, <6>1, <6>2, <6>3
        <5> QED BY <5>1, <5>2, <5>3
      <4>5. \A i \in (cursor + 2)..Len(discoveredList) : row'[discoveredList[i]].state = "pending"
        <5> TAKE i \in (cursor + 2)..Len(discoveredList)
        <5>1. i \in (cursor + 1)..Len(discoveredList) /\ i \in DOMAIN discoveredList /\ i # cursor + 1
              /\ i # p.index
          BY <1>2, <1>3
        <5>2. discoveredList[i] \in Rows /\ discoveredList[i] # r /\ discoveredList[i] # n
          BY <1>2, <1>8, <3>1, <5>1 DEF n
        <5> QED BY <2>1, <3>6, <5>1, <5>2
      <4>6. cursor' = cursor + 1 /\ (cursor + 1) + 1 = cursor + 2 /\ search' = "sweeping" /\ probes' # {}
        BY <1>2, <2>1, <2>3, <4>1
      <4> QED BY <1>1, <4>2, <4>3, <4>4, <4>5, <4>6 DEF SweepInOrder
    <3> QED BY <2>3, <3>2, <3>5, <3>6, <3>8, <3>9, <3>10
  <2>4. CASE /\ cursor = Len(discoveredList) /\ cursor' = cursor /\ row' = f
             /\ probes' = probes \ {p}
             /\ search' = IF probes' = {} THEN "ready" ELSE search
    <3>1. RowsAnswered'
      BY <1>5, <2>4 DEF Waited, RowsAnswered
    <3>2. \A q \in probes' : /\ row'[discoveredList[q.index]].state = "authenticating"
                             /\ row'[discoveredList[q.index]].ip = q.ip
      BY <1>2, <1>5, <2>1, <2>2, <2>4
    <3>3. \A i \in 1..cursor : Settled(i)' \/ \E q \in probes' : q.index = i
      <4> TAKE i \in 1..cursor
      <4>1. CASE i = p.index
        BY <1>1, <1>5, <2>4, <4>1 DEF Settled, r
      <4>2. CASE i # p.index
        <5>1. i \in DOMAIN discoveredList /\ discoveredList[i] \in Rows /\ discoveredList[i] # r
          BY <1>2, <1>8, <4>2
        <5> QED BY <1>1, <1>5, <2>1, <2>4, <4>2, <5>1 DEF Settled
      <4> QED BY <4>1, <4>2
    <3>4. (cursor' + 1)..Len(discoveredList) = {}
      BY <1>2, <2>4
    <3>5. (search' = "sweeping" <=> probes' # {}) /\ cursor' = Len(discoveredList)
      BY <2>1, <2>4
    <3>6. SweepInOrder'
      BY <1>1, <2>1, <2>4, <3>2, <3>3, <3>4, <3>5 DEF SweepInOrder
    <3> QED BY <1>5, <1>7, <2>4, <3>1, <3>6
  <2> QED BY <1>5, <2>3, <2>4, NextProbeShape
<1>10. \A s \in Rows : s # r /\ s \notin Range(addedDevices) => s \notin Range(addedDevices')
  BY <1>7
<1>11. LoginsInOrder'
  <2>1. ASSUME NEW l \in logins
        PROVE  /\ l.index \in DOMAIN discoveredList /\ discoveredList[l.index] = l.row
               /\ Settled(l.index)' /\ l.row \notin Range(addedDevices')
    <3>1. /\ l.index \in DOMAIN discoveredList /\ discoveredList[l.index] = l.row
          /\ row[l.row].state \in {"activated", "auth_failed"}
          /\ l.row \notin Range(addedDevices) /\ l.row \in Rows
      BY DEF Waited, LoginsInOrder, Settled, TypeOK
    <3>2. l.row # r /\ row'[l.row] = row[l.row]
      BY <1>4, <1>9, <3>1
    <3> QED BY <1>1, <1>10, <3>1, <3>2 DEF Settled
  <2>2. \A s \in everyone : row'[s].state = "auth_failed"
    BY <1>4, <1>9 DEF Waited, LoginsInOrder, TypeOK
  <2> QED BY <1>1, <2>1, <2>2 DEF Waited, LoginsInOrder
<1>12. PageInOrder'
  <2>1. /\ DOMAIN page' = DOMAIN discoveredList'
        /\ \A i \in DOMAIN page' :
             /\ page'[i] = "activated" => row'[discoveredList'[i]].state = "activated"
             /\ page'[i] = "auth_failed" =>
                    /\ row'[discoveredList'[i]].state = "auth_failed"
                    /\ discoveredList'[i] \notin Range(addedDevices')
    BY <1>1, RenderedShape DEF TypeOK
  <2>2. ASSUME dialogue > 0
        PROVE  dialogue \in DOMAIN discoveredList /\ Askable(dialogue)'
    <3> DEFINE s == discoveredList[dialogue]
    <3>1. /\ dialogue \in DOMAIN discoveredList /\ s \in Rows
          /\ row[s].state \in {"activated", "auth_failed"}
          /\ everyone = {} => s \notin Range(addedDevices)
      BY <1>2, <2>2 DEF Waited, PageInOrder, Askable, Settled
    <3>2. s # r /\ row'[s] = row[s]
      BY <1>4, <1>9, <3>1
    <3> QED BY <1>1, <1>10, <3>1, <3>2 DEF Askable, Settled
  <2> QED BY <1>1, <2>1, <2>2 DEF PageInOrder, Askable, Settled
<1> QED BY <1>1, <1>9, <1>11, <1>12 DEF Waited

\* An answer to the login to all cameras, and the sort behind the last of them.
LEMMA EveryoneAnswerKeeps ==
    ASSUME TypeOK, TypeOK', Waited, NEW r \in everyone, EveryoneAnswer(r), ~ crossed'
    PROVE  Waited'
<1>1. /\ everyone' = everyone \ {r} /\ logins = {} /\ logins' = {}
      /\ UNCHANGED <<cursor, probes, search>>
  BY DEF EveryoneAnswer, Waited, LoginsInOrder, sweep
<1>2. /\ Len(discoveredList) \in Nat /\ DOMAIN discoveredList = 1..Len(discoveredList)
      /\ cursor \in 0..Len(discoveredList) /\ probes \subseteq [index : 1..cursor, ip : Cameras]
      /\ \A i \in DOMAIN discoveredList : discoveredList[i] \in Rows
      /\ r \in Rows /\ everyone \subseteq Rows /\ row[r].ip \in Cameras
  <2>1. r \in Rows /\ row \in [Rows -> Fields]
    BY DEF TypeOK
  <2>2. row[r].ip \in Cameras
    BY <2>1 DEF Fields
  <2>3. /\ Len(discoveredList) \in Nat /\ DOMAIN discoveredList = 1..Len(discoveredList)
        /\ \A i \in DOMAIN discoveredList : discoveredList[i] \in Rows
    BY SMTT(30) DEF TypeOK
  <2>4. cursor \in 0..Len(discoveredList) /\ probes \subseteq [index : 1..cursor, ip : Cameras]
        /\ everyone \subseteq Rows
    BY DEF TypeOK
  <2> QED BY <2>1, <2>2, <2>3, <2>4
<1>3. /\ row[r].state = "auth_failed" /\ row[r].answer = None
      /\ r \notin Range(addedDevices)
  <2>1. row[r].state = "auth_failed"
    BY DEF Waited, LoginsInOrder
  <2> QED BY <1>2, <2>1, OnlyActivated DEF Waited, RowsAnswered
<1>4. /\ row'[r].ip = row[r].ip /\ row'[r].state \in {"activated", "auth_failed"}
      /\ row'[r].answer = IF row'[r].state = "activated" THEN row'[r].ip ELSE None
      /\ \A s \in Rows \ {r} : row'[s] = row[s]
      /\ ActiveAndApart(addedDevices', row')
  <2>1. CASE row' = LoggedIn(r, row[r].ip) /\ addedDevices' = Push(r, row', addedDevices)
    <3>1. /\ row'[r] = [ip |-> row[r].ip, state |-> "activated", answer |-> row[r].ip]
          /\ \A s \in Rows \ {r} : row'[s] = row[s]
      BY <1>2, <2>1, LoggedInShape
    <3>2. \A k \in DOMAIN addedDevices : addedDevices[k] \in Rows \ {r}
      BY <1>3 DEF TypeOK, Range
    <3>3. ActiveAndApart(addedDevices, row')
      BY <3>1, <3>2 DEF Waited, ActiveAndApart
    <3>4. addedDevices \in Seq(Rows) /\ MAX_CHANNELS \in Nat
      BY DEF TypeOK
    <3>5. ActiveAndApart(addedDevices', row')
      BY <1>2, <2>1, <3>1, <3>3, <3>4, PushShape
    <3> QED BY <3>1, <3>5
  <2>2. CASE UNCHANGED <<row, addedDevices>>
    BY <1>3, <2>2 DEF Waited
  <2> QED BY <2>1, <2>2 DEF EveryoneAnswer
<1>5. RowsAnswered'
  <2>1. ASSUME NEW s \in Rows
        PROVE  row'[s].answer = IF row'[s].state = "activated" THEN row'[s].ip ELSE None
    BY <1>4 DEF Waited, RowsAnswered
  <2> QED BY <2>1 DEF RowsAnswered
<1>6. LoginsInOrder'
  <2>1. \A s \in everyone' : row'[s].state = "auth_failed"
    BY <1>1, <1>2, <1>4 DEF Waited, LoginsInOrder
  <2> QED BY <1>1, <2>1 DEF LoginsInOrder
\* The sweep over the list as it was.
<1>7. /\ \A p \in probes : /\ row'[discoveredList[p.index]].state = "authenticating"
                           /\ row'[discoveredList[p.index]].ip = p.ip
      /\ \A i \in 1..cursor : \/ row'[discoveredList[i]].state \in {"activated", "auth_failed"}
                              \/ \E p \in probes : p.index = i
      /\ \A i \in (cursor + 1)..Len(discoveredList) : row'[discoveredList[i]].state = "pending"
  <2>1. \A p \in probes : discoveredList[p.index] \in Rows \ {r}
    <3>1. \A p \in probes : p.index \in DOMAIN discoveredList
      BY <1>2
    <3> QED BY <1>2, <1>3, <3>1 DEF Waited, SweepInOrder
  <2>2. \A i \in (cursor + 1)..Len(discoveredList) : discoveredList[i] \in Rows \ {r}
    <3>1. \A i \in (cursor + 1)..Len(discoveredList) : i \in DOMAIN discoveredList
      BY <1>2
    <3> QED BY <1>2, <1>3, <3>1 DEF Waited, SweepInOrder
  <2>3. \A i \in 1..cursor : discoveredList[i] \in Rows
    BY <1>2
  <2> QED BY <1>4, <2>1, <2>2, <2>3 DEF Waited, SweepInOrder, Settled
<1>8. CASE everyone' = {}
  <2>1. SortRows /\ dialogue' = Closed /\ page' = Rendered
        /\ (discoveredList' = discoveredList \/ probes = {})
    BY <1>8 DEF EveryoneAnswer
  <2>2. /\ discoveredList' \in Seq(Rows) /\ Len(discoveredList') = Len(discoveredList)
        /\ \A i \in DOMAIN discoveredList' : \E j \in DOMAIN discoveredList :
              discoveredList'[i] = discoveredList[j]
        /\ IsInjective(discoveredList)'
    BY <2>1, SortShape DEF Waited
  <2>3. SweepInOrder'
    <3>1. CASE discoveredList' = discoveredList
      BY <1>1, <1>7, <3>1 DEF Waited, SweepInOrder, Settled
    <3>2. CASE probes = {}
      <4>1. cursor = Len(discoveredList) /\ search # "sweeping"
        BY <3>2 DEF Waited, SweepInOrder
      <4>2. \A j \in DOMAIN discoveredList : row'[discoveredList[j]].state \in {"activated", "auth_failed"}
        BY <1>2, <1>7, <3>2, <4>1
      <4>3. DOMAIN discoveredList' = 1..Len(discoveredList)
        BY <2>2
      <4>4. \A i \in 1..cursor : Settled(i)'
        BY <2>2, <4>1, <4>2, <4>3 DEF Settled
      <4>5. (cursor + 1)..Len(discoveredList') = {}
        BY <1>2, <2>2, <4>1
      <4> QED BY <1>1, <2>2, <3>2, <4>1, <4>4, <4>5 DEF SweepInOrder
    <3> QED BY <2>1, <3>1, <3>2
  <2>4. PageInOrder'
    BY <2>1, RenderedInOrder
  <2> QED BY <1>4, <1>5, <1>6, <2>2, <2>3, <2>4 DEF Waited
<1>9. CASE everyone' # {}
  <2>1. UNCHANGED <<discoveredList, dialogue, page>> /\ everyone # {}
    BY <1>9 DEF EveryoneAnswer
  <2>2. IsInjective(discoveredList)' /\ SweepInOrder'
    BY <1>1, <1>7, <2>1 DEF Waited, SweepInOrder, Settled
  <2>3. \A i \in DOMAIN discoveredList : Settled(i) => Askable(i)'
    BY <1>2, <1>4, <1>9, <2>1 DEF Askable, Settled
  <2>4. PageInOrder'
    <3>1. \A i \in DOMAIN page : i \in DOMAIN discoveredList
      BY DEF TypeOK
    <3>2. ASSUME NEW i \in DOMAIN page
          PROVE  /\ page[i] = "activated" => row'[discoveredList[i]].state = "activated"
                 /\ page[i] = "auth_failed" => Askable(i)'
      BY <1>2, <1>3, <1>4, <2>3, <3>1 DEF Waited, PageInOrder, Askable
    <3>3. dialogue > 0 => dialogue \in DOMAIN discoveredList /\ Askable(dialogue)'
      <4> HAVE dialogue > 0
      <4>1. dialogue \in DOMAIN discoveredList /\ Settled(dialogue)
        BY DEF Waited, PageInOrder, Askable
      <4>2. row'[discoveredList[dialogue]].state \in {"activated", "auth_failed"}
        BY <1>2, <1>4, <4>1 DEF Settled
      <4> QED BY <1>9, <2>1, <4>1, <4>2 DEF Askable, Settled
    <3> QED BY <2>1, <3>2, <3>3 DEF PageInOrder
  <2> QED BY <1>4, <1>5, <1>6, <2>2, <2>4 DEF Waited
<1> QED BY <1>8, <1>9

\* The page as it is loaded has no rows.
LEMMA InitInductive == Init => Inductive
<1> SUFFICES ASSUME Init PROVE TypeOK /\ Waited
  BY DEF Inductive
<1>1. TypeOK
  BY InitType
<1>2. /\ discoveredList = <<>> /\ addedDevices = <<>> /\ page = <<>> /\ cursor = 0 /\ probes = {}
      /\ logins = {} /\ everyone = {} /\ dialogue = 0 /\ search = "ready"
      /\ \A r \in Rows : row[r].state = "pending" /\ row[r].answer = None
  BY DEF Init, Fresh, Closed
<1>3. IsInjective(discoveredList) /\ ActiveAndApart(addedDevices, row) /\ LoginsInOrder /\ RowsAnswered
  BY <1>2 DEF IsInjective, ActiveAndApart, LoginsInOrder, RowsAnswered
<1>4. SweepInOrder
  BY <1>2 DEF SweepInOrder
<1>5. PageInOrder
  BY <1>2 DEF PageInOrder
<1> QED BY <1>1, <1>3, <1>4, <1>5 DEF Waited

\* The operator who did not wait is remembered.
LEMMA CrossedStays == ASSUME [Next]_vars, TypeOK PROVE crossed => crossed'
<1> SUFFICES ASSUME crossed PROVE crossed'
  OBVIOUS
<1> USE DEF TypeOK
<1>1. CASE Answer
  BY <1>1 DEF Answer, SearchFailed, SearchFound, ProbeAnswer
<1>2. CASE \E i \in DOMAIN page : ClickAdd(i) \/ promptPassword(i)
  BY <1>2 DEF ClickAdd, promptPassword
<1>3. CASE \/ LoadCheckSetup \/ startSmartDiscovery \/ openUniversalPasswordModal \/ Cancel
  BY <1>3 DEF LoadCheckSetup, startSmartDiscovery, openUniversalPasswordModal, Cancel
<1>4. CASE addAllSelected \/ \E i \in DOMAIN addedDevices : removeAddedDevice(i)
  BY <1>4 DEF addAllSelected, removeAddedDevice
<1>5. CASE SubmitOne \/ SubmitEveryone
  BY <1>5 DEF SubmitOne, SubmitEveryone
<1>6. CASE \/ \E login \in logins : OneAnswer(login)
           \/ \E r \in everyone : EveryoneAnswer(r)
  BY <1>6 DEF OneAnswer, EveryoneAnswer
<1>7. CASE UNCHANGED vars
  BY <1>7 DEF vars
<1> QED BY <1>1, <1>2, <1>3, <1>4, <1>5, <1>6, <1>7 DEF Next

\* Every step keeps the inductive invariant.
LEMMA StepInductive == Inductive /\ [Next]_vars => Inductive'
<1> SUFFICES ASSUME Inductive, [Next]_vars PROVE Inductive'
  OBVIOUS
<1>1. TypeOK /\ TypeOK'
  BY TypeKept DEF Inductive
<1>2. SUFFICES ASSUME ~ crossed' PROVE Waited'
  BY <1>1 DEF Inductive
<1>3. Waited
  BY <1>1, <1>2, CrossedStays DEF Inductive
<1>4. CASE \/ LoadCheckSetup \/ startSmartDiscovery \/ SearchFailed \/ Cancel
           \/ openUniversalPasswordModal
           \/ \E i \in DOMAIN page : promptPassword(i)
           \/ UNCHANGED vars
  BY <1>1, <1>2, <1>3, <1>4, QuietKeeps
<1>5. CASE SearchFound
  BY <1>1, <1>2, <1>3, <1>5, SearchFoundKeeps
<1>6. ASSUME NEW p \in probes, ProbeAnswer(p) PROVE Waited'
  BY <1>1, <1>2, <1>3, <1>6, ProbeAnswerKeeps
<1>7. ASSUME NEW i \in DOMAIN page, ClickAdd(i) PROVE Waited'
  BY <1>1, <1>2, <1>3, <1>7, ClickAddKeeps
<1>8. CASE addAllSelected
  BY <1>1, <1>2, <1>3, <1>8, AddAllKeeps
<1>9. ASSUME NEW i \in DOMAIN addedDevices, removeAddedDevice(i) PROVE Waited'
  BY <1>1, <1>2, <1>3, <1>9, RemoveKeeps
<1>10. CASE SubmitOne
  BY <1>1, <1>2, <1>3, <1>10, SubmitOneKeeps
<1>11. CASE SubmitEveryone
  BY <1>1, <1>2, <1>3, <1>11, SubmitEveryoneKeeps
<1>12. ASSUME NEW login \in logins, OneAnswer(login) PROVE Waited'
  BY <1>1, <1>2, <1>3, <1>12, OneAnswerKeeps
<1>13. ASSUME NEW r \in everyone, EveryoneAnswer(r) PROVE Waited'
  BY <1>1, <1>2, <1>3, <1>13, EveryoneAnswerKeeps
<1> QED BY <1>4, <1>5, <1>6, <1>7, <1>8, <1>9, <1>10, <1>11, <1>12, <1>13 DEF Next, Answer

\* The page always satisfies the inductive invariant.
THEOREM DiscoveryInvariance == Spec => []Inductive
<1>1. Init => Inductive
  BY InitInductive
<1>2. Inductive /\ [Next]_vars => Inductive'
  BY StepInductive
<1> QED BY <1>1, <1>2, PTL DEF Spec, Safety

\* What a row hands on came from the camera at its address.
THEOREM OwnAnswerHolds == Spec => []OwnAnswer
<1>1. Inductive => OwnAnswer
  BY DEF Inductive, Waited, RowsAnswered, OwnAnswer
<1> QED BY <1>1, DiscoveryInvariance, PTL

\* No two channels have the same camera or the same address.
THEOREM NoCameraTwiceHolds == Spec => []NoCameraTwice
<1>1. Inductive => NoCameraTwice
  <2> SUFFICES ASSUME TypeOK, Waited,
                      NEW i \in DOMAIN addedDevices, NEW j \in DOMAIN addedDevices, i # j
               PROVE  LET a == row[addedDevices[i]] b == row[addedDevices[j]] IN
                      a.ip # b.ip /\ (a.answer # None => a.answer # b.answer)
    BY DEF Inductive, NoCameraTwice
  <2> DEFINE a == row[addedDevices[i]]
             b == row[addedDevices[j]]
  <2>1. addedDevices[i] \in Rows /\ addedDevices[j] \in Rows
    BY DEF TypeOK
  <2>2. a.state = "activated" /\ b.state = "activated" /\ a.ip # b.ip
    BY DEF Waited, ActiveAndApart
  <2>3. a.answer = a.ip /\ b.answer = b.ip
    BY <2>1, <2>2 DEF Waited, RowsAnswered
  <2> QED BY <2>2, <2>3
<1> QED BY <1>1, DiscoveryInvariance, PTL

\* Every row of the channel list was logged in to.
THEOREM AddedAreActivatedHolds == Spec => []AddedAreActivated
<1>1. Inductive => AddedAreActivated
  BY DEF Inductive, Waited, ActiveAndApart, AddedAreActivated, Range
<1> QED BY <1>1, DiscoveryInvariance, PTL

\* When the search button is back, the sweep has answered for every row.
THEOREM NoRowLeftBehindHolds == Spec => []NoRowLeftBehind
<1>1. Inductive => NoRowLeftBehind
  <2> SUFFICES ASSUME TypeOK, Waited, search = "ready", NEW i \in DOMAIN discoveredList
               PROVE  Settled(i)
    BY DEF Inductive, NoRowLeftBehind, Range, Settled
  <2>1. probes = {} /\ cursor = Len(discoveredList)
    BY DEF Waited, SweepInOrder
  <2>2. i \in 1..cursor
    BY <2>1 DEF TypeOK
  <2> QED BY <2>1, <2>2 DEF Waited, SweepInOrder
<1> QED BY <1>1, DiscoveryInvariance, PTL

\* No step takes the channel list over the number of channels, whatever the
\* operator does.
THEOREM CapHolds == Spec => CapInForce
<1>1. TypeOK /\ [Next]_vars =>
        [Len(addedDevices') > Len(addedDevices) => Len(addedDevices') <= MAX_CHANNELS]_vars
  <2> SUFFICES ASSUME TypeOK, [Next]_vars
               PROVE  \/ addedDevices' = addedDevices
                      \/ Len(addedDevices') <= Len(addedDevices)
                      \/ Len(addedDevices') <= MAX_CHANNELS
    <3>1. Len(addedDevices) \in Nat
      BY DEF TypeOK
    <3>2. Len(addedDevices') \in Nat
      BY TypeKept DEF TypeOK
    <3> QED BY <3>1, <3>2
  <2>0. Len(addedDevices) \in Nat /\ MAX_CHANNELS \in Nat
    BY DEF TypeOK
  <2>1. CASE addedDevices' = addedDevices
    BY <2>1
  <2>2. CASE SearchFound
    <3>1. Len(addedDevices') = 0
      BY <2>2 DEF SearchFound
    <3> QED BY <2>0, <3>1
  <2>3. ASSUME NEW p \in probes, ProbeAnswer(p)
        PROVE  addedDevices' = addedDevices \/ Len(addedDevices') <= MAX_CHANNELS
    <3>1. discoveredList[p.index] \in Rows /\ addedDevices \in Seq(Rows)
      BY DEF TypeOK
    <3> QED BY <2>0, <2>3, <3>1, PushShape DEF ProbeAnswer
  <2>4. ASSUME NEW i \in DOMAIN page, ClickAdd(i)
        PROVE  addedDevices' = addedDevices \/ Len(addedDevices') <= MAX_CHANNELS
    BY <2>4, MoveShape DEF ClickAdd
  <2>5. CASE addAllSelected
    BY <2>5, AddTickedShape DEF addAllSelected
  <2>6. ASSUME NEW i \in DOMAIN addedDevices, removeAddedDevice(i)
        PROVE  Len(addedDevices') <= Len(addedDevices)
    <3>1. Len(addedDevices') = Len(addedDevices) - 1
      BY <2>6, RemoveAtShape DEF removeAddedDevice, TypeOK
    <3> QED BY <2>0, <3>1
  <2>7. ASSUME NEW login \in logins, OneAnswer(login)
        PROVE  addedDevices' = addedDevices \/ Len(addedDevices') <= MAX_CHANNELS
    BY <2>7, MoveShape DEF OneAnswer
  <2>8. ASSUME NEW r \in everyone, EveryoneAnswer(r)
        PROVE  addedDevices' = addedDevices \/ Len(addedDevices') <= MAX_CHANNELS
    <3>1. r \in Rows /\ addedDevices \in Seq(Rows)
      BY DEF TypeOK
    <3> QED BY <2>0, <2>8, <3>1, PushShape DEF EveryoneAnswer
  <2>9. CASE \/ LoadCheckSetup \/ startSmartDiscovery \/ SearchFailed \/ Cancel
             \/ openUniversalPasswordModal \/ SubmitOne \/ SubmitEveryone
             \/ \E i \in DOMAIN page : promptPassword(i)
             \/ UNCHANGED vars
    BY <2>9 DEF LoadCheckSetup, startSmartDiscovery, SearchFailed, Cancel, openUniversalPasswordModal,
                SubmitOne, SubmitEveryone, promptPassword, vars
  <2> QED BY <2>2, <2>3, <2>4, <2>5, <2>6, <2>7, <2>8, <2>9 DEF Next, Answer
<1>2. Inductive => TypeOK
  BY DEF Inductive
<1> QED BY <1>1, <1>2, DiscoveryInvariance, PTL DEF Spec, Safety, CapInForce
==============================================================================
