------------------------- MODULE BuilderAgent_proofs -------------------------
(***************************************************************************)
(* Proofs about the builder API, for any number of threads, devices and    *)
(* requests.                                                               *)
(***************************************************************************)
EXTENDS BuilderAgent, SkuRequests, TLAPS

\* Every step of the system is a crash, or one action of one thread.
LEMMA NextCases ==
    ASSUME Next
    PROVE  \/ Crash
           \/ \E t \in Threads :
                \/ Receive(t) \/ Check(t) \/ Claim(t)
                \/ TruncateId(t) \/ FlushId(t) \/ TruncateModel(t) \/ FlushModel(t)
                \/ VerifyId(t) \/ VerifyModel(t)
                \/ Clean(t) \/ Prepare(t) \/ PrepareRootfs(t) \/ MakeImage(t)
                \/ Publish(t) \/ Cleanup(t) \/ Fail(t) \/ Release(t) \/ Respond(t)
BY DEF Next, Step

-----------------------------------------------------------------------------
(* The facts of a request *)

\* What JSON may carry under cam_base and cam_max.
JsonNumbers == Int \cup {Absent, NotNumber, Infinite}

\* int() of halves, when it is not negative and when it is not positive.
LEMMA TruncatedIs ==
    ASSUME NEW halves \in Int
    PROVE  /\ Truncated(halves) \in Int
           /\ halves >= 0 => 2 * Truncated(halves) <= halves /\ halves <= 2 * Truncated(halves) + 1
           /\ halves < 0 => Truncated(halves) <= 0
BY DEF Truncated

\* A request that none of the returns and exceptions is about.
Accepted(data) ==
    /\ \A k \in MODEL_KEYS : data[k] # Absent
    /\ data.tier.word \in VALID_TIERS /\ data.sku.word # ""
    /\ data.cam_base \in Int /\ data.cam_max \in Int
    /\ 0 < Truncated(data.cam_base) /\ Truncated(data.cam_base) <= Truncated(data.cam_max)

\* Those are the ones that are accepted.
LEMMA AcceptedIs ==
    ASSUME NEW data, data.cam_base \in JsonNumbers, data.cam_max \in JsonNumbers
    PROVE  ParseModel(data).outcome = "ok" <=> Accepted(data)
BY MarkerAssumption DEF ParseModel, Bad, JsonNumbers, MODEL_KEYS, Accepted

\* The model of a request that is accepted.
LEMMA ModelIs ==
    ASSUME NEW data, ParseModel(data).outcome = "ok"
    PROVE  ParseModel(data) =
             [outcome |-> "ok",
              model |-> [tier |-> data.tier.word, sku |-> data.sku.word,
                         cam_base |-> Truncated(data.cam_base), cam_max |-> Truncated(data.cam_max)]]
BY DEF ParseModel, Bad

\* parse_model lets no model through that the device would misread: what is baked
\* into a unit has a known tier, a SKU, and a positive base that is at most the
\* maximum, whatever the body of the request was.
THEOREM AcceptedIsLegal ==
    ASSUME NEW data, data.cam_base \in JsonNumbers, data.cam_max \in JsonNumbers,
           ParseModel(data).outcome = "ok"
    PROVE  LET m == ParseModel(data).model IN
             /\ m.tier \in VALID_TIERS /\ m.sku # ""
             /\ m.cam_base \in Nat \ {0} /\ m.cam_max \in Nat /\ m.cam_base <= m.cam_max
<1> DEFINE m == ParseModel(data).model
<1>1. Accepted(data) BY AcceptedIs
<1>2. /\ m.tier = data.tier.word /\ m.sku = data.sku.word
      /\ m.cam_base = Truncated(data.cam_base) /\ m.cam_max = Truncated(data.cam_max)
    BY ModelIs
<1> HIDE DEF m
<1>3. data.cam_base \in Int /\ data.cam_max \in Int BY <1>1 DEF Accepted
<1>4. Truncated(data.cam_base) \in Int /\ Truncated(data.cam_max) \in Int BY <1>3, TruncatedIs
<1>5. \A a, b \in Int : 0 < a /\ a <= b => a \in Nat \ {0} /\ b \in Nat OBVIOUS
<1>6. 0 < Truncated(data.cam_base) /\ Truncated(data.cam_base) <= Truncated(data.cam_max)
    BY <1>1 DEF Accepted
<1>7. Truncated(data.cam_base) \in Nat \ {0} /\ Truncated(data.cam_max) \in Nat
    BY <1>4, <1>5, <1>6
<1>8. data.tier.word \in VALID_TIERS /\ data.sku.word # "" BY <1>1 DEF Accepted
<1>9. /\ m.tier \in VALID_TIERS /\ m.sku # ""
      /\ m.cam_base \in Nat \ {0} /\ m.cam_max \in Nat /\ m.cam_base <= m.cam_max
    BY <1>2, <1>6, <1>7, <1>8
<1> QED BY <1>9 DEF m

\* A body that satisfies the field table of README.md is accepted, and the model
\* written to the unit has its numbers, unrounded and unswapped.
THEOREM TaggedIsBuilt ==
    ASSUME NEW data, data.cam_base \in JsonNumbers, data.cam_max \in JsonNumbers, WellTagged(data)
    PROVE  /\ ParseModel(data).outcome = "ok"
           /\ LET m == ParseModel(data).model IN
                /\ 2 * m.cam_base = data.cam_base /\ 2 * m.cam_max = data.cam_max
                /\ m.tier = data.tier.word /\ m.sku = data.sku.word
<1>1. /\ data.cam_base \in Int /\ data.cam_max \in Int
      /\ data.cam_base % 2 = 0 /\ data.cam_max % 2 = 0 /\ 2 <= data.cam_base
      /\ data.cam_base <= data.cam_max
    BY DEF WellTagged, Whole, JsonNumbers
<1>2. \A n \in Int : n % 2 = 0 /\ 2 <= n => 2 * Truncated(n) = n
    BY DEF Truncated
<1>3. 2 * Truncated(data.cam_base) = data.cam_base /\ 2 * Truncated(data.cam_max) = data.cam_max
    BY <1>1, <1>2
<1>4. Truncated(data.cam_base) \in Int /\ Truncated(data.cam_max) \in Int
    BY <1>1, TruncatedIs
<1>5. 0 < Truncated(data.cam_base) /\ Truncated(data.cam_base) <= Truncated(data.cam_max)
    BY <1>1, <1>3, <1>4
<1>6. Accepted(data)
    BY <1>1, <1>5 DEF WellTagged, Accepted
<1>7. ParseModel(data).outcome = "ok"
    BY <1>6, AcceptedIs
<1> DEFINE m == ParseModel(data).model
<1>8. /\ m.tier = data.tier.word /\ m.sku = data.sku.word
      /\ m.cam_base = Truncated(data.cam_base) /\ m.cam_max = Truncated(data.cam_max)
    BY <1>7, ModelIs
<1> QED BY <1>3, <1>7, <1>8

\* The model of an accepted body, posted back, is accepted and unchanged: what the
\* factory reads in the answer of a build is what a rebuild would bake.
THEOREM AcceptedReparses ==
    ASSUME NEW data, data.cam_base \in JsonNumbers, data.cam_max \in JsonNumbers,
           ParseModel(data).outcome = "ok",
           \A word \in {data.tier.word, data.sku.word} : [word |-> word, dressed |-> FALSE] # Absent
    PROVE  ParseModel(AsRequest(ParseModel(data).model)) = ParseModel(data)
<1> DEFINE m == ParseModel(data).model
           again == AsRequest(m)
<1>1. /\ m.tier \in VALID_TIERS /\ m.sku # "" /\ m.cam_base \in Nat \ {0} /\ m.cam_max \in Nat
      /\ m.cam_base <= m.cam_max
    BY AcceptedIsLegal
<1>2. ParseModel(data) = [outcome |-> "ok", model |-> m]
      /\ m = [tier |-> m.tier, sku |-> m.sku, cam_base |-> m.cam_base, cam_max |-> m.cam_max]
    BY ModelIs
<1> HIDE DEF m
<1>3. /\ again.tier = [word |-> m.tier, dressed |-> FALSE]
      /\ again.sku = [word |-> m.sku, dressed |-> FALSE]
      /\ again.cam_base = 2 * m.cam_base /\ again.cam_max = 2 * m.cam_max
    BY DEF AsRequest
<1> HIDE DEF again
<1>4. Truncated(2 * m.cam_base) = m.cam_base /\ Truncated(2 * m.cam_max) = m.cam_max
  <2>1. \A n \in Nat : Truncated(2 * n) = n BY DEF Truncated
  <2> QED BY <1>1, <2>1
<1>5. again.cam_base \in Int /\ again.cam_max \in Int
  <2>1. \A n \in Nat : 2 * n \in Int OBVIOUS
  <2>2. 2 * m.cam_base \in Int /\ 2 * m.cam_max \in Int BY <1>1, <2>1
  <2> QED BY <1>3, <2>2
<1>6. again.tier # Absent /\ again.sku # Absent
  <2>1. m.tier = data.tier.word /\ m.sku = data.sku.word BY ModelIs DEF m
  <2> QED BY <1>3, <2>1
<1>7. again.cam_base # Absent /\ again.cam_max # Absent BY <1>5, MarkerAssumption
<1>8. \A k \in MODEL_KEYS : again[k] # Absent
    BY <1>6, <1>7 DEF MODEL_KEYS
<1>9. Accepted(again)
  <2>1. Truncated(again.cam_base) = m.cam_base /\ Truncated(again.cam_max) = m.cam_max
    BY <1>3, <1>4
  <2>2. 0 < m.cam_base /\ m.cam_base <= m.cam_max
    <3>1. \A n \in Nat \ {0} : 0 < n OBVIOUS
    <3> QED BY <1>1, <3>1
  <2>3. again.tier.word = m.tier /\ again.sku.word = m.sku BY <1>3
  <2> QED BY <1>1, <1>5, <1>8, <2>1, <2>2, <2>3 DEF Accepted
<1>10. ParseModel(again).outcome = "ok"
    BY <1>5, <1>9, AcceptedIs DEF JsonNumbers
<1>11. ParseModel(again) =
         [outcome |-> "ok",
          model |-> [tier |-> m.tier, sku |-> m.sku, cam_base |-> m.cam_base, cam_max |-> m.cam_max]]
    BY <1>3, <1>4, <1>10, ModelIs
<1> QED BY <1>2, <1>11 DEF again

\* Whatever is posted, one body after the other: a request that satisfies the
\* README's table is built with its numbers, and its facts, posted back, are
\* accepted unchanged.
THEOREM RequestsAreBuiltHolds == BodySizes => (RequestsSpec => []RequestsAreBuilt)
<1> SUFFICES ASSUME BodySizes PROVE RequestsSpec => []RequestsAreBuilt OBVIOUS
<1>1. RequestsInit => posted \in Bodies BY DEF RequestsInit
<1>2. posted \in Bodies /\ [Retag]_posted => (posted \in Bodies)'
  BY DEF Retag, Bodies
<1>3. posted \in Bodies => RequestsAreBuilt
  <2> SUFFICES ASSUME posted \in Bodies PROVE RequestsAreBuilt OBVIOUS
  <2>1. posted.cam_base \in JsonNumbers /\ posted.cam_max \in JsonNumbers
    <3>1. Halves \subseteq Int BY DEF BodySizes
    <3> QED BY <3>1 DEF Bodies, Numbers, JsonNumbers
  <2>2. TaggedUnitsAreBuilt BY <2>1, TaggedIsBuilt DEF TaggedUnitsAreBuilt, Parsed
  <2>3. ParsedFactsReparse
    <3> SUFFICES ASSUME Parsed.outcome = "ok"
                 PROVE  ParseModel(AsRequest(Parsed.model)) = Parsed
      BY DEF ParsedFactsReparse
    <3>1. posted.tier # Absent /\ posted.sku # Absent
      <4>1. Accepted(posted) BY <2>1, AcceptedIs DEF Parsed
      <4> QED BY <4>1 DEF Accepted, MODEL_KEYS
    <3>2. posted.tier.word \in Tiers /\ posted.sku.word \in Skus
      BY <3>1 DEF Bodies, Worded
    <3>3. \A word \in {posted.tier.word, posted.sku.word} :
            [word |-> word, dressed |-> FALSE] # Absent
      BY <3>2 DEF BodySizes
    <3> QED BY <2>1, <3>3, AcceptedReparses DEF Parsed
  <2> QED BY <2>2, <2>3 DEF RequestsAreBuilt
<1> QED BY <1>1, <1>2, <1>3, PTL DEF RequestsSpec

-----------------------------------------------------------------------------
(* The builder *)

\* A request that passes validation has a device and a model.
LEMMA ParsedRequest ==
    ASSUME NEW r \in Requests, r.device_id # Malformed, ParseModel(r.facts).outcome = "ok"
    PROVE  r.device_id \in Devices /\ ParseModel(r.facts).model \in Models
BY RequestAssumption DEF Models

\* The state of the builder always has the shape that TypeOK describes; in
\* particular a thread inside the try block has a validated device and model.
THEOREM TypeCorrect == Spec => []TypeOK
<1> USE DEF TypeOK, Content, NoRequest, Unit, disk
<1>1. Init => TypeOK
  BY DEF Init, Building
<1>2. ASSUME TypeOK, [Next]_vars PROVE TypeOK'
  <2>1. CASE UNCHANGED vars
    BY <1>2, <2>1 DEF vars
  <2>2. CASE Crash
    BY <1>2, <2>2 DEF Crash, Building
  <2> USE DEF Goto, Answer
  <2>3. ASSUME NEW t \in Threads, Receive(t) PROVE TypeOK'
    <3>1. PICK r \in Requests : Receive(t)!(r)
      BY <2>3 DEF Receive
    <3>2. CASE r.device_id = Malformed \/ ParseModel(r.facts).outcome # "ok"
      BY <1>2, <3>1, <3>2, SMTT(30) DEF Building
    <3>3. CASE r.device_id # Malformed /\ ParseModel(r.facts).outcome = "ok"
      BY <1>2, <3>1, <3>3, ParsedRequest, SMTT(30) DEF Building
    <3> QED BY <3>2, <3>3
  <2>4. ASSUME NEW t \in Threads, Check(t) \/ Claim(t) PROVE TypeOK'
    BY <1>2, <2>4 DEF Check, Claim, Building
  <2>5. ASSUME NEW t \in Threads, TruncateId(t) \/ FlushId(t) PROVE TypeOK'
    <3>1. CASE TruncateId(t)
      BY <1>2, <3>1 DEF TruncateId, WriteOverlay, Building
    <3>2. CASE FlushId(t)
      BY <1>2, <3>2 DEF FlushId, WriteOverlay, Building
    <3> QED BY <2>5, <3>1, <3>2
  <2>6. ASSUME NEW t \in Threads, TruncateModel(t) \/ FlushModel(t) PROVE TypeOK'
    BY <1>2, <2>6 DEF TruncateModel, FlushModel, WriteOverlay, Building
  <2>7. ASSUME NEW t \in Threads, VerifyId(t) \/ VerifyModel(t) PROVE TypeOK'
    BY <1>2, <2>7 DEF VerifyId, VerifyModel, Verify, Building
  <2>8. ASSUME NEW t \in Threads, Clean(t) \/ Prepare(t) PROVE TypeOK'
    BY <1>2, <2>8 DEF Clean, Prepare, Building
  <2>9. ASSUME NEW t \in Threads, PrepareRootfs(t) \/ MakeImage(t) PROVE TypeOK'
    BY <1>2, <2>9 DEF PrepareRootfs, MakeImage, Building
  <2>10. ASSUME NEW t \in Threads, Publish(t) PROVE TypeOK'
    BY <1>2, <2>10 DEF Publish, Building
  <2>11. ASSUME NEW t \in Threads, Cleanup(t) PROVE TypeOK'
    BY <1>2, <2>11 DEF Cleanup, Building
  <2>12. ASSUME NEW t \in Threads, Fail(t) \/ Release(t) \/ Respond(t) PROVE TypeOK'
    <3>1. CASE Fail(t)
      BY <1>2, <3>1 DEF Fail, Building
    <3>2. CASE Release(t)
      BY <1>2, <3>2 DEF Release, Building
    <3>3. CASE Respond(t)
      BY <1>2, <3>3 DEF Respond, Building
    <3> QED BY <2>12, <3>1, <3>2, <3>3
  <2> QED
    BY <1>2, <2>1, <2>2, <2>3, <2>4, <2>5, <2>6, <2>7, <2>8, <2>9, <2>10, <2>11, <2>12,
       NextCases
<1> QED BY <1>1, <1>2, PTL DEF Spec

-----------------------------------------------------------------------------

\* CURRENT_BUILD_ID never outlives the build it names.  The holder it names
\* keeps its request until its own finally block, which clears the global.
THEOREM BusyIsAlive == Spec => []BusyNamesALiveBuild
<1> USE DEF BusyNamesALiveBuild, Holding, Building, disk
<1>1. Init => BusyNamesALiveBuild
  BY DEF Init
<1>2. ASSUME TypeOK, BusyNamesALiveBuild, [Next]_vars PROVE BusyNamesALiveBuild'
  <2>1. CASE UNCHANGED vars
    BY <1>2, <2>1 DEF vars
  <2>2. CASE Crash
    BY <1>2, <2>2 DEF Crash
  <2> USE DEF Goto, Answer, TypeOK
  <2>3. ASSUME NEW t \in Threads, Receive(t) PROVE BusyNamesALiveBuild'
    BY <1>2, <2>3 DEF Receive
  <2>4. ASSUME NEW t \in Threads, Check(t) \/ Claim(t) PROVE BusyNamesALiveBuild'
    BY <1>2, <2>4 DEF Check, Claim
  <2>5. ASSUME NEW t \in Threads,
               TruncateId(t) \/ FlushId(t) \/ TruncateModel(t) \/ FlushModel(t)
        PROVE  BusyNamesALiveBuild'
    BY <1>2, <2>5 DEF TruncateId, FlushId, TruncateModel, FlushModel, WriteOverlay
  <2>6. ASSUME NEW t \in Threads, VerifyId(t) \/ VerifyModel(t) PROVE BusyNamesALiveBuild'
    BY <1>2, <2>6 DEF VerifyId, VerifyModel, Verify
  <2>7. ASSUME NEW t \in Threads,
               Clean(t) \/ Prepare(t) \/ PrepareRootfs(t) \/ MakeImage(t)
        PROVE  BusyNamesALiveBuild'
    BY <1>2, <2>7 DEF Clean, Prepare, PrepareRootfs, MakeImage
  <2>8. ASSUME NEW t \in Threads, Publish(t) \/ Cleanup(t) \/ Fail(t)
        PROVE  BusyNamesALiveBuild'
    BY <1>2, <2>8 DEF Publish, Cleanup, Fail
  <2>9. ASSUME NEW t \in Threads, Release(t) \/ Respond(t) PROVE BusyNamesALiveBuild'
    BY <1>2, <2>9 DEF Release, Respond
  <2> QED
    BY <1>2, <2>1, <2>2, <2>3, <2>4, <2>5, <2>6, <2>7, <2>8, <2>9, NextCases
<1> QED BY <1>1, <1>2, TypeCorrect, PTL DEF Spec
-----------------------------------------------------------------------------

LEMMA SerialIsSpec == SerialSpec => Spec
<1>1. [Next /\ SerializesBuilds']_vars => [Next]_vars
  OBVIOUS
<1> QED BY <1>1, PTL DEF SerialSpec, Spec

LEMMA UnitContent ==
    ASSUME TypeOK, NEW t \in Threads, pc[t] \in Building \cup {"check", "release"}
    PROVE  Unit(t) \in Content /\ Unit(t) # NoImage /\ Unit(t) # NoModel
BY SentinelAssumption DEF TypeOK, Unit, Content

\* Only the thread that holds the checkout changes it, and no other one holds it.
LEMMA SerialStep ==
    ASSUME TypeOK, TypeOK', SerialInv, Next, SerializesBuilds'
    PROVE  SerialInv'
<1> USE DEF SerializesBuilds, Holding, Building, IdBaked, ModelBaked, Cleaned, disk
<1>1. CASE Crash
  BY <1>1 DEF Crash, SerialInv, ImageCarriesItsUnit, SuccessMeansMyImage
<1> USE DEF Goto, Answer
<1>2. ASSUME NEW t \in Threads, Receive(t) PROVE SerialInv'
  <2>1. PICK r \in Requests : Receive(t)!(r)
    BY <1>2 DEF Receive
  <2>2. CASE r.device_id = Malformed \/ ParseModel(r.facts).outcome # "ok"
    BY <2>1, <2>2 DEF TypeOK, SerialInv, ImageCarriesItsUnit, SuccessMeansMyImage, Unit
  <2>3. CASE r.device_id # Malformed /\ ParseModel(r.facts).outcome = "ok"
    BY <2>1, <2>3 DEF TypeOK, SerialInv, ImageCarriesItsUnit, SuccessMeansMyImage, Unit
  <2> QED BY <2>2, <2>3
<1> USE DEF TypeOK, SerialInv, ImageCarriesItsUnit, SuccessMeansMyImage, Unit
<1>3. ASSUME NEW t \in Threads, Check(t) \/ Claim(t) PROVE SerialInv'
  BY <1>3 DEF Check, Claim
<1>4. ASSUME NEW t \in Threads, TruncateId(t) \/ FlushId(t) PROVE SerialInv'
  BY <1>4 DEF TruncateId, FlushId, WriteOverlay, Content
<1>5. ASSUME NEW t \in Threads, TruncateModel(t) \/ FlushModel(t) PROVE SerialInv'
  BY <1>5 DEF TruncateModel, FlushModel, WriteOverlay, Content
<1>6. ASSUME NEW t \in Threads, VerifyId(t) \/ VerifyModel(t) PROVE SerialInv'
  BY <1>6 DEF VerifyId, VerifyModel, Verify
<1>7. ASSUME NEW t \in Threads, Clean(t) \/ Prepare(t) PROVE SerialInv'
  BY <1>7 DEF Clean, Prepare
<1>8. ASSUME NEW t \in Threads, PrepareRootfs(t) \/ MakeImage(t) PROVE SerialInv'
  <2>1. CASE PrepareRootfs(t)
    <3>1. overlay = Unit(t)
      BY <2>1 DEF PrepareRootfs, Content
    <3>2. rootfs' = Unit(t) /\ Unit(t)' = Unit(t) /\ bin' = bin
      BY <2>1, <3>1 DEF PrepareRootfs
    <3> QED BY <2>1, <3>2 DEF PrepareRootfs
  <2>2. CASE MakeImage(t)
    BY <2>2 DEF MakeImage
  <2> QED BY <1>8, <2>1, <2>2
<1>9. ASSUME NEW t \in Threads, Publish(t) PROVE SerialInv'
  <2> USE <1>9
  <2>1. CASE bin = NoImage
    BY <2>1 DEF Publish
  <2>2. CASE bin # NoImage
    <3>1. bin = Unit(t) /\ images' = [images EXCEPT ![req[t].id] = Unit(t)]
      BY <2>2 DEF Publish
    <3>2. req' = req /\ overlay' = overlay /\ pc' = [pc EXCEPT ![t] = "cleanup"]
          /\ reply' = reply
      BY <2>2 DEF Publish
    <3>3. ImageCarriesItsUnit'
      BY <3>1, <3>2 DEF Publish
    <3> QED BY <3>1, <3>2, <3>3 DEF Publish
  <2> QED BY <2>1, <2>2
<1>10. ASSUME NEW t \in Threads, Cleanup(t) PROVE SerialInv'
  BY <1>10 DEF Cleanup
<1>11. ASSUME NEW t \in Threads, Fail(t) PROVE SerialInv'
  BY <1>11 DEF Fail
<1>12. ASSUME NEW t \in Threads, Release(t) \/ Respond(t) PROVE SerialInv'
  <2>1. CASE Release(t)
    BY <2>1 DEF Release
  <2>2. CASE Respond(t)
    BY <2>2 DEF Respond
  <2> QED BY <1>12, <2>1, <2>2
<1> HIDE DEF SerialInv, Goto, Answer, TypeOK, SerializesBuilds
<1> QED
  BY <1>1, <1>2, <1>3, <1>4, <1>5, <1>6, <1>7, <1>8, <1>9, <1>10, <1>11, <1>12, NextCases

THEOREM SerialInvariance == SerialSpec => []SerialInv
<1>1. Init => SerialInv
  BY DEF Init, SerialInv, SerializesBuilds, ImageCarriesItsUnit, SuccessMeansMyImage,
         Holding, Building, IdBaked, ModelBaked, Cleaned
<1>2. ASSUME TypeOK, TypeOK', SerialInv, [Next /\ SerializesBuilds']_vars
      PROVE  SerialInv'
  <2>1. CASE UNCHANGED vars
    BY <1>2, <2>1 DEF vars, SerialInv, SerializesBuilds, ImageCarriesItsUnit,
                      SuccessMeansMyImage, Unit
  <2> QED BY <1>2, <2>1, SerialStep
<1> QED BY <1>1, <1>2, TypeCorrect, SerialIsSpec, PTL DEF SerialSpec

\* As long as builds do not overlap, the image filed under a device was built
\* from its own id and from the facts of a request for it, whatever failed or
\* crashed builds left in the checkout.
THEOREM SerialImages == SerialSpec => []ImageCarriesItsUnit
<1>1. SerialInv => ImageCarriesItsUnit
  BY DEF SerialInv
<1> QED BY <1>1, SerialInvariance, PTL

\* As long as builds do not overlap, an answer 200 stands for the image of this
\* very request.
THEOREM SerialAnswers == SerialSpec => []SuccessMeansMyImage
<1>1. SerialInv => SuccessMeansMyImage
  BY DEF SerialInv
<1> QED BY <1>1, SerialInvariance, PTL
-----------------------------------------------------------------------------
(* The refinement: the abstract builder works on the unit of the thread that *)
(* holds the checkout.                                                       *)

LEMMA HolderUnit ==
    ASSUME SerializesBuilds, NEW t \in Threads, pc[t] \in Holding
    PROVE  CurrentUnit = Unit(t)
BY DEF SerializesBuilds, CurrentUnit

LEMMA NoHolderUnit ==
    ASSUME \A t \in Threads : pc[t] \notin Holding
    PROVE  CurrentUnit = NoModel
BY DEF CurrentUnit

LEMMA SameHolder ==
    ASSUME SerializesBuilds, SerializesBuilds',
           \A h \in Threads : pc[h] \in Holding <=> pc'[h] \in Holding,
           \A h \in Threads : pc[h] \in Holding => req'[h] = req[h]
    PROVE  CurrentUnit' = CurrentUnit
<1>1. CASE \E h \in Threads : pc[h] \in Holding
  <2>1. PICK h \in Threads : pc[h] \in Holding
    BY <1>1
  <2>2. CurrentUnit = Unit(h) /\ Unit(h)' = Unit(h)
    BY <2>1, HolderUnit DEF Unit
  <2>3. CurrentUnit' = Unit(h)'
    BY <2>1 DEF SerializesBuilds, CurrentUnit, Unit
  <2> QED BY <2>2, <2>3
<1>2. CASE ~ \E h \in Threads : pc[h] \in Holding
  BY <1>2 DEF CurrentUnit
<1> QED BY <1>1, <1>2

LEMMA AbstractStep ==
    ASSUME TypeOK, SerialInv, Next, SerializesBuilds'
    PROVE  [Serial!Next]_<<CurrentUnit, images>>
<1> SUFFICES \/ CurrentUnit' = CurrentUnit /\ images' = images
             \/ Serial!Begin \/ Serial!Deliver \/ Serial!End
  BY DEF Serial!Next
<1> USE DEF disk, Goto, Answer
<1>0. SerializesBuilds
  BY DEF SerialInv
<1>1. CASE Crash
  <2>1. CurrentUnit' = NoModel /\ images' = images
    BY <1>1 DEF Crash, CurrentUnit, Holding, Building
  <2>2. CASE CurrentUnit = NoModel
    BY <2>1, <2>2
  <2>3. CASE CurrentUnit # NoModel
    BY <2>1, <2>3 DEF Serial!End
  <2> QED BY <2>2, <2>3
<1>2. ASSUME NEW t \in Threads, Receive(t) \/ Check(t) \/ Respond(t)
      PROVE  CurrentUnit' = CurrentUnit /\ images' = images
  BY <1>0, <1>2, SameHolder DEF Receive, Check, Respond, TypeOK, Holding, Building
<1>3. ASSUME NEW t \in Threads, Claim(t) PROVE Serial!Begin
  <2>1. pc[t] = "claim" /\ pc'[t] = "truncate_id" /\ req' = req /\ images' = images
    BY <1>3 DEF Claim, TypeOK
  <2>2. \A h \in Threads : pc[h] \notin Holding
    BY <1>3, <2>1 DEF Claim, SerializesBuilds, Holding, Building, TypeOK
  <2>3. CurrentUnit = NoModel
    BY <2>2, NoHolderUnit
  <2>4. CurrentUnit' = Unit(t)
    BY <2>1 DEF SerializesBuilds, CurrentUnit, Unit, Holding, Building
  <2>5. Unit(t) \in [id : Devices, model : Models]
    BY <2>1 DEF TypeOK, Unit, Building
  <2> QED BY <2>1, <2>3, <2>4, <2>5 DEF Serial!Begin
<1>4. ASSUME NEW t \in Threads,
             \/ TruncateId(t) \/ FlushId(t) \/ TruncateModel(t) \/ FlushModel(t)
             \/ VerifyId(t) \/ VerifyModel(t)
      PROVE  CurrentUnit' = CurrentUnit /\ images' = images
  BY <1>0, <1>4, SameHolder
  DEF TruncateId, FlushId, TruncateModel, FlushModel, WriteOverlay, VerifyId, VerifyModel,
      Verify, Holding, Building, TypeOK
<1>5. ASSUME NEW t \in Threads,
             \/ Clean(t) \/ Prepare(t) \/ PrepareRootfs(t) \/ MakeImage(t) \/ Cleanup(t)
      PROVE  CurrentUnit' = CurrentUnit /\ images' = images
  BY <1>0, <1>5, SameHolder
  DEF Clean, Prepare, PrepareRootfs, MakeImage, Cleanup, Holding, Building, TypeOK
<1>6. ASSUME NEW t \in Threads, Fail(t) \/ Release(t)
      PROVE  \/ CurrentUnit' = CurrentUnit /\ images' = images
             \/ Serial!End
  <2>1. CASE Fail(t)
    BY <1>0, <2>1, SameHolder DEF Fail, Holding, Building, TypeOK
  <2>2. CASE Release(t)
    <3>1. pc[t] = "release" /\ pc' = [pc EXCEPT ![t] = "respond"] /\ images' = images
      BY <2>2 DEF Release
    <3>2. \A h \in Threads : pc'[h] \notin Holding
      BY <1>0, <3>1 DEF SerializesBuilds, Holding, Building, TypeOK
    <3>3. CurrentUnit' = NoModel
      BY <3>2 DEF CurrentUnit
    <3>4. CurrentUnit = Unit(t)
      BY <1>0, <3>1, HolderUnit DEF Holding
    <3>5. Unit(t) # NoModel
      BY <3>1, UnitContent
    <3> QED BY <3>1, <3>3, <3>4, <3>5 DEF Serial!End
  <2> QED BY <1>6, <2>1, <2>2
<1>7. ASSUME NEW t \in Threads, Publish(t)
      PROVE  \/ CurrentUnit' = CurrentUnit /\ images' = images
             \/ Serial!Deliver
  <2>1. CurrentUnit' = CurrentUnit
    BY <1>0, <1>7, SameHolder DEF Publish, Holding, Building, TypeOK
  <2>2. pc[t] = "publish" /\ CurrentUnit = Unit(t) /\ Unit(t) # NoModel
    BY <1>0, <1>7, HolderUnit, UnitContent DEF Publish, Holding, Building
  <2>3. CASE bin = NoImage
    BY <1>7, <2>1, <2>3 DEF Publish
  <2>4. CASE bin # NoImage
    <3>1. bin = Unit(t)
      BY <2>2, <2>4 DEF SerialInv, Cleaned
    <3>2. images' = [images EXCEPT ![Unit(t).id] = Unit(t)]
      BY <1>7, <2>4, <3>1 DEF Publish, Unit
    <3> QED BY <2>1, <2>2, <3>2 DEF Serial!Deliver
  <2> QED BY <2>3, <2>4
<1> QED BY <1>1, <1>2, <1>3, <1>4, <1>5, <1>6, <1>7, NextCases

\* As long as builds do not overlap, the server is the builder of one unit at a
\* time that the factory takes it for.
THEOREM SerialRefinement == SerialSpec => BuildsOneUnitAtATime
<1>1. Init => Serial!Init
  BY DEF Init, Serial!Init, CurrentUnit, Holding, Building
<1>2. ASSUME TypeOK, SerialInv, [Next /\ SerializesBuilds']_vars
      PROVE  [Serial!Next]_<<CurrentUnit, images>>
  <2>1. CASE UNCHANGED vars
    BY <2>1 DEF vars, CurrentUnit, Unit
  <2> QED BY <1>2, <2>1, AbstractStep
<1> QED
  BY <1>1, <1>2, TypeCorrect, SerialIsSpec, SerialInvariance, PTL
  DEF SerialSpec, BuildsOneUnitAtATime, Serial!Spec
=============================================================================
