---------------------------- MODULE BuilderAgent ----------------------------
(***************************************************************************)
(* The factory builder API, builder_agent.py: a waitress server whose      *)
(* worker threads all run build_batch over one ImageBuilder checkout.      *)
(*                                                                         *)
(* The checkout is shared: the files/ overlay with the identity of the     *)
(* unit, the rootfs assembled under build_dir, and the image under         *)
(* bin/targets.  CURRENT_BUILD_ID is the only thing that keeps two         *)
(* threads apart; it is tested in one statement and set in a later one.    *)
(*                                                                         *)
(* `make image' is external: PrepareRootfs and MakeImage say what the code *)
(* relies on, that the rootfs is a copy of the overlay and that the image  *)
(* is made of the rootfs.                                                  *)
(***************************************************************************)
EXTENDS SkuFacts

CONSTANTS
    Threads,    \* the waitress worker threads (threads=4)
    Devices,    \* well-formed device ids
    Malformed,  \* stands for every device id the pattern refuses
    Requests,   \* the POST bodies: [device_id, facts]
    None,       \* no device, and an empty file
    NoImage     \* no such image file

Models == {ParseModel(r.facts).model : r \in Requests} \ {NoModel}

\* What an image was built from.  None marks a file that was empty when copied.
Content == [id : Devices \cup {None}, model : Models \cup {None}]

ASSUME RequestAssumption ==
    \A r \in Requests :
        /\ r.device_id \in Devices \cup {Malformed}
        /\ ParseModel(r.facts).outcome = "ok" => ParseModel(r.facts).model # NoModel

ASSUME SentinelAssumption ==
    None \notin Devices /\ Malformed \notin Devices /\ None \notin Models
    /\ NoImage \notin Content /\ NoModel \notin Content

VARIABLES
    CURRENT_BUILD_ID,  \* the module global
    pc,                \* where each thread is in build_batch
    req,               \* the validated request a thread works on
    reply,             \* the HTTP status a thread is about to answer with
    overlay,           \* files/etc/vuon_device_id and vuon_model.json
    rootfs,            \* build_dir/*/root-*
    bin,               \* the image under bin/targets
    images             \* /home/vuon_images, by the device id in the file name

vars == <<CURRENT_BUILD_ID, pc, req, reply, overlay, rootfs, bin, images>>
disk == <<overlay, rootfs, bin, images>>

-----------------------------------------------------------------------------

NoRequest == [id |-> None, model |-> None]
Unit(t) == [id |-> req[t].id, model |-> req[t].model]

\* The statements inside the try block, in program order.
Building == { "claim", "truncate_id", "flush_id", "verify_id", "truncate_model",
              "flush_model", "verify_model", "clean", "prepare", "prepare_rootfs",
              "make_image", "publish", "cleanup" }

\* From the assignment of CURRENT_BUILD_ID to the end of the finally block.
Holding == (Building \ {"claim"}) \cup {"release"}

Init ==
    /\ CURRENT_BUILD_ID = None
    /\ pc = [t \in Threads |-> "idle"]
    /\ req = [t \in Threads |-> NoRequest]
    /\ reply = [t \in Threads |-> 0]
    /\ overlay = [id |-> None, model |-> None]
    /\ rootfs = NoImage
    /\ bin = NoImage
    /\ images = [d \in Devices |-> NoImage]

Goto(t, from, to) == pc[t] = from /\ pc' = [pc EXCEPT ![t] = to]
Answer(t, code) == reply' = [reply EXCEPT ![t] = code]

-----------------------------------------------------------------------------

(***************************************************************************)
(* A POST arrives.  The id and the facts are validated before the lock is  *)
(* looked at: a bad one is answered 400, and an exception in the           *)
(* validation is answered 500 by Flask.                                    *)
(***************************************************************************)
Receive(t) ==
    \E r \in Requests :
        LET parsed == ParseModel(r.facts) IN
        /\ pc[t] = "idle"
        /\ IF r.device_id = Malformed \/ parsed.outcome # "ok"
             THEN /\ Goto(t, "idle", "respond")
                  /\ Answer(t, IF r.device_id # Malformed /\ parsed.outcome = "raised"
                                 THEN 500 ELSE 400)
                  /\ UNCHANGED req
             ELSE /\ Goto(t, "idle", "check")
                  /\ req' = [req EXCEPT ![t] = [id |-> r.device_id, model |-> parsed.model]]
                  /\ UNCHANGED reply
        /\ UNCHANGED <<CURRENT_BUILD_ID, disk>>

\* if CURRENT_BUILD_ID is not None: 423
Check(t) ==
    /\ IF CURRENT_BUILD_ID # None
         THEN Goto(t, "check", "respond") /\ Answer(t, 423)
         ELSE Goto(t, "check", "claim") /\ UNCHANGED reply
    /\ UNCHANGED <<CURRENT_BUILD_ID, req, disk>>

Claim(t) ==
    /\ Goto(t, "claim", "truncate_id")
    /\ CURRENT_BUILD_ID' = req[t].id
    /\ UNCHANGED <<req, reply, disk>>

-----------------------------------------------------------------------------
(* Baking the identity.  open("w") empties the file; the text reaches it   *)
(* when the file is closed.                                                *)

WriteOverlay(t, from, to, field, value) ==
    /\ Goto(t, from, to)
    /\ overlay' = [overlay EXCEPT ![field] = value]
    /\ UNCHANGED <<CURRENT_BUILD_ID, req, reply, rootfs, bin, images>>

TruncateId(t) == WriteOverlay(t, "truncate_id", "flush_id", "id", None)
FlushId(t)    == WriteOverlay(t, "flush_id", "verify_id", "id", req[t].id)

\* Mutant of TruncateModel: the facts are written only when there are none yet.
BugModelKept(t) ==
    IF overlay.model = None
      THEN WriteOverlay(t, "truncate_model", "flush_model", "model", None)
      ELSE WriteOverlay(t, "truncate_model", "verify_model", "model", overlay.model)

TruncateModel(t) == WriteOverlay(t, "truncate_model", "flush_model", "model", None)
FlushModel(t)    == WriteOverlay(t, "flush_model", "verify_model", "model", req[t].model)

Verify(t, from, ok, to) ==
    /\ IF ok THEN Goto(t, from, to) /\ UNCHANGED reply
             ELSE Goto(t, from, "release") /\ Answer(t, 500)
    /\ UNCHANGED <<CURRENT_BUILD_ID, req, disk>>

\* The id is compared with the one that was written ...
VerifyId(t) == Verify(t, "verify_id", overlay.id = req[t].id, "truncate_model")

\* ... but write_model_file only confirms that the file parses and has its keys.
VerifyModel(t) == Verify(t, "verify_model", overlay.model # None, "clean")

-----------------------------------------------------------------------------

\* Mutant of Clean: bin/targets is not removed.
BugCleanKeepsBin(t) ==
    /\ Goto(t, "clean", "prepare")
    /\ rootfs' = NoImage
    /\ UNCHANGED <<CURRENT_BUILD_ID, req, reply, overlay, bin, images>>

\* rm -rf tmp build_dir/*/root-* bin/targets
Clean(t) ==
    /\ Goto(t, "clean", "prepare")
    /\ rootfs' = NoImage
    /\ bin' = NoImage
    /\ UNCHANGED <<CURRENT_BUILD_ID, req, reply, overlay, images>>

\* The grub template, files/boot, the permissions and .config: rewritten to the
\* same content by every build, so only their failing tells builds apart.
Prepare(t) ==
    /\ Goto(t, "prepare", "prepare_rootfs")
    /\ UNCHANGED <<CURRENT_BUILD_ID, req, reply, disk>>

\* make image copies FILES=files/ into the rootfs ...
PrepareRootfs(t) ==
    /\ Goto(t, "prepare_rootfs", "make_image")
    /\ rootfs' = overlay
    /\ UNCHANGED <<CURRENT_BUILD_ID, req, reply, overlay, bin, images>>

\* ... and turns the rootfs into the image; it may also succeed without leaving
\* an image under the name the agent looks for.
MakeImage(t) ==
    /\ rootfs # NoImage
    /\ Goto(t, "make_image", "publish")
    /\ bin' \in {rootfs, bin}
    /\ UNCHANGED <<CURRENT_BUILD_ID, req, reply, overlay, rootfs, images>>

\* Mutant of Publish: a build without an image is answered like the others.
BugPublishNothing(t) ==
    /\ Goto(t, "publish", "cleanup")
    /\ images' = IF bin = NoImage THEN images ELSE [images EXCEPT ![req[t].id] = bin]
    /\ bin' = NoImage
    /\ UNCHANGED <<CURRENT_BUILD_ID, req, reply, overlay, rootfs>>

\* os.path.exists, then shutil.move to vuon_nvr_<device_id>.img.gz.
Publish(t) ==
    /\ IF bin # NoImage
         THEN /\ Goto(t, "publish", "cleanup")
              /\ images' = [images EXCEPT ![req[t].id] = bin]
              /\ bin' = NoImage
              /\ UNCHANGED reply
         ELSE /\ Goto(t, "publish", "release")
              /\ Answer(t, 500)
              /\ UNCHANGED <<bin, images>>
    /\ UNCHANGED <<CURRENT_BUILD_ID, req, overlay, rootfs>>

\* shutil.rmtree(bin/targets/x86/64, ignore_errors=True)
Cleanup(t) ==
    /\ Goto(t, "cleanup", "release")
    /\ bin' = NoImage
    /\ Answer(t, 200)
    /\ UNCHANGED <<CURRENT_BUILD_ID, req, overlay, rootfs, images>>

\* except Exception: any statement that touches files or runs a command.
Fail(t) ==
    /\ pc[t] \in Building \ {"claim", "cleanup"}
    /\ pc' = [pc EXCEPT ![t] = "release"]
    /\ Answer(t, 500)
    /\ UNCHANGED <<CURRENT_BUILD_ID, req, disk>>

\* Mutant of Release: no finally block.
BugReleaseKeepsBusy(t) ==
    /\ Goto(t, "release", "respond")
    /\ UNCHANGED <<CURRENT_BUILD_ID, req, reply, disk>>

\* finally: CURRENT_BUILD_ID = None
Release(t) ==
    /\ Goto(t, "release", "respond")
    /\ CURRENT_BUILD_ID' = None
    /\ UNCHANGED <<req, reply, disk>>

\* The answer leaves, and with it the locals of the request.
Respond(t) ==
    /\ Goto(t, "respond", "idle")
    /\ req' = [req EXCEPT ![t] = NoRequest]
    /\ Answer(t, 0)
    /\ UNCHANGED <<CURRENT_BUILD_ID, disk>>

\* The service dies with all its threads and children (Restart=always); the
\* checkout and the finished images stay as they are.
Crash ==
    /\ CURRENT_BUILD_ID' = None
    /\ pc' = [t \in Threads |-> "idle"]
    /\ req' = [t \in Threads |-> NoRequest]
    /\ reply' = [t \in Threads |-> 0]
    /\ UNCHANGED disk

-----------------------------------------------------------------------------

Step(t) ==
    \/ Check(t) \/ Claim(t)
    \/ TruncateId(t) \/ FlushId(t) \/ VerifyId(t)
    \/ TruncateModel(t) \/ FlushModel(t) \/ VerifyModel(t)
    \/ Clean(t) \/ Prepare(t) \/ PrepareRootfs(t) \/ MakeImage(t)
    \/ Publish(t) \/ Cleanup(t) \/ Fail(t) \/ Release(t) \/ Respond(t)

Next == Crash \/ \E t \in Threads : Receive(t) \/ Step(t)

Spec == Init /\ [][Next]_vars

\* A thread that runs a request goes on with it: every subprocess ends, well or
\* badly.  Nothing makes a client send a request.
Fairness == \A t \in Threads : WF_vars(Step(t))

FairSpec == Spec /\ Fairness
-----------------------------------------------------------------------------

TypeOK ==
    /\ CURRENT_BUILD_ID \in Devices \cup {None}
    /\ pc \in [Threads -> Building \cup {"idle", "check", "release", "respond"}]
    /\ req \in [Threads -> Content]
    /\ \A t \in Threads : pc[t] \in Building \cup {"check", "release"} =>
          req[t].id \in Devices /\ req[t].model \in Models
    /\ reply \in [Threads -> {0, 200, 400, 423, 500}]
    /\ overlay \in Content
    /\ rootfs \in Content \cup {NoImage}
    /\ bin \in Content \cup {NoImage}
    /\ images \in [Devices -> Content \cup {NoImage}]

\* A 423 and the status page never name a build that is over: while
\* CURRENT_BUILD_ID names a device, a thread is between the assignment and the
\* end of its finally block with that device.  A global left behind by any of the
\* early returns, or by two threads that cleared it in turn, would refuse every
\* later build until somebody restarts the service.
BusyNamesALiveBuild ==
    CURRENT_BUILD_ID # None =>
        \E t \in Threads : pc[t] \in Holding /\ req[t].id = CURRENT_BUILD_ID

\* README.md, "Factory Builder API": the server "serializes builds (one at a
\* time)".  Two threads that both pass the test of build_batch before either
\* assigns CURRENT_BUILD_ID break it.
SerializesBuilds ==
    \A s, t \in Threads : pc[s] \in Holding /\ pc[t] \in Holding => s = t

\* The comment in build_batch, "so each image carries exactly this unit's facts":
\* the image filed under a device was built from the identity of that device and
\* from the facts of some request for it, never from a file that another build,
\* failed, crashed or running, left in the shared checkout.
ImageCarriesItsUnit ==
    \A d \in Devices : images[d] # NoImage =>
        /\ images[d].id = d
        /\ \E r \in Requests : r.device_id = d /\ images[d].model = ParseModel(r.facts).model

\* An answer 200 is given only when the file of the device that was asked for is
\* the image of this very request, not one an earlier build had filed there.
SuccessMeansMyImage ==
    \A t \in Threads : pc[t] = "release" /\ reply[t] = 200 => images[req[t].id] = Unit(t)

\* Whatever a build does, also when it fails half way, the server gets out of
\* "busy" again without a restart.
BusyEnds == CURRENT_BUILD_ID # None ~> CURRENT_BUILD_ID = None

-----------------------------------------------------------------------------
(***************************************************************************)
(* What builds promise as long as they do not overlap.  SerialSpec keeps   *)
(* every interleaving of the HTTP requests, and every failure and crash,   *)
(* and drops only the steps that break SerializesBuilds.                   *)
(***************************************************************************)
SerialSpec == Init /\ [][Next /\ SerializesBuilds']_vars

\* What makes the image right: from each write on, the shared file holds what the
\* only thread at work put there, up to the move of the image.
IdBaked    == Building \ {"claim", "truncate_id", "flush_id"}
ModelBaked == IdBaked \ {"verify_id", "truncate_model", "flush_model"}
Cleaned    == {"prepare", "prepare_rootfs", "make_image", "publish"}

SerialInv ==
    /\ SerializesBuilds
    /\ \A t \in Threads :
        /\ pc[t] \in IdBaked => overlay.id = req[t].id
        /\ pc[t] \in ModelBaked => overlay.model = req[t].model
        /\ pc[t] \in Cleaned => {rootfs, bin} \subseteq {NoImage, Unit(t)}
        /\ pc[t] = "cleanup" => images[req[t].id] = Unit(t)
        /\ pc[t] \in Building \cup {"check", "release"} =>
              \E r \in Requests : /\ r.device_id = req[t].id
                                  /\ ParseModel(r.facts).model = req[t].model
    /\ ImageCarriesItsUnit
    /\ SuccessMeansMyImage

\* The unit being built, for the abstract builder.
CurrentUnit ==
    IF \E t \in Threads : pc[t] \in Holding
      THEN Unit(CHOOSE t \in Threads : pc[t] \in Holding)
      ELSE NoModel

Serial == INSTANCE SerialBuilder WITH
    Units <- [id : Devices, model : Models], Nobody <- NoModel,
    current <- CurrentUnit, images <- images

\* While builds do not overlap the server is a builder of one unit at a time that
\* files nothing but the finished image of the unit it was asked for, whatever
\* was left in the checkout before.
BuildsOneUnitAtATime == Serial!Spec
=============================================================================
