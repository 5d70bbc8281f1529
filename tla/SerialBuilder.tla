---------------------------- MODULE SerialBuilder ---------------------------
(***************************************************************************)
(* What the factory expects of the builder API: it works on one unit at a  *)
(* time, and the file of a device changes only when a build of that device *)
(* finishes, to an image of exactly the identity and the SKU facts asked   *)
(* for.  A build may also end without an image.                            *)
(***************************************************************************)
CONSTANTS
    Devices,   \* the names the images are filed under
    Units,     \* what may be asked for: records with a device id and a model
    Nobody,    \* no build in progress
    NoImage    \* no image under this name

VARIABLES
    current,   \* the unit being built
    images     \* the finished images

Init ==
    /\ current = Nobody
    /\ images = [d \in Devices |-> NoImage]

Begin ==
    /\ current = Nobody
    /\ current' \in Units
    /\ UNCHANGED images

Deliver ==
    /\ current # Nobody
    /\ images' = [images EXCEPT ![current.id] = current]
    /\ UNCHANGED current

End ==
    /\ current # Nobody
    /\ current' = Nobody
    /\ UNCHANGED images

Next == Begin \/ Deliver \/ End

Spec == Init /\ [][Next]_<<current, images>>
=============================================================================
