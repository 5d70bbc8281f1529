--------------------------- MODULE MCBuilderAgent ---------------------------
(* Finite instances of BuilderAgent: two devices, two sets of SKU facts, and *)
(* requests that validation accepts, refuses and trips over.                 *)
EXTENDS BuilderAgent

CONSTANTS d1, d2, t1, t2

Text(word) == [word |-> word, dressed |-> FALSE]

Facts(sku, base, max) ==
    [tier |-> Text("pro"), sku |-> Text(sku), cam_base |-> base, cam_max |-> max]

Pro16 == Facts("EVRPRO16", 32, 40)
Pro8  == Facts("EVRPRO8", 16, 16)

Post(d, facts) == [device_id |-> d, facts |-> facts]

\* One good request for each device, and the two ways validation ends early.
FewRequests ==
    { Post(d1, Pro16), Post(d2, Pro8), Post(Malformed, Pro8), Post(d1, Facts("", 2, 2)) }

\* One device suffices where only the lock is at stake.
OneRequest == { Post(d1, Pro16), Post(d1, Facts("", 2, 2)) }

\* Every device with every facts, and a body whose cam_max overflows int().
AllRequests ==
    FewRequests \cup { Post(d1, Pro8), Post(d2, Pro16), Post(d2, Facts("EVRPRO8", 2, Infinite)) }
=============================================================================
