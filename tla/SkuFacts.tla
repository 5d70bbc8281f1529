------------------------------ MODULE SkuFacts ------------------------------
(***************************************************************************)
(* The validation of the per-device SKU facts of a build request:          *)
(* parse_model in builder_agent.py.                                        *)
(*                                                                         *)
(* A raw request is the JSON object of the POST body, seen through the     *)
(* four keys the function reads.  A text is a record of its word and of    *)
(* whether blanks or capitals dress it up; strip() and lower() undress it. *)
(* A number is an integer that counts HALVES, so that 33 is the JSON       *)
(* number 16.5 and int() has something to truncate.                        *)
(***************************************************************************)
EXTENDS Integers

CONSTANTS
    Absent,     \* the key is missing, or its value is null
    NotNumber,  \* a JSON value int() refuses with TypeError or ValueError
    Infinite,   \* a JSON number such as 1e999, which Python reads as inf
    NoModel     \* the value None

ASSUME MarkerAssumption ==
    /\ Absent \notin Int /\ NotNumber \notin Int /\ Infinite \notin Int
    /\ Absent # NotNumber /\ Absent # Infinite /\ NotNumber # Infinite

MODEL_KEYS == {"tier", "sku", "cam_base", "cam_max"}
VALID_TIERS == {"basic", "pro", "enterprise"}

Bad(error) == [model |-> NoModel, outcome |-> error]

\* Mutant of Truncated: the JSON number is kept as it came.
BugNotTruncated(halves) == halves

\* int(x) truncates towards zero.
Truncated(halves) == IF halves >= 0 THEN halves \div 2 ELSE -((-halves) \div 2)

\* Mutant of ParseModel: the bound between base and maximum is strict.
BugStrictBound(data) ==
    LET base == data.cam_base
        max  == data.cam_max
    IN  IF \/ \E k \in MODEL_KEYS : data[k] = Absent
           \/ data.tier.word \notin VALID_TIERS
           \/ data.sku.word = ""
           \/ {NotNumber, Infinite} \cap {base, max} # {}
          THEN Bad("rejected")
        ELSE IF 0 < Truncated(base) /\ Truncated(base) < Truncated(max)
          THEN [ outcome |-> "ok",
                 model |-> [ tier |-> data.tier.word, sku |-> data.sku.word,
                             cam_base |-> Truncated(base), cam_max |-> Truncated(max) ] ]
          ELSE Bad("rejected")

(***************************************************************************)
(* The result of parse_model: a model, "rejected" when the function        *)
(* returns an error text, or "raised" when an exception that it does not   *)
(* catch leaves it (int(inf) is an OverflowError).                         *)
(***************************************************************************)
ParseModel(data) ==
    LET base == data.cam_base
        max  == data.cam_max
    IN  IF \/ \E k \in MODEL_KEYS : data[k] = Absent
           \/ data.tier.word \notin VALID_TIERS
           \/ data.sku.word = ""
          THEN Bad("rejected")
        ELSE IF base = Infinite \/ (base # NotNumber /\ max = Infinite)
          THEN Bad("raised")
        ELSE IF \/ NotNumber \in {base, max}
                \/ ~ (0 < Truncated(base) /\ Truncated(base) <= Truncated(max))
          THEN Bad("rejected")
        ELSE [ outcome |-> "ok",
               model |-> [ tier     |-> data.tier.word,
                           sku      |-> data.sku.word,
                           cam_base |-> Truncated(base),
                           cam_max  |-> Truncated(max) ] ]

-----------------------------------------------------------------------------
(* What README.md promises of the request fields, stated on its own. *)

Whole(x) == x \notin {Absent, NotNumber, Infinite} /\ x % 2 = 0

WellTagged(data) ==
    /\ \A k \in MODEL_KEYS : data[k] # Absent
    /\ data.tier.word \in VALID_TIERS
    /\ data.sku.word # ""
    /\ Whole(data.cam_base) /\ Whole(data.cam_max)
    /\ 2 <= data.cam_base /\ data.cam_base <= data.cam_max

\* The request that carries a parsed model back: what a factory that reads the
\* model from the answer of one build and posts it again would send.
AsRequest(m) ==
    [ tier     |-> [word |-> m.tier, dressed |-> FALSE],
      sku      |-> [word |-> m.sku, dressed |-> FALSE],
      cam_base |-> 2 * m.cam_base,
      cam_max  |-> 2 * m.cam_max ]
=============================================================================
