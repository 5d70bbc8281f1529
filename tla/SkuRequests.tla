------------------------------ MODULE SkuRequests ------------------------------
(***************************************************************************)
(* Requests to the factory builder as parse_model sees them, one after the *)
(* other: each body differs from the one before it in one of its fields.   *)
(***************************************************************************)
EXTENDS SkuFacts

CONSTANTS
  Tiers, Skus,  \* words a body may give
  Halves        \* numbers it may give, in halves

VARIABLE posted

Worded(words) == [word : words, dressed : BOOLEAN] \cup {Absent}
Numbers == Halves \cup {Absent, NotNumber, Infinite}
Bodies == [tier : Worded(Tiers), sku : Worded(Skus), cam_base : Numbers, cam_max : Numbers]

(* Numbers are integers, and what a text is made of is no missing key. *)
BodySizes ==
  Halves \subseteq Int /\ \A word \in Tiers \cup Skus : [word |-> word, dressed |-> FALSE] # Absent

RequestsInit == posted \in Bodies
Retag ==
  \/ \E text \in Worded(Tiers) : posted' = [posted EXCEPT !.tier = text]
  \/ \E text \in Worded(Skus) : posted' = [posted EXCEPT !.sku = text]
  \/ \E n \in Numbers : posted' = [posted EXCEPT !.cam_base = n]
  \/ \E n \in Numbers : posted' = [posted EXCEPT !.cam_max = n]
RequestsSpec == RequestsInit /\ [][Retag]_posted

(***************************************************************************)
(* Properties                                                              *)
(***************************************************************************)
Parsed == ParseModel(posted)

(* A body that satisfies the field table of README.md is accepted, and the *)
(* model written to the unit has its numbers, unrounded and unswapped.     *)
TaggedUnitsAreBuilt ==
  WellTagged(posted) =>
    /\ Parsed.outcome = "ok"
    /\ 2 * Parsed.model.cam_base = posted.cam_base /\ 2 * Parsed.model.cam_max = posted.cam_max
    /\ Parsed.model.tier = posted.tier.word /\ Parsed.model.sku = posted.sku.word

(* The model of an accepted body, posted back, is accepted and unchanged:  *)
(* what the factory reads in the answer of a build is what a rebuild would *)
(* bake.                                                                   *)
ParsedFactsReparse == Parsed.outcome = "ok" => ParseModel(AsRequest(Parsed.model)) = Parsed

(* A request that satisfies the README's table is built with its numbers,  *)
(* and its facts, posted back, are accepted unchanged.                     *)
RequestsAreBuilt == TaggedUnitsAreBuilt /\ ParsedFactsReparse
=================================================================================
