-------------------------- MODULE MCSetupDiscovery --------------------------
(* A finite instance of SetupDiscovery: the first search finds both cameras, *)
(* the second one of them: an index may come to mean another camera or none. *)
EXTENDS SetupDiscovery

CONSTANTS c1, c2

TwoCameras  == {c1, c2}
TwoSearches == <<<<c1, c2>>, <<c2>>>>
=============================================================================
