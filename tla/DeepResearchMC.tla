--------------------------- MODULE DeepResearchMC ---------------------------
(* Two units; three pages, one that covers the criteria, one whose address  *)
(* is not http and one with a secret term; and limits a search or two       *)
(* apart, so that each of them is the first to be reached in some behaviour. *)
EXTENDS DeepResearch

CONSTANTS u1, u2, u3
=============================================================================
