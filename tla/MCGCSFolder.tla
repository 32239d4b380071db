---------------------------- MODULE MCGCSFolder ----------------------------
(* Small instances of GCSFolder for TLC: the extractor knows two kinds of   *)
(* content and refuses the third.                                           *)
EXTENDS GCSFolder, TLC

CONSTANTS ct1, ct2, ct3, fields1, fields2

Symmetry == Permutations(Clients)

MCQuickFields == (ct1 :> fields1) @@ (ct2 :> fields2) @@ (ct3 :> NoQuickRow)
=============================================================================
