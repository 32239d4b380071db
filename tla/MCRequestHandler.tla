-------------------------- MODULE MCRequestHandler --------------------------
(* Bounds and symmetry for the TLC runs of RequestHandler. *)
EXTENDS RequestHandler, TLC

MCSymmetry == Permutations(Sessions) \cup Permutations(Threads)
=============================================================================
