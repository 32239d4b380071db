------------------------ MODULE MCUnixSignalHandler ------------------------
(* The application and its adaptor observe two signals.                     *)
EXTENDS UnixSignalHandler

ObserverSymmetry == Permutations(Observers)
=============================================================================
