-------------------------- MODULE MCChannelManager --------------------------
(* Small instances of ChannelManager: u1 and u2 are tables of one database, *)
(* u3 and u4 of another.                                                   *)
EXTENDS ChannelManager, TLC

CONSTANTS u1, u2, u3, u4, db1, db2

MCDatabase == (u1 :> db1) @@ (u2 :> db1) @@ (u3 :> db2) @@ (u4 :> db2)

Symmetry == Permutations(Channels)
=============================================================================
