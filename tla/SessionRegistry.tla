--------------------------- MODULE SessionRegistry ---------------------------
(***************************************************************************)
(* What the session handling of an application promises to its clients: a   *)
(* session can be reached (live) or not, it may leave and, with several     *)
(* threads, come back, but once it has ended it is never reached again.     *)
(***************************************************************************)
CONSTANT Sessions

VARIABLES
  live,   \* sessions a request can reach
  ended   \* sessions that were terminated for good

Init == live = {} /\ ended = {}

Register(s) ==
  /\ s \notin ended
  /\ live' = live \cup {s}
  /\ UNCHANGED ended

Leave(s) ==
  /\ live' = live \ {s}
  /\ UNCHANGED ended

End(s) ==
  /\ live' = live \ {s}
  /\ ended' = ended \cup {s}

Next == \E s \in Sessions : Register(s) \/ Leave(s) \/ End(s)

Spec == Init /\ [][Next]_<<live, ended>>
==============================================================================
