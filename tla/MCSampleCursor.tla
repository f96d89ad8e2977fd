---------------------------- MODULE MCSampleCursor ----------------------------
(***************************************************************************)
(* Small samples for the runs of SampleCursor.                             *)
(***************************************************************************)
EXTENDS SampleCursor

Sample(length, loop_length, ping_pong) ==
  [length |-> length, loop_length |-> loop_length, ping_pong |-> ping_pong]

(* Every sample of up to four frames. *)
MCSamples ==
  {Sample(n, 0, FALSE) : n \in 0 .. 4}
    \union {Sample(n, l, p) : n \in 1 .. 4, l \in 1 .. 4, p \in BOOLEAN}
MCFitting == {s \in MCSamples : s.loop_length <= s.length}
=============================================================================
