----------------------------- MODULE MCS3MLoops -----------------------------
(***************************************************************************)
(* Songs of one S3M pattern of four rows and two channels, for S3MLoops.   *)
(***************************************************************************)
EXTENDS S3MLoops

Used == [type |-> "NONE", param |-> 1]
Tempo == [type |-> "SET_TEMPO", param |-> 1]
SB(y) == [type |-> "PATTERN_LOOP", param |-> y]

(* Rows without a loop effect, with one beside a free or a used slot, and   *)
(* with two that compete.                                                   *)
MCRows == {<<Free, Free>>, <<Used, Free>>, <<Used, Tempo>>, <<SB(0), Free>>, <<Used, SB(0)>>,
           <<SB(1), Used>>, <<Free, SB(2)>>, <<SB(1), SB(0)>>, <<SB(2), SB(1)>>}

MCSong(pattern) ==
  [length |-> 1, restart_position |-> 0, default_tempo |-> 1,
   total_rows |-> 4, num_rows |-> <<4>>, rows_index |-> <<0>>,
   pattern_table |-> [i \in {0} |-> 1],
   slots |-> FixedLoops(pattern), s3m |-> pattern]

MCSongs == {MCSong(pattern) : pattern \in [0 .. 3 -> MCRows]}
=============================================================================
