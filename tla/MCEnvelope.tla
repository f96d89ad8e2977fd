------------------------------ MODULE MCEnvelope ------------------------------
(***************************************************************************)
(* Small files and slots for the runs of Envelope.                         *)
(***************************************************************************)
EXTENDS Envelope, FiniteSetsExt

File(frames, n, sustain, start, end, flags, fadeout) ==
  [points |-> [i \in 0 .. 2 |-> [frame |-> frames[i + 1], value |-> <<1, 4, 2>>[i + 1]]],
   num_points |-> n, sustain_point |-> sustain,
   loop_start_point |-> start, loop_end_point |-> end,
   enabled |-> "enabled" \in flags, sustain |-> "sustain" \in flags,
   loop |-> "loop" \in flags, volume_fadeout |-> fadeout]

(* Four that differ in everything, for notes that take over from others:    *)
(* no envelope, none but a fadeout, a loop that ends at the sustain point,  *)
(* and a sustain point inside of a loop.  Then what loading has to fix: a   *)
(* loop and a sustain point outside of the two points in use, more points   *)
(* than there are, a point left of the one before, a single point.  At last *)
(* what loading lets pass: an envelope whose first point is after frame 0.  *)
MCFiles ==
  {File(<<0, 2, 3>>, 3, 0, 0, 0, {}, 0),
   File(<<0, 2, 3>>, 2, 2, 3, 1, {"enabled", "loop", "sustain"}, 2),
   File(<<0, 1, 3>>, 3, 1, 0, 1, {"enabled", "loop", "sustain"}, 0),
   File(<<0, 1, 3>>, 3, 1, 0, 2, {"enabled", "loop", "sustain"}, 2),
   File(<<0, 2, 3>>, 2, 2, 0, 2, {"enabled", "loop", "sustain"}, 0),
   File(<<0, 1, 3>>, 255, 2, 1, 2, {"enabled", "loop"}, 0),
   File(<<0, 3, 2>>, 3, 1, 0, 2, {"enabled", "loop", "sustain"}, 0),
   File(<<0, 2, 3>>, 1, 0, 0, 0, {"enabled", "sustain"}, 2),
   File(<<1, 2, 3>>, 3, 1, 0, 2, {"enabled", "loop", "sustain"}, 2)}

Slot(note, has_instrument, instrument, position) ==
  [note |-> note, has_instrument |-> has_instrument, instrument |-> instrument,
   position |-> position]

(* Everything a slot may hold.                                              *)
MCSlots ==
  {Slot(n, h, i, p) : n \in {"none", "note", "off"}, h \in BOOLEAN,
     i \in Instruments \union {NoInstrument}, p \in {NoPosition, 1, 4}}
=============================================================================
