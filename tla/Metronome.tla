------------------------------ MODULE Metronome ------------------------------
(***************************************************************************)
(* What the tick clock of libxm promises: time is counted in subsamples,   *)
(* ticks follow each other at the lengths they are given, and a tick       *)
(* happens in the frame it is due in, neither earlier nor later.  TickClock *)
(* is shown to implement it.                                               *)
(***************************************************************************)
EXTENDS Naturals

CONSTANTS
  TICK_SUBSAMPLES,  \* subsamples of a frame
  Lengths           \* how long ticks may be, in subsamples

VARIABLES
  frame,  \* frames generated
  due     \* when the next tick is due, in subsamples

vars == <<frame, due>>

Init == frame = 0 /\ due = 0

(* A frame lasts from frame * TICK_SUBSAMPLES on, up to the next one. *)
IsDue == due < (frame + 1) * TICK_SUBSAMPLES

Beat == IsDue /\ \E length \in Lengths : due' = due + length
Rest == ~IsDue /\ due' = due
Frame == (Beat \/ Rest) /\ frame' = frame + 1

(* The clock is set to zero. *)
Restart == frame' = 0 /\ due' = 0

Next == Frame \/ Restart

Spec == Init /\ [][Next]_vars
=============================================================================
