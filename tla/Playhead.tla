------------------------------- MODULE Playhead -------------------------------
(***************************************************************************)
(* What playing a sample means: a head that moves over the frames of the   *)
(* sample, one frame at a time.  At the end of a forward loop it goes back *)
(* to the start of the loop; in a ping-pong loop it turns around at both   *)
(* ends and stays on the frame it turns on for one frame more; without a   *)
(* loop it runs off the sample and the channel is silent.  Besides, it     *)
(* only moves when a note starts a sample, when another sample goes on     *)
(* after as many frames as were played of the last one, and at a reset.    *)
(* SampleCursor is shown to implement it.                                  *)
(***************************************************************************)
EXTENDS Naturals

CONSTANTS
  MICROSTEPS,  \* what a step divides a frame into
  Samples,     \* records: length, loop_length, ping_pong
  Steps,       \* how far the head moves for a frame of output, in microsteps
  Offsets,     \* the frames a note may start a sample at
  Places,      \* how many frames may have been played when a sample is exchanged
  NoSample

VARIABLES
  sample,  \* the sample of the channel, or NoSample
  frame,   \* the frame under the head, counted from 0
  dir,     \* "forward", "backward", "off" when the head is off the sample,
           \* or "past" when a note asked for a frame the sample does not have
  micro    \* how far it is on its way to the next frame

vars == <<sample, frame, dir, micro>>

LoopStart(s) == s.length - s.loop_length
Last(s) == s.length - 1

Head(k, d) == [frame |-> k, dir |-> d]

(* Where a head on sample s is a frame later; off the sample, frames are    *)
(* still counted.                                                           *)
Move(s, h) ==
  CASE h.dir = "off" -> Head(h.frame + 1, "off")
    [] h.dir = "forward" /\ h.frame < Last(s) -> Head(h.frame + 1, "forward")
    [] h.dir = "forward" /\ h.frame = Last(s) ->
         IF s.loop_length = 0 THEN Head(h.frame + 1, "off")
         ELSE IF s.ping_pong THEN Head(h.frame, "backward")
         ELSE Head(LoopStart(s), "forward")
    [] h.dir = "backward" /\ h.frame > LoopStart(s) -> Head(h.frame - 1, "backward")
    [] h.dir = "backward" /\ h.frame = LoopStart(s) -> Head(h.frame, "forward")

Moves(s, h, n) ==
  LET after[k \in 0 .. n] == IF k = 0 THEN h ELSE Move(s, after[k - 1]) IN after[n]

(* The head k frames after sample s was started from its beginning.         *)
At(s, k) ==
  IF s = NoSample THEN Head(k, "off")
  ELSE IF s.length = 0 THEN Head(k, "off")
  ELSE Moves(s, Head(0, "forward"), k)

Goes(h, m) == frame' = h.frame /\ dir' = h.dir /\ micro' = m

Init == sample = NoSample /\ frame = 0 /\ dir = "off" /\ micro = 0

(* A note starts sample s with frame k.                                     *)
Start(s, k) ==
  /\ sample' = s
  /\ \E d \in {"forward", "past", "off"} :
       /\ d = "forward" <=> k < s.length
       /\ d = "off" => k = 0
       /\ Goes(Head(k, d), 0)

(* Another sample, or none, takes over: as if it had been played for as long *)
(* as the last one was, a loop being played any number of times.             *)
Exchange(s) ==
  /\ sample' = s
  /\ IF dir = "past" THEN UNCHANGED <<frame, dir, micro>>
     ELSE \E k \in Places : At(sample, k) = Head(frame, dir) /\ Goes(At(s, k), micro)

(* A frame of output: the head moves on. *)
Play(step) ==
  /\ dir \in {"forward", "backward"}
  /\ LET total == micro + step
     IN  Goes(Moves(sample, Head(frame, dir), total \div MICROSTEPS), total % MICROSTEPS)
  /\ UNCHANGED sample

Reset == sample' = NoSample /\ Goes(Head(0, "off"), 0)

Next ==
  \/ \E step \in Steps : Play(step)
  \/ \E s \in Samples, k \in Offsets : Start(s, k)
  \/ \E s \in Samples \union {NoSample} : Exchange(s)
  \/ Reset

Spec == Init /\ [][Next]_vars
=============================================================================
