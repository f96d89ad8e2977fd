----------------------------- MODULE SampleCursor -----------------------------
(***************************************************************************)
(* How a channel of libxm reads its sample: xm_next_of_sample() and        *)
(* xm_next_of_channel() (src/play.c), with the part of xm_trigger_note()   *)
(* that starts a sample.  The position of a channel is a uint32_t in       *)
(* microsteps; a ping-pong loop is a forward loop of twice its length      *)
(* whose second half is read backwards.                                    *)
(*                                                                         *)
(* The frames a channel fades from after a new note, the volumes and the   *)
(* amplitudes are left out: which frames of the sample are read is what    *)
(* matters here.                                                           *)
(***************************************************************************)
EXTENDS Integers

CONSTANTS
  MICROSTEPS,      \* SAMPLE_MICROSTEPS
  RAMPING_POINTS,  \* frames a new note takes to fade in
  Positions,       \* how many values a uint32_t has
  Samples,         \* records: length, loop_length, ping_pong
  Steps,           \* values ch->step takes
  Offsets,         \* frames 9xx can skip
  NoSample         \* the null pointer

IsSample(s) ==
  /\ s.length \in Nat /\ s.loop_length \in 0 .. s.length
  /\ s.ping_pong \in BOOLEAN
  /\ s.length <= (Positions - 1) \div MICROSTEPS
  /\ s.ping_pong => 2 * s.length <= (Positions - 1) \div MICROSTEPS

ASSUME MicrostepsAssumption == MICROSTEPS \in Nat \ {0}
ASSUME RampingAssumption == RAMPING_POINTS \in Nat
ASSUME PositionsAssumption == Positions \in Nat \ {0}
ASSUME SamplesAssumption == \A s \in Samples : IsSample(s)
ASSUME StepsAssumption == Steps \subseteq Nat
ASSUME OffsetsAssumption ==
  Offsets \subseteq Nat /\ \A k \in Offsets : k * MICROSTEPS < Positions
ASSUME NoSampleAssumption == NoSample \notin Samples

VARIABLES
  sample,                 \* ch->sample
  sample_position,        \* in microsteps
  sample_offset_invalid,  \* 9xx went past the end of the sample
  pitched,                \* ch->period is not 0
  step,                   \* microsteps to move for a frame of output
  frame_count,            \* frames since the note; all from RAMPING_POINTS on are alike
  silenced,               \* muted, or the module has looped often enough
  pc,                     \* "idle", or "trigger" inside of xm_trigger_note()
  reads                   \* frames xm_trigger_note() still reads

vars == <<sample, sample_position, sample_offset_invalid, pitched, step,
          frame_count, silenced, pc, reads>>

LoopStart(s) == s.length - s.loop_length
LoopPeriod(s) == IF s.ping_pong THEN 2 * s.loop_length ELSE s.loop_length

Init ==
  /\ sample = NoSample /\ sample_position = 0 /\ sample_offset_invalid = FALSE
  /\ pitched = FALSE /\ step = 0 /\ frame_count = 0 /\ silenced = FALSE
  /\ pc = "idle" /\ reads = 0

(* Nothing is read: there is no sample, or the position is past its end. *)
Silent(s, pos) ==
  \/ sample_offset_invalid
  \/ s = NoSample
  \/ s.loop_length = 0 /\ pos >= s.length * MICROSTEPS

(* The position without the loops already played. *)
ReducedFromEnd(s, pos) ==  \* mutant: loops are counted from their end, as if all were forward
  IF s.loop_length > 0 /\ pos >= s.length * MICROSTEPS
  THEN LoopStart(s) * MICROSTEPS
         + ((pos - (s.length * MICROSTEPS)) % (LoopPeriod(s) * MICROSTEPS))
  ELSE pos
Reduced(s, pos) ==
  IF s.loop_length > 0 /\ pos >= s.length * MICROSTEPS
  THEN LET off == LoopStart(s) * MICROSTEPS
       IN  off + ((pos - off) % (LoopPeriod(s) * MICROSTEPS))
  ELSE pos

(* The frame read, and the one it is interpolated with. *)
Frame(s, pos) == Reduced(s, pos) \div MICROSTEPS
Backward(s, pos) == Frame(s, pos) >= s.length
IndexLate(s, pos) ==  \* mutant
  IF Backward(s, pos) THEN 2 * s.length - Frame(s, pos) ELSE Frame(s, pos)
Index(s, pos) ==
  IF Backward(s, pos) THEN 2 * s.length - 1 - Frame(s, pos) ELSE Frame(s, pos)

NeighbourNoTurn(s, pos) ==  \* mutant: a ping-pong loop interpolates like a forward one
  LET a == Index(s, pos)
  IN  IF Backward(s, pos) THEN (IF a = LoopStart(s) THEN a ELSE a - 1)
      ELSE IF a + 1 < s.length THEN a + 1
      ELSE IF s.loop_length = 0 THEN a ELSE LoopStart(s)
Neighbour(s, pos) ==
  LET a == Index(s, pos)
  IN  IF Backward(s, pos) THEN (IF a = LoopStart(s) THEN a ELSE a - 1)
      ELSE IF a + 1 < s.length THEN a + 1
      ELSE IF s.loop_length = 0 \/ s.ping_pong THEN a ELSE LoopStart(s)

(* sample_position after a call of xm_next_of_sample(). *)
NextPosition(s, pos) ==
  IF Silent(s, pos) THEN pos
  ELSE IF frame_count < RAMPING_POINTS THEN Reduced(s, pos)
  ELSE (Reduced(s, pos) + step) % Positions

-----------------------------------------------------------------------------
(* xm_next_of_channel(): one frame of output.  A silenced channel still      *)
(* reads its sample, but does not count the frame.                           *)
NextOfChannel ==
  /\ pc = "idle"
  /\ sample_position' = NextPosition(sample, sample_position)
  /\ frame_count' = IF silenced \/ frame_count = RAMPING_POINTS THEN frame_count
                    ELSE frame_count + 1
  /\ UNCHANGED <<sample, sample_offset_invalid, pitched, step, silenced, pc, reads>>

(* xm_tick(): effects change the period, and the period gives a step.  No   *)
(* step is computed from period 0, which a sample has before its first note *)
(* or where a slide ends.                                                    *)
SetStep ==
  /\ pc = "idle"
  /\ pitched' \in BOOLEAN
  /\ step' \in IF pitched' THEN Steps ELSE {step}
  /\ UNCHANGED <<sample, sample_position, sample_offset_invalid, frame_count,
                 silenced, pc, reads>>

(* xm_mute_channel(), xm_mute_instrument(), or loop_count reaches            *)
(* max_loop_count.                                                           *)
Silence ==
  /\ pc = "idle"
  /\ silenced' = ~silenced
  /\ UNCHANGED <<sample, sample_position, sample_offset_invalid, pitched, step,
                 frame_count, pc, reads>>

(* A pitch slide past the end of the range cuts the sample, and               *)
(* xm_dump_context() forgets it.                                              *)
DropSample ==
  /\ pc = "idle"
  /\ sample' = NoSample
  /\ UNCHANGED <<sample_position, sample_offset_invalid, pitched, step, frame_count,
                 silenced, pc, reads>>

(* xm_reset_context() *)
Reset ==
  /\ pc = "idle"
  /\ sample' = NoSample /\ sample_position' = 0 /\ sample_offset_invalid' = FALSE
  /\ pitched' = FALSE /\ step' = 0 /\ frame_count' = 0 /\ silenced' = FALSE
  /\ UNCHANGED <<pc, reads>>


(* xm_trigger_note() first reads RAMPING_POINTS frames of the sample under  *)
(* way, to fade from them.                                                  *)
BeginTrigger ==
  /\ pc = "idle"
  /\ pc' = "trigger"
  /\ reads' = IF sample # NoSample /\ pitched THEN RAMPING_POINTS ELSE 0
  /\ UNCHANGED <<sample, sample_position, sample_offset_invalid, pitched, step,
                 frame_count, silenced>>

ReadPrevious ==
  /\ pc = "trigger" /\ reads > 0
  /\ sample_position' = NextPosition(sample, sample_position)
  /\ reads' = reads - 1
  /\ UNCHANGED <<sample, sample_offset_invalid, pitched, step, frame_count, silenced, pc>>

EndTrigger ==
  /\ pc = "trigger" /\ reads = 0
  /\ pc' = "idle" /\ frame_count' = 0
  /\ UNCHANGED <<step, silenced, reads>>

(* Sample s starts, with 9xx from offset on. *)
TriggerNote(s, offset) ==
  /\ EndTrigger
  /\ sample' = s
  /\ sample_position' = offset * MICROSTEPS
  /\ \/ sample_offset_invalid' = (offset >= s.length)
     \/ offset = 0 /\ sample_offset_invalid' = FALSE
  /\ pitched' = TRUE

(* The note is out of range and ignored. *)
TriggerInvalidNote ==
  EndTrigger /\ UNCHANGED <<sample, sample_position, sample_offset_invalid, pitched>>

(* NOTE_SWITCH: another sample goes on at the position of the old one. *)
SwitchSample(s) ==
  /\ EndTrigger
  /\ sample' = s /\ UNCHANGED <<sample_position, sample_offset_invalid, pitched>>

(* The instrument, or its sample, does not exist. *)
TriggerInvalidInstrument ==
  /\ EndTrigger
  /\ sample' = NoSample /\ UNCHANGED <<sample_position, sample_offset_invalid, pitched>>

Trigger ==
  \/ BeginTrigger
  \/ ReadPrevious
  \/ \E s \in Samples, offset \in Offsets : TriggerNote(s, offset)
  \/ TriggerInvalidNote
  \/ \E s \in Samples : SwitchSample(s)
  \/ TriggerInvalidInstrument

Next == NextOfChannel \/ SetStep \/ Silence \/ DropSample \/ Reset \/ Trigger

Spec == Init /\ [][Next]_vars

-----------------------------------------------------------------------------
TypeOK ==
  /\ sample \in Samples \union {NoSample}
  /\ sample_position \in 0 .. Positions - 1
  /\ sample_offset_invalid \in BOOLEAN
  /\ pitched \in BOOLEAN /\ step \in Steps \union {0}
  /\ frame_count \in 0 .. RAMPING_POINTS
  /\ silenced \in BOOLEAN
  /\ pc \in {"idle", "trigger"} /\ reads \in 0 .. RAMPING_POINTS

Audible == ~Silent(sample, sample_position)

(* The assertions of xm_next_of_sample(): the two frames it reads are       *)
(* frames of the sample, and once the loop was entered by its end, frames   *)
(* of the loop.                                                             *)
IndexInSample ==
  Audible =>
    LET a == Index(sample, sample_position)
        b == Neighbour(sample, sample_position)
        first == IF sample_position < sample.length * MICROSTEPS THEN 0
                 ELSE LoopStart(sample)
    IN  a \in first .. sample.length - 1 /\ b \in first .. sample.length - 1

(* The frames are read in the order Playhead plays them, at any speed: a   *)
(* read moves on from the frame before it, a note starts at its offset, and *)
(* a sample that takes over goes on at the place of the last one.           *)
HeadFrame == IF Audible THEN Index(sample, sample_position) ELSE sample_position \div MICROSTEPS
HeadDir ==
  CASE sample_offset_invalid -> "past"
    [] ~sample_offset_invalid /\ ~Audible -> "off"
    [] Audible /\ Backward(sample, sample_position) -> "backward"
    [] Audible /\ ~Backward(sample, sample_position) -> "forward"

PH == INSTANCE Playhead WITH
        frame <- HeadFrame, dir <- HeadDir, micro <- sample_position % MICROSTEPS,
        Places <- 0 .. ((Positions - 1) \div MICROSTEPS)
ImplementsPlayhead == PH!Spec

(* Interpolation goes towards the frame that is read next.                  *)
InterpolatesTowardsNext ==
  Audible =>
    LET next == PH!Move(sample, PH!Head(HeadFrame, HeadDir))
    IN  Neighbour(sample, sample_position) =
          IF next.dir = "off" THEN HeadFrame ELSE next.frame
=============================================================================
