------------------------------- MODULE Envelope -------------------------------
(***************************************************************************)
(* The volume envelope of a channel of libxm: how a file's envelope is     *)
(* checked and fixed when it is loaded (src/load.c), and how notes, key    *)
(* offs and ticks move a channel along it (src/play.c).  The panning       *)
(* envelope is moved by the same code with a counter of its own.           *)
(*                                                                         *)
(* Of a channel only what decides its envelope is kept: its instrument,    *)
(* the instrument its next note takes, whether the note is held, and how   *)
(* far it is along the envelope and in its fadeout.                        *)
(***************************************************************************)
EXTENDS Integers

CONSTANTS
  MAX_ENVELOPE_POINTS, MAX_ENVELOPE_VALUE, MAX_FADEOUT_VOLUME,
  Counters,      \* how many values a uint16_t has
  Files,         \* the instruments files hold, see IsFile
  Slots,         \* what a pattern slot does to the channel, see IsSlot
  Garbage,       \* bytes a function returns that has no return value
  NoInstrument,  \* the null pointer, and the number of no instrument
  NoPosition     \* a slot without Lxx

NoSustain == 128

IsPoint(p) == p.frame \in 0 .. Counters - 1 /\ p.value \in Nat

IsFile(f) ==
  /\ \A i \in 0 .. MAX_ENVELOPE_POINTS - 1 : IsPoint(f.points[i])
  /\ f.num_points \in Nat /\ f.sustain_point \in Nat
  /\ f.loop_start_point \in Nat /\ f.loop_end_point \in Nat
  /\ f.enabled \in BOOLEAN /\ f.sustain \in BOOLEAN /\ f.loop \in BOOLEAN
  /\ f.volume_fadeout \in Nat

ASSUME SizesAssumption ==
  /\ MAX_ENVELOPE_POINTS \in 2 .. 12 /\ MAX_ENVELOPE_VALUE \in Nat
  /\ MAX_FADEOUT_VOLUME \in Nat \ {0} /\ Counters \in Nat \ {0}
ASSUME FilesAssumption == \A f \in Files : IsFile(f)
ASSUME GarbageAssumption == Garbage # {} /\ Garbage \subseteq 0 .. 255

-----------------------------------------------------------------------------
(* Loading.                                                                  *)

NoEnvelope ==
  [points |-> <<>>, num_points |-> 0, sustain_point |-> 0,
   loop_start_point |-> 0, loop_end_point |-> 0]

NumPoints(f) ==
  IF f.num_points > MAX_ENVELOPE_POINTS THEN MAX_ENVELOPE_POINTS ELSE f.num_points

Point(p) ==
  [frame |-> p.frame,
   value |-> IF p.value > MAX_ENVELOPE_VALUE THEN MAX_ENVELOPE_VALUE ELSE p.value]

IsUsable(f) ==
  /\ f.enabled
  /\ NumPoints(f) >= 2
  /\ \A i \in 1 .. NumPoints(f) - 1 : f.points[i - 1].frame < f.points[i].frame

LoopsUnchecked(f) ==  \* mutant: the end is compared to the wrong bound
  f.loop /\ f.loop_start_point < f.loop_end_point /\ f.loop_end_point <= NumPoints(f)
Loops(f) ==
  f.loop /\ f.loop_start_point < f.loop_end_point /\ f.loop_end_point < NumPoints(f)

(* The points past num_points are never read, and left out. *)
FixedEnvelope(f) ==
  IF ~IsUsable(f) THEN NoEnvelope
  ELSE [points |-> [i \in 0 .. NumPoints(f) - 1 |-> Point(f.points[i])],
        num_points |-> NumPoints(f),
        sustain_point |-> IF f.sustain /\ f.sustain_point < NumPoints(f)
                          THEN f.sustain_point ELSE NoSustain,
        loop_start_point |-> IF Loops(f) THEN f.loop_start_point ELSE 0,
        loop_end_point |-> IF Loops(f) THEN f.loop_end_point ELSE 0]

Loaded(f) == [envelope |-> FixedEnvelope(f), volume_fadeout |-> f.volume_fadeout]

Instruments == {Loaded(f) : f \in Files}

IsSlot(s) ==
  /\ s.note \in {"none", "note", "off"}
  /\ s.has_instrument \in BOOLEAN /\ s.instrument \in Instruments \union {NoInstrument}
  /\ s.position \in (0 .. Counters - 1) \union {NoPosition}

ASSUME SlotsAssumption == \A s \in Slots : IsSlot(s)
ASSUME SentinelsAssumption ==
  NoInstrument \notin Instruments /\ NoPosition \notin Nat

VARIABLE ch  \* the channel

-----------------------------------------------------------------------------
(* One step along an envelope, from position pos.                           *)

At(env, i) == env.points[i].frame

LoopsBackAlways(env, pos, sustained) ==  \* mutant
  pos = At(env, env.loop_end_point)
LoopsBack(env, pos, sustained) ==
  /\ pos = At(env, env.loop_end_point)
  /\ sustained \/ env.sustain_point # env.loop_end_point

HeldReleased(env, pos, sustained) ==  \* mutant
  ~sustained /\ env.sustain_point # NoSustain /\ pos = At(env, env.sustain_point)
Held(env, pos, sustained) ==
  sustained /\ env.sustain_point # NoSustain /\ pos = At(env, env.sustain_point)

LerpOutside(a, b, pos) ==  \* mutant
  (b.value * (pos - a.frame) + a.value * (b.frame - pos)) \div (b.frame - a.frame)
Lerp(a, b, pos) ==
  IF pos >= b.frame THEN b.value
  ELSE (b.value * (pos - a.frame) + a.value * (b.frame - pos)) \div (b.frame - a.frame)

(* The points, but for the last, that a position is not left of. *)
Reached(env, pos) == {j \in 0 .. env.num_points - 2 : pos >= At(env, j)}
Left(env, pos) == CHOOSE j \in Reached(env, pos) : \A k \in Reached(env, pos) : k <= j

LoopedPosition(env, counter, sustained) ==
  IF LoopsBack(env, counter, sustained) THEN At(env, env.loop_start_point) ELSE counter

(* No point is reached only left of the first: the assertion that fails     *)
(* there is left out of a release build.                                    *)
TickEnvelope(env, counter, sustained, garbage) ==
  LET pos == LoopedPosition(env, counter, sustained)
      j == Left(env, pos)
  IN  IF Held(env, pos, sustained)
      THEN [counter |-> pos, value |-> env.points[env.sustain_point].value]
      ELSE IF Reached(env, pos) = {}
      THEN [counter |-> pos, value |-> garbage]
      ELSE [counter |-> (pos + 1) % Counters,
            value |-> Lerp(env.points[j], env.points[j + 1], pos)]

TickEnvelopes(c, garbage) ==
  IF c.instrument = NoInstrument THEN c
  ELSE LET env == c.instrument.envelope
           fadeout == c.instrument.volume_fadeout
           tick == TickEnvelope(env, c.counter, c.sustained, garbage)
       IN  [c EXCEPT
              !.fadeout_volume = IF c.sustained THEN MAX_FADEOUT_VOLUME - 1
                                 ELSE IF @ < fadeout THEN 0 ELSE @ - fadeout,
              !.counter = IF env.num_points = 0 THEN @ ELSE tick.counter,
              !.value = IF env.num_points = 0 THEN MAX_ENVELOPE_VALUE ELSE tick.value]

-----------------------------------------------------------------------------
(* Notes.                                                                    *)

KeyOff(c) == [c EXCEPT !.sustained = FALSE]

TriggerInstrument(c) == [c EXCEPT !.sustained = TRUE, !.counter = 0]

(* Not every instrument number is valid, and not every note has a sample;   *)
(* a note out of range is ignored, but not its instrument.                  *)
TriggerNote(c, has_sample) ==
  [c EXCEPT !.instrument = IF has_sample THEN c.next_instrument ELSE NoInstrument]

HandleSlot(c, s, has_sample) ==
  LET seen == IF s.has_instrument THEN [c EXCEPT !.next_instrument = s.instrument] ELSE c
      noted == CASE s.note = "off" -> KeyOff(seen)
                 [] s.note = "note" -> TriggerNote(seen, has_sample)
                 [] s.note = "none" -> seen
      begun == IF s.has_instrument /\ s.note # "off" THEN TriggerInstrument(noted) ELSE noted
  IN  IF s.position = NoPosition THEN begun ELSE [begun EXCEPT !.counter = s.position]

-----------------------------------------------------------------------------
NoChannel ==
  [instrument |-> NoInstrument, next_instrument |-> NoInstrument, sustained |-> FALSE,
   counter |-> 0, fadeout_volume |-> 0, value |-> 0]

Init == ch = NoChannel

(* xm_row() *)
Row(s) == \E has_sample \in BOOLEAN : ch' = HandleSlot(ch, s, has_sample)

(* xm_tick() *)
Tick == \E garbage \in Garbage : ch' = TickEnvelopes(ch, garbage)

(* Kxx *)
KeyOffEffect == ch' = KeyOff(ch)

(* E9y, which also moves the envelopes on. *)
RetriggerNote ==
  \E has_sample \in BOOLEAN, garbage \in Garbage :
    ch' = TickEnvelopes(TriggerNote(TriggerInstrument(ch), has_sample), garbage)

(* Rxy *)
MultiRetrigNote == \E has_sample \in BOOLEAN : ch' = TriggerNote(ch, has_sample)

(* EDy: the slot is handled y ticks late, and its note triggered once more. *)
DelayNote(s) ==
  \E has_sample \in BOOLEAN, garbage \in Garbage :
    LET late == TriggerInstrument(HandleSlot(ch, s, has_sample))
    IN  /\ s.position = NoPosition
        /\ ch' = TickEnvelopes(IF s.note = "off" THEN late ELSE TriggerNote(late, has_sample),
                               garbage)

(* xm_dump_context() *)
Dump == ch' = [ch EXCEPT !.instrument = NoInstrument, !.next_instrument = NoInstrument]

(* xm_reset_context() *)
Reset == ch' = NoChannel

Next ==
  \/ \E s \in Slots : Row(s)
  \/ Tick
  \/ KeyOffEffect
  \/ RetriggerNote
  \/ MultiRetrigNote
  \/ \E s \in Slots : DelayNote(s)
  \/ Dump
  \/ Reset

Spec == Init /\ [][Next]_ch

(* The player generates samples for ever, and so ticks.                     *)
FairSpec == Spec /\ WF_ch(Tick)
-----------------------------------------------------------------------------
Channels ==
  [instrument : Instruments \union {NoInstrument},
   next_instrument : Instruments \union {NoInstrument},
   sustained : BOOLEAN,
   counter : 0 .. Counters - 1,
   fadeout_volume : 0 .. MAX_FADEOUT_VOLUME - 1,
   value : (0 .. MAX_ENVELOPE_VALUE) \union Garbage]

(* Every field keeps its type: a value is computed from the envelope and at *)
(* most MAX_ENVELOPE_VALUE, on which the arithmetic of xm_tick() relies, or *)
(* it is what a release build returns past the last assertion.              *)
TypeOK == ch \in Channels

Enveloped(c) == c.instrument # NoInstrument /\ c.instrument.envelope.num_points > 0

(* The assertions of xm_tick_envelope() and xm_envelope_lerp().  Whatever is *)
(* in the file, the envelope that is used has two points, its loop and its   *)
(* sustain point are points of it, and a position that reached a point is    *)
(* between two points or past the last, and gives a value in range.  The     *)
(* last assertion, that a point was reached, holds for an envelope whose     *)
(* first point is at frame 0, and only for these: nothing checks that it is. *)
TickAssertions ==
  Enveloped(ch) =>
    LET env == ch.instrument.envelope
        pos == LoopedPosition(env, ch.counter, ch.sustained)
        j == Left(env, pos)
    IN  /\ env.num_points >= 2
        /\ env.loop_start_point < env.num_points /\ env.loop_end_point < env.num_points
        /\ env.sustain_point # NoSustain => env.sustain_point < env.num_points
        /\ At(env, 0) = 0 => Reached(env, pos) # {}
        /\ Reached(env, pos) # {} =>
             /\ pos >= At(env, j) /\ At(env, j) < At(env, j + 1)
             /\ \A garbage \in Garbage :
                  TickEnvelope(env, ch.counter, ch.sustained, garbage).value
                    \in 0 .. MAX_ENVELOPE_VALUE

(* A held note waits at the sustain point: only Lxx takes it past.          *)
SetsPosition == \E s \in Slots : s.position # NoPosition /\ Row(s)
SustainIsHeld ==
  [][/\ Enveloped(ch) /\ ch.sustained /\ ch'.sustained
     /\ ch'.instrument = ch.instrument
     /\ ch.instrument.envelope.sustain_point # NoSustain
     =>
     LET sustain == At(ch.instrument.envelope, ch.instrument.envelope.sustain_point)
     IN  ch.counter <= sustain => ch'.counter <= sustain \/ SetsPosition]_ch

HasLoop(env) == env.loop_start_point < env.loop_end_point

(* A tick does not leave the loop, unless the note is released and the loop *)
(* ends at the sustain point.                                               *)
LoopIsHeld ==
  [][/\ Tick /\ Enveloped(ch) /\ HasLoop(ch.instrument.envelope)
     /\ ch.sustained \/ ch.instrument.envelope.sustain_point
                         # ch.instrument.envelope.loop_end_point
     =>
     LET first == At(ch.instrument.envelope, ch.instrument.envelope.loop_start_point)
         last == At(ch.instrument.envelope, ch.instrument.envelope.loop_end_point)
     IN  ch.counter \in first .. last => ch'.counter \in first .. last]_ch

(* What holds a note holds it while slots change its instrument under way.  *)
NotesAreHeld == SustainIsHeld /\ LoopIsHeld

(* A released note that is left alone comes to the end of its envelope, if  *)
(* the key off took it out of the loop and it is not left of all points,    *)
(* and fades out, if it has a fadeout.                                      *)
AtEnd(c) ==
  LET env == c.instrument.envelope IN c.counter >= At(env, env.num_points - 1)
Released(c) == c.instrument # NoInstrument /\ ~c.sustained
Ends(c) ==
  Enveloped(c) =>
    LET env == c.instrument.envelope
    IN  \/ AtEnd(c)
        \/ HasLoop(env) /\ env.sustain_point # env.loop_end_point
        \/ c.counter < At(env, 0)
Fades(c) == c.instrument # NoInstrument /\ c.instrument.volume_fadeout > 0
ReleasedNoteEnds ==
  <>[]Released(ch) /\ <>[][Tick]_ch
    => []<>Ends(ch) /\ <>[](Fades(ch) => ch.fadeout_volume = 0)
=============================================================================
