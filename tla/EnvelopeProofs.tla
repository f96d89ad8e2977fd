---------------------------- MODULE EnvelopeProofs ----------------------------
(***************************************************************************)
(* Whatever envelopes a file holds and whatever is played, the assertions   *)
(* of xm_tick_envelope() hold, but for the one that a position left of the  *)
(* first point fails, and the value it returns is at most                   *)
(* MAX_ENVELOPE_VALUE.  A held note waits at its sustain point, and ticks   *)
(* stay in a loop.                                                          *)
(***************************************************************************)
EXTENDS Envelope, TLAPS

(* What xm_check_and_fix_envelope() leaves of an envelope it does not kill. *)
Usable(env) ==
  /\ env.num_points \in 2 .. 12
  /\ env.points \in [0 .. env.num_points - 1 ->
                      [frame : 0 .. Counters - 1, value : 0 .. MAX_ENVELOPE_VALUE]]
  /\ \A i \in 1 .. env.num_points - 1 : At(env, i - 1) < At(env, i)
  /\ env.loop_start_point \in 0 .. env.num_points - 1
  /\ env.loop_end_point \in 0 .. env.num_points - 1
  /\ env.loop_start_point <= env.loop_end_point
  /\ env.sustain_point = NoSustain \/ env.sustain_point \in 0 .. env.num_points - 1

LEMMA FixedIsUsable ==
  ASSUME NEW f \in Files, IsUsable(f)
  PROVE  Usable(FixedEnvelope(f))
<1> DEFINE n == NumPoints(f)
           env == FixedEnvelope(f)
<1>1. IsFile(f)
  BY FilesAssumption
<1>2. n \in 2 .. MAX_ENVELOPE_POINTS /\ n \in 2 .. 12
  BY <1>1, SizesAssumption DEF NumPoints, IsFile, IsUsable
<1>3. /\ env.num_points = n
      /\ env.points = [i \in 0 .. n - 1 |-> Point(f.points[i])]
      /\ env.sustain_point = IF f.sustain /\ f.sustain_point < n THEN f.sustain_point
                             ELSE NoSustain
      /\ env.loop_start_point = IF Loops(f) THEN f.loop_start_point ELSE 0
      /\ env.loop_end_point = IF Loops(f) THEN f.loop_end_point ELSE 0
  BY DEF FixedEnvelope
<1>4. ASSUME NEW i \in 0 .. n - 1
      PROVE  /\ Point(f.points[i]) \in [frame : 0 .. Counters - 1, value : 0 .. MAX_ENVELOPE_VALUE]
             /\ Point(f.points[i]).frame = f.points[i].frame
  <2>1. i \in 0 .. MAX_ENVELOPE_POINTS - 1
    BY <1>2, SizesAssumption
  <2>2. IsPoint(f.points[i])
    BY <1>1, <2>1 DEF IsFile
  <2>3. QED
    BY <2>2, SizesAssumption DEF IsPoint, Point
<1>5. env.points \in [0 .. n - 1 -> [frame : 0 .. Counters - 1, value : 0 .. MAX_ENVELOPE_VALUE]]
  BY <1>3, <1>4
<1>6. \A i \in 0 .. n - 1 : At(env, i) = f.points[i].frame
  BY <1>3, <1>4 DEF At
<1>7. \A i \in 1 .. n - 1 : At(env, i - 1) < At(env, i)
  <2> SUFFICES ASSUME NEW i \in 1 .. n - 1
               PROVE  At(env, i - 1) < At(env, i)
    OBVIOUS
  <2>1. i - 1 \in 0 .. n - 1 /\ i \in 0 .. n - 1
    BY <1>2
  <2>2. f.points[i - 1].frame < f.points[i].frame
    BY DEF IsUsable
  <2>3. QED
    BY <1>6, <2>1, <2>2
<1>8. /\ env.loop_start_point \in 0 .. n - 1 /\ env.loop_end_point \in 0 .. n - 1
      /\ env.loop_start_point <= env.loop_end_point
  BY <1>1, <1>2, <1>3 DEF Loops, IsFile
<1>9. env.sustain_point = NoSustain \/ env.sustain_point \in 0 .. n - 1
  BY <1>1, <1>2, <1>3 DEF IsFile
<1> HIDE DEF env
<1>11. Usable(env)
  BY <1>2, <1>3, <1>5, <1>6, <1>7, <1>8, <1>9 DEF Usable
<1>12. QED
  BY <1>11 DEF env

LEMMA InstrumentFacts ==
  ASSUME NEW i \in Instruments
  PROVE  /\ i.volume_fadeout \in Nat
         /\ i.envelope.num_points \in Nat
         /\ i.envelope.num_points > 0 => Usable(i.envelope)
<1>1. PICK f \in Files : i = Loaded(f)
  BY DEF Instruments
<1>2. i.envelope = FixedEnvelope(f) /\ i.volume_fadeout = f.volume_fadeout
  BY <1>1 DEF Loaded
<1>3. i.volume_fadeout \in Nat
  BY <1>2, FilesAssumption DEF IsFile
<1>4. CASE IsUsable(f)
  <2>1. Usable(i.envelope)
    BY <1>2, <1>4, FixedIsUsable
  <2>2. i.envelope.num_points \in 2 .. 12
    BY <2>1 DEF Usable
  <2>3. QED
    BY <1>3, <2>1, <2>2
<1>5. CASE ~IsUsable(f)
  BY <1>2, <1>3, <1>5 DEF FixedEnvelope, NoEnvelope
<1>6. QED
  BY <1>4, <1>5

(* Some point is the last that is reached: one case for each point there    *)
(* may be.                                                                  *)
LEMMA LeftFacts ==
  ASSUME NEW env, Usable(env), NEW pos \in Nat, Reached(env, pos) # {}
  PROVE  /\ Left(env, pos) \in 0 .. env.num_points - 2
         /\ pos >= At(env, Left(env, pos))
<1> DEFINE last == env.num_points - 2
           R == Reached(env, pos)
<1>1. last \in 0 .. 10
  BY DEF Usable
<1>3. R \subseteq 0 .. last
  BY DEF Reached
<1>4. \E j \in R : \A k \in R : k <= j
  <2> SUFFICES ASSUME \A j \in R : \E k \in R : k > j
               PROVE  FALSE
    BY <1>1, <1>3
  <2> DEFINE above(m) == \E k \in R : k > m
  <2>1. \A m \in 0 .. 10 : above(m) => \E k \in R : k >= m + 1
    BY <1>1, <1>3
  <2>2. \A m \in 0 .. 10 : (\E k \in R : k >= m) => above(m)
    BY <1>1, <1>3
  <2>3. above(0) /\ above(1) /\ above(2) /\ above(3)
    BY <1>1, <1>3, <2>1, <2>2
  <2>4. above(4) /\ above(5) /\ above(6) /\ above(7)
    BY <2>1, <2>2, <2>3
  <2>5. above(8) /\ above(9) /\ above(10)
    BY <2>1, <2>2, <2>4
  <2>6. QED
    BY <1>1, <1>3, <2>5
<1>5. Left(env, pos) \in R
  BY <1>4 DEF Left
<1>6. QED
  BY <1>3, <1>5 DEF Reached

LEMMA FirstIsReached ==
  ASSUME NEW env, Usable(env), At(env, 0) = 0, NEW pos \in Nat
  PROVE  Reached(env, pos) # {}
<1>1. 0 \in 0 .. env.num_points - 2
  BY DEF Usable
<1> QED
  BY <1>1 DEF Reached

LEMMA LerpInRange ==
  ASSUME NEW M \in Nat, NEW pos \in Nat,
         NEW a \in [frame : Nat, value : 0 .. M], NEW b \in [frame : Nat, value : 0 .. M],
         a.frame <= pos, a.frame < b.frame
  PROVE  Lerp(a, b, pos) \in 0 .. M
<1>1. CASE pos >= b.frame
  BY <1>1 DEF Lerp
<1>2. CASE pos < b.frame
  <2> DEFINE x == pos - a.frame
             y == b.frame - pos
             sum == b.value * x + a.value * y
  <2>1. x \in Nat /\ y \in Nat \ {0} /\ b.frame - a.frame = x + y
    BY <1>2
  <2>2. a.value \in 0 .. M /\ b.value \in 0 .. M
    OBVIOUS
  <2>3. Lerp(a, b, pos) = sum \div (x + y)
    BY <1>2, <2>1 DEF Lerp
  <2> HIDE DEF x, y
  <2>4. b.value * x \in Nat /\ b.value * x <= M * x
    BY <2>1, <2>2
  <2>5. a.value * y \in Nat /\ a.value * y <= M * y
    BY <2>1, <2>2
  <2>6. M * (x + y) = M * x + M * y
    BY <2>1
  <2>7. sum \in Nat /\ sum <= M * (x + y)
    BY <2>1, <2>4, <2>5, <2>6
  <2>8. x + y \in Nat \ {0}
    BY <2>1
  <2> HIDE DEF sum
  <2>9. ASSUME NEW d \in Nat \ {0}, sum <= M * d
        PROVE  sum \div d \in 0 .. M
    BY <2>7, <2>9, SMT
  <2>10. QED
    BY <2>3, <2>7, <2>8, <2>9
<1>3. QED
  BY <1>1, <1>2

(* One tick: the position stays a uint16_t, and the value is one of the     *)
(* envelope, if the position reached a point of it.                         *)
LEMMA PositionFacts ==
  ASSUME NEW env, Usable(env), NEW counter \in 0 .. Counters - 1,
         NEW sustained \in BOOLEAN
  PROVE  LoopedPosition(env, counter, sustained) \in 0 .. Counters - 1
<1>1. \A i \in 0 .. env.num_points - 1 : At(env, i) \in 0 .. Counters - 1
  BY DEF Usable, At
<1>2. At(env, env.loop_start_point) \in 0 .. Counters - 1
  BY <1>1 DEF Usable
<1>3. QED
  BY <1>2, SizesAssumption DEF LoopedPosition

LEMMA TickFacts ==
  ASSUME NEW env, Usable(env), NEW counter \in 0 .. Counters - 1,
         NEW sustained \in BOOLEAN, NEW garbage
  PROVE  LET pos == LoopedPosition(env, counter, sustained)
             tick == TickEnvelope(env, counter, sustained, garbage)
         IN  /\ tick.counter \in 0 .. Counters - 1
             /\ tick.value \in (0 .. MAX_ENVELOPE_VALUE) \union {garbage}
             /\ Reached(env, pos) # {} => tick.value \in 0 .. MAX_ENVELOPE_VALUE
<1> DEFINE pos == LoopedPosition(env, counter, sustained)
           j == Left(env, pos)
           Pt == [frame : 0 .. Counters - 1, value : 0 .. MAX_ENVELOPE_VALUE]
<1>1. pos \in 0 .. Counters - 1 /\ pos \in Nat
  BY PositionFacts
<1>2. Reached(env, pos) # {} => j \in 0 .. env.num_points - 2 /\ pos >= At(env, j)
  BY <1>1, LeftFacts
<1>3. \A i \in 0 .. env.num_points - 1 : env.points[i] \in Pt
  BY DEF Usable
<1>4. env.num_points \in 2 .. 12
  BY DEF Usable
<1> HIDE DEF pos, j
<1>5. CASE Held(env, pos, sustained)
  <2>1. env.sustain_point \in 0 .. env.num_points - 1
    BY <1>5 DEF Held, Usable
  <2>2. env.points[env.sustain_point].value \in 0 .. MAX_ENVELOPE_VALUE
    BY <1>3, <2>1
  <2>3. TickEnvelope(env, counter, sustained, garbage)
          = [counter |-> pos, value |-> env.points[env.sustain_point].value]
    BY <1>5 DEF TickEnvelope, pos
  <2>4. QED
    BY <1>1, <2>2, <2>3 DEF pos
<1>6. CASE ~Held(env, pos, sustained) /\ Reached(env, pos) = {}
  BY <1>1, <1>6 DEF TickEnvelope, pos
<1>7. CASE ~Held(env, pos, sustained) /\ Reached(env, pos) # {}
  <2>1. j \in 0 .. env.num_points - 1 /\ j + 1 \in 1 .. env.num_points - 1
        /\ j + 1 \in 0 .. env.num_points - 1 /\ (j + 1) - 1 = j
    BY <1>2, <1>4, <1>7
  <2>2. At(env, (j + 1) - 1) < At(env, j + 1)
    BY <2>1 DEF Usable
  <2>3. /\ env.points[j] \in Pt /\ env.points[j + 1] \in Pt
        /\ env.points[j].frame < env.points[j + 1].frame
        /\ env.points[j].frame <= pos
    BY <1>2, <1>3, <1>7, <2>1, <2>2 DEF At
  <2>4. pos \in Nat /\ MAX_ENVELOPE_VALUE \in Nat
        /\ env.points[j] \in [frame : Nat, value : 0 .. MAX_ENVELOPE_VALUE]
        /\ env.points[j + 1] \in [frame : Nat, value : 0 .. MAX_ENVELOPE_VALUE]
    BY <1>1, <2>3, SizesAssumption
  <2>5. Lerp(env.points[j], env.points[j + 1], pos) \in 0 .. MAX_ENVELOPE_VALUE
    BY <2>3, <2>4, LerpInRange
  <2>6. TickEnvelope(env, counter, sustained, garbage)
          = [counter |-> (pos + 1) % Counters,
             value |-> Lerp(env.points[j], env.points[j + 1], pos)]
    BY <1>2, <1>7 DEF TickEnvelope, pos, j
  <2>7. (pos + 1) % Counters \in 0 .. Counters - 1
    BY <1>1, SizesAssumption
  <2>8. QED
    BY <2>5, <2>6, <2>7
<1>8. QED
  BY <1>5, <1>6, <1>7

LEMMA TickKeepsType ==
  ASSUME NEW c \in Channels, NEW garbage \in Garbage
  PROVE  TickEnvelopes(c, garbage) \in Channels
<1>1. CASE c.instrument = NoInstrument
  BY <1>1 DEF TickEnvelopes
<1>2. CASE c.instrument # NoInstrument
  <2> DEFINE env == c.instrument.envelope
             fadeout == c.instrument.volume_fadeout
             tick == TickEnvelope(env, c.counter, c.sustained, garbage)
             faded == IF c.sustained THEN MAX_FADEOUT_VOLUME - 1
                      ELSE IF c.fadeout_volume < fadeout THEN 0
                      ELSE c.fadeout_volume - fadeout
             counter == IF env.num_points = 0 THEN c.counter ELSE tick.counter
             value == IF env.num_points = 0 THEN MAX_ENVELOPE_VALUE ELSE tick.value
  <2>1. c.instrument \in Instruments /\ c.counter \in 0 .. Counters - 1
        /\ c.sustained \in BOOLEAN /\ c.fadeout_volume \in 0 .. MAX_FADEOUT_VOLUME - 1
    BY <1>2 DEF Channels
  <2>2. fadeout \in Nat /\ env.num_points \in Nat
        /\ (env.num_points > 0 => Usable(env))
    BY <2>1, InstrumentFacts
  <2>3. TickEnvelopes(c, garbage)
          = [c EXCEPT !.fadeout_volume = faded, !.counter = counter, !.value = value]
    BY <1>2 DEF TickEnvelopes
  <2> HIDE DEF env, fadeout
  <2>4. faded \in 0 .. MAX_FADEOUT_VOLUME - 1
    BY <2>1, <2>2, SizesAssumption
  <2>5. env.num_points > 0 =>
          /\ tick.counter \in 0 .. Counters - 1
          /\ tick.value \in (0 .. MAX_ENVELOPE_VALUE) \union Garbage
    BY <2>1, <2>2, TickFacts
  <2> HIDE DEF tick, faded
  <2>6. /\ counter \in 0 .. Counters - 1
        /\ value \in (0 .. MAX_ENVELOPE_VALUE) \union Garbage
    BY <2>1, <2>2, <2>5, SizesAssumption
  <2> HIDE DEF counter, value
  <2>7. QED
    BY <2>3, <2>4, <2>6 DEF Channels
<1>3. QED
  BY <1>1, <1>2

LEMMA NotesKeepType ==
  ASSUME NEW c \in Channels
  PROVE  /\ KeyOff(c) \in Channels
         /\ TriggerInstrument(c) \in Channels
         /\ \A has_sample \in BOOLEAN : TriggerNote(c, has_sample) \in Channels
<1>1. KeyOff(c) \in Channels
  BY DEF Channels, KeyOff
<1>2. TriggerInstrument(c) \in Channels
  <2>1. 0 \in 0 .. Counters - 1
    BY SizesAssumption
  <2>2. QED
    BY <2>1 DEF Channels, TriggerInstrument
<1>3. \A has_sample \in BOOLEAN : TriggerNote(c, has_sample) \in Channels
  BY DEF Channels, TriggerNote
<1>4. QED
  BY <1>1, <1>2, <1>3

LEMMA SlotKeepsType ==
  ASSUME NEW c \in Channels, NEW s \in Slots, NEW has_sample \in BOOLEAN
  PROVE  HandleSlot(c, s, has_sample) \in Channels
<1> DEFINE seen == IF s.has_instrument THEN [c EXCEPT !.next_instrument = s.instrument] ELSE c
           noted == CASE s.note = "off" -> KeyOff(seen)
                      [] s.note = "note" -> TriggerNote(seen, has_sample)
                      [] s.note = "none" -> seen
           begun == IF s.has_instrument /\ s.note # "off" THEN TriggerInstrument(noted)
                    ELSE noted
<1>1. IsSlot(s)
  BY SlotsAssumption
<1>2. seen \in Channels
  BY <1>1 DEF IsSlot, Channels
<1> HIDE DEF seen
<1>3. noted \in Channels
  BY <1>1, <1>2, NotesKeepType DEF IsSlot
<1> HIDE DEF noted
<1>4. begun \in Channels
  BY <1>3, NotesKeepType
<1> HIDE DEF begun
<1>5. HandleSlot(c, s, has_sample)
        = IF s.position = NoPosition THEN begun ELSE [begun EXCEPT !.counter = s.position]
  BY DEF HandleSlot, begun, noted, seen
<1>6. QED
  BY <1>1, <1>4, <1>5 DEF IsSlot, Channels

LEMMA NoChannelType == NoChannel \in Channels
BY SizesAssumption DEF NoChannel, Channels

LEMMA NextKeepsType ==
  ASSUME TypeOK, [Next]_ch
  PROVE  TypeOK'
<1> USE DEF TypeOK
<1>1. ASSUME NEW s \in Slots, Row(s)
      PROVE  TypeOK'
  BY <1>1, SlotKeepsType DEF Row
<1>2. CASE Tick
  BY <1>2, TickKeepsType DEF Tick
<1>3. CASE KeyOffEffect
  BY <1>3, NotesKeepType DEF KeyOffEffect
<1>4. CASE RetriggerNote
  <2>1. PICK has_sample \in BOOLEAN, garbage \in Garbage :
          ch' = TickEnvelopes(TriggerNote(TriggerInstrument(ch), has_sample), garbage)
    BY <1>4 DEF RetriggerNote
  <2>2. TriggerInstrument(ch) \in Channels
    BY NotesKeepType
  <2>3. TriggerNote(TriggerInstrument(ch), has_sample) \in Channels
    BY <2>2, NotesKeepType
  <2>4. QED
    BY <2>1, <2>3, TickKeepsType
<1>5. CASE MultiRetrigNote
  BY <1>5, NotesKeepType DEF MultiRetrigNote
<1>6. ASSUME NEW s \in Slots, DelayNote(s)
      PROVE  TypeOK'
  <2> DEFINE late(has_sample) == TriggerInstrument(HandleSlot(ch, s, has_sample))
             noted(has_sample) == IF s.note = "off" THEN late(has_sample)
                                  ELSE TriggerNote(late(has_sample), has_sample)
  <2>1. PICK has_sample \in BOOLEAN, garbage \in Garbage :
          ch' = TickEnvelopes(noted(has_sample), garbage)
    BY <1>6 DEF DelayNote
  <2>2. HandleSlot(ch, s, has_sample) \in Channels
    BY SlotKeepsType
  <2>3. late(has_sample) \in Channels
    BY <2>2, NotesKeepType
  <2> HIDE DEF late
  <2>4. noted(has_sample) \in Channels
    BY <2>3, NotesKeepType
  <2> HIDE DEF noted
  <2>5. QED
    BY <2>1, <2>4, TickKeepsType
<1>7. CASE Dump
  BY <1>7 DEF Dump, Channels
<1>8. CASE Reset
  BY <1>8, NoChannelType DEF Reset
<1>9. CASE UNCHANGED ch
  BY <1>9
<1>10. QED
  BY <1>1, <1>2, <1>3, <1>4, <1>5, <1>6, <1>7, <1>8, <1>9 DEF Next

(* The fields of a channel keep their types: the position stays a uint16_t  *)
(* and the fadeout does not go below 0, whatever envelopes the notes take   *)
(* over from each other.                                                    *)
THEOREM TypeIsKept == Spec => []TypeOK
<1>1. Init => TypeOK
  BY NoChannelType DEF Init, TypeOK
<1>2. TypeOK /\ [Next]_ch => TypeOK'
  BY NextKeepsType
<1>3. QED
  BY <1>1, <1>2, PTL DEF Spec

(* The assertions of xm_tick_envelope() and xm_envelope_lerp() hold for     *)
(* every envelope the loader lets pass, but the last one, which holds for   *)
(* those whose first point is at frame 0.  What is interpolated is at most  *)
(* MAX_ENVELOPE_VALUE: xm_tick() multiplies it in 31 bits with the volumes. *)
THEOREM AssertionsHold == Spec => []TickAssertions
<1>1. TypeOK => TickAssertions
  <2> SUFFICES ASSUME TypeOK, Enveloped(ch)
               PROVE  TickAssertions
    BY DEF TickAssertions
  <2> DEFINE env == ch.instrument.envelope
             pos == LoopedPosition(env, ch.counter, ch.sustained)
             j == Left(env, pos)
  <2>1. ch.instrument \in Instruments /\ ch.counter \in 0 .. Counters - 1
        /\ ch.sustained \in BOOLEAN /\ env.num_points > 0
    BY DEF TypeOK, Channels, Enveloped
  <2>2. Usable(env)
    BY <2>1, InstrumentFacts
  <2> HIDE DEF env
  <2>3. pos \in Nat
    BY <2>1, <2>2, PositionFacts
  <2>10. \A garbage \in Garbage :
           Reached(env, pos) # {} =>
             TickEnvelope(env, ch.counter, ch.sustained, garbage).value
               \in 0 .. MAX_ENVELOPE_VALUE
    BY <2>1, <2>2, TickFacts
  <2> HIDE DEF pos
  <2>4. Reached(env, pos) # {} => j \in 0 .. env.num_points - 2 /\ pos >= At(env, j)
    BY <2>2, <2>3, LeftFacts
  <2>11. At(env, 0) = 0 => Reached(env, pos) # {}
    BY <2>2, <2>3, FirstIsReached
  <2> HIDE DEF j
  <2>5. env.num_points \in 2 .. 12
    BY <2>2 DEF Usable
  <2>6. Reached(env, pos) # {} => j + 1 \in 1 .. env.num_points - 1 /\ (j + 1) - 1 = j
    BY <2>4, <2>5
  <2>7. Reached(env, pos) # {} => At(env, (j + 1) - 1) < At(env, j + 1)
    BY <2>2, <2>6 DEF Usable
  <2>8. /\ env.num_points >= 2
        /\ env.loop_start_point < env.num_points /\ env.loop_end_point < env.num_points
        /\ env.sustain_point # NoSustain => env.sustain_point < env.num_points
    <3>1. /\ env.loop_start_point \in 0 .. env.num_points - 1
          /\ env.loop_end_point \in 0 .. env.num_points - 1
          /\ env.sustain_point = NoSustain \/ env.sustain_point \in 0 .. env.num_points - 1
      BY <2>2 DEF Usable
    <3>2. QED
      BY <2>5, <3>1
  <2>9. QED
    BY <2>4, <2>6, <2>7, <2>8, <2>10, <2>11 DEF TickAssertions, env, pos, j
<1>2. QED
  BY <1>1, TypeIsKept, PTL

-----------------------------------------------------------------------------
(* What holds a note.                                                       *)

LEMMA EnvelopeIsUsable ==
  ASSUME NEW i \in Instruments
  PROVE  i.envelope.num_points \in Nat /\ (i.envelope.num_points > 0 => Usable(i.envelope))
<1>1. PICK f \in Files : i = Loaded(f)
  BY DEF Instruments
<1>2. i.envelope = FixedEnvelope(f)
  BY <1>1 DEF Loaded
<1>3. CASE IsUsable(f)
  <2>1. Usable(i.envelope)
    BY <1>2, <1>3, FixedIsUsable
  <2>2. i.envelope.num_points \in 2 .. 12
    BY <2>1 DEF Usable
  <2> QED
    BY <2>1, <2>2
<1>4. CASE ~IsUsable(f)
  BY <1>2, <1>4 DEF FixedEnvelope, NoEnvelope
<1> QED
  BY <1>3, <1>4

(* Points that follow each other do at any distance: one step for each      *)
(* point there may be.                                                      *)
LEMMA PointsIncrease ==
  ASSUME NEW env, Usable(env)
  PROVE  \A a, b \in 0 .. env.num_points - 1 : a < b => At(env, a) < At(env, b)
<1> DEFINE n == env.num_points
           above(b) == \A a \in 0 .. 11 : a < b /\ b < n => At(env, a) < At(env, b)
<1>1. n \in 2 .. 12
  BY DEF Usable
<1>2. /\ \A i \in 0 .. n - 1 : At(env, i) \in Int
      /\ \A i \in 1 .. n - 1 : At(env, i - 1) < At(env, i)
  <2>1. \A i \in 0 .. n - 1 : At(env, i) \in 0 .. Counters - 1
    BY DEF Usable, At
  <2>2. \A i \in 1 .. n - 1 : At(env, i - 1) < At(env, i)
    BY DEF Usable
  <2> QED
    BY <2>1, <2>2
<1> HIDE DEF n
<1>3. ASSUME NEW b \in 0 .. 10, above(b)
      PROVE  above(b + 1)
  <2> SUFFICES ASSUME NEW a \in 0 .. 11, a < b + 1, b + 1 < n
               PROVE  At(env, a) < At(env, b + 1)
    OBVIOUS
  <2>1. At(env, b) < At(env, b + 1)
    <3>1. b + 1 \in 1 .. n - 1 /\ (b + 1) - 1 = b
      BY <1>1
    <3> QED
      BY <1>2, <3>1
  <2>2. a = b \/ At(env, a) < At(env, b)
    <3>1. a = b \/ a < b
      OBVIOUS
    <3>2. b < n
      BY <1>1
    <3> QED
      BY <1>3, <3>1, <3>2
  <2>3. At(env, a) \in Int /\ At(env, b) \in Int /\ At(env, b + 1) \in Int
    <3>1. a \in 0 .. n - 1 /\ b \in 0 .. n - 1 /\ b + 1 \in 0 .. n - 1
      BY <1>1
    <3> QED
      BY <1>2, <3>1
  <2> QED
    BY <2>1, <2>2, <2>3
<1>4. above(0)
  OBVIOUS
<1> HIDE DEF above
<1>5. above(0 + 1) /\ above(1 + 1) /\ above(2 + 1) /\ above(3 + 1)
  BY <1>3, <1>4
<1>6. above(4 + 1) /\ above(5 + 1) /\ above(6 + 1) /\ above(7 + 1)
  BY <1>3, <1>5
<1>7. above(8 + 1) /\ above(9 + 1) /\ above(10 + 1)
  BY <1>3, <1>6
<1>8. \A b \in 0 .. 11 : above(b)
  BY <1>4, <1>5, <1>6, <1>7
<1> QED
  BY <1>1, <1>8 DEF above, n

(* A tick moves on by one from where the loop has put it, or waits.         *)
LEMMA TickMoves ==
  ASSUME NEW env, Usable(env), NEW counter \in 0 .. Counters - 1, NEW sustained \in BOOLEAN,
         NEW garbage
  PROVE  LET pos == LoopedPosition(env, counter, sustained)
             next == TickEnvelope(env, counter, sustained, garbage).counter
         IN  /\ pos \in 0 .. Counters - 1
             /\ next = pos \/ (next = (pos + 1) % Counters /\ ~Held(env, pos, sustained))
             /\ next \in 0 .. Counters - 1
<1> DEFINE pos == LoopedPosition(env, counter, sustained)
           next == TickEnvelope(env, counter, sustained, garbage).counter
<1>1. pos \in 0 .. Counters - 1
  <2>1. \A i \in 0 .. env.num_points - 1 : At(env, i) \in 0 .. Counters - 1
    BY DEF Usable, At
  <2>2. At(env, env.loop_start_point) \in 0 .. Counters - 1
    BY <2>1 DEF Usable
  <2> QED
    BY <2>2 DEF LoopedPosition
<1>2. next = IF Held(env, pos, sustained) \/ Reached(env, pos) = {} THEN pos
             ELSE (pos + 1) % Counters
  BY DEF TickEnvelope
<1> HIDE DEF pos, next
<1>3. (pos + 1) % Counters \in 0 .. Counters - 1
  BY <1>1, SizesAssumption
<1>4. next = pos \/ (next = (pos + 1) % Counters /\ ~Held(env, pos, sustained))
  BY <1>2
<1> QED
  BY <1>1, <1>3, <1>4 DEF pos, next

LEMMA LoopEnds ==
  ASSUME NEW env, Usable(env)
  PROVE  LET first == At(env, env.loop_start_point)
             last == At(env, env.loop_end_point)
         IN  /\ first \in 0 .. Counters - 1 /\ last \in 0 .. Counters - 1
             /\ first <= last
             /\ HasLoop(env) => first < last
<1>1. /\ env.loop_start_point \in 0 .. env.num_points - 1
      /\ env.loop_end_point \in 0 .. env.num_points - 1
      /\ env.loop_start_point <= env.loop_end_point
      /\ env.num_points \in 2 .. 12
  BY DEF Usable
<1>2. \A i \in 0 .. env.num_points - 1 : At(env, i) \in 0 .. Counters - 1
  BY DEF Usable, At
<1>3. \A a, b \in 0 .. env.num_points - 1 : a < b => At(env, a) < At(env, b)
  BY PointsIncrease
<1>4. HasLoop(env) => At(env, env.loop_start_point) < At(env, env.loop_end_point)
  BY <1>1, <1>3 DEF HasLoop
<1>5. At(env, env.loop_start_point) <= At(env, env.loop_end_point)
  <2>1. CASE env.loop_start_point = env.loop_end_point
    BY <1>1, <1>2, <2>1
  <2>2. CASE env.loop_start_point # env.loop_end_point
    BY <1>1, <1>2, <1>4, <2>2 DEF HasLoop
  <2> QED
    BY <2>1, <2>2
<1> QED
  BY <1>1, <1>2, <1>4, <1>5

(* While a note is held, a tick does not take it past its sustain point.    *)
LEMMA TickWaits ==
  ASSUME NEW env, Usable(env), NEW counter \in 0 .. Counters - 1, NEW garbage,
         env.sustain_point # NoSustain, counter <= At(env, env.sustain_point)
  PROVE  TickEnvelope(env, counter, TRUE, garbage).counter <= At(env, env.sustain_point)
<1> DEFINE pos == LoopedPosition(env, counter, TRUE)
           sustain == At(env, env.sustain_point)
           next == TickEnvelope(env, counter, TRUE, garbage).counter
<1>1. sustain \in 0 .. Counters - 1
  <2>1. \A i \in 0 .. env.num_points - 1 : At(env, i) \in 0 .. Counters - 1
    BY DEF Usable, At
  <2>2. env.sustain_point \in 0 .. env.num_points - 1
    BY DEF Usable
  <2> QED
    BY <2>1, <2>2
<1>2. pos \in 0 .. Counters - 1 /\ next \in 0 .. Counters - 1
      /\ (next = pos \/ (next = (pos + 1) % Counters /\ ~Held(env, pos, TRUE)))
  BY TickMoves
<1>3. pos <= counter
  BY LoopEnds, SizesAssumption DEF LoopedPosition, LoopsBack
<1>4. Held(env, pos, TRUE) <=> pos = sustain
  BY DEF Held
<1> HIDE DEF pos, sustain, next
<1>5. counter <= sustain
  BY DEF sustain
<1>8. next = pos \/ (next = (pos + 1) % Counters /\ pos # sustain)
  BY <1>2, <1>4, Zenon
<1>9. pos \in 0 .. Counters - 1
  BY <1>2
<1>6. pos = sustain => next <= sustain
  BY <1>1, <1>8, <1>9
<1>7. ASSUME pos # sustain
      PROVE  next <= sustain
  <2>1. pos + 1 <= sustain
    BY <1>1, <1>3, <1>5, <1>7, <1>9
  <2>2. (pos + 1) % Counters = pos + 1
    BY <1>1, <1>9, <2>1, SizesAssumption
  <2> QED
    BY <1>1, <1>8, <1>9, <2>1, <2>2
<1> QED
  BY <1>6, <1>7 DEF next, sustain

(* A tick does not leave a loop that it goes back in.                       *)
LEMMA TickLoops ==
  ASSUME NEW env, Usable(env), HasLoop(env), NEW counter \in 0 .. Counters - 1,
         NEW sustained \in BOOLEAN, NEW garbage,
         sustained \/ env.sustain_point # env.loop_end_point,
         counter \in At(env, env.loop_start_point) .. At(env, env.loop_end_point)
  PROVE  TickEnvelope(env, counter, sustained, garbage).counter
           \in At(env, env.loop_start_point) .. At(env, env.loop_end_point)
<1> DEFINE pos == LoopedPosition(env, counter, sustained)
           first == At(env, env.loop_start_point)
           last == At(env, env.loop_end_point)
           next == TickEnvelope(env, counter, sustained, garbage).counter
<1>1. first \in 0 .. Counters - 1 /\ last \in 0 .. Counters - 1 /\ first < last
  BY LoopEnds
<1>2. pos \in 0 .. Counters - 1 /\ (next = pos \/ next = (pos + 1) % Counters)
  BY TickMoves
<1>3. pos = IF counter = last THEN first ELSE counter
  BY DEF LoopedPosition, LoopsBack
<1> HIDE DEF pos, first, last, next
<1>4. counter \in first .. last
  BY DEF first, last
<1>5. pos \in first .. last - 1
  BY <1>1, <1>3, <1>4
<1>6. (pos + 1) % Counters = pos + 1
  BY <1>1, <1>5, SizesAssumption
<1>7. next \in first .. last
  BY <1>1, <1>2, <1>5, <1>6
<1> QED
  BY <1>7 DEF next, first, last

(* The fields that say where a channel is in its envelope have their types. *)
IsPlaced(c) ==
  /\ c = [instrument |-> c.instrument, next_instrument |-> c.next_instrument,
          sustained |-> c.sustained, counter |-> c.counter,
          fadeout_volume |-> c.fadeout_volume, value |-> c.value]
  /\ c.instrument \in Instruments \union {NoInstrument}
  /\ c.next_instrument \in Instruments \union {NoInstrument}
  /\ c.sustained \in BOOLEAN /\ c.counter \in 0 .. Counters - 1

LEMMA NotesPlace ==
  ASSUME NEW c, IsPlaced(c), NEW has_sample \in BOOLEAN
  PROVE  /\ IsPlaced(KeyOff(c)) /\ KeyOff(c).counter = c.counter
         /\ IsPlaced(TriggerInstrument(c)) /\ TriggerInstrument(c).counter = 0
         /\ IsPlaced(TriggerNote(c, has_sample))
         /\ TriggerNote(c, has_sample).counter = c.counter
<1>1. ASSUME NEW d, IsPlaced(d), NEW sustained \in BOOLEAN
      PROVE  /\ IsPlaced([d EXCEPT !.sustained = sustained])
             /\ [d EXCEPT !.sustained = sustained].counter = d.counter
  <2>1. [d EXCEPT !.sustained = sustained]
          = [instrument |-> d.instrument, next_instrument |-> d.next_instrument,
             sustained |-> sustained, counter |-> d.counter,
             fadeout_volume |-> d.fadeout_volume, value |-> d.value]
    BY <1>1 DEF IsPlaced
  <2> QED
    BY <1>1, <2>1 DEF IsPlaced
<1>2. IsPlaced(KeyOff(c)) /\ KeyOff(c).counter = c.counter
  BY <1>1 DEF KeyOff
<1>3. IsPlaced(TriggerInstrument(c)) /\ TriggerInstrument(c).counter = 0
  <2> DEFINE d == [c EXCEPT !.sustained = TRUE]
  <2>1. TriggerInstrument(c) = [d EXCEPT !.counter = 0]
    BY DEF TriggerInstrument
  <2>2. IsPlaced(d)
    BY <1>1
  <2> HIDE DEF d
  <2>3. 0 \in 0 .. Counters - 1
    BY SizesAssumption
  <2> QED
    BY <2>1, <2>2, <2>3 DEF IsPlaced
<1>4. /\ IsPlaced(TriggerNote(c, has_sample))
      /\ TriggerNote(c, has_sample).counter = c.counter
  BY DEF IsPlaced, TriggerNote
<1> QED
  BY <1>2, <1>3, <1>4

LEMMA SlotPlaces ==
  ASSUME NEW c, IsPlaced(c), NEW s \in Slots, NEW has_sample \in BOOLEAN
  PROVE  /\ IsPlaced(HandleSlot(c, s, has_sample))
         /\ s.position = NoPosition =>
              HandleSlot(c, s, has_sample).counter \in {c.counter, 0}
<1> DEFINE seen == IF s.has_instrument THEN [c EXCEPT !.next_instrument = s.instrument] ELSE c
           noted == CASE s.note = "off" -> KeyOff(seen)
                      [] s.note = "note" -> TriggerNote(seen, has_sample)
                      [] s.note = "none" -> seen
           begun == IF s.has_instrument /\ s.note # "off" THEN TriggerInstrument(noted)
                    ELSE noted
<1>1. IsSlot(s)
  BY SlotsAssumption
<1>2. IsPlaced(seen) /\ seen.counter = c.counter
  BY <1>1 DEF IsSlot, IsPlaced
<1> HIDE DEF seen
<1>3. IsPlaced(noted) /\ noted.counter = c.counter
  BY <1>1, <1>2, NotesPlace DEF IsSlot
<1> HIDE DEF noted
<1>4. IsPlaced(begun) /\ begun.counter \in {c.counter, 0}
  BY <1>3, NotesPlace
<1> HIDE DEF begun
<1>5. HandleSlot(c, s, has_sample)
        = IF s.position = NoPosition THEN begun ELSE [begun EXCEPT !.counter = s.position]
  BY DEF HandleSlot, begun, noted, seen
<1>6. CASE s.position = NoPosition
  BY <1>4, <1>5, <1>6
<1>7. CASE s.position # NoPosition
  <2>1. s.position \in 0 .. Counters - 1
    BY <1>1, <1>7 DEF IsSlot
  <2>2. IsPlaced([begun EXCEPT !.counter = s.position])
    BY <1>4, <2>1 DEF IsPlaced
  <2> QED
    BY <1>5, <1>7, <2>2
<1> QED
  BY <1>6, <1>7

LEMMA TickPlaces ==
  ASSUME NEW c, IsPlaced(c), NEW garbage
  PROVE  LET d == TickEnvelopes(c, garbage)
         IN  /\ IsPlaced(d) /\ d.instrument = c.instrument /\ d.sustained = c.sustained
             /\ Enveloped(c) =>
                  /\ Usable(c.instrument.envelope)
                  /\ d.counter = TickEnvelope(c.instrument.envelope, c.counter,
                                              c.sustained, garbage).counter
<1>1. CASE c.instrument = NoInstrument
  BY <1>1 DEF TickEnvelopes, Enveloped
<1>2. CASE c.instrument # NoInstrument
  <2> DEFINE env == c.instrument.envelope
             tick == TickEnvelope(env, c.counter, c.sustained, garbage)
             faded == IF c.sustained THEN MAX_FADEOUT_VOLUME - 1
                      ELSE IF c.fadeout_volume < c.instrument.volume_fadeout THEN 0
                      ELSE c.fadeout_volume - c.instrument.volume_fadeout
             counter == IF env.num_points = 0 THEN c.counter ELSE tick.counter
             value == IF env.num_points = 0 THEN MAX_ENVELOPE_VALUE ELSE tick.value
  <2>1. env.num_points \in Nat /\ (env.num_points > 0 => Usable(env))
    BY <1>2, EnvelopeIsUsable DEF IsPlaced
  <2>2. TickEnvelopes(c, garbage)
          = [c EXCEPT !.fadeout_volume = faded, !.counter = counter, !.value = value]
    BY <1>2 DEF TickEnvelopes
  <2>3. c.counter \in 0 .. Counters - 1 /\ c.sustained \in BOOLEAN
    BY DEF IsPlaced
  <2>4. Enveloped(c) <=> env.num_points > 0
    BY <1>2 DEF Enveloped
  <2> HIDE DEF env
  <2>5. env.num_points > 0 => tick.counter \in 0 .. Counters - 1
    BY <2>1, <2>3, TickMoves
  <2> HIDE DEF tick, faded
  <2>6. /\ counter \in 0 .. Counters - 1
        /\ Enveloped(c) => counter = tick.counter
    BY <2>1, <2>3, <2>4, <2>5
  <2> HIDE DEF counter, value
  <2> DEFINE d == TickEnvelopes(c, garbage)
  <2>7. /\ d = [instrument |-> c.instrument, next_instrument |-> c.next_instrument,
                sustained |-> c.sustained, counter |-> counter,
                fadeout_volume |-> faded, value |-> value]
    BY <2>2 DEF IsPlaced
  <2> HIDE DEF d
  <2>8. IsPlaced(d) /\ d.instrument = c.instrument /\ d.sustained = c.sustained
        /\ d.counter = counter
    BY <2>6, <2>7 DEF IsPlaced
  <2> QED
    BY <2>1, <2>4, <2>6, <2>8 DEF d, tick, env
<1> QED
  BY <1>1, <1>2

(* E9y and EDy tick a channel whose position is the start of an envelope.    *)
LEMMA RetriggersPlace ==
  ASSUME IsPlaced(ch), RetriggerNote \/ \E s \in Slots : DelayNote(s)
  PROVE  \E c, garbage :
           IsPlaced(c) /\ c.counter = 0 /\ ch' = TickEnvelopes(c, garbage)
<1>1. CASE RetriggerNote
  <2>1. PICK has_sample \in BOOLEAN, garbage \in Garbage :
          ch' = TickEnvelopes(TriggerNote(TriggerInstrument(ch), has_sample), garbage)
    BY <1>1 DEF RetriggerNote
  <2>2. IsPlaced(TriggerInstrument(ch)) /\ TriggerInstrument(ch).counter = 0
    BY NotesPlace
  <2>3. /\ IsPlaced(TriggerNote(TriggerInstrument(ch), has_sample))
        /\ TriggerNote(TriggerInstrument(ch), has_sample).counter = 0
    BY <2>2, NotesPlace
  <2> QED
    BY <2>1, <2>3
<1>2. ASSUME NEW s \in Slots, DelayNote(s)
      PROVE  \E c, garbage :
               IsPlaced(c) /\ c.counter = 0 /\ ch' = TickEnvelopes(c, garbage)
  <2> DEFINE late(has_sample) == TriggerInstrument(HandleSlot(ch, s, has_sample))
             noted(has_sample) == IF s.note = "off" THEN late(has_sample)
                                  ELSE TriggerNote(late(has_sample), has_sample)
  <2>1. PICK has_sample \in BOOLEAN, garbage \in Garbage :
          ch' = TickEnvelopes(noted(has_sample), garbage)
    BY <1>2 DEF DelayNote
  <2>2. IsPlaced(HandleSlot(ch, s, has_sample))
    BY SlotPlaces
  <2>3. IsPlaced(late(has_sample)) /\ late(has_sample).counter = 0
    BY <2>2, NotesPlace
  <2> HIDE DEF late
  <2>4. IsPlaced(noted(has_sample)) /\ noted(has_sample).counter = 0
    BY <2>3, NotesPlace
  <2> HIDE DEF noted
  <2> QED
    BY <2>1, <2>4
<1> QED
  BY <1>1, <1>2

Placed == IsPlaced(ch)

LEMMA NextKeepsPlaced == Placed /\ [Next]_ch => Placed'
<1> SUFFICES ASSUME IsPlaced(ch), [Next]_ch PROVE IsPlaced(ch')
  BY DEF Placed
<1>1. ASSUME NEW s \in Slots, Row(s)
      PROVE  IsPlaced(ch')
  BY <1>1, SlotPlaces DEF Row
<1>2. CASE Tick
  BY <1>2, TickPlaces DEF Tick
<1>3. CASE KeyOffEffect
  BY <1>3, NotesPlace DEF KeyOffEffect
<1>4. CASE RetriggerNote
  BY <1>4, RetriggersPlace, TickPlaces
<1>5. CASE MultiRetrigNote
  BY <1>5, NotesPlace DEF MultiRetrigNote
<1>6. ASSUME NEW s \in Slots, DelayNote(s)
      PROVE  IsPlaced(ch')
  BY <1>6, RetriggersPlace, TickPlaces
<1>7. CASE Dump
  BY <1>7 DEF Dump, IsPlaced
<1>8. CASE Reset
  BY <1>8, SizesAssumption DEF Reset, NoChannel, IsPlaced
<1>9. CASE UNCHANGED ch
  BY <1>9
<1> QED
  BY <1>1, <1>2, <1>3, <1>4, <1>5, <1>6, <1>7, <1>8, <1>9 DEF Next

(* A tick of a note that is held, from no further than its sustain point:   *)
(* of the channel as it is, or of one that was triggered once more.         *)
LEMMA TickedWaits ==
  ASSUME NEW c, IsPlaced(c), NEW garbage, Enveloped(c), c.sustained,
         c.instrument.envelope.sustain_point # NoSustain,
         c.counter <= At(c.instrument.envelope, c.instrument.envelope.sustain_point)
  PROVE  TickEnvelopes(c, garbage).counter
           <= At(c.instrument.envelope, c.instrument.envelope.sustain_point)
<1> DEFINE env == c.instrument.envelope
<1>1. /\ Usable(env)
      /\ TickEnvelopes(c, garbage).counter
           = TickEnvelope(env, c.counter, c.sustained, garbage).counter
  BY TickPlaces
<1>2. c.counter \in 0 .. Counters - 1 /\ c.sustained = TRUE
  BY DEF IsPlaced
<1> QED
  BY <1>1, <1>2, TickWaits

(* SustainIsHeld and LoopIsHeld, of one step.                               *)
Waits ==
  /\ Enveloped(ch) /\ ch.sustained /\ ch'.sustained
  /\ ch'.instrument = ch.instrument
  /\ ch.instrument.envelope.sustain_point # NoSustain
  =>
  LET sustain == At(ch.instrument.envelope, ch.instrument.envelope.sustain_point)
  IN  ch.counter <= sustain => ch'.counter <= sustain \/ SetsPosition

StaysInLoop ==
  /\ Tick /\ Enveloped(ch) /\ HasLoop(ch.instrument.envelope)
  /\ ch.sustained \/ ch.instrument.envelope.sustain_point
                      # ch.instrument.envelope.loop_end_point
  =>
  LET first == At(ch.instrument.envelope, ch.instrument.envelope.loop_start_point)
      last == At(ch.instrument.envelope, ch.instrument.envelope.loop_end_point)
  IN  ch.counter \in first .. last => ch'.counter \in first .. last

LEMMA StepWaits == Placed /\ [Next]_ch => [Waits]_ch
<1> DEFINE env == ch.instrument.envelope
           sustain == At(env, env.sustain_point)
<1> SUFFICES ASSUME IsPlaced(ch), Next, Enveloped(ch), ch.sustained, ch'.sustained,
                    ch'.instrument = ch.instrument, env.sustain_point # NoSustain,
                    ch.counter <= sustain
             PROVE  ch'.counter <= sustain \/ SetsPosition
  BY DEF Placed, Waits
<1>1. sustain \in Nat /\ ch.counter \in Nat
  <2>1. Usable(env)
    BY EnvelopeIsUsable DEF Enveloped, IsPlaced
  <2>2. env.sustain_point \in 0 .. env.num_points - 1
    BY <2>1 DEF Usable
  <2>3. sustain \in 0 .. Counters - 1
    BY <2>1, <2>2 DEF Usable, At
  <2> QED
    BY <2>3 DEF IsPlaced
<1>2. ASSUME NEW c, NEW garbage, IsPlaced(c), c.counter = 0 \/ c = ch,
             ch' = TickEnvelopes(c, garbage)
      PROVE  ch'.counter <= sustain
  <2>1. c.instrument = ch.instrument /\ c.sustained
    BY <1>2, TickPlaces
  <2>2. Enveloped(c)
    BY <2>1 DEF Enveloped
  <2>3. c.counter <= sustain
    BY <1>1, <1>2
  <2> QED
    BY <1>2, <2>1, <2>2, <2>3, TickedWaits
<1>3. ASSUME NEW s \in Slots, Row(s)
      PROVE  ch'.counter <= sustain \/ SetsPosition
  <2>1. PICK has_sample \in BOOLEAN : ch' = HandleSlot(ch, s, has_sample)
    BY <1>3 DEF Row
  <2>2. CASE s.position = NoPosition
    <3>1. ch'.counter \in {ch.counter, 0}
      BY <2>1, <2>2, SlotPlaces
    <3> QED
      BY <1>1, <3>1
  <2>3. CASE s.position # NoPosition
    BY <1>3, <2>3 DEF SetsPosition
  <2> QED
    BY <2>2, <2>3
<1>4. CASE Tick
  <2>1. PICK garbage \in Garbage : ch' = TickEnvelopes(ch, garbage)
    BY <1>4 DEF Tick
  <2> QED
    BY <1>2, <2>1
<1>5. CASE KeyOffEffect
  BY <1>5, NotesPlace DEF KeyOffEffect
<1>6. CASE RetriggerNote \/ \E s \in Slots : DelayNote(s)
  <2>1. PICK c, garbage :
          IsPlaced(c) /\ c.counter = 0 /\ ch' = TickEnvelopes(c, garbage)
    BY <1>6, RetriggersPlace
  <2> QED
    BY <1>2, <2>1
<1>7. CASE MultiRetrigNote
  BY <1>7, NotesPlace DEF MultiRetrigNote
<1>8. CASE Dump \/ Reset
  <2>1. ch'.instrument = NoInstrument
    <3>1. CASE Dump
      BY <3>1 DEF Dump, IsPlaced
    <3>2. CASE Reset
      BY <3>2 DEF Reset, NoChannel
    <3> QED
      BY <1>8, <3>1, <3>2
  <2> QED
    BY <2>1 DEF Enveloped
<1> QED
  BY <1>3, <1>4, <1>5, <1>6, <1>7, <1>8 DEF Next

LEMMA TickStaysInLoop == Placed /\ [Next]_ch => [StaysInLoop]_ch
<1> DEFINE env == ch.instrument.envelope
           first == At(env, env.loop_start_point)
           last == At(env, env.loop_end_point)
<1> SUFFICES ASSUME IsPlaced(ch), Tick, Enveloped(ch), HasLoop(env),
                    ch.sustained \/ env.sustain_point # env.loop_end_point,
                    ch.counter \in first .. last
             PROVE  ch'.counter \in first .. last
  BY DEF Placed, StaysInLoop
<1>1. PICK garbage \in Garbage : ch' = TickEnvelopes(ch, garbage)
  BY DEF Tick
<1>2. /\ Usable(env)
      /\ ch'.counter = TickEnvelope(env, ch.counter, ch.sustained, garbage).counter
  BY <1>1, TickPlaces
<1>3. ch.counter \in 0 .. Counters - 1 /\ ch.sustained \in BOOLEAN
  BY DEF IsPlaced
<1> QED
  BY <1>2, <1>3, TickLoops

(* A held note waits at its sustain point, unless Lxx takes it past, and a  *)
(* note in a loop stays in it, unless the key was released at its end:      *)
(* whatever the envelopes of a file, also those on which assertions fail.   *)
THEOREM NotesStayHeld == Spec => NotesAreHeld
<1>1. Init => Placed
  BY SizesAssumption DEF Init, NoChannel, Placed, IsPlaced
<1>2. Placed /\ [Next]_ch => Placed'
  BY NextKeepsPlaced
<1>3. Placed /\ [Next]_ch => [Waits]_ch
  BY StepWaits
<1>4. Placed /\ [Next]_ch => [StaysInLoop]_ch
  BY TickStaysInLoop
<1>5. [][Waits]_ch => SustainIsHeld
  BY DEF Waits, SustainIsHeld
<1>6. [][StaysInLoop]_ch => LoopIsHeld
  BY DEF StaysInLoop, LoopIsHeld
<1> QED
  BY <1>1, <1>2, <1>3, <1>4, <1>5, <1>6, PTL DEF Spec, NotesAreHeld
=============================================================================
