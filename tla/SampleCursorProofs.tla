-------------------------- MODULE SampleCursorProofs --------------------------
(***************************************************************************)
(* The assertions of xm_next_of_sample() hold for every sample length,     *)
(* loop, number of microsteps and speed: what a channel reads is a frame   *)
(* of its sample, and it is interpolated with the frame that is read next. *)
(***************************************************************************)
EXTENDS SampleCursor, WellFoundedInduction, TLAPS

LEMMA DivUpper ==
  ASSUME NEW m \in Nat \ {0}, NEW k \in Nat, NEW x \in Nat, x < k * m
  PROVE  x \div m \in Nat /\ x \div m < k
<1>1. x \div m \in Nat /\ (x \div m) * m <= x
  BY SMT
<1>2. QED
  BY <1>1, SMT

LEMMA DivLower ==
  ASSUME NEW m \in Nat \ {0}, NEW k \in Nat, NEW x \in Nat, x >= k * m
  PROVE  x \div m >= k
BY SMT

LEMMA ModBounds ==
  ASSUME NEW m \in Nat \ {0}, NEW x \in Nat
  PROVE  x % m \in Nat /\ x % m < m
BY SMT

LEMMA TimesLess ==
  ASSUME NEW m \in Nat, NEW x \in Nat, NEW y \in Nat, y <= x
  PROVE  /\ x * m \in Nat /\ y * m \in Nat /\ y * m <= x * m
         /\ (x - y) * m = x * m - y * m
         /\ (x + y) * m = x * m + y * m
BY SMT

LEMMA TimesPositive ==
  ASSUME NEW m \in Nat \ {0}, NEW x \in Nat \ {0}
  PROVE  x * m \in Nat \ {0}
BY SMT

(* A position is reduced to one inside the sample, or inside the backward   *)
(* half of a ping-pong loop, and does not leave the loop.                   *)
LEMMA ReducedFacts ==
  ASSUME NEW s \in Samples, NEW pos \in Nat,
         s.loop_length > 0 \/ pos < s.length * MICROSTEPS
  PROVE  /\ Reduced(s, pos) \in Nat
         /\ Reduced(s, pos) <
              (IF s.ping_pong THEN s.length + s.loop_length ELSE s.length) * MICROSTEPS
         /\ pos >= s.length * MICROSTEPS => Reduced(s, pos) >= LoopStart(s) * MICROSTEPS
<1> DEFINE len == s.length * MICROSTEPS
           loop == s.loop_length * MICROSTEPS
           off == LoopStart(s) * MICROSTEPS
           period == LoopPeriod(s) * MICROSTEPS
<1>1. s.length \in Nat /\ s.loop_length \in Nat /\ s.loop_length <= s.length
      /\ s.ping_pong \in BOOLEAN /\ MICROSTEPS \in Nat \ {0}
  BY SamplesAssumption, MicrostepsAssumption DEF IsSample
<1>2. /\ len \in Nat /\ loop \in Nat /\ loop <= len
      /\ off = len - loop
      /\ (s.length + s.loop_length) * MICROSTEPS = len + loop
  BY <1>1, TimesLess DEF LoopStart
<1>3. period = IF s.ping_pong THEN 2 * loop ELSE loop
  BY <1>1, SMT DEF LoopPeriod
<1>4. CASE s.loop_length > 0 /\ pos >= len
  <2>1. loop \in Nat \ {0}
    BY <1>1, <1>4, TimesPositive
  <2>2. period \in Nat \ {0} /\ pos - off \in Nat
    BY <1>2, <1>3, <1>4, <2>1
  <2>3. (pos - off) % period \in Nat /\ (pos - off) % period < period
    BY <2>2, ModBounds
  <2>4. Reduced(s, pos) = off + ((pos - off) % period)
    BY <1>4 DEF Reduced
  <2>5. off + period = (IF s.ping_pong THEN s.length + s.loop_length ELSE s.length) * MICROSTEPS
    BY <1>1, <1>2, <1>3
  <2> HIDE DEF len, loop, off, period
  <2>6. Reduced(s, pos) >= off /\ Reduced(s, pos) < off + period /\ Reduced(s, pos) \in Nat
    BY <1>2, <2>2, <2>3, <2>4
  <2>7. QED
    BY <2>5, <2>6 DEF off
<1>5. CASE ~(s.loop_length > 0 /\ pos >= len)
  <2>1. Reduced(s, pos) = pos /\ pos < len
    BY <1>1, <1>2, <1>5 DEF Reduced
  <2>2. len <= len + loop
    BY <1>2
  <2>3. QED
    BY <1>1, <1>2, <2>1, <2>2
<1>6. QED
  BY <1>4, <1>5

LEMMA ReducedAtMost ==
  ASSUME NEW s \in Samples, NEW pos \in Nat,
         s.loop_length > 0 \/ pos < s.length * MICROSTEPS
  PROVE  Reduced(s, pos) <= pos
<1> DEFINE off == LoopStart(s) * MICROSTEPS
           period == LoopPeriod(s) * MICROSTEPS
<1>1. s.length \in Nat /\ s.loop_length \in Nat
      /\ s.loop_length <= s.length
      /\ s.ping_pong \in BOOLEAN /\ MICROSTEPS \in Nat \ {0}
  BY SamplesAssumption, MicrostepsAssumption DEF IsSample
<1>2. CASE s.loop_length > 0 /\ pos >= s.length * MICROSTEPS
  <2>1. off \in Nat /\ off <= s.length * MICROSTEPS
        /\ s.length * MICROSTEPS \in Nat
    BY <1>1, TimesLess DEF LoopStart
  <2>2. LoopPeriod(s) \in Nat \ {0}
    BY <1>1, <1>2 DEF LoopPeriod
  <2>3. period \in Nat \ {0}
    BY <1>1, <2>2, TimesPositive
  <2>4. Reduced(s, pos) = off + ((pos - off) % period)
    BY <1>2 DEF Reduced
  <2> HIDE DEF off, period
  <2>5. pos - off \in Nat
    BY <1>2, <2>1
  <2>6. (pos - off) % period <= pos - off /\ (pos - off) % period \in Nat
    BY <2>3, <2>5, SMT
  <2>7. QED
    BY <2>1, <2>4, <2>6
<1>3. CASE ~(s.loop_length > 0 /\ pos >= s.length * MICROSTEPS)
  BY <1>3 DEF Reduced
<1>4. QED
  BY <1>2, <1>3

(* So the frame read, and its neighbour, are frames of the sample; of the   *)
(* loop, if the loop was entered by its end or is read backwards.           *)
LEMMA IndexFacts ==
  ASSUME NEW s \in Samples, NEW pos \in Nat,
         s.loop_length > 0 \/ pos < s.length * MICROSTEPS,
         NEW first \in Nat,
         first = IF pos < s.length * MICROSTEPS THEN 0 ELSE LoopStart(s)
  PROVE  /\ Index(s, pos) \in first .. s.length - 1
         /\ Neighbour(s, pos) \in first .. s.length - 1
         /\ Backward(s, pos) => Index(s, pos) >= LoopStart(s)
<1> DEFINE f == Frame(s, pos)
<1>1. s.length \in Nat /\ s.loop_length \in Nat /\ s.loop_length <= s.length
      /\ s.ping_pong \in BOOLEAN /\ MICROSTEPS \in Nat \ {0}
  BY SamplesAssumption, MicrostepsAssumption DEF IsSample
<1>2. f \in Nat /\ f < IF s.ping_pong THEN s.length + s.loop_length ELSE s.length
  <2>1. Reduced(s, pos) \in Nat
    BY ReducedFacts
  <2>2. ASSUME NEW k \in Nat, Reduced(s, pos) < k * MICROSTEPS
        PROVE  f \in Nat /\ f < k
    BY <1>1, <2>1, <2>2, DivUpper DEF Frame
  <2>3. CASE s.ping_pong
    <3>1. Reduced(s, pos) < (s.length + s.loop_length) * MICROSTEPS
      BY <2>3, ReducedFacts
    <3>2. QED
      BY <1>1, <2>2, <2>3, <3>1
  <2>4. CASE ~s.ping_pong
    <3>1. Reduced(s, pos) < s.length * MICROSTEPS
      BY <2>4, ReducedFacts
    <3>2. QED
      BY <1>1, <2>2, <2>4, <3>1
  <2>5. QED
    BY <2>3, <2>4
<1>3. LoopStart(s) \in Nat /\ LoopStart(s) = s.length - s.loop_length
  BY <1>1 DEF LoopStart
<1>4. f >= first
  <2>1. CASE pos < s.length * MICROSTEPS
    BY <1>2, <2>1
  <2>2. CASE ~(pos < s.length * MICROSTEPS)
    <3>1. s.length * MICROSTEPS \in Nat /\ pos >= s.length * MICROSTEPS
      BY <1>1, <2>2, TimesLess
    <3>2. Reduced(s, pos) \in Nat /\ Reduced(s, pos) >= LoopStart(s) * MICROSTEPS
      BY <3>1, ReducedFacts
    <3>3. f >= LoopStart(s)
      BY <1>1, <1>3, <3>2, DivLower DEF Frame
    <3>4. QED
      BY <2>2, <3>3
  <2>3. QED
    BY <2>1, <2>2
<1>5. first <= LoopStart(s)
  BY <1>3
<1>6. Backward(s, pos) <=> f >= s.length
  BY DEF Backward
<1> HIDE DEF f
<1>7. Index(s, pos) \in first .. s.length - 1
      /\ (Backward(s, pos) => Index(s, pos) >= LoopStart(s))
  <2>1. CASE Backward(s, pos)
    <3>1. Index(s, pos) = 2 * s.length - 1 - f
      BY <2>1 DEF Index, f
    <3>2. QED
      BY <1>1, <1>2, <1>3, <1>5, <1>6, <2>1, <3>1
  <2>2. CASE ~Backward(s, pos)
    <3>1. Index(s, pos) = f
      BY <2>2 DEF Index, f
    <3>2. QED
      BY <1>1, <1>2, <1>4, <1>6, <2>2, <3>1
  <2>3. QED
    BY <2>1, <2>2
<1>8. Neighbour(s, pos) \in first .. s.length - 1
  BY <1>1, <1>3, <1>5, <1>7 DEF Neighbour
<1>9. QED
  BY <1>7, <1>8

(* What an audible channel reads.                                           *)
LEMMA AudibleFacts ==
  ASSUME TypeOK, Audible
  PROVE  /\ sample \in Samples /\ sample_position \in Nat
         /\ sample.length \in Nat /\ sample.loop_length \in 0 .. sample.length
         /\ sample.length * MICROSTEPS \in Nat
         /\ sample.loop_length > 0 \/ sample_position < sample.length * MICROSTEPS
<1>1. sample \in Samples /\ sample_position \in Nat
  BY DEF TypeOK, Audible, Silent
<1>2. sample.length \in Nat /\ sample.loop_length \in 0 .. sample.length
  BY <1>1, SamplesAssumption DEF IsSample
<1>3. sample.length * MICROSTEPS \in Nat
  BY <1>2, MicrostepsAssumption, TimesLess
<1>4. QED
  BY <1>1, <1>2, <1>3 DEF Audible, Silent

-----------------------------------------------------------------------------
LEMMA NextPositionType ==
  ASSUME TypeOK, NEW pos \in 0 .. Positions - 1
  PROVE  NextPosition(sample, pos) \in 0 .. Positions - 1
<1>1. CASE Silent(sample, pos)
  BY <1>1 DEF NextPosition
<1>2. CASE ~Silent(sample, pos)
  <2>1. sample \in Samples /\ pos \in Nat
        /\ (sample.loop_length > 0 \/ pos < sample.length * MICROSTEPS)
    <3>1. sample \in Samples /\ sample.loop_length \in Nat /\ sample.length \in Nat
      BY <1>2, SamplesAssumption DEF TypeOK, Silent, IsSample
    <3>2. sample.length * MICROSTEPS \in Nat
      BY <3>1, MicrostepsAssumption, TimesLess
    <3>3. QED
      BY <1>2, <3>1, <3>2, PositionsAssumption DEF Silent
  <2>2. Reduced(sample, pos) \in Nat
    BY <2>1, ReducedFacts
  <2>3. Reduced(sample, pos) <= pos
    BY <2>1, ReducedAtMost
  <2>4. Reduced(sample, pos) \in 0 .. Positions - 1
    BY <2>2, <2>3, PositionsAssumption
  <2>5. step \in Nat
    BY StepsAssumption DEF TypeOK
  <2>6. (Reduced(sample, pos) + step) % Positions \in 0 .. Positions - 1
    <3>1. Reduced(sample, pos) + step \in Nat
      BY <2>2, <2>5
    <3>2. Positions \in Nat \ {0}
      BY PositionsAssumption
    <3>3. /\ (Reduced(sample, pos) + step) % Positions \in Nat
          /\ (Reduced(sample, pos) + step) % Positions < Positions
      BY <3>1, <3>2, ModBounds
    <3> QED
      BY <3>2, <3>3
  <2>7. QED
    BY <2>4, <2>6 DEF NextPosition
<1>3. QED
  BY <1>1, <1>2

LEMMA InitType == Init => TypeOK
<1>1. 0 \in 0 .. RAMPING_POINTS /\ 0 \in 0 .. Positions - 1
  BY RampingAssumption, PositionsAssumption
<1>2. QED
  BY <1>1 DEF Init, TypeOK

LEMMA NextType == TypeOK /\ [Next]_vars => TypeOK'
<1> SUFFICES ASSUME TypeOK, [Next]_vars PROVE TypeOK'
  OBVIOUS
<1>0. 0 \in 0 .. RAMPING_POINTS /\ RAMPING_POINTS \in 0 .. RAMPING_POINTS
  BY RampingAssumption
<1>1. NextPosition(sample, sample_position) \in 0 .. Positions - 1
  BY NextPositionType DEF TypeOK
<1>2. CASE NextOfChannel
  BY <1>1, <1>2, RampingAssumption DEF NextOfChannel, TypeOK
<1>3. CASE SetStep
  BY <1>3 DEF SetStep, TypeOK
<1>4. CASE Silence
  BY <1>4 DEF Silence, TypeOK
<1>5. CASE BeginTrigger
  BY <1>0, <1>5 DEF BeginTrigger, TypeOK
<1>6. CASE ReadPrevious
  BY <1>1, <1>6, RampingAssumption DEF ReadPrevious, TypeOK
<1>7. ASSUME NEW s \in Samples, NEW offset \in Offsets, TriggerNote(s, offset)
      PROVE  TypeOK'
  <2>1. offset * MICROSTEPS \in 0 .. Positions - 1
    <3>1. offset \in Nat /\ offset * MICROSTEPS < Positions
      BY OffsetsAssumption
    <3>2. offset * MICROSTEPS \in Nat
      BY <3>1, MicrostepsAssumption, TimesLess
    <3>3. QED
      BY <3>1, <3>2, PositionsAssumption
  <2>2. sample_offset_invalid' \in BOOLEAN
    <3>1. (offset >= s.length) \in BOOLEAN
      OBVIOUS
    <3>2. QED
      BY <1>7, <3>1, Zenon DEF TriggerNote
  <2>3. QED
    BY <1>0, <1>7, <2>1, <2>2 DEF TriggerNote, EndTrigger, TypeOK
<1>8. CASE TriggerInvalidNote
  BY <1>0, <1>8 DEF TriggerInvalidNote, EndTrigger, TypeOK
<1>9. ASSUME NEW s \in Samples, SwitchSample(s)
      PROVE  TypeOK'
  BY <1>0, <1>9 DEF SwitchSample, EndTrigger, TypeOK
<1>10. CASE TriggerInvalidInstrument
  BY <1>0, <1>10 DEF TriggerInvalidInstrument, EndTrigger, TypeOK
<1>11. CASE DropSample
  BY <1>11 DEF DropSample, TypeOK
<1>12. CASE Reset
  <2>1. 0 \in 0 .. Positions - 1
    BY PositionsAssumption
  <2>2. QED
    BY <1>0, <1>12, <2>1 DEF Reset, TypeOK
<1>13. CASE UNCHANGED vars
  BY <1>13 DEF vars, TypeOK
<1>14. QED
  BY <1>2, <1>3, <1>4, <1>5, <1>6, <1>7, <1>8, <1>9, <1>10, <1>11, <1>12, <1>13 DEF Next, Trigger

(* xm_sample_at() asserts k < sample->length; the two frames xm_next_of_   *)
(* sample() asks for are frames of the sample, or of its loop, whatever the *)
(* sample, the speed, the notes and the offsets.                            *)
THEOREM FramesAreInSample == Spec => []IndexInSample
<1>1. TypeOK => IndexInSample
  <2> SUFFICES ASSUME TypeOK, Audible
               PROVE  LET a == Index(sample, sample_position)
                          b == Neighbour(sample, sample_position)
                          first == IF sample_position < sample.length * MICROSTEPS THEN 0
                                   ELSE LoopStart(sample)
                      IN  a \in first .. sample.length - 1 /\ b \in first .. sample.length - 1
    BY DEF IndexInSample
  <2>1. LoopStart(sample) \in Nat
    BY AudibleFacts DEF LoopStart
  <2>2. QED
    BY <2>1, AudibleFacts, IndexFacts
<1>2. QED
  BY InitType, NextType, <1>1, PTL DEF Spec
(* xm_next_of_sample() interpolates a frame with the one that is read after *)
(* it, whatever the sample: also where a loop goes back or turns around, and*)
(* at the end of a sample without a loop.                                   *)
THEOREM NeighbourIsNext == Spec => []InterpolatesTowardsNext
<1>1. TypeOK => InterpolatesTowardsNext
  <2> DEFINE i == Index(sample, sample_position)
             j == Neighbour(sample, sample_position)
             back == Backward(sample, sample_position)
             here == PH!Head(i, IF back THEN "backward" ELSE "forward")
             next == PH!Move(sample, here)
             first == IF sample_position < sample.length * MICROSTEPS THEN 0
                      ELSE LoopStart(sample)
             start == LoopStart(sample)
  <2> SUFFICES ASSUME TypeOK, Audible
               PROVE  j = IF next.dir = "off" THEN i ELSE next.frame
    <3>1. Audible => ~sample_offset_invalid
      BY DEF Audible, Silent
    <3>2. Audible => /\ HeadFrame = i
                     /\ HeadDir = IF back THEN "backward" ELSE "forward"
      BY <3>1 DEF HeadFrame, HeadDir
    <3> QED
      BY <3>2 DEF InterpolatesTowardsNext
  <2>1. start \in Nat /\ start = PH!LoopStart(sample)
        /\ start = sample.length - sample.loop_length
    BY AudibleFacts DEF LoopStart, PH!LoopStart
  <2>2. i \in first .. sample.length - 1 /\ (back => i >= start)
    BY <2>1, AudibleFacts, IndexFacts
  <2>3. i \in 0 .. sample.length - 1 /\ PH!Last(sample) = sample.length - 1
    BY <2>1, <2>2, AudibleFacts DEF PH!Last
  <2>4. j = IF back THEN (IF i = start THEN i ELSE i - 1)
            ELSE IF i + 1 < sample.length THEN i + 1
            ELSE IF sample.loop_length = 0 \/ sample.ping_pong THEN i ELSE start
    BY DEF Neighbour
  <2> HIDE DEF i, j, back, start
  <2>5. CASE back
    <3>1. here = [frame |-> i, dir |-> "backward"]
      BY <2>5 DEF PH!Head
    <3>2. next = IF i > start THEN PH!Head(i - 1, "backward")
                 ELSE PH!Head(i, "forward")
      BY <2>1, <2>2, <2>3, <2>5, <3>1 DEF PH!Move
    <3> QED
      BY <2>1, <2>2, <2>3, <2>4, <2>5, <3>2 DEF PH!Head
  <2>6. CASE ~back
    <3>1. here = [frame |-> i, dir |-> "forward"]
      BY <2>6 DEF PH!Head
    <3>2. next = IF i < sample.length - 1 THEN PH!Head(i + 1, "forward")
                 ELSE IF sample.loop_length = 0 THEN PH!Head(i + 1, "off")
                 ELSE IF sample.ping_pong THEN PH!Head(i, "backward")
                 ELSE PH!Head(start, "forward")
      <4>1. CASE i < sample.length - 1
        BY <2>3, <3>1, <4>1 DEF PH!Move
      <4>2. CASE ~(i < sample.length - 1)
        <5>1. i = PH!Last(sample) /\ ~(i < PH!Last(sample))
          BY <2>3, <4>2, AudibleFacts
        <5> QED
          BY <2>1, <2>3, <3>1, <4>2, <5>1 DEF PH!Move
      <4> QED
        BY <4>1, <4>2
    <3> QED
      BY <2>1, <2>3, <2>4, <2>6, <3>2, AudibleFacts DEF PH!Head
  <2> QED
    BY <2>5, <2>6
<1>2. QED
  BY InitType, NextType, <1>1, PTL DEF Spec
-----------------------------------------------------------------------------
(* SampleCursor implements Playhead.  HeadAt says where the head is after g *)
(* frames, without regard to how it came there.                             *)

(* g without the loops already played: Reduced, counted in frames.          *)
Folded(s, g) ==
  IF s.loop_length > 0 /\ g >= s.length
  THEN LoopStart(s) + ((g - LoopStart(s)) % LoopPeriod(s))
  ELSE g

HeadAt(s, g) ==
  IF s.loop_length = 0 /\ g >= s.length THEN PH!Head(g, "off")
  ELSE IF Folded(s, g) >= s.length
  THEN PH!Head(2 * s.length - 1 - Folded(s, g), "backward")
  ELSE PH!Head(Folded(s, g), "forward")

(* No step takes a position past the uint32_t it is in.                     *)
StepsFit ==
  \A s \in Samples, n \in Steps :
    (IF s.ping_pong THEN s.length + s.loop_length ELSE s.length) * MICROSTEPS + n <= Positions

LEMMA SetInduction ==
  ASSUME NEW T, 0 \in T, \A n \in Nat : n \in T => n + 1 \in T
  PROVE  Nat \subseteq T
<1> DEFINE Less == {p \in Nat \X Nat : p[1] < p[2]}
           U == Nat \ T
<1>1. IsWellFoundedOn(Less, Nat)
  BY NatLessThanWellFounded DEF OpToRel
<1> SUFFICES ASSUME U # {} PROVE FALSE
  OBVIOUS
<1>2. PICK x \in U : \A y \in U : <<y, x>> \notin Less
  <2> HIDE DEF Less
  <2> QED
    BY <1>1, WFMin
<1>3. x - 1 \in U
  BY <1>2
<1>4. <<x - 1, x>> \in Less
  BY <1>2, <1>3
<1>5. QED
  BY <1>2, <1>3, <1>4

LEMMA DivMod ==
  ASSUME NEW m \in Nat \ {0}, NEW x \in Nat
  PROVE  x \div m \in Nat /\ x % m \in 0 .. m - 1 /\ x = m * (x \div m) + (x % m)
BY SMT

LEMMA DivUnique ==
  ASSUME NEW m \in Nat \ {0}, NEW q \in Nat, NEW r \in 0 .. m - 1
  PROVE  (m * q + r) \div m = q /\ (m * q + r) % m = r
<1> DEFINE x == m * q + r
           d == x \div m
           e == x % m
<1>1. x \in Nat
  BY SMT
<1>2. d \in Nat /\ e \in 0 .. m - 1 /\ x = m * d + e
  BY <1>1, DivMod
<1>3. x = m * q + r
  OBVIOUS
<1> HIDE DEF x, d, e
<1>4. ~(q < d)
  <2> SUFFICES ASSUME q + 1 <= d PROVE FALSE
    BY <1>2
  <2>1. m * (q + 1) <= m * d /\ m * (q + 1) = m * q + m
    BY <1>2, SMT
  <2>2. m * q \in Nat /\ m * d \in Nat
    BY <1>2, SMT
  <2> QED
    BY <1>2, <1>3, <2>1, <2>2
<1>5. ~(d < q)
  <2> SUFFICES ASSUME d + 1 <= q PROVE FALSE
    BY <1>2
  <2>1. m * (d + 1) <= m * q /\ m * (d + 1) = m * d + m
    BY <1>2, SMT
  <2>2. m * q \in Nat /\ m * d \in Nat
    BY <1>2, SMT
  <2> QED
    BY <1>2, <1>3, <2>1, <2>2
<1>6. d = q
  BY <1>2, <1>4, <1>5
<1>7. m * q \in Nat
  BY SMT
<1>8. e = r
  BY <1>2, <1>3, <1>6, <1>7
<1> QED
  BY <1>6, <1>8 DEF x, d, e

(* A remainder counts whole frames and what is left of one.                 *)
LEMMA ModOfProduct ==
  ASSUME NEW m \in Nat \ {0}, NEW k \in Nat \ {0}, NEW x \in Nat
  PROVE  x % (k * m) = m * ((x \div m) % k) + (x % m)
<1> DEFINE q == x \div m
           e == x % m
           a == q \div k
           b == q % k
<1>1. q \in Nat /\ e \in 0 .. m - 1 /\ x = m * q + e
  BY DivMod
<1>2. a \in Nat /\ b \in 0 .. k - 1 /\ q = k * a + b
  BY <1>1, DivMod
<1> HIDE DEF q, e, a, b
<1>3. k * m \in Nat \ {0}
  BY TimesPositive
<1>4. m * q = (k * m) * a + m * b
  <2>1. m * q = m * (k * a) + m * b
    BY <1>2, SMT
  <2>2. m * (k * a) = (k * m) * a
    BY <1>2, SMT
  <2> QED
    BY <2>1, <2>2
<1>5. m * b + e \in 0 .. k * m - 1
  <2>1. m * b \in Nat /\ m * (b + 1) = m * b + m
    BY <1>2, SMT
  <2>2. m * (b + 1) <= k * m
    <3>1. b + 1 \in Nat /\ b + 1 <= k
      BY <1>2
    <3> QED
      BY <3>1, TimesLess, SMT
  <2> QED
    BY <1>1, <1>3, <2>1, <2>2
<1>6. x = (k * m) * a + (m * b + e)
  <2>1. (k * m) * a \in Nat /\ m * b \in Nat
    BY <1>2, <1>3, SMT
  <2> QED
    BY <1>1, <1>4, <2>1
<1>7. x % (k * m) = m * b + e
  BY <1>2, <1>3, <1>5, <1>6, DivUnique
<1> QED
  BY <1>7 DEF b, q, e

LEMMA ModOfNext ==
  ASSUME NEW k \in Nat \ {0}, NEW x \in Nat
  PROVE  /\ x % k \in 0 .. k - 1
         /\ (x + 1) % k = IF (x % k) = k - 1 THEN 0 ELSE (x % k) + 1
<1> DEFINE a == x \div k
           b == x % k
<1>1. a \in Nat /\ b \in 0 .. k - 1 /\ x = k * a + b
  BY DivMod
<1> HIDE DEF a, b
<1>2. k * a \in Nat /\ k * (a + 1) = k * a + k
  BY <1>1, SMT
<1>3. CASE b = k - 1
  <2>1. x + 1 = k * (a + 1) + 0 /\ a + 1 \in Nat /\ 0 \in 0 .. k - 1
    BY <1>1, <1>2, <1>3
  <2>2. (x + 1) % k = 0
    BY <2>1, DivUnique
  <2> QED
    BY <1>1, <1>3, <2>2 DEF b
<1>4. CASE b # k - 1
  <2>1. x + 1 = k * a + (b + 1) /\ b + 1 \in 0 .. k - 1
    BY <1>1, <1>2, <1>4
  <2>2. (x + 1) % k = b + 1
    BY <1>1, <2>1, DivUnique
  <2> QED
    BY <1>1, <1>4, <2>2 DEF b
<1> QED
  BY <1>3, <1>4
LEMMA SampleFacts ==
  ASSUME NEW s \in Samples
  PROVE  /\ s.length \in Nat /\ s.loop_length \in 0 .. s.length /\ s.ping_pong \in BOOLEAN
         /\ LoopStart(s) \in 0 .. s.length /\ LoopStart(s) = s.length - s.loop_length
         /\ LoopPeriod(s) = (IF s.ping_pong THEN 2 * s.loop_length ELSE s.loop_length)
         /\ LoopPeriod(s) \in Nat
BY SamplesAssumption DEF IsSample, LoopStart, LoopPeriod

LEMMA MoveFacts ==
  ASSUME NEW s, NEW k \in Int, PH!Last(s) \in Int, PH!LoopStart(s) \in Int
  PROVE  /\ k < PH!Last(s) => PH!Move(s, PH!Head(k, "forward")) = PH!Head(k + 1, "forward")
         /\ k = PH!Last(s) =>
              PH!Move(s, PH!Head(k, "forward"))
                = IF s.loop_length = 0 THEN PH!Head(k + 1, "off")
                  ELSE IF s.ping_pong THEN PH!Head(k, "backward")
                  ELSE PH!Head(PH!LoopStart(s), "forward")
         /\ k > PH!LoopStart(s) => PH!Move(s, PH!Head(k, "backward")) = PH!Head(k - 1, "backward")
         /\ k = PH!LoopStart(s) => PH!Move(s, PH!Head(k, "backward")) = PH!Head(k, "forward")
<1>1. k < PH!Last(s) => PH!Move(s, PH!Head(k, "forward")) = PH!Head(k + 1, "forward")
  BY DEF PH!Move, PH!Head
<1>2. k = PH!Last(s) =>
        PH!Move(s, PH!Head(k, "forward"))
          = IF s.loop_length = 0 THEN PH!Head(k + 1, "off")
            ELSE IF s.ping_pong THEN PH!Head(k, "backward")
            ELSE PH!Head(PH!LoopStart(s), "forward")
  BY DEF PH!Move, PH!Head
<1>3. k > PH!LoopStart(s) => PH!Move(s, PH!Head(k, "backward")) = PH!Head(k - 1, "backward")
  BY DEF PH!Move, PH!Head
<1>4. k = PH!LoopStart(s) => PH!Move(s, PH!Head(k, "backward")) = PH!Head(k, "forward")
  BY DEF PH!Move, PH!Head
<1> QED
  BY <1>1, <1>2, <1>3, <1>4

(* A frame further, the head has moved once.                                *)
LEMMA HeadMoves ==
  ASSUME NEW s \in Samples, NEW g \in Nat
  PROVE  PH!Move(s, HeadAt(s, g)) = HeadAt(s, g + 1)
<1> DEFINE length == s.length
           loop == s.loop_length
           start == LoopStart(s)
           period == LoopPeriod(s)
           a == Folded(s, g)
           b == Folded(s, g + 1)
<1>1. /\ length \in Nat /\ loop \in 0 .. length /\ s.ping_pong \in BOOLEAN
      /\ start \in 0 .. length /\ start = length - loop
      /\ period = (IF s.ping_pong THEN 2 * loop ELSE loop) /\ period \in Nat
      /\ PH!LoopStart(s) = start /\ PH!Last(s) = length - 1
  BY SampleFacts DEF PH!LoopStart, PH!Last, LoopStart
<1>2. /\ HeadAt(s, g) = IF loop = 0 /\ g >= length THEN PH!Head(g, "off")
                             ELSE IF a >= length THEN PH!Head(2 * length - 1 - a, "backward")
                             ELSE PH!Head(a, "forward")
      /\ HeadAt(s, g + 1) = IF loop = 0 /\ g + 1 >= length THEN PH!Head(g + 1, "off")
                                 ELSE IF b >= length
                                 THEN PH!Head(2 * length - 1 - b, "backward")
                                 ELSE PH!Head(b, "forward")
  BY DEF HeadAt
<1>3. /\ a = IF loop > 0 /\ g >= length THEN start + ((g - start) % period) ELSE g
      /\ b = IF loop > 0 /\ g + 1 >= length THEN start + (((g + 1) - start) % period) ELSE g + 1
  BY DEF Folded
<1>4. loop > 0 /\ g >= start =>
        /\ (g - start) % period \in 0 .. period - 1
        /\ ((g - start) + 1) % period = IF ((g - start) % period) = period - 1 THEN 0
                                        ELSE ((g - start) % period) + 1
        /\ (g - start) + 1 = (g + 1) - start
  <2> SUFFICES ASSUME loop > 0, g >= start
               PROVE  /\ (g - start) % period \in 0 .. period - 1
                      /\ ((g - start) + 1) % period = IF ((g - start) % period) = period - 1
                                                      THEN 0 ELSE ((g - start) % period) + 1
                      /\ (g - start) + 1 = (g + 1) - start
    OBVIOUS
  <2>1. period \in Nat \ {0} /\ g - start \in Nat /\ (g - start) + 1 = (g + 1) - start
    BY <1>1
  <2> HIDE DEF period, start
  <2> QED
    BY <2>1, ModOfNext
<1> HIDE DEF length, loop, start, period, a, b
<1>5. CASE g + 1 < length
  <2>1. a = g /\ b = g + 1
    BY <1>1, <1>3, <1>5
  <2>2. HeadAt(s, g) = PH!Head(g, "forward")
        /\ HeadAt(s, g + 1) = PH!Head(g + 1, "forward")
    BY <1>1, <1>2, <1>5, <2>1
  <2>3. g < PH!Last(s)
    BY <1>1, <1>5
  <2> QED
    BY <2>2, <2>3 DEF PH!Move, PH!Head
<1>6. CASE loop = 0 /\ g + 1 >= length
  <2>1. HeadAt(s, g + 1) = PH!Head(g + 1, "off")
    BY <1>2, <1>6
  <2>2. CASE g >= length
    <3>1. HeadAt(s, g) = PH!Head(g, "off")
      BY <1>2, <1>6, <2>2
    <3> QED
      BY <2>1, <3>1 DEF PH!Move, PH!Head
  <2>3. CASE g < length
    <3>1. HeadAt(s, g) = PH!Head(g, "forward") /\ g = PH!Last(s)
      BY <1>1, <1>2, <1>3, <1>6, <2>3
    <3> QED
      BY <1>6, <2>1, <3>1 DEF PH!Move, PH!Head, loop
  <2> QED
    BY <1>1, <2>2, <2>3
<1>7. CASE loop > 0 /\ g + 1 >= length
  <2> DEFINE k == IF g >= length THEN (g - start) % period ELSE loop - 1
  <2>1. g >= start
    BY <1>1, <1>7
  <2>2. k \in 0 .. period - 1 /\ a = start + k
    BY <1>1, <1>3, <1>4, <1>7, <2>1
  <2>3. b = start + (IF k = period - 1 THEN 0 ELSE k + 1)
    <3>1. CASE g >= length
      BY <1>3, <1>4, <1>7, <2>1, <3>1
    <3>2. CASE g < length
      <4>1. (g + 1) - start = loop /\ g - start = loop - 1
        BY <1>1, <1>7, <3>2
      <4>2. (g - start) % period = loop - 1
        <5>1. loop - 1 \in 0 .. period - 1
          BY <1>1, <1>7
        <5> QED
          BY <1>1, <4>1, <5>1
      <4> QED
        BY <1>3, <1>4, <1>7, <2>1, <3>2, <4>2
    <3> QED
      BY <1>1, <3>1, <3>2
  <2> HIDE DEF k
  <2>4. /\ a >= length => HeadAt(s, g) = PH!Head(2 * length - 1 - a, "backward")
        /\ ~(a >= length) => HeadAt(s, g) = PH!Head(a, "forward")
        /\ b >= length => HeadAt(s, g + 1) = PH!Head(2 * length - 1 - b, "backward")
        /\ ~(b >= length) => HeadAt(s, g + 1) = PH!Head(b, "forward")
    BY <1>2, <1>7
  <2>5. /\ a \in Int /\ 2 * length - 1 - a \in Int /\ PH!Last(s) \in Int
        /\ PH!LoopStart(s) \in Int
    BY <1>1, <2>2
  <2>6. CASE k < loop - 1
    <3>1. a < PH!Last(s) /\ ~(a >= length) /\ ~(b >= length) /\ b = a + 1
      BY <1>1, <2>2, <2>3, <2>6
    <3> QED
      BY <2>4, <2>5, <3>1, MoveFacts
  <2>7. CASE k = loop - 1 /\ ~s.ping_pong
    <3>1. /\ a = PH!Last(s) /\ ~(a >= length) /\ b = PH!LoopStart(s) /\ ~(b >= length)
          /\ s.loop_length # 0
      BY <1>1, <1>7, <2>2, <2>3, <2>7 DEF loop
    <3> QED
      BY <2>4, <2>5, <2>7, <3>1, MoveFacts
  <2>8. CASE k = loop - 1 /\ s.ping_pong
    <3>1. /\ a = PH!Last(s) /\ ~(a >= length) /\ b >= length /\ 2 * length - 1 - b = a
          /\ s.loop_length # 0
      BY <1>1, <1>7, <2>2, <2>3, <2>8 DEF loop
    <3> QED
      BY <2>4, <2>5, <2>8, <3>1, MoveFacts
  <2>9. CASE k >= loop /\ k < period - 1
    <3>1. /\ a >= length /\ b >= length /\ 2 * length - 1 - a > PH!LoopStart(s)
          /\ 2 * length - 1 - b = (2 * length - 1 - a) - 1
      BY <1>1, <2>2, <2>3, <2>9
    <3> QED
      BY <2>4, <2>5, <3>1, MoveFacts
  <2>10. CASE k >= loop /\ k = period - 1
    <3>1. /\ a >= length /\ ~(b >= length) /\ 2 * length - 1 - a = PH!LoopStart(s)
          /\ b = PH!LoopStart(s)
      BY <1>1, <1>7, <2>2, <2>3, <2>10
    <3> QED
      BY <2>4, <2>5, <3>1, MoveFacts
  <2> QED
    BY <1>1, <1>7, <2>2, <2>6, <2>7, <2>8, <2>9, <2>10
<1> QED
  BY <1>1, <1>5, <1>6, <1>7

(* And after n frames, n times: Playhead says so of one frame after the     *)
(* other.                                                                   *)
LEMMA HeadMovesOn ==
  ASSUME NEW s \in Samples, NEW g \in Nat, NEW n \in Nat
  PROVE  PH!Moves(s, HeadAt(s, g), n) = HeadAt(s, g + n)
<1> DEFINE h == HeadAt(s, g)
           IsAfter(f) == f = [k \in 0 .. n |-> IF k = 0 THEN h ELSE PH!Move(s, f[k - 1])]
           f0 == [k \in 0 .. n |-> HeadAt(s, g + k)]
           after == CHOOSE f : IsAfter(f)
<1>1. IsAfter(f0)
  <2>1. ASSUME NEW k \in 0 .. n
        PROVE  f0[k] = IF k = 0 THEN h ELSE PH!Move(s, f0[k - 1])
    <3>1. CASE k = 0
      BY <3>1
    <3>2. CASE k # 0
      <4>1. k - 1 \in 0 .. n /\ g + (k - 1) \in Nat /\ (g + (k - 1)) + 1 = g + k
        BY <3>2
      <4>2. PH!Move(s, HeadAt(s, g + (k - 1))) = HeadAt(s, g + k)
        BY <4>1, HeadMoves
      <4> QED
        BY <3>2, <4>1, <4>2
    <3> QED
      BY <3>1, <3>2
  <2> QED
    BY <2>1
<1>2. IsAfter(after)
  BY <1>1
<1>3. PH!Moves(s, h, n) = after[n]
  BY DEF PH!Moves
<1> HIDE DEF after
<1> DEFINE T == {k \in Nat : k <= n => after[k] = HeadAt(s, g + k)}
<1>4. 0 \in T
  BY <1>2
<1>5. ASSUME NEW k \in Nat, k \in T
      PROVE  k + 1 \in T
  <2> SUFFICES ASSUME k + 1 <= n PROVE after[k + 1] = HeadAt(s, g + (k + 1))
    OBVIOUS
  <2>1. after[k] = HeadAt(s, g + k)
    BY <1>5
  <2>2. after[k + 1] = PH!Move(s, after[(k + 1) - 1]) /\ (k + 1) - 1 = k
    BY <1>2
  <2>3. g + k \in Nat /\ (g + k) + 1 = g + (k + 1)
    OBVIOUS
  <2>4. PH!Move(s, HeadAt(s, g + k)) = HeadAt(s, g + (k + 1))
    BY <2>3, HeadMoves
  <2> QED
    BY <2>1, <2>2, <2>4
<1>6. n \in T
  <2> HIDE DEF T
  <2> QED
    BY <1>4, <1>5, SetInduction
<1> QED
  BY <1>3, <1>6
(* So HeadAt is what Playhead says of a sample that was started from its    *)
(* beginning.                                                               *)
LEMMA HeadIsAt ==
  ASSUME NEW s \in Samples, NEW g \in Nat
  PROVE  PH!At(s, g) = HeadAt(s, g)
<1>1. s # NoSample /\ s.length \in Nat /\ s.loop_length \in 0 .. s.length
  BY SampleFacts, NoSampleAssumption
<1>2. CASE s.length = 0
  <2>1. s.loop_length = 0 /\ g >= s.length
    BY <1>1, <1>2
  <2> QED
    BY <1>1, <1>2, <2>1 DEF PH!At, HeadAt
<1>3. CASE s.length # 0
  <2>1. ~(0 >= s.length)
    BY <1>1, <1>3
  <2>2. HeadAt(s, 0) = PH!Head(0, "forward")
    BY <2>1 DEF HeadAt, Folded
  <2>3. PH!Moves(s, HeadAt(s, 0), g) = HeadAt(s, 0 + g) /\ 0 + g = g
    BY HeadMovesOn
  <2> QED
    BY <1>1, <1>3, <2>2, <2>3 DEF PH!At
<1> QED
  BY <1>2, <1>3

(* A position is at the frame it is in, folded like it, and as far along.   *)
LEMMA PositionHead ==
  ASSUME NEW s \in Samples, NEW pos \in Nat
  PROVE  /\ pos \div MICROSTEPS \in Nat
         /\ pos >= s.length * MICROSTEPS <=> pos \div MICROSTEPS >= s.length
         /\ ~(s.loop_length = 0 /\ pos >= s.length * MICROSTEPS) =>
              /\ Frame(s, pos) = Folded(s, pos \div MICROSTEPS)
              /\ Reduced(s, pos) % MICROSTEPS = pos % MICROSTEPS
              /\ HeadAt(s, pos \div MICROSTEPS)
                   = PH!Head(Index(s, pos),
                             IF Backward(s, pos) THEN "backward" ELSE "forward")
<1> DEFINE M == MICROSTEPS
           g == pos \div M
           e == pos % M
           start == LoopStart(s)
           period == LoopPeriod(s)
<1>1. M \in Nat \ {0} /\ s.length \in Nat /\ s.loop_length \in 0 .. s.length
      /\ start \in 0 .. s.length /\ period \in Nat /\ (s.loop_length > 0 => period > 0)
  BY SampleFacts, MicrostepsAssumption
<1>2. g \in Nat /\ e \in 0 .. M - 1 /\ pos = M * g + e
  BY <1>1, DivMod
<1>3. pos >= s.length * M <=> g >= s.length
  <2>1. s.length * M \in Nat
    BY <1>1, TimesLess
  <2>2. pos >= s.length * M => g >= s.length
    BY <1>1, DivLower
  <2>3. pos < s.length * M => g < s.length
    BY <1>1, DivUpper
  <2> QED
    BY <1>1, <1>2, <2>1, <2>2, <2>3
<1>4. ASSUME ~(s.loop_length = 0 /\ pos >= s.length * M)
      PROVE  Reduced(s, pos) \div M = Folded(s, g) /\ Reduced(s, pos) % M = e
  <2>1. CASE s.loop_length > 0 /\ pos >= s.length * M
    <3> DEFINE x == pos - start * M
               b == (g - start) % period
    <3>1. Reduced(s, pos) = start * M + (x % (period * M))
      BY <2>1 DEF Reduced
    <3>2. Folded(s, g) = start + b
      BY <1>3, <2>1 DEF Folded
    <3>3. g - start \in Nat /\ period \in Nat \ {0}
      BY <1>1, <1>2, <1>3, <2>1
    <3>4. b \in 0 .. period - 1
      BY <3>3, DivMod
    <3> HIDE DEF g, e, start, period
    <3>5. x = M * (g - start) + e
      <4>1. M * (g - start) = M * g - M * start /\ start * M = M * start
            /\ M * g \in Nat /\ M * start \in Nat
        BY <1>1, <1>2, SMT
      <4> HIDE DEF M
      <4> QED
        BY <1>2, <4>1
    <3> HIDE DEF x
    <3>6. x \in Nat /\ x \div M = g - start /\ x % M = e
      <4>1. M * (g - start) \in Nat
        BY <1>1, <3>3, SMT
      <4>2. /\ (M * (g - start) + e) \div M = g - start
            /\ (M * (g - start) + e) % M = e
        BY <1>1, <1>2, <3>3, DivUnique, Zenon
      <4>3. x \in Nat
        BY <1>2, <3>5, <4>1
      <4> QED
        BY <3>5, <4>2, <4>3, Zenon
    <3>7. x % (period * M) = M * b + e
      BY <1>1, <3>3, <3>6, ModOfProduct
    <3> HIDE DEF b, M
    <3>8. start * M + (M * b + e) = M * (start + b) + e
      <4>1. M * (start + b) = start * M + M * b /\ M * b \in Nat /\ start * M \in Nat
        BY <1>1, <3>4, SMT
      <4> QED
        BY <1>2, <4>1
    <3>9. start + b \in Nat
      BY <1>1, <3>4
    <3>10. /\ (M * (start + b) + e) \div M = start + b
           /\ (M * (start + b) + e) % M = e
      BY <1>1, <1>2, <3>9, DivUnique, Zenon
    <3>11. Reduced(s, pos) = M * (start + b) + e
      BY <3>1, <3>7, <3>8
    <3> QED
      BY <3>2, <3>10, <3>11, Zenon
  <2>2. CASE ~(s.loop_length > 0 /\ pos >= s.length * M)
    <3>1. Reduced(s, pos) = pos
      BY <2>2 DEF Reduced
    <3>2. Folded(s, g) = g
      BY <1>3, <2>2 DEF Folded
    <3> QED
      BY <3>1, <3>2
  <2> QED
    BY <2>1, <2>2
<1>5. ASSUME ~(s.loop_length = 0 /\ pos >= s.length * M)
      PROVE  HeadAt(s, g) = PH!Head(Index(s, pos),
                                    IF Backward(s, pos) THEN "backward" ELSE "forward")
  <2>1. Frame(s, pos) = Folded(s, g)
    BY <1>4, <1>5 DEF Frame
  <2>2. ~(s.loop_length = 0 /\ g >= s.length)
    BY <1>3, <1>5
  <2> QED
    BY <2>1, <2>2 DEF HeadAt, Index, Backward
<1> QED
  BY <1>2, <1>3, <1>4, <1>5 DEF Frame

LEMMA FoldedOnce ==
  ASSUME NEW s \in Samples, NEW g \in Nat, ~(s.loop_length = 0 /\ g >= s.length)
  PROVE  Folded(s, g) \in Nat /\ HeadAt(s, Folded(s, g)) = HeadAt(s, g)
<1> DEFINE f == Folded(s, g)
           start == LoopStart(s)
           period == LoopPeriod(s)
<1>1. s.length \in Nat /\ s.loop_length \in 0 .. s.length
      /\ start \in 0 .. s.length /\ period \in Nat /\ (s.loop_length > 0 => period > 0)
  BY SampleFacts
<1>2. CASE s.loop_length > 0 /\ g >= s.length
  <2> DEFINE b == (g - start) % period
  <2>1. f = start + b
    BY <1>2 DEF Folded
  <2>2. g - start \in Nat /\ period \in Nat \ {0}
    BY <1>1, <1>2
  <2> HIDE DEF start, period
  <2>3. b \in 0 .. period - 1
    BY <2>2, DivMod
  <2> HIDE DEF b, f
  <2>4. f \in Nat /\ f - start = b
    BY <1>1, <2>1, <2>3
  <2>5. Folded(s, f) = f
    <3>1. (f - start) % period = b
      BY <2>2, <2>3, <2>4
    <3> QED
      BY <2>1, <3>1 DEF Folded, start, period
  <2> QED
    BY <1>1, <1>2, <2>4, <2>5 DEF HeadAt, f
<1>3. CASE ~(s.loop_length > 0 /\ g >= s.length)
  BY <1>3 DEF Folded
<1> QED
  BY <1>2, <1>3
-----------------------------------------------------------------------------
(* The head of a state: what Playhead sees of it.                           *)
Here ==
  LET g == sample_position \div MICROSTEPS
  IN  IF sample_offset_invalid THEN PH!Head(g, "past")
      ELSE IF sample = NoSample THEN PH!Head(g, "off")
      ELSE HeadAt(sample, g)

HeadIsHere ==
  TypeOK => /\ HeadFrame = Here.frame /\ HeadDir = Here.dir
            /\ PH!Head(HeadFrame, HeadDir) = Here
            /\ Audible => HeadDir \in {"forward", "backward"}

LEMMA HereFacts == HeadIsHere
<1> DEFINE g == sample_position \div MICROSTEPS
<1> SUFFICES ASSUME TypeOK
             PROVE  /\ Here = PH!Head(HeadFrame, HeadDir)
                    /\ Audible => HeadDir \in {"forward", "backward"}
  BY DEF HeadIsHere, PH!Head
<1>1. CASE Audible
  <2>1. /\ sample \in Samples /\ sample_position \in Nat
        /\ ~(sample.loop_length = 0 /\ sample_position >= sample.length * MICROSTEPS)
        /\ ~sample_offset_invalid /\ sample # NoSample
    BY <1>1 DEF TypeOK, Audible, Silent
  <2>2. HeadDir = IF Backward(sample, sample_position) THEN "backward" ELSE "forward"
    BY <1>1, <2>1 DEF HeadDir
  <2>3. HeadAt(sample, g) = PH!Head(Index(sample, sample_position), HeadDir)
    BY <2>1, <2>2, PositionHead
  <2> QED
    BY <1>1, <2>1, <2>2, <2>3 DEF Here, HeadFrame
<1>2. CASE ~Audible
  <2>1. HeadFrame = g /\ HeadDir = IF sample_offset_invalid THEN "past" ELSE "off"
    BY <1>2 DEF HeadFrame, HeadDir, TypeOK
  <2>2. CASE sample_offset_invalid \/ sample = NoSample
    BY <1>2, <2>1, <2>2 DEF Here
  <2>3. CASE ~sample_offset_invalid /\ sample # NoSample
    <3>1. /\ sample \in Samples /\ sample_position \in Nat
          /\ sample.loop_length = 0 /\ sample_position >= sample.length * MICROSTEPS
      BY <1>2, <2>3 DEF TypeOK, Audible, Silent
    <3>2. HeadAt(sample, g) = PH!Head(g, "off")
      BY <3>1, PositionHead DEF HeadAt
    <3> QED
      BY <1>2, <2>1, <2>3, <3>2 DEF Here
  <2> QED
    BY <2>2, <2>3
<1> QED
  BY <1>1, <1>2

LEMMA HereFactsNext == HeadIsHere'
BY HereFacts, PTL

(* The head goes where Here does.                                           *)
LEMMA GoesFacts ==
  ASSUME TypeOK', NEW h, NEW m, Here' = h, sample_position' % MICROSTEPS = m
  PROVE  PH!Goes(h, m)
BY HereFactsNext DEF HeadIsHere, PH!Goes

LEMMA HereStays ==
  ASSUME TypeOK, TypeOK', Here' = Here, sample' = sample,
         sample_position' % MICROSTEPS = sample_position % MICROSTEPS
  PROVE  UNCHANGED PH!vars
BY HereFacts, HereFactsNext DEF HeadIsHere, PH!vars

(* Where the head goes when a frame is read: it stays while it fades in or  *)
(* is not moved, and else moves by as many frames as the step has.          *)
LEMMA ReadMoves ==
  ASSUME TypeOK, TypeOK', StepsFit, Audible,
         sample_position' = NextPosition(sample, sample_position),
         sample' = sample, sample_offset_invalid' = sample_offset_invalid
  PROVE  UNCHANGED PH!vars \/ \E n \in Steps : PH!Play(n)
<1> DEFINE M == MICROSTEPS
           pos == sample_position
           r == Reduced(sample, pos)
           g == pos \div M
           f == r \div M
           e == pos % M
<1>1. /\ sample \in Samples /\ pos \in Nat /\ pos < Positions
      /\ ~(sample.loop_length = 0 /\ pos >= sample.length * M)
      /\ sample.loop_length > 0 \/ pos < sample.length * M
  <2>1. sample \in Samples /\ pos \in 0 .. Positions - 1
    BY DEF TypeOK, Audible, Silent
  <2>2. Positions \in Nat
    BY PositionsAssumption
  <2>3. ~(sample.loop_length = 0 /\ pos >= sample.length * M)
    BY DEF Audible, Silent
  <2> QED
    BY <2>1, <2>2, <2>3, AudibleFacts
<1>2. M \in Nat \ {0} /\ step \in Steps \union {0} /\ step \in Nat /\ Positions \in Nat \ {0}
  BY MicrostepsAssumption, StepsAssumption, PositionsAssumption DEF TypeOK
<1>3. r \in Nat /\ r <= pos
  BY <1>1, ReducedFacts, ReducedAtMost
<1>4. /\ g \in Nat /\ f = Folded(sample, g) /\ r % M = e
      /\ ~(sample.loop_length = 0 /\ g >= sample.length)
  BY <1>1, PositionHead DEF Frame
<1>5. f \in Nat /\ HeadAt(sample, f) = HeadAt(sample, g)
  BY <1>1, <1>4, FoldedOnce
<1>6. Here = HeadAt(sample, g) /\ ~sample_offset_invalid /\ sample # NoSample
  BY DEF Here, Audible, Silent
<1>7. e \in 0 .. M - 1 /\ r = M * f + e
  BY <1>2, <1>3, <1>4, DivMod
<1>8. ASSUME NEW n \in Nat, sample_position' = r + n
      PROVE  /\ Here' = PH!Moves(sample, Here, (e + n) \div M)
             /\ sample_position' % M = (e + n) % M
  <2> DEFINE k == (e + n) \div M
             m == (e + n) % M
  <2>1. k \in Nat /\ m \in 0 .. M - 1 /\ e + n = M * k + m
    <3>1. e + n \in Nat
      BY <1>2, <1>7
    <3> QED
      BY <1>2, <3>1, DivMod
  <2> HIDE DEF M, r, g, f, e, k, m
  <2>2. r + n = M * (f + k) + m /\ f + k \in Nat
    <3>1. M * (f + k) = M * f + M * k /\ M * f \in Nat /\ M * k \in Nat
      BY <1>2, <1>5, <2>1, SMT
    <3> QED
      BY <1>5, <1>7, <2>1, <3>1
  <2>3. sample_position' \div M = f + k /\ sample_position' % M = m
    <3>1. (M * (f + k) + m) \div M = f + k /\ (M * (f + k) + m) % M = m
      BY <1>2, <2>1, <2>2, DivUnique, Zenon
    <3> QED
      BY <1>8, <2>2, <3>1, Zenon
  <2>4. HeadAt(sample, f + k) = PH!Moves(sample, Here, k)
    <3>1. PH!Moves(sample, HeadAt(sample, f), k) = HeadAt(sample, f + k)
      BY <1>1, <1>5, <2>1, HeadMovesOn
    <3> QED
      BY <1>5, <1>6, <3>1
  <2>5. Here' = HeadAt(sample, f + k)
    BY <1>6, <2>3 DEF Here, M
  <2> QED
    BY <2>3, <2>4, <2>5 DEF k, m
<1>9. PH!Head(HeadFrame, HeadDir) = Here /\ HeadDir \in {"forward", "backward"}
  BY HereFacts DEF HeadIsHere
<1>11. ASSUME sample_position' = r
       PROVE  UNCHANGED PH!vars
  <2>1. Here' = PH!Moves(sample, Here, (e + 0) \div M)
    BY <1>3, <1>8, <1>11
  <2>2. PH!Moves(sample, HeadAt(sample, f), 0) = HeadAt(sample, f + 0)
    BY <1>1, <1>5, HeadMovesOn
  <2>3. (e + 0) \div M = 0 /\ f + 0 = f
    <3> HIDE DEF M, e, f
    <3>1. (M * 0 + e) \div M = 0
      BY <1>2, <1>7, DivUnique, Zenon
    <3>2. M * 0 + e = e + 0 /\ f + 0 = f
      BY <1>2, <1>5, <1>7
    <3> QED
      BY <3>1, <3>2
  <2>4. Here' = Here
    BY <1>5, <1>6, <2>1, <2>2, <2>3
  <2> QED
    BY <1>4, <1>11, <2>4, HereStays
<1>12. ASSUME step \in Steps, sample_position' = r + step
       PROVE  PH!Play(step)
  <2> DEFINE h == PH!Moves(sample, Here, (e + step) \div M)
  <2>1. Here' = h /\ sample_position' % M = (e + step) % M
    BY <1>2, <1>8, <1>12
  <2>2. PH!Goes(h, (e + step) % M)
    BY <2>1, GoesFacts
  <2>3. h = PH!Moves(sample, PH!Head(HeadFrame, HeadDir), (e + step) \div M)
    BY <1>9
  <2> QED
    BY <1>9, <2>2, <2>3 DEF PH!Play
<1>13. sample_position' = r \/ (step \in Steps /\ sample_position' = r + step)
  <2>1. sample_position' = IF frame_count < RAMPING_POINTS THEN r
                           ELSE (r + step) % Positions
    BY DEF NextPosition, Audible
  <2>2. CASE step \in Steps
    <3>1. r + step < Positions
      <4> DEFINE bound == (IF sample.ping_pong THEN sample.length + sample.loop_length
                           ELSE sample.length) * M
      <4>1. r < bound
        BY <1>1, ReducedFacts
      <4>2. bound + step <= Positions
        BY <1>1, <2>2 DEF StepsFit
      <4>3. bound \in Nat
        BY <1>1, <1>2, SampleFacts, TimesLess
      <4> HIDE DEF bound, r
      <4> QED
        BY <1>2, <1>3, <4>1, <4>2, <4>3
    <3> HIDE DEF r
    <3>2. (r + step) % Positions = r + step
      BY <1>2, <1>3, <3>1
    <3> QED
      BY <2>1, <2>2, <3>2
  <2>3. CASE step = 0
    <3> HIDE DEF r
    <3>1. (r + step) % Positions = r
      BY <1>1, <1>2, <1>3, <2>3
    <3> QED
      BY <2>1, <3>1
  <2> QED
    BY <1>2, <2>2, <2>3
<1> QED
  BY <1>11, <1>12, <1>13
(* A note starts at its offset, or is silent.                               *)
LEMMA NoteMoves ==
  ASSUME TypeOK', NEW s \in Samples, NEW offset \in Offsets, TriggerNote(s, offset)
  PROVE  PH!Start(s, offset)
<1>1. /\ sample' = s /\ sample_position' = offset * MICROSTEPS
      /\ sample_offset_invalid' = (offset >= s.length)
           \/ (offset = 0 /\ sample_offset_invalid' = FALSE)
  BY DEF TriggerNote
<1>2. /\ s.length \in Nat /\ offset \in Nat /\ MICROSTEPS \in Nat \ {0}
      /\ s.loop_length \in 0 .. s.length /\ s # NoSample
  BY SampleFacts, OffsetsAssumption, MicrostepsAssumption, NoSampleAssumption
<1>3. /\ (offset * MICROSTEPS) \div MICROSTEPS = offset
      /\ (offset * MICROSTEPS) % MICROSTEPS = 0
  <2>1. 0 \in 0 .. MICROSTEPS - 1
    BY <1>2
  <2>2. /\ (MICROSTEPS * offset + 0) \div MICROSTEPS = offset
        /\ (MICROSTEPS * offset + 0) % MICROSTEPS = 0
    BY <1>2, <2>1, DivUnique, Zenon
  <2>3. MICROSTEPS * offset + 0 = offset * MICROSTEPS
    BY <1>2, SMT
  <2> QED
    BY <1>2, <2>2, <2>3
<1>4. Here' = IF sample_offset_invalid' THEN PH!Head(offset, "past") ELSE HeadAt(s, offset)
  BY <1>1, <1>2, <1>3 DEF Here
<1>5. \E d \in {"forward", "past", "off"} :
        /\ d = "forward" <=> offset < s.length
        /\ d = "off" => offset = 0
        /\ Here' = PH!Head(offset, d)
  <2>1. CASE offset < s.length
    <3>1. ~sample_offset_invalid'
      <4>1. ~(offset >= s.length)
        BY <1>2, <2>1
      <4> QED
        BY <1>1, <4>1, Zenon
    <3>2. HeadAt(s, offset) = PH!Head(offset, "forward")
      BY <1>2, <2>1 DEF HeadAt, Folded
    <3> QED
      BY <1>4, <2>1, <3>1, <3>2
  <2>2. CASE ~(offset < s.length)
    <3>1. CASE sample_offset_invalid'
      BY <1>4, <2>2, <3>1
    <3>2. CASE ~sample_offset_invalid'
      <4>1. offset = 0
        <5>1. offset >= s.length
          BY <1>2, <2>2
        <5> QED
          BY <1>1, <3>2, <5>1, Zenon
      <4>2. s.length = 0 /\ s.loop_length = 0
        BY <1>2, <2>2, <4>1
      <4>3. HeadAt(s, offset) = PH!Head(offset, "off")
        BY <4>1, <4>2 DEF HeadAt
      <4> QED
        BY <1>4, <2>2, <3>2, <4>1, <4>3
    <3> QED
      BY <3>1, <3>2
  <2> QED
    BY <2>1, <2>2
<1>6. PICK d \in {"forward", "past", "off"} :
        /\ d = "forward" <=> offset < s.length
        /\ d = "off" => offset = 0
        /\ Here' = PH!Head(offset, d)
  BY <1>5
<1>7. sample_position' % MICROSTEPS = 0
  BY <1>1, <1>3
<1>8. PH!Goes(PH!Head(offset, d), 0)
  BY <1>6, <1>7, GoesFacts
<1> QED
  BY <1>1, <1>6, <1>8 DEF PH!Start

(* Another sample, or none, goes on where the last one was.                 *)
LEMMA ExchangeMoves ==
  ASSUME TypeOK, TypeOK', NEW s \in Samples \union {NoSample}, sample' = s,
         sample_position' = sample_position, sample_offset_invalid' = sample_offset_invalid
  PROVE  PH!Exchange(s)
<1> DEFINE g == sample_position \div MICROSTEPS
<1>1. /\ sample_position \in 0 .. Positions - 1 /\ sample_position \in Nat
      /\ MICROSTEPS \in Nat \ {0} /\ Positions \in Nat \ {0}
      /\ sample \in Samples \union {NoSample}
  BY MicrostepsAssumption, PositionsAssumption DEF TypeOK
<1>2. g \in 0 .. ((Positions - 1) \div MICROSTEPS)
  <2> DEFINE top == (Positions - 1) \div MICROSTEPS
  <2>1. /\ g \in Nat /\ (sample_position % MICROSTEPS) \in 0 .. MICROSTEPS - 1
        /\ sample_position = MICROSTEPS * g + (sample_position % MICROSTEPS)
    BY <1>1, DivMod
  <2>2. Positions - 1 \in Nat
    BY <1>1
  <2>3. /\ top \in Nat /\ ((Positions - 1) % MICROSTEPS) \in 0 .. MICROSTEPS - 1
        /\ Positions - 1 = MICROSTEPS * top + ((Positions - 1) % MICROSTEPS)
    BY <1>1, <2>2, DivMod
  <2> HIDE DEF g, top
  <2>4. ASSUME g > top PROVE FALSE
    <3>1. g >= top + 1
      BY <2>1, <2>3, <2>4
    <3>2. MICROSTEPS * g >= MICROSTEPS * (top + 1)
      BY <1>1, <2>1, <2>3, <3>1, SMT
    <3>3. MICROSTEPS * (top + 1) = MICROSTEPS * top + MICROSTEPS
      BY <1>1, <2>3, SMT
    <3>4. MICROSTEPS * top \in Nat /\ MICROSTEPS * g \in Nat
      BY <1>1, <2>1, <2>3, SMT
    <3> QED
      BY <1>1, <2>1, <2>3, <3>2, <3>3, <3>4
  <2> QED
    BY <2>1, <2>3, <2>4 DEF top
<1>3. g \in Nat
  BY <1>1, DivMod
<1>4. PH!Head(HeadFrame, HeadDir) = Here
  BY HereFacts DEF HeadIsHere
<1>5. CASE sample_offset_invalid
  <2>1. Here' = Here /\ Here = PH!Head(g, "past")
    BY <1>5 DEF Here
  <2>2. HeadDir = "past" /\ HeadFrame' = HeadFrame /\ HeadDir' = HeadDir
    BY <2>1, HereFacts, HereFactsNext DEF HeadIsHere, PH!Head
  <2> QED
    BY <2>2 DEF PH!Exchange
<1>6. CASE ~sample_offset_invalid
  <2>1. \A x \in Samples \union {NoSample} :
          PH!At(x, g) = IF x = NoSample THEN PH!Head(g, "off") ELSE HeadAt(x, g)
    BY <1>3, HeadIsAt DEF PH!At
  <2>2. Here = PH!At(sample, g) /\ Here' = PH!At(s, g)
    BY <1>1, <1>6, <2>1 DEF Here
  <2>3. HeadDir # "past"
    BY <1>6 DEF HeadDir
  <2>4. PH!Goes(PH!At(s, g), sample_position % MICROSTEPS)
    BY <2>2, GoesFacts
  <2> HIDE DEF g
  <2> QED
    BY <1>2, <1>4, <2>2, <2>3, <2>4 DEF PH!Exchange
<1> QED
  BY <1>5, <1>6 DEF TypeOK

LEMMA InitMaps == Init => PH!Init
<1> SUFFICES ASSUME Init PROVE PH!Init
  OBVIOUS
<1>1. TypeOK /\ Here = PH!Head(0 \div MICROSTEPS, "off")
  BY InitType DEF Init, Here
<1>2. 0 \div MICROSTEPS = 0 /\ 0 % MICROSTEPS = 0
  BY MicrostepsAssumption, DivUnique
<1>3. HeadFrame = 0 /\ HeadDir = "off" /\ sample_position % MICROSTEPS = 0
  BY <1>1, <1>2, HereFacts DEF HeadIsHere, PH!Head, Init
<1> QED
  BY <1>3 DEF Init, PH!Init

LEMMA StepMaps ==
  ASSUME StepsFit
  PROVE  TypeOK /\ [Next]_vars => [PH!Next]_PH!vars
<1> SUFFICES ASSUME TypeOK, [Next]_vars PROVE [PH!Next]_PH!vars
  OBVIOUS
<1>1. TypeOK'
  BY NextType
<1>2. ASSUME sample' = sample, sample_position' = sample_position,
             sample_offset_invalid' = sample_offset_invalid
      PROVE  UNCHANGED PH!vars
  BY <1>1, <1>2, HereStays DEF Here
<1>3. ASSUME sample' = sample, sample_position' = NextPosition(sample, sample_position),
             sample_offset_invalid' = sample_offset_invalid
      PROVE  [PH!Next]_PH!vars
  <2>1. CASE Audible
    BY <1>1, <1>3, <2>1, ReadMoves DEF PH!Next
  <2>2. CASE ~Audible
    BY <1>2, <1>3, <2>2 DEF NextPosition, Audible
  <2> QED
    BY <2>1, <2>2
<1>4. ASSUME NEW s \in Samples \union {NoSample}, sample' = s,
             sample_position' = sample_position,
             sample_offset_invalid' = sample_offset_invalid
      PROVE  PH!Next
  BY <1>1, <1>4, ExchangeMoves DEF PH!Next
<1>5. CASE NextOfChannel \/ ReadPrevious
  BY <1>3, <1>5 DEF NextOfChannel, ReadPrevious
<1>6. CASE SetStep \/ Silence \/ BeginTrigger \/ TriggerInvalidNote \/ UNCHANGED vars
  BY <1>2, <1>6 DEF SetStep, Silence, BeginTrigger, TriggerInvalidNote, vars
<1>7. CASE DropSample \/ TriggerInvalidInstrument
  BY <1>4, <1>7 DEF DropSample, TriggerInvalidInstrument
<1>8. CASE Reset
  <2>1. sample' = NoSample /\ Here' = PH!Head(0 \div MICROSTEPS, "off")
        /\ sample_position' % MICROSTEPS = 0 % MICROSTEPS
    BY <1>8 DEF Reset, Here
  <2>2. 0 \div MICROSTEPS = 0 /\ 0 % MICROSTEPS = 0
    BY MicrostepsAssumption, DivUnique
  <2>3. PH!Goes(PH!Head(0, "off"), 0)
    BY <1>1, <2>1, <2>2, GoesFacts
  <2> QED
    BY <2>1, <2>3 DEF PH!Reset, PH!Next
<1>9. ASSUME NEW s \in Samples, NEW offset \in Offsets, TriggerNote(s, offset)
      PROVE  PH!Next
  BY <1>1, <1>9, NoteMoves DEF PH!Next
<1>10. ASSUME NEW s \in Samples, SwitchSample(s)
       PROVE  PH!Next
  BY <1>4, <1>10 DEF SwitchSample
<1> QED
  BY <1>5, <1>6, <1>7, <1>8, <1>9, <1>10 DEF Next, Trigger

(* The frames a channel reads are those of a head that moves over the       *)
(* sample one frame at a time, in this order and no other: at any speed,    *)
(* with loops of any length that are played any number of times.  A note    *)
(* starts at its offset, and a sample that takes over, a dump or a missing  *)
(* instrument keep the place.  The condition is that no position passes the *)
(* end of its uint32_t.                                                     *)
THEOREM FramesAreInOrder ==
  ASSUME StepsFit
  PROVE  Spec => ImplementsPlayhead
<1>1. Init => PH!Init
  BY InitMaps
<1>2. TypeOK /\ [Next]_vars => [PH!Next]_PH!vars
  BY StepMaps
<1> QED
  BY <1>1, <1>2, InitType, NextType, PTL DEF Spec, ImplementsPlayhead, PH!Spec
=============================================================================
