--------------------------- MODULE TickClockProofs ---------------------------
(***************************************************************************)
(* The tick clock neither loses time nor drifts, and implements Metronome, *)
(* for every granularity, sample rate and speed.                           *)
(***************************************************************************)
EXTENDS TickClock, TLAPS

LEMMA DivFacts ==
  ASSUME NEW x \in Nat, NEW b \in Nat \ {0}
  PROVE  /\ x \div b \in Nat
         /\ b * (x \div b) <= x
         /\ x <= b * ((x \div b) + 1)
         /\ x \div b <= x
BY SMT

LEMMA DividendType ==
  ASSUME NEW rate \in Nat
  PROVE  Dividend(rate) \in Nat
<1>1. (10 * TICK_SUBSAMPLES) \div 4 \in Nat
  BY SubsamplesAssumption, SMT
<1>2. QED
  BY <1>1, SMT DEF Dividend

(* A tick lasts a frame at least, and fits in 32 bits. *)
LEMMA LengthFacts ==
  ASSUME NEW rate \in Rates, NEW bpm \in Bpms
  PROVE  /\ SamplesInTick(rate, bpm) \in Nat
         /\ SamplesInTick(rate, bpm) >= TICK_SUBSAMPLES
         /\ SamplesInTick(rate, bpm) < Uint32
<1>1. rate \in Nat /\ bpm \in Nat \ {0}
  BY RatesAssumption, BpmsAssumption
<1>2. Dividend(rate) \in Nat /\ Dividend(rate) < Uint32
  BY <1>1, DividendType, Uint32Assumption
<1>3. SamplesInTick(rate, bpm) \in Nat /\ SamplesInTick(rate, bpm) <= Dividend(rate)
  BY <1>1, <1>2, DivFacts DEF SamplesInTick
<1>4. QED
  BY <1>2, <1>3, TicksLastAFrame, Uint32Assumption

(* What ckd_sub() took in excess is given back by the tick. *)
LEMMA CreditFacts ==
  ASSUME TypeOK, TickDue, NEW length \in Nat, length >= TICK_SUBSAMPLES, length < Uint32
  PROVE  /\ Credit(length) \in 0 .. Uint32 - 1
         /\ Credit(length) = remaining_samples_in_tick + length - TICK_SUBSAMPLES
<1> DEFINE k == remaining_samples_in_tick + length - TICK_SUBSAMPLES
<1>1. k \in Nat /\ k < Uint32
  BY SubsamplesAssumption, Uint32Assumption DEF TypeOK, TickDue
<1>2. Credit(length) = (k + Uint32) % Uint32
  <2>1. remaining_samples_in_tick + Uint32 - TICK_SUBSAMPLES + length = k + Uint32
    BY SubsamplesAssumption, Uint32Assumption DEF TypeOK
  <2>2. QED
    BY <2>1 DEF Credit
<1>3. ASSUME NEW n \in Nat, NEW m \in Nat, n < m
      PROVE  (n + m) % m = n
  BY <1>3, SMT
<1>4. Credit(length) = k
  BY <1>1, <1>2, <1>3, Uint32Assumption
<1>5. QED
  BY <1>1, <1>4, Uint32Assumption

-----------------------------------------------------------------------------
(* Conservation needs no help: it is what the clock is made for. *)
IInv == TypeOK /\ NothingIsLost

LEMMA InitIInv == Init => IInv
BY SubsamplesAssumption, Uint32Assumption, DividendType
   DEF Init, IInv, TypeOK, NothingIsLost

LEMMA FrameIInv == IInv /\ Frame => IInv'
<1> SUFFICES ASSUME IInv, Frame PROVE IInv'
  OBVIOUS
<1>1. (frames + 1) * TICK_SUBSAMPLES = frames * TICK_SUBSAMPLES + TICK_SUBSAMPLES
      /\ frames * TICK_SUBSAMPLES \in Nat
  BY SubsamplesAssumption, SMT DEF IInv, TypeOK
<1>2. CASE TickFrame
  <2> DEFINE length == SamplesInTick(current_sample_rate, current_bpm')
  <2>1. current_sample_rate \in Rates /\ current_bpm' \in Bpms
    BY <1>2 DEF Frame, TickFrame, IInv, TypeOK
  <2>2. length \in Nat /\ length >= TICK_SUBSAMPLES /\ length < Uint32
    BY <2>1, LengthFacts
  <2>3. /\ Credit(length) \in 0 .. Uint32 - 1
        /\ Credit(length) = remaining_samples_in_tick + length - TICK_SUBSAMPLES
    BY <1>2, <2>2, CreditFacts DEF TickFrame, IInv
  <2>4. exact' \in Nat
    <3>1. Dividend(current_sample_rate) \in Nat
      BY <2>1, RatesAssumption, DividendType
    <3>2. Scale \div current_bpm' \in Nat
      BY <2>1, BpmsAssumption, ScaleAssumption, DivFacts
    <3>3. Dividend(current_sample_rate) * (Scale \div current_bpm') \in Nat
      BY <3>1, <3>2, SMT
    <3>4. QED
      BY <1>2, <3>3 DEF TickFrame, IInv, TypeOK
  <2>5. TypeOK'
    BY <1>2, <2>1, <2>2, <2>3, <2>4 DEF Frame, TickFrame, IInv, TypeOK
  <2>6. NothingIsLost'
    BY <1>1, <1>2, <2>2, <2>3, SubsamplesAssumption
       DEF Frame, TickFrame, IInv, TypeOK, NothingIsLost
  <2>7. QED
    BY <2>5, <2>6 DEF IInv
<1>3. CASE PlainFrame
  BY <1>1, <1>3, SubsamplesAssumption, Uint32Assumption
     DEF Frame, PlainFrame, TickDue, IInv, TypeOK, NothingIsLost
<1>4. QED
  BY <1>2, <1>3 DEF Frame

LEMMA NextIInv == IInv /\ [Next]_vars => IInv'
<1> SUFFICES ASSUME IInv, [Next]_vars PROVE IInv'
  OBVIOUS
<1>1. CASE Frame
  BY <1>1, FrameIInv
<1>2. CASE SetSampleRate
  BY <1>2 DEF SetSampleRate, history, IInv, TypeOK, NothingIsLost
<1>3. CASE EndTick
  BY <1>3, SubsamplesAssumption, Uint32Assumption
     DEF EndTick, ZeroHistory, IInv, TypeOK, NothingIsLost
<1>4. CASE Reset
  BY <1>4, SubsamplesAssumption, Uint32Assumption
     DEF Reset, ZeroHistory, IInv, TypeOK, NothingIsLost
<1>5. CASE UNCHANGED vars
  BY <1>5 DEF vars, history, IInv, TypeOK, NothingIsLost
<1>6. QED
  BY <1>1, <1>2, <1>3, <1>4, <1>5 DEF Next

(* However speed and sample rate change, no time is lost between ticks.     *)
THEOREM TimeIsConserved == Spec => []NothingIsLost
<1>1. IInv => NothingIsLost
  BY DEF IInv
<1>2. QED
  BY InitIInv, NextIInv, <1>1, PTL DEF Spec

-----------------------------------------------------------------------------
(* The rounding of one tick, in 1/Scale subsamples. *)
LEMMA RoundingFacts ==
  ASSUME NEW rate \in Rates, NEW bpm \in Bpms
  PROVE  LET length == SamplesInTick(rate, bpm)
             full == Dividend(rate) * (Scale \div bpm)
         IN  full \in Nat /\ Scale * length <= full /\ full <= Scale * (length + 1)
<1> DEFINE d == Dividend(rate)
           k == Scale \div bpm
           length == d \div bpm
<1>1. d \in Nat /\ bpm \in Nat \ {0} /\ Scale \in Nat
  BY RatesAssumption, BpmsAssumption, ScaleAssumption, DividendType
<1>2. k \in Nat /\ Scale = bpm * k
  BY <1>1, ScaleAssumption, DivFacts
<1>3. /\ length \in Nat
      /\ bpm * length <= d /\ d <= bpm * (length + 1)
  BY <1>1, DivFacts
<1>4. ASSUME NEW x \in Nat, NEW y \in Nat, x <= y, NEW n \in Nat
      PROVE  n * x <= n * y
  BY <1>4, SMT
<1> HIDE DEF d, k, length
<1>5. /\ bpm * length \in Nat /\ bpm * (length + 1) \in Nat
      /\ k * (bpm * length) <= k * d /\ k * d <= k * (bpm * (length + 1))
  BY <1>1, <1>2, <1>3, <1>4, SMT
<1>6. /\ k * (bpm * length) = (bpm * k) * length
      /\ k * (bpm * (length + 1)) = (bpm * k) * (length + 1)
      /\ k * d = d * k /\ d * k \in Nat
  BY <1>1, <1>2, <1>3, SMT
<1>7. d * k \in Nat /\ Scale * length <= d * k /\ d * k <= Scale * (length + 1)
  BY <1>2, <1>5, <1>6
<1>8. QED
  BY <1>7 DEF SamplesInTick, d, k, length

LEMMA NextDrift == IInv /\ DriftIsBounded /\ [Next]_vars => DriftIsBounded'
<1> SUFFICES ASSUME IInv, DriftIsBounded, [Next]_vars PROVE DriftIsBounded'
  OBVIOUS
<1>1. CASE Frame /\ TickFrame
  <2> DEFINE length == SamplesInTick(current_sample_rate, current_bpm')
             full == Dividend(current_sample_rate) * (Scale \div current_bpm')
  <2>1. current_sample_rate \in Rates /\ current_bpm' \in Bpms
    BY <1>1 DEF Frame, TickFrame, IInv, TypeOK
  <2>2. full \in Nat /\ Scale * length <= full /\ full <= Scale * (length + 1)
    BY <2>1, RoundingFacts
  <2>3. length \in Nat
    BY <2>1, LengthFacts
  <2>4. credited' = credited + length /\ exact' = exact + full /\ ticks' = ticks + 1
    BY <1>1 DEF TickFrame
  <2>5. credited \in Nat /\ exact \in Nat /\ ticks \in Nat /\ Scale \in Nat
    BY ScaleAssumption DEF IInv, TypeOK
  <2>6. Scale * credited <= exact /\ exact <= Scale * (credited + ticks)
    BY DEF DriftIsBounded
  <2> HIDE DEF length, full
  <2>7. /\ Scale * (credited + length) = Scale * credited + Scale * length
        /\ Scale * ((credited + length) + (ticks + 1))
             = Scale * (credited + ticks) + Scale * (length + 1)
    BY <2>3, <2>5, SMT
  <2>8. /\ Scale * credited \in Nat /\ Scale * length \in Nat
        /\ Scale * (credited + ticks) \in Nat /\ Scale * (length + 1) \in Nat
    BY <2>3, <2>5, SMT
  <2>9. QED
    BY <2>2, <2>4, <2>5, <2>6, <2>7, <2>8 DEF DriftIsBounded
<1>2. CASE Frame /\ PlainFrame
  BY <1>2 DEF PlainFrame, DriftIsBounded
<1>3. CASE SetSampleRate \/ UNCHANGED vars
  BY <1>3 DEF SetSampleRate, vars, history, DriftIsBounded
<1>4. CASE EndTick \/ Reset
  BY <1>4, ScaleAssumption DEF EndTick, Reset, ZeroHistory, DriftIsBounded
<1>5. QED
  BY <1>1, <1>2, <1>3, <1>4 DEF Next, Frame

(* Rounding costs less than a subsample a tick, however long it is played.  *)
THEOREM DriftStaysBounded == Spec => []DriftIsBounded
<1>1. Init => DriftIsBounded
  BY ScaleAssumption DEF Init, DriftIsBounded
<1>2. QED
  BY <1>1, InitIInv, NextIInv, NextDrift, PTL DEF Spec

-----------------------------------------------------------------------------
(* With nothing lost, fewer subsamples than a frame remain exactly when the *)
(* next tick is due before the frame ends.                                  *)
LEMMA DueFacts ==
  ASSUME IInv
  PROVE  TickDue <=> Beats!IsDue
<1>1. (frames + 1) * TICK_SUBSAMPLES = frames * TICK_SUBSAMPLES + TICK_SUBSAMPLES
      /\ frames * TICK_SUBSAMPLES \in Nat
  BY SubsamplesAssumption, SMT DEF IInv, TypeOK
<1>2. QED
  BY <1>1, SubsamplesAssumption DEF IInv, TypeOK, NothingIsLost, TickDue, Beats!IsDue

LEMMA StepMaps == IInv /\ [Next]_vars => [Beats!Next]_(Beats!vars)
<1> SUFFICES ASSUME IInv, [Next]_vars PROVE [Beats!Next]_(Beats!vars)
  OBVIOUS
<1>1. CASE Frame /\ TickFrame
  <2>1. current_sample_rate \in Rates /\ current_bpm' \in Bpms
    BY <1>1 DEF Frame, TickFrame, IInv, TypeOK
  <2>2. Beats!Beat
    BY <1>1, <2>1, DueFacts DEF TickFrame, Beats!Beat
  <2>3. QED
    BY <1>1, <2>2 DEF Frame, Beats!Frame, Beats!Next
<1>2. CASE Frame /\ PlainFrame
  BY <1>2, DueFacts DEF Frame, PlainFrame, Beats!Rest, Beats!Frame, Beats!Next
<1>3. CASE SetSampleRate \/ UNCHANGED vars
  BY <1>3 DEF SetSampleRate, vars, history, Beats!vars
<1>4. CASE EndTick \/ Reset
  BY <1>4 DEF EndTick, Reset, ZeroHistory, Beats!Restart, Beats!Next
<1>5. QED
  BY <1>1, <1>2, <1>3, <1>4 DEF Next, Frame

(* Every tick is played in the frame it is due in, and none is skipped.     *)
THEOREM TicksComeWhenDue == Spec => ImplementsMetronome
<1>1. Init => Beats!Init
  BY DEF Init, Beats!Init
<1>2. QED
  BY <1>1, InitIInv, NextIInv, StepMaps, PTL DEF Spec, ImplementsMetronome, Beats!Spec
=============================================================================
