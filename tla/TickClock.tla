------------------------------ MODULE TickClock ------------------------------
(***************************************************************************)
(* The tick clock of libxm: how many frames xm_generate_samples() makes    *)
(* between two calls of xm_tick() (src/play.c).  The remaining length of a *)
(* tick is a uint32_t in subsamples, so that what is left of a frame when  *)
(* a tick ends is not lost.                                                *)
(*                                                                         *)
(* How a caller cuts the frames into buffers does not reach the clock, and *)
(* is left out: between any two frames the program may call the library.   *)
(***************************************************************************)
EXTENDS Naturals

CONSTANTS
  TICK_SUBSAMPLES,
  Uint32,     \* how many values a uint32_t has
  Rates,      \* sample rates the program sets
  Bpms,       \* speeds a module, or Fxx, sets
  Scale,      \* a common multiple of Bpms: times in 1/Scale subsamples are exact
  MaxFrames   \* bound: the clock is watched for so many frames

(* A tick lasts 2.5 / bpm seconds: the numerator, in subsamples. *)
Dividend(rate) == rate * ((10 * TICK_SUBSAMPLES) \div 4)
SamplesInTickWholeFrames(rate, bpm) ==  \* mutant
  ((10 * rate) \div (4 * bpm)) * TICK_SUBSAMPLES
SamplesInTick(rate, bpm) == Dividend(rate) \div bpm

ASSUME SubsamplesAssumption == TICK_SUBSAMPLES \in Nat \ {0} /\ TICK_SUBSAMPLES % 4 = 0
ASSUME RatesAssumption == Rates \subseteq Nat \ {0}
ASSUME BpmsAssumption == Bpms \subseteq Nat \ {0}
ASSUME ScaleAssumption ==
  Scale \in Nat /\ \A bpm \in Bpms : Scale = bpm * (Scale \div bpm)
ASSUME MaxFramesAssumption == MaxFrames \in Nat
(* The static assertion of xm_tick().                                       *)
ASSUME Uint32Assumption ==
  Uint32 \in Nat \ {0} /\ \A rate \in Rates : Dividend(rate) < Uint32
(* A tick lasts a frame at least: sample rates are not below 102 Hz.        *)
ASSUME TicksLastAFrame ==
  \A rate \in Rates, bpm \in Bpms : SamplesInTick(rate, bpm) >= TICK_SUBSAMPLES

VARIABLES
  remaining_samples_in_tick,
  current_sample_rate,  \* 0 until the program sets it
  current_bpm,
  (* What happened since the clock was last set to 0: *)
  frames,    \* frames generated
  ticks,     \* ticks played
  credited,  \* their length, as rounded by xm_tick()
  exact      \* their length in 1/Scale subsamples, not rounded

history == <<frames, ticks, credited, exact>>
vars == <<remaining_samples_in_tick, current_sample_rate, current_bpm, history>>

ZeroHistory == frames' = 0 /\ ticks' = 0 /\ credited' = 0 /\ exact' = 0

Init ==
  /\ remaining_samples_in_tick = 0 /\ current_sample_rate = 0
  /\ current_bpm \in Bpms
  /\ frames = 0 /\ ticks = 0 /\ credited = 0 /\ exact = 0

-----------------------------------------------------------------------------
TickDueEarly == remaining_samples_in_tick <= TICK_SUBSAMPLES  \* mutant
TickDue == remaining_samples_in_tick < TICK_SUBSAMPLES

CreditAnew(length) == length  \* mutant: what is left of the last tick is lost
Credit(length) ==
  (remaining_samples_in_tick + Uint32 - TICK_SUBSAMPLES + length) % Uint32

(* xm_sample() for a frame in which a tick begins: ckd_sub() wraps, and     *)
(* xm_tick() makes up for it.  Effects may set the speed, which already     *)
(* holds for this tick.                                                     *)
TickFrame ==
  /\ TickDue
  /\ current_bpm' \in Bpms
  /\ LET length == SamplesInTick(current_sample_rate, current_bpm')
     IN  /\ remaining_samples_in_tick' = Credit(length)
         /\ credited' = credited + length
  /\ exact' = exact + Dividend(current_sample_rate) * (Scale \div current_bpm')
  /\ ticks' = ticks + 1

PlainFrame ==
  /\ ~TickDue
  /\ remaining_samples_in_tick' = remaining_samples_in_tick - TICK_SUBSAMPLES
  /\ UNCHANGED <<current_bpm, ticks, credited, exact>>

(* The program sets a sample rate before it generates samples. *)
Frame ==
  /\ current_sample_rate # 0 /\ frames < MaxFrames
  /\ TickFrame \/ PlainFrame
  /\ frames' = frames + 1
  /\ UNCHANGED current_sample_rate

(* xm_set_sample_rate(): the tick under way keeps its length in frames. *)
SetSampleRate ==
  /\ current_sample_rate' \in Rates
  /\ UNCHANGED <<remaining_samples_in_tick, current_bpm, history>>

(* xm_seek() and xm_dump_context() end the tick under way. *)
EndTick ==
  /\ remaining_samples_in_tick' = 0
  /\ ZeroHistory
  /\ UNCHANGED <<current_sample_rate, current_bpm>>

(* xm_reset_context(): the sample rate has to be set again. *)
Reset ==
  /\ remaining_samples_in_tick' = 0 /\ current_sample_rate' = 0
  /\ current_bpm' \in Bpms
  /\ ZeroHistory

Next == Frame \/ SetSampleRate \/ EndTick \/ Reset

Spec == Init /\ [][Next]_vars

-----------------------------------------------------------------------------
TypeOK ==
  /\ remaining_samples_in_tick \in 0 .. Uint32 - 1
  /\ current_sample_rate \in Rates \union {0}
  /\ current_bpm \in Bpms
  /\ frames \in Nat /\ ticks \in Nat /\ credited \in Nat /\ exact \in Nat

(* Every subsample a tick was given is either generated or still remains:   *)
(* no frame and no fraction of one is lost between ticks, whatever changes  *)
(* of speed and sample rate come in between.                                *)
NothingIsLost == credited = remaining_samples_in_tick + frames * TICK_SUBSAMPLES

(* Rounding costs less than a subsample a tick, hence, as xm_internal.h     *)
(* says of TICK_SUBSAMPLES, a frame every TICK_SUBSAMPLES ticks.            *)
DriftIsBounded ==
  Scale * credited <= exact /\ exact <= Scale * (credited + ticks)

(* Ticks come in the frame they are due in.                                 *)
Beats == INSTANCE Metronome WITH
           Lengths <- {SamplesInTick(rate, bpm) : rate \in Rates, bpm \in Bpms},
           frame <- frames, due <- credited
ImplementsMetronome == Beats!Spec
=============================================================================
