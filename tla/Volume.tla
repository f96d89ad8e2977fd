-------------------------------- MODULE Volume --------------------------------
(***************************************************************************)
(* What a channel of libxm keeps for its volume and panning, and the       *)
(* helpers of src/play.c that change it.  Every operator maps the state v  *)
(* before a helper to the state after it; module Channel calls them in the *)
(* order xm_handle_pattern_slot() and xm_tick_effects() do.                *)
(*                                                                         *)
(* Widths are those of the code: a byte counts modulo 256, an offset is an *)
(* int8_t.  ctx->global_volume is kept here too: all channels share it,    *)
(* but each slides it the same way.                                        *)
(***************************************************************************)
EXTENDS Integers

MAX_VOLUME == 64
MAX_ENVELOPE_VALUE == 64
MAX_FADEOUT_VOLUME == 32768
MAX_PANNING == 256

Byte == 0 .. 255
Int8(n) == ((n + 128) % 256) - 128
High(byte) == byte \div 16
Low(byte) == byte % 16
Abs(n) == IF n < 0 THEN -n ELSE n

(* Division of C, which rounds towards zero.                                *)
Quotient(a, b) == IF a < 0 THEN -((-a) \div b) ELSE a \div b

NoVolume(module, base_panning) ==
  [volume |-> 0, volume_offset |-> 0, global_volume |-> module.default_global_volume,
   panning |-> 0, base_panning |-> base_panning,
   volume_slide_param |-> 0, fine_volume_slide_up_param |-> 0,
   fine_volume_slide_down_param |-> 0, global_volume_slide_param |-> 0,
   panning_slide_param |-> 0, multi_retrig_param |-> 0, multi_retrig_ticks |-> 0,
   tremor_param |-> 0, tremor_ticks |-> 0, tremor_on |-> FALSE,
   tremolo_param |-> 0, tremolo_ticks |-> 0, tremolo_control_param |-> 0]

Volumes ==
  [volume : 0 .. MAX_VOLUME, volume_offset : -MAX_VOLUME .. MAX_VOLUME,
   global_volume : 0 .. MAX_VOLUME, panning : Byte, base_panning : Byte,
   volume_slide_param : Byte, fine_volume_slide_up_param : Byte,
   fine_volume_slide_down_param : Byte, global_volume_slide_param : Byte,
   panning_slide_param : Byte, multi_retrig_param : Byte, multi_retrig_ticks : Byte,
   tremor_param : Byte, tremor_ticks : Byte, tremor_on : BOOLEAN,
   tremolo_param : Byte, tremolo_ticks : Byte, tremolo_control_param : Byte]

-----------------------------------------------------------------------------
(* UPDATE_EFFECT_MEMORY_XY(): each nibble is remembered for itself.         *)
UpdateXY(memory, param) ==
  16 * (IF High(param) # 0 THEN High(param) ELSE High(memory))
    + (IF Low(param) # 0 THEN Low(param) ELSE Low(memory))

(* A memory that 00 leaves alone.                                           *)
Remember(memory, param) == IF param # 0 THEN param ELSE memory

ResetVolumeOffset(v) == [v EXCEPT !.volume_offset = 0]

ParamSlide(param, rawval, max) ==
  IF High(rawval) # 0
  THEN IF param + High(rawval) > max THEN max ELSE param + High(rawval)
  ELSE IF param < rawval THEN 0 ELSE param - rawval

SlideVolume(v, rawval) ==
  [ResetVolumeOffset(v) EXCEPT !.volume = ParamSlide(@, rawval, MAX_VOLUME)]

(* xm_volume_slide_s3m(): up wins over down only if down is 0 or F.         *)
S3MSlide(param) ==
  CASE High(param) = 0 \/ Low(param) = 0 -> param
    [] High(param) # 0 /\ Low(param) = 15 -> 16 * High(param)
    [] OTHER -> Low(param)

VolumeSlideS3M(v, param) == SlideVolume(v, S3MSlide(param))

SlidePanning(v, rawval) ==
  [v EXCEPT !.panning = ParamSlide(@, rawval, MAX_PANNING - 1)]

SetVolume(v, volume) == [ResetVolumeOffset(v) EXCEPT !.volume = volume]

CutNote(v) == [v EXCEPT !.volume = 0]

-----------------------------------------------------------------------------
(* Oscillators.                                                              *)

SineTable == <<0, 12, 24, 37, 48, 60, 71, 81, 90, 98, 106, 112, 118, 122, 125, 127>>
Sine(step) ==
  LET n == step \div 4
      i == IF (n \div 16) % 2 = 1 THEN 15 - (n % 16) ELSE n % 16
  IN  IF n < 32 THEN -SineTable[i + 1] ELSE SineTable[i + 1]

(* Bit 7 of the control keeps an oscillator going across notes.             *)
WAVEFORM_RAMP_DOWN == 1
Waveform(control, step, random) ==
  CASE control % 128 = 2 -> IF step < 128 THEN -128 ELSE 127
    [] control % 128 = WAVEFORM_RAMP_DOWN -> Int8(-(step + 1))
    [] control % 128 = 3 -> random
    [] control % 128 = 4 -> Int8(step)
    [] OTHER -> Sine(step)

(* A ramp is read at a step that depends on both oscillators, as in FT2.    *)
Mirrored(step) == (128 - step) % 256
TremoloStep(v, vibrato_ticks) ==
  IF v.tremolo_control_param % 128 # WAVEFORM_RAMP_DOWN THEN v.tremolo_ticks
  ELSE LET folded == IF v.tremolo_ticks >= 128 THEN Mirrored(v.tremolo_ticks)
                     ELSE v.tremolo_ticks
       IN  IF vibrato_ticks >= 128 THEN Mirrored(folded) ELSE folded

Advanced(ticks, param) == (ticks + (4 * High(param))) % 256

Tremolo(v, param, vibrato_ticks, random) ==
  LET wave == Waveform(v.tremolo_control_param, TremoloStep(v, vibrato_ticks), random)
  IN  [v EXCEPT !.volume_offset = Int8(Quotient(wave * Low(param) * 4, 128)),
                !.tremolo_ticks = Advanced(@, param)]

TremorShort(v, param) ==  \* mutant: a part ends one tick early
  LET flips == v.tremor_ticks <= 1
      on == IF flips THEN ~v.tremor_on ELSE v.tremor_on
      length == IF on THEN High(param) ELSE Low(param)
  IN  [v EXCEPT !.tremor_on = on,
                !.tremor_ticks = IF flips THEN length ELSE v.tremor_ticks - 1,
                !.volume_offset = IF on THEN 0 ELSE MAX_VOLUME]
Tremor(v, param) ==
  LET flips == v.tremor_ticks = 0
      on == IF flips THEN ~v.tremor_on ELSE v.tremor_on
      length == IF on THEN High(param) ELSE Low(param)
  IN  [v EXCEPT !.tremor_on = on,
                !.tremor_ticks = IF flips THEN length ELSE v.tremor_ticks - 1,
                !.volume_offset = IF on THEN 0 ELSE MAX_VOLUME]

-----------------------------------------------------------------------------
(* The volume of a note that Rxy triggers again.  A byte holds each step:   *)
(* what goes below zero ends above 255 - 16, and is told apart by that.     *)
RetrigAdd == <<0, 0, 0, 0, 0, 0, 0, 0, 0, 1, 2, 4, 8, 16, 0, 0>>
RetrigMul == <<1, 1, 1, 1, 1, 1, 2, 1, 1, 1, 1, 1, 1, 1, 3, 2>>
RetrigVolumeUnclamped(volume, x) ==  \* mutant: what went below zero stays there
  LET y == IF x >= 8 THEN x - 8 ELSE x + 8
      moved == (volume + RetrigAdd[x + 1] - RetrigAdd[y + 1]) % 256
  IN  ((moved * RetrigMul[x + 1]) % 256) \div RetrigMul[y + 1]
RetrigVolume(volume, x) ==
  LET y == IF x >= 8 THEN x - 8 ELSE x + 8
      moved == (volume + RetrigAdd[x + 1] - RetrigAdd[y + 1]) % 256
      scaled == ((moved * RetrigMul[x + 1]) % 256) \div RetrigMul[y + 1]
  IN  IF scaled > 255 - 16 THEN 0
      ELSE IF scaled > MAX_VOLUME THEN MAX_VOLUME ELSE scaled

(* What xm_trigger_instrument() does to volumes.                            *)
TriggerVolume(v) ==
  [ResetVolumeOffset(v) EXCEPT
     !.multi_retrig_ticks = 0, !.tremor_ticks = 0,
     !.tremolo_ticks = IF v.tremolo_control_param >= 128 THEN @ ELSE 0]

-----------------------------------------------------------------------------
(* Effects with a memory, which 00 uses as it is.                            *)

VolumeSlide(v, param) ==
  LET seen == [v EXCEPT !.volume_slide_param = Remember(@, param)]
  IN  SlideVolume(seen, seen.volume_slide_param)

FineVolumeSlideUp(v, param) ==
  LET seen == [v EXCEPT !.fine_volume_slide_up_param =
                 IF param # 0 THEN (16 * param) % 256 ELSE @]
  IN  SlideVolume(seen, seen.fine_volume_slide_up_param)

FineVolumeSlideDown(v, param) ==
  LET seen == [v EXCEPT !.fine_volume_slide_down_param = Remember(@, param)]
  IN  SlideVolume(seen, seen.fine_volume_slide_down_param)

GlobalVolumeSlide(v, param) ==
  LET seen == [v EXCEPT !.global_volume_slide_param = Remember(@, param)]
  IN  [seen EXCEPT !.global_volume = ParamSlide(@, seen.global_volume_slide_param, MAX_VOLUME)]

PanningSlide(v, param) ==
  LET seen == [v EXCEPT !.panning_slide_param = Remember(@, param)]
  IN  SlidePanning(seen, seen.panning_slide_param)

(* S3M slides are fine, at the first tick only, or not, at the others; 0F   *)
(* and F0 are both.                                                         *)
IsFineSlide(param) == High(param) = 15 \/ Low(param) = 15
IsTickSlide(param) == High(param) = 0 \/ Low(param) = 0 \/ ~IsFineSlide(param)

(* The effects xm_handle_pattern_slot() applies.  S3M effects use memory,   *)
(* the last parameter of any effect.                                        *)
VolumeAtFirstTick(v, s, memory, fast) ==
  CASE s.effect_type = "SET_VOLUME" -> SetVolume(v, s.effect_param)
    [] s.effect_type = "FINE_VOLUME_SLIDE_UP" -> FineVolumeSlideUp(v, s.effect_param)
    [] s.effect_type = "FINE_VOLUME_SLIDE_DOWN" -> FineVolumeSlideDown(v, s.effect_param)
    [] s.effect_type = "S3M_VOLUME_SLIDE" /\ (IsFineSlide(memory) \/ fast) ->
         VolumeSlideS3M(v, memory)
    [] s.effect_type = "SET_PANNING" -> [v EXCEPT !.panning = s.effect_param]
    [] s.effect_type = "SET_CHANNEL_PANNING" -> [v EXCEPT !.base_panning = s.effect_param]
    [] s.effect_type = "SET_GLOBAL_VOLUME" -> [v EXCEPT !.global_volume = s.effect_param]
    [] s.effect_type = "S3M_TREMOR" -> Tremor(v, memory)
    [] s.effect_type = "SET_TREMOLO_CONTROL" ->
         [v EXCEPT !.tremolo_control_param = s.effect_param]
    [] OTHER -> v

(* The effects xm_tick_effects() applies, the volume column first.          *)
ColumnOfTick(v, column) ==
  CASE High(column) = 6 -> SlideVolume(v, Low(column))
    [] High(column) = 7 -> SlideVolume(v, 16 * Low(column))
    [] High(column) = 13 -> SlidePanning(v, Low(column))
    [] High(column) = 14 -> SlidePanning(v, 16 * Low(column))
    [] OTHER -> v

VolumeSlides == {"VOLUME_SLIDE", "TONE_PORTAMENTO_VOLUME_SLIDE", "VIBRATO_VOLUME_SLIDE"}
S3MVolumeSlides ==
  {"S3M_VOLUME_SLIDE", "S3M_VIBRATO_VOLUME_SLIDE", "S3M_TONE_PORTAMENTO_VOLUME_SLIDE"}

VolumeOfTick(v, s, memory, vibrato_ticks, random) ==
  CASE s.effect_type \in VolumeSlides -> VolumeSlide(v, s.effect_param)
    [] s.effect_type \in S3MVolumeSlides /\ IsTickSlide(memory) -> VolumeSlideS3M(v, memory)
    [] s.effect_type = "TREMOLO" ->
         LET param == UpdateXY(v.tremolo_param, s.effect_param)
         IN  Tremolo([v EXCEPT !.tremolo_param = param], param, vibrato_ticks, random)
    [] s.effect_type = "S3M_TREMOLO" ->
         [Tremolo(v, memory, vibrato_ticks, random) EXCEPT !.volume_offset = @ \div 2]
    [] s.effect_type = "GLOBAL_VOLUME_SLIDE" -> GlobalVolumeSlide(v, s.effect_param)
    [] s.effect_type = "PANNING_SLIDE" -> PanningSlide(v, s.effect_param)
    [] s.effect_type = "TREMOR" ->
         LET param == Remember(v.tremor_param, s.effect_param)
         IN  Tremor([v EXCEPT !.tremor_param = param], param)
    [] s.effect_type = "S3M_TREMOR" -> Tremor(v, memory)
    [] OTHER -> v

-----------------------------------------------------------------------------
(* What a tick makes of them, see xm_tick().                                *)

(* The volume before ctx->global_volume multiplies it, as a share of        *)
(* INT32_MAX / MAX_VOLUME.                                                  *)
Attenuated(v, envelope, fadeout) ==
  LET base == v.volume - v.volume_offset
      clamped == IF base < 0 THEN 0 ELSE IF base > MAX_VOLUME THEN MAX_VOLUME ELSE base
  IN  (clamped * envelope * fadeout) \div 4

(* Panning moves towards a side by a share of the room left on that side.   *)
(* Both sums are uint8_t: the second may be 256, which is kept as 0.        *)
Room(panning) == MAX_PANNING \div 2 - Abs(panning - MAX_PANNING \div 2)
Based(v) ==
  v.panning + Quotient((v.base_panning - MAX_PANNING \div 2) * Room(v.panning), MAX_PANNING \div 2)
Panned(panning, envelope) ==
  panning + Quotient((envelope - MAX_ENVELOPE_VALUE \div 2) * Room(panning),
                     MAX_ENVELOPE_VALUE \div 2)
Panning(v, envelope) == Panned(Based(v) % 256, envelope) % 256
=============================================================================
