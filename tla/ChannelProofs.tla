----------------------------- MODULE ChannelProofs -----------------------------
(***************************************************************************)
(* Proofs about module ChannelHistory: whatever the module that is played, *)
(* the order of its slots, the calls of the program and what chance gives. *)
(* Each operator of Volume and Pitch has a lemma that says which fields it *)
(* keeps in range and which it leaves alone; the steps of Channel compose  *)
(* them, and the theorems are at the end.                                  *)
(***************************************************************************)
EXTENDS ChannelHistory, TLAPS

-----------------------------------------------------------------------------
(* Numbers.                                                                  *)

LEMMA ByteType ==
  ASSUME NEW b \in Byte
  PROVE  b \in Nat /\ b <= 255
BY DEF Byte

LEMMA ByteRemainder ==
  ASSUME NEW n \in Int
  PROVE  n % 256 \in Byte
BY DEF Byte

LEMMA Nibbles ==
  ASSUME NEW b \in Byte
  PROVE  /\ High(b) \in 0 .. 15 /\ Low(b) \in 0 .. 15
         /\ b = 16 * High(b) + Low(b)
         /\ 16 * High(b) \in Byte /\ 16 * Low(b) \in Byte
         /\ High(b) \in Byte /\ Low(b) \in Byte
BY DEF Byte, High, Low

LEMMA UpdateXYType ==
  ASSUME NEW a \in Byte, NEW b \in Byte
  PROVE  UpdateXY(a, b) \in Byte
<1> DEFINE hi == IF High(b) # 0 THEN High(b) ELSE High(a)
           lo == IF Low(b) # 0 THEN Low(b) ELSE Low(a)
<1>1. hi \in 0 .. 15 /\ lo \in 0 .. 15
  BY Nibbles
<1>2. UpdateXY(a, b) = 16 * hi + lo
  BY DEF UpdateXY
<1> HIDE DEF hi, lo
<1> QED
  BY <1>1, <1>2 DEF Byte

LEMMA RememberType ==
  ASSUME NEW a \in Byte, NEW b \in Byte
  PROVE  Remember(a, b) \in Byte
BY DEF Remember

LEMMA ParamSlideType ==
  ASSUME NEW max \in Nat, NEW param \in 0 .. max, NEW rawval \in Byte
  PROVE  ParamSlide(param, rawval, max) \in 0 .. max
<1>1. High(rawval) \in 0 .. 15 /\ rawval \in Nat
  BY Nibbles, ByteType
<1> QED
  BY <1>1 DEF ParamSlide

LEMMA S3MSlideType ==
  ASSUME NEW b \in Byte
  PROVE  S3MSlide(b) \in Byte
BY Nibbles DEF S3MSlide

(* An int8_t.                                                               *)
Int8s == -128 .. 127

LEMMA Int8Type ==
  ASSUME NEW n \in Int
  PROVE  Int8(n) \in Int8s
BY DEF Int8, Int8s

(* What fits in an int8_t is kept as it is.                                 *)
LEMMA Int8Fits ==
  ASSUME NEW n \in Int8s
  PROVE  Int8(n) = n
BY DEF Int8, Int8s

LEMMA SineType ==
  ASSUME NEW step \in Byte
  PROVE  Sine(step) \in -127 .. 127
<1> DEFINE n == step \div 4
           i == IF (n \div 16) % 2 = 1 THEN 15 - (n % 16) ELSE n % 16
<1>1. i + 1 \in 1 .. 16
  BY DEF Byte
<1>2. \A k \in 1 .. 16 : SineTable[k] \in 0 .. 127
  BY DEF SineTable
<1>3. Sine(step) = IF n < 32 THEN -SineTable[i + 1] ELSE SineTable[i + 1]
  BY DEF Sine
<1> HIDE DEF n, i
<1>4. SineTable[i + 1] \in 0 .. 127
  BY <1>1, <1>2
<1> QED
  BY <1>3, <1>4

LEMMA WaveformType ==
  ASSUME NEW control \in Byte, NEW step \in Byte, NEW random \in Int8s
  PROVE  Waveform(control, step, random) \in Int8s
<1>1. /\ Sine(step) \in Int8s /\ Int8(-(step + 1)) \in Int8s
      /\ Int8(step) \in Int8s
  <2>1. step \in Int /\ -(step + 1) \in Int
    BY ByteType
  <2>2. Sine(step) \in -127 .. 127
    BY SineType
  <2> QED
    BY <2>1, <2>2, Int8Type DEF Int8s
<1>2. -128 \in Int8s /\ 127 \in Int8s
  BY DEF Int8s
<1> QED
  BY <1>1, <1>2 DEF Waveform, WAVEFORM_RAMP_DOWN

LEMMA WaveTimesDepth ==
  ASSUME NEW wave \in Int8s, NEW depth \in 0 .. 15
  PROVE  wave * depth \in Int /\ -1920 <= wave * depth /\ wave * depth <= 1905
<1>0. wave \in -128 .. 127
  BY DEF Int8s
<1>1. CASE wave >= 0
  <2>1. wave * depth <= 127 * depth /\ wave * depth >= 0
    BY <1>0, <1>1
  <2> QED
    BY <1>0, <2>1
<1>2. CASE wave < 0
  <2>1. (-wave) * depth <= 128 * depth /\ (-wave) * depth >= 0
    BY <1>0, <1>2
  <2>2. wave * depth = -((-wave) * depth)
    BY <1>0
  <2> QED
    BY <1>0, <2>1, <2>2
<1> QED
  BY <1>0, <1>1, <1>2

-----------------------------------------------------------------------------
(* Volumes.  Only a tremor, or an instrument that is triggered, has a say   *)
(* in which part of a tremor comes next.                                    *)

KeepsTremor(v, w) == w.tremor_ticks = v.tremor_ticks /\ w.tremor_on = v.tremor_on

LEMMA VolumeFields ==
  ASSUME NEW v \in Volumes
  PROVE  /\ v.volume \in 0 .. MAX_VOLUME /\ v.volume_offset \in -MAX_VOLUME .. MAX_VOLUME
         /\ v.global_volume \in 0 .. MAX_VOLUME /\ v.panning \in Byte /\ v.base_panning \in Byte
         /\ v.volume_slide_param \in Byte /\ v.fine_volume_slide_up_param \in Byte
         /\ v.fine_volume_slide_down_param \in Byte /\ v.global_volume_slide_param \in Byte
         /\ v.panning_slide_param \in Byte /\ v.multi_retrig_param \in Byte
         /\ v.multi_retrig_ticks \in Byte /\ v.tremor_param \in Byte
         /\ v.tremor_ticks \in Byte /\ v.tremor_on \in BOOLEAN
         /\ v.tremolo_param \in Byte /\ v.tremolo_ticks \in Byte
         /\ v.tremolo_control_param \in Byte
BY DEF Volumes

(* A field at a time, which is how the provers see through a volume.        *)
LEMMA VolumeWith ==
  ASSUME NEW v \in Volumes
  PROVE  /\ \A x \in 0 .. MAX_VOLUME : [v EXCEPT !.volume = x] \in Volumes
         /\ \A x \in -MAX_VOLUME .. MAX_VOLUME : [v EXCEPT !.volume_offset = x] \in Volumes
         /\ \A x \in Byte : [v EXCEPT !.panning = x] \in Volumes
         /\ \A x \in Byte : [v EXCEPT !.multi_retrig_ticks = x] \in Volumes
         /\ \A x \in Byte : [v EXCEPT !.tremor_ticks = x] \in Volumes
         /\ \A x \in BOOLEAN : [v EXCEPT !.tremor_on = x] \in Volumes
         /\ \A x \in Byte : [v EXCEPT !.tremolo_ticks = x] \in Volumes
<1>1. \A x \in 0 .. MAX_VOLUME : [v EXCEPT !.volume = x] \in Volumes
  BY DEF Volumes
<1>2. \A x \in -MAX_VOLUME .. MAX_VOLUME : [v EXCEPT !.volume_offset = x] \in Volumes
  BY DEF Volumes
<1>3. \A x \in Byte : [v EXCEPT !.panning = x] \in Volumes
  BY DEF Volumes
<1>4. \A x \in Byte : [v EXCEPT !.multi_retrig_ticks = x] \in Volumes
  BY DEF Volumes
<1>5. \A x \in Byte : [v EXCEPT !.tremor_ticks = x] \in Volumes
  BY DEF Volumes
<1>6. \A x \in BOOLEAN : [v EXCEPT !.tremor_on = x] \in Volumes
  BY DEF Volumes
<1>7. \A x \in Byte : [v EXCEPT !.tremolo_ticks = x] \in Volumes
  BY DEF Volumes
<1> QED
  BY <1>1, <1>2, <1>3, <1>4, <1>5, <1>6, <1>7

LEMMA SlideVolumeType ==
  ASSUME NEW v \in Volumes, NEW rawval \in Byte
  PROVE  SlideVolume(v, rawval) \in Volumes /\ KeepsTremor(v, SlideVolume(v, rawval))
<1> DEFINE moved == ParamSlide(v.volume, rawval, MAX_VOLUME)
<1>1. moved \in 0 .. MAX_VOLUME
  BY VolumeFields, ParamSlideType DEF MAX_VOLUME
<1>2. 0 \in -MAX_VOLUME .. MAX_VOLUME
  BY DEF MAX_VOLUME
<1>3. SlideVolume(v, rawval) = [v EXCEPT !.volume_offset = 0, !.volume = moved]
  BY DEF SlideVolume, ResetVolumeOffset, Volumes
<1> HIDE DEF moved
<1> QED
  BY <1>1, <1>2, <1>3 DEF KeepsTremor, Volumes

LEMMA VolumeSlideS3MType ==
  ASSUME NEW v \in Volumes, NEW param \in Byte
  PROVE  VolumeSlideS3M(v, param) \in Volumes /\ KeepsTremor(v, VolumeSlideS3M(v, param))
BY S3MSlideType, SlideVolumeType DEF VolumeSlideS3M

LEMMA SlidePanningType ==
  ASSUME NEW v \in Volumes, NEW rawval \in Byte
  PROVE  SlidePanning(v, rawval) \in Volumes /\ KeepsTremor(v, SlidePanning(v, rawval))
<1> DEFINE moved == ParamSlide(v.panning, rawval, MAX_PANNING - 1)
<1>1. moved \in Byte
  <2>1. MAX_PANNING - 1 \in Nat /\ Byte = 0 .. MAX_PANNING - 1
    BY DEF MAX_PANNING, Byte
  <2>2. v.panning \in 0 .. MAX_PANNING - 1
    BY <2>1, VolumeFields
  <2> QED
    BY <2>1, <2>2, ParamSlideType
<1>2. SlidePanning(v, rawval) = [v EXCEPT !.panning = moved]
  BY DEF SlidePanning
<1> HIDE DEF moved
<1> QED
  BY <1>1, <1>2 DEF KeepsTremor, Volumes

LEMMA SetVolumeType ==
  ASSUME NEW v \in Volumes, NEW volume \in 0 .. MAX_VOLUME
  PROVE  SetVolume(v, volume) \in Volumes /\ KeepsTremor(v, SetVolume(v, volume))
<1>1. 0 \in -MAX_VOLUME .. MAX_VOLUME
  BY DEF MAX_VOLUME
<1>2. SetVolume(v, volume) = [v EXCEPT !.volume_offset = 0, !.volume = volume]
  BY DEF SetVolume, ResetVolumeOffset
<1> QED
  BY <1>1, <1>2 DEF Volumes, KeepsTremor

LEMMA CutNoteType ==
  ASSUME NEW v \in Volumes
  PROVE  CutNote(v) \in Volumes /\ KeepsTremor(v, CutNote(v))
<1>1. 0 \in 0 .. MAX_VOLUME
  BY DEF MAX_VOLUME
<1> QED
  BY <1>1 DEF CutNote, Volumes, KeepsTremor

LEMMA TriggerVolumeType ==
  ASSUME NEW v \in Volumes
  PROVE  TriggerVolume(v) \in Volumes /\ TriggerVolume(v).tremor_ticks = 0
         /\ TriggerVolume(v).tremor_on = v.tremor_on
<1> DEFINE ticks == IF v.tremolo_control_param >= 128 THEN v.tremolo_ticks ELSE 0
<1>1. 0 \in -MAX_VOLUME .. MAX_VOLUME /\ 0 \in Byte
  BY DEF MAX_VOLUME, Byte
<1>2. ticks \in Byte
  BY <1>1, VolumeFields
<1>3. TriggerVolume(v) =
        [v EXCEPT !.volume_offset = 0, !.multi_retrig_ticks = 0, !.tremor_ticks = 0,
                  !.tremolo_ticks = ticks]
  BY DEF TriggerVolume, ResetVolumeOffset, Volumes
<1> HIDE DEF ticks
<1> DEFINE u == [[v EXCEPT !.volume_offset = 0] EXCEPT !.multi_retrig_ticks = 0]
<1>4. u \in Volumes /\ u.tremor_on = v.tremor_on
  <2>1. u \in Volumes
    BY <1>1, VolumeWith
  <2> QED
    BY <2>1 DEF Volumes
<1> DEFINE w == [u EXCEPT !.tremor_ticks = 0]
<1>5. TriggerVolume(v) = [w EXCEPT !.tremolo_ticks = ticks]
  BY <1>3
<1> HIDE DEF u
<1>6. w \in Volumes /\ w.tremor_ticks = 0 /\ w.tremor_on = v.tremor_on
  BY <1>1, <1>4 DEF Volumes
<1> HIDE DEF w
<1> QED
  BY <1>2, <1>5, <1>6 DEF Volumes

LEMMA TremoloOffset ==
  ASSUME NEW x \in Int, -1920 <= x, x <= 1905
  PROVE  Int8(Quotient(x * 4, 128)) \in -60 .. 60
<1>1. Quotient(x * 4, 128) \in -60 .. 60
  BY DEF Quotient
<1>2. Quotient(x * 4, 128) \in Int8s
  BY <1>1 DEF Int8s
<1> QED
  BY <1>1, <1>2, Int8Fits

LEMMA TremoloType ==
  ASSUME NEW v \in Volumes, NEW param \in Byte, NEW vibrato_ticks \in Byte,
         NEW random \in Int8s
  PROVE  LET w == Tremolo(v, param, vibrato_ticks, random)
         IN  w \in Volumes /\ w.volume_offset \in -60 .. 60 /\ KeepsTremor(v, w)
<1> DEFINE step == TremoloStep(v, vibrato_ticks)
           wave == Waveform(v.tremolo_control_param, step, random)
           offset == Int8(Quotient(wave * Low(param) * 4, 128))
           ticks == Advanced(v.tremolo_ticks, param)
<1>1. \A b \in Byte : Mirrored(b) \in Byte
  BY DEF Mirrored, Byte
<1>2. step \in Byte
  BY <1>1, VolumeFields DEF TremoloStep
<1>3. wave \in Int8s
  BY <1>2, VolumeFields, WaveformType
<1>4. offset \in -60 .. 60
  <2>1. Low(param) \in 0 .. 15
    BY Nibbles
  <2> HIDE DEF wave
  <2>2. /\ wave * Low(param) \in Int
        /\ -1920 <= wave * Low(param) /\ wave * Low(param) <= 1905
    BY <1>3, <2>1, WaveTimesDepth DEF Int8s
  <2> QED
    BY <2>2, TremoloOffset
<1>5. ticks \in Byte
  <2>1. High(param) \in 0 .. 15 /\ v.tremolo_ticks \in Nat
    BY Nibbles, VolumeFields, ByteType
  <2> QED
    BY <2>1, ByteRemainder DEF Advanced
<1>6. Tremolo(v, param, vibrato_ticks, random) =
        [v EXCEPT !.volume_offset = offset, !.tremolo_ticks = ticks]
  BY DEF Tremolo
<1>7. offset \in -MAX_VOLUME .. MAX_VOLUME
  BY <1>4 DEF MAX_VOLUME
<1> HIDE DEF offset, ticks
<1> DEFINE u == [v EXCEPT !.volume_offset = offset]
<1>8. Tremolo(v, param, vibrato_ticks, random) = [u EXCEPT !.tremolo_ticks = ticks]
  BY <1>6
<1>9. u \in Volumes /\ u.volume_offset = offset /\ KeepsTremor(v, u)
  BY <1>7 DEF KeepsTremor, Volumes
<1> HIDE DEF u
<1> QED
  BY <1>4, <1>5, <1>8, <1>9 DEF KeepsTremor, Volumes

(* A part of a tremor ends when its count is 0, and counts down until then. *)
LEMMA TremorCounts ==
  ASSUME NEW v \in Volumes, NEW param \in Byte
  PROVE  LET w == Tremor(v, param)
         IN  /\ w \in Volumes
             /\ (w.tremor_on # v.tremor_on) <=> (v.tremor_ticks = 0)
             /\ v.tremor_ticks = 0 =>
                  w.tremor_ticks = IF w.tremor_on THEN High(param) ELSE Low(param)
             /\ v.tremor_ticks # 0 => w.tremor_ticks = v.tremor_ticks - 1
             /\ w.tremor_param = v.tremor_param
<1> DEFINE flips == v.tremor_ticks = 0
           on == IF flips THEN ~v.tremor_on ELSE v.tremor_on
           ticks == IF flips THEN (IF on THEN High(param) ELSE Low(param))
                    ELSE v.tremor_ticks - 1
           offset == IF on THEN 0 ELSE MAX_VOLUME
<1>1. v.tremor_ticks \in Byte /\ v.tremor_on \in BOOLEAN
  BY VolumeFields
<1>2. on \in BOOLEAN /\ ((on # v.tremor_on) <=> flips)
  BY <1>1
<1>3. ticks \in Byte
  <2>1. ~flips => v.tremor_ticks - 1 \in Byte
    BY <1>1 DEF Byte
  <2> QED
    BY <2>1, Nibbles
<1>4. offset \in -MAX_VOLUME .. MAX_VOLUME
  BY DEF MAX_VOLUME
<1>5. Tremor(v, param) =
        [v EXCEPT !.tremor_on = on, !.tremor_ticks = ticks, !.volume_offset = offset]
  BY DEF Tremor
<1>6. /\ flips => ticks = IF on THEN High(param) ELSE Low(param)
      /\ ~flips => ticks = v.tremor_ticks - 1
  OBVIOUS
<1> HIDE DEF on, ticks, offset
<1>7. /\ Tremor(v, param) \in Volumes
      /\ Tremor(v, param).tremor_on = on /\ Tremor(v, param).tremor_ticks = ticks
      /\ Tremor(v, param).tremor_param = v.tremor_param
  <2> DEFINE u == [[v EXCEPT !.tremor_on = on] EXCEPT !.tremor_ticks = ticks]
  <2>1. [v EXCEPT !.tremor_on = on] \in Volumes
    BY <1>2, VolumeWith
  <2>2. u \in Volumes
    BY <1>3, <2>1, VolumeWith
  <2>3. u.tremor_on = on /\ u.tremor_ticks = ticks /\ u.tremor_param = v.tremor_param
    BY DEF Volumes
  <2>4. Tremor(v, param) = [u EXCEPT !.volume_offset = offset]
    BY <1>5
  <2> HIDE DEF u
  <2> QED
    BY <1>4, <2>2, <2>3, <2>4 DEF Volumes
<1> QED
  BY <1>2, <1>6, <1>7

LEMMA RetrigVolumeType ==
  ASSUME NEW volume \in 0 .. MAX_VOLUME, NEW x \in 0 .. 15
  PROVE  RetrigVolume(volume, x) \in 0 .. MAX_VOLUME
<1> DEFINE y == IF x >= 8 THEN x - 8 ELSE x + 8
           moved == (volume + RetrigAdd[x + 1] - RetrigAdd[y + 1]) % 256
           product == (moved * RetrigMul[x + 1]) % 256
           scaled == product \div RetrigMul[y + 1]
<1>1. x + 1 \in 1 .. 16 /\ y + 1 \in 1 .. 16
  OBVIOUS
<1>2. \A k \in 1 .. 16 : RetrigAdd[k] \in 0 .. 16 /\ RetrigMul[k] \in {1, 2, 3}
  BY DEF RetrigAdd, RetrigMul
<1>3. /\ RetrigAdd[x + 1] \in 0 .. 16 /\ RetrigAdd[y + 1] \in 0 .. 16
      /\ RetrigMul[x + 1] \in {1, 2, 3} /\ RetrigMul[y + 1] \in {1, 2, 3}
  BY <1>1, <1>2
<1>4. volume \in Int
  BY DEF MAX_VOLUME
<1>5. RetrigVolume(volume, x) =
        IF scaled > 255 - 16 THEN 0 ELSE IF scaled > MAX_VOLUME THEN MAX_VOLUME ELSE scaled
  BY DEF RetrigVolume
<1> HIDE DEF y
<1>6. moved \in 0 .. 255
  <2>1. volume + RetrigAdd[x + 1] - RetrigAdd[y + 1] \in Int
    BY <1>3, <1>4
  <2> QED
    BY <2>1
<1> HIDE DEF moved
<1>7. product \in 0 .. 255
  BY <1>3, <1>6
<1> HIDE DEF product
<1>8. scaled \in Nat
  BY <1>3, <1>7
<1> HIDE DEF scaled
<1> QED
  BY <1>5, <1>8 DEF MAX_VOLUME

(* Effects with a memory.                                                   *)
LEMMA VolumeSlidesType ==
  ASSUME NEW v \in Volumes, NEW param \in Byte
  PROVE  /\ VolumeSlide(v, param) \in Volumes /\ KeepsTremor(v, VolumeSlide(v, param))
         /\ FineVolumeSlideUp(v, param) \in Volumes
         /\ KeepsTremor(v, FineVolumeSlideUp(v, param))
         /\ FineVolumeSlideDown(v, param) \in Volumes
         /\ KeepsTremor(v, FineVolumeSlideDown(v, param))
         /\ PanningSlide(v, param) \in Volumes /\ KeepsTremor(v, PanningSlide(v, param))
         /\ GlobalVolumeSlide(v, param) \in Volumes
         /\ KeepsTremor(v, GlobalVolumeSlide(v, param))
<1>1. VolumeSlide(v, param) \in Volumes /\ KeepsTremor(v, VolumeSlide(v, param))
  <2> DEFINE memory == Remember(v.volume_slide_param, param)
             seen == [v EXCEPT !.volume_slide_param = memory]
  <2>1. memory \in Byte
    BY RememberType, VolumeFields
  <2> HIDE DEF memory
  <2>2. seen \in Volumes /\ KeepsTremor(v, seen) /\ seen.volume_slide_param = memory
    BY <2>1 DEF Volumes, KeepsTremor
  <2>3. VolumeSlide(v, param) = SlideVolume(seen, seen.volume_slide_param)
    BY DEF VolumeSlide, memory
  <2> HIDE DEF seen
  <2> QED
    BY <2>1, <2>2, <2>3, SlideVolumeType DEF KeepsTremor
<1>2. /\ FineVolumeSlideUp(v, param) \in Volumes
      /\ KeepsTremor(v, FineVolumeSlideUp(v, param))
  <2> DEFINE memory == IF param # 0 THEN (16 * param) % 256
                       ELSE v.fine_volume_slide_up_param
             seen == [v EXCEPT !.fine_volume_slide_up_param = memory]
  <2>1. memory \in Byte
    BY ByteRemainder, ByteType, VolumeFields
  <2>2. FineVolumeSlideUp(v, param) = SlideVolume(seen, seen.fine_volume_slide_up_param)
    BY DEF FineVolumeSlideUp
  <2> HIDE DEF memory
  <2>3. seen \in Volumes /\ KeepsTremor(v, seen) /\ seen.fine_volume_slide_up_param = memory
    BY <2>1 DEF Volumes, KeepsTremor
  <2> HIDE DEF seen
  <2> QED
    BY <2>1, <2>2, <2>3, SlideVolumeType DEF KeepsTremor
<1>3. /\ FineVolumeSlideDown(v, param) \in Volumes
      /\ KeepsTremor(v, FineVolumeSlideDown(v, param))
  <2> DEFINE memory == Remember(v.fine_volume_slide_down_param, param)
             seen == [v EXCEPT !.fine_volume_slide_down_param = memory]
  <2>1. memory \in Byte
    BY RememberType, VolumeFields
  <2>2. FineVolumeSlideDown(v, param) = SlideVolume(seen, seen.fine_volume_slide_down_param)
    BY DEF FineVolumeSlideDown
  <2> HIDE DEF memory
  <2>3. /\ seen \in Volumes /\ KeepsTremor(v, seen)
        /\ seen.fine_volume_slide_down_param = memory
    BY <2>1 DEF Volumes, KeepsTremor
  <2> HIDE DEF seen
  <2> QED
    BY <2>1, <2>2, <2>3, SlideVolumeType DEF KeepsTremor
<1>4. PanningSlide(v, param) \in Volumes /\ KeepsTremor(v, PanningSlide(v, param))
  <2> DEFINE memory == Remember(v.panning_slide_param, param)
             seen == [v EXCEPT !.panning_slide_param = memory]
  <2>1. memory \in Byte
    BY RememberType, VolumeFields
  <2>2. PanningSlide(v, param) = SlidePanning(seen, seen.panning_slide_param)
    BY DEF PanningSlide
  <2> HIDE DEF memory
  <2>3. seen \in Volumes /\ KeepsTremor(v, seen) /\ seen.panning_slide_param = memory
    BY <2>1 DEF Volumes, KeepsTremor
  <2> HIDE DEF seen
  <2> QED
    BY <2>1, <2>2, <2>3, SlidePanningType DEF KeepsTremor
<1>5. GlobalVolumeSlide(v, param) \in Volumes /\ KeepsTremor(v, GlobalVolumeSlide(v, param))
  <2> DEFINE memory == Remember(v.global_volume_slide_param, param)
             moved == ParamSlide(v.global_volume, memory, MAX_VOLUME)
  <2>1. memory \in Byte
    BY RememberType, VolumeFields
  <2>2. moved \in 0 .. MAX_VOLUME
    BY <2>1, VolumeFields, ParamSlideType DEF MAX_VOLUME
  <2>3. GlobalVolumeSlide(v, param) =
          [v EXCEPT !.global_volume_slide_param = memory, !.global_volume = moved]
    BY DEF GlobalVolumeSlide, Volumes
  <2> HIDE DEF memory, moved
  <2> QED
    BY <2>1, <2>2, <2>3 DEF Volumes, KeepsTremor
<1> QED
  BY <1>1, <1>2, <1>3, <1>4, <1>5

LEMMA ColumnOfTickType ==
  ASSUME NEW v \in Volumes, NEW column \in Byte
  PROVE  ColumnOfTick(v, column) \in Volumes /\ KeepsTremor(v, ColumnOfTick(v, column))
<1>1. Low(column) \in Byte /\ 16 * Low(column) \in Byte
  BY Nibbles
<1>2. KeepsTremor(v, v)
  BY DEF KeepsTremor
<1> QED
  BY <1>1, <1>2, SlideVolumeType, SlidePanningType DEF ColumnOfTick

(* The effects of a slot, but those that trigger it again.                  *)
LEMMA VolumeAtFirstTickType ==
  ASSUME NEW v \in Volumes, NEW s, IsLoadedSlot(s), NEW memory \in Byte, NEW fast \in BOOLEAN
  PROVE  LET w == VolumeAtFirstTick(v, s, memory, fast)
         IN  /\ w \in Volumes
             /\ IF s.effect_type = "S3M_TREMOR" THEN w = Tremor(v, memory)
                ELSE KeepsTremor(v, w)
<1> DEFINE w == VolumeAtFirstTick(v, s, memory, fast)
<1>1. s.effect_param \in Byte
  BY DEF IsLoadedSlot, IsSlot
<1>2. s.effect_type \in {"SET_VOLUME", "SET_GLOBAL_VOLUME"} => s.effect_param \in 0 .. MAX_VOLUME
  BY <1>1, ByteType DEF IsLoadedSlot, IsFixedEffect, MAX_VOLUME
<1>3. KeepsTremor(v, v)
  BY DEF KeepsTremor
<1>4. CASE s.effect_type = "SET_VOLUME"
  <2>1. w = SetVolume(v, s.effect_param)
    BY <1>4 DEF VolumeAtFirstTick
  <2> QED
    BY <1>2, <1>4, <2>1, SetVolumeType
<1>5. CASE s.effect_type = "FINE_VOLUME_SLIDE_UP"
  <2>1. w = FineVolumeSlideUp(v, s.effect_param)
    BY <1>5 DEF VolumeAtFirstTick
  <2> QED
    BY <1>1, <1>5, <2>1, VolumeSlidesType
<1>6. CASE s.effect_type = "FINE_VOLUME_SLIDE_DOWN"
  <2>1. w = FineVolumeSlideDown(v, s.effect_param)
    BY <1>6 DEF VolumeAtFirstTick
  <2> QED
    BY <1>1, <1>6, <2>1, VolumeSlidesType
<1>7. CASE s.effect_type = "S3M_VOLUME_SLIDE"
  <2>1. w = VolumeSlideS3M(v, memory) \/ w = v
    BY <1>7 DEF VolumeAtFirstTick
  <2> QED
    BY <1>3, <1>7, <2>1, VolumeSlideS3MType
<1>8. CASE s.effect_type = "SET_PANNING"
  <2>1. w = [v EXCEPT !.panning = s.effect_param]
    BY <1>8 DEF VolumeAtFirstTick
  <2>2. w \in Volumes /\ KeepsTremor(v, w)
    BY <1>1, <2>1 DEF Volumes, KeepsTremor
  <2> QED
    BY <1>8, <2>2
<1>9. CASE s.effect_type = "SET_CHANNEL_PANNING"
  <2>1. w = [v EXCEPT !.base_panning = s.effect_param]
    BY <1>9 DEF VolumeAtFirstTick
  <2>2. w \in Volumes /\ KeepsTremor(v, w)
    BY <1>1, <2>1 DEF Volumes, KeepsTremor
  <2> QED
    BY <1>9, <2>2
<1>10. CASE s.effect_type = "SET_GLOBAL_VOLUME"
  <2>1. w = [v EXCEPT !.global_volume = s.effect_param]
    BY <1>10 DEF VolumeAtFirstTick
  <2>2. w \in Volumes /\ KeepsTremor(v, w)
    BY <1>2, <1>10, <2>1 DEF Volumes, KeepsTremor
  <2> QED
    BY <1>10, <2>2
<1>11. CASE s.effect_type = "S3M_TREMOR"
  <2>1. w = Tremor(v, memory)
    BY <1>11 DEF VolumeAtFirstTick
  <2> QED
    BY <1>11, <2>1, TremorCounts
<1>12. CASE s.effect_type = "SET_TREMOLO_CONTROL"
  <2>1. w = [v EXCEPT !.tremolo_control_param = s.effect_param]
    BY <1>12 DEF VolumeAtFirstTick
  <2>2. w \in Volumes /\ KeepsTremor(v, w)
    BY <1>1, <2>1 DEF Volumes, KeepsTremor
  <2> QED
    BY <1>12, <2>2
<1>13. CASE s.effect_type \notin {"SET_VOLUME", "FINE_VOLUME_SLIDE_UP",
         "FINE_VOLUME_SLIDE_DOWN", "S3M_VOLUME_SLIDE", "SET_PANNING", "SET_CHANNEL_PANNING",
         "SET_GLOBAL_VOLUME", "S3M_TREMOR", "SET_TREMOLO_CONTROL"}
  <2>1. w = v
    BY <1>13 DEF VolumeAtFirstTick
  <2> QED
    BY <1>3, <1>13, <2>1
<1> QED
  BY <1>4, <1>5, <1>6, <1>7, <1>8, <1>9, <1>10, <1>11, <1>12, <1>13

LEMMA VolumeOfTickType ==
  ASSUME NEW v \in Volumes, NEW s, IsLoadedSlot(s), NEW memory \in Byte,
         NEW vibrato_ticks \in Byte, NEW random \in Int8s
  PROVE  LET w == VolumeOfTick(v, s, memory, vibrato_ticks, random)
         IN  /\ w \in Volumes
             /\ s.effect_type = "TREMOR" =>
                  \E u \in Volumes, param \in Byte :
                    /\ KeepsTremor(v, u) /\ w = Tremor(u, param) /\ w.tremor_param = param
             /\ s.effect_type = "S3M_TREMOR" => w = Tremor(v, memory)
             /\ s.effect_type \notin {"TREMOR", "S3M_TREMOR"} => KeepsTremor(v, w)
<1> DEFINE w == VolumeOfTick(v, s, memory, vibrato_ticks, random)
<1>1. s.effect_param \in Byte
  BY DEF IsLoadedSlot, IsSlot
<1>2. KeepsTremor(v, v)
  BY DEF KeepsTremor
<1>3. CASE s.effect_type \in VolumeSlides
  <2>1. w = VolumeSlide(v, s.effect_param)
    BY <1>3 DEF VolumeOfTick, VolumeSlides, S3MVolumeSlides
  <2>2. s.effect_type \notin {"TREMOR", "S3M_TREMOR"}
    BY <1>3 DEF VolumeSlides
  <2> QED
    BY <1>1, <2>1, <2>2, VolumeSlidesType
<1>4. CASE s.effect_type \in S3MVolumeSlides
  <2>1. w = VolumeSlideS3M(v, memory) \/ w = v
    BY <1>4 DEF VolumeOfTick, VolumeSlides, S3MVolumeSlides
  <2>2. s.effect_type \notin {"TREMOR", "S3M_TREMOR"}
    BY <1>4 DEF S3MVolumeSlides
  <2> QED
    BY <1>2, <2>1, <2>2, VolumeSlideS3MType
<1>5. CASE s.effect_type = "TREMOLO"
  <2> DEFINE param == UpdateXY(v.tremolo_param, s.effect_param)
             u == [v EXCEPT !.tremolo_param = param]
  <2>1. w = Tremolo(u, param, vibrato_ticks, random)
    BY <1>5 DEF VolumeOfTick, VolumeSlides, S3MVolumeSlides
  <2>2. param \in Byte
    BY <1>1, UpdateXYType, VolumeFields
  <2> HIDE DEF param
  <2>3. u \in Volumes /\ KeepsTremor(v, u)
    BY <2>2 DEF Volumes, KeepsTremor
  <2> HIDE DEF u
  <2>4. w \in Volumes /\ KeepsTremor(u, w)
    BY <2>1, <2>2, <2>3, TremoloType
  <2> QED
    BY <1>5, <2>3, <2>4 DEF KeepsTremor
<1>6. CASE s.effect_type = "S3M_TREMOLO"
  <2> DEFINE u == Tremolo(v, memory, vibrato_ticks, random)
             offset == u.volume_offset \div 2
  <2>1. w = [u EXCEPT !.volume_offset = offset]
    BY <1>6 DEF VolumeOfTick, VolumeSlides, S3MVolumeSlides
  <2>2. u \in Volumes /\ u.volume_offset \in -60 .. 60 /\ KeepsTremor(v, u)
    BY TremoloType
  <2> HIDE DEF u
  <2>3. offset \in -MAX_VOLUME .. MAX_VOLUME
    BY <2>2 DEF MAX_VOLUME
  <2> HIDE DEF offset
  <2>4. w \in Volumes /\ KeepsTremor(u, w)
    BY <2>1, <2>2, <2>3 DEF Volumes, KeepsTremor
  <2> QED
    BY <1>6, <2>2, <2>4 DEF KeepsTremor
<1>7. CASE s.effect_type = "GLOBAL_VOLUME_SLIDE"
  <2>1. w = GlobalVolumeSlide(v, s.effect_param)
    BY <1>7 DEF VolumeOfTick, VolumeSlides, S3MVolumeSlides
  <2> QED
    BY <1>1, <1>7, <2>1, VolumeSlidesType
<1>8. CASE s.effect_type = "PANNING_SLIDE"
  <2>1. w = PanningSlide(v, s.effect_param)
    BY <1>8 DEF VolumeOfTick, VolumeSlides, S3MVolumeSlides
  <2> QED
    BY <1>1, <1>8, <2>1, VolumeSlidesType
<1>9. CASE s.effect_type = "TREMOR"
  <2> DEFINE param == Remember(v.tremor_param, s.effect_param)
             u == [v EXCEPT !.tremor_param = param]
  <2>1. w = Tremor(u, param)
    BY <1>9 DEF VolumeOfTick, VolumeSlides, S3MVolumeSlides
  <2>2. param \in Byte
    BY <1>1, RememberType, VolumeFields
  <2> HIDE DEF param
  <2>3. u \in Volumes /\ KeepsTremor(v, u) /\ u.tremor_param = param
    BY <2>2 DEF Volumes, KeepsTremor
  <2> HIDE DEF u
  <2>4. Tremor(u, param) \in Volumes /\ Tremor(u, param).tremor_param = u.tremor_param
    BY <2>2, <2>3, TremorCounts
  <2>5. w \in Volumes /\ w.tremor_param = param
    BY <2>1, <2>3, <2>4
  <2> QED
    BY <1>9, <2>1, <2>2, <2>3, <2>5
<1>10. CASE s.effect_type = "S3M_TREMOR"
  <2>1. w = Tremor(v, memory)
    BY <1>10 DEF VolumeOfTick, VolumeSlides, S3MVolumeSlides
  <2> QED
    BY <1>10, <2>1, TremorCounts
<1>11. CASE s.effect_type \notin VolumeSlides \cup S3MVolumeSlides \cup
         {"TREMOLO", "S3M_TREMOLO", "GLOBAL_VOLUME_SLIDE", "PANNING_SLIDE", "TREMOR", "S3M_TREMOR"}
  <2>1. w = v
    BY <1>11 DEF VolumeOfTick
  <2> QED
    BY <1>2, <1>11, <2>1
<1> QED
  BY <1>3, <1>4, <1>5, <1>6, <1>7, <1>8, <1>9, <1>10, <1>11

(* A share of the room on a side of a panning does not leave a byte.        *)
LEMMA RoomType ==
  ASSUME NEW panning \in Byte
  PROVE  LET room == Room(panning)
         IN  /\ room \in 0 .. 128
             /\ panning - room >= 0
             /\ room # 0 => panning + room <= 256
BY DEF Room, Abs, MAX_PANNING, Byte

LEMMA ProductBounds ==
  ASSUME NEW room \in Nat, NEW side \in Int, NEW half \in Nat, -half <= side, side < half
  PROVE  /\ side * room \in Int
         /\ side >= 0 => 0 <= side * room /\ side * room <= half * room - room
         /\ side < 0 => 0 <= (-side) * room /\ (-side) * room <= half * room
                          /\ side * room = -((-side) * room)
<1>1. ASSUME side >= 0
      PROVE  0 <= side * room /\ side * room <= half * room - room
  <2>1. PICK rest \in Nat : half = side + 1 + rest
    <3>1. half - side - 1 \in Nat /\ half = side + 1 + (half - side - 1)
      BY <1>1
    <3> QED
      BY <3>1
  <2>2. half * room = side * room + room + rest * room
    BY <2>1
  <2>3. side * room >= 0 /\ rest * room >= 0
    BY <1>1, <2>1
  <2> QED
    BY <2>2, <2>3
<1>2. ASSUME side < 0
      PROVE  0 <= (-side) * room /\ (-side) * room <= half * room /\ side * room = -((-side) * room)
  <2>1. PICK rest \in Nat : half = -side + rest
    <3>1. half + side \in Nat /\ half = -side + (half + side)
      OBVIOUS
    <3> QED
      BY <3>1
  <2>2. half * room = (-side) * room + rest * room
    BY <2>1
  <2>3. (-side) * room >= 0 /\ rest * room >= 0
    BY <1>2, <2>1
  <2> QED
    BY <2>2, <2>3
<1> QED
  BY <1>1, <1>2

LEMMA ShareOf128 ==
  ASSUME NEW panning \in Byte, NEW side \in Int, -128 <= side, side < 128
  PROVE  panning + Quotient(side * Room(panning), 128) \in Byte
<1> DEFINE room == Room(panning)
           x == side * room
<1>1. /\ room \in Nat /\ panning \in Nat /\ panning <= 255 /\ panning - room >= 0
      /\ room # 0 => panning + room <= 256
  BY RoomType, ByteType
<1> HIDE DEF room
<1>2. /\ x \in Int
      /\ side >= 0 => 0 <= x /\ x <= 128 * room - room
      /\ side < 0 => x <= 0 /\ -x <= 128 * room
  BY <1>1, ProductBounds
<1> HIDE DEF x
<1>3. ASSUME side >= 0
      PROVE  panning + Quotient(x, 128) \in Byte
  <2>1. Quotient(x, 128) = x \div 128 /\ x \div 128 \in Nat
    BY <1>2, <1>3 DEF Quotient
  <2>2. x \in Int /\ 0 <= x /\ x <= 128 * room - room /\ room \in Nat
    BY <1>1, <1>2, <1>3
  <2>3. room = 0 => x \div 128 = 0
    BY <2>2
  <2>4. room # 0 => x \div 128 < room
    BY <2>2
  <2> QED
    BY <1>1, <2>1, <2>3, <2>4 DEF Byte
<1>4. ASSUME side < 0
      PROVE  panning + Quotient(x, 128) \in Byte
  <2>1. Quotient(x, 128) = -((-x) \div 128) /\ (-x) \div 128 \in Nat
    BY <1>2, <1>4 DEF Quotient
  <2>2. (-x) \div 128 <= room
    BY <1>1, <1>2, <1>4
  <2> QED
    BY <1>1, <2>1, <2>2 DEF Byte
<1> QED
  BY <1>3, <1>4 DEF x, room

LEMMA ShareOf32 ==
  ASSUME NEW panning \in Byte, NEW side \in Int, -32 <= side, side < 32
  PROVE  panning + Quotient(side * Room(panning), 32) \in Byte
<1> DEFINE room == Room(panning)
           x == side * room
<1>1. /\ room \in Nat /\ panning \in Nat /\ panning <= 255 /\ panning - room >= 0
      /\ room # 0 => panning + room <= 256
  BY RoomType, ByteType
<1> HIDE DEF room
<1>2. /\ x \in Int
      /\ side >= 0 => 0 <= x /\ x <= 32 * room - room
      /\ side < 0 => x <= 0 /\ -x <= 32 * room
  BY <1>1, ProductBounds
<1> HIDE DEF x
<1>3. ASSUME side >= 0
      PROVE  panning + Quotient(x, 32) \in Byte
  <2>1. Quotient(x, 32) = x \div 32 /\ x \div 32 \in Nat
    BY <1>2, <1>3 DEF Quotient
  <2>2. x \in Int /\ 0 <= x /\ x <= 32 * room - room /\ room \in Nat
    BY <1>1, <1>2, <1>3
  <2>3. room = 0 => x \div 32 = 0
    BY <2>2
  <2>4. room # 0 => x \div 32 < room
    BY <2>2
  <2> QED
    BY <1>1, <2>1, <2>3, <2>4 DEF Byte
<1>4. ASSUME side < 0
      PROVE  panning + Quotient(x, 32) \in Byte
  <2>1. Quotient(x, 32) = -((-x) \div 32) /\ (-x) \div 32 \in Nat
    BY <1>2, <1>4 DEF Quotient
  <2>2. (-x) \div 32 <= room
    BY <1>1, <1>2, <1>4
  <2> QED
    BY <1>1, <2>1, <2>2 DEF Byte
<1> QED
  BY <1>3, <1>4 DEF x, room

LEMMA MixAlwaysFits ==
  ASSUME NEW v \in Volumes
  PROVE  MixFits(v)
<1>1. Attenuated(v, MAX_ENVELOPE_VALUE, MAX_FADEOUT_VOLUME - 1) <= 2147483647 \div MAX_VOLUME
  <2> DEFINE base == v.volume - v.volume_offset
             clamped == IF base < 0 THEN 0 ELSE IF base > MAX_VOLUME THEN MAX_VOLUME ELSE base
  <2>1. clamped \in 0 .. 64
    <3>1. v.volume \in Int /\ v.volume_offset \in Int /\ MAX_VOLUME = 64
      BY VolumeFields DEF MAX_VOLUME
    <3>2. base \in Int
      BY <3>1
    <3> HIDE DEF base
    <3> QED
      BY <3>1, <3>2
  <2>2. Attenuated(v, MAX_ENVELOPE_VALUE, MAX_FADEOUT_VOLUME - 1) = (clamped * 64 * 32767) \div 4
    BY DEF Attenuated, MAX_ENVELOPE_VALUE, MAX_FADEOUT_VOLUME
  <2> HIDE DEF clamped
  <2>3. (clamped * 64 * 32767) \div 4 <= 33553408
    BY <2>1
  <2>4. 2147483647 \div 64 = 33554431
    OBVIOUS
  <2> QED
    BY <2>1, <2>2, <2>3, <2>4 DEF MAX_VOLUME
<1>2. Based(v) \in Byte
  <2>1. v.panning \in Byte /\ v.base_panning \in Byte
    BY VolumeFields
  <2>2. /\ v.base_panning - 128 \in Int
        /\ -128 <= v.base_panning - 128 /\ v.base_panning - 128 < 128
    BY <2>1, ByteType
  <2>3. Based(v) = v.panning + Quotient((v.base_panning - 128) * Room(v.panning), 128)
    BY DEF Based, MAX_PANNING
  <2> QED
    BY <2>1, <2>2, <2>3, ShareOf128
<1>3. ASSUME NEW envelope \in 0 .. MAX_ENVELOPE_VALUE - 1
      PROVE  Panned(Based(v), envelope) \in Byte
  <2>1. /\ envelope - 32 \in Int /\ -32 <= envelope - 32 /\ envelope - 32 < 32
    BY DEF MAX_ENVELOPE_VALUE
  <2>2. Panned(Based(v), envelope) =
          Based(v) + Quotient((envelope - 32) * Room(Based(v)), 32)
    BY DEF Panned, MAX_ENVELOPE_VALUE
  <2> QED
    BY <1>2, <2>1, <2>2, ShareOf32
<1> QED
  BY <1>1, <1>2, <1>3 DEF MixFits

-----------------------------------------------------------------------------
(* Pitches.                                                                  *)

(* What a helper does that plays no arpeggio and no vibrato: it may reset   *)
(* the offset of a vibrato, and no more of what a row has to end.           *)
KeepsEnds(p, q) ==
  /\ q.arp_note_offset = p.arp_note_offset
  /\ q.should_reset_arpeggio = p.should_reset_arpeggio
  /\ q.should_reset_vibrato = p.should_reset_vibrato
  /\ q.vibrato_offset \in {0, p.vibrato_offset}
KeepsArpeggio(p, q) ==
  /\ q.arp_note_offset = p.arp_note_offset
  /\ q.should_reset_arpeggio = p.should_reset_arpeggio

LEMMA WordsType == Words \in Nat /\ Words = 65536
BY DEF Words

LEMMA WordType ==
  ASSUME NEW n \in Word
  PROVE  n \in Int /\ 0 <= n /\ n < Words
<1>1. Words \in Int
  BY WordsType
<1> QED
  BY <1>1 DEF Word

LEMMA WordBounds ==
  ASSUME NEW n \in Int, 0 <= n, n < Words
  PROVE  n \in Word
<1>1. Words \in Int
  BY WordsType
<1> QED
  BY <1>1 DEF Word

LEMMA Uint16Type ==
  ASSUME NEW n \in Int
  PROVE  Uint16(n) \in Word
<1>1. n % Words \in Int /\ 0 <= n % Words /\ n % Words < Words
  BY WordsType
<1> QED
  BY <1>1, WordBounds DEF Uint16

LEMMA Uint16Moves ==
  ASSUME NEW n \in Int
  PROVE  \E k \in Int : Uint16(n) = n - Words * k
<1>1. n % 65536 = n - 65536 * (n \div 65536) /\ n \div 65536 \in Int
  OBVIOUS
<1> QED
  BY <1>1, WordsType, SMT DEF Uint16

LEMMA Uint16Unique ==
  ASSUME NEW n \in Word, NEW x \in Int, \E k \in Int : x = n + Words * k
  PROVE  Uint16(x) = n
<1>1. PICK k \in Int : x = n + Words * k
  OBVIOUS
<1>2. n \in Int /\ 0 <= n /\ n < 65536
  BY WordType, WordsType, SMT
<1>3. x % 65536 = n
  BY <1>1, <1>2, WordsType, SMT
<1> QED
  BY <1>3, WordsType, SMT DEF Uint16

LEMMA Uint16Same ==
  ASSUME NEW n \in Word
  PROVE  Uint16(n) = n
<1>1. n \in Int /\ 0 <= n /\ n < 65536
  BY WordType, WordsType, SMT
<1>2. n % 65536 = n
  BY <1>1
<1> QED
  BY <1>2, WordsType, SMT DEF Uint16

LEMMA PitchFields ==
  ASSUME NEW mm, NEW p \in Pitches(mm)
  PROVE  /\ p.instrument \in 0 .. mm.num_instruments /\ p.sample \in 0 .. mm.num_samples
         /\ p.next_instrument \in Byte /\ p.orig_note \in 0 .. MAX_NOTE
         /\ p.finetune \in -16 .. 15 /\ p.period \in Word /\ p.glissando_control_param \in Byte
         /\ p.glissando_control_error \in -32 .. 31 /\ p.tone_portamento_target_period \in Word
         /\ p.tone_portamento_param \in Byte /\ p.portamento_up_param \in Byte
         /\ p.portamento_down_param \in Byte /\ p.fine_portamento_up_param \in Byte
         /\ p.fine_portamento_down_param \in Byte /\ p.extra_fine_portamento_up_param \in Byte
         /\ p.extra_fine_portamento_down_param \in Byte
         /\ p.vibrato_param \in Byte /\ p.vibrato_ticks \in Byte /\ p.vibrato_control_param \in Byte
         /\ p.vibrato_offset \in -120 .. 119 /\ p.should_reset_vibrato \in BOOLEAN
         /\ p.arp_note_offset \in 0 .. 15 /\ p.should_reset_arpeggio \in BOOLEAN
         /\ p.sample_offset_param \in Byte /\ p.sample_offset_invalid \in BOOLEAN
BY DEF Pitches

(* A field at a time, since the provers do not see through two of so many.  *)
LEMMA PitchWith ==
  ASSUME NEW mm, NEW p \in Pitches(mm)
  PROVE  /\ \A x \in Word : [p EXCEPT !.period = x] \in Pitches(mm)
         /\ \A x \in -32 .. 31 : [p EXCEPT !.glissando_control_error = x] \in Pitches(mm)
         /\ \A x \in -120 .. 119 : [p EXCEPT !.vibrato_offset = x] \in Pitches(mm)
         /\ \A x \in -16 .. 15 : [p EXCEPT !.finetune = x] \in Pitches(mm)
         /\ \A x \in 0 .. MAX_NOTE : [p EXCEPT !.orig_note = x] \in Pitches(mm)
         /\ \A x \in 0 .. 15 : [p EXCEPT !.arp_note_offset = x] \in Pitches(mm)
         /\ \A x \in 0 .. mm.num_instruments : [p EXCEPT !.instrument = x] \in Pitches(mm)
         /\ \A x \in 0 .. mm.num_samples : [p EXCEPT !.sample = x] \in Pitches(mm)
         /\ \A x \in Word : [p EXCEPT !.tone_portamento_target_period = x] \in Pitches(mm)
         /\ \A x \in Byte : [p EXCEPT !.next_instrument = x] \in Pitches(mm)
         /\ \A x \in Byte : [p EXCEPT !.glissando_control_param = x] \in Pitches(mm)
         /\ \A x \in Byte : [p EXCEPT !.tone_portamento_param = x] \in Pitches(mm)
         /\ \A x \in Byte : [p EXCEPT !.portamento_up_param = x] \in Pitches(mm)
         /\ \A x \in Byte : [p EXCEPT !.portamento_down_param = x] \in Pitches(mm)
         /\ \A x \in Byte : [p EXCEPT !.fine_portamento_up_param = x] \in Pitches(mm)
         /\ \A x \in Byte : [p EXCEPT !.fine_portamento_down_param = x] \in Pitches(mm)
         /\ \A x \in Byte : [p EXCEPT !.extra_fine_portamento_up_param = x] \in Pitches(mm)
         /\ \A x \in Byte : [p EXCEPT !.extra_fine_portamento_down_param = x] \in Pitches(mm)
         /\ \A x \in Byte : [p EXCEPT !.vibrato_param = x] \in Pitches(mm)
         /\ \A x \in Byte : [p EXCEPT !.vibrato_ticks = x] \in Pitches(mm)
         /\ \A x \in Byte : [p EXCEPT !.vibrato_control_param = x] \in Pitches(mm)
         /\ \A x \in Byte : [p EXCEPT !.sample_offset_param = x] \in Pitches(mm)
         /\ \A x \in BOOLEAN : [p EXCEPT !.sample_offset_invalid = x] \in Pitches(mm)
         /\ \A x \in BOOLEAN : [p EXCEPT !.should_reset_vibrato = x] \in Pitches(mm)
         /\ \A x \in BOOLEAN : [p EXCEPT !.should_reset_arpeggio = x] \in Pitches(mm)
<1>1. \A x \in Word : [p EXCEPT !.period = x] \in Pitches(mm)
  BY DEF Pitches
<1>2. \A x \in -32 .. 31 : [p EXCEPT !.glissando_control_error = x] \in Pitches(mm)
  BY DEF Pitches
<1>3. \A x \in -120 .. 119 : [p EXCEPT !.vibrato_offset = x] \in Pitches(mm)
  BY DEF Pitches
<1>4. \A x \in -16 .. 15 : [p EXCEPT !.finetune = x] \in Pitches(mm)
  BY DEF Pitches
<1>5. \A x \in 0 .. MAX_NOTE : [p EXCEPT !.orig_note = x] \in Pitches(mm)
  BY DEF Pitches
<1>6. \A x \in 0 .. 15 : [p EXCEPT !.arp_note_offset = x] \in Pitches(mm)
  BY DEF Pitches
<1>7. \A x \in 0 .. mm.num_instruments : [p EXCEPT !.instrument = x] \in Pitches(mm)
  BY DEF Pitches
<1>8. \A x \in 0 .. mm.num_samples : [p EXCEPT !.sample = x] \in Pitches(mm)
  BY DEF Pitches
<1>9. \A x \in Word : [p EXCEPT !.tone_portamento_target_period = x] \in Pitches(mm)
  BY DEF Pitches
<1>10. \A x \in Byte : [p EXCEPT !.next_instrument = x] \in Pitches(mm)
  BY DEF Pitches
<1>11. \A x \in Byte : [p EXCEPT !.glissando_control_param = x] \in Pitches(mm)
  BY DEF Pitches
<1>12. \A x \in Byte : [p EXCEPT !.tone_portamento_param = x] \in Pitches(mm)
  BY DEF Pitches
<1>13. \A x \in Byte : [p EXCEPT !.portamento_up_param = x] \in Pitches(mm)
  BY DEF Pitches
<1>14. \A x \in Byte : [p EXCEPT !.portamento_down_param = x] \in Pitches(mm)
  BY DEF Pitches
<1>15. \A x \in Byte : [p EXCEPT !.fine_portamento_up_param = x] \in Pitches(mm)
  BY DEF Pitches
<1>16. \A x \in Byte : [p EXCEPT !.fine_portamento_down_param = x] \in Pitches(mm)
  BY DEF Pitches
<1>17. \A x \in Byte : [p EXCEPT !.extra_fine_portamento_up_param = x] \in Pitches(mm)
  BY DEF Pitches
<1>18. \A x \in Byte : [p EXCEPT !.extra_fine_portamento_down_param = x] \in Pitches(mm)
  BY DEF Pitches
<1>19. \A x \in Byte : [p EXCEPT !.vibrato_param = x] \in Pitches(mm)
  BY DEF Pitches
<1>20. \A x \in Byte : [p EXCEPT !.vibrato_ticks = x] \in Pitches(mm)
  BY DEF Pitches
<1>21. \A x \in Byte : [p EXCEPT !.vibrato_control_param = x] \in Pitches(mm)
  BY DEF Pitches
<1>22. \A x \in Byte : [p EXCEPT !.sample_offset_param = x] \in Pitches(mm)
  BY DEF Pitches
<1>23. \A x \in BOOLEAN : [p EXCEPT !.sample_offset_invalid = x] \in Pitches(mm)
  BY DEF Pitches
<1>24. \A x \in BOOLEAN : [p EXCEPT !.should_reset_vibrato = x] \in Pitches(mm)
  BY DEF Pitches
<1>25. \A x \in BOOLEAN : [p EXCEPT !.should_reset_arpeggio = x] \in Pitches(mm)
  BY DEF Pitches
<1> QED
  BY <1>1, <1>2, <1>3, <1>4, <1>5, <1>6, <1>7, <1>8, <1>9, <1>10, <1>11,
     <1>12, <1>13, <1>14, <1>15, <1>16, <1>17, <1>18, <1>19, <1>20, <1>21,
     <1>22, <1>23, <1>24, <1>25

LEMMA TruePeriodType ==
  ASSUME NEW mm, NEW p \in Pitches(mm)
  PROVE  TruePeriod(p) \in Word
<1>1. p.period + p.glissando_control_error \in Int
  BY PitchFields, WordType
<1> QED
  BY <1>1, Uint16Type DEF TruePeriod

LEMMA UnroundedType ==
  ASSUME NEW mm, NEW p \in Pitches(mm)
  PROVE  LET u == Unrounded(p)
         IN  /\ u \in Pitches(mm) /\ KeepsEnds(p, u)
             /\ u.period = TruePeriod(p) /\ TruePeriod(u) = TruePeriod(p)
             /\ u.glissando_control_error = 0 /\ u.vibrato_offset = 0
             /\ u.finetune = p.finetune
<1> DEFINE u == Unrounded(p)
           true == TruePeriod(p)
<1>1. true \in Word /\ 0 \in -32 .. 31 /\ 0 \in -120 .. 119
  BY TruePeriodType
<1>2. u = [p EXCEPT !.period = true, !.glissando_control_error = 0, !.vibrato_offset = 0]
  BY DEF Unrounded
<1> HIDE DEF true
<1>3. /\ u.period = true /\ u.glissando_control_error = 0 /\ u.vibrato_offset = 0
      /\ u.finetune = p.finetune /\ KeepsEnds(p, u)
  BY <1>2 DEF Pitches, KeepsEnds
<1>4. u \in Pitches(mm)
  <2> DEFINE q == [[p EXCEPT !.period = true] EXCEPT !.glissando_control_error = 0]
  <2>1. u = [q EXCEPT !.vibrato_offset = 0]
    BY <1>2
  <2>2. [p EXCEPT !.period = true] \in Pitches(mm)
    BY <1>1, PitchWith
  <2>3. q \in Pitches(mm)
    BY <1>1, <2>2, PitchWith
  <2> HIDE DEF q, u
  <2>4. [q EXCEPT !.vibrato_offset = 0] \in Pitches(mm)
    BY <1>1, <2>3, PitchWith
  <2> QED
    BY <2>1, <2>4
<1>5. TruePeriod(u) = true
  <2>1. true + 0 = true
    BY <1>1, WordType
  <2> QED
    BY <1>1, <1>3, <2>1, Uint16Same DEF TruePeriod
<1> QED
  BY <1>3, <1>4, <1>5 DEF true

(* The error of a rounded period is at most half a semitone, and adding it  *)
(* gives back the period that was rounded.                                  *)
LEMMA RoundingOfAPeriod ==
  ASSUME NEW mm, NEW u \in Pitches(mm)
  PROVE  LET shifted == u.period + (4 * u.finetune) + 32
             period == Uint16(Uint16(shifted - (shifted % 64)) - (4 * u.finetune))
         IN  /\ period \in Word
             /\ Int8(u.period - period) \in -32 .. 31
             /\ Uint16(period + Int8(u.period - period)) = u.period
<1> DEFINE P == u.period
           f == u.finetune
           shifted == P + (4 * f) + 32
           rest == shifted % 64
           floor == shifted - rest
           down == Uint16(floor)
           tuned == down - (4 * f)
           period == Uint16(tuned)
<1>1. P \in Word /\ P \in Int /\ f \in Int /\ f \in -16 .. 15
  BY PitchFields, WordType
<1> HIDE DEF P, f
<1>2. shifted \in Int /\ shifted = P + (4 * f) + 32
  BY <1>1
<1> HIDE DEF shifted
<1>3. rest \in Int /\ 0 <= rest /\ rest < 64
  BY <1>2
<1> HIDE DEF rest
<1>4. floor \in Int /\ floor = shifted - rest
  BY <1>2, <1>3
<1> HIDE DEF floor
<1>5. PICK k \in Int : down = floor - Words * k
  BY <1>4, Uint16Moves
<1>6. down \in Int
  BY <1>4, Uint16Type, WordType
<1> HIDE DEF down
<1>7. tuned \in Int /\ tuned = down - (4 * f)
  BY <1>1, <1>6
<1> HIDE DEF tuned
<1>8. PICK j \in Int : period = tuned - Words * j
  BY <1>7, Uint16Moves
<1>9. period \in Word /\ period \in Int
  BY <1>7, Uint16Type, WordType
<1> HIDE DEF period
<1> DEFINE i == -(k + j)
           error == rest - 32
           sum == period + error
<1>10. i \in Int /\ error \in -32 .. 31 /\ error \in Int /\ sum \in Int
  BY <1>3, <1>9
<1>11. P - period = error - Words * i /\ sum = P + Words * i
  BY <1>1, <1>2, <1>3, <1>4, <1>5, <1>7, <1>8, <1>9, WordsType, SMT
<1> HIDE DEF i, error
<1>12. Int8(P - period) = error
  <2>1. (P - period + 128) % 256 = error + 128
    BY <1>1, <1>9, <1>10, <1>11, WordsType, SMT
  <2> QED
    BY <1>10, <2>1 DEF Int8
<1> HIDE DEF sum
<1>13. Uint16(sum) = P
  BY <1>1, <1>10, <1>11, Uint16Unique
<1>14. /\ period \in Word /\ Int8(P - period) \in -32 .. 31
       /\ Uint16(period + Int8(P - period)) = P
  BY <1>9, <1>10, <1>12, <1>13 DEF sum
<1> QED
  BY <1>14 DEF period, tuned, down, floor, rest, shifted, P, f

LEMMA RoundedType ==
  ASSUME NEW mm, NEW p \in Pitches(mm)
  PROVE  LET r == Rounded(p, mm)
         IN  /\ r \in Pitches(mm) /\ KeepsEnds(p, r) /\ r.vibrato_offset = 0
             /\ TruePeriod(r) = TruePeriod(p)
<1> DEFINE u == Unrounded(p)
           shifted == u.period + (4 * u.finetune) + 32
           period == Uint16(Uint16(shifted - (shifted % 64)) - (4 * u.finetune))
           error == Int8(u.period - period)
           r == Rounded(p, mm)
<1>1. /\ u \in Pitches(mm) /\ KeepsEnds(p, u) /\ u.vibrato_offset = 0
      /\ TruePeriod(u) = TruePeriod(p) /\ u.period = TruePeriod(p)
  BY UnroundedType
<1>2. r = IF mm.amiga_frequencies THEN u
          ELSE [u EXCEPT !.glissando_control_error = error, !.period = period]
  BY DEF Rounded
<1> HIDE DEF u
<1>4. period \in Word /\ error \in -32 .. 31 /\ Uint16(period + error) = u.period
  BY <1>1, RoundingOfAPeriod, ZenonT(40)
<1> HIDE DEF error, period, r
<1>5. CASE mm.amiga_frequencies
  BY <1>1, <1>2, <1>5 DEF KeepsEnds, r
<1>6. CASE ~mm.amiga_frequencies
  <2>1. r = [[u EXCEPT !.glissando_control_error = error] EXCEPT !.period = period]
    BY <1>2, <1>6
  <2>2. r \in Pitches(mm)
    BY <1>1, <1>4, <2>1, PitchWith
  <2>3. /\ r.period = period /\ r.glissando_control_error = error
        /\ r.vibrato_offset = u.vibrato_offset /\ KeepsEnds(u, r)
    BY <1>1, <2>1 DEF Pitches, KeepsEnds
  <2>4. TruePeriod(r) = u.period
    BY <1>4, <2>3 DEF TruePeriod
  <2> QED
    BY <1>1, <2>2, <2>3, <2>4 DEF KeepsEnds, r
<1> QED
  BY <1>5, <1>6

LEMMA ZeroFits ==
  /\ 0 \in -32 .. 31 /\ 0 \in -120 .. 119 /\ 0 \in 0 .. 15 /\ 0 \in Byte /\ 1 \in Byte
  /\ TRUE \in BOOLEAN /\ FALSE \in BOOLEAN
BY DEF Byte

LEMMA ModuleFields ==
  ASSUME NEW mm, IsModule(mm)
  PROVE  /\ mm.num_instruments \in Nat /\ mm.num_samples \in Nat
         /\ 0 \in 0 .. mm.num_instruments /\ 0 \in 0 .. mm.num_samples
<1>1. mm.num_instruments \in Byte /\ mm.num_samples \in Nat
  BY DEF IsModule
<1>2. mm.num_instruments \in Nat
  BY <1>1, ByteType
<1> QED
  BY <1>1, <1>2

LEMMA SlideTypes ==
  ASSUME NEW mm, IsModule(mm), NEW p \in Pitches(mm), NEW offset \in Int
  PROVE  /\ SlideWrapping(p, offset) \in Pitches(mm) /\ KeepsEnds(p, SlideWrapping(p, offset))
         /\ SlideClamped(p, offset) \in Pitches(mm) /\ KeepsEnds(p, SlideClamped(p, offset))
         /\ SlideCutting(p, offset) \in Pitches(mm) /\ KeepsEnds(p, SlideCutting(p, offset))
<1> DEFINE u == Unrounded(p)
           moved == Uint16(u.period + offset)
           slid == SlideWrapping(p, offset)
           bound == IF offset > 0 THEN 32767 ELSE 1
<1>1. u \in Pitches(mm) /\ KeepsEnds(p, u)
  BY UnroundedType
<1>2. slid = [u EXCEPT !.period = moved]
  BY DEF SlideWrapping
<1>3. moved \in Word
  <2>1. u.period + offset \in Int
    BY <1>1, PitchFields, WordType
  <2> HIDE DEF u
  <2> QED
    BY <2>1, Uint16Type
<1> HIDE DEF u, moved, slid
<1>4. slid \in Pitches(mm) /\ KeepsEnds(p, slid)
  <2>1. slid \in Pitches(mm)
    BY <1>1, <1>2, <1>3, PitchWith
  <2>2. KeepsEnds(u, slid)
    BY <1>1, <1>2 DEF Pitches, KeepsEnds
  <2> QED
    BY <1>1, <2>1, <2>2 DEF KeepsEnds
<1>5. bound \in Word
  <2>1. bound \in Int /\ 0 <= bound /\ bound < Words
    BY WordsType, SMT
  <2> HIDE DEF bound
  <2> QED
    BY <2>1, WordBounds
<1>6. SlideClamped(p, offset) \in Pitches(mm) /\ KeepsEnds(p, SlideClamped(p, offset))
  <2> DEFINE clamped == [slid EXCEPT !.period = bound]
  <2>1. SlideClamped(p, offset) = slid \/ SlideClamped(p, offset) = clamped
    BY DEF SlideClamped, slid
  <2> HIDE DEF bound
  <2>2. clamped \in Pitches(mm)
    BY <1>4, <1>5, PitchWith
  <2>3. KeepsEnds(slid, clamped)
    BY <1>4 DEF Pitches, KeepsEnds
  <2> HIDE DEF clamped
  <2> QED
    BY <1>4, <2>1, <2>2, <2>3 DEF KeepsEnds
<1>7. SlideCutting(p, offset) \in Pitches(mm) /\ KeepsEnds(p, SlideCutting(p, offset))
  <2> DEFINE cut == [slid EXCEPT !.sample = 0]
  <2>1. SlideCutting(p, offset) = slid \/ SlideCutting(p, offset) = cut
    BY DEF SlideCutting, slid, NULL
  <2>2. cut \in Pitches(mm)
    BY <1>4, ModuleFields, PitchWith
  <2>3. KeepsEnds(slid, cut)
    BY <1>4 DEF Pitches, KeepsEnds
  <2> HIDE DEF cut
  <2> QED
    BY <1>4, <2>1, <2>2, <2>3 DEF KeepsEnds
<1> QED
  BY <1>4, <1>6, <1>7 DEF slid

LEMMA TonePortamentoType ==
  ASSUME NEW mm, IsModule(mm), NEW p \in Pitches(mm)
  PROVE  TonePortamento(p, mm) \in Pitches(mm) /\ KeepsEnds(p, TonePortamento(p, mm))
<1> DEFINE incr == 4 * p.tone_portamento_param
           diff == p.tone_portamento_target_period - p.period
           step == IF diff > incr THEN incr ELSE IF diff < -incr THEN -incr ELSE diff
           slid == SlideWrapping(p, step)
           t == TonePortamento(p, mm)
<1>1. t = p \/ t = slid \/ t = Rounded(slid, mm)
  BY DEF TonePortamento
<1>2. incr \in Int /\ diff \in Int
  BY PitchFields, ByteType, WordType
<1> HIDE DEF incr, diff
<1>3. step \in Int
  BY <1>2
<1> HIDE DEF step
<1>4. slid \in Pitches(mm) /\ KeepsEnds(p, slid)
  BY <1>3, SlideTypes
<1> HIDE DEF slid
<1>5. Rounded(slid, mm) \in Pitches(mm) /\ KeepsEnds(slid, Rounded(slid, mm))
  BY <1>4, RoundedType
<1>6. KeepsEnds(p, Rounded(slid, mm))
  BY <1>4, <1>5, RoundedType DEF KeepsEnds
<1>7. KeepsEnds(p, p)
  BY DEF KeepsEnds
<1> HIDE DEF t
<1> QED
  BY <1>1, <1>4, <1>5, <1>6, <1>7 DEF t

LEMMA VibratoOffset ==
  ASSUME NEW x \in Int, -1920 <= x, x <= 1905
  PROVE  Int8(Quotient(x, 16)) \in -120 .. 119 /\ Int8(Quotient(x, 64)) \in -120 .. 119
<1>1. Quotient(x, 16) \in -120 .. 119 /\ Quotient(x, 64) \in -120 .. 119
  BY SMT DEF Quotient
<1>2. Quotient(x, 16) \in Int8s /\ Quotient(x, 64) \in Int8s
  BY <1>1 DEF Int8s
<1>3. Int8(Quotient(x, 16)) = Quotient(x, 16) /\ Int8(Quotient(x, 64)) = Quotient(x, 64)
  BY <1>2, Int8Fits
<1> QED
  BY <1>1, <1>3

LEMMA AdvancedType ==
  ASSUME NEW ticks \in Byte, NEW param \in Byte
  PROVE  Advanced(ticks, param) \in Byte
<1>1. High(param) \in 0 .. 15 /\ ticks \in Nat
  BY Nibbles, ByteType
<1> QED
  BY <1>1, ByteRemainder DEF Advanced

LEMMA VibratoType ==
  ASSUME NEW mm, NEW p \in Pitches(mm), NEW fine, NEW random \in Int8s
  PROVE  LET q == Vibrato(p, fine, random)
         IN  /\ q \in Pitches(mm) /\ KeepsArpeggio(p, q)
             /\ q.should_reset_vibrato = p.should_reset_vibrato
             /\ TruePeriod(q) = TruePeriod(p)
<1> DEFINE wave == Waveform(p.vibrato_control_param, p.vibrato_ticks, random)
           x == wave * Low(p.vibrato_param)
           offset == Int8(Quotient(x, IF fine THEN 64 ELSE 16))
           u == Unrounded(p)
           ticks == Advanced(u.vibrato_ticks, p.vibrato_param)
           q == Vibrato(p, fine, random)
<1>1. wave \in Int8s
  BY PitchFields, WaveformType
<1>2. Low(p.vibrato_param) \in 0 .. 15
  BY PitchFields, Nibbles
<1> HIDE DEF wave
<1>3. x \in Int /\ -1920 <= x /\ x <= 1905
  BY <1>1, <1>2, WaveTimesDepth DEF Int8s
<1>4. q = [u EXCEPT !.vibrato_offset = offset, !.vibrato_ticks = ticks]
  BY DEF Vibrato, wave
<1> HIDE DEF x
<1>5. offset \in -120 .. 119
  BY <1>3, VibratoOffset
<1>6. u \in Pitches(mm) /\ KeepsEnds(p, u) /\ TruePeriod(u) = TruePeriod(p)
  BY UnroundedType
<1> HIDE DEF u
<1>7. ticks \in Byte
  BY <1>6, PitchFields, AdvancedType
<1> HIDE DEF offset, ticks, q
<1>8. q \in Pitches(mm)
  BY <1>4, <1>5, <1>6, <1>7, PitchWith
<1>9. /\ q.arp_note_offset = u.arp_note_offset
      /\ q.should_reset_arpeggio = u.should_reset_arpeggio
      /\ q.should_reset_vibrato = u.should_reset_vibrato
      /\ q.period = u.period /\ q.glissando_control_error = u.glissando_control_error
  BY <1>4, <1>6 DEF Pitches
<1> QED
  BY <1>6, <1>8, <1>9 DEF KeepsEnds, KeepsArpeggio, TruePeriod, q

LEMMA ArpeggioType ==
  ASSUME NEW mm, NEW p \in Pitches(mm), NEW tick, NEW tempo, NEW param \in Byte
  PROVE  LET q == Arpeggio(p, mm, tick, tempo, param)
         IN  /\ q \in Pitches(mm)
             /\ q.should_reset_vibrato = p.should_reset_vibrato
             /\ q.vibrato_offset \in {0, p.vibrato_offset}
             /\ q.arp_note_offset # 0 => q.should_reset_arpeggio
             /\ TruePeriod(q) = TruePeriod(p)
<1> DEFINE on == [p EXCEPT !.should_reset_arpeggio = TRUE]
           rounded == Rounded(on, mm)
           q == Arpeggio(p, mm, tick, tempo, param)
           t == (tempo - tick) % 256
           x == IF t > 16 \/ t % 3 = 2 THEN Low(param) ELSE High(param)
<1>1. q = [p EXCEPT !.arp_note_offset = 0] \/ q = [rounded EXCEPT !.arp_note_offset = x]
  BY Zenon DEF Arpeggio
<1>2. x \in 0 .. 15
  BY Nibbles
<1> HIDE DEF x
<1>3. on \in Pitches(mm)
  BY PitchWith
<1>4. /\ on.period = p.period /\ on.glissando_control_error = p.glissando_control_error
      /\ on.should_reset_arpeggio = TRUE /\ on.should_reset_vibrato = p.should_reset_vibrato
      /\ on.vibrato_offset = p.vibrato_offset
  BY DEF Pitches
<1> HIDE DEF on
<1>5. /\ rounded \in Pitches(mm) /\ KeepsEnds(on, rounded)
      /\ TruePeriod(rounded) = TruePeriod(on)
  BY <1>3, RoundedType
<1> HIDE DEF rounded, q
<1>6. CASE q = [p EXCEPT !.arp_note_offset = 0]
  <2>1. q \in Pitches(mm)
    BY <1>6, ZeroFits, PitchWith
  <2>2. /\ q.arp_note_offset = 0 /\ q.should_reset_vibrato = p.should_reset_vibrato
        /\ q.vibrato_offset = p.vibrato_offset
        /\ q.period = p.period /\ q.glissando_control_error = p.glissando_control_error
    BY <1>6 DEF Pitches
  <2> QED
    BY <2>1, <2>2 DEF TruePeriod, q
<1>7. CASE q = [rounded EXCEPT !.arp_note_offset = x]
  <2>1. q \in Pitches(mm)
    BY <1>2, <1>5, <1>7, PitchWith
  <2>2. /\ q.should_reset_vibrato = rounded.should_reset_vibrato
        /\ q.should_reset_arpeggio = rounded.should_reset_arpeggio
        /\ q.vibrato_offset = rounded.vibrato_offset
        /\ q.period = rounded.period
        /\ q.glissando_control_error = rounded.glissando_control_error
    BY <1>5, <1>7 DEF Pitches
  <2> QED
    BY <1>4, <1>5, <2>1, <2>2 DEF KeepsEnds, TruePeriod, q
<1> QED
  BY <1>1, <1>6, <1>7

LEMMA EndsType ==
  ASSUME NEW mm, NEW p \in Pitches(mm), NEW has_vibrato \in BOOLEAN,
         p.arp_note_offset # 0 => p.should_reset_arpeggio
  PROVE  LET q == EndVibrato(EndArpeggio(p), has_vibrato)
         IN  /\ q \in Pitches(mm) /\ q.arp_note_offset = 0
             /\ q.should_reset_vibrato /\ q.vibrato_offset # 0 => has_vibrato
             /\ TruePeriod(q) = TruePeriod(p)
<1> DEFINE u == Unrounded(p)
           a == EndArpeggio(p)
           q == EndVibrato(a, has_vibrato)
<1>1. u \in Pitches(mm) /\ TruePeriod(u) = TruePeriod(p)
  BY UnroundedType
<1>2. a \in Pitches(mm) /\ a.arp_note_offset = 0 /\ TruePeriod(a) = TruePeriod(p)
  <2>1. CASE ~p.should_reset_arpeggio
    <3>1. a = p /\ p.arp_note_offset = 0
      BY <2>1 DEF EndArpeggio
    <3> HIDE DEF a
    <3> QED
      BY <3>1
  <2>2. CASE p.should_reset_arpeggio
    <3> HIDE DEF a, u
    <3>1. a = [u EXCEPT !.should_reset_arpeggio = FALSE, !.arp_note_offset = 0]
      BY <2>2 DEF EndArpeggio, a, u
    <3>2. a \in Pitches(mm)
      BY <1>1, <3>1, ZeroFits, PitchWith
    <3>3. /\ a.arp_note_offset = 0 /\ a.period = u.period
          /\ a.glissando_control_error = u.glissando_control_error
      BY <1>1, <3>1 DEF Pitches
    <3> QED
      BY <1>1, <3>2, <3>3 DEF TruePeriod
  <2> QED
    BY <2>1, <2>2
<1> HIDE DEF a
<1>3. q \in Pitches(mm) /\ q.arp_note_offset = 0 /\ TruePeriod(q) = TruePeriod(a)
      /\ (q.should_reset_vibrato /\ q.vibrato_offset # 0 => has_vibrato)
  <2>1. CASE a.should_reset_vibrato /\ ~has_vibrato
    <3> HIDE DEF q
    <3>1. q = [a EXCEPT !.vibrato_offset = 0]
      BY <2>1 DEF EndVibrato, q
    <3>2. q \in Pitches(mm)
      BY <1>2, <3>1, ZeroFits, PitchWith
    <3>3. /\ q.arp_note_offset = a.arp_note_offset /\ q.period = a.period
          /\ q.vibrato_offset = 0
          /\ q.glissando_control_error = a.glissando_control_error
      BY <1>2, <3>1 DEF Pitches
    <3> QED
      BY <1>2, <3>2, <3>3 DEF TruePeriod
  <2>2. CASE ~(a.should_reset_vibrato /\ ~has_vibrato)
    <3>1. q = a
      BY <2>2 DEF EndVibrato
    <3> HIDE DEF q
    <3> QED
      BY <1>2, <2>2, <3>1
  <2> QED
    BY <2>1, <2>2
<1> QED
  BY <1>2, <1>3 DEF a

(* The slides that keep their own parameter.                                *)
LEMMA MemorySlideTypes ==
  ASSUME NEW mm, IsModule(mm), NEW p \in Pitches(mm), NEW param \in Byte
  PROVE  /\ PortamentoUp(p, param) \in Pitches(mm) /\ KeepsEnds(p, PortamentoUp(p, param))
         /\ PortamentoDown(p, param) \in Pitches(mm) /\ KeepsEnds(p, PortamentoDown(p, param))
         /\ FinePortamentoUp(p, param) \in Pitches(mm)
         /\ KeepsEnds(p, FinePortamentoUp(p, param))
         /\ FinePortamentoDown(p, param) \in Pitches(mm)
         /\ KeepsEnds(p, FinePortamentoDown(p, param))
         /\ ExtraFinePortamentoUp(p, param) \in Pitches(mm)
         /\ KeepsEnds(p, ExtraFinePortamentoUp(p, param))
         /\ ExtraFinePortamentoDown(p, param) \in Pitches(mm)
         /\ KeepsEnds(p, ExtraFinePortamentoDown(p, param))
<1>0. (4 * param) % 256 \in Byte
  <2>1. 4 * param \in Int
    BY ByteType
  <2> QED
    BY <2>1, ByteRemainder
<1> DEFINE Slid(seen, q) ==
             \E offset \in Int : q \in {SlideWrapping(seen, offset), SlideClamped(seen, offset)}
<1>1. ASSUME NEW seen \in Pitches(mm), KeepsEnds(p, seen), NEW q, Slid(seen, q)
      PROVE  q \in Pitches(mm) /\ KeepsEnds(p, q)
  <2>1. PICK offset \in Int : q \in {SlideWrapping(seen, offset), SlideClamped(seen, offset)}
    BY <1>1
  <2>2. q \in Pitches(mm) /\ KeepsEnds(seen, q)
    BY <1>1, <2>1, SlideTypes
  <2> QED
    BY <1>1, <2>2 DEF KeepsEnds
<1>2. PortamentoUp(p, param) \in Pitches(mm) /\ KeepsEnds(p, PortamentoUp(p, param))
  <2> DEFINE x == Remember(p.portamento_up_param, param)
             seen == [p EXCEPT !.portamento_up_param = x]
             q == PortamentoUp(p, param)
  <2>1. x \in Byte
    BY PitchFields, RememberType
  <2>2. q = SlideClamped(seen, -4 * seen.portamento_up_param)
    BY DEF PortamentoUp
  <2> HIDE DEF x, q
  <2>3. seen \in Pitches(mm)
    BY <2>1, PitchWith
  <2>4. KeepsEnds(p, seen) /\ seen.portamento_up_param = x
    BY DEF Pitches, KeepsEnds
  <2> HIDE DEF seen
  <2>5. -4 * seen.portamento_up_param \in Int
    BY <2>1, <2>4, ByteType
  <2>6. Slid(seen, q)
    BY <2>2, <2>5
  <2> QED
    BY <1>1, <2>3, <2>4, <2>6 DEF q
<1>3. PortamentoDown(p, param) \in Pitches(mm) /\ KeepsEnds(p, PortamentoDown(p, param))
  <2> DEFINE x == Remember(p.portamento_down_param, param)
             seen == [p EXCEPT !.portamento_down_param = x]
             q == PortamentoDown(p, param)
  <2>1. x \in Byte
    BY PitchFields, RememberType
  <2>2. q = SlideWrapping(seen, 4 * seen.portamento_down_param)
    BY DEF PortamentoDown
  <2> HIDE DEF x, q
  <2>3. seen \in Pitches(mm)
    BY <2>1, PitchWith
  <2>4. KeepsEnds(p, seen) /\ seen.portamento_down_param = x
    BY DEF Pitches, KeepsEnds
  <2> HIDE DEF seen
  <2>5. 4 * seen.portamento_down_param \in Int
    BY <2>1, <2>4, ByteType
  <2>6. Slid(seen, q)
    BY <2>2, <2>5
  <2> QED
    BY <1>1, <2>3, <2>4, <2>6 DEF q
<1>4. FinePortamentoUp(p, param) \in Pitches(mm) /\ KeepsEnds(p, FinePortamentoUp(p, param))
  <2> DEFINE x == IF param # 0 THEN (4 * param) % 256 ELSE p.fine_portamento_up_param
             seen == [p EXCEPT !.fine_portamento_up_param = x]
             q == FinePortamentoUp(p, param)
  <2>1. x \in Byte
    BY <1>0, PitchFields
  <2>2. q = SlideClamped(seen, -seen.fine_portamento_up_param)
    BY DEF FinePortamentoUp
  <2> HIDE DEF x, q
  <2>3. seen \in Pitches(mm)
    BY <2>1, PitchWith
  <2>4. KeepsEnds(p, seen) /\ seen.fine_portamento_up_param = x
    BY DEF Pitches, KeepsEnds
  <2> HIDE DEF seen
  <2>5. -seen.fine_portamento_up_param \in Int
    BY <2>1, <2>4, ByteType
  <2>6. Slid(seen, q)
    BY <2>2, <2>5
  <2> QED
    BY <1>1, <2>3, <2>4, <2>6 DEF q
<1>5. /\ FinePortamentoDown(p, param) \in Pitches(mm)
      /\ KeepsEnds(p, FinePortamentoDown(p, param))
  <2> DEFINE x == IF param # 0 THEN (4 * param) % 256 ELSE p.fine_portamento_down_param
             seen == [p EXCEPT !.fine_portamento_down_param = x]
             q == FinePortamentoDown(p, param)
  <2>1. x \in Byte
    BY <1>0, PitchFields
  <2>2. q = SlideWrapping(seen, seen.fine_portamento_down_param)
    BY DEF FinePortamentoDown
  <2> HIDE DEF x, q
  <2>3. seen \in Pitches(mm)
    BY <2>1, PitchWith
  <2>4. KeepsEnds(p, seen) /\ seen.fine_portamento_down_param = x
    BY DEF Pitches, KeepsEnds
  <2> HIDE DEF seen
  <2>5. seen.fine_portamento_down_param \in Int
    BY <2>1, <2>4, ByteType
  <2>6. Slid(seen, q)
    BY <2>2, <2>5
  <2> QED
    BY <1>1, <2>3, <2>4, <2>6 DEF q
<1>6. /\ ExtraFinePortamentoUp(p, param) \in Pitches(mm)
      /\ KeepsEnds(p, ExtraFinePortamentoUp(p, param))
  <2> DEFINE x == IF Low(param) # 0 THEN param ELSE p.extra_fine_portamento_up_param
             seen == [p EXCEPT !.extra_fine_portamento_up_param = x]
             q == ExtraFinePortamentoUp(p, param)
  <2>1. x \in Byte
    BY PitchFields
  <2>2. q = SlideClamped(seen, -seen.extra_fine_portamento_up_param)
    BY DEF ExtraFinePortamentoUp
  <2> HIDE DEF x, q
  <2>3. seen \in Pitches(mm)
    BY <2>1, PitchWith
  <2>4. KeepsEnds(p, seen) /\ seen.extra_fine_portamento_up_param = x
    BY DEF Pitches, KeepsEnds
  <2> HIDE DEF seen
  <2>5. -seen.extra_fine_portamento_up_param \in Int
    BY <2>1, <2>4, ByteType
  <2>6. Slid(seen, q)
    BY <2>2, <2>5
  <2> QED
    BY <1>1, <2>3, <2>4, <2>6 DEF q
<1>7. /\ ExtraFinePortamentoDown(p, param) \in Pitches(mm)
      /\ KeepsEnds(p, ExtraFinePortamentoDown(p, param))
  <2> DEFINE x == Remember(p.extra_fine_portamento_down_param, param)
             seen == [p EXCEPT !.extra_fine_portamento_down_param = x]
             q == ExtraFinePortamentoDown(p, param)
  <2>1. x \in Byte
    BY PitchFields, RememberType
  <2>2. q = SlideWrapping(seen, seen.extra_fine_portamento_down_param)
    BY DEF ExtraFinePortamentoDown
  <2> HIDE DEF x, q
  <2>3. seen \in Pitches(mm)
    BY <2>1, PitchWith
  <2>4. KeepsEnds(p, seen) /\ seen.extra_fine_portamento_down_param = x
    BY DEF Pitches, KeepsEnds
  <2> HIDE DEF seen
  <2>5. seen.extra_fine_portamento_down_param \in Int
    BY <2>1, <2>4, ByteType
  <2>6. Slid(seen, q)
    BY <2>2, <2>5
  <2> QED
    BY <1>1, <2>3, <2>4, <2>6 DEF q
<1> QED
  BY <1>2, <1>3, <1>4, <1>5, <1>6, <1>7

LEMMA S3MFineSlideType ==
  ASSUME NEW memory \in Byte, S3MSlidesFine(memory)
  PROVE  S3MFineSlide(memory) \in Int /\ -S3MFineSlide(memory) \in Int
<1>1. Low(memory) \in Int /\ High(memory) \in {14, 15}
  BY Nibbles DEF S3MSlidesFine
<1>2. S3MFineSlide(memory) \in Int
  BY <1>1 DEF S3MFineSlide
<1> QED
  BY <1>2

LEMMA PitchAtFirstTickType ==
  ASSUME NEW mm, IsModule(mm), NEW p \in Pitches(mm), NEW s, IsLoadedSlot(s), NEW memory \in Byte
  PROVE  LET q == PitchAtFirstTick(p, s, memory)
         IN  /\ q \in Pitches(mm) /\ KeepsEnds(p, q)
             /\ ~Slides(s) => TruePeriod(q) = TruePeriod(p)
<1> DEFINE q == PitchAtFirstTick(p, s, memory)
<1>1. s.effect_param \in Byte
  BY DEF IsLoadedSlot, IsSlot
<1>2. KeepsEnds(p, p)
  BY DEF KeepsEnds
<1>3. CASE s.effect_type = "EXTRA_FINE_PORTAMENTO_UP"
  <2>1. q = ExtraFinePortamentoUp(p, s.effect_param) /\ Slides(s)
    BY <1>3 DEF PitchAtFirstTick, Slides
  <2> QED
    BY <1>1, <2>1, MemorySlideTypes
<1>4. CASE s.effect_type = "EXTRA_FINE_PORTAMENTO_DOWN"
  <2>1. q = ExtraFinePortamentoDown(p, s.effect_param) /\ Slides(s)
    BY <1>4 DEF PitchAtFirstTick, Slides
  <2> QED
    BY <1>1, <2>1, MemorySlideTypes
<1>5. CASE s.effect_type = "FINE_PORTAMENTO_UP"
  <2>1. q = FinePortamentoUp(p, s.effect_param) /\ Slides(s)
    BY <1>5 DEF PitchAtFirstTick, Slides
  <2> QED
    BY <1>1, <2>1, MemorySlideTypes
<1>6. CASE s.effect_type = "FINE_PORTAMENTO_DOWN"
  <2>1. q = FinePortamentoDown(p, s.effect_param) /\ Slides(s)
    BY <1>6 DEF PitchAtFirstTick, Slides
  <2> QED
    BY <1>1, <2>1, MemorySlideTypes
<1>7. CASE s.effect_type \in {"S3M_PORTAMENTO_UP", "S3M_PORTAMENTO_DOWN"}
  <2>1. Slides(s)
    BY <1>7 DEF Slides
  <2>2. CASE S3MSlidesFine(memory)
    <3>1. \/ q = SlideCutting(p, -S3MFineSlide(memory))
          \/ q = SlideCutting(p, S3MFineSlide(memory))
      BY <1>7, <2>2 DEF PitchAtFirstTick
    <3> QED
      BY <2>1, <2>2, <3>1, S3MFineSlideType, SlideTypes
  <2>3. CASE ~S3MSlidesFine(memory)
    <3>1. q = p
      BY <1>7, <2>3 DEF PitchAtFirstTick
    <3> QED
      BY <1>2, <3>1
  <2> QED
    BY <2>2, <2>3
<1>8. CASE s.effect_type = "SET_GLISSANDO_CONTROL"
  <2>1. q = [p EXCEPT !.glissando_control_param = s.effect_param]
    BY <1>8 DEF PitchAtFirstTick
  <2> HIDE DEF q
  <2>2. q \in Pitches(mm)
    BY <1>1, <2>1, PitchWith
  <2>3. KeepsEnds(p, q) /\ TruePeriod(q) = TruePeriod(p)
    BY <2>1 DEF Pitches, KeepsEnds, TruePeriod
  <2> QED
    BY <2>2, <2>3 DEF q
<1>9. CASE s.effect_type = "SET_VIBRATO_CONTROL"
  <2>1. q = [p EXCEPT !.vibrato_control_param = s.effect_param]
    BY <1>9 DEF PitchAtFirstTick
  <2> HIDE DEF q
  <2>2. q \in Pitches(mm)
    BY <1>1, <2>1, PitchWith
  <2>3. KeepsEnds(p, q) /\ TruePeriod(q) = TruePeriod(p)
    BY <2>1 DEF Pitches, KeepsEnds, TruePeriod
  <2> QED
    BY <2>2, <2>3 DEF q
<1>10. CASE s.effect_type \notin {"EXTRA_FINE_PORTAMENTO_UP", "EXTRA_FINE_PORTAMENTO_DOWN",
         "FINE_PORTAMENTO_UP", "FINE_PORTAMENTO_DOWN", "S3M_PORTAMENTO_UP",
         "S3M_PORTAMENTO_DOWN", "SET_GLISSANDO_CONTROL", "SET_VIBRATO_CONTROL"}
  <2>1. q = p
    BY <1>10 DEF PitchAtFirstTick
  <2> QED
    BY <1>2, <2>1
<1> QED
  BY <1>3, <1>4, <1>5, <1>6, <1>7, <1>8, <1>9, <1>10

(* An arpeggio that is heard is one the next row ends, and only a slot that *)
(* plays one has its arpeggio or its vibrato heard.                         *)
WillEnd(p) == p.arp_note_offset # 0 => p.should_reset_arpeggio
EndsInTime(p, s) ==
  /\ p.arp_note_offset # 0 => HasArpeggio(s)
  /\ p.should_reset_vibrato /\ p.vibrato_offset # 0 => HasVibrato(s)
StillEnds(p, q, s) == (WillEnd(p) => WillEnd(q)) /\ (EndsInTime(p, s) => EndsInTime(q, s))

LEMMA KeepingEnds ==
  ASSUME NEW p, NEW q, NEW s, KeepsEnds(p, q)
  PROVE  StillEnds(p, q, s)
BY DEF KeepsEnds, StillEnds, WillEnd, EndsInTime

LEMMA VibratosType ==
  ASSUME NEW mm, NEW p \in Pitches(mm), NEW s, IsLoadedSlot(s), NEW random \in Int8s
  PROVE  /\ ColumnVibrato(p, s, random) \in Pitches(mm)
         /\ HasVibrato(s) => StillEnds(p, ColumnVibrato(p, s, random), s)
         /\ TruePeriod(ColumnVibrato(p, s, random)) = TruePeriod(p)
         /\ EffectVibrato(p, s, random) \in Pitches(mm)
         /\ HasVibrato(s) => StillEnds(p, EffectVibrato(p, s, random), s)
         /\ TruePeriod(EffectVibrato(p, s, random)) = TruePeriod(p)
<1>1. /\ ColumnVibrato(p, s, random) \in Pitches(mm)
      /\ HasVibrato(s) => StillEnds(p, ColumnVibrato(p, s, random), s)
      /\ TruePeriod(ColumnVibrato(p, s, random)) = TruePeriod(p)
  <2> DEFINE x == UpdateXY(p.vibrato_param, Low(s.volume_column))
             u == [p EXCEPT !.vibrato_param = x, !.should_reset_vibrato = FALSE]
             q == Vibrato(u, IsFine(s), random)
  <2>1. x \in Byte
    <3>1. Low(s.volume_column) \in Byte
      BY Nibbles DEF IsLoadedSlot, IsSlot
    <3> QED
      BY <3>1, PitchFields, UpdateXYType
  <2>2. q = ColumnVibrato(p, s, random)
    BY DEF ColumnVibrato
  <2> HIDE DEF x
  <2>3. u \in Pitches(mm)
    BY <2>1, ZeroFits, PitchWith
  <2>4. KeepsArpeggio(p, u) /\ TruePeriod(u) = TruePeriod(p)
    BY DEF Pitches, KeepsArpeggio, TruePeriod
  <2> HIDE DEF u
  <2>5. q \in Pitches(mm) /\ KeepsArpeggio(u, q) /\ TruePeriod(q) = TruePeriod(u)
    BY <2>3, VibratoType, Zenon
  <2> HIDE DEF q
  <2>6. HasVibrato(s) => StillEnds(p, q, s)
    BY <2>4, <2>5 DEF KeepsArpeggio, StillEnds, WillEnd, EndsInTime
  <2> QED
    BY <2>2, <2>4, <2>5, <2>6
<1>2. /\ EffectVibrato(p, s, random) \in Pitches(mm)
      /\ HasVibrato(s) => StillEnds(p, EffectVibrato(p, s, random), s)
      /\ TruePeriod(EffectVibrato(p, s, random)) = TruePeriod(p)
  <2> DEFINE u == [p EXCEPT !.should_reset_vibrato = TRUE]
             q == Vibrato(u, IsFine(s), random)
  <2>1. q = EffectVibrato(p, s, random)
    BY DEF EffectVibrato
  <2>2. u \in Pitches(mm)
    BY ZeroFits, PitchWith
  <2>3. KeepsArpeggio(p, u) /\ TruePeriod(u) = TruePeriod(p)
    BY DEF Pitches, KeepsArpeggio, TruePeriod
  <2> HIDE DEF u
  <2>4. q \in Pitches(mm) /\ KeepsArpeggio(u, q) /\ TruePeriod(q) = TruePeriod(u)
    BY <2>2, VibratoType, Zenon
  <2> HIDE DEF q
  <2>5. HasVibrato(s) => StillEnds(p, q, s)
    BY <2>3, <2>4 DEF KeepsArpeggio, StillEnds, WillEnd, EndsInTime
  <2> QED
    BY <2>1, <2>3, <2>4, <2>5
<1> QED
  BY <1>1, <1>2

LEMMA PitchColumnOfTickType ==
  ASSUME NEW mm, IsModule(mm), NEW p \in Pitches(mm), NEW s, IsLoadedSlot(s),
         NEW random \in Int8s
  PROVE  LET q == PitchColumnOfTick(p, mm, s, random)
         IN  /\ q \in Pitches(mm) /\ StillEnds(p, q, s)
             /\ ~HasTonePortamento(s) => TruePeriod(q) = TruePeriod(p)
<1> DEFINE q == PitchColumnOfTick(p, mm, s, random)
<1>1. CASE High(s.volume_column) = 11
  <2>1. q = ColumnVibrato(p, s, random) /\ HasVibrato(s)
    BY <1>1 DEF PitchColumnOfTick, HasVibrato
  <2> DEFINE r == ColumnVibrato(p, s, random)
  <2>2. /\ r \in Pitches(mm) /\ TruePeriod(r) = TruePeriod(p)
        /\ HasVibrato(s) => StillEnds(p, r, s)
    BY VibratosType
  <2> QED
    BY <2>1, <2>2
<1>2. CASE High(s.volume_column) = 15
  <2>1. q = TonePortamento(p, mm) /\ HasTonePortamento(s)
    BY <1>2 DEF PitchColumnOfTick, HasTonePortamento
  <2> QED
    BY <2>1, TonePortamentoType, KeepingEnds
<1>3. CASE High(s.volume_column) \notin {11, 15}
  <2>1. q = p
    BY <1>3 DEF PitchColumnOfTick
  <2> QED
    BY <2>1 DEF StillEnds
<1> QED
  BY <1>1, <1>2, <1>3

LEMMA PitchOfTickType ==
  ASSUME NEW mm, IsModule(mm), NEW p \in Pitches(mm), NEW s, IsLoadedSlot(s),
         NEW memory \in Byte, NEW tick, NEW tempo, NEW random \in Int8s
  PROVE  LET q == PitchOfTick(p, mm, s, memory, tick, tempo, random)
         IN  /\ q \in Pitches(mm) /\ StillEnds(p, q, s)
             /\ ~Slides(s) /\ ~HasTonePortamento(s) => TruePeriod(q) = TruePeriod(p)
<1> DEFINE q == PitchOfTick(p, mm, s, memory, tick, tempo, random)
           Good == /\ q \in Pitches(mm) /\ StillEnds(p, q, s)
                   /\ ~Slides(s) /\ ~HasTonePortamento(s) => TruePeriod(q) = TruePeriod(p)
<1>1. s.effect_param \in Byte
  BY DEF IsLoadedSlot, IsSlot
<1>2. StillEnds(p, p, s)
  BY DEF StillEnds
<1>3. ASSUME NEW param \in Byte, HasArpeggio(s),
             q = Arpeggio(p, mm, tick, tempo, param)
      PROVE  Good
  <2>1. /\ q \in Pitches(mm) /\ TruePeriod(q) = TruePeriod(p)
        /\ q.should_reset_vibrato = p.should_reset_vibrato
        /\ q.vibrato_offset \in {0, p.vibrato_offset}
        /\ q.arp_note_offset # 0 => q.should_reset_arpeggio
    BY <1>3, ArpeggioType
  <2>2. StillEnds(p, q, s)
    BY <1>3, <2>1 DEF StillEnds, WillEnd, EndsInTime
  <2> QED
    BY <2>1, <2>2
<1>4. ASSUME NEW u \in Pitches(mm), KeepsEnds(p, u), TruePeriod(u) = TruePeriod(p),
             HasVibrato(s), q = EffectVibrato(u, s, random)
      PROVE  Good
  <2> DEFINE r == EffectVibrato(u, s, random)
  <2>1. r \in Pitches(mm) /\ StillEnds(u, r, s) /\ TruePeriod(r) = TruePeriod(u)
    BY <1>4, VibratosType
  <2>2. StillEnds(p, u, s)
    BY <1>4, KeepingEnds
  <2> QED
    BY <1>4, <2>1, <2>2 DEF StillEnds
<1>5. ASSUME HasTonePortamento(s), q = TonePortamento(p, mm)
      PROVE  Good
  BY <1>5, TonePortamentoType, KeepingEnds
<1>6. ASSUME NEW offset \in Int, Slides(s), q = SlideCutting(p, offset)
      PROVE  Good
  BY <1>6, SlideTypes, KeepingEnds
<1>7. ASSUME q = p
      PROVE  Good
  BY <1>2, <1>7
<1>8. CASE s.effect_type = "ARPEGGIO"
  <2>1. q = p \/ (HasArpeggio(s) /\ q = Arpeggio(p, mm, tick, tempo, s.effect_param))
    BY <1>8 DEF PitchOfTick, HasArpeggio
  <2> QED
    BY <1>1, <1>3, <1>7, <2>1
<1>9. CASE s.effect_type = "S3M_ARPEGGIO"
  <2>1. HasArpeggio(s) /\ q = Arpeggio(p, mm, tick, tempo, memory)
    BY <1>9 DEF PitchOfTick, HasArpeggio
  <2> QED
    BY <1>3, <2>1
<1>10. CASE s.effect_type \in {"PORTAMENTO_UP", "PORTAMENTO_DOWN"}
  <2>1. q = PortamentoUp(p, s.effect_param) \/ q = PortamentoDown(p, s.effect_param)
    BY <1>10 DEF PitchOfTick
  <2>2. Slides(s)
    BY <1>10 DEF Slides
  <2> QED
    BY <1>1, <2>1, <2>2, MemorySlideTypes, KeepingEnds
<1>11. CASE s.effect_type \in {"S3M_PORTAMENTO_UP", "S3M_PORTAMENTO_DOWN"}
  <2>1. q = p \/ q = SlideCutting(p, -4 * memory) \/ q = SlideCutting(p, 4 * memory)
    BY <1>11 DEF PitchOfTick
  <2>2. Slides(s) /\ -4 * memory \in Int /\ 4 * memory \in Int
    BY <1>11, ByteType DEF Slides
  <2> QED
    BY <1>6, <1>7, <2>1, <2>2
<1>12. CASE s.effect_type \in {"TONE_PORTAMENTO", "TONE_PORTAMENTO_VOLUME_SLIDE"}
  <2>1. q = TonePortamento(p, mm) /\ HasTonePortamento(s)
    BY <1>12 DEF PitchOfTick, HasTonePortamento
  <2> QED
    BY <1>5, <2>1
<1>13. CASE s.effect_type \in {"VIBRATO", "FINE_VIBRATO"}
  <2> DEFINE x == UpdateXY(p.vibrato_param, s.effect_param)
             u == [p EXCEPT !.vibrato_param = x]
  <2>1. x \in Byte
    BY <1>1, PitchFields, UpdateXYType
  <2>2. q = EffectVibrato(u, s, random) /\ HasVibrato(s)
    BY <1>13 DEF PitchOfTick, HasVibrato
  <2> HIDE DEF x
  <2>3. u \in Pitches(mm)
    BY <2>1, PitchWith
  <2>4. KeepsEnds(p, u) /\ TruePeriod(u) = TruePeriod(p)
    BY DEF Pitches, KeepsEnds, TruePeriod
  <2> HIDE DEF u
  <2> QED
    BY <1>4, <2>2, <2>3, <2>4
<1>14. CASE s.effect_type \in {"VIBRATO_VOLUME_SLIDE", "S3M_VIBRATO_VOLUME_SLIDE"}
  <2>1. (q = p \/ q = EffectVibrato(p, s, random)) /\ HasVibrato(s)
    BY <1>14 DEF PitchOfTick, HasVibrato
  <2>2. KeepsEnds(p, p)
    BY DEF KeepsEnds
  <2> QED
    BY <1>4, <1>7, <2>1, <2>2
<1>15. CASE s.effect_type = "S3M_TONE_PORTAMENTO_VOLUME_SLIDE"
  <2>1. (q = p \/ q = TonePortamento(p, mm)) /\ HasTonePortamento(s)
    BY <1>15 DEF PitchOfTick, HasTonePortamento
  <2> QED
    BY <1>5, <1>7, <2>1
<1>16. CASE s.effect_type \notin {"ARPEGGIO", "S3M_ARPEGGIO", "PORTAMENTO_UP",
         "PORTAMENTO_DOWN", "S3M_PORTAMENTO_UP", "S3M_PORTAMENTO_DOWN", "TONE_PORTAMENTO",
         "TONE_PORTAMENTO_VOLUME_SLIDE", "VIBRATO", "FINE_VIBRATO", "VIBRATO_VOLUME_SLIDE",
         "S3M_VIBRATO_VOLUME_SLIDE", "S3M_TONE_PORTAMENTO_VOLUME_SLIDE"}
  <2>1. q = p
    BY <1>16 DEF PitchOfTick
  <2> QED
    BY <1>7, <2>1
<1> HIDE DEF q
<1> QED
  BY <1>8, <1>9, <1>10, <1>11, <1>12, <1>13, <1>14, <1>15, <1>16

-----------------------------------------------------------------------------
(* Notes.                                                                    *)

LEMMA PeriodType ==
  ASSUME NEW mm, IsModule(mm), NEW note \in Int, IsNote(note), NEW finetune \in -16 .. 15
  PROVE  Period(mm, note, finetune) \in Word
<1>1. (16 * (note - 1)) + finetune \in Tunings
  BY DEF IsNote, Tunings
<1>2. \A n \in Tunings : mm.periods[n] \in Word \ {0}
  BY DEF IsModule
<1> QED
  BY <1>1, <1>2 DEF Period

LEMMA SampleFields ==
  ASSUME NEW mm, IsModule(mm), NEW i \in 1 .. mm.num_samples
  PROVE  LET smp == mm.samples[i]
         IN  /\ smp.volume \in 0 .. MAX_VOLUME /\ smp.panning \in Byte
             /\ smp.finetune \in -16 .. 15 /\ smp.relative_note \in Int /\ smp.length \in Nat
<1>1. IsSample(mm.samples[i])
  BY DEF IsModule
<1> QED
  BY <1>1 DEF IsSample

LEMMA TonePortamentoTargetType ==
  ASSUME NEW mm, IsModule(mm), NEW p \in Pitches(mm), NEW note \in Nat
  PROVE  LET q == TonePortamentoTarget(p, mm, note)
         IN  q \in Pitches(mm) /\ KeepsEnds(p, q) /\ TruePeriod(q) = TruePeriod(p)
<1> DEFINE target == note + mm.samples[p.sample].relative_note
           x == Period(mm, target, p.finetune)
           q == TonePortamentoTarget(p, mm, note)
<1>1. CASE p.sample = NULL \/ ~IsNote(target)
  <2>1. q = p
    BY <1>1 DEF TonePortamentoTarget
  <2> QED
    BY <2>1 DEF KeepsEnds
<1>2. CASE p.sample # NULL /\ IsNote(target)
  <2>1. q = [p EXCEPT !.tone_portamento_target_period = x]
    BY <1>2 DEF TonePortamentoTarget
  <2>2. target \in Int
    <3>1. p.sample \in 1 .. mm.num_samples
      BY <1>2, ModuleFields, PitchFields DEF NULL
    <3> QED
      BY <3>1, SampleFields
  <2> HIDE DEF target
  <2>3. x \in Word
    BY <1>2, <2>2, PitchFields, PeriodType
  <2> HIDE DEF x, q
  <2>4. q \in Pitches(mm)
    BY <2>1, <2>3, PitchWith
  <2>5. KeepsEnds(p, q) /\ TruePeriod(q) = TruePeriod(p)
    BY <2>1 DEF Pitches, KeepsEnds, TruePeriod
  <2> QED
    BY <2>4, <2>5 DEF q
<1> QED
  BY <1>1, <1>2

LEMMA RestartVibratoType ==
  ASSUME NEW mm, NEW p \in Pitches(mm)
  PROVE  LET q == RestartVibrato(p)
         IN  q \in Pitches(mm) /\ KeepsEnds(p, q) /\ TruePeriod(q) = TruePeriod(p)
<1> DEFINE x == IF p.vibrato_control_param >= 128 THEN p.vibrato_ticks ELSE 0
           q == RestartVibrato(p)
<1>1. x \in Byte
  BY PitchFields, ZeroFits
<1>2. q = [p EXCEPT !.vibrato_ticks = x]
  BY DEF RestartVibrato
<1> HIDE DEF x, q
<1>3. q \in Pitches(mm)
  BY <1>1, <1>2, PitchWith
<1>4. KeepsEnds(p, q) /\ TruePeriod(q) = TruePeriod(p)
  BY <1>2 DEF Pitches, KeepsEnds, TruePeriod
<1> QED
  BY <1>3, <1>4 DEF q

LEMMA SampleOfNoteType ==
  ASSUME NEW mm, IsModule(mm), NEW p \in Pitches(mm), NEW stray \in Nat, HasSample(p, mm, stray)
  PROVE  /\ SampleOfNote(p, mm, stray) + 1 \in 1 .. mm.num_samples
         /\ p.next_instrument \in 0 .. mm.num_instruments
         /\ NoteOf(p, mm, stray) \in Int
<1> DEFINE i == SampleOfNote(p, mm, stray)
<1>1. /\ p.next_instrument \in 1 .. mm.num_instruments /\ i < mm.num_samples
      /\ p.orig_note \in 0 .. MAX_NOTE
  BY PitchFields DEF HasSample, HasInstrument
<1>2. i \in Nat
  <2>1. CASE p.orig_note = 0
    BY <2>1 DEF SampleOfNote
  <2>2. CASE p.orig_note # 0
    <3>1. p.orig_note \in 1 .. MAX_NOTE
      BY <1>1, <2>2 DEF MAX_NOTE
    <3>2. IsInstrument(mm.instruments[p.next_instrument])
      BY <1>1 DEF IsModule
    <3> QED
      BY <2>2, <3>1, <3>2 DEF IsInstrument, SampleOfNote
  <2> QED
    BY <2>1, <2>2
<1> HIDE DEF i
<1>3. i + 1 \in 1 .. mm.num_samples
  BY <1>1, <1>2, ModuleFields
<1>4. mm.samples[i + 1].relative_note \in Int
  BY <1>3, SampleFields
<1>5. p.orig_note + mm.samples[i + 1].relative_note \in Int
  BY <1>1, <1>4 DEF MAX_NOTE
<1> QED
  BY <1>1, <1>3, <1>5, ModuleFields DEF i, NoteOf

LEMMA StruckType ==
  ASSUME NEW mm, IsModule(mm), NEW p \in Pitches(mm), p.sample # NULL,
         NEW s, IsLoadedSlot(s), NEW note \in Int, IsNote(note)
  PROVE  Struck(p, mm, s, note) \in Pitches(mm) /\ KeepsEnds(p, Struck(p, mm, s, note))
<1> DEFINE finetune == IF s.effect_type = "SET_FINETUNE" THEN (2 * s.effect_param) - 16
                       ELSE mm.samples[p.sample].finetune
           period == Period(mm, note, finetune)
           offset == OffsetParam(p, s)
           invalid == StartsPastEnd(p, mm, s)
           q == Struck(p, mm, s, note)
<1>1. q = [p EXCEPT !.finetune = finetune, !.period = period, !.sample_offset_param = offset,
                    !.sample_offset_invalid = invalid, !.glissando_control_error = 0,
                    !.vibrato_offset = 0]
  BY DEF Struck
<1>2. finetune \in -16 .. 15
  <2>1. CASE s.effect_type = "SET_FINETUNE"
    <3>1. s.effect_param \in Byte /\ s.effect_param < 16
      BY <2>1 DEF IsLoadedSlot, IsSlot, IsFixedEffect
    <3>2. (2 * s.effect_param) - 16 \in -16 .. 15
      BY <3>1 DEF Byte
    <3> QED
      BY <2>1, <3>2
  <2>2. CASE s.effect_type # "SET_FINETUNE"
    <3>1. p.sample \in 1 .. mm.num_samples
      BY ModuleFields, PitchFields DEF NULL
    <3> QED
      BY <2>2, <3>1, SampleFields
  <2> QED
    BY <2>1, <2>2
<1> HIDE DEF finetune
<1>3. period \in Word
  BY <1>2, PeriodType
<1>4. offset \in Byte
  <2>1. s.effect_param \in Byte
    BY DEF IsLoadedSlot, IsSlot
  <2> QED
    BY <2>1, PitchFields, RememberType DEF OffsetParam
<1>5. invalid \in BOOLEAN
  BY Zenon DEF StartsPastEnd
<1> HIDE DEF period, offset, invalid, q
<1>6. q \in Pitches(mm)
  BY <1>1, <1>2, <1>3, <1>4, <1>5, ZeroFits, PitchWith
<1>7. KeepsEnds(p, q)
  BY <1>1 DEF Pitches, KeepsEnds
<1> QED
  BY <1>6, <1>7 DEF q

LEMMA TriggerPitchType ==
  ASSUME NEW mm, IsModule(mm), NEW p \in Pitches(mm), NEW s, IsLoadedSlot(s), NEW stray \in Nat
  PROVE  /\ TriggerPitch(p, mm, s, stray) \in Pitches(mm)
         /\ KeepsEnds(p, TriggerPitch(p, mm, s, stray))
<1> DEFINE i == SampleOfNote(p, mm, stray) + 1
           q == TriggerPitch(p, mm, s, stray)
           held == WithInstrument(p)
           played == WithSample(p, mm, stray)
<1>1. CASE ~HasSample(p, mm, stray)
  <2>1. q = [p EXCEPT !.instrument = 0, !.sample = 0]
    BY <1>1 DEF TriggerPitch, IsCut, IsIgnored, IsSwitch, NULL
  <2> HIDE DEF q
  <2>2. q \in Pitches(mm)
    BY <2>1, ModuleFields, PitchWith
  <2>3. KeepsEnds(p, q)
    BY <2>1 DEF Pitches, KeepsEnds
  <2> QED
    BY <2>2, <2>3 DEF q
<1>2. CASE HasSample(p, mm, stray)
  <2>1. i \in 1 .. mm.num_samples /\ p.next_instrument \in 0 .. mm.num_instruments
        /\ NoteOf(p, mm, stray) \in Int
    BY <1>2, SampleOfNoteType
  <2>2. held \in Pitches(mm) /\ KeepsEnds(p, held)
    <3>1. held = [p EXCEPT !.instrument = p.next_instrument]
      BY DEF WithInstrument
    <3> HIDE DEF held
    <3>2. held \in Pitches(mm)
      BY <2>1, <3>1, PitchWith
    <3> QED
      BY <3>1, <3>2 DEF Pitches, KeepsEnds
  <2>3. played \in Pitches(mm) /\ KeepsEnds(p, played) /\ played.sample # NULL
    <3>1. played = [held EXCEPT !.sample = i]
      BY DEF WithSample
    <3>2. i \in 0 .. mm.num_samples /\ i # NULL
      BY <2>1, ModuleFields DEF NULL
    <3> HIDE DEF i, held, played
    <3>3. played \in Pitches(mm)
      BY <2>2, <3>1, <3>2, PitchWith
    <3>4. KeepsEnds(held, played) /\ played.sample = i
      BY <2>2, <3>1 DEF Pitches, KeepsEnds
    <3> QED
      BY <2>2, <3>2, <3>3, <3>4 DEF KeepsEnds
  <2>4. CASE ~IsNote(NoteOf(p, mm, stray))
    <3>1. q = held
      BY <1>2, <2>4 DEF TriggerPitch, IsCut, IsIgnored, IsSwitch
    <3> QED
      BY <2>2, <3>1
  <2>5. CASE IsNote(NoteOf(p, mm, stray))
    <3>1. q = played \/ q = Struck(played, mm, s, NoteOf(p, mm, stray))
      BY <1>2, <2>5 DEF TriggerPitch, IsCut, IsIgnored, IsSwitch
    <3> HIDE DEF held, played, q
    <3>2. /\ Struck(played, mm, s, NoteOf(p, mm, stray)) \in Pitches(mm)
          /\ KeepsEnds(played, Struck(played, mm, s, NoteOf(p, mm, stray)))
      BY <2>1, <2>3, <2>5, StruckType
    <3>3. KeepsEnds(p, Struck(played, mm, s, NoteOf(p, mm, stray)))
      BY <2>3, <3>2 DEF KeepsEnds
    <3> QED
      BY <2>3, <3>1, <3>2, <3>3 DEF q
  <2> QED
    BY <2>4, <2>5
<1> QED
  BY <1>1, <1>2

-----------------------------------------------------------------------------
(* The channel.                                                              *)

Channels ==
  [vol : Volumes, pitch : Pitches(m), current : m.slots \cup {NoSlot},
   effect_param : Byte, handled : Nat]

IsChance(chance) == chance.random \in Int8s /\ chance.stray \in Nat

(* What all parts of handling a slot keep.                                  *)
Steps(c, d) ==
  /\ d \in Channels /\ d.current = c.current /\ d.handled = c.handled
  /\ KeepsEnds(c.pitch, d.pitch)
  /\ d.vol.tremor_on = c.vol.tremor_on /\ d.vol.tremor_ticks \in {0, c.vol.tremor_ticks}

(* And most of them.                                                        *)
KeepsPart(c, d) == KeepsTremor(c.vol, d.vol)
KeepsPeriod(c, d) == TruePeriod(d.pitch) = TruePeriod(c.pitch)

LEMMA StepsOn ==
  ASSUME NEW c, NEW d, NEW e, Steps(c, d), Steps(d, e)
  PROVE  /\ Steps(c, e)
         /\ KeepsPart(c, d) /\ KeepsPart(d, e) => KeepsPart(c, e)
         /\ KeepsPeriod(c, d) /\ KeepsPeriod(d, e) => KeepsPeriod(c, e)
BY DEF Steps, KeepsEnds, KeepsPart, KeepsTremor, KeepsPeriod

LEMMA StepsStill ==
  ASSUME NEW c \in Channels
  PROVE  Steps(c, c) /\ KeepsPart(c, c) /\ KeepsPeriod(c, c)
BY DEF Steps, KeepsEnds, KeepsPart, KeepsTremor, KeepsPeriod

LEMMA ChannelFields ==
  ASSUME NEW c \in Channels
  PROVE  /\ c.vol \in Volumes /\ c.pitch \in Pitches(m) /\ c.effect_param \in Byte
         /\ c.handled \in Nat /\ c.current \in m.slots \cup {NoSlot}
BY DEF Channels

LEMMA CurrentIsLoaded ==
  ASSUME IsModule(m), NEW c \in Channels
  PROVE  IsLoadedSlot(c.current)
<1>1. \A s \in m.slots : IsLoadedSlot(s)
  BY DEF IsModule
<1>2. IsLoadedSlot(NoSlot)
  BY DEF NoSlot, IsLoadedSlot, IsSlot, IsFixedEffect, NOTE_SWITCH, MAX_NOTE, Byte, MAX_VOLUME
<1> QED
  BY <1>1, <1>2, ChannelFields

(* A change of the volumes, or of the pitch, or of both.                    *)
LEMMA VolumeSteps ==
  ASSUME NEW c \in Channels, NEW v \in Volumes, KeepsTremor(c.vol, v)
  PROVE  LET d == [c EXCEPT !.vol = v]
         IN  /\ Steps(c, d) /\ KeepsPart(c, d) /\ KeepsPeriod(c, d)
             /\ d.vol = v /\ d.pitch = c.pitch /\ d.effect_param = c.effect_param
BY DEF Channels, Steps, KeepsEnds, KeepsPart, KeepsTremor, KeepsPeriod

LEMMA PitchSteps ==
  ASSUME NEW c \in Channels, NEW p \in Pitches(m), KeepsEnds(c.pitch, p)
  PROVE  LET d == [c EXCEPT !.pitch = p]
         IN  /\ Steps(c, d) /\ KeepsPart(c, d)
             /\ TruePeriod(p) = TruePeriod(c.pitch) => KeepsPeriod(c, d)
             /\ d.vol = c.vol /\ d.pitch = p /\ d.effect_param = c.effect_param
BY DEF Channels, Steps, KeepsEnds, KeepsPart, KeepsTremor, KeepsPeriod

LEMMA TriggerNoteSteps ==
  ASSUME IsModule(m), NEW c \in Channels, NEW chance, IsChance(chance)
  PROVE  Steps(c, TriggerNote(c, chance)) /\ KeepsPart(c, TriggerNote(c, chance))
<1> DEFINE p == TriggerPitch(c.pitch, m, c.current, chance.stray)
           v == IF IsCut(c.pitch, m, chance.stray) THEN CutNote(c.vol) ELSE c.vol
           d == TriggerNote(c, chance)
<1>1. d = [c EXCEPT !.pitch = p, !.vol = v]
  BY DEF TriggerNote
<1>2. p \in Pitches(m) /\ KeepsEnds(c.pitch, p)
  BY ChannelFields, CurrentIsLoaded, TriggerPitchType DEF IsChance
<1>3. v \in Volumes /\ KeepsTremor(c.vol, v)
  <2>1. CutNote(c.vol) \in Volumes /\ KeepsTremor(c.vol, CutNote(c.vol))
    BY ChannelFields, CutNoteType
  <2>2. KeepsTremor(c.vol, c.vol)
    BY DEF KeepsTremor
  <2> QED
    BY <2>1, <2>2, ChannelFields
<1> HIDE DEF p, v, d
<1> QED
  BY <1>1, <1>2, <1>3 DEF Channels, Steps, KeepsPart, KeepsTremor, d

LEMMA TriggerInstrumentSteps ==
  ASSUME IsModule(m), NEW c \in Channels
  PROVE  Steps(c, TriggerInstrument(c)) /\ KeepsPeriod(c, TriggerInstrument(c))
<1> DEFINE p == RestartVibrato(c.pitch)
           v == TriggerVolume(c.vol)
           d == TriggerInstrument(c)
<1>1. d = [c EXCEPT !.pitch = p, !.vol = v]
  BY DEF TriggerInstrument
<1>2. p \in Pitches(m) /\ KeepsEnds(c.pitch, p) /\ TruePeriod(p) = TruePeriod(c.pitch)
  BY ChannelFields, RestartVibratoType
<1>3. v \in Volumes /\ v.tremor_on = c.vol.tremor_on /\ v.tremor_ticks = 0
  BY ChannelFields, TriggerVolumeType
<1> HIDE DEF p, v, d
<1> QED
  BY <1>1, <1>2, <1>3 DEF Channels, Steps, KeepsPeriod, d

LEMMA KeyOffSteps ==
  ASSUME NEW c \in Channels
  PROVE  Steps(c, KeyOff(c)) /\ KeepsPart(c, KeyOff(c)) /\ KeepsPeriod(c, KeyOff(c))
<1>1. CutNote(c.vol) \in Volumes /\ KeepsTremor(c.vol, CutNote(c.vol))
  BY ChannelFields, CutNoteType
<1>2. KeyOff(c) = c \/ KeyOff(c) = [c EXCEPT !.vol = CutNote(c.vol)]
  BY DEF KeyOff
<1> QED
  BY <1>1, <1>2, StepsStill, VolumeSteps

LEMMA MultiRetrigNoteSteps ==
  ASSUME IsModule(m), NEW c \in Channels, NEW tick, NEW param \in Byte,
         NEW chance, IsChance(chance)
  PROVE  LET d == MultiRetrigNote(c, tick, param, chance) IN Steps(c, d) /\ KeepsPart(c, d)
<1> DEFINE ticks == (c.vol.multi_retrig_ticks + 1) % 256
           later == [c.vol EXCEPT !.multi_retrig_ticks = ticks]
           sooner == [c.vol EXCEPT !.multi_retrig_ticks = 0]
           waiting == [c EXCEPT !.vol = later]
           reset == [c EXCEPT !.vol = sooner]
           again == TriggerNote(reset, chance)
           volume == RetrigVolume(again.vol.volume, High(param))
           louder == [again.vol EXCEPT !.volume = volume]
           last == [again EXCEPT !.vol = louder]
           d == MultiRetrigNote(c, tick, param, chance)
<1>1. d \in {c, waiting, again, last}
  BY DEF MultiRetrigNote, Channels
<1>2. /\ later \in Volumes /\ KeepsTremor(c.vol, later)
      /\ sooner \in Volumes /\ KeepsTremor(c.vol, sooner)
  <2>1. ticks \in Byte
    <3>1. c.vol.multi_retrig_ticks + 1 \in Int
      BY ChannelFields, VolumeFields, ByteType
    <3> QED
      BY <3>1, ByteRemainder
  <2> HIDE DEF ticks
  <2> QED
    BY <2>1, ChannelFields, ZeroFits DEF Volumes, KeepsTremor
<1> HIDE DEF later, sooner
<1>3. Steps(c, waiting) /\ KeepsPart(c, waiting) /\ Steps(c, reset) /\ KeepsPart(c, reset)
  BY <1>2, VolumeSteps
<1> HIDE DEF reset, waiting
<1>4. Steps(reset, again) /\ KeepsPart(reset, again)
  BY <1>3, TriggerNoteSteps DEF Steps
<1>5. again \in Channels
  BY <1>4 DEF Steps
<1> HIDE DEF again
<1>6. louder \in Volumes /\ KeepsTremor(again.vol, louder)
  <2>1. volume \in 0 .. MAX_VOLUME
    BY <1>5, ChannelFields, VolumeFields, Nibbles, RetrigVolumeType
  <2> HIDE DEF volume
  <2> QED
    BY <1>5, <2>1, ChannelFields DEF Volumes, KeepsTremor
<1> HIDE DEF louder
<1>7. Steps(again, last) /\ KeepsPart(again, last)
  BY <1>5, <1>6, VolumeSteps
<1>8. Steps(c, c) /\ KeepsPart(c, c)
  BY StepsStill
<1> HIDE DEF last, d
<1>9. Steps(c, again) /\ KeepsPart(c, again)
  BY <1>3, <1>4, StepsOn
<1>10. Steps(c, last) /\ KeepsPart(c, last)
  BY <1>7, <1>9, StepsOn
<1> QED
  BY <1>1, <1>3, <1>8, <1>9, <1>10 DEF d

-----------------------------------------------------------------------------
(* Handling a slot.                                                          *)

LEMMA SeeInstrumentSteps ==
  ASSUME IsModule(m), NEW c \in Channels
  PROVE  LET d == SeeInstrument(c) IN Steps(c, d) /\ KeepsPart(c, d) /\ KeepsPeriod(c, d)
<1> DEFINE p == [c.pitch EXCEPT !.next_instrument = c.current.instrument]
<1>1. SeeInstrument(c) = c \/ SeeInstrument(c) = [c EXCEPT !.pitch = p]
  BY DEF SeeInstrument
<1>2. c.pitch \in Pitches(m) /\ c.current.instrument \in Byte
  BY ChannelFields, CurrentIsLoaded DEF IsLoadedSlot, IsSlot
<1>3. p \in Pitches(m)
  BY <1>2, PitchWith
<1>4. KeepsEnds(c.pitch, p) /\ TruePeriod(p) = TruePeriod(c.pitch)
  BY <1>2 DEF Pitches, KeepsEnds, TruePeriod
<1> HIDE DEF p
<1> QED
  BY <1>1, <1>3, <1>4, StepsStill, PitchSteps

LEMMA SeeNoteSteps ==
  ASSUME IsModule(m), NEW c \in Channels, NEW chance, IsChance(chance)
  PROVE  LET d == SeeNote(c, chance)
         IN  /\ Steps(c, d) /\ KeepsPart(c, d)
             /\ ~Triggers(c.current) /\ ~HasTonePortamento(c.current) => KeepsPeriod(c, d)
<1> DEFINE s == c.current
           d == SeeNote(c, chance)
<1>1. IsLoadedSlot(s) /\ s.note \in Nat
  <2>1. IsLoadedSlot(s)
    BY CurrentIsLoaded
  <2> HIDE DEF s
  <2> QED
    BY <2>1 DEF IsLoadedSlot, IsSlot, NOTE_SWITCH, NOTE_KEY_OFF, MAX_NOTE
<1> HIDE DEF s
<1>2. CASE IsKeyOff(s)
  <2>1. d = KeyOff(c)
    BY <1>1, <1>2 DEF SeeNote, IsKeyOff, MAX_NOTE, s
  <2> QED
    BY <2>1, KeyOffSteps
<1>3. CASE s.note = 0
  <2>1. d = c
    BY <1>1, <1>3 DEF SeeNote, IsKeyOff, MAX_NOTE, s
  <2> QED
    BY <2>1, StepsStill
<1>4. CASE ~IsKeyOff(s) /\ s.note # 0 /\ s.note \in 1 .. MAX_NOTE /\ HasTonePortamento(s)
  <2> DEFINE p == TonePortamentoTarget(c.pitch, m, s.note)
  <2>1. d = [c EXCEPT !.pitch = p]
    BY <1>4 DEF SeeNote, s
  <2>2. p \in Pitches(m) /\ KeepsEnds(c.pitch, p) /\ TruePeriod(p) = TruePeriod(c.pitch)
    BY <1>1, ChannelFields, TonePortamentoTargetType
  <2> HIDE DEF p
  <2> QED
    BY <2>1, <2>2, PitchSteps
<1>5. CASE ~IsKeyOff(s) /\ s.note # 0 /\ s.note \in 1 .. MAX_NOTE /\ ~HasTonePortamento(s)
  <2> DEFINE p == [c.pitch EXCEPT !.orig_note = s.note]
             u == [c EXCEPT !.pitch = p]
  <2>1. d = TriggerNote(u, chance)
    BY <1>5 DEF SeeNote, s
  <2>2. p \in Pitches(m)
    <3>1. s.note \in 0 .. MAX_NOTE
      BY <1>5 DEF MAX_NOTE
    <3> QED
      BY <3>1, ChannelFields, PitchWith
  <2>3. KeepsEnds(c.pitch, p)
    BY ChannelFields DEF Pitches, KeepsEnds
  <2> HIDE DEF p
  <2>4. Steps(c, u) /\ KeepsPart(c, u)
    BY <2>2, <2>3, PitchSteps
  <2> HIDE DEF u
  <2>5. Steps(u, d) /\ KeepsPart(u, d)
    BY <2>1, <2>4, TriggerNoteSteps DEF Steps
  <2>6. Triggers(s)
    BY <1>5 DEF Triggers
  <2> HIDE DEF d
  <2> QED
    BY <2>4, <2>5, <2>6, StepsOn DEF d, s
<1>6. CASE ~IsKeyOff(s) /\ s.note # 0 /\ s.note \notin 1 .. MAX_NOTE
  <2>1. d = TriggerNote(c, chance)
    BY <1>6 DEF SeeNote, s
  <2>2. Triggers(s) \/ HasTonePortamento(s)
    BY <1>6 DEF Triggers
  <2> QED
    BY <2>1, <2>2, TriggerNoteSteps DEF s
<1> QED
  BY <1>2, <1>3, <1>4, <1>5, <1>6

LEMMA UseInstrumentSteps ==
  ASSUME IsModule(m), NEW c \in Channels
  PROVE  LET d == UseInstrument(c)
         IN  /\ Steps(c, d) /\ KeepsPeriod(c, d)
             /\ c.current.instrument = 0 => KeepsPart(c, d)
<1> DEFINE smp == m.samples[c.pitch.sample]
           v == [c.vol EXCEPT !.volume = smp.volume, !.panning = smp.panning]
           reset == IF c.pitch.sample = NULL THEN c ELSE [c EXCEPT !.vol = v]
           d == UseInstrument(c)
<1>1. /\ c.current.instrument = 0 => d = c
      /\ d = c \/ d = reset \/ d = TriggerInstrument(reset)
  BY DEF UseInstrument, Channels
<1>2. Steps(c, c) /\ KeepsPart(c, c) /\ KeepsPeriod(c, c)
  BY StepsStill
<1>3. Steps(c, reset) /\ KeepsPeriod(c, reset)
  <2>1. CASE c.pitch.sample = NULL
    BY <1>2, <2>1
  <2>2. CASE c.pitch.sample # NULL
    <3>1. c.pitch.sample \in 1 .. m.num_samples
      BY <2>2, ChannelFields, PitchFields, ModuleFields DEF NULL
    <3>2. smp.volume \in 0 .. MAX_VOLUME /\ smp.panning \in Byte
      BY <3>1, SampleFields
    <3> HIDE DEF smp
    <3>3. v \in Volumes /\ KeepsTremor(c.vol, v)
      <4>1. c.vol \in Volumes
        BY ChannelFields
      <4> DEFINE u == [c.vol EXCEPT !.volume = smp.volume]
      <4>2. u \in Volumes
        BY <3>2, <4>1, VolumeWith
      <4>3. v = [u EXCEPT !.panning = smp.panning]
        OBVIOUS
      <4>4. [u EXCEPT !.panning = smp.panning] \in Volumes
        BY <3>2, <4>2, VolumeWith
      <4>5. v \in Volumes
        BY <4>3, <4>4, Zenon
      <4>6. KeepsTremor(c.vol, v)
        BY <4>1 DEF Volumes, KeepsTremor
      <4> QED
        BY <4>5, <4>6
    <3> HIDE DEF v
    <3> QED
      BY <2>2, <3>3, VolumeSteps
  <2> QED
    BY <2>1, <2>2
<1> HIDE DEF reset, d
<1>4. Steps(c, TriggerInstrument(reset)) /\ KeepsPeriod(c, TriggerInstrument(reset))
  <2>1. reset \in Channels
    BY <1>3 DEF Steps
  <2>2. /\ Steps(reset, TriggerInstrument(reset))
        /\ KeepsPeriod(reset, TriggerInstrument(reset))
    BY <2>1, TriggerInstrumentSteps
  <2> QED
    BY <1>3, <2>2, StepsOn
<1> QED
  BY <1>1, <1>2, <1>3, <1>4 DEF d

LEMMA ColumnAlwaysSteps ==
  ASSUME IsModule(m), NEW c \in Channels
  PROVE  LET d == ColumnAlways(c) IN Steps(c, d) /\ KeepsPart(c, d) /\ KeepsPeriod(c, d)
<1> DEFINE column == c.current.volume_column
           d == ColumnAlways(c)
<1>1. column \in Byte
  BY CurrentIsLoaded DEF IsLoadedSlot, IsSlot
<1> HIDE DEF column
<1>2. CASE SetsVolume(c.current)
  <2> DEFINE v == SetVolume(c.vol, column - 16)
  <2>1. d = [c EXCEPT !.vol = v]
    BY <1>2 DEF ColumnAlways, SetsVolume, column, High
  <2>2. column - 16 \in 0 .. MAX_VOLUME
    BY <1>2 DEF SetsVolume, MAX_VOLUME, column
  <2>3. v \in Volumes /\ KeepsTremor(c.vol, v)
    BY <2>2, ChannelFields, SetVolumeType
  <2> HIDE DEF v
  <2> QED
    BY <2>1, <2>3, VolumeSteps
<1>3. CASE ~SetsVolume(c.current) /\ High(column) = 12
  <2> DEFINE v == [c.vol EXCEPT !.panning = 16 * Low(column)]
  <2>1. d = [c EXCEPT !.vol = v]
    BY <1>3 DEF ColumnAlways, column
  <2>2. 16 * Low(column) \in Byte
    BY <1>1, Nibbles
  <2>3. v \in Volumes /\ KeepsTremor(c.vol, v)
    BY <2>2, ChannelFields DEF Volumes, KeepsTremor
  <2> HIDE DEF v
  <2> QED
    BY <2>1, <2>3, VolumeSteps
<1>4. CASE ~SetsVolume(c.current) /\ High(column) = 15
  <2> DEFINE x == Remember(c.pitch.tone_portamento_param, 16 * Low(column))
             p == [c.pitch EXCEPT !.tone_portamento_param = x]
  <2>1. d = [c EXCEPT !.pitch = p]
    BY <1>4 DEF ColumnAlways, column
  <2>2. c.pitch \in Pitches(m) /\ x \in Byte
    BY <1>1, ChannelFields, PitchFields, Nibbles, RememberType
  <2> HIDE DEF x
  <2>3. p \in Pitches(m)
    BY <2>2, PitchWith
  <2>4. KeepsEnds(c.pitch, p) /\ TruePeriod(p) = TruePeriod(c.pitch)
    BY <2>2 DEF Pitches, KeepsEnds, TruePeriod
  <2> HIDE DEF p
  <2> QED
    BY <2>1, <2>3, <2>4, PitchSteps
<1>5. CASE ~SetsVolume(c.current) /\ High(column) \notin {12, 15}
  <2>1. d = c
    BY <1>5 DEF ColumnAlways, column
  <2> QED
    BY <2>1, StepsStill
<1> QED
  BY <1>2, <1>3, <1>4, <1>5

LEMMA RememberParamsSteps ==
  ASSUME IsModule(m), NEW c \in Channels
  PROVE  LET d == RememberParams(c) IN Steps(c, d) /\ KeepsPart(c, d) /\ KeepsPeriod(c, d)
<1> DEFINE s == c.current
           x == Remember(c.pitch.tone_portamento_param, s.effect_param)
           p == [c.pitch EXCEPT !.tone_portamento_param = x]
           ported == IF s.effect_type = "TONE_PORTAMENTO" /\ High(s.volume_column) # 15
                     THEN [c EXCEPT !.pitch = p] ELSE c
           y == Remember(ported.effect_param, s.effect_param)
           d == RememberParams(c)
<1>1. s.effect_param \in Byte
  BY CurrentIsLoaded DEF IsLoadedSlot, IsSlot
<1>2. d = [ported EXCEPT !.effect_param = y]
  BY DEF RememberParams
<1>3. Steps(c, ported) /\ KeepsPart(c, ported) /\ KeepsPeriod(c, ported)
  <2>1. c.pitch \in Pitches(m) /\ x \in Byte
    BY <1>1, ChannelFields, PitchFields, RememberType
  <2> HIDE DEF x
  <2>2. p \in Pitches(m)
    BY <2>1, PitchWith
  <2>3. KeepsEnds(c.pitch, p) /\ TruePeriod(p) = TruePeriod(c.pitch)
    BY <2>1 DEF Pitches, KeepsEnds, TruePeriod
  <2> HIDE DEF p
  <2> QED
    BY <2>2, <2>3, PitchSteps, StepsStill
<1> HIDE DEF ported
<1>4. y \in Byte
  BY <1>1, <1>3, ChannelFields, RememberType DEF Steps
<1> HIDE DEF y, d
<1>5. Steps(ported, d) /\ KeepsPart(ported, d) /\ KeepsPeriod(ported, d)
  BY <1>2, <1>3, <1>4 DEF Channels, Steps, KeepsEnds, KeepsPart, KeepsTremor, KeepsPeriod
<1> QED
  BY <1>3, <1>5, StepsOn DEF d

LEMMA ColumnFirstTickSteps ==
  ASSUME IsModule(m), NEW c \in Channels
  PROVE  LET d == ColumnFirstTick(c) IN Steps(c, d) /\ KeepsPart(c, d) /\ KeepsPeriod(c, d)
<1> DEFINE column == c.current.volume_column
           d == ColumnFirstTick(c)
<1>1. Low(column) \in Byte /\ 16 * Low(column) \in Byte
  BY CurrentIsLoaded, Nibbles DEF IsLoadedSlot, IsSlot
<1> HIDE DEF column
<1>2. ASSUME NEW rawval \in Byte, d = [c EXCEPT !.vol = SlideVolume(c.vol, rawval)]
      PROVE  Steps(c, d) /\ KeepsPart(c, d) /\ KeepsPeriod(c, d)
  BY <1>2, ChannelFields, SlideVolumeType, VolumeSteps
<1>3. CASE High(column) = 8
  <2>1. d = [c EXCEPT !.vol = SlideVolume(c.vol, Low(column))]
    BY <1>3 DEF ColumnFirstTick, column
  <2> QED
    BY <1>1, <1>2, <2>1
<1>4. CASE High(column) = 9
  <2>1. d = [c EXCEPT !.vol = SlideVolume(c.vol, 16 * Low(column))]
    BY <1>4 DEF ColumnFirstTick, column
  <2> QED
    BY <1>1, <1>2, <2>1
<1>5. CASE High(column) = 10
  <2> DEFINE x == UpdateXY(c.pitch.vibrato_param, 16 * Low(column))
             p == [c.pitch EXCEPT !.vibrato_param = x]
  <2>1. d = [c EXCEPT !.pitch = p]
    BY <1>5 DEF ColumnFirstTick, column
  <2>2. c.pitch \in Pitches(m) /\ x \in Byte
    BY <1>1, ChannelFields, PitchFields, UpdateXYType
  <2> HIDE DEF x
  <2>3. p \in Pitches(m)
    BY <2>2, PitchWith
  <2>4. KeepsEnds(c.pitch, p) /\ TruePeriod(p) = TruePeriod(c.pitch)
    BY <2>2 DEF Pitches, KeepsEnds, TruePeriod
  <2> HIDE DEF p
  <2> QED
    BY <2>1, <2>3, <2>4, PitchSteps
<1>6. CASE High(column) \notin {8, 9, 10}
  <2>1. d = c
    BY <1>6 DEF ColumnFirstTick, column
  <2> QED
    BY <2>1, StepsStill
<1> QED
  BY <1>3, <1>4, <1>5, <1>6

(* A tremor of S3M is the one effect of a slot that is part of a tremor.    *)
LEMMA SlotEffectSteps ==
  ASSUME IsModule(m), NEW c \in Channels, NEW tick, NEW chance, IsChance(chance)
  PROVE  LET d == SlotEffect(c, tick, chance)
         IN  /\ d \in Channels /\ d.current = c.current /\ d.handled = c.handled
             /\ KeepsEnds(c.pitch, d.pitch)
             /\ IF c.current.effect_type = "S3M_TREMOR"
                THEN d.vol = Tremor(c.vol, c.effect_param) /\ d.effect_param = c.effect_param
                ELSE KeepsPart(c, d)
             /\ ~Triggers(c.current) /\ ~Slides(c.current) => KeepsPeriod(c, d)
<1> DEFINE s == c.current
           d == SlotEffect(c, tick, chance)
<1>1. IsLoadedSlot(s) /\ s.effect_param \in Byte
  BY CurrentIsLoaded DEF IsLoadedSlot, IsSlot
<1> HIDE DEF s
<1>2. CASE s.effect_type = "MULTI_RETRIG_NOTE"
  <2> DEFINE param == UpdateXY(c.vol.multi_retrig_param, s.effect_param)
             v == [c.vol EXCEPT !.multi_retrig_param = param]
             u == [c EXCEPT !.vol = v]
  <2>1. d = MultiRetrigNote(u, tick, param, chance)
    BY <1>2 DEF SlotEffect, s
  <2>2. param \in Byte
    BY <1>1, ChannelFields, VolumeFields, UpdateXYType
  <2> HIDE DEF param
  <2>3. v \in Volumes /\ KeepsTremor(c.vol, v)
    BY <2>2, ChannelFields DEF Volumes, KeepsTremor
  <2> HIDE DEF v
  <2>4. Steps(c, u) /\ KeepsPart(c, u)
    BY <2>3, VolumeSteps
  <2> HIDE DEF u
  <2>5. Steps(u, d) /\ KeepsPart(u, d)
    BY <2>1, <2>2, <2>4, MultiRetrigNoteSteps DEF Steps
  <2>6. Triggers(s)
    BY <1>2 DEF Triggers
  <2> HIDE DEF d
  <2>7. Steps(c, d) /\ KeepsPart(c, d)
    BY <2>4, <2>5, StepsOn
  <2> QED
    BY <1>2, <2>6, <2>7 DEF Steps, d, s
<1>3. CASE s.effect_type = "S3M_MULTI_RETRIG_NOTE"
  <2>1. d = MultiRetrigNote(c, tick, c.effect_param, chance)
    BY <1>3 DEF SlotEffect, s
  <2>2. Steps(c, d) /\ KeepsPart(c, d)
    BY <2>1, ChannelFields, MultiRetrigNoteSteps
  <2>3. Triggers(s)
    BY <1>3 DEF Triggers
  <2> QED
    BY <1>3, <2>2, <2>3 DEF Steps, s
<1>4. CASE s.effect_type \notin {"MULTI_RETRIG_NOTE", "S3M_MULTI_RETRIG_NOTE"}
  <2> DEFINE fast == m.fast_s3m_volume_slides
             v == VolumeAtFirstTick(c.vol, s, c.effect_param, fast)
             p == PitchAtFirstTick(c.pitch, s, c.effect_param)
  <2>1. d = [c EXCEPT !.vol = v, !.pitch = p]
    BY <1>4 DEF SlotEffect, s
  <2>2. fast \in BOOLEAN
    BY DEF IsModule
  <2> HIDE DEF fast
  <2>3. /\ v \in Volumes
        /\ IF s.effect_type = "S3M_TREMOR" THEN v = Tremor(c.vol, c.effect_param)
           ELSE KeepsTremor(c.vol, v)
    BY <1>1, <2>2, ChannelFields, VolumeAtFirstTickType
  <2>4. p \in Pitches(m) /\ KeepsEnds(c.pitch, p)
        /\ (~Slides(s) => TruePeriod(p) = TruePeriod(c.pitch))
    BY <1>1, ChannelFields, PitchAtFirstTickType
  <2> HIDE DEF v, p, d
  <2>5. /\ d \in Channels /\ d.vol = v /\ d.pitch = p /\ d.current = c.current
        /\ d.handled = c.handled /\ d.effect_param = c.effect_param
    BY <2>1, <2>3, <2>4 DEF Channels
  <2> QED
    BY <2>3, <2>4, <2>5 DEF KeepsPart, KeepsPeriod, d, s
<1> QED
  BY <1>2, <1>3, <1>4

(* The tremor of a channel as a slot finds it: only an instrument restarts  *)
(* it.                                                                      *)
Found(old, s, v) ==
  /\ v \in Volumes /\ v.tremor_on = old.tremor_on
  /\ v.tremor_ticks \in {0, old.tremor_ticks}
  /\ s.instrument = 0 => v.tremor_ticks = old.tremor_ticks

LEMMA HandleSlotSteps ==
  ASSUME IsModule(m), NEW c \in Channels, NEW tick, NEW chance, IsChance(chance)
  PROVE  LET d == HandleSlot(c, tick, chance)
             s == c.current
         IN  /\ d \in Channels /\ d.current = s /\ d.handled = c.handled + 1
             /\ KeepsEnds(c.pitch, d.pitch)
             /\ s.effect_type = "S3M_TREMOR" =>
                  \E v \in Volumes : Found(c.vol, s, v) /\ d.vol = Tremor(v, d.effect_param)
             /\ s.effect_type # "S3M_TREMOR" => Found(c.vol, s, d.vol)
             /\ ~Triggers(s) /\ ~Slides(s) /\ ~HasTonePortamento(s) => KeepsPeriod(c, d)
<1> DEFINE seen == SeeInstrument(c)
           noted == SeeNote(seen, chance)
           sounding == UseInstrument(noted)
           told == ColumnAlways(sounding)
           known == RememberParams(told)
           slid == IF tick = 0 THEN ColumnFirstTick(known) ELSE known
           e == SlotEffect(slid, tick, chance)
           d == HandleSlot(c, tick, chance)
           Quiet == ~Triggers(c.current) /\ ~HasTonePortamento(c.current)
<1>1. d = [e EXCEPT !.handled = @ + 1]
  BY DEF HandleSlot
<1>2. Steps(c, seen) /\ KeepsPart(c, seen) /\ KeepsPeriod(c, seen)
  BY SeeInstrumentSteps
<1> HIDE DEF seen
<1>3. Steps(c, noted) /\ KeepsPart(c, noted) /\ (Quiet => KeepsPeriod(c, noted))
  <2>1. /\ Steps(seen, noted) /\ KeepsPart(seen, noted)
        /\ Quiet => KeepsPeriod(seen, noted)
    BY <1>2, SeeNoteSteps DEF Steps
  <2> HIDE DEF noted
  <2> QED
    BY <1>2, <2>1, StepsOn
<1> HIDE DEF noted
<1>4. /\ Steps(c, sounding) /\ (Quiet => KeepsPeriod(c, sounding))
      /\ c.current.instrument = 0 => KeepsPart(c, sounding)
  <2>1. /\ Steps(noted, sounding) /\ KeepsPeriod(noted, sounding)
        /\ c.current.instrument = 0 => KeepsPart(noted, sounding)
    BY <1>3, UseInstrumentSteps DEF Steps
  <2> HIDE DEF sounding
  <2> QED
    BY <1>3, <2>1, StepsOn
<1> HIDE DEF sounding
<1>5. /\ Steps(c, told) /\ (Quiet => KeepsPeriod(c, told))
      /\ c.current.instrument = 0 => KeepsPart(c, told)
  <2>1. Steps(sounding, told) /\ KeepsPart(sounding, told) /\ KeepsPeriod(sounding, told)
    BY <1>4, ColumnAlwaysSteps DEF Steps
  <2> HIDE DEF told
  <2> QED
    BY <1>4, <2>1, StepsOn
<1> HIDE DEF told
<1>6. /\ Steps(c, known) /\ (Quiet => KeepsPeriod(c, known))
      /\ c.current.instrument = 0 => KeepsPart(c, known)
  <2>1. Steps(told, known) /\ KeepsPart(told, known) /\ KeepsPeriod(told, known)
    BY <1>5, RememberParamsSteps DEF Steps
  <2> HIDE DEF known
  <2> QED
    BY <1>5, <2>1, StepsOn
<1> HIDE DEF known
<1>7. /\ Steps(c, slid) /\ (Quiet => KeepsPeriod(c, slid))
      /\ c.current.instrument = 0 => KeepsPart(c, slid)
  <2>1. Steps(known, slid) /\ KeepsPart(known, slid) /\ KeepsPeriod(known, slid)
    BY <1>6, ColumnFirstTickSteps, StepsStill DEF Steps
  <2> HIDE DEF slid
  <2> QED
    BY <1>6, <2>1, StepsOn
<1> HIDE DEF slid
<1>8. Found(c.vol, c.current, slid.vol)
  BY <1>7, ChannelFields DEF Steps, KeepsPart, KeepsTremor, Found
<1>9. /\ slid \in Channels /\ slid.current = c.current /\ slid.handled = c.handled
      /\ KeepsEnds(c.pitch, slid.pitch)
  BY <1>7 DEF Steps
<1>10. /\ e \in Channels /\ e.current = slid.current /\ e.handled = slid.handled
       /\ KeepsEnds(slid.pitch, e.pitch)
       /\ IF slid.current.effect_type = "S3M_TREMOR"
          THEN e.vol = Tremor(slid.vol, slid.effect_param) /\ e.effect_param = slid.effect_param
          ELSE KeepsPart(slid, e)
       /\ ~Triggers(slid.current) /\ ~Slides(slid.current) => KeepsPeriod(slid, e)
  BY <1>9, SlotEffectSteps
<1> HIDE DEF e, d
<1>11. /\ d \in Channels /\ d.current = e.current /\ d.handled = e.handled + 1
       /\ d.pitch = e.pitch /\ d.vol = e.vol /\ d.effect_param = e.effect_param
  BY <1>1, <1>10 DEF Channels
<1>12. KeepsEnds(c.pitch, d.pitch)
  BY <1>9, <1>10, <1>11 DEF KeepsEnds
<1>13. Quiet /\ ~Slides(c.current) => KeepsPeriod(c, d)
  BY <1>7, <1>9, <1>10, <1>11 DEF KeepsPeriod
<1>14. c.current.effect_type = "S3M_TREMOR" =>
         \E v \in Volumes : Found(c.vol, c.current, v) /\ d.vol = Tremor(v, d.effect_param)
  BY <1>8, <1>9, <1>10, <1>11, ChannelFields
<1>15. c.current.effect_type # "S3M_TREMOR" => Found(c.vol, c.current, d.vol)
  BY <1>8, <1>9, <1>10, <1>11, ChannelFields DEF KeepsPart, KeepsTremor, Found
<1> QED
  BY <1>9, <1>10, <1>11, <1>12, <1>13, <1>14, <1>15 DEF d

-----------------------------------------------------------------------------
(* The effects of a tick.                                                    *)

LEMMA DelayNoteSteps ==
  ASSUME IsModule(m), NEW c \in Channels, c.current.effect_type = "DELAY_NOTE", NEW tick,
         NEW chance, IsChance(chance)
  PROVE  LET d == DelayNote(c, tick, chance)
         IN  /\ d \in Channels /\ d.current = c.current
             /\ d.handled = IF tick = c.current.effect_param THEN c.handled + 1 ELSE c.handled
             /\ KeepsEnds(c.pitch, d.pitch)
<1> DEFINE h == HandleSlot(c, tick, chance)
           late == TriggerInstrument(h)
           again == TriggerNote(late, chance)
           d == DelayNote(c, tick, chance)
<1>1. CASE tick # c.current.effect_param
  <2>1. d = c
    BY <1>1 DEF DelayNote
  <2> QED
    BY <1>1, <2>1 DEF KeepsEnds
<1>2. CASE tick = c.current.effect_param
  <2>1. d = late \/ d = again
    BY <1>2 DEF DelayNote
  <2>2. /\ h \in Channels /\ h.current = c.current /\ h.handled = c.handled + 1
        /\ KeepsEnds(c.pitch, h.pitch)
    BY HandleSlotSteps
  <2> HIDE DEF h
  <2>3. Steps(h, late)
    BY <2>2, TriggerInstrumentSteps
  <2> HIDE DEF late
  <2>4. Steps(late, again)
    BY <2>3, TriggerNoteSteps DEF Steps
  <2> HIDE DEF again, d
  <2>5. Steps(h, d)
    BY <2>1, <2>3, <2>4, StepsOn
  <2> QED
    BY <1>2, <2>2, <2>5 DEF Steps, KeepsEnds, d
<1> QED
  BY <1>1, <1>2

(* The effects of a tick that trigger a note again.                         *)
Restarting == {"DELAY_NOTE", "RETRIGGER_NOTE"}

LEMMA EffectOfTickSteps ==
  ASSUME IsModule(m), NEW c \in Channels, NEW tick, NEW tempo, NEW chance, IsChance(chance)
  PROVE  LET d == EffectOfTick(c, tick, tempo, chance)
             s == c.current
         IN  /\ d \in Channels /\ d.current = s
             /\ d.handled = IF s.effect_type = "DELAY_NOTE" /\ tick = s.effect_param
                            THEN c.handled + 1 ELSE c.handled
             /\ StillEnds(c.pitch, d.pitch, s)
             /\ s.effect_type = "TREMOR" =>
                  \E v \in Volumes :
                    KeepsTremor(c.vol, v) /\ d.vol = Tremor(v, d.vol.tremor_param)
             /\ s.effect_type = "S3M_TREMOR" => d.vol = Tremor(c.vol, d.effect_param)
             /\ s.effect_type \notin Restarting \cup {"TREMOR", "S3M_TREMOR"} => KeepsPart(c, d)
             /\ ~Triggers(s) /\ ~Slides(s) /\ ~HasTonePortamento(s) => KeepsPeriod(c, d)
<1> DEFINE s == c.current
           d == EffectOfTick(c, tick, tempo, chance)
<1>1. IsLoadedSlot(s) /\ s.effect_param \in Byte
  BY CurrentIsLoaded DEF IsLoadedSlot, IsSlot
<1> HIDE DEF s
<1>2. ASSUME Steps(c, d), s.effect_type \notin {"TREMOR", "S3M_TREMOR", "DELAY_NOTE"},
             s.effect_type # "RETRIGGER_NOTE" => KeepsPart(c, d),
             ~Triggers(s) => KeepsPeriod(c, d)
      PROVE  /\ d \in Channels /\ d.current = s
             /\ d.handled = IF s.effect_type = "DELAY_NOTE" /\ tick = s.effect_param
                            THEN c.handled + 1 ELSE c.handled
             /\ StillEnds(c.pitch, d.pitch, s)
             /\ s.effect_type = "TREMOR" =>
                  \E v \in Volumes :
                    KeepsTremor(c.vol, v) /\ d.vol = Tremor(v, d.vol.tremor_param)
             /\ s.effect_type = "S3M_TREMOR" => d.vol = Tremor(c.vol, d.effect_param)
             /\ s.effect_type \notin Restarting \cup {"TREMOR", "S3M_TREMOR"} => KeepsPart(c, d)
             /\ ~Triggers(s) /\ ~Slides(s) /\ ~HasTonePortamento(s) => KeepsPeriod(c, d)
  BY <1>2, KeepingEnds DEF Steps, Restarting, s
<1>3. CASE s.effect_type = "MULTI_RETRIG_NOTE"
  <2>1. d = MultiRetrigNote(c, tick, c.vol.multi_retrig_param, chance)
    BY <1>3 DEF EffectOfTick, s
  <2>2. Steps(c, d) /\ KeepsPart(c, d)
    BY <2>1, ChannelFields, VolumeFields, MultiRetrigNoteSteps
  <2>3. Triggers(s)
    BY <1>3 DEF Triggers
  <2> HIDE DEF d
  <2> QED
    BY <1>2, <1>3, <2>2, <2>3 DEF d, s
<1>4. CASE s.effect_type = "S3M_MULTI_RETRIG_NOTE"
  <2>1. d = MultiRetrigNote(c, tick, c.effect_param, chance)
    BY <1>4 DEF EffectOfTick, s
  <2>2. Steps(c, d) /\ KeepsPart(c, d)
    BY <2>1, ChannelFields, MultiRetrigNoteSteps
  <2>3. Triggers(s)
    BY <1>4 DEF Triggers
  <2> HIDE DEF d
  <2> QED
    BY <1>2, <1>4, <2>2, <2>3 DEF d, s
<1>5. CASE s.effect_type = "RETRIGGER_NOTE"
  <2> DEFINE late == TriggerInstrument(c)
             again == TriggerNote(late, chance)
  <2>1. d = c \/ d = again
    BY <1>5 DEF EffectOfTick, s
  <2>2. Steps(c, late)
    BY TriggerInstrumentSteps
  <2> HIDE DEF late
  <2>3. Steps(late, again)
    BY <2>2, TriggerNoteSteps DEF Steps
  <2> HIDE DEF again, d
  <2>4. Steps(c, d)
    BY <2>1, <2>2, <2>3, StepsOn, StepsStill
  <2>5. Triggers(s)
    BY <1>5 DEF Triggers
  <2> QED
    BY <1>2, <1>5, <2>4, <2>5 DEF d, s
<1>6. CASE s.effect_type = "KEY_OFF"
  <2>1. d = c \/ d = KeyOff(c)
    BY <1>6 DEF EffectOfTick, s
  <2> HIDE DEF d
  <2>2. Steps(c, d) /\ KeepsPart(c, d) /\ KeepsPeriod(c, d)
    BY <2>1, KeyOffSteps, StepsStill
  <2> QED
    BY <1>2, <1>6, <2>2 DEF d, s
<1>7. CASE s.effect_type = "CUT_NOTE"
  <2>1. d = c \/ d = [c EXCEPT !.vol = CutNote(c.vol)]
    BY <1>7 DEF EffectOfTick, s
  <2>2. CutNote(c.vol) \in Volumes /\ KeepsTremor(c.vol, CutNote(c.vol))
    BY ChannelFields, CutNoteType
  <2> HIDE DEF d
  <2>3. Steps(c, d) /\ KeepsPart(c, d) /\ KeepsPeriod(c, d)
    BY <2>1, <2>2, VolumeSteps, StepsStill
  <2> QED
    BY <1>2, <1>7, <2>3 DEF d, s
<1>8. CASE s.effect_type = "DELAY_NOTE"
  <2>1. d = DelayNote(c, tick, chance)
    BY <1>8 DEF EffectOfTick, s
  <2>2. /\ d \in Channels /\ d.current = s
        /\ d.handled = IF tick = s.effect_param THEN c.handled + 1 ELSE c.handled
        /\ KeepsEnds(c.pitch, d.pitch)
    BY <1>8, <2>1, DelayNoteSteps DEF s
  <2>3. Triggers(s)
    BY <1>8 DEF Triggers
  <2> HIDE DEF d
  <2> QED
    BY <1>8, <2>2, <2>3, KeepingEnds DEF Restarting, d, s
<1>9. CASE s.effect_type \notin {"MULTI_RETRIG_NOTE", "S3M_MULTI_RETRIG_NOTE",
         "RETRIGGER_NOTE", "KEY_OFF", "CUT_NOTE", "DELAY_NOTE"}
  <2> DEFINE v == VolumeOfTick(c.vol, s, c.effect_param, c.pitch.vibrato_ticks, chance.random)
             p == PitchOfTick(c.pitch, m, s, c.effect_param, tick, tempo, chance.random)
  <2>1. d = [c EXCEPT !.vol = v, !.pitch = p]
    BY <1>9 DEF EffectOfTick, s
  <2>2. /\ c.vol \in Volumes /\ c.pitch \in Pitches(m) /\ c.effect_param \in Byte
        /\ c.pitch.vibrato_ticks \in Byte /\ chance.random \in Int8s
    BY ChannelFields, PitchFields DEF IsChance
  <2>3. /\ v \in Volumes
        /\ s.effect_type = "TREMOR" =>
             \E u \in Volumes, param \in Byte :
               /\ KeepsTremor(c.vol, u) /\ v = Tremor(u, param) /\ v.tremor_param = param
        /\ s.effect_type = "S3M_TREMOR" => v = Tremor(c.vol, c.effect_param)
        /\ s.effect_type \notin {"TREMOR", "S3M_TREMOR"} => KeepsTremor(c.vol, v)
    BY <1>1, <2>2, VolumeOfTickType
  <2>4. /\ p \in Pitches(m) /\ StillEnds(c.pitch, p, s)
        /\ ~Slides(s) /\ ~HasTonePortamento(s) => TruePeriod(p) = TruePeriod(c.pitch)
    BY <1>1, <2>2, PitchOfTickType
  <2> HIDE DEF v, p, d
  <2>5. /\ d \in Channels /\ d.vol = v /\ d.pitch = p /\ d.current = c.current
        /\ d.handled = c.handled /\ d.effect_param = c.effect_param
    BY <2>1, <2>3, <2>4 DEF Channels
  <2>6. s.effect_type = "TREMOR" =>
          \E u \in Volumes : KeepsTremor(c.vol, u) /\ d.vol = Tremor(u, d.vol.tremor_param)
    BY <2>3, <2>5
  <2> QED
    BY <1>9, <2>3, <2>4, <2>5, <2>6 DEF KeepsPart, KeepsPeriod, Restarting, d, s
<1> QED
  BY <1>3, <1>4, <1>5, <1>6, <1>7, <1>8, <1>9

LEMMA TickEffectsSteps ==
  ASSUME IsModule(m), NEW c \in Channels, NEW tick, NEW tempo, NEW chance, IsChance(chance)
  PROVE  LET d == TickEffects(c, tick, tempo, chance)
             s == c.current
         IN  /\ d \in Channels /\ d.current = s
             /\ d.handled = IF s.effect_type = "DELAY_NOTE" /\ tick = s.effect_param
                            THEN c.handled + 1 ELSE c.handled
             /\ StillEnds(c.pitch, d.pitch, s)
             /\ s.effect_type = "TREMOR" =>
                  \E v \in Volumes :
                    KeepsTremor(c.vol, v) /\ d.vol = Tremor(v, d.vol.tremor_param)
             /\ s.effect_type = "S3M_TREMOR" =>
                  \E v \in Volumes : KeepsTremor(c.vol, v) /\ d.vol = Tremor(v, d.effect_param)
             /\ s.effect_type \notin Restarting \cup {"TREMOR", "S3M_TREMOR"} => KeepsPart(c, d)
             /\ ~Triggers(s) /\ ~Slides(s) /\ ~HasTonePortamento(s) => KeepsPeriod(c, d)
<1> DEFINE s == c.current
           v == ColumnOfTick(c.vol, s.volume_column)
           p == PitchColumnOfTick(c.pitch, m, s, chance.random)
           column == [c EXCEPT !.vol = v, !.pitch = p]
           d == TickEffects(c, tick, tempo, chance)
<1>1. IsLoadedSlot(s) /\ s.volume_column \in Byte
  BY CurrentIsLoaded DEF IsLoadedSlot, IsSlot
<1>2. d = EffectOfTick(column, tick, tempo, chance)
  BY DEF TickEffects
<1> HIDE DEF s
<1>3. v \in Volumes /\ KeepsTremor(c.vol, v)
  BY <1>1, ChannelFields, ColumnOfTickType
<1>4. /\ p \in Pitches(m) /\ StillEnds(c.pitch, p, s)
      /\ ~HasTonePortamento(s) => TruePeriod(p) = TruePeriod(c.pitch)
  BY <1>1, ChannelFields, PitchColumnOfTickType DEF IsChance
<1> HIDE DEF v, p
<1>5. /\ column \in Channels /\ column.current = s /\ column.handled = c.handled
      /\ column.vol = v /\ column.pitch = p
  BY <1>3, <1>4 DEF Channels, s
<1> HIDE DEF column
<1>6. /\ d \in Channels /\ d.current = s
      /\ d.handled = IF s.effect_type = "DELAY_NOTE" /\ tick = s.effect_param
                     THEN c.handled + 1 ELSE c.handled
      /\ StillEnds(p, d.pitch, s)
      /\ s.effect_type = "TREMOR" =>
           \E u \in Volumes : KeepsTremor(v, u) /\ d.vol = Tremor(u, d.vol.tremor_param)
      /\ s.effect_type = "S3M_TREMOR" => d.vol = Tremor(v, d.effect_param)
      /\ s.effect_type \notin Restarting \cup {"TREMOR", "S3M_TREMOR"} => KeepsPart(column, d)
      /\ ~Triggers(s) /\ ~Slides(s) /\ ~HasTonePortamento(s) => KeepsPeriod(column, d)
  BY <1>2, <1>5, EffectOfTickSteps
<1> HIDE DEF d
<1>7. StillEnds(c.pitch, d.pitch, s)
  BY <1>4, <1>6 DEF StillEnds
<1>8. s.effect_type = "TREMOR" =>
        \E u \in Volumes : KeepsTremor(c.vol, u) /\ d.vol = Tremor(u, d.vol.tremor_param)
  BY <1>3, <1>6 DEF KeepsTremor
<1>9. s.effect_type = "S3M_TREMOR" =>
        \E u \in Volumes : KeepsTremor(c.vol, u) /\ d.vol = Tremor(u, d.effect_param)
  BY <1>3, <1>6
<1>10. s.effect_type \notin Restarting \cup {"TREMOR", "S3M_TREMOR"} => KeepsPart(c, d)
  BY <1>3, <1>5, <1>6 DEF KeepsPart, KeepsTremor
<1>11. ~Triggers(s) /\ ~Slides(s) /\ ~HasTonePortamento(s) => KeepsPeriod(c, d)
  BY <1>4, <1>5, <1>6 DEF KeepsPeriod
<1> QED
  BY <1>6, <1>7, <1>8, <1>9, <1>10, <1>11 DEF d, s

-----------------------------------------------------------------------------
(* The steps.                                                                *)

ChannelInv ==
  /\ loaded \in DOMAIN Modules /\ ch \in Channels /\ WillEnd(ch.pitch)
  /\ current_tick \in Byte /\ current_tempo \in Byte /\ repeating \in BOOLEAN

LEMMA ModuleIsLoaded ==
  ASSUME loaded \in DOMAIN Modules
  PROVE  IsModule(m)
BY ModulesAssumption DEF m

LEMMA ChancesAre ==
  ASSUME NEW chance \in Chances
  PROVE  IsChance(chance)
<1>1. Random \subseteq Int8s /\ Stray \subseteq Nat /\ 0 \in Int8s /\ 0 \in Nat
  BY RandomAssumption, StrayAssumption DEF Int8s
<1> QED
  BY <1>1 DEF Chances, IsChance

LEMMA NoChannelType ==
  ASSUME IsModule(m)
  PROVE  NoChannel \in Channels /\ WillEnd(NoChannel.pitch)
<1> DEFINE v == NoVolume(m, m.channel_panning)
<1>1. v \in Volumes
  <2>1. m.default_global_volume \in 0 .. MAX_VOLUME /\ m.channel_panning \in Byte
    BY DEF IsModule
  <2>2. 0 \in 0 .. MAX_VOLUME /\ 0 \in -MAX_VOLUME .. MAX_VOLUME /\ 0 \in Byte
    BY DEF MAX_VOLUME, Byte
  <2> QED
    BY <2>1, <2>2 DEF NoVolume, Volumes
<1>2. NoPitch \in Pitches(m)
  <2>1. 0 \in 0 .. m.num_instruments /\ 0 \in 0 .. m.num_samples
    BY ModuleFields
  <2>2. 0 \in Word /\ 0 \in 0 .. MAX_NOTE /\ 0 \in -16 .. 15
    <3>1. 0 \in Word
      BY WordsType, WordBounds, SMT
    <3> QED
      BY <3>1 DEF MAX_NOTE
  <2> QED
    BY <2>1, <2>2, ZeroFits DEF NoPitch, Pitches, NULL
<1> HIDE DEF v
<1>3. NoChannel =
        [vol |-> v, pitch |-> NoPitch, current |-> NoSlot, effect_param |-> 0, handled |-> 0]
  BY DEF NoChannel, v
<1>4. NoChannel \in Channels
  BY <1>1, <1>2, <1>3, ZeroFits DEF Channels
<1>5. NoChannel.pitch.arp_note_offset = 0
  BY <1>3 DEF NoPitch
<1> QED
  BY <1>4, <1>5 DEF WillEnd

LEMMA SameModule ==
  ASSUME UNCHANGED loaded
  PROVE  Channels' = Channels /\ m' = m
BY DEF Channels, m, NoSlot

LEMMA TempoType ==
  ASSUME IsModule(m), current_tempo' \in m.tempos
  PROVE  current_tempo' \in Byte
BY DEF IsModule

(* A row.                                                                    *)
LEMMA RowSteps ==
  ASSUME ChannelInv, NEW s \in m.slots, NEW chance \in Chances, Row(s, chance)
  PROVE  /\ UNCHANGED loaded /\ ch' \in Channels /\ ch'.current = s
         /\ WillEnd(ch'.pitch) /\ EndsInTime(ch'.pitch, s)
         /\ current_tick' = 1 /\ current_tempo' \in Byte /\ ~repeating'
         /\ ch'.handled = IF s.effect_type = "DELAY_NOTE" THEN 0 ELSE 1
         /\ s.effect_type = "S3M_TREMOR" =>
              \E v \in Volumes : Found(ch.vol, s, v) /\ ch'.vol = Tremor(v, ch'.effect_param)
         /\ s.effect_type # "S3M_TREMOR" => Found(ch.vol, s, ch'.vol)
         /\ ~Triggers(s) /\ ~Slides(s) /\ ~HasTonePortamento(s) => KeepsPeriod(ch, ch')
<1> DEFINE read == [ch EXCEPT !.current = s, !.handled = 0]
           slot == HandleSlot(read, 0, chance)
           played == IF s.effect_type = "DELAY_NOTE" THEN read ELSE slot
           p == EndVibrato(EndArpeggio(played.pitch), HasVibrato(s))
<1>1. ch \in Channels /\ WillEnd(ch.pitch) /\ IsModule(m) /\ IsChance(chance)
  BY ModuleIsLoaded, ChancesAre DEF ChannelInv
<1>2. /\ ch' = [played EXCEPT !.pitch = p]
      /\ UNCHANGED loaded /\ current_tick' = 1 /\ ~repeating' /\ current_tempo' \in m.tempos
  BY DEF Row
<1>3. /\ read \in Channels /\ read.current = s /\ read.handled = 0
      /\ read.vol = ch.vol /\ read.pitch = ch.pitch
  BY <1>1 DEF Channels
<1> HIDE DEF read
<1>4. /\ slot \in Channels /\ slot.current = s /\ slot.handled = 1
      /\ KeepsEnds(ch.pitch, slot.pitch)
      /\ s.effect_type = "S3M_TREMOR" =>
           \E v \in Volumes : Found(ch.vol, s, v) /\ slot.vol = Tremor(v, slot.effect_param)
      /\ s.effect_type # "S3M_TREMOR" => Found(ch.vol, s, slot.vol)
      /\ ~Triggers(s) /\ ~Slides(s) /\ ~HasTonePortamento(s) => KeepsPeriod(read, slot)
  BY <1>1, <1>3, HandleSlotSteps
<1> HIDE DEF slot
<1>5. /\ played \in Channels /\ played.current = s
      /\ played.handled = IF s.effect_type = "DELAY_NOTE" THEN 0 ELSE 1
      /\ KeepsEnds(ch.pitch, played.pitch)
      /\ s.effect_type = "S3M_TREMOR" =>
           \E v \in Volumes : Found(ch.vol, s, v) /\ played.vol = Tremor(v, played.effect_param)
      /\ s.effect_type # "S3M_TREMOR" => Found(ch.vol, s, played.vol)
      /\ ~Triggers(s) /\ ~Slides(s) /\ ~HasTonePortamento(s) => KeepsPeriod(ch, played)
  <2>1. CASE s.effect_type = "DELAY_NOTE"
    <3>1. played = read
      BY <2>1
    <3>2. Found(ch.vol, s, ch.vol) /\ KeepsEnds(ch.pitch, ch.pitch)
      BY <1>1, ChannelFields DEF Found, KeepsEnds
    <3> HIDE DEF played
    <3> QED
      BY <1>3, <2>1, <3>1, <3>2 DEF KeepsPeriod
  <2>2. CASE s.effect_type # "DELAY_NOTE"
    <3>1. played = slot
      BY <2>2
    <3> HIDE DEF played
    <3> QED
      BY <1>3, <1>4, <2>2, <3>1 DEF KeepsPeriod
  <2> QED
    BY <2>1, <2>2
<1> HIDE DEF played
<1>6. WillEnd(played.pitch)
  BY <1>1, <1>5 DEF KeepsEnds, WillEnd
<1>7. /\ p \in Pitches(m) /\ p.arp_note_offset = 0
      /\ p.should_reset_vibrato /\ p.vibrato_offset # 0 => HasVibrato(s)
      /\ TruePeriod(p) = TruePeriod(played.pitch)
  <2>1. HasVibrato(s) \in BOOLEAN
    BY DEF HasVibrato
  <2> QED
    BY <1>5, <1>6, <2>1, ChannelFields, EndsType, Zenon DEF WillEnd
<1> HIDE DEF p
<1>8. /\ ch' \in Channels /\ ch'.pitch = p /\ ch'.vol = played.vol /\ ch'.current = s
      /\ ch'.handled = played.handled /\ ch'.effect_param = played.effect_param
  BY <1>2, <1>5, <1>7 DEF Channels
<1>9. WillEnd(ch'.pitch) /\ EndsInTime(ch'.pitch, s)
  BY <1>7, <1>8 DEF WillEnd, EndsInTime
<1>10. ~Triggers(s) /\ ~Slides(s) /\ ~HasTonePortamento(s) => KeepsPeriod(ch, ch')
  BY <1>5, <1>7, <1>8 DEF KeepsPeriod
<1> QED
  BY <1>1, <1>2, <1>5, <1>8, <1>9, <1>10, TempoType

(* Any other tick, or the first of a row that is repeated.                  *)
LEMMA TickSteps ==
  ASSUME ChannelInv, NEW chance \in Chances, Tick(chance) \/ RepeatRow(chance)
  PROVE  LET s == ch.current
         IN  /\ UNCHANGED <<loaded, current_tempo>>
             /\ ch' \in Channels /\ ch'.current = s /\ StillEnds(ch.pitch, ch'.pitch, s)
             /\ \/ /\ current_tick # 0 /\ current_tick' = current_tick + 1
                   /\ current_tick' \in Byte /\ repeating' = repeating
                   /\ ch'.handled = IF s.effect_type = "DELAY_NOTE"
                                       /\ current_tick = s.effect_param
                                    THEN ch.handled + 1 ELSE ch.handled
                \/ current_tick' = 1 /\ repeating' = TRUE /\ ch'.handled = 0
             /\ s.effect_type = "TREMOR" =>
                  \E v \in Volumes :
                    KeepsTremor(ch.vol, v) /\ ch'.vol = Tremor(v, ch'.vol.tremor_param)
             /\ s.effect_type = "S3M_TREMOR" =>
                  \E v \in Volumes :
                    KeepsTremor(ch.vol, v) /\ ch'.vol = Tremor(v, ch'.effect_param)
             /\ s.effect_type \notin Restarting \cup {"TREMOR", "S3M_TREMOR"} =>
                  KeepsPart(ch, ch')
             /\ ~Triggers(s) /\ ~Slides(s) /\ ~HasTonePortamento(s) => KeepsPeriod(ch, ch')
<1> DEFINE s == ch.current
           first == [ch EXCEPT !.handled = 0]
<1>1. ch \in Channels /\ IsModule(m) /\ IsChance(chance)
  BY ModuleIsLoaded, ChancesAre DEF ChannelInv
<1>2. /\ first \in Channels /\ first.current = s /\ first.handled = 0
      /\ first.vol = ch.vol /\ first.pitch = ch.pitch
  BY <1>1 DEF Channels
<1> HIDE DEF first
<1>3. CASE Tick(chance)
  <2> DEFINE d == TickEffects(ch, current_tick, current_tempo, chance)
  <2>1. /\ ch' = d /\ current_tick # 0 /\ current_tick < current_tempo
        /\ current_tick' = current_tick + 1 /\ repeating' = repeating
        /\ UNCHANGED <<loaded, current_tempo>>
    BY <1>3 DEF Tick
  <2>2. current_tick' \in Byte
    BY <2>1 DEF ChannelInv, Byte
  <2>3. /\ d \in Channels /\ d.current = s
        /\ d.handled = IF s.effect_type = "DELAY_NOTE" /\ current_tick = s.effect_param
                       THEN ch.handled + 1 ELSE ch.handled
        /\ StillEnds(ch.pitch, d.pitch, s)
        /\ s.effect_type = "TREMOR" =>
             \E v \in Volumes : KeepsTremor(ch.vol, v) /\ d.vol = Tremor(v, d.vol.tremor_param)
        /\ s.effect_type = "S3M_TREMOR" =>
             \E v \in Volumes : KeepsTremor(ch.vol, v) /\ d.vol = Tremor(v, d.effect_param)
        /\ s.effect_type \notin Restarting \cup {"TREMOR", "S3M_TREMOR"} => KeepsPart(ch, d)
        /\ ~Triggers(s) /\ ~Slides(s) /\ ~HasTonePortamento(s) => KeepsPeriod(ch, d)
    BY <1>1, TickEffectsSteps
  <2> HIDE DEF d, s
  <2> QED
    BY <2>1, <2>2, <2>3 DEF s
<1>4. CASE RepeatRow(chance)
  <2> DEFINE d == TickEffects(first, 0, current_tempo, chance)
  <2>1. /\ ch' = d /\ current_tick' = 1 /\ repeating' = TRUE
        /\ UNCHANGED <<loaded, current_tempo>>
    BY <1>4 DEF RepeatRow, first
  <2>2. ~(s.effect_type = "DELAY_NOTE" /\ 0 = s.effect_param)
    <3>1. IsLoadedSlot(s)
      BY <1>1, CurrentIsLoaded
    <3> HIDE DEF s
    <3> QED
      BY <3>1 DEF IsLoadedSlot, IsFixedEffect
  <2>3. /\ d \in Channels /\ d.current = s
        /\ d.handled = IF s.effect_type = "DELAY_NOTE" /\ 0 = s.effect_param
                       THEN first.handled + 1 ELSE first.handled
        /\ StillEnds(ch.pitch, d.pitch, s)
        /\ s.effect_type = "TREMOR" =>
             \E v \in Volumes : KeepsTremor(ch.vol, v) /\ d.vol = Tremor(v, d.vol.tremor_param)
        /\ s.effect_type = "S3M_TREMOR" =>
             \E v \in Volumes : KeepsTremor(ch.vol, v) /\ d.vol = Tremor(v, d.effect_param)
        /\ s.effect_type \notin Restarting \cup {"TREMOR", "S3M_TREMOR"} => KeepsPart(first, d)
        /\ ~Triggers(s) /\ ~Slides(s) /\ ~HasTonePortamento(s) => KeepsPeriod(first, d)
    BY <1>1, <1>2, TickEffectsSteps
  <2>4. d.handled = 0
    BY <1>2, <2>2, <2>3
  <2>5. /\ KeepsPart(first, d) => KeepsPart(ch, d)
        /\ KeepsPeriod(first, d) => KeepsPeriod(ch, d)
    BY <1>2 DEF KeepsPart, KeepsPeriod
  <2> HIDE DEF d, s
  <2> QED
    BY <2>1, <2>3, <2>4, <2>5 DEF s
<1> QED
  BY <1>3, <1>4

(* A call leaves the period alone, and the volumes, unless it resets them.  *)
LEMMA CallSteps ==
  ASSUME ChannelInv, SkipTick \/ (\E tick \in 0 .. current_tempo : Seek(tick)) \/ Dump
  PROVE  /\ UNCHANGED <<loaded, current_tempo, repeating>> /\ current_tick' \in Byte
         /\ ch' \in Channels /\ ch'.current \in {NoSlot, ch.current}
         /\ ch'.vol = ch.vol /\ KeepsEnds(ch.pitch, ch'.pitch) /\ KeepsPeriod(ch, ch')
<1>1. ch \in Channels /\ IsModule(m)
  BY ModuleIsLoaded DEF ChannelInv
<1>2. CASE SkipTick
  <2>1. ch' = ch /\ current_tick' = 1 /\ UNCHANGED <<loaded, current_tempo, repeating>>
    BY <1>2 DEF SkipTick
  <2> QED
    BY <1>1, <2>1 DEF Byte, KeepsEnds, KeepsPeriod
<1>3. CASE \E tick \in 0 .. current_tempo : Seek(tick)
  <2>1. PICK tick \in 0 .. current_tempo : Seek(tick)
    BY <1>3
  <2>2. /\ ch' = [ch EXCEPT !.handled = 0] /\ current_tick' = tick
        /\ UNCHANGED <<loaded, current_tempo, repeating>>
    BY <2>1 DEF Seek
  <2>3. current_tick' \in Byte
    BY <2>2 DEF ChannelInv, Byte
  <2> QED
    BY <1>1, <2>2, <2>3 DEF Channels, KeepsEnds, KeepsPeriod
<1>4. CASE Dump
  <2> DEFINE p == [ch.pitch EXCEPT !.instrument = 0, !.sample = 0, !.next_instrument = 0]
  <2>1. /\ ch' = [ch EXCEPT !.pitch = p, !.current = NoSlot, !.handled = 0]
        /\ current_tick' = 0 /\ UNCHANGED <<loaded, current_tempo, repeating>>
    BY <1>1, <1>4 DEF Dump, NULL, Channels
  <2>2. ch.pitch \in Pitches(m)
    BY <1>1, ChannelFields
  <2>3. p \in Pitches(m)
    BY <1>1, <2>2, ModuleFields, ZeroFits, PitchWith
  <2>4. KeepsEnds(ch.pitch, p) /\ TruePeriod(p) = TruePeriod(ch.pitch)
    BY <2>2 DEF Pitches, KeepsEnds, TruePeriod
  <2> HIDE DEF p
  <2>5. /\ ch' \in Channels /\ ch'.pitch = p /\ ch'.vol = ch.vol /\ ch'.current = NoSlot
    BY <1>1, <2>1, <2>3 DEF Channels
  <2> QED
    BY <2>1, <2>4, <2>5 DEF KeepsPeriod, Byte
<1> QED
  BY <1>2, <1>3, <1>4

LEMMA ResetSteps ==
  ASSUME ChannelInv, Reset
  PROVE  /\ UNCHANGED loaded /\ ch' = NoChannel /\ ch' \in Channels /\ WillEnd(ch'.pitch)
         /\ current_tick' = 0 /\ current_tempo' \in Byte /\ repeating' = FALSE
<1>1. IsModule(m)
  BY ModuleIsLoaded DEF ChannelInv
<1> QED
  BY <1>1, NoChannelType, TempoType DEF Reset

LEMMA ChannelInvKept ==
  ASSUME ChannelInv, [HistoryNext]_hvars
  PROVE  ChannelInv'
<1>0. ASSUME UNCHANGED loaded, ch' \in Channels, WillEnd(ch'.pitch), current_tick' \in Byte,
             current_tempo' \in Byte, repeating' \in BOOLEAN
      PROVE  ChannelInv'
  BY <1>0, SameModule DEF ChannelInv
<1>1. CASE Plays
  <2>1. PICK chance \in Chances :
          (\E s \in m.slots : Row(s, chance)) \/ Tick(chance) \/ RepeatRow(chance)
    BY <1>1 DEF Plays, Playing
  <2>2. CASE \E s \in m.slots : Row(s, chance)
    <3>1. /\ UNCHANGED loaded /\ ch' \in Channels /\ WillEnd(ch'.pitch)
          /\ current_tick' = 1 /\ current_tempo' \in Byte /\ ~repeating'
      BY <2>2, RowSteps
    <3>2. repeating' = FALSE
      BY <2>2 DEF Row
    <3> QED
      BY <1>0, <3>1, <3>2, ZeroFits
  <2>3. CASE Tick(chance) \/ RepeatRow(chance)
    <3>1. /\ UNCHANGED <<loaded, current_tempo>> /\ ch' \in Channels
          /\ StillEnds(ch.pitch, ch'.pitch, ch.current)
          /\ current_tick' \in Byte \/ current_tick' = 1
          /\ repeating' = repeating \/ repeating' = TRUE
      BY <2>3, TickSteps
    <3>2. WillEnd(ch'.pitch)
      BY <3>1 DEF ChannelInv, StillEnds
    <3>3. /\ current_tick' \in Byte /\ current_tempo' \in Byte
          /\ repeating' \in BOOLEAN
      BY <3>1, ZeroFits DEF ChannelInv
    <3> QED
      BY <1>0, <3>1, <3>2, <3>3
  <2> QED
    BY <2>1, <2>2, <2>3
<1>2. CASE SkipTick \/ (\E tick \in 0 .. current_tempo : Seek(tick)) \/ Dump
  <2>1. /\ UNCHANGED <<loaded, current_tempo, repeating>> /\ current_tick' \in Byte
        /\ ch' \in Channels /\ KeepsEnds(ch.pitch, ch'.pitch)
    BY <1>2, CallSteps
  <2>2. WillEnd(ch'.pitch)
    BY <2>1 DEF ChannelInv, KeepsEnds, WillEnd
  <2> QED
    BY <1>0, <2>1, <2>2 DEF ChannelInv
<1>3. CASE Reset
  <2>1. /\ UNCHANGED loaded /\ ch' \in Channels /\ WillEnd(ch'.pitch)
        /\ current_tick' = 0 /\ current_tempo' \in Byte /\ repeating' = FALSE
    BY <1>3, ResetSteps
  <2> QED
    BY <1>0, <2>1, ZeroFits
<1>4. CASE UNCHANGED hvars
  BY <1>4, SameModule DEF ChannelInv, WillEnd, hvars, vars
<1> QED
  BY <1>1, <1>2, <1>3, <1>4 DEF HistoryNext, Skips, Called

-----------------------------------------------------------------------------
LEMMA ChannelInvHolds == HistorySpec => []ChannelInv
<1>1. HistoryInit => ChannelInv
  <2>1. SUFFICES ASSUME HistoryInit PROVE ChannelInv
    OBVIOUS
  <2>2. /\ loaded \in DOMAIN Modules /\ ch = NoChannel
        /\ current_tick = 0 /\ current_tempo \in m.tempos /\ repeating = FALSE
    BY <2>1 DEF HistoryInit, Init
  <2>3. IsModule(m)
    BY <2>2, ModuleIsLoaded
  <2>4. current_tempo \in Byte
    BY <2>2, <2>3 DEF IsModule
  <2> QED
    BY <2>2, <2>3, <2>4, NoChannelType, ZeroFits DEF ChannelInv
<1>2. ChannelInv /\ [HistoryNext]_hvars => ChannelInv'
  BY ChannelInvKept
<1> QED
  BY <1>1, <1>2, PTL DEF HistorySpec

(* The fields of a channel keep to their ranges, and what a tick computes   *)
(* from its volumes and its panning fits: the type invariant of the run.    *)
THEOREM ChannelAlwaysFits == HistorySpec => []TypeOK
<1>1. ChannelInv => TypeOK
  BY ChannelFields, MixAlwaysFits DEF ChannelInv, TypeOK
<1> QED
  BY <1>1, ChannelInvHolds, PTL

(* The error of a rounding is kept, so a period is what it would be without *)
(* the glissandos and arpeggios since its last slide: the true period       *)
(* moves only with a slide, a tone portamento or a note.                    *)
THEOREM RoundingIsAlwaysUndone == HistorySpec => RoundingIsUndone
<1> DEFINE Undone ==
             LET s == ch'.current
             IN  ~Slides(s) /\ ~HasTonePortamento(s) /\ ~Triggers(s) /\ ch' # NoChannel
                   => TruePeriod(ch'.pitch) = TruePeriod(ch.pitch)
<1>1. ChannelInv /\ [HistoryNext]_hvars => [Undone]_hvars
  <2> SUFFICES ASSUME ChannelInv, HistoryNext PROVE Undone
    OBVIOUS
  <2>1. CASE Plays
    <3>1. PICK chance \in Chances :
            (\E s \in m.slots : Row(s, chance)) \/ Tick(chance) \/ RepeatRow(chance)
      BY <2>1 DEF Plays, Playing
    <3>2. CASE \E s \in m.slots : Row(s, chance)
      <4>1. PICK s \in m.slots : Row(s, chance)
        BY <3>2
      <4>2. /\ ch'.current = s
            /\ ~Triggers(s) /\ ~Slides(s) /\ ~HasTonePortamento(s) => KeepsPeriod(ch, ch')
        BY <4>1, RowSteps
      <4> QED
        BY <4>2 DEF KeepsPeriod
    <3>3. CASE Tick(chance) \/ RepeatRow(chance)
      <4>1. /\ ch'.current = ch.current
            /\ ~Triggers(ch.current) /\ ~Slides(ch.current) /\ ~HasTonePortamento(ch.current)
                 => KeepsPeriod(ch, ch')
        BY <3>3, TickSteps
      <4> QED
        BY <4>1 DEF KeepsPeriod
    <3> QED
      BY <3>1, <3>2, <3>3
  <2>2. CASE SkipTick \/ (\E tick \in 0 .. current_tempo : Seek(tick)) \/ Dump
    <3>1. KeepsPeriod(ch, ch')
      BY <2>2, CallSteps
    <3> QED
      BY <3>1 DEF KeepsPeriod
  <2>3. CASE Reset
    BY <2>3 DEF Reset
  <2> QED
    BY <2>1, <2>2, <2>3 DEF HistoryNext, Skips, Called
<1>2. [][Undone]_hvars => RoundingIsUndone
  BY DEF RoundingIsUndone
<1> HIDE DEF Undone
<1> QED
  BY <1>1, <1>2, ChannelInvHolds, PTL DEF HistorySpec

(* A row ends what the one before left: an arpeggio always, since playing   *)
(* one asks for that, and a vibrato of the effect column unless the row has *)
(* one too; the ticks of the row start nothing its slot has not.            *)
LingerInv == ch.current # NoSlot => EndsInTime(ch.pitch, ch.current)

THEOREM NothingEverLingers == HistorySpec => []NothingLingers
<1>1. HistoryInit => LingerInv
  BY DEF HistoryInit, Init, NoChannel, LingerInv
<1>2. ChannelInv /\ LingerInv /\ [HistoryNext]_hvars => LingerInv'
  <2> SUFFICES ASSUME ChannelInv, LingerInv, [HistoryNext]_hvars PROVE LingerInv'
    OBVIOUS
  <2>0. NoSlot' = NoSlot
    BY DEF NoSlot
  <2>1. CASE Plays
    <3>1. PICK chance \in Chances :
            (\E s \in m.slots : Row(s, chance)) \/ Tick(chance) \/ RepeatRow(chance)
      BY <2>1 DEF Plays, Playing
    <3>2. CASE \E s \in m.slots : Row(s, chance)
      <4>1. EndsInTime(ch'.pitch, ch'.current)
        BY <3>2, RowSteps
      <4> QED
        BY <4>1 DEF LingerInv
    <3>3. CASE Tick(chance) \/ RepeatRow(chance)
      <4>1. ch'.current = ch.current /\ StillEnds(ch.pitch, ch'.pitch, ch.current)
        BY <3>3, TickSteps
      <4> QED
        BY <2>0, <4>1 DEF LingerInv, StillEnds
    <3> QED
      BY <3>1, <3>2, <3>3
  <2>2. CASE SkipTick \/ (\E tick \in 0 .. current_tempo : Seek(tick)) \/ Dump
    <3>1. ch'.current \in {NoSlot, ch.current} /\ KeepsEnds(ch.pitch, ch'.pitch)
      BY <2>2, CallSteps
    <3>2. StillEnds(ch.pitch, ch'.pitch, ch.current)
      BY <3>1, KeepingEnds
    <3> QED
      BY <2>0, <3>1, <3>2 DEF LingerInv, StillEnds
  <2>3. CASE Reset
    <3>1. ch'.current = NoSlot
      BY <2>3 DEF Reset, NoChannel
    <3> QED
      BY <2>0, <3>1 DEF LingerInv
  <2>4. CASE UNCHANGED hvars
    <3>1. ch' = ch
      BY <2>4 DEF hvars, vars
    <3> QED
      BY <2>0, <3>1 DEF LingerInv
  <2> QED
    BY <2>1, <2>2, <2>3, <2>4 DEF HistoryNext, Skips, Called
<1>3. LingerInv => NothingLingers
  BY DEF LingerInv, EndsInTime, NothingLingers
<1> QED
  BY <1>1, <1>2, <1>3, ChannelInvHolds, PTL DEF HistorySpec

(* How often a slot has been handled when so many ticks of its row have     *)
(* been played, repeats counted apart.                                      *)
Times(s, tick) ==
  IF s.effect_type = "DELAY_NOTE" THEN (IF s.effect_param < tick THEN 1 ELSE 0)
  ELSE IF repeating THEN 0 ELSE 1

HandledInv == whole /\ current_tick # 0 => ch.handled = Times(ch.current, current_tick)

(* At any tick of a row that is played from its first, its slot was handled *)
(* at that one, or, with a delay, at the one it names, if that has come.    *)
THEOREM SlotsAreHandledOnce == HistorySpec => []HandledOnce
<1>1. HistoryInit => HandledInv
  BY DEF HistoryInit, Init, HandledInv
<1>2. ChannelInv /\ HandledInv /\ [HistoryNext]_hvars => HandledInv'
  <2> SUFFICES ASSUME ChannelInv, HandledInv, [HistoryNext]_hvars PROVE HandledInv'
    OBVIOUS
  <2>1. CASE Plays
    <3>1. PICK chance \in Chances :
            (\E s \in m.slots : Row(s, chance)) \/ Tick(chance) \/ RepeatRow(chance)
      BY <2>1 DEF Plays, Playing
    <3>2. whole' = (whole \/ current_tick' = 1)
      BY <2>1 DEF Plays
    <3>3. ASSUME NEW s, IsLoadedSlot(s), s.effect_type = "DELAY_NOTE"
          PROVE  s.effect_param \in Nat /\ s.effect_param > 0
      BY <3>3 DEF IsLoadedSlot, IsSlot, IsFixedEffect, Byte
    <3>4. CASE \E s \in m.slots : Row(s, chance)
      <4>1. PICK s \in m.slots : Row(s, chance)
        BY <3>4
      <4>2. /\ ch'.current = s /\ current_tick' = 1 /\ repeating' = FALSE
            /\ ch'.handled = IF s.effect_type = "DELAY_NOTE" THEN 0 ELSE 1
        BY <4>1, RowSteps DEF Row
      <4>3. IsLoadedSlot(s)
        BY ModuleIsLoaded DEF ChannelInv, IsModule
      <4>4. ch'.handled = Times(s, 1)'
        BY <3>3, <4>2, <4>3 DEF Times
      <4> QED
        BY <4>2, <4>4 DEF HandledInv, Times
    <3>5. CASE Tick(chance) \/ RepeatRow(chance)
      <4>1. ch'.current = ch.current /\ IsLoadedSlot(ch.current)
        BY <3>5, TickSteps, CurrentIsLoaded, ModuleIsLoaded DEF ChannelInv
      <4>2. \/ /\ current_tick # 0 /\ current_tick' = current_tick + 1
               /\ repeating' = repeating
               /\ ch'.handled = IF ch.current.effect_type = "DELAY_NOTE"
                                   /\ current_tick = ch.current.effect_param
                                THEN ch.handled + 1 ELSE ch.handled
            \/ current_tick' = 1 /\ repeating' = TRUE /\ ch'.handled = 0
        BY <3>5, TickSteps
      <4>3. current_tick \in Nat
        BY ByteType DEF ChannelInv
      <4>4. CASE /\ current_tick # 0 /\ current_tick' = current_tick + 1
                 /\ repeating' = repeating
                 /\ ch'.handled = IF ch.current.effect_type = "DELAY_NOTE"
                                     /\ current_tick = ch.current.effect_param
                                  THEN ch.handled + 1 ELSE ch.handled
        <5>1. current_tick' # 1
          BY <4>3, <4>4
        <5>2. current_tick' # 1 /\ (whole' => whole)
          BY <3>2, <5>1
        <5>3. CASE ch.current.effect_type = "DELAY_NOTE"
          <6>1. ch.current.effect_param \in Nat
            BY <3>3, <4>1, <5>3
          <6>2. whole => ch.handled = IF ch.current.effect_param < current_tick THEN 1 ELSE 0
            BY <4>4, <5>3 DEF HandledInv, Times
          <6>3. whole => ch'.handled =
                           IF ch.current.effect_param < current_tick' THEN 1 ELSE 0
            BY <4>3, <4>4, <5>3, <6>1, <6>2
          <6> QED
            BY <4>1, <5>2, <5>3, <6>3 DEF HandledInv, Times
        <5>4. CASE ch.current.effect_type # "DELAY_NOTE"
          BY <4>1, <4>4, <5>2, <5>4 DEF HandledInv, Times
        <5> QED
          BY <5>3, <5>4
      <4>5. CASE current_tick' = 1 /\ repeating' = TRUE /\ ch'.handled = 0
        <5>1. ch'.handled = Times(ch.current, 1)'
          BY <3>3, <4>1, <4>5 DEF Times
        <5> QED
          BY <4>1, <4>5, <5>1 DEF HandledInv, Times
      <4> QED
        BY <4>2, <4>4, <4>5
    <3> QED
      BY <3>1, <3>4, <3>5
  <2>2. CASE Skips \/ Called
    BY <2>2 DEF Skips, Called, HandledInv
  <2>3. CASE UNCHANGED hvars
    BY <2>3 DEF HandledInv, Times, hvars, vars
  <2> QED
    BY <2>1, <2>2, <2>3 DEF HistoryNext
<1>3. HandledInv => HandledOnce
  BY DEF HandledInv, HandledOnce, Times
<1> QED
  BY <1>1, <1>2, <1>3, ChannelInvHolds, PTL DEF HistorySpec

(* While the beginning of a part was seen, tremor_ticks is what is left of  *)
(* it, whatever row or parameter comes: a part can only end on time.        *)
TremorInv ==
  /\ part \in [ticks : Nat, length : Nat, in_time : BOOLEAN] /\ part.in_time
  /\ part.length # 0 => part.ticks >= 1 /\ ch.vol.tremor_ticks = part.length - part.ticks

(* A tick at which a tremor runs.                                           *)
LEMMA TremorRuns ==
  ASSUME TremorInv, RunsTremor, part' = PartAfter,
         NEW v \in Volumes, NEW param \in Byte, param = TremorParam, ch'.vol = Tremor(v, param),
         v.tremor_on = ch.vol.tremor_on, v.tremor_ticks \in {0, ch.vol.tremor_ticks},
         ~Restarts => v.tremor_ticks = ch.vol.tremor_ticks
  PROVE  TremorInv'
<1>1. /\ ch'.vol \in Volumes /\ (Flips <=> v.tremor_ticks = 0)
      /\ v.tremor_ticks = 0 =>
           ch'.vol.tremor_ticks = IF ch'.vol.tremor_on THEN High(param) ELSE Low(param)
      /\ v.tremor_ticks # 0 => ch'.vol.tremor_ticks = v.tremor_ticks - 1
  BY TremorCounts DEF Flips
<1>2. v.tremor_ticks \in Nat
  BY VolumeFields, ByteType
<1>3. /\ part.ticks \in Nat /\ part.length \in Nat /\ part.in_time = TRUE
      /\ part.length # 0 => part.ticks >= 1 /\ ch.vol.tremor_ticks = part.length - part.ticks
  BY DEF TremorInv
<1>4. CASE Flips
  <2>1. part' = [ticks |-> 1, length |-> PartLength,
                 in_time |-> part.in_time /\ (Restarts \/ part.length \in {0, part.ticks})]
    BY <1>4 DEF PartAfter
  <2>2. Restarts \/ part.length \in {0, part.ticks}
    <3>1. CASE ~Restarts /\ part.length # 0
      <4>1. ch.vol.tremor_ticks = 0
        BY <1>1, <1>4, <3>1
      <4> QED
        BY <1>3, <3>1, <4>1
    <3> QED
      BY <3>1
  <2>3. PartLength \in Nat /\ PartLength = ch'.vol.tremor_ticks + 1
        /\ ch'.vol.tremor_ticks \in Nat
    <3>1. High(param) \in Nat /\ Low(param) \in Nat
      BY Nibbles
    <3>2. PartLength = 1 + (IF ch'.vol.tremor_on THEN High(param) ELSE Low(param))
      BY DEF PartLength
    <3> QED
      BY <1>1, <1>4, <3>1, <3>2
  <2>4. part' = [ticks |-> 1, length |-> PartLength, in_time |-> TRUE]
    BY <1>3, <2>1, <2>2
  <2> QED
    BY <2>3, <2>4 DEF TremorInv
<1>5. CASE ~Flips
  <2>1. v.tremor_ticks # 0 /\ v.tremor_ticks = ch.vol.tremor_ticks
        /\ ch'.vol.tremor_ticks = ch.vol.tremor_ticks - 1
    BY <1>1, <1>5
  <2>2. CASE part.length # 0
    <3>1. part' = [part EXCEPT !.ticks = @ + 1,
                               !.in_time = @ /\ part.ticks < part.length]
      BY <1>5, <2>2 DEF PartAfter
    <3>2. part.ticks < part.length
      BY <1>2, <1>3, <2>1, <2>2
    <3>3. part' = [ticks |-> part.ticks + 1, length |-> part.length, in_time |-> TRUE]
      BY <1>3, <3>1, <3>2 DEF TremorInv
    <3> QED
      BY <1>2, <1>3, <2>1, <2>2, <3>3 DEF TremorInv
  <2>3. CASE part.length = 0
    <3>1. part' = [part EXCEPT !.ticks = 0, !.length = 0] \/ part' = part
      BY <1>5, <2>3 DEF PartAfter
    <3> QED
      BY <2>3, <3>1 DEF TremorInv
  <2> QED
    BY <2>2, <2>3
<1> QED
  BY <1>4, <1>5

(* A tick at which none does.                                               *)
LEMMA TremorRests ==
  ASSUME TremorInv, ~RunsTremor, part' = PartAfter,
         ~Restarts => ch'.vol.tremor_ticks = ch.vol.tremor_ticks
  PROVE  TremorInv'
<1>1. part' = IF Restarts THEN [part EXCEPT !.ticks = 0, !.length = 0] ELSE part
  BY DEF PartAfter
<1>2. CASE Restarts
  <2>1. part' = [ticks |-> 0, length |-> 0, in_time |-> part.in_time]
    BY <1>1, <1>2 DEF TremorInv
  <2> QED
    BY <2>1 DEF TremorInv
<1>3. CASE ~Restarts
  BY <1>1, <1>3 DEF TremorInv
<1> QED
  BY <1>2, <1>3

(* A tremor holds each of its parts for as many ticks as its nibble asks,   *)
(* and one more, however rows with other effects come between.              *)
THEOREM TremorAlwaysKeepsTime == HistorySpec => []TremorKeepsTime
<1>1. HistoryInit => TremorInv
  BY DEF HistoryInit, NoPart, TremorInv
<1>2. ChannelInv /\ TremorInv /\ [HistoryNext]_hvars => TremorInv'
  <2> SUFFICES ASSUME ChannelInv, TremorInv, [HistoryNext]_hvars PROVE TremorInv'
    OBVIOUS
  <2>1. CASE Plays
    <3>1. PICK chance \in Chances :
            (\E s \in m.slots : Row(s, chance)) \/ Tick(chance) \/ RepeatRow(chance)
      BY <2>1 DEF Plays, Playing
    <3>2. part' = PartAfter
      BY <2>1 DEF Plays
    <3>3. CASE \E s \in m.slots : Row(s, chance)
      <4>1. PICK s \in m.slots : Row(s, chance)
        BY <3>3
      <4>2. /\ ch' \in Channels' /\ ch'.current = s /\ FirstTick
            /\ s.effect_type = "S3M_TREMOR" =>
                 \E v \in Volumes : Found(ch.vol, s, v) /\ ch'.vol = Tremor(v, ch'.effect_param)
            /\ s.effect_type # "S3M_TREMOR" => Found(ch.vol, s, ch'.vol)
        BY <4>1, RowSteps, SameModule DEF FirstTick
      <4>3. ~Restarts => s.instrument = 0
        BY <4>2 DEF Restarts
      <4>4. CASE s.effect_type = "S3M_TREMOR"
        <5>1. PICK v \in Volumes : Found(ch.vol, s, v) /\ ch'.vol = Tremor(v, ch'.effect_param)
          BY <4>2, <4>4
        <5>2. RunsTremor /\ TremorParam = ch'.effect_param
          BY <4>2, <4>4 DEF RunsTremor, TremorParam
        <5>3. ch'.effect_param \in Byte
          BY <4>1, RowSteps, ChannelFields
        <5> QED
          BY <3>2, <4>3, <5>1, <5>2, <5>3, TremorRuns DEF Found
      <4>5. CASE s.effect_type # "S3M_TREMOR"
        <5>1. ~RunsTremor
          BY <4>2, <4>5 DEF RunsTremor
        <5>2. ~Restarts => ch'.vol.tremor_ticks = ch.vol.tremor_ticks
          BY <4>2, <4>3, <4>5 DEF Found
        <5> QED
          BY <3>2, <5>1, <5>2, TremorRests
      <4> QED
        BY <4>4, <4>5
    <3>4. CASE Tick(chance) \/ RepeatRow(chance)
      <4> DEFINE s == ch.current
      <4>1. /\ ch' \in Channels /\ ch'.current = s
            /\ s.effect_type = "TREMOR" =>
                 \E v \in Volumes :
                   KeepsTremor(ch.vol, v) /\ ch'.vol = Tremor(v, ch'.vol.tremor_param)
            /\ s.effect_type = "S3M_TREMOR" =>
                 \E v \in Volumes :
                   KeepsTremor(ch.vol, v) /\ ch'.vol = Tremor(v, ch'.effect_param)
            /\ s.effect_type \notin Restarting \cup {"TREMOR", "S3M_TREMOR"} =>
                 KeepsPart(ch, ch')
        BY <3>4, TickSteps
      <4>2. ~FirstTick
        <5>1. CASE Tick(chance)
          <6>1. current_tick \in Nat /\ current_tick # 0 /\ current_tick' = current_tick + 1
            BY <5>1, ByteType DEF Tick, ChannelInv
          <6> QED
            BY <6>1 DEF FirstTick
        <5>2. CASE RepeatRow(chance)
          BY <5>2 DEF RepeatRow, FirstTick
        <5> QED
          BY <3>4, <5>1, <5>2
      <4>3. ch'.effect_param \in Byte /\ ch'.vol.tremor_param \in Byte
        BY <4>1, ChannelFields, VolumeFields
      <4> HIDE DEF s
      <4>4. CASE s.effect_type = "TREMOR"
        <5>1. PICK v \in Volumes :
                KeepsTremor(ch.vol, v) /\ ch'.vol = Tremor(v, ch'.vol.tremor_param)
          BY <4>1, <4>4
        <5>2. RunsTremor /\ TremorParam = ch'.vol.tremor_param
          BY <4>1, <4>2, <4>4 DEF RunsTremor, TremorParam
        <5> QED
          BY <3>2, <4>3, <5>1, <5>2, TremorRuns DEF KeepsTremor
      <4>5. CASE s.effect_type = "S3M_TREMOR"
        <5>1. PICK v \in Volumes :
                KeepsTremor(ch.vol, v) /\ ch'.vol = Tremor(v, ch'.effect_param)
          BY <4>1, <4>5
        <5>2. RunsTremor /\ TremorParam = ch'.effect_param
          BY <4>1, <4>5 DEF RunsTremor, TremorParam
        <5> QED
          BY <3>2, <4>3, <5>1, <5>2, TremorRuns DEF KeepsTremor
      <4>6. CASE s.effect_type \notin {"TREMOR", "S3M_TREMOR"}
        <5>1. ~RunsTremor
          BY <4>1, <4>6 DEF RunsTremor
        <5>2. ~Restarts => ch'.vol.tremor_ticks = ch.vol.tremor_ticks
          BY <4>1, <4>6 DEF Restarts, Restarting, KeepsPart, KeepsTremor
        <5> QED
          BY <3>2, <5>1, <5>2, TremorRests
      <4> QED
        BY <4>4, <4>5, <4>6
    <3> QED
      BY <3>1, <3>3, <3>4
  <2>2. CASE Skips
    BY <2>2 DEF Skips, SkipTick, TremorInv
  <2>3. CASE Called
    <3>1. CASE Reset /\ part' = NoPart
      BY <3>1 DEF NoPart, TremorInv
    <3>2. CASE ((\E tick \in 0 .. current_tempo : Seek(tick)) \/ Dump) /\ part' = part
      <4>1. ch'.vol = ch.vol
        BY <3>2, CallSteps
      <4> QED
        BY <3>2, <4>1 DEF TremorInv
    <3> QED
      BY <2>3, <3>1, <3>2 DEF Called
  <2>4. CASE UNCHANGED hvars
    BY <2>4 DEF TremorInv, hvars, vars
  <2> QED
    BY <2>1, <2>2, <2>3, <2>4 DEF HistoryNext
<1>3. TremorInv => TremorKeepsTime
  BY DEF TremorInv, TremorKeepsTime
<1> QED
  BY <1>1, <1>2, <1>3, ChannelInvHolds, PTL DEF HistorySpec
=============================================================================
