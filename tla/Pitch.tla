--------------------------------- MODULE Pitch ---------------------------------
(***************************************************************************)
(* What a channel of libxm keeps for its note and period, and the helpers  *)
(* of src/play.c that change it: notes, slides, portamento, vibrato,       *)
(* arpeggio and the rounding to semitones two of them need.  Every         *)
(* operator maps the state p before a helper to the state after it.        *)
(*                                                                         *)
(* A module m is a record of what notes are looked up in.  A sample or an  *)
(* instrument is its number, from 1 on; NULL is 0.  The period of a note   *)
(* is given by a table, since that of Amiga frequencies is a rounded power *)
(* of two.  Envelopes and the position in a sample have modules of their   *)
(* own, the frequency that follows from a period is left out.              *)
(***************************************************************************)
EXTENDS Volume

NULL == 0
MAX_NOTE == 96
NOTE_KEY_OFF == 128
NOTE_RETRIGGER == MAX_NOTE + 1
NOTE_SWITCH == MAX_NOTE + 2

NoPitch ==
  [instrument |-> NULL, sample |-> NULL, next_instrument |-> 0, orig_note |-> 0,
   finetune |-> 0, period |-> 0, glissando_control_param |-> 0,
   glissando_control_error |-> 0, tone_portamento_target_period |-> 0,
   tone_portamento_param |-> 0, portamento_up_param |-> 0, portamento_down_param |-> 0,
   fine_portamento_up_param |-> 0, fine_portamento_down_param |-> 0,
   extra_fine_portamento_up_param |-> 0, extra_fine_portamento_down_param |-> 0,
   vibrato_param |-> 0, vibrato_ticks |-> 0, vibrato_control_param |-> 0,
   vibrato_offset |-> 0, should_reset_vibrato |-> FALSE,
   arp_note_offset |-> 0, should_reset_arpeggio |-> FALSE,
   sample_offset_param |-> 0, sample_offset_invalid |-> FALSE]

(* An uint16_t.                                                             *)
Words == 65536
Word == 0 .. Words - 1
Uint16(n) == n % Words

Pitches(m) ==
  [instrument : 0 .. m.num_instruments, sample : 0 .. m.num_samples,
   next_instrument : Byte, orig_note : 0 .. MAX_NOTE,
   finetune : -16 .. 15, period : Word, glissando_control_param : Byte,
   glissando_control_error : -32 .. 31, tone_portamento_target_period : Word,
   tone_portamento_param : Byte, portamento_up_param : Byte, portamento_down_param : Byte,
   fine_portamento_up_param : Byte, fine_portamento_down_param : Byte,
   extra_fine_portamento_up_param : Byte, extra_fine_portamento_down_param : Byte,
   vibrato_param : Byte, vibrato_ticks : Byte, vibrato_control_param : Byte,
   vibrato_offset : -120 .. 119, should_reset_vibrato : BOOLEAN,
   arp_note_offset : 0 .. 15, should_reset_arpeggio : BOOLEAN,
   sample_offset_param : Byte, sample_offset_invalid : BOOLEAN]

-----------------------------------------------------------------------------
(* Slides.                                                                   *)

(* The period before it was rounded to a semitone.                          *)
TruePeriod(p) == Uint16(p.period + p.glissando_control_error)

(* All slides take the rounding back first, and a lingering vibrato.        *)
Unrounded(p) ==
  [p EXCEPT !.period = TruePeriod(p), !.glissando_control_error = 0, !.vibrato_offset = 0]

Overflows(p, offset) == p.period + offset \notin Word

SlideWrapping(p, offset) == [Unrounded(p) EXCEPT !.period = Uint16(@ + offset)]

SlideClamped(p, offset) ==
  LET slid == SlideWrapping(p, offset)
  IN  IF ~Overflows(Unrounded(p), offset) THEN slid
      ELSE [slid EXCEPT !.period = IF offset > 0 THEN 32767 ELSE 1]

SlideCutting(p, offset) ==
  LET slid == SlideWrapping(p, offset)
  IN  IF ~Overflows(Unrounded(p), offset) THEN slid ELSE [slid EXCEPT !.sample = NULL]

(* To the nearest semitone, which is 64 units of a linear period.  Amiga    *)
(* periods are not rounded, the code has that still to do.                  *)
RoundedForgetting(p, m) ==  \* mutant: rounds what was rounded already
  LET shifted == p.period + (4 * p.finetune) + 32
      period == Uint16((shifted - (shifted % 64)) - (4 * p.finetune))
  IN  IF m.amiga_frequencies THEN p
      ELSE [p EXCEPT !.glissando_control_error = Int8(p.period - period), !.period = period]
Rounded(p, m) ==
  LET u == Unrounded(p)
      shifted == u.period + (4 * u.finetune) + 32
      period == Uint16(Uint16(shifted - (shifted % 64)) - (4 * u.finetune))
  IN  IF m.amiga_frequencies THEN u
      ELSE [u EXCEPT !.glissando_control_error = Int8(u.period - period), !.period = period]

TonePortamentoOvershooting(p, m) ==  \* mutant: the last step is not cut short
  LET incr == 4 * p.tone_portamento_param
      slid == SlideWrapping(p, IF p.tone_portamento_target_period >= p.period
                               THEN incr ELSE -incr)
  IN  IF p.tone_portamento_target_period = 0 \/ p.period = 0 THEN p
      ELSE IF p.glissando_control_param # 0 THEN Rounded(slid, m) ELSE slid
TonePortamentoStalling(p, m) ==  \* mutant: whole steps only
  LET incr == 4 * p.tone_portamento_param
      diff == p.tone_portamento_target_period - p.period
      slid == SlideWrapping(p, IF diff >= incr THEN incr ELSE IF diff <= -incr THEN -incr ELSE 0)
  IN  IF p.tone_portamento_target_period = 0 \/ p.period = 0 THEN p
      ELSE IF p.glissando_control_param # 0 THEN Rounded(slid, m) ELSE slid
TonePortamento(p, m) ==
  LET incr == 4 * p.tone_portamento_param
      diff == p.tone_portamento_target_period - p.period
      slid == SlideWrapping(p, IF diff > incr THEN incr ELSE IF diff < -incr THEN -incr ELSE diff)
  IN  IF p.tone_portamento_target_period = 0 \/ p.period = 0 THEN p
      ELSE IF p.glissando_control_param # 0 THEN Rounded(slid, m) ELSE slid

-----------------------------------------------------------------------------
(* Oscillators.                                                              *)

Vibrato(p, fine, random) ==
  LET wave == Waveform(p.vibrato_control_param, p.vibrato_ticks, random)
      div == IF fine THEN 64 ELSE 16
  IN  [Unrounded(p) EXCEPT
         !.vibrato_offset = Int8(Quotient(wave * Low(p.vibrato_param), div)),
         !.vibrato_ticks = Advanced(@, p.vibrato_param)]

(* t counts the ticks of a row down, modulo 256; FT2 reads past a table of  *)
(* sixteen.                                                                 *)
Arpeggio(p, m, tick, tempo, param) ==
  LET t == (tempo - tick) % 256
      rounded == Rounded([p EXCEPT !.should_reset_arpeggio = TRUE], m)
  IN  IF tick = 0 \/ t = 16 \/ (t < 16 /\ t % 3 = 0)
      THEN [p EXCEPT !.arp_note_offset = 0]
      ELSE [rounded EXCEPT !.arp_note_offset =
              IF t > 16 \/ t % 3 = 2 THEN Low(param) ELSE High(param)]

(* At the end of a slot, xm_row() stops what should not outlast its row.    *)
EndArpeggioKeeping(p) ==  \* mutant: the offset outlasts the rounding
  IF ~p.should_reset_arpeggio THEN p
  ELSE [Unrounded(p) EXCEPT !.should_reset_arpeggio = FALSE]
EndArpeggio(p) ==
  IF ~p.should_reset_arpeggio THEN p
  ELSE [Unrounded(p) EXCEPT !.should_reset_arpeggio = FALSE, !.arp_note_offset = 0]

EndVibrato(p, has_vibrato) ==
  IF p.should_reset_vibrato /\ ~has_vibrato THEN [p EXCEPT !.vibrato_offset = 0] ELSE p

-----------------------------------------------------------------------------
(* Effects with a memory, which 00 uses as it is; four units are a fine     *)
(* step of a slide.                                                         *)

PortamentoUp(p, param) ==
  LET seen == [p EXCEPT !.portamento_up_param = Remember(@, param)]
  IN  SlideClamped(seen, -4 * seen.portamento_up_param)

PortamentoDown(p, param) ==
  LET seen == [p EXCEPT !.portamento_down_param = Remember(@, param)]
  IN  SlideWrapping(seen, 4 * seen.portamento_down_param)

FinePortamentoUp(p, param) ==
  LET seen == [p EXCEPT !.fine_portamento_up_param = IF param # 0 THEN (4 * param) % 256 ELSE @]
  IN  SlideClamped(seen, -seen.fine_portamento_up_param)

FinePortamentoDown(p, param) ==
  LET seen == [p EXCEPT !.fine_portamento_down_param =
                 IF param # 0 THEN (4 * param) % 256 ELSE @]
  IN  SlideWrapping(seen, seen.fine_portamento_down_param)

ExtraFinePortamentoUp(p, param) ==
  LET seen == [p EXCEPT !.extra_fine_portamento_up_param =
                 IF Low(param) # 0 THEN param ELSE @]
  IN  SlideClamped(seen, -seen.extra_fine_portamento_up_param)

ExtraFinePortamentoDown(p, param) ==
  LET seen == [p EXCEPT !.extra_fine_portamento_down_param = Remember(@, param)]
  IN  SlideWrapping(seen, seen.extra_fine_portamento_down_param)

(* S3M keeps one memory: Ey is an extra fine slide, Fy a fine one, and both *)
(* only move at the first tick.                                             *)
S3MFineSlide(memory) ==
  CASE High(memory) = 14 -> Low(memory) [] High(memory) = 15 -> 4 * Low(memory)
S3MSlidesFine(memory) == High(memory) \in {14, 15}

PitchAtFirstTick(p, s, memory) ==
  CASE s.effect_type = "EXTRA_FINE_PORTAMENTO_UP" -> ExtraFinePortamentoUp(p, s.effect_param)
    [] s.effect_type = "EXTRA_FINE_PORTAMENTO_DOWN" -> ExtraFinePortamentoDown(p, s.effect_param)
    [] s.effect_type = "FINE_PORTAMENTO_UP" -> FinePortamentoUp(p, s.effect_param)
    [] s.effect_type = "FINE_PORTAMENTO_DOWN" -> FinePortamentoDown(p, s.effect_param)
    [] s.effect_type = "S3M_PORTAMENTO_UP" /\ S3MSlidesFine(memory) ->
         SlideCutting(p, -S3MFineSlide(memory))
    [] s.effect_type = "S3M_PORTAMENTO_DOWN" /\ S3MSlidesFine(memory) ->
         SlideCutting(p, S3MFineSlide(memory))
    [] s.effect_type = "SET_GLISSANDO_CONTROL" ->
         [p EXCEPT !.glissando_control_param = s.effect_param]
    [] s.effect_type = "SET_VIBRATO_CONTROL" ->
         [p EXCEPT !.vibrato_control_param = s.effect_param]
    [] OTHER -> p

(* Only the vibrato of the effect column is undone when it stops.           *)
IsFine(s) == s.effect_type = "FINE_VIBRATO"
ColumnVibrato(p, s, random) ==
  Vibrato([p EXCEPT !.vibrato_param = UpdateXY(@, Low(s.volume_column)),
                    !.should_reset_vibrato = FALSE], IsFine(s), random)
EffectVibrato(p, s, random) ==
  Vibrato([p EXCEPT !.should_reset_vibrato = TRUE], IsFine(s), random)

PitchColumnOfTick(p, m, s, random) ==
  CASE High(s.volume_column) = 11 -> ColumnVibrato(p, s, random)
    [] High(s.volume_column) = 15 -> TonePortamento(p, m)
    [] OTHER -> p

PitchOfTick(p, m, s, memory, tick, tempo, random) ==
  CASE s.effect_type = "ARPEGGIO" /\ s.effect_param # 0 ->
         Arpeggio(p, m, tick, tempo, s.effect_param)
    [] s.effect_type = "S3M_ARPEGGIO" -> Arpeggio(p, m, tick, tempo, memory)
    [] s.effect_type = "PORTAMENTO_UP" -> PortamentoUp(p, s.effect_param)
    [] s.effect_type = "PORTAMENTO_DOWN" -> PortamentoDown(p, s.effect_param)
    [] s.effect_type = "S3M_PORTAMENTO_UP" /\ memory < 224 -> SlideCutting(p, -4 * memory)
    [] s.effect_type = "S3M_PORTAMENTO_DOWN" /\ memory < 224 -> SlideCutting(p, 4 * memory)
    [] s.effect_type \in {"TONE_PORTAMENTO", "TONE_PORTAMENTO_VOLUME_SLIDE"} ->
         TonePortamento(p, m)
    [] s.effect_type \in {"VIBRATO", "FINE_VIBRATO"} ->
         EffectVibrato([p EXCEPT !.vibrato_param = UpdateXY(@, s.effect_param)], s, random)
    [] s.effect_type = "VIBRATO_VOLUME_SLIDE" -> EffectVibrato(p, s, random)
    [] s.effect_type = "S3M_VIBRATO_VOLUME_SLIDE" /\ IsTickSlide(memory) ->
         EffectVibrato(p, s, random)
    [] s.effect_type = "S3M_TONE_PORTAMENTO_VOLUME_SLIDE" /\ IsTickSlide(memory) ->
         TonePortamento(p, m)
    [] OTHER -> p

-----------------------------------------------------------------------------
(* Notes.                                                                    *)

IsNote(n) == n > 0 /\ n < 120

(* The period of a note with its finetune, in sixteenths of a semitone.     *)
Period(m, note, finetune) == m.periods[(16 * (note - 1)) + finetune]

(* 3xx uses the relative note of the sample that plays, whatever the slot's *)
(* instrument.                                                              *)
TonePortamentoTarget(p, m, note) ==
  LET target == note + m.samples[p.sample].relative_note
  IN  IF p.sample = NULL \/ ~IsNote(target) THEN p
      ELSE [p EXCEPT !.tone_portamento_target_period = Period(m, target, p.finetune)]

(* An instrument that saw no note yet is indexed before its first: stray is *)
(* what is found there.                                                     *)
SampleOfNote(p, m, stray) ==
  IF p.orig_note = 0 THEN stray ELSE m.instruments[p.next_instrument].sample_of_notes[p.orig_note]

HasInstrument(p, m) == p.next_instrument \in 1 .. m.num_instruments
HasSample(p, m, stray) == HasInstrument(p, m) /\ SampleOfNote(p, m, stray) < m.num_samples
NoteOf(p, m, stray) ==
  p.orig_note + m.samples[SampleOfNote(p, m, stray) + 1].relative_note

IsCut(p, m, stray) == ~HasSample(p, m, stray)
IsIgnored(p, m, stray) == HasSample(p, m, stray) /\ ~IsNote(NoteOf(p, m, stray))
IsSwitch(p, m, slot, stray) ==
  HasSample(p, m, stray) /\ IsNote(NoteOf(p, m, stray)) /\ slot.note = NOTE_SWITCH

WithInstrument(p) == [p EXCEPT !.instrument = p.next_instrument]
WithSample(p, m, stray) == [WithInstrument(p) EXCEPT !.sample = SampleOfNote(p, m, stray) + 1]

(* 9xx, in microsteps; positions are 256 frames apart.                      *)
OffsetParam(p, slot) ==
  IF slot.effect_type = "SET_SAMPLE_OFFSET"
  THEN Remember(p.sample_offset_param, slot.effect_param) ELSE p.sample_offset_param
StartsPastEnd(p, m, slot) ==
  /\ slot.effect_type = "SET_SAMPLE_OFFSET"
  /\ OffsetParam(p, slot) * 256 >= m.samples[p.sample].length

Struck(p, m, slot, note) ==
  LET finetune == IF slot.effect_type = "SET_FINETUNE" THEN (2 * slot.effect_param) - 16
                  ELSE m.samples[p.sample].finetune
  IN  [p EXCEPT
         !.finetune = finetune,
         !.period = Period(m, note, finetune),
         !.sample_offset_param = OffsetParam(p, slot),
         !.sample_offset_invalid = StartsPastEnd(p, m, slot),
         !.glissando_control_error = 0,
         !.vibrato_offset = 0]

(* xm_trigger_note(), but for the volume of a note that is cut.             *)
TriggerPitch(p, m, slot, stray) ==
  CASE IsCut(p, m, stray) -> [p EXCEPT !.instrument = NULL, !.sample = NULL]
    [] IsIgnored(p, m, stray) -> WithInstrument(p)
    [] IsSwitch(p, m, slot, stray) -> WithSample(p, m, stray)
    [] OTHER -> Struck(WithSample(p, m, stray), m, slot, NoteOf(p, m, stray))

(* What xm_trigger_instrument() does to periods.                            *)
RestartVibrato(p) ==
  [p EXCEPT !.vibrato_ticks = IF p.vibrato_control_param >= 128 THEN @ ELSE 0]
=============================================================================
