-------------------------------- MODULE Channel --------------------------------
(***************************************************************************)
(* A channel of libxm between the sequencer and the mixer: what the slots  *)
(* of a column do to its volume and its pitch, at the first tick of a row  *)
(* (xm_handle_pattern_slot()) and at the others (xm_tick_effects()), see   *)
(* src/play.c.                                                             *)
(*                                                                         *)
(* The helpers are in Volume and Pitch; here they are put together.  The   *)
(* channel is one record ch, because a slot changes it in several steps    *)
(* that read each other's result.  Which slot comes next, how long a row   *)
(* lasts and whether it is repeated is the sequencer's, and free here.     *)
(***************************************************************************)
EXTENDS Slots, Sequences

CONSTANTS
  Modules,  \* a sequence of modules, see IsModule
  Random,   \* what xm_rand16() may return, as an int8_t
  Stray     \* what an array may hold before its first element

IsSample(x) ==
  /\ x.volume \in 0 .. MAX_VOLUME /\ x.panning \in Byte
  /\ x.finetune \in -16 .. 15 /\ x.relative_note \in -128 .. 127 /\ x.length \in Nat

IsInstrument(x) ==
  x.has_envelope \in BOOLEAN /\ \A n \in 1 .. MAX_NOTE : x.sample_of_notes[n] \in Nat

(* Where a period is looked up: notes 1 to 119, with their finetune.        *)
Tunings == -16 .. 1903

IsModule(m) ==
  /\ m.num_instruments \in Byte /\ m.num_samples \in Nat
  /\ \A i \in 1 .. m.num_instruments : IsInstrument(m.instruments[i])
  /\ \A i \in 1 .. m.num_samples : IsSample(m.samples[i])
  /\ \A n \in Tunings : m.periods[n] \in Word \ {0}
  /\ m.amiga_frequencies \in BOOLEAN /\ m.fast_s3m_volume_slides \in BOOLEAN
  /\ m.default_global_volume \in 0 .. MAX_VOLUME /\ m.channel_panning \in Byte
  /\ \A s \in m.slots : IsLoadedSlot(s)
  /\ m.tempos \subseteq Byte

ASSUME ModulesAssumption == \A i \in DOMAIN Modules : IsModule(Modules[i])
ASSUME RandomAssumption == Random # {} /\ Random \subseteq -128 .. 127
ASSUME StrayAssumption == Stray # {} /\ Stray \subseteq Nat

VARIABLES
  loaded,         \* the number of the module that is played
  ch,             \* the channel
  current_tick,
  current_tempo,
  repeating       \* extra_rows_done # 0: the row is played once more

vars == <<loaded, ch, current_tick, current_tempo, repeating>>

m == Modules[loaded]

(* What a step cannot know beforehand, where it is of use.                  *)
IsRandom(control) == control % 128 = 3
Chances ==
  [random : IF IsRandom(ch.vol.tremolo_control_param) \/ IsRandom(ch.pitch.vibrato_control_param)
            THEN Random ELSE {0},
   stray : IF ch.pitch.orig_note = 0 THEN Stray ELSE {0}]

-----------------------------------------------------------------------------
(* Slots.                                                                    *)

HasTonePortamento(s) ==
  \/ s.effect_type \in {"TONE_PORTAMENTO", "TONE_PORTAMENTO_VOLUME_SLIDE",
                        "S3M_TONE_PORTAMENTO_VOLUME_SLIDE"}
  \/ High(s.volume_column) = 15

HasVibrato(s) ==
  \/ s.effect_type \in {"VIBRATO", "FINE_VIBRATO", "VIBRATO_VOLUME_SLIDE",
                        "S3M_VIBRATO_VOLUME_SLIDE"}
  \/ High(s.volume_column) = 11

IsKeyOff(s) == s.note >= 128
SetsVolume(s) == s.volume_column \in 16 .. 80

-----------------------------------------------------------------------------
(* Triggers.                                                                 *)

TriggerNote(c, chance) ==
  [c EXCEPT !.pitch = TriggerPitch(@, m, c.current, chance.stray),
            !.vol = IF IsCut(c.pitch, m, chance.stray) THEN CutNote(@) ELSE @]

TriggerInstrument(c) ==
  [c EXCEPT !.vol = TriggerVolume(@), !.pitch = RestartVibrato(@)]

(* Without an envelope to release, a key off cuts the note.                 *)
KeyOff(c) ==
  IF c.pitch.instrument = NULL \/ ~m.instruments[c.pitch.instrument].has_envelope
  THEN [c EXCEPT !.vol = CutNote(@)] ELSE c

(* Rxy.  The counter runs on over rows, so a note may be triggered late.    *)
MultiRetrigNote(c, tick, param, chance) ==
  LET ticks == (c.vol.multi_retrig_ticks + 1) % 256
      again == TriggerNote([c EXCEPT !.vol.multi_retrig_ticks = 0], chance)
  IN  IF c.current.volume_column # 0 /\ tick = 0 THEN c
      ELSE IF ticks < Low(param) THEN [c EXCEPT !.vol.multi_retrig_ticks = ticks]
      ELSE IF SetsVolume(c.current) THEN again
      ELSE [again EXCEPT !.vol.volume = RetrigVolume(@, High(param))]

-----------------------------------------------------------------------------
(* xm_handle_pattern_slot(), from top to bottom.                             *)

(* Always, even with a key off.                                             *)
SeeInstrument(c) ==
  IF c.current.instrument = 0 THEN c
  ELSE [c EXCEPT !.pitch.next_instrument = c.current.instrument]

SeeNote(c, chance) ==
  LET s == c.current
  IN  CASE IsKeyOff(s) -> KeyOff(c)
        [] s.note = 0 -> c
        [] s.note \in 1 .. MAX_NOTE /\ HasTonePortamento(s) ->
             [c EXCEPT !.pitch = TonePortamentoTarget(@, m, s.note)]
        [] s.note \in 1 .. MAX_NOTE /\ ~HasTonePortamento(s) ->
             TriggerNote([c EXCEPT !.pitch.orig_note = s.note], chance)
        [] OTHER -> TriggerNote(c, chance)

UseInstrument(c) ==
  LET smp == m.samples[c.pitch.sample]
      reset == IF c.pitch.sample = NULL THEN c
               ELSE [c EXCEPT !.vol.volume = smp.volume, !.vol.panning = smp.panning]
  IN  IF c.current.instrument = 0 THEN c
      ELSE IF IsKeyOff(c.current) THEN reset ELSE TriggerInstrument(reset)

ColumnAlways(c) ==
  LET column == c.current.volume_column
  IN  CASE SetsVolume(c.current) -> [c EXCEPT !.vol = SetVolume(@, column - 16)]
        [] High(column) = 12 -> [c EXCEPT !.vol.panning = 16 * Low(column)]
        [] High(column) = 15 ->
             [c EXCEPT !.pitch.tone_portamento_param = Remember(@, 16 * Low(column))]
        [] OTHER -> c

RememberParams(c) ==
  LET s == c.current
      ported == IF s.effect_type = "TONE_PORTAMENTO" /\ High(s.volume_column) # 15
                THEN [c EXCEPT !.pitch.tone_portamento_param = Remember(@, s.effect_param)]
                ELSE c
  IN  [ported EXCEPT !.effect_param = Remember(@, s.effect_param)]

ColumnFirstTick(c) ==
  LET column == c.current.volume_column
  IN  CASE High(column) = 8 -> [c EXCEPT !.vol = SlideVolume(@, Low(column))]
        [] High(column) = 9 -> [c EXCEPT !.vol = SlideVolume(@, 16 * Low(column))]
        [] High(column) = 10 ->
             [c EXCEPT !.pitch.vibrato_param = UpdateXY(@, 16 * Low(column))]
        [] OTHER -> c

SlotEffect(c, tick, chance) ==
  LET s == c.current
      param == UpdateXY(c.vol.multi_retrig_param, s.effect_param)
  IN  CASE s.effect_type = "MULTI_RETRIG_NOTE" ->
             MultiRetrigNote([c EXCEPT !.vol.multi_retrig_param = param], tick, param, chance)
        [] s.effect_type = "S3M_MULTI_RETRIG_NOTE" ->
             MultiRetrigNote(c, tick, c.effect_param, chance)
        [] OTHER ->
             [c EXCEPT !.vol = VolumeAtFirstTick(@, s, c.effect_param, m.fast_s3m_volume_slides),
                       !.pitch = PitchAtFirstTick(@, s, c.effect_param)]

HandleSlot(c, tick, chance) ==
  LET sounding == UseInstrument(SeeNote(SeeInstrument(c), chance))
      known == RememberParams(ColumnAlways(sounding))
      slid == IF tick = 0 THEN ColumnFirstTick(known) ELSE known
  IN  [SlotEffect(slid, tick, chance) EXCEPT !.handled = @ + 1]

-----------------------------------------------------------------------------
(* xm_tick_effects()                                                         *)

DelayNoteEarly(c, tick, chance) ==  \* mutant: not only at its tick
  LET late == TriggerInstrument(HandleSlot(c, tick, chance))
  IN  IF tick < c.current.effect_param THEN c
      ELSE IF IsKeyOff(c.current) THEN late ELSE TriggerNote(late, chance)
(* EDy: the slot is handled late, and what it triggers triggered again.     *)
DelayNote(c, tick, chance) ==
  LET late == TriggerInstrument(HandleSlot(c, tick, chance))
  IN  IF tick # c.current.effect_param THEN c
      ELSE IF IsKeyOff(c.current) THEN late ELSE TriggerNote(late, chance)

EffectOfTick(c, tick, tempo, chance) ==
  LET s == c.current
  IN  CASE s.effect_type = "MULTI_RETRIG_NOTE" ->
             MultiRetrigNote(c, tick, c.vol.multi_retrig_param, chance)
        [] s.effect_type = "S3M_MULTI_RETRIG_NOTE" ->
             MultiRetrigNote(c, tick, c.effect_param, chance)
        [] s.effect_type = "RETRIGGER_NOTE" ->
             IF tick % s.effect_param # 0 THEN c
             ELSE TriggerNote(TriggerInstrument(c), chance)
        [] s.effect_type = "KEY_OFF" -> IF tick # s.effect_param THEN c ELSE KeyOff(c)
        [] s.effect_type = "CUT_NOTE" ->
             IF tick # s.effect_param THEN c ELSE [c EXCEPT !.vol = CutNote(@)]
        [] s.effect_type = "DELAY_NOTE" -> DelayNote(c, tick, chance)
        [] OTHER ->
             [c EXCEPT !.vol = VolumeOfTick(@, s, c.effect_param, c.pitch.vibrato_ticks,
                                            chance.random),
                       !.pitch = PitchOfTick(@, m, s, c.effect_param, tick, tempo,
                                             chance.random)]

TickEffects(c, tick, tempo, chance) ==
  LET s == c.current
      column == [c EXCEPT !.vol = ColumnOfTick(@, s.volume_column),
                          !.pitch = PitchColumnOfTick(@, m, s, chance.random)]
  IN  EffectOfTick(column, tick, tempo, chance)

-----------------------------------------------------------------------------
NoSlot == [note |-> 0, instrument |-> 0, volume_column |-> 0,
           effect_type |-> "NULL", effect_param |-> 0]

(* handled counts how often the slot was handled in this pass of its row.   *)
NoChannel ==
  [vol |-> NoVolume(m, m.channel_panning), pitch |-> NoPitch, current |-> NoSlot,
   effect_param |-> 0, handled |-> 0]

Init ==
  /\ loaded \in DOMAIN Modules
  /\ ch = NoChannel
  /\ current_tick = 0 /\ current_tempo \in m.tempos /\ repeating = FALSE

(* xm_row(), in the first tick of a row.  Any channel may set the tempo.    *)
Row(s, chance) ==
  LET read == [ch EXCEPT !.current = s, !.handled = 0]
      played == IF s.effect_type = "DELAY_NOTE" THEN read ELSE HandleSlot(read, 0, chance)
  IN  /\ \/ current_tick = 0 /\ ~repeating
         \/ current_tick # 0 /\ current_tick >= current_tempo
      /\ ch' = [played EXCEPT !.pitch = EndVibrato(EndArpeggio(@), HasVibrato(s))]
      /\ current_tick' = 1
      /\ current_tempo' \in m.tempos
      /\ repeating' = FALSE
      /\ UNCHANGED loaded

(* Any other tick of a row.                                                 *)
Tick(chance) ==
  /\ current_tick # 0 /\ current_tick < current_tempo
  /\ ch' = TickEffects(ch, current_tick, current_tempo, chance)
  /\ current_tick' = current_tick + 1
  /\ UNCHANGED <<loaded, current_tempo, repeating>>

(* The first tick of a row that EEy repeats: tick effects, but no new slot. *)
RepeatRow(chance) ==
  /\ IF current_tick = 0 THEN repeating ELSE current_tick >= current_tempo
  /\ ch' = TickEffects([ch EXCEPT !.handled = 0], 0, current_tempo, chance)
  /\ current_tick' = 1 /\ repeating' = TRUE
  /\ UNCHANGED <<loaded, current_tempo>>

(* xm_seek() went back to the first tick of a row whose repeats are still   *)
(* to come: the row is not read again, nor are its effects applied.         *)
SkipTick ==
  /\ current_tick = 0 /\ ~repeating /\ ch.current # NoSlot
  /\ current_tick' = 1
  /\ UNCHANGED <<loaded, ch, current_tempo, repeating>>

(* xm_seek(), to a tick of the row that was played last, or to a new row:   *)
(* the channel keeps everything.                                            *)
Seek(tick) ==
  /\ ch.current # NoSlot \/ tick = 0
  /\ current_tick' = tick
  /\ ch' = [ch EXCEPT !.handled = 0]
  /\ UNCHANGED <<loaded, current_tempo, repeating>>

(* xm_dump_context(): the pointers are forgotten.  Not while a row is       *)
(* repeated, see module SequencerHistory.                                   *)
Dump ==
  /\ ~repeating
  /\ ch' = [ch EXCEPT !.pitch.instrument = NULL, !.pitch.sample = NULL,
                      !.pitch.next_instrument = 0, !.current = NoSlot, !.handled = 0]
  /\ current_tick' = 0
  /\ UNCHANGED <<loaded, current_tempo, repeating>>

(* xm_reset_context()                                                       *)
Reset ==
  /\ ch' = NoChannel
  /\ current_tick' = 0 /\ current_tempo' \in m.tempos /\ repeating' = FALSE
  /\ UNCHANGED loaded

Playing ==
  \E chance \in Chances :
    (\E s \in m.slots : Row(s, chance)) \/ Tick(chance) \/ RepeatRow(chance)

Next == Playing \/ SkipTick \/ (\E tick \in 0 .. current_tempo : Seek(tick)) \/ Dump \/ Reset

Spec == Init /\ [][Next]_vars
=============================================================================
