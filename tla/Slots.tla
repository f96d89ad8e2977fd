--------------------------------- MODULE Slots ---------------------------------
(***************************************************************************)
(* What libxm makes of a slot of a pattern when it loads one (src/load.c): *)
(* each format has notes and effects of its own, and all are turned into   *)
(* those src/play.c knows, which are xm_internal.h's EFFECT_*.             *)
(*                                                                         *)
(* XMSlot, ModSlot and S3MSlot are the loops of the three loaders;         *)
(* FixedUp is xm_fixup_common(), which runs after any of them, and again   *)
(* when a dumped context is restored.  Effect type 0 is EFFECT_ARPEGGIO,   *)
(* and no effect at all if its parameter is 0.                             *)
(***************************************************************************)
EXTENDS Pitch, FiniteSets

MIN_BPM == 32
WAVEFORM_SQUARE == 2
WAVEFORM_RANDOM == 3

IsSlot(s) ==
  /\ s.note \in (0 .. NOTE_SWITCH) \union {NOTE_KEY_OFF}
  /\ s.instrument \in Byte /\ s.volume_column \in Byte
  /\ s.effect_param \in Byte

(* What the loaders promise of an effect to the channels,                   *)
IsFixedEffect(s) ==
  /\ s.effect_type \in {"SET_VOLUME", "SET_GLOBAL_VOLUME"} => s.effect_param <= MAX_VOLUME
  /\ s.effect_type \in {"RETRIGGER_NOTE", "DELAY_NOTE", "CUT_NOTE"} => s.effect_param > 0
  /\ s.effect_type = "SET_FINETUNE" => s.effect_param < 16
IsLoadedSlot(s) == IsSlot(s) /\ IsFixedEffect(s)

(* and to the sequencer of a module of that length, which may be 0.         *)
IsFixedJump(s, length) ==
  /\ s.effect_type = "JUMP_TO_ORDER" => s.effect_param < length \/ s.effect_param = 0
  /\ s.effect_type \in {"SET_TEMPO", "SET_BPM"} => s.effect_param > 0
  /\ s.effect_type \in {"DELAY_PATTERN", "PATTERN_LOOP"} => s.effect_param < 16

Effect(type, param) == [effect_type |-> type, effect_param |-> param]
NoEffect == Effect("ARPEGGIO", 0)
SlotOf(note, instrument, volume_column, effect) ==
  [note |-> note, instrument |-> instrument, volume_column |-> volume_column,
   effect_type |-> effect.effect_type, effect_param |-> effect.effect_param]

-----------------------------------------------------------------------------
(* xm_load_mod_effect(): the effects .MOD and .XM share.                    *)

ModEffects ==
  <<"PORTAMENTO_UP", "PORTAMENTO_DOWN", "TONE_PORTAMENTO", "VIBRATO",
    "TONE_PORTAMENTO_VOLUME_SLIDE", "VIBRATO_VOLUME_SLIDE", "TREMOLO", "SET_PANNING",
    "SET_SAMPLE_OFFSET", "VOLUME_SLIDE", "JUMP_TO_ORDER", "SET_VOLUME">>

ExtendedEffects ==
  <<"FINE_PORTAMENTO_UP", "FINE_PORTAMENTO_DOWN", "SET_GLISSANDO_CONTROL",
    "SET_VIBRATO_CONTROL", "SET_FINETUNE", "PATTERN_LOOP", "SET_TREMOLO_CONTROL",
    "SET_CHANNEL_PANNING", "RETRIGGER_NOTE", "FINE_VOLUME_SLIDE_UP",
    "FINE_VOLUME_SLIDE_DOWN", "CUT_NOTE", "DELAY_NOTE", "DELAY_PATTERN">>

(* The whole parameter is compared, before its high nibble is erased.       *)
GlissandoParam(param) == IF param > 0 THEN 1 ELSE 0

(* Waveforms are numbered as in the effect; bit 2 goes to bit 7.            *)
ControlParam(param) == (param % 4) + 128 * ((param \div 4) % 2)

ExtendedParam(param) ==
  CASE High(param) = 3 -> GlissandoParam(param)
    [] High(param) \in {4, 7} -> ControlParam(param)
    [] High(param) = 8 -> 17 * Low(param)
    [] OTHER -> Low(param)

ExtendedEffectKept(param) ==  \* mutant
  IF High(param) \in {0, 15} THEN Effect("ARPEGGIO", param)
  ELSE Effect(ExtendedEffects[High(param)], ExtendedParam(param))
ExtendedEffect(param) ==
  IF High(param) \in {0, 15} THEN NoEffect
  ELSE Effect(ExtendedEffects[High(param)], ExtendedParam(param))

(* The row of a Dxx is written in decimal digits.                           *)
BreakParam(param) == (param - 6 * High(param)) % 256

ModEffect(type, param) ==
  CASE type = 0 -> Effect("ARPEGGIO", param)
    [] type = 13 -> Effect("PATTERN_BREAK", BreakParam(param))
    [] type = 14 -> ExtendedEffect(param)
    [] type = 15 -> Effect(IF param < MIN_BPM THEN "SET_TEMPO" ELSE "SET_BPM", param)
    [] OTHER -> Effect(ModEffects[type], param)

-----------------------------------------------------------------------------
(* .XM: effects from 16 on are letters.                                     *)

XMLetters == {16, 17, 20, 21, 25, 27, 29}
XMLetterEffect(type) ==
  CASE type = 16 -> "SET_GLOBAL_VOLUME"
    [] type = 17 -> "GLOBAL_VOLUME_SLIDE"
    [] type = 20 -> "KEY_OFF"
    [] type = 21 -> "SET_ENVELOPE_POSITION"
    [] type = 25 -> "PANNING_SLIDE"
    [] type = 27 -> "MULTI_RETRIG_NOTE"
    [] type = 29 -> "TREMOR"

ExtraFineEffects == <<"EXTRA_FINE_PORTAMENTO_UP", "EXTRA_FINE_PORTAMENTO_DOWN">>

(* Fasttracker II has no random waveform, and plays a square one.           *)
WithoutRandom(e) ==
  IF /\ e.effect_type \in {"SET_VIBRATO_CONTROL", "SET_TREMOLO_CONTROL"}
     /\ e.effect_param % 128 = WAVEFORM_RANDOM
  THEN [e EXCEPT !.effect_param = @ - WAVEFORM_RANDOM + WAVEFORM_SQUARE]
  ELSE e

XMEffect(type, param) ==
  CASE type <= 15 -> WithoutRandom(ModEffect(type, param))
    [] type = 20 /\ param = 0 -> NoEffect
    [] type \in XMLetters /\ ~(type = 20 /\ param = 0) -> Effect(XMLetterEffect(type), param)
    [] type = 33 /\ High(param) \in {1, 2} -> Effect(ExtraFineEffects[High(param)], Low(param))
    [] OTHER -> NoEffect

(* K00 is a key off note.                                                   *)
XMNote(raw) ==
  IF raw.note = 97 \/ (raw.effect_type = 20 /\ raw.effect_param = 0) THEN NOTE_KEY_OFF
  ELSE raw.note

XMSlot(raw) ==
  SlotOf(XMNote(raw), raw.instrument, raw.volume_column,
       XMEffect(raw.effect_type, raw.effect_param))

-----------------------------------------------------------------------------
(* .MOD: a note is the period of an Amiga, which is halved until it is one  *)
(* of the highest octave.                                                   *)

HighPeriods == <<106, 100, 94, 89, 84, 79, 75, 70, 66, 63, 59>>

(* The note of the first period of its octave, and the period it has there. *)
Octave[period \in Nat] ==
  IF period < 112 THEN [note |-> 73, period |-> period]
  ELSE LET higher == Octave[(period + 1) \div 2]
       IN  [higher EXCEPT !.note = @ - 12]

ModNoteShort(period) ==  \* mutant
  IF period = 0 THEN 0
  ELSE Octave[period].note + Cardinality({n \in 1 .. 10 : Octave[period].period < HighPeriods[n]})
ModNote(period) ==
  IF period = 0 THEN 0
  ELSE Octave[period].note + Cardinality({n \in 1 .. 11 : Octave[period].period < HighPeriods[n]})

(* ProTracker remembers no parameter of a slide: without one there is none. *)
ForgetfulSlides ==
  {"PORTAMENTO_UP", "PORTAMENTO_DOWN", "VOLUME_SLIDE", "FINE_PORTAMENTO_UP",
   "FINE_PORTAMENTO_DOWN", "FINE_VOLUME_SLIDE_UP", "FINE_VOLUME_SLIDE_DOWN"}
WithoutMemory(e) ==
  IF e.effect_param # 0 THEN e
  ELSE CASE e.effect_type \in ForgetfulSlides -> NoEffect
         [] e.effect_type = "VIBRATO_VOLUME_SLIDE" -> Effect("VIBRATO", 0)
         [] e.effect_type = "TONE_PORTAMENTO_VOLUME_SLIDE" -> Effect("TONE_PORTAMENTO", 0)
         [] OTHER -> e

(* Finetunes are signed, and 8xx moves the whole channel.                   *)
ProTracker(e) ==
  CASE e.effect_type = "SET_FINETUNE" -> [e EXCEPT !.effect_param = (@ + 8) % 16]
    [] e.effect_type = "SET_PANNING" -> [e EXCEPT !.effect_type = "SET_CHANNEL_PANNING"]
    [] OTHER -> e

(* An instrument without a note switches to its sample at once.             *)
ModSlot(raw) ==
  SlotOf(IF raw.period = 0 /\ raw.instrument # 0 THEN NOTE_SWITCH ELSE ModNote(raw.period),
       raw.instrument, 0,
       ProTracker(WithoutMemory(ModEffect(raw.effect_type, raw.effect_param))))

-----------------------------------------------------------------------------
(* .S3M: what a packed slot leaves out is Absent.                           *)
Absent == -1

S3MNote(raw) ==
  CASE raw.note = Absent -> 0
    [] raw.note = 254 -> NOTE_KEY_OFF
    [] raw.note = 255 -> IF raw.instrument # 0 THEN NOTE_SWITCH ELSE 0
    [] OTHER -> (1 + 12 * High(raw.note) + Low(raw.note)) % 256

S3MVolumeColumn(raw) == IF raw.volume = Absent THEN 0 ELSE (raw.volume + 16) % 256

(* An effect that is not supported still sets the memory of its channel.    *)
BlankedForgetting(param) == NoEffect  \* mutant
Blanked(param) == IF param # 0 THEN Effect("NOP", param) ELSE NoEffect

(* Letters whose effects keep their parameter as it is.                     *)
S3MLetters == {4, 5, 6, 7, 8, 9, 10, 11, 12, 15, 18, 21}
S3MLetterEffect(type) ==
  CASE type = 4 -> "S3M_VOLUME_SLIDE"
    [] type = 5 -> "S3M_PORTAMENTO_DOWN"
    [] type = 6 -> "S3M_PORTAMENTO_UP"
    [] type = 7 -> "TONE_PORTAMENTO"
    [] type = 8 -> "VIBRATO"
    [] type = 9 -> "S3M_TREMOR"
    [] type = 10 -> "S3M_ARPEGGIO"
    [] type = 11 -> "S3M_VIBRATO_VOLUME_SLIDE"
    [] type = 12 -> "S3M_TONE_PORTAMENTO_VOLUME_SLIDE"
    [] type = 15 -> "SET_SAMPLE_OFFSET"
    [] type = 18 -> "S3M_TREMOLO"
    [] type = 21 -> "FINE_VIBRATO"

(* SAy: left channels are those with a setting below 8.                     *)
S3MStereo(param, left) ==
  CASE Low(param) \in {0, 2} -> Effect("SET_CHANNEL_PANNING", IF left THEN 0 ELSE 255)
    [] Low(param) \in {1, 3} -> Effect("SET_CHANNEL_PANNING", IF left THEN 255 ELSE 0)
    [] Low(param) \in 4 .. 7 -> Effect("SET_CHANNEL_PANNING", 128)
    [] OTHER -> Blanked(param)

S3MSpecial(param, left) ==
  CASE High(param) = 1 -> Effect("SET_GLISSANDO_CONTROL", GlissandoParam(param))
    [] High(param) = 2 -> Effect("SET_FINETUNE", Low(param))
    [] High(param) = 3 -> Effect("SET_VIBRATO_CONTROL", param % 4)
    [] High(param) = 4 -> Effect("SET_TREMOLO_CONTROL", param % 4)
    [] High(param) = 8 -> Effect("SET_CHANNEL_PANNING", 17 * Low(param))
    [] High(param) = 10 -> S3MStereo(param, left)
    [] High(param) = 11 -> Effect("PATTERN_LOOP", Low(param))
    [] High(param) = 12 -> Effect("CUT_NOTE", Low(param))
    [] High(param) = 13 -> Effect("DELAY_NOTE", Low(param))
    [] High(param) = 14 -> Effect("DELAY_PATTERN", Low(param))
    [] OTHER -> Blanked(param)

(* From 0 .. 128 to 0 .. 255.                                               *)
S3MPanning(param) == IF param = 128 THEN 255 ELSE 2 * param

(* last is last_effect_parameters[] of the channel, this slot included.     *)
S3MEffect(type, param, last, left) ==
  CASE type = 1 /\ param > 0 -> Effect("SET_TEMPO", param)
    [] type = 2 -> Effect("JUMP_TO_ORDER", param)
    [] type = 3 -> Effect("PATTERN_BREAK", param)
    [] type = 17 -> Effect("S3M_MULTI_RETRIG_NOTE",
                           IF High(param) = 0 THEN param + 128 ELSE param)
    [] type = 19 /\ param > 0 -> S3MSpecial(param, left)
    [] type = 19 /\ param = 0 /\ last > 0 -> S3MSpecial(last, left)
    [] type = 20 /\ param > 32 -> Effect("SET_BPM", param)
    [] type = 22 /\ param <= MAX_VOLUME -> Effect("SET_GLOBAL_VOLUME", param)
    [] type = 24 /\ param <= 128 -> Effect("SET_CHANNEL_PANNING", S3MPanning(param))
    [] type \in S3MLetters -> Effect(S3MLetterEffect(type), param)
    [] OTHER -> Blanked(param)

S3MSlot(raw, last, left) ==
  SlotOf(S3MNote(raw), raw.instrument, S3MVolumeColumn(raw),
       S3MEffect(raw.effect_type, raw.effect_param, last, left))

-----------------------------------------------------------------------------
(* xm_fixup_common(), for a module of that length and restart position.     *)
FixedOrderLate(order, length) == IF order > length THEN 0 ELSE order  \* mutant
FixedOrderWrapped(order, length) ==  \* mutant
  IF order >= length THEN order - length ELSE order
FixedOrder(order, length) == IF order >= length THEN 0 ELSE order

FixedEffect(s, length, restart_position) ==
  CASE s.effect_type = "JUMP_TO_ORDER" ->
         Effect("JUMP_TO_ORDER", FixedOrder(s.effect_param, length))
    [] s.effect_type \in {"SET_VOLUME", "SET_GLOBAL_VOLUME"} /\ s.effect_param > MAX_VOLUME ->
         Effect(s.effect_type, MAX_VOLUME)
    [] s.effect_type = "CUT_NOTE" /\ s.effect_param = 0 -> Effect("SET_VOLUME", 0)
    [] s.effect_type \in {"DELAY_NOTE", "RETRIGGER_NOTE"} /\ s.effect_param = 0 -> NoEffect
    [] s.effect_type \in {"SET_TEMPO", "SET_BPM"} /\ s.effect_param = 0 ->
         Effect("JUMP_TO_ORDER", restart_position)
    [] OTHER -> Effect(s.effect_type, s.effect_param)

(* E90 alone is a note that triggers the last one again.                    *)
FixedNote(s) ==
  IF s.effect_type = "RETRIGGER_NOTE" /\ s.effect_param = 0 /\ s.note = 0
  THEN NOTE_RETRIGGER ELSE s.note

FixedColumn(s) == IF s.volume_column = 160 THEN 0 ELSE s.volume_column

FixedUp(s, length, restart_position) ==
  SlotOf(FixedNote(s), s.instrument, FixedColumn(s), FixedEffect(s, length, restart_position))
=============================================================================
