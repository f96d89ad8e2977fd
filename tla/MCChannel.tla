------------------------------- MODULE MCChannel -------------------------------
(***************************************************************************)
(* Small modules for the run of ChannelHistory: each has the slots of one  *)
(* group of effects that share state.                                      *)
(***************************************************************************)
EXTENDS ChannelHistory

Slot(note, instrument, column, type, param) ==
  [note |-> note, instrument |-> instrument, volume_column |-> column,
   effect_type |-> type, effect_param |-> param]
Fx(type, param) == Slot(0, 0, 0, type, param)
Column(column) == Slot(0, 0, column, "ARPEGGIO", 0)
Note(note, instrument) == Slot(note, instrument, 0, "ARPEGGIO", 0)
Blank == Note(0, 0)

LinearPeriods == [n \in -16 .. 1903 |-> 7680 - (4 * n)]
(* An octave up halves an Amiga period; in between the run needs no curve.  *)
AmigaPeriods ==
  [n \in -16 .. 1903 |-> IF n < 0 THEN 28000 ELSE 27392 \div (2 ^ (n \div 192)) - (n % 192) \div 16]

Sample(volume, panning, relative_note) ==
  [volume |-> volume, panning |-> panning, finetune |-> 0,
   relative_note |-> relative_note, length |-> 300]

(* Instrument 1 has a sample for low notes, and none for high ones; the     *)
(* notes of sample 3 are invalid but for its highest.                       *)
Samples ==
  <<Sample(64, 128, 0), [Sample(40, 0, 12) EXCEPT !.finetune = 5], Sample(20, 255, -60)>>
Instruments ==
  <<[has_envelope |-> TRUE,
     sample_of_notes |-> [n \in 1 .. MAX_NOTE |-> IF n <= 60 THEN 0 ELSE 7]],
    [has_envelope |-> FALSE, sample_of_notes |-> [n \in 1 .. MAX_NOTE |-> 1]],
    [has_envelope |-> FALSE, sample_of_notes |-> [n \in 1 .. MAX_NOTE |-> 2]]>>

Module(slots, tempos) ==
  [num_instruments |-> 3, num_samples |-> 3, instruments |-> Instruments,
   samples |-> Samples, periods |-> LinearPeriods, amiga_frequencies |-> FALSE,
   fast_s3m_volume_slides |-> FALSE, default_global_volume |-> 64,
   channel_panning |-> 200, slots |-> slots, tempos |-> tempos]

MCRandom == {-128, 0, 100}

VolumeModules == <<
  \* volume slides of every kind
  Module({Blank, Note(48, 1), Fx("VOLUME_SLIDE", 8), Fx("VOLUME_SLIDE", 128), Fx("VOLUME_SLIDE", 0),
          Fx("FINE_VOLUME_SLIDE_UP", 8), Fx("FINE_VOLUME_SLIDE_DOWN", 8)}, {2}),
  Module({Blank, Note(48, 2), Column(104), Column(120), Column(136), Column(152), Column(80),
          Fx("SET_VOLUME", 64)}, {2}),
  Module({Note(48, 1), Column(136), Column(152), Fx("TREMOLO", 143), Fx("TREMOR", 0)}, {2}),
  \* global volume and panning
  Module({Note(48, 2), Fx("GLOBAL_VOLUME_SLIDE", 8), Fx("GLOBAL_VOLUME_SLIDE", 241),
          Fx("SET_GLOBAL_VOLUME", 60), Fx("GLOBAL_VOLUME_SLIDE", 0)}, {2}),
  Module({Note(48, 3), Fx("PANNING_SLIDE", 15), Fx("PANNING_SLIDE", 240),
          Fx("SET_CHANNEL_PANNING", 0), Fx("SET_CHANNEL_PANNING", 255),
          Column(207), Column(223), Column(239)}, {2}),
  \* tremor
  Module({Blank, Note(48, 1), Fx("TREMOR", 18), Fx("TREMOR", 0), Fx("TREMOR", 32),
          Slot(48, 1, 0, "DELAY_NOTE", 2)}, {1, 3}),
  \* multi retrigger
  Module({Blank, Slot(48, 1, 0, "MULTI_RETRIG_NOTE", 146),
          Fx("MULTI_RETRIG_NOTE", 224), Fx("MULTI_RETRIG_NOTE", 83),
          Slot(0, 0, 40, "MULTI_RETRIG_NOTE", 0), Slot(0, 0, 111, "MULTI_RETRIG_NOTE", 0)}, {2}),
  \* tremolo, with the waveforms
  Module({Blank, Fx("TREMOLO", 143), Fx("SET_TREMOLO_CONTROL", 3), Fx("SET_TREMOLO_CONTROL", 130)},
         {2}),
  Module({Fx("TREMOLO", 143), Fx("SET_TREMOLO_CONTROL", 1), Fx("VIBRATO", 136)}, {2})
>>

OtherModules == <<
  \* effects of S3M, which share one memory
  [Module({Note(48, 1), Fx("S3M_VOLUME_SLIDE", 26), Fx("S3M_VOLUME_SLIDE", 252),
           Fx("S3M_VOLUME_SLIDE", 0), Fx("NOP", 15)}, {2})
     EXCEPT !.fast_s3m_volume_slides = TRUE],
  Module({Note(48, 1), Fx("NOP", 18), Fx("S3M_TREMOR", 0), Fx("S3M_MULTI_RETRIG_NOTE", 0)}, {2}),
  Module({Note(48, 1), Fx("S3M_TREMOLO", 130), Fx("S3M_VIBRATO_VOLUME_SLIDE", 0)}, {2}),
  [Module({Note(48, 1), Fx("S3M_PORTAMENTO_UP", 0), Fx("S3M_PORTAMENTO_DOWN", 128)}, {2})
     EXCEPT !.amiga_frequencies = TRUE, !.periods = AmigaPeriods],
  Module({Note(48, 1), Fx("S3M_PORTAMENTO_UP", 248)}, {2}),
  Module({Note(48, 1), Slot(46, 0, 243, "ARPEGGIO", 0), Fx("S3M_ARPEGGIO", 8),
          Slot(40, 0, 0, "S3M_TONE_PORTAMENTO_VOLUME_SLIDE", 0)}, {2}),
  \* notes of every kind, early and late
  Module({Slot(n, i, 0, "ARPEGGIO", 0) : n \in {0, 48, 70, NOTE_KEY_OFF}, i \in {0, 1, 3}}
         \union {Note(NOTE_RETRIGGER, 0), Note(NOTE_SWITCH, 2), Note(48, 9)}, {2}),
  Module({Slot(n, i, 0, "DELAY_NOTE", 1) : n \in {0, 48, NOTE_KEY_OFF}, i \in {0, 2}}
         \union {Note(48, 1), Fx("DELAY_NOTE", 3), Fx("RETRIGGER_NOTE", 1)}, {3}),
  Module({Fx("CUT_NOTE", 1), Fx("KEY_OFF", 1), Note(48, 2), Slot(96, 3, 0, "ARPEGGIO", 0),
          Slot(48, 1, 0, "SET_SAMPLE_OFFSET", 1), Slot(48, 2, 0, "SET_SAMPLE_OFFSET", 2)}, {2}),
  \* tone portamento and glissando
  Module({Note(48, 1), Slot(50, 0, 0, "TONE_PORTAMENTO", 12), Fx("TONE_PORTAMENTO", 0),
          Slot(47, 0, 0, "SET_FINETUNE", 3),
          Fx("SET_GLISSANDO_CONTROL", 1), Fx("SET_GLISSANDO_CONTROL", 0)}, {2}),
  \* arpeggio and vibrato, in rows longer than a table of sixteen
  Module({Blank, Note(48, 1), Fx("SET_VIBRATO_CONTROL", 130), Fx("VIBRATO", 136),
          Fx("VIBRATO_VOLUME_SLIDE", 0), Column(191), Fx("ARPEGGIO", 55)}, {2}),
  Module({Note(48, 1), Fx("ARPEGGIO", 55), Slot(46, 0, 0, "TONE_PORTAMENTO", 1)}, {1, 20}),
  \* periods at both ends
  Module({Note(48, 1), Fx("PORTAMENTO_UP", 128), Fx("PORTAMENTO_DOWN", 128)}, {2})
>>

MCModules == VolumeModules \o OtherModules
=============================================================================
