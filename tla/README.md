# A verification project for libxm

libxm plays XM, MOD and S3M modules. A program loads a file into a context
(`xm_create_context()`), asks for samples (`xm_generate_samples()` and its
variants), and may, between two such calls, seek, mute, query, reset or dump
the context. There are no threads inside of the library: everything happens in
the caller's thread. What makes it hard is that a module is a program for an
old, quirky machine. Its slots change where playback goes, and any legal file
may ask for any of these changes, in several channels of one row. The
specifications here are about that machine: which row comes next, what a slot
does to the volume and the pitch of its channel, which frame of a sample is
read, where a note is in its envelope; and about the loaders, which have to
turn any file of three formats into a module the machine can run.

All paths are relative to the root of the repository. Line numbers are those of
the commit the project was written for.

## Inventory

| Component | State | Operations | Correct when |
|---|---|---|---|
| Sequencer (`src/play.c` 1176-1283, 1358-1400, effects of 604-988; `src/xm.c` 31-36, 70-90, 154-167) | position, tick, tempo, pending jump, row repeats, per-channel loops, loop counters | `xm_tick()`, `xm_row()`, `xm_handle_pattern_slot()`, `xm_seek()`, `xm_reset_context()`, `xm_dump_context()` | every row read is a row of the song, rows follow each other as their effects ask, a row lasts as long as asked for, passes through the song are counted |
| Sample cursor (`src/play.c` 1842-1951, 1031-1130) | per channel: sample, position, step, ramp | `xm_next_of_sample()`, `xm_next_of_channel()`, `xm_trigger_note()` | only frames of the sample are read, in playing order, and interpolated with the right one |
| Envelopes (`src/play.c` 995-1130, 1285-1354; `src/load.c` 1569-1631) | per channel: instrument, sustain, position, fadeout, value | `xm_check_and_fix_envelope()`, `xm_tick_envelopes()`, key off and triggers | no envelope in a file breaks an assertion of the player; held notes wait, released ones end |
| Tick clock (`src/play.c` 1476-1490, 1953-2022; `src/xm.c` 299) | frames left of the tick, frames generated | `xm_generate_samples*()`, `xm_tick()` | ticks come at the rate the tempo asks for, without drift, however the caller cuts its buffers |
| Channel and tick effects (`src/play.c` 148-506, 604-988, 1495-1833) | per channel: period, volume, panning, oscillators, effect memories | `xm_handle_pattern_slot()`, `xm_tick_effects()` | values stay in range, memories are kept apart, oscillators reset when they should |
| Mixing (`src/play.c` 1402-1475, 1893-1951) | actual volumes, previous frames | `xm_tick()`, `xm_next_of_channel()` | ramps end at their target, nothing overflows |
| XM loader (`src/load.c` 60-64, 278-361, 980-1790) | the file offset, what the first walk counted, a module being built in one allocation | `xm_prescan_xm0104()`, `xm_create_context()`, `xm_load_xm0104*()` | the two walks over a file agree, and whatever the file says the module is one the player can play |
| Effect fixup (`src/load.c` 363-430) | none | `xm_fixup_common()` | effects are within the bounds the player relies on, and stay what they are if they are fixed again |
| MOD loader, S3M loader (`src/load.c` 1801-3007) | as the XM loader; per channel of a pattern the last parameter of an effect | `xm_load_mod*()`, `xm_load_s3m*()` | slots mean what their format says |
| Dump and restore (`src/load.c` 428-600, 641-976) | the context as bytes | `xm_dump_context()`, `xm_restore_context()` | a restored context plays as the dumped one |
| Public queries (`src/xm.c`) | none of their own | getters and setters | they report what is played |
| Analyzer (`src/analyze.c`) | features seen | `xm_analyze()` | it ends, and sees every feature that is used |
| Examples, tests, build | | | |

They meet in few places. `xm_generate_samples()` calls `xm_tick()` when the
tick clock runs out. `xm_tick()` may call `xm_row()`, which hands a slot to
each channel in turn; a slot moves the sequencer (through fields of the context
that all channels share) and the channel (sample, envelope, effects). Later
ticks of the row apply `ch->current`, the slot remembered by the channel. The
frames of a tick are then read by the sample cursors and mixed with volumes the
envelopes and the channel gave. A loader decides what the player may trust:
most of its assertions are about what a loader left in the module.

What is hard here, and is what the properties are about:

* *protocol sequences*: a few legal calls or slots in an unusual order: a dump
  while a row repeats, a seek before the first row, a note without an
  instrument after a key off;
* *ordering*: channels of one row overwrite each other's pending jump; a
  trigger reads the old sample before it installs the new one;
* *stale state*: loop origins of an earlier pattern, the position of a sample
  that was replaced, the memory of an instrument column;
* *numeric edges*: bytes that wrap (a pattern has up to 256 rows), a 32-bit
  position in 12 bits of fraction, doubled loops read backwards, a first
  envelope point that is not at frame 0;
* *liveness*: does the song go on, does a loop end, is the end of the song ever
  reported.

There is no concurrency, no message and no persistent storage, so no hazard of
these kinds is listed. `PROJECT.json` lists each hazard at its line, with the
properties that would notice.

## Modules

| Module | Role |
|---|---|
| `Sequencer` | the sequencer, in detail |
| `RowOrder` | what it promises: the order of rows. `Sequencer` implements it |
| `SequencerHistory` | `Sequencer` with history variables, and careful callers |
| `MCSequencer` | small songs |
| `SequencerProofs` | theorems, the refinement among them |
| `S3MLoops` | the loop fixup of the S3M loader, and the sequencer playing its result; extends `Sequencer` |
| `ScreamTracker` | what it promises: one loop for the song. `S3MLoops` implements it |
| `MCS3MLoops` | small patterns |
| `S3MLoopsProofs` | theorems, the refinement among them |
| `Volume`, `Pitch` | what effects do to the volume, the panning and the period of a channel, as operators |
| `Slots` | what the loaders make of a slot, as operators; extends `Pitch` for the constants of a slot |
| `Channel` | a channel: slots and ticks; extends `Volume`, `Pitch` and `Slots` |
| `ChannelHistory` | `Channel` with history variables, and its properties |
| `MCChannel` | small modules |
| `ChannelProofs` | theorems |
| `SampleCursor` | how a channel reads a sample |
| `Playhead` | what it promises: a head that moves over frames. `SampleCursor` implements it |
| `MCSampleCursor` | small samples |
| `SampleCursorProofs` | theorem |
| `Envelope` | the volume envelope: loading, notes, ticks |
| `MCEnvelope` | small files and slots |
| `EnvelopeProofs` | theorems |
| `TickClock` | how many frames a tick lasts |
| `Metronome` | what it promises: ticks when they are due. `TickClock` implements it |
| `TickClockProofs` | theorems, the refinement among them |
| `SlotLoader` | the slots of a column from the file to the channel; extends `Slots` |
| `MCSlotLoader`, `SlotLoaderProofs` | slots of files; theorems |
| `XMLoader` | the two walks over an XM file |
| `MCXMLoader`, `XMLoaderProofs` | small files; theorems |

### Sequencer

Variables have the names of the fields of `xm_context_t` and
`xm_channel_context_t`. `song` is the loaded module: a record of what matters
of it, with the slot array as flat as in the code, so that a row number past
the end of a pattern reads the next pattern's rows. Effects that do not reach
the sequencer are all `NONE`.

`xm_tick()` is a chain of steps told apart by `pc`, since several channels and
several functions take part in it:

    idle --StartRow--> row --HandleSlot, once per channel--> row --EndRow--> effects --EndTick--> idle
    idle --ContinueRow--> effects --EndTick--> idle

`StartRow` is the top of `xm_tick()` (the tick counter, EEy) and of `xm_row()`
(the jump the row before left pending). `HandleSlot` has one action for each
effect that matters. `EndRow` is what `xm_row()` does after its loop: counting
the row, unless a channel loops, and moving on. Calls of the program (`Seek`,
`Reset`, `Dump`) are possible when `pc = "idle"`; the library cannot be entered
at any other point. `xm_seek()` checks nothing; a caller of the model names an
entry of the order table and a row of its pattern. `IsFixedUp` says what
`xm_fixup_common()` guarantees of the slots; `SlotLoaderProofs` proves it of
every slot loaded (`IsFixedJump`), and `XMLoaderProofs` proves what `IsSong`
asks of patterns and of the order table. Songs have an order table: one of
length 0, which the loaders let pass too, is not played here.

A jump carries a row number into a pattern that may be shorter
(`JumpTargets`), and no loader looks at that. The model follows it into the
rows stored after the pattern, as the code does; the songs of `seq_songs` and
`seq_calls` do so. Where it leads past the end of the slot array the code reads
what happens to be there, and the behaviour of the model ends (`Handle`).
`IsAddressable` says of a song that this cannot happen; it is the condition of
`RowIsStored`, and of no other property. All songs of the runs meet it.

`RowOrder` forgets everything but the row being played. The row that follows is
determined by the effects in this row, except for two things that depend on the
past: whether a loop is over, and which marked row is the start of a loop or of
the next pattern. `ImplementsRowOrder` is the refinement, with the row of the
first channel's slot as the row being played. `Follows` names the entries and
the rows a jump may lead to (`JumpEntries`, `JumpRows`) from the effects of the
row, in no order of channels. The choice that is left is as small as the code
allows; model checking settled it:

* E60 writes `jump_row`, the row at which the *next pattern* starts, as FT2
  does. It also overwrites the loop target of another channel of the same row,
  so that a loop may go back to a row none of its own marks names.
* The origin of a loop is per channel and survives the pattern. An E6y without
  an E60 in the next pattern goes back to a row number of an earlier one.
* Bxx and an armed loop share `jump_dest`, and the later channel wins; Dxx wins
  the row over both when it comes later, but not the entry.

`SequencerHistory` observes ticks per row, passes through the song, how often
each row of the entry was played, and the target of the last seek, and
restricts the caller to `CarefulSeek` and `CarefulDump` for the properties that
only hold of programs that know the limits of the library. `seq_dump` shows
what happens to one that does not. These limits have properties that are stated
to hold beside them:

* in the last row of a pattern `xm_get_position()` reports row 255 of the next
  entry (`PositionIsReported` is about the other rows);
* a Dxx, or a row marked for a loop, past the end of a shorter pattern plays
  rows of the pattern stored after it (`PlaysInsidePattern` says that only a
  jump leads there);
* a loop that is armed in the row that leaves a pattern for good keeps rows
  from being counted: `loop_count` stays 0 for ever, and `xm_analyze()`, which
  waits for it, does not return (`LoopIsReported` is about songs whose only
  jumps are loops).

### Loops of S3M files

ScreamTracker 3 has one loop for a song, libxm one for every channel.
`FixedLoops` is the second half of `xm_load_s3m_pattern()`: it finds where each
loop starts, as a player would, deletes all SBx, and writes each loop into the
first channel that is free in its first and in its last row; a loop of one row
becomes a row loop. `S3MLoops` lets `Sequencer` play the result, and
`ScreamTracker` says what it should sound like, in rows heard and without
channels. `IsS3M` says which songs: those of one pattern, in which nothing but
loops decides what is played next; tempos, EEy and effects the sequencer does
not see may stand beside them, and take up slots. A loop that found no room is
not played (the code prints a notice); all others are played as often as asked
for, also when they compete.

One pattern is played, over and over: the origin of a loop outlives its pattern
(see above), so in a second pattern a loop may go back to the first one's row,
and the refinement does not hold. What E60 does to the row a next pattern
starts at is FT2's, and `ScreamTracker!NextPattern` allows it.

### Channel

The channel is one record `ch`, with the parts `vol` and `pitch` whose fields
have the code's names; `Volume` and `Pitch` hold one operator for each helper
of `src/play.c`, and `Channel` composes them in the order of
`xm_handle_pattern_slot()` (`HandleSlot`), `xm_tick_effects()` (`TickEffects`)
and the end of arpeggios and vibratos in `xm_row()`. The actions are ticks
(`Row`, the first of a row; `RepeatRow`, the first of a row EEy repeats;
`Tick`, any other; `SkipTick`, one without effects after a seek) and the calls
of a program (`Seek`, `Dump`, `Reset`). Which slot comes next is free: the
sequencer is not composed with it, since it shares with a channel nothing but
the tick, the tempo and the slot.

Period tables are a constant of a module. `Random` is what `xm_rand16()` may
return for a random waveform. `Stray` is what `sample_of_notes[-1]` may hold:
E9y or EDy in a channel that saw no note yet reads it, as the code does
(`src/play.c:1084`). Autovibrato is left out: it is recomputed at each tick,
and nothing else depends on it.

What a reader may not expect, and the model has as it is:

* a panning envelope at its rightmost, 64, with a panning of 128 or more gives
  256, which is stored in a byte as 0: hard left (`src/play.c:1441-1451`).
  `MixFits` is about lower values;
* a note that is ignored because it is invalid still switches the instrument of
  the channel;
* a slide that reaches period 0 freezes the channel: what follows slides from
  0, and a tone portamento no longer moves;
* with rounding (glissando), a tone portamento may overshoot its target, by
  less than a semitone;
* a Rxy counter runs on over rows, and EDy triggers twice.

### Slots and the loaders

`Slots!XMSlot`, `ModSlot` and `S3MSlot` are the loops of the three loaders over
the slots of a pattern, byte for byte of the effect and its parameter, and
`FixedUp` is `xm_fixup_common()`. `SlotLoader` sends a column of slots through
them: `ReadXM`, `ReadMOD` or `ReadS3M`, then `Fixup`, then any number of
`Reload`s (a dump that was restored), then `Play`, for the memory S3M effects
share. The length of the order table may be 0, a restart position is that of
an XM or a MOD file (byte 951), and a jump of a module without orders leads to
0. The S3M loader has such a memory of its own for effects it rewrites,
reset at the start of a pattern (`StartPattern`), and `written` is the history
of the parameters in the file.

Here too some things are faithful that may surprise: S1y and E3y with y = 0
still turn glissando on (`slot_glissando`); Q0y becomes Q8y and with it what a
later effect recalls, and so do Sxy, Xxx and a Bxx past the end (`IsRewritten`
exempts them from `MemoryIsWritten`); note 98 of an XM file, and the first two
of octave 8 in S3M, are taken for the two internal numbers `NOTE_RETRIGGER` and
`NOTE_SWITCH` (`HasPlainNote` exempts them); a volume of more than 64 in S3M
becomes an effect of the volume column; and Cxx of S3M is not converted from
BCD (`src/load.c:2715`), as Dxx of XM and MOD is.

`XMLoader` has one action for each iteration of the loops of the two walks. The
offsets are those of the code, so that a walk that skips too little reads its
next header in the wrong place: that is `Lose`. Names, sample values and packed
bytes are left out; a pattern has the number of slots it declares. Both walks
agree, of files that keep to the format. Where they do not:

* an order table cut short by the end of the file is what the stack held, in
  the first walk (`Garbage`), and zeros in the second (`HasWholeTable`);
* the number of samples of an instrument is 16 bits wide in the first walk, and
  in the second one a byte, which is read as 0 if the header of the instrument
  is short (`HasWholeHeaders`);
* the end of a loop is a 32-bit sum that may wrap (`HasNarrowLoops`);
* a 16-bit sample of an odd number of bytes is skipped one byte short
  (`HasWholeFrames`, `src/load.c:1519`);
* an empty pattern that declares more than 256 rows passes the first walk,
  which counts 64, and fails an assertion of the second (`HasShortBlanks`,
  `src/load.c:1225`);
* an autovibrato of a waveform FT2 does not have passes the first walk, which
  does not look at it, and fails an assertion of the second (`HasWaveforms`,
  `src/load.c:1475`; `FailInstrument`).

Speeds are clamped from above only: a file may have tempo or BPM 0. A file of
length 0 is loaded, with its order table unchecked.

### Sample cursor

`NextOfChannel` is one frame of output; `BeginTrigger`, `ReadPrevious` and
`EndTrigger` are `xm_trigger_note()`, split because it reads `RAMPING_POINTS`
frames of the old sample, to fade from them, while the fields of the channel
are still those of the old note. `Reduced`, `Frame`, `Index` and `Neighbour`
are the arithmetic of `xm_next_of_sample()`: the position modulo a loop, which
for ping-pong loops is a forward loop of twice the length whose second half is
read backwards. The amplitude is left out; ramps are present as the frame
counter that decides whether reading moves the position.

`Playhead` states the same without arithmetic: a head goes forward, jumps or
turns at the end of the loop, frame after frame. A step of `n` microsteps is `n
\div MICROSTEPS` moves. Nothing else moves it but a note, which puts it at its
offset (`Start`), a reset, and the exchange of the sample (`Exchange`, for
NOTE_SWITCH, a sample that is missing and one that is dropped), which keeps the
place: the head stands where it would if the new sample had been played for as
many frames. How often the old loop was played is not part of the place, as the
code drops extra loops when it next reads. The refinement maps a position to
the frame and direction of the head. `InterpolatesTowardsNext` says the second
frame read is the one the head moves to next.

Two things a reader of the code might not expect are in the model as they are.
While a note fades in (`frame_count < RAMPING_POINTS`) `xm_next_of_sample()`
returns before it moves the position. And the position is a `uint32_t`: a
sample without a loop that ends within one step of `2^32` microsteps, as one of
`MAX_SAMPLE_LENGTH` frames does, wraps instead of passing its end, and starts
again. The samples of the run are short of that, so that `ImplementsPlayhead`
holds, and its proof has the same condition (`StepsFit`); `FramesAreInSample`
and `NeighbourIsNext` are proved with the wrap.

### Envelope

`FixedEnvelope` is `xm_check_and_fix_envelope()`; `Files` are instruments as
they are in a file. The channel is one record `ch`, because a slot changes it
in several steps that read each other's result: `HandleSlot` composes
`TriggerNote`, `TriggerInstrument`, `KeyOff` and Lxx in the code's order, and
`TickEnvelopes` is a tick. `TickEnvelope` follows the code into the case its
assertion rules out: in a release build the function then returns without a
value, a member of `Garbage`, and the position stays where it is. That case is
real: the loader compares the frames of an envelope with each other only
(`src/load.c:1586`), and a note starts at frame 0. One instrument of the run
has such an envelope. `TickAssertions` exempts from its last assertion just the
envelopes whose first point is not at frame 0, and `ReleasedNoteEnds` the notes
that wait left of it. The panning envelope runs through the same
functions with the same fields and is not modelled a second time.

Two quirks are faithfully there. EDy triggers the instrument once more when its
tick comes, so a delayed key off (`EDy` with a key-off note) sets `sustained`
again and releases nothing. And the position in an envelope is a `uint16_t`
that goes on past the last point and wraps after 65536 ticks, some 20 minutes
at the default tempo: such a note hears its envelope, and an envelope loop it
had left, once more, although the comment at `src/play.c:1311` says that a
position past the end of the loop does not loop. The smaller `Counters` of the
runs wrap all the time, so the properties hold of wrapped positions too.

### Tick clock

`Frame` is one iteration of the loop of `xm_generate_samples()`, up to mixing.
In a frame in which a tick is due, `ckd_sub()` leaves a wrapped remainder and
`xm_tick()` adds the length of the tick to it, which brings it back in range:
`Credit` is both, modulo `Uint32`. Buffers are left out, since the clock is the
same however frames are cut into them. What is not the same is
`generated_samples`: it is advanced for the whole buffer first, so that the
time a trigger is reported at is the end of its buffer.

`Metronome` counts subsamples from zero, and says that a tick is played in the
frame during which it is due. History variables hold what it needs: the frames
generated, and the length of all ticks, as rounded by the code and exactly.

A tick has to last a frame (`TicksLastAFrame`); at the highest speed this is so
from 102 Hz on. The code does not check it. Below, or at the sample rate 0 that
`xm_reset_context()` leaves, or at the sample rate 1 that `xm_analyze()`
leaves, the remainder stays wrapped for `2^19` frames. `xm.h.in` asks a program
to set the rate after a reset and to reset after an analysis, and the model's
program does (`current_sample_rate # 0`). Speeds are positive: the loader of XM
files clamps the speed of the header from above only (`XMLoader!LoadHeader`),
so a file with speed 0 makes `xm_tick()` divide by it unless its first row sets
another, although `src/xm_internal.h:488` gives the range as starting at
`MIN_BPM`.

## Runs

All runs of the sequencer use `NumChannels` 1 or 2 and `Bytes = 4`: every
`uint8_t` counts to 3. Four values are enough for every wrap to happen inside
the run: a pattern may have as many rows as a byte has values, EEy comes within
one of the wrap of `extra_rows_done`, and `row_loop_count` wraps after four
passes. Two channels are enough for one to overwrite the other; the fields they
share hold one value and no step looks at more than one other channel.

| Run | Shows | Bounds |
|---|---|---|
| `seq_songs` | rows come in the order `RowOrder` allows, leave their pattern only by a jump, are reported, last `tempo * (repeats + 1)` ticks, never stop | 8 effects in each of four rows over two patterns, 8 effects in two channels of two rows, jumps at the end of a pattern with as many rows as a byte has values, and jumps and loops of a pattern that is followed by a shorter one; tempo 0, 1, 2 |
| `seq_loops` | the loop counter counts passes through the song and not replays; a loop plays its body `y + 1` times; the end is reported | E6y loops in three rows of two channels, a second pattern with a loop and EEy |
| `seq_calls` | rows read are stored, tick effects never follow a null slot, a seek lands | a seek to any row and tick, a reset or a dump between any two ticks of four songs |
| `cursor_small` | the assertions of `xm_next_of_sample()`, and the refinement of `Playhead` | every sample of up to 4 frames, with every loop, 4 microsteps, steps 1, 4 and 11 (slower, equal, faster than a frame; 11 turns twice in a short ping-pong loop) |
| `env` | no assertion of the tick code fails but left of a late first point, held notes wait at their sustain point or in their loop, a released note ends | nine instruments of up to three points, four valid, four that loading has to fix and one that starts after frame 0, and every slot over them, so that a note takes over any position any other left; positions wrap at 6 |
| `clock` | nothing is lost between ticks, rounding costs less than a subsample a tick, ticks come when they are due | frames of 4 subsamples, 2 sample rates and 3 speeds without a common factor, changed at any tick, 14 frames, in which every remainder occurs and up to 14 ticks are played; seeks and resets at any frame |
| `channel` | values stay in range, a slot is handled once a row, tremor keeps time, arpeggios and vibratos end, rounding is taken back, portamentos arrive and stop | 22 modules, each with the slots of one group of effects that share state, at full width (volumes to 64, bytes to 255, periods in 16 bits), played in any order, repeated, dumped, sought and reset; tempo 1, 2 or 3, and 20 for an arpeggio longer than its table |
| `xm_files` | the two walks over a file agree, find the same headers, and leave a song and samples that are whole | all lists of up to two patterns with none, some and too many rows under every order table; samples of every relation of length and loop; two instruments of up to two samples, with short headers; autovibratos of every type; more samples than a byte or a word counts, and exactly as many as the latter. A byte has 4 values, a 16-bit number 16, a pattern up to 4 rows |
| `slots` | effects are within bounds, memories and notes are those of the file, nothing deleted is played, a second fixup changes nothing | every effect with every parameter, and every period, of XM and MOD; the columns of S3M effects that share memory; a few lengths of the order table |
| `s3m_loops` | the loop fixup fits loops into free slots, and the song plays as with one loop | every pattern of four rows out of nine kinds, in two channels, `y` up to 2 |

Two other runs show a disagreement between the code and a comment or document:

| Run | Finding |
|---|---|
| `seq_dump` | a context dumped while EEy repeats a row is not "forced to call xm_row()": `extra_rows` keeps the next tick from it, and tick effects follow `ch->current`, now null |
| `slot_glissando` | E30, which turns glissando off, is loaded with a parameter of 1: the nibble that says E3 is compared with 0 too (`src/load.c:2093`, and `src/load.c:2812` for S10) |

Each run checks the hazards at which it is aimed. `EffectsHaveASlot` appears
both as a finding and in a passing run and a theorem under the condition that
rules it out: the program dumps no context that repeats a row.

Where the bounds above are smaller than those of the code, they are enough for
the cases the code tells apart: a byte of four values wraps within a pattern,
two loops can overlap, nest or touch in four rows, an envelope of three points
has a point before, in and after each loop, two instruments are enough for the
second to be read where the first one ended. `xm_files` does not check for
deadlock, since a file that was loaded or refused is not loaded again.

### Fairness

`HistorySpec` has weak fairness on the steps of `xm_tick()`: a player generates
samples for ever, a tick is finite, and `xm_tick()` runs to its end once it is
called. `FairSpec` of `Envelope` has it on `Tick`, for the same reason. Nothing
is assumed of callers: no seek, reset or note is ever forced to happen, and the
liveness properties of a song (`RowsKeepComing`, `LoopIsReported`) are those of
an undisturbed one. `ReleasedNoteEnds` is about a note that is left alone from
some point on, and ticked. `ChannelHistory` has no fairness, and
`PortamentoArrives` names what it needs in its premise: that first and second
ticks keep coming, which is `RowsKeepComing` for rows of two ticks, and that
from some point on the channel has nothing but portamentos.

## Proofs

TLAPS proves, for every value of the constants that meets their assumptions:

* `SequencerProofs!TypeCorrect`: `TypeOK`, with any caller. Its content is that
  indices into the order table and `row_loop_count` are in bounds.
* `SequencerProofs!RowsAreStored`: every row read is in the slot array, with
  any caller, in every song all of whose jumps lead there (`IsAddressable`).
* `SequencerProofs!RowsAreOfTheirPattern`: `PlaysInsidePattern`, for every song
  and any caller: no pattern is run past its end, and the numbers of the rows
  out there are only those that a Dxx or a mark within a pattern names.
* `SequencerProofs!RowsComeInOrder`: `Sequencer` implements `RowOrder`,
  for every song, every number of channels and every order of their effects.
* `SequencerProofs!ReportsThePosition` and `RowsLastAsAsked`: the
  position reported is that of the row being played, except in the last row of
  a pattern, and a row lasts as many ticks as tempo and EEy ask for.
* `SequencerProofs!CarefulCallsKeepSlots` and `SeeksLand`: under careful
  calls tick effects never follow a null slot; and the next row that is played
  is the one a seek asked for, if it asked for the start of a row while no jump
  and no repeat was pending.
* `SequencerProofs!BodiesArePlayed`: in a song with plain loops (below), every
  row of a loop E6y is played `y + 1` times when the loop is over.
* `SequencerProofs!PassesAreCounted`: in such a song, if the rows its entries
  start at settle after the first pass, the loop counter is the number of
  passes through the song, or one less.
* `S3MLoopsProofs!LoopsAlwaysFit` and `SoundsAsScreamTracker`: for a song of
  one pattern of any length, with any number of channels and the effects
  `IsS3M` allows (neither Bxx nor Cxx), no assertion of the loop fixup fails,
  no other effect is displaced, and `S3MLoops` implements `ScreamTracker`.
* `SampleCursorProofs!FramesAreInSample` and `NeighbourIsNext`: the frames read
  are frames of the sample, and of the loop once it was entered by its end; the
  second is the one the cursor comes to next.
* `SampleCursorProofs!FramesAreInOrder`: `SampleCursor` implements `Playhead`,
  for every sample, speed and number of microsteps, if no step takes a position
  past its `uint32_t` (`StepsFit`). The lemma behind it, `HeadMovesOn`, is that
  the arithmetic of a position `n` frames on is `n` single moves.
* `EnvelopeProofs!TypeIsKept` and `AssertionsHold`: for every envelope the
  loader lets pass, the fields of a channel keep their types, the assertions of
  the tick code hold and values are in range, with one exception that the
  property names. The loader lets an envelope pass whose first point is after
  frame 0; the first tick of a note then reaches `assert(0)`.
* `EnvelopeProofs!NotesStayHeld`: for all of them, too, a held note waits at
  its sustain point, and a tick leaves a loop only the way it should.
* `TickClockProofs!TimeIsConserved`, `DriftStaysBounded` and
  `TicksComeWhenDue`: for every granularity, sample rate and speed, the clock
  loses nothing, drifts by less than a subsample a tick, and implements
  `Metronome`.
* `ChannelProofs!ChannelAlwaysFits`: whatever module is played, in whatever
  order its slots come, and whatever chance gives, the fields of a channel keep
  their ranges and what a tick mixes from them fits (`TypeOK`).
* `ChannelProofs!RoundingIsAlwaysUndone`, `NothingEverLingers`,
  `SlotsAreHandledOnce` and `TremorAlwaysKeepsTime`: rounding a period to a
  semitone loses nothing of it, arpeggios and vibratos end with their row, a
  slot is handled once in each pass of its row, and every part of a tremor
  lasts as long as its nibble says.
* `SlotLoaderProofs!AllEffectsAreFixed`, `FixupIsIdempotent`,
  `NoStrayArpeggios` and `MemoriesAgree`: for every slot of the three formats,
  effects are within the bounds the player relies on, a second fixup changes
  nothing, deleted effects are not played, and S3M effects recall what the file
  says.
* `SlotLoaderProofs!NotesAreAlwaysWritten`: for every slot whose note its
  format has (`HasPlainNote`, see above) and every period of a MOD file, notes
  are those of the file, and those of ProTracker's table for its periods.
* `XMLoaderProofs!SongsAreWhole` and `AssertionsAlwaysHold`: for every XM file
  and all limits for which `LimitsAssumption` holds, as it does for those of
  the code, patterns share the rows without a gap, orders name patterns, and
  the assertions on the way hold, but for the two that a file can fail (above).
* `XMLoaderProofs!HeadersAreAlwaysFound`, `WalksAlwaysAgree` and
  `SamplesAreAlwaysWhole`: the second walk reads each header and the data of
  each sample where the first one found it, if headers and frames are whole; it
  counts the same as the first, if the order table and headers are whole and no
  loop wraps; and it leaves samples that share the frames without a gap, under
  the conditions named below.

*The sequencer.* `TypeOK` is not inductive. `xm_row()` trusts `current_row`,
which comes from `jump_row`, which comes from a Dxx, an E60 or a loop origin.
`IInv` adds that `jump_row` and the loop origins are always targets of jumps
(`JumpTargets`), and `current_row` is one or a row of its pattern, unless a
jump is pending: after the last row of a pattern with a pending jump,
`current_row` is one too many and not used. What a loop marks outside of its
pattern was a target before (`HandleFacts`), so that the targets are those of
the song from the start. The steps follow the disjuncts of `Next`; `SlotFacts`
says what the slot of a stored row may hold. For slots,
`SlotsInv` says that between ticks either every channel has its slot or none
has, and then the next tick starts a row. `Dump` breaks the second half while a
row repeats, which is what `CarefulDump` excludes. `SeekInv` says that a seek
is still where it went until the row it asked for is over.

*The order of rows.* In the middle of a row the refinement has nothing to map:
the sequencer has changed, and the row being played has not. `OrderInv` bridges
that. While slots are handled, what is pending is something the slots handled
*so far* allow (`PendingFits`, which holds of no slot at the start of a row and
of all of them at its end); between rows, where the sequencer would go next is
a row `RowOrder` lets follow (`MayPlay`). The origins of loops outlive their
pattern, so that they are only known to be rows that some pattern marks
(`OriginsMarked`). `ReportInv` and `RowTimeInv` rest on it: the first says that
`current_row` is one ahead of the row being played, with the wrap of a pattern
of as many rows as a byte has values (`WrapBack`); the second splits the ticks
played into repeats that are done and ticks of the current one (`Elapsed`),
with the bound on EEy as the reason why neither counter wraps.

*The loops of a song.* `HasPlainLoops` is about one song: its only jumps are
E6y, each E6y has its E60 above it, and between the two is neither an E60 nor a
row at which some pattern has one. The last condition is there because an E60
also sets the row the *next* pattern starts at, which may be in the middle of a
loop of that pattern. Such loops do not overlap (`AroundIsUnique`). `BodyInv`
says what the counters mean at every row: before it (`BeforeRow`), the counter
of the loop around it is how often the rows still to come were played, those
above were played once more, and all other counters are 0; inside it
(`InsideRow`), the same, by whether the E6y was handled. This is the invariant
that `LoopPlaysBody` needs: that the counter and the plays agree at the end is
only known because they agree at every row.

`PassInv` adds what was counted: a row that comes again in every pass was
counted once in each pass that is over, and once more if it is done in this one
(`CountsFit`). A row that is being repeated is counted once only, and the last
row of a loop not before the loop is over, so that the rows that are done end
at one row, the front, in and outside of loops (`FrontIs`). A row that the
first pass skipped stays one behind (`Skipped`), which is why
`LoopCountIsPasses` allows one less; the last row of the song is never skipped.
`StartsSettle` says that no pass but the first skips more: there are rows
`first` and `later` at which the entries start. It cannot be left out. With
three entries of four rows that have an E60 in their row 3, 2 and 1, and
restart position 1, rows start to be played in the third pass, and the counter
goes back from 1 to 0 at one of them. In the songs of `seq_loops` starts
settle; 384 of its 1024 songs have plain loops, and 256 of them a loop at all.

*The loops.* ScreamTracker's loops do not overlap (`BodiesAreDisjoint`): each
starts after the end of the one before it. So every row belongs to at most one
loop, `EffectsAre` finds in each slot the loop that was written there, and of
all channels only the `Home` of that loop counts. `LoopsInv` says what the
counters of the channels are meanwhile: between rows (`BetweenRows`), those of
a loop that is being repeated are what `heard` has counted, and all others are
0; inside a row (`AtRow`), the same of the channels that were handled.
`NextRowFits` is about the row that comes next: a body is never entered but by
its first row, where the E60 moves the origin, so that an origin that is read
is one of this pass.

*The channel.* `ChannelInv` is the part of `TypeOK` that is about fields, and
one fact more: an arpeggio that is heard is one the next row will end
(`WillEnd`). The work is in one lemma for each operator of `Volume` and
`Pitch`, which are then composed as the code does (`Steps`, `StepsOn`). Such a
lemma says up to four things at once: the fields stay in range, what later rows
have to take back is kept (`KeepsEnds`), tremor is left alone (`KeepsTremor`),
and the period stays what it would be without rounding (`KeepsPeriod`);
`RowSteps`, `TickSteps` and `CallSteps` collect them for the actions, and the
theorems only combine them. `RoundingOfAPeriod` is the heart of
`RoundingIsAlwaysUndone`: the error of rounding a 16-bit period fits in the
`int8_t` it is kept in, and adding it back gives the same period, even where
the arithmetic wraps below zero. `MixAlwaysFits` is what the 31-bit product of
volumes and the panning rely on. `TremorInv` says that `tremor_ticks` is what
is left of the part a tremor is in, and `HandledInv` counts handled slots tick
by tick. A module may be anything that `IsModule` allows: slots as the fixup
leaves them, and periods that are not 0, as those of `xm_period()` are.

*The cursor.* `TypeOK` is inductive, and `IndexInSample` is a consequence: the
work is in `ReducedFacts` and `IndexFacts`, which bound the position modulo the
loop, with multiplication by an arbitrary `MICROSTEPS`; the lemmas before them
(`DivUpper`, `DivLower`, `TimesLess`, ...) state the few facts about products
and quotients the solver needs to be told.

For the refinement, `HeadAt` says where the head is after `g` frames, without
regard to how it came there. `HeadMoves` is the step from `g` to `g + 1`, with
its cases at the ends of a loop, and `HeadMovesOn` says the same of any number
of moves. `Moves` is recursive, and the proof is by induction all the same: the
induction theorems of the library take an operator, but `SetInduction` takes a
set, and follows from the least element of its complement. `PositionHead` and
`FoldedOnce` connect both to positions, where `ModOfProduct` splits a remainder
into frames and microsteps. What is left is `ReadMoves`, a read, and the
actions that put the head elsewhere.

*The envelope.* `TypeOK` is inductive: `TickFacts` gives the value of a tick,
where `LeftFacts` finds the segment, among the 12 points an envelope has at
most, and `LerpInRange` shows that interpolation stays between its ends.
`AssertionsHold` follows from it. `NotesStayHeld` has an invariant of its own,
`Placed`, which leaves the values out. That
a position which has not passed the sustain point stops there (`TickWaits`),
and that one in a loop stays in it (`TickLoops`), rests on points that increase
at any distance (`PointsIncrease`), and on what the loader has seen to: that a
loop starts before it ends. The cases are those of `Next`: a slot may put the
position back to 0, Lxx anywhere, and Rxy and EDy tick what they triggered.

*The clock.* `TypeOK` and `NothingIsLost` are inductive together. `CreditFacts`
is about the wrap: what `ckd_sub()` took too much is given back, because a tick
lasts a frame (so the sum is not negative) and the static assertion of
`xm_tick()` holds (so it does not overflow). From `NothingIsLost`, a remainder
below a frame is the same as a tick that is due in this frame (`DueFacts`),
which is all the refinement needs. `RoundingFacts` is the rounding of one tick.

*The slots.* `Inv` is about the slot that was decoded, then fixed. The work is
in the lemmas on operators: `XMIsLimited`, `ModIsLimited` and `S3MIsLimited`
say which types and parameters a decoded effect may have, `FixupFixes` that the
fixup brings any of these into bounds, and `FixupSettles` that a slot in bounds
is left alone. `NothingToFix` is the list of what the fixup looks for. For
memories, `Inv` ties `last_effect_parameter` of the loader, `effect_param` of
the player and the history of the file together at each stage.

For notes, the period of a MOD slot is halved until it is in the table of the
highest octave. `Octave`, which does that, is a recursive function, and the
library's theorems about those take operators. `OctaveIs` shows that it meets
its equation from least elements: there is a solution on every initial segment
of the naturals, and any two agree where both are defined. `PeriodsFollow` then
compares each period with the one before it: halved, it is the same or one
longer, or it starts the octave below (56 after 111). `OctavesSpan` says which
periods are in which octave, as the table of ProTracker has them, and
`NotesStart` that a file has none so long that its note would be below the
lowest. `NotesInv` follows a note through the fixup, where only E90 writes one,
into a slot that has none.

*The XM loader.* `SongIsWhole` is about the end of the second walk, and rests
on the first. `Inv` carries through both what was counted: the rows before each
pattern (`Traced`), that a file with an order that names no pattern has room
for the blank one, and, in the second walk, that the patterns stored so far
share the rows (`StoredRows`). `RowsFit` shows that no sum of rows overflows
its 16 bits, from the assumption on the limits: `(MAX_PATTERNS - 1) *
MAX_ROWS_PER_PATTERN < Shorts - 1`. `LoadOrders`, which may add the blank
pattern, is the one long step.

For samples, the first walk leaves a history of where it was, and of what it
had counted, at each instrument and sample (`instrumentAt`, `sampleAt`).
`MarksInv` says what that history is: each mark follows from the one before it,
by the same sizes the second walk reads (`Passed`, `Left`). `WalkInv` then says
that the second walk, at an instrument, at a header or at the data of a sample,
has counted what the mark says, and is at the mark's offset. Nothing is summed:
both walks are compared step by step, which is why no induction over a list is
needed. `CountsInv` is the same for everything but samples; `ChainInv` and
`NotesInv` are about what the second walk stores. Each part is conditional on
exactly what it needs: `HasWholeHeaders` for the number of samples,
`HasNarrowLoops` for their lengths, `HasWholeFrames` for offsets.
`SamplesAreAlwaysWhole` has two hypotheses more than the property that the run
checks. `HasWholeHeaders`, which `WalkInv` needs to say anything of samples; in
files with short headers it is checked only that samples share the frames. And
`FramesFit`, that as many samples of the greatest length as the file has need
less than `2^32` frames: the frames of a sample are numbered in 32 bits, and
the limits of the run do not reach their wrap.

Only model-checked:

* everything under fairness (`RowsKeepComing`, `LoopIsReported`,
  `ReleasedNoteEnds`, `PortamentoArrives`), which is out of the prover's reach;
* `LoopCountIsPasses` and `LoopPlaysBody` for songs whose loops have no E60, or
  have another one in between, as some of the run do: their rows are not all
  played equally often, and an invariant would have to know which were;
* `NeverOvershoots`, which holds of the periods of the run and not of every
  period: rounding may take one of less than half a semitone across zero, where
  it wraps.

## Not modelled

* Floating point: the panning law, the frequency of a period, interpolation
  weights, ramps, amplification. These are formulas without state that a model
  checker could tell apart. `xm_frequency()` subtracts an autovibrato from a
  period in unsigned arithmetic, which may wrap for the shortest periods; that
  is not modelled either. Of the mixing, the integers are in `Volume`.
* The period of a note: a module of `Channel` has a table in its place.
* Headers, sample headers and packed rows of MOD and S3M files, and the channel
  map of S3M: they are read in one walk each like those of XM, and are the next
  candidates. Packed XM slots: a stream may decode to more slots than its
  pattern has, of which the code only gives notice.
* The bytes of a dump. That it restores the slots is in `SlotLoader`; what it
  does to a context that is played is in the four modules with a `Dump`.
* `xm_analyze()`: it plays a song once and collects features in bit sets. Its
  only loop ends when the sequencer reports the end.
* Build options other than the defaults (disabled features, `XM_STRINGS`,
  timing functions switched off).
* The wrap of `frame_count`, after `2^32` frames (a day) of one note: the model
  counts up to `RAMPING_POINTS`, from where on all values are alike.
* Examples and tests.

## Plan

Done, in this order: `Sequencer` (what decides everything else),
`SampleCursor`, `Envelope`, `TickClock`, `Channel`, `Slots` and `SlotLoader`,
`XMLoader`, `S3MLoops`; then the proofs about each. To come, the most important
first:

1. A proof of `NeverOvershoots` for periods that stay a semitone away from both
   ends of a word; for all periods a module can play, it needs a model of
   `xm_period()` besides.
2. The headers of MOD and S3M files, as `XMLoader` has those of XM.
3. `LoopPlaysBody` for songs whose loops have no E60 and start with row 0.
