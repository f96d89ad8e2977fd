------------------------------- MODULE XMLoader -------------------------------
(***************************************************************************)
(* How libxm loads an .XM file (src/load.c).  The file is walked twice:    *)
(* xm_prescan_xm0104() counts what is in it, the program allocates a       *)
(* context of that size, and xm_load_xm0104() fills it.  The two walks     *)
(* decode the file on their own, and nothing but assertions at the end of  *)
(* xm_create_context() says that they agree.                               *)
(*                                                                         *)
(* One action is one iteration of a loop of the code, and pc says which    *)
(* loop.  A file is a record of the fields that are read; the offsets are  *)
(* those of the code, and a walk that reads a header elsewhere than the    *)
(* first one did has lost the file: that is pc = "lost", and the end of    *)
(* what is modelled.  What the slots of a pattern are decoded to is in     *)
(* Slots, and envelopes are in Envelope.                                   *)
(***************************************************************************)
EXTENDS Integers, FiniteSets

CONSTANTS
  Files,                  \* the files that may be loaded, see IsFile
  Bytes,                  \* how many values a uint8_t has: 256
  Shorts,                 \* a uint16_t: 65536
  Words,                  \* a uint32_t: 2^32
  MAX_PATTERNS, MAX_ROWS_PER_PATTERN, EMPTY_PATTERN_NUM_ROWS,
  PATTERN_ORDER_TABLE_LENGTH, MAX_SAMPLE_LENGTH, MAX_NOTE,
  MIN_BPM, MAX_BPM,
  Waveforms,              \* how many an autovibrato may have: 4
  SAMPLE_HEADER_SIZE,
  MaxContextSize,         \* 128 << 20, in elements here
  Garbage                 \* bytes an uninitialized array may hold

Byte == 0 .. Bytes - 1
Short == 0 .. Shorts - 1
Word == 0 .. Words - 1
Order == 0 .. PATTERN_ORDER_TABLE_LENGTH - 1
Note == 0 .. MAX_NOTE - 1
SampleFlags == {"FORWARD", "PING_PONG", "16B"}
NoSample == Shorts - 1  \* UINT16_MAX
U8(n) == n % Bytes
U32(n) == n % Words

(* Where the number of samples, the samples of the notes and the waveform   *)
(* of the autovibrato are in the header of an instrument.                   *)
NumSamplesAt == 27
SampleOfNotesAt == 33
VibratoTypeAt == SampleOfNotesAt + MAX_NOTE + 106

Patterns(f) == DOMAIN f.patterns
Instruments(f) == DOMAIN f.instruments
SamplesOf(x) == DOMAIN x.samples

IsFileSample(s) ==
  /\ s.length \in Word /\ s.loop_start \in Word /\ s.loop_length \in Word
  /\ s.flags \subseteq SampleFlags

IsFileInstrument(x) ==
  /\ x.header_size \in Word /\ x.num_samples \in Short
  /\ x.sample_of_notes \in [Note -> Byte] /\ x.vibrato_type \in Byte
  /\ SamplesOf(x) = 0 .. x.num_samples - 1
  /\ \A j \in SamplesOf(x) : IsFileSample(x.samples[j])

IsFilePattern(p) ==
  p.header_size \in Word /\ p.num_rows \in Short /\ p.packed_size \in Short

(* A table that the end of the file cuts short has table_bytes bytes left.  *)
IsFile(f) ==
  /\ f.header_size \in Word /\ f.length \in Short /\ f.restart_position \in Short
  /\ f.num_channels \in Short /\ f.num_patterns \in Short
  /\ f.num_instruments \in Short /\ f.tempo \in Short /\ f.bpm \in Short
  /\ f.table_bytes \in 0 .. PATTERN_ORDER_TABLE_LENGTH
  /\ f.pattern_table \in [Order -> Byte]
  /\ Patterns(f) = 0 .. f.num_patterns - 1
  /\ Instruments(f) = 0 .. f.num_instruments - 1
  /\ \A p \in Patterns(f) : IsFilePattern(f.patterns[p])
  /\ \A i \in Instruments(f) : IsFileInstrument(f.instruments[i])

ASSUME FilesAssumption == \A f \in Files : IsFile(f)
ASSUME WidthsAssumption ==
  Bytes \in Nat \ {0} /\ Shorts \in Nat \ {0} /\ Words \in Nat \ {0}
ASSUME LimitsAssumption ==
  /\ MAX_PATTERNS \in 1 .. Bytes /\ MAX_ROWS_PER_PATTERN \in 1 .. Bytes
  /\ (MAX_PATTERNS - 1) * MAX_ROWS_PER_PATTERN < Shorts - 1
  /\ EMPTY_PATTERN_NUM_ROWS \in 1 .. MAX_ROWS_PER_PATTERN
  /\ PATTERN_ORDER_TABLE_LENGTH \in 1 .. Bytes
  /\ MAX_SAMPLE_LENGTH \in Nat /\ MAX_NOTE \in Nat
  /\ MIN_BPM \in 1 .. Bytes - 1 /\ MAX_BPM \in Byte /\ Waveforms \in Nat \ {0}
  /\ SAMPLE_HEADER_SIZE \in Nat /\ MaxContextSize \in Nat
ASSUME GarbageAssumption == Garbage # {} /\ Garbage \subseteq Byte

VARIABLES
  file,         \* moddata; never changes
  pc,           \* which loop of which walk is running
  i, j,         \* its loop variables: a pattern or an instrument, and a sample
  offset,       \* where it reads
  bytes,        \* inst_samples_bytes
  out,          \* what the first walk counts: xm_prescan_data_t
  mod,          \* what the second one loads: the counts of xm_module_t,
  header,       \* the rest of it,
  patterns, sample_of_notes, samples,  \* and the arrays of the context
  patternAt, instrumentAt, sampleAt    \* history: where the first walk was, and
                                       \* what it had counted, at each header

walk == <<pc, i, j, offset, bytes>>
loaded == <<mod, header, patterns, sample_of_notes, samples>>
history == <<patternAt, instrumentAt, sampleAt>>
vars == <<file, walk, out, loaded, history>>

Instrument == file.instruments[i]
Sample == Instrument.samples[j]

-----------------------------------------------------------------------------
(* Values both walks compute, or compute differently.                       *)

(* The rows of a pattern.  One without data has 64, whatever it says.       *)
NumRows(p) == IF p.packed_size = 0 THEN EMPTY_PATTERN_NUM_ROWS ELSE p.num_rows

Loops(flags) == flags \cap {"FORWARD", "PING_PONG"} # {}

(* A sample ends where its loop does.                                       *)
TrimSampleLength(length, loop_start, loop_length, flags) ==
  IF ~Loops(flags) \/ loop_start > length THEN length
  ELSE IF U32(loop_start + loop_length) > length THEN loop_start
  ELSE U32(loop_start + loop_length)

Frames(length, flags) == IF "16B" \in flags THEN length \div 2 ELSE length

PrescanLength(s) ==
  Frames(TrimSampleLength(s.length, s.loop_start, s.loop_length, s.flags), s.flags)

MaxLength(flags) ==
  IF "PING_PONG" \in flags THEN MAX_SAMPLE_LENGTH \div 2 ELSE MAX_SAMPLE_LENGTH

(* The loop of a sample, after xm_load_xm0104_sample_header() fixed it.     *)
LoopStart(s) == IF s.loop_start > s.length THEN s.length ELSE s.loop_start
LoopLengthUnfixed(s) == s.loop_length  \* mutant
LoopLength(s) ==
  IF U32(LoopStart(s) + s.loop_length) > s.length THEN 0 ELSE s.loop_length

LoadedSampleInBytes(s) ==  \* mutant
  [length |-> TrimSampleLength(s.length, LoopStart(s), LoopLength(s), s.flags),
   loop_length |-> IF Loops(s.flags) THEN LoopLength(s) ELSE 0,
   ping_pong |-> "PING_PONG" \in s.flags,
   index |-> s.length]
LoadedSample(s) ==
  [length |-> Frames(TrimSampleLength(s.length, LoopStart(s), LoopLength(s), s.flags), s.flags),
   loop_length |-> IF Loops(s.flags) THEN Frames(LoopLength(s), s.flags) ELSE 0,
   ping_pong |-> "PING_PONG" \in s.flags,
   index |-> Frames(s.length, s.flags)]

(* What the data of a sample takes in the file, as the second walk skips it. *)
SkippedTrimmed(smp, flags) ==  \* mutant
  IF "16B" \in flags THEN smp.length * 2 ELSE smp.length
Skipped(smp, flags) == IF "16B" \in flags THEN smp.index * 2 ELSE smp.index

(* Reads of an instrument are bounded by its header size.                   *)
HeaderSamples(x) == IF x.header_size > NumSamplesAt THEN U8(x.num_samples) ELSE 0
HeaderNote(x, n) ==
  IF x.header_size > SampleOfNotesAt + n THEN x.sample_of_notes[n] ELSE 0
SampleOfNote(x, n, first) ==
  IF HeaderNote(x, n) >= HeaderSamples(x) THEN NoSample ELSE first + HeaderNote(x, n)

VibratoType(x) == IF x.header_size > VibratoTypeAt THEN x.vibrato_type ELSE 0

(* Reads past the end of the file give 0.                                   *)
TableEntry(e) == IF e < file.table_bytes THEN file.pattern_table[e] ELSE 0

ClampedLength ==
  IF file.length > PATTERN_ORDER_TABLE_LENGTH THEN PATTERN_ORDER_TABLE_LENGTH ELSE file.length

(* The elements of a context, each of size 1 here.                          *)
ContextSize(c) ==
  c.num_channels + c.num_instruments + c.num_samples + c.num_patterns
    + c.samples_data_length + c.num_rows * c.num_channels
    + MAX_ROWS_PER_PATTERN * c.length

-----------------------------------------------------------------------------
(* The first walk: xm_prescan_xm0104().                                     *)

NoCounts == [length |-> 0, num_channels |-> 0, num_patterns |-> 0, num_instruments |-> 0,
             num_rows |-> 0, num_samples |-> 0, samples_data_length |-> 0]
NoHeader == [restart_position |-> 0, default_tempo |-> 0, default_bpm |-> 0,
             pattern_table |-> [e \in Order |-> 0]]
NoSampleData == [length |-> 0, loop_length |-> 0, ping_pong |-> FALSE, index |-> 0]

Init ==
  /\ file \in Files
  /\ pc = "prescan" /\ i = 0 /\ j = 0 /\ offset = 60 /\ bytes = 0
  /\ out = NoCounts /\ mod = NoCounts /\ header = NoHeader
  /\ patterns = [p \in {} |-> 0] /\ samples = [k \in {} |-> 0]
  /\ sample_of_notes = [n \in {} |-> 0]
  /\ patternAt = [p \in 0 .. file.num_patterns |-> [offset |-> 0, num_rows |-> 0]]
  /\ instrumentAt =
       [n \in 0 .. file.num_instruments |->
          [offset |-> 0, num_samples |-> 0, samples_data_length |-> 0]]
  /\ sampleAt =
       [n \in Instruments(file) |->
          [k \in 0 .. file.instruments[n].num_samples |->
             [offset |-> 0, bytes |-> 0, samples_data_length |-> 0]]]

Refuse == pc' = "refused" /\ UNCHANGED <<file, i, j, offset, bytes, out, loaded, history>>

Unreadable ==
  \/ file.num_channels > Bytes - 1
  \/ file.num_patterns > MAX_PATTERNS
  \/ file.num_instruments > Bytes - 1

PrescanHeader ==
  /\ pc = "prescan"
  /\ IF Unreadable THEN Refuse
     ELSE /\ pc' = "prescan_patterns" /\ i' = 0
          /\ offset' = U32(offset + file.header_size)
          /\ out' = [NoCounts EXCEPT !.length = file.length,
                                     !.num_channels = file.num_channels,
                                     !.num_patterns = file.num_patterns,
                                     !.num_instruments = file.num_instruments]
          /\ patternAt' = [patternAt EXCEPT ![0].offset = offset']
          /\ UNCHANGED <<file, j, bytes, loaded, instrumentAt, sampleAt>>

PatternEnd(p) == U32(offset + p.header_size + p.packed_size)

HasTooManyRowsLate(p) == NumRows(p) > MAX_ROWS_PER_PATTERN + 1  \* mutant
HasTooManyRows(p) == NumRows(p) > MAX_ROWS_PER_PATTERN

PrescanPattern ==
  /\ pc = "prescan_patterns" /\ i < file.num_patterns
  /\ LET p == file.patterns[i]
     IN  IF HasTooManyRows(p) THEN Refuse
         ELSE /\ i' = i + 1 /\ offset' = PatternEnd(p)
              /\ out' = [out EXCEPT !.num_rows = @ + NumRows(p)]
              /\ patternAt' = [patternAt EXCEPT ![i + 1] =
                                 [offset |-> offset', num_rows |-> out'.num_rows]]
              /\ UNCHANGED <<file, pc, j, bytes, loaded, instrumentAt, sampleAt>>

(* The table of this walk is on the stack, and keeps what was there where   *)
(* the file is too short to fill it.                                        *)
IsInvalidLate(entry) == entry > file.num_patterns  \* mutant
IsInvalid(entry) == entry >= file.num_patterns
InvalidOrders(garbage) ==
  \E e \in 0 .. ClampedLength - 1 :
    IsInvalid(IF e < file.table_bytes THEN file.pattern_table[e] ELSE garbage)

HasNoRoom(garbage) == InvalidOrders(garbage) /\ file.num_patterns >= MAX_PATTERNS

PrescanOrders ==
  /\ pc = "prescan_patterns" /\ i = file.num_patterns
  /\ \E garbage \in Garbage :
       IF HasNoRoom(garbage) THEN Refuse
       ELSE /\ pc' = "prescan_instruments" /\ i' = 0
            /\ out' = IF InvalidOrders(garbage)
                      THEN [out EXCEPT !.length = ClampedLength,
                                       !.num_rows = @ + EMPTY_PATTERN_NUM_ROWS,
                                       !.num_patterns = @ + 1]
                      ELSE [out EXCEPT !.length = ClampedLength]
            /\ instrumentAt' = [instrumentAt EXCEPT ![0] =
                 [offset |-> offset, num_samples |-> out.num_samples,
                  samples_data_length |-> out.samples_data_length]]
            /\ UNCHANGED <<file, j, offset, bytes, loaded, patternAt, sampleAt>>

HasTooMany(x) == out.num_samples + x.num_samples > Shorts - 1

PrescanInstrument ==
  /\ pc = "prescan_instruments" /\ i < file.num_instruments
  /\ IF HasTooMany(Instrument) THEN Refuse
     ELSE /\ pc' = "prescan_samples" /\ j' = 0 /\ bytes' = 0
          /\ offset' = U32(offset + Instrument.header_size)
          /\ out' = [out EXCEPT !.num_samples = @ + Instrument.num_samples]
          /\ sampleAt' = [sampleAt EXCEPT ![i][0] =
               [offset |-> offset', bytes |-> 0,
                samples_data_length |-> out.samples_data_length]]
          /\ UNCHANGED <<file, i, loaded, patternAt, instrumentAt>>

PrescanSample ==
  /\ pc = "prescan_samples" /\ j < Instrument.num_samples
  /\ IF PrescanLength(Sample) > MaxLength(Sample.flags) THEN Refuse
     ELSE /\ j' = j + 1
          /\ offset' = U32(offset + SAMPLE_HEADER_SIZE)
          /\ bytes' = U32(bytes + Sample.length)
          /\ out' = [out EXCEPT !.samples_data_length = U32(@ + PrescanLength(Sample))]
          /\ sampleAt' = [sampleAt EXCEPT ![i][j + 1] =
               [offset |-> offset', bytes |-> bytes',
                samples_data_length |-> out'.samples_data_length]]
          /\ UNCHANGED <<file, pc, i, loaded, patternAt, instrumentAt>>

PrescanData ==
  /\ pc = "prescan_samples" /\ j = Instrument.num_samples
  /\ pc' = "prescan_instruments" /\ i' = i + 1
  /\ offset' = U32(offset + bytes)
  /\ instrumentAt' =
       [instrumentAt EXCEPT ![i + 1] =
          [offset |-> offset', num_samples |-> out.num_samples,
           samples_data_length |-> out.samples_data_length]]
  /\ UNCHANGED <<file, j, bytes, out, loaded, patternAt, sampleAt>>

-----------------------------------------------------------------------------
(* The second walk: xm_create_context() and xm_load_xm0104().               *)

CreateContext ==
  /\ pc = "prescan_instruments" /\ i = file.num_instruments
  /\ IF ContextSize(out) > MaxContextSize THEN Refuse
     ELSE /\ pc' = "load"
          /\ patterns' = [p \in 0 .. out.num_patterns - 1 |-> [rows_index |-> 0, num_rows |-> 0]]
          /\ samples' = [k \in 0 .. out.num_samples - 1 |-> NoSampleData]
          /\ sample_of_notes' = [n \in Instruments(file) |-> [k \in Note |-> 0]]
          /\ offset' = 60
          /\ UNCHANGED <<file, i, j, bytes, out, mod, header, history>>

LoadHeader ==
  /\ pc = "load"
  /\ pc' = "load_patterns" /\ i' = 0
  /\ offset' = U32(offset + file.header_size)
  /\ mod' = [NoCounts EXCEPT !.length = ClampedLength,
                             !.num_channels = U8(file.num_channels),
                             !.num_patterns = file.num_patterns,
                             !.num_instruments = U8(file.num_instruments)]
  /\ header' =
       [restart_position |-> IF file.restart_position >= ClampedLength THEN 0
                             ELSE file.restart_position,
        default_tempo |-> IF file.tempo >= MIN_BPM THEN MIN_BPM - 1 ELSE file.tempo,
        default_bpm |-> IF file.bpm > MAX_BPM THEN MAX_BPM ELSE file.bpm,
        pattern_table |-> [e \in Order |-> TableEntry(e)]]
  /\ UNCHANGED <<file, j, bytes, out, patterns, sample_of_notes, samples, history>>

LoadPattern ==
  /\ pc = "load_patterns" /\ i < mod.num_patterns
  /\ offset = patternAt[i].offset
  /\ LET p == file.patterns[i]
     IN  /\ patterns' = [patterns EXCEPT ![i] = [rows_index |-> mod.num_rows % Shorts,
                                                 num_rows |-> NumRows(p)]]
         /\ mod' = [mod EXCEPT !.num_rows = @ + NumRows(p)]
         /\ offset' = PatternEnd(p)
  /\ i' = i + 1
  /\ UNCHANGED <<file, pc, j, bytes, out, header, sample_of_notes, samples, history>>

(* Every invalid order plays the same blank pattern, stored last.           *)
LoadOrders ==
  /\ pc = "load_patterns" /\ i = mod.num_patterns
  /\ IF \E e \in 0 .. mod.length - 1 : IsInvalid(header.pattern_table[e])
     THEN /\ header' = [header EXCEPT !.pattern_table =
                          [e \in Order |-> IF e < mod.length /\ IsInvalid(@[e])
                                           THEN U8(mod.num_patterns) ELSE @[e]]]
          /\ patterns' = [patterns EXCEPT ![mod.num_patterns] =
                            [rows_index |-> mod.num_rows % Shorts,
                             num_rows |-> EMPTY_PATTERN_NUM_ROWS]]
          /\ mod' = [mod EXCEPT !.num_patterns = @ + 1,
                                !.num_rows = @ + EMPTY_PATTERN_NUM_ROWS]
     ELSE UNCHANGED <<header, patterns, mod>>
  /\ pc' = "load_instruments" /\ i' = 0
  /\ UNCHANGED <<file, j, offset, bytes, out, sample_of_notes, samples, history>>

LoadEmptyInstrument ==
  /\ pc = "load_instruments" /\ i < mod.num_instruments
  /\ offset = instrumentAt[i].offset
  /\ HeaderSamples(Instrument) = 0
  /\ sample_of_notes' = [sample_of_notes EXCEPT ![i] = [n \in Note |-> NoSample]]
  /\ offset' = U32(offset + Instrument.header_size) /\ i' = i + 1
  /\ UNCHANGED <<file, pc, j, bytes, out, mod, header, patterns, samples, history>>

(* assert(0): FT2 has no such waveform.  A build without assertions has it  *)
(* that this is not reached; nothing is said of what follows.               *)
FailInstrument ==
  /\ pc = "load_instruments" /\ i < mod.num_instruments
  /\ offset = instrumentAt[i].offset
  /\ HeaderSamples(Instrument) > 0 /\ VibratoType(Instrument) >= Waveforms
  /\ pc' = "failed"
  /\ UNCHANGED <<file, i, j, offset, bytes, out, loaded, history>>

LoadInstrument ==
  /\ pc = "load_instruments" /\ i < mod.num_instruments
  /\ offset = instrumentAt[i].offset
  /\ HeaderSamples(Instrument) > 0 /\ VibratoType(Instrument) < Waveforms
  /\ sample_of_notes' = [sample_of_notes EXCEPT ![i] =
                           [n \in Note |-> SampleOfNote(Instrument, n, mod.num_samples)]]
  /\ mod' = [mod EXCEPT !.num_samples = @ + HeaderSamples(Instrument)]
  /\ pc' = "load_samples" /\ j' = 0
  /\ offset' = U32(offset + Instrument.header_size)
  /\ UNCHANGED <<file, i, bytes, out, header, patterns, samples, history>>

(* The sample the loops over the samples of an instrument are at.           *)
Current == mod.num_samples - HeaderSamples(Instrument) + j
IsLast == j + 1 = HeaderSamples(Instrument)

LoadSampleHeader ==
  /\ pc = "load_samples"
  /\ offset = sampleAt[i][j].offset
  /\ samples' = [samples EXCEPT ![Current] = LoadedSample(Sample)]
  /\ offset' = U32(offset + SAMPLE_HEADER_SIZE)
  /\ pc' = IF IsLast THEN "load_data" ELSE pc
  /\ j' = IF IsLast THEN 0 ELSE j + 1
  /\ UNCHANGED <<file, i, bytes, out, mod, header, patterns, sample_of_notes, history>>

LoadSampleData ==
  /\ pc = "load_data"
  /\ offset' = U32(offset + Skipped(samples[Current], Sample.flags))
  /\ samples' = [samples EXCEPT ![Current].index = mod.samples_data_length]
  /\ mod' = [mod EXCEPT !.samples_data_length = U32(@ + samples[Current].length)]
  /\ pc' = IF IsLast THEN "load_instruments" ELSE pc
  /\ j' = IF IsLast THEN 0 ELSE j + 1
  /\ i' = IF IsLast THEN i + 1 ELSE i
  /\ UNCHANGED <<file, bytes, out, header, patterns, sample_of_notes, history>>

Finish ==
  /\ pc = "load_instruments" /\ i = mod.num_instruments
  /\ pc' = "loaded"
  /\ UNCHANGED <<file, i, j, offset, bytes, out, loaded, history>>

(* The next header is not where the first walk found it.                    *)
Strays ==
  \/ pc = "load_patterns" /\ i < mod.num_patterns /\ offset # patternAt[i].offset
  \/ pc = "load_instruments" /\ i < mod.num_instruments /\ offset # instrumentAt[i].offset
  \/ pc = "load_samples" /\ offset # sampleAt[i][j].offset
Lose ==
  /\ Strays /\ pc' = "lost"
  /\ UNCHANGED <<file, i, j, offset, bytes, out, loaded, history>>

Prescan ==
  \/ PrescanHeader \/ PrescanPattern \/ PrescanOrders
  \/ PrescanInstrument \/ PrescanSample \/ PrescanData
Load ==
  \/ CreateContext \/ LoadHeader \/ LoadPattern \/ LoadOrders
  \/ LoadEmptyInstrument \/ LoadInstrument \/ FailInstrument
  \/ LoadSampleHeader \/ LoadSampleData
  \/ Finish \/ Lose
Next == Prescan \/ Load
Spec == Init /\ [][Next]_vars

-----------------------------------------------------------------------------
(* What a file has to keep to: what trackers write.                         *)

(* The pattern order table is not cut short by the end of the file.         *)
HasWholeTable(f) == f.table_bytes = PATTERN_ORDER_TABLE_LENGTH

(* An instrument header is long enough for its number of samples, which is  *)
(* less than 256.                                                           *)
HasWholeHeaders(f) ==
  \A n \in Instruments(f) : HeaderSamples(f.instruments[n]) = f.instruments[n].num_samples

(* 16-bit samples have an even number of bytes.                             *)
HasWholeFrames(f) ==
  \A n \in Instruments(f) : \A k \in SamplesOf(f.instruments[n]) :
    LET s == f.instruments[n].samples[k] IN "16B" \in s.flags => s.length % 2 = 0

(* No loop goes past the end of a 32-bit sample.                            *)
HasNarrowLoops(f) ==
  \A n \in Instruments(f) : \A k \in SamplesOf(f.instruments[n]) :
    LET s == f.instruments[n].samples[k] IN s.loop_start + s.loop_length < Words

(* A pattern without data does not ask for too many rows.                   *)
HasShortBlanks(f) ==
  \A p \in Patterns(f) :
    f.patterns[p].packed_size = 0 => f.patterns[p].num_rows <= MAX_ROWS_PER_PATTERN

(* An autovibrato has one of the waveforms of FT2, or is past the end of a  *)
(* short header.                                                            *)
HasWaveforms(f) ==
  \A n \in Instruments(f) : VibratoType(f.instruments[n]) < Waveforms

-----------------------------------------------------------------------------
Pcs == {"prescan", "prescan_patterns", "prescan_instruments", "prescan_samples",
        "refused", "load", "load_patterns", "load_instruments", "load_samples",
        "load_data", "loaded", "lost", "failed"}

(* What both walks count is the same, as the assertions at the end of       *)
(* xm_create_context() have it, unless the file cuts its own tables short   *)
(* or its loops wrap.                                                       *)
WalksAgree ==
  pc = "loaded" /\ HasWholeTable(file) /\ HasWholeHeaders(file) /\ HasNarrowLoops(file) =>
    mod = out

(* The second walk reads every header, and the data of every sample, where  *)
(* the first one found them.                                                *)
HeadersAreFound ==
  HasWholeHeaders(file) /\ HasWholeFrames(file) =>
    /\ ~Strays
    /\ pc = "load_data" =>
         offset = U32(sampleAt[i][Instrument.num_samples].offset + sampleAt[i][j].bytes)

(* The assertions on the way hold: a pattern has no more rows than it may,  *)
(* its first row and the blank pattern have numbers that fit their fields,  *)
(* and the waveform of an autovibrato is known.  The first fails for files  *)
(* without HasShortBlanks, the last for those without HasWaveforms.         *)
AssertionsHold ==
  /\ HasShortBlanks(file) /\ pc = "load_patterns" =>
       IF i < mod.num_patterns
       THEN file.patterns[i].num_rows <= MAX_ROWS_PER_PATTERN /\ mod.num_rows \in Short
       ELSE (\E e \in 0 .. mod.length - 1 : IsInvalid(header.pattern_table[e])) =>
              mod.num_patterns \in Byte /\ mod.num_rows < Shorts - 1
  /\ HasWaveforms(file) => pc # "failed"

(* What is loaded is a song to the sequencer: patterns share the rows       *)
(* without a gap, and every entry of the order table names one of them.     *)
SongIsWhole ==
  pc = "loaded" =>
    /\ \A p \in 0 .. mod.num_patterns - 1 :
         /\ patterns[p].num_rows <= MAX_ROWS_PER_PATTERN
         /\ patterns[p].rows_index + patterns[p].num_rows =
              IF p + 1 = mod.num_patterns THEN mod.num_rows ELSE patterns[p + 1].rows_index
    /\ \A e \in 0 .. mod.length - 1 : header.pattern_table[e] < mod.num_patterns
    /\ mod.length > 0 => header.restart_position < mod.length

(* Samples share the frames without a gap, a loop is inside of its sample,  *)
(* and a note plays the sample its instrument names for it, or none; after  *)
(* a short header, which hides samples from the second walk, the notes of   *)
(* later instruments are those of earlier ones.                             *)
SamplesAreWhole ==
  pc = "loaded" /\ HasNarrowLoops(file) =>
    /\ \A k \in 0 .. mod.num_samples - 1 :
         /\ samples[k].loop_length <= samples[k].length
         /\ samples[k].length <=
              IF samples[k].ping_pong THEN MAX_SAMPLE_LENGTH \div 2 ELSE MAX_SAMPLE_LENGTH
         /\ samples[k].index + samples[k].length =
              IF k + 1 = mod.num_samples THEN mod.samples_data_length ELSE samples[k + 1].index
    /\ HasWholeHeaders(file) =>
         \A n \in Instruments(file), x \in Note :
           LET instrument == file.instruments[n]
           IN  IF HeaderNote(instrument, x) >= HeaderSamples(instrument)
               THEN sample_of_notes[n][x] = NoSample
               ELSE /\ sample_of_notes[n][x] # NoSample
                    /\ sample_of_notes[n][x] \in
                         instrumentAt[n].num_samples .. instrumentAt[n + 1].num_samples - 1
=============================================================================
