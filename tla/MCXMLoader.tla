------------------------------ MODULE MCXMLoader ------------------------------
(***************************************************************************)
(* Small files for the runs of XMLoader: a byte has four values, and a     *)
(* pattern of up to four rows is blank with two.                           *)
(***************************************************************************)
EXTENDS XMLoader, SequencesExt

FromZero(seq) == [n \in 0 .. Len(seq) - 1 |-> seq[n + 1]]

Pattern(num_rows, packed_size) ==
  [header_size |-> 9, num_rows |-> num_rows, packed_size |-> packed_size]
FileSample(length, loop_start, loop_length, flags) ==
  [length |-> length, loop_start |-> loop_start, loop_length |-> loop_length, flags |-> flags]
FileInstrument(header_size, notes, all) ==
  [header_size |-> header_size, num_samples |-> Len(all),
   sample_of_notes |-> FromZero(notes), vibrato_type |-> 0, samples |-> FromZero(all)]

File(length, restart, table, table_bytes, some, instruments) ==
  [header_size |-> 20, length |-> length, restart_position |-> restart,
   num_channels |-> 2, num_patterns |-> Len(some), num_instruments |-> Len(instruments),
   tempo |-> restart, bpm |-> length, table_bytes |-> table_bytes,
   pattern_table |-> FromZero(table), patterns |-> FromZero(some),
   instruments |-> FromZero(instruments)]

Plain == FileSample(3, 0, 0, {})
Lead == FileInstrument(35, <<0, 0>>, <<Plain>>)

(* Patterns with and without data, of no, some and too many rows, under     *)
(* every table, and one that is cut short.                                  *)
MCPatterns == {Pattern(n, z) : n \in {0, 1, 4, 5}, z \in {0, 3}}
MCTables == {<<a, b, 0>> : a, b \in {0, 1, 3}}
MCPatternFiles ==
  {File(length, restart, table, table_bytes, some, <<Lead>>) :
     length \in {0, 2, 5}, restart \in {0, 2, 4}, table \in MCTables, table_bytes \in {1, 3},
     some \in SeqOf(MCPatterns, 2)}
    \union {File(2, 0, table, 3, <<a, a, b>>, <<Lead>>) :
              table \in MCTables, a, b \in {Pattern(4, 3), Pattern(4, 0)}}

(* Samples of every length and loop, and two of them to an instrument.      *)
MCSamples ==
  {FileSample(length, start, end, flags) :
     length \in {0, 3, 4, 9}, start \in {0, 2, 5}, end \in {0, 2, 7, Words - 1},
     flags \in {{}, {"FORWARD"}, {"PING_PONG"}, {"16B"}, {"FORWARD", "16B"},
                {"PING_PONG", "16B"}}}
MCFewSamples ==
  {Plain, FileSample(4, 1, 2, {"FORWARD", "16B"}), FileSample(4, 0, 3, {"PING_PONG"})}
MCInstruments ==
  {FileInstrument(size, notes, all) :
     size \in {20, 34, 35}, notes \in {<<0, 1>>, <<2, 3>>}, all \in SeqOf(MCFewSamples, 2)}
MCSampleFiles ==
  {File(2, 0, <<0, 0, 0>>, 3, <<Pattern(1, 3)>>, <<FileInstrument(35, <<0, 0>>, <<s>>), Lead>>) :
     s \in MCSamples}
    \union {File(1, 0, <<0, 0, 0>>, 3, <<Pattern(1, 3)>>, <<x, y>>) : x, y \in MCInstruments}

(* More samples than a byte or a 16-bit number counts, as many as the       *)
(* latter counts, and too many channels.                                    *)
MCMany(n) == FileInstrument(35, <<0, 0>>, [k \in 1 .. n |-> Plain])
MCLargeFiles ==
  {File(1, 0, <<0, 0, 0>>, 3, <<>>, <<MCMany(a), MCMany(b)>>) : a, b \in {1, 3, 4, 7, 8}}
    \union {[File(1, 0, <<0, 0, 0>>, 3, <<>>, <<Lead>>) EXCEPT !.num_channels = 4]}

(* Waveforms of an autovibrato, known or not, in the header and past it.    *)
MCVibratoFiles ==
  {File(1, 0, <<0, 0, 0>>, 3, <<Pattern(1, 3)>>,
        <<Lead, [FileInstrument(size, <<0, 1>>, all) EXCEPT !.vibrato_type = type], Lead>>) :
     size \in {VibratoTypeAt, VibratoTypeAt + 1}, type \in Byte, all \in SeqOf({Plain}, 2)}

MCFiles == MCPatternFiles \union MCSampleFiles \union MCLargeFiles \union MCVibratoFiles
=============================================================================
