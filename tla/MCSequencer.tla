----------------------------- MODULE MCSequencer -----------------------------
(***************************************************************************)
(* Small songs for the runs of Sequencer.                                  *)
(***************************************************************************)
EXTENDS SequencerHistory, Sequences

Fx(t, x) == [type |-> t, param |-> x]
Blank == Fx("NONE", 0)

(* A song of patterns 1..n, each of `rows` rows, whose slots are given row  *)
(* by row, and channel by channel inside a row.                             *)
Song(table, rows, slots, restart, tempo) ==
  LET n == Len(rows)
  IN  [length |-> Len(table), restart_position |-> restart, default_tempo |-> tempo,
       total_rows |-> Len(slots),
       pattern_table |-> [i \in 0 .. Len(table) - 1 |-> table[i + 1]],
       num_rows |-> rows,
       rows_index |-> [p \in 1 .. n |-> SumFunctionOnSet(rows, 1 .. p - 1)],
       slots |-> [r \in 0 .. Len(slots) - 1 |-> slots[r + 1]]]

-----------------------------------------------------------------------------
(* The second channel is silent: every effect in every row of two patterns.  *)
JumpEffects == {Blank, Fx("JUMP_TO_ORDER", 0), Fx("JUMP_TO_ORDER", 1),
                Fx("PATTERN_BREAK", 1), Fx("PATTERN_LOOP", 0),
                Fx("PATTERN_LOOP", 1), Fx("ROW_LOOP", 1), Fx("SET_TEMPO", 2)}
JumpSongs ==
  {Song(<<1, 2>>, <<2, 2>>,
        <<<<a, Blank>>, <<b, Blank>>, <<c, Blank>>, <<d, Blank>>>>, 1, 1) :
     a, b, c, d \in JumpEffects}

(* Two channels in the rows of a pattern, then a blank pattern: what one    *)
(* channel asks for meets what the other asked for.                         *)
RowEffects == {Blank, Fx("JUMP_TO_ORDER", 1), Fx("PATTERN_BREAK", 1),
               Fx("PATTERN_LOOP", 0), Fx("PATTERN_LOOP", 1),
               Fx("ROW_LOOP", 2), Fx("DELAY_PATTERN", 2), Fx("SET_TEMPO", 2)}
RowSong(a, b, c, d, tempo) ==
  Song(<<1, 2>>, <<2, 2>>,
       <<<<a, b>>, <<c, d>>, <<Blank, Blank>>, <<Blank, Blank>>>>, 0, tempo)
RowSongs ==
  {RowSong(a, b, c, d, 1) : a, b, c, d \in RowEffects}
    \union {RowSong(a, b, c, Blank, 0) : a, b, c \in RowEffects}

(* A pattern with as many rows as a byte has values: the row after its last  *)
(* one is 0, and what is pending there meets the wrap.                       *)
LongSongs ==
  {Song(<<2, 1>>, <<2, 4>>,
        <<<<Blank, Blank>>, <<Blank, Blank>>, <<a, Blank>>, <<b, Blank>>,
          <<Blank, Blank>>, <<c, d>>>>, restart, 1) :
     a, b \in {Blank, Fx("PATTERN_LOOP", 0)},
     c \in {Blank, Fx("JUMP_TO_ORDER", 0), Fx("PATTERN_LOOP", 2),
            Fx("ROW_LOOP", 1), Fx("DELAY_PATTERN", 2)},
     d \in {Blank, Fx("PATTERN_BREAK", 1)}, restart \in {0, 1}}

(* A pattern followed by a shorter one, where E60, Dxx and the loops of the  *)
(* first lead past the end of the second, into the rows stored after it.     *)
ShortSongs ==
  {Song(<<2, 1>>, <<1, 3>>,
        <<<<e, f>>, <<a, Blank>>, <<b, Blank>>, <<c, Blank>>>>, 0, 1) :
     e \in {Blank, Fx("PATTERN_LOOP", 1), Fx("ROW_LOOP", 1), Fx("SET_TEMPO", 2)},
     f \in {Blank, Fx("PATTERN_LOOP", 1)},
     a \in {Blank, Fx("PATTERN_LOOP", 1), Fx("JUMP_TO_ORDER", 1), Fx("DELAY_PATTERN", 1)},
     b \in {Fx("PATTERN_LOOP", 0), Fx("PATTERN_BREAK", 2), Fx("ROW_LOOP", 1)},
     c \in {Blank, Fx("PATTERN_LOOP", 0), Fx("PATTERN_LOOP", 1), Fx("PATTERN_BREAK", 1)}}

MCSongs == JumpSongs \union RowSongs \union LongSongs \union ShortSongs

-----------------------------------------------------------------------------
(* Songs whose only jumps are E6y loops, one loop to a pattern: three rows  *)
(* of two channels, and a second pattern with a loop in its other channel.  *)
(* A loop has its start marked by an E60 above it, or not at all, and no    *)
(* other channel marks a loop start in the row a loop ends at.              *)
LoopEffects == {Blank, Fx("PATTERN_LOOP", 0), Fx("PATTERN_LOOP", 1), Fx("PATTERN_LOOP", 2)}
LoopStart == Fx("PATTERN_LOOP", 0)
IsLoopEnd(e) == e.type = "PATTERN_LOOP" /\ e.param > 0
LoopRows == {<<a, b>> \in LoopEffects \X LoopEffects : IsLoopEnd(a) => b = Blank}
LoopPatterns ==
  {f \in [1 .. 3 -> LoopRows] :
     /\ Cardinality({x \in (1 .. 3) \X (1 .. 2) : IsLoopEnd(f[x[1]][x[2]])}) <= 1
     /\ \A r \in 1 .. 3, c \in 1 .. 2 :
          IsLoopEnd(f[r][c]) =>
            \/ \E q \in 1 .. r - 1 : f[q][c] = LoopStart
            \/ \A q \in 1 .. 3 : f[q][c] # LoopStart}
MCLoopSongs ==
  {Song(<<1, 2>>, <<3, 3>>,
        <<f[1], f[2], f[3], <<Blank, g[1]>>, <<Fx("DELAY_PATTERN", 1), g[2]>>, <<Blank, Blank>>>>,
        restart, 1) :
     f \in LoopPatterns, restart \in {0, 1},
     g \in {<<Blank, Blank>>, <<LoopStart, Fx("PATTERN_LOOP", 1)>>}}

-----------------------------------------------------------------------------
(* A few songs with every kind of pending state, for the calls that         *)
(* interrupt them.                                                          *)
Pick(a, b, c) ==
  Song(<<2, 1>>, <<1, 2>>, <<<<c>>, <<a>>, <<b>>>>, 0, 2)
MCCallSongs ==
  {Pick(Fx("PATTERN_LOOP", 0), Fx("PATTERN_LOOP", 1), Fx("DELAY_PATTERN", 1)),
   Pick(Fx("DELAY_PATTERN", 2), Fx("JUMP_TO_ORDER", 1), Blank),
   Pick(Fx("PATTERN_BREAK", 0), Fx("SET_TEMPO", 1), Fx("ROW_LOOP", 1)),
   Pick(Blank, Fx("PATTERN_LOOP", 0), Fx("DELAY_PATTERN", 1))}
=============================================================================
