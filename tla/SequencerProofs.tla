---------------------------- MODULE SequencerProofs ----------------------------
(***************************************************************************)
(* For every module, number of channels and width of a byte: the sequencer *)
(* keeps its types, so that the order table, the counters of the rows and  *)
(* the slot array are only read inside their bounds, the latter if jumps   *)
(* lead into it; and it never runs on past the end of a pattern: only a    *)
(* jump leads there.  Calls of the program between ticks are included.     *)
(*                                                                         *)
(* A program may seek, reset and dump a context between any two ticks, as  *)
(* long as it does not dump it while EEy repeats a row, nor seek into the  *)
(* middle of a row before one was played: tick effects then never follow a *)
(* null ch->current, and seeks land.  A program that only plays hears the  *)
(* rows in the order RowOrder gives, each for as long as the song asks for.*)
(* If the song is made of loops that do not meet, each of them is played   *)
(* as often as it asks for, and the passes through the song are counted.   *)
(***************************************************************************)
EXTENDS SequencerHistory, TLAPS

(* Which row is read is not inductive: xm_row() trusts the row it is sent   *)
(* to.  So the rows the sequencer remembers, in jump_row and in the loop    *)
(* origins, must be targets of jumps.  current_row is one, or a row of its  *)
(* pattern; it need not be while a jump is pending, for then it is not used. *)
PatternRows(i) == 0 .. song.num_rows[PatternAt(i)] - 1

RowsInv ==
  /\ jump_row \in JumpTargets(song)
  /\ \A c \in Channel : pattern_loop_origin[c] \in JumpTargets(song)
  /\ pc = "row" \/ ~Pending =>
       current_row \in JumpTargets(song) \union PatternRows(current_table_index)

IInv == song \in Songs /\ TypeOK /\ RowsInv

-----------------------------------------------------------------------------
(* What the assumptions on a song give, in the form the steps need it. *)

LEMMA SongFacts ==
  ASSUME NEW s \in Songs
  PROVE  /\ s.length \in 1 .. Bytes
         /\ s.restart_position \in 0 .. s.length - 1
         /\ s.default_tempo \in Byte
         /\ \A i \in 0 .. s.length - 1 : s.pattern_table[i] \in Patterns(s)
         /\ \A p \in Patterns(s) : s.num_rows[p] \in 0 .. Bytes
         /\ \A p \in Patterns(s) : 0 .. s.num_rows[p] - 1 \subseteq Byte
         /\ JumpTargets(s) \subseteq Byte
         /\ 0 \in JumpTargets(s)
<1>1. IsSong(s)
  BY SongsAssumption
<1>2. /\ s.length \in 1 .. Bytes
      /\ s.restart_position \in 0 .. s.length - 1
      /\ s.default_tempo \in Byte
      /\ \A i \in 0 .. s.length - 1 : s.pattern_table[i] \in Patterns(s)
      /\ \A p \in Patterns(s) : s.num_rows[p] \in 0 .. Bytes
  BY <1>1 DEF IsSong
<1>3. \A p \in Patterns(s) : 0 .. s.num_rows[p] - 1 \subseteq Byte
  BY <1>2, BytesAssumption DEF Byte
<1>4. ParamsOf(s, "PATTERN_BREAK") \subseteq Byte /\ LoopMarks(s) \subseteq Byte
  BY DEF ParamsOf, LoopMarks
<1>5. 0 \in JumpTargets(s) /\ JumpTargets(s) \subseteq Byte
  BY <1>4, BytesAssumption DEF JumpTargets, Byte
<1>6. QED
  BY <1>2, <1>3, <1>5

(* The rows of a pattern are stored. *)
LEMMA PatternsAreStored ==
  ASSUME NEW s \in Songs, NEW p \in Patterns(s), NEW r \in 0 .. s.num_rows[p] - 1
  PROVE  s.rows_index[p] + r \in SlotRow(s)
<1>1. /\ s.rows_index[p] \in Nat /\ s.total_rows \in Nat /\ s.num_rows[p] \in 0 .. Bytes
      /\ s.rows_index[p] + s.num_rows[p] <= s.total_rows
  BY SongsAssumption DEF IsSong
<1>2. QED
  BY <1>1, BytesAssumption DEF SlotRow

(* The slot of a row that is stored is one of the song's, so its parameter *)
(* is a byte, a Bxx stays inside the order table and a Dxx is the target   *)
(* of a jump.                                                              *)
LEMMA SlotFacts ==
  ASSUME song \in Songs, NEW i \in TableIndex, NEW r \in Byte, NEW c \in Channel,
         song.rows_index[PatternAt(i)] + r \in SlotRow(song)
  PROVE  /\ Slot(i, r, c).param \in Byte
         /\ Slot(i, r, c).type \in EffectType
         /\ Slot(i, r, c).type = "JUMP_TO_ORDER" => Slot(i, r, c).param \in TableIndex
         /\ Slot(i, r, c).type = "PATTERN_BREAK" =>
              Slot(i, r, c).param \in JumpTargets(song)
<1> DEFINE k == song.rows_index[PatternAt(i)] + r
<1>1. IsSong(song) /\ IsFixedUp(song)
  BY SongsAssumption
<1>2. Slot(i, r, c) = song.slots[k][c] /\ song.slots[k][c] \in Effect
  BY <1>1 DEF IsSong, Slot
<1>3. \A t : song.slots[k][c].type = t => song.slots[k][c].param \in ParamsOf(song, t)
  <2>1. \A t, x : song.slots[k][c].type = t /\ song.slots[k][c].param = x
                 => song.slots[k][c] = [type |-> t, param |-> x]
    BY <1>2 DEF Effect
  <2>2. QED
    BY <1>2, <2>1 DEF ParamsOf, Effect
<1>4. \A d \in ParamsOf(song, "JUMP_TO_ORDER") : d < song.length
  BY <1>1 DEF IsFixedUp
<1>5. Slot(i, r, c).type = "JUMP_TO_ORDER" => Slot(i, r, c).param \in TableIndex
  BY <1>2, <1>3, <1>4, SongFacts DEF Effect, TableIndex, Byte
<1>6. Slot(i, r, c).type = "PATTERN_BREAK" => Slot(i, r, c).param \in JumpTargets(song)
  BY <1>2, <1>3 DEF JumpTargets
<1>7. QED
  BY <1>2, <1>5, <1>6 DEF Effect

(* The slot being handled. *)
LEMMA HandleFacts ==
  ASSUME IInv, NEW type, Handle(type)
  PROVE  /\ Param \in Byte
         /\ type = "JUMP_TO_ORDER" => Param \in TableIndex
         /\ type = "PATTERN_BREAK" => Param \in JumpTargets(song)
         /\ type = "ROW_LOOP" => current_row \in JumpTargets(song)
         /\ type = "PATTERN_LOOP" /\ Param = 0 => current_row \in JumpTargets(song)
<1> DEFINE slot == Slot(current_table_index, current_row, chan)
           p == PatternAt(current_table_index)
<1>1. /\ current_table_index \in TableIndex /\ current_row \in Byte
      /\ current_row \in JumpTargets(song) \/ current_row \in 0 .. song.num_rows[p] - 1
      /\ chan \in Channel /\ song \in Songs
  BY DEF IInv, RowsInv, TypeOK, Handle, PatternRows
<1>2. RowAddress \in SlotRow(song) /\ slot.type = type /\ slot.param = Param
  BY DEF Handle, Param
<1>3. /\ Param \in Byte
      /\ type = "JUMP_TO_ORDER" => Param \in TableIndex
      /\ type = "PATTERN_BREAK" => Param \in JumpTargets(song)
  BY <1>1, <1>2, SlotFacts DEF RowAddress
<1>4. slot = song.slots[song.rows_index[p] + current_row][chan] /\ slot \in Effect
  BY <1>1, <1>2, SongsAssumption DEF IsSong, Slot, RowAddress
<1>5. ASSUME type = "ROW_LOOP" \/ (type = "PATTERN_LOOP" /\ Param = 0),
             current_row \in 0 .. song.num_rows[p] - 1
      PROVE  current_row \in LoopMarks(song)
  <2>1. slot.type = "ROW_LOOP" \/ slot = [type |-> "PATTERN_LOOP", param |-> 0]
    BY <1>2, <1>4, <1>5 DEF Effect
  <2>2. p \in Patterns(song) /\ song.num_rows[p] \in 0 .. Bytes
    BY <1>1, SongFacts DEF TableIndex, PatternAt
  <2>3. current_row < song.num_rows[p]
    BY <1>5, <2>2, BytesAssumption
  <2>4. QED
    BY <1>1, <1>4, <2>1, <2>2, <2>3 DEF LoopMarks
<1>6. type = "ROW_LOOP" \/ (type = "PATTERN_LOOP" /\ Param = 0) =>
        current_row \in JumpTargets(song)
  BY <1>1, <1>5 DEF JumpTargets
<1>7. QED
  BY <1>3, <1>6

LEMMA NextEntryFacts ==
  ASSUME song \in Songs, NEW i \in TableIndex
  PROVE  NextEntry(i) \in TableIndex
BY SongFacts, BytesAssumption DEF NextEntry, TableIndex

LEMMA WrapFacts ==
  ASSUME NEW n \in Nat
  PROVE  Wrap(n) \in Byte
BY BytesAssumption DEF Wrap, Byte

-----------------------------------------------------------------------------
(* Every step keeps IInv. *)

LEMMA InitIInv == Init => IInv
<1> SUFFICES ASSUME Init PROVE IInv
  OBVIOUS
<1> USE DEF Init
<1>1. song \in Songs /\ 0 \in TableIndex /\ 0 \in Byte /\ 0 \in JumpTargets(song)
  BY SongFacts, BytesAssumption DEF TableIndex, Byte
<1>2. TypeOK
  <2>1. current_tempo \in Byte
    BY <1>1, SongFacts
  <2>2. chan \in 1 .. NumChannels + 1
    BY NumChannelsAssumption
  <2>3. row_loop_count \in [Position -> Byte]
    BY <1>1
  <2>4. /\ pattern_loop_origin \in [Channel -> Byte]
        /\ pattern_loop_count \in [Channel -> Byte]
        /\ current \in [Channel -> Position \union {NULL}]
    BY <1>1
  <2>5. QED
    BY <1>1, <2>1, <2>2, <2>3, <2>4 DEF TypeOK
<1>3. RowsInv
  BY <1>1 DEF RowsInv
<1>4. QED
  BY <1>1, <1>2, <1>3 DEF IInv

LEMMA StartRowIInv == IInv /\ StartRow => IInv'
<1> SUFFICES ASSUME IInv, StartRow PROVE IInv'
  OBVIOUS
<1> USE DEF StartRow
<1>1. song' = song /\ TableIndex' = TableIndex /\ Position' = Position
  BY DEF TableIndex, Position
<1>2. 0 \in Byte /\ 0 \in JumpTargets(song) /\ JumpTargets(song) \subseteq Byte
  BY SongFacts, BytesAssumption DEF IInv, Byte
<1>3. NextEntry(current_table_index) \in TableIndex
  BY NextEntryFacts DEF IInv, TypeOK
<1>4. /\ jump_row' \in JumpTargets(song)
      /\ \/ current_row' \in JumpTargets(song)
         \/ /\ current_row' = current_row /\ current_table_index' = current_table_index
            /\ current_row \in PatternRows(current_table_index)
  BY <1>2 DEF IInv, RowsInv, Pending
<1>5. TypeOK'
  <2>1. current_table_index' \in TableIndex
    BY <1>3 DEF IInv, TypeOK
  <2>2. current_row' \in Byte /\ jump_row' \in Byte
    BY <1>2, <1>4 DEF IInv, TypeOK
  <2>3. chan' \in 1 .. NumChannels + 1
    BY NumChannelsAssumption
  <2>4. QED
    BY <1>1, <1>2, <2>1, <2>2, <2>3
    DEF IInv, TypeOK, countVars, loopVars
<1>6. RowsInv'
  BY <1>1, <1>4 DEF IInv, RowsInv, loopVars, PatternRows, PatternAt
<1>7. QED
  BY <1>1, <1>5, <1>6 DEF IInv

LEMMA ContinueRowIInv == IInv /\ ContinueRow => IInv'
<1> SUFFICES ASSUME IInv, ContinueRow PROVE IInv'
  OBVIOUS
<1> USE DEF ContinueRow, position, jumpVars, countVars, loopVars, rowVars
<1>1. song' = song /\ TableIndex' = TableIndex /\ Position' = Position
  BY DEF TableIndex, Position
<1>2. current_tick' \in Byte
  BY BytesAssumption DEF IInv, TypeOK, TickNow, Byte
<1>3. extra_rows_done' \in Byte
  <2>1. extra_rows_done \in Byte /\ extra_rows_done + 1 \in Nat
    BY DEF IInv, TypeOK, Byte
  <2>2. QED
    BY <2>1, WrapFacts DEF RepeatsNow
<1>4. TypeOK'
  BY <1>1, <1>2, <1>3 DEF IInv, TypeOK
<1>5. RowsInv'
  BY <1>1 DEF IInv, RowsInv, Pending, PatternRows, PatternAt
<1>6. QED
  BY <1>1, <1>4, <1>5 DEF IInv

(* What is common to the effects: SlotDone, with the two loop variables it  *)
(* does not decide.                                                         *)
LEMMA SlotDoneIInv ==
  ASSUME IInv, SlotDone, pc = "row", chan \in Channel,
         current_tempo' \in Byte, extra_rows' \in Byte,
         position_jump' \in BOOLEAN, pattern_break' \in BOOLEAN,
         jump_dest' \in TableIndex, jump_row' \in JumpTargets(song),
         pattern_loop_origin' \in [Channel -> JumpTargets(song)],
         pattern_loop_count' \in [Channel -> Byte]
  PROVE  IInv'
<1> USE DEF SlotDone, position, countVars
<1>1. song' = song /\ TableIndex' = TableIndex /\ Position' = Position
  BY DEF TableIndex, Position
<1>2. JumpTargets(song) \subseteq Byte
  BY SongFacts DEF IInv
<1>3. current' \in [Channel -> Position \union {NULL}]
  BY DEF IInv, TypeOK, Position
<1>4. chan' \in 1 .. NumChannels + 1
  BY NumChannelsAssumption DEF Channel
<1>5. in_a_loop' \in BOOLEAN
  BY DEF IInv, TypeOK
<1>6. pattern_loop_origin' \in [Channel -> Byte] /\ jump_row' \in Byte
  BY <1>2
<1>7. TypeOK'
  BY <1>1, <1>3, <1>4, <1>5, <1>6 DEF IInv, TypeOK
<1>8. RowsInv'
  BY <1>1 DEF IInv, RowsInv, PatternRows, PatternAt
<1>9. QED
  BY <1>1, <1>7, <1>8 DEF IInv

(* A loop goes back inside the entry, or is over. *)
LEMMA LoopBackFacts ==
  ASSUME IInv, chan \in Channel, NEW origin \in JumpTargets(song), LoopBack(origin)
  PROVE  /\ position_jump' \in BOOLEAN
         /\ jump_dest' \in TableIndex
         /\ jump_row' \in JumpTargets(song)
         /\ pattern_loop_count' \in [Channel -> Byte]
<1> USE DEF LoopBack, ArmLoop
<1>1. pattern_loop_count[chan] \in Byte
  BY DEF IInv, TypeOK
<1>2. Wrap(pattern_loop_count[chan] + 1) \in Byte /\ 0 \in Byte
  BY <1>1, WrapFacts, BytesAssumption DEF Byte
<1>3. pattern_loop_count' \in [Channel -> Byte]
  BY <1>2 DEF IInv, TypeOK
<1>4. QED
  BY <1>3 DEF IInv, TypeOK, RowsInv

LEMMA HandleSlotIInv == IInv /\ HandleSlot => IInv'
<1> SUFFICES ASSUME IInv, HandleSlot PROVE IInv'
  OBVIOUS
<1> USE DEF jumpVars, loopVars
<1>1. pc = "row" /\ chan \in Channel /\ SlotDone
  BY DEF HandleSlot, NoEffect, JumpToOrder, PatternBreak, SetTempo, RowLoop,
         PatternLoopEnd, PatternLoopStart, DelayPattern, Handle
<1>2. /\ current_tempo \in Byte /\ extra_rows \in Byte
      /\ position_jump \in BOOLEAN /\ pattern_break \in BOOLEAN
      /\ jump_dest \in TableIndex /\ jump_row \in JumpTargets(song)
      /\ pattern_loop_origin \in [Channel -> JumpTargets(song)]
      /\ pattern_loop_count \in [Channel -> Byte]
      /\ current_table_index \in TableIndex
  BY <1>1 DEF IInv, TypeOK, RowsInv
<1>3. 0 \in JumpTargets(song)
  BY SongFacts DEF IInv
<1>4. CASE NoEffect
  BY <1>1, <1>2, <1>4, SlotDoneIInv DEF NoEffect
<1>5. CASE JumpToOrder
  <2>1. Param \in TableIndex
    BY <1>5, HandleFacts DEF JumpToOrder
  <2>2. QED
    BY <1>1, <1>2, <1>3, <1>5, <2>1, SlotDoneIInv DEF JumpToOrder
<1>6. CASE PatternBreak
  <2>1. Param \in JumpTargets(song)
    BY <1>6, HandleFacts DEF PatternBreak
  <2>2. QED
    BY <1>1, <1>2, <1>6, <2>1, SlotDoneIInv DEF PatternBreak
<1>7. CASE SetTempo
  <2>1. Param \in Byte
    BY <1>7, HandleFacts DEF SetTempo
  <2>2. QED
    BY <1>1, <1>2, <1>7, <2>1, SlotDoneIInv DEF SetTempo
<1>8. CASE RowLoop
  <2>1. current_row \in JumpTargets(song)
    BY <1>8, HandleFacts DEF RowLoop
  <2>2. pattern_loop_origin' \in [Channel -> JumpTargets(song)]
    BY <1>2, <1>8, <2>1 DEF RowLoop
  <2>3. QED
    BY <1>1, <1>2, <1>8, <2>1, <2>2, LoopBackFacts, SlotDoneIInv DEF RowLoop
<1>9. CASE PatternLoopEnd
  <2>1. pattern_loop_origin[chan] \in JumpTargets(song)
    BY <1>1, <1>2
  <2>2. QED
    BY <1>1, <1>2, <1>9, <2>1, LoopBackFacts, SlotDoneIInv DEF PatternLoopEnd
<1>10. CASE PatternLoopStart
  <2>1. current_row \in JumpTargets(song)
    BY <1>10, HandleFacts DEF PatternLoopStart
  <2>2. pattern_loop_origin' \in [Channel -> JumpTargets(song)]
    BY <1>2, <1>10, <2>1 DEF PatternLoopStart
  <2>3. QED
    BY <1>1, <1>2, <1>10, <2>1, <2>2, SlotDoneIInv DEF PatternLoopStart
<1>11. CASE DelayPattern
  <2>1. Param \in Byte
    BY <1>11, HandleFacts DEF DelayPattern
  <2>2. QED
    BY <1>1, <1>2, <1>11, <2>1, SlotDoneIInv DEF DelayPattern
<1>12. QED
  BY <1>4, <1>5, <1>6, <1>7, <1>8, <1>9, <1>10, <1>11 DEF HandleSlot

LEMMA EndRowIInv == IInv /\ EndRow => IInv'
<1> SUFFICES ASSUME IInv, EndRow PROVE IInv'
  OBVIOUS
<1> USE DEF EndRow, repeatVars, loopVars, rowVars, countVars
<1>1. song' = song /\ TableIndex' = TableIndex /\ Position' = Position
  BY DEF TableIndex, Position
<1>2. 0 \in JumpTargets(song) /\ JumpTargets(song) \subseteq Byte
  BY SongFacts DEF IInv
<1>3. current_row \in Nat /\ current_row + 1 \in Nat /\ RowAfter \in Byte
  BY WrapFacts DEF IInv, TypeOK, RowAfter, Byte
<1>4. loop_count' \in Byte /\ row_loop_count' \in [Position -> Byte]
  <2>1. position \in Position /\ row_loop_count[position] \in Byte
    BY DEF IInv, TypeOK, position, Position
  <2>2. Wrap(row_loop_count[position] + 1) \in Byte
    BY <2>1, WrapFacts DEF Byte
  <2>3. QED
    BY <2>1, <2>2 DEF IInv, TypeOK
<1>5. /\ current_table_index' \in TableIndex /\ current_row' \in Byte
      /\ jump_row' \in JumpTargets(song)
  BY <1>2, <1>3, NextEntryFacts DEF IInv, TypeOK, RowsInv
<1>6. ~Pending => \/ current_row' \in JumpTargets(song)
                  \/ /\ current_table_index' = current_table_index
                     /\ current_row' \in PatternRows(current_table_index)
  <2>1. CASE PatternOver
    BY <2>1 DEF IInv, RowsInv
  <2>2. CASE ~PatternOver /\ ~Pending
    <3>1. PatternAt(current_table_index) \in Patterns(song)
      BY SongFacts DEF IInv, TypeOK, TableIndex, PatternAt
    <3>2. RowAfter < song.num_rows[PatternAt(current_table_index)]
      BY <1>3, <2>2, <3>1, SongFacts DEF IInv, PatternOver, Byte
    <3>3. RowAfter \in 0 .. song.num_rows[PatternAt(current_table_index)] - 1
      BY <1>3, <3>1, <3>2, SongFacts DEF IInv, Byte
    <3>4. QED
      BY <2>2, <3>3 DEF PatternRows
  <2>3. QED
    BY <2>1, <2>2
<1>7. TypeOK'
  BY <1>1, <1>2, <1>4, <1>5 DEF IInv, TypeOK
<1>8. RowsInv'
  BY <1>1, <1>5, <1>6 DEF IInv, RowsInv, Pending, PatternRows, PatternAt
<1>9. QED
  BY <1>1, <1>7, <1>8 DEF IInv

LEMMA EndTickIInv == IInv /\ EndTick => IInv'
<1> SUFFICES ASSUME IInv, EndTick PROVE IInv'
  OBVIOUS
<1> USE DEF EndTick, position, repeatVars, jumpVars, countVars, loopVars, rowVars
<1>1. song' = song /\ TableIndex' = TableIndex /\ Position' = Position
  BY DEF TableIndex, Position
<1>2. current_tick' \in Byte
  BY WrapFacts DEF IInv, TypeOK, Byte
<1>3. TypeOK' /\ RowsInv'
  BY <1>1, <1>2 DEF IInv, TypeOK, RowsInv, Pending, PatternRows, PatternAt
<1>4. QED
  BY <1>1, <1>3 DEF IInv

(* A seek inside the song and a dump keep the rows of pending jumps; a      *)
(* reset is a new start.                                                    *)
LEMMA CallerIInv == IInv /\ Caller => IInv'
<1> SUFFICES ASSUME IInv, Caller PROVE IInv'
  OBVIOUS
<1> USE DEF repeatVars, jumpVars, countVars, loopVars, rowVars
<1>1. song' = song /\ TableIndex' = TableIndex /\ Position' = Position
  BY DEF Caller, Seek, Reset, Dump, TableIndex, Position
<1>2. 0 \in JumpTargets(song) /\ 0 \in Byte /\ 0 \in TableIndex
  BY SongFacts, BytesAssumption DEF IInv, Byte, TableIndex
<1>3. ASSUME NEW p \in SongPosition, NEW t \in Byte, Seek(p[1], p[2], t)
      PROVE  IInv'
  <2>1. p[1] \in TableIndex /\ p[2] \in Byte
        /\ p[2] < song.num_rows[PatternAt(p[1])]
    BY DEF SongPosition, Position
  <2>2. PatternAt(p[1]) \in Patterns(song)
    BY <2>1, SongFacts DEF IInv, TableIndex, PatternAt
  <2>3. p[2] \in PatternRows(p[1])
    BY <2>1, <2>2, SongFacts DEF IInv, Byte, PatternRows
  <2>4. TypeOK' /\ RowsInv'
    BY <1>1, <1>3, <2>1, <2>3
    DEF IInv, TypeOK, RowsInv, Seek, Pending, PatternRows, PatternAt
  <2>5. QED
    BY <1>1, <2>4 DEF IInv
<1>4. CASE Reset
  <2>1. /\ row_loop_count' \in [Position -> Byte]
        /\ pattern_loop_origin' \in [Channel -> Byte]
        /\ pattern_loop_count' \in [Channel -> Byte]
        /\ current' \in [Channel -> Position \union {NULL}]
    BY <1>2, <1>4 DEF Reset
  <2>2. TypeOK'
    BY <1>1, <1>2, <1>4, <2>1, SongFacts DEF IInv, TypeOK, Reset
  <2>3. RowsInv'
    BY <1>1, <1>2, <1>4 DEF RowsInv, Reset
  <2>4. QED
    BY <1>1, <2>2, <2>3 DEF IInv
<1>5. CASE Dump
  <2>1. current' \in [Channel -> Position \union {NULL}]
    BY <1>5 DEF Dump
  <2>2. TypeOK' /\ RowsInv'
    BY <1>1, <1>2, <1>5, <2>1
    DEF IInv, TypeOK, RowsInv, Dump, position, Pending, PatternRows, PatternAt
  <2>3. QED
    BY <1>1, <2>2 DEF IInv
<1>6. QED
  BY <1>3, <1>4, <1>5 DEF Caller

LEMMA NextIInv == IInv /\ [Next]_vars => IInv'
<1> SUFFICES ASSUME IInv, [Next]_vars PROVE IInv'
  OBVIOUS
<1>1. CASE Tick
  BY <1>1, StartRowIInv, ContinueRowIInv, HandleSlotIInv, EndRowIInv, EndTickIInv
  DEF Tick
<1>2. CASE Caller
  BY <1>2, CallerIInv
<1>3. CASE UNCHANGED vars
  <2> USE DEF vars, position, repeatVars, jumpVars, countVars, loopVars, rowVars
  <2>1. song' = song /\ TableIndex' = TableIndex /\ Position' = Position
    BY <1>3 DEF TableIndex, Position
  <2>2. TypeOK' /\ RowsInv'
    BY <1>3, <2>1 DEF IInv, TypeOK, RowsInv, Pending, PatternRows, PatternAt
  <2>3. QED
    BY <2>1, <2>2 DEF IInv
<1>4. QED
  BY <1>1, <1>2, <1>3 DEF Next

-----------------------------------------------------------------------------
(* Every variable keeps its type: in particular current_table_index and     *)
(* jump_dest are entries of the pattern order table, and position an index  *)
(* of row_loop_count, whatever the song and the calls.                      *)
THEOREM TypeCorrect == Spec => []TypeOK
<1>1. IInv => TypeOK
  BY DEF IInv
<1>2. QED
  BY InitIInv, NextIInv, <1>1, PTL DEF Spec

(* xm_row() adds current_row to rows_index without a test: in a module in   *)
(* which every jump leads to a row that is stored (IsAddressable), that is  *)
(* always the index of a row of the slots.                                  *)
THEOREM RowsAreStored == Spec => []RowIsStored
<1>1. IInv => RowIsStored
  <2> SUFFICES ASSUME IInv, IsAddressable(song), pc = "row"
               PROVE  RowAddress \in SlotRow(song)
    BY DEF RowIsStored
  <2>1. PatternAt(current_table_index) \in Patterns(song) /\ song \in Songs
    BY SongFacts DEF IInv, TypeOK, PatternAt, TableIndex
  <2>2. CASE current_row \in JumpTargets(song)
    BY <2>1, <2>2 DEF IsAddressable, RowAddress
  <2>3. CASE current_row \in PatternRows(current_table_index)
    BY <2>1, <2>3, PatternsAreStored DEF PatternRows, RowAddress
  <2>4. QED
    BY <2>2, <2>3 DEF IInv, RowsInv
<1>2. QED
  BY InitIInv, NextIInv, <1>1, PTL DEF Spec

(* In every song, and whatever the calls, the row played is one of the      *)
(* pattern the order table names, or has a number that a Dxx names, or that *)
(* an E60 or a row loop marks in its own pattern: the sequencer never runs  *)
(* on past the end of a pattern, and what a loop marks out there is no new  *)
(* target.                                                                  *)
THEOREM RowsAreOfTheirPattern == Spec => []PlaysInsidePattern
<1>1. IInv => PlaysInsidePattern
  <2> SUFFICES ASSUME IInv, pc = "row", current_row \notin JumpTargets(song)
               PROVE  current_row < song.num_rows[PatternAt(current_table_index)]
    BY DEF PlaysInsidePattern
  <2>1. song.num_rows[PatternAt(current_table_index)] \in 0 .. Bytes
    BY SongFacts DEF IInv, TypeOK, PatternAt, TableIndex
  <2>2. current_row \in PatternRows(current_table_index)
    BY DEF IInv, RowsInv
  <2>3. QED
    BY <2>1, <2>2, BytesAssumption DEF PatternRows
<1>2. QED
  BY InitIInv, NextIInv, <1>1, PTL DEF Spec

-----------------------------------------------------------------------------
(* Between two ticks either every channel has its slot, or none has and the *)
(* next tick is one that gives them all one: it is the first of a new row.  *)
SlotsInv ==
  /\ pc = "row" => \A c \in Channel : c < chan => current[c] # NULL
  /\ pc = "effects" => \A c \in Channel : current[c] # NULL
  /\ pc = "idle" => \/ \A c \in Channel : current[c] # NULL
                    \/ /\ \A c \in Channel : current[c] = NULL
                       /\ current_tick = 0 /\ extra_rows = 0

LEMMA CallsAreSteps ==
  ASSUME [CallsNext]_allVars
  PROVE  [Next]_vars
<1>1. CASE CallsNext
  BY <1>1 DEF CallsNext, ObservedTick, CarefulSeek, CarefulDump, Next, Caller
<1>2. CASE UNCHANGED allVars
  BY <1>2 DEF allVars
<1>3. QED
  BY <1>1, <1>2

LEMMA TickSlotsInv == IInv /\ SlotsInv /\ Tick => SlotsInv'
<1> SUFFICES ASSUME IInv, SlotsInv, Tick PROVE SlotsInv'
  OBVIOUS
<1>1. CASE StartRow
  BY <1>1 DEF StartRow, SlotsInv, Channel
<1>2. CASE ContinueRow
  (* Without slots this is the first tick of a row, and not continued. *)
  <2>1. \A c \in Channel : current[c] # NULL
    BY <1>2 DEF ContinueRow, SlotsInv, NewRow, TickNow, RowOver
  <2>2. QED
    BY <1>2, <2>1 DEF ContinueRow, SlotsInv
<1>3. CASE HandleSlot
  <2>1. pc = "row" /\ chan \in Channel /\ SlotDone
    BY <1>3 DEF HandleSlot, Handle, NoEffect, JumpToOrder, PatternBreak, SetTempo,
                RowLoop, PatternLoopEnd, PatternLoopStart, DelayPattern
  <2>2. position # NULL
    BY NullAssumption DEF IInv, TypeOK, position, TableIndex, Byte
  <2>3. \A c \in Channel : c < chan + 1 => c = chan \/ c < chan
    BY <2>1 DEF Channel
  <2>4. \A c \in Channel : c < chan' => current'[c] # NULL
    BY <2>1, <2>2, <2>3 DEF IInv, TypeOK, SlotDone, SlotsInv
  <2>5. QED
    BY <2>1, <2>4 DEF SlotDone, SlotsInv
<1>4. CASE EndRow
  <2>1. \A c \in Channel : c < chan
    BY <1>4, NumChannelsAssumption DEF EndRow, Channel
  <2>2. QED
    BY <1>4, <2>1 DEF EndRow, SlotsInv
<1>5. CASE EndTick
  BY <1>5 DEF EndTick, SlotsInv
<1>6. QED
  BY <1>1, <1>2, <1>3, <1>4, <1>5 DEF Tick

LEMMA CallsSlotsInv ==
  IInv /\ SlotsInv /\ [CallsNext]_allVars => SlotsInv'
<1> SUFFICES ASSUME IInv, SlotsInv, [CallsNext]_allVars PROVE SlotsInv'
  OBVIOUS
<1>0. 1 \in Channel
  BY NumChannelsAssumption DEF Channel
<1>1. CASE ObservedTick
  BY <1>1, TickSlotsInv DEF ObservedTick
<1>2. ASSUME NEW p \in SongPosition, NEW t \in Byte, CarefulSeek(p[1], p[2], t)
      PROVE  SlotsInv'
  <2>1. pc' = "idle" /\ current' = current /\ extra_rows' = extra_rows /\ current_tick' = t
    BY <1>2 DEF CarefulSeek, Seek, repeatVars
  <2>2. t = 0 \/ current[1] # NULL
    BY <1>2 DEF CarefulSeek, Byte
  <2>3. pc = "idle"
    BY <1>2 DEF CarefulSeek, Seek
  <2>4. QED
    BY <1>0, <2>1, <2>2, <2>3 DEF SlotsInv
<1>3. CASE Reset
  BY <1>3 DEF Reset, SlotsInv
<1>4. CASE CarefulDump
  BY <1>4 DEF CarefulDump, Dump, SlotsInv, repeatVars
<1>5. CASE UNCHANGED allVars
  BY <1>5 DEF allVars, vars, rowVars, repeatVars, SlotsInv
<1>6. QED
  BY <1>1, <1>2, <1>3, <1>4, <1>5 DEF CallsNext

(* xm_tick_effects() follows ch->current without a test: in every tick that *)
(* calls it, every channel has the slot of a row.                           *)
THEOREM CarefulCallsKeepSlots == CallsSpec => []EffectsHaveASlot
<1>1. InitHistory => IInv /\ SlotsInv
  BY InitIInv DEF InitHistory, Init, SlotsInv
<1>2. IInv /\ SlotsInv /\ [CallsNext]_allVars => (IInv /\ SlotsInv)'
  BY CallsAreSteps, NextIInv, CallsSlotsInv
<1>3. SlotsInv => EffectsHaveASlot
  BY DEF SlotsInv, EffectsHaveASlot, TickEffects
<1>4. QED
  BY <1>1, <1>2, <1>3, PTL DEF CallsSpec

(* Where a seek went is where the sequencer stays until the next tick, which *)
(* starts a row, and nothing moves it before that row is over.              *)
SeekInv ==
  target # NULL =>
    /\ position = target
    /\ \/ pc = "row"
       \/ pc = "idle" /\ ~Pending /\ extra_rows = 0 /\ current_tick = 0

LEMMA CallsSeekInv == IInv /\ SeekInv /\ [CallsNext]_allVars => SeekInv'
<1> SUFFICES ASSUME IInv, SeekInv, [CallsNext]_allVars, target' # NULL
             PROVE  /\ position' = target'
                    /\ \/ pc' = "row"
                       \/ pc' = "idle" /\ ~Pending' /\ extra_rows' = 0 /\ current_tick' = 0
  BY DEF SeekInv
<1> USE DEF position, jumpVars, repeatVars, Pending
<1>1. CASE ObservedTick
  <2>1. target' = target /\ ~RowEnds
    BY <1>1 DEF ObservedTick
  <2>2. CASE StartRow
    BY <2>1, <2>2 DEF StartRow, SeekInv
  <2>3. CASE ContinueRow
    BY <2>1, <2>3 DEF ContinueRow, SeekInv, NewRow, TickNow
  <2>4. CASE HandleSlot
    BY <2>1, <2>4 DEF HandleSlot, Handle, NoEffect, JumpToOrder, PatternBreak, SetTempo,
                      RowLoop, PatternLoopEnd, PatternLoopStart, DelayPattern, SlotDone,
                      SeekInv
  <2>5. CASE EndRow
    BY <2>1, <2>5 DEF EndRow, RowEnds
  <2>6. CASE EndTick
    BY <2>1, <2>6 DEF EndTick, SeekInv
  <2>7. QED
    BY <1>1, <2>2, <2>3, <2>4, <2>5, <2>6 DEF ObservedTick, Tick
<1>2. ASSUME NEW p \in SongPosition, NEW t \in Byte, CarefulSeek(p[1], p[2], t)
      PROVE  /\ position' = target'
             /\ pc' = "idle" /\ ~Pending' /\ extra_rows' = 0 /\ current_tick' = 0
  BY <1>2 DEF CarefulSeek, Seek, IInv, TypeOK, Byte
<1>3. CASE Reset /\ target' = NULL
  BY <1>3
<1>4. CASE CarefulDump
  BY <1>4 DEF CarefulDump, Dump, SeekInv
<1>5. CASE UNCHANGED allVars
  BY <1>5 DEF allVars, vars, history, SeekInv
<1>6. QED
  BY <1>1, <1>2, <1>3, <1>4, <1>5 DEF CallsNext

(* xm_seek() to the start of a row leads to the position asked for, however *)
(* many calls come before the next tick, if no jump or repeat was pending   *)
(* when it was called.                                                      *)
THEOREM SeeksLand == CallsSpec => []SeekLands
<1>1. InitHistory => IInv /\ SeekInv
  BY InitIInv DEF InitHistory, SeekInv
<1>2. IInv /\ SeekInv /\ [CallsNext]_allVars => (IInv /\ SeekInv)'
  BY CallsAreSteps, NextIInv, CallsSeekInv
<1>3. SeekInv => SeekLands
  BY DEF SeekInv, SeekLands
<1>4. QED
  BY <1>1, <1>2, <1>3, PTL DEF CallsSpec

-----------------------------------------------------------------------------
(* Sequencer implements RowOrder.  What is pending agrees with the effects  *)
(* of the slots of the row handled so far; once the row is over, the row it *)
(* makes the sequencer start next is one that may follow.                   *)

Handled == {Slot(current_table_index, current_row, c) : c \in 1 .. chan - 1}

PendingFits(slots, i, row) ==
  /\ position_jump => jump_dest \in Order!JumpEntries(slots, i)
  /\ pattern_break <=> Order!Params(slots, "PATTERN_BREAK") # {}
  /\ Order!Params(slots, "JUMP_TO_ORDER") # {} => position_jump
  /\ Pending => jump_row \in Order!JumpRows(slots, row)

(* The position of the row that starts next. *)
NextPosition ==
  <<IF position_jump THEN jump_dest
    ELSE IF pattern_break THEN NextEntry(current_table_index)
    ELSE current_table_index,
    IF Pending THEN jump_row ELSE current_row>>

MayPlay(p) ==
  IF current[1] = NULL THEN p = <<0, 0>>
  ELSE p \in Order!Follows(current[1][1], current[1][2])

OriginsMarked ==
  \A c \in Channel :
    pattern_loop_origin[c] \in Order!MarkedRows \union Order!RepeatedRows

OrderInv ==
  /\ OriginsMarked
  /\ ~Pending => jump_row \in Order!MarkedRows
  /\ pc = "row" => PendingFits(Handled, current_table_index, current_row)
  /\ pc = "row" /\ chan = 1 => MayPlay(position)
  /\ pc = "row" /\ chan > 1 => current[1] = position
  /\ pc # "row" => MayPlay(NextPosition)

(* The song does not change, and with it the rows it marks. *)
LEMMA SongMarksStay ==
  ASSUME song' = song
  PROVE  /\ Order!MarkedRows' = Order!MarkedRows
         /\ Order!RepeatedRows' = Order!RepeatedRows
BY DEF Order!MarkedRows, Order!RepeatedRows, Order!RowNumbers, Order!IsStored, Order!Slots,
       Order!Params

LEMMA ParamsGrow ==
  ASSUME NEW slots, NEW e, NEW t
  PROVE  Order!Params(slots \union {e}, t) =
           Order!Params(slots, t) \union (IF e.type = t THEN {e.param} ELSE {})
BY DEF Order!Params

LEMMA JumpsGrow ==
  ASSUME NEW slots, NEW e, NEW i, NEW row
  PROVE  /\ Order!JumpEntries(slots, i) \subseteq Order!JumpEntries(slots \union {e}, i)
         /\ Order!JumpRows(slots, row) \subseteq Order!JumpRows(slots \union {e}, row)
<1> DEFINE more == slots \union {e}
<1>1. \A t : Order!Params(slots, t) \subseteq Order!Params(more, t)
  BY DEF Order!Params
<1>2. /\ Order!IsLoopEnd(slots) => Order!IsLoopEnd(more)
      /\ Order!IsRowLoop(slots) => Order!IsRowLoop(more)
  BY <1>1 DEF Order!IsLoopEnd, Order!IsRowLoop
<1>3. Order!JumpEntries(slots, i) \subseteq Order!JumpEntries(more, i)
  BY <1>1, <1>2 DEF Order!JumpEntries
<1>4. Order!JumpRows(slots, row) \subseteq Order!JumpRows(more, row)
  BY <1>1, <1>2 DEF Order!JumpRows
<1>5. QED
  BY <1>3, <1>4

LEMMA RowsHaveNumbers ==
  ASSUME song \in Songs
  PROVE  /\ JumpTargets(song) \subseteq Order!RowNumbers
         /\ \A i \in TableIndex : PatternRows(i) \subseteq Order!RowNumbers
<1>1. ASSUME NEW x \in ParamsOf(song, "PATTERN_BREAK") PROVE x \in Order!RowNumbers
  <2>1. PICK r \in SlotRow(song), c \in Channel :
           song.slots[r][c] = [type |-> "PATTERN_BREAK", param |-> x]
    BY <1>1 DEF ParamsOf
  <2>2. r \in DOMAIN song.slots
    BY SongsAssumption DEF IsSong
  <2>3. x \in Order!Params({song.slots[r][d] : d \in Channel}, "PATTERN_BREAK")
    BY <2>1 DEF Order!Params
  <2>4. QED
    BY <2>2, <2>3 DEF Order!RowNumbers
<1>2. ASSUME NEW p \in Patterns(song)
      PROVE  0 .. song.num_rows[p] - 1 \subseteq Order!RowNumbers
  BY <1>2 DEF Order!RowNumbers, Patterns
<1>3. LoopMarks(song) \subseteq Order!RowNumbers
  <2>1. ASSUME NEW r \in Byte, NEW p \in Patterns(song), r < song.num_rows[p]
        PROVE  r \in 0 .. song.num_rows[p] - 1
    BY <2>1, SongFacts, BytesAssumption DEF Byte
  <2>2. QED
    BY <1>2, <2>1 DEF LoopMarks
<1>4. JumpTargets(song) \subseteq Order!RowNumbers
  BY <1>1, <1>3 DEF JumpTargets, Order!RowNumbers
<1>5. \A i \in TableIndex : PatternAt(i) \in Patterns(song)
  BY SongFacts DEF PatternAt, TableIndex
<1>6. QED
  BY <1>2, <1>4, <1>5 DEF PatternRows

(* The slot being handled is added to those that were. *)
LEMMA HandledGrows ==
  ASSUME IInv, pc = "row", chan \in Channel, SlotDone
  PROVE  Handled' = Handled \union {Slot(current_table_index, current_row, chan)}
<1>1. 1 .. chan' - 1 = (1 .. chan - 1) \union {chan}
  BY DEF SlotDone, Channel
<1>2. /\ song' = song /\ current_table_index' = current_table_index
      /\ current_row' = current_row
  BY DEF SlotDone, position
<1>3. Handled' = {Slot(current_table_index, current_row, c) : c \in 1 .. chan' - 1}
  BY <1>2 DEF Handled, Slot, PatternAt
<1>4. QED
  BY <1>1, <1>3 DEF Handled

(* With all of them handled, these are the slots of the row. *)
LEMMA AllHandled ==
  ASSUME chan = NumChannels + 1
  PROVE  Handled = Order!Slots(current_table_index, current_row)
<1>1. 1 .. chan - 1 = Channel
  BY NumChannelsAssumption DEF Channel
<1>2. QED
  BY <1>1 DEF Handled, Slot, PatternAt, Order!Slots

(* E60 and E6y of a row loop mark their row. *)
LEMMA RowIsMarked ==
  ASSUME IInv, pc = "row", chan \in Channel
  PROVE  /\ Handle("PATTERN_LOOP") /\ Param = 0 => current_row \in Order!MarkedRows
         /\ Handle("ROW_LOOP") => current_row \in Order!RepeatedRows
<1> DEFINE i == current_table_index
           e == Slot(i, current_row, chan)
<1>1. current_row \in Order!RowNumbers
  BY RowsHaveNumbers DEF IInv, RowsInv, TypeOK
<1>2. /\ i \in DOMAIN song.pattern_table
      /\ RowAddress \in SlotRow(song) => Order!IsStored(i, current_row)
  BY SongsAssumption
  DEF IInv, TypeOK, IsSong, TableIndex, RowAddress, PatternAt, Order!IsStored
<1>3. e \in Order!Slots(i, current_row)
  BY DEF Slot, PatternAt, Order!Slots
<1>4. e.param \in Order!Params(Order!Slots(i, current_row), e.type)
  BY <1>3 DEF Order!Params
<1>5. QED
  BY <1>1, <1>2, <1>4 DEF Handle, Param, Order!MarkedRows, Order!RepeatedRows

(* Each effect leaves what is pending in agreement with the slots that now  *)
(* include its own.                                                         *)
LEMMA SlotFits ==
  ASSUME IInv, OrderInv, HandleSlot,
         NEW more, more = Handled \union {Slot(current_table_index, current_row, chan)}
  PROVE  /\ position_jump' => jump_dest' \in Order!JumpEntries(more, current_table_index)
         /\ pattern_break' <=> Order!Params(more, "PATTERN_BREAK") # {}
         /\ Order!Params(more, "JUMP_TO_ORDER") # {} => position_jump'
         /\ position_jump' \/ pattern_break' => jump_row' \in Order!JumpRows(more, current_row)
         /\ ~(position_jump' \/ pattern_break') => jump_row' \in Order!MarkedRows
<1> DEFINE i   == current_table_index
           row == current_row
           e   == Slot(i, row, chan)
           F   == /\ position_jump' => jump_dest' \in Order!JumpEntries(more, i)
                  /\ pattern_break' <=> Order!Params(more, "PATTERN_BREAK") # {}
                  /\ Order!Params(more, "JUMP_TO_ORDER") # {} => position_jump'
                  /\ position_jump' \/ pattern_break' => jump_row' \in Order!JumpRows(more, row)
                  /\ ~(position_jump' \/ pattern_break') => jump_row' \in Order!MarkedRows
<1>1. pc = "row" /\ chan \in Channel
  BY DEF HandleSlot, Handle, NoEffect, JumpToOrder, PatternBreak, SetTempo, RowLoop,
         PatternLoopEnd, PatternLoopStart, DelayPattern
<1>2. /\ position_jump => jump_dest \in Order!JumpEntries(more, i)
      /\ Pending => jump_row \in Order!JumpRows(more, row)
      /\ ~Pending => jump_row \in Order!MarkedRows
      /\ pattern_break <=> Order!Params(Handled, "PATTERN_BREAK") # {}
      /\ Order!Params(Handled, "JUMP_TO_ORDER") # {} => position_jump
  BY <1>1, JumpsGrow DEF OrderInv, PendingFits
<1>3. \A t : Order!Params(more, t) =
              Order!Params(Handled, t) \union (IF e.type = t THEN {e.param} ELSE {})
  BY ParamsGrow
<1>4. Order!MarkedRows \subseteq Order!JumpRows(more, row) /\ 0 \in Order!MarkedRows
  BY DEF Order!JumpRows, Order!MarkedRows
<1>5. \A t : Handle(t) => e.type = t /\ e.param = Param
  BY DEF Handle, Param
<1>6. ASSUME e.type \notin {"JUMP_TO_ORDER", "PATTERN_BREAK"},
             UNCHANGED <<position_jump, pattern_break, jump_dest>>,
             jump_row' = jump_row \/ jump_row' \in Order!MarkedRows
      PROVE  F
  BY <1>2, <1>3, <1>4, <1>6 DEF Pending
<1>7. CASE NoEffect \/ SetTempo \/ DelayPattern
  BY <1>5, <1>6, <1>7 DEF NoEffect, SetTempo, DelayPattern, jumpVars
<1>8. CASE PatternLoopStart
  BY <1>1, <1>5, <1>6, <1>8, RowIsMarked DEF PatternLoopStart
<1>9. CASE JumpToOrder
  <2>1. e.type = "JUMP_TO_ORDER" /\ e.param = Param
    BY <1>5, <1>9 DEF JumpToOrder
  <2>2. Param \in Order!JumpEntries(more, i)
    BY <1>3, <2>1 DEF Order!JumpEntries
  <2>3. Order!Params(more, "PATTERN_BREAK") = Order!Params(Handled, "PATTERN_BREAK")
    BY <1>3, <2>1
  <2>4. QED
    BY <1>2, <1>4, <1>9, <2>2, <2>3 DEF JumpToOrder
<1>10. CASE PatternBreak
  <2>1. e.type = "PATTERN_BREAK" /\ e.param = Param
    BY <1>5, <1>10 DEF PatternBreak
  <2>2. Param \in Order!Params(more, "PATTERN_BREAK")
    BY <1>3, <2>1
  <2>3. Param \in Order!JumpRows(more, row)
    BY <2>2 DEF Order!JumpRows
  <2>4. Order!Params(more, "JUMP_TO_ORDER") = Order!Params(Handled, "JUMP_TO_ORDER")
    BY <1>3, <2>1
  <2>5. QED
    BY <1>2, <1>10, <2>2, <2>3, <2>4 DEF PatternBreak
<1>11. ASSUME NEW origin \in Order!JumpRows(more, row), LoopBack(origin),
              i \in Order!JumpEntries(more, i), UNCHANGED pattern_break,
              e.type \notin {"JUMP_TO_ORDER", "PATTERN_BREAK"}
       PROVE  F
  <2>1. CASE Param = pattern_loop_count[chan]
    BY <1>6, <1>11, <2>1 DEF LoopBack
  <2>2. CASE Param # pattern_loop_count[chan]
    BY <1>2, <1>3, <1>11, <2>2 DEF LoopBack, ArmLoop
  <2>3. QED
    BY <2>1, <2>2
<1>12. CASE RowLoop
  <2>1. e.type = "ROW_LOOP"
    BY <1>5, <1>12 DEF RowLoop
  <2>2. Order!IsRowLoop(more)
    BY <1>3, <2>1 DEF Order!IsRowLoop
  <2>3. row \in Order!JumpRows(more, row) /\ i \in Order!JumpEntries(more, i)
    BY <2>2 DEF Order!JumpRows, Order!JumpEntries
  <2>4. QED
    BY <1>11, <1>12, <2>1, <2>3 DEF RowLoop
<1>13. CASE PatternLoopEnd
  <2>1. e.type = "PATTERN_LOOP" /\ e.param = Param /\ Param # 0
    BY <1>5, <1>13, HandleFacts DEF PatternLoopEnd, Byte
  <2>2. Order!IsLoopEnd(more)
    BY <1>3, <2>1 DEF Order!IsLoopEnd
  <2>3. i \in Order!JumpEntries(more, i)
    BY <2>2 DEF Order!JumpEntries
  <2>4. pattern_loop_origin[chan] \in Order!JumpRows(more, row)
    BY <1>1, <2>2 DEF OrderInv, OriginsMarked, Order!JumpRows
  <2>5. QED
    BY <1>11, <1>13, <2>1, <2>3, <2>4 DEF PatternLoopEnd
<1>14. QED
  BY <1>7, <1>8, <1>9, <1>10, <1>12, <1>13 DEF HandleSlot

(* The rows a row may be followed by only depend on the song. *)
LEMMA FollowsStays ==
  ASSUME song' = song, current[1]' = current[1]
  PROVE  \A p : MayPlay(p)' <=> MayPlay(p)
BY DEF MayPlay, Order!Follows, Order!JumpEntries, Order!JumpRows, Order!IsLoopEnd,
       Order!IsRowLoop, Order!NextEntry, Order!MarkedRows, Order!RepeatedRows,
       Order!RowNumbers, Order!IsStored, Order!Slots, Order!Params

LEMMA InitOrderInv == Init => OrderInv
<1> SUFFICES ASSUME Init PROVE OrderInv
  OBVIOUS
<1>1. 0 \in Order!MarkedRows /\ 1 \in Channel
  BY NumChannelsAssumption DEF Order!MarkedRows, Channel
<1>2. MayPlay(NextPosition)
  BY <1>1 DEF Init, MayPlay, NextPosition, Pending
<1>3. QED
  BY <1>1, <1>2 DEF Init, OrderInv, OriginsMarked

LEMMA StartRowOrderInv == IInv /\ OrderInv /\ StartRow => OrderInv'
<1> SUFFICES ASSUME IInv, OrderInv, StartRow PROVE OrderInv'
  OBVIOUS
<1>1. song' = song /\ pc' = "row" /\ chan' = 1 /\ current' = current
  BY DEF StartRow
<1>2. position' = NextPosition /\ ~Pending'
  BY DEF StartRow, position, NextPosition, Pending
<1>3. MayPlay(position)'
  BY <1>1, <1>2, FollowsStays DEF OrderInv, StartRow, MayPlay
<1>4. jump_row' \in Order!MarkedRows
  BY DEF OrderInv, StartRow, Order!MarkedRows
<1>5. Handled' = {}
  BY <1>1 DEF Handled
<1>6. PendingFits(Handled, current_table_index, current_row)'
  BY <1>2, <1>5 DEF PendingFits, Pending, Order!Params
<1>7. QED
  BY <1>1, <1>2, <1>3, <1>4, <1>6, SongMarksStay
  DEF OrderInv, OriginsMarked, StartRow, loopVars

LEMMA HandleSlotOrderInv == IInv /\ OrderInv /\ HandleSlot => OrderInv'
<1> SUFFICES ASSUME IInv, OrderInv, HandleSlot PROVE OrderInv'
  OBVIOUS
<1> DEFINE more == Handled \union {Slot(current_table_index, current_row, chan)}
<1>1. pc = "row" /\ chan \in Channel /\ SlotDone
  BY DEF HandleSlot, Handle, NoEffect, JumpToOrder, PatternBreak, SetTempo, RowLoop,
         PatternLoopEnd, PatternLoopStart, DelayPattern
<1>2. song' = song /\ position' = position /\ pc' = "row" /\ chan' = chan + 1
      /\ current_table_index' = current_table_index /\ current_row' = current_row
  BY <1>1 DEF SlotDone, position
<1>3. Handled' = more
  BY <1>1, HandledGrows
<1>4. PendingFits(Handled, current_table_index, current_row)'
  BY <1>2, <1>3, SlotFits, SongMarksStay
  DEF PendingFits, Pending, Order!Params, Order!JumpEntries, Order!JumpRows,
      Order!IsLoopEnd, Order!IsRowLoop
<1>5. ~Pending' => jump_row' \in Order!MarkedRows'
  BY <1>2, SlotFits, SongMarksStay DEF Pending
<1>6. OriginsMarked'
  <2>1. \/ pattern_loop_origin' = pattern_loop_origin
        \/ /\ pattern_loop_origin' = [pattern_loop_origin EXCEPT ![chan] = current_row]
           /\ current_row \in Order!MarkedRows \union Order!RepeatedRows
    BY <1>1, RowIsMarked
    DEF HandleSlot, NoEffect, JumpToOrder, PatternBreak, SetTempo, RowLoop,
        PatternLoopEnd, PatternLoopStart, DelayPattern, loopVars
  <2>2. \A c \in Channel :
           pattern_loop_origin'[c] \in Order!MarkedRows \union Order!RepeatedRows
    BY <2>1 DEF OrderInv, OriginsMarked, IInv, TypeOK
  <2>3. QED
    BY <1>2, <2>2, SongMarksStay DEF OriginsMarked
<1>7. current'[1] = position
  <2>1. chan # 1 => chan > 1 /\ current[1] = position
    BY <1>1 DEF OrderInv, Channel
  <2>2. QED
    BY <1>1, <2>1, NumChannelsAssumption DEF SlotDone, IInv, TypeOK, Channel
<1>8. QED
  BY <1>1, <1>2, <1>4, <1>5, <1>6, <1>7 DEF OrderInv, Channel

LEMMA EndRowOrderInv == IInv /\ OrderInv /\ EndRow => OrderInv'
<1> SUFFICES ASSUME IInv, OrderInv, EndRow PROVE OrderInv'
  OBVIOUS
<1> DEFINE i   == current_table_index
           row == current_row
           slots == Order!Slots(i, row)
<1>1. /\ song' = song /\ pc' = "effects" /\ current' = current
      /\ UNCHANGED <<position_jump, pattern_break, jump_dest, pattern_loop_origin>>
  BY DEF EndRow, loopVars
<1>2. chan > 1 /\ Handled = slots /\ PendingFits(slots, i, row)
  BY AllHandled, NumChannelsAssumption DEF EndRow, OrderInv
<1>3. current[1] = <<i, row>> /\ current[1] # NULL
  BY <1>2, NullAssumption DEF EndRow, OrderInv, position, IInv, TypeOK, TableIndex, Byte
<1>4. NextPosition' \in Order!Follows(i, row)
  <2>1. CASE position_jump
    <3>1. NextPosition' = <<jump_dest, jump_row>>
      BY <1>1, <2>1 DEF EndRow, PatternOver, Pending, NextPosition
    <3>2. NextPosition' \in Order!JumpEntries(slots, i) \X Order!JumpRows(slots, row)
      BY <1>2, <2>1, <3>1 DEF PendingFits, Pending
    <3>3. QED
      BY <3>2 DEF Order!Follows
  <2>2. CASE ~position_jump /\ pattern_break
    <3>1. NextPosition' = <<NextEntry(i), jump_row>>
      BY <1>1, <2>2 DEF EndRow, PatternOver, Pending, NextPosition, NextEntry
    <3>2. NextEntry(i) = Order!NextEntry(i)
      BY SongFacts DEF NextEntry, Order!NextEntry, IInv, TypeOK, TableIndex
    <3>3. QED
      BY <1>2, <2>2, <3>1, <3>2 DEF PendingFits, Pending, Order!Follows
  <2>3. CASE ~Pending
    <3>1. /\ Order!Params(slots, "JUMP_TO_ORDER") = {}
          /\ Order!Params(slots, "PATTERN_BREAK") = {}
      BY <1>2, <2>3 DEF PendingFits, Pending
    <3>2. jump_row \in Order!MarkedRows
      BY <2>3 DEF OrderInv
    <3>3. NextPosition' = <<current_table_index', current_row'>>
      BY <1>1, <2>3 DEF NextPosition, Pending
    <3>4. NextEntry(i) = Order!NextEntry(i)
      BY SongFacts DEF NextEntry, Order!NextEntry, IInv, TypeOK, TableIndex
    <3>5. row \in 0 .. Bytes - 1 /\ song.num_rows[song.pattern_table[i]] \in 0 .. Bytes
      BY SongFacts DEF IInv, TypeOK, TableIndex, Byte
    <3>6. RowAfter = IF row + 1 = Bytes THEN 0 ELSE row + 1
      BY <3>5, BytesAssumption DEF RowAfter, Wrap
    <3>7. CASE PatternOver
      <4>1. ~(row + 1 < song.num_rows[song.pattern_table[i]])
        BY <3>5, <3>6, <3>7, BytesAssumption DEF PatternOver, PatternAt
      <4>2. NextPosition' \in {Order!NextEntry(i)} \X Order!MarkedRows
        BY <3>2, <3>3, <3>4, <3>7 DEF EndRow
      <4>3. QED
        BY <3>1, <4>1, <4>2 DEF Order!Follows
    <3>8. CASE ~PatternOver
      <4>1. RowAfter = row + 1 /\ row + 1 < song.num_rows[song.pattern_table[i]]
        BY <2>3, <3>5, <3>6, <3>8, BytesAssumption DEF PatternOver, PatternAt
      <4>2. NextPosition' = <<i, row + 1>>
        BY <3>3, <3>8, <4>1 DEF EndRow
      <4>3. QED
        BY <3>1, <4>1, <4>2 DEF Order!Follows
    <3>9. QED
      BY <3>7, <3>8
  <2>4. QED
    BY <2>1, <2>2, <2>3 DEF Pending
<1>5. MayPlay(NextPosition)'
  <2>1. MayPlay(NextPosition')
    BY <1>3, <1>4 DEF MayPlay
  <2>2. QED
    BY <1>1, <2>1, FollowsStays
<1>6. ~Pending' => jump_row' \in Order!MarkedRows'
  BY <1>1, SongMarksStay DEF EndRow, OrderInv, Pending, Order!MarkedRows
<1>7. QED
  BY <1>1, <1>5, <1>6, SongMarksStay DEF OrderInv, OriginsMarked

LEMMA TickOrderInv == IInv /\ OrderInv /\ Tick => OrderInv'
<1> SUFFICES ASSUME IInv, OrderInv, Tick PROVE OrderInv'
  OBVIOUS
<1>1. ASSUME song' = song, pc # "row", pc' # "row",
             UNCHANGED <<position, jumpVars, loopVars, current>>
      PROVE  OrderInv'
  <2>1. NextPosition' = NextPosition /\ Pending' = Pending
    BY <1>1 DEF position, jumpVars, NextPosition, NextEntry, Pending
  <2>2. MayPlay(NextPosition)'
    BY <1>1, <2>1, FollowsStays DEF OrderInv, MayPlay
  <2>3. QED
    BY <1>1, <2>1, <2>2, SongMarksStay DEF OrderInv, OriginsMarked, jumpVars, loopVars
<1>2. CASE ContinueRow
  BY <1>1, <1>2 DEF ContinueRow
<1>3. CASE EndTick
  BY <1>1, <1>3 DEF EndTick
<1>4. QED
  BY <1>2, <1>3, StartRowOrderInv, HandleSlotOrderInv, EndRowOrderInv DEF Tick

LEMMA StutterOrderInv == IInv /\ OrderInv /\ UNCHANGED vars => OrderInv'
<1> SUFFICES ASSUME IInv, OrderInv, UNCHANGED vars PROVE OrderInv'
  OBVIOUS
<1> USE DEF vars, position, jumpVars, loopVars, rowVars
<1>1. /\ NextPosition' = NextPosition /\ Pending' = Pending /\ Handled' = Handled
      /\ song' = song /\ current' = current /\ position' = position
  BY DEF NextPosition, NextEntry, Pending, Handled, Slot, PatternAt
<1>2. \A p : MayPlay(p)' <=> MayPlay(p)
  BY <1>1, FollowsStays
<1>3. PendingFits(Handled, current_table_index, current_row)' <=>
        PendingFits(Handled, current_table_index, current_row)
  BY <1>1, SongMarksStay
  DEF PendingFits, Order!Params, Order!JumpEntries, Order!JumpRows, Order!IsLoopEnd,
      Order!IsRowLoop
<1>4. MayPlay(NextPosition)' <=> MayPlay(NextPosition)
  BY <1>1, <1>2 DEF MayPlay
<1>5. MayPlay(position)' <=> MayPlay(position)
  BY <1>1, <1>2 DEF MayPlay
<1>6. QED
  BY <1>1, <1>3, <1>4, <1>5, SongMarksStay DEF OrderInv, OriginsMarked

(* A row is taken up with the first slot of it; no other step shows. *)
LEMMA TickMaps == IInv /\ OrderInv /\ Tick => [Order!Next]_(Order!vars)
<1> SUFFICES ASSUME IInv, OrderInv, Tick PROVE [Order!Next]_(Order!vars)
  OBVIOUS
<1>1. CASE StartRow \/ ContinueRow \/ EndRow \/ EndTick
  BY <1>1 DEF StartRow, ContinueRow, EndRow, EndTick, Order!vars
<1>2. CASE HandleSlot
  <2>1. pc = "row" /\ chan \in Channel /\ SlotDone
    BY <1>2 DEF HandleSlot, Handle, NoEffect, JumpToOrder, PatternBreak, SetTempo,
                RowLoop, PatternLoopEnd, PatternLoopStart, DelayPattern
  <2>2. CASE chan = 1
    <3>1. song' = song /\ current'[1] = position /\ MayPlay(position)
      BY <2>1, <2>2 DEF SlotDone, IInv, TypeOK, OrderInv
    <3>2. QED
      BY <3>1 DEF MayPlay, Order!Next, Order!First, Order!Follow
  <2>3. CASE chan # 1
    BY <2>1, <2>3, NumChannelsAssumption
    DEF SlotDone, IInv, TypeOK, Channel, Order!vars
  <2>4. QED
    BY <2>2, <2>3
<1>3. QED
  BY <1>1, <1>2 DEF Tick

(* Whatever the song, the effects of its channels and the order they come   *)
(* in: the row played next is one that the row being played asks for.       *)
THEOREM RowsComeInOrder == HistorySpec => ImplementsRowOrder
<1>1. InitHistory => IInv /\ OrderInv /\ Order!Init
  <2>1. Init => Order!Init
    BY NumChannelsAssumption DEF Init, Order!Init, Channel
  <2>2. QED
    BY <2>1, InitIInv, InitOrderInv DEF InitHistory
<1>2. IInv /\ OrderInv /\ [TickWithHistory]_allVars => (IInv /\ OrderInv)'
  BY NextIInv, TickOrderInv, StutterOrderInv DEF TickWithHistory, Next, allVars
<1>3. IInv /\ OrderInv /\ [TickWithHistory]_allVars => [Order!Next]_(Order!vars)
  BY TickMaps DEF TickWithHistory, allVars, vars, Order!vars
<1>4. QED
  BY <1>1, <1>2, <1>3, PTL DEF HistorySpec, ImplementsRowOrder, Order!Spec
-----------------------------------------------------------------------------
(* Once a row was started, the sequencer is one row further in its pattern, *)
(* unless that was the last one.                                            *)
ReportInv ==
  pc # "row" /\ current[1] # NULL =>
    position = <<current[1][1], Wrap(current[1][2] + 1)>> \/ PlaysLastRow

LEMMA WrapBack ==
  ASSUME NEW n \in Byte
  PROVE  /\ Wrap(n + 1) = IF n + 1 = Bytes THEN 0 ELSE n + 1
         /\ Wrap(Wrap(n + 1) + Bytes - 1) = n
<1>1. \A k \in Byte : Wrap(k) = k /\ Wrap(k + Bytes) = k
  BY BytesAssumption DEF Wrap, Byte
<1>2. Wrap(n + 1) = IF n + 1 = Bytes THEN 0 ELSE n + 1
  <2>1. CASE n + 1 = Bytes
    <3>1. 0 \in Byte /\ 0 + Bytes = Bytes
      BY BytesAssumption DEF Byte
    <3>2. QED
      BY <1>1, <2>1, <3>1
  <2>2. CASE n + 1 # Bytes
    <3>1. n + 1 \in Byte
      BY <2>2, BytesAssumption DEF Byte
    <3>2. QED
      BY <1>1, <2>2, <3>1
  <2>3. QED
    BY <2>1, <2>2
<1>3. Wrap(Wrap(n + 1) + Bytes - 1) = n
  <2>1. CASE n + 1 = Bytes
    <3>1. Wrap(n + 1) + Bytes - 1 = n
      BY <1>2, <2>1, BytesAssumption DEF Byte
    <3>2. QED
      BY <1>1, <3>1
  <2>2. CASE n + 1 # Bytes
    <3>1. Wrap(n + 1) + Bytes - 1 = n + Bytes
      BY <1>2, <2>2, BytesAssumption DEF Byte
    <3>2. QED
      BY <1>1, <3>1
  <2>3. QED
    BY <2>1, <2>2
<1>4. QED
  BY <1>2, <1>3

LEMMA TickReportInv == IInv /\ OrderInv /\ ReportInv /\ Tick => ReportInv'
<1> SUFFICES ASSUME IInv, OrderInv, ReportInv, Tick PROVE ReportInv'
  OBVIOUS
<1>1. CASE StartRow
  BY <1>1 DEF StartRow, ReportInv
<1>2. CASE HandleSlot
  BY <1>2 DEF HandleSlot, Handle, NoEffect, JumpToOrder, PatternBreak, SetTempo, RowLoop,
              PatternLoopEnd, PatternLoopStart, DelayPattern, SlotDone, ReportInv
<1>3. CASE ContinueRow \/ EndTick
  BY <1>3 DEF ContinueRow, EndTick, ReportInv, PlaysLastRow, PatternAt, position
<1>4. CASE EndRow
  <2>1. song' = song /\ current' = current /\ current[1] = position
    BY <1>4, NumChannelsAssumption DEF EndRow, OrderInv
  <2>2. CASE PatternOver
    <3>1. song.num_rows[PatternAt(current_table_index)] \in 0 .. Bytes
      BY SongFacts DEF IInv, TypeOK, TableIndex, PatternAt
    <3>2. current_row + 1 >= song.num_rows[PatternAt(current_table_index)]
      BY <2>2, <3>1, WrapBack, BytesAssumption DEF PatternOver, RowAfter, IInv, TypeOK, Byte
    <3>3. PlaysLastRow
      BY <2>1, <3>2 DEF PlaysLastRow, position
    <3>4. QED
      BY <2>1, <3>3 DEF ReportInv, PlaysLastRow, PatternAt
  <2>3. CASE ~PatternOver
    BY <1>4, <2>1, <2>3 DEF EndRow, ReportInv, position, RowAfter
  <2>4. QED
    BY <2>2, <2>3
<1>5. QED
  BY <1>1, <1>2, <1>3, <1>4 DEF Tick

(* xm_get_position() between two ticks reports the row that is being played, *)
(* though it computes it from the row that comes next, except while that    *)
(* row is the first of another entry.                                       *)
THEOREM ReportsThePosition == HistorySpec => []PositionIsReported
<1>1. InitHistory => IInv /\ OrderInv /\ ReportInv
  BY InitIInv, InitOrderInv, NumChannelsAssumption
  DEF InitHistory, Init, ReportInv, Channel
<1>2. IInv /\ OrderInv /\ ReportInv /\ [TickWithHistory]_allVars
        => (IInv /\ OrderInv /\ ReportInv)'
  <2>1. ReportInv /\ UNCHANGED vars => ReportInv'
    BY DEF vars, ReportInv, PlaysLastRow, PatternAt, position
  <2>2. QED
    BY <2>1, NextIInv, TickOrderInv, StutterOrderInv, TickReportInv
    DEF TickWithHistory, Next, allVars
<1>3. IInv /\ ReportInv => PositionIsReported
  <2> SUFFICES ASSUME IInv, ReportInv, pc = "idle", current[1] # NULL
               PROVE  ReportedPosition = current[1] \/ PlaysLastRow
    BY DEF PositionIsReported
  <2>1. current[1] \in TableIndex \X Byte
    BY NumChannelsAssumption DEF IInv, TypeOK, Position, Channel
  <2>2. Wrap(Wrap(current[1][2] + 1) + Bytes - 1) = current[1][2]
    BY <2>1, WrapBack
  <2>3. QED
    BY <2>1, <2>2 DEF ReportInv, ReportedPosition, position
<1>4. QED
  BY <1>1, <1>2, <1>3, PTL DEF HistorySpec
-----------------------------------------------------------------------------
(* How long a row lasts.  The ticks played are those of the repeats that    *)
(* are done and those done of this one; none of the counters wraps, because *)
(* EEy asks for less repeats than a byte can count.                         *)

RowTicks == IF current_tempo = 0 THEN 1 ELSE current_tempo

Elapsed(ticks) ==
  /\ extra_rows_done \in 0 .. extra_rows /\ current_tick \in ticks
  /\ elapsed = extra_rows_done * RowTicks + current_tick

RowTimeInv ==
  /\ extra_rows \in 0 .. Bytes - 2
  /\ pc = "row" => elapsed = 0 /\ current_tick = 0 /\ extra_rows_done = 0
  /\ pc = "effects" => current[1] # NULL /\ Elapsed(0 .. RowTicks - 1)
  /\ pc = "idle" => IF current[1] = NULL THEN current_tick = 0 /\ extra_rows = 0
                    ELSE Elapsed(1 .. RowTicks)

LEMMA MaxMinOfTwo ==
  ASSUME NEW m \in Nat, NEW n \in Nat
  PROVE  /\ Max({m, n}) = IF m >= n THEN m ELSE n
         /\ Min({m, n}) = IF m <= n THEN m ELSE n
<1>1. CASE m >= n
  BY <1>1 DEF Max, Min
<1>2. CASE m < n
  BY <1>2 DEF Max, Min
<1>3. QED
  BY <1>1, <1>2

LEMMA ProductIsMonotone ==
  ASSUME NEW a \in Nat, NEW b \in Nat, NEW m \in Nat, NEW n \in Nat, a <= b, m <= n
  PROVE  a * m <= b * n
<1>1. PICK k \in Nat : b = a + k
  <2>1. b - a \in Nat /\ b = a + (b - a)
    OBVIOUS
  <2>2. QED
    BY <2>1
<1>2. PICK l \in Nat : n = m + l
  <2>1. n - m \in Nat /\ n = m + (n - m)
    OBVIOUS
  <2>2. QED
    BY <2>1
<1>3. b * n = a * m + a * l + k * n
  BY <1>1, <1>2
<1>4. a * l \in Nat /\ k * n \in Nat /\ a * m \in Nat
  OBVIOUS
<1>5. QED
  BY <1>3, <1>4

(* No row lasts as many ticks as elapsed can count. *)
LEMMA RowIsShort ==
  ASSUME IInv, RowTimeInv, pc = "effects"
  PROVE  /\ elapsed \in Nat /\ elapsed + 1 <= ElapsedLimit
         /\ RowTicks \in 1 .. Bytes - 1
<1>1. /\ RowTicks \in 1 .. Bytes - 1 /\ extra_rows_done \in 0 .. Bytes - 2
      /\ current_tick \in 0 .. RowTicks - 1
      /\ elapsed = extra_rows_done * RowTicks + current_tick
  BY BytesAssumption DEF RowTimeInv, Elapsed, RowTicks, IInv, TypeOK, Byte
<1> HIDE DEF RowTicks
<1>2. extra_rows_done * RowTicks \in Nat
  BY <1>1, BytesAssumption
<1>3. extra_rows_done * RowTicks + RowTicks = (extra_rows_done + 1) * RowTicks
  BY <1>1, BytesAssumption
<1>4. (extra_rows_done + 1) * RowTicks <= Bytes * Bytes
  BY <1>1, BytesAssumption, ProductIsMonotone
<1>5. QED
  BY <1>1, <1>2, <1>3, <1>4, BytesAssumption DEF ElapsedLimit

(* EEy asks for less repeats than a byte can count. *)
LEMMA RepeatsFit ==
  ASSUME IInv, pc = "row", chan \in Channel, Handle("DELAY_PATTERN")
  PROVE  Param \in 0 .. Bytes - 2
<1> DEFINE k == song.rows_index[PatternAt(current_table_index)] + current_row
<1>1. IsSong(song) /\ IsFixedUp(song)
  BY SongsAssumption DEF IInv
<1>2. Param \in Byte
  BY HandleFacts
<1>3. k \in SlotRow(song)
  BY DEF Handle, RowAddress
<1>4. song.slots[k][chan] \in Effect
  BY <1>1, <1>3 DEF IsSong
<1>5. song.slots[k][chan] = [type |-> "DELAY_PATTERN", param |-> Param]
  BY <1>4 DEF Effect, Handle, Param, Slot
<1>6. Param \in ParamsOf(song, "DELAY_PATTERN")
  BY <1>2, <1>3, <1>5 DEF ParamsOf
<1>7. Param < Bytes - 1
  BY <1>1, <1>6 DEF IsFixedUp
<1>8. QED
  BY <1>2, <1>7, BytesAssumption DEF Byte

LEMMA TickRowTimeInv ==
  IInv /\ OrderInv /\ RowTimeInv /\ TickWithHistory => RowTimeInv'
<1> SUFFICES ASSUME IInv, OrderInv, RowTimeInv, TickWithHistory PROVE RowTimeInv'
  OBVIOUS
<1>1. ObserveTick /\ Tick
  BY DEF TickWithHistory
<1>2. CASE StartRow
  BY <1>1, <1>2, BytesAssumption DEF StartRow, ObserveTick, RowStarts, RowTimeInv
<1>3. CASE ContinueRow
  <2>1. current[1] # NULL
    BY <1>3 DEF ContinueRow, RowTimeInv, NewRow, TickNow
  <2>2. Elapsed(1 .. RowTicks) /\ extra_rows \in 0 .. Bytes - 2
    BY <1>3, <2>1 DEF ContinueRow, RowTimeInv
  <2>3. RowTicks \in 1 .. Bytes - 1 /\ current_tempo \in Byte
    BY BytesAssumption DEF RowTicks, IInv, TypeOK, Byte
  <2>4. /\ pc' = "effects" /\ elapsed' = elapsed /\ extra_rows' = extra_rows
        /\ current' = current /\ RowTicks' = RowTicks
    BY <1>1, <1>3 DEF ContinueRow, ObserveTick, RowStarts, RowTicks
  <2>5. CASE RowOver
    <3>1. current_tick = RowTicks
      BY <2>2, <2>3, <2>5 DEF RowOver, Elapsed, RowTicks, Byte
    <3>2. extra_rows_done \in 0 .. extra_rows /\ extra_rows_done + 1 \in Byte
      BY <2>2, BytesAssumption DEF Elapsed, Byte
    <3>3. RepeatsNow = extra_rows_done + 1
      BY <2>5, <3>2, BytesAssumption DEF RepeatsNow, Wrap, Byte
    <3>4. extra_rows_done + 1 <= extra_rows
      BY <1>3, <2>2, <2>5, <3>2, <3>3 DEF ContinueRow, NewRow, TickNow, Byte
    <3>5. current_tick' = 0 /\ extra_rows_done' = extra_rows_done + 1
      BY <1>3, <2>5, <3>3 DEF ContinueRow, TickNow
    <3>6. elapsed = (extra_rows_done + 1) * RowTicks
      BY <2>2, <2>3, <3>1, <3>2, BytesAssumption DEF Elapsed
    <3>7. Elapsed(0 .. RowTicks - 1)'
      BY <2>2, <2>3, <2>4, <3>2, <3>4, <3>5, <3>6, BytesAssumption DEF Elapsed
    <3>8. QED
      BY <2>1, <2>2, <2>4, <3>7 DEF RowTimeInv
  <2>6. CASE ~RowOver
    <3>1. current_tick' = current_tick /\ extra_rows_done' = extra_rows_done
      BY <1>3, <2>6 DEF ContinueRow, TickNow, RepeatsNow
    <3>2. current_tick \in 0 .. RowTicks - 1
      BY <2>2, <2>3, <2>6 DEF RowOver, Elapsed, RowTicks, Byte
    <3>3. Elapsed(0 .. RowTicks - 1)'
      BY <2>2, <2>4, <3>1, <3>2 DEF Elapsed
    <3>4. QED
      BY <2>1, <2>2, <2>4, <3>3 DEF RowTimeInv
  <2>7. QED
    BY <2>5, <2>6
<1>4. CASE HandleSlot
  <2>1. /\ pc = "row" /\ pc' = "row" /\ current_tick' = current_tick
        /\ extra_rows_done' = extra_rows_done /\ chan \in Channel
    BY <1>4 DEF HandleSlot, Handle, NoEffect, JumpToOrder, PatternBreak, SetTempo, RowLoop,
                PatternLoopEnd, PatternLoopStart, DelayPattern, SlotDone
  <2>2. elapsed' = elapsed
    BY <1>1, <2>1 DEF ObserveTick, RowStarts
  <2>3. extra_rows' \in 0 .. Bytes - 2
    <3>1. CASE DelayPattern
      BY <2>1, <3>1, RepeatsFit DEF DelayPattern
    <3>2. CASE ~DelayPattern
      BY <1>4, <3>2 DEF HandleSlot, NoEffect, JumpToOrder, PatternBreak, SetTempo, RowLoop,
                        PatternLoopEnd, PatternLoopStart, RowTimeInv
    <3>3. QED
      BY <3>1, <3>2
  <2>4. QED
    BY <2>1, <2>2, <2>3 DEF RowTimeInv
<1>5. CASE EndRow
  <2>1. current[1] # NULL
    <3>1. current[1] = position
      BY <1>5, NumChannelsAssumption DEF EndRow, OrderInv
    <3>2. position # NULL
      BY NullAssumption DEF IInv, TypeOK, position, TableIndex, Byte
    <3>3. QED
      BY <3>1, <3>2
  <2>2. /\ elapsed' = 0 /\ current_tick' = 0 /\ extra_rows_done' = 0 /\ pc' = "effects"
        /\ current' = current /\ extra_rows' = extra_rows /\ current_tempo' = current_tempo
    BY <1>1, <1>5 DEF EndRow, ObserveTick, RowStarts, RowTimeInv, repeatVars
  <2>3. RowTicks' \in 1 .. Bytes - 1
    BY <2>2, BytesAssumption DEF RowTicks, IInv, TypeOK, Byte
  <2>4. Elapsed(0 .. RowTicks - 1)'
    <3>1. \A n \in 1 .. Bytes - 1 : 0 * n + 0 = 0 /\ 0 \in 0 .. n - 1
      BY BytesAssumption
    <3>2. 0 * RowTicks' + 0 = 0 /\ 0 \in 0 .. RowTicks' - 1
      BY <2>3, <3>1
    <3>3. 0 \in 0 .. extra_rows'
      BY <2>2, BytesAssumption DEF RowTimeInv
    <3>4. QED
      BY <2>2, <3>2, <3>3 DEF Elapsed
  <2>5. QED
    BY <2>1, <2>2, <2>4 DEF RowTimeInv
<1>6. CASE EndTick
  <2>1. /\ current[1] # NULL /\ Elapsed(0 .. RowTicks - 1) /\ extra_rows \in 0 .. Bytes - 2
    BY <1>6 DEF EndTick, RowTimeInv
  <2>2. /\ pc' = "idle" /\ current' = current /\ extra_rows' = extra_rows
        /\ extra_rows_done' = extra_rows_done /\ RowTicks' = RowTicks
    BY <1>6 DEF EndTick, RowTicks, repeatVars
  <2>3. elapsed' = elapsed + 1
    <3>1. elapsed \in Nat /\ elapsed + 1 <= ElapsedLimit
      BY <1>6, RowIsShort DEF EndTick
    <3>2. ElapsedLimit \in Nat
      BY BytesAssumption DEF ElapsedLimit
    <3>3. Min({elapsed + 1, ElapsedLimit}) = elapsed + 1
      BY <3>1, <3>2, MaxMinOfTwo
    <3>4. QED
      BY <1>1, <1>6, <3>3 DEF EndTick, ObserveTick, RowStarts
  <2>4. RowTicks \in 1 .. Bytes - 1 /\ current_tick \in 0 .. RowTicks - 1
    BY <1>6, <2>1, RowIsShort DEF EndTick, Elapsed
  <2>5. current_tick' = current_tick + 1
    <3>1. current_tick + 1 \in Nat /\ current_tick + 1 < Bytes
      BY <2>4, BytesAssumption
    <3>2. (current_tick + 1) % Bytes = current_tick + 1
      BY <3>1, BytesAssumption
    <3>3. QED
      BY <1>6, <3>2 DEF EndTick, Wrap
  <2>6. Elapsed(1 .. RowTicks)'
    <3>1. extra_rows_done * RowTicks \in Nat
      BY <2>1, <2>4, BytesAssumption DEF Elapsed
    <3>2. QED
      BY <2>1, <2>2, <2>3, <2>4, <2>5, <3>1, BytesAssumption DEF Elapsed
  <2>7. QED
    BY <2>1, <2>2, <2>6 DEF RowTimeInv
<1>7. QED
  BY <1>1, <1>2, <1>3, <1>4, <1>5, <1>6 DEF Tick

(* A row is played for its tempo, and once more for every repeat of EEy,    *)
(* whatever tempo the effects of the row set, a tempo of 0 included.        *)
THEOREM RowsLastAsAsked == HistorySpec => RowLastsAsAsked
<1>1. InitHistory => IInv /\ OrderInv /\ RowTimeInv
  BY InitIInv, InitOrderInv, NumChannelsAssumption, BytesAssumption
  DEF InitHistory, Init, RowTimeInv, Channel
<1>2. IInv /\ OrderInv /\ RowTimeInv /\ [TickWithHistory]_allVars
        => (IInv /\ OrderInv /\ RowTimeInv)'
  <2>1. RowTimeInv /\ UNCHANGED allVars => RowTimeInv'
    BY DEF allVars, vars, history, repeatVars, RowTimeInv, Elapsed, RowTicks
  <2>2. QED
    BY <2>1, NextIInv, TickOrderInv, StutterOrderInv, TickRowTimeInv
    DEF TickWithHistory, Next, allVars
<1>3. IInv /\ RowTimeInv =>
        (RowStarts /\ current[1] # NULL =>
           elapsed = Max({current_tempo, 1}) * (extra_rows + 1))
  <2> SUFFICES ASSUME IInv, RowTimeInv, RowStarts, current[1] # NULL
               PROVE  elapsed = Max({current_tempo, 1}) * (extra_rows + 1)
    OBVIOUS
  <2>1. current_tempo \in Byte /\ extra_rows \in 0 .. Bytes - 2
    BY DEF IInv, TypeOK, RowTimeInv
  <2>2. Max({current_tempo, 1}) = RowTicks /\ RowTicks \in Nat \ {0}
    BY <2>1, MaxMinOfTwo, BytesAssumption DEF RowTicks, Byte
  <2>3. Elapsed(1 .. RowTicks)
    BY DEF RowTimeInv, RowStarts
  <2>4. current_tick = RowTicks /\ RowOver
    BY <2>1, <2>3 DEF RowStarts, NewRow, TickNow, RowOver, Elapsed, RowTicks, Byte
  <2>5. extra_rows_done = extra_rows
    <3>1. extra_rows_done \in 0 .. extra_rows /\ extra_rows_done + 1 \in Byte
      BY <2>1, <2>3, BytesAssumption DEF Elapsed, Byte
    <3>2. RepeatsNow = extra_rows_done + 1
      BY <2>4, <3>1, BytesAssumption DEF RepeatsNow, Wrap, Byte
    <3>3. QED
      BY <2>1, <3>1, <3>2 DEF RowStarts, NewRow
  <2>6. elapsed = extra_rows * RowTicks + RowTicks
    BY <2>3, <2>4, <2>5 DEF Elapsed
  <2>7. RowTicks * (extra_rows + 1) = extra_rows * RowTicks + RowTicks
    BY <2>1, <2>2, BytesAssumption
  <2>8. QED
    BY <2>2, <2>6, <2>7
<1>4. QED
  BY <1>1, <1>2, <1>3, PTL DEF HistorySpec, RowLastsAsAsked
-----------------------------------------------------------------------------
(* A song whose only jumps are loops, and in which no loop meets another:   *)
(* E6y has its E60 above it, in a row where no other loop starts; and in    *)
(* between there is neither an E60 of any channel, nor a row at which some  *)
(* other pattern has one, since this is where a pattern may be entered.     *)
RowsOf(s, p) == 0 .. s.num_rows[p] - 1
PatternSlot(s, p, r, c) == s.slots[s.rows_index[p] + r][c]
StartsLoop(s, p, r, c) ==
  PatternSlot(s, p, r, c).type = "PATTERN_LOOP" /\ PatternSlot(s, p, r, c).param = 0
EndsLoop(s, p, r, c) ==
  PatternSlot(s, p, r, c).type = "PATTERN_LOOP" /\ PatternSlot(s, p, r, c).param # 0

MarkRows(s, p) == {r \in RowsOf(s, p) : \E c \in Channel : StartsLoop(s, p, r, c)}
EntryRows(s) == {0} \union UNION {MarkRows(s, p) : p \in Patterns(s)}

IsLoop(s, p, a, b, c) ==
  /\ a \in RowsOf(s, p) /\ b \in RowsOf(s, p) /\ a < b
  /\ c \in Channel /\ StartsLoop(s, p, a, c) /\ EndsLoop(s, p, b, c)
  /\ \A r \in a + 1 .. b : r \notin EntryRows(s)

HasPlainLoops(s) ==
  /\ \A p \in Patterns(s) : EntryRows(s) \subseteq RowsOf(s, p)
  /\ \A p \in Patterns(s) : \A r \in RowsOf(s, p), c \in Channel :
       /\ PatternSlot(s, p, r, c).type \notin {"JUMP_TO_ORDER", "PATTERN_BREAK", "ROW_LOOP"}
       /\ EndsLoop(s, p, r, c) => \E a \in RowsOf(s, p) : IsLoop(s, p, a, r, c)
  /\ \A p \in Patterns(s) : \A a, b, d \in RowsOf(s, p), c, e \in Channel :
       IsLoop(s, p, a, b, c) /\ IsLoop(s, p, a, d, e) => b = d /\ c = e

LEMMA PlainFacts ==
  ASSUME NEW s \in Songs, HasPlainLoops(s), NEW i \in 0 .. s.length - 1,
         NEW p, p = s.pattern_table[i]
  PROVE  /\ p \in Patterns(s) /\ s.num_rows[p] \in 1 .. Bytes
         /\ RowsOf(s, p) \subseteq Byte /\ EntryRows(s) \subseteq RowsOf(s, p)
         /\ MarkRows(s, p) \subseteq EntryRows(s) /\ 0 \in EntryRows(s)
         /\ EntryRows(s) \subseteq Byte
<1>1. p \in Patterns(s) /\ s.num_rows[p] \in 0 .. Bytes
  BY SongFacts
<1>2. EntryRows(s) \subseteq RowsOf(s, p) /\ 0 \in EntryRows(s)
  BY <1>1 DEF HasPlainLoops, EntryRows
<1>3. RowsOf(s, p) \subseteq Byte /\ s.num_rows[p] \in 1 .. Bytes
  BY <1>1, <1>2, BytesAssumption DEF RowsOf, Byte
<1>4. MarkRows(s, p) \subseteq EntryRows(s)
  BY <1>1 DEF EntryRows
<1>5. QED
  BY <1>1, <1>2, <1>3, <1>4

-----------------------------------------------------------------------------
(* Row r of entry i is in the loop of channel c over the rows a to b.       *)
Around(s, i, r, a, b, c) == IsLoop(s, s.pattern_table[i], a, b, c) /\ r \in a .. b
Repeats(s, i, b, c) == PatternSlot(s, s.pattern_table[i], b, c).param
EntryRow(s, i) == RowsOf(s, s.pattern_table[i])

LEMMA AroundFacts ==
  ASSUME NEW s \in Songs, HasPlainLoops(s), NEW i \in 0 .. s.length - 1,
         NEW r, NEW a, NEW b, NEW c, Around(s, i, r, a, b, c)
  PROVE  /\ a \in Byte /\ b \in Byte /\ r \in Byte /\ c \in Channel
         /\ a < b /\ a <= r /\ r <= b
         /\ a \in EntryRow(s, i) /\ b \in EntryRow(s, i)
         /\ StartsLoop(s, s.pattern_table[i], a, c) /\ EndsLoop(s, s.pattern_table[i], b, c)
         /\ a \in MarkRows(s, s.pattern_table[i]) /\ a \in EntryRows(s)
         /\ Repeats(s, i, b, c) \in Byte \ {0}
         /\ \A q \in EntryRows(s) : q \in a .. b => q = a
         /\ \A q \in a .. b : Around(s, i, q, a, b, c)
<1> DEFINE p == s.pattern_table[i]
<1>1. /\ a \in RowsOf(s, p) /\ b \in RowsOf(s, p) /\ a < b /\ r \in a .. b
      /\ c \in Channel /\ StartsLoop(s, p, a, c) /\ EndsLoop(s, p, b, c)
      /\ \A q \in a + 1 .. b : q \notin EntryRows(s)
  BY DEF Around, IsLoop
<1>2. /\ p \in Patterns(s) /\ RowsOf(s, p) \subseteq Byte
      /\ MarkRows(s, p) \subseteq EntryRows(s) /\ EntryRows(s) \subseteq Byte
  BY PlainFacts
<1>3. a \in Byte /\ b \in Byte /\ r \in Byte /\ a <= r /\ r <= b
  BY <1>1, <1>2, BytesAssumption DEF Byte
<1>4. a \in MarkRows(s, p) /\ a \in EntryRows(s)
  BY <1>1, <1>2 DEF MarkRows
<1>5. Repeats(s, i, b, c) \in Byte \ {0}
  <2>1. PatternSlot(s, p, b, c) \in Effect
    <3>1. s.rows_index[p] + b \in SlotRow(s)
      BY <1>1, <1>2, PatternsAreStored DEF RowsOf
    <3>2. QED
      BY <1>1, <3>1, SongsAssumption DEF IsSong, PatternSlot
  <2>2. QED
    BY <1>1, <2>1 DEF Repeats, EndsLoop, Effect
<1>6. \A q \in EntryRows(s) : q \in a .. b => q = a
  BY <1>1, <1>3 DEF Byte
<1>7. \A q \in a .. b : Around(s, i, q, a, b, c)
  BY DEF Around
<1>8. QED
  BY <1>1, <1>3, <1>4, <1>5, <1>6, <1>7 DEF EntryRow

(* Loops do not overlap. *)
LEMMA AroundIsUnique ==
  ASSUME NEW s \in Songs, HasPlainLoops(s), NEW i \in 0 .. s.length - 1,
         NEW r, NEW a, NEW b, NEW c, Around(s, i, r, a, b, c),
         NEW d, NEW e, NEW f, Around(s, i, r, d, e, f)
  PROVE  a = d /\ b = e /\ c = f
<1>1. /\ a \in EntryRows(s) /\ d \in EntryRows(s)
      /\ a \in Byte /\ b \in Byte /\ d \in Byte /\ e \in Byte /\ r \in Byte
      /\ a <= r /\ r <= b /\ d <= r /\ r <= e
      /\ \A q \in EntryRows(s) : q \in a .. b => q = a
      /\ \A q \in EntryRows(s) : q \in d .. e => q = d
  BY AroundFacts
<1>2. a = d
  <2>1. a <= d => d \in a .. b
    BY <1>1 DEF Byte
  <2>2. d <= a => a \in d .. e
    BY <1>1 DEF Byte
  <2>3. a <= d \/ d <= a
    BY <1>1 DEF Byte
  <2>4. QED
    BY <1>1, <2>1, <2>2, <2>3
<1>3. s.pattern_table[i] \in Patterns(s)
  BY PlainFacts
<1>4. /\ IsLoop(s, s.pattern_table[i], a, b, c) /\ IsLoop(s, s.pattern_table[i], a, e, f)
      /\ a \in EntryRow(s, i) /\ b \in EntryRow(s, i) /\ e \in EntryRow(s, i)
      /\ c \in Channel /\ f \in Channel
  BY <1>2 DEF Around, IsLoop, EntryRow
<1>5. QED
  BY <1>2, <1>3, <1>4 DEF HasPlainLoops, EntryRow

-----------------------------------------------------------------------------
(* LoopPlaysBody does not keep itself: that a loop comes to its end after   *)
(* as many repeats as it was asked for is known only because, at every row, *)
(* the counter of its channel says how often each of its rows was played.   *)
(* All other counters are 0.                                                *)
Times(i, r) == played[<<i, r>>]

OnlyItsLoopCounts(i, r) ==
  \A c \in Channel :
    pattern_loop_count[c] # 0 => \E a, b \in Byte : Around(song, i, r, a, b, c)

RestIsUnplayed(i, r, from) ==
  \A q \in from .. Bytes - 1 :
    (\A a, b \in Byte, c \in Channel : Around(song, i, r, a, b, c) => q > b)
      => Times(i, q) = 0

LoopBefore(i, r, a, b, c) ==
  /\ pattern_loop_count[c] <= Repeats(song, i, b, c)
  /\ r > a => pattern_loop_origin[c] = a
  /\ \A q \in a .. r - 1 : Times(i, q) = pattern_loop_count[c] + 1
  /\ \A q \in r .. b : Times(i, q) = pattern_loop_count[c]

BeforeRow(i, r) ==
  /\ i \in TableIndex /\ r \in EntryRow(song, i)
  /\ OnlyItsLoopCounts(i, r) /\ RestIsUnplayed(i, r, r)
  /\ \A a, b \in Byte, c \in Channel :
       Around(song, i, r, a, b, c) => LoopBefore(i, r, a, b, c)

LoopInside(i, r, a, b, c) ==
  LET last == Times(i, r) = Repeats(song, i, b, c) + 1
      over == r = b /\ c < chan
  IN  /\ Times(i, r) \in 1 .. Repeats(song, i, b, c) + 1
      /\ pattern_loop_count[c] = IF over THEN IF last THEN 0 ELSE Times(i, r)
                                 ELSE Times(i, r) - 1
      /\ r > a \/ c < chan => pattern_loop_origin[c] = a
      /\ \A q \in a .. r : Times(i, q) = Times(i, r)
      /\ \A q \in r + 1 .. b : Times(i, q) = Times(i, r) - 1
      /\ position_jump <=> over /\ ~last
      /\ position_jump => jump_row = a /\ jump_dest = i

InALoop(i, r) == \E a, b \in Byte, c \in Channel : Around(song, i, r, a, b, c)
SomeCounts == \E c \in Channel : c < chan /\ pattern_loop_count[c] # 0

InsideRow(i, r) ==
  /\ i \in TableIndex /\ r \in EntryRow(song, i)
  /\ OnlyItsLoopCounts(i, r) /\ RestIsUnplayed(i, r, r + 1)
  /\ \A a, b \in Byte, c \in Channel :
       Around(song, i, r, a, b, c) => LoopInside(i, r, a, b, c)
  /\ position_jump => InALoop(i, r)
  /\ in_a_loop <=> SomeCounts

NextRow == IF position_jump THEN jump_row ELSE current_row
NextIndex == IF position_jump THEN jump_dest ELSE current_table_index

BodyInv ==
  /\ HasPlainLoops(song)
  /\ ~pattern_break /\ jump_row \in EntryRows(song)
  /\ played \in [Position -> 0 .. PlayedLimit]
  /\ IF pc = "row" THEN InsideRow(current_table_index, current_row)
     ELSE BeforeRow(NextIndex, NextRow)

LEMMA InitBodyInv == InitHistory /\ HasPlainLoops(song) => BodyInv
<1> SUFFICES ASSUME InitHistory, HasPlainLoops(song) PROVE BodyInv
  OBVIOUS
<1> USE DEF InitHistory, Init
<1>1. song \in Songs /\ 0 \in 0 .. song.length - 1 /\ 0 \in Byte
  BY SongFacts, BytesAssumption DEF Byte
<1>2. 0 \in EntryRows(song) /\ 0 \in EntryRow(song, 0)
  BY <1>1, PlainFacts DEF EntryRow
<1>3. NextIndex = 0 /\ NextRow = 0
  BY DEF NextIndex, NextRow
<1>4. \A q \in Byte : Times(0, q) = 0
  BY <1>1 DEF Times, NothingPlayed, Position, TableIndex
<1>5. played \in [Position -> 0 .. PlayedLimit]
  BY BytesAssumption DEF NothingPlayed, PlayedLimit
<1>6. ASSUME NEW a \in Byte, NEW b \in Byte, NEW c \in Channel, Around(song, 0, 0, a, b, c)
      PROVE  LoopBefore(0, 0, a, b, c)
  <2>1. a = 0 /\ b \in Byte /\ Repeats(song, 0, b, c) \in Byte
    BY <1>1, <1>6, AroundFacts DEF Byte
  <2>2. QED
    BY <1>4, <2>1, BytesAssumption DEF LoopBefore, Byte
<1>7. BeforeRow(0, 0)
  BY <1>1, <1>2, <1>4, <1>6 DEF BeforeRow, OnlyItsLoopCounts, RestIsUnplayed, TableIndex, Byte
<1>8. QED
  BY <1>2, <1>3, <1>5, <1>7 DEF BodyInv

LEMMA StartRowBodyInv ==
  ASSUME IInv, BodyInv, StartRow, ObserveTick
  PROVE  BodyInv'
<1> PICK i, r : i = NextIndex /\ r = NextRow
  OBVIOUS
<1>1. /\ song' = song /\ current_table_index' = i /\ current_row' = r
      /\ pc' = "row" /\ chan' = 1 /\ ~in_a_loop' /\ ~position_jump' /\ ~pattern_break'
      /\ pattern_loop_origin' = pattern_loop_origin
      /\ pattern_loop_count' = pattern_loop_count
      /\ jump_row' = (IF position_jump THEN 0 ELSE jump_row)
  BY DEF StartRow, BodyInv, Pending, NextIndex, NextRow, loopVars
<1>2. BeforeRow(i, r) /\ HasPlainLoops(song) /\ song \in Songs
  BY DEF BodyInv, StartRow, IInv
<1>3. i \in 0 .. song.length - 1 /\ i \in TableIndex /\ r \in Byte /\ r \in EntryRow(song, i)
  <2>1. i \in TableIndex /\ r \in EntryRow(song, i)
    BY <1>2 DEF BeforeRow
  <2>2. QED
    BY <1>2, <2>1, PlainFacts DEF EntryRow, TableIndex
<1>4. /\ played' = [played EXCEPT ![<<i, r>>] = Min({@ + 1, PlayedLimit})]
      /\ played \in [Position -> 0 .. PlayedLimit] /\ <<i, r>> \in Position
  <2>1. played' = [played EXCEPT ![<<i, r>>] = Min({@ + 1, PlayedLimit})]
    BY <1>1 DEF StartRow, ObserveTick, LeavesEntry, RowEnds, RowStarts
  <2>2. QED
    BY <1>3, <2>1 DEF BodyInv, Position
<1>5. Times(i, r) \in 0 .. PlayedLimit /\ PlayedLimit = Bytes + 1
  BY <1>4 DEF Times, PlayedLimit
<1>6. /\ \A q \in Byte : q # r => Times(i, q)' = Times(i, q)
      /\ Times(i, r)' = Min({Times(i, r) + 1, PlayedLimit})
  BY <1>3, <1>4 DEF Times, Position
<1>7. Times(i, r)' = IF Times(i, r) = PlayedLimit THEN PlayedLimit ELSE Times(i, r) + 1
  <2>1. Times(i, r) + 1 \in Nat /\ PlayedLimit \in Nat
    BY <1>5, BytesAssumption
  <2>2. Min({Times(i, r) + 1, PlayedLimit}) =
          IF Times(i, r) + 1 <= PlayedLimit THEN Times(i, r) + 1 ELSE PlayedLimit
    BY <2>1, MaxMinOfTwo
  <2>3. QED
    BY <1>5, <1>6, <2>1, <2>2, BytesAssumption
<1>8. (played \in [Position -> 0 .. PlayedLimit])'
  <2>1. Min({played[<<i, r>>] + 1, PlayedLimit}) \in 0 .. PlayedLimit
    BY <1>5, <1>6, <1>7, BytesAssumption DEF Times
  <2>2. Position' = Position /\ PlayedLimit' = PlayedLimit
    BY <1>1 DEF Position, TableIndex
  <2>3. QED
    BY <1>4, <2>1, <2>2
<1>9. ASSUME NEW a \in Byte, NEW b \in Byte, NEW c \in Channel, Around(song, i, r, a, b, c)
      PROVE  LoopInside(i, r, a, b, c)'
  <2>1. LoopBefore(i, r, a, b, c)
    BY <1>2, <1>9 DEF BeforeRow
  <2>2. /\ a \in Nat /\ b \in Nat /\ r \in Nat /\ a <= r /\ r <= b /\ b < Bytes
        /\ Repeats(song, i, b, c) \in Byte
    BY <1>2, <1>3, <1>9, AroundFacts, BytesAssumption DEF Byte
  <2>3. pattern_loop_count[c] \in Byte
    BY DEF IInv, TypeOK
  <2>4. Times(i, r) = pattern_loop_count[c] /\ Times(i, r)' = pattern_loop_count[c] + 1
    BY <1>5, <1>7, <2>1, <2>2, <2>3, BytesAssumption DEF LoopBefore, Byte
  <2>5. ASSUME NEW q \in a .. r PROVE Times(i, q)' = Times(i, r)'
    <3>1. q \in Byte /\ (q = r \/ q \in a .. r - 1)
      BY <2>2, BytesAssumption DEF Byte
    <3>2. QED
      BY <1>6, <2>1, <2>2, <2>4, <3>1 DEF LoopBefore
  <2>6. ASSUME NEW q \in r + 1 .. b PROVE Times(i, q)' = Times(i, r)' - 1
    <3>1. q \in Byte /\ q # r /\ q \in r .. b
      BY <2>2, BytesAssumption DEF Byte
    <3>2. Times(i, q)' = pattern_loop_count[c]
      BY <1>6, <2>1, <3>1 DEF LoopBefore
    <3>3. QED
      BY <2>3, <2>4, <3>2 DEF Byte
  <2>7. Times(i, r)' \in 1 .. Repeats(song, i, b, c) + 1 /\ pattern_loop_count[c] = Times(i, r)' - 1
    BY <2>1, <2>2, <2>3, <2>4 DEF LoopBefore, Byte
  <2>8. ~(c < 1)
    BY DEF Channel
  <2>9. QED
    BY <1>1, <2>1, <2>5, <2>6, <2>7, <2>8 DEF LoopInside, LoopBefore
<1>10. RestIsUnplayed(i, r, r + 1)'
  <2> SUFFICES ASSUME NEW q \in r + 1 .. Bytes - 1,
                      \A a, b \in Byte, c \in Channel : Around(song, i, r, a, b, c) => q > b
               PROVE  Times(i, q)' = 0
    BY <1>1 DEF RestIsUnplayed
  <2>1. q \in r .. Bytes - 1 /\ q \in Byte /\ q # r
    BY <1>3, BytesAssumption DEF Byte
  <2>2. Times(i, q) = 0
    BY <1>2, <2>1 DEF BeforeRow, RestIsUnplayed
  <2>3. QED
    BY <1>6, <2>1, <2>2
<1>11. InsideRow(current_table_index, current_row)'
  <2>1. OnlyItsLoopCounts(i, r)'
    BY <1>1, <1>2 DEF BeforeRow, OnlyItsLoopCounts
  <2>2. ~SomeCounts'
    BY <1>1 DEF SomeCounts, Channel
  <2>3. \A a, b \in Byte, c \in Channel :
          Around(song', i, r, a, b, c) => LoopInside(i, r, a, b, c)'
    BY <1>1, <1>9
  <2>4. InsideRow(i, r)'
    BY <1>1, <1>3, <1>10, <2>1, <2>2, <2>3 DEF InsideRow, TableIndex
  <2>5. QED
    BY <1>1, <2>4
<1>12. (jump_row \in EntryRows(song))'
  BY <1>1, <1>2, <1>3, PlainFacts DEF BodyInv
<1>13. QED
  BY <1>1, <1>2, <1>8, <1>11, <1>12 DEF BodyInv

(* The slots of the row, as HasPlainLoops has them. *)
LEMMA SlotIsPlain ==
  ASSUME IInv, BodyInv, pc = "row", chan \in Channel
  PROVE  /\ Slot(current_table_index, current_row, chan).type
              \notin {"JUMP_TO_ORDER", "PATTERN_BREAK", "ROW_LOOP"}
         /\ StartsLoop(song, PatternAt(current_table_index), current_row, chan)
              <=> Handle("PATTERN_LOOP") /\ Param = 0
         /\ EndsLoop(song, PatternAt(current_table_index), current_row, chan)
              <=> Handle("PATTERN_LOOP") /\ Param # 0
         /\ EndsLoop(song, PatternAt(current_table_index), current_row, chan)
              => \E a \in Byte :
                   Around(song, current_table_index, current_row, a, current_row, chan)
<1> DEFINE i == current_table_index
           r == current_row
           p == PatternAt(i)
<1>1. InsideRow(i, r) /\ HasPlainLoops(song) /\ song \in Songs
  BY DEF BodyInv, IInv
<1>2. i \in 0 .. song.length - 1 /\ r \in RowsOf(song, p)
  BY <1>1 DEF InsideRow, TableIndex, EntryRow, PatternAt
<1>3. p \in Patterns(song) /\ RowsOf(song, p) \subseteq Byte
  BY <1>1, <1>2, PlainFacts DEF PatternAt
<1>4. Slot(i, r, chan) = PatternSlot(song, p, r, chan)
  BY DEF Slot, PatternSlot
<1>5. /\ PatternSlot(song, p, r, chan).type \notin {"JUMP_TO_ORDER", "PATTERN_BREAK", "ROW_LOOP"}
      /\ EndsLoop(song, p, r, chan) => \E a \in RowsOf(song, p) : IsLoop(song, p, a, r, chan)
  BY <1>1, <1>2, <1>3 DEF HasPlainLoops
<1>6. \A a \in RowsOf(song, p) : IsLoop(song, p, a, r, chan) => Around(song, i, r, a, r, chan)
  <2> SUFFICES ASSUME NEW a \in RowsOf(song, p), IsLoop(song, p, a, r, chan)
               PROVE  r \in a .. r
    BY DEF Around, PatternAt
  <2>1. a \in Byte /\ r \in Byte /\ a < r
    BY <1>2, <1>3 DEF IsLoop
  <2>2. QED
    BY <2>1, BytesAssumption DEF Byte
<1>7. RowAddress \in SlotRow(song)
  BY <1>1, <1>2, <1>3, PatternsAreStored DEF RowsOf, RowAddress
<1>8. QED
  BY <1>3, <1>4, <1>5, <1>6, <1>7 DEF StartsLoop, EndsLoop, Handle, Param

LEMMA HandleSlotBodyInv ==
  ASSUME IInv, BodyInv, HandleSlot, ObserveTick
  PROVE  BodyInv'
<1> PICK i, r : i = current_table_index /\ r = current_row
  OBVIOUS
<1>1. pc = "row" /\ chan \in Channel /\ SlotDone
  BY DEF HandleSlot, Handle, NoEffect, JumpToOrder, PatternBreak, SetTempo, RowLoop,
         PatternLoopEnd, PatternLoopStart, DelayPattern
<1>2. /\ song' = song /\ current_table_index' = i /\ current_row' = r
      /\ pc' = "row" /\ chan' = chan + 1 /\ played' = played
      /\ in_a_loop' = (in_a_loop \/ pattern_loop_count'[chan] > 0)
  BY <1>1, NumChannelsAssumption
     DEF SlotDone, position, ObserveTick, LeavesEntry, RowEnds, RowStarts, Channel
<1>3. InsideRow(i, r) /\ HasPlainLoops(song) /\ song \in Songs
  BY <1>1 DEF BodyInv, IInv
<1>4. i \in 0 .. song.length - 1 /\ i \in TableIndex /\ r \in Byte /\ r \in EntryRow(song, i)
  <2>1. i \in TableIndex /\ r \in EntryRow(song, i)
    BY <1>3 DEF InsideRow
  <2>2. QED
    BY <1>3, <2>1, PlainFacts DEF EntryRow, TableIndex
<1>5. /\ pattern_loop_count \in [Channel -> Byte] /\ pattern_loop_origin \in [Channel -> Byte]
      /\ chan \in Nat /\ \A c \in Channel : c \in Nat
      /\ \A c \in Channel : c < chan + 1 <=> c < chan \/ c = chan
  BY <1>1 DEF IInv, TypeOK, Channel
<1>6. \A q : Times(i, q)' = Times(i, q)
  BY <1>2 DEF Times
<1>7. RestIsUnplayed(i, r, r + 1)'
  BY <1>2, <1>3, <1>6 DEF InsideRow, RestIsUnplayed
<1> DEFINE p == song.pattern_table[i]
           Goal == /\ \A a, b \in Byte, c \in Channel :
                        Around(song, i, r, a, b, c) => LoopInside(i, r, a, b, c)'
                   /\ position_jump' => InALoop(i, r)
                   /\ OnlyItsLoopCounts(i, r)'
                   /\ \A c \in Channel : c # chan => pattern_loop_count'[c] = pattern_loop_count[c]
                   /\ pattern_loop_count'[chan] \in Byte
                   /\ ~pattern_break' /\ jump_row' \in EntryRows(song)
<1>8. ASSUME Goal PROVE BodyInv'
  <2>1. in_a_loop' <=> SomeCounts'
    <3>1. SomeCounts' <=> SomeCounts \/ pattern_loop_count'[chan] # 0
      BY <1>1, <1>2, <1>5, <1>8 DEF SomeCounts
    <3>2. pattern_loop_count'[chan] # 0 <=> pattern_loop_count'[chan] > 0
      BY <1>8, BytesAssumption DEF Byte
    <3>3. in_a_loop <=> SomeCounts
      BY <1>3 DEF InsideRow
    <3>4. QED
      BY <1>2, <3>1, <3>2, <3>3
  <2>2. InALoop(i, r)' <=> InALoop(i, r)
    BY <1>2 DEF InALoop
  <2>3. InsideRow(i, r)'
    BY <1>2, <1>3, <1>4, <1>7, <1>8, <2>1, <2>2 DEF InsideRow, TableIndex
  <2>4. InsideRow(current_table_index, current_row)'
    BY <1>2, <2>3
  <2>5. (played \in [Position -> 0 .. PlayedLimit])'
    BY <1>2 DEF BodyInv, Position, TableIndex, PlayedLimit
  <2>6. QED
    BY <1>2, <1>3, <1>8, <2>4, <2>5 DEF BodyInv
<1>9. /\ Slot(current_table_index, current_row, chan).type
           \notin {"JUMP_TO_ORDER", "PATTERN_BREAK", "ROW_LOOP"}
      /\ StartsLoop(song, p, r, chan) <=> Handle("PATTERN_LOOP") /\ Param = 0
      /\ EndsLoop(song, p, r, chan) <=> Handle("PATTERN_LOOP") /\ Param # 0
      /\ EndsLoop(song, p, r, chan) => \E a \in Byte : Around(song, i, r, a, r, chan)
  BY <1>1, SlotIsPlain DEF PatternAt
<1>10. ASSUME NEW a \in Byte, NEW b \in Byte, NEW c \in Channel, Around(song, i, r, a, b, c)
       PROVE  /\ LoopInside(i, r, a, b, c)
              /\ a \in Nat /\ b \in Nat /\ r \in Nat /\ a < b /\ a <= r /\ r <= b
              /\ r = a => StartsLoop(song, p, r, c)
              /\ r = b => EndsLoop(song, p, r, c) /\ ~StartsLoop(song, p, r, c)
              /\ r \in EntryRows(song) => r = a
  <2>1. LoopInside(i, r, a, b, c)
    BY <1>3, <1>10 DEF InsideRow
  <2>2. /\ a \in Byte /\ b \in Byte /\ r \in Byte /\ a < b /\ a <= r /\ r <= b
        /\ StartsLoop(song, p, a, c) /\ EndsLoop(song, p, b, c)
        /\ \A q \in EntryRows(song) : q \in a .. b => q = a
    BY <1>3, <1>4, <1>10, AroundFacts
  <2>3. r \in a .. b
    BY <1>10 DEF Around
  <2>4. QED
    BY <2>1, <2>2, <2>3 DEF Byte, StartsLoop, EndsLoop
<1> HIDE DEF p
<1>11. CASE NoEffect \/ SetTempo \/ DelayPattern
  <2>1. ~Handle("PATTERN_LOOP") /\ UNCHANGED <<jumpVars, loopVars>>
    BY <1>11 DEF NoEffect, SetTempo, DelayPattern, Handle
  <2>2. /\ pattern_loop_count' = pattern_loop_count /\ pattern_loop_origin' = pattern_loop_origin
        /\ position_jump' = position_jump /\ pattern_break' = pattern_break
        /\ jump_row' = jump_row /\ jump_dest' = jump_dest
    BY <2>1 DEF jumpVars, loopVars
  <2>3. ASSUME NEW a \in Byte, NEW b \in Byte, NEW c \in Channel, Around(song, i, r, a, b, c)
        PROVE  LoopInside(i, r, a, b, c)'
    <3>1. c = chan => r # a /\ r # b
      BY <1>9, <1>10, <2>1, <2>3
    <3>2. /\ r = b /\ c < chan + 1 <=> r = b /\ c < chan
          /\ r > a \/ c < chan + 1 => r > a \/ c < chan
      BY <1>5, <1>10, <2>3, <3>1
    <3>3. QED
      BY <1>2, <1>6, <1>10, <2>2, <2>3, <3>2 DEF LoopInside
  <2>4. Goal
    BY <1>1, <1>2, <1>3, <1>5, <2>2, <2>3 DEF InsideRow, OnlyItsLoopCounts, BodyInv
  <2>5. QED
    BY <1>8, <2>4
<1>12. CASE PatternLoopStart
  <2>1. /\ Handle("PATTERN_LOOP") /\ Param = 0
        /\ pattern_loop_origin' = [pattern_loop_origin EXCEPT ![chan] = r]
        /\ jump_row' = r /\ position_jump' = position_jump /\ pattern_break' = pattern_break
        /\ jump_dest' = jump_dest /\ pattern_loop_count' = pattern_loop_count
    BY <1>12 DEF PatternLoopStart
  <2>2. StartsLoop(song, p, r, chan)
    BY <1>9, <2>1
  <2>3. r \in EntryRows(song)
    <3>1. r \in MarkRows(song, p)
      BY <1>1, <1>4, <2>2 DEF MarkRows, EntryRow, p
    <3>2. QED
      BY <1>3, <1>4, <3>1, PlainFacts DEF p
  <2>4. ASSUME NEW a \in Byte, NEW b \in Byte, NEW c \in Channel, Around(song, i, r, a, b, c)
        PROVE  LoopInside(i, r, a, b, c)'
    <3>1. r = a /\ r # b
      BY <1>10, <2>3, <2>4
    <3>2. pattern_loop_origin'[c] = IF c = chan THEN r ELSE pattern_loop_origin[c]
      BY <1>1, <1>5, <2>1
    <3>3. r > a \/ c < chan + 1 => pattern_loop_origin'[c] = a
      BY <1>5, <1>10, <2>4, <3>1, <3>2 DEF LoopInside
    <3>4. ~position_jump
      BY <1>10, <2>4, <3>1 DEF LoopInside
    <3>5. QED
      BY <1>2, <1>6, <1>10, <2>1, <2>4, <3>1, <3>3, <3>4 DEF LoopInside
  <2>5. Goal
    BY <1>1, <1>2, <1>3, <1>5, <2>1, <2>3, <2>4 DEF InsideRow, OnlyItsLoopCounts, BodyInv
  <2>6. QED
    BY <1>8, <2>5
<1>13. CASE PatternLoopEnd
  <2>1. Handle("PATTERN_LOOP") /\ Param > 0 /\ Param \in Byte
    BY <1>1, <1>13, HandleFacts DEF PatternLoopEnd
  <2>2. EndsLoop(song, p, r, chan)
    BY <1>9, <2>1, BytesAssumption DEF Byte
  <2>3. PICK a \in Byte : Around(song, i, r, a, r, chan)
    BY <1>9, <2>2
  <2>4. LoopInside(i, r, a, r, chan) /\ a \in Nat /\ r \in Nat /\ a < r
    BY <1>1, <1>4, <1>10, <2>3
  <2>5. /\ Repeats(song, i, r, chan) = Param
        /\ Times(i, r) \in 1 .. Param + 1 /\ pattern_loop_count[chan] = Times(i, r) - 1
        /\ pattern_loop_origin[chan] = a /\ ~position_jump
    <3>1. Repeats(song, i, r, chan) = Param
      BY DEF Repeats, PatternSlot, Param, Slot, PatternAt
    <3>2. ~(chan < chan)
      BY <1>5
    <3>3. QED
      BY <2>4, <3>1, <3>2 DEF LoopInside
  <2>6. /\ pattern_loop_origin' = pattern_loop_origin /\ pattern_break' = pattern_break
        /\ IF Times(i, r) = Param + 1
           THEN /\ pattern_loop_count' = [pattern_loop_count EXCEPT ![chan] = 0]
                /\ ~position_jump' /\ jump_row' = jump_row
           ELSE /\ pattern_loop_count' = [pattern_loop_count EXCEPT ![chan] = Times(i, r)]
                /\ position_jump' /\ jump_dest' = i /\ jump_row' = a
    <3>1. CASE Times(i, r) = Param + 1
      <4>1. Param = pattern_loop_count[chan]
        BY <2>1, <2>5, <3>1 DEF Byte
      <4>2. QED
        BY <1>13, <2>5, <3>1, <4>1 DEF PatternLoopEnd, LoopBack
    <3>2. CASE Times(i, r) # Param + 1
      <4>1. Param # pattern_loop_count[chan] /\ Times(i, r) \in Byte
        BY <2>1, <2>5, <3>2, BytesAssumption DEF Byte
      <4>2. Wrap(pattern_loop_count[chan] + 1) = Times(i, r)
        <5>1. pattern_loop_count[chan] + 1 = Times(i, r)
          BY <2>1, <2>5
        <5>2. QED
          BY <4>1, <5>1, BytesAssumption DEF Wrap, Byte
      <4>3. /\ ArmLoop(a)
            /\ pattern_loop_origin' = pattern_loop_origin /\ pattern_break' = pattern_break
        BY <1>13, <2>5, <4>1 DEF PatternLoopEnd, LoopBack
      <4>4. pattern_loop_count' = [pattern_loop_count EXCEPT ![chan] = Times(i, r)]
        BY <4>2, <4>3 DEF ArmLoop
      <4>5. QED
        BY <3>2, <4>3, <4>4 DEF ArmLoop
    <3>3. QED
      BY <3>1, <3>2
  <2>7. /\ pattern_loop_count'[chan] = IF Times(i, r) = Param + 1 THEN 0 ELSE Times(i, r)
        /\ \A c \in Channel : c # chan => pattern_loop_count'[c] = pattern_loop_count[c]
        /\ position_jump' <=> Times(i, r) # Param + 1
        /\ position_jump' => jump_row' = a /\ jump_dest' = i
    BY <1>1, <1>5, <2>6
  <2>8. ASSUME NEW d \in Byte, NEW e \in Byte, NEW c \in Channel, Around(song, i, r, d, e, c)
        PROVE  LoopInside(i, r, d, e, c)'
    <3>1. d = a /\ e = r /\ c = chan
      BY <1>3, <1>4, <2>3, <2>8, AroundIsUnique
    <3>2. Repeats(song', i, e, c) = Param /\ r = e /\ c < chan + 1
      BY <1>2, <1>5, <2>5, <3>1
    <3>3. Times(i, r) \in 1 .. Repeats(song', i, e, c) + 1
      BY <2>5, <3>2
    <3>4. pattern_loop_count'[c] =
            IF Times(i, r) = Repeats(song', i, e, c) + 1 THEN 0 ELSE Times(i, r)
      BY <2>7, <3>1, <3>2
    <3>5. pattern_loop_origin'[c] = d
      BY <2>5, <2>6, <3>1
    <3>6. \A q \in d .. r : Times(i, q) = Times(i, r)
      BY <2>4, <3>1 DEF LoopInside
    <3>7. \A q \in r + 1 .. e : FALSE
      BY <2>4, <3>1
    <3>8. /\ position_jump' <=> ~(Times(i, r) = Repeats(song', i, e, c) + 1)
          /\ position_jump' => jump_row' = d /\ jump_dest' = i
      BY <2>7, <3>1, <3>2
    <3>9. QED
      BY <1>2, <1>6, <3>2, <3>3, <3>4, <3>5, <3>6, <3>7, <3>8 DEF LoopInside
  <2>9. Goal
    <3>1. OnlyItsLoopCounts(i, r)'
      <4> SUFFICES ASSUME NEW c \in Channel, pattern_loop_count'[c] # 0
                   PROVE  \E d, e \in Byte : Around(song, i, r, d, e, c)
        BY <1>2 DEF OnlyItsLoopCounts
      <4>1. CASE c = chan
        BY <1>4, <2>3, <4>1
      <4>2. CASE c # chan
        BY <1>3, <2>7, <4>2 DEF InsideRow, OnlyItsLoopCounts
      <4>3. QED
        BY <4>1, <4>2
    <3>2. a \in EntryRows(song)
      BY <1>3, <1>4, <2>3, AroundFacts
    <3>3. pattern_loop_count'[chan] \in Byte
      BY <2>1, <2>5, <2>7, BytesAssumption DEF Byte
    <3>4. InALoop(i, r)
      BY <1>1, <1>4, <2>3 DEF InALoop
    <3>5. QED
      BY <2>6, <2>7, <2>8, <3>1, <3>2, <3>3, <3>4 DEF BodyInv
  <2>10. QED
    BY <1>8, <2>9
<1>14. QED
  <2>1. ~JumpToOrder /\ ~PatternBreak /\ ~RowLoop
    BY <1>9 DEF JumpToOrder, PatternBreak, RowLoop, Handle
  <2>2. QED
    BY <1>11, <1>12, <1>13, <2>1 DEF HandleSlot

(* When a pattern is over, so are its loops.                                *)
LEMMA RowIsOver ==
  ASSUME IInv, BodyInv, EndRow, NEW i, i = current_table_index, NEW r, r = current_row
  PROVE  /\ InsideRow(i, r) /\ HasPlainLoops(song) /\ song \in Songs
         /\ i \in 0 .. song.length - 1 /\ r \in Byte /\ r \in EntryRow(song, i)
         /\ \A c \in Channel : c < chan /\ c \in Nat /\ pattern_loop_count[c] \in Byte
         /\ PatternOver <=> ~position_jump /\ r + 1 = song.num_rows[song.pattern_table[i]]
         /\ ~PatternOver /\ ~position_jump => RowAfter = r + 1 /\ r + 1 \in EntryRow(song, i)
         /\ \A a, b \in Byte, c \in Channel :
              Around(song, i, r, a, b, c) /\ pattern_loop_count[c] # 0 =>
                position_jump \/ r < b
         /\ PatternOver => \A c \in Channel : pattern_loop_count[c] = 0
<1> DEFINE p == song.pattern_table[i]
<1>1. InsideRow(i, r) /\ HasPlainLoops(song) /\ song \in Songs
  BY DEF BodyInv, EndRow, IInv
<1>2. i \in 0 .. song.length - 1 /\ r \in RowsOf(song, p)
  BY <1>1 DEF InsideRow, TableIndex, EntryRow
<1>3. /\ song.num_rows[p] \in 1 .. Bytes /\ r \in Byte /\ p = PatternAt(i)
      /\ r \in 0 .. song.num_rows[p] - 1
  BY <1>1, <1>2, PlainFacts DEF PatternAt, RowsOf
<1>4. \A c \in Channel : c < chan /\ c \in Nat /\ pattern_loop_count[c] \in Byte
  BY NumChannelsAssumption DEF EndRow, Channel, IInv, TypeOK
<1>5. PatternOver <=> ~position_jump /\ r + 1 = song.num_rows[p]
  <2> HIDE DEF p
  <2>1. Wrap(r + 1) = IF r + 1 = Bytes THEN 0 ELSE r + 1
    BY <1>3, WrapBack
  <2>2. ~pattern_break
    BY DEF BodyInv
  <2>3. QED
    BY <1>3, <2>1, <2>2, BytesAssumption DEF PatternOver, RowAfter, Pending, Byte
<1>6. ~PatternOver /\ ~position_jump => RowAfter = r + 1 /\ r + 1 \in RowsOf(song, p)
  <2> HIDE DEF p
  <2>1. Wrap(r + 1) = IF r + 1 = Bytes THEN 0 ELSE r + 1
    BY <1>3, WrapBack
  <2>2. QED
    BY <1>3, <1>5, <2>1, BytesAssumption DEF RowAfter, Byte, RowsOf
<1>7. ASSUME NEW a \in Byte, NEW b \in Byte, NEW c \in Channel, Around(song, i, r, a, b, c),
             pattern_loop_count[c] # 0, ~position_jump
      PROVE  r < b
  <2>1. LoopInside(i, r, a, b, c)
    BY <1>1, <1>7 DEF InsideRow
  <2>2. r # b
    BY <1>4, <1>7, <2>1 DEF LoopInside
  <2>3. r <= b /\ r \in Nat /\ b \in Nat
    BY <1>1, <1>2, <1>3, <1>7, AroundFacts DEF Byte
  <2>4. QED
    BY <2>2, <2>3
<1>8. ASSUME PatternOver, NEW c \in Channel, pattern_loop_count[c] # 0
      PROVE  FALSE
  <2>1. PICK a \in Byte, b \in Byte : Around(song, i, r, a, b, c)
    BY <1>1, <1>8 DEF InsideRow, OnlyItsLoopCounts
  <2>2. r < b
    BY <1>5, <1>7, <1>8, <2>1
  <2>3. b \in RowsOf(song, p)
    BY <1>1, <1>2, <2>1, AroundFacts DEF EntryRow
  <2> HIDE DEF p
  <2>4. QED
    BY <1>3, <1>5, <1>8, <2>2, <2>3 DEF RowsOf
<1>9. QED
  BY <1>1, <1>2, <1>3, <1>4, <1>5, <1>6, <1>7, <1>8 DEF EntryRow

LEMMA EndRowBodyInv ==
  ASSUME IInv, BodyInv, EndRow, ObserveTick
  PROVE  BodyInv'
<1> PICK i, r : i = current_table_index /\ r = current_row
  OBVIOUS
<1> DEFINE p == song.pattern_table[i]
<1>1. /\ InsideRow(i, r) /\ HasPlainLoops(song) /\ song \in Songs
      /\ i \in 0 .. song.length - 1 /\ r \in Byte /\ r \in EntryRow(song, i)
      /\ \A c \in Channel : c < chan /\ c \in Nat /\ pattern_loop_count[c] \in Byte
      /\ PatternOver <=> ~position_jump /\ r + 1 = song.num_rows[p]
      /\ ~PatternOver /\ ~position_jump => RowAfter = r + 1 /\ r + 1 \in EntryRow(song, i)
      /\ \A a, b \in Byte, c \in Channel :
           Around(song, i, r, a, b, c) /\ pattern_loop_count[c] # 0 =>
             position_jump \/ r < b
      /\ PatternOver => \A c \in Channel : pattern_loop_count[c] = 0
  BY RowIsOver
<1> HIDE DEF p
<1>2. /\ song' = song /\ pc' = "effects" /\ position_jump' = position_jump
      /\ ~pattern_break' /\ jump_dest' = jump_dest /\ TableIndex' = TableIndex
      /\ pattern_loop_origin' = pattern_loop_origin /\ pattern_loop_count' = pattern_loop_count
      /\ i \in TableIndex
  BY <1>1 DEF EndRow, loopVars, BodyInv, TableIndex
<1>3. /\ PatternOver => /\ current_table_index' = NextEntry(i) /\ current_row' = jump_row
                        /\ jump_row' = 0 /\ played' = NothingPlayed
      /\ ~PatternOver => /\ current_table_index' = i /\ current_row' = RowAfter
                         /\ jump_row' = jump_row /\ played' = played
  BY DEF EndRow, ObserveTick, LeavesEntry, RowEnds, RowStarts
<1>4. \A a, b \in Byte, c \in Channel : Around(song, i, r, a, b, c) => LoopInside(i, r, a, b, c)
  BY <1>1 DEF InsideRow
<1>5. jump_row \in EntryRows(song) /\ 0 \in EntryRows(song) /\ EntryRows(song) \subseteq Byte
  BY <1>1, PlainFacts DEF BodyInv
<1>6. (jump_row \in EntryRows(song))' /\ (played \in [Position -> 0 .. PlayedLimit])'
  <2>1. NothingPlayed \in [Position -> 0 .. PlayedLimit]
    BY BytesAssumption DEF NothingPlayed, PlayedLimit
  <2>2. Position' = Position /\ PlayedLimit' = PlayedLimit
    BY <1>2 DEF Position
  <2>3. QED
    BY <1>2, <1>3, <1>5, <2>1, <2>2 DEF BodyInv
<1>7. SUFFICES BeforeRow(NextIndex, NextRow)'
  BY <1>1, <1>2, <1>6 DEF BodyInv
<1>8. CASE position_jump
  <2>1. PICK a \in Byte, b \in Byte, c \in Channel : Around(song, i, r, a, b, c)
    BY <1>1, <1>8 DEF InsideRow, InALoop
  <2>2. /\ LoopInside(i, r, a, b, c) /\ a \in Nat /\ b \in Nat /\ a < b
        /\ Around(song, i, a, a, b, c) /\ a \in EntryRow(song, i)
        /\ Repeats(song, i, b, c) \in Byte /\ c < chan
    <3>1. a \in a .. b
      BY <1>1, <2>1, AroundFacts DEF Byte
    <3>2. QED
      BY <1>1, <1>4, <2>1, <3>1, AroundFacts DEF Byte
  <2>3. /\ r = b /\ jump_row = a /\ jump_dest = i
        /\ Times(i, r) \in 1 .. Repeats(song, i, b, c)
        /\ pattern_loop_count[c] = Times(i, r)
        /\ \A q \in a .. b : Times(i, q) = Times(i, r)
    BY <1>8, <2>2, BytesAssumption DEF LoopInside, Byte
  <2>4. ASSUME NEW d \in Byte, NEW e \in Byte, NEW f \in Channel, Around(song, i, a, d, e, f)
        PROVE  d = a /\ e = b /\ f = c
    BY <1>1, <2>2, <2>4, AroundIsUnique
  <2>5. \A q : Times(i, q)' = Times(i, q)
    BY <1>1, <1>3, <1>8 DEF Times
  <2>6. OnlyItsLoopCounts(i, a)'
    <3>1. \A f \in Channel : pattern_loop_count[f] # 0 => f = c
      BY <1>1, <2>1, AroundIsUnique DEF InsideRow, OnlyItsLoopCounts
    <3>2. QED
      BY <1>2, <2>2, <3>1 DEF OnlyItsLoopCounts
  <2>7. RestIsUnplayed(i, a, a)'
    <3> SUFFICES ASSUME NEW q \in a .. Bytes - 1,
                        \A d, e \in Byte, f \in Channel : Around(song, i, a, d, e, f) => q > e
                 PROVE  Times(i, q) = 0
      BY <1>2, <2>5 DEF RestIsUnplayed
    <3>1. q > b /\ q \in r + 1 .. Bytes - 1
      BY <2>2, <2>3, BytesAssumption
    <3>2. \A d, e \in Byte, f \in Channel : Around(song, i, r, d, e, f) => q > e
      BY <1>1, <2>1, <3>1, AroundIsUnique
    <3>3. QED
      BY <1>1, <3>1, <3>2 DEF InsideRow, RestIsUnplayed
  <2>8. ASSUME NEW d \in Byte, NEW e \in Byte, NEW f \in Channel, Around(song, i, a, d, e, f)
        PROVE  LoopBefore(i, a, d, e, f)'
    <3>1. d = a /\ e = b /\ f = c
      BY <2>4, <2>8
    <3>2. ~(a > d) /\ \A q \in d .. a - 1 : FALSE
      BY <2>2, <3>1
    <3>3. \A q \in a .. e : Times(i, q)' = pattern_loop_count'[f]
      BY <1>2, <2>3, <2>5, <3>1
    <3>4. pattern_loop_count'[f] <= Repeats(song', i, e, f)
      BY <1>2, <2>2, <2>3, <3>1 DEF Byte
    <3>5. QED
      BY <3>2, <3>3, <3>4 DEF LoopBefore
  <2>9. BeforeRow(i, a)'
    BY <1>2, <2>2, <2>6, <2>7, <2>8 DEF BeforeRow
  <2>10. NextIndex' = i /\ NextRow' = a
    BY <1>1, <1>2, <1>3, <1>8, <2>3 DEF NextIndex, NextRow
  <2>11. QED
    BY <2>9, <2>10
<1>9. CASE PatternOver
  <2>1. PICK j, q : j = NextEntry(i) /\ q = jump_row
    OBVIOUS
  <2>2. NextIndex' = j /\ NextRow' = q
    BY <1>1, <1>2, <1>3, <1>9, <2>1 DEF NextIndex, NextRow
  <2>3. j \in TableIndex /\ j \in 0 .. song.length - 1
    BY <1>1, <1>2, <2>1, NextEntryFacts DEF TableIndex
  <2>4. q \in EntryRows(song) /\ q \in EntryRow(song, j) /\ q \in Byte
    BY <1>1, <1>5, <2>1, <2>3, PlainFacts DEF EntryRow
  <2>5. \A c \in Channel : pattern_loop_count'[c] = 0
    BY <1>1, <1>2, <1>9
  <2>6. \A k \in Byte : Times(j, k)' = 0
    BY <1>3, <1>9, <2>3 DEF Times, NothingPlayed, Position
  <2>7. ASSUME NEW d \in Byte, NEW e \in Byte, NEW f \in Channel, Around(song, j, q, d, e, f)
        PROVE  LoopBefore(j, q, d, e, f)'
    <3>1. q = d /\ q \in Nat /\ e \in Nat /\ e < Bytes
      <4>1. q \in d .. e
        BY <2>7 DEF Around
      <4>2. QED
        BY <1>1, <2>3, <2>4, <2>7, <4>1, AroundFacts, BytesAssumption DEF Byte
    <3>2. ~(q > d) /\ \A k \in d .. q - 1 : FALSE
      BY <3>1
    <3>3. \A k \in q .. e : k \in Byte
      BY <3>1, BytesAssumption DEF Byte
    <3>4. Repeats(song', j, e, f) \in Byte
      BY <1>1, <1>2, <2>3, <2>7, AroundFacts
    <3>5. QED
      BY <2>5, <2>6, <3>2, <3>3, <3>4, BytesAssumption DEF LoopBefore, Byte
  <2>8. OnlyItsLoopCounts(j, q)' /\ RestIsUnplayed(j, q, q)'
    <3>1. q .. Bytes - 1 \subseteq Byte
      BY <2>4, BytesAssumption DEF Byte
    <3>2. QED
      BY <2>5, <2>6, <3>1 DEF OnlyItsLoopCounts, RestIsUnplayed
  <2>9. BeforeRow(j, q)'
    BY <1>2, <2>3, <2>4, <2>7, <2>8 DEF BeforeRow
  <2>10. QED
    BY <2>2, <2>9
<1>10. CASE ~position_jump /\ ~PatternOver
  <2>1. /\ NextIndex' = i /\ NextRow' = r + 1 /\ r + 1 \in EntryRow(song, i)
        /\ r \in Nat /\ \A q : Times(i, q)' = Times(i, q)
    BY <1>1, <1>2, <1>3, <1>10 DEF NextIndex, NextRow, Times, Byte
  <2>2. r + 1 \in Byte
    BY <1>1, <2>1, PlainFacts DEF EntryRow
  <2>3. ASSUME NEW a \in Byte, NEW b \in Byte, NEW c \in Channel, Around(song, i, r, a, b, c), r < b
        PROVE  Around(song, i, r + 1, a, b, c)
    BY <1>1, <2>1, <2>3, AroundFacts DEF Around, Byte
  <2>4. ASSUME NEW a \in Byte, NEW b \in Byte, NEW c \in Channel, Around(song, i, r + 1, a, b, c)
        PROVE  /\ a \in Nat /\ b \in Nat /\ a <= r + 1 /\ r + 1 <= b
               /\ a <= r => Around(song, i, r, a, b, c)
               /\ a = r + 1 =>
                    \A d, e \in Byte, f \in Channel : Around(song, i, r, d, e, f) => e <= r
    <3>1. a \in Nat /\ b \in Nat /\ a <= r + 1 /\ r + 1 <= b
      BY <1>1, <2>4, AroundFacts DEF Byte
    <3>2. ASSUME a <= r PROVE Around(song, i, r, a, b, c)
      <4>1. r \in a .. b
        BY <2>1, <3>1, <3>2
      <4>2. QED
        BY <1>1, <2>4, <4>1, AroundFacts
    <3>3. ASSUME a = r + 1, NEW d \in Byte, NEW e \in Byte, NEW f \in Channel,
                 Around(song, i, r, d, e, f), ~(e <= r)
          PROVE  FALSE
      <4>1. e \in Nat /\ d \in Nat /\ d <= r
        BY <1>1, <3>3, AroundFacts DEF Byte
      <4>2. Around(song, i, r + 1, d, e, f)
        BY <2>1, <2>3, <3>3, <4>1
      <4>3. d = a
        BY <1>1, <2>4, <4>2, AroundIsUnique
      <4>4. QED
        BY <2>1, <3>3, <4>1, <4>3
    <3>4. QED
      BY <3>1, <3>2, <3>3
  <2>5. OnlyItsLoopCounts(i, r + 1)'
    <3> SUFFICES ASSUME NEW c \in Channel, pattern_loop_count[c] # 0
                 PROVE  \E a, b \in Byte : Around(song, i, r + 1, a, b, c)
      BY <1>2 DEF OnlyItsLoopCounts
    <3>1. PICK a \in Byte, b \in Byte : Around(song, i, r, a, b, c)
      BY <1>1 DEF InsideRow, OnlyItsLoopCounts
    <3>2. r < b
      BY <1>1, <1>10, <3>1
    <3>3. QED
      BY <2>3, <3>1, <3>2
  <2>6. RestIsUnplayed(i, r + 1, r + 1)'
    <3> SUFFICES ASSUME NEW q \in r + 1 .. Bytes - 1,
                        \A d, e \in Byte, f \in Channel : Around(song, i, r + 1, d, e, f) => q > e
                 PROVE  Times(i, q) = 0
      BY <1>2, <2>1 DEF RestIsUnplayed
    <3>1. ASSUME NEW d \in Byte, NEW e \in Byte, NEW f \in Channel, Around(song, i, r, d, e, f)
          PROVE  q > e
      <4>1. e \in Nat /\ q \in Nat /\ q >= r + 1
        BY <2>1, BytesAssumption DEF Byte
      <4>2. r < e => q > e
        BY <2>3, <3>1
      <4>3. QED
        BY <2>1, <4>1, <4>2
    <3>2. QED
      BY <1>1, <3>1 DEF InsideRow, RestIsUnplayed
  <2>7. ASSUME NEW a \in Byte, NEW b \in Byte, NEW c \in Channel, Around(song, i, r + 1, a, b, c)
        PROVE  LoopBefore(i, r + 1, a, b, c)'
    <3>1. a \in Nat /\ b \in Nat /\ a <= r + 1 /\ r + 1 <= b
      BY <2>4, <2>7
    <3>2. /\ pattern_loop_count'[c] = pattern_loop_count[c]
          /\ pattern_loop_origin'[c] = pattern_loop_origin[c]
          /\ pattern_loop_count[c] \in Nat
          /\ Repeats(song', i, b, c) = Repeats(song, i, b, c)
          /\ Repeats(song, i, b, c) \in Nat
      BY <1>1, <1>2, <2>7, AroundFacts DEF Byte
    <3>3. CASE a <= r
      <4>1. LoopInside(i, r, a, b, c)
        BY <1>4, <2>4, <2>7, <3>3
      <4>2. /\ Times(i, r) \in 1 .. Repeats(song, i, b, c) + 1
            /\ pattern_loop_count[c] = Times(i, r) - 1 /\ pattern_loop_origin[c] = a
            /\ \A q \in a .. r : Times(i, q) = Times(i, r)
            /\ \A q \in r + 1 .. b : Times(i, q) = Times(i, r) - 1
        <5>1. r # b /\ (r > a \/ c < chan)
          BY <1>1, <2>1, <3>1, <3>3
        <5>2. QED
          BY <4>1, <5>1 DEF LoopInside
      <4>3. Times(i, r) = pattern_loop_count[c] + 1
            /\ pattern_loop_count[c] <= Repeats(song, i, b, c)
        BY <3>2, <4>2
      <4>4. \A q \in a .. (r + 1) - 1 : Times(i, q) = pattern_loop_count[c] + 1
        BY <2>1, <4>2, <4>3
      <4>5. \A q \in r + 1 .. b : Times(i, q) = pattern_loop_count[c]
        BY <3>2, <4>2
      <4>6. QED
        BY <2>1, <3>2, <4>2, <4>3, <4>4, <4>5 DEF LoopBefore
    <3>4. CASE a = r + 1
      <4>1. \A d, e \in Byte, f \in Channel : Around(song, i, r, d, e, f) => e <= r
        BY <2>4, <2>7, <3>4
      <4>2. pattern_loop_count[c] = 0
        <5> SUFFICES ASSUME pattern_loop_count[c] # 0 PROVE FALSE
          OBVIOUS
        <5>1. PICK d \in Byte, e \in Byte : Around(song, i, r, d, e, c)
          BY <1>1 DEF InsideRow, OnlyItsLoopCounts
        <5>2. r < e /\ e <= r /\ e \in Nat
          BY <1>1, <1>10, <4>1, <5>1 DEF Byte
        <5>3. QED
          BY <2>1, <5>2
      <4>3. ASSUME NEW q \in r + 1 .. b PROVE Times(i, q) = 0
        <5>1. q \in r + 1 .. Bytes - 1
          BY <2>1, <4>3, BytesAssumption DEF Byte
        <5>2. \A d, e \in Byte, f \in Channel : Around(song, i, r, d, e, f) => q > e
          BY <2>1, <4>1, <4>3 DEF Byte
        <5>3. QED
          BY <1>1, <5>1, <5>2 DEF InsideRow, RestIsUnplayed
      <4>4. ~(r + 1 > a) /\ \A q \in a .. (r + 1) - 1 : FALSE
        BY <2>1, <3>4
      <4>5. QED
        BY <2>1, <3>2, <4>2, <4>3, <4>4 DEF LoopBefore
    <3>5. QED
      BY <2>1, <3>1, <3>3, <3>4
  <2>8. BeforeRow(i, r + 1)'
    BY <1>2, <2>1, <2>5, <2>6, <2>7 DEF BeforeRow
  <2>9. QED
    BY <2>1, <2>8
<1>11. QED
  BY <1>8, <1>9, <1>10

LEMMA TickBodyInv ==
  ASSUME IInv, BodyInv, TickWithHistory
  PROVE  BodyInv'
<1>1. CASE ContinueRow \/ EndTick
  <2>1. /\ song' = song /\ pc # "row" /\ pc' # "row" /\ played' = played
        /\ UNCHANGED <<current_table_index, current_row, position_jump, pattern_break,
                       jump_dest, jump_row, pattern_loop_origin, pattern_loop_count>>
    BY <1>1 DEF ContinueRow, EndTick, TickWithHistory, ObserveTick, LeavesEntry, RowEnds,
                RowStarts, position, jumpVars, loopVars
  <2>2. PICK i, r : i = NextIndex /\ r = NextRow
    OBVIOUS
  <2>3. BeforeRow(i, r) /\ NextIndex' = i /\ NextRow' = r
    BY <2>1, <2>2 DEF BodyInv, NextIndex, NextRow
  <2>4. BeforeRow(i, r)'
    BY <2>1, <2>3 DEF BeforeRow, OnlyItsLoopCounts, RestIsUnplayed, LoopBefore, Times, TableIndex
  <2>5. (played \in [Position -> 0 .. PlayedLimit])'
    BY <2>1 DEF BodyInv, Position, TableIndex, PlayedLimit
  <2>6. QED
    BY <2>1, <2>3, <2>4, <2>5 DEF BodyInv
<1>2. QED
  BY <1>1, StartRowBodyInv, HandleSlotBodyInv, EndRowBodyInv DEF TickWithHistory, Tick

LEMMA StutterBodyInv ==
  ASSUME BodyInv, UNCHANGED allVars
  PROVE  BodyInv'
<1> PICK i, r : i = current_table_index /\ r = current_row
  OBVIOUS
<1> PICK j, q : j = NextIndex /\ q = NextRow
  OBVIOUS
<1> USE DEF allVars, vars, position, jumpVars, loopVars, rowVars, history
<1>1. /\ NextIndex' = j /\ NextRow' = q /\ current_table_index' = i /\ current_row' = r
      /\ played' = played /\ song' = song
  BY DEF NextIndex, NextRow
<1>2. pc = "row" => InsideRow(i, r)'
  BY DEF BodyInv, InsideRow, OnlyItsLoopCounts, RestIsUnplayed, LoopInside, Times, TableIndex,
         InALoop, SomeCounts
<1>3. pc # "row" => BeforeRow(j, q)'
  BY DEF BodyInv, BeforeRow, OnlyItsLoopCounts, RestIsUnplayed, LoopBefore, Times, TableIndex
<1>4. (played \in [Position -> 0 .. PlayedLimit])'
  BY <1>1 DEF BodyInv, Position, TableIndex, PlayedLimit
<1>5. QED
  BY <1>1, <1>2, <1>3, <1>4 DEF BodyInv

LEMMA LoopEndPlaysBody ==
  ASSUME IInv, BodyInv, PatternLoopEnd, pattern_loop_count'[chan] = 0
  PROVE  LET times(row) == played[<<current_table_index, row>>]
         IN  /\ times(current_row) = Param + 1
             /\ \A row \in pattern_loop_origin[chan] .. current_row :
                  times(row) \in {Param, Param + 1}
<1> PICK i, r : i = current_table_index /\ r = current_row
  OBVIOUS
<1>1. /\ pc = "row" /\ chan \in Channel /\ Handle("PATTERN_LOOP") /\ Param > 0 /\ Param \in Byte
      /\ song \in Songs /\ HasPlainLoops(song) /\ InsideRow(i, r)
      /\ pattern_loop_count \in [Channel -> Byte] /\ chan \in Nat
  BY HandleFacts DEF PatternLoopEnd, Handle, BodyInv, IInv, TypeOK, Channel
<1>2. PICK a \in Byte : Around(song, i, r, a, r, chan)
  BY <1>1, SlotIsPlain, BytesAssumption DEF Byte
<1>3. LoopInside(i, r, a, r, chan) /\ ~(chan < chan) /\ a < r
  <2>1. r \in Byte
    <3>1. i \in 0 .. song.length - 1
      BY <1>1 DEF InsideRow, TableIndex
    <3>2. QED
      BY <1>1, <1>2, <3>1, AroundFacts
  <2>2. QED
    BY <1>1, <1>2, <2>1 DEF InsideRow, Around, IsLoop
<1>4. Repeats(song, i, r, chan) = Param
  BY DEF Repeats, PatternSlot, Param, Slot, PatternAt
<1>5. /\ Times(i, r) \in 1 .. Param + 1 /\ pattern_loop_count[chan] = Times(i, r) - 1
      /\ pattern_loop_origin[chan] = a /\ \A q \in a .. r : Times(i, q) = Times(i, r)
  BY <1>3, <1>4 DEF LoopInside
<1>6. Times(i, r) = Param + 1
  <2> SUFFICES ASSUME Times(i, r) # Param + 1 PROVE FALSE
    OBVIOUS
  <2>1. Param # pattern_loop_count[chan] /\ Times(i, r) \in Byte \ {0}
    BY <1>1, <1>5, BytesAssumption DEF Byte
  <2>2. Wrap(pattern_loop_count[chan] + 1) = Times(i, r)
    <3>1. pattern_loop_count[chan] + 1 = Times(i, r)
      BY <1>1, <1>5
    <3>2. QED
      BY <2>1, <3>1, BytesAssumption DEF Wrap, Byte
  <2>3. pattern_loop_count'[chan] = Times(i, r)
    BY <1>1, <2>1, <2>2 DEF PatternLoopEnd, LoopBack, ArmLoop
  <2>4. QED
    BY <2>1, <2>3
<1>7. QED
  BY <1>5, <1>6 DEF Times

(* When a loop E6y is over, all of its rows were played y + 1 times, in a   *)
(* song whose only jumps are loops that do not meet.                        *)
THEOREM BodiesArePlayed == HistorySpec /\ HasPlainLoops(song) => LoopPlaysBody
<1>1. InitHistory /\ HasPlainLoops(song) => IInv /\ BodyInv
  BY InitIInv, InitBodyInv DEF InitHistory
<1>2. IInv /\ BodyInv /\ [TickWithHistory]_allVars => (IInv /\ BodyInv)'
  BY NextIInv, TickBodyInv, StutterBodyInv DEF TickWithHistory, Next, allVars
<1>3. IInv /\ BodyInv /\ [TickWithHistory]_allVars =>
        [PatternLoopEnd /\ pattern_loop_count'[chan] = 0 =>
           LET times(row) == played[<<current_table_index, row>>]
           IN  /\ times(current_row) = Param + 1
               /\ \A row \in pattern_loop_origin[chan] .. current_row :
                    times(row) \in {Param, Param + 1}]_allVars
  BY LoopEndPlaysBody
<1>4. QED
  BY <1>1, <1>2, <1>3, PTL DEF HistorySpec, LoopPlaysBody

-----------------------------------------------------------------------------
(* Row x is the last one with an E60 among the rows f to r - 1 of pattern p, *)
(* or 0 if there is none: where the next pattern starts, once p was played  *)
(* from row f up to its end.                                                *)
IsLastMark(s, p, f, r, x) ==
  /\ x = 0 \/ (x \in MarkRows(s, p) /\ x \in f .. r - 1)
  /\ \A m \in MarkRows(s, p) : m \in f .. r - 1 => m <= x

IsNextStart(s, i, f, x) ==
  IsLastMark(s, s.pattern_table[i], f, s.num_rows[s.pattern_table[i]], x)

(* The row each entry starts at, in the first pass through the song and in  *)
(* the later ones; all the later ones are the same.                         *)
SettlesAs(s, first, later) ==
  LET end == s.length - 1
  IN  /\ first[0] = 0
      /\ \A i \in 0 .. end - 1 : IsNextStart(s, i, first[i], first[i + 1])
      /\ \A i \in s.restart_position .. end - 1 : IsNextStart(s, i, later[i], later[i + 1])
      /\ IsNextStart(s, end, first[end], later[s.restart_position])
      /\ IsNextStart(s, end, later[end], later[s.restart_position])

EntryStarts(s) == [0 .. s.length - 1 -> Byte]
StartsSettle(s) == \E first, later \in EntryStarts(s) : SettlesAs(s, first, later)

LEMMA LastMarkIsUnique ==
  ASSUME NEW s, NEW p, NEW f, NEW r, NEW x \in Byte, NEW y \in Byte,
         IsLastMark(s, p, f, r, x), IsLastMark(s, p, f, r, y)
  PROVE  x = y
<1>1. x \in Nat /\ y \in Nat
  BY BytesAssumption DEF Byte
<1>2. x <= y
  BY <1>1 DEF IsLastMark
<1>3. y <= x
  BY <1>1 DEF IsLastMark
<1>4. QED
  BY <1>1, <1>2, <1>3

-----------------------------------------------------------------------------
(* How often the rows of the song were counted when n passes through it are *)
(* over, the rows of entry i from front on are yet to come, and the pass is *)
(* not the first one if again holds.                                        *)
After(n) == Wrap(n + 1)
Before(n) == Wrap(n + Bytes - 1)

Done(q, i, front) == q[1] < i \/ (q[1] = i /\ q[2] < front)
Skipped(first, q) == q[2] < first[q[1]]
ComesAgain(s, later, q) ==
  /\ q[1] >= s.restart_position
  /\ q[2] >= later[q[1]] /\ q[2] \in EntryRow(s, q[1])

CountsFit(s, count, n, first, later, again, i, front) ==
  \A q \in (0 .. s.length - 1) \X Byte :
    /\ Done(q, i, front) /\ ComesAgain(s, later, q) =>
         count[q] = IF Skipped(first, q) THEN n ELSE After(n)
    /\ ~Done(q, i, front) /\ again /\ ComesAgain(s, later, q) =>
         count[q] = IF Skipped(first, q) THEN Before(n) ELSE n
    /\ ~Done(q, i, front) /\ ~again => count[q] = 0

StartOf(first, later, again, i) == IF again THEN later[i] ELSE first[i]

LEMMA BeforeAfter ==
  ASSUME NEW n \in Byte
  PROVE  After(n) \in Byte /\ Before(n) \in Byte /\ Before(After(n)) = n /\ After(Before(n)) = n
<1>1. After(n) \in Byte /\ Before(n) \in Byte
  BY WrapFacts, BytesAssumption DEF After, Before, Byte
<1>2. Before(After(n)) = n
  BY WrapBack DEF After, Before
<1>3. After(Before(n)) = n
  <2>1. \A k \in Byte : Wrap(k) = k /\ Wrap(k + Bytes) = k
    BY BytesAssumption DEF Wrap, Byte
  <2>2. CASE n = 0
    <3>1. /\ n + Bytes - 1 = Bytes - 1 /\ Bytes - 1 \in Byte
          /\ (Bytes - 1) + 1 = 0 + Bytes /\ 0 \in Byte
      BY <2>2, BytesAssumption DEF Byte
    <3>2. QED
      BY <2>1, <2>2, <3>1 DEF After, Before
  <2>3. CASE n # 0
    <3>1. n - 1 \in Byte /\ n + Bytes - 1 = (n - 1) + Bytes /\ (n - 1) + 1 = n
      BY <2>3, BytesAssumption DEF Byte
    <3>2. QED
      BY <2>1, <3>1 DEF After, Before
  <2>4. QED
    BY <2>2, <2>3
<1>4. QED
  BY <1>1, <1>2, <1>3

(* Row r of entry i is played outside of a loop.                            *)
LEMMA CountRow ==
  ASSUME NEW s \in Songs,
         NEW first \in EntryStarts(s), NEW later \in EntryStarts(s), NEW again \in BOOLEAN,
         NEW n \in Byte, ~again => n = 0,
         NEW count \in [(0 .. s.length - 1) \X Byte -> Byte],
         NEW i \in 0 .. s.length - 1, NEW r \in EntryRow(s, i), r \in Byte,
         StartOf(first, later, again, i) <= r, again => i >= s.restart_position,
         CountsFit(s, count, n, first, later, again, i, r),
         NEW next, next[<<i, r>>] = After(count[<<i, r>>]),
         \A q \in (0 .. s.length - 1) \X Byte : q # <<i, r>> => next[q] = count[q]
  PROVE  /\ CountsFit(s, next, n, first, later, again, i, r + 1)
         /\ count[<<i, r>>] = IF r < first[i] THEN Before(n) ELSE n
<1> DEFINE w == <<i, r>>
<1>1. w \in (0 .. s.length - 1) \X Byte /\ w[1] = i /\ w[2] = r /\ i \in Nat /\ r \in Nat
  BY DEF Byte
<1>2. ~Done(w, i, r)
  BY <1>1 DEF Done
<1>3. again => ComesAgain(s, later, w)
  <2>1. later[i] \in Byte
    BY DEF EntryStarts
  <2>2. again => r >= later[i]
    BY <2>1, <1>1 DEF StartOf, Byte
  <2>3. QED
    BY <1>1, <2>2 DEF ComesAgain
<1>4. count[w] = IF Skipped(first, w) THEN Before(n) ELSE n
  <2>1. CASE again
    BY <1>1, <1>2, <1>3, <2>1 DEF CountsFit
  <2>2. CASE ~again
    <3>1. first[i] \in Byte /\ first[i] <= r
      BY <2>2 DEF StartOf, EntryStarts
    <3>2. ~Skipped(first, w)
      BY <1>1, <3>1 DEF Skipped, Byte
    <3>3. count[w] = 0
      BY <1>1, <1>2, <2>2 DEF CountsFit
    <3>4. QED
      BY <2>2, <3>2, <3>3
  <2>3. QED
    BY <2>1, <2>2
<1>5. next[w] = IF Skipped(first, w) THEN n ELSE After(n)
  <2>1. next[w] = After(count[w])
    OBVIOUS
  <2>2. QED
    BY <1>4, <2>1, BeforeAfter
<1>6. \A q \in (0 .. s.length - 1) \X Byte :
        q # w => next[q] = count[q] /\ (Done(q, i, r + 1) <=> Done(q, i, r))
  <2> SUFFICES ASSUME NEW q \in (0 .. s.length - 1) \X Byte, q # w
               PROVE  next[q] = count[q] /\ (Done(q, i, r + 1) <=> Done(q, i, r))
    OBVIOUS
  <2>1. q = <<q[1], q[2]>> /\ q[1] \in 0 .. s.length - 1 /\ q[2] \in Byte
    OBVIOUS
  <2>2. q[1] # i \/ q[2] # r
    BY <2>1
  <2>3. q[2] \in Nat
    BY <2>1 DEF Byte
  <2>4. QED
    BY <1>1, <2>2, <2>3 DEF Done
<1>7. Done(w, i, r + 1)
  BY <1>1 DEF Done
<1> HIDE DEF w
<1>8. CountsFit(s, next, n, first, later, again, i, r + 1)
  <2> SUFFICES ASSUME NEW q \in (0 .. s.length - 1) \X Byte
               PROVE  /\ Done(q, i, r + 1) /\ ComesAgain(s, later, q) =>
                           next[q] = IF Skipped(first, q) THEN n ELSE After(n)
                      /\ ~Done(q, i, r + 1) /\ again /\ ComesAgain(s, later, q) =>
                           next[q] = IF Skipped(first, q) THEN Before(n) ELSE n
                      /\ ~Done(q, i, r + 1) /\ ~again => next[q] = 0
    BY DEF CountsFit
  <2>1. CASE q = w
    BY <1>5, <1>7, <2>1
  <2>2. CASE q # w
    BY <1>6, <2>2 DEF CountsFit
  <2>3. QED
    BY <2>1, <2>2
<1>9. count[w] = IF r < first[i] THEN Before(n) ELSE n
  BY <1>1, <1>4 DEF Skipped
<1>10. QED
  BY <1>8, <1>9 DEF w

(* The next entry of the pass starts at a later row than its first one.     *)
LEMMA EnterEntry ==
  ASSUME NEW s \in Songs, HasPlainLoops(s),
         NEW first \in EntryStarts(s), NEW later \in EntryStarts(s),
         NEW again \in BOOLEAN, NEW n, ~again => n = 0, NEW count,
         NEW i \in 0 .. s.length - 1, i + 1 < s.length,
         CountsFit(s, count, n, first, later, again, i, s.num_rows[s.pattern_table[i]])
  PROVE  CountsFit(s, count, n, first, later, again, i + 1, StartOf(first, later, again, i + 1))
<1> DEFINE p == s.pattern_table[i]
           f == StartOf(first, later, again, i + 1)
<1>1. s.num_rows[p] \in 1 .. Bytes /\ i \in Nat /\ i + 1 \in 0 .. s.length - 1 /\ f \in Byte
  <2>1. s.num_rows[p] \in 1 .. Bytes
    BY PlainFacts
  <2>2. i \in Nat /\ i + 1 \in 0 .. s.length - 1
    BY SongFacts, BytesAssumption
  <2>3. f \in Byte
    BY <2>2 DEF EntryStarts, StartOf
  <2>4. QED
    BY <2>1, <2>2, <2>3
<1> SUFFICES ASSUME NEW q \in (0 .. s.length - 1) \X Byte
             PROVE  /\ Done(q, i + 1, f) /\ ComesAgain(s, later, q) =>
                         count[q] = IF Skipped(first, q) THEN n ELSE After(n)
                    /\ ~Done(q, i + 1, f) /\ again /\ ComesAgain(s, later, q) =>
                         count[q] = IF Skipped(first, q) THEN Before(n) ELSE n
                    /\ ~Done(q, i + 1, f) /\ ~again => count[q] = 0
  BY DEF CountsFit
<1> HIDE DEF f
<1>2. q[1] \in Nat /\ q[2] \in Nat /\ first[q[1]] \in Nat /\ later[q[1]] \in Nat /\ f \in Nat
  BY <1>1 DEF EntryStarts, Byte
<1>3. CASE q[1] = i + 1 /\ q[2] < f
  <2>1. ~Done(q, i, s.num_rows[p]) /\ Done(q, i + 1, f)
    BY <1>1, <1>2, <1>3 DEF Done
  <2>2. again => ~ComesAgain(s, later, q)
    BY <1>2, <1>3 DEF ComesAgain, StartOf, f
  <2>3. ~again => Skipped(first, q) /\ n = 0
    BY <1>3 DEF Skipped, StartOf, f
  <2>4. QED
    BY <2>1, <2>2, <2>3 DEF CountsFit
<1>4. CASE q[1] = i /\ ~(q[2] < s.num_rows[p])
  <2>1. ~ComesAgain(s, later, q) /\ Done(q, i + 1, f)
    BY <1>1, <1>2, <1>4 DEF ComesAgain, Done, EntryRow, RowsOf
  <2>2. QED
    BY <2>1
<1>5. CASE ~(q[1] = i + 1 /\ q[2] < f) /\ ~(q[1] = i /\ ~(q[2] < s.num_rows[p]))
  <2>1. Done(q, i + 1, f) <=> Done(q, i, s.num_rows[p])
    BY <1>1, <1>2, <1>5 DEF Done
  <2>2. QED
    BY <2>1 DEF CountsFit
<1>6. QED
  BY <1>3, <1>4, <1>5

(* The last entry is over: all rows of the pass are done.                   *)
LEMMA EnterPass ==
  ASSUME NEW s \in Songs, HasPlainLoops(s),
         NEW first \in EntryStarts(s), NEW later \in EntryStarts(s),
         NEW again \in BOOLEAN, NEW n \in Byte, NEW count,
         NEW i, i = s.length - 1,
         CountsFit(s, count, n, first, later, again, i, s.num_rows[s.pattern_table[i]])
  PROVE  CountsFit(s, count, After(n), first, later, TRUE, s.restart_position,
                   later[s.restart_position])
<1> DEFINE p == s.pattern_table[i]
           k == s.restart_position
<1>1. i \in 0 .. s.length - 1 /\ i \in Nat /\ k \in 0 .. s.length - 1 /\ k \in Nat
  BY SongFacts, BytesAssumption
<1>2. s.num_rows[p] \in 1 .. Bytes
  BY <1>1, PlainFacts
<1> SUFFICES ASSUME NEW q \in (0 .. s.length - 1) \X Byte, ComesAgain(s, later, q)
             PROVE  /\ ~Done(q, k, later[k])
                    /\ count[q] = IF Skipped(first, q) THEN Before(After(n)) ELSE After(n)
  BY DEF CountsFit
<1>3. /\ q[1] \in 0 .. s.length - 1 /\ q[1] \in Nat /\ q[2] \in Nat
      /\ q[1] >= k /\ q[2] >= later[q[1]] /\ q[2] \in EntryRow(s, q[1])
      /\ later[k] \in Nat /\ s.length \in Nat
  BY <1>1, SongFacts, BytesAssumption DEF EntryStarts, Byte, ComesAgain
<1>4. ~Done(q, k, later[k])
  BY <1>1, <1>3 DEF Done
<1>5. Done(q, i, s.num_rows[p])
  <2>1. q[1] < i \/ q[1] = i
    BY <1>1, <1>3
  <2>2. q[1] = i => q[2] < s.num_rows[p]
    BY <1>2, <1>3, BytesAssumption DEF EntryRow, RowsOf
  <2>3. QED
    BY <2>1, <2>2 DEF Done
<1>6. count[q] = IF Skipped(first, q) THEN n ELSE After(n)
  BY <1>5 DEF CountsFit
<1>7. QED
  BY <1>4, <1>6, BeforeAfter

-----------------------------------------------------------------------------
(* While a loop is repeated, all of it but its last row is counted, and so  *)
(* is everything above; else the row to be played is the next to count.     *)
FrontIs(i, r, repeated, x) ==
  IF repeated THEN \A a, b \in Byte, c \in Channel : Around(song, i, r, a, b, c) => x = b
  ELSE x = r

PassFits(first, later, again, i, r, repeated) ==
  /\ StartOf(first, later, again, i) \in EntryRows(song)
  /\ StartOf(first, later, again, i) <= r
  /\ again => i >= song.restart_position
  /\ \E x \in Byte : /\ FrontIs(i, r, repeated, x)
                     /\ CountsFit(song, row_loop_count, passes, first, later, again, i, x)

(* jump_row is where the next pattern starts.                               *)
MarkFits(f, i, r) ==
  r \notin MarkRows(song, song.pattern_table[i]) =>
    IsLastMark(song, song.pattern_table[i], f, r, jump_row)

PassBefore(first, later, again, i, r) ==
  /\ IF \E c \in Channel : pattern_loop_count[c] # 0
     THEN PassFits(first, later, again, i, r, TRUE)
     ELSE PassFits(first, later, again, i, r, FALSE)
  /\ MarkFits(StartOf(first, later, again, i), i, r)
  /\ position_jump => r \in MarkRows(song, song.pattern_table[i])

PassInside(first, later, again, i, r) ==
  /\ IF Times(i, r) > 1 /\ InALoop(i, r)
     THEN PassFits(first, later, again, i, r, TRUE)
     ELSE PassFits(first, later, again, i, r, FALSE)
  /\ ~position_jump => MarkFits(StartOf(first, later, again, i), i, r)
  /\ \A c \in Channel :
       c < chan /\ StartsLoop(song, song.pattern_table[i], r, c) => jump_row = r

PassIs(first, later, again) ==
  /\ passes \in Byte /\ (~again => passes = 0) /\ LoopCountIsPasses
  /\ IF pc = "row" THEN PassInside(first, later, again, current_table_index, current_row)
     ELSE PassBefore(first, later, again, NextIndex, NextRow)

PassInv ==
  \E first, later \in EntryStarts(song), again \in BOOLEAN :
    SettlesAs(song, first, later) /\ PassIs(first, later, again)

LEMMA InitPassInv == InitHistory /\ HasPlainLoops(song) /\ StartsSettle(song) => PassInv
<1> SUFFICES ASSUME InitHistory, HasPlainLoops(song), StartsSettle(song) PROVE PassInv
  OBVIOUS
<1> USE DEF InitHistory, Init
<1>1. PICK first \in EntryStarts(song), later \in EntryStarts(song) : SettlesAs(song, first, later)
  BY DEF StartsSettle
<1>2. song \in Songs /\ 0 \in 0 .. song.length - 1 /\ 0 \in Byte /\ first[0] = 0
  BY <1>1, SongFacts, BytesAssumption DEF SettlesAs, Byte
<1>3. NextIndex = 0 /\ NextRow = 0 /\ StartOf(first, later, FALSE, 0) = 0
  BY <1>2 DEF NextIndex, NextRow, StartOf
<1>4. 0 \in EntryRows(song)
  BY DEF EntryRows
<1>5. CountsFit(song, row_loop_count, passes, first, later, FALSE, 0, 0)
  <2> SUFFICES ASSUME NEW q \in (0 .. song.length - 1) \X Byte
               PROVE  ~Done(q, 0, 0) /\ row_loop_count[q] = 0
    BY DEF CountsFit
  <2>1. q[1] \in Nat /\ q[2] \in Nat
    BY BytesAssumption DEF Byte
  <2>2. QED
    BY <2>1 DEF Done, Position, TableIndex
<1>6. MarkFits(0, 0, 0)
  BY DEF MarkFits, IsLastMark
<1>7. PassBefore(first, later, FALSE, 0, 0)
  <2>1. FrontIs(0, 0, FALSE, 0)
    BY DEF FrontIs
  <2>2. PassFits(first, later, FALSE, 0, 0, FALSE)
    <3>1. 0 <= 0
      OBVIOUS
    <3> HIDE DEF InitHistory, Init
    <3>2. QED
      BY <1>2, <1>3, <1>4, <1>5, <2>1, <3>1 DEF PassFits
  <2>3. \A c \in Channel : pattern_loop_count[c] = 0
    OBVIOUS
  <2>4. QED
    BY <1>3, <1>6, <2>2, <2>3 DEF PassBefore
<1>8. PassIs(first, later, FALSE)
  BY <1>2, <1>3, <1>7 DEF PassIs, LoopCountIsPasses
<1>9. QED
  BY <1>1, <1>8 DEF PassInv

LEMMA StartRowPassIs ==
  ASSUME IInv, BodyInv, BodyInv', StartRow, ObserveTick,
         NEW first, NEW later, NEW again \in BOOLEAN, PassIs(first, later, again)
  PROVE  PassIs(first, later, again)'
<1> PICK i, r : i = NextIndex /\ r = NextRow
  OBVIOUS
<1>1. /\ song' = song /\ current_table_index' = i /\ current_row' = r
      /\ pc' = "row" /\ chan' = 1 /\ ~position_jump'
      /\ pattern_loop_count' = pattern_loop_count /\ row_loop_count' = row_loop_count
      /\ loop_count' = loop_count /\ passes' = passes
      /\ jump_row' = (IF position_jump THEN 0 ELSE jump_row)
  BY DEF StartRow, BodyInv, Pending, NextIndex, NextRow, loopVars, countVars, ObserveTick,
         LeavesSong, LeavesEntry, RowEnds
<1>2. BeforeRow(i, r) /\ InsideRow(i, r)' /\ PassBefore(first, later, again, i, r)
  <2>1. BeforeRow(i, r) /\ PassBefore(first, later, again, i, r)
    BY DEF BodyInv, PassIs, StartRow
  <2>2. InsideRow(current_table_index, current_row)'
    BY <1>1 DEF BodyInv
  <2>3. QED
    BY <1>1, <2>1, <2>2
<1>3. (Times(i, r)' > 1 /\ InALoop(i, r)) <=> \E c \in Channel : pattern_loop_count[c] # 0
  <2>1. ASSUME NEW a \in Byte, NEW b \in Byte, NEW c \in Channel, Around(song, i, r, a, b, c)
        PROVE  pattern_loop_count[c] # 0 <=> Times(i, r)' > 1
    <3>1. LoopInside(i, r, a, b, c)'
      BY <1>1, <1>2, <2>1 DEF InsideRow
    <3>2. ~(c < 1)
      BY DEF Channel
    <3>3. /\ Times(i, r)' \in 1 .. Repeats(song, i, b, c) + 1
          /\ pattern_loop_count[c] = Times(i, r)' - 1
      BY <1>1, <3>1, <3>2 DEF LoopInside
    <3>4. QED
      BY <3>3
  <2>2. QED
    BY <1>2, <2>1 DEF BeforeRow, OnlyItsLoopCounts, InALoop
<1>4. ASSUME NEW repeated \in BOOLEAN, PassFits(first, later, again, i, r, repeated)
      PROVE  PassFits(first, later, again, i, r, repeated)'
  BY <1>1, <1>4 DEF PassFits, FrontIs
<1>5. MarkFits(StartOf(first, later, again, i), i, r)'
  BY <1>1, <1>2 DEF PassBefore, MarkFits
<1>6. \A c \in Channel : ~(c < 1)
  BY DEF Channel
<1>7. InALoop(i, r)' <=> InALoop(i, r)
  BY <1>1 DEF InALoop
<1>8. PassInside(first, later, again, i, r)'
  BY <1>1, <1>2, <1>3, <1>4, <1>5, <1>6, <1>7 DEF PassBefore, PassInside
<1>9. QED
  BY <1>1, <1>8 DEF PassIs, LoopCountIsPasses

LEMMA HandleSlotPassIs ==
  ASSUME IInv, BodyInv, HandleSlot, ObserveTick,
         NEW first, NEW later, NEW again \in BOOLEAN, PassIs(first, later, again)
  PROVE  PassIs(first, later, again)'
<1> PICK i, r : i = current_table_index /\ r = current_row
  OBVIOUS
<1>1. pc = "row" /\ chan \in Channel /\ SlotDone
  BY DEF HandleSlot, Handle, NoEffect, JumpToOrder, PatternBreak, SetTempo, RowLoop,
         PatternLoopEnd, PatternLoopStart, DelayPattern
<1>2. /\ song' = song /\ current_table_index' = i /\ current_row' = r
      /\ pc' = "row" /\ chan' = chan + 1 /\ played' = played
      /\ passes' = passes /\ loop_count' = loop_count /\ row_loop_count' = row_loop_count
  BY <1>1, NumChannelsAssumption
     DEF SlotDone, position, countVars, ObserveTick, LeavesSong, LeavesEntry, RowEnds, RowStarts,
         Channel
<1>3. /\ InsideRow(i, r) /\ PassInside(first, later, again, i, r)
      /\ song \in Songs /\ HasPlainLoops(song)
  BY <1>1 DEF BodyInv, PassIs, IInv
<1>4. /\ chan \in Nat /\ \A c \in Channel : c < chan + 1 <=> c < chan \/ c = chan
      /\ i \in 0 .. song.length - 1
  BY <1>1, <1>3 DEF Channel, InsideRow, TableIndex
<1> DEFINE p == song.pattern_table[i]
<1>5. /\ Slot(current_table_index, current_row, chan).type
           \notin {"JUMP_TO_ORDER", "PATTERN_BREAK", "ROW_LOOP"}
      /\ StartsLoop(song, p, r, chan) <=> Handle("PATTERN_LOOP") /\ Param = 0
      /\ EndsLoop(song, p, r, chan) <=> Handle("PATTERN_LOOP") /\ Param # 0
      /\ EndsLoop(song, p, r, chan) => \E a \in Byte : Around(song, i, r, a, r, chan)
  BY <1>1, SlotIsPlain DEF PatternAt
<1> HIDE DEF p
<1>6. SUFFICES /\ ~position_jump' => MarkFits(StartOf(first, later, again, i), i, r)'
               /\ \A c \in Channel : c < chan + 1 /\ StartsLoop(song, p, r, c) => jump_row' = r
  <2>1. ASSUME NEW repeated \in BOOLEAN, PassFits(first, later, again, i, r, repeated)
        PROVE  PassFits(first, later, again, i, r, repeated)'
    BY <1>2, <2>1 DEF PassFits, FrontIs
  <2>2. InALoop(i, r)' <=> InALoop(i, r)
    BY <1>2 DEF InALoop
  <2>3. Times(i, r)' = Times(i, r)
    BY <1>2 DEF Times
  <2>4. PassInside(first, later, again, i, r)'
    BY <1>2, <1>3, <1>6, <2>1, <2>2, <2>3 DEF PassInside, p
  <2>5. QED
    BY <1>2, <2>4 DEF PassIs, LoopCountIsPasses
<1>7. CASE PatternLoopStart
  <2>1. Handle("PATTERN_LOOP") /\ Param = 0 /\ jump_row' = r
    BY <1>7 DEF PatternLoopStart
  <2>2. r \in MarkRows(song, p)
    BY <1>1, <1>3, <1>5, <2>1 DEF MarkRows, InsideRow, EntryRow, p
  <2>3. QED
    BY <1>2, <2>1, <2>2 DEF MarkFits, p
<1>8. CASE ~PatternLoopStart
  <2>1. \/ (position_jump' <=> position_jump) /\ jump_row' = jump_row
        \/ position_jump' /\ EndsLoop(song, p, r, chan)
    <3>1. CASE NoEffect \/ SetTempo \/ DelayPattern
      BY <3>1 DEF NoEffect, SetTempo, DelayPattern, jumpVars
    <3>2. CASE PatternLoopEnd
      <4>1. Param \in Byte
        BY <1>1, <3>2, HandleFacts DEF PatternLoopEnd
      <4>2. EndsLoop(song, p, r, chan)
        BY <1>5, <3>2, <4>1, BytesAssumption DEF PatternLoopEnd, Byte
      <4>3. position_jump' \/ ((position_jump' <=> position_jump) /\ jump_row' = jump_row)
        BY <3>2 DEF PatternLoopEnd, LoopBack, ArmLoop
      <4>4. QED
        BY <4>2, <4>3
    <3>3. QED
      BY <1>5, <1>8, <3>1, <3>2 DEF HandleSlot, JumpToOrder, PatternBreak, RowLoop, Handle
  <2>2. ~StartsLoop(song, p, r, chan)
    BY <1>5, <1>8 DEF HandleSlot, PatternLoopStart, NoEffect, SetTempo, DelayPattern,
         PatternLoopEnd, JumpToOrder, PatternBreak, RowLoop, Handle, Param
  <2>3. ASSUME EndsLoop(song, p, r, chan), NEW c \in Channel, StartsLoop(song, p, r, c) PROVE FALSE
    <3>1. PICK a \in Byte : Around(song, i, r, a, r, chan)
      BY <1>5, <2>3
    <3>2. r \in EntryRow(song, i) /\ r \in EntryRows(song)
      <4>1. r \in EntryRow(song, i)
        BY <1>3 DEF InsideRow
      <4>2. r \in MarkRows(song, p)
        BY <2>3, <4>1 DEF MarkRows, EntryRow, p
      <4>3. QED
        BY <1>3, <1>4, <4>1, <4>2, PlainFacts DEF p
    <3>3. a < r /\ r \in a .. r /\ \A q \in EntryRows(song) : q \in a .. r => q = a
      BY <1>3, <1>4, <3>1, AroundFacts DEF Around
    <3>4. r = a /\ a \in Nat
      BY <3>2, <3>3, BytesAssumption DEF Byte
    <3>5. QED
      BY <3>3, <3>4
  <2>4. QED
    BY <1>2, <1>3, <1>4, <2>1, <2>2, <2>3 DEF PassInside, MarkFits, p
<1>9. QED
  BY <1>7, <1>8

(* What there is to say of the end of a row but for where it leads.         *)
CountedRow(first, later, again, i, r) ==
  LET f == StartOf(first, later, again, i)
      p == song.pattern_table[i]
  IN  /\ f \in EntryRows(song) /\ f \in Byte /\ f <= r
      /\ again => i >= song.restart_position
      /\ in_a_loop <=> \E c \in Channel : pattern_loop_count[c] # 0
      /\ ~position_jump => IsLastMark(song, p, f, r + 1, jump_row)
      /\ in_a_loop =>
           /\ loop_count' = loop_count /\ row_loop_count' = row_loop_count
           /\ InALoop(i, r)
           /\ \E x \in Byte : /\ FrontIs(i, r, TRUE, x)
                              /\ CountsFit(song, row_loop_count, passes, first, later,
                                           again, i, x)
      /\ ~in_a_loop =>
           /\ loop_count' = IF r < first[i] THEN Before(passes) ELSE passes
           /\ CountsFit(song, row_loop_count', passes, first, later, again, i, r + 1)

LEMMA RowIsCounted ==
  ASSUME IInv, BodyInv, EndRow, NEW i, i = current_table_index, NEW r, r = current_row,
         NEW first \in EntryStarts(song), NEW later \in EntryStarts(song), NEW again \in BOOLEAN,
         PassIs(first, later, again)
  PROVE  CountedRow(first, later, again, i, r)
<1> DEFINE f == StartOf(first, later, again, i)
           p == song.pattern_table[i]
<1>1. /\ InsideRow(i, r) /\ song \in Songs /\ HasPlainLoops(song)
      /\ i \in 0 .. song.length - 1 /\ r \in Byte /\ r \in EntryRow(song, i)
      /\ \A c \in Channel : c < chan /\ c \in Nat /\ pattern_loop_count[c] \in Byte
  BY RowIsOver
<1>2. PassInside(first, later, again, i, r) /\ passes \in Byte /\ (~again => passes = 0)
  BY DEF PassIs, EndRow
<1>3. in_a_loop <=> \E c \in Channel : pattern_loop_count[c] # 0
  BY <1>1 DEF InsideRow, SomeCounts
<1>4. f \in EntryRows(song) /\ f \in Byte /\ f <= r /\ (again => i >= song.restart_position)
  <2>1. f \in EntryRows(song) /\ f <= r /\ (again => i >= song.restart_position)
    BY <1>2 DEF PassInside, PassFits
  <2>2. QED
    BY <1>1, <2>1, PlainFacts
<1>5. ASSUME ~position_jump PROVE IsLastMark(song, p, f, r + 1, jump_row)
  <2>1. MarkFits(f, i, r) /\ f \in Nat /\ r \in Nat /\ f \in f .. r /\ r \in f .. r
        /\ (r + 1) - 1 = r
    BY <1>1, <1>2, <1>4, <1>5 DEF PassInside, Byte
  <2>2. \A m \in MarkRows(song, p) : m \in Nat
    BY <1>1, PlainFacts DEF Byte
  <2>3. CASE r \in MarkRows(song, p)
    <3>1. jump_row = r
      BY <1>1, <1>2, <2>3 DEF PassInside, MarkRows
    <3>2. \A m \in f .. r : m <= r
      BY <2>1
    <3>3. QED
      BY <2>1, <2>3, <3>1, <3>2 DEF IsLastMark
  <2>4. CASE r \notin MarkRows(song, p)
    <3>1. IsLastMark(song, p, f, r, jump_row)
      BY <2>1, <2>4 DEF MarkFits
    <3>2. \A m \in MarkRows(song, p) : m \in f .. r => m \in f .. r - 1
      BY <2>1, <2>4
    <3>3. f .. r - 1 \subseteq f .. r
      BY <2>1
    <3>4. QED
      BY <2>1, <3>1, <3>2, <3>3 DEF IsLastMark
  <2>5. QED
    BY <2>3, <2>4
<1>6. ASSUME NEW a \in Byte, NEW b \in Byte, NEW c \in Channel, Around(song, i, r, a, b, c)
      PROVE  /\ Times(i, r) \in Nat /\ Times(i, r) >= 1
             /\ r # b => pattern_loop_count[c] = Times(i, r) - 1
             /\ r = b => pattern_loop_count[c] = 0 \/ pattern_loop_count[c] = Times(i, r)
  <2>1. LoopInside(i, r, a, b, c) /\ c < chan
    BY <1>1, <1>6 DEF InsideRow
  <2>2. Repeats(song, i, b, c) \in Byte
    BY <1>1, <1>6, AroundFacts
  <2>3. Times(i, r) \in Nat /\ Times(i, r) >= 1
    BY <2>1, <2>2 DEF LoopInside, Byte
  <2>4. QED
    BY <2>1, <2>3 DEF LoopInside
<1>7. ASSUME in_a_loop
      PROVE  /\ loop_count' = loop_count /\ row_loop_count' = row_loop_count
             /\ InALoop(i, r)
             /\ \E x \in Byte : /\ FrontIs(i, r, TRUE, x)
                                /\ CountsFit(song, row_loop_count, passes, first, later,
                                             again, i, x)
  <2>1. loop_count' = loop_count /\ row_loop_count' = row_loop_count
    BY <1>7 DEF EndRow, countVars
  <2>2. PICK a \in Byte, b \in Byte, c \in Channel :
          Around(song, i, r, a, b, c) /\ pattern_loop_count[c] # 0
    BY <1>1, <1>3, <1>7 DEF InsideRow, OnlyItsLoopCounts
  <2>3. InALoop(i, r)
    BY <2>2 DEF InALoop
  <2>4. \E x \in Byte : /\ FrontIs(i, r, TRUE, x)
                        /\ CountsFit(song, row_loop_count, passes, first, later, again, i, x)
    <3>1. CASE Times(i, r) > 1
      BY <1>2, <2>3, <3>1 DEF PassInside, PassFits
    <3>2. CASE ~(Times(i, r) > 1)
      <4>1. r = b
        BY <1>6, <2>2, <3>2
      <4>2. \A d, e \in Byte, g \in Channel : Around(song, i, r, d, e, g) => e = b
        BY <1>1, <2>2, AroundIsUnique
      <4>3. CountsFit(song, row_loop_count, passes, first, later, again, i, r)
        BY <1>2, <3>2 DEF PassInside, PassFits, FrontIs
      <4>4. QED
        BY <1>1, <4>1, <4>2, <4>3 DEF FrontIs
    <3>3. QED
      BY <3>1, <3>2
  <2>5. QED
    BY <2>1, <2>3, <2>4
<1>8. ASSUME ~in_a_loop
      PROVE  /\ loop_count' = IF r < first[i] THEN Before(passes) ELSE passes
             /\ CountsFit(song, row_loop_count', passes, first, later, again, i, r + 1)
  <2>1. /\ loop_count' = row_loop_count[<<i, r>>]
        /\ row_loop_count' = [row_loop_count EXCEPT ![<<i, r>>] = Wrap(@ + 1)]
    BY <1>8 DEF EndRow, position
  <2>2. CountsFit(song, row_loop_count, passes, first, later, again, i, r)
    <3>1. CASE Times(i, r) > 1 /\ InALoop(i, r)
      <4>1. PICK a \in Byte, b \in Byte, c \in Channel : Around(song, i, r, a, b, c)
        BY <3>1 DEF InALoop
      <4>2. r = b
        BY <1>3, <1>6, <1>8, <3>1, <4>1
      <4>3. QED
        BY <1>2, <3>1, <4>1, <4>2 DEF PassInside, PassFits, FrontIs
    <3>2. CASE ~(Times(i, r) > 1 /\ InALoop(i, r))
      BY <1>2, <3>2 DEF PassInside, PassFits, FrontIs
    <3>3. QED
      BY <3>1, <3>2
  <2>3. row_loop_count \in [(0 .. song.length - 1) \X Byte -> Byte]
    BY DEF IInv, TypeOK, Position, TableIndex
  <2>4. f <= r /\ (again => i >= song.restart_position) /\ passes \in Byte /\ (~again => passes = 0)
    BY <1>2, <1>4
  <2>5. PICK s, count, next, n :
          s = song /\ count = row_loop_count /\ next = row_loop_count' /\ n = passes
    OBVIOUS
  <2>6. /\ s \in Songs /\ n \in Byte /\ (~again => n = 0)
        /\ first \in EntryStarts(s) /\ later \in EntryStarts(s)
        /\ count \in [(0 .. s.length - 1) \X Byte -> Byte]
        /\ i \in 0 .. s.length - 1 /\ r \in EntryRow(s, i) /\ r \in Byte
        /\ again => i >= s.restart_position
    BY <1>1, <2>3, <2>4, <2>5
  <2>7. /\ StartOf(first, later, again, i) <= r
        /\ CountsFit(s, count, n, first, later, again, i, r)
        /\ next[<<i, r>>] = After(count[<<i, r>>])
        /\ \A q \in (0 .. s.length - 1) \X Byte : q # <<i, r>> => next[q] = count[q]
    <3>1. <<i, r>> \in (0 .. s.length - 1) \X Byte
      BY <2>6
    <3>2. next = [count EXCEPT ![<<i, r>>] = Wrap(@ + 1)]
      BY <2>1, <2>5
    <3>3. StartOf(first, later, again, i) <= r /\ CountsFit(s, count, n, first, later, again, i, r)
      BY <2>2, <2>4, <2>5
    <3>4. QED
      BY <2>6, <3>1, <3>2, <3>3 DEF After
  <2> HIDE DEF p, f
  <2>8. /\ CountsFit(s, next, n, first, later, again, i, r + 1)
        /\ count[<<i, r>>] = IF r < first[i] THEN Before(n) ELSE n
    BY <2>6, <2>7, CountRow
  <2>9. QED
    BY <2>1, <2>5, <2>8
<1>9. QED
  BY <1>3, <1>4, <1>5, <1>7, <1>8 DEF CountedRow

LEMMA EndRowPassIs ==
  ASSUME IInv, BodyInv, EndRow, ObserveTick,
         NEW first \in EntryStarts(song), NEW later \in EntryStarts(song), NEW again \in BOOLEAN,
         SettlesAs(song, first, later), PassIs(first, later, again)
  PROVE  \E n \in BOOLEAN : PassIs(first, later, n)'
<1> PICK i, r : i = current_table_index /\ r = current_row
  OBVIOUS
<1> DEFINE p == song.pattern_table[i]
           f == StartOf(first, later, again, i)
<1>1. /\ InsideRow(i, r) /\ HasPlainLoops(song) /\ song \in Songs
      /\ i \in 0 .. song.length - 1 /\ r \in Byte /\ r \in EntryRow(song, i)
      /\ \A c \in Channel : c < chan /\ c \in Nat /\ pattern_loop_count[c] \in Byte
      /\ PatternOver <=> ~position_jump /\ r + 1 = song.num_rows[p]
      /\ ~PatternOver /\ ~position_jump => RowAfter = r + 1 /\ r + 1 \in EntryRow(song, i)
      /\ \A a, b \in Byte, c \in Channel :
           Around(song, i, r, a, b, c) /\ pattern_loop_count[c] # 0 =>
             position_jump \/ r < b
      /\ PatternOver => \A c \in Channel : pattern_loop_count[c] = 0
  BY RowIsOver
<1>2. /\ f \in EntryRows(song) /\ f \in Byte /\ f <= r /\ (again => i >= song.restart_position)
      /\ in_a_loop <=> \E c \in Channel : pattern_loop_count[c] # 0
      /\ ~position_jump => IsLastMark(song, p, f, r + 1, jump_row)
      /\ in_a_loop =>
           /\ loop_count' = loop_count /\ row_loop_count' = row_loop_count
           /\ InALoop(i, r)
           /\ \E x \in Byte : /\ FrontIs(i, r, TRUE, x)
                              /\ CountsFit(song, row_loop_count, passes, first, later, again, i, x)
      /\ ~in_a_loop =>
           /\ loop_count' = IF r < first[i] THEN Before(passes) ELSE passes
           /\ CountsFit(song, row_loop_count', passes, first, later, again, i, r + 1)
  <2>1. CountedRow(first, later, again, i, r)
    BY RowIsCounted
  <2>2. QED
    BY <2>1 DEF CountedRow
<1> HIDE DEF p, f
<1>3. /\ song' = song /\ pc' = "effects" /\ (position_jump' <=> position_jump)
      /\ jump_dest' = jump_dest /\ pattern_loop_count' = pattern_loop_count
      /\ passes' = (IF LeavesSong THEN After(passes) ELSE passes)
      /\ LeavesSong <=> PatternOver /\ i + 1 >= song.length
  BY DEF EndRow, loopVars, ObserveTick, LeavesSong, LeavesEntry, RowEnds, After
<1>4. /\ PatternOver => /\ current_table_index' = NextEntry(i) /\ current_row' = jump_row
                        /\ jump_row' = 0
      /\ ~PatternOver => /\ current_table_index' = i /\ current_row' = RowAfter
                         /\ jump_row' = jump_row
  BY DEF EndRow
<1>5. passes \in Byte /\ (~again => passes = 0) /\ LoopCountIsPasses
  BY DEF PassIs
<1>6. loop_count' \in {passes, Before(passes)}
  BY <1>2, <1>5 DEF LoopCountIsPasses, Before
<1>7. CASE position_jump
  <2>1. PICK a \in Byte, b \in Byte, c \in Channel : Around(song, i, r, a, b, c)
    BY <1>1, <1>7 DEF InsideRow, InALoop
  <2>2. /\ LoopInside(i, r, a, b, c) /\ a \in Nat /\ b \in Nat /\ a < b /\ a <= r /\ r <= b
        /\ Around(song, i, a, a, b, c) /\ a \in MarkRows(song, p) /\ a \in EntryRow(song, i)
        /\ \A q \in EntryRows(song) : q \in a .. b => q = a
    <3>1. a \in a .. b
      BY <1>1, <2>1, AroundFacts DEF Byte
    <3>2. QED
      BY <1>1, <2>1, <3>1, AroundFacts DEF InsideRow, Byte, p
  <2>3. jump_row = a /\ jump_dest = i /\ r = b /\ pattern_loop_count[c] # 0
    BY <1>7, <2>2 DEF LoopInside
  <2>4. f <= a
    <3>1. f \in Nat /\ f <= b
      BY <1>2, <2>3 DEF Byte
    <3>2. f >= a => f = a
      BY <1>2, <2>2, <3>1
    <3>3. QED
      BY <2>2, <3>1, <3>2
  <2>5. NextIndex' = i /\ NextRow' = a
    BY <1>1, <1>3, <1>4, <1>7, <2>3 DEF NextIndex, NextRow
  <2>6. in_a_loop
    BY <1>2, <2>3
  <2>7. PICK x \in Byte : /\ FrontIs(i, r, TRUE, x)
                          /\ CountsFit(song, row_loop_count, passes, first, later, again, i, x)
    BY <1>2, <2>6
  <2>8. FrontIs(i, a, TRUE, x)
    <3>1. x = b
      BY <2>1, <2>7 DEF FrontIs
    <3>2. \A d, e \in Byte, g \in Channel : Around(song, i, a, d, e, g) => e = b
      BY <1>1, <2>2, AroundIsUnique
    <3>3. QED
      BY <3>1, <3>2 DEF FrontIs
  <2>9. passes' = passes /\ row_loop_count' = row_loop_count
    BY <1>1, <1>2, <1>3, <1>7, <2>6
  <2>10. PassFits(first, later, again, i, a, TRUE)'
    BY <1>2, <1>3, <2>4, <2>7, <2>8, <2>9 DEF PassFits, FrontIs, f
  <2>11. PassBefore(first, later, again, i, a)'
    BY <1>3, <2>2, <2>3, <2>10 DEF PassBefore, MarkFits, p
  <2>12. PassIs(first, later, again)'
    BY <1>3, <1>5, <1>6, <2>5, <2>9, <2>11 DEF PassIs, LoopCountIsPasses, Before
  <2>13. QED
    BY <2>12
<1>8. CASE ~position_jump /\ ~PatternOver
  <2>1. /\ NextIndex' = i /\ NextRow' = r + 1 /\ r + 1 \in EntryRow(song, i)
        /\ r \in Nat /\ f \in Nat /\ f <= r + 1 /\ r + 1 \in Byte
        /\ passes' = passes /\ jump_row' = jump_row
    <3>1. r + 1 \in EntryRow(song, i) /\ r \in Nat /\ f \in Nat
      BY <1>1, <1>2, <1>8 DEF Byte
    <3>2. r + 1 \in Byte
      BY <1>1, <3>1, PlainFacts DEF EntryRow
    <3>3. NextIndex' = i /\ NextRow' = r + 1
      BY <1>1, <1>3, <1>4, <1>8 DEF NextIndex, NextRow
    <3>4. QED
      BY <1>2, <1>3, <1>4, <1>8, <3>1, <3>2, <3>3
  <2>2. MarkFits(f, i, r + 1)'
    BY <1>2, <1>3, <1>8, <2>1 DEF MarkFits, p
  <2>3. CASE in_a_loop
    <3>1. PICK x \in Byte : /\ FrontIs(i, r, TRUE, x)
                            /\ CountsFit(song, row_loop_count, passes, first, later, again, i, x)
      BY <1>2, <2>3
    <3>2. PICK a \in Byte, b \in Byte, c \in Channel :
            Around(song, i, r, a, b, c) /\ pattern_loop_count[c] # 0
      BY <1>1, <1>2, <2>3 DEF InsideRow, OnlyItsLoopCounts
    <3>3. x = b /\ r < b
      BY <1>1, <1>8, <3>1, <3>2 DEF FrontIs
    <3>4. Around(song, i, r + 1, a, b, c)
      <4>1. r + 1 \in a .. b
        BY <1>1, <2>1, <3>2, <3>3, AroundFacts DEF Byte
      <4>2. QED
        BY <1>1, <3>2, <4>1, AroundFacts
    <3>5. FrontIs(i, r + 1, TRUE, x)
      BY <1>1, <2>1, <3>3, <3>4, AroundIsUnique DEF FrontIs
    <3>6. PassFits(first, later, again, i, r + 1, TRUE)'
      BY <1>2, <1>3, <2>1, <2>3, <3>1, <3>5 DEF PassFits, FrontIs, f
    <3>7. PassBefore(first, later, again, i, r + 1)'
      BY <1>3, <1>8, <2>2, <3>2, <3>6 DEF PassBefore, f
    <3>8. PassIs(first, later, again)'
      BY <1>3, <1>5, <1>6, <2>1, <3>7 DEF PassIs, LoopCountIsPasses, Before
    <3>9. QED
      BY <3>8
  <2>4. CASE ~in_a_loop
    <3>1. PassFits(first, later, again, i, r + 1, FALSE)'
      BY <1>2, <1>3, <2>1, <2>4 DEF PassFits, FrontIs, f
    <3>2. PassBefore(first, later, again, i, r + 1)'
      BY <1>2, <1>3, <1>8, <2>2, <2>4, <3>1 DEF PassBefore, f
    <3>3. PassIs(first, later, again)'
      BY <1>3, <1>5, <1>6, <2>1, <3>2 DEF PassIs, LoopCountIsPasses, Before
    <3>4. QED
      BY <3>3
  <2>5. QED
    BY <2>3, <2>4
<1>9. CASE PatternOver
  <2>1. /\ ~in_a_loop /\ ~position_jump /\ r + 1 = song.num_rows[p]
        /\ \A c \in Channel : pattern_loop_count'[c] = 0
    BY <1>1, <1>2, <1>3, <1>9
  <2>2. /\ IsNextStart(song, i, f, jump_row)
        /\ CountsFit(song, row_loop_count', passes, first, later, again, i,
                     song.num_rows[song.pattern_table[i]])
        /\ jump_row \in Byte /\ jump_row \in EntryRows(song)
    <3>1. jump_row \in EntryRows(song)
      BY DEF BodyInv
    <3>2. jump_row \in Byte
      BY <1>1, <3>1, PlainFacts
    <3>3. QED
      BY <1>2, <2>1, <3>1, <3>2 DEF IsNextStart, p
  <2>3. ASSUME NEW j, NEW n \in BOOLEAN, NEW q, q = jump_row, j = NextEntry(i),
               n => j >= song.restart_position,
               StartOf(first, later, n, j) = q,
               CountsFit(song, row_loop_count', passes', first, later, n, j, q)
        PROVE  PassBefore(first, later, n, NextIndex, NextRow)'
    <3>1. NextIndex' = j /\ NextRow' = q
      BY <1>3, <1>4, <1>9, <2>1, <2>3 DEF NextIndex, NextRow
    <3>2. q \in Nat
      BY <2>2, <2>3 DEF Byte
    <3>3. PassFits(first, later, n, j, q, FALSE)'
      BY <1>3, <2>2, <2>3, <3>2 DEF PassFits, FrontIs
    <3>4. MarkFits(q, j, q)'
      <4>1. \A m : m \in q .. q - 1 => FALSE
        BY <3>2
      <4>2. QED
        BY <1>4, <1>9, <4>1 DEF MarkFits, IsLastMark
    <3>5. PassBefore(first, later, n, j, q)'
      BY <1>3, <2>1, <2>3, <3>3, <3>4 DEF PassBefore
    <3>6. QED
      BY <3>1, <3>5
  <2>4. song.length \in Nat /\ i \in Nat /\ song.restart_position \in 0 .. song.length - 1
        /\ \A k \in 0 .. song.length - 1 : first[k] \in Byte /\ later[k] \in Byte
    BY <1>1, SongFacts, BytesAssumption DEF EntryStarts
  <2>5. CASE i + 1 < song.length
    <3>1. NextEntry(i) = i + 1 /\ passes' = passes /\ i + 1 \in 0 .. song.length - 1
      BY <1>3, <2>4, <2>5 DEF NextEntry
    <3>2. StartOf(first, later, again, i + 1) = jump_row
      <4>1. IsNextStart(song, i, f, StartOf(first, later, again, i + 1))
        <5>1. CASE again
          <6>1. i \in song.restart_position .. (song.length - 1) - 1
            BY <1>2, <2>4, <2>5, <5>1
          <6>2. QED
            BY <5>1, <6>1 DEF SettlesAs, StartOf, f
        <5>2. CASE ~again
          <6>1. i \in 0 .. (song.length - 1) - 1
            BY <2>4, <2>5
          <6>2. QED
            BY <5>2, <6>1 DEF SettlesAs, StartOf, f
        <5>3. QED
          BY <5>1, <5>2
      <4>2. StartOf(first, later, again, i + 1) \in Byte
        BY <2>4, <3>1 DEF StartOf
      <4>3. QED
        BY <2>2, <4>1, <4>2, LastMarkIsUnique DEF IsNextStart
    <3>3. CountsFit(song, row_loop_count', passes, first, later, again, i + 1, jump_row)
      BY <1>1, <1>5, <2>2, <2>5, <3>2, EnterEntry
    <3>4. again => i + 1 >= song.restart_position
      BY <1>2, <2>4
    <3>5. PassBefore(first, later, again, NextIndex, NextRow)'
      BY <2>3, <3>1, <3>2, <3>3, <3>4
    <3>6. PassIs(first, later, again)'
      BY <1>3, <1>5, <1>6, <3>1, <3>5 DEF PassIs, LoopCountIsPasses, Before
    <3>7. QED
      BY <3>6
  <2>6. CASE ~(i + 1 < song.length)
    <3> DEFINE k == song.restart_position
    <3>1. NextEntry(i) = k /\ passes' = After(passes) /\ i = song.length - 1
      BY <1>1, <1>3, <1>9, <2>4, <2>6 DEF NextEntry
    <3>2. later[k] = jump_row
      <4>1. IsNextStart(song, i, f, later[k])
        BY <3>1 DEF SettlesAs, StartOf, f
      <4>2. later[k] \in Byte
        BY <2>4
      <4>3. QED
        BY <2>2, <4>1, <4>2, LastMarkIsUnique DEF IsNextStart
    <3>3. CountsFit(song, row_loop_count', passes', first, later, TRUE, k, later[k])
      BY <1>1, <1>5, <2>2, <3>1, EnterPass
    <3>4. PassBefore(first, later, TRUE, NextIndex, NextRow)'
      <4>1. StartOf(first, later, TRUE, k) = later[k] /\ k >= k
        BY <2>4 DEF StartOf
      <4>2. QED
        BY <2>3, <3>1, <3>2, <3>3, <4>1
    <3>5. ~(r < first[i])
      <4>1. first[i] \in EntryRows(song)
        <5>1. CASE i = 0
          BY <5>1 DEF SettlesAs, EntryRows
        <5>2. CASE i # 0
          <6>1. i - 1 \in 0 .. (song.length - 1) - 1 /\ (i - 1) + 1 = i
                /\ i - 1 \in 0 .. song.length - 1
            BY <1>1, <2>4, <5>2
          <6>2. IsNextStart(song, i - 1, first[i - 1], first[(i - 1) + 1])
            BY <6>1 DEF SettlesAs
          <6>3. /\ MarkRows(song, song.pattern_table[i - 1]) \subseteq EntryRows(song)
                /\ 0 \in EntryRows(song)
            BY <1>1, <6>1, PlainFacts
          <6>4. QED
            BY <6>1, <6>2, <6>3 DEF IsNextStart, IsLastMark
        <5>3. QED
          BY <5>1, <5>2
      <4>2. first[i] \in RowsOf(song, p) /\ song.num_rows[p] \in 1 .. Bytes
        BY <1>1, <4>1, PlainFacts DEF p
      <4>3. QED
        BY <1>1, <2>1, <4>2, BytesAssumption DEF RowsOf, Byte
    <3>6. loop_count' = Before(passes') /\ passes' \in Byte
      BY <1>2, <1>5, <2>1, <3>1, <3>5, BeforeAfter
    <3>7. PassIs(first, later, TRUE)'
      BY <1>3, <3>4, <3>6 DEF PassIs, LoopCountIsPasses, Before
    <3>8. QED
      BY <3>7
  <2>7. QED
    BY <2>5, <2>6
<1>10. QED
  BY <1>1, <1>7, <1>8, <1>9

LEMMA TickPassInv ==
  ASSUME IInv, BodyInv, PassInv, TickWithHistory
  PROVE  PassInv'
<1>1. PICK first \in EntryStarts(song), later \in EntryStarts(song), again \in BOOLEAN :
        SettlesAs(song, first, later) /\ PassIs(first, later, again)
  BY DEF PassInv
<1>2. song' = song
  BY DEF TickWithHistory, Tick, StartRow, ContinueRow, HandleSlot, NoEffect, JumpToOrder,
         PatternBreak, SetTempo, RowLoop, PatternLoopEnd, PatternLoopStart, DelayPattern,
         SlotDone, EndRow, EndTick
<1>3. BodyInv'
  BY TickBodyInv
<1>4. \E n \in BOOLEAN : PassIs(first, later, n)'
  <2>1. CASE ContinueRow \/ EndTick
    <3>1. /\ song' = song /\ pc # "row" /\ pc' # "row"
          /\ UNCHANGED <<current_table_index, current_row, position_jump, jump_dest, jump_row,
                         pattern_loop_count, loop_count, row_loop_count, passes>>
      BY <2>1 DEF ContinueRow, EndTick, TickWithHistory, ObserveTick, LeavesSong, LeavesEntry,
                  RowEnds, position, jumpVars, loopVars, countVars
    <3>2. PICK i, r : i = NextIndex /\ r = NextRow
      OBVIOUS
    <3>3. PassBefore(first, later, again, i, r) /\ NextIndex' = i /\ NextRow' = r
      BY <1>1, <3>1, <3>2 DEF PassIs, NextIndex, NextRow
    <3>4. PassBefore(first, later, again, i, r)'
      BY <3>1, <3>3 DEF PassBefore, PassFits, FrontIs, MarkFits
    <3>5. PassIs(first, later, again)'
      BY <1>1, <3>1, <3>3, <3>4 DEF PassIs, LoopCountIsPasses
    <3>6. QED
      BY <3>5
  <2>2. QED
    BY <1>1, <1>3, <2>1, StartRowPassIs, HandleSlotPassIs, EndRowPassIs DEF TickWithHistory, Tick
<1>5. QED
  BY <1>1, <1>2, <1>4 DEF PassInv

LEMMA StutterPassInv ==
  ASSUME PassInv, UNCHANGED allVars
  PROVE  PassInv'
<1> PICK i, r : i = current_table_index /\ r = current_row
  OBVIOUS
<1> PICK j, q : j = NextIndex /\ q = NextRow
  OBVIOUS
<1>1. PICK first \in EntryStarts(song), later \in EntryStarts(song), again \in BOOLEAN :
        SettlesAs(song, first, later) /\ PassIs(first, later, again)
  BY DEF PassInv
<1>2. /\ NextIndex' = j /\ NextRow' = q /\ current_table_index' = i /\ current_row' = r
      /\ UNCHANGED <<song, played, pc, chan, position_jump, jump_row, pattern_loop_count,
                     loop_count, row_loop_count, passes>>
  BY DEF allVars, vars, position, jumpVars, loopVars, countVars, rowVars, history,
         NextIndex, NextRow
<1>3. ASSUME PassInside(first, later, again, i, r) PROVE PassInside(first, later, again, i, r)'
  BY <1>2, <1>3 DEF PassInside, PassFits, FrontIs, MarkFits, Times, InALoop
<1>4. ASSUME PassBefore(first, later, again, j, q) PROVE PassBefore(first, later, again, j, q)'
  BY <1>2, <1>4 DEF PassBefore, PassFits, FrontIs, MarkFits
<1>5. PassIs(first, later, again)'
  BY <1>1, <1>2, <1>3, <1>4 DEF PassIs, LoopCountIsPasses
<1>6. QED
  BY <1>1, <1>2, <1>5 DEF PassInv

(* The loop counter is the number of passes through the song, or one less,  *)
(* in a song whose only jumps are loops that do not meet, and whose entries *)
(* start at the same row in every pass but the first.                       *)
THEOREM PassesAreCounted ==
  HistorySpec /\ HasPlainLoops(song) /\ StartsSettle(song) => []LoopCountIsPasses
<1>1. InitHistory /\ HasPlainLoops(song) /\ StartsSettle(song) => IInv /\ BodyInv /\ PassInv
  BY InitIInv, InitBodyInv, InitPassInv DEF InitHistory
<1>2. IInv /\ BodyInv /\ PassInv /\ [TickWithHistory]_allVars => (IInv /\ BodyInv /\ PassInv)'
  BY NextIInv, TickBodyInv, StutterBodyInv, TickPassInv, StutterPassInv
     DEF TickWithHistory, Next, allVars
<1>3. PassInv => LoopCountIsPasses
  BY DEF PassInv, PassIs
<1>4. QED
  BY <1>1, <1>2, <1>3, PTL DEF HistorySpec
=============================================================================
