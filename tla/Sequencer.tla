------------------------------ MODULE Sequencer ------------------------------
(***************************************************************************)
(* The sequencer of libxm: which row of which pattern is played next.      *)
(* It is the part of xm_tick() (src/play.c) and of the calls that move the *)
(* playback position (src/xm.c, src/load.c) that reads and writes          *)
(* current_table_index, current_row, current_tick, the pending jump, the   *)
(* pattern loops of the channels, the row repeats of EEy and the loop      *)
(* counters.                                                               *)
(*                                                                         *)
(* One call of xm_tick() is a sequence of steps, one per function or loop  *)
(* iteration of the code, told apart by pc; nothing else can run between   *)
(* them, because every call of the library starts when pc = "idle".        *)
(*                                                                         *)
(*   idle --StartRow-> row --HandleSlot, once per channel-> row            *)
(*        --EndRow-> effects --EndTick-> idle                              *)
(*   idle --ContinueRow-> effects --EndTick-> idle                         *)
(*                                                                         *)
(* A song is a record with the fields of xm_module_t, xm_pattern_t and the *)
(* slot array that matter here.  The slot array is flat, as in the code: a *)
(* row number past the end of its pattern reads the rows of the next one.  *)
(***************************************************************************)
EXTENDS Naturals

CONSTANTS
  NumChannels,  \* module.num_channels
  Bytes,        \* how many values a uint8_t has: 256
  Songs,        \* the modules that may be loaded
  NULL          \* the null pointer

Channel == 1 .. NumChannels
Byte == 0 .. Bytes - 1
Wrap(n) == n % Bytes

(* Effects of a slot that reach the sequencer.  Every other effect, and a  *)
(* slot whose note is delayed by EDy, is "NONE" here.                      *)
EffectType == {"NONE", "JUMP_TO_ORDER", "PATTERN_BREAK", "SET_TEMPO",
               "ROW_LOOP", "PATTERN_LOOP", "DELAY_PATTERN"}
Effect == [type : EffectType, param : Byte]

Patterns(s) == DOMAIN s.num_rows
SlotRow(s) == 0 .. s.total_rows - 1

(* The parameters of the effects of type t in the song. *)
ParamsOf(s, t) ==
  {x \in Byte : \E r \in SlotRow(s), c \in Channel :
                  s.slots[r][c] = [type |-> t, param |-> x]}

IsSong(s) ==
  /\ s.length \in 1 .. Bytes
  /\ s.restart_position \in 0 .. s.length - 1
  /\ s.default_tempo \in Byte
  /\ s.total_rows \in Nat
  /\ s.num_rows \in [Patterns(s) -> 0 .. Bytes]
  /\ s.rows_index \in [Patterns(s) -> Nat]
  /\ s.pattern_table \in [0 .. s.length - 1 -> Patterns(s)]
  /\ s.slots \in [SlotRow(s) -> [Channel -> Effect]]
  /\ \A p \in Patterns(s) : s.rows_index[p] + s.num_rows[p] <= s.total_rows

(* What xm_fixup_common() leaves in the slots: no Bxx past the end of the   *)
(* pattern order table and no F00.  EEy has one hexadecimal digit.          *)
IsFixedUp(s) ==
  /\ \A d \in ParamsOf(s, "JUMP_TO_ORDER") : d < s.length
  /\ 0 \notin ParamsOf(s, "SET_TEMPO")
  /\ \A y \in ParamsOf(s, "DELAY_PATTERN") : y < Bytes - 1

(* The rows of the patterns that E60 or a row loop marks.                   *)
LoopMarks(s) ==
  {r \in Byte : \E p \in Patterns(s), c \in Channel :
     /\ r < s.num_rows[p]
     /\ LET slot == s.slots[s.rows_index[p] + r][c]
        IN  slot.type = "ROW_LOOP" \/ slot = [type |-> "PATTERN_LOOP", param |-> 0]}

(* The row numbers a jump may go to, in whichever pattern it ends up: the   *)
(* first one, the parameter of a Dxx, and what a loop marks.                *)
JumpTargets(s) == {0} \union ParamsOf(s, "PATTERN_BREAK") \union LoopMarks(s)

(* Songs in which a jump leads to a row of the slot array, not necessarily  *)
(* of its pattern, from wherever it starts.  No loader looks at this.       *)
IsAddressable(s) ==
  \A p \in Patterns(s), r \in JumpTargets(s) : s.rows_index[p] + r \in SlotRow(s)

ASSUME NumChannelsAssumption == NumChannels \in Nat \ {0}
ASSUME BytesAssumption == Bytes \in Nat \ {0, 1}
ASSUME NullAssumption == NULL \notin Nat \X Nat
ASSUME SongsAssumption ==
  \A s \in Songs : IsSong(s) /\ IsFixedUp(s)

VARIABLES
  song,                  \* the loaded module; never changes
  current_table_index,   \* position in the pattern order table
  current_row,           \* row to play next, or the row being played
  current_tick,          \* ticks done of the row
  current_tempo,         \* ticks per row
  extra_rows,            \* EEy: repeats asked for the row
  extra_rows_done,       \* EEy: repeats done
  position_jump,         \* Bxx or an armed loop is pending
  pattern_break,         \* Dxx is pending
  jump_dest,             \* target of the pending position jump
  jump_row,              \* row the pending jump, or the next pattern, starts at
  loop_count,            \* what xm_get_loop_count() returns
  row_loop_count,        \* how often each row was played outside of a loop
  pattern_loop_origin,   \* per channel: first row of its loop
  pattern_loop_count,    \* per channel: repeats done of its loop, 0 if none
  current,               \* per channel: the slot being played, as the position
                         \* of its row, or NULL
  pc,                    \* where xm_tick() is
  chan,                  \* the loop variable of xm_row()
  in_a_loop              \* the local variable of xm_row()

position == <<current_table_index, current_row>>
jumpVars == <<position_jump, pattern_break, jump_dest, jump_row>>
repeatVars == <<extra_rows, extra_rows_done>>
loopVars == <<pattern_loop_origin, pattern_loop_count>>
countVars == <<loop_count, row_loop_count>>
rowVars == <<chan, in_a_loop>>
vars == <<song, position, current_tick, current_tempo, repeatVars, jumpVars,
          countVars, loopVars, current, pc, rowVars>>

TableIndex == 0 .. song.length - 1
Position == TableIndex \X Byte

-----------------------------------------------------------------------------
(* State of a context after xm_create_context(). *)

Init ==
  /\ song \in Songs
  /\ current_table_index = 0 /\ current_row = 0 /\ current_tick = 0
  /\ current_tempo = song.default_tempo
  /\ extra_rows = 0 /\ extra_rows_done = 0
  /\ position_jump = FALSE /\ pattern_break = FALSE
  /\ jump_dest = 0 /\ jump_row = 0
  /\ loop_count = 0 /\ row_loop_count = [p \in Position |-> 0]
  /\ pattern_loop_origin = [c \in Channel |-> 0]
  /\ pattern_loop_count = [c \in Channel |-> 0]
  /\ current = [c \in Channel |-> NULL]
  /\ pc = "idle" /\ chan = 1 /\ in_a_loop = FALSE

-----------------------------------------------------------------------------
(* xm_tick(), before the channels are updated. *)

RowOverLate == current_tick > current_tempo  \* mutant
RowOver == current_tick >= current_tempo
TickNow == IF RowOver THEN 0 ELSE current_tick
RepeatsNowCapped ==  \* mutant
  IF RowOver /\ extra_rows_done < extra_rows THEN extra_rows_done + 1
  ELSE extra_rows_done
RepeatsNow == IF RowOver THEN Wrap(extra_rows_done + 1) ELSE extra_rows_done
NewRow == TickNow = 0 /\ (extra_rows = 0 \/ RepeatsNow > extra_rows)

(* The entry of the pattern order table after entry i: MAYBE_RESTART_POT. *)
NextEntry(i) == IF i + 1 >= song.length THEN song.restart_position ELSE i + 1

Pending == position_jump \/ pattern_break

(* xm_tick() starts a new row: xm_row() up to its loop.  A pending Bxx, or *)
(* armed loop, wins over a pending Dxx, but the row is shared.             *)
StartRow ==
  /\ pc = "idle" /\ NewRow
  /\ current_tick' = 0 /\ extra_rows' = 0 /\ extra_rows_done' = 0
  /\ current_table_index' = IF position_jump THEN jump_dest
                            ELSE IF pattern_break THEN NextEntry(current_table_index)
                            ELSE current_table_index
  /\ current_row' = IF Pending THEN jump_row ELSE current_row
  /\ jump_row' = IF Pending THEN 0 ELSE jump_row
  /\ position_jump' = FALSE /\ pattern_break' = FALSE
  /\ pc' = "row" /\ chan' = 1 /\ in_a_loop' = FALSE
  /\ UNCHANGED <<song, current_tempo, jump_dest, countVars, loopVars, current>>

(* xm_tick() goes on with the row, or repeats it. *)
ContinueRow ==
  /\ pc = "idle" /\ ~NewRow
  /\ current_tick' = TickNow /\ extra_rows_done' = RepeatsNow
  /\ pc' = "effects"
  /\ UNCHANGED <<song, position, current_tempo, extra_rows, jumpVars, countVars,
                 loopVars, current, rowVars>>

-----------------------------------------------------------------------------
(* xm_handle_pattern_slot() for channel chan, as far as the sequencer goes, *)
(* and the bookkeeping of xm_row() around it.                               *)

PatternAt(i) == song.pattern_table[i]
Slot(i, row, c) == song.slots[song.rows_index[PatternAt(i)] + row][c]
RowAddress == song.rows_index[PatternAt(current_table_index)] + current_row

(* The code looks at neither num_rows nor the length of the slot array.  A  *)
(* row past the end of its pattern is one of the patterns stored after it;  *)
(* one past the end of the array is undefined, and the behaviour ends here. *)
Handle(type) ==
  /\ pc = "row" /\ chan \in Channel
  /\ RowAddress \in SlotRow(song)
  /\ Slot(current_table_index, current_row, chan).type = type

Param == Slot(current_table_index, current_row, chan).param

SlotDoneLastOnly ==  \* mutant: in_a_loop of the last channel
  /\ current' = [current EXCEPT ![chan] = position]
  /\ in_a_loop' = (pattern_loop_count'[chan] > 0)
  /\ chan' = chan + 1
  /\ UNCHANGED <<song, position, current_tick, extra_rows_done, countVars, pc>>

SlotDone ==
  /\ current' = [current EXCEPT ![chan] = position]
  /\ in_a_loop' = (in_a_loop \/ pattern_loop_count'[chan] > 0)
  /\ chan' = chan + 1
  /\ UNCHANGED <<song, position, current_tick, extra_rows_done, countVars, pc>>

NoEffect ==
  /\ Handle("NONE")
  /\ UNCHANGED <<current_tempo, extra_rows, jumpVars, loopVars>>
  /\ SlotDone

JumpToOrder ==
  /\ Handle("JUMP_TO_ORDER")
  /\ position_jump' = TRUE /\ jump_dest' = Param /\ jump_row' = 0
  /\ UNCHANGED <<current_tempo, extra_rows, pattern_break, loopVars>>
  /\ SlotDone

PatternBreak ==
  /\ Handle("PATTERN_BREAK")
  /\ pattern_break' = TRUE /\ jump_row' = Param
  /\ UNCHANGED <<current_tempo, extra_rows, position_jump, jump_dest, loopVars>>
  /\ SlotDone

SetTempo ==
  /\ Handle("SET_TEMPO")
  /\ current_tempo' = Param
  /\ UNCHANGED <<extra_rows, jumpVars, loopVars>>
  /\ SlotDone

ArmLoopInPlace(origin) ==  \* mutant: jump_dest keeps the target of an older jump
  /\ pattern_loop_count' = [pattern_loop_count EXCEPT ![chan] = Wrap(@ + 1)]
  /\ position_jump' = TRUE
  /\ UNCHANGED jump_dest
  /\ jump_row' = origin

ArmLoop(origin) ==
  /\ pattern_loop_count' = [pattern_loop_count EXCEPT ![chan] = Wrap(@ + 1)]
  /\ position_jump' = TRUE
  /\ jump_dest' = current_table_index
  /\ jump_row' = origin

LoopBackEarly(origin) ==  \* mutant: counts the first pass as a repeat
  IF Param = pattern_loop_count[chan] + 1
  THEN /\ pattern_loop_count' = [pattern_loop_count EXCEPT ![chan] = 0]
       /\ UNCHANGED <<position_jump, jump_dest, jump_row>>
  ELSE ArmLoop(origin)

LoopBackNotCleared(origin) ==  \* mutant: a loop that is over stays in effect
  IF Param = pattern_loop_count[chan]
  THEN UNCHANGED <<pattern_loop_count, position_jump, jump_dest, jump_row>>
  ELSE ArmLoop(origin)

(* do_pattern_loop: the loop is over, or armed once more. *)
LoopBack(origin) ==
  IF Param = pattern_loop_count[chan]
  THEN /\ pattern_loop_count' = [pattern_loop_count EXCEPT ![chan] = 0]
       /\ UNCHANGED <<position_jump, jump_dest, jump_row>>
  ELSE ArmLoop(origin)

RowLoop ==
  /\ Handle("ROW_LOOP")
  /\ pattern_loop_origin' = [pattern_loop_origin EXCEPT ![chan] = current_row]
  /\ LoopBack(current_row)
  /\ UNCHANGED <<current_tempo, extra_rows, pattern_break>>
  /\ SlotDone

PatternLoopEnd ==
  /\ Handle("PATTERN_LOOP") /\ Param > 0
  /\ LoopBack(pattern_loop_origin[chan])
  /\ UNCHANGED <<current_tempo, extra_rows, pattern_break, pattern_loop_origin>>
  /\ SlotDone

(* E60 also sets the row the next pattern starts at, as FT2 does. *)
PatternLoopStart ==
  /\ Handle("PATTERN_LOOP") /\ Param = 0
  /\ pattern_loop_origin' = [pattern_loop_origin EXCEPT ![chan] = current_row]
  /\ jump_row' = current_row
  /\ UNCHANGED <<current_tempo, extra_rows, position_jump, pattern_break,
                 jump_dest, pattern_loop_count>>
  /\ SlotDone

DelayPattern ==
  /\ Handle("DELAY_PATTERN")
  /\ extra_rows' = Param
  /\ UNCHANGED <<current_tempo, jumpVars, loopVars>>
  /\ SlotDone

HandleSlot ==
  \/ NoEffect
  \/ JumpToOrder
  \/ PatternBreak
  \/ SetTempo
  \/ RowLoop
  \/ PatternLoopEnd
  \/ PatternLoopStart
  \/ DelayPattern

-----------------------------------------------------------------------------
(* xm_row() after its loop: count the row unless a loop replays it, and     *)
(* move on.  A row at the end of its pattern moves to the next entry.       *)

RowAfter == Wrap(current_row + 1)
PatternOverLate ==  \* mutant
  ~Pending /\ (RowAfter > song.num_rows[PatternAt(current_table_index)] \/ RowAfter = 0)
PatternOverEarly ==  \* mutant
  ~Pending /\ (RowAfter + 1 >= song.num_rows[PatternAt(current_table_index)] \/ RowAfter = 0)
PatternOver ==
  ~Pending /\ (RowAfter >= song.num_rows[PatternAt(current_table_index)] \/ RowAfter = 0)

EndRow ==
  /\ pc = "row" /\ chan = NumChannels + 1
  /\ IF in_a_loop
     THEN UNCHANGED countVars
     ELSE /\ loop_count' = row_loop_count[position]
          /\ row_loop_count' = [row_loop_count EXCEPT ![position] = Wrap(@ + 1)]
  /\ IF PatternOver
     THEN /\ current_table_index' = NextEntry(current_table_index)
          /\ current_row' = jump_row
          /\ jump_row' = 0
     ELSE /\ current_row' = RowAfter
          /\ UNCHANGED <<current_table_index, jump_row>>
  /\ pc' = "effects"
  /\ UNCHANGED <<song, current_tick, current_tempo, repeatVars, position_jump,
                 pattern_break, jump_dest, loopVars, current, rowVars>>

(* xm_tick() applies the tick effects of every channel's current slot,     *)
(* except in the first tick of the row, and counts the tick.               *)
TickEffects == pc = "effects" /\ (current_tick > 0 \/ extra_rows_done > 0)

EndTick ==
  /\ pc = "effects"
  /\ current_tick' = Wrap(current_tick + 1)
  /\ pc' = "idle"
  /\ UNCHANGED <<song, position, current_tempo, repeatVars, jumpVars, countVars,
                 loopVars, current, rowVars>>

Tick == StartRow \/ ContinueRow \/ HandleSlot \/ EndRow \/ EndTick

-----------------------------------------------------------------------------
(* The calls that move the playback position between two ticks. *)

SeekKeepsTick(i, row, tick) ==  \* mutant
  /\ pc = "idle"
  /\ current_table_index' = i /\ current_row' = row
  /\ UNCHANGED <<song, current_tick, current_tempo, repeatVars, jumpVars, countVars,
                 loopVars, current, pc, rowVars>>

(* xm_seek(): the pending jump and the pending repeats stay. *)
Seek(i, row, tick) ==
  /\ pc = "idle"
  /\ current_table_index' = i /\ current_row' = row /\ current_tick' = tick
  /\ UNCHANGED <<song, current_tempo, repeatVars, jumpVars, countVars, loopVars,
                 current, pc, rowVars>>

(* The positions of the song. *)
SongPosition == {p \in Position : p[2] < song.num_rows[PatternAt(p[1])]}

(* xm_reset_context() *)
Reset ==
  /\ pc = "idle"
  /\ current_table_index' = 0 /\ current_row' = 0 /\ current_tick' = 0
  /\ current_tempo' = song.default_tempo
  /\ extra_rows' = 0 /\ extra_rows_done' = 0
  /\ position_jump' = FALSE /\ pattern_break' = FALSE
  /\ jump_dest' = 0 /\ jump_row' = 0
  /\ loop_count' = 0 /\ row_loop_count' = [p \in Position |-> 0]
  /\ pattern_loop_origin' = [c \in Channel |-> 0]
  /\ pattern_loop_count' = [c \in Channel |-> 0]
  /\ current' = [c \in Channel |-> NULL]
  /\ UNCHANGED <<song, pc, rowVars>>

DumpMidRow ==  \* mutant: current_tick is not cleared
  /\ pc = "idle"
  /\ current' = [c \in Channel |-> NULL]
  /\ UNCHANGED <<song, position, current_tick, current_tempo, repeatVars, jumpVars,
                 countVars, loopVars, pc, rowVars>>

(* xm_dump_context(): the context goes on being used, or is restored from   *)
(* the dump; either way this is its state.                                  *)
Dump ==
  /\ pc = "idle"
  /\ current_tick' = 0
  /\ current' = [c \in Channel |-> NULL]
  /\ UNCHANGED <<song, position, current_tempo, repeatVars, jumpVars, countVars,
                 loopVars, pc, rowVars>>

Caller ==
  \/ \E p \in SongPosition, t \in Byte : Seek(p[1], p[2], t)
  \/ Reset
  \/ Dump

Next == Tick \/ Caller

Spec == Init /\ [][Next]_vars

-----------------------------------------------------------------------------
TypeOK ==
  /\ current_table_index \in TableIndex
  /\ current_row \in Byte /\ current_tick \in Byte /\ current_tempo \in Byte
  /\ extra_rows \in Byte /\ extra_rows_done \in Byte
  /\ position_jump \in BOOLEAN /\ pattern_break \in BOOLEAN
  /\ jump_dest \in TableIndex /\ jump_row \in Byte
  /\ loop_count \in Byte /\ row_loop_count \in [Position -> Byte]
  /\ pattern_loop_origin \in [Channel -> Byte]
  /\ pattern_loop_count \in [Channel -> Byte]
  /\ current \in [Channel -> Position \union {NULL}]
  /\ pc \in {"idle", "row", "effects"}
  /\ chan \in 1 .. NumChannels + 1
  /\ in_a_loop \in BOOLEAN

(* A pattern is never played past its end into the one stored after it: a   *)
(* row that is not of the pattern the order table names is one a jump named *)
(* by its number, for xm_row() adds current_row to rows_index without       *)
(* looking at num_rows.                                                     *)
PlaysInsidePattern ==
  pc = "row" => \/ current_row < song.num_rows[PatternAt(current_table_index)]
                \/ current_row \in JumpTargets(song)

(* The row about to be read is in the slot array, in a song whose jumps all *)
(* lead into it: xm_row() does not look at the length of the array either,  *)
(* and neither running on nor a seek takes it further than a jump does.     *)
RowIsStored ==
  IsAddressable(song) /\ pc = "row" => RowAddress \in SlotRow(song)

(* Tick effects read the slot of the channel: xm_tick_effects() follows     *)
(* ch->current without a test.                                              *)
EffectsHaveASlot == TickEffects => \A c \in Channel : current[c] # NULL

(* Between two ticks, xm_get_position() reports the row being played: it    *)
(* returns current_table_index and the uint8_t current_row - 1.  In the     *)
(* last row of a pattern the sequencer has already moved on.                *)
ReportedPosition == <<current_table_index, Wrap(current_row + Bytes - 1)>>
PlaysLastRow ==
  current[1][2] + 1 >= song.num_rows[PatternAt(current[1][1])]
PositionIsReported ==
  pc = "idle" /\ current[1] # NULL => ReportedPosition = current[1] \/ PlaysLastRow

(* The rows are played in the order RowOrder allows: the row being played   *)
(* is the one the first channel has its slot in.                            *)
Order == INSTANCE RowOrder WITH at <- current[1]
ImplementsRowOrder == Order!Spec

(* The player never gets stuck in a row, however often EEy repeats it.      *)
RowsKeepComing == []<>(pc = "row")
=============================================================================
