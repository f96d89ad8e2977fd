--------------------------- MODULE SequencerHistory ---------------------------
(***************************************************************************)
(* Sequencer with history variables, for the properties that compare the   *)
(* sequencer with what was played: they observe its steps and change       *)
(* nothing.                                                                *)
(***************************************************************************)
EXTENDS Sequencer, FiniteSetsExt

VARIABLES
  elapsed,  \* ticks played since the row started
  passes,   \* how often the song went past its last entry, modulo Bytes
  played,   \* how often each row was started since the entry was left
  target    \* what an undisturbed xm_seek() asked for, or NULL

history == <<elapsed, passes, played, target>>
allVars == <<vars, history>>

PlayedLimit == Bytes + 1       \* played is not counted further
ElapsedLimit == Bytes * Bytes  \* nor is elapsed: no row lasts as long
NothingPlayed == [p \in Position |-> 0]

InitHistory ==
  /\ Init
  /\ elapsed = 0 /\ passes = 0 /\ played = NothingPlayed /\ target = NULL

RowStarts == pc = "idle" /\ NewRow
RowEnds == pc = "row" /\ chan = NumChannels + 1
LeavesEntry == RowEnds /\ PatternOver
LeavesSong == LeavesEntry /\ current_table_index + 1 >= song.length

ObserveTick ==
  /\ elapsed' = IF RowStarts THEN 0
                ELSE IF pc = "effects" THEN Min({elapsed + 1, ElapsedLimit}) ELSE elapsed
  /\ passes' = IF LeavesSong THEN Wrap(passes + 1) ELSE passes
  /\ played' = IF LeavesEntry THEN NothingPlayed
               ELSE IF RowStarts
               THEN [played EXCEPT ![<<current_table_index', current_row'>>] =
                                     Min({@ + 1, PlayedLimit})]
               ELSE played
  /\ target' = IF RowEnds THEN NULL ELSE target

TickWithHistory == Tick /\ ObserveTick

HistorySpec ==
  /\ InitHistory
  /\ [][TickWithHistory]_allVars
  /\ WF_allVars(TickWithHistory)

(* The calls of a program that knows the limits of the library: it does not *)
(* dump a context while EEy repeats a row, nor seek into the middle of a    *)
(* row before a first row was played.  The other history is not kept here.  *)
CarefulSeek(i, row, tick) ==
  /\ tick > 0 => current[1] # NULL
  /\ Seek(i, row, tick)
  /\ target' = IF Pending \/ extra_rows > 0 \/ tick > 0 THEN NULL ELSE <<i, row>>

CarefulDump == extra_rows = 0 /\ Dump /\ UNCHANGED target

ObservedTick == Tick /\ target' = IF RowEnds THEN NULL ELSE target

CallsNext ==
  /\ \/ ObservedTick
     \/ \E p \in SongPosition, t \in Byte : CarefulSeek(p[1], p[2], t)
     \/ Reset /\ target' = NULL
     \/ CarefulDump
  /\ UNCHANGED <<elapsed, passes, played>>

CallsSpec == InitHistory /\ [][CallsNext]_allVars

(* A program that dumps its context between any two ticks, and no more. *)
DumpSpec == InitHistory /\ [][(Tick \/ Dump) /\ UNCHANGED history]_allVars

-----------------------------------------------------------------------------
(* A row lasts current_tempo ticks, once more for every repeat EEy asks     *)
(* for; with a tempo of 0, each of these is a single tick.                  *)
RowLastsAsAsked ==
  [][RowStarts /\ current[1] # NULL =>
       elapsed = Max({current_tempo, 1}) * (extra_rows + 1)]_allVars

(* xm_get_loop_count() counts the passes through the song: rows replayed by *)
(* E6y do not count, and the count is never more than the row under way     *)
(* behind.                                                                  *)
LoopCountIsPasses == loop_count \in {passes, Wrap(passes + Bytes - 1)}

(* When a loop E6y is over, its last row was played y + 1 times, and so was *)
(* the rest of it, except for rows the first pass did not go through: E60   *)
(* in the pattern before can make this one start in the middle of the loop. *)
LoopPlaysBody ==
  [][PatternLoopEnd /\ pattern_loop_count'[chan] = 0 =>
       LET times(row) == played[<<current_table_index, row>>]
       IN  /\ times(current_row) = Param + 1
           /\ \A row \in pattern_loop_origin[chan] .. current_row :
                times(row) \in {Param, Param + 1}]_allVars

(* A song that is played on is eventually reported to have looped.          *)
LoopIsReported == <>(loop_count > 0)

(* xm_seek() moves playback to the position asked for: unless a jump or a   *)
(* repeat is pending, the next tick plays that row.                         *)
SeekLands ==
  pc # "idle" /\ target # NULL => pc = "row" /\ position = target
=============================================================================
