------------------------------- MODULE S3MLoops -------------------------------
(***************************************************************************)
(* Pattern loops of S3M files: how xm_load_s3m_pattern() (src/load.c)      *)
(* rewrites the SBx effects of a pattern, which share one loop, into E6y   *)
(* and row loops, of which every channel has its own; and the sequencer    *)
(* playing the result.  ScreamTracker says how the loops should sound.     *)
(*                                                                         *)
(* A pattern is a function from rows and channels to effects: Free is a    *)
(* slot without one, NONE with a parameter one the sequencer does not see. *)
(***************************************************************************)
EXTENDS Sequencer, Integers, FiniteSetsExt

Free == [type |-> "NONE", param |-> 0]
NoMark == -1

(* SBx of a row: the last channel wins. *)
Mark(slots) ==
  LET sbx == {c \in Channel : slots[c].type = "PATTERN_LOOP"}
  IN  IF sbx = {} THEN NoMark ELSE slots[Max(sbx)].param
MarksOf(pattern) == [r \in DOMAIN pattern |-> Mark(pattern[r])]

Ends(marks) == {r \in DOMAIN marks : marks[r] > 0}

(* loops[n][0] after row r was scanned, if it does not end the loop. *)
LoopStartKept(marks, r) ==  \* mutant: only SB0 moves the start of the loop
  Max({0} \union {s \in 0 .. r : marks[s] = 0})
LoopStart(marks, r) ==
  Max({0} \union {s \in 0 .. r : marks[s] = 0} \union {e + 1 : e \in Ends(marks) \cap 0 .. r - 1})

(* SBx is removed from every slot, whether its loop finds room or not. *)
Cleared(pattern) ==
  [r \in DOMAIN pattern |-> [c \in Channel |->
     IF pattern[r][c].type = "PATTERN_LOOP" THEN Free ELSE pattern[r][c]]]

(* The channels that can hold the loop of rows a to b. *)
RoomAtStart(pattern, a, b) ==  \* mutant: the slot of the last row is not looked at
  {c \in Channel : pattern[a][c] = Free}
Room(pattern, a, b) == {c \in Channel : pattern[a][c] = Free /\ pattern[b][c] = Free}

(* The loop that ends in row e, as effects of the first channel with room. *)
LoopEffect(marks, e, r) ==
  IF LoopStart(marks, e) = e THEN [type |-> "ROW_LOOP", param |-> marks[e]]
  ELSE [type |-> "PATTERN_LOOP", param |-> IF r = e THEN marks[e] ELSE 0]

FixedLoops(pattern) ==
  LET marks == MarksOf(pattern)
      cleared == Cleared(pattern)
      room(e) == Room(cleared, LoopStart(marks, e), e)
      here(r, c) == {e \in Ends(marks) : /\ r \in {LoopStart(marks, e), e}
                                         /\ room(e) # {} /\ c = Min(room(e))}
  IN  [r \in DOMAIN pattern |-> [c \in Channel |->
         IF here(r, c) = {} THEN cleared[r][c]
         ELSE LoopEffect(marks, CHOOSE e \in here(r, c) : TRUE, r)]]

(* The ends of the loops that found room; of others a notice is all there is. *)
Placed(pattern) ==
  {e \in Ends(MarksOf(pattern)) :
     Room(Cleared(pattern), LoopStart(MarksOf(pattern), e), e) # {}}

-----------------------------------------------------------------------------
(* A song of one S3M pattern, which is kept as song.s3m.  Nothing in it     *)
(* decides which row comes next except the loops.                           *)
S3MEffect == [type : {"NONE", "SET_TEMPO", "DELAY_PATTERN", "PATTERN_LOOP"}, param : Byte]

IsS3M(s) ==
  /\ s.length = 1 /\ s.total_rows > 0
  /\ s.num_rows[s.pattern_table[0]] = s.total_rows
  /\ s.rows_index[s.pattern_table[0]] = 0
  /\ s.s3m \in [SlotRow(s) -> [Channel -> S3MEffect]]
  /\ s.slots = FixedLoops(s.s3m)

ASSUME S3MAssumption == \A s \in Songs : IsS3M(s)

VARIABLE
  heard  \* history: the last row that was played to its end, and the repeats
         \* its loop has asked for
loopsVars == <<vars, heard>>

LoopsInit == Init /\ heard = [row |-> -1, repeats |-> 0]

LoopsNext ==
  /\ Tick
  /\ heard' = IF pc = "row" /\ chan = NumChannels + 1
              THEN [row |-> current_row, repeats |-> Max({pattern_loop_count[c] : c \in Channel})]
              ELSE heard

LoopsSpec == LoopsInit /\ [][LoopsNext]_loopsVars

-----------------------------------------------------------------------------
(* The loops sound as in ScreamTracker: every channel having a loop of its  *)
(* own, the rows are played in the order one loop for the song asks for, as *)
(* often, except that a loop no channel has room for is not played.         *)
ScreamTracker == INSTANCE ScreamTracker WITH
  marks <- MarksOf(song.s3m),
  kept <- Placed(song.s3m),
  row <- heard.row,
  origin <- IF heard.row < 0 THEN 0 ELSE LoopStart(MarksOf(song.s3m), heard.row),
  repeats <- heard.repeats

PlaysAsScreamTracker == ScreamTracker!Spec

(* A loop of a single row always finds room: the code asserts it, because   *)
(* the slot of the SBx itself was emptied, when there is more than one too. *)
RowLoopsFit ==
  LET marks == MarksOf(song.s3m)
  IN  \A e \in Ends(marks) : LoopStart(marks, e) = e => e \in Placed(song.s3m)

(* Every other effect of the file is still where it was, and no channel is  *)
(* asked for two loops at a time: between the E60 and the E6y of a loop,    *)
(* no loop starts or ends.                                                  *)
LoopsDisplaceNothing ==
  LET fixed == song.slots
      marks == MarksOf(song.s3m)
  IN  \A r \in DOMAIN song.s3m, c \in Channel :
        /\ song.s3m[r][c].type # "PATTERN_LOOP" /\ song.s3m[r][c] # Free =>
             fixed[r][c] = song.s3m[r][c]
        /\ fixed[r][c].type = "PATTERN_LOOP" /\ fixed[r][c].param > 0 =>
             /\ fixed[LoopStart(marks, r)][c] = [type |-> "PATTERN_LOOP", param |-> 0]
             /\ \A q \in LoopStart(marks, r) + 1 .. r - 1, d \in Channel :
                  fixed[q][d].type \notin {"PATTERN_LOOP", "ROW_LOOP"}

(* The fixup finds the room it asserts, and takes none that is in use.      *)
LoopsFit == RowLoopsFit /\ LoopsDisplaceNothing
=============================================================================
