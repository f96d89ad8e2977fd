---------------------------- MODULE ScreamTracker ----------------------------
(***************************************************************************)
(* What an S3M song expects of its pattern loops: one loop for the song,   *)
(* not one for every channel.  SB0 marks the row a loop starts at; SBy     *)
(* goes back to it y times; when a loop is over, the next one starts in    *)
(* the row after it.  This is what the comment of the S3M loader says of   *)
(* ScreamTracker 3 (src/load.c), as a specification that plays rows.       *)
(***************************************************************************)
EXTENDS Integers

VARIABLES
  marks,    \* per row of the pattern: y of its SBy, or -1
  kept,     \* the rows whose SBy is honoured
  row,      \* the row played last, -1 if none was
  origin,   \* the first row of the loop the row belongs to
  repeats   \* how often the loop was gone back to

vars == <<marks, kept, row, origin, repeats>>

Rows == DOMAIN marks
IsLoopEnd(r) == marks[r] > 0
StartsLoop(r) == r = 0 \/ marks[r] = 0 \/ IsLoopEnd(r - 1)

Init == row = -1 /\ origin = 0 /\ repeats = 0

(* Row r is played, and belongs to a loop that starts at row o. *)
Hear(r, o) ==
  /\ row' = r /\ origin' = o
  /\ repeats' = IF r \notin kept THEN repeats
                ELSE IF repeats = marks[r] THEN 0 ELSE repeats + 1
  /\ UNCHANGED <<marks, kept>>

GoesBack == row \in kept /\ repeats > 0

LoopBack == GoesBack /\ Hear(origin, origin)

GoOn ==
  /\ ~GoesBack /\ row + 1 \in Rows
  /\ Hear(row + 1, IF StartsLoop(row + 1) THEN row + 1 ELSE origin)

(* The song goes on with the pattern once more.  libxm plays E60 the way    *)
(* FastTracker II does: the pattern may be entered where a loop starts.     *)
NextPattern ==
  /\ ~GoesBack /\ row + 1 \notin Rows
  /\ \E r \in Rows : StartsLoop(r) /\ Hear(r, r)

Next == LoopBack \/ GoOn \/ NextPattern

Spec == Init /\ [][Next]_vars
=============================================================================
