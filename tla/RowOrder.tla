------------------------------- MODULE RowOrder -------------------------------
(***************************************************************************)
(* What the sequencer promises: the order in which the rows of a song are  *)
(* played.  Ticks, repeats, the flags of a pending jump and the counters   *)
(* of the loops are hidden; what is left is the row being played, and the  *)
(* rows that may follow it, which only depend on the effects the row       *)
(* itself carries.  Sequencer is shown to implement it.                    *)
(***************************************************************************)
EXTENDS Naturals

CONSTANTS Channel, NULL

VARIABLES
  song,   \* the song being played, whichever it is
  at      \* <<entry, row>> being played, NULL before the first row

vars == <<song, at>>

Slots(i, row) ==
  LET slots == song.slots[song.rows_index[song.pattern_table[i]] + row]
  IN  {slots[c] : c \in Channel}

IsStored(i, row) == song.rows_index[song.pattern_table[i]] + row \in DOMAIN song.slots

Params(slots, type) == {e.param : e \in {f \in slots : f.type = type}}

NextEntry(i) == IF i + 1 < song.length THEN i + 1 ELSE song.restart_position

(* The numbers a row may have: those of a pattern, and what Dxx names. *)
RowNumbers ==
  {0} \union (UNION {0 .. song.num_rows[p] - 1 : p \in DOMAIN song.num_rows})
    \union (UNION {Params({song.slots[r][c] : c \in Channel}, "PATTERN_BREAK") :
                    r \in DOMAIN song.slots})

(* Rows a pattern may start at: the first one, or one marked by E60. *)
MarkedRows ==
  {0} \union
  {row \in RowNumbers : \E i \in DOMAIN song.pattern_table :
                          IsStored(i, row) /\ 0 \in Params(Slots(i, row), "PATTERN_LOOP")}

(* Rows that repeat themselves, which marks the start of a loop as well. *)
RepeatedRows ==
  {row \in RowNumbers : \E i \in DOMAIN song.pattern_table :
                          IsStored(i, row) /\ Params(Slots(i, row), "ROW_LOOP") # {}}

IsLoopEnd(slots) == Params(slots, "PATTERN_LOOP") \ {0} # {}
IsRowLoop(slots) == Params(slots, "ROW_LOOP") # {}

(* Bxx names the entry to jump to, a loop stays in the entry. *)
JumpEntries(slots, i) ==
  Params(slots, "JUMP_TO_ORDER")
    \union (IF IsLoopEnd(slots) \/ IsRowLoop(slots) THEN {i} ELSE {})

(* Dxx names the row to jump to, a loop goes back to where it started. *)
JumpRows(slots, row) ==
  MarkedRows \union Params(slots, "PATTERN_BREAK")
    \union (IF IsLoopEnd(slots) THEN RepeatedRows ELSE {})
    \union (IF IsRowLoop(slots) THEN {row} ELSE {})

(* Without a jump Dxx moves to the next entry, and a row that asks for none *)
(* of these is followed by the next one of the pattern, or the next entry.  *)
Follows(i, row) ==
  LET slots  == Slots(i, row)
      breaks == Params(slots, "PATTERN_BREAK") # {}
      jumps  == JumpEntries(slots, i) \X JumpRows(slots, row)
  IN  IF Params(slots, "JUMP_TO_ORDER") # {} THEN jumps
      ELSE IF breaks THEN jumps \union ({NextEntry(i)} \X JumpRows(slots, row))
      ELSE jumps \union
           IF row + 1 < song.num_rows[song.pattern_table[i]]
           THEN {<<i, row + 1>>}
           ELSE {NextEntry(i)} \X MarkedRows

Init == at = NULL

First == at = NULL /\ at' = <<0, 0>>

Follow == at # NULL /\ at' \in Follows(at[1], at[2])

Next == (First \/ Follow) /\ UNCHANGED song

Spec == Init /\ [][Next]_vars
=============================================================================
