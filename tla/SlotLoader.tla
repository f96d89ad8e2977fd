------------------------------ MODULE SlotLoader ------------------------------
(***************************************************************************)
(* The slots of a column, one after the other, from the file to the        *)
(* channel: they are decoded (Slots), fixed up by xm_fixup_common(), maybe *)
(* fixed up once more because the context was dumped and restored, and     *)
(* played.  Slots of .XM and .MOD files do not depend on those before      *)
(* them; those of .S3M do, twice: an Sxy without a parameter is given that *)
(* of an effect above it while it is loaded, and so are the effects with   *)
(* global memory while they are played.                                    *)
(***************************************************************************)
EXTENDS Slots

CONSTANTS
  XMSlots, MODSlots, S3MSlots,  \* the slots that files have
  Lengths                       \* the lengths of their order tables

IsRawEffect(r) == r.effect_type \in Byte /\ r.effect_param \in Byte
LongestPeriod == 4095  \* the periods of .MOD files have 12 bits
ASSUME XMSlotsAssumption ==
  \A r \in XMSlots :
    IsRawEffect(r) /\ r.note \in Byte /\ r.instrument \in Byte /\ r.volume_column \in Byte
ASSUME MODSlotsAssumption ==
  \A r \in MODSlots :
    /\ r.period \in 0 .. LongestPeriod /\ r.instrument \in Byte
    /\ r.effect_type \in 0 .. 15 /\ r.effect_param \in Byte
ASSUME S3MSlotsAssumption ==
  \A r \in S3MSlots :
    /\ IsRawEffect(r) /\ r.note \in Byte \union {Absent}
    /\ r.instrument \in Byte /\ r.volume \in Byte \union {Absent}
ASSUME LengthsAssumption == Lengths \subseteq 0 .. 256

VARIABLES
  format, length, restart_position,  \* of the module
  left,                  \* the channel of the column is a left one
  pc,
  raw, slot,             \* the slot in the file, and in the context
  last_effect_parameter, \* of the column, while its pattern is loaded
  effect_param,          \* of the channel, while it is played
  written                \* history: the parameter of the file that effect_param
                         \* should be, or Unknown

module == <<format, length, restart_position, left>>
memories == <<last_effect_parameter, effect_param, written>>
vars == <<module, pc, raw, slot, memories>>

Unknown == -1
NoSlot == SlotOf(0, 0, 0, NoEffect)

(* .XM and .MOD files have a restart position, which is 0 if it is not less *)
(* than the length; the order table of a .MOD file has 128 entries.         *)
RestartPositions(len) == {0} \union 0 .. len - 1
Init ==
  /\ format \in {"XM", "MOD", "S3M"} /\ length \in Lengths
  /\ format = "MOD" => length <= 128
  /\ restart_position \in (IF format = "S3M" THEN {0} ELSE RestartPositions(length))
  /\ left \in (IF format = "S3M" THEN BOOLEAN ELSE {TRUE})
  /\ pc = "reading" /\ raw = NoSlot /\ slot = NoSlot
  /\ last_effect_parameter = 0 /\ effect_param = 0 /\ written = 0

ReadXM ==
  /\ format = "XM" /\ pc = "reading" /\ pc' = "decoded"
  /\ \E r \in XMSlots : raw' = r /\ slot' = XMSlot(r)
  /\ UNCHANGED <<module, memories>>

ReadMOD ==
  /\ format = "MOD" /\ pc = "reading" /\ pc' = "decoded"
  /\ \E r \in MODSlots : raw' = r /\ slot' = ModSlot(r)
  /\ UNCHANGED <<module, memories>>

(* Effects whose parameter the loader does not leave as it is.              *)
IsRewritten(r) ==
  \/ r.effect_type \in {19, 24}
  \/ r.effect_type = 17 /\ High(r.effect_param) = 0
  \/ r.effect_type = 2 /\ r.effect_param >= length

ReadS3M ==
  /\ format = "S3M" /\ pc = "reading" /\ pc' = "decoded"
  /\ \E r \in S3MSlots :
       /\ last_effect_parameter' = Remember(last_effect_parameter, r.effect_param)
       /\ raw' = r /\ slot' = S3MSlot(r, last_effect_parameter', left)
       /\ written' = IF IsRewritten(r) THEN Unknown ELSE Remember(written, r.effect_param)
  /\ UNCHANGED <<module, effect_param>>

(* A pattern starts without a parameter to recall.                          *)
StartPattern ==
  /\ pc = "reading" /\ last_effect_parameter # 0
  /\ last_effect_parameter' = 0
  /\ UNCHANGED <<module, pc, raw, slot, effect_param, written>>

Fixup ==
  /\ pc = "decoded" /\ pc' = "fixed"
  /\ slot' = FixedUp(slot, length, restart_position)
  /\ UNCHANGED <<module, raw, memories>>

(* xm_dump_context(), and xm_create_context() of the dump.                  *)
Reload ==
  /\ pc = "fixed"
  /\ slot' = FixedUp(slot, length, restart_position)
  /\ UNCHANGED <<module, pc, raw, memories>>

(* Only effects of .S3M files read the global memory of a channel.          *)
Play ==
  /\ format = "S3M" /\ pc = "fixed" /\ pc' = "reading"
  /\ effect_param' = Remember(effect_param, slot.effect_param)
  /\ raw' = NoSlot /\ slot' = NoSlot
  /\ UNCHANGED <<module, last_effect_parameter, written>>

Next ==
  \/ ReadXM \/ ReadMOD \/ ReadS3M
  \/ StartPattern \/ Fixup \/ Reload \/ Play
Spec == Init /\ [][Next]_vars

-----------------------------------------------------------------------------
(* What src/play.c does not check itself holds of every slot it plays: the  *)
(* channels and the sequencer assume it of their songs.                     *)
EffectsAreFixed == pc = "fixed" => IsFixedEffect(slot) /\ IsFixedJump(slot, length)

(* A context that was dumped and restored plays the slots it had: the fixup *)
(* that runs again has nothing left to do.                                  *)
FixupIsStable == [][pc = "fixed" /\ pc' = "fixed" => slot' = slot]_vars

(* No slot plays an arpeggio that its file does not ask for: an effect that *)
(* a loader deletes has type 0, and that is an arpeggio if it has a         *)
(* parameter left.                                                          *)
ArpeggiosAreWritten ==
  pc # "reading" /\ slot.effect_type = "ARPEGGIO" /\ slot.effect_param # 0 =>
    format # "S3M" /\ raw.effect_type = 0 /\ raw.effect_param = slot.effect_param

(* The files that have no notes but those their format has.                 *)
HasPlainNote ==
  CASE format = "XM" -> raw.note <= 97
    [] format = "MOD" -> TRUE
    [] format = "S3M" ->
         raw.note \in {Absent, 254, 255} \/ (High(raw.note) < 8 /\ Low(raw.note) < 12)

(* A note of a file is a note of a channel, and never one of the two        *)
(* numbers past the last note that ask for a retrigger or a switch: these   *)
(* are slots without a note.                                                *)
NotesAreNotes ==
  pc # "reading" /\ HasPlainNote =>
    /\ IsSlot(slot)
    /\ slot.note = NOTE_SWITCH =>
         /\ slot.instrument # 0
         /\ format = "MOD" => raw.period = 0
         /\ format = "S3M" => raw.note = 255
    /\ slot.note = NOTE_RETRIGGER =>
         format # "S3M" /\ raw.effect_type = 14 /\ raw.effect_param = 144

(* The periods of the notes of ProTracker, docs/modfil10.txt:608-613.       *)
PeriodTable ==
  <<<<1712, 1616, 1525, 1440, 1357, 1281, 1209, 1141, 1077, 1017, 961, 907>>,
    <<856, 808, 762, 720, 678, 640, 604, 570, 538, 508, 480, 453>>,
    <<428, 404, 381, 360, 339, 320, 302, 285, 269, 254, 240, 226>>,
    <<214, 202, 190, 180, 170, 160, 151, 143, 135, 127, 120, 113>>,
    <<107, 101, 95, 90, 85, 80, 76, 71, 67, 64, 60, 57>>>>

(* A period of the table gives the note it has there, whatever the rounding *)
(* of its halves, and a longer period never gives a higher note.            *)
NotesAreOfTheTable ==
  format = "MOD" /\ pc # "reading" /\ raw.period > 0 =>
    /\ \A octave \in 1 .. 5, n \in 1 .. 12 :
         PeriodTable[octave][n] = raw.period => slot.note = 12 * (octave + 1) + n
    /\ raw.period > 1 => slot.note <= ModNote(raw.period - 1)

NotesAreWritten == NotesAreNotes /\ NotesAreOfTheTable

(* What the effects with global memory recall is the last parameter in the  *)
(* file, also if the effect that had it is not supported, unless the loader *)
(* rewrote it.                                                              *)
MemoryIsWritten == pc = "reading" /\ written # Unknown => effect_param = written

(* docs/modfil10.txt:1126-1127 of E3y: "is ON (yyyy  is 1) or  OFF (yyyy is *)
(* 0)."  S1y of .S3M files is the same effect.                              *)
GlissandoIsAsked ==
  pc # "reading" /\ slot.effect_type = "SET_GLISSANDO_CONTROL" /\ raw.effect_param # 0 =>
    (slot.effect_param = 0 <=> Low(raw.effect_param) = 0)
=============================================================================
