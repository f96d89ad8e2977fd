----------------------------- MODULE MCSlotLoader -----------------------------
(***************************************************************************)
(* Slots for the runs of SlotLoader: every effect with every parameter,    *)
(* and every period, one at a time; the columns of .S3M files have the     *)
(* parameters that their loader and its memory tell apart.                 *)
(***************************************************************************)
EXTENDS SlotLoader

XMRaw(note, volume_column, type, param) ==
  [note |-> note, instrument |-> 1, volume_column |-> volume_column,
   effect_type |-> type, effect_param |-> param]
MCXMSlots ==
  {XMRaw(note, 0, type, param) : note \in {0, 97}, type \in 0 .. 36, param \in Byte}
    \union {XMRaw(note, volume, 0, 0) : note \in Byte, volume \in {0, 159, 160, 161}}

MODRaw(period, instrument, type, param) ==
  [period |-> period, instrument |-> instrument, effect_type |-> type, effect_param |-> param]
MCMODSlots ==
  {MODRaw(period, n, type, param) :
     period \in {0, 428}, n \in {0, 1}, type \in 0 .. 15, param \in Byte}
    \union {MODRaw(period, 1, 0, 0) : period \in 0 .. LongestPeriod}

S3MRaw(note, instrument, volume, type, param) ==
  [note |-> note, instrument |-> instrument, volume |-> volume,
   effect_type |-> type, effect_param |-> param]
MCS3MNotes == {Absent, 0, 64, 117, 123, 128, 254, 255}
MCS3MSlots ==
  {S3MRaw(Absent, 0, Absent, type, param) : type \in 0 .. 25, param \in {0, 34, 161}}
    \union {S3MRaw(64, 1, Absent, 19, 16 * x + y) : x \in 0 .. 15, y \in {0, 5}}
    \union {S3MRaw(64, 1, Absent, type, param) :
              type \in {20, 22, 24}, param \in {32, 33, 64, 65, 128, 129}}
    \union {S3MRaw(note, n, Absent, 0, 0) : note \in MCS3MNotes, n \in {0, 1}}
    \union {S3MRaw(64, 1, volume, 0, 0) : volume \in {0, 64, 239, 240}}

MCLengths == {0, 1, 3}
=============================================================================
