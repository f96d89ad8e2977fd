--------------------------- MODULE SlotLoaderProofs ---------------------------
(***************************************************************************)
(* Whatever slots a file holds, the effects src/play.c plays are within    *)
(* the bounds it relies on, no arpeggio comes from an effect that was      *)
(* deleted, a context that is dumped and restored keeps its slots, the two *)
(* memories of .S3M parameters agree, and notes are those of the file.     *)
(*                                                                         *)
(* xm_fixup_common() sees to some of the bounds, and the loaders to those  *)
(* of parameters of one hexadecimal digit: the invariant says of a decoded *)
(* slot what its loader has seen to, and of a fixed one that the fixup     *)
(* leaves it alone.                                                        *)
(***************************************************************************)
EXTENDS SlotLoader, FiniteSetTheorems, TLAPS

Digits == {"SET_FINETUNE", "DELAY_PATTERN", "PATTERN_LOOP"}

(* What loaders see to: s is an effect of a slot.                            *)
Limited(s) ==
  /\ s.effect_param \in Byte
  /\ s.effect_type \in Digits => s.effect_param < 16

(* An arpeggio is the effect 0 of .MOD and .XM files.                       *)
PlaysArpeggio(s) == s.effect_type = "ARPEGGIO" /\ s.effect_param # 0
Written(s, type, param) == PlaysArpeggio(s) => type = 0 /\ s.effect_param = param

-----------------------------------------------------------------------------
LEMMA Nibbles ==
  ASSUME NEW param \in Byte
  PROVE  High(param) \in 0 .. 15 /\ Low(param) \in 0 .. 15 /\ param = 16 * High(param) + Low(param)
BY DEF Byte, High, Low

LEMMA ExtendedIsLimited ==
  ASSUME NEW param \in Byte
  PROVE  Limited(ExtendedEffect(param)) /\ ~PlaysArpeggio(ExtendedEffect(param))
<1>1. CASE High(param) \in {0, 15}
  BY <1>1 DEF ExtendedEffect, NoEffect, Effect, Limited, PlaysArpeggio, Digits, Byte
<1>2. CASE High(param) \notin {0, 15}
  <2> DEFINE h == High(param)
             e == ExtendedEffect(param)
  <2>1. h \in 1 .. 14 /\ Low(param) \in 0 .. 15
    BY <1>2, Nibbles
  <2>2. e = Effect(ExtendedEffects[h], ExtendedParam(param))
    BY <1>2 DEF ExtendedEffect
  <2>3. ExtendedParam(param) \in Byte
    BY <2>1 DEF ExtendedParam, GlissandoParam, ControlParam, Byte
  <2>4. h \in {5, 6, 14} => ExtendedParam(param) < 16
    BY <2>1 DEF ExtendedParam
  <2>5. /\ ExtendedEffects[h] # "ARPEGGIO"
        /\ ExtendedEffects[h] \in Digits => h \in {5, 6, 14}
    BY <2>1 DEF ExtendedEffects, Digits
  <2> QED
    BY <2>2, <2>3, <2>4, <2>5 DEF Limited, PlaysArpeggio, Effect
<1> QED
  BY <1>1, <1>2

LEMMA ModIsLimited ==
  ASSUME NEW type \in 0 .. 15, NEW param \in Byte
  PROVE  Limited(ModEffect(type, param)) /\ Written(ModEffect(type, param), type, param)
<1> DEFINE e == ModEffect(type, param)
<1>1. CASE type = 0
  BY <1>1 DEF ModEffect, Effect, Limited, Written, Digits
<1>2. CASE type = 13
  <2>1. BreakParam(param) \in Byte
    <3>1. param - 6 * High(param) \in Int
      <4>1. High(param) \in 0 .. 15
        BY Nibbles
      <4>2. param \in Int
        BY DEF Byte
      <4> QED
        BY <4>1, <4>2
    <3>2. \A n \in Int : n % 256 \in 0 .. 255
      OBVIOUS
    <3> QED
      BY <3>1, <3>2 DEF BreakParam, Byte
  <2>2. e = Effect("PATTERN_BREAK", BreakParam(param))
    BY <1>2 DEF ModEffect
  <2> QED
    BY <2>1, <2>2 DEF Effect, Limited, Written, PlaysArpeggio, Digits
<1>3. CASE type = 14
  BY <1>3, ExtendedIsLimited DEF ModEffect, Written
<1>4. CASE type = 15
  BY <1>4 DEF ModEffect, Effect, Limited, Written, PlaysArpeggio, Digits
<1>5. CASE type \in 1 .. 12
  <2>1. e = Effect(ModEffects[type], param)
    BY <1>5 DEF ModEffect
  <2>2. ModEffects[type] # "ARPEGGIO" /\ ModEffects[type] \notin Digits
    BY <1>5 DEF ModEffects, Digits
  <2> QED
    BY <2>1, <2>2 DEF Effect, Limited, Written, PlaysArpeggio
<1> QED
  BY <1>1, <1>2, <1>3, <1>4, <1>5

LEMMA XMIsLimited ==
  ASSUME NEW type \in Byte, NEW param \in Byte
  PROVE  Limited(XMEffect(type, param)) /\ Written(XMEffect(type, param), type, param)
<1>1. CASE type <= 15
  <2> DEFINE e == ModEffect(type, param)
  <2>1. XMEffect(type, param) = WithoutRandom(e)
    BY <1>1 DEF XMEffect, XMLetters, Byte
  <2>2. type \in 0 .. 15
    BY <1>1 DEF Byte
  <2>3. Limited(e) /\ Written(e, type, param)
    BY <2>2, ModIsLimited
  <2>4. CASE WithoutRandom(e) = e
    BY <2>1, <2>3, <2>4
  <2>5. CASE WithoutRandom(e) # e
    <3>1. /\ e.effect_type \in {"SET_VIBRATO_CONTROL", "SET_TREMOLO_CONTROL"}
          /\ e.effect_param % 128 = 3
          /\ WithoutRandom(e) = [e EXCEPT !.effect_param = @ - 3 + 2]
      BY <2>5 DEF WithoutRandom, WAVEFORM_RANDOM, WAVEFORM_SQUARE
    <3>2. \E t, p : e = Effect(t, p)
      BY <1>1 DEF ModEffect, ExtendedEffect, NoEffect
    <3>3. PICK t, p : e = [effect_type |-> t, effect_param |-> p]
      BY <3>2 DEF Effect
    <3>4. WithoutRandom(e) = [effect_type |-> t, effect_param |-> p - 3 + 2]
      BY <3>1, <3>3
    <3>5. p \in Byte /\ p % 128 = 3 /\ t \in {"SET_VIBRATO_CONTROL", "SET_TREMOLO_CONTROL"}
      BY <2>3, <3>1, <3>3 DEF Limited
    <3>6. p - 3 + 2 \in Byte
      BY <3>5 DEF Byte
    <3> QED
      BY <2>1, <3>4, <3>5, <3>6 DEF Limited, Written, PlaysArpeggio, Digits
  <2> QED
    BY <2>4, <2>5
<1>2. CASE type > 15
  <2>1. CASE type \in XMLetters /\ ~(type = 20 /\ param = 0)
    BY <2>1 DEF XMEffect, XMLetters, XMLetterEffect, Effect, Limited, Written, PlaysArpeggio, Digits
  <2>2. CASE type = 33 /\ High(param) \in {1, 2}
    <3>1. XMEffect(type, param) = Effect(ExtraFineEffects[High(param)], Low(param))
      BY <2>2 DEF XMEffect, XMLetters
    <3>2. ExtraFineEffects[High(param)] \in
            {"EXTRA_FINE_PORTAMENTO_UP", "EXTRA_FINE_PORTAMENTO_DOWN"}
      BY <2>2 DEF ExtraFineEffects
    <3>3. Low(param) \in 0 .. 15
      BY Nibbles
    <3> QED
      BY <3>1, <3>2, <3>3 DEF Effect, Limited, Written, PlaysArpeggio, Digits, Byte
  <2>3. CASE /\ ~(type \in XMLetters /\ ~(type = 20 /\ param = 0))
             /\ ~(type = 33 /\ High(param) \in {1, 2})
    <3>1. XMEffect(type, param) = NoEffect
      BY <1>2, <2>3 DEF XMEffect, Byte
    <3> QED
      BY <3>1 DEF NoEffect, Effect, Limited, Written, PlaysArpeggio, Digits, Byte
  <2> QED
    BY <2>1, <2>2, <2>3
<1> QED
  BY <1>1, <1>2 DEF Byte

LEMMA ProTrackerIsLimited ==
  ASSUME NEW type \in 0 .. 15, NEW param \in Byte
  PROVE  LET e == ProTracker(WithoutMemory(ModEffect(type, param)))
         IN  Limited(e) /\ Written(e, type, param)
<1> DEFINE e == ModEffect(type, param)
           w == WithoutMemory(e)
<1>1. PICK t, p : e = [effect_type |-> t, effect_param |-> p]
  <2>1. \E t, p : e = Effect(t, p)
    BY DEF ModEffect, ExtendedEffect, NoEffect
  <2> QED
    BY <2>1 DEF Effect
<1>2. Limited(e) /\ Written(e, type, param)
  BY ModIsLimited
<1>3. p \in Byte /\ (t \in Digits => p < 16)
  BY <1>1, <1>2 DEF Limited
<1>4. CASE p # 0
  <2>1. w = e
    BY <1>1, <1>4 DEF WithoutMemory
  <2>2. CASE t = "SET_FINETUNE"
    <3>1. ProTracker(w) = [effect_type |-> t, effect_param |-> (p + 8) % 16]
      BY <1>1, <2>1, <2>2 DEF ProTracker
    <3>2. (p + 8) % 16 \in 0 .. 15
      BY <1>3 DEF Byte
    <3> QED
      BY <2>2, <3>1, <3>2 DEF Limited, Written, PlaysArpeggio, Byte
  <2>3. CASE t = "SET_PANNING"
    BY <1>1, <1>3, <2>1, <2>3 DEF ProTracker, Limited, Written, PlaysArpeggio, Digits
  <2>4. CASE t \notin {"SET_FINETUNE", "SET_PANNING"}
    <3>1. ProTracker(w) = e
      BY <1>1, <2>1, <2>4 DEF ProTracker
    <3> QED
      BY <1>2, <3>1
  <2> QED
    BY <2>2, <2>3, <2>4
<1>5. CASE p = 0
  <2>1. PICK u : w = [effect_type |-> u, effect_param |-> 0]
    BY <1>1, <1>5 DEF WithoutMemory, NoEffect, Effect
  <2>2. \/ ProTracker(w) = [effect_type |-> u, effect_param |-> (0 + 8) % 16]
        \/ ProTracker(w) = [effect_type |-> "SET_CHANNEL_PANNING", effect_param |-> 0]
        \/ ProTracker(w) = w
    BY <2>1 DEF ProTracker
  <2>3. u = "SET_FINETUNE" \/ ProTracker(w).effect_param = 0
    BY <2>1 DEF ProTracker
  <2>4. ProTracker(w).effect_param \in 0 .. 15
    BY <2>1, <2>2
  <2>5. u = "SET_FINETUNE" => ProTracker(w).effect_type = u
    BY <2>1 DEF ProTracker
  <2> QED
    BY <2>3, <2>4, <2>5 DEF Limited, Written, PlaysArpeggio, Byte
<1> QED
  BY <1>4, <1>5

-----------------------------------------------------------------------------
(* .S3M: the parameter of a slot is that of the file, but for the effects   *)
(* whose parameter the loader rewrites.                                     *)

LEMMA BlankedIsLimited ==
  ASSUME NEW param \in Byte
  PROVE  /\ Limited(Blanked(param)) /\ ~PlaysArpeggio(Blanked(param))
         /\ Blanked(param).effect_param = param
         /\ Blanked(param).effect_type \in {"NOP", "ARPEGGIO"}
BY DEF Blanked, NoEffect, Effect, Limited, PlaysArpeggio, Digits, Byte

LEMMA SpecialIsLimited ==
  ASSUME NEW param \in Byte, NEW l
  PROVE  Limited(S3MSpecial(param, l)) /\ ~PlaysArpeggio(S3MSpecial(param, l))
<1>1. High(param) \in 0 .. 15 /\ Low(param) \in 0 .. 15
  BY Nibbles
<1>2. CASE High(param) \in {1, 2, 3, 4, 8, 11, 12, 13, 14}
  <2>1. CASE High(param) = 1
    <3>1. S3MSpecial(param, l) = Effect("SET_GLISSANDO_CONTROL", GlissandoParam(param))
      BY <2>1 DEF S3MSpecial
    <3> QED
      BY <1>1, <3>1 DEF GlissandoParam, Effect, Limited, PlaysArpeggio, Digits, Byte
  <2>2. CASE High(param) = 2
    <3>1. S3MSpecial(param, l) = Effect("SET_FINETUNE", Low(param))
      BY <2>2 DEF S3MSpecial
    <3> QED
      BY <1>1, <3>1 DEF Effect, Limited, PlaysArpeggio, Digits, Byte
  <2>3. CASE High(param) = 3
    <3>1. S3MSpecial(param, l) = Effect("SET_VIBRATO_CONTROL", param % 4)
      BY <2>3 DEF S3MSpecial
    <3> QED
      BY <1>1, <3>1 DEF Effect, Limited, PlaysArpeggio, Digits, Byte
  <2>4. CASE High(param) = 4
    <3>1. S3MSpecial(param, l) = Effect("SET_TREMOLO_CONTROL", param % 4)
      BY <2>4 DEF S3MSpecial
    <3> QED
      BY <1>1, <3>1 DEF Effect, Limited, PlaysArpeggio, Digits, Byte
  <2>5. CASE High(param) = 8
    <3>1. S3MSpecial(param, l) = Effect("SET_CHANNEL_PANNING", 17 * Low(param))
      BY <2>5 DEF S3MSpecial
    <3> QED
      BY <1>1, <3>1 DEF Effect, Limited, PlaysArpeggio, Digits, Byte
  <2>6. CASE High(param) = 11
    <3>1. S3MSpecial(param, l) = Effect("PATTERN_LOOP", Low(param))
      BY <2>6 DEF S3MSpecial
    <3> QED
      BY <1>1, <3>1 DEF Effect, Limited, PlaysArpeggio, Digits, Byte
  <2>7. CASE High(param) = 12
    <3>1. S3MSpecial(param, l) = Effect("CUT_NOTE", Low(param))
      BY <2>7 DEF S3MSpecial
    <3> QED
      BY <1>1, <3>1 DEF Effect, Limited, PlaysArpeggio, Digits, Byte
  <2>8. CASE High(param) = 13
    <3>1. S3MSpecial(param, l) = Effect("DELAY_NOTE", Low(param))
      BY <2>8 DEF S3MSpecial
    <3> QED
      BY <1>1, <3>1 DEF Effect, Limited, PlaysArpeggio, Digits, Byte
  <2>9. CASE High(param) = 14
    <3>1. S3MSpecial(param, l) = Effect("DELAY_PATTERN", Low(param))
      BY <2>9 DEF S3MSpecial
    <3> QED
      BY <1>1, <3>1 DEF Effect, Limited, PlaysArpeggio, Digits, Byte
  <2> QED
    BY <1>2, <2>1, <2>2, <2>3, <2>4, <2>5, <2>6, <2>7, <2>8, <2>9
<1>3. CASE High(param) = 10
  <2>1. S3MSpecial(param, l) = S3MStereo(param, l)
    BY <1>3 DEF S3MSpecial
  <2>2. CASE Low(param) \in 0 .. 7
    BY <1>1, <2>1, <2>2 DEF S3MStereo, Effect, Limited, PlaysArpeggio, Digits, Byte
  <2>3. CASE Low(param) \notin 0 .. 7
    <3>1. S3MStereo(param, l) = Blanked(param)
      BY <1>1, <2>3 DEF S3MStereo
    <3> QED
      BY <2>1, <3>1, BlankedIsLimited
  <2> QED
    BY <2>2, <2>3
<1>4. CASE High(param) \in {0, 5, 6, 7, 9, 15}
  <2>1. S3MSpecial(param, l) = Blanked(param)
    BY <1>4 DEF S3MSpecial
  <2> QED
    BY <2>1, BlankedIsLimited
<1> QED
  BY <1>1, <1>2, <1>3, <1>4

(* What is kept of a parameter that is not rewritten, through the fixup.    *)
Kept(s, len, restart) == FixedEffect(s, len, restart).effect_param = s.effect_param

LEMMA S3MIsLimited ==
  ASSUME NEW type \in Byte, NEW param \in Byte, NEW last \in Byte, NEW l,
         NEW len \in 0 .. 256, NEW restart \in Nat
  PROVE  LET e == S3MEffect(type, param, last, l)
         IN  /\ Limited(e) /\ ~PlaysArpeggio(e)
             /\ \/ type \in {19, 24}
                \/ type = 17 /\ High(param) = 0
                \/ type = 2 /\ param >= len
                \/ e.effect_param = param /\ Kept(e, len, restart)
<1> DEFINE e == S3MEffect(type, param, last, l)
<1> USE DEF Byte, Effect
<1>1. High(param) \in 0 .. 15 /\ param = 16 * High(param) + Low(param) /\ Low(param) \in 0 .. 15
  BY Nibbles
<1>2. CASE type = 1 /\ param > 0
  <2>1. e = Effect("SET_TEMPO", param)
    BY <1>2 DEF S3MEffect, S3MLetters
  <2> QED
    BY <1>2, <2>1 DEF Limited, PlaysArpeggio, Digits, Kept, FixedEffect
<1>3. CASE type = 2
  <2>1. e = Effect("JUMP_TO_ORDER", param)
    BY <1>3 DEF S3MEffect, S3MLetters
  <2> QED
    BY <1>3, <2>1 DEF Limited, PlaysArpeggio, Digits, Kept, FixedEffect, FixedOrder
<1>4. CASE type = 3
  <2>1. e = Effect("PATTERN_BREAK", param)
    BY <1>4 DEF S3MEffect, S3MLetters
  <2> QED
    BY <1>4, <2>1 DEF Limited, PlaysArpeggio, Digits, Kept, FixedEffect
<1>5. CASE type = 17
  <2>1. e = Effect("S3M_MULTI_RETRIG_NOTE", IF High(param) = 0 THEN param + 128 ELSE param)
    BY <1>5 DEF S3MEffect, S3MLetters
  <2> QED
    BY <1>1, <1>5, <2>1 DEF Limited, PlaysArpeggio, Digits, Kept, FixedEffect
<1>6. CASE type = 19
  <2>1. CASE param > 0
    <3>1. e = S3MSpecial(param, l)
      BY <1>6, <2>1 DEF S3MEffect, S3MLetters
    <3> QED
      BY <1>6, <3>1, SpecialIsLimited
  <2>2. CASE param = 0 /\ last > 0
    <3>1. e = S3MSpecial(last, l)
      BY <1>6, <2>2 DEF S3MEffect, S3MLetters
    <3> QED
      BY <1>6, <3>1, SpecialIsLimited
  <2>3. CASE param = 0 /\ last = 0
    <3>1. e = Blanked(param)
      BY <1>6, <2>3 DEF S3MEffect, S3MLetters
    <3> QED
      BY <1>6, <3>1, BlankedIsLimited
  <2> QED
    BY <2>1, <2>2, <2>3
<1>7. CASE type = 20 /\ param > 32
  <2>1. e = Effect("SET_BPM", param)
    BY <1>7 DEF S3MEffect, S3MLetters
  <2> QED
    BY <1>7, <2>1 DEF Limited, PlaysArpeggio, Digits, Kept, FixedEffect
<1>8. CASE type = 22 /\ param <= MAX_VOLUME
  <2>1. e = Effect("SET_GLOBAL_VOLUME", param)
    BY <1>8 DEF S3MEffect, S3MLetters
  <2> QED
    BY <1>8, <2>1 DEF Limited, PlaysArpeggio, Digits, Kept, FixedEffect, MAX_VOLUME
<1>9. CASE type = 24 /\ param <= 128
  <2>1. e = Effect("SET_CHANNEL_PANNING", S3MPanning(param))
    BY <1>9 DEF S3MEffect, S3MLetters
  <2> QED
    BY <1>9, <2>1 DEF S3MPanning, Limited, PlaysArpeggio, Digits
<1>10. CASE type \in S3MLetters
  <2>1. e = Effect(S3MLetterEffect(type), param)
    BY <1>10 DEF S3MEffect, S3MLetters
  <2>2. S3MLetterEffect(type) \in
          {"S3M_VOLUME_SLIDE", "S3M_PORTAMENTO_DOWN", "S3M_PORTAMENTO_UP", "TONE_PORTAMENTO",
           "VIBRATO", "S3M_TREMOR", "S3M_ARPEGGIO", "S3M_VIBRATO_VOLUME_SLIDE",
           "S3M_TONE_PORTAMENTO_VOLUME_SLIDE", "SET_SAMPLE_OFFSET", "S3M_TREMOLO",
           "FINE_VIBRATO"}
    BY <1>10 DEF S3MLetters, S3MLetterEffect
  <2> QED
    BY <2>1, <2>2 DEF Limited, PlaysArpeggio, Digits, Kept, FixedEffect
<1>11. CASE /\ ~(type = 1 /\ param > 0) /\ type \notin {2, 3, 17, 19}
            /\ ~(type = 20 /\ param > 32) /\ ~(type = 22 /\ param <= MAX_VOLUME)
            /\ ~(type = 24 /\ param <= 128) /\ type \notin S3MLetters
  <2>1. e = Blanked(param)
    BY <1>11 DEF S3MEffect, S3MLetters
  <2>2. Kept(Blanked(param), len, restart)
    BY DEF Kept, FixedEffect, Blanked, NoEffect
  <2> QED
    BY <2>1, <2>2, BlankedIsLimited
<1> QED
  BY <1>2, <1>3, <1>4, <1>5, <1>6, <1>7, <1>8, <1>9, <1>10, <1>11

-----------------------------------------------------------------------------
(* xm_fixup_common() sees to the rest, and once is enough.                   *)

LEMMA FixupFixes ==
  ASSUME NEW s, Limited(s), NEW len \in 0 .. 256, NEW restart \in RestartPositions(len)
  PROVE  /\ IsFixedEffect(FixedUp(s, len, restart)) /\ IsFixedJump(FixedUp(s, len, restart), len)
         /\ Limited(FixedUp(s, len, restart))
         /\ PlaysArpeggio(FixedUp(s, len, restart)) =>
              s.effect_type = "ARPEGGIO" /\ FixedUp(s, len, restart).effect_param = s.effect_param
<1> DEFINE e == FixedEffect(s, len, restart)
           f == FixedUp(s, len, restart)
<1>1. f.effect_type = e.effect_type /\ f.effect_param = e.effect_param
  BY DEF FixedUp, SlotOf
<1>2. s.effect_param \in 0 .. 255 /\ restart \in 0 .. 255 /\ (restart < len \/ restart = 0)
  BY DEF Limited, Byte, RestartPositions
<1>3. CASE s.effect_type = "JUMP_TO_ORDER"
  <2>1. e = Effect("JUMP_TO_ORDER", FixedOrder(s.effect_param, len))
    BY <1>3 DEF FixedEffect
  <2>2. LET o == FixedOrder(s.effect_param, len)
        IN  o \in 0 .. 255 /\ (o < len \/ o = 0)
    BY <1>2 DEF FixedOrder
  <2> QED
    BY <1>1, <2>1, <2>2 DEF Effect, IsFixedEffect, IsFixedJump, Limited, Digits, PlaysArpeggio, Byte
<1>4. CASE s.effect_type \in {"SET_VOLUME", "SET_GLOBAL_VOLUME"}
  <2>1. e.effect_type = s.effect_type /\ e.effect_param \in 0 .. MAX_VOLUME
    BY <1>2, <1>4 DEF FixedEffect, Effect, MAX_VOLUME
  <2> QED
    BY <1>1, <1>4, <2>1 DEF MAX_VOLUME, IsFixedEffect, IsFixedJump, Limited,
        Digits, PlaysArpeggio, Byte
<1>5. CASE s.effect_type = "CUT_NOTE"
  <2>1. e = IF s.effect_param = 0 THEN Effect("SET_VOLUME", 0)
            ELSE Effect("CUT_NOTE", s.effect_param)
    BY <1>5 DEF FixedEffect
  <2> QED
    BY <1>1, <1>2, <2>1 DEF Effect, MAX_VOLUME, IsFixedEffect, IsFixedJump, Limited,
        Digits, PlaysArpeggio, Byte
<1>6. CASE s.effect_type \in {"DELAY_NOTE", "RETRIGGER_NOTE"}
  <2>1. e = IF s.effect_param = 0 THEN NoEffect ELSE Effect(s.effect_type, s.effect_param)
    BY <1>6 DEF FixedEffect
  <2> QED
    BY <1>1, <1>2, <1>6, <2>1
    DEF NoEffect, Effect, IsFixedEffect, IsFixedJump, Limited, Digits, PlaysArpeggio, Byte
<1>7. CASE s.effect_type \in {"SET_TEMPO", "SET_BPM"}
  <2>1. e = IF s.effect_param = 0 THEN Effect("JUMP_TO_ORDER", restart)
            ELSE Effect(s.effect_type, s.effect_param)
    BY <1>7 DEF FixedEffect
  <2> QED
    BY <1>1, <1>2, <1>7, <2>1 DEF Effect, IsFixedEffect, IsFixedJump, Limited,
        Digits, PlaysArpeggio, Byte
<1>8. CASE s.effect_type \notin {"JUMP_TO_ORDER", "SET_VOLUME", "SET_GLOBAL_VOLUME", "CUT_NOTE",
                                "DELAY_NOTE", "RETRIGGER_NOTE", "SET_TEMPO", "SET_BPM"}
  <2>1. e = Effect(s.effect_type, s.effect_param)
    BY <1>8 DEF FixedEffect
  <2> QED
    BY <1>1, <1>2, <1>8, <2>1 DEF Effect, IsFixedEffect, IsFixedJump, Limited, Digits, PlaysArpeggio
<1> QED
  BY <1>3, <1>4, <1>5, <1>6, <1>7, <1>8

LEMMA NothingToFix ==
  ASSUME NEW s, NEW len, NEW restart, s.effect_param \in 0 .. 255, len \in 0 .. 256,
         s.effect_type \in {"SET_VOLUME", "SET_GLOBAL_VOLUME"} => s.effect_param <= MAX_VOLUME,
         s.effect_type \in {"RETRIGGER_NOTE", "DELAY_NOTE", "CUT_NOTE"} => s.effect_param > 0,
         s.effect_type = "JUMP_TO_ORDER" => s.effect_param < len \/ s.effect_param = 0,
         s.effect_type \in {"SET_TEMPO", "SET_BPM"} => s.effect_param > 0
  PROVE  FixedEffect(s, len, restart) = Effect(s.effect_type, s.effect_param)
<1>1. CASE s.effect_type = "JUMP_TO_ORDER"
  <2>1. FixedEffect(s, len, restart) = Effect("JUMP_TO_ORDER", FixedOrder(s.effect_param, len))
    BY <1>1 DEF FixedEffect
  <2>2. FixedOrder(s.effect_param, len) = s.effect_param
    BY <1>1 DEF FixedOrder
  <2> QED
    BY <1>1, <2>1, <2>2
<1>2. CASE s.effect_type # "JUMP_TO_ORDER"
  <2>1. ~(s.effect_type \in {"SET_VOLUME", "SET_GLOBAL_VOLUME"} /\ s.effect_param > MAX_VOLUME)
    BY DEF MAX_VOLUME
  <2>2. /\ ~(s.effect_type = "CUT_NOTE" /\ s.effect_param = 0)
        /\ ~(s.effect_type \in {"DELAY_NOTE", "RETRIGGER_NOTE"} /\ s.effect_param = 0)
        /\ ~(s.effect_type \in {"SET_TEMPO", "SET_BPM"} /\ s.effect_param = 0)
    OBVIOUS
  <2> QED
    BY <1>2, <2>1, <2>2 DEF FixedEffect
<1> QED
  BY <1>1, <1>2

(* A slot the fixup leaves alone. *)
Settled(s, len, restart) == FixedUp(s, len, restart) = s

LEMMA FixupSettles ==
  ASSUME NEW s, Limited(s), NEW len \in 0 .. 256, NEW restart \in RestartPositions(len)
  PROVE  Settled(FixedUp(s, len, restart), len, restart)
<1> DEFINE f == FixedUp(s, len, restart)
           g == FixedEffect(f, len, restart)
<1>1. /\ f.effect_type \in {"SET_VOLUME", "SET_GLOBAL_VOLUME"} => f.effect_param <= MAX_VOLUME
      /\ f.effect_type \in {"RETRIGGER_NOTE", "DELAY_NOTE", "CUT_NOTE"} => f.effect_param > 0
      /\ f.effect_type = "JUMP_TO_ORDER" => f.effect_param < len \/ f.effect_param = 0
      /\ f.effect_type \in {"SET_TEMPO", "SET_BPM"} => f.effect_param > 0
      /\ f.effect_param \in 0 .. 255
  <2>1. IsFixedEffect(f) /\ IsFixedJump(f, len) /\ Limited(f)
    BY FixupFixes
  <2> HIDE DEF f
  <2> QED
    BY <2>1 DEF IsFixedEffect, IsFixedJump, Limited, Byte
<1> DEFINE t == f.effect_type
           p == f.effect_param
<1>2. g = Effect(t, p)
  BY <1>1, NothingToFix
<1>3. FixedNote(f) = f.note
  <2>1. ~(f.effect_type = "RETRIGGER_NOTE" /\ f.effect_param = 0)
    BY <1>1
  <2> QED
    BY <2>1 DEF FixedNote
<1>4. FixedColumn(f) = f.volume_column
  BY DEF FixedColumn, FixedUp, SlotOf
<1>5. f = [note |-> f.note, instrument |-> f.instrument, volume_column |-> f.volume_column,
           effect_type |-> t, effect_param |-> p]
  BY DEF FixedUp, SlotOf
<1>6. FixedUp(f, len, restart)
        = [note |-> FixedNote(f), instrument |-> f.instrument, volume_column |-> FixedColumn(f),
           effect_type |-> g.effect_type, effect_param |-> g.effect_param]
  BY DEF FixedUp, SlotOf
<1>7. g.effect_type = t /\ g.effect_param = p
  BY <1>2 DEF Effect
<1> QED
  BY <1>3, <1>4, <1>5, <1>6, <1>7 DEF Settled

-----------------------------------------------------------------------------
(* The invariant.                                                            *)

(* A slot that is decoded has what its loader sees to; one that is fixed    *)
(* has what src/play.c relies on, and the fixup leaves it alone.            *)
IsDecoded ==
  /\ Limited(slot)
  /\ PlaysArpeggio(slot) => format # "S3M" /\ Written(slot, raw.effect_type, raw.effect_param)
Agrees ==
  written = Unknown \/ written = Remember(effect_param, slot.effect_param)

Inv ==
  /\ length \in 0 .. 256 /\ restart_position \in RestartPositions(length)
  /\ last_effect_parameter \in Byte
  /\ pc \in {"reading", "decoded", "fixed"}
  /\ pc = "reading" => written \in {Unknown, effect_param}
  /\ pc = "decoded" =>
       /\ IsDecoded
       /\ format = "S3M" => Agrees /\ (written = Unknown \/ Kept(slot, length, restart_position))
  /\ pc = "fixed" =>
       /\ IsDecoded
       /\ IsFixedEffect(slot) /\ IsFixedJump(slot, length)
       /\ Settled(slot, length, restart_position)
       /\ format = "S3M" => Agrees

LEMMA InitInv == Init => Inv
<1> SUFFICES ASSUME Init PROVE Inv
  OBVIOUS
<1>1. length \in 0 .. 256
  BY LengthsAssumption DEF Init
<1>2. restart_position \in RestartPositions(length)
  BY <1>1 DEF Init, RestartPositions
<1>3. last_effect_parameter \in Byte
  BY DEF Init, Byte
<1>4. pc = "reading" /\ written = effect_param
  BY DEF Init
<1> QED
  BY <1>1, <1>2, <1>3, <1>4 DEF Inv

LEMMA SlotFields ==
  ASSUME NEW note, NEW instrument, NEW column, NEW e, Limited(e)
  PROVE  LET s == SlotOf(note, instrument, column, e)
         IN  /\ s.effect_type = e.effect_type /\ s.effect_param = e.effect_param
             /\ Limited(s) /\ (PlaysArpeggio(s) <=> PlaysArpeggio(e))
BY DEF SlotOf, Limited, PlaysArpeggio

LEMMA ReadXMInv == Inv /\ ReadXM => Inv'
<1> SUFFICES ASSUME Inv, ReadXM PROVE Inv'
  OBVIOUS
<1>1. PICK r \in XMSlots : raw' = r /\ slot' = XMSlot(r)
  BY DEF ReadXM
<1>2. r.effect_type \in Byte /\ r.effect_param \in Byte
  BY XMSlotsAssumption DEF IsRawEffect
<1> DEFINE e == XMEffect(r.effect_type, r.effect_param)
<1>3. Limited(e) /\ Written(e, r.effect_type, r.effect_param)
  BY <1>2, XMIsLimited
<1>4. /\ Limited(slot') /\ slot'.effect_param = e.effect_param
      /\ PlaysArpeggio(slot') => PlaysArpeggio(e)
  BY <1>1, <1>3, SlotFields DEF XMSlot
<1>5. IsDecoded'
  BY <1>1, <1>3, <1>4 DEF ReadXM, module, IsDecoded, Written, Limited, PlaysArpeggio
<1> QED
  BY <1>5 DEF Inv, ReadXM, module, memories

LEMMA ReadMODInv == Inv /\ ReadMOD => Inv'
<1> SUFFICES ASSUME Inv, ReadMOD PROVE Inv'
  OBVIOUS
<1>1. PICK r \in MODSlots : raw' = r /\ slot' = ModSlot(r)
  BY DEF ReadMOD
<1>2. r.effect_type \in 0 .. 15 /\ r.effect_param \in Byte
  BY MODSlotsAssumption
<1> DEFINE e == ProTracker(WithoutMemory(ModEffect(r.effect_type, r.effect_param)))
<1>3. Limited(e) /\ Written(e, r.effect_type, r.effect_param)
  BY <1>2, ProTrackerIsLimited
<1>4. /\ Limited(slot') /\ slot'.effect_param = e.effect_param
      /\ PlaysArpeggio(slot') => PlaysArpeggio(e)
  BY <1>1, <1>3, SlotFields DEF ModSlot
<1>5. IsDecoded'
  BY <1>1, <1>3, <1>4 DEF ReadMOD, module, IsDecoded, Written, Limited, PlaysArpeggio
<1> QED
  BY <1>5 DEF Inv, ReadMOD, module, memories

(* The parameter the channel will recall is the one just read, or the one   *)
(* it recalls already.                                                      *)
LEMMA ReadS3MInv == Inv /\ ReadS3M => Inv'
<1> SUFFICES ASSUME Inv, ReadS3M PROVE Inv'
  OBVIOUS
<1>1. PICK r \in S3MSlots :
        /\ last_effect_parameter' = Remember(last_effect_parameter, r.effect_param)
        /\ slot' = S3MSlot(r, last_effect_parameter', left)
        /\ written' = IF IsRewritten(r) THEN Unknown ELSE Remember(written, r.effect_param)
  BY DEF ReadS3M
<1>2. r.effect_type \in Byte /\ r.effect_param \in Byte
  BY S3MSlotsAssumption DEF IsRawEffect
<1>3. last_effect_parameter' \in Byte
  BY <1>1, <1>2 DEF Inv, Remember
<1> DEFINE last == last_effect_parameter'
           e == S3MEffect(r.effect_type, r.effect_param, last, left)
<1>4. length \in 0 .. 256 /\ restart_position \in Nat
  BY DEF Inv, RestartPositions
<1>5. /\ Limited(e) /\ ~PlaysArpeggio(e)
      /\ \/ IsRewritten(r)
         \/ e.effect_param = r.effect_param /\ Kept(e, length, restart_position)
  <2> HIDE DEF last
  <2>1. last \in Byte
    BY <1>3 DEF last
  <2>2. /\ Limited(e) /\ ~PlaysArpeggio(e)
        /\ \/ r.effect_type \in {19, 24}
           \/ r.effect_type = 17 /\ High(r.effect_param) = 0
           \/ r.effect_type = 2 /\ r.effect_param >= length
           \/ e.effect_param = r.effect_param /\ Kept(e, length, restart_position)
    BY <1>2, <1>4, <2>1, S3MIsLimited
  <2> HIDE DEF e
  <2> QED
    BY <2>2 DEF IsRewritten
<1>6. /\ slot'.effect_type = e.effect_type /\ slot'.effect_param = e.effect_param
      /\ Limited(slot') /\ ~PlaysArpeggio(slot')
  BY <1>1, <1>5, SlotFields DEF S3MSlot
<1>7. UNCHANGED <<format, length, restart_position, left, effect_param>> /\ pc' = "decoded"
  BY DEF ReadS3M, module
<1>8. IsDecoded'
  BY <1>6 DEF IsDecoded, Limited, PlaysArpeggio
<1>9. CASE IsRewritten(r)
  BY <1>1, <1>3, <1>7, <1>8, <1>9 DEF Inv, Agrees
<1>10. CASE ~IsRewritten(r)
  <2>1. written' = Remember(written, r.effect_param) /\ slot'.effect_param = r.effect_param
    BY <1>1, <1>5, <1>6, <1>10
  <2>2. written \in {Unknown, effect_param}
    BY DEF Inv, ReadS3M
  <2>3. Agrees'
    BY <1>7, <2>1, <2>2 DEF Agrees, Remember
  <2>4. FixedEffect(slot', length, restart_position) = FixedEffect(e, length, restart_position)
    BY <1>6 DEF FixedEffect
  <2>5. Kept(slot, length, restart_position)'
    BY <1>5, <1>6, <1>7, <1>10, <2>4 DEF Kept
  <2> QED
    BY <1>3, <1>7, <1>8, <2>3, <2>5 DEF Inv
<1> QED
  BY <1>9, <1>10

(* Fixing a slot up, for the first time or once more. *)
LEMMA FixupInv == Inv /\ Fixup => Inv'
<1> SUFFICES ASSUME Inv, Fixup PROVE Inv'
  OBVIOUS
<1> DEFINE f == FixedUp(slot, length, restart_position)
<1>1. /\ length \in 0 .. 256 /\ restart_position \in RestartPositions(length)
      /\ IsDecoded
      /\ format = "S3M" => Agrees /\ (written = Unknown \/ Kept(slot, length, restart_position))
  BY DEF Inv, Fixup
<1>2. /\ slot' = f /\ pc' = "fixed"
      /\ UNCHANGED <<format, length, restart_position, left, raw, last_effect_parameter,
                     effect_param, written>>
  BY DEF Fixup, module, memories
<1>3. /\ IsFixedEffect(f) /\ IsFixedJump(f, length) /\ Limited(f)
      /\ PlaysArpeggio(f) => slot.effect_type = "ARPEGGIO" /\ f.effect_param = slot.effect_param
  BY <1>1, FixupFixes DEF IsDecoded
<1>4. Settled(f, length, restart_position)
  BY <1>1, FixupSettles DEF IsDecoded
<1>5. PlaysArpeggio(f) => PlaysArpeggio(slot) /\ f.effect_param = slot.effect_param
  BY <1>3 DEF PlaysArpeggio
<1>6. IsDecoded'
  BY <1>1, <1>2, <1>3, <1>5 DEF IsDecoded, Limited, Written, PlaysArpeggio
<1>7. format = "S3M" => Agrees'
  <2>1. f.effect_param = FixedEffect(slot, length, restart_position).effect_param
    BY DEF FixedUp, SlotOf
  <2> QED
    BY <1>1, <1>2, <2>1 DEF Agrees, Kept
<1> QED
  BY <1>1, <1>2, <1>3, <1>4, <1>6, <1>7 DEF Inv

LEMMA NextInv == Inv /\ [Next]_vars => Inv'
<1> SUFFICES ASSUME Inv, [Next]_vars PROVE Inv'
  OBVIOUS
<1>1. CASE ReadXM
  BY <1>1, ReadXMInv
<1>2. CASE ReadMOD
  BY <1>2, ReadMODInv
<1>3. CASE ReadS3M
  BY <1>3, ReadS3MInv
<1>4. CASE StartPattern
  BY <1>4 DEF StartPattern, Inv, module, Byte
<1>5. CASE Fixup
  BY <1>5, FixupInv
<1>6. CASE Reload
  <2>1. slot' = slot
    BY <1>6 DEF Reload, Inv, Settled
  <2> QED
    BY <1>6, <2>1 DEF Reload, Inv, IsDecoded, Agrees, module, memories
<1>7. CASE Play
  <2>1. Agrees /\ effect_param' = Remember(effect_param, slot.effect_param) /\ written' = written
    BY <1>7 DEF Play, Inv
  <2>2. written' \in {Unknown, effect_param'}
    BY <2>1 DEF Agrees
  <2> QED
    BY <1>7, <2>2 DEF Play, Inv, module
<1>8. CASE UNCHANGED vars
  BY <1>8 DEF vars, module, memories, Inv, IsDecoded, Agrees
<1> QED
  BY <1>1, <1>2, <1>3, <1>4, <1>5, <1>6, <1>7, <1>8 DEF Next

LEMMA SpecInv == Spec => []Inv
BY InitInv, NextInv, PTL DEF Spec

-----------------------------------------------------------------------------
(* The octave of a period.                                                  *)

LEMMA LeastNumber ==
  ASSUME NEW U, U \subseteq Nat, U # {}
  PROVE  \E x \in U : \A y \in U : x <= y
<1> DEFINE Less == {p \in Nat \X Nat : p[1] < p[2]}
<1>1. IsWellFoundedOn(Less, Nat)
  BY NatLessThanWellFounded DEF OpToRel
<1>2. PICK x \in U : \A y \in U : <<y, x>> \notin Less
  <2> HIDE DEF Less
  <2> QED
    BY <1>1, WFMin
<1>3. ASSUME NEW y \in U
      PROVE  x <= y
  <2>1. <<y, x>> \notin Less /\ x \in Nat /\ y \in Nat
    BY <1>2
  <2> QED
    BY <2>1
<1> QED
  BY <1>3

LEMMA SetInduction ==
  ASSUME NEW T, 0 \in T, \A n \in Nat : n \in T => n + 1 \in T
  PROVE  Nat \subseteq T
<1> DEFINE U == Nat \ T
<1> SUFFICES ASSUME U # {} PROVE FALSE
  OBVIOUS
<1>1. PICK x \in U : \A y \in U : x <= y
  BY LeastNumber
<1>2. x - 1 \in U
  BY <1>1
<1> QED
  BY <1>1, <1>2

(* Octave's equation, of a function f whose domain may end early.           *)
Halved(f, p) ==
  IF p < 112 THEN [note |-> 73, period |-> p] ELSE [f[(p + 1) \div 2] EXCEPT !.note = @ - 12]
Solves(f, n) == f = [p \in 0 .. n |-> Halved(f, p)]

LEMMA HalfIsLess ==
  ASSUME NEW p \in Nat, p >= 112
  PROVE  (p + 1) \div 2 \in Nat /\ (p + 1) \div 2 < p
OBVIOUS

(* There is one such function for each end of the domain, and they agree:   *)
(* so that there is one without an end.                                     *)
LEMMA SolutionsAgree ==
  ASSUME NEW f, NEW g, NEW n \in Nat, NEW m \in Nat, Solves(f, n), Solves(g, m)
  PROVE  \A p \in Nat : p <= n /\ p <= m => f[p] = g[p]
<1> DEFINE U == {p \in Nat : p <= n /\ p <= m /\ f[p] # g[p]}
<1> SUFFICES ASSUME U # {} PROVE FALSE
  OBVIOUS
<1>1. PICK x \in U : \A y \in U : x <= y
  <2> U \subseteq Nat
    OBVIOUS
  <2> HIDE DEF U
  <2> QED
    BY LeastNumber
<1>2. x \in Nat /\ x <= n /\ x <= m /\ f[x] # g[x]
  OBVIOUS
<1>3. f[x] = Halved(f, x) /\ g[x] = Halved(g, x)
  <2>1. x \in 0 .. n /\ x \in 0 .. m
    BY <1>2
  <2> HIDE DEF U
  <2> QED
    BY <2>1, Zenon DEF Solves
<1>4. x >= 112 => f[(x + 1) \div 2] = g[(x + 1) \div 2]
  BY <1>1, <1>2, HalfIsLess
<1> QED
  BY <1>2, <1>3, <1>4 DEF Halved

LEMMA SolutionsExist == \A n \in Nat : \E f : Solves(f, n)
<1> DEFINE T == {n \in Nat : \E f : Solves(f, n)}
<1>1. 0 \in T
  <2> DEFINE f == [p \in 0 .. 0 |-> [note |-> 73, period |-> p]]
  <2>1. Solves(f, 0)
    BY DEF Solves, Halved
  <2> QED
    BY <2>1
<1>2. ASSUME NEW n \in Nat, n \in T
      PROVE  n + 1 \in T
  <2>1. PICK f : Solves(f, n)
    BY <1>2
  <2> DEFINE g == [p \in 0 .. n + 1 |-> Halved(f, p)]
  <2>2. \A p \in 0 .. n : f[p] = g[p]
    BY <2>1 DEF Solves
  <2>3. ASSUME NEW p \in 0 .. n + 1
        PROVE  Halved(f, p) = Halved(g, p)
    <3>1. p >= 112 => (p + 1) \div 2 \in 0 .. n
      OBVIOUS
    <3> HIDE DEF g
    <3> QED
      BY <2>2, <3>1 DEF Halved
  <2>4. Solves(g, n + 1)
    BY <2>3 DEF Solves
  <2> QED
    BY <2>4
<1> HIDE DEF T
<1>3. Nat \subseteq T
  BY <1>1, <1>2, SetInduction
<1> QED
  BY <1>3 DEF T

LEMMA OctaveIs == \A p \in Nat : Octave[p] = Halved(Octave, p)
<1> DEFINE s(n) == CHOOSE f : Solves(f, n)
           g == [p \in Nat |-> s(p)[p]]
<1>1. \A n \in Nat : Solves(s(n), n)
  BY SolutionsExist
<1> HIDE DEF s
<1>2. ASSUME NEW p \in Nat
      PROVE  s(p)[p] = Halved(g, p)
  <2>1. s(p)[p] = Halved(s(p), p)
    BY <1>1 DEF Solves
  <2>2. p >= 112 => s(p)[(p + 1) \div 2] = g[(p + 1) \div 2]
    <3> SUFFICES ASSUME p >= 112 PROVE s(p)[(p + 1) \div 2] = g[(p + 1) \div 2]
      OBVIOUS
    <3> DEFINE h == (p + 1) \div 2
    <3>1. h \in Nat /\ h <= p
      BY HalfIsLess
    <3> HIDE DEF h
    <3>2. s(p)[h] = s(h)[h]
      BY <1>1, <3>1, SolutionsAgree
    <3> QED
      BY <3>1, <3>2 DEF h
  <2> HIDE DEF g
  <2> QED
    BY <2>1, <2>2 DEF Halved
<1>3. g = [p \in Nat |-> Halved(g, p)]
  BY <1>2
<1> HIDE DEF g
<1>4. Octave = CHOOSE f : f = [p \in Nat |-> Halved(f, p)]
  BY DEF Octave, Halved
<1>5. Octave = [p \in Nat |-> Halved(Octave, p)]
  BY <1>3, <1>4
<1> QED
  BY <1>5


(* In the highest octave, p would be q, and it starts with the note a.     *)
InOctave(p, a, q) == Octave[p] = [note |-> a, period |-> q]

LEMMA OctaveFacts ==
  ASSUME NEW p, NEW a, NEW q, InOctave(p, a, q)
  PROVE  Octave[p].note = a /\ Octave[p].period = q
BY DEF InOctave

LEMMA LowOctave == \A p \in 0 .. 111 : InOctave(p, 73, p)
<1> SUFFICES ASSUME NEW p \in 0 .. 111 PROVE InOctave(p, 73, p)
  OBVIOUS
<1>1. p \in Nat /\ p < 112
  OBVIOUS
<1>2. Octave[p] = Halved(Octave, p)
  BY <1>1, OctaveIs, Zenon
<1> QED
  BY <1>1, <1>2 DEF Halved, InOctave

LEMMA NextOctave ==
  ASSUME NEW p \in Nat, p >= 112, NEW a \in Int, NEW q, InOctave((p + 1) \div 2, a, q)
  PROVE  InOctave(p, a - 12, q)
<1>1. Octave[p] = Halved(Octave, p)
  BY OctaveIs, Zenon
<1> DEFINE h == (p + 1) \div 2
<1>2. Octave[p] = [Octave[h] EXCEPT !.note = @ - 12]
  BY <1>1 DEF Halved
<1>3. Octave[h] = [note |-> a, period |-> q]
  BY DEF InOctave
<1> HIDE DEF h
<1> QED
  BY <1>2, <1>3 DEF InOctave

(* From one period to the next, the period in the highest octave stays, or  *)
(* is one longer, or starts the octave below.                               *)
Follows(p, a, q) ==
  /\ a <= 73 /\ InOctave(p, a, q)
  /\ p > 1 => \/ InOctave(p - 1, a, q)
              \/ q > 1 /\ InOctave(p - 1, a, q - 1)
              \/ q = 56 /\ InOctave(p - 1, a + 12, 111)
FollowsPeriod(p) == \E a \in Int, q \in 1 .. 111 : Follows(p, a, q)

LEMMA PeriodsFollow == \A p \in Nat \ {0} : FollowsPeriod(p)
<1> DEFINE U == {p \in Nat \ {0} : ~FollowsPeriod(p)}
<1> SUFFICES ASSUME U # {} PROVE FALSE
  OBVIOUS
<1>1. PICK p \in U : \A y \in U : p <= y
  <2> U \subseteq Nat
    OBVIOUS
  <2> HIDE DEF U
  <2> QED
    BY LeastNumber
<1>2. p \in Nat \ {0} /\ ~FollowsPeriod(p)
  OBVIOUS
<1>3. \A y \in Nat \ {0} : y < p => FollowsPeriod(y)
  BY <1>1
<1> HIDE DEF U
<1>4. CASE p <= 111
  <2>1. InOctave(p, 73, p)
    BY <1>2, <1>4, LowOctave
  <2>2. p > 1 => InOctave(p - 1, 73, p - 1)
    BY <1>2, <1>4, LowOctave
  <2> QED
    <3>1. p \in 1 .. 111 /\ 73 \in Int
      BY <1>2, <1>4
    <3>2. Follows(p, 73, p)
      BY <2>1, <2>2, <3>1 DEF Follows
    <3> QED
      BY <1>2, <3>1, <3>2 DEF FollowsPeriod
<1>5. CASE p = 112
  <2>1. InOctave(56, 73, 56) /\ InOctave(111, 73, 111)
    BY LowOctave
  <2>2. InOctave(112, 61, 56)
    <3>1. (112 + 1) \div 2 = 56 /\ 73 - 12 = 61
      OBVIOUS
    <3> QED
      BY <2>1, <3>1, NextOctave
  <2> QED
    <3>1. /\ 61 \in Int /\ 61 <= 73 /\ 56 \in 1 .. 111 /\ 61 + 12 = 73
          /\ p = 112 /\ p - 1 = 111
      BY <1>5
    <3>2. Follows(p, 61, 56)
      BY <2>1, <2>2, <3>1 DEF Follows
    <3> QED
      BY <1>2, <3>1, <3>2 DEF FollowsPeriod
<1>6. CASE p > 112
  <2> DEFINE h == (p + 1) \div 2
             l == p \div 2
  <2>1. /\ h \in Nat \ {0} /\ h > 1 /\ h < p /\ ((p - 1) + 1) \div 2 = l
        /\ l = h \/ l = h - 1
        /\ p - 1 \in Nat /\ p - 1 >= 112
    <3>1. p \in Nat /\ p > 112
      BY <1>2, <1>6
    <3>2. (p - 1) + 1 = p
      BY <3>1
    <3> QED
      BY <3>1, <3>2
  <2>2. FollowsPeriod(h)
    BY <1>3, <2>1
  <2>3. PICK a \in Int, q \in 1 .. 111 : Follows(h, a, q)
    BY <2>2 DEF FollowsPeriod
  <2>4. /\ a <= 73 /\ InOctave(h, a, q)
        /\ \/ InOctave(h - 1, a, q)
           \/ q > 1 /\ InOctave(h - 1, a, q - 1)
           \/ q = 56 /\ InOctave(h - 1, a + 12, 111)
    BY <2>1, <2>3 DEF Follows
  <2>5. InOctave(p, a - 12, q)
    BY <1>2, <1>6, <2>4, NextOctave
  <2>6. \A b \in Int : \A r : InOctave(l, b, r) =>
          InOctave(p - 1, b - 12, r)
    BY <2>1, NextOctave
  <2> HIDE DEF h, l
  <2>7. \/ InOctave(p - 1, a - 12, q)
        \/ q > 1 /\ InOctave(p - 1, a - 12, q - 1)
        \/ q = 56 /\ InOctave(p - 1, (a - 12) + 12, 111)
    <3>1. CASE l = h
      BY <2>4, <2>6, <3>1
    <3>2. CASE l = h - 1
      <4>1. (a + 12) - 12 = (a - 12) + 12 /\ a + 12 \in Int
        OBVIOUS
      <4> QED
        BY <2>4, <2>6, <3>2, <4>1
    <3> QED
      BY <2>1, <3>1, <3>2
  <2>8. a - 12 \in Int /\ a - 12 <= 73
    BY <2>4
  <2> QED
    <3>1. Follows(p, a - 12, q)
      BY <2>5, <2>7, <2>8 DEF Follows
    <3> QED
      BY <1>2, <2>8, <3>1 DEF FollowsPeriod
<1> QED
  BY <1>2, <1>4, <1>5, <1>6

(* The periods from lo to hi are in the octave of a, and halved to one of Q; *)
(* so are, an octave below, those that are twice as long.                   *)
Spans(lo, hi, a, Q) == \A p \in lo .. hi : \E q \in Q : InOctave(p, a, q)

LEMMA SpansDouble ==
  ASSUME NEW lo \in Nat, NEW hi \in Nat, lo >= 57, NEW a \in Int, NEW Q, Spans(lo, hi, a, Q)
  PROVE  Spans(2 * lo - 1, 2 * hi, a - 12, Q)
<1> SUFFICES ASSUME NEW p \in (2 * lo - 1) .. (2 * hi)
             PROVE  \E q \in Q : InOctave(p, a - 12, q)
  BY DEF Spans
<1>1. p \in Nat /\ p >= 112 /\ (p + 1) \div 2 \in lo .. hi
  OBVIOUS
<1>2. PICK q \in Q : InOctave((p + 1) \div 2, a, q)
  BY <1>1 DEF Spans
<1>3. InOctave(p, a - 12, q)
  BY <1>1, <1>2, NextOctave
<1> QED
  BY <1>3

LEMMA HighestSpans ==
  ASSUME NEW lo \in 57 .. 111, NEW hi \in lo .. 111
  PROVE  Spans(lo, hi, 73, lo .. hi)
<1> SUFFICES ASSUME NEW p \in lo .. hi PROVE \E q \in lo .. hi : InOctave(p, 73, q)
  BY DEF Spans
<1>1. p \in 0 .. 111
  OBVIOUS
<1> QED
  BY <1>1, LowOctave

LEMMA OctavesSpan ==
  ASSUME NEW lo \in 57 .. 111, NEW hi \in lo .. 111
  PROVE  /\ Spans(2 * lo - 1, 2 * hi, 61, lo .. hi)
         /\ Spans(4 * lo - 3, 4 * hi, 49, lo .. hi)
         /\ Spans(8 * lo - 7, 8 * hi, 37, lo .. hi)
         /\ Spans(16 * lo - 15, 16 * hi, 25, lo .. hi)
<1>1. Spans(2 * lo - 1, 2 * hi, 73 - 12, lo .. hi)
  <2>1. lo \in Nat /\ lo >= 57 /\ hi \in Nat /\ 73 \in Int
    OBVIOUS
  <2>2. Spans(lo, hi, 73, lo .. hi)
    BY HighestSpans
  <2> QED
    BY <2>1, <2>2, SpansDouble
<1>2. Spans(2 * (2 * lo - 1) - 1, 2 * (2 * hi), 61 - 12, lo .. hi)
  <2>1. 2 * lo - 1 \in Nat /\ 2 * lo - 1 >= 57 /\ 2 * hi \in Nat /\ 73 - 12 = 61 /\ 61 \in Int
    OBVIOUS
  <2> QED
    BY <1>1, <2>1, SpansDouble
<1>3. Spans(2 * (4 * lo - 3) - 1, 2 * (4 * hi), 49 - 12, lo .. hi)
  <2>1. /\ 4 * lo - 3 \in Nat /\ 4 * lo - 3 >= 57 /\ 4 * hi \in Nat /\ 61 - 12 = 49 /\ 49 \in Int
        /\ 2 * (2 * lo - 1) - 1 = 4 * lo - 3 /\ 2 * (2 * hi) = 4 * hi
    OBVIOUS
  <2> QED
    BY <1>2, <2>1, SpansDouble
<1>4. Spans(2 * (8 * lo - 7) - 1, 2 * (8 * hi), 37 - 12, lo .. hi)
  <2>1. /\ 8 * lo - 7 \in Nat /\ 8 * lo - 7 >= 57 /\ 8 * hi \in Nat /\ 49 - 12 = 37 /\ 37 \in Int
        /\ 2 * (4 * lo - 3) - 1 = 8 * lo - 7 /\ 2 * (4 * hi) = 8 * hi
    OBVIOUS
  <2> QED
    BY <1>3, <2>1, SpansDouble
<1>5. /\ 73 - 12 = 61 /\ 61 - 12 = 49 /\ 49 - 12 = 37 /\ 37 - 12 = 25
      /\ 2 * (2 * lo - 1) - 1 = 4 * lo - 3 /\ 2 * (2 * hi) = 4 * hi
      /\ 2 * (4 * lo - 3) - 1 = 8 * lo - 7 /\ 2 * (4 * hi) = 8 * hi
      /\ 2 * (8 * lo - 7) - 1 = 16 * lo - 15 /\ 2 * (8 * hi) = 16 * hi
  OBVIOUS
<1> QED
  BY <1>1, <1>2, <1>3, <1>4, <1>5

(* The periods a file can have are halved six times at most.                *)
NotesFrom(n, a) == \A p \in 0 .. n : \E b \in Int, q \in Nat : b >= a /\ InOctave(p, b, q)

LEMMA NotesFromDouble ==
  ASSUME NEW n \in Nat, NEW a \in Int, a <= 73, NotesFrom(n, a)
  PROVE  NotesFrom(2 * n, a - 12)
<1> SUFFICES ASSUME NEW p \in 0 .. 2 * n
             PROVE  \E b \in Int, q \in Nat : b >= a - 12 /\ InOctave(p, b, q)
  BY DEF NotesFrom
<1>1. CASE p <= 111
  <2>1. InOctave(p, 73, p) /\ 73 >= a - 12 /\ p \in Nat
    BY <1>1, LowOctave
  <2> QED
    BY <2>1
<1>2. CASE p >= 112
  <2>1. (p + 1) \div 2 \in 0 .. n
    BY <1>2
  <2>2. PICK b \in Int, q \in Nat : b >= a /\ InOctave((p + 1) \div 2, b, q)
    BY <2>1 DEF NotesFrom
  <2>3. InOctave(p, b - 12, q) /\ b - 12 \in Int /\ b - 12 >= a - 12
    BY <1>2, <2>2, NextOctave
  <2> QED
    BY <2>3
<1> QED
  BY <1>1, <1>2

LEMMA NotesStart == LongestPeriod \in Nat /\ NotesFrom(LongestPeriod, 1)
<1>1. NotesFrom(111, 73)
  <2>1. \A p \in 0 .. 111 : InOctave(p, 73, p) /\ p \in Nat
    BY LowOctave
  <2> QED
    BY <2>1 DEF NotesFrom
<1>2. NotesFrom(222, 61)
  <2>1. 2 * 111 = 222 /\ 73 - 12 = 61
    OBVIOUS
  <2> QED
    BY <1>1, <2>1, NotesFromDouble
<1>3. NotesFrom(444, 49)
  <2>1. 2 * 222 = 444 /\ 61 - 12 = 49
    OBVIOUS
  <2> QED
    BY <1>2, <2>1, NotesFromDouble
<1>4. NotesFrom(888, 37)
  <2>1. 2 * 444 = 888 /\ 49 - 12 = 37
    OBVIOUS
  <2> QED
    BY <1>3, <2>1, NotesFromDouble
<1>5. NotesFrom(1776, 25)
  <2>1. 2 * 888 = 1776 /\ 37 - 12 = 25
    OBVIOUS
  <2> QED
    BY <1>4, <2>1, NotesFromDouble
<1>6. NotesFrom(3552, 13)
  <2>1. 2 * 1776 = 3552 /\ 25 - 12 = 13
    OBVIOUS
  <2> QED
    BY <1>5, <2>1, NotesFromDouble
<1>7. NotesFrom(7104, 1)
  <2>1. 2 * 3552 = 7104 /\ 13 - 12 = 1
    OBVIOUS
  <2> QED
    BY <1>6, <2>1, NotesFromDouble
<1> DEFINE n == 7104
<1>8. LongestPeriod \in Nat /\ n \in Nat /\ LongestPeriod <= n
  BY DEF LongestPeriod
<1>9. NotesFrom(n, 1)
  BY <1>7
<1> HIDE DEF n
<1>10. \A p \in 0 .. LongestPeriod : p \in 0 .. n
  BY <1>8
<1> QED
  BY <1>8, <1>9, <1>10, Zenon DEF NotesFrom

-----------------------------------------------------------------------------
(* The note within the octave.                                              *)

Above(q) == {n \in 1 .. 11 : q < HighPeriods[n]}

LEMMA AboveIsFinite ==
  ASSUME NEW q \in Nat
  PROVE  IsFiniteSet(Above(q)) /\ Cardinality(Above(q)) \in 0 .. 11
<1>1. IsFiniteSet(1 .. 11) /\ Cardinality(1 .. 11) = 11
  <2>1. 1 \in Int /\ 11 \in Int
    OBVIOUS
  <2>2. IsFiniteSet(1 .. 11) /\ Cardinality(1 .. 11) = IF 1 > 11 THEN 0 ELSE 11 - 1 + 1
    BY <2>1, FS_Interval, Zenon
  <2> QED
    BY <2>2
<1>2. Above(q) \in SUBSET (1 .. 11)
  BY DEF Above
<1>3. IsFiniteSet(Above(q)) /\ Cardinality(Above(q)) <= 11
  BY <1>1, <1>2, FS_Subset
<1>4. Cardinality(Above(q)) \in Nat
  BY <1>3, FS_CardinalityType
<1> QED
  BY <1>3, <1>4

LEMMA AboveShrinks ==
  ASSUME NEW q \in Nat, NEW r \in Nat, q <= r
  PROVE  Cardinality(Above(r)) <= Cardinality(Above(q))
<1>1. \A n \in 1 .. 11 : HighPeriods[n] \in Nat
  BY DEF HighPeriods
<1>2. Above(r) \in SUBSET Above(q)
  BY <1>1 DEF Above
<1> QED
  BY <1>2, AboveIsFinite, FS_Subset

(* The longest and the shortest period of each note of the highest octave.  *)
Longest == <<111, 105, 99, 93, 88, 83, 78, 74, 69, 65, 62, 58>>
Shortest == <<106, 100, 94, 89, 84, 79, 75, 70, 66, 63, 59, 57>>

LEMMA AboveIs ==
  ASSUME NEW n \in 1 .. 12, NEW q \in Shortest[n] .. Longest[n]
  PROVE  Cardinality(Above(q)) = n - 1
<1>1. Above(q) = 1 .. n - 1
  <2>1. q \in Nat
    BY DEF Shortest, Longest
  <2>2. \A m \in 1 .. 11 : q < HighPeriods[m] <=> m < n
    BY <2>1 DEF Shortest, Longest, HighPeriods
  <2> QED
    BY <2>2 DEF Above
<1>2. Cardinality(1 .. n - 1) = n - 1
  BY FS_Interval
<1> QED
  BY <1>1, <1>2

LEMMA ModNoteIs ==
  ASSUME NEW p \in Nat \ {0}, NEW a \in Int, NEW q \in Nat,
         InOctave(p, a, q)
  PROVE  ModNote(p) = a + Cardinality(Above(q))
<1>1. Octave[p].note = a /\ Octave[p].period = q
  BY OctaveFacts
<1>2. ModNote(p) = Octave[p].note
                     + Cardinality({n \in 1 .. 11 : Octave[p].period < HighPeriods[n]})
  BY DEF ModNote
<1> QED
  BY <1>1, <1>2 DEF Above

LEMMA ModNoteInRange ==
  ASSUME NEW n \in Nat, NotesFrom(n, 1), NEW p \in 1 .. n
  PROVE  ModNote(p) \in 1 .. 84
<1>1. PICK b \in Int, r \in Nat : b >= 1 /\ InOctave(p, b, r)
  <2>1. p \in 0 .. n
    OBVIOUS
  <2> QED
    BY <2>1, Zenon DEF NotesFrom
<1>2. PICK a \in Int, q \in 1 .. 111 : a <= 73 /\ InOctave(p, a, q)
  <2>1. p \in Nat \ {0}
    OBVIOUS
  <2>2. FollowsPeriod(p)
    BY <2>1, PeriodsFollow, Zenon
  <2> QED
    BY <2>2 DEF FollowsPeriod, Follows
<1>3. a >= 1
  BY <1>1, <1>2, OctaveFacts
<1>4. ModNote(p) = a + Cardinality(Above(q))
  <2>1. p \in Nat \ {0} /\ q \in Nat
    BY <1>2
  <2> QED
    BY <1>2, <2>1, ModNoteIs
<1>5. q \in Nat
  OBVIOUS
<1>6. Cardinality(Above(q)) \in 0 .. 11
  BY <1>5, AboveIsFinite
<1> QED
  BY <1>2, <1>3, <1>4, <1>6

LEMMA ModNoteFalls ==
  ASSUME NEW p \in Nat, p > 1
  PROVE  ModNote(p) <= ModNote(p - 1)
<1>0. FollowsPeriod(p)
  BY PeriodsFollow
<1>1. PICK a \in Int, q \in 1 .. 111 : Follows(p, a, q)
  BY <1>0 DEF FollowsPeriod
<1>2. /\ a <= 73 /\ InOctave(p, a, q)
      /\ \/ InOctave(p - 1, a, q)
         \/ q > 1 /\ InOctave(p - 1, a, q - 1)
         \/ q = 56 /\ InOctave(p - 1, a + 12, 111)
  BY <1>1 DEF Follows
<1>3. ModNote(p) = a + Cardinality(Above(q)) /\ Cardinality(Above(q)) \in 0 .. 11
  BY <1>2, ModNoteIs, AboveIsFinite
<1>4. ASSUME NEW b \in Int, NEW r \in Nat, InOctave(p - 1, b, r)
      PROVE  ModNote(p - 1) = b + Cardinality(Above(r)) /\ Cardinality(Above(r)) \in 0 .. 11
  BY <1>4, ModNoteIs, AboveIsFinite
<1>5. CASE InOctave(p - 1, a, q)
  BY <1>3, <1>4, <1>5
<1>6. CASE q > 1 /\ InOctave(p - 1, a, q - 1)
  <2>1. Cardinality(Above(q)) <= Cardinality(Above(q - 1))
    BY <1>6, AboveShrinks
  <2> QED
    BY <1>3, <1>4, <1>6, <2>1
<1>7. CASE InOctave(p - 1, a + 12, 111)
  <2>1. ModNote(p - 1) = (a + 12) + Cardinality(Above(111)) /\ Cardinality(Above(111)) \in 0 .. 11
    BY <1>4, <1>7
  <2> QED
    BY <1>3, <2>1
<1> QED
  BY <1>2, <1>5, <1>6, <1>7

(* The periods of the table have the notes of the table.                    *)
LEMMA TableNotes ==
  ASSUME NEW octave \in 1 .. 5, NEW n \in 1 .. 12
  PROVE  ModNote(PeriodTable[octave][n]) = 12 * (octave + 1) + n
<1> DEFINE lo == Shortest[n]
           hi == Longest[n]
           p == PeriodTable[octave][n]
           a == 12 * octave + 13
<1>1. lo \in 57 .. 111 /\ hi \in lo .. 111
  BY DEF Shortest, Longest
<1>2. \E q \in lo .. hi : InOctave(p, a, q) /\ p \in Nat \ {0}
  <2>1. CASE octave = 5
    <3>1. p \in lo .. hi /\ a = 73 /\ p \in Nat \ {0}
      BY <2>1 DEF PeriodTable, Shortest, Longest
    <3> HIDE DEF lo, hi, p, a
    <3>2. Spans(lo, hi, 73, lo .. hi)
      BY <1>1, HighestSpans
    <3> QED
      BY <3>1, <3>2 DEF Spans
  <2>2. CASE octave = 4
    <3>1. p \in (2 * lo - 1) .. (2 * hi) /\ a = 61 /\ p \in Nat \ {0}
      BY <2>2 DEF PeriodTable, Shortest, Longest
    <3> HIDE DEF lo, hi, p, a
    <3>2. Spans(2 * lo - 1, 2 * hi, 61, lo .. hi)
      BY <1>1, OctavesSpan
    <3> QED
      BY <3>1, <3>2 DEF Spans
  <2>3. CASE octave = 3
    <3>1. p \in (4 * lo - 3) .. (4 * hi) /\ a = 49 /\ p \in Nat \ {0}
      BY <2>3 DEF PeriodTable, Shortest, Longest
    <3> HIDE DEF lo, hi, p, a
    <3>2. Spans(4 * lo - 3, 4 * hi, 49, lo .. hi)
      BY <1>1, OctavesSpan
    <3> QED
      BY <3>1, <3>2 DEF Spans
  <2>4. CASE octave = 2
    <3>1. p \in (8 * lo - 7) .. (8 * hi) /\ a = 37 /\ p \in Nat \ {0}
      BY <2>4 DEF PeriodTable, Shortest, Longest
    <3> HIDE DEF lo, hi, p, a
    <3>2. Spans(8 * lo - 7, 8 * hi, 37, lo .. hi)
      BY <1>1, OctavesSpan
    <3> QED
      BY <3>1, <3>2 DEF Spans
  <2>5. CASE octave = 1
    <3>1. p \in (16 * lo - 15) .. (16 * hi) /\ a = 25 /\ p \in Nat \ {0}
      BY <2>5 DEF PeriodTable, Shortest, Longest
    <3> HIDE DEF lo, hi, p, a
    <3>2. Spans(16 * lo - 15, 16 * hi, 25, lo .. hi)
      BY <1>1, OctavesSpan
    <3> QED
      BY <3>1, <3>2 DEF Spans
  <2> QED
    BY <2>1, <2>2, <2>3, <2>4, <2>5
<1>3. PICK q \in lo .. hi : InOctave(p, a, q) /\ p \in Nat \ {0}
  BY <1>2
<1>4. Cardinality(Above(q)) = n - 1
  BY <1>3, AboveIs, Zenon
<1>5. q \in Nat /\ a \in Int
  BY <1>1
<1> HIDE DEF p, a, lo, hi
<1>6. ModNote(p) = a + (n - 1)
  BY <1>3, <1>4, <1>5, ModNoteIs
<1> QED
  BY <1>6 DEF p, a

LEMMA FilePeriods ==
  ASSUME NEW r \in MODSlots, r.period # 0
  PROVE  r.period \in Nat \ {0} /\ ModNote(r.period) \in 1 .. 84
<1>1. r.period \in 0 .. LongestPeriod
  BY MODSlotsAssumption
<1>2. r.period \in 1 .. LongestPeriod /\ r.period \in Nat \ {0}
  BY <1>1, NotesStart
<1> QED
  BY <1>2, NotesStart, ModNoteInRange

-----------------------------------------------------------------------------
(* The notes of slots.                                                       *)

(* An E90 that stands alone turns into a note, which is one only where the  *)
(* file has an E90.                                                         *)
IsE90(s) == s.effect_type = "RETRIGGER_NOTE" /\ s.effect_param = 0
AsksForE90(type, param) == type = 14 /\ param = 144

LEMMA ModAsks ==
  ASSUME NEW type \in 0 .. 15, NEW param \in Byte, IsE90(ModEffect(type, param))
  PROVE  AsksForE90(type, param)
<1>1. CASE type \in {0, 13, 15}
  BY <1>1 DEF ModEffect, Effect, IsE90
<1>2. CASE type = 14
  <2>1. High(param) \in 0 .. 15 /\ Low(param) \in 0 .. 15 /\ param = 16 * High(param) + Low(param)
    BY Nibbles
  <2>2. ModEffect(type, param) = ExtendedEffect(param)
    BY <1>2 DEF ModEffect
  <2>3. High(param) \notin {0, 15}
    BY <2>2 DEF ExtendedEffect, NoEffect, Effect, IsE90
  <2>4. /\ ModEffect(type, param).effect_type = ExtendedEffects[High(param)]
        /\ ModEffect(type, param).effect_param = ExtendedParam(param)
    BY <2>2, <2>3 DEF ExtendedEffect, Effect
  <2>5. High(param) = 9
    BY <2>1, <2>3, <2>4 DEF ExtendedEffects, IsE90
  <2>6. ExtendedParam(param) = Low(param)
    BY <2>5 DEF ExtendedParam
  <2> QED
    BY <1>2, <2>1, <2>4, <2>5, <2>6 DEF IsE90, AsksForE90
<1>3. CASE type \in 1 .. 12
  <2>1. ModEffect(type, param).effect_type = ModEffects[type]
    BY <1>3 DEF ModEffect, Effect
  <2>2. ModEffects[type] # "RETRIGGER_NOTE"
    BY <1>3 DEF ModEffects
  <2> QED
    BY <2>1, <2>2 DEF IsE90
<1> QED
  BY <1>1, <1>2, <1>3

LEMMA XMAsks ==
  ASSUME NEW type \in Byte, NEW param \in Byte, IsE90(XMEffect(type, param))
  PROVE  AsksForE90(type, param)
<1>1. CASE type <= 15
  <2>1. type \in 0 .. 15 /\ XMEffect(type, param) = WithoutRandom(ModEffect(type, param))
    BY <1>1 DEF XMEffect, XMLetters, Byte
  <2>2. WithoutRandom(ModEffect(type, param)) = ModEffect(type, param)
    <3>1. \/ WithoutRandom(ModEffect(type, param)) = ModEffect(type, param)
          \/ /\ ModEffect(type, param).effect_type
                  \in {"SET_VIBRATO_CONTROL", "SET_TREMOLO_CONTROL"}
             /\ WithoutRandom(ModEffect(type, param)).effect_type
                  = ModEffect(type, param).effect_type
      BY DEF WithoutRandom
    <3> QED
      BY <2>1, <3>1 DEF IsE90
  <2> QED
    BY <2>1, <2>2, ModAsks
<1>2. CASE type > 15
  <2>1. XMEffect(type, param).effect_type # "RETRIGGER_NOTE"
    <3>1. CASE type \in XMLetters /\ ~(type = 20 /\ param = 0)
      BY <3>1 DEF XMEffect, XMLetters, XMLetterEffect, Effect
    <3>2. CASE type = 33 /\ High(param) \in {1, 2}
      <4>1. XMEffect(type, param) = Effect(ExtraFineEffects[High(param)], Low(param))
        BY <3>2 DEF XMEffect, XMLetters
      <4>2. ExtraFineEffects[High(param)] # "RETRIGGER_NOTE"
        BY <3>2 DEF ExtraFineEffects
      <4> QED
        BY <4>1, <4>2 DEF Effect
    <3>3. CASE /\ ~(type \in XMLetters /\ ~(type = 20 /\ param = 0))
               /\ ~(type = 33 /\ High(param) \in {1, 2})
      <4>1. XMEffect(type, param) = NoEffect
        BY <1>2, <3>3 DEF XMEffect, Byte
      <4> QED
        BY <4>1 DEF NoEffect, Effect
    <3> QED
      BY <3>1, <3>2, <3>3
  <2> QED
    BY <2>1 DEF IsE90
<1> QED
  BY <1>1, <1>2 DEF Byte

LEMMA ProTrackerAsks ==
  ASSUME NEW type \in 0 .. 15, NEW param \in Byte,
         IsE90(ProTracker(WithoutMemory(ModEffect(type, param))))
  PROVE  AsksForE90(type, param)
<1> DEFINE e == ModEffect(type, param)
           w == WithoutMemory(e)
<1>0. \E t, p : w = [effect_type |-> t, effect_param |-> p]
  <2>1. \E t, p : e = Effect(t, p)
    BY DEF ModEffect, ExtendedEffect, NoEffect
  <2>2. \E t, p : w = Effect(t, p)
    <3> HIDE DEF e
    <3> QED
      BY <2>1 DEF WithoutMemory, NoEffect
  <2> QED
    BY <2>2 DEF Effect
<1>1. w.effect_type = "RETRIGGER_NOTE" /\ ProTracker(w) = w
  <2> HIDE DEF w
  <2>1. PICK t, p : w = [effect_type |-> t, effect_param |-> p]
    BY <1>0
  <2>2. \/ ProTracker(w) = w
        \/ t = "SET_FINETUNE" /\ ProTracker(w) = [w EXCEPT !.effect_param = (@ + 8) % 16]
        \/ ProTracker(w) = [w EXCEPT !.effect_type = "SET_CHANNEL_PANNING"]
    BY <2>1 DEF ProTracker
  <2>3. ProTracker(w).effect_type = "RETRIGGER_NOTE"
    BY DEF IsE90, w
  <2>4. CASE ProTracker(w) = w
    BY <2>3, <2>4
  <2>5. CASE t = "SET_FINETUNE" /\ ProTracker(w) = [w EXCEPT !.effect_param = (@ + 8) % 16]
    BY <2>1, <2>3, <2>5
  <2>6. CASE ProTracker(w) = [w EXCEPT !.effect_type = "SET_CHANNEL_PANNING"]
    BY <2>1, <2>3, <2>6
  <2> QED
    BY <2>2, <2>4, <2>5, <2>6
<1>2. w = e
  <2>1. \/ w = e \/ w = NoEffect \/ w = Effect("VIBRATO", 0) \/ w = Effect("TONE_PORTAMENTO", 0)
    BY DEF WithoutMemory
  <2> HIDE DEF w, e
  <2> QED
    BY <1>1, <2>1 DEF NoEffect, Effect
<1> QED
  BY <1>1, <1>2, ModAsks

LEMMA S3MNeverAsks ==
  ASSUME NEW type \in Byte, NEW param \in Byte, NEW last \in Byte, NEW l
  PROVE  S3MEffect(type, param, last, l).effect_type # "RETRIGGER_NOTE"
<1> DEFINE e == S3MEffect(type, param, last, l)
<1>1. \A p \in Byte : Blanked(p).effect_type # "RETRIGGER_NOTE"
  BY DEF Blanked, NoEffect, Effect
<1>2. \A p \in Byte : S3MSpecial(p, l).effect_type # "RETRIGGER_NOTE"
  <2>1. \A p \in Byte : S3MStereo(p, l).effect_type # "RETRIGGER_NOTE"
    BY <1>1 DEF S3MStereo, Effect
  <2> QED
    BY <1>1, <2>1 DEF S3MSpecial, Effect
<1>3. CASE type \in S3MLetters
  <2>1. e = Effect(S3MLetterEffect(type), param)
    BY <1>3 DEF S3MEffect, S3MLetters
  <2>2. S3MLetterEffect(type) # "RETRIGGER_NOTE"
    BY <1>3 DEF S3MLetters, S3MLetterEffect
  <2> QED
    BY <2>1, <2>2 DEF Effect
<1>4. CASE type \notin S3MLetters
  BY <1>1, <1>2, <1>4 DEF S3MEffect, Effect, Byte
<1> QED
  BY <1>3, <1>4

FileSlots == IF format = "XM" THEN XMSlots ELSE IF format = "MOD" THEN MODSlots ELSE S3MSlots
DecodedNote(r) ==
  IF format = "XM" THEN XMNote(r)
  ELSE IF format = "MOD" THEN ModSlot(r).note
  ELSE S3MNote(r)

(* The note of a slot is that of the file, or was made out of an E90.       *)
NotesInv ==
  /\ format \in {"XM", "MOD", "S3M"}
  /\ pc # "reading" =>
       /\ raw \in FileSlots
       /\ slot.instrument = raw.instrument /\ slot.volume_column \in Byte
       /\ IsE90(slot) => format # "S3M" /\ AsksForE90(raw.effect_type, raw.effect_param)
       /\ \/ slot.note = DecodedNote(raw)
          \/ /\ slot.note = NOTE_RETRIGGER /\ DecodedNote(raw) = 0
             /\ format # "S3M" /\ AsksForE90(raw.effect_type, raw.effect_param)

LEMMA NextNotesInv == Inv /\ Inv' /\ NotesInv /\ [Next]_vars => NotesInv'
<1> SUFFICES ASSUME Inv, Inv', NotesInv, [Next]_vars PROVE NotesInv'
  OBVIOUS
<1>1. CASE ReadXM
  <2>1. PICK r \in XMSlots : raw' = r /\ slot' = XMSlot(r)
    BY <1>1 DEF ReadXM
  <2> DEFINE e == XMEffect(r.effect_type, r.effect_param)
  <2>2. r.effect_type \in Byte /\ r.effect_param \in Byte /\ r.volume_column \in Byte
    BY XMSlotsAssumption DEF IsRawEffect
  <2>3. IsE90(e) => AsksForE90(r.effect_type, r.effect_param)
    BY <2>2, XMAsks
  <2>4. /\ slot'.note = XMNote(r) /\ slot'.instrument = r.instrument
        /\ slot'.volume_column = r.volume_column
        /\ slot'.effect_type = e.effect_type /\ slot'.effect_param = e.effect_param
    BY <2>1 DEF XMSlot, SlotOf
  <2>5. format = "XM" /\ format' = format
    BY <1>1 DEF ReadXM, module
  <2> HIDE DEF e
  <2> QED
    BY <2>1, <2>2, <2>3, <2>4, <2>5 DEF NotesInv, FileSlots, DecodedNote, IsE90
<1>2. CASE ReadMOD
  <2>1. PICK r \in MODSlots : raw' = r /\ slot' = ModSlot(r)
    BY <1>2 DEF ReadMOD
  <2> DEFINE e == ProTracker(WithoutMemory(ModEffect(r.effect_type, r.effect_param)))
  <2>2. r.effect_type \in 0 .. 15 /\ r.effect_param \in Byte
    BY MODSlotsAssumption
  <2>3. IsE90(e) => AsksForE90(r.effect_type, r.effect_param)
    BY <2>2, ProTrackerAsks
  <2>4. /\ slot'.note = ModSlot(r).note /\ slot'.instrument = r.instrument
        /\ slot'.volume_column = 0
        /\ slot'.effect_type = e.effect_type /\ slot'.effect_param = e.effect_param
    BY <2>1 DEF ModSlot, SlotOf
  <2>5. format = "MOD" /\ format' = format
    BY <1>2 DEF ReadMOD, module
  <2> HIDE DEF e
  <2> QED
    BY <2>1, <2>2, <2>3, <2>4, <2>5 DEF NotesInv, FileSlots, DecodedNote, IsE90, Byte
<1>3. CASE ReadS3M
  <2>1. PICK r \in S3MSlots : raw' = r /\ slot' = S3MSlot(r, last_effect_parameter', left)
    BY <1>3 DEF ReadS3M
  <2> DEFINE e == S3MEffect(r.effect_type, r.effect_param, last_effect_parameter', left)
  <2>2. r.effect_type \in Byte /\ r.effect_param \in Byte /\ last_effect_parameter' \in Byte
    BY S3MSlotsAssumption DEF IsRawEffect, Inv
  <2>3. e.effect_type # "RETRIGGER_NOTE"
    BY <2>2, S3MNeverAsks
  <2>4. /\ slot'.note = S3MNote(r) /\ slot'.instrument = r.instrument
        /\ slot'.volume_column = S3MVolumeColumn(r)
        /\ slot'.effect_type = e.effect_type
    BY <2>1 DEF S3MSlot, SlotOf
  <2>5. format = "S3M" /\ format' = format
    BY <1>3 DEF ReadS3M, module
  <2>6. S3MVolumeColumn(r) \in Byte
    <3>1. r.volume \in Byte \union {Absent}
      BY S3MSlotsAssumption
    <3> QED
      BY <3>1 DEF S3MVolumeColumn, Byte, Absent
  <2> HIDE DEF e
  <2> QED
    BY <2>1, <2>3, <2>4, <2>5, <2>6 DEF NotesInv, FileSlots, DecodedNote, IsE90
<1>4. CASE Fixup \/ Reload
  <2>1. /\ slot' = FixedUp(slot, length, restart_position) /\ pc # "reading" /\ pc' = "fixed"
        /\ format' = format /\ raw' = raw
    BY <1>4 DEF Fixup, Reload, module
  <2>2. /\ slot'.note = FixedNote(slot) /\ slot'.instrument = slot.instrument
        /\ slot'.volume_column = FixedColumn(slot)
    BY <2>1 DEF FixedUp, SlotOf
  <2>3. ~IsE90(slot')
    BY <2>1 DEF Inv, IsFixedEffect, IsE90
  <2>4. FixedColumn(slot) \in Byte
    BY <2>1 DEF NotesInv, FixedColumn, Byte
  <2>5. \/ FixedNote(slot) = slot.note
        \/ IsE90(slot) /\ slot.note = 0 /\ FixedNote(slot) = NOTE_RETRIGGER
    BY DEF FixedNote, IsE90
  <2>6. NOTE_RETRIGGER # 0
    BY DEF NOTE_RETRIGGER, MAX_NOTE
  <2> QED
    BY <2>1, <2>2, <2>3, <2>4, <2>5, <2>6 DEF NotesInv, FileSlots, DecodedNote
<1>5. CASE Play
  BY <1>5 DEF Play, NotesInv, module
<1>6. CASE StartPattern \/ UNCHANGED vars
  <2>1. UNCHANGED <<format, pc, raw, slot>>
    BY <1>6 DEF StartPattern, vars, module
  <2> QED
    BY <2>1 DEF NotesInv, FileSlots, DecodedNote
<1> QED
  BY <1>1, <1>2, <1>3, <1>4, <1>5, <1>6 DEF Next

(* What a decoded note can be, if the file has no others than its format.   *)
LEMMA DecodedNotes ==
  ASSUME format \in {"XM", "MOD", "S3M"}, raw \in FileSlots, HasPlainNote
  PROVE  /\ DecodedNote(raw) \in (0 .. 96) \union {NOTE_SWITCH, NOTE_KEY_OFF}
         /\ DecodedNote(raw) = NOTE_SWITCH =>
              /\ raw.instrument # 0
              /\ format = "MOD" => raw.period = 0
              /\ format = "S3M" => raw.note = 255
<1>1. CASE format = "XM"
  <2>1. raw.note \in 0 .. 97
    BY <1>1, XMSlotsAssumption DEF FileSlots, HasPlainNote, Byte
  <2> QED
    BY <1>1, <2>1 DEF DecodedNote, XMNote, NOTE_KEY_OFF, NOTE_SWITCH, MAX_NOTE
<1>2. CASE format = "MOD"
  <2>1. raw \in MODSlots
    BY <1>2 DEF FileSlots
  <2>2. DecodedNote(raw) = IF raw.period = 0 /\ raw.instrument # 0 THEN NOTE_SWITCH
                           ELSE ModNote(raw.period)
    BY <1>2 DEF DecodedNote, ModSlot, SlotOf
  <2>3. CASE raw.period = 0
    <3>1. ModNote(raw.period) = 0
      BY <2>3 DEF ModNote
    <3> QED
      BY <1>2, <2>2, <2>3, <3>1 DEF NOTE_SWITCH, MAX_NOTE
  <2>4. CASE raw.period # 0
    <3>1. ModNote(raw.period) \in 1 .. 84
      BY <2>1, <2>4, FilePeriods
    <3> QED
      BY <2>2, <2>4, <3>1 DEF NOTE_SWITCH, MAX_NOTE
  <2> QED
    BY <2>3, <2>4
<1>3. CASE format = "S3M"
  <2>1. raw.note \in Byte \union {Absent}
    BY <1>3, S3MSlotsAssumption DEF FileSlots
  <2>2. DecodedNote(raw) = S3MNote(raw)
    BY <1>3 DEF DecodedNote
  <2>3. CASE raw.note \in {Absent, 254, 255}
    BY <1>3, <2>2, <2>3 DEF S3MNote, Absent, NOTE_SWITCH, NOTE_KEY_OFF, MAX_NOTE
  <2>4. CASE raw.note \notin {Absent, 254, 255}
    <3>1. High(raw.note) \in 0 .. 7 /\ Low(raw.note) \in 0 .. 11
      <4>1. High(raw.note) \in 0 .. 15 /\ Low(raw.note) \in 0 .. 15
        BY <2>1, <2>4, Nibbles
      <4>2. High(raw.note) < 8 /\ Low(raw.note) < 12
        BY <1>3, <2>4 DEF HasPlainNote
      <4> QED
        BY <4>1, <4>2
    <3>2. S3MNote(raw) = (1 + 12 * High(raw.note) + Low(raw.note)) % 256
      BY <2>4 DEF S3MNote
    <3>3. S3MNote(raw) = 1 + 12 * High(raw.note) + Low(raw.note)
      BY <3>1, <3>2
    <3> QED
      BY <2>2, <3>1, <3>3 DEF NOTE_SWITCH, MAX_NOTE
  <2> QED
    BY <2>3, <2>4
<1> QED
  BY <1>1, <1>2, <1>3

-----------------------------------------------------------------------------
(* Every effect that is played is within the bounds src/play.c does not     *)
(* check: whatever is in the file, of whatever format, volumes are at most  *)
(* MAX_VOLUME, jumps lead to an entry of the order table, or to 0 if it has *)
(* none, tempos and delays are not 0.                                       *)
THEOREM AllEffectsAreFixed == Spec => []EffectsAreFixed
<1>1. Inv => EffectsAreFixed
  BY DEF Inv, EffectsAreFixed
<1> QED
  BY <1>1, SpecInv, PTL

(* xm_fixup_common() may run again when a dump is restored: every slot it   *)
(* has seen once stays as it is.                                            *)
THEOREM FixupIsIdempotent == Spec => FixupIsStable
<1>1. Inv /\ [Next]_vars => (pc = "fixed" /\ pc' = "fixed" => slot' = slot)
  <2> SUFFICES ASSUME Inv, [Next]_vars, pc = "fixed", pc' = "fixed" PROVE slot' = slot
    OBVIOUS
  <2>1. CASE Reload
    BY <2>1 DEF Reload, Inv, Settled
  <2>2. CASE UNCHANGED vars
    BY <2>2 DEF vars
  <2> QED
    BY <2>1, <2>2 DEF Next, ReadXM, ReadMOD, ReadS3M, StartPattern, Fixup, Play
<1> QED
  BY <1>1, SpecInv, PTL DEF Spec, FixupIsStable

(* An arpeggio is played only where the file has one: effects that a loader *)
(* or the fixup deletes leave no parameter behind.                          *)
THEOREM NoStrayArpeggios == Spec => []ArpeggiosAreWritten
<1>1. Inv => ArpeggiosAreWritten
  BY DEF Inv, IsDecoded, PlaysArpeggio, Written, ArpeggiosAreWritten
<1> QED
  BY <1>1, SpecInv, PTL

(* The parameter an .S3M effect recalls is the one the file has last, for   *)
(* every column of slots, supported or not, as long as the loader did not   *)
(* rewrite it.                                                              *)
THEOREM MemoriesAgree == Spec => []MemoryIsWritten
<1>1. Inv => MemoryIsWritten
  BY DEF Inv, MemoryIsWritten
<1> QED
  BY <1>1, SpecInv, PTL

(* Every slot of every file has the note its file asks for: no note of a    *)
(* file turns into a retrigger or a switch, which are numbered like notes,  *)
(* and every period of ProTracker's table is given the note it has there,   *)
(* however often it was halved.                                             *)
THEOREM NotesAreAlwaysWritten == Spec => []NotesAreWritten
<1>1. Init => NotesInv
  BY DEF Init, NotesInv
<1>2. Inv /\ NotesInv => NotesAreNotes
  <2> SUFFICES ASSUME Inv, NotesInv, pc # "reading", HasPlainNote
               PROVE  /\ IsSlot(slot)
                      /\ slot.note = NOTE_SWITCH =>
                           /\ slot.instrument # 0
                           /\ format = "MOD" => raw.period = 0
                           /\ format = "S3M" => raw.note = 255
                      /\ slot.note = NOTE_RETRIGGER =>
                           format # "S3M" /\ raw.effect_type = 14 /\ raw.effect_param = 144
    BY DEF NotesAreNotes
  <2>1. raw \in FileSlots /\ format \in {"XM", "MOD", "S3M"}
    BY DEF NotesInv
  <2>2. raw.instrument \in Byte
    BY <2>1, XMSlotsAssumption, MODSlotsAssumption, S3MSlotsAssumption DEF FileSlots
  <2>3. slot.effect_param \in Byte
    BY DEF Inv, IsDecoded, Limited
  <2>4. /\ slot.instrument = raw.instrument /\ slot.volume_column \in Byte
        /\ \/ slot.note = DecodedNote(raw)
           \/ /\ slot.note = NOTE_RETRIGGER
              /\ format # "S3M" /\ raw.effect_type = 14 /\ raw.effect_param = 144
    BY DEF NotesInv, AsksForE90
  <2>5. /\ DecodedNote(raw) \in (0 .. 96) \union {NOTE_SWITCH, NOTE_KEY_OFF}
        /\ DecodedNote(raw) = NOTE_SWITCH =>
             /\ raw.instrument # 0
             /\ format = "MOD" => raw.period = 0
             /\ format = "S3M" => raw.note = 255
    BY <2>1, DecodedNotes
  <2> QED
    BY <2>2, <2>3, <2>4, <2>5 DEF IsSlot, NOTE_SWITCH, NOTE_RETRIGGER, NOTE_KEY_OFF, MAX_NOTE
<1>3. NotesInv => NotesAreOfTheTable
  <2> SUFFICES ASSUME NotesInv, format = "MOD", pc # "reading", raw.period > 0
               PROVE  /\ \A octave \in 1 .. 5, n \in 1 .. 12 :
                           PeriodTable[octave][n] = raw.period => slot.note = 12 * (octave + 1) + n
                      /\ raw.period > 1 => slot.note <= ModNote(raw.period - 1)
    BY DEF NotesAreOfTheTable
  <2>1. raw \in MODSlots
    BY DEF NotesInv, FileSlots
  <2>2. raw.period \in Nat \ {0}
    BY <2>1, FilePeriods
  <2>3. DecodedNote(raw) = ModNote(raw.period)
    BY <2>2 DEF DecodedNote, ModSlot, SlotOf
  <2>4. slot.note = ModNote(raw.period)
    <3>1. ModNote(raw.period) \in 1 .. 84
      BY <2>1, <2>2, FilePeriods
    <3> QED
      BY <2>3, <3>1 DEF NotesInv
  <2> QED
    BY <2>2, <2>4, TableNotes, ModNoteFalls
<1> QED
  BY <1>1, <1>2, <1>3, NextNotesInv, SpecInv, PTL DEF Spec, NotesAreWritten
=============================================================================
