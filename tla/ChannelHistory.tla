----------------------------- MODULE ChannelHistory -----------------------------
(***************************************************************************)
(* Channel with a history variable, and what must be true of a channel.    *)
(***************************************************************************)
EXTENDS Channel

VARIABLES
  part,  \* the on or off part of a tremor: how many of its ticks were played
  whole  \* the row is played from its first tick on

hvars == <<vars, part, whole>>

-----------------------------------------------------------------------------
FirstTick == current_tick' = 1 /\ ~repeating'

(* Tremor runs at all ticks of a row but the first, that of S3M at the      *)
(* first too.                                                               *)
RunsTremor ==
  \/ ch'.current.effect_type = "TREMOR" /\ ~FirstTick
  \/ ch'.current.effect_type = "S3M_TREMOR"

TremorParam ==
  IF ch'.current.effect_type = "TREMOR" THEN ch'.vol.tremor_param ELSE ch'.effect_param
PartLength == 1 + (IF ch'.vol.tremor_on THEN High(TremorParam) ELSE Low(TremorParam))

Flips == ch'.vol.tremor_on # ch.vol.tremor_on

(* xm_trigger_instrument() ends a part early.                               *)
Restarts ==
  \/ FirstTick /\ ch'.current.instrument # 0
  \/ ch'.current.effect_type \in {"DELAY_NOTE", "RETRIGGER_NOTE"}

NoPart == [ticks |-> 0, length |-> 0, in_time |-> TRUE]

(* A part of length 0 is one whose beginning was not seen.                  *)
PartAfter ==
  IF RunsTremor /\ Flips
  THEN [ticks |-> 1, length |-> PartLength,
        in_time |-> part.in_time /\ (Restarts \/ part.length \in {0, part.ticks})]
  ELSE IF RunsTremor /\ part.length # 0
  THEN [part EXCEPT !.ticks = @ + 1, !.in_time = @ /\ part.ticks < part.length]
  ELSE IF Restarts THEN [part EXCEPT !.ticks = 0, !.length = 0] ELSE part

HistoryInit == Init /\ part = NoPart /\ whole = TRUE

Plays == Playing /\ part' = PartAfter /\ whole' = (whole \/ current_tick' = 1)

Skips == SkipTick /\ part' = part /\ whole' = FALSE

Called ==
  /\ \/ (\E tick \in 0 .. current_tempo : Seek(tick)) /\ part' = part
     \/ Dump /\ part' = part
     \/ Reset /\ part' = NoPart
  /\ whole' = FALSE

HistoryNext == Plays \/ Skips \/ Called

HistorySpec == HistoryInit /\ [][HistoryNext]_hvars

-----------------------------------------------------------------------------
(* What a tick makes of the volumes fits in an int32_t, with any envelope,  *)
(* and the panning in a byte, unless an envelope is at its rightmost.       *)
MixFits(v) ==
  /\ Attenuated(v, MAX_ENVELOPE_VALUE, MAX_FADEOUT_VOLUME - 1) <= 2147483647 \div MAX_VOLUME
  /\ Based(v) \in Byte
  /\ \A envelope \in 0 .. MAX_ENVELOPE_VALUE - 1 : Panned(Based(v), envelope) \in Byte

(* The assertions of xm_tick() that its arithmetic relies on, and the       *)
(* ranges of all other fields: volumes are at most MAX_VOLUME whatever      *)
(* slides, multiplies or restores them, an offset is at most MAX_VOLUME     *)
(* either way, the rounding error of a period is within half a semitone,    *)
(* and what is computed from them fits.                                     *)
TypeOK ==
  /\ loaded \in DOMAIN Modules
  /\ ch.vol \in Volumes /\ MixFits(ch.vol) /\ ch.pitch \in Pitches(m)
  /\ ch.effect_param \in Byte
  /\ current_tick \in Byte /\ current_tempo \in Byte /\ repeating \in BOOLEAN

(* In each pass of its row a slot is handled once: at its first tick, or    *)
(* at the one EDy names, if the row lasts that long.                        *)
HandledOnce ==
  current_tick # 0 /\ current_tick = current_tempo /\ whole =>
    ch.handled =
      IF ch.current.effect_type = "DELAY_NOTE"
      THEN IF ch.current.effect_param < current_tempo THEN 1 ELSE 0
      ELSE IF repeating THEN 0 ELSE 1

(* Txy is on for x+1 ticks and off for y+1, over rows and memory; a new     *)
(* parameter waits for the end of a part (the comment at the top of         *)
(* xm_tremor()).                                                            *)
TremorKeepsTime == part.in_time

(* An arpeggio ends with its row, and so does a vibrato of the effect       *)
(* column, unless another vibrato follows.  A slot without an effect is an  *)
(* arpeggio of parameter 0, which is none: no note may be offset in its row.*)
HasArpeggio(s) ==
  \/ s.effect_type = "ARPEGGIO" /\ s.effect_param # 0
  \/ s.effect_type = "S3M_ARPEGGIO"
NothingLingers ==
  ch.current # NoSlot =>
  /\ ch.pitch.arp_note_offset # 0 => HasArpeggio(ch.current)
  /\ ch.pitch.should_reset_vibrato /\ ch.pitch.vibrato_offset # 0 => HasVibrato(ch.current)

(* Rounding to semitones, for glissandos and arpeggios, is taken back in    *)
(* the end: what does not slide and triggers no note keeps the period.      *)
Slides(s) ==
  s.effect_type \in {"PORTAMENTO_UP", "PORTAMENTO_DOWN", "FINE_PORTAMENTO_UP",
                     "FINE_PORTAMENTO_DOWN", "EXTRA_FINE_PORTAMENTO_UP",
                     "EXTRA_FINE_PORTAMENTO_DOWN", "S3M_PORTAMENTO_UP", "S3M_PORTAMENTO_DOWN"}
Triggers(s) ==
  \/ s.note # 0 /\ ~IsKeyOff(s) /\ ~HasTonePortamento(s)
  \/ s.effect_type \in {"DELAY_NOTE", "RETRIGGER_NOTE", "MULTI_RETRIG_NOTE",
                        "S3M_MULTI_RETRIG_NOTE"}
RoundingIsUndone ==
  [][LET s == ch'.current
     IN  ~Slides(s) /\ ~HasTonePortamento(s) /\ ~Triggers(s) /\ ch' # NoChannel
           => TruePeriod(ch'.pitch) = TruePeriod(ch.pitch)]_hvars

(* A tone portamento does not pass its target; with rounding, not by more   *)
(* than a semitone.                                                         *)
Rounds(p) == p.glissando_control_param # 0 \/ p.glissando_control_error # 0
Ports(s) == HasTonePortamento(s) /\ ~Slides(s) /\ ~Triggers(s)
Distance(p) == p.period - p.tone_portamento_target_period
Semitone == 64
NeverOvershoots ==
  [][/\ Ports(ch'.current) /\ ch.pitch.tone_portamento_target_period # 0
     /\ ch.pitch.period # 0 /\ ch'.pitch.period # 0
     /\ ch'.pitch.tone_portamento_target_period = ch.pitch.tone_portamento_target_period
     => \/ Distance(ch'.pitch) >= 0 /\ Distance(ch.pitch) >= 0
        \/ Distance(ch'.pitch) <= 0 /\ Distance(ch.pitch) <= 0
        \/ /\ Rounds(ch.pitch) \/ Rounds(ch'.pitch)
           /\ Abs(Distance(ch'.pitch)) <= Semitone]_hvars

(* A tone portamento that is left alone, while rows of two ticks or more    *)
(* are played, arrives, however slow and however rounded; unless a slide    *)
(* muted the period by making it 0.                                         *)
Arrived(p) ==
  \/ p.tone_portamento_target_period = 0 \/ p.period = 0
  \/ Abs(Distance(p)) <= IF Rounds(p) THEN Semitone ELSE 0
LeftAlone ==
  /\ Ports(ch'.current) /\ ch'.current.note = 0 /\ ~HasVibrato(ch'.current)
  /\ ch'.pitch.tone_portamento_param # 0 /\ whole'
PortamentoArrives ==
  <>[][LeftAlone]_hvars /\ []<>(current_tick = 1) /\ []<>(current_tick = 2)
    => <>[]Arrived(ch.pitch)
=============================================================================
