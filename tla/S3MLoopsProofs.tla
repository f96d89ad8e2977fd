---------------------------- MODULE S3MLoopsProofs ----------------------------
(***************************************************************************)
(* For every S3M song of one pattern without Bxx and Cxx (IsS3M), whatever *)
(* its length and number of channels: the fixup of its loops finds the     *)
(* room it asserts and takes none that is in use, and what the sequencer   *)
(* plays of it sounds as ScreamTracker says.                               *)
(*                                                                         *)
(* What makes it work is that loops do not overlap, so that a row belongs  *)
(* to one loop at most, and its channel is the only one that counts.       *)
(***************************************************************************)
EXTENDS S3MLoops, SequencerProofs, WellFoundedInduction

-----------------------------------------------------------------------------
(* The greatest and the least of some numbers. *)

LEMMA LeastNumber ==
  ASSUME NEW S \in SUBSET Nat, S # {}
  PROVE  \E x \in S : \A y \in S : x <= y
<1> DEFINE Less == OpToRel(<, Nat)
<1>1. IsWellFoundedOn(Less, Nat)
  BY NatLessThanWellFounded
<1>2. PICK x \in S : \A y \in S : ~(<<y, x>> \in Less)
  <2> HIDE DEF Less
  <2> QED
    BY <1>1, WFMin
<1>3. \A y \in S : x <= y
  <2> SUFFICES ASSUME NEW y \in S, y < x PROVE FALSE
    OBVIOUS
  <2>1. <<y, x>> \in Less
    BY DEF OpToRel
  <2> QED
    BY <1>2, <2>1
<1> QED
  BY <1>3

LEMMA MinIs ==
  ASSUME NEW S \in SUBSET Nat, S # {}
  PROVE  Min(S) \in S /\ \A y \in S : Min(S) <= y
<1>1. \E x \in S : \A y \in S : x =< y
  BY LeastNumber
<1> QED
  BY <1>1 DEF Min

LEMMA MaxIs ==
  ASSUME NEW n \in Nat, NEW S \in SUBSET (0 .. n), S # {}
  PROVE  Max(S) \in S /\ \A y \in S : Max(S) >= y
<1> DEFINE U == {k \in Nat : \A y \in S : k >= y}
<1>1. n \in U
  OBVIOUS
<1>2. PICK k \in U : \A m \in U : k <= m
  <2> U \subseteq Nat
    OBVIOUS
  <2> HIDE DEF U
  <2> QED
    BY <1>1, LeastNumber
<1>3. k \in Nat /\ \A y \in S : k >= y
  BY <1>2
<1>4. k \in S
  <2> SUFFICES ASSUME k \notin S PROVE FALSE
    OBVIOUS
  <2>1. \A y \in S : y \in Nat /\ k > y
    BY <1>3
  <2>2. k > 0
    <3> PICK y \in S : TRUE
      OBVIOUS
    <3> QED
      BY <1>3, <2>1
  <2>3. k - 1 \in U
    BY <1>3, <2>1, <2>2
  <2> QED
    BY <1>2, <1>3, <2>3
<1>5. \E x \in S : \A y \in S : x >= y
  BY <1>3, <1>4
<1> QED
  BY <1>5 DEF Max

-----------------------------------------------------------------------------
(* The loops of a song, as the scan of the rows finds them. *)

Marks(s) == MarksOf(s.s3m)
Start(s, r) == LoopStart(Marks(s), r)
Body(s, e) == Start(s, e) .. e

LEMMA S3MFacts ==
  ASSUME NEW s \in Songs
  PROVE  /\ IsS3M(s)
         /\ s.total_rows \in Nat \ {0}
         /\ SlotRow(s) = 0 .. s.total_rows - 1
         /\ 0 \in SlotRow(s)
         /\ DOMAIN s.s3m = SlotRow(s)
         /\ \A r \in SlotRow(s), c \in Channel : s.s3m[r][c] \in S3MEffect
         /\ s.slots = FixedLoops(s.s3m)
<1>1. IsS3M(s)
  BY S3MAssumption
<1>2. s.total_rows \in Nat \ {0}
  BY <1>1, SongsAssumption DEF IsSong, IsS3M
<1> QED
  BY <1>1, <1>2 DEF IsS3M, SlotRow

LEMMA ChannelsAre == Channel \subseteq Nat /\ Channel \subseteq 0 .. NumChannels /\ Channel # {}
BY NumChannelsAssumption DEF Channel

LEMMA MarksAre ==
  ASSUME NEW s \in Songs
  PROVE  /\ DOMAIN Marks(s) = SlotRow(s)
         /\ \A r \in SlotRow(s) : /\ Marks(s)[r] = Mark(s.s3m[r])
                                  /\ Marks(s)[r] \in Byte \union {NoMark}
                                  /\ Marks(s)[r] > 0 =>
                                       \E c \in Channel : s.s3m[r][c].type = "PATTERN_LOOP"
<1>1. /\ DOMAIN Marks(s) = SlotRow(s)
      /\ \A r \in SlotRow(s) : Marks(s)[r] = Mark(s.s3m[r])
  BY S3MFacts DEF Marks, MarksOf
<1>2. ASSUME NEW r \in SlotRow(s)
      PROVE  /\ Mark(s.s3m[r]) \in Byte \union {NoMark}
             /\ Mark(s.s3m[r]) > 0 => \E c \in Channel : s.s3m[r][c].type = "PATTERN_LOOP"
  <2> DEFINE sbx == {c \in Channel : s.s3m[r][c].type = "PATTERN_LOOP"}
  <2>1. CASE sbx = {}
    BY <2>1 DEF Mark, NoMark
  <2>2. CASE sbx # {}
    <3>1. Mark(s.s3m[r]) = s.s3m[r][Max(sbx)].param
      BY <2>2 DEF Mark
    <3>2. sbx \in SUBSET (0 .. NumChannels) /\ NumChannels \in Nat
      BY ChannelsAre, NumChannelsAssumption
    <3>3. Max(sbx) \in sbx
      <4> HIDE DEF sbx
      <4> QED
        BY <2>2, <3>2, MaxIs
    <3>4. Max(sbx) \in Channel /\ s.s3m[r][Max(sbx)].type = "PATTERN_LOOP"
      BY <3>3
    <3> HIDE DEF sbx
    <3>5. s.s3m[r][Max(sbx)].param \in Byte
      BY <3>4, S3MFacts DEF S3MEffect
    <3> QED
      BY <3>1, <3>4, <3>5
  <2> QED
    BY <2>1, <2>2
<1> QED
  BY <1>1, <1>2

LEMMA EndsAre ==
  ASSUME NEW s \in Songs
  PROVE  /\ Ends(Marks(s)) = {e \in SlotRow(s) : Marks(s)[e] > 0}
         /\ \A e \in Ends(Marks(s)) : e \in Nat /\ Marks(s)[e] \in Byte \ {0}
<1>1. Ends(Marks(s)) = {e \in SlotRow(s) : Marks(s)[e] > 0}
  BY MarksAre DEF Ends
<1>2. \A e \in SlotRow(s) : e \in Nat /\ Marks(s)[e] \in Byte \union {NoMark}
  BY MarksAre, S3MFacts
<1> QED
  BY <1>1, <1>2 DEF NoMark, Byte

LEMMA StartIs ==
  ASSUME NEW s \in Songs, NEW r \in SlotRow(s)
  PROVE  /\ Start(s, r) \in 0 .. r
         /\ \A e \in Ends(Marks(s)) : e < r => e < Start(s, r)
         /\ \A q \in 0 .. r : Marks(s)[q] = 0 => q <= Start(s, r)
         /\ \/ Start(s, r) = 0
            \/ Marks(s)[Start(s, r)] = 0
            \/ Start(s, r) - 1 \in Ends(Marks(s))
<1> DEFINE E == Ends(Marks(s))
           A == {q \in 0 .. r : Marks(s)[q] = 0}
           B == {e + 1 : e \in E \cap 0 .. r - 1}
           S == {0} \union A \union B
<1>1. r \in Nat /\ E \subseteq Nat
  BY S3MFacts, EndsAre
<1>2. Start(s, r) = Max(S)
  BY DEF Start, LoopStart
<1>3. S \in SUBSET (0 .. r) /\ S # {}
  BY <1>1
<1>4. Start(s, r) \in S /\ \A y \in S : Start(s, r) >= y
  <2> HIDE DEF S
  <2> QED
    BY <1>1, <1>2, <1>3, MaxIs
<1>5. Start(s, r) \in 0 .. r
  BY <1>3, <1>4
<1>6. ASSUME NEW e \in E, e < r
      PROVE  e < Start(s, r)
  <2>1. e \in 0 .. r - 1
    BY <1>1, <1>6
  <2>2. e + 1 \in S
    BY <2>1
  <2> QED
    BY <1>1, <1>4, <1>5, <2>2
<1>7. ASSUME NEW q \in 0 .. r, Marks(s)[q] = 0
      PROVE  q <= Start(s, r)
  BY <1>4, <1>5, <1>7
<1>8. \/ Start(s, r) = 0
      \/ Marks(s)[Start(s, r)] = 0
      \/ Start(s, r) - 1 \in E
  BY <1>1, <1>4
<1> QED
  BY <1>5, <1>6, <1>7, <1>8

(* The rows at which a loop may start, as ScreamTracker says it. *)
Starts(s) == {r \in SlotRow(s) : r = 0 \/ Marks(s)[r] = 0 \/ r - 1 \in Ends(Marks(s))}

LEMMA StartsAre ==
  ASSUME NEW s \in Songs
  PROVE  /\ \A r \in SlotRow(s) : Start(s, r) \in Starts(s)
         /\ \A r \in Starts(s) : Start(s, r) = r
<1>1. \A r \in SlotRow(s) : 0 .. r \subseteq SlotRow(s) /\ r \in Nat
  BY S3MFacts
<1>2. ASSUME NEW r \in SlotRow(s)
      PROVE  Start(s, r) \in Starts(s)
  BY <1>1, StartIs DEF Starts
<1>3. ASSUME NEW r \in Starts(s)
      PROVE  Start(s, r) = r
  <2>1. r \in SlotRow(s) /\ r \in Nat
    BY <1>1 DEF Starts
  <2>2. Start(s, r) \in Nat /\ Start(s, r) <= r
    BY <2>1, StartIs
  <2>3. CASE r = 0
    BY <2>2, <2>3
  <2>4. CASE Marks(s)[r] = 0
    BY <2>1, <2>2, <2>4, StartIs
  <2>5. CASE r - 1 \in Ends(Marks(s))
    BY <2>1, <2>2, <2>5, StartIs
  <2> QED
    BY <2>3, <2>4, <2>5 DEF Starts
<1> QED
  BY <1>2, <1>3

(* The start of the loop, as a player would come to know it. *)
LEMMA StartGoesOn ==
  ASSUME NEW s \in Songs, NEW r \in SlotRow(s), r + 1 \in SlotRow(s)
  PROVE  Start(s, r + 1) = IF r + 1 \in Starts(s) THEN r + 1 ELSE Start(s, r)
<1> DEFINE a == Start(s, r)
           b == Start(s, r + 1)
<1>1. r \in Nat /\ 0 .. r \subseteq SlotRow(s)
  BY S3MFacts
<1>2. CASE r + 1 \in Starts(s)
  BY <1>2, StartsAre
<1>3. CASE r + 1 \notin Starts(s)
  <2>1. b \in 0 .. r + 1 /\ a \in 0 .. r
    BY StartIs
  <2>2. b # r + 1
    BY <1>3, StartsAre
  <2>3. b \in 0 .. r /\ b \in SlotRow(s)
    BY <1>1, <2>1, <2>2
  <2>4. b <= a
    <3>1. b \in Starts(s)
      BY StartsAre
    <3>2. CASE b = 0
      BY <2>1, <3>2
    <3>3. CASE Marks(s)[b] = 0
      BY <2>3, <3>3, StartIs
    <3>4. CASE b - 1 \in Ends(Marks(s))
      <4>1. b - 1 < r
        BY <1>1, <2>3
      <4>2. b - 1 < a
        BY <3>4, <4>1, StartIs
      <4> QED
        BY <2>1, <2>3, <4>2
    <3> QED
      BY <3>1, <3>2, <3>3, <3>4 DEF Starts
  <2>5. a <= b
    <3>1. a \in Starts(s) /\ a \in 0 .. r + 1
      BY <1>1, <2>1, StartsAre
    <3>2. CASE a = 0
      BY <2>3, <3>2
    <3>3. CASE Marks(s)[a] = 0
      BY <3>1, <3>3, StartIs
    <3>4. CASE a - 1 \in Ends(Marks(s))
      <4>1. a - 1 < r + 1
        BY <1>1, <2>1
      <4>2. a - 1 < b
        BY <3>4, <4>1, StartIs
      <4> QED
        BY <2>1, <2>3, <4>2
    <3> QED
      BY <3>1, <3>2, <3>3, <3>4 DEF Starts
  <2> QED
    BY <1>3, <2>1, <2>3, <2>4, <2>5
<1> QED
  BY <1>2, <1>3

(* Loops do not overlap. *)
LEMMA BodiesAreDisjoint ==
  ASSUME NEW s \in Songs, NEW e \in Ends(Marks(s)), NEW f \in Ends(Marks(s)),
         NEW r \in Body(s, e), r \in Body(s, f)
  PROVE  e = f
<1>1. e \in SlotRow(s) /\ f \in SlotRow(s) /\ e \in Nat /\ f \in Nat
  BY EndsAre
<1>2. Start(s, e) \in Nat /\ Start(s, f) \in Nat
  BY <1>1, StartIs
<1>3. r \in Nat /\ Start(s, e) <= r /\ r <= e /\ Start(s, f) <= r /\ r <= f
  BY <1>1, <1>2 DEF Body
<1>4. ~(e < f)
  BY <1>1, <1>2, <1>3, StartIs
<1>5. ~(f < e)
  BY <1>1, <1>2, <1>3, StartIs
<1> QED
  BY <1>1, <1>4, <1>5

LEMMA BodyIs ==
  ASSUME NEW s \in Songs, NEW e \in Ends(Marks(s))
  PROVE  /\ e \in Body(s, e) /\ Start(s, e) \in Body(s, e)
         /\ Body(s, e) \subseteq SlotRow(s)
         /\ Start(s, e) \in SlotRow(s) /\ e \in SlotRow(s)
<1>1. e \in SlotRow(s) /\ e \in Nat
  BY EndsAre
<1>2. Start(s, e) \in 0 .. e
  BY <1>1, StartIs
<1> QED
  BY <1>1, <1>2, S3MFacts DEF Body

-----------------------------------------------------------------------------
(* What the fixup makes of the loops that find room. *)

Kept(s) == Placed(s.s3m)
Emptied(s) == Cleared(s.s3m)
Home(s, e) == Min(Room(Emptied(s), Start(s, e), e))

(* Slot c of row r is where the fixup writes loop e. *)
Holds(s, e, r, c) == e \in Kept(s) /\ r \in {Start(s, e), e} /\ c = Home(s, e)

LEMMA KeptAre ==
  ASSUME NEW s \in Songs, NEW e \in Ends(Marks(s))
  PROVE  /\ e \in Kept(s) <=> Room(Emptied(s), Start(s, e), e) # {}
         /\ e \in Kept(s) => /\ Home(s, e) \in Channel
                             /\ Emptied(s)[Start(s, e)][Home(s, e)] = Free
                             /\ Emptied(s)[e][Home(s, e)] = Free
<1> DEFINE room == Room(Emptied(s), Start(s, e), e)
<1>1. e \in Kept(s) <=> room # {}
  BY DEF Kept, Placed, Emptied, Start, Marks
<1>2. room = {c \in Channel : Emptied(s)[Start(s, e)][c] = Free /\ Emptied(s)[e][c] = Free}
  BY DEF Room
<1>3. room \in SUBSET Nat
  BY <1>2, ChannelsAre
<1>4. room # {} => Home(s, e) \in room
  <2>1. Home(s, e) = Min(room)
    BY DEF Home
  <2> HIDE DEF room
  <2> QED
    BY <1>3, <2>1, MinIs
<1>5. e \in Kept(s) => Home(s, e) \in room
  BY <1>1, <1>4
<1> QED
  BY <1>1, <1>2, <1>5

LEMMA KeptEnd ==
  ASSUME NEW s \in Songs
  PROVE  Kept(s) \subseteq Ends(Marks(s))
BY DEF Kept, Placed, Marks

LEMMA EmptiedIs ==
  ASSUME NEW s \in Songs, NEW r \in SlotRow(s), NEW c \in Channel
  PROVE  /\ Emptied(s)[r][c] = IF s.s3m[r][c].type = "PATTERN_LOOP" THEN Free ELSE s.s3m[r][c]
         /\ Emptied(s)[r][c].type \in {"NONE", "SET_TEMPO", "DELAY_PATTERN"}
<1>1. Emptied(s)[r][c] = IF s.s3m[r][c].type = "PATTERN_LOOP" THEN Free ELSE s.s3m[r][c]
  BY S3MFacts DEF Emptied, Cleared
<1>2. s.s3m[r][c].type \in {"NONE", "SET_TEMPO", "DELAY_PATTERN", "PATTERN_LOOP"}
  BY S3MFacts DEF S3MEffect
<1> QED
  BY <1>1, <1>2 DEF Free

LEMMA OneLoopHolds ==
  ASSUME NEW s \in Songs, NEW e \in Kept(s), NEW f \in Kept(s), NEW r, NEW c, NEW d,
         Holds(s, e, r, c), Holds(s, f, r, d)
  PROVE  e = f
<1>1. e \in Ends(Marks(s)) /\ f \in Ends(Marks(s))
  BY KeptEnd
<1>2. r \in Body(s, e) /\ r \in Body(s, f)
  BY <1>1, BodyIs DEF Holds
<1> QED
  BY <1>1, <1>2, BodiesAreDisjoint

LEMMA FixedIs ==
  ASSUME NEW s \in Songs, NEW r \in SlotRow(s), NEW c \in Channel
  PROVE  /\ \A e : Holds(s, e, r, c) => s.slots[r][c] = LoopEffect(Marks(s), e, r)
         /\ (\A e : ~Holds(s, e, r, c)) => s.slots[r][c] = Emptied(s)[r][c]
<1> DEFINE here == {e \in Ends(Marks(s)) : /\ r \in {Start(s, e), e}
                                           /\ Room(Emptied(s), Start(s, e), e) # {}
                                           /\ c = Home(s, e)}
<1>1. s.slots[r][c] = IF here = {} THEN Emptied(s)[r][c]
                      ELSE LoopEffect(Marks(s), CHOOSE e \in here : TRUE, r)
  <2>1. s.slots = FixedLoops(s.s3m) /\ DOMAIN s.s3m = SlotRow(s)
    BY S3MFacts
  <2> QED
    BY <2>1 DEF FixedLoops, Marks, Emptied, Start, Home
<1>2. \A e : e \in here <=> Holds(s, e, r, c)
  BY KeptAre, KeptEnd DEF Holds
<1>3. ASSUME NEW e, Holds(s, e, r, c)
      PROVE  s.slots[r][c] = LoopEffect(Marks(s), e, r)
  <2> HIDE DEF here
  <2>1. e \in here /\ here # {}
    BY <1>2, <1>3
  <2>2. (CHOOSE f \in here : TRUE) \in here
    BY <2>1
  <2>3. Holds(s, CHOOSE f \in here : TRUE, r, c)
    BY <1>2, <2>2
  <2>4. (CHOOSE f \in here : TRUE) = e
    BY <1>3, <2>3, OneLoopHolds DEF Holds
  <2> QED
    BY <1>1, <2>1, <2>4
<1>4. ASSUME \A e : ~Holds(s, e, r, c)
      PROVE  s.slots[r][c] = Emptied(s)[r][c]
  <2> HIDE DEF here
  <2>1. here = {}
    BY <1>2, <1>4
  <2> QED
    BY <1>1, <2>1
<1> QED
  BY <1>3, <1>4

(* The effects of the loops: of one row, or at both ends. *)
LEMMA LoopEffects ==
  ASSUME NEW s \in Songs, NEW e \in Kept(s), NEW r \in {Start(s, e), e}
  PROVE  /\ r \in SlotRow(s) /\ Home(s, e) \in Channel
         /\ s.slots[r][Home(s, e)] =
              IF Start(s, e) = e THEN [type |-> "ROW_LOOP", param |-> Marks(s)[e]]
              ELSE [type |-> "PATTERN_LOOP", param |-> IF r = e THEN Marks(s)[e] ELSE 0]
<1>1. e \in Ends(Marks(s))
  BY KeptEnd
<1>2. r \in SlotRow(s) /\ Home(s, e) \in Channel
  BY <1>1, BodyIs, KeptAre
<1>3. Holds(s, e, r, Home(s, e))
  BY DEF Holds
<1>4. s.slots[r][Home(s, e)] = LoopEffect(Marks(s), e, r)
  BY <1>2, <1>3, FixedIs
<1> QED
  BY <1>2, <1>4 DEF LoopEffect, Start

(* There is no other effect that moves the sequencer. *)
LEMMA EffectsAre ==
  ASSUME NEW s \in Songs, NEW r \in SlotRow(s), NEW c \in Channel,
         \A e : ~Holds(s, e, r, c)
  PROVE  s.slots[r][c].type \in {"NONE", "SET_TEMPO", "DELAY_PATTERN"}
BY FixedIs, EmptiedIs

-----------------------------------------------------------------------------
(* The fixup finds the room it asserts, and takes none that is in use.      *)

LEMMA RowLoopsHaveRoom ==
  ASSUME NEW s \in Songs, NEW e \in Ends(Marks(s)), Start(s, e) = e
  PROVE  e \in Kept(s)
<1>1. e \in SlotRow(s) /\ Marks(s)[e] > 0
  BY EndsAre
<1>2. PICK c \in Channel : s.s3m[e][c].type = "PATTERN_LOOP"
  BY <1>1, MarksAre
<1>3. Emptied(s)[e][c] = Free
  BY <1>1, <1>2, EmptiedIs
<1>4. c \in Room(Emptied(s), Start(s, e), e)
  BY <1>3 DEF Room
<1> QED
  BY <1>4, KeptAre

(* A row inside of a loop holds no end of another. *)
LEMMA InsideIsFree ==
  ASSUME NEW s \in Songs, NEW e \in Kept(s), NEW r \in Start(s, e) + 1 .. e - 1,
         NEW c \in Channel
  PROVE  r \in SlotRow(s) /\ \A f : ~Holds(s, f, r, c)
<1>1. e \in Ends(Marks(s)) /\ e \in Nat
  BY KeptEnd, EndsAre
<1>2. Start(s, e) \in Nat
  BY <1>1, EndsAre, StartIs
<1>3. r \in Body(s, e) /\ r # e /\ r # Start(s, e)
  BY <1>1, <1>2 DEF Body
<1>4. r \in SlotRow(s)
  BY <1>1, <1>3, BodyIs
<1>5. ASSUME NEW f, Holds(s, f, r, c)
      PROVE  FALSE
  <2>1. f \in Ends(Marks(s)) /\ r \in Body(s, f)
    BY <1>5, KeptEnd, BodyIs DEF Holds
  <2>2. f = e
    BY <1>1, <1>3, <2>1, BodiesAreDisjoint
  <2> QED
    BY <1>3, <1>5, <2>2 DEF Holds
<1> QED
  BY <1>4, <1>5

LEMMA NothingIsDisplaced ==
  ASSUME song \in Songs
  PROVE  LoopsDisplaceNothing
<1> DEFINE fixed == song.slots
<1> SUFFICES ASSUME NEW r \in SlotRow(song), NEW c \in Channel
             PROVE  /\ song.s3m[r][c].type # "PATTERN_LOOP" /\ song.s3m[r][c] # Free =>
                         fixed[r][c] = song.s3m[r][c]
                    /\ fixed[r][c].type = "PATTERN_LOOP" /\ fixed[r][c].param > 0 =>
                         /\ fixed[Start(song, r)][c] = [type |-> "PATTERN_LOOP", param |-> 0]
                         /\ \A q \in Start(song, r) + 1 .. r - 1, d \in Channel :
                              fixed[q][d].type \notin {"PATTERN_LOOP", "ROW_LOOP"}
  <2>1. DOMAIN song.s3m = SlotRow(song)
    BY S3MFacts
  <2> QED
    BY <2>1 DEF LoopsDisplaceNothing, Start, Marks
<1>1. ASSUME song.s3m[r][c].type # "PATTERN_LOOP", song.s3m[r][c] # Free
      PROVE  fixed[r][c] = song.s3m[r][c]
  <2>1. Emptied(song)[r][c] = song.s3m[r][c]
    BY <1>1, EmptiedIs
  <2>2. ASSUME NEW e, Holds(song, e, r, c)
        PROVE  FALSE
    <3>1. e \in Ends(Marks(song)) /\ e \in Kept(song)
      BY <2>2, KeptEnd DEF Holds
    <3>2. Emptied(song)[r][c] = Free
      BY <2>2, <3>1, KeptAre DEF Holds
    <3> QED
      BY <1>1, <2>1, <3>2
  <2> QED
    BY <2>1, <2>2, FixedIs
<1>2. ASSUME fixed[r][c].type = "PATTERN_LOOP", fixed[r][c].param > 0
      PROVE  /\ fixed[Start(song, r)][c] = [type |-> "PATTERN_LOOP", param |-> 0]
             /\ \A q \in Start(song, r) + 1 .. r - 1, d \in Channel :
                  fixed[q][d].type \notin {"PATTERN_LOOP", "ROW_LOOP"}
  <2>1. PICK e : Holds(song, e, r, c)
    BY <1>2, EffectsAre
  <2>2. e \in Kept(song) /\ r \in {Start(song, e), e} /\ c = Home(song, e)
    BY <2>1 DEF Holds
  <2>3. Start(song, e) # e /\ r = e
    <3>1. fixed[r][c] = IF Start(song, e) = e THEN [type |-> "ROW_LOOP", param |-> Marks(song)[e]]
                        ELSE [type |-> "PATTERN_LOOP",
                              param |-> IF r = e THEN Marks(song)[e] ELSE 0]
      BY <2>2, LoopEffects
    <3> HIDE DEF fixed
    <3>2. Start(song, e) # e
      BY <1>2, <3>1
    <3> QED
      BY <1>2, <3>1, <3>2
  <2>4. fixed[Start(song, r)][c] = [type |-> "PATTERN_LOOP", param |-> 0]
    BY <2>2, <2>3, LoopEffects
  <2>5. ASSUME NEW q \in Start(song, r) + 1 .. r - 1, NEW d \in Channel
        PROVE  fixed[q][d].type \notin {"PATTERN_LOOP", "ROW_LOOP"}
    <3>1. q \in SlotRow(song) /\ \A f : ~Holds(song, f, q, d)
      BY <2>2, <2>3, InsideIsFree
    <3> QED
      BY <3>1, EffectsAre
  <2> QED
    BY <2>4, <2>5
<1> QED
  BY <1>1, <1>2

LEMMA LoopsSteps == LoopsSpec => Spec
<1>1. LoopsInit => Init
  BY DEF LoopsInit
<1>2. [LoopsNext]_loopsVars => [Next]_vars
  BY DEF LoopsNext, Next, loopsVars
<1> QED
  BY <1>1, <1>2, PTL DEF LoopsSpec, Spec

(* In a song of one pattern without Bxx and Cxx: a loop of a single row     *)
(* finds the room the code asserts, effects that are not loops stay where   *)
(* they were, and no channel is given two loops at a time.                  *)
THEOREM LoopsAlwaysFit == LoopsSpec => []LoopsFit
<1>1. IInv => LoopsFit
  <2>1. IInv => LoopsDisplaceNothing
    BY NothingIsDisplaced DEF IInv
  <2>2. IInv => RowLoopsFit
    BY RowLoopsHaveRoom DEF IInv, RowLoopsFit, Marks, Start, Kept
  <2> QED
    BY <2>1, <2>2 DEF LoopsFit
<1> QED
  BY LoopsSteps, InitIInv, NextIInv, <1>1, PTL DEF Spec

-----------------------------------------------------------------------------
(* Between two rows and in the middle of one, only the loop the row belongs *)
(* to is counting, in its own channel: heard.repeats says how far.          *)

Inside(s, r, c) == \E e \in Kept(s) : c = Home(s, e) /\ r \in Body(s, e)

CountFits(s, r, n) ==
  /\ n \in Nat
  /\ n > 0 => \E e \in Kept(s) : r \in Body(s, e) /\ n <= Marks(s)[e]

(* The repeats that are asked for after row r, and the rows after the last. *)
Repeated(s, r, n) == IF r \notin Kept(s) THEN n ELSE IF n = Marks(s)[r] THEN 0 ELSE n + 1

MayHear(s, h, r) ==
  /\ h.row \in Kept(s) /\ h.repeats > 0 => r = Start(s, h.row)
  /\ ~(h.row \in Kept(s) /\ h.repeats > 0) =>
       IF h.row + 1 \in SlotRow(s) THEN r = h.row + 1 ELSE r \in Starts(s)

BetweenRows ==
  /\ \A c \in Channel :
       pattern_loop_count[c] = IF Inside(song, heard.row, c) THEN heard.repeats ELSE 0
  /\ \A e \in Kept(song) : heard.row \in Body(song, e) /\ Start(song, e) # e =>
       pattern_loop_origin[Home(song, e)] = Start(song, e)
  /\ position_jump <=> heard.row \in Kept(song) /\ heard.repeats > 0
  /\ MayHear(song, heard, IF position_jump THEN jump_row ELSE current_row)

AtRow ==
  /\ current_row \in SlotRow(song) /\ MayHear(song, heard, current_row)
  /\ CountFits(song, current_row, heard.repeats)
  /\ \A c \in Channel :
       pattern_loop_count[c] = IF ~Inside(song, current_row, c) THEN 0
                               ELSE IF c < chan THEN Repeated(song, current_row, heard.repeats)
                               ELSE heard.repeats
  /\ \A e \in Kept(song) : /\ current_row \in Body(song, e) /\ Start(song, e) # e
                           /\ current_row = Start(song, e) => Home(song, e) < chan
                           => pattern_loop_origin[Home(song, e)] = Start(song, e)
  /\ position_jump <=> /\ current_row \in Kept(song) /\ Home(song, current_row) < chan
                       /\ Repeated(song, current_row, heard.repeats) > 0
  /\ position_jump => jump_row = Start(song, current_row)

LoopsInv ==
  /\ heard.row \in SlotRow(song) \union {-1}
  /\ CountFits(song, heard.row, heard.repeats)
  /\ current_table_index = 0 /\ jump_dest = 0 /\ ~pattern_break
  /\ jump_row \in Starts(song)
  /\ IF pc = "row" THEN AtRow ELSE BetweenRows

LEMMA KeptBodies ==
  ASSUME NEW s \in Songs, NEW e \in Kept(s)
  PROVE  /\ e \in SlotRow(s) /\ e \in Nat /\ Marks(s)[e] \in Byte \ {0}
         /\ Start(s, e) \in Nat /\ Start(s, e) <= e /\ Start(s, e) \in Starts(s)
         /\ e \in Body(s, e) /\ Start(s, e) \in Body(s, e)
         /\ Body(s, e) \subseteq SlotRow(s)
         /\ Home(s, e) \in Channel
         /\ \A f \in Kept(s) : \A r \in Body(s, e) : r \in Body(s, f) => f = e
<1>1. e \in Ends(Marks(s)) /\ \A f \in Kept(s) : f \in Ends(Marks(s))
  BY KeptEnd
<1>2. e \in SlotRow(s) /\ e \in Nat /\ Marks(s)[e] \in Byte \ {0}
  BY <1>1, EndsAre
<1>3. Start(s, e) \in 0 .. e /\ Start(s, e) \in Starts(s)
  BY <1>2, StartIs, StartsAre
<1> QED
  BY <1>1, <1>2, <1>3, BodyIs, KeptAre, BodiesAreDisjoint

LEMMA OnlyHomeIsInside ==
  ASSUME NEW s \in Songs, NEW e \in Kept(s), NEW r \in Body(s, e), NEW c
  PROVE  Inside(s, r, c) <=> c = Home(s, e)
BY KeptBodies DEF Inside

(* A row that starts a loop is not inside of another. *)
LEMMA StartsAreOutside ==
  ASSUME NEW s \in Songs, NEW e \in Kept(s), NEW r \in Body(s, e), r \in Starts(s)
  PROVE  r = Start(s, e)
<1>1. e \in SlotRow(s) /\ e \in Nat /\ Start(s, e) \in Nat
  BY KeptBodies
<1>2. r \in Nat /\ Start(s, e) <= r /\ r <= e
  BY <1>1 DEF Body
<1>3. CASE r = 0
  BY <1>1, <1>2, <1>3
<1>4. CASE Marks(s)[r] = 0
  BY <1>1, <1>2, <1>4, StartIs
<1>5. CASE r - 1 \in Ends(Marks(s))
  <2>1. r - 1 < e
    BY <1>1, <1>2
  <2>2. r - 1 < Start(s, e)
    BY <1>1, <1>5, <2>1, StartIs
  <2> QED
    BY <1>1, <1>2, <2>2
<1> QED
  BY <1>3, <1>4, <1>5 DEF Starts

(* The row heard next belongs to the loop that is counting, if one is; and  *)
(* no loop is entered but by its start.                                     *)
LEMMA NextRowFits ==
  ASSUME NEW s \in Songs, NEW h, h.row \in SlotRow(s) \union {-1},
         CountFits(s, h.row, h.repeats), NEW r, MayHear(s, h, r)
  PROVE  /\ r \in SlotRow(s) /\ CountFits(s, r, h.repeats)
         /\ h.repeats > 0 => \A c : Inside(s, r, c) <=> Inside(s, h.row, c)
         /\ \A e \in Kept(s) : r \in Body(s, e) /\ r # Start(s, e) => h.row \in Body(s, e)
<1> DEFINE back == h.row \in Kept(s) /\ h.repeats > 0
<1>0. h.repeats \in Nat /\ \A q \in SlotRow(s) : q \in Nat
  BY S3MFacts DEF CountFits
<1>1. r \in SlotRow(s)
  <2>1. CASE back
    BY <2>1, KeptBodies DEF MayHear
  <2>2. CASE ~back
    BY <2>2 DEF MayHear, Starts
  <2> QED
    BY <2>1, <2>2
<1>2. ASSUME h.repeats > 0
      PROVE  \E e \in Kept(s) : r \in Body(s, e) /\ h.row \in Body(s, e) /\ h.repeats <= Marks(s)[e]
  <2>1. PICK e \in Kept(s) : h.row \in Body(s, e) /\ h.repeats <= Marks(s)[e]
    BY <1>2 DEF CountFits
  <2>2. CASE back
    <3>1. h.row = e
      BY <2>1, <2>2, KeptBodies
    <3>2. r = Start(s, e)
      BY <2>2, <3>1 DEF MayHear
    <3> QED
      BY <2>1, <3>2, KeptBodies
  <2>3. CASE ~back
    <3>1. h.row # e
      BY <1>2, <2>3
    <3>2. e \in Nat /\ Start(s, e) \in Nat /\ e \in SlotRow(s)
      BY KeptBodies
    <3>3. h.row \in Start(s, e) .. e - 1
      BY <2>1, <3>1, <3>2 DEF Body
    <3>4. h.row + 1 \in Body(s, e)
      BY <3>2, <3>3 DEF Body
    <3>5. h.row + 1 \in SlotRow(s)
      BY <3>4, KeptBodies
    <3>6. r = h.row + 1
      BY <2>3, <3>5 DEF MayHear
    <3> QED
      BY <2>1, <3>4, <3>6
  <2> QED
    BY <2>2, <2>3
<1>3. CountFits(s, r, h.repeats)
  BY <1>0, <1>2 DEF CountFits
<1>4. ASSUME h.repeats > 0
      PROVE  \A c : Inside(s, r, c) <=> Inside(s, h.row, c)
  <2>1. PICK e \in Kept(s) : r \in Body(s, e) /\ h.row \in Body(s, e)
    BY <1>2, <1>4
  <2> QED
    BY <2>1, OnlyHomeIsInside
<1>5. ASSUME NEW e \in Kept(s), r \in Body(s, e), r # Start(s, e)
      PROVE  h.row \in Body(s, e)
  <2>1. CASE back
    <3>1. r = Start(s, h.row) /\ r \in Body(s, h.row)
      BY <2>1, KeptBodies DEF MayHear
    <3>2. h.row = e
      BY <1>5, <2>1, <3>1, KeptBodies
    <3> QED
      BY <1>5, <3>1, <3>2
  <2>2. CASE ~back /\ h.row + 1 \in SlotRow(s)
    <3>1. r = h.row + 1
      BY <2>2 DEF MayHear
    <3>2. e \in Nat /\ Start(s, e) \in Nat
      BY KeptBodies
    <3>3. h.row \in Int
      BY <1>0
    <3> QED
      BY <1>5, <3>1, <3>2, <3>3 DEF Body
  <2>3. CASE ~back /\ h.row + 1 \notin SlotRow(s)
    <3>1. r \in Starts(s)
      BY <2>3 DEF MayHear
    <3> QED
      BY <1>5, <3>1, StartsAreOutside
  <2> QED
    BY <2>1, <2>2, <2>3
<1> QED
  BY <1>1, <1>3, <1>4, <1>5

-----------------------------------------------------------------------------
(* Every step keeps LoopsInv. *)

LEMMA PatternIs ==
  ASSUME song \in Songs
  PROVE  /\ TableIndex = {0} /\ NextEntry(0) = 0
         /\ song.num_rows[PatternAt(0)] = song.total_rows
         /\ song.total_rows \in 1 .. Bytes
         /\ \A r \in SlotRow(song), c \in Channel : Slot(0, r, c) = song.slots[r][c]
<1>1. IsS3M(song) /\ song.total_rows \in Nat \ {0} /\ SlotRow(song) = 0 .. song.total_rows - 1
  BY S3MFacts
<1>2. song.length = 1 /\ song.restart_position = 0
  BY <1>1, SongsAssumption DEF IsSong, IsS3M
<1>3. TableIndex = {0} /\ NextEntry(0) = 0
  BY <1>2 DEF TableIndex, NextEntry
<1>4. song.num_rows[PatternAt(0)] = song.total_rows /\ song.rows_index[PatternAt(0)] = 0
  BY <1>1 DEF IsS3M, PatternAt
<1>5. song.total_rows <= Bytes
  <2>1. PatternAt(0) \in Patterns(song)
    BY <1>2, SongFacts DEF PatternAt
  <2>2. song.num_rows[PatternAt(0)] \in 0 .. Bytes
    BY <2>1, SongFacts
  <2> QED
    BY <1>4, <2>2, BytesAssumption
<1>6. ASSUME NEW r \in SlotRow(song), NEW c \in Channel
      PROVE  Slot(0, r, c) = song.slots[r][c]
  <2>1. r \in Nat /\ 0 + r = r
    BY <1>1
  <2> QED
    BY <1>4, <2>1 DEF Slot
<1> QED
  BY <1>1, <1>3, <1>4, <1>5, <1>6, BytesAssumption

LEMMA InitLoopsInv == LoopsInit => LoopsInv
<1> SUFFICES ASSUME LoopsInit PROVE LoopsInv
  OBVIOUS
<1> USE DEF LoopsInit, Init
<1>1. song \in Songs /\ SlotRow(song) \subseteq Nat /\ 0 \in SlotRow(song)
  BY S3MFacts
<1>2. heard.row = -1 /\ heard.repeats = 0
  OBVIOUS
<1>3. CountFits(song, heard.row, heard.repeats)
  BY <1>2 DEF CountFits
<1>4. \A e \in Kept(song) : heard.row \notin Body(song, e)
  <2>1. -1 \notin Nat
    OBVIOUS
  <2> QED
    BY <1>1, <1>2, <2>1, KeptBodies
<1>5. heard.row \notin Kept(song)
  BY <1>1, <1>4, KeptBodies
<1>6. MayHear(song, heard, current_row)
  BY <1>1, <1>2, <1>5 DEF MayHear
<1>7. BetweenRows
  BY <1>2, <1>4, <1>5, <1>6 DEF BetweenRows
<1>8. 0 \in Starts(song)
  BY <1>1 DEF Starts
<1> QED
  BY <1>2, <1>3, <1>7, <1>8 DEF LoopsInv

LEMMA StartRowLoopsInv ==
  ASSUME song \in Songs, LoopsInv, StartRow, heard' = heard
  PROVE  LoopsInv'
<1> USE DEF StartRow
<1>1. song' = song /\ pc = "idle" /\ pc' = "row" /\ chan' = 1 /\ BetweenRows
  BY DEF LoopsInv
<1>2. /\ current_table_index = 0 /\ jump_dest = 0 /\ ~pattern_break
      /\ jump_row \in Starts(song) /\ 0 \in Starts(song)
  BY <1>1, S3MFacts DEF LoopsInv, Starts
<1>3. /\ current_table_index' = 0 /\ jump_dest' = 0 /\ pattern_break' = FALSE
      /\ position_jump' = FALSE /\ jump_row' \in Starts(song)
      /\ pattern_loop_count' = pattern_loop_count /\ pattern_loop_origin' = pattern_loop_origin
      /\ current_row' = IF position_jump THEN jump_row ELSE current_row
  BY <1>1, <1>2 DEF Pending, loopVars
<1>4. /\ heard.row \in SlotRow(song) \union {-1} /\ CountFits(song, heard.row, heard.repeats)
      /\ MayHear(song, heard, current_row')
  BY <1>1, <1>3 DEF LoopsInv, BetweenRows
<1>5. /\ current_row' \in SlotRow(song) /\ CountFits(song, current_row', heard.repeats)
      /\ heard.repeats > 0 =>
           \A c : Inside(song, current_row', c) <=> Inside(song, heard.row, c)
      /\ \A e \in Kept(song) : current_row' \in Body(song, e) /\ current_row' # Start(song, e)
                               => heard.row \in Body(song, e)
  BY <1>4, NextRowFits
<1>6. \A c \in Channel : ~(c < 1)
  BY DEF Channel
<1>7. ASSUME NEW c \in Channel
      PROVE  pattern_loop_count'[c] =
               IF ~Inside(song, current_row', c) THEN 0
               ELSE IF c < 1 THEN Repeated(song, current_row', heard.repeats)
               ELSE heard.repeats
  <2>1. pattern_loop_count'[c] = IF Inside(song, heard.row, c) THEN heard.repeats ELSE 0
    BY <1>1, <1>3 DEF BetweenRows
  <2>2. heard.repeats \in Nat
    BY <1>4 DEF CountFits
  <2>3. CASE heard.repeats = 0
    BY <1>6, <2>1, <2>3
  <2>4. CASE heard.repeats > 0
    BY <1>5, <1>6, <2>1, <2>4
  <2> QED
    BY <2>2, <2>3, <2>4
<1>8. ASSUME NEW e \in Kept(song), current_row' \in Body(song, e), Start(song, e) # e,
             current_row' = Start(song, e) => Home(song, e) < 1
      PROVE  pattern_loop_origin'[Home(song, e)] = Start(song, e)
  <2>1. current_row' # Start(song, e)
    BY <1>6, <1>8, KeptBodies
  <2>2. heard.row \in Body(song, e)
    BY <1>5, <1>8, <2>1
  <2> QED
    BY <1>1, <1>3, <1>8, <2>2 DEF BetweenRows
<1>9. AtRow'
  <2>1. ~(current_row' \in Kept(song) /\ Home(song, current_row') < 1)
    BY <1>6, KeptBodies
  <2> QED
    BY <1>1, <1>3, <1>4, <1>5, <1>7, <1>8, <2>1 DEF AtRow
<1> QED
  BY <1>1, <1>3, <1>4, <1>9 DEF LoopsInv

(* Between rows, and in the middle of one, nothing else matters. *)
LEMMA OtherStepsLoopsInv ==
  ASSUME LoopsInv, UNCHANGED <<song, current_table_index, current_row, jumpVars, loopVars, heard>>,
         \/ pc # "row" /\ pc' # "row"
         \/ pc' = pc /\ chan' = chan
  PROVE  LoopsInv'
<1> USE DEF jumpVars, loopVars
<1>1. CASE pc # "row" /\ pc' # "row"
  BY <1>1 DEF LoopsInv, BetweenRows
<1>2. CASE pc' = pc /\ chan' = chan
  BY <1>2 DEF LoopsInv, BetweenRows, AtRow
<1> QED
  BY <1>1, <1>2

(* What is the same for every slot of a row. *)
InRow == song \in Songs /\ LoopsInv /\ pc = "row" /\ chan \in Channel
SlotHandled ==
  /\ chan' = chan + 1
  /\ UNCHANGED <<song, heard, pc, current_table_index, current_row, pattern_break>>

LEMMA InRowFacts ==
  ASSUME InRow
  PROVE  /\ AtRow /\ current_row \in SlotRow(song) /\ current_row \in Nat
         /\ current_table_index = 0 /\ jump_dest = 0 /\ ~pattern_break
         /\ jump_row \in Starts(song) /\ CountFits(song, heard.row, heard.repeats)
         /\ heard.row \in SlotRow(song) \union {-1}
         /\ \A c \in Channel : c \in Nat /\ (c < chan + 1 <=> c < chan \/ c = chan)
         /\ Slot(current_table_index, current_row, chan) = song.slots[current_row][chan]
<1>1. AtRow /\ current_row \in SlotRow(song)
  BY DEF InRow, LoopsInv, AtRow
<1>2. current_table_index = 0
  BY DEF InRow, LoopsInv
<1>3. current_row \in Nat
  BY <1>1, S3MFacts DEF InRow
<1>4. \A c \in Channel : c \in Nat /\ (c < chan + 1 <=> c < chan \/ c = chan)
  BY DEF InRow, Channel
<1>5. Slot(current_table_index, current_row, chan) = song.slots[current_row][chan]
  BY <1>1, <1>2, PatternIs DEF InRow
<1> QED
  BY <1>1, <1>2, <1>3, <1>4, <1>5 DEF InRow, LoopsInv

LEMMA PlainSlotLoopsInv ==
  ASSUME InRow, SlotHandled, UNCHANGED <<position_jump, jump_dest, jump_row, loopVars>>,
         \A e : ~Holds(song, e, current_row, chan)
  PROVE  LoopsInv'
<1> USE DEF SlotHandled, loopVars
<1>1. \A c \in Channel : c \in Nat /\ (c < chan + 1 <=> c < chan \/ c = chan)
  BY InRowFacts
<1>2. current_row \in Kept(song) => Home(song, current_row) # chan
  BY DEF Holds
<1>3. ASSUME Inside(song, current_row, chan)
      PROVE  current_row \notin Kept(song)
  BY <1>2, <1>3, OnlyHomeIsInside, KeptBodies DEF InRow
<1>4. ASSUME NEW c \in Channel
      PROVE  pattern_loop_count[c] =
               IF ~Inside(song, current_row, c) THEN 0
               ELSE IF c < chan + 1 THEN Repeated(song, current_row, heard.repeats)
               ELSE heard.repeats
  <2>1. pattern_loop_count[c] =
          IF ~Inside(song, current_row, c) THEN 0
          ELSE IF c < chan THEN Repeated(song, current_row, heard.repeats)
          ELSE heard.repeats
    BY InRowFacts DEF AtRow
  <2>2. c = chan /\ Inside(song, current_row, c) =>
          Repeated(song, current_row, heard.repeats) = heard.repeats
    BY <1>3 DEF Repeated
  <2>3. ~(chan < chan)
    BY <1>1 DEF InRow
  <2> QED
    BY <1>1, <2>1, <2>2, <2>3
<1>5. ASSUME NEW e \in Kept(song), current_row \in Body(song, e), Start(song, e) # e,
             current_row = Start(song, e) => Home(song, e) < chan + 1
      PROVE  pattern_loop_origin[Home(song, e)] = Start(song, e)
  <2>1. current_row = Start(song, e) => Home(song, e) # chan
    BY DEF Holds
  <2>2. current_row = Start(song, e) => Home(song, e) < chan
    BY <1>1, <1>5, <2>1, KeptBodies DEF InRow
  <2> QED
    BY <1>5, <2>2, InRowFacts DEF AtRow
<1>6. position_jump <=> /\ current_row \in Kept(song) /\ Home(song, current_row) < chan + 1
                        /\ Repeated(song, current_row, heard.repeats) > 0
  <2>1. current_row \in Kept(song) =>
          (Home(song, current_row) < chan + 1 <=> Home(song, current_row) < chan)
    BY <1>1, <1>2, KeptBodies DEF InRow
  <2> QED
    BY <2>1, InRowFacts DEF AtRow
<1>7. AtRow'
  BY <1>4, <1>5, <1>6, InRowFacts DEF AtRow
<1> QED
  BY <1>7, InRowFacts DEF LoopsInv, InRow

LEMMA LoopStartLoopsInv ==
  ASSUME InRow, SlotHandled, UNCHANGED <<position_jump, jump_dest, pattern_loop_count>>,
         NEW e \in Kept(song), current_row = Start(song, e), Start(song, e) # e,
         chan = Home(song, e), jump_row' = current_row,
         pattern_loop_origin' = [pattern_loop_origin EXCEPT ![chan] = current_row],
         pattern_loop_origin \in [Channel -> Byte]
  PROVE  LoopsInv'
<1> USE DEF SlotHandled
<1>1. /\ song \in Songs /\ current_row \in Body(song, e) /\ current_row \in Starts(song)
      /\ \A f \in Kept(song) : current_row \in Body(song, f) => f = e
      /\ current_row \in SlotRow(song)
  BY KeptBodies, InRowFacts DEF InRow
<1>2. current_row \notin Kept(song)
  BY <1>1, KeptBodies
<1>3. Repeated(song, current_row, heard.repeats) = heard.repeats
  BY <1>2 DEF Repeated
<1>4. ASSUME NEW c \in Channel
      PROVE  pattern_loop_count[c] =
               IF ~Inside(song, current_row, c) THEN 0
               ELSE IF c < chan + 1 THEN Repeated(song, current_row, heard.repeats)
               ELSE heard.repeats
  BY <1>3, InRowFacts DEF AtRow
<1>5. ASSUME NEW f \in Kept(song), current_row \in Body(song, f)
      PROVE  pattern_loop_origin'[Home(song, f)] = Start(song, f)
  <2>1. f = e
    BY <1>1, <1>5
  <2> QED
    BY <2>1 DEF InRow
<1>6. ~position_jump
  BY <1>2, InRowFacts DEF AtRow
<1>7. AtRow'
  BY <1>2, <1>4, <1>5, <1>6, InRowFacts DEF AtRow
<1> QED
  BY <1>1, <1>7, InRowFacts DEF LoopsInv, InRow

(* The end of a loop: from is the row to go back to. *)
LEMMA LoopEndLoopsInv ==
  ASSUME InRow, SlotHandled, current_row \in Kept(song), chan = Home(song, current_row),
         NEW from, from = Start(song, current_row), LoopBack(from),
         Param = Marks(song)[current_row],
         \/ pattern_loop_origin' = pattern_loop_origin
         \/ Start(song, current_row) = current_row,
         pattern_loop_count \in [Channel -> Byte]
  PROVE  LoopsInv'
<1> DEFINE n == heard.repeats
           e == current_row
<1> USE DEF SlotHandled
<1>1. /\ song \in Songs /\ e \in Body(song, e) /\ from \in Starts(song)
      /\ \A f \in Kept(song) : e \in Body(song, f) => f = e
      /\ Marks(song)[e] \in Byte \ {0} /\ e \in SlotRow(song)
      /\ chan \in Channel
  BY KeptBodies, InRowFacts DEF InRow
<1>2. \A c \in Channel : c \in Nat /\ (c < chan + 1 <=> c < chan \/ c = chan)
  BY InRowFacts
<1>3. ~(chan < chan)
  BY <1>1, <1>2
<1>4. n \in Nat /\ n <= Marks(song)[e]
  <2>1. n \in Nat /\ (n > 0 => \E f \in Kept(song) : e \in Body(song, f) /\ n <= Marks(song)[f])
    BY InRowFacts DEF AtRow, CountFits
  <2>2. n > 0 => n <= Marks(song)[e]
    BY <1>1, <2>1
  <2> QED
    BY <1>1, <2>1, <2>2 DEF Byte
<1>5. \A c \in Channel : Inside(song, e, c) <=> c = chan
  BY <1>1, OnlyHomeIsInside
<1>6. /\ pattern_loop_count[chan] = n
      /\ \A c \in Channel : c # chan => pattern_loop_count[c] = 0
  BY <1>1, <1>3, <1>5, InRowFacts DEF AtRow
<1>7. ~position_jump
  BY <1>3, InRowFacts DEF AtRow
<1>8. Repeated(song, e, n) = IF n = Marks(song)[e] THEN 0 ELSE n + 1
  BY DEF Repeated
<1>9. /\ pattern_loop_count' = [pattern_loop_count EXCEPT ![chan] = Repeated(song, e, n)]
      /\ position_jump' <=> n # Marks(song)[e]
      /\ jump_dest' = 0
      /\ jump_row' = IF n = Marks(song)[e] THEN jump_row ELSE from
  <2>1. CASE n = Marks(song)[e]
    BY <1>6, <1>7, <1>8, <2>1, InRowFacts DEF LoopBack
  <2>2. CASE n # Marks(song)[e]
    <3>1. ArmLoop(from)
      BY <1>6, <2>2 DEF LoopBack
    <3>2. n + 1 \in Byte
      BY <1>1, <1>4, <2>2, BytesAssumption DEF Byte
    <3>3. Wrap(n + 1) = n + 1
      BY <3>2, BytesAssumption DEF Wrap, Byte
    <3>4. pattern_loop_count' = [pattern_loop_count EXCEPT ![chan] = n + 1]
      BY <1>6, <3>1, <3>3 DEF ArmLoop
    <3> QED
      BY <1>8, <2>2, <3>1, <3>4, InRowFacts DEF ArmLoop
  <2> QED
    BY <2>1, <2>2
<1>10. ASSUME NEW c \in Channel
       PROVE  pattern_loop_count'[c] =
                IF ~Inside(song, e, c) THEN 0
                ELSE IF c < chan + 1 THEN Repeated(song, e, n) ELSE n
  BY <1>2, <1>5, <1>6, <1>9
<1>11. ASSUME NEW f \in Kept(song), e \in Body(song, f), Start(song, f) # f
       PROVE  pattern_loop_origin'[Home(song, f)] = Start(song, f)
  <2>1. f = e /\ pattern_loop_origin' = pattern_loop_origin /\ e # Start(song, f)
    BY <1>1, <1>11
  <2> QED
    BY <1>11, <2>1, InRowFacts DEF AtRow
<1>12. /\ position_jump' <=> Repeated(song, e, n) > 0
       /\ position_jump' => jump_row' = Start(song, e)
  <2>1. n + 1 > 0
    BY <1>4
  <2> QED
    BY <1>8, <1>9, <2>1
<1>13. Home(song, e) < chan + 1
  BY <1>1, <1>2
<1>14. AtRow'
  BY <1>10, <1>11, <1>12, <1>13, InRowFacts DEF AtRow
<1>15. jump_row' \in Starts(song)
  BY <1>1, <1>9, InRowFacts
<1> QED
  BY <1>9, <1>14, <1>15, InRowFacts DEF LoopsInv, InRow

LEMMA HandleSlotLoopsInv ==
  ASSUME IInv, LoopsInv, HandleSlot, heard' = heard
  PROVE  LoopsInv'
<1> USE DEF SlotDone, jumpVars, loopVars, position
<1>0. InRow
  BY DEF IInv, InRow, HandleSlot, NoEffect, JumpToOrder, PatternBreak, SetTempo, RowLoop,
         PatternLoopEnd, PatternLoopStart, DelayPattern, Handle
<1>1. /\ song \in Songs /\ current_row \in SlotRow(song) /\ chan \in Channel
      /\ pattern_loop_origin \in [Channel -> Byte] /\ pattern_loop_count \in [Channel -> Byte]
  BY <1>0, InRowFacts DEF InRow, IInv, TypeOK
<1> DEFINE slot == song.slots[current_row][chan]
<1>2. /\ \A type : Handle(type) => slot.type = type
      /\ Param = slot.param
  BY <1>0, InRowFacts DEF Handle, Param
<1> HIDE DEF slot
<1>3. ASSUME NEW e, Holds(song, e, current_row, chan)
      PROVE  /\ e \in Kept(song) /\ current_row \in {Start(song, e), e} /\ chan = Home(song, e)
             /\ slot = IF Start(song, e) = e THEN [type |-> "ROW_LOOP", param |-> Marks(song)[e]]
                       ELSE [type |-> "PATTERN_LOOP",
                             param |-> IF current_row = e THEN Marks(song)[e] ELSE 0]
  <2>1. e \in Kept(song) /\ current_row \in {Start(song, e), e} /\ chan = Home(song, e)
    BY <1>3 DEF Holds
  <2> QED
    BY <1>1, <2>1, LoopEffects DEF slot
<1>4. (\A e : ~Holds(song, e, current_row, chan)) =>
        slot.type \in {"NONE", "SET_TEMPO", "DELAY_PATTERN"}
  BY <1>1, EffectsAre DEF slot
<1>5. ASSUME slot.type \notin {"ROW_LOOP", "PATTERN_LOOP"},
             SlotHandled, UNCHANGED <<position_jump, jump_dest, jump_row, loopVars>>
      PROVE  LoopsInv'
  <2>1. \A e : ~Holds(song, e, current_row, chan)
    BY <1>3, <1>5
  <2> QED
    BY <1>0, <1>5, <2>1, PlainSlotLoopsInv
<1>6. CASE NoEffect
  BY <1>2, <1>5, <1>6 DEF NoEffect, SlotHandled
<1>7. CASE SetTempo
  BY <1>2, <1>5, <1>7 DEF SetTempo, SlotHandled
<1>8. CASE DelayPattern
  BY <1>2, <1>5, <1>8 DEF DelayPattern, SlotHandled
<1>9. CASE JumpToOrder \/ PatternBreak
  BY <1>2, <1>3, <1>4, <1>9 DEF JumpToOrder, PatternBreak
<1>10. CASE RowLoop
  <2>1. slot.type = "ROW_LOOP"
    BY <1>2, <1>10 DEF RowLoop
  <2>2. PICK e : Holds(song, e, current_row, chan)
    BY <1>4, <2>1
  <2>3. e \in Kept(song) /\ Start(song, e) = e /\ current_row = e /\ chan = Home(song, e)
    BY <1>3, <2>1, <2>2
  <2>4. Param = Marks(song)[e]
    BY <1>2, <1>3, <2>2, <2>3
  <2>5. SlotHandled /\ LoopBack(current_row)
    BY <1>10 DEF RowLoop, SlotHandled
  <2> QED
    BY <1>0, <1>1, <2>3, <2>4, <2>5, LoopEndLoopsInv
<1>11. CASE PatternLoopEnd
  <2>1. slot.type = "PATTERN_LOOP" /\ slot.param > 0
    BY <1>2, <1>11 DEF PatternLoopEnd
  <2>2. PICK e : Holds(song, e, current_row, chan)
    BY <1>4, <2>1
  <2>3. Start(song, e) # e
    BY <1>3, <2>1, <2>2
  <2>4. e \in Kept(song) /\ current_row = e /\ chan = Home(song, e)
    BY <1>3, <2>1, <2>2, <2>3
  <2>5. Param = Marks(song)[e]
    BY <1>2, <1>3, <2>2, <2>3, <2>4
  <2>6. /\ SlotHandled /\ LoopBack(pattern_loop_origin[chan])
        /\ pattern_loop_origin' = pattern_loop_origin
    BY <1>11 DEF PatternLoopEnd, SlotHandled
  <2>7. pattern_loop_origin[chan] = Start(song, current_row)
    BY <1>0, <1>1, <2>3, <2>4, KeptBodies, InRowFacts DEF AtRow
  <2> QED
    BY <1>0, <1>1, <2>4, <2>5, <2>6, <2>7, LoopEndLoopsInv
<1>12. CASE PatternLoopStart
  <2>1. slot.type = "PATTERN_LOOP" /\ slot.param = 0
    BY <1>2, <1>12 DEF PatternLoopStart
  <2>2. PICK e : Holds(song, e, current_row, chan)
    BY <1>4, <2>1
  <2>3. e \in Kept(song) /\ Start(song, e) # e /\ chan = Home(song, e)
    BY <1>3, <2>1, <2>2
  <2>4. Marks(song)[e] # 0
    BY <1>1, <2>3, KeptBodies
  <2>5. current_row = Start(song, e)
    BY <1>3, <2>1, <2>2, <2>3, <2>4
  <2>6. /\ SlotHandled /\ UNCHANGED <<position_jump, jump_dest, pattern_loop_count>>
        /\ jump_row' = current_row
        /\ pattern_loop_origin' = [pattern_loop_origin EXCEPT ![chan] = current_row]
    BY <1>12 DEF PatternLoopStart, SlotHandled
  <2> QED
    BY <1>0, <1>1, <2>3, <2>5, <2>6, LoopStartLoopsInv
<1> QED
  BY <1>6, <1>7, <1>8, <1>9, <1>10, <1>11, <1>12 DEF HandleSlot

(* At the end of the row, what the loop has asked for is what the channels  *)
(* count, at most.                                                          *)
LEMMA MostRepeats ==
  ASSUME song \in Songs, LoopsInv, pc = "row", chan = NumChannels + 1
  PROVE  LET n == Repeated(song, current_row, heard.repeats)
         IN  /\ CountFits(song, current_row, n)
             /\ Max({pattern_loop_count[c] : c \in Channel}) = n
             /\ \A c \in Channel :
                  pattern_loop_count[c] = IF Inside(song, current_row, c) THEN n ELSE 0
<1> DEFINE n == Repeated(song, current_row, heard.repeats)
           S == {pattern_loop_count[c] : c \in Channel}
<1>1. AtRow /\ CountFits(song, current_row, heard.repeats)
  BY DEF LoopsInv, AtRow
<1>2. n \in Nat
  BY <1>1 DEF Repeated, CountFits
<1>3. \A c \in Channel : pattern_loop_count[c] = IF Inside(song, current_row, c) THEN n ELSE 0
  <2>1. \A c \in Channel : c < chan
    BY NumChannelsAssumption DEF Channel
  <2> QED
    BY <1>1, <2>1 DEF AtRow
<1>4. CASE \E e \in Kept(song) : current_row \in Body(song, e)
  <2>1. PICK e \in Kept(song) : current_row \in Body(song, e)
    BY <1>4
  <2>2. n <= Marks(song)[e]
    <3>1. heard.repeats \in Nat /\ heard.repeats <= Marks(song)[e] /\ Marks(song)[e] \in Nat
      <4>1. heard.repeats > 0 => heard.repeats <= Marks(song)[e]
        BY <1>1, <2>1, KeptBodies DEF CountFits
      <4> QED
        BY <1>1, <4>1, KeptBodies DEF CountFits, Byte
    <3>2. current_row \in Kept(song) => current_row = e
      BY <2>1, KeptBodies
    <3> QED
      BY <3>1, <3>2 DEF Repeated
  <2>3. CountFits(song, current_row, n)
    BY <1>2, <2>1, <2>2 DEF CountFits
  <2>4. S \in SUBSET (0 .. n) /\ n \in S
    <3>1. Home(song, e) \in Channel /\ Inside(song, current_row, Home(song, e))
      BY <2>1, KeptBodies DEF Inside
    <3> HIDE DEF n
    <3> QED
      BY <1>2, <1>3, <3>1
  <2>5. Max(S) = n
    <3>1. Max(S) \in S /\ \A y \in S : Max(S) >= y
      <4> HIDE DEF S, n
      <4> QED
        BY <1>2, <2>4, MaxIs
    <3>2. Max(S) \in 0 .. n /\ Max(S) >= n
      <4> HIDE DEF S, n
      <4> QED
        BY <2>4, <3>1
    <3> HIDE DEF S, n
    <3> QED
      BY <1>2, <3>2
  <2> QED
    BY <1>3, <2>3, <2>5
<1>5. CASE \A e \in Kept(song) : current_row \notin Body(song, e)
  <2>1. heard.repeats = 0 /\ current_row \notin Kept(song)
    BY <1>1, <1>5, KeptBodies DEF CountFits
  <2>2. n = 0
    BY <2>1 DEF Repeated
  <2>3. S = {0}
    BY <1>3, <2>2, ChannelsAre
  <2>4. Max(S) = 0
    <3>1. S \in SUBSET (0 .. 0) /\ S # {} /\ 0 \in Nat
      BY <2>3
    <3>2. Max(S) \in S
      <4> HIDE DEF S
      <4> QED
        BY <3>1, MaxIs
    <3> QED
      BY <2>3, <3>2
  <2>5. CountFits(song, current_row, n)
    BY <2>2 DEF CountFits
  <2> QED
    BY <1>3, <2>2, <2>4, <2>5
<1> QED
  BY <1>4, <1>5

LEMMA EndRowLoopsInv ==
  ASSUME IInv, LoopsInv, EndRow,
         heard' = [row |-> current_row,
                   repeats |-> Max({pattern_loop_count[c] : c \in Channel})]
  PROVE  LoopsInv'
<1> DEFINE n == Repeated(song, current_row, heard.repeats)
           r == current_row
           last == r + 1 \notin SlotRow(song)
<1> USE DEF EndRow
<1>1. /\ song \in Songs /\ song' = song /\ AtRow /\ r \in SlotRow(song) /\ r \in Nat
      /\ current_table_index = 0 /\ jump_dest = 0 /\ ~pattern_break
      /\ jump_row \in Starts(song)
  <2>1. song \in Songs /\ AtRow
    BY DEF LoopsInv, IInv
  <2> QED
    BY <2>1, S3MFacts DEF LoopsInv, AtRow
<1>2. /\ CountFits(song, r, n)
      /\ Max({pattern_loop_count[c] : c \in Channel}) = n
      /\ \A c \in Channel : pattern_loop_count[c] = IF Inside(song, r, c) THEN n ELSE 0
  BY <1>1, MostRepeats
<1>3. heard'.row = r /\ heard'.repeats = n
  BY <1>2
<1>4. /\ pattern_loop_count' = pattern_loop_count /\ pattern_loop_origin' = pattern_loop_origin
      /\ position_jump' = position_jump /\ jump_dest' = 0 /\ ~pattern_break'
  BY <1>1 DEF loopVars
<1>5. /\ position_jump <=> r \in Kept(song) /\ n > 0
      /\ position_jump => jump_row = Start(song, r)
  <2>1. r \in Kept(song) => Home(song, r) < chan
    BY <1>1, KeptBodies, NumChannelsAssumption DEF Channel
  <2> QED
    BY <1>1, <2>1 DEF AtRow
<1>6. PatternOver <=> ~position_jump /\ last
  <2>1. song.num_rows[PatternAt(current_table_index)] = song.total_rows
    BY <1>1, PatternIs
  <2>2. song.total_rows \in 1 .. Bytes /\ SlotRow(song) = 0 .. song.total_rows - 1
    BY <1>1, PatternIs, S3MFacts
  <2>3. RowAfter = IF r + 1 = Bytes THEN 0 ELSE r + 1
    BY <1>1, <2>2, BytesAssumption DEF RowAfter, Wrap
  <2>4. (RowAfter >= song.total_rows \/ RowAfter = 0) <=> last
    BY <1>1, <2>2, <2>3, BytesAssumption
  <2> QED
    BY <1>1, <2>1, <2>4 DEF PatternOver, Pending
<1>7. current_table_index' = 0 /\ jump_row' \in Starts(song)
  BY <1>1, PatternIs, S3MFacts DEF Starts
<1>8. MayHear(song, heard', IF position_jump THEN jump_row' ELSE current_row')
  <2>1. CASE position_jump
    <3>1. jump_row' = Start(song, r)
      BY <1>5, <1>6, <2>1
    <3> QED
      BY <1>3, <1>5, <2>1, <3>1 DEF MayHear
  <2>2. CASE ~position_jump /\ last
    <3>1. current_row' = jump_row
      BY <1>6, <2>2
    <3> QED
      BY <1>1, <1>3, <1>5, <2>2, <3>1 DEF MayHear
  <2>3. CASE ~position_jump /\ ~last
    <3>1. current_row' = RowAfter
      BY <1>6, <2>3
    <3>2. RowAfter = r + 1
      <4>1. r + 1 \in 0 .. song.total_rows - 1 /\ song.total_rows \in 1 .. Bytes
        BY <1>1, <2>3, PatternIs, S3MFacts
      <4> QED
        BY <1>1, <4>1, BytesAssumption DEF RowAfter, Wrap
    <3> QED
      BY <1>3, <1>5, <2>3, <3>1, <3>2 DEF MayHear
  <2> QED
    BY <2>1, <2>2, <2>3
<1>9. ASSUME NEW e \in Kept(song), r \in Body(song, e), Start(song, e) # e
      PROVE  pattern_loop_origin[Home(song, e)] = Start(song, e)
  <2>1. Home(song, e) < chan
    BY <1>1, KeptBodies, NumChannelsAssumption DEF Channel
  <2> QED
    BY <1>1, <1>9, <2>1 DEF AtRow
<1>10. BetweenRows'
  <2> HIDE DEF n, r, last, EndRow
  <2> QED
    BY <1>1, <1>2, <1>3, <1>4, <1>5, <1>8, <1>9 DEF BetweenRows, r
<1> QED
  <2>1. pc' = "effects"
    OBVIOUS
  <2> HIDE DEF n, EndRow
  <2> QED
    BY <1>1, <1>2, <1>3, <1>4, <1>7, <1>10, <2>1 DEF LoopsInv

LEMMA NextLoopsInv == IInv /\ LoopsInv /\ [LoopsNext]_loopsVars => LoopsInv'
<1> SUFFICES ASSUME IInv, LoopsInv, [LoopsNext]_loopsVars PROVE LoopsInv'
  OBVIOUS
<1>0. song \in Songs
  BY DEF IInv
<1>1. ASSUME pc # "row" \/ chan # NumChannels + 1, LoopsNext
      PROVE  heard' = heard
  BY <1>1 DEF LoopsNext
<1>2. CASE LoopsNext /\ StartRow
  BY <1>0, <1>1, <1>2, StartRowLoopsInv DEF StartRow
<1>3. CASE LoopsNext /\ ContinueRow
  BY <1>1, <1>3, OtherStepsLoopsInv DEF ContinueRow, position
<1>4. CASE LoopsNext /\ HandleSlot
  <2>1. chan \in Channel
    BY <1>4 DEF HandleSlot, NoEffect, JumpToOrder, PatternBreak, SetTempo, RowLoop,
                PatternLoopEnd, PatternLoopStart, DelayPattern, Handle
  <2>2. chan # NumChannels + 1
    BY <2>1, NumChannelsAssumption DEF Channel
  <2> QED
    BY <1>1, <1>4, <2>2, HandleSlotLoopsInv
<1>5. CASE LoopsNext /\ EndRow
  BY <1>5, EndRowLoopsInv DEF LoopsNext, EndRow
<1>6. CASE LoopsNext /\ EndTick
  BY <1>1, <1>6, OtherStepsLoopsInv DEF EndTick, position
<1>7. CASE UNCHANGED loopsVars
  BY <1>7, OtherStepsLoopsInv DEF loopsVars, vars, position, rowVars
<1> QED
  BY <1>2, <1>3, <1>4, <1>5, <1>6, <1>7 DEF LoopsNext, Tick

-----------------------------------------------------------------------------
(* The end of a row is a step of ScreamTracker, every other step a stutter. *)

LEMMA AbstractIs ==
  ASSUME song \in Songs
  PROVE  /\ ScreamTracker!Rows = SlotRow(song)
         /\ ScreamTracker!GoesBack <=> heard.row \in Kept(song) /\ heard.repeats > 0
         /\ \A r \in SlotRow(song) : ScreamTracker!StartsLoop(r) <=> r \in Starts(song)
<1>1. ScreamTracker!Rows = SlotRow(song)
  BY MarksAre DEF ScreamTracker!Rows, Marks
<1>2. ScreamTracker!GoesBack <=> heard.row \in Kept(song) /\ heard.repeats > 0
  BY DEF ScreamTracker!GoesBack, Kept
<1>3. ASSUME NEW r \in SlotRow(song)
      PROVE  ScreamTracker!StartsLoop(r) <=> r \in Starts(song)
  <2>1. r # 0 => r - 1 \in SlotRow(song)
    BY S3MFacts
  <2>2. r # 0 => (r - 1 \in Ends(Marks(song)) <=> Marks(song)[r - 1] > 0)
    BY <2>1, EndsAre
  <2> QED
    BY <2>2 DEF ScreamTracker!StartsLoop, ScreamTracker!IsLoopEnd, Starts, Marks
<1> QED
  BY <1>1, <1>2, <1>3

LEMMA RowIsHeard ==
  ASSUME song \in Songs, LoopsInv, pc = "row", chan = NumChannels + 1, song' = song,
         heard' = [row |-> current_row,
                   repeats |-> Max({pattern_loop_count[c] : c \in Channel})]
  PROVE  ScreamTracker!Next
<1> DEFINE n == heard.repeats
           r == current_row
           origin == IF heard.row < 0 THEN 0 ELSE LoopStart(MarksOf(song.s3m), heard.row)
<1>1. /\ r \in SlotRow(song) /\ r \in Nat /\ MayHear(song, heard, r)
      /\ heard.row \in SlotRow(song) \union {-1}
  BY S3MFacts DEF LoopsInv, AtRow
<1>2. heard' = [row |-> r, repeats |-> Repeated(song, r, n)]
  BY MostRepeats
<1>3. heard.row \in SlotRow(song) => heard.row \in Nat /\ origin = Start(song, heard.row)
  BY S3MFacts DEF Start, Marks
<1>4. ASSUME NEW o, o = Start(song, r)
      PROVE  ScreamTracker!Hear(r, o)
  <2>1. heard'.row = r /\ heard'.repeats = Repeated(song, r, n) /\ ~(r < 0)
    BY <1>1, <1>2
  <2>2. (IF heard'.row < 0 THEN 0 ELSE LoopStart(MarksOf(song'.s3m), heard'.row)) = o
    BY <1>4, <2>1 DEF Start, Marks
  <2>3. heard'.repeats = IF r \notin Placed(song.s3m) THEN n
                         ELSE IF n = MarksOf(song.s3m)[r] THEN 0 ELSE n + 1
    BY <2>1 DEF Repeated, Kept, Marks
  <2> HIDE DEF n, r
  <2> QED
    BY <2>1, <2>2, <2>3 DEF ScreamTracker!Hear, n
<1>5. CASE ScreamTracker!GoesBack
  <2>1. heard.row \in Kept(song) /\ r = Start(song, heard.row)
    BY <1>1, <1>5, AbstractIs DEF MayHear
  <2>2. r = origin /\ Start(song, r) = r
    BY <1>3, <2>1, KeptBodies, StartsAre
  <2>3. ScreamTracker!Hear(origin, origin)
    BY <1>4, <2>2
  <2> HIDE DEF r, n
  <2>4. ScreamTracker!LoopBack
    BY <1>5, <2>3 DEF ScreamTracker!LoopBack
  <2> QED
    BY <2>4 DEF ScreamTracker!Next
<1>6. CASE ~ScreamTracker!GoesBack /\ heard.row + 1 \in SlotRow(song)
  <2>1. r = heard.row + 1
    BY <1>1, <1>6, AbstractIs DEF MayHear
  <2>2. Start(song, r) = IF ScreamTracker!StartsLoop(r) THEN r ELSE origin
    <3>1. CASE heard.row \in SlotRow(song)
      BY <1>1, <1>3, <2>1, <3>1, StartGoesOn, AbstractIs
    <3>2. CASE heard.row = -1
      <4>1. r = 0
        BY <2>1, <3>2
      <4>2. r \in Starts(song)
        BY <1>1, <4>1 DEF Starts
      <4> QED
        BY <1>1, <4>2, StartsAre, AbstractIs
    <3> QED
      BY <1>1, <3>1, <3>2
  <2>3. ScreamTracker!Hear(r, IF ScreamTracker!StartsLoop(r) THEN r ELSE origin)
    BY <1>4, <2>2
  <2> HIDE DEF r, n
  <2>4. ScreamTracker!GoOn
    BY <1>6, <2>1, <2>3, AbstractIs DEF ScreamTracker!GoOn
  <2> QED
    BY <2>4 DEF ScreamTracker!Next
<1>7. CASE ~ScreamTracker!GoesBack /\ heard.row + 1 \notin SlotRow(song)
  <2>1. r \in Starts(song)
    BY <1>1, <1>7, AbstractIs DEF MayHear
  <2>2. Start(song, r) = r /\ ScreamTracker!StartsLoop(r)
    BY <1>1, <2>1, StartsAre, AbstractIs
  <2>3. ScreamTracker!Hear(r, r)
    BY <1>4, <2>2
  <2> HIDE DEF r, n
  <2>4. ScreamTracker!NextPattern
    BY <1>1, <1>7, <2>2, <2>3, AbstractIs DEF ScreamTracker!NextPattern, r
  <2> QED
    BY <2>4 DEF ScreamTracker!Next
<1> QED
  BY <1>5, <1>6, <1>7

(* In a song of one pattern in which nothing but loops decides what is      *)
(* played next, the rows are played in the order one loop for the song asks *)
(* for, as often, except for loops no channel has room for.                 *)
THEOREM SoundsAsScreamTracker == LoopsSpec => PlaysAsScreamTracker
<1>1. LoopsInit => ScreamTracker!Init
  BY DEF LoopsInit, ScreamTracker!Init
<1>2. IInv /\ LoopsInv /\ [LoopsNext]_loopsVars => [ScreamTracker!Next]_ScreamTracker!vars
  <2> SUFFICES ASSUME IInv, LoopsInv, [LoopsNext]_loopsVars
               PROVE  ScreamTracker!Next \/ UNCHANGED ScreamTracker!vars
    OBVIOUS
  <2>1. song \in Songs
    BY DEF IInv
  <2>2. song' = song
    BY DEF LoopsNext, Tick, StartRow, ContinueRow, HandleSlot, NoEffect, JumpToOrder,
           PatternBreak, SetTempo, RowLoop, PatternLoopEnd, PatternLoopStart, DelayPattern,
           SlotDone, EndRow, EndTick, loopsVars, vars
  <2>3. CASE heard' = heard
    BY <2>2, <2>3 DEF ScreamTracker!vars
  <2>4. CASE heard' # heard
    <3>1. /\ pc = "row" /\ chan = NumChannels + 1
          /\ heard' = [row |-> current_row,
                       repeats |-> Max({pattern_loop_count[c] : c \in Channel})]
      BY <2>4 DEF LoopsNext, loopsVars
    <3> QED
      BY <2>1, <2>2, <3>1, RowIsHeard
  <2> QED
    BY <2>3, <2>4
<1>3. LoopsSpec => []IInv
  BY LoopsSteps, InitIInv, NextIInv, PTL DEF Spec
<1> QED
  BY <1>1, <1>2, <1>3, InitLoopsInv, NextLoopsInv, PTL
  DEF LoopsSpec, PlaysAsScreamTracker, ScreamTracker!Spec
=============================================================================
