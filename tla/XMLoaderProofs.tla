---------------------------- MODULE XMLoaderProofs ----------------------------
(***************************************************************************)
(* Whatever .XM files are loaded: the assertions on the way hold, what is  *)
(* loaded is a song to the sequencer, and of a file that keeps to what     *)
(* trackers write, the second walk finds and counts what the first one     *)
(* did.                                                                    *)
(*                                                                         *)
(* Inv carries over what the first walk has seen to of the patterns: the   *)
(* rows it counted before each, none of which has more than it may, and    *)
(* that there is room for a blank pattern if the second walk, which reads  *)
(* the order table in its own way, is going to need one.  MarksInv and     *)
(* PlacesInv say how the marks the first walk leaves at every pattern,     *)
(* instrument and sample follow from one another; WalkInv that the second  *)
(* walk is at these marks, and has counted what they say; CountsInv the    *)
(* same of the counts that are not about samples; ChainInv and NotesInv    *)
(* what it has made of the samples and the notes.                          *)
(***************************************************************************)
EXTENDS XMLoader, TLAPS

NumPatterns == file.num_patterns
Rows(p) == patternAt[p].num_rows

(* The first n patterns were counted. *)
Counted(n) ==
  /\ \A p \in 0 .. n - 1 :
       /\ NumRows(file.patterns[p]) <= MAX_ROWS_PER_PATTERN
       /\ Rows(p + 1) = Rows(p) + NumRows(file.patterns[p])
  /\ \A p \in 0 .. n : Rows(p) \in Nat /\ Rows(p) <= p * MAX_ROWS_PER_PATTERN

(* The table of the second walk names a pattern that does not exist. *)
NeedsBlank == \E e \in 0 .. ClampedLength - 1 : IsInvalid(TableEntry(e))
HasRoom ==
  /\ out.num_patterns \in {NumPatterns, NumPatterns + 1}
  /\ NeedsBlank => NumPatterns < MAX_PATTERNS /\ out.num_patterns = NumPatterns + 1

IsTrace ==
  patternAt = [p \in 0 .. NumPatterns |->
                 [offset |-> patternAt[p].offset, num_rows |-> patternAt[p].num_rows]]
IsPatternArray == patterns = [p \in 0 .. out.num_patterns - 1 |-> patterns[p]]
IsCount(c) ==
  c = [length |-> c.length, num_channels |-> c.num_channels, num_patterns |-> c.num_patterns,
       num_instruments |-> c.num_instruments, num_rows |-> c.num_rows,
       num_samples |-> c.num_samples, samples_data_length |-> c.samples_data_length]

Stored(p) ==
  patterns[p] = [rows_index |-> Rows(p) % Shorts, num_rows |-> NumRows(file.patterns[p])]

(* The header is loaded as it is in the file. *)
HeaderIsLoaded ==
  /\ mod.length = ClampedLength /\ mod.num_patterns = NumPatterns
  /\ header.restart_position \in Nat
  /\ mod.length > 0 => header.restart_position < mod.length
  /\ header = [restart_position |-> header.restart_position,
               default_tempo |-> header.default_tempo, default_bpm |-> header.default_bpm,
               pattern_table |-> [e \in Order |-> TableEntry(e)]]

Whole ==
  /\ \A p \in 0 .. mod.num_patterns - 1 :
       /\ patterns[p].num_rows <= MAX_ROWS_PER_PATTERN
       /\ patterns[p].rows_index + patterns[p].num_rows =
            IF p + 1 = mod.num_patterns THEN mod.num_rows ELSE patterns[p + 1].rows_index
  /\ \A e \in 0 .. mod.length - 1 : header.pattern_table[e] < mod.num_patterns
  /\ mod.length > 0 => header.restart_position < mod.length

Filled == {"load_instruments", "load_samples", "load_data", "loaded"}
Created == Filled \union {"load", "load_patterns"}
Prescanned == Created \union {"prescan_instruments", "prescan_samples"}

Inv ==
  /\ pc \in Pcs /\ file \in Files
  /\ IsTrace /\ IsCount(out) /\ IsCount(mod)
  /\ pc = "prescan" => Rows(0) = 0
  /\ pc \notin {"prescan", "refused"} => NumPatterns <= MAX_PATTERNS
  /\ pc = "prescan_patterns" =>
       /\ i \in 0 .. NumPatterns /\ Counted(i)
       /\ out.num_patterns = NumPatterns /\ out.num_rows = Rows(i)
  /\ pc \in Prescanned => Counted(NumPatterns) /\ HasRoom
  /\ pc \in Created => IsPatternArray
  /\ pc = "load_patterns" =>
       /\ i \in 0 .. NumPatterns /\ mod.num_rows = Rows(i) /\ HeaderIsLoaded
       /\ \A p \in 0 .. i - 1 : Stored(p)
  /\ pc \in Filled => Whole

-----------------------------------------------------------------------------
LEMMA FileFacts ==
  ASSUME NEW f \in Files
  PROVE  /\ f.num_patterns \in Nat /\ f.length \in Nat /\ f.restart_position \in Nat
         /\ f.header_size \in Nat
         /\ f.table_bytes \in 0 .. PATTERN_ORDER_TABLE_LENGTH
         /\ f.pattern_table \in [Order -> Byte]
         /\ \A p \in 0 .. f.num_patterns - 1 :
              /\ f.patterns[p].num_rows \in Nat /\ f.patterns[p].header_size \in Nat
              /\ f.patterns[p].packed_size \in Nat /\ NumRows(f.patterns[p]) \in Nat
<1>1. IsFile(f)
  BY FilesAssumption
<1>2. /\ f.num_patterns \in Nat /\ f.length \in Nat /\ f.restart_position \in Nat
      /\ f.header_size \in Nat
  BY <1>1, WidthsAssumption DEF IsFile, Short, Word
<1>3. ASSUME NEW p \in 0 .. f.num_patterns - 1
      PROVE  /\ f.patterns[p].num_rows \in Nat /\ f.patterns[p].header_size \in Nat
             /\ f.patterns[p].packed_size \in Nat /\ NumRows(f.patterns[p]) \in Nat
  <2>1. IsFilePattern(f.patterns[p])
    BY <1>1 DEF IsFile
  <2> QED
    BY <2>1, WidthsAssumption, LimitsAssumption DEF IsFilePattern, Short, Word, NumRows
<1> QED
  BY <1>1, <1>2, <1>3 DEF IsFile

(* Patterns that leave room for one more have rows that are numbered by a   *)
(* uint16_t, with one number to spare.                                      *)
LEMMA RowsFit ==
  ASSUME NEW p \in Nat, p < MAX_PATTERNS, NEW rows \in Nat, rows <= p * MAX_ROWS_PER_PATTERN
  PROVE  rows < Shorts - 1 /\ rows % Shorts = rows
<1> DEFINE R == MAX_ROWS_PER_PATTERN
           M == MAX_PATTERNS
<1>1. R \in Nat /\ M \in Nat /\ (M - 1) * R < Shorts - 1 /\ Shorts \in Nat \ {0}
  BY LimitsAssumption, WidthsAssumption
<1>2. \A a, b, c \in Nat : a <= b => a * c <= b * c
  OBVIOUS
<1>3. p * R <= (M - 1) * R
  BY <1>1, <1>2
<1>4. p * R \in Nat /\ (M - 1) * R \in Nat
  BY <1>1
<1>5. rows < Shorts - 1
  <2> HIDE DEF R, M
  <2> DEFINE a == p * R
             b == (M - 1) * R
  <2>1. rows <= a /\ a <= b /\ b < Shorts - 1 /\ a \in Nat /\ b \in Nat
    BY <1>1, <1>3, <1>4 DEF R
  <2> HIDE DEF a, b
  <2> QED
    BY <1>1, <2>1
<1> QED
  BY <1>1, <1>5

-----------------------------------------------------------------------------
LEMMA InitInv == Init => Inv
<1> SUFFICES ASSUME Init PROVE Inv
  OBVIOUS
<1>1. file.num_patterns \in Nat
  BY FileFacts DEF Init
<1>2. IsTrace
  BY <1>1 DEF Init, IsTrace, NumPatterns
<1>3. Rows(0) = 0
  BY <1>1 DEF Init, Rows
<1> QED
  BY <1>2, <1>3
  DEF Init, Inv, Pcs, Prescanned, Created, Filled, IsCount, NoCounts

(* What a step keeps that touches neither the patterns nor their counts. *)
LEMMA FileInv ==
  ASSUME Inv
  PROVE  /\ NumPatterns \in Nat /\ file.length \in Nat /\ file.restart_position \in Nat
         /\ ClampedLength \in 0 .. PATTERN_ORDER_TABLE_LENGTH
         /\ \A e \in Order : TableEntry(e) \in Byte
<1>1. /\ file.num_patterns \in Nat /\ file.length \in Nat /\ file.restart_position \in Nat
      /\ file.table_bytes \in Nat
      /\ file.pattern_table \in [Order -> Byte]
  BY FileFacts, LimitsAssumption DEF Inv
<1>2. ClampedLength \in 0 .. PATTERN_ORDER_TABLE_LENGTH
  BY <1>1, LimitsAssumption DEF ClampedLength
<1>3. \A e \in Order : TableEntry(e) \in Byte
  BY <1>1, WidthsAssumption DEF TableEntry, Byte
<1> QED
  BY <1>1, <1>2, <1>3 DEF NumPatterns

LEMMA RefuseInv == Inv /\ Refuse => Inv'
BY DEF Inv, Refuse, loaded, history, IsTrace, NumPatterns, Rows, Pcs, Prescanned, Created,
       Filled, IsCount

LEMMA Traced ==
  ASSUME IsTrace, NumPatterns \in Nat, UNCHANGED file, NEW k \in 0 .. NumPatterns,
         NEW x, NEW y,
         patternAt' = [patternAt EXCEPT ![k] = [offset |-> x, num_rows |-> y]]
  PROVE  /\ IsTrace' /\ NumPatterns' = NumPatterns /\ Rows(k)' = y
         /\ \A p \in 0 .. NumPatterns : p # k => Rows(p)' = Rows(p)
<1>1. NumPatterns' = NumPatterns
  BY DEF NumPatterns
<1>2. DOMAIN patternAt = 0 .. NumPatterns
  BY DEF IsTrace
<1>3. /\ DOMAIN patternAt' = 0 .. NumPatterns
      /\ patternAt'[k] = [offset |-> x, num_rows |-> y]
      /\ \A p \in 0 .. NumPatterns : p # k => patternAt'[p] = patternAt[p]
  BY <1>2
<1>4. \A p \in 0 .. NumPatterns :
        patternAt'[p] = [offset |-> patternAt'[p].offset, num_rows |-> patternAt'[p].num_rows]
  <2>1. \A p \in 0 .. NumPatterns :
          patternAt[p] = [offset |-> patternAt[p].offset, num_rows |-> patternAt[p].num_rows]
    BY DEF IsTrace
  <2> QED
    BY <1>3, <2>1
<1>5. patternAt' = [p \in 0 .. NumPatterns |->
                     [offset |-> patternAt'[p].offset, num_rows |-> patternAt'[p].num_rows]]
  <2>1. patternAt' = [p \in 0 .. NumPatterns |-> patternAt'[p]]
    BY <1>3
  <2> QED
    BY <1>4, <2>1
<1> QED
  BY <1>1, <1>3, <1>5 DEF IsTrace, Rows

LEMMA PrescanHeaderInv == Inv /\ PrescanHeader => Inv'
<1> SUFFICES ASSUME Inv, PrescanHeader PROVE Inv'
  OBVIOUS
<1>1. CASE Unreadable
  BY <1>1, RefuseInv DEF PrescanHeader
<1>2. CASE ~Unreadable
  <2>1. /\ pc' = "prescan_patterns" /\ i' = 0
        /\ out' = [NoCounts EXCEPT !.length = file.length,
                                   !.num_channels = file.num_channels,
                                   !.num_patterns = file.num_patterns,
                                   !.num_instruments = file.num_instruments]
        /\ offset' = U32(offset + file.header_size)
        /\ patternAt' = [patternAt EXCEPT ![0].offset = offset']
        /\ UNCHANGED <<file, mod>>
    BY <1>2 DEF PrescanHeader, loaded
  <2>2. NumPatterns \in Nat /\ NumPatterns <= MAX_PATTERNS /\ Rows(0) = 0
    BY <1>2, FileInv, LimitsAssumption DEF Unreadable, Inv, PrescanHeader, NumPatterns
  <2>3. IsTrace' /\ Rows(0)' = 0
    <3>1. patternAt[0] = [offset |-> patternAt[0].offset, num_rows |-> Rows(0)]
      BY <2>2 DEF Inv, IsTrace, Rows
    <3>2. patternAt' = [patternAt EXCEPT ![0] = [patternAt[0] EXCEPT !.offset = offset']]
      BY <2>1
    <3>3. [patternAt[0] EXCEPT !.offset = offset'] = [offset |-> offset', num_rows |-> Rows(0)]
      BY <3>1
    <3>4. patternAt' = [patternAt EXCEPT ![0] = [offset |-> offset', num_rows |-> Rows(0)]]
      BY <3>2, <3>3
    <3>5. IsTrace /\ 0 \in 0 .. NumPatterns /\ NumPatterns \in Nat /\ UNCHANGED file
      BY <2>1, <2>2 DEF Inv
    <3>6. IsTrace' /\ Rows(0)' = Rows(0)
      BY <3>4, <3>5, Traced
    <3> QED
      BY <2>2, <3>6
  <2>4. Counted(0)'
    BY <2>3, LimitsAssumption DEF Counted
  <2>5. IsCount(out)' /\ out'.num_patterns = NumPatterns' /\ out'.num_rows = 0
    BY <2>1 DEF IsCount, NoCounts, NumPatterns
  <2>6. NumPatterns' = NumPatterns
    BY <2>1 DEF NumPatterns
  <2> QED
    BY <2>1, <2>2, <2>3, <2>4, <2>5, <2>6 DEF Inv, Pcs, Prescanned, Created, Filled
<1> QED
  BY <1>1, <1>2

LEMMA PrescanPatternInv == Inv /\ PrescanPattern => Inv'
<1> SUFFICES ASSUME Inv, PrescanPattern PROVE Inv'
  OBVIOUS
<1>1. CASE HasTooManyRows(file.patterns[i])
  BY <1>1, RefuseInv DEF PrescanPattern
<1>2. CASE ~HasTooManyRows(file.patterns[i])
  <2>1. /\ NumPatterns \in Nat /\ i \in 0 .. NumPatterns - 1
        /\ IsTrace /\ Counted(i) /\ out.num_rows = Rows(i) /\ IsCount(out)
        /\ out.num_patterns = NumPatterns
    BY FileInv DEF Inv, NumPatterns, PrescanPattern
  <2>2. PICK k \in 0 .. NumPatterns - 1 : k = i
    BY <2>1
  <2> DEFINE rows == NumRows(file.patterns[k])
  <2>3. k + 1 \in 0 .. NumPatterns
    BY <2>1, <2>2
  <2>4. /\ pc = "prescan_patterns" /\ i' = k + 1
        /\ out' = [out EXCEPT !.num_rows = @ + rows]
        /\ patternAt' = [patternAt EXCEPT ![k + 1] =
                           [offset |-> offset', num_rows |-> out'.num_rows]]
    BY <1>2, <2>2 DEF PrescanPattern
  <2>5. UNCHANGED file /\ UNCHANGED pc /\ UNCHANGED mod
    BY <1>2 DEF PrescanPattern, loaded
  <2>6. rows \in Nat /\ rows <= MAX_ROWS_PER_PATTERN /\ MAX_ROWS_PER_PATTERN \in Nat
    BY <1>2, <2>1, <2>2, FileFacts, LimitsAssumption DEF Inv, HasTooManyRows, NumPatterns
  <2>7. /\ out'.num_rows = Rows(k) + rows /\ out'.num_patterns = NumPatterns
        /\ IsCount(out)'
    BY <2>1, <2>2, <2>4 DEF IsCount
  <2>8. /\ IsTrace' /\ NumPatterns' = NumPatterns /\ Rows(k + 1)' = out'.num_rows
        /\ \A q \in 0 .. NumPatterns : q # k + 1 => Rows(q)' = Rows(q)
    <3>1. IsTrace /\ NumPatterns \in Nat
      BY <2>1
    <3> QED
      BY <2>3, <2>4, <2>5, <3>1, Traced
  <2>9. Counted(k + 1)'
    <3>1. ASSUME NEW q \in 0 .. k
          PROVE  /\ NumRows(file.patterns[q])' <= MAX_ROWS_PER_PATTERN
                 /\ Rows(q + 1)' = Rows(q)' + NumRows(file.patterns[q])'
      <4>1. CASE q = k
        BY <2>1, <2>5, <2>6, <2>7, <2>8, <4>1 DEF NumRows
      <4>2. CASE q < k
        <5>1. q \in 0 .. NumPatterns /\ q + 1 \in 0 .. NumPatterns /\ q + 1 # k + 1 /\ q # k + 1
          BY <2>1, <4>2
        <5>2. Rows(q)' = Rows(q) /\ Rows(q + 1)' = Rows(q + 1)
          BY <2>8, <5>1
        <5>3. /\ NumRows(file.patterns[q]) <= MAX_ROWS_PER_PATTERN
              /\ Rows(q + 1) = Rows(q) + NumRows(file.patterns[q])
          BY <2>1, <2>2, <4>2 DEF Counted
        <5> QED
          BY <2>5, <5>2, <5>3 DEF NumRows
      <4> QED
        BY <2>1, <4>1, <4>2
    <3>2. ASSUME NEW q \in 0 .. k + 1
          PROVE  Rows(q)' \in Nat /\ Rows(q)' <= q * MAX_ROWS_PER_PATTERN
      <4>1. CASE q = k + 1
        <5>1. Rows(k) \in Nat /\ Rows(k) <= k * MAX_ROWS_PER_PATTERN
          BY <2>1, <2>2 DEF Counted
        <5>2. (k + 1) * MAX_ROWS_PER_PATTERN = k * MAX_ROWS_PER_PATTERN + MAX_ROWS_PER_PATTERN
          BY <2>1, <2>6
        <5>3. k * MAX_ROWS_PER_PATTERN \in Nat
          BY <2>1, <2>6
        <5>4. Rows(q)' = Rows(k) + rows
          BY <2>7, <2>8, <4>1
        <5> QED
          BY <2>6, <4>1, <5>1, <5>2, <5>3, <5>4
      <4>2. CASE q \in 0 .. k
        <5>1. Rows(q) \in Nat /\ Rows(q) <= q * MAX_ROWS_PER_PATTERN
          BY <2>1, <2>2, <4>2 DEF Counted
        <5>2. q \in 0 .. NumPatterns /\ q # k + 1
          BY <2>1, <4>2
        <5> QED
          BY <2>8, <5>1, <5>2
      <4> QED
        BY <2>1, <4>1, <4>2
    <3>3. k + 1 - 1 = k
      BY <2>1
    <3> QED
      BY <3>1, <3>2, <3>3 DEF Counted
  <2>10. Counted(i)' /\ out'.num_rows = Rows(i)'
    BY <2>4, <2>8, <2>9 DEF Counted, Rows
  <2> QED
    BY <2>1, <2>3, <2>4, <2>5, <2>7, <2>8, <2>10, Zenon
    DEF Inv, Pcs, Prescanned, Created, Filled
<1> QED
  BY <1>1, <1>2

(* The second walk finds an invalid entry only where the first one did, or  *)
(* if there is no pattern at all.                                           *)
LEMMA PrescanOrdersInv == Inv /\ PrescanOrders => Inv'
<1> SUFFICES ASSUME Inv, PrescanOrders PROVE Inv'
  OBVIOUS
<1>1. PICK garbage \in Garbage :
        IF HasNoRoom(garbage) THEN Refuse
        ELSE /\ pc' = "prescan_instruments"
             /\ out' = IF InvalidOrders(garbage)
                       THEN [out EXCEPT !.length = ClampedLength,
                                        !.num_rows = @ + EMPTY_PATTERN_NUM_ROWS,
                                        !.num_patterns = @ + 1]
                       ELSE [out EXCEPT !.length = ClampedLength]
             /\ UNCHANGED <<file, mod, patternAt>>
  BY DEF PrescanOrders, loaded
<1>2. CASE HasNoRoom(garbage)
  BY <1>1, <1>2, RefuseInv
<1>3. CASE ~HasNoRoom(garbage)
  <2>1. /\ i = NumPatterns /\ Counted(NumPatterns) /\ out.num_patterns = NumPatterns
        /\ NumPatterns \in Nat /\ NumPatterns <= MAX_PATTERNS /\ IsCount(out)
        /\ MAX_PATTERNS \in Nat \ {0}
    BY FileInv, LimitsAssumption DEF Inv, PrescanOrders, NumPatterns
  <2>2. out'.num_patterns = (IF InvalidOrders(garbage) THEN NumPatterns + 1 ELSE NumPatterns)
    BY <1>1, <1>3, <2>1 DEF IsCount
  <2>3. IsCount(out)'
    BY <1>1, <1>3, <2>1 DEF IsCount
  <2>4. NeedsBlank => InvalidOrders(garbage)
    <3> SUFFICES ASSUME NEW e \in 0 .. ClampedLength - 1, IsInvalid(TableEntry(e))
                 PROVE  InvalidOrders(garbage)
      BY DEF NeedsBlank
    <3>1. CASE e < file.table_bytes
      BY <3>1 DEF InvalidOrders, TableEntry
    <3>2. CASE ~(e < file.table_bytes)
      <4>1. garbage \in Nat /\ NumPatterns = 0
        BY <2>1, <3>2, GarbageAssumption, WidthsAssumption
        DEF IsInvalid, TableEntry, NumPatterns, Byte
      <4> QED
        BY <3>2, <4>1 DEF InvalidOrders, IsInvalid, NumPatterns
    <3> QED
      BY <3>1, <3>2
  <2>5. InvalidOrders(garbage) => NumPatterns < MAX_PATTERNS
    BY <1>3, <2>1 DEF HasNoRoom, NumPatterns
  <2>6. /\ NumPatterns' = NumPatterns /\ (NeedsBlank <=> NeedsBlank')
        /\ UNCHANGED <<file, mod, patternAt>> /\ pc' = "prescan_instruments"
    BY <1>1, <1>3 DEF NumPatterns, NeedsBlank, ClampedLength, IsInvalid, TableEntry
  <2>7. HasRoom'
    BY <2>2, <2>4, <2>5, <2>6 DEF HasRoom
  <2>8. IsTrace' /\ Counted(NumPatterns)'
    BY <2>1, <2>6 DEF Inv, IsTrace, Counted, Rows, NumRows, NumPatterns
  <2> QED
    BY <2>1, <2>3, <2>6, <2>7, <2>8 DEF Inv, Pcs, Prescanned, Created, Filled, IsCount
<1> QED
  BY <1>2, <1>3

(* The steps that leave alone what the invariant is about. *)
LEMMA KeptInv ==
  ASSUME Inv, UNCHANGED file, UNCHANGED patternAt, UNCHANGED header, UNCHANGED patterns,
         IsCount(out)', out'.num_patterns = out.num_patterns,
         IsCount(mod)', mod'.length = mod.length, mod'.num_rows = mod.num_rows,
         mod'.num_patterns = mod.num_patterns,
         \/ pc \in Prescanned \ Created /\ pc' \in Prescanned \ Created
         \/ pc \in Filled /\ pc' \in Filled
         \/ pc # "prescan" /\ pc # "refused" /\ pc' \in {"lost", "failed"}
  PROVE  Inv'
<1>1. pc' \in Pcs /\ NumPatterns' = NumPatterns /\ IsTrace'
  BY DEF Inv, Pcs, Prescanned, Created, Filled, NumPatterns, IsTrace
<1>2. ASSUME Counted(NumPatterns) PROVE Counted(NumPatterns)'
  BY <1>2 DEF Counted, Rows, NumRows, NumPatterns
<1>3. ASSUME HasRoom PROVE HasRoom'
  BY <1>3 DEF HasRoom, NeedsBlank, ClampedLength, IsInvalid, TableEntry, NumPatterns
<1>4. ASSUME IsPatternArray PROVE IsPatternArray'
  BY <1>4 DEF IsPatternArray
<1>5. ASSUME Whole PROVE Whole'
  BY <1>5 DEF Whole
<1> QED
  BY <1>1, <1>2, <1>3, <1>4, <1>5 DEF Inv, Pcs, Prescanned, Created, Filled

LEMMA PrescanInstrumentInv == Inv /\ PrescanInstrument => Inv'
<1> SUFFICES ASSUME Inv, PrescanInstrument PROVE Inv'
  OBVIOUS
<1>1. CASE HasTooMany(Instrument)
  BY <1>1, RefuseInv DEF PrescanInstrument
<1>2. CASE ~HasTooMany(Instrument)
  BY <1>2, KeptInv
  DEF PrescanInstrument, loaded, Inv, IsCount, Prescanned, Created, Filled
<1> QED
  BY <1>1, <1>2

LEMMA PrescanSampleInv == Inv /\ PrescanSample => Inv'
<1> SUFFICES ASSUME Inv, PrescanSample PROVE Inv'
  OBVIOUS
<1>1. CASE PrescanLength(Sample) > MaxLength(Sample.flags)
  BY <1>1, RefuseInv DEF PrescanSample
<1>2. CASE ~(PrescanLength(Sample) > MaxLength(Sample.flags))
  BY <1>2, KeptInv
  DEF PrescanSample, loaded, Inv, IsCount, Prescanned, Created, Filled
<1> QED
  BY <1>1, <1>2

LEMMA PrescanDataInv == Inv /\ PrescanData => Inv'
BY KeptInv DEF PrescanData, loaded, Inv, IsCount, Prescanned, Created, Filled

LEMMA LoadRestInv ==
  ASSUME Inv,
         LoadEmptyInstrument \/ LoadInstrument \/ LoadSampleHeader \/ LoadSampleData
           \/ FailInstrument \/ Finish \/ Lose
  PROVE  Inv'
<1>1. CASE LoadEmptyInstrument
  BY <1>1, KeptInv DEF LoadEmptyInstrument, history, Inv, IsCount, Filled
<1>2. CASE LoadInstrument
  BY <1>2, KeptInv DEF LoadInstrument, history, Inv, IsCount, Filled
<1>3. CASE LoadSampleHeader
  BY <1>3, KeptInv DEF LoadSampleHeader, history, Inv, IsCount, Filled
<1>4. CASE LoadSampleData
  BY <1>4, KeptInv DEF LoadSampleData, history, Inv, IsCount, Filled
<1>5. CASE Finish
  BY <1>5, KeptInv DEF Finish, loaded, history, Inv, IsCount, Filled
<1>6. CASE Lose \/ FailInstrument
  BY <1>6, KeptInv DEF Lose, Strays, FailInstrument, loaded, history, Inv, IsCount
<1> QED
  BY <1>1, <1>2, <1>3, <1>4, <1>5, <1>6

LEMMA CreateContextInv == Inv /\ CreateContext => Inv'
<1> SUFFICES ASSUME Inv, CreateContext PROVE Inv'
  OBVIOUS
<1>1. CASE ContextSize(out) > MaxContextSize
  <2>1. Refuse
    BY <1>1 DEF CreateContext
  <2> QED
    BY <2>1, RefuseInv
<1>2. CASE ~(ContextSize(out) > MaxContextSize)
  <2>1. /\ pc = "prescan_instruments" /\ pc' = "load"
        /\ patterns' = [p \in 0 .. out.num_patterns - 1 |-> [rows_index |-> 0, num_rows |-> 0]]
        /\ UNCHANGED file /\ UNCHANGED out /\ UNCHANGED mod /\ UNCHANGED patternAt
    BY <1>2 DEF CreateContext, history
  <2>2. IsPatternArray'
    BY <2>1 DEF IsPatternArray
  <2>3. NumPatterns' = NumPatterns /\ IsTrace' /\ IsCount(out)' /\ IsCount(mod)'
    BY <2>1 DEF Inv, IsTrace, NumPatterns, IsCount
  <2>4. Counted(NumPatterns)'
    BY <2>1 DEF Inv, Counted, Rows, NumRows, NumPatterns, Prescanned
  <2>5. HasRoom'
    BY <2>1
    DEF Inv, HasRoom, NeedsBlank, ClampedLength, IsInvalid, TableEntry, NumPatterns, Prescanned
  <2> QED
    BY <2>1, <2>2, <2>3, <2>4, <2>5 DEF Inv, Pcs, Prescanned, Created, Filled
<1> QED
  BY <1>1, <1>2

LEMMA LoadHeaderInv == Inv /\ LoadHeader => Inv'
<1> SUFFICES ASSUME Inv, LoadHeader PROVE Inv'
  OBVIOUS
<1>1. /\ pc = "load" /\ pc' = "load_patterns" /\ i' = 0
      /\ mod' = [NoCounts EXCEPT !.length = ClampedLength,
                                 !.num_channels = U8(file.num_channels),
                                 !.num_patterns = file.num_patterns,
                                 !.num_instruments = U8(file.num_instruments)]
      /\ header' =
           [restart_position |-> IF file.restart_position >= ClampedLength THEN 0
                                 ELSE file.restart_position,
            default_tempo |-> IF file.tempo >= MIN_BPM THEN MIN_BPM - 1 ELSE file.tempo,
            default_bpm |-> IF file.bpm > MAX_BPM THEN MAX_BPM ELSE file.bpm,
            pattern_table |-> [e \in Order |-> TableEntry(e)]]
      /\ UNCHANGED file /\ UNCHANGED out /\ UNCHANGED patterns /\ UNCHANGED patternAt
  BY DEF LoadHeader, history
<1>2. /\ NumPatterns' = NumPatterns /\ IsTrace' /\ IsCount(out)' /\ NumPatterns \in Nat
      /\ NumPatterns <= MAX_PATTERNS
  BY <1>1, FileInv DEF Inv, IsTrace, NumPatterns, IsCount
<1>3. Counted(NumPatterns)'
  BY <1>1 DEF Inv, Counted, Rows, NumRows, NumPatterns, Prescanned, Created
<1>4. HasRoom' /\ IsPatternArray'
  BY <1>1
  DEF Inv, HasRoom, NeedsBlank, ClampedLength, IsInvalid, TableEntry, NumPatterns,
      IsPatternArray, Prescanned, Created
<1>5. /\ mod'.length = ClampedLength' /\ mod'.num_patterns = NumPatterns' /\ mod'.num_rows = 0
      /\ IsCount(mod)' /\ ClampedLength' = ClampedLength
  BY <1>1 DEF IsCount, NoCounts, NumPatterns, ClampedLength
<1>6. HeaderIsLoaded'
  <2>1. /\ header'.restart_position \in Nat
        /\ mod'.length > 0 => header'.restart_position < mod'.length
    BY <1>1, <1>5, FileInv, LimitsAssumption
  <2>2. header'.pattern_table = [e \in Order |-> TableEntry(e)']
    BY <1>1 DEF TableEntry
  <2> QED
    BY <1>1, <1>5, <2>1, <2>2 DEF HeaderIsLoaded
<1>7. Rows(0)' = 0
  <2>1. Rows(0) \in Nat /\ Rows(0) <= 0 * MAX_ROWS_PER_PATTERN
    BY <1>1, <1>2 DEF Inv, Counted, Prescanned, Created
  <2> QED
    BY <1>1, <2>1, LimitsAssumption DEF Rows
<1>8. mod'.num_rows = Rows(i)'
  BY <1>1, <1>5, <1>7 DEF Rows
<1>9. i' \in 0 .. NumPatterns' /\ \A p \in 0 .. i' - 1 : Stored(p)'
  BY <1>1, <1>2
<1> QED
  BY <1>1, <1>2, <1>3, <1>4, <1>5, <1>6, <1>8, <1>9 DEF Inv, Pcs, Prescanned, Created, Filled

LEMMA LoadPatternInv == Inv /\ LoadPattern => Inv'
<1> SUFFICES ASSUME Inv, LoadPattern PROVE Inv'
  OBVIOUS
<1>1. /\ NumPatterns \in Nat /\ i \in 0 .. NumPatterns - 1 /\ mod.num_patterns = NumPatterns
      /\ mod.num_rows = Rows(i) /\ HeaderIsLoaded /\ IsCount(mod)
      /\ \A p \in 0 .. i - 1 : Stored(p)
      /\ Counted(NumPatterns) /\ HasRoom /\ IsPatternArray
  BY FileInv DEF Inv, LoadPattern, HeaderIsLoaded, Prescanned, Created
<1>2. PICK k \in 0 .. NumPatterns - 1 : k = i
  BY <1>1
<1> DEFINE rows == NumRows(file.patterns[k])
<1>3. /\ pc = "load_patterns" /\ i' = k + 1
      /\ patterns' = [patterns EXCEPT ![k] = [rows_index |-> mod.num_rows % Shorts,
                                             num_rows |-> rows]]
      /\ mod' = [mod EXCEPT !.num_rows = @ + rows]
  BY <1>2 DEF LoadPattern
<1>4. /\ UNCHANGED file /\ UNCHANGED pc /\ UNCHANGED out /\ UNCHANGED header
      /\ UNCHANGED patternAt
  BY DEF LoadPattern, history
<1>5. NumPatterns' = NumPatterns /\ IsTrace' /\ IsCount(out)' /\ ClampedLength' = ClampedLength
  BY <1>4 DEF Inv, IsTrace, NumPatterns, IsCount, ClampedLength
<1>6. Counted(NumPatterns)'
  BY <1>1, <1>4 DEF Counted, Rows, NumRows, NumPatterns
<1>7. HasRoom'
  BY <1>1, <1>4 DEF HasRoom, NeedsBlank, ClampedLength, IsInvalid, TableEntry, NumPatterns
<1>8. k \in DOMAIN patterns /\ IsPatternArray'
  <2>1. out.num_patterns \in Nat /\ k \in 0 .. out.num_patterns - 1
    BY <1>1 DEF HasRoom
  <2> QED
    BY <1>1, <1>3, <1>4, <2>1 DEF IsPatternArray
<1>9. /\ mod'.num_rows = Rows(k) + rows /\ mod'.num_patterns = mod.num_patterns
      /\ mod'.length = mod.length /\ IsCount(mod)'
  BY <1>1, <1>2, <1>3 DEF IsCount
<1>10. HeaderIsLoaded'
  BY <1>1, <1>4, <1>5, <1>9 DEF HeaderIsLoaded, TableEntry
<1>11. mod'.num_rows = Rows(i)'
  BY <1>1, <1>2, <1>3, <1>4, <1>9 DEF Counted, Rows
<1>12. ASSUME NEW p \in 0 .. k PROVE Stored(p)'
  <2>1. CASE p = k
    BY <1>1, <1>2, <1>3, <1>4, <1>8, <2>1 DEF Stored, Rows, NumRows
  <2>2. CASE p \in 0 .. k - 1
    BY <1>1, <1>2, <1>3, <1>4, <1>8, <2>2 DEF Stored, Rows, NumRows
  <2> QED
    BY <1>1, <2>1, <2>2
<1>13. i' \in 0 .. NumPatterns /\ i' - 1 = k
  BY <1>1, <1>3
<1>14. \A p \in 0 .. (i - 1)' : Stored(p)'
  BY <1>12, <1>13
<1> QED
  BY <1>3, <1>4, <1>5, <1>6, <1>7, <1>8, <1>9, <1>10, <1>11, <1>13, <1>14
  DEF Inv, Pcs, Prescanned, Created, Filled

(* Once every pattern is stored, they share the rows without a gap. *)
LEMMA StoredRows ==
  ASSUME Inv, pc = "load_patterns", i = NumPatterns, NEW p \in 0 .. NumPatterns - 1
  PROVE  /\ patterns[p].rows_index = Rows(p)
         /\ patterns[p].num_rows <= MAX_ROWS_PER_PATTERN
         /\ patterns[p].rows_index + patterns[p].num_rows = Rows(p + 1)
<1>1. /\ NumPatterns \in Nat /\ Stored(p) /\ Counted(NumPatterns)
      /\ NumPatterns <= MAX_PATTERNS /\ MAX_PATTERNS \in Nat
  BY FileInv, LimitsAssumption DEF Inv, Prescanned, Created
<1>2. p \in Nat /\ p < MAX_PATTERNS /\ Rows(p) \in Nat /\ Rows(p) <= p * MAX_ROWS_PER_PATTERN
  BY <1>1 DEF Counted
<1>3. Rows(p) % Shorts = Rows(p)
  BY <1>2, RowsFit
<1> QED
  BY <1>1, <1>3 DEF Stored, Counted

LEMMA LoadOrdersInv == Inv /\ LoadOrders => Inv'
<1> SUFFICES ASSUME Inv, LoadOrders PROVE Inv'
  OBVIOUS
<1> DEFINE N == NumPatterns
           blank == \E e \in 0 .. mod.length - 1 : IsInvalid(header.pattern_table[e])
<1>1. /\ N \in Nat /\ i = N /\ pc = "load_patterns" /\ mod.num_patterns = N
      /\ mod.num_rows = Rows(N) /\ HeaderIsLoaded /\ IsCount(mod)
      /\ Counted(N) /\ HasRoom /\ IsPatternArray
      /\ mod.length = ClampedLength /\ N <= MAX_PATTERNS
      /\ ClampedLength \in 0 .. PATTERN_ORDER_TABLE_LENGTH
      /\ \A e \in Order : TableEntry(e) \in Byte
  BY FileInv DEF Inv, LoadOrders, HeaderIsLoaded, Prescanned, Created
<1>2. /\ UNCHANGED file /\ UNCHANGED out /\ UNCHANGED patternAt
      /\ pc' = "load_instruments"
      /\ blank \/ UNCHANGED <<header, patterns, mod>>
  BY DEF LoadOrders, history
<1>3. NumPatterns' = N /\ IsTrace' /\ IsCount(out)'
  BY <1>2 DEF Inv, IsTrace, NumPatterns, IsCount
<1>4. Counted(NumPatterns)'
  BY <1>1, <1>2 DEF Counted, Rows, NumRows, NumPatterns
<1>5. HasRoom'
  BY <1>1, <1>2 DEF HasRoom, NeedsBlank, ClampedLength, IsInvalid, TableEntry, NumPatterns
<1>6. \A e \in Order : header.pattern_table[e] = TableEntry(e)
  BY <1>1 DEF HeaderIsLoaded
<1>7. \A e \in 0 .. mod.length - 1 :
        e \in Order /\ header.pattern_table[e] = TableEntry(e) /\ TableEntry(e) \in Nat
  BY <1>1, <1>6, LimitsAssumption, WidthsAssumption DEF Order, Byte
<1>8. CASE ~blank
  <2>1. IsPatternArray' /\ IsCount(mod)'
    BY <1>1, <1>2, <1>8 DEF IsPatternArray, IsCount
  <2>2. Whole
    <3>1. \A p \in 0 .. N - 1 : p + 1 = N \/ p + 1 \in 0 .. N - 1
      BY <1>1
    <3>2. ASSUME NEW p \in 0 .. N - 1
          PROVE  /\ patterns[p].num_rows <= MAX_ROWS_PER_PATTERN
                 /\ patterns[p].rows_index + patterns[p].num_rows =
                      IF p + 1 = N THEN Rows(N) ELSE patterns[p + 1].rows_index
      BY <1>1, <3>1, StoredRows
    <3>3. \A e \in 0 .. mod.length - 1 : header.pattern_table[e] < N
      BY <1>1, <1>7, <1>8 DEF IsInvalid, NumPatterns
    <3> QED
      BY <1>1, <3>2, <3>3 DEF Whole, HeaderIsLoaded
  <2>3. Whole'
    BY <1>2, <1>8, <2>2 DEF Whole
  <2> QED
    BY <1>1, <1>2, <1>3, <1>4, <1>5, <2>1, <2>3 DEF Inv, Pcs, Prescanned, Created, Filled
<1>9. CASE blank
  <2>1. /\ header' = [header EXCEPT !.pattern_table =
                        [e \in Order |-> IF e < mod.length /\ IsInvalid(@[e])
                                         THEN U8(mod.num_patterns) ELSE @[e]]]
        /\ patterns' = [patterns EXCEPT ![mod.num_patterns] =
                          [rows_index |-> mod.num_rows % Shorts,
                           num_rows |-> EMPTY_PATTERN_NUM_ROWS]]
        /\ mod' = [mod EXCEPT !.num_patterns = @ + 1,
                              !.num_rows = @ + EMPTY_PATTERN_NUM_ROWS]
    BY <1>9 DEF LoadOrders
  <2>2. N < MAX_PATTERNS /\ out.num_patterns = N + 1 /\ U8(N) = N
    <3>1. NeedsBlank
      BY <1>1, <1>7, <1>9 DEF NeedsBlank
    <3> QED
      BY <1>1, <3>1, LimitsAssumption, WidthsAssumption DEF HasRoom, U8
  <2>3. Rows(N) \in Nat /\ Rows(N) % Shorts = Rows(N)
    <3>1. Rows(N) \in Nat /\ Rows(N) <= N * MAX_ROWS_PER_PATTERN
      BY <1>1 DEF Counted
    <3> HIDE DEF N
    <3> QED
      BY <1>1, <2>2, <3>1, RowsFit
  <2>4. /\ mod'.num_patterns = N + 1 /\ mod'.num_rows = Rows(N) + EMPTY_PATTERN_NUM_ROWS
        /\ mod'.length = mod.length /\ IsCount(mod)'
    BY <1>1, <2>1 DEF IsCount
  <2>5. /\ patterns'[N] = [rows_index |-> Rows(N), num_rows |-> EMPTY_PATTERN_NUM_ROWS]
        /\ \A p \in 0 .. N - 1 : patterns'[p] = patterns[p]
        /\ IsPatternArray'
    <3>1. N \in 0 .. out.num_patterns - 1 /\ DOMAIN patterns = 0 .. out.num_patterns - 1
      BY <1>1, <2>2 DEF IsPatternArray
    <3>2. patterns' = [patterns EXCEPT ![N] = [rows_index |-> Rows(N),
                                              num_rows |-> EMPTY_PATTERN_NUM_ROWS]]
      BY <1>1, <2>1, <2>3
    <3> HIDE DEF N
    <3>3. DOMAIN patterns' = 0 .. out'.num_patterns - 1
      BY <1>2, <3>1, <3>2
    <3>4. \A p \in 0 .. N - 1 : p \in DOMAIN patterns /\ p # N
      BY <1>1, <2>2, <3>1
    <3>5. IsPatternArray'
      BY <3>2, <3>3 DEF IsPatternArray
    <3> QED
      BY <3>1, <3>2, <3>4, <3>5
  <2>6. /\ header'.restart_position = header.restart_position
        /\ \A e \in Order : header'.pattern_table[e] =
              IF e < mod.length /\ IsInvalid(header.pattern_table[e]) THEN N
              ELSE header.pattern_table[e]
    BY <1>1, <2>1, <2>2 DEF HeaderIsLoaded
  <2>7. ASSUME NEW p \in 0 .. N
        PROVE  /\ patterns'[p].num_rows <= MAX_ROWS_PER_PATTERN
               /\ patterns'[p].rows_index + patterns'[p].num_rows =
                    IF p + 1 = N + 1 THEN Rows(N) + EMPTY_PATTERN_NUM_ROWS
                    ELSE patterns'[p + 1].rows_index
    <3>1. CASE p = N
      BY <1>1, <2>5, <3>1, LimitsAssumption
    <3>2. CASE p # N
      <4>1. p \in 0 .. N - 1 /\ p + 1 # N + 1 /\ (p + 1 = N \/ p + 1 \in 0 .. N - 1)
        BY <1>1, <3>2
      <4>2. /\ patterns[p].num_rows <= MAX_ROWS_PER_PATTERN
            /\ patterns[p].rows_index + patterns[p].num_rows = Rows(p + 1)
        BY <1>1, <4>1, StoredRows
      <4>3. patterns'[p + 1].rows_index = Rows(p + 1)
        BY <1>1, <2>5, <4>1, StoredRows
      <4> QED
        BY <2>5, <4>1, <4>2, <4>3
    <3> QED
      BY <3>1, <3>2
  <2>8. \A e \in 0 .. mod.length - 1 : header'.pattern_table[e] < N + 1
    BY <1>1, <1>7, <2>6 DEF IsInvalid, NumPatterns
  <2>9. Whole'
    <3>1. 0 .. mod'.num_patterns - 1 = 0 .. N
      BY <1>1, <2>4
    <3>2. mod'.length > 0 => header'.restart_position < mod'.length
      BY <1>1, <2>4, <2>6 DEF HeaderIsLoaded
    <3> QED
      BY <2>4, <2>7, <2>8, <3>1, <3>2 DEF Whole
  <2> QED
    BY <1>1, <1>2, <1>3, <1>4, <1>5, <2>4, <2>5, <2>9
    DEF Inv, Pcs, Prescanned, Created, Filled
<1> QED
  BY <1>8, <1>9

-----------------------------------------------------------------------------
LEMMA NextInv == Inv /\ [Next]_vars => Inv'
<1> SUFFICES ASSUME Inv, [Next]_vars PROVE Inv'
  OBVIOUS
<1>1. CASE Prescan
  BY <1>1, PrescanHeaderInv, PrescanPatternInv, PrescanOrdersInv, PrescanInstrumentInv,
     PrescanSampleInv, PrescanDataInv DEF Prescan
<1>2. CASE Load
  BY <1>2, CreateContextInv, LoadHeaderInv, LoadPatternInv, LoadOrdersInv, LoadRestInv
  DEF Load
<1>3. CASE UNCHANGED vars
  <2>1. /\ file' = file /\ pc' = pc /\ i' = i /\ out' = out /\ mod' = mod
        /\ header' = header /\ patterns' = patterns /\ patternAt' = patternAt
    BY <1>3 DEF vars, walk, loaded, history
  <2>2. IsTrace' = IsTrace /\ IsCount(out)' = IsCount(out) /\ IsCount(mod)' = IsCount(mod)
    BY <2>1 DEF IsTrace, IsCount, NumPatterns
  <2>3. HasRoom' = HasRoom /\ HeaderIsLoaded' = HeaderIsLoaded /\ Whole' = Whole
    BY <2>1 DEF HasRoom, NeedsBlank, ClampedLength, IsInvalid, TableEntry, HeaderIsLoaded, Whole,
                NumPatterns
  <2>4. /\ Counted(i)' = Counted(i) /\ Counted(NumPatterns)' = Counted(NumPatterns)
        /\ Rows(0)' = Rows(0) /\ Rows(i)' = Rows(i) /\ NumPatterns' = NumPatterns
        /\ IsPatternArray' = IsPatternArray
    BY <2>1 DEF Counted, NumPatterns, Rows, IsPatternArray
  <2>5. \A p : Stored(p)' = Stored(p)
    BY <2>1 DEF Stored, Rows
  <2> QED
    BY <2>1, <2>2, <2>3, <2>4, <2>5 DEF Inv
<1> QED
  BY <1>1, <1>2, <1>3 DEF Next

LEMMA SpecInv == Spec => []Inv
BY InitInv, NextInv, PTL DEF Spec

LEMMA WholeIsSongIsWhole == Inv => SongIsWhole
BY DEF Inv, Filled, Whole, SongIsWhole

LEMMA InvAssertionsHold == Inv /\ (HasWaveforms(file) => pc # "failed") => AssertionsHold
<1> SUFFICES ASSUME Inv, HasShortBlanks(file), pc = "load_patterns" PROVE AssertionsHold
  BY DEF AssertionsHold
<1>1. /\ NumPatterns \in Nat /\ i \in 0 .. NumPatterns /\ mod.num_patterns = NumPatterns
      /\ mod.num_rows = Rows(i) /\ HeaderIsLoaded
      /\ Counted(NumPatterns) /\ HasRoom
      /\ mod.length = ClampedLength /\ NumPatterns <= MAX_PATTERNS /\ MAX_PATTERNS \in Nat
      /\ ClampedLength \in 0 .. PATTERN_ORDER_TABLE_LENGTH
  BY FileInv, LimitsAssumption DEF Inv, HeaderIsLoaded, Prescanned, Created
<1>2. PICK k \in 0 .. NumPatterns : k = i
  BY <1>1
<1>3. k \in Nat /\ Rows(k) \in Nat /\ Rows(k) <= k * MAX_ROWS_PER_PATTERN
  BY <1>1 DEF Counted
<1>4. CASE i < mod.num_patterns
  <2>1. k < MAX_PATTERNS /\ k \in 0 .. NumPatterns - 1
    BY <1>1, <1>2, <1>4
  <2>2. Rows(k) < Shorts - 1
    BY <1>3, <2>1, RowsFit
  <2>3. file.patterns[k].num_rows <= MAX_ROWS_PER_PATTERN
    <3>1. NumRows(file.patterns[k]) <= MAX_ROWS_PER_PATTERN
      BY <1>1, <2>1 DEF Counted
    <3>2. file.patterns[k].packed_size = 0 =>
            file.patterns[k].num_rows <= MAX_ROWS_PER_PATTERN
      <4>1. k \in Patterns(file)
        BY <2>1, FilesAssumption DEF Inv, IsFile, NumPatterns
      <4> QED
        BY <4>1 DEF HasShortBlanks
    <3> QED
      BY <3>1, <3>2 DEF NumRows
  <2>4. Rows(k) \in Short
    BY <1>3, <2>2, WidthsAssumption DEF Short
  <2> QED
    BY <1>1, <1>2, <1>4, <2>3, <2>4 DEF AssertionsHold
<1>5. CASE ~(i < mod.num_patterns)
  <2>1. k = NumPatterns
    BY <1>1, <1>2, <1>5
  <2>2. ASSUME NEW e \in 0 .. mod.length - 1, IsInvalid(header.pattern_table[e])
        PROVE  mod.num_patterns \in Byte /\ mod.num_rows < Shorts - 1
    <3>1. e \in Order /\ e \in 0 .. ClampedLength - 1
      BY <1>1, LimitsAssumption DEF Order
    <3>2. header.pattern_table[e] = TableEntry(e)
      BY <1>1, <3>1 DEF HeaderIsLoaded
    <3>3. NumPatterns < MAX_PATTERNS
      BY <1>1, <2>2, <3>1, <3>2 DEF HasRoom, NeedsBlank
    <3>4. Rows(k) < Shorts - 1
      BY <1>3, <2>1, <3>3, RowsFit
    <3> QED
      BY <1>1, <1>2, <3>3, <3>4, LimitsAssumption, WidthsAssumption DEF Byte
  <2> QED
    BY <1>5, <2>2 DEF AssertionsHold
<1> QED
  BY <1>4, <1>5

(* Whatever file is loaded, the patterns of the song share the array of     *)
(* rows without a gap, the blank pattern included, every entry of the order *)
(* table names one of them, and the song restarts inside of it.             *)
THEOREM SongsAreWhole == Spec => []SongIsWhole
BY SpecInv, WholeIsSongIsWhole, PTL

-----------------------------------------------------------------------------
(* The two walks.  The traces the first one leaves, of where each header    *)
(* was and of what had been counted, are what the second one goes by: it is *)
(* at the same offset, with the same counts, at every pattern, instrument   *)
(* and sample.                                                              *)

NumInstruments == file.num_instruments
NumSamples(n) == file.instruments[n].num_samples
FileSampleOf(n, k) == file.instruments[n].samples[k]

(* The first walk at an instrument, and at a sample. *)
InstrumentMark == [offset : Nat, num_samples : Nat, samples_data_length : Nat]
SampleMark == [offset : Nat, bytes : Nat, samples_data_length : Nat]

Entered(n) ==
  sampleAt[n][0] = [offset |-> U32(instrumentAt[n].offset + file.instruments[n].header_size),
                    bytes |-> 0,
                    samples_data_length |-> instrumentAt[n].samples_data_length]
Passed(n, k) ==
  LET s == FileSampleOf(n, k)
      mark == sampleAt[n][k]
  IN  /\ PrescanLength(s) <= MaxLength(s.flags)
      /\ sampleAt[n][k + 1] =
           [offset |-> U32(mark.offset + SAMPLE_HEADER_SIZE),
            bytes |-> U32(mark.bytes + s.length),
            samples_data_length |-> U32(mark.samples_data_length + PrescanLength(s))]
Left(n) ==
  LET mark == sampleAt[n][NumSamples(n)]
  IN  instrumentAt[n + 1] =
        [offset |-> U32(mark.offset + mark.bytes),
         num_samples |-> instrumentAt[n].num_samples + NumSamples(n),
         samples_data_length |-> mark.samples_data_length]
Walked(n) == Entered(n) /\ (\A k \in 0 .. NumSamples(n) - 1 : Passed(n, k)) /\ Left(n)

MarksType ==
  /\ instrumentAt \in [0 .. NumInstruments -> InstrumentMark]
  /\ DOMAIN sampleAt = 0 .. NumInstruments - 1
  /\ \A n \in 0 .. NumInstruments - 1 : sampleAt[n] \in [0 .. NumSamples(n) -> SampleMark]
CountedUpTo(n) ==
  /\ instrumentAt[0].num_samples = 0 /\ instrumentAt[0].samples_data_length = 0
  /\ out.num_samples \in 0 .. Shorts - 1 /\ out.samples_data_length \in Nat
  /\ \A m \in 0 .. n : instrumentAt[m].num_samples <= out.num_samples

MarksInv ==
  /\ MarksType
  /\ pc \in {"prescan", "prescan_patterns"} => offset \in Nat
  /\ pc = "prescan_patterns" => out.num_samples = 0 /\ out.samples_data_length = 0
  /\ pc = "prescan_instruments" =>
       /\ i \in 0 .. NumInstruments /\ (\A n \in 0 .. i - 1 : Walked(n)) /\ CountedUpTo(i)
       /\ instrumentAt[i] = [offset |-> offset, num_samples |-> out.num_samples,
                             samples_data_length |-> out.samples_data_length]
  /\ pc = "prescan_samples" =>
       /\ i \in 0 .. NumInstruments - 1 /\ (\A n \in 0 .. i - 1 : Walked(n)) /\ CountedUpTo(i)
       /\ j \in 0 .. NumSamples(i) /\ Entered(i) /\ (\A k \in 0 .. j - 1 : Passed(i, k))
       /\ sampleAt[i][j] = [offset |-> offset, bytes |-> bytes,
                            samples_data_length |-> out.samples_data_length]
       /\ out.num_samples = instrumentAt[i].num_samples + NumSamples(i)
  /\ pc \in Created =>
       /\ \A n \in 0 .. NumInstruments - 1 : Walked(n)
       /\ CountedUpTo(NumInstruments)
       /\ instrumentAt[NumInstruments].num_samples = out.num_samples
       /\ instrumentAt[NumInstruments].samples_data_length = out.samples_data_length

LEMMA InstrumentFacts ==
  ASSUME Inv
  PROVE  /\ NumInstruments \in Nat
         /\ \A n \in 0 .. NumInstruments - 1 :
              /\ NumSamples(n) \in Nat /\ file.instruments[n].header_size \in Nat
              /\ file.instruments[n].sample_of_notes \in [Note -> Byte]
              /\ \A k \in 0 .. NumSamples(n) - 1 : IsFileSample(FileSampleOf(n, k))
<1>1. IsFile(file)
  BY FilesAssumption DEF Inv
<1>2. NumInstruments \in Nat
  BY <1>1, WidthsAssumption DEF IsFile, Short, NumInstruments
<1>3. ASSUME NEW n \in 0 .. NumInstruments - 1
      PROVE  /\ NumSamples(n) \in Nat /\ file.instruments[n].header_size \in Nat
             /\ file.instruments[n].sample_of_notes \in [Note -> Byte]
             /\ \A k \in 0 .. NumSamples(n) - 1 : IsFileSample(FileSampleOf(n, k))
  <2>1. IsFileInstrument(file.instruments[n])
    BY <1>1 DEF IsFile, NumInstruments
  <2> QED
    BY <2>1, WidthsAssumption
    DEF IsFileInstrument, Short, Word, NumSamples, FileSampleOf
<1> QED
  BY <1>2, <1>3

LEMMA U32Facts ==
  ASSUME NEW n \in Nat
  PROVE  U32(n) \in Nat /\ U32(n) < Words /\ (n < Words => U32(n) = n)
BY WidthsAssumption, SMT DEF U32

(* What a sample counts for is a number of frames. *)
LEMMA PrescanLengthType ==
  ASSUME NEW s, IsFileSample(s)
  PROVE  /\ PrescanLength(s) \in Nat
         /\ MaxLength(s.flags) \in Nat /\ MaxLength(s.flags) <= MAX_SAMPLE_LENGTH
<1>1. s.length \in Nat /\ s.loop_start \in Nat /\ s.loop_length \in Nat
  BY WidthsAssumption DEF IsFileSample, Word
<1>2. TrimSampleLength(s.length, s.loop_start, s.loop_length, s.flags) \in Nat
  BY <1>1, U32Facts DEF TrimSampleLength
<1>3. \A n \in Nat : n \div 2 \in Nat /\ n \div 2 <= n
  OBVIOUS
<1> QED
  BY <1>2, <1>3, LimitsAssumption DEF PrescanLength, Frames, MaxLength

(* A mark is set, and nothing else changes. *)
LEMMA InstrumentMarked ==
  ASSUME MarksType, UNCHANGED file, UNCHANGED sampleAt,
         NEW n \in 0 .. NumInstruments, NEW mark \in InstrumentMark,
         instrumentAt' = [instrumentAt EXCEPT ![n] = mark]
  PROVE  /\ MarksType' /\ instrumentAt'[n] = mark
         /\ \A m \in 0 .. NumInstruments : m # n => instrumentAt'[m] = instrumentAt[m]
BY DEF MarksType, NumInstruments, NumSamples

LEMMA SampleMarked ==
  ASSUME MarksType, UNCHANGED file, UNCHANGED instrumentAt,
         NEW n \in 0 .. NumInstruments - 1, NEW k \in 0 .. NumSamples(n),
         NEW mark \in SampleMark,
         sampleAt' = [sampleAt EXCEPT ![n][k] = mark]
  PROVE  /\ MarksType' /\ sampleAt'[n][k] = mark
         /\ \A m \in 0 .. NumInstruments - 1 : m # n => sampleAt'[m] = sampleAt[m]
         /\ \A l \in 0 .. NumSamples(n) : l # k => sampleAt'[n][l] = sampleAt[n][l]
<1>1. /\ DOMAIN sampleAt' = DOMAIN sampleAt
      /\ sampleAt'[n] = [sampleAt[n] EXCEPT ![k] = mark]
      /\ \A m \in 0 .. NumInstruments - 1 : m # n => sampleAt'[m] = sampleAt[m]
  BY DEF MarksType
<1>2. sampleAt[n] \in [0 .. NumSamples(n) -> SampleMark]
  BY DEF MarksType
<1>3. sampleAt'[n] \in [0 .. NumSamples(n) -> SampleMark]
  BY <1>1, <1>2
<1>4. MarksType'
  BY <1>1, <1>3 DEF MarksType, NumInstruments, NumSamples
<1> QED
  BY <1>1, <1>2, <1>4

LEMMA WalkedKept ==
  ASSUME UNCHANGED file, NEW n, Walked(n), sampleAt'[n] = sampleAt[n],
         instrumentAt'[n] = instrumentAt[n], instrumentAt'[n + 1] = instrumentAt[n + 1]
  PROVE  Walked(n)'
BY DEF Walked, Entered, Passed, Left, NumSamples, FileSampleOf

LEMMA InitMarksInv == Init => MarksInv
<1> SUFFICES ASSUME Init PROVE MarksInv
  OBVIOUS
<1>1. Inv
  BY InitInv
<1>2. instrumentAt \in [0 .. NumInstruments -> InstrumentMark]
  BY <1>1, InstrumentFacts DEF Init, InstrumentMark, NumInstruments
<1>3. DOMAIN sampleAt = 0 .. NumInstruments - 1
  BY <1>1, InstrumentFacts, FilesAssumption DEF Init, IsFile, NumInstruments
<1>4. ASSUME NEW n \in 0 .. NumInstruments - 1
      PROVE  sampleAt[n] \in [0 .. NumSamples(n) -> SampleMark]
  <2>1. n \in Instruments(file)
    BY FilesAssumption DEF Init, IsFile, NumInstruments
  <2> QED
    BY <2>1 DEF Init, NumSamples, SampleMark
<1> QED
  BY <1>2, <1>3, <1>4 DEF Init, MarksInv, MarksType, Created, Filled

(* The steps that leave the marks, and what was counted, alone. *)
LEMMA MarksKept ==
  ASSUME MarksInv, UNCHANGED <<file, instrumentAt, sampleAt>>,
         out'.num_samples = out.num_samples,
         out'.samples_data_length = out.samples_data_length,
         \/ pc' \in {"refused", "lost", "failed"}
         \/ pc = "prescan_patterns" /\ pc' = "prescan_patterns" /\ offset' \in Nat
         \/ pc \in Created /\ pc' \in Created
         \/ pc' = pc /\ UNCHANGED <<i, j, offset, bytes>>
  PROVE  MarksInv'
<1>1. MarksType' /\ NumInstruments' = NumInstruments
  BY DEF MarksInv, MarksType, NumInstruments, NumSamples
<1>2. \A n : Walked(n)' = Walked(n) /\ Entered(n)' = Entered(n) /\ NumSamples(n)' = NumSamples(n)
  BY DEF Walked, Entered, Passed, Left, NumSamples, FileSampleOf
<1>3. \A n : CountedUpTo(n)' = CountedUpTo(n)
  BY DEF CountedUpTo
<1>4. \A n, k : Passed(n, k)' = Passed(n, k)
  BY DEF Passed, FileSampleOf
<1>5. pc' = pc /\ UNCHANGED <<i, j, offset, bytes>> => MarksInv'
  BY <1>1, <1>2, <1>3, <1>4 DEF MarksInv
<1> QED
  BY <1>1, <1>2, <1>3, <1>5 DEF MarksInv, Created, Filled

LEMMA RefuseMarksInv == MarksInv /\ Refuse => MarksInv'
BY MarksKept DEF Refuse, history

LEMMA PrescanPatternsMarksInv ==
  Inv /\ MarksInv /\ (PrescanHeader \/ PrescanPattern) => MarksInv'
<1> SUFFICES ASSUME Inv, MarksInv, PrescanHeader \/ PrescanPattern PROVE MarksInv'
  OBVIOUS
<1>1. CASE Refuse
  BY <1>1, RefuseMarksInv
<1>2. CASE PrescanHeader /\ ~Refuse
  <2>1. /\ pc = "prescan" /\ pc' = "prescan_patterns" /\ UNCHANGED <<file, instrumentAt, sampleAt>>
        /\ offset' = U32(offset + file.header_size)
        /\ out' = [NoCounts EXCEPT !.length = file.length,
                                   !.num_channels = file.num_channels,
                                   !.num_patterns = file.num_patterns,
                                   !.num_instruments = file.num_instruments]
    BY <1>2 DEF PrescanHeader
  <2>2. offset' \in Nat
    BY <2>1, FileFacts, U32Facts DEF Inv, MarksInv
  <2>3. MarksType'
    BY <2>1 DEF MarksInv, MarksType, NumInstruments, NumSamples
  <2> QED
    BY <2>1, <2>2, <2>3 DEF MarksInv, NoCounts, Created, Filled
<1>3. CASE PrescanPattern /\ ~Refuse
  <2>1. /\ pc = "prescan_patterns" /\ pc' = pc /\ UNCHANGED <<file, instrumentAt, sampleAt>>
        /\ i \in 0 .. NumPatterns - 1
        /\ offset' = PatternEnd(file.patterns[i])
        /\ out' = [out EXCEPT !.num_rows = @ + NumRows(file.patterns[i])]
    BY <1>3, FileInv DEF PrescanPattern, Inv, NumPatterns
  <2>2. offset' \in Nat
    BY <2>1, FileFacts, U32Facts DEF Inv, MarksInv, PatternEnd, NumPatterns
  <2>3. out'.num_samples = out.num_samples /\ out'.samples_data_length = out.samples_data_length
    BY <2>1 DEF Inv, IsCount
  <2> QED
    BY <2>1, <2>2, <2>3, MarksKept
<1> QED
  BY <1>1, <1>2, <1>3

LEMMA PrescanOrdersMarksInv == Inv /\ MarksInv /\ PrescanOrders => MarksInv'
<1> SUFFICES ASSUME Inv, MarksInv, PrescanOrders PROVE MarksInv'
  OBVIOUS
<1>1. CASE Refuse
  BY <1>1, RefuseMarksInv
<1>2. CASE ~Refuse
  <2>1. /\ pc = "prescan_patterns" /\ pc' = "prescan_instruments" /\ i' = 0
        /\ UNCHANGED <<file, offset, sampleAt>>
        /\ instrumentAt' = [instrumentAt EXCEPT ![0] =
             [offset |-> offset, num_samples |-> out.num_samples,
              samples_data_length |-> out.samples_data_length]]
        /\ \/ out' = [out EXCEPT !.length = ClampedLength,
                                 !.num_rows = @ + EMPTY_PATTERN_NUM_ROWS,
                                 !.num_patterns = @ + 1]
           \/ out' = [out EXCEPT !.length = ClampedLength]
    BY <1>2 DEF PrescanOrders
  <2>2. out.num_samples = 0 /\ out.samples_data_length = 0 /\ offset \in Nat
    BY <2>1 DEF MarksInv
  <2>3. out'.num_samples = 0 /\ out'.samples_data_length = 0
    BY <2>1, <2>2 DEF Inv, IsCount
  <2> DEFINE mark == [offset |-> offset, num_samples |-> 0, samples_data_length |-> 0]
  <2>4. instrumentAt' = [instrumentAt EXCEPT ![0] = mark] /\ mark \in InstrumentMark
    BY <2>1, <2>2 DEF InstrumentMark
  <2>5. 0 \in 0 .. NumInstruments /\ NumInstruments' = NumInstruments
    BY <2>1, InstrumentFacts DEF NumInstruments
  <2>6. MarksType' /\ instrumentAt'[0] = mark
    BY <2>1, <2>4, <2>5, InstrumentMarked DEF MarksInv
  <2>7. CountedUpTo(0)'
    BY <2>3, <2>6, WidthsAssumption DEF CountedUpTo
  <2>8. CountedUpTo(i)'
    BY <2>1, <2>7 DEF CountedUpTo
  <2> QED
    BY <2>1, <2>3, <2>5, <2>6, <2>8 DEF MarksInv, Created, Filled
<1> QED
  BY <1>1, <1>2

(* What is counted up to an instrument is, when an earlier mark is left.    *)
LEMMA PrescanInstrumentMarksInv == Inv /\ MarksInv /\ PrescanInstrument => MarksInv'
<1> SUFFICES ASSUME Inv, MarksInv, PrescanInstrument PROVE MarksInv'
  OBVIOUS
<1>1. CASE Refuse
  BY <1>1, RefuseMarksInv
<1>2. CASE ~Refuse
  <2>1. /\ pc = "prescan_instruments" /\ i \in 0 .. NumInstruments - 1
        /\ \A n \in 0 .. i - 1 : Walked(n)
        /\ CountedUpTo(i)
        /\ instrumentAt[i] = [offset |-> offset, num_samples |-> out.num_samples,
                              samples_data_length |-> out.samples_data_length]
    BY <1>2, InstrumentFacts DEF MarksInv, PrescanInstrument, NumInstruments
  <2>2. PICK k \in 0 .. NumInstruments - 1 : k = i
    BY <2>1
  <2> DEFINE mark == [offset |-> U32(offset + file.instruments[k].header_size), bytes |-> 0,
                      samples_data_length |-> out.samples_data_length]
  <2>3. /\ ~HasTooMany(file.instruments[k])
        /\ pc' = "prescan_samples" /\ i' = k /\ j' = 0 /\ bytes' = 0
        /\ offset' = mark.offset
        /\ out' = [out EXCEPT !.num_samples = @ + NumSamples(k)]
        /\ sampleAt' = [sampleAt EXCEPT ![k][0] = mark]
        /\ UNCHANGED file /\ UNCHANGED instrumentAt
    BY <1>2, <2>2 DEF PrescanInstrument, Instrument, NumSamples
  <2>4. /\ NumSamples(k) \in Nat /\ file.instruments[k].header_size \in Nat
        /\ 0 \in 0 .. NumSamples(k) /\ NumInstruments \in Nat
    BY InstrumentFacts
  <2>5. /\ offset \in Nat /\ out.num_samples \in 0 .. Shorts - 1
        /\ out.samples_data_length \in Nat
    <3>1. k \in 0 .. NumInstruments
      BY <2>4
    <3>2. instrumentAt[k] \in InstrumentMark
      BY <3>1 DEF MarksInv, MarksType
    <3> QED
      BY <2>1, <2>2, <3>2 DEF CountedUpTo, InstrumentMark
  <2>6. mark \in SampleMark
    BY <2>4, <2>5, U32Facts DEF SampleMark
  <2> HIDE DEF mark
  <2>7. /\ MarksType' /\ sampleAt'[k][0] = mark
        /\ \A m \in 0 .. NumInstruments - 1 : m # k => sampleAt'[m] = sampleAt[m]
    <3>1. /\ MarksType /\ UNCHANGED file /\ UNCHANGED instrumentAt
          /\ 0 \in 0 .. NumSamples(k)
          /\ sampleAt' = [sampleAt EXCEPT ![k][0] = mark]
      BY <2>3, <2>4 DEF MarksInv
    <3> QED
      BY <2>6, <3>1, SampleMarked, ZenonT(40)
  <2>8. /\ out'.num_samples = out.num_samples + NumSamples(k)
        /\ out'.samples_data_length = out.samples_data_length
    BY <2>3 DEF Inv, IsCount
  <2>9. /\ out'.num_samples \in 0 .. Shorts - 1 /\ out'.num_samples >= out.num_samples
        /\ out'.samples_data_length \in Nat
    BY <2>3, <2>4, <2>5, <2>8, WidthsAssumption DEF HasTooMany, NumSamples
  <2>10. CountedUpTo(k)'
    <3>1. ASSUME NEW m \in 0 .. k PROVE instrumentAt'[m].num_samples <= out'.num_samples
      <4>1. instrumentAt[m].num_samples <= out.num_samples /\ m \in 0 .. NumInstruments
        BY <2>1, <2>2, <2>4 DEF CountedUpTo
      <4>2. instrumentAt[m].num_samples \in Nat
        BY <4>1 DEF MarksInv, MarksType, InstrumentMark
      <4> QED
        BY <2>3, <2>5, <2>9, <4>1, <4>2
    <3> QED
      BY <2>1, <2>3, <2>9, <3>1 DEF CountedUpTo
  <2>11. \A n \in 0 .. k - 1 : Walked(n)'
    <3>1. ASSUME NEW n \in 0 .. k - 1 PROVE Walked(n)'
      <4>1. n \in 0 .. NumInstruments - 1 /\ n # k
        BY <2>4
      <4>2. Walked(n) /\ sampleAt'[n] = sampleAt[n]
        BY <2>1, <2>2, <2>7, <4>1
      <4> QED
        BY <2>3, <4>2, WalkedKept
    <3> QED
      BY <3>1
  <2>12. Entered(k)'
    BY <2>1, <2>2, <2>3, <2>7 DEF Entered, mark
  <2>13. sampleAt'[k][0] = [offset |-> offset', bytes |-> bytes',
                            samples_data_length |-> out'.samples_data_length]
    BY <2>3, <2>7, <2>8 DEF mark
  <2>14. out'.num_samples = instrumentAt'[k].num_samples + NumSamples(k)'
    BY <2>1, <2>2, <2>3, <2>8 DEF NumSamples
  <2>15. k \in 0 .. (NumInstruments - 1)' /\ 0 \in 0 .. NumSamples(k)'
    BY <2>3, <2>4 DEF NumInstruments, NumSamples
  <2>16. \A l \in 0 .. 0 - 1 : Passed(k, l)'
    OBVIOUS
  <2>17. pc' \notin Created /\ pc' = "prescan_samples"
    BY <2>3 DEF Created, Filled
  <2>18. /\ (i \in 0 .. NumInstruments - 1)' /\ (\A n \in 0 .. i - 1 : Walked(n))'
         /\ CountedUpTo(i)'
         /\ (j \in 0 .. NumSamples(i))' /\ Entered(i)' /\ (\A l \in 0 .. j - 1 : Passed(i, l))'
         /\ (sampleAt[i][j] = [offset |-> offset, bytes |-> bytes,
                               samples_data_length |-> out.samples_data_length])'
         /\ (out.num_samples = instrumentAt[i].num_samples + NumSamples(i))'
    BY <2>3, <2>10, <2>11, <2>12, <2>13, <2>14, <2>15, <2>16, Zenon
    DEF CountedUpTo, Entered, NumSamples, Passed, FileSampleOf
  <2> QED
    BY <2>7, <2>17, <2>18 DEF MarksInv
<1> QED
  BY <1>1, <1>2

LEMMA PrescanSampleMarksInv == Inv /\ MarksInv /\ PrescanSample => MarksInv'
<1> SUFFICES ASSUME Inv, MarksInv, PrescanSample PROVE MarksInv'
  OBVIOUS
<1>1. CASE Refuse
  BY <1>1, RefuseMarksInv
<1>2. CASE ~Refuse
  <2>1. /\ pc = "prescan_samples" /\ i \in 0 .. NumInstruments - 1
        /\ \A n \in 0 .. i - 1 : Walked(n)
        /\ CountedUpTo(i)
        /\ j \in 0 .. NumSamples(i) - 1 /\ Entered(i) /\ (\A l \in 0 .. j - 1 : Passed(i, l))
        /\ sampleAt[i][j] = [offset |-> offset, bytes |-> bytes,
                             samples_data_length |-> out.samples_data_length]
        /\ out.num_samples = instrumentAt[i].num_samples + NumSamples(i)
    BY <1>2, InstrumentFacts DEF MarksInv, PrescanSample, Instrument, NumSamples
  <2>2. PICK n \in 0 .. NumInstruments - 1 : n = i
    BY <2>1
  <2>3. PICK k \in 0 .. NumSamples(n) - 1 : k = j
    BY <2>1, <2>2
  <2> DEFINE s == FileSampleOf(n, k)
             mark == [offset |-> U32(offset + SAMPLE_HEADER_SIZE),
                      bytes |-> U32(bytes + s.length),
                      samples_data_length |-> U32(out.samples_data_length + PrescanLength(s))]
  <2>4. /\ PrescanLength(s) <= MaxLength(s.flags) /\ pc' = "prescan_samples"
        /\ j' = k + 1 /\ i' = n
        /\ offset' = mark.offset /\ bytes' = mark.bytes
        /\ out' = [out EXCEPT !.samples_data_length = U32(@ + PrescanLength(s))]
        /\ UNCHANGED file /\ UNCHANGED instrumentAt
        /\ sampleAt' = [sampleAt EXCEPT ![n][k + 1] =
             [offset |-> offset', bytes |-> bytes',
              samples_data_length |-> out'.samples_data_length]]
    <3>1. Sample = s
      BY <2>2, <2>3 DEF Sample, Instrument, FileSampleOf
    <3>2. /\ NumSamples(n) \in Nat /\ IsFileSample(s)
      BY <2>2, InstrumentFacts
    <3>3. PrescanLength(s) \in Nat /\ MaxLength(s.flags) \in Nat
      BY <3>2, PrescanLengthType
    <3> HIDE DEF s
    <3> QED
      BY <1>2, <2>1, <2>2, <2>3, <3>1, <3>3 DEF PrescanSample
  <2>5. /\ NumSamples(n) \in Nat /\ k + 1 \in 0 .. NumSamples(n) /\ k \in 0 .. NumSamples(n)
        /\ NumInstruments \in Nat /\ IsFileSample(s) /\ k + 1 # 0 /\ k # k + 1
    BY InstrumentFacts
  <2>6. offset \in Nat /\ bytes \in Nat /\ out.samples_data_length \in Nat
    <3>1. sampleAt[n] \in [0 .. NumSamples(n) -> SampleMark]
      BY DEF MarksInv, MarksType
    <3>2. sampleAt[n][k] \in SampleMark
      BY <2>5, <3>1
    <3> QED
      BY <2>1, <2>2, <2>3, <3>2 DEF SampleMark
  <2>7. mark \in SampleMark
    <3>1. s.length \in Nat /\ PrescanLength(s) \in Nat
      BY <2>5, PrescanLengthType, WidthsAssumption DEF IsFileSample, Word
    <3>2. /\ offset + SAMPLE_HEADER_SIZE \in Nat /\ bytes + s.length \in Nat
          /\ out.samples_data_length + PrescanLength(s) \in Nat
      BY <2>6, <3>1, LimitsAssumption
    <3> QED
      BY <3>2, U32Facts DEF SampleMark
  <2>8. out'.num_samples = out.num_samples /\ out'.samples_data_length = mark.samples_data_length
    BY <2>4 DEF Inv, IsCount
  <2>9. sampleAt' = [sampleAt EXCEPT ![n][k + 1] = mark]
    BY <2>4, <2>8
  <2> HIDE DEF mark
  <2>10. /\ MarksType' /\ sampleAt'[n][k + 1] = mark
         /\ \A m \in 0 .. NumInstruments - 1 : m # n => sampleAt'[m] = sampleAt[m]
         /\ \A l \in 0 .. NumSamples(n) : l # k + 1 => sampleAt'[n][l] = sampleAt[n][l]
    <3>1. MarksType /\ UNCHANGED file /\ UNCHANGED instrumentAt
      BY <2>4 DEF MarksInv
    <3> QED
      BY <2>5, <2>7, <2>9, <3>1, SampleMarked, ZenonT(40)
  <2>11. (\A m \in 0 .. i - 1 : Walked(m))'
    <3>1. ASSUME NEW m \in 0 .. n - 1 PROVE Walked(m)'
      <4>1. m \in 0 .. NumInstruments - 1 /\ m # n
        BY <2>5
      <4>2. Walked(m) /\ sampleAt'[m] = sampleAt[m]
        BY <2>1, <2>2, <2>10, <4>1
      <4> QED
        BY <2>4, <4>2, WalkedKept
    <3> QED
      BY <2>4, <3>1
  <2>12. CountedUpTo(i)'
    <3>1. mark.samples_data_length \in Nat
      BY <2>7 DEF SampleMark
    <3> QED
      BY <2>1, <2>2, <2>4, <2>8, <3>1 DEF CountedUpTo
  <2>13. Entered(i)'
    <3>1. sampleAt'[n][0] = sampleAt[n][0]
      BY <2>5, <2>10
    <3> QED
      BY <2>1, <2>2, <2>4, <3>1 DEF Entered
  <2>14. ASSUME NEW l \in 0 .. k PROVE Passed(n, l)'
    <3>1. CASE l = k
      <4>1. sampleAt'[n][k] = sampleAt[n][k]
        BY <2>5, <2>10
      <4>2. /\ sampleAt'[n][k] = [offset |-> offset, bytes |-> bytes,
                                  samples_data_length |-> out.samples_data_length]
        BY <2>1, <2>2, <2>3, <4>1
      <4>3. sampleAt'[n][k + 1] =
              [offset |-> U32(offset + SAMPLE_HEADER_SIZE),
               bytes |-> U32(bytes + s.length),
               samples_data_length |-> U32(out.samples_data_length + PrescanLength(s))]
        BY <2>10 DEF mark
      <4>4. FileSampleOf(n, k)' = s /\ PrescanLength(s) <= MaxLength(s.flags)
        BY <2>4 DEF FileSampleOf
      <4> HIDE DEF s
      <4> QED
        BY <3>1, <4>2, <4>3, <4>4 DEF Passed
    <3>2. CASE l \in 0 .. k - 1
      <4>1. l \in 0 .. NumSamples(n) /\ l + 1 \in 0 .. NumSamples(n) /\ l # k + 1 /\ l + 1 # k + 1
        BY <2>5, <3>2
      <4>2. sampleAt'[n][l] = sampleAt[n][l] /\ sampleAt'[n][l + 1] = sampleAt[n][l + 1]
        BY <2>10, <4>1
      <4>3. Passed(n, l)
        BY <2>1, <2>2, <2>3, <3>2
      <4> QED
        BY <2>4, <4>2, <4>3 DEF Passed, FileSampleOf
    <3> QED
      BY <3>1, <3>2
  <2>15. (\A l \in 0 .. j - 1 : Passed(i, l))'
    <3>1. (j - 1)' = k /\ i' = n
      BY <2>4
    <3>2. \A l : Passed(n, l)' => Passed(i, l)'
      BY <3>1 DEF Passed, FileSampleOf
    <3> QED
      BY <2>14, <3>1, <3>2
  <2>16. (sampleAt[i][j] = [offset |-> offset, bytes |-> bytes,
                            samples_data_length |-> out.samples_data_length])'
    BY <2>4, <2>8, <2>10 DEF mark
  <2>17. (out.num_samples = instrumentAt[i].num_samples + NumSamples(i))'
    BY <2>1, <2>2, <2>4, <2>8 DEF NumSamples
  <2>18. (i \in 0 .. NumInstruments - 1)' /\ (j \in 0 .. NumSamples(i))'
    BY <2>4, <2>5 DEF NumInstruments, NumSamples
  <2>19. pc' = "prescan_samples" /\ pc' \notin Created
    BY <2>4 DEF Created, Filled
  <2> QED
    BY <2>10, <2>11, <2>12, <2>13, <2>15, <2>16, <2>17, <2>18, <2>19 DEF MarksInv
<1> QED
  BY <1>1, <1>2

LEMMA PrescanDataMarksInv == Inv /\ MarksInv /\ PrescanData => MarksInv'
<1> SUFFICES ASSUME Inv, MarksInv, PrescanData PROVE MarksInv'
  OBVIOUS
<1>1. /\ pc = "prescan_samples" /\ i \in 0 .. NumInstruments - 1
      /\ \A n \in 0 .. i - 1 : Walked(n)
      /\ CountedUpTo(i)
      /\ j = NumSamples(i) /\ Entered(i) /\ (\A l \in 0 .. j - 1 : Passed(i, l))
      /\ sampleAt[i][j] = [offset |-> offset, bytes |-> bytes,
                           samples_data_length |-> out.samples_data_length]
      /\ out.num_samples = instrumentAt[i].num_samples + NumSamples(i)
  BY DEF MarksInv, PrescanData, Instrument, NumSamples
<1>2. PICK n \in 0 .. NumInstruments - 1 : n = i
  BY <1>1
<1> DEFINE mark == [offset |-> U32(offset + bytes), num_samples |-> out.num_samples,
                    samples_data_length |-> out.samples_data_length]
<1>3. /\ pc' = "prescan_instruments" /\ i' = n + 1 /\ offset' = mark.offset
      /\ instrumentAt' = [instrumentAt EXCEPT ![n + 1] = mark]
      /\ UNCHANGED out /\ UNCHANGED file /\ UNCHANGED sampleAt
  BY <1>2 DEF PrescanData
<1>4. /\ NumInstruments \in Nat /\ n + 1 \in 0 .. NumInstruments /\ n \in 0 .. NumInstruments
      /\ NumSamples(n) \in Nat /\ n # n + 1
  BY InstrumentFacts
<1>5. /\ offset \in Nat /\ bytes \in Nat /\ out.num_samples \in 0 .. Shorts - 1
      /\ out.samples_data_length \in Nat
  <2>1. sampleAt[n] \in [0 .. NumSamples(n) -> SampleMark]
    BY DEF MarksInv, MarksType
  <2>2. sampleAt[n][NumSamples(n)] \in SampleMark
    BY <1>4, <2>1
  <2> QED
    BY <1>1, <1>2, <2>2 DEF SampleMark, CountedUpTo
<1>6. mark \in InstrumentMark
  BY <1>5, U32Facts, WidthsAssumption DEF InstrumentMark
<1> HIDE DEF mark
<1>7. /\ MarksType' /\ instrumentAt'[n + 1] = mark
      /\ \A m \in 0 .. NumInstruments : m # n + 1 => instrumentAt'[m] = instrumentAt[m]
  <2>1. MarksType /\ UNCHANGED file /\ UNCHANGED sampleAt
    BY <1>3 DEF MarksInv
  <2> QED
    BY <1>3, <1>4, <1>6, <2>1, InstrumentMarked
<1>8. ASSUME NEW m \in 0 .. n PROVE Walked(m)'
  <2>1. CASE m = n
    <3>1. \A l : Passed(n, l)' = Passed(n, l)
      BY <1>3 DEF Passed, FileSampleOf
    <3>2. \A l \in 0 .. NumSamples(n) - 1 : Passed(n, l)'
      BY <1>1, <1>2, <3>1 DEF NumSamples
    <3>3. instrumentAt'[n] = instrumentAt[n]
      BY <1>4, <1>7
    <3>4. Entered(n)'
      BY <1>1, <1>2, <1>3, <3>3 DEF Entered
    <3>5. Left(n)'
      BY <1>1, <1>2, <1>3, <1>7, <3>3 DEF Left, NumSamples, mark
    <3>6. NumSamples(n)' = NumSamples(n)
      BY <1>3 DEF NumSamples
    <3> QED
      BY <2>1, <3>2, <3>4, <3>5, <3>6 DEF Walked
  <2>2. CASE m \in 0 .. n - 1
    <3>1. m \in 0 .. NumInstruments /\ m + 1 \in 0 .. NumInstruments /\ m # n + 1 /\ m + 1 # n + 1
      BY <1>4, <2>2
    <3>2. /\ instrumentAt'[m] = instrumentAt[m] /\ instrumentAt'[m + 1] = instrumentAt[m + 1]
          /\ sampleAt'[m] = sampleAt[m]
      BY <1>3, <1>7, <3>1
    <3>3. Walked(m)
      BY <1>1, <1>2, <2>2
    <3> QED
      BY <1>3, <3>2, <3>3, WalkedKept
  <2> QED
    BY <2>1, <2>2
<1>9. (\A m \in 0 .. i - 1 : Walked(m))'
  <2>1. (i - 1)' = n
    BY <1>3
  <2> QED
    BY <1>8, <2>1
<1>10. CountedUpTo(i)'
  <2>1. ASSUME NEW m \in 0 .. n + 1 PROVE instrumentAt'[m].num_samples <= out.num_samples
    <3>1. CASE m = n + 1
      BY <1>5, <1>7, <3>1 DEF mark
    <3>2. CASE m \in 0 .. n
      <4>1. m \in 0 .. NumInstruments /\ m # n + 1
        BY <1>4, <3>2
      <4> QED
        BY <1>1, <1>2, <1>7, <3>2, <4>1 DEF CountedUpTo
    <3> QED
      BY <3>1, <3>2
  <2>2. instrumentAt'[0] = instrumentAt[0]
    BY <1>4, <1>7
  <2> QED
    BY <1>1, <1>2, <1>3, <1>5, <2>1, <2>2 DEF CountedUpTo
<1>11. (instrumentAt[i] = [offset |-> offset, num_samples |-> out.num_samples,
                           samples_data_length |-> out.samples_data_length])'
  BY <1>3, <1>7 DEF mark
<1>12. (i \in 0 .. NumInstruments)'
  BY <1>3, <1>4 DEF NumInstruments
<1>13. pc' = "prescan_instruments" /\ pc' \notin Created
  BY <1>3 DEF Created, Filled
<1> QED
  BY <1>7, <1>9, <1>10, <1>11, <1>12, <1>13 DEF MarksInv

LEMMA NextMarksInv == Inv /\ MarksInv /\ [Next]_vars => MarksInv'
<1> SUFFICES ASSUME Inv, MarksInv, [Next]_vars PROVE MarksInv'
  OBVIOUS
<1>1. CASE Prescan
  BY <1>1, PrescanPatternsMarksInv, PrescanOrdersMarksInv, PrescanInstrumentMarksInv,
     PrescanSampleMarksInv, PrescanDataMarksInv DEF Prescan
<1>2. CASE CreateContext
  <2>1. CASE Refuse
    BY <2>1, RefuseMarksInv
  <2>2. CASE ~Refuse
    <3>1. /\ pc = "prescan_instruments" /\ i = NumInstruments /\ pc' = "load"
          /\ UNCHANGED file /\ UNCHANGED out /\ UNCHANGED instrumentAt /\ UNCHANGED sampleAt
      BY <1>2, <2>2 DEF CreateContext, history, NumInstruments
    <3>2. MarksType' /\ NumInstruments' = NumInstruments
      BY <3>1 DEF MarksInv, MarksType, NumInstruments, NumSamples
    <3>3. \A n : Walked(n)' = Walked(n) /\ CountedUpTo(n)' = CountedUpTo(n)
      BY <3>1 DEF Walked, Entered, Passed, Left, NumSamples, FileSampleOf, CountedUpTo
    <3> QED
      BY <3>1, <3>2, <3>3 DEF MarksInv
  <2> QED
    BY <2>1, <2>2
<1>3. CASE Load /\ ~CreateContext
  <2>1. UNCHANGED <<file, instrumentAt, sampleAt, out>>
    BY <1>3, Zenon
    DEF Load, LoadHeader, LoadPattern, LoadOrders, LoadEmptyInstrument, LoadInstrument,
        LoadSampleHeader, LoadSampleData, FailInstrument, Finish, Lose, history
  <2>2. (pc \in Created /\ pc' \in Created) \/ pc' \in {"lost", "failed"}
    BY <1>3
    DEF Load, LoadHeader, LoadPattern, LoadOrders, LoadEmptyInstrument, LoadInstrument,
        LoadSampleHeader, LoadSampleData, FailInstrument, Finish, Lose, Created, Filled
  <2> QED
    BY <2>1, <2>2, MarksKept
<1>4. CASE UNCHANGED vars
  BY <1>4, MarksKept DEF vars, walk, history
<1> QED
  BY <1>1, <1>2, <1>3, <1>4 DEF Next

-----------------------------------------------------------------------------
(* The headers of the patterns are where the first walk found them, and the *)
(* first instrument comes after the last pattern.                           *)
Placed(n) ==
  /\ patternAt[0].offset = U32(60 + file.header_size)
  /\ \A p \in 0 .. n - 1 :
       patternAt[p + 1].offset =
         U32(patternAt[p].offset + file.patterns[p].header_size + file.patterns[p].packed_size)

PlacesInv ==
  /\ pc \in {"prescan", "load"} => offset = 60
  /\ pc = "prescan_patterns" => Placed(i) /\ offset = patternAt[i].offset
  /\ pc \in Prescanned =>
       Placed(NumPatterns) /\ instrumentAt[0].offset = patternAt[NumPatterns].offset
  /\ pc = "load_patterns" => offset = patternAt[i].offset

(* The steps that leave the marks of the patterns alone. *)
LEMMA PlacesKept ==
  ASSUME PlacesInv, UNCHANGED <<file, patternAt>>,
         instrumentAt'[0] = instrumentAt[0],
         \/ pc' \in {"refused", "lost", "failed"}
         \/ pc \in Prescanned /\ pc' \in Prescanned \ {"load", "load_patterns"}
         \/ pc' = pc /\ UNCHANGED <<i, offset>>
  PROVE  PlacesInv'
<1>1. NumPatterns' = NumPatterns /\ \A n : Placed(n)' = Placed(n)
  BY DEF NumPatterns, Placed
<1> QED
  BY <1>1 DEF PlacesInv, Prescanned, Created, Filled

LEMMA InitPlacesInv == Init => PlacesInv
BY DEF Init, PlacesInv, Prescanned, Created, Filled

LEMMA PrescanHeaderPlacesInv == Inv /\ PlacesInv /\ PrescanHeader => PlacesInv'
<1> SUFFICES ASSUME Inv, PlacesInv, PrescanHeader PROVE PlacesInv'
  OBVIOUS
<1>1. CASE Refuse
  BY <1>1, PlacesKept DEF Refuse, history
<1>2. CASE ~Refuse
  <2>1. /\ pc' = "prescan_patterns" /\ i' = 0 /\ offset' = U32(60 + file.header_size)
        /\ patternAt' = [patternAt EXCEPT ![0].offset = offset']
        /\ UNCHANGED file
    BY <1>2 DEF PrescanHeader, PlacesInv
  <2>2. 0 \in 0 .. NumPatterns
    BY FileInv
  <2>3. patternAt[0] = [offset |-> patternAt[0].offset, num_rows |-> patternAt[0].num_rows]
        /\ DOMAIN patternAt = 0 .. NumPatterns
    BY <2>2 DEF Inv, IsTrace
  <2>4. patternAt'[0].offset = offset'
    BY <2>1, <2>2, <2>3
  <2> QED
    BY <2>1, <2>4 DEF PlacesInv, Placed, Prescanned, Created, Filled
<1> QED
  BY <1>1, <1>2

LEMMA PrescanPatternPlacesInv == Inv /\ PlacesInv /\ PrescanPattern => PlacesInv'
<1> SUFFICES ASSUME Inv, PlacesInv, PrescanPattern PROVE PlacesInv'
  OBVIOUS
<1>1. CASE Refuse
  BY <1>1, PlacesKept DEF Refuse, history
<1>2. CASE ~Refuse
  <2>1. pc = "prescan_patterns" /\ i \in 0 .. NumPatterns - 1 /\ NumPatterns \in Nat
    BY FileInv DEF Inv, PrescanPattern, NumPatterns
  <2>2. PICK k \in 0 .. NumPatterns - 1 : k = i
    BY <2>1
  <2>3. /\ pc' = pc /\ i' = k + 1 /\ UNCHANGED file
        /\ offset' = U32(offset + file.patterns[k].header_size + file.patterns[k].packed_size)
        /\ patternAt' = [patternAt EXCEPT ![k + 1] =
                           [offset |-> offset', num_rows |-> out'.num_rows]]
    BY <1>2, <2>2 DEF PrescanPattern, PatternEnd
  <2>4. Placed(k) /\ offset = patternAt[k].offset
    BY <2>1, <2>2 DEF PlacesInv
  <2>5. DOMAIN patternAt = 0 .. NumPatterns
    BY DEF Inv, IsTrace
  <2>6. /\ patternAt'[k + 1].offset = offset'
        /\ \A p \in 0 .. k : patternAt'[p] = patternAt[p]
    <3>1. k + 1 \in 0 .. NumPatterns /\ \A p \in 0 .. k : p \in 0 .. NumPatterns /\ p # k + 1
      BY <2>1
    <3> QED
      BY <2>3, <2>5, <3>1
  <2>7. ASSUME NEW p \in 0 .. k
        PROVE  patternAt'[p + 1].offset =
                 U32(patternAt'[p].offset + file.patterns[p].header_size
                       + file.patterns[p].packed_size)
    <3>1. CASE p = k
      BY <2>3, <2>4, <2>6, <3>1
    <3>2. CASE p \in 0 .. k - 1
      <4>1. p + 1 \in 0 .. k
        BY <3>2
      <4> QED
        BY <2>4, <2>6, <3>2, <4>1 DEF Placed
    <3> QED
      BY <3>1, <3>2
  <2>8. 0 \in 0 .. k /\ (i - 1)' = k
    BY <2>3
  <2>9. Placed(i)'
    BY <2>3, <2>4, <2>6, <2>7, <2>8 DEF Placed
  <2>10. pc' \notin Prescanned /\ pc' = "prescan_patterns"
    BY <2>1, <2>3 DEF Prescanned, Created, Filled
  <2> QED
    BY <2>3, <2>6, <2>9, <2>10 DEF PlacesInv
<1> QED
  BY <1>1, <1>2

LEMMA NextPlacesInv == Inv /\ MarksInv /\ PlacesInv /\ [Next]_vars => PlacesInv'
<1> SUFFICES ASSUME Inv, MarksInv, PlacesInv, [Next]_vars PROVE PlacesInv'
  OBVIOUS
<1>1. CASE PrescanHeader \/ PrescanPattern
  BY <1>1, PrescanHeaderPlacesInv, PrescanPatternPlacesInv
<1>2. CASE PrescanOrders
  <2>1. CASE Refuse
    BY <2>1, PlacesKept DEF Refuse, history
  <2>2. CASE ~Refuse
    <3>1. /\ pc = "prescan_patterns" /\ pc' = "prescan_instruments" /\ i = NumPatterns
          /\ instrumentAt' = [instrumentAt EXCEPT ![0] =
               [offset |-> offset, num_samples |-> out.num_samples,
                samples_data_length |-> out.samples_data_length]]
          /\ UNCHANGED file /\ UNCHANGED patternAt
      BY <1>2, <2>2 DEF PrescanOrders, NumPatterns
    <3>2. 0 \in DOMAIN instrumentAt
      BY InstrumentFacts DEF MarksInv, MarksType
    <3>3. instrumentAt'[0].offset = offset
      BY <3>1, <3>2
    <3>4. Placed(NumPatterns)' /\ NumPatterns' = NumPatterns
      BY <3>1 DEF PlacesInv, Placed, NumPatterns
    <3> QED
      BY <3>1, <3>3, <3>4 DEF PlacesInv
  <2> QED
    BY <2>1, <2>2
<1>3. CASE PrescanInstrument \/ PrescanSample \/ PrescanData
  <2>1. CASE Refuse
    BY <2>1, PlacesKept DEF Refuse, history
  <2>2. CASE ~Refuse
    <3>1. /\ pc \in {"prescan_instruments", "prescan_samples"}
          /\ pc' \in {"prescan_instruments", "prescan_samples"}
          /\ UNCHANGED file /\ UNCHANGED patternAt
      BY <1>3, <2>2 DEF PrescanInstrument, PrescanSample, PrescanData
    <3>2. instrumentAt'[0] = instrumentAt[0]
      <4>1. CASE PrescanInstrument \/ PrescanSample
        BY <2>2, <4>1 DEF PrescanInstrument, PrescanSample
      <4>2. CASE PrescanData
        <5>1. i \in Nat /\ instrumentAt' = [instrumentAt EXCEPT ![i + 1] =
                [offset |-> offset', num_samples |-> out.num_samples,
                 samples_data_length |-> out.samples_data_length]]
          BY <4>2 DEF PrescanData, MarksInv
        <5> QED
          BY <5>1
      <4> QED
        BY <1>3, <4>1, <4>2
    <3> QED
      BY <3>1, <3>2, PlacesKept DEF Prescanned, Created, Filled
  <2> QED
    BY <2>1, <2>2
<1>4. CASE CreateContext
  <2>1. CASE Refuse
    BY <2>1, PlacesKept DEF Refuse, history
  <2>2. CASE ~Refuse
    <3>1. /\ pc = "prescan_instruments" /\ pc' = "load" /\ offset' = 60
          /\ UNCHANGED <<file, history>>
      BY <1>4, <2>2 DEF CreateContext
    <3>2. Placed(NumPatterns)' /\ NumPatterns' = NumPatterns
      BY <3>1 DEF PlacesInv, Placed, NumPatterns, Prescanned, history
    <3> QED
      BY <3>1, <3>2 DEF PlacesInv, Prescanned, history
  <2> QED
    BY <2>1, <2>2
<1>5. CASE LoadHeader
  <2>1. /\ pc = "load" /\ pc' = "load_patterns" /\ i' = 0 /\ UNCHANGED <<file, history>>
        /\ offset' = U32(60 + file.header_size)
    BY <1>5 DEF LoadHeader, PlacesInv
  <2>2. Placed(NumPatterns)' /\ NumPatterns' = NumPatterns /\ Placed(NumPatterns)
    BY <2>1 DEF PlacesInv, Placed, NumPatterns, Prescanned, Created, history
  <2> QED
    BY <2>1, <2>2 DEF PlacesInv, Placed, Prescanned, Created, history
<1>6. CASE LoadPattern
  <2>1. pc = "load_patterns" /\ i \in 0 .. NumPatterns - 1 /\ NumPatterns \in Nat
    BY <1>6, FileInv DEF Inv, LoadPattern, HeaderIsLoaded
  <2>2. /\ offset = patternAt[i].offset /\ i' = i + 1 /\ pc' = pc /\ UNCHANGED <<file, history>>
        /\ offset' = U32(offset + file.patterns[i].header_size + file.patterns[i].packed_size)
    BY <1>6 DEF LoadPattern, PatternEnd
  <2>3. Placed(NumPatterns)' /\ NumPatterns' = NumPatterns /\ Placed(NumPatterns)
    BY <2>1, <2>2 DEF PlacesInv, Placed, NumPatterns, Prescanned, Created, history
  <2>4. patternAt[i + 1].offset =
          U32(patternAt[i].offset + file.patterns[i].header_size + file.patterns[i].packed_size)
    BY <2>1, <2>3 DEF Placed
  <2> QED
    BY <2>1, <2>2, <2>3, <2>4 DEF PlacesInv, Prescanned, Created, history
<1>7. CASE LoadOrders \/ LoadEmptyInstrument \/ LoadInstrument \/ LoadSampleHeader
           \/ LoadSampleData \/ FailInstrument \/ Finish \/ Lose
  <2>1. UNCHANGED <<file, history>>
    BY <1>7, Zenon
    DEF LoadOrders, LoadEmptyInstrument, LoadInstrument, LoadSampleHeader, LoadSampleData,
        FailInstrument, Finish, Lose
  <2>2. (pc \in Created /\ pc' \in Filled) \/ pc' \in {"lost", "failed"}
    BY <1>7
    DEF LoadOrders, LoadEmptyInstrument, LoadInstrument, LoadSampleHeader, LoadSampleData,
        FailInstrument, Finish, Lose, Created, Filled
  <2>3. Filled \subseteq Prescanned \ {"load", "load_patterns"} /\ Created \subseteq Prescanned
    BY DEF Prescanned, Created, Filled
  <2> QED
    BY <2>1, <2>2, <2>3, PlacesKept DEF history
<1>8. CASE UNCHANGED vars
  BY <1>8, PlacesKept DEF vars, walk, history
<1> QED
  BY <1>1, <1>2, <1>3, <1>4, <1>5, <1>6, <1>7, <1>8 DEF Next, Prescan, Load

-----------------------------------------------------------------------------
(* Offsets are added up in 32 bits, in one order by the first walk and in   *)
(* another by the second.                                                   *)
LEMMA DivMod ==
  ASSUME NEW w \in Nat \ {0}, NEW n \in Nat
  PROVE  n \div w \in Nat /\ n % w \in 0 .. w - 1 /\ n = (n \div w) * w + (n % w)
BY SMT

LEMMA ModUnique ==
  ASSUME NEW w \in Nat \ {0}, NEW q \in Nat, NEW r \in 0 .. w - 1, NEW n \in Nat, n = q * w + r
  PROVE  n % w = r
<1> DEFINE d == n \div w
           m == n % w
<1>1. d \in Nat /\ m \in 0 .. w - 1 /\ n = d * w + m
  BY DivMod
<1> HIDE DEF d, m
<1>2. d = q
  <2>1. \A a, b \in Nat : a < b => a * w + w <= b * w
    <3>1. \A a, b \in Nat : a < b => \E k \in Nat : b = a + 1 + k
      <4>1. \A a, b \in Nat : a < b => b - a - 1 \in Nat /\ b = a + 1 + (b - a - 1)
        OBVIOUS
      <4> QED
        BY <4>1
    <3>2. \A a, k \in Nat : (a + 1 + k) * w = a * w + w + k * w /\ k * w \in Nat /\ a * w \in Nat
      OBVIOUS
    <3> QED
      BY <3>1, <3>2
  <2>2. d * w \in Nat /\ q * w \in Nat
    BY <1>1
  <2>3. ~(d < q)
    BY <1>1, <2>1, <2>2
  <2>4. ~(q < d)
    BY <1>1, <2>1, <2>2
  <2> QED
    BY <1>1, <2>3, <2>4
<1>3. m = r
  <2>1. q * w \in Nat
    OBVIOUS
  <2> QED
    BY <1>1, <1>2, <2>1
<1> QED
  BY <1>3 DEF m

LEMMA ModSum ==
  ASSUME NEW w \in Nat \ {0}, NEW a \in Nat, NEW b \in Nat
  PROVE  ((a % w) + b) % w = (a + b) % w
<1>1. PICK p \in Nat, x \in 0 .. w - 1 : x = a % w /\ a = p * w + x
  BY DivMod
<1>2. x + b \in Nat /\ a + b \in Nat
  OBVIOUS
<1>3. PICK q \in Nat, m \in 0 .. w - 1 : m = (x + b) % w /\ x + b = q * w + m
  BY <1>2, DivMod
<1>4. (p + q) * w = p * w + q * w /\ p * w \in Nat /\ q * w \in Nat /\ p + q \in Nat
  OBVIOUS
<1>5. \A P, Q \in Nat : a = P + x /\ x + b = Q + m => a + b = P + Q + m
  OBVIOUS
<1>6. a + b = (p + q) * w + m
  BY <1>1, <1>3, <1>4, <1>5
<1>7. \A z, n \in Nat : n = z * w + m => n % w = m
  BY ModUnique
<1>8. (a + b) % w = m
  <2> DEFINE z == p + q
             n == a + b
  <2>1. z \in Nat /\ n \in Nat /\ n = z * w + m
    BY <1>2, <1>4, <1>6
  <2> HIDE DEF z, n
  <2> QED
    BY <1>7, <2>1 DEF n
<1> QED
  BY <1>1, <1>3, <1>8

LEMMA U32Sum ==
  ASSUME NEW a \in Nat, NEW b \in Nat, NEW c \in Nat
  PROVE  U32(U32(a + b) + c) = U32(a + U32(b + c))
<1>1. Words \in Nat \ {0} /\ a + b \in Nat /\ b + c \in Nat
  BY WidthsAssumption
<1> DEFINE x == a + b
           y == b + c
<1>2. U32(U32(x) + c) = U32(x + c)
  BY <1>1, ModSum DEF U32
<1>3. U32(U32(y) + a) = U32(y + a)
  BY <1>1, ModSum DEF U32
<1>4. U32(y) \in Nat
  BY <1>1, U32Facts
<1>5. x + c = y + a /\ U32(y) + a = a + U32(y)
  BY <1>4
<1> QED
  BY <1>2, <1>3, <1>5

-----------------------------------------------------------------------------
(* A loop that does not wrap leaves a sample the length it was counted for, *)
(* whether the loop is fixed before or not.                                 *)
LEMMA LoadedLength ==
  ASSUME NEW s, IsFileSample(s), s.loop_start + s.loop_length < Words
  PROVE  LoadedSample(s).length = PrescanLength(s)
<1>1. /\ s.length \in Nat /\ s.length < Words /\ Words \in Nat
      /\ s.loop_start \in Nat /\ s.loop_length \in Nat
  BY WidthsAssumption DEF IsFileSample, Word
<1>2. \A n \in Nat : n < Words => U32(n) = n
  BY U32Facts
<1> DEFINE before == TrimSampleLength(s.length, s.loop_start, s.loop_length, s.flags)
           after == TrimSampleLength(s.length, LoopStart(s), LoopLength(s), s.flags)
<1>3. CASE ~Loops(s.flags)
  BY <1>3 DEF TrimSampleLength, LoadedSample, PrescanLength
<1>4. CASE Loops(s.flags) /\ s.loop_start > s.length
  <2>1. LoopStart(s) = s.length /\ s.length + s.loop_length \in Nat
        /\ s.length + s.loop_length < Words
    BY <1>1, <1>4 DEF LoopStart
  <2>2. LoopLength(s) = 0
    BY <1>1, <1>2, <2>1 DEF LoopLength
  <2>3. after = s.length
    BY <1>1, <1>2, <2>1, <2>2 DEF TrimSampleLength
  <2>4. before = s.length
    BY <1>4 DEF TrimSampleLength
  <2> QED
    BY <2>3, <2>4 DEF LoadedSample, PrescanLength
<1>5. CASE Loops(s.flags) /\ ~(s.loop_start > s.length)
  <2>1. /\ LoopStart(s) = s.loop_start
        /\ U32(s.loop_start + s.loop_length) = s.loop_start + s.loop_length
    BY <1>1, <1>2, <1>5 DEF LoopStart
  <2>2. before = after
    <3>1. CASE s.loop_start + s.loop_length > s.length
      <4>1. LoopLength(s) = 0 /\ s.loop_start < Words /\ s.loop_start + 0 = s.loop_start
        BY <1>1, <1>5, <2>1, <3>1 DEF LoopLength
      <4>2. after = s.loop_start
        BY <1>1, <1>2, <1>5, <2>1, <4>1 DEF TrimSampleLength
      <4>3. before = s.loop_start
        BY <1>1, <1>5, <2>1, <3>1 DEF TrimSampleLength
      <4> QED
        BY <4>2, <4>3
    <3>2. CASE ~(s.loop_start + s.loop_length > s.length)
      BY <2>1, <3>2 DEF LoopLength
    <3> QED
      BY <3>1, <3>2
  <2> QED
    BY <2>2 DEF LoadedSample, PrescanLength
<1> QED
  BY <1>3, <1>4, <1>5

(* What the data of a sample of whole frames takes in the file is skipped.  *)
LEMMA SkippedWhole ==
  ASSUME NEW s, IsFileSample(s), "16B" \in s.flags => s.length % 2 = 0
  PROVE  Skipped(LoadedSample(s), s.flags) = s.length
<1>1. s.length \in Nat
  BY WidthsAssumption DEF IsFileSample, Word
<1>2. \A n \in Nat : n % 2 = 0 => (n \div 2) * 2 = n
  OBVIOUS
<1> QED
  BY <1>1, <1>2 DEF Skipped, LoadedSample, Frames

-----------------------------------------------------------------------------
(* Where the second walk is, and what it has counted and loaded, if the     *)
(* headers of the instruments are whole: at an instrument, at the header of *)
(* a sample of one, and at its data.  Its count of frames is that of the    *)
(* first walk if no loop wraps, and its offset if every frame is whole.     *)
LoadedBetween(n, first, last) ==
  \A k \in first .. last :
    samples[instrumentAt[n].num_samples + k] = LoadedSample(FileSampleOf(n, k))

AtInstrument ==
  /\ i \in 0 .. NumInstruments
  /\ mod.num_samples = instrumentAt[i].num_samples
  /\ HasNarrowLoops(file) => mod.samples_data_length = instrumentAt[i].samples_data_length
  /\ HasWholeFrames(file) => offset = instrumentAt[i].offset
InSamples ==
  /\ i \in 0 .. NumInstruments - 1 /\ j \in 0 .. NumSamples(i) - 1
  /\ mod.num_samples = instrumentAt[i].num_samples + NumSamples(i)
AtHeader ==
  /\ InSamples /\ LoadedBetween(i, 0, j - 1)
  /\ HasNarrowLoops(file) => mod.samples_data_length = instrumentAt[i].samples_data_length
  /\ HasWholeFrames(file) => offset = sampleAt[i][j].offset
AtData ==
  /\ InSamples /\ LoadedBetween(i, j, NumSamples(i) - 1)
  /\ HasNarrowLoops(file) => mod.samples_data_length = sampleAt[i][j].samples_data_length
  /\ HasWholeFrames(file) =>
       offset = U32(sampleAt[i][NumSamples(i)].offset + sampleAt[i][j].bytes)
AtEnd ==
  /\ mod.num_samples = out.num_samples
  /\ HasNarrowLoops(file) => mod.samples_data_length = out.samples_data_length

Allocated == DOMAIN samples = 0 .. out.num_samples - 1

WalkInv ==
  /\ pc \notin {"prescan", "refused"} => NumInstruments <= Bytes - 1
  /\ pc \in Created => Allocated
  /\ pc \in Created \ {"load"} => mod.num_instruments = NumInstruments
  /\ pc = "load_patterns" => mod.num_samples = 0 /\ mod.samples_data_length = 0
  /\ HasWholeHeaders(file) =>
       /\ pc = "load_instruments" => AtInstrument
       /\ pc = "load_samples" => AtHeader
       /\ pc = "load_data" => AtData
       /\ pc = "loaded" => AtEnd

LEMMA HeaderIsWhole ==
  ASSUME Inv, HasWholeHeaders(file), NEW n \in 0 .. NumInstruments - 1
  PROVE  HeaderSamples(file.instruments[n]) = NumSamples(n)
BY FilesAssumption DEF Inv, IsFile, HasWholeHeaders, NumInstruments, NumSamples

(* What a file has to keep to, of one of its samples. *)
LEMMA SampleKeepsTo ==
  ASSUME Inv, NEW n \in 0 .. NumInstruments - 1, NEW k \in 0 .. NumSamples(n) - 1
  PROVE  LET s == FileSampleOf(n, k)
         IN  /\ IsFileSample(s)
             /\ HasNarrowLoops(file) => LoadedSample(s).length = PrescanLength(s)
             /\ HasWholeFrames(file) => Skipped(LoadedSample(s), s.flags) = s.length
<1>1. n \in Instruments(file) /\ IsFileInstrument(file.instruments[n])
  BY FilesAssumption DEF Inv, IsFile, NumInstruments
<1>2. k \in SamplesOf(file.instruments[n])
  BY <1>1 DEF IsFileInstrument, NumSamples
<1>3. IsFileSample(FileSampleOf(n, k))
  BY <1>1, <1>2 DEF IsFileInstrument, FileSampleOf
<1>4. HasNarrowLoops(file) => FileSampleOf(n, k).loop_start + FileSampleOf(n, k).loop_length < Words
  BY <1>1, <1>2 DEF HasNarrowLoops, FileSampleOf
<1>5. HasWholeFrames(file) =>
        ("16B" \in FileSampleOf(n, k).flags => FileSampleOf(n, k).length % 2 = 0)
  BY <1>1, <1>2 DEF HasWholeFrames, FileSampleOf
<1> QED
  BY <1>3, <1>4, <1>5, LoadedLength, SkippedWhole

(* The samples of an instrument have their place in the array. *)
LEMMA InstrumentFits ==
  ASSUME Inv, MarksInv, pc \in Created, NEW n \in 0 .. NumInstruments - 1
  PROVE  /\ NumSamples(n) \in Nat /\ n + 1 \in 0 .. NumInstruments
         /\ instrumentAt[n] \in InstrumentMark /\ instrumentAt[n + 1] \in InstrumentMark
         /\ out.num_samples \in Nat
         /\ instrumentAt[n + 1].num_samples = instrumentAt[n].num_samples + NumSamples(n)
         /\ instrumentAt[n + 1].num_samples <= out.num_samples
<1>1. /\ NumSamples(n) \in Nat /\ n \in 0 .. NumInstruments /\ n + 1 \in 0 .. NumInstruments
  BY InstrumentFacts
<1>2. instrumentAt[n] \in InstrumentMark /\ instrumentAt[n + 1] \in InstrumentMark
  BY <1>1 DEF MarksInv, MarksType
<1>3. Walked(n) /\ CountedUpTo(NumInstruments)
  BY DEF MarksInv
<1> QED
  BY <1>1, <1>2, <1>3, WidthsAssumption DEF Walked, Left, CountedUpTo

(* Where the marks around a sample are. *)
LEMMA SampleFits ==
  ASSUME Inv, MarksInv, pc \in Created,
         NEW n \in 0 .. NumInstruments - 1, NEW k \in 0 .. NumSamples(n)
  PROVE  /\ sampleAt[n][k] \in SampleMark
         /\ sampleAt[n][0].bytes = 0
         /\ sampleAt[n][0].samples_data_length = instrumentAt[n].samples_data_length
         /\ sampleAt[n][0].offset = U32(instrumentAt[n].offset + file.instruments[n].header_size)
         /\ sampleAt[n][k].offset < Words
<1>1. NumSamples(n) \in Nat /\ file.instruments[n].header_size \in Nat
  BY InstrumentFacts
<1>2. sampleAt[n] \in [0 .. NumSamples(n) -> SampleMark]
  BY DEF MarksInv, MarksType
<1>3. Walked(n) /\ instrumentAt[n] \in InstrumentMark
  BY InstrumentFits DEF MarksInv
<1>4. sampleAt[n][0].offset < Words
  BY <1>1, <1>3, U32Facts DEF Walked, Entered, InstrumentMark
<1>5. CASE k = 0
  BY <1>1, <1>2, <1>3, <1>4, <1>5 DEF Walked, Entered
<1>6. CASE k # 0
  <2>1. k - 1 \in 0 .. NumSamples(n) - 1 /\ k - 1 \in 0 .. NumSamples(n) /\ (k - 1) + 1 = k
    BY <1>1, <1>6
  <2>2. Passed(n, k - 1) /\ sampleAt[n][k - 1] \in SampleMark
    BY <1>2, <1>3, <2>1 DEF Walked
  <2>3. sampleAt[n][k].offset < Words
    BY <2>1, <2>2, U32Facts, LimitsAssumption DEF Passed, SampleMark
  <2> QED
    BY <1>1, <1>2, <1>3, <2>3 DEF Walked, Entered
<1> QED
  BY <1>5, <1>6

LEMMA InitWalkInv == Init => WalkInv
BY DEF Init, WalkInv, Created, Filled

LEMMA LeftWalkInv ==
  ASSUME WalkInv, UNCHANGED file, pc' \in {"refused", "lost", "failed"},
         pc # "prescan" \/ pc' = "refused", pc # "refused" \/ pc' = "refused"
  PROVE  WalkInv'
<1>1. pc' \notin Created /\ pc' \notin Filled
  BY DEF Created, Filled
<1> QED
  BY <1>1 DEF WalkInv, NumInstruments

LEMMA PrescanWalkInv == Inv /\ WalkInv /\ (Prescan \/ CreateContext) => WalkInv'
<1> SUFFICES ASSUME Inv, WalkInv, Prescan \/ CreateContext PROVE WalkInv'
  OBVIOUS
<1>1. CASE Refuse
  BY <1>1, LeftWalkInv DEF Refuse
<1>2. CASE Prescan /\ ~Refuse
  <2>1. /\ UNCHANGED file
        /\ pc' \in {"prescan_patterns", "prescan_instruments", "prescan_samples"}
        /\ pc \notin {"prescan", "refused"} \/ ~Unreadable
    BY <1>2
    DEF Prescan, PrescanHeader, PrescanPattern, PrescanOrders, PrescanInstrument,
        PrescanSample, PrescanData
  <2>2. NumInstruments' <= Bytes - 1
    BY <2>1, InstrumentFacts, WidthsAssumption DEF WalkInv, Unreadable, NumInstruments
  <2>3. pc' \notin Created
    BY <2>1 DEF Created, Filled
  <2> QED
    BY <2>1, <2>2, <2>3 DEF WalkInv, Created
<1>3. CASE CreateContext /\ ~Refuse
  <2>1. /\ pc = "prescan_instruments" /\ pc' = "load" /\ UNCHANGED file /\ UNCHANGED out
        /\ samples' = [k \in 0 .. out.num_samples - 1 |-> NoSampleData]
    BY <1>3 DEF CreateContext
  <2>2. Allocated'
    BY <2>1 DEF Allocated
  <2> QED
    BY <2>1, <2>2 DEF WalkInv, NumInstruments
<1> QED
  BY <1>1, <1>2, <1>3

LEMMA LoadPatternsWalkInv ==
  Inv /\ MarksInv /\ PlacesInv /\ WalkInv /\ (LoadHeader \/ LoadPattern \/ LoadOrders) => WalkInv'
<1> SUFFICES ASSUME Inv, MarksInv, PlacesInv, WalkInv, LoadHeader \/ LoadPattern \/ LoadOrders
             PROVE  WalkInv'
  OBVIOUS
<1>1. /\ UNCHANGED file /\ UNCHANGED out /\ UNCHANGED samples /\ UNCHANGED history
      /\ pc \in {"load", "load_patterns"}
  BY DEF LoadHeader, LoadPattern, LoadOrders
<1>2. /\ NumInstruments' = NumInstruments /\ NumInstruments <= Bytes - 1
      /\ Allocated' /\ NumInstruments \in Nat
  BY <1>1, InstrumentFacts DEF WalkInv, NumInstruments, Allocated, Created
<1>3. CASE LoadHeader
  <2>1. /\ pc' = "load_patterns"
        /\ mod' = [NoCounts EXCEPT !.length = ClampedLength,
                                   !.num_channels = U8(file.num_channels),
                                   !.num_patterns = file.num_patterns,
                                   !.num_instruments = U8(file.num_instruments)]
    BY <1>3 DEF LoadHeader
  <2>2. U8(file.num_instruments) = NumInstruments
    BY <1>2, WidthsAssumption DEF U8, NumInstruments
  <2>3. /\ mod'.num_samples = 0 /\ mod'.samples_data_length = 0
        /\ mod'.num_instruments = NumInstruments
    BY <2>1, <2>2 DEF NoCounts
  <2> QED
    BY <1>2, <2>1, <2>3 DEF WalkInv
<1>4. CASE LoadPattern \/ LoadOrders
  <2>1. /\ mod.num_instruments = NumInstruments /\ mod.num_samples = 0
        /\ mod.samples_data_length = 0
        /\ pc = "load_patterns" /\ IsCount(mod)
    BY <1>4 DEF WalkInv, LoadPattern, LoadOrders, Created, Inv
  <2>2. /\ mod'.num_instruments = mod.num_instruments /\ mod'.num_samples = mod.num_samples
        /\ mod'.samples_data_length = mod.samples_data_length
    <3>1. \/ mod' = mod
          \/ \E p : mod' = [mod EXCEPT !.num_rows = @ + NumRows(p)]
          \/ mod' = [mod EXCEPT !.num_patterns = @ + 1, !.num_rows = @ + EMPTY_PATTERN_NUM_ROWS]
      BY <1>4 DEF LoadPattern, LoadOrders
    <3> QED
      BY <2>1, <3>1 DEF IsCount
  <2>3. CASE LoadPattern
    <3>1. pc' = "load_patterns"
      BY <2>1, <2>3 DEF LoadPattern
    <3> QED
      BY <1>2, <2>1, <2>2, <3>1 DEF WalkInv
  <2>4. CASE LoadOrders
    <3>1. pc' = "load_instruments" /\ i' = 0 /\ i = NumPatterns /\ UNCHANGED offset
      BY <2>1, <2>4 DEF LoadOrders, Inv, HeaderIsLoaded
    <3>2. /\ instrumentAt[0].num_samples = 0 /\ instrumentAt[0].samples_data_length = 0
          /\ instrumentAt[0].offset = offset
      BY <2>1, <3>1
      DEF MarksInv, CountedUpTo, PlacesInv, Prescanned, Created
    <3>3. AtInstrument'
      BY <1>1, <1>2, <2>1, <2>2, <3>1, <3>2 DEF AtInstrument, history
    <3> QED
      BY <1>2, <2>1, <2>2, <3>1, <3>3 DEF WalkInv
  <2> QED
    BY <1>4, <2>3, <2>4
<1> QED
  BY <1>3, <1>4

(* The steps over an instrument, when nothing but their own conjunct of the *)
(* invariant is left to show.                                               *)
LEMMA WalksOn ==
  ASSUME WalkInv, pc \in Filled, UNCHANGED <<file, out>>,
         pc' \in Filled, DOMAIN samples' = DOMAIN samples,
         mod'.num_instruments = mod.num_instruments,
         HasWholeHeaders(file) =>
           \/ pc' = "load_instruments" /\ AtInstrument'
           \/ pc' = "load_samples" /\ AtHeader'
           \/ pc' = "load_data" /\ AtData'
           \/ pc' = "loaded" /\ AtEnd'
  PROVE  WalkInv'
<1>1. pc' \in Created \ {"load", "load_patterns"} /\ pc' \notin {"prescan", "refused"}
  BY DEF Created, Filled
<1>2. pc \in Created \ {"load"} /\ pc \notin {"prescan", "refused"}
  BY DEF Created, Filled
<1>3. NumInstruments' = NumInstruments /\ HasWholeHeaders(file)' = HasWholeHeaders(file)
  BY DEF NumInstruments
<1>4. Allocated'
  BY <1>2 DEF WalkInv, Allocated
<1> QED
  BY <1>1, <1>2, <1>3, <1>4 DEF WalkInv

LEMMA LoadEmptyInstrumentWalkInv ==
  Inv /\ MarksInv /\ WalkInv /\ LoadEmptyInstrument => WalkInv'
<1> SUFFICES ASSUME Inv, MarksInv, WalkInv, LoadEmptyInstrument PROVE WalkInv'
  OBVIOUS
<1>1. /\ pc = "load_instruments" /\ pc' = pc /\ i < mod.num_instruments
      /\ HeaderSamples(Instrument) = 0 /\ offset = instrumentAt[i].offset
      /\ offset' = U32(offset + Instrument.header_size) /\ i' = i + 1
      /\ UNCHANGED <<file, out, mod, samples, history>>
  BY DEF LoadEmptyInstrument
<1>2. ASSUME HasWholeHeaders(file) PROVE AtInstrument'
  <2>1. AtInstrument /\ i \in 0 .. NumInstruments - 1
    BY <1>1, <1>2, InstrumentFacts DEF WalkInv, AtInstrument, Created, Filled
  <2>2. PICK n \in 0 .. NumInstruments - 1 : n = i
    BY <2>1
  <2>3. NumSamples(n) = 0
    BY <1>1, <1>2, <2>2, HeaderIsWhole DEF Instrument
  <2>4. pc \in Created
    BY <1>1 DEF Created, Filled
  <2>5. Walked(n) /\ n + 1 \in 0 .. NumInstruments /\ instrumentAt[n] \in InstrumentMark
    BY <2>4, InstrumentFits DEF MarksInv
  <2>6. 0 \in 0 .. NumSamples(n) /\ file.instruments[n].header_size \in Nat
    BY <2>3, InstrumentFacts
  <2>7. /\ sampleAt[n][0].bytes = 0
        /\ sampleAt[n][0].samples_data_length = instrumentAt[n].samples_data_length
        /\ sampleAt[n][0].offset = U32(instrumentAt[n].offset + file.instruments[n].header_size)
        /\ sampleAt[n][0].offset < Words /\ sampleAt[n][0].offset \in Nat
    BY <2>4, <2>6, SampleFits DEF SampleMark
  <2>8. /\ instrumentAt[n + 1].num_samples = instrumentAt[n].num_samples
        /\ instrumentAt[n + 1].samples_data_length = instrumentAt[n].samples_data_length
        /\ instrumentAt[n + 1].offset = sampleAt[n][0].offset
    <3>1. U32(sampleAt[n][0].offset + 0) = sampleAt[n][0].offset
      BY <2>7, U32Facts
    <3>2. instrumentAt[n].num_samples + 0 = instrumentAt[n].num_samples
      BY <2>5 DEF InstrumentMark
    <3> QED
      BY <2>3, <2>5, <2>7, <3>1, <3>2 DEF Walked, Left
  <2>9. offset' = instrumentAt[n + 1].offset
    BY <1>1, <2>2, <2>7, <2>8 DEF Instrument
  <2> QED
    BY <1>1, <2>1, <2>2, <2>5, <2>8, <2>9 DEF AtInstrument, NumInstruments, history
<1> QED
  BY <1>1, <1>2, WalksOn DEF Filled

LEMMA LoadInstrumentWalkInv ==
  Inv /\ MarksInv /\ WalkInv /\ LoadInstrument => WalkInv'
<1> SUFFICES ASSUME Inv, MarksInv, WalkInv, LoadInstrument PROVE WalkInv'
  OBVIOUS
<1>1. /\ pc = "load_instruments" /\ pc' = "load_samples" /\ i < mod.num_instruments
      /\ HeaderSamples(Instrument) > 0 /\ offset = instrumentAt[i].offset
      /\ offset' = U32(offset + Instrument.header_size) /\ i' = i /\ j' = 0
      /\ mod' = [mod EXCEPT !.num_samples = @ + HeaderSamples(Instrument)]
      /\ UNCHANGED <<file, out, samples, history>>
  BY DEF LoadInstrument
<1>2. /\ mod'.num_samples = mod.num_samples + HeaderSamples(Instrument)
      /\ mod'.num_instruments = mod.num_instruments
      /\ mod'.samples_data_length = mod.samples_data_length
  BY <1>1 DEF Inv, IsCount
<1>3. ASSUME HasWholeHeaders(file) PROVE AtHeader'
  <2>1. AtInstrument /\ i \in 0 .. NumInstruments - 1
    BY <1>1, <1>3, InstrumentFacts DEF WalkInv, AtInstrument, Created, Filled
  <2>2. PICK n \in 0 .. NumInstruments - 1 : n = i
    BY <2>1
  <2>3. HeaderSamples(Instrument) = NumSamples(n) /\ NumSamples(n) \in Nat /\ NumSamples(n) > 0
    BY <1>1, <1>3, <2>2, HeaderIsWhole, InstrumentFacts DEF Instrument
  <2>4. pc \in Created /\ 0 \in 0 .. NumSamples(n)
    BY <1>1, <2>3 DEF Created, Filled
  <2>5. sampleAt[n][0].offset = U32(instrumentAt[n].offset + file.instruments[n].header_size)
    BY <2>4, SampleFits
  <2>6. offset' = sampleAt'[n][0].offset
    BY <1>1, <2>2, <2>5 DEF Instrument, history
  <2>7. InSamples'
    <3>1. 0 \in 0 .. NumSamples(n) - 1
      BY <2>3
    <3> QED
      BY <1>1, <1>2, <2>1, <2>2, <2>3, <3>1
      DEF InSamples, AtInstrument, NumInstruments, NumSamples, history
  <2>8. LoadedBetween(i, 0, j - 1)'
    BY <1>1 DEF LoadedBetween
  <2> QED
    BY <1>1, <1>2, <2>1, <2>2, <2>6, <2>7, <2>8 DEF AtHeader, AtInstrument, history
<1> QED
  BY <1>1, <1>2, <1>3, WalksOn DEF Filled

LEMMA LoadSampleHeaderWalkInv ==
  Inv /\ MarksInv /\ WalkInv /\ LoadSampleHeader => WalkInv'
<1> SUFFICES ASSUME Inv, MarksInv, WalkInv, LoadSampleHeader PROVE WalkInv'
  OBVIOUS
<1>1. /\ pc = "load_samples" /\ offset = sampleAt[i][j].offset
      /\ samples' = [samples EXCEPT ![Current] = LoadedSample(Sample)]
      /\ offset' = U32(offset + SAMPLE_HEADER_SIZE)
      /\ pc' = IF IsLast THEN "load_data" ELSE pc
      /\ j' = IF IsLast THEN 0 ELSE j + 1
      /\ UNCHANGED <<file, i, out, mod, history>>
  BY DEF LoadSampleHeader
<1>2. pc \in Filled /\ pc' \in Filled /\ pc \in Created
  BY <1>1 DEF Filled, Created
<1>3. ASSUME HasWholeHeaders(file)
      PROVE  IF IsLast THEN AtData' ELSE AtHeader'
  <2>1. AtHeader
    BY <1>1, <1>3 DEF WalkInv
  <2>2. PICK n \in 0 .. NumInstruments - 1 : n = i
    BY <2>1 DEF AtHeader, InSamples
  <2>3. PICK k \in 0 .. NumSamples(n) - 1 : k = j
    BY <2>1, <2>2 DEF AtHeader, InSamples
  <2> DEFINE base == instrumentAt[n].num_samples
  <2>4. /\ NumSamples(n) \in Nat /\ base \in Nat /\ out.num_samples \in Nat
        /\ base + NumSamples(n) <= out.num_samples
        /\ k \in 0 .. NumSamples(n) /\ k + 1 \in 0 .. NumSamples(n)
        /\ NumSamples(n) \in 0 .. NumSamples(n)
    BY <1>2, InstrumentFits DEF InstrumentMark
  <2>5. HeaderSamples(Instrument) = NumSamples(n) /\ Sample = FileSampleOf(n, k)
    BY <1>3, <2>2, <2>3, HeaderIsWhole DEF Instrument, Sample, FileSampleOf
  <2>6. Current = base + k /\ (IsLast <=> k + 1 = NumSamples(n))
    BY <2>1, <2>2, <2>3, <2>4, <2>5 DEF Current, IsLast, AtHeader, InSamples
  <2>7. Current \in DOMAIN samples
    <3>1. base + k \in 0 .. out.num_samples - 1
      BY <2>4
    <3>2. Allocated
      BY <1>2 DEF WalkInv
    <3> QED
      BY <2>6, <3>1, <3>2 DEF Allocated
  <2>8. ASSUME NEW l \in 0 .. k PROVE samples'[base + l] = LoadedSample(FileSampleOf(n, l))
    <3>1. CASE l = k
      BY <1>1, <2>5, <2>6, <2>7, <3>1
    <3>2. CASE l \in 0 .. k - 1
      <4>1. samples[base + l] = LoadedSample(FileSampleOf(n, l))
        BY <2>1, <2>2, <2>3, <3>2 DEF AtHeader, LoadedBetween
      <4>2. base + l # Current
        BY <2>4, <2>6, <3>2
      <4> QED
        BY <1>1, <4>1, <4>2
    <3> QED
      BY <3>1, <3>2
  <2>9. sampleAt[n][k + 1].offset = offset'
    <3>1. Passed(n, k)
      BY <1>2 DEF MarksInv, Walked
    <3> QED
      BY <1>1, <2>2, <2>3, <3>1 DEF Passed
  <2>10. CASE ~IsLast
    <3>1. k + 1 \in 0 .. NumSamples(n) - 1 /\ j' = k + 1 /\ i' = n
      BY <1>1, <2>2, <2>3, <2>4, <2>6, <2>10
    <3>2. InSamples'
      BY <1>1, <2>1, <2>2, <3>1
      DEF AtHeader, InSamples, NumInstruments, NumSamples, history
    <3>3. LoadedBetween(i, 0, j - 1)'
      <4>1. (j - 1)' = k
        BY <3>1
      <4> QED
        BY <1>1, <2>8, <3>1, <4>1 DEF LoadedBetween, FileSampleOf, history
    <3> QED
      BY <1>1, <2>1, <2>2, <2>9, <2>10, <3>1, <3>2, <3>3 DEF AtHeader, history
  <2>11. CASE IsLast
    <3>1. 0 \in 0 .. NumSamples(n) - 1 /\ j' = 0 /\ i' = n /\ k = NumSamples(n) - 1
      BY <1>1, <2>2, <2>3, <2>4, <2>6, <2>11
    <3>2. InSamples'
      BY <1>1, <2>1, <2>2, <3>1
      DEF AtHeader, InSamples, NumInstruments, NumSamples, history
    <3>3. LoadedBetween(i, j, NumSamples(i) - 1)'
      <4>1. (NumSamples(i) - 1)' = k
        BY <1>1, <3>1 DEF NumSamples
      <4> QED
        BY <1>1, <2>8, <3>1, <4>1 DEF LoadedBetween, FileSampleOf, history
    <3>4. /\ sampleAt[n][0].bytes = 0
          /\ sampleAt[n][0].samples_data_length = instrumentAt[n].samples_data_length
          /\ sampleAt[n][NumSamples(n)].offset < Words
          /\ sampleAt[n][NumSamples(n)].offset \in Nat
      BY <1>2, <2>4, SampleFits DEF SampleMark
    <3>5. offset' = U32(sampleAt[n][NumSamples(n)].offset + sampleAt[n][0].bytes)
      <4>1. k + 1 = NumSamples(n)
        BY <2>6, <2>11
      <4> QED
        BY <2>9, <3>4, <4>1, U32Facts
    <3>6. NumSamples(n)' = NumSamples(n)
      BY <1>1 DEF NumSamples
    <3>7. HasNarrowLoops(file)' =>
            mod'.samples_data_length = sampleAt'[n][0].samples_data_length
      BY <1>1, <2>1, <2>2, <3>4 DEF AtHeader, history
    <3>8. HasWholeFrames(file)' =>
            offset' = U32(sampleAt'[n][NumSamples(n)'].offset + sampleAt'[n][0].bytes)
      BY <1>1, <3>5, <3>6 DEF history
    <3> QED
      BY <2>11, <3>1, <3>2, <3>3, <3>7, <3>8 DEF AtData, NumSamples
  <2> QED
    BY <2>10, <2>11
<1> QED
  BY <1>1, <1>2, <1>3, WalksOn

LEMMA LoadSampleDataWalkInv ==
  Inv /\ MarksInv /\ WalkInv /\ LoadSampleData => WalkInv'
<1> SUFFICES ASSUME Inv, MarksInv, WalkInv, LoadSampleData PROVE WalkInv'
  OBVIOUS
<1>1. /\ pc = "load_data"
      /\ offset' = U32(offset + Skipped(samples[Current], Sample.flags))
      /\ samples' = [samples EXCEPT ![Current].index = mod.samples_data_length]
      /\ mod' = [mod EXCEPT !.samples_data_length = U32(@ + samples[Current].length)]
      /\ pc' = IF IsLast THEN "load_instruments" ELSE pc
      /\ j' = IF IsLast THEN 0 ELSE j + 1
      /\ i' = IF IsLast THEN i + 1 ELSE i
      /\ UNCHANGED <<file, out, history>>
  BY DEF LoadSampleData
<1>2. pc \in Filled /\ pc' \in Filled /\ pc \in Created
  BY <1>1 DEF Filled, Created
<1>3. /\ mod'.num_samples = mod.num_samples
      /\ mod'.num_instruments = mod.num_instruments
      /\ mod'.samples_data_length = U32(mod.samples_data_length + samples[Current].length)
  BY <1>1 DEF Inv, IsCount
<1>4. ASSUME HasWholeHeaders(file)
      PROVE  IF IsLast THEN AtInstrument' ELSE AtData'
  <2>1. AtData
    BY <1>1, <1>4 DEF WalkInv
  <2>2. PICK n \in 0 .. NumInstruments - 1 : n = i
    BY <2>1 DEF AtData, InSamples
  <2>3. PICK k \in 0 .. NumSamples(n) - 1 : k = j
    BY <2>1, <2>2 DEF AtData, InSamples
  <2> DEFINE base == instrumentAt[n].num_samples
             s == FileSampleOf(n, k)
             end == sampleAt[n][NumSamples(n)].offset
  <2>4. /\ NumSamples(n) \in Nat /\ base \in Nat /\ out.num_samples \in Nat
        /\ base + NumSamples(n) <= out.num_samples
        /\ k \in 0 .. NumSamples(n) /\ k + 1 \in 0 .. NumSamples(n)
        /\ NumSamples(n) \in 0 .. NumSamples(n) /\ n + 1 \in 0 .. NumInstruments
    BY <1>2, InstrumentFits DEF InstrumentMark
  <2>5. HeaderSamples(Instrument) = NumSamples(n) /\ Sample = s
    BY <1>4, <2>2, <2>3, HeaderIsWhole DEF Instrument, Sample, FileSampleOf
  <2>6. Current = base + k /\ (IsLast <=> k + 1 = NumSamples(n))
    BY <2>1, <2>2, <2>3, <2>4, <2>5 DEF Current, IsLast, AtData, InSamples
  <2>7. samples[Current] = LoadedSample(s)
    BY <2>1, <2>2, <2>3, <2>6 DEF AtData, LoadedBetween
  <2>8. ASSUME NEW l \in k + 1 .. NumSamples(n) - 1
        PROVE  samples'[base + l] = LoadedSample(FileSampleOf(n, l))
    <3>1. samples[base + l] = LoadedSample(FileSampleOf(n, l))
      BY <2>1, <2>2, <2>3 DEF AtData, LoadedBetween
    <3>2. base + l # Current
      BY <2>4, <2>6
    <3> QED
      BY <1>1, <3>1, <3>2
  <2>9. /\ sampleAt[n][k + 1].bytes = U32(sampleAt[n][k].bytes + s.length)
        /\ sampleAt[n][k + 1].samples_data_length =
             U32(sampleAt[n][k].samples_data_length + PrescanLength(s))
    <3>1. Passed(n, k)
      BY <1>2 DEF MarksInv, Walked
    <3> QED
      BY <3>1 DEF Passed
  <2>10. HasNarrowLoops(file) =>
           mod'.samples_data_length = sampleAt[n][k + 1].samples_data_length
    <3>1. HasNarrowLoops(file) => LoadedSample(s).length = PrescanLength(s)
      BY SampleKeepsTo
    <3> QED
      BY <1>3, <2>1, <2>2, <2>3, <2>7, <2>9, <3>1 DEF AtData
  <2>11. HasWholeFrames(file) => offset' = U32(end + sampleAt[n][k + 1].bytes)
    <3>1. /\ HasWholeFrames(file) => Skipped(LoadedSample(s), s.flags) = s.length
          /\ IsFileSample(s)
      BY SampleKeepsTo
    <3>2. s.length \in Nat
      BY <3>1, WidthsAssumption DEF IsFileSample, Word
    <3>3. end \in Nat /\ sampleAt[n][k].bytes \in Nat
      BY <1>2, <2>4, SampleFits DEF SampleMark
    <3>4. HasWholeFrames(file) => offset = U32(end + sampleAt[n][k].bytes)
      BY <2>1, <2>2, <2>3 DEF AtData
    <3>5. U32(U32(end + sampleAt[n][k].bytes) + s.length) =
            U32(end + U32(sampleAt[n][k].bytes + s.length))
      BY <3>2, <3>3, U32Sum
    <3> QED
      BY <1>1, <2>5, <2>7, <2>9, <3>1, <3>4, <3>5
  <2> HIDE DEF s
  <2>12. CASE ~IsLast
    <3>1. k + 1 \in 0 .. NumSamples(n) - 1 /\ j' = k + 1 /\ i' = n
      BY <1>1, <2>2, <2>3, <2>4, <2>6, <2>12
    <3>2. InSamples'
      BY <1>1, <1>3, <2>1, <2>2, <3>1
      DEF AtData, InSamples, NumInstruments, NumSamples, history
    <3>3. LoadedBetween(i, j, NumSamples(i) - 1)'
      BY <1>1, <2>8, <3>1 DEF LoadedBetween, FileSampleOf, NumSamples, history
    <3>4. NumSamples(n)' = NumSamples(n)
      BY <1>1 DEF NumSamples
    <3>5. HasNarrowLoops(file)' =>
            mod'.samples_data_length = sampleAt'[n][k + 1].samples_data_length
      BY <1>1, <2>10 DEF history
    <3>6. HasWholeFrames(file)' =>
            offset' = U32(sampleAt'[n][NumSamples(n)'].offset + sampleAt'[n][k + 1].bytes)
      BY <1>1, <2>11, <3>4 DEF history
    <3> QED
      BY <2>12, <3>1, <3>2, <3>3, <3>5, <3>6 DEF AtData, NumSamples
  <2>13. CASE IsLast
    <3>1. k + 1 = NumSamples(n) /\ i' = n + 1
      BY <1>1, <2>2, <2>6, <2>13
    <3>2. Left(n)
      BY <1>2 DEF MarksInv, Walked
    <3>3. /\ instrumentAt[n + 1].num_samples = base + NumSamples(n)
          /\ instrumentAt[n + 1].samples_data_length =
               sampleAt[n][NumSamples(n)].samples_data_length
          /\ instrumentAt[n + 1].offset = U32(end + sampleAt[n][NumSamples(n)].bytes)
      BY <3>2 DEF Left
    <3>4. mod'.num_samples = instrumentAt[n + 1].num_samples
      BY <1>3, <2>1, <2>2, <3>3 DEF AtData, InSamples
    <3>5. /\ HasNarrowLoops(file)' =>
               mod'.samples_data_length = instrumentAt'[n + 1].samples_data_length
          /\ HasWholeFrames(file)' => offset' = instrumentAt'[n + 1].offset
      BY <1>1, <2>10, <2>11, <3>1, <3>3 DEF history
    <3> QED
      BY <1>1, <2>4, <2>13, <3>1, <3>4, <3>5 DEF AtInstrument, NumInstruments, history
  <2> QED
    BY <2>12, <2>13
<1> QED
  BY <1>1, <1>2, <1>3, <1>4, WalksOn

LEMMA FinishWalkInv == Inv /\ MarksInv /\ WalkInv /\ (FailInstrument \/ Finish \/ Lose) => WalkInv'
<1> SUFFICES ASSUME Inv, MarksInv, WalkInv, FailInstrument \/ Finish \/ Lose PROVE WalkInv'
  OBVIOUS
<1>1. CASE Lose \/ FailInstrument
  BY <1>1, LeftWalkInv DEF Lose, Strays, FailInstrument
<1>2. CASE Finish
  <2>1. /\ pc = "load_instruments" /\ pc' = "loaded" /\ i = mod.num_instruments
        /\ UNCHANGED <<file, i, offset, out, mod, samples, history>>
    BY <1>2 DEF Finish, loaded
  <2>2. pc \in Filled /\ pc' \in Filled /\ pc \in Created \ {"load"}
    BY <2>1 DEF Filled, Created
  <2>3. i = NumInstruments
    BY <2>1, <2>2 DEF WalkInv
  <2>4. /\ instrumentAt[NumInstruments].num_samples = out.num_samples
        /\ instrumentAt[NumInstruments].samples_data_length = out.samples_data_length
    BY <2>2 DEF MarksInv
  <2>5. HasWholeHeaders(file) => AtEnd'
    BY <2>1, <2>3, <2>4 DEF WalkInv, AtInstrument, AtEnd
  <2> QED
    BY <2>1, <2>2, <2>5, WalksOn
<1> QED
  BY <1>1, <1>2

LEMMA NextWalkInv == Inv /\ MarksInv /\ PlacesInv /\ WalkInv /\ [Next]_vars => WalkInv'
<1> SUFFICES ASSUME Inv, MarksInv, PlacesInv, WalkInv, [Next]_vars PROVE WalkInv'
  OBVIOUS
<1>1. CASE Prescan \/ CreateContext
  BY <1>1, PrescanWalkInv
<1>2. CASE Load /\ ~CreateContext
  BY <1>2, LoadPatternsWalkInv, LoadEmptyInstrumentWalkInv, LoadInstrumentWalkInv,
     LoadSampleHeaderWalkInv, LoadSampleDataWalkInv, FinishWalkInv
  DEF Load
<1>3. CASE UNCHANGED vars
  <2>1. UNCHANGED <<file, pc, i, j, offset, out, mod, samples, instrumentAt, sampleAt>>
    BY <1>3 DEF vars, walk, loaded, history
  <2>2. /\ AtInstrument' = AtInstrument /\ AtHeader' = AtHeader /\ AtData' = AtData
        /\ AtEnd' = AtEnd /\ Allocated' = Allocated /\ NumInstruments' = NumInstruments
    BY <2>1
    DEF AtInstrument, AtHeader, AtData, AtEnd, Allocated, InSamples, LoadedBetween,
        NumInstruments, NumSamples, FileSampleOf
  <2> QED
    BY <2>1, <2>2 DEF WalkInv
<1> QED
  BY <1>1, <1>2, <1>3 DEF Next

LEMMA SpecWalkInv == Spec => [](Inv /\ MarksInv /\ PlacesInv /\ WalkInv)
<1>1. Init => Inv /\ MarksInv /\ PlacesInv /\ WalkInv
  BY InitInv, InitMarksInv, InitPlacesInv, InitWalkInv
<1>2. Inv /\ MarksInv /\ PlacesInv /\ WalkInv /\ [Next]_vars
        => (Inv /\ MarksInv /\ PlacesInv /\ WalkInv)'
  BY NextInv, NextMarksInv, NextPlacesInv, NextWalkInv
<1> QED
  BY <1>1, <1>2, PTL DEF Spec

(* Only an autovibrato with a waveform FT2 does not have stops the second   *)
(* walk at an assertion.                                                    *)
VibratosInv ==
  /\ pc \in Created \ {"load"} => i \in Nat
  /\ HasWaveforms(file) => pc # "failed"

LEMMA NextVibratosInv == Inv /\ WalkInv /\ VibratosInv /\ [Next]_vars => VibratosInv'
<1> SUFFICES ASSUME Inv, WalkInv, VibratosInv, [Next]_vars PROVE VibratosInv'
  OBVIOUS
<1>1. HasWaveforms(file)' = HasWaveforms(file) /\ file' = file
  <2>1. file' = file
    BY Zenon
    DEF Next, Prescan, PrescanHeader, PrescanPattern, PrescanOrders, PrescanInstrument,
        PrescanSample, PrescanData, CreateContext, Refuse, Load, LoadHeader, LoadPattern,
        LoadOrders, LoadEmptyInstrument, LoadInstrument, LoadSampleHeader, LoadSampleData,
        FailInstrument, Finish, Lose, vars
  <2> QED
    BY <2>1 DEF HasWaveforms
<1>2. CASE FailInstrument
  <2>1. /\ pc = "load_instruments" /\ i < mod.num_instruments /\ pc' = "failed"
        /\ VibratoType(Instrument) >= Waveforms
    BY <1>2 DEF FailInstrument
  <2>2. i \in 0 .. NumInstruments - 1
    BY <2>1, InstrumentFacts DEF WalkInv, VibratosInv, Created, Filled
  <2>3. i \in Instruments(file) /\ IsFileInstrument(Instrument)
    BY <2>2, FilesAssumption DEF Inv, IsFile, NumInstruments, Instrument
  <2>4. VibratoType(Instrument) \in Nat
    BY <2>3, WidthsAssumption DEF IsFileInstrument, VibratoType, Byte
  <2>5. ~HasWaveforms(file)
    BY <2>1, <2>3, <2>4, LimitsAssumption DEF HasWaveforms, Instrument
  <2> QED
    BY <1>1, <2>1, <2>5 DEF VibratosInv, Created, Filled
<1>3. CASE [Next]_vars /\ ~FailInstrument
  <2>1. /\ pc' = "failed" => pc = "failed"
        /\ pc' \in Created \ {"load"} =>
             i' = 0 \/ (pc \in Created \ {"load"} /\ i' \in {i, i + 1})
    BY <1>3
    DEF Next, Prescan, PrescanHeader, PrescanPattern, PrescanOrders, PrescanInstrument,
        PrescanSample, PrescanData, CreateContext, Refuse, Load, LoadHeader, LoadPattern,
        LoadOrders, LoadEmptyInstrument, LoadInstrument, LoadSampleHeader, LoadSampleData,
        Finish, Lose, vars, walk, Created, Filled
  <2> QED
    BY <1>1, <2>1 DEF VibratosInv
<1> QED
  BY <1>2, <1>3

(* The assertions of xm_load_xm0104_pattern(), of the code that adds the    *)
(* blank pattern and of xm_load_xm0104_instrument() hold, unless a pattern  *)
(* without data is declared longer than a pattern may be, or an autovibrato *)
(* has a waveform FT2 does not have.                                        *)
THEOREM AssertionsAlwaysHold == Spec => []AssertionsHold
<1>1. Init => VibratosInv
  BY DEF Init, VibratosInv, Created, Filled
<1>2. VibratosInv => (HasWaveforms(file) => pc # "failed")
  BY DEF VibratosInv
<1> QED
  BY <1>1, <1>2, SpecWalkInv, NextVibratosInv, InvAssertionsHold, PTL DEF Spec

LEMMA WalkInvHeadersAreFound ==
  Inv /\ MarksInv /\ PlacesInv /\ WalkInv => HeadersAreFound
<1> SUFFICES ASSUME Inv, MarksInv, PlacesInv, WalkInv,
                    HasWholeHeaders(file), HasWholeFrames(file)
             PROVE  /\ ~Strays
                    /\ pc = "load_data" =>
                         offset = U32(sampleAt[i][Instrument.num_samples].offset
                                        + sampleAt[i][j].bytes)
  BY DEF HeadersAreFound
<1>1. ~Strays
  BY DEF Strays, PlacesInv, WalkInv, AtInstrument, AtHeader
<1>2. pc = "load_data" =>
        offset = U32(sampleAt[i][Instrument.num_samples].offset + sampleAt[i][j].bytes)
  BY DEF WalkInv, AtData, NumSamples, Instrument
<1> QED
  BY <1>1, <1>2

(* If the headers of the instruments are as long as their number of samples *)
(* asks for, and 16-bit samples have an even number of bytes, the second    *)
(* walk reads every header where the first one found it, and the data of    *)
(* every sample where the sum of the lengths before it puts it.             *)
THEOREM HeadersAreAlwaysFound == Spec => []HeadersAreFound
BY SpecWalkInv, WalkInvHeadersAreFound, PTL

-----------------------------------------------------------------------------
(* The counts of both walks that are not about samples.  Only a table that  *)
(* the file cuts short makes them differ on the blank pattern.              *)
CountsPatterns(c) ==
  IF NeedsBlank
  THEN c.num_patterns = NumPatterns + 1
         /\ c.num_rows = Rows(NumPatterns) + EMPTY_PATTERN_NUM_ROWS
  ELSE c.num_patterns = NumPatterns /\ c.num_rows = Rows(NumPatterns)
CountsChannels(c) ==
  c.num_channels = file.num_channels /\ c.num_instruments = NumInstruments

CountsInv ==
  /\ pc \notin {"prescan", "refused"} =>
       file.num_channels <= Bytes - 1 /\ NumInstruments <= Bytes - 1 /\ CountsChannels(out)
  /\ pc \in Prescanned =>
       out.length = ClampedLength /\ (HasWholeTable(file) => CountsPatterns(out))
  /\ pc \in Created \ {"load"} => mod.length = ClampedLength /\ CountsChannels(mod)
  /\ pc \in Filled => CountsPatterns(mod)

SameCounts(c, d) ==
  /\ d.length = c.length /\ d.num_channels = c.num_channels
  /\ d.num_instruments = c.num_instruments /\ d.num_patterns = c.num_patterns
  /\ d.num_rows = c.num_rows

LEMMA CountsKept ==
  ASSUME CountsInv, UNCHANGED <<file, patternAt>>, SameCounts(out, out'), SameCounts(mod, mod'),
         \/ pc' = "refused"
         \/ pc \in Prescanned /\ pc' \in Prescanned \ Created
         \/ pc \in Filled /\ pc' \in Filled \union {"lost", "failed"}
         \/ pc = "load_patterns" /\ pc' \in {"lost", "failed"}
         \/ pc = "load_patterns" /\ pc' = pc
         \/ pc' = pc
         \/ pc \in Prescanned /\ pc' = "load"
  PROVE  CountsInv'
<1>1. NeedsBlank' = NeedsBlank /\ ClampedLength' = ClampedLength /\ NumPatterns' = NumPatterns
      /\ Rows(NumPatterns)' = Rows(NumPatterns) /\ NumInstruments' = NumInstruments
  BY DEF NeedsBlank, ClampedLength, IsInvalid, TableEntry, NumPatterns, Rows, NumInstruments
<1>2. /\ CountsPatterns(out)' = CountsPatterns(out) /\ CountsPatterns(mod)' = CountsPatterns(mod)
      /\ CountsChannels(out)' = CountsChannels(out) /\ CountsChannels(mod)' = CountsChannels(mod)
  BY <1>1 DEF CountsPatterns, CountsChannels, SameCounts
<1>3. out'.length = out.length /\ mod'.length = mod.length
  BY DEF SameCounts
<1> QED
  BY <1>1, <1>2, <1>3 DEF CountsInv, Prescanned, Created, Filled

LEMMA InitCountsInv == Init => CountsInv
BY DEF Init, CountsInv, Prescanned, Created, Filled

LEMMA PrescanOrdersCountsInv == Inv /\ CountsInv /\ PrescanOrders => CountsInv'
<1> SUFFICES ASSUME Inv, CountsInv, PrescanOrders PROVE CountsInv'
  OBVIOUS
<1>1. PICK garbage \in Garbage :
        IF HasNoRoom(garbage) THEN Refuse
        ELSE /\ pc' = "prescan_instruments"
             /\ out' = IF InvalidOrders(garbage)
                       THEN [out EXCEPT !.length = ClampedLength,
                                        !.num_rows = @ + EMPTY_PATTERN_NUM_ROWS,
                                        !.num_patterns = @ + 1]
                       ELSE [out EXCEPT !.length = ClampedLength]
             /\ UNCHANGED <<file, mod, patternAt>>
  BY DEF PrescanOrders, loaded
<1>2. CASE HasNoRoom(garbage)
  BY <1>1, <1>2, CountsKept DEF Refuse, loaded, history, SameCounts
<1>3. CASE ~HasNoRoom(garbage)
  <2>1. /\ pc = "prescan_patterns" /\ i = NumPatterns /\ IsCount(out)
        /\ out.num_patterns = NumPatterns /\ out.num_rows = Rows(NumPatterns)
        /\ UNCHANGED <<file, mod, patternAt>> /\ pc' = "prescan_instruments"
    BY <1>1, <1>3 DEF Inv, PrescanOrders, NumPatterns
  <2>2. /\ out'.length = ClampedLength /\ out'.num_channels = out.num_channels
        /\ out'.num_instruments = out.num_instruments
        /\ IF InvalidOrders(garbage)
           THEN out'.num_patterns = NumPatterns + 1
                  /\ out'.num_rows = Rows(NumPatterns) + EMPTY_PATTERN_NUM_ROWS
           ELSE out'.num_patterns = NumPatterns /\ out'.num_rows = Rows(NumPatterns)
    BY <1>1, <1>3, <2>1 DEF IsCount
  <2>3. ClampedLength' = ClampedLength /\ NeedsBlank' = NeedsBlank /\ NumPatterns' = NumPatterns
        /\ Rows(NumPatterns)' = Rows(NumPatterns) /\ NumInstruments' = NumInstruments
    BY <2>1 DEF ClampedLength, NeedsBlank, IsInvalid, TableEntry, NumPatterns, Rows, NumInstruments
  <2>4. HasWholeTable(file) => (InvalidOrders(garbage) <=> NeedsBlank)
    <3>1. ASSUME HasWholeTable(file), NEW e \in 0 .. ClampedLength - 1
          PROVE  (IF e < file.table_bytes THEN file.pattern_table[e] ELSE garbage) = TableEntry(e)
      <4>1. e < file.table_bytes
        BY <3>1, FileInv, LimitsAssumption DEF HasWholeTable
      <4> QED
        BY <4>1 DEF TableEntry
    <3> QED
      BY <3>1 DEF InvalidOrders, NeedsBlank
  <2>5. HasWholeTable(file)' => CountsPatterns(out)'
    BY <2>1, <2>2, <2>3, <2>4 DEF CountsPatterns
  <2>6. pc' \in Prescanned \ Created /\ pc' \notin Filled /\ pc' \notin {"prescan", "refused"}
    BY <2>1 DEF Prescanned, Created, Filled
  <2>7. CountsChannels(out)' /\ file'.num_channels <= Bytes - 1 /\ NumInstruments' <= Bytes - 1
    BY <2>1, <2>2, <2>3 DEF CountsInv, CountsChannels
  <2> QED
    BY <2>1, <2>2, <2>3, <2>5, <2>6, <2>7 DEF CountsInv
<1> QED
  BY <1>2, <1>3

LEMMA PrescanCountsInv == Inv /\ CountsInv /\ (Prescan \/ CreateContext) => CountsInv'
<1> SUFFICES ASSUME Inv, CountsInv, Prescan \/ CreateContext PROVE CountsInv'
  OBVIOUS
<1>1. CASE Refuse
  BY <1>1, CountsKept DEF Refuse, loaded, history, SameCounts
<1>2. CASE PrescanHeader /\ ~Refuse
  <2>1. /\ ~Unreadable /\ pc' = "prescan_patterns" /\ UNCHANGED file
        /\ out' = [NoCounts EXCEPT !.length = file.length,
                                   !.num_channels = file.num_channels,
                                   !.num_patterns = file.num_patterns,
                                   !.num_instruments = file.num_instruments]
    BY <1>2 DEF PrescanHeader
  <2>2. file.num_channels <= Bytes - 1 /\ NumInstruments <= Bytes - 1
    <3>1. file.num_channels \in Nat /\ NumInstruments \in Nat
      BY InstrumentFacts, FilesAssumption, WidthsAssumption DEF Inv, IsFile, Short
    <3> QED
      BY <2>1, <3>1, WidthsAssumption DEF Unreadable, NumInstruments
  <2>3. CountsChannels(out)'
    BY <2>1 DEF CountsChannels, NoCounts, NumInstruments
  <2> QED
    BY <2>1, <2>2, <2>3 DEF CountsInv, Prescanned, Created, Filled, NumInstruments
<1>3. CASE PrescanPattern /\ ~Refuse
  <2>1. /\ pc = "prescan_patterns" /\ pc' = pc /\ UNCHANGED file
        /\ out' = [out EXCEPT !.num_rows = @ + NumRows(file.patterns[i])]
    BY <1>3 DEF PrescanPattern
  <2>2. out'.num_channels = out.num_channels /\ out'.num_instruments = out.num_instruments
    BY <2>1 DEF Inv, IsCount
  <2> QED
    BY <2>1, <2>2 DEF CountsInv, CountsChannels, Prescanned, Created, Filled, NumInstruments
<1>4. CASE PrescanOrders
  BY <1>4, PrescanOrdersCountsInv
<1>5. CASE (PrescanInstrument \/ PrescanSample \/ PrescanData \/ CreateContext) /\ ~Refuse
  <2>1. /\ pc \in Prescanned /\ pc' \in (Prescanned \ Created) \union {"load"}
        /\ UNCHANGED <<file, patternAt, mod>>
    BY <1>5
    DEF PrescanInstrument, PrescanSample, PrescanData, CreateContext, Prescanned, Created,
        Filled, history, loaded
  <2>2. \/ out' = out
        \/ out' = [out EXCEPT !.num_samples = @ + Instrument.num_samples]
        \/ out' = [out EXCEPT !.samples_data_length = U32(@ + PrescanLength(Sample))]
    BY <1>5 DEF PrescanInstrument, PrescanSample, PrescanData, CreateContext
  <2>3. SameCounts(out, out') /\ SameCounts(mod, mod')
    BY <2>1, <2>2 DEF Inv, IsCount, SameCounts
  <2> QED
    BY <2>1, <2>3, CountsKept
<1> QED
  BY <1>1, <1>2, <1>3, <1>4, <1>5 DEF Prescan

LEMMA LoadCountsInv == Inv /\ CountsInv /\ Load /\ ~CreateContext => CountsInv'
<1> SUFFICES ASSUME Inv, CountsInv, Load, ~CreateContext PROVE CountsInv'
  OBVIOUS
<1>1. UNCHANGED <<file, patternAt, out>>
  BY Zenon
  DEF Load, LoadHeader, LoadPattern, LoadOrders, LoadEmptyInstrument, LoadInstrument,
      LoadSampleHeader, LoadSampleData, FailInstrument, Finish, Lose, history
<1>2. ClampedLength' = ClampedLength /\ NeedsBlank' = NeedsBlank /\ NumPatterns' = NumPatterns
      /\ Rows(NumPatterns)' = Rows(NumPatterns) /\ NumInstruments' = NumInstruments
  BY <1>1 DEF ClampedLength, NeedsBlank, IsInvalid, TableEntry, NumPatterns, Rows, NumInstruments
<1>3. CountsChannels(out)' = CountsChannels(out) /\ CountsPatterns(out)' = CountsPatterns(out)
  BY <1>1, <1>2 DEF CountsChannels, CountsPatterns
<1>4. CASE LoadHeader
  <2>1. /\ pc = "load" /\ pc' = "load_patterns"
        /\ mod' = [NoCounts EXCEPT !.length = ClampedLength,
                                   !.num_channels = U8(file.num_channels),
                                   !.num_patterns = file.num_patterns,
                                   !.num_instruments = U8(file.num_instruments)]
    BY <1>4 DEF LoadHeader
  <2>2. U8(file.num_channels) = file.num_channels /\ U8(file.num_instruments) = NumInstruments
    <3>1. file.num_channels \in Nat /\ NumInstruments \in Nat
      BY InstrumentFacts, FilesAssumption, WidthsAssumption DEF Inv, IsFile, Short
    <3>2. file.num_channels <= Bytes - 1 /\ NumInstruments <= Bytes - 1
      BY <2>1 DEF CountsInv
    <3> QED
      BY <3>1, <3>2, WidthsAssumption DEF U8, NumInstruments
  <2>3. mod'.length = ClampedLength /\ CountsChannels(mod)'
    BY <1>1, <1>2, <2>1, <2>2 DEF NoCounts, CountsChannels
  <2> QED
    BY <1>1, <1>2, <1>3, <2>1, <2>3 DEF CountsInv, Prescanned, Created, Filled
<1>5. CASE LoadPattern
  <2>1. /\ pc = "load_patterns" /\ pc' = pc
        /\ mod' = [mod EXCEPT !.num_rows = @ + NumRows(file.patterns[i])]
    BY <1>5 DEF LoadPattern
  <2>2. mod'.length = mod.length /\ CountsChannels(mod)' = CountsChannels(mod)
    BY <1>1, <1>2, <2>1 DEF Inv, IsCount, CountsChannels
  <2> QED
    BY <1>1, <1>2, <1>3, <2>1, <2>2 DEF CountsInv, Prescanned, Created, Filled
<1>6. CASE LoadOrders
  <2> DEFINE blank == \E e \in 0 .. mod.length - 1 : IsInvalid(header.pattern_table[e])
  <2>1. /\ pc = "load_patterns" /\ i = NumPatterns /\ pc' = "load_instruments"
        /\ mod.num_patterns = NumPatterns /\ mod.num_rows = Rows(NumPatterns)
        /\ mod.length = ClampedLength /\ HeaderIsLoaded /\ IsCount(mod)
        /\ IF blank THEN mod' = [mod EXCEPT !.num_patterns = @ + 1,
                                            !.num_rows = @ + EMPTY_PATTERN_NUM_ROWS]
           ELSE mod' = mod
    BY <1>6 DEF LoadOrders, Inv, HeaderIsLoaded
  <2>2. blank <=> NeedsBlank
    <3>1. header.pattern_table = [e \in Order |-> TableEntry(e)]
      BY <2>1 DEF HeaderIsLoaded
    <3>2. ClampedLength \in 0 .. PATTERN_ORDER_TABLE_LENGTH /\ PATTERN_ORDER_TABLE_LENGTH \in Nat
      BY FileInv, LimitsAssumption
    <3>3. \A e \in 0 .. ClampedLength - 1 : e \in Order
      BY <3>2 DEF Order
    <3> QED
      BY <2>1, <3>1, <3>3 DEF NeedsBlank
  <2> HIDE DEF blank
  <2>3. CountsPatterns(mod)'
    BY <1>1, <1>2, <2>1, <2>2 DEF CountsPatterns, IsCount
  <2>4. mod'.length = mod.length /\ CountsChannels(mod)' = CountsChannels(mod)
    BY <1>1, <1>2, <2>1 DEF IsCount, CountsChannels
  <2> QED
    BY <1>1, <1>2, <1>3, <2>1, <2>3, <2>4 DEF CountsInv, Prescanned, Created, Filled
<1>7. CASE LoadEmptyInstrument \/ LoadInstrument \/ LoadSampleHeader \/ LoadSampleData \/ Finish
  <2>1. pc \in Filled /\ pc' \in Filled
    BY <1>7
    DEF LoadEmptyInstrument, LoadInstrument, LoadSampleHeader, LoadSampleData, Finish, Filled
  <2>2. \/ mod' = mod
        \/ mod' = [mod EXCEPT !.num_samples = @ + HeaderSamples(Instrument)]
        \/ mod' = [mod EXCEPT !.samples_data_length = U32(@ + samples[Current].length)]
    BY <1>7
    DEF LoadEmptyInstrument, LoadInstrument, LoadSampleHeader, LoadSampleData, Finish, loaded
  <2>3. SameCounts(mod, mod') /\ SameCounts(out, out')
    BY <1>1, <2>2 DEF Inv, IsCount, SameCounts
  <2> QED
    BY <1>1, <2>1, <2>3, CountsKept
<1>8. CASE Lose \/ FailInstrument
  BY <1>1, <1>8, CountsKept DEF Lose, Strays, FailInstrument, Filled, loaded, SameCounts
<1> QED
  BY <1>4, <1>5, <1>6, <1>7, <1>8 DEF Load

LEMMA NextCountsInv == Inv /\ CountsInv /\ [Next]_vars => CountsInv'
<1> SUFFICES ASSUME Inv, CountsInv, [Next]_vars PROVE CountsInv'
  OBVIOUS
<1>1. CASE Prescan \/ CreateContext
  BY <1>1, PrescanCountsInv
<1>2. CASE Load /\ ~CreateContext
  BY <1>2, LoadCountsInv
<1>3. CASE UNCHANGED vars
  BY <1>3, CountsKept DEF vars, walk, loaded, history, SameCounts
<1> QED
  BY <1>1, <1>2, <1>3 DEF Next

LEMMA SpecCountsInv == Spec => []CountsInv
BY SpecInv, InitCountsInv, NextCountsInv, PTL DEF Spec

LEMMA CountsInvWalksAgree == Inv /\ WalkInv /\ CountsInv => WalksAgree
<1> SUFFICES ASSUME Inv, WalkInv, CountsInv,
                    pc = "loaded", HasWholeTable(file), HasWholeHeaders(file),
                    HasNarrowLoops(file)
             PROVE  mod = out
  BY DEF WalksAgree
<1>1. /\ mod.num_samples = out.num_samples
      /\ mod.samples_data_length = out.samples_data_length
  BY DEF WalkInv, AtEnd
<1>2. CountsPatterns(mod) /\ CountsPatterns(out) /\ CountsChannels(mod) /\ CountsChannels(out)
      /\ mod.length = out.length
  BY DEF CountsInv, Prescanned, Created, Filled
<1>3. mod.num_patterns = out.num_patterns /\ mod.num_rows = out.num_rows
      /\ mod.num_channels = out.num_channels /\ mod.num_instruments = out.num_instruments
  BY <1>2 DEF CountsPatterns, CountsChannels
<1> QED
  BY <1>1, <1>2, <1>3 DEF Inv, IsCount

(* The assertions at the end of xm_create_context() hold: what the second   *)
(* walk has loaded is as much as the first one counted, and the context was *)
(* allocated for, if the order table and the headers of the instruments are *)
(* whole and no loop wraps.                                                 *)
THEOREM WalksAlwaysAgree == Spec => []WalksAgree
BY SpecWalkInv, SpecCountsInv, CountsInvWalksAgree, PTL

-----------------------------------------------------------------------------
(* The samples.  Their frames are numbered in 32 bits: the file does not    *)
(* have more of them than that.                                             *)
FramesFit == out.num_samples * MAX_SAMPLE_LENGTH < Words

(* How many samples have had their data read. *)
Done == IF pc = "loaded" THEN out.num_samples
        ELSE instrumentAt[i].num_samples + (IF pc = "load_data" THEN j ELSE 0)

IsWholeSample(smp) ==
  /\ smp.length \in Nat /\ smp.loop_length <= smp.length
  /\ smp.length <= IF smp.ping_pong THEN MAX_SAMPLE_LENGTH \div 2 ELSE MAX_SAMPLE_LENGTH
Chained(d) ==
  /\ mod.samples_data_length \in Nat /\ mod.samples_data_length <= d * MAX_SAMPLE_LENGTH
  /\ \A k \in 0 .. d - 1 :
       /\ IsWholeSample(samples[k])
       /\ samples[k].index + samples[k].length =
            IF k + 1 = d THEN mod.samples_data_length ELSE samples[k + 1].index

ChainInv ==
  HasWholeHeaders(file) /\ HasNarrowLoops(file) /\ FramesFit /\ pc \in Filled => Chained(Done)

(* A note plays the sample its instrument names for it, or none. *)
Noted(n) ==
  \A x \in Note :
    LET instrument == file.instruments[n]
    IN  sample_of_notes[n][x] = SampleOfNote(instrument, x, instrumentAt[n].num_samples)
NotedUpTo(n) == \A m \in 0 .. n - 1 : Noted(m)

NotesInv ==
  /\ pc \in Created => DOMAIN sample_of_notes = 0 .. NumInstruments - 1
  /\ HasWholeHeaders(file) =>
       /\ pc = "load_instruments" => NotedUpTo(i)
       /\ pc \in {"load_samples", "load_data"} => NotedUpTo(i + 1)
       /\ pc = "loaded" => NotedUpTo(NumInstruments)

(* A loop that does not wrap is inside of its sample once it is fixed.      *)
LEMMA LoadedIsWhole ==
  ASSUME NEW s, IsFileSample(s), s.loop_start + s.loop_length < Words,
         PrescanLength(s) <= MaxLength(s.flags)
  PROVE  IsWholeSample(LoadedSample(s))
<1>1. /\ s.length \in Nat /\ s.length < Words /\ Words \in Nat
      /\ s.loop_start \in Nat /\ s.loop_length \in Nat
  BY WidthsAssumption DEF IsFileSample, Word
<1>2. \A n \in Nat : n < Words => U32(n) = n
  BY U32Facts
<1> DEFINE trimmed == TrimSampleLength(s.length, LoopStart(s), LoopLength(s), s.flags)
<1>3. LoopStart(s) \in Nat /\ LoopStart(s) <= s.length /\ LoopStart(s) <= s.loop_start
  BY <1>1 DEF LoopStart
<1>4. U32(LoopStart(s) + s.loop_length) = LoopStart(s) + s.loop_length
  BY <1>1, <1>2, <1>3
<1>5. LoopLength(s) \in Nat /\ LoopStart(s) + LoopLength(s) <= s.length
  BY <1>1, <1>3, <1>4 DEF LoopLength
<1>6. U32(LoopStart(s) + LoopLength(s)) = LoopStart(s) + LoopLength(s)
  BY <1>1, <1>2, <1>3, <1>5
<1>7. trimmed \in Nat /\ (Loops(s.flags) => LoopLength(s) <= trimmed)
  BY <1>1, <1>3, <1>5, <1>6 DEF TrimSampleLength
<1>8. \A a, b \in Nat : a <= b => a \div 2 <= b \div 2 /\ a \div 2 \in Nat /\ b \div 2 \in Nat
  OBVIOUS
<1>9. LoadedSample(s).loop_length <= LoadedSample(s).length
  BY <1>5, <1>7, <1>8 DEF LoadedSample, Frames
<1>10. LoadedSample(s).length = PrescanLength(s) /\ PrescanLength(s) \in Nat
  BY LoadedLength, PrescanLengthType
<1>11. LoadedSample(s).ping_pong <=> "PING_PONG" \in s.flags
  BY DEF LoadedSample
<1> QED
  BY <1>9, <1>10, <1>11 DEF IsWholeSample, MaxLength

(* What is added at the end of the samples does not disturb them.           *)
LEMMA ChainKept ==
  ASSUME NEW d \in Nat, Chained(d), mod'.samples_data_length = mod.samples_data_length,
         \A k \in 0 .. d - 1 : samples'[k] = samples[k]
  PROVE  Chained(d)'
<1>1. ASSUME NEW k \in 0 .. d - 1
      PROVE  samples'[k].index + samples'[k].length =
               IF k + 1 = d THEN mod'.samples_data_length ELSE samples'[k + 1].index
  <2>1. CASE k + 1 = d
    BY <2>1 DEF Chained
  <2>2. CASE k + 1 # d
    <3>1. k + 1 \in 0 .. d - 1
      BY <2>2
    <3> QED
      BY <2>2, <3>1 DEF Chained
  <2> QED
    BY <2>1, <2>2
<1> QED
  BY <1>1 DEF Chained

LEMMA ChainGrows ==
  ASSUME NEW d \in Nat, Chained(d), d + 1 <= out.num_samples, out.num_samples \in Nat, FramesFit,
         d \in DOMAIN samples, IsWholeSample(samples[d]),
         samples' = [samples EXCEPT ![d].index = mod.samples_data_length],
         samples[d] = [length |-> samples[d].length, loop_length |-> samples[d].loop_length,
                       ping_pong |-> samples[d].ping_pong, index |-> samples[d].index],
         mod'.samples_data_length = U32(mod.samples_data_length + samples[d].length)
  PROVE  Chained(d + 1)'
<1> DEFINE M == MAX_SAMPLE_LENGTH
           frames == mod.samples_data_length
           length == samples[d].length
<1>1. M \in Nat /\ frames \in Nat /\ frames <= d * M /\ length \in Nat /\ length <= M
  <2>1. M \in Nat /\ M \div 2 <= M
    BY LimitsAssumption
  <2>2. length \in Nat /\ (length <= M \div 2 \/ length <= M)
    BY DEF IsWholeSample
  <2> QED
    BY <2>1, <2>2 DEF Chained
<1>2. (d + 1) * M = d * M + M /\ d * M \in Nat /\ (d + 1) * M \in Nat
  BY <1>1
<1>3. frames + length <= (d + 1) * M /\ frames + length \in Nat
  BY <1>1, <1>2
<1>4. (d + 1) * M <= out.num_samples * M
  <2>1. \A a, b, c \in Nat : a <= b => a * c <= b * c
    OBVIOUS
  <2>2. d + 1 \in Nat
    OBVIOUS
  <2> QED
    BY <1>1, <2>1, <2>2
<1>5. frames + length < Words
  <2> DEFINE most == out.num_samples * M
             more == (d + 1) * M
  <2>1. most \in Nat /\ more \in Nat /\ most < Words /\ Words \in Nat /\ more <= most
        /\ frames + length <= more
    BY <1>1, <1>2, <1>3, <1>4, WidthsAssumption DEF FramesFit
  <2> HIDE DEF most, more
  <2> QED
    BY <1>3, <2>1
<1>6. mod'.samples_data_length = frames + length
  BY <1>3, <1>5, U32Facts
<1>7. /\ samples'[d].length = length /\ samples'[d].loop_length = samples[d].loop_length
      /\ samples'[d].ping_pong = samples[d].ping_pong /\ samples'[d].index = frames
  <2>1. samples'[d] = [samples[d] EXCEPT !.index = frames]
    OBVIOUS
  <2> QED
    BY <2>1
<1>8. \A k \in 0 .. d - 1 : samples'[k] = samples[k]
  OBVIOUS
<1>9. ASSUME NEW k \in 0 .. d
      PROVE  /\ IsWholeSample(samples'[k])
             /\ samples'[k].index + samples'[k].length =
                  IF k + 1 = d + 1 THEN mod'.samples_data_length ELSE samples'[k + 1].index
  <2>1. CASE k = d
    BY <1>6, <1>7, <2>1 DEF IsWholeSample
  <2>2. CASE k \in 0 .. d - 1
    <3>1. /\ IsWholeSample(samples[k])
          /\ samples[k].index + samples[k].length =
               IF k + 1 = d THEN frames ELSE samples[k + 1].index
      BY <2>2 DEF Chained
    <3>2. k + 1 # d + 1 /\ (k + 1 = d \/ k + 1 \in 0 .. d - 1)
      BY <2>2
    <3>3. samples'[k + 1].index = IF k + 1 = d THEN frames ELSE samples[k + 1].index
      BY <1>7, <1>8, <3>2
    <3> QED
      BY <1>8, <2>2, <3>1, <3>2, <3>3
  <2> QED
    BY <2>1, <2>2
<1> HIDE DEF M, frames, length
<1>10. mod'.samples_data_length \in Nat /\ mod'.samples_data_length <= (d + 1) * MAX_SAMPLE_LENGTH
  BY <1>3, <1>6 DEF M
<1>11. (d + 1) - 1 = d
  OBVIOUS
<1> QED
  BY <1>9, <1>10, <1>11 DEF Chained

LEMMA InitChainInv == Init => ChainInv
BY DEF Init, ChainInv, Filled

(* The steps that leave the samples that were read alone. *)
LEMMA ChainLeft ==
  ASSUME ChainInv, pc \in Filled, UNCHANGED <<file, out>>,
         HasWholeHeaders(file) => Done \in Nat /\ Done' = Done,
         mod'.samples_data_length = mod.samples_data_length,
         HasWholeHeaders(file) => \A k \in 0 .. Done - 1 : samples'[k] = samples[k]
  PROVE  ChainInv'
<1> SUFFICES ASSUME HasWholeHeaders(file), HasNarrowLoops(file), FramesFit
             PROVE  Chained(Done)'
  BY DEF ChainInv, FramesFit
<1>1. PICK d \in Nat : d = Done
  OBVIOUS
<1>2. Chained(d)
  BY <1>1 DEF ChainInv
<1>3. \A k \in 0 .. d - 1 : samples'[k] = samples[k]
  BY <1>1
<1>4. Chained(d)'
  BY <1>2, <1>3, ChainKept
<1> QED
  BY <1>1, <1>4 DEF Chained

LEMMA LoadSampleHeaderChainInv ==
  Inv /\ MarksInv /\ WalkInv /\ ChainInv /\ LoadSampleHeader => ChainInv'
<1> SUFFICES ASSUME Inv, MarksInv, WalkInv, ChainInv, LoadSampleHeader PROVE ChainInv'
  OBVIOUS
<1>1. /\ pc = "load_samples" /\ pc' \in {"load_samples", "load_data"}
      /\ samples' = [samples EXCEPT ![Current] = LoadedSample(Sample)]
      /\ (pc' = "load_data" => j' = 0)
      /\ UNCHANGED <<file, i, out, mod, history>>
  BY DEF LoadSampleHeader
<1>2. pc \in Filled /\ pc \in Created
  BY <1>1 DEF Filled, Created
<1>3. ASSUME HasWholeHeaders(file)
      PROVE  Done \in Nat /\ Done' = Done /\ \A k \in 0 .. Done - 1 : samples'[k] = samples[k]
  <2>1. AtHeader
    BY <1>1, <1>3 DEF WalkInv
  <2>2. PICK n \in 0 .. NumInstruments - 1 : n = i
    BY <2>1 DEF AtHeader, InSamples
  <2>3. PICK k \in 0 .. NumSamples(n) - 1 : k = j
    BY <2>1, <2>2 DEF AtHeader, InSamples
  <2> DEFINE base == instrumentAt[n].num_samples
  <2>4. base \in Nat /\ NumSamples(n) \in Nat
    BY <1>2, InstrumentFits DEF InstrumentMark
  <2>5. Done = base /\ Done' = base
    BY <1>1, <2>2, <2>4 DEF Done, history
  <2>6. Current = base + k
    <3>1. HeaderSamples(Instrument) = NumSamples(n)
      BY <1>3, <2>2, HeaderIsWhole DEF Instrument
    <3> QED
      BY <2>1, <2>2, <2>3, <2>4, <3>1 DEF Current, AtHeader, InSamples
  <2>7. \A l \in 0 .. base - 1 : l # Current
    BY <2>4, <2>6
  <2> QED
    BY <1>1, <2>4, <2>5, <2>7
<1> QED
  BY <1>1, <1>2, <1>3, ChainLeft

LEMMA LoadSampleDataChainInv ==
  Inv /\ MarksInv /\ WalkInv /\ ChainInv /\ LoadSampleData => ChainInv'
<1> SUFFICES ASSUME Inv, MarksInv, WalkInv, ChainInv, LoadSampleData PROVE ChainInv'
  OBVIOUS
<1>1. /\ pc = "load_data"
      /\ samples' = [samples EXCEPT ![Current].index = mod.samples_data_length]
      /\ mod' = [mod EXCEPT !.samples_data_length = U32(@ + samples[Current].length)]
      /\ pc' = IF IsLast THEN "load_instruments" ELSE pc
      /\ j' = IF IsLast THEN 0 ELSE j + 1
      /\ i' = IF IsLast THEN i + 1 ELSE i
      /\ UNCHANGED <<file, out, history>>
  BY DEF LoadSampleData
<1>2. pc \in Filled /\ pc \in Created
  BY <1>1 DEF Filled, Created
<1> SUFFICES ASSUME HasWholeHeaders(file), HasNarrowLoops(file), FramesFit
             PROVE  Chained(Done)'
  BY <1>1 DEF ChainInv, FramesFit
<1>3. AtData
  BY <1>1 DEF WalkInv
<1>4. PICK n \in 0 .. NumInstruments - 1 : n = i
  BY <1>3 DEF AtData, InSamples
<1>5. PICK k \in 0 .. NumSamples(n) - 1 : k = j
  BY <1>3, <1>4 DEF AtData, InSamples
<1> DEFINE base == instrumentAt[n].num_samples
           s == FileSampleOf(n, k)
<1>6. /\ base \in Nat /\ NumSamples(n) \in Nat /\ out.num_samples \in Nat
      /\ instrumentAt[n + 1].num_samples = base + NumSamples(n)
      /\ base + NumSamples(n) <= out.num_samples
  BY <1>2, InstrumentFits DEF InstrumentMark
<1>7. HeaderSamples(Instrument) = NumSamples(n)
  BY <1>4, HeaderIsWhole DEF Instrument
<1>8. PICK d \in Nat : d = base + k
  BY <1>6
<1>9. Current = d /\ Done = d /\ (IsLast <=> k + 1 = NumSamples(n))
  BY <1>1, <1>3, <1>4, <1>5, <1>6, <1>7, <1>8 DEF Current, IsLast, Done, AtData, InSamples
<1>10. Done' = d + 1
  <2>1. CASE IsLast
    BY <1>1, <1>4, <1>6, <1>8, <1>9, <2>1 DEF Done, history
  <2>2. CASE ~IsLast
    BY <1>1, <1>4, <1>5, <1>6, <1>8, <2>2 DEF Done, history
  <2> QED
    BY <2>1, <2>2
<1>11. d + 1 <= out.num_samples /\ d \in DOMAIN samples
  <2>1. d + 1 <= out.num_samples /\ d \in 0 .. out.num_samples - 1
    BY <1>6, <1>8
  <2>2. Allocated
    BY <1>2 DEF WalkInv
  <2> QED
    BY <2>1, <2>2 DEF Allocated
<1>12. samples[d] = LoadedSample(s)
  BY <1>3, <1>4, <1>5, <1>8 DEF AtData, LoadedBetween
<1>13. IsWholeSample(samples[d])
  <2>1. Passed(n, k)
    BY <1>2 DEF MarksInv, Walked
  <2>2. PrescanLength(s) <= MaxLength(s.flags)
    BY <2>1 DEF Passed
  <2>3. IsFileSample(s)
    BY SampleKeepsTo
  <2>4. s.loop_start + s.loop_length < Words
    <3>1. n \in Instruments(file) /\ IsFileInstrument(file.instruments[n])
      BY FilesAssumption DEF Inv, IsFile, NumInstruments
    <3>2. k \in SamplesOf(file.instruments[n])
      BY <3>1 DEF IsFileInstrument, NumSamples
    <3> QED
      BY <3>1, <3>2 DEF HasNarrowLoops, FileSampleOf
  <2> HIDE DEF s
  <2> QED
    BY <1>12, <2>2, <2>3, <2>4, LoadedIsWhole
<1>14. samples[d] = [length |-> samples[d].length, loop_length |-> samples[d].loop_length,
                     ping_pong |-> samples[d].ping_pong, index |-> samples[d].index]
  BY <1>12 DEF LoadedSample
<1>15. /\ samples' = [samples EXCEPT ![d].index = mod.samples_data_length]
       /\ mod'.samples_data_length = U32(mod.samples_data_length + samples[d].length)
  BY <1>1, <1>9 DEF Inv, IsCount
<1>16. Chained(d)
  BY <1>2, <1>9 DEF ChainInv
<1>17. Chained(d + 1)'
  BY <1>6, <1>11, <1>13, <1>14, <1>15, <1>16, ChainGrows
<1> QED
  BY <1>10, <1>17 DEF Chained

LEMMA NextChainInv ==
  Inv /\ MarksInv /\ PlacesInv /\ WalkInv /\ ChainInv /\ [Next]_vars => ChainInv'
<1> SUFFICES ASSUME Inv, MarksInv, PlacesInv, WalkInv, ChainInv, [Next]_vars PROVE ChainInv'
  OBVIOUS
<1>1. CASE pc' \notin Filled
  BY <1>1 DEF ChainInv
<1>2. CASE LoadOrders
  <2>1. /\ pc = "load_patterns" /\ pc' = "load_instruments" /\ i' = 0
        /\ UNCHANGED <<file, out, samples, history>>
        /\ \/ mod' = mod
           \/ mod' = [mod EXCEPT !.num_patterns = @ + 1, !.num_rows = @ + EMPTY_PATTERN_NUM_ROWS]
    BY <1>2 DEF LoadOrders
  <2>2. mod'.samples_data_length = 0
    BY <2>1 DEF WalkInv, Inv, IsCount
  <2>3. Done' = 0
    <3>1. instrumentAt[0].num_samples = 0
      BY <2>1 DEF MarksInv, CountedUpTo, Created
    <3> QED
      BY <2>1, <3>1 DEF Done, history
  <2> QED
    BY <2>2, <2>3, LimitsAssumption DEF ChainInv, Chained
<1>3. CASE LoadEmptyInstrument
  <2>1. /\ pc = "load_instruments" /\ pc' = pc /\ i' = i + 1
        /\ UNCHANGED <<file, out, mod, samples, history>>
    BY <1>3 DEF LoadEmptyInstrument
  <2>2. ASSUME HasWholeHeaders(file) PROVE Done \in Nat /\ Done' = Done
    <3>1. AtInstrument /\ AtInstrument'
      <4>1. WalkInv'
        BY <1>3, LoadEmptyInstrumentWalkInv
      <4> QED
        BY <2>1, <2>2, <4>1 DEF WalkInv
    <3>2. instrumentAt[i].num_samples \in Nat
      BY <3>1 DEF AtInstrument, MarksInv, MarksType, InstrumentMark
    <3>3. instrumentAt'[i'].num_samples = instrumentAt[i].num_samples
      BY <2>1, <3>1 DEF AtInstrument
    <3> QED
      BY <2>1, <3>2, <3>3 DEF Done
  <2> QED
    BY <2>1, <2>2, ChainLeft DEF Filled
<1>4. CASE LoadInstrument
  <2>1. /\ pc = "load_instruments" /\ pc' = "load_samples" /\ i' = i
        /\ mod' = [mod EXCEPT !.num_samples = @ + HeaderSamples(Instrument)]
        /\ UNCHANGED <<file, out, samples, history>>
    BY <1>4 DEF LoadInstrument
  <2>2. ASSUME HasWholeHeaders(file) PROVE Done \in Nat /\ Done' = Done
    <3>1. AtInstrument
      BY <2>1, <2>2 DEF WalkInv
    <3>2. instrumentAt[i].num_samples \in Nat
      BY <3>1 DEF AtInstrument, MarksInv, MarksType, InstrumentMark
    <3> QED
      BY <2>1, <3>2 DEF Done, history
  <2>3. mod'.samples_data_length = mod.samples_data_length
    BY <2>1 DEF Inv, IsCount
  <2> QED
    BY <2>1, <2>2, <2>3, ChainLeft DEF Filled
<1>5. CASE LoadSampleHeader \/ LoadSampleData
  BY <1>5, LoadSampleHeaderChainInv, LoadSampleDataChainInv
<1>6. CASE Finish
  <2>1. /\ pc = "load_instruments" /\ pc' = "loaded" /\ i = mod.num_instruments
        /\ UNCHANGED <<file, i, j, out, mod, samples, history>>
    BY <1>6 DEF Finish, loaded
  <2>2. ASSUME HasWholeHeaders(file) PROVE Done \in Nat /\ Done' = Done
    <3>1. AtInstrument /\ i = NumInstruments /\ out.num_samples \in Nat
      BY <2>1, <2>2, WidthsAssumption DEF WalkInv, MarksInv, CountedUpTo, Created, Filled
    <3>2. instrumentAt[NumInstruments].num_samples = out.num_samples
      BY <2>1 DEF MarksInv, Created, Filled
    <3> QED
      BY <2>1, <3>1, <3>2 DEF Done
  <2> QED
    BY <2>1, <2>2, ChainLeft DEF Filled
<1>7. CASE UNCHANGED vars
  <2>1. UNCHANGED <<file, pc, i, j, out, mod, samples, instrumentAt>>
    BY <1>7 DEF vars, walk, loaded, history
  <2>2. Chained(Done)' = Chained(Done) /\ FramesFit' = FramesFit
    BY <2>1 DEF Chained, Done, FramesFit
  <2> QED
    BY <2>1, <2>2 DEF ChainInv
<1>8. CASE Next /\ pc' \in Filled
  BY <1>2, <1>3, <1>4, <1>5, <1>6, <1>8
  DEF Next, Prescan, Load, PrescanHeader, PrescanPattern, PrescanOrders, PrescanInstrument,
      PrescanSample, PrescanData, CreateContext, LoadHeader, LoadPattern, FailInstrument, Lose,
      Refuse, Filled
<1> QED
  BY <1>1, <1>7, <1>8

-----------------------------------------------------------------------------
LEMMA InitNotesInv == Init => NotesInv
BY DEF Init, NotesInv, Created, Filled

(* The steps that leave the notes alone. *)
LEMMA NotesLeft ==
  ASSUME NotesInv, UNCHANGED <<file, sample_of_notes, instrumentAt>>,
         \/ pc' \notin Created
         \/ pc \in Created /\ pc' \in {"load", "load_patterns"}
         \/ pc \in Created /\ pc' = "load_instruments" /\ i' = 0
         \/ pc = "load_samples" /\ pc' \in {"load_samples", "load_data"} /\ i' = i
         \/ pc = "load_data" /\ pc' = "load_data" /\ i' = i
         \/ pc = "load_data" /\ pc' = "load_instruments" /\ i' = i + 1
         \/ pc = "load_instruments" /\ pc' = "loaded" /\ i = NumInstruments
         \/ pc' = pc /\ i' = i
  PROVE  NotesInv'
<1>1. \A n : Noted(n)' = Noted(n)
  BY DEF Noted
<1>2. \A n : NotedUpTo(n)' = NotedUpTo(n)
  BY <1>1 DEF NotedUpTo
<1>3. NotedUpTo(0)
  BY DEF NotedUpTo
<1>4. NumInstruments' = NumInstruments /\ HasWholeHeaders(file)' = HasWholeHeaders(file)
  BY DEF NumInstruments
<1>5. NotedUpTo(i)' = NotedUpTo(i') /\ NotedUpTo(i + 1)' = NotedUpTo(i' + 1)
      /\ NotedUpTo(NumInstruments)' = NotedUpTo(NumInstruments)
  BY <1>1, <1>4 DEF NotedUpTo
<1> QED
  BY <1>3, <1>4, <1>5 DEF NotesInv, Created, Filled

LEMMA LoadInstrumentsNotesInv ==
  Inv /\ MarksInv /\ WalkInv /\ NotesInv /\ (LoadEmptyInstrument \/ LoadInstrument) => NotesInv'
<1> SUFFICES ASSUME Inv, MarksInv, WalkInv, NotesInv, LoadEmptyInstrument \/ LoadInstrument
             PROVE  NotesInv'
  OBVIOUS
<1>1. /\ pc = "load_instruments" /\ i < mod.num_instruments
      /\ \E notes : sample_of_notes' = [sample_of_notes EXCEPT ![i] = notes]
      /\ UNCHANGED <<file, history>>
      /\ pc' \in {"load_instruments", "load_samples"}
      /\ i' = IF pc' = "load_instruments" THEN i + 1 ELSE i
  BY DEF LoadEmptyInstrument, LoadInstrument
<1>2. DOMAIN sample_of_notes' = 0 .. NumInstruments' - 1
  BY <1>1 DEF NotesInv, Created, Filled, NumInstruments
<1>3. ASSUME HasWholeHeaders(file)
      PROVE  IF pc' = "load_instruments" THEN NotedUpTo(i)' ELSE NotedUpTo(i + 1)'
  <2>1. AtInstrument /\ i \in 0 .. NumInstruments - 1 /\ NotedUpTo(i)
    BY <1>1, <1>3, InstrumentFacts DEF WalkInv, AtInstrument, NotesInv, Created, Filled
  <2>2. PICK n \in 0 .. NumInstruments - 1 : n = i
    BY <2>1
  <2>3. /\ HeaderSamples(Instrument) \in Nat
        /\ file.instruments[n].sample_of_notes \in [Note -> Byte]
        /\ mod.num_samples = instrumentAt[n].num_samples
    BY <1>3, <2>1, <2>2, HeaderIsWhole, InstrumentFacts DEF Instrument, AtInstrument
  <2>4. n \in DOMAIN sample_of_notes
    BY <1>1 DEF NotesInv, Created, Filled
  <2>5. sample_of_notes'[n] = [x \in Note |-> SampleOfNote(Instrument, x, mod.num_samples)]
    <3>1. CASE LoadInstrument
      BY <2>2, <2>4, <3>1 DEF LoadInstrument
    <3>2. CASE LoadEmptyInstrument
      <4>1. ASSUME NEW x \in Note
            PROVE  SampleOfNote(Instrument, x, mod.num_samples) = NoSample
        <5>1. HeaderNote(Instrument, x) \in Nat
          BY <2>2, <2>3, WidthsAssumption DEF HeaderNote, Instrument, Byte
        <5> QED
          BY <3>2, <5>1 DEF SampleOfNote, LoadEmptyInstrument
      <4>2. sample_of_notes'[n] = [x \in Note |-> NoSample]
        BY <2>2, <2>4, <3>2 DEF LoadEmptyInstrument
      <4> QED
        BY <4>1, <4>2
    <3> QED
      BY <3>1, <3>2
  <2>6. Noted(n)'
    BY <1>1, <2>2, <2>3, <2>5 DEF Noted, Instrument, history
  <2>7. ASSUME NEW m \in 0 .. n - 1 PROVE Noted(m)'
    <3>1. Noted(m) /\ m # n
      BY <2>1, <2>2 DEF NotedUpTo
    <3>2. sample_of_notes'[m] = sample_of_notes[m]
      BY <1>1, <2>2, <3>1
    <3> QED
      BY <1>1, <3>1, <3>2 DEF Noted, history
  <2>8. \A m \in 0 .. n : Noted(m)'
    <3>1. \A m \in 0 .. n : m = n \/ m \in 0 .. n - 1
      OBVIOUS
    <3> QED
      BY <2>6, <2>7, <3>1
  <2>9. CASE pc' = "load_instruments"
    <3>1. i' = n + 1 /\ i' - 1 = n
      BY <1>1, <2>2, <2>9
    <3>2. NotedUpTo(i)'
      BY <2>8, <3>1 DEF NotedUpTo
    <3> QED
      BY <2>9, <3>2
  <2>10. CASE pc' # "load_instruments"
    <3>1. i' = n /\ (i' + 1) - 1 = n
      BY <1>1, <2>2, <2>10
    <3>2. NotedUpTo(i + 1)'
      BY <2>8, <3>1 DEF NotedUpTo
    <3> QED
      BY <2>10, <3>2
  <2> QED
    BY <2>9, <2>10
<1> QED
  BY <1>1, <1>2, <1>3 DEF NotesInv

LEMMA NextNotesInv ==
  Inv /\ MarksInv /\ WalkInv /\ NotesInv /\ [Next]_vars => NotesInv'
<1> SUFFICES ASSUME Inv, MarksInv, WalkInv, NotesInv, [Next]_vars PROVE NotesInv'
  OBVIOUS
<1>1. CASE Prescan \/ Lose \/ FailInstrument
  <2>1. pc' \notin Created /\ UNCHANGED <<file, sample_of_notes>>
    BY <1>1, Zenon
    DEF Prescan, PrescanHeader, PrescanPattern, PrescanOrders, PrescanInstrument,
        PrescanSample, PrescanData, Refuse, Lose, FailInstrument, Created, Filled, loaded, NotesInv
  <2> QED
    BY <2>1 DEF NotesInv, Created, Filled
<1>2. CASE CreateContext
  <2>1. CASE Refuse
    BY <2>1 DEF Refuse, NotesInv, Created, Filled
  <2>2. CASE ~Refuse
    <3>1. /\ pc' = "load" /\ UNCHANGED file
          /\ sample_of_notes' = [n \in Instruments(file) |-> [k \in Note |-> 0]]
      BY <1>2, <2>2 DEF CreateContext
    <3>2. Instruments(file) = 0 .. NumInstruments - 1
      BY FilesAssumption DEF Inv, IsFile, NumInstruments
    <3> QED
      BY <3>1, <3>2 DEF NotesInv, NumInstruments
  <2> QED
    BY <2>1, <2>2
<1>3. CASE LoadEmptyInstrument \/ LoadInstrument
  BY <1>3, LoadInstrumentsNotesInv
<1>4. CASE LoadHeader \/ LoadPattern \/ LoadOrders
  BY <1>4, NotesLeft DEF LoadHeader, LoadPattern, LoadOrders, history, Created
<1>5. CASE LoadSampleHeader \/ LoadSampleData
  <2>1. /\ UNCHANGED <<file, sample_of_notes, instrumentAt>>
        /\ \/ pc = "load_samples" /\ pc' \in {"load_samples", "load_data"} /\ i' = i
           \/ pc = "load_data" /\ pc' = "load_data" /\ i' = i
           \/ pc = "load_data" /\ pc' = "load_instruments" /\ i' = i + 1
    BY <1>5 DEF LoadSampleHeader, LoadSampleData, history
  <2> QED
    BY <2>1, NotesLeft
<1>6. CASE Finish
  <2>1. /\ UNCHANGED <<file, sample_of_notes, instrumentAt>> /\ i = NumInstruments
        /\ pc = "load_instruments" /\ pc' = "loaded"
    BY <1>6 DEF Finish, WalkInv, Created, Filled, loaded, history
  <2> QED
    BY <2>1, NotesLeft
<1>7. CASE UNCHANGED vars
  BY <1>7, NotesLeft DEF vars, walk, loaded, history
<1> QED
  BY <1>1, <1>2, <1>3, <1>4, <1>5, <1>6, <1>7 DEF Next, Load

LEMMA SpecSamplesInv == Spec => [](ChainInv /\ NotesInv)
BY SpecWalkInv, InitChainInv, InitNotesInv, NextChainInv, NextNotesInv, PTL DEF Spec

LEMMA InvSamplesAreWhole ==
  ASSUME Inv, MarksInv, WalkInv, ChainInv, NotesInv, HasWholeHeaders(file), FramesFit
  PROVE  SamplesAreWhole
<1> SUFFICES ASSUME pc = "loaded", HasNarrowLoops(file) PROVE SamplesAreWhole
  BY DEF SamplesAreWhole
<1>1. mod.num_samples = out.num_samples /\ Done = out.num_samples
      /\ NotedUpTo(NumInstruments) /\ Chained(Done)
  BY DEF WalkInv, AtEnd, Done, NotesInv, ChainInv, Filled
<1>2. ASSUME NEW k \in 0 .. mod.num_samples - 1
      PROVE  /\ samples[k].loop_length <= samples[k].length
             /\ samples[k].length <=
                  IF samples[k].ping_pong THEN MAX_SAMPLE_LENGTH \div 2 ELSE MAX_SAMPLE_LENGTH
             /\ samples[k].index + samples[k].length =
                  IF k + 1 = mod.num_samples THEN mod.samples_data_length
                  ELSE samples[k + 1].index
  BY <1>1 DEF Chained, IsWholeSample
<1>3. ASSUME NEW n \in Instruments(file), NEW x \in Note
      PROVE  LET instrument == file.instruments[n]
             IN  IF HeaderNote(instrument, x) >= HeaderSamples(instrument)
                 THEN sample_of_notes[n][x] = NoSample
                 ELSE /\ sample_of_notes[n][x] # NoSample
                      /\ sample_of_notes[n][x] \in
                           instrumentAt[n].num_samples .. instrumentAt[n + 1].num_samples - 1
  <2>1. n \in 0 .. NumInstruments - 1
    BY FilesAssumption DEF Inv, IsFile, NumInstruments
  <2> DEFINE instrument == file.instruments[n]
             note == HeaderNote(instrument, x)
             first == instrumentAt[n].num_samples
  <2>2. sample_of_notes[n][x] = SampleOfNote(instrument, x, first)
    BY <1>1, <2>1 DEF NotedUpTo, Noted
  <2>3. HeaderSamples(instrument) = NumSamples(n)
    BY <2>1, HeaderIsWhole
  <2>4. /\ NumSamples(n) \in Nat /\ first \in Nat
        /\ instrumentAt[n + 1].num_samples = first + NumSamples(n)
        /\ first + NumSamples(n) <= out.num_samples
        /\ out.num_samples \in 0 .. Shorts - 1
    BY <2>1, InstrumentFits DEF InstrumentMark, Created, Filled, MarksInv, CountedUpTo
  <2>5. note \in Nat
    BY <2>1, InstrumentFacts, WidthsAssumption DEF HeaderNote, Byte
  <2> HIDE DEF note, instrument, first
  <2>6. CASE note >= NumSamples(n)
    BY <2>2, <2>3, <2>6 DEF SampleOfNote, note, instrument
  <2>7. CASE ~(note >= NumSamples(n))
    <3>1. sample_of_notes[n][x] = first + note
      BY <2>2, <2>3, <2>7 DEF SampleOfNote, note
    <3> QED
      BY <2>3, <2>4, <2>5, <2>7, <3>1, WidthsAssumption DEF NoSample, note, instrument, first
  <2> QED
    BY <2>6, <2>7
<1> QED
  BY <1>2, <1>3 DEF SamplesAreWhole

(* The samples of what is loaded share the frames without a gap, every loop *)
(* is inside of its sample, and a note plays a sample of its own instrument *)
(* or none, if the headers are whole, and no loop and no number of a frame  *)
(* wraps.                                                                   *)
THEOREM SamplesAreAlwaysWhole ==
  Spec => [](HasWholeHeaders(file) /\ FramesFit => SamplesAreWhole)
BY SpecWalkInv, SpecSamplesInv, InvSamplesAreWhole, PTL
=============================================================================
