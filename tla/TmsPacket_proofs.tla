-------------------------- MODULE TmsPacket_proofs --------------------------
(***************************************************************************)
(* Facts about the frames of the TMS race display.                         *)
(***************************************************************************)
EXTENDS TmsPacket, NaturalsInduction, WellFoundedInduction, SequenceTheorems, TLAPS

-----------------------------------------------------------------------------
(* The bytes of a frame *)

(* Two bytes hold a word of 16 bits, three bytes one of 24. *)
LEMMA TwoBytes ==
  ASSUME NEW word \in Nat, word < 65536
  PROVE  Byte(word, 1) + 256 * Byte(word, 256) = word
BY SMT DEF Byte

LEMMA ThreeBytes ==
  ASSUME NEW word \in Nat, word < 16777216
  PROVE  Byte(word, 1) + 256 * Byte(word, 256) + 65536 * Byte(word, 65536) = word
BY SMT DEF Byte

(* The color of a delta is above its value. *)
LEMMA DeltaWord ==
  ASSUME NEW value \in Nat, value <= DeltaMax, NEW color \in Color
  PROVE  applyDeltaColor(value, color) = value + 16384 * DeltaColorCode(color)
BY SMT DEF DeltaMax, applyDeltaColor, DeltaColorCode, SetBit, Color

LEMMA LapWord ==
  ASSUME NEW value \in Nat, value <= LapMax, NEW color \in Color
  PROVE  applyLapColor(value, color) = value + 4194304 * LapColorCode(color)
BY SMT DEF LapMax, applyLapColor, LapColorCode, SetBit, Color

LEMMA DeltaReads ==
  ASSUME NEW value \in Nat, value <= DeltaMax, NEW color \in Color
  PROVE  DecodedDelta(Byte(applyDeltaColor(value, color), 1),
                      Byte(applyDeltaColor(value, color), 256))
           = [value |-> value, color |-> DeltaColorCode(color)]
<1>1. DeltaColorCode(color) \in 0 .. 2
  BY SMT DEF DeltaColorCode, Color
<1>2. PICK word \in Nat :
        word < 65536 /\ word = applyDeltaColor(value, color) /\ word = value + 16384 * DeltaColorCode(color)
  BY SMT, <1>1, DeltaWord DEF DeltaMax
<1>3. Byte(word, 1) + 256 * Byte(word, 256) = word
  BY SMT, <1>2, TwoBytes
<1>4. word % 16384 = value /\ word \div 16384 = DeltaColorCode(color)
  <2>1. DeltaColorCode(color) = 0 \/ DeltaColorCode(color) = 1 \/ DeltaColorCode(color) = 2
    BY SMT, <1>1
  <2>2. word = value \/ word = value + 16384 \/ word = value + 32768
    BY SMT, <1>2, <2>1
  <2> QED BY SMT, <1>2, <2>1, <2>2 DEF DeltaMax
<1> QED BY SMT, <1>2, <1>3, <1>4 DEF DecodedDelta

LEMMA LapReads ==
  ASSUME NEW value \in Nat, value <= LapMax, NEW color \in Color
  PROVE  DecodedLap(Byte(applyLapColor(value, color), 1),
                    Byte(applyLapColor(value, color), 256),
                    Byte(applyLapColor(value, color), 65536))
           = [value |-> value, color |-> LapColorCode(color)]
<1>1. LapColorCode(color) \in 0 .. 3
  BY SMT DEF LapColorCode, Color
<1>2. PICK word \in Nat :
        word < 16777216 /\ word = applyLapColor(value, color) /\ word = value + 4194304 * LapColorCode(color)
  BY SMT, <1>1, LapWord DEF LapMax
<1>3. Byte(word, 1) + 256 * Byte(word, 256) + 65536 * Byte(word, 65536) = word
  BY SMT, <1>2, ThreeBytes
<1>4. word % 4194304 = value /\ word \div 4194304 = LapColorCode(color)
  BY SMT, <1>1, <1>2 DEF LapMax
<1> QED BY SMT, <1>2, <1>3, <1>4 DEF DecodedLap

LEMMA FieldValue ==
  ASSUME NEW limit \in Nat, NEW value \in 0 .. limit
  PROVE  value \in Nat /\ value <= limit /\ AtLeastZero(value) = value
BY DEF AtLeastZero

(* What a display reads in the bytes of a frame is what the frame says, as *)
(* long as its numbers fit the fields (utils/tms.ts:100).                  *)
THEOREM RoundTrip ==
  ASSUME NEW says, FitsTheFrame(says),
         says.frontColor \in Color, says.rearColor \in Color, says.lapColor \in Color
  PROVE  Reads(encodeTmsPayload(says), says)
<1>0. DeltaMax \in Nat /\ LapMax \in Nat
  BY SMT DEF DeltaMax, LapMax
<1>1. /\ says.front \in Nat /\ says.front <= DeltaMax /\ AtLeastZero(says.front) = says.front
      /\ says.rear \in Nat /\ says.rear <= DeltaMax /\ AtLeastZero(says.rear) = says.rear
      /\ says.lap \in Nat /\ says.lap <= LapMax /\ AtLeastZero(says.lap) = says.lap
      /\ says.position \in Nat /\ says.position <= 255
      /\ AtLeastZero(says.position) = says.position
  <2>1. /\ says.front \in 0 .. DeltaMax /\ says.rear \in 0 .. DeltaMax
        /\ says.lap \in 0 .. LapMax /\ says.position \in 0 .. 255
    BY DEF FitsTheFrame
  <2>2. says.front \in Nat /\ says.front <= DeltaMax /\ AtLeastZero(says.front) = says.front
    BY <1>0, <2>1, FieldValue
  <2>3. says.rear \in Nat /\ says.rear <= DeltaMax /\ AtLeastZero(says.rear) = says.rear
    BY <1>0, <2>1, FieldValue
  <2>4. says.lap \in Nat /\ says.lap <= LapMax /\ AtLeastZero(says.lap) = says.lap
    BY <1>0, <2>1, FieldValue
  <2>5. /\ says.position \in Nat /\ says.position <= 255
        /\ AtLeastZero(says.position) = says.position
    <3>1. 255 \in Nat
      OBVIOUS
    <3> QED BY <2>1, <3>1, FieldValue
  <2> QED BY <2>2, <2>3, <2>4, <2>5
<1>2. ~(says.position > 255)
  BY <1>1
<1>3. PICK front, rear, lap :
        /\ front = applyDeltaColor(says.front, says.frontColor)
        /\ rear = applyDeltaColor(says.rear, says.rearColor)
        /\ lap = applyLapColor(says.lap, says.lapColor)
  OBVIOUS
<1>4. encodeTmsPayload(says) =
        <<Byte(front, 1), Byte(front, 256), Byte(rear, 1), Byte(rear, 256), says.position,
          Byte(lap, 1), Byte(lap, 256), Byte(lap, 65536)>>
  BY <1>1, <1>2, <1>3 DEF encodeTmsPayload
<1>5. DecodedDelta(Byte(front, 1), Byte(front, 256))
        = [value |-> says.front, color |-> DeltaColorCode(says.frontColor)]
  BY <1>1, <1>3, DeltaReads
<1>6. DecodedDelta(Byte(rear, 1), Byte(rear, 256))
        = [value |-> says.rear, color |-> DeltaColorCode(says.rearColor)]
  BY <1>1, <1>3, DeltaReads
<1>7. DecodedLap(Byte(lap, 1), Byte(lap, 256), Byte(lap, 65536))
        = [value |-> says.lap, color |-> LapColorCode(says.lapColor)]
  BY <1>1, <1>3, LapReads
<1> QED BY <1>4, <1>5, <1>6, <1>7 DEF Reads

-----------------------------------------------------------------------------
(* The leaderboard *)

(* A set of natural numbers that is not empty has a least one. *)
LEMMA LeastOf ==
  ASSUME NEW T \in SUBSET Nat, T # {}
  PROVE  \E x \in T : \A y \in T : x <= y
<1>1. PICK x \in T : \A y \in T : <<y, x>> \notin OpToRel(<, Nat)
  BY NatLessThanWellFounded, WFMin
<1>2. \A y \in T : ~(y < x)
  BY <1>1 DEF OpToRel
<1> QED BY <1>2

(* The place that is found for a car is one of that car. *)
LEMMA FoundIndex ==
  ASSUME NEW S, NEW board \in Seq(S), NEW car, IndexOfCar(board, car) # 0
  PROVE  /\ IndexOfCar(board, car) \in DOMAIN board
         /\ board[IndexOfCar(board, car)].car = car
<1>1. PICK T : T = {i \in DOMAIN board : board[i].car = car}
  OBVIOUS
<1>2. T # {}
  BY <1>1 DEF IndexOfCar
<1>3. T \in SUBSET Nat
  BY <1>1
<1>4. PICK x \in T : \A y \in T : x <= y
  BY <1>2, <1>3, LeastOf
<1>5. board[x].car = car /\ x \in DOMAIN board
  BY <1>1
<1>6. \A j \in 1 .. x - 1 : board[j].car # car
  BY <1>1, <1>3, <1>4
<1> QED BY <1>5, <1>6 DEF IndexOfCar

LEMMA FoundEntry ==
  ASSUME NEW S, NEW board \in Seq(S), NEW car, EntryOf(board, car) # NoEntry
  PROVE  EntryOf(board, car).car = car
BY FoundIndex DEF EntryOf

(* The entry that is found for a car is one of the leaderboard. *)
LEMMA EntryIsIn ==
  ASSUME NEW S, NEW board \in Seq(S), NEW car
  PROVE  EntryOf(board, car) \in S \cup {NoEntry}
<1>1. CASE IndexOfCar(board, car) = 0
  BY <1>1 DEF EntryOf
<1>2. CASE IndexOfCar(board, car) # 0
  <2>1. board[IndexOfCar(board, car)] \in S
    BY <1>2, FoundIndex, ElementOfSeq
  <2> QED BY <1>2, <2>1 DEF EntryOf
<1> QED BY <1>1, <1>2

(* A car that has an entry is found. *)
LEMMA CarIsFound ==
  ASSUME NEW S, NEW board \in Seq(S), NEW i \in DOMAIN board
  PROVE  /\ IndexOfCar(board, board[i].car) \in DOMAIN board
         /\ EntryOf(board, board[i].car) = board[IndexOfCar(board, board[i].car)]
         /\ board[IndexOfCar(board, board[i].car)].car = board[i].car
<1>1. PICK T : T = {j \in DOMAIN board : board[j].car = board[i].car}
  OBVIOUS
<1>2. T # {} /\ T \in SUBSET (Nat \ {0})
  BY <1>1
<1>3. PICK x \in T : \A y \in T : x <= y
  BY <1>2, LeastOf
<1>4. \A j \in 1 .. x - 1 : board[j].car # board[i].car
  BY <1>1, <1>2, <1>3
<1>5. \E x1 \in DOMAIN board : /\ board[x1].car = board[i].car
                              /\ \A j \in 1 .. x1 - 1 : board[j].car # board[i].car
  BY <1>1, <1>4
<1>6. PICK k : k = IndexOfCar(board, board[i].car)
  OBVIOUS
<1>7. k \in DOMAIN board /\ board[k].car = board[i].car
  BY <1>5, <1>6 DEF IndexOfCar
<1>8. k # 0
  BY <1>7
<1> QED BY <1>6, <1>7, <1>8 DEF EntryOf

-----------------------------------------------------------------------------
(* The types of a packet *)

TimesOK(entry) ==
  /\ entry.gap \in Nat /\ entry.passage \in Nat /\ entry.last \in Nat /\ entry.best \in Nat

LEMMA TenthsNat ==
  ASSUME NEW ms \in Int
  PROVE  toHundredths(ms) \in Nat
<1>1. AtLeastZero(ms) \in Nat
  BY DEF AtLeastZero
<1> QED BY <1>1 DEF toHundredths

LEMMA LapNat ==
  ASSUME NEW entry, TimesOK(entry)
  PROVE  resolveLapMetric(entry) \in Nat
BY DEF TimesOK, resolveLapMetric, AtLeastZero

LEMMA FrontNat ==
  ASSUME NEW entry, NEW ahead, TimesOK(entry), TimesOK(ahead)
  PROVE  buildFrontDelta(entry, ahead) \in Nat
<1>1. entry.passage - ahead.passage \in Int /\ entry.gap - ahead.gap \in Int
  BY DEF TimesOK
<1> QED BY <1>1, TenthsNat DEF buildFrontDelta

(* The three metrics of an entry are numbers that are not negative, a gap  *)
(* that shrinks below the one of the car ahead included.                   *)
LEMMA MetricsNat ==
  ASSUME NEW S, NEW board \in Seq(S), \A e \in S : TimesOK(e), NEW entry, TimesOK(entry)
  PROVE  MetricsOf(entry, board) \in [front : Nat, rear : Nat, lap : Nat]
<1>1. TimesOK(NoEntry)
  BY DEF TimesOK, NoEntry
<1>2. PICK i : i = IndexOfCar(board, entry.car)
  OBVIOUS
<1>3. i = 0 \/ i \in 1 .. Len(board)
  BY <1>2, FoundIndex
<1>4. PICK ahead, behind :
        /\ ahead = IF i > 1 THEN board[i - 1] ELSE NoEntry
        /\ behind = IF i > 0 /\ i < Len(board) THEN board[i + 1] ELSE NoEntry
  OBVIOUS
<1>5. TimesOK(ahead) /\ TimesOK(behind)
  <2>1. i > 1 => i - 1 \in DOMAIN board
    BY <1>3
  <2>2. i > 0 /\ i < Len(board) => i + 1 \in DOMAIN board
    BY <1>3
  <2> QED BY <1>1, <1>4, <2>1, <2>2, ElementOfSeq
<1>6. /\ buildFrontDelta(entry, ahead) \in Nat
      /\ toHundredths(resolveLapMetric(behind)) \in Nat
      /\ resolveLapMetric(entry) \in Nat
  <2>1. buildFrontDelta(entry, ahead) \in Nat
    BY <1>5, FrontNat
  <2>2. resolveLapMetric(behind) \in Int /\ resolveLapMetric(entry) \in Nat
    BY <1>5, LapNat
  <2> QED BY <2>1, <2>2, TenthsNat
<1>7. MetricsOf(entry, board) =
        [front |-> buildFrontDelta(entry, ahead),
         rear  |-> toHundredths(resolveLapMetric(behind)),
         lap   |-> resolveLapMetric(entry)]
  BY <1>2, <1>4 DEF MetricsOf
<1> QED BY <1>6, <1>7

(* A frame is made of bytes, whatever the numbers. *)
LEMMA BitNat ==
  ASSUME NEW value \in Nat, NEW color
  PROVE  applyDeltaColor(value, color) \in Nat /\ applyLapColor(value, color) \in Nat
BY SMT DEF applyDeltaColor, applyLapColor, SetBit

LEMMA OneByte ==
  ASSUME NEW value \in Nat
  PROVE  /\ Byte(value, 1) \in 0 .. 255 /\ Byte(value, 256) \in 0 .. 255
         /\ Byte(value, 65536) \in 0 .. 255
BY SMT DEF Byte

LEMMA FrameIsBytes ==
  ASSUME NEW says, says.front \in Nat, says.rear \in Nat, says.lap \in Nat,
         says.position \in Nat
  PROVE  encodeTmsPayload(says) \in Seq(0 .. 255)
<1>1. PICK front, rear, lap, place :
        /\ front = applyDeltaColor(AtLeastZero(says.front), says.frontColor)
        /\ rear = applyDeltaColor(AtLeastZero(says.rear), says.rearColor)
        /\ lap = applyLapColor(AtLeastZero(says.lap), says.lapColor)
        /\ place = IF says.position > 255 THEN 255 ELSE AtLeastZero(says.position)
  OBVIOUS
<1>2. \A n \in Nat : AtLeastZero(n) \in Nat
  BY DEF AtLeastZero
<1>3. front \in Nat /\ rear \in Nat /\ lap \in Nat
  BY <1>1, <1>2, BitNat
<1>4. place \in 0 .. 255
  BY <1>1 DEF AtLeastZero
<1>5. encodeTmsPayload(says) =
        <<Byte(front, 1), Byte(front, 256), Byte(rear, 1), Byte(rear, 256), place,
          Byte(lap, 1), Byte(lap, 256), Byte(lap, 65536)>>
  BY <1>1 DEF encodeTmsPayload
<1> QED BY <1>3, <1>4, <1>5, OneByte

=============================================================================
