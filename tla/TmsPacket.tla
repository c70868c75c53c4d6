----------------------------- MODULE TmsPacket -----------------------------
(***************************************************************************)
(* The pure part of the TMS race display: src/web/src/utils/tms.ts.        *)
(*                                                                         *)
(* An entry of the leaderboard is a record of numbers; the car number ""   *)
(* and a time that is missing are 0, and an entry that is missing is       *)
(* NoEntry.  Times are in milliseconds.  "undefined" and the infinity the  *)
(* bests start from are 0: the code never records a best of 0.             *)
(*                                                                         *)
(* Values are below 2^31, where JavaScript's bitwise operators agree with  *)
(* the arithmetic below.                                                   *)
(***************************************************************************)
EXTENDS Integers, Sequences, TLC

Color   == {"yellow", "white", "green", "purple"}
Metrics == {"front", "rear", "lap"}

NoEntry == [car |-> 0, position |-> 0, gap |-> 0, passage |-> 0, last |-> 0, best |-> 0]

AtLeastZero(n) == IF n < 0 THEN 0 ELSE n

-----------------------------------------------------------------------------
(* The leaderboard *)

(* The entries that have a car, by position; an entry that has no position *)
(* takes its place in the snapshot.  The sort is stable.                   *)
buildTmsLeaderboard(snapshot) ==
  LET placed == [i \in DOMAIN snapshot |->
                   [snapshot[i] EXCEPT !.position = IF @ = 0 THEN i ELSE @]]
      before(i, j) == \/ placed[i].position < placed[j].position
                      \/ placed[i].position = placed[j].position /\ i < j
      withCar == SelectSeq([i \in DOMAIN placed |-> i], LAMBDA i : placed[i].car # 0)
      order   == SortSeq(withCar, before)
  IN  [k \in DOMAIN order |-> placed[order[k]]]

(* leaderboard.findIndex(...): 0 when there is none. *)
IndexOfCar(board, car) ==
  IF \E i \in DOMAIN board : board[i].car = car
  THEN CHOOSE i \in DOMAIN board :
         board[i].car = car /\ \A j \in 1 .. i - 1 : board[j].car # car
  ELSE 0

EntryOf(board, car) ==
  LET i == IndexOfCar(board, car) IN IF i = 0 THEN NoEntry ELSE board[i]

-----------------------------------------------------------------------------
(* Metrics of an entry *)

resolveLapMetric(entry) == IF entry.last > 0 THEN entry.last ELSE AtLeastZero(entry.best)

(* Mutant of toHundredths: a negative time is kept. *)
toHundredthsUnclamped(ms) == ms \div 100

(* In spite of its name it gives tenths of a second. *)
toHundredths(ms) == AtLeastZero(ms) \div 100

buildFrontDelta(entry, ahead) ==
  IF entry.passage > 0 /\ ahead.passage > 0 /\ entry.passage >= ahead.passage
  THEN toHundredths(entry.passage - ahead.passage)
  ELSE toHundredths(entry.gap - ahead.gap)

deriveMetricColor(current, previous, carBest, sessionBest) ==
  LET reaches(best) == best > 0 /\ current <= best
  IN  IF current <= 0 THEN "white"
      ELSE IF reaches(sessionBest) THEN "purple"
      ELSE IF reaches(carBest) THEN "green"
      ELSE IF previous > 0 /\ current < previous THEN "yellow"
      ELSE "white"

-----------------------------------------------------------------------------
(* The bytes of a frame *)

(* value | (bit), for a bit that is a power of two. *)
SetBit(value, bit) == IF (value \div bit) % 2 = 1 THEN value ELSE value + bit

(* Mutant of applyDeltaColor: the white bit is a bit of the value. *)
DeltaColorInValue(value, color) ==
  IF color = "white" THEN SetBit(value, 8192)
  ELSE IF color = "yellow" THEN value ELSE SetBit(value, 32768)

applyDeltaColor(value, color) ==
  IF color = "white" THEN SetBit(value, 16384)
  ELSE IF color = "yellow" THEN value ELSE SetBit(value, 32768)

applyLapColor(value, color) ==
  LET low == IF color \in {"white", "purple"} THEN SetBit(value, 4194304) ELSE value
  IN  IF color \in {"green", "purple"} THEN SetBit(low, 8388608) ELSE low

(* (value >> n) & 0xFF, with unit for 2^n. *)
Byte(value, unit) == (value \div unit) % 256

(* What a frame says: the numbers and the colors of the three metrics, and *)
(* the position.                                                           *)
encodeTmsPayload(says) ==
  LET front == applyDeltaColor(AtLeastZero(says.front), says.frontColor)
      rear  == applyDeltaColor(AtLeastZero(says.rear), says.rearColor)
      lap   == applyLapColor(AtLeastZero(says.lap), says.lapColor)
      place == IF says.position > 255 THEN 255 ELSE AtLeastZero(says.position)
  IN  <<Byte(front, 1), Byte(front, 256), Byte(rear, 1), Byte(rear, 256), place,
        Byte(lap, 1), Byte(lap, 256), Byte(lap, 65536)>>

(* The reference: what a display reads in the bytes.  A delta has 14 bits  *)
(* and two colors of its own, a lap time 22 bits and three.                *)
DecodedDelta(low, high) ==
  [value |-> (low + 256 * high) % 16384,
   color |-> (low + 256 * high) \div 16384]

DecodedLap(low, mid, high) ==
  [value |-> (low + 256 * mid + 65536 * high) % 4194304,
   color |-> (low + 256 * mid + 65536 * high) \div 4194304]

DeltaColorCode(color) == IF color = "yellow" THEN 0 ELSE IF color = "white" THEN 1 ELSE 2
LapColorCode(color)   == IF color = "yellow" THEN 0 ELSE IF color = "white" THEN 1
                         ELSE IF color = "green" THEN 2 ELSE 3

DeltaMax == 16383
LapMax   == 4194303

FitsTheFrame(says) ==
  /\ says.front \in 0 .. DeltaMax
  /\ says.rear \in 0 .. DeltaMax
  /\ says.lap \in 0 .. LapMax
  /\ says.position \in 0 .. 255

Reads(bytes, says) ==
  /\ DecodedDelta(bytes[1], bytes[2]) =
       [value |-> says.front, color |-> DeltaColorCode(says.frontColor)]
  /\ DecodedDelta(bytes[3], bytes[4]) =
       [value |-> says.rear, color |-> DeltaColorCode(says.rearColor)]
  /\ bytes[5] = says.position
  /\ DecodedLap(bytes[6], bytes[7], bytes[8]) =
       [value |-> says.lap, color |-> LapColorCode(says.lapColor)]

-----------------------------------------------------------------------------
(* The packet of an entry.  memory is what the page remembers of earlier   *)
(* leaderboards: previous, the entry each car had (Object.values visits    *)
(* car numbers in ascending order), and the best value of each metric, by  *)
(* car and in the session.                                                 *)

PreviousAhead(memory, previous) ==
  LET isAhead(c) == memory.previous[c] # NoEntry
                      /\ memory.previous[c].position = previous.position - 1
  IN  IF previous.position > 1 /\ \E c \in DOMAIN memory.previous : isAhead(c)
      THEN memory.previous[CHOOSE c \in DOMAIN memory.previous :
             isAhead(c) /\ \A d \in DOMAIN memory.previous : isAhead(d) => c <= d]
      ELSE NoEntry

(* front, rear and lap depend on the board alone. *)
MetricsOf(entry, board) ==
  LET i      == IndexOfCar(board, entry.car)
      ahead  == IF i > 1 THEN board[i - 1] ELSE NoEntry
      behind == IF i > 0 /\ i < Len(board) THEN board[i + 1] ELSE NoEntry
  IN  [front |-> buildFrontDelta(entry, ahead),
       rear  |-> toHundredths(resolveLapMetric(behind)),
       lap   |-> resolveLapMetric(entry)]

computeTmsPacket(entry, board, memory) ==
  LET now      == MetricsOf(entry, board)
      previous == memory.previous[entry.car]
      before   == IF previous = NoEntry THEN [m \in Metrics |-> 0]
                  ELSE [front |-> buildFrontDelta(previous, PreviousAhead(memory, previous)),
                        rear  |-> toHundredths(resolveLapMetric(previous)),
                        lap   |-> resolveLapMetric(previous)]
      color(m) == deriveMetricColor(now[m], before[m],
                                    memory.byCar[m][entry.car], memory.session[m])
  IN  [front |-> now.front, rear |-> now.rear, lap |-> now.lap,
       position |-> IF entry.position = 0 THEN 1 ELSE entry.position,
       frontColor |-> color("front"), rearColor |-> color("rear"), lapColor |-> color("lap")]

(* The same packet on a test link that shows the car number in place of    *)
(* the rear gap.                                                           *)
TestPacket(says, car, useCarOnTestRear) ==
  IF useCarOnTestRear THEN [says EXCEPT !.rear = car, !.rearColor = "yellow"] ELSE says

=============================================================================
