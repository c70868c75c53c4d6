----------------------- MODULE SectorAutoClear_proofs -----------------------
(***************************************************************************)
(* Safety of the auto-clear scheduler, for any operators, sectors, flags   *)
(* and bounds.                                                             *)
(***************************************************************************)
EXTENDS SectorAutoClear, TLAPS

(* What the scheduler's mutex protects: no timer is ahead of its sector's   *)
(* version, versions tell timers apart, and the current one is green.       *)
VersionInv ==
  /\ \A t \in timers : t.version <= versions[t.sector]
  /\ OneTimerPerVersion
  /\ CurrentTimerIsGreen

(* What is true of a sector as long as its commands have not overlapped.    *)
Undisturbed(s) ==
  /\ \A c, d \in unrecorded : c.sector = s /\ d.sector = s => c = d
  /\ \A c \in unrecorded : c.sector = s => lastCmd[s] = c.flag
  /\ (\A c \in unrecorded : c.sector # s) => lastCmd[s] = lastRec[s]
  /\ \A t \in timers : t.sector = s /\ t.at \in {"passed", "clearing"}
       => /\ \A c \in unrecorded : c.sector # s
          /\ lastCmd[s] = Green

OverlapInv == \A s \in Sector \ overlapped : Undisturbed(s)

USE DEF Clear, Green, None

-----------------------------------------------------------------------------
(* Every variable keeps its type: versions only grow from 0, and the cache  *)
(* holds flags of X2 and nothing else (client.go:297-317, server.go:48-96). *)
LEMMA FlagsExist == Clear \in Flag /\ Green \in Flag
  BY ConstantsAssumption DEF ConstantsAssumption

(* The scheduler starts with versions of 0 and no timer, as                 *)
(* newSectorAutoClearScheduler makes it.                                    *)
LEMMA InitType == Init => TypeOK
<1> SUFFICES ASSUME Init PROVE TypeOK
  OBVIOUS
<1>1. feed \in Seq(Report) /\ unrecorded \in SUBSET Command /\ timers \in SUBSET Timer
  BY DEF Init
<1>2. x2flag \in [Sector -> Flag] /\ versions \in [Sector -> Nat]
  BY FlagsExist DEF Init
<1>3. /\ cache \in [Sector -> Flag \cup {None}]
      /\ lastCmd \in [Sector -> Flag \cup {None}]
      /\ lastRec \in [Sector -> Flag \cup {None}]
  BY DEF Init
<1> QED BY <1>1, <1>2, <1>3 DEF Init, TypeOK

(* A write to X2 leaves its flags and its reports typed, whether X2         *)
(* receives it or not.                                                      *)
LEMMA WrittenType ==
  ASSUME TypeOK, NEW s \in Sector, NEW f \in Flag, Written(s, f)
  PROVE  /\ x2flag' \in [Sector -> Flag]
         /\ feed' \in Seq(Report)
         /\ covered' \in SUBSET Sector
<1>1. CASE Changed(s, f)
  <2>1. [sector |-> s, flag |-> f] \in Report
    BY DEF Report
  <2> QED BY <1>1, <2>1 DEF Changed, TypeOK
<1>2. CASE UNCHANGED x2
  BY <1>2 DEF x2, TypeOK
<1> QED BY <1>1, <1>2 DEF Written

(* No step of a request, a timer, X2 or the listener takes a variable out   *)
(* of its type.                                                             *)
LEMMA StepType == TypeOK /\ [Next]_vars => TypeOK'
<1> SUFFICES ASSUME TypeOK, [Next]_vars PROVE TypeOK'
  OBVIOUS
<1> USE FlagsExist
<1>1. ASSUME NEW o \in Operator, NEW s \in Sector, NEW f \in Flag, setSectorFlag(o, s, f)
      PROVE  TypeOK'
  <2>1. [by |-> o, sector |-> s, flag |-> f] \in Command
    BY DEF Command
  <2>2. lastCmd' \in [Sector -> Flag \cup {None}]
    BY <1>1 DEF setSectorFlag, TypeOK
  <2>3. Written(s, f)
    BY <1>1 DEF setSectorFlag
  <2>4. overlapped' \in SUBSET Sector /\ autoCleared' \in SUBSET Sector /\ commands' \in Nat
    BY <1>1 DEF setSectorFlag, TypeOK
  <2> QED BY <1>1, <2>1, <2>2, <2>3, <2>4, WrittenType DEF setSectorFlag, TypeOK, scheduler, client
<1>2. ASSUME NEW c \in unrecorded, Record(c)
      PROVE  TypeOK'
  <2>1. c \in Command
    BY DEF TypeOK
  <2>2. RecordedVersion(c) \in Nat
    <3>1. c.sector \in Sector
      BY <2>1 DEF Command
    <3> QED BY <3>1 DEF TypeOK, RecordedVersion
  <2>3. [sector |-> c.sector, version |-> RecordedVersion(c), at |-> "armed"] \in Timer
    BY <2>1, <2>2 DEF Command, Timer
  <2>4. timers' \in SUBSET Timer
    BY <1>2, <2>3 DEF Record, TypeOK
  <2>5. versions' \in [Sector -> Nat] /\ lastRec' \in [Sector -> Flag \cup {None}]
    BY <1>2, <2>1, <2>2 DEF Record, TypeOK, Command
  <2> QED BY <1>2, <2>4, <2>5 DEF Record, TypeOK, client, x2, bounds
<1>3. ASSUME NEW t \in timers, TimerStep(t)
      PROVE  TypeOK'
  <2>1. t \in Timer
    BY DEF TypeOK
  <2>2. /\ [t EXCEPT !.at = "passed"] \in Timer
        /\ [t EXCEPT !.at = "clearing"] \in Timer
        /\ [t EXCEPT !.at = "cleared"] \in Timer
        /\ t.sector \in Sector
    BY <2>1 DEF Timer
  <2>3. CASE TimerFires(t)
    BY <2>2, <2>3 DEF TimerFires, MovesTo, Ends, TypeOK, client, x2, bounds
  <2>4. CASE TimerLooks(t)
    BY <2>2, <2>4 DEF TimerLooks, MovesTo, Ends, TypeOK, client, x2, bounds
  <2>5. CASE TimerClears(t)
    <3>1. Written(t.sector, Clear) /\ Clear \in Flag
      BY <2>5 DEF TimerClears
    <3> QED BY <2>2, <2>5, <3>1, WrittenType DEF TimerClears, MovesTo, TypeOK, client, bounds
  <2>6. CASE TimerFails(t)
    BY <2>2, <2>6 DEF TimerFails, Ends, TypeOK, client, x2, bounds
  <2>7. CASE TimerRetires(t)
    <3>1. RetiredVersion(t) \in Nat
      BY <2>2 DEF RetiredVersion, TypeOK
    <3> QED BY <2>2, <2>7, <3>1 DEF TimerRetires, Ends, TypeOK, client, x2, history, bounds
  <2> QED BY <1>3, <2>3, <2>4, <2>5, <2>6, <2>7 DEF TimerStep
<1>4. ASSUME NEW s \in Sector, NEW f \in Flag, ConsoleChange(s, f)
      PROVE  TypeOK'
  <2>1. Written(s, f)
    BY <1>4 DEF ConsoleChange, Written
  <2>2. console' \in Nat
    BY <1>4 DEF ConsoleChange, TypeOK
  <2> QED BY <1>4, <2>1, <2>2, WrittenType DEF ConsoleChange, TypeOK, scheduler, client, history
<1>5. CASE Reconnect
  BY <1>5 DEF Reconnect, TypeOK, scheduler, client, history, bounds
<1>6. CASE setSectorStates
  <2>1. Head(feed) \in Report /\ Tail(feed) \in Seq(Report)
    BY <1>6 DEF setSectorStates, TypeOK
  <2>2. cache' \in [Sector -> Flag \cup {None}]
    BY <1>6, <2>1 DEF setSectorStates, MergedFlag, Report, TypeOK
  <2> QED BY <1>6, <2>1, <2>2 DEF setSectorStates, TypeOK, scheduler, history, bounds
<1>7. CASE setTrack
  BY <1>7 DEF setTrack, TypeOK, scheduler, x2, history, bounds
<1>8. CASE UNCHANGED vars
  BY <1>8 DEF vars, scheduler, client, x2, history, bounds, TypeOK
<1> QED BY <1>1, <1>2, <1>3, <1>4, <1>5, <1>6, <1>7, <1>8 DEF Next

(* Every variable keeps its type: the versions of the scheduler stay        *)
(* natural numbers, and the cache holds flags of X2 and nothing else.       *)
THEOREM TypeCorrect == Spec => []TypeOK
  BY InitType, StepType, PTL DEF Spec

-----------------------------------------------------------------------------
(* A step of timer t removes it or puts it one stage further: no timer but  *)
(* t changes, and none changes its sector or its version.                   *)
LEMMA TimerMoves ==
  ASSUME TypeOK, NEW t \in timers, TimerStep(t)
  PROVE  /\ UNCHANGED <<lastCmd, lastRec, unrecorded>>
         /\ \A u \in timers' :
              \/ u \in timers /\ u # t
              \/ u.sector = t.sector /\ u.version = t.version
         /\ \A u, w \in timers' : u \notin timers \ {t} /\ w \notin timers \ {t} => u = w
<1>1. t \in Timer
  BY DEF TypeOK
<1>2. \A at : /\ [t EXCEPT !.at = at].sector = t.sector
              /\ [t EXCEPT !.at = at].version = t.version
  BY <1>1 DEF Timer
<1>3. Ends(t) \/ \E at : MovesTo(t, at)
  BY DEF TimerStep, TimerFires, TimerLooks, TimerClears, TimerFails, TimerRetires
<1>4. UNCHANGED <<lastCmd, lastRec, unrecorded>>
  BY DEF TimerStep, TimerFires, TimerLooks, TimerClears, TimerFails, TimerRetires, history
<1> QED BY <1>2, <1>3, <1>4 DEF Ends, MovesTo

(* Without a timer there is nothing to tell apart. *)
LEMMA VersionInit == Init => VersionInv
  BY DEF Init, VersionInv, OneTimerPerVersion, CurrentTimerIsGreen

(* Recording gives the sector a version that no timer has yet.              *)
LEMMA RecordVersion ==
  ASSUME TypeOK, VersionInv, NEW c \in unrecorded, Record(c)
  PROVE  VersionInv'
<1> DEFINE s == c.sector
           timer == [sector |-> s, version |-> RecordedVersion(c), at |-> "armed"]
<1>1. s \in Sector
  BY DEF TypeOK, Command
<1>2. versions \in [Sector -> Nat] /\ lastRec \in [Sector -> Flag \cup {None}]
  BY DEF TypeOK
<1>3. \A u \in timers : u.sector \in Sector /\ u.version \in Nat /\ u.version <= versions[u.sector]
  BY DEF TypeOK, Timer, VersionInv
<1>4. /\ versions' = [versions EXCEPT ![s] = versions[s] + 1]
      /\ timers' = IF c.flag = Green THEN timers \cup {timer} ELSE timers
      /\ lastRec' = [lastRec EXCEPT ![s] = c.flag]
  BY DEF Record, RecordedVersion
<1>5. timer.sector = s /\ timer.version = versions[s] + 1
  BY DEF RecordedVersion
<1>6. \A u \in timers' : u.version <= versions'[u.sector]
  BY <1>1, <1>2, <1>3, <1>4, <1>5
<1>7. OneTimerPerVersion'
  <2>1. \A u \in timers : u.sector = s => u.version # timer.version
    BY <1>1, <1>2, <1>3, <1>5
  <2> QED BY <1>4, <1>5, <2>1 DEF VersionInv, OneTimerPerVersion
<1>8. CurrentTimerIsGreen'
  <2> SUFFICES ASSUME NEW u \in timers', u.version = versions'[u.sector]
               PROVE  lastRec'[u.sector] = Green
    BY DEF CurrentTimerIsGreen
  <2>1. CASE u \in timers
    <3>1. u.sector # s
      BY <1>1, <1>2, <1>3, <1>4, <2>1
    <3>2. lastRec[u.sector] = Green
      BY <1>2, <1>3, <1>4, <2>1, <3>1 DEF VersionInv, CurrentTimerIsGreen
    <3> QED BY <1>2, <1>3, <1>4, <2>1, <3>1, <3>2
  <2>2. CASE u \notin timers
    <3>1. c.flag = Green /\ u = timer
      BY <1>4, <2>2
    <3> QED BY <1>1, <1>2, <1>4, <1>5, <3>1
  <2> QED BY <2>1, <2>2
<1> QED BY <1>6, <1>7, <1>8 DEF VersionInv

(* A step of a timer keeps what the mutex protects: it arms nothing, and    *)
(* raises no version but its own sector's.                                  *)
LEMMA TimerVersion ==
  ASSUME TypeOK, VersionInv, NEW t \in timers, TimerStep(t)
  PROVE  VersionInv'
<1>1. versions \in [Sector -> Nat] /\ \A u \in timers : u.sector \in Sector /\ u.version \in Nat
  BY DEF TypeOK, Timer
<1>2. \/ versions' = versions
      \/ /\ versions[t.sector] = t.version
         /\ versions' = [versions EXCEPT ![t.sector] = @ + 1]
         /\ timers' = timers \ {t}
  <2>1. CASE TimerRetires(t)
    BY <1>1, <2>1 DEF TimerRetires, RetiredVersion, Current, Ends
  <2>2. CASE ~TimerRetires(t)
    BY <2>2 DEF TimerStep, TimerFires, TimerLooks, TimerClears, TimerFails
  <2> QED BY <2>1, <2>2
<1>3. \A u \in timers' : \E w \in timers : w.sector = u.sector /\ w.version = u.version
  BY TimerMoves
<1>4. \A u \in timers' : u.version <= versions'[u.sector]
  BY <1>1, <1>2, <1>3 DEF VersionInv
<1>5. OneTimerPerVersion'
  BY TimerMoves DEF VersionInv, OneTimerPerVersion
<1>6. CurrentTimerIsGreen'
  <2>1. \A u \in timers' : u.version = versions'[u.sector] => u.version = versions[u.sector]
    <3>1. CASE versions' = versions
      BY <3>1
    <3>2. CASE /\ versions[t.sector] = t.version
               /\ versions' = [versions EXCEPT ![t.sector] = @ + 1]
               /\ timers' = timers \ {t}
      BY <1>1, <3>2 DEF VersionInv
    <3> QED BY <1>2, <3>1, <3>2
  <2> QED BY <1>3, <2>1, TimerMoves DEF VersionInv, CurrentTimerIsGreen
<1> QED BY <1>4, <1>5, <1>6 DEF VersionInv

(* Record and the timers, each under the mutex (server.go:64-71, 76-81,     *)
(* 89-92), keep it.                                                         *)
LEMMA VersionStep == TypeOK /\ VersionInv /\ [Next]_vars => VersionInv'
<1> SUFFICES ASSUME TypeOK, VersionInv, [Next]_vars PROVE VersionInv'
  OBVIOUS
<1>1. CASE UNCHANGED <<versions, timers, lastRec>>
  BY <1>1 DEF VersionInv, OneTimerPerVersion, CurrentTimerIsGreen
<1>2. ASSUME NEW c \in unrecorded, Record(c) PROVE VersionInv'
  BY <1>2, RecordVersion
<1>3. ASSUME NEW t \in timers, TimerStep(t) PROVE VersionInv'
  BY <1>3, TimerVersion
<1>4. CASE \E o \in Operator, s \in Sector, f \in Flag : setSectorFlag(o, s, f)
  BY <1>1, <1>4 DEF setSectorFlag, scheduler
<1>5. CASE \/ \E s \in Sector, f \in Flag : ConsoleChange(s, f)
           \/ Reconnect \/ setSectorStates \/ setTrack \/ UNCHANGED vars
  BY <1>1, <1>5 DEF ConsoleChange, Reconnect, setSectorStates, setTrack, vars, scheduler, history
<1> QED BY <1>2, <1>3, <1>4, <1>5 DEF Next

(* Versions tell the timers of a sector apart, whatever the interleaving of *)
(* requests and timers: a green is never cleared by two of them             *)
(* (server.go:65-96).                                                       *)
THEOREM VersionsTellTimersApart == Spec => []OneTimerPerVersion
<1>1. VersionInv => OneTimerPerVersion
  BY DEF VersionInv
<1> QED BY <1>1, InitType, StepType, VersionInit, VersionStep, PTL DEF Spec

(* The timer of the current version belongs to the last recorded command,   *)
(* which was green: Record's counter and the re-check before the version is *)
(* retired (server.go:66-69, 77, 90) agree on which green is pending.       *)
THEOREM CurrentMeansGreen == Spec => []CurrentTimerIsGreen
<1>1. VersionInv => CurrentTimerIsGreen
  BY DEF VersionInv
<1> QED BY <1>1, InitType, StepType, VersionInit, VersionStep, PTL DEF Spec
-----------------------------------------------------------------------------
(* No command has been sent: every sector is undisturbed. *)
LEMMA OverlapInit == Init => OverlapInv
  BY DEF Init, OverlapInv, Undisturbed

(* A command that is written while no other is under way leaves its sector  *)
(* undisturbed (server.go:103-109).                                         *)
LEMMA OverlapSend ==
  ASSUME TypeOK, OverlapInv,
         NEW o \in Operator, NEW r \in Sector, NEW f \in Flag, setSectorFlag(o, r, f)
  PROVE  OverlapInv'
<1> DEFINE sent == [by |-> o, sector |-> r, flag |-> f]
<1> SUFFICES ASSUME NEW s \in Sector, s \notin overlapped' PROVE Undisturbed(s)'
  BY DEF OverlapInv
<1>1. /\ unrecorded' = unrecorded \cup {sent}
      /\ lastCmd' = [lastCmd EXCEPT ![r] = f]
      /\ lastRec' = lastRec /\ timers' = timers
      /\ overlapped \subseteq overlapped'
      /\ (InFlight(r) = {} /\ Deciding(r) = {}) \/ r \in overlapped'
  BY DEF setSectorFlag, scheduler
<1>2. Undisturbed(s)
  BY <1>1 DEF OverlapInv
<1>3. lastCmd \in [Sector -> Flag \cup {None}]
  BY DEF TypeOK
<1>4. sent.sector = r /\ sent.flag = f
  OBVIOUS
<1>5. CASE s # r
  <2>1. lastCmd'[s] = lastCmd[s]
    BY <1>1, <1>3, <1>5
  <2> QED BY <1>1, <1>2, <1>4, <1>5, <2>1 DEF Undisturbed
<1>6. CASE s = r
  <2>1. (\A c \in unrecorded : c.sector # s)
    BY <1>1, <1>6 DEF InFlight
  <2>2. \A t \in timers : ~(t.sector = s /\ t.at \in {"passed", "clearing"})
    BY <1>1, <1>6 DEF Deciding
  <2>3. lastCmd'[s] = f
    BY <1>1, <1>3, <1>6
  <2> HIDE DEF sent
  <2> QED BY <1>1, <1>4, <1>6, <2>1, <2>2, <2>3 DEF Undisturbed
<1> QED BY <1>5, <1>6

(* Record makes the command that was written last the one recorded last. *)
LEMMA OverlapRecord ==
  ASSUME TypeOK, OverlapInv, NEW c \in unrecorded, Record(c)
  PROVE  OverlapInv'
<1> DEFINE timer == [sector |-> c.sector, version |-> RecordedVersion(c), at |-> "armed"]
<1> SUFFICES ASSUME NEW s \in Sector, s \notin overlapped' PROVE Undisturbed(s)'
  BY DEF OverlapInv
<1>1. /\ unrecorded' = unrecorded \ {c}
      /\ lastCmd' = lastCmd
      /\ lastRec' = [lastRec EXCEPT ![c.sector] = c.flag]
      /\ timers' \subseteq timers \cup {timer}
      /\ overlapped' = overlapped
  BY DEF Record
<1>2. Undisturbed(s)
  BY <1>1 DEF OverlapInv
<1>3. lastRec \in [Sector -> Flag \cup {None}] /\ c.sector \in Sector
  BY DEF TypeOK, Command
<1>4. timer.at = "armed"
  OBVIOUS
<1>5. \A t \in timers' : t.sector = s /\ t.at \in {"passed", "clearing"}
        => (\A d \in unrecorded : d.sector # s) /\ lastCmd[s] = Green
  <2> HIDE DEF timer
  <2> QED BY <1>1, <1>2, <1>4 DEF Undisturbed
<1>6. (\A d \in unrecorded' : d.sector # s) => lastCmd[s] = lastRec'[s]
  <2>1. CASE c.sector = s
    BY <1>1, <1>2, <1>3, <2>1 DEF Undisturbed
  <2>2. CASE c.sector # s
    BY <1>1, <1>2, <1>3, <2>2 DEF Undisturbed
  <2> QED BY <2>1, <2>2
<1> QED BY <1>1, <1>2, <1>5, <1>6 DEF Undisturbed

(* The stages of the timer that moves: it enters "passed" only at the check. *)
LEMMA OverlapTimer ==
  ASSUME TypeOK, VersionInv, OverlapInv, NEW t \in timers, TimerStep(t)
  PROVE  OverlapInv'
<1> SUFFICES ASSUME NEW s \in Sector, s \notin overlapped' PROVE Undisturbed(s)'
  BY DEF OverlapInv
<1>1. UNCHANGED <<lastCmd, lastRec, unrecorded>>
  BY TimerMoves
<1>2. overlapped \subseteq overlapped'
  BY DEF TimerStep, TimerFires, TimerLooks, TimerClears, TimerFails, TimerRetires, history
<1>3. Undisturbed(s)
  BY <1>2 DEF OverlapInv
<1>4. t \in Timer
  BY DEF TypeOK
<1>5. ASSUME NEW u \in timers', u.sector = s, u.at \in {"passed", "clearing"}
      PROVE  (\A c \in unrecorded : c.sector # s) /\ lastCmd[s] = Green
  <2>1. CASE u \in timers
    BY <1>3, <1>5, <2>1 DEF Undisturbed
  <2>2. CASE u \notin timers
    <3>1. TimerFires(t) \/ TimerLooks(t)
      <4>1. CASE TimerClears(t)
        BY <1>4, <1>5, <2>2, <4>1 DEF TimerClears, MovesTo, Timer
      <4>2. CASE TimerFails(t) \/ TimerRetires(t)
        BY <2>2, <4>2 DEF TimerFails, TimerRetires, Ends
      <4> QED BY <4>1, <4>2 DEF TimerStep
    <3>2. u.sector = t.sector
      BY <2>2, TimerMoves
    <3>3. CASE TimerFires(t)
      <4>1. versions[t.sector] = t.version /\ InFlight(s) = {}
        BY <1>5, <2>2, <3>2, <3>3 DEF TimerFires, Ends, Current
      <4>2. lastRec[s] = Green
        BY <1>5, <3>2, <4>1 DEF VersionInv, CurrentTimerIsGreen
      <4> QED BY <1>3, <4>1, <4>2 DEF InFlight, Undisturbed
    <3>4. CASE TimerLooks(t)
      <4>1. t.at = "passed"
        BY <3>4 DEF TimerLooks
      <4> QED BY <1>3, <1>5, <3>2, <4>1 DEF Undisturbed
    <3> QED BY <3>1, <3>3, <3>4
  <2> QED BY <2>1, <2>2
<1> QED BY <1>1, <1>3, <1>5 DEF Undisturbed

(* The whole step: only a command that overlaps another disturbs a sector. *)
LEMMA OverlapStep == TypeOK /\ VersionInv /\ OverlapInv /\ [Next]_vars => OverlapInv'
<1> SUFFICES ASSUME TypeOK, VersionInv, OverlapInv, [Next]_vars PROVE OverlapInv'
  OBVIOUS
<1>1. ASSUME NEW o \in Operator, NEW s \in Sector, NEW f \in Flag, setSectorFlag(o, s, f)
      PROVE  OverlapInv'
  BY <1>1, OverlapSend
<1>2. ASSUME NEW c \in unrecorded, Record(c) PROVE OverlapInv'
  BY <1>2, OverlapRecord
<1>3. ASSUME NEW t \in timers, TimerStep(t) PROVE OverlapInv'
  BY <1>3, OverlapTimer
<1>4. CASE \/ \E s \in Sector, f \in Flag : ConsoleChange(s, f)
           \/ Reconnect \/ setSectorStates \/ setTrack \/ UNCHANGED vars
  <2>1. UNCHANGED <<unrecorded, timers, lastCmd, lastRec, overlapped>>
    BY <1>4 DEF ConsoleChange, Reconnect, setSectorStates, setTrack, vars, scheduler, history
  <2> QED BY <2>1 DEF OverlapInv, Undisturbed
<1> QED BY <1>1, <1>2, <1>3, <1>4 DEF Next

(* Auto-clear is right for commands that do not overlap: a timer that is    *)
(* about to clear a sector is about to overwrite the green the operators    *)
(* asked for last (server.go:75-96 with 215-229).                           *)
THEOREM SequentialUseIsSafe == Spec => []SequentialClearHitsGreen
<1>1. TypeOK /\ OverlapInv => SequentialClearHitsGreen
  BY DEF TypeOK, Timer, OverlapInv, Undisturbed, SequentialClearHitsGreen
<1> QED BY <1>1, InitType, StepType, VersionInit, VersionStep, OverlapInit, OverlapStep, PTL
        DEF Spec

-----------------------------------------------------------------------------
(* What the client knows of a sector all of whose changes since the socket  *)
(* was opened are in the cache or under way: the last report under way is   *)
(* of the flag the sector has, and if none is under way the cache has it,   *)
(* unless it is Clear, which the merge may have left out.                   *)
Known(s) ==
  /\ \A i \in DOMAIN feed :
       /\ feed[i].sector = s
       /\ \A j \in DOMAIN feed : j > i => feed[j].sector # s
       => feed[i].flag = x2flag[s]
  /\ (\A i \in DOMAIN feed : feed[i].sector # s) =>
       x2flag[s] = Clear \/ cache[s] = x2flag[s]

KnownInv == \A s \in covered : Known(s)

(* X2 has not reported anything yet. *)
LEMMA KnownInit == Init => KnownInv
  BY DEF Init, KnownInv

(* A change is under way as soon as it is made. *)
LEMMA KnownChanged ==
  ASSUME TypeOK, KnownInv, NEW r \in Sector, NEW f \in Flag, Changed(r, f), UNCHANGED cache
  PROVE  KnownInv'
<1> DEFINE report == [sector |-> r, flag |-> f]
<1> SUFFICES ASSUME NEW s \in covered' PROVE Known(s)'
  BY DEF KnownInv
<1>1. feed \in Seq(Report) /\ report \in Report /\ x2flag \in [Sector -> Flag]
  BY DEF TypeOK, Report
<1>2. /\ x2flag' = [x2flag EXCEPT ![r] = f]
      /\ feed' = Append(feed, report)
      /\ covered' = covered \cup {r}
  BY DEF Changed
<1>3. /\ Len(feed) \in Nat
      /\ DOMAIN feed = 1 .. Len(feed) /\ DOMAIN feed' = 1 .. Len(feed) + 1
      /\ feed'[Len(feed) + 1] = report
      /\ \A i \in 1 .. Len(feed) : feed'[i] = feed[i]
  BY <1>1, <1>2
<1>4. report.sector = r /\ report.flag = f
  OBVIOUS
<1> HIDE DEF report
<1>5. CASE s = r
  <2>1. x2flag'[s] = f
    BY <1>1, <1>2, <1>5
  <2>2. \A i \in DOMAIN feed' : i # Len(feed) + 1 => Len(feed) + 1 > i
    BY <1>3
  <2>3. Len(feed) + 1 \in DOMAIN feed' /\ feed'[Len(feed) + 1].sector = s
    BY <1>3, <1>4, <1>5
  <2> QED BY <1>3, <1>4, <2>1, <2>2, <2>3 DEF Known
<1>6. CASE s # r
  <2>1. x2flag'[s] = x2flag[s] /\ Known(s)
    BY <1>1, <1>2, <1>6 DEF KnownInv
  <2>2. \A i \in DOMAIN feed' : feed'[i].sector = s => i \in DOMAIN feed /\ feed'[i] = feed[i]
    BY <1>3, <1>4, <1>6
  <2>3. \A i \in DOMAIN feed : i \in DOMAIN feed' /\ feed'[i] = feed[i]
    BY <1>3
  <2> QED BY <2>1, <2>2, <2>3 DEF Known
<1> QED BY <1>5, <1>6

(* The listener takes the oldest report: the cache is merged with the flag  *)
(* the sector has, if no other report of it follows.                        *)
LEMMA KnownRead ==
  ASSUME TypeOK, KnownInv, setSectorStates
  PROVE  KnownInv'
<1> SUFFICES ASSUME NEW s \in covered PROVE Known(s)'
  BY DEF setSectorStates, KnownInv
<1>1. /\ feed \in Seq(Report) /\ feed # <<>> /\ cache \in [Sector -> Flag \cup {None}]
      /\ UNCHANGED <<x2flag, covered>>
      /\ feed' = Tail(feed)
      /\ cache' = [cache EXCEPT ![Head(feed).sector] = MergedFlag(@, Head(feed).flag)]
  BY DEF TypeOK, setSectorStates
<1>2. /\ Len(feed) \in Nat \ {0} /\ DOMAIN feed = 1 .. Len(feed) /\ Head(feed) = feed[1]
      /\ DOMAIN feed' = 1 .. Len(feed) - 1
      /\ \A i \in DOMAIN feed' : i + 1 \in DOMAIN feed /\ feed'[i] = feed[i + 1]
  BY <1>1
<1>3. Known(s)
  BY DEF KnownInv
<1>4. Head(feed) \in Report
  BY <1>1
<1>5. ASSUME NEW i \in DOMAIN feed', feed'[i].sector = s,
             \A j \in DOMAIN feed' : j > i => feed'[j].sector # s
      PROVE  feed'[i].flag = x2flag'[s]
  <2>1. i + 1 \in DOMAIN feed /\ feed[i + 1].sector = s
    BY <1>2, <1>5
  <2>2. ASSUME NEW j \in DOMAIN feed, j > i + 1 PROVE feed[j].sector # s
    <3>1. j - 1 \in DOMAIN feed' /\ j - 1 > i /\ feed'[j - 1] = feed[j]
      BY <1>2, <2>2
    <3> QED BY <1>5, <3>1
  <2> QED BY <1>1, <1>2, <1>3, <2>1, <2>2 DEF Known
<1>6. ASSUME \A i \in DOMAIN feed' : feed'[i].sector # s
      PROVE  x2flag'[s] = Clear \/ cache'[s] = x2flag'[s]
  <2>1. ASSUME NEW j \in DOMAIN feed, j > 1 PROVE feed[j].sector # s
    <3>1. j - 1 \in DOMAIN feed' /\ feed'[j - 1] = feed[j]
      BY <1>2, <2>1
    <3> QED BY <1>6, <3>1
  <2>2. CASE Head(feed).sector # s
    <3>1. \A i \in DOMAIN feed : feed[i].sector # s
      BY <1>2, <2>1, <2>2
    <3>2. cache'[s] = cache[s]
      BY <1>1, <2>2
    <3> QED BY <1>1, <1>3, <3>1, <3>2 DEF Known
  <2>3. CASE Head(feed).sector = s
    <3>1. Head(feed).flag = x2flag[s]
      BY <1>2, <1>3, <2>1, <2>3 DEF Known
    <3>2. s \in Sector
      BY <1>4, <2>3 DEF Report
    <3>3. cache'[s] = MergedFlag(cache[s], x2flag[s])
      BY <1>1, <2>3, <3>1, <3>2
    <3> QED BY <1>1, <3>3 DEF MergedFlag
  <2> QED BY <2>2, <2>3
<1> QED BY <1>5, <1>6 DEF Known

(* Requests, timers and X2's console change X2 and report it, or leave      *)
(* both alone; when the socket is replaced nothing is known any more.       *)
LEMMA KnownStep == TypeOK /\ KnownInv /\ [Next]_vars => KnownInv'
<1> SUFFICES ASSUME TypeOK, KnownInv, [Next]_vars PROVE KnownInv'
  OBVIOUS
<1>1. CASE UNCHANGED <<x2, cache>>
  BY <1>1 DEF KnownInv, Known, x2
<1>2. ASSUME NEW s \in Sector, NEW f \in Flag, Written(s, f), UNCHANGED cache
      PROVE  KnownInv'
  BY <1>1, <1>2, KnownChanged DEF Written
<1>3. CASE \E o \in Operator, s \in Sector, f \in Flag : setSectorFlag(o, s, f)
  BY <1>2, <1>3 DEF setSectorFlag, client
<1>4. ASSUME NEW c \in unrecorded, Record(c) PROVE KnownInv'
  BY <1>1, <1>4 DEF Record, client
<1>5. ASSUME NEW t \in timers, TimerStep(t) PROVE KnownInv'
  <2>1. CASE TimerClears(t)
    <3>1. t.sector \in Sector
      BY DEF TypeOK, Timer
    <3> QED BY <1>2, <2>1, <3>1, FlagsExist DEF TimerClears, client
  <2>2. CASE ~TimerClears(t)
    BY <1>1, <1>5, <2>2 DEF TimerStep, TimerFires, TimerLooks, TimerFails, TimerRetires, client
  <2> QED BY <2>1, <2>2
<1>6. CASE \E s \in Sector, f \in Flag : ConsoleChange(s, f)
  BY <1>2, <1>6 DEF ConsoleChange, Written, client
<1>7. CASE Reconnect
  BY <1>7 DEF Reconnect, KnownInv
<1>8. CASE setSectorStates
  BY <1>8, KnownRead
<1>9. CASE setTrack \/ UNCHANGED vars
  BY <1>1, <1>9 DEF setTrack, vars, client
<1> QED BY <1>3, <1>4, <1>5, <1>6, <1>7, <1>8, <1>9 DEF Next

(* The place before a sector in the configuration, going round, is the one  *)
(* previousSectorIsYellow looks for (server.go:116-121).                    *)
LEMMA PreviousIsBefore ==
  ASSUME NEW s \in Sector, NEW p \in Sector, p # s, JustBefore(p, s)
  PROVE  TrackOrder # <<>> /\ PreviousInTrack(s) = p
<1>1. /\ TrackOrder \in Seq(Sector)
      /\ \A i, j \in DOMAIN TrackOrder : TrackOrder[i] = TrackOrder[j] => i = j
  BY ConstantsAssumption DEF ConstantsAssumption
<1>2. PICK n \in Nat : n = Len(TrackOrder) /\ DOMAIN TrackOrder = 1 .. n
  BY <1>1
<1>3. PICK i \in 1 .. n : TrackOrder[i] = p /\ TrackOrder[(i % n) + 1] = s
  BY <1>2 DEF JustBefore
<1>4. (i < n => i % n = i) /\ (i = n => i % n = 0)
  BY <1>2
<1>5. PICK k \in 1 .. n : k = (i % n) + 1 /\ TrackOrder[k] = s
  BY <1>2, <1>3, <1>4
<1>6. n >= 2
  BY <1>3, <1>4, <1>5
<1>7. {j \in DOMAIN TrackOrder : TrackOrder[j] = s} = {k}
  BY <1>1, <1>2, <1>5
<1>8. (CHOOSE j \in {k} : \A l \in {k} : j <= l) = k
  <2>1. \E j \in {k} : \A l \in {k} : j <= l
    OBVIOUS
  <2> QED BY <2>1
<1>9. PreviousInTrack(s) = IF k = 1 THEN TrackOrder[n] ELSE TrackOrder[k - 1]
  BY <1>2, <1>6, <1>7, <1>8 DEF PreviousInTrack
<1>10. p = IF k = 1 THEN TrackOrder[n] ELSE TrackOrder[k - 1]
  BY <1>3, <1>4, <1>5
<1> QED BY <1>2, <1>6, <1>9, <1>10

(* A timer never decides to clear a sector behind one that is yellow at X2, *)
(* once the reports on that one have been read, whatever the order of the   *)
(* sectors and however commands, reports and reconnections interleave: the  *)
(* cache (client.go:297-317) may hold a flag for too long, but misses none, *)
(* and the look at it (server.go:98-135) finds the right sector.            *)
THEOREM NeighbourIsRespected == Spec => YellowNeighbourKeepsGreen
<1>1. TypeOK /\ VersionInv /\ KnownInv /\ [Next]_vars =>
        [\A t \in timers, p \in Sector :
           /\ DecidesToClear(t)
           /\ trackKnown
           /\ p # t.sector
           /\ JustBefore(p, t.sector)
           /\ ReportsRead(p)
           => ~isYellowSectorFlag(x2flag[p])]_vars
  <2> SUFFICES ASSUME TypeOK, VersionInv, KnownInv, Next, NEW t \in timers, NEW p \in Sector,
                      DecidesToClear(t), trackKnown, p # t.sector,
                      JustBefore(p, t.sector), ReportsRead(p),
                      isYellowSectorFlag(x2flag[p])
               PROVE  FALSE
    OBVIOUS
  <2>1. t \in Timer /\ t.sector \in Sector
    BY DEF TypeOK, Timer
  <2>2. t.at = "passed" /\ [t EXCEPT !.at = "clearing"].at = "clearing"
    BY <2>1 DEF DecidesToClear, Timer
  <2>3. cache[p] = x2flag[p]
    BY DEF ReportsRead, KnownInv, Known, isYellowSectorFlag
  <2>4. previousSectorIsYellow(t.sector)
    <3>1. PreviousSector(t.sector) = p
      BY <2>1, PreviousIsBefore DEF PreviousSector
    <3>2. p # 0
      BY ConstantsAssumption DEF ConstantsAssumption
    <3> QED BY <2>3, <3>1, <3>2 DEF previousSectorIsYellow
  <2>5. PICK u \in timers' : u = [t EXCEPT !.at = "clearing"]
    BY DEF DecidesToClear
  <2>6. u # t /\ u.sector = t.sector /\ u.version = t.version /\ u.at = "clearing"
    BY <2>1, <2>2, <2>5 DEF Timer
  <2>7. u \notin timers
    BY <2>6 DEF VersionInv, OneTimerPerVersion
  <2>8. CASE \E c \in unrecorded : Record(c)
    <3>1. PICK c \in unrecorded : Record(c)
      BY <2>8
    <3>2. u.at = "armed"
      BY <2>5, <2>7, <3>1 DEF Record
    <3> QED BY <2>6, <3>2
  <2>9. CASE \E w \in timers : TimerStep(w)
    <3>1. PICK w \in timers : TimerStep(w)
      BY <2>9
    <3>5. u.sector = w.sector /\ u.version = w.version
      BY <2>5, <2>7, <3>1, TimerMoves
    <3>2. w = t
      BY <2>6, <3>5 DEF VersionInv, OneTimerPerVersion
    <3>3. TimerLooks(t)
      BY <2>2, <3>1, <3>2 DEF TimerStep, TimerFires, TimerClears, TimerFails, TimerRetires
    <3>4. timers' = timers \ {t}
      BY <2>4, <3>3 DEF TimerLooks, Ends
    <3> QED BY <2>5, <2>7, <3>4
  <2>10. CASE UNCHANGED timers
    BY <2>5, <2>7, <2>10
  <2>11. \/ \E c \in unrecorded : Record(c)
         \/ \E w \in timers : TimerStep(w)
         \/ UNCHANGED timers
    BY DEF Next, setSectorFlag, ConsoleChange, Reconnect, setSectorStates, setTrack, scheduler
  <2> QED BY <2>8, <2>9, <2>10, <2>11
<1> QED BY <1>1, InitType, StepType, VersionInit, VersionStep, KnownInit, KnownStep, PTL
       DEF Spec, YellowNeighbourKeepsGreen

=============================================================================
