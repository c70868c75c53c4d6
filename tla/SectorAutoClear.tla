--------------------------- MODULE SectorAutoClear ---------------------------
(***************************************************************************)
(* The sector auto-clear scheduler of cmd/api/server.go.                   *)
(*                                                                         *)
(* An operator (an HTTP request, from the desktop application or a Stream  *)
(* Deck) sets the flag of a sector: applySectorFlag writes the command to  *)
(* X2 and, once the write has succeeded, calls Record.  Record gives the   *)
(* sector a new version and, for a green flag, arms a 15 s timer that      *)
(* remembers the version.  When the timer fires and the version is still   *)
(* current, the timer looks at the previous sector in a snapshot of the    *)
(* client's cache; unless that sector is yellow it sets the sector to      *)
(* Clear.                                                                  *)
(*                                                                         *)
(* Sending and recording are two steps of the request's goroutine, and     *)
(* checking the version, taking the snapshot, sending Clear and retiring   *)
(* the version are four steps of the timer's: no lock is held from one to  *)
(* the next.  X2 itself is external: it applies what it receives, may be   *)
(* changed from its own console, and reports every change on the socket.   *)
(***************************************************************************)
EXTENDS Integers, FiniteSets, Sequences

CONSTANTS
  Operator,     (* goroutines that serve a request to set a sector flag      *)
  Sector,       (* X2's sector ids: positive integers                        *)
  Flag,         (* the flag codes that are used                              *)
  TrackOrder,   (* the sectors of the track configuration, in track order    *)
  MaxCommands,  (* bound: sector commands the operators send                 *)
  MaxConsole,   (* bound: changes made at X2's own console                   *)
  MaxFeed       (* bound: reports of X2 that have not been read yet          *)

Clear == 0
Green == 5
None  == -1      \* no flag: never reported, never commanded

ASSUME ConstantsAssumption ==
  /\ Sector \subseteq Nat \ {0}
  /\ IsFiniteSet(Sector)
  /\ Flag \subseteq Nat
  /\ {Clear, Green} \subseteq Flag
  /\ TrackOrder \in Seq(Sector)
  /\ \A i, j \in DOMAIN TrackOrder : TrackOrder[i] = TrackOrder[j] => i = j
  /\ MaxCommands \in Nat
  /\ MaxConsole \in Nat
  /\ MaxFeed \in Nat

VARIABLES
  unrecorded,  \* the commands whose write succeeded and whose Record is still to come
  versions,    \* sectorAutoClearScheduler.versions
  timers,      \* the AfterFunc timers that have not ended
  cache,       \* Client.sectors: the flag of each sector, None if absent
  trackKnown,  \* Client.track has been received
  x2flag,      \* the flag each sector has at X2
  feed         \* X2's sector reports on their way to the client

(* History, read by the properties only and never by a guard: *)
VARIABLES
  lastCmd,     \* per sector: the flag of the operators' last written command
  lastRec,     \* per sector: the flag of the last Record
  autoCleared, \* sectors cleared by a timer after the operators' last command
  excused,     \* sectors for which a timer ended without clearing
  overlapped,  \* sectors on which two commands have been under way at once
  covered,     \* sectors all of whose changes are in cache or feed
  commands,    \* sector commands sent so far
  console      \* console changes made so far

scheduler == <<versions, timers>>
client    == <<cache, trackKnown>>
x2        == <<x2flag, feed, covered>>
history   == <<lastCmd, lastRec, autoCleared, excused, overlapped>>
bounds    == <<commands, console>>
vars == <<unrecorded, scheduler, client, x2, history, bounds>>

Timer   == [sector : Sector, version : Nat,
            at : {"armed", "passed", "clearing", "cleared"}]
Report  == [sector : Sector, flag : Flag]
Command == [by : Operator, sector : Sector, flag : Flag]

TypeOK ==
  /\ unrecorded \in SUBSET Command
  /\ versions \in [Sector -> Nat]
  /\ timers \in SUBSET Timer
  /\ cache \in [Sector -> Flag \cup {None}]
  /\ trackKnown \in BOOLEAN
  /\ x2flag \in [Sector -> Flag]
  /\ feed \in Seq(Report)
  /\ lastCmd \in [Sector -> Flag \cup {None}]
  /\ lastRec \in [Sector -> Flag \cup {None}]
  /\ autoCleared \in SUBSET Sector
  /\ excused \in SUBSET Sector
  /\ overlapped \in SUBSET Sector
  /\ covered \in SUBSET Sector
  /\ commands \in Nat
  /\ console \in Nat

Init ==
  /\ unrecorded = {}
  /\ versions = [s \in Sector |-> 0]
  /\ timers = {}
  /\ cache = [s \in Sector |-> None]
  /\ trackKnown = FALSE
  /\ x2flag = [s \in Sector |-> Clear]
  /\ feed = <<>>
  /\ lastCmd = [s \in Sector |-> None]
  /\ lastRec = [s \in Sector |-> None]
  /\ autoCleared = {}
  /\ excused = {}
  /\ overlapped = {}
  /\ covered = {}
  /\ commands = 0
  /\ console = 0

-----------------------------------------------------------------------------
(* The pure helpers of server.go. *)

isYellowSectorFlag(flag) == flag \in {2, 3, 32, 33, 34}

KnownSectors == {s \in Sector : cache[s] # None}

Greatest(S) == CHOOSE s \in S : \A r \in S : r <= s

(* The sector before s, going round: in the order of the track configuration *)
(* when there is one, in the order of the ids of the cached sectors when     *)
(* there is none; 0 when s has no place in that order or is alone in it.     *)
PreviousInTrack(s) ==
  LET places == {i \in DOMAIN TrackOrder : TrackOrder[i] = s}
      place  == CHOOSE i \in places : \A j \in places : i <= j
  IN  IF Len(TrackOrder) < 2 \/ places = {} THEN 0
      ELSE IF place = 1 THEN TrackOrder[Len(TrackOrder)]
      ELSE TrackOrder[place - 1]

PreviousById(s) ==
  LET before == {r \in KnownSectors : r < s}
  IN  IF s \notin KnownSectors \/ KnownSectors = {s} THEN 0
      ELSE IF before # {} THEN Greatest(before)
      ELSE Greatest(KnownSectors)

PreviousSector(s) ==
  IF trackKnown /\ TrackOrder # <<>> THEN PreviousInTrack(s) ELSE PreviousById(s)

previousSectorIsYellow(s) ==
  LET previous == PreviousSector(s)
  IN  previous # 0 /\ isYellowSectorFlag(cache[previous])

(* The cache's merge: a reported 0 does not replace a flag that is set. *)
MergedFlag(current, flag) ==
  IF flag # 0 \/ current \in {None, 0} THEN flag ELSE current

-----------------------------------------------------------------------------
(* X2 and the socket between it and the client. *)

(* X2's sector s takes flag f, and X2 reports it to its subscribers. *)
Changed(s, f) ==
  /\ Len(feed) < MaxFeed
  /\ x2flag' = [x2flag EXCEPT ![s] = f]
  /\ feed' = Append(feed, [sector |-> s, flag |-> f])
  /\ covered' = covered \cup {s}

(* A successful write: X2 receives it, or the socket was already dead. *)
Written(s, f) == Changed(s, f) \/ UNCHANGED x2

ConsoleChange(s, f) ==
  /\ console < MaxConsole
  /\ console' = console + 1
  /\ Changed(s, f)
  /\ UNCHANGED <<unrecorded, scheduler, client, history, commands>>

(* The socket is replaced: the reports under way are lost. *)
Reconnect ==
  /\ feed' = <<>>
  /\ covered' = {}
  /\ feed # <<>> \/ covered # {}
  /\ UNCHANGED <<unrecorded, scheduler, client, x2flag, history, bounds>>

setSectorStates ==
  /\ feed # <<>>
  /\ LET report == Head(feed)
     IN  cache' = [cache EXCEPT ![report.sector] = MergedFlag(@, report.flag)]
  /\ feed' = Tail(feed)
  /\ UNCHANGED <<unrecorded, scheduler, trackKnown, x2flag, covered, history, bounds>>

setTrack ==
  /\ ~trackKnown
  /\ trackKnown' = TRUE
  /\ UNCHANGED <<unrecorded, scheduler, cache, x2, history, bounds>>

-----------------------------------------------------------------------------
(* An operator's request: applySectorFlag is setSectorFlag, then Record.  A *)
(* setSectorFlag whose write and retry both fail changes nothing here.      *)

InFlight(s) == {c \in unrecorded : c.sector = s}
Deciding(s) == {t \in timers : t.sector = s /\ t.at \in {"passed", "clearing"}}

setSectorFlag(o, s, f) ==
  /\ \A c \in unrecorded : c.by # o
  /\ commands < MaxCommands
  /\ Written(s, f)
  /\ unrecorded' = unrecorded \cup {[by |-> o, sector |-> s, flag |-> f]}
  /\ commands' = commands + 1
  /\ lastCmd' = [lastCmd EXCEPT ![s] = f]
  /\ autoCleared' = autoCleared \ {s}
  /\ overlapped' = IF InFlight(s) # {} \/ Deciding(s) # {}
                   THEN overlapped \cup {s} ELSE overlapped
  /\ UNCHANGED <<scheduler, client, lastRec, excused, console>>

(* Mutants of RecordedVersion: the bump left out for some flags, or a wrong sign. *)
BumpedIfGreen(c)    == IF c.flag = Green THEN versions[c.sector] + 1 ELSE versions[c.sector]
BumpedUnlessGreen(c) == IF c.flag = Green THEN versions[c.sector] ELSE versions[c.sector] + 1
SteppedBack(c)      == versions[c.sector] - 1

RecordedVersion(c) == versions[c.sector] + 1

Record(c) ==
  LET timer == [sector |-> c.sector, version |-> RecordedVersion(c), at |-> "armed"]
  IN  /\ versions' = [versions EXCEPT ![c.sector] = RecordedVersion(c)]
      /\ timers' = IF c.flag = Green THEN timers \cup {timer} ELSE timers
      /\ lastRec' = [lastRec EXCEPT ![c.sector] = c.flag]
      /\ unrecorded' = unrecorded \ {c}
      /\ UNCHANGED <<client, x2, lastCmd, autoCleared, excused, overlapped, bounds>>

-----------------------------------------------------------------------------
(* The timer's function. *)

MovesTo(t, at) == timers' = (timers \ {t}) \cup {[t EXCEPT !.at = at]}
Ends(t)        == timers' = timers \ {t}

(* Mutant of Current: the version is not compared. *)
NotCompared(t) == TRUE

Current(t) == versions[t.sector] = t.version

(* The version check, under the scheduler's mutex. *)
TimerFires(t) ==
  /\ t.at = "armed"
  /\ IF Current(t) THEN MovesTo(t, "passed") ELSE Ends(t)
  /\ overlapped' = IF Current(t) /\ InFlight(t.sector) # {}
                   THEN overlapped \cup {t.sector} ELSE overlapped
  /\ UNCHANGED <<unrecorded, versions, client, x2, lastCmd, lastRec, autoCleared,
                 excused, bounds>>

(* The snapshot of the cache and the look at the previous sector. *)
TimerLooks(t) ==
  /\ t.at = "passed"
  /\ IF previousSectorIsYellow(t.sector)
     THEN Ends(t) /\ excused' = excused \cup {t.sector}
     ELSE MovesTo(t, "clearing") /\ UNCHANGED excused
  /\ UNCHANGED <<unrecorded, versions, client, x2, lastCmd, lastRec, autoCleared,
                 overlapped, bounds>>

(* setSectorFlag(sector, sectorClearFlag) succeeds ... *)
TimerClears(t) ==
  /\ t.at = "clearing"
  /\ Written(t.sector, Clear)
  /\ MovesTo(t, "cleared")
  /\ autoCleared' = autoCleared \cup {t.sector}
  /\ UNCHANGED <<unrecorded, versions, client, lastCmd, lastRec, excused, overlapped,
                 bounds>>

(* ... or fails, after its retry: nothing arms the timer again. *)
TimerFails(t) ==
  /\ t.at = "clearing"
  /\ Ends(t)
  /\ excused' = excused \cup {t.sector}
  /\ UNCHANGED <<unrecorded, versions, client, x2, lastCmd, lastRec, autoCleared,
                 overlapped, bounds>>

(* Mutant of RetiredVersion: the version is not compared again. *)
RetiredAnyway(t) == versions[t.sector] + 1

(* The version that has been cleared is retired, unless it was replaced. *)
RetiredVersion(t) ==
  IF Current(t) THEN versions[t.sector] + 1 ELSE versions[t.sector]

TimerRetires(t) ==
  /\ t.at = "cleared"
  /\ versions' = [versions EXCEPT ![t.sector] = RetiredVersion(t)]
  /\ Ends(t)
  /\ UNCHANGED <<unrecorded, client, x2, history, bounds>>

TimerStep(t) ==
  \/ TimerFires(t)
  \/ TimerLooks(t)
  \/ TimerClears(t)
  \/ TimerFails(t)
  \/ TimerRetires(t)

-----------------------------------------------------------------------------
Next ==
  \/ \E o \in Operator, s \in Sector, f \in Flag : setSectorFlag(o, s, f)
  \/ \E c \in unrecorded : Record(c)
  \/ \E t \in timers : TimerStep(t)
  \/ \E s \in Sector, f \in Flag : ConsoleChange(s, f)
  \/ Reconnect
  \/ setSectorStates
  \/ setTrack

Spec == Init /\ [][Next]_vars

(* A request's goroutine goes on after its write and the runtime runs the  *)
(* timers that are due.  Nothing else is forced: nobody has to send a      *)
(* command or touch the console, and X2's reports may never be read.       *)
Fairness ==
  /\ WF_vars(\E c \in unrecorded : Record(c))
  /\ WF_vars(\E t \in timers : TimerStep(t))

FairSpec == Spec /\ Fairness

-----------------------------------------------------------------------------
(* Properties *)

(* Versions tell greens apart: two live timers of one sector never hold the *)
(* same version, so one green is never cleared by two timers.               *)
OneTimerPerVersion ==
  \A t, u \in timers : t.sector = u.sector /\ t.version = u.version => t = u

(* A timer whose version is still current belongs to the last recorded      *)
(* command of its sector, and that command was green.                       *)
CurrentTimerIsGreen ==
  \A t \in timers : t.version = versions[t.sector] => lastRec[t.sector] = Green

(* As long as the commands of a sector do not overlap (each is recorded     *)
(* before the next is written, none is written between a timer's check and  *)
(* its Clear), a timer about to clear the sector overwrites a green that is *)
(* the last thing the operators asked for.                                  *)
SequentialClearHitsGreen ==
  \A t \in timers :
    t.at \in {"passed", "clearing"} /\ t.sector \notin overlapped
      => lastCmd[t.sector] = Green

(* When a timer decides to clear, the previous sector of the track is not   *)
(* yellow at X2, provided that X2's reports on it have all been read: the   *)
(* cache may keep a flag for too long, but never misses one.                *)
ReportsRead(s) == s \in covered /\ \A i \in DOMAIN feed : feed[i].sector # s

JustBefore(p, s) ==
  \E i \in DOMAIN TrackOrder :
    TrackOrder[i] = p /\ TrackOrder[(i % Len(TrackOrder)) + 1] = s

DecidesToClear(t) == t.at = "passed" /\ [t EXCEPT !.at = "clearing"] \in timers'

YellowNeighbourKeepsGreen ==
  [][\A t \in timers, p \in Sector :
       /\ DecidesToClear(t)
       /\ trackKnown
       /\ p # t.sector
       /\ JustBefore(p, t.sector)
       /\ ReportsRead(p)
       => ~isYellowSectorFlag(x2flag[p])]_vars

(* A green that stays the last recorded command of its sector is cleared,   *)
(* unless one of the sector's timers gave up (yellow neighbour, or a Clear  *)
(* that could not be sent).                                                 *)
GreenIsCleared ==
  \A s \in Sector :
    lastRec[s] = Green
      ~> (lastRec[s] # Green \/ s \in autoCleared \/ s \in excused)

(* routes_test.go:443 expects a new flag of the sector to cancel the        *)
(* auto-clear: Clear is not sent to a sector whose last recorded command is *)
(* not green.                                                               *)
SendsClear(t) == t.at = "clearing" /\ [t EXCEPT !.at = "cleared"] \in timers'

NewFlagCancelsAutoClear ==
  [][\A t \in timers : SendsClear(t) => lastRec[t.sector] = Green]_vars
=============================================================================
