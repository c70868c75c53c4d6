---------------------------- MODULE SessionStore ----------------------------
(***************************************************************************)
(* The store of desktop sessions, internal/infrastructure/desktopsession:  *)
(* a map in memory, under one mutex, written as a whole to a JSON file     *)
(* after every change and read back when the server starts.                *)
(*                                                                         *)
(* saveLocked reports no error: the file may be left as it was (it cannot  *)
(* be created or opened) or be truncated (the write fails, or the process  *)
(* ends in the middle of it), and a file that does not parse is read back  *)
(* as no session at all.  The server may stop between any two operations,  *)
(* and starts without sessions when it cannot read the file, which stays   *)
(* as it is until the next write.                                          *)
(***************************************************************************)
EXTENDS Integers

CONSTANTS
  Session,   (* session ids                                                 *)
  Device,    (* device ids, Unknown among them                              *)
  User,      (* user ids, Unknown among them                                *)
  Unknown,   (* the empty id                                                *)
  Owner,     (* the <<device, user>> that register; the handler wants a user *)
  Lifetime,  (* what a registration or a validation gives a session: 12 h   *)
  MaxTime    (* bound on the clock                                          *)

ASSUME StoreAssumption ==
  /\ Unknown \in Device \cap User
  /\ Owner \subseteq Device \X (User \ {Unknown})
  /\ Lifetime \in Nat \ {0}
  /\ MaxTime \in Nat

VARIABLES
  now,       \* time.Now()
  up,        \* the server runs
  records,   \* Store.records; empty while the server is down
  file,      \* the session file, as load would read it
  verdict,   \* the answer of the step, if it is Validate
  listing,   \* the answer of the step, if it is List
  faulty     \* history: the last write or read of the file has failed

vars == <<now, up, records, file, verdict, listing, faulty>>

Record == [device : Device, user : User, expires : 0 .. MaxTime + Lifetime]
Absent == [device |-> Unknown, user |-> Unknown, expires |-> -1]
Empty  == [s \in Session |-> Absent]

TypeOK ==
  /\ now \in 0 .. MaxTime
  /\ up \in BOOLEAN
  /\ records \in [Session -> Record \cup {Absent}]
  /\ file \in [Session -> Record \cup {Absent}]
  /\ verdict \in {"none", "valid", "session_not_found", "session_expired",
                  "device_mismatch", "user_mismatch"}
  /\ listing \in SUBSET Session
  /\ faulty \in BOOLEAN

Init ==
  /\ now = 0
  /\ up = TRUE
  /\ records = Empty
  /\ file = Empty
  /\ verdict = "none"
  /\ listing = {}
  /\ faulty = FALSE

(* Mutant of Expired: not strict. *)
ExpiredAtOnce(r) == now >= r.expires

(* now.After(ExpiresAt) *)
Expired(r) == now > r.expires

NoAnswer == verdict' = "none" /\ listing' = {}

-----------------------------------------------------------------------------
(* Mutants of saveLocked: the change stays in memory, or is merged into the   *)
(* file, which keeps the sessions that memory has not.                       *)
NotSaved == UNCHANGED <<file, faulty>>
MergedIntoFile ==
  /\ file' = [s \in Session |-> IF records'[s] = Absent THEN file[s] ELSE records'[s]]
  /\ faulty' = FALSE

(* saveLocked, at the end of an operation that has set records' *)
saveLocked ==
  \/ file' = records' /\ faulty' = FALSE
  \/ file' \in {file, Empty} /\ faulty' = TRUE

(* Mutant of RegisteredUntil: the expiry is the start of the lifetime. *)
AddedToIt(expires) == IF expires > now THEN expires + Lifetime ELSE now + Lifetime

(* An expiry that is not in the future is replaced by the default. *)
RegisteredUntil(expires) == IF expires > now THEN expires ELSE now + Lifetime

Register(s, device, user, expires) ==
  /\ up
  /\ records' = [records EXCEPT ![s] =
       [device |-> device, user |-> user, expires |-> RegisteredUntil(expires)]]
  /\ saveLocked
  /\ NoAnswer
  /\ UNCHANGED <<now, up>>

Mismatch(a, b) == a # Unknown /\ b # Unknown /\ a # b

Prolonged(s) == [records EXCEPT ![s].expires = now + Lifetime]

(* Validate's early returns, in their order. *)
Refusal(s, device, user) ==
  IF records[s] = Absent THEN "session_not_found"
  ELSE IF Expired(records[s]) THEN "session_expired"
  ELSE IF Mismatch(device, records[s].device) THEN "device_mismatch"
  ELSE IF Mismatch(user, records[s].user) THEN "user_mismatch"
  ELSE "valid"

Validate(s, device, user) ==
  LET answer == Refusal(s, device, user)
  IN  /\ up
      /\ verdict' = answer
      /\ listing' = {}
      /\ records' = CASE answer = "session_expired" -> [records EXCEPT ![s] = Absent]
                      [] answer = "valid"           -> Prolonged(s)
                      [] OTHER                      -> records
      /\ IF answer \in {"session_expired", "valid"} THEN saveLocked
         ELSE UNCHANGED <<file, faulty>>
      /\ UNCHANGED <<now, up>>

Delete(s) ==
  /\ up
  /\ records' = [records EXCEPT ![s] = Absent]
  /\ saveLocked
  /\ NoAnswer
  /\ UNCHANGED <<now, up>>

List ==
  LET Live == {s \in Session : records[s] # Absent /\ ~Expired(records[s])}
  IN  /\ up
      /\ listing' = Live
      /\ verdict' = "none"
      /\ records' = [s \in Session |-> IF s \in Live THEN records[s] ELSE Absent]
      /\ IF records' # records THEN saveLocked ELSE UNCHANGED <<file, faulty>>
      /\ UNCHANGED <<now, up>>

-----------------------------------------------------------------------------
Tick ==
  /\ now < MaxTime
  /\ now' = now + 1
  /\ NoAnswer
  /\ UNCHANGED <<up, records, file, faulty>>

Crash ==
  /\ up
  /\ up' = FALSE
  /\ records' = Empty
  /\ NoAnswer
  /\ UNCHANGED <<now, file, faulty>>

Unless(r) == IF Expired(r) THEN Absent ELSE r

(* NewStore, which loads the file and leaves out what has expired, or finds *)
(* that it cannot be read.                                                  *)
load ==
  /\ ~up
  /\ up' = TRUE
  /\ \/ records' = [s \in Session |-> Unless(file[s])] /\ faulty' = FALSE
     \/ records' = Empty /\ faulty' = TRUE
  /\ NoAnswer
  /\ UNCHANGED <<now, file>>

Next ==
  \/ \E s \in Session, o \in Owner, e \in 0 .. MaxTime + Lifetime : Register(s, o[1], o[2], e)
  \/ \E s \in Session, d \in Device, u \in User : Validate(s, d, u)
  \/ \E s \in Session : Delete(s)
  \/ List
  \/ Tick
  \/ Crash
  \/ load

Spec == Init /\ [][Next]_vars

-----------------------------------------------------------------------------
(* Properties *)

(* Memory and file may differ only from a write or a read that has failed  *)
(* (store.go:143, 161, 172) to the next that succeeds: then a restart that  *)
(* can read the file finds exactly the sessions that are live in memory,    *)
(* though each drops expired ones at moments of its own.                    *)
FileIsCurrent ==
  up /\ ~faulty => \A s \in Session : Unless(file[s]) = Unless(records[s])

(* The store is a registry of the sessions that are live in memory, with    *)
(* those that are live in the file for a later start: what Register,        *)
(* Validate, Delete and List do and answer is decided by the live sessions, *)
(* whatever expired ones are still about, and whichever writes and reads    *)
(* fail, a start brings back the sessions as one write left them, or none.  *)
Registry == INSTANCE SessionRegistry WITH
  live    <- [s \in Session |-> Unless(records[s])],
  kept    <- [s \in Session |-> Unless(file[s])],
  verdict <- IF verdict \in {"none", "valid"} THEN verdict ELSE "refused"

ImplementsRegistry == Registry!RSpec
=============================================================================
