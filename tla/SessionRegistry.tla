--------------------------- MODULE SessionRegistry ---------------------------
(***************************************************************************)
(* What the store of desktop sessions promises.  While the server runs, a  *)
(* session lives from its registration until it is deleted or expires, and *)
(* a validation by its own device and user prolongs it: the answers depend *)
(* on the live sessions only.  A write keeps the live sessions for a later *)
(* start; one that fails keeps what was kept before, and one that is       *)
(* broken off keeps none.  A start brings back all that is kept or none of *)
(* it: it invents no session, and never mixes the sessions of two writes.  *)
(***************************************************************************)
EXTENDS Integers

CONSTANTS
  Session,   (* session ids                                                 *)
  Device,    (* device ids, Unknown among them                              *)
  User,      (* user ids, Unknown among them                                *)
  Unknown,   (* the empty id                                                *)
  Lifetime   (* what a registration or a validation gives a session: 12 h   *)

VARIABLES
  now,       \* the clock
  up,        \* the server runs
  live,      \* the sessions that it knows and that have not expired
  kept,      \* those that a start may bring back
  verdict,   \* the answer of the step, if it is a validation
  listing    \* the answer of the step, if it is List

registry == <<now, up, live, kept, verdict, listing>>

Record == [device : Device, user : User, expires : Nat]
Absent == [device |-> Unknown, user |-> Unknown, expires |-> -1]
None   == [s \in Session |-> Absent]

LiveAt(sessions, t) ==
  [s \in Session |-> IF sessions[s].expires < t THEN Absent ELSE sessions[s]]

RInit ==
  /\ now = 0
  /\ up = TRUE
  /\ live = None
  /\ kept = None
  /\ verdict = "none"
  /\ listing = {}

(* The write of an operation that has set live', if it makes one.          *)
Written  == kept' \in {live', kept, None}
NoAnswer == verdict' = "none" /\ listing' = {}
Serves   == up /\ UNCHANGED <<now, up>>

RRegister(s) ==
  /\ Serves
  /\ live'[s] \in Record
  /\ live'[s].expires > now
  /\ live' = [live EXCEPT ![s] = live'[s]]
  /\ Written
  /\ NoAnswer

SameId(a, b) == a = Unknown \/ b = Unknown \/ a = b

RValidate(s, device, user) ==
  LET valid == /\ live[s] # Absent
               /\ SameId(device, live[s].device)
               /\ SameId(user, live[s].user)
  IN  /\ Serves
      /\ verdict' = IF valid THEN "valid" ELSE "refused"
      /\ live' = IF valid THEN [live EXCEPT ![s].expires = now + Lifetime] ELSE live
      /\ Written
      /\ listing' = {}

RDelete(s) ==
  /\ Serves
  /\ live' = [live EXCEPT ![s] = Absent]
  /\ Written
  /\ NoAnswer

RList ==
  /\ Serves
  /\ listing' = {s \in Session : live[s] # Absent}
  /\ verdict' = "none"
  /\ live' = live
  /\ Written

RTick ==
  /\ now' = now + 1
  /\ live' = LiveAt(live, now + 1)
  /\ kept' = LiveAt(kept, now + 1)
  /\ NoAnswer /\ UNCHANGED up

RStop ==
  /\ up /\ up' = FALSE
  /\ live' = None
  /\ NoAnswer /\ UNCHANGED <<now, kept>>

(* A start that cannot read what is kept leaves it there until a write.    *)
RStart ==
  /\ ~up /\ up' = TRUE
  /\ live' \in {kept, None}
  /\ NoAnswer /\ UNCHANGED <<now, kept>>

RNext ==
  \/ \E s \in Session :
       \/ RRegister(s)
       \/ \E d \in Device, u \in User : RValidate(s, d, u)
       \/ RDelete(s)
  \/ RList
  \/ RTick
  \/ RStop
  \/ RStart

RSpec == RInit /\ [][RNext]_registry
=============================================================================
