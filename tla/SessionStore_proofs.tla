------------------------- MODULE SessionStore_proofs -------------------------
(***************************************************************************)
(* The store of desktop sessions implements the registry, for any sessions,*)
(* devices, users, lifetime and bound on the clock.                        *)
(***************************************************************************)
EXTENDS SessionStore, TLAPS

Answers == {"none", "valid", "session_not_found", "session_expired",
            "device_mismatch", "user_mismatch"}

Sessions == [Session -> Record \cup {Absent}]

-----------------------------------------------------------------------------
(* A record is present, and what the clock does to one leaves it a record   *)
(* or makes it absent.                                                      *)
LEMMA Records ==
  ASSUME now \in 0 .. MaxTime
  PROVE  /\ Absent \notin Record
         /\ Expired(Absent)
         /\ Empty \in Sessions
         /\ \A r \in Record \cup {Absent} :
              /\ Unless(r) \in Record \cup {Absent}
              /\ Unless(Unless(r)) = Unless(r)
              /\ r.expires \in Int
<1>1. MaxTime \in Nat /\ Lifetime \in Nat \ {0}
  BY StoreAssumption DEF StoreAssumption
<1>2. Absent.expires = -1 /\ Absent \notin Record
  BY <1>1 DEF Absent, Record
<1>3. Expired(Absent)
  BY <1>2 DEF Expired
<1>4. \A r \in Record : r.expires \in Int
  BY <1>1 DEF Record
<1> QED BY <1>2, <1>3, <1>4 DEF Unless, Empty, Sessions

(* A record with the expiry of a registration or of a validation. *)
LEMMA Expiries ==
  ASSUME now \in 0 .. MaxTime
  PROVE  /\ now + Lifetime \in 0 .. MaxTime + Lifetime
         /\ now + Lifetime > now
         /\ \A e \in 0 .. MaxTime + Lifetime :
              /\ RegisteredUntil(e) \in 0 .. MaxTime + Lifetime
              /\ RegisteredUntil(e) > now
<1>1. MaxTime \in Nat /\ Lifetime \in Nat \ {0}
  BY StoreAssumption DEF StoreAssumption
<1> QED BY <1>1 DEF RegisteredUntil

(* saveLocked writes the memory, or leaves the file typed and says so. *)
LEMMA Saved ==
  ASSUME file \in Sessions, Empty \in Sessions, records' \in Sessions, saveLocked
  PROVE  /\ file' \in Sessions
         /\ faulty' \in BOOLEAN
         /\ ~faulty' => file' = records'
BY DEF saveLocked

(* Who registers has ids of the right kind. *)
LEMMA Owners == \A o \in Owner : o[1] \in Device /\ o[2] \in User
BY StoreAssumption DEF StoreAssumption

(* The states of the store, all parts in one. *)
LEMMA Parts ==
  TypeOK <=>
    /\ now \in 0 .. MaxTime
    /\ up \in BOOLEAN
    /\ records \in Sessions
    /\ file \in Sessions
    /\ verdict \in Answers
    /\ listing \in SUBSET Session
    /\ faulty \in BOOLEAN
BY DEF TypeOK, Sessions, Answers

(* A validation prolongs only a session that is there. *)
LEMMA RefusalType ==
  ASSUME NEW s \in Session, NEW d, NEW u
  PROVE  /\ Refusal(s, d, u) \in Answers
         /\ Refusal(s, d, u) = "valid" => records[s] # Absent /\ ~Expired(records[s])
         /\ Refusal(s, d, u) = "session_expired" => Expired(records[s])
BY DEF Refusal, Answers

(* What an operation leaves in memory are sessions. *)
LEMMA RegisterType ==
  ASSUME TypeOK, NEW s \in Session, NEW d \in Device, NEW u \in User,
         NEW e \in 0 .. MaxTime + Lifetime, Register(s, d, u, e)
  PROVE  records' \in Sessions
<1>1. records \in Sessions /\ now \in 0 .. MaxTime
  BY Parts
<1>2. RegisteredUntil(e) \in 0 .. MaxTime + Lifetime
  BY <1>1, Expiries
<1>3. [device |-> d, user |-> u, expires |-> RegisteredUntil(e)] \in Record
  BY <1>2 DEF Record
<1> QED BY <1>1, <1>3 DEF Register, Sessions

(* Validate removes the session, prolongs it, or leaves the map alone. *)
LEMMA ValidateType ==
  ASSUME TypeOK, NEW s \in Session, NEW d \in Device, NEW u \in User, Validate(s, d, u)
  PROVE  records' \in Sessions
<1>1. records \in Sessions /\ now \in 0 .. MaxTime
  BY Parts
<1>2. CASE Refusal(s, d, u) = "valid"
  <2>1. records[s] \in Record
    BY <1>1, <1>2, RefusalType DEF Sessions
  <2>2. [records[s] EXCEPT !.expires = now + Lifetime] \in Record
    BY <1>1, <2>1, Expiries DEF Record
  <2>3. records' = [records EXCEPT ![s].expires = now + Lifetime]
    BY <1>2 DEF Validate, Prolonged
  <2> QED BY <1>1, <2>2, <2>3 DEF Sessions
<1>3. CASE Refusal(s, d, u) = "session_expired"
  BY <1>1, <1>3 DEF Validate, Sessions
<1>4. CASE Refusal(s, d, u) \notin {"valid", "session_expired"}
  BY <1>1, <1>4 DEF Validate
<1> QED BY <1>2, <1>3, <1>4

(* The initial store is empty. *)
LEMMA InitType == Init => TypeOK
<1> SUFFICES ASSUME Init PROVE TypeOK
  OBVIOUS
<1>1. now \in 0 .. MaxTime
  BY StoreAssumption DEF StoreAssumption, Init
<1>2. Empty \in Sessions
  BY <1>1, Records
<1> QED BY <1>1, <1>2, Parts DEF Init, Answers

(* Every operation, the clock, a stop and a restart. *)
LEMMA StepType == TypeOK /\ [Next]_vars => TypeOK'
<1> SUFFICES ASSUME TypeOK, [Next]_vars PROVE TypeOK'
  OBVIOUS
<1>a. /\ now \in 0 .. MaxTime /\ up \in BOOLEAN
      /\ records \in Sessions /\ file \in Sessions /\ faulty \in BOOLEAN
      /\ verdict \in Answers /\ listing \in SUBSET Session
  BY Parts
<1>b. Empty \in Sessions
  BY <1>a, Records
<1>c. NoAnswer => verdict' \in Answers /\ listing' \in SUBSET Session
  BY DEF NoAnswer, Answers
<1>1. ASSUME NEW s \in Session, NEW d \in Device, NEW u \in User,
             NEW e \in 0 .. MaxTime + Lifetime, Register(s, d, u, e)
      PROVE  TypeOK'
  BY <1>1, <1>a, <1>b, <1>c, Saved, RegisterType, Parts DEF Register, TypeOK, Sessions, Answers
<1>2. ASSUME NEW s \in Session, NEW d \in Device, NEW u \in User, Validate(s, d, u)
      PROVE  TypeOK'
  <2>1. records' \in Sessions
    BY <1>2, ValidateType
  <2>2. file' \in Sessions /\ faulty' \in BOOLEAN
    BY <1>2, <1>a, <1>b, <2>1, Saved DEF Validate
  <2>3. verdict' \in Answers /\ listing' \in SUBSET Session /\ UNCHANGED <<now, up>>
    BY <1>2, RefusalType DEF Validate
  <2> QED BY <1>a, <2>1, <2>2, <2>3 DEF TypeOK, Sessions, Answers
<1>3. ASSUME NEW s \in Session, Delete(s)
      PROVE  TypeOK'
  <2>1. records' \in Sessions
    BY <1>3, <1>a DEF Delete, Sessions
  <2> QED BY <1>3, <1>a, <1>b, <1>c, <2>1, Saved DEF Delete, TypeOK, Sessions, Answers
<1>4. ASSUME List
      PROVE  TypeOK'
  <2>1. records' \in Sessions
    BY <1>4, <1>a DEF List, Sessions
  <2>2. file' \in Sessions /\ faulty' \in BOOLEAN
    BY <1>4, <1>a, <1>b, <2>1, Saved DEF List
  <2>3. verdict' \in Answers /\ listing' \in SUBSET Session /\ UNCHANGED <<now, up>>
    BY <1>4 DEF List, Answers
  <2> QED BY <1>a, <2>1, <2>2, <2>3 DEF TypeOK, Sessions, Answers
<1>5. ASSUME Tick
      PROVE  TypeOK'
  <2>1. now' \in 0 .. MaxTime
    BY <1>5, <1>a, StoreAssumption DEF Tick, StoreAssumption
  <2> QED BY <1>5, <1>a, <1>c, <2>1 DEF Tick, TypeOK, Sessions, Answers
<1>6. ASSUME Crash
      PROVE  TypeOK'
  BY <1>6, <1>a, <1>b, <1>c DEF Crash, TypeOK, Sessions, Answers
<1>7. ASSUME load
      PROVE  TypeOK'
  <2>1. records' \in Sessions
    BY <1>7, <1>a, <1>b DEF load, Unless, Sessions
  <2> QED BY <1>7, <1>a, <1>c, <2>1 DEF load, TypeOK, Sessions, Answers
<1>8. CASE UNCHANGED vars
  BY <1>8 DEF vars, TypeOK
<1>9. \A o \in Owner : o[1] \in Device /\ o[2] \in User
  BY Owners
<1> QED BY <1>1, <1>2, <1>3, <1>4, <1>5, <1>6, <1>7, <1>8, <1>9 DEF Next

(* The store's map and its file hold records of known devices and users     *)
(* whose expiry is at most a lifetime away.                                 *)
THEOREM TypeCorrect == Spec => []TypeOK
  BY InitType, StepType, PTL DEF Spec

-----------------------------------------------------------------------------
(* What is left of a record at time t. *)
Kept(r, t) == IF t > r.expires THEN Absent ELSE r

(* A session that is gone at one time is gone at the next. *)
LEMMA GoneForGood ==
  ASSUME now \in 0 .. MaxTime, NEW r \in Record \cup {Absent}
  PROVE  /\ Kept(Kept(r, now), now) = Kept(r, now)
         /\ Kept(Kept(r, now), now + 1) = Kept(r, now + 1)
<1>1. r.expires \in Int /\ Absent.expires = -1 /\ now \in Nat
  BY Records, StoreAssumption DEF Absent, StoreAssumption
<1> QED BY <1>1 DEF Kept

(* A write that succeeds makes the file current, and a read the memory; time *)
(* passes for the file as it does for the memory.                           *)
LEMMA CurrentStep == TypeOK /\ FileIsCurrent /\ [Next]_vars => FileIsCurrent'
<1> SUFFICES ASSUME TypeOK, FileIsCurrent, [Next]_vars, up', ~faulty', NEW s \in Session
             PROVE  Kept(file'[s], now') = Kept(records'[s], now')
  BY DEF FileIsCurrent, Unless, Expired, Kept
<1>a. /\ now \in 0 .. MaxTime /\ records \in Sessions /\ file \in Sessions
      /\ file[s] \in Record \cup {Absent} /\ records[s] \in Record \cup {Absent}
  BY Parts DEF Sessions
<1>b. up /\ ~faulty => Kept(file[s], now) = Kept(records[s], now)
  BY DEF FileIsCurrent, Unless, Expired, Kept
<1>1. CASE saveLocked
  BY <1>1 DEF saveLocked
<1>2. CASE up /\ ~faulty /\ UNCHANGED <<now, file, records>>
  BY <1>2, <1>b
<1>3. CASE Tick
  <2>1. now' = now + 1 /\ UNCHANGED <<up, file, faulty, records>>
    BY <1>3 DEF Tick
  <2>2. Kept(file[s], now + 1) = Kept(records[s], now + 1)
    BY <1>a, <1>b, <2>1, GoneForGood
  <2> QED BY <2>1, <2>2
<1>4. CASE load
  <2>1. UNCHANGED <<now, file>> /\ records'[s] = Kept(file[s], now)
    BY <1>4 DEF load, Unless, Expired, Kept
  <2> QED BY <1>a, <2>1, GoneForGood
<1>5. ASSUME NEW r \in Session, NEW d \in Device, NEW u \in User, Validate(r, d, u)
      PROVE  Kept(file'[s], now') = Kept(records'[s], now')
  <2>1. CASE ~saveLocked
    <3>1. UNCHANGED <<now, up, file, faulty>> /\ Refusal(r, d, u) \notin {"session_expired", "valid"}
      BY <1>5, <2>1 DEF Validate
    <3>2. UNCHANGED records
      BY <1>5, <3>1 DEF Validate
    <3> QED BY <1>2, <3>1, <3>2
  <2> QED BY <1>1, <2>1
<1>6. CASE List
  BY <1>1, <1>2, <1>6 DEF List
<1>7. CASE UNCHANGED vars
  BY <1>2, <1>7 DEF vars
<1> QED BY <1>1, <1>3, <1>4, <1>5, <1>6, <1>7 DEF Next, Register, Delete, Crash

(* After a write or a read of the file that has not failed, and until one   *)
(* fails, a restart that can read the file finds the sessions that are live *)
(* in memory (store.go: load, saveLocked).                                  *)
THEOREM FileFollowsMemory == Spec => []FileIsCurrent
<1>1. Init => FileIsCurrent
  BY DEF Init, FileIsCurrent
<1> QED BY <1>1, InitType, StepType, CurrentStep, PTL DEF Spec

-----------------------------------------------------------------------------
(* The registry's state: what is live of a map of sessions. *)
LiveOf(sessions) == [s \in Session |-> Unless(sessions[s])]
LiveMap == LiveOf(records)
KeptMap == LiveOf(file)

(* What a session is in the registry, now and after a step. *)
LEMMA LiveNow ==
  ASSUME NEW s \in Session
  PROVE  /\ LiveMap[s] = Kept(records[s], now) /\ LiveMap'[s] = Kept(records'[s], now')
         /\ KeptMap[s] = Kept(file[s], now) /\ KeptMap'[s] = Kept(file'[s], now')
BY DEF LiveMap, KeptMap, LiveOf, Unless, Expired, Kept

(* The empty maps are the same. *)
LEMMA EmptyMaps ==
  ASSUME now \in 0 .. MaxTime, NEW sessions, \A s \in Session : sessions[s] = Absent
  PROVE  LiveOf(sessions) = Registry!None /\ Registry!Absent = Absent
<1>1. \A s \in Session : Unless(sessions[s]) = Absent
  BY Records DEF Unless
<1> QED BY <1>1 DEF LiveOf, Registry!None, Registry!Absent, Absent

(* A write keeps what is live, or what was kept, or nothing. *)
LEMMA WrittenSim ==
  ASSUME TypeOK, UNCHANGED now, saveLocked \/ UNCHANGED file
  PROVE  KeptMap' \in {LiveMap', KeptMap, Registry!None}
<1>a. now \in 0 .. MaxTime /\ now' = now
  BY Parts
<1>1. CASE file' = records'
  BY <1>1 DEF KeptMap, LiveMap, LiveOf
<1>2. CASE file' = file
  <2>1. \A s \in Session : KeptMap'[s] = KeptMap[s]
    BY <1>a, <1>2, LiveNow
  <2>2. KeptMap' = KeptMap
    BY <2>1 DEF KeptMap, LiveOf
  <2> QED BY <2>2
<1>3. CASE file' = Empty
  <2>1. \A s \in Session : KeptMap'[s] = Absent
    <3>1. Kept(Absent, now) = Absent
      BY DEF Kept
    <3> QED BY <1>a, <1>3, <3>1, LiveNow DEF Empty
  <2>2. Registry!Absent = Absent
    BY DEF Registry!Absent, Absent
  <2>3. KeptMap' = Registry!None
    BY <2>1, <2>2 DEF KeptMap, LiveOf, Registry!None
  <2> QED BY <2>3
<1> QED BY <1>1, <1>2, <1>3 DEF saveLocked

(* The registry accepts what the store accepts, and takes its device, user  *)
(* and expiry.                                                              *)
LEMMA RegisterSim ==
  ASSUME TypeOK, NEW s \in Session, NEW d \in Device, NEW u \in User,
         NEW e \in 0 .. MaxTime + Lifetime, Register(s, d, u, e)
  PROVE  Registry!RRegister(s)
<1> DEFINE r == [device |-> d, user |-> u, expires |-> RegisteredUntil(e)]
<1>a. /\ now \in 0 .. MaxTime /\ records \in Sessions /\ file \in Sessions
      /\ MaxTime \in Nat /\ Lifetime \in Nat
  BY Parts, StoreAssumption DEF StoreAssumption
<1>b. RegisteredUntil(e) \in Nat /\ RegisteredUntil(e) > now
  BY <1>a, Expiries
<1>1. /\ up /\ UNCHANGED <<now, up>> /\ records' = [records EXCEPT ![s] = r]
      /\ verdict' = "none" /\ listing' = {}
  BY DEF Register, NoAnswer
<1>2. LiveMap'[s] = r /\ r \in Registry!Record /\ r.expires > now
  BY <1>a, <1>b, <1>1, LiveNow DEF Kept, Registry!Record, Sessions
<1>3. LiveMap' = [LiveMap EXCEPT ![s] = LiveMap'[s]]
  <2>1. \A t \in Session \ {s} : LiveMap'[t] = LiveMap[t]
    BY <1>a, <1>1, LiveNow DEF Sessions
  <2> QED BY <2>1 DEF LiveMap, LiveOf
<1>4. /\ LiveMap'[s] \in Registry!Record
      /\ LiveMap'[s].expires > now
  BY <1>2
<1>5. KeptMap' \in {LiveMap', KeptMap, Registry!None}
  BY <1>1, WrittenSim DEF Register
<1> QED BY <1>1, <1>3, <1>4, <1>5
       DEF LiveMap, KeptMap, LiveOf, Registry!RRegister, Registry!Written, Registry!NoAnswer, Registry!Serves

(* A validation is answered by the live sessions alone. *)
LEMMA ValidateSim ==
  ASSUME TypeOK, NEW s \in Session, NEW d \in Device, NEW u \in User, Validate(s, d, u)
  PROVE  Registry!RValidate(s, d, u)
<1> DEFINE valid == /\ LiveMap[s] # Registry!Absent
                    /\ Registry!SameId(d, LiveMap[s].device)
                    /\ Registry!SameId(u, LiveMap[s].user)
<1>a. /\ now \in 0 .. MaxTime /\ records \in Sessions /\ file \in Sessions
      /\ records[s] \in Record \cup {Absent} /\ faulty \in BOOLEAN
      /\ MaxTime \in Nat /\ Lifetime \in Nat
  BY Parts, StoreAssumption DEF StoreAssumption, Sessions
<1>b. Registry!Absent = Absent
  BY DEF Registry!Absent, Absent
<1>1. up /\ UNCHANGED <<now, up>> /\ verdict' = Refusal(s, d, u) /\ listing' = {}
  BY DEF Validate
<1>2. LiveMap[s] = Kept(records[s], now)
  BY <1>1, LiveNow
<1>3. Refusal(s, d, u) = "valid" <=> valid
  BY <1>a, <1>b, <1>2, Records DEF Refusal, Mismatch, Expired, Kept, Registry!SameId
<1>4. KeptMap' \in {LiveMap', KeptMap, Registry!None}
  BY <1>1, WrittenSim DEF Validate
<1>5. LiveMap' = IF valid THEN [LiveMap EXCEPT ![s].expires = now + Lifetime] ELSE LiveMap
  <2>1. CASE Refusal(s, d, u) = "valid"
    <3>1. records' = [records EXCEPT ![s].expires = now + Lifetime]
      BY <2>1 DEF Validate, Prolonged
    <3>2. records[s] \in Record /\ LiveMap[s] = records[s]
      BY <1>a, <1>2, <2>1, RefusalType DEF Kept, Expired
    <3>3. LiveMap'[s] = [LiveMap[s] EXCEPT !.expires = now + Lifetime]
      <4>1. records'[s] = [records[s] EXCEPT !.expires = now + Lifetime]
        BY <1>a, <3>1 DEF Sessions
      <4>2. records'[s].expires = now + Lifetime
        BY <3>2, <4>1 DEF Record
      <4>3. LiveMap'[s] = records'[s]
        BY <1>a, <1>1, <4>2, LiveNow DEF Kept
      <4> QED BY <3>2, <4>1, <4>3
    <3>4. \A t \in Session \ {s} : LiveMap'[t] = LiveMap[t]
      BY <1>a, <1>1, <3>1, LiveNow DEF Sessions
    <3>5. LiveMap' = [LiveMap EXCEPT ![s].expires = now + Lifetime]
      BY <3>3, <3>4 DEF LiveMap, LiveOf
    <3> QED BY <1>3, <2>1, <3>5
  <2>2. CASE Refusal(s, d, u) = "session_expired"
    <3>1. records' = [records EXCEPT ![s] = Absent] /\ Expired(records[s])
      BY <2>2, RefusalType DEF Validate
    <3>2. \A t \in Session : LiveMap'[t] = LiveMap[t]
      BY <1>a, <1>1, <3>1, LiveNow DEF Sessions, Kept, Expired
    <3> QED BY <1>3, <2>2, <3>2 DEF LiveMap, LiveOf
  <2>3. CASE Refusal(s, d, u) \notin {"valid", "session_expired"}
    <3>1. UNCHANGED records
      BY <2>3 DEF Validate
    <3>2. \A t \in Session : LiveMap'[t] = LiveMap[t]
      BY <1>1, <3>1, LiveNow
    <3> QED BY <1>3, <2>3, <3>2 DEF LiveMap, LiveOf
  <2> QED BY <2>1, <2>2, <2>3
<1>6. (IF verdict' \in {"none", "valid"} THEN verdict' ELSE "refused")
        = IF valid THEN "valid" ELSE "refused"
  <2>1. Refusal(s, d, u) # "none"
    BY DEF Refusal
  <2> QED BY <1>1, <1>3, <2>1
<1> QED BY <1>1, <1>4, <1>5, <1>6
       DEF LiveMap, KeptMap, LiveOf, Registry!RValidate, Registry!Written, Registry!Serves

(* Delete and List. *)
LEMMA DeleteSim ==
  ASSUME TypeOK, NEW s \in Session, Delete(s)
  PROVE  Registry!RDelete(s)
<1>a. records \in Sessions
  BY Parts
<1>b. Registry!Absent = Absent
  BY DEF Registry!Absent, Absent
<1>1. /\ up /\ UNCHANGED <<now, up>> /\ records' = [records EXCEPT ![s] = Absent]
      /\ verdict' = "none" /\ listing' = {}
  BY DEF Delete, NoAnswer
<1>2. LiveMap' = [LiveMap EXCEPT ![s] = Absent]
  <2>1. LiveMap'[s] = Absent
    BY <1>a, <1>1, LiveNow DEF Sessions, Kept
  <2>2. \A t \in Session \ {s} : LiveMap'[t] = LiveMap[t]
    BY <1>a, <1>1, LiveNow DEF Sessions
  <2> QED BY <2>1, <2>2 DEF LiveMap, LiveOf
<1>3. KeptMap' \in {LiveMap', KeptMap, Registry!None}
  BY <1>1, WrittenSim DEF Delete
<1> QED BY <1>b, <1>1, <1>2, <1>3
       DEF LiveMap, KeptMap, LiveOf, Registry!RDelete, Registry!Written, Registry!NoAnswer, Registry!Serves

(* List answers with the live sessions, and drops none of them. *)
LEMMA ListSim ==
  ASSUME TypeOK, List
  PROVE  Registry!RList
<1>a. now \in 0 .. MaxTime /\ records \in Sessions /\ faulty \in BOOLEAN
  BY Parts
<1>b. Registry!Absent = Absent
  BY DEF Registry!Absent, Absent
<1>1. /\ up /\ UNCHANGED <<now, up>> /\ verdict' = "none"
      /\ listing' = {s \in Session : records[s] # Absent /\ ~Expired(records[s])}
      /\ \A s \in Session :
           records'[s] = IF records[s] # Absent /\ ~Expired(records[s]) THEN records[s] ELSE Absent
  BY <1>a DEF List
<1>2. \A s \in Session : LiveMap[s] # Absent <=> records[s] # Absent /\ ~Expired(records[s])
  BY <1>1, LiveNow DEF Kept, Expired
<1>3. LiveMap' = LiveMap
  <2>1. \A s \in Session : LiveMap'[s] = LiveMap[s]
    BY <1>1, LiveNow DEF Kept, Expired
  <2> QED BY <2>1 DEF LiveMap, LiveOf
<1>4. listing' = {s \in Session : LiveMap[s] # Absent}
  BY <1>1, <1>2
<1>5. KeptMap' \in {LiveMap', KeptMap, Registry!None}
  BY <1>1, WrittenSim DEF List
<1> QED BY <1>b, <1>1, <1>3, <1>4, <1>5
       DEF LiveMap, KeptMap, LiveOf, Registry!RList, Registry!Written, Registry!Serves

(* The clock expires the sessions of the registry with those of the store.  *)
LEMMA TickMap ==
  ASSUME TypeOK, Tick, NEW r \in Record \cup {Absent}
  PROVE  LET l == Kept(r, now) IN
         Kept(r, now + 1) = IF l.expires < now + 1 THEN Registry!Absent ELSE l
<1>a. now \in 0 .. MaxTime /\ MaxTime \in Nat
  BY Parts, StoreAssumption DEF StoreAssumption
<1>1. r.expires \in Int /\ Absent.expires = -1 /\ Registry!Absent = Absent
  BY <1>a, Records DEF Absent, Registry!Absent
<1> QED BY <1>a, <1>1 DEF Kept

LEMMA TickSim ==
  ASSUME TypeOK, Tick
  PROVE  Registry!RTick
<1>a. now \in 0 .. MaxTime /\ records \in Sessions /\ file \in Sessions
  BY Parts
<1>1. /\ now' = now + 1 /\ UNCHANGED <<up, records, file, faulty>>
      /\ verdict' = "none" /\ listing' = {}
  BY DEF Tick, NoAnswer
<1>2. ASSUME NEW s \in Session
      PROVE  /\ LiveMap'[s] = IF LiveMap[s].expires < now + 1 THEN Registry!Absent ELSE LiveMap[s]
             /\ KeptMap'[s] = IF KeptMap[s].expires < now + 1 THEN Registry!Absent ELSE KeptMap[s]
  <2>1. records[s] \in Record \cup {Absent} /\ file[s] \in Record \cup {Absent}
    BY <1>a DEF Sessions
  <2> QED BY <1>1, <2>1, LiveNow, TickMap
<1>3. LiveMap' = Registry!LiveAt(LiveMap, now + 1) /\ KeptMap' = Registry!LiveAt(KeptMap, now + 1)
  BY <1>2 DEF LiveMap, KeptMap, LiveOf, Registry!LiveAt
<1> QED BY <1>1, <1>3 DEF LiveMap, KeptMap, LiveOf, Registry!RTick, Registry!NoAnswer

(* A stop leaves the sessions that are kept alone. *)
LEMMA CrashSim ==
  ASSUME TypeOK, Crash
  PROVE  Registry!RStop
<1>1. /\ up /\ ~up' /\ UNCHANGED <<now, file>> /\ records' = Empty
      /\ verdict' = "none" /\ listing' = {} /\ up' = FALSE
  BY DEF Crash, NoAnswer
<1>2. Kept(Absent, now) = Absent /\ Registry!Absent = Absent
  BY DEF Kept, Registry!Absent, Absent
<1>3. LiveMap' = Registry!None
  <2>1. \A s \in Session : LiveMap'[s] = Registry!Absent
    BY <1>1, <1>2, LiveNow DEF Empty
  <2> QED BY <2>1 DEF LiveMap, LiveOf, Registry!None
<1>4. KeptMap' = KeptMap
  <2>1. \A s \in Session : KeptMap'[s] = KeptMap[s]
    BY <1>1, LiveNow
  <2> QED BY <2>1 DEF KeptMap, LiveOf
<1> QED BY <1>1, <1>3, <1>4 DEF LiveMap, KeptMap, LiveOf, Registry!RStop, Registry!NoAnswer

(* A start finds what is kept, or cannot read it. *)
LEMMA LoadSim ==
  ASSUME TypeOK, load
  PROVE  Registry!RStart
<1>a. now \in 0 .. MaxTime /\ file \in Sessions
  BY Parts
<1>1. /\ ~up /\ up' = TRUE /\ UNCHANGED <<now, file>>
      /\ verdict' = "none" /\ listing' = {}
      /\ (\A s \in Session : records'[s] = Kept(file[s], now)) \/ records' = Empty
  BY DEF load, NoAnswer, Unless, Expired, Kept
<1>2. KeptMap' = KeptMap
  <2>1. \A s \in Session : KeptMap'[s] = KeptMap[s]
    BY <1>1, LiveNow
  <2> QED BY <2>1 DEF KeptMap, LiveOf
<1>3. LiveMap' \in {KeptMap, Registry!None}
  <2>1. CASE \A s \in Session : records'[s] = Kept(file[s], now)
    <3>1. \A s \in Session : LiveMap'[s] = KeptMap[s]
      BY <1>a, <1>1, <2>1, LiveNow, GoneForGood DEF Sessions
    <3>2. LiveMap' = KeptMap
      BY <3>1 DEF LiveMap, KeptMap, LiveOf
    <3> QED BY <3>2
  <2>2. CASE records' = Empty
    <3>1. Kept(Absent, now) = Absent /\ Registry!Absent = Absent
      BY DEF Kept, Registry!Absent, Absent
    <3>2. \A s \in Session : LiveMap'[s] = Registry!Absent
      BY <1>1, <2>2, <3>1, LiveNow DEF Empty
    <3>3. LiveMap' = Registry!None
      BY <3>2 DEF LiveMap, LiveOf, Registry!None
    <3> QED BY <3>3
  <2> QED BY <1>1, <2>1, <2>2
<1> QED BY <1>1, <1>2, <1>3 DEF LiveMap, KeptMap, LiveOf, Registry!RStart, Registry!NoAnswer

(* Every step of the store is a step of the registry. *)
LEMMA StepSim == TypeOK /\ [Next]_vars => [Registry!RNext]_(Registry!registry)
<1> SUFFICES ASSUME TypeOK, Next \/ UNCHANGED vars
             PROVE  Registry!RNext \/ UNCHANGED Registry!registry
  OBVIOUS
<1>1. CASE UNCHANGED vars
  BY <1>1 DEF vars, Registry!registry, Unless, Expired
<1>2. CASE Next
  <2>1. ASSUME NEW s \in Session, NEW d \in Device, NEW u \in User,
               NEW e \in 0 .. MaxTime + Lifetime, Register(s, d, u, e)
        PROVE  Registry!RNext
    BY <2>1, RegisterSim DEF Registry!RNext
  <2>2. ASSUME NEW s \in Session, NEW d \in Device, NEW u \in User, Validate(s, d, u)
        PROVE  Registry!RNext
    BY <2>2, ValidateSim DEF Registry!RNext
  <2>3. ASSUME NEW s \in Session, Delete(s)
        PROVE  Registry!RNext
    BY <2>3, DeleteSim DEF Registry!RNext
  <2>4. CASE List \/ Tick \/ Crash \/ load
    BY <2>4, ListSim, TickSim, CrashSim, LoadSim DEF Registry!RNext
  <2> QED BY <1>2, <2>1, <2>2, <2>3, <2>4, Owners DEF Next
<1> QED BY <1>1, <1>2

(* The empty store is the empty registry. *)
LEMMA InitSim == Init => Registry!RInit
<1> SUFFICES ASSUME Init PROVE Registry!RInit
  OBVIOUS
<1>1. now \in 0 .. MaxTime
  BY StoreAssumption DEF StoreAssumption, Init
<1>2. LiveMap = Registry!None /\ KeptMap = Registry!None
  BY <1>1, EmptyMaps DEF Init, Empty, LiveMap, KeptMap
<1> QED BY <1>2 DEF Init, Registry!RInit, LiveMap, KeptMap, LiveOf

(* The store of internal/infrastructure/desktopsession implements the       *)
(* registry: its answers depend on the live sessions only, and whichever    *)
(* writes and reads of the file fail, a start brings back the sessions as   *)
(* one write left them, without those that have expired since, or none.     *)
THEOREM StoreImplementsRegistry == Spec => ImplementsRegistry
<1>1. Init => Registry!RInit
  BY InitSim
<1>2. TypeOK /\ [Next]_vars => [Registry!RNext]_(Registry!registry)
  BY StepSim
<1> QED BY <1>1, <1>2, TypeCorrect, PTL DEF Spec, ImplementsRegistry, Registry!RSpec
=============================================================================
