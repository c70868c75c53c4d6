---------------------------- MODULE Bridge_proofs ----------------------------
(***************************************************************************)
(* Safety of the bridge page, for any number of connections, versions and  *)
(* encryptions that run at once.                                           *)
(***************************************************************************)
EXTENDS Bridge, SequenceTheorems, TLAPS

SocketKind == {"none", "connecting", "open", "closing", "dropped", "closed"}

-----------------------------------------------------------------------------
(* Types *)

(* The numbers the constants give. *)
LEMMA Numbers ==
  /\ MaxSockets \in Nat /\ MaxSockets > 0
  /\ MaxVersion \in Nat
  /\ Socket \subseteq Nat /\ 0 \notin Socket
  /\ 0 \in Version /\ Version \subseteq Nat /\ None \notin Version
<1>1. MaxSockets \in Nat \ {0} /\ MaxVersion \in Nat
  BY BridgeAssumption DEF BridgeAssumption
<1> QED BY <1>1 DEF Socket, Version, None

LEMMA InitType == Init => TypeOK
<1> SUFFICES ASSUME Init PROVE TypeOK
  OBVIOUS
<1>1. /\ wire \in [Socket -> Seq(Version)]
      /\ answers \in [Socket -> Seq({"ok", "error"})]
  BY DEF Init
<1>2. job \in [Slot -> [socket : Socket \cup {0}, version : Version, manual : BOOLEAN]]
  BY Numbers DEF Init, NoJob
<1> QED BY <1>1, <1>2, Numbers DEF Init, TypeOK, None

(* A connection is opened on a socket. *)
LEMMA ConnectType ==
  ASSUME TypeOK, connect
  PROVE  /\ socketRef' \in Socket \cup {0}
         /\ socket' \in [Socket -> SocketKind]
         /\ retryTimer' \in BOOLEAN
         /\ syncTimer' \in Version \cup {None}
         /\ socketState' \in {"connecting", "open", "disconnected"}
BY DEF TypeOK, connect, Unused, SocketKind

LEMMA MountType == TypeOK /\ Mount => TypeOK'
BY ConnectType DEF TypeOK, Mount, SocketKind

LEMMA UnmountType == TypeOK /\ Unmount => TypeOK'
<1> SUFFICES ASSUME TypeOK, Unmount PROVE TypeOK'
  OBVIOUS
<1>1. job' \in [Slot -> [socket : Socket \cup {0}, version : Version, manual : BOOLEAN]]
  BY Numbers DEF Unmount, NoJob
<1>2. socket' \in [Socket -> SocketKind]
  BY DEF TypeOK, Unmount, ClosedByPage, SocketKind
<1> QED BY <1>1, <1>2 DEF TypeOK, Unmount, network, SocketKind

LEMMA OnOpenType == ASSUME TypeOK, NEW s \in Socket, OnOpen(s) PROVE TypeOK'
BY DEF TypeOK, OnOpen, queueSync, network

LEMMA DropsType == ASSUME TypeOK, NEW s \in Socket, Drops(s) PROVE TypeOK'
<1>1. /\ wire' \in [Socket -> Seq(Version)]
      /\ answers' \in [Socket -> Seq({"ok", "error"})]
  BY DEF TypeOK, Drops
<1>2. wire[s] \in Seq(Version)
  BY DEF TypeOK
<1>3. {wire[s][i] : i \in DOMAIN wire[s]} \subseteq Version
  BY <1>2, ElementOfSeq
<1>4. dropped' \in SUBSET Version
  BY <1>3 DEF TypeOK, Drops
<1>5. socket' \in [Socket -> SocketKind]
  BY DEF TypeOK, Drops, SocketKind
<1> QED BY <1>1, <1>4, <1>5 DEF TypeOK, Drops, SocketKind

LEMMA OnCloseType == ASSUME TypeOK, NEW s \in Socket, OnClose(s) PROVE TypeOK'
<1>1. socket' \in [Socket -> SocketKind]
  BY DEF TypeOK, OnClose, SocketKind
<1>2. /\ socketState' \in {"connecting", "open", "disconnected"}
      /\ syncState' \in {"pending", "synced", "error"}
      /\ retryTimer' \in BOOLEAN
  BY DEF TypeOK, OnClose
<1> QED BY <1>1, <1>2 DEF TypeOK, OnClose, network, SocketKind

LEMMA RetryTimerFiresType == TypeOK /\ RetryTimerFires => TypeOK'
BY ConnectType DEF TypeOK, RetryTimerFires, network, SocketKind

LEMMA AppRendersType == TypeOK /\ AppRenders => TypeOK'
<1> SUFFICES ASSUME TypeOK, AppRenders PROVE TypeOK'
  OBVIOUS
<1>1. version' \in Version
  BY DEF AppRenders
<1>2. syncTimer' \in Version \cup {None}
  BY <1>1 DEF TypeOK, AppRenders, queueSync
<1> QED BY <1>1, <1>2 DEF TypeOK, AppRenders, network

(* Sending begins one encryption, or none. *)
LEMMA SendType ==
  ASSUME TypeOK, NEW data \in Version, NEW force \in BOOLEAN,
         sendCurrentPayload(data, force)
  PROVE  /\ syncState' \in {"pending", "synced", "error"}
         /\ job' \in [Slot -> [socket : Socket \cup {0}, version : Version, manual : BOOLEAN]]
<1>1. CASE UNCHANGED job
  BY <1>1 DEF TypeOK, sendCurrentPayload
<1>2. CASE \E i \in Slot :
             job' = [job EXCEPT ![i] =
                       [socket |-> socketRef, version |-> data, manual |-> force]]
  <2>1. [socket |-> socketRef, version |-> data, manual |-> force]
          \in [socket : Socket \cup {0}, version : Version, manual : BOOLEAN]
    BY DEF TypeOK
  <2>2. job' \in [Slot -> [socket : Socket \cup {0}, version : Version, manual : BOOLEAN]]
    BY <1>2, <2>1 DEF TypeOK
  <2> QED BY <2>2 DEF TypeOK, sendCurrentPayload
<1> QED BY <1>1, <1>2 DEF sendCurrentPayload

LEMMA SyncTimerFiresType == TypeOK /\ SyncTimerFires => TypeOK'
<1> SUFFICES ASSUME TypeOK, SyncTimerFires PROVE TypeOK'
  OBVIOUS
<1>1. syncTimer \in Version
  BY DEF TypeOK, SyncTimerFires
<1>2. /\ syncState' \in {"pending", "synced", "error"}
      /\ job' \in [Slot -> [socket : Socket \cup {0}, version : Version, manual : BOOLEAN]]
  BY <1>1, SendType DEF SyncTimerFires
<1> QED BY <1>2 DEF TypeOK, SyncTimerFires, network

LEMMA ManualSendType == TypeOK /\ handleManualSend => TypeOK'
<1> SUFFICES ASSUME TypeOK, handleManualSend PROVE TypeOK'
  OBVIOUS
<1>1. /\ syncState' \in {"pending", "synced", "error"}
      /\ job' \in [Slot -> [socket : Socket \cup {0}, version : Version, manual : BOOLEAN]]
  BY SendType DEF TypeOK, handleManualSend
<1>2. sending' \in BOOLEAN /\ clicks' \in Nat
  BY DEF TypeOK, handleManualSend, IsOpen
<1> QED BY <1>1, <1>2 DEF TypeOK, handleManualSend, network

LEMMA EncryptedType == ASSUME TypeOK, NEW i \in Slot, Encrypted(i) PROVE TypeOK'
<1>1. /\ job[i].version \in Version
      /\ job' \in [Slot -> [socket : Socket \cup {0}, version : Version, manual : BOOLEAN]]
  BY Numbers DEF TypeOK, Encrypted, NoJob
<1>2. wire' \in [Socket -> Seq(Version)] /\ dropped' \in SUBSET Version
  <2>1. CASE IsOpen(job[i].socket)
    <3>1. job[i].socket \in Socket
      BY <2>1 DEF TypeOK, IsOpen
    <3>2. Append(wire[job[i].socket], job[i].version) \in Seq(Version)
      BY <1>1, <3>1 DEF TypeOK
    <3> QED BY <2>1, <3>1, <3>2 DEF TypeOK, Encrypted
  <2>2. CASE ~IsOpen(job[i].socket)
    BY <1>1, <2>2 DEF TypeOK, Encrypted
  <2> QED BY <2>1, <2>2
<1>3. sending' \in BOOLEAN
  BY DEF TypeOK, Encrypted
<1>4. lastSent' \in Version
  BY <1>1 DEF Encrypted, SentSignature
<1> QED BY <1>1, <1>2, <1>3, <1>4 DEF TypeOK, Encrypted

LEMMA EncryptionFailsType == ASSUME TypeOK, NEW i \in Slot, EncryptionFails(i) PROVE TypeOK'
<1>1. job' \in [Slot -> [socket : Socket \cup {0}, version : Version, manual : BOOLEAN]]
  BY Numbers DEF TypeOK, EncryptionFails, NoJob
<1>2. sending' \in BOOLEAN
  BY DEF TypeOK, EncryptionFails
<1> QED BY <1>1, <1>2 DEF TypeOK, EncryptionFails, network

(* The head and the tail of what is on a socket. *)
LEMMA WireParts ==
  ASSUME TypeOK, NEW s \in Socket, wire[s] # <<>>
  PROVE  /\ Head(wire[s]) \in Version
         /\ [wire EXCEPT ![s] = Tail(@)] \in [Socket -> Seq(Version)]
<1>1. wire[s] \in Seq(Version)
  BY DEF TypeOK
<1>2. Head(wire[s]) \in Version /\ Tail(wire[s]) \in Seq(Version)
  BY <1>1
<1> QED BY <1>2 DEF TypeOK

LEMMA RemoteType ==
  ASSUME TypeOK, NEW s \in Socket, RemoteTakes(s) \/ RemoteRefuses(s)
  PROVE  TypeOK'
<1>1. wire[s] # <<>>
  BY DEF RemoteTakes, RemoteRefuses
<1>2. answers[s] \in Seq({"ok", "error"})
  BY DEF TypeOK
<1>3. Append(answers[s], "ok") \in Seq({"ok", "error"}) /\ Append(answers[s], "error") \in Seq({"ok", "error"})
  BY <1>2
<1>4. answers' \in [Socket -> Seq({"ok", "error"})]
  BY <1>3 DEF TypeOK, RemoteTakes, RemoteRefuses
<1>5. CASE RemoteTakes(s)
  BY <1>1, <1>4, <1>5, WireParts DEF TypeOK, RemoteTakes, page
<1>6. CASE RemoteRefuses(s)
  BY <1>1, <1>4, <1>6, WireParts DEF TypeOK, RemoteRefuses, page
<1> QED BY <1>5, <1>6

LEMMA OnMessageType == ASSUME TypeOK, NEW s \in Socket, OnMessage(s) PROVE TypeOK'
<1>1. answers[s] \in Seq({"ok", "error"}) /\ answers[s] # <<>>
  BY DEF TypeOK, OnMessage
<1>2. Tail(answers[s]) \in Seq({"ok", "error"})
  BY <1>1
<1>3. answers' \in [Socket -> Seq({"ok", "error"})]
  BY <1>2 DEF TypeOK, OnMessage
<1>4. syncState' \in {"pending", "synced", "error"}
  BY DEF OnMessage, SyncStateOf
<1> QED BY <1>3, <1>4 DEF TypeOK, OnMessage

LEMMA TypeNext == TypeOK /\ [Next]_vars => TypeOK'
<1> SUFFICES ASSUME TypeOK, [Next]_vars PROVE TypeOK'
  OBVIOUS
<1>1. CASE UNCHANGED vars
  BY <1>1 DEF vars, page, network, TypeOK
<1>2. CASE Next
  BY <1>2, MountType, UnmountType, OnOpenType, DropsType, OnCloseType, RetryTimerFiresType,
     AppRendersType, SyncTimerFiresType, ManualSendType, EncryptedType, EncryptionFailsType,
     RemoteType, OnMessageType DEF Next
<1> QED BY <1>1, <1>2

(* The values of the page and of the network are of their types, whatever  *)
(* the order of events (src/pages/bridge/index.tsx).                       *)
THEOREM BridgeTypes == Spec => []TypeOK
BY InitType, TypeNext, PTL DEF Spec

-----------------------------------------------------------------------------
(* The signature was sent *)

(* A payload of this version has been sent: it has arrived or was lost, or *)
(* is on its way.                                                          *)
WasSent(v) ==
  \/ v \in taken \cup dropped
  \/ \E s \in Socket : \E i \in DOMAIN wire[s] : wire[s][i] = v

(* The elements of a queue that is appended to, and of one whose head is   *)
(* taken.                                                                  *)
LEMMA QueueElements ==
  ASSUME NEW q \in Seq(Version), NEW e \in Version
  PROVE  /\ \A i \in DOMAIN q : \E j \in DOMAIN Append(q, e) : Append(q, e)[j] = q[i]
         /\ \E j \in DOMAIN Append(q, e) : Append(q, e)[j] = e
         /\ q # <<>> => \A i \in DOMAIN q :
                q[i] = Head(q) \/ \E j \in DOMAIN Tail(q) : Tail(q)[j] = q[i]
<1>1. Len(q) \in Nat /\ DOMAIN q = 1 .. Len(q)
  OBVIOUS
<1>2. /\ Append(q, e) \in Seq(Version) /\ DOMAIN Append(q, e) = 1 .. Len(q) + 1
      /\ \A i \in 1 .. Len(q) : Append(q, e)[i] = q[i]
      /\ Append(q, e)[Len(q) + 1] = e
  OBVIOUS
<1>3. \A i \in DOMAIN q : \E j \in DOMAIN Append(q, e) : Append(q, e)[j] = q[i]
  BY <1>1, <1>2
<1>4. \E j \in DOMAIN Append(q, e) : Append(q, e)[j] = e
  BY <1>1, <1>2
<1>5. ASSUME q # <<>>, NEW i \in DOMAIN q, q[i] # Head(q)
      PROVE  \E j \in DOMAIN Tail(q) : Tail(q)[j] = q[i]
  <2>1. Len(Tail(q)) = Len(q) - 1 /\ Tail(q) \in Seq(Version)
    BY <1>5
  <2>2. \A j \in 1 .. Len(q) - 1 : Tail(q)[j] = q[j + 1]
    BY <1>5
  <2>3. i # 1
    BY <1>5
  <2>4. i - 1 \in 1 .. Len(q) - 1
    BY <1>1, <1>5, <2>3
  <2>5. Tail(q)[i - 1] = q[i]
    BY <1>1, <2>2, <2>4
  <2> QED BY <2>1, <2>4, <2>5
<1> QED BY <1>3, <1>4, <1>5

(* What has been sent stays sent. *)
LEMMA StaysSent ==
  ASSUME TypeOK, [Next]_vars, NEW v \in Version, WasSent(v)
  PROVE  WasSent(v)'
<1>1. CASE UNCHANGED <<taken, dropped, wire>>
  BY <1>1 DEF WasSent
<1>2. ASSUME NEW s \in Socket, Drops(s) PROVE WasSent(v)'
  BY <1>2 DEF WasSent, Drops, TypeOK
<1>3. ASSUME NEW i \in Slot, Encrypted(i) PROVE WasSent(v)'
  <2>1. CASE IsOpen(job[i].socket)
    <3>1. job[i].socket \in Socket /\ job[i].version \in Version
      BY <1>3, <2>1 DEF TypeOK, IsOpen
    <3>2. PICK s : s = job[i].socket
      OBVIOUS
    <3>3. wire[s] \in Seq(Version) /\ s \in Socket
      BY <3>1, <3>2 DEF TypeOK
    <3>4. wire' = [wire EXCEPT ![s] = Append(@, job[i].version)] /\ dropped' = dropped /\ taken' = taken
      BY <1>3, <2>1, <3>2 DEF Encrypted
    <3>5. \A k \in DOMAIN wire[s] : \E j \in DOMAIN wire'[s] : wire'[s][j] = wire[s][k]
      <4>1. PICK q \in Seq(Version), e \in Version : q = wire[s] /\ e = job[i].version
        BY <3>1, <3>3
      <4>2. \A k \in DOMAIN q : \E j \in DOMAIN Append(q, e) : Append(q, e)[j] = q[k]
        BY ONLY <4>1, QueueElements
      <4>3. wire'[s] = Append(q, e)
        BY <3>3, <3>4, <4>1 DEF TypeOK
      <4> QED BY <4>1, <4>2, <4>3
    <3>6. \A t \in Socket : t # s => wire'[t] = wire[t]
      BY <3>4 DEF TypeOK
    <3> QED BY <3>4, <3>5, <3>6 DEF WasSent
  <2>2. CASE ~IsOpen(job[i].socket)
    BY <1>3, <2>2 DEF WasSent, Encrypted
  <2> QED BY <2>1, <2>2
<1>4. ASSUME NEW s \in Socket, RemoteTakes(s) \/ RemoteRefuses(s) PROVE WasSent(v)'
  <2>1. wire[s] \in Seq(Version) /\ wire[s] # <<>>
    BY <1>4 DEF TypeOK, RemoteTakes, RemoteRefuses
  <2>2. wire' = [wire EXCEPT ![s] = Tail(@)]
    BY <1>4 DEF RemoteTakes, RemoteRefuses
  <2>3. taken \cup dropped \cup {Head(wire[s])} = taken' \cup dropped'
    BY <1>4 DEF RemoteTakes, RemoteRefuses
  <2>4. \A i \in DOMAIN wire[s] :
          wire[s][i] = Head(wire[s]) \/ \E j \in DOMAIN wire'[s] : wire'[s][j] = wire[s][i]
    BY <2>1, <2>2, QueueElements, Numbers DEF TypeOK
  <2>5. \A t \in Socket : t # s => wire'[t] = wire[t]
    BY <2>2 DEF TypeOK
  <2> QED BY <2>3, <2>4, <2>5 DEF WasSent
<1>5. CASE UNCHANGED vars
  BY <1>1, <1>5 DEF vars, network
<1>6. CASE Next
  BY <1>1, <1>2, <1>3, <1>4, <1>6
     DEF Next, Mount, Unmount, RetryTimerFires, AppRenders, SyncTimerFires, handleManualSend,
         OnOpen, OnClose, OnMessage, EncryptionFails, network
<1> QED BY <1>5, <1>6

(* What an encryption stores as the signature, it has sent. *)
LEMMA StoresWhatItSends ==
  ASSUME TypeOK, NEW i \in Slot, Encrypted(i)
  PROVE  \E v \in Version : v = lastSent' /\ WasSent(v)'
<1>1. job[i].version \in Version /\ lastSent' = job[i].version
  BY DEF TypeOK, Encrypted, SentSignature
<1>2. CASE IsOpen(job[i].socket)
  <2>1. PICK s : s = job[i].socket
    OBVIOUS
  <2>2. s \in Socket /\ wire[s] \in Seq(Version)
    BY <1>2, <2>1 DEF TypeOK, IsOpen
  <2>3. wire' = [wire EXCEPT ![s] = Append(@, job[i].version)]
    BY <1>2, <2>1 DEF Encrypted
  <2>4. \E j \in DOMAIN wire'[s] : wire'[s][j] = job[i].version
    <3>1. PICK q \in Seq(Version), e \in Version : q = wire[s] /\ e = job[i].version
      BY <1>1, <2>2
    <3>2. \E j \in DOMAIN Append(q, e) : Append(q, e)[j] = e
      BY ONLY <3>1, QueueElements
    <3>3. wire'[s] = Append(q, e)
      BY <2>2, <2>3, <3>1 DEF TypeOK
    <3> QED BY <3>1, <3>2, <3>3
  <2> QED BY <1>1, <2>2, <2>4 DEF WasSent
<1>3. CASE ~IsOpen(job[i].socket)
  BY <1>1, <1>3 DEF WasSent, Encrypted
<1> QED BY <1>2, <1>3

LEMMA SignatureSplit ==
  StoredSignatureWasSent <=> (mounted /\ lastSent # None => WasSent(lastSent))
BY DEF StoredSignatureWasSent, WasSent

LEMMA SignatureNext ==
  ASSUME TypeOK, StoredSignatureWasSent, [Next]_vars
  PROVE  StoredSignatureWasSent'
<1>1. CASE (mounted' => mounted) /\ lastSent' = lastSent
  <2> SUFFICES ASSUME mounted', lastSent' # None PROVE StoredSignatureWasSent'
    BY DEF StoredSignatureWasSent
  <2>1. lastSent \in Version /\ WasSent(lastSent)
    BY <1>1, SignatureSplit DEF TypeOK
  <2>2. PICK v \in Version : v = lastSent
    BY <2>1
  <2>3. WasSent(v)'
    BY <2>1, <2>2, StaysSent
  <2> QED BY <1>1, <2>2, <2>3 DEF WasSent, StoredSignatureWasSent
<1>2. CASE lastSent' = None
  BY <1>2 DEF StoredSignatureWasSent
<1>3. ASSUME NEW i \in Slot, Encrypted(i) PROVE StoredSignatureWasSent'
  BY <1>3, StoresWhatItSends DEF StoredSignatureWasSent, WasSent
<1>4. CASE ~mounted'
  BY <1>4 DEF StoredSignatureWasSent
<1>5. CASE UNCHANGED vars
  BY <1>1, <1>5 DEF vars, page
<1>6. CASE Next
  BY <1>1, <1>2, <1>3, <1>4, <1>6
     DEF Next, Mount, Unmount, RetryTimerFires, AppRenders, SyncTimerFires, handleManualSend,
         OnOpen, OnClose, OnMessage, Drops, EncryptionFails, RemoteTakes, RemoteRefuses, page
<1> QED BY <1>5, <1>6

(* The signature the page compares its data with (index.tsx:317) is of a   *)
(* payload it has sent, however many encryptions run and however often the *)
(* connection is lost meanwhile.                                           *)
THEOREM SignatureSafety == Spec => []StoredSignatureWasSent
<1>1. Init => StoredSignatureWasSent
  BY DEF Init, StoredSignatureWasSent
<1> QED BY <1>1, InitType, TypeNext, SignatureNext, PTL DEF Spec

-----------------------------------------------------------------------------
(* One connection *)

(* The sockets in the order they were made: those of pages that are gone,  *)
(* those the page has lost, its own, and those that are not made yet.      *)
Line ==
  /\ \A s \in Socket : s <= cancelled => socket[s] \in {"closing", "closed"}
  /\ mounted =>
       /\ socketRef > cancelled
       /\ \A s \in Socket : /\ s > cancelled /\ s < socketRef => socket[s] = "closed"
                            /\ s > socketRef => socket[s] = "none"
       /\ ~retryTimer => socket[socketRef] \in {"connecting", "open", "dropped"}
       /\ retryTimer => socket[socketRef] = "closed" /\ socketState = "disconnected"
       /\ socket[socketRef] = "open" => socketState = "open"
  /\ ~mounted =>
       /\ socketRef = 0 /\ ~retryTimer /\ syncTimer = None
       /\ \A s \in Socket : s > cancelled => socket[s] = "none"

(* The page shows "synced" only when the remote bridge has taken something *)
(* and the connection is up, and an answer that says so is only of a       *)
(* payload that was taken.                                                 *)
Answered ==
  /\ SyncedWhileConnected
  /\ \A s \in Socket : \A i \in DOMAIN answers[s] : answers[s][i] = "ok" => taken # {}

LEMMA LineGivesOneConnection == TypeOK /\ Line => OneConnectionAlways
<1> SUFFICES ASSUME TypeOK, Line PROVE OneConnectionAlways
  OBVIOUS
<1>1. \A s \in Socket : s \in Int /\ cancelled \in Int /\ socketRef \in Int
  BY Numbers DEF TypeOK
<1>2. ASSUME NEW s \in Socket, Live(s) PROVE mounted /\ s = socketRef
  <2>1. ~(s <= cancelled)
    BY <1>2 DEF Line, Live
  <2>2. s > cancelled
    BY <1>1, <2>1
  <2>3. mounted
    BY <1>2, <2>2 DEF Line, Live, TypeOK
  <2>4. ~(s < socketRef) /\ ~(s > socketRef)
    BY <1>2, <2>2, <2>3 DEF Line, Live
  <2> QED BY <1>1, <2>3, <2>4
<1>3. CASE mounted
  <2>1. socketRef # 0
    BY <1>3, Numbers DEF Line, TypeOK
  <2> QED BY <1>2, <1>3, <2>1 DEF OneConnectionAlways, Line, Live, TypeOK
<1>4. CASE ~mounted
  BY <1>2, <1>4 DEF OneConnectionAlways, Line
<1> QED BY <1>3, <1>4

(* The socket of a page that is mounted is one of the sockets. *)
LEMMA Mounted ==
  ASSUME TypeOK, Line, mounted
  PROVE  socketRef \in Socket
BY Numbers DEF TypeOK, Line

(* A socket that has an event of its own to come is that of the page, or   *)
(* of a page that is gone.                                                 *)
LEMMA OnlyItsOwn ==
  ASSUME TypeOK, Line, NEW s \in Socket, socket[s] \in {"connecting", "open", "dropped"}
  PROVE  s > cancelled /\ mounted /\ s = socketRef
<1>1. s \in Int /\ cancelled \in Int /\ socketRef \in Int
  BY Numbers DEF TypeOK
<1>2. s > cancelled
  BY <1>1 DEF Line
<1>3. mounted
  BY <1>2 DEF Line, TypeOK
<1>4. ~(s < socketRef) /\ ~(s > socketRef)
  BY <1>2, <1>3 DEF Line
<1> QED BY <1>1, <1>2, <1>3, <1>4

LEMMA MountLine == ASSUME TypeOK, Line, Mount PROVE Line'
<1>1. PICK s \in Unused :
        /\ \A t \in Unused : s <= t
        /\ socket' = [socket EXCEPT ![s] = "connecting"] /\ socketRef' = s
        /\ retryTimer' = FALSE /\ socketState' = "connecting"
  BY DEF Mount, connect
<1>2. ~mounted /\ mounted' /\ cancelled' = cancelled
  BY DEF Mount, TypeOK
<1>3. s \in Socket /\ socket[s] = "none" /\ s \in Int /\ cancelled \in Int
  BY Numbers DEF Unused, TypeOK
<1>4. s > cancelled
  BY <1>3 DEF Line
<1>5. \A t \in Socket : t > cancelled => t >= s /\ socket[t] = "none"
  BY <1>1, <1>2, Numbers DEF Line, Unused
<1>6. /\ socket'[s] = "connecting"
      /\ \A t \in Socket : t # s => socket'[t] = socket[t]
  BY <1>1, <1>3 DEF TypeOK
<1>7. \A t \in Socket : t <= cancelled' => socket'[t] \in {"closing", "closed"}
  BY <1>2, <1>3, <1>4, <1>6, Numbers DEF Line
<1>8. \A t \in Socket : /\ t > cancelled' /\ t < socketRef' => socket'[t] = "closed"
                        /\ t > socketRef' => socket'[t] = "none"
  BY <1>1, <1>2, <1>3, <1>4, <1>5, <1>6, Numbers
<1> QED BY <1>1, <1>2, <1>4, <1>6, <1>7, <1>8 DEF Line

LEMMA UnmountLine == ASSUME TypeOK, Line, Unmount PROVE Line'
<1>1. mounted /\ ~mounted' /\ cancelled' = socketRef /\ socketRef' = 0
  BY DEF Unmount, TypeOK
<1>2. ~retryTimer' /\ syncTimer' = None
  BY DEF Unmount
<1>3. socketRef \in Socket /\ socketRef \in Int /\ cancelled \in Int
  BY <1>1, Mounted, Numbers DEF TypeOK
<1>4. /\ socket'[socketRef] \in {"closing", "closed"}
      /\ \A t \in Socket : t # socketRef => socket'[t] = socket[t]
  BY <1>3 DEF TypeOK, Unmount, ClosedByPage
<1>5. \A t \in Socket : t <= cancelled' => socket'[t] \in {"closing", "closed"}
  <2> SUFFICES ASSUME NEW t \in Socket, t <= socketRef PROVE socket'[t] \in {"closing", "closed"}
    BY <1>1
  <2>1. CASE t = socketRef
    BY <1>4, <2>1
  <2>2. CASE t < socketRef
    <3>1. t # socketRef /\ t \in Int
      BY <1>3, <2>2, Numbers
    <3>2. t <= cancelled \/ t > cancelled
      BY <1>3, <3>1
    <3>3. socket[t] \in {"closing", "closed"}
      BY <1>1, <2>2, <3>2 DEF Line
    <3> QED BY <1>4, <3>1, <3>3
  <2> QED BY <1>3, <2>1, <2>2, Numbers
<1>6. \A t \in Socket : t > cancelled' => socket'[t] = "none"
  BY <1>1, <1>3, <1>4, Numbers DEF Line
<1> QED BY <1>1, <1>2, <1>5, <1>6 DEF Line

LEMMA RetryLine == ASSUME TypeOK, Line, RetryTimerFires PROVE Line'
<1>1. PICK s \in Unused :
        /\ \A t \in Unused : s <= t
        /\ socket' = [socket EXCEPT ![s] = "connecting"] /\ socketRef' = s
        /\ retryTimer' = FALSE /\ socketState' = "connecting"
  BY DEF RetryTimerFires, connect
<1>2. mounted /\ mounted' = mounted /\ cancelled' = cancelled /\ socket[socketRef] = "closed"
  BY DEF RetryTimerFires, Line, TypeOK
<1>3. /\ s \in Socket /\ socket[s] = "none" /\ s \in Int
      /\ cancelled \in Int /\ socketRef \in Int /\ socketRef > cancelled
  BY <1>2, Numbers DEF Unused, TypeOK, Line
<1>4. s > socketRef
  <2>1. ~(s <= cancelled)
    BY <1>3 DEF Line
  <2>2. ~(s < socketRef)
    BY <1>2, <1>3, <2>1 DEF Line
  <2> QED BY <1>2, <1>3, <2>2
<1>5. \A t \in Socket : t > socketRef => t >= s /\ socket[t] = "none"
  BY <1>1, <1>2, Numbers DEF Line, Unused
<1>6. /\ socket'[s] = "connecting"
      /\ \A t \in Socket : t # s => socket'[t] = socket[t]
  BY <1>1, <1>3 DEF TypeOK
<1>7. \A t \in Socket : t <= cancelled' => socket'[t] \in {"closing", "closed"}
  BY <1>2, <1>3, <1>4, <1>6, Numbers DEF Line
<1>8. ASSUME NEW t \in Socket, t > cancelled', t < socketRef' PROVE socket'[t] = "closed"
  <2>1. t <= socketRef
    BY <1>1, <1>3, <1>5, <1>8, Numbers
  <2>2. socket[t] = "closed"
    BY <1>2, <1>3, <1>8, <2>1, Numbers DEF Line
  <2> QED BY <1>3, <1>6, <2>2
<1>9. \A t \in Socket : t > socketRef' => socket'[t] = "none"
  BY <1>1, <1>3, <1>4, <1>5, <1>6, Numbers
<1> QED BY <1>1, <1>2, <1>3, <1>4, <1>6, <1>7, <1>8, <1>9 DEF Line

LEMMA OnOpenLine == ASSUME TypeOK, Line, NEW s \in Socket, OnOpen(s) PROVE Line'
<1>1. s > cancelled /\ mounted /\ s = socketRef
  BY OnlyItsOwn DEF OnOpen
<1>2. ~retryTimer
  BY <1>1 DEF OnOpen, Line
<1> QED BY <1>1, <1>2, Numbers DEF OnOpen, Line, TypeOK

LEMMA DropsLine == ASSUME TypeOK, Line, NEW s \in Socket, Drops(s) PROVE Line'
<1>1. UNCHANGED <<mounted, socketRef, cancelled, retryTimer, syncTimer, socketState>>
  BY DEF Drops
<1>2. /\ socket'[s] = IF s > cancelled THEN "dropped" ELSE "closed"
      /\ \A t \in Socket : t # s => socket'[t] = socket[t]
  BY DEF Drops, TypeOK
<1>3. CASE s > cancelled
  <2>1. socket[s] \in {"connecting", "open"}
    <3>1. mounted
      BY <1>3 DEF Drops, Line, TypeOK
    <3>2. ~(s < socketRef) /\ ~(s > socketRef)
      BY <1>3, <3>1 DEF Drops, Line
    <3>3. s = socketRef
      BY <3>2, Numbers DEF TypeOK
    <3> QED BY <3>1, <3>3 DEF Drops, Line
  <2>2. mounted /\ s = socketRef
    BY <2>1, OnlyItsOwn
  <2>3. ~retryTimer
    BY <2>1, <2>2 DEF Line
  <2> QED BY <1>1, <1>2, <1>3, <2>2, <2>3, Numbers DEF Line, TypeOK
<1>4. CASE ~(s > cancelled)
  <2>1. s <= cancelled
    BY <1>4, Numbers DEF TypeOK
  <2>2. mounted => s # socketRef /\ ~(s > socketRef)
    BY <1>4, <2>1, Numbers DEF Line, TypeOK
  <2> QED BY <1>1, <1>2, <1>4, <2>1, <2>2, Mounted DEF Line
<1> QED BY <1>3, <1>4

LEMMA OnCloseLine == ASSUME TypeOK, Line, NEW s \in Socket, OnClose(s) PROVE Line'
<1>1. s > cancelled /\ mounted /\ s = socketRef
  BY OnlyItsOwn DEF OnClose
<1>2. UNCHANGED <<mounted, socketRef, cancelled, syncTimer>>
  BY DEF OnClose
<1>3. /\ socket'[s] = "closed"
      /\ \A t \in Socket : t # s => socket'[t] = socket[t]
  BY DEF OnClose, TypeOK
<1>4. socketState' = "disconnected" /\ retryTimer' = TRUE
  BY <1>1 DEF OnClose
<1> QED BY <1>1, <1>2, <1>3, <1>4, Numbers DEF Line, TypeOK

(* The other actions leave the connection alone; the timer that sends is   *)
(* armed only on a page that is mounted.                                   *)
LEMMA LineNext == TypeOK /\ Line /\ [Next]_vars => Line'
<1> SUFFICES ASSUME TypeOK, Line, [Next]_vars PROVE Line'
  OBVIOUS
<1>1. CASE /\ UNCHANGED <<mounted, socketRef, socket, cancelled, retryTimer, socketState>>
           /\ ~mounted => syncTimer' = None
  BY <1>1 DEF Line
<1>2. CASE AppRenders
  BY <1>1, <1>2 DEF AppRenders, Line, queueSync
<1>3. CASE SyncTimerFires
  BY <1>1, <1>3 DEF SyncTimerFires
<1>4. CASE handleManualSend
  BY <1>1, <1>4 DEF handleManualSend, Line
<1>5. ASSUME NEW s \in Socket, OnMessage(s) \/ RemoteTakes(s) \/ RemoteRefuses(s) PROVE Line'
  BY <1>1, <1>5 DEF OnMessage, RemoteTakes, RemoteRefuses, page, Line
<1>6. ASSUME NEW i \in Slot, Encrypted(i) \/ EncryptionFails(i) PROVE Line'
  BY <1>1, <1>6 DEF Encrypted, EncryptionFails, Line
<1>7. CASE UNCHANGED vars
  BY <1>1, <1>7 DEF vars, page, Line
<1>8. CASE Next
  BY <1>2, <1>3, <1>4, <1>5, <1>6, <1>8, MountLine, UnmountLine, RetryLine, OnOpenLine,
     DropsLine, OnCloseLine DEF Next
<1> QED BY <1>7, <1>8

LEMMA InitLine == Init => Line
<1> SUFFICES ASSUME Init PROVE Line
  OBVIOUS
<1>1. \A s \in Socket : socket[s] = "none" /\ ~(s <= cancelled)
  BY Numbers DEF Init
<1> QED BY <1>1 DEF Init, Line

(* At any time the page has its one connection, or will make another: no   *)
(* socket of a page that is gone lives on, and the timer that connects     *)
(* again is armed whenever the socket has closed (index.tsx:224).          *)
THEOREM ConnectionSafety == Spec => []OneConnectionAlways
BY InitType, TypeNext, InitLine, LineNext, LineGivesOneConnection, PTL DEF Spec

-----------------------------------------------------------------------------
(* What the page shows *)

LEMMA AnswersNext ==
  ASSUME TypeOK, Answered, [Next]_vars
  PROVE  \A s \in Socket : \A i \in DOMAIN answers'[s] : answers'[s][i] = "ok" => taken' # {}
<1>1. CASE taken' = taken /\ answers' = answers
  BY <1>1 DEF Answered
<1>2. ASSUME NEW s \in Socket, Drops(s)
      PROVE  \A t \in Socket : \A i \in DOMAIN answers'[t] : answers'[t][i] = "ok" => taken' # {}
  <2>1. answers'[s] = <<>> /\ DOMAIN answers'[s] = {}
    BY <1>2 DEF Drops, TypeOK
  <2>2. \A t \in Socket : t # s => answers'[t] = answers[t]
    BY <1>2 DEF Drops, TypeOK
  <2> QED BY <1>2, <2>1, <2>2 DEF Answered, Drops
<1>3. ASSUME NEW s \in Socket, RemoteTakes(s)
      PROVE  \A t \in Socket : \A i \in DOMAIN answers'[t] : answers'[t][i] = "ok" => taken' # {}
  BY <1>3 DEF RemoteTakes
<1>4. ASSUME NEW s \in Socket, RemoteRefuses(s)
      PROVE  \A t \in Socket : \A i \in DOMAIN answers'[t] : answers'[t][i] = "ok" => taken' # {}
  <2>1. answers'[s] = Append(answers[s], "error") /\ taken' = taken
    BY <1>4 DEF RemoteRefuses, TypeOK
  <2>2. \A t \in Socket : t # s => answers'[t] = answers[t]
    BY <1>4 DEF RemoteRefuses, TypeOK
  <2>3. answers[s] \in Seq({"ok", "error"})
    BY DEF TypeOK
  <2>4. \A i \in DOMAIN answers'[s] :
          answers'[s][i] = "ok" => i \in DOMAIN answers[s] /\ answers[s][i] = "ok"
    BY <2>1, <2>3
  <2> QED BY <2>1, <2>2, <2>4 DEF Answered
<1>5. ASSUME NEW s \in Socket, OnMessage(s)
      PROVE  \A t \in Socket : \A i \in DOMAIN answers'[t] : answers'[t][i] = "ok" => taken' # {}
  <2>1. answers'[s] = Tail(answers[s]) /\ taken' = taken
    BY <1>5 DEF OnMessage, TypeOK
  <2>2. \A t \in Socket : t # s => answers'[t] = answers[t]
    BY <1>5 DEF OnMessage, TypeOK
  <2>3. answers[s] \in Seq({"ok", "error"}) /\ answers[s] # <<>>
    BY <1>5 DEF TypeOK, OnMessage
  <2>4. \A i \in DOMAIN answers'[s] :
          i + 1 \in DOMAIN answers[s] /\ answers'[s][i] = answers[s][i + 1]
    BY <2>1, <2>3
  <2> QED BY <2>1, <2>2, <2>4 DEF Answered
<1>6. CASE UNCHANGED vars
  BY <1>1, <1>6 DEF vars, network
<1>7. CASE Next
  BY <1>1, <1>2, <1>3, <1>4, <1>5, <1>7
     DEF Next, Mount, Unmount, RetryTimerFires, AppRenders, SyncTimerFires, handleManualSend,
         OnOpen, OnClose, Encrypted, EncryptionFails, network
<1> QED BY <1>6, <1>7

LEMMA SyncedNext ==
  ASSUME TypeOK, Line, Answered, [Next]_vars
  PROVE  SyncedWhileConnected'
<1>1. CASE syncState' # "synced"
  BY <1>1 DEF SyncedWhileConnected
<1>2. CASE ~mounted'
  BY <1>2 DEF SyncedWhileConnected
<1>3. CASE mounted' = mounted /\ syncState' = syncState /\ socketState' = socketState
           /\ (taken # {} => taken' # {})
  BY <1>3 DEF SyncedWhileConnected, Answered
<1>4. CASE RetryTimerFires
  <2>1. mounted /\ socketState = "disconnected"
    BY <1>4 DEF RetryTimerFires, Line, TypeOK
  <2>2. syncState' # "synced"
    BY <1>4, <2>1 DEF RetryTimerFires, Answered, SyncedWhileConnected
  <2> QED BY <1>1, <2>2
<1>5. ASSUME NEW s \in Socket, OnMessage(s) PROVE SyncedWhileConnected'
  <2>1. socketState = "open" /\ socketState' = socketState
    BY <1>5, OnlyItsOwn DEF OnMessage, Line
  <2>2. answers[s] \in Seq({"ok", "error"}) /\ answers[s] # <<>>
    BY <1>5 DEF TypeOK, OnMessage
  <2>3. 1 \in DOMAIN answers[s] /\ Head(answers[s]) = answers[s][1]
    BY <2>2
  <2>4. syncState' = "synced" => taken # {} /\ taken' = taken
    BY <1>5, <2>3 DEF OnMessage, SyncStateOf, Answered
  <2> QED BY <2>1, <2>4 DEF SyncedWhileConnected
<1>6. ASSUME NEW s \in Socket, OnClose(s) PROVE SyncedWhileConnected'
  <2>1. syncState' = "error"
    BY <1>6, OnlyItsOwn DEF OnClose
  <2> QED BY <1>1, <2>1
<1>7. CASE SyncTimerFires \/ handleManualSend
  <2>1. syncState' = syncState \/ syncState' \in {"pending", "error"}
    BY <1>7 DEF SyncTimerFires, handleManualSend, sendCurrentPayload
  <2> QED BY <1>1, <1>3, <1>7, <2>1 DEF SyncTimerFires, handleManualSend, network
<1>8. CASE UNCHANGED vars
  BY <1>3, <1>8 DEF vars, page, network
<1>9. CASE Next
  BY <1>1, <1>2, <1>3, <1>4, <1>5, <1>6, <1>7, <1>9
     DEF Next, Mount, Unmount, AppRenders, OnOpen, Drops, Encrypted, EncryptionFails,
         RemoteTakes, RemoteRefuses, network, page
<1> QED BY <1>8, <1>9

(* "synced" is never left over from a connection that is gone, and is only *)
(* shown when the remote bridge has taken a payload (index.tsx:253).       *)
THEOREM SyncedSafety == Spec => []SyncedWhileConnected
<1>1. Init => Answered
  BY DEF Init, Answered, SyncedWhileConnected
<1>2. TypeOK /\ Line /\ Answered /\ [Next]_vars => Answered'
  BY AnswersNext, SyncedNext DEF Answered
<1>3. Answered => SyncedWhileConnected
  BY DEF Answered
<1> QED BY <1>1, <1>2, <1>3, InitType, TypeNext, InitLine, LineNext, PTL DEF Spec

=============================================================================
