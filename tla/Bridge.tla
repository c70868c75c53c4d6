------------------------------- MODULE Bridge -------------------------------
(***************************************************************************)
(* The bridge page, src/web/src/pages/bridge/index.tsx: it keeps a         *)
(* websocket to the remote bridge while it is mounted and sends it the     *)
(* flags, the sectors and the positions each time they change, encrypted.  *)
(*                                                                         *)
(* The data the page is given is known by its version, as the code knows   *)
(* it by its signature.  React renders the page right after an event that  *)
(* changes socketState, so the effect of that render is part of the event. *)
(* The remote bridge is external: it answers each payload it receives.     *)
(***************************************************************************)
EXTENDS Integers, Sequences

CONSTANTS
  MaxSockets,  (* bound: connections                                      *)
  MaxVersion,  (* bound: versions of the data                             *)
  MaxManual,   (* bound: clicks on the button that sends                  *)
  MaxInFlight, (* bound: payloads and answers on their way on a socket    *)
  Slot         (* bound: encryptions that run at once                     *)

ASSUME BridgeAssumption ==
  /\ MaxSockets \in Nat \ {0}
  /\ MaxVersion \in Nat

Socket  == 1 .. MaxSockets
Version == 0 .. MaxVersion
None    == -1    \* no timer, no signature
NoJob   == [socket |-> 0, version |-> 0, manual |-> FALSE]

VARIABLES
  version,      \* the data of the last render
  mounted,      \* the page is shown
  hasKey,       \* the shared key is part of the build
  socketRef,    \* socketRef, 0 for null
  socket,       \* readyState of each socket; "dropped": onclose is still to run
  cancelled,    \* the sockets up to this one are of a page that is gone
  retryTimer,   \* retryTimerRef
  syncTimer,    \* syncTimerRef: the data its callback has closed over
  lastSent,     \* lastSentSignatureRef
  socketState, syncState,
  sending,      \* a click is being served
  job,          \* encryptions that run
  clicks

(* The network and the remote bridge: *)
VARIABLES
  wire,         \* payloads on their way, by socket
  answers,      \* answers on their way
  received      \* the last payload the remote bridge has taken of the page shown

(* History, read by the properties only: *)
VARIABLES
  taken,        \* the payloads it has taken
  dropped       \* payloads that were sent and lost, or refused

page    == <<mounted, socketRef, socket, cancelled, retryTimer, syncTimer,
             lastSent, socketState, syncState, sending, job>>
network == <<wire, answers, received, taken, dropped>>
vars    == <<version, hasKey, clicks, page, network>>

Init ==
  /\ version = 0
  /\ hasKey \in BOOLEAN
  /\ mounted = FALSE
  /\ socketRef = 0
  /\ socket = [s \in Socket |-> "none"]
  /\ cancelled = 0
  /\ retryTimer = FALSE
  /\ syncTimer = None
  /\ lastSent = None
  /\ socketState = "connecting"
  /\ syncState = "pending"
  /\ sending = FALSE
  /\ job = [i \in Slot |-> NoJob]
  /\ clicks = 0
  /\ wire = [s \in Socket |-> <<>>]
  /\ answers = [s \in Socket |-> <<>>]
  /\ received = None
  /\ taken = {}
  /\ dropped = {}

Live(s)   == socket[s] \in {"connecting", "open"}
IsOpen(s) == s # 0 /\ socket[s] = "open"
Unused    == {s \in Socket : socket[s] = "none"}

-----------------------------------------------------------------------------
(* The connection *)

(* connect, the clearing of both timers included.  The sockets are used in *)
(* order.                                                                  *)
connect ==
  \E s \in Unused :
    /\ \A t \in Unused : s <= t
    /\ socket' = [socket EXCEPT ![s] = "connecting"]
    /\ socketRef' = s
    /\ retryTimer' = FALSE
    /\ syncTimer' = None
    /\ socketState' = "connecting"

(* The page is opened: a component with refs and state of its own.         *)
Mount ==
  /\ ~mounted
  /\ mounted' = TRUE
  /\ connect
  /\ lastSent' = None
  /\ syncState' = "pending"
  /\ sending' = FALSE
  /\ received' = None
  /\ UNCHANGED <<version, hasKey, clicks, cancelled, job, wire, answers, taken, dropped>>

(* Mutant of ClosedByPage: the socket is only forgotten. *)
Forgotten(s) == socket[s]

ClosedByPage(s) == IF Live(s) THEN "closing" ELSE "closed"

(* The page is left.  Its encryptions go on, but what they send on a       *)
(* socket that closes is discarded.                                        *)
Unmount ==
  /\ mounted
  /\ mounted' = FALSE
  /\ cancelled' = socketRef
  /\ socket' = [socket EXCEPT ![socketRef] = ClosedByPage(socketRef)]
  /\ socketRef' = 0
  /\ retryTimer' = FALSE
  /\ syncTimer' = None
  /\ job' = [i \in Slot |-> NoJob]
  /\ UNCHANGED <<version, hasKey, clicks, lastSent, socketState, syncState, sending, network>>

(* queueSync: the timer is armed anew.                                     *)
queueSync(data) == syncTimer' = data

OnOpen(s) ==
  /\ socket[s] = "connecting"
  /\ s > cancelled
  /\ socket' = [socket EXCEPT ![s] = "open"]
  /\ socketState' = "open"
  /\ syncState' = "pending"
  /\ queueSync(version)
  /\ UNCHANGED <<version, hasKey, clicks, mounted, socketRef, cancelled, retryTimer,
                 lastSent, sending, job, network>>

(* A connection ends, or cannot be made: what is on its way is lost.       *)
Drops(s) ==
  /\ socket[s] \in {"connecting", "open", "closing"}
  /\ socket' = [socket EXCEPT ![s] = IF s > cancelled THEN "dropped" ELSE "closed"]
  /\ dropped' = dropped \cup {wire[s][i] : i \in DOMAIN wire[s]}
  /\ wire' = [wire EXCEPT ![s] = <<>>]
  /\ answers' = [answers EXCEPT ![s] = <<>>]
  /\ UNCHANGED <<version, hasKey, clicks, mounted, socketRef, cancelled, retryTimer,
                 syncTimer, lastSent, socketState, syncState, sending, job, received, taken>>

(* Mutant of OnClose: what the page shows of the last answer is kept. *)
OnCloseKeepsSync(s) ==
  /\ socket[s] = "dropped"
  /\ socket' = [socket EXCEPT ![s] = "closed"]
  /\ IF s > cancelled
     THEN socketState' = "disconnected" /\ retryTimer' = TRUE
     ELSE UNCHANGED <<socketState, retryTimer>>
  /\ UNCHANGED <<version, hasKey, clicks, mounted, socketRef, cancelled, syncTimer,
                 lastSent, syncState, sending, job, network>>

(* onerror and onclose.                                                    *)
OnClose(s) ==
  /\ socket[s] = "dropped"
  /\ socket' = [socket EXCEPT ![s] = "closed"]
  /\ IF s > cancelled
     THEN /\ socketState' = "disconnected"
          /\ syncState' = "error"
          /\ retryTimer' = TRUE
     ELSE UNCHANGED <<socketState, syncState, retryTimer>>
  /\ UNCHANGED <<version, hasKey, clicks, mounted, socketRef, cancelled, syncTimer,
                 lastSent, sending, job, network>>

RetryTimerFires ==
  /\ retryTimer
  /\ connect
  /\ UNCHANGED <<version, hasKey, clicks, mounted, cancelled, lastSent, syncState,
                 sending, job, network>>

-----------------------------------------------------------------------------
(* Sending *)

(* The workspace renders, with other data or with the same: the arrays the *)
(* page is given are new each time, so its effect runs each time.          *)
AppRenders ==
  /\ \E data \in {version, version + 1} \cap Version : version' = data
  /\ IF mounted /\ socketState = "open" THEN queueSync(version') ELSE UNCHANGED syncTimer
  /\ UNCHANGED <<hasKey, clicks, mounted, socketRef, socket, cancelled, retryTimer,
                 lastSent, socketState, syncState, sending, job, network>>

(* sendCurrentPayload, up to the encryption.                               *)
sendCurrentPayload(data, force) ==
  IF ~IsOpen(socketRef)
  THEN syncState' = "error" /\ UNCHANGED job
  ELSE IF ~force /\ lastSent = data
  THEN UNCHANGED <<syncState, job>>
  ELSE /\ syncState' = "pending"
       /\ \E i \in Slot :
            /\ job[i] = NoJob
            /\ job' = [job EXCEPT ![i] =
                         [socket |-> socketRef, version |-> data, manual |-> force]]

SyncTimerFires ==
  /\ syncTimer # None
  /\ syncTimer' = None
  /\ sendCurrentPayload(syncTimer, FALSE)
  /\ UNCHANGED <<version, hasKey, clicks, mounted, socketRef, socket, cancelled,
                 retryTimer, lastSent, socketState, sending, network>>

handleManualSend ==
  /\ clicks < MaxManual
  /\ clicks' = clicks + 1
  /\ mounted /\ ~sending /\ socketState = "open"
  /\ sendCurrentPayload(version, TRUE)
  /\ sending' = IsOpen(socketRef)
  /\ UNCHANGED <<version, hasKey, mounted, socketRef, socket, cancelled, retryTimer,
                 syncTimer, lastSent, socketState, network>>

(* Mutant of SentSignature: the data of now, not of the payload. *)
CurrentSignature(i) == version

SentSignature(i) == job[i].version

(* The rest of sendCurrentPayload: the socket is the one it began with,    *)
(* and a socket that is not open any more discards what it is given.       *)
Encrypted(i) ==
  /\ job[i] # NoJob /\ hasKey
  /\ IF IsOpen(job[i].socket)
     THEN /\ Len(wire[job[i].socket]) + Len(answers[job[i].socket]) < MaxInFlight
          /\ wire' = [wire EXCEPT ![job[i].socket] = Append(@, job[i].version)]
          /\ UNCHANGED dropped
     ELSE /\ dropped' = dropped \cup {job[i].version}
          /\ UNCHANGED wire
  /\ lastSent' = SentSignature(i)
  /\ sending' = (sending /\ ~job[i].manual)
  /\ job' = [job EXCEPT ![i] = NoJob]
  /\ UNCHANGED <<version, hasKey, clicks, mounted, socketRef, socket, cancelled, retryTimer,
                 syncTimer, socketState, syncState, answers, received, taken>>

(* importBridgeKey throws.                                                 *)
EncryptionFails(i) ==
  /\ job[i] # NoJob /\ ~hasKey
  /\ syncState' = "error"
  /\ sending' = (sending /\ ~job[i].manual)
  /\ job' = [job EXCEPT ![i] = NoJob]
  /\ UNCHANGED <<version, hasKey, clicks, mounted, socketRef, socket, cancelled, retryTimer,
                 syncTimer, lastSent, socketState, network>>

-----------------------------------------------------------------------------
(* The remote bridge *)

RemoteTakes(s) ==
  /\ wire[s] # <<>>
  /\ wire' = [wire EXCEPT ![s] = Tail(@)]
  /\ answers' = [answers EXCEPT ![s] = Append(@, "ok")]
  /\ received' = IF s > cancelled THEN Head(wire[s]) ELSE received
  /\ taken' = taken \cup {Head(wire[s])}
  /\ UNCHANGED <<version, hasKey, clicks, page, dropped>>

RemoteRefuses(s) ==
  /\ wire[s] # <<>>
  /\ wire' = [wire EXCEPT ![s] = Tail(@)]
  /\ answers' = [answers EXCEPT ![s] = Append(@, "error")]
  /\ dropped' = dropped \cup {Head(wire[s])}
  /\ UNCHANGED <<version, hasKey, clicks, page, received, taken>>

(* Mutant of SyncStateOf: the answer as it is. *)
AnswerItself(answer) == answer

SyncStateOf(answer) == IF answer = "ok" THEN "synced" ELSE "error"

OnMessage(s) ==
  /\ socket[s] = "open" /\ s > cancelled
  /\ answers[s] # <<>>
  /\ answers' = [answers EXCEPT ![s] = Tail(@)]
  /\ syncState' = SyncStateOf(Head(answers[s]))
  /\ UNCHANGED <<version, hasKey, clicks, mounted, socketRef, socket, cancelled, retryTimer,
                 syncTimer, lastSent, socketState, sending, job, wire, received, taken, dropped>>

-----------------------------------------------------------------------------
Next ==
  \/ Mount \/ Unmount \/ RetryTimerFires
  \/ AppRenders \/ SyncTimerFires \/ handleManualSend
  \/ \E s \in Socket : OnOpen(s) \/ Drops(s) \/ OnClose(s) \/ OnMessage(s)
  \/ \E i \in Slot : Encrypted(i) \/ EncryptionFails(i)
  \/ \E s \in Socket : RemoteTakes(s) \/ RemoteRefuses(s)

(* A connection that is being made is made, or fails. *)
Resolves(s) == socket[s] = "connecting" /\ (OnOpen(s) \/ Drops(s))

(* Timers fire, promises are settled, events run, the remote bridge reads, *)
(* and the workspace renders at least at each of its polls.  Nothing is    *)
(* assumed of the user, and nothing of a connection: it may drop each time.*)
Fairness ==
  /\ WF_vars(AppRenders) /\ WF_vars(SyncTimerFires) /\ WF_vars(RetryTimerFires)
  /\ \A i \in Slot : WF_vars(Encrypted(i) \/ EncryptionFails(i))
  /\ \A s \in Socket : /\ WF_vars(Resolves(s)) /\ WF_vars(OnClose(s))
                       /\ WF_vars(OnMessage(s))
                       /\ WF_vars(RemoteTakes(s) \/ RemoteRefuses(s))

Spec == Init /\ [][Next]_vars /\ Fairness

-----------------------------------------------------------------------------
(* Properties *)

TypeOK ==
  /\ version \in Version /\ clicks \in Nat
  /\ mounted \in BOOLEAN /\ hasKey \in BOOLEAN /\ retryTimer \in BOOLEAN /\ sending \in BOOLEAN
  /\ socketRef \in Socket \cup {0}
  /\ socket \in [Socket -> {"none", "connecting", "open", "closing", "dropped", "closed"}]
  /\ cancelled \in Socket \cup {0}
  /\ syncTimer \in Version \cup {None} /\ lastSent \in Version \cup {None}
  /\ socketState \in {"connecting", "open", "disconnected"}
  /\ syncState \in {"pending", "synced", "error"}
  /\ job \in [Slot -> [socket : Socket \cup {0}, version : Version, manual : BOOLEAN]]
  /\ wire \in [Socket -> Seq(Version)]
  /\ answers \in [Socket -> Seq({"ok", "error"})]
  /\ received \in Version \cup {None}
  /\ taken \in SUBSET Version /\ dropped \in SUBSET Version

(* The page has one connection, and never gives it up: while it is shown,  *)
(* its last socket is live, or has closed and will tell, or the timer that *)
(* connects again is armed; every other socket has been let go, and a page *)
(* that is left keeps none (index.tsx:224).                                *)
OneConnectionAlways ==
  /\ \A s \in Socket : Live(s) => mounted /\ s = socketRef
  /\ mounted => /\ socketRef # 0
                /\ IF retryTimer THEN socket[socketRef] = "closed"
                   ELSE Live(socketRef) \/ socket[socketRef] = "dropped"
  /\ ~mounted => ~retryTimer /\ syncTimer = None

(* The signature the page compares the data with (index.tsx:317) is of a   *)
(* payload it has really sent: it has arrived, is on its way, or was lost  *)
(* with a connection.                                                      *)
StoredSignatureWasSent ==
  mounted /\ lastSent # None =>
    \/ lastSent \in taken \cup dropped
    \/ \E s \in Socket : \E i \in DOMAIN wire[s] : wire[s][i] = lastSent

(* "synced" is shown on a connection that is up and has been answered on,  *)
(* never left over from one that is gone.                                  *)
SyncedWhileConnected ==
  mounted /\ syncState = "synced" => socketState = "open" /\ taken # {}

(* If from some time on the page is shown, has a key and keeps its         *)
(* connection, the remote bridge ends up with the data of the page as the  *)
(* last it has of this page (index.tsx:303), though encryptions may end in *)
(* another order than they began and the signature outlives connections;   *)
(* unless that very payload was lost or refused, which the page does not   *)
(* notice.  A payload of a page that was left may still arrive later.      *)
CatchesUp ==
  (<>[](mounted /\ hasKey /\ IsOpen(socketRef))) =>
    <>[](received = version \/ version \in dropped)

=============================================================================
