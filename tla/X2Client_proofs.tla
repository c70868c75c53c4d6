--------------------------- MODULE X2Client_proofs ---------------------------
(***************************************************************************)
(* Safety of the shared X2 connection, for any operators and bounds.       *)
(***************************************************************************)
EXTENDS X2Client, TLAPS

Answer == {"welcome", "accepted", "refused", "keepalive"}

(* A goroutine's step is one of its own kind. *)
StepsOK(f) ==
  /\ f \in [Goroutine -> OperatorStep \cup ListenerStep]
  /\ \A o \in Operator : f[o] \in OperatorStep
  /\ \A l \in Socket : f[l] \in ListenerStep

(* Between its two attempts, a request has made the first. *)
RetryInv == \A o \in Operator : at[o] = "retry" => attempt[o] = 1

-----------------------------------------------------------------------------
(* Operators and listeners are different goroutines, and 0 is no socket.    *)
LEMMA Kinds ==
  /\ MaxSockets \in Nat
  /\ Socket \subseteq Nat \ {0}
  /\ \A o \in Operator : o \notin Socket
  /\ None \notin Socket
  /\ None \notin Operator
<1>1. MaxSockets \in Nat /\ Operator \cap Nat = {}
  BY ClientAssumption DEF ClientAssumption
<1> QED BY <1>1 DEF Socket, None

(* A goroutine that goes to a step of its own kind leaves all steps typed. *)
LEMMA GotoType ==
  ASSUME StepsOK(at), NEW g \in Goroutine, NEW step,
         g \in Operator => step \in OperatorStep,
         g \in Socket => step \in ListenerStep,
         Goto(g, step)
  PROVE  StepsOK(at')
<1>1. step \in OperatorStep \cup ListenerStep
  BY DEF Goroutine
<1> QED BY <1>1, Kinds DEF Goto, StepsOK, Goroutine

(* A panic ends a request, or the process: in both cases every goroutine is *)
(* at a step of its kind.                                                   *)
LEMMA PanicType ==
  ASSUME StepsOK(at), NEW g \in Goroutine, Panic(g)
  PROVE  StepsOK(at')
<1>1. CASE g \in Operator \ Background
  <2>1. g \notin Socket /\ "idle" \in OperatorStep
    BY <1>1, Kinds DEF OperatorStep
  <2> QED BY <1>1, <2>1, GotoType DEF Panic
<1>2. CASE g \notin Operator \ Background
  BY <1>2 DEF Panic, StepsOK, Goroutine, OperatorStep, ListenerStep
<1> QED BY <1>1, <1>2

(* So does what the callers of SendRaw do with its result. *)
LEMMA SentType ==
  ASSUME StepsOK(at), msg \in [Goroutine -> Message],
         NEW g \in Goroutine, NEW ok \in BOOLEAN, Sent(g, ok)
  PROVE  StepsOK(at') /\ msg' \in [Goroutine -> Message]
<1>1. /\ {"idle", "retry"} \subseteq OperatorStep
      /\ {"check", "load"} \subseteq ListenerStep
      /\ Command \in Message /\ [kind |-> "track"] \in Message
  BY DEF OperatorStep, ListenerStep, Command, Message
<1>2. CASE g \in Operator
  <2>1. Goto(g, IF Retries(g, ok) THEN "retry" ELSE "idle") /\ UNCHANGED msg
    BY <1>2 DEF Sent
  <2>2. g \notin Socket
    BY <1>2, Kinds
  <2> QED BY <1>1, <1>2, <2>1, <2>2, GotoType
<1>3. CASE g \notin Operator
  <2>1. CASE ok /\ msg[g].kind = "subscribe"
    <3>1. Goto(g, "check") /\ msg' = [msg EXCEPT ![g] = [kind |-> "track"]]
      BY <1>3, <2>1 DEF Sent
    <3> QED BY <1>1, <1>3, <3>1, GotoType
  <2>2. CASE ~(ok /\ msg[g].kind = "subscribe")
    <3>1. Goto(g, "load") /\ msg' = [msg EXCEPT ![g] = Command]
      BY <1>3, <2>2 DEF Sent
    <3> QED BY <1>1, <1>3, <3>1, GotoType
  <2> QED BY <2>1, <2>2
<1> QED BY <1>2, <1>3

(* The type invariant, with the steps of the goroutines as one of its       *)
(* parts.                                                                   *)
LEMMA TypeParts ==
  TypeOK <=>
    /\ conn \in Socket \cup {None}
    /\ state \in {"disconnected", "wait_welcome", "ready"}
    /\ token \in Socket \cup {None}
    /\ StepsOK(at)
    /\ msg \in [Goroutine -> Message]
    /\ want \in [Operator -> Request]
    /\ attempt \in [Operator -> {1, 2}]
    /\ dialled \in [Operator -> Socket \cup {None}]
    /\ reading \in [Socket -> Socket \cup {None}]
    /\ opened \in 0 .. MaxSockets
    /\ closed \in SUBSET Socket
    /\ lost \in SUBSET Socket
    /\ inbox \in [Socket -> Seq(Answer)]
    /\ authed \in SUBSET Socket
    /\ overlapped \in BOOLEAN
    /\ disturbed \in BOOLEAN
    /\ delivered \in [Operator -> Nat]
    /\ requests \in Nat
    /\ keepalives \in Nat
BY DEF TypeOK, StepsOK, Answer

(* The client starts without a connection, as NewClient makes it. *)
LEMMA InitType == Init => TypeOK
<1> SUFFICES ASSUME Init PROVE TypeOK
  OBVIOUS
<1>1. StepsOK(at)
  BY Kinds DEF Init, StepsOK, Goroutine, OperatorStep, ListenerStep
<1>2. msg \in [Goroutine -> Message]
  BY DEF Init, Message, Command
<1>3. want \in [Operator -> Request] /\ attempt \in [Operator -> {1, 2}]
  BY DEF Init, Request
<1>4. opened \in 0 .. MaxSockets
  BY Kinds DEF Init
<1>5. /\ dialled \in [Operator -> Socket \cup {None}]
      /\ reading \in [Socket -> Socket \cup {None}]
      /\ inbox \in [Socket -> Seq(Answer)]
      /\ delivered \in [Operator -> Nat]
  BY DEF Init
<1>6. /\ conn \in Socket \cup {None} /\ token \in Socket \cup {None}
      /\ state \in {"disconnected", "wait_welcome", "ready"}
      /\ requests \in Nat /\ keepalives \in Nat
      /\ overlapped \in BOOLEAN /\ disturbed \in BOOLEAN
      /\ closed \in SUBSET Socket /\ lost \in SUBSET Socket /\ authed \in SUBSET Socket
  BY DEF Init
<1> QED BY <1>1, <1>2, <1>3, <1>4, <1>5, <1>6, TypeParts

(* The steps of SendRaw, which operators and listeners share. *)
LEMMA SendsType ==
  ASSUME TypeOK, NEW g \in Goroutine, Sends(g)
  PROVE  TypeOK'
<1>a. StepsOK(at) /\ msg \in [Goroutine -> Message]
  BY TypeParts
<1>b. /\ {"write", "reset"} \subseteq OperatorStep
      /\ {"write", "reset"} \subseteq ListenerStep
  BY DEF OperatorStep, ListenerStep
<1>1. CASE SendChecks(g)
  <2>1. StepsOK(at') /\ msg' \in [Goroutine -> Message]
    <3>1. CASE conn = None
      BY <1>1, <1>a, <3>1, SentType DEF SendChecks
    <3>2. CASE conn # None
      <4>1. Goto(g, "write") /\ UNCHANGED msg
        BY <1>1, <3>2 DEF SendChecks
      <4> QED BY <1>a, <1>b, <4>1, GotoType
    <3> QED BY <3>1, <3>2
  <2>2. UNCHANGED <<client, operators, reading, sockets, history, bounds>>
    BY <1>1 DEF SendChecks
  <2> QED BY <2>1, <2>2, TypeParts DEF TypeOK, StepsOK, client, operators, sockets, history, bounds
<1>2. CASE SendWrites(g)
  <2>0. UNCHANGED <<client, operators, reading, opened, closed, lost, overlapped, disturbed, bounds>>
    BY <1>2 DEF SendWrites
  <2>a. UNCHANGED <<inbox, authed, delivered>> =>
          /\ inbox' \in [Socket -> Seq(Answer)]
          /\ authed' \in SUBSET Socket
          /\ delivered' \in [Operator -> Nat]
    BY TypeParts
  <2>1. StepsOK(at') /\ msg' \in [Goroutine -> Message]
    <3>1. CASE conn = None
      BY <1>2, <1>a, <3>1, PanicType DEF SendWrites
    <3>2. CASE conn # None /\ Goto(g, "reset") /\ UNCHANGED msg
      BY <1>a, <1>b, <3>2, GotoType
    <3>3. CASE Sent(g, FALSE)
      BY <1>a, <3>3, SentType
    <3> QED BY <1>2, <3>1, <3>2, <3>3 DEF SendWrites
  <2>2. /\ inbox' \in [Socket -> Seq(Answer)]
        /\ authed' \in SUBSET Socket
        /\ delivered' \in [Operator -> Nat]
    <3>1. CASE conn # None /\ X2Receives(g, conn)
      <4>1. conn \in Socket /\ inbox[conn] \in Seq(Answer)
        BY <3>1, TypeParts
      <4>2. /\ Append(inbox[conn], "accepted") \in Seq(Answer)
            /\ Append(inbox[conn], "refused") \in Seq(Answer)
        BY <4>1 DEF Answer
      <4>3. delivered' \in [Operator -> Nat]
        BY <3>1, TypeParts DEF X2Receives
      <4>4. inbox \in [Socket -> Seq(Answer)] /\ authed \in SUBSET Socket
        BY TypeParts
      <4>5. \/ UNCHANGED inbox
            \/ inbox' = [inbox EXCEPT ![conn] = Append(@, "accepted")]
            \/ inbox' = [inbox EXCEPT ![conn] = Append(@, "refused")]
        BY <3>1 DEF X2Receives
      <4>6. UNCHANGED authed \/ authed' = authed \cup {conn}
        BY <3>1 DEF X2Receives
      <4> QED BY <4>1, <4>2, <4>3, <4>4, <4>5, <4>6
    <3>2. CASE UNCHANGED <<inbox, authed, delivered>>
      BY <2>a, <3>2
    <3> QED BY <1>2, <3>1, <3>2 DEF SendWrites
  <2> QED BY <2>0, <2>1, <2>2, TypeParts DEF TypeOK, StepsOK, Answer, client, operators, bounds
<1>3. CASE SendResets(g)
  <2>1. StepsOK(at') /\ msg' \in [Goroutine -> Message]
    <3>1. CASE conn = None
      BY <1>3, <1>a, <3>1, PanicType DEF SendResets
    <3>2. CASE conn # None
      BY <1>3, <1>a, <3>2, SentType DEF SendResets
    <3> QED BY <3>1, <3>2
  <2>2. UNCHANGED <<client, operators, reading, sockets, history, bounds>>
    BY <1>3 DEF SendResets
  <2> QED BY <2>1, <2>2, TypeParts DEF TypeOK, StepsOK, client, operators, sockets, history, bounds
<1> QED BY <1>1, <1>2, <1>3 DEF Sends

(* Close leaves the connection, the state and the closed sockets typed. *)
LEMMA CloseType ==
  ASSUME TypeOK, Close
  PROVE  /\ conn' \in Socket \cup {None}
         /\ state' \in {"disconnected", "wait_welcome", "ready"}
         /\ closed' \in SUBSET Socket
BY DEF Close, TypeOK

(* A step of a request's goroutine: withX2Retry needs RetryInv not to count *)
(* past its second attempt.                                                 *)
LEMMA OperatorType ==
  ASSUME TypeOK, RetryInv, NEW o \in Operator, OperatorMoves(o)
  PROVE  TypeOK'
<1>a. /\ StepsOK(at) /\ o \in Goroutine /\ o \notin Socket
      /\ MaxSockets \in Nat
  BY TypeParts, Kinds DEF Goroutine
<1>b. /\ {"connect", "poll", "check", "idle", "dialing", "dialled", "ensure"} \subseteq OperatorStep
      /\ AfterConnect(o) \in OperatorStep
  BY DEF OperatorStep, AfterConnect
<1>1. CASE EnsureLooks(o) \/ Polls(o) \/ DialFails(o)
  <2>1. PICK step \in OperatorStep : Goto(o, step)
    BY <1>1, <1>b DEF EnsureLooks, Polls, DialFails
  <2>2. StepsOK(at')
    BY <1>a, <2>1, GotoType
  <2> QED BY <1>1, <2>2, TypeParts
          DEF EnsureLooks, Polls, DialFails, TypeOK, StepsOK, client, operators, sockets, history, bounds
<1>2. CASE ConnectChecks(o)
  <2>1. StepsOK(at')
    BY <1>2, <1>a, <1>b, GotoType DEF ConnectChecks
  <2>2. overlapped' \in BOOLEAN
    BY <1>2 DEF ConnectChecks
  <2> QED BY <1>2, <2>1, <2>2, TypeParts
          DEF ConnectChecks, TypeOK, StepsOK, client, operators, sockets, bounds
<1>3. CASE DialSucceeds(o)
  <2>1. StepsOK(at')
    BY <1>3, <1>a, <1>b, GotoType DEF DialSucceeds
  <2>2. opened' \in 0 .. MaxSockets /\ opened + 1 \in Socket
    BY <1>3, <1>a DEF DialSucceeds, TypeOK, Socket
  <2>3. /\ inbox' \in [Socket -> Seq(Answer)]
        /\ dialled' \in [Operator -> Socket \cup {None}]
    <3>1. <<"welcome">> \in Seq(Answer)
      BY DEF Answer
    <3> QED BY <1>3, <2>2, <3>1, TypeParts DEF DialSucceeds
  <2> QED BY <1>3, <2>1, <2>2, <2>3, TypeParts
          DEF DialSucceeds, TypeOK, StepsOK, Answer, client, history, bounds
<1>4. CASE ConnectStores(o)
  <2>1. StepsOK(at')
    <3>1. "load" \in ListenerStep
      BY DEF ListenerStep
    <3>2. at' = [at EXCEPT ![o] = AfterConnect(o), ![dialled[o]] = "load"]
      BY <1>4 DEF ConnectStores
    <3>3. dialled[o] \notin Operator
      <4>1. dialled[o] \in Socket \cup {None}
        BY DEF TypeOK
      <4> QED BY <4>1, Kinds
    <3> QED BY <1>a, <1>b, <3>1, <3>2, <3>3 DEF StepsOK, Goroutine
  <2>2. /\ conn' \in Socket \cup {None}
        /\ dialled' \in [Operator -> Socket \cup {None}]
    BY <1>4, TypeParts DEF ConnectStores
  <2>3. state' \in {"disconnected", "wait_welcome", "ready"} /\ disturbed' \in BOOLEAN
    BY <1>4 DEF ConnectStores, StateAfterConnect
  <2> QED BY <1>4, <2>1, <2>2, <2>3, TypeParts
          DEF ConnectStores, TypeOK, StepsOK, sockets, bounds
<1>5. CASE OperatorCloses(o)
  <2>1. StepsOK(at')
    BY <1>5, <1>a, <1>b, GotoType DEF OperatorCloses
  <2>2. /\ conn' \in Socket \cup {None}
        /\ state' \in {"disconnected", "wait_welcome", "ready"}
        /\ closed' \in SUBSET Socket
    BY <1>5, CloseType DEF OperatorCloses
  <2>3. attempt' \in [Operator -> {1, 2}]
    BY <1>5, TypeParts DEF OperatorCloses, RetryInv
  <2> QED BY <1>5, <2>1, <2>2, <2>3, TypeParts
          DEF OperatorCloses, TypeOK, StepsOK, history, bounds
<1>6. CASE Sends(o)
  BY <1>6, <1>a, SendsType
<1> QED BY <1>1, <1>2, <1>3, <1>4, <1>5, <1>6 DEF OperatorMoves

(* A step of listen and of the handlers it calls. *)
LEMMA ListenerType ==
  ASSUME TypeOK, NEW l \in Socket, ListenerMoves(l)
  PROVE  TypeOK'
<1>a. /\ StepsOK(at) /\ l \in Goroutine /\ l \notin Operator
      /\ msg \in [Goroutine -> Message]
  BY TypeParts, Kinds DEF Goroutine
<1>b. {"load", "read", "welcome", "auth", "accepted", "check", "closing", "ended"} \subseteq ListenerStep
  BY DEF ListenerStep
<1>1. CASE ListenerLoads(l)
  <2>1. StepsOK(at')
    BY <1>1, <1>a, <1>b, GotoType, PanicType DEF ListenerLoads
  <2>2. reading' \in [Socket -> Socket \cup {None}]
    BY <1>1, TypeParts DEF ListenerLoads
  <2> QED BY <1>1, <2>1, <2>2, TypeParts
          DEF ListenerLoads, TypeOK, StepsOK, client, operators, sockets, history, bounds
<1>2. CASE ListenerReads(l)
  <2>1. PICK step \in ListenerStep : Goto(l, step)
    BY <1>2, <1>b DEF ListenerReads, Verdict
  <2>2. StepsOK(at')
    BY <1>a, <2>1, GotoType
  <2>3. msg' \in [Goroutine -> Message]
    <3>1. [kind |-> "keepalive"] \in Message
      BY DEF Message
    <3> QED BY <1>2, <1>a, <3>1 DEF ListenerReads
  <2>4. inbox' \in [Socket -> Seq(Answer)]
    <3>1. inbox \in [Socket -> Seq(Answer)] /\ reading \in [Socket -> Socket \cup {None}]
      BY TypeParts
    <3>2. inbox' = [inbox EXCEPT ![reading[l]] = Tail(@)] /\ inbox[reading[l]] # <<>>
      BY <1>2 DEF ListenerReads
    <3>3. CASE reading[l] \in Socket
      <4>1. Tail(inbox[reading[l]]) \in Seq(Answer)
        BY <3>1, <3>2, <3>3
      <4> QED BY <3>1, <3>2, <4>1
    <3>4. CASE reading[l] \notin Socket
      BY <3>1, <3>2, <3>4
    <3> QED BY <3>3, <3>4
  <2> QED BY <1>2, <2>2, <2>3, <2>4, TypeParts
          DEF ListenerReads, TypeOK, StepsOK, Answer, client, operators, history, bounds
<1>3. CASE handleWelcome(l)
  <2>1. StepsOK(at')
    BY <1>3, <1>a, <1>b, GotoType DEF handleWelcome
  <2>2. token' \in Socket \cup {None}
    BY <1>3, TypeParts DEF handleWelcome
  <2> QED BY <1>3, <2>1, <2>2, TypeParts
          DEF handleWelcome, TypeOK, StepsOK, operators, sockets, history, bounds
<1>4. CASE sendAuth(l)
  <2>1. StepsOK(at')
    BY <1>4, <1>a, <1>b, GotoType DEF sendAuth
  <2>2. msg' \in [Goroutine -> Message]
    BY <1>4, <1>a, TypeParts DEF sendAuth, Message
  <2> QED BY <1>4, <2>1, <2>2, TypeParts
          DEF sendAuth, TypeOK, StepsOK, client, operators, sockets, history, bounds
<1>5. CASE handleAuthOK(l)
  <2>1. StepsOK(at')
    BY <1>5, <1>a, <1>b, GotoType DEF handleAuthOK
  <2>2. msg' \in [Goroutine -> Message]
    BY <1>5, <1>a DEF handleAuthOK, Message
  <2> QED BY <1>5, <2>1, <2>2, TypeParts
          DEF handleAuthOK, TypeOK, StepsOK, operators, sockets, history, bounds
<1>6. CASE ListenerFails(l)
  <2>1. StepsOK(at')
    BY <1>6, <1>a, <1>b, GotoType DEF ListenerFails, AfterReadError
  <2> QED BY <1>6, <2>1, TypeParts
          DEF ListenerFails, TypeOK, StepsOK, client, operators, sockets, history, bounds
<1>7. CASE ListenerCloses(l)
  <2>1. StepsOK(at')
    BY <1>7, <1>a, <1>b, GotoType DEF ListenerCloses
  <2>2. /\ conn' \in Socket \cup {None}
        /\ state' \in {"disconnected", "wait_welcome", "ready"}
        /\ closed' \in SUBSET Socket
    BY <1>7, CloseType DEF ListenerCloses
  <2>3. reading' \in [Socket -> Socket \cup {None}]
    BY <1>7, TypeParts DEF ListenerCloses
  <2> QED BY <1>7, <2>1, <2>2, <2>3, TypeParts
          DEF ListenerCloses, TypeOK, StepsOK, operators, history, bounds
<1>8. CASE Sends(l)
  BY <1>8, <1>a, SendsType
<1> QED BY <1>1, <1>2, <1>3, <1>4, <1>5, <1>6, <1>7, <1>8 DEF ListenerMoves

(* The whole step, with new requests and with what X2 does by itself. *)
LEMMA StepType == TypeOK /\ RetryInv /\ [Next]_vars => TypeOK'
<1> SUFFICES ASSUME TypeOK, RetryInv, [Next]_vars PROVE TypeOK'
  OBVIOUS
<1>1. ASSUME NEW o \in Operator, NEW w \in Request, Asks(o, w)
      PROVE  TypeOK'
  <2>1. StepsOK(at')
    <3>1. AfterRequest(w) \in OperatorStep
      BY DEF AfterRequest, Request, OperatorStep
    <3>2. StepsOK(at) /\ o \in Goroutine /\ o \notin Socket
      BY TypeParts, Kinds DEF Goroutine
    <3> QED BY <1>1, <3>1, <3>2, GotoType DEF Asks
  <2>2. msg' \in [Goroutine -> Message]
    BY <1>1, TypeParts DEF Asks, Message, Command
  <2>3. /\ want' \in [Operator -> Request]
        /\ attempt' \in [Operator -> {1, 2}]
        /\ delivered' \in [Operator -> Nat]
        /\ requests' \in Nat
    BY <1>1, TypeParts DEF Asks
  <2> QED BY <1>1, <2>1, <2>2, <2>3, TypeParts DEF Asks, TypeOK, StepsOK, client, sockets
<1>2. ASSUME NEW s \in Socket, X2Drops(s)
      PROVE  TypeOK'
  BY <1>2 DEF X2Drops, TypeOK, client, operators, history, bounds
<1>3. ASSUME NEW s \in Socket, X2KeepsAlive(s)
      PROVE  TypeOK'
  <2>1. inbox \in [Socket -> Seq(Answer)] /\ keepalives \in Nat
    BY TypeParts
  <2>2. Append(inbox[s], "keepalive") \in Seq(Answer)
    BY <2>1 DEF Answer
  <2>3. inbox' \in [Socket -> Seq(Answer)] /\ keepalives' \in Nat
    BY <1>3, <2>1, <2>2 DEF X2KeepsAlive
  <2> QED BY <1>3, <2>3 DEF X2KeepsAlive, TypeOK, Answer, client, operators, history
<1>4. CASE UNCHANGED vars
  BY <1>4 DEF vars, TypeOK, client, operators, sockets, history, bounds
<1> QED BY <1>1, <1>2, <1>3, <1>4, OperatorType, ListenerType DEF Next

-----------------------------------------------------------------------------
(* The step after SendRaw of an operator. *)
LEMMA SentStep ==
  ASSUME NEW g \in Goroutine, NEW ok \in BOOLEAN, Sent(g, ok)
  PROVE  \/ g \in Operator /\ Goto(g, IF Retries(g, ok) THEN "retry" ELSE "idle")
         \/ g \in Socket /\ \E step \in {"check", "load"} : Goto(g, step)
BY DEF Sent, Goroutine

(* What a step of SendRaw does to the places of the goroutines: it moves    *)
(* only its own, unless a panic ends the process.                           *)
LEMMA SendsStep ==
  ASSUME NEW g \in Goroutine, Sends(g)
  PROVE  /\ at[g] \in {"check", "write", "reset"}
         /\ UNCHANGED <<client, operators, reading, opened, closed, lost>>
         /\ UNCHANGED <<overlapped, disturbed, bounds>>
         /\ \/ g \in Operator /\ Goto(g, "retry") /\ attempt[g] = 1
            \/ g \in Operator /\ Goto(g, "idle")
            \/ g \in Socket /\ \E step \in {"check", "load"} : Goto(g, step)
            \/ Goto(g, "write") /\ at[g] = "check"
            \/ Goto(g, "reset") /\ at[g] = "write"
            \/ at' = [h \in Goroutine |-> "down"]
<1>1. ASSUME NEW ok \in BOOLEAN, Sent(g, ok)
      PROVE  \/ g \in Operator /\ Goto(g, "retry") /\ attempt[g] = 1
             \/ g \in Operator /\ Goto(g, "idle")
             \/ g \in Socket /\ \E step \in {"check", "load"} : Goto(g, step)
  BY <1>1, SentStep DEF Retries
<1>2. ASSUME Panic(g)
      PROVE  (g \in Operator /\ Goto(g, "idle")) \/ at' = [h \in Goroutine |-> "down"]
  BY <1>2 DEF Panic
<1>3. CASE SendChecks(g)
  BY <1>1, <1>3 DEF SendChecks, sockets, history
<1>4. CASE SendWrites(g)
  BY <1>1, <1>2, <1>4 DEF SendWrites
<1>5. CASE SendResets(g)
  BY <1>1, <1>2, <1>5 DEF SendResets, sockets, history
<1> QED BY <1>3, <1>4, <1>5 DEF Sends

(* A request comes to the Close between its attempts only after the first   *)
(* (server.go:196-213).                                                     *)
LEMMA RetryStep == TypeOK /\ RetryInv /\ [Next]_vars => RetryInv'
<1> SUFFICES ASSUME TypeOK, RetryInv, [Next]_vars, NEW p \in Operator, at'[p] = "retry"
             PROVE  attempt'[p] = 1
  BY DEF RetryInv
<1>a. /\ at \in [Goroutine -> OperatorStep \cup ListenerStep] /\ p \in Goroutine
      /\ attempt \in [Operator -> {1, 2}]
      /\ p \notin Socket
  BY Kinds DEF TypeOK, Goroutine
<1>1. ASSUME NEW o \in Operator, NEW w \in Request, Asks(o, w)
      PROVE  attempt'[p] = 1
  BY <1>1, <1>a DEF Asks, AfterRequest, Request, Goto, RetryInv
<1>2. ASSUME NEW g \in Goroutine, Sends(g)
      PROVE  attempt'[p] = 1
  BY <1>2, <1>a, SendsStep DEF Goto, RetryInv, operators
<1>3. ASSUME NEW o \in Operator, OperatorMoves(o)
      PROVE  attempt'[p] = 1
  <2>1. CASE ConnectStores(o)
    BY <1>a, <2>1 DEF ConnectStores, AfterConnect, RetryInv
  <2>2. CASE EnsureLooks(o) \/ Polls(o) \/ DialFails(o) \/ DialSucceeds(o)
    BY <1>a, <2>2 DEF EnsureLooks, Polls, DialFails, DialSucceeds, Goto, RetryInv, operators
  <2>3. CASE ConnectChecks(o)
    BY <1>a, <2>3 DEF ConnectChecks, AfterConnect, Goto, RetryInv, operators
  <2>4. CASE OperatorCloses(o)
    BY <1>a, <2>4 DEF OperatorCloses, Goto, RetryInv
  <2> QED BY <1>2, <1>3, <2>1, <2>2, <2>3, <2>4 DEF OperatorMoves, Goroutine
<1>4. ASSUME NEW l \in Socket, ListenerMoves(l)
      PROVE  attempt'[p] = 1
  <2>1. CASE ListenerLoads(l)
    BY <1>a, <2>1 DEF ListenerLoads, Panic, Goto, RetryInv, operators
  <2>2. CASE ListenerReads(l)
    BY <1>a, <2>2, Kinds DEF ListenerReads, Goto, RetryInv, operators
  <2>3. CASE handleWelcome(l) \/ sendAuth(l) \/ handleAuthOK(l) \/ ListenerFails(l) \/ ListenerCloses(l)
    BY <1>a, <2>3, Kinds
       DEF handleWelcome, sendAuth, handleAuthOK, ListenerFails, ListenerCloses, AfterReadError, Goto, RetryInv, operators
  <2> QED BY <1>2, <1>4, <2>1, <2>2, <2>3 DEF ListenerMoves, Goroutine
<1>5. ASSUME NEW s \in Socket, X2Drops(s) \/ X2KeepsAlive(s)
      PROVE  attempt'[p] = 1
  BY <1>5, <1>a DEF X2Drops, X2KeepsAlive, RetryInv, operators
<1>6. CASE UNCHANGED vars
  BY <1>6, <1>a DEF vars, RetryInv, operators
<1> QED BY <1>1, <1>3, <1>4, <1>5, <1>6 DEF Next

(* The types of all variables, which the number of attempts needs RetryInv for. *)
THEOREM TypeCorrect == Spec => []TypeOK
<1>1. Init => TypeOK /\ RetryInv
  <2>1. Init => RetryInv
    BY DEF Init, RetryInv
  <2> QED BY <2>1, InitType
<1>2. TypeOK /\ RetryInv /\ [Next]_vars => TypeOK' /\ RetryInv'
  BY StepType, RetryStep
<1> QED BY <1>1, <1>2, PTL DEF Spec

-----------------------------------------------------------------------------
(* What the sockets, their listeners and the goroutines that dial have to   *)
(* do with one another: a socket is dialled by one goroutine, has no        *)
(* listener while it is in that goroutine's hands, and is then stored once. *)
DialInv ==
  /\ \A o \in Operator : at[o] = "dialled" => dialled[o] # None
  /\ \A o \in Operator : dialled[o] # None =>
       /\ dialled[o] <= opened
       /\ dialled[o] # conn
       /\ at[dialled[o]] \in {"none", "down"}
  /\ \A o, p \in Operator : dialled[o] = dialled[p] /\ dialled[o] # None => o = p
  /\ \A s \in Socket : s > opened => at[s] \in {"none", "down"}
  /\ conn <= opened

ConnInv == DialInv /\ Watched /\ StateMatchesConn

(* The places and the sockets before a step, as the solvers use them. *)
LEMMA Places ==
  ASSUME TypeOK
  PROVE  /\ at \in [Goroutine -> OperatorStep \cup ListenerStep]
         /\ dialled \in [Operator -> Socket \cup {None}]
         /\ reading \in [Socket -> Socket \cup {None}]
         /\ conn \in Socket \cup {None}
         /\ opened \in Nat
         /\ Socket \subseteq Nat \ {0}
         /\ Goroutine = Operator \cup Socket
         /\ \A o \in Operator : o \notin Socket
BY Kinds DEF TypeOK, Goroutine

(* Without a socket there is nothing to watch. *)
LEMMA ConnInit == Init => ConnInv
<1> SUFFICES ASSUME Init PROVE ConnInv
  OBVIOUS
<1>1. \A s \in Socket : at[s] = "none"
  BY Kinds DEF Init, Goroutine
<1>2. \A o \in Operator : dialled[o] = None /\ at[o] = "idle"
  BY DEF Init, Goroutine
<1> QED BY <1>1, <1>2 DEF Init, ConnInv, DialInv, Watched, StateMatchesConn, None

(* An operator's step that leaves conn, state and the sockets alone, and    *)
(* only moves itself, leaves the invariant alone.                           *)
LEMMA OperatorFrame ==
  ASSUME TypeOK, ConnInv, NEW o \in Operator, NEW step, Goto(o, step), step # "dialled",
         UNCHANGED <<conn, state, dialled, reading, opened>>
  PROVE  ConnInv'
<1> USE Places
<1>1. DialInv'
  BY DEF ConnInv, DialInv, Goto, None
<1>2. Watched' /\ StateMatchesConn'
  BY DEF ConnInv, Watched, StateMatchesConn, Goto, None
<1> QED BY <1>1, <1>2 DEF ConnInv

(* A listener's step that leaves conn, state and the sockets alone. *)
LEMMA ListenerFrame ==
  ASSUME TypeOK, ConnInv, NEW l \in Socket, NEW step, Goto(l, step),
         at[l] \notin {"none", "load", "ended", "down"},
         step \notin {"none", "ended"},
         UNCHANGED <<conn, state, dialled, reading, opened>>
  PROVE  ConnInv'
<1> USE Places
<1>1. DialInv'
  BY DEF ConnInv, DialInv, Goto, None
<1>2. Watched' /\ StateMatchesConn'
  BY DEF ConnInv, Watched, StateMatchesConn, Goto, None
<1> QED BY <1>1, <1>2 DEF ConnInv

(* The end of the process leaves it alone, too. *)
LEMMA DownFrame ==
  ASSUME TypeOK, ConnInv, at' = [h \in Goroutine |-> "down"],
         UNCHANGED <<conn, state, dialled, reading, opened>>
  PROVE  ConnInv'
<1> USE Places
<1>1. DialInv'
  BY DEF ConnInv, DialInv, None
<1>2. Watched' /\ StateMatchesConn'
  BY DEF ConnInv, Watched, StateMatchesConn, None
<1> QED BY <1>1, <1>2 DEF ConnInv

(* SendRaw moves nobody but its caller: neither the state nor the           *)
(* connection is touched by a failed write.                                 *)
LEMMA SendsConn ==
  ASSUME TypeOK, ConnInv, NEW g \in Goroutine, Sends(g)
  PROVE  ConnInv'
<1>1. UNCHANGED <<conn, state, dialled, reading, opened>> /\ at[g] \in {"check", "write", "reset"}
  BY SendsStep DEF client, operators
<1>2. CASE at' = [h \in Goroutine |-> "down"]
  BY <1>1, <1>2, DownFrame
<1>3. ASSUME NEW step \in {"retry", "idle", "check", "load", "write", "reset"}, Goto(g, step)
      PROVE  ConnInv'
  <2>1. CASE g \in Operator
    BY <1>1, <1>3, <2>1, OperatorFrame
  <2>2. CASE g \in Socket
    BY <1>1, <1>3, <2>2, ListenerFrame
  <2> QED BY <2>1, <2>2 DEF Goroutine
<1> QED BY <1>2, <1>3, SendsStep

(* Connect stores a socket that has no listener yet and starts one; Close   *)
(* resets the state with the connection (connection.go:20-86).              *)
LEMMA OperatorConn ==
  ASSUME TypeOK, ConnInv, NEW o \in Operator, OperatorMoves(o)
  PROVE  ConnInv'
<1>1. CASE EnsureLooks(o) \/ Polls(o) \/ DialFails(o) \/ ConnectChecks(o)
  <2>1. PICK step \in OperatorStep \ {"dialled"} : Goto(o, step)
    BY <1>1 DEF EnsureLooks, Polls, DialFails, ConnectChecks, AfterConnect, OperatorStep
  <2>2. UNCHANGED <<conn, state, dialled, reading, opened>>
    BY <1>1 DEF EnsureLooks, Polls, DialFails, ConnectChecks, client, operators, sockets
  <2> QED BY <2>1, <2>2, OperatorFrame
<1>2. CASE DialSucceeds(o)
  <2> USE Places, Kinds
  <2>1. /\ opened' = opened + 1 /\ opened + 1 \in Socket
        /\ dialled' = [dialled EXCEPT ![o] = opened + 1]
        /\ at' = [at EXCEPT ![o] = "dialled"]
        /\ UNCHANGED <<conn, state, reading>>
    BY <1>2 DEF DialSucceeds, Goto, client, Socket
  <2>2. at[opened + 1] \in {"none", "down"}
    BY <2>1 DEF ConnInv, DialInv
  <2>3. \A p \in Operator : dialled[p] # opened + 1
    BY DEF ConnInv, DialInv, None
  <2>4. conn # opened + 1
    BY DEF ConnInv, DialInv, None
  <2>5. DialInv'
    <3>1. \A p \in Operator : at'[p] = "dialled" => dialled'[p] # None
      BY <2>1, <2>4 DEF ConnInv, DialInv, None
    <3>4. ASSUME NEW p \in Operator, dialled'[p] # None
          PROVE  dialled'[p] <= opened' /\ dialled'[p] # conn' /\ at'[dialled'[p]] \in {"none", "down"}
      <4>1. CASE p = o
        BY <2>1, <2>2, <2>4, <4>1
      <4>2. CASE p # o
        <5>1. dialled'[p] = dialled[p] /\ dialled[p] \in Socket /\ dialled[p] \in Nat
          BY <2>1, <3>4, <4>2
        <5>2. dialled[p] <= opened /\ dialled[p] # conn /\ at[dialled[p]] \in {"none", "down"}
          BY <5>1, <3>4 DEF ConnInv, DialInv
        <5>3. at'[dialled[p]] = at[dialled[p]]
          BY <2>1, <5>1
        <5> QED BY <2>1, <5>1, <5>2, <5>3
      <4> QED BY <4>1, <4>2
    <3>2. \A p, q \in Operator : dialled'[p] = dialled'[q] /\ dialled'[p] # None => p = q
      BY <2>1, <2>3 DEF ConnInv, DialInv, None
    <3>3. ASSUME NEW s \in Socket, s > opened'
          PROVE  at'[s] \in {"none", "down"}
      <4>1. s \in Nat /\ s > opened /\ at'[s] = at[s]
        BY <2>1, <3>3
      <4> QED BY <4>1 DEF ConnInv, DialInv
    <3>5. conn' <= opened'
      <4>1. conn \in Nat /\ opened \in Nat
        <5>1. conn \in Socket \cup {0} /\ opened \in Nat
          BY DEF None
        <5>2. \A s \in Socket : s \in Nat
          OBVIOUS
        <5> QED BY ONLY <5>1, <5>2
      <4>2. conn <= opened
        BY DEF ConnInv, DialInv
      <4> QED BY <2>1, <4>1, <4>2
    <3> QED BY <3>1, <3>2, <3>3, <3>4, <3>5 DEF DialInv
  <2>6. Watched' /\ StateMatchesConn'
    BY <2>1 DEF ConnInv, Watched, StateMatchesConn, None
  <2> QED BY <2>5, <2>6 DEF ConnInv
<1>3. CASE ConnectStores(o)
  <2> USE Places
  <2>1. /\ at[o] = "dialled"
        /\ conn' = dialled[o]
        /\ state' = "wait_welcome"
        /\ dialled' = [dialled EXCEPT ![o] = None]
        /\ at' = [at EXCEPT ![o] = AfterConnect(o), ![dialled[o]] = "load"]
        /\ UNCHANGED <<reading, opened>>
    BY <1>3 DEF ConnectStores, StateAfterConnect, sockets
  <2>2. dialled[o] \in Socket /\ dialled[o] <= opened
    BY <2>1 DEF ConnInv, DialInv
  <2>3. AfterConnect(o) \in {"idle", "startup"}
    BY DEF AfterConnect
  <2>4. /\ at'[dialled[o]] = "load"
        /\ \A p \in Operator : p # o => at'[p] = at[p]
        /\ at'[o] \in {"idle", "startup"}
        /\ \A s \in Socket : s # dialled[o] => at'[s] = at[s]
    BY <2>1, <2>2, <2>3
  <2>5. DialInv'
    <3>1. \A p \in Operator : at'[p] = "dialled" => dialled'[p] # None
      BY <2>1, <2>4 DEF ConnInv, DialInv, None
    <3>2. \A p \in Operator : dialled'[p] # None =>
               dialled'[p] <= opened' /\ dialled'[p] # conn' /\ at'[dialled'[p]] \in {"none", "down"}
      <4> SUFFICES ASSUME NEW p \in Operator, dialled'[p] # None
                   PROVE  dialled'[p] <= opened' /\ dialled'[p] # conn' /\ at'[dialled'[p]] \in {"none", "down"}
        OBVIOUS
      <4>1. p # o /\ dialled'[p] = dialled[p] /\ dialled[p] # None
        BY <2>1
      <4>2. dialled[p] # dialled[o]
        BY <4>1, <2>2 DEF ConnInv, DialInv
      <4> QED BY <4>1, <4>2, <2>1, <2>4 DEF ConnInv, DialInv
    <3>3. \A p, q \in Operator : dialled'[p] = dialled'[q] /\ dialled'[p] # None => p = q
      BY <2>1 DEF ConnInv, DialInv, None
    <3>4. /\ \A s \in Socket : s > opened' => at'[s] \in {"none", "down"}
          /\ conn' <= opened'
      BY <2>1, <2>2, <2>4 DEF ConnInv, DialInv
    <3> QED BY <3>1, <3>2, <3>3, <3>4 DEF DialInv
  <2>6. Watched' /\ StateMatchesConn'
    BY <2>1, <2>2, <2>4 DEF Watched, StateMatchesConn, None
  <2> QED BY <2>5, <2>6 DEF ConnInv
<1>4. CASE OperatorCloses(o)
  <2> USE Places
  <2>1. /\ conn' = None /\ state' = "disconnected"
        /\ \E step \in {"ensure", "idle"} : at' = [at EXCEPT ![o] = step]
        /\ UNCHANGED <<dialled, reading, opened>>
    BY <1>4 DEF OperatorCloses, Close, Goto
  <2>2. DialInv'
    BY <2>1 DEF ConnInv, DialInv, None
  <2>3. Watched' /\ StateMatchesConn'
    BY <2>1 DEF Watched, StateMatchesConn
  <2> QED BY <2>2, <2>3 DEF ConnInv
<1>5. CASE Sends(o)
  BY <1>5, SendsConn DEF Goroutine
<1> QED BY <1>1, <1>2, <1>3, <1>4, <1>5 DEF OperatorMoves

(* A listener loads the connection that is current; the one that closes it  *)
(* resets the state, and only a listener that holds an answer sets the      *)
(* state to ready.                                                          *)
LEMMA ListenerConn ==
  ASSUME TypeOK, ConnInv, NEW l \in Socket, ListenerMoves(l)
  PROVE  ConnInv'
<1>1. CASE ListenerLoads(l)
  <2> USE Places
  <2>1. CASE conn = None
    <3>1. at' = [h \in Goroutine |-> "down"] /\ UNCHANGED <<conn, state, dialled, reading, opened>>
      BY <1>1, <2>1 DEF ListenerLoads, Panic, client, operators, sockets
    <3> QED BY <3>1, DownFrame
  <2>2. CASE conn # None
    <3>1. /\ at[l] = "load" /\ at' = [at EXCEPT ![l] = "read"]
          /\ reading' = [reading EXCEPT ![l] = conn]
          /\ UNCHANGED <<conn, state, dialled, opened>>
      BY <1>1, <2>2 DEF ListenerLoads, Goto, client, operators, sockets
    <3>2. DialInv'
      BY <3>1 DEF ConnInv, DialInv, None
    <3>3. Watched' /\ StateMatchesConn'
      BY <3>1 DEF ConnInv, Watched, StateMatchesConn, None
    <3> QED BY <3>2, <3>3 DEF ConnInv
  <2> QED BY <2>1, <2>2
<1>2. CASE ListenerReads(l) \/ handleWelcome(l) \/ sendAuth(l) \/ ListenerFails(l)
  <2>1. PICK step \in {"welcome", "check", "accepted", "load", "auth", "closing"} : Goto(l, step)
    BY <1>2 DEF ListenerReads, handleWelcome, sendAuth, ListenerFails, Verdict, AfterReadError
  <2>2. /\ UNCHANGED <<conn, state, dialled, reading, opened>>
        /\ at[l] \in {"read", "welcome", "auth"}
    BY <1>2 DEF ListenerReads, handleWelcome, sendAuth, ListenerFails, client, operators, sockets
  <2> QED BY <2>1, <2>2, ListenerFrame
<1>3. CASE handleAuthOK(l)
  <2> USE Places
  <2>1. /\ at[l] = "accepted" /\ at' = [at EXCEPT ![l] = "check"]
        /\ state' = "ready" /\ UNCHANGED <<conn, dialled, reading, opened>>
    BY <1>3 DEF handleAuthOK, Goto, operators, sockets
  <2>2. DialInv'
    BY <2>1 DEF ConnInv, DialInv, None
  <2>3. Watched' /\ StateMatchesConn'
    BY <2>1 DEF ConnInv, Watched, StateMatchesConn, None
  <2> QED BY <2>2, <2>3 DEF ConnInv
<1>4. CASE ListenerCloses(l)
  <2> USE Places
  <2>1. /\ at[l] = "closing" /\ at' = [at EXCEPT ![l] = "ended"]
        /\ conn' = None /\ state' = "disconnected"
        /\ UNCHANGED <<dialled, opened>>
    BY <1>4 DEF ListenerCloses, Close, Goto, operators
  <2>2. DialInv'
    BY <2>1 DEF ConnInv, DialInv, None
  <2>3. Watched' /\ StateMatchesConn'
    BY <2>1 DEF Watched, StateMatchesConn
  <2> QED BY <2>2, <2>3 DEF ConnInv
<1>5. CASE Sends(l)
  BY <1>5, SendsConn DEF Goroutine
<1> QED BY <1>1, <1>2, <1>3, <1>4, <1>5 DEF ListenerMoves

(* What no goroutine of the client's does leaves it alone, too. *)
LEMMA ConnStep == TypeOK /\ ConnInv /\ [Next]_vars => ConnInv'
<1> SUFFICES ASSUME TypeOK, ConnInv, [Next]_vars
             PROVE  ConnInv'
  OBVIOUS
<1>1. ASSUME NEW o \in Operator, NEW w \in Request, Asks(o, w)
      PROVE  ConnInv'
  <2>1. UNCHANGED <<conn, state, dialled, reading, opened>>
    BY <1>1 DEF Asks, client, sockets
  <2>2. Goto(o, AfterRequest(w)) /\ AfterRequest(w) # "dialled"
    BY <1>1 DEF Asks, AfterRequest, Request
  <2> QED BY <2>1, <2>2, OperatorFrame
<1>2. ASSUME NEW s \in Socket, X2Drops(s) \/ X2KeepsAlive(s)
      PROVE  ConnInv'
  BY <1>2 DEF X2Drops, X2KeepsAlive, client, operators, ConnInv, DialInv, Watched, StateMatchesConn
<1>3. CASE UNCHANGED vars
  BY <1>3 DEF vars, client, operators, sockets, ConnInv, DialInv, Watched, StateMatchesConn
<1> QED BY <1>1, <1>2, <1>3, OperatorConn, ListenerConn DEF Next

(* All of it, with the types it rests on, in every reachable state. *)
LEMMA ConnAlways == Spec => [](TypeOK /\ RetryInv /\ ConnInv)
<1>1. Init => TypeOK /\ RetryInv /\ ConnInv
  <2>1. Init => RetryInv
    BY DEF Init, RetryInv
  <2> QED BY <2>1, InitType, ConnInit
<1>2. TypeOK /\ RetryInv /\ ConnInv /\ [Next]_vars => (TypeOK /\ RetryInv /\ ConnInv)'
  BY StepType, RetryStep, ConnStep
<1> QED BY <1>1, <1>2, PTL DEF Spec

(* Close and Connect leave the state and the connection in agreement,       *)
(* whichever goroutines run them: the polling loops of ensureX2Connected    *)
(* never see a connection whose state says there is none.                   *)
THEOREM StateMatches == Spec => []StateMatchesConn
<1>1. ConnInv => StateMatchesConn
  BY DEF ConnInv
<1> QED BY <1>1, ConnAlways, PTL

(* The current connection has its own listener, whatever listeners of       *)
(* earlier connections do: its loss is noticed by the goroutine Connect     *)
(* started for it.                                                          *)
THEOREM ConnectionIsWatched == Spec => []Watched
<1>1. ConnInv => Watched
  BY DEF ConnInv
<1> QED BY <1>1, ConnAlways, PTL

-----------------------------------------------------------------------------
(* A command that X2 has received once is on its way out of SendRaw, and    *)
(* will not be written again.                                               *)
SentOnceInv ==
  \A o \in Operator : want[o] = "command" =>
    /\ delivered[o] \in {0, 1}
    /\ delivered[o] = 1 => at[o] \in {"reset", "idle", "down"}

(* A step that sends nothing, and moves p at most to where a request ends,  *)
(* leaves what is true of p alone.                                          *)
LEMMA SentOnceFrame ==
  ASSUME SentOnceInv, NEW p \in Operator,
         at'[p] = at[p] \/ at'[p] \in {"idle", "down"}
                        \/ at[p] \notin {"reset", "idle", "down"},
         UNCHANGED <<want, delivered>>
  PROVE  want'[p] = "command" =>
           /\ delivered'[p] \in {0, 1}
           /\ delivered'[p] = 1 => at'[p] \in {"reset", "idle", "down"}
BY DEF SentOnceInv

(* SendRaw delivers from "write" only, and a success is not retried. *)
LEMMA SentOnceSends ==
  ASSUME TypeOK, SentOnceInv, NEW g \in Goroutine, Sends(g)
  PROVE  SentOnceInv'
<1> SUFFICES ASSUME NEW p \in Operator
             PROVE  want'[p] = "command" =>
                      /\ delivered'[p] \in {0, 1}
                      /\ delivered'[p] = 1 => at'[p] \in {"reset", "idle", "down"}
  BY DEF SentOnceInv
<1> USE Places
<1>a. delivered \in [Operator -> Nat] /\ p \in Goroutine
  BY DEF TypeOK
<1>b. UNCHANGED want
  BY SendsStep DEF operators
<1>1. CASE SendChecks(g)
  <2>1. at[g] = "check" /\ UNCHANGED delivered
    BY <1>1 DEF SendChecks, history
  <2>2. at'[p] = at[p] \/ at'[p] = "down" \/ p = g
    BY <1>a, SendsStep DEF Goto
  <2> QED BY <1>b, <2>1, <2>2, SentOnceFrame
<1>2. CASE SendWrites(g)
  <2>1. at[g] = "write"
    BY <1>2 DEF SendWrites
  <2>2. at'[p] = at[p] \/ at'[p] = "down" \/ p = g
    BY <1>a, SendsStep DEF Goto
  <2>3. CASE UNCHANGED delivered
    BY <1>b, <2>1, <2>2, <2>3, SentOnceFrame
  <2>4. CASE ~UNCHANGED delivered
    <3>1. X2Receives(g, conn) /\ Goto(g, "reset")
      BY <1>2, <2>4 DEF SendWrites
    <3>2. g \in Operator /\ delivered' = [delivered EXCEPT ![g] = @ + 1]
      BY <2>4, <3>1 DEF X2Receives
    <3>3. at'[g] = "reset" /\ (p # g => at'[p] = at[p])
      BY <3>1, <1>a DEF Goto
    <3>4. want[g] = "command" => delivered[g] = 0
      BY <2>1, <3>2, <1>a DEF SentOnceInv
    <3> QED BY <1>a, <1>b, <3>2, <3>3, <3>4 DEF SentOnceInv
  <2> QED BY <2>3, <2>4
<1>3. CASE SendResets(g)
  <2>1. UNCHANGED delivered /\ ((conn = None /\ Panic(g)) \/ Sent(g, TRUE))
    BY <1>3 DEF SendResets, history
  <2>2. at'[p] = at[p] \/ at'[p] \in {"idle", "down"}
    <3>1. CASE Panic(g)
      BY <3>1, <1>a DEF Panic, Goto
    <3>2. CASE Sent(g, TRUE)
      <4>1. g \in Operator => Goto(g, "idle")
        BY <3>2 DEF Sent, Retries
      <4>2. g \in Socket => \E step \in {"check", "load"} : Goto(g, step)
        BY <3>2, SentStep
      <4> QED BY <1>a, <4>1, <4>2 DEF Goto
    <3> QED BY <2>1, <3>1, <3>2
  <2> QED BY <1>b, <2>1, <2>2, SentOnceFrame
<1> QED BY <1>1, <1>2, <1>3 DEF Sends

(* Every other step of an operator leaves from another place than those, and *)
(* a new request starts to count again.                                     *)
LEMMA SentOnceStep == TypeOK /\ SentOnceInv /\ [Next]_vars => SentOnceInv'
<1> SUFFICES ASSUME TypeOK, SentOnceInv, [Next]_vars
             PROVE  SentOnceInv'
  OBVIOUS
<1> USE Places
<1>1. ASSUME NEW o \in Operator, NEW w \in Request, Asks(o, w)
      PROVE  SentOnceInv'
  <2>1. /\ delivered' = [delivered EXCEPT ![o] = 0]
        /\ want' = [want EXCEPT ![o] = w]
        /\ at' = [at EXCEPT ![o] = AfterRequest(w)]
    BY <1>1 DEF Asks, Goto
  <2>2. delivered \in [Operator -> Nat] /\ want \in [Operator -> Request]
    BY DEF TypeOK
  <2> QED BY <2>1, <2>2 DEF SentOnceInv
<1>2. ASSUME NEW o \in Operator, OperatorMoves(o)
      PROVE  SentOnceInv'
  <2>1. CASE Sends(o)
    BY <2>1, SentOnceSends
  <2>2. CASE ~Sends(o)
    <3>1. /\ UNCHANGED <<want, delivered>>
          /\ at[o] \notin {"reset", "idle", "down"}
          /\ \A p \in Operator \ {o} : at'[p] = at[p]
      <4>1. CASE EnsureLooks(o) \/ Polls(o) \/ DialFails(o) \/ DialSucceeds(o) \/ ConnectChecks(o)
        BY <4>1 DEF EnsureLooks, Polls, DialFails, DialSucceeds, ConnectChecks, Goto, operators, history
      <4>2. CASE ConnectStores(o)
        <5>1. dialled[o] \notin Operator
          BY ClientAssumption DEF ClientAssumption, None
        <5> QED BY <4>2, <5>1 DEF ConnectStores
      <4>3. CASE OperatorCloses(o)
        BY <4>3 DEF OperatorCloses, Goto, history
      <4> QED BY <1>2, <2>2, <4>1, <4>2, <4>3 DEF OperatorMoves
    <3> QED BY <3>1, SentOnceFrame DEF SentOnceInv
  <2> QED BY <2>1, <2>2
<1>3. ASSUME NEW l \in Socket, ListenerMoves(l)
      PROVE  SentOnceInv'
  <2>1. CASE Sends(l)
    BY <2>1, SentOnceSends
  <2>2. CASE ~Sends(l)
    <3>1. /\ UNCHANGED <<want, delivered>>
          /\ (\E step : Goto(l, step)) \/ at' = [h \in Goroutine |-> "down"]
      <4>1. CASE ListenerLoads(l)
        BY <4>1 DEF ListenerLoads, Panic, operators, history
      <4>2. CASE ListenerReads(l)
        BY <4>2 DEF ListenerReads, operators, history
      <4>3. CASE handleWelcome(l) \/ sendAuth(l) \/ handleAuthOK(l) \/ ListenerFails(l) \/ ListenerCloses(l)
        BY <4>3 DEF handleWelcome, sendAuth, handleAuthOK, ListenerFails, ListenerCloses, operators, history
      <4> QED BY <1>3, <2>2, <4>1, <4>2, <4>3 DEF ListenerMoves
    <3>2. \A p \in Operator : at'[p] = at[p] \/ at'[p] = "down"
      BY <3>1 DEF Goto
    <3> QED BY <3>1, <3>2, SentOnceFrame DEF SentOnceInv
  <2> QED BY <2>1, <2>2
<1>4. ASSUME NEW s \in Socket, X2Drops(s) \/ X2KeepsAlive(s)
      PROVE  SentOnceInv'
  BY <1>4 DEF X2Drops, X2KeepsAlive, operators, history, SentOnceInv
<1>5. CASE UNCHANGED vars
  BY <1>5 DEF vars, operators, history, SentOnceInv
<1> QED BY <1>1, <1>2, <1>3, <1>4, <1>5 DEF Next

(* withX2Retry does not deliver a command twice: it makes its second attempt *)
(* only after a SendRaw that failed, and SendRaw does not fail after X2 has *)
(* received the message (sender.go, server.go:196-213).                     *)
THEOREM CommandsArriveOnce == Spec => []DeliveredAtMostOnce
<1>1. Init => SentOnceInv
  BY DEF Init, SentOnceInv, Goroutine
<1>2. SentOnceInv => DeliveredAtMostOnce
  BY DEF SentOnceInv, DeliveredAtMostOnce
<1>3. TypeOK /\ SentOnceInv /\ [Next]_vars => SentOnceInv'
  BY SentOnceStep
<1> QED BY <1>1, <1>2, <1>3, TypeCorrect, PTL DEF Spec

-----------------------------------------------------------------------------
(* As long as dials have not overlapped, there is one at most, there is no  *)
(* connection while it is under way, and it has no socket before it ends.   *)
LeakInv ==
  ~overlapped =>
    /\ \A o, p \in Operator : Dialling(o) /\ Dialling(p) => o = p
    /\ \A o \in Operator : Dialling(o) => conn = None
    /\ \A o \in Operator : dialled[o] # None => at[o] \in {"dialled", "down"}
    /\ NoSocketIsLeaked

(* A step that begins no dial, and stores and closes no socket, leaves it   *)
(* alone.                                                                   *)
LEMMA LeakFrame ==
  ASSUME LeakInv, UNCHANGED <<conn, dialled, opened, closed, overlapped>>,
         \A p \in Operator : at'[p] # at[p] =>
            \/ at[p] \notin {"dialled", "down"} /\ at'[p] \notin {"dialing", "dialled"}
            \/ at'[p] = "down"
  PROVE  LeakInv'
<1> SUFFICES ASSUME ~overlapped PROVE LeakInv'
  BY DEF LeakInv
<1>1. \A p \in Operator : Dialling(p)' => Dialling(p)
  BY DEF Dialling
<1>2. \A p \in Operator : dialled'[p] # None => at'[p] \in {"dialled", "down"}
  BY DEF LeakInv
<1>3. NoSocketIsLeaked'
  BY DEF LeakInv, NoSocketIsLeaked
<1> QED BY <1>1, <1>2, <1>3 DEF LeakInv

(* Close gives up the connection, but not without closing its socket. *)
LEMMA LeakClose ==
  ASSUME LeakInv, Close, UNCHANGED <<dialled, opened, overlapped>>,
         \A p \in Operator : at'[p] # at[p] =>
            at[p] \notin {"dialled", "down"} /\ at'[p] \notin {"dialing", "dialled"}
  PROVE  LeakInv'
<1> SUFFICES ASSUME ~overlapped PROVE LeakInv'
  BY DEF LeakInv
<1>1. \A p \in Operator : Dialling(p)' => Dialling(p)
  BY DEF Dialling
<1>2. conn' = None
  BY DEF Close
<1>3. \A p \in Operator : dialled'[p] # None => at'[p] \in {"dialled", "down"}
  BY DEF LeakInv
<1>4. NoSocketIsLeaked'
  BY DEF LeakInv, NoSocketIsLeaked, Close
<1> QED BY <1>1, <1>2, <1>3, <1>4 DEF LeakInv

(* Connect: the check begins a dial, Dial opens a socket, and the socket is *)
(* stored in the place of no other (connection.go:13-50).                   *)
LEMMA LeakConnect ==
  ASSUME TypeOK, DialInv, LeakInv, NEW o \in Operator,
         ConnectChecks(o) \/ DialFails(o) \/ DialSucceeds(o) \/ ConnectStores(o)
  PROVE  LeakInv'
<1> USE Places
<1>a. o \in Goroutine
  OBVIOUS
<1>1. CASE ConnectChecks(o) /\ MayDial
  <2>1. /\ at' = [at EXCEPT ![o] = "dialing"] /\ at[o] = "connect"
        /\ conn = None
        /\ UNCHANGED <<conn, dialled, opened, closed>>
        /\ ~overlapped' => ~overlapped /\ \A p \in Operator : ~Dialling(p)
    BY <1>1 DEF ConnectChecks, Goto, MayDial, client, operators, sockets
  <2> SUFFICES ASSUME ~overlapped' PROVE LeakInv'
    BY DEF LeakInv
  <2>2. \A p \in Operator : Dialling(p)' => p = o
    BY <1>a, <2>1 DEF Dialling
  <2>3. dialled[o] = None
    BY <2>1 DEF LeakInv
  <2>4. \A p \in Operator : dialled'[p] # None => at'[p] \in {"dialled", "down"}
    BY <2>1, <2>3 DEF LeakInv
  <2>5. NoSocketIsLeaked'
    BY <2>1 DEF LeakInv, NoSocketIsLeaked
  <2> QED BY <2>1, <2>2, <2>4, <2>5 DEF LeakInv
<1>2. CASE (ConnectChecks(o) /\ ~MayDial) \/ DialFails(o)
  <2>0. overlapped \in BOOLEAN /\ AfterConnect(o) \in {"idle", "startup"}
    BY DEF TypeOK, AfterConnect
  <2>3. overlapped' = overlapped
    <3>1. CASE ConnectChecks(o) /\ ~MayDial
      BY <2>0, <3>1 DEF ConnectChecks
    <3>2. CASE DialFails(o)
      BY <3>2 DEF DialFails, history
    <3> QED BY <1>2, <3>1, <3>2
  <2>1. /\ UNCHANGED <<conn, dialled, opened, closed, overlapped>>
        /\ at[o] \notin {"dialled", "down"}
        /\ \E step \in {"idle", "startup"} : at' = [at EXCEPT ![o] = step]
    BY <1>2, <2>0, <2>3 DEF ConnectChecks, DialFails, Goto, client, operators, sockets
  <2>2. \A p \in Operator : at'[p] # at[p] =>
          at[p] \notin {"dialled", "down"} /\ at'[p] \notin {"dialing", "dialled"}
    BY <1>a, <2>1
  <2> QED BY <2>1, <2>2, LeakFrame
<1>3. CASE DialSucceeds(o)
  <2>1. /\ at' = [at EXCEPT ![o] = "dialled"] /\ at[o] = "dialing"
        /\ dialled' = [dialled EXCEPT ![o] = opened + 1]
        /\ opened' = opened + 1
        /\ UNCHANGED <<conn, closed, overlapped>>
    BY <1>3 DEF DialSucceeds, Goto, client, history
  <2> SUFFICES ASSUME ~overlapped PROVE LeakInv'
    BY <2>1 DEF LeakInv
  <2>2. \A p \in Operator : Dialling(p)' => Dialling(p)
    BY <1>a, <2>1 DEF Dialling
  <2>3. \A p \in Operator : dialled'[p] # None => at'[p] \in {"dialled", "down"}
    BY <1>a, <2>1 DEF LeakInv
  <2>4. dialled[o] = None
    BY <2>1 DEF LeakInv
  <2>5. NoSocketIsLeaked'
    <3> SUFFICES ASSUME NEW r \in 1 .. opened'
                 PROVE  r \in closed' \/ r = conn' \/ \E p \in Operator : dialled'[p] = r
      BY DEF NoSocketIsLeaked
    <3>1. CASE r = opened + 1
      BY <2>1, <3>1
    <3>2. CASE r # opened + 1
      <4>1. r \in 1 .. opened /\ r # None
        BY <2>1, <3>2 DEF None
      <4> QED BY <2>1, <2>4, <4>1 DEF LeakInv, NoSocketIsLeaked
    <3> QED BY <3>1, <3>2
  <2> QED BY <2>1, <2>2, <2>3, <2>5 DEF LeakInv
<1>4. CASE ConnectStores(o)
  <2>1. /\ at[o] = "dialled" /\ conn' = dialled[o]
        /\ at' = [at EXCEPT ![o] = AfterConnect(o), ![dialled[o]] = "load"]
        /\ dialled' = [dialled EXCEPT ![o] = None]
        /\ UNCHANGED <<opened, closed, overlapped>>
    BY <1>4 DEF ConnectStores, sockets
  <2>2. dialled[o] \in Socket
    BY <2>1 DEF DialInv
  <2>3. AfterConnect(o) \in {"idle", "startup"}
    BY DEF AfterConnect
  <2>4. at'[o] \in {"idle", "startup"} /\ \A p \in Operator \ {o} : at'[p] = at[p]
    BY <2>1, <2>2, <2>3
  <2> SUFFICES ASSUME ~overlapped PROVE LeakInv'
    BY <2>1 DEF LeakInv
  <2>5. \A p \in Operator : ~Dialling(p)'
    BY <2>1, <2>4 DEF LeakInv, Dialling
  <2>6. conn = None
    BY <2>1 DEF LeakInv, Dialling
  <2>7. \A p \in Operator : dialled'[p] # None => at'[p] \in {"dialled", "down"}
    BY <2>1, <2>4 DEF LeakInv
  <2>8. NoSocketIsLeaked'
    <3> SUFFICES ASSUME NEW r \in 1 .. opened
                 PROVE  r \in closed' \/ r = conn' \/ \E p \in Operator : dialled'[p] = r
      BY <2>1 DEF NoSocketIsLeaked
    <3>1. r \in closed \/ \E p \in Operator : dialled[p] = r
      BY <2>6 DEF LeakInv, NoSocketIsLeaked, None
    <3> QED BY <2>1, <3>1
  <2> QED BY <2>5, <2>7, <2>8 DEF LeakInv
<1> QED BY <1>1, <1>2, <1>3, <1>4

(* No other step has to do with sockets that are dialled. *)
LEMMA LeakStep == TypeOK /\ ConnInv /\ LeakInv /\ [Next]_vars => LeakInv'
<1> SUFFICES ASSUME TypeOK, ConnInv, LeakInv, [Next]_vars
             PROVE  LeakInv'
  OBVIOUS
<1> USE Places
<1>1. ASSUME NEW o \in Operator, NEW w \in Request, Asks(o, w)
      PROVE  LeakInv'
  <2>1. /\ UNCHANGED <<conn, dialled, opened, closed, overlapped>>
        /\ at[o] = "idle" /\ at' = [at EXCEPT ![o] = AfterRequest(w)]
    BY <1>1 DEF Asks, Goto, client, sockets
  <2>2. AfterRequest(w) \notin {"dialing", "dialled"}
    BY DEF AfterRequest, Request
  <2> QED BY <2>1, <2>2, LeakFrame
<1>2. ASSUME NEW g \in Goroutine, Sends(g)
      PROVE  LeakInv'
  <2>1. /\ UNCHANGED <<conn, dialled, opened, closed, overlapped>>
        /\ at[g] \in {"check", "write", "reset"}
    BY <1>2, SendsStep DEF client, operators
  <2>2. \/ \E step \in {"retry", "idle", "check", "load", "write", "reset"} : Goto(g, step)
        \/ at' = [h \in Goroutine |-> "down"]
    BY <1>2, SendsStep
  <2> QED BY <2>1, <2>2, LeakFrame DEF Goto
<1>3. ASSUME NEW o \in Operator, OperatorMoves(o)
      PROVE  LeakInv'
  <2>1. CASE EnsureLooks(o) \/ Polls(o)
    <3>1. /\ UNCHANGED <<conn, dialled, opened, closed, overlapped>>
          /\ at[o] \notin {"dialled", "down"}
          /\ \E step \in {"connect", "poll", "check", "idle"} : at' = [at EXCEPT ![o] = step]
      BY <2>1 DEF EnsureLooks, Polls, Goto, client, operators, sockets, history
    <3> QED BY <3>1, LeakFrame
  <2>2. CASE OperatorCloses(o)
    <3>1. /\ UNCHANGED <<dialled, opened, overlapped>> /\ Close
          /\ at[o] \notin {"dialled", "down"}
          /\ \E step \in {"ensure", "idle"} : at' = [at EXCEPT ![o] = step]
      BY <2>2 DEF OperatorCloses, Goto, history
    <3> QED BY <3>1, LeakClose
  <2> QED BY <1>2, <1>3, <2>1, <2>2, LeakConnect DEF OperatorMoves, ConnInv
<1>4. ASSUME NEW l \in Socket, ListenerMoves(l)
      PROVE  LeakInv'
  <2>1. CASE ListenerCloses(l)
    <3>1. /\ UNCHANGED <<dialled, opened, overlapped>> /\ Close
          /\ \A p \in Operator : at'[p] = at[p]
      BY <2>1 DEF ListenerCloses, Goto, operators, history
    <3> QED BY <3>1, LeakClose
  <2>2. CASE ListenerLoads(l)
    <3>1. /\ UNCHANGED <<conn, dialled, opened, closed, overlapped>>
          /\ Goto(l, "read") \/ at' = [h \in Goroutine |-> "down"]
      BY <2>2 DEF ListenerLoads, Panic, client, operators, sockets, history
    <3> QED BY <3>1, LeakFrame DEF Goto
  <2>3. CASE ListenerReads(l)
    <3>1. /\ UNCHANGED <<conn, dialled, opened, closed, overlapped>>
          /\ \A p \in Operator : at'[p] = at[p]
      BY <2>3 DEF ListenerReads, Goto, client, operators, history
    <3> QED BY <3>1, LeakFrame
  <2>4. CASE handleWelcome(l) \/ sendAuth(l) \/ handleAuthOK(l) \/ ListenerFails(l)
    <3>1. /\ UNCHANGED <<conn, dialled, opened, closed, overlapped>>
          /\ \A p \in Operator : at'[p] = at[p]
      BY <2>4 DEF handleWelcome, sendAuth, handleAuthOK, ListenerFails, Goto, client, operators, sockets, history
    <3> QED BY <3>1, LeakFrame
  <2> QED BY <1>2, <1>4, <2>1, <2>2, <2>3, <2>4 DEF ListenerMoves
<1>5. ASSUME NEW s \in Socket, X2Drops(s) \/ X2KeepsAlive(s)
      PROVE  LeakInv'
  BY <1>5, LeakFrame DEF X2Drops, X2KeepsAlive, client, operators, history
<1>6. CASE UNCHANGED vars
  BY <1>6, LeakFrame DEF vars, client, operators, sockets, history
<1> QED BY <1>1, <1>3, <1>4, <1>5, <1>6 DEF Next

(* Connect gives the mutex up while it dials (connection.go:21-34); as long *)
(* as no second dial comes in between, no socket is lost by storing another *)
(* over it.                                                                 *)
THEOREM SocketsAreKept == Spec => []NoSocketIsLeaked
<1>1. Init => LeakInv
  BY Kinds DEF Init, LeakInv, NoSocketIsLeaked, Dialling, Goroutine
<1>2. LeakInv => NoSocketIsLeaked
  BY DEF LeakInv, NoSocketIsLeaked
<1>3. TypeOK /\ ConnInv /\ LeakInv /\ [Next]_vars => LeakInv'
  BY LeakStep
<1> QED BY <1>1, <1>2, <1>3, ConnAlways, PTL DEF Spec

-----------------------------------------------------------------------------
(* X2 tells only a socket it has authenticated that it is accepted, and a   *)
(* listener that handles that answer has read it from such a socket.        *)
AcceptedInv ==
  /\ \A s \in Socket : \A i \in 1 .. Len(inbox[s]) : inbox[s][i] = "accepted" => s \in authed
  /\ \A l \in Socket : at[l] = "read" => reading[l] # None
  /\ \A l \in Socket : at[l] = "accepted" => reading[l] \in authed

(* While no connection was stored over a living listener, the listener of   *)
(* the current connection is the only one, and the state is its own doing.  *)
UndisturbedInv ==
  ~disturbed /\ conn # None =>
    /\ \A l \in Socket \ {conn} : at[l] \in {"none", "ended", "down"}
    /\ state = "ready" => conn \in authed

ReadyInv == AcceptedInv /\ UndisturbedInv

(* A step that leaves the sockets, the connection and its state alone, and  *)
(* moves no listener to the handling of an answer, leaves it alone.         *)
LEMMA ReadyFrame ==
  ASSUME TypeOK, ReadyInv, UNCHANGED <<conn, state, reading, inbox, authed, disturbed>>,
         \A l \in Socket :
           \/ at'[l] = at[l]
           \/ at'[l] = "down"
           \/ at[l] \notin {"none", "ended", "down"} /\ at'[l] \notin {"read", "accepted"}
  PROVE  ReadyInv'
<1>1. AcceptedInv'
  BY DEF ReadyInv, AcceptedInv
<1>2. UndisturbedInv'
  BY Places DEF ReadyInv, UndisturbedInv
<1> QED BY <1>1, <1>2 DEF ReadyInv

(* X2 accepts a socket only when it authenticates it. *)
LEMMA ReadySends ==
  ASSUME TypeOK, ReadyInv, NEW g \in Goroutine, Sends(g)
  PROVE  ReadyInv'
<1> USE Places
<1>1. /\ UNCHANGED <<conn, state, reading, disturbed>>
      /\ at[g] \in {"check", "write", "reset"}
  BY SendsStep DEF client
<1>2. \/ \E step \in {"retry", "idle", "check", "load", "write", "reset"} : Goto(g, step)
      \/ at' = [h \in Goroutine |-> "down"]
  BY SendsStep
<1>3. \A l \in Socket :
        \/ at'[l] = at[l]
        \/ at'[l] = "down"
        \/ at[l] \notin {"none", "ended", "down"} /\ at'[l] \notin {"read", "accepted"}
  BY <1>1, <1>2 DEF Goto
<1>4. CASE UNCHANGED <<inbox, authed>>
  BY <1>1, <1>3, <1>4, ReadyFrame
<1>5. CASE conn # None /\ X2Receives(g, conn) /\ msg[g].kind = "auth"
  <2>1. inbox \in [Socket -> Seq(Answer)] /\ conn \in Socket
    BY <1>5, TypeParts
  <2>2. PICK answer \in {"accepted", "refused"} :
          /\ inbox' = [inbox EXCEPT ![conn] = Append(@, answer)]
          /\ answer = "accepted" => authed' = authed \cup {conn}
          /\ answer = "refused" => authed' = authed
    BY <1>5 DEF X2Receives
  <2>3. authed \subseteq authed'
    BY <2>2
  <2>4. ASSUME NEW s \in Socket, NEW i \in 1 .. Len(inbox'[s]), inbox'[s][i] = "accepted"
        PROVE  s \in authed'
    <3>1. CASE s # conn
      BY <2>1, <2>2, <2>3, <2>4, <3>1 DEF ReadyInv, AcceptedInv
    <3>2. CASE s = conn
      <4>1. inbox[s] \in Seq(Answer) /\ inbox'[s] = Append(inbox[s], answer)
        BY <2>1, <2>2, <3>2
      <4>2. Len(inbox[s]) \in Nat /\ Len(inbox'[s]) = Len(inbox[s]) + 1
        BY <4>1 DEF Answer
      <4>3. CASE i = Len(inbox[s]) + 1
        <5>1. inbox'[s][i] = answer
          BY <4>1, <4>3 DEF Answer
        <5> QED BY <2>2, <2>4, <3>2, <5>1
      <4>4. CASE i # Len(inbox[s]) + 1
        <5>1. i \in 1 .. Len(inbox[s])
          BY <4>2, <4>4
        <5>2. inbox'[s][i] = inbox[s][i]
          BY <4>1, <5>1 DEF Answer
        <5> QED BY <2>3, <2>4, <5>1, <5>2 DEF ReadyInv, AcceptedInv
      <4> QED BY <4>3, <4>4
    <3> QED BY <3>1, <3>2
  <2>5. AcceptedInv'
    BY <1>1, <1>3, <2>3, <2>4 DEF ReadyInv, AcceptedInv
  <2>6. UndisturbedInv'
    BY <1>1, <1>3, <2>3 DEF ReadyInv, UndisturbedInv
  <2> QED BY <2>5, <2>6 DEF ReadyInv
<1>6. UNCHANGED <<inbox, authed>> \/ (conn # None /\ X2Receives(g, conn) /\ msg[g].kind = "auth")
  <2>1. CASE SendChecks(g) \/ SendResets(g)
    BY <2>1 DEF SendChecks, SendResets, sockets
  <2>2. CASE SendWrites(g)
    BY <2>2 DEF SendWrites, X2Receives
  <2> QED BY <2>1, <2>2 DEF Sends
<1> QED BY <1>4, <1>5, <1>6

(* Connect starts the state over, and notices whether a listener of an      *)
(* earlier connection lives.                                                *)
LEMMA ReadyOperator ==
  ASSUME TypeOK, ConnInv, ReadyInv, NEW o \in Operator, OperatorMoves(o)
  PROVE  ReadyInv'
<1> USE Places
<1>1. CASE EnsureLooks(o) \/ Polls(o) \/ DialFails(o) \/ ConnectChecks(o)
  <2>1. UNCHANGED <<conn, state, reading, inbox, authed, disturbed>>
    BY <1>1 DEF EnsureLooks, Polls, DialFails, ConnectChecks, client, sockets, history
  <2>2. \A l \in Socket : at'[l] = at[l]
    BY <1>1 DEF EnsureLooks, Polls, DialFails, ConnectChecks, Goto
  <2> QED BY <2>1, <2>2, ReadyFrame
<1>2. CASE DialSucceeds(o)
  <2>1. /\ UNCHANGED <<conn, state, reading, authed, disturbed>>
        /\ inbox' = [inbox EXCEPT ![opened + 1] = <<"welcome">>]
        /\ \A l \in Socket : at'[l] = at[l]
    BY <1>2 DEF DialSucceeds, client, history, Goto
  <2>2. inbox \in [Socket -> Seq(Answer)]
    BY TypeParts
  <2>3. ASSUME NEW s \in Socket, NEW i \in 1 .. Len(inbox'[s]), inbox'[s][i] = "accepted"
        PROVE  s \in authed
    <3>1. CASE s = opened + 1
      <4>1. inbox'[s] = <<"welcome">>
        BY <2>1, <2>2, <3>1
      <4> QED BY <2>3, <4>1
    <3>2. CASE s # opened + 1
      <4>1. inbox'[s] = inbox[s]
        BY <2>1, <2>2, <3>2
      <4> QED BY <2>3, <4>1 DEF ReadyInv, AcceptedInv
    <3> QED BY <3>1, <3>2
  <2>4. AcceptedInv'
    BY <2>1, <2>3 DEF ReadyInv, AcceptedInv
  <2>5. UndisturbedInv'
    BY <2>1 DEF ReadyInv, UndisturbedInv
  <2> QED BY <2>4, <2>5 DEF ReadyInv
<1>3. CASE ConnectStores(o)
  <2>1. /\ at[o] = "dialled" /\ conn' = dialled[o] /\ state' = "wait_welcome"
        /\ at' = [at EXCEPT ![o] = AfterConnect(o), ![dialled[o]] = "load"]
        /\ UNCHANGED <<reading, inbox, authed>>
        /\ ~disturbed' => \A l \in Socket : at[l] \in {"none", "ended"}
    BY <1>3 DEF ConnectStores, StateAfterConnect, sockets
  <2>2. dialled[o] \in Socket
    BY <2>1 DEF ConnInv, DialInv
  <2>3. /\ at'[dialled[o]] = "load"
        /\ \A l \in Socket : l # dialled[o] => at'[l] = at[l]
    BY <2>1, <2>2
  <2>4. AcceptedInv'
    BY <2>1, <2>3 DEF ReadyInv, AcceptedInv
  <2>5. UndisturbedInv'
    BY <2>1, <2>3 DEF UndisturbedInv
  <2> QED BY <2>4, <2>5 DEF ReadyInv
<1>4. CASE OperatorCloses(o)
  <2>1. /\ conn' = None /\ UNCHANGED <<reading, inbox, authed>>
        /\ \A l \in Socket : at'[l] = at[l]
    BY <1>4 DEF OperatorCloses, Close, Goto
  <2> QED BY <2>1 DEF ReadyInv, AcceptedInv, UndisturbedInv
<1>5. CASE Sends(o)
  BY <1>5, ReadySends
<1> QED BY <1>1, <1>2, <1>3, <1>4, <1>5 DEF OperatorMoves

(* handleAuthOK is run by the only listener, which reads the connection     *)
(* itself (Watched), so that it was this connection that was accepted.      *)
LEMMA ReadyListener ==
  ASSUME TypeOK, ConnInv, ReadyInv, NEW l \in Socket, ListenerMoves(l)
  PROVE  ReadyInv'
<1> USE Places
<1>1. CASE ListenerLoads(l)
  <2>1. CASE conn = None
    <3>1. /\ UNCHANGED <<conn, state, reading, inbox, authed, disturbed>>
          /\ at' = [h \in Goroutine |-> "down"]
      BY <1>1, <2>1 DEF ListenerLoads, Panic, client, sockets, history
    <3> QED BY <3>1, ReadyFrame
  <2>2. CASE conn # None
    <3>1. /\ at[l] = "load" /\ at' = [at EXCEPT ![l] = "read"]
          /\ reading' = [reading EXCEPT ![l] = conn]
          /\ UNCHANGED <<conn, state, inbox, authed, disturbed>>
      BY <1>1, <2>2 DEF ListenerLoads, Goto, client, sockets, history
    <3>2. AcceptedInv'
      BY <2>2, <3>1 DEF ReadyInv, AcceptedInv
    <3>3. UndisturbedInv'
      BY <3>1 DEF ReadyInv, UndisturbedInv
    <3> QED BY <3>2, <3>3 DEF ReadyInv
  <2> QED BY <2>1, <2>2
<1>2. CASE ListenerReads(l)
  <2> DEFINE s == reading[l]
             m == Head(inbox[s])
  <2>1. /\ at[l] = "read" /\ inbox[s] # <<>>
        /\ inbox' = [inbox EXCEPT ![s] = Tail(@)]
        /\ UNCHANGED <<conn, state, reading, authed, disturbed>>
    BY <1>2 DEF ListenerReads, client, history
  <2>2. s \in Socket
    BY <2>1 DEF ReadyInv, AcceptedInv
  <2>3. inbox \in [Socket -> Seq(Answer)] /\ inbox[s] \in Seq(Answer)
    BY <2>2, TypeParts
  <2>4. m = "accepted" => s \in authed
    <3>1. m = inbox[s][1] /\ 1 \in 1 .. Len(inbox[s])
      BY <2>1, <2>3
    <3> QED BY <2>2, <3>1 DEF ReadyInv, AcceptedInv
  <2>5. PICK step \in {"welcome", "check", "accepted", "load"} :
          /\ at' = [at EXCEPT ![l] = step]
          /\ step = "accepted" => m = "accepted"
    BY <1>2 DEF ListenerReads, Verdict, Goto
  <2>6. ASSUME NEW r \in Socket, NEW i \in 1 .. Len(inbox'[r]), inbox'[r][i] = "accepted"
        PROVE  r \in authed
    <3>1. CASE r # s
      <4>1. inbox'[r] = inbox[r]
        BY <2>1, <2>3, <3>1
      <4> QED BY <2>6, <4>1 DEF ReadyInv, AcceptedInv
    <3>2. CASE r = s
      <4>1. inbox'[r] = Tail(inbox[r]) /\ inbox[r] \in Seq(Answer) /\ inbox[r] # <<>>
        BY <2>1, <2>3, <3>2
      <4>2. i + 1 \in 1 .. Len(inbox[r]) /\ inbox'[r][i] = inbox[r][i + 1]
        BY <2>6, <4>1
      <4> QED BY <2>6, <4>2 DEF ReadyInv, AcceptedInv
    <3> QED BY <3>1, <3>2
  <2>7. AcceptedInv'
    BY <2>1, <2>4, <2>5, <2>6 DEF ReadyInv, AcceptedInv
  <2>8. UndisturbedInv'
    BY <2>1, <2>5 DEF ReadyInv, UndisturbedInv
  <2> QED BY <2>7, <2>8 DEF ReadyInv
<1>3. CASE handleWelcome(l) \/ sendAuth(l) \/ ListenerFails(l)
  <2>1. UNCHANGED <<conn, state, reading, inbox, authed, disturbed>>
    BY <1>3 DEF handleWelcome, sendAuth, ListenerFails, client, sockets, history
  <2>2. PICK step \in {"auth", "check", "closing"} : at' = [at EXCEPT ![l] = step]
    BY <1>3 DEF handleWelcome, sendAuth, ListenerFails, AfterReadError, Goto
  <2>3. at[l] \notin {"none", "ended", "down"}
    BY <1>3 DEF handleWelcome, sendAuth, ListenerFails
  <2> QED BY <2>1, <2>2, <2>3, ReadyFrame
<1>4. CASE handleAuthOK(l)
  <2>1. /\ at[l] = "accepted" /\ at' = [at EXCEPT ![l] = "check"]
        /\ UNCHANGED <<conn, reading, inbox, authed, disturbed>>
    BY <1>4 DEF handleAuthOK, Goto, sockets, history
  <2>2. AcceptedInv'
    BY <2>1 DEF ReadyInv, AcceptedInv
  <2>3. UndisturbedInv'
    <3> SUFFICES ASSUME ~disturbed, conn # None
                 PROVE  /\ \A k \in Socket \ {conn} : at'[k] \in {"none", "ended", "down"}
                        /\ conn \in authed
      BY <2>1 DEF UndisturbedInv
    <3>1. l = conn
      BY <2>1 DEF ReadyInv, UndisturbedInv
    <3>2. reading[conn] = conn
      BY <2>1, <3>1 DEF ConnInv, Watched
    <3> QED BY <2>1, <3>1, <3>2 DEF ReadyInv, AcceptedInv, UndisturbedInv
  <2> QED BY <2>2, <2>3 DEF ReadyInv
<1>5. CASE ListenerCloses(l)
  <2>1. /\ at' = [at EXCEPT ![l] = "ended"] /\ conn' = None
        /\ reading' = [reading EXCEPT ![l] = None]
        /\ UNCHANGED <<inbox, authed>>
    BY <1>5 DEF ListenerCloses, Close, Goto
  <2>2. AcceptedInv'
    BY <2>1 DEF ReadyInv, AcceptedInv
  <2> QED BY <2>1, <2>2 DEF ReadyInv, UndisturbedInv
<1>6. CASE Sends(l)
  BY <1>6, ReadySends
<1> QED BY <1>1, <1>2, <1>3, <1>4, <1>5, <1>6 DEF ListenerMoves

(* The whole step: a keep-alive accepts nobody. *)
LEMMA ReadyStep == TypeOK /\ ConnInv /\ ReadyInv /\ [Next]_vars => ReadyInv'
<1> SUFFICES ASSUME TypeOK, ConnInv, ReadyInv, [Next]_vars
             PROVE  ReadyInv'
  OBVIOUS
<1> USE Places
<1>1. ASSUME NEW o \in Operator, NEW w \in Request, Asks(o, w)
      PROVE  ReadyInv'
  <2>1. UNCHANGED <<conn, state, reading, inbox, authed, disturbed>>
    BY <1>1 DEF Asks, client, sockets
  <2>2. \A l \in Socket : at'[l] = at[l]
    BY <1>1 DEF Asks, Goto
  <2> QED BY <2>1, <2>2, ReadyFrame
<1>2. ASSUME NEW r \in Socket, X2Drops(r)
      PROVE  ReadyInv'
  BY <1>2, ReadyFrame DEF X2Drops, client, history
<1>3. ASSUME NEW r \in Socket, X2KeepsAlive(r)
      PROVE  ReadyInv'
  <2>1. /\ r \in authed
        /\ inbox' = [inbox EXCEPT ![r] = Append(@, "keepalive")]
        /\ UNCHANGED <<conn, state, at, reading, authed, disturbed>>
    BY <1>3 DEF X2KeepsAlive, client, history
  <2>2. inbox \in [Socket -> Seq(Answer)]
    BY TypeParts
  <2>3. \A s \in Socket : s # r => inbox'[s] = inbox[s]
    BY <2>1, <2>2
  <2>4. AcceptedInv'
    BY <2>1, <2>3 DEF ReadyInv, AcceptedInv
  <2>5. UndisturbedInv'
    BY <2>1 DEF ReadyInv, UndisturbedInv
  <2> QED BY <2>4, <2>5 DEF ReadyInv
<1>4. CASE UNCHANGED vars
  BY <1>4, ReadyFrame DEF vars, client, sockets, history
<1> QED BY <1>1, <1>2, <1>3, <1>4, ReadyOperator, ReadyListener DEF Next

(* auth.go:44 sets the state to ready without looking at the connection; it *)
(* is right as long as no listener outlives its connection into the next.   *)
THEOREM ReadyUnlessDisturbed == Spec => []UndisturbedReadyIsAuthenticated
<1>1. Init => ReadyInv
  BY Kinds DEF Init, ReadyInv, AcceptedInv, UndisturbedInv, Goroutine
<1>2. ReadyInv => UndisturbedReadyIsAuthenticated
  BY DEF ReadyInv, UndisturbedInv, UndisturbedReadyIsAuthenticated
<1>3. TypeOK /\ ConnInv /\ ReadyInv /\ [Next]_vars => ReadyInv'
  BY ReadyStep
<1> QED BY <1>1, <1>2, <1>3, ConnAlways, PTL DEF Spec
=============================================================================
