------------------------------ MODULE X2Client ------------------------------
(***************************************************************************)
(* The connection of the API to the X2 race server: Connect, Close, listen *)
(* and SendRaw of internal/infrastructure/x2, and their callers in         *)
(* cmd/api/server.go (ensureX2Connected, withX2Retry, and the handlers of  *)
(* connect, disconnect and the flags).                                     *)
(*                                                                         *)
(* The client is one shared object.  Its goroutines are the operators'     *)
(* requests, and one listener for every socket that Connect has stored.    *)
(* Connect and Close take the mutex, but Connect gives it up while it      *)
(* dials; listen and SendRaw read Client.conn without it.  A nil conn is   *)
(* a panic: net/http recovers that of a request, but that of a listener or *)
(* of a timer ends the process.                                            *)
(*                                                                         *)
(* X2 is external: it welcomes a socket with a token, answers an           *)
(* authentication, and may go away at any time.                            *)
(***************************************************************************)
EXTENDS Integers, FiniteSets, Sequences

CONSTANTS
  Operator,      (* goroutines that serve requests or auto-clear timers      *)
  Background,    (* those of them that are timers: nothing recovers a panic  *)
  MaxSockets,    (* bound: sockets that are dialled                          *)
  MaxRequests,   (* bound: requests                                          *)
  MaxLost,       (* bound: sockets that X2 or the network drops              *)
  MaxKeepAlives  (* bound: keep-alive messages of X2                         *)

Socket    == 1 .. MaxSockets      \* a socket is also its own token, and names its listener
None      == 0
Goroutine == Operator \cup Socket

ASSUME ClientAssumption ==
  /\ Operator \cap Nat = {}
  /\ Background \subseteq Operator
  /\ MaxSockets \in Nat
  /\ MaxRequests \in Nat
  /\ MaxLost \in Nat
  /\ MaxKeepAlives \in Nat

VARIABLES
  conn,      \* Client.conn
  state,     \* Client.state
  token,     \* Client.token
  at,        \* where each goroutine is
  msg,       \* what each goroutine is sending
  want,      \* what each operator was asked to do
  attempt,   \* the attempt of withX2Retry an operator is making
  dialled,   \* the socket an operator has dialled and not stored yet
  reading,   \* the connection whose ReadMessage a listener has called
  opened,    \* sockets 1 .. opened have been dialled
  closed,    \* those the client has closed
  lost,      \* those X2 or the network has dropped
  inbox,     \* messages of X2 that wait in a socket
  authed     \* sockets X2 has authenticated

(* History, and the bounds' counters: *)
VARIABLES
  overlapped,  \* two dials have been under way at once
  disturbed,   \* a connection was stored while the listener of an earlier one lived
  delivered,   \* how often X2 has received the command of an operator's request
  requests,
  keepalives

client    == <<conn, state, token>>
operators == <<want, attempt, dialled>>
sockets   == <<opened, closed, lost, inbox, authed>>
history   == <<overlapped, disturbed, delivered>>
bounds    == <<requests, keepalives>>
vars == <<client, at, msg, operators, reading, sockets, history, bounds>>

OperatorStep == {"idle", "ensure", "poll", "connect", "dialing", "dialled",
                 "startup", "check", "write", "reset", "retry", "close", "down"}
ListenerStep == {"none", "load", "read", "welcome", "auth", "accepted",
                 "check", "write", "reset", "closing", "ended", "down"}
Request == {"command", "global", "connect", "disconnect"}
Message == [kind : {"command", "subscribe", "track", "keepalive"}]
             \cup [kind : {"auth"}, token : Socket \cup {None}]

Command == [kind |-> "command"]

TypeOK ==
  /\ conn \in Socket \cup {None}
  /\ state \in {"disconnected", "wait_welcome", "ready"}
  /\ token \in Socket \cup {None}
  /\ at \in [Goroutine -> OperatorStep \cup ListenerStep]
  /\ \A o \in Operator : at[o] \in OperatorStep
  /\ \A l \in Socket : at[l] \in ListenerStep
  /\ msg \in [Goroutine -> Message]
  /\ want \in [Operator -> Request]
  /\ attempt \in [Operator -> {1, 2}]
  /\ dialled \in [Operator -> Socket \cup {None}]
  /\ reading \in [Socket -> Socket \cup {None}]
  /\ opened \in 0 .. MaxSockets
  /\ closed \in SUBSET Socket
  /\ lost \in SUBSET Socket
  /\ inbox \in [Socket -> Seq({"welcome", "accepted", "refused", "keepalive"})]
  /\ authed \in SUBSET Socket
  /\ overlapped \in BOOLEAN
  /\ disturbed \in BOOLEAN
  /\ delivered \in [Operator -> Nat]
  /\ requests \in Nat
  /\ keepalives \in Nat

Init ==
  /\ conn = None
  /\ state = "disconnected"
  /\ token = None
  /\ at = [g \in Goroutine |-> IF g \in Operator THEN "idle" ELSE "none"]
  /\ msg = [g \in Goroutine |-> Command]
  /\ want = [o \in Operator |-> "command"]
  /\ attempt = [o \in Operator |-> 1]
  /\ dialled = [o \in Operator |-> None]
  /\ reading = [l \in Socket |-> None]
  /\ opened = 0
  /\ closed = {}
  /\ lost = {}
  /\ inbox = [s \in Socket |-> <<>>]
  /\ authed = {}
  /\ overlapped = FALSE
  /\ disturbed = FALSE
  /\ delivered = [o \in Operator |-> 0]
  /\ requests = 0
  /\ keepalives = 0

Goto(g, step) == at' = [at EXCEPT ![g] = step]

(* A nil connection is used: the request ends, or the process with every goroutine. *)
Panic(g) ==
  IF g \in Operator \ Background
  THEN Goto(g, "idle")
  ELSE at' = [h \in Goroutine |-> "down"]

-----------------------------------------------------------------------------
(* Connect *)

Dialling(o) == at[o] \in {"dialing", "dialled"}

(* Where a caller of Connect goes on: /connect answers, ensureX2Connected waits. *)
AfterConnect(o) == IF want[o] = "connect" THEN "idle" ELSE "startup"

(* Mutant of MayDial: the connection that exists is not looked at. *)
MayAlwaysDial == TRUE

MayDial == conn = None

ConnectChecks(o) ==
  /\ at[o] = "connect"
  /\ Goto(o, IF MayDial THEN "dialing" ELSE AfterConnect(o))
  /\ overlapped' = (overlapped \/ (MayDial /\ \E p \in Operator : Dialling(p)))
  /\ UNCHANGED <<client, msg, operators, reading, sockets, disturbed,
                 delivered, bounds>>

(* Dial, without the mutex: it fails, or X2 accepts and welcomes the socket. *)
DialFails(o) ==
  /\ at[o] = "dialing"
  /\ Goto(o, "idle")
  /\ UNCHANGED <<client, msg, operators, reading, sockets, history, bounds>>

DialSucceeds(o) ==
  /\ at[o] = "dialing"
  /\ opened < MaxSockets
  /\ opened' = opened + 1
  /\ inbox' = [inbox EXCEPT ![opened + 1] = <<"welcome">>]
  /\ dialled' = [dialled EXCEPT ![o] = opened + 1]
  /\ Goto(o, "dialled")
  /\ UNCHANGED <<client, msg, want, attempt, reading, closed, lost, authed,
                 history, bounds>>

(* Mutant of StateAfterConnect: the state is not set. *)
StateKept == state

StateAfterConnect == "wait_welcome"

(* The socket is stored, over any connection stored since the check, and its *)
(* listener is started.                                                      *)
ConnectStores(o) ==
  LET s == dialled[o]
  IN  /\ at[o] = "dialled"
      /\ conn' = s
      /\ state' = StateAfterConnect
      /\ dialled' = [dialled EXCEPT ![o] = None]
      /\ at' = [at EXCEPT ![o] = AfterConnect(o), ![s] = "load"]
      /\ disturbed' = (disturbed \/ \E l \in Socket : at[l] \notin {"none", "ended"})
      /\ UNCHANGED <<token, msg, want, attempt, reading, sockets, overlapped,
                     delivered, bounds>>

(* Close: the state is reset whether or not there is a connection. *)
Close ==
  /\ closed' = IF conn = None THEN closed ELSE closed \cup {conn}
  /\ conn' = None
  /\ state' = "disconnected"

-----------------------------------------------------------------------------
(* The handlers of server.go *)

AfterRequest(w) ==
  CASE w = "command"    -> "ensure"
    [] w = "global"     -> "check"
    [] w = "connect"    -> "connect"
    [] w = "disconnect" -> "close"

Asks(o, w) ==
  /\ at[o] = "idle"
  /\ o \in Background => w = "command"
  /\ requests < MaxRequests
  /\ requests' = requests + 1
  /\ Goto(o, AfterRequest(w))
  /\ msg' = [msg EXCEPT ![o] = Command]
  /\ want' = [want EXCEPT ![o] = w]
  /\ attempt' = [attempt EXCEPT ![o] = 1]
  /\ delivered' = [delivered EXCEPT ![o] = 0]
  /\ UNCHANGED <<client, dialled, reading, sockets, overlapped, disturbed,
                 keepalives>>

EnsureLooks(o) ==
  /\ at[o] = "ensure"
  /\ Goto(o, IF conn = None THEN "connect" ELSE "poll")
  /\ UNCHANGED <<client, msg, operators, reading, sockets, history, bounds>>

(* Mutant of DeadlinePasses: the loop has no deadline. *)
NoDeadline == FALSE

DeadlinePasses == state # "ready"

(* The two polling loops: before ("poll") and after ("startup") Connect.  A *)
(* loop ends when it samples ready, no connection, or its deadline.         *)
Polls(o) ==
  /\ at[o] \in {"poll", "startup"}
  /\ \/ state = "ready" /\ Goto(o, "check")
     \/ conn = None /\ Goto(o, IF at[o] = "poll" THEN "connect" ELSE "idle")
     \/ DeadlinePasses /\ Goto(o, "idle")
  /\ UNCHANGED <<client, msg, operators, reading, sockets, history, bounds>>

(* The handler of disconnect, and withX2Retry between its two attempts. *)
OperatorCloses(o) ==
  /\ at[o] \in {"close", "retry"}
  /\ Close
  /\ Goto(o, IF at[o] = "retry" THEN "ensure" ELSE "idle")
  /\ attempt' = IF at[o] = "retry" THEN [attempt EXCEPT ![o] = @ + 1] ELSE attempt
  /\ UNCHANGED <<token, msg, want, dialled, reading, opened, lost, inbox, authed, history, bounds>>

-----------------------------------------------------------------------------
(* SendRaw: the check of conn, the write under writeMu, the reset of the    *)
(* deadline.  A goroutine at "reset" holds writeMu.                         *)

(* Mutants of Retries: another attempt is always made, or made on success. *)
RetriesForever(o, ok)  == ~ok /\ want[o] = "command"
RetriesAnyway(o, ok)   == want[o] = "command" /\ attempt[o] = 1

Retries(o, ok) == ~ok /\ want[o] = "command" /\ attempt[o] = 1

(* What the caller of SendRaw does with its result. *)
Sent(g, ok) ==
  IF g \in Operator THEN Goto(g, IF Retries(g, ok) THEN "retry" ELSE "idle") /\ UNCHANGED msg
  ELSE IF ok /\ msg[g].kind = "subscribe"
       THEN Goto(g, "check") /\ msg' = [msg EXCEPT ![g] = [kind |-> "track"]]
       ELSE Goto(g, "load") /\ msg' = [msg EXCEPT ![g] = Command]

SendChecks(g) ==
  /\ at[g] = "check"
  /\ IF conn = None THEN Sent(g, FALSE) ELSE Goto(g, "write") /\ UNCHANGED msg
  /\ UNCHANGED <<client, operators, reading, sockets, history, bounds>>

(* X2 receives what g has written on socket s. *)
X2Receives(g, s) ==
  /\ delivered' = IF g \in Operator THEN [delivered EXCEPT ![g] = @ + 1] ELSE delivered
  /\ IF msg[g].kind # "auth" THEN UNCHANGED <<inbox, authed>>
     ELSE \/ /\ msg[g].token = s
             /\ inbox' = [inbox EXCEPT ![s] = Append(@, "accepted")]
             /\ authed' = authed \cup {s}
          \/ /\ inbox' = [inbox EXCEPT ![s] = Append(@, "refused")]
             /\ UNCHANGED authed

SendWrites(g) ==
  /\ at[g] = "write"
  /\ \A h \in Goroutine : at[h] # "reset"
  /\ IF conn = None
     THEN Panic(g) /\ UNCHANGED <<msg, inbox, authed, delivered>>
     ELSE \/ /\ IF conn \in lost THEN UNCHANGED <<inbox, authed, delivered>>
                ELSE X2Receives(g, conn)
             /\ Goto(g, "reset")
             /\ UNCHANGED msg
          \/ Sent(g, FALSE) /\ UNCHANGED <<inbox, authed, delivered>>
  /\ UNCHANGED <<client, operators, reading, opened, closed, lost, overlapped, disturbed,
                 bounds>>

SendResets(g) ==
  /\ at[g] = "reset"
  /\ IF conn = None THEN Panic(g) /\ UNCHANGED msg
     ELSE Sent(g, TRUE)
  /\ UNCHANGED <<client, operators, reading, sockets, history, bounds>>

-----------------------------------------------------------------------------
(* listen *)

ListenerLoads(l) ==
  /\ at[l] = "load"
  /\ IF conn = None THEN Panic(l) /\ UNCHANGED reading
     ELSE Goto(l, "read") /\ reading' = [reading EXCEPT ![l] = conn]
  /\ UNCHANGED <<client, msg, operators, sockets, history, bounds>>

(* Mutant of Verdict: Authenticated is not looked at. *)
VerdictIgnored(answer) == "accepted"

(* handleAuthOK's early return *)
Verdict(answer) == IF answer = "accepted" THEN "accepted" ELSE "load"

(* handleMessage, up to the first thing that other goroutines can see. *)
ListenerReads(l) ==
  LET s == reading[l]
      m == Head(inbox[s])
  IN  /\ at[l] = "read"
      /\ inbox[s] # <<>>
      /\ inbox' = [inbox EXCEPT ![s] = Tail(@)]
      /\ Goto(l, CASE m = "welcome"   -> "welcome"
                   [] m = "keepalive" -> "check"
                   [] OTHER           -> Verdict(m))
      /\ msg' = IF m = "keepalive" THEN [msg EXCEPT ![l] = [kind |-> "keepalive"]] ELSE msg
      /\ UNCHANGED <<client, operators, reading, opened, closed, lost, authed,
                     history, bounds>>

(* handleWelcome stores the token; sendAuth reads it again. *)
handleWelcome(l) ==
  /\ at[l] = "welcome"
  /\ token' = reading[l]
  /\ Goto(l, "auth")
  /\ UNCHANGED <<conn, state, msg, operators, reading, sockets, history, bounds>>

sendAuth(l) ==
  /\ at[l] = "auth"
  /\ msg' = [msg EXCEPT ![l] = [kind |-> "auth", token |-> token]]
  /\ Goto(l, "check")
  /\ UNCHANGED <<client, operators, reading, sockets, history, bounds>>

handleAuthOK(l) ==
  /\ at[l] = "accepted"
  /\ state' = "ready"
  /\ msg' = [msg EXCEPT ![l] = [kind |-> "subscribe"]]
  /\ Goto(l, "check")
  /\ UNCHANGED <<conn, token, operators, reading, sockets, history, bounds>>

(* ReadMessage fails on a socket that is closed or lost; two listeners that *)
(* read one socket at once are outside what the library defines.            *)
ReadFails(l) ==
  \/ reading[l] \in closed \cup lost
  \/ \E m \in Socket \ {l} : at[m] = "read" /\ reading[m] = reading[l]

(* Mutants of AfterReadError: listen returns without Close, or goes on. *)
JustReturns == "ended"
GoesOn      == "load"

AfterReadError == "closing"

ListenerFails(l) ==
  /\ at[l] = "read"
  /\ ReadFails(l)
  /\ Goto(l, AfterReadError)
  /\ UNCHANGED <<client, msg, operators, reading, sockets, history, bounds>>

ListenerCloses(l) ==
  /\ at[l] = "closing"
  /\ Close
  /\ Goto(l, "ended")
  /\ reading' = [reading EXCEPT ![l] = None]
  /\ UNCHANGED <<token, msg, operators, opened, lost, inbox, authed,
                 history, bounds>>

-----------------------------------------------------------------------------
(* X2 and the network *)

X2Drops(s) ==
  /\ s <= opened
  /\ s \notin closed \cup lost
  /\ Cardinality(lost) < MaxLost
  /\ lost' = lost \cup {s}
  /\ UNCHANGED <<client, at, msg, operators, reading, opened, closed, inbox, authed, history, bounds>>

X2KeepsAlive(s) ==
  /\ s \in authed \ (closed \cup lost)
  /\ keepalives < MaxKeepAlives
  /\ keepalives' = keepalives + 1
  /\ inbox' = [inbox EXCEPT ![s] = Append(@, "keepalive")]
  /\ UNCHANGED <<client, at, msg, operators, reading, opened, closed, lost, authed, history, requests>>

-----------------------------------------------------------------------------
Sends(g) == SendChecks(g) \/ SendWrites(g) \/ SendResets(g)

OperatorMoves(o) ==
  \/ EnsureLooks(o)
  \/ Polls(o)
  \/ ConnectChecks(o)
  \/ DialFails(o)
  \/ DialSucceeds(o)
  \/ ConnectStores(o)
  \/ OperatorCloses(o)
  \/ Sends(o)

ListenerMoves(l) ==
  \/ ListenerLoads(l)
  \/ ListenerReads(l)
  \/ handleWelcome(l)
  \/ sendAuth(l)
  \/ handleAuthOK(l)
  \/ ListenerFails(l)
  \/ ListenerCloses(l)
  \/ Sends(l)

Next ==
  \/ \E o \in Operator, w \in Request : Asks(o, w)
  \/ \E o \in Operator : OperatorMoves(o)
  \/ \E l \in Socket : ListenerMoves(l)
  \/ \E s \in Socket : X2Drops(s) \/ X2KeepsAlive(s)

Spec == Init /\ [][Next]_vars

(* Every goroutine that can go on does: Dial and ReadMessage return, the    *)
(* deadlines of the loops pass, writeMu is given up.  Nobody has to send a  *)
(* request, and X2 does not have to do anything.                            *)
Fairness ==
  /\ \A o \in Operator : WF_vars(OperatorMoves(o))
  /\ \A l \in Socket : WF_vars(ListenerMoves(l))

FairSpec == Spec /\ Fairness

-----------------------------------------------------------------------------
(* Properties *)

(* The state names a connection in the making only while there is one, and  *)
(* is never "disconnected" while there is one: the loops of                 *)
(* ensureX2Connected, which sample the two apart, cannot see a connection   *)
(* that will never be ready because Close had the last word on its state.   *)
StateMatchesConn ==
  /\ conn = None => state # "wait_welcome"
  /\ conn # None => state # "disconnected"

(* The current connection is always watched by its own listener, whatever   *)
(* other listeners do: it is about to load the connection, reads it,        *)
(* handles a message of it, or is about to close it.                        *)
Watched ==
  conn # None =>
    /\ at[conn] \notin {"none", "ended"}
    /\ at[conn] \notin {"load", "down"} => reading[conn] = conn

(* Unless two dials overlap, the client loses no socket: each is closed, is *)
(* the current connection, or is still in the hands of the goroutine that   *)
(* dialled it.                                                              *)
NoSocketIsLeaked ==
  ~overlapped =>
    \A s \in 1 .. opened :
      s \in closed \/ s = conn \/ \E o \in Operator : dialled[o] = s

(* As long as no listener outlives its connection into the next one, a      *)
(* connection that is ready has been authenticated by X2.                   *)
UndisturbedReadyIsAuthenticated ==
  ~disturbed /\ conn # None /\ state = "ready" => conn \in authed

(* The retry never delivers a command that X2 has already received. *)
DeliveredAtMostOnce ==
  \A o \in Operator : want[o] = "command" => delivered[o] <= 1

(* Every request is answered, whatever X2 and the other requests do, unless *)
(* a panic ends the process.                                                *)
RequestsEnd ==
  \A o \in Operator : at[o] = "ensure" ~> at[o] \in {"idle", "down"}

(* A connection that is lost does not stay the client's connection. *)
LossIsNoticed ==
  \A s \in Socket : (conn = s /\ s \in lost) ~> (conn # s \/ at[s] = "down")

(* auth.go:43, "once authenticated, we go to the state ready": the state is *)
(* ready for the connection that X2 has authenticated.                      *)
ReadyIsAuthenticated ==
  conn # None /\ state = "ready" => conn \in authed
=============================================================================
