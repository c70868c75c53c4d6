--------------------------- MODULE SnapshotStream ---------------------------
(***************************************************************************)
(* The snapshot stream of the X2 client: PublishSnapshot and               *)
(* SubscribeSnapshots of internal/infrastructure/x2/client.go, and the     *)
(* handler of /api/x2/stream in cmd/api/server.go.                         *)
(*                                                                         *)
(* A publisher (the listener, or a request that connects or disconnects)   *)
(* changes the client's state, takes a snapshot under the client's mutex,  *)
(* and then, under subMu, offers it to every subscriber's channel: a send  *)
(* that does not block, and if the channel is full, the removal of one     *)
(* frame and a second send that does not block.                            *)
(*                                                                         *)
(* A subscriber (the goroutine that serves one stream) registers its       *)
(* channel, sends itself a first snapshot, which may block because nobody  *)
(* but itself reads the channel, and then writes the frames it receives    *)
(* to the websocket, until a write fails.                                  *)
(*                                                                         *)
(* A snapshot is known by the version of the state it shows.               *)
(***************************************************************************)
EXTENDS Integers, Sequences

CONSTANTS
  Publisher,   (* goroutines that change the client's state               *)
  Subscriber,  (* streams                                                 *)
  MaxChanges   (* bound: changes of the state                             *)

Capacity == 2
None     == -1

ASSUME StreamAssumption ==
  /\ Subscriber \cap Int = {}
  /\ MaxChanges \in Nat

VARIABLES
  version,     \* the version of the client's state
  pub,         \* where each publisher is
  frame,       \* the snapshot it publishes
  left,        \* the channels it has still to visit
  turn,        \* the full channel it is making room in, if any
  registered,  \* Client.subscribers
  channel,     \* the frames in each channel's buffer
  sub,         \* where each stream's handler is
  boot,        \* its first snapshot
  shown        \* the last frame it has written to the websocket

(* History, read by the properties only: *)
VARIABLE offered  \* the last frame offered to a stream that had its first snapshot

publishers  == <<version, pub, frame, left, turn>>
subscribers == <<registered, sub, boot, shown>>
vars == <<publishers, subscribers, channel, offered>>

PublisherStep  == {"idle", "changed", "lock", "next", "drop", "resend"}
SubscriberStep == {"off", "registered", "boot", "parked", "streaming", "leaving", "gone"}
Frame == 0 .. MaxChanges

TypeOK ==
  /\ version \in Frame
  /\ pub \in [Publisher -> PublisherStep]
  /\ frame \in [Publisher -> Frame]
  /\ left \in [Publisher -> SUBSET Subscriber]
  /\ turn \in [Publisher -> Subscriber \cup {None}]
  /\ registered \in SUBSET Subscriber
  /\ channel \in [Subscriber -> Seq(Frame)]
  /\ \A u \in Subscriber : Len(channel[u]) <= Capacity
  /\ sub \in [Subscriber -> SubscriberStep]
  /\ boot \in [Subscriber -> Frame]
  /\ shown \in [Subscriber -> Frame \cup {None}]
  /\ offered \in [Subscriber -> Frame \cup {None}]

Init ==
  /\ version = 0
  /\ pub = [p \in Publisher |-> "idle"]
  /\ frame = [p \in Publisher |-> 0]
  /\ left = [p \in Publisher |-> {}]
  /\ turn = [p \in Publisher |-> None]
  /\ registered = {}
  /\ channel = [u \in Subscriber |-> <<>>]
  /\ sub = [u \in Subscriber |-> "off"]
  /\ boot = [u \in Subscriber |-> 0]
  /\ shown = [u \in Subscriber |-> None]
  /\ offered = [u \in Subscriber |-> None]

(* subMu is held by the publisher that visits the channels. *)
Visiting(p) == pub[p] \in {"next", "drop", "resend"}
SubMuFree   == \A p \in Publisher : ~Visiting(p)

(* Mutant of HasRoom: off by one. *)
HasRoomForOneMore(u) == Len(channel[u]) <= Capacity

HasRoom(u)  == Len(channel[u]) < Capacity
Put(u, f)   == channel' = [channel EXCEPT ![u] = Append(@, f)]

-----------------------------------------------------------------------------
(* PublishSnapshot *)

Changes(p) ==
  /\ pub[p] = "idle"
  /\ version < MaxChanges
  /\ version' = version + 1
  /\ pub' = [pub EXCEPT ![p] = "changed"]
  /\ UNCHANGED <<frame, left, turn, subscribers, channel, offered>>

TakesSnapshot(p) ==
  /\ pub[p] = "changed"
  /\ frame' = [frame EXCEPT ![p] = version]
  /\ pub' = [pub EXCEPT ![p] = "lock"]
  /\ UNCHANGED <<version, left, turn, subscribers, channel, offered>>

Locks(p) ==
  /\ pub[p] = "lock"
  /\ SubMuFree
  /\ left' = [left EXCEPT ![p] = registered]
  /\ pub' = [pub EXCEPT ![p] = "next"]
  /\ UNCHANGED <<version, frame, turn, subscribers, channel, offered>>

Unlocks(p) ==
  /\ pub[p] = "next"
  /\ left[p] = {}
  /\ pub' = [pub EXCEPT ![p] = "idle"]
  /\ UNCHANGED <<version, frame, left, turn, subscribers, channel, offered>>

(* Mutants of IfFull and IfStillFull: the frame is given up at once; the     *)
(* publisher waits for room.                                                 *)
GivesUp == "next"
Waits   == "resend"

(* Where the publisher goes when its first or its second send finds no room. *)
IfFull      == "drop"
IfStillFull == "next"

(* The first send.  The order of the channels is that of a Go map: any. *)
Offers(p, u) ==
  /\ pub[p] = "next"
  /\ u \in left[p]
  /\ left' = [left EXCEPT ![p] = @ \ {u}]
  /\ offered' = [offered EXCEPT ![u] = IF sub[u] = "streaming" THEN frame[p] ELSE None]
  /\ IF HasRoom(u)
     THEN Put(u, frame[p]) /\ UNCHANGED <<pub, turn>>
     ELSE /\ pub' = [pub EXCEPT ![p] = IfFull]
          /\ turn' = IF IfFull = "drop" THEN [turn EXCEPT ![p] = u] ELSE turn
          /\ UNCHANGED channel
  /\ UNCHANGED <<version, frame, subscribers>>

(* The removal of a frame, if the stream has not emptied the channel in the  *)
(* meantime.  Taking a frame from a full channel lets a sender that is       *)
(* parked on it, the stream's own first send, put its frame and go on.       *)
Drops(p) ==
  LET u == turn[p]
  IN  /\ pub[p] = "drop"
      /\ pub' = [pub EXCEPT ![p] = "resend"]
      /\ IF channel[u] = <<>> THEN UNCHANGED <<channel, sub>>
         ELSE IF sub[u] = "parked"
              THEN /\ channel' = [channel EXCEPT ![u] = Append(Tail(@), boot[u])]
                   /\ sub' = [sub EXCEPT ![u] = "streaming"]
              ELSE /\ channel' = [channel EXCEPT ![u] = Tail(@)]
                   /\ UNCHANGED sub
      /\ UNCHANGED <<version, frame, left, turn, registered, boot, shown, offered>>

(* The second send. *)
Resends(p) ==
  LET u    == turn[p]
      goto == IF HasRoom(u) THEN "next" ELSE IfStillFull
  IN  /\ pub[p] = "resend"
      /\ pub' = [pub EXCEPT ![p] = goto]
      /\ turn' = IF goto = "next" THEN [turn EXCEPT ![p] = None] ELSE turn
      /\ IF HasRoom(u) THEN Put(u, frame[p]) ELSE UNCHANGED channel
      /\ UNCHANGED <<version, frame, left, subscribers, offered>>

-----------------------------------------------------------------------------
(* SubscribeSnapshots and the handler of the stream *)

Registers(u) ==
  /\ sub[u] = "off"
  /\ SubMuFree
  /\ registered' = registered \cup {u}
  /\ sub' = [sub EXCEPT ![u] = "registered"]
  /\ UNCHANGED <<publishers, channel, boot, shown, offered>>

TakesFirst(u) ==
  /\ sub[u] = "registered"
  /\ boot' = [boot EXCEPT ![u] = version]
  /\ sub' = [sub EXCEPT ![u] = "boot"]
  /\ UNCHANGED <<publishers, registered, channel, shown, offered>>

(* The blocking send of the first snapshot. *)
SendsFirst(u) ==
  /\ sub[u] = "boot"
  /\ IF HasRoom(u)
     THEN Put(u, boot[u]) /\ sub' = [sub EXCEPT ![u] = "streaming"]
     ELSE UNCHANGED channel /\ sub' = [sub EXCEPT ![u] = "parked"]
  /\ UNCHANGED <<publishers, registered, boot, shown, offered>>

(* A frame is received and written; or the write fails, as that of a ping may. *)
Writes(u) ==
  /\ sub[u] = "streaming"
  /\ channel[u] # <<>>
  /\ channel' = [channel EXCEPT ![u] = Tail(@)]
  /\ \/ shown' = [shown EXCEPT ![u] = Head(channel[u])] /\ UNCHANGED sub
     \/ sub' = [sub EXCEPT ![u] = "leaving"] /\ UNCHANGED shown
  /\ UNCHANGED <<publishers, registered, boot, offered>>

PingFails(u) ==
  /\ sub[u] = "streaming"
  /\ sub' = [sub EXCEPT ![u] = "leaving"]
  /\ UNCHANGED <<publishers, registered, channel, boot, shown, offered>>

(* Mutant of MayUnsubscribe: the channel is closed without subMu. *)
WithoutSubMu == TRUE

MayUnsubscribe == SubMuFree

Unsubscribes(u) ==
  /\ sub[u] = "leaving"
  /\ MayUnsubscribe
  /\ registered' = registered \ {u}
  /\ sub' = [sub EXCEPT ![u] = "gone"]
  /\ UNCHANGED <<publishers, channel, boot, shown, offered>>

-----------------------------------------------------------------------------
Publishes(p) ==
  \/ TakesSnapshot(p)
  \/ Locks(p)
  \/ \E u \in Subscriber : Offers(p, u)
  \/ Drops(p)
  \/ Resends(p)
  \/ Unlocks(p)

Streams(u) ==
  \/ Registers(u)
  \/ TakesFirst(u)
  \/ SendsFirst(u)
  \/ Writes(u)
  \/ PingFails(u)
  \/ Unsubscribes(u)

Next ==
  \/ \E p \in Publisher : Changes(p) \/ Publishes(p)
  \/ \E u \in Subscriber : Streams(u)

Spec == Init /\ [][Next]_vars

(* A publication that has begun goes on.  The streams are not fair: a      *)
(* websocket may take its time, and a browser may never open one.          *)
FairSpec == Spec /\ \A p \in Publisher : WF_vars(Publishes(p))

-----------------------------------------------------------------------------
(* Properties *)

(* A publisher never sends on a channel that unsubscribe has closed (which  *)
(* would be a panic): the channels it has still to visit are registered.    *)
SendsOnlyToOpenChannels ==
  \A p \in Publisher : Visiting(p) =>
    /\ left[p] \subseteq registered
    /\ pub[p] \in {"drop", "resend"} => turn[p] \in registered

(* Dropping makes the stream fresher, never staler: a frame that is offered *)
(* to a stream past its first snapshot becomes the last of its channel, and *)
(* stays so until the stream has written it or another frame is offered.    *)
Latest(u) == IF channel[u] = <<>> THEN shown[u] ELSE channel[u][Len(channel[u])]

NewestIsKept ==
  \A u \in Subscriber :
    /\ sub[u] = "streaming"
    /\ offered[u] # None
    /\ \A p \in Publisher : turn[p] # u
    => Latest(u) = offered[u]

(* A publication ends, however slow the streams are: the listener and the   *)
(* requests that publish are not held up by a browser.                      *)
PublicationsEnd ==
  \A p \in Publisher : pub[p] = "lock" ~> pub[p] = "idle"

(* A stream that is parked in its own first send is set free by the next    *)
(* publication.                                                             *)
ParkedIsReleased ==
  \A u \in Subscriber :
    (sub[u] = "parked" /\ \E p \in Publisher : pub[p] = "lock") ~> sub[u] # "parked"
=============================================================================
