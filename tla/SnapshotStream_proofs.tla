------------------------ MODULE SnapshotStream_proofs ------------------------
(***************************************************************************)
(* Safety of the snapshot stream, for any publishers and streams.          *)
(***************************************************************************)
EXTENDS SnapshotStream, SequenceTheorems, TLAPS

(* The buffers: frames, and never more of them than the channel holds. *)
Buffers(c) ==
  /\ c \in [Subscriber -> Seq(Frame)]
  /\ \A u \in Subscriber : Len(c[u]) <= Capacity

-----------------------------------------------------------------------------
(* A stream is not the None that stands for no stream, nor is a frame. *)
LEMMA Kinds ==
  /\ MaxChanges \in Nat
  /\ None \notin Subscriber
  /\ None \notin Frame
  /\ Capacity \in Nat /\ Capacity > 0
<1>1. MaxChanges \in Nat /\ Subscriber \cap Int = {}
  BY StreamAssumption DEF StreamAssumption
<1>2. None \in Int /\ None \notin Frame
  BY <1>1 DEF None, Frame
<1> QED BY <1>1, <1>2 DEF Capacity

(* A send that finds room does not fill a channel beyond its capacity. *)
LEMMA PutType ==
  ASSUME Buffers(channel), NEW u \in Subscriber, NEW f \in Frame, HasRoom(u), Put(u, f)
  PROVE  Buffers(channel')
<1>1. channel[u] \in Seq(Frame) /\ Len(channel[u]) \in Nat
  BY DEF Buffers
<1>2. /\ Append(channel[u], f) \in Seq(Frame)
      /\ Len(Append(channel[u], f)) = Len(channel[u]) + 1
  BY <1>1
<1>3. Len(Append(channel[u], f)) <= Capacity
  BY <1>1, <1>2 DEF HasRoom, Capacity
<1> QED BY <1>2, <1>3 DEF Buffers, Put

(* Nor does a receive, with or without a parked sender that takes the place. *)
LEMMA TakeType ==
  ASSUME Buffers(channel), NEW u \in Subscriber, channel[u] # <<>>, NEW f \in Frame
  PROVE  /\ Buffers([channel EXCEPT ![u] = Tail(@)])
         /\ Buffers([channel EXCEPT ![u] = Append(Tail(@), f)])
<1>1. channel[u] \in Seq(Frame) /\ Len(channel[u]) \in Nat /\ Len(channel[u]) <= Capacity
  BY DEF Buffers
<1>2. /\ Tail(channel[u]) \in Seq(Frame)
      /\ Len(Tail(channel[u])) = Len(channel[u]) - 1
  BY <1>1
<1>3. /\ Append(Tail(channel[u]), f) \in Seq(Frame)
      /\ Len(Append(Tail(channel[u]), f)) = Len(channel[u])
  BY <1>1, <1>2
<1>4. Len(Tail(channel[u])) <= Capacity
  BY <1>1, <1>2 DEF Capacity
<1> QED BY <1>1, <1>2, <1>3, <1>4 DEF Buffers

(* The type invariant, with the buffers as one of its parts. *)
LEMMA Parts ==
  TypeOK <=>
    /\ version \in Frame
    /\ pub \in [Publisher -> PublisherStep]
    /\ frame \in [Publisher -> Frame]
    /\ left \in [Publisher -> SUBSET Subscriber]
    /\ turn \in [Publisher -> Subscriber \cup {None}]
    /\ registered \in SUBSET Subscriber
    /\ Buffers(channel)
    /\ sub \in [Subscriber -> SubscriberStep]
    /\ boot \in [Subscriber -> Frame]
    /\ shown \in [Subscriber -> Frame \cup {None}]
    /\ offered \in [Subscriber -> Frame \cup {None}]
BY DEF TypeOK, Buffers

(* No publisher, no stream, no frame. *)
LEMMA InitType == Init => TypeOK
<1> SUFFICES ASSUME Init PROVE TypeOK
  OBVIOUS
<1>1. 0 \in Frame
  BY Kinds DEF Frame
<1>2. Buffers(channel)
  BY Kinds DEF Init, Buffers
<1>3. /\ pub \in [Publisher -> PublisherStep]
      /\ sub \in [Subscriber -> SubscriberStep]
      /\ left \in [Publisher -> SUBSET Subscriber]
  BY DEF Init, PublisherStep, SubscriberStep
<1> QED BY <1>1, <1>2, <1>3, Parts DEF Init

(* A publisher's visit to a channel, where no buffer overflows. *)
LEMMA PublisherType ==
  ASSUME TypeOK, NEW p \in Publisher, Changes(p) \/ Publishes(p)
  PROVE  TypeOK'
<1> USE Parts
<1>a. {"idle", "changed", "lock", "next", "drop", "resend"} \subseteq PublisherStep
  BY DEF PublisherStep
<1>1. CASE Changes(p)
  <2>1. version' \in Frame
    BY <1>1, Kinds DEF Changes, Frame
  <2> QED BY <1>1, <1>a, <2>1 DEF Changes, subscribers, TypeOK
<1>2. CASE TakesSnapshot(p)
  BY <1>2, <1>a DEF TakesSnapshot, subscribers, TypeOK
<1>3. CASE Locks(p) \/ Unlocks(p)
  BY <1>3, <1>a DEF Locks, Unlocks, subscribers, TypeOK
<1>4. ASSUME NEW u \in Subscriber, Offers(p, u)
      PROVE  TypeOK'
  <2>1. Buffers(channel')
    BY <1>4, PutType DEF Offers
  <2>2. /\ left' \in [Publisher -> SUBSET Subscriber]
        /\ offered' \in [Subscriber -> Frame \cup {None}]
        /\ pub' \in [Publisher -> PublisherStep]
        /\ turn' \in [Publisher -> Subscriber \cup {None}]
    BY <1>4, <1>a DEF Offers, IfFull
  <2> QED BY <1>4, <2>1, <2>2 DEF Offers, subscribers, TypeOK, Buffers
<1>5. CASE Drops(p)
  <2>1. CASE turn[p] \in Subscriber
    <3>1. Buffers(channel') /\ sub' \in [Subscriber -> SubscriberStep]
      <4>1. channel[turn[p]] = <<>> => UNCHANGED <<channel, sub>>
        BY <1>5 DEF Drops
      <4>2. channel[turn[p]] # <<>> =>
              /\ \/ channel' = [channel EXCEPT ![turn[p]] = Tail(@)]
                 \/ channel' = [channel EXCEPT ![turn[p]] = Append(Tail(@), boot[turn[p]])]
              /\ UNCHANGED sub \/ sub' = [sub EXCEPT ![turn[p]] = "streaming"]
        BY <1>5 DEF Drops
      <4>3. boot[turn[p]] \in Frame /\ "streaming" \in SubscriberStep
        BY <2>1 DEF SubscriberStep
      <4>4. Buffers(channel')
        <5>1. CASE channel[turn[p]] # <<>>
          <6>1. /\ Buffers([channel EXCEPT ![turn[p]] = Tail(@)])
                /\ Buffers([channel EXCEPT ![turn[p]] = Append(Tail(@), boot[turn[p]])])
            BY <2>1, <4>3, <5>1, TakeType
          <6> QED BY <4>2, <5>1, <6>1
        <5> QED BY <4>1, <5>1
      <4> QED BY <4>1, <4>2, <4>3, <4>4
    <3> QED BY <1>5, <1>a, <3>1 DEF Drops, TypeOK, Buffers
  <2>2. CASE turn[p] \notin Subscriber
    <3>1. UNCHANGED <<channel, sub>>
      <4>1. \A c : [channel EXCEPT ![turn[p]] = c] = channel
        BY <2>2 DEF Buffers
      <4>2. [sub EXCEPT ![turn[p]] = "streaming"] = sub
        BY <2>2
      <4> QED BY <1>5, <4>1, <4>2 DEF Drops
    <3> QED BY <1>5, <1>a, <3>1 DEF Drops, TypeOK, Buffers
  <2> QED BY <2>1, <2>2
<1>6. CASE Resends(p)
  <2>1. Buffers(channel')
    <3>1. CASE turn[p] \in Subscriber
      BY <1>6, <3>1, PutType DEF Resends
    <3>2. CASE turn[p] \notin Subscriber
      <4>1. \A c : [channel EXCEPT ![turn[p]] = c] = channel
        BY <3>2 DEF Buffers
      <4> QED BY <1>6, <4>1 DEF Resends, Put
    <3> QED BY <3>1, <3>2
  <2> QED BY <1>6, <1>a, <2>1 DEF Resends, IfStillFull, subscribers, TypeOK, Buffers
<1> QED BY <1>1, <1>2, <1>3, <1>4, <1>5, <1>6 DEF Publishes

(* A step of a stream's handler. *)
LEMMA StreamType ==
  ASSUME TypeOK, NEW u \in Subscriber, Streams(u)
  PROVE  TypeOK'
<1> USE Parts
<1>a. {"registered", "boot", "parked", "streaming", "leaving", "gone"} \subseteq SubscriberStep
  BY DEF SubscriberStep
<1>1. CASE Registers(u) \/ Unsubscribes(u)
  <2>1. /\ UNCHANGED <<channel, boot, shown, offered, version, pub, frame, left, turn>>
        /\ registered' \in {registered \cup {u}, registered \ {u}}
    BY <1>1 DEF Registers, Unsubscribes, publishers
  <2>2. sub' \in [Subscriber -> SubscriberStep]
    BY <1>1, <1>a DEF Registers, Unsubscribes
  <2> QED BY <2>1, <2>2 DEF TypeOK
<1>4. CASE TakesFirst(u) \/ PingFails(u)
  <2>1. UNCHANGED <<channel, registered, shown, offered, version, pub, frame, left, turn>>
    BY <1>4 DEF TakesFirst, PingFails, publishers
  <2>2. boot' \in [Subscriber -> Frame] /\ sub' \in [Subscriber -> SubscriberStep]
    BY <1>4, <1>a DEF TakesFirst, PingFails
  <2> QED BY <2>1, <2>2 DEF TypeOK
<1>2. CASE SendsFirst(u)
  <2>1. Buffers(channel')
    BY <1>2, PutType DEF SendsFirst
  <2> QED BY <1>2, <1>a, <2>1 DEF SendsFirst, publishers, TypeOK, Buffers
<1>3. CASE Writes(u)
  <2>1. Buffers(channel')
    BY <1>3, TakeType DEF Writes
  <2>2. Head(channel[u]) \in Frame
    <3>1. channel[u] \in Seq(Frame) /\ channel[u] # <<>>
      BY <1>3 DEF Writes, Buffers
    <3> QED BY <3>1
  <2> QED BY <1>3, <1>a, <2>1, <2>2 DEF Writes, publishers, TypeOK, Buffers
<1> QED BY <1>1, <1>2, <1>3, <1>4 DEF Streams

(* The whole step. *)
LEMMA StepType == TypeOK /\ [Next]_vars => TypeOK'
<1>1. ASSUME TypeOK, UNCHANGED vars PROVE TypeOK'
  BY <1>1 DEF vars, publishers, subscribers, TypeOK
<1> QED BY <1>1, PublisherType, StreamType DEF Next

(* No channel ever holds more than its two frames, and all variables keep   *)
(* their types.                                                             *)
THEOREM TypeCorrect == Spec => []TypeOK
  BY InitType, StepType, PTL DEF Spec

-----------------------------------------------------------------------------
(* A channel cannot leave the map while a publisher holds subMu.            *)
LEMMA OpenStep == TypeOK /\ SendsOnlyToOpenChannels /\ [Next]_vars => SendsOnlyToOpenChannels'
<1> SUFFICES ASSUME TypeOK, SendsOnlyToOpenChannels, [Next]_vars
             PROVE  SendsOnlyToOpenChannels'
  OBVIOUS
<1> USE Parts
<1>1. ASSUME NEW p \in Publisher, Changes(p) \/ TakesSnapshot(p) \/ Locks(p) \/ Unlocks(p)
      PROVE  SendsOnlyToOpenChannels'
  BY <1>1 DEF Changes, TakesSnapshot, Locks, Unlocks, subscribers,
              SendsOnlyToOpenChannels, Visiting
<1>2. ASSUME NEW p \in Publisher, NEW u \in Subscriber, Offers(p, u)
      PROVE  SendsOnlyToOpenChannels'
  BY <1>2 DEF Offers, IfFull, subscribers, SendsOnlyToOpenChannels, Visiting
<1>3. ASSUME NEW p \in Publisher, Drops(p)
      PROVE  SendsOnlyToOpenChannels'
  BY <1>3 DEF Drops, SendsOnlyToOpenChannels, Visiting
<1>4. ASSUME NEW p \in Publisher, Resends(p)
      PROVE  SendsOnlyToOpenChannels'
  BY <1>4 DEF Resends, IfStillFull, subscribers, SendsOnlyToOpenChannels, Visiting
<1>5. ASSUME NEW u \in Subscriber, Streams(u)
      PROVE  SendsOnlyToOpenChannels'
  <2>1. CASE Registers(u) \/ Unsubscribes(u)
    BY <2>1 DEF Registers, Unsubscribes, MayUnsubscribe, SubMuFree, publishers,
                SendsOnlyToOpenChannels, Visiting
  <2>2. CASE TakesFirst(u) \/ SendsFirst(u) \/ Writes(u) \/ PingFails(u)
    BY <2>2 DEF TakesFirst, SendsFirst, Writes, PingFails, publishers,
                SendsOnlyToOpenChannels, Visiting
  <2> QED BY <1>5, <2>1, <2>2 DEF Streams
<1>6. CASE UNCHANGED vars
  BY <1>6 DEF vars, publishers, subscribers, SendsOnlyToOpenChannels, Visiting
<1> QED BY <1>1, <1>2, <1>3, <1>4, <1>5, <1>6 DEF Next, Publishes

(* PublishSnapshot never sends on a channel that unsubscribe has closed     *)
(* (client.go:93-109, 114-131).                                             *)
THEOREM NoSendOnClosed == Spec => []SendsOnlyToOpenChannels
<1>1. Init => SendsOnlyToOpenChannels
  BY DEF Init, SendsOnlyToOpenChannels, Visiting
<1> QED BY <1>1, OpenStep, TypeCorrect, PTL DEF Spec

-----------------------------------------------------------------------------
(* What subMu protects while a publisher is in the middle of a channel: it  *)
(* is the only one, the frame that is owed to the channel is its own, and   *)
(* between the removal and the second send there is room.                   *)
TurnInv ==
  /\ \A p, q \in Publisher : Visiting(p) /\ Visiting(q) => p = q
  /\ \A p \in Publisher : turn[p] # None <=> pub[p] \in {"drop", "resend"}
  /\ \A u \in Subscriber : offered[u] # None => sub[u] \in {"streaming", "leaving", "gone"}
  /\ \A p \in Publisher, u \in Subscriber :
       turn[p] = u /\ offered[u] # None =>
         /\ offered[u] = frame[p]
         /\ pub[p] = "resend" => HasRoom(u)

FreshInv == TurnInv /\ NewestIsKept

(* What the last frame of a channel is after a send, and after a receive.   *)
LEMMA LatestPut ==
  ASSUME TypeOK, NEW u \in Subscriber, NEW f \in Frame, Put(u, f)
  PROVE  /\ Latest(u)' = f
         /\ \A w \in Subscriber \ {u} : channel'[w] = channel[w]
<1>1. channel \in [Subscriber -> Seq(Frame)] /\ channel[u] \in Seq(Frame)
  BY Parts DEF Buffers
<1>2. channel'[u] = Append(channel[u], f) /\ \A w \in Subscriber \ {u} : channel'[w] = channel[w]
  BY <1>1 DEF Put
<1>3. channel'[u] # <<>> /\ channel'[u][Len(channel'[u])] = f
  BY <1>1, <1>2
<1> QED BY <1>2, <1>3 DEF Latest

(* The last element of a sequence survives the removal of the first. *)
LEMMA LastOfTail ==
  ASSUME NEW S, NEW q \in Seq(S), q # <<>>
  PROVE  /\ Len(q) = 1 => Tail(q) = <<>> /\ Head(q) = q[Len(q)]
         /\ Len(q) # 1 => Tail(q) # <<>> /\ Tail(q)[Len(Tail(q))] = q[Len(q)]
<1>1. Len(q) \in Nat /\ Len(q) # 0
  OBVIOUS
<1>2. Tail(q) \in Seq(S) /\ Len(Tail(q)) = Len(q) - 1
  OBVIOUS
<1>3. Len(q) = 1 => Tail(q) = <<>> /\ Head(q) = q[Len(q)]
  <2>1. Len(q) = 1 => Len(Tail(q)) \notin Nat \ {0} /\ Head(q) = q[Len(q)]
    BY <1>1, <1>2
  <2>2. Tail(q) # <<>> => Len(Tail(q)) \in Nat \ {0}
    BY <1>2, EmptySeq
  <2> QED BY <2>1, <2>2
<1>4. CASE Len(q) # 1
  <2>1. Len(q) - 1 \in 1 .. Len(Tail(q)) /\ Len(q) - 1 + 1 = Len(q)
    BY <1>1, <1>2, <1>4
  <2>2. Tail(q)[Len(q) - 1] = q[Len(q) - 1 + 1]
    BY <2>1
  <2>3. Tail(q) # <<>>
    <3>1. Len(Tail(q)) # 0
      BY <1>1, <1>2, <1>4
    <3>2. Len(<<>>) = 0
      BY EmptySeq
    <3> QED BY <3>1, <3>2, Zenon
  <2> QED BY <1>2, <1>4, <2>1, <2>2, <2>3
<1> QED BY <1>3, <1>4

(* Writing a frame does not change which frame is the latest. *)
LEMMA LatestTake ==
  ASSUME TypeOK, NEW u \in Subscriber, channel[u] # <<>>,
         channel' = [channel EXCEPT ![u] = Tail(@)],
         shown' = [shown EXCEPT ![u] = Head(channel[u])]
  PROVE  Latest(u)' = Latest(u)
<1>1. channel \in [Subscriber -> Seq(Frame)] /\ channel[u] \in Seq(Frame)
      /\ shown \in [Subscriber -> Frame \cup {None}]
  BY Parts DEF Buffers
<1>2. channel'[u] = Tail(channel[u]) /\ shown'[u] = Head(channel[u])
  BY <1>1
<1>3. /\ Len(channel[u]) = 1 =>
           Tail(channel[u]) = <<>> /\ Head(channel[u]) = channel[u][Len(channel[u])]
      /\ Len(channel[u]) # 1 =>
           /\ Tail(channel[u]) # <<>>
           /\ Tail(channel[u])[Len(Tail(channel[u]))] = channel[u][Len(channel[u])]
  BY <1>1, LastOfTail
<1> QED BY <1>2, <1>3 DEF Latest

(* A step that leaves the channels and what is owed to them alone. *)
LEMMA FreshFrame ==
  ASSUME FreshInv, UNCHANGED <<pub, turn, frame, channel, shown, offered>>,
         \A u \in Subscriber :
           \/ sub'[u] = sub[u]
           \/ offered[u] = None
           \/ sub'[u] \in {"leaving", "gone"}
  PROVE  FreshInv'
<1>1. TurnInv'
  BY DEF FreshInv, TurnInv, Visiting, HasRoom
<1>2. NewestIsKept'
  BY DEF FreshInv, NewestIsKept, Latest
<1> QED BY <1>1, <1>2 DEF FreshInv

(* PublishSnapshot: a frame that is owed to a channel gets into it, because *)
(* there is room after the removal.                                         *)
LEMMA FreshPublisher ==
  ASSUME TypeOK, FreshInv, NEW p \in Publisher, Changes(p) \/ Publishes(p)
  PROVE  FreshInv'
<1>a. /\ pub \in [Publisher -> PublisherStep] /\ turn \in [Publisher -> Subscriber \cup {None}]
      /\ frame \in [Publisher -> Frame] /\ offered \in [Subscriber -> Frame \cup {None}]
      /\ sub \in [Subscriber -> SubscriberStep]
      /\ None \notin Subscriber /\ None \notin Frame
      /\ channel \in [Subscriber -> Seq(Frame)]
  BY Parts, Kinds DEF Buffers
<1>1. CASE Changes(p) \/ Unlocks(p)
  <2>1. /\ UNCHANGED <<turn, frame, channel, shown, offered, sub>>
        /\ pub[p] \in {"idle", "next"}
        /\ \E step \in {"changed", "idle"} : pub' = [pub EXCEPT ![p] = step]
    BY <1>1 DEF Changes, Unlocks, subscribers
  <2>2. TurnInv'
    BY <1>a, <2>1 DEF FreshInv, TurnInv, Visiting, HasRoom
  <2>3. NewestIsKept'
    BY <2>1 DEF FreshInv, NewestIsKept, Latest
  <2> QED BY <2>2, <2>3 DEF FreshInv
<1>2. CASE TakesSnapshot(p)
  <2>1. /\ UNCHANGED <<turn, channel, shown, offered, sub>>
        /\ pub[p] = "changed" /\ pub' = [pub EXCEPT ![p] = "lock"]
        /\ frame' = [frame EXCEPT ![p] = version]
    BY <1>2 DEF TakesSnapshot, subscribers
  <2>2. turn[p] = None
    BY <1>a, <2>1 DEF FreshInv, TurnInv
  <2>3. TurnInv'
    BY <1>a, <2>1, <2>2 DEF FreshInv, TurnInv, Visiting, HasRoom
  <2>4. NewestIsKept'
    BY <2>1 DEF FreshInv, NewestIsKept, Latest
  <2> QED BY <2>3, <2>4 DEF FreshInv
<1>3. CASE Locks(p)
  <2>1. /\ UNCHANGED <<turn, frame, channel, shown, offered, sub>>
        /\ pub[p] = "lock" /\ pub' = [pub EXCEPT ![p] = "next"]
        /\ \A q \in Publisher : ~Visiting(q)
    BY <1>3 DEF Locks, SubMuFree, subscribers
  <2>2. TurnInv'
    BY <1>a, <2>1 DEF FreshInv, TurnInv, Visiting, HasRoom
  <2>3. NewestIsKept'
    BY <2>1 DEF FreshInv, NewestIsKept, Latest
  <2> QED BY <2>2, <2>3 DEF FreshInv
<1>4. ASSUME NEW u \in Subscriber, Offers(p, u)
      PROVE  FreshInv'
  <2>1. /\ pub[p] = "next" /\ UNCHANGED <<frame, sub, shown>>
        /\ offered' = [offered EXCEPT ![u] = IF sub[u] = "streaming" THEN frame[p] ELSE None]
    BY <1>4 DEF Offers, subscribers
  <2>2. turn[p] = None /\ \A q \in Publisher : q # p => ~Visiting(q) /\ turn[q] = None
    BY <1>a, <2>1 DEF FreshInv, TurnInv, Visiting
  <2>3. CASE HasRoom(u)
    <3>1. Put(u, frame[p]) /\ UNCHANGED <<pub, turn>>
      BY <1>4, <2>3 DEF Offers
    <3>2. Latest(u)' = frame[p] /\ \A w \in Subscriber \ {u} : channel'[w] = channel[w]
      BY <1>a, <3>1, LatestPut
    <3>3. TurnInv'
      BY <1>a, <2>1, <2>2, <3>1 DEF FreshInv, TurnInv, Visiting
    <3>4. NewestIsKept'
      <4> SUFFICES ASSUME NEW w \in Subscriber, sub[w] = "streaming", offered'[w] # None
                   PROVE  Latest(w)' = offered'[w]
        BY <2>1 DEF NewestIsKept
      <4>1. CASE w = u
        BY <1>a, <2>1, <3>2, <4>1
      <4>2. CASE w # u
        BY <1>a, <2>1, <2>2, <3>2, <4>2 DEF FreshInv, NewestIsKept, Latest
      <4> QED BY <4>1, <4>2
    <3> QED BY <3>3, <3>4 DEF FreshInv
  <2>4. CASE ~HasRoom(u)
    <3>1. /\ pub' = [pub EXCEPT ![p] = "drop"] /\ turn' = [turn EXCEPT ![p] = u]
          /\ UNCHANGED channel
      BY <1>4, <2>4 DEF Offers, IfFull
    <3>2. TurnInv'
      BY <1>a, <2>1, <2>2, <3>1 DEF FreshInv, TurnInv, Visiting
    <3>3. NewestIsKept'
      BY <1>a, <2>1, <2>2, <3>1 DEF FreshInv, NewestIsKept, Latest
    <3> QED BY <3>2, <3>3 DEF FreshInv
  <2> QED BY <2>3, <2>4
<1>5. CASE Drops(p)
  <2>1. /\ pub[p] = "drop" /\ pub' = [pub EXCEPT ![p] = "resend"]
        /\ UNCHANGED <<frame, turn, shown, offered>>
    BY <1>5 DEF Drops
  <2>2. PICK u \in Subscriber :
          turn[p] = u /\ \A q \in Publisher : q # p => ~Visiting(q) /\ turn[q] = None
    BY <1>a, <2>1 DEF FreshInv, TurnInv, Visiting
  <2>3. \A w \in Subscriber \ {u} : channel'[w] = channel[w] /\ sub'[w] = sub[w]
    BY <1>5, <1>a, <2>2 DEF Drops
  <2>4. offered[u] # None => UNCHANGED sub /\ HasRoom(u)'
    <3> SUFFICES ASSUME offered[u] # None PROVE UNCHANGED sub /\ HasRoom(u)'
      OBVIOUS
    <3>1. sub[u] # "parked"
      BY <2>2 DEF FreshInv, TurnInv
    <3>2. channel[u] \in Seq(Frame) /\ Len(channel[u]) <= Capacity
      BY <2>2, Parts DEF Buffers
    <3>3. CASE channel[u] = <<>>
      <4>1. UNCHANGED <<channel, sub>>
        BY <1>5, <2>2, <3>3 DEF Drops
      <4> QED BY <3>3, <4>1 DEF HasRoom, Capacity
    <3>4. CASE channel[u] # <<>>
      <4>1. channel' = [channel EXCEPT ![u] = Tail(@)] /\ UNCHANGED sub
        BY <1>5, <2>2, <3>1, <3>4 DEF Drops
      <4>2. channel'[u] = Tail(channel[u])
        BY <1>a, <2>2, <4>1
      <4>3. Len(channel'[u]) = Len(channel[u]) - 1 /\ Len(channel[u]) \in Nat
        BY <3>2, <3>4, <4>2
      <4> QED BY <3>2, <4>1, <4>3 DEF HasRoom, Capacity
    <3> QED BY <3>3, <3>4
  <2>5. TurnInv'
    <3>1. \A w \in Subscriber : offered'[w] # None => sub'[w] = sub[w]
      BY <2>1, <2>3, <2>4
    <3>2. \A w \in Subscriber : offered'[w] # None => sub'[w] \in {"streaming", "leaving", "gone"}
      BY <2>1, <3>1 DEF FreshInv, TurnInv
    <3>3. \A q \in Publisher, w \in Subscriber :
            turn'[q] = w /\ offered'[w] # None =>
              offered'[w] = frame'[q] /\ (pub'[q] = "resend" => HasRoom(w)')
      BY <1>a, <2>1, <2>2, <2>4 DEF FreshInv, TurnInv
    <3>4. /\ \A q, r \in Publisher : Visiting(q)' /\ Visiting(r)' => q = r
          /\ \A q \in Publisher : turn'[q] # None <=> pub'[q] \in {"drop", "resend"}
      BY <1>a, <2>1, <2>2 DEF FreshInv, TurnInv, Visiting
    <3> QED BY <3>2, <3>3, <3>4 DEF TurnInv
  <2>6. NewestIsKept'
    BY <2>1, <2>2, <2>3 DEF FreshInv, NewestIsKept, Latest
  <2> QED BY <2>5, <2>6 DEF FreshInv
<1>6. CASE Resends(p)
  <2>1. /\ pub[p] = "resend" /\ pub' = [pub EXCEPT ![p] = "next"]
        /\ turn' = [turn EXCEPT ![p] = None]
        /\ UNCHANGED <<frame, sub, shown, offered>>
    BY <1>6 DEF Resends, IfStillFull, subscribers
  <2>2. PICK u \in Subscriber :
          turn[p] = u /\ \A q \in Publisher : q # p => ~Visiting(q) /\ turn[q] = None
    BY <1>a, <2>1 DEF FreshInv, TurnInv, Visiting
  <2>3. TurnInv'
    BY <1>a, <2>1, <2>2 DEF FreshInv, TurnInv, Visiting
  <2>4. NewestIsKept'
    <3> SUFFICES ASSUME NEW w \in Subscriber, sub[w] = "streaming", offered[w] # None
                 PROVE  Latest(w)' = offered[w]
      BY <2>1 DEF NewestIsKept
    <3>1. CASE w = u
      <4>1. HasRoom(u) /\ offered[u] = frame[p]
        BY <2>1, <2>2, <3>1 DEF FreshInv, TurnInv
      <4>2. Put(u, frame[p])
        BY <1>6, <2>2, <4>1 DEF Resends
      <4>3. frame[p] \in Frame
        BY <1>a
      <4>4. Latest(u)' = frame[p]
        BY <4>2, <4>3, LatestPut
      <4> QED BY <3>1, <4>1, <4>4 DEF Latest
    <3>2. CASE w # u
      <4>1. channel'[w] = channel[w]
        BY <1>6, <1>a, <2>2, <3>2 DEF Resends, Put
      <4>2. \A q \in Publisher : turn[q] # w
        BY <1>a, <2>2, <3>2
      <4>3. Latest(w) = offered[w]
        BY <4>2 DEF FreshInv, NewestIsKept
      <4> QED BY <2>1, <4>1, <4>3 DEF Latest
    <3> QED BY <3>1, <3>2
  <2> QED BY <2>3, <2>4 DEF FreshInv
<1> QED BY <1>1, <1>2, <1>3, <1>4, <1>5, <1>6 DEF Publishes

(* The handler of a stream writes frames in their order, and only empties   *)
(* its channel; its own first send comes before anything is owed to it.     *)
LEMMA FreshStream ==
  ASSUME TypeOK, FreshInv, NEW u \in Subscriber, Streams(u)
  PROVE  FreshInv'
<1>a. /\ sub \in [Subscriber -> SubscriberStep] /\ channel \in [Subscriber -> Seq(Frame)]
      /\ shown \in [Subscriber -> Frame \cup {None}]
  BY Parts DEF Buffers
<1>1. CASE Registers(u) \/ TakesFirst(u) \/ PingFails(u) \/ Unsubscribes(u)
  <2>1. /\ UNCHANGED <<pub, turn, frame, channel, shown, offered>>
        /\ \/ sub[u] \in {"off", "registered"}
           \/ sub'[u] \in {"leaving", "gone"}
        /\ \A w \in Subscriber \ {u} : sub'[w] = sub[w]
    BY <1>1, <1>a DEF Registers, TakesFirst, PingFails, Unsubscribes, publishers
  <2>2. sub[u] \in {"off", "registered"} => offered[u] = None
    BY DEF FreshInv, TurnInv
  <2>3. \A w \in Subscriber :
          sub'[w] = sub[w] \/ offered[w] = None \/ sub'[w] \in {"leaving", "gone"}
    BY <2>1, <2>2
  <2> QED BY <2>1, <2>3, FreshFrame
<1>2. CASE SendsFirst(u)
  <2>1. /\ UNCHANGED <<pub, turn, frame, shown, offered>>
        /\ \A w \in Subscriber \ {u} : sub'[w] = sub[w] /\ channel'[w] = channel[w]
    BY <1>2, <1>a DEF SendsFirst, Put, publishers
  <2>2. offered[u] = None
    BY <1>2 DEF SendsFirst, FreshInv, TurnInv
  <2>3. TurnInv'
    BY <2>1, <2>2 DEF FreshInv, TurnInv, Visiting, HasRoom
  <2>4. NewestIsKept'
    BY <2>1, <2>2 DEF FreshInv, NewestIsKept, Latest
  <2> QED BY <2>3, <2>4 DEF FreshInv
<1>3. CASE Writes(u)
  <2>1. /\ UNCHANGED <<pub, turn, frame, offered>>
        /\ sub[u] = "streaming" /\ channel[u] # <<>>
        /\ channel' = [channel EXCEPT ![u] = Tail(@)]
        /\ \A w \in Subscriber \ {u} : sub'[w] = sub[w] /\ channel'[w] = channel[w] /\ shown'[w] = shown[w]
        /\ sub'[u] \in {"streaming", "leaving"}
        /\ sub'[u] = "streaming" => shown' = [shown EXCEPT ![u] = Head(channel[u])]
    BY <1>3, <1>a DEF Writes, publishers
  <2>2. HasRoom(u) => HasRoom(u)'
    <3>1. channel'[u] = Tail(channel[u]) /\ channel[u] \in Seq(Frame)
      BY <1>a, <2>1
    <3>3. channel[u] # <<>>
      BY <2>1
    <3>2. Len(channel'[u]) = Len(channel[u]) - 1 /\ Len(channel[u]) \in Nat
      BY <3>1, <3>3
    <3> QED BY <3>2 DEF HasRoom, Capacity
  <2>3. TurnInv'
    BY <2>1, <2>2 DEF FreshInv, TurnInv, Visiting, HasRoom
  <2>4. sub'[u] = "streaming" => Latest(u)' = Latest(u)
    BY <2>1, LatestTake
  <2>5. NewestIsKept'
    BY <2>1, <2>4 DEF FreshInv, NewestIsKept, Latest
  <2> QED BY <2>3, <2>5 DEF FreshInv
<1> QED BY <1>1, <1>2, <1>3 DEF Streams

(* Dropping a stale frame always makes room for the new one: a frame that   *)
(* was offered to a stream is not lost to an older one (client.go:117-130). *)
THEOREM DroppingKeepsNewest == Spec => []NewestIsKept
<1>1. Init => FreshInv
  BY DEF Init, FreshInv, TurnInv, NewestIsKept, Visiting
<1>2. TypeOK /\ FreshInv /\ [Next]_vars => FreshInv'
  <2>1. ASSUME FreshInv, UNCHANGED vars PROVE FreshInv'
    BY <2>1, FreshFrame DEF vars, publishers, subscribers
  <2> QED BY <2>1, FreshPublisher, FreshStream DEF Next
<1>3. FreshInv => NewestIsKept
  BY DEF FreshInv
<1> QED BY <1>1, <1>2, <1>3, TypeCorrect, PTL DEF Spec
=============================================================================
