------------------------- MODULE TmsDispatch_proofs -------------------------
(***************************************************************************)
(* Safety of the dispatch of frames, for any cars, links, snapshots and    *)
(* number of dispatches that run at once.                                  *)
(***************************************************************************)
EXTENDS TmsDispatch, TmsPacket_proofs, SequenceTheorems

-----------------------------------------------------------------------------
(* Shapes: as much of the types as the proofs need *)

SaysOK(says) ==
  /\ says = [front |-> says.front, rear |-> says.rear, lap |-> says.lap,
             position |-> says.position, frontColor |-> says.frontColor,
             rearColor |-> says.rearColor, lapColor |-> says.lapColor]
  /\ says.frontColor \in Color /\ says.rearColor \in Color /\ says.lapColor \in Color

ConfigOK(config) ==
  /\ config = [selected |-> config.selected, realtime |-> config.realtime,
               autoAll |-> config.autoAll, testRear |-> config.testRear,
               primary |-> config.primary, test |-> config.test, shown |-> config.shown]
  /\ SaysOK(config.shown)

StateOK(state) ==
  /\ state = [live |-> state.live, fresh |-> state.fresh, links |-> state.links,
              server |-> state.server, config |-> state.config,
              sending |-> state.sending, logged |-> state.logged]
  /\ state.sending \in BOOLEAN
  /\ state.live \in 0 .. Len(Feed)
  /\ ConfigOK(state.config)

(* Posts are a sequence of frames with colors; in real time the lap is not *)
(* yellow.                                                                 *)
PostsOK(posts, kind) ==
  /\ \E S : posts \in Seq(S)
  /\ \A i \in DOMAIN posts :
       /\ SaysOK(posts[i].says)
       /\ kind = "realtime" => posts[i].says.lapColor # "yellow"

TaskOK(t) ==
  /\ t = [kind |-> t.kind, from |-> t.from, car |-> t.car, key |-> t.key,
          posts |-> t.posts, queue |-> t.queue]
  /\ PostsOK(t.posts, t.kind)

ScreenOK(shown) ==
  shown = Blank \/ (shown.bytes = encodeTmsPayload(shown.says) /\ SaysOK(shown.says))

(* What is remembered of the earlier leaderboard is the one rendered last, *)
(* and another one that is to be rendered is marked as fresh.              *)
MemoryOK ==
  /\ memory.previous = [c \in Car |-> EntryOf(Boards[view.live], c)]
  /\ ~latest.fresh => latest.live = view.live

Shapes ==
  /\ StateOK(latest) /\ StateOK(view) /\ ConfigOK(storage)
  /\ memory = [previous |-> memory.previous, byCar |-> memory.byCar, session |-> memory.session]
  /\ MemoryOK
  /\ DOMAIN lastAll = Car
  /\ task = [s \in Slot |-> task[s]]
  /\ \A s \in Slot : TaskOK(task[s])
  /\ screen = [l \in Link |-> screen[l]]
  /\ \A l \in Link : ScreenOK(screen[l])

-----------------------------------------------------------------------------
(* Frames *)

LEMMA ColorIsOne ==
  ASSUME NEW current, NEW previous, NEW carBest, NEW sessionBest
  PROVE  deriveMetricColor(current, previous, carBest, sessionBest) \in Color
BY DEF deriveMetricColor, Color

LEMMA ComputedOK ==
  ASSUME NEW entry, NEW board, NEW mem
  PROVE  SaysOK(computeTmsPacket(entry, board, mem))
BY ColorIsOne DEF SaysOK, computeTmsPacket

LEMMA TestPacketOK ==
  ASSUME NEW says, SaysOK(says), NEW car, NEW b
  PROVE  /\ SaysOK(TestPacket(says, car, b))
         /\ TestPacket(says, car, b).lapColor = says.lapColor
<1>1. CASE b
  <2>1. TestPacket(says, car, b) =
          [front |-> says.front, rear |-> car, lap |-> says.lap,
           position |-> says.position, frontColor |-> says.frontColor,
           rearColor |-> "yellow", lapColor |-> says.lapColor]
    BY <1>1 DEF TestPacket, SaysOK
  <2> QED BY <2>1 DEF SaysOK, Color
<1>2. CASE ~b
  BY <1>2 DEF TestPacket
<1> QED BY <1>1, <1>2

(* The posts of a dispatch say what it was given, or the same for a test. *)
LEMMA DispatchedSays ==
  ASSUME NEW state, NEW car, NEW key, NEW says
  PROVE  LET posts == dispatchTmsPayload(state, car, key, says)
             tested == TestPacket(says, car, state.config.testRear)
         IN  /\ \E S : posts \in Seq(S)
             /\ \A i \in DOMAIN posts : posts[i].says = says \/ posts[i].says = tested
<1>1. PICK tested : tested = TestPacket(says, car, state.config.testRear)
  OBVIOUS
<1>2. PICK t, u : t = PrimaryTarget(state, car) /\ u = TestTarget(state)
  OBVIOUS
<1> DEFINE P == {[link |-> l, car |-> car, key |-> key, says |-> x] :
                    l \in {t, u, EnvTest}, x \in {says, tested}}
<1>4. \A p \in P : p.says = says \/ p.says = tested
  OBVIOUS
<1>5. ASSUME NEW l \in {t, u}, NEW x \in {says, tested}
      PROVE  [i \in DOMAIN SendTargets(l) |->
                [link |-> SendTargets(l)[i], car |-> car, key |-> key, says |-> x]] \in Seq(P)
  <2>1. CASE SendTargets(l) = <<l>>
    BY <2>1
  <2>2. CASE SendTargets(l) = <<l, EnvTest>>
    BY <2>2
  <2> QED BY <2>1, <2>2 DEF SendTargets
<1>6. PICK a, b :
        /\ a = IF t = 0 THEN <<>>
               ELSE [i \in DOMAIN SendTargets(t) |->
                       [link |-> SendTargets(t)[i], car |-> car, key |-> key, says |-> says]]
        /\ b = IF u = 0 THEN <<>>
               ELSE [i \in DOMAIN SendTargets(u) |->
                       [link |-> SendTargets(u)[i], car |-> car, key |-> key, says |-> tested]]
  OBVIOUS
<1>7. a \in Seq(P) /\ b \in Seq(P)
  BY <1>5, <1>6
<1>8. a \o b \in Seq(P)
  BY <1>7
<1>9. dispatchTmsPayload(state, car, key, says) = a \o b
  BY <1>1, <1>2, <1>6 DEF dispatchTmsPayload
<1>10. \A i \in DOMAIN (a \o b) : (a \o b)[i] \in P
  BY <1>8, ElementOfSeq
<1> QED BY <1>1, <1>4, <1>8, <1>9, <1>10

LEMMA DispatchOK ==
  ASSUME NEW kind, NEW state, NEW car, NEW key, NEW says, NEW queue, SaysOK(says),
         kind = "realtime" => says.lapColor # "yellow"
  PROVE  /\ TaskOK(Dispatch(kind, state, car, key, says, queue))
         /\ Dispatch(kind, state, car, key, says, queue).kind = kind
         /\ Dispatch(kind, state, car, key, says, queue).from = state
         /\ Dispatch(kind, state, car, key, says, queue).car = car
         /\ Dispatch(kind, state, car, key, says, queue).key = key
<1>1. PICK posts : posts = dispatchTmsPayload(state, car, key, says)
  OBVIOUS
<1>2. PICK tested : tested = TestPacket(says, car, state.config.testRear)
  OBVIOUS
<1>3. SaysOK(tested) /\ tested.lapColor = says.lapColor
  BY <1>2, TestPacketOK
<1>4. /\ \E S : posts \in Seq(S)
      /\ \A i \in DOMAIN posts : posts[i].says = says \/ posts[i].says = tested
  BY <1>1, <1>2, DispatchedSays
<1>5. PostsOK(posts, kind)
  BY <1>3, <1>4 DEF PostsOK
<1>6. PICK d : d = Dispatch(kind, state, car, key, says, queue)
  OBVIOUS
<1>7. d = [kind |-> kind, from |-> state, car |-> car, key |-> key,
           posts |-> posts, queue |-> queue]
  BY <1>1, <1>6 DEF Dispatch
<1> QED BY <1>5, <1>6, <1>7 DEF TaskOK

LEMMA RoundOK ==
  ASSUME NEW state, NEW mem, NEW places
  PROVE  /\ TaskOK(Round(state, mem, places))
         /\ Round(state, mem, places).kind = "all"
         /\ Round(state, mem, places).from = state
         /\ Round(state, mem, places).car = NextEntry(state, places).car
         /\ Round(state, mem, places).key = Key(NextEntry(state, places))
<1>1. SaysOK(PacketFor(state, NextEntry(state, places), mem))
  BY ComputedOK DEF PacketFor
<1> QED BY <1>1, DispatchOK DEF Round

LEMMA NoTaskOK == TaskOK(NoTask) /\ NoTask.kind = "none"
<1>1. <<>> \in Seq({}) /\ DOMAIN <<>> = {}
  OBVIOUS
<1>2. PostsOK(<<>>, "none")
  BY <1>1 DEF PostsOK
<1> QED BY <1>2 DEF TaskOK, NoTask

(* The frame of a car that has lapped, when what is remembered is the same *)
(* leaderboard.                                                            *)
LEMMA LapNotYellow ==
  ASSUME NEW i \in 0 .. Len(Feed), NEW car, NEW mem,
         \A c \in Car : mem.previous[c] = EntryOf(Boards[i], c),
         EntryOf(Boards[i], car).passage > 0
  PROVE  computeTmsPacket(EntryOf(Boards[i], car), Boards[i], mem).lapColor # "yellow"
<1>1. PICK board \in Seq(EntryType) : board = Boards[i]
  BY TmsAssumption DEF TmsAssumption
<1>2. PICK entry : entry = EntryOf(board, car)
  OBVIOUS
<1>3. entry # NoEntry
  BY <1>1, <1>2 DEF NoEntry
<1>4. entry.car = car
  BY <1>2, <1>3, FoundEntry
<1>5. entry \in EntryType
  <2>1. IndexOfCar(board, car) # 0 => IndexOfCar(board, car) \in DOMAIN board
    BY FoundIndex
  <2> QED BY <1>2, <1>3, <2>1, ElementOfSeq DEF EntryOf
<1>6. car \in Car
  BY <1>4, <1>5 DEF EntryType
<1>7. mem.previous[entry.car] = entry
  BY <1>1, <1>2, <1>4, <1>6
<1>8. PICK lap : lap = resolveLapMetric(entry)
  OBVIOUS
<1>9. lap \in Int
  BY <1>5, <1>8 DEF resolveLapMetric, AtLeastZero, EntryType
<1>10. \A a, b : deriveMetricColor(lap, lap, a, b) # "yellow"
  BY <1>9 DEF deriveMetricColor
<1>11. computeTmsPacket(entry, board, mem).lapColor
         = deriveMetricColor(lap, lap, mem.byCar["lap"][entry.car], mem.session["lap"])
  BY <1>3, <1>7, <1>8 DEF computeTmsPacket, MetricsOf, Metrics
<1> QED BY <1>1, <1>2, <1>10, <1>11

-----------------------------------------------------------------------------
(* A render *)

LEMMA ConfigKept ==
  ASSUME NEW config, ConfigOK(config)
  PROVE  /\ \A server : ConfigOK(FilledIn(config, server))
         /\ \A board : ConfigOK(FirstSelected(config, board))
         /\ \A state, entry, refs : ConfigOK(ShownFor(state, config, entry, refs))
<1>1. ASSUME NEW server PROVE ConfigOK(FilledIn(config, server))
  <2>1. PICK p, t :
          /\ p = IF config.primary = 0 THEN server.primary ELSE config.primary
          /\ t = IF config.test = 0 THEN server.test ELSE config.test
    OBVIOUS
  <2>2. FilledIn(config, server) = [config EXCEPT !.primary = p, !.test = t]
    BY <2>1 DEF FilledIn, ConfigOK
  <2>3. FilledIn(config, server) =
          [selected |-> config.selected, realtime |-> config.realtime,
           autoAll |-> config.autoAll, testRear |-> config.testRear,
           primary |-> p, test |-> t, shown |-> config.shown]
    BY <2>2 DEF ConfigOK
  <2> QED BY <2>3 DEF ConfigOK
<1>2. ASSUME NEW board PROVE ConfigOK(FirstSelected(config, board))
  <2>1. CASE config.selected = 0 /\ board # <<>>
    <3>1. FirstSelected(config, board) =
            [selected |-> board[1].car, realtime |-> config.realtime,
             autoAll |-> config.autoAll, testRear |-> config.testRear,
             primary |-> config.primary, test |-> config.test, shown |-> config.shown]
      BY <2>1 DEF FirstSelected, ConfigOK
    <3> QED BY <3>1 DEF ConfigOK
  <2>2. CASE ~(config.selected = 0 /\ board # <<>>)
    BY <2>2 DEF FirstSelected
  <2> QED BY <2>1, <2>2
<1>3. ASSUME NEW state, NEW entry, NEW refs
      PROVE  ConfigOK(ShownFor(state, config, entry, refs))
  <2>1. CASE entry = NoEntry
    BY <2>1 DEF ShownFor
  <2>2. CASE entry # NoEntry
    <3>1. PICK says : says = PacketFor(state, entry, refs) /\ SaysOK(says)
      BY ComputedOK DEF PacketFor
    <3>2. ShownFor(state, config, entry, refs) =
            [selected |-> config.selected, realtime |-> config.realtime,
             autoAll |-> config.autoAll, testRear |-> config.testRear,
             primary |-> config.primary, test |-> config.test, shown |-> says]
      BY <2>2, <3>1 DEF ShownFor, ConfigOK
    <3> QED BY <3>1, <3>2 DEF ConfigOK
  <2> QED BY <2>1, <2>2
<1> QED BY <1>1, <1>2, <1>3

(* The dispatches that are started take slots that are idle, and leave the *)
(* others alone.                                                           *)
LEMMA StartsTakes ==
  ASSUME NEW started, Starts(started)
  PROVE  /\ \A s \in Slot : task'[s] = task[s] \/ (Idle(s) /\ task'[s] \in started)
         /\ \A d \in started : \E s \in Slot : Idle(s) /\ task'[s] = d
         /\ (\A d, e \in started : d = e) =>
              \A r, s \in Slot : task'[r] # task[r] /\ task'[s] # task[s] => r = s
         /\ task' = [s \in Slot |-> task'[s]]
<1>1. PICK slot \in [started -> {s \in Slot : Idle(s)}] :
        /\ \A d, e \in started : slot[d] = slot[e] => d = e
        /\ task' = [s \in Slot |->
                      IF s \in {slot[d] : d \in started}
                      THEN CHOOSE d \in started : slot[d] = s
                      ELSE task[s]]
  BY DEF Starts
<1>2. \A d \in started : slot[d] \in Slot /\ Idle(slot[d])
  BY <1>1
<1>3. \A d \in started : task'[slot[d]] = d
  <2> TAKE d \in started
  <2>1. PICK e \in started :
          slot[e] = slot[d] /\ e = CHOOSE i \in started : slot[i] = slot[d]
    OBVIOUS
  <2>2. e = d
    BY <1>1, <2>1
  <2>3. slot[d] \in Slot
    BY <1>2
  <2> QED BY <1>1, <2>1, <2>2, <2>3
<1>4. \A s \in Slot : (\A d \in started : slot[d] # s) => task'[s] = task[s]
  BY <1>1
<1>5. task' = [s \in Slot |-> task'[s]]
  BY <1>1
<1> QED BY <1>2, <1>3, <1>4, <1>5

(* What a render does, with the choices of its effects named: whether one  *)
(* in real time is started, which, and whether one for all cars is.        *)
RenderDoes(state, clicked, realtime, all, rt, config) ==
  LET entry == EntryOf(Boards[state.live], state.config.selected)
  IN  /\ realtime \in BOOLEAN /\ all \in BOOLEAN
      /\ realtime => ~state.sending /\ entry.passage > 0
      /\ all <=> WantsAll(state)
      /\ rt = Dispatch("realtime", state, state.config.selected, Key(entry),
                       PacketFor(state, entry, memory'), {})
      /\ Starts(({clicked} \ {NoTask})
                  \cup (IF realtime THEN {rt} ELSE {})
                  \cup (IF all THEN {Round(state, memory', PendingEntries(state))} ELSE {}))
      /\ ConfigOK(state.config) => ConfigOK(config)
      /\ latest' = [state EXCEPT !.fresh = FALSE, !.logged = realtime \/ all,
                                 !.config = config, !.sending = @ \/ realtime \/ all]
      /\ view' = [state EXCEPT !.fresh = FALSE, !.logged = FALSE]
      /\ crossed' = (crossed \/ (realtime /\ all) \/ (clicked # NoTask /\ Running))
      /\ touched' = (touched \/ realtime \/ clicked # NoTask)
      /\ lastAll' = IF all THEN MarkSent(state, PendingEntries(state)) ELSE lastAll
      /\ sentTo' = IF all THEN MarkLink(state, PendingEntries(state)) ELSE sentTo

LEMMA RenderParts ==
  ASSUME NEW state, NEW clicked, Render(state, clicked)
  PROVE  \E realtime, all, rt, config : RenderDoes(state, clicked, realtime, all, rt, config)
<1> DEFINE entry    == EntryOf(Boards[state.live], state.config.selected)
           selects  == state.config.selected # view.config.selected
           rearNew  == state.config.testRear # view.config.testRear
           sentKey  == IF selects THEN NoKey ELSE lastKey
           realtime == WantsRealtime(state, sentKey)
           all      == WantsAll(state)
           filled   == IF state.server # view.server THEN FilledIn(state.config, state.server)
                       ELSE state.config
           first    == FirstSelected(filled, Boards[state.live])
           config   == IF state.fresh \/ rearNew \/ selects
                       THEN ShownFor(state, first, entry, memory') ELSE first
           rt       == Dispatch("realtime", state, state.config.selected, Key(entry),
                                PacketFor(state, entry, memory'), {})
<1>1. realtime \in BOOLEAN /\ all \in BOOLEAN
  BY DEF WantsRealtime, WantsAll
<1>2. realtime => ~state.sending /\ entry.passage > 0
  BY DEF WantsRealtime
<1>3. all <=> WantsAll(state)
  OBVIOUS
<1>4. ConfigOK(state.config) => ConfigOK(config)
  BY ConfigKept
<1>5. Starts(({clicked} \ {NoTask})
               \cup (IF realtime THEN {rt} ELSE {})
               \cup (IF all THEN {Round(state, memory', PendingEntries(state))} ELSE {}))
  BY DEF Render
<1>6. latest' = [state EXCEPT !.fresh = FALSE, !.logged = realtime \/ all,
                             !.config = config, !.sending = @ \/ realtime \/ all]
  BY DEF Render
<1>7. view' = [state EXCEPT !.fresh = FALSE, !.logged = FALSE]
  BY DEF Render
<1>8. crossed' = (crossed \/ (realtime /\ all) \/ (clicked # NoTask /\ Running))
  BY DEF Render
<1>9. /\ lastAll' = IF all THEN MarkSent(state, PendingEntries(state)) ELSE lastAll
      /\ sentTo' = IF all THEN MarkLink(state, PendingEntries(state)) ELSE sentTo
  BY DEF Render
<1>11. touched' = (touched \/ realtime \/ clicked # NoTask)
  BY DEF Render
<1> HIDE DEF realtime, all, config, rt, filled, first
<1>10. rt = Dispatch("realtime", state, state.config.selected, Key(entry),
                     PacketFor(state, entry, memory'), {})
  BY DEF rt
<1> QED BY <1>1, <1>2, <1>3, <1>4, <1>5, <1>6, <1>7, <1>8, <1>9, <1>10, <1>11 DEF RenderDoes

-----------------------------------------------------------------------------
(* The shapes are kept *)

LEMMA SettingsOK ==
  /\ \A config \in Stored : ConfigOK(config)
  /\ \A says \in Edited : SaysOK(says)
<1>1. Stored \subseteq Config /\ Edited \subseteq Says
  BY TmsAssumption DEF TmsAssumption
<1>2. \A says \in Says : SaysOK(says)
  BY DEF Says, SaysOK
<1>3. ASSUME NEW config \in Config PROVE ConfigOK(config)
  <2>1. config.shown \in Says
    BY DEF Config
  <2>2. config = [selected |-> config.selected, realtime |-> config.realtime,
                  autoAll |-> config.autoAll, testRear |-> config.testRear,
                  primary |-> config.primary, test |-> config.test, shown |-> config.shown]
    BY DEF Config
  <2> QED BY <1>2, <2>1, <2>2 DEF ConfigOK
<1> QED BY <1>1, <1>2, <1>3

LEMMA ZeroBoard == Boards[0] = <<>> /\ 0 \in 0 .. Len(Feed)
BY TmsAssumption DEF TmsAssumption, Boards

LEMMA MountedOK ==
  ASSUME NEW config, ConfigOK(config)
  PROVE  StateOK(Mounted(config)) /\ Mounted(config).live = 0
<1>1. 0 \in 0 .. Len(Feed)
  BY ZeroBoard
<1> QED BY <1>1 DEF Mounted, StateOK

(* Nothing is remembered of the leaderboard that is empty. *)
LEMMA NothingRemembered ==
  NoMemory.previous = [c \in Car |-> EntryOf(Boards[0], c)]
<1>1. \A c : EntryOf(<<>>, c) = NoEntry
  <2>1. DOMAIN <<>> = {}
    OBVIOUS
  <2> QED BY <2>1 DEF EntryOf, IndexOfCar
<1> QED BY <1>1, ZeroBoard DEF NoMemory

LEMMA MemoryKept ==
  ASSUME Shapes, NEW state, NEW clicked, Render(state, clicked), StateOK(state),
         state.live = latest.live, state.fresh = latest.fresh
  PROVE  /\ memory' = [previous |-> memory'.previous, byCar |-> memory'.byCar,
                       session |-> memory'.session]
         /\ memory'.previous = [c \in Car |-> EntryOf(Boards[state.live], c)]
<1>1. \/ memory' = Remembered(memory, state.live)
      \/ ~state.fresh /\ memory' = memory
  BY DEF Render
<1>2. CASE ~state.fresh /\ memory' = memory
  BY <1>2 DEF Shapes, MemoryOK
<1>3. CASE memory' = Remembered(memory, state.live) /\ Boards[state.live] = <<>>
  <2>1. memory' = [memory EXCEPT !.previous = NoMemory.previous]
    BY <1>3 DEF Remembered
  <2>2. memory' = [previous |-> NoMemory.previous, byCar |-> memory.byCar,
                   session |-> memory.session]
    BY <2>1 DEF Shapes
  <2>3. Boards[state.live] = Boards[0]
    BY <1>3, ZeroBoard
  <2> QED BY <2>2, <2>3, NothingRemembered
<1>4. CASE memory' = Remembered(memory, state.live) /\ Boards[state.live] # <<>>
  BY <1>4 DEF Remembered
<1> QED BY <1>1, <1>2, <1>3, <1>4

LEMMA RenderKeeps ==
  ASSUME Shapes, NEW state, NEW clicked, Render(state, clicked), StateOK(state),
         state.live = latest.live, state.fresh = latest.fresh,
         clicked = NoTask \/ TaskOK(clicked), UNCHANGED screen
  PROVE  Shapes'
<1>1. PICK realtime, all, rt, config : RenderDoes(state, clicked, realtime, all, rt, config)
  BY RenderParts
<1>2. /\ memory' = [previous |-> memory'.previous, byCar |-> memory'.byCar,
                    session |-> memory'.session]
      /\ memory'.previous = [c \in Car |-> EntryOf(Boards[state.live], c)]
  BY MemoryKept
<1>3. latest' = [live |-> state.live, fresh |-> FALSE, links |-> state.links,
                 server |-> state.server, config |-> config,
                 sending |-> state.sending \/ realtime \/ all, logged |-> realtime \/ all]
  BY <1>1 DEF StateOK, RenderDoes
<1>4. view' = [live |-> state.live, fresh |-> FALSE, links |-> state.links,
               server |-> state.server, config |-> state.config,
               sending |-> state.sending, logged |-> FALSE]
  BY <1>1 DEF StateOK, RenderDoes
<1>5. StateOK(latest')
  BY <1>1, <1>3 DEF StateOK, RenderDoes
<1>6. StateOK(view')
  BY <1>4 DEF StateOK
<1>7. ConfigOK(storage')
  <2>1. storage' = state.config \/ storage' = storage
    BY DEF Render
  <2> QED BY <2>1 DEF Shapes, StateOK
<1>8. latest'.live = view'.live /\ view'.live = state.live
  BY <1>3, <1>4
<1>9. DOMAIN lastAll' = Car
  BY <1>1 DEF Shapes, MarkSent, RenderDoes
<1>10. realtime => TaskOK(rt)
  <2> SUFFICES ASSUME realtime PROVE TaskOK(rt)
    OBVIOUS
  <2>1. PICK entry : entry = EntryOf(Boards[state.live], state.config.selected)
    OBVIOUS
  <2>2. PICK says : says = PacketFor(state, entry, memory')
    OBVIOUS
  <2>3. says = computeTmsPacket(entry, Boards[state.live], memory')
    BY <2>2 DEF PacketFor
  <2>4. entry.passage > 0
    BY <1>1, <2>1 DEF RenderDoes
  <2>5. state.live \in 0 .. Len(Feed)
    BY DEF StateOK
  <2>6. says.lapColor # "yellow"
    <3>1. PICK mem, i, car : mem = memory' /\ i = state.live /\ car = state.config.selected
      OBVIOUS
    <3>2. \A c \in Car : mem.previous[c] = EntryOf(Boards[i], c)
      BY <1>2, <3>1
    <3>3. i \in 0 .. Len(Feed) /\ EntryOf(Boards[i], car).passage > 0
      BY <2>1, <2>4, <2>5, <3>1
    <3>4. computeTmsPacket(EntryOf(Boards[i], car), Boards[i], mem).lapColor # "yellow"
      BY <3>2, <3>3, LapNotYellow
    <3> QED BY <2>1, <2>3, <3>1, <3>4
  <2>7. SaysOK(says)
    BY <2>3, ComputedOK
  <2>8. rt = Dispatch("realtime", state, state.config.selected, Key(entry), says, {})
    BY <1>1, <2>1, <2>2 DEF RenderDoes
  <2> QED BY <2>6, <2>7, <2>8, DispatchOK
<1>11. PICK round : round = Round(state, memory', PendingEntries(state)) /\ TaskOK(round)
  BY RoundOK
<1>12. PICK started :
         /\ started = ({clicked} \ {NoTask}) \cup (IF realtime THEN {rt} ELSE {})
                         \cup (IF all THEN {round} ELSE {})
         /\ Starts(started)
  BY <1>1, <1>11 DEF RenderDoes
<1>13. \A d \in started : TaskOK(d)
  BY <1>10, <1>11, <1>12
<1>14. /\ task' = [s \in Slot |-> task'[s]]
       /\ \A s \in Slot : TaskOK(task'[s])
  BY <1>12, <1>13, StartsTakes DEF Shapes
<1>15. /\ screen' = [l \in Link |-> screen'[l]]
       /\ \A l \in Link : ScreenOK(screen'[l])
  BY DEF Shapes
<1> QED BY <1>2, <1>5, <1>6, <1>7, <1>8, <1>9, <1>14, <1>15 DEF Shapes, MemoryOK

LEMMA InitShapes == Init => Shapes
<1> SUFFICES ASSUME Init PROVE Shapes
  OBVIOUS
<1>1. PICK config \in Stored : view = Mounted(config)
  BY DEF Init
<1>2. ConfigOK(config) /\ view.config = config
  BY <1>1, SettingsOK DEF Mounted
<1>3. StateOK(view) /\ StateOK(latest) /\ ConfigOK(storage) /\ view.live = 0 /\ latest.live = 0
  BY <1>1, <1>2, MountedOK DEF Init
<1>4. memory = [previous |-> memory.previous, byCar |-> memory.byCar, session |-> memory.session]
  BY DEF Init, NoMemory
<1>5. MemoryOK
  BY <1>3, NothingRemembered DEF Init, MemoryOK
<1>6. \A s \in Slot : TaskOK(task[s])
  BY NoTaskOK DEF Init
<1>7. \A l \in Link : ScreenOK(screen[l])
  BY DEF Init, ScreenOK
<1> QED BY <1>3, <1>4, <1>5, <1>6, <1>7 DEF Init, Shapes

(* An answer, and the ends of a dispatch, change some fields of the state. *)
LEMMA LiveEdited ==
  ASSUME NEW state, StateOK(state), NEW x, x \in 0 .. Len(Feed), NEW e,
         e = [state EXCEPT !.live = x, !.fresh = TRUE]
  PROVE  StateOK(e) /\ e.fresh
<1>1. e = [live |-> x, fresh |-> TRUE, links |-> state.links, server |-> state.server,
          config |-> state.config, sending |-> state.sending, logged |-> state.logged]
  BY DEF StateOK
<1> QED BY <1>1 DEF StateOK

LEMMA LinksEdited ==
  ASSUME NEW state, StateOK(state), NEW x, NEW e,
         e = [state EXCEPT !.links = x]
  PROVE  StateOK(e) /\ e.live = state.live /\ e.fresh = state.fresh
<1>1. e = [live |-> state.live, fresh |-> state.fresh, links |-> x, server |-> state.server,
          config |-> state.config, sending |-> state.sending, logged |-> state.logged]
  BY DEF StateOK
<1> QED BY <1>1 DEF StateOK

LEMMA ServerEdited ==
  ASSUME NEW state, StateOK(state), NEW x, NEW e,
         e = [state EXCEPT !.server = x]
  PROVE  StateOK(e) /\ e.live = state.live /\ e.fresh = state.fresh
<1>1. e = [live |-> state.live, fresh |-> state.fresh, links |-> state.links, server |-> x,
          config |-> state.config, sending |-> state.sending, logged |-> state.logged]
  BY DEF StateOK
<1> QED BY <1>1 DEF StateOK

LEMMA ConfigEdited ==
  ASSUME NEW state, StateOK(state), NEW x, ConfigOK(x), NEW e,
         e = [state EXCEPT !.config = x]
  PROVE  StateOK(e) /\ e.live = state.live /\ e.fresh = state.fresh /\ e.sending = state.sending
<1>1. e = [live |-> state.live, fresh |-> state.fresh, links |-> state.links, server |-> state.server,
          config |-> x, sending |-> state.sending, logged |-> state.logged]
  BY DEF StateOK
<1> QED BY <1>1 DEF StateOK

LEMMA SendingEdited ==
  ASSUME NEW state, StateOK(state), NEW e,
         e = [state EXCEPT !.sending = TRUE]
  PROVE  StateOK(e) /\ e.live = state.live /\ e.fresh = state.fresh /\ e.sending
<1>1. e = [live |-> state.live, fresh |-> state.fresh, links |-> state.links, server |-> state.server,
          config |-> state.config, sending |-> TRUE, logged |-> state.logged]
  BY DEF StateOK
<1> QED BY <1>1 DEF StateOK

LEMMA EndEdited ==
  ASSUME NEW state, StateOK(state), NEW e,
         e = [state EXCEPT !.sending = FALSE, !.logged = TRUE]
  PROVE  StateOK(e) /\ e.live = state.live /\ e.fresh = state.fresh /\ ~e.sending
<1>1. e = [live |-> state.live, fresh |-> state.fresh, links |-> state.links, server |-> state.server,
          config |-> state.config, sending |-> FALSE, logged |-> TRUE]
  BY DEF StateOK
<1> QED BY <1>1 DEF StateOK

LEMMA LogEdited ==
  ASSUME NEW state, StateOK(state), NEW e,
         e = [state EXCEPT !.logged = TRUE]
  PROVE  StateOK(e) /\ e.live = state.live /\ e.fresh = state.fresh /\ e.sending = state.sending
<1>1. e = [live |-> state.live, fresh |-> state.fresh, links |-> state.links, server |-> state.server,
          config |-> state.config, sending |-> state.sending, logged |-> TRUE]
  BY DEF StateOK
<1> QED BY <1>1 DEF StateOK

(* The settings a handler of the user gives. *)
LEMMA EditedConfig ==
  ASSUME NEW config, ConfigOK(config)
  PROVE  /\ \A x : ConfigOK([config EXCEPT !.selected = x])
         /\ \A x : ConfigOK([config EXCEPT !.realtime = x])
         /\ \A x : ConfigOK([config EXCEPT !.autoAll = x])
         /\ \A x : ConfigOK([config EXCEPT !.testRear = x])
         /\ \A x : ConfigOK([config EXCEPT !.primary = x])
         /\ \A x : ConfigOK([config EXCEPT !.test = x])
         /\ \A x : SaysOK(x) => ConfigOK([config EXCEPT !.shown = x])
<1>1. ASSUME NEW x PROVE ConfigOK([config EXCEPT !.selected = x])
  BY DEF ConfigOK
<1>2. ASSUME NEW x PROVE ConfigOK([config EXCEPT !.realtime = x])
  BY DEF ConfigOK
<1>3. ASSUME NEW x PROVE ConfigOK([config EXCEPT !.autoAll = x])
  BY DEF ConfigOK
<1>4. ASSUME NEW x PROVE ConfigOK([config EXCEPT !.testRear = x])
  BY DEF ConfigOK
<1>5. ASSUME NEW x PROVE ConfigOK([config EXCEPT !.primary = x])
  BY DEF ConfigOK
<1>6. ASSUME NEW x PROVE ConfigOK([config EXCEPT !.test = x])
  BY DEF ConfigOK
<1>7. ASSUME NEW x, SaysOK(x) PROVE ConfigOK([config EXCEPT !.shown = x])
  BY <1>7 DEF ConfigOK
<1> QED BY <1>1, <1>2, <1>3, <1>4, <1>5, <1>6, <1>7

(* The handlers that change the settings render them. *)
Updates == SelectCar \/ ToggleRealtime \/ ToggleAutoAll \/ ToggleTestRear \/ TypeIds \/ EditFrame

LEMMA UpdatesRender ==
  ASSUME Shapes, Updates
  PROVE  \E config : ConfigOK(config) /\ updateTmsState(config)
<1>1. ConfigOK(latest.config)
  BY DEF Shapes, StateOK
<1> QED BY <1>1, EditedConfig, SettingsOK
       DEF Updates, SelectCar, ToggleRealtime, ToggleAutoAll, ToggleTestRear, TypeIds, EditFrame

LEMMA AnswerKeeps ==
  ASSUME Shapes, NEW state, StateOK(state), Answer(state),
         state.fresh \/ (state.live = latest.live /\ state.fresh = latest.fresh)
  PROVE  Shapes'
<1>1. /\ latest' = state /\ view' = view /\ storage' = storage /\ memory' = memory
      /\ lastAll' = lastAll /\ task' = task /\ screen' = screen
  BY DEF Answer, Event
<1>2. MemoryOK'
  BY <1>1 DEF Shapes, MemoryOK
<1> QED BY <1>1, <1>2 DEF Shapes

LEMMA NetworkKeeps == Shapes /\ Network => Shapes'
<1> SUFFICES ASSUME Shapes, Network PROVE Shapes'
  OBVIOUS
<1>1. StateOK(latest)
  BY DEF Shapes
<1>2. CASE ReceiveLiveTiming
  <2>1. PICK i \in 0 .. Len(Feed) : Answer([latest EXCEPT !.live = i, !.fresh = TRUE])
    BY <1>2 DEF ReceiveLiveTiming
  <2>2. PICK state : state = [latest EXCEPT !.live = i, !.fresh = TRUE]
    OBVIOUS
  <2>3. StateOK(state) /\ state.fresh /\ Answer(state)
    BY <1>1, <2>1, <2>2, LiveEdited
  <2> QED BY <2>3, AnswerKeeps
<1>3. CASE ReceiveRaceLinks
  <2>1. PICK x : Answer([latest EXCEPT !.links = x])
    BY <1>3 DEF ReceiveRaceLinks
  <2>2. PICK state : state = [latest EXCEPT !.links = x]
    OBVIOUS
  <2>3. /\ StateOK(state) /\ state.live = latest.live /\ state.fresh = latest.fresh
        /\ Answer(state)
    BY <1>1, <2>1, <2>2, LinksEdited
  <2> QED BY <2>3, AnswerKeeps
<1>4. CASE ReceiveTmsConfig
  <2>1. PICK x : Answer([latest EXCEPT !.server = x])
    BY <1>4 DEF ReceiveTmsConfig
  <2>2. PICK state : state = [latest EXCEPT !.server = x]
    OBVIOUS
  <2>3. /\ StateOK(state) /\ state.live = latest.live /\ state.fresh = latest.fresh
        /\ Answer(state)
    BY <1>1, <2>1, <2>2, ServerEdited
  <2> QED BY <2>3, AnswerKeeps
<1> QED BY <1>2, <1>3, <1>4 DEF Network

LEMMA UpdatesKeep == Shapes /\ Updates => Shapes'
<1> SUFFICES ASSUME Shapes, Updates PROVE Shapes'
  OBVIOUS
<1>1. StateOK(latest)
  BY DEF Shapes
<1>2. PICK config : ConfigOK(config) /\ updateTmsState(config)
  BY UpdatesRender
<1>3. PICK state : state = [latest EXCEPT !.config = config]
  OBVIOUS
<1>4. StateOK(state) /\ state.live = latest.live /\ state.fresh = latest.fresh
  BY <1>1, <1>2, <1>3, ConfigEdited
<1>5. Render(state, NoTask) /\ UNCHANGED screen
  BY <1>2, <1>3 DEF updateTmsState, Event
<1> QED BY <1>4, <1>5, RenderKeeps

LEMMA ManualKeeps == Shapes /\ handleSendTmsManual => Shapes'
<1> SUFFICES ASSUME Shapes, handleSendTmsManual PROVE Shapes'
  OBVIOUS
<1>1. StateOK(latest) /\ SaysOK(view.config.shown)
  BY DEF Shapes, StateOK, ConfigOK
<1>2. PICK state : state = [latest EXCEPT !.sending = TRUE]
  OBVIOUS
<1>3. PICK clicked :
        clicked = Dispatch("manual", view, view.config.selected, NoKey, view.config.shown, {})
  OBVIOUS
<1>4. StateOK(state) /\ state.live = latest.live /\ state.fresh = latest.fresh
  BY <1>1, <1>2, SendingEdited
<1>5. TaskOK(clicked)
  BY <1>1, <1>3, DispatchOK
<1>6. Render(state, clicked) /\ UNCHANGED screen
  BY <1>2, <1>3 DEF handleSendTmsManual, Event
<1> QED BY <1>4, <1>5, <1>6, RenderKeeps

LEMMA RenderLaterKeeps == Shapes /\ RenderLater => Shapes'
<1> SUFFICES ASSUME Shapes, RenderLater PROVE Shapes'
  OBVIOUS
<1>1. StateOK(latest)
  BY DEF Shapes
<1>2. Render(latest, NoTask) /\ UNCHANGED screen
  BY DEF RenderLater
<1> QED BY <1>1, <1>2, RenderKeeps

LEMMA DisplaysKeeps ==
  ASSUME Shapes, NEW post, SaysOK(post.says), Displays(post)
  PROVE  /\ screen' = [l \in Link |-> screen'[l]]
         /\ \A l \in Link : ScreenOK(screen'[l])
<1>1. PICK frame :
        frame = [car |-> post.car, key |-> post.key, says |-> post.says,
                 bytes |-> encodeTmsPayload(post.says)]
  OBVIOUS
<1>2. ScreenOK(frame)
  BY <1>1 DEF ScreenOK
<1>3. screen' = [screen EXCEPT ![post.link] = frame]
  BY <1>1 DEF Displays
<1> QED BY <1>2, <1>3 DEF Shapes

(* The end of a dispatch. *)
LEMMA EndsKeeps ==
  ASSUME Shapes, NEW s \in Slot, Ends(s), Untouched, lastAll' = lastAll,
         screen' = [l \in Link |-> screen'[l]],
         \A l \in Link : ScreenOK(screen'[l])
  PROVE  Shapes'
<1>1. /\ view' = view /\ storage' = storage /\ memory' = memory
  BY DEF Untouched
<1>2. /\ StateOK(latest') /\ latest'.live = latest.live /\ latest'.fresh = latest.fresh
  BY EndEdited DEF Shapes, Ends
<1>3. /\ task' = [r \in Slot |-> task'[r]]
      /\ \A r \in Slot : TaskOK(task'[r])
  BY NoTaskOK DEF Shapes, Ends
<1>4. MemoryOK'
  BY <1>1, <1>2 DEF Shapes, MemoryOK
<1> QED BY <1>1, <1>2, <1>3, <1>4 DEF Shapes

(* The first of the posts of a dispatch, and the others. *)
LEMMA HeadAndTail ==
  ASSUME NEW posts, NEW kind, PostsOK(posts, kind), posts # <<>>
  PROVE  SaysOK(Head(posts).says) /\ PostsOK(Tail(posts), kind)
<1>1. PICK S : posts \in Seq(S)
  BY DEF PostsOK
<1>2. /\ Len(posts) \in Nat /\ Len(posts) > 0 /\ DOMAIN posts = 1 .. Len(posts)
      /\ Head(posts) = posts[1]
  BY <1>1
<1>3. SaysOK(Head(posts).says)
  BY <1>2 DEF PostsOK
<1>4. /\ Tail(posts) \in Seq(S) /\ Len(Tail(posts)) = Len(posts) - 1
      /\ \A i \in 1 .. Len(Tail(posts)) : Tail(posts)[i] = posts[i + 1]
  BY <1>1, HeadTailProperties
<1>5. \A i \in DOMAIN Tail(posts) : i + 1 \in DOMAIN posts /\ Tail(posts)[i] = posts[i + 1]
  BY <1>2, <1>4
<1> QED BY <1>3, <1>4, <1>5 DEF PostsOK

LEMMA PostAcceptedKeeps ==
  ASSUME Shapes, NEW s \in Slot, PostAccepted(s)
  PROVE  Shapes'
<1>1. TaskOK(task[s])
  BY DEF Shapes
<1>2. PICK posts : posts = task[s].posts
  OBVIOUS
<1>3. PostsOK(posts, task[s].kind) /\ posts # <<>>
  BY <1>1, <1>2 DEF TaskOK, PostAccepted
<1>4. SaysOK(Head(posts).says) /\ PostsOK(Tail(posts), task[s].kind)
  BY <1>3, HeadAndTail
<1>5. /\ screen' = [l \in Link |-> screen'[l]]
      /\ \A l \in Link : ScreenOK(screen'[l])
  BY <1>2, <1>4, DisplaysKeeps DEF PostAccepted
<1>6. PICK t : t = [task[s] EXCEPT !.posts = Tail(posts)]
  OBVIOUS
<1>7. t = [kind |-> task[s].kind, from |-> task[s].from, car |-> task[s].car,
           key |-> task[s].key, posts |-> Tail(posts), queue |-> task[s].queue]
  BY <1>1, <1>6 DEF TaskOK
<1>8. TaskOK(t)
  BY <1>4, <1>7 DEF TaskOK
<1>9. task' = [task EXCEPT ![s] = t]
  BY <1>2, <1>6 DEF PostAccepted
<1>10. /\ task' = [r \in Slot |-> task'[r]]
       /\ \A r \in Slot : TaskOK(task'[r])
  BY <1>8, <1>9 DEF Shapes
<1>11. /\ view' = view /\ storage' = storage /\ memory' = memory /\ latest' = latest
       /\ lastAll' = lastAll
  BY DEF PostAccepted, Untouched
<1>12. MemoryOK'
  BY <1>11 DEF Shapes, MemoryOK
<1> QED BY <1>5, <1>10, <1>11, <1>12 DEF Shapes

LEMMA PostFailsKeeps ==
  ASSUME Shapes, NEW s \in Slot, PostFails(s)
  PROVE  Shapes'
<1>1. TaskOK(task[s])
  BY DEF Shapes
<1>2. PICK posts : posts = task[s].posts
  OBVIOUS
<1>3. PostsOK(posts, task[s].kind) /\ posts # <<>>
  BY <1>1, <1>2 DEF TaskOK, PostFails
<1>4. SaysOK(Head(posts).says)
  BY <1>3, HeadAndTail
<1>5. /\ screen' = [l \in Link |-> screen'[l]]
      /\ \A l \in Link : ScreenOK(screen'[l])
  <2>1. CASE UNCHANGED screen
    BY <2>1 DEF Shapes
  <2>2. CASE Displays(Head(posts))
    BY <1>4, <2>2, DisplaysKeeps
  <2> QED BY <1>2, <2>1, <2>2 DEF PostFails
<1> QED BY <1>5, EndsKeeps DEF PostFails

LEMMA NextCarKeeps ==
  ASSUME Shapes, NEW s \in Slot, NextCar(s)
  PROVE  Shapes'
<1>1. PICK round : round = Round(task[s].from, memory, task[s].queue) /\ TaskOK(round)
  BY RoundOK
<1>2. task' = [task EXCEPT ![s] = round]
  BY <1>1 DEF NextCar
<1>3. /\ task' = [r \in Slot |-> task'[r]]
      /\ \A r \in Slot : TaskOK(task'[r])
  BY <1>1, <1>2 DEF Shapes
<1>4. /\ StateOK(latest') /\ latest'.live = latest.live /\ latest'.fresh = latest.fresh
  BY LogEdited DEF Shapes, NextCar
<1>5. /\ view' = view /\ storage' = storage /\ memory' = memory /\ screen' = screen
      /\ lastAll' = MarkSent(task[s].from, task[s].queue)
  BY DEF NextCar, Untouched
<1>6. DOMAIN lastAll' = Car
  BY <1>5 DEF Shapes, MarkSent
<1>7. MemoryOK'
  BY <1>4, <1>5 DEF Shapes, MemoryOK
<1> QED BY <1>3, <1>4, <1>5, <1>6, <1>7 DEF Shapes

LEMMA RestartKeeps == Shapes /\ Restart => Shapes'
<1> SUFFICES ASSUME Shapes, Restart PROVE Shapes'
  OBVIOUS
<1>1. StateOK(Mounted(storage)) /\ Mounted(storage).live = 0
  BY MountedOK DEF Shapes
<1>2. /\ StateOK(view') /\ StateOK(latest') /\ view'.live = 0 /\ latest'.live = 0
      /\ storage' = storage /\ screen' = screen
  BY <1>1 DEF Restart
<1>3. memory' = [previous |-> memory'.previous, byCar |-> memory'.byCar,
                 session |-> memory'.session]
  BY DEF Restart, NoMemory
<1>4. MemoryOK'
  BY <1>2, NothingRemembered DEF Restart, MemoryOK
<1>5. /\ task' = [r \in Slot |-> task'[r]]
      /\ \A r \in Slot : TaskOK(task'[r])
  BY NoTaskOK DEF Restart
<1>6. DOMAIN lastAll' = Car
  BY DEF Restart
<1> QED BY <1>2, <1>3, <1>4, <1>5, <1>6 DEF Shapes

LEMMA ShapesNext == Shapes /\ [Next]_vars => Shapes'
<1> SUFFICES ASSUME Shapes, [Next]_vars PROVE Shapes'
  OBVIOUS
<1>1. CASE User
  BY <1>1, UpdatesKeep, ManualKeeps DEF User, Updates
<1>2. CASE Network
  BY <1>2, NetworkKeeps
<1>3. CASE RenderLater
  BY <1>3, RenderLaterKeeps
<1>4. CASE Async
  <2>1. PICK s \in Slot : PostAccepted(s) \/ PostFails(s) \/ NextCar(s) \/ Finish(s)
    BY <1>4 DEF Async
  <2>2. CASE PostAccepted(s)
    BY <2>2, PostAcceptedKeeps
  <2>3. CASE PostFails(s)
    BY <2>3, PostFailsKeeps
  <2>4. CASE NextCar(s)
    BY <2>4, NextCarKeeps
  <2>5. CASE Finish(s)
    <3>1. /\ Ends(s) /\ Untouched /\ lastAll' = lastAll
          /\ screen' = [l \in Link |-> screen'[l]]
          /\ \A l \in Link : ScreenOK(screen'[l])
      BY <2>5 DEF Shapes, Finish
    <3> QED BY <3>1, EndsKeeps
  <2> QED BY <2>1, <2>2, <2>3, <2>4, <2>5
<1>5. CASE Restart
  BY <1>5, RestartKeeps
<1>6. CASE UNCHANGED vars
  BY <1>6 DEF Shapes, MemoryOK, vars
<1> QED BY <1>1, <1>2, <1>3, <1>4, <1>5, <1>6 DEF Next

(* Whatever the cars, the links, the snapshots and the number of           *)
(* dispatches, the lap of a frame sent in real time (App.tsx:624) is never *)
(* yellow: the refs hold the leaderboard the frame is computed from.       *)
THEOREM RealtimeSafety == Spec => []RealtimeLapIsNeverYellow
<1>1. Shapes => RealtimeLapIsNeverYellow
  BY DEF Shapes, TaskOK, PostsOK, RealtimeLapIsNeverYellow
<1> QED BY <1>1, InitShapes, ShapesNext, PTL DEF Spec

(* Whatever the numbers, as long as they fit, a display reads in the bytes *)
(* of utils/tms.ts:100 what the page meant.                                *)
THEOREM FramesSafety == Spec => []FramesRead
<1>1. Shapes => FramesRead
  <2> SUFFICES ASSUME Shapes, NEW l \in Link, screen[l] # Blank, FitsTheFrame(screen[l].says)
               PROVE  Reads(screen[l].bytes, screen[l].says)
    BY DEF FramesRead
  <2>1. screen[l].bytes = encodeTmsPayload(screen[l].says) /\ SaysOK(screen[l].says)
    BY DEF Shapes, ScreenOK
  <2>2. /\ screen[l].says.frontColor \in Color /\ screen[l].says.rearColor \in Color
        /\ screen[l].says.lapColor \in Color
    BY <2>1 DEF SaysOK
  <2> QED BY <2>1, <2>2, RoundTrip
<1> QED BY <1>1, InitShapes, ShapesNext, PTL DEF Spec

-----------------------------------------------------------------------------
(* One dispatch at a time *)

(* A slot that is idle has nothing to post, so that only a dispatch that   *)
(* runs can fail.                                                          *)
OneOK ==
  /\ OneDispatchAtATime
  /\ \A s \in Slot : Idle(s) => task[s].posts = <<>>

LEMMA OneInRender ==
  ASSUME Shapes, OneOK, NEW state, NEW clicked, Render(state, clicked), StateOK(state),
         \/ clicked = NoTask /\ state.sending = latest.sending
         \/ clicked.kind = "manual" /\ state.sending
  PROVE  OneOK'
<1>1. PICK realtime, all, rt, config : RenderDoes(state, clicked, realtime, all, rt, config)
  BY RenderParts
<1>2. PICK round : round = Round(state, memory', PendingEntries(state)) /\ round.kind = "all"
  BY RoundOK
<1>3. rt.kind = "realtime"
  BY <1>1 DEF RenderDoes, Dispatch
<1>4. PICK started :
         /\ started = ({clicked} \ {NoTask}) \cup (IF realtime THEN {rt} ELSE {})
                         \cup (IF all THEN {round} ELSE {})
         /\ Starts(started)
  BY <1>1, <1>2 DEF RenderDoes
<1>5. \A d \in started : d.kind # "none"
  BY <1>2, <1>3, <1>4 DEF NoTask
<1>6. /\ \A s \in Slot : task'[s] = task[s] \/ (Idle(s) /\ task'[s] \in started)
      /\ (\A d, e \in started : d = e) =>
           \A r, s \in Slot : task'[r] # task[r] /\ task'[s] # task[s] => r = s
  BY <1>4, StartsTakes
<1>7. \A s \in Slot : (Idle(s) => task[s].posts = <<>>)' 
  BY <1>5, <1>6 DEF OneOK, Idle
<1>8. latest'.sending = (state.sending \/ realtime \/ all)
  BY <1>1 DEF RenderDoes, StateOK
<1>9. ASSUME ~crossed'
      PROVE  /\ Running' => latest'.sending
             /\ \A r, s \in Slot : (~Idle(r) /\ ~Idle(s) => r = s)'
  <2>1. ~crossed /\ ~(realtime /\ all) /\ ~(clicked # NoTask /\ Running)
    BY <1>1, <1>9 DEF RenderDoes
  <2>2. /\ Running => latest.sending
        /\ \A r, s \in Slot : ~Idle(r) /\ ~Idle(s) => r = s
    BY <2>1 DEF OneOK, OneDispatchAtATime
  <2>3. /\ realtime => ~state.sending
        /\ all => ~state.sending
        /\ realtime \in BOOLEAN /\ all \in BOOLEAN
    BY <1>1 DEF RenderDoes, WantsAll
  <2>4. CASE started = {}
    <3>1. \A s \in Slot : task'[s] = task[s]
      BY <1>6, <2>4
    <3>2. latest.sending => state.sending
      OBVIOUS
    <3> QED BY <1>8, <2>2, <3>1, <3>2 DEF Running, Idle
  <2>5. CASE started # {}
    <3>1. ~Running
      BY <1>4, <2>1, <2>2, <2>3, <2>5
    <3>2. \A d, e \in started : d = e
      BY <1>4, <2>1, <2>3 DEF NoTask
    <3>3. latest'.sending
      BY <1>4, <1>8, <2>5
    <3>4. \A s \in Slot : ~(task'[s].kind = "none") => task'[s] # task[s]
      BY <3>1 DEF Running, Idle
    <3> QED BY <1>6, <3>2, <3>3, <3>4 DEF Idle
  <2> QED BY <2>4, <2>5
<1> QED BY <1>7, <1>9 DEF OneOK, OneDispatchAtATime

(* The end of the one dispatch that runs. *)
LEMMA OneAtEnd ==
  ASSUME Shapes, OneOK, NEW s \in Slot, ~Idle(s), Ends(s), crossed' = crossed
  PROVE  OneOK'
<1>1. task'[s] = NoTask /\ \A r \in Slot \ {s} : task'[r] = task[r]
  BY DEF Shapes, Ends
<1>2. \A r \in Slot : (Idle(r) => task[r].posts = <<>>)'
  BY <1>1 DEF OneOK, Idle, NoTask
<1>3. ASSUME ~crossed'
      PROVE  \A r \in Slot : task'[r].kind = "none"
  <2>1. \A r \in Slot \ {s} : Idle(r)
    BY <1>3 DEF OneOK, OneDispatchAtATime
  <2> QED BY <1>1, <2>1 DEF Idle, NoTask
<1> QED BY <1>2, <1>3 DEF OneOK, OneDispatchAtATime, Running, Idle

LEMMA OneNext == Shapes /\ OneOK /\ [Next]_vars => OneOK'
<1> SUFFICES ASSUME Shapes, OneOK, [Next]_vars PROVE OneOK'
  OBVIOUS
<1>0. StateOK(latest)
  BY DEF Shapes
<1>1. CASE Updates
  <2>1. PICK config : ConfigOK(config) /\ updateTmsState(config)
    BY <1>1, UpdatesRender
  <2>2. PICK state : state = [latest EXCEPT !.config = config]
    OBVIOUS
  <2>3. StateOK(state) /\ state.sending = latest.sending
    BY <1>0, <2>1, <2>2, ConfigEdited
  <2>4. Render(state, NoTask)
    BY <2>1, <2>2 DEF updateTmsState
  <2> QED BY <2>3, <2>4, OneInRender
<1>2. CASE handleSendTmsManual
  <2>1. PICK state : state = [latest EXCEPT !.sending = TRUE]
    OBVIOUS
  <2>2. PICK clicked :
          clicked = Dispatch("manual", view, view.config.selected, NoKey,
                             view.config.shown, {})
    OBVIOUS
  <2>3. StateOK(state) /\ state.sending
    BY <1>0, <2>1, SendingEdited
  <2>4. Render(state, clicked) /\ clicked.kind = "manual"
    BY <1>2, <2>1, <2>2 DEF handleSendTmsManual, Dispatch
  <2> QED BY <2>3, <2>4, OneInRender
<1>3. CASE Network
  <2>1. /\ task' = task /\ crossed' = crossed
        /\ \/ \E x : latest' = [latest EXCEPT !.live = x, !.fresh = TRUE]
           \/ \E x : latest' = [latest EXCEPT !.links = x]
           \/ \E x : latest' = [latest EXCEPT !.server = x]
    BY <1>3 DEF Network, ReceiveLiveTiming, ReceiveRaceLinks, ReceiveTmsConfig, Answer
  <2>2. latest'.sending = latest.sending
    BY <1>0, <2>1 DEF StateOK
  <2> QED BY <2>1, <2>2 DEF OneOK, OneDispatchAtATime, Running, Idle
<1>4. CASE RenderLater
  BY <1>0, <1>4, OneInRender DEF RenderLater
<1>5. CASE Async
  <2>1. PICK s \in Slot : PostAccepted(s) \/ PostFails(s) \/ NextCar(s) \/ Finish(s)
    BY <1>5 DEF Async
  <2>2. TaskOK(task[s]) /\ crossed' = crossed
    BY <2>1 DEF Shapes, PostAccepted, PostFails, NextCar, Finish, Untouched
  <2>3. ~Idle(s)
    BY <2>1 DEF OneOK, PostAccepted, PostFails, NextCar, Finish
  <2>4. CASE PostAccepted(s)
    <3>1. latest' = latest
      BY <2>4 DEF PostAccepted
    <3>2. /\ \A r \in Slot \ {s} : task'[r] = task[r]
          /\ task'[s].kind = task[s].kind
      BY <2>2, <2>4 DEF Shapes, PostAccepted, TaskOK
    <3>3. \A r \in Slot : (Idle(r) => task[r].posts = <<>>)' /\ (Idle(r)' <=> Idle(r))
      BY <2>3, <3>2 DEF OneOK, Idle
    <3> QED BY <2>2, <3>1, <3>3 DEF OneOK, OneDispatchAtATime, Running
  <2>5. CASE PostFails(s) \/ Finish(s)
    BY <2>2, <2>3, <2>5, OneAtEnd DEF PostFails, Finish
  <2>6. CASE NextCar(s)
    <3>1. PICK round :
            round = Round(task[s].from, memory, task[s].queue) /\ round.kind = "all"
      BY RoundOK
    <3>2. task' = [task EXCEPT ![s] = round]
      BY <2>6, <3>1 DEF NextCar
    <3>3. task'[s] = round /\ \A r \in Slot \ {s} : task'[r] = task[r]
      BY <3>2 DEF Shapes
    <3>4. latest'.sending = latest.sending
      BY <1>0, <2>6 DEF NextCar, StateOK
    <3>5. \A r \in Slot : (Idle(r) => task[r].posts = <<>>)' /\ (Idle(r)' <=> Idle(r))
      BY <2>3, <3>1, <3>3 DEF OneOK, Idle
    <3> QED BY <2>2, <3>4, <3>5 DEF OneOK, OneDispatchAtATime, Running
  <2> QED BY <2>1, <2>4, <2>5, <2>6
<1>6. CASE Restart
  BY <1>6 DEF Restart, OneOK, OneDispatchAtATime, Running, Idle, NoTask
<1>7. CASE UNCHANGED vars
  BY <1>7 DEF OneOK, OneDispatchAtATime, Running, Idle, vars, history
<1> QED BY <1>1, <1>2, <1>3, <1>4, <1>5, <1>6, <1>7 DEF Next, User, Updates

(* Whatever the number of slots, the sending flag (App.tsx:683) keeps the  *)
(* dispatches of the three effects and of the button apart, unless two are *)
(* started before it is rendered.                                          *)
THEOREM DispatchSafety == Spec => []OneDispatchAtATime
<1>1. Init => OneOK
  BY DEF Init, OneOK, OneDispatchAtATime, Running, Idle, NoTask
<1>2. OneOK => OneDispatchAtATime
  BY DEF OneOK
<1> QED BY <1>1, <1>2, InitShapes, ShapesNext, OneNext, PTL DEF Spec

-----------------------------------------------------------------------------
(* The cars the loop remembers *)

(* A car whose stored key is the same in two states stays accounted for,   *)
(* if what was sent or lost still is, and the dispatch of a car goes on.   *)
LEMMA KeptAccounted ==
  ASSUME StoredKeyIsAccountedFor, NEW c \in Car, lastAll'[c] = lastAll[c],
         done \cup lost \subseteq done' \cup lost',
         \A s \in Slot : task[s].kind = "all" =>
           \/ <<task[s].car, task[s].key>> \in done' \cup lost'
           \/ /\ task'[s].kind = "all"
              /\ task'[s].car = task[s].car /\ task'[s].key = task[s].key
  PROVE  lastAll'[c] # NoKey =>
           \/ <<c, lastAll'[c]>> \in done' \cup lost'
           \/ \E s \in Slot : /\ task'[s].kind = "all" /\ task'[s].car = c
                              /\ task'[s].key = lastAll'[c]
BY DEF StoredKeyIsAccountedFor

LEMMA AccountedInRender ==
  ASSUME Shapes, StoredKeyIsAccountedFor, NEW state, NEW clicked, Render(state, clicked),
         done' = done, lost' = lost
  PROVE  StoredKeyIsAccountedFor'
<1>1. PICK realtime, all, rt, config : RenderDoes(state, clicked, realtime, all, rt, config)
  BY RenderParts
<1>2. PICK places, entry : places = PendingEntries(state) /\ entry = NextEntry(state, places)
  OBVIOUS
<1>3. PICK round : /\ round = Round(state, memory', places) /\ round.kind = "all"
                   /\ round.car = entry.car /\ round.key = Key(entry)
  BY <1>2, RoundOK
<1>4. PICK started :
         /\ started = ({clicked} \ {NoTask}) \cup (IF realtime THEN {rt} ELSE {})
                         \cup (IF all THEN {round} ELSE {})
         /\ Starts(started)
  BY <1>1, <1>2, <1>3 DEF RenderDoes
<1>5. /\ \A s \in Slot : task'[s] = task[s] \/ (Idle(s) /\ task'[s] \in started)
      /\ \A d \in started : \E s \in Slot : Idle(s) /\ task'[s] = d
  BY <1>4, StartsTakes
<1>6. \A s \in Slot : task[s].kind = "all" => task'[s] = task[s]
  BY <1>5 DEF Idle
<1>7. lastAll' = IF all THEN MarkSent(state, places) ELSE lastAll
  BY <1>1, <1>2 DEF RenderDoes
<1> SUFFICES ASSUME NEW c \in Car, lastAll'[c] # NoKey
             PROVE  \/ <<c, lastAll'[c]>> \in done' \cup lost'
                    \/ \E s \in Slot : /\ task'[s].kind = "all" /\ task'[s].car = c
                                       /\ task'[s].key = lastAll'[c]
  BY DEF StoredKeyIsAccountedFor
<1>8. CASE lastAll'[c] = lastAll[c]
  BY <1>6, <1>8, KeptAccounted
<1>9. CASE lastAll'[c] # lastAll[c]
  <2>1. all /\ c = entry.car /\ lastAll'[c] = Key(entry)
    BY <1>2, <1>7, <1>9 DEF Shapes, MarkSent
  <2>2. PICK s \in Slot : task'[s] = round
    BY <1>4, <1>5, <2>1
  <2> QED BY <1>3, <2>1, <2>2
<1> QED BY <1>8, <1>9

LEMMA AccountedNext ==
  Shapes /\ StoredKeyIsAccountedFor /\ [Next]_vars => StoredKeyIsAccountedFor'
<1> SUFFICES ASSUME Shapes, StoredKeyIsAccountedFor, [Next]_vars
             PROVE  StoredKeyIsAccountedFor'
  OBVIOUS
<1>1. CASE User \/ RenderLater
  <2>1. done' = done /\ lost' = lost /\ \E state, clicked : Render(state, clicked)
    BY <1>1 DEF User, RenderLater, SelectCar, ToggleRealtime, ToggleAutoAll, ToggleTestRear,
               TypeIds, EditFrame, handleSendTmsManual, updateTmsState, Event
  <2> QED BY <2>1, AccountedInRender
<1>2. CASE Network \/ UNCHANGED vars
  <2>1. UNCHANGED <<task, lastAll, done, lost>>
    BY <1>2 DEF Network, ReceiveLiveTiming, ReceiveRaceLinks, ReceiveTmsConfig, Answer,
                Event, vars, history
  <2> QED BY <2>1 DEF StoredKeyIsAccountedFor
<1>3. CASE Async
  <2>1. PICK s \in Slot : PostAccepted(s) \/ PostFails(s) \/ NextCar(s) \/ Finish(s)
    BY <1>3 DEF Async
  <2>2. TaskOK(task[s]) /\ done \cup lost \subseteq done' \cup lost'
    BY <2>1 DEF Shapes, PostAccepted, PostFails, NextCar, Finish
  <2>3. \A r \in Slot \ {s} : task'[r] = task[r]
    BY <2>1 DEF Shapes, PostAccepted, PostFails, NextCar, Finish, Ends
  <2>4. task[s].kind = "all" =>
          \/ <<task[s].car, task[s].key>> \in done' \cup lost'
          \/ /\ task'[s].kind = "all"
             /\ task'[s].car = task[s].car /\ task'[s].key = task[s].key
    <3>1. CASE PostAccepted(s)
      BY <2>2, <3>1 DEF Shapes, TaskOK, PostAccepted
    <3>2. CASE PostFails(s) \/ NextCar(s) \/ Finish(s)
      BY <3>2 DEF PostFails, NextCar, Finish, Ended
    <3> QED BY <2>1, <3>1, <3>2
  <2>5. \A r \in Slot : task[r].kind = "all" =>
          \/ <<task[r].car, task[r].key>> \in done' \cup lost'
          \/ /\ task'[r].kind = "all"
             /\ task'[r].car = task[r].car /\ task'[r].key = task[r].key
    BY <2>3, <2>4
  <2> SUFFICES ASSUME NEW c \in Car, lastAll'[c] # NoKey
               PROVE  \/ <<c, lastAll'[c]>> \in done' \cup lost'
                      \/ \E r \in Slot : /\ task'[r].kind = "all" /\ task'[r].car = c
                                         /\ task'[r].key = lastAll'[c]
    BY DEF StoredKeyIsAccountedFor
  <2>6. CASE lastAll'[c] = lastAll[c]
    BY <2>2, <2>5, <2>6, KeptAccounted
  <2>7. CASE lastAll'[c] # lastAll[c]
    <3>1. NextCar(s)
      BY <2>1, <2>7 DEF PostAccepted, PostFails, Finish
    <3>2. PICK from, places, entry :
            from = task[s].from /\ places = task[s].queue /\ entry = NextEntry(from, places)
      OBVIOUS
    <3>3. PICK round : /\ round = Round(from, memory, places) /\ round.kind = "all"
                       /\ round.car = entry.car /\ round.key = Key(entry)
      BY <3>2, RoundOK
    <3>4. task' = [task EXCEPT ![s] = round] /\ lastAll' = MarkSent(from, places)
      BY <3>1, <3>2, <3>3 DEF NextCar
    <3>5. task'[s] = round
      BY <3>4 DEF Shapes
    <3>6. c = entry.car /\ lastAll'[c] = Key(entry)
      BY <2>7, <3>2, <3>4 DEF Shapes, MarkSent
    <3> QED BY <3>3, <3>5, <3>6
  <2> QED BY <2>6, <2>7
<1>4. CASE Restart
  BY <1>4 DEF Restart, StoredKeyIsAccountedFor
<1> QED BY <1>1, <1>2, <1>3, <1>4 DEF Next

(* Whatever the cars and the failures, a car the loop over all cars        *)
(* (App.tsx:683) remembers as sent has been sent, is being sent, or was    *)
(* lost in a dispatch that failed while it was its turn.                   *)
THEOREM StoredKeySafety == Spec => []StoredKeyIsAccountedFor
<1>1. Init => StoredKeyIsAccountedFor
  BY DEF Init, StoredKeyIsAccountedFor
<1> QED BY <1>1, InitShapes, ShapesNext, AccountedNext, PTL DEF Spec

-----------------------------------------------------------------------------
(* The page at rest *)

(* The flag is on only if a dispatch runs, and a render that starts none   *)
(* has left no car out; a dispatch that ends asks for a render.            *)
RestOK ==
  /\ latest.sending => Running
  /\ ~view.logged
  /\ ~Running /\ ~latest.logged /\ ~view.sending /\ view.config.autoAll => ~HasPending(view)

LEMMA NothingPending == \A state : state.live = 0 => ~HasPending(state)
BY ZeroBoard DEF HasPending, PendingEntries

LEMMA RestInRender ==
  ASSUME Shapes, RestOK, NEW state, NEW clicked, Render(state, clicked), StateOK(state),
         \/ clicked = NoTask /\ state.sending = latest.sending
         \/ clicked.kind = "manual" /\ state.sending
  PROVE  RestOK'
<1>1. PICK realtime, all, rt, config : RenderDoes(state, clicked, realtime, all, rt, config)
  BY RenderParts
<1>2. PICK round : round = Round(state, memory', PendingEntries(state)) /\ round.kind = "all"
  BY RoundOK
<1>3. rt.kind = "realtime"
  BY <1>1 DEF RenderDoes, Dispatch
<1>4. PICK started :
         /\ started = ({clicked} \ {NoTask}) \cup (IF realtime THEN {rt} ELSE {})
                         \cup (IF all THEN {round} ELSE {})
         /\ Starts(started)
  BY <1>1, <1>2 DEF RenderDoes
<1>5. \A d \in started : d.kind # "none"
  BY <1>2, <1>3, <1>4 DEF NoTask
<1>6. /\ \A s \in Slot : task'[s] = task[s] \/ Idle(s)
      /\ \A d \in started : \E s \in Slot : task'[s] = d
  BY <1>4, StartsTakes
<1>7. /\ latest'.sending <=> state.sending \/ realtime \/ all
      /\ latest'.logged <=> realtime \/ all
      /\ view'.sending = state.sending /\ ~view'.logged
      /\ view'.config = state.config /\ view'.live = state.live
  BY <1>1 DEF RenderDoes, StateOK
<1>8. Running \/ started # {} => Running'
  BY <1>5, <1>6 DEF Running, Idle
<1>9. latest'.sending => Running'
  BY <1>4, <1>7, <1>8 DEF RestOK, NoTask
<1>10. ASSUME ~latest'.logged, ~view'.sending, view'.config.autoAll
       PROVE  ~HasPending(view)'
  <2>1. ~all /\ ~state.sending /\ state.config.autoAll
    BY <1>7, <1>10
  <2>2. ~HasPending(state) /\ lastAll' = lastAll
    BY <1>1, <2>1 DEF RenderDoes, WantsAll
  <2> QED BY <1>7, <2>2 DEF HasPending, PendingEntries, IsPending
<1> QED BY <1>7, <1>9, <1>10 DEF RestOK

LEMMA RestNext == Shapes /\ RestOK /\ [Next]_vars => RestOK'
<1> SUFFICES ASSUME Shapes, RestOK, [Next]_vars PROVE RestOK'
  OBVIOUS
<1>0. StateOK(latest)
  BY DEF Shapes
<1>1. CASE Updates
  <2>1. PICK config : ConfigOK(config) /\ updateTmsState(config)
    BY <1>1, UpdatesRender
  <2>2. PICK state : state = [latest EXCEPT !.config = config]
    OBVIOUS
  <2>3. StateOK(state) /\ state.sending = latest.sending
    BY <1>0, <2>1, <2>2, ConfigEdited
  <2>4. Render(state, NoTask)
    BY <2>1, <2>2 DEF updateTmsState
  <2> QED BY <2>3, <2>4, RestInRender
<1>2. CASE handleSendTmsManual
  <2>1. PICK state : state = [latest EXCEPT !.sending = TRUE]
    OBVIOUS
  <2>2. PICK clicked :
          clicked = Dispatch("manual", view, view.config.selected, NoKey,
                             view.config.shown, {})
    OBVIOUS
  <2>3. StateOK(state) /\ state.sending
    BY <1>0, <2>1, SendingEdited
  <2>4. Render(state, clicked) /\ clicked.kind = "manual"
    BY <1>2, <2>1, <2>2 DEF handleSendTmsManual, Dispatch
  <2> QED BY <2>3, <2>4, RestInRender
<1>3. CASE Network
  <2>1. /\ UNCHANGED <<task, view, lastAll>>
        /\ \/ \E x : latest' = [latest EXCEPT !.live = x, !.fresh = TRUE]
           \/ \E x : latest' = [latest EXCEPT !.links = x]
           \/ \E x : latest' = [latest EXCEPT !.server = x]
    BY <1>3 DEF Network, ReceiveLiveTiming, ReceiveRaceLinks, ReceiveTmsConfig, Answer
  <2>2. latest'.sending = latest.sending /\ latest'.logged = latest.logged
    BY <1>0, <2>1 DEF StateOK
  <2> QED BY <2>1, <2>2 DEF RestOK, Running, Idle, HasPending, PendingEntries, IsPending
<1>4. CASE RenderLater
  BY <1>0, <1>4, RestInRender DEF RenderLater
<1>5. CASE Async
  <2>1. PICK s \in Slot : PostAccepted(s) \/ PostFails(s) \/ NextCar(s) \/ Finish(s)
    BY <1>5 DEF Async
  <2>2. TaskOK(task[s]) /\ view' = view
    BY <2>1 DEF Shapes, PostAccepted, PostFails, NextCar, Finish, Untouched
  <2>3. CASE PostAccepted(s)
    <3>1. UNCHANGED <<latest, lastAll>>
      BY <2>3 DEF PostAccepted
    <3>2. /\ \A r \in Slot \ {s} : task'[r] = task[r]
          /\ task'[s].kind = task[s].kind
      BY <2>2, <2>3 DEF Shapes, PostAccepted, TaskOK
    <3>3. Running' <=> Running
      BY <3>2 DEF Running, Idle
    <3> QED BY <2>2, <3>1, <3>3 DEF RestOK, HasPending, PendingEntries, IsPending
  <2>4. CASE PostFails(s) \/ Finish(s)
    <3>1. latest'.logged /\ ~latest'.sending
      BY <1>0, <2>4 DEF PostFails, Finish, Ends, StateOK
    <3> QED BY <2>2, <3>1 DEF RestOK
  <2>5. CASE NextCar(s)
    <3>1. PICK round :
            round = Round(task[s].from, memory, task[s].queue) /\ round.kind = "all"
      BY RoundOK
    <3>2. task' = [task EXCEPT ![s] = round]
      BY <2>5, <3>1 DEF NextCar
    <3>3. task'[s] = round
      BY <3>2 DEF Shapes
    <3>4. Running'
      BY <3>1, <3>3 DEF Running, Idle
    <3> QED BY <2>2, <3>4 DEF RestOK
  <2> QED BY <2>1, <2>3, <2>4, <2>5
<1>6. CASE Restart
  <2>1. /\ ~latest'.sending /\ ~view'.logged /\ view'.live = 0
    BY <1>6 DEF Restart, Mounted
  <2>2. ~HasPending(view)'
    <3>1. \A state : state.live = 0 => PendingEntries(state)' = {}
      BY ZeroBoard DEF PendingEntries
    <3> QED BY <2>1, <3>1 DEF HasPending
  <2> QED BY <2>1, <2>2 DEF RestOK
<1>7. CASE UNCHANGED vars
  BY <1>7 DEF RestOK, Running, Idle, HasPending, PendingEntries, IsPending, vars
<1> QED BY <1>1, <1>2, <1>3, <1>4, <1>5, <1>6, <1>7 DEF Next, User, Updates

(* Whatever fails and in whatever order it ends, the page (App.tsx:564,    *)
(* 636, 724) is ready to send when it is at rest, and has left no car's    *)
(* times out while it sends for all of them.                               *)
THEOREM RestSafety == Spec => []RestMeansDone
<1>1. Init => RestOK
  <2> SUFFICES ASSUME Init PROVE RestOK
    OBVIOUS
  <2>1. /\ ~latest.sending /\ ~view.logged /\ view.live = 0
    BY DEF Init, Mounted
  <2>2. ~HasPending(view)
    BY <2>1, NothingPending
  <2> QED BY <2>1, <2>2 DEF RestOK
<1>2. RestOK => RestMeansDone
  BY DEF RestOK, RestMeansDone
<1> QED BY <1>1, <1>2, InitShapes, ShapesNext, RestNext, PTL DEF Spec

-----------------------------------------------------------------------------
(* Types *)

LEMMA LeastPlace ==
  ASSUME NEW places \in SUBSET Nat, places # {}
  PROVE  Min(places) \in places /\ \A i \in places : Min(places) <= i
BY LeastOf DEF Min

LEMMA BoardTyped ==
  ASSUME NEW i \in 0 .. Len(Feed)
  PROVE  /\ Boards[i] \in Seq(EntryType)
         /\ \A k \in DOMAIN Boards[i] : Boards[i][k] \in EntryType
         /\ \A car : EntryOf(Boards[i], car) \in EntryType \cup {NoEntry}
         /\ \A car : EntryOf(Boards[i], car) # NoEntry =>
              EntryOf(Boards[i], car).car = car /\ car \in Car
         /\ DOMAIN Boards[i] \subseteq Nat
<1>1. Boards[i] \in Seq(EntryType)
  BY TmsAssumption DEF TmsAssumption
<1>2. ASSUME NEW car
      PROVE  /\ EntryOf(Boards[i], car) \in EntryType \cup {NoEntry}
             /\ EntryOf(Boards[i], car) # NoEntry =>
                  EntryOf(Boards[i], car).car = car /\ car \in Car
  <2>1. PICK entry : entry = EntryOf(Boards[i], car)
    OBVIOUS
  <2>2. entry \in EntryType \cup {NoEntry} /\ (entry # NoEntry => entry.car = car)
    BY <1>1, <2>1, EntryIsIn, FoundEntry
  <2> QED BY <2>1, <2>2 DEF EntryType
<1> QED BY <1>1, <1>2, ElementOfSeq

LEMMA KeyTyped ==
  ASSUME NEW entry \in EntryType
  PROVE  Key(entry) \in Keys /\ Key(entry) # NoKey /\ Key(entry)[1] = entry.car
BY DEF EntryType, Key, Keys, NoKey

LEMMA TimesTyped == TimesOK(NoEntry) /\ \A entry \in EntryType : TimesOK(entry)
BY DEF TimesOK, NoEntry, EntryType

(* The packet of an entry is one the page's types allow. *)
LEMMA PacketTyped ==
  ASSUME NEW state, state.live \in 0 .. Len(Feed), NEW entry \in EntryType, NEW mem
  PROVE  PacketFor(state, entry, mem) \in Says
<1>1. Boards[state.live] \in Seq(EntryType)
  BY BoardTyped
<1>2. MetricsOf(entry, Boards[state.live]) \in [front : Nat, rear : Nat, lap : Nat]
  BY <1>1, MetricsNat, TimesTyped
<1>3. PICK says : says = PacketFor(state, entry, mem)
  OBVIOUS
<1>4. SaysOK(says)
  BY <1>3, ComputedOK DEF PacketFor
<1>5. says.front \in Nat /\ says.rear \in Nat /\ says.lap \in Nat
  BY <1>2, <1>3 DEF PacketFor, computeTmsPacket
<1>6. says.position \in Nat
  BY <1>3 DEF PacketFor, computeTmsPacket, EntryType
<1> QED BY <1>3, <1>4, <1>5, <1>6 DEF SaysOK, Says

LEMMA TestPacketTyped ==
  ASSUME NEW says \in Says, NEW car \in Car, NEW b
  PROVE  TestPacket(says, car, b) \in Says
BY TmsAssumption DEF TmsAssumption, TestPacket, Says, Color

LEMMA OwnLinkTyped ==
  ASSUME NEW state \in State, NEW car \in Car
  PROVE  OwnLink(state, car) \in Link \cup {0}
<1>1. LinkTables[state.links] \in [Car -> Link \cup {0}]
  BY TmsAssumption, ElementOfSeq DEF TmsAssumption, State
<1> QED BY <1>1 DEF OwnLink

(* The links a dispatch posts to are race links. *)
LEMMA TargetsTyped ==
  ASSUME NEW state \in State, NEW car \in Car
  PROVE  /\ PrimaryTarget(state, car) \in Link \cup {0}
         /\ TestTarget(state) \in Link \cup {0}
         /\ \A l \in Link : SendTargets(l) \in Seq(Link)
<1>1. OwnLink(state, car) \in Link \cup {0}
  BY OwnLinkTyped
<1>2. state.config.primary \in Link \cup {0} /\ state.config.test \in Link \cup {0}
  BY DEF State, Config
<1>3. state.server.test \in Link \cup {0}
  BY TmsAssumption DEF TmsAssumption, State, NoServer, Server
<1>4. EnvTest \in Link \cup {0}
  BY TmsAssumption DEF TmsAssumption
<1>5. ASSUME NEW l \in Link PROVE SendTargets(l) \in Seq(Link)
  <2>1. CASE EnvTest \in {0, l}
    BY <2>1 DEF SendTargets
  <2>2. CASE ~(EnvTest \in {0, l})
    BY <1>4, <2>2 DEF SendTargets
  <2> QED BY <2>1, <2>2
<1> QED BY <1>1, <1>2, <1>3, <1>5 DEF PrimaryTarget, TestTarget

LEMMA PostsTyped ==
  ASSUME NEW state \in State, NEW car \in Car, NEW key \in Keys, NEW says \in Says
  PROVE  dispatchTmsPayload(state, car, key, says) \in Seq(Posts)
<1>1. PICK tested \in Says : tested = TestPacket(says, car, state.config.testRear)
  BY TestPacketTyped
<1>2. PICK t, u : t = PrimaryTarget(state, car) /\ u = TestTarget(state)
  OBVIOUS
<1>3. t \in Link \cup {0} /\ u \in Link \cup {0}
  BY <1>2, TargetsTyped
<1>4. ASSUME NEW l \in Link, NEW x \in Says
      PROVE  [i \in DOMAIN SendTargets(l) |->
                [link |-> SendTargets(l)[i], car |-> car, key |-> key, says |-> x]] \in Seq(Posts)
  <2>1. PICK targets \in Seq(Link) : targets = SendTargets(l)
    BY TargetsTyped
  <2>2. \A i \in DOMAIN targets : targets[i] \in Link
    BY <2>1, ElementOfSeq
  <2>3. \A i \in DOMAIN targets :
          [link |-> targets[i], car |-> car, key |-> key, says |-> x] \in Posts
    BY <2>2 DEF Posts
  <2>4. DOMAIN targets = 1 .. Len(targets) /\ Len(targets) \in Nat
    BY <2>1
  <2> QED BY <2>1, <2>3, <2>4
<1>5. PICK a, b :
        /\ a = IF t = 0 THEN <<>>
               ELSE [i \in DOMAIN SendTargets(t) |->
                       [link |-> SendTargets(t)[i], car |-> car, key |-> key, says |-> says]]
        /\ b = IF u = 0 THEN <<>>
               ELSE [i \in DOMAIN SendTargets(u) |->
                       [link |-> SendTargets(u)[i], car |-> car, key |-> key, says |-> tested]]
  OBVIOUS
<1>6. a \in Seq(Posts) /\ b \in Seq(Posts)
  <2>1. <<>> \in Seq(Posts)
    OBVIOUS
  <2> QED BY <1>3, <1>4, <1>5, <2>1
<1>7. dispatchTmsPayload(state, car, key, says) = a \o b
  BY <1>1, <1>2, <1>5 DEF dispatchTmsPayload
<1> QED BY <1>6, <1>7

(* A dispatch, with the entries it has still to send. *)
TaskTyped(t) == t \in Task /\ t.queue \subseteq DOMAIN Boards[t.from.live]

LEMMA DispatchTyped ==
  ASSUME NEW kind \in {"manual", "realtime", "all"}, NEW state \in State, NEW car \in Car,
         NEW key \in Keys, NEW says \in Says, NEW queue \in SUBSET DOMAIN Boards[state.live]
  PROVE  TaskTyped(Dispatch(kind, state, car, key, says, queue))
<1>1. PICK posts \in Seq(Posts) : posts = dispatchTmsPayload(state, car, key, says)
  BY PostsTyped
<1>2. queue \in SUBSET Nat
  BY BoardTyped DEF State
<1>3. Dispatch(kind, state, car, key, says, queue) =
        [kind |-> kind, from |-> state, car |-> car, key |-> key,
         posts |-> posts, queue |-> queue]
  BY <1>1 DEF Dispatch
<1> QED BY <1>1, <1>2, <1>3 DEF TaskTyped, Task

(* The next entry of the loop is one of its leaderboard. *)
LEMMA NextEntryTyped ==
  ASSUME NEW state, state.live \in 0 .. Len(Feed), 
         NEW places \in SUBSET DOMAIN Boards[state.live], places # {}
  PROVE  /\ Min(places) \in places /\ Min(places) \in DOMAIN Boards[state.live]
         /\ NextEntry(state, places) \in EntryType
<1>1. places \in SUBSET Nat
  BY BoardTyped
<1> QED BY <1>1, LeastPlace, BoardTyped DEF NextEntry

LEMMA RoundTyped ==
  ASSUME NEW state \in State, NEW mem, NEW places \in SUBSET DOMAIN Boards[state.live],
         places # {}
  PROVE  TaskTyped(Round(state, mem, places))
<1>1. PICK entry \in EntryType : entry = NextEntry(state, places)
  BY NextEntryTyped DEF State
<1>2. entry.car \in Car /\ Key(entry) \in Keys
  BY KeyTyped DEF EntryType
<1>3. PacketFor(state, entry, mem) \in Says
  BY PacketTyped DEF State
<1> QED BY <1>1, <1>2, <1>3, DispatchTyped DEF Round

LEMMA MarkTyped ==
  ASSUME lastAll \in [Car -> Keys], NEW state \in State,
         NEW places \in SUBSET DOMAIN Boards[state.live], places # {}
  PROVE  MarkSent(state, places) \in [Car -> Keys]
<1>1. PICK entry \in EntryType : entry = NextEntry(state, places)
  BY NextEntryTyped DEF State
<1>2. Key(entry) \in Keys
  BY KeyTyped
<1> QED BY <1>1, <1>2 DEF MarkSent

LEMMA MarkLinkTyped ==
  ASSUME sentTo \in [Car -> Link \cup {0}], NEW state \in State,
         NEW places \in SUBSET DOMAIN Boards[state.live], places # {}
  PROVE  MarkLink(state, places) \in [Car -> Link \cup {0}]
<1>1. PICK entry \in EntryType : entry = NextEntry(state, places)
  BY NextEntryTyped DEF State
<1>2. OwnLink(state, entry.car) \in Link \cup {0}
  BY <1>1, OwnLinkTyped DEF EntryType
<1> QED BY <1>1, <1>2 DEF MarkLink

(* The bests. *)
LEMMA MeasuredTyped ==
  ASSUME NEW i \in 0 .. Len(Feed), NEW m \in Metrics, NEW c \in Car
  PROVE  /\ Measured[i][m][c] \in Nat
         /\ Boards[i] = <<>> => Measured[i][m][c] = 0
<1>1. DOMAIN Boards = 0 .. Len(Feed)
  BY DEF Boards
<1>2. PICK entry : entry = EntryOf(Boards[i], c)
  OBVIOUS
<1>3. Measured[i][m][c] = IF entry = NoEntry THEN 0 ELSE MetricsOf(entry, Boards[i])[m]
  BY <1>1, <1>2 DEF Measured
<1>4. CASE entry = NoEntry
  BY <1>3, <1>4
<1>5. CASE entry # NoEntry
  <2>1. entry \in EntryType /\ Boards[i] \in Seq(EntryType)
    BY <1>2, <1>5, BoardTyped
  <2>2. MetricsOf(entry, Boards[i]) \in [front : Nat, rear : Nat, lap : Nat]
    BY <2>1, MetricsNat, TimesTyped
  <2>3. MetricsOf(entry, Boards[i])[m] \in Nat
    BY <2>2 DEF Metrics
  <2>4. Boards[i] # <<>>
    BY <1>2, <1>5 DEF EntryOf, IndexOfCar
  <2> QED BY <1>3, <1>5, <2>3, <2>4
<1> QED BY <1>4, <1>5

LEMMA BetterTyped ==
  ASSUME NEW best \in Nat, NEW value \in Nat
  PROVE  Better(best, value) \in Nat
BY DEF Better

MemoryType == [previous : [Car -> EntryType \cup {NoEntry}],
               byCar : [Metrics -> [Car -> Nat]], session : [Metrics -> Nat]]

LEMMA NoMemoryTyped == NoMemory \in MemoryType
BY DEF NoMemory, MemoryType

LEMMA RememberedTyped ==
  ASSUME NEW mem \in MemoryType, NEW i \in 0 .. Len(Feed)
  PROVE  Remembered(mem, i) \in MemoryType
<1>1. CASE Boards[i] = <<>>
  <2>1. Remembered(mem, i) = [mem EXCEPT !.previous = NoMemory.previous]
    BY <1>1 DEF Remembered
  <2>2. NoMemory.previous \in [Car -> EntryType \cup {NoEntry}]
    BY DEF NoMemory
  <2> QED BY <2>1, <2>2 DEF MemoryType
<1>2. CASE Boards[i] # <<>>
  <2> DEFINE positive(m) == {Measured[i][m][c] : c \in Car} \ {0}
             previous == [c \in Car |-> EntryOf(Boards[i], c)]
             byCar == [m \in Metrics |-> [c \in Car |-> Better(mem.byCar[m][c], Measured[i][m][c])]]
             session == [m \in Metrics |-> IF positive(m) = {} THEN mem.session[m]
                                          ELSE Better(mem.session[m], Min(positive(m)))]
  <2>1. Remembered(mem, i) = [previous |-> previous, byCar |-> byCar, session |-> session]
    BY <1>2 DEF Remembered
  <2>2. previous \in [Car -> EntryType \cup {NoEntry}]
    BY BoardTyped
  <2>3. byCar \in [Metrics -> [Car -> Nat]]
    BY MeasuredTyped, BetterTyped DEF MemoryType
  <2>4. \A m \in Metrics : positive(m) \in SUBSET Nat
    BY MeasuredTyped
  <2>5. \A m \in Metrics : positive(m) # {} => Min(positive(m)) \in Nat
    BY <2>4, LeastPlace
  <2>6. session \in [Metrics -> Nat]
    BY <2>5, BetterTyped DEF MemoryType
  <2> HIDE DEF previous, byCar, session
  <2> QED BY <2>1, <2>2, <2>3, <2>6 DEF MemoryType
<1> QED BY <1>1, <1>2

(* The settings. *)
LEMMA ConfigTyped ==
  ASSUME NEW state \in State, NEW config \in Config
  PROVE  /\ FilledIn(config, state.server) \in Config
         /\ FirstSelected(config, Boards[state.live]) \in Config
         /\ \A car, refs :
              ShownFor(state, config, EntryOf(Boards[state.live], car), refs) \in Config
<1>1. state.live \in 0 .. Len(Feed)
  BY DEF State
<1>2. state.server.primary \in Link \cup {0} /\ state.server.test \in Link \cup {0}
  BY TmsAssumption DEF TmsAssumption, State, NoServer, Server
<1>3. FilledIn(config, state.server) \in Config
  BY <1>2 DEF FilledIn, Config
<1>4. Boards[state.live] # <<>> => Boards[state.live][1].car \in Car
  <2>1. Boards[state.live] # <<>> => 1 \in DOMAIN Boards[state.live]
    BY <1>1, BoardTyped
  <2> QED BY <1>1, <2>1, BoardTyped DEF EntryType
<1>5. FirstSelected(config, Boards[state.live]) \in Config
  BY <1>4 DEF FirstSelected, Config
<1>6. ASSUME NEW car, NEW refs
      PROVE  ShownFor(state, config, EntryOf(Boards[state.live], car), refs) \in Config
  <2>1. PICK entry \in EntryType \cup {NoEntry} : entry = EntryOf(Boards[state.live], car)
    BY <1>1, BoardTyped
  <2>2. entry # NoEntry => PacketFor(state, entry, refs) \in Says
    BY <1>1, <2>1, PacketTyped
  <2> QED BY <2>1, <2>2 DEF ShownFor, Config
<1> QED BY <1>3, <1>5, <1>6

LEMMA EmptyTyped ==
  /\ EmptyShown \in Says /\ defaultTmsUiConfig \in Config
  /\ \A config \in Config : Mounted(config) \in State
  /\ NoKey \in Keys
<1>1. EmptyShown \in Says
  BY DEF EmptyShown, Says, Color
<1>2. defaultTmsUiConfig \in Config
  BY <1>1 DEF defaultTmsUiConfig, Config
<1>3. 1 \in DOMAIN LinkTables
  BY TmsAssumption DEF TmsAssumption
<1>4. \A config \in Config : Mounted(config) \in State
  BY <1>3, ZeroBoard DEF Mounted, State
<1> QED BY <1>1, <1>2, <1>4 DEF Keys

LEMMA NoTaskTyped == TaskTyped(NoTask)
<1>1. NoTask.from \in State
  BY EmptyTyped DEF NoTask
<1>2. <<>> \in Seq(Posts) /\ {} \in SUBSET Nat
  OBVIOUS
<1>3. NoTask \in Task
  BY <1>1, <1>2, EmptyTyped DEF NoTask, Task
<1> QED BY <1>3 DEF TaskTyped, NoTask

(* What is typed: TypeOK with the task and its queue together. *)
Typing ==
  /\ latest \in State /\ view \in State
  /\ memory \in MemoryType
  /\ lastKey \in Keys /\ lastAll \in [Car -> Keys]
  /\ task = [s \in Slot |-> task[s]] /\ \A s \in Slot : TaskTyped(task[s])
  /\ storage \in Config
  /\ screen \in [Link -> Frame]
  /\ events \in Nat
  /\ sentTo \in [Car -> Link \cup {0}]
  /\ crossed \in BOOLEAN /\ touched \in BOOLEAN

LEMMA TypingIsTypeOK == Typing <=> TypeOK
BY DEF Typing, TypeOK, TaskTyped, MemoryType

LEMMA TypingInRender ==
  ASSUME Typing, NEW state \in State, NEW clicked, Render(state, clicked),
         clicked = NoTask \/ TaskTyped(clicked), UNCHANGED screen, events' \in Nat
  PROVE  Typing'
<1> DEFINE board    == Boards[state.live]
           car      == state.config.selected
           entry    == EntryOf(board, car)
           selects  == car # view.config.selected
           rearNew  == state.config.testRear # view.config.testRear
           sentKey  == IF selects THEN NoKey ELSE lastKey
           realtime == WantsRealtime(state, sentKey)
           all      == WantsAll(state)
           filled   == IF state.server # view.server THEN FilledIn(state.config, state.server)
                       ELSE state.config
           first    == FirstSelected(filled, board)
           config   == IF state.fresh \/ rearNew \/ selects
                       THEN ShownFor(state, first, entry, memory') ELSE first
           rt       == Dispatch("realtime", state, car, Key(entry),
                                PacketFor(state, entry, memory'), {})
           round    == Round(state, memory', PendingEntries(state))
           started  == ({clicked} \ {NoTask}) \cup (IF realtime THEN {rt} ELSE {})
                         \cup (IF all THEN {round} ELSE {})
<1>1. realtime \in BOOLEAN /\ all \in BOOLEAN
  BY DEF WantsRealtime, WantsAll
<1>2. state.live \in 0 .. Len(Feed) /\ state.config \in Config
  BY DEF State
<1>3. memory' \in MemoryType
  <2>1. memory' = Remembered(memory, state.live) \/ memory' = memory
    BY DEF Render
  <2> QED BY <1>2, <2>1, RememberedTyped DEF Typing
<1>4. config \in Config
  <2>1. filled \in Config
    BY <1>2, ConfigTyped
  <2>2. first \in Config
    BY <2>1, ConfigTyped
  <2> QED BY <2>2, ConfigTyped
<1>5. realtime => Key(entry) \in Keys /\ TaskTyped(rt)
  <2> SUFFICES ASSUME realtime PROVE Key(entry) \in Keys /\ TaskTyped(rt)
    OBVIOUS
  <2>1. entry # NoEntry
    BY DEF WantsRealtime, NoEntry
  <2>2. entry \in EntryType /\ car \in Car
    BY <1>2, <2>1, BoardTyped
  <2>3. Key(entry) \in Keys /\ PacketFor(state, entry, memory') \in Says
    BY <1>2, <2>2, KeyTyped, PacketTyped
  <2> QED BY <2>2, <2>3, DispatchTyped
<1>6. all => /\ TaskTyped(round) /\ MarkSent(state, PendingEntries(state)) \in [Car -> Keys]
             /\ MarkLink(state, PendingEntries(state)) \in [Car -> Link \cup {0}]
  <2> SUFFICES ASSUME all
               PROVE  /\ TaskTyped(round) /\ MarkSent(state, PendingEntries(state)) \in [Car -> Keys]
                      /\ MarkLink(state, PendingEntries(state)) \in [Car -> Link \cup {0}]
    OBVIOUS
  <2>1. PendingEntries(state) # {} /\ PendingEntries(state) \in SUBSET DOMAIN board
    BY DEF WantsAll, HasPending, PendingEntries
  <2> QED BY <2>1, RoundTyped, MarkTyped, MarkLinkTyped DEF Typing
<1>7. Starts(started)
  BY DEF Render
<1>8. \A d \in started : TaskTyped(d)
  BY <1>5, <1>6
<1>9. latest' = [state EXCEPT !.fresh = FALSE, !.logged = realtime \/ all,
                             !.config = config, !.sending = @ \/ realtime \/ all]
  BY DEF Render
<1>10. view' = [state EXCEPT !.fresh = FALSE, !.logged = FALSE]
  BY DEF Render
<1>11. /\ lastAll' = IF all THEN MarkSent(state, PendingEntries(state)) ELSE lastAll
       /\ lastKey' = IF realtime THEN Key(entry) ELSE sentKey
       /\ sentTo' = IF all THEN MarkLink(state, PendingEntries(state)) ELSE sentTo
  BY DEF Render
<1>12. storage' \in Config
  BY <1>2 DEF Render, Typing
<1>13. crossed' = (crossed \/ (realtime /\ all) \/ (clicked # NoTask /\ Running))
  BY DEF Render
<1>14. touched' = (touched \/ realtime \/ clicked # NoTask)
  BY DEF Render
<1>15. sentKey \in Keys
  BY EmptyTyped DEF Typing
<1> HIDE DEF realtime, all, config, rt, round, started, sentKey
<1>16. latest' \in State
  <2>1. state.sending \in BOOLEAN
    BY DEF State
  <2> QED BY <1>1, <1>4, <1>9, <2>1 DEF State
<1>17. view' \in State
  BY <1>10 DEF State
<1>18. task' = [s \in Slot |-> task'[s]] /\ \A s \in Slot : TaskTyped(task'[s])
  BY <1>7, <1>8, StartsTakes DEF Typing
<1>19. lastKey' \in Keys /\ lastAll' \in [Car -> Keys] /\ sentTo' \in [Car -> Link \cup {0}]
  BY <1>5, <1>6, <1>11, <1>15 DEF Typing
<1>20. crossed' \in BOOLEAN /\ touched' \in BOOLEAN
  BY <1>1, <1>13, <1>14 DEF Typing
<1> QED BY <1>3, <1>12, <1>16, <1>17, <1>18, <1>19, <1>20 DEF Typing

(* The settings a handler gives are settings, with ids that were typed. *)
Edits(config) ==
  /\ config \in Config
  /\ config.primary \in {latest.config.primary} \cup Typed
  /\ config.test \in {latest.config.test} \cup Typed

LEMMA UpdatesTyped ==
  ASSUME Typing, Updates
  PROVE  \E config \in Config : Edits(config) /\ updateTmsState(config)
<1>0. latest \in State /\ view \in State /\ latest.config \in Config
  BY DEF Typing, State
<1> SUFFICES \E config : Edits(config) /\ updateTmsState(config)
  BY DEF Edits
<1>1. CASE SelectCar
  <2>1. PICK i \in DOMAIN Shown : updateTmsState([latest.config EXCEPT !.selected = Shown[i].car])
    BY <1>1 DEF SelectCar
  <2>2. Shown[i].car \in Car
    BY <1>0, BoardTyped DEF Shown, State, EntryType
  <2>3. Edits([latest.config EXCEPT !.selected = Shown[i].car])
    BY <1>0, <2>2 DEF Config, Edits
  <2> QED BY <2>1, <2>3
<1>2. CASE ToggleRealtime
  <2>1. Edits([latest.config EXCEPT !.realtime = ~view.config.realtime])
    BY <1>0 DEF Config, Edits
  <2> QED BY <1>2, <2>1 DEF ToggleRealtime
<1>3. CASE ToggleAutoAll
  <2>1. Edits([latest.config EXCEPT !.autoAll = ~view.config.autoAll])
    BY <1>0 DEF Config, Edits
  <2> QED BY <1>3, <2>1 DEF ToggleAutoAll
<1>4. CASE ToggleTestRear
  <2>1. Edits([latest.config EXCEPT !.testRear = ~view.config.testRear])
    BY <1>0 DEF Config, Edits
  <2> QED BY <1>4, <2>1 DEF ToggleTestRear
<1>5. CASE TypeIds
  <2>1. PICK id \in Typed : \/ updateTmsState([latest.config EXCEPT !.primary = id])
                            \/ updateTmsState([latest.config EXCEPT !.test = id])
    BY <1>5 DEF TypeIds
  <2>2. id \in Link \cup {0}
    BY TmsAssumption DEF TmsAssumption
  <2>3. /\ Edits([latest.config EXCEPT !.primary = id])
        /\ Edits([latest.config EXCEPT !.test = id])
    BY <1>0, <2>2 DEF Config, Edits
  <2> QED BY <2>1, <2>3
<1>6. CASE EditFrame
  <2>1. PICK says \in Edited : updateTmsState([latest.config EXCEPT !.shown = says])
    BY <1>6 DEF EditFrame
  <2>2. says \in Says
    BY TmsAssumption DEF TmsAssumption
  <2>3. Edits([latest.config EXCEPT !.shown = says])
    BY <1>0, <2>2 DEF Config, Edits
  <2> QED BY <2>1, <2>3
<1> QED BY <1>1, <1>2, <1>3, <1>4, <1>5, <1>6 DEF Updates

LEMMA TypingInUpdates == Typing /\ Updates => Typing'
<1> SUFFICES ASSUME Typing, Updates PROVE Typing'
  OBVIOUS
<1>1. latest \in State /\ view \in State /\ latest.config \in Config
  BY DEF Typing, State
<1>2. PICK config \in Config : updateTmsState(config)
  BY UpdatesTyped
<1>3. PICK state : state = [latest EXCEPT !.config = config]
  OBVIOUS
<1>4. state \in State
  BY <1>1, <1>2, <1>3 DEF State
<1>5. Render(state, NoTask) /\ UNCHANGED screen /\ events' \in Nat
  BY <1>2, <1>3 DEF updateTmsState, Event, Typing
<1> QED BY <1>4, <1>5, TypingInRender

LEMMA TypingInManual == Typing /\ handleSendTmsManual => Typing'
<1> SUFFICES ASSUME Typing, handleSendTmsManual PROVE Typing'
  OBVIOUS
<1>1. PICK car : car = view.config.selected
  OBVIOUS
<1>2. view \in State /\ latest \in State
  BY DEF Typing
<1>3. car \in Car
  BY <1>1, <1>2, BoardTyped DEF handleSendTmsManual, Shown, State
<1>4. PICK state : state = [latest EXCEPT !.sending = TRUE]
  OBVIOUS
<1>5. state \in State
  BY <1>2, <1>4 DEF State
<1>6. PICK clicked : clicked = Dispatch("manual", view, car, NoKey, view.config.shown, {})
  OBVIOUS
<1>7. view.config.shown \in Says
  BY <1>2 DEF State, Config
<1>8. TaskTyped(clicked)
  BY <1>2, <1>3, <1>6, <1>7, DispatchTyped, EmptyTyped
<1>9. Render(state, clicked) /\ UNCHANGED screen /\ events' \in Nat
  BY <1>1, <1>4, <1>6 DEF handleSendTmsManual, Event, Typing
<1> QED BY <1>5, <1>8, <1>9, TypingInRender

LEMMA TypingInNetwork == Typing /\ Network => Typing'
<1> SUFFICES ASSUME Typing, Network PROVE Typing'
  OBVIOUS
<1>1. PICK state : Answer(state) /\ state \in State
  <2>1. latest \in State
    BY DEF Typing
  <2>2. CASE ReceiveLiveTiming
    <3>1. PICK i \in 0 .. Len(Feed) : Answer([latest EXCEPT !.live = i, !.fresh = TRUE])
      BY <2>2 DEF ReceiveLiveTiming
    <3>2. [latest EXCEPT !.live = i, !.fresh = TRUE] \in State
      BY <2>1 DEF State
    <3> QED BY <3>1, <3>2
  <2>3. CASE ReceiveRaceLinks
    BY <2>1, <2>3 DEF ReceiveRaceLinks, State
  <2>4. CASE ReceiveTmsConfig
    BY <2>1, <2>4 DEF ReceiveTmsConfig, State
  <2> QED BY <2>2, <2>3, <2>4 DEF Network
<1>2. /\ latest' = state /\ events' = events + 1
      /\ UNCHANGED <<view, memory, lastKey, lastAll, task, storage, screen, sentTo, crossed, touched>>
  BY <1>1 DEF Answer, Event
<1> QED BY <1>1, <1>2 DEF Typing

(* What an accepted frame leaves on a screen. *)
LEMMA DisplaysTyped ==
  ASSUME Typing, NEW post \in Posts, Displays(post)
  PROVE  screen' \in [Link -> Frame]
<1>1. PICK frame : frame = [car |-> post.car, key |-> post.key, says |-> post.says,
                            bytes |-> encodeTmsPayload(post.says)]
  OBVIOUS
<1>2. encodeTmsPayload(post.says) \in Seq(0 .. 255)
  BY FrameIsBytes DEF Posts, Says
<1>3. frame \in Frame
  BY <1>1, <1>2 DEF Frame, Posts
<1>4. screen' = [screen EXCEPT ![post.link] = frame]
  BY <1>1 DEF Displays
<1> QED BY <1>3, <1>4 DEF Typing

LEMMA TypingAtEnd ==
  ASSUME Typing, NEW s \in Slot, Ends(s), Untouched, lastAll' = lastAll, sentTo' = sentTo,
         screen' \in [Link -> Frame], events' \in Nat, touched' \in BOOLEAN
  PROVE  Typing'
<1>1. latest' \in State
  BY DEF Ends, Typing, State
<1>2. task' = [r \in Slot |-> task'[r]] /\ \A r \in Slot : TaskTyped(task'[r])
  BY NoTaskTyped DEF Ends, Typing
<1> QED BY <1>1, <1>2 DEF Typing, Untouched

LEMMA TypingInAsync ==
  ASSUME Typing, NEW s \in Slot,
         PostAccepted(s) \/ PostFails(s) \/ NextCar(s) \/ Finish(s)
  PROVE  Typing'
<1>1. TaskTyped(task[s]) /\ task[s] \in Task
  BY DEF Typing, TaskTyped
<1>2. PICK posts \in Seq(Posts) : posts = task[s].posts
  BY <1>1 DEF Task
<1>3. posts # <<>> => Head(posts) \in Posts /\ Tail(posts) \in Seq(Posts)
  BY <1>2
<1>4. CASE PostAccepted(s)
  <2>1. screen' \in [Link -> Frame]
    BY <1>2, <1>3, <1>4, DisplaysTyped DEF PostAccepted
  <2>2. PICK t : t = [task[s] EXCEPT !.posts = Tail(posts)]
    OBVIOUS
  <2>3. t \in Task /\ t.from = task[s].from /\ t.queue = task[s].queue
    BY <1>1, <1>2, <1>3, <1>4, <2>2 DEF Task, PostAccepted
  <2>4. TaskTyped(t)
    BY <1>1, <2>3 DEF TaskTyped
  <2>5. task' = [task EXCEPT ![s] = t]
    BY <1>2, <1>4, <2>2 DEF PostAccepted
  <2>6. task' = [r \in Slot |-> task'[r]] /\ \A r \in Slot : TaskTyped(task'[r])
    BY <2>4, <2>5 DEF Typing
  <2>7. UNCHANGED <<latest, view, memory, lastKey, lastAll, storage, events, sentTo, crossed, touched>>
    BY <1>4 DEF PostAccepted, Untouched
  <2> QED BY <2>1, <2>6, <2>7 DEF Typing
<1>5. CASE PostFails(s)
  <2>1. screen' \in [Link -> Frame]
    BY <1>2, <1>3, <1>5, DisplaysTyped DEF PostFails, Typing
  <2>2. events' \in Nat /\ touched' \in BOOLEAN
    BY <1>5 DEF PostFails, Typing
  <2> QED BY <1>5, <2>1, <2>2, TypingAtEnd DEF PostFails
<1>6. CASE NextCar(s)
  <2>0. PICK places : places = task[s].queue
    OBVIOUS
  <2>1. PICK from \in State : from = task[s].from /\ places = task[s].queue
    BY <1>1, <2>0 DEF Task
  <2>2. places \in SUBSET DOMAIN Boards[from.live] /\ places # {}
    BY <1>1, <1>6, <2>1 DEF TaskTyped, NextCar
  <2>3. PICK round : round = Round(from, memory, places) /\ TaskTyped(round)
    BY <2>2, RoundTyped
  <2>4. task' = [task EXCEPT ![s] = round]
    BY <1>6, <2>1, <2>3 DEF NextCar
  <2>5. task' = [r \in Slot |-> task'[r]] /\ \A r \in Slot : TaskTyped(task'[r])
    BY <2>3, <2>4 DEF Typing
  <2>6. lastAll' \in [Car -> Keys] /\ sentTo' \in [Car -> Link \cup {0}]
    BY <1>6, <2>1, <2>2, MarkTyped, MarkLinkTyped DEF NextCar, Typing
  <2>7. latest' \in State
    BY <1>6 DEF NextCar, Typing, State
  <2>8. UNCHANGED <<view, memory, lastKey, storage, screen, events, crossed, touched>>
    BY <1>6 DEF NextCar, Untouched
  <2> QED BY <2>5, <2>6, <2>7, <2>8 DEF Typing
<1>7. CASE Finish(s)
  BY <1>7, TypingAtEnd DEF Finish, Typing
<1> QED BY <1>4, <1>5, <1>6, <1>7

LEMMA TypingInit == Init => Typing
<1> SUFFICES ASSUME Init PROVE Typing
  OBVIOUS
<1>1. PICK config \in Stored : view = Mounted(config)
  BY DEF Init
<1>2. config \in Config /\ view.config = config
  BY <1>1, TmsAssumption DEF TmsAssumption, Mounted
<1>3. view \in State /\ latest \in State /\ storage \in Config
  BY <1>1, <1>2, EmptyTyped DEF Init
<1>4. Blank \in Frame
  <2>1. <<>> \in Seq(0 .. 255)
    OBVIOUS
  <2> QED BY <2>1, EmptyTyped DEF Blank, Frame
<1> QED BY <1>3, <1>4, EmptyTyped, NoMemoryTyped, NoTaskTyped DEF Init, Typing

LEMMA TypingNext == Typing /\ [Next]_vars => Typing'
<1> SUFFICES ASSUME Typing, [Next]_vars PROVE Typing'
  OBVIOUS
<1>1. CASE User
  BY <1>1, TypingInUpdates, TypingInManual DEF User, Updates
<1>2. CASE Network
  BY <1>2, TypingInNetwork
<1>3. CASE RenderLater
  BY <1>3, TypingInRender DEF RenderLater, Typing
<1>4. CASE Async
  BY <1>4, TypingInAsync DEF Async
<1>5. CASE Restart
  <2>1. latest' \in State /\ view' \in State
    BY <1>5, EmptyTyped DEF Restart, Typing
  <2>2. events' \in Nat
    BY <1>5 DEF Restart, Typing
  <2>3. crossed' \in BOOLEAN
    BY <1>5 DEF Restart
  <2> QED BY <1>5, <2>1, <2>2, <2>3, EmptyTyped, NoMemoryTyped, NoTaskTyped DEF Restart, Typing
<1>6. CASE UNCHANGED vars
  BY <1>6 DEF Typing, vars, history
<1> QED BY <1>1, <1>2, <1>3, <1>4, <1>5, <1>6 DEF Next

(* The state the dispatch of frames uses keeps its types whatever the      *)
(* order of answers, clicks and renders (App.tsx:430-764): a loop over all *)
(* cars never leaves its leaderboard, a post always has a link and a car,  *)
(* and a frame is a sequence of bytes.                                     *)
THEOREM TypeSafety == Spec => []TypeOK
BY TypingInit, TypingNext, TypingIsTypeOK, PTL DEF Spec

-----------------------------------------------------------------------------
(* Bests *)

(* b is the least of the times of T, where 0 is a time that is missing. *)
IsLeast(b, T) ==
  /\ b \in Nat
  /\ b = 0 => T \subseteq {0}
  /\ b # 0 => b \in T /\ \A t \in T \ {0} : b <= t

LEMMA LeastIsMin ==
  ASSUME NEW T \in SUBSET Nat, NEW b
  PROVE  IsLeast(b, T) <=> b = IF T \ {0} = {} THEN 0 ELSE Min(T \ {0})
<1>1. CASE T \ {0} = {}
  BY <1>1 DEF IsLeast
<1>2. CASE T \ {0} # {}
  <2>1. PICK x \in T \ {0} : x = Min(T \ {0}) /\ \A y \in T \ {0} : x <= y
    BY <1>2, LeastPlace
  <2>2. x \in Nat /\ x # 0
    BY <2>1
  <2> QED BY <1>2, <2>1, <2>2 DEF IsLeast
<1> QED BY <1>1, <1>2

LEMMA BetterIsLeast ==
  ASSUME NEW T \in SUBSET Nat, NEW b, IsLeast(b, T), NEW value \in Nat
  PROVE  IsLeast(Better(b, value), T \cup {value})
BY DEF IsLeast, Better

LEMMA BetterOfAll ==
  ASSUME NEW T \in SUBSET Nat, NEW b, IsLeast(b, T), NEW new \in SUBSET Nat
  PROVE  IsLeast(IF new \ {0} = {} THEN b ELSE Better(b, Min(new \ {0})), T \cup new)
<1>1. CASE new \ {0} = {}
  BY <1>1 DEF IsLeast
<1>2. CASE new \ {0} # {}
  <2>1. PICK x \in new \ {0} : x = Min(new \ {0}) /\ \A y \in new \ {0} : x <= y
    BY <1>2, LeastPlace
  <2>2. x \in Nat
    BY <2>1
  <2>3. IsLeast(Better(b, x), T \cup {x})
    BY <2>2, BetterIsLeast
  <2>4. Better(b, x) # 0 /\ Better(b, x) <= x /\ Better(b, x) \in Nat
    BY <2>1, <2>2 DEF IsLeast, Better
  <2>5. \A y \in new \ {0} : Better(b, x) <= y
    BY <2>1, <2>4
  <2> QED BY <1>2, <2>1, <2>3, <2>4, <2>5 DEF IsLeast
<1> QED BY <1>1, <1>2

(* The times some cars had on the leaderboards of a set. *)
Times(boards, m, cars) == {Measured[i][m][c] : i \in boards, c \in cars}

MinimaOf(mem, boards) ==
  \A m \in Metrics :
    /\ IsLeast(mem.session[m], Times(boards, m, Car))
    /\ \A c \in Car : IsLeast(mem.byCar[m][c], Times(boards, m, {c}))

LEMMA TimesNat ==
  ASSUME NEW boards \in SUBSET (0 .. Len(Feed)), NEW m \in Metrics, NEW cars \in SUBSET Car
  PROVE  Times(boards, m, cars) \in SUBSET Nat
<1> SUFFICES ASSUME NEW t \in Times(boards, m, cars) PROVE t \in Nat
  OBVIOUS
<1>1. PICK i \in boards, c \in cars : t = Measured[i][m][c]
  BY DEF Times
<1>2. i \in 0 .. Len(Feed) /\ c \in Car
  OBVIOUS
<1> QED BY <1>1, <1>2, MeasuredTyped

(* A leaderboard that is empty adds no time. *)
LEMMA EmptyBoardAddsNone ==
  ASSUME NEW boards \in SUBSET (0 .. Len(Feed)), NEW i \in 0 .. Len(Feed), Boards[i] = <<>>,
         NEW mem, MinimaOf(mem, boards)
  PROVE  MinimaOf(mem, boards \cup {i})
<1>1. \A m \in Metrics, c \in Car : Measured[i][m][c] = 0
  BY MeasuredTyped
<1>2. ASSUME NEW m \in Metrics, NEW cars \in SUBSET Car
      PROVE  Times(boards \cup {i}, m, cars) \ {0} = Times(boards, m, cars) \ {0}
  BY <1>1 DEF Times
<1>3. ASSUME NEW b, NEW m \in Metrics, NEW cars \in SUBSET Car,
             IsLeast(b, Times(boards, m, cars))
      PROVE  IsLeast(b, Times(boards \cup {i}, m, cars))
  BY <1>2, <1>3 DEF IsLeast
<1>4. Car \in SUBSET Car /\ \A c \in Car : {c} \in SUBSET Car
  OBVIOUS
<1> QED BY <1>3, <1>4 DEF MinimaOf

(* The effect that remembers takes the minima of one leaderboard more. *)
LEMMA RememberedMinima ==
  ASSUME NEW boards \in SUBSET (0 .. Len(Feed)), NEW i \in 0 .. Len(Feed),
         NEW mem \in MemoryType, MinimaOf(mem, boards)
  PROVE  MinimaOf(Remembered(mem, i), boards \cup {i})
<1>1. CASE Boards[i] = <<>>
  <2>1. PICK r : r = Remembered(mem, i)
    OBVIOUS
  <2>2. r = [mem EXCEPT !.previous = NoMemory.previous]
    BY <1>1, <2>1 DEF Remembered
  <2>3. r.byCar = mem.byCar /\ r.session = mem.session
    BY <2>2 DEF MemoryType
  <2>4. MinimaOf(r, boards)
    BY <2>3 DEF MinimaOf
  <2> QED BY <1>1, <2>1, <2>4, EmptyBoardAddsNone
<1>2. CASE Boards[i] # <<>>
  <2> SUFFICES ASSUME NEW m \in Metrics
               PROVE  /\ IsLeast(Remembered(mem, i).session[m], Times(boards \cup {i}, m, Car))
                      /\ \A c \in Car : IsLeast(Remembered(mem, i).byCar[m][c],
                                                Times(boards \cup {i}, m, {c}))
    BY DEF MinimaOf
  <2>1. PICK new : new = {Measured[i][m][c] : c \in Car}
    OBVIOUS
  <2>2. new \in SUBSET Nat
    BY <2>1, MeasuredTyped
  <2>3. /\ Remembered(mem, i).session[m] =
             IF new \ {0} = {} THEN mem.session[m] ELSE Better(mem.session[m], Min(new \ {0}))
        /\ \A c \in Car : Remembered(mem, i).byCar[m][c] =
             Better(mem.byCar[m][c], Measured[i][m][c])
    BY <1>2, <2>1 DEF Remembered
  <2>4. Times(boards \cup {i}, m, Car) = Times(boards, m, Car) \cup new
    BY <2>1 DEF Times
  <2>5. \A c \in Car : Times(boards \cup {i}, m, {c})
                         = Times(boards, m, {c}) \cup {Measured[i][m][c]}
    BY DEF Times
  <2>6. IsLeast(Remembered(mem, i).session[m], Times(boards \cup {i}, m, Car))
    <3>1. Times(boards, m, Car) \in SUBSET Nat
      BY TimesNat
    <3>2. IsLeast(mem.session[m], Times(boards, m, Car))
      BY DEF MinimaOf
    <3>3. PICK T, b : T = Times(boards, m, Car) /\ b = mem.session[m]
      OBVIOUS
    <3>4. IsLeast(IF new \ {0} = {} THEN b ELSE Better(b, Min(new \ {0})), T \cup new)
      BY <2>2, <3>1, <3>2, <3>3, BetterOfAll
    <3> QED BY <2>3, <2>4, <3>3, <3>4
  <2>7. ASSUME NEW c \in Car
        PROVE  IsLeast(Remembered(mem, i).byCar[m][c], Times(boards \cup {i}, m, {c}))
    <3>1. Times(boards, m, {c}) \in SUBSET Nat
      BY TimesNat
    <3>2. IsLeast(mem.byCar[m][c], Times(boards, m, {c}))
      BY DEF MinimaOf
    <3>3. Measured[i][m][c] \in Nat
      BY MeasuredTyped
    <3>4. PICK T, b, value :
            T = Times(boards, m, {c}) /\ b = mem.byCar[m][c] /\ value = Measured[i][m][c]
      OBVIOUS
    <3>5. IsLeast(Better(b, value), T \cup {value})
      BY <3>1, <3>2, <3>3, <3>4, BetterIsLeast
    <3> QED BY <2>3, <2>5, <3>4, <3>5
  <2> QED BY <2>6, <2>7
<1> QED BY <1>1, <1>2

(* What the page has rendered last has been taken in, so that a render for *)
(* something else may leave the bests alone.                               *)
BestOK ==
  /\ recorded \subseteq 0 .. Len(Feed)
  /\ view.live \in recorded \/ Boards[view.live] = <<>>
  /\ MinimaOf(memory, recorded)

LEMMA BestOKIsMinima == Typing /\ BestOK => BestsAreMinima
<1> SUFFICES ASSUME Typing, BestOK PROVE BestsAreMinima
  OBVIOUS
<1>1. ASSUME NEW b, NEW m \in Metrics, NEW cars \in SUBSET Car,
             IsLeast(b, Times(recorded, m, cars))
      PROVE  b = LeastRendered(m, cars)
  <2>1. recorded \in SUBSET (0 .. Len(Feed))
    BY DEF BestOK
  <2>2. Times(recorded, m, cars) \in SUBSET Nat
    BY <2>1, TimesNat
  <2>3. PICK T : T = Times(recorded, m, cars)
    OBVIOUS
  <2>4. b = IF T \ {0} = {} THEN 0 ELSE Min(T \ {0})
    BY <1>1, <2>2, <2>3, LeastIsMin
  <2> QED BY <2>3, <2>4 DEF Times, LeastRendered
<1>2. ASSUME NEW m \in Metrics
      PROVE  /\ memory.session[m] = LeastRendered(m, Car)
             /\ \A c \in Car : memory.byCar[m][c] = LeastRendered(m, {c})
  <2>1. /\ IsLeast(memory.session[m], Times(recorded, m, Car))
        /\ \A c \in Car : IsLeast(memory.byCar[m][c], Times(recorded, m, {c}))
    BY DEF BestOK, MinimaOf
  <2>2. Car \in SUBSET Car /\ \A c \in Car : {c} \in SUBSET Car
    OBVIOUS
  <2>3. memory.session[m] = LeastRendered(m, Car)
    BY <1>1, <2>1, <2>2
  <2>4. ASSUME NEW c \in Car PROVE memory.byCar[m][c] = LeastRendered(m, {c})
    BY <1>1, <2>1, <2>2
  <2> QED BY <2>3, <2>4
<1> QED BY <1>2 DEF BestsAreMinima

LEMMA BestInRender ==
  ASSUME Shapes, Typing, BestOK, NEW state, NEW clicked, Render(state, clicked),
         state.live \in 0 .. Len(Feed), state.live = latest.live, state.fresh = latest.fresh,
         StateOK(state)
  PROVE  BestOK'
<1>1. view' = [state EXCEPT !.fresh = FALSE, !.logged = FALSE]
  BY DEF Render
<1>2. recorded' = recorded \cup {state.live} /\ view'.live = state.live
  BY <1>1 DEF Render, StateOK
<1>3. recorded \in SUBSET (0 .. Len(Feed)) /\ MinimaOf(memory, recorded) /\ memory \in MemoryType
  BY DEF BestOK, Typing
<1>4. MinimaOf(memory', recorded')
  <2>1. CASE memory' = Remembered(memory, state.live)
    BY <1>2, <1>3, <2>1, RememberedMinima
  <2>2. CASE ~state.fresh /\ memory' = memory
    <3>1. state.live = view.live
      BY <2>2 DEF Shapes, MemoryOK
    <3>2. CASE view.live \in recorded
      BY <1>2, <1>3, <2>2, <3>1, <3>2
    <3>3. CASE Boards[view.live] = <<>>
      BY <1>2, <1>3, <2>2, <3>1, <3>3, EmptyBoardAddsNone
    <3> QED BY <3>2, <3>3 DEF BestOK
  <2> QED BY <2>1, <2>2 DEF Render
<1> QED BY <1>2, <1>3, <1>4 DEF BestOK

(* A page that is new remembers nothing. *)
LEMMA NothingRecorded ==
  /\ MinimaOf(NoMemory, {})
  /\ Boards[0] = <<>>
<1>1. \A cars : \A m \in Metrics : Times({}, m, cars) = {}
  BY DEF Times
<1>2. /\ \A m \in Metrics : NoMemory.session[m] = 0
      /\ \A m \in Metrics, c \in Car : NoMemory.byCar[m][c] = 0
  BY DEF NoMemory
<1>3. IsLeast(0, {})
  BY DEF IsLeast
<1> QED BY <1>1, <1>2, <1>3, ZeroBoard DEF MinimaOf

LEMMA BestNext == Shapes /\ Typing /\ BestOK /\ [Next]_vars => BestOK'
<1> SUFFICES ASSUME Shapes, Typing, BestOK, [Next]_vars PROVE BestOK'
  OBVIOUS
<1>0. StateOK(latest)
  BY DEF Shapes
<1>1. CASE Updates
  <2>1. PICK config : ConfigOK(config) /\ updateTmsState(config)
    BY <1>1, UpdatesRender
  <2>2. PICK state : state = [latest EXCEPT !.config = config]
    OBVIOUS
  <2>3. StateOK(state) /\ state.live = latest.live /\ state.fresh = latest.fresh
    BY <1>0, <2>1, <2>2, ConfigEdited
  <2>4. Render(state, NoTask)
    BY <2>1, <2>2 DEF updateTmsState
  <2> QED BY <2>3, <2>4, BestInRender DEF StateOK
<1>2. CASE handleSendTmsManual
  <2>1. PICK state : state = [latest EXCEPT !.sending = TRUE]
    OBVIOUS
  <2>2. StateOK(state) /\ state.live = latest.live /\ state.fresh = latest.fresh
    BY <1>0, <2>1, SendingEdited
  <2>3. \E clicked : Render(state, clicked)
    BY <1>2, <2>1 DEF handleSendTmsManual
  <2> QED BY <2>2, <2>3, BestInRender DEF StateOK
<1>3. CASE RenderLater
  BY <1>0, <1>3, BestInRender DEF RenderLater, StateOK
<1>4. CASE Network \/ Async \/ UNCHANGED vars
  <2>1. UNCHANGED <<view, memory, recorded>>
    BY <1>4 DEF Network, ReceiveLiveTiming, ReceiveRaceLinks, ReceiveTmsConfig, Answer,
                Async, PostAccepted, PostFails, NextCar, Finish, Untouched, vars, history
  <2> QED BY <2>1 DEF BestOK
<1>5. CASE Restart
  <2>1. memory' = NoMemory /\ recorded' = {} /\ view'.live = 0
    BY <1>5 DEF Restart, Mounted
  <2> QED BY <2>1, NothingRecorded DEF BestOK
<1> QED BY <1>1, <1>2, <1>3, <1>4, <1>5 DEF Next, User, Updates

(* Whatever the snapshots, the order of the answers and the renders in     *)
(* between, the best times the page compares with (App.tsx:430-490) are    *)
(* the least of those on the leaderboards it has rendered since it was     *)
(* opened: none is forgotten, and none is taken from one it never showed.  *)
THEOREM BestsSafety == Spec => []BestsAreMinima
<1>1. Init => BestOK
  <2> SUFFICES ASSUME Init PROVE BestOK
    OBVIOUS
  <2>1. memory = NoMemory /\ recorded = {} /\ view.live = 0
    BY DEF Init, Mounted
  <2> QED BY <2>1, NothingRecorded DEF BestOK
<1> QED BY <1>1, InitShapes, ShapesNext, TypingInit, TypingNext, BestNext, BestOKIsMinima,
           PTL DEF Spec

-----------------------------------------------------------------------------
(* The posts of a dispatch *)

(* The lap of a key, and a frame that says what its key says. *)
LapOf(key) == IF key[4] > 0 THEN key[4] ELSE key[5]

Fits(frame) ==
  frame.key # NoKey => /\ frame.car = frame.key[1]
                       /\ frame.says.position = frame.key[3]
                       /\ frame.says.lap = LapOf(frame.key)

TargetsOf(t) == {PrimaryTarget(t.from, t.car), TestTarget(t.from), EnvTest}

TaskPosts(t) ==
  \A i \in DOMAIN t.posts :
    /\ t.posts[i].car = t.car /\ t.posts[i].key = t.key
    /\ t.posts[i].link \in TargetsOf(t)
    /\ Fits(t.posts[i])

(* A frame for the test link. *)
TestFrame(frame, t) ==
  frame.car = t.car /\ (t.from.config.testRear => frame.says.rear = t.car)

(* A dispatch as it starts: it posts to the car's link if there is one,    *)
(* and to the test link of the environment last.                           *)
Starting(t) ==
  /\ TaskTyped(t) /\ t.kind # "none"
  /\ TaskPosts(t)
  /\ PrimaryTarget(t.from, t.car) # 0 =>
       \E i \in DOMAIN t.posts : t.posts[i].link = PrimaryTarget(t.from, t.car)
  /\ EnvTest # 0 /\ TestTarget(t.from) # 0 =>
       /\ t.posts # <<>>
       /\ t.posts[Len(t.posts)].link = EnvTest
       /\ TestFrame(t.posts[Len(t.posts)], t)

LEMMA SendTargetsAre ==
  ASSUME NEW l
  PROVE  /\ SendTargets(l) \in Seq({l, EnvTest}) /\ SendTargets(l) # <<>>
         /\ SendTargets(l)[1] = l /\ Len(SendTargets(l)) \in {1, 2}
         /\ EnvTest # 0 => SendTargets(l)[Len(SendTargets(l))] = EnvTest
<1>1. CASE EnvTest \in {0, l}
  <2>1. SendTargets(l) = <<l>>
    BY <1>1 DEF SendTargets
  <2> QED BY <1>1, <2>1
<1>2. CASE ~(EnvTest \in {0, l})
  <2>1. SendTargets(l) = <<l, EnvTest>>
    BY <1>2 DEF SendTargets
  <2> QED BY <2>1
<1> QED BY <1>1, <1>2

LEMMA DispatchStarts ==
  ASSUME NEW kind \in {"manual", "realtime", "all"}, NEW state \in State, NEW car \in Car,
         NEW key \in Keys, NEW says \in Says, NEW queue \in SUBSET DOMAIN Boards[state.live],
         Fits([car |-> car, key |-> key, says |-> says])
  PROVE  Starting(Dispatch(kind, state, car, key, says, queue))
<1>1. PICK t : t = Dispatch(kind, state, car, key, says, queue)
  OBVIOUS
<1>2. PICK posts : posts = dispatchTmsPayload(state, car, key, says)
  OBVIOUS
<1>3. t = [kind |-> kind, from |-> state, car |-> car, key |-> key,
           posts |-> posts, queue |-> queue]
  BY <1>1, <1>2 DEF Dispatch
<1>4. TaskTyped(t)
  BY <1>1, DispatchTyped
<1>5. PICK tested : tested = TestPacket(says, car, state.config.testRear)
  OBVIOUS
<1>6. /\ state.config.testRear => tested.rear = car
      /\ tested.position = says.position /\ tested.lap = says.lap
  BY <1>5 DEF TestPacket, Says
<1>7. PICK p, u : p = PrimaryTarget(state, car) /\ u = TestTarget(state)
  OBVIOUS
<1> DEFINE To(l, x) == [i \in DOMAIN SendTargets(l) |->
                         [link |-> SendTargets(l)[i], car |-> car, key |-> key, says |-> x]]
<1>8. PICK a, b : /\ a = IF p = 0 THEN <<>> ELSE To(p, says)
                  /\ b = IF u = 0 THEN <<>> ELSE To(u, tested)
  OBVIOUS
<1>9. posts = a \o b
  BY <1>2, <1>5, <1>7, <1>8 DEF dispatchTmsPayload
<1> DEFINE P == {[link |-> l, car |-> car, key |-> key, says |-> x] :
                    l \in {p, u, EnvTest}, x \in {says, tested}}
<1>10. ASSUME NEW l \in {p, u}, NEW x \in {says, tested}
       PROVE  /\ To(l, x) \in Seq(P)
              /\ Len(To(l, x)) = Len(SendTargets(l)) /\ Len(To(l, x)) \in {1, 2}
              /\ To(l, x)[1].link = l
              /\ LET last == To(l, x)[Len(SendTargets(l))]
                 IN  /\ EnvTest # 0 => last.link = EnvTest
                     /\ last.car = car /\ last.says = x
  <2>1. PICK targets : targets = SendTargets(l)
    OBVIOUS
  <2>2. targets \in Seq({l, EnvTest})
    BY <2>1, SendTargetsAre
  <2>3. \A i \in DOMAIN targets : targets[i] \in {l, EnvTest}
    BY <2>2, ElementOfSeq
  <2>4. \A i \in DOMAIN targets :
          [link |-> targets[i], car |-> car, key |-> key, says |-> x] \in P
    BY <2>3
  <2>5. DOMAIN targets = 1 .. Len(targets) /\ Len(targets) \in Nat
    BY <2>2
  <2>6. /\ targets[1] = l /\ Len(targets) \in {1, 2}
        /\ EnvTest # 0 => targets[Len(targets)] = EnvTest
    BY <2>1, SendTargetsAre
  <2> HIDE DEF P
  <2>7. To(l, x) \in Seq(P) /\ Len(To(l, x)) = Len(targets)
    BY <2>1, <2>4, <2>5
  <2>8. \A i \in DOMAIN targets :
          To(l, x)[i] = [link |-> targets[i], car |-> car, key |-> key, says |-> x]
    BY <2>1
  <2>9. 1 \in DOMAIN targets /\ Len(targets) \in DOMAIN targets
    BY <2>5, <2>6
  <2> HIDE DEF To
  <2>10. To(l, x)[1].link = l
    <3>1. PICK first : first = To(l, x)[1]
      OBVIOUS
    <3>2. first = [link |-> targets[1], car |-> car, key |-> key, says |-> x]
      BY <2>8, <2>9, <3>1
    <3>3. first.link = l
      BY <2>6, <3>2
    <3> QED BY <3>1, <3>3
  <2>11. PICK last : last = To(l, x)[Len(targets)]
    OBVIOUS
  <2>12. last = [link |-> targets[Len(targets)], car |-> car, key |-> key, says |-> x]
    BY <2>8, <2>9, <2>11
  <2>13. (EnvTest # 0 => last.link = EnvTest) /\ last.car = car /\ last.says = x
    BY <2>6, <2>12
  <2> QED BY <2>1, <2>6, <2>7, <2>10, <2>11, <2>13
<1> HIDE DEF To
<1>11. a \in Seq(P) /\ b \in Seq(P)
  <2>1. <<>> \in Seq(P)
    OBVIOUS
  <2> HIDE DEF P
  <2> QED BY <1>8, <1>10, <2>1
<1>12. /\ Len(a) \in Nat /\ Len(b) \in Nat /\ DOMAIN a = 1 .. Len(a) /\ DOMAIN b = 1 .. Len(b)
       /\ posts \in Seq(P) /\ Len(posts) = Len(a) + Len(b)
       /\ \A i \in 1 .. Len(a) : posts[i] = a[i]
       /\ \A i \in 1 .. Len(b) : posts[Len(a) + i] = b[i]
  <2> HIDE DEF P
  <2> QED BY <1>9, <1>11, ConcatProperties
<1>13. TaskPosts(t)
  <2> SUFFICES ASSUME NEW i \in DOMAIN posts
               PROVE  /\ posts[i].car = car /\ posts[i].key = key
                      /\ posts[i].link \in {p, u, EnvTest}
                      /\ Fits(posts[i])
    BY <1>3, <1>7 DEF TaskPosts, TargetsOf
  <2>1. posts[i] \in P
    BY <1>12, ElementOfSeq
  <2>2. PICK l \in {p, u, EnvTest}, x \in {says, tested} :
          posts[i] = [link |-> l, car |-> car, key |-> key, says |-> x]
    BY <2>1
  <2>3. x.position = says.position /\ x.lap = says.lap
    BY <1>6
  <2> QED BY <2>2, <2>3 DEF Fits
<1>14. ASSUME p # 0
       PROVE  \E i \in DOMAIN posts : posts[i].link = p
  <2>1. a[1].link = p /\ 1 \in 1 .. Len(a)
    BY <1>8, <1>10, <1>14
  <2>2. posts[1].link = p /\ 1 \in DOMAIN posts
    BY <1>12, <2>1
  <2> QED BY <2>2
<1>15. ASSUME EnvTest # 0, u # 0
       PROVE  /\ posts # <<>>
              /\ posts[Len(posts)].link = EnvTest
              /\ posts[Len(posts)].car = car /\ posts[Len(posts)].says = tested
  <2>1. /\ b[Len(b)].link = EnvTest /\ b[Len(b)].car = car /\ b[Len(b)].says = tested
        /\ Len(b) \in {1, 2}
    BY <1>8, <1>10, <1>15
  <2>2. posts[Len(posts)] = b[Len(b)] /\ Len(posts) # 0
    BY <1>12, <2>1
  <2> QED BY <2>1, <2>2
<1> QED BY <1>1, <1>3, <1>4, <1>6, <1>7, <1>13, <1>14, <1>15 DEF Starting, TestFrame

(* A frame computed from an entry says what the entry's key says. *)
LEMMA PacketFits ==
  ASSUME NEW state, NEW entry \in EntryType, NEW mem
  PROVE  Fits([car |-> entry.car, key |-> Key(entry), says |-> PacketFor(state, entry, mem)])
<1>1. PICK says : says = PacketFor(state, entry, mem)
  OBVIOUS
<1>2. says.position = entry.position /\ says.lap = resolveLapMetric(entry)
  BY <1>1 DEF PacketFor, computeTmsPacket, MetricsOf, EntryType
<1>3. resolveLapMetric(entry) = LapOf(Key(entry))
  BY DEF resolveLapMetric, AtLeastZero, LapOf, Key, EntryType
<1>4. Key(entry)[1] = entry.car /\ Key(entry)[3] = entry.position
  BY DEF Key
<1> QED BY <1>1, <1>2, <1>3, <1>4 DEF Fits

LEMMA RoundStarts ==
  ASSUME NEW state \in State, NEW mem, NEW places \in SUBSET DOMAIN Boards[state.live],
         places # {}
  PROVE  Starting(Round(state, mem, places))
<1>1. PICK entry \in EntryType : entry = NextEntry(state, places)
  BY NextEntryTyped DEF State
<1>2. entry.car \in Car /\ Key(entry) \in Keys
  BY KeyTyped DEF EntryType
<1>3. PacketFor(state, entry, mem) \in Says
  BY PacketTyped DEF State
<1>4. Fits([car |-> entry.car, key |-> Key(entry), says |-> PacketFor(state, entry, mem)])
  BY PacketFits
<1> QED BY <1>1, <1>2, <1>3, <1>4, DispatchStarts DEF Round

-----------------------------------------------------------------------------
(* The steps, as the dispatches see them *)

(* Every click, input and later render is a render of a state that differs *)
(* from the latest in its settings or its flag.                            *)
LEMMA RendersOf ==
  ASSUME Typing, User \/ RenderLater
  PROVE  \E state, clicked :
           /\ state \in State /\ Render(state, clicked)
           /\ \/ clicked = NoTask /\ state.sending = latest.sending
              \/ clicked.kind = "manual" /\ state.sending /\ Starting(clicked)
           /\ state.live = latest.live /\ state.fresh = latest.fresh
           /\ state.links = latest.links /\ state.server = latest.server
           /\ state.config.primary \in {latest.config.primary} \cup Typed
           /\ state.config.test \in {latest.config.test} \cup Typed
           /\ UNCHANGED <<screen, done, lost>>
<1>0. latest \in State /\ view \in State
  BY DEF Typing
<1>1. CASE Updates
  <2>1. PICK config \in Config :
          /\ updateTmsState(config)
          /\ config.primary \in {latest.config.primary} \cup Typed
          /\ config.test \in {latest.config.test} \cup Typed
    BY <1>1, UpdatesTyped DEF Edits
  <2>2. PICK state : state = [latest EXCEPT !.config = config]
    OBVIOUS
  <2>3. /\ state \in State /\ state.config = config /\ state.sending = latest.sending
        /\ state.live = latest.live /\ state.fresh = latest.fresh
        /\ state.links = latest.links /\ state.server = latest.server
    BY <1>0, <2>2 DEF State
  <2>4. Render(state, NoTask) /\ UNCHANGED <<screen, done, lost>>
    BY <2>1, <2>2 DEF updateTmsState, Event
  <2> QED BY <2>1, <2>3, <2>4
<1>2. CASE handleSendTmsManual
  <2>1. PICK state : state = [latest EXCEPT !.sending = TRUE]
    OBVIOUS
  <2>2. /\ state \in State /\ state.config = latest.config /\ state.sending
        /\ state.live = latest.live /\ state.fresh = latest.fresh
        /\ state.links = latest.links /\ state.server = latest.server
    BY <1>0, <2>1 DEF State
  <2>3. PICK car : car = view.config.selected
    OBVIOUS
  <2>4. car \in Car
    BY <1>0, <1>2, <2>3, BoardTyped DEF handleSendTmsManual, Shown, State
  <2>5. view.config.shown \in Says
    BY <1>0 DEF State, Config
  <2>6. Fits([car |-> car, key |-> NoKey, says |-> view.config.shown])
    BY DEF Fits
  <2>7. PICK clicked : clicked = Dispatch("manual", view, car, NoKey, view.config.shown, {})
    OBVIOUS
  <2>8. Starting(clicked)
    BY <1>0, <2>4, <2>5, <2>6, <2>7, DispatchStarts, EmptyTyped
  <2>9. clicked.kind = "manual"
    BY <2>7 DEF Dispatch
  <2>10. Render(state, clicked) /\ UNCHANGED <<screen, done, lost>>
    BY <1>2, <2>1, <2>3, <2>7 DEF handleSendTmsManual, Event
  <2> QED BY <2>2, <2>8, <2>9, <2>10
<1>3. CASE RenderLater
  BY <1>0, <1>3 DEF RenderLater
<1> QED BY <1>1, <1>2, <1>3 DEF User, Updates

(* The dispatches a render starts are started with what they post. *)
LEMMA RenderStarts ==
  ASSUME Typing, NEW state \in State, NEW clicked, Render(state, clicked),
         clicked = NoTask \/ Starting(clicked)
  PROVE  \A s \in Slot : task'[s] = task[s] \/ (Idle(s) /\ Starting(task'[s]))
<1>1. PICK realtime, all, rt, config : RenderDoes(state, clicked, realtime, all, rt, config)
  BY RenderParts
<1>2. PICK entry : entry = EntryOf(Boards[state.live], state.config.selected)
  OBVIOUS
<1>3. realtime => Starting(rt)
  <2> SUFFICES ASSUME realtime PROVE Starting(rt)
    OBVIOUS
  <2>1. entry # NoEntry /\ state.live \in 0 .. Len(Feed)
    BY <1>1, <1>2 DEF RenderDoes, NoEntry, State
  <2>2. entry \in EntryType /\ entry.car = state.config.selected /\ entry.car \in Car
    BY <1>2, <2>1, BoardTyped
  <2>3. Key(entry) \in Keys /\ PacketFor(state, entry, memory') \in Says
    BY <2>1, <2>2, KeyTyped, PacketTyped
  <2>4. Fits([car |-> entry.car, key |-> Key(entry), says |-> PacketFor(state, entry, memory')])
    BY <2>2, PacketFits
  <2>5. rt = Dispatch("realtime", state, entry.car, Key(entry),
                      PacketFor(state, entry, memory'), {})
    BY <1>1, <1>2, <2>2 DEF RenderDoes
  <2> QED BY <2>2, <2>3, <2>4, <2>5, DispatchStarts
<1>4. PICK round : round = Round(state, memory', PendingEntries(state))
  OBVIOUS
<1>5. all => Starting(round)
  <2>1. PendingEntries(state) \in SUBSET DOMAIN Boards[state.live]
    BY DEF PendingEntries
  <2>2. all => PendingEntries(state) # {}
    BY <1>1 DEF RenderDoes, WantsAll, HasPending
  <2> QED BY <1>4, <2>1, <2>2, RoundStarts
<1>6. PICK started :
        /\ started = ({clicked} \ {NoTask}) \cup (IF realtime THEN {rt} ELSE {})
                        \cup (IF all THEN {round} ELSE {})
        /\ Starts(started)
  BY <1>1, <1>4 DEF RenderDoes
<1>7. \A d \in started : Starting(d)
  BY <1>3, <1>5, <1>6
<1> QED BY <1>6, <1>7, StartsTakes

(* What a step does to the dispatches and the screens: some may start, or  *)
(* one goes on.                                                            *)
Quiet ==
  /\ screen' = screen
  /\ \A s \in Slot : task'[s] = task[s] \/ (Idle(s) /\ Starting(task'[s]))

LEMMA NextDispatches ==
  ASSUME Typing, [Next]_vars
  PROVE  \/ Quiet
         \/ \E s \in Slot : PostAccepted(s) \/ PostFails(s) \/ NextCar(s) \/ Finish(s)
         \/ Restart
<1>1. CASE User \/ RenderLater
  BY <1>1, RendersOf, RenderStarts DEF Quiet
<1>2. CASE Network \/ UNCHANGED vars
  BY <1>2 DEF Network, ReceiveLiveTiming, ReceiveRaceLinks, ReceiveTmsConfig, Answer, Event,
              Quiet, vars
<1> QED BY <1>1, <1>2 DEF Next, Async

(* The next car of the loop is a dispatch that starts. *)
LEMMA NextCarStarts ==
  ASSUME Typing, NEW s \in Slot, NextCar(s)
  PROVE  /\ Starting(task'[s]) /\ task'[s] = Round(task[s].from, memory, task[s].queue)
         /\ \A r \in Slot \ {s} : task'[r] = task[r]
         /\ screen' = screen
<1>1. TaskTyped(task[s])
  BY DEF Typing
<1>0. PICK places : places = task[s].queue
  OBVIOUS
<1>2. PICK from \in State : from = task[s].from /\ places = task[s].queue
  BY <1>0, <1>1 DEF TaskTyped, Task
<1>3. places \in SUBSET DOMAIN Boards[from.live] /\ places # {}
  BY <1>1, <1>2 DEF TaskTyped, NextCar
<1>4. PICK round : round = Round(from, memory, places) /\ Starting(round)
  BY <1>3, RoundStarts
<1>5. task' = [task EXCEPT ![s] = round] /\ screen' = screen
  BY <1>2, <1>4 DEF NextCar
<1> QED BY <1>2, <1>4, <1>5 DEF Typing

(* A frame that is accepted is the first of its dispatch's posts. *)
LEMMA AcceptedPost ==
  ASSUME Typing, NEW s \in Slot, PostAccepted(s)
  PROVE  LET posts == task[s].posts
             post  == posts[1]
         IN  /\ 1 \in DOMAIN posts /\ DOMAIN posts = 1 .. Len(posts)
             /\ posts \in Seq(Posts) /\ Len(posts) \in Nat /\ post \in Posts
             /\ screen' = [screen EXCEPT ![post.link] =
                             [car |-> post.car, key |-> post.key, says |-> post.says,
                              bytes |-> encodeTmsPayload(post.says)]]
             /\ task'[s] = [kind |-> task[s].kind, from |-> task[s].from, car |-> task[s].car,
                            key |-> task[s].key, posts |-> Tail(posts), queue |-> task[s].queue]
             /\ \A r \in Slot \ {s} : task'[r] = task[r]
             /\ Tail(posts) \in Seq(Posts) /\ Len(Tail(posts)) = Len(posts) - 1
             /\ \A i \in 1 .. Len(posts) - 1 : Tail(posts)[i] = posts[i + 1]
<1>1. PICK posts : posts = task[s].posts
  OBVIOUS
<1>2. posts \in Seq(Posts) /\ posts # <<>>
  BY <1>1 DEF Typing, TaskTyped, Task, PostAccepted
<1>3. /\ 1 \in DOMAIN posts /\ DOMAIN posts = 1 .. Len(posts) /\ Len(posts) \in Nat
      /\ posts[1] \in Posts /\ Head(posts) = posts[1]
  BY <1>2, ElementOfSeq
<1>4. /\ Tail(posts) \in Seq(Posts) /\ Len(Tail(posts)) = Len(posts) - 1
      /\ \A i \in 1 .. Len(posts) - 1 : Tail(posts)[i] = posts[i + 1]
  BY <1>2, HeadTailProperties
<1>5. PICK t : t = [task[s] EXCEPT !.posts = Tail(posts)]
  OBVIOUS
<1>6. t = [kind |-> task[s].kind, from |-> task[s].from, car |-> task[s].car,
           key |-> task[s].key, posts |-> Tail(posts), queue |-> task[s].queue]
  BY <1>5 DEF Typing, TaskTyped, Task
<1>7. task' = [task EXCEPT ![s] = t]
  BY <1>1, <1>5 DEF PostAccepted
<1>8. task'[s] = t /\ \A r \in Slot \ {s} : task'[r] = task[r]
  BY <1>7 DEF Typing
<1>9. screen' = [screen EXCEPT ![posts[1].link] =
                   [car |-> posts[1].car, key |-> posts[1].key, says |-> posts[1].says,
                    bytes |-> encodeTmsPayload(posts[1].says)]]
  BY <1>1, <1>3 DEF PostAccepted, Displays
<1> QED BY <1>1, <1>2, <1>3, <1>4, <1>6, <1>8, <1>9

-----------------------------------------------------------------------------
(* The test link *)

(* While a dispatch that has a test link runs, the last of its posts is    *)
(* the test frame for the link of the environment, and once it has none    *)
(* left that frame is what the link shows.                                 *)
TestOK ==
  \A s \in Slot :
    ~crossed /\ ~Idle(s) /\ EnvTest # 0 /\ TestTarget(task[s].from) # 0 =>
      LET posts == task[s].posts
      IN  IF posts = <<>> THEN TestFrame(screen[EnvTest], task[s])
          ELSE posts[Len(posts)].link = EnvTest /\ TestFrame(posts[Len(posts)], task[s])

LEMMA StartingTest ==
  ASSUME NEW t, Starting(t), EnvTest # 0, TestTarget(t.from) # 0
  PROVE  /\ t.posts # <<>> /\ t.posts[Len(t.posts)].link = EnvTest
         /\ TestFrame(t.posts[Len(t.posts)], t)
BY DEF Starting

(* No other dispatch runs while one does. *)
LEMMA NoOther ==
  ASSUME OneOK, ~crossed, NEW s \in Slot, ~Idle(s)
  PROVE  \A r \in Slot \ {s} : Idle(r)
BY DEF OneOK, OneDispatchAtATime

(* Only a render crosses dispatches, and only a restart forgets it. *)
LEMMA CrossedStays ==
  ASSUME [Next]_vars, crossed, ~Restart
  PROVE  crossed'
<1>1. CASE User \/ RenderLater
  BY <1>1 DEF User, RenderLater, SelectCar, ToggleRealtime, ToggleAutoAll, ToggleTestRear,
     TypeIds, EditFrame, handleSendTmsManual, updateTmsState, Render
<1>2. CASE Network \/ Async \/ UNCHANGED vars
  BY <1>2 DEF Network, ReceiveLiveTiming, ReceiveRaceLinks, ReceiveTmsConfig, Answer,
     Async, PostAccepted, PostFails, NextCar, Finish, Untouched, vars, history
<1> QED BY <1>1, <1>2 DEF Next

LEMMA TestNext == Typing /\ OneOK /\ TestOK /\ [Next]_vars => TestOK'
<1> SUFFICES ASSUME Typing, OneOK, TestOK, [Next]_vars,
                    NEW s \in Slot, ~crossed', ~Idle(s)', EnvTest # 0,
                    TestTarget(task'[s].from) # 0
             PROVE  IF task'[s].posts = <<>> THEN TestFrame(screen'[EnvTest], task'[s])
                    ELSE /\ task'[s].posts[Len(task'[s].posts)].link = EnvTest
                         /\ TestFrame(task'[s].posts[Len(task'[s].posts)], task'[s])
  BY DEF TestOK
<1>1. CASE Quiet
  <2>1. CASE task'[s] = task[s]
    <3>1. ~Restart
      BY <1>1, <2>1 DEF Restart, Idle, NoTask
    <3>2. ~crossed
      BY <3>1, CrossedStays
    <3>3. ~Idle(s) /\ TestTarget(task[s].from) # 0
      BY <2>1 DEF Idle
    <3> QED BY <1>1, <2>1, <3>2, <3>3 DEF TestOK, Quiet
  <2>2. CASE Starting(task'[s])
    BY <2>2, StartingTest
  <2> QED BY <1>1, <2>1, <2>2 DEF Quiet
<1>2. CASE Restart
  BY <1>2 DEF Restart, Idle, NoTask
<1>3. ASSUME NEW r \in Slot, PostAccepted(r) \/ PostFails(r) \/ NextCar(r) \/ Finish(r)
      PROVE  IF task'[s].posts = <<>> THEN TestFrame(screen'[EnvTest], task'[s])
             ELSE /\ task'[s].posts[Len(task'[s].posts)].link = EnvTest
                  /\ TestFrame(task'[s].posts[Len(task'[s].posts)], task'[s])
  <2>1. ~crossed
    BY <1>3 DEF PostAccepted, PostFails, NextCar, Finish, Untouched
  <2>2. ~Idle(r)
    BY <1>3 DEF OneOK, PostAccepted, PostFails, NextCar, Finish
  <2>3. \A q \in Slot \ {r} : task'[q] = task[q]
    BY <1>3 DEF Typing, PostAccepted, PostFails, NextCar, Finish, Ends
  <2>4. r = s
    BY <2>1, <2>2, <2>3, NoOther DEF Idle
  <2>5. CASE PostAccepted(s)
    <3>1. PICK posts, post : posts = task[s].posts /\ post = posts[1]
      OBVIOUS
    <3>2. /\ 1 \in DOMAIN posts /\ Len(posts) \in Nat /\ DOMAIN posts = 1 .. Len(posts)
          /\ screen' = [screen EXCEPT ![post.link] =
                          [car |-> post.car, key |-> post.key, says |-> post.says,
                           bytes |-> encodeTmsPayload(post.says)]]
          /\ task'[s] = [kind |-> task[s].kind, from |-> task[s].from, car |-> task[s].car,
                         key |-> task[s].key, posts |-> Tail(posts), queue |-> task[s].queue]
          /\ Tail(posts) \in Seq(Posts) /\ Len(Tail(posts)) = Len(posts) - 1
          /\ \A i \in 1 .. Len(posts) - 1 : Tail(posts)[i] = posts[i + 1]
      BY <2>5, <3>1, AcceptedPost
    <3>3. /\ task'[s].posts = Tail(posts)
          /\ task'[s].from = task[s].from /\ task'[s].car = task[s].car
      BY <3>2
    <3>4. posts[Len(posts)].link = EnvTest /\ TestFrame(posts[Len(posts)], task[s])
      BY <2>1, <2>2, <2>4, <3>1, <3>2, <3>3 DEF TestOK
    <3>5. CASE Len(posts) = 1
      <4>1. Tail(posts) = <<>> /\ post.link = EnvTest /\ TestFrame(post, task[s])
        BY <3>1, <3>2, <3>4, <3>5
      <4>2. EnvTest \in Link
        BY TmsAssumption DEF TmsAssumption
      <4>3. screen'[EnvTest] = [car |-> post.car, key |-> post.key, says |-> post.says,
                                bytes |-> encodeTmsPayload(post.says)]
        BY <3>2, <4>1, <4>2 DEF Typing
      <4>4. screen'[EnvTest].car = post.car /\ screen'[EnvTest].says = post.says
        BY <4>3
      <4> QED BY <3>3, <4>1, <4>4 DEF TestFrame
    <3>6. CASE Len(posts) # 1
      <4>1. Len(posts) - 1 \in 1 .. Len(posts) - 1 /\ Tail(posts) # <<>>
        <5>1. PICK n : n = Len(posts)
          OBVIOUS
        <5>2. n \in Nat /\ 1 \in 1 .. n /\ n # 1
          BY <3>2, <3>6, <5>1
        <5>3. n - 1 \in 1 .. n - 1 /\ n - 1 # 0
          BY <5>2
        <5>4. Len(Tail(posts)) # 0
          BY <3>2, <5>1, <5>3
        <5>5. PICK rest \in Seq(Posts) : rest = Tail(posts)
          BY <3>2
        <5>6. Len(rest) # 0
          BY <5>4, <5>5
        <5>7. rest # <<>>
          BY <5>6
        <5> QED BY <5>1, <5>3, <5>5, <5>7
      <4>2. Tail(posts)[Len(Tail(posts))] = posts[Len(posts)]
        BY <3>2, <4>1
      <4> QED BY <3>3, <3>4, <4>1, <4>2 DEF TestFrame
    <3> QED BY <3>5, <3>6
  <2>6. CASE PostFails(s) \/ Finish(s)
    BY <2>6 DEF PostFails, Finish, Ends, Typing, Idle, NoTask
  <2>7. CASE NextCar(s)
    BY <2>7, NextCarStarts, StartingTest
  <2> QED BY <1>3, <2>4, <2>5, <2>6, <2>7
<1> QED BY <1>1, <1>2, <1>3, NextDispatches

(* Whatever the links, the settings and the order of the answers, a        *)
(* dispatch that has posted all its frames has left its test frame on the  *)
(* test link of the environment, though each of its commands posts there   *)
(* (App.tsx:522, src-tauri/src/lib.rs:870): nothing comes between.           *)
THEOREM TestLinkSafety == Spec => TestLinkShowsTheTestFrame
<1>1. TestOK /\ [Next]_vars =>
        [\A s \in Slot :
           /\ ~Idle(s) /\ task[s].posts = <<>> /\ task'[s] # task[s]
           /\ ~crossed /\ EnvTest # 0 /\ TestTarget(task[s].from) # 0
           => /\ screen[EnvTest].car = task[s].car
              /\ task[s].from.config.testRear => screen[EnvTest].says.rear = task[s].car]_vars
  BY DEF TestOK, TestFrame
<1>2. Init => TestOK
  BY DEF Init, TestOK, Idle, NoTask
<1>3. Init => OneOK
  BY DEF Init, OneOK, OneDispatchAtATime, Running, Idle, NoTask
<1> QED BY <1>1, <1>2, <1>3, InitShapes, ShapesNext, TypingInit, TypingNext, OneNext, TestNext,
           PTL DEF Spec, TestLinkShowsTheTestFrame

-----------------------------------------------------------------------------
(* What the screens show *)

(* Posts are for the car and the key of their dispatch, and a screen that  *)
(* shows a frame with a key shows what the key says.                       *)
OwnOK ==
  /\ \A s \in Slot : TaskPosts(task[s])
  /\ \A l \in Link : Fits(screen[l])

LEMMA ShownFits ==
  ASSUME Typing, OwnOK, NEW post \in Posts, Fits(post),
         screen' = [screen EXCEPT ![post.link] =
                      [car |-> post.car, key |-> post.key, says |-> post.says,
                       bytes |-> encodeTmsPayload(post.says)]]
  PROVE  \A l \in Link : Fits(screen'[l])
<1>1. PICK frame : frame = [car |-> post.car, key |-> post.key, says |-> post.says,
                            bytes |-> encodeTmsPayload(post.says)]
  OBVIOUS
<1>2. Fits(frame)
  BY <1>1 DEF Fits
<1>3. \A l \in Link : screen'[l] = frame \/ screen'[l] = screen[l]
  BY <1>1 DEF Typing
<1> QED BY <1>2, <1>3 DEF OwnOK

LEMMA OwnNext == Typing /\ OwnOK /\ [Next]_vars => OwnOK'
<1> SUFFICES ASSUME Typing, OwnOK, [Next]_vars PROVE OwnOK'
  OBVIOUS
<1>0. TaskPosts(NoTask)
  BY DEF NoTask, TaskPosts
<1>1. CASE Quiet
  BY <1>1 DEF Quiet, OwnOK, Starting
<1>2. CASE Restart
  BY <1>0, <1>2 DEF Restart, OwnOK
<1>3. ASSUME NEW s \in Slot, PostAccepted(s) PROVE OwnOK'
  <2>1. PICK posts, post : posts = task[s].posts /\ post = posts[1]
    OBVIOUS
  <2>2. /\ 1 \in DOMAIN posts /\ DOMAIN posts = 1 .. Len(posts) /\ Len(posts) \in Nat
        /\ post \in Posts
        /\ screen' = [screen EXCEPT ![post.link] =
                        [car |-> post.car, key |-> post.key, says |-> post.says,
                         bytes |-> encodeTmsPayload(post.says)]]
        /\ task'[s] = [kind |-> task[s].kind, from |-> task[s].from, car |-> task[s].car,
                       key |-> task[s].key, posts |-> Tail(posts), queue |-> task[s].queue]
        /\ \A r \in Slot \ {s} : task'[r] = task[r]
        /\ Tail(posts) \in Seq(Posts) /\ Len(Tail(posts)) = Len(posts) - 1
        /\ \A i \in 1 .. Len(posts) - 1 : Tail(posts)[i] = posts[i + 1]
    BY <1>3, <2>1, AcceptedPost
  <2>3. TaskPosts(task[s])
    BY DEF OwnOK
  <2>4. \A l \in Link : Fits(screen'[l])
    BY <2>1, <2>2, <2>3, ShownFits DEF TaskPosts
  <2>5. TaskPosts(task'[s])
    <3>1. PICK t : t = task'[s]
      OBVIOUS
    <3>2. /\ t.posts = Tail(posts) /\ t.car = task[s].car /\ t.key = task[s].key
          /\ t.from = task[s].from
      BY <2>2, <3>1
    <3>3. \A i \in DOMAIN t.posts : i + 1 \in DOMAIN posts /\ t.posts[i] = posts[i + 1]
      BY <2>2, <3>2
    <3>4. TargetsOf(t) = TargetsOf(task[s])
      BY <3>2 DEF TargetsOf
    <3>5. TaskPosts(t)
      BY <2>1, <2>3, <3>2, <3>3, <3>4 DEF TaskPosts
    <3> QED BY <3>1, <3>5
  <2> QED BY <2>2, <2>4, <2>5 DEF OwnOK
<1>4. ASSUME NEW s \in Slot, PostFails(s) \/ Finish(s) PROVE OwnOK'
  <2>1. \A r \in Slot : task'[r] = task[r] \/ task'[r] = NoTask
    BY <1>4 DEF PostFails, Finish, Ends, Typing
  <2>2. \A l \in Link : Fits(screen'[l])
    <3>1. CASE UNCHANGED screen
      BY <3>1 DEF OwnOK
    <3>2. CASE task[s].posts # <<>> /\ Displays(Head(task[s].posts))
      <4>1. PICK posts, post : posts = task[s].posts /\ post = Head(posts)
        OBVIOUS
      <4>2. posts \in Seq(Posts) /\ posts # <<>>
        BY <3>2, <4>1 DEF Typing, TaskTyped, Task
      <4>3. post = posts[1] /\ 1 \in DOMAIN posts /\ post \in Posts
        BY <4>1, <4>2, ElementOfSeq
      <4>4. Fits(post)
        BY <4>1, <4>3 DEF OwnOK, TaskPosts
      <4> QED BY <3>2, <4>1, <4>3, <4>4, ShownFits DEF Displays
    <3> QED BY <1>4, <3>1, <3>2 DEF PostFails, Finish
  <2> QED BY <1>0, <2>1, <2>2 DEF OwnOK
<1>5. ASSUME NEW s \in Slot, NextCar(s) PROVE OwnOK'
  BY <1>5, NextCarStarts DEF OwnOK, Starting
<1> QED BY <1>1, <1>2, <1>3, <1>4, <1>5, NextDispatches

(* Of the links a dispatch of all cars posts to, only the car's own can be *)
(* the link of a car.                                                      *)
IdsOK(config) == config.primary \in GivenIds \cup {0} /\ config.test \in GivenIds \cup {0}

(* A link the car has had, or none. *)
IsLinkOf(link, car) == \E i \in DOMAIN LinkTables : link = LinkTables[i][car]

LEMMA OwnLinkOnly ==
  ASSUME LinksApart, NEW t, t.from \in State, IdsOK(t.from.config),
         t.car \in Car, NEW c \in Car, NEW link, link # 0, IsLinkOf(link, c),
         link \in TargetsOf(t)
  PROVE  t.car = c
<1>0. PICK i \in DOMAIN LinkTables : link = LinkTables[i][c]
  BY DEF IsLinkOf
<1>1. t.from.server.test \in GivenIds \cup {0} /\ EnvTest \in GivenIds
  BY DEF State, NoServer, Server, GivenIds
<1>2. TestTarget(t.from) \in GivenIds \cup {0}
  BY <1>1 DEF TestTarget, IdsOK
<1>3. link \notin GivenIds
  BY <1>0 DEF LinksApart
<1>4. link = PrimaryTarget(t.from, t.car)
  BY <1>1, <1>2, <1>3 DEF TargetsOf
<1>5. link = OwnLink(t.from, t.car)
  BY <1>3, <1>4 DEF PrimaryTarget, IdsOK
<1>6. t.from.links \in DOMAIN LinkTables
  BY DEF State
<1> QED BY <1>0, <1>5, <1>6 DEF LinksApart, OwnLink

(* As long as nothing but the loop over all cars has been at the screens:  *)
(* what it remembers of a car is on the screen of the link the car had     *)
(* then, if it had one, or a dispatch is about to post it there.           *)
Arrives(c) ==
  LET link == sentTo[c]
  IN  \/ screen[link].key = lastAll[c]
      \/ \E s \in Slot : /\ task[s].car = c /\ task[s].key = lastAll[c]
                         /\ \E i \in DOMAIN task[s].posts : task[s].posts[i].link = link

SentOK ==
  ~touched =>
    /\ IdsOK(latest.config) /\ IdsOK(view.config) /\ IdsOK(storage)
    /\ \A s \in Slot : IdsOK(task[s].from.config) /\ task[s].kind \in {"none", "all"}
    /\ \A c \in Car : IsLinkOf(sentTo[c], c)
    /\ ~crossed => /\ \A s \in Slot : ~Idle(s) => lastAll[task[s].car] = task[s].key
                   /\ \A c \in Car : lastAll[c] # NoKey /\ sentTo[c] # 0 => Arrives(c)

LEMMA RenderIds ==
  ASSUME Typing, NEW state \in State, NEW clicked, Render(state, clicked), IdsOK(state.config),
         IdsOK(storage)
  PROVE  IdsOK(latest'.config) /\ IdsOK(view'.config) /\ IdsOK(storage')
<1> DEFINE board  == Boards[state.live]
           entry  == EntryOf(board, state.config.selected)
           filled == IF state.server # view.server THEN FilledIn(state.config, state.server)
                     ELSE state.config
           first  == FirstSelected(filled, board)
           shown  == ShownFor(state, first, entry, memory')
<1>1. state.config \in Config /\ IdsOK(state.config)
  BY DEF State
<1>2. state.server.primary \in GivenIds \cup {0} /\ state.server.test \in GivenIds \cup {0}
  BY DEF State, NoServer, Server, GivenIds
<1>3. filled \in Config /\ IdsOK(filled)
  <2>1. FilledIn(state.config, state.server) \in Config
    BY <1>1, ConfigTyped
  <2>2. IdsOK(FilledIn(state.config, state.server))
    BY <1>1, <1>2 DEF FilledIn, IdsOK, Config
  <2> QED BY <1>1, <2>1, <2>2
<1>4. first \in Config /\ IdsOK(first)
  <2>1. first \in Config
    BY <1>3, ConfigTyped
  <2> HIDE DEF filled
  <2>2. first.primary = filled.primary /\ first.test = filled.test
    BY <1>3 DEF FirstSelected, Config
  <2> QED BY <1>3, <2>1, <2>2 DEF IdsOK
<1>5. IdsOK(shown)
  <2> HIDE DEF first
  <2>1. shown.primary = first.primary /\ shown.test = first.test
    BY <1>4 DEF ShownFor, Config
  <2> QED BY <1>4, <2>1 DEF IdsOK
<1>6. PICK config, sending, logged :
        /\ config = first \/ config = shown
        /\ latest' = [state EXCEPT !.fresh = FALSE, !.logged = logged, !.config = config,
                                   !.sending = sending]
  BY DEF Render
<1>7. latest'.config = config
  BY <1>6 DEF State
<1>8. view' = [state EXCEPT !.fresh = FALSE, !.logged = FALSE]
  BY DEF Render
<1>9. view'.config = state.config
  BY <1>8 DEF State
<1>10. storage' = state.config \/ storage' = storage
  BY DEF Render
<1> QED BY <1>1, <1>4, <1>5, <1>6, <1>7, <1>9, <1>10

(* The link that goes with a key is one the car has. *)
LEMMA MarkedLinks ==
  ASSUME Typing, NEW state \in State,
         NEW places \in SUBSET DOMAIN Boards[state.live], places # {},
         sentTo' = MarkLink(state, places), \A c \in Car : IsLinkOf(sentTo[c], c)
  PROVE  \A c \in Car : IsLinkOf(sentTo'[c], c)
<1>1. PICK entry \in EntryType : entry = NextEntry(state, places)
  BY NextEntryTyped DEF State
<1>2. \A c \in Car : sentTo'[c] = IF c = entry.car THEN OwnLink(state, c) ELSE sentTo[c]
  BY <1>1 DEF MarkLink, Typing
<1> QED BY <1>2 DEF IsLinkOf, OwnLink, State

(* The loop comes to a car: it remembers the car's key, and is about to    *)
(* post to the link the car has then.                                      *)
LEMMA MarkedArrives ==
  ASSUME Typing, NEW s \in Slot, NEW state \in State, NEW mem,
         NEW places \in SUBSET DOMAIN Boards[state.live], places # {},
         task'[s] = Round(state, mem, places), lastAll' = MarkSent(state, places),
         sentTo' = MarkLink(state, places),
         \A r \in Slot \ {s} : task'[r] = task[r] /\ Idle(r),
         task[s].posts = <<>>, screen' = screen,
         \A c \in Car : lastAll[c] # NoKey /\ sentTo[c] # 0 => Arrives(c)
  PROVE  /\ \A r \in Slot : ~Idle(r)' => lastAll'[task'[r].car] = task'[r].key
         /\ \A c \in Car : lastAll'[c] # NoKey /\ sentTo'[c] # 0 => Arrives(c)'
<1>1. PICK entry \in EntryType : entry = NextEntry(state, places)
  BY NextEntryTyped DEF State
<1>2. PICK round : /\ round = Round(state, mem, places) /\ Starting(round)
                   /\ round.car = entry.car /\ round.key = Key(entry) /\ round.from = state
  BY <1>1, RoundStarts, RoundOK DEF Round, Dispatch
<1>3. lastAll' = [lastAll EXCEPT ![entry.car] = Key(entry)] /\ entry.car \in Car
  BY <1>1 DEF MarkSent, EntryType
<1>4. /\ lastAll'[entry.car] = Key(entry)
      /\ \A c \in Car \ {entry.car} : lastAll'[c] = lastAll[c]
  BY <1>3 DEF Typing
<1>5. /\ sentTo'[entry.car] = OwnLink(state, entry.car)
      /\ \A c \in Car \ {entry.car} : sentTo'[c] = sentTo[c]
  BY <1>1, <1>3 DEF MarkLink, Typing
<1>6. \A r \in Slot : ~Idle(r)' => lastAll'[task'[r].car] = task'[r].key
  BY <1>2, <1>4 DEF Idle
<1>7. ASSUME NEW c \in Car, lastAll'[c] # NoKey, sentTo'[c] # 0 PROVE Arrives(c)'
  <2>1. CASE c = entry.car
    <3>1. PrimaryTarget(round.from, round.car) = sentTo'[c]
      BY <1>2, <1>7, <1>5, <2>1 DEF PrimaryTarget
    <3>2. \E i \in DOMAIN round.posts : round.posts[i].link = sentTo'[c]
      BY <1>2, <1>7, <3>1 DEF Starting
    <3> QED BY <1>2, <1>4, <2>1, <3>2 DEF Arrives
  <2>2. CASE c # entry.car
    <3>1. lastAll'[c] = lastAll[c] /\ sentTo'[c] = sentTo[c] /\ Arrives(c)
      BY <1>4, <1>7, <1>5, <2>2
    <3>2. CASE screen[sentTo[c]].key = lastAll[c]
      BY <3>1, <3>2 DEF Arrives
    <3>3. CASE screen[sentTo[c]].key # lastAll[c]
      <4>1. PICK r \in Slot : /\ task[r].car = c /\ task[r].key = lastAll[c]
                              /\ \E i \in DOMAIN task[r].posts :
                                   task[r].posts[i].link = sentTo[c]
        BY <3>1, <3>3 DEF Arrives
      <4>2. r # s
        <5>1. DOMAIN <<>> = {}
          OBVIOUS
        <5> QED BY <4>1, <5>1
      <4>3. task'[r] = task[r]
        BY <4>2
      <4> QED BY <3>1, <4>1, <4>3 DEF Arrives
    <3> QED BY <3>2, <3>3
  <2> QED BY <2>1, <2>2
<1> QED BY <1>6, <1>7

LEMMA SentInRender ==
  ASSUME Typing, OneOK, SentOK, User \/ RenderLater
  PROVE  SentOK'
<1> SUFFICES ASSUME ~touched'
             PROVE  /\ IdsOK(latest'.config) /\ IdsOK(view'.config) /\ IdsOK(storage')
                    /\ \A s \in Slot : IdsOK(task'[s].from.config) /\ task'[s].kind \in {"none", "all"}
                    /\ \A c \in Car : IsLinkOf(sentTo'[c], c)
                    /\ ~crossed' =>
                         /\ \A s \in Slot : ~Idle(s)' => lastAll'[task'[s].car] = task'[s].key
                         /\ \A c \in Car : lastAll'[c] # NoKey /\ sentTo'[c] # 0
                                             => Arrives(c)'
  BY DEF SentOK
<1>1. PICK state, clicked :
        /\ state \in State /\ Render(state, clicked)
        /\ \/ clicked = NoTask /\ state.sending = latest.sending
           \/ clicked.kind = "manual" /\ state.sending /\ Starting(clicked)
        /\ state.live = latest.live /\ state.fresh = latest.fresh
        /\ state.links = latest.links /\ state.server = latest.server
        /\ state.config.primary \in {latest.config.primary} \cup Typed
        /\ state.config.test \in {latest.config.test} \cup Typed
        /\ screen' = screen
  BY RendersOf
<1>2. PICK realtime, all, rt, config : RenderDoes(state, clicked, realtime, all, rt, config)
  BY <1>1, RenderParts
<1>3. clicked = NoTask /\ ~realtime /\ ~touched
  BY <1>2 DEF RenderDoes
<1>4. IdsOK(state.config) /\ IdsOK(storage)
  BY <1>1, <1>3 DEF SentOK, IdsOK, GivenIds
<1>5. IdsOK(latest'.config) /\ IdsOK(view'.config) /\ IdsOK(storage')
  BY <1>1, <1>4, RenderIds
<1>6. PICK places : places = PendingEntries(state)
  OBVIOUS
<1>7. PICK round : /\ round = Round(state, memory', places)
                   /\ round.kind = "all" /\ round.from = state
  BY RoundOK
<1>8. PICK started : started = (IF all THEN {round} ELSE {}) /\ Starts(started)
  BY <1>2, <1>3, <1>6, <1>7 DEF RenderDoes
<1>9. /\ \A s \in Slot : task'[s] = task[s] \/ (Idle(s) /\ task'[s] \in started)
      /\ \A d \in started : \E s \in Slot : Idle(s) /\ task'[s] = d
      /\ (\A d, e \in started : d = e) =>
           \A r, s \in Slot : task'[r] # task[r] /\ task'[s] # task[s] => r = s
  BY <1>8, StartsTakes
<1>10. \A s \in Slot : IdsOK(task'[s].from.config) /\ task'[s].kind \in {"none", "all"}
  BY <1>3, <1>4, <1>7, <1>8, <1>9 DEF SentOK
<1>11. \A c \in Car : IsLinkOf(sentTo'[c], c)
  <2>1. \A c \in Car : IsLinkOf(sentTo[c], c)
    BY <1>3 DEF SentOK
  <2>2. CASE ~all
    <3>1. sentTo' = sentTo
      BY <1>2, <2>2 DEF RenderDoes
    <3> QED BY <2>1, <3>1
  <2>3. CASE all
    <3>1. WantsAll(state) /\ sentTo' = MarkLink(state, places)
      BY <1>2, <1>6, <2>3 DEF RenderDoes
    <3>2. places # {} /\ places \in SUBSET DOMAIN Boards[state.live]
      BY <1>6, <3>1 DEF WantsAll, HasPending, PendingEntries
    <3> QED BY <1>1, <2>1, <3>1, <3>2, MarkedLinks
  <2> QED BY <1>2, <2>2, <2>3 DEF RenderDoes
<1>12. ASSUME ~crossed'
       PROVE  /\ \A s \in Slot : ~Idle(s)' => lastAll'[task'[s].car] = task'[s].key
              /\ \A c \in Car : lastAll'[c] # NoKey /\ sentTo'[c] # 0 => Arrives(c)'
  <2>1. ~crossed
    BY <1>2, <1>12 DEF RenderDoes
  <2>2. /\ \A s \in Slot : ~Idle(s) => lastAll[task[s].car] = task[s].key
        /\ \A c \in Car : lastAll[c] # NoKey /\ sentTo[c] # 0 => Arrives(c)
    BY <1>3, <2>1 DEF SentOK
  <2>3. CASE ~all
    <3>1. lastAll' = lastAll /\ sentTo' = sentTo /\ \A s \in Slot : task'[s] = task[s]
      BY <1>2, <1>8, <1>9, <2>3 DEF RenderDoes
    <3> QED BY <1>1, <2>2, <3>1 DEF Arrives, Idle
  <2>4. CASE all
    <3>1. PICK s \in Slot : Idle(s) /\ task'[s] = round
      BY <1>8, <1>9, <2>4
    <3>2. WantsAll(state) /\ lastAll' = MarkSent(state, places) /\ sentTo' = MarkLink(state, places)
      BY <1>2, <1>6, <2>4 DEF RenderDoes
    <3>3. ~Running
      BY <1>1, <1>3, <2>1, <3>2 DEF WantsAll, OneOK, OneDispatchAtATime, NoTask
    <3>4. \A r \in Slot : Idle(r)
      BY <3>3 DEF Running
    <3>5. \A r \in Slot \ {s} : task'[r] = task[r]
      <4>1. \A d, e \in started : d = e
        BY <1>8
      <4>2. task'[s] # task[s]
        BY <1>7, <3>1 DEF Idle
      <4> QED BY <1>9, <4>1, <4>2
    <3>6. task[s].posts = <<>>
      BY <3>1 DEF OneOK
    <3>7. places # {} /\ places \in SUBSET DOMAIN Boards[state.live]
      BY <1>6, <3>2 DEF WantsAll, HasPending, PendingEntries
    <3> QED BY <1>1, <1>7, <2>2, <3>1, <3>2, <3>4, <3>5, <3>6, <3>7, MarkedArrives
  <2> QED BY <1>2, <2>3, <2>4 DEF RenderDoes
<1> QED BY <1>5, <1>10, <1>11, <1>12

(* A frame is accepted: if its dispatch is the one that remembered the     *)
(* car's key, the car's screen shows that key from then on.                *)
LEMMA AcceptedArrives ==
  ASSUME LinksApart, Typing, OwnOK, NEW s \in Slot, PostAccepted(s), NEW c \in Car,
         lastAll[c] # NoKey, sentTo[c] # 0, IsLinkOf(sentTo[c], c), Arrives(c),
         IdsOK(task[s].from.config), task[s].kind = "all", lastAll[task[s].car] = task[s].key
  PROVE  Arrives(c)'
<1>1. PICK posts, post : posts = task[s].posts /\ post = posts[1]
  OBVIOUS
<1>2. /\ 1 \in DOMAIN posts /\ DOMAIN posts = 1 .. Len(posts) /\ Len(posts) \in Nat
      /\ post \in Posts
      /\ screen' = [screen EXCEPT ![post.link] =
                      [car |-> post.car, key |-> post.key, says |-> post.says,
                       bytes |-> encodeTmsPayload(post.says)]]
      /\ task'[s] = [kind |-> task[s].kind, from |-> task[s].from, car |-> task[s].car,
                     key |-> task[s].key, posts |-> Tail(posts), queue |-> task[s].queue]
      /\ \A r \in Slot \ {s} : task'[r] = task[r]
      /\ Tail(posts) \in Seq(Posts) /\ Len(Tail(posts)) = Len(posts) - 1
      /\ \A i \in 1 .. Len(posts) - 1 : Tail(posts)[i] = posts[i + 1]
  BY <1>1, AcceptedPost
<1>3. PICK link \in Link : link = sentTo[c]
  BY DEF Typing
<1>4. lastAll' = lastAll /\ sentTo' = sentTo
  BY DEF PostAccepted
<1>5. TaskPosts(task[s]) /\ task[s].from \in State /\ post.car \in Car
  BY <1>2 DEF OwnOK, Typing, TaskTyped, Task, Posts
<1>6. post.car = task[s].car /\ post.key = task[s].key /\ post.link \in TargetsOf(task[s])
  BY <1>1, <1>2, <1>5 DEF TaskPosts
<1>7. screen'[link].key = IF post.link = link THEN post.key ELSE screen[link].key
  BY <1>2, <1>3 DEF Typing
<1>8. CASE post.link = link
  <2>1. task[s].car = c
    BY <1>3, <1>5, <1>6, <1>8, OwnLinkOnly DEF Posts
  <2> QED BY <1>3, <1>4, <1>6, <1>7, <1>8, <2>1 DEF Arrives
<1>9. CASE post.link # link /\ screen[link].key = lastAll[c]
  BY <1>3, <1>4, <1>7, <1>9 DEF Arrives
<1>10. CASE post.link # link /\ screen[link].key # lastAll[c]
  <2>1. PICK r \in Slot : /\ task[r].car = c /\ task[r].key = lastAll[c]
                          /\ \E i \in DOMAIN task[r].posts : task[r].posts[i].link = link
    BY <1>3, <1>10 DEF Arrives
  <2>2. CASE r # s
    <3>1. task'[r] = task[r]
      BY <1>2, <2>2
    <3> QED BY <1>3, <1>4, <2>1, <3>1 DEF Arrives
  <2>3. CASE r = s
    <3>1. PICK t : t = task'[s]
      OBVIOUS
    <3>2. t.posts = Tail(posts) /\ t.car = task[s].car /\ t.key = task[s].key
      BY <1>2, <3>1
    <3>3. PICK i \in 1 .. Len(posts) : posts[i].link = link
      BY <1>1, <1>2, <2>1, <2>3
    <3>4. i # 1
      BY <1>1, <1>10, <3>3
    <3>5. i - 1 \in DOMAIN t.posts /\ t.posts[i - 1] = posts[i]
      <4>1. i - 1 \in 1 .. Len(posts) - 1 /\ (i - 1) + 1 = i
        BY <1>2, <3>3, <3>4
      <4>2. DOMAIN Tail(posts) = 1 .. Len(posts) - 1
        BY <1>2
      <4>3. Tail(posts)[i - 1] = posts[i]
        BY <1>2, <4>1
      <4> QED BY <3>2, <4>1, <4>2, <4>3
    <3>6. t.posts[i - 1].link = link
      BY <3>3, <3>5
    <3> QED BY <1>3, <1>4, <2>1, <2>3, <3>1, <3>2, <3>5, <3>6 DEF Arrives
  <2> QED BY <2>2, <2>3
<1> QED BY <1>8, <1>9, <1>10

LEMMA SentInAsync ==
  ASSUME LinksApart, Typing, OneOK, OwnOK, SentOK, NEW s \in Slot,
         PostAccepted(s) \/ PostFails(s) \/ NextCar(s) \/ Finish(s)
  PROVE  SentOK'
<1> SUFFICES ASSUME ~touched'
             PROVE  /\ IdsOK(latest'.config) /\ IdsOK(view'.config) /\ IdsOK(storage')
                    /\ \A r \in Slot : IdsOK(task'[r].from.config) /\ task'[r].kind \in {"none", "all"}
                    /\ \A c \in Car : IsLinkOf(sentTo'[c], c)
                    /\ ~crossed' =>
                         /\ \A r \in Slot : ~Idle(r)' => lastAll'[task'[r].car] = task'[r].key
                         /\ \A c \in Car : lastAll'[c] # NoKey /\ sentTo'[c] # 0
                                             => Arrives(c)'
  BY DEF SentOK
<1>1. ~touched /\ ~PostFails(s)
  BY DEF PostAccepted, PostFails, NextCar, Finish
<1>2. /\ IdsOK(latest.config) /\ IdsOK(view.config) /\ IdsOK(storage)
      /\ \A r \in Slot : IdsOK(task[r].from.config) /\ task[r].kind \in {"none", "all"}
      /\ \A c \in Car : IsLinkOf(sentTo[c], c)
      /\ ~crossed => /\ \A r \in Slot : ~Idle(r) => lastAll[task[r].car] = task[r].key
                     /\ \A c \in Car : lastAll[c] # NoKey /\ sentTo[c] # 0 => Arrives(c)
  BY <1>1 DEF SentOK
<1>3. view' = view /\ storage' = storage /\ crossed' = crossed
  BY DEF PostAccepted, PostFails, NextCar, Finish, Untouched
<1>4. IdsOK(latest'.config)
  <2>1. \/ latest' = latest
        \/ latest' = [latest EXCEPT !.logged = TRUE]
        \/ latest' = [latest EXCEPT !.sending = FALSE, !.logged = TRUE]
    BY DEF PostAccepted, PostFails, NextCar, Finish, Ends
  <2>2. latest'.config = latest.config
    BY <2>1 DEF Typing, State
  <2> QED BY <1>2, <2>2
<1>5. ~Idle(s)
  BY DEF OneOK, PostAccepted, PostFails, NextCar, Finish
<1>6. crossed \/ \A r \in Slot \ {s} : Idle(r)
  BY <1>5, NoOther
<1>7. task[s].kind = "all"
  BY <1>2, <1>5 DEF Idle
<1>8. CASE PostAccepted(s)
  <2>1. /\ \A r \in Slot \ {s} : task'[r] = task[r]
        /\ task'[s].kind = task[s].kind /\ task'[s].from = task[s].from
        /\ task'[s].car = task[s].car /\ task'[s].key = task[s].key
    <3>1. PICK t : t = task'[s]
      OBVIOUS
    <3>2. t = [kind |-> task[s].kind, from |-> task[s].from, car |-> task[s].car,
               key |-> task[s].key, posts |-> Tail(task[s].posts), queue |-> task[s].queue]
      BY <1>8, <3>1, AcceptedPost
    <3>3. \A r \in Slot \ {s} : task'[r] = task[r]
      BY <1>8, AcceptedPost
    <3> QED BY <3>1, <3>2, <3>3
  <2>2. lastAll' = lastAll /\ sentTo' = sentTo
    BY <1>8 DEF PostAccepted
  <2>3. \A r \in Slot : IdsOK(task'[r].from.config) /\ task'[r].kind \in {"none", "all"}
    BY <1>2, <2>1
  <2>4. ~crossed => \A r \in Slot : ~Idle(r)' => lastAll'[task'[r].car] = task'[r].key
    BY <1>2, <2>1, <2>2 DEF Idle
  <2>5. ASSUME ~crossed, NEW c \in Car, lastAll'[c] # NoKey, sentTo'[c] # 0
        PROVE  Arrives(c)'
    BY <1>2, <1>5, <1>7, <1>8, <2>2, <2>5, AcceptedArrives
  <2> QED BY <1>2, <1>3, <1>4, <2>2, <2>3, <2>4, <2>5
<1>9. CASE NextCar(s)
  <2>0. PICK from \in State : from = task[s].from
    BY DEF Typing, TaskTyped, Task
  <2>1. PICK places \in SUBSET DOMAIN Boards[from.live] : places = task[s].queue /\ places # {}
    BY <1>9, <2>0 DEF Typing, TaskTyped, NextCar
  <2>2. /\ task'[s] = Round(from, memory, places)
        /\ \A r \in Slot \ {s} : task'[r] = task[r]
        /\ screen' = screen
    BY <1>9, <2>0, <2>1, NextCarStarts
  <2>3. /\ lastAll' = MarkSent(from, places) /\ task[s].posts = <<>>
        /\ sentTo' = MarkLink(from, places)
    BY <1>9, <2>0, <2>1 DEF NextCar
  <2>4. IdsOK(from.config) /\ \A c \in Car : IsLinkOf(sentTo'[c], c)
    BY <1>2, <2>0, <2>1, <2>3, MarkedLinks
  <2>5. task'[s].kind = "all" /\ task'[s].from = from
    BY <2>2, RoundOK
  <2>6. \A r \in Slot : IdsOK(task'[r].from.config) /\ task'[r].kind \in {"none", "all"}
    BY <1>2, <2>2, <2>4, <2>5
  <2>7. ~crossed => /\ \A r \in Slot : ~Idle(r)' => lastAll'[task'[r].car] = task'[r].key
                    /\ \A c \in Car : lastAll'[c] # NoKey /\ sentTo'[c] # 0
                                          => Arrives(c)'
    BY <1>2, <1>6, <2>1, <2>2, <2>3, MarkedArrives
  <2> QED BY <1>2, <1>3, <1>4, <2>4, <2>6, <2>7
<1>10. CASE Finish(s)
  <2>1. /\ task'[s] = NoTask /\ \A r \in Slot \ {s} : task'[r] = task[r]
        /\ task[s].posts = <<>> /\ lastAll' = lastAll /\ screen' = screen
        /\ sentTo' = sentTo
    BY <1>10 DEF Finish, Ends, Typing
  <2>2. IdsOK(NoTask.from.config) /\ NoTask.kind = "none"
    BY DEF NoTask, Mounted, defaultTmsUiConfig, IdsOK
  <2>3. \A r \in Slot : IdsOK(task'[r].from.config) /\ task'[r].kind \in {"none", "all"}
    BY <1>2, <2>1, <2>2
  <2>4. ~crossed => \A r \in Slot : ~Idle(r)' => lastAll'[task'[r].car] = task'[r].key
    BY <1>2, <2>1, <2>2 DEF Idle
  <2>5. ASSUME ~crossed, NEW c \in Car, lastAll'[c] # NoKey, sentTo'[c] # 0
        PROVE  Arrives(c)'
    <3>1. Arrives(c)
      BY <1>2, <2>1, <2>5
    <3>2. CASE screen[sentTo[c]].key = lastAll[c]
      BY <2>1, <3>2 DEF Arrives
    <3>3. CASE screen[sentTo[c]].key # lastAll[c]
      <4>1. PICK r \in Slot : /\ task[r].car = c /\ task[r].key = lastAll[c]
                              /\ \E i \in DOMAIN task[r].posts :
                                   task[r].posts[i].link = sentTo[c]
        BY <3>1, <3>3 DEF Arrives
      <4>2. r # s
        <5>1. DOMAIN <<>> = {}
          OBVIOUS
        <5> QED BY <2>1, <4>1, <5>1
      <4>3. task'[r] = task[r]
        BY <2>1, <4>2
      <4> QED BY <2>1, <4>1, <4>3 DEF Arrives
    <3> QED BY <3>2, <3>3
  <2> QED BY <1>2, <1>3, <1>4, <2>1, <2>3, <2>4, <2>5
<1> QED BY <1>1, <1>8, <1>9, <1>10

(* Before the first telemetry no car has a link. *)
LEMMA NoLinkYet == \A c \in Car : IsLinkOf(0, c)
<1>1. 1 \in DOMAIN LinkTables
  BY TmsAssumption DEF TmsAssumption
<1>2. \A c \in Car : LinkTables[1][c] = 0
  BY TmsAssumption DEF TmsAssumption
<1> QED BY <1>1, <1>2 DEF IsLinkOf

LEMMA SentNext ==
  LinksApart /\ Typing /\ OneOK /\ OwnOK /\ SentOK /\ [Next]_vars => SentOK'
<1> SUFFICES ASSUME LinksApart, Typing, OneOK, OwnOK, SentOK, [Next]_vars PROVE SentOK'
  OBVIOUS
<1>1. CASE User \/ RenderLater
  BY <1>1, SentInRender
<1>2. CASE Network
  <2>1. /\ UNCHANGED <<view, storage, task, lastAll, screen, sentTo, crossed, touched>>
        /\ \/ \E x : latest' = [latest EXCEPT !.live = x, !.fresh = TRUE]
           \/ \E x : latest' = [latest EXCEPT !.links = x]
           \/ \E x : latest' = [latest EXCEPT !.server = x]
    BY <1>2 DEF Network, ReceiveLiveTiming, ReceiveRaceLinks, ReceiveTmsConfig, Answer, Event
  <2>2. latest'.config = latest.config
    BY <2>1 DEF Typing, State
  <2>3. \A c \in Car : Arrives(c)' <=> Arrives(c)
    BY <2>1 DEF Arrives
  <2>4. \A s \in Slot : Idle(s)' <=> Idle(s)
    BY <2>1 DEF Idle
  <2> QED BY <2>1, <2>2, <2>3, <2>4 DEF SentOK
<1>3. CASE Async
  BY <1>3, SentInAsync DEF Async
<1>4. CASE Restart
  <2>1. Mounted(storage).config = storage
    BY DEF Mounted
  <2>2. IdsOK(NoTask.from.config) /\ NoTask.kind = "none"
    BY DEF NoTask, Mounted, defaultTmsUiConfig, IdsOK
  <2>3. /\ latest' = Mounted(storage) /\ view' = Mounted(storage) /\ storage' = storage
        /\ \A s \in Slot : task'[s] = NoTask
        /\ \A c \in Car : lastAll'[c] = NoKey /\ sentTo'[c] = 0
        /\ touched' = touched
    BY <1>4 DEF Restart
  <2>4. touched \/ (IdsOK(latest'.config) /\ IdsOK(view'.config) /\ IdsOK(storage'))
    BY <2>1, <2>3 DEF SentOK
  <2>5. \A s \in Slot : Idle(s)' /\ IdsOK(task'[s].from.config) /\ task'[s].kind \in {"none", "all"}
    BY <2>2, <2>3 DEF Idle
  <2>6. \A c \in Car : IsLinkOf(sentTo'[c], c)
    BY <2>3, NoLinkYet
  <2> QED BY <2>3, <2>4, <2>5, <2>6 DEF SentOK
<1>5. CASE UNCHANGED vars
  <2>1. \A c \in Car : Arrives(c)' <=> Arrives(c)
    BY <1>5 DEF Arrives, vars, history
  <2> QED BY <1>5, <2>1 DEF SentOK, Idle, vars, history
<1> QED BY <1>1, <1>2, <1>3, <1>4, <1>5 DEF Next

LEMMA SentInit == Init => OwnOK /\ SentOK
<1> SUFFICES ASSUME Init PROVE OwnOK /\ SentOK
  OBVIOUS
<1>0. \A config : Mounted(config).config = config
  BY DEF Mounted
<1>1. PICK config \in Stored : view = Mounted(config) /\ storage = config
  BY <1>0 DEF Init
<1>2. IdsOK(view.config) /\ IdsOK(storage)
  BY <1>0, <1>1 DEF IdsOK, GivenIds
<1>3. IdsOK(NoTask.from.config) /\ NoTask.kind = "none" /\ TaskPosts(NoTask)
  BY DEF NoTask, Mounted, defaultTmsUiConfig, IdsOK, TaskPosts
<1>4. Fits(Blank)
  BY DEF Blank, Fits
<1>5. /\ \A s \in Slot : task[s] = NoTask
      /\ \A c \in Car : lastAll[c] = NoKey /\ sentTo[c] = 0
      /\ \A l \in Link : screen[l] = Blank
      /\ latest = view
  BY DEF Init
<1>6. OwnOK
  BY <1>3, <1>4, <1>5 DEF OwnOK
<1>7. SentOK
  BY <1>2, <1>3, <1>5, NoLinkYet DEF SentOK, Idle
<1> QED BY <1>6, <1>7

(* At rest nothing is on its way, so what is remembered is on the screens. *)
LEMMA SentIsCurrent ==
  LinksApart /\ Typing /\ OneOK /\ OwnOK /\ SentOK /\ RestMeansDone => ScreensCurrent
<1> SUFFICES ASSUME LinksApart, Typing, OneOK, OwnOK, SentOK, RestMeansDone,
                    view.config.autoAll, view = latest, ~Running, ~touched, ~crossed,
                    NEW k \in DOMAIN Shown, NEW entry, entry = Shown[k],
                    OwnLink(view, entry.car) # 0,
                    sentTo[entry.car] = OwnLink(view, entry.car), entry.passage > 0
             PROVE  LET link == OwnLink(view, entry.car)
                    IN  /\ screen[link].car = entry.car
                        /\ screen[link].says.position = entry.position
                        /\ screen[link].says.lap = resolveLapMetric(entry)
  BY DEF ScreensCurrent
<1>1. entry \in EntryType /\ entry.car \in Car
  <2>1. PICK i \in 0 .. Len(Feed) : i = view.live /\ Shown = Boards[i]
    BY DEF Typing, State, Shown
  <2> QED BY <2>1, BoardTyped DEF EntryType
<1>2. view \in State
  BY DEF Typing
<1>3. PICK link \in Link : link = OwnLink(view, entry.car) /\ link = sentTo[entry.car]
  BY <1>1, <1>2, OwnLinkTyped
<1>4. lastAll[entry.car] = Key(entry)
  <2>1. ~HasPending(view)
    BY DEF RestMeansDone
  <2>2. ~IsPending(entry)
    BY <2>1 DEF HasPending, PendingEntries, Shown
  <2> QED BY <2>2 DEF IsPending
<1>5. Key(entry) # NoKey
  <2>1. PICK key : key = Key(entry)
    OBVIOUS
  <2>2. key = <<entry.car, entry.passage, entry.position, entry.last, entry.best>>
    BY <2>1 DEF Key
  <2>3. 1 \in DOMAIN key
    BY <2>2
  <2>4. DOMAIN NoKey = {}
    BY DEF NoKey
  <2> QED BY <2>1, <2>3, <2>4
<1>6. Arrives(entry.car)
  BY <1>1, <1>3, <1>4, <1>5 DEF SentOK
<1>7. \A s \in Slot : DOMAIN task[s].posts = {}
  <2>1. \A s \in Slot : task[s].posts = <<>>
    BY DEF OneOK, Running
  <2>2. DOMAIN <<>> = {}
    OBVIOUS
  <2> QED BY <2>1, <2>2
<1>8. screen[link].key = Key(entry)
  BY <1>3, <1>4, <1>6, <1>7 DEF Arrives
<1>9. PICK key : key = Key(entry)
  OBVIOUS
<1>10. key[1] = entry.car /\ key[3] = entry.position /\ LapOf(key) = resolveLapMetric(entry)
  <2>1. resolveLapMetric(entry) = LapOf(Key(entry))
    BY <1>1 DEF resolveLapMetric, AtLeastZero, LapOf, Key, EntryType
  <2>2. Key(entry)[1] = entry.car /\ Key(entry)[3] = entry.position
    BY DEF Key
  <2> QED BY <1>9, <2>1, <2>2
<1>11. PICK frame : frame = screen[link]
  OBVIOUS
<1>12. Fits(frame) /\ frame.key = key /\ key # NoKey
  BY <1>5, <1>8, <1>9, <1>11 DEF OwnOK
<1>13. /\ frame.car = entry.car /\ frame.says.position = entry.position
       /\ frame.says.lap = resolveLapMetric(entry)
  BY <1>10, <1>12 DEF Fits
<1> QED BY <1>3, <1>11, <1>13

(* Once the loop over all cars (App.tsx:683) rests, a car's display shows  *)
(* the times the page shows if only that loop has sent, nothing has failed *)
(* and the car has the link it had when its times were marked as sent:     *)
(* whatever snapshots and links arrived while it ran, from a start without *)
(* any link.  A link must never be one car's and then another's, nor be    *)
(* among the ids that a post for another car may go to.                    *)
THEOREM ScreensSafety == LinksApart => (Spec => []ScreensCurrent)
<1> SUFFICES ASSUME LinksApart PROVE Spec => []ScreensCurrent
  OBVIOUS
<1>1. Init => OneOK
  BY DEF Init, OneOK, OneDispatchAtATime, Running, Idle, NoTask
<1>2. Typing /\ OneOK /\ OwnOK /\ SentOK /\ [Next]_vars => SentOK'
  BY SentNext
<1>3. Typing /\ OneOK /\ OwnOK /\ SentOK /\ RestMeansDone => ScreensCurrent
  BY SentIsCurrent
<1> QED BY <1>1, <1>2, <1>3, InitShapes, ShapesNext, TypingInit, TypingNext, OneNext, OwnNext,
           SentInit, RestSafety, PTL DEF Spec

=============================================================================
