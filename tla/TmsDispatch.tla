---------------------------- MODULE TmsDispatch ----------------------------
(***************************************************************************)
(* The TMS race display of the workspace window: the state and the effects *)
(* of src/web/src/App.tsx that send frames to the displays in the cars,    *)
(* the page src/web/src/pages/race-control/tms.tsx that controls them, and *)
(* send_tms_can of the desktop shell, src/web/src-tauri/src/lib.rs.        *)
(*                                                                         *)
(* React.  latest is the state with every update that has been asked for,  *)
(* view the state of the last render, which the page shows and which the   *)
(* handlers and the effects of that render read.  A render runs its        *)
(* effects, in the order of the source; the updates they ask for wait for  *)
(* the next one.  React renders before the next event after a click or an  *)
(* input, and later, after other events, for an update that an answer or   *)
(* an effect asks for.                                                     *)
(*                                                                         *)
(* The asynchronous functions that dispatch frames run in slots.  Each     *)
(* goes on with the state of the render that started it, but reads the     *)
(* refs (memory) as they are when it continues.                            *)
(***************************************************************************)
EXTENDS TmsPacket, SequencesExt, FiniteSetsExt

CONSTANTS
  Car,          (* car numbers                                            *)
  Link,         (* ids of race links                                      *)
  Feed,         (* the live timing snapshots that may be received         *)
  LinkTables,   (* tables of race links; the first, before any is         *)
                (* received, is empty                                     *)
  EnvPrimary,   (* the ids of the shell's environment, 0 when not set     *)
  EnvTest,
  Typed,        (* ids the user may type, 0 for an empty field            *)
  Edited,       (* contents the user may give the fields of the frame     *)
  Stored,       (* settings an earlier run may have left                  *)
  Slot,         (* bound: dispatches that run at once                     *)
  MaxEvents     (* bound: answers of the polls, clicks, inputs, failures  *)

Boards == [i \in 0 .. Len(Feed) |-> IF i = 0 THEN <<>> ELSE buildTmsLeaderboard(Feed[i])]

NoKey == <<>>

(* Mutant of Key: a new lap time alone is not noticed. *)
KeyWithoutLast(entry) == <<entry.car, entry.passage, entry.position, 0, entry.best>>

Key(entry) == <<entry.car, entry.passage, entry.position, entry.last, entry.best>>

EmptyShown == [front |-> 0, rear |-> 0, lap |-> 0, position |-> 1,
               frontColor |-> "yellow", rearColor |-> "yellow", lapColor |-> "yellow"]

(* The first id and the id of the test link are "" (0) until they are known. *)
defaultTmsUiConfig ==
  [selected |-> 0, realtime |-> FALSE, autoAll |-> FALSE, testRear |-> TRUE,
   primary |-> 0, test |-> 0, shown |-> EmptyShown]

NoServer == [primary |-> 0, test |-> 0]
Server   == [primary |-> EnvPrimary, test |-> EnvTest]

NoMemory == [previous |-> [c \in Car |-> NoEntry],
             byCar    |-> [m \in Metrics |-> [c \in Car |-> 0]],
             session  |-> [m \in Metrics |-> 0]]

(* No snapshot, no telemetry and so no race links, no ids of the server.   *)
(* fresh and logged: a snapshot, an entry of the log that is not rendered. *)
Mounted(config) == [live |-> 0, fresh |-> FALSE, links |-> 1, server |-> NoServer,
                    config |-> config, sending |-> FALSE, logged |-> FALSE]

Blank   == [car |-> 0, key |-> NoKey, says |-> EmptyShown, bytes |-> <<>>]
NoTask  == [kind |-> "none", from |-> Mounted(defaultTmsUiConfig), car |-> 0,
            key |-> NoKey, posts |-> <<>>, queue |-> {}]

Says == [front : Nat, rear : Nat, lap : Nat, position : Nat,
         frontColor : Color, rearColor : Color, lapColor : Color]
Config == [selected : Car \cup {0}, realtime : BOOLEAN, autoAll : BOOLEAN,
           testRear : BOOLEAN, primary : Link \cup {0}, test : Link \cup {0}, shown : Says]
EntryType == [car : Car, position : Nat \ {0}, gap : Nat, passage : Nat, last : Nat, best : Nat]

(* The types the code gives its data; that a leaderboard is a sequence of  *)
(* entries, which have positions, follows from the types of the snapshots. *)
ASSUME TmsAssumption ==
  /\ Car \subseteq Nat \ {0}
  /\ Link \subseteq Nat \ {0}
  /\ Slot \subseteq Nat
  /\ Stored \subseteq Config
  /\ Edited \subseteq Says
  /\ {EnvPrimary, EnvTest} \cup Typed \subseteq Link \cup {0}
  /\ LinkTables \in Seq([Car -> Link \cup {0}]) /\ LinkTables # <<>>
  /\ \A c \in Car : LinkTables[1][c] = 0
  /\ Len(Feed) \in Nat
  /\ \A i \in 0 .. Len(Feed) : Boards[i] \in Seq(EntryType)

VARIABLES
  latest,   \* liveTiming, raceLinks, tmsConfig, tmsState and tmsStatus
  view,     \* the same, as rendered; live is an index of Feed, 0 for null
  memory,   \* the refs that remember earlier leaderboards
  lastKey,  \* lastAutoSendKeyRef
  lastAll,  \* lastAutoSendByCarRef
  task,     \* the dispatches that run
  storage,  \* the settings in localStorage
  screen,   \* the last frame sent to each race link
  events    \* how many there have been

(* History, read by the properties only: *)
VARIABLES
  done,     \* <<car, key>> that a dispatch of all cars has sent
  lost,     \* <<car, key>> whose dispatch failed
  sentTo,   \* the car's own link when lastAutoSendByCarRef remembered it, or 0
  recorded, \* the leaderboards rendered since the start
  crossed,  \* two dispatches were started at once, or by a click during another
  touched   \* something but a dispatch of all cars has been at the screens

history == <<done, lost, sentTo, recorded, crossed, touched>>
vars == <<latest, view, memory, lastKey, lastAll, task, storage, screen,
          events, history>>

Idle(s)  == task[s].kind = "none"
Running  == \E s \in Slot : ~Idle(s)
Shown    == Boards[view.live]

Init ==
  /\ \E config \in Stored : view = Mounted(config)
  /\ latest = view
  /\ memory = NoMemory
  /\ lastKey = NoKey
  /\ lastAll = [c \in Car |-> NoKey]
  /\ task = [s \in Slot |-> NoTask]
  /\ storage = view.config
  /\ screen = [l \in Link |-> Blank]
  /\ events = 0
  /\ done = {} /\ lost = {} /\ recorded = {}
  /\ sentTo = [c \in Car |-> 0]
  /\ crossed = FALSE /\ touched = FALSE

-----------------------------------------------------------------------------
(* Dispatch *)

(* The ids one send_tms_can posts to: its target and the test link of the  *)
(* shell's environment.                                                    *)
SendTargets(target) == IF EnvTest \in {0, target} THEN <<target>> ELSE <<target, EnvTest>>

OwnLink(state, car) == LinkTables[state.links][car]

PrimaryTarget(state, car) ==
  IF OwnLink(state, car) # 0 THEN OwnLink(state, car) ELSE state.config.primary

TestTarget(state) == IF state.config.test # 0 THEN state.config.test ELSE state.server.test

(* Mutant of dispatchTmsPayload: the test link is sent to first. *)
DispatchTestFirst(state, car, key, says) ==
  LET post(link, s) == [link |-> link, car |-> car, key |-> key, says |-> s]
      posts(target, s) ==
        IF target = 0 THEN <<>>
        ELSE [i \in DOMAIN SendTargets(target) |-> post(SendTargets(target)[i], s)]
  IN  posts(TestTarget(state), TestPacket(says, car, state.config.testRear))
        \o posts(PrimaryTarget(state, car), says)

(* dispatchTmsPayload: the posts of the first command, then those of the second. *)
dispatchTmsPayload(state, car, key, says) ==
  LET post(link, s) == [link |-> link, car |-> car, key |-> key, says |-> s]
      posts(target, s) ==
        IF target = 0 THEN <<>>
        ELSE [i \in DOMAIN SendTargets(target) |-> post(SendTargets(target)[i], s)]
  IN  posts(PrimaryTarget(state, car), says)
        \o posts(TestTarget(state), TestPacket(says, car, state.config.testRear))

Dispatch(kind, state, car, key, says, queue) ==
  [kind |-> kind, from |-> state, car |-> car, key |-> key,
   posts |-> dispatchTmsPayload(state, car, key, says), queue |-> queue]

(* Mutant of PacketFor: the frame is computed before the effect that       *)
(* remembers the leaderboard.                                              *)
PacketFromOldRefs(state, entry, refs) == computeTmsPacket(entry, Boards[state.live], memory)

PacketFor(state, entry, refs) == computeTmsPacket(entry, Boards[state.live], refs)

(* The entries the loop over all cars has still to send are those at       *)
(* places of its leaderboard, in order.                                    *)
NextEntry(state, places) == Boards[state.live][Min(places)]

(* One round of the loop. *)
Round(state, mem, places) ==
  LET entry == NextEntry(state, places)
  IN  Dispatch("all", state, entry.car, Key(entry),
               PacketFor(state, entry, mem), places \ {Min(places)})

(* Mutant of MarkSent: all the cars of the loop are remembered at once. *)
MarkAllSent(state, places) ==
  [c \in Car |-> IF \E i \in places : Boards[state.live][i].car = c
                 THEN Key(EntryOf(Boards[state.live], c)) ELSE lastAll[c]]

(* lastAutoSendByCarRef, as a round begins. *)
MarkSent(state, places) ==
  LET entry == NextEntry(state, places)
  IN  [lastAll EXCEPT ![entry.car] = Key(entry)]

(* History: the links go with the keys. *)
MarkLink(state, places) ==
  LET car == NextEntry(state, places).car
  IN  [sentTo EXCEPT ![car] = OwnLink(state, car)]

-----------------------------------------------------------------------------
(* The effects of a render *)

(* Bests and previous leaderboard.  What a car's packet says of its times  *)
(* does not depend on the bests, so the loop over the cars is a minimum.   *)

(* Mutant of Better: a time that is missing counts as a best one. *)
BetterOrMissing(best, value) == IF best = 0 \/ value < best THEN value ELSE best

Better(best, value) == IF value > 0 /\ (best = 0 \/ value < best) THEN value ELSE best

Measured == [i \in DOMAIN Boards |-> [m \in Metrics |-> [c \in Car |->
              LET entry == EntryOf(Boards[i], c)
              IN  IF entry = NoEntry THEN 0 ELSE MetricsOf(entry, Boards[i])[m]]]]

Remembered(mem, i) ==
  LET positive(m) == {Measured[i][m][c] : c \in Car} \ {0}
  IN  IF Boards[i] = <<>> THEN [mem EXCEPT !.previous = NoMemory.previous]
      ELSE [previous |-> [c \in Car |-> EntryOf(Boards[i], c)],
            byCar    |-> [m \in Metrics |-> [c \in Car |->
                            Better(mem.byCar[m][c], Measured[i][m][c])]],
            session  |-> [m \in Metrics |->
                            IF positive(m) = {} THEN mem.session[m]
                            ELSE Better(mem.session[m], Min(positive(m)))]]

(* The ids that the server knows fill the fields that are empty. *)
FilledIn(config, server) ==
  [config EXCEPT !.primary = IF @ = 0 THEN server.primary ELSE @,
                 !.test    = IF @ = 0 THEN server.test ELSE @]

FirstSelected(config, board) ==
  IF config.selected = 0 /\ board # <<>> THEN [config EXCEPT !.selected = board[1].car]
  ELSE config

ShownFor(state, config, entry, refs) ==
  IF entry = NoEntry THEN config
  ELSE [config EXCEPT !.shown = PacketFor(state, entry, refs)]

WantsRealtime(state, sentKey) ==
  LET entry == EntryOf(Boards[state.live], state.config.selected)
  IN  /\ state.config.realtime
      /\ ~state.sending
      /\ entry.passage > 0
      /\ Key(entry) # sentKey

IsPending(entry) == entry.passage > 0 /\ lastAll[entry.car] # Key(entry)

(* Their places on the leaderboard. *)
PendingEntries(state) ==
  {i \in DOMAIN Boards[state.live] : IsPending(Boards[state.live][i])}

HasPending(state) == PendingEntries(state) # {}

(* Mutant of WantsAll: it does not wait for the dispatch that runs. *)
WantsAllAtOnce(state) == state.config.autoAll /\ HasPending(state)

WantsAll(state) ==
  /\ state.config.autoAll
  /\ ~state.sending
  /\ HasPending(state)

(* The dispatches started take the first free slots; the bound is that     *)
(* there are enough of them.                                               *)
Starts(started) ==
  \E slot \in [started -> {s \in Slot : Idle(s)}] :
    LET taken == {slot[d] : d \in started}
    IN  /\ \A d, e \in started : slot[d] = slot[e] => d = e
        /\ \A s \in Slot, t \in taken : Idle(s) /\ s < t => s \in taken
        /\ task' = [s \in Slot |-> IF s \in taken THEN CHOOSE d \in started : slot[d] = s
                                  ELSE task[s]]

(* Render: React renders state, and the effects run.  clicked is a dispatch *)
(* that the event handler before it has started, if any.                   *)
Render(state, clicked) ==
  LET board    == Boards[state.live]
      car      == state.config.selected
      entry    == EntryOf(board, car)
      selects  == car # view.config.selected
      rearNew  == state.config.testRear # view.config.testRear
      filled   == IF state.server # view.server THEN FilledIn(state.config, state.server)
                  ELSE state.config
      config   == FirstSelected(filled, board)
      sentKey  == IF selects THEN NoKey ELSE lastKey
      realtime == WantsRealtime(state, sentKey)
      all      == WantsAll(state)
      pending  == PendingEntries(state)
      started  == ({clicked} \ {NoTask})
                  \cup (IF realtime
                        THEN {Dispatch("realtime", state, car, Key(entry),
                                       PacketFor(state, entry, memory'), {})}
                        ELSE {})
                  \cup (IF all THEN {Round(state, memory', pending)} ELSE {})
  IN  /\ storage' = IF state.config # view.config THEN state.config ELSE storage
      /\ memory' = IF state.fresh \/ rearNew THEN Remembered(memory, state.live) ELSE memory
      /\ latest' = [state EXCEPT
           !.fresh = FALSE,
           !.logged = realtime \/ all,
           !.config = IF state.fresh \/ rearNew \/ selects
                      THEN ShownFor(state, config, entry, memory') ELSE config,
           !.sending = @ \/ realtime \/ all]
      /\ Starts(started)
      /\ lastKey' = IF realtime THEN Key(entry) ELSE sentKey
      /\ lastAll' = IF all THEN MarkSent(state, pending) ELSE lastAll
      /\ view' = [state EXCEPT !.fresh = FALSE, !.logged = FALSE]
      /\ sentTo' = IF all THEN MarkLink(state, pending) ELSE sentTo
      /\ recorded' = recorded \cup {state.live}
      /\ crossed' = (crossed \/ (realtime /\ all) \/ (clicked # NoTask /\ Running))
      /\ touched' = (touched \/ realtime \/ clicked # NoTask)

-----------------------------------------------------------------------------
(* The user and the server *)

Event ==
  /\ events < MaxEvents
  /\ events' = events + 1
  /\ UNCHANGED <<screen, done, lost>>

(* An answer changes the state; the render comes later.                    *)
Answer(state) ==
  /\ Event
  /\ latest' = state
  /\ UNCHANGED <<view, memory, lastKey, lastAll, task, storage, sentTo, recorded,
                 crossed, touched>>

(* refreshLiveTiming; a failure is null.  Answers may come in any order.   *)
ReceiveLiveTiming ==
  \E i \in 0 .. Len(Feed) : Answer([latest EXCEPT !.live = i, !.fresh = TRUE])

(* The race links of an answer of refreshTelemetry, or of a frame of the   *)
(* stream.                                                                 *)
ReceiveRaceLinks ==
  \E i \in DOMAIN LinkTables \ {latest.links} : Answer([latest EXCEPT !.links = i])

ReceiveTmsConfig ==
  \E server \in {NoServer, Server} \ {latest.server} :
    Answer([latest EXCEPT !.server = server])

(* updateTmsState in the handler of a click or an input: React renders at once. *)
updateTmsState(config) ==
  /\ Event
  /\ Render([latest EXCEPT !.config = config], NoTask)

SelectCar ==
  \E i \in DOMAIN Shown : updateTmsState([latest.config EXCEPT !.selected = Shown[i].car])

(* The buttons use the setting they show. *)
ToggleRealtime ==
  /\ EntryOf(Shown, view.config.selected) # NoEntry
  /\ updateTmsState([latest.config EXCEPT !.realtime = ~view.config.realtime])

ToggleAutoAll ==
  /\ Shown # <<>>
  /\ updateTmsState([latest.config EXCEPT !.autoAll = ~view.config.autoAll])

ToggleTestRear == updateTmsState([latest.config EXCEPT !.testRear = ~view.config.testRear])

TypeIds ==
  \E id \in Typed : \/ updateTmsState([latest.config EXCEPT !.primary = id])
                    \/ updateTmsState([latest.config EXCEPT !.test = id])

EditFrame == \E says \in Edited : updateTmsState([latest.config EXCEPT !.shown = says])

(* The button is disabled while the page shows that it sends.              *)
handleSendTmsManual ==
  LET car == view.config.selected
  IN  /\ ~view.sending
      /\ EntryOf(Shown, car) # NoEntry
      /\ Event
      /\ Render([latest EXCEPT !.sending = TRUE],
                Dispatch("manual", view, car, NoKey, view.config.shown, {}))

(* A render for an answer or an effect, or because something else of the   *)
(* window has changed.                                                     *)
RenderLater ==
  /\ Render(latest, NoTask)
  /\ UNCHANGED <<screen, events, done, lost>>

-----------------------------------------------------------------------------
(* The asynchronous functions *)

(* Mutant of Ends: the flag is left on. *)
EndsStillSending(s) ==
  /\ task' = [task EXCEPT ![s] = NoTask]
  /\ latest' = [latest EXCEPT !.logged = TRUE]

(* catch and finally: the end of a dispatch, however it ends.              *)
Ends(s) ==
  /\ task' = [task EXCEPT ![s] = NoTask]
  /\ latest' = [latest EXCEPT !.sending = FALSE, !.logged = TRUE]

Ended(s) == IF task[s].kind = "all" THEN {<<task[s].car, task[s].key>>} ELSE {}

Untouched == UNCHANGED <<view, memory, lastKey, storage, recorded, crossed>>

Displays(post) ==
  screen' = [screen EXCEPT ![post.link] =
               [car |-> post.car, key |-> post.key, says |-> post.says,
                bytes |-> encodeTmsPayload(post.says)]]

(* The backend has accepted a frame for a link.                            *)
PostAccepted(s) ==
  /\ task[s].posts # <<>>
  /\ Displays(Head(task[s].posts))
  /\ task' = [task EXCEPT ![s].posts = Tail(@)]
  /\ UNCHANGED <<latest, lastAll, events, done, lost, sentTo, touched>>
  /\ Untouched

(* The command fails, before or after the frame has left; what the         *)
(* dispatch had still to send, other cars included, is dropped.            *)
PostFails(s) ==
  /\ task[s].posts # <<>>
  /\ events < MaxEvents
  /\ events' = events + 1
  /\ \/ UNCHANGED screen
     \/ Displays(Head(task[s].posts))
  /\ Ends(s)
  /\ lost' = lost \cup Ended(s)
  /\ touched' = TRUE
  /\ UNCHANGED <<lastAll, sentTo, done>>
  /\ Untouched

NextCar(s) ==
  /\ ~Idle(s)
  /\ task[s].posts = <<>>
  /\ task[s].queue # {}
  /\ lastAll' = MarkSent(task[s].from, task[s].queue)
  /\ sentTo' = MarkLink(task[s].from, task[s].queue)
  /\ task' = [task EXCEPT ![s] = Round(@.from, memory, @.queue)]
  /\ latest' = [latest EXCEPT !.logged = TRUE]
  /\ done' = done \cup Ended(s)
  /\ UNCHANGED <<screen, events, lost, touched>>
  /\ Untouched

Finish(s) ==
  /\ ~Idle(s)
  /\ task[s].posts = <<>>
  /\ task[s].queue = {}
  /\ Ends(s)
  /\ done' = done \cup Ended(s)
  /\ UNCHANGED <<screen, lastAll, events, lost, sentTo, touched>>
  /\ Untouched

(* The window is closed and opened again: the settings are read from       *)
(* localStorage, the refs are new, the screens keep what they show.        *)
Restart ==
  /\ events < MaxEvents
  /\ events' = events + 1
  /\ view' = Mounted(storage)
  /\ latest' = Mounted(storage)
  /\ memory' = NoMemory
  /\ lastKey' = NoKey
  /\ lastAll' = [c \in Car |-> NoKey]
  /\ task' = [s \in Slot |-> NoTask]
  /\ done' = {} /\ lost' = {} /\ recorded' = {}
  /\ sentTo' = [c \in Car |-> 0]
  /\ crossed' = FALSE
  /\ UNCHANGED <<storage, screen, touched>>

-----------------------------------------------------------------------------
User    == \/ SelectCar \/ ToggleRealtime \/ ToggleAutoAll \/ ToggleTestRear
           \/ TypeIds \/ EditFrame \/ handleSendTmsManual
Network == ReceiveLiveTiming \/ ReceiveRaceLinks \/ ReceiveTmsConfig
Async   == \E s \in Slot : PostAccepted(s) \/ PostFails(s) \/ NextCar(s) \/ Finish(s)

Next == User \/ Network \/ RenderLater \/ Async \/ Restart

Spec == Init /\ [][Next]_vars

-----------------------------------------------------------------------------
(* Properties *)

Keys == {NoKey} \cup (Car \X Nat \X Nat \X Nat \X Nat)
Posts == [link : Link, car : Car, key : Keys, says : Says]
Frame == [car : Car \cup {0}, key : Keys, says : Says, bytes : Seq(0 .. 255)]
State == [live : 0 .. Len(Feed), fresh : BOOLEAN, links : DOMAIN LinkTables,
          server : {NoServer, Server}, config : Config, sending : BOOLEAN,
          logged : BOOLEAN]
Task == [kind : {"none", "manual", "realtime", "all"}, from : State, car : Car \cup {0},
         key : Keys, posts : Seq(Posts), queue : SUBSET Nat]

(* The types of the state of App.tsx that the dispatch of frames uses.     *)
TypeOK ==
  /\ latest \in State
  /\ view \in State
  /\ memory \in [previous : [Car -> EntryType \cup {NoEntry}],
                 byCar : [Metrics -> [Car -> Nat]], session : [Metrics -> Nat]]
  /\ lastKey \in Keys
  /\ lastAll \in [Car -> Keys]
  /\ task \in [Slot -> Task]
  /\ \A s \in Slot : task[s].queue \subseteq DOMAIN Boards[task[s].from.live]
  /\ storage \in Config
  /\ screen \in [Link -> Frame]
  /\ events \in Nat
  /\ sentTo \in [Car -> Link \cup {0}]
  /\ crossed \in BOOLEAN /\ touched \in BOOLEAN

(* The loop over all cars (App.tsx:683) remembers a car's times as sent    *)
(* before it has sent them.  Still, whatever it remembers has been sent,   *)
(* was lost in a dispatch that failed, or is being sent: the cars a failed *)
(* loop has not come to are not remembered, and will be sent.              *)
StoredKeyIsAccountedFor ==
  \A c \in Car : lastAll[c] # NoKey =>
    \/ <<c, lastAll[c]>> \in done \cup lost
    \/ \E s \in Slot : task[s].kind = "all" /\ task[s].car = c /\ task[s].key = lastAll[c]

(* Three effects and handlers dispatch frames, and only the sending flag   *)
(* keeps them apart.  Unless one render starts two of them, or a click     *)
(* beats the render that disables the button, one runs at a time, and the  *)
(* page knows that it runs.                                                *)
OneDispatchAtATime ==
  ~crossed => /\ Running => latest.sending
              /\ \A r, s \in Slot : ~Idle(r) /\ ~Idle(s) => r = s

(* A frame sent in real time (App.tsx:624) is computed after the effect    *)
(* that remembers the leaderboard (App.tsx:430) has taken the same         *)
(* leaderboard in: its lap is purple if no car had a better one, green if  *)
(* the car had none, and never yellow, the color of a lap that improves on *)
(* the car's previous one.                                                 *)
RealtimeLapIsNeverYellow ==
  \A s \in Slot : \A i \in DOMAIN task[s].posts :
    task[s].kind = "realtime" => task[s].posts[i].says.lapColor # "yellow"

(* What a display reads in the bytes it was sent (utils/tms.ts:100) are    *)
(* the numbers and colors the page meant, as long as they fit the frame.   *)
FramesRead ==
  \A l \in Link : screen[l] # Blank /\ FitsTheFrame(screen[l].says) =>
    Reads(screen[l].bytes, screen[l].says)

(* The least time some cars had on what was rendered, 0 if they had none. *)
LeastRendered(m, cars) ==
  LET all == {Measured[i][m][c] : i \in recorded, c \in cars} \ {0}
  IN  IF all = {} THEN 0 ELSE Min(all)

(* The best values are the minima of what was rendered since the start,    *)
(* in whatever order the answers came, early snapshots after late ones     *)
(* included (App.tsx:430).                                                 *)
BestsAreMinima ==
  \A m \in Metrics :
    /\ memory.session[m] = LeastRendered(m, Car)
    /\ \A c \in Car : memory.byCar[m][c] = LeastRendered(m, {c})

(* A link is never one car's and then another's, and no id the user or the *)
(* server may give is the link of a car.                                   *)
GivenIds == {EnvPrimary, EnvTest} \cup Typed
              \cup {config.primary : config \in Stored} \cup {config.test : config \in Stored}

LinksApart ==
  \A i, j \in DOMAIN LinkTables, c, d \in Car : LinkTables[i][c] # 0 =>
    /\ LinkTables[i][c] \notin GivenIds
    /\ LinkTables[j][d] = LinkTables[i][c] => d = c

(* While only the loop over all cars sends and nothing fails, then whenever *)
(* it rests a car's display shows the times the page shows, though the loop *)
(* goes on with the leaderboard and the links it was started with while     *)
(* others arrive.  Left out is exactly the car whose times were marked as   *)
(* sent (App.tsx:713) under another link than it has now, or under none,    *)
(* as before the first telemetry: nothing sends them again.                 *)
ScreensCurrent ==
  LET resting == /\ view.config.autoAll /\ view = latest /\ ~Running
                 /\ ~touched /\ ~crossed
  IN  resting => \A k \in DOMAIN Shown :
        LET entry == Shown[k]
            link  == OwnLink(view, entry.car)
        IN  link # 0 /\ sentTo[entry.car] = link /\ entry.passage > 0 =>
              /\ screen[link].car = entry.car
              /\ screen[link].says.position = entry.position
              /\ screen[link].says.lap = resolveLapMetric(entry)

(* Each command also posts to the test link of the shell's environment,    *)
(* the one for the car's own link included.  When a dispatch that has a    *)
(* test link ends or goes on to the next car, that link shows the car's    *)
(* test frame, not the one for the car.                                    *)
TestLinkShowsTheTestFrame ==
  [][\A s \in Slot :
       /\ ~Idle(s) /\ task[s].posts = <<>> /\ task'[s] # task[s]
       /\ ~crossed /\ EnvTest # 0 /\ TestTarget(task[s].from) # 0
       => /\ screen[EnvTest].car = task[s].car
          /\ task[s].from.config.testRear => screen[EnvTest].says.rear = task[s].car]_vars

(* The sending flag and the keys never leave the page stuck: when it is at *)
(* rest, with nothing to render and no dispatch running, it is ready to    *)
(* send, and if it sends for all cars no car's times are left out, though  *)
(* a dispatch may have failed before its start was rendered.               *)
RestMeansDone ==
  view = latest /\ ~Running =>
    /\ ~view.sending
    /\ view.config.autoAll => ~HasPending(view)

=============================================================================
