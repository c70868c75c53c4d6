# Veltryx: TLA+ models and proofs

Veltryx is a race-control desktop suite: a Go API that talks to an X2 race
server over a websocket and to a live timing source (RIS) over TCP, a Tauri
shell that runs the API as a child process and keeps the operator's session,
and a React application in which operators set flags and send TMS frames to
the cars. This directory models the parts of it that keep state, checks them
with TLC and proves some of their properties with TLAPS.

## 1. Inventory

| Component | State | Operations | Interacts with |
|---|---|---|---|
| Sector auto-clear (`cmd/api/server.go` 42-144) | a version per sector, the armed timers | `Record`, the timer's function | requests that set a sector flag; the client's cache; X2 |
| X2 connection (`x2/connection.go`, `handlers.go`, `auth.go`, `sender.go`; `server.go` 163-213) | `conn`, `state`, `token`, the locks | `Connect`, `Close`, `listen` and its handlers, `SendRaw`, `ensureX2Connected`, `withX2Retry` | every request, every timer, X2 |
| Telemetry cache (`x2/stateparse.go`, `tracking.go`, setters of `client.go`) | sectors, race links, GPS points, track, alerts | one merge per kind of message | the listener writes, snapshots read |
| Snapshot stream (`x2/client.go` 87-132; `server.go` 282-321) | subscribers, their channels | `PublishSnapshot`, `SubscribeSnapshots`, `unsubscribe`, the stream's handler | the listener and requests publish, browsers read |
| Session store (`desktopsession/store.go`) | records in memory, a JSON file | `Register`, `Validate`, `Delete`, `List`, `load`, `saveLocked` | the desktop shell; the permission check |
| Live timing (`livetiming/client.go`) | pending text, participants, connected flag | read loop, framing, merge, leaderboard, global flag | RIS; the web application |
| Race link matcher (`usecase/racelink/timing_dash.go`) | none | `MapToX2` | pure |
| Desktop shell (`web/src-tauri/src/lib.rs`) | the child process, the local session file, the key | start and stop of the API, login, logout, bootstrap | API, identity server |
| Shell of the web application (`web/src/App.tsx` 52-330, 755-866; `app-helpers.ts`, `app-shell.ts`) | profile, page, sections, `refreshing`, `busy`, `status.connected`, the telemetry, the poll, the websocket | bootstrap, navigation, `refreshTelemetry`, `refreshAdminPresence`, the stream, the commands of the pages | the desktop shell's commands, the API's stream, the pages |
| TMS dispatch (`web/src/App.tsx` 331-747, `utils/tms.ts`, `race-control/tms.tsx`) | the settings and their copy in localStorage, the keys sent, the bests, the previous leaderboard, `sending` | four effects, the manual dispatch, the handlers of the page | the polls of the shell, the commands that post a frame, the displays |
| Track map (`viewer/map.tsx`, geometry of `app-helpers.ts`) | none | bounds, projection, cutting of the lap at its sectors | pure; reads the telemetry |
| Bridge page (`pages/bridge/index.tsx`) | the websocket, two timers, the last signature, what it shows | connect, retry, encrypt and send, answers | the shell renders it; a remote bridge |
| Bridge state of the API (`bridge_sync.go`) | the stored payload | store, read | one value behind a mutex |
| Metrics, log buffer, monitor, terminal UI, other pages | counters, ring buffers | rendering | not part of the core logic |

Hard behaviours, and what correctness means for each:

* **Auto-clear.** Requests and timers act in steps without a lock between
  them. A green that stays must be cleared 15 s later; another flag must not
  be overwritten; a yellow in the previous sector must keep the green.
* **X2 connection.** One shared connection used without a lock by listeners
  and senders, replaced by any request, closed by any listener. Correct: the
  current connection is always watched, a lost one is noticed, sockets are not
  leaked, ready means authenticated, a retried command arrives once, a request
  ends.
* **Stream.** Publishers must never block, never send on a closed channel, and
  must keep the newest frame; frames should not go backwards.
* **Session store.** The file must follow the memory across writes and reads
  that fail, stops and restarts; expiry has a boundary on both sides.
* **Shell of the web application.** Asynchronous functions go on with the state
  of the render that started them, so a guard like `if (refreshing) return`
  reads an old value; answers of polls and frames of the stream come in any
  order; `busy` and `refreshing` are single flags for several functions. A
  window must come back to the backend's state without the stream, and no flag
  may be left on.
* **TMS dispatch.** Three effects and a button start dispatches that only the
  `sending` flag keeps apart; a car is remembered as sent before it has been
  sent; frames are computed from refs that another effect of the same render
  writes; numbers are packed into bit fields. The displays must show what the
  page means, and nothing may be remembered as sent that was not.
* **Bridge page.** Mounting, leaving, drops and the retry timer come in any
  order, encryption is asynchronous, and the last signature outlives a
  connection. The page must hold one connection and no more, and the remote
  bridge must end up with the data of the page.
* **Track map.** Sectors may be out of order, without a place, or at one point:
  the pieces of the lap must still cover it once.
* **Live timing, desktop shell.** Framing over chunk boundaries; supervision of
  a child process, and a session file next to a remote registration.

`PROJECT.json` lists the components with their status, and the hazards at
their lines with the properties that watch them. Where the code has the fault
that a hazard names, and nothing in the repository forbids it, the model has it
too and the note says what the properties admit and what they rule out.

## 2. Plan

In order of importance to a race:

1. `SectorAutoClear`: done (three runs, `SectorAutoClear_proofs`).
2. `X2Client`: done (three runs, `X2Client_proofs`).
3. `SnapshotStream`: done (one run, `SnapshotStream_proofs`).
4. `SessionStore`, shown to implement `SessionRegistry`: done (one run,
   `SessionStore_proofs`).
5. `TmsPacket` and `TmsDispatch`: done (one run, `TmsPacket_proofs`,
   `TmsDispatch_proofs`).
6. `Bridge`: done (one run, `Bridge_proofs`).
7. `ShellPages`, `TrackMap` and `Workspace`: done (two runs,
   `Workspace_proofs`).
8. `LiveTiming`: framing over chunks, shown to implement a stream of whole
   messages; the participant merge and the connected flag; and
   `SendGlobalFlag`, to compose with X2 for the global flag's two targets.
9. `DesktopShell`: the child process, login, logout, bootstrap.
10. Two windows that share the settings and the displays: `TmsDispatch` twice
    over one `storage` and one `screen`.

The theorems of section 6 state all the safety properties the runs check. Still
worth having: the theorems 8 to 10 bring.

## 3. Modules

Every model of the API is a set of goroutines that take one step at a time. A step ends
where the code gives up a lock, or where another goroutine can see the
difference; what happens under one mutex is one step. Where a definition
stands in `PROJECT.json`'s map, it names the lines it translates.

### SectorAutoClear

| Model | Code |
|---|---|
| `versions`, `timers` | `sectorAutoClearScheduler.versions`, and the functions given to `time.AfterFunc` that have not returned |
| `setSectorFlag`, then `Record` | `applySectorFlag`: the command is written, then recorded; `unrecorded` holds the commands in between |
| `TimerFires` | the version check under the mutex |
| `TimerLooks` | `Snapshot` and `previousSectorIsYellow` |
| `TimerClears`, `TimerFails`, `TimerRetires` | `clear`, its error, and the second version check |
| `cache`, `setSectorStates`, `MergedFlag` | `Client.sectors` and its merge, which keeps a flag when 0 is reported |
| `trackKnown`, `PreviousSector` | the order of the track configuration, or that of the ids |
| `x2flag`, `feed`, `ConsoleChange`, `Reconnect` | X2, external: it applies commands, is changed from its own console, reports changes; reports are lost with a connection |

A timer may fire at any moment after it is armed: the 15 s are not modelled,
so the properties do not depend on them.

### X2Client

| Model | Code |
|---|---|
| `conn`, `state`, `token` | the fields of `Client` that goroutines share |
| `Asks` | a request arrives, or an auto-clear timer (`Background`) comes to its command |
| `EnsureLooks`, `Polls` | `ensureX2Connected` and its two polling loops |
| `ConnectChecks`, `DialFails`, `DialSucceeds`, `ConnectStores` | `Connect`, which gives the mutex up while it dials |
| `OperatorCloses`, `ListenerCloses` with `Close` | `Close`, from the handler of disconnect, from the retry, and from `listen` |
| `SendChecks`, `SendWrites`, `SendResets`, `Sent`, `Retries` | `SendRaw` and what its callers make of its result, `withX2Retry` among them |
| `ListenerLoads`, `ListenerReads`, `handleWelcome`, `sendAuth`, `handleAuthOK`, `ListenerFails` | `listen` and the handlers |
| `X2Receives`, `X2Drops`, `X2KeepsAlive` | X2, external |

Modelling choices:

* A polling loop is a wait that ends when a sample of the state and one of the
  connection say so, or when the deadline passes, which it may do at any time.
* A write may always fail, and one that succeeds on a socket that is lost
  reaches nobody. `SetWriteDeadline` of the websocket library does not fail on
  a socket that exists, so a `SendRaw` that fails has delivered nothing.
* A nil connection that is dereferenced is a panic. `net/http` recovers the
  panic of a request, which then ends; the panic of a listener or a timer ends
  the process, and every goroutine is `down`.
* Two listeners that read one socket are outside what the library defines: the
  read of either may fail.
* A socket is its own token and names the listener that was started for it.

### SnapshotStream

| Model | Code |
|---|---|
| `Changes`, `TakesSnapshot` | the client's state changes, and `Snapshot` copies it under the client's mutex |
| `Locks`, `Offers`, `Drops`, `Resends`, `Unlocks` | `PublishSnapshot` under `subMu`: two sends and a receive, none of which blocks |
| `Registers`, `TakesFirst`, `SendsFirst` | `SubscribeSnapshots`, whose first send blocks |
| `Writes`, `PingFails`, `Unsubscribes` | the handler of `/api/x2/stream` |

A snapshot is known by the version of the state it shows. When a publisher
takes a frame from a full channel on which the stream itself is parked, the
parked frame takes the free place at once, as in the Go runtime.

### SessionStore and SessionRegistry

`SessionStore` has `Register`, `Validate`, `Delete`, `List` (with
`cleanupLocked`), `saveLocked` and `load` as they are in `store.go`. Each
runs under the store's mutex and is one action. A write may fail and leave the
file as it was or truncated, and the server may stop and start between any two
operations; a truncated file reads back as no session. A start that cannot read
the file (`store.go` 142-145) has no sessions and leaves the file as it is, until the
next write replaces it. `faulty` remembers that the last write or read has
failed. `Owner` is who registers: the handler wants a user, while a device may
be unknown. Left out: the sort of `List` and the random part of a signature.

`SessionRegistry` says what that is for. While the server runs, sessions live
until they are deleted or expire, and all answers depend on the live sessions
only. `kept` is what a start may bring back: after a write the live sessions,
or what was kept before, or nothing. A start brings back all that is kept, or
none of it, so it never invents a session and never mixes those of two writes.
The refinement mapping leaves the expired sessions out: `live` is those in
memory, `kept` those in the file.

### React, in TmsDispatch, Bridge and Workspace

The modules of the web application share one reading of React. `latest` is the
state with every update that was asked for, `view` the state of the last
render, which its effects, its handlers and the asynchronous functions started
from them go on reading. `Render(state)` is one render with all the effects
whose dependencies have changed, in the order of the source; the updates they
ask for wait for the next render. A click or an input is rendered before the
next event; an answer is rendered later, and a click may come before that. The
two effects that dispatch frames depend on `raceLinks`, an array that is new
at each render (`App.tsx` 393), and so run at every one.
Effects that run twice are a matter of the development build (`StrictMode`)
and are left out.

### TmsPacket and TmsDispatch

`TmsPacket` is `utils/tms.ts`: the leaderboard, the metrics of an entry, the
colors, `computeTmsPacket` and the bytes of a frame. `Reads` is the reference:
what a display reads in eight bytes.

| Model | Code |
|---|---|
| `latest`, `view` | `liveTiming`, `raceLinks`, `tmsConfig`, `tmsState`, `tmsStatus` |
| `memory`, `Remembered` | the refs of the previous leaderboard and the bests, and the effect of `App.tsx` 430 that writes them |
| `lastKey`, `lastAll`, `MarkSent` | `lastAutoSendKeyRef`, `lastAutoSendByCarRef` |
| `storage`, `Restart` | the settings in localStorage; the window is closed and opened again |
| `Render` with `FilledIn`, `FirstSelected`, `ShownFor`, `WantsRealtime`, `WantsAll`, `Starts` | the effects of `App.tsx` 411-516, 624-682 and 683-747 |
| `handleSendTmsManual`, `SelectCar`, `ToggleRealtime`, ... | the page `race-control/tms.tsx` and its handlers |
| `queue`, `NextEntry`, `Round` | the loop over `pendingEntries` (lines 688 and 698): the places, on the leaderboard of its render, that it has still to come to |
| `dispatchTmsPayload`, `SendTargets` | the posts of one dispatch: the car's link, the test link, and the one `send_tms_can` of the desktop shell adds (`lib.rs` 869-930) |
| `PostAccepted`, `PostFails`, `NextCar`, `Finish` | the asynchronous functions, one step per post, and their `catch` and `finally` |
| `ReceiveLiveTiming`, `ReceiveRaceLinks`, `ReceiveTmsConfig` | the answers of the polls, in any order |
| `Mounted`, `OwnLink` | the state at the start, without telemetry and so without race links (`App.tsx` 53, 393); the car's link in the table of a render |
| `screen` | what each display was sent last (external) |
| `sentTo` | history: the link a car had when its times were marked as sent |

The first table of links is empty, by `TmsAssumption`: a window starts and
restarts without links, which arrive later, before or after the live timing.

Numbers stay below 2^31, where JavaScript's bitwise operators agree with the
arithmetic of the model. The text of the log and the id of the CAN message are
left out.

Seen while modelling, without a run of its own: `toHundredths` gives tenths of
a second; the key of a frame leaves the gap and the neighbours out, so a new
gap alone sends nothing; the page's preview falls back to the primary id the
server knows (`race-control/tms.tsx` 35) where the dispatch does not; a dispatch that has no
target at all reports success. The key of a car does not hold its link, so
times that were marked as sent before the links are known (`App.tsx` 699-713),
or under a link that has changed since, are not sent to the new link: its
display stays out of date until the car's times change. `ScreensCurrent`
leaves out exactly these cars, by `sentTo`; without that condition TLC finds
it violated from a start in which the live timing comes first.

### Bridge

| Model | Code |
|---|---|
| `version` | the data of the last render, which the code compares by its signature |
| `Mount`, `Unmount`, `connect`, `RetryTimerFires` | the effect of `index.tsx` 224, its cleanup and its retry |
| `OnOpen`, `Drops`, `OnClose`, `OnMessage` | the events of a websocket; `cancelled` are the sockets whose handlers return at once |
| `AppRenders`, `queueSync`, `SyncTimerFires` | the effect that sends when the data changes, through a timer |
| `handleManualSend`, `sendCurrentPayload`, `Encrypted`, `EncryptionFails` | the button, and the function up to and after its encryption |
| `wire`, `answers`, `received`, `RemoteTakes`, `RemoteRefuses` | the network and the remote bridge, external |

Each socket keeps what is on its way until it drops; a socket that the page
closes lets it arrive or loses it. `received` belongs to the page that is
shown: a payload of a page that was just left may arrive after one of the new
page. A payload that is lost with its connection after its signature was
stored is not sent again until the data changes or the user asks for it; the
page then shows "pending". `CatchesUp` states exactly this exception.

### ShellPages, TrackMap and Workspace

`ShellPages` is the table of pages and who may open which: the allowed pages
are places of that table, in its order. `TrackMap` is the map's geometry, with
`LapIsColored` and `StaysInTheBox` as references from which it is judged; what
the code filters and sorts is there a set of places, `Listed` in its order
(the sort is stable: sectors at one point stay as they were).
`Workspace` is the window:

| Model | Code |
|---|---|
| `boot`, `BootAnswers`, `MaskEnds` | `bootstrapProfile` and the mask that covers the start |
| `GuardedPage`, `Sections` | the effects that keep the user on allowed pages and open the sidebar's sections |
| `interval`, `PollTick` | the effect of `App.tsx` 179-200: a poll that keeps the function of the render that set it up |
| `fetch`, `refreshTelemetry`, `BackendReads`, `FetchReturns`, `FetchFails` | runs of `refreshTelemetry`, from the request to the answer |
| `stream`, `StreamOpens`, `StreamDelivers`, `StreamDrops` | the websocket of lines 202-245 |
| `asked`, `PresenceReturns` | `refreshAdminPresence` |
| `op`, `Begins`, `CommandReturns`, `CommandFails` | the handlers of lines 259-313: connect, flags, disconnecting a desktop |
| `BackendActs`, `ServerChanges` | the commands of the desktop shell (`lib.rs` 810-858, 1078-1116) and the handlers of the API they call (`server.go` 517-604), as a change of the backend's state or none |
| `server`, `Elsewhere` | the backend's state; X2 and other desktops change it too (external) |

Frames of the telemetry are versions of the backend's state. The polls of live
timing and of the TMS settings belong to `TmsDispatch`. Left out: the texts of
errors, the icon, and opening a detached window (one that is detached is
modelled).

Seen while modelling: without a profile, every page but the account's is
refused, so that the first render always leaves for `account-profile`; a window
that is signed out shows nothing, since `LoginScreen` is not used; the buttons
of the flags are not disabled by `busy`, and the first of two handlers to end
clears it. An answer of the poll may put an older frame over a newer one of
the stream until the next poll. The cars on the map are not part of its bounds
and may be drawn outside.

## 4. Runs

| Run | Asks | Bounds |
|---|---|---|
| `autoclear` | whether the versions tell greens apart, and whether a green that stays is cleared | two operators, one sector, three commands, one report under way |
| `autoclear_neighbour` | whether the auto-clear may miss a yellow neighbour that X2 has reported | one operator, three sectors in another order than their ids, two commands, one change at X2's console |
| `new_flag_cancels` | whether a new flag always cancels the auto-clear (it does not) | one operator, two sectors, two commands |
| `x2_client` | the safety of the shared connection | a request and a timer, two sockets with their listeners, two requests, one lost socket |
| `x2_reconnect` | whether requests end and losses are noticed | one operator, two sockets, two requests, one lost socket, one keep-alive |
| `x2_ready` | whether ready always means authenticated (it does not) | two requests, two sockets |
| `stream` | whether publishers are safe and never held up, and the newest frame is kept | two publishers, one stream, four changes |
| `session_store` | whether the store implements the registry | two sessions, two devices and two users beside the unknown ones, a lifetime of one tick, a clock of two |
| `tms` | what dispatches remember, send and leave on the displays, whatever arrives, fails or is clicked | two cars, three snapshots, an empty table of links and two others, two dispatches at once, three events |
| `bridge` | whether the page keeps one connection, and the remote bridge catches up | two sockets, one change of the data, two encryptions at once, one click, two payloads in flight |
| `workspace` | whether the flags settle, the window catches up without the stream, and the map shows the lap | three profiles, a detached or a main window, four pages, two fetches, two commands, one change of the backend, 432 tracks |
| `fallback_poll` | whether any poll brings the window up to date (it does not) | as `workspace`, with one page to open |

Why these bounds are enough to be interesting:

* **Auto-clear.** Three commands are a green, another flag and a second green:
  the shortest history in which the timers of two greens meet. The scheduler
  relates no two sectors, so its races need one sector only; the neighbour
  rule needs three, for the place of a sector in the track to differ from that
  of its id.
* **X2.** Two goroutines and two sockets give overlapping dials, a listener that
  outlives its connection, a close between any two steps of a send, and the
  retry on a new socket. A third socket adds a second such replacement and
  nothing new.
* **Stream.** Four changes fill a channel of two frames, park the first send,
  and leave two publishers to race for the room. Subscribers do not interact.
* **Sessions.** A clock of two ticks and a lifetime of one have an expiry before,
  at and after the present. One owner has a device and one has none, the users
  differ, and validations come with every pair, so all answers occur.

* **TMS.** Three events are a snapshot, a second one before the dispatch of
  the first has ended, and a failure, a click or a restart in between; or a
  snapshot and the links, in either order, and one more. The links of a car
  are none, one and then another. The settings an earlier run has left are the
  defaults, the mode for all cars, or the real-time mode with a typed id, so
  that frames are sent before the links are known. The snapshots hold the
  cases that matter to a frame: no positions, the largest gap, a lap that
  improves, an entry without a car, and they come in any order. Two slots are
  all that can run unless two clicks beat two renders.
* **Bridge.** Two sockets are a connection and the one after it, by a drop or by
  a page that is left and opened again; two versions and two encryptions may
  be sent in the other order.
* **Workspace.** Two fetches are a poll's and a handler's, or those of two
  renders; two commands are the two that clear each other's `busy`. The tracks
  put three sectors at every combination of six places, one of them missing
  and some nearest to one point, and leave the id of the last one out or not.

`CHECK_DEADLOCK FALSE` stands where the bounds on commands, requests or changes
end every behaviour; `session_store` needs none, since the server can always
stop or start.

**Fairness.** `autoclear` lets a request's goroutine go on to `Record` after its
write, and the runtime run timers that are due. `x2_reconnect` lets every
goroutine that can go on do so: `Dial` and `ReadMessage` return (the socket
that is lost makes the read fail), deadlines pass, and `writeMu` is given up.
`stream` lets a publication that has begun go on, which holds since none of
its sends blocks. Nobody has to send a request, open or read a stream, or
touch X2's console, and X2 does not have to answer.

In the web application, `bridge` assumes of the code that timers fire, promises
are settled and events run, of the remote bridge that it reads what arrives,
and that the window renders, which its poll makes it do every three seconds;
connections may drop each time. `workspace` assumes that React renders, that
the interval ticks, and, as strong fairness, that of all the fetches that are
made some are answered: a backend that never answers is no code of this
repository. Nothing is assumed of the stream or of the user. `tms` checks
safety only.

## 5. Findings

* `new_flag_cancels`: the timer checks its version, gives up the mutex and then
  sends Clear. A flag that is recorded in between is overwritten
  (`server.go:83`), although `routes_test.go:443` expects a new flag to cancel
  the auto-clear.
* `x2_ready`: `handleAuthOK` sets the state of whatever connection is current.
  Two requests dial at once, since `Connect` gives up the mutex
  (`connection.go` 21-37), and the second connection is stored over the first.
  The listener of the first, handling the answer to its own authentication,
  makes the second ready before X2 has authenticated it (`auth.go:44`).
* `fallback_poll`: the poll keeps the function of the render that set it up. If
  the user opens a page while a fetch runs, that function has seen
  `refreshing`, and each poll of the page returns at once (`App.tsx:90`);
  without the stream the window stays as it is. The comments at `App.tsx:192`
  and `App.tsx:222` call it the fallback for a stream that drops.
  `FallbackHeals` shows that this is the only way: a poll that was set up
  without a fetch does bring the window up to date.

Known and left as an observation: snapshots of the API are taken before
`subMu`, so an older frame may be sent after a newer one and stay the last one
shown until the next change (`client.go:112`).

## 6. Proofs

TLAPS proves these for all values of the constants. The assumptions are those
the modules state, which only fix the kinds of the constants
(`ConstantsAssumption`, `ClientAssumption`, `StreamAssumption`,
`StoreAssumption`, `BridgeAssumption`, `WorkspaceAssumption`,
`TracksAssumption`, `TmsAssumption`): how many operators, sectors, sockets, streams, sessions, cars, fetches or
dispatches there are does not matter. `TmsAssumption` also says that the
leaderboards built from the snapshots are sequences of entries with positions
from 1 on: it follows from the types of the snapshots, but `SelectSeq` and
`SortSeq` are recursive inside and the prover knows nothing of them. It also
says that the ids a user may type, the environment's and the tables' are ids of
links, or 0, and that the first table is empty. TLC evaluates all of it in the
run `tms`.

Two theorems have a hypothesis on the constants beside these. That of
`ScreensSafety` is `LinksApart`: the
links of the cars are distinct, and no id that the settings, the environment or
the user may give is one of them. The code does not see to it, and needs it: a
car that has no link is sent to the primary id of the settings
(`App.tsx:635`, `App.tsx:717`), and if that is another car's link, the other
car's display is overwritten until its own key changes. TLC evaluates
`LinksApart` in the run `tms`. Over all the tables, a link belongs to one car:
a display that is given to another car is a change the dispatch does not see.

That of `MapSafety` is `EdgesApart`: no two edges of a drawn lap, its closing
one included, have both their ends in common. The reference knows an edge by
its ends, so of two that fall together it could not say which sector owns
which; the page draws one over the other. A point may be passed twice, and the
path may end where it began. TLC evaluates `EdgesApart` in the run `workspace`.

* **`SectorAutoClear_proofs`.** `TypeCorrect`; `VersionsTellTimersApart` and
  `CurrentMeansGreen` from `VersionInv`, which adds that no timer is ahead of
  its sector's version: without it the version of a new timer could belong to
  another already. `SequentialUseIsSafe` from `OverlapInv`: in a sector whose
  commands have not overlapped there is one command under way at most, it is
  the last one, and none is under way while a timer decides.
  `NeighbourIsRespected` from `KnownInv`: of a sector X2 has reported since the
  last reconnection, the last report under way has the flag X2 has, and if none
  is under way the cache has it, or an older one that X2 has cleared. With it
  goes `PreviousIsBefore`: the search through the configured order finds the
  sector that is before this one.
* **`X2Client_proofs`.** `TypeCorrect` needs `RetryInv` (a request is between its
  attempts after the first only). `StateMatches` and `ConnectionIsWatched` come
  from `ConnInv`, whose part `DialInv` says that a socket is dialled by one
  goroutine and has no listener before it is stored: otherwise storing it might
  disturb a listener that lives. `CommandsArriveOnce` needs `SentOnceInv`, where
  a goroutine may be once its command is delivered. `SocketsAreKept` needs
  `LeakInv`: as long as dials do not overlap there is one at most, and no
  connection while it is under way. `ReadyUnlessDisturbed` needs `ReadyInv`: X2
  tells only authenticated sockets that they are accepted, a listener that
  handles the answer has read it from such a socket, and, undisturbed, it is
  the only listener.
* **`SnapshotStream_proofs`.** `TypeCorrect`, with the capacity of the channels;
  `NoSendOnClosed`, which is inductive as it stands, since a channel leaves the
  map under `subMu` only; `DroppingKeepsNewest` from `TurnInv`: one publisher
  visits at a time, what a channel is owed is its frame, and between the removal
  and the second send there is room.
* **`SessionStore_proofs`.** `TypeCorrect`; `FileFollowsMemory`, where a start
  that reads and a write that succeeds make file and memory agree, and time
  drops the same sessions from both; and `StoreImplementsRegistry`: the initial
  states map to the registry's, and each operation, tick, stop and start maps
  to a step of it (`RegisterSim` to `LoadSim`), the writes and reads that fail
  included.

* **`TmsPacket_proofs`.** `RoundTrip`: whatever three numbers, position and
  colors a frame is made of, if they fit, the eight bytes read as them. The
  lemmas take a bit set above a value, a value split into bytes, and a sum of
  bytes apart.
* **`TmsDispatch_proofs`.** All theorems rest on `Shapes`: records have their
  fields, frames their colors, what a display shows is what was encoded, and
  (`MemoryOK`) the refs hold the leaderboard rendered last, or one is marked as
  fresh. `RealtimeSafety` and `FramesSafety` follow from it. `DispatchSafety`
  adds that a slot that is idle has nothing to post, since only a dispatch that
  runs may clear the flag; `StoredKeySafety` is inductive beside `Shapes`;
  `RestSafety` adds that the flag is on only while a dispatch runs and that a
  render which starts none has left no car out. `RenderParts` and `StartsTakes`
  say once what a render does to the slots. Four more theorems:
  * `TypeSafety` from `Typing`, which gives a task its places within its own
    leaderboard: otherwise the next turn of the loop would read an entry that
    does not exist. `MetricsNat` and `FrameIsBytes` type what is computed.
  * `BestsSafety` from `BestOK`: the bests are lower bounds that are reached,
    which a render keeps (`RememberedMinima`); that this is a minimum of a set
    comes last.
  * `TestLinkSafety` from `TestOK`: while a dispatch that is alone runs, the last
    of its posts is the test frame for the environment's link, and once none is
    left that frame is on it. `NextDispatches` says once what a step may do to
    the dispatches and the screens.
  * `ScreensSafety` from `OwnOK` (a post and a screen say what their key says)
    and `SentOK`: what the loop remembers of a car is on the screen of the link
    it had then (`sentTo`), or a dispatch is about to post it there; no other dispatch posts to that link
    (`OwnLinkOnly`), which is where `LinksApart` is needed. With `RestMeansDone`
    the page's own times are what it remembers.
* **`Bridge_proofs`.** `BridgeTypes`; `SignatureSafety`, inductive beside it;
  `ConnectionSafety` from `Line`, which orders the sockets as they were made:
  those of pages that are gone, those the page has lost, its own, and those
  that are not made yet;
  `SyncedSafety` from `Answered`, which relates an answer on its way to a
  payload that was taken.
* **`Workspace_proofs`.** `FlagsSafety` from `Settled`: a fetch that a handler
  waits for has that handler in its last stage, and no other fetch has it;
  unless commands have overlapped one runs at most. Without the first part, the
  end of a fetch might clear `busy` for a handler that is not its own.
  `TypeSafety` from `Typing`: whatever the profile becomes while a page is open,
  the page it falls back to is the first of those allowed, or `viewer-home`, and
  both are in the table.
  `MapSafety` is about the map, for every track `TracksAssumption` allows: any
  paths, lines and sectors, with missing coordinates and invalid ids. What it
  draws does not depend on the window's state, so all of it is in two facts.
  * `DrawingInTheBox`: all that is drawn is drawn at points of the track
    (`NormalizedIs`, `MainIs`, `SegmentsOfTrack`), which are finitely many
    (`PointsOfTrack`); a finite set has extremes (`FirstOf`, `ExtremesOf`), and
    a part of a span takes that part of the width (`PointsStayInTheBox`).
  * `LapIsShown`: a list of a finite set has each member once, in its order
    (`Ranking`), so the filters lose and repeat nothing (`FilteredIs`) and the
    cuts go up along the lap (`IndexedIs`, `CutsGoUp`). A sector draws the edges
    from its point to the next one's, over the end of the path if it is the last
    (`SegmentEdges`), so ordered cuts share the edges out (`LapIsCutOnce`): each
    has one sector, whose piece is long enough to be drawn (`SegmentsAre`), is
    drawn as that part of the lap (`PieceOfLap`), and is the last one passed
    there, or before the first of them the last of all (`OwnerIs`). If all
    sectors are nearest to one point, the code draws none of them, and
    `MapShowsTheLap` says nothing of the lap.

## 7. Model-checked only

Liveness (`GreenIsCleared`, `RequestsEnd`, `LossIsNoticed`, `PublicationsEnd`,
`ParkedIsReleased`, `CatchesUp`, `FallbackHeals`) is outside what the prover
does with fairness. The runs that expect a violation show what the code does on
small instances, and have no theorem.

## 8. Not modelled

* The live timing client and the desktop shell: planned in section 2. Their
  hazards are listed in `PROJECT.json` without properties. The desktop shell
  appears only as the commands the web application calls. The race link matcher
  is a pure function of names and numbers.
* The bridge state of the API is one value behind a mutex.
* Two windows at once: a detached window runs a shell of its own, with the same
  settings and displays. Each window alone is modelled.
* The other pages render what they are given; the accounts, events and report
  pages keep the state of their forms.
* Of the X2 messages, only sector reports and the track configuration change
  what other goroutines decide; the merges of race links, GPS points and alerts
  are left out.
* HTTP decoding, CORS and the permission header are stateless. Metrics, the log
  buffer and the monitor are counters and buffers under one mutex. The terminal
  interface and the domain types keep no state of the system.
