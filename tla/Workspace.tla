------------------------------ MODULE Workspace ------------------------------
(***************************************************************************)
(* The shell of the workspace window, the component AppShell of            *)
(* src/web/src/App.tsx: who is signed in, which page is shown, the poll    *)
(* and the stream that keep the telemetry current, and the commands of the *)
(* pages.  What the poll fetches for the TMS display is part of            *)
(* TmsDispatch.  The frames of the telemetry are known by the version of   *)
(* the backend's state they show; texts of errors are left out.            *)
(*                                                                         *)
(* React, as in TmsDispatch: latest is the state with every update that    *)
(* has been asked for, view the state of the last render, which the        *)
(* handlers and the effects of that render read.  A click is rendered      *)
(* before the next event, other updates later.                             *)
(*                                                                         *)
(* An asynchronous function goes on with the state of the render that      *)
(* started it.  That holds for refreshTelemetry too, so its guard          *)
(* "if (refreshing) return" is a parameter here: the value of refreshing   *)
(* in the render its caller belongs to.                                    *)
(*                                                                         *)
(* Of the desktop shell (lib.rs) and the API (server.go) there is what the *)
(* commands of the window do to the backend's state and what they answer.  *)
(* A frame of the stream shows the state the backend has when it is        *)
(* delivered.                                                              *)
(***************************************************************************)
EXTENDS ShellPages, TrackMap

CONSTANTS
  Tracks,     (* the tracks the telemetry may bring, with their flags     *)
  Profiles,   (* what the desktop session may be                          *)
  Detached,   (* panels a window may be opened for, "none" for the shell  *)
  Visited,    (* bound: the pages the user opens                          *)
  Slot,       (* bound: fetches of the telemetry that run at once         *)
  OpSlot,     (* bound: commands of the pages that run at once            *)
  MaxVersion  (* bound: changes of the backend's state                    *)

ASSUME WorkspaceAssumption ==
  /\ Slot \subseteq Nat \ {0}
  /\ OpSlot \subseteq Nat \ {0}
  /\ MaxVersion \in Nat
  /\ Profiles \subseteq [authenticated : BOOLEAN, user : BOOLEAN, permissions : SUBSET Permission]
  /\ Detached \subseteq {"none", "viewer-live", "viewer-map"}

ASSUME TracksAssumption == \A shown \in Tracks : shown.track \in TrackPayload

NoFrame == [version |-> -1, up |-> FALSE]
NoFetch == [stage |-> "none", frame |-> NoFrame, op |-> 0]
NoOp    == [kind |-> "none", stage |-> "none", wants |-> FALSE, skips |-> FALSE, up |-> FALSE]

VARIABLES
  latest,     \* profile, page, sections, refreshing, status.connected and busy
  view,       \* the same, as rendered
  telemetry,  \* the frame shown; no handler and no effect reads it
  presence,   \* the list of desktops shown: whether another one is on it
  detached,   \* getDetachedPanel: the panel in the URL of the window
  boot,       \* bootstrapProfile
  interval,   \* the poll: "off", or what refreshing was when it was set up
  fetch,      \* runs of refreshTelemetry
  asked,      \* a run of refreshAdminPresence waits for its answer
  op,         \* runs of the handlers
  stream,     \* the websocket of the telemetry; "down" until it is open (again)
  server,     \* the backend's state, as a frame
  overlapped  \* history: two commands have run at once

vars == <<latest, view, telemetry, presence, detached, boot, interval, fetch, asked, op,
          stream, server, overlapped>>

OpsRun  == \E o \in OpSlot : op[o] # NoOp
Fetches == \E s \in Slot : fetch[s] # NoFetch

-----------------------------------------------------------------------------
(* Rendering *)

HasRoom == \E s \in Slot : fetch[s] = NoFetch

(* A fetch for the handler o, or for none (0). *)
Asking(o) ==
  [fetch EXCEPT ![CHOOSE s \in Slot : fetch[s] = NoFetch
                    /\ \A t \in Slot : fetch[t] = NoFetch => s <= t] =
     [stage |-> "asked", frame |-> NoFrame, op |-> o]]

(* refreshTelemetry, up to its answer, by a caller that saw refreshing.    *)
refreshTelemetry(refreshing, o) ==
  IF refreshing THEN UNCHANGED fetch ELSE HasRoom /\ fetch' = Asking(o)

(* refreshAdminPresence, up to its answer: whether it asks.                *)
AsksPresence(state) == hasPermission(state.profile, "manage_users")

(* The effect on navGroups: new sections take the default, others stay.    *)
Sections(state) ==
  LET defaults == buildExpandedSections(getAllowedPages(state.profile), state.page)
  IN  [section \in DOMAIN defaults |->
         IF section \in DOMAIN state.sections THEN state.sections[section]
         ELSE defaults[section]]

(* The effect that keeps the user on pages that are allowed.               *)
GuardedPage(state) ==
  IF detached # "none" THEN detached
  ELSE IF MayOpen(state.profile, state.page) THEN state.page
  ELSE findDefaultPage(state.profile)

(* The state after the first render, and what its effects have asked for:  *)
(* without a profile no page but the account's is allowed.                 *)
Init ==
  /\ detached \in Detached
  /\ view = [profile |-> NoProfile, page |-> IF detached = "none" THEN "viewer-home" ELSE detached,
             sections |-> <<>>, refreshing |-> FALSE, connected |-> FALSE, busy |-> FALSE]
  /\ latest = [view EXCEPT !.page = GuardedPage(view), !.sections = Sections(view)]
  /\ telemetry = NoFrame
  /\ presence = "null"
  /\ boot = "asked"
  /\ interval = "off"
  /\ fetch = [s \in Slot |-> NoFetch]
  /\ asked = FALSE
  /\ op = [o \in OpSlot |-> NoOp]
  /\ stream = "off"
  /\ server = [version |-> 0, up |-> FALSE]
  /\ overlapped = FALSE

(* The interval calls the functions of this render. *)
IntervalOf(state) ==
  IF ~state.profile.authenticated THEN "off"
  ELSE IF state.refreshing THEN "refreshing" ELSE "idle"

(* React renders state, and the effects of what has changed run: the poll  *)
(* is set up again and polls, the stream is connected, the page checked.   *)
Render(state) ==
  LET profileNew == state.profile # view.profile
      navigated  == profileNew \/ state.page # view.page
      polls      == navigated /\ state.profile.authenticated
  IN  /\ view' = state
      /\ latest' = IF navigated
                   THEN [state EXCEPT !.sections = Sections(state),
                                      !.page = GuardedPage(state),
                                      !.refreshing = polls \/ @]
                   ELSE state
      /\ interval' = IF navigated THEN IntervalOf(state) ELSE interval
      /\ IF polls THEN refreshTelemetry(state.refreshing, 0) ELSE UNCHANGED fetch
      /\ asked' = (asked \/ (navigated /\ AsksPresence(state)))
      /\ stream' = IF state.profile.authenticated /\ ~view.profile.authenticated
                   THEN "down" ELSE stream
      /\ presence' = IF navigated /\ ~AsksPresence(state) THEN "null" ELSE presence
      /\ UNCHANGED <<telemetry, detached, server>>

RenderLater ==
  /\ view # latest
  /\ Render(latest)
  /\ UNCHANGED <<boot, op, overlapped>>

-----------------------------------------------------------------------------
(* Starting up *)

(* bootstrapProfile: its answer, or its failure. *)
BootAnswers ==
  /\ boot = "asked"
  /\ boot' = "masked"
  /\ \E profile \in Profiles \cup {NoProfile} :
       latest' = [latest EXCEPT !.profile = sanitizeProfile(profile)]
  /\ UNCHANGED <<view, telemetry, presence, detached, interval, fetch, asked, op, stream,
                 server, overlapped>>

(* The mask stays for a while, even if the answer was fast: booting.       *)
MaskEnds ==
  /\ boot = "masked"
  /\ boot' = "done"
  /\ UNCHANGED <<latest, view, telemetry, presence, detached, interval, fetch, asked, op,
                 stream, server, overlapped>>

-----------------------------------------------------------------------------
(* The poll and the stream *)

(* Every three seconds. *)
PollTick ==
  /\ interval # "off"
  /\ refreshTelemetry(interval = "refreshing", 0)
  /\ latest' = [latest EXCEPT !.refreshing = @ \/ interval = "idle"]
  /\ asked' = (asked \/ AsksPresence(view))
  /\ UNCHANGED <<view, telemetry, presence, detached, boot, interval, op, stream, server,
                 overlapped>>

(* The backend answers with its state; the answer is on its way.           *)
BackendReads(s) ==
  /\ fetch[s].stage = "asked"
  /\ fetch' = [fetch EXCEPT ![s].stage = "answered", ![s].frame = server]
  /\ UNCHANGED <<latest, view, telemetry, presence, detached, boot, interval, asked, op,
                 stream, server, overlapped>>

(* The end of a handler that has waited for a fetch; 0 is none.            *)
Released(state, o) == IF o = 0 THEN state ELSE [state EXCEPT !.busy = FALSE]
WithoutOp(o)       == IF o = 0 THEN op ELSE [op EXCEPT ![o] = NoOp]

Shows(state, frame) == [state EXCEPT !.connected = frame.up]

(* Mutant of Refreshed: the connection's status is left to the stream. *)
RefreshedWithoutStatus(state, frame) == [state EXCEPT !.refreshing = FALSE]

Refreshed(state, frame) == [Shows(state, frame) EXCEPT !.refreshing = FALSE]

(* The rest of refreshTelemetry, and of the handler that awaits it.        *)
FetchReturns(s) ==
  /\ fetch[s].stage = "answered"
  /\ telemetry' = fetch[s].frame
  /\ latest' = Released(Refreshed(latest, fetch[s].frame), fetch[s].op)
  /\ op' = WithoutOp(fetch[s].op)
  /\ fetch' = [fetch EXCEPT ![s] = NoFetch]
  /\ UNCHANGED <<view, presence, detached, boot, interval, asked, stream, server, overlapped>>

FetchFails(s) ==
  /\ fetch[s] # NoFetch
  /\ latest' = Released([latest EXCEPT !.refreshing = FALSE], fetch[s].op)
  /\ op' = WithoutOp(fetch[s].op)
  /\ fetch' = [fetch EXCEPT ![s] = NoFetch]
  /\ UNCHANGED <<view, telemetry, presence, detached, boot, interval, asked, stream, server,
                 overlapped>>

(* The answer of refreshAdminPresence, or its failure; a handler may have  *)
(* waited for it.                                                          *)
PresenceReturns ==
  /\ asked
  /\ asked' = FALSE
  /\ presence' \in {"listed", "empty"}
  /\ LET waiting == {o \in OpSlot : op[o].stage = "presence"}
     IN  /\ latest' = [latest EXCEPT !.busy = @ /\ waiting = {}]
         /\ op' = [o \in OpSlot |-> IF o \in waiting THEN NoOp ELSE op[o]]
  /\ UNCHANGED <<view, telemetry, detached, boot, interval, fetch, stream, server, overlapped>>

(* connect, at once or when the timer of onclose fires. *)
StreamOpens ==
  /\ stream = "down"
  /\ stream' = "open"
  /\ UNCHANGED <<latest, view, telemetry, presence, detached, boot, interval, fetch, asked,
                 op, server, overlapped>>

StreamDelivers ==
  /\ stream = "open"
  /\ telemetry' = server
  /\ latest' = Shows(latest, server)
  /\ UNCHANGED <<view, presence, detached, boot, interval, fetch, asked, op, stream, server,
                 overlapped>>

StreamDrops ==
  /\ stream = "open"
  /\ stream' = "down"
  /\ UNCHANGED <<latest, view, telemetry, presence, detached, boot, interval, fetch, asked,
                 op, server, overlapped>>

-----------------------------------------------------------------------------
(* The user *)

(* The shell is shown: the topbar and the sidebar, in a window that is not *)
(* detached.                                                               *)
ShellShown == boot = "done" /\ view.profile.user /\ detached = "none"

Click == ShellShown /\ UNCHANGED boot

SelectPage ==
  \E page \in Visited :
    /\ Click
    /\ MayOpen(view.profile, page)
    /\ SectionOf(page) \in DOMAIN view.sections /\ view.sections[SectionOf(page)]
    /\ Render([latest EXCEPT !.page = page])
    /\ UNCHANGED <<op, overlapped>>

ToggleSection ==
  \E page \in Visited :
    /\ Click
    /\ SectionOf(page) \in DOMAIN view.sections
    /\ Render([latest EXCEPT !.sections[SectionOf(page)] = ~@])
    /\ UNCHANGED <<op, overlapped>>

(* A handler begins: setBusy(true), and its command is sent.               *)
Begins(kind) ==
  /\ Click
  /\ \E o \in OpSlot :
       /\ op[o] = NoOp /\ \A p \in OpSlot : op[p] = NoOp => o <= p
       /\ op' = [op EXCEPT ![o] = [kind |-> kind, stage |-> "command",
                                   wants |-> kind = "toggle" /\ ~view.connected,
                                   skips |-> view.refreshing, up |-> FALSE]]
  /\ overlapped' = (overlapped \/ OpsRun)
  /\ Render([latest EXCEPT !.busy = TRUE])

(* The button is disabled while the page shows that it is busy.            *)
handleConnectToggle ==
  /\ hasPermission(view.profile, "x2_connection")
  /\ ~view.busy
  /\ Begins("toggle")

(* The buttons of the flags are not. *)
handleSetGlobalFlag == view.page = "rc-flags" /\ Begins("flag")
handleSetSectorFlag == view.page = "rc-flags" /\ Begins("flag")

handleDisconnectDesktopSession ==
  /\ view.page \in {"admin-presence", "admin-accounts"}
  /\ presence = "listed"
  /\ ~view.busy
  /\ Begins("disconnect")

-----------------------------------------------------------------------------
(* The rest of the handlers *)

ServerChanges(up) ==
  IF up # server.up THEN server.version < MaxVersion
                         /\ server' = [version |-> server.version + 1, up |-> up]
  ELSE \/ UNCHANGED server
       \/ /\ server.version < MaxVersion
          /\ server' = [server EXCEPT !.version = @ + 1]

(* The backend carries out a command, or X2 refuses it: connecting and     *)
(* disconnecting answer with what has become of the connection.            *)
BackendActs(o) ==
  /\ op[o].stage = "command"
  /\ \E up \in {server.up} \cup (IF op[o].kind = "toggle" THEN {op[o].wants} ELSE {}) :
       /\ IF op[o].kind = "disconnect" THEN UNCHANGED server ELSE ServerChanges(up)
       /\ op' = [op EXCEPT ![o].stage = "acted", ![o].up = up]
  /\ UNCHANGED <<latest, view, telemetry, presence, detached, boot, interval, fetch, asked,
                 stream, overlapped>>

(* The answer to a command: the handler refreshes what it has changed.     *)
CommandReturns(o) ==
  /\ op[o].stage = "acted"
  /\ LET answered == IF op[o].kind = "toggle" THEN [latest EXCEPT !.connected = op[o].up]
                     ELSE latest
     IN  \/ /\ op[o].kind # "disconnect" /\ op[o].skips
            /\ latest' = Released(answered, o)
            /\ op' = WithoutOp(o)
            /\ UNCHANGED <<fetch, asked>>
         \/ /\ op[o].kind # "disconnect" /\ ~op[o].skips
            /\ latest' = [answered EXCEPT !.refreshing = TRUE]
            /\ refreshTelemetry(FALSE, o)
            /\ op' = [op EXCEPT ![o].stage = "refresh"]
            /\ UNCHANGED asked
         \/ /\ op[o].kind = "disconnect"
            /\ asked' = TRUE
            /\ op' = [op EXCEPT ![o].stage = "presence"]
            /\ UNCHANGED <<latest, fetch>>
  /\ UNCHANGED <<view, telemetry, presence, detached, boot, interval, stream, server, overlapped>>

(* Mutant of CommandFails: busy is reset by a success only. *)
CommandFailsBusy(o) ==
  /\ op[o].stage \in {"command", "acted"}
  /\ op' = WithoutOp(o)
  /\ UNCHANGED <<latest, view, telemetry, presence, detached, boot, interval, fetch, asked,
                 stream, server, overlapped>>

(* The command fails, before or after the backend has acted. *)
CommandFails(o) ==
  /\ op[o].stage \in {"command", "acted"}
  /\ latest' = Released(latest, o)
  /\ op' = WithoutOp(o)
  /\ UNCHANGED <<view, telemetry, presence, detached, boot, interval, fetch, asked, stream,
                 server, overlapped>>

(* X2, or another desktop: the backend's state changes. *)
Elsewhere ==
  /\ \E up \in {server.up, FALSE} : ServerChanges(up)
  /\ server' # server
  /\ UNCHANGED <<latest, view, telemetry, presence, detached, boot, interval, fetch, asked,
                 op, stream, overlapped>>

-----------------------------------------------------------------------------
User    == \/ SelectPage \/ ToggleSection \/ handleConnectToggle \/ handleSetGlobalFlag
           \/ handleSetSectorFlag \/ handleDisconnectDesktopSession
Stream  == StreamOpens \/ StreamDelivers \/ StreamDrops
Async   == \/ \E s \in Slot : BackendReads(s) \/ FetchReturns(s) \/ FetchFails(s)
           \/ \E o \in OpSlot : BackendActs(o) \/ CommandReturns(o) \/ CommandFails(o)
           \/ PresenceReturns

Next == BootAnswers \/ MaskEnds \/ RenderLater \/ PollTick \/ User \/ Stream \/ Async \/ Elsewhere

(* React renders, the timer of the poll runs, the backend answers, and     *)
(* fetches do not fail for ever.  Nothing is assumed of the user, and      *)
(* nothing of the stream.                                                  *)
Fairness ==
  /\ WF_vars(RenderLater) /\ WF_vars(PollTick)
  /\ SF_vars(\E s \in Slot : BackendReads(s))
  /\ SF_vars(\E s \in Slot : FetchReturns(s))

Spec == Init /\ [][Next]_vars /\ Fairness

-----------------------------------------------------------------------------
(* Properties *)

Frame == [version : -1 .. MaxVersion, up : BOOLEAN]
State == [profile : [authenticated : BOOLEAN, user : BOOLEAN, permissions : SUBSET Permission],
          page : PageId,
          sections : UNION {[names -> BOOLEAN] : names \in SUBSET Section},
          refreshing : BOOLEAN, connected : BOOLEAN, busy : BOOLEAN]

(* The types of the state of AppShell (App.tsx:52) and of what runs.       *)
TypeOK ==
  /\ latest \in State /\ view \in State
  /\ telemetry \in Frame /\ server \in Frame
  /\ presence \in {"null", "empty", "listed"}
  /\ detached \in {"none", "viewer-live", "viewer-map"}
  /\ boot \in {"asked", "masked", "done"}
  /\ interval \in {"off", "idle", "refreshing"}
  /\ fetch \in [Slot -> [stage : {"none", "asked", "answered"}, frame : Frame,
                         op : OpSlot \cup {0}]]
  /\ op \in [OpSlot -> [kind : {"none", "toggle", "flag", "disconnect"},
                        stage : {"none", "command", "acted", "refresh", "presence"},
                        wants : BOOLEAN, skips : BOOLEAN, up : BOOLEAN]]
  /\ stream \in {"off", "down", "open"}
  /\ asked \in BOOLEAN /\ overlapped \in BOOLEAN

(* Fetches and commands overlap, fail and end in any order, and each sets  *)
(* refreshing (App.tsx:89) or busy (App.tsx:271) back without looking at   *)
(* the others.  Neither is left on when nothing runs, and unless two       *)
(* commands have run at once busy is on as long as one runs, so that the   *)
(* buttons it disables cannot start a second.                              *)
FlagsSettle ==
  /\ latest.refreshing => Fetches
  /\ latest.busy => OpsRun
  /\ OpsRun /\ ~overlapped => latest.busy

Current == telemetry = server /\ latest.connected = server.up

(* The fallback poll (App.tsx:192): if from some time on the interval is   *)
(* one that was set up in a render without a fetch, the window ends up     *)
(* with the backend's state, though the stream may never come back, older  *)
(* answers may come after newer frames (App.tsx:93, 218), and fetches may  *)
(* overlap.                                                                *)
FallbackHeals == <>[](interval = "idle") => <>[]Current

(* What the comment at App.tsx:192 says of every interval: "Fallback       *)
(* safety poll in case the realtime stream drops."                         *)
FallbackCatchesUp == <>[](interval # "off") => <>[]Current

TracksAreDrawn ==
  \A shown \in Tracks :
    /\ Cardinality(Places(shown.track)) >= 2 => LapIsColored(shown.track, shown.flags)
    /\ StaysInTheBox(shown.track, shown.flags)

(* No two edges of a lap are drawn over each other: an edge is judged by   *)
(* its ends.                                                               *)
EdgesApart ==
  \A shown \in Tracks :
    LET lap == Drawing(shown.track, shown.flags).lap
    IN  \A i, j \in DOMAIN lap : Edge(lap, i) = Edge(lap, j) => i = j

(* The map (map.tsx:57) colors the lap by cutting it at the points that are*)
(* nearest to its sectors.  Whatever track the telemetry brings, sectors   *)
(* out of order or without a place included: if they lie at two points at  *)
(* least, each piece of the lap, the one over the first point included, is *)
(* drawn once, in the flag of its sector, and nothing leaves the view.     *)
MapShowsTheLap == view.page = "viewer-map" /\ telemetry # NoFrame => TracksAreDrawn
=============================================================================
