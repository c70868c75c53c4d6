-------------------------- MODULE Workspace_proofs --------------------------
(***************************************************************************)
(* Safety of the shell's flags and the types of its state, for any number  *)
(* of fetches and commands that run at once, and the map's, for any track: *)
(* what is drawn stays in the box, and the sectors share out the lap.      *)
(***************************************************************************)
EXTENDS Workspace, NaturalsInduction, WellFoundedInduction, FiniteSetTheorems, SequenceTheorems,
        TLAPS

Shaped(state) ==
  /\ state = [profile |-> state.profile, page |-> state.page, sections |-> state.sections,
              refreshing |-> state.refreshing, connected |-> state.connected,
              busy |-> state.busy]
  /\ state.refreshing \in BOOLEAN /\ state.busy \in BOOLEAN

FetchesShaped ==
  /\ fetch = [s \in Slot |-> fetch[s]]
  /\ \A s \in Slot :
       fetch[s] = [stage |-> fetch[s].stage, frame |-> fetch[s].frame, op |-> fetch[s].op]

OpsShaped ==
  /\ op = [o \in OpSlot |-> op[o]]
  /\ \A o \in OpSlot :
       op[o] = [kind |-> op[o].kind, stage |-> op[o].stage, wants |-> op[o].wants,
                skips |-> op[o].skips, up |-> op[o].up]

(* A fetch a handler waits for has that handler waiting, and for no other. *)
Awaited ==
  /\ \A s \in Slot : fetch[s].op # 0 =>
       fetch[s].op \in OpSlot /\ op[fetch[s].op].stage = "refresh"
  /\ \A s, t \in Slot : fetch[s].op = fetch[t].op /\ fetch[s].op # 0 => s = t

Alone == ~overlapped => \A o, p \in OpSlot : op[o] # NoOp /\ op[p] # NoOp => o = p

Kept ==
  /\ Shaped(latest) /\ Shaped(view)
  /\ FetchesShaped /\ OpsShaped /\ Awaited

Settled == Kept /\ Alone /\ FlagsSettle

-----------------------------------------------------------------------------
(* Asking *)

LEMMA LeastOf ==
  ASSUME NEW T \in SUBSET Nat, T # {}
  PROVE  \E x \in T : \A y \in T : x <= y
<1>1. PICK x \in T : \A y \in T : <<y, x>> \notin OpToRel(<, Nat)
  BY NatLessThanWellFounded, WFMin
<1>2. \A y \in T : ~(y < x)
  BY <1>1 DEF OpToRel
<1> QED BY <1>2

LEMMA AskingTakes ==
  ASSUME HasRoom, NEW o
  PROVE  \E s \in Slot :
           /\ fetch[s] = NoFetch
           /\ Asking(o) = [fetch EXCEPT ![s] =
                             [stage |-> "asked", frame |-> NoFrame, op |-> o]]
<1>1. PICK T : T = {s \in Slot : fetch[s] = NoFetch}
  OBVIOUS
<1>2. T \in SUBSET Nat /\ T # {}
  BY <1>1, WorkspaceAssumption DEF WorkspaceAssumption, HasRoom
<1>3. \E s \in T : \A t \in T : s <= t
  BY <1>2, LeastOf
<1>4. \E s : s \in Slot /\ fetch[s] = NoFetch
                /\ \A t \in Slot : fetch[t] = NoFetch => s <= t
  BY <1>1, <1>3
<1>5. PICK s : s = CHOOSE r \in Slot : fetch[r] = NoFetch
                     /\ \A t \in Slot : fetch[t] = NoFetch => r <= t
  OBVIOUS
<1>6. s \in Slot /\ fetch[s] = NoFetch
  BY <1>4, <1>5
<1> QED BY <1>5, <1>6 DEF Asking

(* A fetch for the handler o, which waits for it from now on, or for none. *)
LEMMA AskingKeeps ==
  ASSUME FetchesShaped, Awaited, HasRoom, NEW o, fetch' = Asking(o),
         \/ o = 0
         \/ o \in OpSlot /\ op[o].stage # "refresh" /\ op'[o].stage = "refresh",
         \A p \in OpSlot : op[p].stage = "refresh" => op'[p].stage = "refresh"
  PROVE  FetchesShaped' /\ Awaited' /\ Fetches'
<1>1. PICK f : f = [stage |-> "asked", frame |-> NoFrame, op |-> o]
  OBVIOUS
<1>2. PICK s \in Slot : fetch[s] = NoFetch /\ fetch' = [fetch EXCEPT ![s] = f]
  BY <1>1, AskingTakes
<1>3. fetch'[s] = f /\ \A t \in Slot \ {s} : fetch'[t] = fetch[t]
  BY <1>2 DEF FetchesShaped
<1>4. FetchesShaped'
  BY <1>1, <1>2, <1>3 DEF FetchesShaped
<1>5. f # NoFetch /\ f.op = o
  BY <1>1 DEF NoFetch
<1>6. Fetches'
  BY <1>3, <1>5 DEF Fetches
<1>7. Awaited'
  BY <1>3, <1>5 DEF Awaited
<1> QED BY <1>4, <1>6, <1>7

(* The fetches are left alone, or one for no handler is added. *)
LEMMA RefreshKeeps ==
  ASSUME FetchesShaped, Awaited, NEW refreshing, refreshTelemetry(refreshing, 0),
         \A p \in OpSlot : op[p].stage = "refresh" => op'[p].stage = "refresh"
  PROVE  /\ FetchesShaped' /\ Awaited'
         /\ Fetches \/ ~refreshing => Fetches'
<1>1. CASE refreshing
  BY <1>1 DEF refreshTelemetry, FetchesShaped, Awaited, Fetches
<1>2. CASE ~refreshing
  BY <1>2, AskingKeeps DEF refreshTelemetry
<1> QED BY <1>1, <1>2

-----------------------------------------------------------------------------
(* Rendering *)

LEMMA RenderKeeps ==
  ASSUME Kept, NEW state, Shaped(state), Render(state),
         state.refreshing => Fetches,
         \A p \in OpSlot : op[p].stage = "refresh" => op'[p].stage = "refresh"
  PROVE  /\ Shaped(latest') /\ Shaped(view') /\ FetchesShaped' /\ Awaited'
         /\ latest'.refreshing => Fetches'
         /\ latest'.busy = state.busy
<1>1. PICK navigated, polls, page, sections :
        /\ navigated \in BOOLEAN /\ polls \in BOOLEAN
        /\ latest' = IF navigated
                     THEN [state EXCEPT !.sections = sections, !.page = page,
                                        !.refreshing = polls \/ @]
                     ELSE state
        /\ polls => refreshTelemetry(state.refreshing, 0)
        /\ ~polls => UNCHANGED fetch
        /\ polls => navigated
  <2> DEFINE profileNew == state.profile # view.profile
             navigated  == profileNew \/ state.page # view.page
             polls      == navigated /\ state.profile.authenticated
             page       == GuardedPage(state)
             sections   == Sections(state)
  <2>1. navigated \in BOOLEAN /\ polls \in BOOLEAN /\ (polls => navigated)
    OBVIOUS
  <2>2. latest' = IF navigated
                  THEN [state EXCEPT !.sections = sections, !.page = page,
                                     !.refreshing = polls \/ @]
                  ELSE state
    BY DEF Render
  <2>3. (polls => refreshTelemetry(state.refreshing, 0)) /\ (~polls => UNCHANGED fetch)
    BY DEF Render
  <2> HIDE DEF navigated, polls, page, sections
  <2> QED BY <2>1, <2>2, <2>3
<1>2. view' = state
  BY DEF Render
<1>3. /\ Shaped(latest') /\ latest'.busy = state.busy
      /\ latest'.refreshing => polls \/ state.refreshing
  <2>1. CASE ~navigated
    BY <1>1, <2>1
  <2>2. CASE navigated
    <3>1. latest' = [profile |-> state.profile, page |-> page, sections |-> sections,
                     refreshing |-> polls \/ state.refreshing,
                     connected |-> state.connected, busy |-> state.busy]
      BY <1>1, <2>2 DEF Shaped
    <3> QED BY <1>1, <3>1 DEF Shaped
  <2> QED BY <1>1, <2>1, <2>2
<1>4. /\ FetchesShaped' /\ Awaited'
      /\ Fetches => Fetches'
      /\ polls /\ ~state.refreshing => Fetches'
  <2>1. CASE polls
    BY <1>1, <2>1, RefreshKeeps DEF Kept
  <2>2. CASE ~polls
    BY <1>1, <2>2 DEF Kept, FetchesShaped, Awaited, Fetches
  <2> QED BY <1>1, <2>1, <2>2
<1> QED BY <1>1, <1>2, <1>3, <1>4

(* A render of the state with another page, or with sections closed. *)
LEMMA PlainRender ==
  ASSUME Settled, NEW state, Shaped(state), state.refreshing = latest.refreshing,
         state.busy = latest.busy, Render(state), UNCHANGED <<op, overlapped>>
  PROVE  Settled'
<1>1. /\ Shaped(latest') /\ Shaped(view') /\ FetchesShaped' /\ Awaited'
      /\ latest'.refreshing => Fetches'
      /\ latest'.busy = state.busy
  BY RenderKeeps DEF Settled, FlagsSettle
<1>2. OpsShaped' /\ Alone' /\ (OpsRun' <=> OpsRun)
  BY DEF Settled, Kept, OpsShaped, Alone, OpsRun
<1> QED BY <1>1, <1>2 DEF Settled, Kept, FlagsSettle

(* A handler begins, and is rendered. *)
LEMMA BeginsKeeps ==
  ASSUME Settled, NEW kind, Begins(kind)
  PROVE  Settled'
<1>1. PICK state : state = [latest EXCEPT !.busy = TRUE]
  OBVIOUS
<1>2. state = [profile |-> latest.profile, page |-> latest.page, sections |-> latest.sections,
               refreshing |-> latest.refreshing, connected |-> latest.connected, busy |-> TRUE]
  BY <1>1 DEF Settled, Kept, Shaped
<1>3. Shaped(state) /\ state.refreshing = latest.refreshing /\ state.busy
  BY <1>2 DEF Settled, Kept, Shaped
<1>0. PICK x :
        x = [kind |-> kind, stage |-> "command", wants |-> kind = "toggle" /\ ~view.connected,
             skips |-> view.refreshing, up |-> FALSE]
  OBVIOUS
<1>4. PICK o \in OpSlot : op[o] = NoOp /\ op' = [op EXCEPT ![o] = x]
  BY <1>0 DEF Begins
<1>5. op'[o] = x /\ \A p \in OpSlot \ {o} : op'[p] = op[p]
  BY <1>4 DEF Settled, Kept, OpsShaped
<1>6. x.stage = "command" /\ x # NoOp
  BY <1>0 DEF NoOp
<1>7. \A p \in OpSlot : op[p].stage = "refresh" => op'[p].stage = "refresh"
  BY <1>4, <1>5 DEF NoOp
<1>8. /\ Shaped(latest') /\ Shaped(view') /\ FetchesShaped' /\ Awaited'
      /\ latest'.refreshing => Fetches'
      /\ latest'.busy
  BY <1>1, <1>3, <1>7, RenderKeeps DEF Settled, FlagsSettle, Begins
<1>9. OpsShaped'
  BY <1>0, <1>4, <1>5 DEF Settled, Kept, OpsShaped
<1>10. OpsRun'
  BY <1>5, <1>6 DEF OpsRun
<1>11. Alone'
  BY <1>5 DEF Begins, OpsRun, Alone
<1> QED BY <1>8, <1>9, <1>10, <1>11 DEF Settled, Kept, FlagsSettle

-----------------------------------------------------------------------------
(* Fetches *)

(* The handler o has ended, if it is one. *)
LEMMA ReleasedKeeps ==
  ASSUME Settled, NEW o, o = 0 \/ (o \in OpSlot /\ op[o] # NoOp), NEW state, Shaped(state),
         state.busy = latest.busy,
         latest' = Released(state, o), op' = WithoutOp(o), UNCHANGED overlapped
  PROVE  /\ Shaped(latest') /\ latest'.refreshing = state.refreshing
         /\ OpsShaped' /\ Alone'
         /\ latest'.busy => OpsRun'
         /\ OpsRun' /\ ~overlapped' => latest'.busy
         /\ \A p \in OpSlot : p # o => op'[p] = op[p]
<1>1. CASE o = 0
  BY <1>1 DEF Released, WithoutOp, Settled, Kept, OpsShaped, Alone, FlagsSettle, OpsRun
<1>2. CASE o # 0
  <2>1. latest' = [state EXCEPT !.busy = FALSE] /\ op' = [op EXCEPT ![o] = NoOp]
    BY <1>2 DEF Released, WithoutOp
  <2>2. latest' = [profile |-> state.profile, page |-> state.page, sections |-> state.sections,
                   refreshing |-> state.refreshing, connected |-> state.connected,
                   busy |-> FALSE]
    BY <2>1 DEF Shaped
  <2>3. Shaped(latest') /\ latest'.refreshing = state.refreshing /\ ~latest'.busy
    BY <2>2 DEF Shaped
  <2>4. op'[o] = NoOp /\ \A p \in OpSlot : p # o => op'[p] = op[p]
    BY <1>2, <2>1 DEF Settled, Kept, OpsShaped
  <2>5. OpsShaped'
    BY <2>1, <2>4 DEF Settled, Kept, OpsShaped, NoOp
  <2>6. Alone' /\ (~overlapped' => ~OpsRun')
    BY <1>2, <2>4 DEF Settled, Alone, OpsRun
  <2> QED BY <2>3, <2>4, <2>5, <2>6
<1> QED BY <1>1, <1>2

(* A fetch ends, with an answer or without. *)
LEMMA FetchEnds ==
  ASSUME Settled, NEW s \in Slot, NEW state, Shaped(state), state.busy = latest.busy,
         ~state.refreshing, latest' = Released(state, fetch[s].op),
         op' = WithoutOp(fetch[s].op), fetch' = [fetch EXCEPT ![s] = NoFetch],
         UNCHANGED <<view, overlapped>>
  PROVE  Settled'
<1>1. PICK o : o = fetch[s].op
  OBVIOUS
<1>2. o = 0 \/ (o \in OpSlot /\ op[o].stage = "refresh")
  BY <1>1 DEF Settled, Kept, Awaited
<1>3. /\ Shaped(latest') /\ ~latest'.refreshing
      /\ OpsShaped' /\ Alone'
      /\ latest'.busy => OpsRun'
      /\ OpsRun' /\ ~overlapped' => latest'.busy
      /\ \A p \in OpSlot : p # o => op'[p] = op[p]
  BY <1>1, <1>2, ReleasedKeeps DEF NoOp
<1>4. fetch'[s] = NoFetch /\ \A t \in Slot \ {s} : fetch'[t] = fetch[t]
  BY DEF Settled, Kept, FetchesShaped
<1>5. FetchesShaped'
  BY <1>4 DEF Settled, Kept, FetchesShaped, NoFetch
<1>6. Awaited'
  <2>1. NoFetch.op = 0
    BY DEF NoFetch
  <2>2. \A t \in Slot \ {s} : fetch[t].op # 0 => fetch[t].op # o
    BY <1>1 DEF Settled, Kept, Awaited
  <2> QED BY <1>3, <1>4, <2>1, <2>2 DEF Settled, Kept, Awaited
<1> QED BY <1>3, <1>5, <1>6 DEF Settled, Kept, FlagsSettle

LEMMA FetchReturnsKeeps ==
  ASSUME Settled, NEW s \in Slot, FetchReturns(s)
  PROVE  Settled'
<1>1. PICK state : state = Refreshed(latest, fetch[s].frame)
  OBVIOUS
<1>2. state = [profile |-> latest.profile, page |-> latest.page, sections |-> latest.sections,
               refreshing |-> FALSE, connected |-> fetch[s].frame.up, busy |-> latest.busy]
  BY <1>1 DEF Refreshed, Shows, Settled, Kept, Shaped
<1>3. Shaped(state) /\ ~state.refreshing /\ state.busy = latest.busy
  BY <1>2 DEF Settled, Kept, Shaped
<1> QED BY <1>1, <1>3, FetchEnds DEF FetchReturns

LEMMA FetchFailsKeeps ==
  ASSUME Settled, NEW s \in Slot, FetchFails(s)
  PROVE  Settled'
<1>1. PICK state : state = [latest EXCEPT !.refreshing = FALSE]
  OBVIOUS
<1>2. state = [profile |-> latest.profile, page |-> latest.page, sections |-> latest.sections,
               refreshing |-> FALSE, connected |-> latest.connected, busy |-> latest.busy]
  BY <1>1 DEF Settled, Kept, Shaped
<1>3. Shaped(state) /\ ~state.refreshing /\ state.busy = latest.busy
  BY <1>2 DEF Settled, Kept, Shaped
<1> QED BY <1>1, <1>3, FetchEnds DEF FetchFails

LEMMA BackendReadsKeeps ==
  ASSUME Settled, NEW s \in Slot, BackendReads(s)
  PROVE  Settled'
<1>1. PICK f : f = [fetch[s] EXCEPT !.stage = "answered", !.frame = server]
  OBVIOUS
<1>2. fetch[s] = [stage |-> fetch[s].stage, frame |-> fetch[s].frame, op |-> fetch[s].op]
  BY DEF Settled, Kept, FetchesShaped
<1>3. f = [stage |-> "answered", frame |-> server, op |-> fetch[s].op]
  BY <1>1, <1>2
<1>4. fetch' = [fetch EXCEPT ![s] = f] /\ op' = op
  BY <1>1 DEF BackendReads
<1>5. fetch'[s] = f /\ \A t \in Slot \ {s} : fetch'[t] = fetch[t]
  BY <1>4 DEF Settled, Kept, FetchesShaped
<1>6. FetchesShaped' /\ Fetches'
  BY <1>3, <1>4, <1>5 DEF Settled, Kept, FetchesShaped, Fetches, NoFetch
<1>7. \A t \in Slot : fetch'[t].op = fetch[t].op
  BY <1>3, <1>5
<1>8. Awaited'
  BY <1>4, <1>7 DEF Settled, Kept, Awaited
<1> QED BY <1>6, <1>8
       DEF BackendReads, Settled, Kept, Alone, OpsShaped, OpsRun, FlagsSettle

LEMMA PollTickKeeps == Settled /\ PollTick => Settled'
<1> SUFFICES ASSUME Settled, PollTick PROVE Settled'
  OBVIOUS
<1>1. UNCHANGED <<view, op, overlapped>>
  BY DEF PollTick
<1>2. PICK polls : polls \in BOOLEAN /\ polls = (interval = "idle")
  OBVIOUS
<1>3. latest' = [profile |-> latest.profile, page |-> latest.page,
                 sections |-> latest.sections, refreshing |-> latest.refreshing \/ polls,
                 connected |-> latest.connected, busy |-> latest.busy]
  BY <1>2 DEF PollTick, Settled, Kept, Shaped
<1>4. Shaped(latest') /\ latest'.busy = latest.busy
      /\ (latest'.refreshing => polls \/ latest.refreshing)
  BY <1>2, <1>3 DEF Settled, Kept, Shaped
<1>5. FetchesShaped' /\ Awaited' /\ (Fetches \/ polls => Fetches')
  BY <1>1, <1>2, RefreshKeeps DEF PollTick, Settled, Kept
<1> QED BY <1>1, <1>4, <1>5 DEF Settled, Kept, Alone, OpsShaped, OpsRun, FlagsSettle

-----------------------------------------------------------------------------
(* Commands *)

(* A command goes on: its handler runs as before, and waits for no fetch.  *)
LEMMA GoesOn ==
  ASSUME Settled, NEW o \in OpSlot, op[o] # NoOp, op[o].stage # "refresh",
         NEW x, x # NoOp,
         x = [kind |-> x.kind, stage |-> x.stage, wants |-> x.wants, skips |-> x.skips,
              up |-> x.up],
         op' = [op EXCEPT ![o] = x], UNCHANGED overlapped
  PROVE  /\ OpsShaped' /\ Alone' /\ (OpsRun' <=> OpsRun)
         /\ op'[o] = x /\ \A p \in OpSlot : op[p].stage = "refresh" => op'[p] = op[p]
<1>1. op'[o] = x /\ \A p \in OpSlot \ {o} : op'[p] = op[p]
  BY DEF Settled, Kept, OpsShaped
<1>2. \A p \in OpSlot : op'[p] # NoOp <=> op[p] # NoOp
  BY <1>1
<1>3. OpsShaped'
  BY <1>1 DEF Settled, Kept, OpsShaped
<1>4. Alone' /\ (OpsRun' <=> OpsRun)
  BY <1>2 DEF Settled, Alone, OpsRun
<1> QED BY <1>1, <1>3, <1>4

LEMMA BackendActsKeeps ==
  ASSUME Settled, NEW o \in OpSlot, BackendActs(o)
  PROVE  Settled'
<1>1. op[o] = [kind |-> op[o].kind, stage |-> op[o].stage, wants |-> op[o].wants,
               skips |-> op[o].skips, up |-> op[o].up]
  BY DEF Settled, Kept, OpsShaped
<1>2. PICK up : op' = [op EXCEPT ![o].stage = "acted", ![o].up = up]
  BY DEF BackendActs
<1>0. PICK x : x = [op[o] EXCEPT !.stage = "acted", !.up = up]
  OBVIOUS
<1>3. x = [kind |-> op[o].kind, stage |-> "acted", wants |-> op[o].wants,
           skips |-> op[o].skips, up |-> up]
  BY <1>0, <1>1
<1>4. op' = [op EXCEPT ![o] = x]
  BY <1>0, <1>2
<1>5. op[o] # NoOp /\ op[o].stage # "refresh" /\ x # NoOp
  BY <1>3 DEF BackendActs, NoOp
<1>6. /\ OpsShaped' /\ Alone' /\ (OpsRun' <=> OpsRun)
      /\ \A p \in OpSlot : op[p].stage = "refresh" => op'[p] = op[p]
  BY <1>3, <1>4, <1>5, GoesOn DEF BackendActs
<1> QED BY <1>6
       DEF BackendActs, Settled, Kept, FetchesShaped, Awaited, Fetches, FlagsSettle

(* A handler that waits for no fetch ends. *)
LEMMA OpEnds ==
  ASSUME Settled, NEW o \in OpSlot, op[o] # NoOp, op[o].stage # "refresh",
         NEW state, Shaped(state), state.busy = latest.busy,
         state.refreshing = latest.refreshing,
         latest' = Released(state, o), op' = WithoutOp(o),
         UNCHANGED <<view, fetch, overlapped>>
  PROVE  Settled'
<1>1. /\ Shaped(latest') /\ latest'.refreshing = latest.refreshing
      /\ OpsShaped' /\ Alone'
      /\ latest'.busy => OpsRun'
      /\ OpsRun' /\ ~overlapped' => latest'.busy
      /\ \A p \in OpSlot : p # o => op'[p] = op[p]
  BY ReleasedKeeps
<1>2. Awaited'
  BY <1>1 DEF Settled, Kept, Awaited
<1> QED BY <1>1, <1>2 DEF Settled, Kept, FetchesShaped, Fetches, FlagsSettle

LEMMA CommandFailsKeeps ==
  ASSUME Settled, NEW o \in OpSlot, CommandFails(o)
  PROVE  Settled'
<1>1. op[o] # NoOp /\ op[o].stage # "refresh"
  BY DEF CommandFails, NoOp
<1>2. Shaped(latest)
  BY DEF Settled, Kept
<1> QED BY <1>1, <1>2, OpEnds DEF CommandFails

LEMMA CommandReturnsKeeps ==
  ASSUME Settled, NEW o \in OpSlot, CommandReturns(o)
  PROVE  Settled'
<1>1. op[o].stage = "acted" /\ op[o] # NoOp /\ UNCHANGED <<view, overlapped>>
  BY DEF CommandReturns, NoOp
<1>2. op[o] = [kind |-> op[o].kind, stage |-> op[o].stage, wants |-> op[o].wants,
               skips |-> op[o].skips, up |-> op[o].up]
  BY DEF Settled, Kept, OpsShaped
<1>3. PICK answered :
        answered = IF op[o].kind = "toggle" THEN [latest EXCEPT !.connected = op[o].up]
                   ELSE latest
  OBVIOUS
<1>4. /\ Shaped(answered) /\ answered.busy = latest.busy
      /\ answered.refreshing = latest.refreshing
  <2>1. CASE op[o].kind # "toggle"
    BY <1>3, <2>1 DEF Settled, Kept
  <2>2. CASE op[o].kind = "toggle"
    <3>1. answered = [profile |-> latest.profile, page |-> latest.page,
                      sections |-> latest.sections, refreshing |-> latest.refreshing,
                      connected |-> op[o].up, busy |-> latest.busy]
      BY <1>3, <2>2 DEF Settled, Kept, Shaped
    <3> QED BY <3>1 DEF Settled, Kept, Shaped
  <2> QED BY <2>1, <2>2
<1>5. CASE latest' = Released(answered, o) /\ op' = WithoutOp(o) /\ UNCHANGED fetch
  BY <1>1, <1>4, <1>5, OpEnds
<1>6. CASE /\ latest' = [answered EXCEPT !.refreshing = TRUE]
           /\ refreshTelemetry(FALSE, o)
           /\ op' = [op EXCEPT ![o].stage = "refresh"]
  <2>0. PICK x : x = [op[o] EXCEPT !.stage = "refresh"]
    OBVIOUS
  <2>1. x = [kind |-> op[o].kind, stage |-> "refresh", wants |-> op[o].wants,
             skips |-> op[o].skips, up |-> op[o].up]
    BY <1>2, <2>0
  <2>2. op' = [op EXCEPT ![o] = x] /\ x # NoOp
    BY <1>6, <2>0, <2>1 DEF NoOp
  <2>3. /\ OpsShaped' /\ Alone' /\ (OpsRun' <=> OpsRun)
        /\ op'[o] = x /\ \A p \in OpSlot : op[p].stage = "refresh" => op'[p] = op[p]
    BY <1>1, <2>1, <2>2, GoesOn
  <2>4. FetchesShaped' /\ Awaited' /\ Fetches'
    BY <1>1, <1>6, <2>1, <2>3, AskingKeeps DEF refreshTelemetry, Settled, Kept
  <2>5. latest' = [profile |-> answered.profile, page |-> answered.page,
                   sections |-> answered.sections, refreshing |-> TRUE,
                   connected |-> answered.connected, busy |-> answered.busy]
    BY <1>4, <1>6 DEF Shaped
  <2>6. Shaped(latest') /\ latest'.busy = latest.busy
    BY <1>4, <2>5 DEF Shaped
  <2> QED BY <1>1, <2>3, <2>4, <2>6 DEF Settled, Kept, FlagsSettle
<1>7. CASE UNCHANGED <<latest, fetch>> /\ op' = [op EXCEPT ![o].stage = "presence"]
  <2>0. PICK x : x = [op[o] EXCEPT !.stage = "presence"]
    OBVIOUS
  <2>1. x = [kind |-> op[o].kind, stage |-> "presence", wants |-> op[o].wants,
             skips |-> op[o].skips, up |-> op[o].up]
    BY <1>2, <2>0
  <2>2. op' = [op EXCEPT ![o] = x] /\ x # NoOp
    BY <1>7, <2>0, <2>1 DEF NoOp
  <2>3. /\ OpsShaped' /\ Alone' /\ (OpsRun' <=> OpsRun)
        /\ \A p \in OpSlot : op[p].stage = "refresh" => op'[p] = op[p]
    BY <1>1, <2>1, <2>2, GoesOn
  <2> QED BY <1>1, <1>7, <2>3 DEF Settled, Kept, FetchesShaped, Awaited, Fetches, FlagsSettle
<1> QED BY <1>3, <1>5, <1>6, <1>7 DEF CommandReturns

LEMMA PresenceReturnsKeeps == Settled /\ PresenceReturns => Settled'
<1> SUFFICES ASSUME Settled, PresenceReturns PROVE Settled'
  OBVIOUS
<1>1. PICK waiting :
        /\ waiting = {o \in OpSlot : op[o].stage = "presence"}
        /\ latest' = [latest EXCEPT !.busy = @ /\ waiting = {}]
        /\ op' = [o \in OpSlot |-> IF o \in waiting THEN NoOp ELSE op[o]]
  BY DEF PresenceReturns
<1>2. UNCHANGED <<view, fetch, overlapped>>
  BY DEF PresenceReturns
<1>3. latest' = [profile |-> latest.profile, page |-> latest.page,
                 sections |-> latest.sections, refreshing |-> latest.refreshing,
                 connected |-> latest.connected, busy |-> latest.busy /\ waiting = {}]
  BY <1>1 DEF Settled, Kept, Shaped
<1>4. /\ Shaped(latest') /\ latest'.refreshing = latest.refreshing
      /\ latest'.busy <=> latest.busy /\ waiting = {}
  BY <1>3 DEF Settled, Kept, Shaped
<1>5. \A o \in waiting : o \in OpSlot /\ op[o] # NoOp /\ op'[o] = NoOp
  BY <1>1 DEF NoOp
<1>6. \A o \in OpSlot : op'[o] = op[o] \/ o \in waiting
  BY <1>1
<1>7. \A o \in OpSlot : op[o].stage = "refresh" => op'[o] = op[o]
  BY <1>1
<1>8. OpsShaped'
  BY <1>1, <1>5, <1>6 DEF Settled, Kept, OpsShaped, NoOp
<1>9. Alone'
  BY <1>2, <1>5, <1>6 DEF Settled, Alone
<1>10. CASE waiting = {}
  <2>1. OpsRun' <=> OpsRun
    BY <1>6, <1>10 DEF OpsRun
  <2> QED BY <1>2, <1>4, <1>7, <1>8, <1>9, <1>10, <2>1
         DEF Settled, Kept, FetchesShaped, Awaited, Fetches, FlagsSettle
<1>11. CASE waiting # {}
  <2>1. ~overlapped' => ~OpsRun'
    BY <1>2, <1>5, <1>6, <1>11 DEF Settled, Alone, OpsRun
  <2> QED BY <1>2, <1>4, <1>7, <1>8, <1>9, <1>11, <2>1
         DEF Settled, Kept, FetchesShaped, Awaited, Fetches, FlagsSettle
<1> QED BY <1>10, <1>11

-----------------------------------------------------------------------------
(* The other steps *)

LEMMA UserKeeps == Settled /\ User => Settled'
<1> SUFFICES ASSUME Settled, User PROVE Settled'
  OBVIOUS
<1>1. CASE SelectPage
  <2>1. PICK page : Render([latest EXCEPT !.page = page]) /\ UNCHANGED <<op, overlapped>>
    BY <1>1 DEF SelectPage
  <2>2. PICK state : state = [latest EXCEPT !.page = page]
    OBVIOUS
  <2>3. state = [profile |-> latest.profile, page |-> page, sections |-> latest.sections,
                 refreshing |-> latest.refreshing, connected |-> latest.connected,
                 busy |-> latest.busy]
    BY <2>2 DEF Settled, Kept, Shaped
  <2>4. /\ Shaped(state) /\ state.refreshing = latest.refreshing
        /\ state.busy = latest.busy
    BY <2>3 DEF Settled, Kept, Shaped
  <2> QED BY <2>1, <2>2, <2>4, PlainRender
<1>2. CASE ToggleSection
  <2>1. PICK page :
          /\ Render([latest EXCEPT !.sections[SectionOf(page)] = ~@])
          /\ UNCHANGED <<op, overlapped>>
    BY <1>2 DEF ToggleSection
  <2>2. PICK state : state = [latest EXCEPT !.sections[SectionOf(page)] = ~@]
    OBVIOUS
  <2>3. PICK sections :
          sections = [latest.sections EXCEPT ![SectionOf(page)] = ~@]
    OBVIOUS
  <2>4. state = [profile |-> latest.profile, page |-> latest.page, sections |-> sections,
                 refreshing |-> latest.refreshing, connected |-> latest.connected,
                 busy |-> latest.busy]
    BY <2>2, <2>3 DEF Settled, Kept, Shaped
  <2>5. /\ Shaped(state) /\ state.refreshing = latest.refreshing
        /\ state.busy = latest.busy
    BY <2>4 DEF Settled, Kept, Shaped
  <2> QED BY <2>1, <2>2, <2>5, PlainRender
<1>3. CASE \E kind : Begins(kind)
  BY <1>3, BeginsKeeps
<1> QED BY <1>1, <1>2, <1>3 DEF User, handleConnectToggle, handleSetGlobalFlag,
       handleSetSectorFlag, handleDisconnectDesktopSession

(* Steps that leave the fetches, the handlers and the flags alone. *)
LEMMA QuietKeeps ==
  ASSUME Settled, NEW profile, NEW connected,
         \/ latest' = [latest EXCEPT !.profile = profile]
         \/ latest' = [latest EXCEPT !.connected = connected]
         \/ latest' = latest,
         UNCHANGED <<view, fetch, op, overlapped>>
  PROVE  Settled'
<1>1. \E a, b : latest' = [profile |-> a, page |-> latest.page, sections |-> latest.sections,
                           refreshing |-> latest.refreshing, connected |-> b,
                           busy |-> latest.busy]
  BY DEF Settled, Kept, Shaped
<1>2. /\ Shaped(latest') /\ latest'.refreshing = latest.refreshing
      /\ latest'.busy = latest.busy
  BY <1>1 DEF Settled, Kept, Shaped
<1> QED BY <1>2 DEF Settled, Kept, FetchesShaped, OpsShaped, Awaited, Alone, Fetches, OpsRun,
       FlagsSettle

LEMMA SettledNext == Settled /\ [Next]_vars => Settled'
<1> SUFFICES ASSUME Settled, [Next]_vars PROVE Settled'
  OBVIOUS
<1>1. CASE User
  BY <1>1, UserKeeps
<1>2. CASE RenderLater
  <2>1. Shaped(latest) /\ Render(latest) /\ UNCHANGED <<op, overlapped>>
    BY <1>2 DEF RenderLater, Settled, Kept
  <2> QED BY <2>1, PlainRender
<1>3. CASE PollTick
  BY <1>3, PollTickKeeps
<1>4. CASE Async
  BY <1>4, BackendReadsKeeps, FetchReturnsKeeps, FetchFailsKeeps, BackendActsKeeps,
     CommandReturnsKeeps, CommandFailsKeeps, PresenceReturnsKeeps DEF Async
<1>5. CASE BootAnswers
  <2>1. PICK profile : latest' = [latest EXCEPT !.profile = profile]
    BY <1>5 DEF BootAnswers
  <2> QED BY <1>5, <2>1, QuietKeeps DEF BootAnswers
<1>6. CASE StreamDelivers
  BY <1>6, QuietKeeps DEF StreamDelivers, Shows
<1>7. CASE MaskEnds \/ StreamOpens \/ StreamDrops \/ Elsewhere \/ UNCHANGED vars
  BY <1>7, QuietKeeps DEF MaskEnds, StreamOpens, StreamDrops, Elsewhere, vars
<1> QED BY <1>1, <1>2, <1>3, <1>4, <1>5, <1>6, <1>7 DEF Next, Stream

LEMMA InitSettled == Init => Settled
<1> SUFFICES ASSUME Init PROVE Settled
  OBVIOUS
<1>1. Shaped(view) /\ ~view.refreshing /\ ~view.busy
  BY DEF Init, Shaped
<1>2. PICK page, sections : latest = [view EXCEPT !.page = page, !.sections = sections]
  BY DEF Init
<1>3. latest = [profile |-> view.profile, page |-> page, sections |-> sections,
                refreshing |-> view.refreshing, connected |-> view.connected,
                busy |-> view.busy]
  BY <1>1, <1>2 DEF Shaped
<1>4. Shaped(latest) /\ ~latest.refreshing /\ ~latest.busy
  BY <1>1, <1>3 DEF Shaped
<1>5. FetchesShaped /\ Awaited
  BY DEF Init, FetchesShaped, Awaited, NoFetch
<1>6. OpsShaped /\ ~OpsRun /\ Alone
  BY DEF Init, OpsShaped, OpsRun, Alone, NoOp
<1> QED BY <1>1, <1>4, <1>5, <1>6 DEF Settled, Kept, FlagsSettle

(* Whatever the number of fetches and commands, and however they overlap,  *)
(* fail and end, refreshing and busy (App.tsx:89, 271) are never left on   *)
(* when nothing runs.                                                      *)
THEOREM FlagsSafety == Spec => []FlagsSettle
<1>1. Settled => FlagsSettle
  BY DEF Settled
<1> QED BY <1>1, InitSettled, SettledNext, PTL DEF Spec

-----------------------------------------------------------------------------
(* Types *)

ProfileType == [authenticated : BOOLEAN, user : BOOLEAN, permissions : SUBSET Permission]
SectionsType == UNION {[names -> BOOLEAN] : names \in SUBSET Section}
StateType == [profile : ProfileType, page : PageId, sections : SectionsType,
              refreshing : BOOLEAN, connected : BOOLEAN, busy : BOOLEAN]
FetchType == [stage : {"none", "asked", "answered"}, frame : Frame, op : OpSlot \cup {0}]
OpType == [kind : {"none", "toggle", "flag", "disconnect"},
           stage : {"none", "command", "acted", "refresh", "presence"},
           wants : BOOLEAN, skips : BOOLEAN, up : BOOLEAN]

(* The conjuncts of TypeOK, the types of the records named. *)
Typing ==
  /\ latest \in StateType /\ view \in StateType
  /\ telemetry \in Frame /\ server \in Frame
  /\ presence \in {"null", "empty", "listed"}
  /\ detached \in {"none", "viewer-live", "viewer-map"}
  /\ boot \in {"asked", "masked", "done"}
  /\ interval \in {"off", "idle", "refreshing"}
  /\ fetch \in [Slot -> FetchType]
  /\ op \in [OpSlot -> OpType]
  /\ stream \in {"off", "down", "open"}
  /\ asked \in BOOLEAN /\ overlapped \in BOOLEAN

LEMMA TypingIsTypeOK == Typing <=> TypeOK
  BY DEF Typing, TypeOK, State, StateType, ProfileType, SectionsType, FetchType, OpType

LEMMA SectionsAre ==
  ASSUME NEW f
  PROVE  f \in SectionsType <=> \E names \in SUBSET Section : f \in [names -> BOOLEAN]
  BY DEF SectionsType

(* The table of pages. *)
LEMMA ItemsTyped ==
  /\ DOMAIN navItems \subseteq Nat
  /\ \A i \in DOMAIN navItems : navItems[i].id \in PageId /\ navItems[i].section \in Section
  /\ {"viewer-home", "viewer-live", "viewer-map"} \subseteq PageId
<1>1. DOMAIN navItems = 1 .. 20
  BY DEF navItems
<1>2. \A i \in DOMAIN navItems : navItems[i].id \in PageId /\ navItems[i].section \in Section
  BY DEF PageId, Section
<1>3. /\ navItems[2] = Item("viewer-home", "Viewer", "view_live_timing")
      /\ navItems[3] = Item("viewer-live", "Viewer", "view_live_timing")
      /\ navItems[4] = Item("viewer-map", "Viewer", "view_map")
  BY DEF navItems
<1>4. \A id, section, permission : Item(id, section, permission).id = id
  BY DEF Item
<1>5. /\ navItems[2].id = "viewer-home" /\ navItems[3].id = "viewer-live"
      /\ navItems[4].id = "viewer-map"
  BY <1>3, <1>4
<1>6. {2, 3, 4} \subseteq DOMAIN navItems
  BY <1>1
<1> QED BY <1>1, <1>2, <1>5, <1>6

(* The page a user is sent to is a page, and so is one he may open. *)
LEMMA GuardedTyped ==
  ASSUME detached \in {"none", "viewer-live", "viewer-map"}, NEW state \in StateType
  PROVE  GuardedPage(state) \in PageId
<1>1. PICK allowed : allowed = getAllowedPages(state.profile)
  OBVIOUS
<1>2. allowed \in SUBSET DOMAIN navItems
  BY <1>1 DEF getAllowedPages
<1>3. findDefaultPage(state.profile) \in PageId
  <2>1. CASE allowed = {}
    BY <1>1, <2>1, ItemsTyped DEF findDefaultPage
  <2>2. CASE allowed # {}
    <3>1. PICK i \in allowed : \A j \in allowed : i <= j
      BY <1>2, <2>2, ItemsTyped, LeastOf
    <3>2. PICK least : least = Min(allowed)
      OBVIOUS
    <3>3. least \in allowed
      BY <3>1, <3>2 DEF Min
    <3>4. findDefaultPage(state.profile) = navItems[least].id
      BY <1>1, <2>2, <3>2 DEF findDefaultPage
    <3> QED BY <1>2, <3>3, <3>4, ItemsTyped
  <2> QED BY <2>1, <2>2
<1>4. CASE detached # "none"
  BY <1>4, ItemsTyped DEF GuardedPage
<1>5. CASE detached = "none"
  BY <1>3, <1>5 DEF GuardedPage, StateType
<1> QED BY <1>4, <1>5

LEMMA SectionsTyped ==
  ASSUME NEW state \in StateType
  PROVE  Sections(state) \in SectionsType
<1>1. PICK defaults : defaults = buildExpandedSections(getAllowedPages(state.profile), state.page)
  OBVIOUS
<1>2. PICK allowed : allowed = getAllowedPages(state.profile)
  OBVIOUS
<1>3. PICK names \in SUBSET Section : names = groupedNav(allowed)
  <2>1. allowed \in SUBSET DOMAIN navItems
    BY <1>2 DEF getAllowedPages
  <2> QED BY <2>1, ItemsTyped DEF groupedNav
<1>4. defaults = [section \in names |->
                    \E i \in allowed : navItems[i].section = section /\ navItems[i].id = state.page]
  BY <1>1, <1>2, <1>3 DEF buildExpandedSections
<1>5. defaults \in [names -> BOOLEAN]
  BY <1>4
<1>6. Sections(state) = [section \in names |->
                           IF section \in DOMAIN state.sections THEN state.sections[section]
                           ELSE defaults[section]]
  BY <1>1, <1>4 DEF Sections
<1>7. PICK old \in SUBSET Section : state.sections \in [old -> BOOLEAN]
  BY SectionsAre DEF StateType
<1>8. \A section \in names :
        (IF section \in DOMAIN state.sections THEN state.sections[section]
         ELSE defaults[section]) \in BOOLEAN
  BY <1>5, <1>7
<1>9. Sections(state) \in [names -> BOOLEAN]
  BY <1>6, <1>8
<1> QED BY <1>9, SectionsAre

-----------------------------------------------------------------------------
(* The types are kept. *)

LEMMA NothingTyped ==
  /\ NoFrame \in Frame /\ NoFetch \in FetchType /\ NoOp \in OpType
  /\ NoProfile \in ProfileType /\ <<>> \in SectionsType
<1>1. NoFrame \in Frame
  BY WorkspaceAssumption DEF WorkspaceAssumption, NoFrame, Frame
<1>2. NoFetch \in FetchType
  BY <1>1 DEF NoFetch, FetchType
<1>3. NoOp \in OpType /\ NoProfile \in ProfileType
  BY DEF NoOp, OpType, NoProfile, ProfileType
<1>4. <<>> \in [{} -> BOOLEAN]
  OBVIOUS
<1> QED BY <1>1, <1>2, <1>3, <1>4, SectionsAre

LEMMA AskingTyped ==
  ASSUME Typing, HasRoom, NEW o \in OpSlot \cup {0}
  PROVE  Asking(o) \in [Slot -> FetchType]
<1>1. PICK f \in FetchType : f = [stage |-> "asked", frame |-> NoFrame, op |-> o]
  BY NothingTyped DEF FetchType
<1>2. PICK s \in Slot : Asking(o) = [fetch EXCEPT ![s] = f]
  BY <1>1, AskingTakes
<1> QED BY <1>2 DEF Typing

LEMMA RefreshTyped ==
  ASSUME Typing, NEW refreshing, NEW o \in OpSlot \cup {0}, refreshTelemetry(refreshing, o)
  PROVE  fetch' \in [Slot -> FetchType]
<1>1. CASE refreshing
  BY <1>1 DEF refreshTelemetry, Typing
<1>2. CASE ~refreshing
  BY <1>2, AskingTyped DEF refreshTelemetry
<1> QED BY <1>1, <1>2

LEMMA RenderTyped ==
  ASSUME Typing, NEW state \in StateType, Render(state),
         boot' \in {"asked", "masked", "done"}, op' \in [OpSlot -> OpType],
         overlapped' \in BOOLEAN
  PROVE  Typing'
<1>1. PICK sections \in SectionsType : sections = Sections(state)
  BY SectionsTyped
<1>2. PICK page \in PageId : page = GuardedPage(state)
  BY GuardedTyped DEF Typing
<1>3. PICK polls \in BOOLEAN :
        /\ \/ latest' = [state EXCEPT !.sections = sections, !.page = page,
                                      !.refreshing = polls \/ @]
           \/ latest' = state
        /\ polls => refreshTelemetry(state.refreshing, 0)
        /\ ~polls => UNCHANGED fetch
  <2> DEFINE navigated == state.profile # view.profile \/ state.page # view.page
             asking    == navigated /\ state.profile.authenticated
  <2>1. asking \in BOOLEAN
    BY DEF StateType, ProfileType
  <2>2. latest' = IF navigated
                  THEN [state EXCEPT !.sections = sections, !.page = page,
                                     !.refreshing = asking \/ @]
                  ELSE state
    BY <1>1, <1>2 DEF Render
  <2>3. (asking => refreshTelemetry(state.refreshing, 0)) /\ (~asking => UNCHANGED fetch)
    BY DEF Render
  <2> HIDE DEF navigated, asking
  <2> QED BY <2>1, <2>2, <2>3
<1>4. latest' \in StateType /\ view' \in StateType
  <2>1. (polls \/ state.refreshing) \in BOOLEAN
    OBVIOUS
  <2>2. [state EXCEPT !.sections = sections, !.page = page, !.refreshing = polls \/ @]
          \in StateType
    BY DEF StateType
  <2>3. view' = state
    BY DEF Render
  <2> QED BY <1>3, <2>2, <2>3
<1>5. fetch' \in [Slot -> FetchType]
  <2>1. CASE polls
    BY <1>3, <2>1, RefreshTyped
  <2>2. CASE ~polls
    BY <1>3, <2>2 DEF Typing
  <2> QED BY <2>1, <2>2
<1>6. interval' \in {"off", "idle", "refreshing"}
  BY DEF Render, IntervalOf, Typing
<1>7. asked' \in BOOLEAN
  BY DEF Render, Typing
<1>8. stream' \in {"off", "down", "open"} /\ presence' \in {"null", "empty", "listed"}
  BY DEF Render, Typing
<1>9. UNCHANGED <<telemetry, detached, server>>
  BY DEF Render
<1> QED BY <1>4, <1>5, <1>6, <1>7, <1>8, <1>9 DEF Typing

LEMMA TypingInRenderLater == Typing /\ RenderLater => Typing'
<1> SUFFICES ASSUME Typing, RenderLater PROVE Typing'
  OBVIOUS
<1>1. latest \in StateType /\ Render(latest)
  BY DEF Typing, RenderLater
<1>2. /\ boot' \in {"asked", "masked", "done"} /\ op' \in [OpSlot -> OpType]
      /\ overlapped' \in BOOLEAN
  BY DEF Typing, RenderLater
<1> QED BY <1>1, <1>2, RenderTyped

LEMMA TypingInBegins == \A kind \in {"toggle", "flag", "disconnect"} :
  Typing /\ Begins(kind) => Typing'
<1> SUFFICES ASSUME NEW kind \in {"toggle", "flag", "disconnect"}, Typing, Begins(kind)
             PROVE  Typing'
  OBVIOUS
<1>1. PICK wants \in BOOLEAN : wants = (kind = "toggle" /\ ~view.connected)
  OBVIOUS
<1>2. PICK x : x = [kind |-> kind, stage |-> "command", wants |-> wants,
                    skips |-> view.refreshing, up |-> FALSE]
  OBVIOUS
<1>3. x \in OpType
  BY <1>2 DEF OpType, Typing, StateType
<1>4. \E o \in OpSlot : op' = [op EXCEPT ![o] = x]
  BY <1>1, <1>2 DEF Begins
<1>5. op' \in [OpSlot -> OpType]
  BY <1>3, <1>4 DEF Typing
<1>6. boot' \in {"asked", "masked", "done"} /\ overlapped' \in BOOLEAN
  BY DEF Begins, Click, Typing
<1>7. PICK state \in StateType : state = [latest EXCEPT !.busy = TRUE]
  BY DEF Typing, StateType
<1>8. Render(state)
  BY <1>7 DEF Begins
<1> QED BY <1>5, <1>6, <1>8, RenderTyped

LEMMA TypingInUser == Typing /\ User => Typing'
<1> SUFFICES ASSUME Typing, User PROVE Typing'
  OBVIOUS
<1>1. CASE SelectPage \/ ToggleSection
  <2>1. /\ boot' \in {"asked", "masked", "done"} /\ op' \in [OpSlot -> OpType]
        /\ overlapped' \in BOOLEAN
    BY <1>1 DEF SelectPage, ToggleSection, Click, Typing
  <2>2. \E state \in StateType : Render(state)
    <3>1. CASE SelectPage
      <4>1. PICK page : MayOpen(view.profile, page) /\ Render([latest EXCEPT !.page = page])
        BY <3>1 DEF SelectPage
      <4>2. page \in PageId
        BY <4>1, ItemsTyped DEF MayOpen, getAllowedPages
      <4>3. [latest EXCEPT !.page = page] \in StateType
        BY <4>2 DEF Typing, StateType
      <4> QED BY <4>1, <4>3
    <3>2. CASE ToggleSection
      <4>1. PICK name : Render([latest EXCEPT !.sections[name] = ~@])
        BY <3>2 DEF ToggleSection
      <4>2. PICK old : old = latest.sections
        OBVIOUS
      <4>3. PICK names \in SUBSET Section : old \in [names -> BOOLEAN]
        BY <4>2, SectionsAre DEF Typing, StateType
      <4>4. PICK new : new = [old EXCEPT ![name] = ~@]
        OBVIOUS
      <4>5. new \in [names -> BOOLEAN]
        BY <4>3, <4>4
      <4>6. new \in SectionsType
        BY <4>5, SectionsAre
      <4>7. PICK state : state = [latest EXCEPT !.sections = new]
        OBVIOUS
      <4>8. state \in StateType
        BY <4>6, <4>7 DEF Typing, StateType
      <4>9. Render(state)
        BY <4>1, <4>2, <4>4, <4>7
      <4> QED BY <4>8, <4>9
    <3> QED BY <1>1, <3>1, <3>2
  <2> QED BY <2>1, <2>2, RenderTyped
<1>2. CASE handleConnectToggle \/ handleSetGlobalFlag \/ handleSetSectorFlag
             \/ handleDisconnectDesktopSession
  <2>1. \E kind \in {"toggle", "flag", "disconnect"} : Begins(kind)
    BY <1>2 DEF handleConnectToggle, handleSetGlobalFlag, handleSetSectorFlag,
       handleDisconnectDesktopSession
  <2> QED BY <2>1, TypingInBegins
<1> QED BY <1>1, <1>2 DEF User

LEMMA TypingInPoll == Typing /\ PollTick => Typing'
<1> SUFFICES ASSUME Typing, PollTick PROVE Typing'
  OBVIOUS
<1>1. fetch' \in [Slot -> FetchType]
  BY RefreshTyped DEF PollTick
<1>2. latest' \in StateType
  <2>1. PICK refreshing \in BOOLEAN : latest' = [latest EXCEPT !.refreshing = refreshing]
    BY DEF PollTick
  <2> QED BY <2>1 DEF Typing, StateType
<1>3. asked' \in BOOLEAN
  BY DEF PollTick, Typing
<1> QED BY <1>1, <1>2, <1>3 DEF PollTick, Typing

(* The end of a fetch, and of the handler that has waited for it. *)
LEMMA EndTyped ==
  ASSUME Typing, NEW state \in StateType, NEW o \in OpSlot \cup {0}
  PROVE  Released(state, o) \in StateType /\ WithoutOp(o) \in [OpSlot -> OpType]
<1>1. [state EXCEPT !.busy = FALSE] \in StateType
  BY DEF StateType
<1>2. [op EXCEPT ![o] = NoOp] \in [OpSlot -> OpType]
  BY NothingTyped DEF Typing
<1> QED BY <1>1, <1>2 DEF Released, WithoutOp, Typing

LEMMA TypingInFetch ==
  ASSUME Typing, NEW s \in Slot, BackendReads(s) \/ FetchReturns(s) \/ FetchFails(s)
  PROVE  Typing'
<1>1. PICK run \in FetchType : run = fetch[s]
  BY DEF Typing
<1>2. run.frame \in Frame /\ run.op \in OpSlot \cup {0}
  BY DEF FetchType
<1>3. CASE BackendReads(s)
  <2>1. PICK new : new = [run EXCEPT !.stage = "answered", !.frame = server]
    OBVIOUS
  <2>2. new \in FetchType
    BY <2>1 DEF FetchType, Typing
  <2>3. fetch' = [fetch EXCEPT ![s] = new]
    BY <1>1, <1>3, <2>1 DEF BackendReads, Typing
  <2>4. fetch' \in [Slot -> FetchType]
    BY <2>2, <2>3 DEF Typing
  <2> QED BY <1>3, <2>4 DEF BackendReads, Typing
<1>4. CASE FetchReturns(s) \/ FetchFails(s)
  <2>1. fetch' \in [Slot -> FetchType]
    BY <1>4, NothingTyped DEF FetchReturns, FetchFails, Typing
  <2>2. telemetry' \in Frame
    BY <1>1, <1>2, <1>4 DEF FetchReturns, FetchFails, Typing
  <2>3. \E state \in StateType : latest' = Released(state, run.op)
    <3>1. CASE FetchReturns(s)
      <4>1. PICK up \in BOOLEAN : up = run.frame.up
        BY <1>2 DEF Frame
      <4>2. PICK a \in StateType : a = [latest EXCEPT !.connected = up]
        BY DEF Typing, StateType
      <4>3. PICK b \in StateType : b = [a EXCEPT !.refreshing = FALSE]
        BY DEF StateType
      <4>4. b = Refreshed(latest, run.frame)
        BY <4>1, <4>2, <4>3 DEF Refreshed, Shows
      <4> QED BY <1>1, <3>1, <4>4 DEF FetchReturns
    <3>2. CASE FetchFails(s)
      <4>1. PICK state \in StateType : state = [latest EXCEPT !.refreshing = FALSE]
        BY DEF Typing, StateType
      <4> QED BY <1>1, <3>2, <4>1 DEF FetchFails
    <3> QED BY <1>4, <3>1, <3>2
  <2>4. op' = WithoutOp(run.op)
    BY <1>1, <1>4 DEF FetchReturns, FetchFails
  <2>5. latest' \in StateType /\ op' \in [OpSlot -> OpType]
    BY <1>2, <2>3, <2>4, EndTyped
  <2> QED BY <1>4, <2>1, <2>2, <2>5 DEF FetchReturns, FetchFails, Typing
<1> QED BY <1>3, <1>4

(* The backend's state takes another version, while the bound allows it. *)
LEMMA ServerTyped ==
  ASSUME Typing, NEW up \in BOOLEAN, ServerChanges(up)
  PROVE  server' \in Frame
<1>1. server \in Frame
  BY DEF Typing
<1>2. \/ server' = server
      \/ server.version < MaxVersion /\ server' = [version |-> server.version + 1, up |-> up]
      \/ server.version < MaxVersion /\ server' = [server EXCEPT !.version = @ + 1]
  BY DEF ServerChanges
<1>3. server.version \in -1 .. MaxVersion /\ MaxVersion \in Nat
  BY <1>1, WorkspaceAssumption DEF WorkspaceAssumption, Frame
<1>4. server.version < MaxVersion => server.version + 1 \in -1 .. MaxVersion
  BY <1>3
<1> QED BY <1>1, <1>2, <1>4 DEF Frame

LEMMA TypingInOp ==
  ASSUME Typing, NEW o \in OpSlot, BackendActs(o) \/ CommandReturns(o) \/ CommandFails(o)
  PROVE  Typing'
<1>1. PICK run \in OpType : run = op[o]
  BY DEF Typing
<1>2. CASE BackendActs(o)
  <2>1. PICK up : /\ up \in {server.up, run.wants}
                  /\ UNCHANGED server \/ ServerChanges(up)
                  /\ op' = [op EXCEPT ![o].stage = "acted", ![o].up = up]
    BY <1>1, <1>2 DEF BackendActs
  <2>2. up \in BOOLEAN
    BY <2>1 DEF Typing, Frame, OpType
  <2>3. PICK new : new = [run EXCEPT !.stage = "acted", !.up = up]
    OBVIOUS
  <2>4. new \in OpType
    BY <2>2, <2>3 DEF OpType
  <2>5. op' = [op EXCEPT ![o] = new]
    BY <1>1, <2>1, <2>3 DEF Typing
  <2>6. op' \in [OpSlot -> OpType] /\ server' \in Frame
    BY <2>1, <2>2, <2>4, <2>5, ServerTyped DEF Typing
  <2> QED BY <1>2, <2>6 DEF BackendActs, Typing
<1>3. CASE CommandReturns(o)
  <2>1. PICK answered \in StateType :
          answered = IF run.kind = "toggle" THEN [latest EXCEPT !.connected = run.up] ELSE latest
    BY DEF Typing, StateType, OpType
  <2>2. \A stage \in {"refresh", "presence"} :
          [op EXCEPT ![o].stage = stage] \in [OpSlot -> OpType]
    <3> TAKE stage \in {"refresh", "presence"}
    <3>1. PICK new \in OpType : new = [run EXCEPT !.stage = stage]
      BY DEF OpType
    <3>2. [op EXCEPT ![o].stage = stage] = [op EXCEPT ![o] = new]
      BY <1>1, <3>1 DEF Typing
    <3> QED BY <3>1, <3>2 DEF Typing
  <2>3. \/ /\ latest' = Released(answered, o) /\ op' = WithoutOp(o)
           /\ UNCHANGED <<fetch, asked>>
        \/ /\ latest' = [answered EXCEPT !.refreshing = TRUE]
           /\ refreshTelemetry(FALSE, o)
           /\ op' = [op EXCEPT ![o].stage = "refresh"]
           /\ UNCHANGED asked
        \/ /\ asked' = TRUE /\ op' = [op EXCEPT ![o].stage = "presence"]
           /\ UNCHANGED <<latest, fetch>>
    BY <1>1, <1>3, <2>1 DEF CommandReturns
  <2>4. [answered EXCEPT !.refreshing = TRUE] \in StateType
    BY DEF StateType
  <2>5. latest' \in StateType /\ op' \in [OpSlot -> OpType] /\ asked' \in BOOLEAN
    <3>1. Released(answered, o) \in StateType /\ WithoutOp(o) \in [OpSlot -> OpType]
      BY EndTyped
    <3>2. /\ [op EXCEPT ![o].stage = "refresh"] \in [OpSlot -> OpType]
          /\ [op EXCEPT ![o].stage = "presence"] \in [OpSlot -> OpType]
      BY <2>2
    <3>3. latest' \in StateType /\ op' \in [OpSlot -> OpType]
      BY <2>3, <2>4, <3>1, <3>2 DEF Typing
    <3>4. asked' \in BOOLEAN
      BY <2>3 DEF Typing
    <3> QED BY <3>3, <3>4
  <2>6. fetch' \in [Slot -> FetchType]
    BY <2>3, RefreshTyped DEF Typing
  <2> QED BY <1>3, <2>5, <2>6 DEF CommandReturns, Typing
<1>4. CASE CommandFails(o)
  <2>1. latest' \in StateType /\ op' \in [OpSlot -> OpType]
    BY <1>4, EndTyped DEF CommandFails, Typing
  <2> QED BY <1>4, <2>1 DEF CommandFails, Typing
<1> QED BY <1>2, <1>3, <1>4

LEMMA TypingInPresence == Typing /\ PresenceReturns => Typing'
<1> SUFFICES ASSUME Typing, PresenceReturns PROVE Typing'
  OBVIOUS
<1>1. PICK waiting : /\ latest' = [latest EXCEPT !.busy = @ /\ waiting = {}]
                     /\ op' = [o \in OpSlot |-> IF o \in waiting THEN NoOp ELSE op[o]]
  BY DEF PresenceReturns
<1>2. latest' \in StateType
  <2>1. PICK busy \in BOOLEAN : busy = (latest.busy /\ waiting = {})
    OBVIOUS
  <2> QED BY <1>1, <2>1 DEF Typing, StateType
<1>3. op' \in [OpSlot -> OpType]
  BY <1>1, NothingTyped DEF Typing
<1> QED BY <1>2, <1>3 DEF PresenceReturns, Typing

LEMMA TypingInBoot == Typing /\ BootAnswers => Typing'
<1> SUFFICES ASSUME Typing, BootAnswers PROVE Typing'
  OBVIOUS
<1>1. PICK profile \in Profiles \cup {NoProfile} :
        latest' = [latest EXCEPT !.profile = sanitizeProfile(profile)]
  BY DEF BootAnswers
<1>2. profile \in ProfileType
  BY NothingTyped, WorkspaceAssumption DEF WorkspaceAssumption, ProfileType
<1>3. PICK sane \in ProfileType : sane = sanitizeProfile(profile)
  BY <1>2, NothingTyped DEF sanitizeProfile
<1>4. latest' \in StateType
  BY <1>1, <1>3 DEF Typing, StateType
<1> QED BY <1>4 DEF BootAnswers, Typing

LEMMA TypingNext == Typing /\ [Next]_vars => Typing'
<1> SUFFICES ASSUME Typing, [Next]_vars PROVE Typing'
  OBVIOUS
<1>1. CASE StreamDelivers
  <2>1. server.up \in BOOLEAN
    BY DEF Typing, Frame
  <2>2. latest' \in StateType
    BY <1>1, <2>1 DEF StreamDelivers, Shows, Typing, StateType
  <2> QED BY <1>1, <2>2 DEF StreamDelivers, Typing
<1>2. CASE Elsewhere
  <2>1. PICK up \in {server.up, FALSE} : ServerChanges(up)
    BY <1>2 DEF Elsewhere
  <2>2. server' \in Frame
    BY <2>1, ServerTyped DEF Typing, Frame
  <2> QED BY <1>2, <2>2 DEF Elsewhere, Typing
<1>3. CASE MaskEnds \/ StreamOpens \/ StreamDrops
  BY <1>3 DEF MaskEnds, StreamOpens, StreamDrops, Typing
<1>4. CASE UNCHANGED vars
  BY <1>4 DEF vars, Typing
<1>5. CASE Async
  BY <1>5, TypingInFetch, TypingInOp, TypingInPresence DEF Async
<1> QED BY <1>1, <1>2, <1>3, <1>4, <1>5, TypingInBoot, TypingInRenderLater, TypingInPoll,
           TypingInUser DEF Next, Stream

LEMMA TypingInit == Init => Typing
<1> SUFFICES ASSUME Init PROVE Typing
  OBVIOUS
<1>1. detached \in {"none", "viewer-live", "viewer-map"}
  BY WorkspaceAssumption DEF Init, WorkspaceAssumption
<1>2. PICK first \in PageId : first = IF detached = "none" THEN "viewer-home" ELSE detached
  BY <1>1, ItemsTyped
<1>3. view = [profile |-> NoProfile, page |-> first, sections |-> <<>>, refreshing |-> FALSE,
              connected |-> FALSE, busy |-> FALSE]
  BY <1>2 DEF Init
<1>4. view \in StateType
  BY <1>3, NothingTyped DEF StateType
<1>5. fetch \in [Slot -> FetchType] /\ op \in [OpSlot -> OpType] /\ telemetry \in Frame
  BY NothingTyped DEF Init
<1>6. server \in Frame
  BY WorkspaceAssumption DEF Init, WorkspaceAssumption, Frame
<1>7. GuardedPage(view) \in PageId
  BY <1>1, <1>4, GuardedTyped
<1>8. PICK page \in PageId, sections \in SectionsType :
        latest = [view EXCEPT !.page = page, !.sections = sections]
  BY <1>4, <1>7, SectionsTyped DEF Init
<1>9. latest \in StateType
  BY <1>4, <1>8 DEF StateType
<1> QED BY <1>1, <1>4, <1>5, <1>6, <1>9 DEF Init, Typing

(* What the shell keeps and what runs has its type (App.tsx:52): above all *)
(* the page it comes to is always one of its table, whoever is signed in   *)
(* (app-helpers.ts:293).                                                   *)
THEOREM TypeSafety == Spec => []TypeOK
<1> QED BY TypingInit, TypingNext, TypingIsTypeOK, PTL DEF Spec

-----------------------------------------------------------------------------
(* The box of the map *)

(* A finite set has an element that comes before all of it. *)
LEMMA FirstOf ==
  ASSUME NEW T, IsFiniteSet(T), T # {}, NEW R,
         \A x, y \in T : <<x, y>> \in R \/ <<y, x>> \in R,
         \A x, y, z \in T : <<x, y>> \in R /\ <<y, z>> \in R => <<x, z>> \in R
  PROVE  \E x \in T : \A y \in T : <<x, y>> \in R
<1>1. PICK without : without =
        {S \in SUBSET T : S # {} /\ ~\E x \in S : \A y \in S : <<x, y>> \in R}
  OBVIOUS
<1>2. CASE without = {}
  BY <1>1, <1>2
<1>3. CASE without # {}
  <2>1. \A S \in without : IsFiniteSet(S) /\ Cardinality(S) \in Nat
    BY <1>1, FS_Subset, FS_CardinalityType
  <2>2. PICK sizes : sizes = {Cardinality(S) : S \in without}
    OBVIOUS
  <2>3. sizes \in SUBSET Nat /\ sizes # {}
    BY <1>3, <2>1, <2>2
  <2>4. PICK n \in sizes : \A m \in sizes : n <= m
    BY <2>3, LeastOf
  <2>5. PICK S \in without : Cardinality(S) = n
    BY <2>2, <2>4
  <2>6. S \subseteq T /\ S # {} /\ ~\E x \in S : \A y \in S : <<x, y>> \in R
    BY <1>1, <2>5
  <2>7. PICK x \in S : TRUE
    BY <2>6
  <2>8. PICK rest : rest = S \ {x}
    OBVIOUS
  <2>9. Cardinality(rest) = n - 1 /\ n \in Nat
    BY <2>1, <2>5, <2>7, <2>8, FS_RemoveElement
  <2>10. rest \notin without
    <3>1. rest \in without => n <= n - 1
      BY <2>2, <2>4, <2>9
    <3> QED BY <2>9, <3>1
  <2>11. rest \subseteq T /\ (rest = {} \/ \E y \in rest : \A z \in rest : <<y, z>> \in R)
    BY <1>1, <2>6, <2>8, <2>10
  <2>12. <<x, x>> \in R
    BY <2>6, <2>7
  <2>13. CASE rest = {}
    BY <2>6, <2>7, <2>8, <2>12, <2>13
  <2>14. CASE rest # {}
    <3>1. PICK y \in rest : \A z \in rest : <<y, z>> \in R
      BY <2>11, <2>14
    <3>2. CASE <<x, y>> \in R
      <4>1. \A z \in S : <<x, z>> \in R
        BY <2>6, <2>7, <2>8, <2>12, <3>1, <3>2
      <4> QED BY <2>6, <2>7, <4>1
    <3>3. CASE <<y, x>> \in R
      <4>1. \A z \in S : <<y, z>> \in R
        BY <2>8, <3>1, <3>3
      <4> QED BY <2>6, <2>8, <3>1, <4>1
    <3> QED BY <2>6, <2>7, <2>11, <3>1, <3>2, <3>3
  <2> QED BY <2>13, <2>14
<1> QED BY <1>2, <1>3

(* The least and the greatest of some coordinates of finitely many points. *)
LEMMA ExtremesOf ==
  ASSUME NEW T, IsFiniteSet(T), NEW p \in T, NEW f \in [T -> Int]
  PROVE  LET low == Min({f[q] : q \in T})
             high == Max({f[q] : q \in T})
         IN  low \in Int /\ high \in Int /\ low <= f[p] /\ f[p] <= high
<1>1. PICK values : values = {f[q] : q \in T}
  OBVIOUS
<1>2. PICK first \in T : \A y \in T : f[first] <= f[y]
  <2>1. PICK R : R = {w \in T \X T : f[w[1]] <= f[w[2]]}
    OBVIOUS
  <2>2. \A x, y \in T : <<x, y>> \in R <=> f[x] <= f[y]
    BY <2>1
  <2>3. \A x, y \in T : <<x, y>> \in R \/ <<y, x>> \in R
    <3> SUFFICES ASSUME NEW x \in T, NEW y \in T PROVE f[x] <= f[y] \/ f[y] <= f[x]
      BY <2>2
    <3> QED OBVIOUS
  <2>4. \A x, y, z \in T : <<x, y>> \in R /\ <<y, z>> \in R => <<x, z>> \in R
    <3> SUFFICES ASSUME NEW x \in T, NEW y \in T, NEW z \in T
                 PROVE  f[x] <= f[y] /\ f[y] <= f[z] => f[x] <= f[z]
      BY <2>2
    <3> QED OBVIOUS
  <2>5. \E x \in T : \A y \in T : <<x, y>> \in R
    BY <2>3, <2>4, FirstOf
  <2> QED BY <2>2, <2>5
<1>3. PICK last \in T : \A y \in T : f[y] <= f[last]
  <2>1. PICK R : R = {w \in T \X T : f[w[2]] <= f[w[1]]}
    OBVIOUS
  <2>2. \A x, y \in T : <<x, y>> \in R <=> f[y] <= f[x]
    BY <2>1
  <2>3. \A x, y \in T : <<x, y>> \in R \/ <<y, x>> \in R
    <3> SUFFICES ASSUME NEW x \in T, NEW y \in T PROVE f[x] <= f[y] \/ f[y] <= f[x]
      BY <2>2
    <3> QED OBVIOUS
  <2>4. \A x, y, z \in T : <<x, y>> \in R /\ <<y, z>> \in R => <<x, z>> \in R
    <3> SUFFICES ASSUME NEW x \in T, NEW y \in T, NEW z \in T
                 PROVE  f[y] <= f[x] /\ f[z] <= f[y] => f[z] <= f[x]
      BY <2>2
    <3> QED OBVIOUS
  <2>5. \E x \in T : \A y \in T : <<x, y>> \in R
    BY <2>3, <2>4, FirstOf
  <2> QED BY <2>2, <2>5
<1>4. f[first] \in values /\ (\A v \in values : f[first] <= v)
  BY <1>1, <1>2
<1>5. f[last] \in values /\ (\A v \in values : v <= f[last])
  BY <1>1, <1>3
<1>6. PICK low : low = Min(values)
  OBVIOUS
<1>7. PICK high : high = Max(values)
  OBVIOUS
<1>8. low \in values /\ \A y \in values : low <= y
  BY <1>4, <1>6 DEF Min
<1>9. high \in values /\ \A y \in values : y <= high
  BY <1>5, <1>7 DEF Max
<1>10. f[p] \in values /\ values \subseteq Int
  BY <1>1
<1>11. low \in Int /\ high \in Int /\ low <= f[p] /\ f[p] <= high
  BY <1>8, <1>9, <1>10
<1> QED BY <1>1, <1>6, <1>7, <1>11

(* A part of a span takes that part of a width. *)
LEMMA PartOfWidth ==
  ASSUME NEW a \in Nat, NEW span \in Nat \ {0}, a <= span, NEW width \in Nat
  PROVE  (a * width) \div span \in 0 .. width
<1>1. PICK n \in Nat : n = a * width
  OBVIOUS
<1>2. PICK q \in Int : q = n \div span
  OBVIOUS
<1>3. q * span <= n /\ n < q * span + span
  BY <1>2
<1>4. n <= span * width
  BY <1>1
<1>5. q >= 0
  <2>1. CASE q < 0
    <3>1. q * span <= -span
      BY <2>1
    <3> QED BY <1>3, <3>1
  <2> QED BY <2>1
<1>6. q <= width
  <2>1. CASE q > width
    <3>1. PICK d \in Nat : q = width + 1 + d
      BY <2>1
    <3>2. q * span = width * span + span + d * span /\ d * span >= 0
      BY <3>1
    <3> QED BY <1>3, <1>4, <3>2
  <2> QED BY <2>1
<1> QED BY <1>1, <1>2, <1>5, <1>6

(* Any of the points the bounds were computed from is drawn in the box,    *)
(* inside its padding (app-helpers.ts:174, 216), though all of them may be *)
(* on one line or at one place.                                            *)
THEOREM PointsStayInTheBox ==
  ASSUME NEW points, IsFiniteSet(points), NEW p \in points,
         \A q \in points : q[1] \in Int /\ q[2] \in Int
  PROVE  LET at == projectTrackPoint(p, computeTrackBounds(points))
         IN  at.x \in Padding .. 1000 - Padding /\ at.y \in Padding .. 680 - Padding
<1>1. PICK lat \in [points -> Int] : \A q \in points : lat[q] = q[1]
  <2>1. [q \in points |-> q[1]] \in [points -> Int]
    OBVIOUS
  <2> QED BY <2>1
<1>2. PICK lon \in [points -> Int] : \A q \in points : lon[q] = q[2]
  <2>1. [q \in points |-> q[2]] \in [points -> Int]
    OBVIOUS
  <2> QED BY <2>1
<1>3. {q[1] : q \in points} = {lat[q] : q \in points}
  BY <1>1
<1>4. {q[2] : q \in points} = {lon[q] : q \in points}
  BY <1>2
<1>5. PICK bounds : bounds = computeTrackBounds(points)
  OBVIOUS
<1>6. /\ bounds.minLat \in Int /\ bounds.maxLat \in Int
      /\ bounds.minLat <= p[1] /\ p[1] <= bounds.maxLat
  BY <1>1, <1>3, <1>5, ExtremesOf DEF computeTrackBounds
<1>7. /\ bounds.minLon \in Int /\ bounds.maxLon \in Int
      /\ bounds.minLon <= p[2] /\ p[2] <= bounds.maxLon
  BY <1>2, <1>4, <1>5, ExtremesOf DEF computeTrackBounds
<1>8. PICK a \in Nat : a = p[2] - bounds.minLon
  BY <1>7
<1>9. PICK b \in Nat : b = p[1] - bounds.minLat
  BY <1>6
<1>10. PICK width \in Nat \ {0} : width = Span(bounds.minLon, bounds.maxLon) /\ a <= width
  BY <1>7, <1>8 DEF Span
<1>11. PICK height \in Nat \ {0} : height = Span(bounds.minLat, bounds.maxLat) /\ b <= height
  BY <1>6, <1>9 DEF Span
<1>12. PICK right \in 0 .. 920 : right = (a * 920) \div width
  <2>1. PICK side \in Nat : side = 920
    OBVIOUS
  <2>2. (a * side) \div width \in 0 .. side
    BY <1>10, PartOfWidth
  <2> QED BY <2>1, <2>2
<1>13. PICK up \in 0 .. 600 : up = (b * 600) \div height
  <2>1. PICK side \in Nat : side = 600
    OBVIOUS
  <2>2. (b * side) \div height \in 0 .. side
    BY <1>11, PartOfWidth
  <2> QED BY <2>1, <2>2
<1>14. PICK at : at = projectTrackPoint(p, bounds)
  OBVIOUS
<1>15. at = [x |-> Padding + ((p[2] - bounds.minLon) * 920) \div Span(bounds.minLon, bounds.maxLon),
             y |-> 640 - ((p[1] - bounds.minLat) * 600) \div Span(bounds.minLat, bounds.maxLat)]
  BY <1>14, Zenon DEF projectTrackPoint
<1>16. PICK x : x = (p[2] - bounds.minLon) * 920
  OBVIOUS
<1>17. PICK y : y = (p[1] - bounds.minLat) * 600
  OBVIOUS
<1>18. at.x = 40 + right /\ at.y = 640 - up
  <2>1. /\ at.x = Padding + (x \div Span(bounds.minLon, bounds.maxLon))
        /\ at.y = 640 - (y \div Span(bounds.minLat, bounds.maxLat))
    BY <1>15, <1>16, <1>17, Zenon
  <2>2. x = a * 920 /\ y = b * 600
    BY <1>8, <1>9, <1>16, <1>17, Zenon
  <2>3. Span(bounds.minLon, bounds.maxLon) = width /\ Span(bounds.minLat, bounds.maxLat) = height
    BY <1>10, <1>11, Zenon
  <2>4. at.x = Padding + (x \div width) /\ at.y = 640 - (y \div height)
    BY <2>1, <2>3, Zenon
  <2>5. right = x \div width /\ up = y \div height
    BY <1>12, <1>13, <2>2, Zenon
  <2>6. at.x = Padding + right /\ at.y = 640 - up
    BY <2>4, <2>5, Zenon
  <2> QED BY <2>6 DEF Padding
<1> QED BY <1>5, <1>12, <1>13, <1>14, <1>18 DEF Padding

-----------------------------------------------------------------------------
(* The cuts of the lap *)

(* The sector that ends the path goes on from its first point.             *)
LEMMA SegmentGoesOn ==
  ASSUME NEW S, NEW path \in Seq(S), NEW first \in 1 .. Len(path), NEW last \in 1 .. Len(path)
  PROVE  LET segment == segmentBetween(path, first, last)
         IN  /\ Len(segment) = IF first <= last THEN last - first + 1
                               ELSE Len(path) - first + 1 + last
             /\ \A i \in 1 .. Len(segment) :
                  segment[i] = path[IF first + i - 1 <= Len(path) THEN first + i - 1
                                    ELSE first + i - 1 - Len(path)]
<1>1. PICK n \in Nat : /\ n = Len(path) /\ (\A i \in 1 .. n : path[i] \in S)
                        /\ first \in 1 .. n /\ last \in 1 .. n
  OBVIOUS
<1>2. PICK segment : segment = segmentBetween(path, first, last)
  OBVIOUS
<1>3. CASE first <= last
  <2>1. segment = SubSeq(path, first, last)
    BY <1>2, <1>3 DEF segmentBetween
  <2>2. \A i \in first .. last : path[i] \in S
    BY <1>1
  <2>3. /\ Len(segment) = last - first + 1
        /\ \A i \in 1 .. last - first + 1 : segment[i] = path[first + i - 1]
    BY <1>3, <2>1, <2>2, SubSeqProperties
  <2>4. \A i \in 1 .. Len(segment) : first + i - 1 <= n
    BY <1>1, <2>3
  <2> QED BY <1>1, <1>2, <1>3, <2>3, <2>4
<1>4. CASE ~(first <= last)
  <2>1. PICK behind : behind = SubSeq(path, first, n)
    OBVIOUS
  <2>2. PICK ahead : ahead = SubSeq(path, 1, last)
    OBVIOUS
  <2>3. segment = behind \o ahead
    BY <1>1, <1>2, <1>4, <2>1, <2>2 DEF segmentBetween
  <2>4. /\ behind \in Seq(S) /\ Len(behind) = n - first + 1
        /\ \A i \in 1 .. n - first + 1 : behind[i] = path[first + i - 1]
    <3>1. \A i \in first .. n : path[i] \in S
      BY <1>1
    <3> QED BY <1>1, <2>1, <3>1, SubSeqProperties
  <2>5. /\ ahead \in Seq(S) /\ Len(ahead) = last
        /\ \A i \in 1 .. last : ahead[i] = path[i]
    <3>1. \A i \in 1 .. last : path[i] \in S
      BY <1>1
    <3> QED BY <1>1, <2>2, <3>1, SubSeqProperties
  <2>6. /\ Len(segment) = n - first + 1 + last
        /\ \A i \in 1 .. n - first + 1 + last :
             segment[i] = IF i <= n - first + 1 THEN behind[i] ELSE ahead[i - (n - first + 1)]
    <3>1. PICK b \in Nat : b = n - first + 1 /\ Len(behind) = b
      <4>1. n - first + 1 \in Nat
        BY <1>1
      <4> QED BY <2>4, <4>1
    <3>2. PICK a \in Nat : a = last /\ Len(ahead) = a
      BY <2>5
    <3>3. PICK both : both = behind \o ahead
      OBVIOUS
    <3>4. /\ Len(both) = Len(behind) + Len(ahead)
          /\ \A i \in 1 .. Len(behind) + Len(ahead) :
               both[i] = IF i <= Len(behind) THEN behind[i] ELSE ahead[i - Len(behind)]
      BY <2>4, <2>5, <3>3, ConcatProperties
    <3>5. /\ Len(segment) = b + a
          /\ \A i \in 1 .. b + a : segment[i] = IF i <= b THEN behind[i] ELSE ahead[i - b]
      BY <2>3, <3>1, <3>2, <3>3, <3>4
    <3> QED BY <3>1, <3>2, <3>5
  <2>7. ASSUME NEW i \in 1 .. n - first + 1 + last
        PROVE  segment[i] = path[IF first + i - 1 <= n THEN first + i - 1 ELSE first + i - 1 - n]
    <3>1. CASE i <= n - first + 1
      BY <1>1, <2>4, <2>6, <3>1
    <3>2. CASE i > n - first + 1
      <4>1. PICK j \in 1 .. last : j = i - (n - first + 1)
        <5>1. first \in Int /\ last \in Int /\ i \in Int /\ i <= n - first + 1 + last
          BY <1>1
        <5>2. i - (n - first + 1) \in 1 .. last
          BY <1>1, <3>2, <5>1
        <5> QED BY <5>2
      <4>2. segment[i] = path[j]
        BY <1>1, <2>5, <2>6, <3>2, <4>1
      <4>3. first + i - 1 > n /\ j = first + i - 1 - n
        BY <1>1, <3>2, <4>1
      <4> QED BY <1>1, <4>2, <4>3
    <3> QED BY <1>1, <3>1, <3>2
  <2> QED BY <1>1, <1>2, <1>4, <2>6, <2>7
<1> QED BY <1>3, <1>4

Apart(path) == \A i, j \in DOMAIN path : Edge(path, i) = Edge(path, j) => i = j

(* A sector draws the edges from its point to that of the next one.        *)
LEMMA SegmentEdges ==
  ASSUME NEW S, NEW path \in Seq(S), Apart(path),
         NEW first \in DOMAIN path, NEW last \in DOMAIN path, NEW k \in DOMAIN path
  PROVE  Edge(path, k) \in Edges(segmentBetween(path, first, last))
           <=> IF first <= last THEN first <= k /\ k < last ELSE first <= k \/ k < last
<1>1. PICK n \in Nat \ {0} : /\ n = Len(path) /\ DOMAIN path = 1 .. n
                             /\ first \in 1 .. n /\ last \in 1 .. n /\ k \in 1 .. n
  OBVIOUS
<1>2. \A j \in 1 .. n : /\ (j % n) + 1 \in 1 .. n
                         /\ (j % n) + 1 = IF j = n THEN 1 ELSE j + 1
  BY <1>1
<1>3. PICK segment : segment = segmentBetween(path, first, last)
  OBVIOUS
<1>4. PICK size \in Nat : size = IF first <= last THEN last - first + 1 ELSE n - first + 1 + last
  BY <1>1
<1>5. PICK at \in [1 .. size -> 1 .. n] : \A i \in 1 .. size :
        at[i] = IF first + i - 1 <= n THEN first + i - 1 ELSE first + i - 1 - n
  <2>1. \A i \in 1 .. size :
          (IF first + i - 1 <= n THEN first + i - 1 ELSE first + i - 1 - n) \in 1 .. n
    <3>1. SUFFICES ASSUME NEW i \in 1 .. size, first + i - 1 > n
                   PROVE  first + i - 1 - n \in 1 .. n
      BY <1>1
    <3>2. CASE first <= last
      BY <1>1, <1>4, <3>1, <3>2
    <3>3. CASE ~(first <= last)
      BY <1>1, <1>4, <3>1, <3>3
    <3> QED BY <3>2, <3>3
  <2>2. PICK at : at = [i \in 1 .. size |->
                          IF first + i - 1 <= n THEN first + i - 1 ELSE first + i - 1 - n]
    OBVIOUS
  <2>3. \A i \in 1 .. size : at[i] = IF first + i - 1 <= n THEN first + i - 1 ELSE first + i - 1 - n
    BY <2>2
  <2>4. at \in [1 .. size -> 1 .. n]
    BY <2>1, <2>2
  <2> QED BY <2>3, <2>4
<1>6. Len(segment) = size /\ \A i \in 1 .. size : segment[i] = path[at[i]]
  <2>1. /\ Len(segment) = size
        /\ \A i \in 1 .. size :
             segment[i] = path[IF first + i - 1 <= n THEN first + i - 1 ELSE first + i - 1 - n]
    <3>1. first \in 1 .. Len(path) /\ last \in 1 .. Len(path)
      BY <1>1
    <3>2. /\ Len(segment) = IF first <= last THEN last - first + 1
                            ELSE Len(path) - first + 1 + last
          /\ \A i \in 1 .. Len(segment) :
               segment[i] = path[IF first + i - 1 <= Len(path) THEN first + i - 1
                                 ELSE first + i - 1 - Len(path)]
      BY <1>3, <3>1, SegmentGoesOn
    <3>3. Len(segment) = size
      BY <1>1, <1>4, <3>2
    <3> QED BY <1>1, <3>2, <3>3
  <2> QED BY <1>5, <2>1
<1>7. Edges(segment) = {<<path[at[i]], path[at[i + 1]]>> : i \in 1 .. size - 1}
  <2>1. \A i \in 1 .. size - 1 : segment[i] = path[at[i]] /\ segment[i + 1] = path[at[i + 1]]
    BY <1>4, <1>6
  <2>2. Edges(segment) = {<<segment[i], segment[i + 1]>> : i \in 1 .. size - 1}
    BY <1>6, Zenon DEF Edges
  <2>3. \A i \in 1 .. size - 1 : <<segment[i], segment[i + 1]>> = <<path[at[i]], path[at[i + 1]]>>
    BY <2>1, Zenon
  <2>4. ASSUME NEW e
        PROVE  e \in Edges(segment) <=> \E i \in 1 .. size - 1 : e = <<path[at[i]], path[at[i + 1]]>>
    BY <2>2, <2>3, Zenon
  <2> QED BY <2>4, Zenon
<1>8. \A i \in 1 .. size - 1 : at[i + 1] = (at[i] % n) + 1
  <2>1. SUFFICES ASSUME NEW i \in 1 .. size - 1 PROVE at[i + 1] = (at[i] % n) + 1
    OBVIOUS
  <2>2. i \in 1 .. size /\ i + 1 \in 1 .. size
    BY <1>4
  <2>3. at[i] \in 1 .. n /\ at[i] = IF first + i - 1 <= n THEN first + i - 1 ELSE first + i - 1 - n
    BY <1>5, <2>2
  <2>4. at[i + 1] = IF first + i <= n THEN first + i ELSE first + i - n
    BY <1>1, <1>5, <2>2
  <2>5. CASE first + i - 1 < n
    <3>1. at[i] = first + i - 1 /\ at[i + 1] = first + i
      BY <1>1, <2>2, <2>3, <2>4, <2>5
    <3>2. at[i] # n /\ first + i = at[i] + 1
      BY <1>1, <2>2, <2>5, <3>1
    <3> QED BY <1>2, <2>3, <3>1, <3>2
  <2>6. CASE first + i - 1 = n
    <3>1. at[i] = n /\ at[i + 1] = 1
      BY <1>1, <2>2, <2>3, <2>4, <2>6
    <3> QED BY <1>2, <2>3, <3>1
  <2>7. CASE first + i - 1 > n
    <3>1. at[i] = first + i - 1 - n /\ at[i + 1] = first + i - n
      BY <1>1, <2>2, <2>3, <2>4, <2>7
    <3>2. i + 1 <= size /\ first + i - 1 - n < last
      BY <1>1, <1>4, <2>2, <2>7
    <3>3. at[i] # n /\ at[i + 1] = at[i] + 1
      BY <1>1, <2>2, <3>1, <3>2
    <3> QED BY <1>2, <2>3, <3>3
  <2>8. first + i - 1 < n \/ first + i - 1 = n \/ first + i - 1 > n
    BY <1>1, <2>2
  <2> QED BY <2>5, <2>6, <2>7, <2>8
<1>9. Edge(path, k) \in Edges(segment) <=> \E i \in 1 .. size - 1 : at[i] = k
  <2>1. \A i \in 1 .. size - 1 : at[i] \in DOMAIN path
    <3>1. \A i \in 1 .. size - 1 : i \in 1 .. size
      BY <1>4
    <3> QED BY <1>1, <1>5, <3>1
  <2>2. \A i \in 1 .. size - 1 : <<path[at[i]], path[at[i + 1]]>> = Edge(path, at[i])
    BY <1>1, <1>8, <2>1 DEF Edge
  <2>3. \A i \in 1 .. size - 1 : Edge(path, k) = Edge(path, at[i]) <=> at[i] = k
    BY <2>1 DEF Apart
  <2> QED BY <1>7, <2>2, <2>3, Zenon
<1>10. (\E i \in 1 .. size - 1 : at[i] = k)
         <=> IF first <= last THEN first <= k /\ k < last ELSE first <= k \/ k < last
  <2>1. ASSUME NEW i \in 1 .. size - 1, at[i] = k
        PROVE  IF first <= last THEN first <= k /\ k < last ELSE first <= k \/ k < last
    <3>1. k = IF first + i - 1 <= n THEN first + i - 1 ELSE first + i - 1 - n
      BY <1>4, <1>5, <2>1
    <3> QED BY <1>1, <1>4, <3>1
  <2>2. CASE first <= k /\ (k < last \/ ~(first <= last))
    <3>1. PICK i \in 1 .. size - 1 : i = k - first + 1
      <4>1. k - first + 1 \in 1 .. size - 1
        BY <1>1, <1>4, <2>2
      <4> QED BY <4>1
    <3>2. i \in 1 .. size /\ first + i - 1 = k /\ k <= n
      BY <1>1, <1>4, <3>1
    <3>3. at[i] = k
      BY <1>5, <3>2
    <3> QED BY <2>1, <2>2, <3>1, <3>3
  <2>3. CASE ~(first <= last) /\ k < last
    <3>1. PICK i \in 1 .. size - 1 : i = n - first + 1 + k
      <4>1. n - first + 1 + k \in 1 .. size - 1
        BY <1>1, <1>4, <2>3
      <4> QED BY <4>1
    <3>2. i \in 1 .. size /\ first + i - 1 > n /\ first + i - 1 - n = k
      BY <1>1, <1>4, <3>1
    <3>3. at[i] = k
      <4>1. ~(first + i - 1 <= n)
        BY <1>1, <1>4, <3>2
      <4> QED BY <1>5, <3>2, <4>1
    <3> QED BY <2>1, <2>3, <3>1, <3>3
  <2> QED BY <1>1, <2>1, <2>2, <2>3
<1> QED BY <1>3, <1>9, <1>10

(* However many sectors there are, at whatever points of the path, though  *)
(* some of them share one, each edge of the lap, the one that closes it    *)
(* included, is drawn by exactly one sector (app-helpers.ts:341), unless   *)
(* all of them are at one point.                                           *)
THEOREM LapIsCutOnce ==
  ASSUME NEW S, NEW path \in Seq(S), Apart(path),
         NEW m \in Nat \ {0}, NEW cuts \in [1 .. m -> DOMAIN path],
         \A i, j \in 1 .. m : i <= j => cuts[i] <= cuts[j],
         cuts[1] < cuts[m],
         NEW k \in DOMAIN path
  PROVE  LET draws(i) ==
               Edge(path, k) \in Edges(segmentBetween(path, cuts[i], cuts[(i % m) + 1]))
         IN  \E i \in 1 .. m : draws(i) /\ \A j \in 1 .. m : draws(j) => j = i
<1>1. PICK drawing : drawing =
        {i \in 1 .. m : Edge(path, k) \in Edges(segmentBetween(path, cuts[i], cuts[(i % m) + 1]))}
  OBVIOUS
<1>2. DOMAIN path \subseteq Int /\ k \in Int /\ \A i \in 1 .. m : cuts[i] \in Int
  OBVIOUS
<1>3. \A i \in 1 .. m - 1 : i \in drawing <=> cuts[i] <= k /\ k < cuts[i + 1]
  <2>1. SUFFICES ASSUME NEW i \in 1 .. m - 1
                 PROVE  i \in drawing <=> cuts[i] <= k /\ k < cuts[i + 1]
    OBVIOUS
  <2>2. i % m = i /\ i \in 1 .. m /\ i + 1 \in 1 .. m
    <3>1. i \in Nat /\ 0 <= i /\ i < m
      OBVIOUS
    <3>2. i % m = i
      BY <3>1
    <3> QED BY <3>1, <3>2
  <2>3. cuts[i] \in DOMAIN path /\ cuts[i + 1] \in DOMAIN path /\ cuts[i] <= cuts[i + 1]
    BY <2>2
  <2>4. Edge(path, k) \in Edges(segmentBetween(path, cuts[i], cuts[i + 1])) <=> cuts[i] <= k /\ k < cuts[i + 1]
    BY <2>3, SegmentEdges
  <2> QED BY <1>1, <2>2, <2>4
<1>4. m \in drawing <=> cuts[m] <= k \/ k < cuts[1]
  <2>1. (m % m) + 1 = 1 /\ m \in 1 .. m /\ 1 \in 1 .. m
    OBVIOUS
  <2>2. cuts[m] \in DOMAIN path /\ cuts[1] \in DOMAIN path /\ ~(cuts[m] <= cuts[1])
    BY <1>2, <2>1
  <2>3. Edge(path, k) \in Edges(segmentBetween(path, cuts[m], cuts[1])) <=> cuts[m] <= k \/ k < cuts[1]
    BY <2>2, SegmentEdges
  <2> QED BY <1>1, <2>1, <2>3
<1>5. \A i, j \in drawing : i = j
  <2>6. \A i, j \in drawing : i \in Int /\ j \in Int /\ (i = j \/ i < j \/ j < i)
    BY <1>1
  <2>1. SUFFICES ASSUME NEW i \in drawing, NEW j \in drawing, i < j PROVE FALSE
    BY <2>6
  <2>2. i \in 1 .. m - 1 /\ j \in 1 .. m /\ i + 1 \in 1 .. m /\ i + 1 <= j
    BY <1>1, <2>1
  <2>3. cuts[i] <= k /\ k < cuts[i + 1] /\ cuts[i + 1] <= cuts[j] /\ cuts[1] <= cuts[i]
    BY <1>3, <2>1, <2>2
  <2>4. CASE j = m
    BY <1>2, <1>4, <2>1, <2>2, <2>3, <2>4
  <2>5. CASE j # m
    <3>1. cuts[j] <= k
      BY <1>3, <2>1, <2>2, <2>5
    <3> QED BY <1>2, <2>2, <2>3, <3>1
  <2> QED BY <2>4, <2>5
<1>6. drawing # {}
  <2>1. CASE cuts[m] <= k \/ k < cuts[1]
    BY <1>4, <2>1
  <2>2. CASE cuts[1] <= k /\ k < cuts[m]
    <3>1. PICK beyond : beyond = {i \in 1 .. m : k < cuts[i]}
      OBVIOUS
    <3>2. beyond \in SUBSET Nat /\ beyond # {}
      BY <2>2, <3>1
    <3>3. PICK i \in beyond : \A j \in beyond : i <= j
      BY <3>2, LeastOf
    <3>4. i \in 2 .. m
      BY <1>2, <2>2, <3>1, <3>3
    <3>5. i - 1 \notin beyond
      BY <3>1, <3>3
    <3>6. PICK h \in 1 .. m - 1 : h = i - 1
      BY <3>4
    <3>7. cuts[h] <= k /\ k < cuts[h + 1]
      BY <1>2, <3>1, <3>3, <3>5, <3>6
    <3> QED BY <1>3, <3>7
  <2> QED BY <1>2, <2>1, <2>2
<1> QED BY <1>1, <1>5, <1>6

-----------------------------------------------------------------------------
(* The whole map: what the lists, the lap, its sectors and the page are, for*)
(* every track.                                                             *)

(* There are n naturals from 1, and as many from 0. *)
LEMMA FirstNaturals ==
  ASSUME NEW n \in Nat
  PROVE  /\ IsFiniteSet(1 .. n) /\ Cardinality(1 .. n) = n
         /\ IsFiniteSet(0 .. n - 1) /\ Cardinality(0 .. n - 1) = n
<1>1. IsFiniteSet(1 .. n) /\ Cardinality(1 .. n) = n
  BY FS_Interval
<1>2. IsFiniteSet(0 .. n - 1) /\ Cardinality(0 .. n - 1) = n
  <2>1. PICK b \in Int : b = n - 1
    OBVIOUS
  <2>2. IsFiniteSet(0 .. b) /\ Cardinality(0 .. b) = n
    BY <2>1, FS_Interval
  <2> QED BY <2>1, <2>2
<1> QED BY <1>1, <1>2

(* If each member of a finite set has its own set of members before it,    *)
(* the n-th, which has n - 1 before it, comes after those listed earlier.  *)
LEMMA Ranking ==
  ASSUME NEW S, IsFiniteSet(S), NEW before \in [S -> SUBSET S],
         \A i \in S : i \notin before[i],
         \A i, j \in S : i \in before[j] => before[i] \subseteq before[j],
         \A i, j \in S : i # j => i \in before[j] \/ j \in before[i],
         NEW f,
         \A n \in 1 .. Cardinality(S) :
           (\E i \in S : Cardinality(before[i]) = n - 1)
             => f[n] \in S /\ Cardinality(before[f[n]]) = n - 1
  PROVE  /\ Cardinality(S) \in Nat
         /\ \A n \in 1 .. Cardinality(S) : f[n] \in S
         /\ \A i \in S : \E n \in 1 .. Cardinality(S) : f[n] = i
         /\ \A m, n \in 1 .. Cardinality(S) : m < n <=> f[m] \in before[f[n]]
<1>1. PICK size \in Nat : size = Cardinality(S)
  BY FS_CardinalityType
<1>2. PICK rank : rank = [i \in S |-> Cardinality(before[i])]
  OBVIOUS
<1>3. \A i \in S : before[i] \in SUBSET S /\ IsFiniteSet(before[i])
  BY FS_Subset
<1>4. \A i \in S : rank[i] \in 0 .. size - 1
  <2>1. SUFFICES ASSUME NEW i \in S PROVE rank[i] \in 0 .. size - 1
    OBVIOUS
  <2>2. Cardinality(before[i]) <= size /\ Cardinality(before[i]) # size
    BY <1>1, <1>3, FS_Subset
  <2>3. Cardinality(before[i]) \in Nat
    BY <1>3, FS_CardinalityType
  <2> QED BY <1>1, <1>2, <2>2, <2>3
<1>5. \A i, j \in S : i \in before[j] => rank[i] < rank[j]
  <2>1. SUFFICES ASSUME NEW i \in S, NEW j \in S, i \in before[j] PROVE rank[i] < rank[j]
    OBVIOUS
  <2>2. before[i] \in SUBSET before[j] /\ before[i] # before[j]
    BY <2>1
  <2>3. Cardinality(before[i]) <= Cardinality(before[j])
        /\ Cardinality(before[i]) # Cardinality(before[j])
    BY <1>3, <2>2, FS_Subset
  <2>4. Cardinality(before[i]) \in Nat /\ Cardinality(before[j]) \in Nat
    BY <1>3, FS_CardinalityType
  <2> QED BY <1>2, <2>3, <2>4
<1>6. \A i, j \in S : rank[i] = rank[j] => i = j
  <2>1. SUFFICES ASSUME NEW i \in S, NEW j \in S, rank[i] = rank[j], i # j PROVE FALSE
    OBVIOUS
  <2>2. rank[i] < rank[j] \/ rank[j] < rank[i]
    BY <1>5, <2>1
  <2>3. rank[i] \in Int
    BY <1>4
  <2> QED BY <2>1, <2>2, <2>3
<1>7. \A n \in 1 .. size : \E i \in S : rank[i] = n - 1
  <2>1. PICK T : T = 0 .. size - 1
    OBVIOUS
  <2>2. IsFiniteSet(T) /\ Cardinality(T) = size
    BY <1>1, <2>1, FirstNaturals
  <2>3. rank \in Injection(S, T)
    <3>1. rank \in [S -> T]
      BY <1>2, <1>4, <2>1
    <3> QED BY <1>6, <3>1 DEF Injection, IsInjective
  <2>4. rank \in Surjection(S, T)
    BY <1>1, <2>2, <2>3, FS_Injection
  <2>5. \A t \in T : \E i \in S : rank[i] = t
    BY <2>4, Zenon DEF Surjection
  <2>6. \A n \in 1 .. size : n - 1 \in T
    BY <1>1, <2>1
  <2> QED BY <2>5, <2>6
<1>8. \A n \in 1 .. size : f[n] \in S /\ rank[f[n]] = n - 1
  <2>1. SUFFICES ASSUME NEW n \in 1 .. size PROVE f[n] \in S /\ rank[f[n]] = n - 1
    OBVIOUS
  <2>2. \E i \in S : Cardinality(before[i]) = n - 1
    BY <1>2, <1>7, <2>1
  <2>3. f[n] \in S /\ Cardinality(before[f[n]]) = n - 1
    BY <1>1, <2>1, <2>2
  <2> QED BY <1>2, <2>3
<1>9. \A i \in S : \E n \in 1 .. size : f[n] = i
  <2>1. SUFFICES ASSUME NEW i \in S PROVE \E n \in 1 .. size : f[n] = i
    OBVIOUS
  <2>2. PICK n \in 1 .. size : n - 1 = rank[i]
    <3>1. rank[i] \in 0 .. size - 1
      BY <1>4
    <3>2. rank[i] + 1 \in 1 .. size /\ (rank[i] + 1) - 1 = rank[i]
      BY <3>1
    <3> QED BY <3>2
  <2>3. f[n] \in S /\ rank[f[n]] = rank[i]
    BY <1>8, <2>2
  <2> QED BY <1>6, <2>3
<1>10. \A m, n \in 1 .. size : m < n <=> f[m] \in before[f[n]]
  <2>1. SUFFICES ASSUME NEW m \in 1 .. size, NEW n \in 1 .. size
                 PROVE  m < n <=> f[m] \in before[f[n]]
    OBVIOUS
  <2>2. PICK a \in S : a = f[m] /\ rank[a] = m - 1
    BY <1>8
  <2>3. PICK b \in S : b = f[n] /\ rank[b] = n - 1
    BY <1>8
  <2>4. a \in before[b] => m - 1 < n - 1
    BY <1>5, <2>2, <2>3
  <2>5. b \in before[a] => n - 1 < m - 1
    BY <1>5, <2>2, <2>3
  <2>6. a # b => a \in before[b] \/ b \in before[a]
    OBVIOUS
  <2>7. m < n => a # b
    BY <2>2, <2>3
  <2>8. m < n <=> a \in before[b]
    BY <2>4, <2>5, <2>6, <2>7
  <2> QED BY <2>2, <2>3, <2>8
<1> QED BY <1>1, <1>8, <1>9, <1>10

(* A set of naturals is listed in their order. *)
LEMMA ListedUp ==
  ASSUME NEW S \in SUBSET Nat, IsFiniteSet(S)
  PROVE  LET f == Listed(S, <)
         IN  /\ Cardinality(S) \in Nat
             /\ f \in [1 .. Cardinality(S) -> S]
             /\ \A i \in S : \E n \in 1 .. Cardinality(S) : f[n] = i
             /\ \A m, n \in 1 .. Cardinality(S) : m < n <=> f[m] < f[n]
<1>1. PICK before : before = [i \in S |-> {j \in S : j < i}]
  OBVIOUS
<1>2. PICK f : f = [n \in 1 .. Cardinality(S) |->
                      CHOOSE i \in S : Cardinality({j \in S : j < i}) = n - 1]
  OBVIOUS
<1>3. /\ before \in [S -> SUBSET S]
      /\ \A i, j \in S : i \in before[j] <=> i < j
  BY <1>1
<1>4. /\ \A i \in S : i \notin before[i]
      /\ \A i, j \in S : i \in before[j] => before[i] \subseteq before[j]
      /\ \A i, j \in S : i # j => i \in before[j] \/ j \in before[i]
  <2>1. \A i, j \in S : i \in Nat /\ j \in Nat /\ ~(i < i) /\ (i # j => i < j \/ j < i)
    OBVIOUS
  <2>2. \A i, j, k \in S : k < i /\ i < j => k < j
    OBVIOUS
  <2>3. \A i, j \in S : i \in before[j] => before[i] \subseteq before[j]
    BY <1>3, <2>2
  <2> QED BY <1>3, <2>1, <2>3, Zenon
<1>5. \A n \in 1 .. Cardinality(S) :
        (\E i \in S : Cardinality(before[i]) = n - 1)
          => f[n] \in S /\ Cardinality(before[f[n]]) = n - 1
  <2> SUFFICES ASSUME NEW n \in 1 .. Cardinality(S), NEW i \in S, Cardinality(before[i]) = n - 1
               PROVE  f[n] \in S /\ Cardinality(before[f[n]]) = n - 1
    OBVIOUS
  <2>1. Cardinality({j \in S : j < i}) = n - 1
    BY <1>1
  <2>2. f[n] \in S /\ Cardinality({j \in S : j < f[n]}) = n - 1
    BY <1>2, <2>1
  <2> QED BY <1>1, <2>2
<1>6. /\ Cardinality(S) \in Nat
      /\ \A n \in 1 .. Cardinality(S) : f[n] \in S
      /\ \A i \in S : \E n \in 1 .. Cardinality(S) : f[n] = i
      /\ \A m, n \in 1 .. Cardinality(S) : m < n <=> f[m] \in before[f[n]]
  BY <1>3, <1>4, <1>5, Ranking, Zenon
<1>7. f \in [1 .. Cardinality(S) -> S]
  BY <1>2, <1>6
<1>8. \A m, n \in 1 .. Cardinality(S) : m < n <=> f[m] < f[n]
  BY <1>3, <1>6
<1>9. f = Listed(S, <)
  BY <1>2 DEF Listed
<1> QED BY <1>6, <1>7, <1>8, <1>9, Zenon

(* The elements at some places of a sequence.                              *)
IsSelection(at, selected, seq, places) ==
  /\ Len(selected) \in Nat /\ DOMAIN selected = 1 .. Len(selected)
  /\ at \in [1 .. Len(selected) -> places]
  /\ \A n \in 1 .. Len(selected) : selected[n] = seq[at[n]]
  /\ \A i \in places : \E n \in 1 .. Len(selected) : at[n] = i
  /\ \A m, n \in 1 .. Len(selected) : at[m] = at[n] => m = n

LEMMA FilteredIs ==
  ASSUME NEW P, NEW seq \in Seq(P), NEW places \in SUBSET DOMAIN seq
  PROVE  /\ Filtered(seq, places) \in Seq(P)
         /\ \E at : IsSelection(at, Filtered(seq, places), seq, places)
<1>1. places \in SUBSET Nat /\ IsFiniteSet(places)
  <2>1. places \in SUBSET (1 .. Len(seq)) /\ Len(seq) \in Nat
    OBVIOUS
  <2>2. IsFiniteSet(1 .. Len(seq))
    BY <2>1, FS_Interval
  <2> QED BY <2>1, <2>2, FS_Subset
<1>2. PICK at : at = Listed(places, <)
  OBVIOUS
<1>3. PICK size : size = Cardinality(places)
  OBVIOUS
<1>4. /\ size \in Nat
      /\ at \in [1 .. size -> places]
      /\ \A i \in places : \E n \in 1 .. size : at[n] = i
      /\ \A m, n \in 1 .. size : m < n <=> at[m] < at[n]
  BY <1>1, <1>2, <1>3, ListedUp, Zenon
<1>5. PICK filtered : filtered = Filtered(seq, places)
  OBVIOUS
<1>6. filtered = [n \in 1 .. size |-> seq[at[n]]]
  BY <1>2, <1>3, <1>5, Zenon DEF Filtered
<1>7. \A n \in 1 .. size : seq[at[n]] \in P
  BY <1>4
<1>8. filtered \in Seq(P) /\ Len(filtered) = size /\ \A n \in 1 .. size : filtered[n] = seq[at[n]]
  BY <1>4, <1>6, <1>7
<1>9. \A m, n \in 1 .. size : at[m] = at[n] => m = n
  <2>1. \A i \in places : i \in Nat
    BY <1>1
  <2>2. \A x \in Nat : ~(x < x)
    OBVIOUS
  <2>3. \A n \in 1 .. size : at[n] \in places
    BY <1>4
  <2>4. ASSUME NEW a \in 1 .. size, NEW b \in 1 .. size, at[a] = at[b] PROVE ~(a < b)
    BY <1>4, <2>1, <2>2, <2>3, <2>4
  <2>5. \A a, b \in 1 .. size : a = b \/ a < b \/ b < a
    BY <1>4
  <2> QED BY <2>4, <2>5
<1>10. DOMAIN filtered = 1 .. size
  BY <1>8
<1>11. IsSelection(at, filtered, seq, places)
  BY <1>4, <1>8, <1>9, <1>10, Zenon DEF IsSelection
<1> QED BY <1>5, <1>8, <1>11, Zenon

(* All places of a sequence are listed as they are. *)
LEMMA FilteredAll ==
  ASSUME NEW P, NEW seq \in Seq(P)
  PROVE  Filtered(seq, DOMAIN seq) = seq
<1>1. PICK size \in Nat : size = Len(seq) /\ DOMAIN seq = 1 .. size
  OBVIOUS
<1>2. IsFiniteSet(1 .. size) /\ Cardinality(1 .. size) = size
  BY <1>1, FirstNaturals
<1>3. PICK at : at = [n \in 1 .. size |-> CHOOSE i \in 1 .. size : Cardinality({j \in 1 .. size : j < i}) = n - 1]
  OBVIOUS
<1>4. \A i \in 1 .. size : Cardinality({j \in 1 .. size : j < i}) = i - 1
  <2>1. SUFFICES ASSUME NEW i \in 1 .. size PROVE Cardinality({j \in 1 .. size : j < i}) = i - 1
    OBVIOUS
  <2>2. {j \in 1 .. size : j < i} = 1 .. i - 1
    BY <1>1
  <2>3. Cardinality(1 .. i - 1) = i - 1
    <3>1. PICK b \in Int : b = i - 1 /\ b >= 0
      OBVIOUS
    <3> QED BY <3>1, FS_Interval
  <2> QED BY <2>2, <2>3
<1>5. \A n \in 1 .. size : at[n] = n
  <2>1. SUFFICES ASSUME NEW n \in 1 .. size PROVE at[n] = n
    OBVIOUS
  <2>2. at[n] = CHOOSE i \in 1 .. size : Cardinality({j \in 1 .. size : j < i}) = n - 1
    BY <1>3
  <2>3. at[n] \in 1 .. size /\ Cardinality({j \in 1 .. size : j < at[n]}) = n - 1
    BY <1>4, <2>2
  <2>4. at[n] - 1 = n - 1
    BY <1>4, <2>3
  <2> QED BY <1>1, <2>3, <2>4
<1>6. at = Listed(1 .. size, <)
  BY <1>2, <1>3 DEF Listed
<1>7. Filtered(seq, 1 .. size) = [n \in 1 .. size |-> seq[at[n]]]
  BY <1>2, <1>6, Zenon DEF Filtered
<1>8. [n \in 1 .. size |-> seq[at[n]]] = seq
  BY <1>1, <1>5
<1> QED BY <1>1, <1>7, <1>8, Zenon

(* The coordinates that are made of numbers. *)
Points == Int \X Int

(* A coordinate has two numbers or none. *)
LEMMA Coords ==
  ASSUME NEW c \in Coord
  PROVE  isCoord(c) <=> c \in Points
<1>1. CASE c = <<>>
  BY <1>1 DEF isCoord, Points
<1>2. CASE c \in Points
  <2>1. c = <<c[1], c[2]>>
    BY <1>2 DEF Points
  <2>2. Len(<<c[1], c[2]>>) = 2
    OBVIOUS
  <2> QED BY <1>2, <2>1, <2>2 DEF isCoord
<1> QED BY <1>1, <1>2 DEF Coord, Points

(* What is left of a path are its points. *)
LEMMA NormalizedIs ==
  ASSUME NEW coords \in Seq(Coord)
  PROVE  /\ normalizeCoords(coords) \in Seq(Points)
         /\ \A n \in DOMAIN normalizeCoords(coords) :
              \E i \in DOMAIN coords : /\ isCoord(coords[i])
                                       /\ normalizeCoords(coords)[n] = coords[i]
<1>1. PICK places : places = {i \in DOMAIN coords : isCoord(coords[i])}
  OBVIOUS
<1>2. PICK left : left = normalizeCoords(coords)
  OBVIOUS
<1>3. left = Filtered(coords, places) /\ places \in SUBSET DOMAIN coords
  BY <1>1, <1>2 DEF normalizeCoords
<1>4. left \in Seq(Coord) /\ \E w : IsSelection(w, left, coords, places)
  BY <1>3, FilteredIs
<1>5. PICK at : IsSelection(at, left, coords, places)
  BY <1>4
<1>6. PICK size \in Nat : /\ size = Len(left) /\ at \in [1 .. size -> places]
                          /\ \A n \in 1 .. size : left[n] = coords[at[n]]
  BY <1>5, Zenon DEF IsSelection
<1>7. \A n \in 1 .. size : /\ at[n] \in DOMAIN coords /\ isCoord(coords[at[n]])
                          /\ left[n] = coords[at[n]] /\ coords[at[n]] \in Coord
  BY <1>1, <1>6
<1>8. \A n \in 1 .. size : left[n] \in Points
  BY <1>7, Coords
<1>9. DOMAIN left = 1 .. size /\ left \in Seq(Points)
  BY <1>4, <1>6, <1>8
<1> QED BY <1>2, <1>7, <1>9

(* A path of points is left as it is. *)
LEMMA NormalizedAll ==
  ASSUME NEW path \in Seq(Points)
  PROVE  normalizeCoords(path) = path
<1>1. {i \in DOMAIN path : isCoord(path[i])} = DOMAIN path
  <2>1. \A i \in DOMAIN path : path[i] \in Points
    OBVIOUS
  <2>2. Points \subseteq Coord
    BY DEF Points, Coord
  <2> QED BY <2>1, <2>2, Coords
<1> QED BY <1>1, FilteredAll DEF normalizeCoords

(* What is at a place of a sequence. *)
LEMMA ElementOf ==
  ASSUME NEW P, NEW seq \in Seq(P), NEW i \in DOMAIN seq
  PROVE  seq[i] \in P
OBVIOUS

(* Values at the first naturals are a sequence. *)
LEMMA ListOf ==
  ASSUME NEW P, NEW n \in Nat, NEW f \in [1 .. n -> P]
  PROVE  f \in Seq(P)
OBVIOUS

(* Some member of a finite set has the least of their values.              *)
LEMMA LeastImage ==
  ASSUME NEW T, IsFiniteSet(T), T # {}, NEW f \in [T -> Int]
  PROVE  \E x \in T : \A y \in T : f[x] <= f[y]
<1>1. PICK R : R = {w \in T \X T : f[w[1]] <= f[w[2]]}
  OBVIOUS
<1>2. \A x, y \in T : <<x, y>> \in R <=> f[x] <= f[y]
  BY <1>1
<1>3. \A x, y \in T : <<x, y>> \in R \/ <<y, x>> \in R
  <2> SUFFICES ASSUME NEW x \in T, NEW y \in T PROVE f[x] <= f[y] \/ f[y] <= f[x]
    BY <1>2
  <2> QED OBVIOUS
<1>4. \A x, y, z \in T : <<x, y>> \in R /\ <<y, z>> \in R => <<x, z>> \in R
  <2> SUFFICES ASSUME NEW x \in T, NEW y \in T, NEW z \in T
               PROVE  f[x] <= f[y] /\ f[y] <= f[z] => f[x] <= f[z]
    BY <1>2
  <2> QED OBVIOUS
<1>5. \E x \in T : \A y \in T : <<x, y>> \in R
  BY <1>3, <1>4, FirstOf
<1> QED BY <1>2, <1>5

(* And there is a first one that has it. *)
LEMMA FirstLeast ==
  ASSUME NEW T \in SUBSET Nat, IsFiniteSet(T), T # {}, NEW f \in [T -> Int]
  PROVE  \E i \in T : \A j \in T : f[i] <= f[j] /\ (j < i => f[i] < f[j])
<1>1. PICK least : least = {i \in T : \A j \in T : f[i] <= f[j]}
  OBVIOUS
<1>2. least \in SUBSET Nat /\ least # {}
  BY <1>1, LeastImage
<1>3. PICK i \in least : \A j \in least : i <= j
  BY <1>2, LeastOf
<1>4. ASSUME NEW j \in T, j < i PROVE f[i] < f[j]
  <2>1. j \notin least
    BY <1>2, <1>3, <1>4
  <2>2. PICK k \in T : ~(f[j] <= f[k])
    BY <1>1, <2>1
  <2>3. f[i] <= f[k] /\ f[i] \in Int /\ f[j] \in Int /\ f[k] \in Int
    BY <1>1, <1>3
  <2> QED BY <2>2, <2>3
<1> QED BY <1>1, <1>3, <1>4

(* A path that has points has one nearest to any target. *)
LEMMA NearestIs ==
  ASSUME NEW path \in Seq(Points), Len(path) > 0, NEW target \in Points
  PROVE  nearestPointIndex(path, target) \in DOMAIN path
<1>1. PICK T : T = DOMAIN path
  OBVIOUS
<1>2. T \in SUBSET Nat /\ IsFiniteSet(T) /\ T # {}
  <2>1. PICK n \in Nat : n = Len(path) /\ T = 1 .. n /\ n > 0
    BY <1>1
  <2>2. IsFiniteSet(T)
    BY <2>1, FirstNaturals
  <2>3. 1 \in T /\ T \in SUBSET Nat
    BY <2>1
  <2> QED BY <2>2, <2>3
<1>3. \A i \in T : Distance(path[i], target) \in Int
  <2>1. \A i \in T : path[i][1] \in Int /\ path[i][2] \in Int
    BY <1>1 DEF Points
  <2>2. target[1] \in Int /\ target[2] \in Int
    BY DEF Points
  <2>3. \A a, b, c, d \in Int : (a - b) * (a - b) + (c - d) * (c - d) \in Int
    OBVIOUS
  <2> QED BY <2>1, <2>2, <2>3 DEF Distance
<1>4. PICK dist \in [T -> Int] : \A i \in T : dist[i] = Distance(path[i], target)
  <2>1. [i \in T |-> Distance(path[i], target)] \in [T -> Int]
    BY <1>3
  <2> QED BY <2>1
<1>5. \E i \in T : \A j \in T : dist[i] <= dist[j] /\ (j < i => dist[i] < dist[j])
  BY <1>2, FirstLeast
<1>6. \E i \in DOMAIN path : \A j \in DOMAIN path :
        /\ Distance(path[i], target) <= Distance(path[j], target)
        /\ j < i => Distance(path[i], target) < Distance(path[j], target)
  BY <1>1, <1>4, <1>5
<1>7. ~(Len(path) = 0)
  OBVIOUS
<1> QED BY <1>6, <1>7 DEF nearestPointIndex

(* The lap is made of points of one of the paths. *)
LEMMA MainIs ==
  ASSUME NEW paths \in Seq([main : BOOLEAN, points : Seq(Coord)])
  PROVE  LET lap == pickMainTrackCoords(paths)
         IN  /\ lap \in Seq(Points)
             /\ \A n \in DOMAIN lap : \E i \in DOMAIN paths : \E j \in DOMAIN paths[i].points :
                  isCoord(paths[i].points[j]) /\ lap[n] = paths[i].points[j]
<1>1. PICK trackOnly : trackOnly = {i \in DOMAIN paths : paths[i].main}
  OBVIOUS
<1>2. PICK source : source = IF trackOnly # {} THEN trackOnly ELSE DOMAIN paths
  OBVIOUS
<1>3. PICK lap : lap = pickMainTrackCoords(paths)
  OBVIOUS
<1>4. \A i \in DOMAIN paths : paths[i].points \in Seq(Coord)
  <2>1. \A i \in DOMAIN paths : paths[i] \in [main : BOOLEAN, points : Seq(Coord)]
    BY ElementOf, Zenon
  <2>2. \A path \in [main : BOOLEAN, points : Seq(Coord)] : path.points \in Seq(Coord)
    OBVIOUS
  <2> QED BY <2>1, <2>2, Zenon
<1>5. source \in SUBSET DOMAIN paths /\ source \in SUBSET Nat /\ IsFiniteSet(source)
  <2>1. PICK n \in Nat : DOMAIN paths = 1 .. n
    OBVIOUS
  <2>2. source \in SUBSET (1 .. n)
    BY <1>1, <1>2, <2>1
  <2>3. IsFiniteSet(1 .. n)
    BY FirstNaturals
  <2>4. IsFiniteSet(source)
    BY <2>2, <2>3, FS_Subset
  <2>5. source \in SUBSET Nat
    BY <2>2
  <2> QED BY <2>1, <2>2, <2>4, <2>5, Zenon
<1>6. CASE source = {}
  <2>1. lap = <<>>
    BY <1>1, <1>2, <1>3, <1>6 DEF pickMainTrackCoords
  <2> QED BY <1>3, <2>1
<1>7. CASE source # {}
  <2>1. PICK size \in [source -> Int] : \A i \in source : size[i] = -Len(normalizeCoords(paths[i].points))
    <3>1. \A i \in source : -Len(normalizeCoords(paths[i].points)) \in Int
      BY <1>4, <1>5, NormalizedIs
    <3>2. [i \in source |-> -Len(normalizeCoords(paths[i].points))] \in [source -> Int]
      BY <3>1
    <3> QED BY <3>2
  <2>2. PICK i \in source : \A j \in source : size[i] <= size[j] /\ (j < i => size[i] < size[j])
    BY <1>5, <1>7, FirstLeast
  <2>3. \A j \in source :
          /\ Len(normalizeCoords(paths[j].points)) <= Len(normalizeCoords(paths[i].points))
          /\ j < i => Len(normalizeCoords(paths[j].points)) < Len(normalizeCoords(paths[i].points))
    <3>1. \A j \in source : Len(normalizeCoords(paths[j].points)) \in Int
      BY <1>4, <1>5, NormalizedIs
    <3> QED BY <2>1, <2>2, <3>1
  <2>4. PICK best : best = CHOOSE k \in source : \A j \in source :
          /\ Len(normalizeCoords(paths[j].points)) <= Len(normalizeCoords(paths[k].points))
          /\ j < k => Len(normalizeCoords(paths[j].points)) < Len(normalizeCoords(paths[k].points))
    OBVIOUS
  <2>5. best \in source
    BY <2>3, <2>4
  <2>6. lap = normalizeCoords(paths[best].points)
    BY <1>1, <1>2, <1>3, <1>7, <2>4 DEF pickMainTrackCoords
  <2>7. best \in DOMAIN paths /\ paths[best].points \in Seq(Coord)
    BY <1>4, <1>5, <2>5
  <2>8. /\ lap \in Seq(Points)
        /\ \A n \in DOMAIN lap : \E j \in DOMAIN paths[best].points :
             isCoord(paths[best].points[j]) /\ lap[n] = paths[best].points[j]
    BY <2>6, <2>7, NormalizedIs
  <2> QED BY <1>3, <2>7, <2>8
<1> QED BY <1>6, <1>7

(* Finitely many places hold finitely many values. *)
LEMMA FiniteImage ==
  ASSUME NEW n \in Nat, NEW f
  PROVE  IsFiniteSet({f[i] : i \in 1 .. n})
<1>1. PICK T : T = {f[i] : i \in 1 .. n}
  OBVIOUS
<1>2. PICK g : g = [i \in 1 .. n |-> f[i]]
  OBVIOUS
<1>3. g \in [1 .. n -> T] /\ \A y \in T : \E i \in 1 .. n : g[i] = y
  BY <1>1, <1>2
<1>4. ExistsSurjection(1 .. n, T)
  BY <1>3 DEF ExistsSurjection, Surjection
<1> QED BY <1>1, <1>4, FS_NatSurjection

(* So do the places of a sequence. *)
LEMMA FiniteRange ==
  ASSUME NEW P, NEW seq \in Seq(P)
  PROVE  IsFiniteSet(Range(seq)) /\ Range(seq) \subseteq P /\ \A i \in DOMAIN seq : seq[i] \in Range(seq)
<1>1. PICK n \in Nat : DOMAIN seq = 1 .. n
  OBVIOUS
<1>2. IsFiniteSet(Range(seq))
  BY <1>1, FiniteImage DEF Range
<1> QED BY <1>2 DEF Range

(* The points the bounds are computed from: all that is drawn is among     *)
(* them.                                                                   *)
LEMMA PointsOfTrack ==
  ASSUME NEW track \in TrackPayload
  PROVE  /\ IsFiniteSet(PointsOf(track)) /\ PointsOf(track) \subseteq Points
         /\ \A i \in DOMAIN track.paths : \A j \in DOMAIN track.paths[i].points :
              isCoord(track.paths[i].points[j]) => track.paths[i].points[j] \in PointsOf(track)
         /\ \A line \in Range(track.lines) :
              /\ line.start \in Coord /\ (isCoord(line.start) => line.start \in PointsOf(track))
              /\ line.end \in Coord /\ (isCoord(line.end) => line.end \in PointsOf(track))
         /\ \A sector \in Range(track.sectors) :
              sector.at \in Coord /\ (isCoord(sector.at) => sector.at \in PointsOf(track))
<1>1. PICK paths \in Seq([main : BOOLEAN, points : Seq(Coord)]) : paths = track.paths
  BY DEF TrackPayload
<1>2. PICK lines \in Seq([start : Coord, end : Coord]) : lines = track.lines
  BY DEF TrackPayload
<1>3. PICK sectors \in Seq([id : Nat, at : Coord]) : sectors = track.sectors
  BY DEF TrackPayload
<1>4. PICK ofPaths : ofPaths = {Range(paths[i].points) : i \in DOMAIN paths}
  OBVIOUS
<1>5. PICK ofLines : ofLines = {{line.start, line.end} : line \in Range(lines)}
  OBVIOUS
<1>6. PICK ofSectors : ofSectors = {{sector.at} : sector \in Range(sectors)}
  OBVIOUS
<1>7. PICK points : points = PointsOf(track)
  OBVIOUS
<1>8. points = {p \in UNION (ofPaths \cup ofLines \cup ofSectors) : isCoord(p)}
  BY <1>1, <1>2, <1>3, <1>4, <1>5, <1>6, <1>7, Zenon DEF PointsOf
<1>9. \A i \in DOMAIN paths : paths[i].points \in Seq(Coord)
  <2>1. \A i \in DOMAIN paths : paths[i] \in [main : BOOLEAN, points : Seq(Coord)]
    BY ElementOf, Zenon
  <2>2. \A path \in [main : BOOLEAN, points : Seq(Coord)] : path.points \in Seq(Coord)
    OBVIOUS
  <2> QED BY <2>1, <2>2, Zenon
<1>10. \A line \in Range(lines) : line.start \in Coord /\ line.end \in Coord
  <2>1. Range(lines) \subseteq [start : Coord, end : Coord]
    BY FiniteRange, Zenon
  <2>2. \A line \in [start : Coord, end : Coord] : line.start \in Coord /\ line.end \in Coord
    OBVIOUS
  <2> QED BY <2>1, <2>2, Zenon
<1>11. \A sector \in Range(sectors) : sector.at \in Coord
  <2>1. Range(sectors) \subseteq [id : Nat, at : Coord]
    BY FiniteRange, Zenon
  <2>2. \A sector \in [id : Nat, at : Coord] : sector.at \in Coord
    OBVIOUS
  <2> QED BY <2>1, <2>2, Zenon
<1>12. /\ \A T \in ofPaths : IsFiniteSet(T) /\ T \subseteq Coord
       /\ \A T \in ofLines : IsFiniteSet(T) /\ T \subseteq Coord
       /\ \A T \in ofSectors : IsFiniteSet(T) /\ T \subseteq Coord
  <2>1. \A T \in ofPaths : IsFiniteSet(T) /\ T \subseteq Coord
    <3>1. SUFFICES ASSUME NEW T \in ofPaths PROVE IsFiniteSet(T) /\ T \subseteq Coord
      OBVIOUS
    <3>2. PICK i \in DOMAIN paths : T = Range(paths[i].points)
      BY <1>4
    <3>3. PICK seq \in Seq(Coord) : seq = paths[i].points
      BY <1>9
    <3> QED BY <3>2, <3>3, FiniteRange
  <2>2. ASSUME NEW x, NEW y PROVE IsFiniteSet({x, y}) /\ IsFiniteSet({x})
    <3>1. IsFiniteSet({x}) /\ IsFiniteSet({y})
      BY FS_Singleton, Zenon
    <3>2. {x, y} = {x} \cup {y}
      OBVIOUS
    <3> QED BY <3>1, <3>2, FS_Union
  <2>3. \A T \in ofLines : IsFiniteSet(T) /\ T \subseteq Coord
    BY <1>5, <1>10, <2>2
  <2>4. \A T \in ofSectors : IsFiniteSet(T) /\ T \subseteq Coord
    BY <1>6, <1>11, <2>2
  <2> QED BY <2>1, <2>3, <2>4
<1>13. IsFiniteSet(ofPaths) /\ IsFiniteSet(ofLines) /\ IsFiniteSet(ofSectors)
  <2>1. IsFiniteSet(ofPaths)
    <3>1. PICK n \in Nat : DOMAIN paths = 1 .. n
      OBVIOUS
    <3>2. PICK f : f = [i \in 1 .. n |-> Range(paths[i].points)]
      OBVIOUS
    <3>3. ofPaths = {f[i] : i \in 1 .. n}
      BY <1>4, <3>1, <3>2
    <3> QED BY <3>3, FiniteImage
  <2>2. IsFiniteSet(ofLines)
    <3>1. PICK n \in Nat : DOMAIN lines = 1 .. n
      OBVIOUS
    <3>2. PICK f : f = [i \in 1 .. n |-> {lines[i].start, lines[i].end}]
      OBVIOUS
    <3>3. ofLines = {f[i] : i \in 1 .. n}
      BY <1>5, <3>1, <3>2 DEF Range
    <3> QED BY <3>3, FiniteImage
  <2>3. IsFiniteSet(ofSectors)
    <3>1. PICK n \in Nat : DOMAIN sectors = 1 .. n
      OBVIOUS
    <3>2. PICK f : f = [i \in 1 .. n |-> {sectors[i].at}]
      OBVIOUS
    <3>3. ofSectors = {f[i] : i \in 1 .. n}
      BY <1>6, <3>1, <3>2 DEF Range
    <3> QED BY <3>3, FiniteImage
  <2> QED BY <2>1, <2>2, <2>3
<1>14. IsFiniteSet(points)
  <2>1. PICK all : all = ofPaths \cup ofLines \cup ofSectors
    OBVIOUS
  <2>2. IsFiniteSet(all) /\ \A T \in all : IsFiniteSet(T)
    BY <1>12, <1>13, <2>1, FS_Union
  <2>3. IsFiniteSet(UNION all)
    BY <2>2, FS_UNION
  <2>4. points \in SUBSET UNION all
    BY <1>8, <2>1
  <2> QED BY <2>3, <2>4, FS_Subset
<1>15. points \subseteq Points
  <2>1. \A p \in points : p \in Coord /\ isCoord(p)
    BY <1>8, <1>12
  <2> QED BY <2>1, Coords
<1>16. \A i \in DOMAIN paths : \A j \in DOMAIN paths[i].points :
         isCoord(paths[i].points[j]) => paths[i].points[j] \in points
  <2>1. SUFFICES ASSUME NEW i \in DOMAIN paths, NEW j \in DOMAIN paths[i].points,
                        isCoord(paths[i].points[j])
                 PROVE  paths[i].points[j] \in points
    OBVIOUS
  <2>2. paths[i].points[j] \in Range(paths[i].points) /\ Range(paths[i].points) \in ofPaths
    BY <1>4, <1>9, <2>1, FiniteRange
  <2> QED BY <1>8, <2>1, <2>2
<1>17. \A line \in Range(lines) :
         /\ isCoord(line.start) => line.start \in points
         /\ isCoord(line.end) => line.end \in points
  <2>1. SUFFICES ASSUME NEW line \in Range(lines)
                 PROVE  /\ isCoord(line.start) => line.start \in points
                        /\ isCoord(line.end) => line.end \in points
    OBVIOUS
  <2>2. {line.start, line.end} \in ofLines
    BY <1>5
  <2> QED BY <1>8, <2>2
<1>18. \A sector \in Range(sectors) : isCoord(sector.at) => sector.at \in points
  <2>1. SUFFICES ASSUME NEW sector \in Range(sectors), isCoord(sector.at)
                 PROVE  sector.at \in points
    OBVIOUS
  <2>2. {sector.at} \in ofSectors
    BY <1>6
  <2> QED BY <1>8, <2>1, <2>2
<1> QED BY <1>1, <1>2, <1>3, <1>7, <1>10, <1>11, <1>14, <1>15, <1>16, <1>17, <1>18, Zenon

Sectors == Seq([id : Nat, at : Coord])

(* The sectors in the order of their points on the lap, and these points.  *)
IsIndex(m, order, at, path, sectors) ==
  /\ m \in Nat
  /\ order \in [1 .. m -> ValidSectors(sectors)]
  /\ at \in [ValidSectors(sectors) -> DOMAIN path]
  /\ order = Indexed(path, sectors)
  /\ \A i \in ValidSectors(sectors) : at[i] = nearestPointIndex(path, sectors[i].at)
  /\ \A i \in ValidSectors(sectors) : \E n \in 1 .. m : order[n] = i
  /\ \A a, b \in 1 .. m :
       a < b <=> \/ at[order[a]] < at[order[b]]
                 \/ at[order[a]] = at[order[b]] /\ order[a] < order[b]

(* The order is that of the index, whatever the sectors. *)
LEMMA IndexedIs ==
  ASSUME NEW path \in Seq(Points), Len(path) > 0, NEW sectors \in Sectors
  PROVE  \E m, order, at : IsIndex(m, order, at, path, sectors)
<1>1. PICK V : V = ValidSectors(sectors)
  OBVIOUS
<1>2. V \in SUBSET DOMAIN sectors /\ V \in SUBSET Nat /\ IsFiniteSet(V)
  <2>1. PICK n \in Nat : DOMAIN sectors = 1 .. n
    BY DEF Sectors
  <2>2. V \in SUBSET (1 .. n)
    BY <1>1, <2>1 DEF ValidSectors
  <2>3. IsFiniteSet(1 .. n)
    BY FirstNaturals
  <2>4. IsFiniteSet(V)
    BY <2>2, <2>3, FS_Subset
  <2>5. V \in SUBSET Nat
    BY <2>2
  <2> QED BY <2>1, <2>2, <2>4, <2>5, Zenon
<1>3. \A i \in V : sectors[i].at \in Points
  <2>1. SUFFICES ASSUME NEW i \in V PROVE sectors[i].at \in Points
    OBVIOUS
  <2>2. sectors[i] \in [id : Nat, at : Coord] /\ isCoord(sectors[i].at)
    BY <1>1, <1>2, ElementOf DEF Sectors, ValidSectors
  <2>3. sectors[i].at \in Coord
    BY <2>2
  <2> QED BY <2>2, <2>3, Coords
<1>4. PICK at \in [V -> DOMAIN path] : \A i \in V : at[i] = nearestPointIndex(path, sectors[i].at)
  <2>1. \A i \in V : nearestPointIndex(path, sectors[i].at) \in DOMAIN path
    BY <1>3, NearestIs
  <2>2. [i \in V |-> nearestPointIndex(path, sectors[i].at)] \in [V -> DOMAIN path]
    BY <2>1
  <2> QED BY <2>2
<1>5. PICK before \in [V -> SUBSET V] : \A i \in V : before[i] =
        {j \in V : \/ nearestPointIndex(path, sectors[j].at) < nearestPointIndex(path, sectors[i].at)
                  \/ /\ nearestPointIndex(path, sectors[j].at) = nearestPointIndex(path, sectors[i].at)
                     /\ j < i}
  <2>1. PICK f : f = [i \in V |->
        {j \in V : \/ nearestPointIndex(path, sectors[j].at) < nearestPointIndex(path, sectors[i].at)
                  \/ /\ nearestPointIndex(path, sectors[j].at) = nearestPointIndex(path, sectors[i].at)
                     /\ j < i}]
    OBVIOUS
  <2> QED BY <2>1
<1>6. PICK order : order = Indexed(path, sectors)
  OBVIOUS
<1>7. order = [n \in 1 .. Cardinality(V) |-> CHOOSE i \in V : Cardinality(
        {j \in V : \/ nearestPointIndex(path, sectors[j].at) < nearestPointIndex(path, sectors[i].at)
                  \/ /\ nearestPointIndex(path, sectors[j].at) = nearestPointIndex(path, sectors[i].at)
                     /\ j < i}) = n - 1]
  BY <1>1, <1>6 DEF Indexed, Listed
<1>8. \A i, j \in V : j \in before[i] <=> at[j] < at[i] \/ (at[j] = at[i] /\ j < i)
  BY <1>4, <1>5
<1>9. \A i \in V : at[i] \in Int /\ i \in Int
  <2>1. DOMAIN path \subseteq Int
    OBVIOUS
  <2> QED BY <1>2, <2>1
<1>10. /\ \A i \in V : i \notin before[i]
       /\ \A i, j \in V : i \in before[j] => before[i] \subseteq before[j]
       /\ \A i, j \in V : i # j => i \in before[j] \/ j \in before[i]
  <2>1. \A i \in V : i \notin before[i]
    BY <1>8, <1>9
  <2>2. ASSUME NEW i \in V, NEW j \in V, i \in before[j], NEW k \in before[i] PROVE k \in before[j]
    <3>1. k \in V
      BY <2>2
    <3> QED BY <1>8, <1>9, <2>2, <3>1
  <2>3. \A i, j \in V : i # j => i \in before[j] \/ j \in before[i]
    BY <1>8, <1>9
  <2> QED BY <2>1, <2>2, <2>3
<1>11. \A n \in 1 .. Cardinality(V) :
         (\E i \in V : Cardinality(before[i]) = n - 1)
           => order[n] \in V /\ Cardinality(before[order[n]]) = n - 1
  <2> SUFFICES ASSUME NEW n \in 1 .. Cardinality(V), NEW i \in V, Cardinality(before[i]) = n - 1
               PROVE  order[n] \in V /\ Cardinality(before[order[n]]) = n - 1
    OBVIOUS
  <2>1. order[n] = CHOOSE k \in V : Cardinality(
        {j \in V : \/ nearestPointIndex(path, sectors[j].at) < nearestPointIndex(path, sectors[k].at)
                  \/ /\ nearestPointIndex(path, sectors[j].at) = nearestPointIndex(path, sectors[k].at)
                     /\ j < k}) = n - 1
    BY <1>7
  <2>2. Cardinality(
        {j \in V : \/ nearestPointIndex(path, sectors[j].at) < nearestPointIndex(path, sectors[i].at)
                  \/ /\ nearestPointIndex(path, sectors[j].at) = nearestPointIndex(path, sectors[i].at)
                     /\ j < i}) = n - 1
    BY <1>5
  <2>3. order[n] \in V /\ Cardinality(
        {j \in V : \/ nearestPointIndex(path, sectors[j].at) < nearestPointIndex(path, sectors[order[n]].at)
                  \/ /\ nearestPointIndex(path, sectors[j].at) = nearestPointIndex(path, sectors[order[n]].at)
                     /\ j < order[n]}) = n - 1
    BY <2>1, <2>2
  <2> QED BY <1>5, <2>3
<1>12. /\ Cardinality(V) \in Nat
       /\ \A n \in 1 .. Cardinality(V) : order[n] \in V
       /\ \A i \in V : \E n \in 1 .. Cardinality(V) : order[n] = i
       /\ \A a, b \in 1 .. Cardinality(V) : a < b <=> order[a] \in before[order[b]]
  BY <1>2, <1>10, <1>11, Ranking, Zenon
<1>13. order \in [1 .. Cardinality(V) -> V]
  BY <1>7, <1>12
<1>14. \A a, b \in 1 .. Cardinality(V) :
         a < b <=> \/ at[order[a]] < at[order[b]]
                   \/ at[order[a]] = at[order[b]] /\ order[a] < order[b]
  BY <1>8, <1>12
<1>15. PICK m \in Nat : m = Cardinality(V)
  BY <1>12
<1>16. /\ order \in [1 .. m -> V]
       /\ \A i \in V : \E n \in 1 .. m : order[n] = i
       /\ \A a, b \in 1 .. m :
            a < b <=> \/ at[order[a]] < at[order[b]]
                      \/ at[order[a]] = at[order[b]] /\ order[a] < order[b]
  BY <1>12, <1>13, <1>14, <1>15
<1>17. /\ order \in [1 .. m -> ValidSectors(sectors)] /\ at \in [ValidSectors(sectors) -> DOMAIN path]
       /\ order = Indexed(path, sectors)
       /\ \A i \in ValidSectors(sectors) : at[i] = nearestPointIndex(path, sectors[i].at)
       /\ \A i \in ValidSectors(sectors) : \E n \in 1 .. m : order[n] = i
  BY <1>1, <1>4, <1>6, <1>16
<1>18. IsIndex(m, order, at, path, sectors)
  BY <1>15, <1>16, <1>17, Zenon DEF IsIndex
<1> QED BY <1>18, Zenon

(* A segment is made of points of the path. *)
LEMMA SegmentPoints ==
  ASSUME NEW S, NEW path \in Seq(S), NEW first \in DOMAIN path, NEW last \in DOMAIN path
  PROVE  /\ segmentBetween(path, first, last) \in Seq(S)
         /\ \A i \in DOMAIN segmentBetween(path, first, last) :
              \E k \in DOMAIN path : segmentBetween(path, first, last)[i] = path[k]
<1>1. PICK T : T = {path[k] : k \in DOMAIN path}
  OBVIOUS
<1>2. PICK n \in Nat : n = Len(path) /\ DOMAIN path = 1 .. n
  OBVIOUS
<1>3. path \in Seq(T) /\ T \subseteq S
  BY <1>1, <1>2
<1>4. PICK segment : segment = segmentBetween(path, first, last)
  OBVIOUS
<1>5. segment \in Seq(T)
  <2>1. \A a, b \in 1 .. n : SubSeq(path, a, b) \in Seq(T)
    <3>1. SUFFICES ASSUME NEW a \in 1 .. n, NEW b \in 1 .. n PROVE SubSeq(path, a, b) \in Seq(T)
      OBVIOUS
    <3>2. \A i \in a .. b : path[i] \in T
      BY <1>1, <1>2
    <3> QED BY <3>2, SubSeqProperties
  <2>2. first \in 1 .. n /\ last \in 1 .. n /\ 1 \in 1 .. n /\ n \in 1 .. n
    BY <1>2
  <2>3. CASE first <= last
    BY <1>4, <2>1, <2>2, <2>3 DEF segmentBetween
  <2>4. CASE ~(first <= last)
    <3>1. PICK behind \in Seq(T) : behind = SubSeq(path, first, n)
      BY <2>1, <2>2
    <3>2. PICK ahead \in Seq(T) : ahead = SubSeq(path, 1, last)
      BY <2>1, <2>2
    <3>3. segment = behind \o ahead
      BY <1>2, <1>4, <2>4, <3>1, <3>2 DEF segmentBetween
    <3> QED BY <3>3, ConcatProperties
  <2> QED BY <2>3, <2>4
<1>6. \A i \in DOMAIN segment : segment[i] \in T
  BY <1>5, ElementOf
<1>7. segment \in Seq(S)
  BY <1>3, <1>5
<1> QED BY <1>1, <1>4, <1>6, <1>7

(* The sectors whose pieces of the lap are drawn, in the order of the lap. *)
AreSegments(which, segments, m, order, cuts, path, sectors, flags) ==
  /\ DOMAIN segments = 1 .. Len(segments) /\ Len(segments) \in Nat
  /\ which \in [DOMAIN segments -> 1 .. m]
  /\ \A s \in DOMAIN segments :
       segments[s] = [id |-> sectors[order[which[s]]].id,
                      flag |-> FlagOf(sectors[order[which[s]]].id, flags),
                      points |-> segmentBetween(path, cuts[which[s]], cuts[(which[s] % m) + 1])]
  /\ \A n \in 1 .. m : Len(segmentBetween(path, cuts[n], cuts[(n % m) + 1])) >= 2
       => \E s \in DOMAIN segments : which[s] = n
  /\ \A s, t \in DOMAIN segments : which[s] = which[t] => s = t

(* Of the pieces between the cuts, those with an edge are drawn. *)
LEMMA SegmentsAre ==
  ASSUME NEW path \in Seq(Points), Len(path) >= 2, NEW sectors \in Sectors, NEW flags,
         NEW m, NEW order, NEW at, IsIndex(m, order, at, path, sectors), m >= 2,
         NEW cuts, \A n \in 1 .. m : cuts[n] = at[order[n]]
  PROVE  \E which : AreSegments(which, buildSectorSegments(path, sectors, flags),
                                m, order, cuts, path, sectors, flags)
<1>1. /\ m \in Nat /\ order \in [1 .. m -> ValidSectors(sectors)]
      /\ at \in [ValidSectors(sectors) -> DOMAIN path]
      /\ order = Indexed(path, sectors)
      /\ \A i \in ValidSectors(sectors) : at[i] = nearestPointIndex(path, sectors[i].at)
  BY Zenon DEF IsIndex
<1>2. DOMAIN order = 1 .. m /\ Len(order) = m
  BY <1>1
<1>3. \A n \in 1 .. m : /\ cuts[n] = nearestPointIndex(path, sectors[order[n]].at)
                        /\ cuts[n] \in DOMAIN path
  BY <1>1
<1>4. \A n \in 1 .. m : (n % m) + 1 \in 1 .. m
  BY <1>1
<1>5. PICK pieces : pieces =
        [n \in 1 .. m |-> [id |-> sectors[order[n]].id, flag |-> FlagOf(sectors[order[n]].id, flags),
                           points |-> segmentBetween(path, cuts[n], cuts[(n % m) + 1])]]
  OBVIOUS
<1>6. PICK drawn : drawn = {n \in 1 .. m : Len(segmentBetween(path, cuts[n], cuts[(n % m) + 1])) >= 2}
  OBVIOUS
<1>7. PICK segments : segments = buildSectorSegments(path, sectors, flags)
  OBVIOUS
<1>8. segments = Filtered(pieces, drawn)
  <2>1. PICK near : near = [n \in 1 .. m |-> nearestPointIndex(path, sectors[order[n]].at)]
    OBVIOUS
  <2>2. PICK made : made =
          [n \in 1 .. m |-> [id |-> sectors[order[n]].id, flag |-> FlagOf(sectors[order[n]].id, flags),
             points |-> segmentBetween(path, nearestPointIndex(path, sectors[order[n]].at),
                                       nearestPointIndex(path, sectors[order[(n % m) + 1]].at))]]
    OBVIOUS
  <2>3. \A n \in 1 .. m : /\ cuts[n] = nearestPointIndex(path, sectors[order[n]].at)
                          /\ cuts[(n % m) + 1] = nearestPointIndex(path, sectors[order[(n % m) + 1]].at)
    BY <1>3, <1>4
  <2>4. made = pieces
    BY <1>5, <2>2, <2>3
  <2>5. drawn = {n \in 1 .. m : Len(made[n].points) >= 2}
    BY <1>6, <2>2, <2>3
  <2>6. ~(Len(path) < 2 \/ Len(order) < 2)
    BY <1>1, <1>2
  <2>7. segments = Filtered(made, {n \in 1 .. m : Len(made[n].points) >= 2})
    BY <1>1, <1>2, <1>7, <2>2, <2>6, Zenon DEF buildSectorSegments
  <2> QED BY <2>4, <2>5, <2>7, Zenon
<1>9. PICK P : P = {pieces[n] : n \in 1 .. m}
  OBVIOUS
<1>10. pieces \in Seq(P) /\ drawn \in SUBSET DOMAIN pieces
  <2>1. \A n \in 1 .. m : pieces[n] \in P
    BY <1>9, Zenon
  <2>2. pieces = [n \in 1 .. m |-> pieces[n]] /\ DOMAIN pieces = 1 .. m
    BY <1>5, Zenon
  <2>3. pieces \in [1 .. m -> P]
    BY <2>1, <2>2, Zenon
  <2>4. pieces \in Seq(P)
    BY <1>1, <2>3, ListOf, Zenon
  <2> QED BY <1>6, <2>2, <2>4
<1>11. segments \in Seq(P) /\ \E w : IsSelection(w, segments, pieces, drawn)
  BY <1>8, <1>10, FilteredIs, Zenon
<1>12. PICK which : IsSelection(which, segments, pieces, drawn)
  BY <1>11, Zenon
<1>13. /\ Len(segments) \in Nat /\ DOMAIN segments = 1 .. Len(segments)
       /\ which \in [DOMAIN segments -> drawn]
       /\ \A s \in DOMAIN segments : segments[s] = pieces[which[s]]
       /\ \A n \in drawn : \E s \in DOMAIN segments : which[s] = n
       /\ \A s, t \in DOMAIN segments : which[s] = which[t] => s = t
  BY <1>12, Zenon DEF IsSelection
<1>14. drawn \in SUBSET (1 .. m)
  BY <1>6
<1>15. which \in [DOMAIN segments -> 1 .. m]
  BY <1>13, <1>14
<1>16. \A s \in DOMAIN segments :
         segments[s] = [id |-> sectors[order[which[s]]].id,
                        flag |-> FlagOf(sectors[order[which[s]]].id, flags),
                        points |-> segmentBetween(path, cuts[which[s]], cuts[(which[s] % m) + 1])]
  <2>1. \A s \in DOMAIN segments : which[s] \in 1 .. m /\ segments[s] = pieces[which[s]]
    BY <1>13, <1>15
  <2> QED BY <1>5, <2>1
<1>17. \A n \in 1 .. m : Len(segmentBetween(path, cuts[n], cuts[(n % m) + 1])) >= 2
         => \E s \in DOMAIN segments : which[s] = n
  BY <1>6, <1>13
<1>18. AreSegments(which, segments, m, order, cuts, path, sectors, flags)
  BY <1>13, <1>15, <1>16, <1>17, Zenon DEF AreSegments
<1> QED BY <1>7, <1>18, Zenon

(* What is drawn in some bounds, from the points of the lap and of its     *)
(* sectors.                                                                *)
IsDrawing(drawn, bounds, main, segments, track, flags) ==
  /\ \A polyline \in drawn.paths : \E path \in Range(track.paths) :
       polyline = buildTrackPolyline(path.points, bounds)
  /\ drawn.lap = IF Len(main) > 1 THEN buildTrackPolyline(main, bounds) ELSE <<>>
  /\ DOMAIN drawn.segments = DOMAIN segments
  /\ \A i \in DOMAIN segments :
       drawn.segments[i] = [segments[i] EXCEPT !.points = buildTrackPolyline(@, bounds)]
  /\ \A polyline \in drawn.lines : \E line \in Range(track.lines) :
       /\ isCoord(line.start) /\ isCoord(line.end)
       /\ polyline = <<projectTrackPoint(line.start, bounds), projectTrackPoint(line.end, bounds)>>
  /\ \A mark \in drawn.marks : \E sector \in Range(track.sectors) :
       /\ isCoord(sector.at)
       /\ mark = [id |-> sector.id, point |-> projectTrackPoint(sector.at, bounds),
                  flag |-> FlagOf(sector.id, flags)]

(* That is what the page draws. *)
LEMMA DrawingIs ==
  ASSUME NEW track, NEW flags, NEW bounds, bounds = computeTrackBounds(PointsOf(track)),
         NEW main, main = pickMainTrackCoords(track.paths),
         NEW segments, segments = buildSectorSegments(main, track.sectors, flags),
         NEW drawn, drawn = Drawing(track, flags)
  PROVE  IsDrawing(drawn, bounds, main, segments, track, flags)
<1>1. PICK paths : paths = {buildTrackPolyline(path.points, bounds) : path \in
                             {path \in Range(track.paths) : /\ normalizeCoords(path.points) # <<>>
                                                            /\ path.main => Len(main) <= 1}}
  OBVIOUS
<1>2. PICK lap : lap = IF Len(main) > 1 THEN buildTrackPolyline(main, bounds) ELSE <<>>
  OBVIOUS
<1>3. PICK pieces : pieces = [i \in DOMAIN segments |->
                               [segments[i] EXCEPT !.points = buildTrackPolyline(@, bounds)]]
  OBVIOUS
<1>4. PICK lines : lines =
        {<<projectTrackPoint(line.start, bounds), projectTrackPoint(line.end, bounds)>> :
           line \in {line \in Range(track.lines) : isCoord(line.start) /\ isCoord(line.end)}}
  OBVIOUS
<1>5. PICK marks : marks =
        {[id |-> sector.id, point |-> projectTrackPoint(sector.at, bounds),
          flag |-> FlagOf(sector.id, flags)] :
           sector \in {sector \in Range(track.sectors) : isCoord(sector.at)}}
  OBVIOUS
<1>6. drawn = [paths |-> paths, lap |-> lap, segments |-> pieces, lines |-> lines, marks |-> marks]
  BY <1>1, <1>2, <1>3, <1>4, <1>5, Zenon DEF Drawing
<1>7. /\ drawn.paths = paths /\ drawn.lap = lap /\ drawn.segments = pieces
      /\ drawn.lines = lines /\ drawn.marks = marks
  BY <1>6
<1>8. \A polyline \in paths : \E path \in Range(track.paths) :
        polyline = buildTrackPolyline(path.points, bounds)
  BY <1>1
<1>9. \A polyline \in lines : \E line \in Range(track.lines) :
        /\ isCoord(line.start) /\ isCoord(line.end)
        /\ polyline = <<projectTrackPoint(line.start, bounds), projectTrackPoint(line.end, bounds)>>
  BY <1>4
<1>10. \A mark \in marks : \E sector \in Range(track.sectors) :
         /\ isCoord(sector.at)
         /\ mark = [id |-> sector.id, point |-> projectTrackPoint(sector.at, bounds),
                    flag |-> FlagOf(sector.id, flags)]
  BY <1>5
<1>11. /\ DOMAIN pieces = DOMAIN segments
       /\ \A i \in DOMAIN segments :
            pieces[i] = [segments[i] EXCEPT !.points = buildTrackPolyline(@, bounds)]
  BY <1>3, Zenon
<1> QED BY <1>2, <1>7, <1>8, <1>9, <1>10, <1>11, Zenon DEF IsDrawing

(* Inside the padding of the box. *)
InTheBox(p) == p.x \in Padding .. 1000 - Padding /\ p.y \in Padding .. 680 - Padding

(* So is a polyline through some of the points of the track. *)
LEMMA PolylineInTheBox ==
  ASSUME NEW bounds, NEW points, \A q \in points : InTheBox(projectTrackPoint(q, bounds)),
         NEW coords \in Seq(Coord),
         \A i \in DOMAIN coords : isCoord(coords[i]) => coords[i] \in points
  PROVE  \A p \in Range(buildTrackPolyline(coords, bounds)) : InTheBox(p)
<1>1. PICK drawn : drawn = normalizeCoords(coords)
  OBVIOUS
<1>2. \A n \in DOMAIN drawn : drawn[n] \in points
  BY <1>1, NormalizedIs
<1>3. buildTrackPolyline(coords, bounds) = [i \in DOMAIN drawn |-> projectTrackPoint(drawn[i], bounds)]
  BY <1>1, Zenon DEF buildTrackPolyline
<1>4. \A p \in Range(buildTrackPolyline(coords, bounds)) :
        \E n \in DOMAIN drawn : p = projectTrackPoint(drawn[n], bounds)
  BY <1>3 DEF Range
<1> QED BY <1>2, <1>4, Zenon

(* A piece of the lap, made of its points. *)
IsPiece(segment, path) ==
  /\ segment = [id |-> segment.id, flag |-> segment.flag, points |-> segment.points]
  /\ segment.points \in Seq(Points)
  /\ \A i \in DOMAIN segment.points : \E k \in DOMAIN path : segment.points[i] = path[k]

(* Each sector that is drawn is such a piece. *)
LEMMA SegmentsOfTrack ==
  ASSUME NEW path \in Seq(Points), NEW sectors \in Sectors, NEW flags,
         NEW segments, segments = buildSectorSegments(path, sectors, flags),
         NEW s \in DOMAIN segments
  PROVE  IsPiece(segments[s], path)
<1>1. ~(Len(path) < 2 \/ Len(Indexed(path, sectors)) < 2)
  <2>1. SUFFICES ASSUME Len(path) < 2 \/ Len(Indexed(path, sectors)) < 2 PROVE FALSE
    OBVIOUS
  <2>2. segments = <<>>
    BY <2>1 DEF buildSectorSegments
  <2> QED BY <2>2
<1>2. Len(path) >= 2 /\ Len(path) > 0
  BY <1>1
<1>3. PICK m, order, at : IsIndex(m, order, at, path, sectors)
  BY <1>2, IndexedIs
<1>4. /\ m \in Nat /\ order \in [1 .. m -> ValidSectors(sectors)]
      /\ at \in [ValidSectors(sectors) -> DOMAIN path] /\ order = Indexed(path, sectors)
  BY <1>3, Zenon DEF IsIndex
<1>5. m >= 2
  BY <1>1, <1>4
<1>6. PICK cuts \in [1 .. m -> DOMAIN path] : \A n \in 1 .. m : cuts[n] = at[order[n]]
  <2>1. [n \in 1 .. m |-> at[order[n]]] \in [1 .. m -> DOMAIN path]
    BY <1>4
  <2> QED BY <2>1
<1>7. PICK which : AreSegments(which, segments, m, order, cuts, path, sectors, flags)
  BY <1>2, <1>3, <1>5, <1>6, SegmentsAre, Zenon
<1>8. PICK n \in 1 .. m : segments[s] =
         [id |-> sectors[order[n]].id, flag |-> FlagOf(sectors[order[n]].id, flags),
          points |-> segmentBetween(path, cuts[n], cuts[(n % m) + 1])]
  BY <1>7, Zenon DEF AreSegments
<1>9. cuts[n] \in DOMAIN path /\ cuts[(n % m) + 1] \in DOMAIN path
  <2>1. (n % m) + 1 \in 1 .. m
    BY <1>4, <1>5
  <2> QED BY <1>6, <2>1
<1>10. PICK points : points = segmentBetween(path, cuts[n], cuts[(n % m) + 1])
  OBVIOUS
<1>11. /\ points \in Seq(Points)
       /\ \A i \in DOMAIN points : \E k \in DOMAIN path : points[i] = path[k]
  BY <1>9, <1>10, SegmentPoints
<1>12. PICK segment : segment = segments[s]
  OBVIOUS
<1>13. segment = [id |-> segment.id, flag |-> segment.flag, points |-> points] /\ segment.points = points
  BY <1>8, <1>10, <1>12
<1> QED BY <1>11, <1>12, <1>13, Zenon DEF IsPiece

(* All that is drawn of a track stays in the box.                          *)
THEOREM DrawingInTheBox ==
  ASSUME NEW track \in TrackPayload, NEW flags
  PROVE  StaysInTheBox(track, flags)
<1>1. PICK drawn : drawn = Drawing(track, flags)
  OBVIOUS
<1>2. PICK points : points = PointsOf(track)
  OBVIOUS
<1>3. PICK bounds : bounds = computeTrackBounds(points)
  OBVIOUS
<1>4. \A q \in points : InTheBox(projectTrackPoint(q, bounds))
  <2>1. IsFiniteSet(points) /\ points \subseteq Points
    BY <1>2, PointsOfTrack, Zenon
  <2>2. \A q \in points : q[1] \in Int /\ q[2] \in Int
    BY <2>1 DEF Points
  <2>3. ASSUME NEW q \in points PROVE InTheBox(projectTrackPoint(q, bounds))
    <3>1. PICK p : p = projectTrackPoint(q, bounds)
      OBVIOUS
    <3>2. p.x \in Padding .. 1000 - Padding /\ p.y \in Padding .. 680 - Padding
      BY <1>3, <2>1, <2>2, <3>1, PointsStayInTheBox
    <3> QED BY <3>1, <3>2, Zenon DEF InTheBox
  <2> QED BY <2>3, Zenon
<1>5. PICK paths \in Seq([main : BOOLEAN, points : Seq(Coord)]) : paths = track.paths
  BY DEF TrackPayload
<1>6. PICK sectors \in Sectors : sectors = track.sectors
  BY DEF TrackPayload, Sectors
<1>7. \A i \in DOMAIN paths : /\ paths[i].points \in Seq(Coord)
                              /\ \A j \in DOMAIN paths[i].points :
                                   isCoord(paths[i].points[j]) => paths[i].points[j] \in points
  <2>1. \A i \in DOMAIN paths : paths[i] \in [main : BOOLEAN, points : Seq(Coord)]
    BY ElementOf, Zenon
  <2>2. \A path \in [main : BOOLEAN, points : Seq(Coord)] : path.points \in Seq(Coord)
    OBVIOUS
  <2> QED BY <1>2, <1>5, <2>1, <2>2, PointsOfTrack, Zenon
<1>8. PICK main : main = pickMainTrackCoords(paths)
  OBVIOUS
<1>9. main \in Seq(Points) /\ \A n \in DOMAIN main : main[n] \in points
  <2>1. /\ main \in Seq(Points)
        /\ \A n \in DOMAIN main : \E i \in DOMAIN paths : \E j \in DOMAIN paths[i].points :
             isCoord(paths[i].points[j]) /\ main[n] = paths[i].points[j]
    BY <1>8, MainIs, Zenon
  <2> QED BY <1>7, <2>1
<1>10. PICK segments : segments = buildSectorSegments(main, sectors, flags)
  OBVIOUS
<1>11. IsDrawing(drawn, bounds, main, segments, track, flags)
  BY <1>1, <1>2, <1>3, <1>5, <1>6, <1>8, <1>10, DrawingIs, Zenon
<1>12. ASSUME NEW polyline \in drawn.paths PROVE \A p \in Range(polyline) : InTheBox(p)
  <2>1. PICK path \in Range(paths) : polyline = buildTrackPolyline(path.points, bounds)
    BY <1>5, <1>11, <1>12, Zenon DEF IsDrawing
  <2>2. PICK i \in DOMAIN paths : path = paths[i]
    BY <2>1 DEF Range
  <2>3. PICK coords : coords = path.points
    OBVIOUS
  <2> QED BY <1>4, <1>7, <2>1, <2>2, <2>3, PolylineInTheBox
<1>13. ASSUME NEW path \in Seq(Points), \A n \in DOMAIN path : path[n] \in points
       PROVE  \A p \in Range(buildTrackPolyline(path, bounds)) : InTheBox(p)
  <2>1. path \in Seq(Coord)
    BY <1>13 DEF Points, Coord
  <2> QED BY <1>4, <1>13, <2>1, PolylineInTheBox
<1>14. \A p \in Range(drawn.lap) : InTheBox(p)
  <2>1. drawn.lap = IF Len(main) > 1 THEN buildTrackPolyline(main, bounds) ELSE <<>>
    BY <1>11, Zenon DEF IsDrawing
  <2>2. \A p \in Range(<<>>) : InTheBox(p)
    BY DEF Range
  <2> QED BY <1>9, <1>13, <2>1, <2>2
<1>15. ASSUME NEW segment \in Range(drawn.segments) PROVE \A p \in Range(segment.points) : InTheBox(p)
  <2>1. PICK s \in DOMAIN segments : segment = [segments[s] EXCEPT !.points = buildTrackPolyline(@, bounds)]
    <3>1. PICK s \in DOMAIN drawn.segments : segment = drawn.segments[s]
      BY <1>15 DEF Range
    <3> QED BY <1>11, <3>1, Zenon DEF IsDrawing
  <2>2. IsPiece(segments[s], main)
    BY <1>6, <1>9, <1>10, SegmentsOfTrack
  <2>3. PICK path : path = segments[s].points
    OBVIOUS
  <2>4. path \in Seq(Points) /\ \A i \in DOMAIN path : \E k \in DOMAIN main : path[i] = main[k]
    BY <2>2, <2>3, Zenon DEF IsPiece
  <2>5. segment.points = buildTrackPolyline(path, bounds)
    <3>1. segments[s] = [id |-> segments[s].id, flag |-> segments[s].flag, points |-> path]
      BY <2>2, <2>3, Zenon DEF IsPiece
    <3> QED BY <2>1, <2>3, <3>1
  <2>6. \A n \in DOMAIN path : path[n] \in points
    BY <1>9, <2>4
  <2> QED BY <1>13, <2>4, <2>5, <2>6, Zenon
<1>16. ASSUME NEW polyline \in drawn.lines PROVE \A p \in Range(polyline) : InTheBox(p)
  <2>1. PICK line \in Range(track.lines) :
          /\ isCoord(line.start) /\ isCoord(line.end)
          /\ polyline = <<projectTrackPoint(line.start, bounds), projectTrackPoint(line.end, bounds)>>
    BY <1>11, <1>16, Zenon DEF IsDrawing
  <2>2. line.start \in points /\ line.end \in points
    BY <1>2, <2>1, PointsOfTrack, Zenon
  <2>3. PICK a : a = projectTrackPoint(line.start, bounds)
    OBVIOUS
  <2>4. PICK b : b = projectTrackPoint(line.end, bounds)
    OBVIOUS
  <2>5. Range(polyline) = {a, b}
    BY <2>1, <2>3, <2>4 DEF Range
  <2> QED BY <1>4, <2>2, <2>3, <2>4, <2>5
<1>17. ASSUME NEW mark \in drawn.marks PROVE InTheBox(mark.point)
  <2>1. PICK sector \in Range(track.sectors) :
          /\ isCoord(sector.at)
          /\ mark = [id |-> sector.id, point |-> projectTrackPoint(sector.at, bounds),
                     flag |-> FlagOf(sector.id, flags)]
    BY <1>11, <1>17, Zenon DEF IsDrawing
  <2>2. sector.at \in points
    BY <1>2, <2>1, PointsOfTrack, Zenon
  <2>3. mark.point = projectTrackPoint(sector.at, bounds)
    BY <2>1, Zenon
  <2> QED BY <1>4, <2>2, <2>3
<1>18. PICK polylines : polylines = drawn.paths \cup drawn.lines \cup {drawn.lap}
                                    \cup {segment.points : segment \in Range(drawn.segments)}
  OBVIOUS
<1>19. \A polyline \in polylines : \A p \in Range(polyline) : InTheBox(p)
  BY <1>12, <1>14, <1>15, <1>16, <1>18
<1>20. \A p \in (UNION {Range(polyline) : polyline \in polylines}) \cup {mark.point : mark \in drawn.marks} :
         InTheBox(p)
  BY <1>17, <1>19
<1>21. \A p \in DrawnPoints(drawn) : InTheBox(p)
  BY <1>18, <1>20, Zenon DEF DrawnPoints
<1> QED BY <1>1, <1>21, Zenon DEF StaysInTheBox, InTheBox

(* The lap is drawn point by point. *)
LEMMA LapPolyline ==
  ASSUME NEW path \in Seq(Points), NEW bounds
  PROVE  \E T : /\ buildTrackPolyline(path, bounds) \in Seq(T)
                /\ DOMAIN buildTrackPolyline(path, bounds) = DOMAIN path
                /\ Len(buildTrackPolyline(path, bounds)) = Len(path)
                /\ \A i \in DOMAIN path :
                     buildTrackPolyline(path, bounds)[i] = projectTrackPoint(path[i], bounds)
<1>1. PICK lap : lap = buildTrackPolyline(path, bounds)
  OBVIOUS
<1>2. lap = [i \in DOMAIN path |-> projectTrackPoint(path[i], bounds)]
  BY <1>1, NormalizedAll DEF buildTrackPolyline
<1>3. PICK n \in Nat : n = Len(path) /\ DOMAIN path = 1 .. n
  OBVIOUS
<1>4. PICK T : T = {lap[i] : i \in 1 .. n}
  OBVIOUS
<1>5. /\ lap \in Seq(T) /\ DOMAIN lap = DOMAIN path /\ Len(lap) = Len(path)
      /\ \A i \in DOMAIN path : lap[i] = projectTrackPoint(path[i], bounds)
  BY <1>2, <1>3, <1>4
<1> QED BY <1>1, <1>5, Zenon

(* The polyline of a piece is the piece of the polyline. *)
LEMMA PieceOfLap ==
  ASSUME NEW path \in Seq(Points), NEW bounds, NEW first \in DOMAIN path, NEW last \in DOMAIN path
  PROVE  /\ buildTrackPolyline(segmentBetween(path, first, last), bounds)
              = segmentBetween(buildTrackPolyline(path, bounds), first, last)
         /\ Len(segmentBetween(path, first, last))
              = Len(segmentBetween(buildTrackPolyline(path, bounds), first, last))
<1>1. PICK n \in Nat : /\ n = Len(path) /\ DOMAIN path = 1 .. n
                        /\ first \in 1 .. n /\ last \in 1 .. n
  OBVIOUS
<1>2. PICK lap : lap = buildTrackPolyline(path, bounds)
  OBVIOUS
<1>3. PICK T : /\ lap \in Seq(T) /\ Len(lap) = n
               /\ \A i \in 1 .. n : lap[i] = projectTrackPoint(path[i], bounds)
  BY <1>1, <1>2, LapPolyline
<1>4. PICK piece : piece = segmentBetween(path, first, last)
  OBVIOUS
<1>5. PICK drawn : drawn = segmentBetween(lap, first, last)
  OBVIOUS
<1>6. PICK polyline : polyline = buildTrackPolyline(piece, bounds)
  OBVIOUS
<1>7. PICK size : size = IF first <= last THEN last - first + 1 ELSE n - first + 1 + last
  OBVIOUS
<1>8. PICK at : at = [i \in 1 .. size |-> IF first + i - 1 <= n THEN first + i - 1 ELSE first + i - 1 - n]
  OBVIOUS
<1>9. Len(piece) = size /\ \A i \in 1 .. size : piece[i] = path[at[i]]
  <2>1. first \in 1 .. Len(path) /\ last \in 1 .. Len(path)
    BY <1>1
  <2>2. /\ Len(piece) = IF first <= last THEN last - first + 1 ELSE Len(path) - first + 1 + last
        /\ \A i \in 1 .. Len(piece) :
             piece[i] = path[IF first + i - 1 <= Len(path) THEN first + i - 1
                           ELSE first + i - 1 - Len(path)]
    BY <1>4, <2>1, SegmentGoesOn
  <2>3. Len(piece) = size
    BY <1>1, <1>3, <1>7, <2>2
  <2> QED BY <1>1, <1>3, <1>8, <2>2, <2>3
<1>10. Len(drawn) = size /\ \A i \in 1 .. size : drawn[i] = lap[at[i]]
  <2>1. first \in 1 .. Len(lap) /\ last \in 1 .. Len(lap)
    BY <1>1, <1>3
  <2>2. /\ Len(drawn) = IF first <= last THEN last - first + 1 ELSE Len(lap) - first + 1 + last
        /\ \A i \in 1 .. Len(drawn) :
             drawn[i] = lap[IF first + i - 1 <= Len(lap) THEN first + i - 1
                           ELSE first + i - 1 - Len(lap)]
    BY <1>3, <1>5, <2>1, SegmentGoesOn
  <2>3. Len(drawn) = size
    BY <1>1, <1>3, <1>7, <2>2
  <2> QED BY <1>1, <1>3, <1>8, <2>2, <2>3
<1>11. piece \in Seq(Points) /\ drawn \in Seq(T)
  <2>1. first \in DOMAIN lap /\ last \in DOMAIN lap
    BY <1>1, <1>3
  <2>2. piece \in Seq(Points)
    BY <1>4, SegmentPoints
  <2>3. drawn \in Seq(T)
    BY <1>3, <1>5, <2>1, SegmentPoints
  <2> QED BY <2>2, <2>3
<1>12. \A i \in 1 .. size : at[i] \in 1 .. n
  <2>1. SUFFICES ASSUME NEW i \in 1 .. size PROVE at[i] \in 1 .. n
    OBVIOUS
  <2>2. at[i] = IF first + i - 1 <= n THEN first + i - 1 ELSE first + i - 1 - n
    BY <1>8
  <2>3. CASE first <= last
    BY <1>1, <1>7, <2>2, <2>3
  <2>4. CASE ~(first <= last)
    BY <1>1, <1>7, <2>2, <2>4
  <2> QED BY <2>3, <2>4
<1>13. PICK U : /\ polyline \in Seq(U) /\ Len(polyline) = size
                /\ \A i \in DOMAIN piece : polyline[i] = projectTrackPoint(piece[i], bounds)
  BY <1>6, <1>9, <1>11, LapPolyline
<1>14. DOMAIN piece = 1 .. size /\ DOMAIN polyline = 1 .. size /\ DOMAIN drawn = 1 .. size
  BY <1>9, <1>10, <1>11, <1>13
<1>15. \A i \in 1 .. size : polyline[i] = drawn[i]
  BY <1>3, <1>9, <1>10, <1>12, <1>13, <1>14
<1>16. polyline = drawn
  BY <1>11, <1>13, <1>14, <1>15
<1> QED BY <1>2, <1>4, <1>5, <1>6, <1>9, <1>10, <1>16

(* The points of the sectors cut the lap, in its order.                    *)
AreCuts(cuts, m, order, at, path) ==
  /\ m \in Nat \ {0} /\ m >= 2
  /\ cuts \in [1 .. m -> DOMAIN path]
  /\ \A n \in 1 .. m : cuts[n] = at[order[n]]
  /\ \A i, j \in 1 .. m : i <= j => cuts[i] <= cuts[j]
  /\ cuts[1] < cuts[m]

(* They do if two sectors, at least, are at different points. *)
LEMMA CutsGoUp ==
  ASSUME NEW path \in Seq(Points), NEW sectors, NEW m, NEW order, NEW at,
         IsIndex(m, order, at, path, sectors),
         NEW p \in ValidSectors(sectors), NEW q \in ValidSectors(sectors), at[p] # at[q]
  PROVE  \E cuts : AreCuts(cuts, m, order, at, path)
<1>1. /\ m \in Nat /\ order \in [1 .. m -> ValidSectors(sectors)]
      /\ at \in [ValidSectors(sectors) -> DOMAIN path]
      /\ \A i \in ValidSectors(sectors) : \E n \in 1 .. m : order[n] = i
      /\ \A a, b \in 1 .. m : a < b <=> \/ at[order[a]] < at[order[b]]
                                        \/ at[order[a]] = at[order[b]] /\ order[a] < order[b]
  BY DEF IsIndex
<1>2. PICK cuts \in [1 .. m -> DOMAIN path] : \A n \in 1 .. m : cuts[n] = at[order[n]]
  <2>1. [n \in 1 .. m |-> at[order[n]]] \in [1 .. m -> DOMAIN path]
    BY <1>1
  <2> QED BY <2>1
<1>3. \A n \in 1 .. m : cuts[n] \in Int
  BY <1>2
<1>4. ASSUME NEW i \in 1 .. m, NEW j \in 1 .. m, i <= j PROVE cuts[i] <= cuts[j]
  <2>1. CASE i = j
    BY <1>3, <2>1
  <2>2. CASE i < j
    <3>1. at[order[i]] < at[order[j]] \/ at[order[i]] = at[order[j]]
      BY <1>1, <2>2
    <3> QED BY <1>2, <1>3, <3>1
  <2> QED BY <1>1, <1>4, <2>1, <2>2
<1>5. PICK a \in 1 .. m, b \in 1 .. m : cuts[a] < cuts[b]
  <2>1. PICK a \in 1 .. m : order[a] = p
    BY <1>1
  <2>2. PICK b \in 1 .. m : order[b] = q
    BY <1>1
  <2>3. cuts[a] # cuts[b]
    BY <1>2, <2>1, <2>2
  <2>4. cuts[a] < cuts[b] \/ cuts[b] < cuts[a]
    BY <1>3, <2>3
  <2> QED BY <2>4
<1>6. m >= 2 /\ 1 \in 1 .. m /\ m \in 1 .. m
  <2>1. a # b
    BY <1>3, <1>5
  <2> QED BY <1>1, <2>1
<1>7. cuts[1] < cuts[m]
  <2>1. cuts[1] <= cuts[a] /\ cuts[b] <= cuts[m]
    BY <1>1, <1>4, <1>6
  <2> QED BY <1>3, <1>5, <1>6, <2>1
<1>8. m \in Nat \ {0}
  BY <1>1, <1>6
<1>9. AreCuts(cuts, m, order, at, path)
  BY <1>2, <1>4, <1>6, <1>7, <1>8, Zenon DEF AreCuts
<1> QED BY <1>9, Zenon

(* The sector that draws the edge behind a point is the last one passed    *)
(* there, or the last of all before the first of them.                     *)
LEMMA OwnerIs ==
  ASSUME NEW path \in Seq(Points), NEW sectors \in Sectors, NEW m, NEW order, NEW at, NEW cuts,
         IsIndex(m, order, at, path, sectors), AreCuts(cuts, m, order, at, path),
         NEW k \in DOMAIN path, NEW n \in 1 .. m,
         \/ n < m /\ cuts[n] <= k /\ k < cuts[n + 1]
         \/ n = m /\ (cuts[m] <= k \/ k < cuts[1])
  PROVE  OwnerOf(k, path, sectors) = sectors[order[n]].id
<1>1. PICK V : V = ValidSectors(sectors)
  OBVIOUS
<1>2. /\ order \in [1 .. m -> V] /\ at \in [V -> DOMAIN path]
      /\ \A i \in V : at[i] = nearestPointIndex(path, sectors[i].at)
      /\ \A i \in V : \E a \in 1 .. m : order[a] = i
      /\ \A a, b \in 1 .. m : a < b <=> \/ at[order[a]] < at[order[b]]
                                        \/ at[order[a]] = at[order[b]] /\ order[a] < order[b]
  BY <1>1 DEF IsIndex
<1>3. /\ m \in Nat \ {0}
      /\ cuts \in [1 .. m -> DOMAIN path]
      /\ \A a \in 1 .. m : cuts[a] = at[order[a]]
      /\ \A i, j \in 1 .. m : i <= j => cuts[i] <= cuts[j]
  BY DEF AreCuts
<1>4. \A i \in V : i \in Int /\ at[i] \in Int
  <2>1. V \subseteq DOMAIN sectors
    BY <1>1 DEF ValidSectors
  <2>2. DOMAIN sectors \subseteq Int /\ DOMAIN path \subseteq Int
    BY DEF Sectors
  <2> QED BY <1>2, <2>1, <2>2
<1>5. k \in Int /\ n \in Int /\ \A a \in 1 .. m : cuts[a] \in Int
  BY <1>3
<1>6. PICK passed : passed = IF \E i \in V : at[i] <= k THEN {i \in V : at[i] <= k} ELSE V
  OBVIOUS
<1>7. PICK last : last = CHOOSE i \in passed : \A j \in passed :
        at[j] < at[i] \/ (at[j] = at[i] /\ j <= i)
  OBVIOUS
<1>8. OwnerOf(k, path, sectors) = sectors[last].id
  <2>1. PICK ahead : ahead =
          IF \E i \in V : nearestPointIndex(path, sectors[i].at) <= k
            THEN {i \in V : nearestPointIndex(path, sectors[i].at) <= k} ELSE V
    OBVIOUS
  <2>2. ahead = passed
    BY <1>2, <1>6, <2>1
  <2>3. PICK final : final = CHOOSE i \in passed : \A j \in passed :
          \/ nearestPointIndex(path, sectors[j].at) < nearestPointIndex(path, sectors[i].at)
          \/ nearestPointIndex(path, sectors[j].at) = nearestPointIndex(path, sectors[i].at) /\ j <= i
    OBVIOUS
  <2>4. OwnerOf(k, path, sectors) = sectors[final].id
    BY <1>1, <2>1, <2>2, <2>3, Zenon DEF OwnerOf
  <2>5. passed \subseteq V
    BY <1>6
  <2>6. \A i \in passed :
          (\A j \in passed :
             \/ nearestPointIndex(path, sectors[j].at) < nearestPointIndex(path, sectors[i].at)
             \/ nearestPointIndex(path, sectors[j].at) = nearestPointIndex(path, sectors[i].at) /\ j <= i)
          <=> \A j \in passed : at[j] < at[i] \/ (at[j] = at[i] /\ j <= i)
    <3>1. \A i \in passed : nearestPointIndex(path, sectors[i].at) = at[i]
      BY <1>2, <2>5
    <3> QED BY <3>1, Zenon
  <2>7. final = last
    BY <1>7, <2>3, <2>6
  <2> QED BY <2>4, <2>7
<1>9. PICK own : own = order[n] /\ own \in V
  BY <1>2
<1>10. own \in passed /\ \A b \in 1 .. m : order[b] \in passed => b <= n
  <2>1. CASE cuts[n] <= k
    <3>1. own \in passed /\ passed = {i \in V : at[i] <= k}
      BY <1>3, <1>6, <1>9, <2>1
    <3>2. ASSUME NEW b \in 1 .. m, order[b] \in passed, ~(b <= n) PROVE FALSE
      <4>1. n < m /\ n + 1 \in 1 .. m /\ n + 1 <= b
        BY <1>3, <1>5, <3>2
      <4>2. k < cuts[n + 1] /\ cuts[n + 1] <= cuts[b]
        BY <1>3, <1>5, <4>1
      <4>3. cuts[b] <= k
        BY <1>3, <3>1, <3>2
      <4> QED BY <1>5, <4>1, <4>2, <4>3
    <3> QED BY <3>1, <3>2
  <2>2. CASE n = m /\ k < cuts[1]
    <3>1. ASSUME NEW i \in V, at[i] <= k PROVE FALSE
      <4>1. PICK a \in 1 .. m : order[a] = i
        BY <1>2
      <4>2. cuts[1] <= cuts[a] /\ cuts[a] = at[i] /\ 1 \in 1 .. m
        BY <1>3, <4>1
      <4> QED BY <1>5, <2>2, <3>1, <4>2
    <3>2. passed = V
      BY <1>6, <3>1
    <3> QED BY <1>3, <1>9, <2>2, <3>2
  <2> QED BY <2>1, <2>2
<1>11. \A j \in passed : at[j] < at[own] \/ (at[j] = at[own] /\ j <= own)
  <2>1. SUFFICES ASSUME NEW j \in passed PROVE at[j] < at[own] \/ (at[j] = at[own] /\ j <= own)
    OBVIOUS
  <2>2. j \in V
    BY <1>6, <2>1
  <2>3. PICK b \in 1 .. m : order[b] = j
    BY <1>2, <2>2
  <2>4. b <= n
    BY <1>10, <2>1, <2>3
  <2>5. CASE b = n
    BY <1>4, <1>9, <2>2, <2>3, <2>5
  <2>6. CASE b < n
    BY <1>2, <1>4, <1>9, <2>2, <2>3, <2>6
  <2> QED BY <1>5, <2>4, <2>5, <2>6
<1>12. last = own
  <2>1. last \in passed /\ \A j \in passed : at[j] < at[last] \/ (at[j] = at[last] /\ j <= last)
    BY <1>7, <1>10, <1>11
  <2>2. last \in V
    BY <1>6, <2>1
  <2>3. at[own] < at[last] \/ (at[own] = at[last] /\ own <= last)
    BY <1>10, <2>1
  <2>4. at[last] < at[own] \/ (at[last] = at[own] /\ last <= own)
    BY <1>11, <2>1
  <2> QED BY <1>4, <1>9, <2>2, <2>3, <2>4
<1> QED BY <1>8, <1>9, <1>12

(* Two sectors, at least, lie at different points of the lap.              *)
LEMMA TwoPlaces ==
  ASSUME NEW path \in Seq(Points), Len(path) > 0, NEW sectors \in Sectors, NEW V, V = ValidSectors(sectors),
         NEW at \in [V -> DOMAIN path],
         Cardinality({at[i] : i \in V}) >= 2
  PROVE  \E p \in V, q \in V : at[p] # at[q]
<1>1. SUFFICES ASSUME \A p, q \in V : at[p] = at[q] PROVE FALSE
  OBVIOUS
<1>2. PICK places : places = {at[i] : i \in V}
  OBVIOUS
<1>3. CASE V = {}
  <2>1. places = {}
    BY <1>2, <1>3
  <2>2. Cardinality(places) = 0
    BY <2>1, FS_EmptySet
  <2> QED BY <1>2, <2>2
<1>4. CASE V # {}
  <2>1. PICK p \in V : TRUE
    BY <1>4
  <2>2. places = {at[p]}
    BY <1>1, <1>2, <2>1
  <2>3. Cardinality(places) = 1
    BY <2>2, FS_Singleton
  <2> QED BY <1>2, <2>3
<1> QED BY <1>3, <1>4

(* Each edge of the lap is drawn once, by the sector it belongs to.        *)
LEMMA EdgeIsColored ==
  ASSUME NEW path \in Seq(Points), Len(path) >= 2, NEW sectors \in Sectors, NEW flags,
         NEW m, NEW order, NEW at, NEW cuts,
         IsIndex(m, order, at, path, sectors), AreCuts(cuts, m, order, at, path),
         NEW bounds, NEW lap, lap = buildTrackPolyline(path, bounds), Apart(lap),
         NEW segments, segments = buildSectorSegments(path, sectors, flags),
         NEW k \in DOMAIN path
  PROVE  \E s \in DOMAIN segments :
           /\ segments[s].flag = FlagOf(OwnerOf(k, path, sectors), flags)
           /\ \A t \in DOMAIN segments :
                Edge(lap, k) \in Edges(buildTrackPolyline(segments[t].points, bounds)) <=> t = s
<1>1. /\ m \in Nat \ {0} /\ m >= 2
      /\ cuts \in [1 .. m -> DOMAIN path]
      /\ \A n \in 1 .. m : cuts[n] = at[order[n]]
      /\ \A i, j \in 1 .. m : i <= j => cuts[i] <= cuts[j]
      /\ cuts[1] < cuts[m]
  BY DEF AreCuts
<1>2. PICK T : lap \in Seq(T) /\ DOMAIN lap = DOMAIN path /\ Len(lap) = Len(path)
  BY LapPolyline
<1>3. PICK which : AreSegments(which, segments, m, order, cuts, path, sectors, flags)
  BY <1>1, SegmentsAre, Zenon
<1>4. \A n \in 1 .. m : (n % m) + 1 \in 1 .. m
  BY <1>1
<1>5. PICK n \in 1 .. m :
        /\ Edge(lap, k) \in Edges(segmentBetween(lap, cuts[n], cuts[(n % m) + 1]))
        /\ \A j \in 1 .. m :
             Edge(lap, k) \in Edges(segmentBetween(lap, cuts[j], cuts[(j % m) + 1])) => j = n
  <2>1. lap \in Seq(T) /\ Apart(lap) /\ cuts \in [1 .. m -> DOMAIN lap] /\ k \in DOMAIN lap
    BY <1>1, <1>2
  <2>2. \E n \in 1 .. m :
          /\ Edge(lap, k) \in Edges(segmentBetween(lap, cuts[n], cuts[(n % m) + 1]))
          /\ \A j \in 1 .. m :
               Edge(lap, k) \in Edges(segmentBetween(lap, cuts[j], cuts[(j % m) + 1])) => j = n
    <3>1. /\ m \in Nat \ {0} /\ cuts[1] < cuts[m]
          /\ \A i, j \in 1 .. m : i <= j => cuts[i] <= cuts[j]
      BY <1>1
    <3> QED BY <2>1, <3>1, LapIsCutOnce
  <2> QED BY <2>2, Zenon
<1>6. \A j \in 1 .. m :
        /\ buildTrackPolyline(segmentBetween(path, cuts[j], cuts[(j % m) + 1]), bounds)
             = segmentBetween(lap, cuts[j], cuts[(j % m) + 1])
        /\ Len(segmentBetween(path, cuts[j], cuts[(j % m) + 1]))
             = Len(segmentBetween(lap, cuts[j], cuts[(j % m) + 1]))
        /\ segmentBetween(lap, cuts[j], cuts[(j % m) + 1]) \in Seq(T)
  <2>1. SUFFICES ASSUME NEW j \in 1 .. m
        PROVE /\ buildTrackPolyline(segmentBetween(path, cuts[j], cuts[(j % m) + 1]), bounds)
                   = segmentBetween(lap, cuts[j], cuts[(j % m) + 1])
              /\ Len(segmentBetween(path, cuts[j], cuts[(j % m) + 1]))
                   = Len(segmentBetween(lap, cuts[j], cuts[(j % m) + 1]))
              /\ segmentBetween(lap, cuts[j], cuts[(j % m) + 1]) \in Seq(T)
    OBVIOUS
  <2>2. PICK a \in DOMAIN path : a = cuts[j]
    BY <1>1
  <2>3. PICK b \in DOMAIN path : b = cuts[(j % m) + 1]
    BY <1>1, <1>4
  <2>4. /\ buildTrackPolyline(segmentBetween(path, a, b), bounds) = segmentBetween(lap, a, b)
        /\ Len(segmentBetween(path, a, b)) = Len(segmentBetween(lap, a, b))
    BY PieceOfLap, Zenon
  <2>5. segmentBetween(lap, a, b) \in Seq(T)
    BY <1>2, SegmentPoints
  <2> QED BY <2>2, <2>3, <2>4, <2>5, Zenon
<1>7. Len(segmentBetween(path, cuts[n], cuts[(n % m) + 1])) >= 2
  <2>1. PICK piece \in Seq(T) : piece = segmentBetween(lap, cuts[n], cuts[(n % m) + 1])
    BY <1>6
  <2>2. Edges(piece) # {}
    BY <1>5, <2>1
  <2>3. Len(piece) >= 2
    BY <2>2 DEF Edges
  <2> QED BY <1>6, <2>1, <2>3
<1>8. PICK s \in DOMAIN segments : which[s] = n
  BY <1>3, <1>7, Zenon DEF AreSegments
<1>9. ASSUME NEW t \in DOMAIN segments
      PROVE  /\ which[t] \in 1 .. m
             /\ segments[t].flag = FlagOf(sectors[order[which[t]]].id, flags)
             /\ buildTrackPolyline(segments[t].points, bounds)
                  = segmentBetween(lap, cuts[which[t]], cuts[(which[t] % m) + 1])
  <2>1. /\ which[t] \in 1 .. m
        /\ segments[t] = [id |-> sectors[order[which[t]]].id,
                          flag |-> FlagOf(sectors[order[which[t]]].id, flags),
                          points |-> segmentBetween(path, cuts[which[t]], cuts[(which[t] % m) + 1])]
    BY <1>3 DEF AreSegments
  <2>2. /\ segments[t].flag = FlagOf(sectors[order[which[t]]].id, flags)
        /\ segments[t].points = segmentBetween(path, cuts[which[t]], cuts[(which[t] % m) + 1])
    BY <2>1
  <2> QED BY <1>6, <2>1, <2>2
<1>10. \A t \in DOMAIN segments :
         Edge(lap, k) \in Edges(buildTrackPolyline(segments[t].points, bounds)) <=> t = s
  <2>1. \A t \in DOMAIN segments : which[t] = which[s] => t = s
    BY <1>3, Zenon DEF AreSegments
  <2> QED BY <1>5, <1>8, <1>9, <2>1
<1>11. \/ n < m /\ cuts[n] <= k /\ k < cuts[n + 1]
       \/ n = m /\ (cuts[m] <= k \/ k < cuts[1])
  <2>1. PICK a \in DOMAIN lap : a = cuts[n]
    BY <1>1, <1>2
  <2>2. PICK b \in DOMAIN lap : b = cuts[(n % m) + 1]
    BY <1>1, <1>2, <1>4
  <2>3. IF a <= b THEN a <= k /\ k < b ELSE a <= k \/ k < b
    <3>1. Edge(lap, k) \in Edges(segmentBetween(lap, a, b))
      BY <1>5, <2>1, <2>2, Zenon
    <3>2. lap \in Seq(T) /\ Apart(lap) /\ k \in DOMAIN lap
      BY <1>2
    <3> QED BY <3>1, <3>2, SegmentEdges
  <2>4. DOMAIN lap \subseteq Int /\ k \in Int
    BY <1>2
  <2>5. CASE n = m
    <3>1. (n % m) + 1 = 1
      BY <1>1, <2>5
    <3>2. ~(a <= b)
      BY <1>1, <2>1, <2>2, <2>4, <2>5, <3>1
    <3> QED BY <2>1, <2>2, <2>3, <2>5, <3>1, <3>2
  <2>6. CASE n # m
    <3>1. n < m /\ (n % m) + 1 = n + 1 /\ n + 1 \in 1 .. m
      <4>1. n \in Nat /\ 0 <= n /\ n < m /\ m \in Nat \ {0}
        BY <1>1, <2>6
      <4>2. n % m = n
        BY <4>1
      <4> QED BY <4>1, <4>2
    <3>2. a <= b
      BY <1>1, <2>1, <2>2, <3>1
    <3> QED BY <2>1, <2>2, <2>3, <3>1, <3>2
  <2> QED BY <2>5, <2>6
<1>12. OwnerOf(k, path, sectors) = sectors[order[n]].id
  BY <1>11, OwnerIs
<1> QED BY <1>8, <1>9, <1>10, <1>12

(* The map shows the lap in the colors of its sectors.                     *)
THEOREM LapIsShown ==
  ASSUME NEW track \in TrackPayload, NEW flags, Cardinality(Places(track)) >= 2,
         Apart(Drawing(track, flags).lap)
  PROVE  LapIsColored(track, flags)
<1>1. PICK paths \in Seq([main : BOOLEAN, points : Seq(Coord)]) : paths = track.paths
  BY DEF TrackPayload
<1>2. PICK sectors \in Sectors : sectors = track.sectors
  BY DEF TrackPayload, Sectors
<1>3. PICK bounds : bounds = computeTrackBounds(PointsOf(track))
  OBVIOUS
<1>4. PICK path : path = pickMainTrackCoords(paths)
  OBVIOUS
<1>5. path \in Seq(Points)
  BY <1>4, MainIs
<1>6. PICK segments : segments = buildSectorSegments(path, sectors, flags)
  OBVIOUS
<1>7. PICK drawn : drawn = Drawing(track, flags)
  OBVIOUS
<1>8. IsDrawing(drawn, bounds, path, segments, track, flags)
  BY <1>1, <1>2, <1>3, <1>4, <1>6, <1>7, DrawingIs, Zenon
<1>9. ASSUME NEW k \in DOMAIN path
      PROVE  \E s \in DOMAIN drawn.segments :
               /\ drawn.segments[s].flag = FlagOf(OwnerOf(k, path, sectors), flags)
               /\ \A t \in DOMAIN drawn.segments :
                    Edge(drawn.lap, k) \in Edges(drawn.segments[t].points) <=> t = s
  <2>1. Len(path) > 0
    BY <1>5, <1>9
  <2>2. PICK m, order, at : IsIndex(m, order, at, path, sectors)
    BY <1>5, <2>1, IndexedIs, Zenon
  <2>3. PICK V : V = ValidSectors(sectors)
    OBVIOUS
  <2>4. at \in [V -> DOMAIN path] /\ \A i \in V : at[i] = nearestPointIndex(path, sectors[i].at)
    BY <2>2, <2>3 DEF IsIndex
  <2>5. Places(track) = {at[i] : i \in V}
    <3>1. Places(track) = {nearestPointIndex(path, sectors[i].at) : i \in V}
      BY <1>1, <1>2, <1>4, <2>3 DEF Places
    <3> QED BY <2>4, <3>1
  <2>6. PICK p \in V, q \in V : at[p] # at[q]
    BY <1>5, <2>1, <2>3, <2>4, <2>5, TwoPlaces
  <2>7. PICK cuts : AreCuts(cuts, m, order, at, path)
    BY <1>5, <2>2, <2>3, <2>6, CutsGoUp
  <2>8. Len(path) >= 2
    <3>1. PICK n \in Nat : n = Len(path) /\ DOMAIN path = 1 .. n
      BY <1>5
    <3>2. at[p] \in 1 .. n /\ at[q] \in 1 .. n
      BY <2>4, <3>1
    <3> QED BY <2>6, <3>1, <3>2
  <2>9. PICK lap : lap = buildTrackPolyline(path, bounds)
    OBVIOUS
  <2>10. drawn.lap = lap
    <3>1. Len(path) > 1
      BY <1>5, <2>8
    <3> QED BY <1>8, <2>9, <3>1 DEF IsDrawing
  <2>11. Apart(lap)
    BY <1>7, <2>10
  <2>12. PICK s \in DOMAIN segments :
           /\ segments[s].flag = FlagOf(OwnerOf(k, path, sectors), flags)
           /\ \A t \in DOMAIN segments :
                Edge(lap, k) \in Edges(buildTrackPolyline(segments[t].points, bounds)) <=> t = s
    BY <1>5, <1>6, <1>9, <2>2, <2>7, <2>8, <2>9, <2>11, EdgeIsColored
  <2>13. /\ DOMAIN drawn.segments = DOMAIN segments
         /\ \A t \in DOMAIN segments :
              /\ drawn.segments[t].points = buildTrackPolyline(segments[t].points, bounds)
              /\ drawn.segments[t].flag = segments[t].flag
    <3>1. ASSUME NEW t \in DOMAIN segments
          PROVE  segments[t] = [id |-> segments[t].id, flag |-> segments[t].flag,
                                points |-> segments[t].points]
      BY <1>5, <1>6, SegmentsOfTrack DEF IsPiece
    <3>2. /\ DOMAIN drawn.segments = DOMAIN segments
          /\ \A t \in DOMAIN segments :
               drawn.segments[t] = [segments[t] EXCEPT !.points = buildTrackPolyline(@, bounds)]
      BY <1>8, Zenon DEF IsDrawing
    <3> QED BY <3>1, <3>2
  <2> QED BY <2>10, <2>12, <2>13
<1>10. ASSUME NEW id, NEW mark \in drawn.marks, mark.id = id PROVE mark.flag = FlagOf(id, flags)
  <2>1. PICK sector \in Range(track.sectors) :
          mark = [id |-> sector.id, point |-> projectTrackPoint(sector.at, bounds),
                  flag |-> FlagOf(sector.id, flags)]
    BY <1>8, <1>10, Zenon DEF IsDrawing
  <2>2. mark.id = sector.id /\ mark.flag = FlagOf(sector.id, flags)
    BY <2>1
  <2> QED BY <1>10, <2>2
<1>11. ASSUME NEW k \in DOMAIN path
       PROVE  LET drawing == {i \in DOMAIN drawn.segments :
                                Edge(drawn.lap, k) \in Edges(drawn.segments[i].points)}
                  owner == OwnerOf(k, path, sectors)
              IN  /\ Cardinality(drawing) = 1
                  /\ \A i \in drawing : drawn.segments[i].flag = FlagOf(owner, flags)
                  /\ \A mark \in drawn.marks : mark.id = owner => mark.flag = FlagOf(owner, flags)
  <2>1. PICK s \in DOMAIN drawn.segments :
               /\ drawn.segments[s].flag = FlagOf(OwnerOf(k, path, sectors), flags)
               /\ \A t \in DOMAIN drawn.segments :
                    Edge(drawn.lap, k) \in Edges(drawn.segments[t].points) <=> t = s
    BY <1>9, <1>11
  <2>2. PICK drawing : drawing = {i \in DOMAIN drawn.segments :
                                    Edge(drawn.lap, k) \in Edges(drawn.segments[i].points)}
    OBVIOUS
  <2>3. drawing = {s}
    BY <2>1, <2>2
  <2>4. Cardinality(drawing) = 1
    BY <2>3, FS_Singleton
  <2>5. \A i \in drawing : drawn.segments[i].flag = FlagOf(OwnerOf(k, path, sectors), flags)
    BY <2>1, <2>3
  <2> QED BY <1>10, <2>2, <2>4, <2>5, Zenon
<1> QED BY <1>1, <1>2, <1>4, <1>7, <1>11 DEF LapIsColored

(* The map shows every track that telemetry brings as it should.           *)
LEMMA TracksDrawn ==
  EdgesApart => TracksAreDrawn
<1>1. SUFFICES ASSUME EdgesApart, NEW shown \in Tracks
               PROVE  /\ Cardinality(Places(shown.track)) >= 2 => LapIsColored(shown.track, shown.flags)
                      /\ StaysInTheBox(shown.track, shown.flags)
  BY Zenon DEF TracksAreDrawn
<1>2. shown.track \in TrackPayload
  BY TracksAssumption
<1>3. Apart(Drawing(shown.track, shown.flags).lap)
  BY <1>1, Zenon DEF EdgesApart, Apart
<1> QED BY <1>2, <1>3, LapIsShown, DrawingInTheBox, Zenon

THEOREM MapSafety ==
  EdgesApart => (Spec => []MapShowsTheLap)
<1>1. SUFFICES ASSUME EdgesApart PROVE Spec => []MapShowsTheLap
  OBVIOUS
<1>2. MapShowsTheLap
  BY <1>1, TracksDrawn DEF MapShowsTheLap
<1> QED BY <1>2, PTL

=============================================================================
