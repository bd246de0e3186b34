---- MODULE UiRefresh ----
(***************************************************************************)
(* The batching of user interface refreshes (src/app/state/tabs/refresh.rs *)
(* and src/app/view/workspace.rs).                                         *)
(*                                                                         *)
(* Worker threads and handlers change the application state, release its   *)
(* lock and ask for a refresh in a second step; requests made while one is *)
(* pending are merged into it, and the user interface thread takes the     *)
(* whole batch at once, builds the views from the state and applies them   *)
(* without the lock.  Two generations are only ever compared for equality, *)
(* so "generation" is kept as newer: it has moved since the batch in       *)
(* progress was taken.  Views are abstracted to what lags behind: stale is *)
(* the set of items whose display is older than the state.                 *)
(***************************************************************************)
EXTENDS Naturals

CONSTANTS
    Screens,       \* terminals that are shown
    MaxScheduled   \* bound: callbacks waiting in the event loop

ASSUME ScheduledAssumption == MaxScheduled \in Nat \ {0}

Layout == "layout"     \* everything a full refresh rebuilds besides the terminals
Badges == "tabs"       \* the Tab summaries (latency telemetry)
Items == Screens \cup {Layout, Badges}

VARIABLES
    stale,        \* items whose display lags behind the state
    owed,         \* items changed by a thread that has yet to ask for a refresh
    full,         \* UiRefreshState::full
    badges,       \* UiRefreshState::tabs
    screens,      \* UiRefreshState::terminal_ids
    asked,        \* UiRefreshState::pending
    inProgress,   \* UiRefreshState::in_progress
    newer,        \* the generation has moved since the batch was taken
    scheduled,    \* callbacks handed to the event loop and not yet run
    looping       \* the event loop runs

refreshVars == <<stale, owed, full, badges, screens, asked, inProgress,
                 newer, scheduled, looping>>
requestVars == <<full, badges, screens, asked, inProgress, newer>>

RefreshInit ==
    /\ stale = {} /\ owed = {}
    /\ full = FALSE /\ badges = FALSE /\ screens = {}
    /\ asked = FALSE /\ inProgress = FALSE /\ newer = FALSE
    /\ scheduled = 0 /\ looping = TRUE

(* A thread changes the state of x under the lock; its request follows. *)
Changes(x) ==
    /\ x \notin owed
    /\ stale' = stale \cup {x}
    /\ owed' = owed \cup {x}
    /\ UNCHANGED <<requestVars, scheduled, looping>>

(* request_ui_refresh: record what was asked for. *)
Recorded(x) ==
    /\ full' = (full \/ x = Layout)
    /\ badges' = (badges \/ x = Badges)
    /\ screens' = IF x = Layout THEN {}
                  ELSE IF x \in Screens /\ ~full THEN screens \cup {x} ELSE screens

(* A request that follows the batch already taken moves the generation,   *)
(* so the callback in progress will ask for one follow-up.                *)
CoalescesSilently == newer' = newer
Coalesces == newer' = (newer \/ inProgress)

(* refresh_workspace_multi_window: the first request schedules a callback; *)
(* scheduling fails once the event loop has ended and cancels the batch.   *)
Requests(x) ==
    /\ x \in owed
    /\ owed' = owed \ {x}
    /\ \/ /\ asked
          /\ Recorded(x)
          /\ Coalesces
          /\ UNCHANGED <<asked, inProgress, scheduled>>
       \/ /\ ~asked /\ looping
          /\ scheduled < MaxScheduled
          /\ Recorded(x)
          /\ asked' = TRUE
          /\ scheduled' = scheduled + 1
          /\ UNCHANGED <<inProgress, newer>>
       \/ /\ ~asked /\ ~looping
          /\ full' = FALSE /\ badges' = FALSE /\ screens' = {}
          /\ asked' = FALSE /\ inProgress' = FALSE /\ newer' = FALSE
          /\ UNCHANGED scheduled
    /\ UNCHANGED <<stale, looping>>

(* What the batch covers: a full one rebuilds every view (views), others   *)
(* the Tab summaries (tab_views) and the terminals asked for.              *)
Covered == IF full THEN Items
           ELSE (IF badges THEN {Badges} ELSE {}) \cup screens

(* take_ui_refresh_batch and the views built under the same lock.  The     *)
(* callback of a cancelled or already served request finds nothing to do.  *)
TakesBatch ==
    /\ looping /\ scheduled > 0 /\ ~inProgress
    /\ scheduled' = scheduled - 1
    /\ \/ /\ asked
          /\ inProgress' = TRUE /\ newer' = FALSE
          /\ stale' = stale \ Covered
          /\ full' = FALSE /\ badges' = FALSE /\ screens' = {}
       \/ /\ ~asked
          /\ UNCHANGED <<stale, full, badges, screens, inProgress, newer>>
    /\ UNCHANGED <<owed, asked, looping>>

(* finish_ui_refresh once the views are applied, and the follow-up. *)
FinishesBatch ==
    /\ inProgress
    /\ inProgress' = FALSE
    /\ asked' = newer
    /\ newer' = FALSE
    /\ scheduled' = IF newer THEN scheduled + 1 ELSE scheduled
    /\ UNCHANGED <<stale, owed, full, badges, screens, looping>>

(* restore_workspace_tabs, on the user interface thread: a replaced        *)
(* workspace drops what was asked for the old one; the handler asks for a  *)
(* full refresh when it ends.                                              *)
Replaces ==
    /\ looping /\ ~inProgress
    /\ full' = FALSE /\ badges' = FALSE /\ screens' = {}
    /\ asked' = FALSE /\ newer' = FALSE
    /\ stale' = Items
    /\ owed' = owed \cup {Layout}
    /\ UNCHANGED <<inProgress, scheduled, looping>>

(* slint::quit_event_loop: waiting callbacks are never run. *)
LoopEnds ==
    /\ looping /\ ~inProgress
    /\ looping' = FALSE
    /\ UNCHANGED <<stale, owed, requestVars, scheduled>>

RefreshNext ==
    \/ \E x \in Items : Changes(x) \/ Requests(x)
    \/ TakesBatch \/ FinishesBatch \/ Replaces \/ LoopEnds

(* No change is forgotten: while the event loop runs, whatever the display *)
(* lags behind on is still to be asked for, or is in the next batch, and   *)
(* that batch has a callback waiting for it or follows the one in progress.*)
NothingForgotten ==
    looping => \A x \in stale :
        \/ x \in owed \/ Layout \in owed
        \/ /\ x \in Covered /\ asked
           /\ IF inProgress THEN newer ELSE scheduled > 0
====
