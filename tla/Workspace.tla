---- MODULE Workspace ----
(***************************************************************************)
(* The workspace: the tabs of the application (src/app/state/tabs.rs), the *)
(* windows that show them and the panes they are split into                *)
(* (src/app/window_router.rs, panes.rs, window_bridge.rs).                 *)
(*                                                                         *)
(* Tabs belong to AppState; the window router keeps, under a lock of its   *)
(* own, which tabs a detached window owns, the tab each window shows and   *)
(* the pane trees, keyed by the tab that stands for the tree in the strip. *)
(* The router's lock is taken with and without the state's lock, so        *)
(* closing a workspace tab, which changes the router first and the tabs    *)
(* afterwards, is two steps when a session's monitor does it.              *)
(*                                                                         *)
(* Order is left out: tabs, the tabs of a window and the leaves of a pane  *)
(* tree are sets, and what the code takes as the next, last or first of    *)
(* them is any of them; so is the pane that has the focus in a tree.       *)
(***************************************************************************)
EXTENDS Naturals, FiniteSets, Absent

CONSTANTS
    Tabs,          \* identifiers of tabs, 1..n (bound)
    Main,          \* the main window
    Detached,      \* identifiers of detached windows (bound)
    Opened,        \* what the user opens from the main window: ssh, local, sftp, page
    MaxPanes       \* MAX_TERMINAL_PANES

ASSUME WorkspaceAssumption ==
    /\ IsFiniteSet(Tabs) /\ Tabs = 1..Cardinality(Tabs)
    /\ Main \notin Detached /\ Nil \notin Tabs /\ Nil \notin {"ssh", "local", "sftp", "page"}
    /\ Opened \subseteq {"ssh", "local", "sftp", "page"}
    /\ MaxPanes \in Nat \ {0}

Windows == {Main} \cup Detached

VARIABLES
    kind,          \* of every open tab: ssh, local, sftp or page; Nil when not open
    companion,     \* WorkspaceTab::companion_tab_id
    active,        \* AppState::active_tab_id
    live,          \* the windows that have a route
    owned,         \* WorkspaceTransfer::tab_ids of a detached window
    wanted,        \* WorkspaceTransfer::active_tab_id
    shown,         \* WindowRoute::active_tab_id
    trees,         \* WindowRoute::pane_trees: the leaves of the tree of a tab, {} when none
    pending,       \* the tab of a detach that has begun
    closing,       \* tabs a monitor took out of the router and has yet to close
    refreshed,     \* the views were rebuilt since the last change
    used           \* how many identifiers were given out

tabVars == <<kind, companion, active>>
routeVars == <<live, owned, wanted, shown, trees>>
workspaceVars == <<tabVars, routeVars, pending, closing, refreshed, used>>

Open == {t \in Tabs : kind[t] # Nil}
Terminal(t) == kind[t] \in {"ssh", "local"}
Roots(w) == {r \in Tabs : trees[w][r] # {}}
Leaves(w) == UNION {trees[w][r] : r \in Roots(w)}
RootsOf(w, t) == {r \in Roots(w) : t \in trees[w][r]}

(* hidden_pane_ids: panes other than the one that stands for its tree. *)
Hidden(w) == UNION {trees[w][r] \ {r} : r \in Roots(w)}

(* route_tab_ids: the tabs in a window's strip. *)
Strip(w) ==
    (IF w = Main THEN Open \ UNION {owned[d] : d \in live \ {Main}} ELSE owned[w] \cap Open)
    \ Hidden(w)

Stands(w, t) == IF RootsOf(w, t) = {} THEN {t} ELSE RootsOf(w, t)

Unlocked(w) == w \in live /\ (w = Main => pending = Nil)

NoTree == [t \in Tabs |-> {}]

WorkspaceInit ==
    /\ kind = [t \in Tabs |-> Nil] /\ companion = [t \in Tabs |-> Nil] /\ active = Nil
    /\ live = {Main}
    /\ owned = [w \in Windows |-> {}] /\ wanted = [w \in Windows |-> Nil]
    /\ shown = [w \in Windows |-> Nil] /\ trees = [w \in Windows |-> NoTree]
    /\ pending = Nil /\ closing = {} /\ refreshed = TRUE /\ used = 0

(* Uuid::new_v4: identifiers are given out in order. *)
IsFresh(t) == t \in Tabs /\ t = used + 1

(* Router helpers, as functions of the trees they change. *)
Grown(forest, w, r, new) == [forest EXCEPT ![w][r] = @ \cup new]
Rooted(forest, w, t, isTerminal) ==
    IF isTerminal /\ forest[w][t] = {} THEN Grown(forest, w, t, {t}) ELSE forest
AnyLeaf(w, r) == IF trees[w][r] = {} THEN {r} ELSE trees[w][r]

Linked(a, b) == [companion EXCEPT ![a] = b, ![b] = a]
Unlinked(gone) == [t \in Tabs |-> IF t \in gone \/ companion[t] \in gone THEN Nil ELSE companion[t]]

(* close_tab: another tab becomes the active one. *)
Closes(gone) ==
    /\ kind' = [t \in Tabs |-> IF t \in gone THEN Nil ELSE kind[t]]
    /\ companion' = Unlinked(gone)
    /\ LET rest == Open \ gone IN
         active' \in IF active \notin gone THEN {active} ELSE IF rest = {} THEN {Nil} ELSE rest

(* open_settings_tab, open_session_editor_tab and activate_tab of the page: *)
(* one page; a window that may not show it leaves it to the main window.    *)
OpenPage(w) ==
    /\ "page" \in Opened /\ Unlocked(w)
    /\ \E t \in Tabs :
         /\ IF \E p \in Open : kind[p] = "page" THEN kind[t] = "page" ELSE IsFresh(t)
         /\ kind' = [kind EXCEPT ![t] = "page"] /\ used' = IF IsFresh(t) THEN t ELSE used
         /\ active' = t
         /\ shown' = IF w = Main THEN [shown EXCEPT ![Main] = t] ELSE shown
    /\ refreshed' = FALSE
    /\ UNCHANGED <<companion, live, owned, wanted, trees, pending, closing>>

(* request_profile_connection and start_local_shell from the main window:   *)
(* the tab is opened, then shown; a tab that may not be shown is closed     *)
(* again, which leaves another tab active.                                  *)
OpenSession(k) ==
    /\ \E t \in Tabs :
         /\ IsFresh(t) /\ used' = t
         /\ \/ /\ Unlocked(Main)
               /\ kind' = [kind EXCEPT ![t] = k]
               /\ active' = t
               /\ shown' = [shown EXCEPT ![Main] = t]
               /\ trees' = Rooted(trees, Main, t, k # "sftp")
            \/ /\ ~Unlocked(Main)
               /\ active' \in IF Open = {} THEN {Nil} ELSE Open
               /\ UNCHANGED <<kind, shown, trees>>
    /\ refreshed' = FALSE
    /\ UNCHANGED <<companion, live, owned, wanted, pending, closing>>

(* switch_ssh_sftp_tab, once the views are up to date: to the companion of  *)
(* the focused tab, when it has one (set_active) ...                        *)
SwitchToCompanion(w) ==
    /\ Unlocked(w) /\ refreshed /\ shown[w] # Nil
    /\ \E a \in AnyLeaf(w, shown[w]) \cap Open :
         /\ companion[a] # Nil
         /\ active' = companion[a]
         /\ \E r \in Stands(w, companion[a]) : shown' = [shown EXCEPT ![w] = r]
    /\ refreshed' = FALSE
    /\ UNCHANGED <<kind, companion, live, owned, wanted, trees, pending, closing, used>>

(* ... or to a new one, connected beside it: insert_connection_tab,         *)
(* include_tab and activate_tab.                                            *)
IncludesNone(w, t) == owned
Includes(w, t) == IF w = Main THEN owned ELSE [owned EXCEPT ![w] = @ \cup {t}]

SwitchToNew(w) ==
    /\ Unlocked(w) /\ refreshed /\ shown[w] # Nil
    /\ \E a \in AnyLeaf(w, shown[w]) \cap Open, t \in Tabs :
         /\ kind[a] \in {"ssh", "sftp"} /\ companion[a] = Nil
         /\ IsFresh(t) /\ used' = t
         /\ owned' = Includes(w, t)
         /\ kind' = [kind EXCEPT ![t] = IF kind[a] = "ssh" THEN "sftp" ELSE "ssh"]
         /\ companion' = Linked(a, t)
         /\ active' = t
         /\ shown' = [shown EXCEPT ![w] = t]
         /\ trees' = Rooted(trees, w, t, kind[a] = "sftp")
    /\ refreshed' = FALSE
    /\ UNCHANGED <<live, wanted, pending, closing>>

(* activate_tab and cycle_tab. *)
Activate(w, t) ==
    /\ Unlocked(w) /\ t \in Strip(w)
    /\ shown' = [shown EXCEPT ![w] = t]
    /\ trees' = Rooted(trees, w, t, Terminal(t))
    /\ active' \in AnyLeaf(w, t)
    /\ refreshed' = FALSE
    /\ UNCHANGED <<kind, companion, live, owned, wanted, pending, closing, used>>

(* focus_terminal_pane and focus_pane_direction. *)
FocusPane(w, r, t) ==
    /\ Unlocked(w) /\ t \in trees[w][r] /\ t \in Open
    /\ shown' = [shown EXCEPT ![w] = r]
    /\ active' = t
    /\ refreshed' = FALSE
    /\ UNCHANGED <<kind, companion, live, owned, wanted, trees, pending, closing, used>>

(* prepare_pane_split, the new session and complete_pane_split. *)
SplitPane(w, r, source) ==
    /\ Unlocked(w) /\ source \in trees[w][r] /\ source \in Open
    /\ Cardinality(trees[w][r]) < MaxPanes
    /\ \E t \in Tabs :
         /\ IsFresh(t) /\ used' = t
         /\ kind' = [kind EXCEPT ![t] = kind[source]]
         /\ trees' = Grown(trees, w, r, {t})
         /\ owned' = Includes(w, t)
         /\ shown' = [shown EXCEPT ![w] = r]
         /\ active' = t
    /\ refreshed' = FALSE
    /\ UNCHANGED <<companion, live, wanted, pending, closing>>

(* remove_terminal_child_pane, by the user or when the pane's session ends; *)
(* under the state's lock throughout.                                       *)
ClosePane(w, r, t) ==
    /\ w \in live /\ t \in trees[w][r] \ {r} /\ t \in Open
    /\ trees' = [trees EXCEPT ![w][r] = @ \ {t}]
    /\ owned' = [owned EXCEPT ![w] = @ \ {t}]
    /\ \E survivor \in trees[w][r] \ {t} :
         /\ wanted' = IF wanted[w] = t THEN [wanted EXCEPT ![w] = survivor] ELSE wanted
         /\ active' \in IF active # t THEN {active}
                        ELSE IF survivor \in Open THEN {survivor} ELSE (Open \ {t}) \cup {Nil}
    /\ shown' = IF shown[w] = t THEN [shown EXCEPT ![w] = r] ELSE shown
    /\ kind' = [kind EXCEPT ![t] = Nil]
    /\ companion' = Unlinked({t})
    /\ refreshed' = FALSE
    /\ UNCHANGED <<live, pending, closing, used>>

(* take_workspace_tab_ids: the tree a tab stands for leaves the router. *)
Taken(t) == IF \E w \in live : RootsOf(w, t) # {}
            THEN UNION {UNION {trees[w][r] : r \in RootsOf(w, t)} : w \in live}
            ELSE {t}
TakesOut(t) ==
    LET roots == UNION {RootsOf(w, t) : w \in live}
        stood == IF roots = {} THEN {t} ELSE roots IN
    /\ trees' = [w \in Windows |-> [r \in Tabs |-> IF t \in trees[w][r] THEN {} ELSE trees[w][r]]]
    /\ owned' = [w \in Windows |-> owned[w] \ Taken(t)]
    /\ shown' = [w \in Windows |-> IF shown[w] \in stood THEN Nil ELSE shown[w]]
    /\ UNCHANGED <<live, wanted>>

MayClose(t) ==
    /\ t \in Open /\ \A w \in live : t \notin Hidden(w)
    /\ \/ Terminal(t)
       \/ \E w \in live : Unlocked(w) /\ t \in Strip(w)

(* close_workspace_tab, uninterrupted: on the user interface thread, or by  *)
(* a monitor whose session ended.                                           *)
CloseTab(t) ==
    /\ MayClose(t)
    /\ TakesOut(t)
    /\ Closes(Taken(t))
    /\ refreshed' = FALSE
    /\ UNCHANGED <<pending, closing, used>>

(* The same by a monitor, in the two steps its two locks make of it when    *)
(* the user interface thread gets in between.                               *)
MonitorTakes(t) ==
    /\ closing = {}
    /\ t \in Open /\ Terminal(t) /\ \A w \in live : t \notin Hidden(w)
    /\ TakesOut(t)
    /\ closing' = Taken(t)
    /\ UNCHANGED <<tabVars, pending, refreshed, used>>

MonitorCloses ==
    /\ closing # {}
    /\ Closes(closing \cap Open)
    /\ closing' = {}
    /\ refreshed' = FALSE
    /\ UNCHANGED <<routeVars, pending, used>>

(* The session editor closes its own tab when a profile is saved or         *)
(* deleted, without the router (close_tab only).                            *)
EditorCloses(t) ==
    /\ kind[t] = "page"
    /\ Closes({t})
    /\ refreshed' = FALSE
    /\ UNCHANGED <<routeVars, pending, closing, used>>

(* views: what each window shows after a full refresh. *)
Candidates(w) ==
    LET strip == Strip(w)
        Of(t) == IF t = Nil THEN {} ELSE Stands(w, t) \cap strip IN
    IF shown[w] \in strip THEN {shown[w]}
    ELSE IF w # Main /\ Of(wanted[w]) # {} THEN Of(wanted[w])
    ELSE IF w = Main /\ Of(active) # {} THEN Of(active)
    ELSE IF strip = {} THEN {Nil} ELSE strip

Refresh ==
    /\ refreshed => closing # {}
    /\ \E pick \in [live -> UNION {Candidates(w) : w \in live}] :
         /\ \A w \in live : pick[w] \in Candidates(w)
         /\ shown' = [w \in Windows |-> IF w \in live THEN pick[w] ELSE shown[w]]
         /\ trees' = [w \in Windows |->
                        IF w \in live /\ pick[w] # Nil
                        THEN [r \in Tabs |-> IF r = pick[w] /\ Terminal(r) /\ trees[w][r] = {}
                                             THEN {r} ELSE trees[w][r]]
                        ELSE trees[w]]
    /\ refreshed' = TRUE
    /\ UNCHANGED <<tabVars, live, owned, wanted, pending, closing, used>>

(* on_detach_workspace: the window is created in a later turn of the loop. *)
BeginDetach(t) ==
    /\ Unlocked(Main) /\ t \in Strip(Main)
    /\ pending' = t
    /\ UNCHANGED <<tabVars, routeVars, closing, refreshed, used>>

DetachFails ==
    /\ pending # Nil
    /\ pending' = Nil
    /\ UNCHANGED <<tabVars, routeVars, closing, refreshed, used>>

(* The terminal a detach takes along: the tab, or the terminal companion of *)
(* an SFTP tab.                                                             *)
Anchor(t) == IF companion[t] # Nil /\ Terminal(companion[t]) THEN companion[t]
             ELSE IF Terminal(t) THEN t ELSE Nil

(* take_pane_tree_for_detach. *)
Uprooted(forest, w, roots) == [forest EXCEPT ![w] = [r \in Tabs |-> IF r \in roots THEN {} ELSE @[r]]]

(* The timer's callback: the whole tree with the companions of its panes    *)
(* moves to a window of its own (workspace_transfer_for_terminal_panes,     *)
(* workspace_transfer_for_sftp, register_detached).  A window that cannot   *)
(* be shown gives them back at once, as CloseWindow does.                   *)
FinishDetach(d) ==
    /\ pending # Nil /\ d \in Detached \ live
    /\ pending \in Strip(Main)
    /\ LET anchor == Anchor(pending)
           roots == IF anchor = Nil THEN {} ELSE RootsOf(Main, anchor)
           panes == IF roots = {} THEN {anchor} \ {Nil} ELSE UNION {trees[Main][r] : r \in roots}
       IN /\ panes # {} \/ kind[pending] = "sftp"
          /\ \A p \in panes : p \in Open /\ Terminal(p)
          /\ owned' = [owned EXCEPT ![d] = IF panes = {} THEN {pending}
                         ELSE panes \cup ({companion[p] : p \in panes} \ {Nil})]
          /\ trees' = [Uprooted(trees, Main, roots) EXCEPT
                         ![d] = [r \in Tabs |-> IF r \in roots THEN trees[Main][r] ELSE {}]]
    /\ live' = live \cup {d}
    /\ wanted' = [wanted EXCEPT ![d] = pending]
    /\ shown' = [shown EXCEPT ![d] = pending]
    /\ active' = pending
    /\ pending' = Nil
    /\ refreshed' = FALSE
    /\ UNCHANGED <<kind, companion, closing, used>>

(* remove_detached and restore_detached, when the workspace is returned or  *)
(* its window closed: the route keeps one of its pane trees.                *)
GivesBack(d, current) ==
    \E kept \in IF Roots(d) = {} THEN {{}} ELSE {{r} : r \in Roots(d)} :
      LET back == {r \in kept : current \in trees[d][r]}
          root == IF back = {} THEN {current} ELSE back IN
      /\ \E r \in root :
           /\ shown' = [shown EXCEPT ![Main] = r, ![d] = Nil]
           /\ active' \in LET focus == IF r \in kept THEN trees[d][r]
                                      ELSE IF r = Nil THEN {} ELSE AnyLeaf(Main, r)
                         IN IF focus \cap Open = {} THEN {active} ELSE focus \cap Open
      /\ trees' = [trees EXCEPT ![Main] = [r \in Tabs |-> IF r \in kept THEN trees[d][r] ELSE @[r]],
                                ![d] = NoTree]
      /\ live' = live \ {d}
      /\ owned' = [owned EXCEPT ![d] = {}]
      /\ wanted' = [wanted EXCEPT ![d] = Nil]
      /\ refreshed' = FALSE
      /\ UNCHANGED <<kind, companion, pending, closing, used>>

Return(d, t) == d \in Detached /\ Unlocked(d) /\ t \in Strip(d) /\ GivesBack(d, t)
CloseWindow(d) ==
    d \in live \ {Main} /\ GivesBack(d, IF shown[d] # Nil THEN shown[d] ELSE wanted[d])

(* WorkspaceSnapshot::validate of the snapshot of the workspace (snapshot): *)
(* every reference is to an open tab of the same window.  The main window   *)
(* lists every tab.                                                         *)
Listed(w) == IF w = Main THEN Open ELSE owned[w]
Valid ==
    /\ active \in Open \cup {Nil}
    /\ \A t \in Open : companion[t] \in Open \cup {Nil}
    /\ \A w \in live : /\ Listed(w) \subseteq Open
                       /\ shown[w] \in Listed(w) \cup {Nil}
                       /\ Leaves(w) \subseteq Listed(w)

(* A pane tree comes back under its first leaf, which may be another one    *)
(* than the tab it stood under.                                             *)
Replanted(tree, root, head) == IF head \in tree THEN head ELSE root

(* restore_workspace_tabs, apply_snapshot and restore_detached_workspaces:  *)
(* the application restarts, or opens a workspace file, with the snapshot   *)
(* of this workspace.  Tabs of a profile that no longer exists are dropped, *)
(* and pane trees with one of them; a detached window gets its first pane   *)
(* tree back, or is not recreated and leaves its tabs to the main window.   *)
Restores(lost, recreated, head) ==
    LET here == Open \ lost
        Whole(tree) == tree # {} /\ tree \subseteq here
        Forest(w, roots) ==
            [t \in Tabs |-> UNION {trees[w][r] : r \in {q \in roots :
                                     Whole(trees[w][q]) /\ Replanted(trees[w][q], q, head) = t}}]
        First(w) == {r \in Roots(w) : \A q \in Roots(w) : r <= q}
        back == {w \in recreated : /\ owned[w] \cap here # {}
                                   /\ \A r \in First(w) : Whole(trees[w][r])}
    IN /\ closing = {} /\ Valid
       /\ kind' = [t \in Tabs |-> IF t \in here THEN kind[t] ELSE Nil]
       /\ companion' = Unlinked(lost)
       /\ active' \in IF active \in here THEN {active} ELSE IF here = {} THEN {Nil} ELSE here
       /\ live' = {Main} \cup back
       /\ owned' = [w \in Windows |-> IF w \in back THEN owned[w] \cap here ELSE {}]
       /\ \E pick \in (UNION {owned[w] \cap here : w \in back}) \cup {Nil} :
            LET restored == [w \in Windows |->
                      IF w = Main THEN shown[Main]
                      ELSE IF w \notin back THEN Nil
                      ELSE IF shown[w] \in owned[w] \cap here THEN shown[w] ELSE pick]
            IN /\ \A w \in back : restored[w] \in owned[w]
               /\ shown' = restored
               /\ wanted' = [restored EXCEPT ![Main] = Nil]
       /\ trees' = [w \in Windows |-> IF w = Main THEN Forest(Main, Roots(Main))
                                      ELSE IF w \in back THEN Forest(w, First(w)) ELSE NoTree]
       /\ pending' = Nil
       /\ refreshed' = FALSE
       /\ UNCHANGED <<closing, used>>

(* One departure from the snapshot at a time: the profiles are gone, a pane *)
(* tree comes back under another of its leaves, or no window is recreated.  *)
Restorable == UNION {Hidden(w) : w \in live}

Profiled == {t \in Open : kind[t] \in {"ssh", "sftp"}}

WorkspaceNext ==
    \/ \E w \in live : OpenPage(w) \/ SwitchToCompanion(w) \/ SwitchToNew(w)
    \/ \E k \in Opened \ {"page"} : OpenSession(k)
    \/ \E w \in live : \E t \in Strip(w) : Activate(w, t)
    \/ \E w \in live : \E r \in Roots(w) : \E t \in trees[w][r] :
         FocusPane(w, r, t) \/ SplitPane(w, r, t) \/ ClosePane(w, r, t)
    \/ \E t \in Open : CloseTab(t) \/ EditorCloses(t) \/ BeginDetach(t)
    \/ Refresh \/ DetachFails
    \/ \E d \in Detached : FinishDetach(d) \/ CloseWindow(d) \/ \E t \in owned[d] : Return(d, t)
    \/ \E lost \in {{}, Profiled} : Restores(lost, live \ {Main}, 0)
    \/ \E head \in Restorable : Restores({}, live \ {Main}, head)
    \/ live # {Main} /\ Restores({}, {}, 0)

(* With the monitors' closes interrupted. *)
InterruptedNext == WorkspaceNext \/ MonitorCloses \/ \E t \in Tabs : MonitorTakes(t)

(* The places where the user finds a tab: in the strip of a window, or as a *)
(* pane of a tree whose tab is in the strip of the same window.             *)
Places(t) ==
    {<<w, t>> : w \in {v \in live : t \in Strip(v)}} \cup
    UNION {{<<w, r>> : r \in (RootsOf(w, t) \cap Strip(w)) \ {t}} : w \in live}

(* Whatever is opened, split, moved between windows, closed or restored,    *)
(* every open tab is found in exactly one place, a terminal and its SFTP    *)
(* companion are companions of each other and in the same window, and once  *)
(* the views are rebuilt the workspace can be saved and loaded again.       *)
WorkspaceWhole ==
    /\ \A t \in Open : Cardinality(Places(t)) = 1
    /\ \A t \in Open : companion[t] # Nil =>
         /\ companion[companion[t]] = t
         /\ {kind[t], kind[companion[t]]} = {"ssh", "sftp"}
         /\ \A p \in Places(t), q \in Places(companion[t]) : p[1] = q[1]
    /\ refreshed => Valid

(* "owns one volatile PaneTree per visible Terminal Tab" (architecture.md)  *)
(* and checkpoints that fail are "retried on a later checkpoint": with no   *)
(* close under way and the views rebuilt, the workspace can be saved.       *)
SnapshotStaysValid == refreshed /\ closing = {} => Valid
====
