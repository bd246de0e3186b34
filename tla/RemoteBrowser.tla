---------------------------- MODULE RemoteBrowser ----------------------------
(***************************************************************************)
(* The remote directory pane of an SFTP tab: SftpBrowserState of           *)
(* app/state/sftp.rs, the browser task of src/sftp.rs, the part of         *)
(* run_sftp_session that owns and reopens it, and the connection monitor   *)
(* that applies its events. The channels are never full here: a full one   *)
(* only makes its sender wait.                                             *)
(***************************************************************************)
EXTENDS DirectoryHistory

CONSTANTS
  MaxReopen,    \* MAX_BROWSER_REOPEN_ATTEMPTS
  Budgets       \* bounds on the user's requests, on channels and transports lost and on
                \* remote changes made by this tab: a behaviour has one of these

ASSUME BrowserAssumption == Nil \notin Nat

VARIABLES
  pane,      \* the tab's SftpBrowserState
  inbox,     \* directory commands of the worker
  browser,   \* the browser task
  pipe,      \* browser_events
  session,   \* the worker: up, reopening, attempts, browser_path
  feed,      \* the worker's events
  remoteFs,  \* version of every remote directory
  writing,   \* a write that changed a directory and is not reported yet
  budget,    \* what is left of the bounds
  crossed    \* a request given before the browser was reopened reached the new one

paneVars == <<pane, inbox, browser, pipe, session, feed, remoteFs, writing, budget, crossed>>

NoPane ==
  [open |-> FALSE, path |-> Nil, loading |-> FALSE, id |-> 0, nav |-> Nil, auto |-> Nil,
   shown |-> {}, ver |-> 0, more |-> FALSE, back |-> <<>>, fwd |-> <<>>,
   owed |-> 0,                      \* the newest change noticed in the directory shown
   opens |-> 0]                     \* ghost: the browser of this attempt that opened last
NewBrowser(path, n) == [st |-> "init", cursor |-> path, done |-> FALSE, queue |-> <<>>, n |-> n]
Up(path) == [up |-> TRUE, reopening |-> FALSE, attempts |-> 0, ready |-> FALSE, path |-> path]

PaneInit ==
  /\ pane = NoPane /\ inbox = <<>> /\ pipe = <<>> /\ feed = <<>>
  /\ \E d \in Dirs : browser = NewBrowser(d, 1) /\ session = Up(d)
  /\ remoteFs = [d \in Dirs |-> 0] /\ writing = Nil
  /\ budget \in Budgets /\ crossed = FALSE

----------------------------------------------------------------------------
(* Requests of the pane.                                                   *)

\* begin_navigation.
BeginNavigation(p, kind, to) ==
  [p EXCEPT !.nav = [kind |-> kind, from |-> p.path, to |-> to], !.loading = TRUE, !.id = @ + 1]

\* cancel_navigation.
CancelNavigation(p) == [p EXCEPT !.nav = Nil, !.loading = FALSE]

\* send_remote_directory_request: the command is taken, or refused at once.
Requests(p, kind, to) ==
  LET begun == BeginNavigation(p, kind, to)
  IN  {[pane |-> begun, cmd |-> <<[kind |-> "List", id |-> begun.id, path |-> to, n |-> p.opens]>>],
       [pane |-> [CancelNavigation(begun) EXCEPT !.owed = 0], cmd |-> <<>>]}

\* queue_remote_navigation_for_terminal.
Navigate(kind, name) ==
  /\ session.up /\ ~pane.loading /\ budget.moves > 0
  /\ Wanted(pane, kind, name) # Nil
  /\ \E r \in Requests(pane, kind, Wanted(pane, kind, name)) : pane' = r.pane /\ inbox' = inbox \o r.cmd
  /\ budget' = [budget EXCEPT !.moves = @ - 1]
  /\ UNCHANGED <<browser, pipe, session, feed, remoteFs, writing, crossed>>

\* begin_load_more.
LoadMore ==
  /\ session.up /\ ~pane.loading /\ pane.more /\ budget.moves > 0
  /\ pane' = [pane EXCEPT !.loading = TRUE, !.id = @ + 1]
  /\ inbox' = Append(inbox, [kind |-> "LoadMore", id |-> pane'.id, path |-> Nil, n |-> pane.opens])
  /\ budget' = [budget EXCEPT !.moves = @ - 1]
  /\ UNCHANGED <<browser, pipe, session, feed, remoteFs, writing, crossed>>

----------------------------------------------------------------------------
(* The browser task.                                                       *)

PageOf(id, path, append, more) ==
  [kind |-> "Page", id |-> id, path |-> path, ver |-> remoteFs[path], append |-> append, more |-> more]
FailedOf(id) == [kind |-> "Failed", id |-> id]
\* The handshake; n, a ghost, is the browser that made it.
Opened(n) == [kind |-> "Opened", n |-> n]
Closed == [kind |-> "Closed"]
Dead == [browser EXCEPT !.st = "dead", !.queue = <<>>]

\* The handshake.
BrowserOpens ==
  /\ session.up /\ browser.st = "init"
  /\ browser' = [browser EXCEPT !.st = "first"]
  /\ pipe' = Append(pipe, Opened(browser.n))
  /\ UNCHANGED <<pane, inbox, session, feed, remoteFs, writing, budget, crossed>>

\* The page of the initial directory answers no request.
BrowserFirstPage ==
  /\ session.up /\ browser.st = "first"
  /\ \E more \in BOOLEAN :
       /\ browser' = [browser EXCEPT !.st = "ready", !.done = ~more]
       /\ pipe' = Append(pipe, PageOf(Nil, browser.cursor, FALSE, more))
  /\ UNCHANGED <<pane, inbox, session, feed, remoteFs, writing, budget, crossed>>

\* A bug: the cursor moves before the page was read.
BrowserListsEager ==
  /\ session.up /\ browser.st = "ready" /\ browser.queue # <<>> /\ Head(browser.queue).kind = "List"
  /\ LET c == Head(browser.queue)
     IN  \E more, ok \in BOOLEAN :
           /\ browser' = [browser EXCEPT !.queue = Tail(@), !.cursor = Resolved[c.path], !.done = ~more]
           /\ pipe' = Append(pipe, IF ok THEN PageOf(c.id, Resolved[c.path], FALSE, more) ELSE FailedOf(c.id))
  /\ UNCHANGED <<pane, inbox, session, feed, remoteFs, writing, budget, crossed>>

\* List: the cursor moves only when the page was read.
BrowserLists ==
  /\ session.up /\ browser.st = "ready" /\ browser.queue # <<>> /\ Head(browser.queue).kind = "List"
  /\ LET c == Head(browser.queue)
         left == [browser EXCEPT !.queue = Tail(@)]
     IN  \/ \E more \in BOOLEAN :
              /\ browser' = [left EXCEPT !.cursor = Resolved[c.path], !.done = ~more]
              /\ pipe' = Append(pipe, PageOf(c.id, Resolved[c.path], FALSE, more))
         \/ browser' = left /\ pipe' = Append(pipe, FailedOf(c.id))
  /\ UNCHANGED <<pane, inbox, session, feed, remoteFs, writing, budget, crossed>>

\* A bug: a page that cannot be read is not reported.
BrowserLoadsMoreSilently ==
  /\ session.up /\ browser.st = "ready" /\ browser.queue # <<>> /\ Head(browser.queue).kind = "LoadMore"
  /\ browser' = [browser EXCEPT !.queue = Tail(@)]
  /\ \/ pipe' = Append(pipe, PageOf(Head(browser.queue).id, browser.cursor, TRUE, FALSE))
     \/ UNCHANGED pipe
  /\ UNCHANGED <<pane, inbox, session, feed, remoteFs, writing, budget, crossed>>

BrowserLoadsMore ==
  /\ session.up /\ browser.st = "ready" /\ browser.queue # <<>> /\ Head(browser.queue).kind = "LoadMore"
  /\ LET c == Head(browser.queue)
         left == [browser EXCEPT !.queue = Tail(@)]
     IN  \/ \E more \in BOOLEAN :
              /\ ~browser.done
              /\ browser' = [left EXCEPT !.done = ~more]
              /\ pipe' = Append(pipe, PageOf(c.id, browser.cursor, TRUE, more))
         \/ browser' = left /\ pipe' = Append(pipe, FailedOf(c.id))
  /\ UNCHANGED <<pane, inbox, session, feed, remoteFs, writing, budget, crossed>>

\* The channel closes or a request meets a transport error.
BrowserFails ==
  /\ session.up /\ browser.st \in {"init", "first", "ready"} /\ budget.closes > 0
  /\ browser' = Dead
  /\ pipe' = pipe \o <<FailedOf(Nil), Closed>>
  /\ budget' = [budget EXCEPT !.closes = @ - 1]
  /\ UNCHANGED <<pane, inbox, session, feed, remoteFs, writing, crossed>>

----------------------------------------------------------------------------
(* The loop of run_sftp_session.                                           *)

\* ListSftp and LoadMoreSftp; a browser that ended takes nothing.
LoopCommand ==
  /\ session.up /\ inbox # <<>>
  /\ inbox' = Tail(inbox)
  /\ IF browser.st = "dead"
     THEN feed' = Append(feed, FailedOf(Head(inbox).id)) /\ UNCHANGED <<browser, crossed>>
     ELSE /\ browser' = [browser EXCEPT !.queue = Append(@, Head(inbox))]
          /\ crossed' = (crossed \/ (Head(inbox).kind = "List" /\ Head(inbox).n # browser.n))
          /\ UNCHANGED feed
  /\ UNCHANGED <<pane, pipe, session, remoteFs, writing, budget>>

\* Attempts start again after a browser that was ready for the stability window.
AttemptsAfter(stable) == IF session.ready /\ stable THEN 1 ELSE session.attempts + 1

\* What the loop notes about a browser event it forwards.
Note(e) ==
  IF e.kind = "Page" THEN [session EXCEPT !.path = e.path, !.ready = TRUE] ELSE session

LoopEvent ==
  /\ session.up /\ pipe # <<>> /\ Head(pipe) # Closed
  /\ session' = Note(Head(pipe))
  /\ feed' = Append(feed, Head(pipe)) /\ pipe' = Tail(pipe)
  /\ UNCHANGED <<pane, inbox, browser, remoteFs, writing, budget, crossed>>

\* retire_session_attempt and prepare_for_reconnect.
Retired ==
  /\ session' = [Up(IF pane.path = Nil THEN session.path ELSE pane.path) EXCEPT !.up = FALSE]
  /\ pane' = [NoPane EXCEPT !.id = pane.id + 1]
  /\ browser' = Dead /\ inbox' = <<>> /\ pipe' = <<>> /\ feed' = <<>> /\ writing' = Nil
  /\ crossed' = FALSE

\* Closed: reopened on the same transport, or the session fails.
LoopClosed ==
  /\ session.up /\ pipe # <<>> /\ Head(pipe) = Closed
  /\ \E stable \in BOOLEAN :
       IF AttemptsAfter(stable) > MaxReopen THEN Retired
       ELSE /\ session' = [session EXCEPT !.attempts = AttemptsAfter(stable), !.ready = FALSE, !.reopening = TRUE]
            /\ feed' = Append(feed, Closed) /\ pipe' = Tail(pipe)
            /\ UNCHANGED <<pane, inbox, browser, writing, crossed>>
  /\ UNCHANGED <<remoteFs, budget>>

\* browser_reopen.join_next.
Reopen ==
  /\ session.up /\ session.reopening
  /\ \/ /\ browser' = NewBrowser(session.path, browser.n + 1)
        /\ session' = [session EXCEPT !.reopening = FALSE]
        /\ UNCHANGED <<pane, inbox, pipe, feed, writing, crossed>>
     \/ Retired
  /\ UNCHANGED <<remoteFs, budget>>

\* The transport is lost or the tab disconnected; later a new attempt.
TransportEnds ==
  /\ session.up /\ budget.closes > 0
  /\ Retired
  /\ budget' = [budget EXCEPT !.closes = @ - 1]
  /\ UNCHANGED remoteFs

NewAttempt ==
  /\ ~session.up
  /\ session' = Up(session.path) /\ browser' = NewBrowser(session.path, 1)
  /\ UNCHANGED <<pane, inbox, pipe, feed, remoteFs, writing, budget, crossed>>

\* A write or an upload of this tab changes a directory; its report follows.
WriteHappens(d) ==
  /\ session.up /\ writing = Nil /\ budget.writes > 0
  /\ remoteFs' = [remoteFs EXCEPT ![d] = @ + 1]
  /\ writing' = d
  /\ budget' = [budget EXCEPT !.writes = @ - 1]
  /\ UNCHANGED <<pane, inbox, browser, pipe, session, feed, crossed>>

WriteReported ==
  /\ session.up /\ writing # Nil
  /\ feed' = Append(feed, [kind |-> "Changed", path |-> writing, ver |-> remoteFs[writing]])
  /\ writing' = Nil
  /\ UNCHANGED <<pane, inbox, browser, pipe, session, remoteFs, budget, crossed>>

----------------------------------------------------------------------------
(* The connection monitor.                                                 *)

\* accepts_request.
AcceptsRequest(p, id) == id = Nil \/ id = p.id

\* reset_navigation.
ResetNavigation(p) ==
  [p EXCEPT !.id = @ + 1, !.path = Nil, !.shown = {}, !.ver = 0, !.more = FALSE, !.back = <<>>, !.fwd = <<>>,
            !.nav = Nil, !.auto = Nil, !.owed = 0]

OnClosed(p) == [p EXCEPT !.open = FALSE, !.loading = FALSE, !.more = FALSE, !.owed = 0]

\* apply_sftp_event of a page: complete_navigation, or more of the same directory.
OnPage(p, e) ==
  IF e.append
  THEN [p EXCEPT !.open = TRUE, !.loading = FALSE, !.path = e.path, !.shown = @ \cup {e.path}, !.more = e.more,
                 !.owed = IF e.path = p.path THEN @ ELSE 0]
  ELSE [CompleteHistory(p, e.path) EXCEPT
          !.open = TRUE, !.loading = FALSE, !.nav = Nil, !.path = e.path, !.shown = {e.path}, !.ver = e.ver,
          !.more = e.more, !.owed = IF e.path = p.path THEN @ ELSE 0]

\* apply_sftp_event.
ApplyBrowser(p, e) ==
  CASE e.kind = "Opened" -> [ResetNavigation(p) EXCEPT !.open = TRUE, !.loading = TRUE, !.opens = e.n]
    [] e.kind = "Page" -> IF AcceptsRequest(p, e.id) THEN OnPage(p, e) ELSE p
    [] e.kind = "Failed" -> IF AcceptsRequest(p, e.id) THEN [CancelNavigation(p) EXCEPT !.owed = 0] ELSE p
    [] e.kind = "Closed" -> OnClosed(p)

\* A bug: a change during a listing is left to that listing.
ChangeWhileLoadingDropped(p, d) == p

\* begin_refresh_after_remote_change while a listing is under way.
ChangeWhileLoading(p, d) == [p EXCEPT !.auto = d]

\* begin_pending_auto_refresh.
AutoRefresh(p) ==
  IF p.loading \/ p.auto = Nil THEN {[pane |-> p, cmd |-> <<>>]}
  ELSE IF ~p.open \/ p.path # p.auto THEN {[pane |-> [p EXCEPT !.auto = Nil], cmd |-> <<>>]}
  ELSE Requests([p EXCEPT !.auto = Nil], "Direct", p.path)

\* A change of the directory shown is listed again.
OnChange(p, e) ==
  IF ~p.open \/ p.path # e.path THEN {[pane |-> p, cmd |-> <<>>]}
  ELSE IF p.loading
  THEN {[pane |-> ChangeWhileLoading([p EXCEPT !.owed = e.ver], e.path), cmd |-> <<>>]}
  ELSE Requests([p EXCEPT !.owed = e.ver], "Direct", e.path)

MonitorTakes ==
  /\ session.up /\ feed # <<>>
  /\ LET e == Head(feed)
     IN  /\ \E r \in (IF e.kind = "Changed" THEN OnChange(pane, e) ELSE AutoRefresh(ApplyBrowser(pane, e))) :
              pane' = r.pane /\ inbox' = inbox \o r.cmd
         /\ crossed' = (crossed /\ ~(e.kind = "Page" /\ e.id = pane.id /\ ~e.append))
  /\ feed' = Tail(feed)
  /\ UNCHANGED <<browser, pipe, session, remoteFs, writing, budget>>

----------------------------------------------------------------------------
PaneSystem ==
  \/ BrowserOpens \/ BrowserFirstPage \/ BrowserLists \/ BrowserLoadsMore
  \/ LoopCommand \/ LoopEvent \/ LoopClosed \/ Reopen \/ NewAttempt
  \/ WriteReported \/ MonitorTakes

PaneNext ==
  \/ PaneSystem \/ BrowserFails \/ TransportEnds \/ LoadMore
  \/ \E kind \in Kinds \ {"Direct"} : Navigate(kind, Nil)
  \/ \E name \in Names : Navigate("Direct", name)
  \/ \E d \in Dirs : WriteHappens(d)

----------------------------------------------------------------------------
(* Properties.                                                             *)

\* The rows shown are of the directory named above them: pages of a left directory,
\* of a cancelled request or of an earlier browser never mix in (request ids). A request
\* given while the browser is reopened moves the new browser without the pane; the next
\* page it loads is then of another directory (crossed).
OneDirectoryShown == (pane.shown # {} /\ ~crossed) => pane.shown = {pane.path}

\* Every change this tab noticed in the directory it shows is in the rows once no
\* listing is under way: changes during a listing lead to one more listing.
NoticedChangeShown == (pane.open /\ ~pane.loading) => pane.ver >= pane.owed

\* Going back and forward in the remote pane retraces the directories visited and loses
\* none of them, also when listings fail, change or answer late in between
\* (complete_directory_history).
RemoteTimelineKept == [][Retraced(pane, pane') => Timeline(pane') = Timeline(pane)]_paneVars
=============================================================================
