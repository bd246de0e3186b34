-------------------------- MODULE DirectoryHistory --------------------------
(***************************************************************************)
(* Back and forward history of a directory pane, remote or local           *)
(* (complete_directory_history, push_sftp_history in app/state/sftp.rs).   *)
(* A pane has path, back, fwd and nav: the navigation waiting for an       *)
(* answer, with its kind, the path it leaves and the path it asks for.     *)
(***************************************************************************)
EXTENDS Naturals, Sequences, SequencesExt, Absent

CONSTANTS
  Names,         \* what can be asked for: directories and a link to one
  Resolved,      \* the canonical directory of every name
  Parent,        \* parent of every directory, Nil for the root
  HistoryLimit   \* SFTP_HISTORY_LIMIT

Dirs == {Resolved[n] : n \in Names}

ASSUME HistoryAssumption ==
  /\ \A d \in Dirs : d \in Names /\ Resolved[d] = d /\ Parent[d] \in Dirs \cup {Nil}
  /\ HistoryLimit \in Nat \ {0}

Kinds == {"Direct", "Back", "Forward", "Up"}

\* PendingSftpNavigation.
Navigations == [kind : Kinds, from : Dirs \cup {Nil}, to : Names]

ASSUME HistoryNil == Nil \notin Names /\ Nil \notin Navigations

\* What a navigation asks for; Nil when there is nothing to go to.
Wanted(p, kind, name) ==
  CASE kind = "Direct" -> name
    [] kind = "Back" -> IF p.back = <<>> THEN Nil ELSE Last(p.back)
    [] kind = "Forward" -> IF p.fwd = <<>> THEN Nil ELSE Last(p.fwd)
    [] kind = "Up" -> IF p.path = Nil THEN Nil ELSE Parent[p.path]

\* push_sftp_history.
Push(h, d) ==
  IF d = Nil \/ (h # <<>> /\ Last(h) = d) THEN h
  ELSE Append(IF Len(h) >= HistoryLimit THEN Tail(h) ELSE h, d)

\* A bug: going back does not take the directory off the history.
BackKeeping(p) == [p EXCEPT !.fwd = Push(@, p.nav.from)]

GoBack(p) == [p EXCEPT !.back = Front(@), !.fwd = Push(p.fwd, p.nav.from)]
GoForward(p) == [p EXCEPT !.fwd = Front(@), !.back = Push(p.back, p.nav.from)]

\* complete_directory_history, for the directory that was listed.
CompleteHistory(p, path) ==
  IF p.nav = Nil THEN p
  ELSE CASE p.nav.kind \in {"Direct", "Up"} /\ p.nav.from # path ->
              [p EXCEPT !.back = Push(@, p.nav.from), !.fwd = <<>>]
         [] p.nav.kind = "Back" /\ p.back # <<>> /\ Last(p.back) = p.nav.to -> GoBack(p)
         [] p.nav.kind = "Forward" /\ p.fwd # <<>> /\ Last(p.fwd) = p.nav.to -> GoForward(p)
         [] OTHER -> p

\* The directories visited, as one line.
Timeline(p) == p.back \o <<p.path>> \o Reverse(p.fwd)

\* A pane that went back or forward: the directory was reached and is another one.
Retraced(p, q) ==
  p.nav # Nil /\ p.nav.kind \in {"Back", "Forward"} /\ q.nav = Nil /\ q.path \notin {Nil, p.path}
=============================================================================
