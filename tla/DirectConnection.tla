-------------------------- MODULE DirectConnection --------------------------
(***************************************************************************)
(* The Telnet or Serial tab (src/app/connection/direct.rs, reconnect.rs):   *)
(* starting a connection, the discovery of serial ports, the monitor of    *)
(* each attempt, automatic reconnection, manual retry, disconnect, close.  *)
(*                                                                         *)
(* Every action is one critical section of the state's lock; what follows  *)
(* an unlock is the next step of a task.  Of a worker (DirectSession) only  *)
(* what the tab can tell is kept: it connects or fails, and ends.  A        *)
(* profile is the number of times it was edited, or Nil once it is gone.   *)
(***************************************************************************)
EXTENDS Naturals, Sequences, Absent

CONSTANTS
    Lines,           \* the protocols of the tab: telnet, serial
    MaxTried,        \* bound: attempts that are made
    MaxChanges,      \* bound: edits of the profile
    MaxAgain,        \* TerminalTabState::MAX_RECONNECT_ATTEMPTS
    MaxCancels       \* bound: disconnects and retries of the user

ASSUME DirectConnectionAssumption ==
    /\ Lines \subseteq {"telnet", "serial"}
    /\ MaxTried \in Nat /\ MaxChanges \in Nat /\ MaxAgain \in Nat /\ MaxCancels \in Nat
    /\ Nil \notin Nat

Tried == 1..MaxTried

VARIABLES
    kindOf,      \* telnet or serial
    saved,       \* the profile in the store
    term,        \* TerminalTabState: attempt, worker, running, connected and the reconnect fields
    duties,      \* tasks between two critical sections (equal ones are one)
    peer,        \* of each attempt: unused, discovering, connecting, live, ended
    told,        \* of each attempt: its worker was asked to stop, or its handle dropped
    mail,        \* of each attempt: the events its monitor has yet to receive
    watcher,     \* of each attempt: its monitor runs
    version      \* of each attempt: the profile it was started with

directVars == <<kindOf, saved, term, duties, peer, told, mail, watcher, version>>
attemptVars == <<peer, told, mail, watcher, version>>

DirectInit ==
    /\ kindOf \in Lines /\ saved = 0
    /\ term = [open |-> TRUE, attempt |-> Nil, worker |-> Nil, running |-> FALSE, connected |-> FALSE,
               enabled |-> FALSE, reconnecting |-> FALSE, tries |-> 0, gen |-> 0]
    /\ duties = {[kind |-> "start", gen |-> Nil, profile |-> 0]}
    /\ peer = [a \in Tried |-> "unused"] /\ told = [a \in Tried |-> FALSE]
    /\ mail = [a \in Tried |-> <<>>] /\ watcher = [a \in Tried |-> FALSE]
    /\ version = [a \in Tried |-> Nil]

Fresh(a) == peer[a] = "unused" /\ \A b \in Tried : b < a => peer[b] # "unused"

Schedules == [kind |-> "schedule", gen |-> Nil, profile |-> Nil]

(* finish_direct_attempt, when the attempt is still the tab's. *)
MatchesAny(a) == term.open
Matches(a) == term.open /\ term.attempt = a
Finished == [term EXCEPT !.reconnecting = FALSE, !.worker = Nil, !.attempt = Nil,
                         !.connected = FALSE, !.running = FALSE]
FinishedTold == IF term.worker = Nil THEN told ELSE [told EXCEPT ![term.worker] = TRUE]

---------------------------------------------------------------------------
(* start_telnet_connection and start_serial_connection, for a profile read  *)
(* in an earlier critical section: on behalf of the user or of a timer,     *)
(* which hears of a refusal.                                                *)
Refused(d) ==
    /\ duties' = (duties \ {d}) \cup
                 IF d.gen = Nil THEN {} ELSE {[kind |-> "refused", gen |-> d.gen, profile |-> Nil]}
    /\ UNCHANGED <<term, attemptVars>>

Accepted(d, a) ==
    /\ term' = [term EXCEPT !.attempt = a, !.enabled = TRUE, !.running = TRUE, !.connected = FALSE,
                            !.worker = IF kindOf = "telnet" THEN a ELSE @]
    /\ duties' = duties \ {d}
    /\ IF kindOf = "telnet"
       THEN /\ peer' = [peer EXCEPT ![a] = "connecting"] /\ watcher' = [watcher EXCEPT ![a] = TRUE]
            /\ version' = [version EXCEPT ![a] = d.profile]
       ELSE /\ peer' = [peer EXCEPT ![a] = "discovering"]
            /\ version' = [version EXCEPT ![a] = d.profile] /\ UNCHANGED watcher
    /\ UNCHANGED <<told, mail>>

MayStart(d) == term.open /\ saved = d.profile /\ term.attempt = Nil /\ term.worker = Nil

StartsDirect(d) ==
    /\ d \in duties /\ d.kind = "start"
    /\ \/ MayStart(d) /\ \E a \in Tried : Fresh(a) /\ Accepted(d, a)
       \/ ~MayStart(d) /\ Refused(d)
    /\ UNCHANGED <<kindOf, saved>>

(* The discovery of serial ports ends, within SERIAL_RESOLVE_TIMEOUT, with  *)
(* a port, with an error, or finds the profile or the attempt changed.      *)
Discovers(a) ==
    /\ peer[a] = "discovering"
    /\ \/ /\ saved = version[a] /\ Matches(a) /\ term.worker = Nil
          /\ term' = [term EXCEPT !.worker = a]
          /\ peer' = [peer EXCEPT ![a] = "connecting"] /\ watcher' = [watcher EXCEPT ![a] = TRUE]
          /\ UNCHANGED duties
       \/ /\ saved # version[a] \/ ~Matches(a) \/ term.worker # Nil
          /\ peer' = [peer EXCEPT ![a] = "ended"]
          /\ term' = IF saved # version[a] /\ Matches(a) THEN Finished ELSE term
          /\ UNCHANGED <<duties, watcher>>
       \/ /\ peer' = [peer EXCEPT ![a] = "ended"]
          /\ IF Matches(a) THEN term' = Finished /\ duties' = duties \cup {Schedules}
             ELSE UNCHANGED <<term, duties>>
          /\ UNCHANGED watcher
    /\ UNCHANGED <<kindOf, saved, told, mail, version>>

(* The worker: it connects, then ends with Disconnected, Failed or, when it *)
(* is aborted, with no event; it always ends when it was told to.           *)
Says(a, event) == mail' = [mail EXCEPT ![a] = Append(@, event)]

PeerConnects(a) ==
    /\ peer[a] = "connecting"
    /\ peer' = [peer EXCEPT ![a] = "live"]
    /\ Says(a, "Connected")
    /\ UNCHANGED <<kindOf, saved, term, duties, told, watcher, version>>

PeerEnds(a) ==
    /\ peer[a] \in {"connecting", "live"}
    /\ peer' = [peer EXCEPT ![a] = "ended"]
    /\ \/ Says(a, "Failed")
       \/ peer[a] = "live" /\ Says(a, "Disconnected")
       \/ told[a] /\ UNCHANGED mail
    /\ UNCHANGED <<kindOf, saved, term, duties, told, watcher, version>>

(* spawn_direct_monitor: events of an attempt that is no longer the tab's   *)
(* change nothing; the end of the channel counts when no event told of it.  *)
Ends(a) ==
    IF Matches(a) THEN term' = Finished /\ told' = FinishedTold /\ duties' = duties \cup {Schedules}
    ELSE UNCHANGED <<term, told, duties>>

WatcherReceives(a) ==
    /\ watcher[a] /\ mail[a] # <<>>
    /\ mail' = [mail EXCEPT ![a] = Tail(@)]
    /\ IF Head(mail[a]) = "Connected"
       THEN /\ term' = IF Matches(a)
                       THEN [term EXCEPT !.connected = TRUE, !.running = TRUE, !.tries = 0,
                                         !.reconnecting = FALSE, !.enabled = TRUE]
                       ELSE term
            /\ UNCHANGED <<told, duties>>
       ELSE Ends(a)
    /\ UNCHANGED <<kindOf, saved, peer, watcher, version>>

WatcherEnds(a) ==
    /\ watcher[a] /\ mail[a] = <<>> /\ peer[a] = "ended"
    /\ watcher' = [watcher EXCEPT ![a] = FALSE]
    /\ Ends(a)
    /\ UNCHANGED <<kindOf, saved, peer, mail, version>>

---------------------------------------------------------------------------
(* Reconnection: schedule_reconnect and its timer. *)

MayBegin == term.enabled /\ ~term.reconnecting /\ term.worker = Nil /\ term.tries < MaxAgain

BeginsReconnect(d) ==
    /\ d \in duties /\ d.kind = "schedule"
    /\ IF term.open /\ MayBegin
       THEN /\ term' = [term EXCEPT !.tries = @ + 1, !.reconnecting = TRUE]
            /\ duties' = (duties \ {d}) \cup {[kind |-> "timer", gen |-> term.gen, profile |-> Nil]}
       ELSE term' = term /\ duties' = duties \ {d}
    /\ UNCHANGED <<kindOf, saved, attemptVars>>

TimerFires(d) ==
    /\ d \in duties /\ d.kind = "timer"
    /\ IF term.open /\ term.enabled /\ term.reconnecting /\ term.gen = d.gen /\ saved # Nil
       THEN /\ duties' = (duties \ {d}) \cup {[kind |-> "start", gen |-> d.gen, profile |-> saved]}
            /\ UNCHANGED term
       ELSE /\ duties' = duties \ {d}
            /\ term' = IF term.open /\ term.gen = d.gen THEN [term EXCEPT !.reconnecting = FALSE] ELSE term
    /\ UNCHANGED <<kindOf, saved, attemptVars>>

(* clear_reconnect_attempt after a refusal, then the next one is scheduled. *)
TimerRefused(d) ==
    /\ d \in duties /\ d.kind = "refused"
    /\ IF term.open /\ term.gen = d.gen
       THEN /\ term' = [term EXCEPT !.reconnecting = FALSE]
            /\ duties' = (duties \ {d}) \cup {Schedules}
       ELSE term' = term /\ duties' = duties \ {d}
    /\ UNCHANGED <<kindOf, saved, attemptVars>>

---------------------------------------------------------------------------
(* The user. *)

(* on_disconnect_session: cancel_reconnect; a tab without a worker (during  *)
(* the discovery of ports) has nothing to disconnect.                       *)
DisconnectDirect ==
    /\ term.open /\ term.gen < MaxCancels
    /\ term' = [term EXCEPT !.gen = @ + 1, !.reconnecting = FALSE, !.enabled = FALSE]
    /\ told' = FinishedTold
    /\ UNCHANGED <<kindOf, saved, duties, peer, mail, watcher, version>>

(* retry_terminal_notice_tab, then resume_existing_connection. *)
RetryDirect ==
    /\ term.open /\ term.gen < MaxCancels /\ term.worker = Nil /\ ~term.running /\ saved # Nil
    /\ term' = [term EXCEPT !.gen = @ + 1, !.tries = 0, !.reconnecting = FALSE, !.enabled = TRUE]
    /\ duties' = duties \cup {[kind |-> "start", gen |-> Nil, profile |-> saved]}
    /\ UNCHANGED <<kindOf, saved, attemptVars>>

(* close_tab: the worker is told to disconnect and goes to the registry. *)
CloseDirect ==
    /\ term.open
    /\ term' = [term EXCEPT !.open = FALSE, !.worker = Nil, !.attempt = Nil, !.running = FALSE,
                            !.connected = FALSE]
    /\ told' = FinishedTold
    /\ UNCHANGED <<kindOf, saved, duties, peer, mail, watcher, version>>

EditProfile ==
    /\ saved # Nil
    /\ saved' \in {Nil} \cup IF saved < MaxChanges THEN {saved + 1} ELSE {}
    /\ UNCHANGED <<kindOf, term, duties, attemptVars>>

DirectTasks ==
    \/ \E d \in duties : StartsDirect(d) \/ BeginsReconnect(d) \/ TimerFires(d) \/ TimerRefused(d)
    \/ \E a \in Tried : Discovers(a) \/ WatcherReceives(a) \/ WatcherEnds(a)

DirectNext ==
    \/ DirectTasks
    \/ \E a \in Tried : PeerConnects(a) \/ PeerEnds(a)
    \/ DisconnectDirect \/ RetryDirect \/ CloseDirect \/ EditProfile

(* Connecting is bounded by CONNECT_TIMEOUT and a worker that was told to   *)
(* stop ends, at the latest when it is aborted; a live one may go on.       *)
BoundedPeers == \E a \in Tried : (peer[a] = "connecting" \/ told[a]) /\ PeerEnds(a)

(* Which attempt the tab stands for is never in doubt: a tab that is        *)
(* connected or connecting has one attempt with a live discovery or an      *)
(* attended worker that will end it, a worker belongs to that attempt, and  *)
(* every other worker that still runs was told to stop - whatever late      *)
(* events, scans, timers and retries do.                                    *)
DirectSound ==
    /\ term.running = (term.attempt # Nil)
    /\ term.worker # Nil => term.worker = term.attempt
    /\ term.connected => term.worker # Nil
    /\ term.attempt # Nil => \/ peer[term.attempt] = "discovering"
                             \/ term.worker = term.attempt /\ watcher[term.attempt]
    /\ \A a \in Tried : peer[a] \in {"connecting", "live"} /\ a # term.worker => told[a]
    /\ term.connected => \E a \in Tried : a = term.worker /\ peer[a] \in {"live", "ended"}

(* An attempt that was begun does not hang: it connects or is given up, and *)
(* whatever runs for a closed tab ends.                                     *)
DirectSettled ==
    /\ term.running => term.connected
    /\ ~term.open => \A a \in Tried : peer[a] \in {"unused", "ended"} /\ ~watcher[a]
=============================================================================
