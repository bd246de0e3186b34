--------------------------- MODULE TerminalProofs ---------------------------
(***************************************************************************)
(* Proofs about the tab of a direct connection (DirectConnection) and the  *)
(* workers behind the terminals (Terminals), for all values of their       *)
(* constants.                                                              *)
(*                                                                         *)
(* DirectConnection's invariant is preserved in one of four ways: a step   *)
(* begins an attempt, attaches a worker to the one that discovers its      *)
(* port, finishes the tab's attempt, or keeps the tab's transport.  Each   *)
(* worker has an inductive invariant of named parts, and one lemma for     *)
(* each action, which shows part by part that the action preserves it.     *)
(***************************************************************************)
EXTENDS DirectConnection, Terminals, FiniteSetTheorems, SequenceTheorems, TLAPS

DirectSpec == DirectInit /\ [][DirectNext]_directVars

TermRec == [open : BOOLEAN, attempt : Tried \cup {Nil}, worker : Tried \cup {Nil},
            running : BOOLEAN, connected : BOOLEAN, enabled : BOOLEAN,
            reconnecting : BOOLEAN, tries : Nat, gen : Nat]
PeerStates == {"unused", "discovering", "connecting", "live", "ended"}
MailEvents == {"Connected", "Failed", "Disconnected"}

DirectTypeOK ==
    /\ term \in TermRec
    /\ peer \in [Tried -> PeerStates]
    /\ told \in [Tried -> BOOLEAN]
    /\ mail \in [Tried -> Seq(MailEvents)]
    /\ watcher \in [Tried -> BOOLEAN]

(* A closed tab has no attempt; a worker is past the discovery of its port; *)
(* an attempt has a monitor only once it has a worker, and its monitor hears *)
(* nothing before the worker is connected.                                  *)
AttemptsInOrder ==
    /\ ~term.open => term.attempt = Nil
    /\ term.worker # Nil => peer[term.worker] \in {"connecting", "live", "ended"}
    /\ \A a \in Tried : peer[a] \in {"unused", "discovering"} => ~watcher[a]
    /\ \A a \in Tried : peer[a] \notin {"live", "ended"} => mail[a] = <<>>

DirectInv == DirectTypeOK /\ AttemptsInOrder /\ DirectSound

(* What the steps of workers do: connect and end; the discovery of an        *)
(* attempt that is not the tab's just ends.                                  *)
Advances(a) ==
    /\ peer[a] \in {"unused", "ended"} => peer'[a] = peer[a]
    /\ peer[a] = "discovering" => \/ peer'[a] = "discovering"
                                  \/ peer'[a] = "ended" /\ a # term.attempt
    /\ peer[a] = "connecting" => peer'[a] \in {"connecting", "live", "ended"}
    /\ peer[a] = "live" => peer'[a] \in {"live", "ended"}

\* Nil names no attempt that was tried.
LEMMA NilIsNotTried == Nil \notin Tried
  BY DirectConnectionAssumption DEF Tried

(* A step that keeps the tab's transport, asks workers to stop but never     *)
(* takes that back, and moves workers only forward.                          *)
LEMMA KeepsTransport ==
    ASSUME DirectInv, DirectTypeOK',
           term'.attempt = term.attempt, term'.worker = term.worker,
           term'.running = term.running, term'.connected = term.connected,
           term'.open = term.open,
           \A a \in Tried : told[a] => told'[a],
           \A a \in Tried : /\ Advances(a)
                            /\ peer'[a] \notin {"live", "ended"} => mail'[a] = <<>>
                            /\ watcher'[a] => watcher[a]
                            /\ (watcher[a] /\ a = term.attempt) => watcher'[a]
    PROVE  DirectInv'
<1> USE NilIsNotTried DEF DirectInv, DirectTypeOK
<1>1. term.worker \in Tried \cup {Nil} /\ term.attempt \in Tried \cup {Nil}
  BY DEF TermRec
<1>2. AttemptsInOrder'
  BY <1>1 DEF AttemptsInOrder, PeerStates, Advances
<1>3. DirectSound'
  BY <1>1 DEF DirectSound, AttemptsInOrder, PeerStates, Advances
<1> QED BY <1>2, <1>3

(* A step that ends the tab's attempt (finish_direct_attempt, close_tab): the *)
(* worker, if there is one, is told to stop.                                  *)
LEMMA FinishesAttempt ==
    ASSUME DirectInv, DirectTypeOK',
           term'.attempt = Nil, term'.worker = Nil,
           term'.running = FALSE, term'.connected = FALSE,
           \A a \in Tried : (told[a] \/ a = term.worker) => told'[a],
           \A a \in Tried : /\ peer'[a] \in {peer[a], "ended"}
                            /\ watcher'[a] => watcher[a]
                            /\ peer'[a] \notin {"live", "ended"} => mail'[a] = <<>>
    PROVE  DirectInv'
<1> USE NilIsNotTried DEF DirectInv, DirectTypeOK
<1>1. AttemptsInOrder'
  BY DEF AttemptsInOrder, PeerStates
<1>2. DirectSound'
  BY DEF DirectSound, AttemptsInOrder, PeerStates
<1> QED BY <1>1, <1>2

(* The record updates of the tab keep its type. *)
LEMMA TermTypes ==
    ASSUME term \in TermRec
    PROVE  /\ Finished \in TermRec
           /\ Finished.attempt = Nil /\ Finished.worker = Nil
           /\ Finished.running = FALSE /\ Finished.connected = FALSE
           /\ Finished.open = term.open
  BY Zenon DEF Finished, TermRec

(* FinishedTold tells the tab's worker to stop, and nobody else. *)
LEMMA FinishedToldFacts ==
    ASSUME DirectTypeOK
    PROVE  /\ FinishedTold \in [Tried -> BOOLEAN]
           /\ \A a \in Tried : (told[a] \/ a = term.worker) => FinishedTold[a]
           /\ \A a \in Tried : FinishedTold[a] => (told[a] \/ a = term.worker)
  BY NilIsNotTried DEF FinishedTold, DirectTypeOK, TermRec

(* start_telnet_connection and start_serial_connection on a tab without an   *)
(* attempt: the fresh attempt becomes the tab's, with its worker (telnet) or *)
(* its port discovery (serial).                                              *)
LEMMA AcceptedPreserves ==
    ASSUME DirectInv, NEW d, NEW a \in Tried, MayStart(d), Fresh(a), Accepted(d, a)
    PROVE  DirectInv'
<1> USE NilIsNotTried DEF DirectInv, DirectTypeOK
<1>1. /\ term' \in TermRec /\ term'.attempt = a /\ term'.running = TRUE /\ term'.connected = FALSE
      /\ term'.open = term.open
      /\ term'.worker = IF kindOf = "telnet" THEN a ELSE term.worker
  BY DEF Accepted, TermRec
<1>2. /\ peer' \in [Tried -> PeerStates]
      /\ \A b \in Tried : b # a => peer'[b] = peer[b]
      /\ peer'[a] = IF kindOf = "telnet" THEN "connecting" ELSE "discovering"
  BY DEF Accepted, PeerStates
<1>3. /\ watcher' \in [Tried -> BOOLEAN]
      /\ \A b \in Tried : b # a => watcher'[b] = watcher[b]
      /\ kindOf = "telnet" => watcher'[a]
      /\ kindOf # "telnet" => ~watcher'[a]
  <2>1. ~watcher[a]
    BY DEF Fresh, AttemptsInOrder
  <2>2. CASE kindOf = "telnet"
    <3>1. watcher' = [watcher EXCEPT ![a] = TRUE]
      BY <2>2 DEF Accepted
    <3> QED BY <2>2, <3>1
  <2>3. CASE kindOf # "telnet"
    <3>1. watcher' = watcher
      BY <2>3 DEF Accepted
    <3> QED BY <2>1, <2>3, <3>1
  <2> QED BY <2>2, <2>3
<1>4. told' = told /\ mail' = mail
  BY DEF Accepted
<1>5. /\ peer[a] = "unused" /\ ~watcher[a] /\ mail[a] = <<>>
      /\ term.open /\ term.worker = Nil /\ term.attempt = Nil
  BY DEF Fresh, MayStart, AttemptsInOrder
<1>6. DirectTypeOK'
  BY <1>1, <1>2, <1>3, <1>4
<1>7. AttemptsInOrder'
  BY <1>1, <1>2, <1>3, <1>4, <1>5 DEF AttemptsInOrder
<1>8. DirectSound'
  <2>1. term'.worker \in {a, Nil} /\ a # Nil
    BY <1>1, <1>5
  <2>2. peer'[a] = "discovering" \/ (term'.worker = a /\ watcher'[a])
    BY <1>1, <1>2, <1>3
  <2>3. \A b \in Tried : peer'[b] \in {"connecting", "live"} /\ b # term'.worker => told'[b]
    <3> SUFFICES ASSUME NEW b \in Tried, peer'[b] \in {"connecting", "live"}, b # term'.worker
                 PROVE  told'[b]
      OBVIOUS
    <3>1. b # a
      BY <1>1, <1>2
    <3> QED BY <1>2, <1>4, <1>5, <3>1 DEF DirectSound
  <2> QED BY <1>1, <2>1, <2>2, <2>3 DEF DirectSound
<1> QED BY <1>6, <1>7, <1>8

(* The discovery of serial ports: a port for the tab's attempt gets a worker; *)
(* otherwise the attempt is finished or was finished before.                  *)
LEMMA DiscoversPreserves ==
    ASSUME DirectInv, NEW a \in Tried, Discovers(a)
    PROVE  DirectInv'
<1> USE NilIsNotTried DEF DirectInv, DirectTypeOK
<1>0. /\ peer[a] = "discovering" /\ ~watcher[a] /\ mail[a] = <<>>
      /\ a = term.attempt => term.worker = Nil /\ term.open
      /\ told' = told /\ mail' = mail
  BY DEF Discovers, AttemptsInOrder, DirectSound
<1>1. CASE /\ Matches(a) /\ term.worker = Nil
           /\ term' = [term EXCEPT !.worker = a]
           /\ peer' = [peer EXCEPT ![a] = "connecting"] /\ watcher' = [watcher EXCEPT ![a] = TRUE]
  <2>1. /\ term' \in TermRec /\ term'.attempt = term.attempt /\ term'.worker = a
        /\ term'.running = term.running /\ term'.connected = term.connected /\ term'.open = term.open
    BY <1>1 DEF TermRec
  <2>2. /\ peer' \in [Tried -> PeerStates] /\ peer'[a] = "connecting"
        /\ watcher' \in [Tried -> BOOLEAN] /\ watcher'[a] = TRUE
        /\ \A b \in Tried : b # a => peer'[b] = peer[b] /\ watcher'[b] = watcher[b]
    BY <1>1 DEF PeerStates
  <2>3. term.attempt = a /\ term.worker = Nil /\ ~term.connected
    BY <1>1 DEF Matches, DirectSound
  <2>4. DirectTypeOK'
    BY <1>0, <2>1, <2>2
  <2>5. AttemptsInOrder'
    BY <1>0, <2>1, <2>2, <2>3 DEF AttemptsInOrder
  <2>6. DirectSound'
    BY <1>0, <2>1, <2>2, <2>3 DEF DirectSound
  <2> QED BY <2>4, <2>5, <2>6
<1>2. CASE peer' = [peer EXCEPT ![a] = "ended"] /\ watcher' = watcher
  <2>1. /\ peer' \in [Tried -> PeerStates] /\ peer'[a] = "ended"
        /\ \A b \in Tried : b # a => peer'[b] = peer[b]
    BY <1>2 DEF PeerStates
  <2>2. CASE term' = Finished /\ Matches(a)
    <3>1. term.worker = Nil
      BY <1>0, <2>2 DEF Matches
    <3>2. DirectTypeOK'
      BY <1>0, <1>2, <2>1, <2>2, TermTypes
    <3> QED BY <1>0, <1>2, <2>1, <2>2, <3>1, <3>2, TermTypes, FinishesAttempt DEF AttemptsInOrder
  <2>3. CASE term' = term /\ a # term.attempt
    <3>1. \A b \in Tried : Advances(b)
      BY <1>0, <2>1, <2>3 DEF Advances, PeerStates
    <3>2. DirectTypeOK'
      BY <1>0, <1>2, <2>1, <2>3
    <3> QED BY <1>0, <1>2, <2>1, <2>3, <3>1, <3>2, KeepsTransport DEF AttemptsInOrder
  <2> QED BY <1>0, <1>2, <2>2, <2>3 DEF Discovers, Matches
<1> QED BY <1>1, <1>2 DEF Discovers

(* The worker connects or ends, which its monitor has yet to hear. *)
LEMMA PeerPreserves ==
    ASSUME DirectInv, NEW a \in Tried, PeerConnects(a) \/ PeerEnds(a)
    PROVE  DirectInv'
<1> USE NilIsNotTried DEF DirectInv, DirectTypeOK
<1>1. /\ term' = term /\ told' = told /\ watcher' = watcher
      /\ peer' \in [Tried -> PeerStates]
      /\ \A b \in Tried : b # a => peer'[b] = peer[b]
      /\ peer[a] \in {"connecting", "live"} /\ peer'[a] \in {"live", "ended"}
      /\ peer[a] = "live" => peer'[a] = "ended"
  BY DEF PeerConnects, PeerEnds, PeerStates
<1>2. /\ mail' \in [Tried -> Seq(MailEvents)]
      /\ \A b \in Tried : b # a => mail'[b] = mail[b]
  <2>1. ASSUME NEW e \in MailEvents, Says(a, e)
        PROVE  /\ mail' \in [Tried -> Seq(MailEvents)]
               /\ \A b \in Tried : b # a => mail'[b] = mail[b]
    BY <2>1 DEF Says
  <2> QED BY <2>1 DEF PeerConnects, PeerEnds, MailEvents
<1>3. \A b \in Tried : Advances(b)
  BY <1>1 DEF Advances, PeerStates
<1>4. \A b \in Tried : peer'[b] \notin {"live", "ended"} => mail'[b] = <<>>
  BY <1>1, <1>2 DEF AttemptsInOrder
<1> QED BY <1>1, <1>2, <1>3, <1>4, KeepsTransport

(* spawn_direct_monitor: the end of the tab's attempt finishes it; the end   *)
(* of another attempt changes nothing.                                       *)
LEMMA EndsPreserves ==
    ASSUME DirectInv, NEW a \in Tried, Ends(a), UNCHANGED peer,
           mail' \in [Tried -> Seq(MailEvents)],
           \A b \in Tried : mail[b] = <<>> => mail'[b] = <<>>,
           watcher' \in [Tried -> BOOLEAN],
           \A b \in Tried : watcher'[b] => watcher[b],
           \A b \in Tried : b # a => watcher'[b] = watcher[b]
    PROVE  DirectInv'
<1> USE NilIsNotTried DEF DirectInv, DirectTypeOK
<1>1. CASE Matches(a)
  <2>1. term' = Finished /\ told' = FinishedTold
    BY <1>1 DEF Ends
  <2>2. DirectTypeOK'
    BY <2>1, TermTypes, FinishedToldFacts
  <2> QED BY <2>1, <2>2, TermTypes, FinishedToldFacts, FinishesAttempt DEF AttemptsInOrder
<1>2. CASE ~Matches(a)
  <2>1. term' = term /\ told' = told
    BY <1>2 DEF Ends
  <2>2. a # term.attempt
    BY <1>2 DEF Matches, AttemptsInOrder
  <2>3. \A b \in Tried : Advances(b)
    BY DEF Advances, PeerStates
  <2> QED BY <2>1, <2>2, <2>3, KeepsTransport DEF AttemptsInOrder
<1> QED BY <1>1, <1>2

\* What the watcher of an attempt receives, or its seeing the channel end, keeps
\* the invariant.
LEMMA WatcherPreserves ==
    ASSUME DirectInv, NEW a \in Tried, WatcherReceives(a) \/ WatcherEnds(a)
    PROVE  DirectInv'
<1> USE NilIsNotTried DEF DirectInv, DirectTypeOK
<1>1. CASE WatcherEnds(a)
  <2>1. /\ watcher' \in [Tried -> BOOLEAN]
        /\ \A b \in Tried : b # a => watcher'[b] = watcher[b]
        /\ ~watcher'[a]
    BY <1>1 DEF WatcherEnds
  <2> QED BY <1>1, <2>1, EndsPreserves DEF WatcherEnds
<1>2. CASE WatcherReceives(a)
  <2>0. mail[a] \in Seq(MailEvents) /\ mail[a] # <<>> /\ watcher[a] /\ peer' = peer /\ watcher' = watcher
    BY <1>2 DEF WatcherReceives
  <2>1. /\ mail' \in [Tried -> Seq(MailEvents)]
        /\ \A b \in Tried : b # a => mail'[b] = mail[b]
    BY <1>2, <2>0 DEF WatcherReceives
  <2>2. CASE Head(mail[a]) # "Connected"
    <3>1. Ends(a)
      BY <1>2, <2>2 DEF WatcherReceives
    <3> QED BY <2>0, <2>1, <3>1, EndsPreserves
  <2>3. CASE Head(mail[a]) = "Connected" /\ ~Matches(a)
    <3>1. term' = term /\ told' = told
      BY <1>2, <2>3 DEF WatcherReceives
    <3>2. \A b \in Tried : Advances(b)
      BY <2>0 DEF Advances, PeerStates
    <3> QED BY <2>0, <2>1, <3>1, <3>2, KeepsTransport DEF AttemptsInOrder
  <2>4. CASE Head(mail[a]) = "Connected" /\ Matches(a)
    <3>1. told' = told
      BY <1>2, <2>4 DEF WatcherReceives
    <3>2. term' = [term EXCEPT !.connected = TRUE, !.running = TRUE, !.tries = 0,
                               !.reconnecting = FALSE, !.enabled = TRUE]
      BY <1>2, <2>4 DEF WatcherReceives
    <3>3. 0 \in Nat
      OBVIOUS
    <3>4. /\ term' \in TermRec
          /\ term'.attempt = term.attempt /\ term'.worker = term.worker
          /\ term'.running = TRUE /\ term'.connected = TRUE /\ term'.open = term.open
      BY <3>2, <3>3, Zenon DEF TermRec
    <3>5. term.attempt = a /\ peer[a] \in {"live", "ended"}
      BY <2>0, <2>4 DEF Matches, AttemptsInOrder
    <3>6. term.worker = a
      BY <3>5 DEF DirectSound
    <3>7. DirectTypeOK'
      BY <2>0, <2>1, <3>1, <3>4
    <3>8. AttemptsInOrder'
      BY <2>0, <2>1, <3>1, <3>4, <3>5 DEF AttemptsInOrder
    <3>9. DirectSound'
      BY <2>0, <3>1, <3>4, <3>5, <3>6 DEF DirectSound
    <3> QED BY <3>7, <3>8, <3>9
  <2> QED BY <2>2, <2>3, <2>4
<1> QED BY <1>1, <1>2

(* Timers, disconnects and retries leave the transport alone. *)
LEMMA QuietStep ==
    ASSUME DirectInv, UNCHANGED <<peer, mail, watcher>>,
           told' \in [Tried -> BOOLEAN], \A a \in Tried : told[a] => told'[a],
           term' \in TermRec,
           term'.attempt = term.attempt, term'.worker = term.worker,
           term'.running = term.running, term'.connected = term.connected, term'.open = term.open
    PROVE  DirectInv'
<1>1. DirectTypeOK'
  BY DEF DirectInv, DirectTypeOK
<1>2. \A b \in Tried : Advances(b)
  BY DEF Advances, PeerStates, DirectInv, DirectTypeOK
<1> QED BY <1>1, <1>2, KeepsTransport DEF DirectInv, AttemptsInOrder

(* The tab stands for one attempt: a running tab has a discovery or an       *)
(* attended worker, a worker is the attempt's, every other running worker    *)
(* was told to stop, and a connected tab has a worker that did connect -     *)
(* whatever late events, port scans, timers and retries do.                  *)
THEOREM DirectIsSound == DirectSpec => []DirectSound
<1>1. DirectInit => DirectInv
  <2> SUFFICES ASSUME DirectInit PROVE DirectInv
    OBVIOUS
  <2>1. 0 \in Nat
    OBVIOUS
  <2>2. term \in TermRec
    BY <2>1, Zenon DEF DirectInit, TermRec
  <2>3. DirectTypeOK
    BY <2>2 DEF DirectInit, DirectTypeOK, PeerStates
  <2>4. AttemptsInOrder
    BY DEF DirectInit, AttemptsInOrder
  <2>5. DirectSound
    BY DEF DirectInit, DirectSound
  <2> QED BY <2>3, <2>4, <2>5 DEF DirectInv
<1>2. DirectInv /\ [DirectNext]_directVars => DirectInv'
  <2> SUFFICES ASSUME DirectInv, [DirectNext]_directVars PROVE DirectInv'
    OBVIOUS
  <2>0. /\ term \in TermRec /\ told \in [Tried -> BOOLEAN]
        /\ term.tries + 1 \in Nat /\ term.gen + 1 \in Nat /\ 0 \in Nat
    BY DEF DirectInv, DirectTypeOK, TermRec
  <2>1. ASSUME NEW d \in duties, StartsDirect(d) PROVE DirectInv'
    <3>1. CASE MayStart(d) /\ \E a \in Tried : Fresh(a) /\ Accepted(d, a)
      BY <3>1, AcceptedPreserves
    <3>2. CASE Refused(d)
      BY <2>0, <3>2, QuietStep DEF Refused, attemptVars
    <3> QED BY <2>1, <3>1, <3>2 DEF StartsDirect
  <2>2. ASSUME NEW d \in duties, BeginsReconnect(d) PROVE DirectInv'
    <3>1. \/ term' = term
          \/ term' = [term EXCEPT !.tries = @ + 1, !.reconnecting = TRUE]
      BY <2>2 DEF BeginsReconnect
    <3>2. /\ term' \in TermRec /\ term'.attempt = term.attempt /\ term'.worker = term.worker
          /\ term'.running = term.running /\ term'.connected = term.connected /\ term'.open = term.open
      BY <2>0, <3>1, Zenon DEF TermRec
    <3> QED BY <2>0, <2>2, <3>2, QuietStep DEF BeginsReconnect, attemptVars
  <2>3. ASSUME NEW d \in duties, TimerFires(d) \/ TimerRefused(d) PROVE DirectInv'
    <3>1. \/ term' = term
          \/ term' = [term EXCEPT !.reconnecting = FALSE]
      BY <2>3 DEF TimerFires, TimerRefused
    <3>2. /\ term' \in TermRec /\ term'.attempt = term.attempt /\ term'.worker = term.worker
          /\ term'.running = term.running /\ term'.connected = term.connected /\ term'.open = term.open
      BY <2>0, <3>1, Zenon DEF TermRec
    <3> QED BY <2>0, <2>3, <3>2, QuietStep DEF TimerFires, TimerRefused, attemptVars
  <2>4. ASSUME NEW a \in Tried, Discovers(a) PROVE DirectInv'
    BY <2>4, DiscoversPreserves
  <2>5. ASSUME NEW a \in Tried, WatcherReceives(a) \/ WatcherEnds(a) PROVE DirectInv'
    BY <2>5, WatcherPreserves
  <2>6. ASSUME NEW a \in Tried, PeerConnects(a) \/ PeerEnds(a) PROVE DirectInv'
    BY <2>6, PeerPreserves
  <2>7. CASE DisconnectDirect
    <3>1. /\ term' \in TermRec /\ term'.attempt = term.attempt /\ term'.worker = term.worker
          /\ term'.running = term.running /\ term'.connected = term.connected /\ term'.open = term.open
      BY <2>0, <2>7, Zenon DEF DisconnectDirect, TermRec
    <3>2. told' = FinishedTold
      BY <2>7 DEF DisconnectDirect
    <3>3. told' \in [Tried -> BOOLEAN] /\ \A a \in Tried : told[a] => told'[a]
      BY <3>2, FinishedToldFacts DEF DirectInv
    <3> QED BY <2>7, <3>1, <3>3, QuietStep DEF DisconnectDirect
  <2>8. CASE RetryDirect
    <3>1. /\ term' \in TermRec /\ term'.attempt = term.attempt /\ term'.worker = term.worker
          /\ term'.running = term.running /\ term'.connected = term.connected /\ term'.open = term.open
      BY <2>0, <2>8, Zenon DEF RetryDirect, TermRec
    <3> QED BY <2>0, <2>8, <3>1, QuietStep DEF RetryDirect, attemptVars
  <2>9. CASE CloseDirect
    <3>1. /\ term' \in TermRec /\ term'.attempt = Nil /\ term'.worker = Nil
          /\ term'.running = FALSE /\ term'.connected = FALSE
      BY <2>0, <2>9, Zenon DEF CloseDirect, TermRec
    <3>2. /\ told' \in [Tried -> BOOLEAN]
          /\ \A a \in Tried : (told[a] \/ a = term.worker) => told'[a]
      BY <2>9, FinishedToldFacts DEF CloseDirect, DirectInv
    <3>3. UNCHANGED <<peer, mail, watcher>>
      BY <2>9 DEF CloseDirect
    <3>4. DirectTypeOK'
      BY <3>1, <3>2, <3>3 DEF DirectInv, DirectTypeOK
    <3> QED BY <3>1, <3>2, <3>3, <3>4, FinishesAttempt DEF DirectInv, AttemptsInOrder
  <2>10. CASE EditProfile
    BY <2>0, <2>10, QuietStep DEF EditProfile, attemptVars
  <2>11. CASE UNCHANGED directVars
    BY <2>0, <2>11, QuietStep DEF directVars
  <2> QED BY <2>1, <2>2, <2>3, <2>4, <2>5, <2>6, <2>7, <2>8, <2>9, <2>10, <2>11 DEF DirectNext, DirectTasks
<1>3. DirectInv => DirectSound
  BY DEF DirectInv
<1> QED BY <1>1, <1>2, <1>3, PTL DEF DirectSpec

-----------------------------------------------------------------------------
(* The Telnet and Serial workers: DirectSession. *)

LineSpec == LineInit /\ [][LineNext]_lineVars

LineEndRec == [event : {"Disconnected", "Failed"}, ahead : Nat]
LinePlaces == {"connecting", "announcing", "open", "writing", "emitting", "failing", "flushing", "closing", "ended"}
LineTypeOK ==
  /\ protocol \in Protocols /\ line \in LinePlaces /\ failed \in BOOLEAN
  /\ naws \in BOOLEAN /\ unseen \in BOOLEAN /\ ending \in {"no", "asked", "over"}
  /\ held \in Nat /\ received \in Nat /\ sent \in Nat /\ log \in Seq(LineEndRec)

\* An end is reported on the way out only, and after a failure it is no disconnection.
EndsOnce ==
  /\ line \notin {"failing", "flushing", "closing", "ended"} => ~failed
  /\ line = "failing" => failed
  /\ line \in {"failing", "flushing", "closing"} /\ ~failed => log = <<>>
  /\ line \notin {"flushing", "closing", "ended"} => log = <<>>
  /\ Len(log) <= 1
  /\ \A k \in 1 .. Len(log) : log[k].event = "Disconnected" => line = "ended" /\ log[k].ahead = received

\* What was read was sent or is held, and a closing worker holds nothing.
NothingDropped == sent + held = received /\ (line = "closing" => held = 0)

\* The peer learns the size when it accepts it, and whenever the worker looks.
SizeTold ==
  /\ naws => line \notin {"connecting", "announcing"}
  /\ naws /\ ~unseen => peerSize = watch

LineInv == LineTypeOK /\ EndsOnce /\ NothingDropped /\ SizeTold

\* An input queued by send_input leaves the line's invariant as it is.
LEMMA SendInputKeeps == ASSUME LineInv, SendInput PROVE LineInv'
<1>1. LineTypeOK'
  BY DEF LineInv, LineTypeOK, LinePlaces, LineEndRec, SendInput, handleVars, wireVars, Silent
<1>2. EndsOnce'
  BY DEF LineInv, LineTypeOK, LinePlaces, EndsOnce, NothingDropped, SendInput, handleVars, wireVars, Silent
<1>3. NothingDropped' /\ SizeTold'
  BY DEF LineInv, LineTypeOK, NothingDropped, SizeTold, SendInput, handleVars, wireVars, Silent
<1> QED
  BY <1>1, <1>2, <1>3 DEF LineInv

\* A resize marks the size unseen, so that the peer's size may lag until the
\* worker looks.
LEMMA ResizeLineKeeps == ASSUME LineInv, NEW size \in LineSizes, ResizeLine(size) PROVE LineInv'
<1>1. LineTypeOK'
  BY DEF LineInv, LineTypeOK, LinePlaces, LineEndRec, ResizeLine, handleVars, wireVars, Silent
<1>2. EndsOnce'
  BY DEF LineInv, LineTypeOK, LinePlaces, EndsOnce, NothingDropped, ResizeLine, handleVars, wireVars, Silent
<1>3. NothingDropped' /\ SizeTold'
  BY DEF LineInv, LineTypeOK, NothingDropped, SizeTold, ResizeLine, handleVars, wireVars, Silent
<1> QED
  BY <1>1, <1>2, <1>3 DEF LineInv

\* request_disconnect only queues a command.
LEMMA DisconnectLineKeeps == ASSUME LineInv, DisconnectLine PROVE LineInv'
<1>1. LineTypeOK'
  BY DEF LineInv, LineTypeOK, LinePlaces, LineEndRec, DisconnectLine, handleVars, wireVars, Silent, QueuesDisconnect
<1>2. EndsOnce'
  BY DEF LineInv, LineTypeOK, LinePlaces, EndsOnce, NothingDropped, DisconnectLine, handleVars, wireVars, Silent, QueuesDisconnect
<1>3. NothingDropped' /\ SizeTold'
  BY DEF LineInv, LineTypeOK, NothingDropped, SizeTold, DisconnectLine, handleVars, wireVars, Silent, QueuesDisconnect
<1> QED
  BY <1>1, <1>2, <1>3 DEF LineInv

\* The shutdown of the handle queues the disconnect and waits.
LEMMA ShutsLineKeeps == ASSUME LineInv, ShutsLine PROVE LineInv'
<1>1. LineTypeOK'
  BY DEF LineInv, LineTypeOK, LinePlaces, LineEndRec, ShutsLine, handleVars, wireVars, Silent, QueuesDisconnect
<1>2. EndsOnce'
  BY DEF LineInv, LineTypeOK, LinePlaces, EndsOnce, NothingDropped, ShutsLine, handleVars, wireVars, Silent, QueuesDisconnect
<1>3. NothingDropped' /\ SizeTold'
  BY DEF LineInv, LineTypeOK, NothingDropped, SizeTold, ShutsLine, handleVars, wireVars, Silent, QueuesDisconnect
<1> QED
  BY <1>1, <1>2, <1>3 DEF LineInv

\* The worker has ended, or is aborted wherever it was: what was reported
\* stays reported.
LEMMA LineShutKeeps == ASSUME LineInv, LineShut PROVE LineInv'
<1>1. LineTypeOK'
  BY DEF LineInv, LineTypeOK, LinePlaces, LineEndRec, LineShut, handleVars, wireVars, Silent
<1>2. EndsOnce'
  BY DEF LineInv, LineTypeOK, LinePlaces, EndsOnce, NothingDropped, LineShut, handleVars, wireVars, Silent
<1>3. NothingDropped' /\ SizeTold'
  BY DEF LineInv, LineTypeOK, NothingDropped, SizeTold, LineShut, handleVars, wireVars, Silent
<1> QED
  BY <1>1, <1>2, <1>3 DEF LineInv

\* Connecting succeeds or fails; a failure goes the way on which Failed is
\* reported.
LEMMA ConnectsLineKeeps == ASSUME LineInv, ConnectsLine PROVE LineInv'
<1>1. LineTypeOK'
  BY DEF LineInv, LineTypeOK, LinePlaces, LineEndRec, ConnectsLine, handleVars, wireVars, Silent
<1>2. EndsOnce'
  BY DEF LineInv, LineTypeOK, LinePlaces, EndsOnce, NothingDropped, ConnectsLine, handleVars, wireVars, Silent
<1>3. NothingDropped' /\ SizeTold'
  BY DEF LineInv, LineTypeOK, NothingDropped, SizeTold, ConnectsLine, handleVars, wireVars, Silent
<1> QED
  BY <1>1, <1>2, <1>3 DEF LineInv

\* Connected is no end, and the loop begins with nothing reported.
LEMMA AnnouncesLineKeeps == ASSUME LineInv, AnnouncesLine PROVE LineInv'
<1>1. LineTypeOK'
  BY DEF LineInv, LineTypeOK, LinePlaces, LineEndRec, AnnouncesLine, handleVars, wireVars, Silent, Emits
<1>2. EndsOnce'
  BY DEF LineInv, LineTypeOK, LinePlaces, EndsOnce, NothingDropped, AnnouncesLine, handleVars, wireVars, Silent, Emits
<1>3. NothingDropped' /\ SizeTold'
  BY DEF LineInv, LineTypeOK, NothingDropped, SizeTold, AnnouncesLine, handleVars, wireVars, Silent, Emits
<1> QED
  BY <1>1, <1>2, <1>3 DEF LineInv

\* The loop takes an input or a disconnect; the way out still holds the
\* output.
LEMMA TakesCommandKeeps == ASSUME LineInv, TakesCommand PROVE LineInv'
<1>1. LineTypeOK'
  BY DEF LineInv, LineTypeOK, LinePlaces, LineEndRec, TakesCommand, handleVars, wireVars, Silent
<1>2. EndsOnce'
  BY DEF LineInv, LineTypeOK, LinePlaces, EndsOnce, NothingDropped, TakesCommand, handleVars, wireVars, Silent
<1>3. NothingDropped' /\ SizeTold'
  BY DEF LineInv, LineTypeOK, NothingDropped, SizeTold, TakesCommand, handleVars, wireVars, Silent
<1> QED
  BY <1>1, <1>2, <1>3 DEF LineInv

\* A write ends, or its failure leads to the report.
LEMMA WritesInputKeeps == ASSUME LineInv, WritesInput PROVE LineInv'
<1>1. LineTypeOK'
  BY DEF LineInv, LineTypeOK, LinePlaces, LineEndRec, WritesInput, handleVars, wireVars, Silent
<1>2. EndsOnce'
  BY DEF LineInv, LineTypeOK, LinePlaces, EndsOnce, NothingDropped, WritesInput, handleVars, wireVars, Silent
<1>3. NothingDropped' /\ SizeTold'
  BY DEF LineInv, LineTypeOK, NothingDropped, SizeTold, WritesInput, handleVars, wireVars, Silent
<1> QED
  BY <1>1, <1>2, <1>3 DEF LineInv

\* resize_rx.changed: the size watched is seen, and told when the peer
\* accepted NAWS.
LEMMA TellsSizeKeeps == ASSUME LineInv, TellsSize PROVE LineInv'
<1>1. LineTypeOK'
  BY DEF LineInv, LineTypeOK, LinePlaces, LineEndRec, TellsSize, handleVars, wireVars, Silent
<1>2. EndsOnce'
  BY DEF LineInv, LineTypeOK, LinePlaces, EndsOnce, NothingDropped, TellsSize, handleVars, wireVars, Silent
<1>3. NothingDropped' /\ SizeTold'
  BY DEF LineInv, LineTypeOK, NothingDropped, SizeTold, TellsSize, handleVars, wireVars, Silent
<1> QED
  BY <1>1, <1>2, <1>3 DEF LineInv

\* DO NAWS tells the size of this moment.
LEMMA NegotiatesKeeps == ASSUME LineInv, NEW accepts \in BOOLEAN, Negotiates(accepts) PROVE LineInv'
<1>1. LineTypeOK'
  BY DEF LineInv, LineTypeOK, LinePlaces, LineEndRec, Negotiates, handleVars, wireVars, Silent
<1>2. EndsOnce'
  BY DEF LineInv, LineTypeOK, LinePlaces, EndsOnce, NothingDropped, Negotiates, handleVars, wireVars, Silent
<1>3. NothingDropped' /\ SizeTold'
  BY DEF LineInv, LineTypeOK, NothingDropped, SizeTold, Negotiates, handleVars, wireVars, Silent
<1> QED
  BY <1>1, <1>2, <1>3 DEF LineInv

\* A chunk read is held, and counted as read.
LEMMA ReadsLineKeeps == ASSUME LineInv, ReadsLine PROVE LineInv'
<1>1. LineTypeOK'
  BY DEF LineInv, LineTypeOK, LinePlaces, LineEndRec, ReadsLine, handleVars, wireVars, Silent
<1>2. EndsOnce'
  BY DEF LineInv, LineTypeOK, LinePlaces, EndsOnce, NothingDropped, ReadsLine, handleVars, wireVars, Silent
<1>3. NothingDropped' /\ SizeTold'
  BY DEF LineInv, LineTypeOK, NothingDropped, SizeTold, ReadsLine, handleVars, wireVars, Silent
<1> QED
  BY <1>1, <1>2, <1>3 DEF LineInv

\* The flush timer goes to the sending of what is held.
LEMMA FlushDueKeeps == ASSUME LineInv, FlushDue PROVE LineInv'
<1>1. LineTypeOK'
  BY DEF LineInv, LineTypeOK, LinePlaces, LineEndRec, FlushDue, handleVars, wireVars, Silent
<1>2. EndsOnce'
  BY DEF LineInv, LineTypeOK, LinePlaces, EndsOnce, NothingDropped, FlushDue, handleVars, wireVars, Silent
<1>3. NothingDropped' /\ SizeTold'
  BY DEF LineInv, LineTypeOK, NothingDropped, SizeTold, FlushDue, handleVars, wireVars, Silent
<1> QED
  BY <1>1, <1>2, <1>3 DEF LineInv

\* What is held becomes what was sent.
LEMMA EmitsOutputKeeps == ASSUME LineInv, EmitsOutput PROVE LineInv'
<1>1. LineTypeOK'
  BY DEF LineInv, LineTypeOK, LinePlaces, LineEndRec, EmitsOutput, handleVars, wireVars, Silent, Emits
<1>2. EndsOnce'
  BY DEF LineInv, LineTypeOK, LinePlaces, EndsOnce, NothingDropped, EmitsOutput, handleVars, wireVars, Silent, Emits
<1>3. NothingDropped' /\ SizeTold'
  BY DEF LineInv, LineTypeOK, NothingDropped, SizeTold, EmitsOutput, handleVars, wireVars, Silent, Emits
<1> QED
  BY <1>1, <1>2, <1>3 DEF LineInv

\* The stream ends or fails; only a failure sets the flag under which
\* Disconnected is left out.
LEMMA StreamEndsKeeps == ASSUME LineInv, StreamEnds PROVE LineInv'
<1>1. LineTypeOK'
  BY DEF LineInv, LineTypeOK, LinePlaces, LineEndRec, StreamEnds, handleVars, wireVars, Silent
<1>2. EndsOnce'
  BY DEF LineInv, LineTypeOK, LinePlaces, EndsOnce, NothingDropped, StreamEnds, handleVars, wireVars, Silent
<1>3. NothingDropped' /\ SizeTold'
  BY DEF LineInv, LineTypeOK, NothingDropped, SizeTold, StreamEnds, handleVars, wireVars, Silent
<1> QED
  BY <1>1, <1>2, <1>3 DEF LineInv

\* Failed is the only end reported so far, and no other follows it.
LEMMA SendsFailureKeeps == ASSUME LineInv, SendsFailure PROVE LineInv'
<1>1. LineTypeOK'
  BY DEF LineInv, LineTypeOK, LinePlaces, LineEndRec, SendsFailure, handleVars, wireVars, Silent, Emits
<1>2. EndsOnce'
  BY DEF LineInv, LineTypeOK, LinePlaces, EndsOnce, NothingDropped, SendsFailure, handleVars, wireVars, Silent, Emits
<1>3. NothingDropped' /\ SizeTold'
  BY DEF LineInv, LineTypeOK, NothingDropped, SizeTold, SendsFailure, handleVars, wireVars, Silent, Emits
<1> QED
  BY <1>1, <1>2, <1>3 DEF LineInv

\* Closing begins with nothing held.
LEMMA FlushesRestKeeps == ASSUME LineInv, FlushesRest PROVE LineInv'
<1>1. LineTypeOK'
  BY DEF LineInv, LineTypeOK, LinePlaces, LineEndRec, FlushesRest, handleVars, wireVars, Silent, Emits
<1>2. EndsOnce'
  BY DEF LineInv, LineTypeOK, LinePlaces, EndsOnce, NothingDropped, FlushesRest, handleVars, wireVars, Silent, Emits
<1>3. NothingDropped' /\ SizeTold'
  BY DEF LineInv, LineTypeOK, NothingDropped, SizeTold, FlushesRest, handleVars, wireVars, Silent, Emits
<1> QED
  BY <1>1, <1>2, <1>3 DEF LineInv

\* Disconnected is reported by a worker that reported no failure, after all
\* it read.
LEMMA ClosesLineKeeps == ASSUME LineInv, ClosesLine PROVE LineInv'
<1>1. LineTypeOK'
  <2>1. log' \in Seq(LineEndRec)
    <3>1. CASE failed
      BY <3>1 DEF LineInv, LineTypeOK, ClosesLine, Silent
    <3>2. CASE ~failed
      <4>1. log' = Append(log, [event |-> "Disconnected", ahead |-> sent])
        BY <3>2 DEF ClosesLine, Emits
      <4>2. [event |-> "Disconnected", ahead |-> sent] \in LineEndRec
        BY DEF LineInv, LineTypeOK, LineEndRec
      <4>3. log \in Seq(LineEndRec)
        BY DEF LineInv, LineTypeOK
      <4> QED
        BY <4>1, <4>2, <4>3
    <3> QED
      BY <3>1, <3>2
  <2> QED
    BY <2>1 DEF LineInv, LineTypeOK, LinePlaces, ClosesLine, handleVars, wireVars
<1>2. EndsOnce'
  BY DEF LineInv, LineTypeOK, LinePlaces, EndsOnce, NothingDropped, ClosesLine, handleVars, wireVars, Silent, Emits
<1>3. NothingDropped' /\ SizeTold'
  BY DEF LineInv, LineTypeOK, NothingDropped, SizeTold, ClosesLine, handleVars, wireVars, Silent, Emits
<1> QED
  BY <1>1, <1>2, <1>3 DEF LineInv

\* The monitor of the tab takes an event; the worker's state stays.
LEMMA PassesEventKeeps == ASSUME LineInv, PassesEvent PROVE LineInv'
<1>1. LineTypeOK'
  BY DEF LineInv, LineTypeOK, LinePlaces, LineEndRec, PassesEvent, handleVars, wireVars, Silent
<1>2. EndsOnce'
  BY DEF LineInv, LineTypeOK, LinePlaces, EndsOnce, NothingDropped, PassesEvent, handleVars, wireVars, Silent
<1>3. NothingDropped' /\ SizeTold'
  BY DEF LineInv, LineTypeOK, NothingDropped, SizeTold, PassesEvent, handleVars, wireVars, Silent
<1> QED
  BY <1>1, <1>2, <1>3 DEF LineInv

\* The Telnet and Serial workers (run_telnet_session, run_serial_session): an
\* end is reported once, a disconnection only after all that was read, and
\* the peer has the size of the terminal whenever it accepted it and the
\* worker has seen the last one; for any capacities, batch and amount read.
THEOREM LineIsSound == LineSpec => []LineSound
<1>1. LineInit => LineInv
  <2>1. <<>> \in Seq(LineEndRec) /\ Len(<<>>) = 0
    OBVIOUS
  <2>2. LineInit => LineTypeOK
    <3>1. 0 \in Nat
      OBVIOUS
    <3> QED
      BY <2>1, <3>1, Zenon DEF LineInit, LineTypeOK, LinePlaces
  <2>3. LineInit => EndsOnce /\ NothingDropped /\ SizeTold
    BY <2>1 DEF LineInit, EndsOnce, NothingDropped, SizeTold
  <2> QED
    BY <2>2, <2>3 DEF LineInv
<1>2. LineInv /\ [LineNext]_lineVars => LineInv'
  <2> SUFFICES ASSUME LineInv, [LineNext]_lineVars PROVE LineInv'
    OBVIOUS
  <2>1. CASE UNCHANGED lineVars
    BY <2>1 DEF lineVars, LineInv, LineTypeOK, EndsOnce, NothingDropped, SizeTold
  <2>2. CASE LineWorker
    BY <2>2, ConnectsLineKeeps, AnnouncesLineKeeps, TakesCommandKeeps, TellsSizeKeeps, FlushDueKeeps, EmitsOutputKeeps,
       SendsFailureKeeps, FlushesRestKeeps, ClosesLineKeeps DEF LineWorker
  <2> QED
    BY <2>1, <2>2, SendInputKeeps, DisconnectLineKeeps, ShutsLineKeeps, LineShutKeeps, ResizeLineKeeps, WritesInputKeeps,
       ReadsLineKeeps, StreamEndsKeeps, PassesEventKeeps, NegotiatesKeeps DEF LineNext
<1>3. LineInv => LineSound
  <2> SUFFICES ASSUME LineInv PROVE LineSound
    OBVIOUS
  <2>1. ASSUME NEW r \in Range(log) PROVE \E k \in 1 .. Len(log) : log[k] = r
    BY <2>1 DEF Range, LineInv, LineTypeOK
  <2> QED
    BY <2>1 DEF LineInv, LineTypeOK, EndsOnce, SizeTold, LineSound
<1> QED
  BY <1>1, <1>2, <1>3, PTL DEF LineSpec

-----------------------------------------------------------------------------
(* The local shell: LocalShell. *)

ShellSpec == ShellInit /\ [][ShellNext]_shellVars

Stages == {"opening", "spawned", "starting", "looping", "resized", "polling", "receiving", "writing", "terminating",
           "joining", "reporting", "failing", "ended"}
ReaderPlaces == {"none", "reading", "sending", "failing", "flagging", "ended"}
ShellEventNames == {"Started", "Resized", "Output", "Exited", "Failed"}
ReportRec == [event : {"Exited", "Failed"}, ahead : Nat]
ShellTypeOK ==
  /\ stage \in Stages /\ reader \in ReaderPlaces /\ child \in {"none", "alive", "exited"}
  /\ produced \in Nat /\ buffered \in Nat /\ displayed \in Nat
  /\ events \in Seq(ShellEventNames) /\ reported \in Seq(ReportRec)
  /\ stopFlag \in BOOLEAN /\ monitor \in BOOLEAN

\* Where the worker is, and what is left of reader and child.
StageFits ==
  /\ stage = "opening" => child = "none"
  /\ stage \in {"opening", "spawned"} => reader = "none"
  /\ stage \in {"failing", "reporting", "ended"} => reader \in {"none", "ended"}
  /\ stage \in {"joining", "reporting", "failing", "ended"} => child # "alive"
  /\ stage = "joining" /\ outcome = "exited" => child = "exited"
  /\ stage = "reporting" => child = "exited" /\ reader = "ended"

\* Until a shutdown is requested or the monitor has gone, no output is lost.
OutputKept ==
  ~stopFlag /\ monitor =>
    /\ displayed + Outputs(events) + buffered + (IF reader = "sending" THEN 1 ELSE 0) = produced
    /\ reader = "ended" => buffered = 0 /\ child = "exited"

\* A report is the last word of the worker, or of a reader that then stops it.
ReportsFit ==
  /\ Len(reported) <= 1
  /\ reported # <<>> => reader = "flagging" \/ (reader = "ended" /\ stopFlag) \/ stage = "ended"
  /\ \A k \in 1 .. Len(reported) : reported[k].event = "Exited" =>
        stage = "ended" /\ child = "exited" /\ reported[k].ahead = produced

SizeFits == slot \in {Nil, requested} /\ (requested = applied \/ slot = requested)

ShellInv == ShellTypeOK /\ StageFits /\ OutputKept /\ ReportsFit /\ SizeFits

\* How much output waits in a queue, after an event was sent.
LEMMA OutputsAppend ==
  ASSUME NEW q \in Seq(ShellEventNames), NEW e \in ShellEventNames
  PROVE  /\ Outputs(q) \in Nat
         /\ Outputs(Append(q, e)) = Outputs(q) + (IF e = "Output" THEN 1 ELSE 0)
<1> DEFINE S == {k \in DOMAIN q : q[k] = "Output"}
           T == {k \in DOMAIN Append(q, e) : Append(q, e)[k] = "Output"}
<1>1. IsFiniteSet(S) /\ Cardinality(S) \in Nat
  <2>1. IsFiniteSet(1 .. Len(q)) /\ S \in SUBSET (1 .. Len(q))
    BY FS_Interval
  <2>2. IsFiniteSet(S)
    BY <2>1, FS_Subset
  <2> QED
    BY <2>2, FS_CardinalityType
<1>2. T = IF e = "Output" THEN S \cup {Len(q) + 1} ELSE S
  <2>1. /\ DOMAIN Append(q, e) = 1 .. Len(q) + 1 /\ DOMAIN q = 1 .. Len(q) /\ Len(q) \in Nat
        /\ Append(q, e)[Len(q) + 1] = e /\ \A k \in 1 .. Len(q) : Append(q, e)[k] = q[k]
    OBVIOUS
  <2>2. 1 .. Len(q) + 1 = (1 .. Len(q)) \cup {Len(q) + 1}
    BY <2>1
  <2> QED
    BY <2>1, <2>2
<1>3. Len(q) + 1 \notin S
  OBVIOUS
<1>4. Cardinality(T) = Cardinality(S) + (IF e = "Output" THEN 1 ELSE 0)
  <2> HIDE DEF S, T
  <2>1. Cardinality(S \cup {Len(q) + 1}) = Cardinality(S) + 1
    BY <1>1, <1>3, FS_AddElement
  <2> QED
    BY <1>1, <1>2, <2>1
<1> QED
  BY <1>1, <1>4 DEF Outputs

\* How much output waits in a queue, after an event was received.
LEMMA OutputsTail ==
  ASSUME NEW q \in Seq(ShellEventNames), q # <<>>
  PROVE  /\ Outputs(Tail(q)) \in Nat /\ Tail(q) \in Seq(ShellEventNames)
         /\ Outputs(q) = Outputs(Tail(q)) + (IF Head(q) = "Output" THEN 1 ELSE 0)
<1> DEFINE S == {k \in DOMAIN Tail(q) : Tail(q)[k] = "Output"}
           T == {k \in DOMAIN q : q[k] = "Output"}
           R == T \ {1}
           f == [k \in S |-> k + 1]
<1>0. /\ Tail(q) \in Seq(ShellEventNames) /\ DOMAIN Tail(q) = 1 .. Len(q) - 1 /\ DOMAIN q = 1 .. Len(q)
      /\ Len(q) \in Nat /\ Len(q) >= 1 /\ Head(q) = q[1] /\ \A k \in 1 .. Len(q) - 1 : Tail(q)[k] = q[k + 1]
  OBVIOUS
<1>1. IsFiniteSet(S) /\ Cardinality(S) \in Nat
  <2>1. IsFiniteSet(1 .. Len(q) - 1) /\ S \in SUBSET (1 .. Len(q) - 1)
    BY <1>0, FS_Interval
  <2>2. IsFiniteSet(S)
    BY <2>1, FS_Subset
  <2> QED
    BY <2>2, FS_CardinalityType
<1>2. f \in Bijection(S, R)
  <2>1. \A k \in S : k \in Nat /\ k + 1 \in R
    BY <1>0
  <2>2. \A m \in R : m - 1 \in S /\ (m - 1) + 1 = m
    <3> SUFFICES ASSUME NEW m \in R PROVE m - 1 \in S /\ (m - 1) + 1 = m
      OBVIOUS
    <3>1. m \in 2 .. Len(q) /\ q[m] = "Output" /\ m - 1 \in 1 .. Len(q) - 1 /\ (m - 1) + 1 = m
      BY <1>0
    <3> QED
      BY <1>0, <3>1
  <2> HIDE DEF S, R
  <2>3. f \in [S -> R]
    BY <2>1
  <2>4. \A a, b \in S : f[a] = f[b] => a = b
    BY <2>1
  <2>5. \A m \in R : \E k \in S : f[k] = m
    BY <2>2
  <2> QED
    BY <2>3, <2>4, <2>5 DEF Bijection, Injection, Surjection, IsInjective
<1>3. IsFiniteSet(R) /\ Cardinality(R) = Cardinality(S)
  <2>1. ExistsBijection(S, R)
    BY <1>2 DEF ExistsBijection
  <2> HIDE DEF S, R
  <2> QED
    BY <1>1, <2>1, FS_Bijection
<1>4. T = IF Head(q) = "Output" THEN R \cup {1} ELSE R
  BY <1>0
<1>5. Cardinality(T) = Cardinality(S) + (IF Head(q) = "Output" THEN 1 ELSE 0)
  <2>1. 1 \notin R
    OBVIOUS
  <2> HIDE DEF S, T, R
  <2>2. Cardinality(R \cup {1}) = Cardinality(R) + 1
    BY <1>3, <2>1, FS_AddElement
  <2> QED
    BY <1>1, <1>3, <1>4, <2>2
<1> QED
  BY <1>0, <1>1, <1>5 DEF Outputs

\* The number of outputs in a queue.
LEMMA OutputsNat == ASSUME NEW q \in Seq(ShellEventNames) PROVE Outputs(q) \in Nat
<1>1. "Output" \in ShellEventNames
  BY DEF ShellEventNames
<1> QED
  BY <1>1, OutputsAppend

\* What sending an event does.
LEMMA Delivery ==
  ASSUME ShellTypeOK, NEW e \in ShellEventNames, NEW done \in BOOLEAN, Delivers(e, done)
  PROVE  /\ events' \in Seq(ShellEventNames) /\ reported' \in Seq(ReportRec)
         /\ stopFlag \/ ~monitor => reported' = reported
         /\ ~stopFlag /\ monitor => done /\ Outputs(events') = Outputs(events) + (IF e = "Output" THEN 1 ELSE 0)
         /\ \/ reported' = reported
            \/ /\ e \in {"Exited", "Failed"}
               /\ reported' = Append(reported, [event |-> e, ahead |-> displayed + Outputs(events)])
         /\ e \notin {"Exited", "Failed"} => reported' = reported
<1>1. CASE stopFlag \/ ~monitor
  BY <1>1 DEF Delivers, ShellTypeOK
<1>2. CASE ~stopFlag /\ monitor
  <2>1. done /\ events' = Append(events, e) /\ reported' = Reports(e) /\ events \in Seq(ShellEventNames)
    BY <1>2 DEF Delivers, ShellTypeOK
  <2>2. Outputs(events') = Outputs(events) + (IF e = "Output" THEN 1 ELSE 0) /\ Outputs(events) \in Nat
    BY <2>1, OutputsAppend
  <2>3. e \in {"Exited", "Failed"} => [event |-> e, ahead |-> displayed + Outputs(events)] \in ReportRec
    BY <2>2 DEF ReportRec, ShellTypeOK
  <2>4. reported' \in Seq(ReportRec)
    BY <2>1, <2>3 DEF Reports, ShellTypeOK
  <2> QED
    BY <1>2, <2>1, <2>2, <2>4 DEF Reports
<1> QED
  BY <1>1, <1>2

\* An empty queue holds no output.
LEMMA OutputsEmpty == Outputs(<<>>) = 0
<1>1. {k \in DOMAIN <<>> : <<>>[k] = "Output"} = {}
  OBVIOUS
<1> QED
  BY <1>1, FS_EmptySet, Zenon DEF Outputs

\* Input queued for the shell changes neither its output nor its size.
LEMMA RequestSendKeeps == ASSUME ShellInv, RequestSend PROVE ShellInv'
<1>1. ShellTypeOK'
  BY DEF ShellInv, ShellTypeOK, Stages, ReaderPlaces, RequestSend, processVars, sizeVars, tabVars
<1>2. StageFits' /\ SizeFits'
  BY DEF ShellInv, ShellTypeOK, Stages, ReaderPlaces, StageFits, SizeFits, RequestSend, processVars, sizeVars, tabVars
<1>3. OutputKept'
  BY OutputsNat DEF ShellInv, ShellTypeOK, StageFits, OutputKept, RequestSend, processVars, sizeVars, tabVars
<1>4. ReportsFit'
  BY OutputsNat DEF ShellInv, ShellTypeOK, StageFits, OutputKept, ReportsFit, RequestSend, processVars, sizeVars, tabVars
<1> QED
  BY <1>1, <1>2, <1>3, <1>4 DEF ShellInv

\* request_resize: the latest size waits in the slot.
LEMMA RequestResizeKeeps == ASSUME ShellInv, NEW size \in Sizes, RequestResize(size) PROVE ShellInv'
<1>1. ShellTypeOK'
  BY DEF ShellInv, ShellTypeOK, Stages, ReaderPlaces, RequestResize, processVars, sizeVars, tabVars
<1>2. StageFits' /\ SizeFits'
  BY DEF ShellInv, ShellTypeOK, Stages, ReaderPlaces, StageFits, SizeFits, RequestResize, processVars, sizeVars, tabVars
<1>3. OutputKept'
  BY OutputsNat DEF ShellInv, ShellTypeOK, StageFits, OutputKept, RequestResize, processVars, sizeVars, tabVars
<1>4. ReportsFit'
  BY OutputsNat DEF ShellInv, ShellTypeOK, StageFits, OutputKept, ReportsFit, RequestResize, processVars, sizeVars, tabVars
<1> QED
  BY <1>1, <1>2, <1>3, <1>4 DEF ShellInv

\* request_disconnect raises the stop flag, after which output may be lost.
LEMMA RequestDisconnectKeeps == ASSUME ShellInv, RequestDisconnect PROVE ShellInv'
<1>1. ShellTypeOK'
  BY DEF ShellInv, ShellTypeOK, Stages, ReaderPlaces, RequestDisconnect, processVars, sizeVars, tabVars
<1>2. StageFits' /\ SizeFits'
  BY DEF ShellInv, ShellTypeOK, Stages, ReaderPlaces, StageFits, SizeFits, RequestDisconnect, processVars, sizeVars, tabVars
<1>3. OutputKept'
  BY OutputsNat DEF ShellInv, ShellTypeOK, StageFits, OutputKept, RequestDisconnect, processVars, sizeVars, tabVars
<1>4. ReportsFit'
  BY OutputsNat DEF ShellInv, ShellTypeOK, StageFits, OutputKept, ReportsFit, RequestDisconnect, processVars, sizeVars, tabVars
<1> QED
  BY <1>1, <1>2, <1>3, <1>4 DEF ShellInv

\* close_tab starts the shutdown, which raises the stop flag.
LEMMA CloseLocalTabKeeps == ASSUME ShellInv, CloseLocalTab PROVE ShellInv'
<1>1. ShellTypeOK'
  BY DEF ShellInv, ShellTypeOK, Stages, ReaderPlaces, CloseLocalTab, processVars, sizeVars, tabVars, StartsShutdown
<1>2. StageFits' /\ SizeFits'
  BY DEF ShellInv, ShellTypeOK, Stages, ReaderPlaces, StageFits, SizeFits, CloseLocalTab, processVars, sizeVars, tabVars, StartsShutdown
<1>3. OutputKept'
  BY OutputsNat DEF ShellInv, ShellTypeOK, StageFits, OutputKept, CloseLocalTab, processVars, sizeVars, tabVars, StartsShutdown
<1>4. ReportsFit'
  BY OutputsNat DEF ShellInv, ShellTypeOK, StageFits, OutputKept, ReportsFit, CloseLocalTab, processVars, sizeVars, tabVars, StartsShutdown
<1> QED
  BY <1>1, <1>2, <1>3, <1>4 DEF ShellInv

\* force_kill_child: the child is gone, as at every later stage.
LEMMA ForceKillKeeps == ASSUME ShellInv, ForceKill PROVE ShellInv'
<1>1. ShellTypeOK'
  BY DEF ShellInv, ShellTypeOK, Stages, ReaderPlaces, ForceKill, processVars, sizeVars, tabVars, Killed
<1>2. StageFits' /\ SizeFits'
  BY DEF ShellInv, ShellTypeOK, Stages, ReaderPlaces, StageFits, SizeFits, ForceKill, processVars, sizeVars, tabVars, Killed
<1>3. OutputKept'
  BY OutputsNat DEF ShellInv, ShellTypeOK, StageFits, OutputKept, ForceKill, processVars, sizeVars, tabVars, Killed
<1>4. ReportsFit'
  BY OutputsNat DEF ShellInv, ShellTypeOK, StageFits, OutputKept, ReportsFit, ForceKill, processVars, sizeVars, tabVars, Killed
<1> QED
  BY <1>1, <1>2, <1>3, <1>4 DEF ShellInv

\* The shutdown ends with the child killed once more.
LEMMA ShutdownEndsKeeps == ASSUME ShellInv, ShutdownEnds PROVE ShellInv'
<1>1. ShellTypeOK'
  BY DEF ShellInv, ShellTypeOK, Stages, ReaderPlaces, ShutdownEnds, processVars, sizeVars, tabVars, Killed
<1>2. StageFits' /\ SizeFits'
  BY DEF ShellInv, ShellTypeOK, Stages, ReaderPlaces, StageFits, SizeFits, ShutdownEnds, processVars, sizeVars, tabVars, Killed
<1>3. OutputKept'
  BY OutputsNat DEF ShellInv, ShellTypeOK, StageFits, OutputKept, ShutdownEnds, processVars, sizeVars, tabVars, Killed
<1>4. ReportsFit'
  BY OutputsNat DEF ShellInv, ShellTypeOK, StageFits, OutputKept, ReportsFit, ShutdownEnds, processVars, sizeVars, tabVars, Killed
<1> QED
  BY <1>1, <1>2, <1>3, <1>4 DEF ShellInv

\* The shell is spawned, or its failure is to be reported with no child.
LEMMA OpensKeeps == ASSUME ShellInv, Opens PROVE ShellInv'
<1>1. ShellTypeOK'
  BY DEF ShellInv, ShellTypeOK, Stages, ReaderPlaces, Opens, processVars, sizeVars, tabVars
<1>2. StageFits' /\ SizeFits'
  BY DEF ShellInv, ShellTypeOK, Stages, ReaderPlaces, StageFits, SizeFits, Opens, processVars, sizeVars, tabVars
<1>3. OutputKept'
  BY OutputsNat DEF ShellInv, ShellTypeOK, StageFits, OutputKept, Opens, processVars, sizeVars, tabVars
<1>4. ReportsFit'
  BY OutputsNat DEF ShellInv, ShellTypeOK, StageFits, OutputKept, ReportsFit, Opens, processVars, sizeVars, tabVars
<1> QED
  BY <1>1, <1>2, <1>3, <1>4 DEF ShellInv

\* The reader starts with the child, or the child is ended again.
LEMMA RegistersKeeps == ASSUME ShellInv, Registers PROVE ShellInv'
<1>1. ShellTypeOK'
  BY DEF ShellInv, ShellTypeOK, Stages, ReaderPlaces, Registers, processVars, sizeVars, tabVars
<1>2. StageFits' /\ SizeFits'
  BY DEF ShellInv, ShellTypeOK, Stages, ReaderPlaces, StageFits, SizeFits, Registers, processVars, sizeVars, tabVars
<1>3. OutputKept'
  BY OutputsNat DEF ShellInv, ShellTypeOK, StageFits, OutputKept, Registers, processVars, sizeVars, tabVars
<1>4. ReportsFit'
  BY OutputsNat DEF ShellInv, ShellTypeOK, StageFits, OutputKept, ReportsFit, Registers, processVars, sizeVars, tabVars
<1> QED
  BY <1>1, <1>2, <1>3, <1>4 DEF ShellInv

\* Started is delivered, or the worker terminates.
LEMMA AnnouncesKeeps == ASSUME ShellInv, Announces PROVE ShellInv'
<1>0. PICK done \in BOOLEAN : Delivers("Started", done) /\ stage' = IF done THEN "looping" ELSE "terminating"
  BY DEF Announces
<1>5. "Started" \in ShellEventNames /\ ShellTypeOK
  BY DEF ShellEventNames, ShellInv
<1>6. /\ events' \in Seq(ShellEventNames) /\ reported' \in Seq(ReportRec)
      /\ stopFlag \/ ~monitor => reported' = reported
      /\ ~stopFlag /\ monitor => done /\ Outputs(events') = Outputs(events) + (IF "Started" = "Output" THEN 1 ELSE 0)
      /\ \/ reported' = reported
         \/ /\ ("Started") \in {"Exited", "Failed"}
            /\ reported' = Append(reported, [event |-> ("Started"), ahead |-> displayed + Outputs(events)])
      /\ ("Started") \notin {"Exited", "Failed"} => reported' = reported
  BY <1>0, <1>5, Delivery
<1>1. ShellTypeOK'
  BY <1>0, <1>6 DEF ShellInv, ShellTypeOK, Stages, ReaderPlaces, Announces, processVars, sizeVars, tabVars
<1>2. StageFits' /\ SizeFits'
  BY <1>0, <1>6 DEF ShellInv, ShellTypeOK, Stages, ReaderPlaces, StageFits, SizeFits, Announces, processVars, sizeVars, tabVars
<1>3. OutputKept'
  BY <1>0, <1>6, OutputsNat DEF ShellInv, ShellTypeOK, StageFits, OutputKept, Announces, processVars, sizeVars, tabVars
<1>4. ReportsFit'
  BY <1>0, <1>6, OutputsNat DEF ShellInv, ShellTypeOK, StageFits, OutputKept, ReportsFit, Announces, processVars, sizeVars, tabVars
<1> QED
  BY <1>1, <1>2, <1>3, <1>4 DEF ShellInv

\* The head of the loop: apply_pending_resize empties the slot into the
\* terminal.
LEMMA LoopsKeeps == ASSUME ShellInv, Loops PROVE ShellInv'
<1>1. ShellTypeOK'
  BY DEF ShellInv, ShellTypeOK, Stages, ReaderPlaces, Loops, processVars, sizeVars, tabVars, TakesSize
<1>2. StageFits' /\ SizeFits'
  BY DEF ShellInv, ShellTypeOK, Stages, ReaderPlaces, StageFits, SizeFits, Loops, processVars, sizeVars, tabVars, TakesSize
<1>3. OutputKept'
  BY OutputsNat DEF ShellInv, ShellTypeOK, StageFits, OutputKept, Loops, processVars, sizeVars, tabVars, TakesSize
<1>4. ReportsFit'
  BY OutputsNat DEF ShellInv, ShellTypeOK, StageFits, OutputKept, ReportsFit, Loops, processVars, sizeVars, tabVars, TakesSize
<1> QED
  BY <1>1, <1>2, <1>3, <1>4 DEF ShellInv

\* Resized is neither output nor an end.
LEMMA AnnouncesSizeKeeps == ASSUME ShellInv, AnnouncesSize PROVE ShellInv'
<1>0. PICK done \in BOOLEAN : Delivers("Resized", done)
  BY DEF AnnouncesSize
<1>5. "Resized" \in ShellEventNames /\ ShellTypeOK
  BY DEF ShellEventNames, ShellInv
<1>6. /\ events' \in Seq(ShellEventNames) /\ reported' \in Seq(ReportRec)
      /\ stopFlag \/ ~monitor => reported' = reported
      /\ ~stopFlag /\ monitor => done /\ Outputs(events') = Outputs(events) + (IF "Resized" = "Output" THEN 1 ELSE 0)
      /\ \/ reported' = reported
         \/ /\ ("Resized") \in {"Exited", "Failed"}
            /\ reported' = Append(reported, [event |-> ("Resized"), ahead |-> displayed + Outputs(events)])
      /\ ("Resized") \notin {"Exited", "Failed"} => reported' = reported
  BY <1>0, <1>5, Delivery
<1>1. ShellTypeOK'
  BY <1>0, <1>6 DEF ShellInv, ShellTypeOK, Stages, ReaderPlaces, AnnouncesSize, processVars, sizeVars, tabVars
<1>2. StageFits' /\ SizeFits'
  BY <1>0, <1>6 DEF ShellInv, ShellTypeOK, Stages, ReaderPlaces, StageFits, SizeFits, AnnouncesSize, processVars, sizeVars, tabVars
<1>3. OutputKept'
  BY <1>0, <1>6, OutputsNat DEF ShellInv, ShellTypeOK, StageFits, OutputKept, AnnouncesSize, processVars, sizeVars, tabVars
<1>4. ReportsFit'
  BY <1>0, <1>6, OutputsNat DEF ShellInv, ShellTypeOK, StageFits, OutputKept, ReportsFit, AnnouncesSize, processVars, sizeVars, tabVars
<1> QED
  BY <1>1, <1>2, <1>3, <1>4 DEF ShellInv

\* A child seen to have exited leads to the join.
LEMMA PollsKeeps == ASSUME ShellInv, Polls PROVE ShellInv'
<1>1. ShellTypeOK'
  BY DEF ShellInv, ShellTypeOK, Stages, ReaderPlaces, Polls, processVars, sizeVars, tabVars
<1>2. StageFits' /\ SizeFits'
  BY DEF ShellInv, ShellTypeOK, Stages, ReaderPlaces, StageFits, SizeFits, Polls, processVars, sizeVars, tabVars
<1>3. OutputKept'
  BY OutputsNat DEF ShellInv, ShellTypeOK, StageFits, OutputKept, Polls, processVars, sizeVars, tabVars
<1>4. ReportsFit'
  BY OutputsNat DEF ShellInv, ShellTypeOK, StageFits, OutputKept, ReportsFit, Polls, processVars, sizeVars, tabVars
<1> QED
  BY <1>1, <1>2, <1>3, <1>4 DEF ShellInv

\* A command is taken, or the wait times out.
LEMMA ReceivesKeeps == ASSUME ShellInv, Receives PROVE ShellInv'
<1>1. ShellTypeOK'
  BY DEF ShellInv, ShellTypeOK, Stages, ReaderPlaces, Receives, processVars, sizeVars, tabVars
<1>2. StageFits' /\ SizeFits'
  BY DEF ShellInv, ShellTypeOK, Stages, ReaderPlaces, StageFits, SizeFits, Receives, processVars, sizeVars, tabVars
<1>3. OutputKept'
  BY OutputsNat DEF ShellInv, ShellTypeOK, StageFits, OutputKept, Receives, processVars, sizeVars, tabVars
<1>4. ReportsFit'
  BY OutputsNat DEF ShellInv, ShellTypeOK, StageFits, OutputKept, ReportsFit, Receives, processVars, sizeVars, tabVars
<1> QED
  BY <1>1, <1>2, <1>3, <1>4 DEF ShellInv

\* The input is written, or the child has gone and the worker terminates.
LEMMA WritesKeeps == ASSUME ShellInv, Writes PROVE ShellInv'
<1>1. ShellTypeOK'
  BY DEF ShellInv, ShellTypeOK, Stages, ReaderPlaces, Writes, processVars, sizeVars, tabVars
<1>2. StageFits' /\ SizeFits'
  BY DEF ShellInv, ShellTypeOK, Stages, ReaderPlaces, StageFits, SizeFits, Writes, processVars, sizeVars, tabVars
<1>3. OutputKept'
  BY OutputsNat DEF ShellInv, ShellTypeOK, StageFits, OutputKept, Writes, processVars, sizeVars, tabVars
<1>4. ReportsFit'
  BY OutputsNat DEF ShellInv, ShellTypeOK, StageFits, OutputKept, ReportsFit, Writes, processVars, sizeVars, tabVars
<1> QED
  BY <1>1, <1>2, <1>3, <1>4 DEF ShellInv

\* terminate_child: no child is alive at the join.
LEMMA TerminatesKeeps == ASSUME ShellInv, Terminates PROVE ShellInv'
<1>1. ShellTypeOK'
  BY DEF ShellInv, ShellTypeOK, Stages, ReaderPlaces, Terminates, processVars, sizeVars, tabVars
<1>2. StageFits' /\ SizeFits'
  BY DEF ShellInv, ShellTypeOK, Stages, ReaderPlaces, StageFits, SizeFits, Terminates, processVars, sizeVars, tabVars
<1>3. OutputKept'
  BY OutputsNat DEF ShellInv, ShellTypeOK, StageFits, OutputKept, Terminates, processVars, sizeVars, tabVars
<1>4. ReportsFit'
  BY OutputsNat DEF ShellInv, ShellTypeOK, StageFits, OutputKept, ReportsFit, Terminates, processVars, sizeVars, tabVars
<1> QED
  BY <1>1, <1>2, <1>3, <1>4 DEF ShellInv

\* The outcome is settled once the reader has ended: the child has then
\* exited.
LEMMA JoinsKeeps == ASSUME ShellInv, Joins PROVE ShellInv'
<1>1. ShellTypeOK'
  BY DEF ShellInv, ShellTypeOK, Stages, ReaderPlaces, Joins, processVars, sizeVars, tabVars
<1>2. StageFits' /\ SizeFits'
  BY DEF ShellInv, ShellTypeOK, Stages, ReaderPlaces, StageFits, SizeFits, Joins, processVars, sizeVars, tabVars
<1>3. OutputKept'
  BY OutputsNat DEF ShellInv, ShellTypeOK, StageFits, OutputKept, Joins, processVars, sizeVars, tabVars
<1>4. ReportsFit'
  BY OutputsNat DEF ShellInv, ShellTypeOK, StageFits, OutputKept, ReportsFit, Joins, processVars, sizeVars, tabVars
<1> QED
  BY <1>1, <1>2, <1>3, <1>4 DEF ShellInv

\* The one report of the worker; an exit is reported behind all the output,
\* since the reader has ended.
LEMMA ReportsEndKeeps == ASSUME ShellInv, ReportsEnd PROVE ShellInv'
<1>0. PICK done \in BOOLEAN : Delivers(IF stage = "reporting" THEN "Exited" ELSE "Failed", done)
  BY DEF ReportsEnd
<1>5. (IF stage = "reporting" THEN "Exited" ELSE "Failed") \in ShellEventNames /\ ShellTypeOK
  BY DEF ShellEventNames, ShellInv
<1>6. /\ events' \in Seq(ShellEventNames) /\ reported' \in Seq(ReportRec)
      /\ stopFlag \/ ~monitor => reported' = reported
      /\ ~stopFlag /\ monitor => done /\ Outputs(events') = Outputs(events) + (IF (IF stage = "reporting" THEN "Exited" ELSE "Failed") = "Output" THEN 1 ELSE 0)
      /\ \/ reported' = reported
         \/ /\ (IF stage = "reporting" THEN "Exited" ELSE "Failed") \in {"Exited", "Failed"}
            /\ reported' = Append(reported, [event |-> (IF stage = "reporting" THEN "Exited" ELSE "Failed"), ahead |-> displayed + Outputs(events)])
      /\ (IF stage = "reporting" THEN "Exited" ELSE "Failed") \notin {"Exited", "Failed"} => reported' = reported
  BY <1>0, <1>5, Delivery
<1>1. ShellTypeOK'
  BY <1>0, <1>6 DEF ShellInv, ShellTypeOK, Stages, ReaderPlaces, ReportsEnd, processVars, sizeVars, tabVars
<1>2. StageFits' /\ SizeFits'
  BY <1>0, <1>6 DEF ShellInv, ShellTypeOK, Stages, ReaderPlaces, StageFits, SizeFits, ReportsEnd, processVars, sizeVars, tabVars
<1>3. OutputKept'
  BY <1>0, <1>6, OutputsNat DEF ShellInv, ShellTypeOK, StageFits, OutputKept, ReportsEnd, processVars, sizeVars, tabVars
<1>4. ReportsFit'
  BY <1>0, <1>6, OutputsNat DEF ShellInv, ShellTypeOK, StageFits, OutputKept, ReportsFit, ReportsEnd, processVars, sizeVars, tabVars
<1> QED
  BY <1>1, <1>2, <1>3, <1>4 DEF ShellInv

\* Output of a living child is buffered, and no reader has ended before it.
LEMMA ChildWritesKeeps == ASSUME ShellInv, ChildWrites PROVE ShellInv'
<1>1. ShellTypeOK'
  BY DEF ShellInv, ShellTypeOK, Stages, ReaderPlaces, ChildWrites, processVars, sizeVars, tabVars
<1>2. StageFits' /\ SizeFits'
  BY DEF ShellInv, ShellTypeOK, Stages, ReaderPlaces, StageFits, SizeFits, ChildWrites, processVars, sizeVars, tabVars
<1>3. OutputKept'
  <2>1. Outputs(events) \in Nat
    BY OutputsNat DEF ShellInv, ShellTypeOK
  <2>2. /\ events' = events /\ UNCHANGED <<stopFlag, monitor, reader, displayed, child>> /\ child = "alive"
        /\ buffered' = buffered + 1 /\ produced' = produced + 1
    BY DEF ChildWrites, tabVars
  <2>3. Outputs(events') = Outputs(events)
    BY <2>2
  <2> QED
    BY <2>1, <2>2, <2>3 DEF ShellInv, ShellTypeOK, OutputKept, StageFits
<1>4. ReportsFit'
  BY OutputsNat DEF ShellInv, ShellTypeOK, StageFits, OutputKept, ReportsFit, ChildWrites, processVars, sizeVars, tabVars
<1> QED
  BY <1>1, <1>2, <1>3, <1>4 DEF ShellInv

\* The child exits; nothing it wrote is lost by that.
LEMMA ChildExitsKeeps == ASSUME ShellInv, ChildExits PROVE ShellInv'
<1>1. ShellTypeOK'
  BY DEF ShellInv, ShellTypeOK, Stages, ReaderPlaces, ChildExits, processVars, sizeVars, tabVars
<1>2. StageFits' /\ SizeFits'
  BY DEF ShellInv, ShellTypeOK, Stages, ReaderPlaces, StageFits, SizeFits, ChildExits, processVars, sizeVars, tabVars
<1>3. OutputKept'
  BY OutputsNat DEF ShellInv, ShellTypeOK, StageFits, OutputKept, ChildExits, processVars, sizeVars, tabVars
<1>4. ReportsFit'
  BY OutputsNat DEF ShellInv, ShellTypeOK, StageFits, OutputKept, ReportsFit, ChildExits, processVars, sizeVars, tabVars
<1> QED
  BY <1>1, <1>2, <1>3, <1>4 DEF ShellInv

\* A chunk goes from the terminal to the reader, or the reader ends with
\* nothing buffered.
LEMMA ReadsKeeps == ASSUME ShellInv, Reads PROVE ShellInv'
<1>1. ShellTypeOK'
  BY DEF ShellInv, ShellTypeOK, Stages, ReaderPlaces, Reads, processVars, sizeVars, tabVars
<1>2. StageFits' /\ SizeFits'
  BY DEF ShellInv, ShellTypeOK, Stages, ReaderPlaces, StageFits, SizeFits, Reads, processVars, sizeVars, tabVars
<1>3. OutputKept'
  BY OutputsNat DEF ShellInv, ShellTypeOK, StageFits, OutputKept, Reads, processVars, sizeVars, tabVars
<1>4. ReportsFit'
  BY OutputsNat DEF ShellInv, ShellTypeOK, StageFits, OutputKept, ReportsFit, Reads, processVars, sizeVars, tabVars
<1> QED
  BY <1>1, <1>2, <1>3, <1>4 DEF ShellInv

\* The chunk of the reader is delivered; it fails to be only after the stop
\* or without the monitor.
LEMMA SendsOutputKeeps == ASSUME ShellInv, SendsOutput PROVE ShellInv'
<1>0. PICK done \in BOOLEAN : Delivers("Output", done) /\ reader' = IF done THEN "reading" ELSE "ended"
  BY DEF SendsOutput
<1>5. "Output" \in ShellEventNames /\ ShellTypeOK
  BY DEF ShellEventNames, ShellInv
<1>6. /\ events' \in Seq(ShellEventNames) /\ reported' \in Seq(ReportRec)
      /\ stopFlag \/ ~monitor => reported' = reported
      /\ ~stopFlag /\ monitor => done /\ Outputs(events') = Outputs(events) + (IF "Output" = "Output" THEN 1 ELSE 0)
      /\ \/ reported' = reported
         \/ /\ ("Output") \in {"Exited", "Failed"}
            /\ reported' = Append(reported, [event |-> ("Output"), ahead |-> displayed + Outputs(events)])
      /\ ("Output") \notin {"Exited", "Failed"} => reported' = reported
  BY <1>0, <1>5, Delivery
<1>1. ShellTypeOK'
  BY <1>0, <1>6 DEF ShellInv, ShellTypeOK, Stages, ReaderPlaces, SendsOutput, processVars, sizeVars, tabVars
<1>2. StageFits' /\ SizeFits'
  BY <1>0, <1>6 DEF ShellInv, ShellTypeOK, Stages, ReaderPlaces, StageFits, SizeFits, SendsOutput, processVars, sizeVars, tabVars
<1>3. OutputKept'
  BY <1>0, <1>6, OutputsNat DEF ShellInv, ShellTypeOK, StageFits, OutputKept, SendsOutput, processVars, sizeVars, tabVars
<1>4. ReportsFit'
  BY <1>0, <1>6, OutputsNat DEF ShellInv, ShellTypeOK, StageFits, OutputKept, ReportsFit, SendsOutput, processVars, sizeVars, tabVars
<1> QED
  BY <1>1, <1>2, <1>3, <1>4 DEF ShellInv

\* A read error: the reader goes to its report, or ends when the shell was
\* stopped.
LEMMA ReadFailsKeeps == ASSUME ShellInv, ReadFails PROVE ShellInv'
<1>1. ShellTypeOK'
  BY DEF ShellInv, ShellTypeOK, Stages, ReaderPlaces, ReadFails, processVars, sizeVars, tabVars
<1>2. StageFits' /\ SizeFits'
  BY DEF ShellInv, ShellTypeOK, Stages, ReaderPlaces, StageFits, SizeFits, ReadFails, processVars, sizeVars, tabVars
<1>3. OutputKept'
  BY OutputsNat DEF ShellInv, ShellTypeOK, StageFits, OutputKept, ReadFails, processVars, sizeVars, tabVars
<1>4. ReportsFit'
  BY OutputsNat DEF ShellInv, ShellTypeOK, StageFits, OutputKept, ReportsFit, ReadFails, processVars, sizeVars, tabVars
<1> QED
  BY <1>1, <1>2, <1>3, <1>4 DEF ShellInv

\* The reader's Failed is the first report, since the worker reports only
\* after the reader ended.
LEMMA ReportsReadErrorKeeps == ASSUME ShellInv, ReportsReadError PROVE ShellInv'
<1>0. PICK done \in BOOLEAN : Delivers("Failed", done)
  BY DEF ReportsReadError
<1>5. "Failed" \in ShellEventNames /\ ShellTypeOK
  BY DEF ShellEventNames, ShellInv
<1>6. /\ events' \in Seq(ShellEventNames) /\ reported' \in Seq(ReportRec)
      /\ stopFlag \/ ~monitor => reported' = reported
      /\ ~stopFlag /\ monitor => done /\ Outputs(events') = Outputs(events) + (IF "Failed" = "Output" THEN 1 ELSE 0)
      /\ \/ reported' = reported
         \/ /\ ("Failed") \in {"Exited", "Failed"}
            /\ reported' = Append(reported, [event |-> ("Failed"), ahead |-> displayed + Outputs(events)])
      /\ ("Failed") \notin {"Exited", "Failed"} => reported' = reported
  BY <1>0, <1>5, Delivery
<1>1. ShellTypeOK'
  BY <1>0, <1>6 DEF ShellInv, ShellTypeOK, Stages, ReaderPlaces, ReportsReadError, processVars, sizeVars, tabVars
<1>2. StageFits' /\ SizeFits'
  BY <1>0, <1>6 DEF ShellInv, ShellTypeOK, Stages, ReaderPlaces, StageFits, SizeFits, ReportsReadError, processVars, sizeVars, tabVars
<1>3. OutputKept'
  BY <1>0, <1>6, OutputsNat DEF ShellInv, ShellTypeOK, StageFits, OutputKept, ReportsReadError, processVars, sizeVars, tabVars
<1>4. ReportsFit'
  BY <1>0, <1>6, OutputsNat DEF ShellInv, ShellTypeOK, StageFits, OutputKept, ReportsFit, ReportsReadError, processVars, sizeVars, tabVars
<1> QED
  BY <1>1, <1>2, <1>3, <1>4 DEF ShellInv

\* The reader that reported raises the stop flag, so that the worker reports
\* nothing more.
LEMMA StopsWorkerKeeps == ASSUME ShellInv, StopsWorker PROVE ShellInv'
<1>1. ShellTypeOK'
  BY DEF ShellInv, ShellTypeOK, Stages, ReaderPlaces, StopsWorker, processVars, sizeVars, tabVars
<1>2. StageFits' /\ SizeFits'
  BY DEF ShellInv, ShellTypeOK, Stages, ReaderPlaces, StageFits, SizeFits, StopsWorker, processVars, sizeVars, tabVars
<1>3. OutputKept'
  BY OutputsNat DEF ShellInv, ShellTypeOK, StageFits, OutputKept, StopsWorker, processVars, sizeVars, tabVars
<1>4. ReportsFit'
  BY OutputsNat DEF ShellInv, ShellTypeOK, StageFits, OutputKept, ReportsFit, StopsWorker, processVars, sizeVars, tabVars
<1> QED
  BY <1>1, <1>2, <1>3, <1>4 DEF ShellInv

\* An event reaches the tab: output is shown, an end takes the monitor away.
LEMMA MonitorReceivesKeeps == ASSUME ShellInv, MonitorReceives PROVE ShellInv'
<1>0. /\ Tail(events) \in Seq(ShellEventNames) /\ Outputs(Tail(events)) \in Nat
      /\ Outputs(events) = Outputs(Tail(events)) + (IF Head(events) = "Output" THEN 1 ELSE 0)
  <2>1. events \in Seq(ShellEventNames) /\ events # <<>>
    BY DEF ShellInv, ShellTypeOK, MonitorReceives
  <2> QED
    BY <2>1, OutputsTail
<1>5. UNCHANGED <<stage, outcome, reader, child, produced, buffered, killable, requested, slot, applied, reported>>
  BY DEF MonitorReceives, processVars, sizeVars
<1>6. \/ /\ ~monitor' /\ events' = <<>> /\ displayed' = displayed
         /\ stopFlag' \in {stopFlag, TRUE}
      \/ /\ monitor' = monitor /\ stopFlag' = stopFlag /\ events' = Tail(events)
         /\ displayed' = IF Head(events) = "Output" THEN displayed + 1 ELSE displayed
  BY DEF MonitorReceives, Finishes, StartsShutdown
<1>1. ShellTypeOK'
  <2>1. events' \in Seq(ShellEventNames)
    <3>1. <<>> \in Seq(ShellEventNames)
      OBVIOUS
    <3> QED
      BY <1>0, <1>6, <3>1
  <2>2. displayed' \in Nat
    <3>1. displayed \in Nat
      BY DEF ShellInv, ShellTypeOK
    <3>2. displayed' = displayed \/ displayed' = displayed + 1
      BY <1>6
    <3> QED
      BY <3>1, <3>2
  <2>3. stopFlag' \in BOOLEAN /\ monitor' \in BOOLEAN
    <3>1. stopFlag \in BOOLEAN /\ monitor \in BOOLEAN
      BY DEF ShellInv, ShellTypeOK
    <3> QED
      BY <3>1, Zenon DEF MonitorReceives, Finishes, StartsShutdown
  <2> QED
    BY <1>5, <2>1, <2>2, <2>3 DEF ShellInv, ShellTypeOK
<1>2. StageFits' /\ SizeFits'
  BY <1>5 DEF ShellInv, ShellTypeOK, StageFits, SizeFits
<1>3. OutputKept'
  <2>1. CASE ~monitor'
    BY <2>1 DEF OutputKept
  <2>2. CASE monitor'
    <3>1. /\ monitor' = monitor /\ stopFlag' = stopFlag
          /\ displayed' + Outputs(events') = displayed + Outputs(events)
      <4>1. displayed \in Nat /\ Outputs(Tail(events)) \in Nat
        BY <1>0 DEF ShellInv, ShellTypeOK
      <4>2. events' = Tail(events) /\ monitor' = monitor /\ stopFlag' = stopFlag
        BY <1>6, <2>2
      <4>3. CASE Head(events) = "Output"
        <5>1. displayed' = displayed + 1 /\ Outputs(events) = Outputs(Tail(events)) + 1
          BY <1>0, <1>6, <2>2, <4>3
        <5> QED
          BY <4>1, <4>2, <5>1
      <4>4. CASE Head(events) # "Output"
        <5>1. displayed' = displayed /\ Outputs(events) = Outputs(Tail(events)) + 0
          BY <1>0, <1>6, <2>2, <4>4
        <5> QED
          BY <4>1, <4>2, <5>1
      <4> QED
        BY <4>3, <4>4
    <3> QED
      BY <1>5, <3>1 DEF ShellInv, ShellTypeOK, OutputKept
  <2> QED
    BY <2>1, <2>2
<1>4. ReportsFit'
  BY <1>5, <1>6 DEF ShellInv, ShellTypeOK, ReportsFit
<1> QED
  BY <1>1, <1>2, <1>3, <1>4 DEF ShellInv

\* The channel is closed and the monitor goes.
LEMMA MonitorEndsKeeps == ASSUME ShellInv, MonitorEnds PROVE ShellInv'
<1>1. ShellTypeOK'
  BY DEF ShellInv, ShellTypeOK, Stages, ReaderPlaces, MonitorEnds, processVars, sizeVars, tabVars, Finishes, StartsShutdown
<1>2. StageFits' /\ SizeFits'
  BY DEF ShellInv, ShellTypeOK, Stages, ReaderPlaces, StageFits, SizeFits, MonitorEnds, processVars, sizeVars, tabVars, Finishes, StartsShutdown
<1>3. OutputKept'
  BY OutputsNat DEF ShellInv, ShellTypeOK, StageFits, OutputKept, MonitorEnds, processVars, sizeVars, tabVars, Finishes, StartsShutdown
<1>4. ReportsFit'
  BY OutputsNat DEF ShellInv, ShellTypeOK, StageFits, OutputKept, ReportsFit, MonitorEnds, processVars, sizeVars, tabVars, Finishes, StartsShutdown
<1> QED
  BY <1>1, <1>2, <1>3, <1>4 DEF ShellInv

\* retry_terminal_notice_tab begins anew, with everything back at its start.
LEMMA ResumesKeeps == ASSUME ShellInv, Resumes PROVE ShellInv'
<1>1. ShellTypeOK'
  <2>1. <<>> \in Seq(ReportRec) /\ <<>> \in Seq(ShellEventNames) /\ 0 \in Nat
    OBVIOUS
  <2> QED
    BY <2>1, Zenon DEF Resumes, ShellTypeOK, Stages, ReaderPlaces
<1>2. StageFits' /\ SizeFits'
  BY DEF ShellInv, ShellTypeOK, Stages, ReaderPlaces, StageFits, SizeFits, Resumes, processVars, sizeVars, tabVars
<1>3. OutputKept'
  BY OutputsEmpty DEF ShellInv, ShellTypeOK, StageFits, OutputKept, Resumes, processVars, sizeVars, tabVars
<1>4. ReportsFit'
  BY OutputsEmpty DEF ShellInv, ShellTypeOK, StageFits, OutputKept, ReportsFit, Resumes, processVars, sizeVars, tabVars
<1> QED
  BY <1>1, <1>2, <1>3, <1>4 DEF ShellInv

\* The local shell (run_local_shell and read_output): one report, an exit
\* only behind all the output, no child past its worker, and no size lost;
\* for any capacities and amount of output.
THEOREM ShellIsSound == ShellSpec => []ShellSound
<1>1. ShellInit => ShellInv
  <2> SUFFICES ASSUME ShellInit PROVE ShellInv
    OBVIOUS
  <2>1. <<>> \in Seq(ReportRec) /\ <<>> \in Seq(ShellEventNames) /\ 0 \in Nat
    OBVIOUS
  <2>2. ShellTypeOK
    BY <2>1, Zenon DEF ShellInit, ShellTypeOK, Stages, ReaderPlaces
  <2>3. Len(reported) = 0 /\ Outputs(events) = 0
    BY OutputsEmpty DEF ShellInit
  <2> QED
    BY <2>2, <2>3 DEF ShellInit, ShellInv, StageFits, OutputKept, ReportsFit, SizeFits
<1>2. ShellInv /\ [ShellNext]_shellVars => ShellInv'
  <2> SUFFICES ASSUME ShellInv, [ShellNext]_shellVars PROVE ShellInv'
    OBVIOUS
  <2>1. CASE UNCHANGED shellVars
    BY <2>1 DEF shellVars, ShellInv, ShellTypeOK, StageFits, OutputKept, ReportsFit, SizeFits
  <2>2. CASE ShellWorker
    BY <2>2, OpensKeeps, RegistersKeeps, AnnouncesKeeps, LoopsKeeps, AnnouncesSizeKeeps, PollsKeeps, ReceivesKeeps,
       TerminatesKeeps, JoinsKeeps, ReportsEndKeeps DEF ShellWorker
  <2>3. CASE ShellReader \/ ShellMonitor \/ ShellOwner
    BY <2>3, ReadsKeeps, SendsOutputKeeps, ReportsReadErrorKeeps, StopsWorkerKeeps, MonitorReceivesKeeps,
       MonitorEndsKeeps, ForceKillKeeps, ShutdownEndsKeeps DEF ShellReader, ShellMonitor, ShellOwner
  <2> QED
    BY <2>1, <2>2, <2>3, RequestSendKeeps, RequestDisconnectKeeps, CloseLocalTabKeeps, RequestResizeKeeps, WritesKeeps,
       ReadFailsKeeps, ChildWritesKeeps, ChildExitsKeeps, ResumesKeeps DEF ShellNext
<1>3. ShellInv => ShellSound
  <2> SUFFICES ASSUME ShellInv PROVE ShellSound
    OBVIOUS
  <2>1. ASSUME NEW r \in Range(reported) PROVE \E k \in 1 .. Len(reported) : reported[k] = r
    BY <2>1 DEF Range, ShellInv, ShellTypeOK
  <2> QED
    BY <2>1 DEF ShellInv, ShellTypeOK, StageFits, ReportsFit, SizeFits, ShellSound
<1> QED
  BY <1>1, <1>2, <1>3, PTL DEF ShellSpec

-----------------------------------------------------------------------------
(* The local display: X11Relay. *)

X11Spec == X11Init /\ [][X11Next]_x11Vars

Places == {"unprepared", "idle", "rejected", "accepting", "setup", "failed", "connecting", "relaying", "over",
           "looking", "queued", "rechecking", "launching", "polling", "found", "failing", "aborted"}
X11TypeOK ==
  /\ client \in [Clients -> Places]
  /\ plan \in [launches : BOOLEAN, installed : BOOLEAN, allowNoAuth : BOOLEAN]
  /\ xserver \in {"absent", "starting", "up"} /\ cookies \in BOOLEAN /\ expired \in BOOLEAN
  /\ launchLock \in Clients \cup {Nil}
  /\ touched \subseteq Clients /\ proved \subseteq [client : Clients, expired : BOOLEAN]
  /\ launches \in [made : Nat, lapsed : Nat]

Locking == {"rechecking", "launching", "polling", "found", "failing"}
Preparing == {"looking", "queued"} \cup Locking

\* The cookie of the connection was shown, in time.
Gated(c) == \E p \in proved : p.client = c /\ (c \in Untrusted => ~p.expired)
\* Past its setup a relay has shown the cookie.
GateInv == \A c \in Clients \ {Preparation} :
             c \in touched \/ client[c] \in Preparing \cup {"connecting", "relaying"} => Gated(c)

\* The lock is held by who is preparing under it; a relay of an untrusted terminal never is.
LockInv ==
  /\ launchLock # Nil => client[launchLock] \in Locking
  /\ \A c \in Clients : client[c] \in {"rechecking", "launching", "polling"} => launchLock = c
  /\ \A c \in Untrusted : client[c] \notin Preparing

\* Of the starts made at most one is not lapsed: that of the server which is up or waited for.
StartInv ==
  /\ launches.made <= 1 + launches.lapsed
  /\ (\E c \in Clients : client[c] = "launching") => launches.made <= launches.lapsed
  /\ xserver # "up" /\ (\A c \in Clients : client[c] # "polling") => launches.made <= launches.lapsed

X11Inv == X11TypeOK /\ GateInv /\ LockInv /\ StartInv

\* A channel is accepted for setup or rejected; nothing is reached yet.
LEMMA ChannelOpensKeeps == ASSUME X11Inv, NEW c \in Clients, ChannelOpens(c) PROVE X11Inv'
<1>1. X11TypeOK'
  BY DEF X11Inv, X11TypeOK, Places, ChannelOpens, Moves, desktopVars
<1>2. GateInv'
  BY X11Assumption DEF X11Inv, X11TypeOK, GateInv, Gated, Preparing, Locking, Clients, ChannelOpens, Moves, desktopVars
<1>3. LockInv'
  BY X11Assumption DEF X11Inv, X11TypeOK, LockInv, Preparing, Locking, Clients, ChannelOpens, Moves, desktopVars
<1>4. StartInv'
  BY DEF X11Inv, X11TypeOK, LockInv, StartInv, ChannelOpens, Moves, desktopVars
<1> QED
  BY <1>1, <1>2, <1>3, <1>4 DEF X11Inv

\* The remote end is told, or is not in time.
LEMMA ChannelAcceptedKeeps == ASSUME X11Inv, NEW c \in Clients, ChannelAccepted(c) PROVE X11Inv'
<1>1. X11TypeOK'
  BY DEF X11Inv, X11TypeOK, Places, ChannelAccepted, Moves, desktopVars
<1>2. GateInv'
  BY X11Assumption DEF X11Inv, X11TypeOK, GateInv, Gated, Preparing, Locking, Clients, ChannelAccepted, Moves, desktopVars
<1>3. LockInv'
  BY X11Assumption DEF X11Inv, X11TypeOK, LockInv, Preparing, Locking, Clients, ChannelAccepted, Moves, desktopVars
<1>4. StartInv'
  BY DEF X11Inv, X11TypeOK, LockInv, StartInv, ChannelAccepted, Moves, desktopVars
<1> QED
  BY <1>1, <1>2, <1>3, <1>4 DEF X11Inv

\* A setup that does not arrive ends its relay.
LEMMA SetupMissingKeeps == ASSUME X11Inv, NEW c \in Clients, SetupMissing(c) PROVE X11Inv'
<1>1. X11TypeOK'
  BY DEF X11Inv, X11TypeOK, Places, SetupMissing, Moves, desktopVars
<1>2. GateInv'
  BY X11Assumption DEF X11Inv, X11TypeOK, GateInv, Gated, Preparing, Locking, Clients, SetupMissing, Moves, desktopVars
<1>3. LockInv'
  BY X11Assumption DEF X11Inv, X11TypeOK, LockInv, Preparing, Locking, Clients, SetupMissing, Moves, desktopVars
<1>4. StartInv'
  BY DEF X11Inv, X11TypeOK, LockInv, StartInv, SetupMissing, Moves, desktopVars
<1> QED
  BY <1>1, <1>2, <1>3, <1>4 DEF X11Inv

\* A relay connects only past its setup, so the display it touches was gated.
LEMMA ConnectedKeeps == ASSUME X11Inv, NEW c \in Clients, Connected(c) PROVE X11Inv'
<1>1. X11TypeOK'
  BY DEF X11Inv, X11TypeOK, Places, Connected, Moves, desktopVars
<1>2. GateInv'
  BY X11Assumption DEF X11Inv, X11TypeOK, GateInv, Gated, Preparing, Locking, Clients, Connected, Moves, desktopVars
<1>3. LockInv'
  BY X11Assumption DEF X11Inv, X11TypeOK, LockInv, Preparing, Locking, Clients, Connected, Moves, desktopVars
<1>4. StartInv'
  BY DEF X11Inv, X11TypeOK, LockInv, StartInv, Connected, Moves, desktopVars
<1> QED
  BY <1>1, <1>2, <1>3, <1>4 DEF X11Inv

\* A relay that closes holds no lock.
LEMMA RelayClosesKeeps == ASSUME X11Inv, NEW c \in Clients, RelayCloses(c) PROVE X11Inv'
<1>1. X11TypeOK'
  BY DEF X11Inv, X11TypeOK, Places, RelayCloses, Moves, desktopVars
<1>2. GateInv'
  BY X11Assumption DEF X11Inv, X11TypeOK, GateInv, Gated, Preparing, Locking, Clients, RelayCloses, Moves, desktopVars
<1>3. LockInv'
  BY X11Assumption DEF X11Inv, X11TypeOK, LockInv, Preparing, Locking, Clients, RelayCloses, Moves, desktopVars
<1>4. StartInv'
  BY DEF X11Inv, X11TypeOK, LockInv, StartInv, RelayCloses, Moves, desktopVars
<1> QED
  BY <1>1, <1>2, <1>3, <1>4 DEF X11Inv

\* The first look at the displays is of a trusted client past its setup, or
\* of the preparation.
LEMMA LooksFirstKeeps == ASSUME X11Inv, NEW c \in Clients, LooksFirst(c) PROVE X11Inv'
<1>1. X11TypeOK'
  BY DEF X11Inv, X11TypeOK, Places, LooksFirst, Moves, desktopVars, Looks, Usable, Reachable
<1>2. GateInv'
  BY X11Assumption DEF X11Inv, X11TypeOK, GateInv, Gated, Preparing, Locking, Clients, LooksFirst, Moves, desktopVars, Looks, Usable, Reachable
<1>3. LockInv'
  BY X11Assumption DEF X11Inv, X11TypeOK, LockInv, Preparing, Locking, Clients, LooksFirst, Moves, desktopVars, Looks, Usable, Reachable
<1>4. StartInv'
  BY DEF X11Inv, X11TypeOK, LockInv, StartInv, LooksFirst, Moves, desktopVars, Looks, Usable, Reachable
<1> QED
  BY <1>1, <1>2, <1>3, <1>4 DEF X11Inv

\* The launch lock is taken only when it is free.
LEMMA TakesLockKeeps == ASSUME X11Inv, NEW c \in Clients, TakesLock(c) PROVE X11Inv'
<1>1. X11TypeOK'
  BY DEF X11Inv, X11TypeOK, Places, TakesLock, Moves, desktopVars
<1>2. GateInv'
  BY X11Assumption DEF X11Inv, X11TypeOK, GateInv, Gated, Preparing, Locking, Clients, TakesLock, Moves, desktopVars
<1>3. LockInv'
  BY X11Assumption DEF X11Inv, X11TypeOK, LockInv, Preparing, Locking, Clients, TakesLock, Moves, desktopVars
<1>4. StartInv'
  BY DEF X11Inv, X11TypeOK, LockInv, StartInv, TakesLock, Moves, desktopVars
<1> QED
  BY <1>1, <1>2, <1>3, <1>4 DEF X11Inv

\* The look under the lock: a server that is up and gives no authorization
\* counts as lapsed before another start.
LEMMA LooksAgainKeeps == ASSUME X11Inv, NEW c \in Clients, LooksAgain(c) PROVE X11Inv'
<1>1. X11TypeOK'
  BY DEF X11Inv, X11TypeOK, Places, LooksAgain, Moves, desktopVars, Looks, Usable, Reachable
<1>2. GateInv'
  BY X11Assumption DEF X11Inv, X11TypeOK, GateInv, Gated, Preparing, Locking, Clients, LooksAgain, Moves, desktopVars, Looks, Usable, Reachable
<1>3. LockInv'
  BY X11Assumption DEF X11Inv, X11TypeOK, LockInv, Preparing, Locking, Clients, LooksAgain, Moves, desktopVars, Looks, Usable, Reachable
<1>4. StartInv'
  BY DEF X11Inv, X11TypeOK, LockInv, StartInv, LooksAgain, Moves, desktopVars, Looks, Usable, Reachable
<1> QED
  BY <1>1, <1>2, <1>3, <1>4 DEF X11Inv

\* A start under the lock: the earlier ones have all lapsed, because the
\* server was not up and nobody polled.
LEMMA LaunchesKeeps == ASSUME X11Inv, NEW c \in Clients, Launches(c) PROVE X11Inv'
<1>1. X11TypeOK'
  BY DEF X11Inv, X11TypeOK, Places, Launches, Moves, desktopVars
<1>2. GateInv'
  BY X11Assumption DEF X11Inv, X11TypeOK, GateInv, Gated, Preparing, Locking, Clients, Launches, Moves, desktopVars
<1>3. LockInv'
  BY X11Assumption DEF X11Inv, X11TypeOK, LockInv, Preparing, Locking, Clients, Launches, Moves, desktopVars
<1>4. StartInv'
  BY DEF X11Inv, X11TypeOK, LockInv, StartInv, Launches, Moves, desktopVars
<1> QED
  BY <1>1, <1>2, <1>3, <1>4 DEF X11Inv

\* Nothing was started.
LEMMA LaunchFailsKeeps == ASSUME X11Inv, NEW c \in Clients, LaunchFails(c) PROVE X11Inv'
<1>1. X11TypeOK'
  BY DEF X11Inv, X11TypeOK, Places, LaunchFails, Moves, desktopVars
<1>2. GateInv'
  BY X11Assumption DEF X11Inv, X11TypeOK, GateInv, Gated, Preparing, Locking, Clients, LaunchFails, Moves, desktopVars
<1>3. LockInv'
  BY X11Assumption DEF X11Inv, X11TypeOK, LockInv, Preparing, Locking, Clients, LaunchFails, Moves, desktopVars
<1>4. StartInv'
  BY DEF X11Inv, X11TypeOK, LockInv, StartInv, LaunchFails, Moves, desktopVars
<1> QED
  BY <1>1, <1>2, <1>3, <1>4 DEF X11Inv

\* The server was found, and the start that is not lapsed is its own.
LEMMA PollsServerKeeps == ASSUME X11Inv, NEW c \in Clients, PollsServer(c) PROVE X11Inv'
<1>1. X11TypeOK'
  BY DEF X11Inv, X11TypeOK, Places, PollsServer, Moves, desktopVars, Looks, Usable, Reachable
<1>2. GateInv'
  BY X11Assumption DEF X11Inv, X11TypeOK, GateInv, Gated, Preparing, Locking, Clients, PollsServer, Moves, desktopVars, Looks, Usable, Reachable
<1>3. LockInv'
  BY X11Assumption DEF X11Inv, X11TypeOK, LockInv, Preparing, Locking, Clients, PollsServer, Moves, desktopVars, Looks, Usable, Reachable
<1>4. StartInv'
  BY DEF X11Inv, X11TypeOK, LockInv, StartInv, PollsServer, Moves, desktopVars, Looks, Usable, Reachable
<1> QED
  BY <1>1, <1>2, <1>3, <1>4 DEF X11Inv

\* SERVER_START_TIMEOUT: the start is given up, as lapsed.
LEMMA PollingTimesOutKeeps == ASSUME X11Inv, NEW c \in Clients, PollingTimesOut(c) PROVE X11Inv'
<1>1. X11TypeOK'
  BY DEF X11Inv, X11TypeOK, Places, PollingTimesOut, Moves, desktopVars
<1>2. GateInv'
  BY X11Assumption DEF X11Inv, X11TypeOK, GateInv, Gated, Preparing, Locking, Clients, PollingTimesOut, Moves, desktopVars
<1>3. LockInv'
  BY X11Assumption DEF X11Inv, X11TypeOK, LockInv, Preparing, Locking, Clients, PollingTimesOut, Moves, desktopVars
<1>4. StartInv'
  BY DEF X11Inv, X11TypeOK, LockInv, StartInv, PollingTimesOut, Moves, desktopVars
<1> QED
  BY <1>1, <1>2, <1>3, <1>4 DEF X11Inv

\* The lock is dropped with the preparation.
LEMMA PreparationReturnsKeeps == ASSUME X11Inv, NEW c \in Clients, PreparationReturns(c) PROVE X11Inv'
<1>1. X11TypeOK'
  BY DEF X11Inv, X11TypeOK, Places, PreparationReturns, Moves, desktopVars, Prepared, Releases
<1>2. GateInv'
  BY X11Assumption DEF X11Inv, X11TypeOK, GateInv, Gated, Preparing, Locking, Clients, PreparationReturns, Moves, desktopVars, Prepared, Releases
<1>3. LockInv'
  BY X11Assumption DEF X11Inv, X11TypeOK, LockInv, Preparing, Locking, Clients, PreparationReturns, Moves, desktopVars, Prepared, Releases
<1>4. StartInv'
  <2>1. UNCHANGED <<launches, xserver>>
    BY DEF PreparationReturns, desktopVars
  <2>2. \A b \in Clients : client'[b] \in {"launching", "polling"} <=> client[b] \in {"launching", "polling"}
    BY X11Assumption DEF X11Inv, X11TypeOK, LockInv, PreparationReturns, Prepared, Preparing, Locking
  <2>3. \A b \in Clients : client'[b] = client[b] \/ client'[b] \notin {"launching", "polling"}
    BY DEF X11Inv, X11TypeOK, PreparationReturns, Prepared
  <2> QED
    BY <2>1, <2>2, <2>3 DEF X11Inv, StartInv
<1> QED
  BY <1>1, <1>2, <1>3, <1>4 DEF X11Inv

\* shutdown_x11_relays: an aborted client drops the lock, and its start
\* counts as lapsed.
LEMMA AbortsKeeps == ASSUME X11Inv, NEW c \in Clients, Aborts(c) PROVE X11Inv'
<1>1. X11TypeOK'
  BY DEF X11Inv, X11TypeOK, Places, Aborts, Moves, desktopVars, Releases, Ended
<1>2. GateInv'
  BY X11Assumption DEF X11Inv, X11TypeOK, GateInv, Gated, Preparing, Locking, Clients, Aborts, Moves, desktopVars, Releases, Ended
<1>3. LockInv'
  BY X11Assumption DEF X11Inv, X11TypeOK, LockInv, Preparing, Locking, Clients, Aborts, Moves, desktopVars, Releases, Ended
<1>4. StartInv'
  BY DEF X11Inv, X11TypeOK, LockInv, StartInv, Aborts, Moves, desktopVars, Releases, Ended
<1> QED
  BY <1>1, <1>2, <1>3, <1>4 DEF X11Inv

\* validate_setup_packet: only a setup with the cookie, in time for an
\* untrusted terminal, lets a client go on.
LEMMA SetupArrivesKeeps == ASSUME X11Inv, NEW c \in Clients, NEW setup \in Setups, SetupArrives(c, setup) PROVE X11Inv'
<1>1. X11TypeOK'
  BY DEF X11Inv, X11TypeOK, Places, SetupArrives, Moves, desktopVars
<1>2. GateInv'
  <2>1. ASSUME NEW b \in Clients, Gated(b) PROVE Gated(b)'
    BY <2>1 DEF Gated, SetupArrives
  <2>2. SetupAccepted(setup) /\ (c \in Untrusted => ~expired) => Gated(c)'
    <3>1. SUFFICES ASSUME SetupAccepted(setup), c \in Untrusted => ~expired PROVE Gated(c)'
      OBVIOUS
    <3> DEFINE p == [client |-> c, expired |-> expired]
    <3>2. p \in proved'
      BY <3>1 DEF SetupArrives
    <3>3. p.client = c /\ p.expired = expired
      OBVIOUS
    <3> HIDE DEF p
    <3> QED
      BY <3>1, <3>2, <3>3 DEF Gated
  <2>3. ASSUME NEW b \in Clients \ {Preparation}, b # c PROVE client'[b] = client[b]
    BY <2>3 DEF SetupArrives, Moves, X11Inv, X11TypeOK
  <2>4. client'[c] \in Preparing \cup {"connecting", "relaying"} => SetupAccepted(setup) /\ (c \in Untrusted => ~expired)
    BY X11Assumption DEF SetupArrives, Moves, X11Inv, X11TypeOK, Preparing, Locking, Clients
  <2>5. touched' = touched
    BY DEF SetupArrives
  <2> QED
    BY <2>1, <2>2, <2>3, <2>4, <2>5 DEF X11Inv, GateInv
<1>3. LockInv'
  BY X11Assumption DEF X11Inv, X11TypeOK, LockInv, Preparing, Locking, Clients, SetupArrives, Moves, desktopVars
<1>4. StartInv'
  BY DEF X11Inv, X11TypeOK, LockInv, StartInv, SetupArrives, Moves, desktopVars
<1> QED
  BY <1>1, <1>2, <1>3, <1>4 DEF X11Inv

\* The X server, xauth and the clock, and the begin of the preparation of a
\* terminal.
LEMMA DesktopKeeps ==
  ASSUME X11Inv, PreparationBegins \/ ServerComesUp \/ ServerGoes \/ XauthChanges \/ AuthorizationExpires \/ UNCHANGED x11Vars
  PROVE  X11Inv'
<1>1. X11TypeOK'
  <2>1. CASE PreparationBegins
    BY <2>1 DEF X11Inv, X11TypeOK, Places, Moves, desktopVars, PreparationBegins, Clients
  <2>2. CASE ServerComesUp \/ ServerGoes
    BY <2>2 DEF X11Inv, X11TypeOK, ServerComesUp, ServerGoes
  <2>3. CASE XauthChanges \/ AuthorizationExpires \/ UNCHANGED x11Vars
    BY <2>3 DEF X11Inv, X11TypeOK, XauthChanges, AuthorizationExpires, x11Vars
  <2> QED
    BY <2>1, <2>2, <2>3
<1>2. GateInv'
  BY X11Assumption DEF X11Inv, X11TypeOK, GateInv, Gated, Preparing, Locking, Clients, Moves, desktopVars, x11Vars, PreparationBegins, ServerComesUp, ServerGoes, XauthChanges, AuthorizationExpires
<1>3. LockInv'
  BY X11Assumption DEF X11Inv, X11TypeOK, LockInv, Preparing, Locking, Clients, Moves, desktopVars, x11Vars, PreparationBegins, ServerComesUp, ServerGoes, XauthChanges, AuthorizationExpires
<1>4. StartInv'
  BY DEF X11Inv, X11TypeOK, LockInv, StartInv, Moves, desktopVars, x11Vars, PreparationBegins, ServerComesUp, ServerGoes, XauthChanges, AuthorizationExpires
<1> QED
  BY <1>1, <1>2, <1>3, <1>4 DEF X11Inv

\* X11 relays and the preparation of the local display
\* (authenticate_then_prepare, prepare_trusted): the display is reached only
\* behind the cookie, the server is started once, and the lock is held by who
\* is at work; for any number of channels.
THEOREM X11IsSound == X11Spec => []X11Sound
<1>1. X11Init => X11Inv
  <2> SUFFICES ASSUME X11Init PROVE X11Inv
    OBVIOUS
  <2>1. \A c \in Clients : client[c] \in {"unprepared", "idle"}
    BY DEF X11Init
  <2>2. X11TypeOK
    <3>1. 0 \in Nat
      OBVIOUS
    <3> QED
      BY <3>1 DEF X11Init, X11TypeOK, Places
  <2>3. launchLock = Nil /\ touched = {} /\ launches.made = 0 /\ launches.lapsed = 0
    BY DEF X11Init
  <2>4. LockInv
    BY <2>1, <2>3 DEF LockInv, Preparing, Locking, Clients
  <2> QED
    BY <2>1, <2>2, <2>3, <2>4 DEF X11Inv, GateInv, StartInv, Preparing, Locking
<1>2. X11Inv /\ [X11Next]_x11Vars => X11Inv'
  <2> SUFFICES ASSUME X11Inv, [X11Next]_x11Vars PROVE X11Inv'
    OBVIOUS
  <2>1. ASSUME NEW c \in Clients, ClientStep(c) PROVE X11Inv'
    BY <2>1, ChannelAcceptedKeeps, SetupMissingKeeps, ConnectedKeeps, LooksFirstKeeps, TakesLockKeeps, LooksAgainKeeps,
       LaunchesKeeps, LaunchFailsKeeps, PollsServerKeeps, PollingTimesOutKeeps, PreparationReturnsKeeps DEF ClientStep
  <2> QED
    BY <2>1, DesktopKeeps, ChannelOpensKeeps, RelayClosesKeeps, AbortsKeeps, SetupArrivesKeeps DEF X11Next
<1>3. X11Inv => X11Sound
  BY DEF X11Inv, X11TypeOK, GateInv, Gated, LockInv, StartInv, X11Sound, DisplayIsGated, StartedOnce, LockIsHeld, Locking, Ended
<1> QED
  BY <1>1, <1>2, <1>3, PTL DEF X11Spec

-----------------------------------------------------------------------------
(* The SSH worker: SshShell. *)

SshSpec == SshInit /\ [][SshNext]_sshVars

EarlyRuns == {"connecting", "preparing", "sourcing", "opening"}
LoopRuns == {"open", "writing"}
TailRuns == {"flushing", "stopping", "leaving", "cleaning"}
Runs == EarlyRuns \cup LoopRuns \cup TailRuns \cup {"returning", "littering", "ended"}
X11Told == {"X11ForwardingEnabled", "X11ForwardingUnavailable"}
PlainEvents == {"Connected", "Resized", "Output"} \cup X11Told
EndRec == [event : EndEvents, ahead : Nat, behind : Nat]

X11Rec == [wanted : BOOLEAN, prepared : BOOLEAN, status : {"NotRequested", "Enabled", "Rejected"},
           on : BOOLEAN, open : BOOLEAN, queue : Nat, relays : Nat, told : BOOLEAN]

SshTypeOK ==
  /\ run \in Runs /\ carry \in Nat
  /\ wanted \in [size : ShellSizes, unseen : BOOLEAN]
  /\ outputs \in [read : Nat, held : Nat, sent : Nat, awaiting : BOOLEAN]
  /\ x11 \in X11Rec
  /\ media \in [automatic : BOOLEAN, microphone : BOOLEAN, stop : BOOLEAN]
  /\ images \in [Images -> {"free", "opening", "listed", "made", "over"}]
  /\ directories \in [listed : SUBSET Images, made : SUBSET Images]
  /\ probe \in {"none", "reading", "sending", "over"}
  /\ verdict \in [failed : BOOLEAN, exited : BOOLEAN]

\* What the worker is about to send; an end is sent alone.
OutboxFits ==
  \/ outbox = <<>>
  \/ \E e \in PlainEvents \cup EndEvents : outbox = <<e>>
  \/ \E e \in X11Told : outbox = <<"Connected", e>>
EndOut == \E e \in EndEvents : outbox = <<e>>

\* All output read is sent, about to be sent or held, and held only in the loop.
OutputAccounted ==
  /\ carry # 0 => outbox = <<"Output">>
  /\ outputs.sent + carry + outputs.held = outputs.read
  /\ run \notin LoopRuns \cup {"flushing", "ended"} => outputs.held = 0

\* The end that was reported.
FinaleFits ==
  \/ finale = <<>>
  \/ \E r \in EndRec : /\ finale = <<r>>
                       /\ r.event # "Failed" => r.ahead = outputs.read /\ r.behind = 0
                       /\ verdict.failed => r.event = "Failed"

\* Nothing is reported before the loop is left or something failed, and nothing after it.
EndOnce ==
  /\ run \in EarlyRuns \cup LoopRuns => ~verdict.failed
  /\ run \in EarlyRuns \cup LoopRuns \cup TailRuns /\ ~verdict.failed => finale = <<>> /\ ~EndOut
  /\ EndOut => finale = <<>>
  /\ verdict.failed /\ EndOut => outbox = <<"Failed">>
  /\ run \in {"returning", "littering"} /\ outbox # <<>> => EndOut
ProbeFits == probe \in {"reading", "sending"} => run \in LoopRuns \cup {"flushing", "stopping"}

SizeGranted == run \in {"opening"} \cup LoopRuns /\ ~wanted.unseen => granted = wanted.size

RelaysFit ==
  /\ x11.relays <= MaxRelays
  /\ x11.on \/ x11.queue > 0 \/ x11.relays > 0 => x11.status = "Enabled" /\ run \notin EarlyRuns
  /\ x11.relays > 0 => run \in LoopRuns \cup {"flushing", "stopping"}
  /\ run = "ended" => ~x11.open

TasksFit ==
  /\ IsFiniteSet(Uploading)
  /\ Cardinality(Uploading) + (IF media.automatic THEN 1 ELSE 0) <= MaxMedia
  /\ run \in EarlyRuns \cup {"cleaning", "returning", "littering", "ended"} => Uploading = {}
  /\ run \in {"connecting", "preparing", "cleaning", "returning", "littering", "ended"} =>
        ~media.automatic /\ ~media.microphone

DirectoriesKnown ==
  /\ \A i \in Images : images[i] = "listed" => i \in directories.listed
  /\ run \notin {"returning", "littering", "ended"} => directories.made \subseteq directories.listed
  /\ run \in {"connecting", "returning"} => directories.made = {}

SshInv == /\ SshTypeOK /\ OutboxFits /\ OutputAccounted /\ FinaleFits /\ EndOnce /\ ProbeFits
          /\ SizeGranted /\ RelaysFit /\ TasksFit /\ DirectoriesKnown

\* Fewer uploads, or one more.
LEMMA FewerTasks ==
  ASSUME NEW S, NEW T, IsFiniteSet(S), T \subseteq S
  PROVE  IsFiniteSet(T) /\ Cardinality(T) \in Nat /\ Cardinality(S) \in Nat /\ Cardinality(T) <= Cardinality(S)
BY FS_Subset, FS_CardinalityType

\* One upload more.
LEMMA OneMoreTask ==
  ASSUME NEW S, NEW i, IsFiniteSet(S)
  PROVE  /\ IsFiniteSet(S \cup {i}) /\ Cardinality(S) \in Nat /\ Cardinality(S \cup {i}) \in Nat
         /\ Cardinality(S \cup {i}) <= Cardinality(S) + 1
BY FS_AddElement, FS_CardinalityType

\* The automatic microphone counts as a task.
LEMMA AutomaticCounts ==
  ASSUME NEW n \in Nat, NEW a \in BOOLEAN
  PROVE  (a => n + (IF a THEN 1 ELSE 0) = n + 1) /\ (~a => n + (IF a THEN 1 ELSE 0) = n)
OBVIOUS

\* While no task is added the limit is kept.
LEMMA TasksLess ==
  ASSUME SshTypeOK, TasksFit, Uploading' \subseteq Uploading, media'.automatic => media.automatic,
         media'.automatic \in BOOLEAN, MaxMedia \in Nat
  PROVE  IsFiniteSet(Uploading') /\ Cardinality(Uploading') + (IF media'.automatic THEN 1 ELSE 0) <= MaxMedia
<1>1. PICK u : u = Uploading'
  OBVIOUS
<1>2. IsFiniteSet(Uploading) /\ u \subseteq Uploading
  BY <1>1 DEF TasksFit
<1>3. /\ IsFiniteSet(u) /\ Cardinality(u) \in Nat /\ Cardinality(Uploading) \in Nat
      /\ Cardinality(u) <= Cardinality(Uploading)
  BY <1>2, FewerTasks
<1>4. PICK a \in BOOLEAN : a = media'.automatic
  OBVIOUS
<1>5. Cardinality(u) + (IF a THEN 1 ELSE 0) <= MaxMedia
  BY <1>3, <1>4 DEF TasksFit
<1> QED
  BY <1>1, <1>3, <1>4, <1>5

\* What comes behind the reported end is counted.
LEMMA CountedBehind ==
  ASSUME NEW f
  PROVE  /\ f = <<>> => [k \in DOMAIN f |-> [f[k] EXCEPT !.behind = @ + 1]] = <<>>
         /\ \A r \in EndRec : f = <<r>> =>
               /\ [k \in DOMAIN f |-> [f[k] EXCEPT !.behind = @ + 1]] = <<[r EXCEPT !.behind = @ + 1]>>
               /\ [r EXCEPT !.behind = @ + 1] \in EndRec
               /\ [r EXCEPT !.behind = @ + 1].event = r.event
<1>1. ASSUME f = <<>>
      PROVE  [k \in DOMAIN f |-> [f[k] EXCEPT !.behind = @ + 1]] = <<>>
  BY <1>1
<1>2. ASSUME NEW r \in EndRec, f = <<r>>
      PROVE  /\ [k \in DOMAIN f |-> [f[k] EXCEPT !.behind = @ + 1]] = <<[r EXCEPT !.behind = @ + 1]>>
             /\ [r EXCEPT !.behind = @ + 1] \in EndRec
             /\ [r EXCEPT !.behind = @ + 1].event = r.event
  <2>1. [r EXCEPT !.behind = @ + 1] \in EndRec /\ [r EXCEPT !.behind = @ + 1].event = r.event
    BY DEF EndRec
  <2> QED
    BY <1>2, <2>1
<1> QED
  BY <1>1, <1>2

\* The event of a new connection and the one about X11 after it.
LEMMA ConnectedFirst == ASSUME NEW e PROVE <<"Connected">> \o <<e>> = <<"Connected", e>>
<1> DEFINE c == <<"Connected">> \o <<e>>
<1>1. Len(<<"Connected">>) = 1 /\ Len(<<e>>) = 1 /\ <<"Connected">>[1] = "Connected" /\ <<e>>[1] = e
  OBVIOUS
<1>2. <<"Connected">> \in Seq({"Connected", e}) /\ <<e>> \in Seq({"Connected", e})
  OBVIOUS
<1>3. /\ c \in Seq({"Connected", e}) /\ Len(c) = 2
      /\ \A i \in 1 .. 2 : c[i] = IF i <= 1 THEN <<"Connected">>[i] ELSE <<e>>[i - 1]
  BY <1>1, <1>2, ConcatProperties
<1>4. c[1] = "Connected" /\ c[2] = e
  BY <1>1, <1>3
<1>5. <<"Connected", e>> \in Seq({"Connected", e}) /\ Len(<<"Connected", e>>) = 2
  OBVIOUS
<1> HIDE DEF c
<1>6. c = <<"Connected", e>>
  BY <1>3, <1>4, <1>5, SeqEqual
<1> QED
  BY <1>6 DEF c

\* A queued command changes nothing of the worker.
LEMMA OrdersKeeps == ASSUME SshInv, NEW job, Orders(job) PROVE SshInv'
<1>1. SshTypeOK'
  BY DEF SshInv, SshTypeOK, X11Rec, Runs, EarlyRuns, LoopRuns, TailRuns, Orders, At, NothingPosted, taskVars, callerVars
<1>2. OutboxFits'
  BY DEF SshInv, SshTypeOK, X11Rec, Runs, EarlyRuns, LoopRuns, TailRuns, OutboxFits, PlainEvents, X11Told, EndEvents, Orders, At, NothingPosted, taskVars, callerVars
<1>3. OutputAccounted'
  BY DEF SshInv, SshTypeOK, X11Rec, Runs, EarlyRuns, LoopRuns, TailRuns, OutboxFits, PlainEvents, X11Told, EndEvents, OutputAccounted, Orders, At, NothingPosted, taskVars, callerVars
<1>4. FinaleFits'
  BY DEF SshInv, SshTypeOK, X11Rec, Runs, EarlyRuns, LoopRuns, TailRuns, OutputAccounted, EndOnce, EndOut, EndEvents, FinaleFits, Orders, At, NothingPosted, taskVars, callerVars
<1>5. EndOnce'
  BY DEF SshInv, SshTypeOK, X11Rec, Runs, EarlyRuns, LoopRuns, TailRuns, OutboxFits, PlainEvents, X11Told, EndEvents, FinaleFits, EndOnce, EndOut, Orders, At, NothingPosted, taskVars, callerVars
<1>6. ProbeFits'
  BY DEF SshInv, SshTypeOK, X11Rec, Runs, EarlyRuns, LoopRuns, TailRuns, ProbeFits, Orders, At, NothingPosted, taskVars, callerVars
<1>7. SizeGranted'
  BY DEF SshInv, SshTypeOK, X11Rec, Runs, EarlyRuns, LoopRuns, TailRuns, SizeGranted, Orders, At, NothingPosted, taskVars, callerVars
<1>8. RelaysFit'
  BY SshShellAssumption DEF SshInv, SshTypeOK, X11Rec, Runs, EarlyRuns, LoopRuns, TailRuns, RelaysFit, Orders, At, NothingPosted, taskVars, callerVars
<1>9. TasksFit'
  BY SshShellAssumption DEF SshInv, SshTypeOK, X11Rec, Runs, EarlyRuns, LoopRuns, TailRuns, TasksFit, Uploading, Orders, At, NothingPosted, taskVars, callerVars
<1>10. DirectoriesKnown'
  BY DEF SshInv, SshTypeOK, X11Rec, Runs, EarlyRuns, LoopRuns, TailRuns, TasksFit, Uploading, DirectoriesKnown, Orders, At, NothingPosted, taskVars, callerVars
<1> QED
  BY <1>1, <1>2, <1>3, <1>4, <1>5, <1>6, <1>7, <1>8, <1>9, <1>10 DEF SshInv

\* A new size is unseen until the worker looks.
LEMMA ResizesTerminalKeeps == ASSUME SshInv, NEW size \in ShellSizes, ResizesTerminal(size) PROVE SshInv'
<1>1. SshTypeOK'
  BY DEF SshInv, SshTypeOK, X11Rec, Runs, EarlyRuns, LoopRuns, TailRuns, ResizesTerminal, At, NothingPosted, taskVars, callerVars
<1>2. OutboxFits'
  BY DEF SshInv, SshTypeOK, X11Rec, Runs, EarlyRuns, LoopRuns, TailRuns, OutboxFits, PlainEvents, X11Told, EndEvents, ResizesTerminal, At, NothingPosted, taskVars, callerVars
<1>3. OutputAccounted'
  BY DEF SshInv, SshTypeOK, X11Rec, Runs, EarlyRuns, LoopRuns, TailRuns, OutboxFits, PlainEvents, X11Told, EndEvents, OutputAccounted, ResizesTerminal, At, NothingPosted, taskVars, callerVars
<1>4. FinaleFits'
  BY DEF SshInv, SshTypeOK, X11Rec, Runs, EarlyRuns, LoopRuns, TailRuns, OutputAccounted, EndOnce, EndOut, EndEvents, FinaleFits, ResizesTerminal, At, NothingPosted, taskVars, callerVars
<1>5. EndOnce'
  BY DEF SshInv, SshTypeOK, X11Rec, Runs, EarlyRuns, LoopRuns, TailRuns, OutboxFits, PlainEvents, X11Told, EndEvents, FinaleFits, EndOnce, EndOut, ResizesTerminal, At, NothingPosted, taskVars, callerVars
<1>6. ProbeFits'
  BY DEF SshInv, SshTypeOK, X11Rec, Runs, EarlyRuns, LoopRuns, TailRuns, ProbeFits, ResizesTerminal, At, NothingPosted, taskVars, callerVars
<1>7. SizeGranted'
  BY DEF SshInv, SshTypeOK, X11Rec, Runs, EarlyRuns, LoopRuns, TailRuns, SizeGranted, ResizesTerminal, At, NothingPosted, taskVars, callerVars
<1>8. RelaysFit'
  BY SshShellAssumption DEF SshInv, SshTypeOK, X11Rec, Runs, EarlyRuns, LoopRuns, TailRuns, RelaysFit, ResizesTerminal, At, NothingPosted, taskVars, callerVars
<1>9. TasksFit'
  BY SshShellAssumption DEF SshInv, SshTypeOK, X11Rec, Runs, EarlyRuns, LoopRuns, TailRuns, TasksFit, Uploading, ResizesTerminal, At, NothingPosted, taskVars, callerVars
<1>10. DirectoriesKnown'
  BY DEF SshInv, SshTypeOK, X11Rec, Runs, EarlyRuns, LoopRuns, TailRuns, TasksFit, Uploading, DirectoriesKnown, ResizesTerminal, At, NothingPosted, taskVars, callerVars
<1> QED
  BY <1>1, <1>2, <1>3, <1>4, <1>5, <1>6, <1>7, <1>8, <1>9, <1>10 DEF SshInv

\* The shutdown of the handle queues a disconnect.
LEMMA ShutsSshKeeps == ASSUME SshInv, ShutsSsh PROVE SshInv'
<1>1. SshTypeOK'
  BY DEF SshInv, SshTypeOK, X11Rec, Runs, EarlyRuns, LoopRuns, TailRuns, ShutsSsh, At, NothingPosted, taskVars, callerVars
<1>2. OutboxFits'
  BY DEF SshInv, SshTypeOK, X11Rec, Runs, EarlyRuns, LoopRuns, TailRuns, OutboxFits, PlainEvents, X11Told, EndEvents, ShutsSsh, At, NothingPosted, taskVars, callerVars
<1>3. OutputAccounted'
  BY DEF SshInv, SshTypeOK, X11Rec, Runs, EarlyRuns, LoopRuns, TailRuns, OutboxFits, PlainEvents, X11Told, EndEvents, OutputAccounted, ShutsSsh, At, NothingPosted, taskVars, callerVars
<1>4. FinaleFits'
  BY DEF SshInv, SshTypeOK, X11Rec, Runs, EarlyRuns, LoopRuns, TailRuns, OutputAccounted, EndOnce, EndOut, EndEvents, FinaleFits, ShutsSsh, At, NothingPosted, taskVars, callerVars
<1>5. EndOnce'
  BY DEF SshInv, SshTypeOK, X11Rec, Runs, EarlyRuns, LoopRuns, TailRuns, OutboxFits, PlainEvents, X11Told, EndEvents, FinaleFits, EndOnce, EndOut, ShutsSsh, At, NothingPosted, taskVars, callerVars
<1>6. ProbeFits'
  BY DEF SshInv, SshTypeOK, X11Rec, Runs, EarlyRuns, LoopRuns, TailRuns, ProbeFits, ShutsSsh, At, NothingPosted, taskVars, callerVars
<1>7. SizeGranted'
  BY DEF SshInv, SshTypeOK, X11Rec, Runs, EarlyRuns, LoopRuns, TailRuns, SizeGranted, ShutsSsh, At, NothingPosted, taskVars, callerVars
<1>8. RelaysFit'
  BY SshShellAssumption DEF SshInv, SshTypeOK, X11Rec, Runs, EarlyRuns, LoopRuns, TailRuns, RelaysFit, ShutsSsh, At, NothingPosted, taskVars, callerVars
<1>9. TasksFit'
  BY SshShellAssumption DEF SshInv, SshTypeOK, X11Rec, Runs, EarlyRuns, LoopRuns, TailRuns, TasksFit, Uploading, ShutsSsh, At, NothingPosted, taskVars, callerVars
<1>10. DirectoriesKnown'
  BY DEF SshInv, SshTypeOK, X11Rec, Runs, EarlyRuns, LoopRuns, TailRuns, TasksFit, Uploading, DirectoriesKnown, ShutsSsh, At, NothingPosted, taskVars, callerVars
<1> QED
  BY <1>1, <1>2, <1>3, <1>4, <1>5, <1>6, <1>7, <1>8, <1>9, <1>10 DEF SshInv

\* The worker is joined.
LEMMA SshJoinedKeeps == ASSUME SshInv, SshJoined PROVE SshInv'
<1>1. SshTypeOK'
  BY DEF SshInv, SshTypeOK, X11Rec, Runs, EarlyRuns, LoopRuns, TailRuns, SshJoined, At, NothingPosted, taskVars, callerVars
<1>2. OutboxFits'
  BY DEF SshInv, SshTypeOK, X11Rec, Runs, EarlyRuns, LoopRuns, TailRuns, OutboxFits, PlainEvents, X11Told, EndEvents, SshJoined, At, NothingPosted, taskVars, callerVars
<1>3. OutputAccounted'
  BY DEF SshInv, SshTypeOK, X11Rec, Runs, EarlyRuns, LoopRuns, TailRuns, OutboxFits, PlainEvents, X11Told, EndEvents, OutputAccounted, SshJoined, At, NothingPosted, taskVars, callerVars
<1>4. FinaleFits'
  BY DEF SshInv, SshTypeOK, X11Rec, Runs, EarlyRuns, LoopRuns, TailRuns, OutputAccounted, EndOnce, EndOut, EndEvents, FinaleFits, SshJoined, At, NothingPosted, taskVars, callerVars
<1>5. EndOnce'
  BY DEF SshInv, SshTypeOK, X11Rec, Runs, EarlyRuns, LoopRuns, TailRuns, OutboxFits, PlainEvents, X11Told, EndEvents, FinaleFits, EndOnce, EndOut, SshJoined, At, NothingPosted, taskVars, callerVars
<1>6. ProbeFits'
  BY DEF SshInv, SshTypeOK, X11Rec, Runs, EarlyRuns, LoopRuns, TailRuns, ProbeFits, SshJoined, At, NothingPosted, taskVars, callerVars
<1>7. SizeGranted'
  BY DEF SshInv, SshTypeOK, X11Rec, Runs, EarlyRuns, LoopRuns, TailRuns, SizeGranted, SshJoined, At, NothingPosted, taskVars, callerVars
<1>8. RelaysFit'
  BY SshShellAssumption DEF SshInv, SshTypeOK, X11Rec, Runs, EarlyRuns, LoopRuns, TailRuns, RelaysFit, SshJoined, At, NothingPosted, taskVars, callerVars
<1>9. TasksFit'
  BY SshShellAssumption DEF SshInv, SshTypeOK, X11Rec, Runs, EarlyRuns, LoopRuns, TailRuns, TasksFit, Uploading, SshJoined, At, NothingPosted, taskVars, callerVars
<1>10. DirectoriesKnown'
  BY DEF SshInv, SshTypeOK, X11Rec, Runs, EarlyRuns, LoopRuns, TailRuns, TasksFit, Uploading, DirectoriesKnown, SshJoined, At, NothingPosted, taskVars, callerVars
<1> QED
  BY <1>1, <1>2, <1>3, <1>4, <1>5, <1>6, <1>7, <1>8, <1>9, <1>10 DEF SshInv

\* The worker is aborted where it is: its relays and tasks are dropped, and
\* no end follows one already reported.
LEMMA SshAbortedKeeps == ASSUME SshInv, SshAborted PROVE SshInv'
<1>1. SshTypeOK'
  BY DEF SshInv, SshTypeOK, X11Rec, Runs, EarlyRuns, LoopRuns, TailRuns, SshAborted, At, NothingPosted, taskVars, callerVars
<1>2. OutboxFits'
  BY DEF SshInv, SshTypeOK, X11Rec, Runs, EarlyRuns, LoopRuns, TailRuns, OutboxFits, PlainEvents, X11Told, EndEvents, SshAborted, At, NothingPosted, taskVars, callerVars
<1>3. OutputAccounted'
  BY DEF SshInv, SshTypeOK, X11Rec, Runs, EarlyRuns, LoopRuns, TailRuns, OutboxFits, PlainEvents, X11Told, EndEvents, OutputAccounted, SshAborted, At, NothingPosted, taskVars, callerVars
<1>4. FinaleFits'
  BY DEF SshInv, SshTypeOK, X11Rec, Runs, EarlyRuns, LoopRuns, TailRuns, OutputAccounted, EndOnce, EndOut, EndEvents, FinaleFits, SshAborted, At, NothingPosted, taskVars, callerVars
<1>5. EndOnce'
  BY DEF SshInv, SshTypeOK, X11Rec, Runs, EarlyRuns, LoopRuns, TailRuns, OutboxFits, PlainEvents, X11Told, EndEvents, FinaleFits, EndOnce, EndOut, SshAborted, At, NothingPosted, taskVars, callerVars
<1>6. ProbeFits'
  BY DEF SshInv, SshTypeOK, X11Rec, Runs, EarlyRuns, LoopRuns, TailRuns, ProbeFits, SshAborted, At, NothingPosted, taskVars, callerVars
<1>7. SizeGranted'
  BY DEF SshInv, SshTypeOK, X11Rec, Runs, EarlyRuns, LoopRuns, TailRuns, SizeGranted, SshAborted, At, NothingPosted, taskVars, callerVars
<1>8. RelaysFit'
  BY SshShellAssumption DEF SshInv, SshTypeOK, X11Rec, Runs, EarlyRuns, LoopRuns, TailRuns, RelaysFit, SshAborted, At, NothingPosted, taskVars, callerVars
<1>9. TasksFit'
  <2>1. Uploading' \subseteq Uploading /\ (media'.automatic => media.automatic) /\ media'.automatic \in BOOLEAN
    BY DEF SshInv, SshTypeOK, Uploading, SshAborted, NothingPosted
  <2>2. IsFiniteSet(Uploading') /\ Cardinality(Uploading') + (IF media'.automatic THEN 1 ELSE 0) <= MaxMedia
    BY <2>1, TasksLess, SshShellAssumption DEF SshInv
  <2>3. /\ run' \in EarlyRuns \cup {"cleaning", "returning", "littering", "ended"} => Uploading' = {}
        /\ run' \in {"connecting", "preparing", "cleaning", "returning", "littering", "ended"} =>
              ~media'.automatic /\ ~media'.microphone
    BY <2>1 DEF SshInv, SshTypeOK, TasksFit, EarlyRuns, Uploading, SshAborted, NothingPosted
  <2> QED
    BY <2>2, <2>3 DEF TasksFit
<1>10. DirectoriesKnown'
  BY DEF SshInv, SshTypeOK, X11Rec, Runs, EarlyRuns, LoopRuns, TailRuns, TasksFit, Uploading, DirectoriesKnown, SshAborted, At, NothingPosted, taskVars, callerVars
<1> QED
  BY <1>1, <1>2, <1>3, <1>4, <1>5, <1>6, <1>7, <1>8, <1>9, <1>10 DEF SshInv

\* The head of the outbox is sent.  An orderly end is sent by a worker on its
\* return, with nothing held and nobody left to send behind it; any other
\* event meets no end but that of a failure.
LEMMA SendsEventKeeps == ASSUME SshInv, SendsEvent PROVE SshInv'
<1>0. /\ run # "ended" /\ outbox # <<>> /\ UNCHANGED <<run, verdict>>
      /\ \/ \E e \in PlainEvents \cup EndEvents : outbox = <<e>> /\ Head(outbox) = e /\ outbox' = <<>>
         \/ \E e \in X11Told : /\ outbox = <<"Connected", e>> /\ Head(outbox) = "Connected"
                               /\ outbox' = <<e>>
  <2>1. outbox # <<>> /\ outbox' = Tail(outbox) /\ run # "ended" /\ UNCHANGED <<run, verdict>>
    BY DEF SendsEvent
  <2>2. CASE \E e \in PlainEvents \cup EndEvents : outbox = <<e>>
    BY <2>1, <2>2
  <2>3. CASE \E e \in X11Told : outbox = <<"Connected", e>>
    BY <2>1, <2>3
  <2> QED
    BY <2>1, <2>2, <2>3 DEF SshInv, OutboxFits
<1>11. /\ Head(outbox) \in EndEvents =>
             finale' = Append(finale, [event |-> Head(outbox), ahead |-> outputs.sent, behind |-> 0])
       /\ Head(outbox) \notin EndEvents =>
             finale' = [k \in DOMAIN finale |-> [finale[k] EXCEPT !.behind = @ + 1]]
  BY DEF SendsEvent, Posts
<1>12. EndOut <=> Head(outbox) \in EndEvents
  BY <1>0 DEF EndOut, EndEvents
<1>1. SshTypeOK'
  <2>1. run' \in Runs
    BY DEF SshInv, SshTypeOK, X11Rec, Runs, EarlyRuns, LoopRuns, TailRuns, SendsEvent, Posts, At, NothingPosted, taskVars, callerVars
  <2>2. carry' \in Nat
    BY DEF SshInv, SshTypeOK, X11Rec, SendsEvent, Posts, At, NothingPosted, taskVars, callerVars
  <2>3. wanted' \in [size : ShellSizes, unseen : BOOLEAN]
    BY DEF SshInv, SshTypeOK, X11Rec, SendsEvent, Posts, At, NothingPosted, taskVars, callerVars
  <2>4. outputs' \in [read : Nat, held : Nat, sent : Nat, awaiting : BOOLEAN]
    <3>1. outputs \in [read : Nat, held : Nat, sent : Nat, awaiting : BOOLEAN] /\ carry \in Nat
      BY DEF SshInv, SshTypeOK
    <3>2. PICK n \in Nat : outputs' = outputs \/ outputs' = [outputs EXCEPT !.sent = n]
      <4>1. outputs.sent + carry \in Nat
        BY <3>1
      <4>2. outputs' = outputs \/ outputs' = [outputs EXCEPT !.sent = outputs.sent + carry]
        BY DEF SendsEvent
      <4> QED
        BY <4>1, <4>2
    <3> QED
      BY <3>1, <3>2, ZenonT(40)
  <2>5. x11' \in X11Rec
    BY DEF SshInv, SshTypeOK, X11Rec, SendsEvent, Posts, At, NothingPosted, taskVars, callerVars
  <2>6. media' \in [automatic : BOOLEAN, microphone : BOOLEAN, stop : BOOLEAN]
    BY DEF SshInv, SshTypeOK, X11Rec, SendsEvent, Posts, At, NothingPosted, taskVars, callerVars
  <2>7. images' \in [Images -> {"free", "opening", "listed", "made", "over"}]
    BY DEF SshInv, SshTypeOK, X11Rec, SendsEvent, Posts, At, NothingPosted, taskVars, callerVars
  <2>8. directories' \in [listed : SUBSET Images, made : SUBSET Images]
    BY DEF SshInv, SshTypeOK, X11Rec, SendsEvent, Posts, At, NothingPosted, taskVars, callerVars
  <2>9. probe' \in {"none", "reading", "sending", "over"}
    BY DEF SshInv, SshTypeOK, X11Rec, SendsEvent, Posts, At, NothingPosted, taskVars, callerVars
  <2>10. verdict' \in [failed : BOOLEAN, exited : BOOLEAN]
    BY DEF SshInv, SshTypeOK, X11Rec, SendsEvent, Posts, At, NothingPosted, taskVars, callerVars
  <2> QED
    BY <2>1, <2>2, <2>3, <2>4, <2>5, <2>6, <2>7, <2>8, <2>9, <2>10 DEF SshTypeOK, X11Rec
<1>2. OutboxFits' /\ ~EndOut'
  <2>1. outbox' = <<>> \/ \E e \in X11Told : outbox' = <<e>>
    BY <1>0
  <2> QED
    BY <2>1 DEF OutboxFits, EndOut, EndEvents, X11Told, PlainEvents
<1>3. OutputAccounted'
  BY DEF SshInv, SshTypeOK, X11Rec, Runs, EarlyRuns, LoopRuns, TailRuns, OutboxFits, PlainEvents, X11Told, EndEvents, OutputAccounted, SendsEvent, Posts, At, NothingPosted, taskVars, callerVars
<1>4. FinaleFits'
  <2>5. ASSUME finale' = [k \in DOMAIN finale |-> [finale[k] EXCEPT !.behind = @ + 1]],
               finale # <<>> => verdict.failed, verdict' = verdict
        PROVE  FinaleFits'
    <3>1. CASE finale = <<>>
      BY <2>5, <3>1, CountedBehind DEF FinaleFits
    <3>2. CASE finale # <<>>
      <4>1. PICK r \in EndRec : finale = <<r>> /\ r.event = "Failed"
        BY <2>5, <3>2 DEF SshInv, FinaleFits
      <4>2. /\ finale' = <<[r EXCEPT !.behind = @ + 1]>> /\ [r EXCEPT !.behind = @ + 1] \in EndRec
            /\ [r EXCEPT !.behind = @ + 1].event = "Failed"
        BY <2>5, <4>1, CountedBehind
      <4> QED
        BY <4>2 DEF FinaleFits
    <3> QED
      BY <3>1, <3>2
  <2>6. CASE Head(outbox) \in EndEvents
    <3>1. PICK e \in EndEvents : outbox = <<e>> /\ Head(outbox) = e
      BY <1>0, <1>12, <2>6 DEF EndOut
    <3>2. finale = <<>> /\ carry = 0
      BY <1>12, <2>6, <3>1 DEF SshInv, EndOnce, OutputAccounted, EndEvents
    <3>3. finale' = <<[event |-> e, ahead |-> outputs.sent, behind |-> 0]>>
      BY <1>11, <2>6, <3>1, <3>2
    <3>4. verdict.failed => e = "Failed"
      BY <1>12, <2>6, <3>1 DEF SshInv, EndOnce
    <3>5. ~verdict.failed => outputs.sent = outputs.read
      <4>1. ~verdict.failed => run \in {"returning", "littering"}
        BY <1>0, <1>12, <2>6 DEF SshInv, SshTypeOK, Runs, EndOnce
      <4>2. ~verdict.failed => outputs.held = 0
        BY <4>1 DEF SshInv, OutputAccounted, LoopRuns
      <4> QED
        BY <3>2, <4>2 DEF SshInv, SshTypeOK, OutputAccounted
    <3>6. outputs' = outputs
      BY <3>1 DEF SendsEvent, EndEvents
    <3>7. PICK r : r = [event |-> e, ahead |-> outputs.sent, behind |-> 0]
      OBVIOUS
    <3>8. r \in EndRec /\ r.event = e /\ r.ahead = outputs.sent /\ r.behind = 0
      BY <3>7 DEF SshInv, SshTypeOK, EndRec
    <3> QED
      BY <1>0, <3>3, <3>4, <3>5, <3>6, <3>7, <3>8 DEF FinaleFits, EndEvents
  <2>7. CASE Head(outbox) \notin EndEvents
    <3>1. finale # <<>> => verdict.failed
      BY <1>0, <1>12, <2>7 DEF SshInv, SshTypeOK, Runs, EndOnce
    <3> QED
      BY <1>0, <1>11, <2>5, <2>7, <3>1
  <2> QED
    BY <2>6, <2>7
<1>5. EndOnce'
  <2>1. run \in EarlyRuns \cup LoopRuns \cup TailRuns /\ ~verdict.failed => finale' = <<>>
    <3> SUFFICES ASSUME run \in EarlyRuns \cup LoopRuns \cup TailRuns, ~verdict.failed PROVE finale' = <<>>
      OBVIOUS
    <3>1. finale = <<>> /\ ~EndOut
      BY DEF SshInv, EndOnce
    <3> QED
      BY <1>11, <1>12, <3>1, CountedBehind
  <2>2. run \in {"returning", "littering"} => outbox' = <<>>
    <3> SUFFICES ASSUME run \in {"returning", "littering"} PROVE outbox' = <<>>
      OBVIOUS
    <3>1. Head(outbox) \in EndEvents
      BY <1>0, <1>12 DEF SshInv, EndOnce
    <3> QED
      BY <1>0, <3>1 DEF EndEvents
  <2> QED
    BY <1>0, <1>2, <2>1, <2>2 DEF SshInv, EndOnce
<1>6. ProbeFits'
  BY DEF SshInv, SshTypeOK, X11Rec, Runs, EarlyRuns, LoopRuns, TailRuns, ProbeFits, SendsEvent, Posts, At, NothingPosted, taskVars, callerVars
<1>7. SizeGranted'
  BY DEF SshInv, SshTypeOK, X11Rec, Runs, EarlyRuns, LoopRuns, TailRuns, SizeGranted, SendsEvent, Posts, At, NothingPosted, taskVars, callerVars
<1>8. RelaysFit'
  BY SshShellAssumption DEF SshInv, SshTypeOK, X11Rec, Runs, EarlyRuns, LoopRuns, TailRuns, RelaysFit, SendsEvent, Posts, At, NothingPosted, taskVars, callerVars
<1>9. TasksFit'
  BY SshShellAssumption DEF SshInv, SshTypeOK, X11Rec, Runs, EarlyRuns, LoopRuns, TailRuns, TasksFit, Uploading, SendsEvent, Posts, At, NothingPosted, taskVars, callerVars
<1>10. DirectoriesKnown'
  BY DEF SshInv, SshTypeOK, X11Rec, Runs, EarlyRuns, LoopRuns, TailRuns, TasksFit, Uploading, DirectoriesKnown, SendsEvent, Posts, At, NothingPosted, taskVars, callerVars
<1> QED
  BY <1>1, <1>2, <1>3, <1>4, <1>5, <1>6, <1>7, <1>8, <1>9, <1>10 DEF SshInv

\* The connection stands, or its failure is the only thing left to send.
LEMMA ConnectsKeeps == ASSUME SshInv, Connects PROVE SshInv'
<1>1. SshTypeOK'
  <2>1. run' \in Runs
    BY DEF SshInv, SshTypeOK, X11Rec, Runs, EarlyRuns, LoopRuns, TailRuns, Connects, At, NothingPosted, taskVars, callerVars
  <2>2. carry' \in Nat
    BY DEF SshInv, SshTypeOK, X11Rec, Connects, At, NothingPosted, taskVars, callerVars
  <2>3. wanted' \in [size : ShellSizes, unseen : BOOLEAN]
    BY DEF SshInv, SshTypeOK, X11Rec, Connects, At, NothingPosted, taskVars, callerVars
  <2>4. outputs' \in [read : Nat, held : Nat, sent : Nat, awaiting : BOOLEAN]
    BY DEF SshInv, SshTypeOK, X11Rec, Connects, At, NothingPosted, taskVars, callerVars
  <2>5. x11' \in X11Rec
    BY DEF SshInv, SshTypeOK, X11Rec, Connects, At, NothingPosted, taskVars, callerVars
  <2>6. media' \in [automatic : BOOLEAN, microphone : BOOLEAN, stop : BOOLEAN]
    BY DEF SshInv, SshTypeOK, X11Rec, Connects, At, NothingPosted, taskVars, callerVars
  <2>7. images' \in [Images -> {"free", "opening", "listed", "made", "over"}]
    BY DEF SshInv, SshTypeOK, X11Rec, Connects, At, NothingPosted, taskVars, callerVars
  <2>8. directories' \in [listed : SUBSET Images, made : SUBSET Images]
    BY DEF SshInv, SshTypeOK, X11Rec, Connects, At, NothingPosted, taskVars, callerVars
  <2>9. probe' \in {"none", "reading", "sending", "over"}
    BY DEF SshInv, SshTypeOK, X11Rec, Connects, At, NothingPosted, taskVars, callerVars
  <2>10. verdict' \in [failed : BOOLEAN, exited : BOOLEAN]
    BY DEF SshInv, SshTypeOK, X11Rec, Connects, At, NothingPosted, taskVars, callerVars
  <2> QED
    BY <2>1, <2>2, <2>3, <2>4, <2>5, <2>6, <2>7, <2>8, <2>9, <2>10 DEF SshTypeOK, X11Rec
<1>2. OutboxFits'
  BY DEF SshInv, SshTypeOK, X11Rec, Runs, EarlyRuns, LoopRuns, TailRuns, OutboxFits, PlainEvents, X11Told, EndEvents, Connects, At, NothingPosted, taskVars, callerVars
<1>3. OutputAccounted'
  BY DEF SshInv, SshTypeOK, X11Rec, Runs, EarlyRuns, LoopRuns, TailRuns, OutboxFits, PlainEvents, X11Told, EndEvents, OutputAccounted, Connects, At, NothingPosted, taskVars, callerVars
<1>4. FinaleFits'
  BY DEF SshInv, SshTypeOK, X11Rec, Runs, EarlyRuns, LoopRuns, TailRuns, OutputAccounted, EndOnce, EndOut, EndEvents, FinaleFits, Connects, At, NothingPosted, taskVars, callerVars
<1>5. EndOnce'
  BY DEF SshInv, SshTypeOK, X11Rec, Runs, EarlyRuns, LoopRuns, TailRuns, OutboxFits, PlainEvents, X11Told, EndEvents, FinaleFits, EndOnce, EndOut, Connects, At, NothingPosted, taskVars, callerVars
<1>6. ProbeFits'
  BY DEF SshInv, SshTypeOK, X11Rec, Runs, EarlyRuns, LoopRuns, TailRuns, ProbeFits, Connects, At, NothingPosted, taskVars, callerVars
<1>7. SizeGranted'
  BY DEF SshInv, SshTypeOK, X11Rec, Runs, EarlyRuns, LoopRuns, TailRuns, SizeGranted, Connects, At, NothingPosted, taskVars, callerVars
<1>8. RelaysFit'
  BY SshShellAssumption DEF SshInv, SshTypeOK, X11Rec, Runs, EarlyRuns, LoopRuns, TailRuns, RelaysFit, Connects, At, NothingPosted, taskVars, callerVars
<1>9. TasksFit'
  BY SshShellAssumption DEF SshInv, SshTypeOK, X11Rec, Runs, EarlyRuns, LoopRuns, TailRuns, TasksFit, Uploading, Connects, At, NothingPosted, taskVars, callerVars
<1>10. DirectoriesKnown'
  BY DEF SshInv, SshTypeOK, X11Rec, Runs, EarlyRuns, LoopRuns, TailRuns, TasksFit, Uploading, DirectoriesKnown, Connects, At, NothingPosted, taskVars, callerVars
<1> QED
  BY <1>1, <1>2, <1>3, <1>4, <1>5, <1>6, <1>7, <1>8, <1>9, <1>10 DEF SshInv

\* X11Forwarding::prepare and the automatic microphone, the first media task.
LEMMA PreparesKeeps == ASSUME SshInv, Prepares PROVE SshInv'
<1>1. SshTypeOK'
  <2>1. run' \in Runs
    BY DEF SshInv, SshTypeOK, X11Rec, Runs, EarlyRuns, LoopRuns, TailRuns, Prepares, At, NothingPosted, taskVars, callerVars
  <2>2. carry' \in Nat
    BY DEF SshInv, SshTypeOK, X11Rec, Prepares, At, NothingPosted, taskVars, callerVars
  <2>3. wanted' \in [size : ShellSizes, unseen : BOOLEAN]
    BY DEF SshInv, SshTypeOK, X11Rec, Prepares, At, NothingPosted, taskVars, callerVars
  <2>4. outputs' \in [read : Nat, held : Nat, sent : Nat, awaiting : BOOLEAN]
    BY DEF SshInv, SshTypeOK, X11Rec, Prepares, At, NothingPosted, taskVars, callerVars
  <2>5. x11' \in X11Rec
    <3>1. PICK ok \in BOOLEAN : x11' = [x11 EXCEPT !.prepared = ok, !.open = ok]
      BY DEF Prepares
    <3>2. x11 \in X11Rec
      BY DEF SshInv, SshTypeOK
    <3> QED
      BY <3>1, <3>2, ZenonT(40) DEF X11Rec
  <2>6. media' \in [automatic : BOOLEAN, microphone : BOOLEAN, stop : BOOLEAN]
    BY DEF SshInv, SshTypeOK, X11Rec, Prepares, At, NothingPosted, taskVars, callerVars
  <2>7. images' \in [Images -> {"free", "opening", "listed", "made", "over"}]
    BY DEF SshInv, SshTypeOK, X11Rec, Prepares, At, NothingPosted, taskVars, callerVars
  <2>8. directories' \in [listed : SUBSET Images, made : SUBSET Images]
    BY DEF SshInv, SshTypeOK, X11Rec, Prepares, At, NothingPosted, taskVars, callerVars
  <2>9. probe' \in {"none", "reading", "sending", "over"}
    BY DEF SshInv, SshTypeOK, X11Rec, Prepares, At, NothingPosted, taskVars, callerVars
  <2>10. verdict' \in [failed : BOOLEAN, exited : BOOLEAN]
    BY DEF SshInv, SshTypeOK, X11Rec, Prepares, At, NothingPosted, taskVars, callerVars
  <2> QED
    BY <2>1, <2>2, <2>3, <2>4, <2>5, <2>6, <2>7, <2>8, <2>9, <2>10 DEF SshTypeOK, X11Rec
<1>2. OutboxFits'
  BY DEF SshInv, SshTypeOK, X11Rec, Runs, EarlyRuns, LoopRuns, TailRuns, OutboxFits, PlainEvents, X11Told, EndEvents, Prepares, At, NothingPosted, taskVars, callerVars
<1>3. OutputAccounted'
  BY DEF SshInv, SshTypeOK, X11Rec, Runs, EarlyRuns, LoopRuns, TailRuns, OutboxFits, PlainEvents, X11Told, EndEvents, OutputAccounted, Prepares, At, NothingPosted, taskVars, callerVars
<1>4. FinaleFits'
  BY DEF SshInv, SshTypeOK, X11Rec, Runs, EarlyRuns, LoopRuns, TailRuns, OutputAccounted, EndOnce, EndOut, EndEvents, FinaleFits, Prepares, At, NothingPosted, taskVars, callerVars
<1>5. EndOnce'
  BY DEF SshInv, SshTypeOK, X11Rec, Runs, EarlyRuns, LoopRuns, TailRuns, OutboxFits, PlainEvents, X11Told, EndEvents, FinaleFits, EndOnce, EndOut, Prepares, At, NothingPosted, taskVars, callerVars
<1>6. ProbeFits'
  BY DEF SshInv, SshTypeOK, X11Rec, Runs, EarlyRuns, LoopRuns, TailRuns, ProbeFits, Prepares, At, NothingPosted, taskVars, callerVars
<1>7. SizeGranted'
  BY DEF SshInv, SshTypeOK, X11Rec, Runs, EarlyRuns, LoopRuns, TailRuns, SizeGranted, Prepares, At, NothingPosted, taskVars, callerVars
<1>8. RelaysFit'
  BY SshShellAssumption DEF SshInv, SshTypeOK, X11Rec, Runs, EarlyRuns, LoopRuns, TailRuns, RelaysFit, Prepares, At, NothingPosted, taskVars, callerVars
<1>9. TasksFit'
  <2>1. Uploading' = {} /\ Cardinality(Uploading') = 0 /\ IsFiniteSet(Uploading')
    <3>1. Uploading' = Uploading /\ Uploading = {}
      BY DEF SshInv, TasksFit, EarlyRuns, Uploading, Prepares, At
    <3> QED
      BY <3>1, FS_EmptySet
  <2>2. MaxMedia \in Nat /\ 1 <= MaxMedia
    BY SshShellAssumption
  <2>3. run' = "sourcing"
    BY DEF Prepares
  <2> QED
    BY <2>1, <2>2, <2>3 DEF TasksFit, EarlyRuns
<1>10. DirectoriesKnown'
  BY DEF SshInv, SshTypeOK, X11Rec, Runs, EarlyRuns, LoopRuns, TailRuns, TasksFit, Uploading, DirectoriesKnown, Prepares, At, NothingPosted, taskVars, callerVars
<1> QED
  BY <1>1, <1>2, <1>3, <1>4, <1>5, <1>6, <1>7, <1>8, <1>9, <1>10 DEF SshInv

\* A disconnect before the shell is open: nothing was read, and no relay or
\* upload exists.
LEMMA EarlyOrderKeeps == ASSUME SshInv, EarlyOrder PROVE SshInv'
<1>1. SshTypeOK'
  BY DEF SshInv, SshTypeOK, X11Rec, Runs, EarlyRuns, LoopRuns, TailRuns, EarlyOrder, At, NothingPosted, taskVars, callerVars
<1>2. OutboxFits'
  BY DEF SshInv, SshTypeOK, X11Rec, Runs, EarlyRuns, LoopRuns, TailRuns, OutboxFits, PlainEvents, X11Told, EndEvents, EarlyOrder, At, NothingPosted, taskVars, callerVars
<1>3. OutputAccounted'
  BY DEF SshInv, SshTypeOK, X11Rec, Runs, EarlyRuns, LoopRuns, TailRuns, OutboxFits, PlainEvents, X11Told, EndEvents, OutputAccounted, EarlyOrder, At, NothingPosted, taskVars, callerVars
<1>4. FinaleFits'
  BY DEF SshInv, SshTypeOK, X11Rec, Runs, EarlyRuns, LoopRuns, TailRuns, OutputAccounted, EndOnce, EndOut, EndEvents, FinaleFits, EarlyOrder, At, NothingPosted, taskVars, callerVars
<1>5. EndOnce'
  BY DEF SshInv, SshTypeOK, X11Rec, Runs, EarlyRuns, LoopRuns, TailRuns, OutboxFits, PlainEvents, X11Told, EndEvents, FinaleFits, EndOnce, EndOut, EarlyOrder, At, NothingPosted, taskVars, callerVars
<1>6. ProbeFits'
  BY DEF SshInv, SshTypeOK, X11Rec, Runs, EarlyRuns, LoopRuns, TailRuns, ProbeFits, EarlyOrder, At, NothingPosted, taskVars, callerVars
<1>7. SizeGranted'
  BY DEF SshInv, SshTypeOK, X11Rec, Runs, EarlyRuns, LoopRuns, TailRuns, SizeGranted, EarlyOrder, At, NothingPosted, taskVars, callerVars
<1>8. RelaysFit'
  BY SshShellAssumption DEF SshInv, SshTypeOK, X11Rec, Runs, EarlyRuns, LoopRuns, TailRuns, RelaysFit, EarlyOrder, At, NothingPosted, taskVars, callerVars
<1>9. TasksFit'
  BY SshShellAssumption DEF SshInv, SshTypeOK, X11Rec, Runs, EarlyRuns, LoopRuns, TailRuns, TasksFit, Uploading, EarlyOrder, At, NothingPosted, taskVars, callerVars
<1>10. DirectoriesKnown'
  BY DEF SshInv, SshTypeOK, X11Rec, Runs, EarlyRuns, LoopRuns, TailRuns, TasksFit, Uploading, DirectoriesKnown, EarlyOrder, At, NothingPosted, taskVars, callerVars
<1> QED
  BY <1>1, <1>2, <1>3, <1>4, <1>5, <1>6, <1>7, <1>8, <1>9, <1>10 DEF SshInv

\* The shell is asked for with the size of this moment.
LEMMA SourcesKeeps == ASSUME SshInv, Sources PROVE SshInv'
<1>1. SshTypeOK'
  <2>1. run' \in Runs
    BY DEF SshInv, SshTypeOK, X11Rec, Runs, EarlyRuns, LoopRuns, TailRuns, Sources, At, NothingPosted, taskVars, callerVars
  <2>2. carry' \in Nat
    BY DEF SshInv, SshTypeOK, X11Rec, Sources, At, NothingPosted, taskVars, callerVars
  <2>3. wanted' \in [size : ShellSizes, unseen : BOOLEAN]
    BY DEF SshInv, SshTypeOK, X11Rec, Sources, At, NothingPosted, taskVars, callerVars
  <2>4. outputs' \in [read : Nat, held : Nat, sent : Nat, awaiting : BOOLEAN]
    BY DEF SshInv, SshTypeOK, X11Rec, Sources, At, NothingPosted, taskVars, callerVars
  <2>5. x11' \in X11Rec
    BY DEF SshInv, SshTypeOK, X11Rec, Sources, At, NothingPosted, taskVars, callerVars
  <2>6. media' \in [automatic : BOOLEAN, microphone : BOOLEAN, stop : BOOLEAN]
    BY DEF SshInv, SshTypeOK, X11Rec, Sources, At, NothingPosted, taskVars, callerVars
  <2>7. images' \in [Images -> {"free", "opening", "listed", "made", "over"}]
    BY DEF SshInv, SshTypeOK, X11Rec, Sources, At, NothingPosted, taskVars, callerVars
  <2>8. directories' \in [listed : SUBSET Images, made : SUBSET Images]
    BY DEF SshInv, SshTypeOK, X11Rec, Sources, At, NothingPosted, taskVars, callerVars
  <2>9. probe' \in {"none", "reading", "sending", "over"}
    BY DEF SshInv, SshTypeOK, X11Rec, Sources, At, NothingPosted, taskVars, callerVars
  <2>10. verdict' \in [failed : BOOLEAN, exited : BOOLEAN]
    BY DEF SshInv, SshTypeOK, X11Rec, Sources, At, NothingPosted, taskVars, callerVars
  <2> QED
    BY <2>1, <2>2, <2>3, <2>4, <2>5, <2>6, <2>7, <2>8, <2>9, <2>10 DEF SshTypeOK, X11Rec
<1>2. OutboxFits'
  BY DEF SshInv, SshTypeOK, X11Rec, Runs, EarlyRuns, LoopRuns, TailRuns, OutboxFits, PlainEvents, X11Told, EndEvents, Sources, At, NothingPosted, taskVars, callerVars
<1>3. OutputAccounted'
  BY DEF SshInv, SshTypeOK, X11Rec, Runs, EarlyRuns, LoopRuns, TailRuns, OutboxFits, PlainEvents, X11Told, EndEvents, OutputAccounted, Sources, At, NothingPosted, taskVars, callerVars
<1>4. FinaleFits'
  BY DEF SshInv, SshTypeOK, X11Rec, Runs, EarlyRuns, LoopRuns, TailRuns, OutputAccounted, EndOnce, EndOut, EndEvents, FinaleFits, Sources, At, NothingPosted, taskVars, callerVars
<1>5. EndOnce'
  BY DEF SshInv, SshTypeOK, X11Rec, Runs, EarlyRuns, LoopRuns, TailRuns, OutboxFits, PlainEvents, X11Told, EndEvents, FinaleFits, EndOnce, EndOut, Sources, At, NothingPosted, taskVars, callerVars
<1>6. ProbeFits'
  BY DEF SshInv, SshTypeOK, X11Rec, Runs, EarlyRuns, LoopRuns, TailRuns, ProbeFits, Sources, At, NothingPosted, taskVars, callerVars
<1>7. SizeGranted'
  BY DEF SshInv, SshTypeOK, X11Rec, Runs, EarlyRuns, LoopRuns, TailRuns, SizeGranted, Sources, At, NothingPosted, taskVars, callerVars
<1>8. RelaysFit'
  BY SshShellAssumption DEF SshInv, SshTypeOK, X11Rec, Runs, EarlyRuns, LoopRuns, TailRuns, RelaysFit, Sources, At, NothingPosted, taskVars, callerVars
<1>9. TasksFit'
  BY SshShellAssumption DEF SshInv, SshTypeOK, X11Rec, Runs, EarlyRuns, LoopRuns, TailRuns, TasksFit, Uploading, Sources, At, NothingPosted, taskVars, callerVars
<1>10. DirectoriesKnown'
  BY DEF SshInv, SshTypeOK, X11Rec, Runs, EarlyRuns, LoopRuns, TailRuns, TasksFit, Uploading, DirectoriesKnown, Sources, At, NothingPosted, taskVars, callerVars
<1> QED
  BY <1>1, <1>2, <1>3, <1>4, <1>5, <1>6, <1>7, <1>8, <1>9, <1>10 DEF SshInv

\* request_x11: relays are possible from here on only if the server granted
\* it.
LEMMA OpensShellKeeps == ASSUME SshInv, OpensShell PROVE SshInv'
<1>1. SshTypeOK'
  <2>1. run' \in Runs
    BY DEF SshInv, SshTypeOK, X11Rec, Runs, EarlyRuns, LoopRuns, TailRuns, OpensShell, At, NothingPosted, taskVars, callerVars
  <2>2. carry' \in Nat
    BY DEF SshInv, SshTypeOK, X11Rec, OpensShell, At, NothingPosted, taskVars, callerVars
  <2>3. wanted' \in [size : ShellSizes, unseen : BOOLEAN]
    BY DEF SshInv, SshTypeOK, X11Rec, OpensShell, At, NothingPosted, taskVars, callerVars
  <2>4. outputs' \in [read : Nat, held : Nat, sent : Nat, awaiting : BOOLEAN]
    BY DEF SshInv, SshTypeOK, X11Rec, OpensShell, At, NothingPosted, taskVars, callerVars
  <2>5. x11' \in X11Rec
    <3>1. PICK status \in {"Enabled", "Rejected", "NotRequested"} :
             x11' = [x11 EXCEPT !.status = status, !.on = status = "Enabled", !.open = status = "Enabled"]
      BY DEF OpensShell
    <3>2. x11 \in X11Rec
      BY DEF SshInv, SshTypeOK
    <3> QED
      BY <3>1, <3>2, ZenonT(40) DEF X11Rec
  <2>6. media' \in [automatic : BOOLEAN, microphone : BOOLEAN, stop : BOOLEAN]
    BY DEF SshInv, SshTypeOK, X11Rec, OpensShell, At, NothingPosted, taskVars, callerVars
  <2>7. images' \in [Images -> {"free", "opening", "listed", "made", "over"}]
    BY DEF SshInv, SshTypeOK, X11Rec, OpensShell, At, NothingPosted, taskVars, callerVars
  <2>8. directories' \in [listed : SUBSET Images, made : SUBSET Images]
    BY DEF SshInv, SshTypeOK, X11Rec, OpensShell, At, NothingPosted, taskVars, callerVars
  <2>9. probe' \in {"none", "reading", "sending", "over"}
    BY DEF SshInv, SshTypeOK, X11Rec, OpensShell, At, NothingPosted, taskVars, callerVars
  <2>10. verdict' \in [failed : BOOLEAN, exited : BOOLEAN]
    BY DEF SshInv, SshTypeOK, X11Rec, OpensShell, At, NothingPosted, taskVars, callerVars
  <2> QED
    BY <2>1, <2>2, <2>3, <2>4, <2>5, <2>6, <2>7, <2>8, <2>9, <2>10 DEF SshTypeOK, X11Rec
<1>2. OutboxFits' /\ ~EndOut'
  <2>1. \/ outbox' = <<"Connected">> \/ \E e \in X11Told : outbox' = <<"Connected", e>>
    <3>1. PICK tail \in {<<>>, <<"X11ForwardingEnabled">>, <<"X11ForwardingUnavailable">>} :
             outbox' = <<"Connected">> \o tail
      BY DEF OpensShell
    <3>2. CASE tail = <<>>
      BY <3>1, <3>2
    <3>3. CASE tail = <<"X11ForwardingEnabled">>
      <4>1. <<"Connected">> \o <<"X11ForwardingEnabled">> = <<"Connected", "X11ForwardingEnabled">>
        BY ConnectedFirst
      <4>2. outbox' = <<"Connected", "X11ForwardingEnabled">>
        BY <3>1, <3>3, <4>1
      <4> QED
        BY <4>2 DEF X11Told
    <3>4. CASE tail = <<"X11ForwardingUnavailable">>
      <4>1. <<"Connected">> \o <<"X11ForwardingUnavailable">> = <<"Connected", "X11ForwardingUnavailable">>
        BY ConnectedFirst
      <4>2. outbox' = <<"Connected", "X11ForwardingUnavailable">>
        BY <3>1, <3>4, <4>1
      <4> QED
        BY <4>2 DEF X11Told
    <3> QED
      BY <3>2, <3>3, <3>4
  <2>2. OutboxFits'
    BY <2>1 DEF OutboxFits, PlainEvents
  <2>3. ~EndOut'
    BY <2>1 DEF EndOut, EndEvents
  <2> QED
    BY <2>2, <2>3
<1>3. OutputAccounted'
  BY DEF SshInv, SshTypeOK, X11Rec, Runs, EarlyRuns, LoopRuns, TailRuns, OutboxFits, PlainEvents, X11Told, EndEvents, OutputAccounted, OpensShell, At, NothingPosted, taskVars, callerVars
<1>4. FinaleFits'
  BY DEF SshInv, SshTypeOK, X11Rec, Runs, EarlyRuns, LoopRuns, TailRuns, OutputAccounted, EndOnce, EndOut, EndEvents, FinaleFits, OpensShell, At, NothingPosted, taskVars, callerVars
<1>5. EndOnce'
  <2>1. run = "opening" /\ run' = "open" /\ UNCHANGED <<finale, verdict>>
    BY DEF OpensShell, At, NothingPosted
  <2> QED
    BY <1>2, <2>1 DEF SshInv, EndOnce, EarlyRuns, LoopRuns, TailRuns
<1>6. ProbeFits'
  BY DEF SshInv, SshTypeOK, X11Rec, Runs, EarlyRuns, LoopRuns, TailRuns, ProbeFits, OpensShell, At, NothingPosted, taskVars, callerVars
<1>7. SizeGranted'
  BY DEF SshInv, SshTypeOK, X11Rec, Runs, EarlyRuns, LoopRuns, TailRuns, SizeGranted, OpensShell, At, NothingPosted, taskVars, callerVars
<1>8. RelaysFit'
  BY SshShellAssumption DEF SshInv, SshTypeOK, X11Rec, Runs, EarlyRuns, LoopRuns, TailRuns, RelaysFit, OpensShell, At, NothingPosted, taskVars, callerVars
<1>9. TasksFit'
  BY SshShellAssumption DEF SshInv, SshTypeOK, X11Rec, Runs, EarlyRuns, LoopRuns, TailRuns, TasksFit, Uploading, OpensShell, At, NothingPosted, taskVars, callerVars
<1>10. DirectoriesKnown'
  BY DEF SshInv, SshTypeOK, X11Rec, Runs, EarlyRuns, LoopRuns, TailRuns, TasksFit, Uploading, DirectoriesKnown, OpensShell, At, NothingPosted, taskVars, callerVars
<1> QED
  BY <1>1, <1>2, <1>3, <1>4, <1>5, <1>6, <1>7, <1>8, <1>9, <1>10 DEF SshInv

\* The failure is the one end, nothing having been reported.
LEMMA ShellNotOpenedKeeps == ASSUME SshInv, ShellNotOpened PROVE SshInv'
<1>1. SshTypeOK'
  <2>1. run' \in Runs
    BY DEF SshInv, SshTypeOK, X11Rec, Runs, EarlyRuns, LoopRuns, TailRuns, ShellNotOpened, Breaks, At, NothingPosted, taskVars, callerVars
  <2>2. carry' \in Nat
    BY DEF SshInv, SshTypeOK, X11Rec, ShellNotOpened, Breaks, At, NothingPosted, taskVars, callerVars
  <2>3. wanted' \in [size : ShellSizes, unseen : BOOLEAN]
    BY DEF SshInv, SshTypeOK, X11Rec, ShellNotOpened, Breaks, At, NothingPosted, taskVars, callerVars
  <2>4. outputs' \in [read : Nat, held : Nat, sent : Nat, awaiting : BOOLEAN]
    BY DEF SshInv, SshTypeOK, X11Rec, ShellNotOpened, Breaks, At, NothingPosted, taskVars, callerVars
  <2>5. x11' \in X11Rec
    BY DEF SshInv, SshTypeOK, X11Rec, ShellNotOpened, Breaks, At, NothingPosted, taskVars, callerVars
  <2>6. media' \in [automatic : BOOLEAN, microphone : BOOLEAN, stop : BOOLEAN]
    BY DEF SshInv, SshTypeOK, X11Rec, ShellNotOpened, Breaks, At, NothingPosted, taskVars, callerVars
  <2>7. images' \in [Images -> {"free", "opening", "listed", "made", "over"}]
    BY DEF SshInv, SshTypeOK, X11Rec, ShellNotOpened, Breaks, At, NothingPosted, taskVars, callerVars
  <2>8. directories' \in [listed : SUBSET Images, made : SUBSET Images]
    BY DEF SshInv, SshTypeOK, X11Rec, ShellNotOpened, Breaks, At, NothingPosted, taskVars, callerVars
  <2>9. probe' \in {"none", "reading", "sending", "over"}
    BY DEF SshInv, SshTypeOK, X11Rec, ShellNotOpened, Breaks, At, NothingPosted, taskVars, callerVars
  <2>10. verdict' \in [failed : BOOLEAN, exited : BOOLEAN]
    BY DEF SshInv, SshTypeOK, X11Rec, ShellNotOpened, Breaks, At, NothingPosted, taskVars, callerVars
  <2> QED
    BY <2>1, <2>2, <2>3, <2>4, <2>5, <2>6, <2>7, <2>8, <2>9, <2>10 DEF SshTypeOK, X11Rec
<1>2. OutboxFits'
  BY DEF SshInv, SshTypeOK, X11Rec, Runs, EarlyRuns, LoopRuns, TailRuns, OutboxFits, PlainEvents, X11Told, EndEvents, ShellNotOpened, Breaks, At, NothingPosted, taskVars, callerVars
<1>3. OutputAccounted'
  BY DEF SshInv, SshTypeOK, X11Rec, Runs, EarlyRuns, LoopRuns, TailRuns, OutboxFits, PlainEvents, X11Told, EndEvents, OutputAccounted, ShellNotOpened, Breaks, At, NothingPosted, taskVars, callerVars
<1>4. FinaleFits'
  BY DEF SshInv, SshTypeOK, X11Rec, Runs, EarlyRuns, LoopRuns, TailRuns, OutputAccounted, EndOnce, EndOut, EndEvents, FinaleFits, ShellNotOpened, Breaks, At, NothingPosted, taskVars, callerVars
<1>5. EndOnce'
  BY DEF SshInv, SshTypeOK, X11Rec, Runs, EarlyRuns, LoopRuns, TailRuns, OutboxFits, PlainEvents, X11Told, EndEvents, FinaleFits, EndOnce, EndOut, ShellNotOpened, Breaks, At, NothingPosted, taskVars, callerVars
<1>6. ProbeFits'
  BY DEF SshInv, SshTypeOK, X11Rec, Runs, EarlyRuns, LoopRuns, TailRuns, ProbeFits, ShellNotOpened, Breaks, At, NothingPosted, taskVars, callerVars
<1>7. SizeGranted'
  BY DEF SshInv, SshTypeOK, X11Rec, Runs, EarlyRuns, LoopRuns, TailRuns, SizeGranted, ShellNotOpened, Breaks, At, NothingPosted, taskVars, callerVars
<1>8. RelaysFit'
  BY SshShellAssumption DEF SshInv, SshTypeOK, X11Rec, Runs, EarlyRuns, LoopRuns, TailRuns, RelaysFit, ShellNotOpened, Breaks, At, NothingPosted, taskVars, callerVars
<1>9. TasksFit'
  BY SshShellAssumption DEF SshInv, SshTypeOK, X11Rec, Runs, EarlyRuns, LoopRuns, TailRuns, TasksFit, Uploading, ShellNotOpened, Breaks, At, NothingPosted, taskVars, callerVars
<1>10. DirectoriesKnown'
  BY DEF SshInv, SshTypeOK, X11Rec, Runs, EarlyRuns, LoopRuns, TailRuns, TasksFit, Uploading, DirectoriesKnown, ShellNotOpened, Breaks, At, NothingPosted, taskVars, callerVars
<1> QED
  BY <1>1, <1>2, <1>3, <1>4, <1>5, <1>6, <1>7, <1>8, <1>9, <1>10 DEF SshInv

\* A command of the loop.  An image is uploaded only below MAX_MEDIA_TASKS.
LEMMA TakesJobKeeps == ASSUME SshInv, TakesJob PROVE SshInv'
<1>1. SshTypeOK'
  BY ZenonT(40) DEF SshInv, SshTypeOK, X11Rec, Runs, EarlyRuns, LoopRuns, TailRuns, TakesJob, At, NothingPosted, taskVars, callerVars
<1>2. OutboxFits'
  BY DEF SshInv, SshTypeOK, X11Rec, Runs, EarlyRuns, LoopRuns, TailRuns, OutboxFits, PlainEvents, X11Told, EndEvents, TakesJob, At, NothingPosted, taskVars, callerVars
<1>3. OutputAccounted'
  BY DEF SshInv, SshTypeOK, X11Rec, Runs, EarlyRuns, LoopRuns, TailRuns, OutboxFits, PlainEvents, X11Told, EndEvents, OutputAccounted, TakesJob, At, NothingPosted, taskVars, callerVars
<1>4. FinaleFits'
  BY DEF SshInv, SshTypeOK, X11Rec, Runs, EarlyRuns, LoopRuns, TailRuns, OutputAccounted, EndOnce, EndOut, EndEvents, FinaleFits, TakesJob, At, NothingPosted, taskVars, callerVars
<1>5. EndOnce'
  BY DEF SshInv, SshTypeOK, X11Rec, Runs, EarlyRuns, LoopRuns, TailRuns, OutboxFits, PlainEvents, X11Told, EndEvents, FinaleFits, EndOnce, EndOut, TakesJob, At, NothingPosted, taskVars, callerVars
<1>6. ProbeFits'
  BY DEF SshInv, SshTypeOK, X11Rec, Runs, EarlyRuns, LoopRuns, TailRuns, ProbeFits, TakesJob, At, NothingPosted, taskVars, callerVars
<1>7. SizeGranted'
  BY DEF SshInv, SshTypeOK, X11Rec, Runs, EarlyRuns, LoopRuns, TailRuns, SizeGranted, TakesJob, At, NothingPosted, taskVars, callerVars
<1>8. RelaysFit'
  BY SshShellAssumption DEF SshInv, SshTypeOK, X11Rec, Runs, EarlyRuns, LoopRuns, TailRuns, RelaysFit, TakesJob, At, NothingPosted, taskVars, callerVars
<1>9. TasksFit'
  <2>1. /\ run = "open" /\ run' \in {"open", "writing", "flushing"} /\ media'.automatic = media.automatic
        /\ media.automatic \in BOOLEAN
    BY DEF SshInv, SshTypeOK, TakesJob, At
  <2>2. IsFiniteSet(Uploading') /\ Cardinality(Uploading') + (IF media'.automatic THEN 1 ELSE 0) <= MaxMedia
    <3>1. CASE Head(jobs) \in Images /\ ~(MediaTasks >= MaxMedia)
      <4>1. PICK u : u = Uploading'
        OBVIOUS
      <4>2. images' = [images EXCEPT ![Head(jobs)] = "opening"]
        BY <3>1 DEF TakesJob
      <4>3. u = Uploading \cup {Head(jobs)}
        BY <3>1, <4>1, <4>2 DEF SshInv, SshTypeOK, Uploading
      <4>4. IsFiniteSet(Uploading)
        BY DEF SshInv, TasksFit
      <4>5. /\ IsFiniteSet(u) /\ Cardinality(Uploading) \in Nat /\ Cardinality(u) \in Nat
            /\ Cardinality(u) <= Cardinality(Uploading) + 1
        BY <4>3, <4>4, OneMoreTask
      <4>6. /\ MediaTasks = Cardinality(Uploading) + (IF media.automatic THEN 1 ELSE 0)
                              + (IF media.microphone THEN 1 ELSE 0)
            /\ media.microphone \in BOOLEAN /\ MaxMedia \in Nat
        BY SshShellAssumption DEF MediaTasks, SshInv, SshTypeOK
      <4>7. Cardinality(Uploading) + (IF media.automatic THEN 1 ELSE 0) < MaxMedia
        BY <3>1, <4>5, <4>6, <2>1
      <4>8. Cardinality(u) + (IF media.automatic THEN 1 ELSE 0) <= MaxMedia
        BY <4>5, <4>6, <4>7, <2>1
      <4> QED
        BY <2>1, <4>1, <4>5, <4>8
    <3>2. CASE ~(Head(jobs) \in Images /\ ~(MediaTasks >= MaxMedia))
      <4>1. Uploading' \subseteq Uploading
        BY <3>2 DEF SshInv, SshTypeOK, Uploading, TakesJob
      <4> QED
        BY <2>1, <4>1, TasksLess, SshShellAssumption DEF SshInv
    <3> QED
      BY <3>1, <3>2
  <2> QED
    BY <2>1, <2>2 DEF TasksFit, EarlyRuns
<1>10. DirectoriesKnown'
  BY DEF SshInv, SshTypeOK, X11Rec, Runs, EarlyRuns, LoopRuns, TailRuns, TasksFit, Uploading, DirectoriesKnown, TakesJob, At, NothingPosted, taskVars, callerVars
<1> QED
  BY <1>1, <1>2, <1>3, <1>4, <1>5, <1>6, <1>7, <1>8, <1>9, <1>10 DEF SshInv

\* The remote took the input.
LEMMA ShellWritesKeeps == ASSUME SshInv, ShellWrites PROVE SshInv'
<1>1. SshTypeOK'
  <2>1. run' \in Runs
    BY DEF SshInv, SshTypeOK, X11Rec, Runs, EarlyRuns, LoopRuns, TailRuns, ShellWrites, At, NothingPosted, taskVars, callerVars
  <2>2. carry' \in Nat
    BY DEF SshInv, SshTypeOK, X11Rec, ShellWrites, At, NothingPosted, taskVars, callerVars
  <2>3. wanted' \in [size : ShellSizes, unseen : BOOLEAN]
    BY DEF SshInv, SshTypeOK, X11Rec, ShellWrites, At, NothingPosted, taskVars, callerVars
  <2>4. outputs' \in [read : Nat, held : Nat, sent : Nat, awaiting : BOOLEAN]
    BY DEF SshInv, SshTypeOK, X11Rec, ShellWrites, At, NothingPosted, taskVars, callerVars
  <2>5. x11' \in X11Rec
    BY DEF SshInv, SshTypeOK, X11Rec, ShellWrites, At, NothingPosted, taskVars, callerVars
  <2>6. media' \in [automatic : BOOLEAN, microphone : BOOLEAN, stop : BOOLEAN]
    BY DEF SshInv, SshTypeOK, X11Rec, ShellWrites, At, NothingPosted, taskVars, callerVars
  <2>7. images' \in [Images -> {"free", "opening", "listed", "made", "over"}]
    BY DEF SshInv, SshTypeOK, X11Rec, ShellWrites, At, NothingPosted, taskVars, callerVars
  <2>8. directories' \in [listed : SUBSET Images, made : SUBSET Images]
    BY DEF SshInv, SshTypeOK, X11Rec, ShellWrites, At, NothingPosted, taskVars, callerVars
  <2>9. probe' \in {"none", "reading", "sending", "over"}
    BY DEF SshInv, SshTypeOK, X11Rec, ShellWrites, At, NothingPosted, taskVars, callerVars
  <2>10. verdict' \in [failed : BOOLEAN, exited : BOOLEAN]
    BY DEF SshInv, SshTypeOK, X11Rec, ShellWrites, At, NothingPosted, taskVars, callerVars
  <2> QED
    BY <2>1, <2>2, <2>3, <2>4, <2>5, <2>6, <2>7, <2>8, <2>9, <2>10 DEF SshTypeOK, X11Rec
<1>2. OutboxFits'
  BY DEF SshInv, SshTypeOK, X11Rec, Runs, EarlyRuns, LoopRuns, TailRuns, OutboxFits, PlainEvents, X11Told, EndEvents, ShellWrites, At, NothingPosted, taskVars, callerVars
<1>3. OutputAccounted'
  BY DEF SshInv, SshTypeOK, X11Rec, Runs, EarlyRuns, LoopRuns, TailRuns, OutboxFits, PlainEvents, X11Told, EndEvents, OutputAccounted, ShellWrites, At, NothingPosted, taskVars, callerVars
<1>4. FinaleFits'
  BY DEF SshInv, SshTypeOK, X11Rec, Runs, EarlyRuns, LoopRuns, TailRuns, OutputAccounted, EndOnce, EndOut, EndEvents, FinaleFits, ShellWrites, At, NothingPosted, taskVars, callerVars
<1>5. EndOnce'
  BY DEF SshInv, SshTypeOK, X11Rec, Runs, EarlyRuns, LoopRuns, TailRuns, OutboxFits, PlainEvents, X11Told, EndEvents, FinaleFits, EndOnce, EndOut, ShellWrites, At, NothingPosted, taskVars, callerVars
<1>6. ProbeFits'
  BY DEF SshInv, SshTypeOK, X11Rec, Runs, EarlyRuns, LoopRuns, TailRuns, ProbeFits, ShellWrites, At, NothingPosted, taskVars, callerVars
<1>7. SizeGranted'
  BY DEF SshInv, SshTypeOK, X11Rec, Runs, EarlyRuns, LoopRuns, TailRuns, SizeGranted, ShellWrites, At, NothingPosted, taskVars, callerVars
<1>8. RelaysFit'
  BY SshShellAssumption DEF SshInv, SshTypeOK, X11Rec, Runs, EarlyRuns, LoopRuns, TailRuns, RelaysFit, ShellWrites, At, NothingPosted, taskVars, callerVars
<1>9. TasksFit'
  BY SshShellAssumption DEF SshInv, SshTypeOK, X11Rec, Runs, EarlyRuns, LoopRuns, TailRuns, TasksFit, Uploading, ShellWrites, At, NothingPosted, taskVars, callerVars
<1>10. DirectoriesKnown'
  BY DEF SshInv, SshTypeOK, X11Rec, Runs, EarlyRuns, LoopRuns, TailRuns, TasksFit, Uploading, DirectoriesKnown, ShellWrites, At, NothingPosted, taskVars, callerVars
<1> QED
  BY <1>1, <1>2, <1>3, <1>4, <1>5, <1>6, <1>7, <1>8, <1>9, <1>10 DEF SshInv

\* A failed write: the failure is the one end.
LEMMA ShellWriteFailsKeeps == ASSUME SshInv, ShellWriteFails PROVE SshInv'
<1>1. SshTypeOK'
  <2>1. run' \in Runs
    BY DEF SshInv, SshTypeOK, X11Rec, Runs, EarlyRuns, LoopRuns, TailRuns, ShellWriteFails, Breaks, At, NothingPosted, taskVars, callerVars
  <2>2. carry' \in Nat
    BY DEF SshInv, SshTypeOK, X11Rec, ShellWriteFails, Breaks, At, NothingPosted, taskVars, callerVars
  <2>3. wanted' \in [size : ShellSizes, unseen : BOOLEAN]
    BY DEF SshInv, SshTypeOK, X11Rec, ShellWriteFails, Breaks, At, NothingPosted, taskVars, callerVars
  <2>4. outputs' \in [read : Nat, held : Nat, sent : Nat, awaiting : BOOLEAN]
    BY DEF SshInv, SshTypeOK, X11Rec, ShellWriteFails, Breaks, At, NothingPosted, taskVars, callerVars
  <2>5. x11' \in X11Rec
    BY DEF SshInv, SshTypeOK, X11Rec, ShellWriteFails, Breaks, At, NothingPosted, taskVars, callerVars
  <2>6. media' \in [automatic : BOOLEAN, microphone : BOOLEAN, stop : BOOLEAN]
    BY DEF SshInv, SshTypeOK, X11Rec, ShellWriteFails, Breaks, At, NothingPosted, taskVars, callerVars
  <2>7. images' \in [Images -> {"free", "opening", "listed", "made", "over"}]
    BY DEF SshInv, SshTypeOK, X11Rec, ShellWriteFails, Breaks, At, NothingPosted, taskVars, callerVars
  <2>8. directories' \in [listed : SUBSET Images, made : SUBSET Images]
    BY DEF SshInv, SshTypeOK, X11Rec, ShellWriteFails, Breaks, At, NothingPosted, taskVars, callerVars
  <2>9. probe' \in {"none", "reading", "sending", "over"}
    BY DEF SshInv, SshTypeOK, X11Rec, ShellWriteFails, Breaks, At, NothingPosted, taskVars, callerVars
  <2>10. verdict' \in [failed : BOOLEAN, exited : BOOLEAN]
    BY DEF SshInv, SshTypeOK, X11Rec, ShellWriteFails, Breaks, At, NothingPosted, taskVars, callerVars
  <2> QED
    BY <2>1, <2>2, <2>3, <2>4, <2>5, <2>6, <2>7, <2>8, <2>9, <2>10 DEF SshTypeOK, X11Rec
<1>2. OutboxFits'
  BY DEF SshInv, SshTypeOK, X11Rec, Runs, EarlyRuns, LoopRuns, TailRuns, OutboxFits, PlainEvents, X11Told, EndEvents, ShellWriteFails, Breaks, At, NothingPosted, taskVars, callerVars
<1>3. OutputAccounted'
  BY DEF SshInv, SshTypeOK, X11Rec, Runs, EarlyRuns, LoopRuns, TailRuns, OutboxFits, PlainEvents, X11Told, EndEvents, OutputAccounted, ShellWriteFails, Breaks, At, NothingPosted, taskVars, callerVars
<1>4. FinaleFits'
  BY DEF SshInv, SshTypeOK, X11Rec, Runs, EarlyRuns, LoopRuns, TailRuns, OutputAccounted, EndOnce, EndOut, EndEvents, FinaleFits, ShellWriteFails, Breaks, At, NothingPosted, taskVars, callerVars
<1>5. EndOnce'
  BY DEF SshInv, SshTypeOK, X11Rec, Runs, EarlyRuns, LoopRuns, TailRuns, OutboxFits, PlainEvents, X11Told, EndEvents, FinaleFits, EndOnce, EndOut, ShellWriteFails, Breaks, At, NothingPosted, taskVars, callerVars
<1>6. ProbeFits'
  BY DEF SshInv, SshTypeOK, X11Rec, Runs, EarlyRuns, LoopRuns, TailRuns, ProbeFits, ShellWriteFails, Breaks, At, NothingPosted, taskVars, callerVars
<1>7. SizeGranted'
  BY DEF SshInv, SshTypeOK, X11Rec, Runs, EarlyRuns, LoopRuns, TailRuns, SizeGranted, ShellWriteFails, Breaks, At, NothingPosted, taskVars, callerVars
<1>8. RelaysFit'
  BY SshShellAssumption DEF SshInv, SshTypeOK, X11Rec, Runs, EarlyRuns, LoopRuns, TailRuns, RelaysFit, ShellWriteFails, Breaks, At, NothingPosted, taskVars, callerVars
<1>9. TasksFit'
  BY SshShellAssumption DEF SshInv, SshTypeOK, X11Rec, Runs, EarlyRuns, LoopRuns, TailRuns, TasksFit, Uploading, ShellWriteFails, Breaks, At, NothingPosted, taskVars, callerVars
<1>10. DirectoriesKnown'
  BY DEF SshInv, SshTypeOK, X11Rec, Runs, EarlyRuns, LoopRuns, TailRuns, TasksFit, Uploading, DirectoriesKnown, ShellWriteFails, Breaks, At, NothingPosted, taskVars, callerVars
<1> QED
  BY <1>1, <1>2, <1>3, <1>4, <1>5, <1>6, <1>7, <1>8, <1>9, <1>10 DEF SshInv

\* window_change: the remote has the size that was seen.
LEMMA SendsResizeKeeps == ASSUME SshInv, SendsResize PROVE SshInv'
<1>1. SshTypeOK'
  <2>1. run' \in Runs
    BY DEF SshInv, SshTypeOK, X11Rec, Runs, EarlyRuns, LoopRuns, TailRuns, SendsResize, At, NothingPosted, taskVars, callerVars
  <2>2. carry' \in Nat
    BY DEF SshInv, SshTypeOK, X11Rec, SendsResize, At, NothingPosted, taskVars, callerVars
  <2>3. wanted' \in [size : ShellSizes, unseen : BOOLEAN]
    BY DEF SshInv, SshTypeOK, X11Rec, SendsResize, At, NothingPosted, taskVars, callerVars
  <2>4. outputs' \in [read : Nat, held : Nat, sent : Nat, awaiting : BOOLEAN]
    BY DEF SshInv, SshTypeOK, X11Rec, SendsResize, At, NothingPosted, taskVars, callerVars
  <2>5. x11' \in X11Rec
    BY DEF SshInv, SshTypeOK, X11Rec, SendsResize, At, NothingPosted, taskVars, callerVars
  <2>6. media' \in [automatic : BOOLEAN, microphone : BOOLEAN, stop : BOOLEAN]
    BY DEF SshInv, SshTypeOK, X11Rec, SendsResize, At, NothingPosted, taskVars, callerVars
  <2>7. images' \in [Images -> {"free", "opening", "listed", "made", "over"}]
    BY DEF SshInv, SshTypeOK, X11Rec, SendsResize, At, NothingPosted, taskVars, callerVars
  <2>8. directories' \in [listed : SUBSET Images, made : SUBSET Images]
    BY DEF SshInv, SshTypeOK, X11Rec, SendsResize, At, NothingPosted, taskVars, callerVars
  <2>9. probe' \in {"none", "reading", "sending", "over"}
    BY DEF SshInv, SshTypeOK, X11Rec, SendsResize, At, NothingPosted, taskVars, callerVars
  <2>10. verdict' \in [failed : BOOLEAN, exited : BOOLEAN]
    BY DEF SshInv, SshTypeOK, X11Rec, SendsResize, At, NothingPosted, taskVars, callerVars
  <2> QED
    BY <2>1, <2>2, <2>3, <2>4, <2>5, <2>6, <2>7, <2>8, <2>9, <2>10 DEF SshTypeOK, X11Rec
<1>2. OutboxFits'
  BY DEF SshInv, SshTypeOK, X11Rec, Runs, EarlyRuns, LoopRuns, TailRuns, OutboxFits, PlainEvents, X11Told, EndEvents, SendsResize, At, NothingPosted, taskVars, callerVars
<1>3. OutputAccounted'
  BY DEF SshInv, SshTypeOK, X11Rec, Runs, EarlyRuns, LoopRuns, TailRuns, OutboxFits, PlainEvents, X11Told, EndEvents, OutputAccounted, SendsResize, At, NothingPosted, taskVars, callerVars
<1>4. FinaleFits'
  BY DEF SshInv, SshTypeOK, X11Rec, Runs, EarlyRuns, LoopRuns, TailRuns, OutputAccounted, EndOnce, EndOut, EndEvents, FinaleFits, SendsResize, At, NothingPosted, taskVars, callerVars
<1>5. EndOnce'
  BY DEF SshInv, SshTypeOK, X11Rec, Runs, EarlyRuns, LoopRuns, TailRuns, OutboxFits, PlainEvents, X11Told, EndEvents, FinaleFits, EndOnce, EndOut, SendsResize, At, NothingPosted, taskVars, callerVars
<1>6. ProbeFits'
  BY DEF SshInv, SshTypeOK, X11Rec, Runs, EarlyRuns, LoopRuns, TailRuns, ProbeFits, SendsResize, At, NothingPosted, taskVars, callerVars
<1>7. SizeGranted'
  BY DEF SshInv, SshTypeOK, X11Rec, Runs, EarlyRuns, LoopRuns, TailRuns, SizeGranted, SendsResize, At, NothingPosted, taskVars, callerVars
<1>8. RelaysFit'
  BY SshShellAssumption DEF SshInv, SshTypeOK, X11Rec, Runs, EarlyRuns, LoopRuns, TailRuns, RelaysFit, SendsResize, At, NothingPosted, taskVars, callerVars
<1>9. TasksFit'
  BY SshShellAssumption DEF SshInv, SshTypeOK, X11Rec, Runs, EarlyRuns, LoopRuns, TailRuns, TasksFit, Uploading, SendsResize, At, NothingPosted, taskVars, callerVars
<1>10. DirectoriesKnown'
  BY DEF SshInv, SshTypeOK, X11Rec, Runs, EarlyRuns, LoopRuns, TailRuns, TasksFit, Uploading, DirectoriesKnown, SendsResize, At, NothingPosted, taskVars, callerVars
<1> QED
  BY <1>1, <1>2, <1>3, <1>4, <1>5, <1>6, <1>7, <1>8, <1>9, <1>10 DEF SshInv

\* A failed window_change leaves the loop with the failure as the one end.
LEMMA ResizeFailsKeeps == ASSUME SshInv, ResizeFails PROVE SshInv'
<1>1. SshTypeOK'
  <2>1. run' \in Runs
    BY DEF SshInv, SshTypeOK, X11Rec, Runs, EarlyRuns, LoopRuns, TailRuns, ResizeFails, Breaks, At, NothingPosted, taskVars, callerVars
  <2>2. carry' \in Nat
    BY DEF SshInv, SshTypeOK, X11Rec, ResizeFails, Breaks, At, NothingPosted, taskVars, callerVars
  <2>3. wanted' \in [size : ShellSizes, unseen : BOOLEAN]
    BY DEF SshInv, SshTypeOK, X11Rec, ResizeFails, Breaks, At, NothingPosted, taskVars, callerVars
  <2>4. outputs' \in [read : Nat, held : Nat, sent : Nat, awaiting : BOOLEAN]
    BY DEF SshInv, SshTypeOK, X11Rec, ResizeFails, Breaks, At, NothingPosted, taskVars, callerVars
  <2>5. x11' \in X11Rec
    BY DEF SshInv, SshTypeOK, X11Rec, ResizeFails, Breaks, At, NothingPosted, taskVars, callerVars
  <2>6. media' \in [automatic : BOOLEAN, microphone : BOOLEAN, stop : BOOLEAN]
    BY DEF SshInv, SshTypeOK, X11Rec, ResizeFails, Breaks, At, NothingPosted, taskVars, callerVars
  <2>7. images' \in [Images -> {"free", "opening", "listed", "made", "over"}]
    BY DEF SshInv, SshTypeOK, X11Rec, ResizeFails, Breaks, At, NothingPosted, taskVars, callerVars
  <2>8. directories' \in [listed : SUBSET Images, made : SUBSET Images]
    BY DEF SshInv, SshTypeOK, X11Rec, ResizeFails, Breaks, At, NothingPosted, taskVars, callerVars
  <2>9. probe' \in {"none", "reading", "sending", "over"}
    BY DEF SshInv, SshTypeOK, X11Rec, ResizeFails, Breaks, At, NothingPosted, taskVars, callerVars
  <2>10. verdict' \in [failed : BOOLEAN, exited : BOOLEAN]
    BY DEF SshInv, SshTypeOK, X11Rec, ResizeFails, Breaks, At, NothingPosted, taskVars, callerVars
  <2> QED
    BY <2>1, <2>2, <2>3, <2>4, <2>5, <2>6, <2>7, <2>8, <2>9, <2>10 DEF SshTypeOK, X11Rec
<1>2. OutboxFits'
  BY DEF SshInv, SshTypeOK, X11Rec, Runs, EarlyRuns, LoopRuns, TailRuns, OutboxFits, PlainEvents, X11Told, EndEvents, ResizeFails, Breaks, At, NothingPosted, taskVars, callerVars
<1>3. OutputAccounted'
  BY DEF SshInv, SshTypeOK, X11Rec, Runs, EarlyRuns, LoopRuns, TailRuns, OutboxFits, PlainEvents, X11Told, EndEvents, OutputAccounted, ResizeFails, Breaks, At, NothingPosted, taskVars, callerVars
<1>4. FinaleFits'
  BY DEF SshInv, SshTypeOK, X11Rec, Runs, EarlyRuns, LoopRuns, TailRuns, OutputAccounted, EndOnce, EndOut, EndEvents, FinaleFits, ResizeFails, Breaks, At, NothingPosted, taskVars, callerVars
<1>5. EndOnce'
  BY DEF SshInv, SshTypeOK, X11Rec, Runs, EarlyRuns, LoopRuns, TailRuns, OutboxFits, PlainEvents, X11Told, EndEvents, FinaleFits, EndOnce, EndOut, ResizeFails, Breaks, At, NothingPosted, taskVars, callerVars
<1>6. ProbeFits'
  BY DEF SshInv, SshTypeOK, X11Rec, Runs, EarlyRuns, LoopRuns, TailRuns, ProbeFits, ResizeFails, Breaks, At, NothingPosted, taskVars, callerVars
<1>7. SizeGranted'
  BY DEF SshInv, SshTypeOK, X11Rec, Runs, EarlyRuns, LoopRuns, TailRuns, SizeGranted, ResizeFails, Breaks, At, NothingPosted, taskVars, callerVars
<1>8. RelaysFit'
  BY SshShellAssumption DEF SshInv, SshTypeOK, X11Rec, Runs, EarlyRuns, LoopRuns, TailRuns, RelaysFit, ResizeFails, Breaks, At, NothingPosted, taskVars, callerVars
<1>9. TasksFit'
  BY SshShellAssumption DEF SshInv, SshTypeOK, X11Rec, Runs, EarlyRuns, LoopRuns, TailRuns, TasksFit, Uploading, ResizeFails, Breaks, At, NothingPosted, taskVars, callerVars
<1>10. DirectoriesKnown'
  BY DEF SshInv, SshTypeOK, X11Rec, Runs, EarlyRuns, LoopRuns, TailRuns, TasksFit, Uploading, DirectoriesKnown, ResizeFails, Breaks, At, NothingPosted, taskVars, callerVars
<1> QED
  BY <1>1, <1>2, <1>3, <1>4, <1>5, <1>6, <1>7, <1>8, <1>9, <1>10 DEF SshInv

\* A chunk is held or put into the outbox, and counted as read.
LEMMA ReadsShellKeeps == ASSUME SshInv, ReadsShell PROVE SshInv'
<1>1. SshTypeOK'
  <2>1. run' \in Runs
    BY DEF SshInv, SshTypeOK, X11Rec, Runs, EarlyRuns, LoopRuns, TailRuns, ReadsShell, FlushesHeld, At, NothingPosted, taskVars, callerVars
  <2>2. carry' \in Nat
    BY DEF SshInv, SshTypeOK, X11Rec, ReadsShell, FlushesHeld, At, NothingPosted, taskVars, callerVars
  <2>3. wanted' \in [size : ShellSizes, unseen : BOOLEAN]
    BY DEF SshInv, SshTypeOK, X11Rec, ReadsShell, FlushesHeld, At, NothingPosted, taskVars, callerVars
  <2>4. outputs' \in [read : Nat, held : Nat, sent : Nat, awaiting : BOOLEAN]
    <3>1. outputs \in [read : Nat, held : Nat, sent : Nat, awaiting : BOOLEAN]
      BY DEF SshInv, SshTypeOK
    <3>2. PICK n \in Nat, h \in Nat : outputs' = [outputs EXCEPT !.read = n, !.held = h, !.awaiting = FALSE]
      <4>1. PICK h \in {0, outputs.held + 1} :
               outputs' = [outputs EXCEPT !.read = outputs.read + 1, !.held = h, !.awaiting = FALSE]
        BY DEF ReadsShell
      <4>2. outputs.read + 1 \in Nat /\ h \in Nat
        BY <3>1, <4>1
      <4> QED
        BY <4>1, <4>2
    <3> QED
      BY <3>1, <3>2, ZenonT(40)
  <2>5. x11' \in X11Rec
    BY DEF SshInv, SshTypeOK, X11Rec, ReadsShell, FlushesHeld, At, NothingPosted, taskVars, callerVars
  <2>6. media' \in [automatic : BOOLEAN, microphone : BOOLEAN, stop : BOOLEAN]
    BY DEF SshInv, SshTypeOK, X11Rec, ReadsShell, FlushesHeld, At, NothingPosted, taskVars, callerVars
  <2>7. images' \in [Images -> {"free", "opening", "listed", "made", "over"}]
    BY DEF SshInv, SshTypeOK, X11Rec, ReadsShell, FlushesHeld, At, NothingPosted, taskVars, callerVars
  <2>8. directories' \in [listed : SUBSET Images, made : SUBSET Images]
    BY DEF SshInv, SshTypeOK, X11Rec, ReadsShell, FlushesHeld, At, NothingPosted, taskVars, callerVars
  <2>9. probe' \in {"none", "reading", "sending", "over"}
    BY DEF SshInv, SshTypeOK, X11Rec, ReadsShell, FlushesHeld, At, NothingPosted, taskVars, callerVars
  <2>10. verdict' \in [failed : BOOLEAN, exited : BOOLEAN]
    BY DEF SshInv, SshTypeOK, X11Rec, ReadsShell, FlushesHeld, At, NothingPosted, taskVars, callerVars
  <2> QED
    BY <2>1, <2>2, <2>3, <2>4, <2>5, <2>6, <2>7, <2>8, <2>9, <2>10 DEF SshTypeOK, X11Rec
<1>2. OutboxFits'
  BY DEF SshInv, SshTypeOK, X11Rec, Runs, EarlyRuns, LoopRuns, TailRuns, OutboxFits, PlainEvents, X11Told, EndEvents, ReadsShell, FlushesHeld, At, NothingPosted, taskVars, callerVars
<1>3. OutputAccounted'
  BY DEF SshInv, SshTypeOK, X11Rec, Runs, EarlyRuns, LoopRuns, TailRuns, OutboxFits, PlainEvents, X11Told, EndEvents, OutputAccounted, ReadsShell, FlushesHeld, At, NothingPosted, taskVars, callerVars
<1>4. FinaleFits'
  BY DEF SshInv, SshTypeOK, X11Rec, Runs, EarlyRuns, LoopRuns, TailRuns, OutputAccounted, EndOnce, EndOut, EndEvents, FinaleFits, ReadsShell, FlushesHeld, At, NothingPosted, taskVars, callerVars
<1>5. EndOnce'
  BY SMTT(40) DEF SshInv, SshTypeOK, X11Rec, Runs, EarlyRuns, LoopRuns, TailRuns, OutboxFits, PlainEvents, X11Told, EndEvents, FinaleFits, EndOnce, EndOut, ReadsShell, FlushesHeld, At, NothingPosted, taskVars, callerVars
<1>6. ProbeFits'
  BY DEF SshInv, SshTypeOK, X11Rec, Runs, EarlyRuns, LoopRuns, TailRuns, ProbeFits, ReadsShell, FlushesHeld, At, NothingPosted, taskVars, callerVars
<1>7. SizeGranted'
  BY DEF SshInv, SshTypeOK, X11Rec, Runs, EarlyRuns, LoopRuns, TailRuns, SizeGranted, ReadsShell, FlushesHeld, At, NothingPosted, taskVars, callerVars
<1>8. RelaysFit'
  BY SshShellAssumption DEF SshInv, SshTypeOK, X11Rec, Runs, EarlyRuns, LoopRuns, TailRuns, RelaysFit, ReadsShell, FlushesHeld, At, NothingPosted, taskVars, callerVars
<1>9. TasksFit'
  BY SshShellAssumption DEF SshInv, SshTypeOK, X11Rec, Runs, EarlyRuns, LoopRuns, TailRuns, TasksFit, Uploading, ReadsShell, FlushesHeld, At, NothingPosted, taskVars, callerVars
<1>10. DirectoriesKnown'
  BY DEF SshInv, SshTypeOK, X11Rec, Runs, EarlyRuns, LoopRuns, TailRuns, TasksFit, Uploading, DirectoriesKnown, ReadsShell, FlushesHeld, At, NothingPosted, taskVars, callerVars
<1> QED
  BY <1>1, <1>2, <1>3, <1>4, <1>5, <1>6, <1>7, <1>8, <1>9, <1>10 DEF SshInv

\* What is held goes into the outbox.
LEMMA FlushTimerKeeps == ASSUME SshInv, FlushTimer PROVE SshInv'
<1>1. SshTypeOK'
  BY DEF SshInv, SshTypeOK, X11Rec, Runs, EarlyRuns, LoopRuns, TailRuns, FlushTimer, FlushesHeld, At, NothingPosted, taskVars, callerVars
<1>2. OutboxFits'
  BY DEF SshInv, SshTypeOK, X11Rec, Runs, EarlyRuns, LoopRuns, TailRuns, OutboxFits, PlainEvents, X11Told, EndEvents, FlushTimer, FlushesHeld, At, NothingPosted, taskVars, callerVars
<1>3. OutputAccounted'
  BY DEF SshInv, SshTypeOK, X11Rec, Runs, EarlyRuns, LoopRuns, TailRuns, OutboxFits, PlainEvents, X11Told, EndEvents, OutputAccounted, FlushTimer, FlushesHeld, At, NothingPosted, taskVars, callerVars
<1>4. FinaleFits'
  BY DEF SshInv, SshTypeOK, X11Rec, Runs, EarlyRuns, LoopRuns, TailRuns, OutputAccounted, EndOnce, EndOut, EndEvents, FinaleFits, FlushTimer, FlushesHeld, At, NothingPosted, taskVars, callerVars
<1>5. EndOnce'
  BY DEF SshInv, SshTypeOK, X11Rec, Runs, EarlyRuns, LoopRuns, TailRuns, OutboxFits, PlainEvents, X11Told, EndEvents, FinaleFits, EndOnce, EndOut, FlushTimer, FlushesHeld, At, NothingPosted, taskVars, callerVars
<1>6. ProbeFits'
  BY DEF SshInv, SshTypeOK, X11Rec, Runs, EarlyRuns, LoopRuns, TailRuns, ProbeFits, FlushTimer, FlushesHeld, At, NothingPosted, taskVars, callerVars
<1>7. SizeGranted'
  BY DEF SshInv, SshTypeOK, X11Rec, Runs, EarlyRuns, LoopRuns, TailRuns, SizeGranted, FlushTimer, FlushesHeld, At, NothingPosted, taskVars, callerVars
<1>8. RelaysFit'
  BY SshShellAssumption DEF SshInv, SshTypeOK, X11Rec, Runs, EarlyRuns, LoopRuns, TailRuns, RelaysFit, FlushTimer, FlushesHeld, At, NothingPosted, taskVars, callerVars
<1>9. TasksFit'
  BY SshShellAssumption DEF SshInv, SshTypeOK, X11Rec, Runs, EarlyRuns, LoopRuns, TailRuns, TasksFit, Uploading, FlushTimer, FlushesHeld, At, NothingPosted, taskVars, callerVars
<1>10. DirectoriesKnown'
  BY DEF SshInv, SshTypeOK, X11Rec, Runs, EarlyRuns, LoopRuns, TailRuns, TasksFit, Uploading, DirectoriesKnown, FlushTimer, FlushesHeld, At, NothingPosted, taskVars, callerVars
<1> QED
  BY <1>1, <1>2, <1>3, <1>4, <1>5, <1>6, <1>7, <1>8, <1>9, <1>10 DEF SshInv

\* The shell exits or the transport is closed: the end is reported after the
\* clean-up.
LEMMA ShellOverKeeps == ASSUME SshInv, NEW exits \in BOOLEAN, ShellOver(exits) PROVE SshInv'
<1>1. SshTypeOK'
  BY DEF SshInv, SshTypeOK, X11Rec, Runs, EarlyRuns, LoopRuns, TailRuns, ShellOver, At, NothingPosted, taskVars, callerVars
<1>2. OutboxFits'
  BY DEF SshInv, SshTypeOK, X11Rec, Runs, EarlyRuns, LoopRuns, TailRuns, OutboxFits, PlainEvents, X11Told, EndEvents, ShellOver, At, NothingPosted, taskVars, callerVars
<1>3. OutputAccounted'
  BY DEF SshInv, SshTypeOK, X11Rec, Runs, EarlyRuns, LoopRuns, TailRuns, OutboxFits, PlainEvents, X11Told, EndEvents, OutputAccounted, ShellOver, At, NothingPosted, taskVars, callerVars
<1>4. FinaleFits'
  BY DEF SshInv, SshTypeOK, X11Rec, Runs, EarlyRuns, LoopRuns, TailRuns, OutputAccounted, EndOnce, EndOut, EndEvents, FinaleFits, ShellOver, At, NothingPosted, taskVars, callerVars
<1>5. EndOnce'
  BY DEF SshInv, SshTypeOK, X11Rec, Runs, EarlyRuns, LoopRuns, TailRuns, OutboxFits, PlainEvents, X11Told, EndEvents, FinaleFits, EndOnce, EndOut, ShellOver, At, NothingPosted, taskVars, callerVars
<1>6. ProbeFits'
  BY DEF SshInv, SshTypeOK, X11Rec, Runs, EarlyRuns, LoopRuns, TailRuns, ProbeFits, ShellOver, At, NothingPosted, taskVars, callerVars
<1>7. SizeGranted'
  BY DEF SshInv, SshTypeOK, X11Rec, Runs, EarlyRuns, LoopRuns, TailRuns, SizeGranted, ShellOver, At, NothingPosted, taskVars, callerVars
<1>8. RelaysFit'
  BY SshShellAssumption DEF SshInv, SshTypeOK, X11Rec, Runs, EarlyRuns, LoopRuns, TailRuns, RelaysFit, ShellOver, At, NothingPosted, taskVars, callerVars
<1>9. TasksFit'
  BY SshShellAssumption DEF SshInv, SshTypeOK, X11Rec, Runs, EarlyRuns, LoopRuns, TailRuns, TasksFit, Uploading, ShellOver, At, NothingPosted, taskVars, callerVars
<1>10. DirectoriesKnown'
  BY DEF SshInv, SshTypeOK, X11Rec, Runs, EarlyRuns, LoopRuns, TailRuns, TasksFit, Uploading, DirectoriesKnown, ShellOver, At, NothingPosted, taskVars, callerVars
<1> QED
  BY <1>1, <1>2, <1>3, <1>4, <1>5, <1>6, <1>7, <1>8, <1>9, <1>10 DEF SshInv

\* A failed receive leaves the loop with the failure as the one end.
LEMMA ReceiveFailsKeeps == ASSUME SshInv, ReceiveFails PROVE SshInv'
<1>1. SshTypeOK'
  <2>1. run' \in Runs
    BY DEF SshInv, SshTypeOK, X11Rec, Runs, EarlyRuns, LoopRuns, TailRuns, ReceiveFails, Breaks, At, NothingPosted, taskVars, callerVars
  <2>2. carry' \in Nat
    BY DEF SshInv, SshTypeOK, X11Rec, ReceiveFails, Breaks, At, NothingPosted, taskVars, callerVars
  <2>3. wanted' \in [size : ShellSizes, unseen : BOOLEAN]
    BY DEF SshInv, SshTypeOK, X11Rec, ReceiveFails, Breaks, At, NothingPosted, taskVars, callerVars
  <2>4. outputs' \in [read : Nat, held : Nat, sent : Nat, awaiting : BOOLEAN]
    BY DEF SshInv, SshTypeOK, X11Rec, ReceiveFails, Breaks, At, NothingPosted, taskVars, callerVars
  <2>5. x11' \in X11Rec
    BY DEF SshInv, SshTypeOK, X11Rec, ReceiveFails, Breaks, At, NothingPosted, taskVars, callerVars
  <2>6. media' \in [automatic : BOOLEAN, microphone : BOOLEAN, stop : BOOLEAN]
    BY DEF SshInv, SshTypeOK, X11Rec, ReceiveFails, Breaks, At, NothingPosted, taskVars, callerVars
  <2>7. images' \in [Images -> {"free", "opening", "listed", "made", "over"}]
    BY DEF SshInv, SshTypeOK, X11Rec, ReceiveFails, Breaks, At, NothingPosted, taskVars, callerVars
  <2>8. directories' \in [listed : SUBSET Images, made : SUBSET Images]
    BY DEF SshInv, SshTypeOK, X11Rec, ReceiveFails, Breaks, At, NothingPosted, taskVars, callerVars
  <2>9. probe' \in {"none", "reading", "sending", "over"}
    BY DEF SshInv, SshTypeOK, X11Rec, ReceiveFails, Breaks, At, NothingPosted, taskVars, callerVars
  <2>10. verdict' \in [failed : BOOLEAN, exited : BOOLEAN]
    BY DEF SshInv, SshTypeOK, X11Rec, ReceiveFails, Breaks, At, NothingPosted, taskVars, callerVars
  <2> QED
    BY <2>1, <2>2, <2>3, <2>4, <2>5, <2>6, <2>7, <2>8, <2>9, <2>10 DEF SshTypeOK, X11Rec
<1>2. OutboxFits'
  BY DEF SshInv, SshTypeOK, X11Rec, Runs, EarlyRuns, LoopRuns, TailRuns, OutboxFits, PlainEvents, X11Told, EndEvents, ReceiveFails, Breaks, At, NothingPosted, taskVars, callerVars
<1>3. OutputAccounted'
  BY DEF SshInv, SshTypeOK, X11Rec, Runs, EarlyRuns, LoopRuns, TailRuns, OutboxFits, PlainEvents, X11Told, EndEvents, OutputAccounted, ReceiveFails, Breaks, At, NothingPosted, taskVars, callerVars
<1>4. FinaleFits'
  BY DEF SshInv, SshTypeOK, X11Rec, Runs, EarlyRuns, LoopRuns, TailRuns, OutputAccounted, EndOnce, EndOut, EndEvents, FinaleFits, ReceiveFails, Breaks, At, NothingPosted, taskVars, callerVars
<1>5. EndOnce'
  BY DEF SshInv, SshTypeOK, X11Rec, Runs, EarlyRuns, LoopRuns, TailRuns, OutboxFits, PlainEvents, X11Told, EndEvents, FinaleFits, EndOnce, EndOut, ReceiveFails, Breaks, At, NothingPosted, taskVars, callerVars
<1>6. ProbeFits'
  BY DEF SshInv, SshTypeOK, X11Rec, Runs, EarlyRuns, LoopRuns, TailRuns, ProbeFits, ReceiveFails, Breaks, At, NothingPosted, taskVars, callerVars
<1>7. SizeGranted'
  BY DEF SshInv, SshTypeOK, X11Rec, Runs, EarlyRuns, LoopRuns, TailRuns, SizeGranted, ReceiveFails, Breaks, At, NothingPosted, taskVars, callerVars
<1>8. RelaysFit'
  BY SshShellAssumption DEF SshInv, SshTypeOK, X11Rec, Runs, EarlyRuns, LoopRuns, TailRuns, RelaysFit, ReceiveFails, Breaks, At, NothingPosted, taskVars, callerVars
<1>9. TasksFit'
  BY SshShellAssumption DEF SshInv, SshTypeOK, X11Rec, Runs, EarlyRuns, LoopRuns, TailRuns, TasksFit, Uploading, ReceiveFails, Breaks, At, NothingPosted, taskVars, callerVars
<1>10. DirectoriesKnown'
  BY DEF SshInv, SshTypeOK, X11Rec, Runs, EarlyRuns, LoopRuns, TailRuns, TasksFit, Uploading, DirectoriesKnown, ReceiveFails, Breaks, At, NothingPosted, taskVars, callerVars
<1> QED
  BY <1>1, <1>2, <1>3, <1>4, <1>5, <1>6, <1>7, <1>8, <1>9, <1>10 DEF SshInv

\* X11Dispatcher::dispatch queues a channel, only while forwarding is on.
LEMMA X11DispatchedKeeps == ASSUME SshInv, X11Dispatched PROVE SshInv'
<1>1. SshTypeOK'
  BY DEF SshInv, SshTypeOK, X11Rec, Runs, EarlyRuns, LoopRuns, TailRuns, X11Dispatched, At, NothingPosted, taskVars, callerVars
<1>2. OutboxFits'
  BY DEF SshInv, SshTypeOK, X11Rec, Runs, EarlyRuns, LoopRuns, TailRuns, OutboxFits, PlainEvents, X11Told, EndEvents, X11Dispatched, At, NothingPosted, taskVars, callerVars
<1>3. OutputAccounted'
  BY DEF SshInv, SshTypeOK, X11Rec, Runs, EarlyRuns, LoopRuns, TailRuns, OutboxFits, PlainEvents, X11Told, EndEvents, OutputAccounted, X11Dispatched, At, NothingPosted, taskVars, callerVars
<1>4. FinaleFits'
  BY DEF SshInv, SshTypeOK, X11Rec, Runs, EarlyRuns, LoopRuns, TailRuns, OutputAccounted, EndOnce, EndOut, EndEvents, FinaleFits, X11Dispatched, At, NothingPosted, taskVars, callerVars
<1>5. EndOnce'
  BY DEF SshInv, SshTypeOK, X11Rec, Runs, EarlyRuns, LoopRuns, TailRuns, OutboxFits, PlainEvents, X11Told, EndEvents, FinaleFits, EndOnce, EndOut, X11Dispatched, At, NothingPosted, taskVars, callerVars
<1>6. ProbeFits'
  BY DEF SshInv, SshTypeOK, X11Rec, Runs, EarlyRuns, LoopRuns, TailRuns, ProbeFits, X11Dispatched, At, NothingPosted, taskVars, callerVars
<1>7. SizeGranted'
  BY DEF SshInv, SshTypeOK, X11Rec, Runs, EarlyRuns, LoopRuns, TailRuns, SizeGranted, X11Dispatched, At, NothingPosted, taskVars, callerVars
<1>8. RelaysFit'
  BY SshShellAssumption DEF SshInv, SshTypeOK, X11Rec, Runs, EarlyRuns, LoopRuns, TailRuns, RelaysFit, X11Dispatched, At, NothingPosted, taskVars, callerVars
<1>9. TasksFit'
  BY SshShellAssumption DEF SshInv, SshTypeOK, X11Rec, Runs, EarlyRuns, LoopRuns, TailRuns, TasksFit, Uploading, X11Dispatched, At, NothingPosted, taskVars, callerVars
<1>10. DirectoriesKnown'
  BY DEF SshInv, SshTypeOK, X11Rec, Runs, EarlyRuns, LoopRuns, TailRuns, TasksFit, Uploading, DirectoriesKnown, X11Dispatched, At, NothingPosted, taskVars, callerVars
<1> QED
  BY <1>1, <1>2, <1>3, <1>4, <1>5, <1>6, <1>7, <1>8, <1>9, <1>10 DEF SshInv

\* A relay starts unless there are MAX_X11_RELAYS.
LEMMA TakesX11Keeps == ASSUME SshInv, TakesX11 PROVE SshInv'
<1>1. SshTypeOK'
  <2>1. run' \in Runs
    BY DEF SshInv, SshTypeOK, X11Rec, Runs, EarlyRuns, LoopRuns, TailRuns, TakesX11, At, NothingPosted, taskVars, callerVars
  <2>2. carry' \in Nat
    BY DEF SshInv, SshTypeOK, X11Rec, TakesX11, At, NothingPosted, taskVars, callerVars
  <2>3. wanted' \in [size : ShellSizes, unseen : BOOLEAN]
    BY DEF SshInv, SshTypeOK, X11Rec, TakesX11, At, NothingPosted, taskVars, callerVars
  <2>4. outputs' \in [read : Nat, held : Nat, sent : Nat, awaiting : BOOLEAN]
    BY DEF SshInv, SshTypeOK, X11Rec, TakesX11, At, NothingPosted, taskVars, callerVars
  <2>5. x11' \in X11Rec
    <3>1. x11 \in X11Rec
      BY DEF SshInv, SshTypeOK
    <3>2. PICK q \in Nat, n \in Nat : x11' = [x11 EXCEPT !.queue = q, !.relays = n]
      <4>1. /\ x11.queue - 1 \in Nat
            /\ (IF x11.relays >= MaxRelays THEN x11.relays ELSE x11.relays + 1) \in Nat
        BY <3>1 DEF X11Rec, TakesX11
      <4>2. x11' = [x11 EXCEPT !.queue = x11.queue - 1,
                               !.relays = IF x11.relays >= MaxRelays THEN x11.relays ELSE x11.relays + 1]
        BY DEF TakesX11
      <4> QED
        BY <4>1, <4>2
    <3> QED
      BY <3>1, <3>2, ZenonT(40) DEF X11Rec
  <2>6. media' \in [automatic : BOOLEAN, microphone : BOOLEAN, stop : BOOLEAN]
    BY DEF SshInv, SshTypeOK, X11Rec, TakesX11, At, NothingPosted, taskVars, callerVars
  <2>7. images' \in [Images -> {"free", "opening", "listed", "made", "over"}]
    BY DEF SshInv, SshTypeOK, X11Rec, TakesX11, At, NothingPosted, taskVars, callerVars
  <2>8. directories' \in [listed : SUBSET Images, made : SUBSET Images]
    BY DEF SshInv, SshTypeOK, X11Rec, TakesX11, At, NothingPosted, taskVars, callerVars
  <2>9. probe' \in {"none", "reading", "sending", "over"}
    BY DEF SshInv, SshTypeOK, X11Rec, TakesX11, At, NothingPosted, taskVars, callerVars
  <2>10. verdict' \in [failed : BOOLEAN, exited : BOOLEAN]
    BY DEF SshInv, SshTypeOK, X11Rec, TakesX11, At, NothingPosted, taskVars, callerVars
  <2> QED
    BY <2>1, <2>2, <2>3, <2>4, <2>5, <2>6, <2>7, <2>8, <2>9, <2>10 DEF SshTypeOK, X11Rec
<1>2. OutboxFits'
  BY DEF SshInv, SshTypeOK, X11Rec, Runs, EarlyRuns, LoopRuns, TailRuns, OutboxFits, PlainEvents, X11Told, EndEvents, TakesX11, At, NothingPosted, taskVars, callerVars
<1>3. OutputAccounted'
  BY DEF SshInv, SshTypeOK, X11Rec, Runs, EarlyRuns, LoopRuns, TailRuns, OutboxFits, PlainEvents, X11Told, EndEvents, OutputAccounted, TakesX11, At, NothingPosted, taskVars, callerVars
<1>4. FinaleFits'
  BY DEF SshInv, SshTypeOK, X11Rec, Runs, EarlyRuns, LoopRuns, TailRuns, OutputAccounted, EndOnce, EndOut, EndEvents, FinaleFits, TakesX11, At, NothingPosted, taskVars, callerVars
<1>5. EndOnce'
  BY DEF SshInv, SshTypeOK, X11Rec, Runs, EarlyRuns, LoopRuns, TailRuns, OutboxFits, PlainEvents, X11Told, EndEvents, FinaleFits, EndOnce, EndOut, TakesX11, At, NothingPosted, taskVars, callerVars
<1>6. ProbeFits'
  BY DEF SshInv, SshTypeOK, X11Rec, Runs, EarlyRuns, LoopRuns, TailRuns, ProbeFits, TakesX11, At, NothingPosted, taskVars, callerVars
<1>7. SizeGranted'
  BY DEF SshInv, SshTypeOK, X11Rec, Runs, EarlyRuns, LoopRuns, TailRuns, SizeGranted, TakesX11, At, NothingPosted, taskVars, callerVars
<1>8. RelaysFit'
  BY SshShellAssumption DEF SshInv, SshTypeOK, X11Rec, Runs, EarlyRuns, LoopRuns, TailRuns, RelaysFit, TakesX11, At, NothingPosted, taskVars, callerVars
<1>9. TasksFit'
  BY SshShellAssumption DEF SshInv, SshTypeOK, X11Rec, Runs, EarlyRuns, LoopRuns, TailRuns, TasksFit, Uploading, TakesX11, At, NothingPosted, taskVars, callerVars
<1>10. DirectoriesKnown'
  BY DEF SshInv, SshTypeOK, X11Rec, Runs, EarlyRuns, LoopRuns, TailRuns, TasksFit, Uploading, DirectoriesKnown, TakesX11, At, NothingPosted, taskVars, callerVars
<1> QED
  BY <1>1, <1>2, <1>3, <1>4, <1>5, <1>6, <1>7, <1>8, <1>9, <1>10 DEF SshInv

\* A relay ends; a local X server that is missing is told once.
LEMMA RelayEndsKeeps == ASSUME SshInv, NEW unprepared \in BOOLEAN, RelayEnds(unprepared) PROVE SshInv'
<1>1. SshTypeOK'
  <2>1. run' \in Runs
    BY DEF SshInv, SshTypeOK, X11Rec, Runs, EarlyRuns, LoopRuns, TailRuns, RelayEnds, At, NothingPosted, taskVars, callerVars
  <2>2. carry' \in Nat
    BY DEF SshInv, SshTypeOK, X11Rec, RelayEnds, At, NothingPosted, taskVars, callerVars
  <2>3. wanted' \in [size : ShellSizes, unseen : BOOLEAN]
    BY DEF SshInv, SshTypeOK, X11Rec, RelayEnds, At, NothingPosted, taskVars, callerVars
  <2>4. outputs' \in [read : Nat, held : Nat, sent : Nat, awaiting : BOOLEAN]
    BY DEF SshInv, SshTypeOK, X11Rec, RelayEnds, At, NothingPosted, taskVars, callerVars
  <2>5. x11' \in X11Rec
    <3>1. x11 \in X11Rec
      BY DEF SshInv, SshTypeOK
    <3>2. PICK n \in Nat, t \in BOOLEAN : x11' = [x11 EXCEPT !.relays = n, !.told = t]
      <4>1. x11.relays - 1 \in Nat /\ (x11.told \/ unprepared) \in BOOLEAN
        BY <3>1 DEF X11Rec, RelayEnds
      <4>2. x11' = [x11 EXCEPT !.relays = x11.relays - 1, !.told = x11.told \/ unprepared]
        BY DEF RelayEnds
      <4> QED
        BY <4>1, <4>2
    <3> QED
      BY <3>1, <3>2, ZenonT(40) DEF X11Rec
  <2>6. media' \in [automatic : BOOLEAN, microphone : BOOLEAN, stop : BOOLEAN]
    BY DEF SshInv, SshTypeOK, X11Rec, RelayEnds, At, NothingPosted, taskVars, callerVars
  <2>7. images' \in [Images -> {"free", "opening", "listed", "made", "over"}]
    BY DEF SshInv, SshTypeOK, X11Rec, RelayEnds, At, NothingPosted, taskVars, callerVars
  <2>8. directories' \in [listed : SUBSET Images, made : SUBSET Images]
    BY DEF SshInv, SshTypeOK, X11Rec, RelayEnds, At, NothingPosted, taskVars, callerVars
  <2>9. probe' \in {"none", "reading", "sending", "over"}
    BY DEF SshInv, SshTypeOK, X11Rec, RelayEnds, At, NothingPosted, taskVars, callerVars
  <2>10. verdict' \in [failed : BOOLEAN, exited : BOOLEAN]
    BY DEF SshInv, SshTypeOK, X11Rec, RelayEnds, At, NothingPosted, taskVars, callerVars
  <2> QED
    BY <2>1, <2>2, <2>3, <2>4, <2>5, <2>6, <2>7, <2>8, <2>9, <2>10 DEF SshTypeOK, X11Rec
<1>2. OutboxFits'
  BY DEF SshInv, SshTypeOK, X11Rec, Runs, EarlyRuns, LoopRuns, TailRuns, OutboxFits, PlainEvents, X11Told, EndEvents, RelayEnds, At, NothingPosted, taskVars, callerVars
<1>3. OutputAccounted'
  BY DEF SshInv, SshTypeOK, X11Rec, Runs, EarlyRuns, LoopRuns, TailRuns, OutboxFits, PlainEvents, X11Told, EndEvents, OutputAccounted, RelayEnds, At, NothingPosted, taskVars, callerVars
<1>4. FinaleFits'
  BY DEF SshInv, SshTypeOK, X11Rec, Runs, EarlyRuns, LoopRuns, TailRuns, OutputAccounted, EndOnce, EndOut, EndEvents, FinaleFits, RelayEnds, At, NothingPosted, taskVars, callerVars
<1>5. EndOnce'
  BY DEF SshInv, SshTypeOK, X11Rec, Runs, EarlyRuns, LoopRuns, TailRuns, OutboxFits, PlainEvents, X11Told, EndEvents, FinaleFits, EndOnce, EndOut, RelayEnds, At, NothingPosted, taskVars, callerVars
<1>6. ProbeFits'
  BY DEF SshInv, SshTypeOK, X11Rec, Runs, EarlyRuns, LoopRuns, TailRuns, ProbeFits, RelayEnds, At, NothingPosted, taskVars, callerVars
<1>7. SizeGranted'
  BY DEF SshInv, SshTypeOK, X11Rec, Runs, EarlyRuns, LoopRuns, TailRuns, SizeGranted, RelayEnds, At, NothingPosted, taskVars, callerVars
<1>8. RelaysFit'
  BY SshShellAssumption DEF SshInv, SshTypeOK, X11Rec, Runs, EarlyRuns, LoopRuns, TailRuns, RelaysFit, RelayEnds, At, NothingPosted, taskVars, callerVars
<1>9. TasksFit'
  BY SshShellAssumption DEF SshInv, SshTypeOK, X11Rec, Runs, EarlyRuns, LoopRuns, TailRuns, TasksFit, Uploading, RelayEnds, At, NothingPosted, taskVars, callerVars
<1>10. DirectoriesKnown'
  BY DEF SshInv, SshTypeOK, X11Rec, Runs, EarlyRuns, LoopRuns, TailRuns, TasksFit, Uploading, DirectoriesKnown, RelayEnds, At, NothingPosted, taskVars, callerVars
<1> QED
  BY <1>1, <1>2, <1>3, <1>4, <1>5, <1>6, <1>7, <1>8, <1>9, <1>10 DEF SshInv

\* upload_image lists its directory before it is created.
LEMMA ListsDirectoryKeeps == ASSUME SshInv, NEW i \in Images, ListsDirectory(i) PROVE SshInv'
<1>1. SshTypeOK'
  BY DEF SshInv, SshTypeOK, X11Rec, Runs, EarlyRuns, LoopRuns, TailRuns, ListsDirectory, TaskStep, At, NothingPosted, taskVars, callerVars
<1>2. OutboxFits'
  BY DEF SshInv, SshTypeOK, X11Rec, Runs, EarlyRuns, LoopRuns, TailRuns, OutboxFits, PlainEvents, X11Told, EndEvents, ListsDirectory, TaskStep, At, NothingPosted, taskVars, callerVars
<1>3. OutputAccounted'
  BY DEF SshInv, SshTypeOK, X11Rec, Runs, EarlyRuns, LoopRuns, TailRuns, OutboxFits, PlainEvents, X11Told, EndEvents, OutputAccounted, ListsDirectory, TaskStep, At, NothingPosted, taskVars, callerVars
<1>4. FinaleFits'
  BY DEF SshInv, SshTypeOK, X11Rec, Runs, EarlyRuns, LoopRuns, TailRuns, OutputAccounted, EndOnce, EndOut, EndEvents, FinaleFits, ListsDirectory, TaskStep, At, NothingPosted, taskVars, callerVars
<1>5. EndOnce'
  BY DEF SshInv, SshTypeOK, X11Rec, Runs, EarlyRuns, LoopRuns, TailRuns, OutboxFits, PlainEvents, X11Told, EndEvents, FinaleFits, EndOnce, EndOut, ListsDirectory, TaskStep, At, NothingPosted, taskVars, callerVars
<1>6. ProbeFits'
  BY DEF SshInv, SshTypeOK, X11Rec, Runs, EarlyRuns, LoopRuns, TailRuns, ProbeFits, ListsDirectory, TaskStep, At, NothingPosted, taskVars, callerVars
<1>7. SizeGranted'
  BY DEF SshInv, SshTypeOK, X11Rec, Runs, EarlyRuns, LoopRuns, TailRuns, SizeGranted, ListsDirectory, TaskStep, At, NothingPosted, taskVars, callerVars
<1>8. RelaysFit'
  BY SshShellAssumption DEF SshInv, SshTypeOK, X11Rec, Runs, EarlyRuns, LoopRuns, TailRuns, RelaysFit, ListsDirectory, TaskStep, At, NothingPosted, taskVars, callerVars
<1>9. TasksFit'
  <2>1. Uploading' \subseteq Uploading /\ (media'.automatic => media.automatic) /\ media'.automatic \in BOOLEAN
    BY DEF SshInv, SshTypeOK, Uploading, ListsDirectory, TaskStep, NothingPosted
  <2>2. IsFiniteSet(Uploading') /\ Cardinality(Uploading') + (IF media'.automatic THEN 1 ELSE 0) <= MaxMedia
    BY <2>1, TasksLess, SshShellAssumption DEF SshInv
  <2>3. /\ run' \in EarlyRuns \cup {"cleaning", "returning", "littering", "ended"} => Uploading' = {}
        /\ run' \in {"connecting", "preparing", "cleaning", "returning", "littering", "ended"} =>
              ~media'.automatic /\ ~media'.microphone
    BY <2>1 DEF SshInv, SshTypeOK, TasksFit, EarlyRuns, ListsDirectory, TaskStep, NothingPosted
  <2> QED
    BY <2>2, <2>3 DEF TasksFit
<1>10. DirectoriesKnown'
  BY DEF SshInv, SshTypeOK, X11Rec, Runs, EarlyRuns, LoopRuns, TailRuns, TasksFit, Uploading, DirectoriesKnown, ListsDirectory, TaskStep, At, NothingPosted, taskVars, callerVars
<1> QED
  BY <1>1, <1>2, <1>3, <1>4, <1>5, <1>6, <1>7, <1>8, <1>9, <1>10 DEF SshInv

\* A directory is made only when it was listed.
LEMMA MakesDirectoryKeeps == ASSUME SshInv, NEW i \in Images, MakesDirectory(i) PROVE SshInv'
<1>1. SshTypeOK'
  BY DEF SshInv, SshTypeOK, X11Rec, Runs, EarlyRuns, LoopRuns, TailRuns, MakesDirectory, TaskStep, At, NothingPosted, taskVars, callerVars
<1>2. OutboxFits'
  BY DEF SshInv, SshTypeOK, X11Rec, Runs, EarlyRuns, LoopRuns, TailRuns, OutboxFits, PlainEvents, X11Told, EndEvents, MakesDirectory, TaskStep, At, NothingPosted, taskVars, callerVars
<1>3. OutputAccounted'
  BY DEF SshInv, SshTypeOK, X11Rec, Runs, EarlyRuns, LoopRuns, TailRuns, OutboxFits, PlainEvents, X11Told, EndEvents, OutputAccounted, MakesDirectory, TaskStep, At, NothingPosted, taskVars, callerVars
<1>4. FinaleFits'
  BY DEF SshInv, SshTypeOK, X11Rec, Runs, EarlyRuns, LoopRuns, TailRuns, OutputAccounted, EndOnce, EndOut, EndEvents, FinaleFits, MakesDirectory, TaskStep, At, NothingPosted, taskVars, callerVars
<1>5. EndOnce'
  BY DEF SshInv, SshTypeOK, X11Rec, Runs, EarlyRuns, LoopRuns, TailRuns, OutboxFits, PlainEvents, X11Told, EndEvents, FinaleFits, EndOnce, EndOut, MakesDirectory, TaskStep, At, NothingPosted, taskVars, callerVars
<1>6. ProbeFits'
  BY DEF SshInv, SshTypeOK, X11Rec, Runs, EarlyRuns, LoopRuns, TailRuns, ProbeFits, MakesDirectory, TaskStep, At, NothingPosted, taskVars, callerVars
<1>7. SizeGranted'
  BY DEF SshInv, SshTypeOK, X11Rec, Runs, EarlyRuns, LoopRuns, TailRuns, SizeGranted, MakesDirectory, TaskStep, At, NothingPosted, taskVars, callerVars
<1>8. RelaysFit'
  BY SshShellAssumption DEF SshInv, SshTypeOK, X11Rec, Runs, EarlyRuns, LoopRuns, TailRuns, RelaysFit, MakesDirectory, TaskStep, At, NothingPosted, taskVars, callerVars
<1>9. TasksFit'
  <2>1. Uploading' \subseteq Uploading /\ (media'.automatic => media.automatic) /\ media'.automatic \in BOOLEAN
    BY DEF SshInv, SshTypeOK, Uploading, MakesDirectory, TaskStep, NothingPosted
  <2>2. IsFiniteSet(Uploading') /\ Cardinality(Uploading') + (IF media'.automatic THEN 1 ELSE 0) <= MaxMedia
    BY <2>1, TasksLess, SshShellAssumption DEF SshInv
  <2>3. /\ run' \in EarlyRuns \cup {"cleaning", "returning", "littering", "ended"} => Uploading' = {}
        /\ run' \in {"connecting", "preparing", "cleaning", "returning", "littering", "ended"} =>
              ~media'.automatic /\ ~media'.microphone
    BY <2>1 DEF SshInv, SshTypeOK, TasksFit, EarlyRuns, MakesDirectory, TaskStep, NothingPosted
  <2> QED
    BY <2>2, <2>3 DEF TasksFit
<1>10. DirectoriesKnown'
  BY DEF SshInv, SshTypeOK, X11Rec, Runs, EarlyRuns, LoopRuns, TailRuns, TasksFit, Uploading, DirectoriesKnown, MakesDirectory, TaskStep, At, NothingPosted, taskVars, callerVars
<1> QED
  BY <1>1, <1>2, <1>3, <1>4, <1>5, <1>6, <1>7, <1>8, <1>9, <1>10 DEF SshInv

\* An upload less.
LEMMA UploadEndsKeeps == ASSUME SshInv, NEW i \in Images, UploadEnds(i) PROVE SshInv'
<1>1. SshTypeOK'
  BY DEF SshInv, SshTypeOK, X11Rec, Runs, EarlyRuns, LoopRuns, TailRuns, UploadEnds, TaskStep, At, NothingPosted, taskVars, callerVars
<1>2. OutboxFits'
  BY DEF SshInv, SshTypeOK, X11Rec, Runs, EarlyRuns, LoopRuns, TailRuns, OutboxFits, PlainEvents, X11Told, EndEvents, UploadEnds, TaskStep, At, NothingPosted, taskVars, callerVars
<1>3. OutputAccounted'
  BY DEF SshInv, SshTypeOK, X11Rec, Runs, EarlyRuns, LoopRuns, TailRuns, OutboxFits, PlainEvents, X11Told, EndEvents, OutputAccounted, UploadEnds, TaskStep, At, NothingPosted, taskVars, callerVars
<1>4. FinaleFits'
  BY DEF SshInv, SshTypeOK, X11Rec, Runs, EarlyRuns, LoopRuns, TailRuns, OutputAccounted, EndOnce, EndOut, EndEvents, FinaleFits, UploadEnds, TaskStep, At, NothingPosted, taskVars, callerVars
<1>5. EndOnce'
  BY DEF SshInv, SshTypeOK, X11Rec, Runs, EarlyRuns, LoopRuns, TailRuns, OutboxFits, PlainEvents, X11Told, EndEvents, FinaleFits, EndOnce, EndOut, UploadEnds, TaskStep, At, NothingPosted, taskVars, callerVars
<1>6. ProbeFits'
  BY DEF SshInv, SshTypeOK, X11Rec, Runs, EarlyRuns, LoopRuns, TailRuns, ProbeFits, UploadEnds, TaskStep, At, NothingPosted, taskVars, callerVars
<1>7. SizeGranted'
  BY DEF SshInv, SshTypeOK, X11Rec, Runs, EarlyRuns, LoopRuns, TailRuns, SizeGranted, UploadEnds, TaskStep, At, NothingPosted, taskVars, callerVars
<1>8. RelaysFit'
  BY SshShellAssumption DEF SshInv, SshTypeOK, X11Rec, Runs, EarlyRuns, LoopRuns, TailRuns, RelaysFit, UploadEnds, TaskStep, At, NothingPosted, taskVars, callerVars
<1>9. TasksFit'
  <2>1. Uploading' \subseteq Uploading /\ (media'.automatic => media.automatic) /\ media'.automatic \in BOOLEAN
    BY DEF SshInv, SshTypeOK, Uploading, UploadEnds, TaskStep, NothingPosted
  <2>2. IsFiniteSet(Uploading') /\ Cardinality(Uploading') + (IF media'.automatic THEN 1 ELSE 0) <= MaxMedia
    BY <2>1, TasksLess, SshShellAssumption DEF SshInv
  <2>3. /\ run' \in EarlyRuns \cup {"cleaning", "returning", "littering", "ended"} => Uploading' = {}
        /\ run' \in {"connecting", "preparing", "cleaning", "returning", "littering", "ended"} =>
              ~media'.automatic /\ ~media'.microphone
    BY <2>1 DEF SshInv, SshTypeOK, TasksFit, EarlyRuns, UploadEnds, TaskStep, NothingPosted
  <2> QED
    BY <2>2, <2>3 DEF TasksFit
<1>10. DirectoriesKnown'
  BY DEF SshInv, SshTypeOK, X11Rec, Runs, EarlyRuns, LoopRuns, TailRuns, TasksFit, Uploading, DirectoriesKnown, UploadEnds, TaskStep, At, NothingPosted, taskVars, callerVars
<1> QED
  BY <1>1, <1>2, <1>3, <1>4, <1>5, <1>6, <1>7, <1>8, <1>9, <1>10 DEF SshInv

\* The automatic microphone ends.
LEMMA AutomaticEndsKeeps == ASSUME SshInv, AutomaticEnds PROVE SshInv'
<1>1. SshTypeOK'
  <2>1. run' \in Runs
    BY DEF SshInv, SshTypeOK, X11Rec, Runs, EarlyRuns, LoopRuns, TailRuns, AutomaticEnds, TaskStep, At, NothingPosted, taskVars, callerVars
  <2>2. carry' \in Nat
    BY DEF SshInv, SshTypeOK, X11Rec, AutomaticEnds, TaskStep, At, NothingPosted, taskVars, callerVars
  <2>3. wanted' \in [size : ShellSizes, unseen : BOOLEAN]
    BY DEF SshInv, SshTypeOK, X11Rec, AutomaticEnds, TaskStep, At, NothingPosted, taskVars, callerVars
  <2>4. outputs' \in [read : Nat, held : Nat, sent : Nat, awaiting : BOOLEAN]
    BY DEF SshInv, SshTypeOK, X11Rec, AutomaticEnds, TaskStep, At, NothingPosted, taskVars, callerVars
  <2>5. x11' \in X11Rec
    BY DEF SshInv, SshTypeOK, X11Rec, AutomaticEnds, TaskStep, At, NothingPosted, taskVars, callerVars
  <2>6. media' \in [automatic : BOOLEAN, microphone : BOOLEAN, stop : BOOLEAN]
    BY DEF SshInv, SshTypeOK, X11Rec, AutomaticEnds, TaskStep, At, NothingPosted, taskVars, callerVars
  <2>7. images' \in [Images -> {"free", "opening", "listed", "made", "over"}]
    BY DEF SshInv, SshTypeOK, X11Rec, AutomaticEnds, TaskStep, At, NothingPosted, taskVars, callerVars
  <2>8. directories' \in [listed : SUBSET Images, made : SUBSET Images]
    BY DEF SshInv, SshTypeOK, X11Rec, AutomaticEnds, TaskStep, At, NothingPosted, taskVars, callerVars
  <2>9. probe' \in {"none", "reading", "sending", "over"}
    BY DEF SshInv, SshTypeOK, X11Rec, AutomaticEnds, TaskStep, At, NothingPosted, taskVars, callerVars
  <2>10. verdict' \in [failed : BOOLEAN, exited : BOOLEAN]
    BY DEF SshInv, SshTypeOK, X11Rec, AutomaticEnds, TaskStep, At, NothingPosted, taskVars, callerVars
  <2> QED
    BY <2>1, <2>2, <2>3, <2>4, <2>5, <2>6, <2>7, <2>8, <2>9, <2>10 DEF SshTypeOK, X11Rec
<1>2. OutboxFits'
  BY DEF SshInv, SshTypeOK, X11Rec, Runs, EarlyRuns, LoopRuns, TailRuns, OutboxFits, PlainEvents, X11Told, EndEvents, AutomaticEnds, TaskStep, At, NothingPosted, taskVars, callerVars
<1>3. OutputAccounted'
  BY DEF SshInv, SshTypeOK, X11Rec, Runs, EarlyRuns, LoopRuns, TailRuns, OutboxFits, PlainEvents, X11Told, EndEvents, OutputAccounted, AutomaticEnds, TaskStep, At, NothingPosted, taskVars, callerVars
<1>4. FinaleFits'
  BY DEF SshInv, SshTypeOK, X11Rec, Runs, EarlyRuns, LoopRuns, TailRuns, OutputAccounted, EndOnce, EndOut, EndEvents, FinaleFits, AutomaticEnds, TaskStep, At, NothingPosted, taskVars, callerVars
<1>5. EndOnce'
  BY DEF SshInv, SshTypeOK, X11Rec, Runs, EarlyRuns, LoopRuns, TailRuns, OutboxFits, PlainEvents, X11Told, EndEvents, FinaleFits, EndOnce, EndOut, AutomaticEnds, TaskStep, At, NothingPosted, taskVars, callerVars
<1>6. ProbeFits'
  BY DEF SshInv, SshTypeOK, X11Rec, Runs, EarlyRuns, LoopRuns, TailRuns, ProbeFits, AutomaticEnds, TaskStep, At, NothingPosted, taskVars, callerVars
<1>7. SizeGranted'
  BY DEF SshInv, SshTypeOK, X11Rec, Runs, EarlyRuns, LoopRuns, TailRuns, SizeGranted, AutomaticEnds, TaskStep, At, NothingPosted, taskVars, callerVars
<1>8. RelaysFit'
  BY SshShellAssumption DEF SshInv, SshTypeOK, X11Rec, Runs, EarlyRuns, LoopRuns, TailRuns, RelaysFit, AutomaticEnds, TaskStep, At, NothingPosted, taskVars, callerVars
<1>9. TasksFit'
  <2>1. Uploading' \subseteq Uploading /\ (media'.automatic => media.automatic) /\ media'.automatic \in BOOLEAN
    BY DEF SshInv, SshTypeOK, Uploading, AutomaticEnds, TaskStep, NothingPosted
  <2>2. IsFiniteSet(Uploading') /\ Cardinality(Uploading') + (IF media'.automatic THEN 1 ELSE 0) <= MaxMedia
    BY <2>1, TasksLess, SshShellAssumption DEF SshInv
  <2>3. /\ run' \in EarlyRuns \cup {"cleaning", "returning", "littering", "ended"} => Uploading' = {}
        /\ run' \in {"connecting", "preparing", "cleaning", "returning", "littering", "ended"} =>
              ~media'.automatic /\ ~media'.microphone
    BY <2>1 DEF SshInv, SshTypeOK, TasksFit, EarlyRuns, AutomaticEnds, TaskStep, NothingPosted
  <2> QED
    BY <2>2, <2>3 DEF TasksFit
<1>10. DirectoriesKnown'
  BY DEF SshInv, SshTypeOK, X11Rec, Runs, EarlyRuns, LoopRuns, TailRuns, TasksFit, Uploading, DirectoriesKnown, AutomaticEnds, TaskStep, At, NothingPosted, taskVars, callerVars
<1> QED
  BY <1>1, <1>2, <1>3, <1>4, <1>5, <1>6, <1>7, <1>8, <1>9, <1>10 DEF SshInv

\* The microphone ends.
LEMMA MicrophoneEndsKeeps == ASSUME SshInv, MicrophoneEnds PROVE SshInv'
<1>1. SshTypeOK'
  <2>1. run' \in Runs
    BY DEF SshInv, SshTypeOK, X11Rec, Runs, EarlyRuns, LoopRuns, TailRuns, MicrophoneEnds, TaskStep, At, NothingPosted, taskVars, callerVars
  <2>2. carry' \in Nat
    BY DEF SshInv, SshTypeOK, X11Rec, MicrophoneEnds, TaskStep, At, NothingPosted, taskVars, callerVars
  <2>3. wanted' \in [size : ShellSizes, unseen : BOOLEAN]
    BY DEF SshInv, SshTypeOK, X11Rec, MicrophoneEnds, TaskStep, At, NothingPosted, taskVars, callerVars
  <2>4. outputs' \in [read : Nat, held : Nat, sent : Nat, awaiting : BOOLEAN]
    BY DEF SshInv, SshTypeOK, X11Rec, MicrophoneEnds, TaskStep, At, NothingPosted, taskVars, callerVars
  <2>5. x11' \in X11Rec
    BY DEF SshInv, SshTypeOK, X11Rec, MicrophoneEnds, TaskStep, At, NothingPosted, taskVars, callerVars
  <2>6. media' \in [automatic : BOOLEAN, microphone : BOOLEAN, stop : BOOLEAN]
    BY DEF SshInv, SshTypeOK, X11Rec, MicrophoneEnds, TaskStep, At, NothingPosted, taskVars, callerVars
  <2>7. images' \in [Images -> {"free", "opening", "listed", "made", "over"}]
    BY DEF SshInv, SshTypeOK, X11Rec, MicrophoneEnds, TaskStep, At, NothingPosted, taskVars, callerVars
  <2>8. directories' \in [listed : SUBSET Images, made : SUBSET Images]
    BY DEF SshInv, SshTypeOK, X11Rec, MicrophoneEnds, TaskStep, At, NothingPosted, taskVars, callerVars
  <2>9. probe' \in {"none", "reading", "sending", "over"}
    BY DEF SshInv, SshTypeOK, X11Rec, MicrophoneEnds, TaskStep, At, NothingPosted, taskVars, callerVars
  <2>10. verdict' \in [failed : BOOLEAN, exited : BOOLEAN]
    BY DEF SshInv, SshTypeOK, X11Rec, MicrophoneEnds, TaskStep, At, NothingPosted, taskVars, callerVars
  <2> QED
    BY <2>1, <2>2, <2>3, <2>4, <2>5, <2>6, <2>7, <2>8, <2>9, <2>10 DEF SshTypeOK, X11Rec
<1>2. OutboxFits'
  BY DEF SshInv, SshTypeOK, X11Rec, Runs, EarlyRuns, LoopRuns, TailRuns, OutboxFits, PlainEvents, X11Told, EndEvents, MicrophoneEnds, TaskStep, At, NothingPosted, taskVars, callerVars
<1>3. OutputAccounted'
  BY DEF SshInv, SshTypeOK, X11Rec, Runs, EarlyRuns, LoopRuns, TailRuns, OutboxFits, PlainEvents, X11Told, EndEvents, OutputAccounted, MicrophoneEnds, TaskStep, At, NothingPosted, taskVars, callerVars
<1>4. FinaleFits'
  BY DEF SshInv, SshTypeOK, X11Rec, Runs, EarlyRuns, LoopRuns, TailRuns, OutputAccounted, EndOnce, EndOut, EndEvents, FinaleFits, MicrophoneEnds, TaskStep, At, NothingPosted, taskVars, callerVars
<1>5. EndOnce'
  BY DEF SshInv, SshTypeOK, X11Rec, Runs, EarlyRuns, LoopRuns, TailRuns, OutboxFits, PlainEvents, X11Told, EndEvents, FinaleFits, EndOnce, EndOut, MicrophoneEnds, TaskStep, At, NothingPosted, taskVars, callerVars
<1>6. ProbeFits'
  BY DEF SshInv, SshTypeOK, X11Rec, Runs, EarlyRuns, LoopRuns, TailRuns, ProbeFits, MicrophoneEnds, TaskStep, At, NothingPosted, taskVars, callerVars
<1>7. SizeGranted'
  BY DEF SshInv, SshTypeOK, X11Rec, Runs, EarlyRuns, LoopRuns, TailRuns, SizeGranted, MicrophoneEnds, TaskStep, At, NothingPosted, taskVars, callerVars
<1>8. RelaysFit'
  BY SshShellAssumption DEF SshInv, SshTypeOK, X11Rec, Runs, EarlyRuns, LoopRuns, TailRuns, RelaysFit, MicrophoneEnds, TaskStep, At, NothingPosted, taskVars, callerVars
<1>9. TasksFit'
  BY SshShellAssumption DEF SshInv, SshTypeOK, X11Rec, Runs, EarlyRuns, LoopRuns, TailRuns, TasksFit, Uploading, MicrophoneEnds, TaskStep, At, NothingPosted, taskVars, callerVars
<1>10. DirectoriesKnown'
  BY DEF SshInv, SshTypeOK, X11Rec, Runs, EarlyRuns, LoopRuns, TailRuns, TasksFit, Uploading, DirectoriesKnown, MicrophoneEnds, TaskStep, At, NothingPosted, taskVars, callerVars
<1> QED
  BY <1>1, <1>2, <1>3, <1>4, <1>5, <1>6, <1>7, <1>8, <1>9, <1>10 DEF SshInv

\* The probe of the remote system read its answer.
LEMMA ProbeReadsKeeps == ASSUME SshInv, ProbeReads PROVE SshInv'
<1>1. SshTypeOK'
  BY DEF SshInv, SshTypeOK, X11Rec, Runs, EarlyRuns, LoopRuns, TailRuns, ProbeReads, TaskStep, At, NothingPosted, taskVars, callerVars
<1>2. OutboxFits'
  BY DEF SshInv, SshTypeOK, X11Rec, Runs, EarlyRuns, LoopRuns, TailRuns, OutboxFits, PlainEvents, X11Told, EndEvents, ProbeReads, TaskStep, At, NothingPosted, taskVars, callerVars
<1>3. OutputAccounted'
  BY DEF SshInv, SshTypeOK, X11Rec, Runs, EarlyRuns, LoopRuns, TailRuns, OutboxFits, PlainEvents, X11Told, EndEvents, OutputAccounted, ProbeReads, TaskStep, At, NothingPosted, taskVars, callerVars
<1>4. FinaleFits'
  BY DEF SshInv, SshTypeOK, X11Rec, Runs, EarlyRuns, LoopRuns, TailRuns, OutputAccounted, EndOnce, EndOut, EndEvents, FinaleFits, ProbeReads, TaskStep, At, NothingPosted, taskVars, callerVars
<1>5. EndOnce'
  BY DEF SshInv, SshTypeOK, X11Rec, Runs, EarlyRuns, LoopRuns, TailRuns, OutboxFits, PlainEvents, X11Told, EndEvents, FinaleFits, EndOnce, EndOut, ProbeReads, TaskStep, At, NothingPosted, taskVars, callerVars
<1>6. ProbeFits'
  BY DEF SshInv, SshTypeOK, X11Rec, Runs, EarlyRuns, LoopRuns, TailRuns, ProbeFits, ProbeReads, TaskStep, At, NothingPosted, taskVars, callerVars
<1>7. SizeGranted'
  BY DEF SshInv, SshTypeOK, X11Rec, Runs, EarlyRuns, LoopRuns, TailRuns, SizeGranted, ProbeReads, TaskStep, At, NothingPosted, taskVars, callerVars
<1>8. RelaysFit'
  BY SshShellAssumption DEF SshInv, SshTypeOK, X11Rec, Runs, EarlyRuns, LoopRuns, TailRuns, RelaysFit, ProbeReads, TaskStep, At, NothingPosted, taskVars, callerVars
<1>9. TasksFit'
  BY SshShellAssumption DEF SshInv, SshTypeOK, X11Rec, Runs, EarlyRuns, LoopRuns, TailRuns, TasksFit, Uploading, ProbeReads, TaskStep, At, NothingPosted, taskVars, callerVars
<1>10. DirectoriesKnown'
  BY DEF SshInv, SshTypeOK, X11Rec, Runs, EarlyRuns, LoopRuns, TailRuns, TasksFit, Uploading, DirectoriesKnown, ProbeReads, TaskStep, At, NothingPosted, taskVars, callerVars
<1> QED
  BY <1>1, <1>2, <1>3, <1>4, <1>5, <1>6, <1>7, <1>8, <1>9, <1>10 DEF SshInv

\* SystemRelease is sent by a probe that runs beside the worker: no orderly
\* end was reported before.
LEMMA ProbeSendsKeeps == ASSUME SshInv, ProbeSends PROVE SshInv'
<1>1. SshTypeOK'
  BY DEF SshInv, SshTypeOK, X11Rec, Runs, EarlyRuns, LoopRuns, TailRuns, ProbeSends, Posts, TaskStep, At, NothingPosted, taskVars, callerVars
<1>2. OutboxFits'
  BY DEF SshInv, SshTypeOK, X11Rec, Runs, EarlyRuns, LoopRuns, TailRuns, OutboxFits, PlainEvents, X11Told, EndEvents, ProbeSends, Posts, TaskStep, At, NothingPosted, taskVars, callerVars
<1>3. OutputAccounted'
  BY DEF SshInv, SshTypeOK, X11Rec, Runs, EarlyRuns, LoopRuns, TailRuns, OutboxFits, PlainEvents, X11Told, EndEvents, OutputAccounted, ProbeSends, Posts, TaskStep, At, NothingPosted, taskVars, callerVars
<1>4. FinaleFits'
  <2>5. ASSUME finale' = [k \in DOMAIN finale |-> [finale[k] EXCEPT !.behind = @ + 1]],
               finale # <<>> => verdict.failed, verdict' = verdict
        PROVE  FinaleFits'
    <3>1. CASE finale = <<>>
      BY <2>5, <3>1, CountedBehind DEF FinaleFits
    <3>2. CASE finale # <<>>
      <4>1. PICK r \in EndRec : finale = <<r>> /\ r.event = "Failed"
        BY <2>5, <3>2 DEF SshInv, FinaleFits
      <4>2. /\ finale' = <<[r EXCEPT !.behind = @ + 1]>> /\ [r EXCEPT !.behind = @ + 1] \in EndRec
            /\ [r EXCEPT !.behind = @ + 1].event = "Failed"
        BY <2>5, <4>1, CountedBehind
      <4> QED
        BY <4>2 DEF FinaleFits
    <3> QED
      BY <3>1, <3>2
  <2>6. finale' = [k \in DOMAIN finale |-> [finale[k] EXCEPT !.behind = @ + 1]] /\ verdict' = verdict
    BY DEF ProbeSends, Posts, EndEvents, TaskStep
  <2>7. finale # <<>> => verdict.failed
    BY DEF SshInv, EndOnce, ProbeFits, ProbeSends, EarlyRuns, LoopRuns, TailRuns
  <2> QED
    BY <2>5, <2>6, <2>7
<1>5. EndOnce'
  BY DEF SshInv, SshTypeOK, X11Rec, Runs, EarlyRuns, LoopRuns, TailRuns, OutboxFits, PlainEvents, X11Told, EndEvents, FinaleFits, EndOnce, EndOut, ProbeSends, Posts, TaskStep, At, NothingPosted, taskVars, callerVars
<1>6. ProbeFits'
  BY DEF SshInv, SshTypeOK, X11Rec, Runs, EarlyRuns, LoopRuns, TailRuns, ProbeFits, ProbeSends, Posts, TaskStep, At, NothingPosted, taskVars, callerVars
<1>7. SizeGranted'
  BY DEF SshInv, SshTypeOK, X11Rec, Runs, EarlyRuns, LoopRuns, TailRuns, SizeGranted, ProbeSends, Posts, TaskStep, At, NothingPosted, taskVars, callerVars
<1>8. RelaysFit'
  BY SshShellAssumption DEF SshInv, SshTypeOK, X11Rec, Runs, EarlyRuns, LoopRuns, TailRuns, RelaysFit, ProbeSends, Posts, TaskStep, At, NothingPosted, taskVars, callerVars
<1>9. TasksFit'
  BY SshShellAssumption DEF SshInv, SshTypeOK, X11Rec, Runs, EarlyRuns, LoopRuns, TailRuns, TasksFit, Uploading, ProbeSends, Posts, TaskStep, At, NothingPosted, taskVars, callerVars
<1>10. DirectoriesKnown'
  BY DEF SshInv, SshTypeOK, X11Rec, Runs, EarlyRuns, LoopRuns, TailRuns, TasksFit, Uploading, DirectoriesKnown, ProbeSends, Posts, TaskStep, At, NothingPosted, taskVars, callerVars
<1> QED
  BY <1>1, <1>2, <1>3, <1>4, <1>5, <1>6, <1>7, <1>8, <1>9, <1>10 DEF SshInv

\* flush_output: after it nothing is held.
LEMMA FlushesLastKeeps == ASSUME SshInv, FlushesLast PROVE SshInv'
<1>1. SshTypeOK'
  BY DEF SshInv, SshTypeOK, X11Rec, Runs, EarlyRuns, LoopRuns, TailRuns, FlushesLast, FlushesHeld, At, NothingPosted, taskVars, callerVars
<1>2. OutboxFits'
  BY DEF SshInv, SshTypeOK, X11Rec, Runs, EarlyRuns, LoopRuns, TailRuns, OutboxFits, PlainEvents, X11Told, EndEvents, FlushesLast, FlushesHeld, At, NothingPosted, taskVars, callerVars
<1>3. OutputAccounted'
  BY DEF SshInv, SshTypeOK, X11Rec, Runs, EarlyRuns, LoopRuns, TailRuns, OutboxFits, PlainEvents, X11Told, EndEvents, OutputAccounted, FlushesLast, FlushesHeld, At, NothingPosted, taskVars, callerVars
<1>4. FinaleFits'
  BY DEF SshInv, SshTypeOK, X11Rec, Runs, EarlyRuns, LoopRuns, TailRuns, OutputAccounted, EndOnce, EndOut, EndEvents, FinaleFits, FlushesLast, FlushesHeld, At, NothingPosted, taskVars, callerVars
<1>5. EndOnce'
  BY DEF SshInv, SshTypeOK, X11Rec, Runs, EarlyRuns, LoopRuns, TailRuns, OutboxFits, PlainEvents, X11Told, EndEvents, FinaleFits, EndOnce, EndOut, FlushesLast, FlushesHeld, At, NothingPosted, taskVars, callerVars
<1>6. ProbeFits'
  BY DEF SshInv, SshTypeOK, X11Rec, Runs, EarlyRuns, LoopRuns, TailRuns, ProbeFits, FlushesLast, FlushesHeld, At, NothingPosted, taskVars, callerVars
<1>7. SizeGranted'
  BY DEF SshInv, SshTypeOK, X11Rec, Runs, EarlyRuns, LoopRuns, TailRuns, SizeGranted, FlushesLast, FlushesHeld, At, NothingPosted, taskVars, callerVars
<1>8. RelaysFit'
  BY SshShellAssumption DEF SshInv, SshTypeOK, X11Rec, Runs, EarlyRuns, LoopRuns, TailRuns, RelaysFit, FlushesLast, FlushesHeld, At, NothingPosted, taskVars, callerVars
<1>9. TasksFit'
  BY SshShellAssumption DEF SshInv, SshTypeOK, X11Rec, Runs, EarlyRuns, LoopRuns, TailRuns, TasksFit, Uploading, FlushesLast, FlushesHeld, At, NothingPosted, taskVars, callerVars
<1>10. DirectoriesKnown'
  BY DEF SshInv, SshTypeOK, X11Rec, Runs, EarlyRuns, LoopRuns, TailRuns, TasksFit, Uploading, DirectoriesKnown, FlushesLast, FlushesHeld, At, NothingPosted, taskVars, callerVars
<1> QED
  BY <1>1, <1>2, <1>3, <1>4, <1>5, <1>6, <1>7, <1>8, <1>9, <1>10 DEF SshInv

\* Relays and the probe are aborted and joined before the way out.
LEMMA StopsTasksKeeps == ASSUME SshInv, StopsTasks PROVE SshInv'
<1>1. SshTypeOK'
  BY DEF SshInv, SshTypeOK, X11Rec, Runs, EarlyRuns, LoopRuns, TailRuns, StopsTasks, ProbeJoined, At, NothingPosted, taskVars, callerVars
<1>2. OutboxFits'
  BY DEF SshInv, SshTypeOK, X11Rec, Runs, EarlyRuns, LoopRuns, TailRuns, OutboxFits, PlainEvents, X11Told, EndEvents, StopsTasks, ProbeJoined, At, NothingPosted, taskVars, callerVars
<1>3. OutputAccounted'
  BY DEF SshInv, SshTypeOK, X11Rec, Runs, EarlyRuns, LoopRuns, TailRuns, OutboxFits, PlainEvents, X11Told, EndEvents, OutputAccounted, StopsTasks, ProbeJoined, At, NothingPosted, taskVars, callerVars
<1>4. FinaleFits'
  BY DEF SshInv, SshTypeOK, X11Rec, Runs, EarlyRuns, LoopRuns, TailRuns, OutputAccounted, EndOnce, EndOut, EndEvents, FinaleFits, StopsTasks, ProbeJoined, At, NothingPosted, taskVars, callerVars
<1>5. EndOnce'
  BY DEF SshInv, SshTypeOK, X11Rec, Runs, EarlyRuns, LoopRuns, TailRuns, OutboxFits, PlainEvents, X11Told, EndEvents, FinaleFits, EndOnce, EndOut, StopsTasks, ProbeJoined, At, NothingPosted, taskVars, callerVars
<1>6. ProbeFits'
  BY DEF SshInv, SshTypeOK, X11Rec, Runs, EarlyRuns, LoopRuns, TailRuns, ProbeFits, StopsTasks, ProbeJoined, At, NothingPosted, taskVars, callerVars
<1>7. SizeGranted'
  BY DEF SshInv, SshTypeOK, X11Rec, Runs, EarlyRuns, LoopRuns, TailRuns, SizeGranted, StopsTasks, ProbeJoined, At, NothingPosted, taskVars, callerVars
<1>8. RelaysFit'
  BY SshShellAssumption DEF SshInv, SshTypeOK, X11Rec, Runs, EarlyRuns, LoopRuns, TailRuns, RelaysFit, StopsTasks, ProbeJoined, At, NothingPosted, taskVars, callerVars
<1>9. TasksFit'
  BY SshShellAssumption DEF SshInv, SshTypeOK, X11Rec, Runs, EarlyRuns, LoopRuns, TailRuns, TasksFit, Uploading, StopsTasks, ProbeJoined, At, NothingPosted, taskVars, callerVars
<1>10. DirectoriesKnown'
  BY DEF SshInv, SshTypeOK, X11Rec, Runs, EarlyRuns, LoopRuns, TailRuns, TasksFit, Uploading, DirectoriesKnown, StopsTasks, ProbeJoined, At, NothingPosted, taskVars, callerVars
<1> QED
  BY <1>1, <1>2, <1>3, <1>4, <1>5, <1>6, <1>7, <1>8, <1>9, <1>10 DEF SshInv

\* shutdown_media_tasks tells the tasks to stop.
LEMMA StopsMediaKeeps == ASSUME SshInv, StopsMedia PROVE SshInv'
<1>1. SshTypeOK'
  <2>1. run' \in Runs
    BY DEF SshInv, SshTypeOK, X11Rec, Runs, EarlyRuns, LoopRuns, TailRuns, StopsMedia, At, NothingPosted, taskVars, callerVars
  <2>2. carry' \in Nat
    BY DEF SshInv, SshTypeOK, X11Rec, StopsMedia, At, NothingPosted, taskVars, callerVars
  <2>3. wanted' \in [size : ShellSizes, unseen : BOOLEAN]
    BY DEF SshInv, SshTypeOK, X11Rec, StopsMedia, At, NothingPosted, taskVars, callerVars
  <2>4. outputs' \in [read : Nat, held : Nat, sent : Nat, awaiting : BOOLEAN]
    BY DEF SshInv, SshTypeOK, X11Rec, StopsMedia, At, NothingPosted, taskVars, callerVars
  <2>5. x11' \in X11Rec
    BY DEF SshInv, SshTypeOK, X11Rec, StopsMedia, At, NothingPosted, taskVars, callerVars
  <2>6. media' \in [automatic : BOOLEAN, microphone : BOOLEAN, stop : BOOLEAN]
    BY DEF SshInv, SshTypeOK, X11Rec, StopsMedia, At, NothingPosted, taskVars, callerVars
  <2>7. images' \in [Images -> {"free", "opening", "listed", "made", "over"}]
    BY DEF SshInv, SshTypeOK, X11Rec, StopsMedia, At, NothingPosted, taskVars, callerVars
  <2>8. directories' \in [listed : SUBSET Images, made : SUBSET Images]
    BY DEF SshInv, SshTypeOK, X11Rec, StopsMedia, At, NothingPosted, taskVars, callerVars
  <2>9. probe' \in {"none", "reading", "sending", "over"}
    BY DEF SshInv, SshTypeOK, X11Rec, StopsMedia, At, NothingPosted, taskVars, callerVars
  <2>10. verdict' \in [failed : BOOLEAN, exited : BOOLEAN]
    BY DEF SshInv, SshTypeOK, X11Rec, StopsMedia, At, NothingPosted, taskVars, callerVars
  <2> QED
    BY <2>1, <2>2, <2>3, <2>4, <2>5, <2>6, <2>7, <2>8, <2>9, <2>10 DEF SshTypeOK, X11Rec
<1>2. OutboxFits'
  BY DEF SshInv, SshTypeOK, X11Rec, Runs, EarlyRuns, LoopRuns, TailRuns, OutboxFits, PlainEvents, X11Told, EndEvents, StopsMedia, At, NothingPosted, taskVars, callerVars
<1>3. OutputAccounted'
  BY DEF SshInv, SshTypeOK, X11Rec, Runs, EarlyRuns, LoopRuns, TailRuns, OutboxFits, PlainEvents, X11Told, EndEvents, OutputAccounted, StopsMedia, At, NothingPosted, taskVars, callerVars
<1>4. FinaleFits'
  BY DEF SshInv, SshTypeOK, X11Rec, Runs, EarlyRuns, LoopRuns, TailRuns, OutputAccounted, EndOnce, EndOut, EndEvents, FinaleFits, StopsMedia, At, NothingPosted, taskVars, callerVars
<1>5. EndOnce'
  BY DEF SshInv, SshTypeOK, X11Rec, Runs, EarlyRuns, LoopRuns, TailRuns, OutboxFits, PlainEvents, X11Told, EndEvents, FinaleFits, EndOnce, EndOut, StopsMedia, At, NothingPosted, taskVars, callerVars
<1>6. ProbeFits'
  BY DEF SshInv, SshTypeOK, X11Rec, Runs, EarlyRuns, LoopRuns, TailRuns, ProbeFits, StopsMedia, At, NothingPosted, taskVars, callerVars
<1>7. SizeGranted'
  BY DEF SshInv, SshTypeOK, X11Rec, Runs, EarlyRuns, LoopRuns, TailRuns, SizeGranted, StopsMedia, At, NothingPosted, taskVars, callerVars
<1>8. RelaysFit'
  BY SshShellAssumption DEF SshInv, SshTypeOK, X11Rec, Runs, EarlyRuns, LoopRuns, TailRuns, RelaysFit, StopsMedia, At, NothingPosted, taskVars, callerVars
<1>9. TasksFit'
  BY SshShellAssumption DEF SshInv, SshTypeOK, X11Rec, Runs, EarlyRuns, LoopRuns, TailRuns, TasksFit, Uploading, StopsMedia, At, NothingPosted, taskVars, callerVars
<1>10. DirectoriesKnown'
  BY DEF SshInv, SshTypeOK, X11Rec, Runs, EarlyRuns, LoopRuns, TailRuns, TasksFit, Uploading, DirectoriesKnown, StopsMedia, At, NothingPosted, taskVars, callerVars
<1> QED
  BY <1>1, <1>2, <1>3, <1>4, <1>5, <1>6, <1>7, <1>8, <1>9, <1>10 DEF SshInv

\* No media task is left when the clean-up begins.
LEMMA MediaOverKeeps == ASSUME SshInv, MediaOver PROVE SshInv'
<1>1. SshTypeOK'
  <2>1. run' \in Runs
    BY DEF SshInv, SshTypeOK, X11Rec, Runs, EarlyRuns, LoopRuns, TailRuns, MediaOver, At, NothingPosted, taskVars, callerVars
  <2>2. carry' \in Nat
    BY DEF SshInv, SshTypeOK, X11Rec, MediaOver, At, NothingPosted, taskVars, callerVars
  <2>3. wanted' \in [size : ShellSizes, unseen : BOOLEAN]
    BY DEF SshInv, SshTypeOK, X11Rec, MediaOver, At, NothingPosted, taskVars, callerVars
  <2>4. outputs' \in [read : Nat, held : Nat, sent : Nat, awaiting : BOOLEAN]
    BY DEF SshInv, SshTypeOK, X11Rec, MediaOver, At, NothingPosted, taskVars, callerVars
  <2>5. x11' \in X11Rec
    BY DEF SshInv, SshTypeOK, X11Rec, MediaOver, At, NothingPosted, taskVars, callerVars
  <2>6. media' \in [automatic : BOOLEAN, microphone : BOOLEAN, stop : BOOLEAN]
    BY DEF SshInv, SshTypeOK, X11Rec, MediaOver, At, NothingPosted, taskVars, callerVars
  <2>7. images' \in [Images -> {"free", "opening", "listed", "made", "over"}]
    BY DEF SshInv, SshTypeOK, X11Rec, MediaOver, At, NothingPosted, taskVars, callerVars
  <2>8. directories' \in [listed : SUBSET Images, made : SUBSET Images]
    BY DEF SshInv, SshTypeOK, X11Rec, MediaOver, At, NothingPosted, taskVars, callerVars
  <2>9. probe' \in {"none", "reading", "sending", "over"}
    BY DEF SshInv, SshTypeOK, X11Rec, MediaOver, At, NothingPosted, taskVars, callerVars
  <2>10. verdict' \in [failed : BOOLEAN, exited : BOOLEAN]
    BY DEF SshInv, SshTypeOK, X11Rec, MediaOver, At, NothingPosted, taskVars, callerVars
  <2> QED
    BY <2>1, <2>2, <2>3, <2>4, <2>5, <2>6, <2>7, <2>8, <2>9, <2>10 DEF SshTypeOK, X11Rec
<1>2. OutboxFits'
  BY DEF SshInv, SshTypeOK, X11Rec, Runs, EarlyRuns, LoopRuns, TailRuns, OutboxFits, PlainEvents, X11Told, EndEvents, MediaOver, At, NothingPosted, taskVars, callerVars
<1>3. OutputAccounted'
  BY DEF SshInv, SshTypeOK, X11Rec, Runs, EarlyRuns, LoopRuns, TailRuns, OutboxFits, PlainEvents, X11Told, EndEvents, OutputAccounted, MediaOver, At, NothingPosted, taskVars, callerVars
<1>4. FinaleFits'
  BY DEF SshInv, SshTypeOK, X11Rec, Runs, EarlyRuns, LoopRuns, TailRuns, OutputAccounted, EndOnce, EndOut, EndEvents, FinaleFits, MediaOver, At, NothingPosted, taskVars, callerVars
<1>5. EndOnce'
  BY DEF SshInv, SshTypeOK, X11Rec, Runs, EarlyRuns, LoopRuns, TailRuns, OutboxFits, PlainEvents, X11Told, EndEvents, FinaleFits, EndOnce, EndOut, MediaOver, At, NothingPosted, taskVars, callerVars
<1>6. ProbeFits'
  BY DEF SshInv, SshTypeOK, X11Rec, Runs, EarlyRuns, LoopRuns, TailRuns, ProbeFits, MediaOver, At, NothingPosted, taskVars, callerVars
<1>7. SizeGranted'
  BY DEF SshInv, SshTypeOK, X11Rec, Runs, EarlyRuns, LoopRuns, TailRuns, SizeGranted, MediaOver, At, NothingPosted, taskVars, callerVars
<1>8. RelaysFit'
  BY SshShellAssumption DEF SshInv, SshTypeOK, X11Rec, Runs, EarlyRuns, LoopRuns, TailRuns, RelaysFit, MediaOver, At, NothingPosted, taskVars, callerVars
<1>9. TasksFit'
  <2>1. Uploading' \subseteq Uploading /\ (media'.automatic => media.automatic) /\ media'.automatic \in BOOLEAN
    BY DEF SshInv, SshTypeOK, Uploading, MediaOver, At, NothingPosted
  <2>2. IsFiniteSet(Uploading') /\ Cardinality(Uploading') + (IF media'.automatic THEN 1 ELSE 0) <= MaxMedia
    BY <2>1, TasksLess, SshShellAssumption DEF SshInv
  <2>3. /\ run' \in EarlyRuns \cup {"cleaning", "returning", "littering", "ended"} => Uploading' = {}
        /\ run' \in {"connecting", "preparing", "cleaning", "returning", "littering", "ended"} =>
              ~media'.automatic /\ ~media'.microphone
    BY <2>1 DEF SshInv, SshTypeOK, TasksFit, EarlyRuns, Uploading, MediaOver, At, NothingPosted
  <2> QED
    BY <2>2, <2>3 DEF TasksFit
<1>10. DirectoriesKnown'
  BY DEF SshInv, SshTypeOK, X11Rec, Runs, EarlyRuns, LoopRuns, TailRuns, TasksFit, Uploading, DirectoriesKnown, MediaOver, At, NothingPosted, taskVars, callerVars
<1> QED
  BY <1>1, <1>2, <1>3, <1>4, <1>5, <1>6, <1>7, <1>8, <1>9, <1>10 DEF SshInv

\* cleanup_attachments removes every directory made, since all of them are
\* listed; then the one end is put into the outbox.
LEMMA CleansKeeps == ASSUME SshInv, NEW removed \in BOOLEAN, Cleans(removed) PROVE SshInv'
<1>1. SshTypeOK'
  BY DEF SshInv, SshTypeOK, X11Rec, Runs, EarlyRuns, LoopRuns, TailRuns, Cleans, At, NothingPosted, taskVars, callerVars
<1>2. OutboxFits'
  BY DEF SshInv, SshTypeOK, X11Rec, Runs, EarlyRuns, LoopRuns, TailRuns, OutboxFits, PlainEvents, X11Told, EndEvents, Cleans, At, NothingPosted, taskVars, callerVars
<1>3. OutputAccounted'
  BY DEF SshInv, SshTypeOK, X11Rec, Runs, EarlyRuns, LoopRuns, TailRuns, OutboxFits, PlainEvents, X11Told, EndEvents, OutputAccounted, Cleans, At, NothingPosted, taskVars, callerVars
<1>4. FinaleFits'
  BY DEF SshInv, SshTypeOK, X11Rec, Runs, EarlyRuns, LoopRuns, TailRuns, OutputAccounted, EndOnce, EndOut, EndEvents, FinaleFits, Cleans, At, NothingPosted, taskVars, callerVars
<1>5. EndOnce'
  BY DEF SshInv, SshTypeOK, X11Rec, Runs, EarlyRuns, LoopRuns, TailRuns, OutboxFits, PlainEvents, X11Told, EndEvents, FinaleFits, EndOnce, EndOut, Cleans, At, NothingPosted, taskVars, callerVars
<1>6. ProbeFits'
  BY DEF SshInv, SshTypeOK, X11Rec, Runs, EarlyRuns, LoopRuns, TailRuns, ProbeFits, Cleans, At, NothingPosted, taskVars, callerVars
<1>7. SizeGranted'
  BY DEF SshInv, SshTypeOK, X11Rec, Runs, EarlyRuns, LoopRuns, TailRuns, SizeGranted, Cleans, At, NothingPosted, taskVars, callerVars
<1>8. RelaysFit'
  BY SshShellAssumption DEF SshInv, SshTypeOK, X11Rec, Runs, EarlyRuns, LoopRuns, TailRuns, RelaysFit, Cleans, At, NothingPosted, taskVars, callerVars
<1>9. TasksFit'
  BY SshShellAssumption DEF SshInv, SshTypeOK, X11Rec, Runs, EarlyRuns, LoopRuns, TailRuns, TasksFit, Uploading, Cleans, At, NothingPosted, taskVars, callerVars
<1>10. DirectoriesKnown'
  BY DEF SshInv, SshTypeOK, X11Rec, Runs, EarlyRuns, LoopRuns, TailRuns, TasksFit, Uploading, DirectoriesKnown, Cleans, At, NothingPosted, taskVars, callerVars
<1> QED
  BY <1>1, <1>2, <1>3, <1>4, <1>5, <1>6, <1>7, <1>8, <1>9, <1>10 DEF SshInv

\* The worker ends, and drops the receiver of X11 requests.
LEMMA ReturnsKeeps == ASSUME SshInv, Returns PROVE SshInv'
<1>1. SshTypeOK'
  BY DEF SshInv, SshTypeOK, X11Rec, Runs, EarlyRuns, LoopRuns, TailRuns, Returns, At, NothingPosted, taskVars, callerVars
<1>2. OutboxFits'
  BY DEF SshInv, SshTypeOK, X11Rec, Runs, EarlyRuns, LoopRuns, TailRuns, OutboxFits, PlainEvents, X11Told, EndEvents, Returns, At, NothingPosted, taskVars, callerVars
<1>3. OutputAccounted'
  BY DEF SshInv, SshTypeOK, X11Rec, Runs, EarlyRuns, LoopRuns, TailRuns, OutboxFits, PlainEvents, X11Told, EndEvents, OutputAccounted, Returns, At, NothingPosted, taskVars, callerVars
<1>4. FinaleFits'
  BY DEF SshInv, SshTypeOK, X11Rec, Runs, EarlyRuns, LoopRuns, TailRuns, OutputAccounted, EndOnce, EndOut, EndEvents, FinaleFits, Returns, At, NothingPosted, taskVars, callerVars
<1>5. EndOnce'
  BY DEF SshInv, SshTypeOK, X11Rec, Runs, EarlyRuns, LoopRuns, TailRuns, OutboxFits, PlainEvents, X11Told, EndEvents, FinaleFits, EndOnce, EndOut, Returns, At, NothingPosted, taskVars, callerVars
<1>6. ProbeFits'
  BY DEF SshInv, SshTypeOK, X11Rec, Runs, EarlyRuns, LoopRuns, TailRuns, ProbeFits, Returns, At, NothingPosted, taskVars, callerVars
<1>7. SizeGranted'
  BY DEF SshInv, SshTypeOK, X11Rec, Runs, EarlyRuns, LoopRuns, TailRuns, SizeGranted, Returns, At, NothingPosted, taskVars, callerVars
<1>8. RelaysFit'
  BY SshShellAssumption DEF SshInv, SshTypeOK, X11Rec, Runs, EarlyRuns, LoopRuns, TailRuns, RelaysFit, Returns, At, NothingPosted, taskVars, callerVars
<1>9. TasksFit'
  BY SshShellAssumption DEF SshInv, SshTypeOK, X11Rec, Runs, EarlyRuns, LoopRuns, TailRuns, TasksFit, Uploading, Returns, At, NothingPosted, taskVars, callerVars
<1>10. DirectoriesKnown'
  BY DEF SshInv, SshTypeOK, X11Rec, Runs, EarlyRuns, LoopRuns, TailRuns, TasksFit, Uploading, DirectoriesKnown, Returns, At, NothingPosted, taskVars, callerVars
<1> QED
  BY <1>1, <1>2, <1>3, <1>4, <1>5, <1>6, <1>7, <1>8, <1>9, <1>10 DEF SshInv

\* The monitor of the tab takes an event; the worker's state stays.
LEMMA ReceivesEventKeeps == ASSUME SshInv, ReceivesEvent PROVE SshInv'
<1>1. SshTypeOK'
  BY DEF SshInv, SshTypeOK, X11Rec, Runs, EarlyRuns, LoopRuns, TailRuns, ReceivesEvent, At, NothingPosted, taskVars, callerVars
<1>2. OutboxFits'
  BY DEF SshInv, SshTypeOK, X11Rec, Runs, EarlyRuns, LoopRuns, TailRuns, OutboxFits, PlainEvents, X11Told, EndEvents, ReceivesEvent, At, NothingPosted, taskVars, callerVars
<1>3. OutputAccounted'
  BY DEF SshInv, SshTypeOK, X11Rec, Runs, EarlyRuns, LoopRuns, TailRuns, OutboxFits, PlainEvents, X11Told, EndEvents, OutputAccounted, ReceivesEvent, At, NothingPosted, taskVars, callerVars
<1>4. FinaleFits'
  BY DEF SshInv, SshTypeOK, X11Rec, Runs, EarlyRuns, LoopRuns, TailRuns, OutputAccounted, EndOnce, EndOut, EndEvents, FinaleFits, ReceivesEvent, At, NothingPosted, taskVars, callerVars
<1>5. EndOnce'
  BY DEF SshInv, SshTypeOK, X11Rec, Runs, EarlyRuns, LoopRuns, TailRuns, OutboxFits, PlainEvents, X11Told, EndEvents, FinaleFits, EndOnce, EndOut, ReceivesEvent, At, NothingPosted, taskVars, callerVars
<1>6. ProbeFits'
  BY DEF SshInv, SshTypeOK, X11Rec, Runs, EarlyRuns, LoopRuns, TailRuns, ProbeFits, ReceivesEvent, At, NothingPosted, taskVars, callerVars
<1>7. SizeGranted'
  BY DEF SshInv, SshTypeOK, X11Rec, Runs, EarlyRuns, LoopRuns, TailRuns, SizeGranted, ReceivesEvent, At, NothingPosted, taskVars, callerVars
<1>8. RelaysFit'
  BY SshShellAssumption DEF SshInv, SshTypeOK, X11Rec, Runs, EarlyRuns, LoopRuns, TailRuns, RelaysFit, ReceivesEvent, At, NothingPosted, taskVars, callerVars
<1>9. TasksFit'
  BY SshShellAssumption DEF SshInv, SshTypeOK, X11Rec, Runs, EarlyRuns, LoopRuns, TailRuns, TasksFit, Uploading, ReceivesEvent, At, NothingPosted, taskVars, callerVars
<1>10. DirectoriesKnown'
  BY DEF SshInv, SshTypeOK, X11Rec, Runs, EarlyRuns, LoopRuns, TailRuns, TasksFit, Uploading, DirectoriesKnown, ReceivesEvent, At, NothingPosted, taskVars, callerVars
<1> QED
  BY <1>1, <1>2, <1>3, <1>4, <1>5, <1>6, <1>7, <1>8, <1>9, <1>10 DEF SshInv

\* A worker that was just spawned (run_session) satisfies the invariant.
LEMMA SshInitFits == ASSUME SshInit PROVE SshInv
<1>1. Uploading = {}
  BY DEF SshInit, Uploading
<1>2. SshTypeOK
  <2>1. x11 \in X11Rec
    <3>1. PICK w \in BOOLEAN : x11 = [wanted |-> w, prepared |-> FALSE, status |-> "NotRequested", on |-> FALSE,
                                     open |-> TRUE, queue |-> 0, relays |-> 0, told |-> FALSE]
      BY DEF SshInit
    <3> QED
      BY <3>1, 0 \in Nat, ZenonT(40) DEF X11Rec
  <2>2. wanted \in [size : ShellSizes, unseen : BOOLEAN]
    BY DEF SshInit
  <2>3. outputs \in [read : Nat, held : Nat, sent : Nat, awaiting : BOOLEAN]
    BY DEF SshInit
  <2>4. /\ media \in [automatic : BOOLEAN, microphone : BOOLEAN, stop : BOOLEAN]
        /\ verdict \in [failed : BOOLEAN, exited : BOOLEAN]
    BY DEF SshInit
  <2>5. /\ images \in [Images -> {"free", "opening", "listed", "made", "over"}]
        /\ directories \in [listed : SUBSET Images, made : SUBSET Images]
    BY DEF SshInit
  <2>6. run \in Runs /\ carry \in Nat /\ probe \in {"none", "reading", "sending", "over"}
    BY DEF SshInit, Runs, EarlyRuns
  <2> QED
    BY <2>1, <2>2, <2>3, <2>4, <2>5, <2>6 DEF SshTypeOK
<1>3. OutboxFits /\ OutputAccounted /\ FinaleFits /\ EndOnce /\ ProbeFits /\ SizeGranted
  BY DEF SshInit, OutboxFits, OutputAccounted, FinaleFits, EndOnce, EndOut, ProbeFits, SizeGranted, LoopRuns, EarlyRuns
<1>4. RelaysFit
  <2>1. x11.relays = 0 /\ x11.queue = 0 /\ ~x11.on /\ run = "connecting"
    BY DEF SshInit
  <2> QED
    BY <2>1, SshShellAssumption DEF RelaysFit
<1>5. TasksFit
  BY <1>1, FS_EmptySet, SshShellAssumption DEF SshInit, TasksFit
<1>6. DirectoriesKnown
  BY DEF SshInit, DirectoriesKnown
<1> QED
  BY <1>2, <1>3, <1>4, <1>5, <1>6 DEF SshInv

\* Every step of the worker, its tasks and its handle keeps the invariant.
LEMMA SshStepKeeps == ASSUME SshInv, [SshNext]_sshVars PROVE SshInv'
<1>1. CASE UNCHANGED sshVars
  BY <1>1 DEF SshInv, SshTypeOK, OutboxFits, OutputAccounted, FinaleFits, EndOnce, EndOut, ProbeFits, SizeGranted,
     RelaysFit, TasksFit, Uploading, DirectoriesKnown, sshVars
<1>2. CASE SshNext
  BY <1>2, OrdersKeeps, ResizesTerminalKeeps, ShutsSshKeeps, SshJoinedKeeps, SshAbortedKeeps, SendsEventKeeps, ConnectsKeeps, PreparesKeeps, EarlyOrderKeeps, SourcesKeeps, OpensShellKeeps, ShellNotOpenedKeeps, TakesJobKeeps, ShellWritesKeeps, ShellWriteFailsKeeps, SendsResizeKeeps, ResizeFailsKeeps, ReadsShellKeeps, FlushTimerKeeps, ShellOverKeeps, ReceiveFailsKeeps, X11DispatchedKeeps, TakesX11Keeps, RelayEndsKeeps, ListsDirectoryKeeps, MakesDirectoryKeeps, UploadEndsKeeps, AutomaticEndsKeeps, MicrophoneEndsKeeps, ProbeReadsKeeps, ProbeSendsKeeps, FlushesLastKeeps, StopsTasksKeeps, StopsMediaKeeps, MediaOverKeeps, CleansKeeps, ReturnsKeeps, ReceivesEventKeeps
  DEF SshNext, SshCaller, SshShut, SshWorker, SshOthers
<1> QED
  BY <1>1, <1>2

\* The invariant of the worker gives what is promised of it.
LEMMA SshInvSound == ASSUME SshInv PROVE SshSound
<1>1. Len(finale) <= 1 /\ \A r \in Range(finale) : r.event # "Failed" => r.ahead = outputs.read /\ r.behind = 0
  <2>1. CASE finale = <<>>
    BY <2>1 DEF Range
  <2>2. CASE finale # <<>>
    <3>1. PICK r \in EndRec : finale = <<r>> /\ (r.event # "Failed" => r.ahead = outputs.read /\ r.behind = 0)
      BY <2>2 DEF SshInv, FinaleFits
    <3>2. Len(finale) = 1 /\ Range(finale) = {r}
      BY <3>1 DEF Range
    <3> QED
      BY <3>1, <3>2
  <2> QED
    BY <2>1, <2>2
<1>2. run \in {"open", "writing"} /\ ~wanted.unseen => granted = wanted.size
  BY DEF SshInv, SizeGranted, LoopRuns
<1>3. x11.relays <= MaxRelays /\ (x11.relays > 0 => x11.status = "Enabled")
  BY DEF SshInv, RelaysFit
<1>4. MediaTasks <= MaxMedia + 1
  <2>1. PICK n \in Nat : n = Cardinality(Uploading)
    BY FS_CardinalityType DEF SshInv, TasksFit
  <2>2. PICK a \in Nat : a = IF media.automatic THEN 1 ELSE 0
    OBVIOUS
  <2>3. PICK b \in {0, 1} : b = IF media.microphone THEN 1 ELSE 0
    OBVIOUS
  <2>4. n + a <= MaxMedia /\ MaxMedia \in Nat
    BY <2>1, <2>2, SshShellAssumption DEF SshInv, TasksFit
  <2>5. MediaTasks = n + a + b
    BY <2>1, <2>2, <2>3 DEF MediaTasks
  <2> QED
    BY <2>1, <2>2, <2>3, <2>4, <2>5
<1>5. run = "ended" => /\ MediaTasks = 0 /\ x11.relays = 0 /\ ~x11.open
                      /\ probe \notin {"reading", "sending"}
  <2> SUFFICES ASSUME run = "ended"
               PROVE  MediaTasks = 0 /\ x11.relays = 0 /\ ~x11.open /\ probe \notin {"reading", "sending"}
    OBVIOUS
  <2>1. Uploading = {} /\ ~media.automatic /\ ~media.microphone
    BY DEF SshInv, TasksFit
  <2>2. MediaTasks = 0
    BY <2>1, FS_EmptySet DEF MediaTasks
  <2>3. x11.relays \in Nat
    BY DEF SshInv, SshTypeOK, X11Rec
  <2> QED
    BY <2>2, <2>3 DEF SshInv, RelaysFit, ProbeFits, LoopRuns
<1>6. run \in {"open", "writing", "flushing", "stopping", "leaving"} => directories.made \subseteq directories.listed
  BY DEF SshInv, DirectoriesKnown
<1>7. run = "returning" => directories.made = {}
  BY DEF SshInv, DirectoriesKnown
<1> QED
  BY <1>1, <1>2, <1>3, <1>4, <1>5, <1>6, <1>7 DEF SshSound

\* The SSH worker (run_session and run_shell): one end, an orderly one last
\* and behind all the output; the size granted; relays and media tasks within
\* their limits and none past the worker; no directory made and forgotten;
\* for any capacities and limits, any number of images and amount of output.
THEOREM SshIsSound == SshSpec => []SshSound
<1>1. SshInit => SshInv
  BY SshInitFits
<1>2. SshInv /\ [SshNext]_sshVars => SshInv'
  BY SshStepKeeps
<1>3. SshInv => SshSound
  BY SshInvSound
<1> QED
  BY <1>1, <1>2, <1>3, PTL DEF SshSpec

-----------------------------------------------------------------------------
\* A worker of a terminal, of whichever kind, keeps what is promised of it: it reports its
\* end once, an orderly one after all it read, keeps the remote size current and leaves
\* nothing running; the local display is reached only behind the cookie.
THEOREM TerminalsAreSound == ShellSpec /\ LineSpec /\ SshSpec /\ X11Spec => []TerminalsSound
<1>1. ShellSound /\ LineSound /\ SshSound /\ X11Sound => TerminalsSound
  BY DEF TerminalsSound
<1> QED
  BY <1>1, ShellIsSound, LineIsSound, SshIsSound, X11IsSound, PTL
=============================================================================
