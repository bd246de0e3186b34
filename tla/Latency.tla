------------------------------- MODULE Latency -------------------------------
(***************************************************************************)
(* The latency shown on the tab of an SSH connection: the monitor in the   *)
(* worker (src/ssh/worker/latency.rs), the transport it asks for replies,  *)
(* and what the tab shows (src/app/state/latency.rs) after the connection  *)
(* monitor applied its reports (src/app/connection_monitor.rs).            *)
(*                                                                         *)
(* Time is counted in steps; a timer fires at its instant or later, since  *)
(* the worker may be waiting elsewhere.  A reply carries no identity: the  *)
(* transport answers requests in order, `unanswered` holds them.           *)
(***************************************************************************)
EXTENDS Naturals, Sequences, Absent

CONSTANTS
    FOREGROUND_INTERVAL, BACKGROUND_INTERVAL, PROBE_TIMEOUT, SAMPLE_LIFETIME,
    RoundTrips,      \* round trips measured, in units of 50 ms
    LatencyEvents,   \* EVENT_CAPACITY
    MaxClock,        \* bound: steps of time
    MaxAttempts      \* bound: connections of the tab

ASSUME LatencyAssumption ==
    /\ FOREGROUND_INTERVAL \in Nat /\ BACKGROUND_INTERVAL \in Nat
    /\ FOREGROUND_INTERVAL < BACKGROUND_INTERVAL /\ BACKGROUND_INTERVAL < SAMPLE_LIFETIME
    /\ PROBE_TIMEOUT \in Nat \ {0} /\ SAMPLE_LIFETIME \in Nat /\ RoundTrips \subseteq Nat
    /\ LatencyEvents \in Nat /\ MaxClock \in Nat /\ MaxAttempts \in Nat \ {0}

\* LatencyMonitor: the request that waits, the cadence, and its instants.
Sampler ==
    [probe : Nat \cup {Nil}, foreground : BOOLEAN, last : Nat, next : Nat, deadline : Nat,
     expires : Nat, timedOut : BOOLEAN, expired : BOOLEAN, stopped : BOOLEAN]

ASSUME LatencyNil == Nil \notin Nat /\ Nil \notin Sampler

VARIABLES
    clock,
    attempt,       \* the attempt of the tab
    sampler,       \* LatencyMonitor, or Nil before the connection is up
    hint,          \* [foreground, unseen]: the watch channel
    requests,      \* ghost: instants of the requests sent on this transport, by number
    unanswered,    \* numbers of the requests without a reply
    reports,        \* attempt -> its event channel
    latency        \* ConnectionLatency of the tab

latencyVars == <<clock, attempt, sampler, hint, requests, unanswered, reports, latency>>
monitorVars == <<sampler, hint, requests, unanswered>>

Measuring == [phase |-> "Measuring", smoothed |-> Nil, quality |-> Nil, candidate |-> Nil,
              measuredAt |-> Nil, observedAt |-> Nil]

\* LatencyMonitor::with_probe
NewSampler ==
    [probe |-> Nil, foreground |-> hint.foreground, last |-> clock, next |-> clock,
     deadline |-> clock, expires |-> clock + SAMPLE_LIFETIME,
     timedOut |-> FALSE, expired |-> FALSE, stopped |-> FALSE]

LatencyInit ==
    /\ clock = 0 /\ attempt = 1 /\ sampler = Nil
    /\ hint = [foreground |-> FALSE, unseen |-> FALSE]
    /\ requests = <<>> /\ unanswered = <<>>
    /\ reports = [a \in 1 .. MaxAttempts |-> <<>>] /\ latency = Measuring

Interval(foreground) == IF foreground THEN FOREGROUND_INTERVAL ELSE BACKGROUND_INTERVAL

PostsReport(event) ==
    /\ Len(reports[attempt]) < LatencyEvents
    /\ reports' = [reports EXCEPT ![attempt] = Append(@, event)]

---------------------------------------------------------------------------
(* The worker. *)

(* The connection is up: Connected is sent, then the monitor is made. *)
TransportUp ==
    /\ sampler = Nil
    /\ PostsReport([kind |-> "Connected"])
    /\ sampler' = NewSampler /\ hint' = [hint EXCEPT !.unseen = FALSE]
    /\ UNCHANGED <<clock, attempt, requests, unanswered, latency>>

StartsRequest ==
    /\ sampler # Nil /\ sampler.probe = Nil /\ ~sampler.stopped /\ clock >= sampler.next
    /\ requests' = Append(requests, [at |-> clock, after |-> sampler.last])
    /\ unanswered' = Append(unanswered, Len(requests) + 1)
    /\ sampler' = [sampler EXCEPT !.probe = Len(requests) + 1, !.deadline = clock + PROBE_TIMEOUT,
                                  !.timedOut = FALSE]
    /\ UNCHANGED <<clock, attempt, hint, reports, latency>>

(* A request is over, one way or the other. *)
Completed ==
    [sampler EXCEPT !.probe = Nil, !.last = clock, !.next = clock + Interval(sampler.foreground),
                    !.expires = clock + SAMPLE_LIFETIME, !.expired = FALSE]

(* A reply arrives: it is taken for the reply to the request that waits. *)
ReplyArrives(roundTrip) ==
    /\ sampler # Nil /\ sampler.probe # Nil /\ unanswered # <<>>
    /\ unanswered' = Tail(unanswered)
    /\ PostsReport([kind |-> "LatencyMeasured", roundTrip |-> roundTrip, at |-> clock,
              request |-> sampler.probe, reply |-> Head(unanswered)])
    /\ sampler' = Completed
    /\ UNCHANGED <<clock, attempt, hint, requests, latency>>

(* The transport can answer no request any more. *)
RequestFails ==
    /\ sampler # Nil /\ sampler.probe # Nil
    /\ PostsReport([kind |-> "LatencyUnavailable"])
    /\ sampler' = [Completed EXCEPT !.stopped = TRUE, !.expired = TRUE]
    /\ unanswered' = <<>>
    /\ UNCHANGED <<clock, attempt, hint, requests, latency>>

RequestTimesOut ==
    /\ sampler # Nil /\ sampler.probe # Nil /\ ~sampler.timedOut /\ clock >= sampler.deadline
    /\ PostsReport([kind |-> "LatencyTimedOut"])
    /\ sampler' = [sampler EXCEPT !.timedOut = TRUE, !.expires = clock + SAMPLE_LIFETIME,
                                  !.expired = FALSE]
    /\ UNCHANGED <<clock, attempt, hint, requests, unanswered, latency>>

SampleExpires ==
    /\ sampler # Nil /\ ~sampler.expired /\ clock >= sampler.expires
    /\ PostsReport([kind |-> "LatencyExpired"])
    /\ sampler' = [sampler EXCEPT !.expired = TRUE]
    /\ UNCHANGED <<clock, attempt, hint, requests, unanswered, latency>>

CadenceChanges ==
    /\ sampler # Nil /\ hint.unseen
    /\ sampler' = [sampler EXCEPT !.foreground = hint.foreground,
                                  !.next = sampler.last + Interval(hint.foreground)]
    /\ hint' = [hint EXCEPT !.unseen = FALSE]
    /\ UNCHANGED <<clock, attempt, requests, unanswered, reports, latency>>

---------------------------------------------------------------------------
(* The application. *)

SetLatencyForeground(foreground) ==
    /\ hint.foreground # foreground
    /\ hint' = [foreground |-> foreground, unseen |-> TRUE]

(* The tab comes to the front or leaves it: update_latency_foreground. *)
TabMoves(foreground) ==
    /\ SetLatencyForeground(foreground)
    /\ UNCHANGED <<clock, attempt, sampler, requests, unanswered, reports, latency>>

(* A new attempt of the tab: set_ssh_attempt, and a worker of its own. *)
Reattempts ==
    /\ attempt < MaxAttempts
    /\ attempt' = attempt + 1 /\ latency' = Measuring
    /\ sampler' = Nil /\ hint' = [foreground |-> FALSE, unseen |-> FALSE]
    /\ requests' = <<>> /\ unanswered' = <<>>
    /\ UNCHANGED <<clock, reports>>

Quality(roundTrip) ==
    IF roundTrip < 2 THEN "good" ELSE IF roundTrip < 5 THEN "moderate"
    ELSE IF roundTrip < 10 THEN "high" ELSE "poor"

(* record_sample *)
RecordSample(sample) ==
    LET fresh == /\ latency.phase = "Measured"
                 /\ clock - latency.observedAt < SAMPLE_LIFETIME
        smoothed == IF fresh THEN (latency.smoothed * 4 + sample.roundTrip) \div 5
                             ELSE sample.roundTrip
        quality == Quality(smoothed)
        settled == ~fresh \/ quality \in {latency.quality, latency.candidate}
    IN  IF latency.measuredAt # Nil /\ sample.at <= latency.measuredAt THEN latency
        ELSE IF clock - sample.at >= SAMPLE_LIFETIME THEN [latency EXCEPT !.phase = "Stale"]
        ELSE
               [phase |-> "Measured", smoothed |-> smoothed,
                quality |-> IF settled THEN quality ELSE latency.quality,
                candidate |-> IF settled THEN Nil ELSE quality,
                measuredAt |-> sample.at, observedAt |-> sample.at]

Observed(event) ==
    CASE event.kind = "Connected" -> Measuring
      [] event.kind = "LatencyMeasured" -> RecordSample(event)
      [] event.kind = "LatencyTimedOut" ->
           [latency EXCEPT !.phase = "TimedOut", !.observedAt = clock, !.candidate = Nil]
      [] event.kind = "LatencyExpired" -> [latency EXCEPT !.phase = "Stale"]
      [] event.kind = "LatencyUnavailable" -> [latency EXCEPT !.phase = "Unavailable"]

(* The connection monitor of attempt a takes a report; mutate_terminal_     *)
(* attempt leaves a tab with another attempt alone.                         *)
AppliesLatency(a) ==
    /\ reports[a] # <<>>
    /\ reports' = [reports EXCEPT ![a] = Tail(@)]
    /\ latency' = IF a = attempt THEN Observed(Head(reports[a])) ELSE latency
    /\ UNCHANGED <<clock, attempt, monitorVars>>

(* What the tab shows: ConnectionLatency::snapshot. *)
Shown ==
    IF /\ latency.phase \in {"Measured", "TimedOut"} /\ clock - latency.observedAt >= SAMPLE_LIFETIME
    THEN "stale"
    ELSE CASE latency.phase = "Measuring" -> "measuring"
           [] latency.phase = "Measured" -> latency.quality
           [] latency.phase = "TimedOut" -> "timeout"
           [] latency.phase = "Stale" -> "stale"
           [] latency.phase = "Unavailable" -> "unavailable"

TimePasses ==
    /\ clock < MaxClock /\ clock' = clock + 1
    /\ UNCHANGED <<attempt, monitorVars, reports, latency>>

LatencyNext ==
    \/ TransportUp \/ StartsRequest \/ RequestFails \/ RequestTimesOut \/ SampleExpires
    \/ CadenceChanges \/ Reattempts \/ TimePasses
    \/ \E roundTrip \in RoundTrips : ReplyArrives(roundTrip)
    \/ \E foreground \in BOOLEAN : TabMoves(foreground)
    \/ \E a \in 1 .. MaxAttempts : AppliesLatency(a)

---------------------------------------------------------------------------
\* A round trip is that of its own request, whatever timed out before it: one request
\* at a time is on the transport, for replies have no identity.
RepliesArePaired ==
    \A a \in 1 .. MaxAttempts : \A k \in DOMAIN reports[a] :
        reports[a][k].kind = "LatencyMeasured" => reports[a][k].request = reports[a][k].reply

\* The server is not asked more often than the foreground interval allows, however
\* often the tab is brought to the front.
RequestsAreSpaced ==
    \A k \in 2 .. Len(requests) : requests[k].at >= requests[k].after + FOREGROUND_INTERVAL

\* A quality shown is that of the present connection, which is up, and younger than its
\* lifetime, whatever the reports of an older attempt say and however late they come.
ShownIsCurrent ==
    Shown \in {"good", "moderate", "high", "poor"} =>
        /\ sampler # Nil /\ requests # <<>>
        /\ latency.measuredAt >= requests[1].at
        /\ clock - latency.measuredAt < SAMPLE_LIFETIME

LatencySound == RepliesArePaired /\ RequestsAreSpaced /\ ShownIsCurrent
=============================================================================
