------------------------------ MODULE X11Relay ------------------------------
(***************************************************************************)
(* X11 channels of SSH terminals and the local X server                    *)
(* (src/ssh/x11.rs, src/x_server.rs).  A client is a relay of a trusted    *)
(* terminal, a relay of an untrusted one, or the preparation of the latter *)
(* before it asks for forwarding; all share the X server and the lock      *)
(* under which it is started.                                              *)
(*                                                                         *)
(* Displays are one display the candidates of the plan name; the server    *)
(* started for a plan takes it.  Setup packets are what their checks tell  *)
(* apart.                                                                  *)
(***************************************************************************)
EXTENDS Naturals, FiniteSets, Absent

CONSTANTS
    Trusted, Untrusted,   \* relays of a trusted and of an untrusted terminal
    Preparation,          \* the preparation of the untrusted terminal
    MaxLaunches           \* bound: starts of the X server

Clients == Trusted \cup Untrusted \cup {Preparation}

ASSUME X11Assumption ==
    /\ Trusted \cap Untrusted = {} /\ Preparation \notin Trusted \cup Untrusted
    /\ Nil \notin Clients
    /\ MaxLaunches \in Nat

VARIABLES
    client,      \* Clients -> where it is; see the actions
    plan,        \* XServerPlan: [launches, installed, allowNoAuth]
    xserver,     \* absent, starting, up
    cookies,     \* an authorization for the display can be read or generated
    launchLock,  \* X_SERVER_LAUNCH_LOCK: its holder, or Nil
    expired,     \* the authorization of the untrusted terminal is past its time
    touched,     \* ghost: clients that reached for the local display
    proved,      \* ghost: clients whose setup was accepted, with expired then
    launches     \* ghost: [made, lapsed]: starts, and reasons to start over

x11Vars == <<client, plan, xserver, cookies, launchLock, expired, touched, proved,
             launches>>
desktopVars == <<plan, xserver, cookies, expired>>

Setups == [order : BOOLEAN, lengths : BOOLEAN, protocol : BOOLEAN, cookie : BOOLEAN]

X11Init ==
    /\ client = [c \in Clients |-> IF c \in Untrusted THEN "unprepared" ELSE "idle"]
    /\ plan \in [launches : BOOLEAN, installed : BOOLEAN, allowNoAuth : BOOLEAN]
    /\ xserver \in {"absent", "up"} /\ cookies \in BOOLEAN
    /\ launchLock = Nil /\ expired = FALSE
    /\ touched = {} /\ proved = {} /\ launches = [made |-> 0, lapsed |-> 0]

Moves(c, to) == client' = [client EXCEPT ![c] = to]
Releases(c) == launchLock' = IF launchLock = c THEN Nil ELSE launchLock

---------------------------------------------------------------------------
(* X11Forwarding::relay *)

ChannelOpens(c) ==
    /\ c \in Trusted \cup Untrusted /\ client[c] = "idle"
    /\ Moves(c, IF c \in Untrusted /\ expired THEN "rejected" ELSE "accepting")
    /\ UNCHANGED <<desktopVars, launchLock, touched, proved, launches>>

(* The remote end is told; CHANNEL_ACCEPT_TIMEOUT bounds it. *)
ChannelAccepted(c) ==
    /\ client[c] = "accepting"
    /\ client' \in {[client EXCEPT ![c] = to] : to \in {"setup", "failed"}}
    /\ UNCHANGED <<desktopVars, launchLock, touched, proved, launches>>

\* validate_setup_packet
SetupAccepted(setup) == setup.order /\ setup.lengths /\ setup.protocol /\ setup.cookie

(* authenticate_then_prepare: an accepted setup lets the relay prepare, if   *)
(* an untrusted authorization did not expire meanwhile.                      *)
SetupArrives(c, setup) ==
    /\ client[c] = "setup"
    /\ Moves(c, IF ~SetupAccepted(setup) THEN "failed"
                ELSE IF c \in Trusted THEN "looking"
                ELSE IF expired THEN "failed" ELSE "connecting")
    /\ proved' = IF SetupAccepted(setup)
                 THEN proved \cup {[client |-> c, expired |-> expired]} ELSE proved
    /\ UNCHANGED <<desktopVars, launchLock, touched, launches>>

(* SETUP_TIMEOUT, or the channel ends. *)
SetupMissing(c) ==
    /\ client[c] = "setup"
    /\ Moves(c, "failed")
    /\ UNCHANGED <<desktopVars, launchLock, touched, proved, launches>>

(* A display can be used: its endpoint answers and xauth lists a cookie for *)
(* it, or generates one; a trusted relay may be allowed to do without.       *)
Authorized(c) == cookies \/ (c \in Trusted /\ plan.allowNoAuth)
Reachable == xserver = "up"
Usable(c) == Reachable /\ Authorized(c)

(* rewrite_setup_packet and connect_endpoint; then bytes are copied. *)
Connected(c) ==
    /\ client[c] = "connecting"
    /\ touched' = touched \cup {c}
    /\ \/ Reachable /\ Moves(c, "relaying")
       \/ Moves(c, "failed")
    /\ UNCHANGED <<desktopVars, launchLock, proved, launches>>

RelayCloses(c) ==
    /\ client[c] = "relaying"
    /\ Moves(c, "over")
    /\ UNCHANGED <<desktopVars, launchLock, touched, proved, launches>>

---------------------------------------------------------------------------
(* X11Session::prepare_trusted and prepare_untrusted *)

PreparationBegins ==
    /\ client[Preparation] = "idle"
    /\ Moves(Preparation, "looking")
    /\ UNCHANGED <<desktopVars, launchLock, touched, proved, launches>>

(* Where a prepared client goes; the untrusted terminal has its session now. *)
Prepared(c) ==
    IF c = Preparation
    THEN [b \in Clients |-> IF b = c THEN "over"
                            ELSE IF b \in Untrusted THEN "idle" ELSE client[b]]
    ELSE [client EXCEPT ![c] = "connecting"]

Looks(c) == touched' = touched \cup {c}

LooksFirst(c) ==
    /\ client[c] = "looking"
    /\ Looks(c)
    /\ client' = CASE Usable(c) -> [client EXCEPT ![c] = "found"]
                   [] ~Usable(c) /\ ~plan.launches -> [client EXCEPT ![c] = "failing"]
                   [] OTHER -> [client EXCEPT ![c] = "queued"]
    /\ UNCHANGED <<desktopVars, launchLock, proved, launches>>

TakesLock(c) ==
    /\ client[c] = "queued" /\ launchLock = Nil
    /\ launchLock' = c
    /\ Moves(c, "rechecking")
    /\ UNCHANGED <<desktopVars, touched, proved, launches>>

LooksAgain(c) ==
    /\ client[c] = "rechecking"
    /\ Looks(c)
    /\ Moves(c, IF Usable(c) THEN "found" ELSE "launching")
    /\ launches' = [launches EXCEPT !.lapsed = IF Reachable /\ ~Usable(c) THEN @ + 1 ELSE @]
    /\ UNCHANGED <<desktopVars, launchLock, proved>>

(* XServerPlan::launch: nothing is started without an application, nor one  *)
(* that needs no-auth compatibility without leave.                           *)
Launches(c) ==
    /\ client[c] = "launching" /\ plan.installed /\ launches.made < MaxLaunches
    /\ xserver' = IF xserver = "absent" THEN "starting" ELSE xserver
    /\ launches' = [launches EXCEPT !.made = @ + 1]
    /\ Moves(c, "polling")
    /\ UNCHANGED <<plan, cookies, expired, launchLock, touched, proved>>

LaunchFails(c) ==
    /\ client[c] = "launching"
    /\ Moves(c, "failing")
    /\ UNCHANGED <<desktopVars, launchLock, touched, proved, launches>>

PollsServer(c) ==
    /\ client[c] = "polling" /\ Usable(c)
    /\ Looks(c)
    /\ Moves(c, "found")
    /\ UNCHANGED <<desktopVars, launchLock, proved, launches>>

(* SERVER_START_TIMEOUT: the server may yet come up. *)
PollingTimesOut(c) ==
    /\ client[c] = "polling"
    /\ Moves(c, "failing")
    /\ launches' = [launches EXCEPT !.lapsed = @ + 1]
    /\ UNCHANGED <<desktopVars, launchLock, touched, proved>>

(* The preparation returns: the lock is dropped. *)
PreparationReturns(c) ==
    /\ client[c] \in {"found", "failing"}
    /\ client' = IF client[c] = "found" THEN Prepared(c) ELSE [client EXCEPT ![c] = "failed"]
    /\ Releases(c)
    /\ UNCHANGED <<desktopVars, touched, proved, launches>>

---------------------------------------------------------------------------
Ended == {"rejected", "failed", "over", "aborted"}

(* The worker ends: shutdown_x11_relays aborts its relays, and what they    *)
(* hold is dropped.                                                          *)
Aborts(c) ==
    /\ client[c] \notin Ended \cup {"unprepared", "idle"}
    /\ Moves(c, "aborted") /\ Releases(c)
    /\ launches' = [launches EXCEPT !.lapsed = IF client[c] = "polling" THEN @ + 1 ELSE @]
    /\ UNCHANGED <<desktopVars, touched, proved>>

(* The X server and the clock. *)
ServerComesUp ==
    /\ xserver = "starting" /\ xserver' = "up"
    /\ UNCHANGED <<client, plan, cookies, launchLock, expired, touched, proved, launches>>

ServerGoes ==
    /\ xserver # "absent" /\ launches.made < MaxLaunches /\ xserver' = "absent"
    /\ launches' = [launches EXCEPT !.lapsed = @ + 1]
    /\ UNCHANGED <<client, plan, cookies, launchLock, expired, touched, proved>>

(* xauth finds no entry, several, or does not answer in time; or it does. *)
XauthChanges ==
    /\ cookies' = ~cookies
    /\ UNCHANGED <<client, plan, xserver, launchLock, expired, touched, proved, launches>>

AuthorizationExpires ==
    /\ client[Preparation] = "over" /\ ~expired /\ expired' = TRUE
    /\ UNCHANGED <<client, plan, xserver, cookies, launchLock, touched, proved, launches>>

ClientStep(c) ==
    \/ ChannelAccepted(c) \/ SetupMissing(c) \/ Connected(c)
    \/ LooksFirst(c) \/ TakesLock(c) \/ LooksAgain(c)
    \/ Launches(c) \/ LaunchFails(c) \/ PollsServer(c) \/ PollingTimesOut(c) \/ PreparationReturns(c)

X11Next ==
    \/ PreparationBegins \/ ServerComesUp \/ ServerGoes \/ XauthChanges
    \/ AuthorizationExpires
    \/ \E c \in Clients :
         \/ ChannelOpens(c) \/ ClientStep(c) \/ RelayCloses(c) \/ Aborts(c)
         \/ \E setup \in Setups : SetupArrives(c, setup)

---------------------------------------------------------------------------
\* The local display is reached for, probed or connected to, only for a channel whose
\* setup carried the cookie of its connection, and, for an untrusted one, carried it in time.
DisplayIsGated ==
    \A c \in touched \ {Preparation} :
        \E p \in proved : p.client = c /\ (c \in Untrusted => ~p.expired)

\* Whatever relays ask at the same time, the X server is started again only when a start
\* was not seen through, the server went away, or it is up and gives no authorization.
StartedOnce == launches.made <= 1 + launches.lapsed

\* The lock belongs to a client that is at work, so that an aborted relay does not keep
\* the others from starting the server, and the server is started under it only.
LockIsHeld ==
    /\ launchLock # Nil => client[launchLock] \notin Ended
    /\ \A c \in Clients : client[c] \in {"rechecking", "launching", "polling"} => launchLock = c

X11Sound == DisplayIsGated /\ StartedOnce /\ LockIsHeld

\* Every client comes to an end, or its relay carries bytes: each wait is bounded, that
\* for the lock by those of its holders.
X11Settled == \A c \in Clients : client[c] \in Ended \cup {"unprepared", "idle", "relaying"}
=============================================================================
