----------------------------- MODULE Terminals ------------------------------
(***************************************************************************)
(* The workers behind the terminals, and what is promised of all of them.   *)
(* They share no state: a terminal has one worker, of one kind.             *)
(***************************************************************************)
EXTENDS LocalShell, DirectSession, SshShell, X11Relay

\* A worker of a terminal reports its end once, an orderly end after all the output it
\* read, keeps the remote size current and leaves nothing running behind it; the local
\* display is reached only behind the cookie and its server started once.
TerminalsSound == ShellSound /\ LineSound /\ SshSound /\ X11Sound

=============================================================================
