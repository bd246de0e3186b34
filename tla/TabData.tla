------------------------------- MODULE TabData -------------------------------
(***************************************************************************)
(* What a tab shows or sends of its connection: the media of its terminal  *)
(* and its latency.                                                        *)
(***************************************************************************)
EXTENDS Media, Latency

\* What a tab shows or sends of its connection is of the attempt it is in: what media
\* operations and latency requests of an earlier attempt bring comes to nothing, an
\* operation ends with what it took, and a latency is a true and a recent one.
TabDataIsCurrent == MediaSound /\ LatencySound
=============================================================================
