-------------------------- MODULE FileUploadProofs --------------------------
(***************************************************************************)
(* Proofs about FileUpload, for a file of any length, any number of         *)
(* retries, conflicts, copies and changes made by others.                   *)
(***************************************************************************)
EXTENDS FileUpload, TLAPS

UploadSpec == UploadInit /\ [][UploadNext]_uploadVars

-----------------------------------------------------------------------------
(* Types.                                                                   *)

Contents == {Nil, Mine} \cup {Other(n) : n \in Nat}
Stamps == Contents \cup {Blank}

ServerRec == [at : [Paths -> Contents], temps : SUBSET Nat, stamped : BOOLEAN,
              posix : BOOLEAN, changes : Nat]
UpRec == [pc : UploadPlaces, retries : Nat, choice : Choices \cup {Nil},
          expected : Stamps, existing : Stamps, target : Paths, over : BOOLEAN,
          exec : Nat, got : Seq(Nat), cancelled : BOOLEAN,
          err : UploadErrors \cup {Nil}, event : UploadEvents \cup {Nil}, asks : Nat]
GhostRec == [published : Nat, content : Seq(Nat), destroyed : SUBSET Contents, raced : BOOLEAN]

UploadTypeOK ==
  /\ server \in ServerRec
  /\ local \in Nat
  /\ up \in UpRec
  /\ ghost \in GhostRec

\* What inspect_remote_upload_target returns is a fingerprint.
LEMMA FingerprintType ==
  ASSUME server \in ServerRec, NEW p \in Paths
  PROVE  Fingerprint(p) \in Stamps
  BY DEF Fingerprint, ServerRec, Stamps, Contents

\* Leaving an attempt changes only its place and its error.
LEMMA LeaveType ==
  ASSUME up \in UpRec, NEW e \in UploadErrors, Leave(e) \/ LeaveAndClean(e)
  PROVE  up' \in UpRec
<1>1. {"decide", "clean"} \subseteq UploadPlaces
  BY DEF UploadPlaces
<1> QED BY Zenon, <1>1 DEF Leave, LeaveAndClean, UpRec

\* Every step of the upload, of the user and of the outside world keeps the types.
LEMMA UploadTypeStep ==
  ASSUME UploadTypeOK, [UploadNext]_uploadVars
  PROVE  UploadTypeOK'
<1> USE DEF UploadTypeOK
<1>0. /\ UploadPlaces = {"open", "inspect", "probe", "create", "stream", "shut", "reinspect",
                         "rename", "clean", "decide", "delay", "send", "conflict", "end"}
      /\ UploadErrors = {"recoverable", "fatal", "cancelled", "conflict", "skipped", "uncertain"}
      /\ UploadEvents = {"Completed", "Cancelled", "Skipped", "Failed"}
      /\ Choices = {"Skip", "Overwrite", "KeepBoth"}
  BY DEF UploadPlaces, UploadErrors, UploadEvents, Choices
<1>1. 0 \in Nat /\ 0 \in Paths /\ 1 \in Paths /\ <<>> \in Seq(Nat) /\ Nil \in Stamps
  BY UploadConstants DEF Paths, Stamps, Contents
<1>2. CASE SomebodyChanges
  <2>1. PICK p \in Paths \ {Copies}, c \in {Nil, Other(server.changes + 1)} :
          /\ server' = [server EXCEPT !.at[p] = c, !.changes = @ + 1]
          /\ ghost' = [ghost EXCEPT !.raced = @ \/ (up.pc = "rename" /\ p = up.target)]
    BY <1>2 DEF SomebodyChanges
  <2>2. server.changes + 1 \in Nat /\ c \in Contents
    BY DEF ServerRec, Contents
  <2>3. server' \in ServerRec
    BY <2>1, <2>2, Zenon DEF ServerRec
  <2>4. ghost' \in GhostRec
    BY <2>1, Zenon DEF GhostRec
  <2> QED BY <1>2, <2>3, <2>4 DEF SomebodyChanges
<1>3. CASE TouchLocal
  BY <1>3 DEF TouchLocal
<1>4. CASE CancelUpload
  BY <1>4, Zenon DEF CancelUpload, UpRec
<1>5. CASE OpenChannel
  BY <1>0, <1>5, ZenonT(40) DEF OpenChannel, UpRec
<1>6. CASE InspectTarget
  <2>1. Fingerprint(0) \in Stamps
    BY <1>1, FingerprintType
  <2>2. up' \in UpRec
    <3>1. CASE Leave("fatal")
      BY <1>0, <3>1, LeaveType
    <3>2. ASSUME NEW b \in BOOLEAN,
                 up' = [up EXCEPT !.pc = "create", !.existing = Fingerprint(0), !.target = 0, !.over = b]
          PROVE  up' \in UpRec
      BY <1>0, <1>1, <2>1, <3>2, ZenonT(40) DEF UpRec
    <3>3. CASE up' = [up EXCEPT !.pc = "send", !.err = "conflict", !.existing = Fingerprint(0)]
      BY <1>0, <1>1, <2>1, <3>3, Zenon DEF UpRec
    <3>4. CASE up' = [up EXCEPT !.pc = "send", !.err = "skipped"]
      BY <1>0, <3>4, ZenonT(40) DEF UpRec
    <3>5. CASE up' = [up EXCEPT !.pc = "probe", !.existing = Fingerprint(0), !.target = 1]
      BY <1>0, <1>1, <2>1, <3>5, ZenonT(40) DEF UpRec
    <3> QED BY <1>6, <3>1, <3>2, <3>3, <3>4, <3>5 DEF InspectTarget
  <2> QED BY <1>6, <2>2 DEF InspectTarget
<1>7. CASE ProbeCopy
  <2>1. up.target \in Paths /\ (up.target < Copies => up.target + 1 \in Paths)
    BY UploadConstants DEF UpRec, Paths
  <2>2. up' \in UpRec
    <3>1. CASE up' = [up EXCEPT !.pc = "create", !.over = FALSE]
      BY <1>0, <3>1, ZenonT(40) DEF UpRec
    <3>2. CASE up.target < Copies /\ up' = [up EXCEPT !.target = @ + 1]
      BY <2>1, <3>2, Zenon DEF UpRec
    <3> QED BY <1>7, <3>1, <3>2 DEF ProbeCopy
  <2> QED BY <1>7, <2>2 DEF ProbeCopy
<1>8. CASE CreateTemporary
  <2>1. up' \in UpRec
    <3>1. CASE up' = [up EXCEPT !.pc = "stream", !.got = <<>>]
      BY <1>0, <1>1, <3>1, ZenonT(40) DEF UpRec
    <3> QED BY <1>0, <1>8, <3>1, LeaveType DEF CreateTemporary
  <2>2. server' \in ServerRec
    <3>1. server.temps \cup {up.exec} \in SUBSET Nat
      BY DEF ServerRec, UpRec
    <3> QED BY <1>8, <3>1, Zenon DEF CreateTemporary, ServerRec
  <2> QED BY <1>8, <2>1, <2>2 DEF CreateTemporary
<1>9. CASE WriteChunk
  <2>1. Append(up.got, local) \in Seq(Nat)
    BY DEF UpRec
  <2>2. up' \in UpRec
    BY <1>9, <2>1, Zenon DEF WriteChunk, UpRec
  <2> QED BY <1>9, <2>2 DEF WriteChunk
<1>10. CASE FinishStream
  <2>1. CASE up' = [up EXCEPT !.pc = "reinspect"]
    BY <1>0, <1>10, <2>1, ZenonT(40) DEF FinishStream, UpRec
  <2> QED BY <1>0, <1>10, <2>1, LeaveType DEF FinishStream
<1>11. CASE ReinspectTarget
  <2>1. CASE up' = [up EXCEPT !.pc = "rename"]
    BY <1>0, <1>11, <2>1, ZenonT(40) DEF ReinspectTarget, UpRec
  <2> QED BY <1>0, <1>11, <2>1, LeaveType DEF ReinspectTarget
<1>12. CASE Publish
  <2>1. up' \in UpRec
    <3>1. CASE up' = [up EXCEPT !.pc = "decide", !.err = Nil]
      BY <1>0, <3>1, ZenonT(40) DEF UpRec
    <3> QED BY <1>0, <1>12, <3>1, LeaveType DEF Publish, RenameError
  <2>2. ASSUME ServerRenames PROVE server' \in ServerRec /\ ghost' \in GhostRec
    <3>1. up.target \in Paths /\ server.temps \ {up.exec} \in SUBSET Nat /\ Mine \in Contents
      BY DEF ServerRec, UpRec, Contents
    <3>2. server' \in ServerRec
      BY <2>2, <3>1, Zenon DEF ServerRenames, ServerRec
    <3>3. /\ ghost.published + 1 \in Nat /\ up.got \in Seq(Nat)
          /\ ghost.destroyed \cup ({server.at[up.target]} \ {Nil}) \in SUBSET Contents
      BY <3>1 DEF GhostRec, ServerRec, UpRec
    <3>4. ghost' \in GhostRec
      BY <2>2, <3>3, Zenon DEF ServerRenames, GhostRec
    <3> QED BY <3>2, <3>4
  <2> QED BY <1>12, <2>1, <2>2 DEF Publish
<1>13. CASE CleanTemporary
  <2>1. up' \in UpRec
    BY <1>0, <1>13, Zenon DEF CleanTemporary, UpRec
  <2>2. [server EXCEPT !.temps = @ \ {up.exec}] \in ServerRec
    <3>1. server.temps \ {up.exec} \in SUBSET Nat
      BY DEF ServerRec
    <3> QED BY <3>1, Zenon DEF ServerRec
  <2> QED BY <1>13, <2>1, <2>2 DEF CleanTemporary
<1>14. CASE UploadFailure
  BY <1>0, <1>14, LeaveType DEF UploadFailure
<1>15. CASE DecideUpload
  <2>1. up.retries + 1 \in Nat
    BY DEF UpRec
  <2>2. up' \in UpRec
    <3>1. CASE up' = [up EXCEPT !.pc = "delay", !.retries = @ + 1, !.err = Nil]
      BY <1>0, <2>1, <3>1, Zenon DEF UpRec
    <3>2. CASE up' = [up EXCEPT !.pc = "send", !.err = IF @ = Nil /\ up.cancelled THEN "cancelled" ELSE @]
      <4>1. (IF up.err = Nil /\ up.cancelled THEN "cancelled" ELSE up.err) \in UploadErrors \cup {Nil}
        BY <1>0 DEF UpRec
      <4>2. PICK e \in UploadErrors \cup {Nil} : up' = [up EXCEPT !.pc = "send", !.err = e]
        BY <3>2, <4>1
      <4> QED BY <1>0, <4>2, Zenon DEF UpRec
    <3> QED BY <1>15, <3>1, <3>2 DEF DecideUpload
  <2> QED BY <1>15, <2>2 DEF DecideUpload
<1>16. CASE DelayUpload
  <2>1. up.exec + 1 \in Nat
    BY DEF UpRec
  <2>2. up' \in UpRec
    <3>1. CASE up' = [up EXCEPT !.pc = "send", !.err = "cancelled"]
      BY <1>0, <3>1, Zenon DEF UpRec
    <3>2. CASE up' = [up EXCEPT !.pc = "open", !.exec = @ + 1]
      BY <1>0, <2>1, <3>2, Zenon DEF UpRec
    <3> QED BY <1>16, <3>1, <3>2 DEF DelayUpload
  <2> QED BY <1>16, <2>2 DEF DelayUpload
<1>17. CASE SendUploadEvent
  <2>1. UploadEventOf(up.err) \in UploadEvents
    BY <1>0, Zenon DEF UploadEventOf
  <2>2. up' \in UpRec
    <3>1. CASE up' = [up EXCEPT !.pc = "conflict", !.expected = up.existing, !.err = Nil]
      BY <1>0, <3>1, Zenon DEF UpRec
    <3>2. CASE up' = [up EXCEPT !.pc = "end", !.event = UploadEventOf(up.err)]
      BY <1>0, <2>1, <3>2, ZenonT(40) DEF UpRec
    <3> QED BY <1>17, <3>1, <3>2 DEF SendUploadEvent
  <2> QED BY <1>17, <2>2 DEF SendUploadEvent
<1>18. ASSUME NEW c \in Choices, ResolveConflict(c) PROVE UploadTypeOK'
  <2>1. up.asks + 1 \in Nat
    BY DEF UpRec
  <2>2. up' \in UpRec
    BY <1>0, <1>1, <1>18, <2>1, ZenonT(40) DEF ResolveConflict, UpRec
  <2> QED BY <1>18, <2>2 DEF ResolveConflict
<1>19. CASE CancelConflict
  BY <1>0, <1>19, ZenonT(40) DEF CancelConflict, UpRec
<1>20. CASE UNCHANGED uploadVars
  BY <1>20 DEF uploadVars
<1> QED BY <1>2, <1>3, <1>4, <1>5, <1>6, <1>7, <1>8, <1>9, <1>10, <1>11, <1>12, <1>13, <1>14,
           <1>15, <1>16, <1>17, <1>18, <1>19, <1>20 DEF UploadNext, UploadStep

-----------------------------------------------------------------------------
(* The inductive invariant.                                                 *)

\* A sequence of chunks is the whole local file as it was queued.
AsQueued(chunks) == Len(chunks) = Chunks /\ \A i \in DOMAIN chunks : chunks[i] = 0

\* Once the rename took effect the task only heads for its end: the attempt
\* succeeded or is uncertain, so neither a retry nor a conflict follows.
PublicationIsFinal ==
  /\ ghost.published \in {0, 1}
  /\ ghost.published = 0 => ghost.destroyed = {}
  /\ ghost.published = 1 =>
       /\ AsQueued(ghost.content)
       /\ up.pc \in {"decide", "clean", "send", "end"}
       /\ up.pc \in {"decide", "clean"} => up.err \in {Nil, "uncertain"}
       /\ up.pc = "send" => up.err \in {Nil, "uncertain", "cancelled"}

\* Success is only concluded from a publication, and the event is the last step.
SuccessIsPublished ==
  /\ (up.pc \in {"decide", "send"} /\ up.err = Nil) => ghost.published = 1
  /\ up.pc = "clean" => up.err # Nil
  /\ up.pc # "end" => up.event = Nil
  /\ up.event = "Completed" => ghost.published = 1

\* The chunks read so far are not newer than the local file, and those that
\* passed the final check are the queued ones.
ChunksAreQueued ==
  /\ up.pc = "stream" => \A i \in DOMAIN up.got : up.got[i] <= local
  /\ up.pc \in {"reinspect", "rename"} => AsQueued(up.got)

\* An overwrite that is under way was chosen by the user, for the file that was
\* shown, and just before the rename that file is still there unless it was
\* changed since the last inspection.
OverwriteIsConfirmed ==
  /\ (up.pc \in {"create", "stream", "reinspect", "rename"} /\ up.over) =>
       /\ up.choice = "Overwrite" /\ up.target = 0
       /\ up.expected # Nil => up.existing = up.expected /\ server.stamped
  /\ (up.pc = "rename" /\ up.over /\ up.expected # Nil /\ ~ghost.raced) =>
       server.at[0] = up.expected

UploadInv ==
  /\ UploadTypeOK
  /\ PublicationIsFinal
  /\ SuccessIsPublished
  /\ ChunksAreQueued
  /\ OverwriteIsConfirmed
  /\ OverwritesOnlyConfirmed

\* An attempt that fails before the rename leaves through the common exits
\* (with or without a temporary file to remove), with an error and nothing published.
LEMMA AttemptFails ==
  ASSUME UploadInv, NEW e \in {"recoverable", "fatal", "cancelled"}, Leave(e) \/ LeaveAndClean(e),
         up.pc \in {"open", "inspect", "probe", "create", "stream", "reinspect"}, UNCHANGED ghost
  PROVE  PublicationIsFinal' /\ SuccessIsPublished'
<1> USE DEF UploadInv, UploadTypeOK
<1>1. e \in UploadErrors /\ e # Nil
  BY UploadNil DEF UploadErrors
<1>2. up'.pc \in {"decide", "clean"} /\ up'.err = e /\ up'.event = up.event
  BY DEF Leave, LeaveAndClean, UpRec
<1>3. ghost.published = 0 /\ up.event = Nil
  BY DEF PublicationIsFinal, SuccessIsPublished
<1> QED BY <1>1, <1>2, <1>3, UploadNil DEF PublicationIsFinal, SuccessIsPublished, UploadEvents

\* Publication happens once, in one step of the task, and no step before or after
\* it makes or unmakes one.
LEMMA PublicationStep ==
  ASSUME UploadInv, UploadNext
  PROVE  PublicationIsFinal' /\ SuccessIsPublished'
<1> USE DEF UploadInv, UploadTypeOK
<1>2. CASE SomebodyChanges
  BY <1>2 DEF SomebodyChanges, PublicationIsFinal, SuccessIsPublished, GhostRec
<1>3. CASE TouchLocal
  BY <1>3 DEF TouchLocal, PublicationIsFinal, SuccessIsPublished
<1>4. CASE CancelUpload
  BY <1>4 DEF CancelUpload, PublicationIsFinal, SuccessIsPublished, UpRec
<1>5. CASE OpenChannel
  BY <1>5 DEF OpenChannel, PublicationIsFinal, SuccessIsPublished, UpRec
<1>6. CASE InspectTarget
  <2>1. ghost.published = 0 /\ up.event = Nil /\ ghost' = ghost
    BY <1>6 DEF InspectTarget, PublicationIsFinal, SuccessIsPublished
  <2>2. CASE Leave("fatal")
    BY <1>6, <2>2, AttemptFails DEF InspectTarget
  <2>3. CASE ~Leave("fatal")
    <3>1. /\ up'.event = up.event
          /\ \/ up'.pc \in {"create", "probe"}
             \/ up'.pc = "send" /\ up'.err \in {"conflict", "skipped"}
      BY <1>6, <2>3 DEF InspectTarget, UpRec
    <3> QED BY <2>1, <3>1, UploadNil DEF PublicationIsFinal, SuccessIsPublished, UploadErrors, UploadEvents
  <2> QED BY <2>2, <2>3
<1>7. CASE ProbeCopy
  BY ZenonT(40), <1>7 DEF ProbeCopy, PublicationIsFinal, SuccessIsPublished, UpRec
<1>8. CASE CreateTemporary
  <2>1. CASE up' = [up EXCEPT !.pc = "stream", !.got = <<>>]
    BY <1>8, <2>1 DEF CreateTemporary, PublicationIsFinal, SuccessIsPublished, UpRec
  <2> QED BY <1>8, <2>1, AttemptFails DEF CreateTemporary
<1>9. CASE WriteChunk
  BY <1>9 DEF WriteChunk, PublicationIsFinal, SuccessIsPublished, UpRec
<1>10. CASE FinishStream
  BY ZenonT(40), <1>10, UploadNil DEF FinishStream, LeaveAndClean, PublicationIsFinal, SuccessIsPublished, UpRec, UploadErrors
<1>11. CASE ReinspectTarget
  BY ZenonT(40), <1>11, UploadNil DEF ReinspectTarget, LeaveAndClean, PublicationIsFinal, SuccessIsPublished, UpRec, UploadErrors
<1>12. CASE Publish
  <2>1. ghost.published = 0 /\ up.event = Nil /\ AsQueued(up.got)
    BY <1>12 DEF Publish, PublicationIsFinal, SuccessIsPublished, ChunksAreQueued
  <2>2. /\ up'.event = up.event
        /\ \/ up'.pc = "decide" /\ up'.err = Nil
           \/ up'.pc = "clean" /\ up'.err = "uncertain"
    BY <1>12 DEF Publish, LeaveAndClean, RenameError, UpRec
  <2>3. CASE ServerRenames
    <3>1. ghost'.published = 1 /\ ghost'.content = up.got
      BY <2>1, <2>3 DEF ServerRenames, GhostRec
    <3> QED BY <2>1, <2>2, <3>1, UploadNil DEF PublicationIsFinal, SuccessIsPublished, AsQueued, UploadErrors
  <2>4. CASE UNCHANGED <<server, ghost>> /\ LeaveAndClean(RenameError)
    <3>1. up'.pc = "clean" /\ up'.err = "uncertain"
      BY <2>4 DEF LeaveAndClean, RenameError, UpRec
    <3> QED BY <2>1, <2>2, <2>4, <3>1, UploadNil DEF PublicationIsFinal, SuccessIsPublished, UploadErrors, UploadEvents
  <2> QED BY <1>12, <2>3, <2>4 DEF Publish
<1>13. CASE CleanTemporary
  BY <1>13 DEF CleanTemporary, PublicationIsFinal, SuccessIsPublished, UpRec
<1>14. CASE UploadFailure
  BY <1>14, AttemptFails DEF UploadFailure
<1>15. CASE DecideUpload
  BY <1>15, UploadNil DEF DecideUpload, UploadMayRetry, PublicationIsFinal, SuccessIsPublished, UpRec, UploadErrors
<1>16. CASE DelayUpload
  BY <1>16, UploadNil DEF DelayUpload, PublicationIsFinal, SuccessIsPublished, UpRec, UploadErrors
<1>17. CASE SendUploadEvent
  BY <1>17, UploadNil DEF SendUploadEvent, UploadEventOf, PublicationIsFinal, SuccessIsPublished, UpRec, UploadErrors, UploadEvents
<1>18. ASSUME NEW c \in Choices, ResolveConflict(c)
       PROVE  PublicationIsFinal' /\ SuccessIsPublished'
  BY <1>18 DEF ResolveConflict, PublicationIsFinal, SuccessIsPublished, UpRec
<1>19. CASE CancelConflict
  BY <1>19 DEF CancelConflict, PublicationIsFinal, SuccessIsPublished, UpRec
<1> QED BY <1>2, <1>3, <1>4, <1>5, <1>6, <1>7, <1>8, <1>9, <1>10, <1>11, <1>12, <1>13, <1>14,
           <1>15, <1>16, <1>17, <1>18, <1>19 DEF UploadNext, UploadStep

\* WriteChunk appends the version of the local file at that moment; the final
\* check of the reader lets the chunks pass only while the file is the queued one.
LEMMA ChunksStep ==
  ASSUME UploadInv, UploadNext
  PROVE  ChunksAreQueued'
<1> USE DEF UploadInv, UploadTypeOK
<1>1. CASE TouchLocal
  BY <1>1 DEF TouchLocal, ChunksAreQueued, UpRec
<1>2. CASE CreateTemporary
  <2>1. \/ up'.pc = "stream" /\ up'.got = <<>>
        \/ up'.pc = "decide"
    BY <1>2 DEF CreateTemporary, Leave, UpRec
  <2> QED BY <2>1 DEF ChunksAreQueued
<1>3. CASE WriteChunk
  <2>1. up'.pc = "stream" /\ up'.got = Append(up.got, local) /\ local' = local
    BY <1>3 DEF WriteChunk, UpRec
  <2>2. \A i \in DOMAIN up.got : up.got[i] <= local
    BY <1>3 DEF WriteChunk, ChunksAreQueued
  <2>3. up.got \in Seq(Nat)
    BY DEF UpRec
  <2> QED BY <2>1, <2>2, <2>3 DEF ChunksAreQueued
<1>4. CASE FinishStream
  <2>1. CASE up' = [up EXCEPT !.pc = "reinspect"] /\ LocalUnchanged
    <3>1. up'.pc = "reinspect" /\ up'.got = up.got /\ up.got \in Seq(Nat)
      BY <2>1 DEF UpRec
    <3>2. Len(up.got) = Chunks /\ \A i \in DOMAIN up.got : up.got[i] <= 0
      BY <1>4, <2>1 DEF FinishStream, LocalUnchanged, ChunksAreQueued
    <3>3. \A i \in DOMAIN up.got : up.got[i] = 0
      BY <3>1, <3>2
    <3> QED BY <3>1, <3>2, <3>3 DEF ChunksAreQueued, AsQueued
  <2>2. CASE up'.pc = "clean"
    BY <2>2 DEF ChunksAreQueued
  <2> QED BY <1>4, <2>1, <2>2 DEF FinishStream, LeaveAndClean, UpRec
<1>5. CASE ReinspectTarget
  BY <1>5 DEF ReinspectTarget, LeaveAndClean, ChunksAreQueued, AsQueued, UpRec
<1>6. CASE CancelUpload \/ SomebodyChanges
  <2>1. up'.pc = up.pc /\ up'.got = up.got /\ local' = local
    BY <1>6 DEF CancelUpload, SomebodyChanges, UpRec
  <2> QED BY <2>1 DEF ChunksAreQueued, AsQueued
<1>7. ASSUME up'.pc \notin {"stream", "reinspect", "rename"} PROVE ChunksAreQueued'
  BY <1>7 DEF ChunksAreQueued
<1>8. CASE OpenChannel \/ InspectTarget \/ ProbeCopy
  BY <1>7, <1>8 DEF OpenChannel, InspectTarget, ProbeCopy, Leave, UpRec
<1>9. CASE Publish \/ CleanTemporary \/ UploadFailure
  BY <1>7, <1>9 DEF Publish, CleanTemporary, UploadFailure, Leave, LeaveAndClean, UpRec
<1>10. CASE DecideUpload \/ DelayUpload \/ SendUploadEvent \/ CancelConflict
  BY <1>7, <1>10 DEF DecideUpload, DelayUpload, SendUploadEvent, CancelConflict, UpRec
<1>11. ASSUME NEW c \in Choices, ResolveConflict(c) PROVE ChunksAreQueued'
  BY <1>7, <1>11 DEF ResolveConflict, UpRec
<1> QED BY <1>1, <1>2, <1>3, <1>4, <1>5, <1>6, <1>8, <1>9, <1>10, <1>11 DEF UploadNext, UploadStep

\* An overwrite starts from the choice of the user and the file that was shown
\* (InspectTarget), is checked again before the rename (ReinspectTarget), and what
\* the rename destroys is that file unless somebody changed it in between.
LEMMA OverwriteStep ==
  ASSUME UploadInv, UploadNext
  PROVE  OverwriteIsConfirmed' /\ OverwritesOnlyConfirmed'
<1> USE DEF UploadInv, UploadTypeOK
<1>0. ghost.published = 0 => ghost.destroyed = {}
  BY DEF PublicationIsFinal
<1>1. CASE SomebodyChanges
  <2>1. PICK p \in Paths \ {Copies}, c \in {Nil, Other(server.changes + 1)} :
          /\ server' = [server EXCEPT !.at[p] = c, !.changes = @ + 1]
          /\ ghost' = [ghost EXCEPT !.raced = @ \/ (up.pc = "rename" /\ p = up.target)]
    BY <1>1 DEF SomebodyChanges
  <2>2. /\ server'.stamped = server.stamped
        /\ p # 0 => server'.at[0] = server.at[0]
    BY <2>1, UploadConstants DEF ServerRec, Paths
  <2>3. /\ ghost'.destroyed = ghost.destroyed
        /\ ~ghost'.raced => ~ghost.raced /\ ~(up.pc = "rename" /\ p = up.target)
    BY <2>1, Zenon DEF GhostRec
  <2> QED BY <1>1, <2>2, <2>3 DEF SomebodyChanges, OverwriteIsConfirmed, OverwritesOnlyConfirmed
<1>2. ASSUME UNCHANGED ghost, up'.choice = up.choice, up'.expected = up.expected
      PROVE  OverwritesOnlyConfirmed'
  BY <1>2 DEF OverwritesOnlyConfirmed
<1>3. ASSUME up'.pc \notin {"create", "stream", "reinspect", "rename"} PROVE OverwriteIsConfirmed'
  BY <1>3 DEF OverwriteIsConfirmed
<1>4. ASSUME /\ up'.pc \in {"create", "stream", "reinspect", "rename"} => up.pc \in {"create", "stream", "reinspect", "rename"}
             /\ up'.pc = "rename" => up.pc = "rename"
             /\ up'.over = up.over /\ up'.choice = up.choice /\ up'.target = up.target
             /\ up'.expected = up.expected /\ up'.existing = up.existing
             /\ server'.at = server.at /\ server'.stamped = server.stamped /\ UNCHANGED ghost
      PROVE  OverwriteIsConfirmed'
  BY <1>4 DEF OverwriteIsConfirmed
<1>5. CASE TouchLocal
  BY <1>2, <1>4, <1>5 DEF TouchLocal
<1>6. CASE CancelUpload
  BY <1>2, <1>4, <1>6 DEF CancelUpload, UpRec
<1>7. CASE OpenChannel \/ UploadFailure
  BY <1>2, <1>3, <1>7 DEF OpenChannel, UploadFailure, Leave, LeaveAndClean, UpRec
<1>8. CASE InspectTarget
  <2>1. OverwritesOnlyConfirmed'
    BY <1>2, <1>8 DEF InspectTarget, Leave, UpRec
  <2>2. CASE up'.pc # "create" \/ ~up'.over
    <3>1. up'.pc # "rename" /\ up'.pc # "stream" /\ up'.pc # "reinspect"
      BY <1>8 DEF InspectTarget, Leave, UpRec
    <3> QED BY <2>1, <2>2, <3>1 DEF OverwriteIsConfirmed
  <2>3. CASE up'.pc = "create" /\ up'.over
    <3>1. /\ up.choice = "Overwrite" /\ MayOverwrite(Fingerprint(0)) /\ Fingerprint(0) # Nil
          /\ up'.choice = up.choice /\ up'.target = 0 /\ up'.expected = up.expected
          /\ up'.existing = Fingerprint(0) /\ server' = server
      <4>1. CASE Leave("fatal")
        BY <2>3, <4>1 DEF Leave, UpRec
      <4>2. CASE \/ up' = [up EXCEPT !.pc = "send", !.err = "conflict", !.existing = Fingerprint(0)]
                 \/ up' = [up EXCEPT !.pc = "send", !.err = "skipped"]
                 \/ up' = [up EXCEPT !.pc = "probe", !.existing = Fingerprint(0), !.target = 1]
                 \/ up' = [up EXCEPT !.pc = "create", !.existing = Fingerprint(0), !.target = 0, !.over = FALSE]
        <5>1. up'.pc \in {"send", "probe"} \/ ~up'.over
          BY <4>2 DEF UpRec
        <5> QED BY <2>3, <5>1
      <4>3. CASE /\ Fingerprint(0) # Nil /\ up.choice = "Overwrite" /\ MayOverwrite(Fingerprint(0))
                 /\ up' = [up EXCEPT !.pc = "create", !.existing = Fingerprint(0), !.target = 0, !.over = TRUE]
        BY <1>8, <4>3 DEF InspectTarget, UpRec
      <4> QED BY <1>8, <4>1, <4>2, <4>3 DEF InspectTarget
    <3>2. up.expected # Nil => Fingerprint(0) = up.expected /\ server.stamped
      BY <3>1 DEF MayOverwrite, Fingerprint
    <3> QED BY <2>1, <2>3, <3>1, <3>2 DEF OverwriteIsConfirmed
  <2> QED BY <2>2, <2>3
<1>9. CASE ProbeCopy
  <2>1. /\ up'.pc \in {"create", "probe"} /\ (up'.pc = "create" => ~up'.over)
        /\ up'.choice = up.choice /\ up'.expected = up.expected
    BY <1>9 DEF ProbeCopy, UpRec
  <2> QED BY <1>2, <1>9, <2>1 DEF ProbeCopy, OverwriteIsConfirmed
<1>10. CASE CreateTemporary
  <2>1. /\ up'.pc \in {"stream", "decide"} /\ up'.over = up.over /\ up'.choice = up.choice
        /\ up'.target = up.target /\ up'.expected = up.expected /\ up'.existing = up.existing
    BY ZenonT(40), <1>10 DEF CreateTemporary, Leave, UpRec
  <2>2. server'.at = server.at /\ server'.stamped = server.stamped
    BY <1>10 DEF CreateTemporary, ServerRec
  <2> QED BY <1>2, <1>4, <1>10, <2>1, <2>2 DEF CreateTemporary
<1>11. CASE WriteChunk \/ FinishStream
  BY <1>2, <1>4, <1>11 DEF WriteChunk, FinishStream, LeaveAndClean, UpRec
<1>12. CASE ReinspectTarget
  <2>1. /\ up'.pc \in {"rename", "clean"} /\ up'.over = up.over /\ up'.choice = up.choice
        /\ up'.target = up.target /\ up'.expected = up.expected /\ up'.existing = up.existing
        /\ up'.pc = "rename" /\ up.over => Fingerprint(up.target) = up.existing
        /\ UNCHANGED <<server, ghost>> /\ up.pc = "reinspect"
    BY ZenonT(40), <1>12 DEF ReinspectTarget, LeaveAndClean, UpRec
  <2>2. (up'.pc = "rename" /\ up.over /\ up.expected # Nil) => server.at[0] = up.expected
    BY <2>1 DEF OverwriteIsConfirmed, Fingerprint
  <2> QED BY <1>2, <2>1, <2>2 DEF OverwriteIsConfirmed
<1>13. CASE Publish
  <2>1. /\ up'.pc \in {"decide", "clean"} /\ up'.choice = up.choice /\ up'.expected = up.expected
    BY <1>13 DEF Publish, LeaveAndClean, UpRec
  <2>2. ghost.destroyed = {}
    BY <1>0, <1>13 DEF Publish, PublicationIsFinal
  <2>3. CASE ServerRenames
    <3>1. /\ ghost'.destroyed = {server.at[up.target]} \ {Nil}
          /\ ghost'.raced = ghost.raced
          /\ up.over \/ server.at[up.target] = Nil
      BY <2>2, <2>3 DEF ServerRenames, GhostRec
    <3>2. up.over => up.choice = "Overwrite" /\ up.target = 0
      BY <1>13 DEF Publish, OverwriteIsConfirmed
    <3>3. (up.over /\ up.expected # Nil /\ ~ghost.raced) => server.at[0] = up.expected
      BY <1>13 DEF Publish, OverwriteIsConfirmed
    <3> QED BY <1>3, <2>1, <3>1, <3>2, <3>3 DEF OverwritesOnlyConfirmed
  <2> QED BY <1>2, <1>3, <1>13, <2>1, <2>3 DEF Publish
<1>14. CASE CleanTemporary
  BY <1>2, <1>3, <1>14 DEF CleanTemporary, UpRec
<1>15. CASE DecideUpload \/ DelayUpload \/ CancelConflict
  BY <1>2, <1>3, <1>15 DEF DecideUpload, DelayUpload, CancelConflict, UpRec
<1>16. CASE SendUploadEvent
  <2>1. CASE up.err = "conflict"
    <3>1. ghost.destroyed = {}
      BY <1>0, <1>16, <2>1, UploadNil DEF SendUploadEvent, PublicationIsFinal, UploadErrors
    <3>2. up'.pc = "conflict" /\ ghost' = ghost
      BY <1>16, <2>1 DEF SendUploadEvent, UpRec
    <3> QED BY <1>3, <3>1, <3>2 DEF OverwritesOnlyConfirmed
  <2>2. CASE up.err # "conflict"
    BY <1>2, <1>3, <1>16, <2>2 DEF SendUploadEvent, UpRec
  <2> QED BY <2>1, <2>2
<1>17. ASSUME NEW c \in Choices, ResolveConflict(c)
       PROVE  OverwriteIsConfirmed' /\ OverwritesOnlyConfirmed'
  <2>1. ghost.destroyed = {} /\ ghost' = ghost
    BY <1>0, <1>17 DEF ResolveConflict, PublicationIsFinal
  <2>2. up'.pc = "open"
    BY <1>17 DEF ResolveConflict, UpRec
  <2> QED BY <1>3, <2>1, <2>2 DEF OverwritesOnlyConfirmed
<1> QED BY <1>1, <1>5, <1>6, <1>7, <1>8, <1>9, <1>10, <1>11, <1>12, <1>13, <1>14,
           <1>15, <1>16, <1>17 DEF UploadNext, UploadStep

\* The worker starts an upload in a state of the invariant.
LEMMA UploadInvInit == UploadInit => UploadInv
<1> SUFFICES ASSUME UploadInit PROVE UploadInv
  OBVIOUS
<1>1. PICK b, c \in BOOLEAN, f \in {Nil, Other(0)} :
        server = [at |-> [p \in Paths |-> IF p = 0 THEN f ELSE Nil], temps |-> {},
                  stamped |-> b, posix |-> c, changes |-> 0]
  BY DEF UploadInit
<1>2. server \in ServerRec
  BY <1>1 DEF ServerRec, Contents
<1>3. up \in UpRec
  <2>1. 0 \in Nat /\ 0 \in Paths /\ <<>> \in Seq(Nat)
    BY UploadConstants DEF Paths
  <2>2. Nil \in Stamps
    BY DEF Stamps, Contents
  <2>3. "open" \in UploadPlaces
    BY DEF UploadPlaces
  <2> QED BY <2>1, <2>2, <2>3, Zenon DEF UploadInit, UpRec
<1>4. ghost \in GhostRec
  BY DEF UploadInit, GhostRec
<1>5. UploadTypeOK
  BY <1>2, <1>3, <1>4 DEF UploadTypeOK, UploadInit
<1> QED BY <1>5, UploadNil DEF UploadInv, UploadInit, PublicationIsFinal, SuccessIsPublished,
           ChunksAreQueued, OverwriteIsConfirmed, OverwritesOnlyConfirmed, UploadEvents

\* Every step of the upload, the server or another client keeps the invariant.
LEMMA UploadInvStep == UploadInv /\ [UploadNext]_uploadVars => UploadInv'
<1> SUFFICES ASSUME UploadInv, [UploadNext]_uploadVars PROVE UploadInv'
  OBVIOUS
<1>1. UploadTypeOK'
  BY UploadTypeStep DEF UploadInv
<1>2. CASE UploadNext
  BY <1>1, <1>2, PublicationStep, ChunksStep, OverwriteStep DEF UploadInv
<1>3. CASE UNCHANGED uploadVars
  BY <1>1, <1>3 DEF UploadInv, uploadVars, PublicationIsFinal, SuccessIsPublished, ChunksAreQueued,
     OverwriteIsConfirmed, OverwritesOnlyConfirmed, AsQueued
<1> QED BY <1>2, <1>3

\* The upload is published at most once, and as the whole file that was queued,
\* whatever replies are lost, retried or answered.
THEOREM UploadPublishedOnce == UploadSpec => []PublishedOnceAsQueued
<1>1. UploadInv => PublishedOnceAsQueued
  BY DEF UploadInv, PublicationIsFinal, PublishedOnceAsQueued, AsQueued
<1> QED BY <1>1, UploadInvInit, UploadInvStep, PTL DEF UploadSpec

\* Somebody else's file on the server is destroyed only by an overwrite the user
\* chose, and it is the file the user was shown unless it was changed after the
\* last inspection.
THEOREM UploadOverwritesConfirmed == UploadSpec => []OverwritesOnlyConfirmed
<1>1. UploadInv => OverwritesOnlyConfirmed
  BY DEF UploadInv
<1> QED BY <1>1, UploadInvInit, UploadInvStep, PTL DEF UploadSpec

\* The upload implements AtomicFile: at the target the whole file appears in one
\* step, and Completed is reported only for a file that is there.
THEOREM UploadIsAtomic == UploadSpec => UploadAtomic!Spec
<1>1. UploadInit => UploadAtomic!Init
  BY UploadNil DEF UploadInit, UploadAtomic!Init, UploadEvents
<1>2. UploadInv /\ [UploadNext]_uploadVars => [UploadAtomic!Next]_(UploadAtomic!vars)
  <2> SUFFICES ASSUME UploadInv, UploadNext
               PROVE  [UploadAtomic!Next]_(UploadAtomic!vars)
    BY DEF uploadVars, UploadAtomic!vars
  <2> USE DEF UploadInv, UploadTypeOK
  <2>1. ASSUME ghost'.published = ghost.published, up'.event = up.event
        PROVE  UNCHANGED UploadAtomic!vars
    BY <2>1 DEF UploadAtomic!vars
  <2>2. CASE SomebodyChanges
    BY <2>1, <2>2 DEF SomebodyChanges, GhostRec
  <2>3. CASE Publish
    <3>1. up.event = Nil /\ up'.event = up.event /\ ghost.published = 0
      BY <2>3 DEF Publish, LeaveAndClean, UpRec, SuccessIsPublished, PublicationIsFinal
    <3>2. CASE ServerRenames
      <4>1. ghost'.published = 1
        BY <3>1, <3>2 DEF ServerRenames, GhostRec
      <4>2. UploadAtomic!Appear
        BY <3>1, <4>1, UploadNil DEF UploadAtomic!Appear, UploadEvents
      <4> QED BY <4>2 DEF UploadAtomic!Next
    <3> QED BY <2>1, <2>3, <3>1, <3>2 DEF Publish
  <2>4. CASE SendUploadEvent
    <3>1. ghost' = ghost /\ up.event = Nil
      BY <2>4 DEF SendUploadEvent, SuccessIsPublished
    <3>2. CASE up.err = "conflict"
      BY <2>1, <2>4, <3>1, <3>2 DEF SendUploadEvent, UpRec
    <3>3. CASE up.err # "conflict"
      <4>1. up'.event = UploadEventOf(up.err)
        BY <2>4, <3>3 DEF SendUploadEvent, UpRec
      <4>2. CASE up.err = Nil
        <5>1. up'.event = "Completed" /\ ghost.published = 1
          BY <2>4, <4>1, <4>2, UploadNil DEF UploadEventOf, SendUploadEvent, SuccessIsPublished, UploadErrors
        <5>2. UploadAtomic!Report("Completed")
          BY <3>1, <5>1 DEF UploadAtomic!Report
        <5> QED BY <5>2 DEF UploadAtomic!Next
      <4>3. CASE up.err # Nil
        <5>1. up'.event \in {"Cancelled", "Skipped", "Failed"}
          BY <4>1, <4>3 DEF UploadEventOf
        <5>2. UploadAtomic!Report("other")
          BY <3>1, <5>1, UploadNil DEF UploadAtomic!Report, UploadEvents
        <5> QED BY <5>2 DEF UploadAtomic!Next
      <4> QED BY <4>2, <4>3
    <3> QED BY <3>2, <3>3
  <2>5. CASE CancelConflict
    <3>1. ghost' = ghost /\ up.event = Nil /\ up'.event = "Cancelled"
      BY <2>5 DEF CancelConflict, SuccessIsPublished, UpRec
    <3>2. UploadAtomic!Report("other")
      BY <3>1, UploadNil DEF UploadAtomic!Report, UploadEvents
    <3> QED BY <3>2 DEF UploadAtomic!Next
  <2>6. CASE TouchLocal \/ CancelUpload \/ OpenChannel \/ ProbeCopy \/ WriteChunk
    BY <2>1, <2>6 DEF TouchLocal, CancelUpload, OpenChannel, ProbeCopy, WriteChunk, UpRec
  <2>7. CASE InspectTarget \/ CreateTemporary \/ FinishStream
    BY <2>1, <2>7 DEF InspectTarget, CreateTemporary, FinishStream, Leave, LeaveAndClean, UpRec
  <2>8. CASE ReinspectTarget \/ CleanTemporary \/ UploadFailure
    BY <2>1, <2>8 DEF ReinspectTarget, CleanTemporary, UploadFailure, Leave, LeaveAndClean, UpRec
  <2>9. CASE DecideUpload \/ DelayUpload
    BY <2>1, <2>9 DEF DecideUpload, DelayUpload, UpRec
  <2>10. ASSUME NEW c \in Choices, ResolveConflict(c)
         PROVE  UNCHANGED UploadAtomic!vars
    BY <2>1, <2>10 DEF ResolveConflict, UpRec
  <2> QED BY <2>2, <2>3, <2>4, <2>5, <2>6, <2>7, <2>8, <2>9, <2>10 DEF UploadNext, UploadStep
<1> QED BY <1>1, <1>2, UploadInvInit, UploadInvStep, PTL DEF UploadSpec, UploadAtomic!Spec
=============================================================================
