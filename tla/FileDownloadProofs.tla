------------------------- MODULE FileDownloadProofs -------------------------
(***************************************************************************)
(* Proofs about FileDownload, for files of any size, any window and queue,  *)
(* and any number of retries, pauses and modifications of the remote file.  *)
(***************************************************************************)
EXTENDS FileDownload, TLAPS

DownloadSpec == DownloadInit /\ [][DownloadNext]_downloadVars

-----------------------------------------------------------------------------
(* The invariant.                                                           *)

Metas == [size : Nat \ {0}, modified : Nat \cup {Nil}]
Reads == [off : Nat, ver : Nat \cup {Nil}]

RemoteRec == [size : Nat \ {0}, ver : Nat, stamped : BOOLEAN]
DiskRec == [final : Seq(Chunk) \cup {Nil}, part : BOOLEAN]
TaskRec == [pc : Places, retries : Nat, want : Nat, init : Metas \cup {Nil}, next : Nat,
            win : Seq(Reads), sent : Nat, cancelled : BOOLEAN, paused : BOOLEAN, pauses : Nat,
            err : Errors \cup {Nil}, event : DownloadEvents \cup {Nil}, excuse : BOOLEAN]
WriterRec == [st : WriterStates, abort : BOOLEAN, closed : BOOLEAN, queue : Seq(Chunk),
              got : Seq(Chunk), size : Nat]

DownloadTypeOK ==
  /\ remote \in RemoteRec
  /\ disk \in DiskRec
  /\ task \in TaskRec
  /\ writer \in WriterRec

\* The chunks of s follow the first k ones.
Follow(s, k) == \A i \in DOMAIN s : s[i].off = k + i

\* The file the task validated is not newer than the remote one.
Validated ==
  /\ task.init \in Metas
  /\ remote.stamped => task.init.modified \in Nat /\ task.init.modified <= remote.ver

\* The chunks of s were read from a version the file had since its validation.
Recent(s) == \A i \in DOMAIN s : s[i].ver \in task.init.modified + 1 .. remote.ver + 1

\* The chunks of s, and those of t, are of one version.
OneVersion(s, t) ==
  \E v \in 0 .. remote.ver + 1 : (\A i \in DOMAIN s : s[i].ver = v) /\ (\A i \in DOMAIN t : t[i].ver = v)

Whole(s) == /\ Len(s) = writer.size
            /\ Follow(s, 0)
            /\ remote.stamped => \A i, j \in DOMAIN s : s[i].ver = s[j].ver

Streaming == task.pc \in {"top", "paused", "fill", "verify"}

\* While the task streams, its window continues what it handed to the writer,
\* and nothing it has read is older than the file it validated.
StreamInv ==
  /\ task.pc \in {"check", "prepare"} => Validated
  /\ Streaming =>
       /\ Validated
       /\ writer.st \in {"run", "failed"} /\ ~writer.abort /\ ~writer.closed
       /\ writer.size = task.init.size
       /\ IF task.pc = "verify" THEN task.sent = writer.size ELSE task.sent < writer.size
       /\ writer.st = "run" => Len(writer.got) + Len(writer.queue) = task.sent
       /\ Follow(task.win, task.sent)
       /\ task.next = task.sent + Len(task.win)
       /\ remote.stamped =>
            /\ writer.st = "run" => Recent(writer.got) /\ Recent(writer.queue)
            /\ \A i \in DOMAIN task.win :
                 task.win[i].ver \notin {Nil, 0} =>
                   task.win[i].ver \in task.init.modified + 1 .. remote.ver + 1
  /\ writer.st = "run" /\ ~Streaming => writer.closed

\* A closed and unaborted channel holds the whole file, all of one version, or
\* too little to be published.
ChannelInv ==
  /\ writer.st # "none" => writer.size > 0
  /\ writer.st = "run" =>
       /\ Follow(writer.got, 0) /\ Follow(writer.queue, Len(writer.got))
       /\ writer.closed /\ ~writer.abort =>
            \/ Len(writer.got) + Len(writer.queue) < writer.size
            \/ remote.stamped => OneVersion(writer.got, writer.queue)
  /\ writer.st \in {"link", "sync"} => Whole(writer.got)

Published == disk.final \notin {Nil, Foreign}

\* The part file is the running writer's, a published file the last writer's.
DiskInv ==
  /\ disk.part <=> writer.st \in {"run", "link"}
  /\ writer.st = "sync" => disk.final = writer.got
  /\ Published => writer.st \in {"sync", "ok"} /\ disk.final = writer.got /\ Whole(writer.got)

Settled == writer.st \notin {"run", "link", "sync"} /\ ~Published
Kept == writer.st = "ok" /\ disk.final = writer.got /\ Published

\* What the task knows of the file when it is no longer streaming.
OutcomeInv ==
  /\ task.pc \notin {"undo", "end"} => task.event = Nil
  /\ task.pc = "undo" => task.event = "lost" /\ Kept
  /\ task.pc = "end" => task.event # Nil
  /\ task.pc = "cleanup" => task.err # Nil
  /\ task.pc \in {"open", "stat", "check", "prepare", "delay"} => Settled \/ task.excuse
  /\ task.pc \in {"close", "decide", "send"} =>
       IF task.err = Nil THEN Kept ELSE Settled \/ task.excuse
  /\ task.pc \in {"join", "cleanup"} /\ writer.st = "ok" => Kept
  /\ task.pc = "end" => IF task.event = "Completed" THEN Kept ELSE Settled \/ task.excuse

DownloadInv == DownloadTypeOK /\ StreamInv /\ ChannelInv /\ DiskInv /\ OutcomeInv

-----------------------------------------------------------------------------
(* Types.                                                                   *)

\* The sets of places, errors and events, spelled out.
LEMMA Names ==
  /\ Places = {"open", "stat", "check", "prepare", "top", "paused", "fill", "verify",
               "join", "cleanup", "close", "decide", "delay", "send", "undo", "end"}
  /\ WriterStates = {"none", "run", "link", "sync", "ok", "failed"}
  /\ Errors = {"cancelled", "recoverable", "fatal"}
  /\ DownloadEvents = {"Completed", "Cancelled", "Failed", "lost", "aborted"}
  BY DEF Places, WriterStates, Errors, DownloadEvents

\* What the server reports of a file, and the file of another program.
LEMMA MetaTypes ==
  ASSUME remote \in RemoteRec
  PROVE  /\ Meta \in Metas /\ Meta.size = remote.size
         /\ Meta.modified = IF remote.stamped THEN remote.ver ELSE Nil
         /\ Foreign \in Seq(Chunk) /\ Foreign # Nil /\ Foreign[1].off = 0
<1>1. [off |-> 0, ver |-> 0] \in Chunk
  BY DEF Chunk
<1>2. Foreign \in Seq(Chunk) /\ Foreign[1].off = 0
  BY <1>1 DEF Foreign
<1>3. Foreign # Nil
  BY <1>2, DownloadNil
<1>4. (IF remote.stamped THEN remote.ver ELSE Nil) \in Nat \cup {Nil}
  BY DEF RemoteRec
<1>5. Meta \in Metas
  BY <1>4, Zenon DEF Meta, Metas, RemoteRec
<1>6. Meta.size = remote.size /\ Meta.modified = IF remote.stamped THEN remote.ver ELSE Nil
  BY DEF Meta
<1> QED BY <1>2, <1>3, <1>5, <1>6

\* A writer that has not started.
LEMMA NoWriterType == NoWriter \in WriterRec
<1>1. <<>> \in Seq(Chunk)
  OBVIOUS
<1> QED BY <1>1, Names, Zenon DEF NoWriter, WriterRec

\* Leaving an attempt.
LEMMA GiveUpTypes ==
  ASSUME DownloadTypeOK, NEW e \in Errors
  PROVE  /\ GiveUpEarly(e) => task' \in TaskRec
         /\ GiveUpStream(e) => task' \in TaskRec /\ writer' \in WriterRec
<1>1. ASSUME GiveUpEarly(e) PROVE task' \in TaskRec
  BY <1>1, Names, Zenon DEF GiveUpEarly, DownloadTypeOK, TaskRec
<1>2. ASSUME GiveUpStream(e) PROVE task' \in TaskRec
  BY <1>2, Names, Zenon DEF GiveUpStream, DownloadTypeOK, TaskRec
<1>3. ASSUME GiveUpStream(e) PROVE writer' \in WriterRec
  BY <1>3, Zenon DEF GiveUpStream, AbortWriter, DownloadTypeOK, WriterRec
<1> QED BY <1>1, <1>2, <1>3

\* Removing the published file, or failing to.
LEMMA RemoveTypes ==
  ASSUME DownloadTypeOK, NEW t \in TaskRec, RemovePublished(t)
  PROVE  task' \in TaskRec /\ disk' \in DiskRec
<1>1. CASE disk' = [disk EXCEPT !.final = Nil] /\ task' = t
  BY <1>1, Zenon DEF DownloadTypeOK, DiskRec
<1>2. CASE UNCHANGED disk /\ task' = [t EXCEPT !.excuse = TRUE]
  BY <1>2, Zenon DEF DownloadTypeOK, TaskRec
<1> QED BY <1>1, <1>2 DEF RemovePublished

\* The steps of the outside world keep the types.
LEMMA WorldTypes ==
  ASSUME DownloadTypeOK,
         TouchRemote \/ SomebodyCreates \/ CancelDownload \/ PauseDownload \/ ResumeDownload
  PROVE  DownloadTypeOK'
<1> USE DEF DownloadTypeOK
<1>1. CASE TouchRemote
  <2>1. PICK s \in Sizes : remote' = [remote EXCEPT !.size = s, !.ver = @ + 1]
    BY <1>1 DEF TouchRemote
  <2>2. s \in Nat \ {0} /\ remote.ver + 1 \in Nat
    BY DownloadConstants DEF RemoteRec
  <2>3. remote' \in RemoteRec
    BY <2>1, <2>2, Zenon DEF RemoteRec
  <2> QED BY <1>1, <2>3 DEF TouchRemote
<1>2. CASE SomebodyCreates
  <2>1. Foreign \in Seq(Chunk)
    BY MetaTypes
  <2>2. disk' \in DiskRec
    BY <1>2, <2>1, Zenon DEF SomebodyCreates, DiskRec
  <2> QED BY <1>2, <2>2 DEF SomebodyCreates
<1>3. CASE CancelDownload
  BY <1>3, Zenon DEF CancelDownload, TaskRec
<1>4. CASE PauseDownload
  <2>1. task.pauses + 1 \in Nat
    BY DEF TaskRec
  <2> QED BY <1>4, <2>1, Zenon DEF PauseDownload, TaskRec
<1>5. CASE ResumeDownload
  BY <1>5, Zenon DEF ResumeDownload, TaskRec
<1> QED BY <1>1, <1>2, <1>3, <1>4, <1>5

\* The steps before the first byte keep the types.
LEMMA EarlyTypes ==
  ASSUME DownloadTypeOK, task.pc = "prepare" => task.init \in Metas,
         Opened \/ Inspect \/ CheckOpened \/ PrepareTarget \/ EarlyFailure
  PROVE  DownloadTypeOK'
<1> USE DEF DownloadTypeOK
<1>1. CASE Opened
  BY <1>1, Names, Zenon DEF Opened, TaskRec
<1>2. CASE Inspect
  <2>1. CASE GiveUpEarly("fatal")
    BY <1>2, <2>1, GiveUpTypes, Names DEF Inspect
  <2>2. CASE task' = [task EXCEPT !.pc = "check", !.init = Meta]
    <3>1. Meta \in Metas
      BY MetaTypes
    <3> QED BY <1>2, <2>2, <3>1, Names, Zenon DEF Inspect, TaskRec
  <2> QED BY <1>2, <2>1, <2>2 DEF Inspect
<1>3. CASE CheckOpened
  <2>1. CASE GiveUpEarly("fatal")
    BY <1>3, <2>1, GiveUpTypes, Names DEF CheckOpened
  <2>2. CASE task' = [task EXCEPT !.pc = "prepare"]
    BY <1>3, <2>2, Names, Zenon DEF CheckOpened, TaskRec
  <2> QED BY <1>3, <2>1, <2>2 DEF CheckOpened
<1>4. CASE PrepareTarget
  <2>1. CASE GiveUpEarly("fatal") /\ UNCHANGED <<disk, writer>>
    BY <1>4, <2>1, GiveUpTypes, Names DEF PrepareTarget
  <2>2. CASE /\ disk' = [disk EXCEPT !.part = TRUE]
             /\ writer' = [NoWriter EXCEPT !.st = "run", !.size = task.init.size]
             /\ task' = [task EXCEPT !.pc = "top", !.next = 0, !.sent = 0, !.win = <<>>]
    <3>1. disk' \in DiskRec
      BY <2>2, Zenon DEF DiskRec
    <3>2. task.init.size \in Nat
      BY <1>4 DEF PrepareTarget, Metas
    <3>3. writer' \in WriterRec
      BY <2>2, <3>2, NoWriterType, Names, Zenon DEF WriterRec
    <3>4. <<>> \in Seq(Reads) /\ 0 \in Nat
      OBVIOUS
    <3>5. task' \in TaskRec
      BY <2>2, <3>4, Names, Zenon DEF TaskRec
    <3> QED BY <1>4, <3>1, <3>3, <3>5 DEF PrepareTarget
  <2> QED BY <1>4, <2>1, <2>2 DEF PrepareTarget
<1>5. CASE EarlyFailure
  <2>1. PICK e \in {"cancelled", "recoverable", "fatal"} : GiveUpEarly(e)
    BY <1>5 DEF EarlyFailure
  <2> QED BY <1>5, <2>1, GiveUpTypes, Names DEF EarlyFailure
<1> QED BY <1>1, <1>2, <1>3, <1>4, <1>5

\* The steps of the stream keep the types.
LEMMA StreamTypes ==
  ASSUME DownloadTypeOK, Streaming => task.init \in Metas,
         \/ EnterPause \/ LeavePause \/ PassTop \/ RequestChunk \/ DeliverChunk
         \/ VerifyRemote \/ StreamFailure \/ \E i \in 1..Window : ServerReads(i)
  PROVE  DownloadTypeOK'
<1> USE DEF DownloadTypeOK
<1>1. CASE EnterPause
  BY <1>1, Names, Zenon DEF EnterPause, TaskRec
<1>2. CASE LeavePause
  <2>1. CASE GiveUpStream("cancelled")
    BY <1>2, <2>1, GiveUpTypes, Names DEF LeavePause
  <2>2. CASE task' = [task EXCEPT !.pc = "fill"] /\ UNCHANGED writer
    BY <1>2, <2>2, Names, Zenon DEF LeavePause, TaskRec
  <2> QED BY <1>2, <2>1, <2>2 DEF LeavePause
<1>3. CASE PassTop
  BY <1>3, Names, ZenonT(40) DEF PassTop, TaskRec
<1>4. CASE RequestChunk
  <2>1. task.next + 1 \in Nat /\ task.win \in Seq(Reads)
    BY DEF TaskRec
  <2>2. [off |-> task.next + 1, ver |-> Nil] \in Reads
    BY <2>1 DEF Reads
  <2>3. Append(task.win, [off |-> task.next + 1, ver |-> Nil]) \in Seq(Reads)
    BY <2>1, <2>2
  <2> QED BY <1>4, <2>1, <2>3, Zenon DEF RequestChunk, TaskRec
<1>5. CASE DeliverChunk
  <2>1. CASE GiveUpStream("fatal")
    BY <1>5, <2>1, GiveUpTypes, Names DEF DeliverChunk
  <2>2. CASE /\ NextReply.ver # 0
             /\ writer' = [writer EXCEPT !.queue = Append(@, NextReply)]
             /\ task' = [task EXCEPT !.win = DropReply, !.sent = @ + 1,
                             !.pc = IF task.sent + 1 = task.init.size THEN "verify" ELSE "top"]
    <3>0. task.win \in Seq(Reads) /\ task.win # <<>> /\ NextReply.ver # Nil
      BY <1>5 DEF DeliverChunk, TaskRec
    <3>1. NextReply \in Reads /\ DropReply \in Seq(Reads)
      BY <3>0 DEF NextReply, DropReply
    <3>2. NextReply \in Chunk
      BY <3>0, <3>1 DEF Reads, Chunk
    <3>3. Append(writer.queue, NextReply) \in Seq(Chunk)
      BY <3>2 DEF WriterRec
    <3>4. writer' \in WriterRec
      BY <2>2, <3>3, Zenon DEF WriterRec
    <3>5. PICK pc \in {"verify", "top"} :
            task' = [task EXCEPT !.win = DropReply, !.sent = @ + 1, !.pc = pc]
      BY <2>2
    <3>6. task.sent + 1 \in Nat
      BY DEF TaskRec
    <3>7. task' \in TaskRec
      BY <3>1, <3>5, <3>6, Names, ZenonT(40) DEF TaskRec
    <3> QED BY <1>5, <3>4, <3>7 DEF DeliverChunk
  <2> QED BY <1>5, <2>1, <2>2 DEF DeliverChunk
<1>6. CASE VerifyRemote
  <2>1. CASE GiveUpStream("fatal")
    BY <1>6, <2>1, GiveUpTypes, Names DEF VerifyRemote
  <2>2. CASE task' = [task EXCEPT !.pc = "join"] /\ writer' = CloseChannel(writer)
    <3>1. task' \in TaskRec
      BY <2>2, Names, Zenon DEF TaskRec
    <3>2. writer' \in WriterRec
      BY <2>2, Zenon DEF CloseChannel, WriterRec
    <3> QED BY <1>6, <3>1, <3>2 DEF VerifyRemote
  <2> QED BY <1>6, <2>1, <2>2 DEF VerifyRemote
<1>7. CASE StreamFailure
  <2>1. PICK e \in {"cancelled", "recoverable", "fatal"} : GiveUpStream(e)
    BY <1>7 DEF StreamFailure
  <2> QED BY <1>7, <2>1, GiveUpTypes, Names DEF StreamFailure
<1>8. ASSUME NEW i \in 1..Window, ServerReads(i) PROVE DownloadTypeOK'
  <2>1. PICK v \in Nat : task' = [task EXCEPT !.win[i].ver = v]
    <3>1. remote.ver + 1 \in Nat
      BY DEF RemoteRec
    <3>2. (IF remote.size >= task.win[i].off THEN remote.ver + 1 ELSE 0) \in Nat
      BY <3>1
    <3> QED BY <1>8, <3>2 DEF ServerReads
  <2>2. i \in DOMAIN task.win /\ task.win \in Seq(Reads)
    BY <1>8 DEF ServerReads, TaskRec
  <2>3. [task.win[i] EXCEPT !.ver = v] \in Reads
    <3>1. task.win[i] \in Reads
      BY <2>2
    <3> QED BY <3>1 DEF Reads
  <2>4. [task.win EXCEPT ![i].ver = v] \in Seq(Reads)
    <3>1. [task.win EXCEPT ![i].ver = v] = [task.win EXCEPT ![i] = [task.win[i] EXCEPT !.ver = v]]
      BY <2>2
    <3> QED BY <2>2, <2>3, <3>1
  <2>5. task' = [task EXCEPT !.win = [task.win EXCEPT ![i].ver = v]]
    BY <2>1 DEF TaskRec
  <2>6. task' \in TaskRec
    BY <2>4, <2>5, Zenon DEF TaskRec
  <2> QED BY <1>8, <2>6 DEF ServerReads
<1> QED BY <1>1, <1>2, <1>3, <1>4, <1>5, <1>6, <1>7, <1>8

\* The writer stops and drops its part file.
LEMMA StopTypes ==
  ASSUME DownloadTypeOK, WriterStops
  PROVE  writer' \in WriterRec /\ disk' \in DiskRec
<1>1. <<>> \in Seq(Chunk)
  OBVIOUS
<1>2. writer' \in WriterRec
  BY <1>1, Names, Zenon DEF WriterStops, DownloadTypeOK, WriterRec
<1>3. disk' \in DiskRec
  BY Zenon DEF WriterStops, DownloadTypeOK, DiskRec
<1> QED BY <1>2, <1>3

\* The steps of the writer keep the types.
LEMMA WriterTypes ==
  ASSUME DownloadTypeOK, WriterStep
  PROVE  DownloadTypeOK'
<1> USE DEF DownloadTypeOK
<1>0. writer.got \in Seq(Chunk) /\ writer.queue \in Seq(Chunk)
  BY DEF WriterRec
<1>1. CASE WriterTakes
  <2>1. CASE WriterStops
    BY <1>1, <2>1, StopTypes DEF WriterTakes
  <2>2. CASE /\ writer' = [writer EXCEPT !.queue = Tail(@), !.got = Append(@, Head(writer.queue))]
             /\ UNCHANGED disk
    <3>1. Tail(writer.queue) \in Seq(Chunk) /\ Append(writer.got, Head(writer.queue)) \in Seq(Chunk)
      BY <1>0, <1>1 DEF WriterTakes
    <3>2. writer' \in WriterRec
      BY <2>2, <3>1, Zenon DEF WriterRec
    <3> QED BY <1>1, <2>2, <3>2 DEF WriterTakes
  <2> QED BY <1>1, <2>1, <2>2 DEF WriterTakes
<1>2. CASE WriterFinishes
  <2>1. CASE WriterStops
    BY <1>2, <2>1, StopTypes DEF WriterFinishes
  <2>2. CASE writer' = [writer EXCEPT !.st = "link"] /\ UNCHANGED disk
    BY <1>2, <2>2, Names, Zenon DEF WriterFinishes, WriterRec
  <2> QED BY <1>2, <2>1, <2>2 DEF WriterFinishes
<1>3. CASE WriterLinks
  <2>1. CASE WriterStops
    BY <1>3, <2>1, StopTypes DEF WriterLinks
  <2>2. CASE /\ disk' = [final |-> writer.got, part |-> FALSE]
             /\ writer' = [writer EXCEPT !.st = "sync"]
    <3>1. writer' \in WriterRec
      BY <2>2, Names, Zenon DEF WriterRec
    <3>2. disk' \in DiskRec
      BY <1>0, <2>2, Zenon DEF DiskRec
    <3> QED BY <1>3, <3>1, <3>2 DEF WriterLinks
  <2> QED BY <1>3, <2>1, <2>2 DEF WriterLinks, PublishNoOverwrite
<1>4. CASE WriterSyncs
  <2>1. CASE writer' = [writer EXCEPT !.st = "ok"] /\ UNCHANGED disk
    BY <1>4, <2>1, Names, Zenon DEF WriterSyncs, WriterRec
  <2>2. CASE writer' = [writer EXCEPT !.st = "failed"] /\ disk' = [disk EXCEPT !.final = Nil]
    <3>1. writer' \in WriterRec
      BY <2>2, Names, Zenon DEF WriterRec
    <3>2. disk' \in DiskRec
      BY <2>2, Zenon DEF DiskRec
    <3> QED BY <1>4, <3>1, <3>2 DEF WriterSyncs
  <2> QED BY <1>4, <2>1, <2>2 DEF WriterSyncs
<1>5. CASE WriterFails
  BY <1>5, StopTypes DEF WriterFails
<1> QED BY <1>1, <1>2, <1>3, <1>4, <1>5 DEF WriterStep

\* The steps that end an attempt and the transfer keep the types.
LEMMA EndTypes ==
  ASSUME DownloadTypeOK, task.pc = "cleanup" => task.err # Nil,
         \/ JoinWriter \/ CleanUp \/ CloseHandle \/ Decide \/ RetryDelay
         \/ SendTerminal \/ UndoUndelivered \/ AbortTask
  PROVE  DownloadTypeOK'
<1> USE DEF DownloadTypeOK
<1>0. ASSUME NEW p \in Places, NEW e \in Errors \cup {Nil} 
      PROVE  [task EXCEPT !.pc = p, !.err = e] \in TaskRec
  BY <1>0, Zenon DEF TaskRec
<1>1. CASE JoinWriter
  <2>1. PICK p \in {"close", "cleanup"}, e \in {Nil, "fatal", "cancelled"} :
          task' = [task EXCEPT !.pc = p, !.err = e]
    BY <1>1, Zenon DEF JoinWriter
  <2>2. p \in Places /\ e \in Errors \cup {Nil}
    BY Names
  <2> QED BY <1>0, <1>1, <2>1, <2>2 DEF JoinWriter
<1>2. CASE CleanUp
  <2>1. CASE RemovePublished([task EXCEPT !.pc = "close"])
    <3>1. [task EXCEPT !.pc = "close"] \in TaskRec
      BY Names, Zenon DEF TaskRec
    <3> QED BY <1>2, <2>1, <3>1, RemoveTypes DEF CleanUp
  <2>2. ASSUME NEW e \in {"cancelled", task.err, "fatal"},
               task' = [task EXCEPT !.pc = "close", !.err = e], UNCHANGED disk
        PROVE  DownloadTypeOK'
    <3>1. e \in Errors \cup {Nil} /\ "close" \in Places
      BY Names DEF TaskRec
    <3> QED BY <1>0, <1>2, <2>2, <3>1 DEF CleanUp
  <2>3. CASE task' = [task EXCEPT !.pc = "close", !.excuse = TRUE] /\ UNCHANGED disk
    <3>1. task' \in TaskRec
      BY <2>3, Names, Zenon DEF TaskRec
    <3> QED BY <1>2, <2>3, <3>1 DEF CleanUp
  <2> QED BY <1>2, <2>1, <2>2, <2>3 DEF CleanUp
<1>3. CASE CloseHandle
  BY <1>3, Names, Zenon DEF CloseHandle, TaskRec
<1>4. CASE Decide
  <2>1. CASE task' = [task EXCEPT !.pc = "delay", !.retries = @ + 1, !.err = Nil] /\ UNCHANGED disk
    <3>1. task.retries + 1 \in Nat
      BY DEF TaskRec
    <3>2. task' \in TaskRec
      BY <2>1, <3>1, Names, Zenon DEF TaskRec
    <3> QED BY <1>4, <2>1, <3>2 DEF Decide
  <2>2. CASE /\ task' = [task EXCEPT !.pc = "send", !.err = IF @ = "recoverable" THEN "fatal" ELSE @]
             /\ UNCHANGED disk
    <3> DEFINE e == IF task.err = "recoverable" THEN "fatal" ELSE task.err
    <3>1. task' = [task EXCEPT !.pc = "send", !.err = e]
      BY <2>2, Zenon
    <3>2. e \in Errors \cup {Nil} /\ "send" \in Places
      BY Names DEF TaskRec
    <3> HIDE DEF e
    <3>3. task' \in TaskRec
      BY <1>0, <3>1, <3>2, Zenon
    <3> QED BY <1>4, <2>2, <3>3 DEF Decide
  <2>3. CASE RemovePublished([task EXCEPT !.pc = "send", !.err = "cancelled"])
    <3>1. [task EXCEPT !.pc = "send", !.err = "cancelled"] \in TaskRec
      BY <1>0, Names
    <3> QED BY <1>4, <2>3, <3>1, RemoveTypes DEF Decide
  <2> QED BY <1>4, <2>1, <2>2, <2>3 DEF Decide
<1>5. CASE RetryDelay
  <2>1. PICK p \in {"send", "open"}, e \in {"cancelled", Nil} : task' = [task EXCEPT !.pc = p, !.err = e]
    BY <1>5, Zenon DEF RetryDelay
  <2>2. p \in Places /\ e \in Errors \cup {Nil}
    BY Names
  <2> QED BY ZenonT(40), <1>0, <1>5, <2>1, <2>2 DEF RetryDelay
<1>6. CASE SendTerminal
  <2>1. PICK p \in {"undo", "end"}, v \in DownloadEvents : task' = [task EXCEPT !.pc = p, !.event = v]
    <3>1. EventOf(task.err) \in DownloadEvents /\ "lost" \in DownloadEvents
      BY Names DEF EventOf
    <3> QED BY <1>6, <3>1, Zenon DEF SendTerminal
  <2>2. p \in Places
    BY Names
  <2>3. task' \in TaskRec
    BY <2>1, <2>2, Zenon DEF TaskRec
  <2> QED BY <1>6, <2>3 DEF SendTerminal
<1>7. CASE UndoUndelivered
  <2>1. [task EXCEPT !.pc = "end"] \in TaskRec
    BY Names, Zenon DEF TaskRec
  <2> QED BY <1>7, <2>1, RemoveTypes DEF UndoUndelivered
<1>8. CASE AbortTask
  <2>1. task' \in TaskRec
    BY <1>8, Names, ZenonT(40) DEF AbortTask, TaskRec
  <2>2. CloseChannel(writer) \in WriterRec
    BY Zenon DEF CloseChannel, WriterRec
  <2> QED BY <1>8, <2>1, <2>2 DEF AbortTask
<1> QED BY <1>1, <1>2, <1>3, <1>4, <1>5, <1>6, <1>7, <1>8

-----------------------------------------------------------------------------
(* The stream and the channel.                                              *)

\* What the channel and the disk hold is not changed by a step of the task alone.
LEMMA TaskAlone ==
  ASSUME ChannelInv, DiskInv, UNCHANGED <<remote, writer>>
  PROVE  ChannelInv' /\ (UNCHANGED disk => DiskInv')
<1>1. writer' = writer /\ remote' = remote
  OBVIOUS
<1>2. ASSUME NEW s, NEW t PROVE (Whole(s)' <=> Whole(s)) /\ (OneVersion(s, t)' <=> OneVersion(s, t))
  BY <1>1, Zenon DEF Whole, OneVersion
<1> QED BY <1>1, <1>2, Zenon DEF ChannelInv, DiskInv, Published

\* A step that leaves the file, the window and the writer alone, and does not
\* enter the stream, keeps its invariant.
LEMMA StreamQuiet ==
  ASSUME StreamInv, UNCHANGED <<remote, writer>>,
         task'.init = task.init, task'.next = task.next, task'.win = task.win, task'.sent = task.sent,
         Streaming' => Streaming,
         Streaming' => (task'.pc = "verify" <=> task.pc = "verify"),
         Streaming /\ writer.st = "run" => Streaming',
         task'.pc \in {"check", "prepare"} => task.pc \in {"check", "prepare"}
  PROVE  StreamInv'
<1>1. (task'.pc \in {"check", "prepare"} => Validated') /\ (writer'.st = "run" /\ ~Streaming' => writer'.closed)
  BY DEF StreamInv, Validated
<1>2. CASE Streaming'
  <2>1. /\ Validated
        /\ writer.st \in {"run", "failed"} /\ ~writer.abort /\ ~writer.closed
        /\ writer.size = task.init.size
        /\ IF task.pc = "verify" THEN task.sent = writer.size ELSE task.sent < writer.size
        /\ writer.st = "run" => Len(writer.got) + Len(writer.queue) = task.sent
        /\ Follow(task.win, task.sent)
        /\ task.next = task.sent + Len(task.win)
        /\ remote.stamped =>
            /\ writer.st = "run" => Recent(writer.got) /\ Recent(writer.queue)
            /\ \A i \in DOMAIN task.win :
                 task.win[i].ver \notin {Nil, 0} =>
                   task.win[i].ver \in task.init.modified + 1 .. remote.ver + 1
    BY <1>2 DEF StreamInv
  <2> QED BY <1>1, <1>2, <2>1 DEF StreamInv, Validated, Follow, Recent
<1> QED BY <1>1, <1>2 DEF StreamInv

\* Ending the stream with the writer told to abort: nothing is published.
LEMMA GiveUpPreserves ==
  ASSUME DownloadInv, Streaming, NEW e \in Errors, GiveUpStream(e), UNCHANGED <<remote, disk>>
  PROVE  StreamInv' /\ ChannelInv' /\ DiskInv' /\ OutcomeInv'
<1>1. /\ task'.pc = "cleanup" /\ task'.err = e /\ task'.event = task.event
      /\ writer'.st = writer.st /\ writer'.abort /\ writer'.closed /\ writer'.queue = writer.queue
      /\ writer'.got = writer.got /\ writer'.size = writer.size
  BY DEF GiveUpStream, AbortWriter, DownloadInv, DownloadTypeOK, TaskRec, WriterRec
<1>2. writer.st \in {"run", "failed"} /\ task.event = Nil /\ e # Nil
  BY DownloadNil DEF DownloadInv, StreamInv, OutcomeInv, Streaming
<1>3. StreamInv'
  BY <1>1 DEF StreamInv, Streaming
<1>4. ChannelInv'
  BY <1>1, <1>2 DEF DownloadInv, ChannelInv, Follow
<1>5. DiskInv'
  BY <1>1, <1>2 DEF DownloadInv, DiskInv, Published
<1>6. OutcomeInv'
  BY <1>1, <1>2 DEF OutcomeInv
<1> QED BY <1>3, <1>4, <1>5, <1>6

\* What other programs and the user do keeps the invariant.
LEMMA WorldPreserves ==
  ASSUME DownloadInv,
         TouchRemote \/ SomebodyCreates \/ CancelDownload \/ PauseDownload \/ ResumeDownload
  PROVE  DownloadInv'
<1>0. DownloadTypeOK'
  BY WorldTypes DEF DownloadInv
<1> SUFFICES StreamInv' /\ ChannelInv' /\ DiskInv' /\ OutcomeInv'
  BY <1>0 DEF DownloadInv
<1> USE DEF DownloadInv
<1>1. CASE TouchRemote
  <2>1. /\ remote'.ver = remote.ver + 1 /\ remote'.stamped = remote.stamped /\ remote.ver \in Nat
        /\ disk' = disk /\ task' = task /\ writer' = writer
    BY <1>1 DEF TouchRemote, DownloadTypeOK, RemoteRec
  <2>2. Validated => Validated'
    BY <2>1 DEF Validated, Metas
  <2>3. ASSUME Validated, remote.stamped, NEW v \in task.init.modified + 1 .. remote.ver + 1
        PROVE  v \in task.init.modified + 1 .. remote'.ver + 1
    BY <2>1, <2>3 DEF Validated
  <2>4. ASSUME Streaming PROVE StreamInv'
    <3>1. Validated /\ Validated' /\ Streaming'
      BY <2>1, <2>2, <2>4 DEF StreamInv, Streaming
    <3>2. ASSUME remote.stamped, NEW s, Recent(s) PROVE Recent(s)'
      BY <2>1, <2>3, <3>1, <3>2 DEF Recent
    <3>3. remote.stamped => /\ writer.st = "run" => Recent(writer.got)' /\ Recent(writer.queue)'
                            /\ \A i \in DOMAIN task.win :
                                 task.win[i].ver \notin {Nil, 0} =>
                                   task.win[i].ver \in task.init.modified + 1 .. remote'.ver + 1
      BY <2>1, <2>3, <2>4, <3>1, <3>2 DEF StreamInv
    <3> QED BY <2>1, <2>4, <3>1, <3>3 DEF StreamInv, Follow
  <2>5. ASSUME ~Streaming PROVE StreamInv'
    BY <2>1, <2>2, <2>5 DEF StreamInv, Streaming
  <2>6. ASSUME NEW s, NEW t, OneVersion(s, t) PROVE OneVersion(s, t)'
    BY <2>1, <2>6 DEF OneVersion
  <2>7. ASSUME NEW s PROVE Whole(s)' <=> Whole(s)
    BY <2>1, Zenon DEF Whole
  <2>8. ChannelInv'
    BY <2>1, <2>6, <2>7, Zenon DEF ChannelInv
  <2>9. DiskInv'
    BY <2>1, <2>7, Zenon DEF DiskInv, Published
  <2>10. OutcomeInv'
    BY <2>1, Zenon DEF OutcomeInv, Kept, Settled, Published
  <2> QED BY <2>4, <2>5, <2>8, <2>9, <2>10
<1>2. CASE SomebodyCreates
  <2>1. /\ disk.final = Nil /\ disk'.final = Foreign /\ disk'.part = disk.part
        /\ remote' = remote /\ task' = task /\ writer' = writer
    BY <1>2 DEF SomebodyCreates, DownloadTypeOK, DiskRec
  <2>2. ~Published /\ ~Published' /\ writer.st # "sync"
    <3>1. writer.got # Nil
      BY DownloadNil DEF DownloadTypeOK, WriterRec
    <3> QED BY <2>1, <3>1 DEF Published, DiskInv
  <2>3. StreamInv'
    BY <2>1, StreamQuiet DEF Streaming
  <2>4. ChannelInv'
    <3>1. ASSUME NEW s, NEW t PROVE (Whole(s)' <=> Whole(s)) /\ (OneVersion(s, t)' <=> OneVersion(s, t))
      BY <2>1, Zenon DEF Whole, OneVersion
    <3> QED BY <2>1, <3>1, Zenon DEF ChannelInv
  <2>5. DiskInv'
    BY <2>1, <2>2 DEF DiskInv
  <2>6. OutcomeInv'
    BY <2>1, <2>2, Zenon DEF OutcomeInv, Kept, Settled
  <2> QED BY <2>3, <2>4, <2>5, <2>6
<1>3. CASE CancelDownload \/ PauseDownload \/ ResumeDownload
  <2>1. /\ remote' = remote /\ disk' = disk /\ writer' = writer
        /\ task'.pc = task.pc /\ task'.init = task.init /\ task'.next = task.next
        /\ task'.win = task.win /\ task'.sent = task.sent /\ task'.err = task.err
        /\ task'.event = task.event /\ task'.excuse = task.excuse
    BY <1>3 DEF CancelDownload, PauseDownload, ResumeDownload, DownloadTypeOK, TaskRec
  <2>2. StreamInv'
    BY <2>1, StreamQuiet DEF Streaming
  <2>3. OutcomeInv'
    BY <2>1, Zenon DEF OutcomeInv, Kept, Settled, Published
  <2> QED BY <2>1, <2>2, <2>3, TaskAlone
<1> QED BY <1>1, <1>2, <1>3

\* The steps before the first byte keep the invariant.
LEMMA EarlyPreserves ==
  ASSUME DownloadInv, Opened \/ Inspect \/ CheckOpened \/ PrepareTarget \/ EarlyFailure
  PROVE  DownloadInv'
<1> USE DEF DownloadInv
<1>0. DownloadTypeOK'
  BY EarlyTypes DEF StreamInv, Validated
<1> SUFFICES StreamInv' /\ ChannelInv' /\ DiskInv' /\ OutcomeInv'
  BY <1>0
<1>1. /\ ~Streaming /\ task.pc \in {"open", "stat", "check", "prepare"} /\ task.event = Nil
      /\ Settled \/ task.excuse
  <2>1. task.pc \in {"open", "stat", "check", "prepare"}
    BY DEF Opened, Inspect, CheckOpened, PrepareTarget, EarlyFailure
  <2> QED BY <2>1 DEF Streaming, OutcomeInv
\* A step of the task alone that does not touch the window.
<1>2. ASSUME UNCHANGED <<remote, disk, writer>>,
             task'.init = task.init, task'.next = task.next, task'.win = task.win,
             task'.sent = task.sent, task'.event = task.event, task'.excuse = task.excuse,
             \/ task'.pc = "stat"
             \/ task'.pc = "prepare" /\ task.pc = "check"
             \/ task'.pc = "decide" /\ task'.err \in Errors
      PROVE  StreamInv' /\ ChannelInv' /\ DiskInv' /\ OutcomeInv'
  <2>1. StreamInv'
    BY <1>1, <1>2, StreamQuiet DEF Streaming
  <2>2. Settled' <=> Settled
    BY <1>2 DEF Settled, Published
  <2>3. OutcomeInv'
    BY <1>1, <1>2, <2>2, DownloadNil DEF OutcomeInv
  <2> QED BY <1>2, <2>1, <2>3, TaskAlone
<1>3. ASSUME NEW e \in Errors, GiveUpEarly(e), UNCHANGED <<remote, disk, writer>>
      PROVE  StreamInv' /\ ChannelInv' /\ DiskInv' /\ OutcomeInv'
  BY <1>2, <1>3 DEF GiveUpEarly, DownloadTypeOK, TaskRec
<1>4. CASE Opened
  BY <1>2, <1>4 DEF Opened, DownloadTypeOK, TaskRec
<1>5. CASE Inspect
  <2>1. CASE GiveUpEarly("fatal")
    BY <1>3, <1>5, <2>1, Names DEF Inspect
  <2>2. CASE task' = [task EXCEPT !.pc = "check", !.init = Meta]
    <3>1. /\ task'.pc = "check" /\ task'.init = Meta /\ task'.event = task.event
          /\ task'.excuse = task.excuse /\ remote' = remote /\ disk' = disk /\ writer' = writer
      BY <1>5, <2>2 DEF Inspect, DownloadTypeOK, TaskRec
    <3>2. Validated'
      BY <3>1, MetaTypes DEF Validated, DownloadTypeOK, RemoteRec
    <3>3. StreamInv'
      BY <1>1, <3>1, <3>2 DEF StreamInv, Streaming
    <3>4. OutcomeInv'
      BY <1>1, <3>1 DEF OutcomeInv, Settled, Published
    <3> QED BY <3>1, <3>3, <3>4, TaskAlone
  <2> QED BY <1>5, <2>1, <2>2 DEF Inspect
<1>6. CASE CheckOpened
  <2>1. CASE GiveUpEarly("fatal")
    BY <1>3, <1>6, <2>1, Names DEF CheckOpened
  <2>2. CASE task' = [task EXCEPT !.pc = "prepare"]
    BY <1>2, <1>6, <2>2 DEF CheckOpened, DownloadTypeOK, TaskRec
  <2> QED BY <1>6, <2>1, <2>2 DEF CheckOpened
<1>7. CASE PrepareTarget
  <2>1. CASE GiveUpEarly("fatal") /\ UNCHANGED <<disk, writer>>
    BY <1>3, <1>7, <2>1, Names DEF PrepareTarget
  <2>2. CASE /\ disk.final = Nil /\ ~disk.part
             /\ disk' = [disk EXCEPT !.part = TRUE]
             /\ writer' = [NoWriter EXCEPT !.st = "run", !.size = task.init.size]
             /\ task' = [task EXCEPT !.pc = "top", !.next = 0, !.sent = 0, !.win = <<>>]
    <3>1. /\ task'.pc = "top" /\ task'.next = 0 /\ task'.sent = 0 /\ task'.win = <<>>
          /\ task'.init = task.init /\ task'.event = task.event
      BY <2>2 DEF DownloadTypeOK, TaskRec
    <3>2. /\ writer'.st = "run" /\ writer'.size = task.init.size /\ ~writer'.abort /\ ~writer'.closed
          /\ writer'.got = <<>> /\ writer'.queue = <<>>
      BY <2>2 DEF NoWriter
    <3>3. disk'.part /\ disk'.final = Nil /\ remote' = remote
      BY <1>7, <2>2 DEF PrepareTarget, DownloadTypeOK, DiskRec
    <3>4. Validated' /\ task.init.size > 0
      BY <1>7, <3>1, <3>3 DEF PrepareTarget, StreamInv, Validated, Metas
    <3>5. StreamInv'
      BY <3>1, <3>2, <3>4 DEF StreamInv, Streaming, Follow, Recent
    <3>6. ChannelInv'
      BY <3>2, <3>4 DEF ChannelInv, Follow
    <3>7. DiskInv'
      BY <3>2, <3>3 DEF DiskInv, Published
    <3>8. OutcomeInv'
      BY <1>1, <3>1 DEF OutcomeInv
    <3> QED BY <3>5, <3>6, <3>7, <3>8
  <2> QED BY <1>7, <2>1, <2>2 DEF PrepareTarget
<1>8. CASE EarlyFailure
  <2>1. PICK e \in {"cancelled", "recoverable", "fatal"} : GiveUpEarly(e)
    BY <1>8 DEF EarlyFailure
  <2> QED BY <1>3, <1>8, <2>1, Names DEF EarlyFailure
<1> QED BY <1>4, <1>5, <1>6, <1>7, <1>8

\* A requested chunk continues the window.
LEMMA RequestPreserves ==
  ASSUME DownloadInv, RequestChunk
  PROVE  DownloadInv'
<1> USE DEF DownloadInv
<1> DEFINE c == [off |-> task.next + 1, ver |-> Nil]
<1>0. DownloadTypeOK'
  BY StreamTypes DEF StreamInv, Validated
<1>1. /\ task'.win = Append(task.win, c) /\ task'.next = task.next + 1 /\ task'.pc = "fill"
      /\ task'.sent = task.sent /\ task'.init = task.init /\ task'.event = task.event
      /\ task.pc = "fill" /\ remote' = remote /\ disk' = disk /\ writer' = writer
      /\ c.off = task.next + 1 /\ c.ver = Nil
  BY DEF RequestChunk, DownloadTypeOK, TaskRec
<1>2. task.win \in Seq(Reads) /\ task.sent \in Nat /\ Streaming /\ Streaming'
  BY <1>1 DEF DownloadTypeOK, TaskRec, Streaming
<1> HIDE DEF c
<1>3. /\ Len(task'.win) = Len(task.win) + 1
      /\ DOMAIN task'.win = 1 .. Len(task.win) + 1 /\ DOMAIN task.win = 1 .. Len(task.win)
      /\ \A i \in DOMAIN task.win : task'.win[i] = task.win[i]
      /\ task'.win[Len(task.win) + 1] = c
  BY <1>1, <1>2
<1>4. Follow(task'.win, task'.sent)
  <2>1. Follow(task.win, task.sent) /\ task.next = task.sent + Len(task.win)
    BY <1>2 DEF StreamInv
  <2>2. ASSUME NEW i \in DOMAIN task'.win PROVE task'.win[i].off = task'.sent + i
    <3>1. CASE i \in DOMAIN task.win
      BY <1>1, <1>3, <2>1, <3>1 DEF Follow
    <3>2. CASE i = Len(task.win) + 1
      BY <1>1, <1>2, <1>3, <2>1, <3>2
    <3> QED BY <1>2, <1>3, <2>2, <3>1, <3>2
  <2> QED BY <2>2 DEF Follow
<1>5. ASSUME remote.stamped, NEW i \in DOMAIN task'.win, task'.win[i].ver \notin {Nil, 0}
      PROVE  task'.win[i].ver \in task.init.modified + 1 .. remote.ver + 1
  <2>1. i \in DOMAIN task.win /\ task'.win[i] = task.win[i]
    BY <1>1, <1>2, <1>3, <1>5
  <2> QED BY <1>2, <1>5, <2>1 DEF StreamInv
<1>6. Validated' /\ (\A s : Recent(s)' <=> Recent(s))
  BY <1>1, <1>2 DEF Validated, Recent, StreamInv
<1>7. StreamInv'
  <2>1. /\ writer.st \in {"run", "failed"} /\ ~writer.abort /\ ~writer.closed
        /\ writer.size = task.init.size /\ task.sent < writer.size
        /\ writer.st = "run" => Len(writer.got) + Len(writer.queue) = task.sent
        /\ task.next = task.sent + Len(task.win)
        /\ remote.stamped => (writer.st = "run" => Recent(writer.got) /\ Recent(writer.queue))
    BY <1>1, <1>2 DEF StreamInv
  <2>2. task'.next = task'.sent + Len(task'.win)
    BY <1>1, <1>2, <1>3, <2>1
  <2>3. remote.stamped => (writer.st = "run" => Recent(writer.got)' /\ Recent(writer.queue)')
    BY <1>1, <1>6, <2>1
  <2> QED BY <1>1, <1>2, <1>4, <1>5, <1>6, <2>1, <2>2, <2>3 DEF StreamInv
<1>8. OutcomeInv'
  BY <1>1 DEF OutcomeInv
<1> QED BY <1>0, <1>1, <1>7, <1>8, TaskAlone

\* An answer changes the version of one chunk of the window, to the current one.
LEMMA AnswerPreserves ==
  ASSUME DownloadInv, NEW i \in 1..Window, ServerReads(i)
  PROVE  DownloadInv'
<1> USE DEF DownloadInv
<1>0. DownloadTypeOK'
  BY StreamTypes DEF StreamInv, Validated
<1>1. PICK v \in {remote.ver + 1, 0} : task' = [task EXCEPT !.win[i].ver = v]
  BY Zenon DEF ServerReads
<1>2. /\ i \in DOMAIN task.win /\ task.win \in Seq(Reads) /\ remote.ver \in Nat
      /\ remote' = remote /\ disk' = disk /\ writer' = writer
  BY DEF ServerReads, DownloadTypeOK, TaskRec, RemoteRec
<1>3. /\ task'.win = [task.win EXCEPT ![i].ver = v]
      /\ task'.pc = task.pc /\ task'.next = task.next /\ task'.sent = task.sent
      /\ task'.init = task.init /\ task'.event = task.event /\ task'.err = task.err
      /\ task'.excuse = task.excuse
  BY <1>1 DEF DownloadTypeOK, TaskRec
<1>4. /\ DOMAIN task'.win = DOMAIN task.win /\ Len(task'.win) = Len(task.win)
      /\ \A j \in DOMAIN task.win : j # i => task'.win[j] = task.win[j]
      /\ task'.win[i].ver = v /\ task'.win[i].off = task.win[i].off
  <2>1. task.win[i] \in Reads
    BY <1>2
  <2> QED BY <1>2, <1>3, <2>1 DEF Reads
<1>5. OutcomeInv'
  BY <1>2, <1>3, Zenon DEF OutcomeInv, Kept, Settled, Published
<1>6. CASE ~Streaming
  <2>1. StreamInv'
    BY <1>2, <1>3, <1>6 DEF StreamInv, Streaming, Validated
  <2> QED BY <1>0, <1>2, <1>5, <2>1, TaskAlone
<1>7. CASE Streaming
  <2>1. Follow(task'.win, task'.sent)
    <3>1. ASSUME NEW j \in DOMAIN task'.win PROVE task'.win[j].off = task'.sent + j
      BY <1>3, <1>4, <1>7, <3>1 DEF StreamInv, Follow
    <3> QED BY <3>1 DEF Follow
  <2>2. ASSUME remote.stamped, NEW j \in DOMAIN task'.win, task'.win[j].ver \notin {Nil, 0}
        PROVE  task'.win[j].ver \in task.init.modified + 1 .. remote.ver + 1
    <3>1. CASE j = i
      BY SMTT(40), <1>2, <1>4, <1>7, <2>2, <3>1 DEF StreamInv, Validated
    <3>2. CASE j # i
      BY <1>2, <1>4, <1>7, <2>2, <3>2 DEF StreamInv
    <3> QED BY <3>1, <3>2
  <2>3. Validated' /\ (\A s : Recent(s)' <=> Recent(s)) /\ Streaming'
    BY <1>2, <1>3, <1>7 DEF Validated, Recent, StreamInv, Streaming
  <2>4. StreamInv'
    BY <1>2, <1>3, <1>4, <1>7, <2>1, <2>2, <2>3 DEF StreamInv
  <2> QED BY <1>0, <1>2, <1>5, <2>4, TaskAlone
<1> QED BY <1>6, <1>7

\* A chunk handed over leaves the window for the writer's queue.
LEMMA DeliverPreserves ==
  ASSUME DownloadInv, DeliverChunk
  PROVE  DownloadInv'
<1> USE DEF DownloadInv
<1>0. DownloadTypeOK'
  BY StreamTypes DEF StreamInv, Validated
<1>1. CASE GiveUpStream("fatal")
  BY <1>0, <1>1, Names, GiveUpPreserves DEF DeliverChunk, Streaming
<1>2. CASE /\ NextReply.ver # 0 /\ writer.st = "run"
           /\ writer' = [writer EXCEPT !.queue = Append(@, NextReply)]
           /\ task' = [task EXCEPT !.win = DropReply, !.sent = @ + 1,
                           !.pc = IF task.sent + 1 = task.init.size THEN "verify" ELSE "top"]
  <2>1. /\ task'.win = Tail(task.win) /\ task'.sent = task.sent + 1 /\ task'.next = task.next
        /\ task'.pc = (IF task.sent + 1 = task.init.size THEN "verify" ELSE "top")
        /\ task'.init = task.init /\ task'.event = task.event
    BY <1>2 DEF DropReply, DownloadTypeOK, TaskRec
  <2>2. /\ writer'.queue = Append(writer.queue, Head(task.win)) /\ writer'.got = writer.got
        /\ writer'.size = writer.size /\ writer'.st = "run"
        /\ writer'.abort = writer.abort /\ writer'.closed = writer.closed
    BY <1>2 DEF NextReply, DownloadTypeOK, WriterRec
  <2>3. /\ task.pc = "fill" /\ remote' = remote /\ disk' = disk
        /\ task.win # <<>> /\ Head(task.win).ver \notin {Nil, 0}
        /\ task.win \in Seq(Reads) /\ writer.queue \in Seq(Chunk) /\ writer.got \in Seq(Chunk)
        /\ task.sent \in Nat /\ writer.size \in Nat /\ Streaming /\ Streaming'
    BY <1>2, <2>1 DEF DeliverChunk, NextReply, DownloadTypeOK, TaskRec, WriterRec, Streaming
  <2>4. /\ Validated /\ Validated' /\ ~writer.abort /\ ~writer.closed /\ writer.size = task.init.size
        /\ task.sent < writer.size /\ Len(writer.got) + Len(writer.queue) = task.sent
        /\ Follow(task.win, task.sent) /\ task.next = task.sent + Len(task.win)
        /\ Follow(writer.got, 0) /\ Follow(writer.queue, Len(writer.got))
    BY <1>2, <2>1, <2>3 DEF StreamInv, ChannelInv, Validated
  <2>5. /\ Head(task.win) = task.win[1] /\ 1 \in DOMAIN task.win
        /\ Len(task'.win) = Len(task.win) - 1 /\ DOMAIN task'.win = 1 .. Len(task.win) - 1
        /\ \A j \in DOMAIN task'.win : j + 1 \in DOMAIN task.win /\ task'.win[j] = task.win[j + 1]
    BY <2>1, <2>3
  <2>6. /\ Len(writer'.queue) = Len(writer.queue) + 1
        /\ DOMAIN writer'.queue = 1 .. Len(writer.queue) + 1
        /\ \A j \in 1 .. Len(writer.queue) : writer'.queue[j] = writer.queue[j]
        /\ writer'.queue[Len(writer.queue) + 1] = task.win[1]
    <3>1. Head(task.win) \in Chunk
      <4>1. Head(task.win) \in Reads
        BY <2>3
      <4> QED BY <2>3, <4>1 DEF Reads, Chunk
    <3> QED BY <2>2, <2>3, <2>5, <3>1
  <2>7. Follow(task'.win, task'.sent)
    <3>1. ASSUME NEW j \in DOMAIN task'.win PROVE task'.win[j].off = task'.sent + j
      <4>1. task'.win[j] = task.win[j + 1] /\ task.win[j + 1].off = task.sent + (j + 1) /\ j \in Nat
        BY <2>4, <2>5, <3>1 DEF Follow
      <4> QED BY SMTT(40), <2>1, <2>3, <4>1
    <3> QED BY <3>1 DEF Follow
  <2>8. Follow(writer'.queue, Len(writer'.got))
    <3>1. ASSUME NEW j \in DOMAIN writer'.queue PROVE writer'.queue[j].off = Len(writer.got) + j
      <4>1. task.win[1].off = task.sent + 1
        BY <2>4, <2>5 DEF Follow
      <4>2. CASE j = Len(writer.queue) + 1
        <5>1. PICK g \in Nat, q \in Nat : g = Len(writer.got) /\ q = Len(writer.queue)
          BY <2>3
        <5>2. writer'.queue[j].off = task.sent + 1 /\ task.sent = g + q /\ j = q + 1
          BY <2>4, <2>6, <4>1, <4>2, <5>1
        <5>3. writer'.queue[j].off = g + j
          BY <5>2
        <5> QED BY <5>1, <5>3
      <4>3. CASE j \in 1 .. Len(writer.queue)
        <5>1. j \in DOMAIN writer.queue /\ writer'.queue[j] = writer.queue[j]
          BY <2>3, <2>6, <4>3
        <5> QED BY <2>4, <5>1 DEF Follow
      <4> QED BY <2>3, <2>6, <4>2, <4>3
    <3> QED BY <2>2, <3>1 DEF Follow
  <2>9. ASSUME remote.stamped PROVE Recent(writer.got)' /\ Recent(writer.queue)'
    <3>1. /\ Recent(writer.got) /\ Recent(writer.queue)
          /\ task.win[1].ver \in task.init.modified + 1 .. remote.ver + 1
      BY <1>2, <2>3, <2>5, <2>9 DEF StreamInv
    <3>2. Recent(writer.got)'
      BY <2>1, <2>2, <2>3, <3>1 DEF Recent
    <3>3. ASSUME NEW j \in DOMAIN writer'.queue
          PROVE  writer'.queue[j].ver \in task.init.modified + 1 .. remote.ver + 1
      <4>1. CASE j = Len(writer.queue) + 1
        BY <2>6, <3>1, <4>1
      <4>2. CASE j \in 1 .. Len(writer.queue)
        BY SMTT(40), <2>3, <2>6, <3>1, <4>2 DEF Recent
      <4> QED BY <2>3, <2>6, <4>1, <4>2
    <3>4. Recent(writer.queue)'
      BY <2>1, <2>3, <3>3 DEF Recent
    <3> QED BY <3>2, <3>4
  <2>10. ASSUME remote.stamped, NEW j \in DOMAIN task'.win, task'.win[j].ver \notin {Nil, 0}
         PROVE  task'.win[j].ver \in task.init.modified + 1 .. remote.ver + 1
    BY <2>3, <2>5, <2>10 DEF StreamInv
  <2>11. IF task'.pc = "verify" THEN task'.sent = writer'.size ELSE task'.sent < writer'.size
    BY <2>1, <2>2, <2>3, <2>4
  <2>12. StreamInv'
    <3>1. Len(writer'.got) + Len(writer'.queue) = task'.sent /\ task'.next = task'.sent + Len(task'.win)
      <4>1. PICK g \in Nat, q \in Nat, w \in Nat :
              g = Len(writer.got) /\ q = Len(writer.queue) /\ w = Len(task.win)
        BY SMTT(40), <2>3
      <4>2. /\ Len(writer'.got) = g /\ Len(writer'.queue) = q + 1 /\ Len(task'.win) = w - 1
            /\ task.sent = g + q /\ task.next = task.sent + w
            /\ task'.sent = task.sent + 1 /\ task'.next = task.next
        BY <2>1, <2>2, <2>4, <2>5, <2>6, <4>1
      <4>3. g + (q + 1) = task'.sent /\ task'.next = task'.sent + (w - 1)
        BY <2>3, <4>2
      <4> QED BY <4>2, <4>3
    <3> QED BY <2>1, <2>2, <2>3, <2>4, <2>7, <2>9, <2>10, <2>11, <3>1 DEF StreamInv
  <2>13. ChannelInv'
    <3>1. Follow(writer'.got, 0) /\ writer'.size > 0
      BY <2>2, <2>3, <2>4
    <3> QED BY <2>2, <2>4, <2>8, <3>1 DEF ChannelInv
  <2>14. DiskInv'
    BY <1>2, <2>2, <2>3 DEF DiskInv, Published
  <2>15. OutcomeInv'
    BY <2>1, <2>3 DEF OutcomeInv
  <2> QED BY <1>0, <2>12, <2>13, <2>14, <2>15
<1> QED BY <1>1, <1>2 DEF DeliverChunk

\* The other steps of the stream: pauses, the validation of the whole file, failures.
LEMMA StreamPreserves ==
  ASSUME DownloadInv, EnterPause \/ LeavePause \/ PassTop \/ VerifyRemote \/ StreamFailure
  PROVE  DownloadInv'
<1> USE DEF DownloadInv
<1>0. DownloadTypeOK'
  BY StreamTypes DEF StreamInv, Validated
<1> SUFFICES StreamInv' /\ ChannelInv' /\ DiskInv' /\ OutcomeInv'
  BY <1>0
<1>1. Streaming
  BY DEF EnterPause, LeavePause, PassTop, VerifyRemote, StreamFailure, Streaming
<1>2. ASSUME UNCHANGED <<remote, disk, writer>>, task.pc # "verify",
             NEW p \in {"paused", "fill"}, task' = [task EXCEPT !.pc = p]
      PROVE  StreamInv' /\ ChannelInv' /\ DiskInv' /\ OutcomeInv'
  <2>1. /\ task'.pc = p /\ task'.init = task.init /\ task'.next = task.next /\ task'.win = task.win
        /\ task'.sent = task.sent /\ task'.event = task.event
    BY <1>2 DEF DownloadTypeOK, TaskRec
  <2>2. StreamInv'
    BY <1>1, <1>2, <2>1, StreamQuiet DEF Streaming
  <2>3. OutcomeInv'
    BY <1>1, <2>1 DEF OutcomeInv, Streaming
  <2> QED BY <1>2, <2>2, <2>3, TaskAlone
<1>3. CASE EnterPause
  BY <1>2, <1>3 DEF EnterPause
<1>4. CASE LeavePause
  <2>1. CASE GiveUpStream("cancelled")
    BY <1>1, <1>4, <2>1, GiveUpPreserves, Names DEF LeavePause
  <2>2. CASE task' = [task EXCEPT !.pc = "fill"] /\ UNCHANGED writer
    BY <1>2, <1>4, <2>2 DEF LeavePause
  <2> QED BY <1>4, <2>1, <2>2 DEF LeavePause
<1>5. CASE PassTop
  BY <1>2, <1>5 DEF PassTop
<1>6. CASE VerifyRemote
  <2>1. CASE GiveUpStream("fatal")
    BY <1>1, <1>6, <2>1, GiveUpPreserves, Names DEF VerifyRemote
  <2>2. CASE /\ SameRemote(task.init, Meta)
             /\ task' = [task EXCEPT !.pc = "join"]
             /\ writer' = CloseChannel(writer)
    <3>1. /\ task'.pc = "join" /\ task'.event = task.event /\ task.pc = "verify"
          /\ remote' = remote /\ disk' = disk
      BY <1>6, <2>2 DEF VerifyRemote, DownloadTypeOK, TaskRec
    <3>2. /\ writer'.st = writer.st /\ writer'.abort = writer.abort /\ writer'.closed
          /\ writer'.queue = writer.queue /\ writer'.got = writer.got /\ writer'.size = writer.size
      BY <2>2 DEF CloseChannel, DownloadTypeOK, WriterRec
    <3>3. writer.st \in {"run", "failed"}
      BY <1>1 DEF StreamInv
    <3>4. StreamInv'
      BY <3>1, <3>2 DEF StreamInv, Streaming
    <3>5. ASSUME remote.stamped, writer.st = "run" PROVE OneVersion(writer.got, writer.queue)
      <4>1. /\ Validated /\ task.init.modified \in Nat /\ remote.ver \in Nat
            /\ Recent(writer.got) /\ Recent(writer.queue)
        BY <1>1, <3>5 DEF StreamInv, Validated, DownloadTypeOK, RemoteRec
      <4>2. task.init.modified = remote.ver
        BY <2>2, <3>5, <4>1, MetaTypes, TransferConstants DEF SameRemote, DownloadTypeOK
      <4>3. \A v \in task.init.modified + 1 .. remote.ver + 1 : v = remote.ver + 1
        BY <4>1, <4>2
      <4>4. /\ \A i \in DOMAIN writer.got : writer.got[i].ver = remote.ver + 1
            /\ \A i \in DOMAIN writer.queue : writer.queue[i].ver = remote.ver + 1
        BY <4>1, <4>3 DEF Recent
      <4>5. remote.ver + 1 \in 0 .. remote.ver + 1
        BY <4>1
      <4> QED BY <4>4, <4>5 DEF OneVersion
    <3>6. \A s, t : OneVersion(s, t)' <=> OneVersion(s, t)
      BY <3>1, Zenon DEF OneVersion
    <3>7. ChannelInv'
      BY <3>1, <3>2, <3>3, <3>5, <3>6 DEF ChannelInv
    <3>8. DiskInv'
      BY <3>1, <3>2, <3>3 DEF DiskInv, Published
    <3>9. OutcomeInv'
      BY <1>1, <3>1, <3>2, <3>3 DEF OutcomeInv
    <3> QED BY <3>4, <3>7, <3>8, <3>9
  <2> QED BY <1>6, <2>1, <2>2 DEF VerifyRemote
<1>7. CASE StreamFailure
  <2>1. PICK e \in {"cancelled", "recoverable", "fatal"} : GiveUpStream(e)
    BY <1>7 DEF StreamFailure
  <2> QED BY <1>1, <1>7, <2>1, GiveUpPreserves, Names DEF StreamFailure
<1> QED BY <1>3, <1>4, <1>5, <1>6, <1>7

-----------------------------------------------------------------------------
(* The writer.                                                              *)

\* A whole file is neither nothing nor the file of another program.
LEMMA WholeIsPublished ==
  ASSUME DownloadTypeOK, writer.size > 0, Whole(writer.got)
  PROVE  writer.got \notin {Nil, Foreign}
<1>1. writer.got \in Seq(Chunk) /\ writer.got # Nil
  BY DownloadNil DEF DownloadTypeOK, WriterRec
<1>2. 1 \in DOMAIN writer.got
  BY <1>1 DEF Whole
<1>3. writer.got[1].off = 0 + 1
  BY <1>2 DEF Whole, Follow
<1>4. Foreign[1].off = 0
  BY MetaTypes DEF DownloadTypeOK
<1>5. writer.got # Foreign
  BY <1>3, <1>4
<1> QED BY <1>1, <1>5

\* A writer that stops with a part file in hand leaves nothing.
LEMMA StopPreserves ==
  ASSUME DownloadInv, writer.st \in {"run", "link"}, WriterStops, UNCHANGED <<remote, task>>
  PROVE  StreamInv' /\ ChannelInv' /\ DiskInv' /\ OutcomeInv'
<1> USE DEF DownloadInv
<1>1. /\ writer'.st = "failed" /\ writer'.size = writer.size /\ writer'.abort = writer.abort
      /\ writer'.closed = writer.closed /\ ~disk'.part /\ disk'.final = disk.final
      /\ remote' = remote /\ task' = task
  BY DEF WriterStops, DownloadTypeOK, WriterRec, DiskRec
<1>2. ~Published /\ ~Published' /\ Settled' /\ ~Kept /\ ~Settled
  BY <1>1 DEF DiskInv, Published, Settled, Kept
<1>3. StreamInv'
  BY <1>1 DEF StreamInv, Streaming, Validated
<1>4. ChannelInv'
  BY <1>1 DEF ChannelInv
<1>5. DiskInv'
  BY <1>1, <1>2 DEF DiskInv
<1>6. OutcomeInv'
  BY <1>1, <1>2 DEF OutcomeInv
<1> QED BY <1>3, <1>4, <1>5, <1>6

\* A chunk taken from the queue extends the part file.
LEMMA TakePreserves ==
  ASSUME DownloadInv, WriterTakes
  PROVE  DownloadInv'
<1> USE DEF DownloadInv
<1>0. DownloadTypeOK'
  BY WriterTypes DEF WriterStep
<1>1. CASE WriterStops
  BY <1>0, <1>1, StopPreserves DEF WriterTakes
<1>2. CASE /\ writer' = [writer EXCEPT !.queue = Tail(@), !.got = Append(@, Head(writer.queue))]
           /\ UNCHANGED disk
  <2>1. /\ writer'.queue = Tail(writer.queue) /\ writer'.got = Append(writer.got, Head(writer.queue))
        /\ writer'.st = "run" /\ writer.st = "run" /\ writer'.size = writer.size
        /\ writer'.abort = writer.abort /\ writer'.closed = writer.closed
        /\ remote' = remote /\ task' = task /\ disk' = disk
    BY <1>2 DEF WriterTakes, DownloadTypeOK, WriterRec
  <2>2. writer.queue \in Seq(Chunk) /\ writer.queue # <<>> /\ writer.got \in Seq(Chunk)
    BY DEF WriterTakes, DownloadTypeOK, WriterRec
  <2>3. PICK g \in Nat, q \in Nat : g = Len(writer.got) /\ q = Len(writer.queue)
    BY <2>2
  <2>4. /\ DOMAIN writer.got = 1 .. g /\ DOMAIN writer.queue = 1 .. q /\ q > 0
        /\ Len(writer'.got) = g + 1 /\ DOMAIN writer'.got = 1 .. g + 1
        /\ Len(writer'.queue) = q - 1 /\ DOMAIN writer'.queue = 1 .. q - 1
        /\ \A i \in 1 .. g : writer'.got[i] = writer.got[i]
        /\ writer'.got[g + 1] = writer.queue[1]
        /\ \A i \in 1 .. q - 1 : writer'.queue[i] = writer.queue[i + 1]
    BY <2>1, <2>2, <2>3
  <2>5. ASSUME NEW i \in DOMAIN writer'.got
        PROVE  \/ i \in DOMAIN writer.got /\ writer'.got[i] = writer.got[i]
               \/ i = g + 1 /\ 1 \in DOMAIN writer.queue /\ writer'.got[i] = writer.queue[1]
    <3>1. i \in 1 .. g \/ i = g + 1
      BY <2>3, <2>4
    <3> QED BY <2>3, <2>4, <3>1
  <2>6. ASSUME NEW i \in DOMAIN writer'.queue
        PROVE  i \in Nat /\ i + 1 \in DOMAIN writer.queue /\ writer'.queue[i] = writer.queue[i + 1]
    BY <2>3, <2>4
  <2>7. StreamInv'
    <3>1. CASE Streaming
      <4>1. g + q = task.sent /\ Len(writer'.got) + Len(writer'.queue) = task.sent
        <5>1. g + q = task.sent
          BY <2>1, <2>3, <3>1 DEF StreamInv
        <5>2. (g + 1) + (q - 1) = g + q
          OBVIOUS
        <5> QED BY <2>4, <5>1, <5>2
      <4>2. ASSUME remote.stamped PROVE Recent(writer.got)' /\ Recent(writer.queue)'
        <5>1. Recent(writer.got) /\ Recent(writer.queue)
          BY <2>1, <3>1, <4>2 DEF StreamInv
        <5> QED BY <2>1, <2>5, <2>6, <5>1 DEF Recent
      <4>3. Validated' /\ Streaming'
        BY <2>1, <3>1 DEF StreamInv, Validated, Streaming
      <4>4. Follow(task.win, task.sent)' /\ (task.next = task.sent + Len(task.win))'
        BY <2>1, <3>1 DEF StreamInv
      <4>5. ASSUME remote'.stamped, NEW i \in DOMAIN task'.win, task'.win[i].ver \notin {Nil, 0}
            PROVE  task'.win[i].ver \in task'.init.modified + 1 .. remote'.ver + 1
        BY <2>1, <3>1, <4>5 DEF StreamInv
      <4>6. /\ ~writer'.abort /\ ~writer'.closed /\ writer'.size = task'.init.size
            /\ IF task'.pc = "verify" THEN task'.sent = writer'.size ELSE task'.sent < writer'.size
        BY <2>1, <3>1 DEF StreamInv
      <4> QED BY <2>1, <4>1, <4>2, <4>3, <4>4, <4>5, <4>6 DEF StreamInv
    <3>2. CASE ~Streaming
      BY <2>1, <3>2 DEF StreamInv, Streaming, Validated
    <3> QED BY <3>1, <3>2
  <2>8. ChannelInv'
    <3>1. Follow(writer.got, 0) /\ Follow(writer.queue, g) /\ writer.size > 0
      BY <2>1, <2>3 DEF ChannelInv
    <3>2. ASSUME NEW i \in DOMAIN writer'.got PROVE writer'.got[i].off = 0 + i
      <4>1. CASE i \in DOMAIN writer.got /\ writer'.got[i] = writer.got[i]
        BY <3>1, <4>1 DEF Follow
      <4>2. CASE i = g + 1 /\ 1 \in DOMAIN writer.queue /\ writer'.got[i] = writer.queue[1]
        BY <3>1, <4>2 DEF Follow
      <4> QED BY <2>5, <4>1, <4>2
    <3>3. ASSUME NEW i \in DOMAIN writer'.queue PROVE writer'.queue[i].off = (g + 1) + i
      <4>1. writer'.queue[i].off = g + (i + 1)
        BY <2>6, <3>1 DEF Follow
      <4> QED BY <2>6, <4>1
    <3>4. Follow(writer'.got, 0) /\ Follow(writer'.queue, Len(writer'.got))
      BY <2>4, <3>2, <3>3 DEF Follow
    <3>5. Len(writer'.got) + Len(writer'.queue) = Len(writer.got) + Len(writer.queue)
      <4>1. (g + 1) + (q - 1) = g + q
        OBVIOUS
      <4> QED BY <2>3, <2>4, <4>1
    <3>6. ASSUME OneVersion(writer.got, writer.queue) PROVE OneVersion(writer.got, writer.queue)'
      BY <2>1, <2>5, <2>6, <3>6 DEF OneVersion
    <3> QED BY <2>1, <3>1, <3>4, <3>5, <3>6 DEF ChannelInv
  <2>9. ~Published /\ ~Published'
    BY <2>1 DEF DiskInv, Published
  <2>10. DiskInv'
    BY <2>1, <2>9 DEF DiskInv
  <2>11. OutcomeInv'
    BY <2>1, <2>9 DEF OutcomeInv, Kept, Settled
  <2> QED BY <1>0, <2>7, <2>8, <2>10, <2>11
<1> QED BY <1>1, <1>2 DEF WriterTakes

\* The steps of the writer keep the invariant.
LEMMA WriterPreserves ==
  ASSUME DownloadInv, WriterStep
  PROVE  DownloadInv'
<1> USE DEF DownloadInv
<1>0. DownloadTypeOK'
  BY WriterTypes
<1>1. CASE WriterTakes
  BY <1>1, TakePreserves
<1>2. CASE WriterFinishes
  <2>1. CASE WriterStops
    BY <1>0, <1>2, <2>1, StopPreserves DEF WriterFinishes
  <2>2. CASE /\ ~writer.abort /\ Len(writer.got) = writer.size
             /\ writer' = [writer EXCEPT !.st = "link"] /\ UNCHANGED disk
    <3>1. /\ writer.st = "run" /\ writer'.st = "link" /\ writer.closed /\ writer.queue = <<>>
          /\ writer'.got = writer.got /\ writer'.size = writer.size
          /\ disk' = disk /\ remote' = remote /\ task' = task
      BY <1>2, <2>2 DEF WriterFinishes, DownloadTypeOK, WriterRec
    <3>2. ~Streaming
      BY <3>1 DEF StreamInv
    <3>3. StreamInv'
      BY <3>1, <3>2 DEF StreamInv, Streaming, Validated
    <3>4. Whole(writer.got)
      <4>1. Follow(writer.got, 0) /\ writer.size \in Nat
        BY <3>1 DEF ChannelInv, DownloadTypeOK, WriterRec
      <4>2. Len(writer.got) + Len(writer.queue) = writer.size
        BY <2>2, <3>1, <4>1
      <4>3. remote.stamped => OneVersion(writer.got, writer.queue)
        BY <2>2, <3>1, <4>1, <4>2 DEF ChannelInv
      <4> QED BY <2>2, <4>1, <4>3 DEF Whole, OneVersion
    <3>5. Whole(writer.got)'
      BY <3>1, <3>4 DEF Whole
    <3>6. ChannelInv'
      BY <3>1, <3>5 DEF ChannelInv
    <3>7. ~Published /\ ~Published'
      BY <3>1 DEF DiskInv, Published
    <3>8. DiskInv'
      BY <3>1, <3>7 DEF DiskInv
    <3>9. OutcomeInv'
      BY <3>1, <3>7 DEF OutcomeInv, Kept, Settled
    <3> QED BY <1>0, <3>3, <3>6, <3>8, <3>9
  <2> QED BY <1>2, <2>1, <2>2 DEF WriterFinishes
<1>3. CASE WriterLinks
  <2>1. CASE WriterStops
    BY <1>0, <1>3, <2>1, StopPreserves DEF WriterLinks
  <2>2. CASE /\ disk' = [final |-> writer.got, part |-> FALSE]
             /\ writer' = [writer EXCEPT !.st = "sync"]
    <3>1. /\ writer.st = "link" /\ writer'.st = "sync" /\ writer'.got = writer.got
          /\ writer'.size = writer.size /\ disk'.final = writer.got /\ ~disk'.part
          /\ remote' = remote /\ task' = task
      BY <1>3, <2>2 DEF WriterLinks, DownloadTypeOK, WriterRec
    <3>2. Whole(writer.got) /\ writer.size > 0 /\ Whole(writer.got)'
      BY <3>1 DEF ChannelInv, Whole
    <3>3. ~Streaming
      BY <3>1 DEF StreamInv
    <3>4. StreamInv'
      BY <3>1, <3>3 DEF StreamInv, Streaming, Validated
    <3>5. ChannelInv'
      BY <3>1, <3>2 DEF ChannelInv
    <3>6. DiskInv'
      BY <3>1, <3>2 DEF DiskInv
    <3>7. OutcomeInv'
      BY <3>1 DEF OutcomeInv, Kept, Settled
    <3> QED BY <1>0, <3>4, <3>5, <3>6, <3>7
  <2> QED BY <1>3, <2>1, <2>2 DEF WriterLinks, PublishNoOverwrite
<1>4. CASE WriterSyncs
  <2>0. /\ writer.st = "sync" /\ remote' = remote /\ task' = task /\ ~Streaming /\ ~disk.part
        /\ disk.final = writer.got /\ Whole(writer.got) /\ writer.size > 0
    BY <1>4 DEF WriterSyncs, StreamInv, DiskInv, ChannelInv
  <2>1. /\ writer'.st \in {"ok", "failed"} /\ writer'.got = writer.got /\ writer'.size = writer.size
        /\ ~disk'.part
        /\ \/ writer'.st = "ok" /\ disk'.final = writer.got
           \/ writer'.st = "failed" /\ disk'.final = Nil
    BY <1>4, <2>0 DEF WriterSyncs, DownloadTypeOK, WriterRec, DiskRec
  <2>2. StreamInv'
    BY <2>0, <2>1 DEF StreamInv, Streaming, Validated
  <2>3. ChannelInv' /\ Whole(writer.got)'
    BY <2>0, <2>1 DEF ChannelInv, Whole
  <2>4. DiskInv'
    BY <2>1, <2>3 DEF DiskInv, Published
  <2>5. writer'.st = "ok" => Kept'
    BY <2>0, <2>1, WholeIsPublished DEF Kept, Published
  <2>6. OutcomeInv'
    BY <2>0, <2>1, <2>5 DEF OutcomeInv, Kept, Settled
  <2> QED BY <1>0, <2>2, <2>3, <2>4, <2>6
<1>5. CASE WriterFails
  BY <1>0, <1>5, StopPreserves DEF WriterFails
<1> QED BY <1>1, <1>2, <1>3, <1>4, <1>5 DEF WriterStep

-----------------------------------------------------------------------------
(* The end of an attempt and of the transfer.                               *)

\* Removing the published file settles the disk, or is excused.
LEMMA RemovePreserves ==
  ASSUME DownloadInv, Kept, NEW t \in TaskRec, RemovePublished(t), UNCHANGED <<remote, writer>>
  PROVE  /\ DiskInv' /\ (Settled' \/ task'.excuse)
         /\ task'.pc = t.pc /\ task'.err = t.err /\ task'.event = t.event
<1> USE DEF DownloadInv
<1>1. CASE disk' = [disk EXCEPT !.final = Nil] /\ task' = t
  <2>1. disk'.final = Nil /\ disk'.part = disk.part /\ writer' = writer /\ writer.st = "ok"
    BY <1>1 DEF Kept, DownloadTypeOK, DiskRec
  <2> QED BY <1>1, <2>1 DEF DiskInv, Settled, Published
<1>2. CASE UNCHANGED disk /\ task' = [t EXCEPT !.excuse = TRUE]
  <2>1. /\ task'.excuse /\ task'.pc = t.pc /\ task'.err = t.err /\ task'.event = t.event
    BY <1>2 DEF TaskRec
  <2> QED BY <1>2, <2>1, TaskAlone
<1> QED BY <1>1, <1>2 DEF RemovePublished

\* The steps that end an attempt and the transfer keep the invariant.
LEMMA EndPreserves ==
  ASSUME DownloadInv,
         \/ JoinWriter \/ CleanUp \/ CloseHandle \/ Decide \/ RetryDelay
         \/ SendTerminal \/ UndoUndelivered
  PROVE  DownloadInv'
<1> USE DEF DownloadInv
<1>0. DownloadTypeOK'
  BY EndTypes DEF OutcomeInv
<1>1. /\ remote' = remote /\ writer' = writer
      /\ task.pc \in {"join", "cleanup", "close", "decide", "delay", "send", "undo"}
  BY DEF JoinWriter, CleanUp, CloseHandle, Decide, RetryDelay, SendTerminal, UndoUndelivered
\* What is left to show of such a step.
<1>2. ASSUME DiskInv', OutcomeInv',
             task'.pc \in {"cleanup", "close", "decide", "delay", "open", "send", "undo", "end"}
      PROVE  DownloadInv'
  <2>1. StreamInv'
    BY <1>1, <1>2 DEF StreamInv, Streaming
  <2> QED BY <1>0, <1>1, <1>2, <2>1, TaskAlone
<1>3. UNCHANGED disk => DiskInv' /\ (Kept' <=> Kept) /\ (Settled' <=> Settled)
  BY <1>1, TaskAlone DEF Kept, Settled, Published
<1>4. CASE JoinWriter
  <2>1. disk' = disk /\ task'.event = task.event /\ task'.excuse = task.excuse /\ task.event = Nil
    BY <1>4 DEF JoinWriter, DownloadTypeOK, TaskRec, OutcomeInv
  <2>2. \/ task'.pc = "close" /\ task'.err = Nil /\ writer.st = "ok"
        \/ task'.pc = "close" /\ task'.err = "fatal" /\ writer.st = "failed"
        \/ task'.pc = "cleanup" /\ task'.err = "cancelled"
    BY <1>4 DEF JoinWriter, DownloadTypeOK, TaskRec
  <2>3. writer.st = "ok" => Kept
    BY <1>4 DEF JoinWriter, OutcomeInv
  <2>4. writer.st = "failed" => Settled
    BY DEF DiskInv, Settled
  <2>5. OutcomeInv'
    BY <1>1, <1>3, <2>1, <2>2, <2>3, <2>4, DownloadNil, Names DEF OutcomeInv
  <2> QED BY <1>2, <1>3, <2>1, <2>2, <2>5
<1>5. CASE CleanUp
  <2>1. task.pc = "cleanup" /\ task.event = Nil /\ task.err # Nil
    BY <1>5 DEF CleanUp, OutcomeInv
  <2>2. CASE writer.st = "ok" /\ RemovePublished([task EXCEPT !.pc = "close"])
    <3>1. [task EXCEPT !.pc = "close"] \in TaskRec
      BY Names, Zenon DEF DownloadTypeOK, TaskRec
    <3>2. Kept
      BY <2>1, <2>2 DEF OutcomeInv
    <3>3. /\ DiskInv' /\ (Settled' \/ task'.excuse)
          /\ task'.pc = "close" /\ task'.err = task.err /\ task'.event = task.event
      BY <1>1, <2>2, <3>1, <3>2, RemovePreserves DEF DownloadTypeOK, TaskRec
    <3>4. OutcomeInv'
      BY <2>1, <3>3 DEF OutcomeInv
    <3> QED BY <1>2, <3>3, <3>4
  <2>3. CASE /\ writer.st = "failed" /\ UNCHANGED disk
             /\ \E e \in IF task.err = "cancelled" THEN {"cancelled"} ELSE {task.err, "fatal"} :
                  task' = [task EXCEPT !.pc = "close", !.err = e]
    <3>1. /\ task'.pc = "close" /\ task'.err \in {"cancelled", "fatal", task.err}
          /\ task'.event = task.event
      BY <2>3 DEF DownloadTypeOK, TaskRec
    <3>2. task'.err # Nil
      BY <2>1, <3>1, DownloadNil, Names
    <3>3. Settled
      BY <2>3 DEF DiskInv, Settled
    <3>4. OutcomeInv'
      BY <1>3, <2>1, <2>3, <3>1, <3>2, <3>3 DEF OutcomeInv
    <3> QED BY <1>2, <1>3, <2>3, <3>1, <3>4
  <2>4. CASE task' = [task EXCEPT !.pc = "close", !.excuse = TRUE] /\ UNCHANGED disk
    <3>1. /\ task'.pc = "close" /\ task'.excuse /\ task'.err = task.err /\ task'.event = task.event
      BY <2>4 DEF DownloadTypeOK, TaskRec
    <3>2. OutcomeInv'
      BY <2>1, <3>1 DEF OutcomeInv
    <3> QED BY <1>2, <1>3, <2>4, <3>1, <3>2
  <2> QED BY <1>5, <2>2, <2>3, <2>4 DEF CleanUp
<1>6. CASE CloseHandle
  <2>1. /\ task.pc = "close" /\ task'.pc = "decide" /\ disk' = disk /\ task'.event = task.event
        /\ task'.err = task.err /\ task'.excuse = task.excuse
    BY <1>6 DEF CloseHandle, DownloadTypeOK, TaskRec
  <2>2. OutcomeInv'
    BY <1>3, <2>1 DEF OutcomeInv
  <2> QED BY <1>2, <1>3, <2>1, <2>2
<1>7. CASE Decide
  <2>1. /\ task.pc = "decide" /\ task.event = Nil
        /\ IF task.err = Nil THEN Kept ELSE Settled \/ task.excuse
    BY <1>7 DEF Decide, OutcomeInv
  <2>2. CASE /\ MayRetry /\ UNCHANGED disk
             /\ task' = [task EXCEPT !.pc = "delay", !.retries = @ + 1, !.err = Nil]
    <3>1. /\ task'.pc = "delay" /\ task'.event = task.event /\ task'.excuse = task.excuse
      BY <2>2 DEF DownloadTypeOK, TaskRec
    <3>2. task.err # Nil
      BY <2>2, DownloadNil, Names DEF MayRetry
    <3>3. OutcomeInv'
      BY <1>3, <2>1, <2>2, <3>1, <3>2 DEF OutcomeInv
    <3> QED BY <1>2, <1>3, <2>2, <3>1, <3>3
  <2>3. CASE /\ UNCHANGED disk
             /\ task' = [task EXCEPT !.pc = "send", !.err = IF @ = "recoverable" THEN "fatal" ELSE @]
    <3>1. /\ task'.pc = "send" /\ task'.event = task.event /\ task'.excuse = task.excuse
          /\ task'.err = IF task.err = "recoverable" THEN "fatal" ELSE task.err
      BY <2>3 DEF DownloadTypeOK, TaskRec
    <3>2. task'.err = Nil <=> task.err = Nil
      BY <3>1, DownloadNil, Names
    <3>3. OutcomeInv'
      BY <1>3, <2>1, <2>3, <3>1, <3>2 DEF OutcomeInv
    <3> QED BY <1>2, <1>3, <2>3, <3>1, <3>3
  <2>4. CASE task.err = Nil /\ RemovePublished([task EXCEPT !.pc = "send", !.err = "cancelled"])
    <3> DEFINE t == [task EXCEPT !.pc = "send", !.err = "cancelled"]
    <3>1. t \in TaskRec
      BY Names, Zenon DEF DownloadTypeOK, TaskRec
    <3>2. t.pc = "send" /\ t.err = "cancelled" /\ t.event = task.event
      BY DEF DownloadTypeOK, TaskRec
    <3> HIDE DEF t
    <3>3. /\ DiskInv' /\ (Settled' \/ task'.excuse)
          /\ task'.pc = t.pc /\ task'.err = t.err /\ task'.event = t.event
      BY <1>1, <2>1, <2>4, <3>1, RemovePreserves DEF t
    <3>4. OutcomeInv'
      BY <2>1, <3>2, <3>3, DownloadNil, Names DEF OutcomeInv
    <3> QED BY <1>2, <3>2, <3>3, <3>4
  <2> QED BY <1>7, <2>2, <2>3, <2>4 DEF Decide
<1>8. CASE RetryDelay
  <2>1. /\ task.pc = "delay" /\ disk' = disk /\ task'.event = task.event /\ task.event = Nil
        /\ task'.excuse = task.excuse
        /\ \/ task'.pc = "send" /\ task'.err = "cancelled"
           \/ task'.pc = "open"
    BY <1>8 DEF RetryDelay, DownloadTypeOK, TaskRec, OutcomeInv
  <2>2. OutcomeInv'
    BY <1>3, <2>1, DownloadNil, Names DEF OutcomeInv
  <2> QED BY <1>2, <1>3, <2>1, <2>2
<1>9. CASE SendTerminal
  <2>1. /\ task.pc = "send" /\ disk' = disk /\ task.event = Nil
        /\ task'.excuse = task.excuse /\ task'.err = task.err
        /\ \/ task'.pc = "end" /\ task'.event = EventOf(task.err)
           \/ task'.pc = (IF task.err = Nil THEN "undo" ELSE "end") /\ task'.event = "lost"
    BY <1>9 DEF SendTerminal, DownloadTypeOK, TaskRec, OutcomeInv
  <2>2. /\ EventOf(task.err) \in DownloadEvents /\ "lost" \in DownloadEvents
        /\ EventOf(task.err) = "Completed" <=> task.err = Nil
    BY Names DEF EventOf
  <2>3. task'.event # Nil
    BY <2>1, <2>2, DownloadNil
  <2>4. OutcomeInv'
    BY <1>3, <2>1, <2>2, <2>3 DEF OutcomeInv
  <2> QED BY <1>2, <1>3, <2>1, <2>4
<1>10. CASE UndoUndelivered
  <2>1. task.pc = "undo" /\ task.event = "lost" /\ Kept
    BY <1>10 DEF UndoUndelivered, OutcomeInv
  <2>2. [task EXCEPT !.pc = "end"] \in TaskRec
    BY Names, Zenon DEF DownloadTypeOK, TaskRec
  <2>3. /\ DiskInv' /\ (Settled' \/ task'.excuse)
        /\ task'.pc = "end" /\ task'.event = task.event
    BY <1>1, <1>10, <2>1, <2>2, RemovePreserves DEF UndoUndelivered, DownloadTypeOK, TaskRec
  <2>4. OutcomeInv'
    BY <2>1, <2>3, DownloadNil, Names DEF OutcomeInv
  <2> QED BY <1>2, <2>3, <2>4
<1> QED BY <1>4, <1>5, <1>6, <1>7, <1>8, <1>9, <1>10

\* Aborting the task drops its channel, never with a full and unvalidated file in it.
LEMMA AbortPreserves ==
  ASSUME DownloadInv, AbortTask
  PROVE  DownloadInv'
<1> USE DEF DownloadInv
<1>0. DownloadTypeOK'
  BY EndTypes DEF OutcomeInv
<1>1. /\ task'.pc = "end" /\ task'.event = "aborted" /\ task'.excuse
      /\ remote' = remote /\ disk' = disk
      /\ task.pc \in {"check", "top", "cleanup", "close", "send", "undo"}
  BY DEF AbortTask, DownloadTypeOK, TaskRec
<1>2. /\ writer'.st = writer.st /\ writer'.abort = writer.abort /\ writer'.queue = writer.queue
      /\ writer'.got = writer.got /\ writer'.size = writer.size
      /\ writer.st = "run" => writer'.closed
      /\ ~Streaming => (writer.st = "run" => writer'.closed = writer.closed)
  BY DEF AbortTask, CloseChannel, DownloadTypeOK, WriterRec, StreamInv
<1>3. StreamInv'
  BY <1>1, <1>2 DEF StreamInv, Streaming
<1>4. Streaming /\ writer.st = "run" => Len(writer.got) + Len(writer.queue) < writer.size
  BY <1>1 DEF StreamInv, Streaming
<1>5. ChannelInv'
  <2>1. \A s : Whole(s)' <=> Whole(s)
    BY <1>1, <1>2, Zenon DEF Whole
  <2>2. \A s, t : OneVersion(s, t)' <=> OneVersion(s, t)
    BY <1>1, Zenon DEF OneVersion
  <2>3. writer.st = "run" =>
          /\ Follow(writer.got, 0) /\ Follow(writer.queue, Len(writer.got))
          /\ ~writer.abort =>
                \/ Len(writer.got) + Len(writer.queue) < writer.size
                \/ remote.stamped => OneVersion(writer.got, writer.queue)
    BY <1>4 DEF ChannelInv, StreamInv
  <2> QED BY <1>1, <1>2, <2>1, <2>2, <2>3 DEF ChannelInv
<1>6. DiskInv'
  BY <1>1, <1>2 DEF DiskInv, Published, Whole
<1>7. OutcomeInv'
  BY <1>1, DownloadNil, Names DEF OutcomeInv
<1> QED BY <1>0, <1>3, <1>5, <1>6, <1>7

-----------------------------------------------------------------------------
(* The theorems.                                                            *)

\* A download starts with its invariant.
LEMMA DownloadInvInit == DownloadInit => DownloadInv
<1> SUFFICES ASSUME DownloadInit PROVE DownloadInv
  OBVIOUS
<1>1. PICK s \in Sizes, b \in BOOLEAN : remote = [size |-> s, ver |-> 0, stamped |-> b]
  BY DEF DownloadInit
<1>2. s \in Nat \ {0} /\ 0 \in Nat /\ <<>> \in Seq(Reads)
  BY DownloadConstants
<1>3. remote \in RemoteRec
  BY <1>1, <1>2, Zenon DEF RemoteRec
<1>4. disk \in DiskRec /\ disk.final \in {Nil, Foreign} /\ ~disk.part
  <2>1. Foreign \in Seq(Chunk)
    BY <1>3, MetaTypes
  <2> QED BY <2>1 DEF DownloadInit, DiskRec
<1>5. task \in TaskRec
  BY <1>1, <1>2, Names, Zenon DEF DownloadInit, TaskRec
<1>6. writer \in WriterRec /\ writer.st = "none" /\ writer.size = 0
  BY NoWriterType DEF DownloadInit, NoWriter
<1>7. task.pc = "open" /\ task.event = Nil
  BY DEF DownloadInit
<1>8. ~Published
  BY <1>4 DEF Published
<1>9. StreamInv /\ ChannelInv /\ DiskInv /\ OutcomeInv
  BY <1>4, <1>6, <1>7, <1>8 DEF StreamInv, Streaming, ChannelInv, DiskInv, OutcomeInv, Settled
<1> QED BY <1>3, <1>4, <1>5, <1>6, <1>9 DEF DownloadInv, DownloadTypeOK

\* Every step keeps the invariant.
LEMMA DownloadInvStep == DownloadInv /\ [DownloadNext]_downloadVars => DownloadInv'
<1> SUFFICES ASSUME DownloadInv, [DownloadNext]_downloadVars
             PROVE  DownloadInv'
  OBVIOUS
<1>1. CASE UNCHANGED downloadVars
  <2>1. remote' = remote /\ disk' = disk /\ task' = task /\ writer' = writer
    BY <1>1 DEF downloadVars
  <2>2. DownloadTypeOK' /\ OutcomeInv'
    BY <2>1, Zenon DEF DownloadInv, DownloadTypeOK, OutcomeInv, Kept, Settled, Published
  <2>3. StreamInv'
    BY <2>1, StreamQuiet DEF DownloadInv, Streaming
  <2> QED BY <2>1, <2>2, <2>3, TaskAlone DEF DownloadInv
<1>2. CASE TouchRemote \/ SomebodyCreates \/ CancelDownload \/ PauseDownload \/ ResumeDownload
  BY <1>2, WorldPreserves
<1>3. CASE \E i \in 1..Window : ServerReads(i)
  BY <1>3, AnswerPreserves
<1>4. CASE WriterStep
  BY <1>4, WriterPreserves
<1>5. CASE Opened \/ Inspect \/ CheckOpened \/ PrepareTarget \/ EarlyFailure
  BY <1>5, EarlyPreserves
<1>6. CASE EnterPause \/ LeavePause \/ PassTop \/ VerifyRemote \/ StreamFailure
  BY <1>6, StreamPreserves
<1>7. CASE RequestChunk
  BY <1>7, RequestPreserves
<1>8. CASE DeliverChunk
  BY <1>8, DeliverPreserves
<1>9. CASE \/ JoinWriter \/ CleanUp \/ CloseHandle \/ Decide \/ RetryDelay
           \/ SendTerminal \/ UndoUndelivered
  BY <1>9, EndPreserves
<1>10. CASE AbortTask
  BY <1>10, AbortPreserves
<1> QED BY <1>1, <1>2, <1>3, <1>4, <1>5, <1>6, <1>7, <1>8, <1>9, <1>10 DEF DownloadNext, TaskStep

\* A published file is whole, in order and of one version, whatever was
\* answered out of order, retried, aborted or modified meanwhile
\* (stream_remote_file, write_local_file).
THEOREM DownloadIsWhole == DownloadSpec => []PublishedIsWhole
<1>1. DownloadInv => PublishedIsWhole
  BY DEF DownloadInv, DiskInv, Published, Whole, Follow, PublishedIsWhole, DownloadTypeOK, WriterRec
<1> QED BY <1>1, DownloadInvInit, DownloadInvStep, PTL DEF DownloadSpec

\* When task and writer have ended, no part file is left, and a published file
\* only where Completed was reported or the clean-up was given up.
THEOREM DownloadLeavesNothing == DownloadSpec => []NothingLeftBehind
<1>1. DownloadInv => NothingLeftBehind
  BY DEF DownloadInv, DiskInv, OutcomeInv, Settled, Published, NothingLeftBehind
<1> QED BY <1>1, DownloadInvInit, DownloadInvStep, PTL DEF DownloadSpec

\* The download implements the atomic file: the destination is absent or
\* complete, never overwritten, and Completed is reported only of a file that
\* is there and stays (run_download, publish_local_download_without_overwrite).
THEOREM DownloadIsAtomic == DownloadSpec => DownloadAtomic!Spec
<1> DEFINE file == IF disk.final = Nil THEN "absent" ELSE IF disk.final = Foreign THEN "foreign" ELSE "whole"
           outcome == IF task.event \in {Nil, "Completed"} THEN task.event ELSE "other"
<1>1. DownloadInit => DownloadAtomic!Init
  <2> SUFFICES ASSUME DownloadInit PROVE file \in {"absent", "foreign"} /\ outcome = Nil
    BY DEF DownloadAtomic!Init
  <2> QED BY DEF DownloadInit
<1>2. DownloadInv /\ DownloadInv' /\ [DownloadNext]_downloadVars =>
        [DownloadAtomic!Next]_(DownloadAtomic!vars)
  <2> SUFFICES ASSUME DownloadInv, DownloadInv', [DownloadNext]_downloadVars
               PROVE  [DownloadAtomic!Next]_(DownloadAtomic!vars)
    OBVIOUS
  <2> USE DEF DownloadInv
  <2>1. Nil # "Completed" /\ Nil # "lost" /\ Nil # "aborted" /\ Foreign # Nil
    BY DownloadNil, Names, MetaTypes DEF DownloadTypeOK
  <2>2. ASSUME disk'.final = disk.final, task'.event = task.event
        PROVE  UNCHANGED DownloadAtomic!vars
    BY <2>2 DEF DownloadAtomic!vars
  \* The withdrawal of a file nobody was told is complete.
  <2>3. ASSUME Published, task.event # "Completed", task'.event = task.event, disk'.final = Nil
        PROVE  DownloadAtomic!Next
    <3>1. DownloadAtomic!Withdraw
      BY <2>1, <2>3 DEF DownloadAtomic!Withdraw, Published
    <3> QED BY <3>1 DEF DownloadAtomic!Next
  \* A report of anything but completion.
  <2>4. ASSUME disk' = disk, task.event = Nil, task'.event \notin {Nil, "Completed"}
        PROVE  DownloadAtomic!Next
    <3>1. DownloadAtomic!Report("other")
      BY <2>4 DEF DownloadAtomic!Report
    <3> QED BY <3>1 DEF DownloadAtomic!Next
  <2>5. CASE UNCHANGED downloadVars
    BY <2>2, <2>5 DEF downloadVars
  <2>6. CASE SomebodyCreates
    <3>1. DownloadAtomic!SomebodyCreates
      BY <2>1, <2>6 DEF SomebodyCreates, DownloadAtomic!SomebodyCreates, DownloadTypeOK, DiskRec
    <3> QED BY <3>1 DEF DownloadAtomic!Next
  <2>7. CASE TouchRemote \/ CancelDownload \/ PauseDownload \/ ResumeDownload
    BY <2>2, <2>7 DEF TouchRemote, CancelDownload, PauseDownload, ResumeDownload, DownloadTypeOK, TaskRec
  <2>8. CASE \E i \in 1..Window : ServerReads(i)
    BY <2>2, <2>8 DEF ServerReads, DownloadTypeOK, TaskRec
  <2>9. CASE WriterTakes \/ WriterFinishes \/ WriterFails
    <3>1. disk'.final = disk.final /\ task' = task
      BY <2>9 DEF WriterTakes, WriterFinishes, WriterFails, WriterStops, DownloadTypeOK, DiskRec
    <3> QED BY <2>2, <3>1
  <2>10. CASE WriterLinks
    <3>1. task' = task /\ writer.st = "link"
      BY <2>10 DEF WriterLinks
    <3>2. CASE WriterStops
      BY <2>2, <3>1, <3>2 DEF WriterStops, DownloadTypeOK, DiskRec
    <3>3. CASE disk.final = Nil /\ disk' = [final |-> writer.got, part |-> FALSE]
      <4>1. writer.got \notin {Nil, Foreign}
        BY <3>1, WholeIsPublished DEF ChannelInv
      <4>2. task.event # "Completed"
        BY <3>1, <2>1 DEF OutcomeInv, Kept
      <4>3. DownloadAtomic!Appear
        BY <2>1, <3>1, <3>3, <4>1, <4>2 DEF DownloadAtomic!Appear
      <4> QED BY <4>3 DEF DownloadAtomic!Next
    <3> QED BY <2>10, <3>2, <3>3 DEF WriterLinks, PublishNoOverwrite
  <2>11. CASE WriterSyncs
    <3>1. task' = task /\ writer.st = "sync"
      BY <2>11 DEF WriterSyncs
    <3>2. CASE UNCHANGED disk
      BY <2>2, <3>1, <3>2
    <3>3. CASE disk' = [disk EXCEPT !.final = Nil]
      <4>1. Published
        BY <3>1, WholeIsPublished DEF Published, ChannelInv, DiskInv
      <4>2. task.event # "Completed"
        BY <3>1, <2>1 DEF OutcomeInv, Kept
      <4> QED BY <2>3, <3>1, <3>3, <4>1, <4>2 DEF DownloadTypeOK, DiskRec
    <3> QED BY <2>11, <3>2, <3>3 DEF WriterSyncs
  <2>12. CASE Opened \/ Inspect \/ CheckOpened \/ EarlyFailure
    BY <2>2, <2>12 DEF Opened, Inspect, CheckOpened, EarlyFailure, GiveUpEarly, DownloadTypeOK, TaskRec
  <2>13. CASE PrepareTarget
    BY <2>2, <2>13 DEF PrepareTarget, GiveUpEarly, DownloadTypeOK, TaskRec, DiskRec
  <2>14. CASE EnterPause \/ PassTop \/ RequestChunk
    BY <2>2, <2>14 DEF EnterPause, PassTop, RequestChunk, DownloadTypeOK, TaskRec
  <2>15. CASE LeavePause \/ VerifyRemote \/ StreamFailure \/ DeliverChunk
    BY <2>2, <2>15 DEF LeavePause, VerifyRemote, StreamFailure, DeliverChunk, GiveUpStream, DownloadTypeOK, TaskRec
  <2>16. CASE JoinWriter \/ CloseHandle \/ RetryDelay
    BY <2>2, <2>16 DEF JoinWriter, CloseHandle, RetryDelay, DownloadTypeOK, TaskRec
  \* Removing the published file.
  <2>17. ASSUME Kept, NEW t, t.event = task.event, t \in TaskRec, task.event # "Completed", RemovePublished(t)
         PROVE  [DownloadAtomic!Next]_(DownloadAtomic!vars)
    <3>1. CASE disk' = [disk EXCEPT !.final = Nil] /\ task' = t
      BY <2>3, <2>17, <3>1 DEF Kept, DownloadTypeOK, DiskRec
    <3>2. CASE UNCHANGED disk /\ task' = [t EXCEPT !.excuse = TRUE]
      BY <2>2, <2>17, <3>2 DEF TaskRec
    <3> QED BY <2>17, <3>1, <3>2 DEF RemovePublished
  <2>18. CASE CleanUp
    <3>1. task.pc = "cleanup" /\ task.event = Nil
      BY <2>18 DEF CleanUp, OutcomeInv
    <3>2. CASE writer.st = "ok" /\ RemovePublished([task EXCEPT !.pc = "close"])
      <4>1. [task EXCEPT !.pc = "close"] \in TaskRec
        BY Names, ZenonT(40) DEF DownloadTypeOK, TaskRec
      <4>2. [task EXCEPT !.pc = "close"].event = task.event /\ Kept
        BY <3>1, <3>2 DEF DownloadTypeOK, TaskRec, OutcomeInv
      <4> QED BY <2>1, <2>17, <3>1, <3>2, <4>1, <4>2
    <3>3. CASE UNCHANGED disk /\ task'.event = task.event
      BY <2>2, <3>3
    <3> QED BY <2>18, <3>2, <3>3 DEF CleanUp, DownloadTypeOK, TaskRec
  <2>19. CASE Decide
    <3>1. task.pc = "decide" /\ task.event = Nil
      BY <2>19 DEF Decide, OutcomeInv
    <3>2. CASE task.err = Nil /\ RemovePublished([task EXCEPT !.pc = "send", !.err = "cancelled"])
      <4>1. [task EXCEPT !.pc = "send", !.err = "cancelled"] \in TaskRec
        BY Names, ZenonT(40) DEF DownloadTypeOK, TaskRec
      <4>2. [task EXCEPT !.pc = "send", !.err = "cancelled"].event = task.event /\ Kept
        BY <3>1, <3>2 DEF DownloadTypeOK, TaskRec, OutcomeInv
      <4> QED BY <2>1, <2>17, <3>1, <3>2, <4>1, <4>2
    <3>3. CASE UNCHANGED disk /\ task'.event = task.event
      BY <2>2, <3>3
    <3> QED BY <2>19, <3>2, <3>3 DEF Decide, DownloadTypeOK, TaskRec
  <2>20. CASE SendTerminal
    <3>1. task.pc = "send" /\ task.event = Nil /\ disk' = disk
      BY <2>20 DEF SendTerminal, OutcomeInv
    <3>2. CASE task'.event = "lost"
      BY <2>1, <2>4, <3>1, <3>2
    <3>3. CASE task'.event = EventOf(task.err)
      <4>1. CASE task.err = Nil
        <5>1. task'.event = "Completed" /\ Published
          BY <3>1, <3>3, <4>1 DEF EventOf, OutcomeInv, Kept
        <5>2. DownloadAtomic!Report("Completed")
          BY <3>1, <5>1 DEF DownloadAtomic!Report, Published
        <5> QED BY <5>2 DEF DownloadAtomic!Next
      <4>2. CASE task.err # Nil
        <5>1. task'.event \in {"Cancelled", "Failed"}
          BY <3>3, <4>2 DEF EventOf
        <5>2. task'.event \notin {Nil, "Completed"}
          BY <5>1, DownloadNil, Names
        <5> QED BY <2>4, <3>1, <5>2
      <4> QED BY <4>1, <4>2
    <3> QED BY <2>20, <3>2, <3>3 DEF SendTerminal, DownloadTypeOK, TaskRec
  <2>21. CASE UndoUndelivered
    <3>1. task.event = "lost" /\ Kept /\ RemovePublished([task EXCEPT !.pc = "end"])
      BY <2>21 DEF UndoUndelivered, OutcomeInv
    <3>2. [task EXCEPT !.pc = "end"] \in TaskRec
      BY Names, ZenonT(40) DEF DownloadTypeOK, TaskRec
    <3>3. [task EXCEPT !.pc = "end"].event = task.event
      BY DEF DownloadTypeOK, TaskRec
    <3> QED BY <2>17, <3>1, <3>2, <3>3
  <2>22. CASE AbortTask
    <3>1. /\ task'.event = "aborted" /\ disk' = disk
          /\ task.pc # "end" /\ task.event \in {Nil, "lost"}
      BY <2>22 DEF AbortTask, DownloadTypeOK, TaskRec, OutcomeInv
    <3>2. CASE task.event = Nil
      BY <2>1, <2>4, <3>1, <3>2
    <3>3. CASE task.event = "lost"
      BY <2>1, <3>1, <3>3 DEF DownloadAtomic!vars
    <3> QED BY <3>1, <3>2, <3>3
  <2> QED BY <2>5, <2>6, <2>7, <2>8, <2>9, <2>10, <2>11, <2>12, <2>13, <2>14, <2>15, <2>16, <2>18,
             <2>19, <2>20, <2>21, <2>22 DEF DownloadNext, WriterStep, TaskStep
<1> QED BY <1>1, <1>2, DownloadInvInit, DownloadInvStep, PTL DEF DownloadSpec, DownloadAtomic!Spec

=============================================================================
