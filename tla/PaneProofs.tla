----------------------------- MODULE PaneProofs ------------------------------
(***************************************************************************)
(* Proofs about remote edits and about the two directory panes, for any    *)
(* files, directories and bounds.                                          *)
(*                                                                         *)
(* A save replaces only its baseline because, until somebody's rewrite     *)
(* escapes the stamps (slipped), a stamp tells contents apart: the content *)
(* an edit last knew on the server is the one its expected stamp belongs   *)
(* to.  An answer must not reach an edit that waits for another operation, *)
(* so the numbers of the operations are part of the invariant.             *)
(*                                                                         *)
(* A pane shows what it asked for last.  Its history is a line: no two     *)
(* neighbours are one directory, and a navigation that waits for its       *)
(* listing still leaves the directory shown and aims at the end of its     *)
(* history.  The local pane keeps that up by the request ids of its reads. *)
(*                                                                         *)
(* The remote pane reads one stream, made of the loop's channel followed   *)
(* by the browser's, and its invariant is about that stream: browsers      *)
(* appear in it in their order, each with its pages between its handshake  *)
(* and its end, and the last request of the pane is either the last of the *)
(* commands on their way or has one answer, which is in the stream.        *)
(***************************************************************************)
EXTENDS RemoteEdit, TabPanes, SequenceTheorems, TLAPS

EditSpec == EditInit /\ [][EditNext]_editVars

Data == Nat \cup {Nil}
Numbers == Seq(Nat)
OpRec == [n : Numbers, kind : {"read", "write"}, path : EditPaths, data : Data, exp : Data, base : Data]
ResultRec == [n : Numbers, kind : {"EditFile", "Updated", "Failed"}, path : EditPaths,
              exp : Data, data : Data]
PendingRec == [n : Numbers, data : Data]
EditRec == [path : EditPaths, ready : BOOLEAN, exp : Data, uploaded : Data, observed : Data,
            pending : {Nil} \cup PendingRec, asked : BOOLEAN, failed : BOOLEAN]
CountRec == [ids : Nat, ops : Nat, contents : Nat, orders : Nat, up : BOOLEAN, drops : Nat]
WatchRec == [st : {"off", "idle", "read"}, data : Data, seen : Data]

EditTypeOK ==
  /\ edits = [files |-> edits.files, current |-> edits.current, auto |-> edits.auto, of |-> edits.of]
  /\ edits.of \in [EditIds -> {Nil} \cup EditRec]
  /\ copies \in [EditIds -> Data]
  /\ prep \in [EditIds -> {Nil} \cup [data : Data, exp : Data]]
  /\ watcher \in [EditIds -> WatchRec]
  /\ ops \in Seq(OpRec) /\ results \in Seq(ResultRec)
  /\ step \in {"none", "read", "written", "checked", "renamed"}
  /\ remote \in [EditPaths -> [data : Data, stamp : Data]]
  /\ counts \in CountRec /\ slipped \in BOOLEAN

-----------------------------------------------------------------------------
(* The invariant.                                                           *)

\* The stamp belongs to the content, as far as the program can know.
Belongs(stamp, data) == slipped \/ stamp = data

\* An operation that writes has a number that was given out.
Written(n) == \E k \in 1..counts.ops : n = <<0, k>>

\* The content that edit i waits to see stored by operation n, and nothing else.
Waits(i, n) == Of(i) # Nil /\ Of(i).pending # Nil /\ Of(i).pending.n = n

EditFits(i) ==
  Of(i) # Nil =>
    /\ Belongs(Of(i).exp, Of(i).uploaded)
    /\ Of(i).pending # Nil => Written(Of(i).pending.n)

OpFits(o) ==
  o.kind = "write" =>
    /\ Belongs(o.exp, o.base)
    /\ Written(o.n)
    /\ \A i \in EditIds : Waits(i, o.n) => Of(i).pending.data = o.data

ResultFits(r) ==
  /\ r.kind = "EditFile" => Belongs(r.exp, r.data)
  /\ r.kind = "Updated" =>
       /\ Written(r.n)
       /\ \A i \in EditIds : Waits(i, r.n) => Belongs(r.exp, Of(i).pending.data)

\* What the running operation has seen of its file.
StepFits ==
  /\ step # "none" => ops # <<>>
  /\ step \in {"written", "checked", "renamed"} => Head(ops).kind = "write"
  /\ step = "checked" => Belongs(Now(Head(ops)).stamp, Head(ops).exp)
  /\ step = "renamed" => Belongs(Now(Head(ops)).stamp, Head(ops).data)

EditInv ==
  /\ EditTypeOK
  /\ \A p \in EditPaths : Belongs(remote[p].stamp, remote[p].data)
  /\ \A i \in EditIds : prep[i] # Nil => Belongs(prep[i].exp, prep[i].data)
  /\ \A i \in EditIds : EditFits(i)
  /\ \A m \in DOMAIN ops : OpFits(ops[m])
  /\ \A m \in DOMAIN results : ResultFits(results[m])
  /\ StepFits

-----------------------------------------------------------------------------
(* Queues.                                                                  *)

\* Appending to a queue keeps its head.
LEMMA Appended ==
    ASSUME NEW D, NEW q \in Seq(D), NEW e \in D
    PROVE  /\ Append(q, e) \in Seq(D) /\ Append(q, e) # <<>>
           /\ \A m \in DOMAIN Append(q, e) :
                Append(q, e)[m] = e \/ \E l \in DOMAIN q : Append(q, e)[m] = q[l]
           /\ q # <<>> => Head(Append(q, e)) = Head(q)
<1>1. Append(q, e) \in Seq(D) /\ Len(Append(q, e)) = Len(q) + 1 /\ Append(q, e)[Len(q) + 1] = e
      /\ \A l \in 1..Len(q) : Append(q, e)[l] = q[l]
  BY AppendProperties
<1>2. Len(q) \in Nat /\ DOMAIN q = 1..Len(q)
  OBVIOUS
<1> DEFINE s == Append(q, e)
<1>3. s \in Seq(D) /\ DOMAIN s = 1..(Len(q) + 1)
  BY <1>1
<1> HIDE DEF s
<1>4. \A m \in DOMAIN s : m = Len(q) + 1 \/ m \in DOMAIN q
  BY <1>2, <1>3
<1>5. q # <<>> => Head(s) = Head(q)
  <2>1. q # <<>> => 1 \in 1..Len(q)
    BY <1>2
  <2> QED BY <1>1, <2>1 DEF s
<1>6. s # <<>>
  BY <1>2, <1>3
<1> QED BY <1>1, <1>2, <1>3, <1>4, <1>5, <1>6 DEF s

\* Taking the head of a queue.
LEMMA Taken ==
    ASSUME NEW D, NEW q \in Seq(D), q # <<>>
    PROVE  /\ Tail(q) \in Seq(D) /\ 1 \in DOMAIN q /\ Head(q) = q[1] /\ Head(q) \in D
           /\ \A m \in DOMAIN Tail(q) : \E l \in DOMAIN q : Tail(q)[m] = q[l]
<1>1. Tail(q) \in Seq(D) /\ Len(q) \in Nat \ {0} /\ Len(Tail(q)) = Len(q) - 1
      /\ \A m \in 1..Len(Tail(q)) : Tail(q)[m] = q[m + 1]
  BY HeadTailProperties
<1>2. \A m \in 1..Len(Tail(q)) : m + 1 \in 1..Len(q)
  BY <1>1
<1>3. DOMAIN q = 1..Len(q) /\ DOMAIN Tail(q) = 1..Len(Tail(q))
  BY <1>1
<1> QED BY <1>1, <1>2, <1>3

-----------------------------------------------------------------------------
(* What the steps have in common.                                           *)

\* No edit begins to wait for an operation whose number was given out before, and none
\* waits for other content than before.
WaitsKept == \A i \in EditIds, n \in Numbers :
  Written(n) /\ Waits(i, n)' => Waits(i, n) /\ Of(i)'.pending.data = Of(i).pending.data

\* The edits' answers fit as before, whatever edits are stopped or answered.
LEMMA FitsKept ==
    ASSUME EditTypeOK, EditTypeOK', WaitsKept, slipped => slipped', counts.ops <= counts'.ops
    PROVE  /\ \A o \in OpRec : OpFits(o) => OpFits(o)'
           /\ \A r \in ResultRec : ResultFits(r) => ResultFits(r)'
<1>1. counts.ops \in Nat /\ counts'.ops \in Nat
  BY DEF EditTypeOK, CountRec
<1>2. \A n : Written(n) => Written(n)'
  BY <1>1 DEF Written
<1>3. \A a, b : Belongs(a, b) => Belongs(a, b)'
  BY DEF Belongs
<1>4. ASSUME NEW o \in OpRec, OpFits(o) PROVE OpFits(o)'
  <2>1. o.n \in Numbers
    BY DEF OpRec
  <2> QED BY <1>2, <1>3, <1>4, <2>1 DEF OpFits, WaitsKept
<1>5. ASSUME NEW r \in ResultRec, ResultFits(r) PROVE ResultFits(r)'
  <2>1. r.n \in Numbers
    BY DEF ResultRec
  <2>2. r.kind = "Updated" =>
          \A i \in EditIds : Waits(i, r.n)' => Belongs(r.exp, Of(i).pending.data)'
    BY <1>3, <1>5, <2>1 DEF ResultFits, WaitsKept
  <2> QED BY <1>2, <1>3, <1>5, <2>2 DEF ResultFits
<1> QED BY <1>4, <1>5

\* A step preserves the invariant when what it adds to the queues fits.
LEMMA EditStep ==
    ASSUME EditInv, EditTypeOK', WaitsKept, slipped => slipped', counts.ops <= counts'.ops,
           \A p \in EditPaths : Belongs(remote[p].stamp, remote[p].data)',
           \A i \in EditIds : prep'[i] # Nil => prep'[i] = prep[i] \/ Belongs(prep[i].exp, prep[i].data)',
           \A i \in EditIds : EditFits(i)',
           \A m \in DOMAIN ops' : OpFits(ops[m])' \/ \E l \in DOMAIN ops : ops'[m] = ops[l],
           \A m \in DOMAIN results' :
             ResultFits(results[m])' \/ \E l \in DOMAIN results : results'[m] = results[l],
           StepFits'
    PROVE  EditInv'
<1>1. /\ \A o \in OpRec : OpFits(o) => OpFits(o)'
      /\ \A r \in ResultRec : ResultFits(r) => ResultFits(r)'
  BY FitsKept DEF EditInv
<1>2. ASSUME NEW m \in DOMAIN ops' PROVE OpFits(ops[m])'
  <2>1. SUFFICES ASSUME NEW l \in DOMAIN ops, ops'[m] = ops[l] PROVE OpFits(ops[m])'
    BY <1>2
  <2>2. ops[l] \in OpRec /\ OpFits(ops[l])
    BY DEF EditInv, EditTypeOK
  <2> DEFINE o == ops[l]
  <2> HIDE DEF o
  <2>3. o \in OpRec /\ OpFits(o)
    BY <2>2 DEF o
  <2> QED BY <1>1, <2>1, <2>3 DEF o
<1>3. ASSUME NEW m \in DOMAIN results' PROVE ResultFits(results[m])'
  BY <1>1, <1>3 DEF EditInv, EditTypeOK
<1>4. ASSUME NEW i \in EditIds, prep'[i] # Nil PROVE Belongs(prep[i].exp, prep[i].data)'
  BY <1>4 DEF EditInv, Belongs
<1> QED BY <1>2, <1>3, <1>4 DEF EditInv

\* The running operation sees its file as before.
LEMMA StepKept ==
    ASSUME StepFits, step' = step, ops # <<>> => ops' # <<>> /\ Head(ops') = Head(ops),
           remote' = remote, slipped' = slipped
    PROVE  StepFits'
BY DEF StepFits, Belongs, Now

\* Edits that end, or change neither what they wait for nor what they know of the server.
EditsHold == \A i \in EditIds :
  \/ edits'.of[i] = Nil
  \/ /\ Of(i) # Nil /\ edits'.of[i].exp = Of(i).exp /\ edits'.of[i].uploaded = Of(i).uploaded
     /\ edits'.of[i].pending = Of(i).pending

\* Such edits fit as before.
LEMMA EditsHeld ==
    ASSUME EditTypeOK, EditTypeOK', EditsHold, \A i \in EditIds : EditFits(i),
           slipped => slipped', counts.ops <= counts'.ops
    PROVE  WaitsKept /\ \A i \in EditIds : EditFits(i)'
<1>1. counts.ops \in Nat /\ counts'.ops \in Nat
  BY DEF EditTypeOK, CountRec
<1>2. \A n : Written(n) => Written(n)'
  BY <1>1 DEF Written
<1>3. WaitsKept
  BY DEF WaitsKept, Waits, EditsHold, Of
<1>4. \A i \in EditIds : EditFits(i)'
  BY <1>2 DEF EditFits, EditsHold, Of, Belongs
<1> QED BY <1>3, <1>4

\* A step that touches neither the queues nor the server, and leaves what the edits know.
LEMMA QuietStep ==
    ASSUME EditInv, EditTypeOK', EditsHold, UNCHANGED <<ops, step, results, remote, slipped>>,
           counts.ops <= counts'.ops, \A i \in EditIds : prep'[i] \in {Nil, prep[i]}
    PROVE  EditInv'
<1>1. EditTypeOK /\ StepFits /\ \A i \in EditIds : EditFits(i)
  BY DEF EditInv
<1>2. WaitsKept /\ \A i \in EditIds : EditFits(i)'
  BY <1>1, EditsHeld
<1>3. StepFits'
  BY <1>1, StepKept
<1>4. \A p \in EditPaths : Belongs(remote[p].stamp, remote[p].data)'
  BY DEF EditInv, Belongs
<1> QED BY <1>2, <1>3, <1>4, EditStep

\* Forgetting an edit, with the type of what is left.
LEMMA Forgotten ==
    ASSUME EditTypeOK, NEW i,
           \E kept, current : edits' = [edits EXCEPT !.files = kept, !.of[i] = Nil, !.current = current]
    PROVE  /\ edits' = [files |-> edits'.files, current |-> edits'.current, auto |-> edits'.auto,
                        of |-> edits'.of]
           /\ edits'.of \in [EditIds -> {Nil} \cup EditRec]
           /\ EditsHold
<1>1. PICK kept, current :
        edits' = [edits EXCEPT !.files = kept, !.of[i] = Nil, !.current = current]
  OBVIOUS
<1> DEFINE none == [edits.of EXCEPT ![i] = Nil]
<1>2. none \in [EditIds -> {Nil} \cup EditRec] /\ \A j \in EditIds : none[j] \in {Nil, edits.of[j]}
  BY DEF EditTypeOK
<1>3. edits = [files |-> edits.files, current |-> edits.current, auto |-> edits.auto, of |-> edits.of]
  BY DEF EditTypeOK
<1>4. edits' = [files |-> kept, current |-> current, auto |-> edits.auto, of |-> none]
  BY <1>1, <1>3
<1> HIDE DEF none
<1>5. EditsHold
  BY <1>2, <1>4 DEF EditsHold, Of
<1> QED BY <1>2, <1>4, <1>5

\* The invariant holds at the start.
LEMMA EditInvInit == EditInit => EditInv
<1> SUFFICES ASSUME EditInit PROVE EditInv
  OBVIOUS
<1>1. EditTypeOK
  <2>1. edits = [files |-> edits.files, current |-> edits.current, auto |-> edits.auto, of |-> edits.of]
        /\ edits.of \in [EditIds -> {Nil} \cup EditRec]
    BY DEF EditInit, NoEdits
  <2>2. [st |-> "off", data |-> Nil, seen |-> Nil] \in WatchRec
    BY DEF WatchRec, Data
  <2>3. [data |-> 0, stamp |-> 0] \in [data : Data, stamp : Data]
    BY DEF Data
  <2>4. counts \in CountRec
    BY DEF EditInit, CountRec
  <2>5. copies \in [EditIds -> Data] /\ prep \in [EditIds -> {Nil} \cup [data : Data, exp : Data]]
    BY DEF EditInit, Data
  <2>6. watcher \in [EditIds -> WatchRec] /\ remote \in [EditPaths -> [data : Data, stamp : Data]]
    BY <2>2, <2>3 DEF EditInit
  <2>7. <<>> \in Seq(OpRec) /\ <<>> \in Seq(ResultRec)
    BY EmptySeq
  <2>8. ops = <<>> /\ results = <<>> /\ step = "none" /\ slipped \in BOOLEAN
    BY DEF EditInit
  <2> QED BY <2>1, <2>4, <2>5, <2>6, <2>7, <2>8 DEF EditTypeOK
<1>2. (\A p \in EditPaths : Belongs(remote[p].stamp, remote[p].data))
      /\ (\A i \in EditIds : prep[i] = Nil /\ Of(i) = Nil) /\ ops = <<>> /\ results = <<>>
      /\ step = "none"
  BY DEF EditInit, NoEdits, Of, Belongs
<1> QED BY <1>1, <1>2 DEF EditInv, EditFits, StepFits

-----------------------------------------------------------------------------
(* Steps that touch neither the queues nor the server.                      *)

\* Changing one edit.
LEMMA OneEdit ==
    ASSUME EditTypeOK, NEW i \in EditIds, NEW e \in EditRec,
           edits' = [edits EXCEPT !.of[i] = e]
    PROVE  /\ edits' = [files |-> edits'.files, current |-> edits'.current, auto |-> edits'.auto,
                        of |-> edits'.of]
           /\ edits'.of \in [EditIds -> {Nil} \cup EditRec]
           /\ \A j \in EditIds : edits'.of[j] = IF j = i THEN e ELSE Of(j)
<1> DEFINE changed == [edits.of EXCEPT ![i] = e]
<1>1. changed \in [EditIds -> {Nil} \cup EditRec]
      /\ \A j \in EditIds : changed[j] = IF j = i THEN e ELSE edits.of[j]
  BY DEF EditTypeOK
<1>2. edits = [files |-> edits.files, current |-> edits.current, auto |-> edits.auto, of |-> edits.of]
  BY DEF EditTypeOK
<1>3. edits' = [files |-> edits.files, current |-> edits.current, auto |-> edits.auto, of |-> changed]
  BY <1>2
<1> HIDE DEF changed
<1>4. edits'.of = changed
  BY <1>3
<1>5. \A j \in EditIds : edits'.of[j] = IF j = i THEN e ELSE Of(j)
  BY <1>1, <1>4 DEF Of
<1> QED BY <1>1, <1>3, <1>4, <1>5

\* The bounds of the model are counted without giving out an operation's number.
LEMMA Counted ==
    ASSUME counts \in CountRec,
           \/ counts' = [counts EXCEPT !.ids = @ + 1]
           \/ counts' = [counts EXCEPT !.contents = @ + 1]
           \/ counts' = [counts EXCEPT !.orders = @ + 1]
           \/ counts' = [counts EXCEPT !.up = FALSE, !.drops = 1]
           \/ counts' = [counts EXCEPT !.up = TRUE]
           \/ counts' = counts
    PROVE  counts' \in CountRec /\ counts.ops <= counts'.ops
<1>1. /\ counts.ids \in Nat /\ counts.ops \in Nat /\ counts.contents \in Nat /\ counts.orders \in Nat
      /\ counts.drops \in Nat /\ counts.up \in BOOLEAN
  BY DEF CountRec
<1>2. counts = [ids |-> counts.ids, ops |-> counts.ops, contents |-> counts.contents,
                orders |-> counts.orders, up |-> counts.up, drops |-> counts.drops]
  BY DEF CountRec
<1>3. counts.ids + 1 \in Nat /\ counts.contents + 1 \in Nat /\ counts.orders + 1 \in Nat /\ 1 \in Nat
  BY <1>1
<1>4. counts' \in CountRec
  BY <1>1, <1>2, <1>3, Zenon DEF CountRec
<1>5. counts'.ops = counts.ops
  BY <1>2
<1> QED BY <1>1, <1>4, <1>5

\* stop_current.
LEMMA StopEditKeeps == EditInv /\ StopEdit => EditInv'
<1> SUFFICES ASSUME EditInv, StopEdit PROVE EditInv'
  OBVIOUS
<1>1. EditTypeOK
  BY DEF EditInv
<1> DEFINE i == edits.current
<1>2. Forget(edits, i) =
        [edits EXCEPT !.files = Without(edits.files, i), !.of[i] = Nil,
                      !.current = HeadOr(Without(edits.files, i))]
  BY DEF Forget
<1>3. \E kept, current : edits' = [edits EXCEPT !.files = kept, !.of[i] = Nil, !.current = current]
  BY <1>2 DEF StopEdit, EditTypeOK
<1> HIDE DEF i
<1>4. /\ edits' = [files |-> edits'.files, current |-> edits'.current, auto |-> edits'.auto, of |-> edits'.of]
      /\ edits'.of \in [EditIds -> {Nil} \cup EditRec]
      /\ EditsHold
  BY <1>1, <1>3, Forgotten
<1>5. UNCHANGED <<copies, handed, prep, watcher, ops, step, results, remote, counts, slipped>>
  BY DEF StopEdit
<1>6. EditTypeOK'
  BY <1>1, <1>4, <1>5 DEF EditTypeOK
<1>7. counts.ops <= counts'.ops
  BY <1>1, <1>5 DEF EditTypeOK, CountRec
<1> QED BY <1>4, <1>5, <1>6, <1>7, QuietStep

\* request_upload.
LEMMA RequestUploadKeeps == EditInv /\ RequestUpload => EditInv'
<1> SUFFICES ASSUME EditInv, RequestUpload PROVE EditInv'
  OBVIOUS
<1>1. EditTypeOK
  BY DEF EditInv
<1> PICK i \in EditIds :
      /\ Of(i) # Nil
      /\ edits' = [edits EXCEPT !.of[i].asked = TRUE, !.of[i].failed = FALSE]
  BY DEF RequestUpload
<1> DEFINE e == [Of(i) EXCEPT !.asked = TRUE, !.failed = FALSE]
<1>2. Of(i) \in EditRec
  BY <1>1 DEF EditTypeOK, Of
<1>3. e \in EditRec
  BY <1>2 DEF EditRec
<1>4. e.exp = Of(i).exp /\ e.uploaded = Of(i).uploaded /\ e.pending = Of(i).pending
  BY <1>2 DEF EditRec
<1>5. edits' = [edits EXCEPT !.of[i] = e]
  BY <1>1 DEF EditTypeOK, Of
<1> HIDE DEF e
<1>6. /\ edits' = [files |-> edits'.files, current |-> edits'.current, auto |-> edits'.auto, of |-> edits'.of]
      /\ edits'.of \in [EditIds -> {Nil} \cup EditRec]
      /\ \A j \in EditIds : edits'.of[j] = IF j = i THEN e ELSE Of(j)
  BY <1>1, <1>3, <1>5, OneEdit
<1>7. EditsHold
  BY <1>4, <1>6 DEF EditsHold
<1>8. UNCHANGED <<copies, handed, prep, watcher, ops, step, results, remote, slipped>>
      /\ counts' = [counts EXCEPT !.orders = @ + 1]
  BY DEF RequestUpload
<1>9. counts' \in CountRec /\ counts.ops <= counts'.ops
  BY <1>1, <1>8, Counted DEF EditTypeOK
<1>10. EditTypeOK'
  BY <1>1, <1>6, <1>8, <1>9 DEF EditTypeOK
<1> QED BY <1>7, <1>8, <1>9, <1>10, QuietStep

\* The switch for automatic uploads.
LEMMA ToggleAutoKeeps == EditInv /\ ToggleAuto => EditInv'
<1> SUFFICES ASSUME EditInv, ToggleAuto PROVE EditInv'
  OBVIOUS
<1>1. EditTypeOK
  BY DEF EditInv
<1>2. UNCHANGED <<copies, handed, prep, watcher, ops, step, results, remote, slipped>>
      /\ counts' = [counts EXCEPT !.orders = @ + 1] /\ edits' = [edits EXCEPT !.auto = ~@]
  BY DEF ToggleAuto
<1>3. edits' = [files |-> edits.files, current |-> edits.current, auto |-> ~edits.auto, of |-> edits.of]
  BY <1>1, <1>2 DEF EditTypeOK
<1>4. edits' = [files |-> edits'.files, current |-> edits'.current, auto |-> edits'.auto, of |-> edits'.of]
      /\ edits'.of = edits.of
  BY <1>3
<1>5. EditsHold
  BY <1>4 DEF EditsHold, Of
<1>6. counts' \in CountRec /\ counts.ops <= counts'.ops
  BY <1>1, <1>2, Counted DEF EditTypeOK
<1>7. EditTypeOK'
  BY <1>1, <1>2, <1>4, <1>6 DEF EditTypeOK
<1> QED BY <1>2, <1>5, <1>6, <1>7, QuietStep

\* The edits stay as they are.
LEMMA SameEdits == EditTypeOK /\ edits' = edits => EditsHold
BY DEF EditsHold, Of

\* The application saves the copy.
LEMMA EditorSavesKeeps == \A i \in EditIds : EditInv /\ EditorSaves(i) => EditInv'
<1> SUFFICES ASSUME NEW i \in EditIds, EditInv, EditorSaves(i) PROVE EditInv'
  OBVIOUS
<1>1. EditTypeOK
  BY DEF EditInv
<1>2. UNCHANGED <<edits, handed, prep, watcher, ops, step, results, remote, slipped>>
      /\ counts' = [counts EXCEPT !.contents = @ + 1]
      /\ copies' = [copies EXCEPT ![i] = counts.contents + 1]
  BY DEF EditorSaves
<1>3. counts' \in CountRec /\ counts.ops <= counts'.ops
  BY <1>1, <1>2, Counted DEF EditTypeOK
<1>4. counts.contents + 1 \in Data
  BY <1>1 DEF EditTypeOK, CountRec, Data
<1>5. copies' \in [EditIds -> Data]
  BY <1>1, <1>2, <1>4 DEF EditTypeOK
<1>6. EditTypeOK' /\ EditsHold
  BY <1>1, <1>2, <1>3, <1>5, SameEdits DEF EditTypeOK
<1> QED BY <1>2, <1>3, <1>6, QuietStep

\* create_copy.
LEMMA CreateCopyKeeps == \A i \in EditIds : EditInv /\ CreateCopy(i) => EditInv'
<1> SUFFICES ASSUME NEW i \in EditIds, EditInv, CreateCopy(i) PROVE EditInv'
  OBVIOUS
<1>1. EditTypeOK
  BY DEF EditInv
<1>2. UNCHANGED <<handed, watcher, ops, step, results, remote, counts, slipped>> /\ prep[i] # Nil
  BY DEF CreateCopy
<1>3. copies' \in [EditIds -> Data]
  <2>1. prep[i].data \in Data
    BY <1>1, <1>2 DEF EditTypeOK
  <2>2. copies' = copies \/ copies' = [copies EXCEPT ![i] = prep[i].data]
    BY DEF CreateCopy
  <2> QED BY <1>1, <2>1, <2>2 DEF EditTypeOK
<1>4. prep' \in [EditIds -> {Nil} \cup [data : Data, exp : Data]]
      /\ \A k \in EditIds : prep'[k] \in {Nil, prep[k]}
  <2>1. prep' = prep \/ prep' = [prep EXCEPT ![i] = Nil]
    BY DEF CreateCopy
  <2> QED BY <1>1, <2>1 DEF EditTypeOK
<1>5. EditTypeOK' /\ EditsHold
  <2>1. CASE edits' = edits
    BY <1>1, <1>2, <1>3, <1>4, <2>1, SameEdits DEF EditTypeOK
  <2>2. CASE edits' = Forget(edits, i)
    <3>1. \E kept, current : edits' = [edits EXCEPT !.files = kept, !.of[i] = Nil, !.current = current]
      BY <2>2 DEF Forget
    <3>2. /\ edits' = [files |-> edits'.files, current |-> edits'.current, auto |-> edits'.auto, of |-> edits'.of]
          /\ edits'.of \in [EditIds -> {Nil} \cup EditRec]
          /\ EditsHold
      BY <1>1, <3>1, Forgotten
    <3> QED BY <1>1, <1>2, <1>3, <1>4, <3>2 DEF EditTypeOK
  <2> QED BY <2>1, <2>2 DEF CreateCopy
<1>6. counts.ops <= counts'.ops
  BY <1>1, <1>2, Counted DEF EditTypeOK
<1> QED BY <1>2, <1>4, <1>5, <1>6, QuietStep

\* A tick of watch_copy.
LEMMA WatchTick0Keeps == \A i \in EditIds : EditInv /\ WatchTick0(i) => EditInv'
<1> SUFFICES ASSUME NEW i \in EditIds, EditInv, WatchTick0(i) PROVE EditInv'
  OBVIOUS
<1>1. EditTypeOK
  BY DEF EditInv
<1>2. UNCHANGED <<edits, copies, handed, prep, ops, step, results, remote, counts, slipped>>
  BY DEF WatchTick0
<1>3. watcher' \in [EditIds -> WatchRec]
  <2>1. watcher[i] \in WatchRec /\ copies[i] \in Data
    BY <1>1 DEF EditTypeOK
  <2>2. watcher' = [watcher EXCEPT ![i] = [@ EXCEPT !.st = "off"]]
        \/ watcher' = [watcher EXCEPT ![i] = [@ EXCEPT !.st = "read", !.data = copies[i]]]
    BY <1>1 DEF WatchTick0, EditTypeOK
  <2>3. [watcher[i] EXCEPT !.st = "off"] \in WatchRec
        /\ [watcher[i] EXCEPT !.st = "read", !.data = copies[i]] \in WatchRec
    BY <2>1 DEF WatchRec
  <2> QED BY <1>1, <2>2, <2>3 DEF EditTypeOK
<1>4. EditTypeOK' /\ EditsHold
  BY <1>1, <1>2, <1>3, SameEdits DEF EditTypeOK
<1>5. counts.ops <= counts'.ops
  BY <1>1, <1>2, Counted DEF EditTypeOK
<1>6. \A k \in EditIds : prep'[k] \in {Nil, prep[k]}
  BY <1>2
<1> QED BY <1>2, <1>4, <1>5, <1>6, QuietStep

\* No edit at all.
LEMMA NoEditsLeft ==
    ASSUME edits' = NoEdits
    PROVE  /\ edits' = [files |-> edits'.files, current |-> edits'.current, auto |-> edits'.auto,
                        of |-> edits'.of]
           /\ edits'.of \in [EditIds -> {Nil} \cup EditRec]
           /\ EditsHold
<1>1. edits'.of = [i \in EditIds |-> Nil]
  BY DEF NoEdits
<1>2. edits' = [files |-> edits'.files, current |-> edits'.current, auto |-> edits'.auto, of |-> edits'.of]
  BY DEF NoEdits
<1> QED BY <1>1, <1>2 DEF EditsHold

\* The browser channel is reopened.
LEMMA BrowserReopenedKeeps == EditInv /\ BrowserReopened => EditInv'
<1> SUFFICES ASSUME EditInv, BrowserReopened PROVE EditInv'
  OBVIOUS
<1>1. EditTypeOK
  BY DEF EditInv
<1>2. UNCHANGED <<copies, handed, prep, watcher, ops, step, results, remote, counts, slipped>>
      /\ edits' = NoEdits
  BY DEF BrowserReopened
<1>3. counts.ops <= counts'.ops /\ counts' \in CountRec
  BY <1>1, <1>2, Counted DEF EditTypeOK
<1>4. EditTypeOK' /\ EditsHold
  BY <1>1, <1>2, NoEditsLeft DEF EditTypeOK
<1> QED BY <1>2, <1>3, <1>4, QuietStep

\* The next attempt connects.
LEMMA EditsBackKeeps == EditInv /\ EditsBack => EditInv'
<1> SUFFICES ASSUME EditInv, EditsBack PROVE EditInv'
  OBVIOUS
<1>1. EditTypeOK
  BY DEF EditInv
<1>2. UNCHANGED <<edits, copies, handed, prep, watcher, ops, step, results, remote, slipped>>
      /\ counts' = [counts EXCEPT !.up = TRUE]
  BY DEF EditsBack
<1>3. counts.ops <= counts'.ops /\ counts' \in CountRec
  BY <1>1, <1>2, Counted DEF EditTypeOK
<1>4. EditTypeOK' /\ EditsHold
  BY <1>1, <1>2, <1>3, SameEdits DEF EditTypeOK
<1> QED BY <1>2, <1>3, <1>4, QuietStep

\* The attempt ends.
LEMMA EditsLostKeeps == EditInv /\ EditsLost => EditInv'
<1> SUFFICES ASSUME EditInv, EditsLost PROVE EditInv'
  OBVIOUS
<1>1. EditTypeOK /\ \A i \in EditIds : EditFits(i)
  BY DEF EditInv
<1>2. UNCHANGED <<copies, handed, prep, watcher, remote, slipped>>
      /\ counts' = [counts EXCEPT !.up = FALSE, !.drops = 1]
      /\ edits' = NoEdits /\ ops' = <<>> /\ step' = "none" /\ results' = <<>>
  BY DEF EditsLost
<1>3. counts.ops <= counts'.ops /\ counts' \in CountRec
  BY <1>1, <1>2, Counted DEF EditTypeOK
<1>4. <<>> \in Seq(OpRec) /\ <<>> \in Seq(ResultRec)
  BY EmptySeq
<1>5. EditTypeOK' /\ EditsHold
  BY <1>1, <1>2, <1>3, <1>4, NoEditsLeft DEF EditTypeOK
<1>6. WaitsKept /\ \A i \in EditIds : EditFits(i)'
  BY <1>1, <1>2, <1>3, <1>5, EditsHeld
<1>7. StepFits'
  BY <1>2 DEF StepFits
<1>8. \A p \in EditPaths : Belongs(remote[p].stamp, remote[p].data)'
  BY <1>2 DEF EditInv, Belongs
<1> QED BY <1>2, <1>3, <1>5, <1>6, <1>7, <1>8, EditStep

-----------------------------------------------------------------------------
(* Steps that change one edit.                                              *)

\* An edit learns another baseline, or no longer waits.
LEMMA EditReplaced ==
    ASSUME EditTypeOK, NEW i \in EditIds, NEW e \in EditRec, Of(i) # Nil,
           edits' = [edits EXCEPT !.of[i] = e],
           e.pending \in {Nil, Of(i).pending}, Belongs(e.exp, e.uploaded),
           \A j \in EditIds : EditFits(j), slipped' = slipped, counts'.ops >= counts.ops,
           counts' \in CountRec
    PROVE  /\ edits' = [files |-> edits'.files, current |-> edits'.current, auto |-> edits'.auto,
                        of |-> edits'.of]
           /\ edits'.of \in [EditIds -> {Nil} \cup EditRec]
           /\ WaitsKept /\ \A j \in EditIds : EditFits(j)'
<1>1. /\ edits' = [files |-> edits'.files, current |-> edits'.current, auto |-> edits'.auto, of |-> edits'.of]
      /\ edits'.of \in [EditIds -> {Nil} \cup EditRec]
      /\ \A j \in EditIds : edits'.of[j] = IF j = i THEN e ELSE Of(j)
  BY OneEdit
<1>2. counts.ops \in Nat /\ counts'.ops \in Nat
  BY DEF EditTypeOK, CountRec
<1>3. \A n : Written(n) => Written(n)'
  BY <1>2 DEF Written
<1>4. WaitsKept
  BY <1>1 DEF WaitsKept, Waits, Of
<1>5. ASSUME NEW j \in EditIds PROVE EditFits(j)'
  <2>1. CASE j = i
    <3>1. edits'.of[j] = e
      BY <1>1, <2>1
    <3>2. Belongs(e.exp, e.uploaded)'
      BY DEF Belongs
    <3>3. e.pending # Nil => Written(e.pending.n)'
      BY <1>3 DEF EditFits
    <3> QED BY <3>1, <3>2, <3>3 DEF EditFits, Of
  <2>2. CASE j # i
    BY <1>1, <1>3, <2>2 DEF EditFits, Of, Belongs
  <2> QED BY <2>1, <2>2
<1> QED BY <1>1, <1>4, <1>5

\* The edit takes the copy it downloaded.
LEMMA AcceptCopyKeeps == \A i \in EditIds : EditInv /\ AcceptCopy(i) => EditInv'
<1> SUFFICES ASSUME NEW i \in EditIds, EditInv, AcceptCopy(i) PROVE EditInv'
  OBVIOUS
<1>1. EditTypeOK /\ \A j \in EditIds : EditFits(j)
  BY DEF EditInv
<1>2. UNCHANGED <<ops, step, results, remote, counts, slipped>> /\ prep[i] # Nil
      /\ prep' = [prep EXCEPT ![i] = Nil]
  BY DEF AcceptCopy
<1>3. prep' \in [EditIds -> {Nil} \cup [data : Data, exp : Data]]
      /\ \A k \in EditIds : prep'[k] \in {Nil, prep[k]}
  BY <1>1, <1>2 DEF EditTypeOK
<1>4. counts' \in CountRec /\ counts.ops <= counts'.ops /\ counts'.ops >= counts.ops
  BY <1>1, <1>2, Counted DEF EditTypeOK, CountRec
<1>5. CASE ~Connected(i)
  <2>1. UNCHANGED <<edits, handed, watcher>> /\ copies' = [copies EXCEPT ![i] = Nil]
    BY <1>5 DEF AcceptCopy, RemoveUnused
  <2>2. copies' \in [EditIds -> Data]
    BY <1>1, <2>1 DEF EditTypeOK, Data
  <2>3. EditTypeOK' /\ EditsHold
    BY <1>1, <1>2, <1>3, <2>1, <2>2, SameEdits DEF EditTypeOK
  <2> QED BY <1>2, <1>3, <1>4, <2>3, QuietStep
<1>6. CASE Connected(i)
  <2> DEFINE e == [Of(i) EXCEPT !.ready = TRUE, !.exp = prep[i].exp, !.uploaded = prep[i].data,
                                !.observed = prep[i].data]
  <2>1. Of(i) # Nil /\ Of(i) \in EditRec /\ prep[i].exp \in Data /\ prep[i].data \in Data
    BY <1>1, <1>2, <1>6 DEF EditTypeOK, Of, Connected
  <2>2. e \in EditRec
    BY <2>1 DEF EditRec
  <2>3. e.pending = Of(i).pending /\ e.exp = prep[i].exp /\ e.uploaded = prep[i].data
    BY <2>1 DEF EditRec
  <2>4. edits' = [edits EXCEPT !.of[i] = e]
    BY <1>1, <1>6 DEF AcceptCopy, EditTypeOK, Of
  <2> HIDE DEF e
  <2>5. Belongs(e.exp, e.uploaded)
    BY <1>2, <2>3 DEF EditInv
  <2>6. /\ edits' = [files |-> edits'.files, current |-> edits'.current, auto |-> edits'.auto, of |-> edits'.of]
        /\ edits'.of \in [EditIds -> {Nil} \cup EditRec]
        /\ WaitsKept /\ \A j \in EditIds : EditFits(j)'
    BY <1>1, <1>2, <1>4, <2>1, <2>2, <2>3, <2>4, <2>5, EditReplaced
  <2>7. watcher' \in [EditIds -> WatchRec] /\ copies' = copies
    <3>1. watcher[i] \in WatchRec
      BY <1>1 DEF EditTypeOK
    <3>2. watcher' = [watcher EXCEPT ![i] = [@ EXCEPT !.st = "idle"]] /\ copies' = copies
      BY <1>1, <1>6 DEF AcceptCopy, EditTypeOK
    <3>3. [watcher[i] EXCEPT !.st = "idle"] \in WatchRec
      BY <3>1 DEF WatchRec
    <3> QED BY <1>1, <3>2, <3>3 DEF EditTypeOK
  <2>8. EditTypeOK'
    BY <1>1, <1>2, <1>3, <1>4, <2>6, <2>7 DEF EditTypeOK
  <2>9. StepFits'
    BY <1>2, StepKept DEF EditInv
  <2>10. \A p \in EditPaths : Belongs(remote[p].stamp, remote[p].data)'
    BY <1>2 DEF EditInv, Belongs
  <2> QED BY <1>2, <1>3, <1>4, <2>6, <2>8, <2>9, <2>10, EditStep
<1> QED BY <1>5, <1>6

\* on_edit_remote_sftp of a file that is not open.
LEMMA EditFileKeeps == \A p \in EditPaths : EditInv /\ EditFile(p) => EditInv'
<1> SUFFICES ASSUME NEW p \in EditPaths, EditInv, EditFile(p) PROVE EditInv'
  OBVIOUS
<1>1. EditTypeOK /\ StepFits /\ \A j \in EditIds : EditFits(j)
  BY DEF EditInv
<1> DEFINE i == counts.ids + 1
<1> DEFINE op == [n |-> <<i>>, kind |-> "read", path |-> p, data |-> Nil, exp |-> 0, base |-> Nil]
<1>2. UNCHANGED <<copies, handed, prep, watcher, step, results, remote, slipped>>
      /\ counts' = [counts EXCEPT !.ids = @ + 1]
  BY DEF EditFile
<1>3. counts' \in CountRec /\ counts.ops <= counts'.ops /\ counts'.ops >= counts.ops
  <2>1. counts' \in CountRec /\ counts.ops <= counts'.ops
    BY <1>1, <1>2, Counted DEF EditTypeOK
  <2> QED BY <1>1, <2>1 DEF EditTypeOK, CountRec
<1>4. i \in Nat
  BY <1>1 DEF EditTypeOK, CountRec
<1>5. \A q \in EditPaths : Belongs(remote[q].stamp, remote[q].data)'
  BY <1>2 DEF EditInv, Belongs
<1>6. CASE UNCHANGED <<edits, ops>>
  <2>1. EditTypeOK' /\ EditsHold
    BY <1>1, <1>2, <1>3, <1>6, SameEdits DEF EditTypeOK
  <2> QED BY <1>2, <1>3, <1>6, <2>1, QuietStep
<1>7. CASE edits' = OpenEdit(edits, i, p) /\ ops' = Append(ops, op)
  <2> DEFINE e == [path |-> p, ready |-> FALSE, exp |-> 0, uploaded |-> 0, observed |-> 0, pending |-> Nil,
                   asked |-> FALSE, failed |-> FALSE]
  <2>1. e \in EditRec /\ e.pending = Nil /\ e.exp = 0 /\ e.uploaded = 0
    BY DEF EditRec, Data
  <2>2. op \in OpRec /\ op.kind = "read"
    <3>1. <<i>> \in Numbers
      BY <1>4 DEF Numbers
    <3> QED BY <3>1, Zenon DEF OpRec, Data
  <2>3. /\ edits' = [files |-> edits'.files, current |-> edits'.current, auto |-> edits'.auto, of |-> edits'.of]
        /\ edits'.of = [edits.of EXCEPT ![i] = e]
    <3>1. edits = [files |-> edits.files, current |-> edits.current, auto |-> edits.auto, of |-> edits.of]
      BY <1>1 DEF EditTypeOK
    <3>2. edits' = [files |-> Append(edits.files, i), current |-> i, auto |-> edits.auto,
                    of |-> [edits.of EXCEPT ![i] = e]]
      BY <1>7, <3>1 DEF OpenEdit
    <3> HIDE DEF e
    <3> QED BY <3>2
  <2> HIDE DEF e, op, i
  <2>4. edits'.of \in [EditIds -> {Nil} \cup EditRec]
        /\ \A j \in EditIds : edits'.of[j] = e \/ edits'.of[j] = Of(j)
    BY <1>1, <2>1, <2>3 DEF EditTypeOK, Of
  <2>5. /\ ops' \in Seq(OpRec) /\ ops' # <<>>
        /\ \A m \in DOMAIN ops' : ops'[m] = op \/ \E l \in DOMAIN ops : ops'[m] = ops[l]
        /\ ops # <<>> => Head(ops') = Head(ops)
    BY <1>1, <1>7, <2>2, Appended DEF EditTypeOK
  <2>6. EditTypeOK'
    BY <1>1, <1>2, <1>3, <2>3, <2>4, <2>5 DEF EditTypeOK
  <2>7. WaitsKept
    BY <2>1, <2>4 DEF WaitsKept, Waits, Of
  <2>8. \A j \in EditIds : EditFits(j)'
    <3>1. counts.ops \in Nat /\ counts'.ops \in Nat
      BY <1>1, <1>3 DEF EditTypeOK, CountRec
    <3>2. \A n : Written(n) => Written(n)'
      BY <1>3, <3>1 DEF Written
    <3> QED BY <1>1, <1>2, <2>1, <2>4, <3>2 DEF EditFits, Of, Belongs
  <2>9. \A m \in DOMAIN ops' : OpFits(ops[m])' \/ \E l \in DOMAIN ops : ops'[m] = ops[l]
    BY <2>2, <2>5 DEF OpFits
  <2>10. StepFits'
    BY <1>1, <1>2, <2>5, StepKept
  <2> QED BY <1>2, <1>3, <1>5, <2>6, <2>7, <2>8, <2>9, <2>10, EditStep
<1> QED BY <1>6, <1>7 DEF EditFile

\* Somebody rewrites the remote file.
LEMMA SomebodyWritesKeeps == \A p \in EditPaths : EditInv /\ SomebodyWrites(p) => EditInv'
<1> SUFFICES ASSUME NEW p \in EditPaths, EditInv, SomebodyWrites(p) PROVE EditInv'
  OBVIOUS
<1>1. EditTypeOK /\ StepFits /\ \A j \in EditIds : EditFits(j)
  BY DEF EditInv
<1> DEFINE c == counts.contents + 1
<1>2. UNCHANGED <<edits, copies, handed, prep, watcher, ops, step, results>>
  BY DEF SomebodyWrites
<1>3. counts' = [counts EXCEPT !.contents = @ + 1]
  BY DEF SomebodyWrites
<1>4. counts' \in CountRec /\ counts.ops <= counts'.ops
  BY <1>1, <1>3, Counted DEF EditTypeOK
<1>5. c \in Data
  BY <1>1 DEF EditTypeOK, CountRec, Data
<1>6. \/ /\ remote' = [remote EXCEPT ![p] = [data |-> c, stamp |-> c]]
         /\ slipped' = (slipped \/ step \in {"checked", "renamed"})
      \/ /\ remote' = [remote EXCEPT ![p] = [@ EXCEPT !.data = c]]
         /\ slipped' = TRUE
  BY <1>1 DEF SomebodyWrites, EditTypeOK
<1> HIDE DEF c
<1>7. remote' \in [EditPaths -> [data : Data, stamp : Data]] /\ slipped' \in BOOLEAN
      /\ (slipped => slipped') /\ (step \in {"checked", "renamed"} => slipped')
      /\ \A q \in EditPaths : slipped' \/ remote'[q].stamp = remote'[q].data
  <2>1. remote[p] \in [data : Data, stamp : Data]
    BY <1>1 DEF EditTypeOK
  <2>2. [data |-> c, stamp |-> c] \in [data : Data, stamp : Data]
        /\ [remote[p] EXCEPT !.data = c] \in [data : Data, stamp : Data]
    BY <1>5, <2>1
  <2>3. \A q \in EditPaths : slipped \/ remote[q].stamp = remote[q].data
    BY DEF EditInv, Belongs
  <2>4. remote' \in [EditPaths -> [data : Data, stamp : Data]]
    BY <1>1, <1>6, <2>2 DEF EditTypeOK
  <2>5. \A q \in EditPaths : slipped' \/ remote'[q].stamp = remote'[q].data
    BY <1>1, <1>6, <2>3 DEF EditTypeOK
  <2> QED BY <1>1, <1>6, <2>4, <2>5 DEF EditTypeOK
<1>8. EditTypeOK' /\ EditsHold
  BY <1>1, <1>2, <1>4, <1>7, SameEdits DEF EditTypeOK
<1>9. WaitsKept /\ \A i \in EditIds : EditFits(i)'
  BY <1>1, <1>4, <1>7, <1>8, EditsHeld
<1>10. StepFits'
  BY <1>1, <1>2, <1>7 DEF StepFits, Belongs, Now
<1>11. \A q \in EditPaths : Belongs(remote[q].stamp, remote[q].data)'
  BY <1>7 DEF Belongs
<1> QED BY <1>2, <1>4, <1>7, <1>8, <1>9, <1>10, <1>11, EditStep

\* A queued save bears a number that no operation or answer has yet.
LEMMA SaveQueued ==
    ASSUME EditInv, NEW i \in EditIds, Of(i) # Nil, NEW e \in EditRec, NEW op \in OpRec,
           NEW n \in Numbers, n = <<0, counts.ops + 1>>,
           e.pending.n = n, e.pending.data = op.data,
           e.exp = Of(i).exp, e.uploaded = Of(i).uploaded,
           op.kind = "write", op.n = n, op.exp = Of(i).exp, op.base = Of(i).uploaded,
           edits' = [edits EXCEPT !.of[i] = e], ops' = Append(ops, op),
           counts' \in CountRec, counts'.ops = counts.ops + 1,
           UNCHANGED <<copies, handed, prep, step, results, remote, slipped>>,
           watcher' \in [EditIds -> WatchRec]
    PROVE  EditInv'
<1>1. EditTypeOK /\ StepFits /\ (\A j \in EditIds : EditFits(j)) /\ counts.ops \in Nat
  BY DEF EditInv, EditTypeOK, CountRec
<1>2. Written(n)' /\ ~Written(n)
  <2>1. counts'.ops \in 1..counts'.ops
    BY <1>1
  <2>2. Written(n)'
    BY <2>1 DEF Written
  <2>3. ASSUME NEW k \in 1..counts.ops PROVE n # <<0, k>>
    BY <1>1
  <2> QED BY <2>2, <2>3 DEF Written
<1>3. \A k : Written(k) => Written(k)'
  BY <1>1 DEF Written
<1>4. /\ edits' = [files |-> edits'.files, current |-> edits'.current, auto |-> edits'.auto, of |-> edits'.of]
      /\ edits'.of \in [EditIds -> {Nil} \cup EditRec]
      /\ \A j \in EditIds : edits'.of[j] = IF j = i THEN e ELSE Of(j)
  BY <1>1, OneEdit
<1>5. /\ ops' \in Seq(OpRec) /\ ops' # <<>>
      /\ \A m \in DOMAIN ops' : ops'[m] = op \/ \E l \in DOMAIN ops : ops'[m] = ops[l]
      /\ ops # <<>> => Head(ops') = Head(ops)
  BY <1>1, Appended DEF EditTypeOK
<1>6. EditTypeOK'
  BY <1>1, <1>4, <1>5 DEF EditTypeOK
<1>7. WaitsKept
  <2>1. ASSUME NEW j \in EditIds, NEW k \in Numbers, Written(k), Waits(j, k)'
        PROVE  Waits(j, k) /\ Of(j)'.pending.data = Of(j).pending.data
    <3>1. k # n
      BY <1>2, <2>1
    <3>2. j # i
      BY <1>4, <2>1, <3>1 DEF Waits, Of
    <3>3. edits'.of[j] = edits.of[j]
      BY <1>4, <3>2 DEF Of
    <3> QED BY <2>1, <3>3 DEF Waits, Of
  <2> QED BY <2>1 DEF WaitsKept
<1>8. Belongs(Of(i).exp, Of(i).uploaded)
  BY <1>1 DEF EditFits
<1>9. \A j \in EditIds : EditFits(j)'
  <2>1. Belongs(e.exp, e.uploaded)' /\ Written(e.pending.n)'
    BY <1>2, <1>8 DEF Belongs
  <2>2. ASSUME NEW j \in EditIds, j # i PROVE EditFits(j)'
    BY <1>1, <1>3, <1>4, <2>2 DEF EditFits, Of, Belongs
  <2>3. EditFits(i)'
    BY <1>4, <2>1 DEF EditFits, Of
  <2> QED BY <2>2, <2>3
<1>10. OpFits(op)'
  <2>1. Belongs(op.exp, op.base)' /\ Written(op.n)'
    BY <1>2, <1>8 DEF Belongs
  <2>2. ASSUME NEW j \in EditIds, Waits(j, n)' PROVE Of(j)'.pending.data = op.data
    <3>1. CASE j = i
      BY <1>4, <3>1 DEF Of
    <3>2. CASE j # i
      <4>1. Of(j) # Nil /\ Of(j).pending # Nil /\ Of(j).pending.n = n
        BY <1>4, <2>2, <3>2 DEF Waits, Of
      <4> QED BY <1>1, <1>2, <4>1 DEF EditFits
    <3> QED BY <3>1, <3>2
  <2> QED BY <2>1, <2>2 DEF OpFits
<1>11. \A m \in DOMAIN ops' : OpFits(ops[m])' \/ \E l \in DOMAIN ops : ops'[m] = ops[l]
  BY <1>5, <1>10
<1>12. StepFits'
  BY <1>1, <1>5, StepKept
<1>13. \A p \in EditPaths : Belongs(remote[p].stamp, remote[p].data)'
  BY DEF EditInv, Belongs
<1>14. counts.ops <= counts'.ops
  BY <1>1
<1> QED BY <1>6, <1>7, <1>9, <1>11, <1>12, <1>13, <1>14, EditStep

\* queue_edit_save: an edit notes what it read, and may queue a save of it.
LEMMA QueueSaveKeeps ==
    ASSUME EditInv, NEW i \in EditIds, NEW c \in Data, Of(i) # Nil, QueueSave(i, c),
           UNCHANGED <<copies, handed, prep, step, results, remote, slipped>>,
           watcher' \in [EditIds -> WatchRec]
    PROVE  EditInv'
<1>1. EditTypeOK /\ StepFits /\ (\A j \in EditIds : EditFits(j)) /\ Of(i) \in EditRec
  BY DEF EditInv, EditTypeOK, Of
<1> DEFINE n == <<0, counts.ops + 1>>
<1> DEFINE put(r) == edits' = [edits EXCEPT !.of[i] = r]
<1> DEFINE base == Of(i)
<1> DEFINE op == [n |-> n, kind |-> "write", path |-> base.path, data |-> c, exp |-> base.exp,
                  base |-> base.uploaded]
<1> DEFINE saved == [base EXCEPT !.observed = c, !.asked = FALSE, !.pending = [n |-> n, data |-> c]]
<1>2. counts.ops \in Nat /\ counts \in CountRec
  BY <1>1 DEF EditTypeOK, CountRec
<1>3. /\ base.path \in EditPaths /\ base.ready \in BOOLEAN /\ base.exp \in Data /\ base.uploaded \in Data
      /\ base.pending \in {Nil} \cup PendingRec /\ base.asked \in BOOLEAN /\ base.failed \in BOOLEAN
      /\ base = [path |-> base.path, ready |-> base.ready, exp |-> base.exp, uploaded |-> base.uploaded,
                 observed |-> base.observed, pending |-> base.pending, asked |-> base.asked,
                 failed |-> base.failed]
  BY <1>1 DEF EditRec
<1>4. Belongs(base.exp, base.uploaded)
  BY <1>1 DEF EditFits
<1>5. \/ \E e \in EditRec :
           /\ put(e) /\ UNCHANGED ops /\ e.pending = base.pending /\ e.exp = base.exp
           /\ e.uploaded = base.uploaded
           /\ counts' = counts \/ counts' = [counts EXCEPT !.ops = @ + 1]
      \/ put(saved) /\ counts' = [counts EXCEPT !.ops = @ + 1] /\ ops' = Append(ops, op)
  <2> DEFINE e0 == [base EXCEPT !.observed = c]
  <2> DEFINE e1 == [e0 EXCEPT !.asked = FALSE]
  <2> DEFINE e2 == [e0 EXCEPT !.asked = FALSE, !.failed = TRUE]
  <2>1. e0 \in EditRec /\ e1 \in EditRec /\ e2 \in EditRec
    BY <1>1 DEF EditRec
  <2>2. \A e \in {e0, e1, e2} :
          e.pending = base.pending /\ e.exp = base.exp /\ e.uploaded = base.uploaded
    BY <1>3
  <2>3. \/ put(e1) /\ UNCHANGED <<ops, counts>>
        \/ put(e0) /\ UNCHANGED <<ops, counts>>
        \/ put(e2) /\ UNCHANGED ops /\ counts' = [counts EXCEPT !.ops = @ + 1]
        \/ put(saved) /\ counts' = [counts EXCEPT !.ops = @ + 1] /\ ops' = Append(ops, op)
    BY <1>3 DEF QueueSave
  <2> HIDE DEF e0, e1, e2, saved, op, base
  <2> QED BY <2>1, <2>2, <2>3
<1>6. counts' \in CountRec /\ counts'.ops \in {counts.ops, counts.ops + 1}
      /\ counts.ops <= counts'.ops /\ counts'.ops >= counts.ops
  <2>1. counts' = counts \/ counts' = [counts EXCEPT !.ops = @ + 1]
    BY <1>5
  <2>2. [counts EXCEPT !.ops = @ + 1] \in CountRec
    BY <1>2 DEF CountRec
  <2>3. [counts EXCEPT !.ops = @ + 1].ops = counts.ops + 1
    BY <1>2 DEF CountRec
  <2>4. counts'.ops = counts.ops \/ counts'.ops = counts.ops + 1
    BY <2>1, <2>3
  <2>5. counts' \in CountRec
    BY <1>2, <2>1, <2>2
  <2> HIDE DEF base, op, saved
  <2> QED BY <1>2, <2>4, <2>5
<1>7. \A p \in EditPaths : Belongs(remote[p].stamp, remote[p].data)'
  BY DEF EditInv, Belongs
<1>8. CASE \E e \in EditRec :
             put(e) /\ UNCHANGED ops /\ e.pending = base.pending /\ e.exp = base.exp
             /\ e.uploaded = base.uploaded
  <2> PICK e \in EditRec :
        put(e) /\ UNCHANGED ops /\ e.pending = base.pending /\ e.exp = base.exp
        /\ e.uploaded = base.uploaded
    BY <1>8
  <2>1. /\ edits' = [files |-> edits'.files, current |-> edits'.current, auto |-> edits'.auto, of |-> edits'.of]
        /\ edits'.of \in [EditIds -> {Nil} \cup EditRec]
        /\ WaitsKept /\ \A j \in EditIds : EditFits(j)'
    <3>1. put(e) /\ e.pending \in {Nil, Of(i).pending} /\ Belongs(e.exp, e.uploaded)
      BY <1>4
    <3> QED BY <1>1, <1>6, <3>1, EditReplaced
  <2>2. EditTypeOK'
    BY <1>1, <1>6, <2>1 DEF EditTypeOK
  <2>3. StepFits'
    BY <1>1, StepKept
  <2> QED BY <1>6, <1>7, <2>1, <2>2, <2>3, EditStep
<1>9. CASE put(saved) /\ counts' = [counts EXCEPT !.ops = @ + 1] /\ ops' = Append(ops, op)
  <2>1. counts'.ops = counts.ops + 1
    BY <1>2, <1>9 DEF CountRec
  <2>2. n \in Numbers
    BY <1>2 DEF Numbers
  <2> DEFINE pend == [n |-> n, data |-> c]
  <2>3. pend.n = n /\ pend.data = c
    OBVIOUS
  <2>4. pend \in PendingRec
    <3> HIDE DEF n
    <3> QED BY <2>2, Zenon DEF PendingRec
  <2>6. op \in OpRec
    <3> HIDE DEF n
    <3> QED BY <1>3, <2>2, Zenon DEF OpRec
  <2>7. op.kind = "write" /\ op.n = n /\ op.exp = base.exp /\ op.base = base.uploaded /\ op.data = c
    OBVIOUS
  <2>8. saved = [base EXCEPT !.observed = c, !.asked = FALSE, !.pending = pend]
    OBVIOUS
  <2> HIDE DEF pend
  <2>9. saved \in EditRec
    BY <1>1, <1>3, <2>4, <2>8 DEF EditRec
  <2>10. saved.pending = pend /\ saved.exp = base.exp /\ saved.uploaded = base.uploaded
    BY <1>3, <2>8
  <2> HIDE DEF saved, op
  <2> QED BY <1>6, <1>9, <2>1, <2>2, <2>3, <2>6, <2>7, <2>9, <2>10, SaveQueued
<1> QED BY <1>5, <1>8, <1>9

\* A copy was read: it is queued, or the request for it ends.
LEMMA CopyReadKeeps == \A i \in EditIds : EditInv /\ CopyRead(i) => EditInv'
<1> SUFFICES ASSUME NEW i \in EditIds, EditInv, CopyRead(i) PROVE EditInv'
  OBVIOUS
<1>1. EditTypeOK /\ StepFits /\ \A j \in EditIds : EditFits(j)
  BY DEF EditInv
<1>2. UNCHANGED <<copies, handed, prep, step, results, remote, slipped>>
  BY DEF CopyRead
<1> DEFINE c == watcher[i].data
<1>3. c \in Data
  BY <1>1 DEF EditTypeOK, WatchRec
<1>4. watcher' \in [EditIds -> WatchRec]
  <2> DEFINE w == [st |-> "idle", data |-> Nil, seen |-> IF Torn(i) THEN Nil ELSE c]
  <2>1. (IF Torn(i) THEN Nil ELSE c) \in Data
    BY <1>3 DEF Data
  <2>2. w \in WatchRec
    BY <2>1, Zenon DEF WatchRec, Data
  <2>3. watcher' = [watcher EXCEPT ![i] = w]
    BY DEF CopyRead
  <2> HIDE DEF w
  <2> QED BY <1>1, <2>2, <2>3 DEF EditTypeOK
<1>5. CASE Connected(i) /\ ~Torn(i)
  <2>1. QueueSave(i, c) /\ Of(i) # Nil
    BY <1>5 DEF CopyRead, Connected
  <2> HIDE DEF c
  <2> QED BY <1>2, <1>3, <1>4, <2>1, QueueSaveKeeps
<1>6. CASE ~(Connected(i) /\ ~Torn(i))
  <2>1. UNCHANGED <<ops, counts>>
    BY <1>6 DEF CopyRead
  <2>2. counts.ops <= counts'.ops /\ counts'.ops >= counts.ops /\ counts' \in CountRec
    <3>1. counts.ops <= counts'.ops /\ counts' \in CountRec
      BY <1>1, <2>1, Counted DEF EditTypeOK
    <3> QED BY <1>1, <3>1 DEF EditTypeOK, CountRec
  <2>3. \A k \in EditIds : prep'[k] \in {Nil, prep[k]}
    BY <1>2
  <2>4. CASE ~Connected(i)
    <3>1. edits' = edits
      BY <2>4 DEF CopyRead
    <3>2. EditTypeOK' /\ EditsHold
      BY <1>1, <1>2, <1>4, <2>1, <2>2, <3>1, SameEdits DEF EditTypeOK
    <3> QED BY <1>2, <2>1, <2>2, <2>3, <3>2, QuietStep
  <2>5. CASE Connected(i)
    <3> DEFINE e == [Of(i) EXCEPT !.asked = FALSE]
    <3>1. Of(i) # Nil /\ Of(i) \in EditRec
      BY <1>1, <2>5 DEF Connected, EditTypeOK, Of
    <3>2. e \in EditRec
      BY <3>1 DEF EditRec
    <3>3. e.pending = Of(i).pending /\ e.exp = Of(i).exp /\ e.uploaded = Of(i).uploaded
      BY <3>1 DEF EditRec
    <3>4. edits' = [edits EXCEPT !.of[i].asked = FALSE]
      BY <1>6, <2>5 DEF CopyRead
    <3>5. edits' = [edits EXCEPT !.of[i] = e]
      BY <1>1, <3>4 DEF EditTypeOK, Of
    <3> HIDE DEF e
    <3>6. /\ edits' = [files |-> edits'.files, current |-> edits'.current, auto |-> edits'.auto, of |-> edits'.of]
          /\ edits'.of \in [EditIds -> {Nil} \cup EditRec]
          /\ \A j \in EditIds : edits'.of[j] = IF j = i THEN e ELSE Of(j)
      BY <1>1, <3>2, <3>5, OneEdit
    <3>7. EditsHold
      BY <3>1, <3>3, <3>6 DEF EditsHold
    <3>8. EditTypeOK'
      BY <1>1, <1>2, <1>4, <2>1, <2>2, <3>6 DEF EditTypeOK
    <3> QED BY <1>2, <2>1, <2>2, <2>3, <3>7, <3>8, QuietStep
  <2> QED BY <2>4, <2>5
<1> QED BY <1>5, <1>6

-----------------------------------------------------------------------------
(* Steps of the write worker.                                               *)

\* An operation ends with an answer that fits.
LEMMA Reported ==
    ASSUME EditInv, ops # <<>>, NEW k \in {"EditFile", "Updated", "Failed"}, NEW x \in Data, NEW d \in Data,
           Report(k, x, d), UNCHANGED <<edits, copies, handed, prep, watcher, counts, slipped>>,
           remote' \in [EditPaths -> [data : Data, stamp : Data]],
           \A p \in EditPaths : Belongs(remote[p].stamp, remote[p].data)',
           k = "EditFile" => Belongs(x, d),
           k = "Updated" =>
             /\ Written(Head(ops).n)
             /\ \A i \in EditIds : Waits(i, Head(ops).n) => Belongs(x, Of(i).pending.data)
    PROVE  EditInv'
<1>1. EditTypeOK /\ \A j \in EditIds : EditFits(j)
  BY DEF EditInv
<1> DEFINE r == [n |-> Head(ops).n, kind |-> k, path |-> Head(ops).path, exp |-> x, data |-> d]
<1>2. /\ Tail(ops) \in Seq(OpRec) /\ Head(ops) \in OpRec
      /\ \A m \in DOMAIN Tail(ops) : \E l \in DOMAIN ops : Tail(ops)[m] = ops[l]
  BY <1>1, Taken DEF EditTypeOK
<1>3. Head(ops).n \in Numbers /\ Head(ops).path \in EditPaths
  BY <1>2 DEF OpRec
<1>4. r \in ResultRec
  BY <1>3, Zenon DEF ResultRec
<1>5. r.n = Head(ops).n /\ r.kind = k /\ r.exp = x /\ r.data = d
  OBVIOUS
<1>6. results' = Append(results, r) /\ ops' = Tail(ops) /\ step' = "none"
  BY DEF Report
<1> HIDE DEF r
<1>7. /\ results' \in Seq(ResultRec)
      /\ \A m \in DOMAIN results' : results'[m] = r \/ \E l \in DOMAIN results : results'[m] = results[l]
  BY <1>1, <1>4, <1>6, Appended DEF EditTypeOK
<1>8. EditTypeOK' /\ EditsHold
  BY <1>1, <1>2, <1>6, <1>7, SameEdits DEF EditTypeOK
<1>9. counts.ops <= counts'.ops
  BY <1>1, Counted DEF EditTypeOK
<1>10. WaitsKept /\ \A i \in EditIds : EditFits(i)'
  BY <1>1, <1>8, <1>9, EditsHeld
<1>11. ASSUME NEW m \in DOMAIN results'
       PROVE  ResultFits(results[m])' \/ \E l \in DOMAIN results : results'[m] = results[l]
  <2>1. CASE results'[m] = r
    BY <1>5, <2>1 DEF ResultFits, Written, Waits, Belongs, Of
  <2> QED BY <1>7, <2>1
<1>12. StepFits'
  BY <1>6 DEF StepFits
<1> QED BY <1>2, <1>6, <1>8, <1>9, <1>10, <1>11, <1>12, EditStep

\* A worker step that only looks.
LEMMA Looked ==
    ASSUME EditInv, UNCHANGED <<edits, copies, handed, prep, watcher, ops, results, remote, counts, slipped>>,
           step' \in {"read", "written", "checked"}, StepFits'
    PROVE  EditInv'
<1>1. EditTypeOK /\ \A j \in EditIds : EditFits(j)
  BY DEF EditInv
<1>2. EditTypeOK' /\ EditsHold
  BY <1>1, SameEdits DEF EditTypeOK
<1>3. counts.ops <= counts'.ops
  BY <1>1, Counted DEF EditTypeOK
<1>4. WaitsKept /\ \A i \in EditIds : EditFits(i)'
  BY <1>1, <1>2, <1>3, EditsHeld
<1>5. \A p \in EditPaths : Belongs(remote[p].stamp, remote[p].data)'
  BY DEF EditInv, Belongs
<1> QED BY <1>2, <1>3, <1>4, <1>5, EditStep

\* What the worker reads of a remote file.
LEMMA NowTyped ==
    ASSUME EditTypeOK, ops # <<>>
    PROVE  /\ Head(ops) \in OpRec /\ Head(ops).path \in EditPaths
           /\ Now(Head(ops)).stamp \in Data /\ Now(Head(ops)).data \in Data
<1>1. Head(ops) \in OpRec
  BY Taken DEF EditTypeOK
<1>2. Head(ops).path \in EditPaths
  BY <1>1 DEF OpRec
<1> QED BY <1>1, <1>2 DEF EditTypeOK, Now

\* read_edit_file.
LEMMA ReadEditKeeps == EditInv /\ ReadEdit => EditInv'
<1> SUFFICES ASSUME EditInv, ReadEdit PROVE EditInv'
  OBVIOUS
<1>1. EditTypeOK
  BY DEF EditInv
<1>2. UNCHANGED <<edits, copies, handed, prep, watcher, remote, counts, slipped>>
      /\ ops # <<>> /\ Head(ops).kind = "read"
  BY DEF ReadEdit
<1>3. /\ Head(ops) \in OpRec /\ Head(ops).path \in EditPaths
      /\ Now(Head(ops)).stamp \in Data /\ Now(Head(ops)).data \in Data
  BY <1>1, <1>2, NowTyped
<1>4. \A p \in EditPaths : Belongs(remote[p].stamp, remote[p].data)'
  BY <1>2 DEF EditInv, Belongs
<1>5. remote' \in [EditPaths -> [data : Data, stamp : Data]]
  BY <1>1, <1>2 DEF EditTypeOK
<1>6. CASE step' = "read" /\ UNCHANGED <<ops, results>>
  <2>1. StepFits'
    BY <1>2, <1>6 DEF StepFits
  <2> QED BY <1>2, <1>6, <2>1, Looked
<1>7. CASE Report("EditFile", Now(Head(ops)).stamp, Now(Head(ops)).data)
  <2> DEFINE x == Now(Head(ops)).stamp
  <2> DEFINE d == Now(Head(ops)).data
  <2>1. Belongs(x, d)
    BY <1>3 DEF EditInv, Now
  <2>2. Report("EditFile", x, d) /\ x \in Data /\ d \in Data
    BY <1>3, <1>7
  <2> HIDE DEF x, d
  <2> QED BY <1>2, <1>4, <1>5, <2>1, <2>2, Reported
<1>8. CASE Report("Failed", 0, Nil)
  <2>1. 0 \in Data /\ Nil \in Data
    BY DEF Data
  <2> QED BY <1>2, <1>4, <1>5, <1>8, <2>1, Reported
<1> QED BY <1>6, <1>7, <1>8 DEF ReadEdit

\* write_edit_file up to the second look.
LEMMA WriteEditKeeps == EditInv /\ WriteEdit => EditInv'
<1> SUFFICES ASSUME EditInv, WriteEdit PROVE EditInv'
  OBVIOUS
<1>1. EditTypeOK
  BY DEF EditInv
<1>2. UNCHANGED <<edits, copies, handed, prep, watcher, remote, counts, slipped>>
      /\ ops # <<>> /\ Head(ops).kind = "write"
  BY DEF WriteEdit
<1>3. \A p \in EditPaths : Belongs(remote[p].stamp, remote[p].data)'
  BY <1>2 DEF EditInv, Belongs
<1>4. remote' \in [EditPaths -> [data : Data, stamp : Data]]
  BY <1>1, <1>2 DEF EditTypeOK
<1>5. CASE step' = "written" /\ UNCHANGED <<ops, results>>
  <2>1. StepFits'
    BY <1>2, <1>5 DEF StepFits
  <2> QED BY <1>2, <1>5, <2>1, Looked
<1>6. CASE Unchanged(Head(ops)) /\ step' = "checked" /\ UNCHANGED <<ops, results>>
  <2>1. StepFits'
    BY <1>2, <1>6 DEF StepFits, Unchanged, Belongs, Now
  <2> QED BY <1>2, <1>6, <2>1, Looked
<1>7. CASE Report("Failed", 0, Nil)
  <2>1. 0 \in Data /\ Nil \in Data
    BY DEF Data
  <2> QED BY <1>2, <1>3, <1>4, <1>7, <2>1, Reported
<1> QED BY <1>5, <1>6, <1>7 DEF WriteEdit

\* The new file replaces the old one, whatever becomes of the answer.
LEMMA RenameEditKeeps == EditInv /\ RenameEdit => EditInv'
<1> SUFFICES ASSUME EditInv, RenameEdit PROVE EditInv'
  OBVIOUS
<1>1. EditTypeOK /\ StepFits /\ \A j \in EditIds : EditFits(j)
  BY DEF EditInv
<1>2. UNCHANGED <<edits, copies, handed, prep, watcher, counts, slipped>> /\ step = "checked"
      /\ ops # <<>> /\ Head(ops).kind = "write"
  BY <1>1 DEF RenameEdit, StepFits
<1> DEFINE o == Head(ops)
<1> DEFINE f == [data |-> o.data, stamp |-> o.data]
<1>3. o \in OpRec /\ o.path \in EditPaths /\ o.data \in Data
  BY <1>1, <1>2, NowTyped DEF OpRec
<1>4. f \in [data : Data, stamp : Data] /\ f.data = o.data /\ f.stamp = o.data
  BY <1>3
<1>5. remote' = remote \/ remote' = [remote EXCEPT ![o.path] = f]
  BY DEF RenameEdit
<1>6. 0 \in Data /\ Nil \in Data
  BY DEF Data
<1> HIDE DEF f
<1>7. remote' \in [EditPaths -> [data : Data, stamp : Data]]
  BY <1>1, <1>4, <1>5 DEF EditTypeOK
<1>8. \A p \in EditPaths : Belongs(remote[p].stamp, remote[p].data)'
  <2>1. \A p \in EditPaths : remote'[p] = remote[p] \/ remote'[p] = f
    BY <1>1, <1>5 DEF EditTypeOK
  <2> QED BY <1>2, <1>4, <2>1 DEF EditInv, Belongs
<1>9. CASE remote' = [remote EXCEPT ![o.path] = f] /\ step' = "renamed" /\ UNCHANGED <<ops, results>>
  <2>1. remote'[o.path] = f
    BY <1>1, <1>3, <1>9 DEF EditTypeOK
  <2>2. StepFits'
    BY <1>2, <1>4, <1>9, <2>1 DEF StepFits, Belongs, Now
  <2>3. EditTypeOK' /\ EditsHold
    BY <1>1, <1>2, <1>7, <1>9, SameEdits DEF EditTypeOK
  <2>4. counts.ops <= counts'.ops
    BY <1>1, <1>2, Counted DEF EditTypeOK
  <2>5. WaitsKept /\ \A i \in EditIds : EditFits(i)'
    BY <1>1, <1>2, <2>3, <2>4, EditsHeld
  <2> QED BY <1>2, <1>8, <1>9, <2>2, <2>3, <2>4, <2>5, EditStep
<1>10. CASE Report("Failed", 0, Nil)
  BY <1>2, <1>6, <1>7, <1>8, <1>10, Reported
<1> QED BY <1>9, <1>10 DEF RenameEdit, f

\* The stamp read after the publication.
LEMMA StatEditKeeps == EditInv /\ StatEdit => EditInv'
<1> SUFFICES ASSUME EditInv, StatEdit PROVE EditInv'
  OBVIOUS
<1>1. EditTypeOK /\ StepFits
  BY DEF EditInv
<1>2. UNCHANGED <<edits, copies, handed, prep, watcher, remote, counts, slipped>> /\ step = "renamed"
      /\ ops # <<>> /\ Head(ops).kind = "write"
  BY <1>1 DEF StatEdit, StepFits
<1>3. Now(Head(ops)).stamp \in Data /\ 0 \in Data /\ Nil \in Data
  BY <1>1, <1>2, NowTyped DEF Data
<1>4. \A p \in EditPaths : Belongs(remote[p].stamp, remote[p].data)'
  BY <1>2 DEF EditInv, Belongs
<1>5. remote' \in [EditPaths -> [data : Data, stamp : Data]]
  BY <1>1, <1>2 DEF EditTypeOK
<1>6. CASE Report("Updated", Now(Head(ops)).stamp, Nil)
  <2>1. OpFits(Head(ops)) /\ Belongs(Now(Head(ops)).stamp, Head(ops).data)
    <3>1. 1 \in DOMAIN ops /\ Head(ops) = ops[1]
      BY <1>1, <1>2, Taken DEF EditTypeOK
    <3>2. OpFits(ops[1])
      BY <3>1 DEF EditInv
    <3> QED BY <1>1, <1>2, <3>1, <3>2 DEF StepFits
  <2>2. Written(Head(ops).n)
        /\ \A i \in EditIds : Waits(i, Head(ops).n) => Of(i).pending.data = Head(ops).data
    BY <1>2, <2>1 DEF OpFits
  <2> DEFINE x == Now(Head(ops)).stamp
  <2>3. \A i \in EditIds : Waits(i, Head(ops).n) => Belongs(x, Of(i).pending.data)
    BY <2>1, <2>2
  <2>4. Report("Updated", x, Nil) /\ x \in Data
    BY <1>3, <1>6
  <2> HIDE DEF x
  <2> QED BY <1>2, <1>3, <1>4, <1>5, <2>2, <2>3, <2>4, Reported
<1>7. CASE Report("Failed", 0, Nil)
  BY <1>2, <1>3, <1>4, <1>5, <1>7, Reported
<1> QED BY <1>6, <1>7 DEF StatEdit

-----------------------------------------------------------------------------
(* The connection monitor takes an answer.                                  *)

\* Updated: the answered edit stands at the stored content and its stamp.
LEMMA AppliedUpdated ==
    ASSUME EditInv, NEW r \in ResultRec, r.kind = "Updated", ResultFits(r), edits' = ApplyUpdated(r),
           UNCHANGED <<counts, slipped>>
    PROVE  /\ edits' = [files |-> edits'.files, current |-> edits'.current, auto |-> edits'.auto,
                        of |-> edits'.of]
           /\ edits'.of \in [EditIds -> {Nil} \cup EditRec]
           /\ WaitsKept /\ \A i \in EditIds : EditFits(i)'
<1>1. EditTypeOK /\ \A j \in EditIds : EditFits(j)
  BY DEF EditInv
<1> DEFINE stored(i) == [Of(i) EXCEPT !.uploaded = Of(i).pending.data, !.pending = Nil, !.exp = r.exp,
                                      !.failed = FALSE]
<1> DEFINE answered == [i \in EditIds |-> IF Answers(i, r) THEN stored(i) ELSE Of(i)]
<1>2. \A i \in EditIds : answered[i] = IF Answers(i, r) THEN stored(i) ELSE Of(i)
  OBVIOUS
<1>3. edits' = [files |-> edits.files, current |-> edits.current, auto |-> edits.auto, of |-> answered]
  <2>1. edits = [files |-> edits.files, current |-> edits.current, auto |-> edits.auto, of |-> edits.of]
    BY <1>1 DEF EditTypeOK
  <2>2. ApplyUpdated(r) = [edits EXCEPT !.of = answered]
    BY DEF ApplyUpdated, Of
  <2> HIDE DEF answered
  <2> QED BY <2>1, <2>2
<1>4. ASSUME NEW i \in EditIds, Answers(i, r)
      PROVE  /\ stored(i) \in EditRec /\ stored(i).pending = Nil
             /\ Belongs(stored(i).exp, stored(i).uploaded)
  <2>1. Of(i) # Nil /\ Of(i) \in EditRec /\ Of(i).pending # Nil /\ Of(i).pending \in PendingRec
    BY <1>1, <1>4 DEF Answers, EditTypeOK, Of, EditRec
  <2>2. Of(i).pending.data \in Data /\ r.exp \in Data
    BY <2>1 DEF PendingRec, ResultRec
  <2>3. stored(i) \in EditRec
    BY <2>1, <2>2 DEF EditRec
  <2>4. stored(i).pending = Nil /\ stored(i).exp = r.exp /\ stored(i).uploaded = Of(i).pending.data
    BY <2>1 DEF EditRec
  <2>5. Belongs(r.exp, Of(i).pending.data)
    BY <1>4 DEF Answers, Waits, ResultFits
  <2> HIDE DEF stored
  <2> QED BY <2>3, <2>4, <2>5
<1> HIDE DEF answered, stored
<1>5. edits'.of = answered
  BY <1>3
<1>6. \A i \in EditIds : answered[i] \in {Nil} \cup EditRec
  BY <1>1, <1>2, <1>4 DEF EditTypeOK, Of
<1>7. answered \in [EditIds -> {Nil} \cup EditRec]
  BY <1>6 DEF answered
<1>8. ASSUME NEW i \in EditIds PROVE EditFits(i)'
  <2>1. CASE Answers(i, r)
    BY <1>2, <1>4, <1>5, <2>1 DEF EditFits, Of, Belongs
  <2>2. CASE ~Answers(i, r)
    BY <1>1, <1>2, <1>5, <2>2 DEF EditFits, Of, Belongs, Written
  <2> QED BY <2>1, <2>2
<1>9. WaitsKept
  BY <1>2, <1>4, <1>5 DEF WaitsKept, Waits, Of
<1>10. edits' = [files |-> edits'.files, current |-> edits'.current, auto |-> edits'.auto, of |-> edits'.of]
  BY <1>3
<1> QED BY <1>5, <1>7, <1>8, <1>9, <1>10

\* Failed: the edit is forgotten, or waits no more.
LEMMA AppliedFailed ==
    ASSUME EditInv, NEW r \in ResultRec, edits' = ApplyFailed(r), UNCHANGED <<counts, slipped>>
    PROVE  /\ edits' = [files |-> edits'.files, current |-> edits'.current, auto |-> edits'.auto,
                        of |-> edits'.of]
           /\ edits'.of \in [EditIds -> {Nil} \cup EditRec]
           /\ WaitsKept /\ \A i \in EditIds : EditFits(i)'
<1>1. EditTypeOK /\ (\A j \in EditIds : EditFits(j)) /\ counts.ops \in Nat
  BY DEF EditInv, EditTypeOK, CountRec
<1>2. CASE edits' = edits
  <2>1. EditsHold
    BY <1>1, <1>2, SameEdits
  <2>2. WaitsKept
    BY <2>1 DEF WaitsKept, Waits, EditsHold, Of
  <2>3. \A i \in EditIds : EditFits(i)'
    BY <1>1, <1>2 DEF EditFits, Of, Belongs, Written
  <2> QED BY <1>1, <1>2, <2>2, <2>3 DEF EditTypeOK
<1>3. ASSUME NEW i \in EditIds, edits' = Forget(edits, i) PROVE
        /\ edits' = [files |-> edits'.files, current |-> edits'.current, auto |-> edits'.auto, of |-> edits'.of]
        /\ edits'.of \in [EditIds -> {Nil} \cup EditRec]
        /\ WaitsKept /\ \A j \in EditIds : EditFits(j)'
  <2>1. \E kept, current : edits' = [edits EXCEPT !.files = kept, !.of[i] = Nil, !.current = current]
    BY <1>3 DEF Forget
  <2>2. /\ edits' = [files |-> edits'.files, current |-> edits'.current, auto |-> edits'.auto, of |-> edits'.of]
        /\ edits'.of \in [EditIds -> {Nil} \cup EditRec]
        /\ EditsHold
    BY <1>1, <2>1, Forgotten
  <2>3. WaitsKept
    BY <2>2 DEF WaitsKept, Waits, EditsHold, Of
  <2>4. \A j \in EditIds : EditFits(j)'
    BY <1>1, <2>2 DEF EditFits, EditsHold, Of, Belongs, Written
  <2> QED BY <2>2, <2>3, <2>4
<1>4. ASSUME NEW i \in EditIds, Of(i) # Nil,
             edits' = [edits EXCEPT !.of[i].pending = Nil, !.of[i].failed = TRUE] PROVE
        /\ edits' = [files |-> edits'.files, current |-> edits'.current, auto |-> edits'.auto, of |-> edits'.of]
        /\ edits'.of \in [EditIds -> {Nil} \cup EditRec]
        /\ WaitsKept /\ \A j \in EditIds : EditFits(j)'
  <2> DEFINE e == [Of(i) EXCEPT !.pending = Nil, !.failed = TRUE]
  <2>1. Of(i) \in EditRec
    BY <1>1, <1>4 DEF EditTypeOK, Of
  <2>2. e \in EditRec
    BY <2>1 DEF EditRec
  <2>3. e.pending = Nil /\ e.exp = Of(i).exp /\ e.uploaded = Of(i).uploaded
    BY <2>1 DEF EditRec
  <2>4. edits' = [edits EXCEPT !.of[i] = e]
    BY <1>1, <1>4 DEF EditTypeOK, Of
  <2>5. Belongs(Of(i).exp, Of(i).uploaded)
    BY <1>1, <1>4 DEF EditFits
  <2>6. counts' \in CountRec /\ counts'.ops >= counts.ops
    BY <1>1 DEF EditTypeOK
  <2> HIDE DEF e
  <2> QED BY <1>1, <1>4, <2>2, <2>3, <2>4, <2>5, <2>6, EditReplaced
<1>5. \/ edits' = edits
      \/ \E i \in EditIds : edits' = Forget(edits, i)
      \/ \E i \in EditIds :
           Of(i) # Nil /\ edits' = [edits EXCEPT !.of[i].pending = Nil, !.of[i].failed = TRUE]
  <2> DEFINE hit == {i \in EditIds : Of(i) # Nil /\ (r.n = <<i>> \/ (Of(i).pending # Nil /\ Of(i).pending.n = r.n))}
  <2> DEFINE i == CHOOSE k \in hit : TRUE
  <2>1. CASE hit = {}
    BY <2>1 DEF ApplyFailed
  <2>2. CASE hit # {}
    <3>1. i \in hit
      BY <2>2
    <3>2. i \in EditIds /\ Of(i) # Nil
      BY <3>1
    <3>3. edits' = IF ~Of(i).ready THEN Forget(edits, i)
                   ELSE [edits EXCEPT !.of[i].pending = Nil, !.of[i].failed = TRUE]
      BY <2>2 DEF ApplyFailed
    <3> HIDE DEF i, hit
    <3> QED BY <3>2, <3>3
  <2> QED BY <2>1, <2>2
<1> QED BY <1>2, <1>3, <1>4, <1>5

\* An answer reaches the download it ends or the edit that waits for it.
LEMMA TakeResultKeeps == EditInv /\ TakeResult => EditInv'
<1> SUFFICES ASSUME EditInv, TakeResult PROVE EditInv'
  OBVIOUS
<1>1. EditTypeOK /\ StepFits /\ \A j \in EditIds : EditFits(j)
  BY DEF EditInv
<1>2. UNCHANGED <<copies, handed, watcher, ops, step, remote, counts, slipped>>
      /\ results # <<>> /\ results' = Tail(results)
  BY DEF TakeResult
<1>3. /\ results' \in Seq(ResultRec) /\ Head(results) \in ResultRec
      /\ 1 \in DOMAIN results /\ Head(results) = results[1]
      /\ \A m \in DOMAIN results' : \E l \in DOMAIN results : results'[m] = results[l]
  BY <1>1, <1>2, Taken DEF EditTypeOK
<1>4. ResultFits(Head(results))
  BY <1>3 DEF EditInv
<1>5. PICK r \in ResultRec : r = Head(results) /\ ResultFits(r)
  BY <1>3, <1>4
<1>6. r.kind \in {"EditFile", "Updated", "Failed"} /\ r.data \in Data /\ r.exp \in Data
  BY DEF ResultRec
<1>7. \/ /\ r.kind = "EditFile" /\ edits' = edits
         /\ prep' = [prep EXCEPT ![r.n[1]] = [data |-> r.data, exp |-> r.exp]]
      \/ r.kind = "Updated" /\ edits' = ApplyUpdated(r) /\ prep' = prep
      \/ r.kind = "Failed" /\ edits' = ApplyFailed(r) /\ prep' = prep
  <2>1. r.kind = "EditFile" =>
          prep' = [prep EXCEPT ![r.n[1]] = [data |-> r.data, exp |-> r.exp]] /\ UNCHANGED edits
    BY <1>5 DEF TakeResult
  <2>2. r.kind = "Updated" => edits' = ApplyUpdated(r) /\ UNCHANGED prep
    BY <1>5 DEF TakeResult
  <2>3. r.kind = "Failed" => edits' = ApplyFailed(r) /\ UNCHANGED prep
    BY <1>5 DEF TakeResult
  <2> QED BY <1>6, <2>1, <2>2, <2>3
<1>8. counts.ops <= counts'.ops /\ counts' \in CountRec
  BY <1>1, <1>2, Counted DEF EditTypeOK
<1>9. \A p \in EditPaths : Belongs(remote[p].stamp, remote[p].data)'
  BY <1>2 DEF EditInv, Belongs
<1>10. StepFits'
  BY <1>1, <1>2, StepKept
<1>11. /\ prep' \in [EditIds -> {Nil} \cup [data : Data, exp : Data]]
       /\ \A i \in EditIds : prep'[i] # Nil => prep'[i] = prep[i] \/ Belongs(prep[i].exp, prep[i].data)'
  <2>1. CASE prep' = prep
    BY <1>1, <2>1 DEF EditTypeOK
  <2>2. CASE r.kind = "EditFile" /\ prep' = [prep EXCEPT ![r.n[1]] = [data |-> r.data, exp |-> r.exp]]
    <3> DEFINE f == [data |-> r.data, exp |-> r.exp]
    <3>1. f \in [data : Data, exp : Data] /\ f.data = r.data /\ f.exp = r.exp
      BY <1>6
    <3>2. Belongs(r.exp, r.data)
      BY <1>5, <2>2 DEF ResultFits
    <3> HIDE DEF f
    <3>3. \A i \in EditIds : prep'[i] = prep[i] \/ prep'[i] = f
      BY <1>1, <2>2 DEF EditTypeOK, f
    <3>4. DOMAIN prep' = EditIds /\ prep' = [i \in EditIds |-> prep'[i]]
      BY <1>1, <2>2 DEF EditTypeOK
    <3>5. prep' \in [EditIds -> {Nil} \cup [data : Data, exp : Data]]
      BY <1>1, <3>1, <3>3, <3>4 DEF EditTypeOK
    <3> QED BY <1>2, <3>1, <3>2, <3>3, <3>5 DEF Belongs
  <2> QED BY <1>7, <2>1, <2>2
<1>12. /\ edits' = [files |-> edits'.files, current |-> edits'.current, auto |-> edits'.auto, of |-> edits'.of]
       /\ edits'.of \in [EditIds -> {Nil} \cup EditRec]
       /\ WaitsKept /\ \A i \in EditIds : EditFits(i)'
  <2>1. CASE edits' = edits
    <3>1. EditsHold
      BY <1>1, <2>1, SameEdits
    <3>2. WaitsKept
      BY <3>1 DEF WaitsKept, Waits, EditsHold, Of
    <3>3. \A i \in EditIds : EditFits(i)'
      BY <1>1, <1>2, <2>1 DEF EditFits, Of, Belongs, Written
    <3> QED BY <1>1, <2>1, <3>2, <3>3 DEF EditTypeOK
  <2>2. CASE r.kind = "Updated" /\ edits' = ApplyUpdated(r)
    BY <1>2, <1>5, <2>2, AppliedUpdated
  <2>3. CASE r.kind = "Failed" /\ edits' = ApplyFailed(r)
    BY <1>2, <2>3, AppliedFailed
  <2> QED BY <1>7, <2>1, <2>2, <2>3
<1>13. EditTypeOK'
  BY <1>1, <1>2, <1>3, <1>11, <1>12 DEF EditTypeOK
<1> QED BY <1>2, <1>3, <1>8, <1>9, <1>10, <1>11, <1>12, <1>13, EditStep

-----------------------------------------------------------------------------
(* The theorem.                                                             *)

\* Every step preserves the invariant.
LEMMA EditInvNext == EditInv /\ [EditNext]_editVars => EditInv'
<1> SUFFICES ASSUME EditInv, [EditNext]_editVars PROVE EditInv'
  OBVIOUS
<1>1. CASE EditWorker
  BY <1>1, ReadEditKeeps, WriteEditKeeps, RenameEditKeeps, StatEditKeeps, TakeResultKeeps, EditsBackKeeps
     DEF EditWorker
<1>2. CASE EditTasks
  BY <1>2, CreateCopyKeeps, AcceptCopyKeeps, WatchTick0Keeps, CopyReadKeeps DEF EditTasks
<1>3. CASE StopEdit \/ RequestUpload \/ ToggleAuto \/ BrowserReopened \/ EditsLost
  BY <1>3, StopEditKeeps, RequestUploadKeeps, ToggleAutoKeeps, BrowserReopenedKeeps, EditsLostKeeps
<1>4. CASE \E p \in EditPaths : EditFile(p) \/ SomebodyWrites(p)
  BY <1>4, EditFileKeeps, SomebodyWritesKeeps
<1>5. CASE \E i \in EditIds : EditorSaves(i)
  BY <1>5, EditorSavesKeeps
<1>6. CASE UNCHANGED editVars
  <2>1. EditTypeOK
    BY DEF EditInv
  <2>2. UNCHANGED <<edits, copies, handed, prep, watcher, ops, step, results, remote, counts, slipped>>
    BY <1>6 DEF editVars
  <2>3. EditTypeOK' /\ EditsHold
    BY <2>1, <2>2, SameEdits DEF EditTypeOK
  <2>4. counts.ops <= counts'.ops
    BY <2>1, <2>2, Counted DEF EditTypeOK
  <2> QED BY <2>2, <2>3, <2>4, QuietStep
<1> QED BY <1>1, <1>2, <1>3, <1>4, <1>5, <1>6 DEF EditNext

\* From the last look to the rename the file holds the content its save started from,
\* because the stamp that was compared tells contents apart.
LEMMA CheckedHoldsBaseline ==
    ASSUME EditInv, step = "checked"
    PROVE  slipped \/ Now(Head(ops)).data = Head(ops).base
<1>1. EditTypeOK /\ StepFits
  BY DEF EditInv
<1>2. ops # <<>> /\ Head(ops).kind = "write" /\ Belongs(Now(Head(ops)).stamp, Head(ops).exp)
  BY <1>1 DEF StepFits
<1>3. 1 \in DOMAIN ops /\ Head(ops) = ops[1] /\ Head(ops).path \in EditPaths
  BY <1>1, <1>2, Taken, NowTyped DEF EditTypeOK
<1>4. OpFits(ops[1]) /\ Belongs(Now(Head(ops)).stamp, Now(Head(ops)).data)
  BY <1>3 DEF EditInv, Now
<1>5. Belongs(Head(ops).exp, Head(ops).base)
  BY <1>2, <1>3, <1>4 DEF OpFits
<1> QED BY <1>2, <1>4, <1>5 DEF Belongs

\* THE THEOREM OF THE MODULE: whatever others write and whichever edits, operations and
\* attempts come between, a save replaces only the version of the remote file its edit
\* started from, as long as size and time show every rewrite (write_edit_file,
\* apply_result).
THEOREM SavesReplaceBaseline == EditSpec => ReplacesOnlyBaseline
<1>1. EditInv /\ [EditNext]_editVars =>
        [(step = "checked" /\ remote' # remote /\ counts' = counts)
           => slipped \/ Now(Head(ops)).data = Head(ops).base]_editVars
  BY CheckedHoldsBaseline
<1> QED BY <1>1, EditInvInit, EditInvNext, PTL DEF EditSpec, ReplacesOnlyBaseline

-----------------------------------------------------------------------------
(* The history of a pane, remote or local.                                  *)

\* No directory is followed by itself.
Steps(s) == \A k \in 1 .. Len(s) - 1 : s[k] # s[k + 1]

\* A directory pushed on a history is the last of it; nothing is lost while there is room.
LEMMA PushKeeps ==
  ASSUME NEW h \in Seq(Dirs), NEW d \in Dirs, Nil \notin Dirs
  PROVE  /\ Push(h, d) \in Seq(Dirs) /\ Push(h, d) # <<>> /\ Last(Push(h, d)) = d
         /\ Len(h) <= HistoryLimit => Len(Push(h, d)) <= HistoryLimit
         /\ (h = <<>> \/ Last(h) # d) /\ Len(h) < HistoryLimit => Push(h, d) = Append(h, d)
         /\ Steps(h) => Steps(Push(h, d))
<1>1. HistoryLimit \in Nat \ {0} /\ d # Nil
  BY HistoryAssumption
<1>2. CASE h # <<>> /\ Last(h) = d
  BY <1>1, <1>2 DEF Push
<1>3. CASE h = <<>> \/ Last(h) # d
  <2>1. CASE Len(h) < HistoryLimit
    <3>1. Push(h, d) = Append(h, d)
      BY <1>1, <1>3, <2>1 DEF Push
    <3>2. /\ Append(h, d) \in Seq(Dirs) /\ Len(Append(h, d)) = Len(h) + 1 /\ Append(h, d)[Len(h) + 1] = d
          /\ \A k \in 1 .. Len(h) : Append(h, d)[k] = h[k]
      OBVIOUS
    <3>3. Last(Append(h, d)) = d /\ Append(h, d) # <<>> /\ Len(Append(h, d)) <= HistoryLimit
      BY <2>1, <3>2, <1>1 DEF Last
    <3>4. ASSUME Steps(h) PROVE Steps(Append(h, d))
      <4> SUFFICES ASSUME NEW k \in 1 .. Len(h) PROVE Append(h, d)[k] # Append(h, d)[k + 1]
        BY <3>2 DEF Steps
      <4>1. CASE k = Len(h)
        BY <4>1, <1>3, <3>2 DEF Last
      <4>2. CASE k # Len(h)
        BY <4>2, <3>4, <3>2 DEF Steps
      <4> QED
        BY <4>1, <4>2
    <3> QED
      BY <3>1, <3>2, <3>3, <3>4
  <2>2. CASE ~(Len(h) < HistoryLimit)
    <3>0. h # <<>> /\ Len(h) >= HistoryLimit /\ Len(h) \in Nat /\ Len(h) > 0
      BY <2>2, <1>1
    <3>1. Push(h, d) = Append(Tail(h), d)
      BY <1>1, <1>3, <3>0 DEF Push
    <3>2. /\ Tail(h) \in Seq(Dirs) /\ Len(Tail(h)) = Len(h) - 1
          /\ \A k \in 1 .. Len(h) - 1 : Tail(h)[k] = h[k + 1]
      BY <3>0
    <3>3. /\ Append(Tail(h), d) \in Seq(Dirs) /\ Len(Append(Tail(h), d)) = Len(h)
          /\ Append(Tail(h), d)[Len(h)] = d
          /\ \A k \in 1 .. Len(h) - 1 : Append(Tail(h), d)[k] = h[k + 1]
      BY <3>0, <3>2
    <3>4. Last(Append(Tail(h), d)) = d /\ Append(Tail(h), d) # <<>>
      <4>1. PICK a \in Seq(Dirs) : a = Append(Tail(h), d)
        BY <3>3
      <4>2. Len(a) = Len(h) /\ a[Len(h)] = d
        BY <4>1, <3>3
      <4>3. a # <<>> /\ Last(a) = d
        BY <4>2, <3>0 DEF Last
      <4> QED
        BY <4>1, <4>3
    <3>5. ASSUME Steps(h) PROVE Steps(Append(Tail(h), d))
      <4> SUFFICES ASSUME NEW k \in 1 .. Len(h) - 1 PROVE Append(Tail(h), d)[k] # Append(Tail(h), d)[k + 1]
        BY <3>3 DEF Steps
      <4>1. CASE k = Len(h) - 1
        BY <4>1, <1>3, <3>0, <3>3 DEF Last
      <4>2. CASE k # Len(h) - 1
        <5>1. k + 1 \in 1 .. Len(h) - 1
          BY <4>2
        <5> QED
          BY <5>1, <3>5, <3>3 DEF Steps
      <4> QED
        BY <4>1, <4>2
    <3>6. Len(Push(h, d)) = Len(h) /\ Push(h, d) \in Seq(Dirs)
      BY <3>1, <3>3
    <3>7. Push(h, d) # <<>> /\ Last(Push(h, d)) = d /\ (Steps(h) => Steps(Push(h, d)))
      BY <3>1, <3>4, <3>5
    <3> QED
      BY <2>2, <3>6, <3>7
  <2> QED
    BY <2>1, <2>2
<1> QED
  BY <1>2, <1>3

\* A history without its last directory.
LEMMA FrontKeeps ==
  ASSUME NEW h \in Seq(Dirs), h # <<>>
  PROVE  /\ Front(h) \in Seq(Dirs) /\ Len(Front(h)) = Len(h) - 1 /\ Last(h) \in Dirs
         /\ \A k \in 1 .. Len(h) - 1 : Front(h)[k] = h[k]
         /\ Steps(h) => Steps(Front(h)) /\ (Front(h) # <<>> => Last(Front(h)) # Last(h))
<1>1. Len(h) \in Nat /\ Len(h) > 0
  OBVIOUS
<1>2. Front(h) \in Seq(Dirs) /\ Len(Front(h)) = Len(h) - 1 /\ \A k \in 1 .. Len(h) - 1 : Front(h)[k] = h[k]
  <2>1. Front(h) = SubSeq(h, 1, Len(h) - 1)
    BY DEF Front
  <2>2. 1 \in Int /\ Len(h) - 1 \in Int /\ Len(h) - 1 - 1 + 1 = Len(h) - 1
    BY <1>1
  <2>3. \A k \in 1 .. Len(h) - 1 : h[k] \in Dirs /\ 1 + k - 1 = k
    BY <1>1
  <2>4. /\ Front(h) \in Seq(Dirs)
        /\ Len(Front(h)) = IF 1 <= Len(h) - 1 THEN Len(h) - 1 - 1 + 1 ELSE 0
        /\ \A k \in 1 .. Len(h) - 1 - 1 + 1 : Front(h)[k] = h[1 + k - 1]
    BY <2>1, <2>2, <2>3, SubSeqProperties
  <2>5. Len(Front(h)) = Len(h) - 1
    <3>1. PICK n \in Nat : n = Len(h)
      BY <1>1
    <3>2. n > 0 /\ Len(Front(h)) = IF 1 <= n - 1 THEN n - 1 - 1 + 1 ELSE 0
      BY <2>4, <1>1, <3>1
    <3>3. Len(Front(h)) = n - 1
      BY <3>2
    <3> QED
      BY <3>1, <3>3
  <2>6. ASSUME NEW k \in 1 .. Len(h) - 1 PROVE Front(h)[k] = h[k]
    <3>1. k \in 1 .. Len(h) - 1 - 1 + 1 /\ 1 + k - 1 = k
      BY <1>1
    <3>2. Front(h)[k] = h[1 + k - 1]
      BY <2>4, <3>1
    <3> QED
      BY <3>1, <3>2
  <2> QED
    BY <2>4, <2>5, <2>6
<1>3. ASSUME Steps(h) PROVE Steps(Front(h)) /\ (Front(h) # <<>> => Last(Front(h)) # Last(h))
  <2>1. Steps(Front(h))
    BY <1>1, <1>2, <1>3 DEF Steps
  <2>2. ASSUME Front(h) # <<>> PROVE Last(Front(h)) # Last(h)
    <3>1. Len(h) - 1 \in 1 .. Len(h) - 1
      BY <2>2, <1>1, <1>2
    <3>2. h[Len(h) - 1] # h[Len(h) - 1 + 1]
      BY <3>1, <1>3 DEF Steps
    <3> QED
      BY <3>1, <3>2, <1>1, <1>2 DEF Last
  <2> QED
    BY <2>1, <2>2
<1>4. Last(h) \in Dirs
  BY <1>1 DEF Last
<1> QED
  BY <1>2, <1>3, <1>4

\* One step back along the line of visits, and one step forward.
LEMMA StepBack ==
  ASSUME NEW b \in Seq(Dirs), NEW f \in Seq(Dirs), NEW d \in Dirs, b # <<>>
  PROVE  Front(b) \o <<Last(b)>> \o Reverse(Append(f, d)) = b \o <<d>> \o Reverse(f)
<1> DEFINE s == Front(b) \o <<Last(b)>> \o Reverse(Append(f, d))
<1> DEFINE t == b \o <<d>> \o Reverse(f)
<1>1. Len(b) \in Nat /\ Len(b) > 0 /\ Len(f) \in Nat /\ Last(b) = b[Len(b)] /\ Last(b) \in Dirs
  BY DEF Last
<1>2. Front(b) \in Seq(Dirs) /\ Len(Front(b)) = Len(b) - 1 /\ \A k \in 1 .. Len(b) - 1 : Front(b)[k] = b[k]
  BY FrontKeeps
<1>3. /\ Append(f, d) \in Seq(Dirs) /\ Len(Append(f, d)) = Len(f) + 1 /\ Append(f, d)[Len(f) + 1] = d
      /\ \A k \in 1 .. Len(f) : Append(f, d)[k] = f[k]
  OBVIOUS
<1>4. /\ Reverse(Append(f, d)) \in Seq(Dirs) /\ Len(Reverse(Append(f, d))) = Len(f) + 1
      /\ \A k \in 1 .. Len(f) + 1 : Reverse(Append(f, d))[k] = Append(f, d)[Len(f) + 1 - k + 1]
  BY <1>1, <1>3 DEF Reverse
<1>5. /\ Reverse(f) \in Seq(Dirs) /\ Len(Reverse(f)) = Len(f)
      /\ \A k \in 1 .. Len(f) : Reverse(f)[k] = f[Len(f) - k + 1]
  BY <1>1 DEF Reverse
<1>6. Front(b) \o <<Last(b)>> = b
  <2>1. Front(b) \o <<Last(b)>> \in Seq(Dirs) /\ Len(Front(b) \o <<Last(b)>>) = Len(b)
    BY <1>1, <1>2
  <2>2. \A k \in 1 .. Len(b) : (Front(b) \o <<Last(b)>>)[k] = b[k]
    BY <1>1, <1>2
  <2> QED
    BY <2>1, <2>2
<1>7. Reverse(Append(f, d)) = <<d>> \o Reverse(f)
  <2>1. <<d>> \o Reverse(f) \in Seq(Dirs) /\ Len(<<d>> \o Reverse(f)) = Len(f) + 1
    BY <1>1, <1>5
  <2>2. ASSUME NEW k \in 1 .. Len(f) + 1 PROVE Reverse(Append(f, d))[k] = (<<d>> \o Reverse(f))[k]
    <3>1. CASE k = 1
      BY <3>1, <1>1, <1>3, <1>4, <1>5
    <3>2. CASE k # 1
      <4>1. k - 1 \in 1 .. Len(f) /\ (<<d>> \o Reverse(f))[k] = Reverse(f)[k - 1]
        BY <3>2, <1>1, <1>5
      <4>2. Reverse(f)[k - 1] = f[Len(f) - (k - 1) + 1]
        BY <4>1, <1>5
      <4>3. Len(f) + 1 - k + 1 \in 1 .. Len(f) /\ Len(f) - (k - 1) + 1 = Len(f) + 1 - k + 1
        BY <3>2, <1>1
      <4> QED
        BY <4>1, <4>2, <4>3, <1>3, <1>4
    <3> QED
      BY <3>1, <3>2
  <2> QED
    BY <2>1, <2>2, <1>4
<1> QED
  <2>1. (b \o <<d>>) \o Reverse(f) = b \o (<<d>> \o Reverse(f))
    BY <1>5, ConcatAssociative
  <2> QED
    BY <2>1, <1>6, <1>7

\* A step forward moves the line's next directory to its past.
LEMMA StepForward ==
  ASSUME NEW b \in Seq(Dirs), NEW f \in Seq(Dirs), NEW d \in Dirs, f # <<>>
  PROVE  Append(b, d) \o <<Last(f)>> \o Reverse(Front(f)) = b \o <<d>> \o Reverse(f)
<1>1. Len(b) \in Nat /\ Len(f) \in Nat /\ Len(f) > 0 /\ Last(f) = f[Len(f)] /\ Last(f) \in Dirs
  BY DEF Last
<1>2. Front(f) \in Seq(Dirs) /\ Len(Front(f)) = Len(f) - 1 /\ \A k \in 1 .. Len(f) - 1 : Front(f)[k] = f[k]
  BY FrontKeeps
<1>3. Append(b, d) = b \o <<d>>
  OBVIOUS
<1>4. /\ Reverse(Front(f)) \in Seq(Dirs) /\ Len(Reverse(Front(f))) = Len(f) - 1
      /\ \A k \in 1 .. Len(f) - 1 : Reverse(Front(f))[k] = Front(f)[Len(f) - 1 - k + 1]
  BY <1>1, <1>2 DEF Reverse
<1>5. /\ Reverse(f) \in Seq(Dirs) /\ Len(Reverse(f)) = Len(f)
      /\ \A k \in 1 .. Len(f) : Reverse(f)[k] = f[Len(f) - k + 1]
  BY <1>1 DEF Reverse
<1>6. Reverse(f) = <<Last(f)>> \o Reverse(Front(f))
  <2>1. <<Last(f)>> \o Reverse(Front(f)) \in Seq(Dirs) /\ Len(<<Last(f)>> \o Reverse(Front(f))) = Len(f)
    BY <1>1, <1>4
  <2>2. ASSUME NEW k \in 1 .. Len(f) PROVE Reverse(f)[k] = (<<Last(f)>> \o Reverse(Front(f)))[k]
    <3>1. CASE k = 1
      BY <3>1, <1>1, <1>4, <1>5
    <3>2. CASE k # 1
      <4>1. k - 1 \in 1 .. Len(f) - 1 /\ (<<Last(f)>> \o Reverse(Front(f)))[k] = Reverse(Front(f))[k - 1]
        BY <3>2, <1>1, <1>4
      <4>2. Reverse(Front(f))[k - 1] = Front(f)[Len(f) - 1 - (k - 1) + 1]
        BY <4>1, <1>4
      <4>3. Len(f) - k + 1 \in 1 .. Len(f) - 1 /\ Len(f) - 1 - (k - 1) + 1 = Len(f) - k + 1
        BY <3>2, <1>1
      <4> QED
        BY <4>1, <4>2, <4>3, <1>2, <1>5
    <3> QED
      BY <3>1, <3>2
  <2>3. Len(Reverse(f)) = Len(<<Last(f)>> \o Reverse(Front(f)))
    BY <2>1, <1>5
  <2> QED
    BY <2>1, <2>2, <2>3, <1>5, SeqEqual
<1> QED
  <2>1. ((b \o <<d>>) \o <<Last(f)>>) \o Reverse(Front(f)) = (b \o <<d>>) \o (<<Last(f)>> \o Reverse(Front(f)))
    BY SMTT(40), <1>1, <1>4, ConcatAssociative
  <2> QED
    BY <2>1, <1>3, <1>6

-----------------------------------------------------------------------------
(* The invariant of the local pane.                                         *)

FolderSpec == FolderInit /\ [][FolderNext]_folderVars

LocalRec ==
  [loaded : BOOLEAN, loading : BOOLEAN, path : Dirs \cup {Nil}, id : Nat, nav : Navigations \cup {Nil},
   auto : Dirs \cup {Nil}, ver : Nat, back : Seq(Dirs), fwd : Seq(Dirs), running : BOOLEAN, lapsed : BOOLEAN]
PaneRec ==
  [open : BOOLEAN, path : Dirs \cup {Nil}, loading : BOOLEAN, id : Nat, nav : Navigations \cup {Nil},
   auto : Dirs \cup {Nil}, shown : SUBSET Dirs, ver : Nat, more : BOOLEAN, back : Seq(Dirs), fwd : Seq(Dirs),
   owed : Nat, opens : Nat]
ReadRec == [id : Nat, name : Names, st : {"run", "ok", "failed", "after"}, ver : Nat]
FolderWatchRec ==
  [on : BOOLEAN, dir : Dirs \cup {Nil}, tried : Dirs \cup {Nil}, slot : BOOLEAN, debounce : BOOLEAN, base : Nat]
FolderTypeOK ==
  /\ files \in LocalRec /\ reads \in SUBSET ReadRec /\ watch \in FolderWatchRec
  /\ folders \in [Dirs -> Nat] /\ allowance \in [steps : Nat, edits : Nat]

Visits(b, d, f) == b \o <<d>> \o Reverse(f)

\* The directories before and after the one shown: no two neighbours are one directory,
\* and together they fit one history.
Line(b, f, d) ==
  /\ Len(b) + Len(f) <= HistoryLimit /\ Steps(b) /\ Steps(f)
  /\ d = Nil => b = <<>> /\ f = <<>>
  /\ b # <<>> => Last(b) # d
  /\ f # <<>> => Last(f) # d

\* A navigation leaves the directory shown, and one through the history asks for its end.
NavigationFits(p) ==
  p.nav # Nil => /\ p.nav.from = p.path
                 /\ p.nav.kind = "Back" => p.back # <<>> /\ p.nav.to = Last(p.back)
                 /\ p.nav.kind = "Forward" => p.fwd # <<>> /\ p.nav.to = Last(p.fwd)

HistoryFits == Line(files.back, files.fwd, files.path) /\ NavigationFits(files)

\* The listing waited for is the one asked for, and a refresh put off is still to be looked at.
ReadsFit ==
  /\ \A r \in reads : r.id <= files.id
  /\ \A q, r \in reads : q.id = files.id /\ r.id = files.id => q = r
  /\ \A r \in reads : r.id = files.id /\ r.st # "after" =>
       files.loading /\ files.nav # Nil /\ r.name = files.nav.to
  /\ ~files.loading => files.nav = Nil
  /\ files.auto # Nil /\ ~files.loading => \E r \in reads : r.st = "after"
  /\ files.loaded <=> files.path # Nil

\* A watcher runs for a pane that has shown a directory.
WatchFits == (watch.on => files.loaded) /\ (watch.dir # Nil => watch.on)

\* Of a directory of which version v was read, a later change is known to the watcher, or
\* older than the watching.
Noticed(d, v) == v = folders[d] \/ folders[d] <= watch.base \/ watch.slot \/ watch.debounce

\* A listing of the directory watched that is still to be applied, and the one shown,
\* are those of now, or it is known that they are not.
ReadsWatched ==
  /\ \A r \in reads : r.id = files.id /\ r.st = "ok" /\ Resolved[r.name] = watch.dir =>
       Noticed(watch.dir, r.ver) \/ (files.auto = watch.dir /\ files.path = watch.dir)
  /\ files.loaded /\ ~files.loading /\ ~files.lapsed /\ watch.dir = files.path =>
       Noticed(files.path, files.ver) \/ files.auto = files.path

FolderInv == FolderTypeOK /\ HistoryFits /\ ReadsFit /\ WatchFits /\ ReadsWatched

-----------------------------------------------------------------------------
(* The directory reached takes its place in the line.                       *)

\* Directories are names that stand for themselves.
LEMMA DirFacts ==
  /\ Nil \notin Dirs /\ Dirs \subseteq Names
  /\ \A d \in Dirs : Resolved[d] = d
  /\ \A n \in Names : Resolved[n] \in Dirs
BY HistoryAssumption, HistoryNil DEF Dirs

\* Going back moves along the line.
LEMMA LineBack ==
  ASSUME NEW b \in Seq(Dirs), NEW f \in Seq(Dirs), NEW d \in Dirs \cup {Nil}, Line(b, f, d), b # <<>>
  PROVE  /\ d \in Dirs /\ Last(b) \in Dirs /\ Last(b) # d
         /\ Front(b) \in Seq(Dirs) /\ Push(f, d) \in Seq(Dirs)
         /\ Line(Front(b), Push(f, d), Last(b))
         /\ Visits(Front(b), Last(b), Push(f, d)) = Visits(b, d, f)
<1>1. Len(b) \in Nat /\ Len(f) \in Nat /\ HistoryLimit \in Nat \ {0} /\ Nil \notin Dirs /\ Len(b) > 0
  BY HistoryAssumption, DirFacts
<1>2. /\ d # Nil /\ d \in Dirs /\ Last(b) # d /\ Steps(b) /\ Steps(f) /\ Len(b) + Len(f) <= HistoryLimit
      /\ f = <<>> \/ Last(f) # d
  BY DEF Line
<1>3. Len(f) < HistoryLimit
  BY <1>1, <1>2
<1>4. /\ Push(f, d) = Append(f, d) /\ Push(f, d) \in Seq(Dirs) /\ Push(f, d) # <<>>
      /\ Last(Push(f, d)) = d /\ Steps(Push(f, d))
  BY <1>1, <1>2, <1>3, PushKeeps
<1>5. /\ Front(b) \in Seq(Dirs) /\ Len(Front(b)) = Len(b) - 1 /\ Last(b) \in Dirs /\ Steps(Front(b))
      /\ Front(b) # <<>> => Last(Front(b)) # Last(b)
  BY <1>2, FrontKeeps
<1>6. Len(Push(f, d)) = Len(f) + 1
  BY <1>4
<1>7. Len(Front(b)) + Len(Push(f, d)) <= HistoryLimit /\ Len(Push(f, d)) + Len(Front(b)) <= HistoryLimit
  BY <1>1, <1>2, <1>5, <1>6
<1>8. Line(Front(b), Push(f, d), Last(b))
  BY <1>1, <1>2, <1>4, <1>5, <1>7 DEF Line
<1>9. Visits(Front(b), Last(b), Push(f, d)) = Visits(b, d, f)
  BY ZenonT(40), <1>2, <1>4, StepBack DEF Visits
<1> QED
  BY <1>2, <1>4, <1>5, <1>8, <1>9

\* Going forward moves along the line.
LEMMA LineAhead ==
  ASSUME NEW b \in Seq(Dirs), NEW f \in Seq(Dirs), NEW d \in Dirs \cup {Nil}, Line(b, f, d), f # <<>>
  PROVE  /\ d \in Dirs /\ Last(f) \in Dirs /\ Last(f) # d
         /\ Front(f) \in Seq(Dirs) /\ Push(b, d) \in Seq(Dirs)
         /\ Line(Push(b, d), Front(f), Last(f))
         /\ Visits(Push(b, d), Last(f), Front(f)) = Visits(b, d, f)
<1>1. Len(b) \in Nat /\ Len(f) \in Nat /\ HistoryLimit \in Nat \ {0} /\ Nil \notin Dirs /\ Len(f) > 0
  BY HistoryAssumption, DirFacts
<1>2. /\ d # Nil /\ d \in Dirs /\ Last(f) # d /\ Steps(f) /\ Steps(b) /\ Len(b) + Len(f) <= HistoryLimit
      /\ b = <<>> \/ Last(b) # d
  BY DEF Line
<1>3. Len(b) < HistoryLimit
  BY <1>1, <1>2
<1>4. /\ Push(b, d) = Append(b, d) /\ Push(b, d) \in Seq(Dirs) /\ Push(b, d) # <<>>
      /\ Last(Push(b, d)) = d /\ Steps(Push(b, d))
  BY <1>1, <1>2, <1>3, PushKeeps
<1>5. /\ Front(f) \in Seq(Dirs) /\ Len(Front(f)) = Len(f) - 1 /\ Last(f) \in Dirs /\ Steps(Front(f))
      /\ Front(f) # <<>> => Last(Front(f)) # Last(f)
  BY <1>2, FrontKeeps
<1>6. Len(Push(b, d)) = Len(b) + 1
  BY <1>4
<1>7. Len(Front(f)) + Len(Push(b, d)) <= HistoryLimit /\ Len(Push(b, d)) + Len(Front(f)) <= HistoryLimit
  BY <1>1, <1>2, <1>5, <1>6
<1>8. Line(Push(b, d), Front(f), Last(f))
  BY <1>1, <1>2, <1>4, <1>5, <1>7 DEF Line
<1>9. Visits(Push(b, d), Last(f), Front(f)) = Visits(b, d, f)
  BY <1>2, <1>4, StepForward DEF Visits
<1> QED
  BY <1>2, <1>4, <1>5, <1>8, <1>9

\* Another directory visited is added to the line, whose rest ahead is given up.
LEMMA LineVisit ==
  ASSUME NEW b \in Seq(Dirs), NEW f \in Seq(Dirs), NEW d \in Dirs \cup {Nil}, Line(b, f, d),
         NEW e \in Dirs, e # d
  PROVE  Push(b, d) \in Seq(Dirs) /\ Line(Push(b, d), <<>>, e)
<1>1. Len(b) \in Nat /\ Len(f) \in Nat /\ HistoryLimit \in Nat \ {0} /\ Nil \notin Dirs
  BY HistoryAssumption, DirFacts
<1>2. Len(b) + Len(f) <= HistoryLimit /\ Steps(b) /\ (d = Nil => b = <<>>)
  BY DEF Line
<1>3. Len(b) <= HistoryLimit /\ Steps(<<>>) /\ Len(<<>>) = 0
  BY <1>1, <1>2 DEF Steps
<1>4. CASE d = Nil
  <2>1. Push(b, d) = <<>>
    BY <1>4, <1>2 DEF Push
  <2> QED
    BY <2>1, <1>1, <1>3 DEF Line
<1>5. CASE d # Nil
  <2>1. /\ Push(b, d) \in Seq(Dirs) /\ Push(b, d) # <<>> /\ Last(Push(b, d)) = d
        /\ Len(Push(b, d)) <= HistoryLimit /\ Steps(Push(b, d))
    BY <1>1, <1>2, <1>3, <1>5, PushKeeps
  <2>2. Len(Push(b, d)) \in Nat
    BY <2>1
  <2>3. Len(Push(b, d)) + Len(<<>>) <= HistoryLimit
    BY <2>1, <2>2, <1>3
  <2> QED
    BY <2>1, <2>3, <1>1, <1>3 DEF Line
<1> QED
  BY <1>4, <1>5

\* Completing a navigation keeps the line, and going back or forward changes nothing of it.
LEMMA CompleteFits ==
  ASSUME NEW p \in LocalRec \cup PaneRec, Line(p.back, p.fwd, p.path), NavigationFits(p), p.nav # Nil,
         NEW d \in Dirs, d = Resolved[p.nav.to]
  PROVE  \E b \in Seq(Dirs), f \in Seq(Dirs) :
            /\ CompleteHistory(p, d) = [p EXCEPT !.back = b, !.fwd = f]
            /\ Line(b, f, d)
            /\ p.nav.kind \in {"Back", "Forward"} /\ d # p.path =>
                 Visits(b, d, f) = Timeline(p)
<1>1. p.back \in Seq(Dirs) /\ p.fwd \in Seq(Dirs) /\ p.path \in Dirs \cup {Nil} /\ p.nav \in Navigations
  <2>1. CASE p \in LocalRec
    BY <2>1 DEF LocalRec
  <2>2. CASE p \in PaneRec
    BY <2>2 DEF PaneRec
  <2> QED
    BY <2>1, <2>2
<1>2. p.nav.kind \in Kinds /\ p.nav.to \in Names /\ p.nav.from = p.path
  BY <1>1 DEF Navigations, NavigationFits
<1>4. Nil \notin Dirs /\ \A e \in Dirs : Resolved[e] = e
  BY DirFacts
<1>5. CASE p.nav.kind \in {"Direct", "Up"} /\ p.path # d
  <2>1. CompleteHistory(p, d) = [p EXCEPT !.back = Push(p.back, p.path), !.fwd = <<>>]
    BY <1>2, <1>5 DEF CompleteHistory
  <2>2. Push(p.back, p.path) \in Seq(Dirs) /\ Line(Push(p.back, p.path), <<>>, d) /\ <<>> \in Seq(Dirs)
    BY <1>1, <1>5, LineVisit
  <2> QED
    BY <2>1, <2>2, <1>5
<1>6. CASE p.nav.kind = "Back"
  <2>1. p.back # <<>> /\ p.nav.to = Last(p.back)
    BY <1>6 DEF NavigationFits
  <2>2. /\ Front(p.back) \in Seq(Dirs) /\ Push(p.fwd, p.path) \in Seq(Dirs) /\ Last(p.back) \in Dirs
        /\ Line(Front(p.back), Push(p.fwd, p.path), Last(p.back))
        /\ Visits(Front(p.back), Last(p.back), Push(p.fwd, p.path)) = Visits(p.back, p.path, p.fwd)
    BY <2>1, <1>1, LineBack
  <2>3. d = Last(p.back)
    BY <2>1, <2>2, <1>4
  <2>4. CompleteHistory(p, d) = [p EXCEPT !.back = Front(p.back), !.fwd = Push(p.fwd, p.path)]
    BY <1>2, <1>6, <2>1 DEF CompleteHistory, GoBack
  <2> QED
    BY <2>2, <2>3, <2>4 DEF Timeline, Visits
<1>7. CASE p.nav.kind = "Forward"
  <2>1. p.fwd # <<>> /\ p.nav.to = Last(p.fwd)
    BY <1>7 DEF NavigationFits
  <2>2. /\ Front(p.fwd) \in Seq(Dirs) /\ Push(p.back, p.path) \in Seq(Dirs) /\ Last(p.fwd) \in Dirs
        /\ Line(Push(p.back, p.path), Front(p.fwd), Last(p.fwd))
        /\ Visits(Push(p.back, p.path), Last(p.fwd), Front(p.fwd)) = Visits(p.back, p.path, p.fwd)
    BY <2>1, <1>1, LineAhead
  <2>3. d = Last(p.fwd)
    BY <2>1, <2>2, <1>4
  <2>4. CompleteHistory(p, d) = [p EXCEPT !.fwd = Front(p.fwd), !.back = Push(p.back, p.path)]
    BY <1>2, <1>7, <2>1 DEF CompleteHistory, GoForward
  <2>5. CompleteHistory(p, d) = [p EXCEPT !.back = Push(p.back, p.path), !.fwd = Front(p.fwd)]
    <3>1. CASE p \in LocalRec
      BY <2>4, <3>1 DEF LocalRec
    <3>2. CASE p \in PaneRec
      BY <2>4, <3>2 DEF PaneRec
    <3> QED
      BY <3>1, <3>2
  <2> QED
    BY <2>2, <2>3, <2>5 DEF Timeline, Visits
<1>8. CASE p.nav.kind \in {"Direct", "Up"} /\ p.path = d
  <2>1. CompleteHistory(p, d) = p
    BY <1>2, <1>8 DEF CompleteHistory
  <2>2. p = [p EXCEPT !.back = p.back, !.fwd = p.fwd]
    <3>1. CASE p \in LocalRec
      BY <3>1 DEF LocalRec
    <3>2. CASE p \in PaneRec
      BY <3>2 DEF PaneRec
    <3> QED
      BY <3>1, <3>2
  <2> QED
    BY <2>1, <2>2, <1>1, <1>8
<1> QED
  BY <1>2, <1>5, <1>6, <1>7, <1>8 DEF Kinds

-----------------------------------------------------------------------------
(* What the steps of the local pane do.                                     *)

\* A listing begins: its number is new, so nothing that runs can answer in its place.
LEMMA BeginKeeps ==
  ASSUME FolderInv, NEW a \in Dirs \cup {Nil}, NEW kind \in Kinds, NEW to \in Names,
         kind = "Back" => files.back # <<>> /\ to = Last(files.back),
         kind = "Forward" => files.fwd # <<>> /\ to = Last(files.fwd),
         files' = BeginLocal([files EXCEPT !.auto = a], kind, to),
         NEW S \in SUBSET reads, reads' = S \cup {NewRead(files')},
         watch' \in FolderWatchRec, WatchFits', folders' \in [Dirs -> Nat], allowance' \in [steps : Nat, edits : Nat]
  PROVE  FolderInv'
<1> DEFINE n == [kind |-> kind, from |-> files.path, to |-> to]
<1>1. files \in LocalRec /\ reads \in SUBSET ReadRec /\ files.id \in Nat /\ files.path \in Dirs \cup {Nil}
  BY DEF FolderInv, FolderTypeOK, LocalRec
<1>2. n \in Navigations
  BY <1>1 DEF Navigations
<1>3. n # Nil
  BY <1>2, HistoryNil
<1> HIDE DEF n
<1>4. files' = [files EXCEPT !.auto = a, !.nav = n, !.loading = TRUE, !.id = files.id + 1]
  BY <1>1 DEF BeginLocal, n, LocalRec
<1>5. /\ files' \in LocalRec /\ files'.id = files.id + 1 /\ files'.loading /\ files'.nav = n
      /\ files'.path = files.path /\ files'.back = files.back /\ files'.fwd = files.fwd
      /\ files'.loaded = files.loaded
  <2>1. files.id + 1 \in Nat /\ n \in Navigations \cup {Nil}
    BY <1>1, <1>2
  <2>2. files' \in LocalRec
    BY <1>1, <1>4, <2>1, ZenonT(40) DEF LocalRec
  <2>3. /\ files'.id = files.id + 1 /\ files'.loading /\ files'.nav = n
        /\ files'.path = files.path /\ files'.back = files.back /\ files'.fwd = files.fwd
        /\ files'.loaded = files.loaded
    BY <1>1, <1>4 DEF LocalRec
  <2> QED
    BY <2>2, <2>3
<1>6. n.kind = kind /\ n.to = to /\ n.from = files.path
  BY DEF n
<1>7. PICK q \in ReadRec : q = NewRead(files') /\ q.id = files.id + 1 /\ q.name = to /\ q.st = "run"
  <2>1. NewRead(files') \in ReadRec
    BY <1>1, <1>5, <1>6 DEF NewRead, ReadRec
  <2> QED
    BY <2>1, <1>5, <1>6 DEF NewRead
<1>8. reads' = S \cup {q} /\ reads' \in SUBSET ReadRec /\ \A r \in S : r.id \in Nat /\ r.id <= files.id
  BY <1>1, <1>7 DEF FolderInv, ReadsFit, ReadRec
<1>9. \A r \in reads' : r.id <= files.id + 1 /\ (r.id = files.id + 1 => r = q)
  BY <1>1, <1>7, <1>8
<1>10. FolderTypeOK'
  BY <1>5, <1>8 DEF FolderTypeOK
<1>11. HistoryFits'
  BY <1>5, <1>6 DEF FolderInv, HistoryFits, NavigationFits
<1>12. ReadsFit'
  <2>1. files.loaded <=> files.path # Nil
    BY DEF FolderInv, ReadsFit
  <2> QED
    BY <2>1, <1>3, <1>5, <1>6, <1>7, <1>9 DEF ReadsFit
<1>13. ReadsWatched'
  BY <1>5, <1>7, <1>9 DEF ReadsWatched
<1> QED
  BY <1>10, <1>11, <1>12, <1>13 DEF FolderInv

\* The pane and its listings stay, or a refresh is put off behind the listing under way.
LEMMA WatchKeeps ==
  ASSUME FolderInv, NEW a \in Dirs \cup {Nil}, files' = [files EXCEPT !.auto = a], reads' = reads,
         a # Nil /\ ~files.loading => a = files.auto,
         watch' \in FolderWatchRec, WatchFits', folders' \in [Dirs -> Nat], allowance' \in [steps : Nat, edits : Nat],
         ReadsWatched'
  PROVE  FolderInv'
<1>1. files \in LocalRec /\ reads \in SUBSET ReadRec
  BY DEF FolderInv, FolderTypeOK
<1>2. /\ files' \in LocalRec /\ files'.id = files.id /\ files'.loading = files.loading /\ files'.nav = files.nav
      /\ files'.path = files.path /\ files'.back = files.back /\ files'.fwd = files.fwd
      /\ files'.loaded = files.loaded /\ files'.auto = a
  BY <1>1 DEF LocalRec
<1>3. FolderTypeOK'
  BY <1>1, <1>2 DEF FolderTypeOK
<1>4. HistoryFits'
  BY <1>2 DEF FolderInv, HistoryFits, NavigationFits
<1>5. ReadsFit'
  BY <1>2 DEF FolderInv, ReadsFit
<1> QED
  BY <1>3, <1>4, <1>5 DEF FolderInv

\* A request for a directory, and the watcher's refresh (queue_local_navigation).
LEMMA LocalNavigateKeeps ==
  ASSUME FolderInv, NEW kind \in Kinds, NEW name, name \in Names \/ (name = Nil /\ kind # "Direct"),
         LocalNavigate(kind, name)
  PROVE  FolderInv'
<1>1. files \in LocalRec /\ allowance \in [steps : Nat, edits : Nat] /\ allowance.steps > 0
  BY DEF FolderInv, FolderTypeOK, LocalNavigate
<1>2. PICK to : to = Wanted(files, kind, name) /\ to # Nil
  BY DEF LocalNavigate
<1>3. /\ files.path \in Dirs \cup {Nil} /\ files.back \in Seq(Dirs) /\ files.fwd \in Seq(Dirs)
      /\ files.auto \in Dirs \cup {Nil}
  BY <1>1 DEF LocalRec
<1>4. /\ to \in Names
      /\ kind = "Back" => files.back # <<>> /\ to = Last(files.back)
      /\ kind = "Forward" => files.fwd # <<>> /\ to = Last(files.fwd)
  <2>1. CASE kind = "Direct"
    BY <2>1, <1>2 DEF Wanted
  <2>2. CASE kind = "Back"
    <3>1. files.back # <<>> /\ to = Last(files.back)
      BY <2>2, <1>2 DEF Wanted
    <3> QED
      BY <3>1, <2>2, <1>3, FrontKeeps, DirFacts
  <2>3. CASE kind = "Forward"
    <3>1. files.fwd # <<>> /\ to = Last(files.fwd)
      BY <2>3, <1>2 DEF Wanted
    <3> QED
      BY <3>1, <2>3, <1>3, FrontKeeps, DirFacts
  <2>4. CASE kind = "Up"
    <3>1. files.path # Nil /\ to = Parent[files.path]
      BY <2>4, <1>2 DEF Wanted
    <3> QED
      BY <3>1, <2>4, <1>2, <1>3, DirFacts, HistoryAssumption
  <2> QED
    BY <2>1, <2>2, <2>3, <2>4 DEF Kinds
<1>5. [files EXCEPT !.auto = files.auto] = files
  BY <1>1 DEF LocalRec
<1>6. files' = BeginLocal([files EXCEPT !.auto = files.auto], kind, to)
  BY <1>2, <1>5 DEF LocalNavigate
<1>7. allowance' \in [steps : Nat, edits : Nat]
  BY <1>1 DEF LocalNavigate
<1>8. watch' \in FolderWatchRec /\ WatchFits' /\ folders' \in [Dirs -> Nat] /\ reads' = reads \cup {NewRead(files')}
  <2>1. files'.loaded = files.loaded
    BY <1>1, <1>6, <1>5 DEF BeginLocal, LocalRec
  <2> QED
    BY <2>1 DEF FolderInv, FolderTypeOK, WatchFits, LocalNavigate
<1> QED
  BY <1>3, <1>4, <1>6, <1>7, <1>8, BeginKeeps

\* The blocking read of a directory ends (read_local_directory).
LEMMA ReadEndsKeeps == ASSUME FolderInv, NEW r \in reads, ReadEnds(r) PROVE FolderInv'
<1>1. files \in LocalRec /\ reads \in SUBSET ReadRec /\ folders \in [Dirs -> Nat] /\ r \in ReadRec
  BY DEF FolderInv, FolderTypeOK
<1>2. PICK ok \in BOOLEAN :
        reads' = (reads \ {r}) \cup {[r EXCEPT !.st = IF ok THEN "ok" ELSE "failed", !.ver = folders[Resolved[r.name]]]}
  BY DEF ReadEnds
<1> DEFINE e == [r EXCEPT !.st = IF ok THEN "ok" ELSE "failed", !.ver = folders[Resolved[r.name]]]
<1>3. r.name \in Names /\ Resolved[r.name] \in Dirs /\ folders[Resolved[r.name]] \in Nat
  BY <1>1, DirFacts DEF ReadRec
<1>4. /\ e \in ReadRec /\ e.id = r.id /\ e.name = r.name /\ e.st \in {"ok", "failed"}
      /\ e.ver = folders[Resolved[e.name]]
  BY <1>1, <1>3 DEF ReadRec
<1> HIDE DEF e
<1>5. reads' = (reads \ {r}) \cup {e} /\ UNCHANGED <<files, watch, folders, allowance>> /\ r.st = "run"
  BY <1>2 DEF ReadEnds, e
<1>6. FolderTypeOK' /\ HistoryFits' /\ WatchFits'
  BY <1>4, <1>5 DEF FolderInv, FolderTypeOK, HistoryFits, NavigationFits, WatchFits
<1>7. ReadsFit'
  <2>1. \A q \in reads' : q = e \/ (q \in reads /\ q # r)
    BY <1>5
  <2>2. \A q \in reads' : q.id <= files.id
    BY <2>1, <1>4 DEF FolderInv, ReadsFit
  <2>3. \A q, s \in reads' : q.id = files.id /\ s.id = files.id => q = s
    BY <2>1, <1>4 DEF FolderInv, ReadsFit
  <2>4. \A q \in reads' : q.id = files.id /\ q.st # "after" =>
            files.loading /\ files.nav # Nil /\ q.name = files.nav.to
    BY <2>1, <1>4, <1>5 DEF FolderInv, ReadsFit
  <2>5. files.auto # Nil /\ ~files.loading => \E q \in reads' : q.st = "after"
    BY <1>5 DEF FolderInv, ReadsFit
  <2> QED
    BY <2>2, <2>3, <2>4, <2>5, <1>5 DEF FolderInv, ReadsFit
<1>8. ReadsWatched'
  <2>1. \A q \in reads' : q.id = files.id /\ q.st = "ok" /\ Resolved[q.name] = watch.dir =>
            Noticed(watch.dir, q.ver) \/ (files.auto = watch.dir /\ files.path = watch.dir)
    BY <1>4, <1>5 DEF FolderInv, ReadsWatched, Noticed
  <2> QED
    BY <2>1, <1>5 DEF FolderInv, ReadsWatched, Noticed
<1> QED
  BY <1>6, <1>7, <1>8 DEF FolderInv

\* A listing or its failure reaches the pane (apply_local_directory_listing, apply_local_directory_failure).
LEMMA ApplyReadKeeps == ASSUME FolderInv, NEW r \in reads, ApplyRead(r) PROVE FolderInv'
<1>1. /\ files \in LocalRec /\ reads \in SUBSET ReadRec /\ r \in ReadRec /\ watch \in FolderWatchRec
      /\ UNCHANGED <<folders, allowance>> /\ r.st \in {"ok", "failed"} /\ r.st # "after"
  BY DEF FolderInv, FolderTypeOK, ApplyRead
<1>2. CASE ~CurrentRead(r)
  <2>1. files' = files /\ watch' = watch /\ reads' = reads \ {r}
    BY <1>2 DEF ApplyRead
  <2>2. FolderTypeOK' /\ HistoryFits' /\ WatchFits' /\ ReadsWatched'
    BY <1>1, <2>1 DEF FolderInv, FolderTypeOK, HistoryFits, NavigationFits, WatchFits, ReadsWatched, Noticed
  <2>3. ReadsFit'
    BY <1>1, <2>1 DEF FolderInv, ReadsFit
  <2> QED
    BY <2>2, <2>3 DEF FolderInv
<1>3. CASE CurrentRead(r)
  <2>1. r.id = files.id /\ files.loading /\ files.nav # Nil /\ r.name = files.nav.to
    BY <1>1, <1>3 DEF CurrentRead, FolderInv, ReadsFit
  <2>2. \A q \in reads : q.id <= files.id /\ (q.id = files.id => q = r)
    BY <2>1 DEF FolderInv, ReadsFit
  <2>3. PICK e \in ReadRec : e = [r EXCEPT !.st = "after"] /\ e.id = r.id /\ e.st = "after"
    <3>1. [r EXCEPT !.st = "after"] \in ReadRec
      BY <1>1, Zenon DEF ReadRec
    <3> QED
      BY <1>1, <3>1 DEF ReadRec
  <2>4. reads' = (reads \ {r}) \cup {e}
    BY <1>3, <2>3 DEF ApplyRead
  <2>5. \A q \in reads' : q.id <= files.id /\ (q.id = files.id => q = e)
    BY <2>1, <2>2, <2>3, <2>4
  <2>6. e \in reads' /\ reads' \in SUBSET ReadRec
    BY <1>1, <2>3, <2>4
  <2>7. CASE r.st = "failed"
    <3>1. files' = FailLocal(files) /\ watch' = watch
      BY <1>3, <2>7 DEF ApplyRead
    <3>2. /\ files' \in LocalRec /\ files'.id = files.id /\ ~files'.loading /\ files'.nav = Nil
          /\ files'.path = files.path /\ files'.back = files.back /\ files'.fwd = files.fwd
          /\ files'.loaded = files.loaded /\ files'.lapsed
      BY <1>1, <3>1 DEF FailLocal, LocalRec
    <3>3. FolderTypeOK' /\ HistoryFits' /\ WatchFits'
      BY <1>1, <2>6, <3>1, <3>2 DEF FolderInv, FolderTypeOK, HistoryFits, NavigationFits, WatchFits
    <3>4. ReadsFit'
      BY ZenonT(40), <2>3, <2>5, <2>6, <3>2 DEF FolderInv, ReadsFit
    <3>5. ReadsWatched'
      BY <2>3, <2>5, <3>2 DEF ReadsWatched
    <3> QED
      BY <3>3, <3>4, <3>5 DEF FolderInv
  <2>8. CASE r.st = "ok"
    <3>1. PICK d \in Dirs : d = Resolved[r.name]
      BY <1>1, DirFacts DEF ReadRec
    <3>2. PICK b \in Seq(Dirs), f \in Seq(Dirs) :
              CompleteHistory(files, d) = [files EXCEPT !.back = b, !.fwd = f] /\ Line(b, f, d)
      BY <1>1, <2>1, <3>1, CompleteFits DEF FolderInv, HistoryFits
    <3>3. files' = [[files EXCEPT !.back = b, !.fwd = f] EXCEPT !.nav = Nil, !.loading = FALSE, !.loaded = TRUE,
                          !.path = d, !.ver = r.ver, !.lapsed = FALSE, !.running = TRUE]
      <4>1. files' = [Complete(files, r) EXCEPT !.running = TRUE]
        BY <1>3, <2>8 DEF ApplyRead
      <4>2. Complete(files, r) = [[files EXCEPT !.back = b, !.fwd = f] EXCEPT !.nav = Nil, !.loading = FALSE,
                                       !.loaded = TRUE, !.path = d, !.ver = r.ver, !.lapsed = FALSE]
        BY <3>1, <3>2 DEF Complete
      <4> QED
        BY <1>1, <4>1, <4>2 DEF LocalRec
    <3>4. r.ver \in Nat
      BY <1>1 DEF ReadRec
    <3>5. files' \in LocalRec
      BY <1>1, <3>3, <3>4, ZenonT(40) DEF LocalRec
    <3>6. /\ files'.id = files.id /\ ~files'.loading /\ files'.nav = Nil /\ files'.path = d /\ files'.back = b
          /\ files'.fwd = f /\ files'.loaded /\ files'.ver = r.ver /\ files'.auto = files.auto
      BY <1>1, <3>3 DEF LocalRec
    <3>7. watch' \in {watch, [NoWatch EXCEPT !.on = TRUE]}
      BY <1>3, <2>8 DEF ApplyRead
    <3>8. /\ [NoWatch EXCEPT !.on = TRUE] \in FolderWatchRec /\ [NoWatch EXCEPT !.on = TRUE].dir = Nil
          /\ [NoWatch EXCEPT !.on = TRUE].on
      BY DEF NoWatch, FolderWatchRec
    <3>9. Nil \notin Dirs
      BY DirFacts
    <3>10. FolderTypeOK' /\ HistoryFits' /\ WatchFits'
      <4>1. FolderTypeOK'
        BY <1>1, <2>6, <3>5, <3>7, <3>8 DEF FolderInv, FolderTypeOK
      <4>2. HistoryFits'
        BY <3>2, <3>6 DEF HistoryFits, NavigationFits
      <4>3. WatchFits'
        BY <3>6, <3>7, <3>8 DEF FolderInv, WatchFits
      <4> QED
        BY <4>1, <4>2, <4>3
    <3>11. ReadsFit'
      BY <2>3, <2>5, <2>6, <3>6, <3>9 DEF ReadsFit
    <3>12. ReadsWatched'
      <4>1. \A q \in reads' : ~(q.id = files'.id /\ q.st = "ok")
        BY <2>3, <2>5, <3>6
      <4>2. ASSUME watch'.dir = d PROVE Noticed(d, r.ver)' \/ files'.auto = d
        <5>1. watch' = watch
          BY <4>2, <3>7, <3>8, <3>9
        <5>2. Noticed(d, r.ver) \/ files.auto = d
          BY <4>2, <5>1, <2>1, <2>8, <3>1 DEF FolderInv, ReadsWatched
        <5> QED
          BY <5>1, <5>2, <3>6, <1>1 DEF Noticed
      <4> QED
        BY <4>1, <4>2, <3>6 DEF ReadsWatched, Noticed
    <3> QED
      BY <3>10, <3>11, <3>12 DEF FolderInv
  <2> QED
    BY <1>1, <2>7, <2>8
<1> QED
  BY <1>2, <1>3

\* After a listing the refresh put off meanwhile is looked at.
LEMMA AfterReadKeeps == ASSUME FolderInv, NEW r \in reads, AfterRead(r) PROVE FolderInv'
<1>1. /\ files \in LocalRec /\ reads \in SUBSET ReadRec /\ UNCHANGED <<watch, folders, allowance>> /\ r.st = "after"
      /\ files.auto \in Dirs \cup {Nil} /\ files.path \in Dirs \cup {Nil}
  BY DEF FolderInv, FolderTypeOK, AfterRead, LocalRec
<1>2. CASE PendingRefresh(files)
  <2>1. files.path \in Names /\ "Direct" \in Kinds
    BY <1>1, <1>2, DirFacts DEF PendingRefresh, Kinds
  <2>2. files' = BeginLocal([files EXCEPT !.auto = Nil], "Direct", files.path)
    BY <1>2 DEF AfterRead, PendingRefresh
  <2>3. reads \ {r} \in SUBSET reads /\ reads' = (reads \ {r}) \cup {NewRead(files')}
    BY <1>2 DEF AfterRead
  <2>4. files'.loaded = files.loaded
    BY <1>1, <2>2 DEF BeginLocal, LocalRec
  <2>5. watch' \in FolderWatchRec /\ WatchFits' /\ folders' \in [Dirs -> Nat] /\ allowance' \in [steps : Nat, edits : Nat]
    BY <1>1, <2>4 DEF FolderInv, FolderTypeOK, WatchFits
  <2> QED
    BY <2>1, <2>2, <2>3, <2>5, BeginKeeps
<1>3. CASE ~PendingRefresh(files)
  <2>1. PICK a \in {files.auto, Nil} : a = IF files.loading THEN files.auto ELSE Nil
    OBVIOUS
  <2>2. files' = [files EXCEPT !.auto = a] /\ reads' = reads \ {r}
    BY <1>3, <2>1 DEF AfterRead
  <2>3. a \in Dirs \cup {Nil}
    BY <1>1, <2>1
  <2>4. /\ files' \in LocalRec /\ files'.id = files.id /\ files'.loading = files.loading /\ files'.nav = files.nav
        /\ files'.path = files.path /\ files'.back = files.back /\ files'.fwd = files.fwd
        /\ files'.loaded = files.loaded /\ files'.auto = a /\ files'.lapsed = files.lapsed /\ files'.ver = files.ver
    BY <1>1, <2>2, <2>3 DEF LocalRec
  <2>5. FolderTypeOK' /\ HistoryFits' /\ WatchFits'
    BY <1>1, <2>2, <2>4 DEF FolderInv, FolderTypeOK, HistoryFits, NavigationFits, WatchFits
  <2>6. ReadsFit'
    BY <1>1, <2>1, <2>2, <2>4 DEF FolderInv, ReadsFit
  <2>7. ReadsWatched'
    <3>1. CASE files.loading
      <4>1. a = files.auto
        BY <3>1, <2>1
      <4> QED
        BY <3>1, <4>1, <1>1, <2>2, <2>4 DEF FolderInv, ReadsWatched, Noticed
    <3>2. CASE ~files.loading
      <4>1. \A q \in reads' : ~(q.id = files.id /\ q.st = "ok")
        BY <3>2, <2>2 DEF FolderInv, ReadsFit
      <4>2. files.loaded => files.auto # files.path
        BY <1>3, <3>2 DEF PendingRefresh, FolderInv, ReadsFit
      <4> QED
        BY <4>1, <4>2, <1>1, <2>4 DEF FolderInv, ReadsWatched, Noticed
    <3> QED
      BY <3>1, <3>2
  <2> QED
    BY <2>5, <2>6, <2>7 DEF FolderInv
<1> QED
  BY <1>2, <1>3

\* The pane loses its listing (SftpBrowserState::reset).
LEMMA ResetLocalKeeps == ASSUME FolderInv, ResetLocal PROVE FolderInv'
<1>1. /\ files \in LocalRec /\ reads \in SUBSET ReadRec /\ UNCHANGED <<reads, watch, folders>>
      /\ allowance \in [steps : Nat, edits : Nat] /\ files.id \in Nat /\ allowance.steps > 0
  BY DEF FolderInv, FolderTypeOK, ResetLocal, LocalRec
<1>2. PICK l \in BOOLEAN : l = (files.lapsed \/ files.loading \/ files.auto # Nil)
  OBVIOUS
<1>3. files' = [files EXCEPT !.id = files.id + 1, !.nav = Nil, !.auto = Nil, !.loading = FALSE, !.lapsed = l]
  BY <1>1, <1>2 DEF ResetLocal
<1>4. /\ files' \in LocalRec /\ files'.id = files.id + 1 /\ ~files'.loading /\ files'.nav = Nil
      /\ files'.path = files.path /\ files'.back = files.back /\ files'.fwd = files.fwd
      /\ files'.loaded = files.loaded /\ files'.auto = Nil /\ files'.lapsed = l /\ files'.ver = files.ver
  <2>1. files.id + 1 \in Nat
    BY <1>1
  <2>2. files' \in LocalRec
    BY <1>1, <1>2, <1>3, <2>1, ZenonT(40) DEF LocalRec
  <2> QED
    BY <1>1, <1>3, <2>2 DEF LocalRec
<1>5. allowance' \in [steps : Nat, edits : Nat]
  BY <1>1 DEF ResetLocal
<1>6. \A r \in reads : r.id \in Nat /\ r.id <= files.id
  BY <1>1 DEF FolderInv, ReadsFit, ReadRec
<1>7. \A r \in reads' : r.id <= files'.id /\ r.id # files'.id
  BY <1>1, <1>4, <1>6
<1>8. FolderTypeOK' /\ HistoryFits' /\ WatchFits'
  BY <1>1, <1>4, <1>5 DEF FolderInv, FolderTypeOK, HistoryFits, NavigationFits, WatchFits
<1>9. ReadsFit'
  BY <1>4, <1>7 DEF FolderInv, ReadsFit
<1>10. ReadsWatched'
  <2>1. ASSUME files.loaded, ~l, watch.dir = files.path PROVE Noticed(files.path, files.ver)
    <3>1. ~files.loading /\ ~files.lapsed /\ files.auto = Nil /\ files.path # Nil
      BY <2>1, <1>2 DEF FolderInv, ReadsFit
    <3> QED
      BY <2>1, <3>1 DEF FolderInv, ReadsWatched
  <2> QED
    BY <2>1, <1>1, <1>4, <1>7 DEF ReadsWatched, Noticed
<1> QED
  BY <1>8, <1>9, <1>10 DEF FolderInv

\* A change of a directory, and what the watcher of it is told.
LEMMA ChangeFacts ==
  ASSUME FolderInv, NEW d \in Dirs, folders' = [folders EXCEPT ![d] = @ + 1], watch' = Notified(d),
         allowance.edits > 0, allowance' = [allowance EXCEPT !.edits = @ - 1]
  PROVE  /\ folders' \in [Dirs -> Nat] /\ watch' \in FolderWatchRec /\ allowance' \in [steps : Nat, edits : Nat]
         /\ watch'.on = watch.on /\ watch'.dir = watch.dir
         /\ \A v \in Nat : watch.dir # Nil /\ Noticed(watch.dir, v) => Noticed(watch.dir, v)'
<1>1. folders \in [Dirs -> Nat] /\ watch \in FolderWatchRec /\ allowance \in [steps : Nat, edits : Nat]
  BY DEF FolderInv, FolderTypeOK
<1>2. folders[d] + 1 \in Nat /\ allowance.edits - 1 \in Nat
  BY <1>1
<1>3. folders' \in [Dirs -> Nat] /\ folders' = [folders EXCEPT ![d] = folders[d] + 1]
  BY <1>1, <1>2
<1>4. allowance' \in [steps : Nat, edits : Nat]
  BY <1>1, <1>2
<1>5. CASE watch.on /\ watch.dir = d
  <2>1. watch' = [watch EXCEPT !.slot = TRUE]
    BY <1>5 DEF Notified
  <2>2. watch' \in FolderWatchRec /\ watch'.on = watch.on /\ watch'.dir = watch.dir /\ watch'.slot
    BY <1>1, <2>1 DEF FolderWatchRec
  <2> QED
    BY <1>3, <1>4, <2>2 DEF Noticed
<1>6. CASE ~(watch.on /\ watch.dir = d)
  <2>1. watch' = watch
    BY <1>6 DEF Notified
  <2>2. watch.dir # Nil => watch.dir \in Dirs /\ watch.dir # d /\ folders'[watch.dir] = folders[watch.dir]
    BY <1>1, <1>3, <1>6 DEF FolderInv, WatchFits, FolderWatchRec
  <2> QED
    BY <1>1, <1>3, <1>4, <2>1, <2>2 DEF Noticed
<1> QED
  BY <1>5, <1>6

\* The refresh of the directory shown, now or behind the listing under way, keeps what
\* is known of the directory watched.
LEMMA RefreshKeeps ==
  ASSUME FolderInv, NEW d \in Dirs, RefreshLocal(d),
         watch' \in FolderWatchRec, watch'.on = watch.on, watch'.dir = watch.dir,
         folders' \in [Dirs -> Nat], allowance' \in [steps : Nat, edits : Nat],
         \/ \A v \in Nat : watch.dir # Nil /\ Noticed(watch.dir, v) => Noticed(watch.dir, v)'
         \/ watch.dir = d /\ files.path = d
  PROVE  FolderInv'
<1>1. /\ files \in LocalRec /\ reads \in SUBSET ReadRec /\ watch \in FolderWatchRec /\ files.auto \in Dirs \cup {Nil}
      /\ files.ver \in Nat /\ files.path \in Dirs \cup {Nil}
  BY DEF FolderInv, FolderTypeOK, LocalRec
<1>2. Nil \notin Dirs /\ Dirs \subseteq Names
  BY DirFacts
<1>3. /\ files.loaded => files.path # Nil
      /\ watch.dir # Nil => watch.on /\ files.loaded
  BY DEF FolderInv, ReadsFit, WatchFits
<1>4. CASE files.path = d /\ ~files.loading
  <2>1. files' = BeginLocal(files, "Direct", d) /\ reads' = reads \cup {NewRead(files')}
    BY <1>4 DEF RefreshLocal
  <2>2. [files EXCEPT !.auto = files.auto] = files
    BY <1>1 DEF LocalRec
  <2>3. "Direct" \in Kinds /\ d \in Names /\ reads \in SUBSET reads
    BY <1>2 DEF Kinds
  <2>4. files'.loaded = files.loaded
    BY <1>1, <2>1 DEF BeginLocal, LocalRec
  <2>5. WatchFits'
    BY <2>4 DEF FolderInv, WatchFits
  <2>6. files' = BeginLocal([files EXCEPT !.auto = files.auto], "Direct", d)
    BY <2>1, <2>2
  <2> QED
    BY <1>1, <2>1, <2>3, <2>5, <2>6, BeginKeeps
<1>5. CASE ~(files.path = d /\ ~files.loading)
  <2>1. PICK a \in Dirs \cup {Nil} :
          /\ a = IF files.path = d THEN d ELSE files.auto
          /\ files' = [files EXCEPT !.auto = a] /\ reads' = reads
    <3>1. CASE files.path = d
      BY <3>1, <1>5 DEF RefreshLocal
    <3>2. CASE files.path # d
      <4>1. files = [files EXCEPT !.auto = files.auto]
        BY <1>1 DEF LocalRec
      <4> QED
        BY <3>2, <4>1, <1>1 DEF RefreshLocal
    <3> QED
      BY <3>1, <3>2
  <2>2. /\ files'.id = files.id /\ files'.loading = files.loading /\ files'.path = files.path
        /\ files'.loaded = files.loaded /\ files'.auto = a /\ files'.lapsed = files.lapsed /\ files'.ver = files.ver
    BY <1>1, <2>1 DEF LocalRec
  <2>3. ~files.loading => a = files.auto
    BY <1>5, <2>1
  <2>4. WatchFits'
    BY <2>2 DEF FolderInv, WatchFits
  <2>5. \A r \in reads : r.id = files.id /\ r.st = "ok" /\ Resolved[r.name] = watch.dir =>
            Noticed(watch.dir, r.ver)' \/ (a = watch.dir /\ files.path = watch.dir)
    <3> SUFFICES ASSUME NEW r \in reads, r.id = files.id, r.st = "ok", Resolved[r.name] = watch.dir
                 PROVE  Noticed(watch.dir, r.ver)' \/ (a = watch.dir /\ files.path = watch.dir)
      OBVIOUS
    <3>1. r.ver \in Nat /\ watch.dir # Nil
      BY <1>1, DirFacts DEF ReadRec
    <3>2. Noticed(watch.dir, r.ver) \/ (files.auto = watch.dir /\ files.path = watch.dir)
      BY DEF FolderInv, ReadsWatched
    <3>3. files.auto = watch.dir /\ files.path = watch.dir => a = watch.dir
      BY <2>1
    <3>4. watch.dir = d /\ files.path = d => a = watch.dir
      BY <2>1
    <3>5. PICK v \in Nat : v = r.ver
      BY <3>1
    <3> QED
      BY <3>1, <3>2, <3>3, <3>4, <3>5
  <2>6. files.loaded /\ ~files.loading /\ ~files.lapsed /\ watch.dir = files.path =>
            Noticed(files.path, files.ver)' \/ a = files.path
    <3> SUFFICES ASSUME files.loaded, ~files.loading, ~files.lapsed, watch.dir = files.path
                 PROVE  Noticed(watch.dir, files.ver)' \/ a = files.path
      BY <2>2
    <3>1. watch.dir # Nil /\ (Noticed(watch.dir, files.ver) \/ files.auto = files.path)
      BY <1>3 DEF FolderInv, ReadsWatched
    <3>2. PICK v \in Nat : v = files.ver /\ v = files'.ver
      BY <1>1, <2>2
    <3> QED
      BY <3>1, <3>2, <2>1, <2>3, <1>5
  <2>7. ReadsWatched'
    BY <2>1, <2>2, <2>5, <2>6 DEF ReadsWatched, Noticed
  <2> QED
    BY <2>1, <2>3, <2>4, <2>7, WatchKeeps
<1> QED
  BY <1>4, <1>5

\* The directory changes on the disk.
LEMMA ChangesKeep == ASSUME FolderInv, NEW d \in Dirs, FolderChanges(d) \/ DownloadLands(d) PROVE FolderInv'
<1>1. /\ folders' \in [Dirs -> Nat] /\ watch' \in FolderWatchRec /\ allowance' \in [steps : Nat, edits : Nat]
      /\ watch'.on = watch.on /\ watch'.dir = watch.dir
      /\ \A v \in Nat : watch.dir # Nil /\ Noticed(watch.dir, v) => Noticed(watch.dir, v)'
  BY ChangeFacts DEF FolderChanges, DownloadLands
<1>2. CASE DownloadLands(d)
  BY <1>1, <1>2, RefreshKeeps DEF DownloadLands
<1>3. CASE FolderChanges(d)
  <2>1. files' = files /\ reads' = reads
    BY <1>3 DEF FolderChanges
  <2>2. files \in LocalRec /\ reads \in SUBSET ReadRec /\ files.auto \in Dirs \cup {Nil} /\ files.ver \in Nat
    BY DEF FolderInv, FolderTypeOK, LocalRec
  <2>3. files' = [files EXCEPT !.auto = files.auto]
    BY <2>1, <2>2 DEF LocalRec
  <2>4. WatchFits'
    BY <1>1, <2>1 DEF FolderInv, WatchFits
  <2>5. ReadsWatched'
    <3>1. ASSUME NEW r \in reads, r.id = files.id, r.st = "ok", Resolved[r.name] = watch.dir
          PROVE  Noticed(watch.dir, r.ver)' \/ (files.auto = watch.dir /\ files.path = watch.dir)
      <4>1. watch.dir # Nil
        BY <3>1, <2>2, DirFacts DEF ReadRec
      <4>2. PICK v \in Nat : v = r.ver
        BY <2>2 DEF ReadRec
      <4>3. Noticed(watch.dir, v) \/ (files.auto = watch.dir /\ files.path = watch.dir)
        BY <3>1, <4>2 DEF FolderInv, ReadsWatched
      <4> QED
        BY <4>1, <4>2, <4>3, <1>1
    <3>2. ASSUME files.loaded, ~files.loading, ~files.lapsed, watch.dir = files.path
          PROVE  Noticed(watch.dir, files.ver)' \/ files.auto = files.path
      <4>1. watch.dir # Nil
        BY <3>2 DEF FolderInv, ReadsFit
      <4>2. Noticed(watch.dir, files.ver) \/ files.auto = files.path
        BY <3>2 DEF FolderInv, ReadsWatched
      <4>3. PICK v \in Nat : v = files.ver /\ v = files'.ver
        BY <2>1, <2>2
      <4> QED
        BY <4>1, <4>2, <4>3, <1>1
    <3> QED
      BY <3>1, <3>2, <2>1, <1>1 DEF ReadsWatched, Noticed
  <2> QED
    BY <1>1, <2>1, <2>2, <2>3, <2>4, <2>5, WatchKeeps
<1> QED
  BY <1>2, <1>3

\* The watcher ends with an error.
LEMMA WatchFailsKeeps == ASSUME FolderInv, WatchFails PROVE FolderInv'
<1>1. /\ files \in LocalRec /\ reads \in SUBSET ReadRec /\ UNCHANGED <<reads, folders, allowance>>
      /\ watch' = NoWatch /\ files' = [files EXCEPT !.running = FALSE]
  BY DEF FolderInv, FolderTypeOK, WatchFails
<1>2. /\ files' \in LocalRec /\ files'.id = files.id /\ files'.loading = files.loading /\ files'.nav = files.nav
      /\ files'.path = files.path /\ files'.back = files.back /\ files'.fwd = files.fwd
      /\ files'.loaded = files.loaded /\ files'.auto = files.auto
  BY <1>1 DEF LocalRec
<1>3. NoWatch \in FolderWatchRec /\ NoWatch.dir = Nil /\ ~NoWatch.on
  BY DEF NoWatch, FolderWatchRec
<1>4. FolderTypeOK' /\ HistoryFits' /\ WatchFits' /\ ReadsFit'
  BY <1>1, <1>2, <1>3 DEF FolderInv, FolderTypeOK, HistoryFits, NavigationFits, WatchFits, ReadsFit
<1>5. \A r \in reads : Resolved[r.name] # Nil
  BY <1>1, DirFacts DEF ReadRec
<1>6. ReadsWatched'
  BY <1>1, <1>2, <1>3, <1>5 DEF FolderInv, ReadsFit, ReadsWatched
<1> QED
  BY <1>4, <1>6 DEF FolderInv

\* The watcher follows the directory shown (spawn_directory_watch).
LEMMA WatchTickKeeps == ASSUME FolderInv, WatchTick PROVE FolderInv'
<1>1. /\ files \in LocalRec /\ watch \in FolderWatchRec /\ folders \in [Dirs -> Nat] /\ reads' = reads /\ files' = files
      /\ folders' = folders /\ allowance' = allowance /\ files.path \in Dirs \cup {Nil}
      /\ files.auto \in Dirs \cup {Nil} /\ allowance \in [steps : Nat, edits : Nat]
  BY DEF FolderInv, FolderTypeOK, WatchTick, LocalRec
<1>2. PICK ok \in BOOLEAN :
        watch' = [(IF watch.dir = files.path THEN watch ELSE Switch(files.path, ok))
                     EXCEPT !.debounce = (IF watch.dir = files.path THEN watch ELSE Switch(files.path, ok)).slot,
                            !.slot = FALSE]
  BY DEF WatchTick
<1>3. files.path \in Dirs /\ files.path # Nil /\ watch.on
  BY <1>1 DEF FolderInv, WatchFits, ReadsFit, WatchTick
<1>4. /\ watch' \in FolderWatchRec /\ watch'.on = watch.on
      /\ \/ watch'.dir = watch.dir /\ watch'.base = watch.base /\ (watch.slot => watch'.debounce)
         \/ watch'.dir = Nil
         \/ watch'.dir = files.path /\ watch'.base = folders[files.path]
  <2>1. CASE watch.dir = files.path
    <3>1. watch' = [watch EXCEPT !.debounce = watch.slot, !.slot = FALSE]
      BY <2>1, <1>2
    <3> QED
      BY <3>1, <1>1 DEF FolderWatchRec
  <2>2. CASE watch.dir # files.path
    <3>1. PICK w : w = Switch(files.path, ok)
      OBVIOUS
    <3>2. folders[files.path] \in Nat
      BY <1>1, <1>3
    <3>3. /\ w \in FolderWatchRec /\ w.on = watch.on
          /\ w.dir = Nil \/ (w.dir = files.path /\ w.base = folders[files.path])
      <4>1. CASE ok
        <5>1. w = [watch EXCEPT !.dir = files.path, !.base = folders[files.path],
                                !.slot = watch.slot /\ watch.tried = files.path, !.tried = files.path]
          BY <4>1, <3>1, <1>1 DEF Switch, FolderWatchRec
        <5> QED
          BY <5>1, <1>1, <1>3, <3>2 DEF FolderWatchRec
      <4>2. CASE ~ok
        <5>1. w = [watch EXCEPT !.dir = Nil, !.base = 0,
                                !.slot = watch.slot /\ watch.tried = files.path, !.tried = files.path]
          BY <4>2, <3>1, <1>1 DEF Switch, FolderWatchRec
        <5> QED
          BY <5>1, <1>1, <1>3, <3>2 DEF FolderWatchRec
      <4> QED
        BY <4>1, <4>2
    <3>4. watch' = [w EXCEPT !.debounce = w.slot, !.slot = FALSE]
      BY <2>2, <3>1, <1>2
    <3> QED
      BY <3>3, <3>4 DEF FolderWatchRec
  <2> QED
    BY <2>1, <2>2
<1>5. ~watch.debounce
  BY DEF WatchTick
<1>6. PICK e \in Dirs \cup {Nil} : e = watch'.dir
  BY <1>4 DEF FolderWatchRec
<1>7. e # Nil => \/ \A v : Noticed(e, v)'
                \/ (e = watch.dir /\ \A v : Noticed(e, v) => Noticed(e, v)')
  <2>1. CASE watch'.dir = watch.dir /\ watch'.base = watch.base /\ (watch.slot => watch'.debounce)
    BY <2>1, <1>1, <1>5, <1>6 DEF Noticed
  <2>2. CASE watch'.dir = files.path /\ watch'.base = folders[files.path]
    <3>1. folders'[e] \in Nat /\ watch'.base = folders'[e]
      BY <2>2, <1>1, <1>3, <1>6
    <3> QED
      BY <3>1 DEF Noticed
  <2> QED
    BY <2>1, <2>2, <1>4, <1>6
<1>10. ReadsWatched'
  <2>1. \A r \in reads : Resolved[r.name] # Nil
    BY DirFacts DEF FolderInv, FolderTypeOK, ReadRec
  <2>2. \A r \in reads : r.id = files.id /\ r.st = "ok" /\ Resolved[r.name] = e =>
            Noticed(e, r.ver)' \/ (files.auto = e /\ files.path = e)
    BY <1>7, <2>1 DEF FolderInv, ReadsWatched
  <2>3. files.loaded /\ ~files.loading /\ ~files.lapsed /\ e = files.path =>
            Noticed(e, files.ver)' \/ files.auto = e
    BY <1>1, <1>3, <1>7 DEF FolderInv, ReadsWatched
  <2> QED
    BY <1>1, <1>6, <2>2, <2>3 DEF ReadsWatched, Noticed
<1>8. WatchFits'
  BY <1>1, <1>3, <1>4 DEF FolderInv, WatchFits
<1>9. files' = [files EXCEPT !.auto = files.auto]
  BY <1>1 DEF LocalRec
<1> QED
  BY <1>1, <1>4, <1>8, <1>9, <1>10, WatchKeeps

\* The change that was debounced refreshes the pane.
LEMMA WatchRefreshesKeeps == ASSUME FolderInv, WatchRefreshes PROVE FolderInv'
<1>1. /\ files \in LocalRec /\ watch \in FolderWatchRec /\ folders \in [Dirs -> Nat] /\ reads \in SUBSET ReadRec
      /\ folders' = folders /\ allowance' = allowance /\ allowance \in [steps : Nat, edits : Nat]
      /\ watch.dir \in Dirs \cup {Nil} /\ files.auto \in Dirs \cup {Nil}
  BY DEF FolderInv, FolderTypeOK, WatchRefreshes, FolderWatchRec, LocalRec
<1>2. PICK b \in Nat : b = IF watch.dir \in {Nil, files.path} THEN watch.base ELSE folders[watch.dir]
  BY <1>1 DEF FolderWatchRec
<1>3. watch' = [watch EXCEPT !.debounce = FALSE, !.slot = FALSE, !.base = b]
  BY <1>1, <1>2 DEF WatchRefreshes, FolderWatchRec
<1>4. /\ watch' \in FolderWatchRec /\ watch'.on = watch.on /\ watch'.dir = watch.dir /\ watch'.base = b
  BY <1>1, <1>3 DEF FolderWatchRec
<1>5. CASE watch.dir = Nil
  <2>1. files' = files /\ reads' = reads /\ files' = [files EXCEPT !.auto = files.auto]
    BY <1>1, <1>5 DEF WatchRefreshes, LocalRec
  <2>2. WatchFits'
    BY <2>1, <1>4 DEF FolderInv, WatchFits
  <2>3. \A r \in reads : Resolved[r.name] # Nil
    BY <1>1, DirFacts DEF ReadRec
  <2>4. ReadsWatched'
    BY <1>4, <1>5, <2>1, <2>3 DEF FolderInv, ReadsFit, ReadsWatched
  <2> QED
    BY <1>1, <1>4, <2>1, <2>2, <2>4, WatchKeeps
<1>6. CASE watch.dir # Nil
  <2>1. watch.dir \in Dirs /\ RefreshLocal(watch.dir)
    BY <1>1, <1>6 DEF WatchRefreshes
  <2>2. CASE watch.dir = files.path
    BY <1>1, <1>4, <2>1, <2>2, RefreshKeeps
  <2>3. CASE watch.dir # files.path
    <3>1. \A v \in Nat : Noticed(watch.dir, v)'
      <4>1. folders[watch.dir] \in Nat /\ b = folders[watch.dir]
        BY <2>1, <2>3, <1>1, <1>2, <1>6
      <4> QED
        BY <4>1, <1>1, <1>4 DEF Noticed
    <3> QED
      BY <1>1, <1>4, <2>1, <3>1, RefreshKeeps
  <2> QED
    BY <2>2, <2>3
<1> QED
  BY <1>5, <1>6

\* The empty pane.
LEMMA FolderInitOK == FolderInit => FolderInv
<1> SUFFICES ASSUME FolderInit PROVE FolderInv
  OBVIOUS
<1>1. <<>> \in Seq(Dirs) /\ Len(<<>>) = 0 /\ Steps(<<>>) /\ HistoryLimit \in Nat
  BY HistoryAssumption DEF Steps
<1>2. files = [loaded |-> FALSE, loading |-> FALSE, path |-> Nil, id |-> 0, nav |-> Nil, auto |-> Nil,
               ver |-> 0, back |-> <<>>, fwd |-> <<>>, running |-> FALSE, lapsed |-> FALSE]
  BY DEF FolderInit
<1>3. files \in LocalRec
  BY <1>1, <1>2 DEF LocalRec
<1>4. NoWatch \in FolderWatchRec /\ NoWatch.dir = Nil /\ ~NoWatch.on
  BY DEF NoWatch, FolderWatchRec
<1>5. FolderTypeOK
  BY <1>3, <1>4, LocalAssumption DEF FolderInit, FolderTypeOK
<1>6. HistoryFits
  BY <1>1, <1>2 DEF HistoryFits, Line, NavigationFits
<1>7. ReadsFit /\ WatchFits /\ ReadsWatched
  BY <1>2, <1>4 DEF FolderInit, ReadsFit, WatchFits, ReadsWatched
<1> QED
  BY <1>5, <1>6, <1>7 DEF FolderInv

\* Every step of the local pane.
LEMMA FolderStepOK == FolderInv /\ [FolderNext]_folderVars => FolderInv'
<1> SUFFICES ASSUME FolderInv, [FolderNext]_folderVars PROVE FolderInv'
  OBVIOUS
<1>1. CASE UNCHANGED folderVars
  BY <1>1
  DEF folderVars, FolderInv, FolderTypeOK, HistoryFits, NavigationFits, ReadsFit, WatchFits, ReadsWatched, Noticed
<1>2. CASE \E r \in reads : ReadEnds(r) \/ ApplyRead(r) \/ AfterRead(r)
  BY <1>2, ReadEndsKeeps, ApplyReadKeeps, AfterReadKeeps
<1>3. CASE WatchTick \/ WatchRefreshes \/ WatchFails
  BY <1>3, WatchTickKeeps, WatchRefreshesKeeps, WatchFailsKeeps
<1>4. CASE ResetLocal
  BY <1>4, ResetLocalKeeps
<1>5. CASE \E kind \in Kinds \ {"Direct"} : LocalNavigate(kind, Nil)
  BY <1>5, LocalNavigateKeeps
<1>6. CASE \E name \in Names : LocalNavigate("Direct", name)
  BY <1>6, LocalNavigateKeeps DEF Kinds
<1>7. CASE \E d \in Dirs : FolderChanges(d) \/ DownloadLands(d)
  BY <1>7, ChangesKeep
<1> QED
  BY <1>1, <1>2, <1>3, <1>4, <1>5, <1>6, <1>7 DEF FolderNext, FolderSystem

\* Once nothing is under way, the local pane shows every change of the directory it
\* watches, however the change fell between listing, debounce and navigation.
THEOREM FolderChangesShown == FolderSpec => []WatchedChangeShown
<1>1. FolderInv => WatchedChangeShown
  <2> SUFFICES ASSUME FolderInv, files.loaded, ~files.loading, ~files.lapsed, watch.dir = files.path,
                      ~watch.slot, ~watch.debounce, \A r \in reads : r.st # "after",
                      folders[files.path] > watch.base
               PROVE  files.ver = folders[files.path]
    BY DEF WatchedChangeShown
  <2>1. files.auto = Nil /\ files.path # Nil
    BY DEF FolderInv, ReadsFit
  <2>2. Noticed(files.path, files.ver)
    BY <2>1 DEF FolderInv, ReadsWatched
  <2>3. files.path \in Dirs /\ watch.base \in Nat /\ folders[files.path] \in Nat
    BY <2>1 DEF FolderInv, FolderTypeOK, LocalRec, FolderWatchRec
  <2> QED
    BY <2>2, <2>3 DEF Noticed
<1> QED
  BY <1>1, FolderInitOK, FolderStepOK, PTL DEF FolderSpec

\* A step that ends a navigation by another directory is the arrival of its listing.
LEMMA RetracedIsArrival ==
  ASSUME FolderInv, [FolderNext]_folderVars, files.nav # Nil, files'.nav = Nil, files'.path # files.path
  PROVE  \E r \in reads : ApplyRead(r) /\ CurrentRead(r) /\ r.st = "ok"
<1>1. files \in LocalRec
  BY DEF FolderInv, FolderTypeOK
<1>2. ASSUME NEW g, g.path = files.path, g \in LocalRec, NEW kind, NEW to PROVE BeginLocal(g, kind, to).path = files.path
  BY <1>2 DEF BeginLocal, LocalRec
<1>3. ASSUME NEW a \in Dirs \cup {Nil}
      PROVE  [files EXCEPT !.auto = a] \in LocalRec /\ [files EXCEPT !.auto = a].path = files.path
  BY <1>1 DEF LocalRec
<1>4. files.auto \in Dirs \cup {Nil} /\ files.path \in Dirs \cup {Nil}
  BY <1>1 DEF LocalRec
<1>5. ASSUME NEW d \in Dirs, RefreshLocal(d) PROVE files'.path = files.path
  <2>1. CASE files.path # d
    BY <1>5, <2>1 DEF RefreshLocal
  <2>2. CASE files.path = d /\ files.loading
    BY <1>3, <1>5, <2>2 DEF RefreshLocal
  <2>3. CASE files.path = d /\ ~files.loading
    <3>1. files' = BeginLocal(files, "Direct", d)
      BY <1>5, <2>3 DEF RefreshLocal
    <3> QED
      BY <3>1, <1>1 DEF BeginLocal, LocalRec
  <2> QED
    BY <2>1, <2>2, <2>3
<1>6. ASSUME NEW r \in reads, AfterRead(r) PROVE files'.path = files.path
  <2>1. PICK a \in Dirs \cup {Nil} : a = IF files.loading THEN files.auto ELSE Nil
    BY <1>4
  <2>2. PICK g \in LocalRec : g = [files EXCEPT !.auto = a] /\ g.path = files.path
    BY <1>3
  <2>3. files' = g \/ files' = BeginLocal(g, "Direct", files.path)
    BY <1>6, <2>1, <2>2 DEF AfterRead
  <2>4. BeginLocal(g, "Direct", files.path).path = g.path
    BY <2>2 DEF BeginLocal, LocalRec
  <2> QED
    BY <2>2, <2>3, <2>4
<1>7. ASSUME NEW r \in reads, ApplyRead(r), ~(CurrentRead(r) /\ r.st = "ok") PROVE files'.path = files.path
  BY <1>7, <1>1 DEF ApplyRead, FailLocal, LocalRec
<1>8. ASSUME NEW kind, NEW name, LocalNavigate(kind, name) PROVE files'.path = files.path
  BY <1>8, <1>1, <1>2 DEF LocalNavigate
<1>9. ASSUME ResetLocal \/ WatchFails PROVE files'.path = files.path
  BY <1>9, <1>1 DEF ResetLocal, WatchFails, LocalRec
<1>10. ASSUME WatchRefreshes PROVE files'.path = files.path
  <2>1. watch.dir \in Dirs \cup {Nil}
    BY DEF FolderInv, FolderTypeOK, FolderWatchRec
  <2> QED
    BY <1>5, <1>10, <2>1 DEF WatchRefreshes
<1>11. ASSUME NEW d \in Dirs, FolderChanges(d) \/ DownloadLands(d) PROVE files'.path = files.path
  BY <1>5, <1>11 DEF FolderChanges, DownloadLands
<1>12. ASSUME WatchTick \/ UNCHANGED folderVars \/ (\E r \in reads : ReadEnds(r)) PROVE files'.path = files.path
  BY <1>12 DEF WatchTick, folderVars, ReadEnds
<1> QED
  BY <1>6, <1>7, <1>8, <1>9, <1>10, <1>11, <1>12 DEF FolderNext, FolderSystem

\* Going back and forward in the local pane loses no visited directory, whatever listings
\* fail, are given up or come late in between.
THEOREM FolderLineKept == FolderSpec => LocalTimelineKept
<1>1. ASSUME FolderInv, [FolderNext]_folderVars, Retraced(files, files') PROVE Timeline(files') = Timeline(files)
  <2>1. files.nav # Nil /\ files.nav.kind \in {"Back", "Forward"} /\ files'.nav = Nil /\ files'.path # files.path
    BY <1>1 DEF Retraced
  <2>2. PICK r \in reads : ApplyRead(r) /\ CurrentRead(r) /\ r.st = "ok"
    BY <1>1, <2>1, RetracedIsArrival
  <2>3. files \in LocalRec /\ r \in ReadRec /\ Line(files.back, files.fwd, files.path) /\ NavigationFits(files)
    BY <1>1 DEF FolderInv, FolderTypeOK, HistoryFits
  <2>4. r.name = files.nav.to
    BY <1>1, <2>2 DEF FolderInv, ReadsFit, CurrentRead
  <2>5. PICK d \in Dirs : d = Resolved[r.name]
    BY <2>3, DirFacts DEF ReadRec
  <2>6. PICK b \in Seq(Dirs), f \in Seq(Dirs) :
            /\ CompleteHistory(files, d) = [files EXCEPT !.back = b, !.fwd = f]
            /\ d # files.path => Visits(b, d, f) = Timeline(files)
    <3>1. d = Resolved[files.nav.to]
      BY <2>4, <2>5
    <3>2. PICK b \in Seq(Dirs), f \in Seq(Dirs) :
              /\ CompleteHistory(files, d) = [files EXCEPT !.back = b, !.fwd = f]
              /\ Line(b, f, d)
              /\ files.nav.kind \in {"Back", "Forward"} /\ d # files.path => Visits(b, d, f) = Timeline(files)
      BY <2>1, <2>3, <3>1, CompleteFits, ZenonT(40)
    <3> QED
      BY <3>2, <2>1
  <2>7. files' = [[[files EXCEPT !.back = b, !.fwd = f] EXCEPT !.nav = Nil, !.loading = FALSE, !.loaded = TRUE,
                          !.path = d, !.ver = r.ver, !.lapsed = FALSE] EXCEPT !.running = TRUE]
    BY <2>2, <2>5, <2>6 DEF ApplyRead, Complete
  <2>8. files'.back = b /\ files'.fwd = f /\ files'.path = d
    BY <2>3, <2>7 DEF LocalRec
  <2> QED
    BY <2>1, <2>6, <2>8 DEF Timeline, Visits
<1>2. FolderInv /\ [FolderNext]_folderVars => [Retraced(files, files') => Timeline(files') = Timeline(files)]_folderVars
  BY <1>1
<1> QED
  BY <1>2, FolderInitOK, FolderStepOK, PTL DEF FolderSpec, LocalTimelineKept

PaneSpec == PaneInit /\ [][PaneNext]_paneVars

Commands ==
  [kind : {"List"}, id : Nat, path : Names, n : Nat] \cup [kind : {"LoadMore"}, id : Nat, path : {Nil}, n : Nat]
Pages ==
  [kind : {"Page"}, id : Nat, path : Dirs, ver : Nat, append : BOOLEAN, more : BOOLEAN]
    \cup [kind : {"Page"}, id : {Nil}, path : Dirs, ver : Nat, append : {FALSE}, more : BOOLEAN]
Failures == [kind : {"Failed"}, id : Nat \cup {Nil}]
Handshakes == [kind : {"Opened"}, n : Nat]
Changes == [kind : {"Changed"}, path : Dirs, ver : Nat]
Events == Pages \cup Failures \cup Handshakes \cup {Closed} \cup Changes
BrowserRec ==
  [st : {"init", "first", "ready", "dead"}, cursor : Dirs, done : BOOLEAN, queue : Seq(Commands), n : Nat]
SessionRec ==
  [up : BOOLEAN, reopening : BOOLEAN, attempts : Nat, ready : BOOLEAN, path : Dirs]

\* The events on their way to the pane, in their order.
Stream == feed \o pipe

-----------------------------------------------------------------------------
IsFirst(e) == e.kind = "Page" /\ e.id = Nil
IsEnd(e) == (e.kind = "Failed" /\ e.id = Nil) \/ e.kind = "Closed"
OpenedIn(s, j, k) == \E m \in j + 1 .. k - 1 : s[m].kind = "Opened"
AnswersTo(e, id) == e.kind \in {"Page", "Failed"} /\ e.id = id

\* At place k comes a page of the browser that opened last before it, which has not ended.
Fresh(s, k) == \A j \in 1 .. k - 1 : IsEnd(s[j]) => OpenedIn(s, j, k)
FreshFirst(s, k) == \A j \in 1 .. k - 1 : IsFirst(s[j]) => OpenedIn(s, j, k)
InTurn(b, s) ==
  /\ \A k \in 1 .. Len(s) : /\ s[k].kind = "Page" => Fresh(s, k)
                            /\ IsFirst(s[k]) => FreshFirst(s, k)
  /\ b.st \in {"first", "ready"} => Fresh(s, Len(s) + 1)
  /\ b.st = "first" => FreshFirst(s, Len(s) + 1)

\* Browsers are numbered, and open in this order.
Numbered(p, b, s) ==
  /\ p.opens <= b.n
  /\ \A k \in 1 .. Len(s) : s[k].kind = "Opened" =>
        /\ p.opens < s[k].n /\ s[k].n <= b.n
        /\ b.st = "init" => s[k].n < b.n
        /\ \A j \in 1 .. k - 1 : s[j].kind = "Opened" => s[j].n < s[k].n
  /\ b.st = "init" => p.opens < b.n
  /\ b.st \in {"first", "ready"} => p.opens = b.n \/ \E k \in 1 .. Len(s) : s[k].kind = "Opened" /\ s[k].n = b.n

\* Requests are numbered; the last one is the last of the commands, or has one answer.
Asked(p, i, b, s) ==
  /\ \A k \in 1 .. Len(i) : /\ i[k].id <= p.id /\ i[k].n <= p.opens
                            /\ i[k].id = p.id => i[k].n = p.opens /\ k = Len(i)
  /\ \A k \in 1 .. Len(b.queue) : /\ b.queue[k].id <= p.id /\ b.queue[k].n <= p.opens
                                  /\ b.queue[k].id = p.id => b.queue[k].n = p.opens /\ k = Len(b.queue) /\ i = <<>>
  /\ \A k \in 1 .. Len(s) : s[k].kind \in {"Page", "Failed"} /\ s[k].id # Nil =>
        /\ s[k].id <= p.id
        /\ s[k].id = p.id => /\ i = <<>> /\ b.queue = <<>>
                             /\ \A j \in 1 .. Len(s) : AnswersTo(s[j], p.id) => j = k
  /\ b.st = "dead" => b.queue = <<>>

\* The pane has seen the handshake and waits for the first page.
Opening(p) == p.loading /\ p.path = Nil /\ p.nav = Nil
FirstPages(p, i, b, s) ==
  /\ Opening(p) => /\ \A k \in 1 .. Len(i) : i[k].id # p.id
                   /\ \A k \in 1 .. Len(b.queue) : b.queue[k].id # p.id
                   /\ \A k \in 1 .. Len(s) : ~AnswersTo(s[k], p.id)
  /\ \A k \in 1 .. Len(s) : IsFirst(s[k]) => Opening(p) \/ OpenedIn(s, 0, k)
  /\ b.st = "first" => Opening(p) \/ OpenedIn(s, 0, Len(s) + 1)
  /\ p.more => p.path # Nil /\ (p.loading \/ p.nav = Nil)

\* A command the browser can answer is the one the pane waits for.
Meant(p, c) ==
  /\ c.id = p.id /\ p.loading
  /\ c.kind = "List" => p.nav # Nil /\ p.nav.to = c.path
  /\ c.kind = "LoadMore" => p.nav = Nil
Expected(p, i, b) ==
  b.st # "dead" => /\ \A k \in 1 .. Len(i) : i[k].n = b.n => Meant(p, i[k])
                   /\ \A k \in 1 .. Len(b.queue) : b.queue[k].n = b.n => Meant(p, b.queue[k])
\* So is an answer that no handshake makes obsolete.
AnswerAt(p, s, k) == s[k].kind = "Page" /\ s[k].id = p.id /\ ~OpenedIn(s, 0, k)
Answered(p, s) ==
  \A k \in 1 .. Len(s) : AnswerAt(p, s, k) =>
    /\ p.loading
    /\ s[k].append => p.nav = Nil
    /\ ~s[k].append => p.nav # Nil /\ s[k].path = Resolved[p.nav.to]

\* Nothing moved the browser but what this pane asked of it.
Travelled(p, b) == p.opens = b.n /\ (p.back # <<>> \/ p.fwd # <<>>)
Clean(p, b, s, x) ==
  \/ ~x
  \/ \E k \in 1 .. Len(s) : AnswerAt(p, s, k) /\ ~s[k].append
  \/ Travelled(p, b)
Pending(p, e) == e.kind = "Page" /\ e.id \in {p.id, Nil} /\ ~e.append
InStep(p, i, b, s, x) ==
  /\ Travelled(p, b) => /\ \A k \in 1 .. Len(i) : i[k].n = b.n
                        /\ \A k \in 1 .. Len(b.queue) : b.queue[k].n = b.n
  /\ Clean(p, b, s, x) =>
       /\ \A k \in 1 .. Len(b.queue) : b.queue[k].kind = "List" => b.queue[k].n = b.n
       /\ b.st = "ready" /\ p.opens = b.n =>
            /\ \A k \in 1 .. Len(s) : Pending(p, s[k]) => s[k].path = b.cursor
            /\ (\A k \in 1 .. Len(s) : ~Pending(p, s[k])) => b.cursor = p.path
       /\ b.st = "ready" /\ p.opens # b.n =>
            \E k \in 1 .. Len(s) : /\ IsFirst(s[k]) /\ s[k].path = b.cursor
                                   /\ \E j \in 1 .. k - 1 : s[j].kind = "Opened" /\ s[j].n = b.n
  /\ \A k \in 1 .. Len(s) : AnswerAt(p, s, k) /\ s[k].append =>
        s[k].path = p.path \/ (x /\ p.back = <<>> /\ p.fwd = <<>>)
  /\ ~x => p.shown \in {{}, {p.path}}

Lined(p) == Line(p.back, p.fwd, p.path) /\ NavigationFits(p)

\* What the tab noticed of the directory shown is in the rows or will be.
Owes(p, s, fs) ==
  /\ ~p.open \/ p.path = Nil => p.owed = 0
  /\ p.path # Nil => p.owed <= fs[p.path]
  /\ \A k \in 1 .. Len(s) :
        /\ AnswerAt(p, s, k) /\ ~s[k].append /\ s[k].path = p.path => s[k].ver >= p.owed \/ p.auto = p.path
        /\ s[k].kind \in {"Page", "Changed"} => s[k].ver <= fs[s[k].path]
Settled(p) == (~p.loading \/ p.nav = Nil) => (p.owed <= p.ver \/ p.auto = p.path)
Paid(p) == (~p.loading \/ p.nav = Nil) => (p.owed <= p.ver \/ (p.loading /\ p.auto = p.path))

Good(p, i, b, s, x, fs) ==
  /\ InTurn(b, s) /\ Numbered(p, b, s) /\ Asked(p, i, b, s) /\ FirstPages(p, i, b, s)
  /\ Expected(p, i, b) /\ Answered(p, s) /\ InStep(p, i, b, s, x) /\ Lined(p) /\ Owes(p, s, fs)
Down == ~session.up => inbox = <<>> /\ feed = <<>> /\ pipe = <<>> /\ pane.opens = 0 /\ browser.st = "dead" /\ ~crossed
PaneTypeOK ==
  /\ pane \in PaneRec /\ inbox \in Seq(Commands) /\ browser \in BrowserRec /\ pipe \in Seq(Events)
  /\ session \in SessionRec /\ feed \in Seq(Events) /\ remoteFs \in [Dirs -> Nat]
  /\ writing \in Dirs \cup {Nil} /\ crossed \in BOOLEAN
PaneInv == PaneTypeOK /\ Down /\ Good(pane, inbox, browser, Stream, crossed, remoteFs) /\ Paid(pane)

-----------------------------------------------------------------------------
(* The stream of events grows at its end, takes in an event of the loop's own, and
   shrinks at its head. *)

Longer(s, t, e) ==
  /\ Len(s) \in Nat /\ Len(t) = Len(s) + 1 /\ t[Len(s) + 1] = e
  /\ \A k \in 1 .. Len(s) : t[k] = s[k]
Shorter(s, t) ==
  /\ Len(s) \in Nat /\ Len(s) > 0 /\ Len(t) = Len(s) - 1
  /\ \A k \in 1 .. Len(t) : t[k] = s[k + 1]
Inserted(s, t, n, e) ==
  /\ Len(s) \in Nat /\ n \in 0 .. Len(s) /\ Len(t) = Len(s) + 1 /\ t[n + 1] = e
  /\ \A k \in 1 .. n : t[k] = s[k]
  /\ \A k \in n + 1 .. Len(s) : t[k + 1] = s[k]

\* What an event holds.
LEMMA EventFacts ==
  ASSUME NEW e \in Events
  PROVE  /\ e.kind \in {"Page", "Failed", "Opened", "Closed", "Changed"}
         /\ e.kind = "Page" => /\ e.id \in Nat \cup {Nil} /\ e.path \in Dirs /\ e.ver \in Nat
                               /\ e.append \in BOOLEAN /\ e.more \in BOOLEAN
                               /\ e.id = Nil => ~e.append
         /\ e.kind = "Failed" => e.id \in Nat \cup {Nil}
         /\ e.kind = "Opened" => e.n \in Nat
         /\ e.kind = "Changed" => e.path \in Dirs /\ e.ver \in Nat
         /\ e.kind = "Closed" => e = Closed
<1>1. CASE e \in Pages
  BY <1>1, BrowserAssumption DEF Pages
<1>2. CASE e \in Failures
  BY <1>2 DEF Failures
<1>3. CASE e \in Handshakes
  BY <1>3 DEF Handshakes
<1>4. CASE e = Closed
  BY <1>4 DEF Closed
<1>5. CASE e \in Changes
  BY <1>5 DEF Changes
<1> QED
  BY <1>1, <1>2, <1>3, <1>4, <1>5 DEF Events

\* Handshakes before a place are the same in a longer stream.
LEMMA OpenedLonger ==
  ASSUME NEW s, NEW t, NEW e, Longer(s, t, e)
  PROVE  /\ \A j \in Nat, k \in 1 .. Len(s) + 1 : OpenedIn(t, j, k) <=> OpenedIn(s, j, k)
         /\ \A j \in Nat : j <= Len(s) /\ OpenedIn(s, j, Len(s) + 1) => OpenedIn(t, j, Len(t) + 1)
         /\ \A j \in Nat : j <= Len(s) /\ e.kind = "Opened" => OpenedIn(t, j, Len(t) + 1)
         /\ \A k \in 1 .. Len(s) + 1 : /\ Fresh(t, k) <=> Fresh(s, k)
                                       /\ FreshFirst(t, k) <=> FreshFirst(s, k)
<1>1. \A j \in Nat, k \in 1 .. Len(s) + 1 : OpenedIn(t, j, k) <=> OpenedIn(s, j, k)
  BY DEF OpenedIn, Longer
<1>2. \A j \in Nat : j <= Len(s) /\ OpenedIn(s, j, Len(s) + 1) => OpenedIn(t, j, Len(t) + 1)
  BY DEF OpenedIn, Longer
<1>3. \A j \in Nat : j <= Len(s) /\ e.kind = "Opened" => OpenedIn(t, j, Len(t) + 1)
  BY DEF OpenedIn, Longer
<1>4. \A k \in 1 .. Len(s) + 1 : /\ Fresh(t, k) <=> Fresh(s, k)
                                 /\ FreshFirst(t, k) <=> FreshFirst(s, k)
  <2> SUFFICES ASSUME NEW k \in 1 .. Len(s) + 1
               PROVE  (Fresh(t, k) <=> Fresh(s, k)) /\ (FreshFirst(t, k) <=> FreshFirst(s, k))
    OBVIOUS
  <2>1. k \in Nat /\ \A j \in 1 .. k - 1 : t[j] = s[j] /\ (OpenedIn(t, j, k) <=> OpenedIn(s, j, k))
    BY <1>1 DEF Longer
  <2> QED
    BY <2>1 DEF Fresh, FreshFirst
<1> QED
  BY <1>1, <1>2, <1>3, <1>4

\* And one place earlier in a shorter one.
LEMMA OpenedShorter ==
  ASSUME NEW s, NEW t, Shorter(s, t)
  PROVE  /\ \A j \in Nat, k \in 1 .. Len(t) + 1 : OpenedIn(t, j, k) <=> OpenedIn(s, j + 1, k + 1)
         /\ \A k \in 1 .. Len(t) + 1 : OpenedIn(s, 0, k + 1) <=> s[1].kind = "Opened" \/ OpenedIn(t, 0, k)
         /\ \A k \in 1 .. Len(t) + 1 : /\ Fresh(s, k + 1) => Fresh(t, k)
                                       /\ FreshFirst(s, k + 1) => FreshFirst(t, k)
<1>1. \A j \in Nat, k \in 1 .. Len(t) + 1 : OpenedIn(t, j, k) <=> OpenedIn(s, j + 1, k + 1)
  <2> SUFFICES ASSUME NEW j \in Nat, NEW k \in 1 .. Len(t) + 1
               PROVE  OpenedIn(t, j, k) <=> OpenedIn(s, j + 1, k + 1)
    OBVIOUS
  <2>1. ASSUME NEW m \in j + 1 .. k - 1, t[m].kind = "Opened" PROVE m + 1 \in (j + 1) + 1 .. (k + 1) - 1 /\ s[m + 1].kind = "Opened"
    BY <2>1 DEF Shorter
  <2>2. ASSUME NEW m \in (j + 1) + 1 .. (k + 1) - 1, s[m].kind = "Opened" PROVE m - 1 \in j + 1 .. k - 1 /\ t[m - 1].kind = "Opened"
    BY <2>2 DEF Shorter
  <2> QED
    BY <2>1, <2>2 DEF OpenedIn
<1>2. \A k \in 1 .. Len(t) + 1 : OpenedIn(s, 0, k + 1) <=> s[1].kind = "Opened" \/ OpenedIn(t, 0, k)
  <2> SUFFICES ASSUME NEW k \in 1 .. Len(t) + 1
               PROVE  OpenedIn(s, 0, k + 1) <=> s[1].kind = "Opened" \/ OpenedIn(t, 0, k)
    OBVIOUS
  <2>1. OpenedIn(t, 0, k) <=> OpenedIn(s, 1, k + 1)
    BY <1>1
  <2>2. OpenedIn(s, 0, k + 1) <=> s[1].kind = "Opened" \/ OpenedIn(s, 1, k + 1)
    BY DEF OpenedIn, Shorter
  <2> QED
    BY <2>1, <2>2
<1>3. \A k \in 1 .. Len(t) + 1 : (Fresh(s, k + 1) => Fresh(t, k)) /\ (FreshFirst(s, k + 1) => FreshFirst(t, k))
  <2> SUFFICES ASSUME NEW k \in 1 .. Len(t) + 1
               PROVE  (Fresh(s, k + 1) => Fresh(t, k)) /\ (FreshFirst(s, k + 1) => FreshFirst(t, k))
    OBVIOUS
  <2>1. \A j \in 1 .. k - 1 : /\ j + 1 \in 1 .. k + 1 - 1 /\ t[j] = s[j + 1]
                              /\ OpenedIn(t, j, k) <=> OpenedIn(s, j + 1, k + 1)
    <3> TAKE j \in 1 .. k - 1
    <3>1. j \in Nat /\ j + 1 \in 1 .. k + 1 - 1 /\ j \in 1 .. Len(t)
      BY DEF Shorter
    <3> QED
      BY <3>1, <1>1 DEF Shorter
  <2> QED
    BY <2>1 DEF Fresh, FreshFirst
<1> QED
  BY <1>1, <1>2, <1>3

\* An event of the loop's own is no handshake, no page and no end.
LEMMA OpenedInserted ==
  ASSUME NEW s, NEW t, NEW n, NEW e, Inserted(s, t, n, e), e.kind # "Opened", e.kind # "Page", ~IsEnd(e)
  PROVE  \E f \in [1 .. Len(s) + 1 -> 1 .. Len(t) + 1] :
            /\ f[Len(s) + 1] = Len(t) + 1
            /\ \A k \in 1 .. Len(s) : f[k] \in 1 .. Len(t) /\ t[f[k]] = s[k]
            /\ \A k \in 1 .. Len(t) : k = n + 1 \/ \E l \in 1 .. Len(s) : f[l] = k
            /\ \A j, k \in 1 .. Len(s) + 1 : (j < k <=> f[j] < f[k]) /\ (j = k <=> f[j] = f[k])
            /\ \A j, k \in 1 .. Len(s) + 1 : OpenedIn(t, f[j], f[k]) <=> OpenedIn(s, j, k)
            /\ \A k \in 1 .. Len(s) + 1 : OpenedIn(t, 0, f[k]) <=> OpenedIn(s, 0, k)
            /\ \A k \in 1 .. Len(s) + 1 : (Fresh(s, k) => Fresh(t, f[k])) /\ (FreshFirst(s, k) => FreshFirst(t, f[k]))
<1> DEFINE g == [k \in 1 .. Len(s) + 1 |-> IF k <= n THEN k ELSE k + 1]
<1>1. PICK f \in [1 .. Len(s) + 1 -> 1 .. Len(t) + 1] : \A k \in 1 .. Len(s) + 1 : f[k] = IF k <= n THEN k ELSE k + 1
  <2>1. g \in [1 .. Len(s) + 1 -> 1 .. Len(t) + 1]
    BY DEF Inserted
  <2> QED
    BY <2>1
<1>2. f[Len(s) + 1] = Len(t) + 1 /\ \A k \in 1 .. Len(s) : f[k] \in 1 .. Len(t) /\ t[f[k]] = s[k]
  BY <1>1 DEF Inserted
<1>3. ASSUME NEW k \in 1 .. Len(t), k # n + 1 PROVE \E l \in 1 .. Len(s) : f[l] = k
  <2>1. CASE k <= n
    <3>1. k \in 1 .. Len(s) /\ f[k] = k
      BY <1>1, <2>1 DEF Inserted
    <3> QED
      BY <3>1
  <2>2. CASE k > n
    <3>1. k - 1 \in 1 .. Len(s) /\ f[k - 1] = k
      BY <1>1, <1>3, <2>2 DEF Inserted
    <3> QED
      BY <3>1
  <2> QED
    BY <2>1, <2>2 DEF Inserted
<1>4. \A j, k \in 1 .. Len(s) + 1 : (j < k <=> f[j] < f[k]) /\ (j = k <=> f[j] = f[k])
  BY <1>1 DEF Inserted
<1>5. ASSUME NEW j \in 0 .. Len(s) + 1, NEW k \in 1 .. Len(s) + 1, NEW a \in 0 .. Len(t) + 1,
             a = IF j <= n THEN j ELSE j + 1
      PROVE  OpenedIn(t, a, f[k]) <=> OpenedIn(s, j, k)
  <2>1. ASSUME NEW m \in j + 1 .. k - 1, s[m].kind = "Opened"
        PROVE  f[m] \in a + 1 .. f[k] - 1 /\ t[f[m]].kind = "Opened"
    BY SMTT(40), <2>1, <1>1, <1>2, <1>5 DEF Inserted
  <2>2. ASSUME NEW m \in a + 1 .. f[k] - 1, t[m].kind = "Opened"
        PROVE  \E l \in j + 1 .. k - 1 : s[l].kind = "Opened"
    <3>1. m \in 1 .. Len(t) /\ m # n + 1
      BY <2>2, <1>1, <1>5 DEF Inserted
    <3>2. PICK l \in 1 .. Len(s) : f[l] = m
      BY <3>1, <1>3
    <3>3. l \in j + 1 .. k - 1
      BY <3>2, <1>1, <1>5 DEF Inserted
    <3> QED
      BY <3>2, <3>3, <2>2, <1>2
  <2> QED
    BY <2>1, <2>2 DEF OpenedIn
<1>6. /\ \A j, k \in 1 .. Len(s) + 1 : OpenedIn(t, f[j], f[k]) <=> OpenedIn(s, j, k)
      /\ \A k \in 1 .. Len(s) + 1 : OpenedIn(t, 0, f[k]) <=> OpenedIn(s, 0, k)
  <2>1. \A j \in 1 .. Len(s) + 1 : j \in 0 .. Len(s) + 1 /\ f[j] \in 0 .. Len(t) + 1 /\ f[j] = IF j <= n THEN j ELSE j + 1
    BY <1>1 DEF Inserted
  <2>2. 0 \in 0 .. Len(s) + 1 /\ 0 \in 0 .. Len(t) + 1 /\ 0 = IF 0 <= n THEN 0 ELSE 0 + 1
    BY DEF Inserted
  <2> QED
    BY <2>1, <2>2, <1>5
<1>7. ASSUME NEW k \in 1 .. Len(s) + 1
      PROVE  (Fresh(s, k) => Fresh(t, f[k])) /\ (FreshFirst(s, k) => FreshFirst(t, f[k]))
  <2>1. ASSUME NEW j \in 1 .. f[k] - 1, t[j] # e
        PROVE  \E l \in 1 .. k - 1 : t[j] = s[l] /\ (OpenedIn(t, j, f[k]) <=> OpenedIn(s, l, k))
    <3>1. j \in 1 .. Len(t) /\ j # n + 1
      BY <2>1, <1>1 DEF Inserted
    <3>2. PICK l \in 1 .. Len(s) : f[l] = j
      BY <3>1, <1>3
    <3>3. l \in 1 .. k - 1 /\ l \in 1 .. Len(s) + 1
      BY <3>2, <1>4, <2>1 DEF Inserted
    <3> QED
      BY <3>2, <3>3, <1>2, <1>6
  <2>2. ~IsEnd(e) /\ ~IsFirst(e)
    BY DEF IsFirst
  <2> QED
    BY <2>1, <2>2 DEF Fresh, FreshFirst
<1> QED
  BY <1>1, <1>2, <1>3, <1>4, <1>6, <1>7

-----------------------------------------------------------------------------
(* What the browser sends keeps the invariant.                              *)

\* The kinds of event a browser may send, and how its state and its queue change with them.
Sends(b, c, e) ==
  /\ c.n = b.n /\ c.st # "init"
  /\ e.kind = "Opened" => b.st = "init" /\ e.n = b.n
  /\ e.kind = "Page" => b.st \in {"first", "ready"}
  /\ IsFirst(e) => b.st = "first"
  /\ c.st \in {"first", "ready"} => e.kind = "Opened" \/ (~IsEnd(e) /\ b.st \in {"first", "ready"})
  /\ c.st = "first" => e.kind = "Opened" \/ (~IsFirst(e) /\ b.st = "first")
  /\ c.st = "dead" => c.queue = <<>>
  /\ c.queue = b.queue \/ c.queue = <<>> \/ (b.queue # <<>> /\ c.queue = Tail(b.queue))
  /\ e.kind \in {"Page", "Failed"} /\ e.id # Nil =>
        b.queue # <<>> /\ c.queue = Tail(b.queue) /\ e.id = Head(b.queue).id

\* Pages stay in turn after one more event of the browser.
LEMMA TurnLonger ==
  ASSUME NEW b, NEW c, NEW s, NEW t, NEW e, Longer(s, t, e), InTurn(b, s), Sends(b, c, e)
  PROVE  InTurn(c, t)
<1>1. \A k \in 1 .. Len(s) : /\ t[k] = s[k] /\ k \in 1 .. Len(s) + 1
                             /\ Fresh(t, k) <=> Fresh(s, k)
                             /\ FreshFirst(t, k) <=> FreshFirst(s, k)
  BY OpenedLonger DEF Longer
<1>2. Len(s) + 1 \in 1 .. Len(s) + 1 /\ Len(t) = Len(s) + 1 /\ t[Len(s) + 1] = e
  BY DEF Longer
<1>3. ASSUME NEW k \in 1 .. Len(t)
      PROVE  (t[k].kind = "Page" => Fresh(t, k)) /\ (IsFirst(t[k]) => FreshFirst(t, k))
  <2>1. CASE k \in 1 .. Len(s)
    BY <1>1, <2>1 DEF InTurn
  <2>2. CASE k = Len(s) + 1
    BY <1>2, <2>2, OpenedLonger DEF InTurn, Sends
  <2> QED
    BY <2>1, <2>2 DEF Longer
<1>4. ASSUME c.st \in {"first", "ready"} PROVE Fresh(t, Len(t) + 1)
  <2> SUFFICES ASSUME NEW j \in 1 .. Len(t) + 1 - 1, IsEnd(t[j]) PROVE OpenedIn(t, j, Len(t) + 1)
    BY DEF Fresh
  <2>1. CASE j = Len(s) + 1
    BY <1>2, <1>4, <2>1 DEF Sends, IsEnd
  <2>2. CASE j # Len(s) + 1
    <3>1. j \in 1 .. Len(s) /\ j \in Nat /\ j <= Len(s)
      BY <1>2, <2>2 DEF Longer
    <3>2. CASE e.kind = "Opened"
      BY <3>1, <3>2, OpenedLonger
    <3>3. CASE e.kind # "Opened"
      <4>1. Fresh(s, Len(s) + 1) /\ IsEnd(s[j]) /\ j \in 1 .. Len(s) + 1 - 1
        BY <1>1, <3>1, <3>3, <1>4 DEF Sends, InTurn
      <4>2. OpenedIn(s, j, Len(s) + 1)
        BY <4>1 DEF Fresh
      <4> QED
        BY <4>2, <3>1, OpenedLonger
    <3> QED
      BY <3>2, <3>3
  <2> QED
    BY <2>1, <2>2
<1>5. ASSUME c.st = "first" PROVE FreshFirst(t, Len(t) + 1)
  <2> SUFFICES ASSUME NEW j \in 1 .. Len(t) + 1 - 1, IsFirst(t[j]) PROVE OpenedIn(t, j, Len(t) + 1)
    BY DEF FreshFirst
  <2>1. CASE j = Len(s) + 1
    BY <1>2, <1>5, <2>1 DEF Sends, IsFirst
  <2>2. CASE j # Len(s) + 1
    <3>1. j \in 1 .. Len(s) /\ j \in Nat /\ j <= Len(s)
      BY <1>2, <2>2 DEF Longer
    <3>2. CASE e.kind = "Opened"
      BY <3>1, <3>2, OpenedLonger
    <3>3. CASE e.kind # "Opened"
      <4>1. FreshFirst(s, Len(s) + 1) /\ IsFirst(s[j]) /\ j \in 1 .. Len(s) + 1 - 1
        BY <1>1, <3>1, <3>3, <1>5 DEF Sends, InTurn
      <4>2. OpenedIn(s, j, Len(s) + 1)
        BY <4>1 DEF FreshFirst
      <4> QED
        BY <4>2, <3>1, OpenedLonger
    <3> QED
      BY <3>2, <3>3
  <2> QED
    BY <2>1, <2>2
<1> QED
  BY <1>3, <1>4, <1>5 DEF InTurn

\* Browsers stay numbered after one more event.
LEMMA NumberedLonger ==
  ASSUME NEW p \in PaneRec, NEW b \in BrowserRec, NEW c, NEW s, NEW t, NEW e,
         Longer(s, t, e), Numbered(p, b, s), Sends(b, c, e)
  PROVE  Numbered(p, c, t)
<1>1. p.opens \in Nat /\ b.n \in Nat /\ c.n = b.n /\ c.st # "init" /\ p.opens <= b.n
  BY DEF PaneRec, BrowserRec, Sends, Numbered
<1>2. ASSUME NEW k \in 1 .. Len(t), t[k].kind = "Opened"
      PROVE  p.opens < t[k].n /\ t[k].n <= b.n /\ \A j \in 1 .. k - 1 : t[j].kind = "Opened" => t[j].n < t[k].n
  <2>1. CASE k \in 1 .. Len(s)
    BY <1>2, <2>1 DEF Longer, Numbered
  <2>2. CASE k = Len(s) + 1
    BY <1>1, <1>2, <2>2 DEF Longer, Numbered, Sends
  <2> QED
    BY <2>1, <2>2 DEF Longer
<1>3. ASSUME c.st \in {"first", "ready"}, p.opens # b.n
      PROVE  \E k \in 1 .. Len(t) : t[k].kind = "Opened" /\ t[k].n = b.n
  <2>1. CASE e.kind = "Opened"
    <3>1. Len(s) + 1 \in 1 .. Len(t) /\ t[Len(s) + 1] = e
      BY DEF Longer
    <3> QED
      BY <2>1, <3>1 DEF Sends
  <2>2. CASE e.kind # "Opened"
    <3>1. b.st \in {"first", "ready"}
      BY <2>2, <1>3 DEF Sends
    <3>2. PICK k \in 1 .. Len(s) : s[k].kind = "Opened" /\ s[k].n = b.n
      BY <3>1, <1>3 DEF Numbered
    <3> QED
      BY <3>2 DEF Longer
  <2> QED
    BY <2>1, <2>2
<1> QED
  BY <1>1, <1>2, <1>3 DEF Numbered

\* What is left of the queue is its end.
LEMMA QueueLeft ==
  ASSUME NEW q \in Seq(Commands), NEW r, r = q \/ r = <<>> \/ (q # <<>> /\ r = Tail(q))
  PROVE  /\ r \in Seq(Commands)
         /\ \E a \in {0, 1} : /\ r # <<>> => Len(r) = Len(q) - a
                              /\ \A k \in 1 .. Len(r) : k + a \in 1 .. Len(q) /\ r[k] = q[k + a]
<1>1. CASE r = q
  <2>1. \A k \in 1 .. Len(r) : k + 0 \in 1 .. Len(q) /\ r[k] = q[k + 0]
    BY <1>1
  <2>2. r # <<>> => Len(r) = Len(q) - 0
    BY <1>1
  <2> QED
    BY <1>1, <2>1, <2>2
<1>2. CASE r = <<>>
  BY <1>2
<1>3. CASE q # <<>> /\ r = Tail(q)
  <2>1. \A k \in 1 .. Len(r) : k + 1 \in 1 .. Len(q) /\ r[k] = q[k + 1]
    BY <1>3
  <2>2. Len(r) = Len(q) - 1 /\ r \in Seq(Commands)
    BY <1>3
  <2> QED
    BY <2>1, <2>2
<1> QED
  BY <1>1, <1>2, <1>3

\* The fields of a command.
LEMMA CommandFacts ==
  ASSUME NEW c \in Commands
  PROVE  /\ c.id \in Nat /\ c.n \in Nat /\ c.kind \in {"List", "LoadMore"}
         /\ c.kind = "List" => c.path \in Names
BY DEF Commands

\* The last request keeps one answer after one more event: the browser takes its command with it.
LEMMA AskedLonger ==
  ASSUME NEW p \in PaneRec, NEW i \in Seq(Commands), NEW b \in BrowserRec, NEW c, NEW s, NEW t, NEW e \in Events,
         Longer(s, t, e), Asked(p, i, b, s), Sends(b, c, e)
  PROVE  Asked(p, i, c, t)
<1>1. p.id \in Nat /\ b.queue \in Seq(Commands)
  BY DEF PaneRec, BrowserRec
<1>2. PICK a \in {0, 1} : /\ c.queue # <<>> => Len(c.queue) = Len(b.queue) - a
                          /\ \A k \in 1 .. Len(c.queue) : k + a \in 1 .. Len(b.queue) /\ c.queue[k] = b.queue[k + a]
  BY <1>1, QueueLeft DEF Sends
<1>3. c.queue \in Seq(Commands)
  BY <1>1, QueueLeft DEF Sends
<1>4. ASSUME NEW k \in 1 .. Len(c.queue)
      PROVE  /\ c.queue[k].id <= p.id /\ c.queue[k].n <= p.opens
             /\ c.queue[k].id = p.id => c.queue[k].n = p.opens /\ k = Len(c.queue) /\ i = <<>>
  <2>1. c.queue # <<>> /\ Len(c.queue) \in Nat /\ Len(b.queue) \in Nat
    BY <1>1, <1>3
  <2>2. PICK l \in 1 .. Len(b.queue) : l = k + a /\ c.queue[k] = b.queue[l]
    BY <1>2
  <2>3. /\ b.queue[l].id <= p.id /\ b.queue[l].n <= p.opens
        /\ b.queue[l].id = p.id => b.queue[l].n = p.opens /\ l = Len(b.queue) /\ i = <<>>
    BY DEF Asked
  <2>4. l = Len(b.queue) => k = Len(c.queue)
    BY <1>2, <2>1, <2>2
  <2> QED
    BY <2>2, <2>3, <2>4
<1>5. b.queue = <<>> => c.queue = <<>>
  BY DEF Sends
<1>6. ASSUME e.kind \in {"Page", "Failed"}, e.id # Nil
      PROVE  /\ e.id <= p.id
             /\ e.id = p.id => /\ i = <<>> /\ c.queue = <<>> /\ b.queue # <<>>
                               /\ \A j \in 1 .. Len(s) : ~AnswersTo(s[j], p.id)
  <2>1. b.queue # <<>> /\ c.queue = Tail(b.queue) /\ e.id = b.queue[1].id /\ 1 \in 1 .. Len(b.queue)
    BY <1>1, <1>6 DEF Sends
  <2>2. e.id <= p.id
    BY <2>1 DEF Asked
  <2>3. ASSUME e.id = p.id PROVE i = <<>> /\ c.queue = <<>>
    <3>1. i = <<>> /\ 1 = Len(b.queue)
      BY <2>1, <2>3 DEF Asked
    <3>2. Len(Tail(b.queue)) = 0 /\ Tail(b.queue) \in Seq(Commands)
      BY <3>1, <2>1, <1>1
    <3>3. Tail(b.queue) = <<>>
      BY <3>2, EmptySeq
    <3> QED
      BY <3>1, <3>3, <2>1
  <2>4. \A j \in 1 .. Len(s) : ~AnswersTo(s[j], p.id)
    BY <2>1, <1>1, BrowserAssumption DEF Asked, AnswersTo
  <2> QED
    BY <2>1, <2>2, <2>3, <2>4
<1>7. ASSUME NEW k \in 1 .. Len(t), t[k].kind \in {"Page", "Failed"}, t[k].id # Nil
      PROVE  /\ t[k].id <= p.id
             /\ t[k].id = p.id => /\ i = <<>> /\ c.queue = <<>>
                                  /\ \A j \in 1 .. Len(t) : AnswersTo(t[j], p.id) => j = k
  <2>0. /\ Len(t) = Len(s) + 1 /\ Len(s) \in Nat /\ t[Len(s) + 1] = e /\ \A j \in 1 .. Len(s) : t[j] = s[j]
    BY DEF Longer
  <2>1. CASE k \in 1 .. Len(s)
    <3>1. s[k].kind \in {"Page", "Failed"} /\ s[k].id # Nil /\ s[k] = t[k]
      BY <2>0, <2>1, <1>7
    <3>2. s[k].id <= p.id
      BY <3>1, <2>1 DEF Asked
    <3>3. ASSUME s[k].id = p.id
          PROVE  i = <<>> /\ b.queue = <<>> /\ \A j \in 1 .. Len(s) : AnswersTo(s[j], p.id) => j = k
      BY <3>1, <3>3, <2>1 DEF Asked
    <3>4. s[k].id = p.id => ~AnswersTo(e, p.id)
      BY <3>3, <1>6, <1>1, BrowserAssumption DEF AnswersTo
    <3> QED
      BY <3>1, <3>2, <3>3, <3>4, <2>0, <1>5
  <2>2. CASE k = Len(s) + 1
    <3>1. \A j \in 1 .. Len(t) : j \in 1 .. Len(s) \/ j = k
      BY <2>0, <2>2
    <3> QED
      BY <2>2, <3>1, <2>0, <1>6, <1>7
  <2> QED
    BY <2>0, <2>1, <2>2
<1>8. c.st = "dead" => c.queue = <<>>
  BY DEF Sends
<1>9. /\ \A k \in 1 .. Len(i) : /\ i[k].id <= p.id /\ i[k].n <= p.opens
                                /\ i[k].id = p.id => i[k].n = p.opens /\ k = Len(i)
  BY DEF Asked
<1> QED
  BY <1>4, <1>7, <1>8, <1>9 DEF Asked

\* First pages stay answers to a handshake after one more event.
LEMMA FirstLonger ==
  ASSUME NEW p \in PaneRec, NEW i \in Seq(Commands), NEW b \in BrowserRec, NEW c, NEW s, NEW t, NEW e \in Events,
         Longer(s, t, e), FirstPages(p, i, b, s), Sends(b, c, e)
  PROVE  FirstPages(p, i, c, t)
<1>0. /\ Len(t) = Len(s) + 1 /\ Len(s) \in Nat /\ t[Len(s) + 1] = e /\ \A j \in 1 .. Len(s) : t[j] = s[j]
      /\ p.id \in Nat /\ b.queue \in Seq(Commands)
  BY DEF Longer, PaneRec, BrowserRec
<1>1. ASSUME Opening(p)
      PROVE  /\ \A k \in 1 .. Len(i) : i[k].id # p.id
             /\ \A k \in 1 .. Len(c.queue) : c.queue[k].id # p.id
             /\ \A k \in 1 .. Len(t) : ~AnswersTo(t[k], p.id)
  <2>1. /\ \A k \in 1 .. Len(i) : i[k].id # p.id
        /\ \A k \in 1 .. Len(b.queue) : b.queue[k].id # p.id
        /\ \A k \in 1 .. Len(s) : ~AnswersTo(s[k], p.id)
    BY <1>1 DEF FirstPages
  <2>2. \A k \in 1 .. Len(c.queue) : \E l \in 1 .. Len(b.queue) : c.queue[k] = b.queue[l]
    <3>1. c.queue = b.queue \/ c.queue = <<>> \/ (b.queue # <<>> /\ c.queue = Tail(b.queue))
      BY DEF Sends
    <3>2. PICK a \in {0, 1} : \A k \in 1 .. Len(c.queue) : k + a \in 1 .. Len(b.queue) /\ c.queue[k] = b.queue[k + a]
      BY <1>0, <3>1, QueueLeft
    <3> QED
      BY <3>2
  <2>3. ~AnswersTo(e, p.id)
    <3> SUFFICES ASSUME AnswersTo(e, p.id) PROVE FALSE
      OBVIOUS
    <3>1. e.id # Nil /\ e.id = p.id
      BY <1>0, BrowserAssumption DEF AnswersTo
    <3>2. b.queue # <<>> /\ e.id = b.queue[1].id /\ 1 \in 1 .. Len(b.queue)
      BY <1>0, <3>1 DEF Sends, AnswersTo
    <3> QED
      BY <2>1, <3>1, <3>2
  <2>4. ASSUME NEW k \in 1 .. Len(c.queue) PROVE c.queue[k].id # p.id
    BY <2>1, <2>2
  <2>5. ASSUME NEW k \in 1 .. Len(t) PROVE ~AnswersTo(t[k], p.id)
    <3>1. k \in 1 .. Len(s) \/ k = Len(s) + 1
      BY <1>0
    <3> QED
      BY <3>1, <1>0, <2>1, <2>3
  <2> QED
    BY <2>1, <2>4, <2>5
<1>2. ASSUME NEW k \in 1 .. Len(t), IsFirst(t[k]) PROVE Opening(p) \/ OpenedIn(t, 0, k)
  <2>1. CASE k \in 1 .. Len(s)
    <3>1. Opening(p) \/ OpenedIn(s, 0, k)
      BY <1>0, <1>2, <2>1 DEF FirstPages
    <3> QED
      BY <3>1, <2>1, OpenedLonger
  <2>2. CASE k = Len(s) + 1
    <3>1. Opening(p) \/ OpenedIn(s, 0, k)
      BY <1>0, <1>2, <2>2 DEF FirstPages, Sends
    <3> QED
      BY <3>1, <2>2, <1>0, OpenedLonger
  <2> QED
    BY <1>0, <2>1, <2>2
<1>3. ASSUME c.st = "first" PROVE Opening(p) \/ OpenedIn(t, 0, Len(t) + 1)
  <2>1. CASE e.kind = "Opened"
    BY <2>1, <1>0, OpenedLonger
  <2>2. CASE e.kind # "Opened"
    <3>1. Opening(p) \/ OpenedIn(s, 0, Len(s) + 1)
      BY <1>3, <2>2 DEF FirstPages, Sends
    <3> QED
      BY <3>1, <1>0, OpenedLonger
  <2> QED
    BY <2>1, <2>2
<1> QED
  BY <1>1, <1>2, <1>3 DEF FirstPages

\* The commands left are still meant for the pane.
LEMMA ExpectedLonger ==
  ASSUME NEW p \in PaneRec, NEW i \in Seq(Commands), NEW b \in BrowserRec, NEW c, NEW e,
         Expected(p, i, b), Sends(b, c, e), b.st # "dead" \/ c.st = "dead"
  PROVE  Expected(p, i, c)
<1>1. b.queue \in Seq(Commands)
  BY DEF BrowserRec
<1>2. \A k \in 1 .. Len(c.queue) : \E l \in 1 .. Len(b.queue) : c.queue[k] = b.queue[l]
  <2>1. c.queue = b.queue \/ c.queue = <<>> \/ (b.queue # <<>> /\ c.queue = Tail(b.queue))
    BY DEF Sends
  <2>2. PICK a \in {0, 1} : \A k \in 1 .. Len(c.queue) : k + a \in 1 .. Len(b.queue) /\ c.queue[k] = b.queue[k + a]
    BY <1>1, <2>1, QueueLeft
  <2> QED
    BY <2>2
<1> QED
  BY <1>2 DEF Expected, Sends

\* A browser at work whose handshake the pane has seen has no handshake on its way.
LEMMA SeenOpened ==
  ASSUME NEW p \in PaneRec, NEW b \in BrowserRec, NEW s \in Seq(Events), Numbered(p, b, s), b.st \in {"first", "ready"}
  PROVE  p.opens = b.n <=> ~OpenedIn(s, 0, Len(s) + 1)
<1>1. p.opens \in Nat /\ b.n \in Nat
  BY DEF PaneRec, BrowserRec
<1>2. ASSUME p.opens = b.n, NEW m \in 1 .. Len(s), s[m].kind = "Opened" PROVE FALSE
  <2>1. s[m].n \in Nat
    BY <1>2, EventFacts
  <2> QED
    BY <1>1, <1>2, <2>1 DEF Numbered
<1>3. p.opens # b.n => \E m \in 1 .. Len(s) : s[m].kind = "Opened"
  BY DEF Numbered
<1>4. OpenedIn(s, 0, Len(s) + 1) <=> \E m \in 1 .. Len(s) : s[m].kind = "Opened"
  BY DEF OpenedIn
<1> QED
  BY <1>2, <1>3, <1>4

\* The browser answers the request at the head of its queue, and means it when the pane waits for it.
LEMMA AnsweredLonger ==
  ASSUME NEW p \in PaneRec, NEW i \in Seq(Commands), NEW b \in BrowserRec, NEW c, NEW s \in Seq(Events), NEW t, NEW e \in Events,
         Longer(s, t, e), Numbered(p, b, s), Asked(p, i, b, s), Expected(p, i, b), Answered(p, s), Sends(b, c, e),
         e.kind = "Page" /\ e.id # Nil =>
            /\ e.append <=> Head(b.queue).kind = "LoadMore"
            /\ ~e.append => Head(b.queue).kind = "List" /\ e.path = Resolved[Head(b.queue).path]
  PROVE  /\ Answered(p, t)
         /\ e.kind = "Page" /\ e.id = p.id /\ ~OpenedIn(s, 0, Len(s) + 1) => p.opens = b.n
<1>0. /\ Len(t) = Len(s) + 1 /\ Len(s) \in Nat /\ t[Len(s) + 1] = e /\ \A j \in 1 .. Len(s) : t[j] = s[j]
      /\ p.id \in Nat /\ b.queue \in Seq(Commands)
  BY DEF Longer, PaneRec, BrowserRec
<1>1. ASSUME e.kind = "Page", e.id = p.id, ~OpenedIn(s, 0, Len(s) + 1)
      PROVE  /\ p.opens = b.n
             /\ e.append => p.nav = Nil
             /\ ~e.append => p.nav # Nil /\ e.path = Resolved[p.nav.to]
             /\ p.loading
  <2>1. e.id # Nil /\ b.st \in {"first", "ready"}
    BY <1>0, <1>1, BrowserAssumption DEF Sends
  <2>2. p.opens = b.n
    BY <1>0, <1>1, <2>1, SeenOpened
  <2>3. b.queue # <<>> /\ e.id = b.queue[1].id /\ Head(b.queue) = b.queue[1] /\ 1 \in 1 .. Len(b.queue)
    BY <1>0, <1>1, <2>1 DEF Sends
  <2>4. b.queue[1].n = p.opens
    BY <1>1, <2>3 DEF Asked
  <2>5. Meant(p, b.queue[1])
    BY <2>1, <2>2, <2>3, <2>4 DEF Expected
  <2>6. b.queue[1].kind \in {"List", "LoadMore"}
    BY <1>0, <2>3, CommandFacts
  <2> QED
    BY <1>1, <2>1, <2>2, <2>3, <2>5, <2>6 DEF Meant
<1>2. ASSUME NEW k \in 1 .. Len(t), AnswerAt(p, t, k)
      PROVE  /\ p.loading
             /\ t[k].append => p.nav = Nil
             /\ ~t[k].append => p.nav # Nil /\ t[k].path = Resolved[p.nav.to]
  <2>1. CASE k \in 1 .. Len(s)
    <3>1. AnswerAt(p, s, k) /\ t[k] = s[k]
      BY <1>0, <1>2, <2>1, OpenedLonger DEF AnswerAt
    <3> QED
      BY <3>1, <2>1 DEF Answered
  <2>2. CASE k = Len(s) + 1
    <3>1. e.kind = "Page" /\ e.id = p.id /\ ~OpenedIn(s, 0, Len(s) + 1)
      BY <1>0, <1>2, <2>2, OpenedLonger DEF AnswerAt
    <3> QED
      BY <3>1, <1>1, <2>2, <1>0
  <2> QED
    BY <1>0, <2>1, <2>2
<1> QED
  BY <1>1, <1>2 DEF Answered

\* A page is of its directory as it is now.
LEMMA OwesLonger ==
  ASSUME NEW p \in PaneRec, NEW s, NEW t, NEW e \in Events, NEW fs \in [Dirs -> Nat],
         Longer(s, t, e), Owes(p, s, fs), e.kind = "Page" => e.ver = fs[e.path], e.kind # "Changed"
  PROVE  Owes(p, t, fs)
<1>0. /\ Len(t) = Len(s) + 1 /\ Len(s) \in Nat /\ t[Len(s) + 1] = e /\ \A j \in 1 .. Len(s) : t[j] = s[j]
      /\ p.owed \in Nat
  BY DEF Longer, PaneRec
<1>2. ASSUME NEW k \in 1 .. Len(t)
      PROVE  /\ AnswerAt(p, t, k) /\ ~t[k].append /\ t[k].path = p.path => t[k].ver >= p.owed \/ p.auto = p.path
             /\ t[k].kind \in {"Page", "Changed"} => t[k].ver <= fs[t[k].path]
  <2>1. CASE k \in 1 .. Len(s)
    <3>1. t[k] = s[k] /\ (AnswerAt(p, t, k) <=> AnswerAt(p, s, k))
      BY <1>0, <2>1, OpenedLonger DEF AnswerAt
    <3> QED
      BY <3>1, <2>1 DEF Owes
  <2>2. CASE k = Len(s) + 1
    <3>1. t[k] = e
      BY <1>0, <2>2
    <3>2. e.kind = "Page" => e.path \in Dirs /\ e.path # Nil /\ fs[e.path] \in Nat
      BY EventFacts, DirFacts
    <3> QED
      BY <3>1, <3>2, <1>0 DEF Owes, AnswerAt
  <2> QED
    BY <1>0, <2>1, <2>2
<1> QED
  BY <1>2 DEF Owes

\* The answers on their way, after one more event.
LEMMA AnswerLonger ==
  ASSUME NEW p \in PaneRec, NEW s, NEW t, NEW e, Longer(s, t, e)
  PROVE  /\ \A k \in 1 .. Len(s) : AnswerAt(p, t, k) <=> AnswerAt(p, s, k)
         /\ AnswerAt(p, t, Len(s) + 1) <=> e.kind = "Page" /\ e.id = p.id /\ ~OpenedIn(s, 0, Len(s) + 1)
         /\ Len(t) = Len(s) + 1 /\ Len(s) \in Nat /\ t[Len(s) + 1] = e /\ \A k \in 1 .. Len(s) : t[k] = s[k]
         /\ \A k \in 1 .. Len(t) : k \in 1 .. Len(s) \/ k = Len(s) + 1
<1>1. Len(t) = Len(s) + 1 /\ Len(s) \in Nat /\ t[Len(s) + 1] = e /\ \A k \in 1 .. Len(s) : t[k] = s[k]
  BY DEF Longer
<1>2. \A k \in 1 .. Len(s) + 1 : OpenedIn(t, 0, k) <=> OpenedIn(s, 0, k)
  BY OpenedLonger
<1>3. \A k \in 1 .. Len(s) : AnswerAt(p, t, k) <=> AnswerAt(p, s, k)
  BY <1>1, <1>2 DEF AnswerAt
<1>4. AnswerAt(p, t, Len(s) + 1) <=> e.kind = "Page" /\ e.id = p.id /\ ~OpenedIn(s, 0, Len(s) + 1)
  BY <1>1, <1>2 DEF AnswerAt
<1> QED
  BY <1>1, <1>3, <1>4

\* The pane stays in step with the browser after one more event, or that event is the listing it waits for.
LEMMA CleanLonger ==
  ASSUME NEW p \in PaneRec, NEW i \in Seq(Commands), NEW b \in BrowserRec, NEW c, NEW s, NEW t, NEW e, NEW x,
         Longer(s, t, e), InStep(p, i, b, s, x), Sends(b, c, e)
  PROVE  /\ Travelled(p, c) <=> Travelled(p, b)
         /\ Travelled(p, c) => /\ \A k \in 1 .. Len(i) : i[k].n = c.n
                               /\ \A k \in 1 .. Len(c.queue) : c.queue[k].n = c.n
         /\ Clean(p, c, t, x) => Clean(p, b, s, x) \/ (AnswerAt(p, t, Len(s) + 1) /\ ~e.append)
         /\ Clean(p, b, s, x) => \A k \in 1 .. Len(c.queue) : c.queue[k].kind = "List" => c.queue[k].n = c.n
<1>1. c.n = b.n /\ (Travelled(p, c) <=> Travelled(p, b))
  BY DEF Sends, Travelled
<1>2. \A k \in 1 .. Len(c.queue) : \E l \in 1 .. Len(b.queue) : c.queue[k] = b.queue[l]
  <2>0. b.queue \in Seq(Commands)
    BY DEF BrowserRec
  <2>1. c.queue = b.queue \/ c.queue = <<>> \/ (b.queue # <<>> /\ c.queue = Tail(b.queue))
    BY DEF Sends
  <2>2. PICK a \in {0, 1} : \A k \in 1 .. Len(c.queue) : k + a \in 1 .. Len(b.queue) /\ c.queue[k] = b.queue[k + a]
    BY <2>0, <2>1, QueueLeft
  <2> QED
    BY <2>2
<1>3. Travelled(p, c) => /\ \A k \in 1 .. Len(i) : i[k].n = c.n
                         /\ \A k \in 1 .. Len(c.queue) : c.queue[k].n = c.n
  BY <1>1, <1>2 DEF InStep
<1>4. Clean(p, b, s, x) => \A k \in 1 .. Len(c.queue) : c.queue[k].kind = "List" => c.queue[k].n = c.n
  BY <1>1, <1>2 DEF InStep
<1>5. ASSUME Clean(p, c, t, x) PROVE Clean(p, b, s, x) \/ (AnswerAt(p, t, Len(s) + 1) /\ ~e.append)
  <2>1. CASE ~x \/ Travelled(p, c)
    BY <2>1, <1>1 DEF Clean
  <2>2. CASE \E k \in 1 .. Len(t) : AnswerAt(p, t, k) /\ ~t[k].append
    <3>1. PICK k \in 1 .. Len(t) : AnswerAt(p, t, k) /\ ~t[k].append
      BY <2>2
    <3> QED
      BY <3>1, AnswerLonger DEF Clean
  <2> QED
    BY <1>5, <2>1, <2>2 DEF Clean
<1> QED
  BY <1>1, <1>3, <1>4, <1>5

\* A handshake, a failure or the end moves nothing.
LEMMA StepSilent ==
  ASSUME NEW p \in PaneRec, NEW i \in Seq(Commands), NEW b \in BrowserRec, NEW c, NEW s, NEW t, NEW e, NEW x,
         Longer(s, t, e), InStep(p, i, b, s, x), Sends(b, c, e), e.kind # "Page",
         c.st = "ready" => b.st = "ready" /\ c.cursor = b.cursor
  PROVE  InStep(p, i, c, t, x)
<1>0. /\ Len(t) = Len(s) + 1 /\ Len(s) \in Nat /\ t[Len(s) + 1] = e /\ \A k \in 1 .. Len(s) : t[k] = s[k]
      /\ \A k \in 1 .. Len(t) : k \in 1 .. Len(s) \/ k = Len(s) + 1
      /\ c.n = b.n
  BY AnswerLonger DEF Sends
<1>1. Clean(p, c, t, x) => Clean(p, b, s, x)
  BY CleanLonger, AnswerLonger
<1>2. \A k \in 1 .. Len(t) : AnswerAt(p, t, k) => k \in 1 .. Len(s) /\ AnswerAt(p, s, k)
  BY <1>0, AnswerLonger
<1>3. \A k \in 1 .. Len(t) : AnswerAt(p, t, k) /\ t[k].append =>
         t[k].path = p.path \/ (x /\ p.back = <<>> /\ p.fwd = <<>>)
  BY <1>0, <1>2 DEF InStep
<1>4. ASSUME Clean(p, c, t, x), c.st = "ready", p.opens = c.n
      PROVE  /\ \A k \in 1 .. Len(t) : Pending(p, t[k]) => t[k].path = c.cursor
             /\ (\A k \in 1 .. Len(t) : ~Pending(p, t[k])) => c.cursor = p.path
  <2>1. /\ \A k \in 1 .. Len(s) : Pending(p, s[k]) => s[k].path = b.cursor
        /\ (\A k \in 1 .. Len(s) : ~Pending(p, s[k])) => b.cursor = p.path
    BY <1>0, <1>1, <1>4 DEF InStep
  <2>2. ~Pending(p, e) /\ c.cursor = b.cursor /\ \A k \in 1 .. Len(s) : k \in 1 .. Len(t)
    BY <1>0, <1>4 DEF Pending
  <2> QED
    BY <1>0, <2>1, <2>2
<1>5. ASSUME Clean(p, c, t, x), c.st = "ready", p.opens # c.n
      PROVE  \E k \in 1 .. Len(t) : /\ IsFirst(t[k]) /\ t[k].path = c.cursor
                                    /\ \E j \in 1 .. k - 1 : t[j].kind = "Opened" /\ t[j].n = c.n
  <2>1. PICK k \in 1 .. Len(s) : /\ IsFirst(s[k]) /\ s[k].path = b.cursor
                                 /\ \E j \in 1 .. k - 1 : s[j].kind = "Opened" /\ s[j].n = b.n
    BY <1>0, <1>1, <1>5 DEF InStep
  <2>2. k \in 1 .. Len(t) /\ t[k] = s[k] /\ \A j \in 1 .. k - 1 : t[j] = s[j]
    BY <1>0
  <2> QED
    BY <1>0, <1>5, <2>1, <2>2
<1>6. ~x => p.shown \in {{}, {p.path}}
  BY DEF InStep
<1>7. /\ Travelled(p, c) => /\ \A k \in 1 .. Len(i) : i[k].n = c.n
                            /\ \A k \in 1 .. Len(c.queue) : c.queue[k].n = c.n
      /\ Clean(p, b, s, x) => \A k \in 1 .. Len(c.queue) : c.queue[k].kind = "List" => c.queue[k].n = c.n
  BY ZenonT(40), CleanLonger
<1> QED
  BY <1>1, <1>3, <1>4, <1>5, <1>6, <1>7 DEF InStep

\* The first page is of the directory the browser starts in.
LEMMA StepFirst ==
  ASSUME NEW p \in PaneRec, NEW i \in Seq(Commands), NEW b \in BrowserRec, NEW c, NEW s \in Seq(Events), NEW t,
         NEW e \in Events, NEW x,
         Longer(s, t, e), InStep(p, i, b, s, x), Sends(b, c, e), InTurn(b, s), Numbered(p, b, s), FirstPages(p, i, b, s),
         IsFirst(e), c.st = "ready", c.cursor = e.path
  PROVE  InStep(p, i, c, t, x)
<1>0. /\ Len(t) = Len(s) + 1 /\ Len(s) \in Nat /\ t[Len(s) + 1] = e /\ \A k \in 1 .. Len(s) : t[k] = s[k]
      /\ \A k \in 1 .. Len(t) : k \in 1 .. Len(s) \/ k = Len(s) + 1
      /\ c.n = b.n /\ b.st = "first" /\ p.id \in Nat
  BY AnswerLonger DEF Sends, PaneRec
<1>1. e.kind = "Page" /\ e.id = Nil /\ e.id # p.id /\ ~e.append
  BY <1>0, BrowserAssumption, EventFacts DEF IsFirst
<1>2. Clean(p, c, t, x) => Clean(p, b, s, x)
  BY <1>1, CleanLonger, AnswerLonger
<1>3. \A k \in 1 .. Len(t) : AnswerAt(p, t, k) /\ t[k].append =>
         t[k].path = p.path \/ (x /\ p.back = <<>> /\ p.fwd = <<>>)
  BY <1>0, <1>1, AnswerLonger DEF InStep
<1>4. ASSUME p.opens = c.n
      PROVE  /\ \A k \in 1 .. Len(t) : Pending(p, t[k]) => t[k].path = c.cursor
             /\ (\A k \in 1 .. Len(t) : ~Pending(p, t[k])) => c.cursor = p.path
  <2>1. ~OpenedIn(s, 0, Len(s) + 1)
    BY <1>0, <1>4, SeenOpened
  <2>2. Opening(p) /\ \A k \in 1 .. Len(s) : ~AnswersTo(s[k], p.id)
    BY <1>0, <2>1 DEF FirstPages
  <2>3. \A k \in 1 .. Len(s) : ~IsFirst(s[k])
    BY <1>0, <2>1 DEF InTurn, FreshFirst, OpenedIn
  <2>4. \A k \in 1 .. Len(s) : ~Pending(p, s[k])
    BY <2>2, <2>3 DEF Pending, AnswersTo, IsFirst
  <2>5. Pending(p, e) /\ Len(s) + 1 \in 1 .. Len(t)
    BY <1>0, <1>1 DEF Pending
  <2> QED
    BY <1>0, <2>4, <2>5
<1>5. ASSUME p.opens # c.n
      PROVE  \E k \in 1 .. Len(t) : /\ IsFirst(t[k]) /\ t[k].path = c.cursor
                                    /\ \E j \in 1 .. k - 1 : t[j].kind = "Opened" /\ t[j].n = c.n
  <2>1. PICK j \in 1 .. Len(s) : s[j].kind = "Opened" /\ s[j].n = b.n
    BY <1>0, <1>5 DEF Numbered
  <2>2. Len(s) + 1 \in 1 .. Len(t) /\ j \in 1 .. (Len(s) + 1) - 1 /\ t[j] = s[j]
    BY <1>0
  <2> QED
    BY <1>0, <2>1, <2>2
<1>6. ~x => p.shown \in {{}, {p.path}}
  BY DEF InStep
<1>7. /\ Travelled(p, c) => /\ \A k \in 1 .. Len(i) : i[k].n = c.n
                            /\ \A k \in 1 .. Len(c.queue) : c.queue[k].n = c.n
      /\ Clean(p, b, s, x) => \A k \in 1 .. Len(c.queue) : c.queue[k].kind = "List" => c.queue[k].n = c.n
  BY CleanLonger
<1> QED
  BY <1>2, <1>3, <1>4, <1>5, <1>6, <1>7 DEF InStep

\* No other page is on its way to a pane whose request is still in the browser's queue.
LEMMA QueuedAlone ==
  ASSUME NEW p \in PaneRec, NEW i \in Seq(Commands), NEW b \in BrowserRec, NEW s \in Seq(Events),
         Asked(p, i, b, s), Numbered(p, b, s), FirstPages(p, i, b, s),
         NEW l \in 1 .. Len(b.queue), b.queue[l].id = p.id, p.opens = b.n, b.st = "ready"
  PROVE  \A k \in 1 .. Len(s) : ~Pending(p, s[k])
<1>0. p.id \in Nat /\ b.queue \in Seq(Commands) /\ Len(s) \in Nat
  BY DEF PaneRec, BrowserRec
<1>1. \A k \in 1 .. Len(s) : s[k].kind = "Page" => s[k].id # p.id
  BY <1>0, BrowserAssumption DEF Asked
<1>2. ~OpenedIn(s, 0, Len(s) + 1)
  BY SeenOpened
<1>3. \A k \in 1 .. Len(s) : ~OpenedIn(s, 0, k)
  BY <1>0, <1>2 DEF OpenedIn
<1>4. ~Opening(p)
  BY DEF FirstPages
<1>5. \A k \in 1 .. Len(s) : ~IsFirst(s[k])
  BY <1>3, <1>4 DEF FirstPages
<1> QED
  BY <1>1, <1>5 DEF Pending, IsFirst

\* A listing moves the browser to where the pane asked.
LEMMA StepListed ==
  ASSUME NEW p \in PaneRec, NEW i \in Seq(Commands), NEW b \in BrowserRec, NEW c, NEW s \in Seq(Events), NEW t,
         NEW e \in Events, NEW x,
         Longer(s, t, e), InStep(p, i, b, s, x), Sends(b, c, e), Numbered(p, b, s), Asked(p, i, b, s),
         FirstPages(p, i, b, s), Expected(p, i, b), b.st = "ready",
         e.kind = "Page", e.id # Nil, ~e.append, Head(b.queue).kind = "List", c.cursor = e.path
  PROVE  InStep(p, i, c, t, x)
<1>0. /\ Len(t) = Len(s) + 1 /\ Len(s) \in Nat /\ t[Len(s) + 1] = e /\ \A k \in 1 .. Len(s) : t[k] = s[k]
      /\ \A k \in 1 .. Len(t) : k \in 1 .. Len(s) \/ k = Len(s) + 1
      /\ c.n = b.n /\ p.id \in Nat /\ p.opens \in Nat /\ b.n \in Nat
      /\ b.queue \in Seq(Commands) /\ b.queue # <<>> /\ e.id = Head(b.queue).id
  <2>1. c.n = b.n /\ b.queue # <<>> /\ e.id = Head(b.queue).id
    BY DEF Sends
  <2>2. p.id \in Nat /\ p.opens \in Nat /\ b.n \in Nat /\ b.queue \in Seq(Commands)
    BY DEF PaneRec, BrowserRec
  <2> QED
    BY <2>1, <2>2, AnswerLonger
<1>1. 1 \in 1 .. Len(b.queue) /\ Head(b.queue) = b.queue[1] /\ b.queue[1] \in Commands
  BY <1>0
<1>2. b.queue[1].n \in Nat /\ b.queue[1].n <= p.opens /\ p.opens <= b.n
  BY <1>1, CommandFacts DEF Asked, Numbered
<1>3. ASSUME Clean(p, c, t, x) PROVE e.id = p.id /\ p.opens = b.n
  <2>1. CASE Clean(p, b, s, x)
    <3>1. b.queue[1].n = b.n
      BY <1>1, <2>1 DEF InStep
    <3>2. p.opens = b.n
      BY <1>0, <1>2, <3>1
    <3>3. Meant(p, b.queue[1])
      BY <1>1, <3>1 DEF Expected
    <3> QED
      BY <1>0, <1>1, <3>2, <3>3 DEF Meant
  <2>2. CASE AnswerAt(p, t, Len(s) + 1)
    <3>1. e.id = p.id /\ ~OpenedIn(s, 0, Len(s) + 1)
      BY <2>2, AnswerLonger
    <3>2. p.opens = b.n
      BY <3>1, SeenOpened
    <3> QED
      BY <3>1, <3>2
  <2> QED
    BY <1>3, <2>1, <2>2, CleanLonger
<1>4. ASSUME Clean(p, c, t, x)
      PROVE  /\ \A k \in 1 .. Len(t) : Pending(p, t[k]) => t[k].path = c.cursor
             /\ (\A k \in 1 .. Len(t) : ~Pending(p, t[k])) => c.cursor = p.path
             /\ \A k \in 1 .. Len(c.queue) : c.queue[k].kind = "List" => c.queue[k].n = c.n
  <2>1. e.id = p.id /\ p.opens = b.n
    BY <1>3, <1>4
  <2>2. b.queue[1].id = p.id
    BY <2>1, <1>0, <1>1
  <2>3. \A k \in 1 .. Len(s) : ~Pending(p, s[k])
    BY <2>1, <2>2, <1>1, QueuedAlone
  <2>4. Pending(p, e) /\ Len(s) + 1 \in 1 .. Len(t)
    BY <2>1, <1>0 DEF Pending
  <2>5. 1 = Len(b.queue) /\ c.queue = Tail(b.queue)
    BY <2>2, <1>1 DEF Asked, Sends
  <2>6. Len(c.queue) = 0
    BY <2>5, <1>0
  <2> QED
    BY <1>0, <2>3, <2>4, <2>6
<1>5. \A k \in 1 .. Len(t) : AnswerAt(p, t, k) /\ t[k].append =>
         t[k].path = p.path \/ (x /\ p.back = <<>> /\ p.fwd = <<>>)
  <2>1. \A k \in 1 .. Len(s) : AnswerAt(p, t, k) <=> AnswerAt(p, s, k)
    BY AnswerLonger
  <2>2. \A k \in 1 .. Len(s) : AnswerAt(p, s, k) /\ s[k].append =>
           s[k].path = p.path \/ (x /\ p.back = <<>> /\ p.fwd = <<>>)
    BY DEF InStep
  <2>3. \A k \in 1 .. Len(t) : (k \in 1 .. Len(s) /\ t[k] = s[k]) \/ t[k] = e
    BY <1>0
  <2> QED
    BY <2>1, <2>2, <2>3
<1>6. ~x => p.shown \in {{}, {p.path}}
  BY DEF InStep
<1>7. Travelled(p, c) => /\ \A k \in 1 .. Len(i) : i[k].n = c.n
                         /\ \A k \in 1 .. Len(c.queue) : c.queue[k].n = c.n
  BY CleanLonger
<1>8. Clean(p, c, t, x) => p.opens = c.n
  BY <1>3, <1>0
<1> QED
  BY <1>4, <1>5, <1>6, <1>7, <1>8 DEF InStep

\* A further page is of the directory the browser is in.
LEMMA StepMore ==
  ASSUME NEW p \in PaneRec, NEW i \in Seq(Commands), NEW b \in BrowserRec, NEW c, NEW s \in Seq(Events), NEW t,
         NEW e \in Events, NEW x \in BOOLEAN,
         Longer(s, t, e), InStep(p, i, b, s, x), Sends(b, c, e), Numbered(p, b, s), Asked(p, i, b, s),
         FirstPages(p, i, b, s), b.st = "ready", e.kind = "Page", e.id # Nil, e.append,
         c.cursor = b.cursor, c.cursor = e.path
  PROVE  InStep(p, i, c, t, x)
<1>0. /\ Len(t) = Len(s) + 1 /\ Len(s) \in Nat /\ t[Len(s) + 1] = e /\ \A k \in 1 .. Len(s) : t[k] = s[k]
      /\ \A k \in 1 .. Len(t) : k \in 1 .. Len(s) \/ k = Len(s) + 1
      /\ c.n = b.n /\ p.id \in Nat /\ b.queue \in Seq(Commands) /\ b.queue # <<>> /\ e.id = Head(b.queue).id
  <2>1. c.n = b.n /\ b.queue # <<>> /\ e.id = Head(b.queue).id
    BY DEF Sends
  <2>2. p.id \in Nat /\ b.queue \in Seq(Commands)
    BY DEF PaneRec, BrowserRec
  <2>3. /\ Len(t) = Len(s) + 1 /\ Len(s) \in Nat /\ t[Len(s) + 1] = e /\ \A k \in 1 .. Len(s) : t[k] = s[k]
        /\ \A k \in 1 .. Len(t) : k \in 1 .. Len(s) \/ k = Len(s) + 1
    BY AnswerLonger
  <2> QED
    BY <2>1, <2>2, <2>3
<1>1. Clean(p, c, t, x) => Clean(p, b, s, x)
  BY CleanLonger
<1>2. 1 \in 1 .. Len(b.queue) /\ b.queue[1].id = e.id /\ ~Pending(p, e)
  BY <1>0 DEF Pending
<1>3. ASSUME AnswerAt(p, t, Len(s) + 1)
      PROVE  e.path = p.path \/ (x /\ p.back = <<>> /\ p.fwd = <<>>)
  <2>1. e.id = p.id /\ ~OpenedIn(s, 0, Len(s) + 1)
    BY <1>3, AnswerLonger
  <2>2. p.opens = b.n
    BY <2>1, SeenOpened
  <2>3. \A k \in 1 .. Len(s) : ~Pending(p, s[k])
    BY <2>1, <2>2, <1>2, QueuedAlone
  <2>4. Clean(p, b, s, x) => b.cursor = p.path
    BY <2>2, <2>3 DEF InStep
  <2>5. Clean(p, b, s, x) \/ (x /\ ~Travelled(p, b))
    BY DEF Clean
  <2> QED
    BY <2>2, <2>4, <2>5 DEF Travelled
<1>4. \A k \in 1 .. Len(t) : AnswerAt(p, t, k) /\ t[k].append =>
         t[k].path = p.path \/ (x /\ p.back = <<>> /\ p.fwd = <<>>)
  BY SMTT(40), <1>0, <1>3, AnswerLonger DEF InStep
<1>5. ASSUME Clean(p, c, t, x), p.opens = c.n
      PROVE  /\ \A k \in 1 .. Len(t) : Pending(p, t[k]) => t[k].path = c.cursor
             /\ (\A k \in 1 .. Len(t) : ~Pending(p, t[k])) => c.cursor = p.path
  <2>1. /\ \A k \in 1 .. Len(s) : Pending(p, s[k]) => s[k].path = b.cursor
        /\ (\A k \in 1 .. Len(s) : ~Pending(p, s[k])) => b.cursor = p.path
    BY <1>0, <1>1, <1>5 DEF InStep
  <2>2. \A k \in 1 .. Len(s) : k \in 1 .. Len(t)
    BY <1>0
  <2> QED
    BY <1>0, <1>2, <2>1, <2>2
<1>6. ASSUME Clean(p, c, t, x), p.opens # c.n
      PROVE  \E k \in 1 .. Len(t) : /\ IsFirst(t[k]) /\ t[k].path = c.cursor
                                    /\ \E j \in 1 .. k - 1 : t[j].kind = "Opened" /\ t[j].n = c.n
  <2>1. PICK k \in 1 .. Len(s) : /\ IsFirst(s[k]) /\ s[k].path = b.cursor
                                 /\ \E j \in 1 .. k - 1 : s[j].kind = "Opened" /\ s[j].n = b.n
    BY <1>0, <1>1, <1>6 DEF InStep
  <2>2. k \in 1 .. Len(t) /\ t[k] = s[k] /\ \A j \in 1 .. k - 1 : t[j] = s[j]
    BY <1>0
  <2> QED
    BY <1>0, <2>1, <2>2
<1>7. /\ Travelled(p, c) => /\ \A k \in 1 .. Len(i) : i[k].n = c.n
                            /\ \A k \in 1 .. Len(c.queue) : c.queue[k].n = c.n
      /\ Clean(p, b, s, x) => \A k \in 1 .. Len(c.queue) : c.queue[k].kind = "List" => c.queue[k].n = c.n
  BY ZenonT(40), CleanLonger
<1>8. ~x => p.shown \in {{}, {p.path}}
  BY DEF InStep
<1> QED
  BY <1>1, <1>4, <1>5, <1>6, <1>7, <1>8 DEF InStep

\* Whatever a browser sends.
LEMMA SendKeeps ==
  ASSUME NEW p \in PaneRec, NEW i \in Seq(Commands), NEW b \in BrowserRec, NEW c, NEW s \in Seq(Events), NEW t,
         NEW e \in Events, NEW x \in BOOLEAN, NEW fs \in [Dirs -> Nat],
         Good(p, i, b, s, x, fs), Longer(s, t, e), Sends(b, c, e), b.st # "dead" \/ c.st = "dead", e.kind # "Changed",
         e.kind = "Page" => e.ver = fs[e.path] /\ c.cursor = e.path /\ c.st = "ready",
         e.kind # "Page" \/ ~IsFirst(e) => (c.st = "ready" => b.st = "ready"),
         e.kind # "Page" \/ e.append => c.cursor = b.cursor,
         e.kind = "Page" /\ e.id # Nil =>
            /\ e.append <=> Head(b.queue).kind = "LoadMore"
            /\ ~e.append => Head(b.queue).kind = "List" /\ e.path = Resolved[Head(b.queue).path]
  PROVE  Good(p, i, c, t, x, fs)
<1>0. /\ InTurn(b, s) /\ Numbered(p, b, s) /\ Asked(p, i, b, s) /\ FirstPages(p, i, b, s)
      /\ Expected(p, i, b) /\ Answered(p, s) /\ InStep(p, i, b, s, x) /\ Lined(p) /\ Owes(p, s, fs)
  BY DEF Good
<1>1. InTurn(c, t) /\ Numbered(p, c, t) /\ Asked(p, i, c, t)
  BY <1>0, TurnLonger, NumberedLonger, AskedLonger
<1>2. FirstPages(p, i, c, t)
  BY <1>0, FirstLonger
<1>3. Expected(p, i, c)
  BY <1>0, ExpectedLonger
<1>4. Answered(p, t)
  BY <1>0, AnsweredLonger
<1>5. Owes(p, t, fs)
  BY <1>0, OwesLonger
<1>6. InStep(p, i, c, t, x)
  <2>1. CASE e.kind # "Page"
    BY <1>0, <2>1, StepSilent
  <2>2. CASE IsFirst(e)
    BY <1>0, <2>2, StepFirst DEF IsFirst
  <2>3. CASE e.kind = "Page" /\ e.id # Nil
    <3>1. b.st = "ready"
      BY <2>3 DEF IsFirst
    <3>2. CASE e.append
      BY <1>0, <2>3, <3>1, <3>2, StepMore
    <3>3. CASE ~e.append
      BY <1>0, <2>3, <3>1, <3>3, StepListed
    <3> QED
      BY <3>2, <3>3
  <2> QED
    BY <2>1, <2>2, <2>3 DEF IsFirst
<1> QED
  BY <1>0, <1>1, <1>2, <1>3, <1>4, <1>5, <1>6 DEF Good

-----------------------------------------------------------------------------
(* What the pane asks for keeps the invariant.                              *)

\* A new request makes every answer on its way obsolete.
Renewed(p, q) ==
  /\ q.id = p.id + 1 /\ q.opens = p.opens /\ q.path = p.path /\ q.shown = p.shown /\ q.more = p.more
  /\ q.back = p.back /\ q.fwd = p.fwd

\* A request that the pane makes or keeps to itself.
LEMMA RequestKeeps ==
  ASSUME NEW p \in PaneRec, NEW q \in PaneRec, NEW i \in Seq(Commands), NEW j, NEW b \in BrowserRec,
         NEW s \in Seq(Events), NEW x \in BOOLEAN, NEW fs \in [Dirs -> Nat],
         Good(p, i, b, s, x, fs), ~p.loading, Renewed(p, q), ~Opening(q), q.loading \/ q.nav = Nil, NavigationFits(q),
         ~q.open \/ q.path = Nil => q.owed = 0, q.path # Nil => q.owed <= fs[q.path],
         j = i \/ \E c \in Commands : j = Append(i, c) /\ c.id = q.id /\ c.n = q.opens /\ Meant(q, c)
  PROVE  Good(q, j, b, s, x, fs)
<1>0. /\ InTurn(b, s) /\ Numbered(p, b, s) /\ Asked(p, i, b, s) /\ FirstPages(p, i, b, s)
      /\ Expected(p, i, b) /\ Answered(p, s) /\ InStep(p, i, b, s, x) /\ Lined(p) /\ Owes(p, s, fs)
  BY DEF Good
<1>1. /\ p.id \in Nat /\ q.id = p.id + 1 /\ q.opens = p.opens /\ p.opens \in Nat /\ q.path = p.path /\ q.shown = p.shown
      /\ q.more = p.more /\ q.back = p.back /\ q.fwd = p.fwd /\ q.id # Nil /\ q.id \in Nat
      /\ b.queue \in Seq(Commands) /\ Len(s) \in Nat /\ Len(i) \in Nat
  BY SMTT(40), BrowserAssumption DEF Renewed, PaneRec, BrowserRec
<1>2. /\ \A k \in 1 .. Len(j) : \/ k \in 1 .. Len(i) /\ j[k] = i[k]
                                \/ k = Len(j) /\ j[k].id = q.id /\ j[k].n = q.opens /\ Meant(q, j[k])
  <2>1. CASE j = i
    BY <2>1
  <2>2. CASE j # i
    <3>1. PICK c \in Commands : j = Append(i, c) /\ c.id = q.id /\ c.n = q.opens /\ Meant(q, c)
      BY <2>2
    <3>2. Len(j) = Len(i) + 1 /\ j[Len(i) + 1] = c /\ \A k \in 1 .. Len(i) : j[k] = i[k]
      BY <3>1
    <3> QED
      BY <3>1, <3>2, <1>1
  <2> QED
    BY <2>1, <2>2
<1>3. /\ \A k \in 1 .. Len(i) : i[k].id \in Nat /\ i[k].id <= p.id /\ i[k].id < q.id /\ i[k].n <= q.opens
      /\ \A k \in 1 .. Len(b.queue) : /\ b.queue[k].id \in Nat /\ b.queue[k].id <= p.id /\ b.queue[k].id < q.id
                                      /\ b.queue[k].n <= q.opens
  <2>1. \A k \in 1 .. Len(i) : i[k].id \in Nat /\ i[k].id <= p.id /\ i[k].n <= q.opens
    BY <1>0, <1>1, CommandFacts DEF Asked
  <2>2. \A k \in 1 .. Len(b.queue) : b.queue[k].id \in Nat /\ b.queue[k].id <= p.id /\ b.queue[k].n <= q.opens
    BY <1>0, <1>1, CommandFacts DEF Asked
  <2> QED
    BY SMTT(40), <2>1, <2>2, <1>1
<1>4. \A k \in 1 .. Len(s) : s[k].kind \in {"Page", "Failed"} /\ s[k].id # Nil => s[k].id <= p.id /\ s[k].id # q.id
  <2> SUFFICES ASSUME NEW k \in 1 .. Len(s), s[k].kind \in {"Page", "Failed"}, s[k].id # Nil
               PROVE  s[k].id <= p.id /\ s[k].id # q.id
    OBVIOUS
  <2>1. s[k].id \in Nat /\ s[k].id <= p.id
    BY <1>0, EventFacts DEF Asked
  <2> QED
    BY <2>1, <1>1
<1>5. Numbered(q, b, s)
  BY <1>0, <1>1 DEF Numbered
<1>6. Asked(q, j, b, s)
  <2>1. \A k \in 1 .. Len(j) : /\ j[k].id <= q.id /\ j[k].n <= q.opens
                               /\ j[k].id = q.id => j[k].n = q.opens /\ k = Len(j)
    BY SMTT(40), <1>1, <1>2, <1>3
  <2>2. \A k \in 1 .. Len(b.queue) : b.queue[k].id <= q.id /\ b.queue[k].id # q.id /\ b.queue[k].n <= q.opens
    BY <1>1, <1>3
  <2>3. ASSUME NEW k \in 1 .. Len(s), s[k].kind \in {"Page", "Failed"}, s[k].id # Nil
        PROVE  s[k].id <= q.id /\ s[k].id # q.id
    <3>1. s[k].id \in Nat /\ s[k].id <= p.id
      BY <2>3, <1>4, EventFacts
    <3> QED
      BY <3>1, <1>1
  <2>4. b.st = "dead" => b.queue = <<>>
    BY <1>0 DEF Asked
  <2> QED
    BY <2>1, <2>2, <2>3, <2>4 DEF Asked
<1>7. FirstPages(q, j, b, s)
  BY <1>0, <1>1 DEF FirstPages, Opening
<1>8. Expected(q, j, b)
  <2>1. b.st # "dead" => /\ \A k \in 1 .. Len(i) : i[k].n # b.n
                         /\ \A k \in 1 .. Len(b.queue) : b.queue[k].n # b.n
    BY <1>0 DEF Expected, Meant
  <2> QED
    BY <2>1, <1>2 DEF Expected
<1>9. \A k \in 1 .. Len(s) : ~AnswerAt(q, s, k) /\ ~AnswerAt(p, s, k)
  BY <1>0, <1>1, <1>4 DEF AnswerAt, Answered
<1>10. Answered(q, s)
  BY <1>9 DEF Answered
<1>11. InStep(q, j, b, s, x)
  <2>1. Travelled(q, b) <=> Travelled(p, b)
    BY <1>1 DEF Travelled
  <2>2. Travelled(q, b) => /\ \A k \in 1 .. Len(j) : j[k].n = b.n
                           /\ \A k \in 1 .. Len(b.queue) : b.queue[k].n = b.n
    <3>1. Travelled(p, b) => /\ \A k \in 1 .. Len(i) : i[k].n = b.n
                             /\ \A k \in 1 .. Len(b.queue) : b.queue[k].n = b.n
      BY <1>0 DEF InStep
    <3> QED
      BY <2>1, <3>1, <1>2 DEF Travelled
  <2>3. Clean(q, b, s, x) => Clean(p, b, s, x)
    BY <2>1, <1>9 DEF Clean
  <2>4. ASSUME Clean(q, b, s, x), b.st = "ready", q.opens = b.n
        PROVE  /\ \A k \in 1 .. Len(s) : Pending(q, s[k]) => s[k].path = b.cursor
               /\ (\A k \in 1 .. Len(s) : ~Pending(q, s[k])) => b.cursor = q.path
    <3>1. /\ \A k \in 1 .. Len(s) : Pending(p, s[k]) => s[k].path = b.cursor
          /\ (\A k \in 1 .. Len(s) : ~Pending(p, s[k])) => b.cursor = p.path
      BY <1>0, <1>1, <2>3, <2>4 DEF InStep
    <3>2. ~OpenedIn(s, 0, Len(s) + 1)
      BY <1>0, <1>1, <2>4, SeenOpened
    <3>3. \A k \in 1 .. Len(s) : ~OpenedIn(s, 0, k)
      BY <1>1, <3>2 DEF OpenedIn
    <3>4. \A k \in 1 .. Len(s) : s[k].kind = "Page" => s[k].id # p.id
      BY <1>9, <3>3 DEF AnswerAt
    <3>5. \A k \in 1 .. Len(s) : Pending(p, s[k]) <=> Pending(q, s[k])
      BY <1>4, <3>4 DEF Pending
    <3> QED
      BY <3>1, <3>5, <1>1
  <2>5. q.opens = p.opens /\ q.shown = p.shown /\ q.path = p.path
    BY <1>1
  <2>6. Clean(p, b, s, x) =>
       /\ \A k \in 1 .. Len(b.queue) : b.queue[k].kind = "List" => b.queue[k].n = b.n
       /\ b.st = "ready" /\ q.opens # b.n =>
            \E k \in 1 .. Len(s) : /\ IsFirst(s[k]) /\ s[k].path = b.cursor
                                   /\ \E l \in 1 .. k - 1 : s[l].kind = "Opened" /\ s[l].n = b.n
    BY <1>0, <2>5 DEF InStep
  <2>7. ~x => q.shown \in {{}, {q.path}}
    BY <1>0, <2>5 DEF InStep
  <2> QED
    BY <2>2, <2>3, <2>4, <2>6, <2>7, <1>9 DEF InStep
<1>12. Lined(q)
  BY <1>0, <1>1 DEF Lined
<1>13. Owes(q, s, fs)
  BY <1>0, <1>1, <1>9 DEF Owes
<1> QED
  BY <1>0, <1>5, <1>6, <1>7, <1>8, <1>10, <1>11, <1>12, <1>13 DEF Good

\* What the pane notes about changes touches nothing else.
LEMMA NoteKeeps ==
  ASSUME NEW p \in PaneRec, NEW q \in PaneRec, NEW i \in Seq(Commands), NEW b, NEW s, NEW x, NEW fs,
         Good(p, i, b, s, x, fs), Owes(q, s, fs),
         q.open = p.open, q.loading = p.loading, q.id = p.id, q.nav = p.nav, q.path = p.path, q.shown = p.shown,
         q.more = p.more, q.back = p.back, q.fwd = p.fwd, q.opens = p.opens
  PROVE  Good(q, i, b, s, x, fs)
<1>0. /\ InTurn(b, s) /\ Numbered(p, b, s) /\ Asked(p, i, b, s) /\ FirstPages(p, i, b, s)
      /\ Expected(p, i, b) /\ Answered(p, s) /\ InStep(p, i, b, s, x) /\ Lined(p)
  BY DEF Good
<1>1. \A k \in 1 .. Len(s) : AnswerAt(q, s, k) <=> AnswerAt(p, s, k)
  BY DEF AnswerAt
<1>2. Numbered(q, b, s) /\ Asked(q, i, b, s)
  BY <1>0 DEF Numbered, Asked
<1>3. FirstPages(q, i, b, s) /\ Expected(q, i, b) /\ Answered(q, s)
  BY <1>0, <1>1 DEF FirstPages, Opening, Expected, Meant, Answered
<1>4. InStep(q, i, b, s, x)
  <2>1. Travelled(q, b) <=> Travelled(p, b)
    BY DEF Travelled
  <2>2. Clean(q, b, s, x) <=> Clean(p, b, s, x)
    BY <1>1, <2>1 DEF Clean
  <2>3. \A k \in 1 .. Len(s) : Pending(q, s[k]) <=> Pending(p, s[k])
    BY DEF Pending
  <2> QED
    BY <1>0, <1>1, <2>1, <2>2, <2>3 DEF InStep
<1>5. Lined(q)
  BY <1>0 DEF Lined, NavigationFits
<1> QED
  BY <1>0, <1>2, <1>3, <1>4, <1>5 DEF Good

-----------------------------------------------------------------------------
(* What the loop does keeps the invariant.                                  *)

\* A command goes on to the browser.
LEMMA QueueKeeps ==
  ASSUME NEW p \in PaneRec, NEW i \in Seq(Commands), NEW j, NEW b \in BrowserRec, NEW c, NEW s \in Seq(Events),
         NEW x \in BOOLEAN, NEW y \in BOOLEAN, NEW fs,
         Good(p, i, b, s, x, fs), i # <<>>, j = Tail(i), b.st # "dead",
         c.st = b.st, c.n = b.n, c.cursor = b.cursor, c.queue = Append(b.queue, Head(i)),
         y = (x \/ (Head(i).kind = "List" /\ Head(i).n # b.n))
  PROVE  Good(p, j, c, s, y, fs)
<1>0. /\ InTurn(b, s) /\ Numbered(p, b, s) /\ Asked(p, i, b, s) /\ FirstPages(p, i, b, s)
      /\ Expected(p, i, b) /\ Answered(p, s) /\ InStep(p, i, b, s, x) /\ Lined(p) /\ Owes(p, s, fs)
  BY DEF Good
<1>1. /\ Len(i) \in Nat /\ Len(j) = Len(i) - 1 /\ j \in Seq(Commands) /\ \A k \in 1 .. Len(j) : k + 1 \in 1 .. Len(i) /\ j[k] = i[k + 1]
      /\ 1 \in 1 .. Len(i) /\ Head(i) = i[1]
  BY DEF BrowserRec
<1>2. /\ Len(c.queue) = Len(b.queue) + 1 /\ Len(b.queue) \in Nat /\ c.queue[Len(b.queue) + 1] = i[1]
      /\ \A k \in 1 .. Len(b.queue) : c.queue[k] = b.queue[k]
      /\ \A k \in 1 .. Len(c.queue) : k \in 1 .. Len(b.queue) \/ k = Len(b.queue) + 1
  <2>1. PICK q \in Seq(Commands) : q = b.queue
    BY DEF BrowserRec
  <2>2. PICK r \in Commands : r = i[1]
    BY <1>1
  <2>3. /\ Len(Append(q, r)) = Len(q) + 1 /\ Len(q) \in Nat /\ Append(q, r)[Len(q) + 1] = r
        /\ \A k \in 1 .. Len(q) : Append(q, r)[k] = q[k]
    OBVIOUS
  <2>4. c.queue = Append(q, r)
    BY <2>1, <2>2, <1>1
  <2> QED
    BY <2>1, <2>2, <2>3, <2>4
<1>3. p.id \in Nat /\ p.id # Nil
  BY BrowserAssumption DEF PaneRec
<1>4. InTurn(c, s) /\ Numbered(p, c, s)
  BY <1>0 DEF InTurn, Numbered
<1>5. \A k \in 1 .. Len(b.queue) : b.queue[k].id # p.id
  <2>1. \A k \in 1 .. Len(b.queue) : b.queue[k].id = p.id => i = <<>>
    BY <1>0 DEF Asked
  <2> QED
    BY <2>1
<1>6. \A k \in 1 .. Len(s) : s[k].kind \in {"Page", "Failed"} => s[k].id # p.id
  <2>1. \A k \in 1 .. Len(s) : s[k].kind \in {"Page", "Failed"} /\ s[k].id # Nil /\ s[k].id = p.id => i = <<>>
    BY <1>0 DEF Asked
  <2> QED
    BY <2>1, <1>3
<1>7. Asked(p, j, c, s)
  <2>1. \A k \in 1 .. Len(j) : /\ j[k].id <= p.id /\ j[k].n <= p.opens
                               /\ j[k].id = p.id => j[k].n = p.opens /\ k = Len(j)
    <3> SUFFICES ASSUME NEW k \in 1 .. Len(j)
                 PROVE  /\ j[k].id <= p.id /\ j[k].n <= p.opens
                        /\ j[k].id = p.id => j[k].n = p.opens /\ k = Len(j)
      OBVIOUS
    <3>1. PICK l \in 1 .. Len(i) : l = k + 1 /\ j[k] = i[l]
      BY <1>1
    <3>2. i[l].id <= p.id /\ i[l].n <= p.opens /\ (i[l].id = p.id => i[l].n = p.opens /\ l = Len(i))
      BY <1>0 DEF Asked
    <3> QED
      BY <3>1, <3>2, <1>1
  <2>2. i[1].id <= p.id /\ i[1].n <= p.opens /\ (i[1].id = p.id => i[1].n = p.opens /\ 1 = Len(i))
    BY <1>0, <1>1 DEF Asked
  <2>3. 1 = Len(i) => j = <<>>
    BY <1>1, EmptySeq
  <2>4. \A k \in 1 .. Len(c.queue) : /\ c.queue[k].id <= p.id /\ c.queue[k].n <= p.opens
                                     /\ c.queue[k].id = p.id => c.queue[k].n = p.opens /\ k = Len(c.queue) /\ j = <<>>
    <3> SUFFICES ASSUME NEW k \in 1 .. Len(c.queue)
                 PROVE  /\ c.queue[k].id <= p.id /\ c.queue[k].n <= p.opens
                        /\ c.queue[k].id = p.id => c.queue[k].n = p.opens /\ k = Len(c.queue) /\ j = <<>>
      OBVIOUS
    <3>1. CASE k \in 1 .. Len(b.queue)
      BY <3>1, <1>0, <1>2, <1>5 DEF Asked
    <3>2. CASE k = Len(b.queue) + 1
      BY <3>2, <1>2, <2>2, <2>3
    <3> QED
      BY <3>1, <3>2, <1>2
  <2>5. \A k \in 1 .. Len(s) : s[k].kind \in {"Page", "Failed"} /\ s[k].id # Nil => s[k].id <= p.id
    BY <1>0 DEF Asked
  <2> QED
    BY <2>1, <2>4, <2>5, <1>6 DEF Asked
<1>8. FirstPages(p, j, c, s)
  BY <1>0, <1>1, <1>2 DEF FirstPages
<1>9. Expected(p, j, c)
  BY <1>0, <1>1, <1>2 DEF Expected
<1>10. InStep(p, j, c, s, y)
  <2>1. Travelled(p, c) <=> Travelled(p, b)
    BY DEF Travelled
  <2>2. Travelled(p, c) => /\ \A k \in 1 .. Len(j) : j[k].n = c.n
                           /\ \A k \in 1 .. Len(c.queue) : c.queue[k].n = c.n
    <3>1. Travelled(p, b) => /\ \A k \in 1 .. Len(i) : i[k].n = b.n
                             /\ \A k \in 1 .. Len(b.queue) : b.queue[k].n = b.n
      BY <1>0 DEF InStep
    <3> QED
      BY <2>1, <3>1, <1>1, <1>2
  <2>3. \A k \in 1 .. Len(s) : ~AnswerAt(p, s, k)
    BY <1>6 DEF AnswerAt
  <2>4. Clean(p, c, s, y) => Clean(p, b, s, x) /\ (i[1].kind = "List" => i[1].n = c.n)
    <3>1. Clean(p, c, s, y) => ~y \/ Travelled(p, b)
      BY <2>1, <2>3 DEF Clean
    <3>2. Travelled(p, b) => i[1].n = b.n
      BY <1>0, <1>1 DEF InStep
    <3> QED
      BY <3>1, <3>2, <1>1 DEF Clean
  <2>5. ASSUME Clean(p, c, s, y), NEW k \in 1 .. Len(c.queue), c.queue[k].kind = "List" PROVE c.queue[k].n = c.n
    <3>1. \A l \in 1 .. Len(b.queue) : b.queue[l].kind = "List" => b.queue[l].n = b.n
      BY <2>4, <2>5, <1>0 DEF InStep
    <3> QED
      BY <2>4, <2>5, <3>1, <1>2
  <2>6. ~y => ~x
    OBVIOUS
  <2> QED
    BY <1>0, <2>2, <2>3, <2>4, <2>5, <2>6 DEF InStep
<1> QED
  BY <1>0, <1>4, <1>7, <1>8, <1>9, <1>10 DEF Good

\* The handshakes on their way are of earlier browsers.
Earlier(s, n) == \A k \in 1 .. Len(s) : s[k].kind = "Opened" => s[k].n < n

\* A browser opened in the place of one that ended knows no request.
LEMMA ReopenKeeps ==
  ASSUME NEW p \in PaneRec, NEW i \in Seq(Commands), NEW b, NEW c \in BrowserRec, NEW s \in Seq(Events),
         NEW x \in BOOLEAN, NEW fs,
         Good(p, i, b, s, x, fs), c.st = "init", c.queue = <<>>, p.opens < c.n, Earlier(s, c.n)
  PROVE  Good(p, i, c, s, x, fs)
<1>0. /\ InTurn(b, s) /\ Numbered(p, b, s) /\ Asked(p, i, b, s) /\ FirstPages(p, i, b, s)
      /\ Expected(p, i, b) /\ Answered(p, s) /\ InStep(p, i, b, s, x) /\ Lined(p) /\ Owes(p, s, fs)
  BY DEF Good
<1>1. p.opens \in Nat /\ c.n \in Nat /\ \A k \in 1 .. Len(s) : s[k].kind = "Opened" => s[k].n \in Nat
  BY EventFacts DEF PaneRec, BrowserRec
<1>2. \A k \in 1 .. Len(i) : i[k].n \in Nat /\ i[k].n <= p.opens
  BY <1>0, CommandFacts DEF Asked
<1>3. InTurn(c, s) /\ Asked(p, i, c, s) /\ FirstPages(p, i, c, s)
  BY <1>0 DEF InTurn, Asked, FirstPages
<1>4. Numbered(p, c, s)
  BY <1>0, <1>1 DEF Numbered, Earlier
<1>5. Expected(p, i, c)
  BY <1>1, <1>2 DEF Expected
<1>6. InStep(p, i, c, s, x)
  <2>1. ~Travelled(p, c)
    BY <1>1 DEF Travelled
  <2>2. c.st # "ready" /\ Len(c.queue) = 0
    OBVIOUS
  <2> QED
    BY <1>0, <2>1, <2>2 DEF InStep
<1> QED
  BY <1>0, <1>3, <1>4, <1>5, <1>6 DEF Good

\* Directories only change.
LEMMA ChangeKeeps ==
  ASSUME NEW p \in PaneRec, NEW i, NEW b, NEW s \in Seq(Events), NEW x,
         NEW fs \in [Dirs -> Nat], NEW gs \in [Dirs -> Nat],
         Good(p, i, b, s, x, fs), \A d \in Dirs : fs[d] <= gs[d]
  PROVE  Good(p, i, b, s, x, gs)
<1>1. Owes(p, s, fs)
  BY DEF Good
<1>2. p.owed \in Nat /\ (p.path # Nil => p.path \in Dirs)
  BY DEF PaneRec
<1>3. p.path # Nil => p.owed <= gs[p.path]
  BY <1>1, <1>2 DEF Owes
<1>4. ASSUME NEW k \in 1 .. Len(s), s[k].kind \in {"Page", "Changed"} PROVE s[k].ver <= gs[s[k].path]
  <2>1. s[k].ver \in Nat /\ s[k].path \in Dirs
    BY <1>4, EventFacts
  <2>2. s[k].ver <= fs[s[k].path]
    BY <1>1, <1>4 DEF Owes
  <2> QED
    BY <2>1, <2>2
<1>5. Owes(p, s, gs)
  BY <1>1, <1>3, <1>4 DEF Owes
<1> QED
  BY <1>5 DEF Good

\* What the loop itself reports: a change, or a command that no browser takes.
Reports(i, j, b, e, fs) ==
  \/ e.kind = "Changed" /\ e.ver <= fs[e.path] /\ j = i
  \/ e.kind = "Failed" /\ i # <<>> /\ e.id = Head(i).id /\ j = Tail(i) /\ b.st = "dead"

\* The loop refuses a command when the browser has ended, or reports a change; both come
\* before what the browser has sent and the loop has not forwarded.
LEMMA InsertKeeps ==
  ASSUME NEW p \in PaneRec, NEW i \in Seq(Commands), NEW j, NEW b \in BrowserRec, NEW s \in Seq(Events), NEW t, NEW n,
         NEW e \in Events, NEW x \in BOOLEAN, NEW fs \in [Dirs -> Nat],
         Good(p, i, b, s, x, fs), Inserted(s, t, n, e),
         Reports(i, j, b, e, fs)
  PROVE  Good(p, j, b, t, x, fs)
<1> USE DEF Reports
<1>0. /\ InTurn(b, s) /\ Numbered(p, b, s) /\ Asked(p, i, b, s) /\ FirstPages(p, i, b, s)
      /\ Expected(p, i, b) /\ Answered(p, s) /\ InStep(p, i, b, s, x) /\ Lined(p) /\ Owes(p, s, fs)
  BY DEF Good
<1>1. e.kind = "Failed" => e.id \in Nat /\ e.id # Nil /\ 1 \in 1 .. Len(i) /\ e.id = i[1].id
  <2>1. i # <<>> => 1 \in 1 .. Len(i) /\ Head(i) = i[1] /\ i[1] \in Commands
    OBVIOUS
  <2>2. i # <<>> => Head(i).id \in Nat /\ Head(i) = i[1] /\ 1 \in 1 .. Len(i)
    BY <2>1, CommandFacts
  <2> QED
    BY <2>2, BrowserAssumption
<1>2. e.kind # "Opened" /\ e.kind # "Page" /\ ~IsEnd(e)
  BY <1>1 DEF IsEnd
<1>3. PICK f \in [1 .. Len(s) + 1 -> 1 .. Len(t) + 1] :
            /\ f[Len(s) + 1] = Len(t) + 1
            /\ \A k \in 1 .. Len(s) : f[k] \in 1 .. Len(t) /\ t[f[k]] = s[k]
            /\ \A k \in 1 .. Len(t) : k = n + 1 \/ \E l \in 1 .. Len(s) : f[l] = k
            /\ \A k, l \in 1 .. Len(s) + 1 : (k < l <=> f[k] < f[l]) /\ (k = l <=> f[k] = f[l])
            /\ \A k, l \in 1 .. Len(s) + 1 : OpenedIn(t, f[k], f[l]) <=> OpenedIn(s, k, l)
            /\ \A k \in 1 .. Len(s) + 1 : OpenedIn(t, 0, f[k]) <=> OpenedIn(s, 0, k)
            /\ \A k \in 1 .. Len(s) + 1 : (Fresh(s, k) => Fresh(t, f[k])) /\ (FreshFirst(s, k) => FreshFirst(t, f[k]))
  BY SMTT(40), <1>2, OpenedInserted
<1>4. /\ Len(s) \in Nat /\ n + 1 \in 1 .. Len(t) /\ t[n + 1] = e /\ Len(t) \in Nat /\ Len(s) + 1 \in 1 .. Len(s) + 1
      /\ \A k \in 1 .. Len(s) : k \in 1 .. Len(s) + 1
  BY DEF Inserted
<1>5. \A k \in 1 .. Len(t) : t[k] = e \/ \E l \in 1 .. Len(s) : f[l] = k /\ t[k] = s[l]
  BY <1>3, <1>4
<1>6. p.id \in Nat /\ p.id # Nil /\ p.opens \in Nat /\ Len(i) \in Nat
  BY BrowserAssumption DEF PaneRec
<1>7. \A k \in 1 .. Len(j) : \E l \in 1 .. Len(i) : j[k] = i[l] /\ (l = Len(i) => k = Len(j))
  <2>1. CASE j = i
    BY <2>1
  <2>2. CASE i # <<>> /\ j = Tail(i)
    <3>1. Len(j) = Len(i) - 1 /\ \A k \in 1 .. Len(j) : k + 1 \in 1 .. Len(i) /\ j[k] = i[k + 1]
      BY <2>2
    <3>2. ASSUME NEW k \in 1 .. Len(j) PROVE \E l \in 1 .. Len(i) : j[k] = i[l] /\ (l = Len(i) => k = Len(j))
      <4>1. k + 1 \in 1 .. Len(i) /\ j[k] = i[k + 1] /\ (k + 1 = Len(i) => k = Len(j))
        BY <3>1, <1>6
      <4> QED
        BY <4>1
    <3> QED
      BY <3>2
  <2> QED
    BY <2>1, <2>2
<1>8. InTurn(b, t)
  <2>1. \A k \in 1 .. Len(t) : (t[k].kind = "Page" => Fresh(t, k)) /\ (IsFirst(t[k]) => FreshFirst(t, k))
    <3> SUFFICES ASSUME NEW k \in 1 .. Len(t), t[k].kind = "Page"
                 PROVE  Fresh(t, k) /\ (IsFirst(t[k]) => FreshFirst(t, k))
      BY DEF IsFirst
    <3>1. PICK l \in 1 .. Len(s) : f[l] = k /\ t[k] = s[l]
      BY <1>2, <1>5
    <3> QED
      BY <3>1, <1>0, <1>3, <1>4 DEF InTurn
  <2> QED
    BY <2>1, <1>0, <1>3, <1>4 DEF InTurn
<1>9. Numbered(p, b, t)
  <2>1. ASSUME NEW k \in 1 .. Len(t), t[k].kind = "Opened"
        PROVE  /\ p.opens < t[k].n /\ t[k].n <= b.n /\ (b.st = "init" => t[k].n < b.n)
               /\ \A l \in 1 .. k - 1 : t[l].kind = "Opened" => t[l].n < t[k].n
    <3>1. PICK m \in 1 .. Len(s) : f[m] = k /\ t[k] = s[m]
      BY <1>2, <1>5, <2>1
    <3>2. ASSUME NEW l \in 1 .. k - 1, t[l].kind = "Opened" PROVE t[l].n < t[k].n
      <4>1. l \in 1 .. Len(t)
        BY <1>4
      <4>2. PICK o \in 1 .. Len(s) : f[o] = l /\ t[l] = s[o]
        BY <4>1, <1>2, <1>5, <3>2
      <4>3. o < m
        BY <3>1, <4>2, <1>3, <1>4
      <4> QED
        BY <4>2, <4>3, <3>1, <3>2, <2>1, <1>0 DEF Numbered
    <3> QED
      BY <3>1, <3>2, <2>1, <1>0 DEF Numbered
  <2>2. (\E k \in 1 .. Len(s) : s[k].kind = "Opened" /\ s[k].n = b.n) =>
           \E k \in 1 .. Len(t) : t[k].kind = "Opened" /\ t[k].n = b.n
    BY <1>3
  <2> QED
    BY <1>0, <2>1, <2>2 DEF Numbered
<1>10. Asked(p, j, b, t)
  <2>1. \A k \in 1 .. Len(j) : /\ j[k].id <= p.id /\ j[k].n <= p.opens
                               /\ j[k].id = p.id => j[k].n = p.opens /\ k = Len(j)
    BY <1>0, <1>7 DEF Asked
  <2>2. i = <<>> => j = <<>>
    BY <1>1
  <2>3. ASSUME e.kind = "Failed"
        PROVE  /\ e.id <= p.id
               /\ e.id = p.id => j = <<>> /\ \A k \in 1 .. Len(s) : ~AnswersTo(s[k], p.id)
               /\ b.queue = <<>>
    <3>1. e.id <= p.id /\ (e.id = p.id => 1 = Len(i))
      BY <1>0, <1>1, <2>3 DEF Asked
    <3>2. 1 = Len(i) => j = <<>>
      <4>1. i # <<>> => Tail(i) \in Seq(Commands) /\ Len(Tail(i)) = Len(i) - 1
        OBVIOUS
      <4> QED
        BY <4>1, <2>3, EmptySeq
    <3>3. e.id = p.id => \A k \in 1 .. Len(s) : ~AnswersTo(s[k], p.id)
      BY <1>0, <1>6, <2>3 DEF Asked, AnswersTo
    <3>4. b.queue = <<>>
      BY <1>0, <2>3 DEF Asked
    <3> QED
      BY <3>1, <3>2, <3>3, <3>4
  <2>4. ASSUME NEW k \in 1 .. Len(t), t[k].kind \in {"Page", "Failed"}, t[k].id # Nil
        PROVE  /\ t[k].id <= p.id
               /\ t[k].id = p.id => /\ j = <<>> /\ b.queue = <<>>
                                    /\ \A l \in 1 .. Len(t) : AnswersTo(t[l], p.id) => l = k
    <3>1. CASE k = n + 1
      <4>1. t[k] = e /\ e.kind = "Failed"
        BY <3>1, <1>2, <1>4, <2>4
      <4>2. ASSUME e.id = p.id, NEW l \in 1 .. Len(t), AnswersTo(t[l], p.id) PROVE l = k
        <5>1. CASE l # n + 1
          <6>1. PICK m \in 1 .. Len(s) : f[m] = l
            BY <5>1, <1>3
          <6>2. t[l] = s[m]
            BY <6>1, <1>3
          <6> QED
            BY <6>2, <4>1, <4>2, <2>3
        <5> QED
          BY <5>1, <3>1
      <4> QED
        BY <4>1, <4>2, <2>3
    <3>2. CASE k # n + 1
      <4>1. PICK m \in 1 .. Len(s) : f[m] = k
        BY <3>2, <1>3
      <4>2. t[k] = s[m]
        BY <4>1, <1>3
      <4>3. s[m].id <= p.id
        BY <4>2, <2>4, <1>0 DEF Asked
      <4>4. ASSUME s[m].id = p.id
            PROVE  i = <<>> /\ b.queue = <<>> /\ \A l \in 1 .. Len(s) : AnswersTo(s[l], p.id) => l = m
        BY <4>2, <4>4, <2>4, <1>0 DEF Asked
      <4>5. ASSUME s[m].id = p.id, NEW l \in 1 .. Len(t), AnswersTo(t[l], p.id) PROVE l = k
        <5>1. e.kind # "Failed"
          BY <4>4, <4>5, <1>1
        <5>2. t[l] # e
          BY <5>1, <1>2, <4>5 DEF AnswersTo
        <5>3. PICK o \in 1 .. Len(s) : f[o] = l /\ t[l] = s[o]
          BY <5>2, <1>5
        <5>4. o = m
          BY <5>3, <4>4, <4>5
        <5> QED
          BY <5>3, <5>4, <4>1
      <4> QED
        BY <4>2, <4>3, <4>4, <4>5, <2>2
    <3> QED
      BY <3>1, <3>2
  <2>5. \A k \in 1 .. Len(b.queue) : /\ b.queue[k].id <= p.id /\ b.queue[k].n <= p.opens
                                     /\ b.queue[k].id = p.id => b.queue[k].n = p.opens /\ k = Len(b.queue) /\ j = <<>>
    BY <1>0, <2>2 DEF Asked
  <2>6. b.st = "dead" => b.queue = <<>>
    BY <1>0 DEF Asked
  <2> QED
    BY <2>1, <2>4, <2>5, <2>6 DEF Asked
<1>11. \A k \in 1 .. Len(t) : \/ t[k] = e /\ ~AnswerAt(p, t, k)
                              \/ \E l \in 1 .. Len(s) : /\ f[l] = k /\ t[k] = s[l]
                                                        /\ AnswerAt(p, t, k) <=> AnswerAt(p, s, l)
  <2> SUFFICES ASSUME NEW k \in 1 .. Len(t)
               PROVE  \/ t[k] = e /\ ~AnswerAt(p, t, k)
                      \/ \E l \in 1 .. Len(s) : /\ f[l] = k /\ t[k] = s[l]
                                                /\ AnswerAt(p, t, k) <=> AnswerAt(p, s, l)
    OBVIOUS
  <2>1. CASE t[k] = e
    BY <2>1, <1>2 DEF AnswerAt
  <2>2. CASE t[k] # e
    <3>1. PICK l \in 1 .. Len(s) : f[l] = k /\ t[k] = s[l]
      BY <2>2, <1>5
    <3>2. OpenedIn(t, 0, k) <=> OpenedIn(s, 0, l)
      BY <3>1, <1>3, <1>4
    <3> QED
      BY <3>1, <3>2 DEF AnswerAt
  <2> QED
    BY <2>1, <2>2
<1>12. FirstPages(p, j, b, t)
  <2>1. ASSUME Opening(p)
        PROVE  /\ \A k \in 1 .. Len(j) : j[k].id # p.id
               /\ \A k \in 1 .. Len(t) : ~AnswersTo(t[k], p.id)
    <3>1. /\ \A k \in 1 .. Len(i) : i[k].id # p.id
          /\ \A k \in 1 .. Len(s) : ~AnswersTo(s[k], p.id)
      BY <2>1, <1>0 DEF FirstPages
    <3>2. ~AnswersTo(e, p.id)
      BY <3>1, <1>1, <1>2 DEF AnswersTo
    <3>3. \A k \in 1 .. Len(j) : j[k].id # p.id
      BY <3>1, <1>7
    <3>4. ASSUME NEW k \in 1 .. Len(t) PROVE ~AnswersTo(t[k], p.id)
      <4>1. t[k] = e \/ \E l \in 1 .. Len(s) : t[k] = s[l]
        BY <1>5
      <4> QED
        BY <4>1, <3>1, <3>2
    <3> QED
      BY <3>3, <3>4
  <2>2. ASSUME NEW k \in 1 .. Len(t), IsFirst(t[k]) PROVE Opening(p) \/ OpenedIn(t, 0, k)
    <3>1. t[k] # e
      BY <2>2, <1>2 DEF IsFirst
    <3>2. PICK l \in 1 .. Len(s) : f[l] = k /\ t[k] = s[l]
      BY <3>1, <1>5
    <3>3. Opening(p) \/ OpenedIn(s, 0, l)
      BY <3>2, <2>2, <1>0 DEF FirstPages
    <3> QED
      BY <3>2, <3>3, <1>3, <1>4
  <2>3. b.st = "first" => Opening(p) \/ OpenedIn(t, 0, Len(t) + 1)
    <3>1. b.st = "first" => Opening(p) \/ OpenedIn(s, 0, Len(s) + 1)
      BY <1>0 DEF FirstPages
    <3> QED
      BY <3>1, <1>3, <1>4
  <2> QED
    BY <2>1, <2>2, <2>3, <1>0 DEF FirstPages
<1>13. Expected(p, j, b)
  BY <1>0, <1>7 DEF Expected
<1>14. Answered(p, t)
  BY <1>0, <1>11 DEF Answered, AnswerAt
<1>15. InStep(p, j, b, t, x)
  <2>1. Travelled(p, b) => /\ \A k \in 1 .. Len(j) : j[k].n = b.n
                           /\ \A k \in 1 .. Len(b.queue) : b.queue[k].n = b.n
    BY <1>0, <1>7 DEF InStep
  <2>2. Clean(p, b, t, x) => Clean(p, b, s, x)
    BY <1>11 DEF Clean
  <2>3. ASSUME Clean(p, b, t, x), b.st = "ready", p.opens = b.n
        PROVE  /\ \A k \in 1 .. Len(t) : Pending(p, t[k]) => t[k].path = b.cursor
               /\ (\A k \in 1 .. Len(t) : ~Pending(p, t[k])) => b.cursor = p.path
    <3>1. /\ \A k \in 1 .. Len(s) : Pending(p, s[k]) => s[k].path = b.cursor
          /\ (\A k \in 1 .. Len(s) : ~Pending(p, s[k])) => b.cursor = p.path
      BY <1>0, <2>2, <2>3 DEF InStep
    <3>2. ~Pending(p, e)
      BY <1>2 DEF Pending
    <3>3. ASSUME NEW k \in 1 .. Len(t), Pending(p, t[k]) PROVE t[k].path = b.cursor
      <4>1. PICK l \in 1 .. Len(s) : t[k] = s[l]
        BY <3>2, <3>3, <1>5
      <4> QED
        BY <4>1, <3>1, <3>3
    <3>4. ASSUME \A k \in 1 .. Len(t) : ~Pending(p, t[k]) PROVE b.cursor = p.path
      <4>1. \A l \in 1 .. Len(s) : f[l] \in 1 .. Len(t) /\ t[f[l]] = s[l]
        BY <1>3
      <4>2. \A l \in 1 .. Len(s) : ~Pending(p, s[l])
        BY <4>1, <3>4
      <4> QED
        BY <4>2, <3>1
    <3> QED
      BY <3>3, <3>4
  <2>4. ASSUME Clean(p, b, t, x), b.st = "ready", p.opens # b.n
        PROVE  \E k \in 1 .. Len(t) : /\ IsFirst(t[k]) /\ t[k].path = b.cursor
                                      /\ \E l \in 1 .. k - 1 : t[l].kind = "Opened" /\ t[l].n = b.n
    <3>1. PICK k \in 1 .. Len(s) : /\ IsFirst(s[k]) /\ s[k].path = b.cursor
                                   /\ \E l \in 1 .. k - 1 : s[l].kind = "Opened" /\ s[l].n = b.n
      BY <1>0, <2>2, <2>4 DEF InStep
    <3>2. PICK l \in 1 .. k - 1 : s[l].kind = "Opened" /\ s[l].n = b.n
      BY <3>1
    <3>3. l \in 1 .. Len(s) /\ l < k
      BY <1>4
    <3>4. f[k] \in 1 .. Len(t) /\ f[l] \in 1 .. Len(t) /\ f[l] < f[k] /\ t[f[k]] = s[k] /\ t[f[l]] = s[l]
      BY <3>3, <1>3, <1>4
    <3>5. f[l] \in 1 .. f[k] - 1
      BY <3>4
    <3> QED
      BY <3>1, <3>2, <3>4, <3>5
  <2>5. \A k \in 1 .. Len(t) : AnswerAt(p, t, k) /\ t[k].append =>
           t[k].path = p.path \/ (x /\ p.back = <<>> /\ p.fwd = <<>>)
    BY <1>0, <1>11 DEF InStep
  <2>6. Clean(p, b, s, x) => \A k \in 1 .. Len(b.queue) : b.queue[k].kind = "List" => b.queue[k].n = b.n
    BY <1>0 DEF InStep
  <2>7. ~x => p.shown \in {{}, {p.path}}
    BY <1>0 DEF InStep
  <2> QED
    BY <2>1, <2>2, <2>3, <2>4, <2>5, <2>6, <2>7 DEF InStep
<1>16. Owes(p, t, fs)
  <2>1. ASSUME NEW k \in 1 .. Len(t)
        PROVE  /\ AnswerAt(p, t, k) /\ ~t[k].append /\ t[k].path = p.path => t[k].ver >= p.owed \/ p.auto = p.path
               /\ t[k].kind \in {"Page", "Changed"} => t[k].ver <= fs[t[k].path]
    <3>1. CASE t[k] = e /\ ~AnswerAt(p, t, k)
      BY <3>1
    <3>2. CASE \E l \in 1 .. Len(s) : f[l] = k /\ t[k] = s[l] /\ (AnswerAt(p, t, k) <=> AnswerAt(p, s, l))
      BY <3>2, <1>0 DEF Owes
    <3> QED
      BY <3>1, <3>2, <1>11
  <2> QED
    BY <2>1, <1>0 DEF Owes
<1> QED
  BY <1>0, <1>8, <1>9, <1>10, <1>12, <1>13, <1>14, <1>15, <1>16 DEF Good

-----------------------------------------------------------------------------
(* What the pane makes of the next event keeps the invariant.               *)

\* Any event but a handshake leaves the order and the numbers as they are.
LEMMA TailBasics ==
  ASSUME NEW p \in PaneRec, NEW q \in PaneRec, NEW i \in Seq(Commands), NEW b \in BrowserRec,
         NEW s \in Seq(Events), NEW t,
         InTurn(b, s), Numbered(p, b, s), Asked(p, i, b, s), Shorter(s, t), s[1].kind # "Opened",
         q.id = p.id, q.opens = p.opens
  PROVE  /\ InTurn(b, t) /\ Numbered(q, b, t) /\ Asked(q, i, b, t)
         /\ \A k \in 1 .. Len(t) : AnswerAt(q, t, k) <=> AnswerAt(p, s, k + 1)
         /\ \A k \in 1 .. Len(t) + 1 : OpenedIn(t, 0, k) <=> OpenedIn(s, 0, k + 1)
<1>0. /\ Len(s) \in Nat /\ Len(t) = Len(s) - 1 /\ Len(t) \in Nat
      /\ \A k \in 1 .. Len(t) : k + 1 \in 1 .. Len(s) /\ t[k] = s[k + 1]
      /\ \A k \in 1 .. Len(s) : k = 1 \/ \E l \in 1 .. Len(t) : l + 1 = k
  <2>1. Len(s) \in Nat /\ Len(t) = Len(s) - 1 /\ Len(t) \in Nat /\ \A k \in 1 .. Len(t) : k + 1 \in 1 .. Len(s) /\ t[k] = s[k + 1]
    BY DEF Shorter
  <2>2. ASSUME NEW k \in 1 .. Len(s), k # 1 PROVE \E l \in 1 .. Len(t) : l + 1 = k
    <3>1. k - 1 \in 1 .. Len(t) /\ (k - 1) + 1 = k
      BY <2>1, <2>2
    <3> QED
      BY <3>1
  <2> QED
    BY <2>1, <2>2
<1>1. \A k \in 1 .. Len(t) + 1 : OpenedIn(t, 0, k) <=> OpenedIn(s, 0, k + 1)
  BY OpenedShorter
<1>2. \A k \in 1 .. Len(t) : AnswerAt(q, t, k) <=> AnswerAt(p, s, k + 1)
  <2> TAKE k \in 1 .. Len(t)
  <2>1. t[k] = s[k + 1] /\ (OpenedIn(t, 0, k) <=> OpenedIn(s, 0, k + 1))
    BY <1>0, <1>1
  <2> QED
    BY <2>1 DEF AnswerAt
<1>3. InTurn(b, t)
  <2>1. ASSUME NEW k \in 1 .. Len(t)
        PROVE  (t[k].kind = "Page" => Fresh(t, k)) /\ (IsFirst(t[k]) => FreshFirst(t, k))
    <3>1. k + 1 \in 1 .. Len(s) /\ t[k] = s[k + 1] /\ k \in 1 .. Len(t) + 1
      BY <1>0
    <3>2. (s[k + 1].kind = "Page" => Fresh(s, k + 1)) /\ (IsFirst(s[k + 1]) => FreshFirst(s, k + 1))
      BY <3>1 DEF InTurn
    <3> QED
      BY <3>1, <3>2, OpenedShorter
  <2>2. Len(t) + 1 \in 1 .. Len(t) + 1 /\ (Len(t) + 1) + 1 = Len(s) + 1
    BY <1>0
  <2>3. /\ Fresh(s, Len(s) + 1) => Fresh(t, Len(t) + 1)
        /\ FreshFirst(s, Len(s) + 1) => FreshFirst(t, Len(t) + 1)
    BY <2>2, OpenedShorter
  <2> QED
    BY <2>1, <2>3 DEF InTurn
<1>4. Numbered(q, b, t)
  <2>1. ASSUME NEW k \in 1 .. Len(t), t[k].kind = "Opened"
        PROVE  /\ q.opens < t[k].n /\ t[k].n <= b.n /\ (b.st = "init" => t[k].n < b.n)
               /\ \A l \in 1 .. k - 1 : t[l].kind = "Opened" => t[l].n < t[k].n
    <3>1. k + 1 \in 1 .. Len(s) /\ t[k] = s[k + 1]
      BY <1>0
    <3>2. ASSUME NEW l \in 1 .. k - 1, t[l].kind = "Opened" PROVE t[l].n < t[k].n
      <4>1. l + 1 \in 1 .. (k + 1) - 1 /\ t[l] = s[l + 1]
        BY <1>0
      <4> QED
        BY <4>1, <3>1, <3>2, <2>1 DEF Numbered
    <3> QED
      BY <3>1, <3>2, <2>1 DEF Numbered
  <2>2. (\E k \in 1 .. Len(s) : s[k].kind = "Opened" /\ s[k].n = b.n) =>
           \E k \in 1 .. Len(t) : t[k].kind = "Opened" /\ t[k].n = b.n
    <3>1. ASSUME NEW k \in 1 .. Len(s), s[k].kind = "Opened", s[k].n = b.n
          PROVE  \E l \in 1 .. Len(t) : t[l].kind = "Opened" /\ t[l].n = b.n
      <4>1. PICK l \in 1 .. Len(t) : l + 1 = k
        BY <1>0, <3>1
      <4> QED
        BY <4>1, <1>0, <3>1
    <3> QED
      BY <3>1
  <2> QED
    BY <2>1, <2>2 DEF Numbered
<1>5. Asked(q, i, b, t)
  <2>1. ASSUME NEW k \in 1 .. Len(t), t[k].kind \in {"Page", "Failed"}, t[k].id # Nil
        PROVE  /\ t[k].id <= p.id
               /\ t[k].id = p.id => /\ i = <<>> /\ b.queue = <<>>
                                    /\ \A j \in 1 .. Len(t) : AnswersTo(t[j], p.id) => j = k
    <3>1. k + 1 \in 1 .. Len(s) /\ t[k] = s[k + 1]
      BY <1>0
    <3>2. s[k + 1].id <= p.id
      BY <2>1, <3>1 DEF Asked
    <3>3. ASSUME s[k + 1].id = p.id
          PROVE  i = <<>> /\ b.queue = <<>> /\ \A j \in 1 .. Len(s) : AnswersTo(s[j], p.id) => j = k + 1
      BY <2>1, <3>1, <3>3 DEF Asked
    <3>4. ASSUME s[k + 1].id = p.id, NEW j \in 1 .. Len(t), AnswersTo(t[j], p.id) PROVE j = k
      <4>1. j + 1 \in 1 .. Len(s) /\ t[j] = s[j + 1]
        BY <1>0
      <4>2. j + 1 = k + 1
        BY <4>1, <3>3, <3>4
      <4> QED
        BY <4>2
    <3> QED
      BY <3>1, <3>2, <3>3, <3>4
  <2> QED
    BY <2>1 DEF Asked
<1> QED
  BY <1>1, <1>2, <1>3, <1>4, <1>5

\* What is on its way after an event was taken.
Onward(p, b, s, t) ==
  /\ p.opens = b.n =>
       /\ \A k \in 1 .. Len(t) : Pending(p, t[k]) => t[k].path = b.cursor
       /\ Pending(p, s[1]) => s[1].path = b.cursor
       /\ (\A k \in 1 .. Len(t) : ~Pending(p, t[k])) /\ ~Pending(p, s[1]) => b.cursor = p.path
  /\ p.opens # b.n =>
       \E k \in 1 .. Len(t) : /\ IsFirst(t[k]) /\ t[k].path = b.cursor
                              /\ \E j \in 1 .. k - 1 : t[j].kind = "Opened" /\ t[j].n = b.n

\* The cursor and the pages left, once the pane has seen the next event.
LEMMA TailStep ==
  ASSUME NEW p \in PaneRec, NEW i \in Seq(Commands), NEW b \in BrowserRec, NEW s \in Seq(Events), NEW t, NEW x,
         InStep(p, i, b, s, x), Clean(p, b, s, x), Shorter(s, t), s[1].kind # "Opened", b.st = "ready"
  PROVE  Onward(p, b, s, t)
<1>0. /\ Len(s) \in Nat /\ Len(t) = Len(s) - 1 /\ Len(t) \in Nat /\ 1 \in 1 .. Len(s)
      /\ \A k \in 1 .. Len(t) : k + 1 \in 1 .. Len(s) /\ t[k] = s[k + 1]
  BY DEF Shorter
<1>1. ASSUME NEW k \in 1 .. Len(s) PROVE k = 1 \/ (k - 1 \in 1 .. Len(t) /\ t[k - 1] = s[k])
  BY <1>0
<1>2. ASSUME p.opens = b.n
      PROVE  /\ \A k \in 1 .. Len(t) : Pending(p, t[k]) => t[k].path = b.cursor
             /\ Pending(p, s[1]) => s[1].path = b.cursor
             /\ (\A k \in 1 .. Len(t) : ~Pending(p, t[k])) /\ ~Pending(p, s[1]) => b.cursor = p.path
  <2>1. /\ \A k \in 1 .. Len(s) : Pending(p, s[k]) => s[k].path = b.cursor
        /\ (\A k \in 1 .. Len(s) : ~Pending(p, s[k])) => b.cursor = p.path
    BY <1>2 DEF InStep
  <2>2. (\A k \in 1 .. Len(t) : ~Pending(p, t[k])) /\ ~Pending(p, s[1]) => \A k \in 1 .. Len(s) : ~Pending(p, s[k])
    BY <1>1
  <2> QED
    BY <1>0, <2>1, <2>2
<1>3. ASSUME p.opens # b.n
      PROVE  \E k \in 1 .. Len(t) : /\ IsFirst(t[k]) /\ t[k].path = b.cursor
                                    /\ \E j \in 1 .. k - 1 : t[j].kind = "Opened" /\ t[j].n = b.n
  <2>1. PICK k \in 1 .. Len(s) : /\ IsFirst(s[k]) /\ s[k].path = b.cursor
                                 /\ \E j \in 1 .. k - 1 : s[j].kind = "Opened" /\ s[j].n = b.n
    BY <1>3 DEF InStep
  <2>2. PICK j \in 1 .. k - 1 : s[j].kind = "Opened" /\ s[j].n = b.n
    BY <2>1
  <2>3. j # 1 /\ j \in 1 .. Len(s) /\ k # 1
    BY <2>2, <1>0
  <2>4. k - 1 \in 1 .. Len(t) /\ t[k - 1] = s[k] /\ t[j - 1] = s[j] /\ j - 1 \in 1 .. (k - 1) - 1
    BY <2>3, <1>0, <1>1
  <2> QED
    BY <2>1, <2>2, <2>4
<1> QED
  BY <1>2, <1>3 DEF Onward

\* A change of another directory, or an answer the pane no longer waits for.
LEMMA PassKeeps ==
  ASSUME NEW p \in PaneRec, NEW i \in Seq(Commands), NEW b \in BrowserRec, NEW s \in Seq(Events), NEW t,
         NEW x \in BOOLEAN, NEW fs \in [Dirs -> Nat],
         Good(p, i, b, s, x, fs), Shorter(s, t),
         s[1].kind = "Changed" \/ (s[1].kind \in {"Page", "Failed"} /\ s[1].id \notin {Nil, p.id})
  PROVE  Good(p, i, b, t, x, fs)
<1>0. /\ InTurn(b, s) /\ Numbered(p, b, s) /\ Asked(p, i, b, s) /\ FirstPages(p, i, b, s)
      /\ Expected(p, i, b) /\ Answered(p, s) /\ InStep(p, i, b, s, x) /\ Lined(p) /\ Owes(p, s, fs)
  BY DEF Good
<1>1. /\ InTurn(b, t) /\ Numbered(p, b, t) /\ Asked(p, i, b, t)
      /\ \A k \in 1 .. Len(t) : AnswerAt(p, t, k) <=> AnswerAt(p, s, k + 1)
      /\ \A k \in 1 .. Len(t) + 1 : OpenedIn(t, 0, k) <=> OpenedIn(s, 0, k + 1)
  BY <1>0, TailBasics
<1>2. /\ Len(s) \in Nat /\ Len(t) = Len(s) - 1 /\ Len(t) \in Nat
      /\ \A k \in 1 .. Len(t) : k + 1 \in 1 .. Len(s) /\ t[k] = s[k + 1] /\ k \in 1 .. Len(t) + 1
      /\ Len(t) + 1 \in 1 .. Len(t) + 1 /\ (Len(t) + 1) + 1 = Len(s) + 1
  BY DEF Shorter
<1>3. FirstPages(p, i, b, t)
  BY <1>0, <1>1, <1>2 DEF FirstPages
<1>4. Answered(p, t)
  BY <1>0, <1>1, <1>2 DEF Answered
<1>5. InStep(p, i, b, t, x)
  <2>1. Clean(p, b, t, x) => Clean(p, b, s, x)
    BY <1>1, <1>2 DEF Clean
  <2>2. ~Pending(p, s[1])
    BY DEF Pending
  <2>3. ASSUME Clean(p, b, t, x), b.st = "ready"
        PROVE  /\ p.opens = b.n => /\ \A k \in 1 .. Len(t) : Pending(p, t[k]) => t[k].path = b.cursor
                                   /\ (\A k \in 1 .. Len(t) : ~Pending(p, t[k])) => b.cursor = p.path
               /\ p.opens # b.n =>
                    \E k \in 1 .. Len(t) : /\ IsFirst(t[k]) /\ t[k].path = b.cursor
                                           /\ \E j \in 1 .. k - 1 : t[j].kind = "Opened" /\ t[j].n = b.n
    <3>1. Clean(p, b, s, x) /\ s[1].kind # "Opened"
      BY <2>1, <2>3
    <3>2. Onward(p, b, s, t)
      BY <1>0, <2>3, <3>1, TailStep
    <3> QED
      BY <2>2, <3>2 DEF Onward
  <2>4. \A k \in 1 .. Len(t) : AnswerAt(p, t, k) /\ t[k].append =>
           t[k].path = p.path \/ (x /\ p.back = <<>> /\ p.fwd = <<>>)
    BY <1>0, <1>1, <1>2 DEF InStep
  <2> QED
    BY <1>0, <2>1, <2>3, <2>4 DEF InStep
<1>6. Owes(p, t, fs)
  BY <1>0, <1>1, <1>2 DEF Owes
<1> QED
  BY <1>0, <1>1, <1>3, <1>4, <1>5, <1>6 DEF Good

\* After the end of a browser, or an answer, nothing on its way is for the pane before the
\* next handshake.
Over(p, i, b, t) ==
  /\ \A k \in 1 .. Len(t) : IsFirst(t[k]) => OpenedIn(t, 0, k)
  /\ b.st = "first" => OpenedIn(t, 0, Len(t) + 1)
  /\ b.st # "dead" => /\ \A k \in 1 .. Len(i) : i[k].n # b.n
                      /\ \A k \in 1 .. Len(b.queue) : b.queue[k].n # b.n
  /\ \A k \in 1 .. Len(t) : ~AnswerAt(p, t, k)

\* After the end of a browser nothing of it is left to come.
LEMMA OverAfterEnd ==
  ASSUME NEW p \in PaneRec, NEW i \in Seq(Commands), NEW b \in BrowserRec, NEW s \in Seq(Events), NEW t,
         InTurn(b, s), Numbered(p, b, s), Asked(p, i, b, s), Shorter(s, t), IsEnd(s[1])
  PROVE  Over(p, i, b, t)
<1>0. /\ Len(s) \in Nat /\ Len(t) = Len(s) - 1 /\ Len(t) \in Nat /\ 1 \in 1 .. Len(s)
      /\ \A k \in 1 .. Len(t) : k + 1 \in 1 .. Len(s) /\ t[k] = s[k + 1] /\ k \in 1 .. Len(t) + 1
      /\ p.opens \in Nat /\ b.n \in Nat /\ b.queue \in Seq(Commands) /\ p.id \in Nat
  <2>1. p.opens \in Nat /\ b.n \in Nat /\ b.queue \in Seq(Commands) /\ p.id \in Nat
    BY DEF PaneRec, BrowserRec
  <2> QED
    BY <2>1 DEF Shorter
<1>1. \A k \in 1 .. Len(t) + 1 : Fresh(s, k + 1) => OpenedIn(t, 0, k) /\ OpenedIn(s, 1, k + 1)
  <2> SUFFICES ASSUME NEW k \in 1 .. Len(t) + 1, Fresh(s, k + 1) PROVE OpenedIn(t, 0, k) /\ OpenedIn(s, 1, k + 1)
    OBVIOUS
  <2>1. 1 \in 1 .. (k + 1) - 1
    OBVIOUS
  <2>2. OpenedIn(s, 1, k + 1)
    BY <2>1 DEF Fresh
  <2>3. OpenedIn(t, 0, k) <=> OpenedIn(s, 0 + 1, k + 1)
    BY OpenedShorter
  <2> QED
    BY <2>2, <2>3
<1>2. \A k \in 1 .. Len(t) : t[k].kind = "Page" => OpenedIn(t, 0, k)
  BY <1>0, <1>1 DEF InTurn
<1>3. b.st \in {"first", "ready"} => OpenedIn(t, 0, Len(t) + 1) /\ OpenedIn(s, 1, Len(s) + 1)
  <2>1. Len(t) + 1 \in 1 .. Len(t) + 1 /\ (Len(t) + 1) + 1 = Len(s) + 1
    BY <1>0
  <2>2. b.st \in {"first", "ready"} => Fresh(s, Len(s) + 1)
    BY DEF InTurn
  <2> QED
    BY <1>1, <2>1, <2>2
<1>4. b.st # "dead" => p.opens < b.n
  <2>1. b.st = "init" => p.opens < b.n
    BY DEF Numbered
  <2>2. ASSUME b.st \in {"first", "ready"} PROVE p.opens < b.n
    <3>1. PICK m \in 1 + 1 .. (Len(s) + 1) - 1 : s[m].kind = "Opened"
      BY <1>3, <2>2 DEF OpenedIn
    <3>2. m \in 1 .. Len(s) /\ s[m].n \in Nat
      BY <3>1, <1>0, EventFacts
    <3>3. p.opens < s[m].n /\ s[m].n <= b.n
      BY <3>1, <3>2 DEF Numbered
    <3> QED
      BY <3>2, <3>3, <1>0
  <2> QED
    BY <2>1, <2>2 DEF BrowserRec
<1>5. b.st # "dead" => /\ \A k \in 1 .. Len(i) : i[k].n # b.n
                       /\ \A k \in 1 .. Len(b.queue) : b.queue[k].n # b.n
  <2>1. /\ \A k \in 1 .. Len(i) : i[k].n \in Nat /\ i[k].n <= p.opens
        /\ \A k \in 1 .. Len(b.queue) : b.queue[k].n \in Nat /\ b.queue[k].n <= p.opens
    BY <1>0, CommandFacts DEF Asked
  <2> QED
    BY <2>1, <1>0, <1>4
<1> QED
  BY <1>2, <1>3, <1>5 DEF Over, IsFirst, AnswerAt

\* After the answer to the last request no other is left to come.
LEMMA OverAfterAnswer ==
  ASSUME NEW p \in PaneRec, NEW i \in Seq(Commands), NEW b \in BrowserRec, NEW s \in Seq(Events), NEW t,
         InTurn(b, s), Numbered(p, b, s), Asked(p, i, b, s), FirstPages(p, i, b, s), Shorter(s, t), AnswersTo(s[1], p.id)
  PROVE  Over(p, i, b, t) /\ i = <<>> /\ b.queue = <<>>
<1>0. /\ Len(s) \in Nat /\ Len(t) = Len(s) - 1 /\ Len(t) \in Nat /\ 1 \in 1 .. Len(s) /\ s[1].kind # "Opened"
      /\ \A k \in 1 .. Len(t) : k + 1 \in 1 .. Len(s) /\ t[k] = s[k + 1] /\ k \in 1 .. Len(t) + 1
      /\ p.id \in Nat /\ p.id # Nil
  BY BrowserAssumption DEF Shorter, PaneRec, AnswersTo
<1>1. i = <<>> /\ b.queue = <<>> /\ \A j \in 1 .. Len(s) : AnswersTo(s[j], p.id) => j = 1
  BY <1>0 DEF Asked, AnswersTo
<1>2. \A k \in 1 .. Len(t) : ~AnswersTo(t[k], p.id)
  <2> TAKE k \in 1 .. Len(t)
  <2>1. t[k] = s[k + 1] /\ k + 1 # 1 /\ k + 1 \in 1 .. Len(s)
    BY <1>0
  <2> QED
    BY <2>1, <1>1
<1>3. ~Opening(p)
  BY <1>0 DEF FirstPages
<1>4. \A k \in 1 .. Len(t) + 1 : OpenedIn(t, 0, k) <=> OpenedIn(s, 0, k + 1)
  BY <1>0, OpenedShorter
<1>5. \A k \in 1 .. Len(t) : IsFirst(t[k]) => OpenedIn(t, 0, k)
  BY <1>0, <1>3, <1>4 DEF FirstPages
<1>6. b.st = "first" => OpenedIn(t, 0, Len(t) + 1)
  <2>1. Len(t) + 1 \in 1 .. Len(t) + 1 /\ (Len(t) + 1) + 1 = Len(s) + 1
    BY <1>0
  <2>2. b.st = "first" => OpenedIn(s, 0, Len(s) + 1)
    BY <1>3 DEF FirstPages
  <2> QED
    BY <2>1, <2>2, <1>4
<1>7. Len(i) = 0 /\ Len(b.queue) = 0
  BY <1>1
<1>8. \A k \in 1 .. Len(t) : ~AnswerAt(p, t, k)
  BY <1>2 DEF AnswerAt, AnswersTo
<1> QED
  BY <1>1, <1>5, <1>6, <1>7, <1>8 DEF Over

\* The pane gives up what it waits for: its listing failed, or the browser ended.
LEMMA GiveUpKeeps ==
  ASSUME NEW p \in PaneRec, NEW q \in PaneRec, NEW i \in Seq(Commands), NEW b \in BrowserRec, NEW s \in Seq(Events), NEW t,
         NEW x \in BOOLEAN, NEW fs \in [Dirs -> Nat],
         Good(p, i, b, s, x, fs), Shorter(s, t), IsEnd(s[1]) \/ (s[1].kind = "Failed" /\ s[1].id = p.id),
         q.id = p.id, q.opens = p.opens, q.path = p.path, q.shown = p.shown, q.back = p.back, q.fwd = p.fwd,
         ~q.loading, q.owed = 0, q.more => p.more /\ q.nav = Nil, NavigationFits(q)
  PROVE  Good(q, i, b, t, x, fs)
<1>0. /\ InTurn(b, s) /\ Numbered(p, b, s) /\ Asked(p, i, b, s) /\ FirstPages(p, i, b, s)
      /\ Expected(p, i, b) /\ Answered(p, s) /\ InStep(p, i, b, s, x) /\ Lined(p) /\ Owes(p, s, fs)
  BY DEF Good
<1>1. Over(p, i, b, t) /\ s[1].kind # "Opened" /\ s[1].kind # "Page"
  BY <1>0, OverAfterEnd, OverAfterAnswer DEF IsEnd, AnswersTo
<1>2. /\ InTurn(b, t) /\ Numbered(q, b, t) /\ Asked(q, i, b, t)
      /\ \A k \in 1 .. Len(t) : AnswerAt(q, t, k) <=> AnswerAt(p, s, k + 1)
  BY <1>0, <1>1, TailBasics
<1>3. \A k \in 1 .. Len(t) : ~AnswerAt(q, t, k)
  BY <1>1 DEF Over, AnswerAt
<1>4. FirstPages(q, i, b, t)
  BY <1>0, <1>1 DEF FirstPages, Opening, Over
<1>5. Expected(q, i, b)
  BY <1>1 DEF Expected, Over
<1>6. Answered(q, t)
  BY <1>3 DEF Answered
<1>7. InStep(q, i, b, t, x)
  <2>1. Travelled(q, b) <=> Travelled(p, b)
    BY DEF Travelled
  <2>2. Clean(q, b, t, x) => Clean(p, b, s, x)
    BY <1>3, <2>1 DEF Clean
  <2>3. ASSUME Clean(q, b, t, x), b.st = "ready"
        PROVE  /\ q.opens = b.n => /\ \A k \in 1 .. Len(t) : Pending(q, t[k]) => t[k].path = b.cursor
                                   /\ (\A k \in 1 .. Len(t) : ~Pending(q, t[k])) => b.cursor = q.path
               /\ q.opens # b.n =>
                    \E k \in 1 .. Len(t) : /\ IsFirst(t[k]) /\ t[k].path = b.cursor
                                           /\ \E j \in 1 .. k - 1 : t[j].kind = "Opened" /\ t[j].n = b.n
    <3>1. Clean(p, b, s, x)
      BY <2>2, <2>3
    <3>2. Onward(p, b, s, t)
      BY <1>0, <1>1, <2>3, <3>1, TailStep
    <3>3. ~Pending(p, s[1]) /\ \A k \in 1 .. Len(t) : Pending(q, t[k]) <=> Pending(p, t[k])
      BY <1>1 DEF Pending
    <3> QED
      BY <3>2, <3>3 DEF Onward
  <2>4. /\ Travelled(p, b) => /\ \A k \in 1 .. Len(i) : i[k].n = b.n
                              /\ \A k \in 1 .. Len(b.queue) : b.queue[k].n = b.n
        /\ Clean(p, b, s, x) => \A k \in 1 .. Len(b.queue) : b.queue[k].kind = "List" => b.queue[k].n = b.n
        /\ ~x => p.shown \in {{}, {p.path}}
    BY <1>0 DEF InStep
  <2> QED
    BY <1>3, <2>1, <2>2, <2>3, <2>4 DEF InStep
<1>8. Lined(q)
  BY <1>0 DEF Lined
<1>9. Owes(q, t, fs)
  <2>1. \A k \in 1 .. Len(t) : t[k].kind \in {"Page", "Changed"} => t[k].ver <= fs[t[k].path]
    BY SMTT(40), <1>0 DEF Owes, Shorter
  <2>2. q.path # Nil => fs[q.path] \in Nat
    BY DEF PaneRec
  <2> QED
    BY <1>3, <2>1, <2>2 DEF Owes
<1> QED
  BY <1>2, <1>4, <1>5, <1>6, <1>7, <1>8, <1>9 DEF Good

\* A browser was opened: the pane forgets the directories it visited and waits for the first page.
LEMMA OpenKeeps ==
  ASSUME NEW p \in PaneRec, NEW q \in PaneRec, NEW i \in Seq(Commands), NEW b \in BrowserRec, NEW s \in Seq(Events), NEW t,
         NEW x \in BOOLEAN, NEW fs \in [Dirs -> Nat],
         Good(p, i, b, s, x, fs), Shorter(s, t), s[1].kind = "Opened",
         q.id = p.id + 1, q.opens = s[1].n, q.path = Nil, q.shown = {}, q.back = <<>>, q.fwd = <<>>,
         q.loading, q.nav = Nil, q.owed = 0, ~q.more
  PROVE  Good(q, i, b, t, x, fs)
<1>0. /\ InTurn(b, s) /\ Numbered(p, b, s) /\ Asked(p, i, b, s) /\ FirstPages(p, i, b, s)
      /\ Expected(p, i, b) /\ Answered(p, s) /\ InStep(p, i, b, s, x) /\ Lined(p) /\ Owes(p, s, fs)
  BY DEF Good
<1>1. /\ Len(s) \in Nat /\ Len(t) = Len(s) - 1 /\ Len(t) \in Nat /\ 1 \in 1 .. Len(s)
      /\ \A k \in 1 .. Len(t) : k + 1 \in 1 .. Len(s) /\ t[k] = s[k + 1] /\ k \in 1 .. Len(t) + 1
      /\ \A k \in 1 .. Len(s) : k = 1 \/ (k - 1 \in 1 .. Len(t) /\ t[k - 1] = s[k])
  BY DEF Shorter
<1>2. p.opens \in Nat /\ b.n \in Nat /\ p.id \in Nat /\ q.id \in Nat /\ q.id # Nil /\ b.queue \in Seq(Commands)
  BY BrowserAssumption DEF PaneRec, BrowserRec
<1>3. /\ s[1].n \in Nat /\ p.opens < s[1].n /\ s[1].n <= b.n /\ (b.st = "init" => s[1].n < b.n)
      /\ \A k \in 1 .. Len(s) : s[k].kind = "Opened" => s[k].n \in Nat /\ s[k].n <= b.n
      /\ \A k \in 1 .. Len(t) : t[k].kind = "Opened" => t[k].n \in Nat /\ s[1].n < t[k].n /\ t[k].n <= b.n
  <2>1. s[1].n \in Nat /\ \A k \in 1 .. Len(s) : s[k].kind = "Opened" => s[k].n \in Nat
    BY <1>1, EventFacts
  <2>2. p.opens < s[1].n /\ s[1].n <= b.n /\ (b.st = "init" => s[1].n < b.n)
    BY <1>0, <1>1 DEF Numbered
  <2>3. \A k \in 1 .. Len(s) : s[k].kind = "Opened" =>
           s[k].n <= b.n /\ \A j \in 1 .. k - 1 : s[j].kind = "Opened" => s[j].n < s[k].n
    BY <1>0 DEF Numbered
  <2>4. ASSUME NEW k \in 1 .. Len(t), t[k].kind = "Opened" PROVE t[k].n \in Nat /\ s[1].n < t[k].n /\ t[k].n <= b.n
    <3>1. k + 1 \in 1 .. Len(s) /\ t[k] = s[k + 1] /\ 1 \in 1 .. (k + 1) - 1
      BY <1>1
    <3> QED
      BY <3>1, <2>1, <2>3, <2>4
  <2> QED
    BY <2>1, <2>2, <2>3, <2>4
<1>4. /\ \A k \in 1 .. Len(i) : i[k].id \in Nat /\ i[k].id < q.id /\ i[k].n \in Nat /\ i[k].n < q.opens /\ i[k].n < b.n
      /\ \A k \in 1 .. Len(b.queue) : /\ b.queue[k].id \in Nat /\ b.queue[k].id < q.id /\ b.queue[k].n \in Nat
                                      /\ b.queue[k].n < q.opens /\ b.queue[k].n < b.n
  <2>1. /\ \A k \in 1 .. Len(i) : i[k].id \in Nat /\ i[k].n \in Nat /\ i[k].id <= p.id /\ i[k].n <= p.opens
        /\ \A k \in 1 .. Len(b.queue) : /\ b.queue[k].id \in Nat /\ b.queue[k].n \in Nat
                                        /\ b.queue[k].id <= p.id /\ b.queue[k].n <= p.opens
    BY <1>0, <1>2, CommandFacts DEF Asked
  <2>2. /\ \A u \in Nat : u <= p.id => u < q.id
        /\ \A u \in Nat : u <= p.opens => u < q.opens /\ u < b.n
    BY SMTT(40), <1>2, <1>3
  <2> QED
    BY <2>1, <2>2
<1>5. \A k \in 1 .. Len(t) : t[k].kind \in {"Page", "Failed"} /\ t[k].id # Nil => t[k].id \in Nat /\ t[k].id < q.id
  <2> SUFFICES ASSUME NEW k \in 1 .. Len(t), t[k].kind \in {"Page", "Failed"}, t[k].id # Nil
               PROVE  t[k].id \in Nat /\ t[k].id < q.id
    OBVIOUS
  <2>1. k + 1 \in 1 .. Len(s) /\ t[k] = s[k + 1]
    BY <1>1
  <2>2. s[k + 1].id \in Nat /\ s[k + 1].id <= p.id
    BY <2>1, <1>0, EventFacts DEF Asked
  <2> QED
    BY <2>1, <2>2, <1>2
<1>6. InTurn(b, t)
  <2>1. ASSUME NEW k \in 1 .. Len(t)
        PROVE  (t[k].kind = "Page" => Fresh(t, k)) /\ (IsFirst(t[k]) => FreshFirst(t, k))
    <3>1. k + 1 \in 1 .. Len(s) /\ t[k] = s[k + 1] /\ k \in 1 .. Len(t) + 1
      BY <1>1
    <3>2. (s[k + 1].kind = "Page" => Fresh(s, k + 1)) /\ (IsFirst(s[k + 1]) => FreshFirst(s, k + 1))
      BY <3>1, <1>0 DEF InTurn
    <3> QED
      BY <3>1, <3>2, OpenedShorter
  <2>2. Len(t) + 1 \in 1 .. Len(t) + 1 /\ (Len(t) + 1) + 1 = Len(s) + 1
    BY <1>1
  <2>3. /\ Fresh(s, Len(s) + 1) => Fresh(t, Len(t) + 1)
        /\ FreshFirst(s, Len(s) + 1) => FreshFirst(t, Len(t) + 1)
    BY <2>2, OpenedShorter
  <2> QED
    BY <2>1, <2>3, <1>0 DEF InTurn
<1>7. Numbered(q, b, t)
  <2>1. ASSUME NEW k \in 1 .. Len(t), t[k].kind = "Opened"
        PROVE  /\ q.opens < t[k].n /\ t[k].n <= b.n /\ (b.st = "init" => t[k].n < b.n)
               /\ \A l \in 1 .. k - 1 : t[l].kind = "Opened" => t[l].n < t[k].n
    <3>1. k + 1 \in 1 .. Len(s) /\ t[k] = s[k + 1]
      BY <1>1
    <3>2. ASSUME NEW l \in 1 .. k - 1, t[l].kind = "Opened" PROVE t[l].n < t[k].n
      <4>1. l + 1 \in 1 .. (k + 1) - 1 /\ t[l] = s[l + 1]
        BY <1>1
      <4> QED
        BY <4>1, <3>1, <3>2, <2>1, <1>0 DEF Numbered
    <3> QED
      BY <3>1, <3>2, <2>1, <1>0, <1>3 DEF Numbered
  <2>2. b.st \in {"first", "ready"} => q.opens = b.n \/ \E k \in 1 .. Len(t) : t[k].kind = "Opened" /\ t[k].n = b.n
    <3> SUFFICES ASSUME b.st \in {"first", "ready"}, q.opens # b.n
                 PROVE  \E k \in 1 .. Len(t) : t[k].kind = "Opened" /\ t[k].n = b.n
      OBVIOUS
    <3>1. PICK k \in 1 .. Len(s) : s[k].kind = "Opened" /\ s[k].n = b.n
      BY <1>0, <1>2, <1>3 DEF Numbered
    <3>2. k - 1 \in 1 .. Len(t) /\ t[k - 1] = s[k]
      BY <3>1, <1>1
    <3> QED
      BY <3>1, <3>2
  <2>3. q.opens <= b.n /\ (b.st = "init" => q.opens < b.n)
    BY <1>3
  <2> QED
    BY <2>1, <2>2, <2>3 DEF Numbered
<1>16. /\ \A k \in 1 .. Len(i) : i[k].id <= q.id /\ i[k].id # q.id /\ i[k].n <= q.opens
       /\ \A k \in 1 .. Len(b.queue) : b.queue[k].id <= q.id /\ b.queue[k].id # q.id /\ b.queue[k].n <= q.opens
  <2>1. /\ \A u \in Nat : u < q.id => u <= q.id /\ u # q.id
        /\ \A u \in Nat : u < q.opens => u <= q.opens
    BY <1>2, <1>3
  <2> QED
    BY <2>1, <1>4
<1>8. Asked(q, i, b, t)
  <2>1. b.st = "dead" => b.queue = <<>>
    BY <1>0 DEF Asked
  <2>3. \A k \in 1 .. Len(t) : t[k].kind \in {"Page", "Failed"} /\ t[k].id # Nil => t[k].id <= q.id /\ t[k].id # q.id
    BY <1>2, <1>5
  <2> QED
    BY <2>1, <2>3, <1>16 DEF Asked
<1>9. /\ \A k \in 1 .. Len(t) : ~AnswersTo(t[k], q.id)
      /\ \A k \in 1 .. Len(t) : ~AnswerAt(q, t, k)
  <2>1. \A k \in 1 .. Len(t) : t[k].kind \in {"Page", "Failed"} => t[k].id # q.id
    <3> SUFFICES ASSUME NEW k \in 1 .. Len(t), t[k].kind \in {"Page", "Failed"}, t[k].id # Nil PROVE t[k].id # q.id
      BY <1>2
    <3>1. t[k].id \in Nat /\ t[k].id < q.id
      BY <1>5
    <3> QED
      BY <3>1, <1>2
  <2> QED
    BY <2>1 DEF AnswersTo, AnswerAt
<1>10. FirstPages(q, i, b, t)
  BY <1>9, <1>16 DEF FirstPages, Opening
<1>11. Expected(q, i, b)
  BY <1>2, <1>4 DEF Expected
<1>12. Answered(q, t)
  BY <1>9 DEF Answered
<1>13. InStep(q, i, b, t, x)
  <2>1. ~Travelled(q, b)
    BY DEF Travelled
  <2>2. Clean(q, b, t, x) => ~x /\ Clean(p, b, s, x)
    BY <2>1, <1>9 DEF Clean
  <2>3. \A k \in 1 .. Len(t) : Pending(q, t[k]) <=> IsFirst(t[k])
    <3> TAKE k \in 1 .. Len(t)
    <3>1. t[k].kind = "Page" => t[k].id # q.id
      BY <1>9 DEF AnswersTo
    <3>2. IsFirst(t[k]) => ~t[k].append
      <4>1. k + 1 \in 1 .. Len(s) /\ t[k] = s[k + 1]
        BY <1>1
      <4> QED
        BY <4>1, EventFacts DEF IsFirst
    <3> QED
      BY <3>1, <3>2 DEF Pending, IsFirst
  <2>4. ASSUME Clean(q, b, t, x), b.st = "ready"
        PROVE  \E k \in 1 .. Len(s) : /\ IsFirst(s[k]) /\ s[k].path = b.cursor
                                      /\ \E j \in 1 .. k - 1 : s[j].kind = "Opened" /\ s[j].n = b.n
    BY <1>0, <1>2, <1>3, <2>2, <2>4 DEF InStep
  <2>5. ASSUME Clean(q, b, t, x), b.st = "ready", q.opens = b.n
        PROVE  /\ \A k \in 1 .. Len(t) : Pending(q, t[k]) => t[k].path = b.cursor
               /\ (\A k \in 1 .. Len(t) : ~Pending(q, t[k])) => b.cursor = q.path
    <3>1. \A k \in 1 .. Len(t) : t[k].kind # "Opened"
      BY SMTT(40), <2>5, <1>2, <1>3
    <3>2. PICK k \in 1 .. Len(s) : IsFirst(s[k]) /\ s[k].path = b.cursor
      BY <2>4, <2>5
    <3>3. k - 1 \in 1 .. Len(t) /\ t[k - 1] = s[k]
      BY <3>2, <1>1 DEF IsFirst
    <3>4. PICK l \in 1 .. Len(t) : l = k - 1 /\ IsFirst(t[l]) /\ t[l].path = b.cursor
      BY <3>2, <3>3
    <3>5. \A j, m \in 1 .. Len(t) : IsFirst(t[j]) /\ IsFirst(t[m]) => ~(j < m)
      <4> SUFFICES ASSUME NEW j \in 1 .. Len(t), NEW m \in 1 .. Len(t), IsFirst(t[j]), IsFirst(t[m]), j < m PROVE FALSE
        OBVIOUS
      <4>1. FreshFirst(t, m) /\ j \in 1 .. m - 1
        BY <1>6 DEF InTurn
      <4>2. OpenedIn(t, j, m)
        BY <4>1 DEF FreshFirst
      <4>3. PICK o \in j + 1 .. m - 1 : t[o].kind = "Opened"
        BY <4>2 DEF OpenedIn
      <4>4. o \in 1 .. Len(t)
        BY <4>1, <1>1
      <4> QED
        BY <4>3, <4>4, <3>1
    <3>6. ASSUME NEW m \in 1 .. Len(t), IsFirst(t[m]) PROVE m = l
      <4>1. ~(m < l) /\ ~(l < m)
        BY <3>4, <3>5, <3>6
      <4> QED
        BY <4>1, <1>1
    <3> QED
      BY <3>4, <3>6, <2>3
  <2>6. ASSUME Clean(q, b, t, x), b.st = "ready", q.opens # b.n
        PROVE  \E k \in 1 .. Len(t) : /\ IsFirst(t[k]) /\ t[k].path = b.cursor
                                      /\ \E j \in 1 .. k - 1 : t[j].kind = "Opened" /\ t[j].n = b.n
    <3>1. PICK k \in 1 .. Len(s) : /\ IsFirst(s[k]) /\ s[k].path = b.cursor
                                   /\ \E j \in 1 .. k - 1 : s[j].kind = "Opened" /\ s[j].n = b.n
      BY <2>4, <2>6
    <3>2. PICK j \in 1 .. k - 1 : s[j].kind = "Opened" /\ s[j].n = b.n
      BY <3>1
    <3>3. j # 1 /\ j \in 1 .. Len(s) /\ k # 1
      BY <3>2, <2>6, <1>1
    <3>4. k - 1 \in 1 .. Len(t) /\ t[k - 1] = s[k] /\ t[j - 1] = s[j] /\ j - 1 \in 1 .. (k - 1) - 1
      BY <3>3, <1>1
    <3> QED
      BY <3>1, <3>2, <3>4
  <2>7. Clean(p, b, s, x) => \A k \in 1 .. Len(b.queue) : b.queue[k].kind = "List" => b.queue[k].n = b.n
    BY <1>0 DEF InStep
  <2> QED
    BY <2>1, <2>2, <2>5, <2>6, <2>7, <1>9 DEF InStep
<1>14. Lined(q)
  BY HistoryAssumption DEF Lined, Line, Steps, NavigationFits
<1>15. Owes(q, t, fs)
  <2>1. \A k \in 1 .. Len(t) : t[k].kind \in {"Page", "Changed"} => t[k].ver <= fs[t[k].path]
    BY <1>0 DEF Owes, Shorter
  <2> QED
    BY <1>9, <2>1 DEF Owes
<1> QED
  BY <1>6, <1>7, <1>8, <1>10, <1>11, <1>12, <1>13, <1>14, <1>15 DEF Good

\* After a first page no other is left to come before the next handshake.
LEMMA OverAfterFirst ==
  ASSUME NEW p \in PaneRec, NEW i \in Seq(Commands), NEW b \in BrowserRec, NEW s \in Seq(Events), NEW t,
         InTurn(b, s), FirstPages(p, i, b, s), Expected(p, i, b), Shorter(s, t), IsFirst(s[1])
  PROVE  Over(p, i, b, t) /\ Opening(p)
<1>0. /\ Len(s) \in Nat /\ Len(t) = Len(s) - 1 /\ Len(t) \in Nat /\ 1 \in 1 .. Len(s)
      /\ \A k \in 1 .. Len(t) : k + 1 \in 1 .. Len(s) /\ t[k] = s[k + 1] /\ k \in 1 .. Len(t) + 1
  BY DEF Shorter
<1>1. Opening(p)
  <2>1. ~OpenedIn(s, 0, 1)
    BY DEF OpenedIn
  <2> QED
    BY <2>1, <1>0 DEF FirstPages
<1>2. \A k \in 1 .. Len(t) + 1 : FreshFirst(s, k + 1) => OpenedIn(t, 0, k)
  <2> SUFFICES ASSUME NEW k \in 1 .. Len(t) + 1, FreshFirst(s, k + 1) PROVE OpenedIn(t, 0, k)
    OBVIOUS
  <2>1. 1 \in 1 .. (k + 1) - 1
    OBVIOUS
  <2>2. OpenedIn(s, 1, k + 1)
    BY <2>1 DEF FreshFirst
  <2>3. OpenedIn(t, 0, k) <=> OpenedIn(s, 0 + 1, k + 1)
    BY OpenedShorter
  <2> QED
    BY <2>2, <2>3
<1>3. \A k \in 1 .. Len(t) : IsFirst(t[k]) => OpenedIn(t, 0, k)
  BY <1>0, <1>2 DEF InTurn
<1>4. b.st = "first" => OpenedIn(t, 0, Len(t) + 1)
  <2>1. Len(t) + 1 \in 1 .. Len(t) + 1 /\ (Len(t) + 1) + 1 = Len(s) + 1
    BY <1>0
  <2>2. b.st = "first" => FreshFirst(s, Len(s) + 1)
    BY DEF InTurn
  <2> QED
    BY <1>2, <2>1, <2>2
<1>5. b.st # "dead" => /\ \A k \in 1 .. Len(i) : i[k].n # b.n
                       /\ \A k \in 1 .. Len(b.queue) : b.queue[k].n # b.n
  BY <1>1 DEF FirstPages, Expected, Meant
<1>6. \A k \in 1 .. Len(t) : ~AnswerAt(p, t, k)
  <2>1. \A k \in 1 .. Len(t) : ~AnswersTo(t[k], p.id)
    BY <1>0, <1>1 DEF FirstPages
  <2> QED
    BY <2>1 DEF AnswerAt, AnswersTo
<1> QED
  BY <1>1, <1>3, <1>4, <1>5, <1>6 DEF Over

\* The pane shows a page it waited for.
LEMMA ShowKeeps ==
  ASSUME NEW p \in PaneRec, NEW q \in PaneRec, NEW i \in Seq(Commands), NEW b \in BrowserRec, NEW s \in Seq(Events), NEW t,
         NEW x \in BOOLEAN, NEW y \in BOOLEAN, NEW fs \in [Dirs -> Nat],
         Good(p, i, b, s, x, fs), Shorter(s, t), Over(p, i, b, t), s[1].kind = "Page", s[1].id \in {p.id, Nil},
         q.id = p.id, q.opens = p.opens, q.open, ~q.loading, q.nav = Nil, q.path = s[1].path,
         Line(q.back, q.fwd, q.path), q.owed <= fs[q.path],
         (q.back = p.back /\ q.fwd = p.fwd) \/ (i = <<>> /\ b.queue = <<>>),
         Clean(q, b, t, y) => Clean(p, b, s, x) /\ (s[1].append => s[1].path = p.path),
         ~y => q.shown \in {{}, {q.path}}
  PROVE  Good(q, i, b, t, y, fs)
<1>0. /\ InTurn(b, s) /\ Numbered(p, b, s) /\ Asked(p, i, b, s) /\ FirstPages(p, i, b, s)
      /\ Expected(p, i, b) /\ Answered(p, s) /\ InStep(p, i, b, s, x) /\ Lined(p) /\ Owes(p, s, fs)
  BY DEF Good
<1>1. s[1] \in Events /\ s[1].path \in Dirs /\ q.path # Nil
  <2>1. s[1] \in Events
    BY DEF Shorter
  <2> QED
    BY <2>1, EventFacts, DirFacts
<1>2. /\ InTurn(b, t) /\ Numbered(q, b, t) /\ Asked(q, i, b, t)
      /\ \A k \in 1 .. Len(t) : AnswerAt(q, t, k) <=> AnswerAt(p, s, k + 1)
  <2>1. s[1].kind # "Opened"
    OBVIOUS
  <2> QED
    BY <1>0, <2>1, TailBasics
<1>3. \A k \in 1 .. Len(t) : ~AnswerAt(q, t, k)
  BY DEF Over, AnswerAt
<1>4. FirstPages(q, i, b, t)
  BY <1>1 DEF FirstPages, Opening, Over
<1>5. Expected(q, i, b)
  BY DEF Expected, Over
<1>6. Answered(q, t)
  BY <1>3 DEF Answered
<1>7. InStep(q, i, b, t, y)
  <2>1. Travelled(q, b) => /\ \A k \in 1 .. Len(i) : i[k].n = b.n
                           /\ \A k \in 1 .. Len(b.queue) : b.queue[k].n = b.n
    <3>1. CASE q.back = p.back /\ q.fwd = p.fwd
      <4>1. Travelled(q, b) => Travelled(p, b)
        BY <3>1 DEF Travelled
      <4> QED
        BY <1>0, <4>1 DEF InStep
    <3>2. CASE i = <<>> /\ b.queue = <<>>
      <4>1. Len(i) = 0 /\ Len(b.queue) = 0
        BY <3>2
      <4> QED
        BY <4>1
    <3> QED
      BY <3>1, <3>2
  <2>2. ASSUME Clean(q, b, t, y), b.st = "ready"
        PROVE  /\ q.opens = b.n => /\ \A k \in 1 .. Len(t) : Pending(q, t[k]) => t[k].path = b.cursor
                                   /\ (\A k \in 1 .. Len(t) : ~Pending(q, t[k])) => b.cursor = q.path
               /\ q.opens # b.n =>
                    \E k \in 1 .. Len(t) : /\ IsFirst(t[k]) /\ t[k].path = b.cursor
                                           /\ \E j \in 1 .. k - 1 : t[j].kind = "Opened" /\ t[j].n = b.n
    <3>1. Clean(p, b, s, x) /\ s[1].kind # "Opened"
      BY <2>2
    <3>2. Onward(p, b, s, t)
      BY <1>0, <2>2, <3>1, TailStep
    <3>3. \A k \in 1 .. Len(t) : Pending(q, t[k]) <=> Pending(p, t[k])
      BY DEF Pending
    <3>4. Pending(p, s[1]) <=> ~s[1].append
      BY DEF Pending
    <3> QED
      BY <2>2, <3>2, <3>3, <3>4 DEF Onward
  <2>3. Clean(p, b, s, x) => \A k \in 1 .. Len(b.queue) : b.queue[k].kind = "List" => b.queue[k].n = b.n
    BY <1>0 DEF InStep
  <2> QED
    BY <1>3, <2>1, <2>2, <2>3 DEF InStep
<1>8. Lined(q)
  BY DEF Lined, NavigationFits
<1>9. Owes(q, t, fs)
  <2>1. \A k \in 1 .. Len(t) : t[k].kind \in {"Page", "Changed"} => t[k].ver <= fs[t[k].path]
    BY <1>0 DEF Owes, Shorter
  <2> QED
    BY <1>1, <1>3, <2>1 DEF Owes
<1> QED
  BY <1>2, <1>4, <1>5, <1>6, <1>7, <1>8, <1>9 DEF Good

\* What the pane has of directories visited may only grow by the one it went back to.
Retraces(p, q) ==
  p.nav # Nil /\ p.nav.kind \in {"Back", "Forward"} /\ q.path \notin {Nil, p.path} => Timeline(q) = Timeline(p)

\* The pane sees a handshake (SftpBrowserEvent::Opened).
LEMMA ApplyOpened ==
  ASSUME NEW p \in PaneRec, NEW i \in Seq(Commands), NEW b \in BrowserRec, NEW s \in Seq(Events), NEW t,
         NEW x \in BOOLEAN, NEW fs \in [Dirs -> Nat], NEW q,
         Good(p, i, b, s, x, fs), Shorter(s, t), s[1].kind = "Opened", q = ApplyBrowser(p, s[1])
  PROVE  q \in PaneRec /\ Good(q, i, b, t, x, fs) /\ Settled(q) /\ Retraces(p, q)
<1>1. s[1].n \in Nat
  <2>1. s[1] \in Events
    BY DEF Shorter
  <2> QED
    BY <2>1, EventFacts
<1>2. q = [p EXCEPT !.id = p.id + 1, !.path = Nil, !.shown = {}, !.ver = 0, !.more = FALSE, !.back = <<>>, !.fwd = <<>>,
                    !.nav = Nil, !.auto = Nil, !.owed = 0, !.open = TRUE, !.loading = TRUE, !.opens = s[1].n]
  BY DEF ApplyBrowser, ResetNavigation, PaneRec
<1>3. <<>> \in Seq(Dirs) /\ p.id + 1 \in Nat /\ {} \in SUBSET Dirs /\ 0 \in Nat
  BY DEF PaneRec
<1>4. q \in PaneRec
  BY <1>1, <1>2, <1>3, ZenonT(40) DEF PaneRec
<1>5. /\ q.id = p.id + 1 /\ q.opens = s[1].n /\ q.path = Nil /\ q.shown = {} /\ q.back = <<>> /\ q.fwd = <<>>
      /\ q.loading /\ q.nav = Nil /\ q.owed = 0 /\ ~q.more /\ q.ver = 0
  BY <1>2 DEF PaneRec
<1>6. Good(q, i, b, t, x, fs)
  BY <1>4, <1>5, OpenKeeps
<1> QED
  BY <1>4, <1>5, <1>6 DEF Settled, Retraces

\* The pane sees a failure or the end of the browser.
LEMMA ApplyGivenUp ==
  ASSUME NEW p \in PaneRec, NEW i \in Seq(Commands), NEW b \in BrowserRec, NEW s \in Seq(Events), NEW t,
         NEW x \in BOOLEAN, NEW fs \in [Dirs -> Nat], NEW q,
         Good(p, i, b, s, x, fs), Shorter(s, t), q = ApplyBrowser(p, s[1]),
         s[1].kind = "Closed" \/ (s[1].kind = "Failed" /\ s[1].id \in {Nil, p.id})
  PROVE  q \in PaneRec /\ Good(q, i, b, t, x, fs) /\ Settled(q) /\ Retraces(p, q)
<1>0. Lined(p)
  BY DEF Good
<1>1. CASE s[1].kind = "Closed"
  <2>0. 0 \in Nat
    OBVIOUS
  <2>1. q = [p EXCEPT !.open = FALSE, !.loading = FALSE, !.more = FALSE, !.owed = 0]
    BY <1>1 DEF ApplyBrowser, OnClosed
  <2>2. q \in PaneRec
    BY <2>0, <2>1, ZenonT(40) DEF PaneRec
  <2>3. /\ q.id = p.id /\ q.opens = p.opens /\ q.path = p.path /\ q.shown = p.shown /\ q.back = p.back /\ q.fwd = p.fwd
        /\ ~q.loading /\ q.owed = 0 /\ ~q.more /\ q.nav = p.nav /\ q.ver \in Nat
    BY <2>1 DEF PaneRec
  <2>4. NavigationFits(q)
    BY <1>0, <2>3 DEF Lined, NavigationFits
  <2>5. Good(q, i, b, t, x, fs)
    BY SMTT(40), <1>1, <2>2, <2>3, <2>4, GiveUpKeeps DEF IsEnd
  <2> QED
    BY <2>2, <2>3, <2>5 DEF Settled, Retraces
<1>2. CASE s[1].kind = "Failed" /\ s[1].id \in {Nil, p.id}
  <2>0. 0 \in Nat
    OBVIOUS
  <2>1. q = [p EXCEPT !.nav = Nil, !.loading = FALSE, !.owed = 0]
    BY <1>2 DEF ApplyBrowser, AcceptsRequest, CancelNavigation, PaneRec
  <2>2. q \in PaneRec
    BY <2>0, <2>1, ZenonT(40) DEF PaneRec
  <2>3. /\ q.id = p.id /\ q.opens = p.opens /\ q.path = p.path /\ q.shown = p.shown /\ q.back = p.back /\ q.fwd = p.fwd
        /\ ~q.loading /\ q.owed = 0 /\ q.more = p.more /\ q.nav = Nil /\ q.ver \in Nat
    BY <2>1 DEF PaneRec
  <2>4. NavigationFits(q)
    BY <2>3 DEF NavigationFits
  <2>5. Good(q, i, b, t, x, fs)
    BY SMTT(40), <1>2, <2>2, <2>3, <2>4, GiveUpKeeps DEF IsEnd
  <2> QED
    BY <2>2, <2>3, <2>5 DEF Settled, Retraces
<1> QED
  BY <1>1, <1>2

\* The pane drops an answer to a request that is not its last (accepts_request).
LEMMA ApplyIgnored ==
  ASSUME NEW p \in PaneRec, NEW i \in Seq(Commands), NEW b \in BrowserRec, NEW s \in Seq(Events), NEW t,
         NEW x \in BOOLEAN, NEW fs \in [Dirs -> Nat], NEW q,
         Good(p, i, b, s, x, fs), Paid(p), Shorter(s, t), q = ApplyBrowser(p, s[1]),
         s[1].kind \in {"Page", "Failed"}, s[1].id \notin {Nil, p.id}
  PROVE  q \in PaneRec /\ Good(q, i, b, t, x, fs) /\ Settled(q) /\ Retraces(p, q)
<1>1. q = p
  BY DEF ApplyBrowser, AcceptsRequest, PaneRec
<1>2. Good(p, i, b, t, x, fs)
  BY PassKeeps
<1> QED
  BY <1>1, <1>2 DEF Settled, Paid, Retraces

\* The pane sees the first page of a browser.
LEMMA ApplyFirst ==
  ASSUME NEW p \in PaneRec, NEW i \in Seq(Commands), NEW b \in BrowserRec, NEW s \in Seq(Events), NEW t,
         NEW x \in BOOLEAN, NEW fs \in [Dirs -> Nat], NEW q,
         Good(p, i, b, s, x, fs), Shorter(s, t), q = ApplyBrowser(p, s[1]), IsFirst(s[1])
  PROVE  q \in PaneRec /\ Good(q, i, b, t, x, fs) /\ Settled(q) /\ Retraces(p, q)
<1>0. /\ InTurn(b, s) /\ FirstPages(p, i, b, s) /\ Expected(p, i, b) /\ Answered(p, s) /\ InStep(p, i, b, s, x)
      /\ Lined(p) /\ Owes(p, s, fs)
  BY DEF Good
<1>1. /\ s[1].path \in Dirs /\ s[1].path # Nil /\ s[1].ver \in Nat /\ s[1].more \in BOOLEAN /\ ~s[1].append
      /\ s[1].kind = "Page" /\ s[1].id = Nil
  <2>1. s[1] \in Events
    BY DEF Shorter
  <2> QED
    BY <2>1, EventFacts, DirFacts DEF IsFirst
<1>2. Over(p, i, b, t) /\ p.path = Nil /\ p.nav = Nil
  BY <1>0, OverAfterFirst DEF Opening
<1>3. q = [p EXCEPT !.open = TRUE, !.loading = FALSE, !.nav = Nil, !.path = s[1].path, !.shown = {s[1].path},
                    !.ver = s[1].ver, !.more = s[1].more, !.owed = 0]
  BY <1>1, <1>2 DEF ApplyBrowser, AcceptsRequest, OnPage, CompleteHistory, PaneRec
<1>4. {s[1].path} \in SUBSET Dirs /\ 0 \in Nat
  BY <1>1
<1>5. q \in PaneRec
  BY <1>1, <1>3, <1>4, ZenonT(40) DEF PaneRec
<1>6. /\ q.id = p.id /\ q.opens = p.opens /\ q.open /\ ~q.loading /\ q.nav = Nil /\ q.path = s[1].path /\ q.shown = {s[1].path}
      /\ q.back = p.back /\ q.fwd = p.fwd /\ q.owed = 0 /\ q.ver \in Nat /\ fs[q.path] \in Nat
  BY <1>1, <1>3 DEF PaneRec
<1>7. Line(q.back, q.fwd, q.path)
  <2>1. p.back = <<>> /\ p.fwd = <<>>
    BY <1>0, <1>2 DEF Lined, Line
  <2> QED
    BY <1>1, <1>6, <2>1, HistoryAssumption DEF Line, Steps
<1>8. Clean(q, b, t, x) => Clean(p, b, s, x)
  BY <1>2, <1>6 DEF Clean, Over, AnswerAt, Travelled
<1>9. Good(q, i, b, t, x, fs)
  BY <1>1, <1>2, <1>5, <1>6, <1>7, <1>8, ShowKeeps
<1> QED
  BY <1>2, <1>5, <1>6, <1>9 DEF Settled, Retraces

\* The pane sees a further page of its directory.
LEMMA ApplyMore ==
  ASSUME NEW p \in PaneRec, NEW i \in Seq(Commands), NEW b \in BrowserRec, NEW s \in Seq(Events), NEW t,
         NEW x \in BOOLEAN, NEW fs \in [Dirs -> Nat], NEW q,
         Good(p, i, b, s, x, fs), Paid(p), Shorter(s, t), q = ApplyBrowser(p, s[1]),
         s[1].kind = "Page", s[1].id = p.id, s[1].append
  PROVE  q \in PaneRec /\ Good(q, i, b, t, x, fs) /\ Settled(q) /\ Retraces(p, q)
<1>0. /\ InTurn(b, s) /\ Numbered(p, b, s) /\ Asked(p, i, b, s) /\ FirstPages(p, i, b, s) /\ Expected(p, i, b)
      /\ Answered(p, s) /\ InStep(p, i, b, s, x) /\ Lined(p) /\ Owes(p, s, fs)
  BY DEF Good
<1>1. /\ s[1].path \in Dirs /\ s[1].path # Nil /\ s[1].more \in BOOLEAN /\ 1 \in 1 .. Len(s)
  <2>1. s[1] \in Events /\ 1 \in 1 .. Len(s)
    BY DEF Shorter
  <2> QED
    BY <2>1, EventFacts, DirFacts
<1>2. AnswerAt(p, s, 1)
  BY DEF AnswerAt, OpenedIn
<1>3. p.loading /\ p.nav = Nil /\ (s[1].path = p.path \/ (x /\ p.back = <<>> /\ p.fwd = <<>>))
  BY <1>0, <1>1, <1>2 DEF Answered, InStep
<1>4. Over(p, i, b, t)
  BY <1>0, OverAfterAnswer DEF AnswersTo
<1>5. PICK o \in Nat : o = IF s[1].path = p.path THEN p.owed ELSE 0
  BY DEF PaneRec
<1>6. q = [p EXCEPT !.open = TRUE, !.loading = FALSE, !.path = s[1].path, !.shown = p.shown \cup {s[1].path},
                    !.more = s[1].more, !.owed = o]
  BY <1>1, <1>5 DEF ApplyBrowser, AcceptsRequest, OnPage, PaneRec
<1>7. p.shown \cup {s[1].path} \in SUBSET Dirs
  BY <1>1 DEF PaneRec
<1>8. q \in PaneRec
  BY <1>1, <1>5, <1>6, <1>7, ZenonT(40) DEF PaneRec
<1>9. /\ q.id = p.id /\ q.opens = p.opens /\ q.open /\ ~q.loading /\ q.nav = Nil /\ q.path = s[1].path
      /\ q.shown = p.shown \cup {s[1].path} /\ q.auto = p.auto
      /\ q.back = p.back /\ q.fwd = p.fwd /\ q.owed = o /\ q.ver = p.ver /\ q.ver \in Nat /\ fs[q.path] \in Nat
  BY <1>1, <1>3, <1>6 DEF PaneRec
<1>10. Line(q.back, q.fwd, q.path)
  <2>1. CASE s[1].path = p.path
    BY <2>1, <1>0, <1>9 DEF Lined
  <2>2. CASE p.back = <<>> /\ p.fwd = <<>>
    BY <1>1, <1>9, <2>2, HistoryAssumption DEF Line, Steps
  <2> QED
    BY <1>3, <2>1, <2>2
<1>11. Clean(q, b, t, x) => Clean(p, b, s, x) /\ s[1].path = p.path
  <2>1. Clean(q, b, t, x) => ~x \/ Travelled(p, b)
    BY <1>4, <1>9 DEF Clean, Over, AnswerAt, Travelled
  <2> QED
    BY <2>1, <1>3 DEF Clean, Travelled
<1>12. q.owed <= fs[q.path]
  BY <1>0, <1>1, <1>5, <1>9 DEF Owes
<1>13. ~x => q.shown \in {{}, {q.path}}
  BY <1>0, <1>3, <1>9 DEF InStep
<1>14. Good(q, i, b, t, x, fs)
  BY <1>4, <1>8, <1>9, <1>10, <1>11, <1>12, <1>13, ShowKeeps
<1>15. Settled(q)
  BY <1>3, <1>5, <1>9 DEF Settled, Paid
<1> QED
  BY <1>3, <1>8, <1>14, <1>15 DEF Retraces

\* The pane sees the listing that it asked for.
LEMMA ApplyListed ==
  ASSUME NEW p \in PaneRec, NEW i \in Seq(Commands), NEW b \in BrowserRec, NEW s \in Seq(Events), NEW t,
         NEW x \in BOOLEAN, NEW fs \in [Dirs -> Nat], NEW q, NEW y,
         Good(p, i, b, s, x, fs), Shorter(s, t), q = ApplyBrowser(p, s[1]),
         s[1].kind = "Page", s[1].id = p.id, ~s[1].append,
         y = (x /\ ~(s[1].kind = "Page" /\ s[1].id = p.id /\ ~s[1].append))
  PROVE  q \in PaneRec /\ Good(q, i, b, t, y, fs) /\ Settled(q) /\ Retraces(p, q)
<1>0. /\ InTurn(b, s) /\ Numbered(p, b, s) /\ Asked(p, i, b, s) /\ FirstPages(p, i, b, s) /\ Expected(p, i, b)
      /\ Answered(p, s) /\ InStep(p, i, b, s, x) /\ Lined(p) /\ Owes(p, s, fs)
  BY DEF Good
<1>1. /\ s[1].path \in Dirs /\ s[1].path # Nil /\ s[1].more \in BOOLEAN /\ s[1].ver \in Nat /\ 1 \in 1 .. Len(s)
  <2>1. s[1] \in Events /\ 1 \in 1 .. Len(s)
    BY DEF Shorter
  <2> QED
    BY <2>1, EventFacts, DirFacts
<1>2. AnswerAt(p, s, 1)
  BY DEF AnswerAt, OpenedIn
<1>3. p.loading /\ p.nav # Nil /\ s[1].path = Resolved[p.nav.to]
  BY <1>0, <1>1, <1>2 DEF Answered
<1>4. Over(p, i, b, t) /\ i = <<>> /\ b.queue = <<>>
  BY <1>0, OverAfterAnswer DEF AnswersTo
<1>5. PICK o \in Nat : o = IF s[1].path = p.path THEN p.owed ELSE 0
  BY DEF PaneRec
<1>6. PICK u \in Seq(Dirs), v \in Seq(Dirs) :
            /\ CompleteHistory(p, s[1].path) = [p EXCEPT !.back = u, !.fwd = v]
            /\ Line(u, v, s[1].path)
            /\ p.nav.kind \in {"Back", "Forward"} /\ s[1].path # p.path =>
                 Visits(u, s[1].path, v) = Timeline(p)
  <2>1. Line(p.back, p.fwd, p.path) /\ NavigationFits(p)
    BY <1>0 DEF Lined
  <2>2. PICK d \in Dirs : d = s[1].path
    BY <1>1
  <2>3. \E u \in Seq(Dirs), v \in Seq(Dirs) :
            /\ CompleteHistory(p, d) = [p EXCEPT !.back = u, !.fwd = v]
            /\ Line(u, v, d)
            /\ p.nav.kind \in {"Back", "Forward"} /\ d # p.path => Visits(u, d, v) = Timeline(p)
    BY <1>3, <2>1, <2>2, CompleteFits
  <2> QED
    BY <2>2, <2>3
<1>7. q = [p EXCEPT !.back = u, !.fwd = v, !.open = TRUE, !.loading = FALSE, !.nav = Nil, !.path = s[1].path,
                    !.shown = {s[1].path}, !.ver = s[1].ver, !.more = s[1].more, !.owed = o]
  <2>1. q = [CompleteHistory(p, s[1].path) EXCEPT
               !.open = TRUE, !.loading = FALSE, !.nav = Nil, !.path = s[1].path, !.shown = {s[1].path},
               !.ver = s[1].ver, !.more = s[1].more, !.owed = IF s[1].path = p.path THEN @ ELSE 0]
    BY DEF ApplyBrowser, AcceptsRequest, OnPage
  <2>2. PICK r \in PaneRec : r = [p EXCEPT !.back = u, !.fwd = v]
    BY ZenonT(40) DEF PaneRec
  <2>3. r.owed = p.owed
    BY <2>2 DEF PaneRec
  <2>4. q = [r EXCEPT !.open = TRUE, !.loading = FALSE, !.nav = Nil, !.path = s[1].path, !.shown = {s[1].path},
                      !.ver = s[1].ver, !.more = s[1].more, !.owed = o]
    BY <1>5, <1>6, <2>1, <2>2, <2>3 DEF PaneRec
  <2> QED
    BY <2>2, <2>4 DEF PaneRec
<1>8. {s[1].path} \in SUBSET Dirs
  BY <1>1
<1>9. q \in PaneRec
  BY <1>1, <1>5, <1>7, <1>8, ZenonT(40) DEF PaneRec
<1>10. /\ q.id = p.id /\ q.opens = p.opens /\ q.open /\ ~q.loading /\ q.nav = Nil /\ q.path = s[1].path
       /\ q.shown = {s[1].path} /\ q.auto = p.auto
       /\ q.back = u /\ q.fwd = v /\ q.owed = o /\ q.ver = s[1].ver /\ fs[q.path] \in Nat
  BY <1>1, <1>7 DEF PaneRec
<1>11. Line(q.back, q.fwd, q.path)
  BY <1>6, <1>10
<1>12. Clean(p, b, s, x)
  BY <1>1, <1>2 DEF Clean
<1>13. q.owed <= fs[q.path]
  BY <1>0, <1>1, <1>5, <1>10 DEF Owes
<1>14. Good(q, i, b, t, FALSE, fs)
  BY <1>4, <1>9, <1>10, <1>11, <1>12, <1>13, ShowKeeps
<1>15. Settled(q)
  BY <1>0, <1>1, <1>2, <1>5, <1>10 DEF Settled, Owes
<1>16. Retraces(p, q)
  <2>1. Timeline(q) = Visits(u, s[1].path, v)
    BY <1>10 DEF Timeline, Visits
  <2> QED
    BY <1>6, <1>10, <2>1 DEF Retraces
<1>17. y = FALSE
  OBVIOUS
<1> QED
  BY <1>9, <1>14, <1>15, <1>16, <1>17

\* What the pane makes of any event of the browser.
LEMMA ApplyKeeps ==
  ASSUME NEW p \in PaneRec, NEW i \in Seq(Commands), NEW b \in BrowserRec, NEW s \in Seq(Events), NEW t,
         NEW x \in BOOLEAN, NEW fs \in [Dirs -> Nat], NEW q, NEW y,
         Good(p, i, b, s, x, fs), Paid(p), Shorter(s, t), q = ApplyBrowser(p, s[1]), s[1].kind # "Changed",
         y = (x /\ ~(s[1].kind = "Page" /\ s[1].id = p.id /\ ~s[1].append))
  PROVE  q \in PaneRec /\ Good(q, i, b, t, y, fs) /\ Settled(q) /\ Retraces(p, q)
<1>1. s[1].kind \in {"Page", "Failed", "Opened", "Closed"} /\ p.id # Nil
  <2>1. s[1] \in Events
    BY DEF Shorter
  <2> QED
    BY <2>1, EventFacts, BrowserAssumption DEF PaneRec
<1>2. CASE s[1].kind = "Opened"
  <2>1. y = x
    BY <1>2
  <2> QED
    BY <1>2, <2>1, ApplyOpened
<1>3. CASE s[1].kind = "Closed" \/ (s[1].kind = "Failed" /\ s[1].id \in {Nil, p.id})
  <2>1. y = x
    BY <1>3
  <2> QED
    BY <1>3, <2>1, ApplyGivenUp
<1>4. CASE s[1].kind \in {"Page", "Failed"} /\ s[1].id \notin {Nil, p.id}
  <2>1. y = x
    BY <1>4
  <2> QED
    BY <1>4, <2>1, ApplyIgnored
<1>5. CASE IsFirst(s[1])
  <2>1. y = x
    BY <1>1, <1>5 DEF IsFirst
  <2> QED
    BY <1>5, <2>1, ApplyFirst
<1>6. CASE s[1].kind = "Page" /\ s[1].id = p.id /\ s[1].append
  <2>1. y = x
    BY <1>6
  <2> QED
    BY <1>6, <2>1, ApplyMore
<1>7. CASE s[1].kind = "Page" /\ s[1].id = p.id /\ ~s[1].append
  BY <1>7, ApplyListed
<1> QED
  BY <1>1, <1>2, <1>3, <1>4, <1>5, <1>6, <1>7 DEF IsFirst

\* A request is given, or refused at once.
LEMMA RequestsKeep ==
  ASSUME NEW p \in PaneRec, NEW i \in Seq(Commands), NEW b \in BrowserRec, NEW s \in Seq(Events),
         NEW x \in BOOLEAN, NEW fs \in [Dirs -> Nat],
         Good(p, i, b, s, x, fs), ~p.loading, NEW kind \in Kinds, NEW to \in Names,
         kind = "Back" => p.back # <<>> /\ to = Last(p.back),
         kind = "Forward" => p.fwd # <<>> /\ to = Last(p.fwd),
         NEW r \in Requests(p, kind, to)
  PROVE  /\ r.pane \in PaneRec /\ r.cmd \in Seq(Commands)
         /\ Good(r.pane, i \o r.cmd, b, s, x, fs) /\ Paid(r.pane)
         /\ r.pane.path = p.path /\ r.pane.back = p.back /\ r.pane.fwd = p.fwd /\ r.pane.opens = p.opens
<1>0. Owes(p, s, fs) /\ Lined(p)
  BY DEF Good
<1>1. PICK n \in Navigations : n = [kind |-> kind, from |-> p.path, to |-> to]
  BY DEF Navigations, PaneRec
<1>2. n # Nil /\ n.kind = kind /\ n.from = p.path /\ n.to = to
  BY <1>1, HistoryNil
<1>3. PICK g \in PaneRec : g = [p EXCEPT !.nav = n, !.loading = TRUE, !.id = p.id + 1]
  <2>1. p.id + 1 \in Nat
    BY DEF PaneRec
  <2> QED
    BY <2>1, ZenonT(40) DEF PaneRec
<1>4. g = BeginNavigation(p, kind, to)
  BY <1>1, <1>3 DEF BeginNavigation, PaneRec
<1>5. /\ g.nav = n /\ g.loading /\ g.id = p.id + 1 /\ g.path = p.path /\ g.back = p.back /\ g.fwd = p.fwd
      /\ g.open = p.open /\ g.opens = p.opens /\ g.shown = p.shown /\ g.more = p.more /\ g.owed = p.owed /\ g.id \in Nat
  BY <1>3 DEF PaneRec
<1>6. CASE r = [pane |-> g, cmd |-> <<[kind |-> "List", id |-> g.id, path |-> to, n |-> p.opens]>>]
  <2>1. PICK c \in Commands : c = [kind |-> "List", id |-> g.id, path |-> to, n |-> p.opens]
    BY <1>5 DEF Commands, PaneRec
  <2>2. r.pane = g /\ r.cmd = <<c>>
    BY <1>6, <2>1
  <2>3. i \o <<c>> = Append(i, c) /\ <<c>> \in Seq(Commands)
    OBVIOUS
  <2>4. c.id = g.id /\ c.n = g.opens /\ Meant(g, c)
    BY <1>2, <1>5, <2>1 DEF Meant
  <2>5. NavigationFits(g)
    BY <1>2, <1>5 DEF NavigationFits
  <2>6. ~Opening(g) /\ Renewed(p, g) /\ Paid(g)
    BY <1>2, <1>5 DEF Opening, Renewed, Paid
  <2>7. (~g.open \/ g.path = Nil => g.owed = 0) /\ (g.path # Nil => g.owed <= fs[g.path])
    BY <1>0, <1>5 DEF Owes
  <2>8. Good(g, Append(i, c), b, s, x, fs)
    BY <1>5, <2>4, <2>5, <2>6, <2>7, RequestKeeps
  <2> QED
    BY <1>5, <2>2, <2>3, <2>6, <2>8
<1>7. CASE r = [pane |-> [CancelNavigation(g) EXCEPT !.owed = 0], cmd |-> <<>>]
  <2>1. PICK h \in PaneRec : h = [g EXCEPT !.nav = Nil, !.loading = FALSE, !.owed = 0]
    <3>1. 0 \in Nat
      OBVIOUS
    <3> QED
      BY <3>1, ZenonT(40) DEF PaneRec
  <2>2. h = [CancelNavigation(g) EXCEPT !.owed = 0]
    BY <2>1 DEF CancelNavigation, PaneRec
  <2>3. r.pane = h /\ r.cmd = <<>> /\ <<>> \in Seq(Commands)
    BY <1>7, <2>2
  <2>4. i \o <<>> = i
    BY ConcatEmptySeq
  <2>5. /\ h.nav = Nil /\ ~h.loading /\ h.id = p.id + 1 /\ h.path = p.path /\ h.back = p.back /\ h.fwd = p.fwd
        /\ h.open = p.open /\ h.opens = p.opens /\ h.shown = p.shown /\ h.more = p.more /\ h.owed = 0
    BY <1>5, <2>1 DEF PaneRec
  <2>6. NavigationFits(h) /\ ~Opening(h) /\ Renewed(p, h) /\ h.ver \in Nat
    BY <2>5 DEF NavigationFits, Opening, Renewed, PaneRec
  <2>7. h.path # Nil => h.owed <= fs[h.path]
    <3>1. h.path # Nil => h.path \in Dirs
      BY DEF PaneRec
    <3> QED
      BY <2>5, <3>1
  <2>8. Good(h, i, b, s, x, fs)
    BY <2>5, <2>6, <2>7, RequestKeeps
  <2>9. Paid(h)
    BY <2>5, <2>6 DEF Paid
  <2> QED
    BY <2>3, <2>4, <2>5, <2>8, <2>9
<1> QED
  BY <1>4, <1>6, <1>7 DEF Requests

\* A refresh that was left to the listing under way is given once it ended.
LEMMA AutoRefreshKeeps ==
  ASSUME NEW p \in PaneRec, NEW i \in Seq(Commands), NEW b \in BrowserRec, NEW s \in Seq(Events),
         NEW x \in BOOLEAN, NEW fs \in [Dirs -> Nat],
         Good(p, i, b, s, x, fs), Settled(p), NEW r \in AutoRefresh(p)
  PROVE  /\ r.pane \in PaneRec /\ r.cmd \in Seq(Commands)
         /\ Good(r.pane, i \o r.cmd, b, s, x, fs) /\ Paid(r.pane)
         /\ r.pane.path = p.path /\ r.pane.back = p.back /\ r.pane.fwd = p.fwd /\ r.pane.opens = p.opens
<1>0. i \o <<>> = i /\ <<>> \in Seq(Commands)
  BY ConcatEmptySeq
<1>1. Owes(p, s, fs) /\ Answered(p, s) /\ p.owed \in Nat /\ p.ver \in Nat
  BY DEF Good, PaneRec
<1>2. CASE p.loading \/ p.auto = Nil
  <2>1. r.pane = p /\ r.cmd = <<>>
    BY <1>2 DEF AutoRefresh
  <2>2. Paid(p)
    <3>1. CASE p.loading
      BY <3>1 DEF Settled, Paid
    <3>2. CASE ~p.loading
      <4>1. p.auto = Nil
        BY <1>2, <3>2
      <4>2. p.path = Nil => p.owed <= p.ver
        BY <1>1 DEF Owes
      <4> QED
        BY <3>2, <4>1, <4>2 DEF Settled, Paid
    <3> QED
      BY <3>1, <3>2
  <2> QED
    BY <1>0, <2>1, <2>2
<1>3. CASE ~p.loading /\ p.auto # Nil
  <2>1. PICK q \in PaneRec : q = [p EXCEPT !.auto = Nil]
    BY ZenonT(40) DEF PaneRec
  <2>2. /\ q.open = p.open /\ q.loading = p.loading /\ q.id = p.id /\ q.nav = p.nav /\ q.path = p.path /\ q.shown = p.shown
        /\ q.more = p.more /\ q.back = p.back /\ q.fwd = p.fwd /\ q.opens = p.opens /\ q.owed = p.owed /\ q.ver = p.ver
    BY <2>1 DEF PaneRec
  <2>3. Owes(q, s, fs)
    <3>1. \A k \in 1 .. Len(s) : ~AnswerAt(q, s, k)
      BY <1>1, <1>3, <2>2 DEF Answered, AnswerAt
    <3> QED
      BY <1>1, <2>2, <3>1 DEF Owes
  <2>4. Good(q, i, b, s, x, fs)
    BY <2>2, <2>3, NoteKeeps
  <2>5. CASE ~p.open \/ p.path # p.auto
    <3>1. r.pane = q /\ r.cmd = <<>>
      BY <1>3, <2>1, <2>5 DEF AutoRefresh
    <3>2. Paid(q)
      <4>1. p.owed <= p.ver
        BY <1>1, <1>3, <2>5 DEF Settled, Owes
      <4> QED
        BY <2>2, <4>1 DEF Paid
    <3> QED
      BY <1>0, <2>2, <2>4, <3>1, <3>2
  <2>6. CASE p.open /\ p.path = p.auto
    <3>1. r \in Requests(q, "Direct", q.path)
      BY <1>3, <2>1, <2>2, <2>6 DEF AutoRefresh
    <3>2. "Direct" \in Kinds /\ q.path \in Names /\ ~q.loading
      BY <1>3, <2>2, <2>6, DirFacts DEF Kinds, PaneRec
    <3>3. /\ r.pane \in PaneRec /\ r.cmd \in Seq(Commands)
          /\ Good(r.pane, i \o r.cmd, b, s, x, fs) /\ Paid(r.pane)
          /\ r.pane.path = q.path /\ r.pane.back = q.back /\ r.pane.fwd = q.fwd /\ r.pane.opens = q.opens
      BY SMTT(40), <2>4, <3>1, <3>2, RequestsKeep
    <3> QED
      BY <2>2, <3>3
  <2> QED
    BY <2>5, <2>6
<1> QED
  BY <1>2, <1>3

\* A change of the directory shown is listed again, or left to the listing under way.
LEMMA OnChangeKeeps ==
  ASSUME NEW p \in PaneRec, NEW i \in Seq(Commands), NEW b \in BrowserRec, NEW s \in Seq(Events), NEW t \in Seq(Events),
         NEW x \in BOOLEAN, NEW fs \in [Dirs -> Nat],
         Good(p, i, b, s, x, fs), Paid(p), Shorter(s, t), s[1].kind = "Changed", NEW r \in OnChange(p, s[1])
  PROVE  /\ r.pane \in PaneRec /\ r.cmd \in Seq(Commands)
         /\ Good(r.pane, i \o r.cmd, b, t, x, fs) /\ Paid(r.pane)
         /\ r.pane.path = p.path /\ r.pane.back = p.back /\ r.pane.fwd = p.fwd /\ r.pane.opens = p.opens
<1>0. i \o <<>> = i /\ <<>> \in Seq(Commands)
  BY ConcatEmptySeq
<1>1. s[1] \in Events /\ s[1].path \in Dirs /\ s[1].ver \in Nat /\ s[1].path # Nil /\ 1 \in 1 .. Len(s)
  <2>1. s[1] \in Events /\ 1 \in 1 .. Len(s)
    BY DEF Shorter
  <2> QED
    BY <2>1, EventFacts, DirFacts
<1>2. Good(p, i, b, t, x, fs)
  BY PassKeeps
<1>3. Owes(p, t, fs) /\ Answered(p, t) /\ p.owed \in Nat /\ p.ver \in Nat
  BY <1>2 DEF Good, PaneRec
<1>4. s[1].ver <= fs[s[1].path]
  BY <1>1 DEF Good, Owes
<1>5. CASE ~p.open \/ p.path # s[1].path
  <2>1. r.pane = p /\ r.cmd = <<>>
    BY <1>5 DEF OnChange
  <2> QED
    BY <1>0, <1>2, <2>1
<1>6. CASE p.open /\ p.path = s[1].path /\ p.loading
  <2>1. PICK q \in PaneRec : q = [p EXCEPT !.owed = s[1].ver, !.auto = s[1].path]
    BY <1>1, ZenonT(40) DEF PaneRec
  <2>2. r.pane = q /\ r.cmd = <<>>
    BY <1>6, <2>1 DEF OnChange, ChangeWhileLoading, PaneRec
  <2>3. /\ q.open = p.open /\ q.loading = p.loading /\ q.id = p.id /\ q.nav = p.nav /\ q.path = p.path /\ q.shown = p.shown
        /\ q.more = p.more /\ q.back = p.back /\ q.fwd = p.fwd /\ q.opens = p.opens /\ q.owed = s[1].ver /\ q.ver = p.ver
        /\ q.auto = p.path
    BY <1>6, <2>1 DEF PaneRec
  <2>4. Owes(q, t, fs)
    BY <1>1, <1>3, <1>4, <1>6, <2>3 DEF Owes
  <2>5. Good(q, i, b, t, x, fs)
    BY <1>2, <2>3, <2>4, NoteKeeps
  <2>6. Paid(q)
    BY <1>6, <2>3 DEF Paid
  <2> QED
    BY <1>0, <2>2, <2>3, <2>5, <2>6
<1>7. CASE p.open /\ p.path = s[1].path /\ ~p.loading
  <2>1. PICK q \in PaneRec : q = [p EXCEPT !.owed = s[1].ver]
    BY <1>1, ZenonT(40) DEF PaneRec
  <2>2. r \in Requests(q, "Direct", s[1].path)
    BY <1>7, <2>1 DEF OnChange
  <2>3. /\ q.open = p.open /\ q.loading = p.loading /\ q.id = p.id /\ q.nav = p.nav /\ q.path = p.path /\ q.shown = p.shown
        /\ q.more = p.more /\ q.back = p.back /\ q.fwd = p.fwd /\ q.opens = p.opens /\ q.owed = s[1].ver
    BY <1>7, <2>1 DEF PaneRec
  <2>4. Owes(q, t, fs)
    <3>1. \A k \in 1 .. Len(t) : ~AnswerAt(q, t, k)
      BY <1>3, <1>7, <2>3 DEF Answered, AnswerAt
    <3> QED
      BY <1>1, <1>3, <1>4, <1>7, <2>3, <3>1 DEF Owes
  <2>5. Good(q, i, b, t, x, fs)
    BY <1>2, <2>3, <2>4, NoteKeeps
  <2>6. "Direct" \in Kinds /\ s[1].path \in Names /\ ~q.loading
    BY <1>1, <1>7, <2>3, DirFacts DEF Kinds
  <2>7. /\ r.pane \in PaneRec /\ r.cmd \in Seq(Commands)
        /\ Good(r.pane, i \o r.cmd, b, t, x, fs) /\ Paid(r.pane)
        /\ r.pane.path = q.path /\ r.pane.back = q.back /\ r.pane.fwd = q.fwd /\ r.pane.opens = q.opens
    BY <2>2, <2>5, <2>6, RequestsKeep
  <2> QED
    BY <2>3, <2>7
<1> QED
  BY <1>5, <1>6, <1>7

-----------------------------------------------------------------------------
(* The stream and its two channels.                                         *)

\* An event sent by the browser ends the stream.
LEMMA SentLonger ==
  ASSUME NEW f \in Seq(Events), NEW g \in Seq(Events), NEW e \in Events
  PROVE  /\ f \o g \in Seq(Events) /\ f \o Append(g, e) \in Seq(Events) /\ Append(g, e) \in Seq(Events)
         /\ Longer(f \o g, f \o Append(g, e), e)
<1>1. /\ f \o g \in Seq(Events) /\ Append(g, e) \in Seq(Events) /\ Len(f) \in Nat /\ Len(g) \in Nat
      /\ Len(f \o g) = Len(f) + Len(g) /\ Len(Append(g, e)) = Len(g) + 1
      /\ Append(g, e)[Len(g) + 1] = e /\ \A k \in 1 .. Len(g) : Append(g, e)[k] = g[k]
  OBVIOUS
<1>2. PICK h \in Seq(Events) : h = Append(g, e)
  BY <1>1
<1>3. /\ f \o h \in Seq(Events) /\ Len(f \o h) = Len(f) + Len(h)
      /\ \A k \in 1 .. Len(f) + Len(h) : (f \o h)[k] = IF k <= Len(f) THEN f[k] ELSE h[k - Len(f)]
      /\ \A k \in 1 .. Len(f) + Len(g) : (f \o g)[k] = IF k <= Len(f) THEN f[k] ELSE g[k - Len(f)]
  BY <1>1
<1>4. Longer(f \o g, f \o h, e)
  <2>1. Len(f \o g) \in Nat /\ Len(f \o h) = Len(f \o g) + 1
    BY <1>1, <1>2, <1>3
  <2>2. (f \o h)[Len(f \o g) + 1] = e
    <3>1. Len(f) + Len(g) + 1 \in 1 .. Len(f) + Len(h) /\ ~(Len(f) + Len(g) + 1 <= Len(f)) /\ Len(f) + Len(g) + 1 - Len(f) = Len(g) + 1
      BY <1>1, <1>2
    <3> QED
      BY <3>1, <1>1, <1>2, <1>3
  <2>3. ASSUME NEW k \in 1 .. Len(f \o g) PROVE (f \o h)[k] = (f \o g)[k]
    <3>1. k \in 1 .. Len(f) + Len(g) /\ k \in 1 .. Len(f) + Len(h)
      BY <1>1, <1>2
    <3>2. k > Len(f) => k - Len(f) \in 1 .. Len(g)
      BY <1>1, <3>1
    <3> QED
      BY <3>1, <3>2, <1>1, <1>2, <1>3
  <2> QED
    BY <2>1, <2>2, <2>3 DEF Longer
<1> QED
  BY <1>1, <1>2, <1>3, <1>4

\* An event of the loop's own enters the stream before what is still in the pipe.
LEMMA ReportedInserted ==
  ASSUME NEW f \in Seq(Events), NEW g \in Seq(Events), NEW e \in Events
  PROVE  /\ f \o g \in Seq(Events) /\ Append(f, e) \o g \in Seq(Events) /\ Append(f, e) \in Seq(Events)
         /\ Inserted(f \o g, Append(f, e) \o g, Len(f), e)
<1>1. /\ f \o g \in Seq(Events) /\ Append(f, e) \in Seq(Events) /\ Len(f) \in Nat /\ Len(g) \in Nat
      /\ Len(f \o g) = Len(f) + Len(g) /\ Len(Append(f, e)) = Len(f) + 1
      /\ Append(f, e)[Len(f) + 1] = e /\ \A k \in 1 .. Len(f) : Append(f, e)[k] = f[k]
  OBVIOUS
<1>2. PICK h \in Seq(Events) : h = Append(f, e)
  BY <1>1
<1>3. /\ h \o g \in Seq(Events) /\ Len(h \o g) = Len(h) + Len(g)
      /\ \A k \in 1 .. Len(h) + Len(g) : (h \o g)[k] = IF k <= Len(h) THEN h[k] ELSE g[k - Len(h)]
      /\ \A k \in 1 .. Len(f) + Len(g) : (f \o g)[k] = IF k <= Len(f) THEN f[k] ELSE g[k - Len(f)]
  BY <1>1
<1>4. Inserted(f \o g, h \o g, Len(f), e)
  <2>1. Len(f \o g) \in Nat /\ Len(f) \in 0 .. Len(f \o g) /\ Len(h \o g) = Len(f \o g) + 1
    BY <1>1, <1>2, <1>3
  <2>2. (h \o g)[Len(f) + 1] = e
    BY <1>1, <1>2, <1>3
  <2>3. ASSUME NEW k \in 1 .. Len(f) PROVE (h \o g)[k] = (f \o g)[k]
    <3>1. k \in 1 .. Len(f) + Len(g) /\ k \in 1 .. Len(h) + Len(g) /\ k <= Len(f) /\ k <= Len(h)
      BY <1>1, <1>2
    <3> QED
      BY <3>1, <1>1, <1>2, <1>3
  <2>4. ASSUME NEW k \in Len(f) + 1 .. Len(f \o g) PROVE (h \o g)[k + 1] = (f \o g)[k]
    <3>1. /\ k \in 1 .. Len(f) + Len(g) /\ k + 1 \in 1 .. Len(h) + Len(g) /\ ~(k <= Len(f)) /\ ~(k + 1 <= Len(h))
          /\ k + 1 - Len(h) = k - Len(f)
      BY <1>1, <1>2
    <3>2. (h \o g)[k + 1] = g[k + 1 - Len(h)] /\ (f \o g)[k] = g[k - Len(f)]
      BY <3>1, <1>3
    <3> QED
      BY <3>1, <3>2
  <2> QED
    BY <2>1, <2>2, <2>3, <2>4 DEF Inserted
<1> QED
  BY <1>1, <1>2, <1>3, <1>4

\* The pane takes the first event of the stream.
LEMMA TakenShorter ==
  ASSUME NEW f \in Seq(Events), NEW g \in Seq(Events), f # <<>>
  PROVE  /\ f \o g \in Seq(Events) /\ Tail(f) \o g \in Seq(Events) /\ Tail(f) \in Seq(Events)
         /\ Shorter(f \o g, Tail(f) \o g) /\ (f \o g)[1] = Head(f)
<1>1. /\ f \o g \in Seq(Events) /\ Tail(f) \in Seq(Events) /\ Len(f) \in Nat /\ Len(f) > 0 /\ Len(g) \in Nat
      /\ Len(f \o g) = Len(f) + Len(g) /\ Len(Tail(f)) = Len(f) - 1
      /\ Head(f) = f[1] /\ \A k \in 1 .. Len(f) - 1 : Tail(f)[k] = f[k + 1]
  OBVIOUS
<1>2. PICK h \in Seq(Events) : h = Tail(f)
  BY <1>1
<1>3. /\ h \o g \in Seq(Events) /\ Len(h \o g) = Len(h) + Len(g)
      /\ \A k \in 1 .. Len(h) + Len(g) : (h \o g)[k] = IF k <= Len(h) THEN h[k] ELSE g[k - Len(h)]
      /\ \A k \in 1 .. Len(f) + Len(g) : (f \o g)[k] = IF k <= Len(f) THEN f[k] ELSE g[k - Len(f)]
  BY <1>1
<1>4. Shorter(f \o g, h \o g)
  <2>1. Len(f \o g) \in Nat /\ Len(f \o g) > 0 /\ Len(h \o g) = Len(f \o g) - 1
    BY <1>1, <1>2, <1>3
  <2>2. ASSUME NEW k \in 1 .. Len(h \o g) PROVE (h \o g)[k] = (f \o g)[k + 1]
    <3>1. k \in 1 .. Len(h) + Len(g) /\ k + 1 \in 1 .. Len(f) + Len(g) /\ (k <= Len(h) <=> k + 1 <= Len(f))
      BY <1>1, <1>2, <1>3
    <3>2. CASE k <= Len(h)
      BY <3>1, <3>2, <1>1, <1>2, <1>3
    <3>3. CASE ~(k <= Len(h))
      <4>1. (h \o g)[k] = g[k - Len(h)] /\ (f \o g)[k + 1] = g[k + 1 - Len(f)] /\ k + 1 - Len(f) = k - Len(h)
        BY <3>1, <3>3, <1>1, <1>2, <1>3
      <4> QED
        BY <4>1
    <3> QED
      BY <3>2, <3>3
  <2> QED
    BY <2>1, <2>2 DEF Shorter
<1>5. (f \o g)[1] = Head(f)
  BY <1>1, <1>3
<1> QED
  BY <1>1, <1>2, <1>3, <1>4, <1>5

\* Forwarding an event changes nothing for the pane.
LEMMA ForwardSame ==
  ASSUME NEW f \in Seq(Events), NEW g \in Seq(Events), g # <<>>
  PROVE  /\ Append(f, Head(g)) \in Seq(Events) /\ Tail(g) \in Seq(Events) /\ Head(g) \in Events
         /\ Append(f, Head(g)) \o Tail(g) = f \o g
<1>1. Head(g) \in Events /\ Tail(g) \in Seq(Events) /\ <<Head(g)>> \o Tail(g) = g /\ <<Head(g)>> \in Seq(Events)
  OBVIOUS
<1>2. Append(f, Head(g)) = f \o <<Head(g)>> /\ Append(f, Head(g)) \in Seq(Events)
  BY <1>1
<1>3. (f \o <<Head(g)>>) \o Tail(g) = f \o (<<Head(g)>> \o Tail(g))
  BY <1>1, ConcatAssociative
<1> QED
  BY <1>1, <1>2, <1>3

-----------------------------------------------------------------------------
(* Every step keeps the invariant.                                          *)

\* The parts of the invariant, for a step that leaves the pane and the directories alone.
LEMMA PaneAside ==
  ASSUME PaneInv, session.up', session' \in SessionRec, browser' \in BrowserRec, inbox' \in Seq(Commands),
         pipe' \in Seq(Events), feed' \in Seq(Events), writing' \in Dirs \cup {Nil}, crossed' \in BOOLEAN,
         remoteFs' = remoteFs, pane' = pane, Good(pane, inbox', browser', feed' \o pipe', crossed', remoteFs)
  PROVE  PaneInv'
<1>1. PaneTypeOK'
  BY DEF PaneInv, PaneTypeOK
<1>2. Down'
  BY DEF Down
<1>3. Good(pane, inbox, browser, Stream, crossed, remoteFs)' /\ Paid(pane)'
  BY DEF PaneInv, Stream
<1> QED
  BY <1>1, <1>2, <1>3 DEF PaneInv

\* What the invariant says, in parts.
LEMMA PaneFacts ==
  ASSUME PaneInv
  PROVE  /\ pane \in PaneRec /\ inbox \in Seq(Commands) /\ browser \in BrowserRec /\ pipe \in Seq(Events)
         /\ session \in SessionRec /\ feed \in Seq(Events) /\ remoteFs \in [Dirs -> Nat]
         /\ writing \in Dirs \cup {Nil} /\ crossed \in BOOLEAN /\ feed \o pipe \in Seq(Events)
         /\ Good(pane, inbox, browser, feed \o pipe, crossed, remoteFs) /\ Paid(pane)
<1>1. /\ pane \in PaneRec /\ inbox \in Seq(Commands) /\ browser \in BrowserRec /\ pipe \in Seq(Events)
      /\ session \in SessionRec /\ feed \in Seq(Events) /\ remoteFs \in [Dirs -> Nat]
      /\ writing \in Dirs \cup {Nil} /\ crossed \in BOOLEAN
  BY DEF PaneInv, PaneTypeOK
<1>2. Good(pane, inbox, browser, feed \o pipe, crossed, remoteFs) /\ Paid(pane)
  BY DEF PaneInv, Stream
<1>3. feed \o pipe \in Seq(Events)
  BY <1>1
<1> QED
  BY <1>1, <1>2, <1>3

\* The browser sends one event and moves on.
LEMMA PipeKeeps ==
  ASSUME PaneInv, session.up, NEW c \in BrowserRec, NEW e \in Events, Sends(browser, c, e),
         browser.st # "dead" \/ c.st = "dead", e.kind # "Changed",
         e.kind = "Page" => e.ver = remoteFs[e.path] /\ c.cursor = e.path /\ c.st = "ready",
         e.kind # "Page" \/ ~IsFirst(e) => (c.st = "ready" => browser.st = "ready"),
         e.kind # "Page" \/ e.append => c.cursor = browser.cursor,
         e.kind = "Page" /\ e.id # Nil =>
            /\ e.append <=> Head(browser.queue).kind = "LoadMore"
            /\ ~e.append => Head(browser.queue).kind = "List" /\ e.path = Resolved[Head(browser.queue).path],
         browser' = c, pipe' = Append(pipe, e),
         UNCHANGED <<pane, inbox, session, feed, remoteFs, writing, crossed>>
  PROVE  PaneInv'
<1>1. /\ pane \in PaneRec /\ inbox \in Seq(Commands) /\ browser \in BrowserRec /\ pipe \in Seq(Events)
      /\ session \in SessionRec /\ feed \in Seq(Events) /\ remoteFs \in [Dirs -> Nat]
      /\ writing \in Dirs \cup {Nil} /\ crossed \in BOOLEAN /\ feed \o pipe \in Seq(Events)
      /\ Good(pane, inbox, browser, feed \o pipe, crossed, remoteFs)
  BY PaneFacts
<1>2. Append(pipe, e) \in Seq(Events) /\ feed \o Append(pipe, e) \in Seq(Events) /\ Longer(feed \o pipe, feed \o Append(pipe, e), e)
  BY <1>1, SentLonger
<1>3. Good(pane, inbox, c, feed \o Append(pipe, e), crossed, remoteFs)
  <2>1. PICK s \in Seq(Events), t \in Seq(Events) : s = feed \o pipe /\ t = feed \o Append(pipe, e)
    BY <1>1, <1>2
  <2>2. Good(pane, inbox, browser, s, crossed, remoteFs) /\ Longer(s, t, e)
    BY <1>1, <1>2, <2>1
  <2>3. Good(pane, inbox, c, t, crossed, remoteFs)
    BY <1>1, <2>2, SendKeeps
  <2> QED
    BY <2>1, <2>3
<1> QED
  BY <1>1, <1>2, <1>3, PaneAside

\* The handshake.
LEMMA OpensKeeps == ASSUME PaneInv, BrowserOpens PROVE PaneInv'
<1>1. browser \in BrowserRec /\ session.up /\ browser.st = "init" /\ browser.n \in Nat /\ InTurn(browser, feed \o pipe)
  BY PaneFacts DEF BrowserOpens, BrowserRec, Good
<1>2. PICK c \in BrowserRec : c = [browser EXCEPT !.st = "first"]
  BY <1>1 DEF BrowserRec
<1>3. c.st = "first" /\ c.n = browser.n /\ c.cursor = browser.cursor /\ c.queue = browser.queue
  BY <1>1, <1>2 DEF BrowserRec
<1>4. PICK e \in Events : e = Opened(browser.n)
  BY <1>1 DEF Events, Handshakes, Opened
<1>5. e.kind = "Opened" /\ e.n = browser.n
  BY <1>4 DEF Opened
<1>6. Sends(browser, c, e)
  BY <1>1, <1>3, <1>5 DEF Sends, IsFirst, IsEnd
<1> QED
  BY <1>1, <1>2, <1>3, <1>4, <1>5, <1>6, PipeKeeps DEF BrowserOpens, IsFirst

\* The page of the initial directory.
LEMMA FirstPageKeeps == ASSUME PaneInv, BrowserFirstPage PROVE PaneInv'
<1>1. browser \in BrowserRec /\ session.up /\ browser.st = "first" /\ remoteFs[browser.cursor] \in Nat
  BY PaneFacts DEF BrowserFirstPage, BrowserRec
<1>2. PICK more \in BOOLEAN :
        /\ browser' = [browser EXCEPT !.st = "ready", !.done = ~more]
        /\ pipe' = Append(pipe, PageOf(Nil, browser.cursor, FALSE, more))
  BY DEF BrowserFirstPage
<1>3. PICK c \in BrowserRec : c = [browser EXCEPT !.st = "ready", !.done = ~more]
  BY <1>1 DEF BrowserRec
<1>4. c.st = "ready" /\ c.n = browser.n /\ c.cursor = browser.cursor /\ c.queue = browser.queue
  BY <1>1, <1>3 DEF BrowserRec
<1>5. PICK e \in Events : e = PageOf(Nil, browser.cursor, FALSE, more)
  <2>1. browser.cursor \in Dirs
    BY <1>1 DEF BrowserRec
  <2>2. PageOf(Nil, browser.cursor, FALSE, more) \in Pages
    BY <1>1, <2>1 DEF Pages, PageOf
  <2> QED
    BY <2>2 DEF Events
<1>6. e.kind = "Page" /\ e.id = Nil /\ e.path = browser.cursor /\ ~e.append /\ e.ver = remoteFs[browser.cursor]
  BY <1>5 DEF PageOf
<1>7. Sends(browser, c, e)
  BY <1>1, <1>4, <1>6 DEF Sends, IsFirst, IsEnd
<1>8. IsFirst(e)
  BY <1>6 DEF IsFirst
<1> QED
  BY ZenonT(40), <1>1, <1>2, <1>3, <1>4, <1>5, <1>6, <1>7, <1>8, PipeKeeps DEF BrowserFirstPage

\* The head of a browser's queue.
LEMMA QueueHead ==
  ASSUME NEW b \in BrowserRec, b.queue # <<>>
  PROVE  /\ Head(b.queue) \in Commands /\ Head(b.queue).id \in Nat /\ Tail(b.queue) \in Seq(Commands)
         /\ Head(b.queue).kind = "List" => Resolved[Head(b.queue).path] \in Dirs
         /\ Head(b.queue).id # Nil
<1>1. b.queue \in Seq(Commands)
  BY DEF BrowserRec
<1>2. Head(b.queue) \in Commands /\ Tail(b.queue) \in Seq(Commands)
  BY <1>1
<1> QED
  BY <1>2, CommandFacts, DirFacts, BrowserAssumption

\* A request that failed.
LEMMA FailedKeeps ==
  ASSUME PaneInv, session.up, browser.st = "ready", browser.queue # <<>>,
         browser' = [browser EXCEPT !.queue = Tail(@)], pipe' = Append(pipe, FailedOf(Head(browser.queue).id)),
         UNCHANGED <<pane, inbox, session, feed, remoteFs, writing, crossed>>
  PROVE  PaneInv'
<1>1. browser \in BrowserRec
  BY PaneFacts
<1>2. PICK h \in Commands : h = Head(browser.queue) /\ h.id \in Nat /\ h.id # Nil
  BY <1>1, QueueHead
<1>3. PICK c \in BrowserRec : c = [browser EXCEPT !.queue = Tail(@)]
  BY <1>1, QueueHead DEF BrowserRec
<1>4. c.st = "ready" /\ c.n = browser.n /\ c.cursor = browser.cursor /\ c.queue = Tail(browser.queue)
  BY <1>1, <1>3 DEF BrowserRec
<1>5. PICK e \in Events : e = FailedOf(h.id)
  BY <1>2 DEF Events, Failures, FailedOf
<1>6. e.kind = "Failed" /\ e.id = h.id
  BY <1>5 DEF FailedOf
<1>7. Sends(browser, c, e)
  BY <1>2, <1>4, <1>6 DEF Sends, IsFirst, IsEnd
<1> QED
  BY <1>2, <1>3, <1>4, <1>5, <1>6, <1>7, PipeKeeps DEF IsFirst

\* List.
LEMMA ListsKeeps == ASSUME PaneInv, BrowserLists PROVE PaneInv'
<1>1. /\ browser \in BrowserRec /\ session.up /\ browser.st = "ready" /\ browser.queue # <<>>
      /\ Head(browser.queue).kind = "List" /\ remoteFs \in [Dirs -> Nat]
  BY PaneFacts DEF BrowserLists
<1>2. PICK h \in Commands : h = Head(browser.queue) /\ h.id \in Nat /\ h.id # Nil /\ Resolved[h.path] \in Dirs
  BY <1>1, QueueHead
<1>3. CASE \E more \in BOOLEAN :
              /\ browser' = [[browser EXCEPT !.queue = Tail(@)] EXCEPT !.cursor = Resolved[h.path], !.done = ~more]
              /\ pipe' = Append(pipe, PageOf(h.id, Resolved[h.path], FALSE, more))
  <2>1. PICK more \in BOOLEAN :
              /\ browser' = [[browser EXCEPT !.queue = Tail(@)] EXCEPT !.cursor = Resolved[h.path], !.done = ~more]
              /\ pipe' = Append(pipe, PageOf(h.id, Resolved[h.path], FALSE, more))
    BY <1>3
  <2>2. PICK c \in BrowserRec :
          c = [browser EXCEPT !.queue = Tail(browser.queue), !.cursor = Resolved[h.path], !.done = ~more]
    BY <1>1, <1>2, QueueHead DEF BrowserRec
  <2>3. c.st = "ready" /\ c.n = browser.n /\ c.cursor = Resolved[h.path] /\ c.queue = Tail(browser.queue)
    BY <1>1, <2>2 DEF BrowserRec
  <2>4. browser' = c
    BY <1>1, <2>1, <2>2 DEF BrowserRec
  <2>5. PICK e \in Events : e = PageOf(h.id, Resolved[h.path], FALSE, more)
    <3>1. remoteFs[Resolved[h.path]] \in Nat
      BY <1>1, <1>2
    <3>2. PageOf(h.id, Resolved[h.path], FALSE, more) \in Pages
      BY <1>2, <3>1 DEF Pages, PageOf
    <3> QED
      BY <3>2 DEF Events
  <2>6. /\ e.kind = "Page" /\ e.id = h.id /\ e.path = Resolved[h.path] /\ ~e.append /\ e.ver = remoteFs[e.path]
        /\ ~IsFirst(e) /\ ~IsEnd(e)
    BY <1>2, <2>5 DEF PageOf, IsFirst, IsEnd
  <2>7. Sends(browser, c, e)
    BY <1>1, <1>2, <2>3, <2>6 DEF Sends
  <2>8. (e.append <=> Head(browser.queue).kind = "LoadMore") /\ e.path = Resolved[Head(browser.queue).path]
    BY <1>1, <1>2, <2>6
  <2> QED
    BY <1>1, <2>1, <2>3, <2>4, <2>5, <2>6, <2>7, <2>8, PipeKeeps DEF BrowserLists
<1>4. CASE browser' = [browser EXCEPT !.queue = Tail(@)] /\ pipe' = Append(pipe, FailedOf(Head(browser.queue).id))
  BY <1>1, <1>4, FailedKeeps DEF BrowserLists
<1> QED
  BY <1>2, <1>3, <1>4 DEF BrowserLists

\* LoadMore.
LEMMA LoadsMoreKeeps == ASSUME PaneInv, BrowserLoadsMore PROVE PaneInv'
<1>1. /\ browser \in BrowserRec /\ session.up /\ browser.st = "ready" /\ browser.queue # <<>>
      /\ Head(browser.queue).kind = "LoadMore" /\ remoteFs \in [Dirs -> Nat] /\ browser.cursor \in Dirs
  BY PaneFacts DEF BrowserLoadsMore, BrowserRec
<1>2. PICK h \in Commands : h = Head(browser.queue) /\ h.id \in Nat /\ h.id # Nil
  BY <1>1, QueueHead
<1>3. CASE \E more \in BOOLEAN :
              /\ browser' = [[browser EXCEPT !.queue = Tail(@)] EXCEPT !.done = ~more]
              /\ pipe' = Append(pipe, PageOf(h.id, browser.cursor, TRUE, more))
  <2>1. PICK more \in BOOLEAN :
              /\ browser' = [[browser EXCEPT !.queue = Tail(@)] EXCEPT !.done = ~more]
              /\ pipe' = Append(pipe, PageOf(h.id, browser.cursor, TRUE, more))
    BY <1>3
  <2>2. PICK c \in BrowserRec : c = [browser EXCEPT !.queue = Tail(browser.queue), !.done = ~more]
    BY <1>1, <1>2, QueueHead DEF BrowserRec
  <2>3. c.st = "ready" /\ c.n = browser.n /\ c.cursor = browser.cursor /\ c.queue = Tail(browser.queue)
    BY <1>1, <2>2 DEF BrowserRec
  <2>4. browser' = c
    BY <1>1, <2>1, <2>2 DEF BrowserRec
  <2>5. PICK e \in Events : e = PageOf(h.id, browser.cursor, TRUE, more)
    <3>1. remoteFs[browser.cursor] \in Nat
      BY <1>1
    <3>2. PageOf(h.id, browser.cursor, TRUE, more) \in Pages
      BY <1>1, <1>2, <3>1 DEF Pages, PageOf
    <3> QED
      BY <3>2 DEF Events
  <2>6. /\ e.kind = "Page" /\ e.id = h.id /\ e.path = browser.cursor /\ e.append /\ e.ver = remoteFs[e.path]
        /\ ~IsFirst(e) /\ ~IsEnd(e)
    BY <1>2, <2>5 DEF PageOf, IsFirst, IsEnd
  <2>7. Sends(browser, c, e)
    BY <1>1, <1>2, <2>3, <2>6 DEF Sends
  <2> QED
    BY ZenonT(40), <1>1, <1>2, <2>1, <2>3, <2>4, <2>5, <2>6, <2>7, PipeKeeps DEF BrowserLoadsMore
<1>4. CASE browser' = [browser EXCEPT !.queue = Tail(@)] /\ pipe' = Append(pipe, FailedOf(Head(browser.queue).id))
  BY <1>1, <1>4, FailedKeeps DEF BrowserLoadsMore
<1> QED
  BY <1>2, <1>3, <1>4 DEF BrowserLoadsMore

\* The browser ends: its last request fails and its channel closes.
LEMMA FailsKeeps == ASSUME PaneInv, BrowserFails PROVE PaneInv'
<1>1. /\ pane \in PaneRec /\ inbox \in Seq(Commands) /\ browser \in BrowserRec /\ pipe \in Seq(Events)
      /\ session \in SessionRec /\ feed \in Seq(Events) /\ remoteFs \in [Dirs -> Nat]
      /\ writing \in Dirs \cup {Nil} /\ crossed \in BOOLEAN /\ feed \o pipe \in Seq(Events)
      /\ Good(pane, inbox, browser, feed \o pipe, crossed, remoteFs)
  BY PaneFacts
<1>2. PICK c \in BrowserRec : c = [browser EXCEPT !.st = "dead", !.queue = <<>>]
  <2>1. <<>> \in Seq(Commands)
    OBVIOUS
  <2> QED
    BY <1>1, <2>1 DEF BrowserRec
<1>3. c.st = "dead" /\ c.queue = <<>> /\ c.n = browser.n /\ c.cursor = browser.cursor
  BY <1>1, <1>2 DEF BrowserRec
<1>4. PICK d \in Events, e \in Events : d = FailedOf(Nil) /\ e = Closed
  BY DEF Events, Failures, FailedOf
<1>5. d.kind = "Failed" /\ d.id = Nil /\ e.kind = "Closed"
  BY <1>4 DEF FailedOf, Closed
<1>6. Sends(browser, c, d) /\ Sends(c, c, e)
  BY <1>3, <1>5 DEF Sends, IsFirst
<1>7. PICK g \in Seq(Events) : g = Append(pipe, d)
  <2>1. Append(pipe, d) \in Seq(Events)
    BY <1>1
  <2> QED
    BY <2>1
<1>8. PICK r \in Seq(Events), s \in Seq(Events), t \in Seq(Events) :
        r = feed \o pipe /\ s = feed \o g /\ t = feed \o Append(g, e)
  <2>1. feed \o g \in Seq(Events) /\ feed \o Append(g, e) \in Seq(Events)
    BY <1>1, SentLonger
  <2> QED
    BY <1>1, <2>1
<1>9. Longer(r, s, d) /\ Longer(s, t, e)
  BY <1>1, <1>7, <1>8, SentLonger
<1>10. Good(pane, inbox, browser, r, crossed, remoteFs)
  BY <1>1, <1>8
<1>11. Good(pane, inbox, c, s, crossed, remoteFs)
  BY <1>1, <1>3, <1>5, <1>6, <1>9, <1>10, SendKeeps DEF IsFirst
<1>12. Good(pane, inbox, c, t, crossed, remoteFs)
  BY <1>1, <1>3, <1>5, <1>6, <1>9, <1>11, SendKeeps DEF IsFirst
<1>13. pipe \o <<FailedOf(Nil), Closed>> = Append(g, e) /\ Append(g, e) \in Seq(Events)
  <2>1. pipe \o <<d, e>> = Append(Append(pipe, d), e)
    <3>1. <<d>> \in Seq(Events) /\ <<e>> \in Seq(Events) /\ <<d, e>> = <<d>> \o <<e>>
      <4>1. <<d>> \in Seq(Events) /\ <<e>> \in Seq(Events)
        OBVIOUS
      <4>2. <<d, e>> = Append(<<d>>, e)
        OBVIOUS
      <4>3. Append(<<d>>, e) = <<d>> \o <<e>>
        BY <4>1
      <4> QED
        BY <4>1, <4>2, <4>3
    <3>2. pipe \o (<<d>> \o <<e>>) = (pipe \o <<d>>) \o <<e>>
      BY SMTT(40), <1>1, <3>1, ConcatAssociative
    <3>3. pipe \o <<d>> = Append(pipe, d) /\ Append(pipe, d) \o <<e>> = Append(Append(pipe, d), e)
      BY <1>1
    <3> QED
      BY <3>1, <3>2, <3>3
  <2> QED
    BY <2>1, <1>4, <1>7
<1>14. browser' = c /\ pipe' = Append(g, e)
  BY <1>2, <1>13 DEF BrowserFails, Dead
<1> QED
  BY <1>1, <1>8, <1>12, <1>13, <1>14, PaneAside DEF BrowserFails

\* A command reaches the browser, or its refusal the pane.
LEMMA LoopCommandKeeps == ASSUME PaneInv, LoopCommand PROVE PaneInv'
<1>1. /\ pane \in PaneRec /\ inbox \in Seq(Commands) /\ browser \in BrowserRec /\ pipe \in Seq(Events)
      /\ session \in SessionRec /\ feed \in Seq(Events) /\ remoteFs \in [Dirs -> Nat]
      /\ writing \in Dirs \cup {Nil} /\ crossed \in BOOLEAN /\ feed \o pipe \in Seq(Events)
      /\ Good(pane, inbox, browser, feed \o pipe, crossed, remoteFs)
  BY PaneFacts
<1>2. inbox # <<>> /\ session.up
  BY DEF LoopCommand
<1>3. PICK h \in Commands, j \in Seq(Commands) : h = Head(inbox) /\ j = Tail(inbox)
  <2>1. Head(inbox) \in Commands /\ Tail(inbox) \in Seq(Commands)
    BY <1>1, <1>2
  <2> QED
    BY <2>1
<1>4. h.id \in Nat /\ h.kind \in {"List", "LoadMore"}
  BY CommandFacts
<1>5. CASE browser.st = "dead"
  <2>1. PICK e \in Events : e = FailedOf(h.id)
    BY <1>4 DEF Events, Failures, FailedOf
  <2>2. e.kind = "Failed" /\ e.id = h.id
    BY <2>1 DEF FailedOf
  <2>3. Append(feed, e) \in Seq(Events) /\ Append(feed, e) \o pipe \in Seq(Events) /\ Inserted(feed \o pipe, Append(feed, e) \o pipe, Len(feed), e)
    BY <1>1, ReportedInserted
  <2>4. PICK s \in Seq(Events), t \in Seq(Events) : s = feed \o pipe /\ t = Append(feed, e) \o pipe
    BY <1>1, <2>3
  <2>5. Good(pane, inbox, browser, s, crossed, remoteFs) /\ Inserted(s, t, Len(feed), e)
    BY <1>1, <2>3, <2>4
  <2>6. Good(pane, j, browser, t, crossed, remoteFs)
    <3>1. Reports(inbox, j, browser, e, remoteFs)
      BY <1>2, <1>3, <1>5, <2>2 DEF Reports
    <3> QED
      BY <1>1, <2>5, <3>1, InsertKeeps
  <2>7. feed' = Append(feed, e) /\ inbox' = j
    BY <1>3, <1>5, <2>1 DEF LoopCommand
  <2>8. UNCHANGED <<browser, crossed, pane, pipe, session, remoteFs, writing>>
    BY <1>5 DEF LoopCommand
  <2>9. Good(pane, inbox', browser', feed' \o pipe', crossed', remoteFs)
    BY <2>4, <2>6, <2>7, <2>8
  <2>10. /\ session.up' /\ session' \in SessionRec /\ browser' \in BrowserRec /\ inbox' \in Seq(Commands)
         /\ pipe' \in Seq(Events) /\ feed' \in Seq(Events) /\ writing' \in Dirs \cup {Nil} /\ crossed' \in BOOLEAN
         /\ remoteFs' = remoteFs /\ pane' = pane
    BY <1>1, <1>2, <2>3, <2>7, <2>8
  <2> QED
    BY <2>9, <2>10, PaneAside
<1>6. CASE browser.st # "dead"
  <2>1. PICK c \in BrowserRec : c = [browser EXCEPT !.queue = Append(browser.queue, h)]
    <3>1. Append(browser.queue, h) \in Seq(Commands)
      BY <1>1 DEF BrowserRec
    <3> QED
      BY <1>1, <3>1 DEF BrowserRec
  <2>2. c.st = browser.st /\ c.n = browser.n /\ c.cursor = browser.cursor /\ c.queue = Append(browser.queue, h)
    BY <1>1, <2>1 DEF BrowserRec
  <2>3. browser' = c /\ crossed' = (crossed \/ (h.kind = "List" /\ h.n # browser.n)) /\ inbox' = j
    BY <1>1, <1>3, <1>6, <2>1 DEF LoopCommand
  <2>4. PICK y \in BOOLEAN : y = (crossed \/ (h.kind = "List" /\ h.n # browser.n))
    BY <1>1
  <2>5. Good(pane, j, c, feed \o pipe, y, remoteFs)
    <3>1. PICK s \in Seq(Events) : s = feed \o pipe
      BY <1>1
    <3>2. Good(pane, inbox, browser, s, crossed, remoteFs)
      BY <1>1, <3>1
    <3>3. y = (crossed \/ (Head(inbox).kind = "List" /\ Head(inbox).n # browser.n)) /\ c.queue = Append(browser.queue, Head(inbox))
      BY <1>3, <2>2, <2>4
    <3>4. Good(pane, j, c, s, y, remoteFs)
      BY <1>1, <1>2, <1>3, <1>6, <2>2, <3>2, <3>3, QueueKeeps
    <3> QED
      BY <3>1, <3>4
  <2>6. crossed' = y
    BY <2>3, <2>4
  <2> QED
    BY <1>1, <1>2, <1>6, <2>3, <2>5, <2>6, PaneAside DEF LoopCommand
<1> QED
  BY <1>5, <1>6

\* An event is forwarded.
LEMMA LoopEventKeeps == ASSUME PaneInv, LoopEvent PROVE PaneInv'
<1>1. /\ pane \in PaneRec /\ inbox \in Seq(Commands) /\ browser \in BrowserRec /\ pipe \in Seq(Events)
      /\ session \in SessionRec /\ feed \in Seq(Events) /\ remoteFs \in [Dirs -> Nat]
      /\ writing \in Dirs \cup {Nil} /\ crossed \in BOOLEAN /\ feed \o pipe \in Seq(Events)
      /\ Good(pane, inbox, browser, feed \o pipe, crossed, remoteFs)
  BY PaneFacts
<1>2. /\ Append(feed, Head(pipe)) \in Seq(Events) /\ Tail(pipe) \in Seq(Events) /\ Head(pipe) \in Events
      /\ Append(feed, Head(pipe)) \o Tail(pipe) = feed \o pipe
  BY <1>1, ForwardSame DEF LoopEvent
<1>3. session' \in SessionRec /\ session'.up
  <2>1. Head(pipe).kind = "Page" => Head(pipe).path \in Dirs
    BY <1>2, EventFacts
  <2>2. CASE Head(pipe).kind = "Page"
    <3>1. session' = [session EXCEPT !.path = Head(pipe).path, !.ready = TRUE] /\ session.up
      BY <2>2 DEF LoopEvent, Note
    <3> QED
      BY <1>1, <2>1, <2>2, <3>1 DEF SessionRec
  <2>3. CASE Head(pipe).kind # "Page"
    BY <1>1, <2>3 DEF LoopEvent, Note
  <2> QED
    BY <2>2, <2>3
<1> QED
  BY <1>1, <1>2, <1>3, PaneAside DEF LoopEvent

\* A pane that waits for its first browser.
LEMMA FreshGood ==
  ASSUME NEW p \in PaneRec, NEW b \in BrowserRec, NEW fs \in [Dirs -> Nat], NEW x \in BOOLEAN, ~x,
         NEW i, NEW s, i = <<>>, s = <<>>,
         ~p.open, p.path = Nil, ~p.loading, p.nav = Nil, p.shown = {}, ~p.more, p.back = <<>>, p.fwd = <<>>,
         p.owed = 0, p.opens = 0, b.queue = <<>>, b.st \in {"init", "dead"}, b.st = "init" => b.n > 0
  PROVE  Good(p, i, b, s, x, fs) /\ Paid(p)
<1>1. Len(s) = 0 /\ Len(i) = 0 /\ Nil \notin Dirs /\ b.n \in Nat /\ p.id \in Nat /\ HistoryLimit \in Nat \ {0} /\ p.ver \in Nat
  BY DirFacts, HistoryAssumption DEF BrowserRec, PaneRec
<1>2. InTurn(b, s) /\ Numbered(p, b, s) /\ Asked(p, i, b, s)
  BY <1>1 DEF InTurn, Numbered, Asked
<1>3. FirstPages(p, i, b, s) /\ Expected(p, i, b) /\ Answered(p, s)
  BY <1>1 DEF FirstPages, Opening, Expected, Answered
<1>4. InStep(p, i, b, s, x)
  BY <1>1 DEF InStep, Travelled
<1>5. Lined(p)
  BY <1>1 DEF Lined, Line, NavigationFits, Steps
<1>6. Owes(p, s, fs) /\ Paid(p)
  BY <1>1 DEF Owes, Paid
<1> QED
  BY <1>2, <1>3, <1>4, <1>5, <1>6 DEF Good

\* The transport is gone: the tab waits for another one.
LEMMA RetiredKeeps == ASSUME PaneInv, Retired, UNCHANGED remoteFs PROVE PaneInv'
<1>1. /\ pane \in PaneRec /\ browser \in BrowserRec /\ session \in SessionRec /\ remoteFs \in [Dirs -> Nat]
      /\ pane.id \in Nat /\ browser.n \in Nat
  BY PaneFacts DEF PaneRec, BrowserRec
<1>2. PICK p \in PaneRec : p = [NoPane EXCEPT !.id = pane.id + 1]
  <2>1. /\ pane.id + 1 \in Nat /\ 0 \in Nat /\ <<>> \in Seq(Dirs) /\ {} \in SUBSET Dirs
    BY <1>1
  <2>2. NoPane \in PaneRec
    BY <2>1, ZenonT(40) DEF NoPane, PaneRec
  <2> QED
    BY <2>1, <2>2, ZenonT(40) DEF PaneRec
<1>3. /\ ~p.open /\ p.path = Nil /\ ~p.loading /\ p.nav = Nil /\ p.shown = {} /\ ~p.more /\ p.back = <<>> /\ p.fwd = <<>>
      /\ p.owed = 0 /\ p.opens = 0
  BY <1>2 DEF NoPane
<1>4. PICK c \in BrowserRec : c = [browser EXCEPT !.st = "dead", !.queue = <<>>]
  <2>1. <<>> \in Seq(Commands)
    OBVIOUS
  <2> QED
    BY <1>1, <2>1 DEF BrowserRec
<1>5. c.st = "dead" /\ c.queue = <<>>
  BY <1>1, <1>4 DEF BrowserRec
<1>6. PICK d \in Dirs : d = IF pane.path = Nil THEN session.path ELSE pane.path
  BY <1>1 DEF PaneRec, SessionRec
<1>7. session' \in SessionRec
  <2>1. session' = [[up |-> TRUE, reopening |-> FALSE, attempts |-> 0, ready |-> FALSE, path |-> d] EXCEPT !.up = FALSE]
    BY <1>6 DEF Retired, Up
  <2> QED
    BY <2>1 DEF SessionRec
<1>8. /\ pane' = p /\ browser' = c /\ inbox' = <<>> /\ pipe' = <<>> /\ feed' = <<>> /\ writing' = Nil /\ crossed' = FALSE
      /\ remoteFs' = remoteFs
  BY <1>2, <1>4 DEF Retired, Dead
<1>9. PICK y \in BOOLEAN : y = FALSE
  OBVIOUS
<1>10. Good(p, <<>>, c, <<>>, y, remoteFs) /\ Paid(p)
  <2>1. ~y
    BY <1>9
  <2> QED
    BY <1>1, <1>3, <1>5, <2>1, FreshGood
<1>11. PaneTypeOK'
  <2>1. <<>> \in Seq(Commands) /\ <<>> \in Seq(Events) /\ FALSE \in BOOLEAN
    OBVIOUS
  <2> QED
    BY <1>1, <1>7, <1>8, <2>1 DEF PaneTypeOK
<1>12. Down'
  BY <1>3, <1>5, <1>8 DEF Down
<1>13. Good(pane, inbox, browser, Stream, crossed, remoteFs)' /\ Paid(pane)'
  <2>1. Stream' = <<>>
    BY <1>8 DEF Stream
  <2>2. crossed' = y
    BY <1>8, <1>9
  <2> QED
    BY <1>8, <1>10, <2>1, <2>2
<1> QED
  BY <1>11, <1>12, <1>13 DEF PaneInv

\* The end of a browser is forwarded, and another browser asked for.
LEMMA ClosedKeeps == ASSUME PaneInv, LoopClosed PROVE PaneInv'
<1>1. /\ pane \in PaneRec /\ inbox \in Seq(Commands) /\ browser \in BrowserRec /\ pipe \in Seq(Events)
      /\ session \in SessionRec /\ feed \in Seq(Events) /\ remoteFs \in [Dirs -> Nat]
      /\ writing \in Dirs \cup {Nil} /\ crossed \in BOOLEAN /\ feed \o pipe \in Seq(Events)
      /\ Good(pane, inbox, browser, feed \o pipe, crossed, remoteFs)
  BY PaneFacts
<1>2. PICK stable \in BOOLEAN :
       IF AttemptsAfter(stable) > MaxReopen THEN Retired
       ELSE /\ session' = [session EXCEPT !.attempts = AttemptsAfter(stable), !.ready = FALSE, !.reopening = TRUE]
            /\ feed' = Append(feed, Closed) /\ pipe' = Tail(pipe)
            /\ UNCHANGED <<pane, inbox, browser, writing, crossed>>
  BY DEF LoopClosed
<1>3. CASE Retired
  BY <1>3, RetiredKeeps DEF LoopClosed
<1>4. CASE ~(AttemptsAfter(stable) > MaxReopen)
  <2>1. /\ session' = [session EXCEPT !.attempts = AttemptsAfter(stable), !.ready = FALSE, !.reopening = TRUE]
        /\ feed' = Append(feed, Closed) /\ pipe' = Tail(pipe)
        /\ UNCHANGED <<pane, inbox, browser, writing, crossed, remoteFs>> /\ Head(pipe) = Closed /\ session.up
    BY <1>2, <1>4 DEF LoopClosed
  <2>2. AttemptsAfter(stable) \in Nat
    BY <1>1 DEF AttemptsAfter, SessionRec
  <2>3. session' \in SessionRec /\ session'.up
    BY <1>1, <2>1, <2>2 DEF SessionRec
  <2>4. /\ Append(feed, Head(pipe)) \in Seq(Events) /\ Tail(pipe) \in Seq(Events)
        /\ Append(feed, Head(pipe)) \o Tail(pipe) = feed \o pipe
    BY <1>1, ForwardSame DEF LoopClosed
  <2> QED
    BY <1>1, <2>1, <2>3, <2>4, PaneAside
<1> QED
  BY <1>2, <1>3, <1>4

\* Another browser; the handshakes on their way are of earlier ones.
LEMMA AnotherKeeps ==
  ASSUME PaneInv, NEW d \in Dirs, NEW n \in Nat, browser' = NewBrowser(d, n), pane.opens < n,
         Earlier(feed \o pipe, n),
         session' \in SessionRec, session'.up,
         UNCHANGED <<pane, inbox, pipe, feed, remoteFs, writing, crossed>>
  PROVE  PaneInv'
<1>1. /\ pane \in PaneRec /\ inbox \in Seq(Commands) /\ browser \in BrowserRec /\ pipe \in Seq(Events)
      /\ session \in SessionRec /\ feed \in Seq(Events) /\ remoteFs \in [Dirs -> Nat]
      /\ writing \in Dirs \cup {Nil} /\ crossed \in BOOLEAN /\ feed \o pipe \in Seq(Events)
      /\ Good(pane, inbox, browser, feed \o pipe, crossed, remoteFs)
  BY PaneFacts
<1>2. PICK c \in BrowserRec : c = NewBrowser(d, n)
  <2>1. <<>> \in Seq(Commands)
    OBVIOUS
  <2> QED
    BY <2>1 DEF NewBrowser, BrowserRec
<1>3. c.st = "init" /\ c.queue = <<>> /\ c.n = n
  BY <1>2 DEF NewBrowser
<1>4. PICK s \in Seq(Events) : s = feed \o pipe
  BY <1>1
<1>5. Good(pane, inbox, c, s, crossed, remoteFs)
  <2>1. Good(pane, inbox, browser, s, crossed, remoteFs) /\ Earlier(s, c.n)
    BY <1>1, <1>3, <1>4
  <2>2. pane.opens < c.n
    BY <1>3
  <2> QED
    BY SMTT(40), <1>1, <1>3, <2>1, <2>2, ReopenKeeps
<1> QED
  BY <1>1, <1>2, <1>4, <1>5, PaneAside

\* A browser is opened again, with a number of its own.
LEMMA ReopenedKeeps == ASSUME PaneInv, Reopen PROVE PaneInv'
<1>1. CASE Retired
  BY <1>1, RetiredKeeps DEF Reopen
<1>2. CASE /\ browser' = NewBrowser(session.path, browser.n + 1)
           /\ session' = [session EXCEPT !.reopening = FALSE]
           /\ UNCHANGED <<pane, inbox, pipe, feed, writing, crossed>>
  <2>1. /\ browser.n \in Nat /\ browser.n + 1 \in Nat /\ session.path \in Dirs /\ pane.opens \in Nat
        /\ session' \in SessionRec /\ session'.up /\ feed \o pipe \in Seq(Events)
    <3>1. browser.n \in Nat /\ session.path \in Dirs /\ pane.opens \in Nat /\ session \in SessionRec /\ feed \o pipe \in Seq(Events)
      BY PaneFacts DEF BrowserRec, SessionRec, PaneRec
    <3>2. session.up /\ session' = [session EXCEPT !.reopening = FALSE]
      BY <1>2 DEF Reopen
    <3>3. session' \in SessionRec /\ session'.up
      BY <3>1, <3>2 DEF SessionRec
    <3> QED
      BY <3>1, <3>3
  <2>2. Numbered(pane, browser, feed \o pipe)
    BY PaneFacts DEF Good
  <2>3. pane.opens < browser.n + 1
    BY <2>1, <2>2 DEF Numbered
  <2>4. ASSUME NEW k \in 1 .. Len(feed \o pipe), (feed \o pipe)[k].kind = "Opened"
        PROVE  (feed \o pipe)[k].n < browser.n + 1
    <3>1. (feed \o pipe)[k] \in Events
      BY <2>1
    <3>2. (feed \o pipe)[k].n \in Nat
      BY <2>4, <3>1, EventFacts
    <3>3. (feed \o pipe)[k].n <= browser.n
      BY <2>2, <2>4 DEF Numbered
    <3> QED
      BY <2>1, <3>2, <3>3
  <2>5. Earlier(feed \o pipe, browser.n + 1)
    BY <2>4 DEF Earlier
  <2> QED
    BY <1>2, <2>1, <2>3, <2>5, AnotherKeeps DEF Reopen
<1> QED
  BY <1>1, <1>2 DEF Reopen

\* The connection ends with the pane, its channels and its browser.
LEMMA TransportEndsKeeps == ASSUME PaneInv, TransportEnds PROVE PaneInv'
BY RetiredKeeps DEF TransportEnds

\* A new attempt begins with empty channels.
LEMMA NewAttemptKeeps == ASSUME PaneInv, NewAttempt PROVE PaneInv'
<1>1. session.path \in Dirs /\ feed = <<>> /\ pipe = <<>> /\ pane.opens = 0
  BY PaneFacts DEF PaneInv, Down, NewAttempt, SessionRec
<1>2. feed \o pipe = <<>>
  <2>1. <<>> \o <<>> = <<>>
    OBVIOUS
  <2> QED
    BY <1>1, <2>1
<1>3. Earlier(feed \o pipe, 1)
  BY <1>2 DEF Earlier
<1>4. session' \in SessionRec /\ session'.up
  BY <1>1 DEF NewAttempt, Up, SessionRec
<1> QED
  BY <1>1, <1>3, <1>4, AnotherKeeps DEF NewAttempt

\* A write changes a remote directory.
LEMMA WriteHappensKeeps == ASSUME PaneInv, NEW d \in Dirs, WriteHappens(d) PROVE PaneInv'
<1>1. /\ pane \in PaneRec /\ inbox \in Seq(Commands) /\ browser \in BrowserRec /\ pipe \in Seq(Events)
      /\ session \in SessionRec /\ feed \in Seq(Events) /\ remoteFs \in [Dirs -> Nat]
      /\ writing \in Dirs \cup {Nil} /\ crossed \in BOOLEAN /\ feed \o pipe \in Seq(Events)
      /\ Good(pane, inbox, browser, feed \o pipe, crossed, remoteFs) /\ Paid(pane)
  BY PaneFacts
<1>2. PICK gs \in [Dirs -> Nat] : gs = [remoteFs EXCEPT ![d] = @ + 1]
  <2>1. [remoteFs EXCEPT ![d] = @ + 1] \in [Dirs -> Nat]
    BY <1>1
  <2> QED
    BY <2>1
<1>3. \A a \in Dirs : remoteFs[a] <= gs[a]
  BY <1>1, <1>2
<1>4. Good(pane, inbox, browser, feed \o pipe, crossed, gs)
  <2>1. PICK s \in Seq(Events) : s = feed \o pipe
    BY <1>1
  <2>2. Good(pane, inbox, browser, s, crossed, gs)
    BY <1>1, <1>3, <2>1, ChangeKeeps
  <2> QED
    BY <2>1, <2>2
<1>5. remoteFs' = gs /\ writing' = d /\ UNCHANGED <<pane, inbox, browser, pipe, session, feed, crossed>> /\ session.up
  BY <1>2 DEF WriteHappens
<1>6. PaneTypeOK' /\ Down'
  BY <1>1, <1>5 DEF PaneTypeOK, Down
<1>7. Good(pane, inbox, browser, Stream, crossed, remoteFs)' /\ Paid(pane)'
  BY <1>1, <1>4, <1>5 DEF Stream
<1> QED
  BY <1>6, <1>7 DEF PaneInv

\* A change is reported.
LEMMA WriteReportedKeeps == ASSUME PaneInv, WriteReported PROVE PaneInv'
<1>1. /\ pane \in PaneRec /\ inbox \in Seq(Commands) /\ browser \in BrowserRec /\ pipe \in Seq(Events)
      /\ session \in SessionRec /\ feed \in Seq(Events) /\ remoteFs \in [Dirs -> Nat]
      /\ writing \in Dirs \cup {Nil} /\ crossed \in BOOLEAN /\ feed \o pipe \in Seq(Events)
      /\ Good(pane, inbox, browser, feed \o pipe, crossed, remoteFs)
  BY PaneFacts
<1>2. writing \in Dirs /\ session.up /\ remoteFs[writing] \in Nat
  BY <1>1 DEF WriteReported
<1>3. PICK e \in Events : e = [kind |-> "Changed", path |-> writing, ver |-> remoteFs[writing]]
  BY <1>2 DEF Events, Changes
<1>4. e.kind = "Changed" /\ e.path = writing /\ e.ver = remoteFs[e.path]
  BY <1>3
<1>5. /\ Append(feed, e) \in Seq(Events) /\ Append(feed, e) \o pipe \in Seq(Events)
      /\ Inserted(feed \o pipe, Append(feed, e) \o pipe, Len(feed), e)
  BY <1>1, ReportedInserted
<1>6. PICK s \in Seq(Events), t \in Seq(Events) : s = feed \o pipe /\ t = Append(feed, e) \o pipe
  BY <1>1, <1>5
<1>7. Good(pane, inbox, browser, t, crossed, remoteFs)
  <2>1. Good(pane, inbox, browser, s, crossed, remoteFs) /\ Inserted(s, t, Len(feed), e)
    BY <1>1, <1>5, <1>6
  <2>2. Reports(inbox, inbox, browser, e, remoteFs)
    BY <1>2, <1>4 DEF Reports
  <2> QED
    BY <1>1, <2>1, <2>2, InsertKeeps
<1>8. feed' = Append(feed, e) /\ writing' = Nil /\ UNCHANGED <<pane, inbox, browser, pipe, session, remoteFs, crossed>>
  BY <1>3 DEF WriteReported
<1> QED
  BY <1>1, <1>2, <1>5, <1>6, <1>7, <1>8, PaneAside

\* What a step of the pane itself leaves.
LEMMA PaneStep ==
  ASSUME PaneInv, NEW q \in PaneRec, NEW j \in Seq(Commands), NEW t \in Seq(Events), NEW y \in BOOLEAN,
         Good(q, j, browser, t, y, remoteFs), Paid(q), session.up,
         pane' = q, inbox' = j, feed' \o pipe' = t, crossed' = y, feed' \in Seq(Events), pipe' \in Seq(Events),
         UNCHANGED <<browser, session, remoteFs, writing>>
  PROVE  PaneInv'
<1>1. PaneTypeOK'
  BY PaneFacts DEF PaneTypeOK
<1>2. Down'
  BY DEF Down
<1>3. Good(pane, inbox, browser, Stream, crossed, remoteFs)' /\ Paid(pane)'
  BY DEF Stream
<1> QED
  BY <1>1, <1>2, <1>3 DEF PaneInv

\* What the user may ask for.
LEMMA WantedFacts ==
  ASSUME NEW p \in PaneRec, NEW kind \in Kinds, NEW name, kind = "Direct" => name \in Names, Wanted(p, kind, name) # Nil
  PROVE  /\ Wanted(p, kind, name) \in Names
         /\ kind = "Back" => p.back # <<>> /\ Wanted(p, kind, name) = Last(p.back)
         /\ kind = "Forward" => p.fwd # <<>> /\ Wanted(p, kind, name) = Last(p.fwd)
<1>1. /\ p.back \in Seq(Dirs) /\ p.fwd \in Seq(Dirs) /\ p.path \in Dirs \cup {Nil}
  BY DEF PaneRec
<1>2. CASE kind = "Direct"
  BY <1>2 DEF Wanted
<1>3. CASE kind = "Back"
  <2>1. p.back # <<>> /\ Wanted(p, kind, name) = Last(p.back)
    BY <1>3 DEF Wanted
  <2> QED
    BY <1>1, <1>3, <2>1, FrontKeeps, DirFacts
<1>4. CASE kind = "Forward"
  <2>1. p.fwd # <<>> /\ Wanted(p, kind, name) = Last(p.fwd)
    BY <1>4 DEF Wanted
  <2> QED
    BY <1>1, <1>4, <2>1, FrontKeeps, DirFacts
<1>5. CASE kind = "Up"
  <2>1. p.path # Nil /\ Wanted(p, kind, name) = Parent[p.path]
    BY <1>5 DEF Wanted
  <2> QED
    BY <1>1, <1>5, <2>1, HistoryAssumption, DirFacts
<1> QED
  BY <1>2, <1>3, <1>4, <1>5 DEF Kinds

\* The user goes somewhere.
LEMMA NavigateKeeps ==
  ASSUME PaneInv, NEW kind \in Kinds, NEW name, kind = "Direct" => name \in Names, Navigate(kind, name)
  PROVE  PaneInv' /\ pane'.path = pane.path
<1>1. /\ pane \in PaneRec /\ inbox \in Seq(Commands) /\ browser \in BrowserRec /\ pipe \in Seq(Events)
      /\ session \in SessionRec /\ feed \in Seq(Events) /\ remoteFs \in [Dirs -> Nat]
      /\ writing \in Dirs \cup {Nil} /\ crossed \in BOOLEAN /\ feed \o pipe \in Seq(Events)
      /\ Good(pane, inbox, browser, feed \o pipe, crossed, remoteFs)
  BY PaneFacts
<1>2. session.up /\ ~pane.loading /\ UNCHANGED <<browser, pipe, session, feed, remoteFs, writing, crossed>>
  BY DEF Navigate
<1>3. PICK to \in Names : to = Wanted(pane, kind, name) /\ (kind = "Back" => pane.back # <<>> /\ to = Last(pane.back))
                           /\ (kind = "Forward" => pane.fwd # <<>> /\ to = Last(pane.fwd))
  <2>1. Wanted(pane, kind, name) # Nil
    BY DEF Navigate
  <2> QED
    BY <1>1, <2>1, WantedFacts
<1>4. PICK r \in Requests(pane, kind, to) : pane' = r.pane /\ inbox' = inbox \o r.cmd
  BY <1>3 DEF Navigate
<1>5. PICK s \in Seq(Events) : s = feed \o pipe
  BY <1>1
<1>6. /\ r.pane \in PaneRec /\ r.cmd \in Seq(Commands)
      /\ Good(r.pane, inbox \o r.cmd, browser, s, crossed, remoteFs) /\ Paid(r.pane)
      /\ r.pane.path = pane.path
  <2>1. Good(pane, inbox, browser, s, crossed, remoteFs)
    BY <1>1, <1>5
  <2>2. PICK p \in PaneRec, i \in Seq(Commands), b \in BrowserRec, x \in BOOLEAN, fs \in [Dirs -> Nat] :
          p = pane /\ i = inbox /\ b = browser /\ x = crossed /\ fs = remoteFs
    BY <1>1
  <2>3. Good(p, i, b, s, x, fs) /\ ~p.loading
    BY <1>2, <2>1, <2>2
  <2>4. (kind = "Back" => p.back # <<>> /\ to = Last(p.back)) /\ (kind = "Forward" => p.fwd # <<>> /\ to = Last(p.fwd))
    BY <1>3, <2>2
  <2>5. r \in Requests(p, kind, to)
    BY <2>2
  <2>6. /\ r.pane \in PaneRec /\ r.cmd \in Seq(Commands)
        /\ Good(r.pane, i \o r.cmd, b, s, x, fs) /\ Paid(r.pane) /\ r.pane.path = p.path
    BY <2>3, <2>4, <2>5, RequestsKeep
  <2> QED
    BY <2>2, <2>6
<1>7. PICK q \in PaneRec, j \in Seq(Commands) : q = r.pane /\ j = inbox \o r.cmd
  <2>1. inbox \o r.cmd \in Seq(Commands)
    BY <1>1, <1>6
  <2> QED
    BY <1>6, <2>1
<1>8. Good(q, j, browser, s, crossed, remoteFs) /\ Paid(q) /\ feed' \o pipe' = s
  BY <1>2, <1>5, <1>6, <1>7
<1> QED
  BY <1>1, <1>2, <1>4, <1>6, <1>7, <1>8, PaneStep

\* The user asks for more rows.
LEMMA LoadMoreKeeps == ASSUME PaneInv, LoadMore PROVE PaneInv' /\ pane'.path = pane.path
<1>1. /\ pane \in PaneRec /\ inbox \in Seq(Commands) /\ browser \in BrowserRec /\ pipe \in Seq(Events)
      /\ session \in SessionRec /\ feed \in Seq(Events) /\ remoteFs \in [Dirs -> Nat]
      /\ writing \in Dirs \cup {Nil} /\ crossed \in BOOLEAN /\ feed \o pipe \in Seq(Events)
      /\ Good(pane, inbox, browser, feed \o pipe, crossed, remoteFs) /\ Paid(pane)
  BY PaneFacts
<1>2. session.up /\ ~pane.loading /\ pane.more /\ UNCHANGED <<browser, pipe, session, feed, remoteFs, writing, crossed>>
  BY DEF LoadMore
<1>3. PICK q \in PaneRec : q = [pane EXCEPT !.loading = TRUE, !.id = @ + 1]
  <2>1. pane.id + 1 \in Nat
    BY <1>1 DEF PaneRec
  <2> QED
    BY <1>1, <2>1, ZenonT(40) DEF PaneRec
<1>4. /\ q.loading /\ q.id = pane.id + 1 /\ q.nav = pane.nav /\ q.path = pane.path /\ q.shown = pane.shown /\ q.more = pane.more
      /\ q.back = pane.back /\ q.fwd = pane.fwd /\ q.opens = pane.opens /\ q.open = pane.open /\ q.owed = pane.owed
      /\ q.id \in Nat /\ q.opens \in Nat /\ q.ver = pane.ver /\ q.auto = pane.auto
  BY <1>1, <1>3 DEF PaneRec
<1>5. pane' = q
  BY <1>3 DEF LoadMore
<1>6. PICK c \in Commands : c = [kind |-> "LoadMore", id |-> q.id, path |-> Nil, n |-> q.opens]
  BY <1>4 DEF Commands
<1>7. PICK j \in Seq(Commands) : j = Append(inbox, c)
  <2>1. Append(inbox, c) \in Seq(Commands)
    BY <1>1
  <2> QED
    BY <2>1
<1>8. inbox' = j
  BY <1>4, <1>5, <1>6, <1>7 DEF LoadMore
<1>9. pane.path # Nil /\ pane.nav = Nil
  BY <1>1, <1>2 DEF Good, FirstPages
<1>10. c.id = q.id /\ c.n = q.opens /\ Meant(q, c)
  BY <1>4, <1>6, <1>9 DEF Meant
<1>11. Renewed(pane, q) /\ ~Opening(q) /\ NavigationFits(q)
  BY <1>4, <1>9 DEF Renewed, Opening, NavigationFits
<1>12. (~q.open \/ q.path = Nil => q.owed = 0) /\ (q.path # Nil => q.owed <= remoteFs[q.path])
  <2>1. Owes(pane, feed \o pipe, remoteFs)
    BY <1>1 DEF Good
  <2> QED
    BY <1>4, <2>1 DEF Owes
<1>13. PICK s \in Seq(Events) : s = feed \o pipe
  BY <1>1
<1>14. Good(q, j, browser, s, crossed, remoteFs)
  <2>1. Good(pane, inbox, browser, s, crossed, remoteFs)
    BY <1>1, <1>13
  <2> QED
    BY <1>1, <1>2, <1>4, <1>7, <1>10, <1>11, <1>12, <2>1, RequestKeeps
<1>15. Paid(q)
  BY <1>1, <1>2, <1>4, <1>9 DEF Paid
<1> QED
  BY <1>1, <1>2, <1>4, <1>5, <1>8, <1>13, <1>14, <1>15, PaneStep

\* The monitor applies an event.
LEMMA MonitorKeeps ==
  ASSUME PaneInv, MonitorTakes
  PROVE  PaneInv' /\ (Retraced(pane, pane') => Timeline(pane') = Timeline(pane))
<1>1. /\ pane \in PaneRec /\ inbox \in Seq(Commands) /\ browser \in BrowserRec /\ pipe \in Seq(Events)
      /\ session \in SessionRec /\ feed \in Seq(Events) /\ remoteFs \in [Dirs -> Nat]
      /\ writing \in Dirs \cup {Nil} /\ crossed \in BOOLEAN /\ feed \o pipe \in Seq(Events)
      /\ Good(pane, inbox, browser, feed \o pipe, crossed, remoteFs) /\ Paid(pane)
  BY PaneFacts
<1>2. session.up /\ feed # <<>> /\ feed' = Tail(feed) /\ UNCHANGED <<browser, pipe, session, remoteFs, writing>>
  BY DEF MonitorTakes
<1>3. /\ Tail(feed) \o pipe \in Seq(Events) /\ Tail(feed) \in Seq(Events)
      /\ Shorter(feed \o pipe, Tail(feed) \o pipe) /\ (feed \o pipe)[1] = Head(feed)
  BY <1>1, <1>2, TakenShorter
<1>4. PICK s \in Seq(Events), t \in Seq(Events) : s = feed \o pipe /\ t = Tail(feed) \o pipe
  BY <1>1, <1>3
<1>5. Good(pane, inbox, browser, s, crossed, remoteFs) /\ Shorter(s, t) /\ s[1] = Head(feed) /\ feed' \o pipe' = t
  BY <1>1, <1>2, <1>3, <1>4
<1>6. PICK y \in BOOLEAN : y = (crossed /\ ~(s[1].kind = "Page" /\ s[1].id = pane.id /\ ~s[1].append))
  BY <1>1
<1>7. crossed' = y
  BY <1>5, <1>6 DEF MonitorTakes
<1>8. CASE s[1].kind = "Changed"
  <2>1. PICK r \in OnChange(pane, s[1]) : pane' = r.pane /\ inbox' = inbox \o r.cmd
    BY <1>5, <1>8 DEF MonitorTakes
  <2>2. y = crossed
    BY <1>1, <1>6, <1>8
  <2>3. /\ r.pane \in PaneRec /\ r.cmd \in Seq(Commands)
        /\ Good(r.pane, inbox \o r.cmd, browser, t, crossed, remoteFs) /\ Paid(r.pane)
        /\ r.pane.path = pane.path
    <3>1. PICK p \in PaneRec, i \in Seq(Commands), b \in BrowserRec, x \in BOOLEAN, fs \in [Dirs -> Nat] :
            p = pane /\ i = inbox /\ b = browser /\ x = crossed /\ fs = remoteFs
      BY <1>1
    <3>2. Good(p, i, b, s, x, fs) /\ Paid(p) /\ r \in OnChange(p, s[1])
      BY <1>1, <1>5, <3>1
    <3>3. /\ r.pane \in PaneRec /\ r.cmd \in Seq(Commands)
          /\ Good(r.pane, i \o r.cmd, b, t, x, fs) /\ Paid(r.pane) /\ r.pane.path = p.path
      BY <1>5, <1>8, <3>2, OnChangeKeeps
    <3> QED
      BY <3>1, <3>3
  <2>4. PICK q \in PaneRec, j \in Seq(Commands) : q = r.pane /\ j = inbox \o r.cmd
    <3>1. inbox \o r.cmd \in Seq(Commands)
      BY <1>1, <2>3
    <3> QED
      BY <2>3, <3>1
  <2>5. Good(q, j, browser, t, y, remoteFs) /\ Paid(q)
    BY <2>2, <2>3, <2>4
  <2>6. PaneInv'
    BY <1>1, <1>2, <1>3, <1>5, <1>7, <2>1, <2>4, <2>5, PaneStep
  <2> QED
    BY <2>1, <2>3, <2>6 DEF Retraced
<1>9. CASE s[1].kind # "Changed"
  <2>1. PICK p : p = ApplyBrowser(pane, s[1])
    OBVIOUS
  <2>2. p \in PaneRec /\ Good(p, inbox, browser, t, y, remoteFs) /\ Settled(p) /\ Retraces(pane, p)
    <3>1. PICK o \in PaneRec, i \in Seq(Commands), b \in BrowserRec, x \in BOOLEAN, fs \in [Dirs -> Nat] :
            o = pane /\ i = inbox /\ b = browser /\ x = crossed /\ fs = remoteFs
      BY <1>1
    <3>2. Good(o, i, b, s, x, fs) /\ Paid(o) /\ p = ApplyBrowser(o, s[1])
      BY <1>1, <1>5, <2>1, <3>1
    <3>3. y = (x /\ ~(s[1].kind = "Page" /\ s[1].id = o.id /\ ~s[1].append))
      BY <1>6, <3>1
    <3>4. p \in PaneRec /\ Good(p, i, b, t, y, fs) /\ Settled(p) /\ Retraces(o, p)
      BY <1>5, <1>9, <3>2, <3>3, ApplyKeeps
    <3> QED
      BY <3>1, <3>4
  <2>3. PICK r \in AutoRefresh(p) : pane' = r.pane /\ inbox' = inbox \o r.cmd
    BY <1>5, <1>9, <2>1 DEF MonitorTakes
  <2>4. /\ r.pane \in PaneRec /\ r.cmd \in Seq(Commands)
        /\ Good(r.pane, inbox \o r.cmd, browser, t, y, remoteFs) /\ Paid(r.pane)
        /\ r.pane.path = p.path /\ r.pane.back = p.back /\ r.pane.fwd = p.fwd
    BY <1>1, <2>2, AutoRefreshKeeps
  <2>5. PICK q \in PaneRec, j \in Seq(Commands) : q = r.pane /\ j = inbox \o r.cmd
    <3>1. inbox \o r.cmd \in Seq(Commands)
      BY <1>1, <2>4
    <3> QED
      BY <2>4, <3>1
  <2>6. Good(q, j, browser, t, y, remoteFs) /\ Paid(q)
    BY <2>4, <2>5
  <2>7. PaneInv'
    BY <1>1, <1>2, <1>3, <1>5, <1>7, <2>3, <2>5, <2>6, PaneStep
  <2>8. Retraced(pane, pane') => Timeline(pane') = Timeline(pane)
    <3>1. Timeline(pane') = Timeline(p) /\ pane'.path = p.path
      BY <2>3, <2>4 DEF Timeline
    <3> QED
      BY <2>2, <3>1 DEF Retraced, Retraces
  <2> QED
    BY <2>7, <2>8
<1> QED
  BY <1>8, <1>9

\* The session is up and its browser begins.
LEMMA PaneInitOK == PaneInit => PaneInv
<1> SUFFICES ASSUME PaneInit PROVE PaneInv
  OBVIOUS
<1>1. PICK d \in Dirs : browser = NewBrowser(d, 1) /\ session = Up(d)
  BY DEF PaneInit
<1>2. NoPane \in PaneRec
  <2>1. 0 \in Nat /\ <<>> \in Seq(Dirs) /\ {} \in SUBSET Dirs
    OBVIOUS
  <2> QED
    BY <2>1, ZenonT(40) DEF NoPane, PaneRec
<1>3. /\ ~NoPane.open /\ NoPane.path = Nil /\ ~NoPane.loading /\ NoPane.nav = Nil /\ NoPane.shown = {} /\ ~NoPane.more
      /\ NoPane.back = <<>> /\ NoPane.fwd = <<>> /\ NoPane.owed = 0 /\ NoPane.opens = 0
  BY DEF NoPane
<1>4. browser \in BrowserRec /\ browser.queue = <<>> /\ browser.st = "init" /\ browser.n > 0
  <2>1. <<>> \in Seq(Commands) /\ 1 \in Nat
    OBVIOUS
  <2> QED
    BY <1>1, <2>1 DEF NewBrowser, BrowserRec
<1>5. session \in SessionRec /\ session.up
  BY <1>1 DEF Up, SessionRec
<1>6. /\ pane = NoPane /\ inbox = <<>> /\ pipe = <<>> /\ feed = <<>> /\ remoteFs \in [Dirs -> Nat] /\ writing = Nil
      /\ crossed = FALSE
  BY DEF PaneInit
<1>7. crossed \in BOOLEAN /\ ~crossed
  BY <1>6
<1>8. PaneTypeOK
  <2>1. <<>> \in Seq(Commands) /\ <<>> \in Seq(Events)
    OBVIOUS
  <2> QED
    BY <1>2, <1>4, <1>5, <1>6, <1>7, <2>1 DEF PaneTypeOK
<1>9. Stream = <<>>
  <2>1. <<>> \o <<>> = <<>>
    OBVIOUS
  <2> QED
    BY <1>6, <2>1 DEF Stream
<1>10. Good(pane, inbox, browser, Stream, crossed, remoteFs) /\ Paid(pane)
  BY <1>2, <1>3, <1>4, <1>6, <1>7, <1>9, FreshGood
<1> QED
  BY <1>5, <1>8, <1>10 DEF PaneInv, Down

\* What the pane does in a step, besides keeping the invariant.
LEMMA PaneStepOK ==
  ASSUME PaneInv, [PaneNext]_paneVars
  PROVE  PaneInv' /\ (Retraced(pane, pane') => Timeline(pane') = Timeline(pane))
<1>1. pane'.path \in {Nil, pane.path} => ~Retraced(pane, pane')
  BY DEF Retraced
<1>2. Retired => pane'.path = Nil
  BY DEF Retired, NoPane
<1>3. CASE MonitorTakes
  BY <1>3, MonitorKeeps
<1>4. CASE BrowserOpens
  BY <1>1, <1>4, OpensKeeps DEF BrowserOpens
<1>5. CASE BrowserFirstPage
  BY <1>1, <1>5, FirstPageKeeps DEF BrowserFirstPage
<1>6. CASE BrowserLists
  BY <1>1, <1>6, ListsKeeps DEF BrowserLists
<1>7. CASE BrowserLoadsMore
  BY <1>1, <1>7, LoadsMoreKeeps DEF BrowserLoadsMore
<1>8. CASE BrowserFails
  BY <1>1, <1>8, FailsKeeps DEF BrowserFails
<1>9. CASE LoopCommand
  BY <1>1, <1>9, LoopCommandKeeps DEF LoopCommand
<1>10. CASE LoopEvent
  BY <1>1, <1>10, LoopEventKeeps DEF LoopEvent
<1>11. CASE LoopClosed
  <2>1. pane'.path \in {Nil, pane.path}
    BY <1>2, <1>11 DEF LoopClosed
  <2> QED
    BY <1>1, <1>11, <2>1, ClosedKeeps
<1>12. CASE Reopen
  <2>1. pane'.path \in {Nil, pane.path}
    BY <1>2, <1>12 DEF Reopen
  <2> QED
    BY <1>1, <1>12, <2>1, ReopenedKeeps
<1>13. CASE TransportEnds
  <2>1. pane'.path \in {Nil, pane.path}
    BY <1>2, <1>13 DEF TransportEnds
  <2> QED
    BY <1>1, <1>13, <2>1, TransportEndsKeeps
<1>14. CASE NewAttempt
  BY <1>1, <1>14, NewAttemptKeeps DEF NewAttempt
<1>15. CASE WriteReported
  BY <1>1, <1>15, WriteReportedKeeps DEF WriteReported
<1>16. CASE \E d \in Dirs : WriteHappens(d)
  <2>1. PICK d \in Dirs : WriteHappens(d)
    BY <1>16
  <2> QED
    BY <1>1, <2>1, WriteHappensKeeps DEF WriteHappens
<1>17. CASE LoadMore
  BY <1>1, <1>17, LoadMoreKeeps
<1>18. CASE \E kind \in Kinds \ {"Direct"} : Navigate(kind, Nil)
  <2>1. PICK kind \in Kinds \ {"Direct"} : Navigate(kind, Nil)
    BY <1>18
  <2> QED
    BY <1>1, <2>1, NavigateKeeps
<1>19. CASE \E name \in Names : Navigate("Direct", name)
  <2>1. PICK name \in Names : Navigate("Direct", name)
    BY <1>19
  <2>2. "Direct" \in Kinds
    BY DEF Kinds
  <2> QED
    BY <1>1, <2>1, <2>2, NavigateKeeps
<1>20. CASE UNCHANGED paneVars
  <2>1. PaneInv'
    BY <1>20 DEF paneVars, PaneInv, PaneTypeOK, Down, Stream
  <2> QED
    BY <1>1, <1>20, <2>1 DEF paneVars
<1> QED
  BY <1>3, <1>4, <1>5, <1>6, <1>7, <1>8, <1>9, <1>10, <1>11, <1>12, <1>13, <1>14, <1>15, <1>16, <1>17, <1>18, <1>19, <1>20
     DEF PaneNext, PaneSystem

\* The invariant of the remote pane, in every state.
LEMMA PaneInvHolds == PaneSpec => []PaneInv
<1>1. PaneInit => PaneInv
  BY PaneInitOK
<1>2. PaneInv /\ [PaneNext]_paneVars => PaneInv'
  BY PaneStepOK
<1> QED
  BY <1>1, <1>2, PTL DEF PaneSpec

\* The rows of the remote pane are those of the directory its path names, unless the listing
\* of another one crossed a request (apply_sftp_event, accepts_request).
THEOREM RowsAreOfOneDirectory == PaneSpec => []OneDirectoryShown
<1>1. PaneInv => OneDirectoryShown
  <2> SUFFICES ASSUME PaneInv PROVE OneDirectoryShown
    OBVIOUS
  <2>1. ~crossed => pane.shown \in {{}, {pane.path}}
    BY PaneFacts DEF Good, InStep
  <2> QED
    BY <2>1 DEF OneDirectoryShown
<1> QED
  BY <1>1, PaneInvHolds, PTL

\* Once a listing has arrived the remote pane shows every change that the tab noticed in the
\* directory, also one noticed while it was loading (begin_refresh_after_remote_change).
THEOREM RemoteChangesShown == PaneSpec => []NoticedChangeShown
<1>1. PaneInv => NoticedChangeShown
  <2> SUFFICES ASSUME PaneInv PROVE NoticedChangeShown
    OBVIOUS
  <2>1. Paid(pane) /\ pane.owed \in Nat /\ pane.ver \in Nat
    BY PaneFacts DEF PaneRec
  <2> QED
    BY <2>1 DEF NoticedChangeShown, Paid
<1> QED
  BY <1>1, PaneInvHolds, PTL

\* Going back and forward in the remote pane loses no visited directory, whatever answers
\* fail, come late or are dropped in between (complete_directory_history).
THEOREM RemoteLineKept == PaneSpec => RemoteTimelineKept
<1>1. PaneInv /\ [PaneNext]_paneVars => [Retraced(pane, pane') => Timeline(pane') = Timeline(pane)]_paneVars
  BY PaneStepOK
<1> QED
  BY <1>1, PaneInvHolds, PTL DEF PaneSpec, RemoteTimelineKept

-----------------------------------------------------------------------------
(* The two panes of a tab.                                                  *)

\* Both panes show what this tab knows to have changed in their directory
\* (apply_sftp_event, begin_refresh_after_remote_change, queue_local_change_refresh).
THEOREM PanesShowChanges == PaneSpec /\ FolderSpec => []ChangesShown
<1>1. NoticedChangeShown /\ WatchedChangeShown => ChangesShown
  BY DEF ChangesShown
<1> QED
  BY <1>1, RemoteChangesShown, FolderChangesShown, PTL

\* Neither pane loses a directory going back and forward (complete_directory_history).
THEOREM PanesKeepTheirLine == PaneSpec /\ FolderSpec => TimelineKept
<1>1. TimelineKept <=> LocalTimelineKept /\ RemoteTimelineKept
  BY DEF TimelineKept
<1> QED
  BY <1>1, RemoteLineKept, FolderLineKept
==============================================================================
