--------------------------- MODULE Checkout_proofs ---------------------------
(***************************************************************************)
(* Proofs about the offline cache (OfflineDownload) and about checkouts,   *)
(* returns and read marks (Checkout), for every set of requests, files,    *)
(* loops and patrons and every value of the other constants.               *)
(*                                                                         *)
(* The first part is about the cache alone.  The second part begins by     *)
(* showing that Checkout uses the cache only through its own operations:   *)
(* Checkout implements OfflineDownload, so what is proved of the cache     *)
(* alone holds of the two together.                                        *)
(***************************************************************************)
EXTENDS Checkout, WaitingList_proofs, SequenceTheorems, FiniteSetTheorems,
        WellFoundedInduction, TLAPS

-----------------------------------------------------------------------------
(* The queue, its set, the flag and the loops move together.                *)

WorkOK ==
  /\ queue \in Seq(Ids) /\ queuedIds \subseteq Ids
  /\ processing \in BOOLEAN
  /\ loop \in [Loops -> Tasks]
  /\ \A w \in Loops : Busy(w) => loop[w].id \in Ids
  /\ OneLoop /\ QueueAgrees /\ QueueServed

(* The turn of the loop that the only running or starting loop takes.       *)
LEMMA TakeNextOK ==
  ASSUME loop \in [Loops -> Tasks], NEW w \in Loops, \A v \in Loops : Busy(v) => v = w,
         NEW q \in Seq(Ids), NEW qs, Agrees(q, qs), NEW act,
         TakeNext(w, q, qs, act)
  PROVE  WorkOK'
<1> USE DEF Tasks, LoopPcs, NoTask, Busy
<1>1. qs \subseteq Ids /\ DOMAIN q \subseteq Nat
  BY ElementOfSeq, LenProperties DEF Agrees, Members
<1>2. CASE /\ queue' = <<>>
           /\ queuedIds' = qs \ Members(q)
           /\ processing' = FALSE
           /\ loop' = [loop EXCEPT ![w] = NoTask]
  <2>1. queue' \in Seq(Ids) /\ queuedIds' = {} /\ DOMAIN queue' = {}
    BY <1>2 DEF Agrees
  <2>2. QueueAgrees'
    BY <2>1 DEF QueueAgrees, Agrees, Members
  <2>3. loop' \in [Loops -> Tasks] /\ \A v \in Loops : ~Busy(v)'
    BY <1>2, ConstantsAssumption
  <2> QED
    BY <1>2, <2>1, <2>2, <2>3 DEF WorkOK, OneLoop, QueueServed
<1>3. ASSUME NEW k \in DOMAIN q,
             queue' = SubSeq(q, k + 1, Len(q)),
             queuedIds' = qs \ {q[j] : j \in 1..k},
             processing' = TRUE,
             loop' = [loop EXCEPT ![w] = [NoTask EXCEPT !.pc = "find", !.id = q[k]]]
      PROVE  WorkOK'
  <2>1. queue' \in Seq(Ids) /\ QueueAgrees'
    BY <1>3, ShiftAgrees DEF Agrees, QueueAgrees, Agrees
  <2>2. q[k] \in Ids
    BY ElementOfSeq, LenProperties
  <2> DEFINE t == [NoTask EXCEPT !.pc = "find", !.id = q[k]]
  <2>3. t \in Tasks /\ t.pc = "find"
    <3>1. NoTask \in Tasks
      BY ConstantsAssumption
    <3> HIDE DEF NoTask
    <3> QED
      BY <2>2, <3>1
  <2> HIDE DEF t
  <2>4. /\ loop' \in [Loops -> Tasks]
        /\ \A v \in Loops : Busy(v)' <=> v = w
        /\ loop'[w].id \in Ids
    <3>1. loop' = [loop EXCEPT ![w] = t] /\ t.id = q[k]
      BY <1>3 DEF t
    <3> HIDE DEF Tasks, NoTask
    <3> QED
      BY <2>2, <2>3, <3>1
  <2> QED
    BY <1>1, <1>3, <2>1, <2>4 DEF WorkOK, OneLoop, QueueServed
<1> QED
  BY <1>2, <1>3 DEF TakeNext

(* An enqueue, by a request or by resumePending.                            *)
LEMMA EnqueueOK ==
  ASSUME WorkOK, NEW id \in Ids, Enqueue(id), stopping' = stopping
  PROVE  WorkOK'
<1>1. CASE UNCHANGED work
  BY <1>1 DEF work, WorkOK, OneLoop, Busy, QueueAgrees, Agrees, QueueServed
<1> DEFINE q == Append(queue, id)
           qs == queuedIds \cup {id}
<1>2. ASSUME ~(clearing \/ id \in queuedIds \/ id \in active), ProcessQueue(q, qs)
      PROVE  WorkOK'
  <2>1. q \in Seq(Ids) /\ Agrees(q, qs)
    BY <1>2, AppendAgrees DEF WorkOK, QueueAgrees, Agrees
  <2>2. qs \subseteq Ids
    BY DEF WorkOK
  <2> HIDE DEF q, qs
  <2>3. CASE processing \/ stopping \/ clearing
    <3>1. queue' = q /\ queuedIds' = qs /\ UNCHANGED <<processing, loop>>
      BY <1>2, <2>3 DEF ProcessQueue
    <3> QED
      BY <1>2, <2>1, <2>2, <2>3, <3>1
      DEF WorkOK, QueueAgrees, Agrees, Members, OneLoop, Busy, QueueServed
  <2>4. CASE ~(processing \/ stopping \/ clearing)
    <3>1. PICK w \in Loops : TakeNext(w, q, qs, active)
      BY <1>2, <2>4 DEF ProcessQueue
    <3>2. \A v \in Loops : ~Busy(v)
      BY <2>4 DEF WorkOK, QueueServed
    <3> QED
      BY <2>1, <3>1, <3>2, TakeNextOK DEF WorkOK
  <2> QED
    BY <2>3, <2>4
<1> QED
  BY <1>1, <1>2 DEF Enqueue

(* The end of a download, by the one loop that is running.                  *)
LEMMA FinishOK ==
  ASSUME WorkOK, NEW w \in Loops, Busy(w), Finish(w)
  PROVE  WorkOK'
<1>1. \A v \in Loops : Busy(v) => v = w
  BY DEF WorkOK, OneLoop
<1>2. Agrees(queue, queuedIds)
  BY DEF WorkOK, QueueAgrees, Agrees
<1> QED
  BY <1>1, <1>2, TakeNextOK DEF Finish, WorkOK

(* A step of a loop from one of its awaits to another.                      *)
LEMMA ToOK ==
  ASSUME WorkOK, NEW w \in Loops, Busy(w), NEW t \in Tasks, t.pc # "idle",
         t.id = loop[w].id, loop' = [loop EXCEPT ![w] = t], UNCHANGED <<queue, queuedIds, processing, stopping>>
  PROVE  WorkOK'
<1>1. /\ loop' \in [Loops -> Tasks]
      /\ \A v \in Loops : (Busy(v)' <=> Busy(v)) /\ loop'[v].id = loop[v].id
  BY DEF WorkOK, Busy
<1> QED
  BY <1>1 DEF WorkOK, OneLoop, QueueAgrees, Agrees, QueueServed

(* Aborting sets flags only.                                                *)
LEMMA AbortedOK ==
  ASSUME loop \in [Loops -> Tasks], NEW ids, loop' = Aborted(ids)
  PROVE  /\ loop' \in [Loops -> Tasks]
         /\ \A v \in Loops : (Busy(v)' <=> Busy(v)) /\ loop'[v].id = loop[v].id
BY DEF Aborted, Tasks, Busy

LEMMA ToPcOK ==
  ASSUME WorkOK, NEW w \in Loops, Busy(w), NEW pc \in LoopPcs \ {"idle"}, To(w, pc),
         UNCHANGED <<queue, queuedIds, processing, stopping>>
  PROVE  WorkOK'
<1> DEFINE t == [loop[w] EXCEPT !.pc = pc]
<1>1. t \in Tasks /\ t.pc # "idle" /\ t.id = loop[w].id
  BY DEF WorkOK, Tasks
<1>2. loop' = [loop EXCEPT ![w] = t]
  BY DEF To
<1> HIDE DEF t
<1> QED
  BY <1>1, <1>2, ToOK

LEMMA WorkUnchanged ==
  ASSUME WorkOK, UNCHANGED work, UNCHANGED stopping
  PROVE  WorkOK'
BY DEF WorkOK, work, OneLoop, Busy, QueueAgrees, Agrees, QueueServed

-----------------------------------------------------------------------------
(* The other variables.                                                     *)

RestOK ==
  /\ rows \in [Ids -> Rows]
  /\ media \subseteq Files /\ part \subseteq Files
  /\ active \subseteq Ids
  /\ clearing \in BOOLEAN /\ stopping \in BOOLEAN
  /\ req \in [Reqs -> Calls]
  /\ \A r \in Reqs : Op[r] = "queue" /\ req[r].pc \in {"save", "update", "rm", "rmPart"}
                      => req[r].id \in Ids
  /\ phase \in {"boot", "resuming", "up"}
  /\ pending \subseteq Ids
  /\ restarts \in 0..MaxRestarts

(* The inductive invariant: the types, the agreement of queue and flags,   *)
(* and that a running loop and a queueBook past its findOne hold a row id. *)
IInv == WorkOK /\ RestOK

LEMMA SetRowOK ==
  ASSUME rows \in [Ids -> Rows], NEW id, NEW status \in Statuses,
         NEW bytes \in 0..MaxFileBytes, SetRow(id, status, bytes)
  PROVE  rows' \in [Ids -> Rows]
BY DEF SetRow, Rows

LEMMA SetStatusOK ==
  ASSUME rows \in [Ids -> Rows], NEW id, NEW status \in Statuses, SetStatus(id, status)
  PROVE  rows' \in [Ids -> Rows]
<1>1. CASE id \in Ids
  <2>1. rows[id].bytes \in 0..MaxFileBytes
    BY <1>1 DEF Rows
  <2> QED
    BY <2>1, SetRowOK DEF SetStatus
<1>2. CASE id \notin Ids
  BY <1>2 DEF SetStatus, SetRow, Rows
<1> QED
  BY <1>1, <1>2

LEMMA DeleteRowsOK ==
  ASSUME rows \in [Ids -> Rows], NEW ids, DeleteRows(ids)
  PROVE  rows' \in [Ids -> Rows]
<1>1. NoRow \in Rows
  BY ConstantsAssumption DEF NoRow, Rows, Statuses
<1> QED
  BY <1>1 DEF DeleteRows

(* A request goes on, or ends, without taking a new row id.                 *)
LEMMA GotoOK ==
  ASSUME RestOK, NEW r \in Reqs, NEW pc \in CallPcs, Goto(r, pc),
         Op[r] = "queue" /\ pc \in {"save", "update", "rm", "rmPart"} => req[r].id \in Ids
  PROVE  /\ req' \in [Reqs -> Calls]
         /\ \A s \in Reqs :
              Op[s] = "queue" /\ req'[s].pc \in {"save", "update", "rm", "rmPart"}
              => req'[s].id \in Ids
BY DEF RestOK, Goto, Calls

(* A request goes on with other locals.                                     *)
LEMMA CallToOK ==
  ASSUME RestOK, NEW r \in Reqs, NEW c \in Calls, req' = [req EXCEPT ![r] = c],
         Op[r] = "queue" /\ c.pc \in {"save", "update", "rm", "rmPart"} => c.id \in Ids
  PROVE  /\ req' \in [Reqs -> Calls]
         /\ \A s \in Reqs :
              Op[s] = "queue" /\ req'[s].pc \in {"save", "update", "rm", "rmPart"}
              => req'[s].id \in Ids
BY DEF RestOK, Calls

LEMMA InitOK == Init => IInv
<1> SUFFICES ASSUME Init PROVE IInv
  OBVIOUS
<1> USE ConstantsAssumption DEF Init
<1>1. NoTask \in Tasks /\ NoTask.pc = "idle"
  BY DEF NoTask, Tasks, LoopPcs
<1>2. NoCall \in Calls /\ NoCall.pc = "new"
  BY DEF NoCall, Calls, CallPcs
<1>3. NoRow \in Rows
  BY DEF NoRow, Rows, Statuses
<1>4. \A w \in Loops : ~Busy(w)
  BY <1>1 DEF Busy
<1>5. WorkOK
  <2>1. queue \in Seq(Ids) /\ DOMAIN queue = {}
    OBVIOUS
  <2>2. QueueAgrees
    BY <2>1 DEF QueueAgrees, Agrees, Members
  <2> QED
    BY <1>1, <1>4, <2>1, <2>2 DEF WorkOK, OneLoop, QueueServed
<1>6. RestOK
  <2>1. req \in [Reqs -> Calls] /\ \A r \in Reqs : req[r].pc = "new"
    BY <1>2
  <2>2. rows \in [Ids -> Rows]
    BY <1>3
  <2>3. restarts \in 0..MaxRestarts
    OBVIOUS
  <2> QED
    BY <2>1, <2>2, <2>3 DEF RestOK
<1> QED
  BY <1>5, <1>6 DEF IInv

-----------------------------------------------------------------------------
(* Requests                                                                 *)

(* The steps of queueBook preserve the invariant.                           *)
LEMMA QueueStepOK ==
  ASSUME IInv, NEW r \in Reqs,
         \/ QueueFiles(r) \/ QueueFind(r) \/ QueueSave(r) \/ QueueUpdate(r)
         \/ QueueRemoveFile(r) \/ QueueRemovePart(r)
  PROVE  IInv'
<1> USE ConstantsAssumption
<1>0. WorkOK /\ RestOK /\ req[r] \in Calls
  BY DEF IInv, RestOK
<1>1. CASE QueueFiles(r)
  <2>1. PICK fs \in SUBSET Files :
          req' = [req EXCEPT ![r] =
                    [@ EXCEPT !.pc = IF fs = {} THEN "done" ELSE "find", !.files = fs]]
    BY <1>1 DEF QueueFiles
  <2> DEFINE c == [req[r] EXCEPT !.pc = IF fs = {} THEN "done" ELSE "find", !.files = fs]
  <2>2. c \in Calls /\ c.pc \in {"done", "find"}
    BY <1>0 DEF Calls, CallPcs
  <2>3. req' = [req EXCEPT ![r] = c]
    BY <2>1
  <2> HIDE DEF c
  <2> QED
    BY <1>0, <1>1, <2>2, <2>3, CallToOK, WorkUnchanged
    DEF QueueFiles, IInv, RestOK, disk, boot
<1>2. CASE QueueFind(r)
  <2>1. PICK c \in Calls : /\ req' = [req EXCEPT ![r] = c]
                           /\ c.pc \in {"save", "update"} => c.id \in Ids
                           /\ c.pc \notin {"rm", "rmPart"}
    <3>1. PICK f \in req[r].files :
            \/ req' = [req EXCEPT ![r] = [pc |-> "save", files |-> req[r].files \ {f},
                                          ids |-> {}, id |-> <<r, f>>]]
            \/ req' = [req EXCEPT ![r] =
                  [@ EXCEPT !.pc = IF req[r].files \ {f} = {} THEN "done" ELSE "find",
                            !.files = req[r].files \ {f}]]
            \/ \E id \in Ids :
                 req' = [req EXCEPT ![r] = [pc |-> "update", files |-> req[r].files \ {f},
                                            ids |-> {}, id |-> id]]
      BY <1>2 DEF QueueFind
    <3>2. f \in Files /\ <<r, f>> \in Ids
      BY <1>0, <1>2 DEF Calls, Ids, QueueFind, At
    <3>3. CASE req' = [req EXCEPT ![r] = [pc |-> "save", files |-> req[r].files \ {f},
                                          ids |-> {}, id |-> <<r, f>>]]
      <4> DEFINE c == [pc |-> "save", files |-> req[r].files \ {f}, ids |-> {},
                       id |-> <<r, f>>]
      <4>1. c \in Calls /\ c.pc = "save" /\ c.id \in Ids
        BY <1>0, <3>2 DEF Calls, CallPcs
      <4>2. req' = [req EXCEPT ![r] = c]
        BY <3>3
      <4> HIDE DEF c
      <4> QED
        BY <4>1, <4>2
    <3>4. CASE req' = [req EXCEPT ![r] =
                  [@ EXCEPT !.pc = IF req[r].files \ {f} = {} THEN "done" ELSE "find",
                            !.files = req[r].files \ {f}]]
      <4> DEFINE c == [req[r] EXCEPT !.pc = IF req[r].files \ {f} = {} THEN "done" ELSE "find",
                                     !.files = req[r].files \ {f}]
      <4>1. c \in Calls /\ c.pc \in {"done", "find"}
        BY <1>0 DEF Calls, CallPcs
      <4>2. req' = [req EXCEPT ![r] = c]
        BY <3>4
      <4> HIDE DEF c
      <4> QED
        BY <4>1, <4>2
    <3>5. ASSUME NEW id \in Ids,
                 req' = [req EXCEPT ![r] = [pc |-> "update", files |-> req[r].files \ {f},
                                            ids |-> {}, id |-> id]]
          PROVE  \E c \in Calls : /\ req' = [req EXCEPT ![r] = c]
                                  /\ c.pc \in {"save", "update"} => c.id \in Ids
                                  /\ c.pc \notin {"rm", "rmPart"}
      <4> DEFINE c == [pc |-> "update", files |-> req[r].files \ {f}, ids |-> {}, id |-> id]
      <4>1. c \in Calls /\ c.pc = "update" /\ c.id \in Ids
        BY <1>0, <3>2 DEF Calls, CallPcs
      <4>2. req' = [req EXCEPT ![r] = c]
        BY <3>5
      <4> HIDE DEF c
      <4> QED
        BY <4>1, <4>2
    <3> QED
      BY <3>1, <3>3, <3>4, <3>5
  <2> QED
    BY <1>0, <1>2, <2>1, CallToOK, WorkUnchanged
    DEF QueueFind, IInv, RestOK, disk, boot
<1>3. CASE QueueSave(r)
  <2>1. req[r].id \in Ids /\ Enqueue(req[r].id) /\ stopping' = stopping
    BY <1>0, <1>3 DEF QueueSave, At, RestOK
  <2>2. WorkOK'
    BY <1>0, <2>1, EnqueueOK
  <2>3. rows' \in [Ids -> Rows]
    BY <1>0, <1>3, <2>1 DEF QueueSave, RestOK, Rows, Statuses, Ids, FileOf
  <2>4. PICK pc \in {"done", "find"} : Goto(r, pc)
    BY <1>3 DEF QueueSave, QueueNext
  <2>5. pc \in CallPcs
    BY DEF CallPcs
  <2> QED
    BY <1>0, <1>3, <2>2, <2>3, <2>4, <2>5, GotoOK DEF QueueSave, IInv, RestOK, boot
<1>4. CASE QueueUpdate(r)
  <2>1. req[r].id \in Ids /\ Goto(r, "rm") /\ "rm" \in CallPcs
    BY <1>0, <1>4 DEF QueueUpdate, At, RestOK, CallPcs
  <2>2. ListedBytes[FileOf(req[r].id)] \in 0..MaxFileBytes /\ "queued" \in Statuses
    BY <2>1 DEF FileOf, Ids, Statuses
  <2>3. rows' \in [Ids -> Rows]
    BY <1>0, <1>4, <2>2, SetRowOK DEF QueueUpdate, RestOK
  <2> QED
    BY <1>0, <1>4, <2>1, <2>3, GotoOK, WorkUnchanged DEF QueueUpdate, IInv, RestOK, boot
<1>5. CASE QueueRemoveFile(r)
  <2>1. req[r].id \in Ids /\ Goto(r, "rmPart") /\ "rmPart" \in CallPcs
    BY <1>0, <1>5 DEF QueueRemoveFile, At, RestOK, CallPcs
  <2> QED
    BY <1>0, <1>5, <2>1, GotoOK, WorkUnchanged DEF QueueRemoveFile, IInv, RestOK, boot
<1>6. CASE QueueRemovePart(r)
  <2>1. req[r].id \in Ids /\ Enqueue(req[r].id) /\ stopping' = stopping
    BY <1>0, <1>6 DEF QueueRemovePart, At, RestOK
  <2>2. WorkOK'
    BY <1>0, <2>1, EnqueueOK
  <2>4. PICK pc \in {"done", "find"} : Goto(r, pc)
    BY <1>6 DEF QueueRemovePart, QueueNext
  <2>5. pc \in CallPcs
    BY DEF CallPcs
  <2> QED
    BY <1>0, <1>6, <2>2, <2>4, <2>5, GotoOK DEF QueueRemovePart, IInv, RestOK, boot
<1> QED
  BY <1>1, <1>2, <1>3, <1>4, <1>5, <1>6

(* The steps of removeBook preserve the invariant.                          *)
LEMMA RemoveStepOK ==
  ASSUME IInv, NEW r \in Reqs,
         RemoveFind(r) \/ RemoveDelete(r) \/ RemoveFile(r) \/ RemovePart(r)
  PROVE  IInv'
<1>0. WorkOK /\ RestOK /\ req[r] \in Calls
  BY DEF IInv, RestOK
<1>1. CASE RemoveFind(r)
  <2> DEFINE ids == RowsOf(Target[r])
             c   == [req[r] EXCEPT !.pc = "delete", !.ids = ids]
  <2>1. ids \subseteq Ids
    BY DEF RowsOf
  <2>2. /\ loop' = Aborted(ids) /\ active' = active \ ids
        /\ queuedIds' = queuedIds \ ids /\ queue' = Without(queue, ids)
        /\ req' = [req EXCEPT ![r] = c] /\ UNCHANGED <<processing, stopping>>
    BY <1>1 DEF RemoveFind
  <2>3. c \in Calls /\ c.pc = "delete"
    BY <1>0, <2>1 DEF Calls, CallPcs
  <2> HIDE DEF ids, c
  <2>4. queue' \in Seq(Ids) /\ QueueAgrees' /\ (queue = <<>> => queue' = <<>>)
    <3>1. Agrees(queue, queuedIds)
      BY <1>0 DEF WorkOK, QueueAgrees, Agrees
    <3>2. queue' \in Seq(Ids) /\ Agrees(queue', queuedIds')
      BY <1>0, <2>2, <3>1, WithoutAgrees DEF WorkOK
    <3>3. QueueAgrees'
      BY <3>2 DEF QueueAgrees, Agrees, Members
    <3>4. ASSUME queue = <<>> PROVE queue' = <<>>
      <4>1. queuedIds' = {}
        BY <2>2, <3>1, <3>4 DEF Agrees, Members
      <4>2. DOMAIN queue' = {} /\ Len(queue') \in Nat /\ DOMAIN queue' = 1..Len(queue')
        BY <3>2, <4>1, LenProperties DEF Agrees, Members
      <4>3. Len(queue') = 0
        BY <4>2
      <4> QED
        BY <3>2, <4>3, EmptySeq
    <3> QED
      BY <3>2, <3>3, <3>4
  <2>5. /\ loop' \in [Loops -> Tasks]
        /\ \A v \in Loops : (Busy(v)' <=> Busy(v)) /\ loop'[v].id = loop[v].id
    BY <1>0, <2>2, AbortedOK DEF WorkOK
  <2>6. WorkOK'
    BY <1>0, <2>2, <2>4, <2>5 DEF WorkOK, OneLoop, QueueServed
  <2> QED
    BY <1>0, <1>1, <2>2, <2>3, <2>6, CallToOK DEF RemoveFind, IInv, RestOK, disk, boot
<1>2. CASE RemoveDelete(r)
  <2>1. PICK pc \in {"done", "rm"} : Goto(r, pc)
    BY <1>2 DEF RemoveDelete
  <2>2. pc \in CallPcs /\ Op[r] # "queue"
    BY <1>2 DEF RemoveDelete, At, CallPcs
  <2>3. rows' \in [Ids -> Rows]
    BY <1>0, <1>2, DeleteRowsOK DEF RemoveDelete, RestOK
  <2> QED
    BY <1>0, <1>2, <2>1, <2>2, <2>3, GotoOK, WorkUnchanged
    DEF RemoveDelete, IInv, RestOK, boot
<1>3. CASE RemoveFile(r)
  <2>1. PICK id \in req[r].ids :
          /\ media' = media \ {FileOf(id)}
          /\ req' = [req EXCEPT ![r] = [@ EXCEPT !.pc = "rmPart", !.id = id, !.ids = req[r].ids \ {id}]]
    BY <1>3 DEF RemoveFile
  <2> DEFINE c == [req[r] EXCEPT !.pc = "rmPart", !.id = id, !.ids = req[r].ids \ {id}]
  <2>2. c \in Calls /\ c.id \in Ids
    BY <1>0 DEF Calls, CallPcs
  <2>3. req' = [req EXCEPT ![r] = c]
    BY <2>1
  <2> HIDE DEF c
  <2> QED
    BY <1>0, <1>3, <2>1, <2>2, <2>3, CallToOK, WorkUnchanged
    DEF RemoveFile, IInv, RestOK, boot
<1>4. CASE RemovePart(r)
  <2>1. PICK pc \in {"done", "rm"} : Goto(r, pc)
    BY <1>4 DEF RemovePart
  <2>2. pc \in CallPcs /\ Op[r] # "queue"
    BY <1>4 DEF RemovePart, At, CallPcs
  <2> QED
    BY <1>0, <1>4, <2>1, <2>2, GotoOK, WorkUnchanged DEF RemovePart, IInv, RestOK, boot
<1> QED
  BY <1>1, <1>2, <1>3, <1>4

(* The steps of clearAllCachedMedia preserve the invariant.                 *)
LEMMA ClearStepOK ==
  ASSUME IInv, NEW r \in Reqs,
         ClearStart(r) \/ ClearDelete(r) \/ ClearFiles(r) \/ ClearDone(r)
  PROVE  IInv'
<1> USE DEF CallPcs
<1>0. WorkOK /\ RestOK
  BY DEF IInv
<1>1. CASE ClearStart(r)
  <2>1. /\ loop' = Aborted(Ids) /\ active' = {} /\ queuedIds' = {} /\ queue' = <<>>
        /\ clearing' = TRUE /\ UNCHANGED <<processing, stopping>>
        /\ Goto(r, "delete") /\ Op[r] # "queue"
    BY <1>1 DEF ClearStart, Started
  <2>2. queue' \in Seq(Ids) /\ QueueAgrees'
    BY <2>1 DEF QueueAgrees, Agrees, Members
  <2>3. /\ loop' \in [Loops -> Tasks]
        /\ \A v \in Loops : (Busy(v)' <=> Busy(v)) /\ loop'[v].id = loop[v].id
    BY <1>0, <2>1, AbortedOK DEF WorkOK
  <2>4. WorkOK'
    BY <1>0, <2>1, <2>2, <2>3 DEF WorkOK, OneLoop, QueueServed
  <2> QED
    BY <1>0, <1>1, <2>1, <2>4, GotoOK DEF ClearStart, IInv, RestOK, disk, boot
<1>2. CASE ClearDelete(r)
  <2>1. Goto(r, "rm") /\ Op[r] # "queue"
    BY <1>2 DEF ClearDelete, At
  <2>2. rows' \in [Ids -> Rows]
    BY <1>0, <1>2, DeleteRowsOK DEF ClearDelete, RestOK
  <2> QED
    BY <1>0, <1>2, <2>1, <2>2, GotoOK, WorkUnchanged DEF ClearDelete, IInv, RestOK, boot
<1>3. CASE ClearFiles(r)
  <2>1. Goto(r, "mkdir") /\ Op[r] # "queue" /\ media' \subseteq media /\ part' \subseteq part
    BY <1>3 DEF ClearFiles, At
  <2> QED
    BY <1>0, <1>3, <2>1, GotoOK, WorkUnchanged DEF ClearFiles, IInv, RestOK, boot
<1>4. CASE ClearDone(r)
  <2>1. Goto(r, "done") /\ Op[r] # "queue"
    BY <1>4 DEF ClearDone, At
  <2> QED
    BY <1>0, <1>4, <2>1, GotoOK, WorkUnchanged DEF ClearDone, IInv, RestOK, disk, boot
<1> QED
  BY <1>1, <1>2, <1>3, <1>4

(* The steps of getCachedFilePath, and a request that fails, preserve it.   *)
LEMMA ServeStepOK ==
  ASSUME IInv, NEW r \in Reqs,
         ServeFind(r) \/ ServeAccess(r) \/ ServeMissing(r) \/ CallFails(r)
  PROVE  IInv'
<1> USE DEF CallPcs
<1>0. WorkOK /\ RestOK /\ req[r] \in Calls
  BY DEF IInv, RestOK
<1>1. CASE ServeFind(r)
  <2>0. Op[r] # "queue"
    BY <1>1 DEF ServeFind, Started
  <2>1. CASE Goto(r, "done")
    BY <1>0, <1>1, <2>0, <2>1, GotoOK, WorkUnchanged
    DEF ServeFind, IInv, RestOK, disk, boot
  <2>2. ASSUME NEW id \in Ids,
               req' = [req EXCEPT ![r] = [@ EXCEPT !.pc = "access", !.id = id]]
        PROVE  IInv'
    <3> DEFINE c == [req[r] EXCEPT !.pc = "access", !.id = id]
    <3>1. c \in Calls
      BY <1>0 DEF Calls
    <3>2. req' = [req EXCEPT ![r] = c]
      BY <2>2
    <3> HIDE DEF c
    <3> QED
      BY <1>0, <1>1, <2>0, <3>1, <3>2, CallToOK, WorkUnchanged
      DEF ServeFind, IInv, RestOK, disk, boot
  <2> QED
    BY <1>1, <2>1, <2>2 DEF ServeFind, RowsOf
<1>2. CASE ServeAccess(r)
  <2>1. PICK pc \in {"done", "fail"} : Goto(r, pc)
    BY <1>2 DEF ServeAccess
  <2> QED
    BY <1>0, <1>2, <2>1, GotoOK, WorkUnchanged DEF ServeAccess, IInv, RestOK, disk, boot
<1>3. CASE ServeMissing(r)
  <2>1. rows' \in [Ids -> Rows]
    BY <1>0, <1>3, SetStatusOK DEF ServeMissing, RestOK, Statuses
  <2> QED
    BY <1>0, <1>3, <2>1, GotoOK, WorkUnchanged DEF ServeMissing, IInv, RestOK, boot
<1>4. CASE CallFails(r)
  <2>1. Goto(r, "done") /\ clearing' \in BOOLEAN
    BY <1>0, <1>4 DEF CallFails, RestOK
  <2> QED
    BY <1>0, <1>4, <2>1, GotoOK, WorkUnchanged DEF CallFails, IInv, RestOK, disk, boot
<1> QED
  BY <1>1, <1>2, <1>3, <1>4

-----------------------------------------------------------------------------
(* The loop                                                                 *)

LEMMA LoopFindOK ==
  ASSUME IInv, NEW w \in Loops, LoopFind(w)
  PROVE  IInv'
<1> DEFINE id == loop[w].id
<1>0. /\ WorkOK /\ RestOK /\ Busy(w) /\ loop[w] \in Tasks /\ id \in Ids
      /\ rows[id] \in Rows
  BY DEF IInv, RestOK, WorkOK, LoopFind, Step, Busy
<1>1. CASE TakeNext(w, queue, queuedIds, active) /\ UNCHANGED active
  <2>1. \A v \in Loops : Busy(v) => v = w
    BY <1>0 DEF WorkOK, OneLoop
  <2>2. WorkOK'
    BY <1>0, <1>1, <2>1, TakeNextOK DEF WorkOK, QueueAgrees, Agrees
  <2> QED
    BY <1>0, <1>1, <2>2 DEF LoopFind, IInv, RestOK, disk, boot
<1>2. CASE /\ active' = active \cup {id}
           /\ \E pc \in {"disk", "reject", "capacity"} :
                loop' = [loop EXCEPT ![w] = [@ EXCEPT !.bytes = rows[id].bytes, !.pc = pc]]
           /\ UNCHANGED <<queue, queuedIds, processing>>
  <2>1. PICK pc \in {"disk", "reject", "capacity"} :
          loop' = [loop EXCEPT ![w] = [@ EXCEPT !.bytes = rows[id].bytes, !.pc = pc]]
    BY <1>2
  <2> DEFINE t == [loop[w] EXCEPT !.bytes = rows[id].bytes, !.pc = pc]
  <2>2. t \in Tasks /\ t.pc # "idle" /\ t.id = loop[w].id
    BY <1>0 DEF Tasks, LoopPcs, Rows
  <2>3. loop' = [loop EXCEPT ![w] = t]
    BY <2>1
  <2> HIDE DEF t
  <2>4. stopping' = stopping
    BY DEF LoopFind
  <2>5. WorkOK'
    BY <1>0, <1>2, <2>2, <2>3, <2>4, ToOK
  <2> QED
    BY <1>0, <1>2, <2>5 DEF LoopFind, IInv, RestOK, disk, boot
<1> QED
  <2>1. \E pc \in {"disk", "reject", "capacity"} :
          pc = CASE MaxCacheBytes = 0 -> "disk"
                 [] MaxCacheBytes # 0 /\ clearing -> "reject"
                 [] OTHER -> "capacity"
    OBVIOUS
  <2> QED
    BY <1>1, <1>2, <2>1 DEF LoopFind, Task

(* The steps of assertCacheCapacity preserve the invariant.                 *)
LEMMA CapacityStepOK ==
  ASSUME IInv, NEW w \in Loops,
         Capacity(w) \/ Evict(w) \/ EvictRow(w) \/ EvictEnd(w) \/ DiskSpace(w)
  PROVE  IInv'
<1> USE DEF LoopPcs
<1>0. WorkOK /\ RestOK /\ Busy(w) /\ loop[w] \in Tasks /\ loop[w].id \in Ids
  BY DEF IInv, RestOK, WorkOK, Capacity, Evict, EvictRow, EvictEnd, DiskSpace, Step, Busy
<1>1. CASE Capacity(w)
  <2>1. PICK pc \in {"disk", "evict", "reject"} :
          loop' = [loop EXCEPT ![w] = [@ EXCEPT !.keep = ReadyRows, !.pc = pc]]
    <3>1. \E pc \in {"disk", "evict", "reject"} :
            pc = CASE Fits(ReadyRows, Task(w).bytes) -> "disk"
                   [] ~Fits(ReadyRows, Task(w).bytes) /\ EvictOldest -> "evict"
                   [] OTHER -> "reject"
      OBVIOUS
    <3> QED
      BY <1>1, <3>1 DEF Capacity
  <2> DEFINE t == [loop[w] EXCEPT !.keep = ReadyRows, !.pc = pc]
  <2>2. t \in Tasks /\ t.pc # "idle" /\ t.id = loop[w].id
    BY <1>0 DEF Tasks, ReadyRows
  <2>3. loop' = [loop EXCEPT ![w] = t]
    BY <2>1
  <2> HIDE DEF t
  <2> QED
    BY <1>0, <1>1, <2>2, <2>3, ToOK DEF Capacity, IInv, RestOK, disk, boot
<1>2. CASE Evict(w)
  <2>1. PICK v \in Ids : /\ media' \subseteq media /\ part' \subseteq part
                         /\ loop' = [loop EXCEPT ![w] =
                              [@ EXCEPT !.pc = "evictRow", !.victim = v]]
    <3>1. \A p \in loop[w].keep : p[1] \in Ids
      BY <1>0 DEF Tasks
    <3> QED
      BY <1>2, <3>1 DEF Evict, Task
  <2> DEFINE t == [loop[w] EXCEPT !.pc = "evictRow", !.victim = v]
  <2>2. t \in Tasks /\ t.pc # "idle" /\ t.id = loop[w].id
    BY <1>0 DEF Tasks
  <2>3. loop' = [loop EXCEPT ![w] = t]
    BY <2>1
  <2> HIDE DEF t
  <2> QED
    BY <1>0, <1>2, <2>1, <2>2, <2>3, ToOK DEF Evict, IInv, RestOK, boot
<1>3. CASE EvictRow(w)
  <2> DEFINE k == {p \in loop[w].keep : p[1] # loop[w].victim}
             t == [loop[w] EXCEPT !.pc = "evict", !.victim = NoId, !.keep = k]
  <2>1. rows' \in [Ids -> Rows]
    <3>1. CASE DeleteRows({Task(w).victim})
      BY <1>0, <3>1, DeleteRowsOK DEF RestOK
    <3>2. CASE UNCHANGED rows
      BY <1>0, <3>2 DEF RestOK
    <3> QED
      BY <1>3, <3>1, <3>2 DEF EvictRow
  <2>2. t \in Tasks /\ t.pc # "idle" /\ t.id = loop[w].id
    BY <1>0 DEF Tasks
  <2>3. loop' = [loop EXCEPT ![w] = t]
    BY <1>3 DEF EvictRow, Task
  <2> HIDE DEF t
  <2> QED
    BY <1>0, <1>3, <2>1, <2>2, <2>3, ToOK DEF EvictRow, IInv, RestOK, boot
<1>4. CASE EvictEnd(w)
  <2>1. PICK pc \in {"disk", "reject"} : To(w, pc)
    BY <1>4 DEF EvictEnd
  <2> QED
    BY <1>0, <1>4, <2>1, ToPcOK DEF EvictEnd, IInv, RestOK, disk, boot
<1>5. CASE DiskSpace(w)
  <2>1. PICK pc \in {"mark", "reject"} : To(w, pc)
    BY <1>5 DEF DiskSpace
  <2> QED
    BY <1>0, <1>5, <2>1, ToPcOK DEF DiskSpace, IInv, RestOK, disk, boot
<1> QED
  BY <1>1, <1>2, <1>3, <1>4, <1>5

(* The steps of downloadFile that end it preserve the invariant.            *)
LEMMA EndStepOK ==
  ASSUME IInv, NEW w \in Loops, Reject(w) \/ Ready(w) \/ Discard(w) \/ Fail(w)
  PROVE  IInv'
<1> USE DEF LoopPcs, Statuses
<1>0. /\ WorkOK /\ RestOK /\ Busy(w) /\ loop[w] \in Tasks /\ loop[w].id \in Ids
      /\ UNCHANGED stopping
  BY DEF IInv, RestOK, WorkOK, Reject, Ready, Discard, Fail, Step, Busy
<1>1. ASSUME Finish(w) PROVE WorkOK' /\ active' \subseteq Ids
  BY <1>0, <1>1, FinishOK DEF Finish, RestOK
<1>2. CASE Reject(w)
  <2>1. rows' \in [Ids -> Rows]
    BY <1>0, <1>2, SetStatusOK DEF Reject, RestOK
  <2> QED
    BY <1>0, <1>1, <1>2, <2>1 DEF Reject, IInv, RestOK, boot
<1>3. CASE Ready(w)
  <2>1. CASE SetRow(Task(w).id, "ready", FinalBytes(w)) /\ Finish(w)
    <3>1. FinalBytes(w) \in 0..MaxFileBytes
      BY <1>0, ConstantsAssumption DEF FinalBytes, Task, Tasks, Path, FileOf, Ids
    <3>2. rows' \in [Ids -> Rows]
      BY <1>0, <2>1, <3>1, SetRowOK DEF RestOK
    <3> QED
      BY <1>0, <1>1, <1>3, <2>1, <3>2 DEF Ready, IInv, RestOK, boot
  <2>2. CASE /\ To(w, "discard")
             /\ UNCHANGED <<rows, queue, queuedIds, processing, active>>
    BY <1>0, <1>3, <2>2, ToPcOK DEF Ready, IInv, RestOK, boot
  <2> QED
    BY <1>3, <2>1, <2>2 DEF Ready
<1>4. CASE Discard(w)
  <2>1. CASE Finish(w)
    BY <1>0, <1>1, <1>4, <2>1 DEF Discard, IInv, RestOK, boot
  <2>2. CASE To(w, "fail") /\ UNCHANGED <<queue, queuedIds, processing, active>>
    BY <1>0, <1>4, <2>2, ToPcOK DEF Discard, IInv, RestOK, boot
  <2> QED
    BY <1>4, <2>1, <2>2 DEF Discard
<1>5. CASE Fail(w)
  <2>1. rows' \in [Ids -> Rows]
    BY <1>0, <1>5, SetStatusOK DEF Fail, RestOK
  <2> QED
    BY <1>0, <1>1, <1>5, <2>1 DEF Fail, IInv, RestOK, boot
<1> QED
  BY <1>2, <1>3, <1>4, <1>5

(* The steps in the middle of downloadFile preserve the invariant.          *)
LEMMA DownloadStepOK ==
  ASSUME IInv, NEW w \in Loops,
         \/ Mark(w) \/ Fetch(w) \/ Resize(w) \/ OpenPart(w)
         \/ Stream(w) \/ Progress(w) \/ Rename(w)
  PROVE  IInv'
<1> USE DEF LoopPcs, Statuses
<1> DEFINE id == loop[w].id
<1>0. /\ WorkOK /\ RestOK /\ Busy(w) /\ loop[w] \in Tasks /\ id \in Ids
      /\ Path(w) \in Files /\ UNCHANGED stopping
      /\ rows[id] \in Rows /\ rows[id].status \in Statuses
      /\ loop[w].bytes \in 0..MaxFileBytes
  BY DEF IInv, RestOK, WorkOK, Mark, Fetch, Resize, OpenPart, Stream, Progress, Rename, Step,
         Busy, Path, FileOf, Ids, Tasks, Rows
<1>1. CASE Mark(w)
  <2>1. rows' \in [Ids -> Rows]
    BY <1>0, <1>1, SetStatusOK DEF Mark, RestOK
  <2> QED
    BY <1>0, <1>1, <2>1, ToPcOK DEF Mark, IInv, RestOK, boot
<1>2. CASE Fetch(w)
  <2>1. CASE To(w, "discard")
    BY <1>0, <1>2, <2>1, ToPcOK DEF Fetch, IInv, RestOK, disk, boot
  <2>2. ASSUME NEW n \in {Task(w).bytes, BodyBytes[Path(w)]},
               loop' = [loop EXCEPT ![w] =
                 [@ EXCEPT !.bytes = n, !.pc = IF n # Task(w).bytes THEN "resize" ELSE "open"]]
        PROVE  IInv'
    <3> DEFINE pc == IF n # Task(w).bytes THEN "resize" ELSE "open"
               t  == [loop[w] EXCEPT !.bytes = n, !.pc = pc]
    <3>1. n \in 0..MaxFileBytes
      BY <1>0, ConstantsAssumption DEF Task
    <3>2. t \in Tasks /\ t.pc # "idle" /\ t.id = loop[w].id
      BY <1>0, <3>1 DEF Tasks
    <3>3. loop' = [loop EXCEPT ![w] = t]
      BY <2>2
    <3> HIDE DEF t
    <3> QED
      BY <1>0, <1>2, <3>2, <3>3, ToOK DEF Fetch, IInv, RestOK, disk, boot
  <2> QED
    BY <1>2, <2>1, <2>2 DEF Fetch
<1>3. CASE Resize(w)
  <2>1. rows' \in [Ids -> Rows]
    BY <1>0, <1>3, SetRowOK DEF Resize, RestOK, Task
  <2>2. PICK pc \in {"open", "discard"} : To(w, pc)
    BY <1>3 DEF Resize
  <2> QED
    BY <1>0, <1>3, <2>1, <2>2, ToPcOK DEF Resize, IInv, RestOK, boot
<1>4. CASE OpenPart(w)
  <2>1. PICK pc \in {"stream", "discard"} : To(w, pc)
    <3>1. \E pc \in {"stream", "discard"} :
            pc = IF Task(w).aborted THEN "discard" ELSE "stream"
      OBVIOUS
    <3> QED
      BY <1>4, <3>1 DEF OpenPart
  <2>2. part' \subseteq Files
    BY <1>0, <1>4 DEF OpenPart, RestOK
  <2> QED
    BY <1>0, <1>4, <2>1, <2>2, ToPcOK DEF OpenPart, IInv, RestOK, boot
<1>5. CASE Stream(w)
  <2>1. PICK pc \in {"rename", "discard"} : To(w, pc)
    BY <1>5 DEF Stream
  <2> QED
    BY <1>0, <1>5, <2>1, ToPcOK DEF Stream, IInv, RestOK, disk, boot
<1>6. CASE Progress(w)
  <2>1. rows' \in [Ids -> Rows]
    BY <1>0, <1>6, SetRowOK DEF Progress, RestOK, Task
  <2> QED
    BY <1>0, <1>6, <2>1, WorkUnchanged DEF Progress, IInv, RestOK, boot
<1>7. CASE Rename(w)
  <2>1. PICK pc \in {"ready", "discard"} : To(w, pc)
    BY <1>7 DEF Rename
  <2>2. part' \subseteq Files /\ media' \subseteq Files
    BY <1>0, <1>7 DEF Rename, RestOK
  <2> QED
    BY <1>0, <1>7, <2>1, <2>2, ToPcOK DEF Rename, IInv, RestOK, boot
<1> QED
  BY <1>1, <1>2, <1>3, <1>4, <1>5, <1>6, <1>7

-----------------------------------------------------------------------------
(* Start, stop and crash                                                    *)

LEMMA ProcessStepOK ==
  ASSUME IInv, BootFind \/ Resume \/ Destroy \/ Crash
  PROVE  IInv'
<1>0. WorkOK /\ RestOK
  BY DEF IInv
<1>1. CASE BootFind
  BY <1>0, <1>1, WorkUnchanged DEF BootFind, IInv, RestOK, disk
<1>2. CASE Resume
  <2>1. PICK id \in pending : /\ SetStatus(id, "queued") /\ Enqueue(id)
                             /\ pending' = pending \ {id}
    BY <1>2 DEF Resume
  <2>2. id \in Ids /\ stopping' = stopping
    BY <1>0, <1>2 DEF RestOK, Resume
  <2>3. WorkOK'
    BY <1>0, <2>1, <2>2, EnqueueOK
  <2>4. rows' \in [Ids -> Rows]
    BY <1>0, <2>1, SetStatusOK DEF RestOK, Statuses
  <2>5. phase' \in {"boot", "resuming", "up"} /\ pending' \subseteq Ids
    BY <1>0, <1>2, <2>1 DEF Resume, RestOK
  <2> QED
    BY <1>0, <1>2, <2>3, <2>4, <2>5 DEF Resume, IInv, RestOK
<1>3. CASE Destroy
  <2>1. /\ loop' \in [Loops -> Tasks]
        /\ \A v \in Loops : (Busy(v)' <=> Busy(v)) /\ loop'[v].id = loop[v].id
    BY <1>0, <1>3, AbortedOK DEF Destroy, WorkOK
  <2>2. WorkOK'
    BY <1>0, <1>3, <2>1 DEF Destroy, WorkOK, OneLoop, QueueServed, QueueAgrees, Agrees
  <2> QED
    BY <1>0, <1>3, <2>2 DEF Destroy, IInv, RestOK, disk, boot
<1>4. CASE Crash
  <2>1. NoTask \in Tasks /\ NoTask.pc = "idle"
    BY ConstantsAssumption DEF NoTask, Tasks, LoopPcs
  <2>2. loop' \in [Loops -> Tasks] /\ \A w \in Loops : ~Busy(w)'
    BY <1>4, <2>1 DEF Crash, Busy
  <2>3. queue' \in Seq(Ids) /\ QueueAgrees'
    BY <1>4 DEF Crash, QueueAgrees, Agrees, Members
  <2>4. WorkOK'
    BY <1>4, <2>2, <2>3 DEF Crash, WorkOK, OneLoop, QueueServed
  <2> DEFINE gone == [NoCall EXCEPT !.pc = "done"]
  <2>5. gone \in Calls /\ gone.pc = "done"
    BY ConstantsAssumption DEF NoCall, Calls, CallPcs
  <2>6. req' = [r \in Reqs |-> IF req[r].pc = "new" THEN req[r] ELSE gone]
    BY <1>4 DEF Crash
  <2> HIDE DEF gone
  <2>7. /\ req' \in [Reqs -> Calls]
        /\ \A r \in Reqs : req'[r].pc \in {"new", "done"}
    BY <1>0, <2>5, <2>6 DEF RestOK
  <2>8. restarts' \in 0..MaxRestarts
    BY <1>0, <1>4, ConstantsAssumption DEF Crash, RestOK
  <2> QED
    BY <1>0, <1>4, <2>4, <2>7, <2>8 DEF Crash, IInv, RestOK, disk
<1> QED
  BY <1>1, <1>2, <1>3, <1>4

-----------------------------------------------------------------------------
(* The theorems                                                             *)

LEMMA NextOK == IInv /\ [Next]_vars => IInv'
<1> SUFFICES ASSUME IInv, [Next]_vars PROVE IInv'
  OBVIOUS
<1>1. ASSUME NEW r \in Reqs, Begin(r) \/ Continue(r) PROVE IInv'
  BY <1>1, QueueStepOK, RemoveStepOK, ClearStepOK, ServeStepOK DEF Begin, Continue
<1>2. ASSUME NEW w \in Loops, LoopStep(w) PROVE IInv'
  BY <1>2, LoopFindOK, CapacityStepOK, EndStepOK, DownloadStepOK DEF LoopStep
<1>3. CASE BootFind \/ Resume \/ Destroy \/ Crash
  BY <1>3, ProcessStepOK
<1>4. CASE UNCHANGED vars
  BY <1>4, WorkUnchanged DEF vars, IInv, RestOK, disk, boot
<1> QED
  BY <1>1, <1>2, <1>3, <1>4 DEF Next

LEMMA Invariance == Spec => []IInv
<1>1. Init => IInv
  BY InitOK
<1>2. IInv /\ [Next]_vars => IInv'
  BY NextOK
<1> QED
  BY <1>1, <1>2, PTL DEF Spec

(* Every variable of the offline cache keeps its type.                      *)
THEOREM TypeCorrect == Spec => []TypeOK
<1>1. IInv => TypeOK
  BY DEF IInv, WorkOK, RestOK, TypeOK
<1> QED
  BY <1>1, Invariance, PTL

(* At most one processQueue loop, and so one download, runs at a time.      *)
THEOREM OneLoopAlways == Spec => []OneLoop
<1>1. IInv => OneLoop
  BY DEF IInv, WorkOK
<1> QED
  BY <1>1, Invariance, PTL

(* this.queue and this.queuedIds agree, without duplicates.                 *)
THEOREM QueueAgreesAlways == Spec => []QueueAgrees
<1>1. IInv => QueueAgrees
  BY DEF IInv, WorkOK
<1> QED
  BY <1>1, Invariance, PTL

(* The processing flag is exact and queued work has a loop running for it.  *)
THEOREM QueueServedAlways == Spec => []QueueServed
<1>1. IInv => QueueServed
  BY DEF IInv, WorkOK
<1> QED
  BY <1>1, Invariance, PTL

-----------------------------------------------------------------------------
(* The clearing flag                                                        *)

(* Requests that are not clears, and steps of no request, leave it alone.   *)
LEMMA ClearingKept ==
  ASSUME ClearingEnds, UNCHANGED clearing,
         \A r \in Reqs : Op[r] = "clear" => req'[r] = req[r]
  PROVE  ClearingEnds'
BY DEF ClearingEnds

LEMMA ClearingRequest ==
  ASSUME IInv, ClearingEnds, NEW r \in Reqs, Begin(r) \/ Continue(r)
  PROVE  ClearingEnds'
<1>1. req \in [Reqs -> Calls]
  BY DEF IInv, RestOK
<1>2. CASE ClearStart(r) \/ ClearDelete(r) \/ ClearFiles(r)
  <2>1. Op[r] = "clear" /\ req'[r].pc \in {"delete", "rm", "mkdir"}
    BY <1>1, <1>2 DEF ClearStart, ClearDelete, ClearFiles, Started, At, Goto, Calls
  <2> QED
    BY <2>1 DEF ClearingEnds
<1>3. CASE ClearDone(r)
  BY <1>3 DEF ClearDone, ClearingEnds
<1>4. CASE CallFails(r)
  BY <1>1, <1>4, ClearingKept DEF CallFails, Goto, ClearingEnds
<1>5. CASE QueueFiles(r) \/ QueueFind(r) \/ QueueSave(r) \/ QueueUpdate(r)
           \/ QueueRemoveFile(r) \/ QueueRemovePart(r)
  <2>1. UNCHANGED clearing /\ Op[r] = "queue" /\ \A q \in Reqs : q # r => req'[q] = req[q]
    BY <1>1, <1>5 DEF QueueFiles, QueueFind, QueueSave, QueueUpdate, QueueRemoveFile,
                      QueueRemovePart, QueueNext, Started, At, Goto
  <2> QED
    BY <2>1, ClearingKept
<1>6. CASE RemoveFind(r) \/ RemoveDelete(r) \/ RemoveFile(r) \/ RemovePart(r)
           \/ ServeFind(r) \/ ServeAccess(r) \/ ServeMissing(r)
  <2>1. /\ UNCHANGED clearing /\ Op[r] \in {"remove", "serve"}
        /\ \A q \in Reqs : q # r => req'[q] = req[q]
    BY <1>1, <1>6 DEF RemoveFind, RemoveDelete, RemoveFile, RemovePart, ServeFind, ServeAccess,
                      ServeMissing, Started, At, Goto
  <2> QED
    BY <2>1, ClearingKept
<1> QED
  BY <1>2, <1>3, <1>4, <1>5, <1>6 DEF Begin, Continue

(* No step of the loop touches the flag or a request.                       *)
LEMMA LoopLeavesRequests ==
  ASSUME NEW w \in Loops, LoopStep(w)
  PROVE  UNCHANGED <<clearing, req, phase, pending>>
<1>1. CASE LoopFind(w) \/ Capacity(w) \/ Evict(w) \/ EvictRow(w) \/ EvictEnd(w) \/ DiskSpace(w)
  BY <1>1 DEF LoopFind, Capacity, Evict, EvictRow, EvictEnd, DiskSpace, boot
<1>2. CASE Reject(w) \/ Mark(w) \/ Fetch(w) \/ Resize(w) \/ OpenPart(w) \/ Stream(w)
  BY <1>2 DEF Reject, Mark, Fetch, Resize, OpenPart, Stream, boot
<1>3. CASE Progress(w) \/ Rename(w) \/ Ready(w) \/ Discard(w) \/ Fail(w)
  BY <1>3 DEF Progress, Rename, Ready, Discard, Fail, boot
<1> QED
  BY <1>1, <1>2, <1>3 DEF LoopStep

(* However clears overlap, fail or are cut off by a crash, the flag that   *)
(* silently drops every new download never outlives them.                   *)
THEOREM ClearingEndsAlways == Spec => []ClearingEnds
<1>1. Init => ClearingEnds
  BY DEF Init, ClearingEnds
<1>2. ASSUME IInv, ClearingEnds, [Next]_vars PROVE ClearingEnds'
  <2>1. CASE \E r \in Reqs : Begin(r) \/ Continue(r)
    BY <1>2, <2>1, ClearingRequest
  <2>2. CASE \E w \in Loops : LoopStep(w)
    BY <1>2, <2>2, LoopLeavesRequests, ClearingKept
  <2>3. CASE BootFind \/ Resume \/ Destroy \/ UNCHANGED vars
    BY <1>2, <2>3, ClearingKept DEF BootFind, Resume, Destroy, vars
  <2>4. CASE Crash
    BY <2>4 DEF Crash, ClearingEnds
  <2> QED
    BY <1>2, <2>1, <2>2, <2>3, <2>4 DEF Next
<1> QED
  BY <1>1, <1>2, Invariance, PTL DEF Spec

-----------------------------------------------------------------------------
(* Deleted rows                                                             *)

NoNewRow == \A id \in Ids : Exists(id)' => Exists(id)

LEMMA WritesMakeNoRow ==
  /\ \A id, status, bytes : SetRow(id, status, bytes) => NoNewRow
  /\ \A id, status : SetStatus(id, status) => NoNewRow
  /\ \A ids : DeleteRows(ids) => NoNewRow
  /\ UNCHANGED rows => NoNewRow
<1>1. ASSUME NEW id, NEW status, NEW bytes, SetRow(id, status, bytes) PROVE NoNewRow
  BY <1>1 DEF SetRow, NoNewRow, Exists
<1> QED
  BY <1>1 DEF SetStatus, DeleteRows, NoNewRow, Exists, NoRow

(* A request that is about to save a row is about to save its own.          *)
SavesItsOwn == \A r \in Reqs : req[r].pc = "save" => req[r].id[1] = r

LEMMA OwnKept ==
  ASSUME SavesItsOwn, \A r \in Reqs : req'[r].pc = "save" => req'[r] = req[r]
  PROVE  SavesItsOwn'
BY DEF SavesItsOwn

LEMMA OwnRequest ==
  ASSUME IInv, SavesItsOwn, NEW r \in Reqs, Begin(r) \/ Continue(r)
  PROVE  SavesItsOwn'
<1>1. req \in [Reqs -> Calls]
  BY DEF IInv, RestOK
<1>2. CASE QueueFind(r)
  <2>1. /\ req'[r].pc = "save" => req'[r].id[1] = r
        /\ \A q \in Reqs : q # r => req'[q] = req[q]
    <3>1. PICK t : /\ req' = [req EXCEPT ![r] = t]
                   /\ \/ t.id = <<r, t.id[2]>>
                      \/ t.pc # "save"
      <4> PICK f \in req[r].files :
            \/ req' = [req EXCEPT ![r] =
                         [pc |-> "save", files |-> req[r].files \ {f}, ids |-> {}, id |-> <<r, f>>]]
            \/ req' = [req EXCEPT ![r] =
                         [@ EXCEPT !.pc = IF req[r].files \ {f} = {} THEN "done" ELSE "find",
                                   !.files = req[r].files \ {f}]]
            \/ \E id \in Ids : req' = [req EXCEPT ![r] =
                         [pc |-> "update", files |-> req[r].files \ {f}, ids |-> {}, id |-> id]]
        BY <1>2 DEF QueueFind
      <4>1. CASE req' = [req EXCEPT ![r] =
                   [@ EXCEPT !.pc = IF req[r].files \ {f} = {} THEN "done" ELSE "find",
                             !.files = req[r].files \ {f}]]
        <5> DEFINE t == [req[r] EXCEPT !.pc = IF req[r].files \ {f} = {} THEN "done" ELSE "find",
                                       !.files = req[r].files \ {f}]
        <5>1. t.pc # "save" /\ req' = [req EXCEPT ![r] = t]
          BY <1>1, <4>1 DEF Calls
        <5> QED
          BY <5>1
      <4> QED
        BY <4>1
    <3> QED
      BY <1>1, <3>1
  <2> QED
    BY <2>1 DEF SavesItsOwn
<1>3. ASSUME NEW pc, Goto(r, pc), pc # "save" PROVE SavesItsOwn'
  BY <1>1, <1>3, OwnKept DEF Goto, Calls
<1>4. CASE QueueFiles(r) \/ RemoveFind(r) \/ ServeFind(r) \/ RemoveFile(r)
  <2>1. /\ req'[r].pc # "save"
        /\ \A q \in Reqs : q # r => req'[q] = req[q]
    <3>1. CASE QueueFiles(r)
      BY <1>1, <3>1 DEF QueueFiles, Calls
    <3>2. CASE RemoveFind(r)
      BY <1>1, <3>2 DEF RemoveFind, Calls
    <3>3. CASE ServeFind(r)
      <4>1. CASE Goto(r, "done")
        BY <1>1, <4>1 DEF Goto, Calls
      <4>2. ASSUME NEW id, req' = [req EXCEPT ![r] = [@ EXCEPT !.pc = "access", !.id = id]]
            PROVE  /\ req'[r].pc # "save"
                   /\ \A q \in Reqs : q # r => req'[q] = req[q]
        BY <1>1, <4>2 DEF Calls
      <4> QED
        BY <3>3, <4>1, <4>2 DEF ServeFind
    <3>4. CASE RemoveFile(r)
      BY <1>1, <3>4 DEF RemoveFile, Calls
    <3> QED
      BY <1>4, <3>1, <3>2, <3>3, <3>4
  <2> QED
    BY <2>1, OwnKept
<1>5. CASE QueueSave(r) \/ QueueUpdate(r) \/ QueueRemoveFile(r) \/ QueueRemovePart(r)
           \/ RemoveDelete(r) \/ RemovePart(r)
  BY <1>3, <1>5 DEF QueueSave, QueueUpdate, QueueRemoveFile, QueueRemovePart, QueueNext,
                    RemoveDelete, RemovePart
<1>6. CASE ClearStart(r) \/ ClearDelete(r) \/ ClearFiles(r) \/ ClearDone(r)
           \/ ServeAccess(r) \/ ServeMissing(r) \/ CallFails(r)
  BY <1>3, <1>6 DEF ClearStart, ClearDelete, ClearFiles, ClearDone, ServeAccess, ServeMissing,
                    CallFails
<1> QED
  BY <1>2, <1>4, <1>5, <1>6 DEF Begin, Continue

LEMMA OwnStep == IInv /\ SavesItsOwn /\ [Next]_vars => SavesItsOwn'
<1> SUFFICES ASSUME IInv, SavesItsOwn, [Next]_vars PROVE SavesItsOwn'
  OBVIOUS
<1>1. CASE \E r \in Reqs : Begin(r) \/ Continue(r)
  BY <1>1, OwnRequest
<1>2. CASE \E w \in Loops : LoopStep(w)
  BY <1>2, LoopLeavesRequests, OwnKept
<1>3. CASE BootFind \/ Resume \/ Destroy \/ UNCHANGED vars
  BY <1>3, OwnKept DEF BootFind, Resume, Destroy, vars
<1>4. CASE Crash
  BY <1>4, OwnKept DEF Crash, NoCall
<1> QED
  BY <1>1, <1>2, <1>3, <1>4 DEF Next

(* A row that appears is the one queueBook saves.                           *)
LEMMA RowsAppear ==
  ASSUME IInv, SavesItsOwn, [Next]_vars, NEW id \in Ids, ~Exists(id), Exists(id)'
  PROVE  QueueSave(id[1]) /\ req[id[1]].pc = "save" /\ req[id[1]].id = id
<1>1. CASE \E r \in Reqs : QueueSave(r)
  <2> PICK r \in Reqs : QueueSave(r)
    BY <1>1
  <2>1. id = req[r].id /\ req[r].pc = "save"
    BY DEF QueueSave, At, Exists, IInv, RestOK
  <2> QED
    BY <2>1 DEF SavesItsOwn
<1>2. ASSUME NEW r \in Reqs, Begin(r) \/ Continue(r), ~QueueSave(r) PROVE NoNewRow
  <2>1. CASE QueueFiles(r) \/ QueueFind(r) \/ QueueUpdate(r) \/ QueueRemoveFile(r)
             \/ QueueRemovePart(r)
    BY <2>1, WritesMakeNoRow DEF QueueFiles, QueueFind, QueueUpdate, QueueRemoveFile,
                                 QueueRemovePart, disk
  <2>2. CASE RemoveFind(r) \/ RemoveDelete(r) \/ RemoveFile(r) \/ RemovePart(r)
             \/ ServeFind(r) \/ ServeAccess(r) \/ ServeMissing(r)
    BY <2>2, WritesMakeNoRow DEF RemoveFind, RemoveDelete, RemoveFile, RemovePart, ServeFind,
                                 ServeAccess, ServeMissing, disk
  <2>3. CASE ClearStart(r) \/ ClearDelete(r) \/ ClearFiles(r) \/ ClearDone(r) \/ CallFails(r)
    BY <2>3, WritesMakeNoRow DEF ClearStart, ClearDelete, ClearFiles, ClearDone, CallFails, disk
  <2> QED
    BY <1>2, <2>1, <2>2, <2>3 DEF Begin, Continue
<1>3. ASSUME NEW w \in Loops, LoopStep(w) PROVE NoNewRow
  <2>1. CASE LoopFind(w) \/ Capacity(w) \/ Evict(w) \/ EvictRow(w) \/ EvictEnd(w) \/ DiskSpace(w)
    BY <2>1, WritesMakeNoRow DEF LoopFind, Capacity, Evict, EvictRow, EvictEnd, DiskSpace, disk
  <2>2. CASE Reject(w) \/ Mark(w) \/ Fetch(w) \/ Resize(w) \/ OpenPart(w) \/ Stream(w)
    BY <2>2, WritesMakeNoRow DEF Reject, Mark, Fetch, Resize, OpenPart, Stream, disk
  <2>3. CASE Progress(w) \/ Rename(w) \/ Ready(w) \/ Discard(w) \/ Fail(w)
    BY <2>3, WritesMakeNoRow DEF Progress, Rename, Ready, Discard, Fail
  <2> QED
    BY <1>3, <2>1, <2>2, <2>3 DEF LoopStep
<1>4. CASE BootFind \/ Resume \/ Destroy \/ Crash \/ UNCHANGED vars
  <2>1. NoNewRow
    BY <1>4, WritesMakeNoRow DEF BootFind, Resume, Destroy, Crash, vars, disk
  <2> QED
    BY <2>1 DEF NoNewRow
<1>5. ~NoNewRow
  BY DEF NoNewRow
<1> QED
  BY <1>1, <1>2, <1>3, <1>4, <1>5 DEF Next

(* No late answer to the loop, to a stream request or to a resumed          *)
(* download brings a deleted row back: rows are made by queueBook alone.    *)
THEOREM NoResurrectionAlways == Spec => NoResurrection
<1>1. Init => SavesItsOwn
  BY DEF Init, SavesItsOwn, NoCall
<1>2. IInv /\ SavesItsOwn /\ [Next]_vars =>
        [\A id \in Ids : ~Exists(id) /\ Exists(id)' => req[id[1]].pc = "save"]_vars
  BY RowsAppear
<1> QED
  BY <1>1, <1>2, OwnStep, Invariance, PTL DEF Spec, NoResurrection

-----------------------------------------------------------------------------
(* Requests of the download service                                         *)

LEMMA OwnRequestOnly ==
  ASSUME req \in [Reqs -> Calls], NEW r \in Reqs, Begin(r) \/ Continue(r)
  PROVE  req[r].pc # "done" /\ \A q \in Reqs : q # r => req'[q] = req[q]
<1>1. CASE QueueFiles(r) \/ QueueFind(r) \/ QueueSave(r) \/ QueueUpdate(r)
           \/ QueueRemoveFile(r) \/ QueueRemovePart(r)
  BY <1>1 DEF QueueFiles, QueueFind, QueueSave, QueueUpdate, QueueRemoveFile,
              QueueRemovePart, QueueNext, Started, At, Goto
<1>2. CASE RemoveFind(r) \/ RemoveDelete(r) \/ RemoveFile(r) \/ RemovePart(r)
           \/ ServeFind(r) \/ ServeAccess(r) \/ ServeMissing(r)
  BY <1>2 DEF RemoveFind, RemoveDelete, RemoveFile, RemovePart, ServeFind, ServeAccess,
              ServeMissing, Started, At, Goto
<1>3. CASE ClearStart(r) \/ ClearDelete(r) \/ ClearFiles(r) \/ ClearDone(r) \/ CallFails(r)
  BY <1>3 DEF ClearStart, ClearDelete, ClearFiles, ClearDone, CallFails, Started, At, Goto
<1> QED
  BY <1>1, <1>2, <1>3 DEF Begin, Continue

(* An answered request stays answered.                                      *)
LEMMA DoneStays ==
  ASSUME IInv, [Next]_vars, NEW r \in Reqs, req[r].pc = "done"
  PROVE  req'[r].pc = "done"
<1>1. CASE \E q \in Reqs : Begin(q) \/ Continue(q)
  BY <1>1, OwnRequestOnly DEF IInv, RestOK
<1>2. CASE \E w \in Loops : LoopStep(w)
  BY <1>2, LoopLeavesRequests
<1>3. CASE BootFind \/ Resume \/ Destroy \/ UNCHANGED vars
  BY <1>3 DEF BootFind, Resume, Destroy, vars
<1>4. CASE Crash
  BY <1>4 DEF Crash, NoCall
<1> QED
  BY <1>1, <1>2, <1>3, <1>4 DEF Next

(* A checkout takes files of its book and saves rows of its book.           *)
Owns ==
  \A r \in Reqs : Op[r] = "queue" =>
    /\ \A f \in req[r].files : BookOf[f] = Target[r]
    /\ req[r].pc = "save" => /\ BookOf[FileOf(req[r].id)] = Target[r]
                             /\ FileOf(req[r].id) \notin req[r].files

LEMMA OwnsKept ==
  ASSUME Owns, NEW r \in Reqs, req \in [Reqs -> Calls],
         \A q \in Reqs : q # r => req'[q] = req[q],
         Op[r] = "queue" =>
           /\ req'[r].files \subseteq req[r].files \cup {f \in Files : BookOf[f] = Target[r]}
           /\ req'[r].pc = "save" => /\ FileOf(req'[r].id) \in req[r].files
                                     /\ FileOf(req'[r].id) \notin req'[r].files
  PROVE  Owns'
<1>1. Op[r] = "queue" => /\ \A f \in req'[r].files : BookOf[f] = Target[r]
                         /\ req'[r].pc = "save" => /\ BookOf[FileOf(req'[r].id)] = Target[r]
                                                   /\ FileOf(req'[r].id) \notin req'[r].files
  BY DEF Owns
<1>2. \A q \in Reqs : Op[q] = "queue" =>
         /\ \A f \in req'[q].files : BookOf[f] = Target[q]
         /\ req'[q].pc = "save" => /\ BookOf[FileOf(req'[q].id)] = Target[q]
                                   /\ FileOf(req'[q].id) \notin req'[q].files
  BY <1>1 DEF Owns
<1> QED
  BY <1>2 DEF Owns, FileOf

LEMMA GotoKeepsFiles ==
  ASSUME req \in [Reqs -> Calls], NEW r \in Reqs, NEW pc, Goto(r, pc)
  PROVE  /\ req'[r].pc = pc /\ req'[r].files = req[r].files /\ req'[r].ids = req[r].ids
         /\ \A q \in Reqs : q # r => req'[q] = req[q]
BY DEF Goto, Calls

LEMMA OwnsRequest ==
  ASSUME req \in [Reqs -> Calls], Owns, NEW r \in Reqs, Begin(r) \/ Continue(r)
  PROVE  Owns'
<1>0. \A q \in Reqs : q # r => req'[q] = req[q]
  BY OwnRequestOnly
<1>1. CASE QueueFiles(r)
  <2>1. PICK fs \in {{}, {f \in Files : BookOf[f] = Target[r]}} :
           req' = [req EXCEPT ![r] =
                     [@ EXCEPT !.pc = IF fs = {} THEN "done" ELSE "find", !.files = fs]]
    BY <1>1 DEF QueueFiles
  <2>2. req'[r].files = fs /\ req'[r].pc # "save"
    BY <2>1 DEF Calls
  <2> QED
    BY <1>0, <2>2, OwnsKept
<1>2. CASE QueueFind(r)
  <2> PICK f \in req[r].files :
         \/ req' = [req EXCEPT ![r] =
                      [pc |-> "save", files |-> req[r].files \ {f}, ids |-> {}, id |-> <<r, f>>]]
         \/ req' = [req EXCEPT ![r] =
                      [@ EXCEPT !.pc = IF req[r].files \ {f} = {} THEN "done" ELSE "find",
                                !.files = req[r].files \ {f}]]
         \/ \E id \in Ids : req' = [req EXCEPT ![r] =
                      [pc |-> "update", files |-> req[r].files \ {f}, ids |-> {}, id |-> id]]
    BY <1>2 DEF QueueFind
  <2>1. CASE req' = [req EXCEPT ![r] =
                      [pc |-> "save", files |-> req[r].files \ {f}, ids |-> {}, id |-> <<r, f>>]]
    <3>1. req'[r].files = req[r].files \ {f} /\ FileOf(req'[r].id) = f
      BY <2>1 DEF FileOf
    <3> QED
      BY <1>0, <3>1, OwnsKept
  <2>2. CASE req' = [req EXCEPT ![r] =
                      [@ EXCEPT !.pc = IF req[r].files \ {f} = {} THEN "done" ELSE "find",
                                !.files = req[r].files \ {f}]]
    <3>1. req'[r].files \subseteq req[r].files /\ req'[r].pc # "save"
      BY <2>2 DEF Calls
    <3> QED
      BY <1>0, <3>1, OwnsKept
  <2>3. CASE \E id \in Ids : req' = [req EXCEPT ![r] =
                      [pc |-> "update", files |-> req[r].files \ {f}, ids |-> {}, id |-> id]]
    <3>1. req'[r].files \subseteq req[r].files /\ req'[r].pc # "save"
      BY <2>3
    <3> QED
      BY <1>0, <3>1, OwnsKept
  <2> QED
    BY <2>1, <2>2, <2>3
<1>3. CASE QueueSave(r) \/ QueueUpdate(r) \/ QueueRemoveFile(r) \/ QueueRemovePart(r)
           \/ CallFails(r)
  <2>1. \E pc \in {"done", "find", "rm", "rmPart"} : Goto(r, pc)
    BY <1>3 DEF QueueSave, QueueUpdate, QueueRemoveFile, QueueRemovePart, QueueNext, CallFails
  <2>2. req'[r].files = req[r].files /\ req'[r].pc # "save"
    BY <2>1, GotoKeepsFiles
  <2> QED
    BY <1>0, <2>2, OwnsKept
<1>4. CASE Op[r] # "queue"
  BY <1>0, <1>4, OwnsKept
<1> QED
  BY <1>1, <1>2, <1>3, <1>4
     DEF Begin, Continue, RemoveFind, RemoveDelete, RemoveFile, RemovePart, ClearStart,
         ClearDelete, ClearFiles, ClearDone, ServeFind, ServeAccess, ServeMissing, Started, At

LEMMA OwnsStep ==
  ASSUME IInv, Owns, [Next]_vars
  PROVE  Owns'
<1>1. CASE \E r \in Reqs : Begin(r) \/ Continue(r)
  BY <1>1, OwnsRequest DEF IInv, RestOK
<1>2. CASE UNCHANGED req
  BY <1>2 DEF Owns
<1>3. CASE Crash
  <2>1. \A r \in Reqs : \/ req'[r] = req[r]
                        \/ req'[r].files = {} /\ req'[r].pc = "done"
    BY <1>3 DEF Crash, NoCall
  <2> QED
    BY <2>1 DEF Owns
<1> QED
  BY <1>1, <1>2, <1>3, LoopLeavesRequests DEF Next, BootFind, Resume, Destroy, vars
-----------------------------------------------------------------------------
(* What is in hand                                                          *)

(* The row of id was saved once: its request saves it no more.              *)
Made(id) ==
  /\ BookOf[FileOf(id)] = Target[id[1]]
  /\ req[id[1]].pc # "new"
  /\ FileOf(id) \notin req[id[1]].files
  /\ req[id[1]].pc = "save" => req[id[1]].id # id

LEMMA FilesShrink ==
  ASSUME req \in [Reqs -> Calls], NEW r \in Reqs, Op[r] = "queue", req[r].pc # "new",
         Begin(r) \/ Continue(r)
  PROVE  /\ req'[r].pc # "new"
         /\ req'[r].files \subseteq req[r].files
         /\ req'[r].pc = "save" => FileOf(req'[r].id) \in req[r].files
<1>1. CASE QueueFind(r)
  <2> PICK f \in req[r].files :
         \/ req' = [req EXCEPT ![r] =
                      [pc |-> "save", files |-> req[r].files \ {f}, ids |-> {}, id |-> <<r, f>>]]
         \/ req' = [req EXCEPT ![r] =
                      [@ EXCEPT !.pc = IF req[r].files \ {f} = {} THEN "done" ELSE "find",
                                !.files = req[r].files \ {f}]]
         \/ \E id \in Ids : req' = [req EXCEPT ![r] =
                      [pc |-> "update", files |-> req[r].files \ {f}, ids |-> {}, id |-> id]]
    BY <1>1 DEF QueueFind
  <2>1. CASE req' = [req EXCEPT ![r] =
                      [pc |-> "save", files |-> req[r].files \ {f}, ids |-> {}, id |-> <<r, f>>]]
    BY <2>1 DEF FileOf
  <2>2. CASE req' = [req EXCEPT ![r] =
                      [@ EXCEPT !.pc = IF req[r].files \ {f} = {} THEN "done" ELSE "find",
                                !.files = req[r].files \ {f}]]
    BY <2>2 DEF Calls
  <2>3. CASE \E id \in Ids : req' = [req EXCEPT ![r] =
                      [pc |-> "update", files |-> req[r].files \ {f}, ids |-> {}, id |-> id]]
    BY <2>3
  <2> QED
    BY <2>1, <2>2, <2>3
<1>2. CASE QueueSave(r) \/ QueueUpdate(r) \/ QueueRemoveFile(r) \/ QueueRemovePart(r)
           \/ CallFails(r)
  <2>1. \E pc \in {"done", "find", "rm", "rmPart"} : Goto(r, pc)
    BY <1>2 DEF QueueSave, QueueUpdate, QueueRemoveFile, QueueRemovePart, QueueNext, CallFails
  <2> QED
    BY <2>1, GotoKeepsFiles
<1> QED
  BY <1>1, <1>2
     DEF Begin, Continue, QueueFiles, RemoveFind, RemoveDelete, RemoveFile, RemovePart,
         ClearStart, ClearDelete, ClearFiles, ClearDone, ServeFind, ServeAccess, ServeMissing,
         Started, At

(* Once made, always made.                                                  *)
LEMMA MadeStays ==
  ASSUME IInv, [Next]_vars, NEW id \in Ids, Made(id)
  PROVE  Made(id)'
<1> DEFINE r == id[1]
<1>0. r \in Reqs /\ Op[r] = "queue" /\ req \in [Reqs -> Calls]
  BY DEF Ids, IInv, RestOK
<1>1. CASE Begin(r) \/ Continue(r)
  <2>1. /\ req'[r].pc # "new" /\ req'[r].files \subseteq req[r].files
        /\ req'[r].pc = "save" => FileOf(req'[r].id) \in req[r].files
    BY <1>0, <1>1, FilesShrink DEF Made
  <2> HIDE DEF r
  <2>2. FileOf(id) \notin req[r].files /\ BookOf[FileOf(id)] = Target[r]
    BY DEF Made, r
  <2>3. req'[r].pc = "save" => req'[r].id # id
    BY <2>1, <2>2
  <2> QED
    BY <2>1, <2>2, <2>3 DEF Made, r, FileOf
<1>2. ASSUME NEW q \in Reqs, Begin(q) \/ Continue(q), q # r PROVE Made(id)'
  BY <1>0, <1>2, OwnRequestOnly DEF Made, FileOf
<1>3. CASE UNCHANGED req
  BY <1>3 DEF Made, FileOf
<1>4. CASE Crash
  <2>1. req'[r].pc = "done" /\ req'[r].files = {}
    BY <1>0, <1>4 DEF Crash, NoCall, Made
  <2> QED
    BY <2>1 DEF Made, FileOf
<1> QED
  BY <1>1, <1>2, <1>3, <1>4, LoopLeavesRequests DEF Next, BootFind, Resume, Destroy, vars

(* Every row was saved by its request.                                      *)
RowsMade == \A id \in Ids : Exists(id) => Made(id)

LEMMA RowsMadeStep ==
  ASSUME IInv, SavesItsOwn, Owns, RowsMade, [Next]_vars
  PROVE  RowsMade'
<1> SUFFICES ASSUME NEW id \in Ids, Exists(id)' PROVE Made(id)'
  BY DEF RowsMade
<1>1. CASE Exists(id)
  BY <1>1, MadeStays DEF RowsMade
<1>2. CASE ~Exists(id)
  <2> DEFINE r == id[1]
  <2>1. /\ r \in Reqs /\ QueueSave(r) /\ req[r].pc = "save" /\ req[r].id = id /\ Op[r] = "queue"
        /\ req \in [Reqs -> Calls]
    BY <1>2, RowsAppear DEF Ids, IInv, RestOK
  <2> HIDE DEF r
  <2>2. /\ BookOf[FileOf(id)] = Target[r] /\ FileOf(id) \notin req[r].files
    BY <2>1 DEF Owns
  <2>3. \E pc \in {"done", "find"} : Goto(r, pc)
    BY <2>1 DEF QueueSave, QueueNext
  <2>4. req'[r].pc \in {"done", "find"} /\ req'[r].files = req[r].files
    BY <2>1, <2>3, GotoKeepsFiles
  <2> QED
    BY <2>2, <2>4 DEF Made, FileOf, r
<1> QED
  BY <1>1, <1>2

(* A row that was made and deleted does not exist again.                    *)
LEMMA GoneForGood ==
  ASSUME IInv, SavesItsOwn, [Next]_vars, NEW id \in Ids, Made(id), ~Exists(id)
  PROVE  ~Exists(id)'
BY RowsAppear DEF Made

(* The ids that wait in the queue or that the loop works on.                *)
InHand == queuedIds \cup {loop[w].id : w \in {v \in Loops : Busy(v)}}

LEMMA TakeNextHand ==
  ASSUME loop \in [Loops -> Tasks], NEW w \in Loops, NEW q, NEW qs, Members(q) \subseteq qs,
         DOMAIN q \subseteq Nat,
         NEW act, TakeNext(w, q, qs, act)
  PROVE  InHand' \subseteq qs \cup {loop[v].id : v \in {u \in Loops \ {w} : Busy(u)}}
<1>1. CASE /\ queuedIds' = qs \ Members(q) /\ loop' = [loop EXCEPT ![w] = NoTask]
  <2>1. \A v \in Loops : Busy(v)' => v # w /\ Busy(v) /\ loop'[v].id = loop[v].id
    BY <1>1 DEF Busy, NoTask
  <2> QED
    BY <1>1, <2>1 DEF InHand
<1>2. ASSUME NEW k \in DOMAIN q, queuedIds' = qs \ {q[j] : j \in 1..k},
             loop' = [loop EXCEPT ![w] = [NoTask EXCEPT !.pc = "find", !.id = q[k]]]
      PROVE  InHand' \subseteq qs \cup {loop[v].id : v \in {u \in Loops \ {w} : Busy(u)}}
  <2>1. q[k] \in qs
    BY DEF Members
  <2>2. \A v \in Loops : v # w => loop'[v] = loop[v]
    BY <1>2
  <2>3. loop'[w].id = q[k]
    BY <1>2 DEF NoTask
  <2> QED
    BY <1>2, <2>1, <2>2, <2>3 DEF InHand, Busy
<1> QED
  BY <1>1, <1>2 DEF TakeNext

LEMMA EnqueueHand ==
  ASSUME WorkOK, NEW id \in Ids, Enqueue(id)
  PROVE  InHand' \subseteq InHand \cup {id}
<1>1. CASE UNCHANGED work
  BY <1>1 DEF work, InHand, Busy
<1> DEFINE q == Append(queue, id)
           qs == queuedIds \cup {id}
<1>2. ASSUME ~(clearing \/ id \in queuedIds \/ id \in active), ProcessQueue(q, qs)
      PROVE  InHand' \subseteq InHand \cup {id}
  <2>1. CASE queuedIds' = qs /\ UNCHANGED loop
    BY <2>1 DEF InHand, Busy
  <2>2. ASSUME NEW w \in Loops, TakeNext(w, q, qs, active)
        PROVE  InHand' \subseteq InHand \cup {id}
    <3>1. Agrees(q, qs) /\ q \in Seq(Ids)
      BY <1>2, AppendAgrees DEF WorkOK, QueueAgrees, Agrees
    <3>2. Members(q) \subseteq qs /\ DOMAIN q \subseteq Nat
      BY <3>1, LenProperties DEF Agrees
    <3> HIDE DEF q, qs
    <3>3. InHand' \subseteq qs \cup {loop[v].id : v \in {u \in Loops \ {w} : Busy(u)}}
      BY <2>2, <3>2, TakeNextHand DEF WorkOK
    <3>4. qs = queuedIds \cup {id}
      BY DEF qs
    <3> QED
      BY <3>3, <3>4 DEF InHand
  <2> QED
    BY <1>2, <2>1, <2>2 DEF ProcessQueue
<1> QED
  BY <1>1, <1>2 DEF Enqueue

LEMMA FinishHand ==
  ASSUME WorkOK, NEW w \in Loops, TakeNext(w, queue, queuedIds, active) \/ Finish(w)
  PROVE  InHand' \subseteq InHand
<1>1. Members(queue) \subseteq queuedIds /\ DOMAIN queue \subseteq Nat
  BY LenProperties DEF WorkOK, QueueAgrees, Agrees
<1>2. InHand' \subseteq queuedIds \cup {loop[v].id : v \in {u \in Loops \ {w} : Busy(u)}}
  BY <1>1, TakeNextHand DEF WorkOK, Finish
<1> QED
  BY <1>2 DEF InHand

-----------------------------------------------------------------------------
(* A step puts in hand only what a request enqueues or a restart resumes.   *)
LEMMA HandGrows ==
  ASSUME IInv, [Next]_vars, NEW id \in InHand', id \notin InHand
  PROVE  \/ \E r \in Reqs : (QueueSave(r) \/ QueueRemovePart(r)) /\ id = req[r].id
         \/ Resume /\ id \in pending
<1> USE DEF IInv
<1>1. CASE UNCHANGED work
  BY <1>1 DEF work, InHand, Busy
<1>2. ASSUME NEW r \in Reqs, Begin(r) \/ Continue(r)
      PROVE  UNCHANGED work \/ InHand' \subseteq InHand \/ QueueSave(r) \/ QueueRemovePart(r)
  <2>1. CASE RemoveFind(r) \/ ClearStart(r)
    <3>1. queuedIds' \subseteq queuedIds /\ \E ids : loop' = Aborted(ids)
      BY <2>1 DEF RemoveFind, ClearStart
    <3>2. \A v \in Loops : (Busy(v)' <=> Busy(v)) /\ loop'[v].id = loop[v].id
      BY <3>1, AbortedOK DEF WorkOK
    <3> QED
      BY <3>1, <3>2 DEF InHand
  <2> QED
    BY <1>2, <2>1
       DEF Begin, Continue, QueueFiles, QueueFind, QueueUpdate, QueueRemoveFile, RemoveDelete,
           RemoveFile, RemovePart, ClearDelete, ClearFiles, ClearDone, ServeFind, ServeAccess,
           ServeMissing, CallFails
<1>3. ASSUME NEW r \in Reqs, QueueSave(r) \/ QueueRemovePart(r)
      PROVE  id = req[r].id
  <2>1. Enqueue(req[r].id) /\ req[r].id \in Ids
    BY <1>3 DEF QueueSave, QueueRemovePart, RestOK, At
  <2> QED
    BY <2>1, EnqueueHand
<1>4. ASSUME NEW w \in Loops, LoopStep(w) PROVE InHand' \subseteq InHand
  <2>1. CASE TakeNext(w, queue, queuedIds, active) \/ Finish(w)
    BY <2>1, FinishHand
  <2>3. ASSUME UNCHANGED queuedIds, NEW pc, Busy(w), To(w, pc) PROVE InHand' \subseteq InHand
    <3>1. \A v \in Loops : loop'[v].id = loop[v].id /\ (Busy(v)' => Busy(v))
      BY <2>3 DEF WorkOK, Busy, To, Tasks
    <3> QED
      BY <2>3, <3>1 DEF InHand
  <2>4. loop[w] \in Tasks /\ Busy(w)
    BY <1>4 DEF WorkOK, LoopStep, LoopFind, Capacity, Evict, EvictRow, EvictEnd, DiskSpace,
         Reject, Mark, Fetch, Resize, OpenPart, Stream, Progress, Rename, Ready, Discard, Fail,
         Step, Busy
  <2>5. CASE LoopFind(w)
    <3>1. CASE rows[loop[w].id].status \notin {"none", "ready"}
      <4>1. PICK pc : loop' = [loop EXCEPT ![w] = [@ EXCEPT !.bytes = rows[loop[w].id].bytes,
                                                           !.pc = pc]]
        BY <2>5, <3>1 DEF LoopFind, Task
      <4>2. UNCHANGED queuedIds
        BY <2>5, <3>1 DEF LoopFind, Task
      <4>3. \A v \in Loops : loop'[v].id = loop[v].id /\ (Busy(v)' => Busy(v))
        BY <2>4, <4>1 DEF WorkOK, Busy, Tasks
      <4> QED
        BY <4>2, <4>3 DEF InHand
    <3> QED
      BY <2>1, <2>5, <3>1 DEF LoopFind, Task
  <2>6. CASE Capacity(w) \/ Evict(w) \/ EvictRow(w) \/ Fetch(w)
    <3>1. /\ UNCHANGED queuedIds
          /\ loop'[w].id = loop[w].id /\ \A v \in Loops : v # w => loop'[v] = loop[v]
      <4>1. CASE Capacity(w)
        BY <2>4, <4>1 DEF Capacity, Tasks, WorkOK
      <4>2. CASE Evict(w)
        BY <2>4, <4>2 DEF Evict, Tasks, WorkOK
      <4>3. CASE EvictRow(w)
        BY <2>4, <4>3 DEF EvictRow, Tasks, WorkOK
      <4>4. CASE Fetch(w)
        <5>1. CASE To(w, "discard")
          BY <2>4, <4>4, <5>1 DEF Fetch, To, Tasks, WorkOK
        <5>2. ASSUME NEW n, loop' = [loop EXCEPT ![w] =
                 [@ EXCEPT !.bytes = n, !.pc = IF n # Task(w).bytes THEN "resize" ELSE "open"]]
              PROVE  /\ loop'[w].id = loop[w].id /\ \A v \in Loops : v # w => loop'[v] = loop[v]
          BY <2>4, <5>2 DEF Tasks, WorkOK
        <5> QED
          BY <4>4, <5>1, <5>2 DEF Fetch
      <4> QED
        BY <2>6, <4>1, <4>2, <4>3, <4>4
    <3>2. \A v \in Loops : loop'[v].id = loop[v].id /\ (Busy(v)' => Busy(v))
      BY <2>4, <3>1 DEF Busy
    <3> QED
      BY <3>1, <3>2 DEF InHand
  <2>7. CASE EvictEnd(w) \/ DiskSpace(w) \/ Mark(w) \/ Resize(w) \/ OpenPart(w) \/ Stream(w)
             \/ Rename(w)
    BY <2>3, <2>4, <2>7 DEF EvictEnd, DiskSpace, Mark, Resize, OpenPart, Stream, Rename
  <2>8. CASE Progress(w)
    BY <2>8 DEF Progress, work, InHand, Busy
  <2>9. CASE Reject(w) \/ Ready(w) \/ Discard(w) \/ Fail(w)
    BY <2>1, <2>3, <2>4, <2>9 DEF Reject, Ready, Discard, Fail
  <2> QED
    BY <1>4, <2>5, <2>6, <2>7, <2>8, <2>9 DEF LoopStep
<1>5. ASSUME Resume PROVE id \in pending
  BY <1>5, EnqueueHand DEF Resume, RestOK
<1>6. CASE BootFind \/ Destroy \/ Crash \/ UNCHANGED vars
  <2>1. CASE Destroy
    <3>1. \A v \in Loops : (Busy(v)' <=> Busy(v)) /\ loop'[v].id = loop[v].id
      BY <2>1, AbortedOK DEF WorkOK, Destroy
    <3> QED
      BY <2>1, <3>1 DEF InHand, Destroy
  <2>2. CASE Crash
    BY <2>2 DEF Crash, InHand, Busy, NoTask
  <2> QED
    BY <1>1, <1>6, <2>1, <2>2 DEF BootFind, vars
<1> QED
  BY <1>1, <1>2, <1>3, <1>4, <1>5, <1>6 DEF Next

(* The rows in the hands of the queue, of the loop, of a checkout that      *)
(* resets them and of a return that deletes them were all made before.      *)
HandMade == \A id \in InHand \cup pending : Made(id)

Resets(r) == Op[r] = "queue" /\ req[r].pc \in {"update", "rm", "rmPart"}
QueueCalls ==
  \A r \in Reqs : Resets(r) =>
    /\ Made(req[r].id) /\ BookOf[FileOf(req[r].id)] = Target[r]
    /\ ~Exists(<<r, FileOf(req[r].id)>>)

Returns(r) == Op[r] = "remove" /\ req[r].pc \in {"delete", "rm", "rmPart"}
RemoveCalls ==
  \A r \in Reqs : Returns(r) => \A id \in req[r].ids :
    /\ Made(id) /\ BookOf[FileOf(id)] = Target[r]
    /\ req[r].pc # "delete" => ~Exists(id)

History == SavesItsOwn /\ Owns /\ RowsMade /\ HandMade /\ QueueCalls /\ RemoveCalls

LEMMA HandIds ==
  ASSUME IInv
  PROVE  InHand \subseteq Ids /\ pending \subseteq Ids
BY DEF IInv, WorkOK, RestOK, InHand

LEMMA HandMadeStep ==
  ASSUME IInv, History, [Next]_vars
  PROVE  HandMade'
<1> USE DEF History
<1>0. InHand \subseteq Ids /\ pending \subseteq Ids /\ RowsMade'
  BY HandIds, RowsMadeStep
<1>1. ASSUME NEW id \in InHand', id \notin InHand PROVE Made(id)'
  <2>1. ASSUME NEW r \in Reqs, QueueSave(r) \/ QueueRemovePart(r), id = req[r].id
        PROVE  Made(id)'
    <3>0. id \in Ids /\ Op[r] = "queue"
      BY <2>1 DEF QueueSave, QueueRemovePart, At, IInv, RestOK
    <3>1. CASE QueueSave(r)
      BY <1>0, <2>1, <3>0, <3>1 DEF QueueSave, Exists, RowsMade, IInv, RestOK
    <3>2. CASE QueueRemovePart(r)
      <4>1. Resets(r)
        BY <3>2 DEF QueueRemovePart, At, Resets
      <4> QED
        BY <2>1, <3>0, <4>1, MadeStays DEF QueueCalls
    <3> QED
      BY <2>1, <3>1, <3>2
  <2>2. CASE id \in pending
    BY <1>0, <2>2, MadeStays DEF HandMade
  <2> QED
    BY <1>1, <2>1, <2>2, HandGrows
<1>2. ASSUME NEW id \in pending', id \notin pending PROVE Made(id)'
  <2>1. BootFind
    BY <1>2, LoopLeavesRequests
       DEF Next, Resume, Destroy, Crash, vars, boot, Begin, Continue, QueueFiles, QueueFind,
           QueueSave, QueueUpdate, QueueRemoveFile, QueueRemovePart, RemoveFind, RemoveDelete,
           RemoveFile, RemovePart, ClearStart, ClearDelete, ClearFiles, ClearDone, ServeFind,
           ServeAccess, ServeMissing, CallFails
  <2>2. id \in Ids /\ Exists(id)
    BY <1>2, <2>1 DEF BootFind, Exists
  <2> QED
    BY <2>2, MadeStays DEF RowsMade
<1> QED
  BY <1>0, <1>1, <1>2, MadeStays DEF HandMade

(* A checkout is about to reset a row it has just found, of a file of which *)
(* it has made no row and will make none.                                   *)
LEMMA QueueCallsStep ==
  ASSUME IInv, History, [Next]_vars
  PROVE  QueueCalls'
<1> USE DEF History
<1>0. req \in [Reqs -> Calls]
  BY DEF IInv, RestOK
<1>1. ASSUME NEW r \in Reqs, Resets(r), Resets(r)', req'[r].id = req[r].id
      PROVE  /\ Made(req[r].id)' /\ BookOf[FileOf(req[r].id)] = Target[r]
             /\ ~Exists(<<r, FileOf(req[r].id)>>)'
  <2>1. req[r].id \in Ids
    BY <1>1 DEF Resets, IInv, RestOK
  <2>2. <<r, FileOf(req[r].id)>> \in Ids
    BY <1>1, <2>1 DEF Ids, FileOf, Resets
  <2>3. ~Exists(<<r, FileOf(req[r].id)>>)'
    BY <1>1, <2>2, RowsAppear DEF QueueCalls, Resets
  <2> QED
    BY <1>1, <2>1, <2>3, MadeStays DEF QueueCalls
<1>2. ASSUME NEW r \in Reqs, QueueFind(r), Resets(r)'
      PROVE  /\ Made(req[r].id)' /\ BookOf[FileOf(req'[r].id)] = Target[r]
             /\ ~Exists(<<r, FileOf(req[r].id)>>)'
  <2>1. Op[r] = "queue" /\ UNCHANGED rows /\ Next
    BY <1>2 DEF QueueFind, At, disk, Next, Continue
  <2>2. PICK f \in req[r].files, id \in Ids :
           /\ FileOf(id) = f /\ Exists(id)
           /\ req' = [req EXCEPT ![r] = [pc |-> "update", files |-> req[r].files \ {f},
                                         ids |-> {}, id |-> id]]
    <3> PICK f \in req[r].files :
         \/ req' = [req EXCEPT ![r] =
                      [pc |-> "save", files |-> req[r].files \ {f}, ids |-> {}, id |-> <<r, f>>]]
         \/ req' = [req EXCEPT ![r] =
                      [@ EXCEPT !.pc = IF req[r].files \ {f} = {} THEN "done" ELSE "find",
                                !.files = req[r].files \ {f}]]
         \/ \E id \in Ids : 
              /\ FileOf(id) = f /\ Exists(id)
              /\ req' = [req EXCEPT ![r] =
                      [pc |-> "update", files |-> req[r].files \ {f}, ids |-> {}, id |-> id]]
      BY <1>2 DEF QueueFind
    <3>1. CASE req' = [req EXCEPT ![r] =
                      [pc |-> "save", files |-> req[r].files \ {f}, ids |-> {}, id |-> <<r, f>>]]
      <4>1. req'[r].pc = "save"
        BY <1>0, <3>1
      <4> QED
        BY <1>2, <4>1 DEF Resets
    <3>2. CASE req' = [req EXCEPT ![r] =
                      [@ EXCEPT !.pc = IF req[r].files \ {f} = {} THEN "done" ELSE "find",
                                !.files = req[r].files \ {f}]]
      <4>1. req'[r].pc \in {"done", "find"}
        BY <1>0, <3>2 DEF Calls
      <4> QED
        BY <1>2, <4>1 DEF Resets
    <3> QED
      BY <3>1, <3>2
  <2>3. req'[r].id = id /\ BookOf[f] = Target[r] /\ f \in Files
    BY <1>0, <2>1, <2>2 DEF Owns, Calls
  <2>4. <<r, f>> \in Ids /\ ~Exists(<<r, f>>)
    BY <2>1, <2>2, <2>3 DEF Ids, RowsMade, Made, FileOf
  <2>5. ~Exists(<<r, f>>)'
    BY <2>1, <2>4 DEF Exists
  <2>6. Made(id)'
    BY <2>2, MadeStays DEF RowsMade
  <2>7. Made(req[r].id)'
    BY <2>3, <2>6 DEF Made, FileOf
  <2> QED
    BY <2>2, <2>3, <2>5, <2>7 DEF FileOf, Exists
<1>3. ASSUME NEW r \in Reqs, Resets(r)', ~QueueFind(r)
      PROVE  Resets(r) /\ req'[r].id = req[r].id
  <2>1. CASE Begin(r) \/ Continue(r)
    <3>1. CASE QueueUpdate(r) \/ QueueRemoveFile(r)
      <4>1. \E pc : Goto(r, pc)
        BY <3>1 DEF QueueUpdate, QueueRemoveFile
      <4> QED
        BY <1>0, <3>1, <4>1 DEF Goto, Calls, Resets, QueueUpdate, QueueRemoveFile, At
    <3>2. CASE QueueSave(r) \/ QueueRemovePart(r) \/ CallFails(r)
      <4>1. \E pc \in {"done", "find"} : Goto(r, pc)
        BY <3>2 DEF QueueSave, QueueRemovePart, QueueNext, CallFails
      <4> QED
        BY <1>0, <1>3, <4>1 DEF Goto, Calls, Resets
    <3>3. CASE QueueFiles(r)
      <4>1. req'[r].pc \in {"done", "find"}
        BY <1>0, <3>3 DEF QueueFiles, Calls
      <4> QED
        BY <1>3, <4>1 DEF Resets
    <3> QED
      BY <1>3, <2>1, <3>1, <3>2, <3>3
         DEF Begin, Continue, RemoveFind, RemoveDelete, RemoveFile, RemovePart, ClearStart,
             ClearDelete, ClearFiles, ClearDone, ServeFind, ServeAccess, ServeMissing, Started,
             At, Resets
  <2>2. CASE req'[r] = req[r]
    BY <1>3, <2>2 DEF Resets
  <2>3. CASE Crash
    BY <1>3, <2>3 DEF Crash, Resets, NoCall
  <2> QED
    BY <1>0, <2>1, <2>2, <2>3, OwnRequestOnly, LoopLeavesRequests
       DEF Next, BootFind, Resume, Destroy, vars
<1> SUFFICES ASSUME NEW r \in Reqs, Resets(r)'
             PROVE  /\ Made(req[r].id)' /\ BookOf[FileOf(req'[r].id)] = Target[r]
                    /\ ~Exists(<<r, FileOf(req[r].id)>>)'
  BY DEF QueueCalls, FileOf
<1>4. CASE ~QueueFind(r)
  <2>1. Resets(r) /\ req'[r].id = req[r].id
    BY <1>3, <1>4
  <2>2. BookOf[FileOf(req'[r].id)] = Target[r]
    BY <1>1, <2>1
  <2> QED
    BY <1>1, <2>1, <2>2
<1> QED
  BY <1>2, <1>4

(* A return deletes the rows it has found before it removes their files.    *)
LEMMA RemoveCallsStep ==
  ASSUME IInv, History, [Next]_vars
  PROVE  RemoveCalls'
<1> USE DEF History
<1>0. req \in [Reqs -> Calls]
  BY DEF IInv, RestOK
<1>1. ASSUME NEW r \in Reqs, RemoveFind(r), NEW id \in req'[r].ids
      PROVE  req'[r].pc = "delete" /\ Made(id)' /\ BookOf[FileOf(id)] = Target[r]
  <2>1. req' = [req EXCEPT ![r] = [@ EXCEPT !.pc = "delete", !.ids = RowsOf(Target[r])]]
    BY <1>1 DEF RemoveFind
  <2>2. req'[r].pc = "delete" /\ req'[r].ids = RowsOf(Target[r])
    BY <1>0, <2>1 DEF Calls
  <2>3. id \in Ids /\ Exists(id) /\ BookOf[FileOf(id)] = Target[r]
    BY <1>1, <2>2 DEF RowsOf
  <2> QED
    BY <2>2, <2>3, MadeStays DEF RowsMade
<1>2. ASSUME NEW r \in Reqs, Returns(r)', ~RemoveFind(r)
      PROVE  /\ Returns(r) /\ req'[r].ids \subseteq req[r].ids
             /\ req'[r].pc # "delete" => req[r].pc # "delete" \/ RemoveDelete(r)
  <2>1. CASE Begin(r) \/ Continue(r)
    <3>1. CASE RemoveDelete(r) \/ RemovePart(r)
      <4>1. \E pc \in {"done", "rm"} : Goto(r, pc)
        BY <3>1 DEF RemoveDelete, RemovePart
      <4> QED
        BY <1>0, <3>1, <4>1 DEF Goto, Calls, Returns, RemoveDelete, RemovePart, At
    <3>2. CASE RemoveFile(r)
      <4>1. PICK id : req' = [req EXCEPT ![r] =
                    [@ EXCEPT !.pc = "rmPart", !.id = id, !.ids = req[r].ids \ {id}]]
        BY <3>2 DEF RemoveFile
      <4>2. req'[r].pc = "rmPart" /\ req'[r].ids = req[r].ids \ {id}
        BY <1>0, <4>1 DEF Calls
      <4> QED
        BY <3>2, <4>2 DEF Returns, RemoveFile, At
    <3>3. CASE CallFails(r)
      BY <1>0, <1>2, <3>3 DEF CallFails, Goto, Calls, Returns
    <3> QED
      BY <1>2, <2>1, <3>1, <3>2, <3>3
         DEF Begin, Continue, QueueFiles, QueueFind, QueueSave, QueueUpdate, QueueRemoveFile,
             QueueRemovePart, ClearStart, ClearDelete, ClearFiles, ClearDone, ServeFind,
             ServeAccess, ServeMissing, Started, At, Returns
  <2>2. CASE req'[r] = req[r]
    BY <1>2, <2>2 DEF Returns
  <2>3. CASE Crash
    BY <1>2, <2>3 DEF Crash, Returns, NoCall
  <2> QED
    BY <1>0, <2>1, <2>2, <2>3, OwnRequestOnly, LoopLeavesRequests
       DEF Next, BootFind, Resume, Destroy, vars
<1> SUFFICES ASSUME NEW r \in Reqs, Returns(r)', NEW id \in req'[r].ids
             PROVE  /\ Made(id)' /\ BookOf[FileOf(id)] = Target[r]
                    /\ req'[r].pc # "delete" => ~Exists(id)'
  BY DEF RemoveCalls, FileOf
<1>3. CASE ~RemoveFind(r)
  <2>1. /\ Returns(r) /\ id \in req[r].ids
        /\ req'[r].pc # "delete" => req[r].pc # "delete" \/ RemoveDelete(r)
    BY <1>2, <1>3
  <2>2. id \in Ids /\ Made(id) /\ BookOf[FileOf(id)] = Target[r]
    BY <1>0, <2>1 DEF RemoveCalls, Calls
  <2>3. Made(id)'
    BY <2>2, MadeStays
  <2>4. CASE RemoveDelete(r)
    <3>1. DeleteRows(RowsOf(Target[r]))
      BY <2>4 DEF RemoveDelete
    <3>2. ~Exists(id)'
      BY <2>2, <3>1 DEF DeleteRows, RowsOf, Exists, NoRow
    <3> QED
      BY <2>2, <2>3, <3>2
  <2>5. CASE req[r].pc # "delete"
    <3>1. ~Exists(id)
      BY <2>1, <2>5 DEF RemoveCalls
    <3> QED
      BY <2>2, <2>3, <3>1, GoneForGood
  <2> QED
    BY <2>1, <2>2, <2>3, <2>4, <2>5
<1> QED
  BY <1>1, <1>3

LEMMA HistoryStep ==
  ASSUME IInv, History, [Next]_vars
  PROVE  History'
<1>1. SavesItsOwn' /\ Owns' /\ RowsMade'
  BY OwnStep, OwnsStep, RowsMadeStep DEF History
<1> QED
  BY <1>1, HandMadeStep, QueueCallsStep, RemoveCallsStep DEF History

LEMMA HistoryInit == Init => History
<1> SUFFICES ASSUME Init PROVE History
  OBVIOUS
<1>1. \A r \in Reqs : req[r].pc = "new" /\ req[r].files = {}
  BY DEF Init, NoCall
<1>2. \A id \in Ids : ~Exists(id)
  BY DEF Init, Exists, NoRow
<1>3. InHand = {} /\ pending = {}
  BY DEF Init, InHand, Busy, NoTask
<1> QED
  BY <1>1, <1>2, <1>3
     DEF History, SavesItsOwn, Owns, RowsMade, HandMade, QueueCalls, Resets, RemoveCalls, Returns

(* What is true of rows, requests and hands since they first appeared.      *)
LEMMA HistoryAlways == Spec => []History
<1>1. IInv /\ History /\ [Next]_vars => History'
  BY HistoryStep
<1> QED
  BY <1>1, HistoryInit, Invariance, PTL DEF Spec

-----------------------------------------------------------------------------
(* The download under way                                                   *)

(* Past its findOne.                                                        *)
Downloads(w) == loop[w].pc \notin {"idle", "find"}

LEMMA TakeNextLoop ==
  ASSUME loop \in [Loops -> Tasks], NEW w \in Loops, NEW q, NEW qs, NEW act, TakeNext(w, q, qs, act)
  PROVE  /\ loop'[w].pc \in {"idle", "find"}
         /\ \A v \in Loops : v # w => loop'[v] = loop[v]
<1>1. CASE loop' = [loop EXCEPT ![w] = NoTask]
  BY <1>1 DEF NoTask
<1>2. ASSUME NEW id, loop' = [loop EXCEPT ![w] = [NoTask EXCEPT !.pc = "find", !.id = id]]
      PROVE  /\ loop'[w].pc \in {"idle", "find"}
             /\ \A v \in Loops : v # w => loop'[v] = loop[v]
  BY <1>2 DEF NoTask
<1> QED
  BY <1>1, <1>2 DEF TakeNext

(* A download goes on from where it was, or a step of the loop brought it   *)
(* there; aborting it changes nothing else.                                 *)
LEMMA SameDownload ==
  ASSUME IInv, [Next]_vars, NEW v \in Loops, Downloads(v)'
  PROVE  \/ LoopStep(v)
         \/ loop'[v] \in {loop[v], [loop[v] EXCEPT !.aborted = TRUE]}
<1> USE DEF IInv, WorkOK
<1>1. ASSUME NEW ids, loop' = Aborted(ids)
      PROVE  loop'[v] \in {loop[v], [loop[v] EXCEPT !.aborted = TRUE]}
  BY <1>1 DEF Aborted
<1>2. ASSUME NEW id, Enqueue(id) PROVE loop'[v] = loop[v]
  BY <1>2, TakeNextLoop DEF Enqueue, ProcessQueue, work, Downloads
<1>3. CASE \E r \in Reqs : Begin(r) \/ Continue(r)
  BY <1>1, <1>2, <1>3
     DEF Begin, Continue, QueueFiles, QueueFind, QueueSave, QueueUpdate, QueueRemoveFile,
         QueueRemovePart, RemoveFind, RemoveDelete, RemoveFile, RemovePart, ClearStart,
         ClearDelete, ClearFiles, ClearDone, ServeFind, ServeAccess, ServeMissing, CallFails, work
<1>4. ASSUME NEW w \in Loops, LoopStep(w), w # v PROVE loop'[v] = loop[v]
  <2>1. CASE LoopFind(w) \/ Reject(w) \/ Ready(w) \/ Discard(w) \/ Fail(w)
    BY <1>4, <2>1, TakeNextLoop DEF LoopFind, Reject, Ready, Discard, Fail, Finish, To
  <2> QED
    BY <1>4, <2>1
       DEF LoopStep, Capacity, Evict, EvictRow, EvictEnd, DiskSpace, Mark, Fetch, Resize,
           OpenPart, Stream, Progress, Rename, To, work
<1>5. CASE BootFind \/ Resume \/ Destroy \/ Crash \/ UNCHANGED vars
  BY <1>1, <1>2, <1>5 DEF BootFind, Resume, Destroy, Crash, vars, work, Downloads, NoTask
<1> QED
  BY <1>3, <1>4, <1>5 DEF Next

(* A step of the loop that leaves it in a download is about the same row.   *)
LEMMA SameTask ==
  ASSUME IInv, [Next]_vars, NEW v \in Loops, Downloads(v)'
  PROVE  Busy(v) /\ loop'[v].id = loop[v].id
<1> USE DEF IInv, WorkOK
<1>0. loop[v] \in Tasks
  OBVIOUS
<1>1. CASE LoopStep(v)
  <2>0. Busy(v)
    BY <1>1 DEF LoopStep, LoopFind, Capacity, Evict, EvictRow, EvictEnd, DiskSpace,
         Reject, Mark, Fetch, Resize, OpenPart, Stream, Progress, Rename, Ready, Discard, Fail,
         Step, Busy
  <2>1. ASSUME NEW pc, To(v, pc) PROVE loop'[v].id = loop[v].id
    BY <1>0, <2>1 DEF To, Tasks
  <2>2. CASE LoopFind(v)
    <3>1. CASE TakeNext(v, queue, queuedIds, active)
      BY <3>1, TakeNextLoop DEF Downloads
    <3>2. ASSUME NEW b, NEW pc, loop' = [loop EXCEPT ![v] = [@ EXCEPT !.bytes = b, !.pc = pc]]
          PROVE  loop'[v].id = loop[v].id
      BY <1>0, <3>2 DEF Tasks
    <3> QED
      BY <2>0, <2>2, <3>1, <3>2 DEF LoopFind
  <2>3. CASE Capacity(v)
    BY <1>0, <2>0, <2>3 DEF Capacity, Tasks
  <2>4. CASE Evict(v)
    BY <1>0, <2>0, <2>4 DEF Evict, Tasks
  <2>5. CASE EvictRow(v)
    BY <1>0, <2>0, <2>5 DEF EvictRow, Tasks
  <2>6. CASE Fetch(v)
    <3>1. ASSUME NEW b, NEW pc, loop' = [loop EXCEPT ![v] = [@ EXCEPT !.bytes = b, !.pc = pc]]
          PROVE  loop'[v].id = loop[v].id
      BY <1>0, <3>1 DEF Tasks
    <3> QED
      BY <2>0, <2>1, <2>6, <3>1 DEF Fetch
  <2>7. CASE Reject(v) \/ Ready(v) \/ Discard(v) \/ Fail(v)
    <3>1. CASE Finish(v)
      BY <3>1, TakeNextLoop DEF Finish, Downloads
    <3> QED
      BY <2>0, <2>1, <2>7, <3>1 DEF Reject, Ready, Discard, Fail
  <2>8. CASE Progress(v)
    BY <2>0, <2>8 DEF Progress, work
  <2> QED
    BY <1>1, <2>0, <2>1, <2>2, <2>3, <2>4, <2>5, <2>6, <2>7, <2>8
       DEF LoopStep, EvictEnd, DiskSpace, Mark, Resize, OpenPart, Stream, Rename
<1>2. CASE loop'[v] \in {loop[v], [loop[v] EXCEPT !.aborted = TRUE]}
  BY <1>0, <1>2 DEF Downloads, Busy, Tasks
<1> QED
  BY <1>1, <1>2, SameDownload

-----------------------------------------------------------------------------
(* A ready row has its file                                                 *)

(* Two clears do not overlap: the second clear's rm would remove a file of  *)
(* a download that begins when the first resets the flag.                   *)
Clearing(r) == Op[r] = "clear" /\ req[r].pc \in {"delete", "rm", "mkdir"}
ClearsApart == \A r, s \in Reqs : Clearing(r) /\ Clearing(s) => r = s

(* While its files are being removed, a clear has left nothing to the loop  *)
(* and nothing ready.                                                       *)
Cleared ==
  \A r \in Reqs : Clearing(r) =>
    /\ clearing
    /\ req[r].pc # "mkdir" => queue = <<>>
    /\ req[r].pc = "rm" => /\ \A id \in InHand : ~Exists(id)
                           /\ \A id \in Ids : rows[id].status # "ready"

NoEvict == \A w \in Loops : loop[w].pc \notin {"evict", "evictRow"}

(* What the loop is about to mark ready has been renamed into place.        *)
Placed ==
  \A w \in Loops :
    loop[w].pc = "ready" /\ Exists(loop[w].id) /\ ~QueuedAgain(loop[w].id) => Path(w) \in media

LEMMA FileRemoved ==
  ASSUME IInv, NoEvict, [Next]_vars, NEW f \in media, f \notin media'
  PROVE  /\ UNCHANGED <<rows, loop>>
         /\ \/ \E r \in Reqs : QueueRemoveFile(r) /\ f = FileOf(req[r].id)
            \/ \E r \in Reqs : RemoveFile(r) /\ \E id \in req[r].ids : f = FileOf(id)
            \/ \E r \in Reqs : ClearFiles(r)
<1>1. ASSUME NEW r \in Reqs, Begin(r) \/ Continue(r)
      PROVE  /\ UNCHANGED <<rows, loop>>
             /\ \/ QueueRemoveFile(r) /\ f = FileOf(req[r].id)
                \/ RemoveFile(r) /\ \E id \in req[r].ids : f = FileOf(id)
                \/ ClearFiles(r)
  BY <1>1
     DEF Begin, Continue, QueueFiles, QueueFind, QueueSave, QueueUpdate, QueueRemoveFile,
         QueueRemovePart, RemoveFind, RemoveDelete, RemoveFile, RemovePart, ClearStart,
         ClearDelete, ClearFiles, ClearDone, ServeFind, ServeAccess, ServeMissing, CallFails,
         work, disk
<1>2. ASSUME NEW w \in Loops, LoopStep(w) PROVE FALSE
  <2>1. ~Evict(w)
    BY DEF NoEvict, Evict, Step
  <2> QED
    BY <1>2, <2>1
       DEF LoopStep, LoopFind, Capacity, EvictRow, EvictEnd, DiskSpace, Reject, Mark, Fetch,
           Resize, OpenPart, Stream, Progress, Rename, Ready, Discard, Fail, disk
<1>3. CASE BootFind \/ Resume \/ Destroy \/ Crash \/ UNCHANGED vars
  BY <1>3 DEF BootFind, Resume, Destroy, Crash, vars, disk
<1> QED
  BY <1>1, <1>2, <1>3 DEF Next

(* Only the loop marks a row ready.                                         *)
LEMMA BecomesReady ==
  ASSUME IInv, [Next]_vars, NEW id \in Ids, rows'[id].status = "ready", rows[id].status # "ready"
  PROVE  \E w \in Loops :
           /\ Ready(w) /\ loop[w].pc = "ready" /\ loop[w].id = id /\ Exists(id)
           /\ UNCHANGED media
<1>0. rows \in [Ids -> Rows]
  BY DEF IInv, RestOK
<1>1. ASSUME NEW i, NEW s, NEW b, SetRow(i, s, b), s # "ready" \/ s = rows[i].status
      PROVE  FALSE
  BY <1>0, <1>1 DEF SetRow
<1>2. ASSUME NEW i, NEW s, SetStatus(i, s), s # "ready" PROVE FALSE
  BY <1>1, <1>2 DEF SetStatus
<1>3. ASSUME NEW ids, DeleteRows(ids) PROVE FALSE
  BY <1>3 DEF DeleteRows, NoRow
<1>4. ASSUME NEW r \in Reqs, Begin(r) \/ Continue(r) PROVE FALSE
  <2>1. CASE QueueSave(r)
    BY <1>0, <2>1 DEF QueueSave
  <2> QED
    BY <1>1, <1>2, <1>3, <1>4, <2>1
     DEF Begin, Continue, QueueFiles, QueueFind, QueueUpdate, QueueRemoveFile,
         QueueRemovePart, RemoveFind, RemoveDelete, RemoveFile, RemovePart, ClearStart,
         ClearDelete, ClearFiles, ClearDone, ServeFind, ServeAccess, ServeMissing, CallFails, disk
<1>5. ASSUME NEW w \in Loops, LoopStep(w), ~Ready(w) PROVE FALSE
  BY <1>1, <1>2, <1>3, <1>5
     DEF LoopStep, LoopFind, Capacity, Evict, EvictRow, EvictEnd, DiskSpace, Reject, Mark, Fetch,
         Resize, OpenPart, Stream, Progress, Rename, Discard, Fail, disk
<1>6. ASSUME NEW w \in Loops, Ready(w)
      PROVE  loop[w].pc = "ready" /\ loop[w].id = id /\ Exists(id) /\ UNCHANGED media
  BY <1>0, <1>6 DEF Ready, Step, SetRow, Task
<1>7. ~(BootFind \/ Resume \/ Destroy \/ Crash \/ UNCHANGED vars)
  BY <1>2 DEF BootFind, Resume, Destroy, Crash, vars, disk
<1> QED
  BY <1>4, <1>5, <1>6, <1>7 DEF Next

(* The loop comes to mark a row ready by renaming its file into place.      *)
LEMMA BecomesPlaced ==
  ASSUME IInv, NoEvict, [Next]_vars, NEW w \in Loops, loop'[w].pc = "ready"
  PROVE  /\ Busy(w) /\ loop'[w].id = loop[w].id
         /\ loop[w].pc = "ready" \/ Path(w) \in media'
<1>1. Busy(w) /\ loop'[w].id = loop[w].id
  BY SameTask DEF Downloads
<1>0. loop \in [Loops -> Tasks] /\ loop[w] \in Tasks
  BY DEF IInv, WorkOK
<1>2. CASE LoopStep(w)
  <2>1. ASSUME NEW pc, To(w, pc) PROVE pc = "ready"
    BY <1>0, <2>1 DEF To, Tasks
  <2>2. CASE Rename(w)
    <3>1. ~To(w, "discard")
      BY <2>1
    <3> QED
      BY <1>1, <2>2, <3>1 DEF Rename
  <2>3. ~(LoopFind(w) \/ Capacity(w) \/ Evict(w) \/ EvictRow(w) \/ Fetch(w))
    <3>1. ASSUME NEW q, NEW qs, NEW act, TakeNext(w, q, qs, act) PROVE FALSE
      BY <1>0, <3>1, TakeNextLoop
    <3>a. ASSUME NEW pc, NEW b, loop' = [loop EXCEPT ![w] = [@ EXCEPT !.bytes = b, !.pc = pc]]
          PROVE  pc = "ready"
      <4> DEFINE t == [loop[w] EXCEPT !.bytes = b, !.pc = pc]
      <4>1. loop' = [loop EXCEPT ![w] = t] /\ t.pc = pc
        BY <1>0, <3>a DEF Tasks
      <4> HIDE DEF t
      <4> QED
        BY <1>0, <4>1
    <3>2. ~LoopFind(w)
      <4> SUFFICES ASSUME LoopFind(w) PROVE FALSE
        OBVIOUS
      <4>1. PICK b, pc : /\ loop' = [loop EXCEPT ![w] = [@ EXCEPT !.bytes = b, !.pc = pc]]
                         /\ pc \in {"disk", "reject", "capacity"}
        <5> DEFINE pc == CASE MaxCacheBytes = 0 -> "disk"
                           [] MaxCacheBytes # 0 /\ clearing -> "reject"
                           [] OTHER -> "capacity"
        <5>1. pc \in {"disk", "reject", "capacity"}
          BY ConstantsAssumption
        <5>2. loop' = [loop EXCEPT ![w] = [@ EXCEPT !.bytes = rows[loop[w].id].bytes, !.pc = pc]]
          BY <3>1 DEF LoopFind, Task
        <5> HIDE DEF pc
        <5> QED
          BY <5>1, <5>2
      <4> QED
        BY <3>a, <4>1
    <3>3. ~Capacity(w)
      <4> DEFINE pc == CASE Fits(ReadyRows, Task(w).bytes) -> "disk"
                         [] ~Fits(ReadyRows, Task(w).bytes) /\ EvictOldest -> "evict"
                         [] OTHER -> "reject"
                 t  == [loop[w] EXCEPT !.keep = ReadyRows, !.pc = pc]
      <4>1. t.pc # "ready"
        BY <1>0 DEF Tasks
      <4>2. Capacity(w) => loop' = [loop EXCEPT ![w] = t]
        BY DEF Capacity
      <4> HIDE DEF t
      <4> QED
        BY <1>0, <4>1, <4>2
    <3>4. ~(Evict(w) \/ EvictRow(w))
      BY DEF NoEvict, Evict, EvictRow, Step
    <3>5. ~Fetch(w)
      <4>1. ~To(w, "discard")
        BY <2>1
      <4>2. ASSUME NEW n, loop' = [loop EXCEPT ![w] =
                 [@ EXCEPT !.bytes = n, !.pc = IF n # Task(w).bytes THEN "resize" ELSE "open"]]
            PROVE  FALSE
        <5>1. (IF n # Task(w).bytes THEN "resize" ELSE "open") = "ready"
          BY <3>a, <4>2
        <5> QED
          BY <5>1
      <4> QED
        BY <4>1, <4>2 DEF Fetch
    <3> QED
      BY <3>2, <3>3, <3>4, <3>5
  <2>4. ~(EvictEnd(w) \/ DiskSpace(w) \/ Mark(w) \/ Resize(w) \/ OpenPart(w) \/ Stream(w))
    BY <2>1 DEF EvictEnd, DiskSpace, Mark, Resize, OpenPart, Stream
  <2>5. CASE Reject(w) \/ Discard(w) \/ Fail(w) \/ Progress(w) \/ Ready(w)
    BY <1>0, <2>1, <2>5, TakeNextLoop DEF Reject, Discard, Fail, Finish, Progress, Ready, Step, work
  <2> QED
    BY <1>1, <1>2, <2>2, <2>3, <2>4, <2>5 DEF LoopStep
<1>3. CASE loop'[w] \in {loop[w], [loop[w] EXCEPT !.aborted = TRUE]}
  BY <1>0, <1>1, <1>3 DEF Tasks
<1> QED
  BY <1>1, <1>2, <1>3, SameDownload DEF Downloads

LEMMA NothingWithout ==
  ASSUME NEW gone
  PROVE  Without(<<>>, gone) = <<>>
<1>1. <<>> \in Seq({}) /\ Agrees(<<>>, {})
  BY EmptyAgrees
<1>0. {} \ gone = {}
  OBVIOUS
<1>2. Without(<<>>, gone) \in Seq({}) /\ Agrees(Without(<<>>, gone), {} \ gone)
  BY <1>1, WithoutAgrees
<1> PICK p : p = Without(<<>>, gone)
  OBVIOUS
<1>3. p \in Seq({}) /\ Members(p) = {}
  BY <1>0, <1>2 DEF Agrees
<1>4. p = <<>>
  BY <1>3, EmptySeq, LenProperties, ElementOfSeq DEF Members
<1> QED
  BY <1>4

(* With nothing queued and enqueue refused, nothing comes into hand.        *)
LEMMA QuietWhileClearing ==
  ASSUME IInv, [Next]_vars, clearing, queue = <<>>
  PROVE  queue' = <<>> /\ InHand' \subseteq InHand
<1> USE DEF IInv, WorkOK
<1>1. ASSUME NEW id, Enqueue(id) PROVE UNCHANGED work
  BY <1>1 DEF Enqueue
<1>2. InHand' \subseteq InHand
  <2>1. CASE UNCHANGED work
    BY <2>1 DEF work, InHand, Busy
  <2> QED
    BY <1>1, <2>1, HandGrows DEF QueueSave, QueueRemovePart, Resume
<1>3. ASSUME NEW w, NEW act, TakeNext(w, queue, queuedIds, act)
      PROVE  queue' = <<>>
  <2>1. DOMAIN queue = {}
    OBVIOUS
  <2> QED
    BY <1>3, <2>1 DEF TakeNext
<1>4. ASSUME NEW r \in Reqs, Begin(r) \/ Continue(r) PROVE queue' = <<>>
  BY <1>1, <1>4, NothingWithout
     DEF Begin, Continue, QueueFiles, QueueFind, QueueSave, QueueUpdate, QueueRemoveFile,
         QueueRemovePart, RemoveFind, RemoveDelete, RemoveFile, RemovePart, ClearStart,
         ClearDelete, ClearFiles, ClearDone, ServeFind, ServeAccess, ServeMissing, CallFails, work
<1>5. ASSUME NEW w \in Loops, LoopStep(w) PROVE queue' = <<>>
  BY <1>3, <1>5
     DEF LoopStep, LoopFind, Capacity, Evict, EvictRow, EvictEnd, DiskSpace, Reject, Mark,
         Fetch, Resize, OpenPart, Stream, Progress, Rename, Ready, Discard, Fail, Finish, work
<1>6. ASSUME BootFind \/ Resume \/ Destroy \/ Crash \/ UNCHANGED vars PROVE queue' = <<>>
  <2>1. CASE Resume
    BY <1>1, <2>1 DEF Resume, work
  <2>2. CASE Crash
    BY <2>2 DEF Crash
  <2> QED
    BY <1>6, <2>1, <2>2 DEF BootFind, Destroy, vars, work
<1> QED
  BY <1>2, <1>4, <1>5, <1>6 DEF Next

(* The steps a clear goes through.                                          *)
ClearPcs ==
  \A r \in Reqs : Op[r] = "clear" => req[r].pc \in {"new", "delete", "rm", "mkdir", "done"}

LEMMA ClearMoves ==
  ASSUME IInv, ClearPcs, [Next]_vars, NEW r \in Reqs, Op[r] = "clear"
  PROVE  \/ req'[r].pc = req[r].pc
         \/ ClearStart(r) /\ req'[r].pc = "delete"
         \/ ClearDelete(r) /\ req'[r].pc = "rm"
         \/ ClearFiles(r) /\ req'[r].pc = "mkdir"
         \/ req'[r].pc = "done"
<1>0. req \in [Reqs -> Calls]
  BY DEF IInv, RestOK
<1>1. CASE Begin(r) \/ Continue(r)
  <2>1. CASE ClearStart(r) \/ ClearDelete(r) \/ ClearFiles(r) \/ ClearDone(r) \/ CallFails(r)
    BY <1>0, <2>1 DEF ClearStart, ClearDelete, ClearFiles, ClearDone, CallFails, Goto, Calls
  <2> QED
    BY <1>1, <2>1
       DEF Begin, Continue, QueueFiles, QueueFind, QueueSave, QueueUpdate, QueueRemoveFile,
           QueueRemovePart, RemoveFind, RemoveDelete, RemoveFile, RemovePart, ServeFind,
           ServeAccess, ServeMissing, Started, At
<1>2. CASE req'[r] = req[r]
  BY <1>2
<1>3. CASE Crash
  BY <1>3 DEF Crash, NoCall
<1> QED
  BY <1>0, <1>1, <1>2, <1>3, OwnRequestOnly, LoopLeavesRequests
     DEF Next, BootFind, Resume, Destroy, vars

LEMMA ClearedStep ==
  ASSUME IInv, History, ClearsApart, ClearPcs, Cleared, [Next]_vars
  PROVE  ClearPcs' /\ Cleared'
<1>0. req \in [Reqs -> Calls]
  BY DEF IInv, RestOK
<1>1. ClearPcs'
  BY ClearMoves DEF ClearPcs
<1> SUFFICES ASSUME NEW r \in Reqs, Clearing(r)'
             PROVE  /\ clearing'
                    /\ req'[r].pc # "mkdir" => queue' = <<>>
                    /\ req'[r].pc = "rm" => /\ \A id \in InHand' : ~Exists(id)'
                                            /\ \A id \in Ids : rows'[id].status # "ready"
  BY <1>1 DEF Cleared
<1>2. CASE ClearStart(r) /\ req'[r].pc = "delete"
  BY <1>2 DEF ClearStart
<1>3. ASSUME Clearing(r) PROVE clearing'
  <2>1. clearing
    BY <1>3 DEF Cleared
  <2>2. ASSUME NEW s \in Reqs, ClearDone(s) \/ (CallFails(s) /\ Op[s] = "clear") PROVE FALSE
    <3>1. Goto(s, "done")
      BY <2>2 DEF ClearDone, CallFails
    <3>2. Clearing(s)
      BY <2>2 DEF ClearDone, CallFails, At, Clearing, ClearPcs
    <3>3. req'[s].pc = "done"
      BY <1>0, <3>1, GotoKeepsFiles
    <3> QED
      BY <1>3, <3>2, <3>3 DEF ClearsApart, Clearing
  <2>3. ~Crash
    BY DEF Crash, Clearing, NoCall
  <2>4. ASSUME NEW s \in Reqs, Begin(s) \/ Continue(s) PROVE clearing'
    BY <2>1, <2>2, <2>4
       DEF Begin, Continue, QueueFiles, QueueFind, QueueSave, QueueUpdate, QueueRemoveFile,
           QueueRemovePart, RemoveFind, RemoveDelete, RemoveFile, RemovePart, ClearStart,
           ClearDelete, ClearFiles, ServeFind, ServeAccess, ServeMissing, CallFails
  <2> QED
    BY <2>1, <2>3, <2>4, LoopLeavesRequests DEF Next, BootFind, Resume, Destroy, vars
<1>4. CASE Clearing(r) /\ ~(req[r].pc # "mkdir")
  BY <1>3, <1>4, ClearMoves DEF ClearDelete, ClearFiles, ClearStart, Started, At, Clearing
<1>5. CASE Clearing(r) /\ req[r].pc # "mkdir"
  <2>1. queue = <<>> /\ clearing
    BY <1>5 DEF Cleared
  <2>2. queue' = <<>> /\ InHand' \subseteq InHand
    BY <2>1, QuietWhileClearing
  <2>3. CASE ClearDelete(r)
    <3>1. /\ \A id \in Ids : ~Exists(id)' /\ rows'[id].status # "ready"
      BY <2>3 DEF ClearDelete, DeleteRows, Exists, NoRow
    <3>2. InHand' \subseteq Ids
      BY <2>2, HandIds
    <3> QED
      BY <1>3, <1>5, <2>2, <3>1, <3>2
  <2>4. CASE req'[r].pc = "rm" /\ ~ClearDelete(r)
    <3>1. req[r].pc = "rm"
      BY <1>5, <2>4, ClearMoves DEF Clearing
    <3>2. (\A id \in InHand : ~Exists(id)) /\ \A id \in Ids : rows[id].status # "ready"
      BY <1>5, <3>1 DEF Cleared
    <3>3. ASSUME NEW id \in InHand' PROVE ~Exists(id)'
      BY <2>2, <3>2, HandIds, GoneForGood DEF History, HandMade
    <3>4. ASSUME NEW id \in Ids PROVE rows'[id].status # "ready"
      <4>1. SUFFICES ASSUME rows'[id].status = "ready" PROVE FALSE
        OBVIOUS
      <4>2. PICK w \in Loops : loop[w].pc = "ready" /\ loop[w].id = id /\ Exists(id)
        BY <3>2, <4>1, BecomesReady
      <4> QED
        BY <3>2, <4>2 DEF InHand, Busy
    <3> QED
      BY <1>3, <1>5, <2>2, <3>3, <3>4
  <2> QED
    BY <1>3, <1>5, <2>2, <2>3, <2>4
<1> QED
  BY <1>2, <1>4, <1>5, ClearMoves
     DEF Clearing, ClearPcs, ClearDelete, ClearFiles, At

ReadyInv == NoEvict /\ ClearPcs /\ Cleared /\ Placed /\ ReadyHasFile

(* A second checkout has come or it has not: it never goes away.            *)
LEMMA QueuedAgainStays ==
  ASSUME IInv, [Next]_vars, NEW id \in Ids, QueuedAgain(id)
  PROVE  QueuedAgain(id)'
<1>0. req \in [Reqs -> Calls]
  BY DEF IInv, RestOK
<1> PICK r \in Reqs \ {id[1]} :
           Op[r] = "queue" /\ Target[r] = BookOf[id[2]] /\ req[r].pc # "new"
  BY DEF QueuedAgain
<1>1. CASE Begin(r) \/ Continue(r)
  BY <1>0, <1>1, FilesShrink DEF QueuedAgain
<1>2. CASE req'[r] = req[r]
  BY <1>2 DEF QueuedAgain
<1>3. CASE Crash
  <2>1. req'[r].pc = "done"
    BY <1>3 DEF Crash, NoCall
  <2> QED
    BY <2>1 DEF QueuedAgain
<1> QED
  BY <1>0, <1>1, <1>2, <1>3, OwnRequestOnly, LoopLeavesRequests
     DEF Next, BootFind, Resume, Destroy, vars

(* Who removes the file of a row: a second checkout, or a return or a clear *)
(* that has deleted the row, or a clear that found it neither ready nor in  *)
(* hand.                                                                    *)
LEMMA RemovedFile ==
  ASSUME IInv, History, ReadyInv, [Next]_vars, NEW id \in Ids, Made(id), ~QueuedAgain(id),
         FileOf(id) \in media, FileOf(id) \notin media'
  PROVE  /\ UNCHANGED <<rows, loop>>
         /\ rows[id].status # "ready"
         /\ id \in InHand => ~Exists(id)
<1> USE DEF History
<1>1. UNCHANGED <<rows, loop>>
  BY FileRemoved DEF ReadyInv
<1>2. ~Exists(id) => rows[id].status # "ready"
  BY DEF Exists
<1>3. ASSUME NEW r \in Reqs, QueueRemoveFile(r), FileOf(id) = FileOf(req[r].id) PROVE ~Exists(id)
  <2>1. Resets(r) /\ Op[r] = "queue" /\ req[r].pc # "new"
    BY <1>3 DEF QueueRemoveFile, At, Resets
  <2>2. Target[r] = BookOf[id[2]] /\ ~Exists(<<r, id[2]>>)
    BY <1>3, <2>1 DEF QueueCalls, FileOf
  <2>3. id[1] = r
    BY <2>1, <2>2 DEF QueuedAgain
  <2>4. id = <<r, id[2]>>
    BY <2>3 DEF Ids
  <2> QED
    BY <2>2, <2>4
<1>4. ASSUME NEW r \in Reqs, RemoveFile(r), NEW j \in req[r].ids, FileOf(id) = FileOf(j)
      PROVE  ~Exists(id)
  <2>1. Returns(r) /\ req[r].pc # "delete" /\ j \in Ids
    BY <1>4 DEF RemoveFile, At, Returns, IInv, RestOK, Calls
  <2>2. Made(j) /\ ~Exists(j)
    BY <1>4, <2>1 DEF RemoveCalls
  <2>3. j[1] \in Reqs /\ Op[j[1]] = "queue" /\ Target[j[1]] = BookOf[id[2]] /\ req[j[1]].pc # "new"
    BY <1>4, <2>1, <2>2 DEF Ids, Made, FileOf
  <2>4. id[1] = j[1]
    BY <2>3 DEF QueuedAgain
  <2>5. id = j
    BY <1>4, <2>1, <2>4 DEF Ids, FileOf
  <2> QED
    BY <2>2, <2>5
<1>5. ASSUME NEW r \in Reqs, ClearFiles(r)
      PROVE  rows[id].status # "ready" /\ (id \in InHand => ~Exists(id))
  BY <1>5 DEF ClearFiles, At, ReadyInv, Cleared, Clearing
<1> QED
  BY <1>1, <1>2, <1>3, <1>4, <1>5, FileRemoved DEF ReadyInv

LEMMA PlacedStep ==
  ASSUME IInv, History, ReadyInv, [Next]_vars
  PROVE  Placed' /\ ReadyHasFile'
<1> USE DEF ReadyInv
<1>0. /\ loop \in [Loops -> Tasks]
      /\ \A w \in Loops : Busy(w) => loop[w].id \in Ids
  BY DEF IInv, WorkOK
<1>1. ASSUME NEW w \in Loops, loop'[w].pc = "ready", Exists(loop[w].id)', ~QueuedAgain(loop[w].id)'
      PROVE  Path(w)' \in media'
  <2>1. /\ Busy(w) /\ loop'[w].id = loop[w].id
        /\ loop[w].pc = "ready" \/ Path(w) \in media'
    BY <1>1, BecomesPlaced
  <2> PICK id \in Ids : id = loop[w].id
    BY <1>0, <2>1
  <2>2. Path(w)' = FileOf(id) /\ Path(w) = FileOf(id)
    BY <2>1 DEF Path, FileOf
  <2>3. CASE loop[w].pc = "ready"
    <3>1. id \in InHand
      BY <2>1 DEF InHand
    <3>2. Made(id)
      BY <3>1 DEF History, HandMade
    <3>3. Exists(id)
      <4>1. Exists(id)'
        BY <1>1, <2>1 DEF Exists
      <4> QED
        BY <3>2, <4>1, GoneForGood DEF History
    <3>4. ~QueuedAgain(id)
      <4>1. ~QueuedAgain(id)'
        BY <1>1, <2>1 DEF QueuedAgain
      <4> QED
        BY <4>1, QueuedAgainStays
    <3>5. FileOf(id) \in media
      BY <2>2, <2>3, <3>3, <3>4 DEF Placed
    <3> QED
      BY <2>2, <3>1, <3>2, <3>3, <3>4, <3>5, RemovedFile
  <2> QED
    BY <2>1, <2>2, <2>3
<1>2. ASSUME NEW id \in Ids, rows'[id].status = "ready", ~QueuedAgain(id)'
      PROVE  FileOf(id) \in media'
  <2>1. ~QueuedAgain(id)
    BY <1>2, QueuedAgainStays
  <2>2. CASE rows[id].status = "ready"
    <3>1. FileOf(id) \in media
      BY <2>1, <2>2 DEF ReadyHasFile
    <3>2. Made(id)
      BY <2>2 DEF History, RowsMade, Exists
    <3> QED
      BY <2>1, <2>2, <3>1, <3>2, RemovedFile
  <2>3. CASE rows[id].status # "ready"
    BY <1>2, <2>1, <2>3, BecomesReady DEF Placed, Path
  <2> QED
    BY <2>2, <2>3
<1>3. Placed'
  BY <1>1 DEF Placed
<1>4. ReadyHasFile'
  BY <1>2 DEF ReadyHasFile, FileOf
<1> QED
  BY <1>3, <1>4

LEMMA NoEvictStep ==
  ASSUME IInv, ~EvictOldest, NoEvict, [Next]_vars
  PROVE  NoEvict'
<1> SUFFICES ASSUME NEW w \in Loops, loop'[w].pc \in {"evict", "evictRow"} PROVE FALSE
  BY DEF NoEvict
<1> USE DEF IInv, WorkOK
<1>0. loop[w] \in Tasks
  OBVIOUS
<1>1. CASE LoopStep(w)
  <2>1. ASSUME NEW pc, To(w, pc) PROVE pc \in {"evict", "evictRow"}
    BY <1>0, <2>1 DEF To, Tasks
  <2>a. ASSUME NEW pc, NEW b, loop' = [loop EXCEPT ![w] = [@ EXCEPT !.bytes = b, !.pc = pc]]
        PROVE  pc \in {"evict", "evictRow"}
    BY <1>0, <2>a DEF Tasks
  <2>2. ~TakeNext(w, queue, queuedIds, active) /\ ~Finish(w)
    BY TakeNextLoop DEF Finish
  <2>3. ~LoopFind(w)
    <3> SUFFICES ASSUME LoopFind(w) PROVE FALSE
      OBVIOUS
    <3> DEFINE pc == CASE MaxCacheBytes = 0 -> "disk"
                       [] MaxCacheBytes # 0 /\ clearing -> "reject"
                       [] OTHER -> "capacity"
    <3>1. pc \in {"disk", "reject", "capacity"}
      OBVIOUS
    <3>2. loop' = [loop EXCEPT ![w] = [@ EXCEPT !.bytes = rows[loop[w].id].bytes, !.pc = pc]]
      BY <2>2 DEF LoopFind, Task
    <3> HIDE DEF pc
    <3> QED
      BY <2>a, <3>1, <3>2
  <2>4. ~Capacity(w)
    <3> DEFINE pc == CASE Fits(ReadyRows, Task(w).bytes) -> "disk"
                       [] ~Fits(ReadyRows, Task(w).bytes) /\ EvictOldest -> "evict"
                       [] OTHER -> "reject"
               t  == [loop[w] EXCEPT !.keep = ReadyRows, !.pc = pc]
    <3>1. t.pc \in {"disk", "reject"}
      BY <1>0 DEF Tasks
    <3>2. Capacity(w) => loop' = [loop EXCEPT ![w] = t]
      BY DEF Capacity
    <3> HIDE DEF t
    <3> QED
      BY <3>1, <3>2
  <2>5. ~(Evict(w) \/ EvictRow(w) \/ EvictEnd(w))
    BY DEF NoEvict, Evict, EvictRow, EvictEnd, Step
  <2>6. ~Fetch(w)
    <3>1. ASSUME NEW n, loop' = [loop EXCEPT ![w] =
               [@ EXCEPT !.bytes = n, !.pc = IF n # Task(w).bytes THEN "resize" ELSE "open"]]
          PROVE  FALSE
      <4>1. (IF n # Task(w).bytes THEN "resize" ELSE "open") \in {"evict", "evictRow"}
        BY <2>a, <3>1
      <4> QED
        BY <4>1
    <3>2. ~To(w, "discard")
      BY <2>1
    <3> QED
      BY <3>1, <3>2 DEF Fetch
  <2>7. ~(DiskSpace(w) \/ Mark(w) \/ Resize(w) \/ OpenPart(w) \/ Stream(w) \/ Rename(w))
    BY <2>1 DEF DiskSpace, Mark, Resize, OpenPart, Stream, Rename
  <2>8. ~(Reject(w) \/ Ready(w) \/ Discard(w) \/ Fail(w))
    BY <2>1, <2>2 DEF Reject, Ready, Discard, Fail
  <2>9. ~Progress(w)
    BY DEF Progress, work, Step
  <2> QED
    BY <1>1, <2>3, <2>4, <2>5, <2>6, <2>7, <2>8, <2>9 DEF LoopStep
<1>2. CASE loop'[w] \in {loop[w], [loop[w] EXCEPT !.aborted = TRUE]}
  BY <1>0, <1>2 DEF Tasks, NoEvict
<1> QED
  BY <1>1, <1>2, SameDownload DEF Downloads

(* A ready row that was not queued again has its file, if nothing is evicted*)
(* and no two clears overlap.                                               *)
THEOREM ReadyHasFileAlways ==
  ASSUME ~EvictOldest
  PROVE  Spec /\ []ClearsApart => []ReadyHasFile
<1>1. Init => ReadyInv
  <2> SUFFICES ASSUME Init PROVE ReadyInv
    OBVIOUS
  <2>1. \A r \in Reqs : req[r].pc = "new"
    BY DEF Init, NoCall
  <2>2. \A w \in Loops : loop[w].pc = "idle"
    BY DEF Init, NoTask
  <2>3. \A id \in Ids : rows[id].status # "ready"
    BY DEF Init, NoRow
  <2> QED
    BY <2>1, <2>2, <2>3 DEF ReadyInv, NoEvict, ClearPcs, Cleared, Clearing, Placed, ReadyHasFile
<1>2. IInv /\ History /\ ClearsApart /\ ReadyInv /\ [Next]_vars => ReadyInv'
  BY ClearedStep, PlacedStep, NoEvictStep DEF ReadyInv
<1>3. ReadyInv => ReadyHasFile
  BY DEF ReadyInv
<1> QED
  BY <1>1, <1>2, <1>3, HistoryAlways, Invariance, PTL DEF Spec

-----------------------------------------------------------------------------
(* Bytes                                                                    *)

Sized == Ids \X (0..MaxFileBytes)

LEMMA SizedFinite == IsFiniteSet(Sized)
<1>1. IsFiniteSet({r \in Reqs : Op[r] = "queue"})
  BY ConstantsAssumption, FS_Subset
<1>2. IsFiniteSet(Ids)
  BY <1>1, ConstantsAssumption, FS_Product DEF Ids
<1>3. IsFiniteSet(0..MaxFileBytes)
  BY ConstantsAssumption, FS_Interval
<1> QED
  BY <1>2, <1>3, FS_Product DEF Sized

LEMMA CellsFinite ==
  ASSUME NEW S \in SUBSET Sized
  PROVE  IsFiniteSet(Cells(S)) /\ Bytes(S) \in Nat
<1>1. IsFiniteSet(S) /\ IsFiniteSet(1..MaxFileBytes)
  BY SizedFinite, ConstantsAssumption, FS_Subset, FS_Interval
<1>2. IsFiniteSet(S \X (1..MaxFileBytes)) /\ Cells(S) \subseteq S \X (1..MaxFileBytes)
  BY <1>1, FS_Product DEF Cells
<1>3. IsFiniteSet(Cells(S))
  BY <1>2, FS_Subset
<1> QED
  BY <1>3, FS_CardinalityType DEF Bytes

LEMMA BytesMonotone ==
  ASSUME NEW T \in SUBSET Sized, NEW S \in SUBSET T
  PROVE  Bytes(S) <= Bytes(T)
<1>1. Cells(S) \subseteq Cells(T)
  BY DEF Cells
<1> QED
  BY <1>1, CellsFinite, FS_Subset DEF Bytes

LEMMA BytesAdd ==
  ASSUME NEW S \in SUBSET Sized, NEW id \in Ids, NEW b \in 0..MaxFileBytes
  PROVE  Bytes(S \cup {<<id, b>>}) <= Bytes(S) + b
<1> DEFINE p == <<id, b>>
           one == {p} \X (1..b)
<1>1. IsFiniteSet(one) /\ Cardinality(one) = b
  <2>1. IsFiniteSet({p}) /\ Cardinality({p}) = 1
    BY FS_Singleton
  <2>2. IsFiniteSet(1..b) /\ Cardinality(1..b) = b
    BY FS_Interval, ConstantsAssumption
  <2>3. b \in Nat
    BY ConstantsAssumption
  <2> HIDE DEF p
  <2>4. Cardinality(one) = 1 * b /\ IsFiniteSet(one)
    BY <2>1, <2>2, FS_Product
  <2> QED
    BY <2>3, <2>4
<1>2. Cells(S \cup {p}) = Cells(S) \cup one
  <2>1. p[2] = b
    OBVIOUS
  <2>2. 1..b \subseteq 1..MaxFileBytes
    BY ConstantsAssumption
  <2> HIDE DEF p
  <2>3. \A c : c \in Cells(S \cup {p}) <=> c \in Cells(S) \/ c \in one
    BY <2>1, <2>2, ConstantsAssumption DEF Cells
  <2> QED
    BY <2>3
<1> HIDE DEF one
<1>3. IsFiniteSet(Cells(S)) /\ Cardinality(Cells(S)) \in Nat
  BY CellsFinite DEF Bytes
<1>4. /\ Cardinality(Cells(S) \cup one) = Cardinality(Cells(S)) + b - Cardinality(Cells(S) \cap one)
      /\ IsFiniteSet(Cells(S) \cup one)
  BY <1>1, <1>3, FS_Union
<1>5. Cardinality(Cells(S) \cap one) \in Nat
  BY <1>3, FS_Subset, FS_CardinalityType
<1>6. b \in Nat
  BY ConstantsAssumption
<1>7. Cardinality(Cells(S \cup {p})) = Cardinality(Cells(S)) + b - Cardinality(Cells(S) \cap one)
  BY <1>2, <1>4
<1> QED
  BY <1>3, <1>5, <1>6, <1>7 DEF Bytes

-----------------------------------------------------------------------------
(* The cap                                                                  *)

(* Bookdarr lists the sizes of what it sends: a file of unknown size counts *)
(* as nothing when the room for it is measured.                             *)
SizesKnown == \A f \in Files : ListedBytes[f] = BodyBytes[f]

(* Two checkouts of a book that race make two rows of one path: an evicted  *)
(* row whose deletion failed would get its file back from the other one.    *)
OneRowPerFile == \A i, j \in Ids : Exists(i) /\ Exists(j) /\ FileOf(i) = FileOf(j) => i = j

SizesOK ==
  /\ \A id \in Ids : Exists(id) => rows[id].bytes = BodyBytes[FileOf(id)]
  /\ \A w \in Loops : Downloads(w) => loop[w].bytes = BodyBytes[Path(w)]

(* What the cap is about, and what the capacity check has to count.         *)
Held == {p \in ReadyRows : FileOf(p[1]) \in media}
Kept == IF DbErrors THEN Held ELSE ReadyRows

(* A download is about a path no ready row has.                             *)
Fresh ==
  DbErrors => \A w \in Loops : Downloads(w) =>
                \A j \in Ids : FileOf(j) = Path(w) => rows[j].status # "ready"

Fetches == {"disk", "mark", "fetch", "resize", "open", "stream", "rename", "ready"}
Evicts  == {"evict", "evictRow"}

(* From the capacity check on, keep holds all that must be counted, and     *)
(* once it has passed there is room for the download beside it.             *)
Room ==
  MaxCacheBytes > 0 => \A w \in Loops :
    /\ loop[w].pc \in Fetches \cup Evicts => Kept \subseteq loop[w].keep
    /\ loop[w].pc = "evictRow" /\ DbErrors => FileOf(loop[w].victim) \notin media
    /\ loop[w].pc \in Fetches => Fits(loop[w].keep, loop[w].bytes)

CapInv == SizesOK /\ Fresh /\ Room /\ CapRespected

LEMMA KeptTypes ==
  ASSUME IInv
  PROVE  /\ ReadyRows \subseteq Sized /\ Kept \subseteq ReadyRows
         /\ Held \subseteq Kept
         /\ \A w \in Loops : loop[w].keep \subseteq Sized /\ loop[w].bytes \in 0..MaxFileBytes
BY DEF IInv, WorkOK, Tasks, ReadyRows, Kept, Held, Sized

(* Writes that keep the sizes.                                              *)
LEMMA SizesRows ==
  ASSUME IInv, SizesKnown, SizesOK, [Next]_vars, NEW id \in Ids, Exists(id)'
  PROVE  rows'[id].bytes = BodyBytes[FileOf(id)]
<1>0. /\ rows \in [Ids -> Rows] /\ FileOf(id) \in Files
      /\ \A i \in Ids : Exists(i) => rows[i].bytes = BodyBytes[FileOf(i)]
  BY DEF IInv, RestOK, SizesOK, Ids, FileOf
<1>1. ASSUME NEW i, NEW s, NEW b, SetRow(i, s, b), i \in Ids => b = BodyBytes[FileOf(i)]
      PROVE  rows'[id].bytes = BodyBytes[FileOf(id)]
  BY <1>0, <1>1 DEF SetRow, Exists
<1>2. ASSUME NEW i, NEW s, SetStatus(i, s)
      PROVE  rows'[id].bytes = BodyBytes[FileOf(id)]
  <2>1. CASE i = id
    BY <1>0, <1>2, <2>1 DEF SetStatus, SetRow, Exists
  <2>2. CASE i # id
    BY <1>0, <1>2, <2>2 DEF SetStatus, SetRow, Exists
  <2> QED
    BY <2>1, <2>2
<1>3. ASSUME NEW ids, DeleteRows(ids) PROVE rows'[id].bytes = BodyBytes[FileOf(id)]
  BY <1>0, <1>3 DEF DeleteRows, Exists, NoRow
<1>4. CASE UNCHANGED rows
  BY <1>0, <1>4 DEF Exists
<1>5. ASSUME NEW r \in Reqs, Begin(r) \/ Continue(r)
      PROVE  rows'[id].bytes = BodyBytes[FileOf(id)]
  <2>1. CASE QueueSave(r)
    <3>1. rows' = [rows EXCEPT ![req[r].id] =
                     [status |-> "queued", bytes |-> ListedBytes[FileOf(req[r].id)]]]
      BY <2>1 DEF QueueSave
    <3> QED
      BY <1>0, <3>1 DEF SizesKnown, Exists
  <2>2. CASE QueueUpdate(r)
    <3>1. req[r].id \in Ids /\ FileOf(req[r].id) \in Files
      BY <2>2 DEF QueueUpdate, At, IInv, RestOK, Ids, FileOf
    <3> QED
      BY <1>1, <2>2, <3>1 DEF QueueUpdate, SizesKnown
  <2> QED
    BY <1>2, <1>3, <1>4, <1>5, <2>1, <2>2
     DEF Begin, Continue, QueueFiles, QueueFind, QueueRemoveFile,
         QueueRemovePart, RemoveFind, RemoveDelete, RemoveFile, RemovePart, ClearStart,
         ClearDelete, ClearFiles, ClearDone, ServeFind, ServeAccess, ServeMissing, CallFails, disk
<1>6. ASSUME NEW w \in Loops, LoopStep(w)
      PROVE  rows'[id].bytes = BodyBytes[FileOf(id)]
  <2>1. CASE Resize(w) \/ Progress(w)
    <3>1. loop[w].bytes = BodyBytes[FileOf(loop[w].id)]
      BY <2>1 DEF Resize, Progress, Step, Downloads, SizesOK, Path
    <3> QED
      BY <1>1, <1>4, <2>1, <3>1 DEF Resize, Progress, Task
  <2>2. CASE Ready(w)
    <3>1. /\ loop[w].bytes = BodyBytes[FileOf(loop[w].id)]
          /\ Path(w) = FileOf(loop[w].id)
      BY <2>2 DEF Ready, Step, Downloads, SizesOK, Path
    <3>2. FinalBytes(w) = BodyBytes[FileOf(loop[w].id)]
      BY <3>1 DEF FinalBytes, Task
    <3> QED
      BY <1>1, <1>4, <2>2, <3>2 DEF Ready, Task
  <2> QED
    BY <1>2, <1>3, <1>4, <1>6, <2>1, <2>2
     DEF LoopStep, LoopFind, Capacity, Evict, EvictRow, EvictEnd, DiskSpace, Reject, Mark, Fetch,
         OpenPart, Stream, Rename, Discard, Fail, disk
<1>7. CASE BootFind \/ Resume \/ Destroy \/ Crash \/ UNCHANGED vars
  BY <1>2, <1>4, <1>7 DEF BootFind, Resume, Destroy, Crash, vars, disk
<1> QED
  BY <1>5, <1>6, <1>7 DEF Next

GoesOn(w) ==
  /\ loop'[w].bytes = loop[w].bytes /\ loop'[w].keep = loop[w].keep
  /\ loop'[w].pc \in Fetches => \/ loop[w].pc \in Fetches
                                \/ EvictEnd(w) /\ Fits(loop[w].keep, loop[w].bytes)
  /\ loop'[w].pc \notin Evicts /\ Downloads(w)

(* How a download's size and what it keeps change.                          *)
LEMMA TaskMoves ==
  ASSUME IInv, NEW w \in Loops, LoopStep(w), Downloads(w)'
  PROVE  \/ LoopFind(w) /\ loop'[w].bytes = rows[loop[w].id].bytes
            /\ loop'[w].pc \in {"capacity", "reject", "disk"}
            /\ (loop'[w].pc = "disk" => MaxCacheBytes = 0)
            /\ rows[loop[w].id].status \notin {"none", "ready"}
         \/ Capacity(w) /\ loop'[w].bytes = loop[w].bytes /\ loop'[w].keep = ReadyRows
            /\ (loop'[w].pc = "disk" => Fits(ReadyRows, loop[w].bytes))
            /\ loop'[w].pc \in {"disk", "evict", "reject"}
         \/ Evict(w) /\ loop'[w].bytes = loop[w].bytes /\ loop'[w].keep = loop[w].keep
            /\ loop'[w].pc = "evictRow" /\ FileOf(loop'[w].victim) \notin media'
         \/ EvictRow(w) /\ loop'[w].bytes = loop[w].bytes /\ loop'[w].pc = "evict"
            /\ loop'[w].keep = {p \in loop[w].keep : p[1] # loop[w].victim}
         \/ Fetch(w) /\ loop'[w].bytes \in {loop[w].bytes, BodyBytes[Path(w)]}
            /\ loop'[w].keep = loop[w].keep /\ loop'[w].pc \notin Evicts
         \/ GoesOn(w)
<1> USE DEF IInv, WorkOK
<1>0. loop[w] \in Tasks
  OBVIOUS
<1>a. ASSUME NEW pc, To(w, pc)
      PROVE  /\ loop'[w].bytes = loop[w].bytes /\ loop'[w].keep = loop[w].keep
             /\ loop'[w].pc = pc
  BY <1>0, <1>a DEF To, Tasks
<1>b. ~TakeNext(w, queue, queuedIds, active) /\ ~Finish(w)
  BY TakeNextLoop DEF Finish, Downloads
<1>1. CASE LoopFind(w)
  <2> DEFINE pc == CASE MaxCacheBytes = 0 -> "disk"
                     [] MaxCacheBytes # 0 /\ clearing -> "reject"
                     [] OTHER -> "capacity"
             t  == [loop[w] EXCEPT !.bytes = rows[loop[w].id].bytes, !.pc = pc]
  <2>1. pc \in {"disk", "reject", "capacity"} /\ (pc = "disk" => MaxCacheBytes = 0)
    BY ConstantsAssumption
  <2>2. /\ loop' = [loop EXCEPT ![w] = t]
        /\ rows[loop[w].id].status \notin {"none", "ready"}
    BY <1>1, <1>b DEF LoopFind, Task
  <2> HIDE DEF pc
  <2>3. t.bytes = rows[loop[w].id].bytes /\ t.pc = pc
    BY <1>0 DEF Tasks
  <2> HIDE DEF t
  <2> QED
    BY <1>1, <2>1, <2>2, <2>3
<1>2. CASE Capacity(w)
  <2> DEFINE pc == CASE Fits(ReadyRows, Task(w).bytes) -> "disk"
                     [] ~Fits(ReadyRows, Task(w).bytes) /\ EvictOldest -> "evict"
                     [] OTHER -> "reject"
             t  == [loop[w] EXCEPT !.keep = ReadyRows, !.pc = pc]
  <2>1. pc \in {"disk", "evict", "reject"} /\ (pc = "disk" => Fits(ReadyRows, loop[w].bytes))
    BY DEF Task
  <2>2. loop' = [loop EXCEPT ![w] = t]
    BY <1>2 DEF Capacity
  <2> HIDE DEF pc
  <2>3. t.bytes = loop[w].bytes /\ t.keep = ReadyRows /\ t.pc = pc
    BY <1>0 DEF Tasks
  <2> HIDE DEF t
  <2> QED
    BY <1>2, <2>1, <2>2, <2>3
<1>3. CASE Evict(w)
  <2> PICK p \in Task(w).keep :
         /\ media' = media \ {FileOf(p[1])}
         /\ loop' = [loop EXCEPT ![w] = [@ EXCEPT !.pc = "evictRow", !.victim = p[1]]]
    BY <1>3 DEF Evict
  <2>1. /\ loop'[w].bytes = loop[w].bytes /\ loop'[w].keep = loop[w].keep
        /\ loop'[w].victim = p[1] /\ loop'[w].pc = "evictRow"
    BY <1>0 DEF Tasks
  <2> QED
    BY <1>3, <2>1 DEF FileOf
<1>4. CASE EvictRow(w)
  BY <1>0, <1>4 DEF EvictRow, Tasks, Task
<1>5. CASE Fetch(w)
  <2>1. ASSUME NEW n, loop' = [loop EXCEPT ![w] =
             [@ EXCEPT !.bytes = n, !.pc = IF n # Task(w).bytes THEN "resize" ELSE "open"]]
        PROVE  loop'[w].bytes = n /\ loop'[w].keep = loop[w].keep /\ loop'[w].pc \notin Evicts
    BY <1>0, <2>1 DEF Tasks, Evicts
  <2>2. CASE To(w, "discard")
    BY <1>5, <1>a, <2>2 DEF Evicts
  <2> QED
    BY <1>5, <2>1, <2>2 DEF Fetch, Task
<1>6. CASE EvictEnd(w)
  <2>1. GoesOn(w)
    BY <1>6, <1>a DEF EvictEnd, Step, Downloads, Task, Evicts, Fetches, GoesOn
  <2> QED
    BY <2>1
<1>7. CASE DiskSpace(w) \/ Mark(w) \/ Resize(w) \/ OpenPart(w) \/ Stream(w) \/ Rename(w)
  <2>1. loop[w].pc \in Fetches
    BY <1>7 DEF DiskSpace, Mark, Resize, OpenPart, Stream, Rename, Step, Fetches
  <2>2. PICK pc \in {"mark", "reject", "fetch", "open", "discard", "stream", "rename", "ready"} :
           To(w, pc)
    <3>1. CASE OpenPart(w)
      BY <3>1 DEF OpenPart
    <3>2. CASE DiskSpace(w) \/ Stream(w)
      BY <3>2 DEF DiskSpace, Stream
    <3> QED
      BY <1>7, <3>1, <3>2 DEF Mark, Resize, Rename
  <2>3. pc \notin Evicts
    BY DEF Evicts
  <2>4. /\ loop'[w].bytes = loop[w].bytes /\ loop'[w].keep = loop[w].keep
        /\ loop'[w].pc = pc
    BY <1>a, <2>2
  <2>5. GoesOn(w)
    BY <2>1, <2>3, <2>4 DEF GoesOn, Downloads, Fetches
  <2> QED
    BY <2>5
<1>8. CASE Progress(w)
  <2>1. loop[w].pc = "stream" /\ loop' = loop
    BY <1>8 DEF Progress, work, Step
  <2>2. "stream" \in Fetches \ Evicts
    BY DEF Fetches, Evicts
  <2>3. GoesOn(w)
    BY <2>1, <2>2 DEF GoesOn, Downloads
  <2> QED
    BY <2>3
<1>9. CASE Reject(w) \/ Ready(w) \/ Discard(w) \/ Fail(w)
  <2>1. \E pc \in {"discard", "fail"} : To(w, pc)
    BY <1>9, <1>b DEF Reject, Ready, Discard, Fail
  <2>2. GoesOn(w)
    BY <1>9, <1>a, <2>1 DEF Fetches, Evicts, GoesOn, Downloads, Reject, Ready, Discard, Fail, Step
  <2> QED
    BY <2>2
<1> QED
  BY <1>1, <1>2, <1>3, <1>4, <1>5, <1>6, <1>7, <1>8, <1>9 DEF LoopStep

LEMMA MediaGrows ==
  ASSUME [Next]_vars, NEW f \in media', f \notin media
  PROVE  \E w \in Loops : Rename(w) /\ Path(w) = f
<1>1. ASSUME NEW r \in Reqs, Begin(r) \/ Continue(r) PROVE FALSE
  BY <1>1
     DEF Begin, Continue, QueueFiles, QueueFind, QueueSave, QueueUpdate, QueueRemoveFile,
         QueueRemovePart, RemoveFind, RemoveDelete, RemoveFile, RemovePart, ClearStart,
         ClearDelete, ClearFiles, ClearDone, ServeFind, ServeAccess, ServeMissing, CallFails, disk
<1>2. ASSUME NEW w \in Loops, LoopStep(w) PROVE Rename(w) /\ Path(w) = f
  BY <1>2
     DEF LoopStep, LoopFind, Capacity, Evict, EvictRow, EvictEnd, DiskSpace, Reject, Mark, Fetch,
         Resize, OpenPart, Stream, Progress, Rename, Ready, Discard, Fail, disk
<1>3. ~(BootFind \/ Resume \/ Destroy \/ Crash \/ UNCHANGED vars)
  BY DEF BootFind, Resume, Destroy, Crash, vars, disk
<1> QED
  BY <1>1, <1>2, <1>3 DEF Next

(* A row is marked ready only by the step that ends the download.           *)
LEMMA NoneReady ==
  ASSUME IInv, [Next]_vars, NEW v \in Loops, Downloads(v)', NEW id \in Ids, rows'[id].status = "ready"
  PROVE  rows[id].status = "ready"
<1> SUFFICES ASSUME rows[id].status # "ready" PROVE FALSE
  OBVIOUS
<1>1. PICK w \in Loops : Ready(w) /\ loop[w].pc = "ready"
  BY BecomesReady
<1>2. w = v
  BY <1>1, SameTask DEF IInv, WorkOK, OneLoop, Busy
<1>3. ~Finish(v)
  BY TakeNextLoop DEF Finish, Downloads, IInv, WorkOK
<1> QED
  BY <1>1, <1>2, <1>3 DEF Ready

LEMMA KeptShrinks ==
  ASSUME IInv, SizesKnown, SizesOK, Fresh, [Next]_vars,
         \A id \in Ids : rows'[id].status = "ready" => rows[id].status = "ready"
  PROVE  ReadyRows' \subseteq ReadyRows /\ Kept' \subseteq Kept
<1>1. ASSUME NEW p \in ReadyRows' PROVE p \in ReadyRows
  <2>1. /\ p \in Ids \X (0..MaxFileBytes) /\ p[1] \in Ids
        /\ rows'[p[1]].status = "ready" /\ rows'[p[1]].bytes = p[2]
    BY <1>1 DEF ReadyRows
  <2>2. rows[p[1]].status = "ready"
    BY <2>1
  <2>3. Exists(p[1]) /\ Exists(p[1])'
    BY <2>1, <2>2 DEF Exists
  <2>4. rows[p[1]].bytes = rows'[p[1]].bytes
    BY <2>1, <2>3, SizesRows DEF SizesOK
  <2> QED
    BY <2>1, <2>2, <2>4 DEF ReadyRows
<1>2. ASSUME DbErrors, NEW p \in Held' PROVE p \in Held
  <2>1. p \in ReadyRows' /\ FileOf(p[1]) \in media'
    BY <1>2 DEF Held, FileOf
  <2>2. p \in ReadyRows /\ p[1] \in Ids /\ rows[p[1]].status = "ready"
    BY <1>1, <2>1 DEF ReadyRows
  <2>3. SUFFICES ASSUME FileOf(p[1]) \notin media PROVE FALSE
    BY <2>2 DEF Held
  <2>4. PICK w \in Loops : Rename(w) /\ Path(w) = FileOf(p[1])
    BY <2>1, <2>3, MediaGrows
  <2>5. Downloads(w)
    BY <2>4 DEF Rename, Step, Downloads
  <2> QED
    BY <1>2, <2>2, <2>4, <2>5 DEF Fresh
<1> QED
  BY <1>1, <1>2 DEF Kept

LEMMA AtFind ==
  ASSUME NEW w, LoopStep(w), ~Downloads(w)
  PROVE  LoopFind(w)
BY DEF LoopStep, Capacity, Evict, EvictRow, EvictEnd, DiskSpace, Reject, Mark, Fetch,
       Resize, OpenPart, Stream, Progress, Rename, Ready, Discard, Fail, Step, Downloads

LEMMA OnlyStep ==
  ASSUME IInv, NEW v \in Loops, Busy(v), NEW w \in Loops, LoopStep(w)
  PROVE  w = v
<1>1. Busy(w)
  BY DEF LoopStep, LoopFind, Capacity, Evict, EvictRow, EvictEnd, DiskSpace, Reject, Mark, Fetch,
         Resize, OpenPart, Stream, Progress, Rename, Ready, Discard, Fail, Step, Busy
<1> QED
  BY <1>1 DEF IInv, WorkOK, OneLoop

LEMMA Carried ==
  ASSUME IInv, [Next]_vars, NEW v \in Loops, Downloads(v)', ~LoopStep(v)
  PROVE  /\ Downloads(v) /\ loop'[v].pc = loop[v].pc /\ loop'[v].id = loop[v].id
         /\ loop'[v].bytes = loop[v].bytes /\ loop'[v].keep = loop[v].keep
         /\ loop'[v].victim = loop[v].victim
<1>1. loop'[v] \in {loop[v], [loop[v] EXCEPT !.aborted = TRUE]} /\ loop[v] \in Tasks
  BY SameDownload DEF IInv, WorkOK
<1> QED
  BY <1>1 DEF Tasks, Downloads

LEMMA SizesStep ==
  ASSUME IInv, SizesKnown, SizesOK, [Next]_vars
  PROVE  SizesOK'
<1>1. ASSUME NEW id \in Ids, Exists(id)' PROVE rows'[id].bytes = BodyBytes[FileOf(id)]
  BY <1>1, SizesRows
<1>2. ASSUME NEW w \in Loops, Downloads(w)' PROVE loop'[w].bytes = BodyBytes[Path(w)']
  <2>1. Busy(w) /\ loop'[w].id = loop[w].id /\ Path(w)' = Path(w) /\ loop[w].id \in Ids
    BY <1>2, SameTask DEF Path, FileOf, IInv, WorkOK
  <2>2. CASE ~LoopStep(w)
    BY <1>2, <2>1, <2>2, Carried DEF SizesOK
  <2>3. CASE LoopStep(w) /\ Downloads(w)
    <3>1. loop'[w].bytes \in {loop[w].bytes, BodyBytes[Path(w)]}
      <4>1. ~LoopFind(w)
        BY <2>3 DEF LoopFind, Step, Downloads
      <4> QED
        BY <1>2, <2>3, <4>1, TaskMoves DEF GoesOn
    <3> QED
      BY <2>1, <2>3, <3>1 DEF SizesOK
  <2>4. CASE LoopStep(w) /\ ~Downloads(w)
    <3>1. LoopFind(w) /\ loop[w].pc = "find"
      BY <2>4, AtFind DEF LoopFind, Step
    <3>2. loop'[w].bytes = rows[loop[w].id].bytes /\ Exists(loop[w].id)
      BY <1>2, <2>4, <3>1, TaskMoves
         DEF GoesOn, Capacity, Evict, EvictRow, Fetch, Step, Exists
    <3> QED
      BY <2>1, <3>2 DEF SizesOK, Path
  <2> QED
    BY <2>2, <2>3, <2>4
<1> QED
  BY <1>1, <1>2 DEF SizesOK, FileOf

LEMMA FreshStep ==
  ASSUME IInv, Fresh, DbErrors => OneRowPerFile, [Next]_vars
  PROVE  Fresh'
<1> SUFFICES ASSUME DbErrors, NEW w \in Loops, Downloads(w)', NEW j \in Ids, FileOf(j) = Path(w)',
                    rows'[j].status = "ready"
             PROVE  FALSE
  BY DEF Fresh, FileOf
<1>1. Busy(w) /\ loop'[w].id = loop[w].id /\ Path(w)' = Path(w) /\ loop[w].id \in Ids
  BY SameTask DEF Path, FileOf, IInv, WorkOK
<1>2. rows[j].status = "ready"
  BY NoneReady
<1>3. ~Downloads(w)
  BY <1>1, <1>2 DEF Fresh
<1>4. LoopStep(w) /\ LoopFind(w) /\ loop[w].pc = "find"
  BY <1>3, AtFind, Carried DEF LoopFind, Step
<1>5. rows[loop[w].id].status \notin {"none", "ready"}
  BY <1>3, <1>4, TaskMoves DEF GoesOn, Capacity, Evict, EvictRow, Fetch, Step
<1> QED
  BY <1>1, <1>2, <1>5 DEF OneRowPerFile, Exists, Path

LEMMA RoomStep ==
  ASSUME IInv, SizesKnown, CapInv, [Next]_vars
  PROVE  Room'
<1> SUFFICES ASSUME MaxCacheBytes > 0, NEW w \in Loops, loop'[w].pc \in Fetches \cup Evicts
             PROVE  /\ Kept' \subseteq loop'[w].keep
                    /\ loop'[w].pc = "evictRow" /\ DbErrors => FileOf(loop'[w].victim) \notin media'
                    /\ loop'[w].pc \in Fetches => Fits(loop'[w].keep, loop'[w].bytes)
  BY DEF Room, Fits, Bytes, Cells, FileOf, Evicts
<1>0. Downloads(w)' /\ MaxCacheBytes # 0
  BY ConstantsAssumption DEF Downloads, Fetches, Evicts
<1>1. Busy(w) /\ loop'[w].id = loop[w].id
  BY <1>0, SameTask
<1>2. ReadyRows' \subseteq ReadyRows /\ Kept' \subseteq Kept /\ Kept \subseteq ReadyRows
  BY <1>0, NoneReady, KeptShrinks, KeptTypes DEF CapInv
<1>3. /\ loop[w].pc \in Fetches \cup Evicts => Kept \subseteq loop[w].keep
      /\ loop[w].pc = "evictRow" /\ DbErrors => FileOf(loop[w].victim) \notin media
      /\ loop[w].pc \in Fetches => Fits(loop[w].keep, loop[w].bytes)
  BY DEF CapInv, Room
<1>4. CASE ~LoopStep(w)
  <2>1. /\ loop'[w].pc = loop[w].pc
        /\ loop'[w].bytes = loop[w].bytes /\ loop'[w].keep = loop[w].keep
        /\ loop'[w].victim = loop[w].victim
    BY <1>0, <1>4, Carried
  <2>2. media' \subseteq media
    <3>1. ASSUME NEW v \in Loops, Rename(v) PROVE FALSE
      BY <1>1, <1>4, <3>1, OnlyStep DEF LoopStep
    <3> QED
      BY <3>1, MediaGrows
  <2> QED
    BY <1>2, <1>3, <2>1, <2>2
<1>5. CASE LoopStep(w)
  <2>0. /\ "capacity" \notin Fetches \cup Evicts /\ "reject" \notin Fetches \cup Evicts
        /\ "evict" \notin Fetches /\ "evictRow" \notin Fetches /\ "disk" # "evictRow"
    BY DEF Fetches, Evicts
  <2>1. CASE Capacity(w) /\ loop'[w].bytes = loop[w].bytes /\ loop'[w].keep = ReadyRows
             /\ (loop'[w].pc = "disk" => Fits(ReadyRows, loop[w].bytes))
             /\ loop'[w].pc \in {"disk", "evict", "reject"}
    BY <1>2, <2>0, <2>1
  <2>2. CASE Evict(w) /\ loop'[w].bytes = loop[w].bytes /\ loop'[w].keep = loop[w].keep
             /\ loop'[w].pc = "evictRow" /\ FileOf(loop'[w].victim) \notin media'
    <3>1. loop[w].pc \in Evicts
      BY <2>2 DEF Evict, Step, Evicts
    <3> QED
      BY <1>2, <1>3, <2>0, <2>2, <3>1
  <2>3. CASE EvictRow(w) /\ loop'[w].bytes = loop[w].bytes /\ loop'[w].pc = "evict"
             /\ loop'[w].keep = {p \in loop[w].keep : p[1] # loop[w].victim}
    <3>1. loop[w].pc = "evictRow" /\ loop[w].pc \in Evicts /\ media' = media
      BY <2>3 DEF EvictRow, Step, Evicts
    <3>2. ASSUME NEW p \in Kept' PROVE p[1] # loop[w].victim
      <4>1. p \in ReadyRows' /\ (DbErrors => FileOf(p[1]) \in media')
        BY <3>2 DEF Kept, Held, FileOf
      <4>2. p[1] \in Ids /\ rows'[p[1]].status = "ready"
        BY <4>1 DEF ReadyRows
      <4>3. CASE DbErrors
        BY <1>3, <3>1, <4>1, <4>3
      <4>4. CASE ~DbErrors
        <5>1. DeleteRows({loop[w].victim})
          BY <2>3, <4>4 DEF EvictRow, Task
        <5> QED
          BY <4>2, <5>1 DEF DeleteRows, NoRow
      <4> QED
        BY <4>3, <4>4
    <3> QED
      BY <1>2, <1>3, <2>0, <2>3, <3>1, <3>2
  <2>4. CASE Fetch(w) /\ loop'[w].bytes \in {loop[w].bytes, BodyBytes[Path(w)]}
             /\ loop'[w].keep = loop[w].keep /\ loop'[w].pc \notin Evicts
    <3>1. loop[w].pc \in Fetches /\ Downloads(w) /\ loop'[w].pc # "evictRow"
      BY <2>4 DEF Fetch, Step, Fetches, Downloads, Evicts
    <3>2. loop'[w].bytes = loop[w].bytes
      BY <2>4, <3>1 DEF CapInv, SizesOK
    <3> QED
      BY <1>2, <1>3, <2>4, <3>1, <3>2
  <2>5. CASE GoesOn(w)
    <3>1. loop'[w].pc \in Fetches /\ loop'[w].pc # "evictRow"
      BY <2>5 DEF GoesOn, Evicts
    <3>2. CASE loop[w].pc \in Fetches
      BY <1>2, <1>3, <2>5, <3>1, <3>2 DEF GoesOn
    <3>3. CASE EvictEnd(w) /\ Fits(loop[w].keep, loop[w].bytes)
      <4>1. loop[w].pc \in Evicts
        BY <3>3 DEF EvictEnd, Step, Evicts
      <4> QED
        BY <1>2, <1>3, <2>5, <3>1, <3>3, <4>1 DEF GoesOn
    <3> QED
      BY <2>5, <3>1, <3>2, <3>3 DEF GoesOn
  <2>6. CASE LoopFind(w) /\ loop'[w].pc \in {"capacity", "reject", "disk"}
             /\ (loop'[w].pc = "disk" => MaxCacheBytes = 0)
    BY <1>0, <2>0, <2>6
  <2> QED
    BY <1>0, <1>5, <2>1, <2>2, <2>3, <2>4, <2>5, <2>6, TaskMoves
<1> QED
  BY <1>4, <1>5

LEMMA CapStep ==
  ASSUME IInv, IInv', SizesKnown, CapInv, [Next]_vars
  PROVE  CapRespected'
<1> SUFFICES ASSUME MaxCacheBytes > 0 PROVE Bytes(Held') <= MaxCacheBytes
  BY DEF CapRespected, Held, Bytes, Cells, ReadyRows, FileOf
<1>0. /\ Bytes(Held) <= MaxCacheBytes /\ Held \subseteq Kept /\ Kept \in SUBSET Sized
      /\ MaxCacheBytes \in Nat
      /\ Held \in SUBSET Sized
  BY KeptTypes, ConstantsAssumption DEF CapInv, CapRespected, Held
<1>1. ASSUME NEW w \in Loops, loop[w].pc \in Fetches
      PROVE  /\ Kept \subseteq loop[w].keep /\ loop[w].keep \in SUBSET Sized
             /\ loop[w].bytes \in Nat /\ loop[w].bytes \in 0..MaxFileBytes
             /\ Bytes(loop[w].keep) + loop[w].bytes <= MaxCacheBytes
             /\ Bytes(loop[w].keep) \in Nat
  <2>1. loop[w].keep \in SUBSET Sized /\ loop[w].bytes \in 0..MaxFileBytes
    BY KeptTypes
  <2> QED
    BY <1>1, <2>1, CellsFinite, ConstantsAssumption DEF CapInv, Room, Fits
<1>2. ASSUME NEW w \in Loops, Ready(w) PROVE Bytes(Held') <= MaxCacheBytes
  <2>0. /\ loop[w].pc \in Fetches /\ UNCHANGED media
        /\ loop[w].id \in Ids /\ rows \in [Ids -> Rows]
    BY <1>2 DEF Ready, Step, Fetches, IInv, WorkOK, RestOK, Busy
  <2> PICK b : b = loop[w].bytes
    OBVIOUS
  <2> PICK id \in Ids : id = loop[w].id
    BY <2>0
  <2>1. b = BodyBytes[FileOf(id)] /\ BodyBytes[FileOf(id)] \in 1..MaxFileBytes
    BY <2>0, ConstantsAssumption
       DEF CapInv, SizesOK, Downloads, Fetches, Path, Ids, FileOf
  <2>2. FinalBytes(w) = b
    BY <2>1, ConstantsAssumption DEF FinalBytes, Task, Path
  <2>3. UNCHANGED rows \/ SetRow(id, "ready", b)
    BY <1>2, <2>2 DEF Ready, Task
  <2>4. Held' \subseteq Held \cup {<<id, b>>}
    <3> SUFFICES ASSUME NEW p \in Held' PROVE p \in Held \cup {<<id, b>>}
      OBVIOUS
    <3>1. /\ p \in Ids \X (0..MaxFileBytes) /\ p[1] \in Ids /\ p = <<p[1], p[2]>>
          /\ rows'[p[1]].status = "ready" /\ rows'[p[1]].bytes = p[2]
          /\ FileOf(p[1]) \in media
      BY <2>0 DEF Held, ReadyRows, FileOf
    <3>2. CASE rows'[p[1]] = rows[p[1]]
      BY <3>1, <3>2 DEF Held, ReadyRows
    <3>3. CASE SetRow(id, "ready", b) /\ p[1] = id /\ rows'[p[1]] # rows[p[1]]
      <4>1. rows'[id].bytes = b
        BY <2>0, <3>3 DEF SetRow
      <4> QED
        BY <3>1, <3>3, <4>1
    <3>4. CASE SetRow(id, "ready", b) /\ p[1] # id
      BY <2>0, <3>1, <3>2, <3>4 DEF SetRow
    <3> QED
      BY <2>3, <3>2, <3>3, <3>4
  <2>5. Held \cup {<<id, b>>} \subseteq loop[w].keep \cup {<<id, b>>}
    BY <1>0, <1>1, <2>0
  <2>6. loop[w].keep \cup {<<id, b>>} \in SUBSET Sized
    BY <1>1, <2>0 DEF Sized
  <2>7. /\ Bytes(Held') <= Bytes(loop[w].keep \cup {<<id, b>>})
        /\ Bytes(loop[w].keep \cup {<<id, b>>}) <= Bytes(loop[w].keep) + b
        /\ Bytes(Held') \in Nat /\ Bytes(loop[w].keep \cup {<<id, b>>}) \in Nat
    <3>1. Held' \in SUBSET (loop[w].keep \cup {<<id, b>>}) /\ Held' \in SUBSET Sized
      BY <2>4, <2>5, <2>6
    <3>2. b \in 0..MaxFileBytes
      BY <1>1, <2>0
    <3> QED
      BY <1>1, <2>0, <2>6, <3>1, <3>2, BytesMonotone, BytesAdd, CellsFinite
  <2> QED
    BY <1>0, <1>1, <2>0, <2>7
<1>3. ASSUME \A w \in Loops : ~Ready(w) PROVE Bytes(Held') <= MaxCacheBytes
  <2>1. ReadyRows' \subseteq ReadyRows /\ Kept' \subseteq Kept /\ Held' \subseteq Kept'
    <3>1. Held' \subseteq Kept'
      BY DEF Held, Kept
    <3> QED
      BY <1>3, <3>1, BecomesReady, KeptShrinks DEF CapInv
  <2>2. ASSUME NEW T \in SUBSET Sized, Held' \subseteq T, Bytes(T) <= MaxCacheBytes
        PROVE  Bytes(Held') <= MaxCacheBytes
    <3>1. Held' \in SUBSET T /\ Held' \in SUBSET Sized
      BY <2>2
    <3>2. Bytes(Held') <= Bytes(T) /\ Bytes(Held') \in Nat /\ Bytes(T) \in Nat
      BY <3>1, BytesMonotone, CellsFinite
    <3> QED
      BY <1>0, <2>2, <3>2
  <2>3. ASSUME NEW w \in Loops, Rename(w) PROVE Bytes(Held') <= MaxCacheBytes
    <3>1. loop[w].pc \in Fetches
      BY <2>3 DEF Rename, Step, Fetches
    <3>2. Held' \subseteq loop[w].keep /\ Bytes(loop[w].keep) <= MaxCacheBytes
      BY <1>0, <1>1, <2>1, <3>1
    <3> QED
      BY <1>1, <2>2, <3>1, <3>2
  <2>4. ASSUME \A w \in Loops : ~Rename(w) PROVE Bytes(Held') <= MaxCacheBytes
    <3>1. media' \subseteq media
      BY <2>4, MediaGrows
    <3>2. Held' \subseteq Held
      BY <2>1, <3>1 DEF Held, FileOf
    <3> QED
      BY <1>0, <2>2, <3>2
  <2> QED
    BY <2>3, <2>4
<1> QED
  BY <1>2, <1>3

(* The ready files on the disk never exceed the cap, where Bookdarr lists   *)
(* the true sizes, and where no file has two rows if database calls fail.   *)
THEOREM CapRespectedAlways ==
  ASSUME SizesKnown
  PROVE  Spec /\ [](DbErrors => OneRowPerFile) => []CapRespected
<1>1. Init => CapInv
  <2> SUFFICES ASSUME Init PROVE CapInv
    OBVIOUS
  <2>1. \A w \in Loops : loop[w].pc = "idle"
    BY DEF Init, NoTask
  <2>2. \A id \in Ids : rows[id].status = "none"
    BY DEF Init, NoRow
  <2>3. Held = {}
    BY <2>2 DEF Held, ReadyRows
  <2>4. Cells({}) = {}
    BY DEF Cells
  <2>5. Bytes(Held) = 0
    BY <2>3, <2>4, FS_EmptySet DEF Bytes
  <2>6. CapRespected
    BY <2>5, ConstantsAssumption DEF CapRespected, Held
  <2> QED
    BY <2>1, <2>2, <2>6 DEF CapInv, SizesOK, Fresh, Room, Downloads, Exists, Fetches, Evicts
<1>2. IInv /\ (DbErrors => OneRowPerFile) /\ CapInv /\ [Next]_vars => CapInv'
  BY NextOK, SizesStep, FreshStep, RoomStep, CapStep DEF CapInv
<1>3. CapInv => CapRespected
  BY DEF CapInv
<1> QED
  BY <1>1, <1>2, <1>3, Invariance, PTL DEF Spec

-----------------------------------------------------------------------------
(* Rows waiting for a download                                              *)

Waits(id)    == rows[id].status \in {"queued", "downloading"}
Carries(w, id) == Busy(w) /\ loop[w].id = id /\ ~loop[w].aborted
Wanted(id)  == id \in queuedIds \/ \E w \in Loops : Carries(w, id)

(* An id that is active is being downloaded, and a download whose id was    *)
(* taken out of active was aborted.                                         *)
ActiveHeld == stopping \/ \A id \in active : \E w \in Loops : Downloads(w) /\ Carries(w, id)
FindFresh  == \A w \in Loops : ~Downloads(w) => ~loop[w].aborted

LEMMA TakeNextCarries ==
  ASSUME loop \in [Loops -> Tasks], NEW w \in Loops, NEW q \in Seq(Ids), NEW qs, Agrees(q, qs),
         NEW act, act = {}, TakeNext(w, q, qs, act)
  PROVE  \A id \in qs : Wanted(id)'
<1>1. DOMAIN q = 1..Len(q) /\ Len(q) \in Nat /\ Members(q) = qs
  BY LenProperties DEF Agrees
<1>2. {k \in DOMAIN q : q[k] \notin act} = DOMAIN q
  BY <1>1 DEF Members
<1>3. CASE DOMAIN q = {}
  BY <1>1, <1>3 DEF Members
<1>4. ASSUME NEW k \in DOMAIN q, \A j \in DOMAIN q : k <= j,
             queuedIds' = qs \ {q[j] : j \in 1..k},
             loop' = [loop EXCEPT ![w] = [NoTask EXCEPT !.pc = "find", !.id = q[k]]]
      PROVE  \A id \in qs : Wanted(id)'
  <2>1. k = 1
    BY <1>1, <1>4
  <2>2. \A id \in qs : id \in queuedIds' \/ id = q[k]
    BY <1>4, <2>1
  <2>3. Carries(w, q[k])'
    BY <1>4 DEF NoTask, Carries, Busy
  <2> QED
    BY <2>2, <2>3 DEF Wanted, Carries, Busy
<1> QED
  BY <1>2, <1>3, <1>4 DEF TakeNext

(* Enqueue puts the id in hand, unless a clear is under way, and loses none.*)
LEMMA EnqueueCarries ==
  ASSUME IInv, ActiveHeld, ~clearing, ~stopping, NEW id \in Ids, Enqueue(id)
  PROVE  Wanted(id)' /\ \A j : Wanted(j) => Wanted(j)'
<1> USE DEF IInv, WorkOK
<1>1. CASE UNCHANGED work
  <2>1. \A j : Wanted(j)' <=> Wanted(j)
    BY <1>1 DEF work, Wanted, Carries, Busy
  <2>2. CASE id \in queuedIds
    BY <2>1, <2>2 DEF Wanted
  <2>3. CASE id \in active
    BY <2>1, <2>3 DEF ActiveHeld, Wanted
  <2>4. ASSUME ProcessQueue(Append(queue, id), queuedIds \cup {id}), id \notin queuedIds
        PROVE  FALSE
    <3>1. CASE queuedIds' = queuedIds \cup {id}
      BY <1>1, <2>4, <3>1 DEF work
    <3>2. CASE ~processing /\ \E w \in Loops : TakeNext(w, Append(queue, id), queuedIds \cup {id}, active)
      <4>1. Append(queue, id) \in Seq(Ids) /\ Agrees(Append(queue, id), queuedIds \cup {id})
        BY <2>4, AppendAgrees DEF QueueAgrees, Agrees
      <4>2. active = {}
        BY <3>2 DEF ActiveHeld, QueueServed, Carries
      <4>3. \A j \in queuedIds \cup {id} : Wanted(j)'
        BY <3>2, <4>1, <4>2, TakeNextCarries
      <4>4. \A w \in Loops : ~Busy(w)
        BY <3>2 DEF QueueServed
      <4> QED
        BY <1>1, <2>1, <2>4, <4>3, <4>4 DEF Wanted, Carries
    <3> QED
      BY <2>4, <3>1, <3>2 DEF ProcessQueue
  <2> QED
    BY <2>1, <2>2, <2>3, <2>4 DEF Enqueue
<1>2. ASSUME id \notin queuedIds, ProcessQueue(Append(queue, id), queuedIds \cup {id})
      PROVE  Wanted(id)' /\ \A j : Wanted(j) => Wanted(j)'
  <2>1. CASE queuedIds' = queuedIds \cup {id} /\ UNCHANGED loop
    BY <2>1 DEF Wanted, Carries, Busy
  <2>2. CASE ~processing /\ \E w \in Loops : TakeNext(w, Append(queue, id), queuedIds \cup {id}, active)
    <3>1. Append(queue, id) \in Seq(Ids) /\ Agrees(Append(queue, id), queuedIds \cup {id})
      BY <1>2, AppendAgrees DEF QueueAgrees, Agrees
    <3>2. active = {} /\ \A w \in Loops : ~Busy(w)
      BY <2>2 DEF ActiveHeld, QueueServed, Carries
    <3>3. \A j \in queuedIds \cup {id} : Wanted(j)'
      BY <2>2, <3>1, <3>2, TakeNextCarries
    <3> QED
      BY <3>2, <3>3 DEF Wanted, Carries
  <2> QED
    BY <1>2, <2>1, <2>2 DEF ProcessQueue
<1> QED
  BY <1>1, <1>2 DEF Enqueue

(* When the loop takes its next row, only the one it had leaves its hands.  *)
LEMMA NextCarries ==
  ASSUME IInv, ActiveHeld, ~stopping, NEW w \in Loops, Busy(w),
         \/ ~Downloads(w) /\ TakeNext(w, queue, queuedIds, active)
         \/ Finish(w)
  PROVE  \A id : Wanted(id) => Wanted(id)' \/ Carries(w, id)
<1> USE DEF IInv, WorkOK
<1>1. \A v \in Loops : Busy(v) => v = w
  BY DEF OneLoop
<1>2. Agrees(queue, queuedIds) /\ queue \in Seq(Ids)
  BY DEF QueueAgrees, Agrees
<1>3. \A id \in queuedIds : Wanted(id)'
  <2>1. CASE ~Downloads(w) /\ TakeNext(w, queue, queuedIds, active)
    <3>1. active = {}
      BY <1>1, <2>1 DEF ActiveHeld, Carries
    <3> QED
      BY <1>2, <2>1, <3>1, TakeNextCarries
  <2>2. CASE Finish(w)
    <3>1. active \ {loop[w].id} = {}
      BY <1>1 DEF ActiveHeld, Carries
    <3> QED
      BY <1>2, <2>2, <3>1, TakeNextCarries DEF Finish, Task
  <2> QED
    BY <2>1, <2>2
<1> QED
  BY <1>1, <1>3 DEF Wanted, Carries

(* The download ends: its row is settled, or the download was aborted.      *)
Settles(w) ==
  /\ Finish(w)
  /\ \/ Reject(w) \/ Fail(w)
     \/ Ready(w) /\ SetRow(Task(w).id, "ready", FinalBytes(w))
     \/ Discard(w) /\ (Task(w).aborted \/ stopping)

LEMMA DownloadMoves ==
  ASSUME IInv, NEW w \in Loops, LoopStep(w), Downloads(w)
  PROVE  \/ Settles(w)
         \/ /\ UNCHANGED <<active, queuedIds>>
            /\ Downloads(w)' /\ loop'[w].id = loop[w].id /\ loop'[w].aborted = loop[w].aborted
<1> DEFINE Moves == Downloads(w)' /\ loop'[w].id = loop[w].id /\ loop'[w].aborted = loop[w].aborted
<1>0. loop[w] \in Tasks /\ loop \in [Loops -> Tasks]
  BY DEF IInv, WorkOK
<1>a. ASSUME NEW pc, pc \notin {"idle", "find"}, To(w, pc) PROVE Moves
  BY <1>0, <1>a DEF To, Tasks, Downloads
<1>1. CASE Capacity(w)
  <2> DEFINE pc == CASE Fits(ReadyRows, Task(w).bytes) -> "disk"
                     [] ~Fits(ReadyRows, Task(w).bytes) /\ EvictOldest -> "evict"
                     [] OTHER -> "reject"
             t  == [loop[w] EXCEPT !.keep = ReadyRows, !.pc = pc]
  <2>1. pc \notin {"idle", "find"}
    OBVIOUS
  <2>2. loop' = [loop EXCEPT ![w] = t] /\ UNCHANGED <<active, queuedIds>>
    BY <1>1 DEF Capacity
  <2> HIDE DEF pc
  <2>3. t.pc = pc /\ t.id = loop[w].id /\ t.aborted = loop[w].aborted
    BY <1>0 DEF Tasks
  <2> HIDE DEF t
  <2> QED
    BY <1>0, <2>1, <2>2, <2>3 DEF Downloads
<1>2. CASE Evict(w)
  BY <1>0, <1>2 DEF Evict, Tasks, Downloads
<1>3. CASE EvictRow(w)
  BY <1>0, <1>3 DEF EvictRow, Tasks, Downloads
<1>4. CASE Fetch(w)
  <2>1. ASSUME NEW n, loop' = [loop EXCEPT ![w] =
             [@ EXCEPT !.bytes = n, !.pc = IF n # Task(w).bytes THEN "resize" ELSE "open"]]
        PROVE  Moves
    BY <1>0, <2>1 DEF Tasks, Downloads
  <2> QED
    BY <1>4, <1>a, <2>1 DEF Fetch
<1>5. CASE EvictEnd(w) \/ DiskSpace(w) \/ Mark(w) \/ Resize(w) \/ Stream(w) \/ Rename(w)
  BY <1>5, <1>a DEF EvictEnd, DiskSpace, Mark, Resize, Stream, Rename
<1>6. CASE OpenPart(w)
  <2>1. \E pc \in {"stream", "discard"} : To(w, pc)
    BY <1>6 DEF OpenPart
  <2> QED
    BY <1>6, <1>a, <2>1 DEF OpenPart
<1>7. CASE Progress(w)
  BY <1>7 DEF Progress, work, Downloads
<1>8. CASE Reject(w) \/ Ready(w) \/ Discard(w) \/ Fail(w)
  BY <1>8, <1>a DEF Reject, Ready, Discard, Fail, Settles
<1>9. ~LoopFind(w)
  BY DEF LoopFind, Step, Downloads
<1> QED
  BY <1>1, <1>2, <1>3, <1>4, <1>5, <1>6, <1>7, <1>8, <1>9 DEF LoopStep

(* A busy loop is otherwise disturbed only by an abort or the end of the    *)
(* process.                                                                 *)
LEMMA Undisturbed ==
  ASSUME IInv, [Next]_vars, NEW w \in Loops, Busy(w), ~LoopStep(w)
  PROVE  \/ loop'[w] = loop[w] /\ active' = active
         \/ \E r \in Reqs : RemoveFind(r) \/ ClearStart(r)
         \/ Destroy \/ Crash
<1> USE DEF IInv, WorkOK
<1>1. ASSUME NEW id, Enqueue(id) PROVE loop'[w] = loop[w]
  BY <1>1 DEF Enqueue, ProcessQueue, QueueServed, work
<1>2. ASSUME NEW r \in Reqs, Begin(r) \/ Continue(r), ~RemoveFind(r), ~ClearStart(r)
      PROVE  loop'[w] = loop[w] /\ active' = active
  BY <1>1, <1>2
     DEF Begin, Continue, QueueFiles, QueueFind, QueueSave, QueueUpdate, QueueRemoveFile,
         QueueRemovePart, RemoveDelete, RemoveFile, RemovePart,
         ClearDelete, ClearFiles, ClearDone, ServeFind, ServeAccess, ServeMissing, CallFails, work
<1>3. \A v \in Loops : ~LoopStep(v)
  BY OnlyStep
<1>4. CASE BootFind \/ Resume \/ UNCHANGED vars
  BY <1>1, <1>4 DEF BootFind, Resume, vars, work
<1> QED
  BY <1>2, <1>3, <1>4 DEF Next

LEMMA StopsForGood ==
  ASSUME [Next]_vars
  PROVE  \/ Crash
         \/ Destroy /\ stopping'
         \/ stopping' = stopping
<1>1. ASSUME NEW r \in Reqs, Begin(r) \/ Continue(r) PROVE stopping' = stopping
  BY <1>1
     DEF Begin, Continue, QueueFiles, QueueFind, QueueSave, QueueUpdate, QueueRemoveFile,
         QueueRemovePart, RemoveFind, RemoveDelete, RemoveFile, RemovePart, ClearStart,
         ClearDelete, ClearFiles, ClearDone, ServeFind, ServeAccess, ServeMissing, CallFails
<1>2. ASSUME NEW w \in Loops, LoopStep(w) PROVE stopping' = stopping
  BY <1>2
     DEF LoopStep, LoopFind, Capacity, Evict, EvictRow, EvictEnd, DiskSpace, Reject, Mark, Fetch,
         Resize, OpenPart, Stream, Progress, Rename, Ready, Discard, Fail
<1> QED
  BY <1>1, <1>2 DEF Next, BootFind, Resume, Destroy, vars

LEMMA FreshStart ==
  ASSUME loop \in [Loops -> Tasks], NEW w \in Loops, NEW q, NEW qs, NEW act, TakeNext(w, q, qs, act)
  PROVE  ~loop'[w].aborted
<1>1. CASE loop' = [loop EXCEPT ![w] = NoTask]
  BY <1>1 DEF NoTask
<1>2. ASSUME NEW id, loop' = [loop EXCEPT ![w] = [NoTask EXCEPT !.pc = "find", !.id = id]]
      PROVE  ~loop'[w].aborted
  BY <1>2 DEF NoTask
<1> QED
  BY <1>1, <1>2 DEF TakeNext

LEMMA FindFreshStep ==
  ASSUME IInv, FindFresh, [Next]_vars
  PROVE  FindFresh'
<1> SUFFICES ASSUME NEW w \in Loops, ~Downloads(w)' PROVE ~loop'[w].aborted
  BY DEF FindFresh
<1>0. loop[w] \in Tasks /\ loop \in [Loops -> Tasks]
  BY DEF IInv, WorkOK
<1>1. CASE LoopStep(w) /\ Downloads(w)
  BY <1>0, <1>1, DownloadMoves, FreshStart DEF Settles, Finish
<1>2. CASE LoopStep(w) /\ ~Downloads(w)
  <2>1. LoopFind(w)
    BY <1>2, AtFind
  <2>2. CASE TakeNext(w, queue, queuedIds, active)
    BY <1>0, <2>2, FreshStart
  <2>3. ASSUME NEW b, NEW pc, loop' = [loop EXCEPT ![w] = [@ EXCEPT !.bytes = b, !.pc = pc]]
        PROVE  loop'[w].aborted = loop[w].aborted
    BY <1>0, <2>3 DEF Tasks
  <2> QED
    BY <1>2, <2>1, <2>2, <2>3 DEF LoopFind, FindFresh
<1>3. ASSUME NEW ids, loop' = Aborted(ids) PROVE ~loop'[w].aborted
  <2>1. loop'[w].pc = loop[w].pc
    BY <1>0, <1>3 DEF Aborted, Tasks
  <2> QED
    BY <1>0, <1>3, <2>1 DEF Aborted, Downloads, FindFresh
<1>4. CASE loop'[w] = loop[w]
  BY <1>4 DEF FindFresh, Downloads
<1>5. ASSUME NEW v \in Loops, LoopStep(v), v # w PROVE loop'[w] = loop[w]
  <2>1. CASE LoopFind(v) \/ Reject(v) \/ Ready(v) \/ Discard(v) \/ Fail(v)
    BY <1>0, <1>5, <2>1, TakeNextLoop DEF LoopFind, Reject, Ready, Discard, Fail, Finish, To
  <2> QED
    BY <1>0, <1>5, <2>1
       DEF LoopStep, Capacity, Evict, EvictRow, EvictEnd, DiskSpace, Mark, Fetch, Resize,
           OpenPart, Stream, Progress, Rename, To, work
<1>6. ASSUME NEW id, Enqueue(id) PROVE ~loop'[w].aborted
  <2>1. ASSUME NEW v \in Loops, NEW q, NEW qs, NEW act, TakeNext(v, q, qs, act)
        PROVE  loop'[w] = loop[w] \/ ~loop'[w].aborted
    BY <1>0, <2>1, TakeNextLoop, FreshStart
  <2> QED
    BY <1>4, <1>6, <2>1 DEF Enqueue, ProcessQueue, work
<1>7. ASSUME NEW r \in Reqs, Begin(r) \/ Continue(r) PROVE ~loop'[w].aborted
  BY <1>3, <1>4, <1>6, <1>7
     DEF Begin, Continue, QueueFiles, QueueFind, QueueSave, QueueUpdate, QueueRemoveFile,
         QueueRemovePart, RemoveFind, RemoveDelete, RemoveFile, RemovePart, ClearStart,
         ClearDelete, ClearFiles, ClearDone, ServeFind, ServeAccess, ServeMissing, CallFails, work
<1>8. CASE BootFind \/ Resume \/ Destroy \/ Crash \/ UNCHANGED vars
  <2>1. CASE Crash
    BY <2>1 DEF Crash, NoTask
  <2> QED
    BY <1>3, <1>4, <1>6, <1>8, <2>1 DEF BootFind, Resume, Destroy, vars, work
<1> QED
  BY <1>1, <1>2, <1>4, <1>5, <1>7, <1>8 DEF Next

LEMMA ActiveHeldStep ==
  ASSUME IInv, ActiveHeld, FindFresh, [Next]_vars
  PROVE  ActiveHeld'
<1>0. loop \in [Loops -> Tasks] /\ active \subseteq Ids
  BY DEF IInv, WorkOK, RestOK
<1>1. CASE Crash
  BY <1>1 DEF Crash, ActiveHeld
<1>2. CASE stopping'
  BY <1>2 DEF ActiveHeld
<1>3. CASE ~Crash /\ ~stopping'
  <2>1. ~stopping /\ ~Destroy
    <3>1. ~Destroy
      BY <1>3 DEF Destroy
    <3> QED
      BY <1>3, <3>1, StopsForGood
  <2>2. SUFFICES ASSUME NEW id \in active' PROVE \E w \in Loops : Downloads(w)' /\ Carries(w, id)'
    BY DEF ActiveHeld
  <2>3. CASE id \in active
    <3>1. PICK w \in Loops : Downloads(w) /\ Carries(w, id)
      BY <2>1, <2>3 DEF ActiveHeld
    <3>2. CASE LoopStep(w)
      <4>1. ~Settles(w)
        BY <3>1 DEF Settles, Finish, Task, Carries
      <4> QED
        BY <3>1, <3>2, <4>1, DownloadMoves DEF Carries, Downloads, Busy
    <3>3. CASE loop'[w] = loop[w]
      BY <3>1, <3>3 DEF Carries, Downloads, Busy
    <3>4. ASSUME NEW r \in Reqs, RemoveFind(r) \/ ClearStart(r) PROVE loop'[w] = loop[w]
      <4>1. CASE ClearStart(r)
        BY <4>1 DEF ClearStart
      <4>2. CASE RemoveFind(r)
        <5>1. loop[w].id \notin RowsOf(Target[r])
          BY <3>1, <4>2 DEF RemoveFind, Carries
        <5> QED
          BY <4>2, <5>1 DEF RemoveFind, Aborted
      <4> QED
        BY <3>4, <4>1, <4>2
    <3> QED
      BY <1>3, <2>1, <3>1, <3>2, <3>3, <3>4, Undisturbed DEF Carries
  <2>4. CASE id \notin active
    <3>1. ASSUME NEW r \in Reqs, Begin(r) \/ Continue(r) PROVE FALSE
      BY <2>4, <3>1
         DEF Begin, Continue, QueueFiles, QueueFind, QueueSave, QueueUpdate, QueueRemoveFile,
         QueueRemovePart, RemoveFind, RemoveDelete, RemoveFile, RemovePart, ClearStart,
         ClearDelete, ClearFiles, ClearDone, ServeFind, ServeAccess, ServeMissing, CallFails
    <3>2. ASSUME NEW w \in Loops, LoopStep(w) PROVE LoopFind(w) /\ ~(UNCHANGED active)
      BY <2>4, <3>2
         DEF LoopStep, Capacity, Evict, EvictRow, EvictEnd, DiskSpace, Reject, Mark, Fetch,
             Resize, OpenPart, Stream, Progress, Rename, Ready, Discard, Fail, Finish
    <3>3. ASSUME NEW w \in Loops, LoopFind(w), ~(UNCHANGED active)
          PROVE Downloads(w)' /\ Carries(w, id)'
      <4> DEFINE pc == CASE MaxCacheBytes = 0 -> "disk"
                         [] MaxCacheBytes # 0 /\ clearing -> "reject"
                         [] OTHER -> "capacity"
                 t  == [loop[w] EXCEPT !.bytes = rows[loop[w].id].bytes, !.pc = pc]
      <4>1. pc \notin {"idle", "find"}
        OBVIOUS
      <4>2. loop' = [loop EXCEPT ![w] = t] /\ active' = active \cup {loop[w].id} /\ ~Downloads(w)
        BY <3>3 DEF LoopFind, Task, Step, Downloads
      <4> HIDE DEF pc
      <4>3. t.pc = pc /\ t.id = loop[w].id /\ t.aborted = loop[w].aborted
        BY <1>0 DEF Tasks
      <4>4. id = loop[w].id /\ ~loop[w].aborted
        BY <2>4, <4>2 DEF FindFresh
      <4> HIDE DEF t
      <4>5. loop'[w] = t
        BY <1>0, <4>2
      <4> QED
        BY <4>1, <4>3, <4>4, <4>5 DEF Downloads, Carries, Busy
    <3>4. ~(BootFind \/ Resume \/ UNCHANGED vars)
      BY <2>4 DEF BootFind, Resume, vars
    <3> QED
      BY <1>3, <2>1, <3>1, <3>2, <3>3, <3>4 DEF Next
  <2> QED
    BY <2>3, <2>4
<1> QED
  BY <1>1, <1>2, <1>3

(* Who else will settle a row: a return or a clear about to delete it, or a *)
(* checkout about to put it into the queue.                                 *)
ByCall(id) ==
  \/ \E r \in Reqs : Op[r] = "queue" /\ req[r].pc \in {"rm", "rmPart"} /\ req[r].id = id
  \/ \E r \in Reqs : Op[r] = "remove" /\ req[r].pc = "delete" /\ id \in req[r].ids
  \/ \E r \in Reqs : Op[r] = "clear" /\ req[r].pc = "delete"

LEMMA TendedIs ==
  ASSUME NEW id
  PROVE  Tended(id) <=> Wanted(id) \/ ByCall(id) \/ id \in pending
BY DEF Tended, Wanted, Carries, ByCall

(* What is in the hands of the process stays there through a request's      *)
(* step, or the step is a return's or a clear's, which will delete the row. *)
LEMMA WantedThroughCall ==
  ASSUME IInv, ActiveHeld, ~clearing, ~stopping, NEW r \in Reqs, Begin(r) \/ Continue(r),
         NEW id \in Ids, Wanted(id)
  PROVE  Wanted(id)' \/ ByCall(id)'
<1> USE DEF IInv, WorkOK, RestOK
<1>1. CASE UNCHANGED work
  BY <1>1 DEF work, Wanted, Carries, Busy
<1>2. ASSUME NEW j \in Ids, Enqueue(j) PROVE Wanted(id)'
  BY <1>2, EnqueueCarries
<1>3. CASE RemoveFind(r)
  <2>1. CASE id \in RowsOf(Target[r])
    <3>1. req'[r].pc = "delete" /\ req'[r].ids = RowsOf(Target[r]) /\ Op[r] = "remove"
      BY <1>3 DEF RemoveFind, Started, Calls
    <3> QED
      BY <2>1, <3>1 DEF ByCall
  <2>2. CASE id \notin RowsOf(Target[r])
    <3>1. \A w \in Loops : Carries(w, id) => loop'[w] = loop[w]
      BY <1>3, <2>2 DEF RemoveFind, Aborted, Carries
    <3>2. id \in queuedIds => id \in queuedIds'
      BY <1>3, <2>2 DEF RemoveFind
    <3> QED
      BY <3>1, <3>2 DEF Wanted, Carries, Busy
  <2> QED
    BY <2>1, <2>2
<1>4. CASE ClearStart(r)
  <2>1. req'[r].pc = "delete" /\ Op[r] = "clear"
    BY <1>4 DEF ClearStart, Started, Goto, Calls
  <2> QED
    BY <2>1 DEF ByCall
<1>5. CASE QueueSave(r) \/ QueueRemovePart(r)
  <2>1. req[r].id \in Ids
    BY <1>5 DEF QueueSave, QueueRemovePart, At
  <2> QED
    BY <1>2, <1>5, <2>1 DEF QueueSave, QueueRemovePart
<1> QED
  BY <1>1, <1>3, <1>4, <1>5
     DEF Begin, Continue, QueueFiles, QueueFind, QueueUpdate, QueueRemoveFile, RemoveDelete,
         RemoveFile, RemovePart, ClearDelete, ClearFiles, ClearDone, ServeFind, ServeAccess,
         ServeMissing, CallFails

(* The loop lets go of a row only when it has settled it.                   *)
LEMMA WantedThroughLoop ==
  ASSUME IInv, ActiveHeld, FindFresh, ~stopping, NEW w \in Loops, LoopStep(w),
         NEW id \in Ids, Wanted(id), Waits(id)'
  PROVE  Wanted(id)'
<1> USE DEF IInv, WorkOK, RestOK
<1>1. Busy(w) /\ loop[w].id \in Ids
  BY DEF LoopStep, LoopFind, Capacity, Evict, EvictRow, EvictEnd, DiskSpace, Reject, Mark, Fetch,
         Resize, OpenPart, Stream, Progress, Rename, Ready, Discard, Fail, Step, Busy
<1>2. CASE Downloads(w) /\ ~Settles(w)
  <2>1. UNCHANGED queuedIds /\ Downloads(w)' /\ loop'[w].id = loop[w].id
          /\ loop'[w].aborted = loop[w].aborted
    BY <1>2, DownloadMoves
  <2>2. \A v \in Loops : Busy(v) => v = w
    BY <1>1 DEF OneLoop
  <2> QED
    BY <2>1, <2>2 DEF Wanted, Carries, Downloads, Busy
<1>3. ASSUME Settles(w), Carries(w, id) PROVE FALSE
  <2>1. ~(Reject(w) \/ Fail(w) \/ (Ready(w) /\ SetRow(Task(w).id, "ready", FinalBytes(w))))
    <3> SUFFICES ASSUME Reject(w) \/ Fail(w) \/ (Ready(w) /\ SetRow(Task(w).id, "ready", FinalBytes(w)))
                 PROVE  FALSE
      OBVIOUS
    <3>1. PICK s \in {"failed", "ready"} : \E b : SetRow(id, s, b)
      BY <1>3 DEF Reject, Fail, Ready, SetStatus, Task, Carries
    <3>2. rows'[id].status \in {"none", "failed", "ready"}
      <4>1. CASE Exists(id)
        BY <3>1, <4>1 DEF SetRow
      <4>2. CASE ~Exists(id)
        BY <3>1, <4>2 DEF SetRow, Exists
      <4> QED
        BY <4>1, <4>2
    <3> QED
      BY <3>2 DEF Waits
  <2>2. ~(Discard(w) /\ (Task(w).aborted \/ stopping))
    BY <1>3 DEF Task, Carries
  <2>3. \/ Reject(w) \/ Fail(w)
        \/ Ready(w) /\ SetRow(Task(w).id, "ready", FinalBytes(w))
        \/ Discard(w) /\ (Task(w).aborted \/ stopping)
    BY <1>3 DEF Settles
  <2> QED
    BY <2>1, <2>2, <2>3
<1>4. CASE Downloads(w) /\ Settles(w)
  BY <1>1, <1>3, <1>4, NextCarries DEF Settles
<1>5. CASE ~Downloads(w)
  <2>1. LoopFind(w)
    BY <1>5, AtFind
  <2>2. CASE rows[Task(w).id].status \in {"none", "ready"} /\ TakeNext(w, queue, queuedIds, active)
    <3>1. ~Carries(w, id)
      BY <2>1, <2>2 DEF LoopFind, disk, Task, Carries, Waits
    <3> QED
      BY <1>1, <1>5, <2>2, <3>1, NextCarries
  <2>3. ASSUME NEW b, NEW pc, pc # "idle",
               loop' = [loop EXCEPT ![w] = [@ EXCEPT !.bytes = b, !.pc = pc]],
               UNCHANGED queuedIds
        PROVE  Wanted(id)'
    <3>1. loop'[w].pc = pc /\ loop'[w].id = loop[w].id /\ loop'[w].aborted = loop[w].aborted
      BY <2>3 DEF Tasks
    <3>2. \A v \in Loops : v # w => loop'[v] = loop[v]
      BY <2>3
    <3> QED
      BY <2>3, <3>1, <3>2 DEF Wanted, Carries, Busy
  <2>4. (CASE MaxCacheBytes = 0 -> "disk"
           [] MaxCacheBytes # 0 /\ clearing -> "reject"
           [] OTHER -> "capacity") # "idle"
    OBVIOUS
  <2> QED
    BY <2>1, <2>2, <2>3, <2>4 DEF LoopFind
<1> QED
  BY <1>2, <1>4, <1>5

(* A call that will settle a row does, or hands it to the queue.            *)
LEMMA CallKeeps ==
  ASSUME IInv, ActiveHeld, RemoveCalls, ~clearing, ~stopping,
         NEW r \in Reqs, Begin(r) \/ Continue(r), ~CallFails(r),
         NEW id \in Ids, ByCall(id), Waits(id)'
  PROVE  Wanted(id)' \/ ByCall(id)'
<1> USE DEF IInv, RestOK
<1>1. \A q \in Reqs : q # r => req'[q] = req[q]
  BY OwnRequestOnly
<1>2. ASSUME Op[r] = "queue", req[r].pc \in {"rm", "rmPart"}, req[r].id = id
      PROVE  Wanted(id)' \/ ByCall(id)'
  <2>1. CASE QueueRemoveFile(r)
    <3>1. req'[r].pc = "rmPart" /\ req'[r].id = id
      BY <1>2, <2>1 DEF QueueRemoveFile, Goto, Calls
    <3> QED
      BY <1>2, <3>1 DEF ByCall
  <2>2. CASE QueueRemovePart(r)
    BY <1>2, <2>2, EnqueueCarries DEF QueueRemovePart
  <2> QED
    BY <1>2, <2>1, <2>2
       DEF Begin, Continue, QueueFiles, QueueFind, QueueSave, QueueUpdate,
           RemoveFind, RemoveDelete, RemoveFile, RemovePart, ClearStart,
           ClearDelete, ClearFiles, ClearDone, ServeFind, ServeAccess, ServeMissing, At, Started
<1>3. ~(Op[r] = "remove" /\ req[r].pc = "delete" /\ id \in req[r].ids)
  <2> SUFFICES ASSUME Op[r] = "remove", req[r].pc = "delete", id \in req[r].ids PROVE FALSE
    OBVIOUS
  <2>1. RemoveDelete(r)
    BY DEF Begin, Continue, QueueFiles, QueueFind, QueueSave, QueueUpdate, QueueRemoveFile,
           QueueRemovePart, RemoveFind, RemoveFile, RemovePart, ClearStart,
           ClearDelete, ClearFiles, ClearDone, ServeFind, ServeAccess, ServeMissing, At, Started
  <2>2. BookOf[FileOf(id)] = Target[r]
    BY DEF RemoveCalls, Returns
  <2>3. rows'[id].status = "none"
    BY <2>1, <2>2 DEF RemoveDelete, DeleteRows, RowsOf, Exists, NoRow
  <2> QED
    BY <2>3 DEF Waits
<1>4. ~(Op[r] = "clear" /\ req[r].pc = "delete")
  <2> SUFFICES ASSUME Op[r] = "clear", req[r].pc = "delete" PROVE FALSE
    OBVIOUS
  <2>1. ClearDelete(r)
    BY DEF Begin, Continue, QueueFiles, QueueFind, QueueSave, QueueUpdate, QueueRemoveFile,
           QueueRemovePart, RemoveFind, RemoveDelete, RemoveFile, RemovePart, ClearStart,
           ClearFiles, ClearDone, ServeFind, ServeAccess, ServeMissing, At, Started
  <2>2. rows'[id].status = "none"
    BY <2>1 DEF ClearDelete, DeleteRows, NoRow
  <2> QED
    BY <2>2 DEF Waits
<1>5. PICK q \in Reqs : \/ Op[q] = "queue" /\ req[q].pc \in {"rm", "rmPart"} /\ req[q].id = id
                        \/ Op[q] = "remove" /\ req[q].pc = "delete" /\ id \in req[q].ids
                        \/ Op[q] = "clear" /\ req[q].pc = "delete"
  BY DEF ByCall
<1>6. CASE q # r
  BY <1>1, <1>5, <1>6 DEF ByCall
<1> QED
  BY <1>2, <1>3, <1>4, <1>5, <1>6

(* A row starts to wait when a checkout or the start of the process queues  *)
(* it, or when the loop marks the one it has.                               *)
LEMMA WaitsAnew ==
  ASSUME IInv, ActiveHeld, ~clearing, ~stopping,
         NEW r \in Reqs, Begin(r) \/ Continue(r), NEW id \in Ids, ~Waits(id), Waits(id)'
  PROVE  Wanted(id)' \/ ByCall(id)'
<1> USE DEF IInv, RestOK
<1>1. CASE QueueSave(r)
  <2>1. req[r].id = id
    BY <1>1 DEF QueueSave, Waits
  <2> QED
    BY <1>1, <2>1, EnqueueCarries DEF QueueSave
<1>2. CASE QueueUpdate(r)
  <2>1. req[r].id = id
    BY <1>2 DEF QueueUpdate, SetRow, Waits
  <2>2. Op[r] = "queue" /\ req'[r].pc = "rm" /\ req'[r].id = id
    BY <1>2, <2>1 DEF QueueUpdate, At, Goto, Calls
  <2> QED
    BY <2>2 DEF ByCall
<1>3. ~RemoveDelete(r) /\ ~ClearDelete(r)
  BY DEF RemoveDelete, ClearDelete, DeleteRows, NoRow, Waits
<1>4. ~ServeMissing(r)
  BY DEF ServeMissing, SetStatus, SetRow, Waits, Rows
<1>5. rows' # rows
  BY DEF Waits
<1> QED
  BY <1>1, <1>2, <1>3, <1>4, <1>5
     DEF Begin, Continue, QueueFiles, QueueFind, QueueRemoveFile, QueueRemovePart, RemoveFind,
         RemoveFile, RemovePart, ClearStart, ClearFiles, ClearDone, ServeFind, ServeAccess,
         CallFails, disk

LEMMA MarkedAnew ==
  ASSUME IInv, NEW w \in Loops, LoopStep(w), NEW id \in Ids, ~Waits(id), Waits(id)'
  PROVE  Mark(w) /\ loop[w].id = id
<1> USE DEF IInv, WorkOK, RestOK
<1>1. ASSUME NEW s, NEW b, SetRow(Task(w).id, s, b), s \in {"failed", "ready", rows[Task(w).id].status}
      PROVE  FALSE
  <2>1. CASE Task(w).id = id
    BY <1>1, <2>1 DEF SetRow, Waits
  <2>2. CASE Task(w).id # id
    BY <1>1, <2>2 DEF SetRow, Waits
  <2> QED
    BY <2>1, <2>2
<1>2. ~EvictRow(w)
  BY DEF EvictRow, DeleteRows, NoRow, Waits
<1>3. ~(Resize(w) \/ Progress(w) \/ Reject(w) \/ Fail(w) \/ Ready(w))
  <2>1. ~Resize(w)
    BY <1>1 DEF Resize, Waits
  <2>2. ~Progress(w)
    BY <1>1 DEF Progress
  <2>3. ~Reject(w) /\ ~Fail(w)
    BY <1>1 DEF Reject, Fail, SetStatus
  <2>4. ~Ready(w)
    BY <1>1 DEF Ready, Waits
  <2> QED
    BY <2>1, <2>2, <2>3, <2>4
<1>4. Mark(w)
  BY <1>2, <1>3
     DEF LoopStep, LoopFind, Capacity, Evict, EvictEnd, DiskSpace, Fetch, OpenPart, Stream, Rename,
         Discard, disk, Waits
<1>5. loop[w].id = id
  BY <1>4 DEF Mark, SetStatus, SetRow, Task, Waits
<1> QED
  BY <1>4, <1>5

(* One step: a row is forgotten in the three ways the property names.       *)
LEMMA ForgottenStep ==
  ASSUME IInv, History, ActiveHeld, FindFresh, Next, ~clearing,
         NEW id \in Ids, Forgotten(id)', ~Forgotten(id)
  PROVE  \/ \E r \in Reqs : CallFails(r)
         \/ \E w \in Loops : loop[w].id = id /\ loop[w].aborted /\ Mark(w)
<1> USE DEF IInv, RestOK
<1>1. phase' # "boot" /\ ~stopping' /\ Waits(id)' /\ ~Wanted(id)' /\ ~ByCall(id)' /\ id \notin pending'
  BY DEF Forgotten, Tended, Waits, Wanted, Carries, ByCall
<1>2. ~Crash /\ ~Destroy
  BY <1>1 DEF Crash, Destroy
<1>3. ~BootFind
  BY <1>1 DEF BootFind, disk, Waits
<1>4. ~stopping
  BY <1>1, <1>2, StopsForGood
<1>5. phase # "boot"
  <2>1. ASSUME NEW r \in Reqs, Begin(r) \/ Continue(r) PROVE phase = "up"
    BY <2>1
       DEF Begin, Continue, QueueFiles, QueueFind, QueueSave, QueueUpdate, QueueRemoveFile,
           QueueRemovePart, RemoveFind, RemoveDelete, RemoveFile, RemovePart, ClearStart,
           ClearDelete, ClearFiles, ClearDone, ServeFind, ServeAccess, ServeMissing, CallFails,
           At, Started
  <2>2. ASSUME NEW w \in Loops, LoopStep(w) PROVE phase = phase'
    BY <2>2, LoopLeavesRequests
  <2> QED
    BY <1>1, <1>2, <1>3, <2>1, <2>2 DEF Next, Resume
<1>6. ~Waits(id) \/ Wanted(id) \/ ByCall(id) \/ id \in pending
  BY <1>4, <1>5, TendedIs DEF Forgotten, Waits
<1>7. ASSUME NEW r \in Reqs, Begin(r) \/ Continue(r) PROVE CallFails(r)
  <2> SUFFICES ASSUME ~CallFails(r) PROVE FALSE
    OBVIOUS
  <2>1. pending' = pending
    BY <1>7
       DEF Begin, Continue, QueueFiles, QueueFind, QueueSave, QueueUpdate, QueueRemoveFile,
           QueueRemovePart, RemoveFind, RemoveDelete, RemoveFile, RemovePart, ClearStart,
           ClearDelete, ClearFiles, ClearDone, ServeFind, ServeAccess, ServeMissing, CallFails, boot
  <2>2. Waits(id)
    BY <1>1, <1>4, <1>7, WaitsAnew
  <2>3. ~Wanted(id)
    BY <1>1, <1>4, <1>7, WantedThroughCall
  <2>4. ~ByCall(id)
    BY <1>1, <1>4, <1>7, CallKeeps DEF History
  <2> QED
    BY <1>1, <1>6, <2>1, <2>2, <2>3, <2>4
<1>8. ASSUME NEW w \in Loops, LoopStep(w) PROVE Mark(w) /\ loop[w].id = id /\ loop[w].aborted
  <2>1. UNCHANGED <<req, pending>>
    BY <1>8, LoopLeavesRequests
  <2>2. ~ByCall(id) /\ id \notin pending
    BY <1>1, <2>1 DEF ByCall
  <2>3. ~Wanted(id)
    BY <1>1, <1>4, <1>8, WantedThroughLoop
  <2>4. ~Waits(id)
    BY <1>6, <2>2, <2>3
  <2>5. Mark(w) /\ loop[w].id = id
    BY <1>1, <1>8, <2>4, MarkedAnew
  <2>6. Busy(w)
    BY <2>5 DEF Mark, Step, Busy
  <2> QED
    BY <2>3, <2>5, <2>6 DEF Wanted, Carries
<1>9. ~Resume
  <2> SUFFICES ASSUME Resume PROVE FALSE
    OBVIOUS
  <2>1. PICK j \in pending : SetStatus(j, "queued") /\ Enqueue(j) /\ pending' = pending \ {j}
    BY DEF Resume
  <2>2. j # id
    BY <1>1, <1>4, <2>1, EnqueueCarries
  <2>3. rows'[id] = rows[id]
    BY <2>1, <2>2 DEF SetStatus, SetRow
  <2>4. ~Wanted(id) /\ id \notin pending
    BY <1>1, <1>4, <2>1, <2>2, EnqueueCarries
  <2>5. ~ByCall(id)
    BY <1>1 DEF Resume, ByCall
  <2> QED
    BY <1>1, <1>6, <2>3, <2>4, <2>5 DEF Waits
<1> QED
  BY <1>2, <1>3, <1>7, <1>8, <1>9 DEF Next

LEMMA HeldInit == Init => ActiveHeld /\ FindFresh
BY DEF Init, ActiveHeld, FindFresh, NoTask

LEMMA HeldAlways == Spec => [](ActiveHeld /\ FindFresh)
<1>1. IInv /\ ActiveHeld /\ FindFresh /\ [Next]_vars => (ActiveHeld /\ FindFresh)'
  BY ActiveHeldStep, FindFreshStep
<1> QED
  BY <1>1, HeldInit, Invariance, PTL DEF Spec

(* A row that waits for a download loses its last keeper only in a step     *)
(* taken while a clear is under way, by a request whose database call fails *)
(* half way, or by the loop marking a row whose download was aborted.       *)
THEOREM ForgottenOnlyByClearAlways == Spec => ForgottenOnlyByClear
<1>1. /\ IInv /\ History /\ ActiveHeld /\ FindFresh /\ [Next]_vars
      => [clearing \/ \A id \in Ids : Forgotten(id)' =>
            \/ Forgotten(id)
            \/ \E r \in Reqs : CallFails(r)
            \/ \E w \in Loops : loop[w].id = id /\ loop[w].aborted /\ Mark(w)]_vars
  BY ForgottenStep
<1> QED
  BY <1>1, Invariance, HistoryAlways, HeldAlways, PTL DEF Spec, ForgottenOnlyByClear

-----------------------------------------------------------------------------
(* Nothing is forgotten where nothing is cleared and no call fails          *)

(* The row of an aborted download is gone, or about to be.                  *)
Leaving(id) == \E r \in Reqs : Op[r] = "remove" /\ req[r].pc = "delete" /\ id \in req[r].ids
AbortedOut ==
  stopping \/ \A w \in Loops : loop[w].aborted /\ Exists(loop[w].id) => Leaving(loop[w].id)
NoClears == ~DbErrors /\ \A r \in Reqs : Op[r] # "clear"

LEMMA LeavingStays ==
  ASSUME IInv, History, NoClears, Next, ~Crash, NEW id \in Ids, Leaving(id), Exists(id)'
  PROVE  Leaving(id)'
<1> USE DEF IInv, RestOK
<1>1. PICK r \in Reqs : Op[r] = "remove" /\ req[r].pc = "delete" /\ id \in req[r].ids
  BY DEF Leaving
<1>2. ASSUME Begin(r) \/ Continue(r) PROVE FALSE
  <2>1. RemoveDelete(r)
    BY <1>1, <1>2
       DEF Begin, Continue, QueueFiles, QueueFind, QueueSave, QueueUpdate, QueueRemoveFile,
           QueueRemovePart, RemoveFind, RemoveFile, RemovePart, ClearStart,
           ClearDelete, ClearFiles, ClearDone, ServeFind, ServeAccess, ServeMissing, CallFails,
           NoClears, At, Started
  <2>2. BookOf[FileOf(id)] = Target[r]
    BY <1>1 DEF History, RemoveCalls, Returns
  <2> QED
    BY <2>1, <2>2 DEF RemoveDelete, DeleteRows, RowsOf, Exists, NoRow
<1>3. req'[r] = req[r]
  <2>1. ASSUME NEW q \in Reqs, Begin(q) \/ Continue(q) PROVE req'[r] = req[r]
    BY <1>2, <2>1, OwnRequestOnly
  <2>2. ASSUME NEW w \in Loops, LoopStep(w) PROVE req'[r] = req[r]
    BY <2>2, LoopLeavesRequests
  <2> QED
    BY <2>1, <2>2 DEF Next, BootFind, Resume, Destroy
<1> QED
  BY <1>1, <1>3 DEF Leaving

LEMMA AbortedOutStep ==
  ASSUME IInv, History, FindFresh, NoClears, AbortedOut, [Next]_vars
  PROVE  AbortedOut'
<1> USE DEF IInv, WorkOK, RestOK
<1>1. CASE UNCHANGED vars
  BY <1>1 DEF vars, work, disk, AbortedOut, Leaving, Exists
<1>2. CASE Crash
  BY <1>2 DEF Crash, NoTask, AbortedOut
<1>3. CASE stopping'
  BY <1>3 DEF AbortedOut
<1>4. CASE Next /\ ~Crash /\ ~stopping'
  <2>1. ~Destroy /\ ~stopping
    <3>1. ~Destroy
      BY <1>4 DEF Destroy
    <3> QED
      BY <1>4, <3>1, StopsForGood
  <2>2. SUFFICES ASSUME NEW w \in Loops, loop'[w].aborted, NEW id, id = loop'[w].id,
                        Exists(id)'
                 PROVE  Leaving(id)'
    BY DEF AbortedOut, Leaving, Exists
  <2>3. ASSUME loop[w].aborted, loop'[w].id = loop[w].id PROVE Leaving(id)'
    <3>1. Busy(w) /\ loop[w].id = id /\ id \in Ids
      BY <2>2, <2>3 DEF FindFresh, Downloads, Busy
    <3>2. Made(id)
      BY <3>1 DEF History, HandMade, InHand
    <3>3. Exists(id)
      BY <1>4, <2>2, <2>3, <3>1, <3>2, GoneForGood DEF History
    <3>4. Leaving(id)
      BY <2>1, <2>3, <3>1, <3>3 DEF AbortedOut
    <3> QED
      BY <1>4, <2>2, <3>1, <3>4, LeavingStays
  <2>4. CASE loop'[w] = loop[w]
    BY <2>2, <2>3, <2>4
  <2>5. ASSUME NEW j, Enqueue(j) PROVE loop'[w] = loop[w]
    <3>1. ASSUME NEW v \in Loops, NEW q, NEW qs, NEW act, TakeNext(v, q, qs, act)
          PROVE  loop'[w] = loop[w] \/ ~loop'[w].aborted
      BY <3>1, TakeNextLoop, FreshStart
    <3> QED
      BY <2>2, <2>5, <3>1 DEF Enqueue, ProcessQueue, work
  <2>6. CASE LoopStep(w)
    <3>1. Downloads(w)'
      BY <2>2, FindFreshStep DEF FindFresh
    <3>2. CASE Downloads(w)
      <4>1. ~Settles(w)
        BY <3>1, TakeNextLoop DEF Settles, Finish, Downloads
      <4> QED
        BY <2>2, <2>3, <2>6, <3>2, <4>1, DownloadMoves
    <3>3. CASE ~Downloads(w)
      <4>1. ~loop[w].aborted
        BY <3>3 DEF FindFresh
      <4>2. LoopFind(w)
        BY <2>6, <3>3, AtFind
      <4>3. CASE TakeNext(w, queue, queuedIds, active)
        BY <2>2, <4>3, FreshStart
      <4>4. ASSUME NEW b, NEW pc, loop' = [loop EXCEPT ![w] = [@ EXCEPT !.bytes = b, !.pc = pc]]
            PROVE  loop'[w].aborted = loop[w].aborted
        BY <4>4 DEF Tasks
      <4> QED
        BY <2>2, <4>1, <4>2, <4>3, <4>4 DEF LoopFind
    <3> QED
      BY <3>2, <3>3
  <2>7. ASSUME NEW v \in Loops, LoopStep(v), v # w PROVE loop'[w] = loop[w]
    <3>1. CASE LoopFind(v) \/ Reject(v) \/ Ready(v) \/ Discard(v) \/ Fail(v)
      BY <2>7, <3>1, TakeNextLoop DEF LoopFind, Reject, Ready, Discard, Fail, Finish, To
    <3> QED
      BY <2>7, <3>1
         DEF LoopStep, Capacity, Evict, EvictRow, EvictEnd, DiskSpace, Mark, Fetch, Resize,
             OpenPart, Stream, Progress, Rename, To, work
  <2>8. ASSUME NEW r \in Reqs, RemoveFind(r) PROVE Leaving(id)'
    <3>1. loop'[w].id = loop[w].id
      BY <2>8 DEF RemoveFind, Aborted, Tasks
    <3>2. CASE loop[w].aborted
      BY <2>3, <3>1, <3>2
    <3>3. CASE ~loop[w].aborted
      <4>1. loop[w].id \in RowsOf(Target[r])
        BY <2>2, <2>8, <3>1, <3>3 DEF RemoveFind, Aborted
      <4>2. Op[r] = "remove" /\ req'[r].pc = "delete" /\ req'[r].ids = RowsOf(Target[r])
        BY <2>8 DEF RemoveFind, Started, Calls
      <4> QED
        BY <2>2, <3>1, <4>1, <4>2 DEF Leaving
    <3> QED
      BY <3>2, <3>3
  <2>9. ASSUME NEW r \in Reqs, Begin(r) \/ Continue(r), ~RemoveFind(r) PROVE loop'[w] = loop[w]
    BY <2>5, <2>9
       DEF Begin, Continue, QueueFiles, QueueFind, QueueSave, QueueUpdate, QueueRemoveFile,
           QueueRemovePart, RemoveDelete, RemoveFile, RemovePart, ClearStart, NoClears, Started,
           ClearDelete, ClearFiles, ClearDone, ServeFind, ServeAccess, ServeMissing, CallFails, work
  <2> QED
    BY <1>4, <2>1, <2>4, <2>5, <2>6, <2>7, <2>8, <2>9 DEF Next, BootFind, Resume, work
<1> QED
  BY <1>1, <1>2, <1>3, <1>4

(* Where the cache is not cleared and the database answers, no row waits    *)
(* for a download that nobody will start, through checkouts, returns and    *)
(* evictions, stops, crashes and restarts.                                  *)
THEOREM NothingForgottenAlways ==
  ASSUME NoClears
  PROVE  Spec => []NothingForgotten
<1> DEFINE I == ~clearing /\ AbortedOut /\ NothingForgotten
<1>1. Init => I
  BY DEF Init, AbortedOut, NoTask, NothingForgotten, Forgotten, NoRow
<1>2. IInv /\ History /\ ActiveHeld /\ FindFresh /\ I /\ [Next]_vars => I'
  <2> SUFFICES ASSUME IInv, History, ActiveHeld, FindFresh, I, [Next]_vars PROVE I'
    OBVIOUS
  <2>1. AbortedOut'
    BY AbortedOutStep
  <2>2. ~clearing'
    <3>1. ASSUME NEW r \in Reqs, Begin(r) \/ Continue(r) PROVE ~clearing'
      BY <3>1
         DEF Begin, Continue, QueueFiles, QueueFind, QueueSave, QueueUpdate, QueueRemoveFile,
             QueueRemovePart, RemoveFind, RemoveDelete, RemoveFile, RemovePart, ClearStart,
             NoClears, Started, ClearDelete, ClearFiles, ClearDone, ServeFind, ServeAccess,
             ServeMissing, CallFails
    <3>2. ASSUME NEW w \in Loops, LoopStep(w) PROVE ~clearing'
      BY <3>2, LoopLeavesRequests
    <3> QED
      BY <3>1, <3>2 DEF Next, BootFind, Resume, Destroy, Crash, vars
  <2>3. ASSUME NEW id \in Ids, Forgotten(id)' PROVE FALSE
    <3>1. CASE UNCHANGED vars
      BY <2>3, <3>1 DEF vars, work, disk, boot, NothingForgotten, Forgotten, Tended, Busy
    <3>2. CASE Next
      <4>1. ~\E r \in Reqs : CallFails(r)
        BY DEF NoClears, CallFails
      <4>2. PICK w \in Loops : loop[w].id = id /\ loop[w].aborted /\ Mark(w)
        BY <2>3, <3>2, <4>1, ForgottenStep DEF NothingForgotten
      <4>3. Exists(id)
        BY <2>3, <4>2 DEF Mark, SetStatus, SetRow, Task, Exists, Forgotten
      <4>4. stopping' = stopping /\ ~stopping /\ req' = req
        BY <2>3, <4>2 DEF Mark, Forgotten
      <4> QED
        BY <2>3, <4>2, <4>3, <4>4 DEF AbortedOut, Leaving, Forgotten, Tended
    <3> QED
      BY <3>1, <3>2
  <2> QED
    BY <2>1, <2>2, <2>3 DEF NothingForgotten
<1> QED
  BY <1>1, <1>2, Invariance, HistoryAlways, HeldAlways, PTL DEF Spec

-----------------------------------------------------------------------------
(* Checkout                                                                 *)

(* The library's own steps leave the cache alone.                           *)
LEMMA LibraryStepsStutter ==
  ASSUME NEW r \in Patrons, LibraryStep(r)
  PROVE  UNCHANGED vars
<1>1. CASE CheckoutFind(r) \/ CheckoutSave(r)
      BY <1>1 DEF CheckoutFind, CheckoutSave
<1>2. CASE ReturnFind(r) \/ ReturnSave(r)
      BY <1>2 DEF ReturnFind, ReturnSave
<1>3. CASE ReadFind(r) \/ ReadLatest(r) \/ ReadSave(r) \/ ReadCreate(r)
      BY <1>3 DEF ReadFind, ReadLatest, ReadSave, ReadCreate
<1>4. CASE Unread(r)
      BY <1>4 DEF Unread
<1>5. QED BY <1>1, <1>2, <1>3, <1>4 DEF LibraryStep

(* Every step of the composed system is a step of the cache or leaves it    *)
(* alone: user-library.service.ts touches no download row and no file.     *)
LEMMA CheckoutStep ==
  ASSUME [CheckoutNext]_all
  PROVE  [Next]_vars
<1>1. CASE \E r \in Patrons : LibraryStep(r)
      BY <1>1, LibraryStepsStutter
<1>2. CASE \E r \in Reqs : DownloadStep(r)
      BY <1>2 DEF DownloadStep, Next
<1>3. CASE (\E w \in Loops : LoopStep(w)) /\ UNCHANGED <<shelf, lib>>
      BY <1>3 DEF Next
<1>4. CASE (BootFind \/ Resume \/ Destroy) /\ UNCHANGED <<shelf, lib>>
      BY <1>4 DEF Next
<1>5. CASE Restart
      BY <1>5 DEF Restart, Next
<1>6. CASE UNCHANGED all
      BY <1>6 DEF all
<1>7. QED BY <1>1, <1>2, <1>3, <1>4, <1>5, <1>6 DEF CheckoutNext

(* Checking out, returning and marking books implements the offline cache's *)
(* specification.                                                          *)
THEOREM CheckoutImplementsCache == CheckoutSpec => Spec
<1>1. CheckoutInit => Init
      BY DEF CheckoutInit
<1>2. [CheckoutNext]_all => [Next]_vars
      BY CheckoutStep
<1>3. QED BY <1>1, <1>2, PTL DEF CheckoutSpec, Spec
-----------------------------------------------------------------------------
(* The table user_library, as requests write it                             *)

Locals == [pc : {"new", "save", "latest", "create", "downloads", "done", "lost"},
           row : {0} \cup DOMAIN shelf, copy : [out : BOOLEAN, read : BOOLEAN]]

(* repo.save of a row that there is.                                        *)
LEMMA RowWritten ==
  ASSUME shelf \in Seq(Copies), NEW i \in DOMAIN shelf, NEW c \in Copies,
         shelf' = [shelf EXCEPT ![i] = c]
  PROVE  /\ shelf' \in Seq(Copies)
         /\ DOMAIN shelf' = DOMAIN shelf
         /\ shelf'[i] = c
         /\ \A j \in DOMAIN shelf : j # i => shelf'[j] = shelf[j]
OBVIOUS

(* repo.save of a new one.                                                  *)
LEMMA RowAdded ==
  ASSUME shelf \in Seq(Copies), NEW c \in Copies, shelf' = Append(shelf, c)
  PROVE  /\ shelf' \in Seq(Copies)
         /\ Len(shelf) + 1 \notin DOMAIN shelf
         /\ DOMAIN shelf' = DOMAIN shelf \cup {Len(shelf) + 1}
         /\ shelf'[Len(shelf) + 1] = c
         /\ \A j \in DOMAIN shelf : shelf'[j] = shelf[j]
OBVIOUS

(* Marking unread touches neither the book nor whether it is out.           *)
LEMMA RowsUnmarked ==
  ASSUME shelf \in Seq(Copies), NEW b,
         shelf' = [i \in DOMAIN shelf |->
                     IF shelf[i].book = b THEN [shelf[i] EXCEPT !.read = FALSE]
                     ELSE shelf[i]]
  PROVE  /\ shelf' \in Seq(Copies)
         /\ DOMAIN shelf' = DOMAIN shelf
         /\ \A j \in DOMAIN shelf : shelf'[j].book = shelf[j].book /\ shelf'[j].out = shelf[j].out
<1>1. \A j \in DOMAIN shelf : shelf[j] \in Copies
  OBVIOUS
<1>2. \A j \in DOMAIN shelf : /\ shelf'[j] \in Copies /\ shelf'[j].book = shelf[j].book
                             /\ shelf'[j].out = shelf[j].out
  BY <1>1 DEF Copies
<1>3. DOMAIN shelf' = 1..Len(shelf) /\ Len(shelf) \in Nat
  OBVIOUS
<1> QED
  BY <1>2, <1>3

(* The last of some rows is one of them: a set of numbers has a least one.  *)
LEMMA HasLeast ==
  ASSUME NEW T, T \subseteq Nat, T # {}
  PROVE  \E m \in T : \A k \in T : m <= k
<1>1. PICK m \in T : \A k \in T : ~ (<<k, m>> \in OpToRel(<, Nat))
  BY WFMin, NatLessThanWellFounded
<1>2. \A k \in T : ~ (k < m)
  BY <1>1 DEF OpToRel
<1> QED
  BY <1>2

LEMMA LatestIsOne ==
  ASSUME shelf \in Seq(Copies), NEW S, S \subseteq DOMAIN shelf, S # {}
  PROVE  Latest(S) \in S
<1> DEFINE n == Len(shelf)
           T == {n - i : i \in S}
<1>1. n \in Nat /\ DOMAIN shelf = 1..n
  OBVIOUS
<1>2. \A i \in S : i \in Int /\ n - i \in Nat
  BY <1>1
<1>3. T \subseteq Nat /\ T # {}
  BY <1>2
<1>4. PICK t \in T : \A k \in T : t <= k
  BY <1>3, HasLeast
<1>5. PICK m \in S : t = n - m
  OBVIOUS
<1>6. \A k \in S : n - m <= n - k
  BY <1>4, <1>5
<1> HIDE DEF T, n
<1>7. \A k \in S : k <= m
  BY <1>1, <1>2, <1>6
<1> QED
  BY <1>7 DEF Latest

-----------------------------------------------------------------------------
(* Steps on the table                                                       *)

RowsStay == \A j \in DOMAIN shelf : j \in DOMAIN shelf' /\ shelf'[j].book = shelf[j].book

LEMMA LocalsMove ==
  ASSUME CheckoutTypeOK, RowsStay, NEW r \in Patrons, NEW t \in Locals',
         lib' = [lib EXCEPT ![r] = t]
  PROVE  /\ lib' \in [Patrons -> Locals']
         /\ lib'[r] = t
         /\ \A s \in Patrons : s # r => lib'[s] = lib[s]
<1>1. \A s \in Patrons : lib[s] \in Locals'
  BY DEF CheckoutTypeOK, Locals, RowsStay
<1> QED
  BY <1>1 DEF CheckoutTypeOK

(* A request that takes a row of its book along.                            *)
Holds(r, i) ==
  /\ i \in DOMAIN shelf /\ shelf[i].book = Book(r)
  /\ lib'[r].pc = "save" /\ lib'[r].row = i /\ lib'[r].copy.out = shelf[i].out

LEMMA HoldingOK ==
  ASSUME CheckoutTypeOK, NEW r \in Patrons, NEW i \in RowsFor(Book(r)),
         Holding(r, i), UNCHANGED shelf
  PROVE  CheckoutTypeOK' /\ Holds(r, i) /\ \A s \in Patrons : s # r => lib'[s] = lib[s]
<1> DEFINE t == [pc |-> "save", row |-> i,
                 copy |-> [out |-> shelf[i].out, read |-> shelf[i].read]]
<1>1. shelf[i] \in Copies /\ i \in DOMAIN shelf /\ shelf[i].book = Book(r)
  BY DEF CheckoutTypeOK, RowsFor
<1>2. t \in Locals'
  BY <1>1 DEF Locals, Copies
<1>3. lib' = [lib EXCEPT ![r] = t] /\ RowsStay
  BY DEF Holding, RowsStay
<1>4. /\ lib' \in [Patrons -> Locals'] /\ lib'[r] = t
      /\ \A s \in Patrons : s # r => lib'[s] = lib[s]
  BY <1>2, <1>3, LocalsMove
<1> QED
  BY <1>1, <1>4 DEF CheckoutTypeOK, Locals, Holds

LEMMA ThenOK ==
  ASSUME CheckoutTypeOK, RowsStay, NEW r \in Patrons, Then(r, "save") \/ Then(r, "latest")
           \/ Then(r, "create") \/ Then(r, "downloads") \/ Then(r, "done")
  PROVE  /\ lib' \in [Patrons -> Locals']
         /\ lib'[r].row = lib[r].row
         /\ \A s \in Patrons : s # r => lib'[s] = lib[s]
<1> PICK pc \in {"save", "latest", "create", "downloads", "done"} : Then(r, pc)
  OBVIOUS
<1> DEFINE t == [lib[r] EXCEPT !.pc = pc]
<1>1. t \in Locals' /\ t.row = lib[r].row
  BY DEF CheckoutTypeOK, Locals, RowsStay
<1>2. lib' = [lib EXCEPT ![r] = t]
  BY DEF Then
<1> HIDE DEF t
<1> QED
  BY <1>1, <1>2, LocalsMove

(* A request about to write refers to a row of its book; a checkout has     *)
(* seen none out, a mark knows whether its row is.                          *)
RowsHeld ==
  \A r \in Patrons : lib[r].pc = "save" =>
    /\ Kind(r) = "queue" => Active(Book(r)) = {}
    /\ Kind(r) # "queue" => lib[r].row \in DOMAIN shelf /\ shelf[lib[r].row].book = Book(r)
    /\ Kind(r) = "read" => lib[r].copy.out = shelf[lib[r].row].out

Marked(j)     == shelf'[j].out = shelf[j].out
Untouched     == (\A j \in DOMAIN shelf : Marked(j)) /\ \A b : Active(b)' = Active(b)
TakenOut(r)   ==
  /\ Kind(r) = "queue" /\ lib[r].pc = "save" /\ lib'[r].pc = "downloads"
  /\ \A j \in DOMAIN shelf : Marked(j)
  /\ \E n : \A b : Active(b)' = IF b = Book(r) THEN Active(b) \cup {n} ELSE Active(b)
GivenBack(r)  ==
  /\ Kind(r) = "remove" /\ lib[r].pc = "save" /\ lib'[r].pc = "downloads"
  /\ \A j \in DOMAIN shelf : j # lib[r].row => Marked(j)
  /\ \A b : Active(b)' = Active(b) \ {lib[r].row}

(* What r has found: nothing that is out, or a row of its book; a checkout  *)
(* goes on to the downloads at once if there is a copy out.                 *)
Found(r) ==
  /\ lib'[r].pc = "save" =>
       IF Kind(r) = "queue" THEN Active(Book(r)) = {} ELSE \E i : Holds(r, i)
  /\ lib'[r].pc = "downloads" /\ Kind(r) = "queue" => Active(Book(r)) # {}

Effect(r) ==
  /\ CheckoutTypeOK' /\ RowsStay /\ \A s \in Patrons : s # r => lib'[s] = lib[s]
  /\ lib[r].pc \in {"save", "latest", "create"} \/ Arrives(r, Kind(r)) \/ lib'[r].pc = "done"
  /\ lib[r].pc \in {"new", "save", "latest", "create"}
  /\ lib'[r].pc \in {"save", "latest", "create", "downloads", "done"}
  /\ \/ UNCHANGED shelf /\ Found(r)
     \/ Untouched /\ lib'[r].pc = "done"
     \/ TakenOut(r)
     \/ GivenBack(r)

LEMMA KindOfReader == \A r \in Readers : Kind(r) = "read"
BY CheckoutAssumption DEF Kind

LEMMA CheckoutFindEffect ==
  ASSUME CheckoutTypeOK, NEW r \in Patrons, CheckoutFind(r)
  PROVE  Effect(r)
<1>1. /\ Kind(r) = "queue" /\ Arrives(r, Kind(r)) /\ lib[r].pc = "new" /\ UNCHANGED shelf
      /\ RowsStay
  BY CheckoutAssumption DEF CheckoutFind, Arrives, Kind, RowsStay
<1>2. CASE Active(Book(r)) = {} /\ Then(r, "save")
  <2>1. /\ lib' \in [Patrons -> Locals'] /\ lib'[r].row = lib[r].row
        /\ \A s \in Patrons : s # r => lib'[s] = lib[s]
    BY <1>1, <1>2, ThenOK
  <2>2. lib'[r].pc = "save"
    BY <1>2 DEF Then, CheckoutTypeOK
  <2> QED
    BY <1>1, <1>2, <2>1, <2>2 DEF Effect, Found, CheckoutTypeOK, Locals
<1>3. ASSUME NEW i \in Active(Book(r)),
             lib' = [lib EXCEPT ![r].pc = "downloads", ![r].row = i]
      PROVE  Effect(r)
  <2> DEFINE t == [lib[r] EXCEPT !.pc = "downloads", !.row = i]
  <2>1. t \in Locals' /\ t.pc = "downloads" /\ lib' = [lib EXCEPT ![r] = t]
    BY <1>1, <1>3 DEF CheckoutTypeOK, Locals, Active, RowsFor
  <2> HIDE DEF t
  <2>2. /\ lib' \in [Patrons -> Locals'] /\ lib'[r] = t
        /\ \A s \in Patrons : s # r => lib'[s] = lib[s]
    BY <1>1, <2>1, LocalsMove
  <2> QED
    BY <1>1, <2>1, <2>2 DEF Effect, Found, CheckoutTypeOK, Locals
<1> QED
  BY <1>2, <1>3 DEF CheckoutFind

LEMMA CheckoutSaveEffect ==
  ASSUME CheckoutTypeOK, NEW r \in Patrons, CheckoutSave(r)
  PROVE  Effect(r)
<1>1. Kind(r) = "queue" /\ lib[r].pc = "save" /\ Book(r) \in Books
  BY CheckoutAssumption, ConstantsAssumption DEF CheckoutSave, In, Book, Patrons
<1> DEFINE n == Len(shelf) + 1
           c == Row(Book(r), TRUE, FALSE)
<1>2. c \in Copies /\ c.book = Book(r) /\ c.out
  BY <1>1 DEF Copies, Row
<1>3. shelf' = Append(shelf, c) /\ Then(r, "downloads")
  BY DEF CheckoutSave
<1> HIDE DEF c
<1>4. /\ shelf' \in Seq(Copies) /\ n \notin DOMAIN shelf
      /\ DOMAIN shelf' = DOMAIN shelf \cup {n} /\ shelf'[n] = c
      /\ \A j \in DOMAIN shelf : shelf'[j] = shelf[j]
  BY <1>2, <1>3, RowAdded DEF CheckoutTypeOK
<1> HIDE DEF n
<1>5. \A b : Active(b)' = IF b = Book(r) THEN Active(b) \cup {n} ELSE Active(b)
  BY <1>2, <1>4 DEF Active, RowsFor
<1>6. RowsStay /\ \A j \in DOMAIN shelf : Marked(j)
  BY <1>4 DEF RowsStay, Marked
<1>7. /\ lib' \in [Patrons -> Locals'] /\ lib'[r].row = lib[r].row
      /\ \A s \in Patrons : s # r => lib'[s] = lib[s]
  BY <1>3, <1>6, ThenOK
<1>8. lib'[r].pc = "downloads"
  BY <1>3 DEF Then, CheckoutTypeOK
<1> QED
  BY <1>1, <1>4, <1>5, <1>6, <1>7, <1>8 DEF Effect, TakenOut, CheckoutTypeOK, Locals

LEMMA ReturnFindEffect ==
  ASSUME CheckoutTypeOK, NEW r \in Patrons, ReturnFind(r)
  PROVE  Effect(r)
<1>1. /\ Kind(r) = "remove" /\ Arrives(r, Kind(r)) /\ lib[r].pc = "new" /\ UNCHANGED shelf
      /\ RowsStay
  BY CheckoutAssumption DEF ReturnFind, Arrives, Kind, RowsStay
<1>2. ASSUME NEW i \in Active(Book(r)), Holding(r, i) PROVE Effect(r)
  <2>1. CheckoutTypeOK' /\ Holds(r, i) /\ \A s \in Patrons : s # r => lib'[s] = lib[s]
    BY <1>1, <1>2, HoldingOK DEF Active
  <2> QED
    BY <1>1, <2>1 DEF Effect, Found, Holds
<1>3. CASE Then(r, "downloads")
  <2>1. /\ lib' \in [Patrons -> Locals'] /\ lib'[r].row = lib[r].row
        /\ \A s \in Patrons : s # r => lib'[s] = lib[s]
    BY <1>1, <1>3, ThenOK
  <2>2. lib'[r].pc = "downloads"
    BY <1>3 DEF Then, CheckoutTypeOK
  <2> QED
    BY <1>1, <2>1, <2>2 DEF Effect, Found, CheckoutTypeOK, Locals
<1> QED
  BY <1>2, <1>3 DEF ReturnFind

(* Saving the held row with out as given changes the copy it is, or nothing.*)
LEMMA WriteBackOK ==
  ASSUME CheckoutTypeOK, RowsHeld, NEW r \in Patrons, lib[r].pc = "save", Kind(r) # "queue",
         NEW e \in [out : BOOLEAN, read : BOOLEAN], WriteBack(r, e)
  PROVE  /\ shelf' \in Seq(Copies) /\ RowsStay
         /\ \A j \in DOMAIN shelf : j # lib[r].row => Marked(j)
         /\ lib[r].row \in DOMAIN shelf
         /\ shelf'[lib[r].row].out = e.out
         /\ DOMAIN shelf' = DOMAIN shelf
<1> DEFINE i == lib[r].row
           c == Row(shelf[i].book, e.out, e.read)
<1>1. i \in DOMAIN shelf /\ shelf[i] \in Copies
  BY DEF RowsHeld, CheckoutTypeOK
<1>2. c \in Copies /\ c.book = shelf[i].book /\ c.out = e.out
  BY <1>1 DEF Copies, Row
<1>3. shelf' = [shelf EXCEPT ![i] = c]
  BY DEF WriteBack
<1> HIDE DEF c
<1>4. /\ shelf' \in Seq(Copies) /\ DOMAIN shelf' = DOMAIN shelf /\ shelf'[i] = c
      /\ \A j \in DOMAIN shelf : j # i => shelf'[j] = shelf[j]
  BY <1>1, <1>2, <1>3, RowWritten DEF CheckoutTypeOK
<1>5. RowsStay
  BY <1>2, <1>4 DEF RowsStay
<1> QED
  BY <1>1, <1>2, <1>4, <1>5 DEF Marked

LEMMA ReturnSaveEffect ==
  ASSUME CheckoutTypeOK, RowsHeld, NEW r \in Patrons, ReturnSave(r)
  PROVE  Effect(r)
<1> DEFINE e == [lib[r].copy EXCEPT !.out = FALSE, !.read = TRUE]
<1>1. Kind(r) = "remove" /\ lib[r].pc = "save" /\ WriteBack(r, e) /\ Then(r, "downloads")
  BY DEF ReturnSave, In
<1>2. e \in [out : BOOLEAN, read : BOOLEAN] /\ e.out = FALSE
  BY DEF CheckoutTypeOK
<1> HIDE DEF e
<1>3. /\ shelf' \in Seq(Copies) /\ RowsStay
      /\ \A j \in DOMAIN shelf : j # lib[r].row => Marked(j)
      /\ lib[r].row \in DOMAIN shelf /\ ~shelf'[lib[r].row].out /\ DOMAIN shelf' = DOMAIN shelf
  BY <1>1, <1>2, WriteBackOK
<1>4. \A b : Active(b)' = Active(b) \ {lib[r].row}
  BY <1>3 DEF Active, RowsFor, RowsStay, Marked
<1>5. /\ lib' \in [Patrons -> Locals']
      /\ \A s \in Patrons : s # r => lib'[s] = lib[s]
  BY <1>1, <1>3, ThenOK
<1>6. lib'[r].pc = "downloads"
  BY <1>1 DEF Then, CheckoutTypeOK
<1> QED
  BY <1>1, <1>3, <1>4, <1>5, <1>6 DEF Effect, GivenBack, CheckoutTypeOK, Locals

LEMMA ReadFindEffect ==
  ASSUME CheckoutTypeOK, NEW r \in Patrons, ReadFind(r) \/ ReadLatest(r)
  PROVE  Effect(r)
<1>1. /\ Kind(r) = "read" /\ UNCHANGED shelf /\ RowsStay
      /\ \/ lib[r].pc = "new" /\ Arrives(r, Kind(r))
         \/ lib[r].pc = "latest"
  BY CheckoutAssumption, ConstantsAssumption
     DEF ReadFind, ReadLatest, In, Arrives, Kind, RowsStay, Ops
<1>2. PICK S \in {Active(Book(r)), RowsFor(Book(r))} :
         \/ S # {} /\ Holding(r, Latest(S))
         \/ Then(r, "latest") \/ Then(r, "create")
  BY DEF ReadFind, ReadLatest
<1>3. CASE S # {} /\ Holding(r, Latest(S))
  <2>1. S \subseteq RowsFor(Book(r)) /\ S \subseteq DOMAIN shelf
    BY DEF Active, RowsFor
  <2>2. PICK i \in RowsFor(Book(r)) : i = Latest(S)
    BY <1>3, <2>1, LatestIsOne DEF CheckoutTypeOK
  <2>3. CheckoutTypeOK' /\ Holds(r, i) /\ \A s \in Patrons : s # r => lib'[s] = lib[s]
    BY <1>1, <1>3, <2>2, HoldingOK
  <2> QED
    BY <1>1, <2>3 DEF Effect, Found, Holds
<1>4. CASE Then(r, "latest") \/ Then(r, "create")
  <2>1. /\ lib' \in [Patrons -> Locals'] /\ lib'[r].row = lib[r].row
        /\ \A s \in Patrons : s # r => lib'[s] = lib[s]
    BY <1>1, <1>4, ThenOK
  <2>2. lib'[r].pc \in {"latest", "create"}
    BY <1>4 DEF Then, CheckoutTypeOK
  <2> QED
    BY <1>1, <2>1, <2>2 DEF Effect, Found, CheckoutTypeOK, Locals
<1> QED
  BY <1>2, <1>3, <1>4

LEMMA ReadSaveEffect ==
  ASSUME CheckoutTypeOK, RowsHeld, NEW r \in Patrons, ReadSave(r)
  PROVE  Effect(r)
<1> DEFINE e == [lib[r].copy EXCEPT !.read = TRUE]
<1>1. Kind(r) = "read" /\ lib[r].pc = "save" /\ WriteBack(r, e) /\ Then(r, "done")
  BY DEF ReadSave, In
<1>2. e \in [out : BOOLEAN, read : BOOLEAN] /\ e.out = shelf[lib[r].row].out
  BY <1>1 DEF CheckoutTypeOK, RowsHeld
<1> HIDE DEF e
<1>3. /\ shelf' \in Seq(Copies) /\ RowsStay
      /\ \A j \in DOMAIN shelf : j # lib[r].row => Marked(j)
      /\ lib[r].row \in DOMAIN shelf /\ Marked(lib[r].row) /\ DOMAIN shelf' = DOMAIN shelf
  BY <1>1, <1>2, WriteBackOK DEF Marked
<1>4. Untouched
  BY <1>3 DEF Active, RowsFor, RowsStay, Marked, Untouched
<1>5. /\ lib' \in [Patrons -> Locals']
      /\ \A s \in Patrons : s # r => lib'[s] = lib[s]
  BY <1>1, <1>3, ThenOK
<1>6. lib'[r].pc = "done"
  BY <1>1 DEF Then, CheckoutTypeOK
<1> QED
  BY <1>1, <1>3, <1>4, <1>5, <1>6 DEF Effect, CheckoutTypeOK, Locals

LEMMA ReadCreateEffect ==
  ASSUME CheckoutTypeOK, NEW r \in Patrons, ReadCreate(r)
  PROVE  Effect(r)
<1>1. Kind(r) = "read" /\ lib[r].pc = "create" /\ Book(r) \in Books
  BY CheckoutAssumption, ConstantsAssumption DEF ReadCreate, In, Book, Patrons
<1> DEFINE n == Len(shelf) + 1
           c == Row(Book(r), FALSE, TRUE)
<1>2. c \in Copies /\ c.book = Book(r) /\ ~c.out
  BY <1>1 DEF Copies, Row
<1>3. shelf' = Append(shelf, c) /\ Then(r, "done")
  BY DEF ReadCreate
<1> HIDE DEF c
<1>4. /\ shelf' \in Seq(Copies) /\ n \notin DOMAIN shelf
      /\ DOMAIN shelf' = DOMAIN shelf \cup {n} /\ shelf'[n] = c
      /\ \A j \in DOMAIN shelf : shelf'[j] = shelf[j]
  BY <1>2, <1>3, RowAdded DEF CheckoutTypeOK
<1> HIDE DEF n
<1>5. Untouched /\ RowsStay
  BY <1>2, <1>4 DEF Active, RowsFor, RowsStay, Marked, Untouched
<1>6. /\ lib' \in [Patrons -> Locals']
      /\ \A s \in Patrons : s # r => lib'[s] = lib[s]
  BY <1>3, <1>5, ThenOK
<1>7. lib'[r].pc = "done"
  BY <1>3 DEF Then, CheckoutTypeOK
<1> QED
  BY <1>1, <1>4, <1>5, <1>6, <1>7 DEF Effect, CheckoutTypeOK, Locals

LEMMA UnreadEffect ==
  ASSUME CheckoutTypeOK, NEW r \in Patrons, Unread(r)
  PROVE  Effect(r)
<1>1. lib[r].pc = "new" /\ Then(r, "done")
  BY DEF Unread, Arrives
<1>2. /\ shelf' \in Seq(Copies) /\ DOMAIN shelf' = DOMAIN shelf
      /\ \A j \in DOMAIN shelf : shelf'[j].book = shelf[j].book /\ shelf'[j].out = shelf[j].out
  BY RowsUnmarked DEF Unread, CheckoutTypeOK
<1>3. Untouched /\ RowsStay
  BY <1>2 DEF Active, RowsFor, RowsStay, Marked, Untouched
<1>4. /\ lib' \in [Patrons -> Locals']
      /\ \A s \in Patrons : s # r => lib'[s] = lib[s]
  BY <1>1, <1>3, ThenOK
<1>5. lib'[r].pc = "done"
  BY <1>1 DEF Then, CheckoutTypeOK
<1> QED
  BY <1>1, <1>2, <1>3, <1>4, <1>5 DEF Effect, CheckoutTypeOK, Locals

LEMMA LibraryEffect ==
  ASSUME CheckoutTypeOK, RowsHeld, NEW r \in Patrons, LibraryStep(r)
  PROVE  Effect(r)
BY CheckoutFindEffect, CheckoutSaveEffect, ReturnFindEffect, ReturnSaveEffect, ReadFindEffect,
   ReadSaveEffect, ReadCreateEffect, UnreadEffect DEF LibraryStep

-----------------------------------------------------------------------------
(* One copy                                                                 *)

(* Requests about one book that are under way may overlap.                  *)
Apart ==
  \A r, s \in Patrons :
    r # s /\ Book(r) = Book(s) /\ UnderWay(r) /\ UnderWay(s) => {Kind(r), Kind(s)} \in Together

OnlyOne == \A b \in Books : \A i, j \in Active(b) : i = j

LInv == CheckoutTypeOK /\ Apart /\ RowsHeld /\ OnlyOne

(* Two checkouts of a book, or a return of it and a mark, do not overlap.   *)
WritesApart == {"queue"} \notin Together /\ {"remove", "read"} \notin Together

LEMMA ApartKept ==
  ASSUME CheckoutTypeOK, Apart, NEW r \in Patrons, Effect(r), UNCHANGED vars
  PROVE  Apart'
<1>1. UNCHANGED req /\ \A s \in Patrons : s # r => lib'[s] = lib[s]
  BY DEF vars, Effect
<1>2. \A s \in Patrons : s # r => (UnderWay(s)' <=> UnderWay(s))
  BY <1>1 DEF UnderWay
<1>3. UnderWay(r)' => UnderWay(r) \/ Arrives(r, Kind(r))
  BY DEF Effect, UnderWay
<1>4. \A s \in Patrons : s # r /\ Book(r) = Book(s) /\ UnderWay(r)' /\ UnderWay(s)
        => {Kind(r), Kind(s)} \in Together
  <2> TAKE s \in Patrons
  <2> HAVE s # r /\ Book(r) = Book(s) /\ UnderWay(r)' /\ UnderWay(s)
  <2>1. CASE UnderWay(r)
    BY <2>1 DEF Apart
  <2>2. CASE Arrives(r, Kind(r))
    <3>1. {Kind(s), Kind(r)} \in Together
      BY <2>2 DEF Arrives
    <3>2. {Kind(s), Kind(r)} = {Kind(r), Kind(s)}
      OBVIOUS
    <3> QED
      BY <3>1, <3>2
  <2> QED
    BY <1>3, <2>1, <2>2
<1>5. ASSUME NEW p \in Patrons, NEW q \in Patrons,
             p # q, Book(p) = Book(q), UnderWay(p)', UnderWay(q)'
      PROVE  {Kind(p), Kind(q)} \in Together
  <2>1. CASE p # r /\ q # r
    BY <1>2, <1>5, <2>1 DEF Apart
  <2>2. CASE p = r
    BY <1>2, <1>4, <1>5, <2>2
  <2>3. CASE q = r
    <3>1. {Kind(q), Kind(p)} \in Together
      BY <1>2, <1>4, <1>5, <2>3
    <3>2. {Kind(q), Kind(p)} = {Kind(p), Kind(q)}
      OBVIOUS
    <3> QED
      BY <3>1, <3>2
  <2> QED
    BY <2>1, <2>2, <2>3
<1>6. \A p \in Patrons : (Kind(p)' = Kind(p)) /\ (Book(p)' = Book(p))
  BY DEF Kind, Book
<1> QED
  BY <1>5, <1>6 DEF Apart

LEMMA HeldKept ==
  ASSUME WritesApart, LInv, NEW r \in Patrons, Effect(r), UNCHANGED vars
  PROVE  RowsHeld'
<1> SUFFICES ASSUME NEW s \in Patrons, lib'[s].pc = "save"
             PROVE  /\ Kind(s) = "queue" => Active(Book(s))' = {}
                    /\ Kind(s) # "queue" => /\ lib'[s].row \in DOMAIN shelf'
                                            /\ shelf'[lib'[s].row].book = Book(s)
                    /\ Kind(s) = "read" => lib'[s].copy.out = shelf'[lib'[s].row].out
  BY DEF RowsHeld, Kind, Book
<1>1. CASE s = r
  <2>1. UNCHANGED shelf /\ Found(r)
    BY <1>1 DEF Effect, TakenOut, GivenBack
  <2>2. Active(Book(r))' = Active(Book(r))
    BY <2>1 DEF Active, RowsFor
  <2> QED
    BY <1>1, <2>1, <2>2 DEF Found, Holds
<1>2. CASE s # r
  <2>1. lib'[s] = lib[s] /\ RowsStay /\ UnderWay(s)
    BY <1>2 DEF Effect, UnderWay
  <2>2. Kind(s) # "queue" => /\ lib[s].row \in DOMAIN shelf
                             /\ lib'[s].row \in DOMAIN shelf'
                             /\ shelf[lib'[s].row].book = Book(s)
                             /\ shelf'[lib'[s].row].book = Book(s)
    BY <2>1 DEF LInv, RowsHeld, RowsStay
  <2>3. Kind(s) = "read" => lib[s].copy.out = shelf[lib[s].row].out
    BY <2>1 DEF LInv, RowsHeld
  <2>4. Kind(s) = "queue" => Active(Book(s)) = {}
    BY <2>1 DEF LInv, RowsHeld
  <2>5. CASE UNCHANGED shelf \/ Untouched
    BY <2>1, <2>2, <2>3, <2>4, <2>5 DEF Untouched, Marked, Active, RowsFor
  <2>6. CASE TakenOut(r)
    <3>1. UnderWay(r) /\ Kind(r) = "queue"
      BY <2>6 DEF TakenOut, UnderWay
    <3>2. Kind(s) = "queue" => Book(s) # Book(r)
      <4> SUFFICES ASSUME Kind(s) = "queue", Book(s) = Book(r) PROVE FALSE
        OBVIOUS
      <4>1. {Kind(r), Kind(s)} \in Together /\ {Kind(r), Kind(s)} = {"queue"}
        BY <1>2, <2>1, <3>1 DEF LInv, Apart
      <4> QED
        BY <4>1 DEF WritesApart
    <3> QED
      BY <2>1, <2>2, <2>3, <2>4, <2>6, <3>2 DEF TakenOut, Marked
  <2>7. CASE GivenBack(r)
    <3>1. UnderWay(r) /\ Kind(r) = "remove" /\ shelf[lib[r].row].book = Book(r)
      BY <2>7 DEF GivenBack, UnderWay, LInv, RowsHeld
    <3>2. Kind(s) = "read" => Book(s) # Book(r)
      <4> SUFFICES ASSUME Kind(s) = "read", Book(s) = Book(r) PROVE FALSE
        OBVIOUS
      <4>1. {Kind(r), Kind(s)} \in Together /\ {Kind(r), Kind(s)} = {"remove", "read"}
        BY <1>2, <2>1, <3>1 DEF LInv, Apart
      <4> QED
        BY <4>1 DEF WritesApart
    <3>3. Kind(s) = "read" => lib[s].row # lib[r].row
      BY <2>1, <2>2, <3>1, <3>2
    <3> QED
      BY <2>1, <2>2, <2>3, <2>4, <2>7, <3>3 DEF GivenBack, Marked
  <2> QED
    BY <2>5, <2>6, <2>7 DEF Effect
<1> QED
  BY <1>1, <1>2

LEMMA OnlyOneKept ==
  ASSUME LInv, NEW r \in Patrons, Effect(r)
  PROVE  OnlyOne'
<1>1. CASE UNCHANGED shelf \/ Untouched \/ GivenBack(r)
  <2>1. \A b : Active(b)' \subseteq Active(b)
    BY <1>1 DEF Untouched, GivenBack, Active, RowsFor
  <2> QED
    BY <2>1 DEF LInv, OnlyOne
<1>2. CASE TakenOut(r)
  <2>1. Active(Book(r)) = {}
    BY <1>2 DEF TakenOut, LInv, RowsHeld
  <2>2. PICK n : \A b : Active(b)' = IF b = Book(r) THEN Active(b) \cup {n} ELSE Active(b)
    BY <1>2 DEF TakenOut
  <2>3. ASSUME NEW b \in Books, NEW i \in Active(b)', NEW j \in Active(b)' PROVE i = j
    <3>1. CASE b = Book(r)
      BY <2>1, <2>2, <2>3, <3>1
    <3>2. CASE b # Book(r)
      BY <2>2, <2>3, <3>2 DEF LInv, OnlyOne
    <3> QED
      BY <3>1, <3>2
  <2> QED
    BY <2>3 DEF OnlyOne
<1> QED
  BY <1>1, <1>2 DEF Effect

(* Steps of the downloads, which leave both tables of the library alone.    *)
LEMMA LibraryAside ==
  ASSUME LInv, UNCHANGED <<shelf, lib>>,
         \A r \in Reqs : req[r].pc = "done" => req'[r].pc = "done"
  PROVE  LInv'
<1>1. \A r \in Patrons : UnderWay(r)' => UnderWay(r)
  BY DEF UnderWay
<1>2. \A r \in Patrons : (Kind(r)' = Kind(r)) /\ (Book(r)' = Book(r))
  BY DEF Kind, Book
<1>3. Apart'
  BY <1>1, <1>2 DEF LInv, Apart
<1>4. CheckoutTypeOK' /\ RowsHeld' /\ OnlyOne'
  BY DEF LInv, CheckoutTypeOK, RowsHeld, OnlyOne, Active, RowsFor, Kind, Book
<1> QED
  BY <1>3, <1>4 DEF LInv

(* The requests that a restart cuts off write nothing more.                 *)
LEMMA LibraryRestart ==
  ASSUME LInv, IInv, Restart
  PROVE  LInv'
<1>1. /\ UNCHANGED shelf
      /\ \A r \in Patrons : lib'[r] = IF UnderWay(r) THEN [Nothing EXCEPT !.pc = "lost"] ELSE lib[r]
      /\ \A r \in Reqs : req[r].pc = "done" => req'[r].pc = "done"
  BY DoneStays, CheckoutStep DEF Restart, CheckoutNext, Next
<1>2. \A r \in Patrons : ~UnderWay(r)' /\ lib'[r].pc # "save"
  BY <1>1 DEF UnderWay, Nothing
<1>3. Apart' /\ RowsHeld'
  BY <1>2 DEF Apart, RowsHeld
<1>4. OnlyOne'
  BY <1>1 DEF LInv, OnlyOne, Active, RowsFor
<1>5. [Nothing EXCEPT !.pc = "lost"] \in Locals
  BY DEF Nothing, Unmarked, Locals
<1>6. lib' \in [Patrons -> Locals]
  BY <1>1, <1>5 DEF LInv, CheckoutTypeOK, Locals, Restart
<1>7. CheckoutTypeOK'
  BY <1>1, <1>6 DEF LInv, CheckoutTypeOK, Locals
<1> QED
  BY <1>3, <1>4, <1>7 DEF LInv

LEMMA LibraryStepOK ==
  ASSUME WritesApart, LInv, IInv, [CheckoutNext]_all
  PROVE  LInv'
<1>0. [Next]_vars
  BY CheckoutStep
<1>1. ASSUME NEW r \in Patrons, LibraryStep(r) PROVE LInv'
  <2>1. Effect(r) /\ UNCHANGED vars
    BY <1>1, LibraryEffect, LibraryStepsStutter DEF LInv
  <2> QED
    BY <2>1, ApartKept, HeldKept, OnlyOneKept DEF LInv, Effect
<1>2. CASE UNCHANGED <<shelf, lib>>
  BY <1>0, <1>2, LibraryAside, DoneStays
<1>3. CASE Restart
  BY <1>3, LibraryRestart
<1> QED
  BY <1>1, <1>2, <1>3 DEF CheckoutNext, DownloadStep, all

LEMMA LibraryInit == CheckoutInit => LInv
<1> SUFFICES ASSUME CheckoutInit PROVE LInv
  OBVIOUS
<1>1. shelf = <<>> /\ lib = [r \in Patrons |-> Nothing]
  BY DEF CheckoutInit
<1>2. CheckoutTypeOK
  BY <1>1 DEF CheckoutTypeOK, Nothing, Unmarked
<1>3. \A r \in Patrons : ~UnderWay(r) /\ lib[r].pc # "save"
  BY <1>1 DEF UnderWay, Nothing
<1>4. OnlyOne
  BY <1>1 DEF OnlyOne, Active, RowsFor
<1> QED
  BY <1>2, <1>3, <1>4 DEF LInv, Apart, RowsHeld

LEMMA LibraryInvariance == WritesApart /\ CheckoutSpec => [](LInv /\ IInv)
<1> SUFFICES ASSUME WritesApart PROVE CheckoutSpec => [](LInv /\ IInv)
  OBVIOUS
<1>1. CheckoutInit => LInv /\ IInv
  BY LibraryInit, InitOK DEF CheckoutInit
<1>2. LInv /\ IInv /\ [CheckoutNext]_all => (LInv /\ IInv)'
  BY LibraryStepOK, NextOK, CheckoutStep
<1> QED
  BY <1>1, <1>2, PTL DEF CheckoutSpec

(* A user holds at most one copy of a book, if two checkouts of it do not   *)
(* overlap, nor a return and a mark: checkout looks for a copy that is out  *)
(* before it saves one, and a mark writes back what it found.  All else     *)
(* overlaps, the downloads and restarts included.                           *)
THEOREM OneCopyOutAlways == WritesApart /\ CheckoutSpec => []OneCopyOut
<1>1. ASSUME LInv PROVE OneCopyOut
  <2>1. ASSUME NEW b \in Books PROVE Cardinality(Active(b)) <= 1
    <3>1. CASE Active(b) = {}
      BY <3>1, FS_EmptySet
    <3>2. CASE Active(b) # {}
      <4> PICK i \in Active(b) : TRUE
        BY <3>2
      <4>1. Active(b) = {i}
        BY <1>1, <2>1 DEF LInv, OnlyOne
      <4> QED
        BY <4>1, FS_Singleton
    <3> QED
      BY <3>1, <3>2
  <2> QED
    BY <1>1, <2>1 DEF OneCopyOut, LInv
<1> QED
  BY <1>1, LibraryInvariance, PTL

-----------------------------------------------------------------------------
(* Downloads only while out                                                 *)

(* A request whose row is not saved has not begun with the downloads.       *)
Handed ==
  \A r \in Reqs \cap Patrons : lib[r].pc \notin {"downloads", "lost"} => req[r].pc = "new"

(* While a checkout queues downloads, its book is out.                      *)
OutMeanwhile ==
  \A r \in Reqs \cap Patrons :
    Kind(r) = "queue" /\ lib[r].pc = "downloads" /\ req[r].pc # "done" => Active(Book(r)) # {}

(* A return that has not deleted the rows yet; a request cut off by a       *)
(* restart.                                                                 *)
Returning(b) ==
  \E r \in Reqs \cap Patrons :
    Op[r] = "remove" /\ Book(r) = b /\ lib[r].pc = "downloads" /\ req[r].pc \in {"new", "delete"}
CutOff(b) == \E r \in Patrons : Book(r) = b /\ lib[r].pc = "lost"

Covered ==
  \A b \in Books : RowsOf(b) # {} => Active(b) # {} \/ Returning(b) \/ CutOff(b)

CInv == SavesItsOwn /\ Owns /\ Handed /\ OutMeanwhile /\ Covered

(* Moreover a checkout and a return do not overlap, and database calls      *)
(* answer.                                                                  *)
ReturnsApart == WritesApart /\ {"queue", "remove"} \notin Together /\ ~DbErrors

(* A copy stops being out by a return alone, which goes on to the downloads.*)
LEMMA OutUntilReturned ==
  ASSUME LInv, NEW r \in Patrons, Effect(r), NEW b, Active(b) # {}, Active(b)' = {}
  PROVE  GivenBack(r) /\ b = Book(r)
<1>1. GivenBack(r)
  <2>1. UNCHANGED shelf => Active(b)' = Active(b)
    BY DEF Active, RowsFor
  <2> QED
    BY <2>1 DEF Effect, Untouched, TakenOut
<1>2. shelf[lib[r].row].book = Book(r) /\ Active(b)' = Active(b) \ {lib[r].row}
  BY <1>1 DEF GivenBack, LInv, RowsHeld
<1> QED
  BY <1>1, <1>2 DEF Active, RowsFor

LEMMA CoveredLibrary ==
  ASSUME ReturnsApart, LInv, IInv, CInv, NEW r \in Patrons, Effect(r), UNCHANGED vars
  PROVE  CInv'
<1>1. UNCHANGED <<req, rows>> /\ \A s \in Patrons : s # r => lib'[s] = lib[s]
  BY DEF vars, disk, Effect
<1>2. \A s \in Patrons : (Kind(s)' = Kind(s)) /\ (Book(s)' = Book(s))
  BY DEF Kind, Book
<1>3. r \in Reqs => req[r].pc = "new"
  BY DEF CInv, Handed, Effect
<1>4. Handed'
  BY <1>1, <1>3 DEF CInv, Handed
<1>5. ASSUME NEW s \in Reqs \cap Patrons,
             Kind(s) = "queue", lib'[s].pc = "downloads", req[s].pc # "done"
      PROVE  Active(Book(s))' # {}
  <2>1. CASE s = r
    <3>1. CASE UNCHANGED shelf /\ Found(r)
      BY <1>5, <2>1, <3>1 DEF Found, Active, RowsFor
    <3>2. CASE TakenOut(r)
      <4> PICK n : \A b : Active(b)' = IF b = Book(r) THEN Active(b) \cup {n} ELSE Active(b)
        BY <3>2 DEF TakenOut
      <4> QED
        BY <2>1
    <3> QED
      BY <1>5, <2>1, <3>1, <3>2 DEF Effect, GivenBack
  <2>2. CASE s # r
    <3>1. Active(Book(s)) # {} /\ UnderWay(s)
      BY <1>1, <1>5, <2>2 DEF CInv, OutMeanwhile, UnderWay
    <3>2. SUFFICES ASSUME Active(Book(s))' = {} PROVE FALSE
      OBVIOUS
    <3>3. GivenBack(r) /\ Book(s) = Book(r)
      BY <3>1, <3>2, OutUntilReturned
    <3>4. UnderWay(r) /\ Kind(r) = "remove"
      BY <3>3 DEF GivenBack, UnderWay
    <3>5. {Kind(s), Kind(r)} \in Together /\ {Kind(s), Kind(r)} = {"queue", "remove"}
      BY <1>5, <2>2, <3>1, <3>3, <3>4 DEF LInv, Apart
    <3> QED
      BY <3>5 DEF ReturnsApart
  <2> QED
    BY <2>1, <2>2
<1>6. OutMeanwhile'
  BY <1>1, <1>2, <1>5 DEF OutMeanwhile
<1>7. ASSUME NEW b \in Books, RowsOf(b) # {}
      PROVE  Active(b)' # {} \/ Returning(b)' \/ CutOff(b)'
  <2>1. CASE Active(b) # {}
    <3>1. SUFFICES ASSUME Active(b)' = {} PROVE Returning(b)'
      OBVIOUS
    <3>2. GivenBack(r) /\ b = Book(r)
      BY <2>1, <3>1, OutUntilReturned
    <3>3. r \in Reqs /\ Op[r] = "remove"
      BY <3>2, KindOfReader DEF GivenBack, Kind
    <3> QED
      BY <1>1, <1>2, <1>3, <3>2, <3>3 DEF GivenBack, Returning
  <2>2. CASE Returning(b)
    <3> PICK q \in Reqs \cap Patrons : /\ Op[q] = "remove" /\ Book(q) = b /\ lib[q].pc = "downloads"
                                      /\ req[q].pc \in {"new", "delete"}
      BY <2>2 DEF Returning
    <3>1. q # r
      BY DEF Effect
    <3> QED
      BY <1>1, <1>2, <3>1 DEF Returning
  <2>3. CASE CutOff(b)
    <3> PICK q \in Patrons : Book(q) = b /\ lib[q].pc = "lost"
      BY <2>3 DEF CutOff
    <3>1. q # r
      BY DEF Effect
    <3> QED
      BY <1>1, <1>2, <3>1 DEF CutOff
  <2> QED
    BY <1>7, <2>1, <2>2, <2>3 DEF CInv, Covered
<1>8. Covered'
  BY <1>1, <1>7 DEF Covered, RowsOf, Exists
<1>9. SavesItsOwn' /\ Owns'
  BY <1>1 DEF CInv, SavesItsOwn, Owns
<1> QED
  BY <1>4, <1>6, <1>8, <1>9 DEF CInv

(* All steps of the cache but the crash.                                    *)
Ordinary ==
  \/ \E r \in Reqs : Begin(r) \/ Continue(r)
  \/ \E w \in Loops : LoopStep(w)
  \/ BootFind \/ Resume \/ Destroy \/ UNCHANGED vars

(* A return that goes on deletes every row of its book.                     *)
LEMMA ReturnGoesOn ==
  ASSUME IInv, ~DbErrors, Ordinary, NEW q \in Reqs, Op[q] = "remove",
         req[q].pc \in {"new", "delete"}
  PROVE  req'[q].pc \in {"new", "delete"} \/ RowsOf(Target[q])' = {}
<1>0. req \in [Reqs -> Calls]
  BY DEF IInv, RestOK
<1>1. CASE RemoveFind(q)
  BY <1>0, <1>1 DEF RemoveFind
<1>2. CASE RemoveDelete(q)
  BY <1>2 DEF RemoveDelete, DeleteRows, RowsOf, Exists, NoRow
<1>3. ASSUME NEW r \in Reqs, Begin(r) \/ Continue(r), r # q
      PROVE  req'[q] = req[q]
  BY <1>0, <1>3, OwnRequestOnly
<1>4. CASE Begin(q) \/ Continue(q)
  BY <1>1, <1>2, <1>4
     DEF Begin, Continue, QueueFiles, QueueFind, QueueSave, QueueUpdate, QueueRemoveFile,
         QueueRemovePart, RemoveFile, RemovePart, ClearStart, ClearDelete, ClearFiles,
         ClearDone, ServeFind, ServeAccess, ServeMissing, CallFails, Started, At
<1>5. CASE UNCHANGED req
  BY <1>5
<1> QED
  BY <1>3, <1>4, <1>5, LoopLeavesRequests DEF Ordinary, BootFind, Resume, Destroy, vars

LEMMA CoveredDownloads ==
  ASSUME ReturnsApart, LInv, IInv, CInv, Ordinary, UNCHANGED <<shelf, lib>>,
         \A r \in Reqs \cap Patrons :
           lib[r].pc \notin {"downloads", "lost"} => req'[r] = req[r]
  PROVE  CInv'
<1>0. [Next]_vars
  BY DEF Ordinary, Next
<1>1. /\ \A s \in Patrons : (Kind(s)' = Kind(s)) /\ (Book(s)' = Book(s))
      /\ \A b : Active(b)' = Active(b)
      /\ \A r \in Reqs : req[r].pc = "done" => req'[r].pc = "done"
  BY <1>0, DoneStays DEF Kind, Book, Active, RowsFor
<1>2. Handed' /\ OutMeanwhile'
  BY <1>1 DEF CInv, Handed, OutMeanwhile
<1>3. ASSUME NEW b \in Books, RowsOf(b)' # {}
      PROVE  Active(b) # {} \/ Returning(b)' \/ CutOff(b)'
  <2>1. CASE RowsOf(b) # {}
    <3>1. ASSUME NEW q \in Reqs \cap Patrons, Op[q] = "remove", Book(q) = b,
                 lib[q].pc = "downloads", req[q].pc \in {"new", "delete"}
          PROVE  Returning(b)'
      <4>1. Target[q] = b
        BY <3>1 DEF Book
      <4>2. req'[q].pc \in {"new", "delete"}
        BY <1>3, <3>1, <4>1, ReturnGoesOn DEF ReturnsApart
      <4> QED
        BY <1>1, <3>1, <4>2 DEF Returning
    <3>2. CutOff(b) => CutOff(b)'
      BY <1>1 DEF CutOff
    <3> QED
      BY <2>1, <3>1, <3>2 DEF CInv, Covered, Returning
  <2>2. CASE RowsOf(b) = {}
    <3> PICK id \in Ids : Exists(id)' /\ BookOf[FileOf(id)] = b
      BY <1>3 DEF RowsOf
    <3>1. ~Exists(id)
      BY <2>2 DEF RowsOf
    <3> DEFINE r == id[1]
    <3>2. r \in Reqs /\ Op[r] = "queue" /\ req[r].pc = "save" /\ req[r].id = id
      BY <1>0, <3>1, RowsAppear DEF Ids, CInv
    <3>3. r \in Reqs \cap Patrons /\ Kind(r) = "queue" /\ Book(r) = b
      BY <3>2 DEF Patrons, Kind, Book, CInv, Owns
    <3> HIDE DEF r
    <3>4. lib[r].pc \in {"downloads", "lost"}
      BY <3>2, <3>3 DEF CInv, Handed
    <3>5. lib[r].pc = "lost" => CutOff(b)'
      BY <1>1, <3>3 DEF CutOff
    <3>6. lib[r].pc = "downloads" => Active(b) # {}
      BY <3>2, <3>3 DEF CInv, OutMeanwhile
    <3> QED
      BY <3>4, <3>5, <3>6
  <2> QED
    BY <2>1, <2>2
<1>4. Covered'
  BY <1>1, <1>3 DEF Covered
<1>5. SavesItsOwn' /\ Owns'
  BY <1>0, OwnStep, OwnsStep DEF CInv
<1> QED
  BY <1>2, <1>4, <1>5 DEF CInv

LEMMA CoveredRestart ==
  ASSUME LInv, IInv, CInv, Restart
  PROVE  CInv'
<1>1. /\ UNCHANGED <<shelf, rows>>
      /\ \A r \in Patrons : lib'[r] = IF UnderWay(r) THEN [Nothing EXCEPT !.pc = "lost"] ELSE lib[r]
      /\ \A r \in Reqs : req'[r] = IF req[r].pc = "new" THEN req[r] ELSE [NoCall EXCEPT !.pc = "done"]
      /\ [Next]_vars
  BY DEF Restart, Crash, disk, Next
<1>2. /\ \A s \in Patrons : (Kind(s)' = Kind(s)) /\ (Book(s)' = Book(s))
      /\ \A b : Active(b)' = Active(b)
  BY <1>1 DEF Kind, Book, Active, RowsFor
<1>3. \A r \in Patrons : UnderWay(r) => lib'[r].pc = "lost"
  BY <1>1 DEF Nothing
<1>4. \A r \in Patrons : lib'[r].pc # "lost" => ~UnderWay(r) /\ lib'[r] = lib[r]
  BY <1>1, <1>3
<1>5. Handed'
  BY <1>1, <1>4 DEF CInv, Handed
<1>9. OutMeanwhile'
  <2>1. \A r \in Reqs : req[r].pc = "done" => req'[r].pc = "done"
    BY <1>1 DEF NoCall
  <2>2. \A r \in Reqs \cap Patrons : lib'[r].pc = "downloads" => req'[r].pc = "done"
    BY <1>4, <2>1 DEF UnderWay
  <2> QED
    BY <2>2 DEF OutMeanwhile
<1>6. ASSUME NEW b \in Books, RowsOf(b) # {}
      PROVE  Active(b) # {} \/ CutOff(b)'
  <2>1. Returning(b) => CutOff(b)'
    BY <1>2, <1>3 DEF Returning, CutOff, UnderWay
  <2>2. CutOff(b) => CutOff(b)'
    BY <1>1, <1>2, <1>3 DEF CutOff
  <2> QED
    BY <1>6, <2>1, <2>2 DEF CInv, Covered
<1>7. Covered'
  BY <1>1, <1>2, <1>6 DEF Covered, RowsOf, Exists
<1>8. SavesItsOwn' /\ Owns'
  BY <1>1, OwnStep, OwnsStep DEF CInv
<1> QED
  BY <1>5, <1>7, <1>8, <1>9 DEF CInv

LEMMA CoveredStep ==
  ASSUME ReturnsApart, LInv, IInv, CInv, [CheckoutNext]_all
  PROVE  CInv'
<1>0. [Next]_vars /\ req \in [Reqs -> Calls]
  BY CheckoutStep DEF IInv, RestOK
<1>1. ASSUME NEW r \in Patrons, LibraryStep(r) PROVE CInv'
  <2>1. Effect(r) /\ UNCHANGED vars
    BY <1>1, LibraryEffect, LibraryStepsStutter DEF LInv
  <2> QED
    BY <2>1, CoveredLibrary
<1>2. CASE Restart
  BY <1>2, CoveredRestart
<1>3. ASSUME NEW r \in Reqs, DownloadStep(r) PROVE CInv'
  <2>1. \A q \in Reqs \cap Patrons : lib[q].pc \notin {"downloads", "lost"} => req'[q] = req[q]
    BY <1>0, <1>3, OwnRequestOnly DEF DownloadStep
  <2>2. Ordinary /\ UNCHANGED <<shelf, lib>>
    BY <1>3 DEF DownloadStep, Ordinary
  <2> QED
    BY <2>1, <2>2, CoveredDownloads
<1>4. CASE Ordinary /\ UNCHANGED <<shelf, lib, req>>
  BY <1>4, CoveredDownloads
<1>5. CASE (\E w \in Loops : LoopStep(w)) /\ UNCHANGED <<shelf, lib>>
  BY <1>4, <1>5, LoopLeavesRequests DEF Ordinary
<1>6. CASE (BootFind \/ Resume \/ Destroy) /\ UNCHANGED <<shelf, lib>>
  BY <1>4, <1>6 DEF Ordinary, BootFind, Resume, Destroy
<1>7. CASE UNCHANGED all
  BY <1>4, <1>7 DEF Ordinary, all, vars
<1> QED
  BY <1>1, <1>2, <1>3, <1>5, <1>6, <1>7 DEF CheckoutNext

LEMMA CoveredInit == CheckoutInit => CInv
<1> SUFFICES ASSUME CheckoutInit PROVE CInv
  OBVIOUS
<1>1. /\ \A r \in Reqs : req[r] = NoCall
      /\ \A r \in Patrons : lib[r].pc = "new"
      /\ \A id \in Ids : ~Exists(id)
  BY DEF CheckoutInit, Init, Nothing, Exists, NoRow
<1>2. SavesItsOwn /\ Owns /\ Handed /\ OutMeanwhile
  BY <1>1 DEF SavesItsOwn, Owns, Handed, OutMeanwhile, NoCall
<1>3. Covered
  BY <1>1 DEF Covered, RowsOf
<1> QED
  BY <1>2, <1>3 DEF CInv

(* Once nothing about a book is under way, it has downloads only if it is   *)
(* checked out, if moreover a checkout and a return of it do not overlap    *)
(* and database calls answer: a return meets the loop, resumed downloads,   *)
(* marks and other returns at any step, and leaves no row behind.           *)
THEOREM CachedOnlyWhileOutAlways == ReturnsApart /\ CheckoutSpec => []CachedOnlyWhileOut
<1> SUFFICES ASSUME ReturnsApart PROVE CheckoutSpec => []CachedOnlyWhileOut
  OBVIOUS
<1>1. CheckoutInit => CInv
  BY CoveredInit
<1>2. LInv /\ IInv /\ CInv /\ [CheckoutNext]_all => CInv'
  BY CoveredStep
<1>3. CheckoutSpec => [](LInv /\ IInv)
  BY LibraryInvariance DEF ReturnsApart
<1>4. ASSUME CInv PROVE CachedOnlyWhileOut
  <2> SUFFICES ASSUME NEW b \in Books, Settled(b), RowsOf(b) # {} PROVE Active(b) # {}
    BY DEF CachedOnlyWhileOut
  <2>1. ~Returning(b)
    BY DEF Returning, Settled, UnderWay
  <2>2. ~CutOff(b)
    BY DEF CutOff, Settled
  <2> QED
    BY <1>4, <2>1, <2>2 DEF CInv, Covered
<1> QED
  BY <1>1, <1>2, <1>3, <1>4, PTL DEF CheckoutSpec
-----------------------------------------------------------------------------
(* A book shown as ready is on the disk                                     *)

(* Moreover ready files are not evicted, and the cache is not cleared while *)
(* a checkout is half way through its files.                                *)
NothingLost == ReturnsApart /\ ~EvictOldest /\ \A r \in Reqs : Op[r] # "clear"

Queues(r)  == r \in Reqs \cap Patrons /\ Op[r] = "queue"
HasRow(f)  == \E id \in Ids : Exists(id) /\ FileOf(id) = f
Filling(r) == Queues(r) /\ lib[r].pc = "downloads" /\ req[r].pc \notin {"new", "done"}

(* The book was cut off by a restart, or checked out while it was out.      *)
Spoilt(b) == CutOff(b) \/ \E r \in Patrons : Book(r) = b /\ Again(r)

(* Of the files of its book a checkout has passed by none that has no row.  *)
Ahead(r, f) ==
  /\ req[r].pc # "done"
  /\ f \in req[r].files \/ (req[r].pc = "save" /\ FileOf(req[r].id) = f)
Whole ==
  \A r : Filling(r) => \A f \in Files : BookOf[f] = Target[r] => HasRow(f) \/ Ahead(r, f)
Complete ==
  \A b \in Books : RowsOf(b) # {} /\ ~CutOff(b) =>
    \/ \E r : Filling(r) /\ Target[r] = b
    \/ \A f \in Files : BookOf[f] = b => HasRow(f)

(* A first checkout finds no rows but its own, so it resets none; a return  *)
(* that removes files has left no rows.                                     *)
OwnRows ==
  \A r : /\ Queues(r) /\ ~Again(r) /\ ~CutOff(Target[r])
         /\ lib[r].pc = "save" \/ (lib[r].pc = "downloads" /\ req[r].pc # "done")
         => /\ \A id \in RowsOf(Target[r]) : id[1] = r
            /\ req[r].pc \notin {"update", "rm", "rmPart"}
Emptied ==
  \A r \in Reqs \cap Patrons :
    Op[r] = "remove" /\ lib[r].pc = "downloads" /\ req[r].pc \in {"rm", "rmPart"}
    => RowsOf(Target[r]) = {}

OnDisk ==
  \A id \in Ids : rows[id].status = "ready" /\ ~Spoilt(BookOf[FileOf(id)]) => FileOf(id) \in media
InPlace ==
  \A w \in Loops : \A id \in Ids :
    loop[w].pc = "ready" /\ loop[w].id = id /\ Exists(id) /\ ~Spoilt(BookOf[FileOf(id)])
    => FileOf(id) \in media

FInv == NoEvict /\ Whole /\ Complete /\ OwnRows /\ Emptied /\ OnDisk /\ InPlace
Base == LInv /\ IInv /\ CInv /\ History

(* A checkout under way is alone with its book, but for marks.              *)
LEMMA AloneWithBook ==
  ASSUME NothingLost, LInv, NEW r, Queues(r), UnderWay(r), NEW s \in Reqs \cap Patrons, UnderWay(s),
         Target[s] = Target[r]
  PROVE  s = r
<1> SUFFICES ASSUME s # r PROVE FALSE
  OBVIOUS
<1>1. Kind(r) = "queue" /\ Kind(s) \in {"queue", "remove"} /\ Book(r) = Book(s)
  BY ConstantsAssumption, CheckoutAssumption DEF Kind, Book, Queues, Patrons, Ops
<1>2. {Kind(r), Kind(s)} \in Together
  BY <1>1 DEF LInv, Apart, Queues
<1>3. {Kind(r), Kind(s)} = {"queue"} \/ {Kind(r), Kind(s)} = {"queue", "remove"}
  BY <1>1
<1> QED
  BY <1>2, <1>3 DEF NothingLost, ReturnsApart, WritesApart

LEMMA RowsVanish ==
  ASSUME IInv, NoEvict, [Next]_vars, NEW id \in Ids, Exists(id), ~Exists(id)'
  PROVE  \E r \in Reqs : \/ RemoveDelete(r) /\ BookOf[FileOf(id)] = Target[r]
                         \/ ClearDelete(r)
<1>0. rows \in [Ids -> Rows]
  BY DEF IInv, RestOK
<1>1. ASSUME NEW i, NEW s, NEW b, SetRow(i, s, b), s # "none" \/ s = rows[i].status PROVE FALSE
  BY <1>0, <1>1 DEF SetRow, Exists
<1>2. ASSUME NEW r \in Reqs, Begin(r) \/ Continue(r)
      PROVE  \/ RemoveDelete(r) /\ BookOf[FileOf(id)] = Target[r]
             \/ ClearDelete(r)
  <2>1. CASE RemoveDelete(r)
    BY <1>0, <2>1 DEF RemoveDelete, DeleteRows, RowsOf, Exists
  <2>2. ~QueueSave(r)
    BY <1>0 DEF QueueSave, Exists
  <2>3. ~QueueUpdate(r) /\ ~ServeMissing(r)
    BY <1>1 DEF QueueUpdate, ServeMissing, SetStatus
  <2> QED
    BY <1>2, <2>1, <2>2, <2>3
       DEF Begin, Continue, QueueFiles, QueueFind, QueueRemoveFile, QueueRemovePart, RemoveFind,
           RemoveFile, RemovePart, ClearStart, ClearFiles, ClearDone, ServeFind, ServeAccess,
           CallFails, disk, Exists
<1>3. ASSUME NEW w \in Loops, LoopStep(w) PROVE FALSE
  <2>1. ~Reject(w) /\ ~Fail(w) /\ ~Mark(w)
    BY <1>1 DEF Reject, Fail, Mark, SetStatus
  <2>2. ~Resize(w) /\ ~Progress(w) /\ ~Ready(w)
    BY <1>1 DEF Resize, Progress, Ready, Exists
  <2>3. ~EvictRow(w)
    BY DEF EvictRow, Step, NoEvict
  <2> QED
    BY <1>3, <2>1, <2>2, <2>3
       DEF LoopStep, LoopFind, Capacity, Evict, EvictEnd, DiskSpace, Fetch, OpenPart, Stream, Rename,
           Discard, disk, Exists
<1>4. ~(BootFind \/ Destroy \/ Crash \/ UNCHANGED vars)
  BY DEF BootFind, Destroy, Crash, vars, disk, Exists
<1>5. ~Resume
  BY <1>1 DEF Resume, SetStatus
<1> QED
  BY <1>2, <1>3, <1>4, <1>5 DEF Next

LEMMA CallsMove ==
  ASSUME req \in [Reqs -> Calls], NEW r \in Reqs,
         QueueSave(r) \/ QueueRemoveFile(r) \/ RemoveDelete(r) \/ RemoveFile(r)
  PROVE  req'[r] # req[r]
BY DEF QueueSave, QueueNext, QueueRemoveFile, RemoveDelete, RemoveFile, At, Goto, Calls

(* A request that continues with the downloads is under way.                *)
LEMMA StepUnderWay ==
  ASSUME IInv, NEW q \in Reqs, DownloadStep(q), q \in Patrons
  PROVE  UnderWay(q) /\ lib[q].pc = "downloads" /\ req[q].pc # "done"
BY OwnRequestOnly DEF DownloadStep, UnderWay, IInv, RestOK

LEMMA OnlyTheCaller ==
  ASSUME IInv, NEW q \in Reqs, DownloadStep(q), NEW s \in Reqs,
         QueueSave(s) \/ QueueRemoveFile(s) \/ RemoveDelete(s) \/ RemoveFile(s)
  PROVE  s = q
BY CallsMove, OwnRequestOnly DEF DownloadStep, IInv, RestOK

(* A file keeps having a row, but through a return of its book.             *)
LEMMA RowKept ==
  ASSUME NothingLost, IInv, NoEvict, NEW q \in Reqs, DownloadStep(q),
         NEW f, HasRow(f), ~HasRow(f)'
  PROVE  RemoveDelete(q) /\ Op[q] = "remove" /\ BookOf[f] = Target[q] /\ q \in Patrons
<1>1. PICK id \in Ids : Exists(id) /\ FileOf(id) = f
  BY DEF HasRow
<1>2. ~Exists(id)'
  BY <1>1 DEF HasRow, FileOf
<1>3. [Next]_vars
  BY DEF Next, DownloadStep
<1>4. PICK r \in Reqs : (RemoveDelete(r) /\ BookOf[FileOf(id)] = Target[r]) \/ ClearDelete(r)
  BY <1>1, <1>2, <1>3, RowsVanish
<1>5. ~ClearDelete(r)
  BY DEF ClearDelete, At, NothingLost
<1>6. r = q
  BY <1>4, <1>5, OnlyTheCaller
<1> QED
  BY <1>1, <1>4, <1>5, <1>6 DEF RemoveDelete, At, Patrons

(* A row that appears is the checkout's that goes on.                       *)
LEMMA RowNew ==
  ASSUME IInv, History, NEW q \in Reqs, DownloadStep(q), NEW id \in Ids, ~Exists(id), Exists(id)'
  PROVE  id[1] = q /\ Queues(q) /\ Target[q] = BookOf[FileOf(id)] /\ req[q].id = id
<1>1. [Next]_vars /\ id[1] \in Reqs
  BY DEF Next, DownloadStep, Ids
<1>2. QueueSave(id[1]) /\ req[id[1]].pc = "save" /\ req[id[1]].id = id
  BY <1>1, RowsAppear DEF History
<1>3. id[1] = q
  BY <1>1, <1>2, OnlyTheCaller
<1>4. Op[q] = "queue"
  BY <1>2, <1>3 DEF QueueSave, At
<1> QED
  BY <1>2, <1>3, <1>4 DEF History, Owns, Queues, Patrons

(* What findOne tells a checkout of the file g.                             *)
FindMoves(q, g) ==
  /\ req'[q].files = req[q].files \ {g}
  /\ \/ req'[q].pc = "save" /\ req'[q].id = <<q, g>>
     \/ /\ \E id \in Ids : FileOf(id) = g /\ Exists(id)
        /\ req'[q].pc \in {"done", "find", "update"}
        /\ req'[q].pc = "done" => req[q].files \ {g} = {}

LEMMA FindsFile ==
  ASSUME NEW q \in Reqs, req \in [Reqs -> Calls], QueueFind(q)
  PROVE  \E g \in req[q].files : FindMoves(q, g)
<1> PICK g \in req[q].files :
      LET found == {id \in Ids : FileOf(id) = g /\ Exists(id)}
          rest  == req[q].files \ {g}
      IN  \/ /\ found = {}
             /\ req' = [req EXCEPT ![q] =
                          [pc |-> "save", files |-> rest, ids |-> {}, id |-> <<q, g>>]]
          \/ \E id \in found :
             /\ rows[id].status = "ready"
             /\ req' = [req EXCEPT ![q] =
                          [@ EXCEPT !.pc = IF rest = {} THEN "done" ELSE "find",
                                    !.files = rest]]
          \/ \E id \in found :
             /\ rows[id].status # "ready"
             /\ req' = [req EXCEPT ![q] =
                          [pc |-> "update", files |-> rest, ids |-> {}, id |-> id]]
  BY DEF QueueFind
<1> DEFINE rest == req[q].files \ {g}
<1>1. CASE req' = [req EXCEPT ![q] = [pc |-> "save", files |-> rest, ids |-> {}, id |-> <<q, g>>]]
  <2>1. FindMoves(q, g)
    BY <1>1 DEF FindMoves
  <2> QED
    BY <2>1
<1>2. ASSUME NEW id \in Ids, FileOf(id) = g, Exists(id),
             req' = [req EXCEPT ![q] = [pc |-> "update", files |-> rest, ids |-> {}, id |-> id]]
      PROVE  FindMoves(q, g)
  BY <1>2 DEF FindMoves
<1>3. ASSUME NEW id \in Ids, FileOf(id) = g, Exists(id),
             req' = [req EXCEPT ![q] = [@ EXCEPT !.pc = IF rest = {} THEN "done" ELSE "find",
                                                 !.files = rest]]
      PROVE  FindMoves(q, g)
  <2> DEFINE pc == IF rest = {} THEN "done" ELSE "find"
             t  == [req[q] EXCEPT !.pc = pc, !.files = rest]
  <2>1. pc \in {"done", "find"} /\ (pc = "done" => rest = {})
    OBVIOUS
  <2>2. req' = [req EXCEPT ![q] = t]
    BY <1>3
  <2> HIDE DEF pc
  <2>3. t.pc = pc /\ t.files = rest
    BY DEF Calls
  <2> HIDE DEF t
  <2>4. req'[q].pc = pc /\ req'[q].files = rest
    BY <2>2, <2>3
  <2> QED
    BY <1>3, <2>1, <2>4 DEF FindMoves
<1> QED
  BY <1>1, <1>2, <1>3

(* A checkout passes by no file without giving it a row.                    *)
LEMMA CallWhole ==
  ASSUME NothingLost, Base, FInv, NEW q, Queues(q), DownloadStep(q),
         NEW f \in Files, BookOf[f] = Target[q]
  PROVE  HasRow(f)' \/ Ahead(q, f)' \/ (req[q].pc = "new" /\ req'[q].pc = "done")
<1> USE DEF Base, IInv, RestOK, Queues
<1>0. q \in Reqs /\ (Begin(q) \/ Continue(q)) /\ req[q] \in Calls
  BY DEF DownloadStep
<1>1. CASE QueueFiles(q)
  <2>1. PICK fs \in {{}, {g \in Files : BookOf[g] = Target[q]}} :
          req' = [req EXCEPT ![q] = [@ EXCEPT !.pc = IF fs = {} THEN "done" ELSE "find", !.files = fs]]
    BY <1>1 DEF QueueFiles
  <2>2. req'[q].pc = (IF fs = {} THEN "done" ELSE "find") /\ req'[q].files = fs
    BY <1>0, <2>1 DEF Calls
  <2>3. CASE fs = {}
    BY <1>1, <2>2, <2>3 DEF QueueFiles, Started
  <2>4. CASE fs # {}
    <3>1. f \in fs
      BY <2>4
    <3> QED
      BY <2>2, <2>4, <3>1 DEF Ahead
  <2> QED
    BY <2>3, <2>4
<1>2. CASE ~QueueFiles(q)
  <2>1. req[q].pc \notin {"new", "done"} /\ lib[q].pc = "downloads"
    <3>1. req[q].pc # "done" /\ lib[q].pc = "downloads"
      BY <1>0, StepUnderWay
    <3>2. req[q].pc # "new"
      BY <1>0, <1>2, ConstantsAssumption
         DEF Begin, Continue, QueueFind, QueueSave, QueueUpdate, QueueRemoveFile,
             QueueRemovePart, RemoveFind, RemoveDelete, RemoveFile, RemovePart, ClearStart,
             ClearDelete, ClearFiles, ClearDone, ServeFind, ServeAccess, ServeMissing, CallFails,
             Started, At
    <3> QED
      BY <3>1, <3>2
  <2>2. HasRow(f) \/ Ahead(q, f)
    BY <2>1 DEF FInv, Whole, Filling
  <2>3. CASE HasRow(f)
    <3>1. ~RemoveDelete(q)
      BY DEF RemoveDelete, At
    <3> QED
      BY <1>0, <2>3, <3>1, RowKept DEF FInv
  <2>4. CASE Ahead(q, f) /\ ~HasRow(f)
    <3>1. CASE QueueFind(q)
      <4>1. PICK g \in req[q].files : FindMoves(q, g)
        BY <1>0, <3>1, FindsFile
      <4>2. req[q].pc = "find"
        BY <3>1 DEF QueueFind, At
      <4>3. f \in req[q].files
        BY <2>4, <4>2 DEF Ahead
      <4>5. CASE f = g
        BY <2>4, <4>1, <4>5 DEF FindMoves, HasRow, Ahead, FileOf
      <4>6. CASE f # g
        <5>1. f \in req[q].files \ {g}
          BY <4>3, <4>6
        <5> QED
          BY <4>1, <5>1 DEF FindMoves, Ahead
      <4> QED
        BY <4>5, <4>6
    <3>2. CASE QueueSave(q)
      <4>1. req[q].pc = "save" /\ req[q].id \in Ids
        BY <3>2 DEF QueueSave, At
      <4>2. CASE f = FileOf(req[q].id)
        <5> PICK id \in Ids : id = req[q].id
          BY <4>1
        <5>1. rows'[id].status = "queued"
          BY <3>2 DEF QueueSave
        <5>2. Exists(id)'
          BY <5>1 DEF Exists
        <5> QED
          BY <4>2, <5>2 DEF HasRow, FileOf
      <4>3. CASE f # FileOf(req[q].id)
        <5>1. f \in req[q].files
          BY <2>4, <4>3 DEF Ahead
        <5>2. req' = [req EXCEPT ![q].pc = "find"]
          BY <3>2, <5>1 DEF QueueSave, QueueNext, Goto
        <5>3. req'[q].pc = "find" /\ req'[q].files = req[q].files
          BY <1>0, <5>2 DEF Calls
        <5> QED
          BY <5>1, <5>3 DEF Ahead
      <4> QED
        BY <4>2, <4>3
    <3>3. CASE QueueUpdate(q) \/ QueueRemoveFile(q) \/ QueueRemovePart(q)
      <4>1. f \in req[q].files
        BY <2>4, <3>3 DEF Ahead, QueueUpdate, QueueRemoveFile, QueueRemovePart, At
      <4>2. \E pc \in {"rm", "rmPart", "find"} : req' = [req EXCEPT ![q].pc = pc]
        BY <3>3, <4>1 DEF QueueUpdate, QueueRemoveFile, QueueRemovePart, QueueNext, Goto
      <4>3. req'[q].pc \in {"rm", "rmPart", "find"} /\ req'[q].files = req[q].files
        BY <1>0, <4>2 DEF Calls
      <4> QED
        BY <4>1, <4>3 DEF Ahead
    <3> QED
      BY <1>0, <1>2, <3>1, <3>2, <3>3
         DEF Begin, Continue, RemoveFind, RemoveDelete, RemoveFile, RemovePart, ClearStart,
             ClearDelete, ClearFiles, ClearDone, ServeFind, ServeAccess, ServeMissing, CallFails,
             Started, At, NothingLost, ReturnsApart
  <2> QED
    BY <2>2, <2>3, <2>4
<1> QED
  BY <1>1, <1>2

LEMMA SpoiltAside ==
  ASSUME UNCHANGED lib
  PROVE  \A b : (CutOff(b)' <=> CutOff(b)) /\ (Spoilt(b)' <=> Spoilt(b))
BY DEF CutOff, Spoilt, Again, Kind, Book

(* Another request's step leaves a checkout's files their rows.             *)
LEMMA OthersKeepRows ==
  ASSUME NothingLost, Base, NoEvict, NEW q \in Reqs, DownloadStep(q), NEW r, Queues(r), UnderWay(r),
         NEW f, BookOf[f] = Target[r], HasRow(f)
  PROVE  HasRow(f)'
<1> SUFFICES ASSUME ~HasRow(f)' PROVE FALSE
  OBVIOUS
<1>1. Op[q] = "remove" /\ BookOf[f] = Target[q] /\ q \in Patrons
  BY RowKept DEF Base
<1>2. q = r
  BY <1>1, StepUnderWay, AloneWithBook DEF Base
<1> QED
  BY <1>1, <1>2 DEF Queues

LEMMA WholeCall ==
  ASSUME NothingLost, Base, FInv, NEW q \in Reqs, DownloadStep(q)
  PROVE  Whole'
<1> USE DEF Base, IInv, RestOK
<1>0. UNCHANGED lib
  BY DEF DownloadStep
<1> SUFFICES ASSUME NEW r, Queues(r), lib[r].pc = "downloads", req'[r].pc \notin {"new", "done"},
                    NEW f \in Files, BookOf[f] = Target[r]
             PROVE  HasRow(f)' \/ Ahead(r, f)'
  BY <1>0 DEF Whole, Filling, Queues
<1>1. CASE r = q
  BY <1>1, CallWhole
<1>2. CASE r # q
  <2>1. req'[r] = req[r]
    BY <1>2, OwnRequestOnly DEF DownloadStep, Queues
  <2>2. Filling(r) /\ UnderWay(r)
    BY <2>1 DEF Filling, UnderWay, Queues
  <2>3. Ahead(r, f) => Ahead(r, f)'
    BY <2>1 DEF Ahead
  <2>4. HasRow(f) => HasRow(f)'
    BY <2>2, OthersKeepRows DEF FInv
  <2> QED
    BY <2>2, <2>3, <2>4 DEF FInv, Whole
<1> QED
  BY <1>1, <1>2

LEMMA CheckoutBegins ==
  ASSUME IInv, NEW q, Queues(q), DownloadStep(q), req[q].pc = "new"
  PROVE  QueueFiles(q) /\ req'[q].pc \in {"done", "find"}
<1> USE DEF IInv, RestOK, Queues
<1>1. QueueFiles(q)
  BY DEF DownloadStep, Begin, Continue, QueueFind, QueueSave, QueueUpdate, QueueRemoveFile,
         QueueRemovePart, RemoveFind, RemoveDelete, RemoveFile, RemovePart, ClearStart,
         ClearDelete, ClearFiles, ClearDone, ServeFind, ServeAccess, ServeMissing, CallFails,
         Started, At
<1>2. PICK fs \in {{}, {g \in Files : BookOf[g] = Target[q]}} :
        req' = [req EXCEPT ![q] = [@ EXCEPT !.pc = IF fs = {} THEN "done" ELSE "find", !.files = fs]]
  BY <1>1 DEF QueueFiles
<1>3. req'[q].pc = (IF fs = {} THEN "done" ELSE "find")
  BY <1>2 DEF Calls
<1> QED
  BY <1>1, <1>3

LEMMA CompleteCall ==
  ASSUME NothingLost, Base, FInv, NEW q \in Reqs, DownloadStep(q)
  PROVE  Complete'
<1> USE DEF Base, IInv, RestOK
<1>0. UNCHANGED lib /\ (Begin(q) \/ Continue(q))
  BY DEF DownloadStep
<1> SUFFICES ASSUME NEW b \in Books, RowsOf(b)' # {}, ~CutOff(b)
             PROVE  \/ \E r : Filling(r)' /\ Target[r] = b
                    \/ \A f \in Files : BookOf[f] = b => HasRow(f)'
  BY <1>0, SpoiltAside DEF Complete
<1>1. CASE Queues(q) /\ Target[q] = b
  <2>1. CASE req'[q].pc # "done"
    <3>1. req'[q].pc # "new" /\ lib'[q].pc = "downloads"
      <4>1. req'[q].pc # "new"
        BY <1>0, <1>1, FilesShrink, CheckoutBegins DEF Queues
      <4> QED
        BY <1>0, <1>1, <4>1, StepUnderWay DEF Queues
    <3> QED
      BY <1>1, <2>1, <3>1 DEF Filling, Queues
  <2>2. CASE req'[q].pc = "done" /\ req[q].pc # "new"
    <3>1. \A f : ~Ahead(q, f)'
      BY <2>2 DEF Ahead
    <3> QED
      BY <1>1, <2>2, <3>1, CallWhole
  <2>3. CASE req'[q].pc = "done" /\ req[q].pc = "new"
    <3>1. QueueFiles(q)
      BY <1>1, <2>3, CheckoutBegins
    <3>2. RowsOf(b) # {} /\ (\A f : HasRow(f) => HasRow(f)')
      BY <3>1 DEF QueueFiles, disk, RowsOf, Exists, HasRow
    <3>3. UnderWay(q) /\ ~Filling(q)
      BY <1>1, <2>3, StepUnderWay DEF Queues, Filling
    <3>4. ASSUME NEW r, Filling(r), Target[r] = b PROVE FALSE
      <4>1. UnderWay(r) /\ r \in Reqs \cap Patrons
        BY <3>4 DEF Filling, UnderWay, Queues
      <4> QED
        BY <1>1, <3>3, <3>4, <4>1, AloneWithBook
    <3> QED
      BY <3>2, <3>4 DEF FInv, Complete
  <2> QED
    BY <2>1, <2>2, <2>3
<1>2. CASE ~(Queues(q) /\ Target[q] = b)
  <2>1. ~(RemoveDelete(q) /\ Target[q] = b)
    BY DEF RemoveDelete, DeleteRows, RowsOf, Exists, NoRow
  <2>2. RowsOf(b) # {}
    <3> SUFFICES ASSUME RowsOf(b) = {} PROVE FALSE
      OBVIOUS
    <3> PICK id \in Ids : Exists(id)' /\ BookOf[FileOf(id)] = b
      BY DEF RowsOf
    <3>1. ~Exists(id)
      BY DEF RowsOf
    <3> QED
      BY <1>2, <3>1, RowNew
  <2>3. ASSUME NEW f \in Files, BookOf[f] = b, HasRow(f) PROVE HasRow(f)'
    BY <2>1, <2>3, RowKept DEF FInv
  <2>4. ASSUME NEW r, Filling(r), Target[r] = b PROVE Filling(r)'
    <3>1. r # q /\ r \in Reqs
      BY <1>2, <2>4 DEF Filling, Queues
    <3>2. req'[r] = req[r]
      BY <1>0, <3>1, OwnRequestOnly
    <3> QED
      BY <1>0, <2>4, <3>2 DEF Filling, Queues
  <2> QED
    BY <2>2, <2>3, <2>4 DEF FInv, Complete
<1> QED
  BY <1>1, <1>2

LEMMA OwnRowsCall ==
  ASSUME NothingLost, Base, FInv, NEW q \in Reqs, DownloadStep(q)
  PROVE  OwnRows'
<1> USE DEF Base, IInv, RestOK
<1>0. UNCHANGED lib /\ (Begin(q) \/ Continue(q)) /\ [Next]_vars
  BY DEF DownloadStep, Next
<1> SUFFICES ASSUME NEW r, Queues(r), ~Again(r), ~CutOff(Target[r]),
                    lib[r].pc = "save" \/ (lib[r].pc = "downloads" /\ req'[r].pc # "done")
             PROVE  /\ \A id \in RowsOf(Target[r])' : id[1] = r
                    /\ req'[r].pc \notin {"update", "rm", "rmPart"}
  BY <1>0, SpoiltAside DEF OwnRows, Again, Kind, Queues
<1>1. lib[r].pc = "save" \/ (lib[r].pc = "downloads" /\ req[r].pc # "done")
  BY <1>0, DoneStays DEF Queues
<1>2. UnderWay(r)
  BY <1>1 DEF UnderWay, Queues
<1>3. /\ \A id \in RowsOf(Target[r]) : id[1] = r
      /\ req[r].pc \notin {"update", "rm", "rmPart"}
  BY <1>1 DEF FInv, OwnRows
<1>4. ASSUME NEW id \in RowsOf(Target[r])' PROVE id[1] = r
  <2>1. id \in Ids /\ Exists(id)' /\ BookOf[FileOf(id)] = Target[r]
    BY <1>4 DEF RowsOf, FileOf
  <2>2. CASE Exists(id)
    BY <1>3, <2>1, <2>2 DEF RowsOf
  <2>3. CASE ~Exists(id)
    <3>1. id[1] = q /\ Queues(q) /\ Target[q] = Target[r]
      BY <2>1, <2>3, RowNew
    <3>2. q = r
      BY <1>2, <3>1, StepUnderWay, AloneWithBook DEF Queues
    <3> QED
      BY <3>1, <3>2
  <2> QED
    BY <2>2, <2>3
<1>5. req'[r].pc \notin {"update", "rm", "rmPart"}
  <2>1. CASE r # q
    BY <1>0, <1>3, <2>1, OwnRequestOnly DEF Queues
  <2>2. CASE r = q
    <3>1. CASE QueueFind(q)
      <4>1. PICK g \in req[q].files : FindMoves(q, g)
        BY <3>1, FindsFile
      <4>2. ASSUME NEW id \in Ids, FileOf(id) = g, Exists(id) PROVE FALSE
        <5>1. BookOf[g] = Target[r]
          BY <2>2, <4>1 DEF History, Owns, Queues
        <5>2. id[1] = r
          BY <1>3, <4>2, <5>1 DEF RowsOf
        <5>3. Made(id)
          BY <4>2 DEF History, RowsMade
        <5> QED
          BY <2>2, <4>1, <4>2, <5>2, <5>3 DEF Made
      <4> QED
        BY <2>2, <4>1, <4>2 DEF FindMoves
    <3>2. CASE QueueFiles(q)
      <4>1. req[q].pc = "new"
        BY <3>2 DEF QueueFiles, Started
      <4> QED
        BY <2>2, <4>1, CheckoutBegins
    <3>3. CASE QueueSave(q)
      <4>1. \E pc \in {"done", "find"} : req' = [req EXCEPT ![q].pc = pc]
        BY <3>3 DEF QueueSave, QueueNext, Goto
      <4> QED
        BY <2>2, <4>1 DEF Calls
    <3> QED
      BY <1>0, <1>3, <2>2, <3>1, <3>2, <3>3
         DEF Queues, Begin, Continue, QueueUpdate, QueueRemoveFile,
             QueueRemovePart, RemoveFind, RemoveDelete, RemoveFile, RemovePart, ClearStart,
             ClearDelete, ClearFiles, ClearDone, ServeFind, ServeAccess, ServeMissing, CallFails,
             Started, At, NothingLost, ReturnsApart
  <2> QED
    BY <2>1, <2>2
<1> QED
  BY <1>4, <1>5

LEMMA EmptiedCall ==
  ASSUME NothingLost, Base, FInv, NEW q \in Reqs, DownloadStep(q)
  PROVE  Emptied'
<1> USE DEF Base, IInv, RestOK
<1>0. UNCHANGED lib /\ (Begin(q) \/ Continue(q))
  BY DEF DownloadStep
<1> SUFFICES ASSUME NEW r \in Reqs \cap Patrons, Op[r] = "remove", lib[r].pc = "downloads",
                    req'[r].pc \in {"rm", "rmPart"}, NEW id \in Ids, Exists(id)',
                    BookOf[FileOf(id)] = Target[r]
             PROVE  FALSE
  BY <1>0 DEF Emptied, RowsOf
<1>1. ~RemoveDelete(r)
  BY DEF RemoveDelete, DeleteRows, RowsOf, Exists, NoRow
<1>2. req[r].pc \in {"rm", "rmPart"}
  <2>1. CASE r # q
    BY <1>0, <2>1, OwnRequestOnly
  <2>2. CASE r = q /\ ~RemoveFind(r)
    BY <1>0, <1>1, <2>2
       DEF Begin, Continue, QueueFiles, QueueFind, QueueSave, QueueUpdate, QueueRemoveFile,
           QueueRemovePart, RemoveFile, RemovePart, ClearStart, ClearDelete, ClearFiles,
           ClearDone, ServeFind, ServeAccess, ServeMissing, CallFails, Started, At, NothingLost,
           ReturnsApart
  <2>3. CASE RemoveFind(r)
    BY <2>3 DEF RemoveFind
  <2> QED
    BY <2>1, <2>2, <2>3
<1>3. RowsOf(Target[r]) = {} /\ UnderWay(r)
  BY <1>2 DEF FInv, Emptied, UnderWay
<1>4. ~Exists(id)
  BY <1>3 DEF RowsOf
<1>5. Queues(q) /\ Target[q] = Target[r] /\ q # r
  BY <1>4, RowNew DEF Queues
<1>6. UnderWay(q)
  BY <1>5, StepUnderWay DEF Queues
<1> QED
  BY <1>3, <1>5, <1>6, AloneWithBook

(* While the file of a row that exists stays, what is or becomes ready is   *)
(* on the disk.                                                             *)
LEMMA DiskStep ==
  ASSUME IInv, History, FInv, [Next]_vars, \A b : Spoilt(b) => Spoilt(b)',
         \A id \in Ids : /\ Exists(id) /\ ~Spoilt(BookOf[FileOf(id)]) /\ FileOf(id) \in media
                         => FileOf(id) \in media'
  PROVE  OnDisk' /\ InPlace'
<1> USE DEF FInv
<1>1. ASSUME NEW id \in Ids, rows'[id].status = "ready", ~Spoilt(BookOf[FileOf(id)])'
      PROVE  FileOf(id) \in media'
  <2>1. ~Spoilt(BookOf[FileOf(id)])
    <3> PICK b : b = BookOf[FileOf(id)]
      OBVIOUS
    <3>1. ~Spoilt(b)'
      BY <1>1 DEF FileOf
    <3> QED
      BY <3>1
  <2>2. CASE rows[id].status = "ready"
    BY <2>1, <2>2 DEF OnDisk, Exists
  <2>3. CASE rows[id].status # "ready"
    BY <1>1, <2>1, <2>3, BecomesReady DEF InPlace
  <2> QED
    BY <2>2, <2>3
<1>2. ASSUME NEW w \in Loops, NEW id \in Ids, loop'[w].pc = "ready", loop'[w].id = id, Exists(id)',
             ~Spoilt(BookOf[FileOf(id)])'
      PROVE  FileOf(id) \in media'
  <2>1. ~Spoilt(BookOf[FileOf(id)])
    <3> PICK b : b = BookOf[FileOf(id)]
      OBVIOUS
    <3>1. ~Spoilt(b)'
      BY <1>2 DEF FileOf
    <3> QED
      BY <3>1
  <2>2. Busy(w) /\ loop[w].id = id /\ (loop[w].pc = "ready" \/ FileOf(id) \in media')
    BY <1>2, BecomesPlaced DEF Path
  <2>3. CASE loop[w].pc = "ready"
    <3>1. Made(id)
      BY <2>2 DEF History, HandMade, InHand
    <3>2. Exists(id)
      BY <1>2, <3>1, GoneForGood DEF History
    <3> QED
      BY <2>1, <2>2, <2>3, <3>2 DEF InPlace
  <2> QED
    BY <2>2, <2>3
<1>3. OnDisk'
  BY <1>1 DEF OnDisk, FileOf
<1>4. InPlace'
  BY <1>2 DEF InPlace, FileOf
<1> QED
  BY <1>3, <1>4

(* A checkout removes files only of rows that it resets, a return only of   *)
(* rows that are gone.                                                      *)
LEMMA FileKeptCall ==
  ASSUME NothingLost, Base, FInv, NEW q \in Reqs, DownloadStep(q), NEW id \in Ids,
         Exists(id), ~Spoilt(BookOf[FileOf(id)]), FileOf(id) \in media
  PROVE  FileOf(id) \in media'
<1> USE DEF Base
<1> SUFFICES ASSUME FileOf(id) \notin media' PROVE FALSE
  OBVIOUS
<1>0. [Next]_vars /\ req \in [Reqs -> Calls]
  BY DEF DownloadStep, Next, IInv, RestOK
<1>1. ASSUME NEW r \in Reqs, QueueRemoveFile(r), FileOf(id) = FileOf(req[r].id) PROVE FALSE
  <2>1. r = q /\ Resets(r) /\ req[r].pc = "rm" /\ Queues(r)
    BY <1>1, OnlyTheCaller DEF QueueRemoveFile, At, Resets, Queues, Patrons
  <2>2. BookOf[FileOf(id)] = Target[r]
    BY <1>1, <2>1 DEF History, QueueCalls
  <2>3. ~Again(r) /\ ~CutOff(Target[r])
    BY <2>1, <2>2 DEF Spoilt, Book, Queues
  <2>4. lib[r].pc = "downloads"
    BY <2>1, StepUnderWay DEF Queues
  <2> QED
    BY <2>1, <2>3, <2>4 DEF FInv, OwnRows
<1>2. ASSUME NEW r \in Reqs, RemoveFile(r), NEW j \in req[r].ids, FileOf(id) = FileOf(j) PROVE FALSE
  <2>1. r = q /\ Returns(r) /\ req[r].pc = "rm" /\ Op[r] = "remove" /\ r \in Reqs \cap Patrons
    BY <1>2, OnlyTheCaller DEF RemoveFile, At, Returns, Patrons
  <2>2. BookOf[FileOf(id)] = Target[r]
    BY <1>2, <2>1 DEF History, RemoveCalls
  <2>3. lib[r].pc = "downloads"
    BY <2>1, StepUnderWay
  <2>4. RowsOf(Target[r]) = {}
    BY <2>1, <2>3 DEF FInv, Emptied
  <2> QED
    BY <2>2, <2>4 DEF RowsOf
<1>3. ASSUME NEW r \in Reqs, ClearFiles(r) PROVE FALSE
  BY <1>3 DEF ClearFiles, At, NothingLost
<1> QED
  BY <1>0, <1>1, <1>2, <1>3, FileRemoved DEF FInv

LEMMA CallKeepsAll ==
  ASSUME NothingLost, Base, FInv, NEW q \in Reqs, DownloadStep(q)
  PROVE  FInv'
<1>1. [Next]_vars /\ UNCHANGED lib
  BY DEF DownloadStep, Next
<1>2. NoEvict'
  BY <1>1, NoEvictStep DEF NothingLost, Base, FInv
<1>3. OnDisk' /\ InPlace'
  BY <1>1, DiskStep, FileKeptCall, SpoiltAside DEF Base
<1> QED
  BY <1>2, <1>3, WholeCall, CompleteCall, OwnRowsCall, EmptiedCall DEF FInv

(* Steps of the loop and of the process: no row and no file comes or goes.  *)
LEMMA LoopKeepsAll ==
  ASSUME NothingLost, Base, FInv, [Next]_vars, UNCHANGED <<shelf, lib, req>>
  PROVE  FInv'
<1> USE DEF Base
<1>0. req \in [Reqs -> Calls]
  BY DEF IInv, RestOK
<1>1. ASSUME NEW id \in Ids PROVE Exists(id)' <=> Exists(id)
  <2>1. ASSUME ~Exists(id), Exists(id)' PROVE FALSE
    <3>1. QueueSave(id[1]) /\ id[1] \in Reqs
      BY <2>1, RowsAppear DEF History, Ids
    <3> QED
      BY <1>0, <3>1, CallsMove
  <2>2. ASSUME Exists(id), ~Exists(id)' PROVE FALSE
    <3>1. PICK r \in Reqs : RemoveDelete(r) \/ ClearDelete(r)
      BY <2>2, RowsVanish DEF FInv
    <3>2. ~ClearDelete(r)
      BY DEF ClearDelete, At, NothingLost
    <3> QED
      BY <1>0, <3>1, <3>2, CallsMove
  <2> QED
    BY <2>1, <2>2
<1>2. \A b : RowsOf(b)' = RowsOf(b)
  BY <1>1 DEF RowsOf, FileOf
<1>3. \A f : HasRow(f)' <=> HasRow(f)
  BY <1>1 DEF HasRow, FileOf
<1>4. Whole'
  BY <1>3 DEF FInv, Whole, Filling, Queues, Ahead, FileOf
<1>5. Complete'
  BY <1>2, <1>3, SpoiltAside DEF FInv, Complete, Filling, Queues
<1>6. OwnRows' /\ Emptied'
  BY <1>2, SpoiltAside DEF FInv, OwnRows, Emptied, Queues, Again, Kind
<1>7. NoEvict'
  BY NoEvictStep DEF NothingLost, FInv
<1>8. \A id \in Ids : FileOf(id) \in media => FileOf(id) \in media'
  <2> SUFFICES ASSUME NEW id \in Ids, FileOf(id) \in media, FileOf(id) \notin media' PROVE FALSE
    OBVIOUS
  <2>1. PICK r \in Reqs : QueueRemoveFile(r) \/ RemoveFile(r) \/ ClearFiles(r)
    BY FileRemoved DEF FInv
  <2>2. ~ClearFiles(r)
    BY DEF ClearFiles, At, NothingLost
  <2> QED
    BY <1>0, <2>1, <2>2, CallsMove
<1>9. OnDisk' /\ InPlace'
  BY <1>8, DiskStep, SpoiltAside
<1> QED
  BY <1>4, <1>5, <1>6, <1>7, <1>9 DEF FInv

(* A restart cuts off every book that something is under way for.           *)
LEMMA RestartKeepsAll ==
  ASSUME NothingLost, Base, FInv, Restart
  PROVE  FInv'
<1> USE DEF Base
<1>1. /\ UNCHANGED <<shelf, disk>> /\ [Next]_vars
      /\ \A r \in Patrons : lib'[r] = IF UnderWay(r) THEN [Nothing EXCEPT !.pc = "lost"] ELSE lib[r]
      /\ \A r \in Reqs : req'[r] = IF req[r].pc = "new" THEN req[r] ELSE [NoCall EXCEPT !.pc = "done"]
      /\ \A w \in Loops : loop'[w].pc = "idle"
  BY DEF Restart, Crash, Next, NoTask
<1>2. \A r \in Reqs : req'[r].pc \in {"new", "done"}
  BY <1>1 DEF NoCall
<1>3. \A r \in Patrons : UnderWay(r) => lib'[r].pc = "lost"
  BY <1>1 DEF Nothing
<1>4. \A b : CutOff(b) => CutOff(b)'
  BY <1>1, <1>3 DEF CutOff, Book
<1>5. \A r \in Patrons : UnderWay(r) => CutOff(Book(r))'
  BY <1>3 DEF CutOff, Book
<1>6. \A b : Spoilt(b) => Spoilt(b)'
  <2> SUFFICES ASSUME NEW b, NEW r \in Patrons, Book(r) = b, Again(r), ~CutOff(b)' PROVE Spoilt(b)'
    BY <1>4 DEF Spoilt
  <2>1. lib'[r] = lib[r]
    BY <1>1, <1>5
  <2> QED
    BY <2>1 DEF Spoilt, Again, Kind, Book
<1>7. \A b : RowsOf(b)' = RowsOf(b)
  BY <1>1 DEF RowsOf, Exists, FileOf, disk
<1>8. Whole' /\ Emptied'
  BY <1>2 DEF Whole, Filling, Queues, Emptied
<1>9. Complete'
  <2> SUFFICES ASSUME NEW b \in Books, RowsOf(b) # {}, ~CutOff(b)'
               PROVE  \A f \in Files : BookOf[f] = b => HasRow(f)'
    BY <1>7 DEF Complete
  <2>1. ~\E r : Filling(r) /\ Target[r] = b
    BY <1>5 DEF Filling, Queues, UnderWay, Book
  <2>2. \A f \in Files : BookOf[f] = b => HasRow(f)
    BY <1>4, <2>1 DEF FInv, Complete
  <2> QED
    BY <1>1, <2>2 DEF HasRow, Exists, FileOf, disk
<1>10. OwnRows'
  <2> SUFFICES ASSUME NEW r, Queues(r), lib'[r].pc = "save" \/ (lib'[r].pc = "downloads" /\ req'[r].pc # "done")
               PROVE  FALSE
    BY DEF OwnRows, Queues
  <2>1. lib'[r] = lib[r] /\ ~UnderWay(r)
    BY <1>1, <1>3 DEF Queues
  <2>2. req[r].pc = "done"
    BY <2>1 DEF UnderWay, Queues
  <2> QED
    BY <1>1, <2>1, <2>2 DEF UnderWay, NoCall, Queues
<1>11. NoEvict' /\ OnDisk' /\ InPlace'
  <2>1. NoEvict'
    BY <1>1 DEF NoEvict
  <2>2. UNCHANGED media
    BY <1>1 DEF disk
  <2> QED
    BY <1>1, <1>6, <2>1, <2>2, DiskStep
<1> QED
  BY <1>8, <1>9, <1>10, <1>11 DEF FInv

(* The library's own steps.                                                 *)
LEMMA CheckoutsOwnSteps ==
  ASSUME CheckoutTypeOK, NEW r, Queues(r), LibraryStep(r)
  PROVE  \/ /\ lib[r].pc = "new" /\ lib'[r].pc = "save" /\ lib'[r].row = lib[r].row
            /\ Active(Book(r)) = {} /\ Arrives(r, "queue")
         \/ lib'[r].pc = "downloads" /\ lib'[r].row # 0
         \/ lib[r].pc = "save" /\ lib'[r].pc = "downloads" /\ lib'[r].row = lib[r].row
<1>0. r \in Patrons /\ Kind(r) = "queue" /\ r \notin Readers /\ lib \in [Patrons -> Locals]
  BY CheckoutAssumption DEF Queues, Kind, CheckoutTypeOK, Locals
<1>1. CASE CheckoutSave(r)
  <2>1. Then(r, "downloads") /\ lib[r].pc = "save"
    BY <1>1 DEF CheckoutSave, In
  <2>2. lib' = [lib EXCEPT ![r].pc = "downloads"]
    BY <2>1 DEF Then
  <2>3. lib'[r].pc = "downloads" /\ lib'[r].row = lib[r].row
    BY <1>0, <2>2 DEF Locals
  <2> QED
    BY <2>1, <2>3
<1>2. CASE CheckoutFind(r)
  <2>1. CASE Active(Book(r)) = {} /\ Then(r, "save")
    <3>1. lib'[r].pc = "save" /\ lib'[r].row = lib[r].row
      BY <1>0, <2>1 DEF Then, Locals
    <3> QED
      BY <1>2, <2>1, <3>1 DEF CheckoutFind, Arrives
  <2>2. ASSUME NEW i \in Active(Book(r)),
               lib' = [lib EXCEPT ![r].pc = "downloads", ![r].row = i]
        PROVE  lib'[r].pc = "downloads" /\ lib'[r].row # 0
    <3>1. i \in DOMAIN shelf /\ i # 0
      BY DEF Active, RowsFor, CheckoutTypeOK
    <3> QED
      BY <1>0, <2>2, <3>1 DEF Locals
  <2> QED
    BY <1>2, <2>1, <2>2 DEF CheckoutFind
<1> QED
  BY <1>0, <1>1, <1>2
     DEF LibraryStep, ReturnFind, ReturnSave, ReadFind, ReadLatest, ReadSave, ReadCreate, Unread,
         Arrives, In, Queues

LEMMA LibraryKeepsAll ==
  ASSUME NothingLost, Base, FInv, NEW r \in Patrons, LibraryStep(r)
  PROVE  FInv'
<1> USE DEF Base
<1>1. Effect(r) /\ UNCHANGED vars
  BY LibraryEffect, LibraryStepsStutter DEF LInv
<1>2. /\ UNCHANGED <<req, rows, media, loop>> /\ (\A s \in Patrons : s # r => lib'[s] = lib[s])
      /\ lib[r].pc \notin {"downloads", "lost"} /\ lib'[r].pc # "lost"
      /\ (r \in Reqs => req[r].pc = "new")
  BY <1>1 DEF vars, disk, work, Effect, CInv, Handed
<1>3. \A b : CutOff(b)' <=> CutOff(b)
  BY <1>2 DEF CutOff, Book
<1>4. \A b : Spoilt(b) => Spoilt(b)'
  <2> SUFFICES ASSUME NEW s \in Patrons, Again(s) PROVE Again(s)'
    BY <1>3 DEF Spoilt, Book
  <2>1. CASE s # r
    BY <1>2, <2>1 DEF Again, Kind
  <2>2. CASE s = r
    <3>1. Queues(r) /\ lib[r].row # 0
      BY <2>2, KindOfReader DEF Again, Kind, Queues, Patrons
    <3>2. lib'[r].row # 0
      BY <3>1, CheckoutsOwnSteps DEF LInv
    <3> QED
      BY <2>2, <3>2 DEF Again, Kind
  <2> QED
    BY <2>1, <2>2
<1>5. \A b : RowsOf(b)' = RowsOf(b)
  BY <1>2 DEF RowsOf, Exists, FileOf
<1>6. \A s : Filling(s)' <=> Filling(s)
  BY <1>2 DEF Filling, Queues
<1>7. Whole'
  BY <1>2, <1>6 DEF FInv, Whole, HasRow, Ahead, Exists, FileOf
<1>8. Complete'
  BY <1>2, <1>3, <1>5, <1>6 DEF FInv, Complete, HasRow, Exists, FileOf
<1>9. Emptied'
  BY <1>2, <1>5 DEF FInv, Emptied
<1>10. ASSUME NEW s, Queues(s), ~Again(s)', ~CutOff(Target[s]),
              lib'[s].pc = "save" \/ (lib'[s].pc = "downloads" /\ req[s].pc # "done")
       PROVE  /\ \A id \in RowsOf(Target[s]) : id[1] = s
              /\ req[s].pc \notin {"update", "rm", "rmPart"}
  <2>1. CASE s # r
    BY <1>2, <1>10, <2>1 DEF FInv, OwnRows, Queues, Again, Kind
  <2>2. CASE s = r
    <3>1. Kind(r) = "queue" /\ Book(r) = Target[r] /\ r \in Reqs \cap Patrons /\ req[r].pc = "new"
      BY <1>2, <1>10, <2>2 DEF Kind, Book, Queues
    <3>2. lib'[r].row = 0
      BY <1>10, <2>2, <3>1 DEF Again, Kind
    <3>3. CASE lib[r].pc = "save" /\ lib'[r].pc = "downloads" /\ lib'[r].row = lib[r].row
      <4>1. ~Again(r)
        BY <3>2, <3>3 DEF Again
      <4> QED
        BY <1>10, <2>2, <3>3, <4>1 DEF FInv, OwnRows
    <3>4. CASE lib[r].pc = "new" /\ Active(Book(r)) = {} /\ Arrives(r, "queue")
      <4>1. ~Returning(Target[r])
        <5> SUFFICES ASSUME NEW t \in Reqs \cap Patrons, Op[t] = "remove", Book(t) = Target[r],
                            lib[t].pc = "downloads", req[t].pc \in {"new", "delete"}
                     PROVE  FALSE
          BY DEF Returning
        <5>1. UnderWay(t) /\ t # r /\ Kind(t) = "remove"
          BY <3>1 DEF UnderWay, Kind
        <5>2. {"remove", "queue"} \in Together /\ {"remove", "queue"} = {"queue", "remove"}
          BY <3>1, <3>4, <5>1 DEF Arrives
        <5> QED
          BY <5>2 DEF NothingLost, ReturnsApart
      <4>2. Target[r] \in Books
        BY <3>1, ConstantsAssumption
      <4>3. RowsOf(Target[r]) = {}
        BY <1>10, <2>2, <3>1, <3>4, <4>1, <4>2 DEF CInv, Covered
      <4> QED
        BY <2>2, <3>1, <4>3
    <3> QED
      BY <1>10, <2>2, <3>2, <3>3, <3>4, CheckoutsOwnSteps DEF LInv
  <2> QED
    BY <2>1, <2>2
<1>11. OwnRows'
  BY <1>2, <1>3, <1>5, <1>10 DEF OwnRows, Queues
<1>12. NoEvict' /\ OnDisk' /\ InPlace'
  BY <1>1, <1>2, <1>4, DiskStep DEF FInv, NoEvict
<1> QED
  BY <1>7, <1>8, <1>9, <1>11, <1>12 DEF FInv

LEMMA ShownReadyInit == CheckoutInit => FInv /\ History
<1> SUFFICES ASSUME CheckoutInit PROVE FInv /\ History
  OBVIOUS
<1>1. History
  BY HistoryInit DEF CheckoutInit
<1>2. /\ \A r \in Reqs : req[r].pc = "new"
      /\ \A r \in Patrons : lib[r].pc = "new"
      /\ \A id \in Ids : rows[id].status = "none"
      /\ \A w \in Loops : loop[w].pc = "idle"
  BY DEF CheckoutInit, Init, NoCall, NoRow, NoTask, Nothing
<1>3. \A b : RowsOf(b) = {}
  BY <1>2 DEF RowsOf, Exists
<1>4. NoEvict /\ Whole /\ Complete /\ Emptied
  BY <1>2, <1>3 DEF NoEvict, Whole, Filling, Queues, Complete, Emptied
<1>5. OwnRows /\ OnDisk /\ InPlace
  BY <1>2 DEF OwnRows, Queues, OnDisk, InPlace
<1> QED
  BY <1>1, <1>4, <1>5 DEF FInv

LEMMA ShownReadyStep ==
  ASSUME NothingLost, Base, FInv, [CheckoutNext]_all
  PROVE  FInv'
<1>0. [Next]_vars
  BY CheckoutStep
<1>1. ASSUME NEW r \in Patrons, LibraryStep(r) PROVE FInv'
  BY <1>1, LibraryKeepsAll
<1>2. ASSUME NEW r \in Reqs, DownloadStep(r) PROVE FInv'
  BY <1>2, CallKeepsAll
<1>3. CASE (\E w \in Loops : LoopStep(w)) /\ UNCHANGED <<shelf, lib>>
  BY <1>0, <1>3, LoopLeavesRequests, LoopKeepsAll
<1>4. CASE (BootFind \/ Resume \/ Destroy) /\ UNCHANGED <<shelf, lib>>
  <2>1. UNCHANGED req
    BY <1>4 DEF BootFind, Resume, Destroy
  <2> QED
    BY <1>0, <1>4, <2>1, LoopKeepsAll
<1>5. CASE Restart
  BY <1>5, RestartKeepsAll
<1>6. CASE UNCHANGED all
  <2>1. UNCHANGED <<shelf, lib, req>>
    BY <1>6 DEF all, vars
  <2> QED
    BY <1>0, <2>1, LoopKeepsAll
<1> QED
  BY <1>1, <1>2, <1>3, <1>4, <1>5, <1>6 DEF CheckoutNext

(* A book shown as ready, with no request about it under way, has a row for *)
(* each of its files (the checkout has passed all of them), each row is     *)
(* ready, and its file is on the disk: the loop renamed it there, and only  *)
(* a second checkout or a return would have removed it.  Loops, resumed     *)
(* downloads, marks, other books and restarts come in at every step.        *)
THEOREM ReadyIsCompleteAlways == NothingLost /\ CheckoutSpec => []ReadyIsComplete
<1> SUFFICES ASSUME NothingLost PROVE CheckoutSpec => []ReadyIsComplete
  OBVIOUS
<1>1. CheckoutInit => CInv /\ FInv /\ History
  BY CoveredInit, ShownReadyInit
<1>2. LInv /\ IInv /\ CInv /\ FInv /\ History /\ [CheckoutNext]_all => (CInv /\ FInv /\ History)'
  BY CoveredStep, ShownReadyStep, HistoryStep, CheckoutStep DEF NothingLost, Base
<1>3. CheckoutSpec => [](LInv /\ IInv)
  BY LibraryInvariance DEF NothingLost, ReturnsApart
<1>4. ASSUME FInv PROVE ReadyIsComplete
  <2> SUFFICES ASSUME NEW b \in Books, Settled(b), Summary(b) = "ready",
                      \A r \in Patrons : Book(r) = b => ~Again(r),
                      NEW f \in Files, BookOf[f] = b
               PROVE  f \in media
    BY DEF ReadyIsComplete
  <2>1. ~Spoilt(b)
    BY DEF Spoilt, CutOff, Settled
  <2>2. ~\E r : Filling(r) /\ Target[r] = b
    <3> SUFFICES ASSUME NEW r, Filling(r), Target[r] = b PROVE FALSE
      OBVIOUS
    <3>1. r \in Patrons /\ Book(r) = b /\ UnderWay(r)
      BY DEF Filling, Queues, Book, UnderWay
    <3> QED
      BY <3>1 DEF Settled
  <2>3. RowsOf(b) # {} /\ \A id \in RowsOf(b) : rows[id].status = "ready"
    <3> DEFINE st == {rows[id].status : id \in RowsOf(b)}
    <3>1. st = {"ready"}
      BY DEF Summary
    <3> QED
      BY <3>1
  <2>4. HasRow(f)
    BY <1>4, <2>1, <2>2, <2>3 DEF FInv, Complete, Spoilt
  <2>5. PICK id \in Ids : Exists(id) /\ FileOf(id) = f
    BY <2>4 DEF HasRow
  <2>6. rows[id].status = "ready"
    BY <2>3, <2>5 DEF RowsOf
  <2> QED
    BY <1>4, <2>1, <2>5, <2>6 DEF FInv, OnDisk
<1> QED
  BY <1>1, <1>2, <1>3, <1>4, PTL DEF CheckoutSpec

(* The same of the loop's queue: whatever is checked out, returned, marked  *)
(* or restarted, a row shown as queued or downloading is in the hands of    *)
(* the process, if the cache is not cleared and database calls answer.      *)
COROLLARY CheckoutForgetsNothing == NothingLost /\ CheckoutSpec => []NothingForgotten
<1> SUFFICES ASSUME NothingLost PROVE CheckoutSpec => []NothingForgotten
  OBVIOUS
<1>1. NoClears
  BY DEF NothingLost, ReturnsApart, NoClears
<1> QED
  BY <1>1, CheckoutImplementsCache, NothingForgottenAlways, PTL
=============================================================================
