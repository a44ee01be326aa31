-------------------------- MODULE QueueFilesProofs --------------------------
(***************************************************************************)
(* What the queue keeps at the grain of single file accesses, for any      *)
(* number of jobs, workers and clients and whatever overlaps: the records  *)
(* keep their shape, and a job that was not contested is executed by one   *)
(* worker at a time, which its record names.                               *)
(***************************************************************************)
EXTENDS QueueFiles, TLAPS

USE FilesAssumption, NoneAssumption

-----------------------------------------------------------------------------
(* The shape of what each thread does *)

\* Only lists that are being worked off have entries.
ListShaped(t) == todo[t] # {} => Heading(t) \in {"promote", "prepare", "reclaim", "free"}

\* Where a job or a worker is needed there is one.
TargetShaped(t) ==
  /\ Heading(t) \in {"claim", "assign", "check", "verify", "disowned", "dispatch", "fail", "cancel", "judge"}
       => target[t] \in Job
  /\ Heading(t) = "judge" => holder[t] \in Worker

\* The writes of job records: promotions, requeues, claims, outcomes and cancels.
WriteShaped(t) ==
  LET p == pending[t]
  IN p # None =>
       /\ p.next \in {"assign", "release"} => t \in Worker /\ target[t] \in Job /\ p.file = target[t]
       /\ p.file \in Job =>
            \/ p.next \in {"promote", "prepare", "free", "release"}
            \/ p.next = "assign" /\ p.record = [status |-> "running", owner |-> t]
            \/ p.next = "unassign" /\ p.record.status = "canceled"

Shaped(t) == ListShaped(t) /\ TargetShaped(t) /\ WriteShaped(t)

Shapes == TypeOK /\ \A t \in Thread : Shaped(t)

Step(a) ==
  \/ a \in Worker /\ (LoopNext(a) \/ Crash(a))
  \/ a \in Client /\ RequestNext(a)

\* A step of a leaves the other threads where they are.
OthersStay(a) ==
  \A t \in Thread \ {a} :
    /\ pc'[t] = pc[t] /\ target'[t] = target[t] /\ holder'[t] = holder[t]
    /\ todo'[t] = todo[t] /\ pending'[t] = pending[t]

LEMMA Stays ==
  ASSUME TypeOK, NEW a \in Thread, Step(a)
  PROVE  OthersStay(a) /\ Noted
<1>1. CASE ListDue(a)  BY <1>1 DEF ListDue, Goto, OthersStay, TypeOK
<1>2. CASE Promote(a)  BY <1>2 DEF Promote, BeginWrite, Goto, OthersStay, TypeOK
<1>3. CASE ListRunning(a)  BY <1>3 DEF ListRunning, Goto, OthersStay, TypeOK
<1>4. CASE Requeue(a)  BY <1>4 DEF Requeue, BeginWrite, Goto, OthersStay, TypeOK
<1>5. CASE Free(a)  BY <1>5 DEF Free, BeginWrite, Goto, Forget, OthersStay, TypeOK
<1>6. CASE EndReclaim(a)  BY <1>6 DEF EndReclaim, Goto, OthersStay, TypeOK
<1>7. CASE Heartbeat(a)  BY <1>7 DEF Heartbeat, BeginWrite, Goto, OthersStay, TypeOK
<1>8. CASE Choose(a)  BY <1>8 DEF Choose, Goto, OthersStay, TypeOK
<1>9. CASE Claim(a)  BY <1>9 DEF Claim, BeginWrite, Goto, OthersStay, TypeOK
<1>10. CASE Assign(a)  BY <1>10 DEF Assign, BeginWrite, Goto, OthersStay, TypeOK
<1>11. CASE Verify(a)  BY <1>11 DEF Verify, Goto, Forget, OthersStay, TypeOK
<1>12. CASE Complete(a)  BY <1>12 DEF Complete, BeginWrite, Goto, OthersStay, TypeOK
<1>13. CASE DispatchRaises(a)  BY <1>13 DEF DispatchRaises, Goto, OthersStay, TypeOK
<1>14. CASE Fail(a)  BY <1>14 DEF Fail, BeginWrite, Goto, OthersStay, TypeOK
<1>15. CASE Release(a)  BY <1>15 DEF Release, BeginWrite, Goto, Forget, OthersStay, TypeOK
<1>16. CASE Raise(a)  BY <1>16 DEF Raise, Goto, Forget, OthersStay, TypeOK
<1>17. CASE LoopEnds(a)  BY <1>17 DEF LoopEnds, Goto, OthersStay, TypeOK
<1>18. CASE Crash(a)  BY <1>18 DEF Crash, Goto, Forget, OthersStay, TypeOK
<1>19. CASE Cancel(a)  BY <1>19 DEF Cancel, Goto, OthersStay, TypeOK
<1>20. CASE CancelJob(a)  BY <1>20 DEF CancelJob, BeginWrite, Goto, Forget, OthersStay, TypeOK
<1>21. CASE Unassign(a)  BY <1>21 DEF Unassign, BeginWrite, Goto, Forget, OthersStay, TypeOK
<1>22. CASE ListWorkers(a)  BY <1>22 DEF ListWorkers, Goto, OthersStay, TypeOK
<1>23. CASE Judge(a)  BY <1>23 DEF Judge, BeginWrite, Goto, Forget, OthersStay, TypeOK
<1>24. CASE EndRequest(a)  BY <1>24 DEF EndRequest, Goto, OthersStay, TypeOK
<1>25. CASE Open(a)  BY <1>25 DEF Open, Goto, OthersStay, TypeOK
<1>26. CASE Dump(a)  BY <1>26 DEF Dump, Goto, OthersStay, TypeOK
<1> QED
  BY <1>1, <1>2, <1>3, <1>4, <1>5, <1>6, <1>7, <1>8, <1>9, <1>10, <1>11, <1>12, <1>13, <1>14, <1>15,
     <1>16, <1>17, <1>18, <1>19, <1>20, <1>21, <1>22, <1>23, <1>24, <1>25, <1>26 DEF Step, LoopNext,
     RequestNext

LEMMA ShapesOfOne ==
  ASSUME TypeOK', \A t \in Thread : Shaped(t), NEW a \in Thread, OthersStay(a), Shaped(a)'
  PROVE  Shapes'
<1>1. ASSUME NEW t \in Thread, t # a  PROVE Shaped(t)'
  <2>1. pc'[t] = pc[t] /\ target'[t] = target[t] /\ holder'[t] = holder[t]
        /\ todo'[t] = todo[t] /\ pending'[t] = pending[t]
    BY <1>1 DEF OthersStay
  <2> QED  BY <2>1 DEF Shaped, ListShaped, TargetShaped, WriteShaped, Heading
<1> QED  BY <1>1 DEF Shapes

LEMMA ShapesKept ==
  ASSUME Shapes, NEW a \in Thread, Step(a)
  PROVE  Shapes'
<1> USE DEF Shapes
<1>0. OthersStay(a) /\ exposed' \subseteq Job  BY Stays DEF Noted, Contested, TypeOK
<1>1. CASE ListDue(a)
  <2>1. TypeOK'
    BY <1>0, <1>1 DEF ListDue, Goto, NoWrite, TypeOK, Thread, File, Place, WorkerPlace, Scheduled,
       Shaped, TargetShaped, Heading
  <2>2. Shaped(a)'
    BY <1>1 DEF ListDue, Goto, NoWrite, TypeOK, Thread, File, Shaped, ListShaped, TargetShaped,
       WriteShaped, Heading
  <2> QED  BY <1>0, <2>1, <2>2, ShapesOfOne
<1>2. CASE Promote(a)
  <2>1. PICK j \in Job : /\ <<j, None>> \in todo[a]
                         /\ todo' = [todo EXCEPT ![a] = @ \ {<<j, None>>}]
                         /\ BeginWrite(a, j, [file[j] EXCEPT !.status = "queued"], pc[a])
    BY <1>2 DEF Promote
  <2>2. [file[j] EXCEPT !.status = "queued"] \in JobRecord
    BY DEF TypeOK, JobRecord
  <2>3. TypeOK'
    BY <1>0, <1>2, <2>1, <2>2 DEF Promote, BeginWrite, Goto, NoWrite, TypeOK, File, Write, AfterWrite,
       Place, WorkerPlace
  <2>4. pending'[a].file = j /\ pending'[a].next = pc[a] /\ pending'[a] # None
    BY <2>1, <2>3 DEF BeginWrite, Goto, TypeOK
  <2>5. Shaped(a)'
    BY <1>2, <2>1, <2>4 DEF Promote, TypeOK, Shaped, ListShaped, TargetShaped, WriteShaped, Heading
  <2> QED  BY <1>0, <2>3, <2>5, ShapesOfOne
<1>3. CASE ListRunning(a)
  <2>1. TypeOK'
    BY <1>0, <1>3 DEF ListRunning, Goto, NoWrite, TypeOK, Thread, File, Place, WorkerPlace, Running,
       JobRecord, Shaped, TargetShaped, Heading
  <2>2. Shaped(a)'
    BY <1>3 DEF ListRunning, Goto, NoWrite, TypeOK, Thread, File, Shaped, ListShaped, TargetShaped,
       WriteShaped, Heading
  <2> QED  BY <1>0, <2>1, <2>2, ShapesOfOne
<1>4. CASE Requeue(a)
  <2>1. PICK j \in Job, w \in Worker \cup {None} :
          /\ todo' = [todo EXCEPT ![a] = @ \ {<<j, w>>}]
          /\ target' = [target EXCEPT ![a] = j]
          /\ holder' = [holder EXCEPT ![a] = w]
          /\ BeginWrite(a, j, [file[j] EXCEPT !.status = "queued", !.owner = None], "free")
    BY <1>4 DEF Requeue
  <2>2. [file[j] EXCEPT !.status = "queued", !.owner = None] \in JobRecord
    BY DEF TypeOK, JobRecord
  <2>3. TypeOK'
    BY <1>0, <1>4, <2>1, <2>2 DEF Requeue, BeginWrite, Goto, NoWrite, TypeOK, File, Write, AfterWrite
  <2>4. pending'[a].file = j /\ pending'[a].next = "free" /\ pending'[a] # None
    BY <2>1, <2>3 DEF BeginWrite, Goto, TypeOK
  <2>5. Shaped(a)'
    BY <1>4, <2>1, <2>4 DEF Requeue, TypeOK, Shaped, ListShaped, TargetShaped, WriteShaped, Heading
  <2> QED  BY <1>0, <2>3, <2>5, ShapesOfOne
<1>5. CASE Free(a)
  <2>1. TypeOK'
    BY <1>0, <1>5 DEF Free, BeginWrite, Goto, Forget, NoWrite, TypeOK, Thread, File, Write, AfterWrite,
       JobRecord, WorkerRecord, Idle, Place, WorkerPlace, Shaped, TargetShaped, Heading
  <2>3. /\ Heading(a) = "free" /\ Heading(a)' = "reclaim"
        /\ pending'[a] # None => pending'[a].file \notin Job /\ pending'[a].next = "reclaim"
    BY <1>5, <2>1 DEF Free, BeginWrite, Goto, Forget, TypeOK, Heading
  <2>2. Shaped(a)'  BY <2>3 DEF Shaped, ListShaped, TargetShaped, WriteShaped
  <2> QED  BY <1>0, <2>1, <2>2, ShapesOfOne
<1>6. CASE EndReclaim(a)
  <2>1. TypeOK'
    BY <1>0, <1>6 DEF EndReclaim, Goto, NoWrite, TypeOK, Thread, File, Place, WorkerPlace, Shaped,
       TargetShaped, Heading
  <2>2. Shaped(a)'
    BY <1>6 DEF EndReclaim, Goto, NoWrite, TypeOK, Thread, File, Shaped, ListShaped, TargetShaped,
       WriteShaped, Heading
  <2> QED  BY <1>0, <2>1, <2>2, ShapesOfOne
<1>7. CASE a \in Worker /\ Heartbeat(a)
  <2>1. TypeOK'
    BY <1>0, <1>7 DEF Heartbeat, BeginWrite, Goto, NoWrite, TypeOK, Thread, File, Write, AfterWrite,
       JobRecord, WorkerRecord, Idle, Place, WorkerPlace, Shaped, TargetShaped, Heading
  <2>2. PICK next \in {"again", "beat", "verify", "disowned", "idle"} :
          /\ BeginWrite(a, a, file[a], next)
          /\ next = "beat" => Heading(a) = "renew"
          /\ next \in {"verify", "disowned"} => Heading(a) = "check"
    BY <1>7 DEF Heartbeat, BeginWrite, Heading, TypeOK
  <2>3. /\ Heading(a)' = next /\ todo'[a] = todo[a] /\ target'[a] = target[a]
        /\ Heading(a) \in {"renew", "check", "beat"}
        /\ pending'[a] # None => pending'[a].file = a /\ pending'[a].next = next
    BY <1>7, <2>1, <2>2 DEF Heartbeat, BeginWrite, Goto, NoWrite, TypeOK, Heading
  <2>4. a \notin Job  BY <1>7, FilesAssumption
  <2>5. Shaped(a)'  BY <2>2, <2>3, <2>4 DEF Shaped, ListShaped, TargetShaped, WriteShaped
  <2> QED  BY <1>0, <2>1, <2>5, ShapesOfOne
<1>8. CASE a \in Worker /\ Choose(a)
  <2>1. TypeOK'
    BY <1>0, <1>8 DEF Choose, Goto, NoWrite, TypeOK, Thread, File, Place, WorkerPlace, Shaped,
       TargetShaped, Heading
  <2>2. Shaped(a)'
    BY <1>8 DEF Choose, Goto, NoWrite, TypeOK, Thread, File, Shaped, ListShaped, TargetShaped,
       WriteShaped, Heading
  <2> QED  BY <1>0, <2>1, <2>2, ShapesOfOne
<1>9. CASE a \in Worker /\ Claim(a)
  <2>1. TypeOK'
    BY <1>0, <1>9 DEF Claim, BeginWrite, Goto, NoWrite, TypeOK, Thread, File, Write, AfterWrite,
       JobRecord, WorkerRecord, Idle, Place, WorkerPlace, Shaped, TargetShaped, Heading
  <2>2. Shaped(a)'
    BY <1>9 DEF Claim, BeginWrite, Goto, NoWrite, TypeOK, Thread, File, Shaped, ListShaped, TargetShaped,
       WriteShaped, Heading
  <2> QED  BY <1>0, <2>1, <2>2, ShapesOfOne
<1>10. CASE a \in Worker /\ Assign(a)
  <2>1. TypeOK'
    BY <1>0, <1>10 DEF Assign, BeginWrite, Goto, NoWrite, TypeOK, Thread, File, Write, AfterWrite,
       JobRecord, WorkerRecord, Idle, Place, WorkerPlace, Shaped, TargetShaped, Heading
  <2>2. Shaped(a)'
    BY <1>10 DEF Assign, BeginWrite, Goto, NoWrite, TypeOK, Thread, File, Shaped, ListShaped,
       TargetShaped, WriteShaped, Heading
  <2> QED  BY <1>0, <2>1, <2>2, ShapesOfOne
<1>11. CASE a \in Worker /\ Verify(a)
  <2>1. TypeOK'
    BY <1>0, <1>11 DEF Verify, Goto, Forget, NoWrite, TypeOK, Thread, File, Place, WorkerPlace, Shaped,
       TargetShaped, Heading
  <2>2. Shaped(a)'
    BY <1>11 DEF Verify, Goto, Forget, NoWrite, TypeOK, Thread, File, Shaped, ListShaped, TargetShaped,
       WriteShaped, Heading
  <2> QED  BY <1>0, <2>1, <2>2, ShapesOfOne
<1>12. CASE a \in Worker /\ Complete(a)
  <2>1. TypeOK'
    BY <1>0, <1>12 DEF Complete, BeginWrite, Goto, NoWrite, TypeOK, Thread, File, Write, AfterWrite,
       JobRecord, WorkerRecord, Idle, Place, WorkerPlace, Shaped, TargetShaped, Heading
  <2>2. Shaped(a)'
    BY <1>12 DEF Complete, BeginWrite, Goto, NoWrite, TypeOK, Thread, File, Shaped, ListShaped,
       TargetShaped, WriteShaped, Heading
  <2> QED  BY <1>0, <2>1, <2>2, ShapesOfOne
<1>13. CASE a \in Worker /\ DispatchRaises(a)
  <2>1. TypeOK'
    BY <1>0, <1>13 DEF DispatchRaises, Goto, NoWrite, TypeOK, Thread, File, Place, WorkerPlace, Shaped,
       TargetShaped, Heading
  <2>2. Shaped(a)'
    BY <1>13 DEF DispatchRaises, Goto, NoWrite, TypeOK, Thread, File, Shaped, ListShaped, TargetShaped,
       WriteShaped, Heading
  <2> QED  BY <1>0, <2>1, <2>2, ShapesOfOne
<1>14. CASE a \in Worker /\ Fail(a)
  <2>3. target[a] \in Job  BY <1>14 DEF Fail, Shaped, TargetShaped, Heading, TypeOK
  <2>4. \A r \in Outcomes : [status |-> r, owner |-> None] \in JobRecord  BY DEF JobRecord
  <2>1. TypeOK'
    BY <1>0, <1>14, <2>3, <2>4 DEF Fail, BeginWrite, Goto, NoWrite, TypeOK, File, Write, AfterWrite, Place,
       WorkerPlace
  <2>2. Shaped(a)'
    BY <1>14 DEF Fail, BeginWrite, Goto, NoWrite, TypeOK, Thread, File, Shaped, ListShaped, TargetShaped,
       WriteShaped, Heading
  <2> QED  BY <1>0, <2>1, <2>2, ShapesOfOne
<1>15. CASE a \in Worker /\ Release(a)
  <2>1. TypeOK'
    BY <1>0, <1>15 DEF Release, BeginWrite, Goto, Forget, NoWrite, TypeOK, Thread, File, Write,
       AfterWrite, JobRecord, WorkerRecord, Idle, Place, WorkerPlace, Shaped, TargetShaped, Heading
  <2>3. PICK next \in {"idle", "beat"} : BeginWrite(a, a, Idle, next)  BY <1>15 DEF Release
  <2>4. /\ Heading(a) = "release" /\ Heading(a)' = next /\ todo'[a] = todo[a]
        /\ pending'[a] # None => pending'[a].file = a /\ pending'[a].next = next
    BY <1>15, <2>1, <2>3 DEF Release, BeginWrite, Goto, TypeOK, Heading
  <2>2. Shaped(a)'  BY <1>15, <2>4 DEF Shaped, ListShaped, TargetShaped, WriteShaped
  <2> QED  BY <1>0, <2>1, <2>2, ShapesOfOne
<1>16. CASE Raise(a)
  <2>1. TypeOK'
    BY <1>0, <1>16 DEF Raise, Goto, Forget, NoWrite, TypeOK, Thread, File, Place, WorkerPlace, Shaped,
       TargetShaped, Heading
  <2>2. Shaped(a)'
    BY <1>16 DEF Raise, Goto, Forget, NoWrite, TypeOK, Thread, File, Shaped, ListShaped, TargetShaped,
       WriteShaped, Heading
  <2> QED  BY <1>0, <2>1, <2>2, ShapesOfOne
<1>17. CASE a \in Worker /\ LoopEnds(a)
  <2>1. TypeOK'
    BY <1>0, <1>17 DEF LoopEnds, Goto, NoWrite, TypeOK, Thread, File, Place, WorkerPlace, Shaped,
       TargetShaped, Heading
  <2>2. Shaped(a)'
    BY <1>17 DEF LoopEnds, Goto, NoWrite, TypeOK, Thread, File, Shaped, ListShaped, TargetShaped,
       WriteShaped, Heading
  <2> QED  BY <1>0, <2>1, <2>2, ShapesOfOne
<1>18. CASE a \in Worker /\ Crash(a)
  <2>1. TypeOK'
    BY <1>0, <1>18 DEF Crash, Goto, Forget, NoWrite, TypeOK, Thread, File, Place, WorkerPlace, Shaped,
       TargetShaped, Heading
  <2>2. Shaped(a)'
    BY <1>18 DEF Crash, Goto, Forget, NoWrite, TypeOK, Thread, File, Shaped, ListShaped, TargetShaped,
       WriteShaped, Heading
  <2> QED  BY <1>0, <2>1, <2>2, ShapesOfOne
<1>19. CASE a \in Client /\ Cancel(a)
  <2>3. \A j \in Job : file[j].owner \in Worker \cup {None}  BY DEF TypeOK, JobRecord
  <2>1. TypeOK'  BY <1>0, <1>19, <2>3 DEF Cancel, Goto, NoWrite, TypeOK, Place
  <2>2. Shaped(a)'
    BY <1>19 DEF Cancel, Goto, NoWrite, TypeOK, Thread, File, Shaped, ListShaped, TargetShaped,
       WriteShaped, Heading
  <2> QED  BY <1>0, <2>1, <2>2, ShapesOfOne
<1>20. CASE a \in Client /\ CancelJob(a)
  <2>3. target[a] \in Job  BY <1>20 DEF CancelJob, Shaped, TargetShaped, Heading, TypeOK
  <2>4. \A o \in Worker \cup {None} : [status |-> "canceled", owner |-> o] \in JobRecord  BY DEF JobRecord
  <2>5. file[target[a]].owner \in Worker \cup {None}  BY <2>3 DEF TypeOK, JobRecord
  <2>1. TypeOK'
    <3>1. CASE file[target[a]].status \in {"queued", "scheduled", "running"}
      <4>1. PICK o \in Worker \cup {None} :
              BeginWrite(a, target[a], [status |-> "canceled", owner |-> o], "unassign")
        BY <1>20, <2>5, <3>1 DEF CancelJob
      <4>2. [file |-> target[a], record |-> [status |-> "canceled", owner |-> o], next |-> "unassign"] \in Write
        BY <2>3, <2>4 DEF Write, AfterWrite
      <4> QED
        BY <1>0, <1>20, <3>1, <4>1, <4>2, NoneAssumption DEF CancelJob, BeginWrite, Goto, NoWrite, TypeOK
    <3>2. CASE file[target[a]].status \notin {"queued", "scheduled", "running"}
      BY <1>0, <1>20, <3>2 DEF CancelJob, Goto, Forget, NoWrite, TypeOK, Place, WorkerPlace
    <3> QED  BY <3>1, <3>2
  <2>2. Shaped(a)'
    BY <1>20 DEF CancelJob, BeginWrite, Goto, Forget, NoWrite, TypeOK, Thread, File, Shaped, ListShaped,
       TargetShaped, WriteShaped, Heading
  <2> QED  BY <1>0, <2>1, <2>2, ShapesOfOne
<1>21. CASE a \in Client /\ Unassign(a)
  <2>1. TypeOK'
    BY <1>0, <1>21 DEF Unassign, BeginWrite, Goto, Forget, NoWrite, TypeOK, Thread, File, Write,
       AfterWrite, JobRecord, WorkerRecord, Idle, Place, WorkerPlace, Shaped, TargetShaped, Heading
  <2>2. Shaped(a)'
    BY <1>21 DEF Unassign, BeginWrite, Goto, Forget, NoWrite, TypeOK, Thread, File, Shaped, ListShaped,
       TargetShaped, WriteShaped, Heading
  <2> QED  BY <1>0, <2>1, <2>2, ShapesOfOne
<1>22. CASE a \in Client /\ ListWorkers(a)
  <2>1. PICK w \in Worker : /\ file[w].job # None
                            /\ target' = [target EXCEPT ![a] = file[w].job]
                            /\ holder' = [holder EXCEPT ![a] = w]
    BY <1>22 DEF ListWorkers
  <2>2. file[w].job \in Job  BY <2>1 DEF TypeOK, WorkerRecord
  <2>3. TypeOK'  BY <1>0, <1>22, <2>1, <2>2 DEF ListWorkers, Goto, NoWrite, TypeOK, Place
  <2>4. Shaped(a)'
    BY <1>22, <2>1, <2>2 DEF ListWorkers, Goto, TypeOK, Shaped, ListShaped, TargetShaped, WriteShaped, Heading
  <2> QED  BY <1>0, <2>3, <2>4, ShapesOfOne
<1>23. CASE a \in Client /\ Judge(a)
  <2>1. TypeOK'
    BY <1>0, <1>23 DEF Judge, BeginWrite, Goto, Forget, NoWrite, TypeOK, Thread, File, Write, AfterWrite,
       JobRecord, WorkerRecord, Idle, Place, WorkerPlace, Shaped, TargetShaped, Heading
  <2>2. Shaped(a)'
    BY <1>23 DEF Judge, BeginWrite, Goto, Forget, NoWrite, TypeOK, Thread, File, Shaped, ListShaped,
       TargetShaped, WriteShaped, Heading
  <2> QED  BY <1>0, <2>1, <2>2, ShapesOfOne
<1>24. CASE a \in Client /\ EndRequest(a)
  <2>1. TypeOK'
    BY <1>0, <1>24 DEF EndRequest, Goto, NoWrite, TypeOK, Thread, File, Place, WorkerPlace, Shaped,
       TargetShaped, Heading
  <2>2. Shaped(a)'
    BY <1>24 DEF EndRequest, Goto, NoWrite, TypeOK, Thread, File, Shaped, ListShaped, TargetShaped,
       WriteShaped, Heading
  <2> QED  BY <1>0, <2>1, <2>2, ShapesOfOne
<1>25. CASE Open(a)
  <2>1. TypeOK'
    BY <1>0, <1>25 DEF Open, Goto, NoWrite, TypeOK, Thread, File, Place, WorkerPlace, Write, AfterWrite,
       Shaped, WriteShaped, TargetShaped, Heading
  <2>2. Shaped(a)'
    BY <1>25 DEF Open, Goto, NoWrite, TypeOK, Thread, File, Shaped, ListShaped, TargetShaped,
       WriteShaped, Heading
  <2> QED  BY <1>0, <2>1, <2>2, ShapesOfOne
<1>26. CASE Dump(a)
  <2>1. TypeOK'
    BY <1>0, <1>26 DEF Dump, Goto, NoWrite, TypeOK, Thread, File, Place, WorkerPlace, Write, AfterWrite,
       Shaped, WriteShaped, TargetShaped, Heading
  <2>2. Shaped(a)'
    BY <1>26 DEF Dump, Goto, NoWrite, TypeOK, Thread, File, Shaped, ListShaped, TargetShaped,
       WriteShaped, Heading
  <2> QED  BY <1>0, <2>1, <2>2, ShapesOfOne
<1> QED
  BY <1>1, <1>2, <1>3, <1>4, <1>5, <1>6, <1>7, <1>8, <1>9, <1>10, <1>11, <1>12, <1>13, <1>14, <1>15,
     <1>16, <1>17, <1>18, <1>19, <1>20, <1>21, <1>22, <1>23, <1>24, <1>25, <1>26 DEF Step, LoopNext,
     RequestNext, Thread

-----------------------------------------------------------------------------
(* Who may have a job that was not contested *)

Taking == {"promote", "prepare", "free", "assign"}

\* While a worker works on a job its record names it, unless it is canceled,
\* nobody else works on it, and nobody is about to queue or to claim it.
Exclusive(j) ==
  \A w \in Worker : WorksOn(w, j) =>
    /\ file[j] = [status |-> "running", owner |-> w] \/ file[j].status = "canceled"
    /\ \A v \in Worker : WorksOn(v, j) => v = w
    /\ \A t \in Thread : ~ InHand(t, j)

Claims ==
  /\ Contested \subseteq exposed
  /\ \A j \in Job \ exposed : Exclusive(j)

\* The steps of a that leave Exclusive(j) alone: the record of j stays or is
\* canceled, a does not begin to work on j, and a takes j in hand only where it
\* found j in a status that nobody works on.
Modest(a, j) ==
  /\ file'[j] = file[j] \/ file'[j].status = "canceled"
  /\ WorksOn(a, j)' => WorksOn(a, j)
  /\ \A e \in todo'[a] : e[1] = j =>
       \/ e \in todo[a]
       \/ file[j].status = "scheduled"
       \/ file[j].status = "running" /\ e[2] = file[j].owner
  /\ pc'[a] = "claim" /\ target'[a] = j => file[j].status = "queued"
  /\ Writes(a, j, Taking)' => InHand(a, j) \/ j \in Contested'

\* Threads that stay where they are work on what they worked on.
LEMMA StayersWork ==
  ASSUME NEW a \in Thread, OthersStay(a), NEW t \in Thread, t # a, NEW j \in Job
  PROVE  /\ WorksOn(t, j)' <=> WorksOn(t, j)
         /\ \A places : Writes(t, j, places)' <=> Writes(t, j, places)
<1>1. pc'[t] = pc[t] /\ target'[t] = target[t] /\ pending'[t] = pending[t]
  BY DEF OthersStay
<1> QED  BY <1>1 DEF WorksOn, Heading, Writes

\* What a thread that stays has in hand it had in hand before, unless somebody
\* stopped working on the job it has listed.
LEMMA StayersHand ==
  ASSUME NEW a \in Thread, OthersStay(a), NEW t \in Thread, t # a, NEW j \in Job, InHand(t, j)'
  PROVE  InHand(t, j) \/ \E e \in todo[t] : e[1] = j /\ WorksOn(e[2], j) /\ ~ WorksOn(e[2], j)'
<1>1. pc'[t] = pc[t] /\ target'[t] = target[t] /\ todo'[t] = todo[t] /\ pending'[t] = pending[t]
  BY DEF OthersStay
<1> QED  BY <1>1 DEF InHand, Writes

LEMMA ModestKeeps ==
  ASSUME Shapes, Claims, NEW a \in Thread, OthersStay(a), Noted, NEW j \in Job \ exposed', Modest(a, j)
  PROVE  Exclusive(j)'
<1>1. j \notin exposed /\ j \notin Contested' /\ Exclusive(j)  BY DEF Noted, Claims
<1>2. SUFFICES ASSUME NEW w \in Worker, WorksOn(w, j)'
               PROVE  /\ file'[j] = [status |-> "running", owner |-> w] \/ file'[j].status = "canceled"
                      /\ \A v \in Worker : WorksOn(v, j)' => v = w
                      /\ \A t \in Thread : ~ InHand(t, j)'
  BY DEF Exclusive
<1>3. \A v \in Worker : WorksOn(v, j)' => WorksOn(v, j)
  BY StayersWork DEF Modest, Thread
<1>4. WorksOn(w, j)  BY <1>2, <1>3
<1>5. /\ file[j] = [status |-> "running", owner |-> w] \/ file[j].status = "canceled"
      /\ \A v \in Worker : WorksOn(v, j) => v = w
      /\ \A t \in Thread : ~ InHand(t, j)
  BY <1>1, <1>4 DEF Exclusive
<1>6. \A v : WorksOn(v, j) => WorksOn(v, j)'
  <2>1. ASSUME NEW v, WorksOn(v, j)  PROVE WorksOn(v, j)'
    <3>1. v \in Worker  BY <2>1 DEF WorksOn
    <3> QED  BY <1>2, <1>5, <2>1, <3>1
  <2> QED  BY <2>1
<1>7. ASSUME NEW t \in Thread, t # a, InHand(t, j)'  PROVE FALSE
  BY <1>5, <1>6, <1>7, StayersHand
<1>8. ASSUME InHand(a, j)'  PROVE FALSE
  <2>1. CASE \E e \in todo'[a] : e[1] = j /\ ~ WorksOn(e[2], j)'
    <3>1. PICK e \in todo'[a] : e[1] = j /\ ~ WorksOn(e[2], j)'  BY <2>1
    <3>2. CASE e \in todo[a]  BY <1>5, <1>6, <3>1, <3>2 DEF InHand
    <3>3. CASE file[j].status = "running" /\ e[2] = file[j].owner
      BY <1>2, <1>5, <3>1, <3>3
    <3> QED  BY <1>5, <3>1, <3>2, <3>3 DEF Modest
  <2>2. CASE pc'[a] = "claim" /\ target'[a] = j  BY <1>5, <2>2 DEF Modest
  <2>3. CASE Writes(a, j, Taking)'  BY <1>1, <1>5, <2>3 DEF Modest
  <2> QED  BY <1>8, <2>1, <2>2, <2>3 DEF InHand, Taking
<1> QED  BY <1>3, <1>5, <1>7, <1>8 DEF Modest

LEMMA StepsAreModest ==
  ASSUME Shapes, NEW a \in Thread, Step(a), ~ Dump(a), NEW j \in Job
  PROVE  Modest(a, j)
<1> USE DEF Shapes
<1>1. CASE ListDue(a)
  BY <1>1 DEF Modest, ListDue, Goto, NoWrite, TypeOK, WorksOn, Heading, Writes, InHand, Taking, Scheduled
<1>2. CASE Promote(a)
  BY <1>2 DEF Modest, Promote, BeginWrite, Goto, NoWrite, TypeOK, WorksOn, Heading, Writes, InHand, Taking
<1>3. CASE ListRunning(a)
  BY <1>3 DEF Modest, ListRunning, Goto, NoWrite, TypeOK, WorksOn, Heading, Writes, InHand, Taking, Running
<1>4. CASE Requeue(a)
  <2>1. PICK i \in Job, w \in Worker \cup {None} :
          /\ <<i, w>> \in todo[a]
          /\ todo' = [todo EXCEPT ![a] = @ \ {<<i, w>>}]
          /\ holder' = [holder EXCEPT ![a] = w]
          /\ BeginWrite(a, i, [file[i] EXCEPT !.status = "queued", !.owner = None], "free")
    BY <1>4 DEF Requeue
  <2>2. ASSUME Writes(a, j, Taking)'  PROVE InHand(a, j) \/ j \in Contested'
    <3>1. i = j  BY <2>1, <2>2 DEF Writes, BeginWrite, TypeOK
    <3>2. CASE ~ WorksOn(w, j)  BY <2>1, <3>1, <3>2 DEF InHand
    <3>3. CASE WorksOn(w, j)
      <4>1. w # a  BY <1>4, <3>3 DEF Requeue, WorksOn, Heading, TypeOK
      <4>2. WorksOn(w, j)'  BY <3>3, <4>1, Stays, StayersWork DEF WorksOn, Thread
      <4>3. holder'[a] = w /\ Writes(a, j, {"free"})'
        BY <2>1, <2>2 DEF Writes, BeginWrite, TypeOK
      <4> QED  BY <4>2, <4>3 DEF Contested
    <3> QED  BY <3>2, <3>3
  <2>3. ~ WorksOn(a, j)' /\ pc'[a] # "claim" /\ file' = file
    BY <1>4, <2>1 DEF Requeue, NoWrite, BeginWrite, Goto, WorksOn, Heading, TypeOK
  <2>4. todo'[a] \subseteq todo[a]  BY <2>1 DEF TypeOK
  <2> QED  BY <2>2, <2>3, <2>4 DEF Modest
<1>5. CASE Free(a)
  BY <1>5 DEF Modest, Free, BeginWrite, Goto, Forget, NoWrite, TypeOK, WorksOn, Heading, Writes, InHand,
     Taking
<1>6. CASE EndReclaim(a)
  BY <1>6 DEF Modest, EndReclaim, Goto, NoWrite, TypeOK, WorksOn, Heading, Writes, InHand, Taking
<1>7. CASE a \in Worker /\ Heartbeat(a)
  BY <1>7 DEF Modest, Heartbeat, BeginWrite, Goto, NoWrite, TypeOK, WorksOn, Heading, Writes, InHand, Taking
<1>8. CASE a \in Worker /\ Choose(a)
  BY <1>8 DEF Modest, Choose, Goto, NoWrite, TypeOK, WorksOn, Heading, Writes, InHand, Taking, Claimable
<1>9. CASE a \in Worker /\ Claim(a)
  BY <1>9 DEF Modest, Claim, BeginWrite, Goto, NoWrite, TypeOK, WorksOn, Heading, Writes, InHand, Taking
<1>10. CASE a \in Worker /\ Assign(a)
  BY <1>10 DEF Modest, Assign, BeginWrite, Goto, NoWrite, TypeOK, WorksOn, Heading, Writes, InHand, Taking
<1>11. CASE a \in Worker /\ Verify(a)
  BY <1>11 DEF Modest, Verify, Goto, Forget, NoWrite, TypeOK, WorksOn, Heading, Writes, InHand, Taking
<1>12. CASE a \in Worker /\ Complete(a)
  BY <1>12 DEF Modest, Complete, BeginWrite, Goto, NoWrite, TypeOK, WorksOn, Heading, Writes, InHand, Taking
<1>13. CASE a \in Worker /\ DispatchRaises(a)
  BY <1>13 DEF Modest, DispatchRaises, Goto, NoWrite, TypeOK, WorksOn, Heading, Writes, InHand, Taking
<1>14. CASE a \in Worker /\ Fail(a)
  BY <1>14 DEF Modest, Fail, BeginWrite, Goto, NoWrite, TypeOK, WorksOn, Heading, Writes, InHand, Taking
<1>15. CASE a \in Worker /\ Release(a)
  BY <1>15 DEF Modest, Release, BeginWrite, Goto, Forget, NoWrite, TypeOK, WorksOn, Heading, Writes,
     InHand, Taking
<1>16. CASE Raise(a)
  BY <1>16 DEF Modest, Raise, Goto, Forget, NoWrite, TypeOK, WorksOn, Heading, Writes, InHand, Taking
<1>17. CASE a \in Worker /\ LoopEnds(a)
  BY <1>17 DEF Modest, LoopEnds, Goto, NoWrite, TypeOK, WorksOn, Heading, Writes, InHand, Taking
<1>18. CASE a \in Worker /\ Crash(a)
  BY <1>18 DEF Modest, Crash, Goto, Forget, NoWrite, TypeOK, WorksOn, Heading, Writes, InHand, Taking
<1>19. CASE a \in Client /\ Cancel(a)
  BY <1>19 DEF Modest, Cancel, Goto, NoWrite, TypeOK, WorksOn, Heading, Writes, InHand, Taking
<1>20. CASE a \in Client /\ CancelJob(a)
  BY <1>20 DEF Modest, CancelJob, BeginWrite, Goto, Forget, NoWrite, TypeOK, WorksOn, Heading, Writes,
     InHand, Taking
<1>21. CASE a \in Client /\ Unassign(a)
  BY <1>21 DEF Modest, Unassign, BeginWrite, Goto, Forget, NoWrite, TypeOK, WorksOn, Heading, Writes,
     InHand, Taking
<1>22. CASE a \in Client /\ ListWorkers(a)
  BY <1>22 DEF Modest, ListWorkers, Goto, NoWrite, TypeOK, WorksOn, Heading, Writes, InHand, Taking
<1>23. CASE a \in Client /\ Judge(a)
  BY <1>23 DEF Modest, Judge, BeginWrite, Goto, Forget, NoWrite, TypeOK, WorksOn, Heading, Writes,
     InHand, Taking
<1>24. CASE a \in Client /\ EndRequest(a)
  BY <1>24 DEF Modest, EndRequest, Goto, NoWrite, TypeOK, WorksOn, Heading, Writes, InHand, Taking
<1>25. CASE Open(a)
  BY <1>25 DEF Modest, Open, Goto, NoWrite, TypeOK, WorksOn, Heading, Writes, InHand, Taking
<1> QED
  BY <1>1, <1>2, <1>3, <1>4, <1>5, <1>6, <1>7, <1>8, <1>9, <1>10, <1>11, <1>12, <1>13, <1>14, <1>15,
     <1>16, <1>17, <1>18, <1>19, <1>20, <1>21, <1>22, <1>23, <1>24, <1>25 DEF Step, LoopNext, RequestNext

\* The write of a record: a claim makes its worker the one that works on the
\* job, other records of the job end in nobody working on it or in a cancel.
LEMMA DumpKeeps ==
  ASSUME Shapes, Claims, NEW a \in Thread, Dump(a), OthersStay(a), Noted, NEW j \in Job \ exposed'
  PROVE  Exclusive(j)'
<1> DEFINE p == pending[a]
<1>1. j \notin exposed /\ j \notin Contested /\ Exclusive(j)  BY DEF Noted, Claims
<1>2. /\ file' = [file EXCEPT ![p.file] = p.record] /\ p # None /\ p \in Write
      /\ pc'[a] = p.next /\ pending'[a] = None /\ target' = target /\ todo' = todo
  BY DEF Dump, Goto, Shapes, TypeOK
<1>3. WriteShaped(a) /\ ListShaped(a)  BY DEF Shapes, Shaped
<1>4. ASSUME p.file # j \/ p.next = "unassign"  PROVE Exclusive(j)'
  <2>1. file'[j] = file[j] \/ file'[j].status = "canceled"
    BY <1>2, <1>3, <1>4 DEF Shapes, TypeOK, File, WriteShaped
  <2>2. WorksOn(a, j)' => WorksOn(a, j)
    BY <1>2, <1>3, <1>4 DEF WorksOn, Heading, WriteShaped, Write, AfterWrite
  <2>3. pc'[a] # "claim" /\ ~ Writes(a, j, Taking)'
    BY <1>2 DEF Writes, Write, AfterWrite
  <2> QED  BY <1>2, <2>1, <2>2, <2>3, ModestKeeps DEF Modest
<1>5. ASSUME p.file = j, p.next \in {"promote", "prepare", "free"}  PROVE Exclusive(j)'
  <2>1. InHand(a, j)  BY <1>2, <1>5 DEF InHand, Writes
  <2>2. \A w \in Worker : ~ WorksOn(w, j)  BY <1>1, <2>1 DEF Exclusive
  <2>3. ~ WorksOn(a, j)'  BY <1>2, <1>5 DEF WorksOn, Heading
  <2>4. \A w \in Worker : ~ WorksOn(w, j)'  BY <2>2, <2>3, StayersWork DEF Thread
  <2> QED  BY <2>4 DEF Exclusive
<1>6. ASSUME p.file = j, p.next = "release"  PROVE Exclusive(j)'
  <2>1. ~ WorksOn(a, j)'  BY <1>2, <1>6 DEF WorksOn, Heading
  <2>2. ASSUME NEW w \in Worker, WorksOn(w, j)'  PROVE FALSE
    <3>1. w # a  BY <2>1, <2>2
    <3>2. WorksOn(w, j)  BY <2>2, <3>1, StayersWork DEF Thread
    <3>3. a \in Worker /\ WorksOn(a, j)  BY <1>2, <1>3, <1>6 DEF WorksOn, WriteShaped
    <3> QED  BY <1>1, <3>1, <3>2, <3>3 DEF Exclusive
  <2> QED  BY <2>2 DEF Exclusive
<1>7. ASSUME p.file = j, p.next = "assign"  PROVE Exclusive(j)'
  <2>1. a \in Worker /\ p.record = [status |-> "running", owner |-> a]
    BY <1>2, <1>3, <1>7 DEF WriteShaped
  <2>2. file'[j] = [status |-> "running", owner |-> a]
    BY <1>2, <1>7, <2>1 DEF Shapes, TypeOK, File
  <2>3. InHand(a, j)  BY <1>2, <1>7 DEF InHand, Writes
  <2>4. \A w \in Worker : ~ WorksOn(w, j)  BY <1>1, <2>3 DEF Exclusive
  <2>5. \A w \in Worker : WorksOn(w, j)' => w = a  BY <2>4, StayersWork DEF Thread
  <2>6. ASSUME NEW t \in Thread, t # a, InHand(t, j)'  PROVE FALSE
    <3>1. ~ InHand(t, j)  BY <1>1, <2>3, <2>6 DEF Contested
    <3>2. PICK e \in todo[t] : WorksOn(e[2], j)  BY <2>6, <3>1, StayersHand
    <3> QED  BY <2>4, <3>2 DEF WorksOn
  <2>7. ~ InHand(a, j)'
    BY <1>2, <1>3, <1>7 DEF InHand, Writes, ListShaped, Heading
  <2> QED  BY <2>2, <2>5, <2>6, <2>7 DEF Exclusive
<1> QED  BY <1>2, <1>3, <1>4, <1>5, <1>6, <1>7 DEF WriteShaped

-----------------------------------------------------------------------------
(* The theorems *)

LEMMA InitHolds == Init => Shapes /\ Claims
<1> SUFFICES ASSUME Init PROVE Shapes /\ Claims  OBVIOUS
<1>1. \A t \in Thread, j \in Job : ~ InHand(t, j) /\ ~ WorksOn(t, j) /\ \A places : ~ Writes(t, j, places)
  BY DEF Init, InHand, WorksOn, Writes, Heading, Thread
<1>2. TypeOK
  BY DEF Init, TypeOK, Thread, File, JobRecord, WorkerRecord, NewJob, Idle, Place, WorkerPlace
<1>3. \A t \in Thread : Shaped(t)
  BY DEF Init, Shaped, ListShaped, TargetShaped, WriteShaped, Heading
<1>4. Contested = {}  BY <1>1 DEF Contested
<1>5. \A j \in Job : Exclusive(j)  BY <1>1 DEF Exclusive, Thread
<1> QED  BY <1>2, <1>3, <1>4, <1>5 DEF Shapes, Claims

LEMMA NextHolds == Shapes /\ Claims /\ [Next]_vars => Shapes' /\ Claims'
<1> SUFFICES ASSUME Shapes, Claims, [Next]_vars PROVE Shapes' /\ Claims'  OBVIOUS
<1>1. ASSUME NEW a \in Thread, Step(a)  PROVE Shapes' /\ Claims'
  <2>1. OthersStay(a) /\ Noted  BY <1>1, Stays DEF Shapes
  <2>2. Contested' \subseteq exposed' /\ exposed \subseteq exposed'  BY <2>1 DEF Noted
  <2>3. ASSUME NEW j \in Job \ exposed'  PROVE Exclusive(j)'
    <3>1. CASE Dump(a)  BY <2>1, <3>1, DumpKeeps
    <3>2. CASE ~ Dump(a)  BY <1>1, <2>1, <3>2, StepsAreModest, ModestKeeps
    <3> QED  BY <3>1, <3>2
  <2> QED  BY <1>1, <2>2, <2>3, ShapesKept DEF Claims
<1>2. CASE Next  BY <1>1, <1>2 DEF Next, Step, Thread
<1>3. CASE UNCHANGED vars
  <2>1. Shapes'
    BY <1>3 DEF vars, Shapes, TypeOK, Shaped, ListShaped, TargetShaped, WriteShaped, Heading
  <2>2. Claims'
    BY <1>3 DEF vars, Claims, Exclusive, Contested, InHand, WorksOn, Writes, Heading
  <2> QED  BY <2>1, <2>2
<1> QED  BY <1>2, <1>3

LEMMA Always == Spec => [](Shapes /\ Claims)
<1> QED  BY InitHolds, NextHolds, PTL DEF Spec

\* Whatever overlaps or dies, a job's record stays one of a job and a worker's
\* one of a worker, every thread is where its code can be, and a write is under
\* way exactly between the opening of its file and the dump.
THEOREM TypeCorrect == Spec => []TypeOK
<1>1. Shapes /\ Claims => TypeOK  BY DEF Shapes
<1> QED  BY <1>1, Always, PTL

\* While a worker works on a job that was not contested, the job's record names
\* it or is canceled, nobody else works on the job, and nobody is about to queue
\* or to claim it.
THEOREM WorkExclusive == Spec => []Claims
<1>1. Shapes /\ Claims => Claims  OBVIOUS
<1> QED  BY <1>1, Always, PTL

\* Two workers never execute one job unless two schedulers had it in hand at
\* once or its lease ran out during the work.
THEOREM AlwaysOneWorkerPerJob == Spec => []OneWorkerPerJob
<1>1. Shapes /\ Claims => OneWorkerPerJob
  <2> SUFFICES ASSUME Shapes, Claims, NEW v \in Worker, NEW w \in Worker, NEW j \in Job,
                      Executing(v, j), Executing(w, j), v # w, j \notin exposed
               PROVE  FALSE
    BY DEF OneWorkerPerJob
  <2>1. WorksOn(v, j) /\ WorksOn(w, j)  BY DEF Executing, WorksOn
  <2> QED  BY <2>1 DEF Claims, Exclusive
<1> QED  BY <1>1, Always, PTL

\* Under the same condition nobody changes the record of a job while a worker
\* executes it, save the requests that cancel it.
THEOREM AlwaysExecutesOwn == Spec => []ExecutesOwn
<1>1. Shapes /\ Claims => ExecutesOwn
  <2> SUFFICES ASSUME Shapes, Claims, NEW w \in Worker, NEW j \in Job \ exposed, Executing(w, j)
               PROVE  file[j] = [status |-> "running", owner |-> w] \/ file[j].status = "canceled"
    BY DEF ExecutesOwn
  <2>1. WorksOn(w, j)  BY DEF Executing, WorksOn
  <2> QED  BY <2>1 DEF Claims, Exclusive
<1> QED  BY <1>1, Always, PTL

=============================================================================
