----------------------- MODULE CampaignPipelineProofs -----------------------
(***************************************************************************)
(* Type correctness, the safety properties of CampaignPipeline and that it *)
(* implements CampaignContract, proved for every set of campaigns, requests*)
(* and workers and for every bound.                                        *)
(*                                                                         *)
(* None of the four safety properties is inductive. Typed says who works   *)
(* for whom and is shared by all; Reported, Backed and Written add to it   *)
(* what each property needs about attempts still under way and about       *)
(* statements that outlive their attempt.                                  *)
(***************************************************************************)
EXTENDS CampaignPipeline, FiniteSetTheorems, TLAPS

-----------------------------------------------------------------------------
(* The inductive invariant *)

\* A worker is idle, or it holds an active task.
Held ==
  \A w \in Workers :
    IF run[w].pc = "idle"
    THEN run[w].task = None
    ELSE run[w].task \in Requests /\ task[run[w].task].state = "active"

\* No two workers hold the same task.
Apart ==
  \A w1, w2 \in Workers :
    run[w1].task = run[w2].task /\ run[w1].task # None => w1 = w2

\* A request that wrote knows its campaign, and only one that enqueued has a task.
Wrote ==
  \A r \in Requests :
    /\ request[r].pc # "new" => request[r].campaign \in Campaigns
    /\ request[r].campaign # None => campaign[request[r].campaign].status # "ABSENT"
    /\ task[r].state # "none" => request[r].pc = "closed"

\* Who works for whom; and the copies in the table can be counted.
Assigned == TypeOK /\ Held /\ Apart /\ Wrote

Typed == TypeOK /\ Held /\ Apart /\ Wrote /\ IsFiniteSet(batches)

\* An attempt returns nil only after its status write (worker.go:115).
Reported == \A w \in Workers : run[w].pc = "ok" => run[w].posted = TRUE

\* "found" leads are stored for c, or c is deleted and its leads may be too.
Stored(c, found) ==
  \/ found = 0
  \/ campaign[c].status = "DELETED"
  \/ \E b \in batches : b.campaign = c /\ b.size = found

RowsBacked ==
  \A c \in Campaigns :
    /\ campaign[c].status \in Gone => campaign[c].found = 0
    /\ Stored(c, campaign[c].found)

\* An attempt past its COPY has its batch stored, if its campaign still takes any.
AttemptsBacked ==
  \A w \in Workers :
    run[w].pc \in {"done", "ok"} /\ run[w].size > 0 /\ Insertable(RunCampaign(w))
      => \E b \in batches : RunBatch(w) = [b EXCEPT !.copy = 0]

LateBacked ==
  \A s \in late : s.op = "status" =>
    /\ campaign[s.campaign].status # "ABSENT"
    /\ Stored(s.campaign, s.found)

Backed == RowsBacked /\ AttemptsBacked /\ LateBacked

\* Every COPY that took effect or still may.
Copies == batches \cup {s.batch : s \in {x \in late : x.op = "insert"}}

\* What started attempts: the first delivery, failures, and shutdowns. A task that a
\* worker runs was handed out at least once.
Counted ==
  \A r \in Requests :
    /\ task[r].attempt <= task[r].retried + stops
         + (IF task[r].state \in {"active", "completed", "archived"} THEN 1 ELSE 0)
    /\ task[r].state = "active" => 1 <= task[r].attempt

\* Each copy is the first of its attempt, which it identifies; one that may still take
\* effect has not done so before; and an attempt before its COPY has none.
Written ==
  /\ \A b \in Copies : b.copy = 0 /\ 1 <= b.attempt /\ b.attempt <= task[b.task].attempt
  /\ \A s \in late : s.op = "insert" => s.batch \notin batches
  /\ \A b1, b2 \in Copies : b1.task = b2.task /\ b1.attempt = b2.attempt => b1 = b2
  /\ \A w \in Workers : run[w].pc \in {"fetch", "insert"} =>
       \A b \in Copies : b.task = run[w].task => b.attempt # task[run[w].task].attempt

-----------------------------------------------------------------------------
(* Typed is inductive *)

\* A COPY adds the batch, under the number of its copy.
LEMMA CopiedBatch ==
  ASSUME Typed, NEW b \in Batch
  PROVE  \E x \in Batch :
           /\ Copied(b) = batches \cup {x}
           /\ x = [b EXCEPT !.copy = x.copy]
           /\ (\A y \in batches : y.task = b.task => y.attempt # b.attempt) => x.copy = 0
<1> DEFINE earlier == {x \in batches : x.task = b.task /\ x.attempt = b.attempt}
<1>1. PICK n : n = Cardinality(earlier)
  OBVIOUS
<1>2. n \in Nat
  BY <1>1, FS_Subset, FS_CardinalityType DEF Typed
<1>3. (\A y \in batches : y.task = b.task => y.attempt # b.attempt) => n = 0
  <2> SUFFICES ASSUME \A y \in batches : y.task = b.task => y.attempt # b.attempt
               PROVE  n = 0
    OBVIOUS
  <2>1. earlier = {}
    OBVIOUS
  <2> QED
    BY <1>1, <2>1, FS_EmptySet
<1>4. Copied(b) = batches \cup {[b EXCEPT !.copy = n]}
  BY <1>1 DEF Copied
<1>5. [b EXCEPT !.copy = n] \in Batch /\ [b EXCEPT !.copy = n].copy = n
  BY <1>2 DEF Batch
<1>6. [b EXCEPT !.copy = n] = [b EXCEPT !.copy = [b EXCEPT !.copy = n].copy]
  BY <1>5
<1> QED
  BY <1>3, <1>4, <1>5, <1>6

\* It leaves a finite table of batches.
LEMMA CopiedTyped ==
  ASSUME Typed, NEW b \in Batch
  PROVE  Copied(b) \subseteq Batch /\ IsFiniteSet(Copied(b))
<1>1. PICK x \in Batch : Copied(b) = batches \cup {x}
  BY CopiedBatch
<1> QED
  BY <1>1, FS_AddElement DEF Typed, TypeOK

LEMMA TypedInit == Init => Typed
  BY FS_EmptySet, PipelineAssumption DEF Init, Typed, TypeOK, Held, Apart, Wrote, CampaignRow, Status,
     Gone, RequestRecord, TaskRecord, RunRecord, Idle

\* What a failed attempt does to its task and to the others.
LEMMA AttemptFailedTask ==
  ASSUME TypeOK, NEW r \in Requests, NEW posted \in BOOLEAN, AttemptFailed(r, posted)
  PROVE  /\ task' \in [Requests -> TaskRecord]
         /\ \A q \in Requests \ {r} : task'[q] = task[q]
         /\ task'[r].attempt = task[r].attempt
         /\ \/ /\ task'[r].state = "retry"
               /\ task'[r].retried = task[r].retried + 1
            \/ /\ task'[r].state = "archived"
               /\ task'[r].retried = task[r].retried
               /\ task'[r].silent = ~posted
<1>1. task[r] \in TaskRecord
  BY DEF TypeOK
<1>2. CASE task[r].retried < MaxRetry
  <2>1. task' = [task EXCEPT ![r] = [task[r] EXCEPT !.state = "retry",
                                                    !.retried = task[r].retried + 1]]
    BY <1>2 DEF AttemptFailed
  <2>2. task[r].retried \in Nat /\ task[r].retried + 1 \in Nat
    BY <1>1 DEF TaskRecord
  <2>3. [task[r] EXCEPT !.state = "retry", !.retried = task[r].retried + 1] \in TaskRecord
    BY <1>1, <2>2 DEF TaskRecord
  <2> QED
    BY <1>1, <2>1, <2>3 DEF TypeOK, TaskRecord
<1>3. CASE ~(task[r].retried < MaxRetry)
  <2>1. task' = [task EXCEPT ![r] = [task[r] EXCEPT !.state = "archived",
                                                    !.silent = ~posted]]
    BY <1>3 DEF AttemptFailed
  <2> QED
    BY <1>1, <2>1 DEF TypeOK, TaskRecord
<1> QED
  BY <1>2, <1>3

\* What a status write does to the rows.
LEMMA WithStatusRows ==
  ASSUME TypeOK, NEW c \in Campaigns, NEW status \in {"DONE", "FAILED"}, NEW found \in Nat,
         campaign' = WithStatus(c, status, found)
  PROVE  /\ campaign' \in [Campaigns -> CampaignRow]
         /\ \A d \in Campaigns \ {c} : campaign'[d] = campaign[d]
         /\ IF Exists(c) THEN campaign'[c] = [status |-> status, found |-> found]
                         ELSE campaign'[c] = campaign[c]
         /\ \A d \in Campaigns : campaign'[d].status \in Gone <=> campaign[d].status \in Gone
         /\ \A d \in Campaigns : campaign[d].status # "ABSENT" => campaign'[d].status # "ABSENT"
  BY DEF WithStatus, Exists, TypeOK, CampaignRow, Status, Gone

\* A busy worker and the campaign it works for.
LEMMA BusyWorker ==
  ASSUME Typed, NEW w \in Workers, run[w].pc # "idle"
  PROVE  /\ run[w].task \in Requests
         /\ task[run[w].task].state = "active"
         /\ RunCampaign(w) \in Campaigns
         /\ RunBatch(w) \in Batch
         /\ campaign[RunCampaign(w)].status # "ABSENT"
         /\ request[run[w].task].pc = "closed"
         /\ \A v \in Workers \ {w} : run[v].task # run[w].task
<1>1. run[w].task \in Requests /\ task[run[w].task].state = "active"
  BY DEF Typed, Held, Idle
<1>2. request[run[w].task].pc = "closed" /\ RunCampaign(w) \in Campaigns
  BY <1>1 DEF Typed, Wrote, RunCampaign
<1>3. campaign[RunCampaign(w)].status # "ABSENT"
  BY <1>1, <1>2, PipelineAssumption DEF Typed, Wrote, RunCampaign
<1>4. RunBatch(w) \in Batch
  BY <1>1, <1>2 DEF Typed, TypeOK, RunBatch, Batch, TaskRecord, RunRecord
<1>5. \A v \in Workers \ {w} : run[v].task # run[w].task
  BY <1>1, PipelineAssumption DEF Typed, Apart
<1> QED
  BY <1>1, <1>2, <1>3, <1>4, <1>5

\* Only statements that some worker waits for outlive their attempts.
LEMMA OutliveTyped ==
  ASSUME Typed, NEW ws \in SUBSET Workers, Outlive(ws)
  PROVE  /\ late' \subseteq InsertStatement \cup StatusStatement
         /\ \A s \in late' : s \in late \/ \E w \in ws : s \in InFlight(w)
<1>1. ASSUME NEW w \in Workers
      PROVE  InFlight(w) \subseteq InsertStatement \cup StatusStatement
  <2>1. CASE run[w].pc = "insert"
    BY <2>1, BusyWorker DEF InFlight, InsertStatement
  <2>2. CASE run[w].pc = "fail"
    BY <2>2, BusyWorker DEF InFlight, StatusStatement
  <2>3. CASE run[w].pc = "done"
    BY <2>3, BusyWorker DEF InFlight, StatusStatement, Typed, TypeOK, RunRecord
  <2>4. CASE run[w].pc \notin {"insert", "fail", "done"}
    BY <2>4 DEF InFlight
  <2> QED
    BY <2>1, <2>2, <2>3, <2>4
<1>2. PICK sent \in SUBSET UNION {InFlight(w) : w \in ws} : late' = late \cup sent
  BY DEF Outlive
<1>3. \A s \in sent : \E w \in ws : s \in InFlight(w)
  BY <1>2
<1> QED
  BY <1>1, <1>2, <1>3 DEF Typed, TypeOK

\* The types survive each statement of an attempt.
LEMMA AssignedRunStep ==
  ASSUME Typed, NEW w \in Workers, RunStep(w)
  PROVE  Assigned'
<1> USE PipelineAssumption DEF Typed, Assigned
<1>1. ASSUME NEW n \in 0..MaxFound, Fetch(w, n)
      PROVE  Assigned'
  BY <1>1 DEF Fetch, TypeOK, RunRecord, Idle, Held, Apart, Wrote
<1>2. ASSUME NEW o \in Outcomes, Insert(w, o)
      PROVE  Assigned'
  <2>1. TypeOK'
    <3>1. RunBatch(w) \in Batch
      BY <1>2, BusyWorker DEF Insert
    <3>2. batches' \subseteq Batch
      BY <1>2, <3>1, CopiedTyped DEF Insert, TypeOK
    <3> QED
      BY <1>2, <3>2 DEF Insert, Outcome, Fault, TypeOK, RunRecord
  <2>2. Held'
    BY <1>2 DEF Insert, TypeOK, RunRecord, Held, Idle
  <2> QED
    BY <1>2, <2>1, <2>2 DEF Insert, TypeOK, RunRecord, Apart, Wrote
<1>3. ASSUME NEW o \in Outcomes, NEW status \in {"DONE", "FAILED"}, NEW found \in Nat,
             run[w].pc # "idle", Outcome(o, "statement"),
             campaign' = IF Applied(o) THEN WithStatus(RunCampaign(w), status, found)
                                       ELSE campaign,
             NEW pc \in {"ok", "err"},
             run' = [run EXCEPT ![w].pc = pc, ![w].posted = Applied(o)],
             UNCHANGED <<batches, request, task, late, up, stops>>
      PROVE  Assigned'
  <2>1. RunCampaign(w) \in Campaigns /\ TypeOK
    BY <1>3, BusyWorker
  <2>2. campaign' \in [Campaigns -> CampaignRow]
    BY <1>3, <2>1, WithStatusRows DEF TypeOK
  <2>3. \A d \in Campaigns : campaign[d].status # "ABSENT" => campaign'[d].status # "ABSENT"
    BY <1>3, <2>1, WithStatusRows
  <2>4. TypeOK'
    <3>1. Applied(o) \in BOOLEAN
      BY DEF Applied
    <3>2. run' \in [Workers -> RunRecord]
      BY <1>3, <3>1 DEF TypeOK, RunRecord
    <3> QED
      BY <1>3, <2>2, <3>2 DEF TypeOK, Outcome, Fault
  <2>5. Held'
    BY <1>3 DEF TypeOK, RunRecord, Held, Idle
  <2>6. Apart'
    BY <1>3 DEF TypeOK, RunRecord, Apart
  <2>7. Wrote'
    BY <1>3, <2>3 DEF TypeOK, Wrote, RequestRecord
  <2> QED
    BY <2>4, <2>5, <2>6, <2>7
<1>4. ASSUME NEW o \in Outcomes, PostFailed(w, o)
      PROVE  Assigned'
  BY <1>3, <1>4 DEF PostFailed
<1>5. ASSUME NEW o \in Outcomes, PostDone(w, o)
      PROVE  Assigned'
  <2>1. run[w].size \in Nat
    BY DEF TypeOK, RunRecord
  <2> QED
    BY <1>3, <1>5, <2>1 DEF PostDone
<1>6. CASE Ack(w)
  BY <1>6, BusyWorker DEF Ack, TypeOK, TaskRecord, RunRecord, Held, Apart, Wrote, Idle
<1>7. CASE Nack(w)
  <2>1. /\ run[w].task \in Requests
        /\ \A v \in Workers \ {w} : run[v].task # run[w].task
        /\ request[run[w].task].pc = "closed"
    BY <1>7, BusyWorker DEF Nack
  <2>2. run[w].posted \in BOOLEAN
    BY DEF TypeOK, RunRecord
  <2>3. /\ task' \in [Requests -> TaskRecord]
        /\ \A q \in Requests \ {run[w].task} : task'[q] = task[q]
    BY <1>7, <2>1, <2>2, AttemptFailedTask DEF Nack
  <2>4. TypeOK'
    BY <1>7, <2>3 DEF Nack, TypeOK, RunRecord, Idle
  <2>5. Held' /\ Apart'
    BY <1>7, <2>1, <2>3 DEF Nack, TypeOK, RunRecord, Held, Apart, Idle
  <2>6. Wrote'
    BY <1>7, <2>1, <2>3 DEF Nack, TypeOK, Wrote
  <2> QED
    BY <2>4, <2>5, <2>6
<1> QED
  BY <1>1, <1>2, <1>4, <1>5, <1>6, <1>7 DEF RunStep

LEMMA AssignedNext == Typed /\ [Next]_vars => Assigned'
<1> SUFFICES ASSUME Typed, [Next]_vars PROVE Assigned'
  OBVIOUS
<1> USE PipelineAssumption DEF Typed, Assigned
<1>1. ASSUME NEW r \in Requests, NEW c \in Campaigns, NEW o \in Outcomes,
             CreateInsert(r, c, o)
      PROVE  Assigned'
  BY <1>1 DEF CreateInsert, Outcome, Outcomes, Fault, Applied, TypeOK, CampaignRow, Status,
     Gone, RequestRecord, Held, Apart, Wrote
<1>2. ASSUME NEW r \in Requests, NEW c \in Campaigns, RefetchRead(r, c)
      PROVE  Assigned'
  BY <1>2 DEF RefetchRead, Exists, Gone, TypeOK, RequestRecord, Held, Apart, Wrote
<1>3. ASSUME NEW r \in Requests, NEW o \in Outcomes, RefetchUpdate(r, o)
      PROVE  Assigned'
  <2>1. request[r].campaign \in Campaigns
    BY <1>3 DEF RefetchUpdate, Wrote
  <2>2. TypeOK'
    BY <1>3, <2>1 DEF RefetchUpdate, Outcome, Outcomes, Fault, TypeOK, CampaignRow, Status,
       RequestRecord
  <2>3. Held' /\ Apart'
    BY <1>3 DEF RefetchUpdate, Held, Apart
  <2>4. Wrote'
    BY <1>3, <2>1 DEF RefetchUpdate, TypeOK, CampaignRow, RequestRecord, Outcomes, Wrote
  <2> QED
    BY <2>2, <2>3, <2>4
<1>4. ASSUME NEW r \in Requests, NEW stored \in BOOLEAN, Enqueue(r, stored)
      PROVE  Assigned'
  <2>1. request[r].pc = "enqueue" /\ request[r] \in RequestRecord /\ task[r] \in TaskRecord
    BY <1>4 DEF Enqueue, TypeOK
  <2>2. \/ /\ task' = [task EXCEPT ![r].state = "pending"]
           /\ request' = [request EXCEPT ![r].pc = "closed"]
        \/ /\ task' = task
           /\ request' = [request EXCEPT ![r].pc = "lost"]
    BY <1>4 DEF Enqueue
  <2>3. TypeOK'
    <3>1. request' \in [Requests -> RequestRecord]
      BY <2>2 DEF TypeOK, RequestRecord
    <3>2. task' \in [Requests -> TaskRecord]
      BY <2>2 DEF TypeOK, TaskRecord
    <3> QED
      BY <1>4, <3>1, <3>2 DEF Enqueue, Fault, TypeOK
  <2>4. Held' /\ Apart'
    BY <1>4 DEF Enqueue, TypeOK, TaskRecord, Held, Apart, Wrote, Idle
  <2>5. Wrote'
    <3>1. /\ \A q \in Requests \ {r} : request'[q] = request[q] /\ task'[q] = task[q]
          /\ request'[r].campaign = request[r].campaign
          /\ request'[r].pc \in {"closed", "lost"}
          /\ request'[r].pc = "lost" => task'[r] = task[r]
      BY <2>1, <2>2 DEF TypeOK, RequestRecord
    <3> QED
      BY <1>4, <2>1, <3>1 DEF Enqueue, Wrote
  <2> QED
    BY <2>3, <2>4, <2>5
<1>5. ASSUME NEW c \in Campaigns, Delete(c)
      PROVE  Assigned'
  BY <1>5 DEF Delete, Exists, Gone, TypeOK, CampaignRow, Held, Apart, Wrote
<1>6. ASSUME NEW w \in Workers, NEW r \in Requests, Dequeue(w, r)
      PROVE  Assigned'
  <2>1. TypeOK'
    BY <1>6 DEF Dequeue, TypeOK, TaskRecord, RunRecord, Idle
  <2>2. Held' /\ Apart'
    BY <1>6 DEF Dequeue, TypeOK, TaskRecord, RunRecord, Held, Apart, Idle
  <2>3. Wrote'
    BY <1>6 DEF Dequeue, TypeOK, TaskRecord, Wrote
  <2> QED
    BY <2>1, <2>2, <2>3
<1>7. ASSUME NEW r \in Requests, Forward(r)
      PROVE  Assigned'
  BY <1>7 DEF Forward, TypeOK, TaskRecord, Held, Apart, Wrote, Idle
<1>8. ASSUME NEW r \in Requests, Recover(r)
      PROVE  Assigned'
  <2>1. /\ task' \in [Requests -> TaskRecord]
        /\ \A q \in Requests \ {r} : task'[q] = task[q]
    BY <1>8, AttemptFailedTask DEF Recover
  <2> QED
    BY <1>8, <2>1 DEF Recover, TypeOK, Held, Apart, Wrote
<1>9. ASSUME NEW w \in Workers, RunStep(w)
      PROVE  Assigned'
  BY <1>9, AssignedRunStep
<1>10. ASSUME NEW w \in Workers, Timeout(w)
       PROVE  Assigned'
  <2>1. run[w].pc # "idle" /\ run[w].posted \in BOOLEAN
    BY <1>10 DEF Timeout, Held, TypeOK, RunRecord
  <2>2. /\ run[w].task \in Requests
        /\ RunCampaign(w) \in Campaigns
        /\ RunBatch(w) \in Batch
        /\ \A v \in Workers \ {w} : run[v].task # run[w].task
        /\ request[run[w].task].pc = "closed"
    BY <2>1, BusyWorker
  <2>3. /\ task' \in [Requests -> TaskRecord]
        /\ \A q \in Requests \ {run[w].task} : task'[q] = task[q]
    BY <1>10, <2>1, <2>2, AttemptFailedTask DEF Timeout
  <2>4. late' \subseteq InsertStatement \cup StatusStatement
    BY <1>10, OutliveTyped DEF Timeout
  <2>5. TypeOK'
    BY <1>10, <2>3, <2>4 DEF Timeout, Fault, TypeOK, RunRecord, Idle
  <2>6. Held' /\ Apart'
    BY <1>10, <2>2, <2>3 DEF Timeout, TypeOK, RunRecord, Held, Apart, Idle
  <2>7. Wrote'
    BY <1>10, <2>2, <2>3 DEF Timeout, TypeOK, Wrote
  <2> QED
    BY <2>5, <2>6, <2>7
<1>11. ASSUME NEW s \in late, LateInsert(s)
       PROVE  Assigned'
  <2>1. s.batch \in Batch
    BY <1>11 DEF LateInsert, TypeOK, InsertStatement, StatusStatement
  <2>2. batches' \subseteq Batch
    BY <1>11, <2>1, CopiedTyped DEF LateInsert, TypeOK
  <2> QED
    BY <1>11, <2>2 DEF LateInsert, TypeOK, Held, Apart, Wrote
<1>12. ASSUME NEW s \in late, LateStatus(s)
       PROVE  Assigned'
  <2>1. s.campaign \in Campaigns /\ s.status \in {"DONE", "FAILED"} /\ s.found \in Nat
    BY <1>12 DEF LateStatus, TypeOK, InsertStatement, StatusStatement
  <2>2. /\ campaign' \in [Campaigns -> CampaignRow]
        /\ \A d \in Campaigns : campaign[d].status # "ABSENT" => campaign'[d].status # "ABSENT"
    BY <1>12, <2>1, WithStatusRows DEF LateStatus
  <2> QED
    BY <1>12, <2>2 DEF LateStatus, TypeOK, RequestRecord, Held, Apart, Wrote
<1>13. ASSUME NEW s \in late, LateDrop(s)
       PROVE  Assigned'
  BY <1>13 DEF LateDrop, TypeOK, Held, Apart, Wrote
<1>14. CASE Crash
  <2>1. /\ request' = [r \in Requests |-> Interrupted(request[r])]
        /\ run' = [w \in Workers |-> Idle]
        /\ faults' = faults + 1
        /\ up' \in BOOLEAN
        /\ late' \subseteq InsertStatement \cup StatusStatement
        /\ UNCHANGED <<campaign, batches, task, stops>>
    BY <1>14, OutliveTyped, Zenon DEF Crash, Fault
  <2>2. \A r \in Requests :
          /\ request'[r] \in RequestRecord
          /\ request'[r].campaign = request[r].campaign
          /\ request'[r].pc = "new" <=> request[r].pc = "new"
          /\ request[r].pc = "closed" => request'[r].pc = "closed"
    <3> SUFFICES ASSUME NEW r \in Requests
                 PROVE  /\ Interrupted(request[r]) \in RequestRecord
                        /\ Interrupted(request[r]).campaign = request[r].campaign
                        /\ Interrupted(request[r]).pc = "new" <=> request[r].pc = "new"
                        /\ request[r].pc = "closed" => Interrupted(request[r]).pc = "closed"
      BY <2>1
    <3>1. request[r] \in RequestRecord
      BY DEF TypeOK
    <3>2. CASE request[r].pc = "update"
      BY <3>1, <3>2 DEF Interrupted, RequestRecord
    <3>3. CASE request[r].pc = "enqueue"
      BY <3>1, <3>3 DEF Interrupted, RequestRecord
    <3>4. CASE request[r].pc \notin {"update", "enqueue"}
      BY <3>1, <3>4 DEF Interrupted
    <3> QED
      BY <3>2, <3>3, <3>4
  <2>3. TypeOK'
    <3>1. request' \in [Requests -> RequestRecord]
      BY <2>1, <2>2
    <3>2. run' \in [Workers -> RunRecord]
      BY <2>1 DEF RunRecord, Idle
    <3> QED
      BY <2>1, <3>1, <3>2 DEF TypeOK
  <2>4. Held' /\ Apart'
    BY <2>1 DEF Held, Apart, Idle
  <2>5. Wrote'
    BY <2>1, <2>2 DEF TypeOK, RequestRecord, Wrote
  <2> QED
    BY <2>3, <2>4, <2>5
<1>15. CASE Stop
  <2>1. PICK requeued \in SUBSET {run[w].task : w \in Workers} :
        /\ task' = [r \in Requests |-> IF r \in requeued
                                       THEN [task[r] EXCEPT !.state = "pending"]
                                       ELSE task[r]]
        /\ run' = [w \in Workers |-> Idle]
        /\ stops' = stops + 1
        /\ up' \in BOOLEAN
        /\ late' \subseteq InsertStatement \cup StatusStatement
        /\ UNCHANGED <<campaign, batches, request, faults>>
    BY <1>15, OutliveTyped, Zenon DEF Stop
  <2>2. TypeOK'
    <3>1. \A r \in Requests : [task[r] EXCEPT !.state = "pending"] \in TaskRecord
      BY DEF TypeOK, TaskRecord
    <3>2. task' \in [Requests -> TaskRecord]
      BY <2>1, <3>1 DEF TypeOK
    <3>3. run' \in [Workers -> RunRecord]
      BY <2>1 DEF RunRecord, Idle
    <3> QED
      BY <2>1, <3>2, <3>3 DEF TypeOK
  <2>3. Held' /\ Apart'
    BY <2>1 DEF TypeOK, Held, Apart, Idle
  <2>4. Wrote'
    <3> SUFFICES ASSUME NEW r \in Requests
                 PROVE  task'[r].state # "none" => request[r].pc = "closed"
      BY <2>1 DEF Wrote
    <3>1. CASE r \in requeued
      BY <3>1, BusyWorker DEF Held
    <3>2. CASE r \notin requeued
      BY <2>1, <3>2 DEF Wrote, TypeOK, TaskRecord
    <3> QED
      BY <3>1, <3>2
  <2> QED
    BY <2>2, <2>3, <2>4
<1>16. CASE Restart
  BY <1>16 DEF Restart, TypeOK, Held, Apart, Wrote
<1>17. CASE UNCHANGED vars
  BY <1>17 DEF vars, TypeOK, Held, Apart, Wrote
<1> QED
  BY <1>1, <1>2, <1>3, <1>4, <1>5, <1>6, <1>7, <1>8, <1>9, <1>10, <1>11, <1>12, <1>13,
     <1>14, <1>15, <1>16, <1>17 DEF Next, RequestStep

\* How the table of leads changes: a COPY adds a batch, a deletion may take some.
LEMMA BatchesChange ==
  ASSUME Typed, [Next]_vars
  PROVE  \/ batches' \subseteq batches
         \/ \E w \in Workers, o \in Outcomes :
              /\ Insert(w, o)
              /\ RunBatch(w) \in Batch
              /\ batches' = Copied(RunBatch(w))
         \/ \E s \in late : /\ LateInsert(s)
                            /\ s.batch \in Batch
                            /\ batches' = Copied(s.batch)
<1>1. ASSUME NEW w \in Workers, NEW o \in Outcomes, Insert(w, o)
      PROVE  RunBatch(w) \in Batch /\ batches' \in {batches, Copied(RunBatch(w))}
  BY <1>1, BusyWorker DEF Insert
<1>2. ASSUME NEW s \in late, LateInsert(s)
      PROVE  s.batch \in Batch /\ batches' \in {batches, Copied(s.batch)}
  BY <1>2 DEF LateInsert, Typed, TypeOK, InsertStatement, StatusStatement
<1>3. \/ batches' \subseteq batches
      \/ \E w \in Workers, o \in Outcomes : Insert(w, o)
      \/ \E s \in late : LateInsert(s)
  BY DEF Next, vars, CreateInsert, RequestStep, RefetchRead, RefetchUpdate, Enqueue, Delete,
     Forward, Recover, Dequeue, RunStep, Fetch, PostFailed, PostDone, Ack, Nack, Timeout,
     LateStatus, LateDrop, Crash, Stop, Restart
<1> QED
  BY <1>1, <1>2, <1>3

LEMMA TypedNext == Typed /\ [Next]_vars => Typed'
<1> SUFFICES ASSUME Typed, [Next]_vars PROVE Typed'
  OBVIOUS
<1>1. IsFiniteSet(batches')
  BY BatchesChange, CopiedTyped, FS_Subset DEF Typed
<1> QED
  BY <1>1, AssignedNext DEF Typed, Assigned

LEMMA TypedInvariant == Spec => []Typed
  BY TypedInit, TypedNext, PTL DEF Spec

\* The variables keep their types: rows their statuses and counts, tasks their
\* asynq states, and a statement that outlives its attempt (worker.go:108-115
\* under the context of the task) still names a campaign, a status and a batch.
THEOREM TypeCorrect == Spec => []TypeOK
<1>1. Typed => TypeOK
  BY DEF Typed
<1> QED
  BY <1>1, TypedInvariant, PTL

-----------------------------------------------------------------------------
(* What no step takes back *)

\* A campaign is created once and deleted once.
LEMMA RowsKept ==
  ASSUME Typed, [Next]_vars, NEW c \in Campaigns
  PROVE  /\ campaign[c].status = "DELETED" => campaign'[c].status = "DELETED"
         /\ campaign[c].status # "ABSENT" => campaign'[c].status # "ABSENT"
<1> USE DEF Typed, TypeOK, CampaignRow, Status, Gone
<1>1. CASE UNCHANGED campaign
  BY <1>1
<1>2. ASSUME NEW r \in Requests, NEW d \in Campaigns, NEW o \in Outcomes,
             CreateInsert(r, d, o)
      PROVE  campaign[c].status = "ABSENT" \/ campaign'[c] = campaign[c]
  BY <1>2 DEF CreateInsert
<1>3. ASSUME NEW r \in Requests, NEW o \in Outcomes, RefetchUpdate(r, o)
      PROVE  \/ campaign'[c] = campaign[c]
             \/ campaign[c].status \notin Gone /\ campaign'[c].status = "RUNNING"
  BY <1>3 DEF RefetchUpdate, Exists
<1>4. ASSUME NEW d \in Campaigns, Delete(d)
      PROVE  campaign'[c].status = "DELETED" \/ campaign'[c] = campaign[c]
  BY <1>4 DEF Delete
<1>5. ASSUME NEW d \in Campaigns, NEW status \in {"DONE", "FAILED"}, NEW found \in Nat,
             campaign' = WithStatus(d, status, found)
      PROVE  campaign'[c].status \in Gone <=> campaign[c].status \in Gone
  BY <1>5, WithStatusRows
<1>6. ASSUME NEW d \in Campaigns, NEW status \in {"DONE", "FAILED"}, NEW found \in Nat,
             campaign' = WithStatus(d, status, found)
      PROVE  campaign'[c].status = campaign[c].status \/ campaign[c].status \notin Gone
  BY <1>6 DEF WithStatus, Exists
<1>7. ASSUME NEW w \in Workers, RunStep(w)
      PROVE  \/ campaign'[c].status = campaign[c].status
             \/ campaign[c].status \notin Gone /\ campaign'[c].status \notin Gone
  <2>1. CASE UNCHANGED campaign
    BY <2>1
  <2>2. CASE ~UNCHANGED campaign
    <3>1. /\ run[w].pc # "idle"
          /\ \E status \in {"DONE", "FAILED"}, found \in Nat :
               campaign' = WithStatus(RunCampaign(w), status, found)
      BY <1>7, <2>2 DEF RunStep, Fetch, Insert, PostFailed, PostDone, Ack, Nack, RunRecord
    <3>2. RunCampaign(w) \in Campaigns
      BY <3>1, BusyWorker
    <3> QED
      BY <1>5, <1>6, <3>1, <3>2
  <2> QED
    BY <2>1, <2>2
<1>8. ASSUME NEW s \in late, LateStatus(s)
      PROVE  \/ campaign'[c].status = campaign[c].status
             \/ campaign[c].status \notin Gone /\ campaign'[c].status \notin Gone
  BY <1>5, <1>6, <1>8 DEF LateStatus, InsertStatement, StatusStatement
<1> QED
  <2>1. \/ UNCHANGED campaign
        \/ \E r \in Requests, d \in Campaigns, o \in Outcomes : CreateInsert(r, d, o)
        \/ \E r \in Requests, o \in Outcomes : RefetchUpdate(r, o)
        \/ \E d \in Campaigns : Delete(d)
        \/ \E w \in Workers : RunStep(w)
        \/ \E s \in late : LateStatus(s)
    BY DEF Next, vars, RequestStep, RefetchRead, Enqueue, Forward, Recover, Dequeue,
       Timeout, LateInsert, LateDrop, Crash, Stop, Restart
  <2> QED
    BY <2>1, <1>1, <1>2, <1>3, <1>4, <1>7, <1>8

\* Stored leads stay, unless their campaign is deleted and takes them along.
LEMMA BatchesKept ==
  ASSUME Typed, [Next]_vars, NEW b \in batches
  PROVE  b \in batches' \/ (Cascade /\ campaign'[b.campaign].status = "DELETED")
<1> USE DEF Typed, TypeOK
<1>1. ASSUME NEW c \in Campaigns, Delete(c)
      PROVE  b \in batches' \/ (Cascade /\ campaign'[b.campaign].status = "DELETED")
  BY <1>1 DEF Delete, Batch
<1>2. ASSUME NEW x \in Batch, batches' = Copied(x)
      PROVE  b \in batches'
  BY <1>2, CopiedBatch
<1>3. \/ UNCHANGED batches
      \/ \E c \in Campaigns : Delete(c)
      \/ \E x \in Batch : batches' = Copied(x)
  <2>1. ASSUME NEW w \in Workers, NEW o \in Outcomes, Insert(w, o)
        PROVE  UNCHANGED batches \/ \E x \in Batch : batches' = Copied(x)
    BY <2>1, BusyWorker DEF Insert
  <2>2. ASSUME NEW s \in late, LateInsert(s)
        PROVE  UNCHANGED batches \/ \E x \in Batch : batches' = Copied(x)
    BY <2>2 DEF LateInsert, InsertStatement, StatusStatement
  <2> QED
    BY <2>1, <2>2 DEF Next, vars, CreateInsert, RequestStep, RefetchRead, RefetchUpdate, Enqueue,
       Forward, Recover, Dequeue, RunStep, Fetch, PostFailed, PostDone, Ack, Nack, Timeout,
       LateStatus, LateDrop, Crash, Stop, Restart
<1> QED
  BY <1>1, <1>2, <1>3

\* The task of a worker that goes on, and the campaign it is for, stay the same.
LEMMA AttemptKept ==
  ASSUME Typed, [Next]_vars, NEW w \in Workers, run[w].pc # "idle",
         run'[w].task = run[w].task
  PROVE  /\ RunCampaign(w)' = RunCampaign(w)
         /\ task'[run[w].task].attempt = task[run[w].task].attempt
<1> USE DEF Typed, TypeOK
<1> DEFINE t == run[w].task
<1>1. /\ t \in Requests
      /\ task[t].state = "active"
      /\ request[t].pc = "closed"
  BY BusyWorker
<1>2. request'[t].campaign = request[t].campaign
  <2>1. ASSUME NEW r \in Requests,
               \/ \E c \in Campaigns :
                    RefetchRead(r, c) \/ \E o \in Outcomes : CreateInsert(r, c, o)
               \/ RequestStep(r)
        PROVE  request'[t] = request[t]
    BY <1>1, <2>1 DEF RefetchRead, CreateInsert, RequestStep, RefetchUpdate, Enqueue
  <2>2. CASE Crash
    BY <1>1, <2>2, Zenon DEF Crash, Interrupted
  <2>3. \/ UNCHANGED request
        \/ Crash
        \/ \E r \in Requests :
             \/ \E c \in Campaigns :
                  RefetchRead(r, c) \/ \E o \in Outcomes : CreateInsert(r, c, o)
             \/ RequestStep(r)
    BY DEF Next, vars, Delete, Forward, Recover, Dequeue, RunStep, Fetch, Insert, PostFailed,
       PostDone, Ack, Nack, Timeout, LateInsert, LateStatus, LateDrop, Stop, Restart
  <2> QED
    BY <2>1, <2>2, <2>3
<1>3. task'[t].attempt = task[t].attempt
  <2>1. ASSUME NEW r \in Requests, NEW stored \in BOOLEAN, Enqueue(r, stored)
        PROVE  task'[t] = task[t]
    BY <1>1, <2>1 DEF Enqueue
  <2>2. ASSUME NEW r \in Requests, NEW v \in Workers, Dequeue(v, r) \/ Forward(r)
        PROVE  task'[t] = task[t]
    BY <1>1, <2>2 DEF Dequeue, Forward
  <2>3. ASSUME NEW r \in Requests, NEW posted \in BOOLEAN, AttemptFailed(r, posted)
        PROVE  task'[t].attempt = task[t].attempt
    BY <1>1, <2>3, AttemptFailedTask
  <2>4. ASSUME NEW v \in Workers, run[v].pc # "idle", AttemptFailed(run[v].task, run[v].posted)
        PROVE  task'[t].attempt = task[t].attempt
    BY <2>3, <2>4, BusyWorker DEF RunRecord
  <2>5. ASSUME NEW v \in Workers, Ack(v)
        PROVE  task'[t].attempt = task[t].attempt
    BY <1>1, <2>5 DEF Ack, TaskRecord
  <2>6. CASE Stop
    BY <1>1, <2>6 DEF Stop, TaskRecord
  <2>7. \/ UNCHANGED task
        \/ \E r \in Requests, stored \in BOOLEAN : Enqueue(r, stored)
        \/ \E r \in Requests, v \in Workers : Dequeue(v, r) \/ Forward(r)
        \/ \E r \in Requests, posted \in BOOLEAN : AttemptFailed(r, posted)
        \/ \E v \in Workers : run[v].pc # "idle" /\ AttemptFailed(run[v].task, run[v].posted)
        \/ \E v \in Workers : Ack(v)
        \/ Stop
    BY DEF Next, vars, CreateInsert, RequestStep, RefetchRead, RefetchUpdate, Delete, Recover,
       RunStep, Fetch, Insert, PostFailed, PostDone, Nack, Timeout, LateInsert, LateStatus,
       LateDrop, Crash, Restart
  <2> QED
    BY <2>1, <2>2, <2>3, <2>4, <2>5, <2>6, <2>7
<1> QED
  BY <1>2, <1>3 DEF RunCampaign

-----------------------------------------------------------------------------
(* "totalFound" is backed by stored leads *)

LEMMA StoredKept ==
  ASSUME Typed, [Next]_vars, NEW c \in Campaigns, NEW found \in Nat, Stored(c, found)
  PROVE  Stored(c, found)'
  BY RowsKept, BatchesKept DEF Stored

\* An attempt past its COPY may report its size, whatever became of its campaign.
LEMMA AttemptStored ==
  ASSUME Typed, AttemptsBacked, NEW w \in Workers, run[w].pc \in {"done", "ok"}
  PROVE  Stored(RunCampaign(w), run[w].size)
<1>1. run[w].size \in Nat /\ campaign[RunCampaign(w)].status # "ABSENT"
  BY BusyWorker DEF Typed, TypeOK, RunRecord
<1>2. CASE Insertable(RunCampaign(w)) /\ run[w].size > 0
  <2>1. PICK b \in batches : RunBatch(w) = [b EXCEPT !.copy = 0]
    BY <1>2 DEF AttemptsBacked
  <2>2. RunBatch(w).campaign = b.campaign /\ RunBatch(w).size = b.size
    BY <2>1 DEF Typed, TypeOK, Batch
  <2>3. RunBatch(w).campaign = RunCampaign(w) /\ RunBatch(w).size = run[w].size
    BY DEF RunBatch
  <2> QED
    BY <2>2, <2>3 DEF Stored
<1>3. CASE ~Insertable(RunCampaign(w))
  BY <1>1, <1>3 DEF Insertable, Exists, Gone, Stored
<1>4. CASE ~(run[w].size > 0)
  BY <1>1, <1>4 DEF Stored
<1> QED
  BY <1>2, <1>3, <1>4

LEMMA RowsBackedNext ==
  ASSUME Typed, Backed, [Next]_vars
  PROVE  RowsBacked'
<1> SUFFICES ASSUME NEW c \in Campaigns
             PROVE  /\ campaign'[c].status \in Gone => campaign'[c].found = 0
                    /\ Stored(c, campaign[c].found)'
  BY DEF RowsBacked
<1> USE DEF Typed, TypeOK, CampaignRow, Status, Gone
<1>1. campaign[c].found \in Nat /\ Stored(c, campaign[c].found)
  BY DEF Backed, RowsBacked
<1>2. campaign[c].status \in Gone => campaign[c].found = 0
  BY DEF Backed, RowsBacked
<1>3. ASSUME campaign'[c].found = 0
      PROVE  Stored(c, campaign[c].found)'
  BY <1>3 DEF Stored
<1>4. ASSUME NEW r \in Requests, NEW d \in Campaigns, NEW o \in Outcomes,
             CreateInsert(r, d, o)
      PROVE  campaign'[c] = campaign[c] \/ campaign'[c].found = 0
  BY <1>4 DEF CreateInsert
<1>5. ASSUME NEW r \in Requests, NEW o \in Outcomes, RefetchUpdate(r, o)
      PROVE  \/ campaign'[c] = campaign[c]
             \/ /\ campaign'[c].found = campaign[c].found
                /\ campaign'[c].status = "RUNNING"
  BY <1>5 DEF RefetchUpdate, Exists
<1>6. ASSUME NEW d \in Campaigns, Delete(d)
      PROVE  campaign'[c] = campaign[c] \/ campaign'[c].found = 0
  BY <1>6 DEF Delete
<1>7. ASSUME NEW d \in Campaigns, NEW status \in {"DONE", "FAILED"}, NEW found \in Nat,
             Stored(d, found), campaign' = WithStatus(d, status, found)
      PROVE  \/ campaign'[c] = campaign[c]
             \/ /\ campaign'[c].status \notin Gone
                /\ campaign'[c].found \in Nat
                /\ Stored(c, campaign'[c].found)
  <2>1. CASE c = d /\ Exists(d)
    <3>1. campaign'[c] = [status |-> status, found |-> found]
      BY <1>7, <2>1, WithStatusRows
    <3> QED
      BY <1>7, <2>1, <3>1
  <2>2. CASE c # d \/ ~Exists(d)
    BY <1>7, <2>2, WithStatusRows
  <2> QED
    BY <2>1, <2>2
<1>8. ASSUME NEW w \in Workers, RunStep(w), ~UNCHANGED campaign
      PROVE  \E d \in Campaigns, status \in {"DONE", "FAILED"}, found \in Nat :
               Stored(d, found) /\ campaign' = WithStatus(d, status, found)
  <2>1. ASSUME NEW o \in Outcomes, PostFailed(w, o)
        PROVE  RunCampaign(w) \in Campaigns /\ campaign' = WithStatus(RunCampaign(w), "FAILED", 0)
    BY <1>8, <2>1, BusyWorker DEF PostFailed
  <2>2. ASSUME NEW o \in Outcomes, PostDone(w, o)
        PROVE  /\ RunCampaign(w) \in Campaigns
               /\ run[w].size \in Nat
               /\ Stored(RunCampaign(w), run[w].size)
               /\ campaign' = WithStatus(RunCampaign(w), "DONE", run[w].size)
    BY <1>8, <2>2, BusyWorker, AttemptStored DEF PostDone, RunRecord, Backed
  <2>3. \E o \in Outcomes : PostFailed(w, o) \/ PostDone(w, o)
    BY <1>8 DEF RunStep, Fetch, Insert, Ack, Nack
  <2>4. \A d \in Campaigns : Stored(d, 0)
    BY DEF Stored
  <2> QED
    BY <2>1, <2>2, <2>3, <2>4
<1>9. ASSUME NEW s \in late, LateStatus(s)
      PROVE  \E d \in Campaigns, status \in {"DONE", "FAILED"}, found \in Nat :
               Stored(d, found) /\ campaign' = WithStatus(d, status, found)
  BY <1>9 DEF LateStatus, InsertStatement, StatusStatement, Backed, LateBacked
<1>10. \/ UNCHANGED campaign
       \/ \E r \in Requests, d \in Campaigns, o \in Outcomes : CreateInsert(r, d, o)
       \/ \E r \in Requests, o \in Outcomes : RefetchUpdate(r, o)
       \/ \E d \in Campaigns : Delete(d)
       \/ \E w \in Workers : RunStep(w) /\ ~UNCHANGED campaign
       \/ \E s \in late : LateStatus(s)
  BY DEF Next, vars, RequestStep, RefetchRead, Enqueue, Forward, Recover, Dequeue,
     Timeout, LateInsert, LateDrop, Crash, Stop, Restart
<1>11. \/ campaign'[c] = campaign[c]
       \/ campaign'[c].found = 0
       \/ /\ campaign'[c].status \notin Gone
          /\ campaign'[c].found \in Nat
          /\ Stored(c, campaign'[c].found)
  BY <1>1, <1>4, <1>5, <1>6, <1>7, <1>8, <1>9, <1>10
<1>12. ASSUME NEW found \in Nat, Stored(c, found), campaign'[c].found = found
       PROVE  Stored(c, campaign[c].found)'
  <2>1. Stored(c, found)'
    BY <1>12, StoredKept
  <2> QED
    BY <1>12, <2>1 DEF Stored
<1> QED
  BY <1>1, <1>2, <1>3, <1>11, <1>12

LEMMA AttemptsBackedNext ==
  ASSUME Typed, Backed, [Next]_vars
  PROVE  AttemptsBacked'
<1> SUFFICES ASSUME NEW w \in Workers,
                    run'[w].pc \in {"done", "ok"}, run'[w].size > 0,
                    Insertable(RunCampaign(w))'
             PROVE  \E b \in batches' : RunBatch(w)' = [b EXCEPT !.copy = 0]
  BY DEF AttemptsBacked
<1> USE DEF Typed, TypeOK
<1> DEFINE GoesOn ==
      /\ run[w].pc # "idle"
      /\ run'[w].task = run[w].task
      /\ run'[w].size = run[w].size
      /\ run[w].pc \in {"done", "ok"} \/ (RunStep(w) /\ run[w].pc = "insert")
<1>1. GoesOn
  <2>1. ASSUME NEW v \in Workers, RunStep(v), v # w
        PROVE  run'[w] = run[w]
    BY <2>1 DEF RunStep, Fetch, Insert, PostFailed, PostDone, Ack, Nack
  <2>2. CASE RunStep(w)
    <3>1. ASSUME NEW n \in 0..MaxFound, Fetch(w, n)
          PROVE  FALSE
      BY <3>1 DEF Fetch, RunRecord
    <3>2. ASSUME NEW o \in Outcomes, Insert(w, o)
          PROVE  GoesOn
      BY <2>2, <3>2 DEF Insert, RunRecord
    <3>3. ASSUME NEW o \in Outcomes, PostFailed(w, o)
          PROVE  FALSE
      BY <3>3 DEF PostFailed, RunRecord
    <3>4. ASSUME NEW o \in Outcomes, PostDone(w, o)
          PROVE  GoesOn
      BY <3>4 DEF PostDone, RunRecord
    <3>5. ASSUME Ack(w) \/ Nack(w)
          PROVE  FALSE
      BY <3>5 DEF Ack, Nack, Idle
    <3> QED
      BY <2>2, <3>1, <3>2, <3>3, <3>4, <3>5 DEF RunStep
  <2>3. ASSUME NEW v \in Workers, Timeout(v)
        PROVE  run'[w] = run[w]
    BY <2>3 DEF Timeout, Idle
  <2>4. ASSUME NEW v \in Workers, NEW r \in Requests, Dequeue(v, r)
        PROVE  run'[w] = run[w]
    BY <2>4 DEF Dequeue, Idle
  <2>5. ~Crash /\ ~Stop
    BY DEF Crash, Stop, Idle
  <2>6. \/ run'[w] = run[w]
        \/ RunStep(w)
    BY <2>1, <2>3, <2>4, <2>5 DEF Next, vars, CreateInsert, RequestStep, RefetchRead,
       RefetchUpdate, Enqueue, Delete, Forward, Recover, LateInsert, LateStatus, LateDrop, Restart
  <2> QED
    BY <2>2, <2>6
<1>2. /\ RunCampaign(w)' = RunCampaign(w)
      /\ RunBatch(w)' = RunBatch(w)
  BY <1>1, AttemptKept DEF RunBatch
<1>3. /\ RunCampaign(w) \in Campaigns
      /\ Insertable(RunCampaign(w))
      /\ Cascade => campaign'[RunCampaign(w)].status # "DELETED"
  <2>1. RunCampaign(w) \in Campaigns /\ campaign[RunCampaign(w)].status # "ABSENT"
    BY <1>1, BusyWorker
  <2>2. Cascade => campaign'[RunCampaign(w)].status \notin Gone
    BY <1>2 DEF Insertable, Exists
  <2> QED
    BY <2>1, <2>2, RowsKept DEF Insertable, Exists, Gone
<1>4. CASE run[w].pc \in {"done", "ok"}
  <2>1. PICK b \in batches : RunBatch(w) = [b EXCEPT !.copy = 0]
    BY <1>1, <1>3, <1>4 DEF Backed, AttemptsBacked
  <2>2. RunBatch(w).campaign = RunCampaign(w)
    BY DEF RunBatch
  <2>3. b.campaign = RunCampaign(w)
    BY <2>1, <2>2 DEF Batch
  <2>4. b \in batches'
    BY <1>3, <2>3, BatchesKept
  <2> QED
    BY <1>2, <2>1, <2>4
<1>5. CASE RunStep(w) /\ run[w].pc = "insert"
  <2>1. \E o \in Outcomes : Insert(w, o)
    BY <1>5 DEF RunStep, Fetch, PostFailed, PostDone, Ack, Nack
  <2>2. RunBatch(w) \in Batch /\ RunBatch(w).copy = 0
    BY <1>5, BusyWorker DEF RunBatch
  <2>3. batches' = Copied(RunBatch(w))
    BY <1>3, <2>1 DEF Insert, Applied, RunRecord
  <2>4. PICK b : b = RunBatch(w)
    OBVIOUS
  <2>5. PICK x \in Batch : Copied(b) = batches \cup {x} /\ x = [b EXCEPT !.copy = x.copy]
    BY <2>2, <2>4, CopiedBatch
  <2>6. b = [x EXCEPT !.copy = 0]
    BY <2>2, <2>4, <2>5 DEF Batch
  <2> QED
    BY <1>2, <2>3, <2>4, <2>5, <2>6
<1> QED
  BY <1>1, <1>4, <1>5

LEMMA LateBackedNext ==
  ASSUME Typed, Backed, [Next]_vars
  PROVE  LateBacked'
<1> USE DEF Typed, TypeOK
<1>1. SUFFICES ASSUME NEW s \in late', s.op = "status"
               PROVE  campaign'[s.campaign].status # "ABSENT" /\ Stored(s.campaign, s.found)'
  BY DEF LateBacked
<1> DEFINE BackedNow ==
      /\ s.campaign \in Campaigns /\ s.found \in Nat
      /\ campaign[s.campaign].status # "ABSENT"
      /\ Stored(s.campaign, s.found)
<1>2. BackedNow
  <2>1. CASE s \in late
    BY <1>1, <2>1 DEF Backed, LateBacked, InsertStatement, StatusStatement
  <2>2. ASSUME NEW w \in Workers, s \in InFlight(w)
        PROVE  BackedNow
    <3>1. run[w].pc # "idle" /\ run[w].size \in Nat
      BY <2>2 DEF InFlight, RunRecord
    <3>2. RunCampaign(w) \in Campaigns /\ campaign[RunCampaign(w)].status # "ABSENT"
      BY <3>1, BusyWorker
    <3>3. CASE run[w].pc = "fail"
      BY <2>2, <3>2, <3>3 DEF InFlight, Stored
    <3>4. CASE run[w].pc = "done"
      BY <2>2, <3>1, <3>2, <3>4, AttemptStored DEF InFlight, Backed
    <3>5. CASE run[w].pc \notin {"fail", "done"}
      BY <1>1, <2>2, <3>5 DEF InFlight
    <3> QED
      BY <3>3, <3>4, <3>5
  <2>3. \/ s \in late
        \/ \E w \in Workers : s \in InFlight(w)
    <3>1. ASSUME NEW ws \in SUBSET Workers, Outlive(ws)
          PROVE  s \in late \/ \E w \in Workers : s \in InFlight(w)
      BY <1>1, <3>1, OutliveTyped
    <3>2. late' \subseteq late \/ \E ws \in SUBSET Workers : Outlive(ws)
      BY DEF Next, vars, CreateInsert, RequestStep, RefetchRead, RefetchUpdate, Enqueue, Delete,
         Forward, Recover, Dequeue, RunStep, Fetch, Insert, PostFailed, PostDone, Ack, Nack,
         Timeout, LateInsert, LateStatus, LateDrop, Crash, Stop, Restart
    <3> QED
      BY <1>1, <3>1, <3>2
  <2> QED
    BY <2>1, <2>2, <2>3
<1> QED
  BY <1>2, RowsKept, StoredKept

LEMMA BackedInit == Init => Backed
  BY DEF Init, Backed, RowsBacked, AttemptsBacked, LateBacked, Stored, Idle, Gone

LEMMA BackedInvariant == Spec => [](Typed /\ Backed)
<1>1. Typed /\ Backed /\ [Next]_vars => (Typed /\ Backed)'
  BY TypedNext, RowsBackedNext, AttemptsBackedNext, LateBackedNext DEF Backed
<1> QED
  BY <1>1, TypedInit, BackedInit, PTL DEF Spec

\* The count that a row shows never exceeds what some COPY stored for it, although
\* two statements of two tables write them (worker.go:108-115), attempts repeat
\* and overlap, and a statement may take effect after its attempt has failed.
THEOREM FoundBacked == Spec => []FoundIsBacked
<1>1. Typed /\ Backed => FoundIsBacked
  <2> SUFFICES ASSUME Typed, Backed, NEW c \in Campaigns
               PROVE  \/ campaign[c].found = 0
                      \/ \E b \in batches : b.campaign = c /\ b.size = campaign[c].found
    BY DEF FoundIsBacked
  <2> QED
    BY DEF Backed, RowsBacked, Stored, Gone
<1> QED
  BY <1>1, BackedInvariant, PTL

\* When ProcessCampaign returns nil and asynq drops the task (worker.go:115), the
\* leads of that attempt are in the database, deletion of the campaign aside.
THEOREM AckedStored == Spec => []AckedIsStored
<1>1. Typed /\ Backed => AckedIsStored
  BY DEF Backed, AttemptsBacked, AckedIsStored
<1> QED
  BY <1>1, BackedInvariant, PTL

-----------------------------------------------------------------------------
(* A RUNNING campaign has a job, or the code lost it *)

LEMMA ReportedNext ==
  ASSUME Typed, Reported, [Next]_vars
  PROVE  Reported'
<1> USE DEF Typed, TypeOK
<1> SUFFICES ASSUME NEW w \in Workers, run'[w].pc = "ok" PROVE run'[w].posted = TRUE
  BY DEF Reported
<1>1. CASE run'[w] = run[w]
  BY <1>1 DEF Reported
<1>2. CASE RunStep(w)
  <2>1. ASSUME NEW o \in Outcomes, PostDone(w, o)
        PROVE  run'[w].posted = TRUE
    <3>1. o = "ok"
      BY <2>1 DEF PostDone, RunRecord
    <3>2. Applied(o) = TRUE
      BY <3>1 DEF Applied
    <3> QED
      BY <2>1, <3>2 DEF PostDone, RunRecord
  <2>2. \E o \in Outcomes : PostDone(w, o)
    <3>1. ASSUME NEW n \in 0..MaxFound, Fetch(w, n) PROVE FALSE
      BY <3>1 DEF Fetch, RunRecord
    <3>2. ASSUME NEW o \in Outcomes, Insert(w, o) \/ PostFailed(w, o) PROVE FALSE
      BY <3>2 DEF Insert, PostFailed, RunRecord
    <3>3. ~Ack(w) /\ ~Nack(w)
      BY DEF Ack, Nack, Idle
    <3> QED
      BY <1>2, <3>1, <3>2, <3>3 DEF RunStep
  <2> QED
    BY <2>1, <2>2
<1>3. ASSUME NEW v \in Workers, v # w, RunStep(v)
      PROVE  run'[w] = run[w]
  BY <1>3 DEF RunStep, Fetch, Insert, PostFailed, PostDone, Ack, Nack
<1>4. ASSUME NEW v \in Workers, Timeout(v)
      PROVE  run'[w] = run[w]
  BY <1>4 DEF Timeout, Idle
<1>5. ASSUME NEW v \in Workers, NEW r \in Requests, Dequeue(v, r)
      PROVE  run'[w] = run[w]
  BY <1>5 DEF Dequeue, Idle
<1>6. ~Crash /\ ~Stop
  BY DEF Crash, Stop, Idle
<1> QED
  BY <1>1, <1>2, <1>3, <1>4, <1>5, <1>6 DEF Next, vars, CreateInsert, RequestStep, RefetchRead,
     RefetchUpdate, Enqueue, Delete, Forward, Recover, LateInsert, LateStatus, LateDrop, Restart

\* A request that answers for its campaign goes on to do so while the campaign
\* says RUNNING.
LEMMA AccountKept ==
  ASSUME Typed, Reported, [Next]_vars, NEW r \in Requests,
         Responsible(r) \/ Lost(r), request[r].campaign \in Campaigns,
         campaign'[request[r].campaign].status = "RUNNING"
  PROVE  request'[r].campaign = request[r].campaign /\ (Responsible(r) \/ Lost(r))'
<1> USE PipelineAssumption DEF Typed, TypeOK
<1> DEFINE Kept == request'[r].campaign = request[r].campaign /\ (Responsible(r) \/ Lost(r))'
<1>1. /\ request[r].pc \in {"enqueue", "lost", "closed"}
      /\ task[r].state # "none" => request[r].pc = "closed"
  BY DEF Responsible, Lost, Wrote
<1>2. ASSUME request'[r] = request[r], task'[r] = task[r],
             \A w \in Workers : run'[w].task = r => run[w].task = r /\ run'[w].posted = run[w].posted
      PROVE  Kept
  BY <1>2 DEF Responsible, Lost
<1>3. ASSUME NEW q \in Requests, NEW c \in Campaigns,
             RefetchRead(q, c) \/ \E o \in Outcomes : CreateInsert(q, c, o)
      PROVE  Kept
  BY <1>1, <1>2, <1>3 DEF RefetchRead, CreateInsert
<1>4. ASSUME NEW q \in Requests, NEW o \in Outcomes, RefetchUpdate(q, o)
      PROVE  Kept
  BY <1>1, <1>2, <1>4 DEF RefetchUpdate
<1>5. ASSUME NEW q \in Requests, NEW stored \in BOOLEAN, Enqueue(q, stored)
      PROVE  Kept
  <2>1. CASE q # r
    BY <1>2, <1>5, <2>1 DEF Enqueue
  <2>2. CASE q = r
    BY <1>5, <2>2 DEF Enqueue, Responsible, Lost, RequestRecord, TaskRecord
  <2> QED
    BY <2>1, <2>2
<1>6. ASSUME NEW w \in Workers, NEW q \in Requests, Dequeue(w, q)
      PROVE  Kept
  <2>1. CASE q # r
    BY <1>2, <1>6, <2>1 DEF Dequeue, Idle, RunRecord
  <2>2. CASE q = r
    <3>1. \A v \in Workers \ {w} : run'[v].task # r
      BY <1>6, <2>2 DEF Dequeue, Held
    <3>2. task'[r].state = "active" /\ run'[w].posted = FALSE /\ request' = request
      BY <1>6, <2>2 DEF Dequeue, Idle, TaskRecord
    <3> QED
      BY <3>1, <3>2 DEF Responsible
  <2> QED
    BY <2>1, <2>2
<1>7. ASSUME NEW q \in Requests, Forward(q)
      PROVE  Kept
  <2>1. CASE q # r
    BY <1>2, <1>7, <2>1 DEF Forward
  <2>2. CASE q = r
    BY <1>7, <2>2 DEF Forward, Responsible, TaskRecord
  <2> QED
    BY <2>1, <2>2
<1>8. ASSUME NEW posted \in BOOLEAN, AttemptFailed(r, posted), request' = request,
             task[r].state = "active" => posted = FALSE, task[r].state = "active"
      PROVE  Kept
  BY <1>8, AttemptFailedTask DEF Responsible, Lost
<1>9. ASSUME NEW q \in Requests, NEW posted \in BOOLEAN, AttemptFailed(q, posted), q # r
      PROVE  task'[r] = task[r]
  BY <1>9, AttemptFailedTask
<1>10. ASSUME NEW q \in Requests, Recover(q)
       PROVE  Kept
  BY <1>2, <1>8, <1>9, <1>10 DEF Recover
\* A worker that gives up the task of r has not posted.
<1>11. ASSUME NEW w \in Workers, run[w].task = r
       PROVE  task[r].state = "active" /\ run[w].posted = FALSE
  <2>1. task[r].state = "active"
    BY <1>11 DEF Held
  <2> QED
    BY <1>1, <1>11, <2>1 DEF Responsible, Lost, RunRecord
<1>12. ASSUME NEW w \in Workers, run[w].pc # "idle",
              AttemptFailed(run[w].task, run[w].posted),
              run' = [run EXCEPT ![w] = Idle], request' = request
       PROVE  Kept
  <2>1. run[w].task \in Requests /\ run[w].posted \in BOOLEAN
    BY <1>12, BusyWorker DEF RunRecord
  <2>2. CASE run[w].task = r
    BY <1>8, <1>11, <1>12, <2>1, <2>2
  <2>3. CASE run[w].task # r
    BY <1>2, <1>9, <1>12, <2>1, <2>3 DEF Idle
  <2> QED
    BY <2>2, <2>3
<1>13. ASSUME NEW w \in Workers, RunStep(w)
       PROVE  Kept
  <2>1. ASSUME NEW n \in 0..MaxFound, Fetch(w, n)
        PROVE  Kept
    BY <1>2, <2>1 DEF Fetch, RunRecord
  <2>2. ASSUME NEW o \in Outcomes, Insert(w, o)
        PROVE  Kept
    BY <1>2, <2>2 DEF Insert, RunRecord
  <2>3. ASSUME NEW o \in Outcomes, PostFailed(w, o) \/ PostDone(w, o)
        PROVE  Kept
    <3>1. CASE run[w].task = r /\ Applied(o)
      BY <2>3, <3>1 DEF PostFailed, PostDone, WithStatus, RunCampaign, Exists, Gone, CampaignRow
    <3>2. CASE run[w].task # r \/ ~Applied(o)
      <4>1. \A v \in Workers : /\ run'[v].task = run[v].task
                               /\ run'[v].posted = run[v].posted \/ run[v].task # r
                               /\ v # w => run'[v] = run[v]
        BY <2>3, <3>2, <1>11 DEF PostFailed, PostDone, RunRecord, Applied
      <4> QED
        BY <1>2, <2>3, <4>1 DEF PostFailed, PostDone
    <3> QED
      BY <3>1, <3>2
  <2>4. CASE Ack(w)
    <3>1. run[w].task # r
      BY <1>11, <2>4 DEF Ack, Reported
    <3> QED
      BY <1>2, <2>4, <3>1 DEF Ack, Idle, RunRecord
  <2>5. CASE Nack(w)
    BY <1>12, <2>5 DEF Nack
  <2> QED
    BY <1>13, <2>1, <2>2, <2>3, <2>4, <2>5 DEF RunStep
<1>14. ASSUME NEW w \in Workers, Timeout(w)
       PROVE  Kept
  BY <1>12, <1>14 DEF Timeout
<1>15. CASE Crash
  <2>1. /\ request'[r].campaign = request[r].campaign
        /\ request[r].pc = "enqueue" => request'[r].pc = "lost"
        /\ request[r].pc # "enqueue" => request'[r] = request[r]
    <3>1. request'[r] = Interrupted(request[r])
      BY <1>15 DEF Crash
    <3>2. CASE request[r].pc = "enqueue"
      BY <3>1, <3>2 DEF Interrupted, RequestRecord
    <3>3. CASE request[r].pc # "enqueue"
      BY <1>1, <3>1, <3>3 DEF Interrupted
    <3> QED
      BY <3>2, <3>3
  <2>2. /\ task' = task
        /\ run' = [w \in Workers |-> Idle]
    BY <1>15 DEF Crash
  <2> QED
    BY <2>1, <2>2 DEF Responsible, Lost, Idle
<1>16. CASE Stop
  <2>1. /\ task'[r] = task[r] \/ task'[r].state = "pending"
        /\ run' = [w \in Workers |-> Idle]
        /\ request' = request
    BY <1>16 DEF Stop, TaskRecord
  <2> QED
    BY <2>1 DEF Responsible, Lost, Idle
<1>17. CASE UNCHANGED <<request, task, run>>
  BY <1>2, <1>17
<1> QED
  <2>1. \/ UNCHANGED <<request, task, run>>
        \/ \E q \in Requests, c \in Campaigns :
             RefetchRead(q, c) \/ \E o \in Outcomes : CreateInsert(q, c, o)
        \/ \E q \in Requests : RequestStep(q) \/ Forward(q) \/ Recover(q)
        \/ \E w \in Workers, q \in Requests : Dequeue(w, q)
        \/ \E w \in Workers : RunStep(w) \/ Timeout(w)
        \/ Crash \/ Stop
    BY DEF Next, vars, Delete, LateInsert, LateStatus, LateDrop, Restart
  <2> QED
    BY <2>1, <1>3, <1>4, <1>5, <1>6, <1>7, <1>10, <1>13, <1>14, <1>15, <1>16, <1>17
       DEF RequestStep

\* A campaign turns RUNNING only by a request that will, or cannot any more, enqueue.
LEMMA TurnsRunning ==
  ASSUME Typed, [Next]_vars, NEW c \in Campaigns,
         campaign[c].status # "RUNNING", campaign'[c].status = "RUNNING"
  PROVE  \E r \in Requests : request'[r].campaign = c /\ (Responsible(r) \/ Lost(r))'
<1> USE DEF Typed, TypeOK
<1>1. ASSUME NEW r \in Requests, request'[r].pc \in {"enqueue", "lost"}
      PROVE  (Responsible(r) \/ Lost(r))'
  BY <1>1 DEF Responsible, Lost
<1>2. ASSUME NEW r \in Requests, NEW d \in Campaigns, NEW o \in Outcomes,
             CreateInsert(r, d, o)
      PROVE  request'[r].campaign = c /\ request'[r].pc \in {"enqueue", "lost"}
  BY <1>2 DEF CreateInsert
<1>3. ASSUME NEW r \in Requests, NEW o \in Outcomes, RefetchUpdate(r, o)
      PROVE  request'[r].campaign = c /\ request'[r].pc \in {"enqueue", "lost"}
  BY <1>3 DEF RefetchUpdate, Outcomes, Applied, RequestRecord
<1>4. ASSUME NEW d \in Campaigns, NEW status \in {"DONE", "FAILED"}, NEW found \in Nat,
             campaign' = WithStatus(d, status, found)
      PROVE  FALSE
  <2>1. campaign'[c] = campaign[c] \/ campaign'[c] = [status |-> status, found |-> found]
    BY <1>4 DEF WithStatus
  <2> QED
    BY <2>1
<1>5. ASSUME NEW w \in Workers, NEW o \in Outcomes, PostFailed(w, o) \/ PostDone(w, o)
      PROVE  FALSE
  <2>1. run[w].pc # "idle"
    BY <1>5 DEF PostFailed, PostDone
  <2>2. RunCampaign(w) \in Campaigns /\ run[w].size \in Nat
    BY <2>1, BusyWorker DEF RunRecord
  <2>3. CASE PostFailed(w, o)
    <3>1. \/ campaign' = campaign
          \/ campaign' = WithStatus(RunCampaign(w), "FAILED", 0)
      BY <2>3 DEF PostFailed
    <3> QED
      BY <1>4, <2>2, <3>1
  <2>4. CASE PostDone(w, o)
    <3>1. \/ campaign' = campaign
          \/ campaign' = WithStatus(RunCampaign(w), "DONE", run[w].size)
      BY <2>4 DEF PostDone
    <3> QED
      BY <1>4, <2>2, <3>1
  <2> QED
    BY <1>5, <2>3, <2>4
<1>6. ASSUME NEW s \in late, LateStatus(s)
      PROVE  FALSE
  BY <1>4, <1>6 DEF LateStatus, InsertStatement, StatusStatement
<1>7. \/ \E r \in Requests, d \in Campaigns, o \in Outcomes : CreateInsert(r, d, o)
      \/ \E r \in Requests, o \in Outcomes : RefetchUpdate(r, o)
  <2>1. ASSUME NEW d \in Campaigns, Delete(d) PROVE FALSE
    BY <2>1 DEF Delete
  <2> QED
    BY <2>1, <1>5, <1>6 DEF Next, vars, RequestStep, RefetchRead, Enqueue, Forward, Recover,
       Dequeue, RunStep, Fetch, Insert, Ack, Nack, Timeout, LateInsert, LateDrop, Crash, Stop,
       Restart
<1> QED
  BY <1>1, <1>2, <1>3, <1>7

\* RUNNING is never a dead end that nothing explains: a job of the campaign is on
\* its way to a status, or the enqueue error was swallowed (service.go:60, :129),
\* or the last attempt could not write its status (worker.go:110, :115).
THEOREM RunningAccounted == Spec => []RunningIsAccounted
<1>1. Init => Reported /\ RunningIsAccounted
  BY DEF Init, Reported, RunningIsAccounted, Idle
<1>2. Typed /\ Reported /\ RunningIsAccounted /\ [Next]_vars
      => Reported' /\ RunningIsAccounted'
  <2> SUFFICES ASSUME Typed, Reported, RunningIsAccounted, [Next]_vars,
                      NEW c \in Campaigns, campaign'[c].status = "RUNNING"
               PROVE  \E r \in Requests :
                        request'[r].campaign = c /\ (Responsible(r) \/ Lost(r))'
    BY ReportedNext DEF RunningIsAccounted
  <2>1. CASE campaign[c].status = "RUNNING"
    <3>1. PICK r \in Requests : request[r].campaign = c /\ (Responsible(r) \/ Lost(r))
      BY <2>1 DEF RunningIsAccounted
    <3> QED
      BY <3>1, AccountKept
  <2>2. CASE campaign[c].status # "RUNNING"
    BY <2>2, TurnsRunning
  <2> QED
    BY <2>1, <2>2
<1> QED
  BY <1>1, <1>2, TypedInvariant, PTL DEF Spec

-----------------------------------------------------------------------------
(* Leads are stored twice only after a failure or a shutdown *)

LEMMA CountedNext ==
  ASSUME Typed, Counted, [Next]_vars
  PROVE  /\ Counted'
         /\ \A r \in Requests : task[r].attempt <= task'[r].attempt
<1> USE DEF Typed, TypeOK
<1> SUFFICES ASSUME NEW r \in Requests
             PROVE  /\ task'[r].attempt <= task'[r].retried + stops'
                         + (IF task'[r].state \in {"active", "completed", "archived"}
                            THEN 1 ELSE 0)
                    /\ task'[r].state = "active" => 1 <= task'[r].attempt
                    /\ task[r].attempt <= task'[r].attempt
  BY DEF Counted
<1> DEFINE Kept ==
      /\ task'[r].attempt <= task'[r].retried + stops'
           + (IF task'[r].state \in {"active", "completed", "archived"} THEN 1 ELSE 0)
      /\ task'[r].state = "active" => 1 <= task'[r].attempt
      /\ task[r].attempt <= task'[r].attempt
<1>1. /\ task[r].attempt <= task[r].retried + stops
           + (IF task[r].state \in {"active", "completed", "archived"} THEN 1 ELSE 0)
      /\ task[r].state = "active" => 1 <= task[r].attempt
      /\ task[r].attempt \in Nat /\ task[r].retried \in Nat /\ stops \in Nat
  BY DEF Counted, TaskRecord
<1>2. ASSUME task'[r] = task[r], stops' = stops
      PROVE  Kept
  BY <1>1, <1>2
<1>3. ASSUME NEW q \in Requests, NEW stored \in BOOLEAN, Enqueue(q, stored)
      PROVE  Kept
  <2>1. CASE task'[r] = task[r]
    BY <1>2, <1>3, <2>1 DEF Enqueue
  <2>2. CASE task'[r] # task[r]
    <3>1. q = r /\ task'[r] = [task[r] EXCEPT !.state = "pending"] /\ stops' = stops
      BY <1>3, <2>2 DEF Enqueue
    <3>2. task[r].state = "none"
      BY <1>3, <3>1 DEF Enqueue, Wrote
    <3> QED
      BY <1>1, <3>1, <3>2 DEF TaskRecord
  <2> QED
    BY <2>1, <2>2
<1>4. ASSUME NEW w \in Workers, NEW q \in Requests, Dequeue(w, q)
      PROVE  Kept
  <2>1. CASE q = r
    BY <1>1, <1>4, <2>1 DEF Dequeue, TaskRecord
  <2>2. CASE q # r
    BY <1>2, <1>4, <2>2 DEF Dequeue
  <2> QED
    BY <2>1, <2>2
<1>5. ASSUME NEW q \in Requests, Forward(q)
      PROVE  Kept
  <2>1. CASE q = r
    BY <1>1, <1>5, <2>1 DEF Forward, TaskRecord
  <2>2. CASE q # r
    BY <1>2, <1>5, <2>2 DEF Forward
  <2> QED
    BY <2>1, <2>2
<1>6. ASSUME NEW q \in Requests, task[q].state = "active", NEW posted \in BOOLEAN,
             AttemptFailed(q, posted), stops' = stops
      PROVE  Kept
  <2>1. CASE q = r
    BY <1>1, <1>6, <2>1, AttemptFailedTask
  <2>2. CASE q # r
    BY <1>2, <1>6, <2>2, AttemptFailedTask
  <2> QED
    BY <2>1, <2>2
<1>7. ASSUME NEW q \in Requests, Recover(q)
      PROVE  Kept
  BY <1>6, <1>7 DEF Recover
<1>8. ASSUME NEW w \in Workers, Nack(w) \/ Timeout(w)
      PROVE  Kept
  <2>1. run[w].pc # "idle" /\ run[w].posted \in BOOLEAN
    BY <1>8 DEF Nack, Timeout, RunRecord
  <2> QED
    BY <1>6, <1>8, <2>1, BusyWorker DEF Nack, Timeout
<1>9. ASSUME NEW w \in Workers, Ack(w)
      PROVE  Kept
  <2>1. run[w].task \in Requests /\ task[run[w].task].state = "active"
    BY <1>9, BusyWorker DEF Ack
  <2>2. CASE run[w].task = r
    BY <1>1, <1>9, <2>1, <2>2 DEF Ack, TaskRecord
  <2>3. CASE run[w].task # r
    BY <1>2, <1>9, <2>3 DEF Ack
  <2> QED
    BY <2>2, <2>3
<1>10. CASE Stop
  <2>1. \/ task'[r] = task[r]
        \/ task'[r] = [task[r] EXCEPT !.state = "pending"]
    BY <1>10 DEF Stop
  <2>2. stops' = stops + 1
    BY <1>10 DEF Stop
  <2> QED
    BY <1>1, <2>1, <2>2 DEF TaskRecord
<1> QED
  <2>1. \/ UNCHANGED <<task, stops>>
        \/ \E q \in Requests : RequestStep(q) \/ Forward(q) \/ Recover(q)
        \/ \E w \in Workers, q \in Requests : Dequeue(w, q)
        \/ \E w \in Workers : Ack(w) \/ Nack(w) \/ Timeout(w)
        \/ Stop
    BY DEF Next, vars, CreateInsert, RefetchRead, Delete, RunStep, Fetch, Insert, PostFailed,
       PostDone, LateInsert, LateStatus, LateDrop, Crash, Restart
  <2>2. ASSUME NEW q \in Requests, RequestStep(q)
        PROVE  Kept
    <3>1. ASSUME NEW o \in Outcomes, RefetchUpdate(q, o)
          PROVE  Kept
      BY <1>2, <3>1 DEF RefetchUpdate
    <3> QED
      BY <1>3, <2>2, <3>1 DEF RequestStep
  <2> QED
    BY <2>1, <2>2, <1>2, <1>4, <1>5, <1>7, <1>8, <1>9, <1>10

\* The COPY of an attempt before its COPY, or one left behind, is the attempt's first.
LEMMA FirstCopy ==
  ASSUME Typed, Written
  PROVE  /\ \A w \in Workers : run[w].pc = "insert" =>
              Copied(RunBatch(w)) = batches \cup {RunBatch(w)}
         /\ \A s \in late : s.op = "insert" =>
              Copied(s.batch) = batches \cup {s.batch}
<1>1. ASSUME NEW b \in Batch, b.copy = 0,
             \A y \in batches : y.task = b.task => y.attempt # b.attempt
      PROVE  Copied(b) = batches \cup {b}
  <2>1. PICK x \in Batch : /\ Copied(b) = batches \cup {x}
                           /\ x = [b EXCEPT !.copy = x.copy]
                           /\ x.copy = 0
    BY <1>1, CopiedBatch
  <2>2. x = b
    BY <1>1, <2>1 DEF Batch
  <2> QED
    BY <2>1, <2>2
<1>2. ASSUME NEW w \in Workers, run[w].pc = "insert"
      PROVE  Copied(RunBatch(w)) = batches \cup {RunBatch(w)}
  <2>1. PICK b \in Batch : b = RunBatch(w)
    BY <1>2, BusyWorker
  <2>2. b.copy = 0 /\ b.task = run[w].task /\ b.attempt = task[run[w].task].attempt
    BY <2>1 DEF RunBatch
  <2>3. \A y \in batches : y.task = b.task => y.attempt # b.attempt
    BY <1>2, <2>2 DEF Written, Copies
  <2> QED
    BY <1>1, <2>1, <2>2, <2>3
<1>3. ASSUME NEW s \in late, s.op = "insert"
      PROVE  Copied(s.batch) = batches \cup {s.batch}
  <2>1. PICK b \in Batch : b = s.batch
    BY <1>3 DEF Typed, TypeOK, InsertStatement, StatusStatement
  <2>2. b \in Copies /\ b \notin batches /\ \A y \in batches : y \in Copies
    BY <1>3, <2>1 DEF Written, Copies
  <2>3. b.copy = 0 /\ \A y \in batches : y.task = b.task => y.attempt # b.attempt
    BY <2>2 DEF Written
  <2> QED
    BY <1>1, <2>1, <2>3
<1> QED
  BY <1>2, <1>3

\* The only new copy is that of an attempt that leaves its COPY behind.
LEMMA CopiesNext ==
  ASSUME Typed, Written, [Next]_vars, NEW b \in Copies'
  PROVE  \/ b \in Copies
         \/ \E w \in Workers : /\ run[w].pc = "insert"
                               /\ b = RunBatch(w)
                               /\ run'[w].pc \notin {"fetch", "insert"}
<1> USE DEF Typed, TypeOK
<1> DEFINE New == \E w \in Workers : /\ run[w].pc = "insert"
                                     /\ b = RunBatch(w)
                                     /\ run'[w].pc \notin {"fetch", "insert"}
<1>1. b \in batches' \/ \E s \in late' : s.op = "insert" /\ b = s.batch
  BY DEF Copies
<1>2. ASSUME NEW s \in late, s.op = "insert", b = s.batch
      PROVE  b \in Copies
  BY <1>2 DEF Copies
<1>3. CASE b \in batches'
  <2>1. ASSUME NEW w \in Workers, NEW o \in Outcomes, Insert(w, o)
        PROVE  b \in Copies \/ New
    <3>1. b \in batches \/ b = RunBatch(w)
      BY <1>3, <2>1, FirstCopy DEF Insert
    <3>2. run[w].pc = "insert" /\ run'[w].pc \notin {"fetch", "insert"}
      BY <2>1 DEF Insert, RunRecord
    <3> QED
      BY <3>1, <3>2 DEF Copies
  <2>2. ASSUME NEW s \in late, LateInsert(s)
        PROVE  b \in Copies
    BY <1>2, <1>3, <2>2, FirstCopy DEF LateInsert, Copies
  <2>3. \/ batches' \subseteq batches
        \/ \E w \in Workers, o \in Outcomes : Insert(w, o)
        \/ \E s \in late : LateInsert(s)
    BY DEF Next, vars, CreateInsert, RequestStep, RefetchRead, RefetchUpdate, Enqueue, Delete,
       Forward, Recover, Dequeue, RunStep, Fetch, PostFailed, PostDone, Ack, Nack, Timeout,
       LateStatus, LateDrop, Crash, Stop, Restart
  <2> QED
    BY <1>3, <2>1, <2>2, <2>3 DEF Copies
<1>4. ASSUME NEW s \in late', s.op = "insert", b = s.batch
      PROVE  b \in Copies \/ New
  <2>1. ASSUME NEW ws \in SUBSET Workers, Outlive(ws), \A w \in ws : run'[w].pc = "idle"
        PROVE  b \in Copies \/ New
    <3>1. CASE s \in late
      BY <1>2, <1>4, <3>1
    <3>2. ASSUME NEW w \in ws, s \in InFlight(w)
          PROVE  New
      <4>1. run[w].pc = "insert"
        BY <1>4, <3>2 DEF InFlight
      <4>2. b = RunBatch(w)
        BY <1>4, <3>2, <4>1 DEF InFlight
      <4> QED
        BY <2>1, <4>1, <4>2
    <3> QED
      BY <1>4, <2>1, <3>1, <3>2, OutliveTyped
  <2>2. ASSUME NEW w \in Workers, Timeout(w)
        PROVE  b \in Copies \/ New
    <3>1. Outlive({w}) /\ run'[w].pc = "idle"
      BY <2>2 DEF Timeout, Idle
    <3> QED
      BY <2>1, <3>1
  <2>3. CASE Crash \/ Stop
    <3>1. Outlive(Workers) /\ \A w \in Workers : run'[w].pc = "idle"
      BY <2>3 DEF Crash, Stop, Idle
    <3> QED
      BY <2>1, <3>1
  <2>4. \/ late' \subseteq late
        \/ \E w \in Workers : Timeout(w)
        \/ Crash \/ Stop
    BY DEF Next, vars, CreateInsert, RequestStep, RefetchRead, RefetchUpdate, Enqueue, Delete,
       Forward, Recover, Dequeue, RunStep, Fetch, Insert, PostFailed, PostDone, Ack, Nack,
       LateInsert, LateStatus, LateDrop, Restart
  <2> QED
    BY <1>2, <1>4, <2>2, <2>3, <2>4
<1> QED
  BY <1>1, <1>3, <1>4

\* An attempt is before its COPY because it was there already, or just started.
LEMMA BeforeCopy ==
  ASSUME Typed, [Next]_vars, NEW w \in Workers, run'[w].pc \in {"fetch", "insert"}
  PROVE  \/ run[w].pc \in {"fetch", "insert"} /\ run'[w].task = run[w].task
         \/ \E r \in Requests : Dequeue(w, r)
<1> USE DEF Typed, TypeOK
<1>1. ASSUME NEW v \in Workers, v # w, RunStep(v)
      PROVE  run'[w] = run[w]
  BY <1>1 DEF RunStep, Fetch, Insert, PostFailed, PostDone, Ack, Nack
<1>2. CASE RunStep(w)
  <2>1. ASSUME NEW n \in 0..MaxFound, Fetch(w, n)
        PROVE  run[w].pc = "fetch" /\ run'[w].task = run[w].task
    BY <2>1 DEF Fetch, RunRecord
  <2>2. ASSUME NEW o \in Outcomes, Insert(w, o) \/ PostFailed(w, o)
        PROVE  FALSE
    BY <2>2 DEF Insert, PostFailed, RunRecord
  <2>3. ASSUME NEW o \in Outcomes, PostDone(w, o)
        PROVE  FALSE
    BY <2>3 DEF PostDone, RunRecord
  <2>4. ~Ack(w) /\ ~Nack(w)
    BY DEF Ack, Nack, Idle
  <2> QED
    BY <1>2, <2>1, <2>2, <2>3, <2>4 DEF RunStep
<1>3. ASSUME NEW v \in Workers, Timeout(v)
      PROVE  run'[w] = run[w]
  BY <1>3 DEF Timeout, Idle
<1>4. ASSUME NEW v \in Workers, v # w, NEW r \in Requests, Dequeue(v, r)
      PROVE  run'[w] = run[w]
  BY <1>4 DEF Dequeue
<1>5. ~Crash /\ ~Stop
  BY DEF Crash, Stop, Idle
<1> QED
  BY <1>1, <1>2, <1>3, <1>4, <1>5 DEF Next, vars, CreateInsert, RequestStep, RefetchRead,
     RefetchUpdate, Enqueue, Delete, Forward, Recover, LateInsert, LateStatus, LateDrop, Restart

LEMMA WrittenNext ==
  ASSUME Typed, Counted, Written, [Next]_vars
  PROVE  Written'
<1> DEFINE New(b, w) == /\ run[w].pc = "insert"
                        /\ b = RunBatch(w)
                        /\ run'[w].pc \notin {"fetch", "insert"}
<1>1. \A b \in Copies' : b \in Copies \/ \E w \in Workers : New(b, w)
  BY CopiesNext
<1>2. \A b \in Copies : b \in Batch
  BY DEF Copies, Typed, TypeOK, InsertStatement, StatusStatement
<1>3. ASSUME NEW b, NEW w \in Workers, New(b, w)
      PROVE  /\ b.task = run[w].task /\ b.task \in Requests
             /\ b.attempt = task[run[w].task].attempt
             /\ b.copy = 0 /\ 1 <= b.attempt
             /\ \A v \in Workers \ {w} : run[v].task # b.task
             /\ \A c \in Copies : c.task = b.task => c.attempt # b.attempt
  <2>1. b.task = run[w].task /\ b.attempt = task[run[w].task].attempt /\ b.copy = 0
    BY <1>3 DEF RunBatch
  <2>2. 1 <= task[run[w].task].attempt
    BY <1>3, BusyWorker DEF Counted
  <2> QED
    BY <1>3, <2>1, <2>2, BusyWorker DEF Written
<1>4. \A r \in Requests : /\ task[r].attempt <= task'[r].attempt
                          /\ task[r].attempt \in Nat /\ task'[r].attempt \in Nat
  BY CountedNext, TypedNext DEF Typed, TypeOK, TaskRecord
<1>5. ASSUME NEW b \in Copies'
      PROVE  b.copy = 0 /\ 1 <= b.attempt /\ b.attempt <= task'[b.task].attempt
  <2>1. CASE b \in Copies
    <3>1. /\ b.task \in Requests /\ b.attempt \in Nat /\ b.attempt <= task[b.task].attempt
          /\ b.copy = 0 /\ 1 <= b.attempt
      BY <1>2, <2>1 DEF Batch, Written
    <3> QED
      BY <1>4, <3>1
  <2>2. ASSUME NEW w \in Workers, New(b, w)
        PROVE  b.copy = 0 /\ 1 <= b.attempt /\ b.attempt <= task'[b.task].attempt
    <3>1. /\ b.task \in Requests /\ b.attempt = task[b.task].attempt
          /\ b.copy = 0 /\ 1 <= b.attempt
      BY <1>3, <2>2
    <3> QED
      BY <1>4, <3>1
  <2> QED
    BY <1>1, <1>5, <2>1, <2>2
<1>6. ASSUME NEW b1 \in Copies', NEW b2 \in Copies',
             b1.task = b2.task, b1.attempt = b2.attempt
      PROVE  b1 = b2
  <2>1. CASE b1 \in Copies /\ b2 \in Copies
    BY <1>6, <2>1 DEF Written
  <2>2. ASSUME NEW w \in Workers, New(b1, w)
        PROVE  b1 = b2
    <3>1. b2 \notin Copies
      BY <1>3, <1>6, <2>2
    <3>2. PICK v \in Workers : New(b2, v)
      BY <1>1, <1>6, <3>1
    <3>3. v = w
      BY <1>3, <1>6, <2>2, <3>2
    <3> QED
      BY <2>2, <3>2, <3>3
  <2>3. ASSUME NEW w \in Workers, New(b2, w)
        PROVE  b1 \notin Copies
    BY <1>3, <1>6, <2>3
  <2> QED
    BY <1>1, <1>6, <2>1, <2>2, <2>3
<1>7. ASSUME NEW w \in Workers, run'[w].pc \in {"fetch", "insert"},
             NEW b \in Copies', b.task = run'[w].task
      PROVE  b.attempt # task'[run'[w].task].attempt
  <2>1. CASE run[w].pc \in {"fetch", "insert"} /\ run'[w].task = run[w].task
    <3>1. task'[run[w].task].attempt = task[run[w].task].attempt
      BY <2>1, AttemptKept
    <3>2. b \in Copies
      BY <1>1, <1>3, <1>7, <2>1
    <3> QED
      BY <1>7, <2>1, <3>1, <3>2 DEF Written
  <2>2. ASSUME NEW r \in Requests, Dequeue(w, r)
        PROVE  b.attempt # task'[run'[w].task].attempt
    <3>1. /\ run'[w].task = r
          /\ task'[r].attempt = task[r].attempt + 1
          /\ run[w].pc = "idle"
          /\ \A v \in Workers \ {w} : run'[v] = run[v]
      BY <2>2 DEF Dequeue, Typed, TypeOK, TaskRecord, Idle
    <3>2. b \in Copies
      BY <1>1, <1>7, <3>1
    <3>3. b.attempt \in Nat /\ b.attempt <= task[r].attempt
      BY <1>2, <1>7, <3>1, <3>2 DEF Batch, Written
    <3> QED
      BY <1>4, <3>1, <3>3
  <2> QED
    BY <1>7, <2>1, <2>2, BeforeCopy
<1>8. ASSUME NEW s \in late', s.op = "insert"
      PROVE  s.batch \notin batches'
  <2>1. CASE s \in late
    <3>1. s.batch \in Copies /\ s.batch \notin batches /\ s \in InsertStatement
      BY <1>8, <2>1 DEF Copies, Written, Typed, TypeOK, InsertStatement, StatusStatement
    <3>2. ASSUME NEW w \in Workers, NEW o \in Outcomes, Insert(w, o),
                 batches' = Copied(RunBatch(w))
          PROVE  s.batch \notin batches'
      <4>1. PICK b : b = RunBatch(w)
        OBVIOUS
      <4>2. New(b, w)
        BY <3>2, <4>1 DEF Insert, Typed, TypeOK, RunRecord
      <4>3. s.batch # b
        BY <1>3, <3>1, <4>2
      <4> QED
        BY <3>1, <3>2, <4>1, <4>2, <4>3, FirstCopy
    <3>3. ASSUME NEW t \in late, LateInsert(t), batches' = Copied(t.batch)
          PROVE  s.batch \notin batches'
      <4>1. t.op = "insert" /\ t \in InsertStatement /\ s # t
        BY <1>8, <3>3 DEF LateInsert, Typed, TypeOK, InsertStatement, StatusStatement
      <4>2. s.batch # t.batch
        BY <3>1, <4>1 DEF InsertStatement
      <4> QED
        BY <3>1, <3>3, <4>1, <4>2, FirstCopy
    <3> QED
      BY <3>1, <3>2, <3>3, BatchesChange
  <2>2. CASE s \notin late
    <3>1. PICK ws \in SUBSET Workers : Outlive(ws)
      BY <1>8, <2>2 DEF Next, vars, CreateInsert, RequestStep, RefetchRead, RefetchUpdate, Enqueue,
         Delete, Forward, Recover, Dequeue, RunStep, Fetch, Insert, PostFailed, PostDone, Ack,
         Nack, Timeout, LateInsert, LateStatus, LateDrop, Crash, Stop, Restart
    <3>2. PICK w \in Workers : s \in InFlight(w)
      BY <1>8, <2>2, <3>1, OutliveTyped
    <3>3. run[w].pc = "insert"
      BY <1>8, <3>2 DEF InFlight
    <3>4. s.batch.task = run[w].task /\ s.batch.attempt = task[run[w].task].attempt
      BY <3>2, <3>3 DEF InFlight, RunBatch
    <3>5. s.batch \notin batches
      BY <3>3, <3>4 DEF Written, Copies
    <3>6. batches' \subseteq batches
      BY <1>8, <2>2, BatchesChange DEF Insert, LateInsert
    <3> QED
      BY <3>5, <3>6
  <2> QED
    BY <2>1, <2>2
<1> QED
  BY <1>5, <1>6, <1>7, <1>8 DEF Written

\* Nothing in worker.go:167-192 keeps the same leads from being stored again, and the
\* rows of each COPY have new ids. What limits repetition is that an attempt sends
\* one COPY and a further attempt follows only a failure or a shutdown. The attempts
\* tell the copies of a job apart, and they are numbers up to that bound.
THEOREM ReplayBounded == Spec => []ReplayNeedsFailure
<1>1. Init => Counted /\ Written
  BY DEF Init, Counted, Written, Copies, Idle
<1>2. Typed /\ Counted /\ Written /\ [Next]_vars => Counted' /\ Written'
  BY CountedNext, WrittenNext
<1>3. Typed /\ Counted /\ Written => ReplayNeedsFailure
  <2> SUFFICES ASSUME Typed, Counted, Written PROVE ReplayNeedsFailure
    OBVIOUS
  <2>1. \A b \in batches : b \in Copies /\ b \in Batch
    BY DEF Copies, Typed, TypeOK
  <2>2. \A b1, b2 \in batches : b1.task = b2.task /\ b1.attempt = b2.attempt => b1 = b2
    BY <2>1 DEF Written
  <2>3. ASSUME NEW r \in Requests
        PROVE  Cardinality({b \in batches : b.task = r}) <= 1 + task[r].retried + stops
    <3> DEFINE copies == {b \in batches : b.task = r}
               number == [b \in copies |-> b.attempt]
    <3>1. task[r].retried \in Nat /\ stops \in Nat /\ task[r].attempt \in Nat
      BY DEF Typed, TypeOK, TaskRecord
    <3>2. PICK n \in Nat : n = 1 + task[r].retried + stops
      BY <3>1
    <3>3. task[r].attempt <= n
      BY <3>1, <3>2 DEF Counted
    <3>4. \A b \in copies : b.attempt \in 1..n
      <4> SUFFICES ASSUME NEW b \in copies PROVE b.attempt \in 1..n
        OBVIOUS
      <4>1. b.attempt \in Nat /\ 1 <= b.attempt /\ b.attempt <= task[r].attempt
        BY <2>1 DEF Batch, Written
      <4> QED
        BY <3>1, <3>3, <4>1
    <3>5. number \in Injection(copies, 1..n)
      BY <2>2, <3>4 DEF Injection, IsInjective
    <3>6. IsFiniteSet(1..n) /\ Cardinality(1..n) <= n
      BY FS_Interval
    <3>7. Cardinality(copies) <= Cardinality(1..n)
      BY <3>5, <3>6, FS_Injection, Zenon
    <3>8. Cardinality(copies) \in Nat /\ Cardinality(1..n) \in Nat
      BY <3>6, FS_CardinalityType, FS_Subset DEF Typed
    <3> QED
      BY <3>2, <3>6, <3>7, <3>8
  <2> QED
    BY <2>2, <2>3 DEF ReplayNeedsFailure
<1> QED
  BY <1>1, <1>2, <1>3, TypedInvariant, PTL DEF Spec

-----------------------------------------------------------------------------
(* CampaignPipeline implements CampaignContract: each statement, retry,      *)
(* deadline, crash and shutdown is a step of the contract or none. The       *)
(* inductive invariant is Typed, Backed, Reported and Orderly.               *)

\* Some task was made for campaign c.
Owned(c) == \E r \in Requests : request[r].campaign = c /\ task[r].state # "none"

CampaignOf(s) == IF s.op = "insert" THEN s.batch.campaign ELSE s.campaign

\* An attempt that has not come to its status has not written one; what outlives
\* an attempt was sent for a campaign with a task, and FAILED counts no leads.
Orderly ==
  /\ \A r \in Requests : request[r].pc = "new" => request[r].campaign = None
  /\ \A w \in Workers : run[w].pc \in {"fetch", "insert", "fail", "done"} => ~run[w].posted
  /\ \A s \in late : Owned(CampaignOf(s))
  /\ \A s \in late : s.op = "status" /\ s.status = "FAILED" => s.found = 0

ContractInv == Typed /\ Backed /\ Reported /\ Orderly

-----------------------------------------------------------------------------
(* What becomes of a job *)

\* Worker w runs the task of r and has written a status.
Posted(r) == \E w \in Workers : run[w].task = r /\ run[w].posted

Table(r) ==
  /\ request[r].pc \in {"new", "update"} => JobState(r) = "none"
  /\ request[r].pc = "closed" /\ task[r].state = "none" => JobState(r) = "refused"
  /\ request[r].pc = "enqueue" => JobState(r) = "open"
  /\ request[r].pc = "lost" => JobState(r) = "lost"
  /\ task[r].state \in {"pending", "retry"} => JobState(r) = "open"
  /\ task[r].state = "active" => JobState(r) = IF Posted(r) THEN "written" ELSE "open"
  /\ task[r].state = "completed" => JobState(r) = "over"
  /\ task[r].state = "archived" => JobState(r) = IF task[r].silent THEN "lost" ELSE "over"

LEMMA JobTable == Typed => \A r \in Requests : Table(r)
<1> SUFFICES ASSUME Typed, NEW r \in Requests PROVE Table(r)
  OBVIOUS
<1>1. /\ request[r].pc \in {"new", "update", "enqueue", "closed", "lost"}
      /\ task[r].state \in {"none", "pending", "active", "retry", "completed", "archived"}
      /\ task[r].silent \in BOOLEAN
      /\ task[r].state # "none" => request[r].pc = "closed"
  BY DEF Typed, TypeOK, RequestRecord, TaskRecord, Wrote
<1>2. \A w \in Workers : run[w].posted \in BOOLEAN
  BY DEF Typed, TypeOK, RunRecord
<1>3. CASE task[r].state = "none"
  BY <1>1, <1>3 DEF Table, JobState, Responsible, Lost
<1>4. CASE task[r].state \in {"pending", "retry"}
  BY <1>1, <1>4 DEF Table, JobState, Responsible, Lost
<1>5. CASE task[r].state = "active"
  <2>1. Responsible(r) <=> ~Posted(r)
    BY <1>1, <1>2, <1>5 DEF Responsible, Posted
  <2>2. ~Lost(r)
    BY <1>1, <1>5 DEF Lost
  <2> QED
    BY <1>1, <1>5, <2>1, <2>2 DEF Table, JobState
<1>6. CASE task[r].state \in {"completed", "archived"}
  <2>1. ~Responsible(r)
    BY <1>1, <1>6 DEF Responsible
  <2>2. Lost(r) <=> task[r].state = "archived" /\ task[r].silent
    BY <1>1, <1>6 DEF Lost
  <2> QED
    BY <1>1, <1>6, <2>1, <2>2 DEF Table, JobState
<1> QED
  BY <1>1, <1>3, <1>4, <1>5, <1>6

LEMMA JobTableAfter == Typed' => (\A r \in Requests : Table(r))'
<1>1. Typed => \A r \in Requests : Table(r)
  BY JobTable
<1> QED
  BY <1>1, PTL

\* A job whose request, task and status writes stay as they are.
LEMMA SameJob ==
  ASSUME Typed, Typed', NEW r \in Requests, request'[r].pc = request[r].pc,
         task'[r].state = task[r].state, task'[r].silent = task[r].silent,
         task[r].state = "active" => (Posted(r)' <=> Posted(r))
  PROVE  JobState(r)' = JobState(r)
<1>1. Table(r) /\ Table(r)'
  BY JobTable, JobTableAfter
<1>2. /\ request[r].pc \in {"new", "update", "enqueue", "closed", "lost"}
      /\ task[r].state \in {"none", "pending", "active", "retry", "completed", "archived"}
  BY DEF Typed, TypeOK, RequestRecord, TaskRecord
<1> QED
  BY <1>1, <1>2 DEF Table

-----------------------------------------------------------------------------
(* The steps of the contract *)

\* Neither rows nor batches are written.
LEMMA Proceeds ==
  ASSUME UNCHANGED <<campaign, batches>>,
         \A r \in Requests : request'[r].campaign = request[r].campaign,
         \A r \in Requests : JobState(r)' \in Contract!After(JobState(r)),
         \A r \in Requests : JobState(r)' \in Contract!States
  PROVE  Contract!Proceed
  BY DEF Contract!Proceed

\* Nor does any job change.
LEMMA Stutters ==
  ASSUME UNCHANGED <<campaign, batches>>,
         \A r \in Requests : request'[r].campaign = request[r].campaign,
         \A r \in Requests : JobState(r)' = JobState(r)
  PROVE  UNCHANGED Contract!contractVars
  BY DEF Contract!contractVars

LEMMA Begins ==
  ASSUME NEW r \in Requests, NEW c \in Campaigns, request \in [Requests -> RequestRecord],
         JobState(r) = "none", request[r].campaign \in {None, c},
         request[r].campaign = None => campaign[c].status = "ABSENT",
         request'[r].campaign = c,
         \A q \in Requests \ {r} : request'[q].campaign = request[q].campaign,
         JobState(r)' \in {"open", "lost"},
         \A q \in Requests \ {r} : JobState(q)' = JobState(q),
         campaign' = [campaign EXCEPT ![c].status = IF campaign[c].status = "DELETED"
                                                    THEN "DELETED" ELSE "RUNNING"],
         UNCHANGED batches
  PROVE  Contract!Begin(r, c)
<1> DEFINE Of == [q \in Requests |-> request[q].campaign]
           Job == [q \in Requests |-> JobState(q)]
<1>1. Of' = [Of EXCEPT ![r] = c]
  OBVIOUS
<1>2. Job' = [Job EXCEPT ![r] = JobState(r)']
  OBVIOUS
<1>3. Of[r] = request[r].campaign /\ Job[r] = JobState(r)
  OBVIOUS
<1> QED
  BY <1>1, <1>2, <1>3 DEF Contract!Begin

LEMMA Owns ==
  ASSUME Typed, NEW c \in Campaigns, Owned(c)
  PROVE  Contract!HasJob(c)
<1>1. PICK r \in Requests : request[r].campaign = c /\ task[r].state # "none"
  BY DEF Owned
<1>2. JobState(r) \notin {"none", "refused"}
  BY <1>1, JobTable DEF Table, Typed, TypeOK, TaskRecord
<1> QED
  BY <1>1, <1>2 DEF Contract!HasJob

LEMMA Stores ==
  ASSUME Typed, NEW b \in Batch, Owned(b.campaign), batches' = Copied(b),
         UNCHANGED campaign,
         \A r \in Requests : request'[r].campaign = request[r].campaign,
         \A r \in Requests : JobState(r)' = JobState(r)
  PROVE  Contract!Store(b.campaign)
<1> DEFINE S == [d \in Campaigns |-> {x.size : x \in {y \in batches : y.campaign = d}}]
<1>1. PICK c \in Campaigns : c = b.campaign
  BY DEF Batch
<1>2. S' = [S EXCEPT ![c] = S[c] \cup {b.size}]
  <2>1. PICK x \in Batch : batches' = batches \cup {x} /\ x = [b EXCEPT !.copy = x.copy]
    BY CopiedBatch
  <2>2. x.campaign = c /\ x.size = b.size
    BY <1>1, <2>1 DEF Batch
  <2>3. {y \in batches' : y.campaign = c} = {y \in batches : y.campaign = c} \cup {x}
    BY <2>1, <2>2
  <2>4. {y.size : y \in {z \in batches' : z.campaign = c}}
          = {y.size : y \in {z \in batches : z.campaign = c}} \cup {b.size}
    BY <2>2, <2>3
  <2>5. ASSUME NEW d \in Campaigns, d # c
        PROVE  {y \in batches' : y.campaign = d} = {y \in batches : y.campaign = d}
    BY <2>1, <2>2, <2>5
  <2>6. ASSUME NEW d \in Campaigns
        PROVE  {y.size : y \in {z \in batches' : z.campaign = d}}
                 = IF d = c THEN S[c] \cup {b.size} ELSE S[d]
    BY <2>4, <2>5
  <2> QED
    BY <2>6
<1>3. b.size \in S'[c]
  BY <1>2
<1>4. Contract!HasJob(c)
  BY <1>1, Owns
<1>5. Contract!Store(c)
  BY <1>2, <1>3, <1>4 DEF Contract!Store
<1> QED
  BY <1>1, <1>5

LEMMA Reports ==
  ASSUME Typed, NEW c \in Campaigns, Owned(c), NEW status \in {"DONE", "FAILED"},
         NEW found \in Nat, status = "FAILED" => found = 0, Stored(c, found),
         campaign' = WithStatus(c, status, found), UNCHANGED batches,
         \A r \in Requests : request'[r].campaign = request[r].campaign,
         \/ \A r \in Requests : JobState(r)' = JobState(r)
         \/ \E r \in Requests : /\ request[r].campaign = c
                                /\ JobState(r) = "open" /\ JobState(r)' = "written"
                                /\ \A q \in Requests \ {r} : JobState(q)' = JobState(q)
  PROVE  Contract!Report(c)
<1> DEFINE Of == [q \in Requests |-> request[q].campaign]
           Job == [q \in Requests |-> JobState(q)]
           S == [d \in Campaigns |-> {x.size : x \in {y \in batches : y.campaign = d}}]
<1>1. Contract!HasJob(c)
  BY Owns
<1>2. \E n \in S[c] \cup {0} :
        /\ status = "FAILED" => n = 0
        /\ campaign' = IF Contract!Live(c)
                       THEN [campaign EXCEPT ![c] = [status |-> status, found |-> n]]
                       ELSE campaign
  <2>1. Contract!Live(c) <=> Exists(c)
    BY DEF Contract!Live, Exists, Gone
  <2>2. CASE Exists(c)
    <3>1. found \in S[c] \cup {0}
      BY <2>2 DEF Exists, Gone, Stored
    <3> QED
      BY <2>1, <2>2, <3>1 DEF WithStatus
  <2>3. CASE ~Exists(c)
    BY <2>1, <2>3 DEF WithStatus
  <2> QED
    BY <2>2, <2>3
<1>3. Job' = Job \/ \E r \in Requests : /\ Of[r] = c /\ Job[r] = "open"
                                        /\ Job' = [Job EXCEPT ![r] = "written"]
  <2>1. CASE \A r \in Requests : JobState(r)' = JobState(r)
    BY <2>1
  <2>2. CASE ~\A r \in Requests : JobState(r)' = JobState(r)
    <3>1. PICK r \in Requests : /\ request[r].campaign = c
                                /\ JobState(r) = "open" /\ JobState(r)' = "written"
                                /\ \A q \in Requests \ {r} : JobState(q)' = JobState(q)
      BY <2>2
    <3>2. Job' = [Job EXCEPT ![r] = "written"]
      BY <3>1
    <3> QED
      BY <3>1, <3>2
  <2> QED
    BY <2>1, <2>2
<1>4. Of' = Of /\ S' = S
  OBVIOUS
<1> QED
  BY <1>1, <1>2, <1>3, <1>4 DEF Contract!Report

-----------------------------------------------------------------------------
(* Orderly is inductive, given Typed *)

LEMMA OrderlyInit == Init => Orderly
  BY DEF Init, Orderly, Idle

\* A request with a task is done, and its task never goes away.
LEMMA TaskKept ==
  ASSUME Typed, [Next]_vars, NEW r \in Requests, task[r].state # "none"
  PROVE  request'[r] = request[r] /\ task'[r].state # "none"
<1> USE DEF Typed, TypeOK
<1>1. request[r].pc = "closed"
  BY DEF Wrote
<1>2. ASSUME NEW q \in Requests, NEW c \in Campaigns,
             RefetchRead(q, c) \/ \E o \in Outcomes : CreateInsert(q, c, o)
      PROVE  request'[r] = request[r]
  BY <1>1, <1>2 DEF RefetchRead, CreateInsert
<1>3. ASSUME NEW q \in Requests, RequestStep(q)
      PROVE  request'[r] = request[r] /\ task'[r] = task[r]
  BY <1>1, <1>3 DEF RequestStep, RefetchUpdate, Enqueue
<1>4. CASE Crash
  BY <1>1, <1>4, Zenon DEF Crash, Interrupted
<1>5. ASSUME NEW q \in Requests, NEW v \in Workers, Dequeue(v, q) \/ Forward(q)
      PROVE  task'[r].state # "none"
  BY <1>5 DEF Dequeue, Forward, TaskRecord
<1>6. ASSUME NEW q \in Requests, NEW posted \in BOOLEAN, AttemptFailed(q, posted)
      PROVE  task'[r].state # "none"
  BY <1>6, AttemptFailedTask
<1>7. ASSUME NEW v \in Workers, run[v].pc # "idle", AttemptFailed(run[v].task, run[v].posted)
      PROVE  task'[r].state # "none"
  BY <1>6, <1>7, BusyWorker DEF RunRecord
<1>8. ASSUME NEW v \in Workers, Ack(v)
      PROVE  task'[r].state # "none"
  BY <1>8 DEF Ack, TaskRecord
<1>9. CASE Stop
  BY <1>9 DEF Stop, TaskRecord
<1>10. \/ UNCHANGED request
       \/ Crash
       \/ \E q \in Requests : RequestStep(q)
       \/ \E q \in Requests, c \in Campaigns :
            RefetchRead(q, c) \/ \E o \in Outcomes : CreateInsert(q, c, o)
  BY DEF Next, vars, Delete, Forward, Recover, Dequeue, RunStep, Fetch, Insert, PostFailed,
     PostDone, Ack, Nack, Timeout, LateInsert, LateStatus, LateDrop, Stop, Restart
<1>11. \/ UNCHANGED task
       \/ \E q \in Requests : RequestStep(q)
       \/ \E q \in Requests, v \in Workers : Dequeue(v, q)
       \/ \E q \in Requests : Forward(q) \/ Recover(q)
       \/ \E v \in Workers : run[v].pc # "idle" /\ AttemptFailed(run[v].task, run[v].posted)
       \/ \E v \in Workers : Ack(v)
       \/ Stop
  BY DEF Next, vars, CreateInsert, RefetchRead, Delete, RunStep, Fetch, Insert, PostFailed,
     PostDone, Nack, Timeout, LateInsert, LateStatus, LateDrop, Crash, Restart
<1>12. ASSUME NEW q \in Requests, Forward(q) \/ Recover(q)
       PROVE  task'[r].state # "none"
  BY <1>6, <1>12 DEF Forward, Recover, TaskRecord
<1> QED
  BY <1>2, <1>3, <1>4, <1>5, <1>7, <1>8, <1>9, <1>10, <1>11, <1>12

LEMMA OwnedKept ==
  ASSUME Typed, [Next]_vars, NEW c, Owned(c)
  PROVE  Owned(c)'
  BY TaskKept DEF Owned

LEMMA BusyOwned ==
  ASSUME Typed, NEW w \in Workers, run[w].pc # "idle"
  PROVE  Owned(RunCampaign(w))
  BY BusyWorker DEF Owned, RunCampaign

\* A statement that outlives its attempt was one that a worker waited for.
LEMMA LateNext ==
  ASSUME Typed, [Next]_vars, NEW s \in late'
  PROVE  s \in late \/ \E w \in Workers : s \in InFlight(w)
<1>1. ASSUME NEW w \in Workers, Timeout(w)
      PROVE  s \in late \/ s \in InFlight(w)
  BY <1>1, OutliveTyped DEF Timeout
<1>2. CASE Crash \/ Stop
  BY <1>2, OutliveTyped DEF Crash, Stop
<1>3. \/ late' \subseteq late
      \/ \E w \in Workers : Timeout(w)
      \/ Crash \/ Stop
  BY DEF Next, vars, CreateInsert, RequestStep, RefetchRead, RefetchUpdate, Enqueue, Delete,
     Forward, Recover, Dequeue, RunStep, Fetch, Insert, PostFailed, PostDone, Ack, Nack,
     LateInsert, LateStatus, LateDrop, Restart
<1> QED
  BY <1>1, <1>2, <1>3

\* What a crash leaves of a handler.
LEMMA InterruptedRequest ==
  ASSUME NEW q \in RequestRecord
  PROVE  /\ q.pc = "update" => Interrupted(q).pc = "closed"
         /\ q.pc = "enqueue" => Interrupted(q).pc = "lost"
         /\ q.pc \notin {"update", "enqueue"} => Interrupted(q) = q
         /\ Interrupted(q).campaign = q.campaign
<1>1. CASE q.pc = "update"
  <2>1. Interrupted(q) = [q EXCEPT !.pc = "closed"]
    BY <1>1 DEF Interrupted
  <2> QED
    BY <1>1, <2>1 DEF RequestRecord
<1>2. CASE q.pc = "enqueue"
  <2>1. Interrupted(q) = [q EXCEPT !.pc = "lost"]
    BY <1>2 DEF Interrupted
  <2> QED
    BY <1>2, <2>1 DEF RequestRecord
<1>3. CASE q.pc \notin {"update", "enqueue"}
  <2>1. Interrupted(q) = q
    BY <1>3, Zenon DEF Interrupted
  <2> QED
    BY <1>3, <2>1
<1> QED
  BY <1>1, <1>2, <1>3

LEMMA OrderlyNext ==
  ASSUME Typed, Orderly, [Next]_vars
  PROVE  Orderly'
<1> USE DEF Typed, TypeOK
<1>1. ASSUME NEW r \in Requests, request'[r].pc = "new"
      PROVE  request'[r].campaign = None
  <2>1. ASSUME NEW q \in Requests, NEW c \in Campaigns,
               RefetchRead(q, c) \/ \E o \in Outcomes : CreateInsert(q, c, o)
        PROVE  request'[r] = request[r]
    BY <1>1, <2>1 DEF RefetchRead, CreateInsert
  <2>2. ASSUME NEW q \in Requests, NEW o \in Outcomes, RefetchUpdate(q, o)
        PROVE  request'[r] = request[r]
    BY <1>1, <2>2 DEF RefetchUpdate, Outcomes, RequestRecord
  <2>3. ASSUME NEW q \in Requests, NEW stored \in BOOLEAN, Enqueue(q, stored)
        PROVE  request'[r] = request[r]
    BY <1>1, <2>3 DEF Enqueue, RequestRecord
  <2>4. ASSUME Crash
        PROVE  request'[r] = request[r]
    <3>1. request'[r] = Interrupted(request[r]) /\ request[r] \in RequestRecord
      BY <2>4 DEF Crash
    <3> QED
      BY <1>1, <3>1, InterruptedRequest
  <2>5. \/ UNCHANGED request
        \/ Crash
        \/ \E q \in Requests : RequestStep(q)
        \/ \E q \in Requests, c \in Campaigns :
             RefetchRead(q, c) \/ \E o \in Outcomes : CreateInsert(q, c, o)
    BY DEF Next, vars, Delete, Forward, Recover, Dequeue, RunStep, Fetch, Insert, PostFailed,
       PostDone, Ack, Nack, Timeout, LateInsert, LateStatus, LateDrop, Stop, Restart
  <2>6. request'[r] = request[r]
    BY <2>1, <2>2, <2>3, <2>4, <2>5 DEF RequestStep
  <2> QED
    BY <1>1, <2>6 DEF Orderly
<1>2. ASSUME NEW w \in Workers, run'[w].pc \in {"fetch", "insert", "fail", "done"}
      PROVE  ~run'[w].posted
  <2>1. ASSUME NEW v \in Workers, RunStep(v), v # w
        PROVE  run'[w] = run[w]
    BY <2>1 DEF RunStep, Fetch, Insert, PostFailed, PostDone, Ack, Nack
  <2>2. CASE RunStep(w)
    <3>1. ASSUME NEW n \in 0..MaxFound, Fetch(w, n)
          PROVE  run[w].pc = "fetch" /\ run'[w].posted = run[w].posted
      BY <3>1 DEF Fetch, RunRecord
    <3>2. ASSUME NEW o \in Outcomes, Insert(w, o)
          PROVE  run[w].pc = "insert" /\ run'[w].posted = run[w].posted
      BY <3>2 DEF Insert, RunRecord
    <3>3. ASSUME NEW o \in Outcomes, PostFailed(w, o) \/ PostDone(w, o)
          PROVE  FALSE
      BY <1>2, <3>3 DEF PostFailed, PostDone, RunRecord
    <3>4. ~Ack(w) /\ ~Nack(w)
      BY <1>2 DEF Ack, Nack, Idle
    <3> QED
      BY <2>2, <3>1, <3>2, <3>3, <3>4 DEF RunStep, Orderly
  <2>3. ASSUME NEW v \in Workers, Timeout(v)
        PROVE  run'[w] = run[w]
    BY <1>2, <2>3 DEF Timeout, Idle
  <2>4. ASSUME NEW v \in Workers, NEW r \in Requests, Dequeue(v, r)
        PROVE  run'[w] = run[w] \/ ~run'[w].posted
    BY <2>4 DEF Dequeue, Idle
  <2>5. ~Crash /\ ~Stop
    BY <1>2 DEF Crash, Stop, Idle
  <2>6. run'[w] = run[w] => ~run'[w].posted
    BY <1>2 DEF Orderly
  <2> QED
    BY <2>1, <2>2, <2>3, <2>4, <2>5, <2>6 DEF Next, vars, CreateInsert, RequestStep,
       RefetchRead, RefetchUpdate, Enqueue, Delete, Forward, Recover, LateInsert, LateStatus,
       LateDrop, Restart
<1>3. ASSUME NEW s \in late'
      PROVE  /\ Owned(CampaignOf(s))'
             /\ s.op = "status" /\ s.status = "FAILED" => s.found = 0
  <2>1. CASE s \in late
    BY <2>1, OwnedKept DEF Orderly, CampaignOf
  <2>2. ASSUME NEW w \in Workers, s \in InFlight(w)
        PROVE  /\ run[w].pc # "idle"
               /\ CampaignOf(s) = RunCampaign(w)
               /\ s.op = "status" /\ s.status = "FAILED" => s.found = 0
    BY <2>2 DEF InFlight, CampaignOf, RunBatch
  <2>3. ASSUME NEW w \in Workers, s \in InFlight(w)
        PROVE  Owned(CampaignOf(s))'
    <3>1. Owned(CampaignOf(s))
      BY <2>2, <2>3, BusyOwned
    <3> QED
      BY <3>1, OwnedKept DEF CampaignOf
  <2> QED
    BY <1>3, <2>1, <2>2, <2>3, LateNext
<1> QED
  BY <1>1, <1>2, <1>3 DEF Orderly

-----------------------------------------------------------------------------
(* Each action is a step of the contract, or none *)

ContractStep == [Contract!ContractNext]_(Contract!contractVars)

\* The states that the case distinctions below are about.
LEMMA Kinds ==
  ASSUME Typed, NEW r \in Requests
  PROVE  /\ request[r].pc \in {"new", "update", "enqueue", "closed", "lost"}
         /\ task[r].state \in {"none", "pending", "active", "retry", "completed", "archived"}
         /\ task[r].state # "none" => request[r].pc = "closed"
         /\ request[r].pc # "new" => request[r].campaign \in Campaigns
         /\ request[r].campaign # None => campaign[request[r].campaign].status # "ABSENT"
         /\ JobState(r) \in Contract!States
         /\ JobState(r) \in Contract!After(JobState(r))
<1>1. /\ request[r].pc \in {"new", "update", "enqueue", "closed", "lost"}
      /\ task[r].state \in {"none", "pending", "active", "retry", "completed", "archived"}
      /\ task[r].state # "none" => request[r].pc = "closed"
      /\ request[r].pc # "new" => request[r].campaign \in Campaigns
      /\ request[r].campaign # None => campaign[request[r].campaign].status # "ABSENT"
  BY DEF Typed, TypeOK, RequestRecord, TaskRecord, Wrote
<1>2. JobState(r) \in Contract!States
  BY <1>1, JobTable DEF Table, Contract!States
<1>3. JobState(r) \in Contract!After(JobState(r))
  BY <1>2 DEF Contract!States, Contract!After
<1> QED
  BY <1>1, <1>2, <1>3

LEMMA JobStatesAfter == Typed' => (\A r \in Requests : JobState(r) \in Contract!States)'
<1>1. Typed => \A r \in Requests : JobState(r) \in Contract!States
  BY Kinds
<1> QED
  BY <1>1, PTL

\* Status writes of the task of q are told from the worker that holds it.
LEMMA PostedKept ==
  ASSUME NEW q, NEW w \in Workers, \A v \in Workers \ {w} : run'[v] = run[v],
         \/ run[w].task # q /\ run'[w].task # q
         \/ run'[w].task = run[w].task /\ run'[w].posted = run[w].posted
  PROVE  Posted(q)' <=> Posted(q)
  BY DEF Posted

LEMMA HeldPosted ==
  ASSUME Typed, NEW w \in Workers, run[w].pc # "idle"
  PROVE  Posted(run[w].task) <=> run[w].posted
  BY BusyWorker DEF Posted

LEMMA CreateSteps ==
  ASSUME ContractInv, Typed', NEW r \in Requests, NEW c \in Campaigns,
         NEW o \in Outcomes, CreateInsert(r, c, o)
  PROVE  ContractStep
<1> USE DEF ContractInv
<1>1. request \in [Requests -> RequestRecord] /\ campaign \in [Campaigns -> CampaignRow]
  BY DEF Typed, TypeOK
<1>2. request[r].pc = "new" /\ request[r].campaign = None /\ JobState(r) = "none"
  BY JobTable DEF CreateInsert, Orderly, Table
<1>3. request'[r].campaign = c /\ JobState(r)' \in {"open", "lost"}
  <2>1. request'[r].campaign = c /\ request'[r].pc \in {"enqueue", "lost"}
    BY <1>1 DEF CreateInsert
  <2> QED
    BY <2>1, JobTableAfter DEF Table
<1>4. \A q \in Requests \ {r} : request'[q] = request[q]
  BY <1>1 DEF CreateInsert
<1>5. \A q \in Requests \ {r} : JobState(q)' = JobState(q)
  BY <1>4, SameJob DEF CreateInsert, Posted
<1>6. campaign[c] = [status |-> "ABSENT", found |-> 0]
  BY <1>1 DEF CreateInsert, Backed, RowsBacked, Gone, CampaignRow
<1>7. campaign' = [campaign EXCEPT ![c].status = IF campaign[c].status = "DELETED"
                                                 THEN "DELETED" ELSE "RUNNING"]
  <2>1. [campaign[c] EXCEPT !.status = "RUNNING"] = [status |-> "RUNNING", found |-> 0]
    BY <1>6
  <2>2. campaign' = [campaign EXCEPT ![c] = [status |-> "RUNNING", found |-> 0]]
    BY DEF CreateInsert
  <2>3. campaign[c].status = "ABSENT"
    BY DEF CreateInsert
  <2> QED
    BY <1>1, <2>1, <2>2, <2>3
<1>8. Contract!Begin(r, c)
  BY <1>1, <1>2, <1>3, <1>4, <1>5, <1>6, <1>7, Begins DEF CreateInsert
<1> QED
  BY <1>8 DEF ContractStep, Contract!ContractNext

LEMMA RefetchReadSteps ==
  ASSUME ContractInv, Typed', NEW r \in Requests, NEW c \in Campaigns, RefetchRead(r, c)
  PROVE  ContractStep
<1> USE DEF ContractInv
<1> DEFINE Of == [q \in Requests |-> request[q].campaign]
           Job == [q \in Requests |-> JobState(q)]
<1>1. request \in [Requests -> RequestRecord] /\ campaign \in [Campaigns -> CampaignRow]
  BY DEF Typed, TypeOK
<1>2. request[r].pc = "new" /\ request[r].campaign = None /\ JobState(r) = "none"
  BY JobTable DEF RefetchRead, Orderly, Table
<1>3. /\ request'[r].campaign = c /\ request'[r].pc = "update"
      /\ \A q \in Requests \ {r} : request'[q] = request[q]
  BY <1>1 DEF RefetchRead
<1>4. JobState(r)' = "none"
  BY <1>3, JobTableAfter DEF Table
<1>5. \A q \in Requests \ {r} : JobState(q)' = JobState(q)
  BY <1>3, SameJob DEF RefetchRead, Posted
<1>6. campaign[c].status \in {"DONE", "FAILED"}
  BY <1>1 DEF RefetchRead, Exists, Gone, CampaignRow, Status
<1>7. Of' = [Of EXCEPT ![r] = c] /\ Job' = Job /\ Of[r] = None /\ Job[r] = "none"
  BY <1>2, <1>3, <1>4, <1>5
<1>8. Contract!Choose(r, c)
  BY <1>6, <1>7 DEF RefetchRead, Contract!Choose
<1> QED
  BY <1>8 DEF ContractStep, Contract!ContractNext

LEMMA RefetchUpdateSteps ==
  ASSUME ContractInv, Typed', NEW r \in Requests, NEW o \in Outcomes, RefetchUpdate(r, o)
  PROVE  ContractStep
<1> USE DEF ContractInv
<1>1. request \in [Requests -> RequestRecord] /\ campaign \in [Campaigns -> CampaignRow]
  BY DEF Typed, TypeOK
<1>2. PICK c \in Campaigns : c = request[r].campaign
  BY Kinds DEF RefetchUpdate
<1>3. /\ request[r].pc = "update" /\ c # None
      /\ campaign[c].status # "ABSENT" /\ task[r].state = "none" /\ JobState(r) = "none"
  BY <1>2, Kinds, JobTable, PipelineAssumption DEF RefetchUpdate, Table
<1>4. /\ \A q \in Requests \ {r} : request'[q] = request[q]
      /\ request'[r].campaign = c
  BY <1>2, <1>1 DEF RefetchUpdate
<1>5. \A q \in Requests \ {r} : JobState(q)' = JobState(q)
  BY <1>4, SameJob DEF RefetchUpdate, Posted
<1>6. CASE Applied(o)
  <2>1. request'[r].pc \in {"enqueue", "lost"}
    BY <1>1, <1>6 DEF RefetchUpdate, Applied
  <2>2. JobState(r)' \in {"open", "lost"}
    BY <2>1, JobTableAfter DEF Table
  <2>3. campaign' = [campaign EXCEPT ![c].status = IF campaign[c].status = "DELETED"
                                                   THEN "DELETED" ELSE "RUNNING"]
    BY <1>2, <1>1, <1>3, <1>6 DEF RefetchUpdate, Exists, Gone, CampaignRow
  <2>4. Contract!Begin(r, c)
    BY <1>2, <1>1, <1>3, <1>4, <1>5, <2>2, <2>3, Begins DEF RefetchUpdate
  <2> QED
    BY <2>4 DEF ContractStep, Contract!ContractNext
<1>7. CASE ~Applied(o)
  <2>1. request'[r].pc = "closed" /\ campaign' = campaign /\ task' = task
    BY <1>1, <1>7 DEF RefetchUpdate, Applied, Outcomes
  <2>2. JobState(r)' = "refused"
    BY <1>3, <2>1, JobTableAfter DEF Table
  <2>3. \A q \in Requests : JobState(q)' \in Contract!After(JobState(q))
    BY <1>3, <1>5, <2>2, Kinds DEF Contract!After
  <2>4. Contract!Proceed
    BY <1>2, <1>4, <2>1, <2>3, Proceeds, JobStatesAfter DEF RefetchUpdate
  <2> QED
    BY <2>4 DEF ContractStep, Contract!ContractNext
<1> QED
  BY <1>6, <1>7

LEMMA EnqueueSteps ==
  ASSUME ContractInv, Typed', NEW r \in Requests, NEW stored \in BOOLEAN, Enqueue(r, stored)
  PROVE  ContractStep
<1> USE DEF ContractInv
<1>1. request \in [Requests -> RequestRecord] /\ task \in [Requests -> TaskRecord]
  BY DEF Typed, TypeOK
<1>2. JobState(r) = "open"
  BY JobTable DEF Enqueue, Table
<1>3. \/ /\ task' = [task EXCEPT ![r].state = "pending"]
         /\ request' = [request EXCEPT ![r].pc = "closed"]
      \/ task' = task /\ request' = [request EXCEPT ![r].pc = "lost"]
  BY DEF Enqueue
<1>4. /\ \A q \in Requests \ {r} : request'[q] = request[q] /\ task'[q] = task[q]
      /\ \A q \in Requests : request'[q].campaign = request[q].campaign
  <2>1. \A q \in Requests \ {r} : request'[q] = request[q] /\ task'[q] = task[q]
    BY <1>3, <1>1
  <2>2. request'[r].campaign = request[r].campaign
    BY <1>3, <1>1 DEF RequestRecord
  <2> QED
    BY <2>1, <2>2
<1>5. \A q \in Requests \ {r} : JobState(q)' = JobState(q)
  BY <1>4, SameJob DEF Enqueue, Posted
<1>6. task'[r].state = "pending" \/ request'[r].pc = "lost"
  BY <1>3, <1>1 DEF TaskRecord, RequestRecord
<1>7. JobState(r)' \in {"open", "lost"}
  BY <1>6, JobTableAfter DEF Table
<1>8. \A q \in Requests : JobState(q)' \in Contract!After(JobState(q))
  BY <1>2, <1>5, <1>7, Kinds DEF Contract!After
<1>9. Contract!Proceed
  BY <1>4, <1>8, Proceeds, JobStatesAfter DEF Enqueue
<1> QED
  BY <1>9 DEF ContractStep, Contract!ContractNext

LEMMA DeleteSteps ==
  ASSUME ContractInv, Typed', NEW c \in Campaigns, Delete(c)
  PROVE  ContractStep
<1> USE DEF ContractInv
<1> DEFINE S == [d \in Campaigns |-> {x.size : x \in {y \in batches : y.campaign = d}}]
<1>1. \A q \in Requests : JobState(q)' = JobState(q)
  BY SameJob DEF Delete, Posted
<1>2. Contract!Live(c)
  BY DEF Delete, Exists, Gone, Contract!Live
<1>3. \E left \in {S[c], {}} : S' = [S EXCEPT ![c] = left]
  <2>1. CASE Cascade
    <3>1. S' = [S EXCEPT ![c] = {}]
      BY <2>1 DEF Delete
    <3> QED
      BY <3>1
  <2>2. CASE ~Cascade
    <3>1. S' = [S EXCEPT ![c] = S[c]]
      BY <2>2 DEF Delete
    <3> QED
      BY <3>1
  <2> QED
    BY <2>1, <2>2
<1>4. Contract!Delete(c)
  BY <1>1, <1>2, <1>3 DEF Delete, Contract!Delete
<1> QED
  BY <1>4 DEF ContractStep, Contract!ContractNext

LEMMA DequeueSteps ==
  ASSUME ContractInv, Typed', NEW w \in Workers, NEW r \in Requests, Dequeue(w, r)
  PROVE  ContractStep
<1> USE DEF ContractInv
<1>1. run \in [Workers -> RunRecord] /\ task \in [Requests -> TaskRecord]
  BY DEF Typed, TypeOK
<1>2. /\ run[w].task = None /\ task[r].state = "pending" /\ task'[r].state = "active"
      /\ \A q \in Requests \ {r} : task'[q] = task[q]
  BY <1>1 DEF Dequeue, Typed, Held, TaskRecord
<1>3. /\ run'[w].task = r /\ ~run'[w].posted
      /\ \A v \in Workers \ {w} : run'[v] = run[v]
  BY <1>1 DEF Dequeue, Idle
<1>4. \A v \in Workers \ {w} : run[v].task # r
  BY <1>2, PipelineAssumption DEF Typed, Held
<1>5. ~Posted(r)'
  BY <1>3, <1>4 DEF Posted
<1>6. JobState(r) = "open" /\ JobState(r)' = "open"
  BY <1>2, <1>5, JobTable, JobTableAfter DEF Table
<1>7. ASSUME NEW q \in Requests \ {r}
      PROVE  JobState(q)' = JobState(q)
  <2>1. run[w].task # q /\ run'[w].task # q
    BY <1>2, <1>3, PipelineAssumption
  <2>2. Posted(q)' <=> Posted(q)
    BY <1>3, <2>1, PostedKept
  <2> QED
    BY <1>2, <2>2, SameJob DEF Dequeue
<1>8. UNCHANGED Contract!contractVars
  BY <1>6, <1>7, Stutters DEF Dequeue
<1> QED
  BY <1>8 DEF ContractStep

LEMMA ForwardSteps ==
  ASSUME ContractInv, Typed', NEW r \in Requests, Forward(r)
  PROVE  ContractStep
<1> USE DEF ContractInv
<1>1. /\ task'[r].state = "pending" /\ task[r].state = "retry"
      /\ \A q \in Requests \ {r} : task'[q] = task[q]
  BY DEF Forward, Typed, TypeOK, TaskRecord
<1>2. JobState(r) = "open" /\ JobState(r)' = "open"
  BY <1>1, JobTable, JobTableAfter DEF Table
<1>3. \A q \in Requests \ {r} : JobState(q)' = JobState(q)
  BY <1>1, SameJob DEF Forward, Posted
<1>4. UNCHANGED Contract!contractVars
  BY <1>2, <1>3, Stutters DEF Forward
<1> QED
  BY <1>4 DEF ContractStep

\* An attempt that failed, or was lost with its worker, leaves an open job, or one
\* that is over if it wrote a status, or lost if it did not.
LEMMA FailedSteps ==
  ASSUME ContractInv, Typed', NEW r \in Requests, NEW posted \in BOOLEAN,
         task[r].state = "active", Posted(r) <=> posted, AttemptFailed(r, posted),
         \A q \in Requests \ {r} : Posted(q)' <=> Posted(q),
         UNCHANGED <<campaign, batches, request>>
  PROVE  ContractStep
<1> USE DEF ContractInv
<1>1. /\ \A q \in Requests \ {r} : task'[q] = task[q]
      /\ \/ task'[r].state = "retry"
         \/ task'[r].state = "archived" /\ task'[r].silent = ~posted
  BY AttemptFailedTask DEF Typed
<1>2. \A q \in Requests \ {r} : JobState(q)' = JobState(q)
  BY <1>1, SameJob
<1>3. JobState(r) = IF posted THEN "written" ELSE "open"
  BY JobTable DEF Table
<1>4. JobState(r)' \in (IF posted THEN {"open", "over"} ELSE {"open", "lost"})
  <2>1. CASE task'[r].state = "retry"
    BY <2>1, JobTableAfter DEF Table
  <2>2. CASE task'[r].state = "archived" /\ task'[r].silent = ~posted
    BY <2>2, JobTableAfter DEF Table
  <2> QED
    BY <1>1, <2>1, <2>2
<1>5. \A q \in Requests : JobState(q)' \in Contract!After(JobState(q))
  BY <1>2, <1>3, <1>4, Kinds DEF Contract!After
<1>6. Contract!Proceed
  BY <1>5, Proceeds, JobStatesAfter
<1> QED
  BY <1>6 DEF ContractStep, Contract!ContractNext

LEMMA RecoverSteps ==
  ASSUME ContractInv, Typed', NEW r \in Requests, Recover(r)
  PROVE  ContractStep
  BY FailedSteps DEF Recover, Posted

LEMMA NackSteps ==
  ASSUME ContractInv, Typed', NEW w \in Workers, Nack(w) \/ Timeout(w)
  PROVE  ContractStep
<1> USE DEF ContractInv
<1>1. run \in [Workers -> RunRecord] /\ run[w].pc # "idle" /\ run[w].posted \in BOOLEAN
  BY DEF Typed, TypeOK, RunRecord, Nack, Timeout
<1>2. /\ run[w].task \in Requests /\ task[run[w].task].state = "active"
      /\ Posted(run[w].task) <=> run[w].posted
  BY <1>1, BusyWorker, HeldPosted
<1>3. run'[w].task = None /\ \A v \in Workers \ {w} : run'[v] = run[v]
  BY <1>1 DEF Nack, Timeout, Idle
<1>4. ASSUME NEW q \in Requests \ {run[w].task}
      PROVE  Posted(q)' <=> Posted(q)
  BY <1>3, PostedKept, PipelineAssumption
<1> QED
  BY <1>1, <1>2, <1>4, FailedSteps DEF Nack, Timeout

LEMMA AckSteps ==
  ASSUME ContractInv, Typed', NEW w \in Workers, Ack(w)
  PROVE  ContractStep
<1> USE DEF ContractInv
<1>1. run \in [Workers -> RunRecord] /\ task \in [Requests -> TaskRecord]
  BY DEF Typed, TypeOK
<1>2. run[w].pc # "idle" /\ run[w].posted = TRUE
  BY DEF Ack, Reported
<1>3. PICK r \in Requests : r = run[w].task
  BY <1>2, BusyWorker
<1>4. task[r].state = "active" /\ Posted(r)
  BY <1>3, <1>2, BusyWorker, HeldPosted
<1>5. /\ task'[r].state = "completed"
      /\ \A q \in Requests \ {r} : task'[q] = task[q]
  BY <1>3, <1>1, <1>4 DEF Ack, TaskRecord
<1>6. run'[w].task = None /\ \A v \in Workers \ {w} : run'[v] = run[v]
  BY <1>1 DEF Ack, Idle
<1>7. ASSUME NEW q \in Requests \ {r}
      PROVE  JobState(q)' = JobState(q)
  <2>1. Posted(q)' <=> Posted(q)
    BY <1>3, <1>6, PostedKept, PipelineAssumption
  <2> QED
    BY <1>5, <2>1, SameJob DEF Ack
<1>8. JobState(r) = "written" /\ JobState(r)' = "over"
  BY <1>4, <1>5, JobTable, JobTableAfter DEF Table
<1>9. \A q \in Requests : JobState(q)' \in Contract!After(JobState(q))
  BY <1>7, <1>8, Kinds DEF Contract!After
<1>10. Contract!Proceed
  BY <1>9, Proceeds, JobStatesAfter DEF Ack
<1> QED
  BY <1>10 DEF ContractStep, Contract!ContractNext

\* A COPY, by a worker or by what it left behind, changes no job.
LEMMA FetchSteps ==
  ASSUME ContractInv, Typed', NEW w \in Workers,
         (\E n \in 0..MaxFound : Fetch(w, n)) \/ (\E o \in Outcomes : Insert(w, o))
  PROVE  ContractStep
<1> USE DEF ContractInv
<1>1. run \in [Workers -> RunRecord] /\ run[w].pc # "idle"
  BY DEF Typed, TypeOK, Fetch, Insert
<1>2. /\ run'[w].task = run[w].task /\ run'[w].posted = run[w].posted
      /\ \A v \in Workers \ {w} : run'[v] = run[v]
  <2>1. ASSUME NEW n \in 0..MaxFound, Fetch(w, n)
        PROVE  /\ run'[w].task = run[w].task /\ run'[w].posted = run[w].posted
               /\ \A v \in Workers \ {w} : run'[v] = run[v]
    BY <1>1, <2>1 DEF Fetch, RunRecord
  <2>2. ASSUME NEW o \in Outcomes, Insert(w, o)
        PROVE  /\ run'[w].task = run[w].task /\ run'[w].posted = run[w].posted
               /\ \A v \in Workers \ {w} : run'[v] = run[v]
    BY <1>1, <2>2 DEF Insert, RunRecord
  <2> QED
    BY <2>1, <2>2
<1>3. \A q \in Requests : Posted(q)' <=> Posted(q)
  BY <1>2, PostedKept
<1>4. \A q \in Requests : JobState(q)' = JobState(q)
  BY <1>3, SameJob DEF Fetch, Insert
<1>5. UNCHANGED <<campaign, request>>
  BY DEF Fetch, Insert
<1>6. CASE UNCHANGED batches
  <2>1. UNCHANGED Contract!contractVars
    BY <1>4, <1>5, <1>6, Stutters
  <2> QED
    BY <2>1 DEF ContractStep
<1>7. CASE batches' = Copied(RunBatch(w))
  <2>1. /\ RunBatch(w).campaign = RunCampaign(w) /\ RunCampaign(w) \in Campaigns
        /\ RunBatch(w) \in Batch /\ Owned(RunCampaign(w))
    BY <1>1, BusyWorker, BusyOwned DEF RunBatch
  <2>2. PICK b : b = RunBatch(w)
    OBVIOUS
  <2>3. Contract!Store(b.campaign) /\ b.campaign \in Campaigns
    BY <1>4, <1>5, <1>7, <2>1, <2>2, Stores
  <2> QED
    BY <2>3 DEF ContractStep, Contract!ContractNext
<1> QED
  BY <1>6, <1>7 DEF Fetch, Insert

\* The status write of an attempt, the first one it makes.
LEMMA PostSteps ==
  ASSUME ContractInv, Typed', NEW w \in Workers, NEW o \in Outcomes,
         NEW status \in {"DONE", "FAILED"}, NEW found \in Nat, status = "FAILED" => found = 0,
         run[w].pc \in {"fail", "done"}, Stored(RunCampaign(w), found),
         campaign' = IF Applied(o) THEN WithStatus(RunCampaign(w), status, found)
                                   ELSE campaign,
         NEW pc \in {"ok", "err"},
         run' = [run EXCEPT ![w].pc = pc, ![w].posted = Applied(o)],
         UNCHANGED <<batches, request, task>>
  PROVE  ContractStep
<1> USE DEF ContractInv
<1>1. run \in [Workers -> RunRecord] /\ run[w].pc # "idle" /\ run[w].posted = FALSE
  BY DEF Typed, TypeOK, Orderly, RunRecord
<1>2. PICK r \in Requests : r = run[w].task
  BY <1>1, BusyWorker
<1>3. PICK c \in Campaigns : c = RunCampaign(w)
  BY <1>1, BusyWorker
<1>4. task[r].state = "active" /\ ~Posted(r) /\ Owned(c) /\ request[r].campaign = c
  BY <1>1, <1>2, <1>3, BusyWorker, HeldPosted, BusyOwned DEF RunCampaign
<1>5. /\ run'[w].task = r /\ \A v \in Workers \ {w} : run'[v] = run[v]
      /\ run'[w].posted = Applied(o)
  BY <1>1, <1>2 DEF RunRecord
<1>6. ASSUME NEW q \in Requests \ {r}
      PROVE  JobState(q)' = JobState(q)
  <2>1. Posted(q)' <=> Posted(q)
    BY <1>2, <1>5, PostedKept
  <2> QED
    BY <2>1, SameJob
<1>7. CASE Applied(o)
  <2>1. Posted(r)'
    BY <1>5, <1>7 DEF Posted
  <2>2. JobState(r) = "open" /\ JobState(r)' = "written"
    BY <1>4, <2>1, JobTable, JobTableAfter DEF Table
  <2>3. campaign' = WithStatus(c, status, found) /\ Stored(c, found)
    BY <1>3, <1>7
  <2>4. Contract!Report(c)
    BY <1>4, <1>6, <2>2, <2>3, Reports
  <2> QED
    BY <2>4 DEF ContractStep, Contract!ContractNext
<1>8. CASE ~Applied(o)
  <2>1. Posted(r)' <=> Posted(r)
    BY <1>1, <1>2, <1>5, <1>8 DEF Posted
  <2>2. JobState(r)' = JobState(r)
    BY <2>1, SameJob
  <2>3. UNCHANGED Contract!contractVars
    BY <1>6, <1>8, <2>2, Stutters
  <2> QED
    BY <2>3 DEF ContractStep
<1> QED
  BY <1>7, <1>8

LEMMA AttemptSteps ==
  ASSUME ContractInv, Typed', NEW w \in Workers, RunStep(w)
  PROVE  ContractStep
<1>1. ASSUME NEW o \in Outcomes, PostFailed(w, o)
      PROVE  ContractStep
  BY <1>1, PostSteps DEF PostFailed, Stored
<1>2. ASSUME NEW o \in Outcomes, PostDone(w, o)
      PROVE  ContractStep
  <2>1. run[w].size \in Nat /\ Stored(RunCampaign(w), run[w].size)
    BY <1>2, AttemptStored DEF PostDone, ContractInv, Backed, Typed, TypeOK, RunRecord
  <2>2. PICK pc \in {"ok", "err"} :
          run' = [run EXCEPT ![w].pc = pc, ![w].posted = Applied(o)]
    BY <1>2 DEF PostDone
  <2> QED
    BY <1>2, <2>1, <2>2, PostSteps DEF PostDone
<1> QED
  BY <1>1, <1>2, FetchSteps, AckSteps, NackSteps DEF RunStep

\* A statement that outlived its attempt.
LEMMA LateSteps ==
  ASSUME ContractInv, Typed', NEW s \in late, LateInsert(s) \/ LateStatus(s) \/ LateDrop(s)
  PROVE  ContractStep
<1> USE DEF ContractInv
<1>1. \A q \in Requests : JobState(q)' = JobState(q)
  BY SameJob DEF LateInsert, LateStatus, LateDrop, Posted
<1>2. Owned(CampaignOf(s)) /\ UNCHANGED request
  BY DEF Orderly, LateInsert, LateStatus, LateDrop
<1>3. CASE UNCHANGED <<campaign, batches>>
  <2>1. UNCHANGED Contract!contractVars
    BY <1>1, <1>2, <1>3, Stutters
  <2> QED
    BY <2>1 DEF ContractStep
<1>4. CASE LateInsert(s) /\ ~UNCHANGED batches
  <2>1. /\ s.batch \in Batch /\ CampaignOf(s) = s.batch.campaign
        /\ batches' = Copied(s.batch) /\ UNCHANGED campaign
    BY <1>4 DEF LateInsert, Typed, TypeOK, InsertStatement, StatusStatement, CampaignOf
  <2>2. PICK b \in Batch : b = s.batch
    BY <2>1
  <2>3. b.campaign \in Campaigns
    BY DEF Batch
  <2>4. Contract!Store(b.campaign)
    BY <1>1, <1>2, <2>1, <2>2, <2>3, Stores
  <2> QED
    BY <2>3, <2>4 DEF ContractStep, Contract!ContractNext
<1>5. CASE LateStatus(s)
  <2>1. s \in StatusStatement
    BY <1>5 DEF LateStatus, Typed, TypeOK, InsertStatement, StatusStatement
  <2>2. PICK c \in Campaigns, status \in {"DONE", "FAILED"}, found \in Nat :
          c = s.campaign /\ status = s.status /\ found = s.found
    BY <2>1 DEF StatusStatement
  <2>3. /\ Owned(c) /\ Stored(c, found) /\ (status = "FAILED" => found = 0)
        /\ campaign' = WithStatus(c, status, found) /\ UNCHANGED batches
    BY <1>2, <1>5, <2>2 DEF LateStatus, CampaignOf, Orderly, Backed, LateBacked
  <2>4. Contract!Report(c)
    BY <1>1, <1>2, <2>3, Reports
  <2> QED
    BY <2>4 DEF ContractStep, Contract!ContractNext
<1> QED
  BY <1>3, <1>4, <1>5 DEF LateInsert, LateStatus, LateDrop

\* The process dies: a handler's job may be lost, and a job whose worker is gone is
\* open again, whether it had written a status or not.
LEMMA CrashSteps ==
  ASSUME ContractInv, Typed', Crash
  PROVE  ContractStep
<1> USE DEF ContractInv
<1>1. request \in [Requests -> RequestRecord]
  BY DEF Typed, TypeOK
<1>2. \A q \in Requests : request'[q] = Interrupted(request[q])
  BY DEF Crash
<1>3. \A q \in Requests : request'[q].campaign = request[q].campaign
  BY <1>1, <1>2, InterruptedRequest
<1>4. \A q \in Requests : ~Posted(q)'
  BY DEF Crash, Idle, Posted
<1>5. ASSUME NEW q \in Requests
      PROVE  JobState(q)' \in Contract!After(JobState(q))
  <2>1. task'[q] = task[q]
    BY DEF Crash
  <2>2. CASE request[q].pc = "update"
    <3>1. request'[q].pc = "closed" /\ task[q].state = "none"
      BY <1>1, <1>2, <2>2, InterruptedRequest, Kinds
    <3>2. JobState(q) = "none" /\ JobState(q)' = "refused"
      BY <2>1, <2>2, <3>1, JobTable, JobTableAfter DEF Table
    <3> QED
      BY <3>2 DEF Contract!After
  <2>3. CASE request[q].pc = "enqueue"
    <3>1. request'[q].pc = "lost"
      BY <1>1, <1>2, <2>3, InterruptedRequest
    <3>2. JobState(q) = "open" /\ JobState(q)' = "lost"
      BY <2>3, <3>1, JobTable, JobTableAfter DEF Table
    <3> QED
      BY <3>2 DEF Contract!After
  <2>4. CASE request[q].pc \notin {"update", "enqueue"}
    <3>1. request'[q] = request[q]
      BY <1>1, <1>2, <2>4, InterruptedRequest
    <3>2. CASE task[q].state = "active"
      <4>1. JobState(q) \in {"open", "written"} /\ JobState(q)' = "open"
        BY <1>4, <2>1, <3>2, JobTable, JobTableAfter DEF Table
      <4> QED
        BY <4>1 DEF Contract!After
    <3>3. CASE task[q].state # "active"
      BY <2>1, <3>1, <3>3, SameJob, Kinds
    <3> QED
      BY <3>2, <3>3
  <2> QED
    BY <2>2, <2>3, <2>4
<1>6. Contract!Proceed
  BY <1>3, <1>5, Proceeds, JobStatesAfter DEF Crash
<1> QED
  BY <1>6 DEF ContractStep, Contract!ContractNext

LEMMA StopSteps ==
  ASSUME ContractInv, Typed', Stop
  PROVE  ContractStep
<1> USE DEF ContractInv
<1>1. \A q \in Requests : ~Posted(q)'
  BY DEF Stop, Idle, Posted
<1>2. PICK requeued \in SUBSET {run[w].task : w \in Workers} :
        task' = [r \in Requests |-> IF r \in requeued
                                   THEN [task[r] EXCEPT !.state = "pending"]
                                   ELSE task[r]]
  BY DEF Stop
<1>3. ASSUME NEW q \in Requests
      PROVE  JobState(q)' \in Contract!After(JobState(q))
  <2>1. CASE q \in requeued
    <3>1. task[q].state = "active"
      BY <2>1, PipelineAssumption DEF Typed, Held
    <3>2. task'[q].state = "pending"
      BY <1>2, <2>1 DEF Typed, TypeOK, TaskRecord
    <3>3. JobState(q) \in {"open", "written"} /\ JobState(q)' = "open"
      BY <3>1, <3>2, JobTable, JobTableAfter DEF Table
    <3> QED
      BY <3>3 DEF Contract!After
  <2>2. CASE q \notin requeued /\ task[q].state = "active"
    <3>1. task'[q] = task[q]
      BY <1>2, <2>2
    <3>2. JobState(q) \in {"open", "written"} /\ JobState(q)' = "open"
      BY <1>1, <2>2, <3>1, JobTable, JobTableAfter DEF Table
    <3> QED
      BY <3>2 DEF Contract!After
  <2>3. CASE q \notin requeued /\ task[q].state # "active"
    <3>1. task'[q] = task[q]
      BY <1>2, <2>3
    <3> QED
      BY <2>3, <3>1, SameJob, Kinds DEF Stop
  <2> QED
    BY <2>1, <2>2, <2>3
<1>4. Contract!Proceed
  BY <1>3, Proceeds, JobStatesAfter DEF Stop
<1> QED
  BY <1>4 DEF ContractStep, Contract!ContractNext

LEMMA StepRefines == ContractInv /\ Typed' /\ [Next]_vars => ContractStep
<1> SUFFICES ASSUME ContractInv, Typed', [Next]_vars PROVE ContractStep
  OBVIOUS
<1>1. CASE Restart \/ UNCHANGED vars
  <2>1. UNCHANGED <<campaign, batches, request, task, run>>
    BY <1>1 DEF Restart, vars
  <2>2. \A q \in Requests : JobState(q)' = JobState(q)
    BY <2>1, SameJob DEF ContractInv, Posted
  <2>3. UNCHANGED Contract!contractVars
    BY <2>1, <2>2, Stutters
  <2> QED
    BY <2>3 DEF ContractStep
<1> QED
  BY <1>1, CreateSteps, RefetchReadSteps, RefetchUpdateSteps, EnqueueSteps, DeleteSteps,
     DequeueSteps, ForwardSteps, RecoverSteps, NackSteps, AttemptSteps, LateSteps, CrashSteps,
     StopSteps DEF Next, RequestStep

LEMMA InitRefines == Init => Contract!ContractInit
<1> SUFFICES ASSUME Init PROVE Contract!ContractInit
  OBVIOUS
<1>1. \A r \in Requests : request[r].pc = "new" /\ request[r].campaign = None
  BY DEF Init
<1>2. \A r \in Requests : JobState(r) = "none"
  BY <1>1, TypedInit, JobTable DEF Table
<1> QED
  BY <1>1, <1>2 DEF Init, Contract!ContractInit

\* What a campaign is promised holds however its job is retried, cut short, or run
\* beside another: the handlers (service.go:31-135), asynq and the worker
\* (worker.go:44-123) implement the contract.
THEOREM ImplementsTheContract == Spec => ImplementsContract
<1>1. Init => ContractInv
  BY TypedInit, BackedInit, OrderlyInit DEF ContractInv, Init, Reported, Idle
<1>2. ContractInv /\ [Next]_vars => ContractInv'
  BY TypedNext, RowsBackedNext, AttemptsBackedNext, LateBackedNext, ReportedNext, OrderlyNext
     DEF ContractInv, Backed
<1>3. ContractInv /\ ContractInv' /\ [Next]_vars
      => [Contract!ContractNext]_(Contract!contractVars)
  BY StepRefines DEF ContractInv, ContractStep
<1> QED
  BY <1>1, <1>2, <1>3, InitRefines, PTL DEF Spec, ImplementsContract, Contract!ContractSpec
=============================================================================
