-------------------------- MODULE CampaignPipeline --------------------------
(***************************************************************************)
(* The life of a lead campaign: the HTTP handlers that create, refetch and *)
(* delete it (internal/campaign/service.go), the asynq queue that carries  *)
(* its job, and the worker that runs the job (internal/campaign/worker.go).*)
(*                                                                         *)
(* PostgreSQL and Redis are two stores that no transaction spans, so every *)
(* statement is a step of its own, and whatever happens between two        *)
(* statements - another request, a deadline, a crash - can happen here.    *)
(* A request that the code refuses without writing (404, 400, 500) is a    *)
(* stuttering step and has no action.                                      *)
(***************************************************************************)
EXTENDS Integers, FiniteSets

CONSTANTS
  Campaigns,  \* the ids gen_random_uuid() may hand out
  Requests,   \* the POST requests of a behaviour, each creates or refetches once
  Workers,    \* the goroutines of the asynq server (Concurrency: 20)
  MaxRetry,   \* asynq.MaxRetry of the job, 2 in the code
  MaxFound,   \* bound: the most unique leads one search collects
  Faults,     \* the kinds of fault that the environment may inject
  MaxFaults,  \* bound: faults and graceful shutdowns in one behaviour
  MaxStops,   \* bound: the graceful shutdowns among them
  Cascade,    \* the schema is elsewhere: does deleting a campaign delete its leads?
  None        \* no campaign, no task

(***************************************************************************)
(* "request":   a statement of a handler fails, or its context is cancelled*)
(*              because the client went away                               *)
(* "redis":     EnqueueContext returns an error                            *)
(* "statement": a statement of the worker returns an error                 *)
(* "timeout":   the 15 minutes of asynq.Timeout pass, or the lease is lost *)
(* "crash":     the process dies without a shutdown                        *)
(***************************************************************************)
FaultKinds == {"request", "redis", "statement", "timeout", "crash"}

ASSUME PipelineAssumption ==
  /\ MaxRetry \in Nat /\ MaxFound \in Nat /\ MaxFaults \in Nat /\ MaxStops \in Nat
  /\ Faults \subseteq FaultKinds
  /\ Cascade \in BOOLEAN
  /\ None \notin Campaigns \cup Requests

VARIABLES
  campaign,  \* lead_campaigns: the status and "totalFound" of each row
  batches,   \* discovered_leads: one record for the rows of each COPY that took effect
  request,   \* each POST request: where its handler is, for which campaign
  task,      \* the asynq task that a request enqueued, named by the request
  run,       \* each worker goroutine: the attempt it is executing
  late,      \* statements sent before their client's deadline, not yet executed
  up,        \* the server process is running
  faults,    \* faults injected so far
  stops      \* graceful shutdowns so far

vars == <<campaign, batches, request, task, run, late, up, faults, stops>>

-----------------------------------------------------------------------------
(* Rows, tasks and goroutines *)

Status == {"PENDING", "RUNNING", "DONE", "FAILED"}
Gone   == {"ABSENT", "DELETED"}   \* before the INSERT, after the DELETE

CampaignRow == [status : Status \cup Gone, found : Nat]

Batch == [campaign : Campaigns, task : Requests, attempt : Nat, size : Nat,
          copy : Nat]   \* how many COPYs of the same attempt took effect before it

RequestRecord == [pc       : {"new", "update", "enqueue", "closed", "lost"},
                  campaign : Campaigns \cup {None}]

TaskRecord == [state   : {"none", "pending", "active", "retry", "completed", "archived"},
               retried : Nat,      \* asynq's counter of failed attempts
               attempt : Nat,      \* how often the task was handed to a worker
               silent  : BOOLEAN]  \* archived, and its last attempt wrote no status

RunRecord == [pc     : {"idle", "fetch", "insert", "fail", "done", "ok", "err"},
              task   : Requests \cup {None},
              size   : Nat,
              posted : BOOLEAN]    \* a status of this attempt reached the row

Idle == [pc |-> "idle", task |-> None, size |-> 0, posted |-> FALSE]

\* What a statement does to the rows: the COPY of bulkInsert or an updateStatus.
InsertStatement == [op : {"insert"}, batch : Batch]
StatusStatement == [op : {"status"}, campaign : Campaigns,
                    status : {"DONE", "FAILED"}, found : Nat]

TypeOK ==
  /\ campaign \in [Campaigns -> CampaignRow]
  /\ batches \subseteq Batch
  /\ request \in [Requests -> RequestRecord]
  /\ task \in [Requests -> TaskRecord]
  /\ run \in [Workers -> RunRecord]
  /\ late \subseteq InsertStatement \cup StatusStatement
  /\ up \in BOOLEAN
  /\ faults \in Nat
  /\ stops \in Nat

Init ==
  /\ campaign = [c \in Campaigns |-> [status |-> "ABSENT", found |-> 0]]
  /\ batches = {}
  /\ request = [r \in Requests |-> [pc |-> "new", campaign |-> None]]
  /\ task = [r \in Requests |-> [state |-> "none", retried |-> 0,
                                 attempt |-> 0, silent |-> FALSE]]
  /\ run = [w \in Workers |-> Idle]
  /\ late = {}
  /\ up = TRUE
  /\ faults = 0
  /\ stops = 0

Exists(c) == campaign[c].status \notin Gone

Fault(kind) == kind \in Faults /\ faults + stops < MaxFaults /\ faults' = faults + 1

\* A statement succeeds, fails before it took effect, or fails after: the
\* connection broke or the context ended before the answer arrived.
Outcomes == {"ok", "refused", "unknown"}
Applied(o) == o \in {"ok", "unknown"}
Outcome(o, kind) == IF o = "ok" THEN UNCHANGED faults ELSE Fault(kind)

-----------------------------------------------------------------------------
(* The HTTP handlers *)

\* Create: the INSERT with status RUNNING. A refused INSERT leaves nothing.
CreateInsert(r, c, o) ==
  /\ up /\ request[r].pc = "new"
  /\ campaign[c].status = "ABSENT"
  /\ Applied(o) /\ Outcome(o, "request")
  /\ campaign' = [campaign EXCEPT ![c] = [status |-> "RUNNING", found |-> 0]]
  /\ request' = [request EXCEPT ![r] = [pc |-> IF o = "ok" THEN "enqueue" ELSE "lost",
                                        campaign |-> c]]
  /\ UNCHANGED <<batches, task, run, late, up, stops>>

\* Refetch: FindOne, and the refusal of a campaign that is already running.
RefetchRead(r, c) ==
  /\ up /\ request[r].pc = "new"
  /\ Exists(c)
  /\ campaign[c].status \notin {"RUNNING", "PENDING"}
  /\ request' = [request EXCEPT ![r] = [pc |-> "update", campaign |-> c]]
  /\ UNCHANGED <<campaign, batches, task, run, late, up, faults, stops>>

\* Refetch: the UPDATE back to RUNNING. It tests neither the status again nor
\* the number of rows it changed, and leaves "totalFound" as it was.
RefetchUpdate(r, o) ==
  LET c == request[r].campaign IN
  /\ request[r].pc = "update"
  /\ Outcome(o, "request")
  /\ campaign' = IF Applied(o) /\ Exists(c)
                 THEN [campaign EXCEPT ![c].status = "RUNNING"]
                 ELSE campaign
  /\ request' = [request EXCEPT ![r].pc = CASE o = "ok"      -> "enqueue"
                                            [] o = "unknown" -> "lost"
                                            [] o = "refused" -> "closed"]
  /\ UNCHANGED <<batches, task, run, late, up, stops>>

\* Create and Refetch: EnqueueContext. Its error is printed and swallowed.
\* (An error for a task that Redis did store is the same step as success.)
Enqueue(r, stored) ==
  /\ request[r].pc = "enqueue"
  /\ \/ /\ stored
        /\ task' = [task EXCEPT ![r].state = "pending"]
        /\ request' = [request EXCEPT ![r].pc = "closed"]
        /\ UNCHANGED faults
     \/ /\ ~stored
        /\ Fault("redis")
        /\ request' = [request EXCEPT ![r].pc = "lost"]
        /\ UNCHANGED task
  /\ UNCHANGED <<campaign, batches, run, late, up, stops>>

\* Delete removes the row whatever its status, and nothing from the queue.
Delete(c) ==
  /\ up /\ Exists(c)
  /\ campaign' = [campaign EXCEPT ![c] = [status |-> "DELETED", found |-> 0]]
  /\ batches' = IF Cascade THEN {b \in batches : b.campaign # c} ELSE batches
  /\ UNCHANGED <<request, task, run, late, up, faults, stops>>

-----------------------------------------------------------------------------
(* asynq, external: modelled from how main.go and service.go configure it *)

\* A failed attempt is retried MaxRetry times, then the task is archived.
\* "posted" says whether the attempt changed the row of its campaign.
AttemptFailed(r, posted) ==
  task' = [task EXCEPT ![r] =
             IF task[r].retried < MaxRetry
             THEN [task[r] EXCEPT !.state = "retry", !.retried = @ + 1]
             ELSE [task[r] EXCEPT !.state = "archived", !.silent = ~posted]]

Dequeue(w, r) ==
  /\ up /\ run[w].pc = "idle"
  /\ task[r].state = "pending"
  /\ task' = [task EXCEPT ![r].state = "active", ![r].attempt = @ + 1]
  /\ run' = [run EXCEPT ![w] = [Idle EXCEPT !.pc = "fetch", !.task = r]]
  /\ UNCHANGED <<campaign, batches, request, late, up, faults, stops>>

\* The forwarder makes a task whose backoff has passed pending again.
Forward(r) ==
  /\ up /\ task[r].state = "retry"
  /\ task' = [task EXCEPT ![r].state = "pending"]
  /\ UNCHANGED <<campaign, batches, request, run, late, up, faults, stops>>

\* The recoverer fails a task that is active with no worker to renew its lease.
Recover(r) ==
  /\ up /\ task[r].state = "active"
  /\ \A w \in Workers : run[w].task # r
  /\ AttemptFailed(r, FALSE)
  /\ UNCHANGED <<campaign, batches, request, run, late, up, faults, stops>>

-----------------------------------------------------------------------------
(* ProcessCampaign, one attempt on worker w *)

RunCampaign(w) == request[run[w].task].campaign

RunBatch(w) == [campaign |-> RunCampaign(w), task |-> run[w].task,
                attempt |-> task[run[w].task].attempt, size |-> run[w].size,
                copy |-> 0]

\* The COPY of b takes effect. Its rows have new ids, so it adds them beside those
\* that an earlier COPY of the same attempt may have left.
Copied(b) ==
  LET earlier == {x \in batches : x.task = b.task /\ x.attempt = b.attempt}
  IN  batches \cup {[b EXCEPT !.copy = Cardinality(earlier)]}

\* With a foreign key the COPY for a deleted campaign is an error.
Insertable(c) == Exists(c) \/ ~Cascade

\* Mutant of WithStatus: an upsert.
WithStatusUpserts(c, status, found) ==
  [campaign EXCEPT ![c] = [status |-> status, found |-> found]]

\* updateStatus: an UPDATE by id, which changes no row once the row is gone.
WithStatus(c, status, found) ==
  IF Exists(c) THEN [campaign EXCEPT ![c] = [status |-> status, found |-> found]]
               ELSE campaign

\* The fan-out over the providers and dedup. Errors of providers and of the
\* vault are logged and count as no leads, so any size may result.
Fetch(w, n) ==
  /\ run[w].pc = "fetch"
  /\ run' = [run EXCEPT ![w].size = n, ![w].pc = IF n > 0 THEN "insert" ELSE "done"]
  /\ UNCHANGED <<campaign, batches, request, task, late, up, faults, stops>>

\* Mutants of Insert, after a COPY that failed: the attempt reports DONE all the
\* same; it returns nil without a status; it sends the COPY once more.
InsertThen(w, o, next) ==
  /\ run[w].pc = "insert"
  /\ IF Insertable(RunCampaign(w))
     THEN /\ Outcome(o, "statement")
          /\ batches' = IF Applied(o) THEN Copied(RunBatch(w)) ELSE batches
     ELSE o = "refused" /\ UNCHANGED <<batches, faults>>
  /\ run' = [run EXCEPT ![w].pc = IF o = "ok" THEN "done" ELSE next]
  /\ UNCHANGED <<campaign, request, task, late, up, stops>>
InsertUnchecked(w, o) == InsertThen(w, o, "done")
InsertSwallowed(w, o) == InsertThen(w, o, "ok")
InsertAgain(w, o)     == InsertThen(w, o, "insert")

\* bulkInsert: one COPY, all rows or none.
Insert(w, o) ==
  /\ run[w].pc = "insert"
  /\ IF Insertable(RunCampaign(w))
     THEN /\ Outcome(o, "statement")
          /\ batches' = IF Applied(o) THEN Copied(RunBatch(w)) ELSE batches
     ELSE o = "refused" /\ UNCHANGED <<batches, faults>>
  /\ run' = [run EXCEPT ![w].pc = IF o = "ok" THEN "done" ELSE "fail"]
  /\ UNCHANGED <<campaign, request, task, late, up, stops>>

\* Mutant of PostFailed: a status that the enumeration does not have.
PostFailedTypo(w, o) ==
  /\ run[w].pc = "fail"
  /\ Outcome(o, "statement")
  /\ campaign' = IF Applied(o) THEN WithStatus(RunCampaign(w), "ERROR", 0) ELSE campaign
  /\ run' = [run EXCEPT ![w].pc = "err", ![w].posted = Applied(o)]
  /\ UNCHANGED <<batches, request, task, late, up, stops>>

\* bulkInsert failed: FAILED with 0 leads; the error of this update is dropped.
PostFailed(w, o) ==
  /\ run[w].pc = "fail"
  /\ Outcome(o, "statement")
  /\ campaign' = IF Applied(o) THEN WithStatus(RunCampaign(w), "FAILED", 0) ELSE campaign
  /\ run' = [run EXCEPT ![w].pc = "err", ![w].posted = Applied(o)]
  /\ UNCHANGED <<batches, request, task, late, up, stops>>

\* Mutant of PostDone: counts the leads before dedup.
PostDoneRaw(w, o) ==
  /\ run[w].pc = "done"
  /\ Outcome(o, "statement")
  /\ campaign' = IF Applied(o) THEN WithStatus(RunCampaign(w), "DONE", run[w].size + 1)
                               ELSE campaign
  /\ run' = [run EXCEPT ![w].pc = IF o = "ok" THEN "ok" ELSE "err",
                        ![w].posted = Applied(o)]
  /\ UNCHANGED <<batches, request, task, late, up, stops>>

\* Mutant of PostDone: the error of the statement is ignored.
PostDoneIgnored(w, o) ==
  /\ run[w].pc = "done"
  /\ Outcome(o, "statement")
  /\ campaign' = IF Applied(o) THEN WithStatus(RunCampaign(w), "DONE", run[w].size)
                               ELSE campaign
  /\ run' = [run EXCEPT ![w].pc = "ok", ![w].posted = Applied(o)]
  /\ UNCHANGED <<batches, request, task, late, up, stops>>

\* The last statement: DONE with the number of unique leads. Its error is the
\* error of the attempt.
PostDone(w, o) ==
  /\ run[w].pc = "done"
  /\ Outcome(o, "statement")
  /\ campaign' = IF Applied(o) THEN WithStatus(RunCampaign(w), "DONE", run[w].size)
                               ELSE campaign
  /\ run' = [run EXCEPT ![w].pc = IF o = "ok" THEN "ok" ELSE "err",
                        ![w].posted = Applied(o)]
  /\ UNCHANGED <<batches, request, task, late, up, stops>>

\* ProcessCampaign returned nil: asynq marks the task as completed.
Ack(w) ==
  /\ run[w].pc = "ok"
  /\ task' = [task EXCEPT ![run[w].task].state = "completed"]
  /\ run' = [run EXCEPT ![w] = Idle]
  /\ UNCHANGED <<campaign, batches, request, late, up, faults, stops>>

\* ProcessCampaign returned an error.
Nack(w) ==
  /\ run[w].pc = "err"
  /\ AttemptFailed(run[w].task, run[w].posted)
  /\ run' = [run EXCEPT ![w] = Idle]
  /\ UNCHANGED <<campaign, batches, request, late, up, faults, stops>>

RunStep(w) ==
  \/ \E n \in 0..MaxFound : Fetch(w, n)
  \/ \E o \in Outcomes : Insert(w, o) \/ PostFailed(w, o) \/ PostDone(w, o)
  \/ Ack(w)
  \/ Nack(w)

-----------------------------------------------------------------------------
(* Deadlines, crashes and restarts *)

\* The statement that worker w is waiting for, if it is waiting for one.
InFlight(w) ==
  CASE run[w].pc = "insert" -> {[op |-> "insert", batch |-> RunBatch(w)]}
    [] run[w].pc = "fail"   -> {[op |-> "status", campaign |-> RunCampaign(w),
                                 status |-> "FAILED", found |-> 0]}
    [] run[w].pc = "done"   -> {[op |-> "status", campaign |-> RunCampaign(w),
                                 status |-> "DONE", found |-> run[w].size]}
    [] OTHER -> {}

\* Of the statements that the workers in ws wait for, the database may still
\* execute some.
Outlive(ws) == \E sent \in SUBSET UNION {InFlight(w) : w \in ws} : late' = late \cup sent

\* The deadline passes: asynq fails the attempt at once, while the handler's
\* goroutine goes on with a context under which no statement can be sent any
\* more. The one already sent may still be executed by the database.
Timeout(w) ==
  /\ run[w].pc # "idle"
  /\ Fault("timeout")
  /\ AttemptFailed(run[w].task, run[w].posted)
  /\ Outlive({w})
  /\ run' = [run EXCEPT ![w] = Idle]
  /\ UNCHANGED <<campaign, batches, request, up, stops>>

LateInsert(s) ==
  /\ s \in late /\ s.op = "insert"
  /\ batches' = IF Insertable(s.batch.campaign) THEN Copied(s.batch) ELSE batches
  /\ late' = late \ {s}
  /\ UNCHANGED <<campaign, request, task, run, up, faults, stops>>

LateStatus(s) ==
  /\ s \in late /\ s.op = "status"
  /\ campaign' = WithStatus(s.campaign, s.status, s.found)
  /\ late' = late \ {s}
  /\ UNCHANGED <<batches, request, task, run, up, faults, stops>>

LateDrop(s) ==
  /\ s \in late
  /\ late' = late \ {s}
  /\ UNCHANGED <<campaign, batches, request, task, run, up, faults, stops>>

\* What is left of a handler when its process dies under it.
Interrupted(q) ==
  CASE q.pc = "update"  -> [q EXCEPT !.pc = "closed"]
    [] q.pc = "enqueue" -> [q EXCEPT !.pc = "lost"]
    [] OTHER            -> q

Crash ==
  /\ up /\ Fault("crash")
  /\ up' = FALSE
  /\ Outlive(Workers)
  /\ request' = [r \in Requests |-> Interrupted(request[r])]
  /\ run' = [w \in Workers |-> Idle]
  /\ UNCHANGED <<campaign, batches, task, stops>>

\* Mutant of Stop: the attempts cut short are acknowledged.
StopDropping ==
  /\ up /\ stops < MaxStops /\ faults + stops < MaxFaults
  /\ \A r \in Requests : request[r].pc \notin {"update", "enqueue"}
  /\ up' = FALSE
  /\ stops' = stops + 1
  /\ task' = [r \in Requests |-> IF \E w \in Workers : run[w].task = r
                                 THEN [task[r] EXCEPT !.state = "completed"]
                                 ELSE task[r]]
  /\ run' = [w \in Workers |-> Idle]
  /\ Outlive(Workers)
  /\ UNCHANGED <<campaign, batches, request, faults>>

\* SIGTERM: the HTTP server drains its requests (a handler that outlives the ten
\* seconds of srv.Shutdown is the Crash above). asynqSrv.Run hears the signal
\* too and shuts down on its own: it gives the attempts eight seconds and puts
\* the tasks of the others back in the queue. main's own asynqSrv.Shutdown does
\* not wait for that, so the process may exit with any of it undone. Fly sends
\* the signal to a machine that serves no request, whatever its job is doing.
Stop ==
  /\ up /\ stops < MaxStops /\ faults + stops < MaxFaults
  /\ \A r \in Requests : request[r].pc \notin {"update", "enqueue"}
  /\ up' = FALSE
  /\ stops' = stops + 1
  /\ \E requeued \in SUBSET {run[w].task : w \in Workers} :
       task' = [r \in Requests |-> IF r \in requeued
                                  THEN [task[r] EXCEPT !.state = "pending"]
                                  ELSE task[r]]
  /\ run' = [w \in Workers |-> Idle]
  /\ Outlive(Workers)
  /\ UNCHANGED <<campaign, batches, request, faults>>

\* The process comes up again: docker-compose restarts it, Fly starts the machine
\* for the next HTTP request (auto_start_machines), if there is one.
Restart ==
  /\ ~up
  /\ up' = TRUE
  /\ UNCHANGED <<campaign, batches, request, task, run, late, faults, stops>>

-----------------------------------------------------------------------------

RequestStep(r) ==
  \/ \E o \in Outcomes : RefetchUpdate(r, o)
  \/ \E stored \in BOOLEAN : Enqueue(r, stored)

Next ==
  \/ \E r \in Requests, c \in Campaigns :
       (\E o \in Outcomes : CreateInsert(r, c, o)) \/ RefetchRead(r, c)
  \/ \E r \in Requests : RequestStep(r) \/ Forward(r) \/ Recover(r)
  \/ \E c \in Campaigns : Delete(c)
  \/ \E w \in Workers, r \in Requests : Dequeue(w, r)
  \/ \E w \in Workers : RunStep(w) \/ Timeout(w)
  \/ \E s \in late : LateInsert(s) \/ LateStatus(s) \/ LateDrop(s)
  \/ Crash \/ Stop \/ Restart

Spec == Init /\ [][Next]_vars

\* Handlers and attempts go on once started (every call they make ends, at the
\* latest when its context does), and asynq keeps moving tasks while the process
\* is up. Faults, new requests and deletions are never forced, nor is Restart.
Fairness ==
  /\ \A r \in Requests :
       /\ WF_vars(RequestStep(r))
       /\ WF_vars(Forward(r))
       /\ WF_vars(Recover(r))
       /\ WF_vars(\E w \in Workers : Dequeue(w, r))
  /\ \A w \in Workers : WF_vars(RunStep(w))

FairSpec == Spec /\ Fairness

-----------------------------------------------------------------------------
(* Properties *)

\* Request r will still bring a status to its campaign: it is about to enqueue,
\* or its task is waiting, or is being run and has not written a status yet.
Responsible(r) ==
  \/ request[r].pc = "enqueue"
  \/ task[r].state \in {"pending", "retry"}
  \/ /\ task[r].state = "active"
     /\ \A w \in Workers : run[w].task = r => ~run[w].posted

\* Request r set RUNNING and nothing will ever undo it: its job was never
\* queued, or was archived by an attempt that could not write a status.
Lost(r) ==
  \/ request[r].pc = "lost"
  \/ task[r].state = "archived" /\ task[r].silent

\* A campaign that says RUNNING has a job that will still report, or the code
\* lost that job in one of the two ways it can: the swallowed enqueue error
\* (service.go:60, :129) or the last attempt's failed status write
\* (worker.go:110, :115).
RunningIsAccounted ==
  \A c \in Campaigns :
    campaign[c].status = "RUNNING" =>
      \E r \in Requests : request[r].campaign = c /\ (Responsible(r) \/ Lost(r))

\* "totalFound" never counts leads that are not there: the leads of one whole
\* COPY of that size are stored for the campaign (worker.go:108-115 inserts
\* before it reports), whatever retries, late statements and overlapping jobs do.
FoundIsBacked ==
  \A c \in Campaigns :
    \/ campaign[c].found = 0
    \/ \E b \in batches : b.campaign = c /\ b.size = campaign[c].found

\* An attempt that is about to be acknowledged has its leads stored, unless the
\* campaign was deleted and its leads with it: at-least-once, end to end.
AckedIsStored ==
  \A w \in Workers :
    run[w].pc = "ok" /\ run[w].size > 0 /\ Insertable(RunCampaign(w))
      => \E b \in batches : RunBatch(w) = [b EXCEPT !.copy = 0]

\* The table holds no more copies of a job's leads than one and one for each
\* failure and each shutdown, and none of them is the second of one attempt.
\* Every COPY stores new rows, so what keeps the leads from being stored again is
\* only that an attempt sends one COPY, whatever becomes of its answer, and that
\* no attempt follows one that was acknowledged (worker.go:108-115, :167-192).
ReplayNeedsFailure ==
  /\ \A r \in Requests :
       Cardinality({b \in batches : b.task = r}) <= 1 + task[r].retried + stops
  /\ \A b1, b2 \in batches :
       b1.task = b2.task /\ b1.attempt = b2.attempt => b1 = b2

\* What became of the job of request r, as CampaignContract tells it.
JobState(r) ==
  CASE request[r].pc \in {"new", "update"}                 -> "none"
    [] request[r].pc = "closed" /\ task[r].state = "none"  -> "refused"
    [] Responsible(r)                                      -> "open"
    [] task[r].state = "active" /\ ~Responsible(r)         -> "written"
    [] Lost(r)                                             -> "lost"
    [] task[r].state \in {"completed", "archived"} /\ ~Lost(r) -> "over"

Contract ==
  INSTANCE CampaignContract WITH
    row   <- campaign,
    sizes <- [c \in Campaigns |-> {b.size : b \in {x \in batches : x.campaign = c}}],
    of    <- [r \in Requests |-> request[r].campaign],
    job   <- [r \in Requests |-> JobState(r)]

\* A job ends only after it has written a status or because it was lost, whatever
\* retries, crashes and shutdowns do to its attempts; a status counts stored leads
\* only; and what was deleted stays deleted (service.go:45-60, worker.go:108-115).
ImplementsContract == Contract!ContractSpec

\* A process that is down is started again, sooner or later. Under docker-compose
\* it always is ("restart: unless-stopped"); on Fly only a further HTTP request
\* starts it (fly.toml:15-17), so there this is an assumption about the users.
ComesBack == []<>up

\* As long as the process comes back, a campaign leaves RUNNING under any of the
\* faults, or its job was lost: the job that a crash, a shutdown or the stop of an
\* idle machine cut short is taken up again (service.go:114-129, main.go:190-193).
RunningSettles == ComesBack =>
  \A c \in Campaigns :
    campaign[c].status = "RUNNING" ~>
      \/ campaign[c].status # "RUNNING"
      \/ \E r \in Requests : request[r].campaign = c /\ Lost(r)

\* As long as the process comes back and the job was enqueued, every campaign leaves
\* RUNNING if failures and shutdowns together are no more than asynq's retries. (A
\* shutdown counts: the task it cuts short may come back through the recoverer, at
\* the price of a retry.) One that stays RUNNING has taken a lost enqueue, that
\* many failures, or a process that nobody starts again.
RetriesSuffice == ComesBack =>
  \A c \in Campaigns :
    campaign[c].status = "RUNNING" ~>
      \/ campaign[c].status # "RUNNING"
      \/ \E r \in Requests : request[r].campaign = c /\ request[r].pc = "lost"
      \/ faults + stops > MaxRetry

\* What main.go:84 says of an unreachable Redis, "jobs will be queued locally":
\* a campaign that says RUNNING has a job somewhere.
JobIsQueued ==
  \A c \in Campaigns :
    campaign[c].status = "RUNNING" =>
      \E r \in Requests : request[r].campaign = c /\ Responsible(r)

\* What service.go:102-104 says, "campaign is already running": a campaign is
\* not started again while a job of it is outstanding.
SingleJob ==
  \A r1, r2 \in Requests :
    /\ request[r1].campaign # None
    /\ request[r1].campaign = request[r2].campaign
    /\ Responsible(r1) /\ Responsible(r2)
    => r1 = r2

=============================================================================
