# A model of the clearwork leads engine

The leads engine is a Go service. A user creates a *campaign*; the service asks
several lead providers for companies, removes duplicates, stores the leads in
PostgreSQL and lets the user browse and import them into a CRM. The work is done
by a background job that travels through Redis (asynq). The specifications here
say what this service guarantees, check it with TLC on small instances, and
prove every safety property that holds with TLAPS, for instances of every size.

The repository has no tests and no design documents. The reference is the code:
every definition is translated from it, and `PROJECT.json` ("map") gives the
lines. Code that is not in the repository (asynq, PostgreSQL, the provider
services) is modelled from how the repository uses it and marked external.

## The parts of the system

| Part | Code | State | Operations | Module |
|---|---|---|---|---|
| campaign service | `internal/campaign/service.go`, `handler.go` | table `lead_campaigns` | Create, Refetch, Delete, FindOne, FindAll | `CampaignPipeline`, `CampaignContract` |
| job queue | asynq as configured in `main.go:108-119`, `service.go:51-56` | the tasks in Redis | enqueue, dequeue, retry, archive, recover, requeue | `CampaignPipeline` (external) |
| campaign worker | `internal/campaign/worker.go` | goroutines, channel, WaitGroup; table `discovered_leads` | ProcessCampaign, bulkInsert, updateStatus | `CampaignPipeline`, `WorkerFanout`, `Gather` |
| deduplication | `worker.go:118-157` | none | dedup, dedupKey | `LeadDedup` |
| provider adapters with pages | `internal/providers/*.go` | position in a paged answer | Search | `ProviderSearch` |
| google_maps by Places, remoteok | `providers/google_maps.go`, `remoteok.go` | names seen, query, page token | Search | `NamedSearch` |
| lead import | `internal/leads/service.go:109-201` | `discovered_leads`, `leads`, `lead_campaigns."totalImported"` | ImportToCRM, BulkImport | `LeadTables`, `LeadImport` |
| lead query, export, `/full` | `internal/leads/service.go:16-107, 203-225`, `main.go:141-162` | none of its own | FindAll, ExportCSV, the inline handler | `LeadTables`, `LeadQuery` |
| authentication | `internal/middleware/user.go` | the key behind a `sync.Once` | InjectUserID | `AuthKey` |
| key vault | `internal/vault` | table `lead_provider_keys` | save, test, remove, GetDecryptedKey | `KeyVault` |
| database pool, cipher, CORS, routing | `internal/db`, `vault/crypto.go`, `main.go` | 20 connections | - | not modelled, see below |

How they meet: the HTTP handlers write a campaign's row and then enqueue a task;
the asynq server, in the same process, hands the task to one of 20 goroutines;
that goroutine starts one goroutine per provider, each of which reads a key from
the vault and runs the paging loop of its adapter; their leads come back through
a channel; the attempt removes duplicates, copies the leads into the database
and writes the campaign's final status. Nothing spans PostgreSQL and Redis, and
nothing in the database is guarded by a transaction.

What makes this hard: a crash or an error between any two statements; a swallowed
enqueue error; two requests that interleave; asynq's at-least-once delivery with
two retries, a deadline of 15 minutes and lease recovery; a statement the
database executes after its client gave up; a campaign deleted under its job; the
order in which providers answer; the arithmetic of pages; two imports of one
lead; a list that is read page by page while it changes; a provider that is asked
between the read and the write of its key; and a key that is loaded once, for the
life of the process, by whichever request comes first. `PROJECT.json`
lists each of these under "hazards", at its line, with the properties that cover
it.

## The modules

### CampaignPipeline

One variable per store: `campaign` (rows), `batches` (one record for each COPY of
`bulkInsert` that took effect), `task` (asynq's view of each job), `run` (what
each worker goroutine is executing), `late` (statements sent before their client
gave up), `request` (where each POST handler is), and whether the process is up.

| Action | Code |
|---|---|
| `CreateInsert`, `Enqueue` | `Service.Create` |
| `RefetchRead`, `RefetchUpdate`, `Enqueue` | `Service.Refetch`: three statements, so three steps |
| `Delete` | `Service.Delete` |
| `Fetch` | the fan-out and `dedup`, here only a number of leads; `WorkerFanout` has the detail |
| `Insert`, `PostFailed`, `PostDone` | the three statements of an attempt, each of which succeeds, fails, or succeeds without its answer arriving |
| `Ack`, `Nack`, `Dequeue`, `Forward`, `Recover` | asynq |
| `Timeout`, `LateInsert`, `LateStatus`, `LateDrop` | `asynq.Timeout(15*time.Minute)` and what the database does with a statement already sent |
| `Crash`, `Stop`, `Restart` | the process; `Stop` is SIGTERM, from a deployment or from Fly's proxy when no request is open |

A request that the code refuses without writing anything (400, 404, 500) is a
stuttering step. A job that finds no lead goes from `Fetch` straight to
`PostDone`, as `worker.go:108` does. `Stop` needs a remark: `asynqSrv.Run`
installs its own signal handler and shuts the worker server down at SIGTERM, and
main's `asynqSrv.Shutdown()` (`main.go:193`) does not wait for it. The process
may therefore exit before asynq has put the interrupted tasks back: `Stop`
requeues *any subset* of them, and the rest wait for the recoverer, which counts
a retry. The schema is not in the repository; whether deleting a campaign
deletes its leads is the constant `Cascade`.

Properties:

- `RunningIsAccounted`: a campaign that says RUNNING has a job that will report,
  or that job was lost in one of exactly two ways: an enqueue error that was
  swallowed, or a last attempt whose status write failed.
- `FoundIsBacked`: `totalFound` never counts leads that are not stored.
- `AckedIsStored`: asynq is told "done" only for leads that are in the database.
- `ReplayNeedsFailure`: the table holds no more copies of a job's leads than one and
  one for each failure that asynq counted and each shutdown. Every COPY draws new row
  ids (`worker.go:170-178`) and the code refuses no repetition, so a second COPY of an
  attempt is a record of its own in `batches`, told apart by `copy`; what keeps it
  from happening is that an attempt whose COPY failed, or seems to, ends.
- `ImplementsContract`: the pipeline implements `CampaignContract`, below.
- `RunningSettles`, `RetriesSuffice` (liveness): as long as the process comes back
  after each stop, a campaign leaves RUNNING unless its job was lost; and it does if
  failures and shutdowns are no more than the retries.
- `JobIsQueued`, `SingleJob`: what the code's own messages claim; violated.

### CampaignContract

What the service promises of a campaign, without handlers, Redis, goroutines,
deadlines or processes. A request that starts a campaign gives it a job; the job
is "open" until it writes a status, then "written", and "over" when it will not be
run again; instead of all this it may be "lost". `Begin`, `Store`, `Report` and
`Delete` are the only steps that change a campaign or its leads: a status comes from a
job that was given to that very campaign, counts the leads that one COPY stored,
counts none if it is FAILED, and never brings a deleted campaign back.
An open job cannot become "over": whatever ends a job without a status is a loss.

The refinement mapping is at the end of `CampaignPipeline`. Rows are rows, `sizes`
is the set of the sizes of a campaign's batches, and `JobState` reads the state of
a job off the handler, the task and the attempt that runs it. `Fetch`, `Dequeue`,
`Forward`, `LateDrop`, `Restart` and an `Enqueue` that succeeds are stuttering steps;
`Crash` and `Stop` are one `Proceed` of many jobs at once. The contract has no
fairness: liveness stays with the two properties of the pipeline.

### LeadDedup, Gather, WorkerFanout

`LeadDedup` holds `dedup` and `dedupKey` as operators. A name, email or contact
is a word in a spelling (the key ignores case), a website is a host with or
without "www.", or has no host at all. `Gather` is what the fan-out promises: the
answer of every provider is taken exactly once, and the leads are deduplicated
after the last. `WorkerFanout` is the code: goroutines spawned one after the
other while the first are running, a buffered channel, a WaitGroup, a goroutine
that waits and closes. `ImplementsGather` is the refinement, liveness included.

- `NoSendOnClosed`: no goroutine can still send once the channel is closed, which
  would panic and take down the process with all its other attempts.
- `UniqueIsOrderFree`: the keys of the result are those of all successful
  answers, whatever the order; only which lead stands for a key depends on it
  (`FirstArrivalWins`).
- `Terminates`: the fan-out ends, whatever providers and vault do.
- `SharedHostIsNoKey`: the comment at `worker.go:131-132`; violated.

### ProviderSearch

Eight adapters page through a catalogue that numbers its items 1 to `total` and
stays as it is during one search (a moving catalogue is not modelled). One action
per adapter keeps the three things in which they differ: how the next page is
addressed, how many items are asked for, and which answers end the loop.
`Break` is every answer without items: an error, a refusal, the end. `hitches`
records what the service did wrong, so that a property can say "undisturbed".

- `CollectsPrefix`: loops that address by item (offset, cursor, `after_id`,
  `next_page`, `start`) return the catalogue from its start without gap or
  repetition, whatever fails.
- `GetsTheTarget`: an undisturbed search has as many different leads as the limit
  asks for and the service has - for github and apollo only in `EvenPages`.
- `LimitKept`: no search exceeds its limit, or by less than a page where pages
  have a fixed size (crunchbase, SerpAPI, Proxycurl).
- `RequestsBounded`: a search makes at most one request for each item of the
  catalogue and one more, so every loop ends, even if no item becomes a lead.
- `FullTarget`: `GetsTheTarget` without `EvenPages`; violated.

### LeadTables, LeadImport, LeadQuery

`LeadTables` holds the tables that the discovered-leads endpoints share with the
rest of the service, and the others who write them: a job that stores leads and
then reports, a failed job, a refetch, a deletion. It is `CampaignPipeline` as
those endpoints see it: a job's COPY and its report are two steps, and its retries and
late statements appear as further jobs. Of two jobs of one campaign it leaves
out that both have stored their leads before either reports. The columns that a job
writes never change, so a lead is a model value with constant campaign and score.

`LeadImport` adds the import requests. `importOne` is a list of one id.

| Action | Code |
|---|---|
| `Begin` | the handlers; an empty list is 400 |
| `Read` | the SELECT: gone, already imported, or to be imported |
| `Insert`, `Mark`, `Count` | the INSERT and the two UPDATEs, each of which succeeds, fails, or takes effect without its answer; only the INSERT's error is looked at |
| `NextId` (in them) | the loop of `BulkImport` |
| `Cut`, `Adrift` | the request's context ends, or the process; the statement on its way may still be executed |

- `MarkNamesItsCopy`: "alreadyImported" answers with a CRM lead that exists and was
  made from this very row, under any overlap. (It may be one of several copies.)
- `SealedStaysSealed` (action property): once a lead is marked and no import that
  read it unmarked has its INSERT before it, no step ever creates another copy. So
  a second copy needs an overlap or a lost mark - both of which the code allows.
- `ImportedIsInCRM`: what the API counts as imported is in the CRM.
- `CounterCountsCopies`: `totalImported` never exceeds the CRM leads of the
  campaign's rows, and lags by the imports in progress and one for each fault.

`LeadQuery` adds one reader: the list page after page, the export, or `/full`.
Its statements are steps of their own; between them jobs store, imports mark
and campaigns go. The ghosts `began`, `moved`, `fresh` and `hitch` say what the
selection was at the start and whether anything moved since.

- `ScanSeesAll`: a caller who reads to the last page sees every lead that was
  there from the start, and exactly those if nothing moved. This takes different
  scores and rows that do not leave the selection; without either condition TLC
  shows a lead that was there all the time and is never seen, because the ORDER BY
  has no tie-break and OFFSET skips places and not rows. An export that
  fits its limit needs neither: it shows whatever was there all the time.
- `TotalFitsPage`: `total` and the page agree unless a row moved between the two
  statements or one of them failed.
- `FullShowsFound`: `/full` never shows a count with fewer leads than it says.

### AuthKey, KeyVault

`AuthKey` is the middleware: `Extract` (header, bearer, nobody), the `sync.Once`
as two actions (`EnterOnce` for the request that loads, `PassOnce` for those that
wait), `Load`, `Verify`, and a fault `Hang` for the `http.Get` without a timeout.
`Rotate` is the identity service. `KeyVault` extends it with the handlers behind
it: one row of `lead_provider_keys`, the requests that read it, ask the provider,
and write; a statement whose connection broke (`adrift`), a restart with
another secret, and the read by a job, which with a secret of less than 64 digits ends
the process (nothing recovers a panic in the goroutine of a provider). A request slot is reused after each answer,
so behaviours are unbounded.

- `VerdictStands`: all bearer tokens of a process are judged by the one key that
  was loaded; no overlap of first requests lets one through unjudged or refuses
  one that another request's key would pass.
- `StatusIsOfItsKey`: a row says `active` only of a key the provider accepts, and
  otherwise only of one that it refuses or that could not be asked - unless a save
  came between the read and the write of a test. That exception is real: the
  UPDATE of `service.go:77` does not say which key it is about.
- `RemovedStaysRemoved`: a removed key comes back only by a save.
- `Answered` (liveness): every request is answered; after a hung load, all but
  those with a bearer token.

### NamedSearch

Two searches that remember the names they have seen. The Places loop asks query
after query, page after page, until it has enough; remoteok filters one answer.
The services answer anything: any page, tokens for ever, errors, silence until
the deadline.

- `NamesDistinct`: each name once, up to case for Places, as spelled for remoteok.
- `OvershootBounded`: Places exceeds its limit by less than one page.
- `FailureStaysInQuery`: too few leads means that every query was asked to its end
  or to a failure of its own.
- `AnyJobCounts`: a company is found through any matching job, and the limit is
  filled if there are enough.
- `Ends` (liveness): by the deadline at the latest, and by nothing else - a
  service that keeps sending tokens with names already seen holds the loop.

## The runs

| Run | Instance | Shows |
|---|---|---|
| `pipeline_safety` | 1 campaign, 2 requests, 2 workers, MaxRetry 1, searches of 0-2 leads, any 2 faults of all kinds, one of them possibly a shutdown; symmetry | the type invariant and the four safety properties |
| `pipeline_settles` | 1 worker, MaxRetry 1, 0-1 leads, any 2 faults, `Cascade = FALSE` | `RunningSettles`, `RetriesSuffice`, `ImplementsContract` |
| `pipeline_redis_down` | one request, one failed enqueue | `JobIsQueued` is violated |
| `pipeline_refetch_race` | three requests, no fault | `SingleJob` is violated |
| `fanout_orders` | a provider requested twice, another one, and one the registry does not know | the six properties of the fan-out |
| `fanout_shared_host` | github and apollo | `SharedHostIsNoKey` is violated |
| `search_pages` | limits 1-6, catalogues of 0-8 items, pages of 2 or 3 | the five properties of the loops |
| `search_full_target` | the same | `FullTarget` is violated |
| `lead_imports` | 2 requests over 2 leads of a campaign, lists `<<l1>>`, `<<l1,l2>>`, `<<l1,l1>>`, 1 fault | the type invariant and the four properties of imports |
| `lead_pages` | 3 leads, two with the same score, pages of 1 and 2, up to page 3, exports of 2, one reading, 1 fault; symmetry of the twins | the type invariant and the three properties of readers |
| `vault_keys` | 2 slots for requests, 2 signing keys, 2 provider keys, 2 secrets and one too short, 1 fault | the type invariant and four properties |
| `search_names` | 3 queries, pages of 0-2 results, limits 1-3, 4 names, two of them alike up to case; remoteok with 0-3 jobs | the type invariant and five properties |

**Why these bounds are enough.** Campaigns share nothing but workers, so one is
enough, and a second request gives it a second, overlapping job. With MaxRetry 1
a task goes through a first attempt, a retry and the archive; two faults let both
attempts fail, or one fail and a late statement interfere. Two sizes of a search
tell the attempts' batches apart. In the fan-out, one provider twice
gives two goroutines with the same key set, the registered one without a key and
the unknown one take the two early returns. A limit
of 6 with pages of 3 or 2 has one, two and three rounds, with the last page cut or
whole, and catalogues shorter, equal and longer than the limit. Two imports
overlap in every way that more could, pairwise; a list with the same id twice is
the case of a repeated import within one request, and one with two ids that of a
context that ends with ids left. Three leads in pages of two give a full page and a
cut one, two in pages of one a row that crosses the border; two twins are what a
missing tie-break needs. Two request slots, each reused without bound, give every overlap
of two among save, test and remove and a third that begins after the first has ended;
two keys per side tell the old from the new. Three queries let a failure or an end in the
middle show on the next one. What more faults, requests or leads would do to the
safety properties is settled by the proofs. Counters that
could grow (faults, shutdowns) are bounded in guards, never by a state
constraint, so that the liveness properties mean what they say. The runs switch
the deadlock check off because the system may really stop: all requests made, all
jobs done, or a search ended.

**Fairness.** Weak fairness of a handler's next statement and of an attempt's next
step: every call carries a context with a deadline or ends with its connection.
Of asynq's dequeuing, forwarding and recovering: these are loops of the running
server (`main.go:108-119`). Never of `Restart`. Under `docker-compose.yml`
(`restart: unless-stopped`) the process always comes back, but CI deploys to Fly
(`deploy.yml:16-17`), which stops a machine that serves no request, with whatever job it
runs, keeps none running, and starts one only for the next HTTP request
(`fly.toml:15-17`). That somebody makes one is an assumption about users and not about
the code, so it stands in the properties: `RunningSettles` and `RetriesSuffice` have
the premise `ComesBack`, `[]<>up`. Where it fails, a job may wait for ever, with its
campaign RUNNING. Of every goroutine of
the fan-out: the Go runtime; an adapter's `Search` returns because each of its
requests carries the attempt's context and `RequestsBounded` bounds their number.
Of the next step of a handler in `KeyVault`: each of its calls ends with its
context; the one that does not, `loadECKey`'s `http.Get`, may `Hang`. Of the next
step of a search in `NamedSearch`, and of the end of its context (`Expire`), which
is the job's `asynq.Timeout`.
Never of faults, new requests, deletions, or shutdowns.

## What the violated properties say

1. `main.go:84` says that without Redis "jobs will be queued locally". They are
   not queued at all; the campaign says RUNNING for ever and
   `service.go:102` refuses to refetch it.
2. `service.go:103` refuses to refetch a campaign that "is already running", but
   checks in one statement and writes in another: two refetches start two jobs.
   The same happens, with a single refetch, while a failed attempt that posted
   FAILED (`worker.go:110`) waits for its retry.
3. The list of hosts that are no dedup key lacks github.com, which the github
   adapter itself makes up as website (`github.go:142`).
4. github and apollo cut `per_page` on the last round and go on counting pages: a
   target of 150 ends with the first 100 items.

## The proofs

`CampaignPipelineProofs` proves for every set of campaigns, requests and workers,
every MaxRetry and every bound, from `PipelineAssumption` alone: `TypeOK`,
`FoundIsBacked`, `AckedIsStored`, `RunningIsAccounted` and `ReplayNeedsFailure`.
None of the four safety properties is inductive.

- `Typed` adds to `TypeOK` that the table of leads is finite, so that copies can be
  counted, and who works for whom: a busy worker holds an active task
  (`Held`), no two hold the same (`Apart`), and only a request past its last
  statement has a task (`Wrote`).
- `Backed` is `FoundIsBacked` for the rows, for the attempts that are past their
  COPY, and for the status writes that may still be executed late. The last part
  is what makes it inductive: a late `DONE` with its number of leads can reach the
  row long after the attempt is gone.
- `Reported` (an attempt that returns nil has written its status) is what
  `RunningIsAccounted` needs at `Ack`.
- `Written` says that every copy, late ones included, is the first of its attempt
  (`copy` is 0) and identified by task and attempt, and that a COPY which may still be
  executed late has not been executed before. `Counted` bounds the attempts by
  failures and shutdowns. The attempts of a job's copies are then different numbers
  between 1 and that bound (`FS_Injection`), which bounds the copies.

It also proves `ImplementsContract`, for the same instances: the
run has one worker, the theorem any number. Every action is shown to be one step of
the contract or none, from `Typed`, `Backed`, `Reported` and one more invariant.
`Orderly` says that an attempt before its status write has not written one (so
that a job reports from "open"), and that a statement which outlived its attempt
belongs to a campaign with a job and counts no leads if it says FAILED. `Backed` is
what makes a late `DONE` a `Report`, `Reported` what makes `Ack` end a written job.

`FoldFacts` holds what the proofs about loops over data rest on. The library's rules
of induction take a predicate as a parameter, which none of the provers can
instantiate; `NumberInduction` takes a *set* of numbers instead and follows from
`WFMin`, the least element of a well-founded order. From it, `FoldExists` shows that
the recursive function inside `FoldLeft` exists, so that a fold is one step after the
fold of the shorter prefix, and `FlattenAppend` that `FlattenSeq` adds one sequence
at a time. `Enumerated`, `ElementsCounted` and `Ascending` count what a sequence
without repetitions holds.

`ProviderSearchProofs` proves `TypeOK`, `CollectsPrefix`, `GetsTheTarget`, `LimitKept` and
`RequestsBounded` for every page size, limit and catalogue, the
page sizes of the code (100, 50, 25, 20) among them. The strengthening is `InLoop`: while a loop runs it is below its
limit, it has made no more requests than its position says, and the position of an
item-addressed loop is the number of its leads.
`Covered` is `GetsTheTarget` on the way: undisturbed, the leads are the first items of
the catalogue in some order, a page-numbered loop has read whole pages, and the loop ends
only with enough leads or with all there are. `RoomForAPage` is the arithmetic
of `EvenPages`: below a limit of whole pages there is room for one more.

`WorkerFanoutProofs` proves the four invariants of the fan-out for every list of requested providers
and all lists of leads they return, and `GathersSafely`: the initial state of
the fan-out is one of `Gather` and every step is a step of `Gather` or a stutter.
The invariant `Waited` says that the WaitGroup counts the goroutines that run
(`wg = Cardinality(Running)`), that exactly the first `spawned` have begun, and
that the closer starts after the last. `Sent` says that a slot is in the channel
at most once and only after it was sent, without which `Collect` might take the
answer of one slot twice. `DedupKeepsFirsts` says what the loop of `dedup` computes for
every sequence of leads: the first lead of each key, in order, and no key twice; by
induction over the prefixes of the sequence. `Collected` (the keys in `all` are those of
the answers taken so far) turns it into `UniqueIsOrderFree` and `FirstArrivalWins`.

`NamedSearchProofs` proves the five invariants of `NamedSearch` for all names, every answer
of the services and every limit. Two lemmas settle the loops over the results of a page
(`UnseenFacts`: which of them are new, and that they are different) and over remoteok's jobs
(`CompaniesFacts`); on top of them `RoomToAsk`, `OfferedKept` (nothing offered is lost) and
`QueriesOver` (the queries before the present one are over, all of them if the search
found too little) make the properties inductive.

`LeadQueryProofs` proves `TypeOK`, `ScanSeesAll`, `TotalFitsPage` and `FullShowsFound` for
every set of leads, every score, filter, page and limit. `Orders` lets the database choose
another order of equal scores in each statement; `OrderFacts` and `SliceFacts` say
what every such choice has in common. None of the three properties is inductive:

- `Counted`: a fresh total is the number of rows that the SELECT will find. With
  `CountBetween`, the arithmetic of a page, it gives `TotalFitsPage`.
- `Backed` (a row, and a job that has yet to report, counts stored leads) and `RowBacked`
  (so does the row that `/full` holds, until a lead leaves) give `FullShowsFound`.
- `SinceBegan` relates what matches now to what matched at the start: a lead that left
  is `Gone` for good, because marks are final and a deleted campaign stays deleted.
- `Unread` is the heart of the scan: a lead that was there from the start and is not read
  yet has at least as many rows of higher score before it as the pages read so far
  have places. Rows that come in only add to them, and without ties the number of
  those rows is the place of the lead in every order (`RankFacts`), so it is
  on a page still to be read. This is where `ScanSeesAll` needs different scores.
- `PagesFill` (nothing moves: the pages are full until all is read) gives the exact count, and
  `AllSeen` the case of one statement.

`LeadImportProofs` proves the five properties of `LeadImport` for any number of
leads, campaigns, requests, ids per list, and faults.

- `Answered` adds to `MarkNamesItsCopy` and `ImportedIsInCRM` that an import past its
  INSERT has its copy in `crm` (`Inserted`): what it will mark and count is there.
- `Placed`: the id of a copy is a request and a place in its list that it has
  reached, so that an INSERT always adds a copy that was not there.
- `Balanced` is the counter with the faults made visible: the copies of a
  campaign, plus the INSERTs still adrift (`Blind`), are at most the counter plus the
  imports that will still count (`Pending`) plus the faults. `CounterCountsCopies`
  alone is not inductive, because a fault shows in the tables later than it happens, or never.

`KeyVaultProofs` proves the four safety properties of `KeyVault` for any number
of requests, signing keys, provider keys, secrets and faults.

- `OneLoader`: at most one request is inside the `sync.Once`, and none is judged
  before it has left; with it `VerdictStands` is inductive.
- `Holds`: what a handler has in hand at each of its statements.
- `StatusFits`: a status about to be written, late statements included, fits the
  key it was asked for; and while `raced` is false every test under way holds the
  key of the row. The ghost `raced` makes the exception exact.

**Only model-checked.** The liveness properties (`RunningSettles`,
`RetriesSuffice`, `Terminates`, `Answered`, `Ends`, and the liveness half of
`ImplementsGather`): TLAPS proves no liveness under fairness and nothing about
ENABLED. Every invariant and every action property of the runs is a theorem.
No module uses a RECURSIVE operator.

## Not modelled

- The pool of 20 connections: no code path holds one while it waits for another,
  so a pool that is used up only delays statements, or fails one, which is a fault
  of the models. CORS, routing, `/health`: one request, one answer, no state.
- The cipher, signatures and tokens: a ciphertext opens with the secret that sealed
  it, a token verifies with the key that signed it, and with nothing else.
- `List` of the vault, `Catalog`, `FindOne` and `FindAll` of campaigns: single reads.
- The fields that adapters copy into a lead, the layout of the CSV, log texts. That
  remoteok cuts a description at 300 bytes, possibly inside a character, is listed
  as a hazard; in the models it is a COPY that fails in every attempt.
- An OFFSET that overflows for a huge `page`; what each adapter's `TestKey` counts as
  accepted (`Accepted` is a constant).

## Plan

Done: the modules above with their runs, and a proof of every invariant and action
property that they check. Left:

1. The relation of `LeadTables` to `CampaignPipeline` as a refinement: today it is
   argued in the text only.
2. A catalogue that moves under a search: `ProviderSearch` assumes that it does not.
