-------------------------- MODULE CampaignContract --------------------------
(***************************************************************************)
(* What the service promises of a campaign, without handlers, Redis,       *)
(* goroutines, deadlines or processes: a request that starts a campaign    *)
(* gives it a job, the job writes a status and stops only after that or    *)
(* because it was lost, and a status counts only leads that are stored.    *)
(*                                                                         *)
(* It forbids little that happens in time: a job may write a status and be *)
(* run again, and its statements may be executed after it is over.         *)
(***************************************************************************)
EXTENDS Naturals

CONSTANTS
  Campaigns,
  Requests,  \* each gives one campaign one job
  None

VARIABLES
  row,    \* the status and "totalFound" of each campaign
  sizes,  \* the numbers of leads that one COPY stored for each campaign
  of,     \* the campaign that each request is about
  job     \* the job that it gave it

contractVars == <<row, sizes, of, job>>

\* "open": it will write a status; "written": it has, and may be run again.
States == {"none", "refused", "open", "written", "over", "lost"}

ContractInit ==
  /\ row = [c \in Campaigns |-> [status |-> "ABSENT", found |-> 0]]
  /\ sizes = [c \in Campaigns |-> {}]
  /\ of = [r \in Requests |-> None]
  /\ job = [r \in Requests |-> "none"]

Live(c) == row[c].status \notin {"ABSENT", "DELETED"}
HasJob(c) == \E r \in Requests : of[r] = c /\ job[r] \notin {"none", "refused"}

\* A request looks at a campaign that is not running before it gives it a job.
Choose(r, c) ==
  /\ job[r] = "none" /\ of[r] = None /\ row[c].status \in {"DONE", "FAILED"}
  /\ of' = [of EXCEPT ![r] = c]
  /\ UNCHANGED <<row, sizes, job>>

\* A campaign is created with its job, or one that was there gets another job,
\* unless it is deleted by then. The job may be lost at once.
Begin(r, c) ==
  /\ job[r] = "none" /\ of[r] \in {None, c}
  /\ of[r] = None => row[c].status = "ABSENT"
  /\ of' = [of EXCEPT ![r] = c]
  /\ \E state \in {"open", "lost"} : job' = [job EXCEPT ![r] = state]
  /\ row' = [row EXCEPT ![c].status = IF @ = "DELETED" THEN @ ELSE "RUNNING"]
  /\ UNCHANGED sizes

\* What may become of a job by itself: it is over only if it has written a status.
After(state) ==
  CASE state = "none"    -> {"none", "refused"}
    [] state = "open"    -> {"open", "lost"}
    [] state = "written" -> {"written", "open", "over"}
    [] OTHER             -> {state}

\* Several at once, if a process dies.
Proceed ==
  /\ job' \in [Requests -> States]
  /\ \A r \in Requests : job'[r] \in After(job[r])
  /\ UNCHANGED <<row, sizes, of>>

Store(c) ==
  /\ HasJob(c)
  /\ \E n \in sizes'[c] : sizes' = [sizes EXCEPT ![c] = @ \cup {n}]
  /\ UNCHANGED <<row, of, job>>

\* A status is written: by an open job, or by a statement that an earlier run of
\* some job left behind.
Report(c) ==
  /\ HasJob(c)
  /\ \E status \in {"DONE", "FAILED"}, found \in sizes[c] \cup {0} :
       /\ status = "FAILED" => found = 0
       /\ row' = IF Live(c) THEN [row EXCEPT ![c] = [status |-> status, found |-> found]]
                 ELSE row
  /\ \/ UNCHANGED job
     \/ \E r \in Requests : /\ of[r] = c /\ job[r] = "open"
                            /\ job' = [job EXCEPT ![r] = "written"]
  /\ UNCHANGED <<sizes, of>>

Delete(c) ==
  /\ Live(c)
  /\ row' = [row EXCEPT ![c] = [status |-> "DELETED", found |-> 0]]
  /\ \E left \in {sizes[c], {}} : sizes' = [sizes EXCEPT ![c] = left]
  /\ UNCHANGED <<of, job>>

ContractNext ==
  \/ \E c \in Campaigns :
       (\E r \in Requests : Choose(r, c) \/ Begin(r, c)) \/ Store(c) \/ Report(c) \/ Delete(c)
  \/ Proceed

ContractSpec == ContractInit /\ [][ContractNext]_contractVars
=============================================================================
