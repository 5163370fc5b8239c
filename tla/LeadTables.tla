----------------------------- MODULE LeadTables -----------------------------
(***************************************************************************)
(* The tables that the discovered-leads endpoints share with the rest of   *)
(* the service, and who else writes them: the job of a campaign, which     *)
(* copies leads and then reports (CampaignPipeline has its retries, late   *)
(* statements and crashes), a refetch, and the deletion of a campaign.     *)
(*                                                                         *)
(* The columns that a job writes never change afterwards, so a lead is a   *)
(* model value and its campaign and intentScore are constants.             *)
(***************************************************************************)
EXTENDS Integers, FiniteSets

CONSTANTS
  Leads,       \* the rows that jobs may ever store in discovered_leads
  Campaigns,
  CampaignOf,  \* the campaign of each lead
  Imports,     \* the import requests of a behaviour
  Cascade,     \* the schema is elsewhere: does deleting a campaign delete its leads?
  MaxFaults,   \* bound: faults in one behaviour
  None         \* SQL NULL

ASSUME TablesAssumption ==
  /\ IsFiniteSet(Leads) /\ IsFiniteSet(Imports)
  /\ CampaignOf \in [Leads -> Campaigns]
  /\ Cascade \in BOOLEAN /\ MaxFaults \in Nat
  /\ None \notin Imports \X Nat

VARIABLES
  campaign,  \* lead_campaigns
  stored,    \* discovered_leads: the rows that are there
  mark,      \* their "importedAsLeadId"
  crm,       \* the rows that the imports inserted into leads
  job,       \* each campaign's job: how many leads it stored and has to report
  faults     \* faults so far

tableVars == <<campaign, stored, mark, crm, job, faults>>

\* The ids of the rows of leads. Every id of a request's list is imported once,
\* so the request and the place in its list name the row that it creates.
CrmId == Imports \X Nat

Copy == [id : CrmId, lead : Leads]

CampaignRow == [status : {"RUNNING", "DONE", "FAILED", "DELETED"}, found : Nat, imported : Nat]

TablesTypeOK ==
  /\ campaign \in [Campaigns -> CampaignRow]
  /\ stored \subseteq Leads
  /\ mark \in [Leads -> CrmId \cup {None}]
  /\ crm \subseteq Copy
  /\ job \in [Campaigns -> Nat \cup {None}]
  /\ faults \in Nat

TablesInit ==
  /\ campaign = [c \in Campaigns |-> [status |-> "RUNNING", found |-> 0, imported |-> 0]]
  /\ stored = {}
  /\ mark = [l \in Leads |-> None]
  /\ crm = {}
  /\ job = [c \in Campaigns |-> None]
  /\ faults = 0

Exists(c) == campaign[c].status # "DELETED"

LeadsOf(c) == {l \in Leads : CampaignOf[l] = c}

Fault == faults < MaxFaults /\ faults' = faults + 1

-----------------------------------------------------------------------------

\* bulkInsert: one COPY, all rows or none. It happens at any time: attempts that
\* are retried, timed out, or overlap with a second job of the campaign store
\* their leads again, under new ids. Without a foreign key it leaves orphans.
Store(c, new) ==
  /\ job[c] = None
  /\ Exists(c) \/ ~Cascade
  /\ new \subseteq LeadsOf(c) \ stored
  /\ stored' = stored \cup new
  /\ job' = [job EXCEPT ![c] = Cardinality(new)]
  /\ UNCHANGED <<campaign, mark, crm, faults>>

WithStatus(c, status, found) ==
  IF Exists(c) THEN [campaign EXCEPT ![c].status = status, ![c].found = found] ELSE campaign

\* The COPY failed: FAILED with 0 leads, whatever earlier jobs stored.
StoreFails(c) ==
  /\ job[c] = None /\ Fault
  /\ campaign' = WithStatus(c, "FAILED", 0)
  /\ UNCHANGED <<stored, mark, crm, job>>

\* updateStatus(DONE, number of leads), or its failure.
Report(c, ok) ==
  /\ job[c] # None
  /\ IF ok THEN UNCHANGED faults ELSE Fault
  /\ campaign' = IF ok THEN WithStatus(c, "DONE", job[c]) ELSE campaign
  /\ job' = [job EXCEPT ![c] = None]
  /\ UNCHANGED <<stored, mark, crm>>

\* Service.Refetch: "totalFound" and "totalImported" stay as they are. (That it
\* reads the status in a statement of its own changes no row here.)
Refetch(c) ==
  /\ campaign[c].status \in {"DONE", "FAILED"}
  /\ campaign' = [campaign EXCEPT ![c].status = "RUNNING"]
  /\ UNCHANGED <<stored, mark, crm, job, faults>>

\* Service.Delete. The rows of leads belong to the CRM and stay.
Delete(c) ==
  /\ Exists(c)
  /\ campaign' = [campaign EXCEPT ![c] = [status |-> "DELETED", found |-> 0, imported |-> 0]]
  /\ stored' = IF Cascade THEN stored \ LeadsOf(c) ELSE stored
  /\ UNCHANGED <<mark, crm, job, faults>>

OthersNext ==
  \E c \in Campaigns :
    \/ \E new \in SUBSET LeadsOf(c) : Store(c, new)
    \/ StoreFails(c)
    \/ \E ok \in BOOLEAN : Report(c, ok)
    \/ Refetch(c)
    \/ Delete(c)
=============================================================================
