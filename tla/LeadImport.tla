----------------------------- MODULE LeadImport -----------------------------
(***************************************************************************)
(* The import of discovered leads into the CRM (internal/leads/service.go, *)
(* ImportToCRM and BulkImport). One import is four statements and no       *)
(* transaction: read the lead, insert a CRM lead, mark the discovered lead *)
(* with its id, count it at the campaign. The errors of the last two are   *)
(* dropped. importOne is a list of one id.                                 *)
(***************************************************************************)
EXTENDS LeadTables, Sequences

CONSTANT Bodies  \* the lists of ids that a request may bring; ids may repeat

ASSUME ImportAssumption == Bodies \subseteq Seq(Leads) \ {<<>>}

VARIABLE request  \* each import request

importVars == <<tableVars, request>>

\* "at" is the place in the list of the id being imported; "ok" the ids that
\* the loop counted as succeeded; "cut" says that the context of the request
\* has ended: its client is gone, or its process.
RequestRecord == [pc   : {"new", "read", "insert", "mark", "count", "done"},
                  body : Seq(Leads),
                  at   : Nat,
                  ok   : SUBSET Leads,
                  cut  : BOOLEAN]

ImportTypeOK ==
  /\ TablesTypeOK
  /\ request \in [Imports -> RequestRecord]
  /\ \A r \in Imports : request[r].pc # "new" => request[r].at \in DOMAIN request[r].body

ImportInit ==
  /\ TablesInit
  /\ request = [r \in Imports |-> [pc |-> "new", body |-> <<>>, at |-> 0,
                                   ok |-> {}, cut |-> FALSE]]

Current(r) == request[r].body[request[r].at]
NewCopy(r) == [id |-> <<r, request[r].at>>, lead |-> Current(r)]

\* A statement succeeds, fails before it took effect, or fails after.
Outcomes == {"ok", "refused", "unknown"}
Applied(o) == o \in {"ok", "unknown"}
Outcome(o) == IF o = "ok" THEN UNCHANGED faults ELSE Fault

Goto(r, pc) == request' = [request EXCEPT ![r].pc = pc]

\* Mutant of NextId: one id too many.
NextIdPastEnd(r, ok) ==
  request' = [request EXCEPT
                ![r].pc = IF request[r].at <= Len(request[r].body) THEN "read" ELSE "done",
                ![r].at = @ + 1]

\* On to the next id of the list; "ok" says whether this one succeeded.
NextId(r, ok) ==
  request' = [request EXCEPT
                ![r].ok = IF ok THEN @ \cup {Current(r)} ELSE @,
                ![r].pc = IF request[r].at < Len(request[r].body) THEN "read" ELSE "done",
                ![r].at = IF request[r].at < Len(request[r].body) THEN @ + 1 ELSE @]

-----------------------------------------------------------------------------

\* The handler. An empty list is refused with 400.
Begin(r, body) ==
  /\ request[r].pc = "new"
  /\ request' = [request EXCEPT ![r].pc = "read", ![r].body = body, ![r].at = 1]
  /\ UNCHANGED tableVars

\* Mutants of Read: a lead that is already imported is imported again; is counted
\* again; an error of the SELECT counts as success.
ReadUnchecked(r) ==
  /\ request[r].pc = "read" /\ ~request[r].cut
  /\ \/ Current(r) \in stored /\ Goto(r, "insert") /\ UNCHANGED faults
     \/ Current(r) \notin stored /\ NextId(r, FALSE) /\ UNCHANGED faults
  /\ UNCHANGED <<campaign, stored, mark, crm, job>>
ReadCounting(r) ==
  /\ request[r].pc = "read" /\ ~request[r].cut
  /\ \/ Current(r) \in stored /\ mark[Current(r)] = None /\ Goto(r, "insert")
     \/ Current(r) \in stored /\ mark[Current(r)] # None /\ Goto(r, "count")
     \/ Current(r) \notin stored /\ NextId(r, FALSE)
  /\ UNCHANGED tableVars
ReadForgiving(r) ==
  /\ request[r].pc = "read" /\ ~request[r].cut
  /\ \/ Current(r) \in stored /\ mark[Current(r)] = None /\ Goto(r, "insert")
     \/ ~(Current(r) \in stored /\ mark[Current(r)] = None) /\ NextId(r, TRUE)
  /\ UNCHANGED tableVars

\* The SELECT. A lead that is gone is an error, as is a SELECT that failed; one
\* that is marked is answered with its mark.
Read(r) ==
  /\ request[r].pc = "read" /\ ~request[r].cut
  /\ \/ Current(r) \in stored /\ mark[Current(r)] = None /\ Goto(r, "insert") /\ UNCHANGED faults
     \/ Current(r) \in stored /\ mark[Current(r)] # None /\ NextId(r, TRUE) /\ UNCHANGED faults
     \/ Current(r) \notin stored /\ NextId(r, FALSE) /\ UNCHANGED faults
     \/ Current(r) \in stored /\ NextId(r, FALSE) /\ Fault
  /\ UNCHANGED <<campaign, stored, mark, crm, job>>

\* Mutant of Insert: its error is dropped like those of the updates.
InsertUnchecked(r, o) ==
  /\ request[r].pc = "insert" /\ ~request[r].cut
  /\ Outcome(o)
  /\ crm' = IF Applied(o) THEN crm \cup {NewCopy(r)} ELSE crm
  /\ Goto(r, "mark")
  /\ UNCHANGED <<campaign, stored, mark, job>>

\* INSERT INTO leads ... RETURNING id. It looks at nothing but the row it read.
Insert(r, o) ==
  /\ request[r].pc = "insert" /\ ~request[r].cut
  /\ Outcome(o)
  /\ crm' = IF Applied(o) THEN crm \cup {NewCopy(r)} ELSE crm
  /\ IF o = "ok" THEN Goto(r, "mark") ELSE NextId(r, FALSE)
  /\ UNCHANGED <<campaign, stored, mark, job>>

\* UPDATE discovered_leads by id, whatever mark is there, if the row still is.
Marked(r) ==
  IF Current(r) \in stored THEN [mark EXCEPT ![Current(r)] = NewCopy(r).id] ELSE mark

Mark(r, o) ==
  /\ request[r].pc = "mark" /\ ~request[r].cut
  /\ Outcome(o)
  /\ mark' = IF Applied(o) THEN Marked(r) ELSE mark
  /\ Goto(r, "count")
  /\ UNCHANGED <<campaign, stored, crm, job>>

\* "totalImported" + 1, if the campaign is still there.
Counted(r) ==
  IF Exists(CampaignOf[Current(r)])
  THEN [campaign EXCEPT ![CampaignOf[Current(r)]].imported = @ + 1]
  ELSE campaign

Count(r, o) ==
  /\ request[r].pc = "count" /\ ~request[r].cut
  /\ Outcome(o)
  /\ campaign' = IF Applied(o) THEN Counted(r) ELSE campaign
  /\ NextId(r, TRUE)
  /\ UNCHANGED <<stored, mark, crm, job>>

\* The context ends: every later statement of the request fails unsent, for all
\* the ids that are left.
Cut(r) ==
  /\ request[r].pc \notin {"new", "done"} /\ ~request[r].cut
  /\ Fault
  /\ request' = [request EXCEPT ![r].cut = TRUE]
  /\ UNCHANGED <<campaign, stored, mark, crm, job>>

\* The statement that was on its way is executed after all, however late, or not.
Adrift(r) ==
  /\ request[r].cut /\ request[r].pc \notin {"new", "done"}
  /\ \/ UNCHANGED <<campaign, mark, crm>>
     \/ request[r].pc = "insert" /\ crm' = crm \cup {NewCopy(r)} /\ UNCHANGED <<campaign, mark>>
     \/ request[r].pc = "mark" /\ mark' = Marked(r) /\ UNCHANGED <<campaign, crm>>
     \/ request[r].pc = "count" /\ campaign' = Counted(r) /\ UNCHANGED <<mark, crm>>
  /\ Goto(r, "done")
  /\ UNCHANGED <<stored, job, faults>>

ImportStep(r) ==
  \/ \E body \in Bodies : Begin(r, body)
  \/ Read(r)
  \/ \E o \in Outcomes : Insert(r, o) \/ Mark(r, o) \/ Count(r, o)
  \/ Cut(r)
  \/ Adrift(r)

ImportNext ==
  \/ \E r \in Imports : ImportStep(r)
  \/ OthersNext /\ UNCHANGED request

ImportSpec == ImportInit /\ [][ImportNext]_importVars

-----------------------------------------------------------------------------
(* Properties *)

Copies(l) == {x \in crm : x.lead = l}

\* A mark leads to a CRM lead that was made from this very row, so that
\* "alreadyImported" answers with a lead that was created (service.go:134-135):
\* under any overlap of imports, failures and deletions.
MarkNamesItsCopy ==
  \A l \in Leads : mark[l] # None => [id |-> mark[l], lead |-> l] \in crm

\* No import of l has read it unmarked and not yet inserted.
Drained(l) == \A r \in Imports : request[r].pc = "insert" => Current(r) # l

\* An import happens at most once from the moment on when the lead is marked and
\* no import that read it before is left: duplicates need an overlap or a lost
\* mark (service.go:134, :181-184).
SealedStaysSealed ==
  [][\A l \in Leads :
       mark[l] # None /\ Drained(l)
         => /\ mark'[l] # None /\ Drained(l)'
            /\ Copies(l)' = Copies(l)]_importVars

\* What the API reports as imported is in the CRM (service.go:196-198), whether
\* this request or an earlier one has put it there.
ImportedIsInCRM ==
  \A r \in Imports : \A l \in request[r].ok : Copies(l) # {}

\* The CRM leads made from leads of c, and the imports between their INSERT and
\* their count.
CopiesOf(c)  == {x \in crm : CampaignOf[x.lead] = c}
Uncounted(c) == {r \in Imports : /\ request[r].pc \in {"mark", "count"}
                                 /\ CampaignOf[Current(r)] = c}

\* "totalImported" counts CRM leads, each once: it never runs ahead of them, and
\* lags by the imports in progress and by one for each fault (service.go:185-188).
CounterCountsCopies ==
  \A c \in Campaigns : Exists(c) =>
    LET sure == campaign[c].imported + Cardinality(Uncounted(c)) IN
    /\ sure <= Cardinality(CopiesOf(c))
    /\ Cardinality(CopiesOf(c)) <= sure + faults
=============================================================================
