-------------------------- MODULE LeadImportProofs --------------------------
(***************************************************************************)
(* The imports of LeadImport, proved for every set of leads, campaigns and *)
(* requests, for lists of any length and any number of faults.             *)
(***************************************************************************)
EXTENDS LeadImport, FiniteSetTheorems, TLAPS

-----------------------------------------------------------------------------
(* How a request moves *)

\* Every place of a list names a lead, so that an import under way has one.
LEMMA CurrentLead ==
  ASSUME ImportTypeOK, NEW r \in Imports, request[r].pc # "new"
  PROVE  /\ request[r] \in RequestRecord
         /\ request[r].at \in Nat /\ request[r].at >= 1
         /\ request[r].at <= Len(request[r].body)
         /\ Len(request[r].body) \in Nat
         /\ Current(r) \in Leads
         /\ CampaignOf[Current(r)] \in Campaigns
         /\ NewCopy(r) \in Copy /\ NewCopy(r).id \in CrmId
<1>1. /\ request[r] \in RequestRecord
      /\ request[r].at \in DOMAIN request[r].body
  BY DEF ImportTypeOK
<1>2. /\ request[r].body \in Seq(Leads) /\ request[r].at \in Nat
  BY <1>1 DEF RequestRecord
<1>3. /\ request[r].at >= 1 /\ request[r].at <= Len(request[r].body)
      /\ Len(request[r].body) \in Nat
      /\ request[r].body[request[r].at] \in Leads
  BY <1>1, <1>2
<1> QED
  BY <1>1, <1>2, <1>3, TablesAssumption DEF Current, NewCopy, Copy, CrmId

LEMMA GotoRequests ==
  ASSUME ImportTypeOK, NEW r \in Imports, request[r].pc # "new",
         NEW pc \in {"insert", "mark", "count", "done"}, Goto(r, pc)
  PROVE  /\ request'[r] = [request[r] EXCEPT !.pc = pc]
         /\ request'[r].pc = pc /\ request'[r].body = request[r].body
         /\ request'[r].at = request[r].at /\ request'[r].ok = request[r].ok
         /\ request'[r].cut = request[r].cut
         /\ \A q \in Imports \ {r} : request'[q] = request[q]
         /\ request' \in [Imports -> RequestRecord]
         /\ \A q \in Imports : request'[q].pc # "new" => request'[q].at \in DOMAIN request'[q].body
<1>1. request \in [Imports -> RequestRecord] /\ request[r] \in RequestRecord
  BY DEF ImportTypeOK
<1>2. /\ request' = [request EXCEPT ![r] = [request[r] EXCEPT !.pc = pc]]
  BY DEF Goto
<1>3. [request[r] EXCEPT !.pc = pc] \in RequestRecord
  BY <1>1 DEF RequestRecord
<1> QED
  BY <1>1, <1>2, <1>3 DEF ImportTypeOK, RequestRecord

\* The next id, if there is one, is at the next place of the list.
LEMMA NextIdRequests ==
  ASSUME ImportTypeOK, NEW r \in Imports, request[r].pc # "new",
         NEW ok \in BOOLEAN, NextId(r, ok)
  PROVE  /\ request'[r].pc \in {"read", "done"}
         /\ request'[r].body = request[r].body
         /\ request'[r].cut = request[r].cut
         /\ request'[r].ok = IF ok THEN request[r].ok \cup {Current(r)} ELSE request[r].ok
         /\ \/ request'[r].at = request[r].at + 1
            \/ request'[r].at = request[r].at /\ request'[r].pc = "done"
         /\ \A q \in Imports \ {r} : request'[q] = request[q]
         /\ request' \in [Imports -> RequestRecord]
         /\ \A q \in Imports : request'[q].pc # "new" => request'[q].at \in DOMAIN request'[q].body
<1> DEFINE more == request[r].at < Len(request[r].body)
           okNow == IF ok THEN request[r].ok \cup {Current(r)} ELSE request[r].ok
           pcNow == IF more THEN "read" ELSE "done"
           atNow == IF more THEN request[r].at + 1 ELSE request[r].at
           next == [request[r] EXCEPT !.ok = okNow, !.pc = pcNow, !.at = atNow]
<1>1. request \in [Imports -> RequestRecord] /\ request[r] \in RequestRecord
  BY DEF ImportTypeOK
<1>2. request' = [request EXCEPT ![r] = next]
  BY <1>1 DEF NextId, RequestRecord
<1>3. /\ okNow \in SUBSET Leads /\ pcNow \in {"read", "done"} /\ atNow \in Nat
      /\ atNow \in DOMAIN request[r].body
  BY <1>1, CurrentLead DEF RequestRecord
<1> HIDE DEF okNow, pcNow, atNow
<1>4. /\ next.pc = pcNow /\ next.ok = okNow /\ next.at = atNow
      /\ next.body = request[r].body /\ next.cut = request[r].cut
  BY <1>1 DEF RequestRecord
<1>5. next \in RequestRecord
  BY <1>1, <1>3 DEF RequestRecord
<1>6. request'[r] = next /\ \A q \in Imports \ {r} : request'[q] = request[q]
  BY <1>1, <1>2
<1>7. atNow = request[r].at + 1 \/ (atNow = request[r].at /\ pcNow = "done")
  BY DEF atNow, pcNow
<1>8. /\ request' \in [Imports -> RequestRecord]
      /\ \A q \in Imports : request'[q].pc # "new" => request'[q].at \in DOMAIN request'[q].body
  <2> HIDE DEF next
  <2> QED
    BY <1>1, <1>2, <1>3, <1>4, <1>5, <1>6 DEF ImportTypeOK
<1> QED
  BY <1>3, <1>4, <1>6, <1>7, <1>8 DEF okNow

-----------------------------------------------------------------------------
(* Type correctness *)

LEMMA TypedInit == ImportInit => ImportTypeOK
  BY TablesAssumption
  DEF ImportInit, TablesInit, ImportTypeOK, TablesTypeOK, CampaignRow, RequestRecord

\* The rows of one campaign that its job, a refetch or a delete changes.
LEMMA OthersTyped ==
  ASSUME TablesTypeOK, OthersNext
  PROVE  TablesTypeOK'
<1> USE TablesAssumption
<1>1. PICK c \in Campaigns :
        \/ \E new \in SUBSET LeadsOf(c) : Store(c, new)
        \/ StoreFails(c)
        \/ \E ok \in BOOLEAN : Report(c, ok)
        \/ Refetch(c)
        \/ Delete(c)
  BY DEF OthersNext
<1>2. /\ campaign \in [Campaigns -> CampaignRow] /\ campaign[c] \in CampaignRow
      /\ job \in [Campaigns -> Nat \cup {None}] /\ faults \in Nat
  BY DEF TablesTypeOK
<1>3. ASSUME NEW new \in SUBSET LeadsOf(c), Store(c, new)
      PROVE  TablesTypeOK'
  <2>1. Cardinality(new) \in Nat
    BY FS_Subset, FS_CardinalityType DEF LeadsOf
  <2> QED
    BY <1>2, <1>3, <2>1 DEF TablesTypeOK, Store, LeadsOf
<1>4. ASSUME NEW status \in {"RUNNING", "DONE", "FAILED"}, NEW found \in Nat
      PROVE  /\ [campaign EXCEPT ![c].status = status] \in [Campaigns -> CampaignRow]
             /\ WithStatus(c, status, found) \in [Campaigns -> CampaignRow]
  BY <1>2 DEF WithStatus, CampaignRow
<1>5. CASE StoreFails(c)
  <2>1. campaign' \in [Campaigns -> CampaignRow]
    BY <1>4, <1>5 DEF StoreFails
  <2> QED
    BY <1>2, <1>5, <2>1 DEF StoreFails, Fault, TablesTypeOK
<1>6. ASSUME NEW ok \in BOOLEAN, Report(c, ok)
      PROVE  TablesTypeOK'
  <2>1. job[c] \in Nat
    BY <1>2, <1>6 DEF Report
  <2>2. campaign' \in [Campaigns -> CampaignRow]
    BY <1>2, <1>4, <1>6, <2>1 DEF Report
  <2>3. job' \in [Campaigns -> Nat \cup {None}] /\ faults' \in Nat
    BY <1>2, <1>6 DEF Report, Fault
  <2> QED
    BY <1>6, <2>2, <2>3 DEF Report, TablesTypeOK
<1>7. CASE Refetch(c)
  BY <1>4, <1>7 DEF Refetch, TablesTypeOK
<1>8. CASE Delete(c)
  BY <1>2, <1>8 DEF Delete, TablesTypeOK, CampaignRow
<1> QED
  BY <1>1, <1>3, <1>5, <1>6, <1>7, <1>8

\* What the statements of an import write.
LEMMA WritesTyped ==
  ASSUME ImportTypeOK, NEW r \in Imports, request[r].pc # "new"
  PROVE  /\ crm \cup {NewCopy(r)} \subseteq Copy
         /\ Marked(r) \in [Leads -> CrmId \cup {None}]
         /\ Counted(r) \in [Campaigns -> CampaignRow]
<1>1. /\ mark \in [Leads -> CrmId \cup {None}] /\ crm \subseteq Copy
      /\ campaign \in [Campaigns -> CampaignRow]
  BY DEF ImportTypeOK, TablesTypeOK
<1>2. Counted(r) \in [Campaigns -> CampaignRow]
  <2> DEFINE c == CampaignOf[Current(r)]
  <2>1. c \in Campaigns /\ campaign[c] \in CampaignRow
    BY <1>1, CurrentLead
  <2>2. [campaign[c] EXCEPT !.imported = campaign[c].imported + 1] \in CampaignRow
    BY <2>1 DEF CampaignRow
  <2>3. Counted(r) = IF Exists(c)
                     THEN [campaign EXCEPT ![c] = [campaign[c] EXCEPT !.imported = campaign[c].imported + 1]]
                     ELSE campaign
    BY DEF Counted
  <2> HIDE DEF c
  <2> QED
    BY <1>1, <2>1, <2>2, <2>3
<1> QED
  BY <1>1, <1>2, CurrentLead DEF Marked

LEMMA StepTyped ==
  ASSUME ImportTypeOK, NEW r \in Imports, ImportStep(r)
  PROVE  ImportTypeOK'
<1> USE TablesAssumption, ImportAssumption
<1>1. TablesTypeOK /\ faults \in Nat
  BY DEF ImportTypeOK, TablesTypeOK
<1>2. ASSUME NEW body \in Bodies, Begin(r, body)
      PROVE  ImportTypeOK'
  <2>1. request[r] \in RequestRecord /\ body \in Seq(Leads) /\ 1 \in DOMAIN body
    <3>1. body \in Seq(Leads) /\ body # <<>>
      OBVIOUS
    <3> QED
      BY <3>1 DEF ImportTypeOK
  <2> DEFINE next == [request[r] EXCEPT !.pc = "read", !.body = body, !.at = 1]
  <2>2. request' = [request EXCEPT ![r] = next]
    BY <1>2 DEF Begin
  <2>3. next \in RequestRecord /\ next.body = body /\ next.at = 1
    BY <2>1 DEF RequestRecord
  <2>4. TablesTypeOK'
    BY <1>1, <1>2 DEF Begin, tableVars, TablesTypeOK
  <2> HIDE DEF next
  <2> QED
    BY <2>1, <2>2, <2>3, <2>4 DEF ImportTypeOK
<1>3. CASE Read(r)
  <2>1. request[r].pc # "new"
    BY <1>3 DEF Read
  <2>2. Goto(r, "insert") \/ \E ok \in BOOLEAN : NextId(r, ok)
    BY <1>3 DEF Read
  <2>3. faults' = faults \/ faults' = faults + 1
    BY <1>3, Zenon DEF Read, Fault
  <2>4. TablesTypeOK'
    BY <1>1, <1>3, <2>3 DEF Read, TablesTypeOK
  <2> QED
    BY <2>1, <2>2, <2>4, GotoRequests, NextIdRequests DEF ImportTypeOK
<1>4. ASSUME NEW o \in Outcomes, Insert(r, o)
      PROVE  ImportTypeOK'
  <2>1. request[r].pc # "new"
    BY <1>4 DEF Insert
  <2>2. Goto(r, "mark") \/ NextId(r, FALSE)
    BY <1>4 DEF Insert
  <2>3. TablesTypeOK'
    BY <1>1, <1>4, <2>1, WritesTyped DEF Insert, Outcome, Fault, TablesTypeOK
  <2> QED
    BY <2>1, <2>2, <2>3, GotoRequests, NextIdRequests DEF ImportTypeOK
<1>5. ASSUME NEW o \in Outcomes, Mark(r, o)
      PROVE  ImportTypeOK'
  <2>1. request[r].pc # "new" /\ Goto(r, "count")
    BY <1>5 DEF Mark
  <2>2. TablesTypeOK'
    BY <1>1, <1>5, <2>1, WritesTyped DEF Mark, Outcome, Fault, TablesTypeOK
  <2> QED
    BY <2>1, <2>2, GotoRequests DEF ImportTypeOK
<1>6. ASSUME NEW o \in Outcomes, Count(r, o)
      PROVE  ImportTypeOK'
  <2>1. request[r].pc # "new" /\ NextId(r, TRUE)
    BY <1>6 DEF Count
  <2>2. TablesTypeOK'
    BY <1>1, <1>6, <2>1, WritesTyped DEF Count, Outcome, Fault, TablesTypeOK
  <2> QED
    BY <2>1, <2>2, NextIdRequests DEF ImportTypeOK
<1>7. CASE Cut(r)
  <2>1. request' = [request EXCEPT ![r] = [request[r] EXCEPT !.cut = TRUE]]
    BY <1>7 DEF Cut
  <2>2. request[r] \in RequestRecord
    BY DEF ImportTypeOK
  <2>3. TablesTypeOK'
    BY <1>1, <1>7 DEF Cut, Fault, TablesTypeOK
  <2> QED
    BY <2>1, <2>2, <2>3 DEF ImportTypeOK, RequestRecord
<1>8. CASE Adrift(r)
  <2>1. request[r].pc # "new" /\ Goto(r, "done")
    BY <1>8 DEF Adrift
  <2>2. TablesTypeOK'
    BY <1>1, <1>8, <2>1, WritesTyped DEF Adrift, TablesTypeOK
  <2> QED
    BY <2>1, <2>2, GotoRequests DEF ImportTypeOK
<1> QED
  BY <1>2, <1>3, <1>4, <1>5, <1>6, <1>7, <1>8 DEF ImportStep

LEMMA TypedStep == ImportTypeOK /\ [ImportNext]_importVars => ImportTypeOK'
<1> SUFFICES ASSUME ImportTypeOK, [ImportNext]_importVars PROVE ImportTypeOK'
  OBVIOUS
<1>1. CASE \E r \in Imports : ImportStep(r)
  BY <1>1, StepTyped
<1>2. CASE OthersNext /\ UNCHANGED request
  BY <1>2, OthersTyped DEF ImportTypeOK
<1>3. CASE UNCHANGED importVars
  BY <1>3 DEF importVars, tableVars, ImportTypeOK, TablesTypeOK
<1> QED
  BY <1>1, <1>2, <1>3 DEF ImportNext

\* Rows, marks, CRM leads and requests are what the tables and the handlers hold:
\* every place in a list names a lead, every mark is the id of an import.
THEOREM TypeCorrect == ImportSpec => []ImportTypeOK
  BY TypedInit, TypedStep, PTL DEF ImportSpec

-----------------------------------------------------------------------------
(* Marks and answers *)

\* Between its INSERT and its count, an import has its CRM lead.
Inserted ==
  \A r \in Imports : request[r].pc \in {"mark", "count"} => NewCopy(r) \in crm

Answered == MarkNamesItsCopy /\ Inserted /\ ImportedIsInCRM

\* What a step of an import may do to the CRM, the marks, and its own record.
LEMMA StepEffect ==
  ASSUME ImportTypeOK, NEW r \in Imports, ImportStep(r)
  PROVE  /\ \A q \in Imports \ {r} : request'[q] = request[q]
         /\ \/ crm' = crm
            \/ request[r].pc = "insert" /\ crm' = crm \cup {NewCopy(r)}
         /\ \/ mark' = mark
            \/ request[r].pc = "mark" /\ mark' = Marked(r)
         /\ \/ request'[r].pc \in {"mark", "count"}
               /\ request'[r].at = request[r].at /\ request'[r].body = request[r].body
               /\ \/ request[r].pc \in {"mark", "count"}
                  \/ crm' = crm \cup {NewCopy(r)}
            \/ request'[r].pc \notin {"mark", "count"}
         /\ \/ request'[r].ok \subseteq request[r].ok
            \/ /\ request'[r].ok \subseteq request[r].ok \cup {Current(r)}
               /\ \/ mark[Current(r)] # None
                  \/ request[r].pc = "count"
         /\ \/ request'[r].pc # "insert"
            \/ /\ request'[r].at = request[r].at /\ request'[r].body = request[r].body
               /\ request[r].pc = "insert" \/ mark[Current(r)] = None
<1>1. ASSUME NEW body \in Bodies, Begin(r, body)
      PROVE  /\ UNCHANGED <<mark, crm>> /\ request'[r].pc = "read"
             /\ request'[r].ok = request[r].ok
             /\ \A q \in Imports \ {r} : request'[q] = request[q]
  BY <1>1 DEF Begin, tableVars, ImportTypeOK, RequestRecord
<1>2. CASE Read(r)
  BY <1>2, GotoRequests, NextIdRequests DEF Read
<1>3. ASSUME NEW o \in Outcomes, Insert(r, o)
      PROVE  /\ mark' = mark /\ request[r].pc = "insert"
             /\ o = "ok" => Goto(r, "mark") /\ crm' = crm \cup {NewCopy(r)}
             /\ o # "ok" => NextId(r, FALSE) /\ (crm' = crm \/ crm' = crm \cup {NewCopy(r)})
  BY <1>3 DEF Insert, Applied
<1>4. ASSUME NEW o \in Outcomes, Mark(r, o)
      PROVE  /\ crm' = crm /\ request[r].pc = "mark" /\ Goto(r, "count")
             /\ mark' = mark \/ mark' = Marked(r)
  BY <1>4 DEF Mark
<1>5. ASSUME NEW o \in Outcomes, Count(r, o)
      PROVE  UNCHANGED <<mark, crm>> /\ request[r].pc = "count" /\ NextId(r, TRUE)
  BY <1>5 DEF Count
<1>6. CASE Cut(r)
  BY <1>6 DEF Cut, ImportTypeOK, RequestRecord
<1>7. CASE Adrift(r)
  BY <1>7, GotoRequests DEF Adrift
<1> QED
  BY <1>1, <1>2, <1>3, <1>4, <1>5, <1>6, <1>7, GotoRequests, NextIdRequests DEF ImportStep

LEMMA OthersEffect == OthersNext => UNCHANGED <<mark, crm>>
  BY DEF OthersNext, Store, StoreFails, Report, Refetch, Delete

LEMMA AnsweredInit == ImportInit => Answered
  BY DEF ImportInit, TablesInit, Answered, MarkNamesItsCopy, Inserted, ImportedIsInCRM

LEMMA AnsweredStep ==
  ImportTypeOK /\ Answered /\ [ImportNext]_importVars => Answered'
<1> SUFFICES ASSUME ImportTypeOK, Answered, [ImportNext]_importVars PROVE Answered'
  OBVIOUS
<1>1. ASSUME NEW r \in Imports, ImportStep(r)
      PROVE  Answered'
  <2> USE <1>1
  <2>1. crm \subseteq crm'
    BY StepEffect
  <2>2. ASSUME NEW q \in Imports, request'[q].pc \in {"mark", "count"}
        PROVE  NewCopy(q)' \in crm'
    <3>1. CASE q = r
      <4>1. NewCopy(r)' = NewCopy(r)
        BY <2>2, <3>1, StepEffect DEF NewCopy, Current
      <4>2. NewCopy(r) \in crm'
        BY <2>2, <3>1, StepEffect DEF Answered, Inserted
      <4> QED
        BY <3>1, <4>1, <4>2
    <3>2. CASE q # r
      BY <2>1, <2>2, <3>2, StepEffect DEF Answered, Inserted, NewCopy, Current
    <3> QED
      BY <3>1, <3>2
  <2>3. ASSUME NEW l \in Leads, mark'[l] # None
        PROVE  [id |-> mark'[l], lead |-> l] \in crm'
    <3>1. CASE mark'[l] = mark[l]
      BY <2>1, <2>3, <3>1 DEF Answered, MarkNamesItsCopy
    <3>2. CASE mark'[l] # mark[l]
      <4>1. request[r].pc = "mark" /\ mark' = Marked(r)
        BY <3>2, StepEffect
      <4>2. l = Current(r) /\ mark'[l] = NewCopy(r).id
        BY <3>2, <4>1 DEF Marked, ImportTypeOK, TablesTypeOK
      <4>3. NewCopy(r) \in crm
        BY <4>1 DEF Answered, Inserted
      <4>4. [id |-> mark'[l], lead |-> l] = NewCopy(r)
        BY <4>2 DEF NewCopy
      <4> QED
        BY <2>1, <4>3, <4>4
    <3> QED
      BY <3>1, <3>2
  <2>4. ASSUME NEW q \in Imports, NEW l \in request'[q].ok
        PROVE  \E x \in crm' : x.lead = l
    <3>1. CASE l \in request[q].ok
      <4>1. \E x \in crm : x.lead = l
        BY <3>1 DEF Answered, ImportedIsInCRM, Copies
      <4> QED
        BY <2>1, <4>1
    <3>2. CASE l \notin request[q].ok
      <4>1. q = r /\ l = Current(r)
        BY <2>4, <3>2, StepEffect
      <4>2. mark[l] # None \/ request[r].pc = "count"
        BY <2>4, <3>2, <4>1, StepEffect
      <4>3. CASE mark[l] # None
        <5>1. request[r].pc # "new"
          <6>1. CASE request[r].pc = "new"
            <7>1. \E body \in Bodies : Begin(r, body)
              BY <6>1 DEF ImportStep, Read, Insert, Mark, Count, Cut, Adrift
            <7>2. request'[r].ok = request[r].ok
              BY <7>1 DEF Begin, ImportTypeOK, RequestRecord
            <7> QED
              BY <2>4, <3>2, <4>1, <7>2
          <6> QED
            BY <6>1
        <5>2. l \in Leads
          BY <4>1, <5>1, CurrentLead
        <5>3. [id |-> mark[l], lead |-> l] \in crm
          BY <4>3, <5>2 DEF Answered, MarkNamesItsCopy
        <5> QED
          BY <2>1, <5>3
      <4>4. CASE request[r].pc = "count"
        BY <2>1, <4>1, <4>4 DEF Answered, Inserted, NewCopy
      <4> QED
        BY <4>2, <4>3, <4>4
    <3> QED
      BY <3>1, <3>2
  <2> QED
    BY <2>2, <2>3, <2>4 DEF Answered, MarkNamesItsCopy, Inserted, ImportedIsInCRM, Copies
<1>2. CASE UNCHANGED <<mark, crm, request>>
  BY <1>2 DEF Answered, MarkNamesItsCopy, Inserted, ImportedIsInCRM, Copies, NewCopy, Current
<1> QED
  BY <1>1, <1>2, OthersEffect DEF ImportNext, importVars, tableVars

LEMMA AnsweredAlways == ImportSpec => []Answered
  BY TypeCorrect, AnsweredInit, AnsweredStep, PTL DEF ImportSpec

\* The mark of a discovered lead leads to a CRM lead that was made from it, however
\* many imports of it overlap.
THEOREM MarksNameCopies == ImportSpec => []MarkNamesItsCopy
<1>1. Answered => MarkNamesItsCopy
  BY DEF Answered
<1> QED
  BY <1>1, AnsweredAlways, PTL

\* What a request counts as imported is in the CRM.
THEOREM ImportedAreInCRM == ImportSpec => []ImportedIsInCRM
<1>1. Answered => ImportedIsInCRM
  BY DEF Answered
<1> QED
  BY <1>1, AnsweredAlways, PTL

\* A lead that is marked, and that no import has read before, is never imported again.
THEOREM SealedStays == ImportSpec => SealedStaysSealed
<1> DEFINE Stays(l) == mark[l] # None /\ Drained(l)
                         => /\ mark'[l] # None /\ Drained(l)'
                            /\ Copies(l)' = Copies(l)
<1>1. ASSUME ImportTypeOK, [ImportNext]_importVars, NEW l \in Leads
      PROVE  Stays(l)
  <2>1. ASSUME NEW r \in Imports, ImportStep(r), mark[l] # None, Drained(l)
        PROVE  mark'[l] # None /\ Drained(l)' /\ Copies(l)' = Copies(l)
    <3>1. mark'[l] # None
      <4>1. CASE mark' = mark
        BY <1>1, <2>1, <4>1
      <4>2. CASE request[r].pc = "mark" /\ mark' = Marked(r)
        <5>1. NewCopy(r).id # None
          BY <1>1, <4>2, CurrentLead, TablesAssumption DEF CrmId
        <5> QED
          BY <1>1, <2>1, <4>2, <5>1 DEF Marked, ImportTypeOK, TablesTypeOK
      <4> QED
        BY <1>1, <2>1, <4>1, <4>2, StepEffect
    <3>2. ASSUME NEW q \in Imports, request'[q].pc = "insert"
          PROVE  Current(q)' # l
      <4>1. CASE q = r
        <5>1. Current(r)' = Current(r)
          BY <1>1, <2>1, <3>2, <4>1, StepEffect DEF Current
        <5> QED
          BY <1>1, <2>1, <3>2, <4>1, <5>1, StepEffect DEF Drained
      <4>2. CASE q # r
        BY <1>1, <2>1, <3>2, <4>2, StepEffect DEF Drained, Current
      <4> QED
        BY <4>1, <4>2
    <3>3. Copies(l)' = Copies(l)
      <4>1. CASE crm' = crm
        BY <4>1 DEF Copies
      <4>2. CASE request[r].pc = "insert" /\ crm' = crm \cup {NewCopy(r)}
        <5>1. NewCopy(r).lead # l
          BY <1>1, <2>1, <4>2 DEF Drained, NewCopy
        <5> QED
          BY <4>2, <5>1 DEF Copies
      <4> QED
        BY <1>1, <2>1, <4>1, <4>2, StepEffect
    <3> QED
      BY <3>1, <3>2, <3>3 DEF Drained
  <2>2. CASE UNCHANGED <<mark, crm, request>>
    BY <2>2 DEF Drained, Copies, Current
  <2> QED
    BY <1>1, <2>1, <2>2, OthersEffect DEF ImportNext, importVars, tableVars
<1>2. ImportTypeOK /\ [ImportNext]_importVars
        => [\A l \in Leads :
              mark[l] # None /\ Drained(l)
                => /\ mark'[l] # None /\ Drained(l)'
                   /\ Copies(l)' = Copies(l)]_importVars
  BY <1>1
<1> QED
  BY <1>2, TypeCorrect, PTL DEF ImportSpec, SealedStaysSealed

-----------------------------------------------------------------------------
(* The counter *)

\* The ids of a request's CRM leads are the places it has been at, and while it
\* has not inserted at this one, the places before.
Placed ==
  /\ IsFiniteSet(crm)
  /\ \A x \in crm : \A r \in Imports : \A n \in Nat : x.id = <<r, n>> =>
       /\ request[r].pc # "new"
       /\ n <= request[r].at
       /\ request[r].pc \in {"read", "insert"} => n < request[r].at

\* An import whose count may still arrive, one whose count will come unless a
\* fault prevents it, and one whose INSERT may arrive after its fault.
InDebt(r, c)  == /\ request[r].pc \in {"mark", "count"}
                 /\ CampaignOf[Current(r)] = c
Pending(r, c) == InDebt(r, c) /\ ~request[r].cut
Blind(r, c)   == /\ request[r].pc = "insert" /\ request[r].cut
                 /\ CampaignOf[Current(r)] = c

Imported(c) == campaign[c].imported

\* CounterCountsCopies, with the faults that have happened and not yet shown.
Balanced ==
  \A c \in Campaigns : Exists(c) =>
    /\ Imported(c) + Cardinality({r \in Imports : InDebt(r, c)}) <= Cardinality(CopiesOf(c))
    /\ Cardinality(CopiesOf(c)) + Cardinality({r \in Imports : Blind(r, c)})
         <= Imported(c) + Cardinality({r \in Imports : Pending(r, c)}) + faults

One(b) == IF b THEN 1 ELSE 0

\* A set that gains or loses at most one given element.
LEMMA OneMoves ==
  ASSUME NEW S, NEW T, NEW x, IsFiniteSet(S), T \ {x} = S \ {x}
  PROVE  /\ IsFiniteSet(T) /\ Cardinality(S) \in Nat /\ Cardinality(T) \in Nat
         /\ Cardinality(T) + One(x \in S) = Cardinality(S) + One(x \in T)
<1> DEFINE U == S \ {x}
<1>1. IsFiniteSet(U)
  BY FS_RemoveElement
<1>2. /\ x \in S => S = U \cup {x}
      /\ x \notin S => S = U
      /\ x \in T => T = U \cup {x}
      /\ x \notin T => T = U
      /\ x \notin U
  OBVIOUS
<1>3. IsFiniteSet(U \cup {x}) /\ Cardinality(U \cup {x}) = Cardinality(U) + 1
  <2> HIDE DEF U
  <2> QED
    BY <1>1, <1>2, FS_AddElement
<1>4. Cardinality(U) \in Nat
  BY <1>1, FS_CardinalityType
<1> HIDE DEF U
<1>5. /\ IsFiniteSet(S) /\ IsFiniteSet(T)
      /\ Cardinality(S) = Cardinality(U) + One(x \in S)
      /\ Cardinality(T) = Cardinality(U) + One(x \in T)
  <2>1. CASE x \in S /\ x \in T
    BY <1>1, <1>2, <1>3, <2>1 DEF One
  <2>2. CASE x \in S /\ x \notin T
    <3>1. S = U \cup {x} /\ T = U
      BY <1>2, <2>2
    <3> QED
      BY <1>1, <1>3, <1>4, <2>2, <3>1 DEF One
  <2>3. CASE x \notin S /\ x \in T
    <3>1. S = U /\ T = U \cup {x}
      BY <1>2, <2>3
    <3> QED
      BY <1>1, <1>3, <1>4, <2>3, <3>1 DEF One
  <2>4. CASE x \notin S /\ x \notin T
    BY <1>1, <1>2, <1>4, <2>4 DEF One
  <2> QED
    BY <2>1, <2>2, <2>3, <2>4
<1>6. One(x \in S) \in Nat /\ One(x \in T) \in Nat
  BY DEF One
<1> QED
  BY <1>4, <1>5, <1>6

LEMMA PlacedInit == ImportInit => Placed /\ Balanced
<1> SUFFICES ASSUME ImportInit PROVE Placed /\ Balanced
  OBVIOUS
<1>1. crm = {} /\ \A r \in Imports : request[r].pc = "new"
  BY DEF ImportInit, TablesInit
<1>2. ASSUME NEW c \in Campaigns
      PROVE  /\ CopiesOf(c) = {} /\ Imported(c) = 0
             /\ {r \in Imports : InDebt(r, c)} = {}
             /\ {r \in Imports : Pending(r, c)} = {}
             /\ {r \in Imports : Blind(r, c)} = {}
  BY <1>1 DEF CopiesOf, Imported, InDebt, Pending, Blind, ImportInit, TablesInit
<1>3. Balanced
  <2>1. ASSUME NEW c \in Campaigns
        PROVE  /\ Cardinality(CopiesOf(c)) = 0 /\ Imported(c) = 0
               /\ Cardinality({r \in Imports : InDebt(r, c)}) = 0
               /\ Cardinality({r \in Imports : Pending(r, c)}) = 0
               /\ Cardinality({r \in Imports : Blind(r, c)}) = 0
    BY <1>2, FS_EmptySet
  <2>2. faults = 0
    BY DEF ImportInit, TablesInit
  <2> QED
    BY <2>1, <2>2 DEF Balanced
<1>4. Placed
  BY <1>1, FS_EmptySet DEF Placed
<1> QED
  BY <1>3, <1>4

LEMMA PlacedStep == ImportTypeOK /\ Placed /\ [ImportNext]_importVars => Placed'
<1> SUFFICES ASSUME ImportTypeOK, Placed, [ImportNext]_importVars PROVE Placed'
  OBVIOUS
<1>1. ASSUME NEW r \in Imports, ImportStep(r)
      PROVE  Placed'
  <2>1. /\ request'[r].pc # "new" /\ request'[r].at \in Nat
        /\ \/ /\ request[r].pc = "new" /\ crm' = crm
           \/ /\ request[r].pc # "new"
              /\ request'[r].at = request[r].at
              /\ request'[r].pc \in {"read", "insert"} =>
                   crm' = crm /\ request[r].pc \in {"read", "insert"}
           \/ /\ request[r].pc # "new"
              /\ request'[r].at = request[r].at + 1
    <3>1. ASSUME NEW body \in Bodies, Begin(r, body)
          PROVE  request[r].pc = "new" /\ crm' = crm /\ request'[r].pc = "read"
      BY <3>1 DEF Begin, tableVars, ImportTypeOK, RequestRecord
    <3>2. request'[r].at \in Nat
      <4>1. ImportTypeOK'
        BY <1>1, StepTyped
      <4> QED
        BY <4>1 DEF ImportTypeOK, RequestRecord
    <3>3. CASE Read(r)
      BY <3>2, <3>3, GotoRequests, NextIdRequests DEF Read
    <3>4. ASSUME NEW o \in Outcomes, Insert(r, o) \/ Mark(r, o) \/ Count(r, o)
          PROVE  /\ request[r].pc # "new"
                 /\ Goto(r, "mark") \/ Goto(r, "count") \/ \E ok \in BOOLEAN : NextId(r, ok)
      BY <3>4 DEF Insert, Mark, Count
    <3>5. CASE Cut(r)
      BY <3>2, <3>5 DEF Cut, ImportTypeOK, RequestRecord
    <3>6. CASE Adrift(r)
      BY <3>2, <3>6, GotoRequests DEF Adrift
    <3> QED
      BY <1>1, <3>1, <3>2, <3>3, <3>4, <3>5, <3>6, GotoRequests, NextIdRequests DEF ImportStep
  <2>2. \/ crm' = crm
        \/ request[r].pc = "insert" /\ crm' = crm \cup {NewCopy(r)}
    BY <1>1, StepEffect
  <2>3. IsFiniteSet(crm')
    BY <2>2, FS_AddElement DEF Placed
  <2>4. ASSUME NEW x \in crm', NEW q \in Imports, NEW n \in Nat, x.id = <<q, n>>
        PROVE  /\ request'[q].pc # "new"
               /\ n <= request'[q].at
               /\ request'[q].pc \in {"read", "insert"} => n < request'[q].at
    <3>1. CASE q # r
      <4>1. x \in crm
        BY <2>2, <2>4, <3>1 DEF NewCopy
      <4> QED
        BY <1>1, <2>4, <3>1, <4>1, StepEffect DEF Placed
    <3>2. CASE q = r /\ x \in crm
      <4>1. /\ request[r].pc # "new" /\ n <= request[r].at
            /\ request[r].pc \in {"read", "insert"} => n < request[r].at
            /\ request[r].at \in Nat
        BY <2>4, <3>2 DEF Placed, ImportTypeOK, RequestRecord
      <4> QED
        BY <2>1, <3>2, <4>1
    <3>3. CASE q = r /\ x \notin crm
      <4>1. request[r].pc = "insert" /\ crm' # crm /\ x = NewCopy(r)
        BY <2>2, <3>3
      <4>2. n = request[r].at
        BY <2>4, <3>3, <4>1 DEF NewCopy
      <4> QED
        BY <2>1, <3>3, <4>1, <4>2
    <3> QED
      BY <3>1, <3>2, <3>3
  <2> QED
    BY <2>3, <2>4 DEF Placed
<1>2. CASE UNCHANGED <<crm, request>>
  BY <1>2 DEF Placed
<1> QED
  BY <1>1, <1>2, OthersEffect DEF ImportNext, importVars, tableVars

\* What a step of r does to the five quantities of Balanced, for one campaign.
LEMMA StepMoves ==
  ASSUME ImportTypeOK, Placed, NEW r \in Imports, ImportStep(r),
         NEW c \in Campaigns, Exists(c)'
  PROVE  \E dCopies, dImported, dFaults \in {0, 1} :
           /\ Exists(c)
           /\ Cardinality(CopiesOf(c)') = Cardinality(CopiesOf(c)) + dCopies
           /\ Imported(c)' = Imported(c) + dImported
           /\ faults' = faults + dFaults
           /\ dImported + One(InDebt(r, c)') <= dCopies + One(InDebt(r, c))
           /\ dCopies + One(Blind(r, c)') + One(Pending(r, c))
                <= dImported + One(Pending(r, c)') + dFaults + One(Blind(r, c))
<1>1. /\ campaign \in [Campaigns -> CampaignRow] /\ campaign[c].imported \in Nat
      /\ faults \in Nat /\ IsFiniteSet(CopiesOf(c)) /\ Cardinality(CopiesOf(c)) \in Nat
  <2>1. CopiesOf(c) \in SUBSET crm
    BY DEF CopiesOf
  <2>2. IsFiniteSet(CopiesOf(c))
    BY <2>1, FS_Subset DEF Placed
  <2> QED
    BY <2>2, FS_CardinalityType DEF ImportTypeOK, TablesTypeOK, CampaignRow
<1> DEFINE mine == CampaignOf[Current(r)] = c
\* The CRM leads of c after an INSERT of r.
<1>2. ASSUME request[r].pc = "insert", crm' = crm \cup {NewCopy(r)}
      PROVE  Cardinality(CopiesOf(c)') = Cardinality(CopiesOf(c)) + One(mine)
  <2>1. NewCopy(r) \notin crm
    <3>1. NewCopy(r).id = <<r, request[r].at>> /\ request[r].at \in Nat
      BY <1>2, CurrentLead DEF NewCopy
    <3>2. ~(request[r].at < request[r].at)
      BY <3>1
    <3> QED
      BY <1>2, <3>1, <3>2 DEF Placed
  <2>2. CASE mine
    <3>1. CopiesOf(c)' = CopiesOf(c) \cup {NewCopy(r)}
      BY <1>2, <2>2 DEF CopiesOf, NewCopy
    <3>2. NewCopy(r) \notin CopiesOf(c)
      BY <2>1 DEF CopiesOf
    <3> QED
      BY <1>1, <2>2, <3>1, <3>2, FS_AddElement DEF One
  <2>3. CASE ~mine
    <3>1. CopiesOf(c)' = CopiesOf(c)
      BY <1>2, <2>3 DEF CopiesOf, NewCopy
    <3> QED
      BY <1>1, <2>3, <3>1 DEF One
  <2> QED
    BY <2>2, <2>3
<1>3. crm' = crm => Cardinality(CopiesOf(c)') = Cardinality(CopiesOf(c)) + 0
  BY <1>1 DEF CopiesOf
\* The row of c after a count of r.
<1>4. ASSUME request[r].pc = "count", campaign' = Counted(r)
      PROVE  Exists(c) /\ Imported(c)' = Imported(c) + One(mine)
  <2>1. CASE mine /\ Exists(c)
    BY <1>1, <1>4, <2>1 DEF Counted, Imported, One
  <2>2. CASE mine /\ ~Exists(c)
    BY <1>4, <2>2 DEF Counted, Exists
  <2>3. CASE ~mine
    <3>1. campaign'[c] = campaign[c]
      BY <1>1, <1>4, <2>3 DEF Counted
    <3> QED
      BY <1>1, <2>3, <3>1 DEF Imported, One, Exists
  <2> QED
    BY <2>1, <2>2, <2>3
<1>5. campaign' = campaign => Exists(c) /\ Imported(c)' = Imported(c) + 0
  BY <1>1 DEF Exists, Imported
<1>6. /\ faults' = faults => faults' = faults + 0
      /\ Fault => faults' = faults + 1
  BY <1>1 DEF Fault
\* Where r is after its step.
<1>7. ASSUME NEW ok \in BOOLEAN, NextId(r, ok), request[r].pc # "new"
      PROVE  ~InDebt(r, c)' /\ ~Pending(r, c)' /\ ~Blind(r, c)'
  BY <1>7, NextIdRequests DEF InDebt, Pending, Blind
<1>8. ASSUME NEW pc \in {"insert", "mark", "count", "done"}, Goto(r, pc), request[r].pc # "new"
      PROVE  /\ InDebt(r, c)' <=> pc \in {"mark", "count"} /\ mine
             /\ Pending(r, c)' <=> pc \in {"mark", "count"} /\ mine /\ ~request[r].cut
             /\ Blind(r, c)' <=> pc = "insert" /\ mine /\ request[r].cut
  BY <1>8, GotoRequests DEF InDebt, Pending, Blind, Current
<1>9. ASSUME NEW body \in Bodies, Begin(r, body)
      PROVE  /\ UNCHANGED <<crm, campaign, faults>>
             /\ ~InDebt(r, c)' /\ ~Pending(r, c)' /\ ~Blind(r, c)'
             /\ ~InDebt(r, c) /\ ~Pending(r, c) /\ ~Blind(r, c)
  BY <1>9 DEF Begin, tableVars, ImportTypeOK, RequestRecord, InDebt, Pending, Blind
<1> DEFINE Moves(i, j, k) ==
             /\ Exists(c)
             /\ Cardinality(CopiesOf(c)') = Cardinality(CopiesOf(c)) + i
             /\ Imported(c)' = Imported(c) + j
             /\ faults' = faults + k
             /\ j + One(InDebt(r, c)') <= i + One(InDebt(r, c))
             /\ i + One(Blind(r, c)') + One(Pending(r, c))
                  <= j + One(Pending(r, c)') + k + One(Blind(r, c))
           Moved == \E i, j, k \in {0, 1} : Moves(i, j, k)
<1>10. ASSUME NEW body \in Bodies, Begin(r, body)
       PROVE  Moved
  <2>1. Moves(0, 0, 0)
    BY <1>3, <1>5, <1>6, <1>9, <1>10 DEF One
  <2> QED
    BY <2>1
<1>11. CASE Read(r)
  <2>1. /\ request[r].pc = "read" /\ ~request[r].cut
        /\ UNCHANGED <<crm, campaign>>
        /\ faults' = faults \/ Fault
        /\ Goto(r, "insert") \/ \E ok \in BOOLEAN : NextId(r, ok)
    BY <1>11, Zenon DEF Read
  <2>2. /\ ~InDebt(r, c)' /\ ~Pending(r, c)' /\ ~Blind(r, c)'
        /\ ~InDebt(r, c) /\ ~Pending(r, c) /\ ~Blind(r, c)
    BY <1>7, <1>8, <2>1 DEF InDebt, Pending, Blind
  <2>3. \E k \in {0, 1} : faults' = faults + k
    BY <1>6, <2>1
  <2>4. \A k \in {0, 1} : faults' = faults + k => Moves(0, 0, k)
    BY <1>3, <1>5, <2>1, <2>2 DEF One
  <2> QED
    BY <2>3, <2>4
<1>12. ASSUME NEW o \in Outcomes, Insert(r, o)
       PROVE  Moved
  <2>1. /\ request[r].pc = "insert" /\ ~request[r].cut /\ campaign' = campaign
        /\ ~InDebt(r, c) /\ ~Pending(r, c) /\ ~Blind(r, c)
    BY <1>12 DEF Insert, InDebt, Pending, Blind
  <2>2. CASE o = "ok"
    <3>1. /\ crm' = crm \cup {NewCopy(r)} /\ Goto(r, "mark") /\ faults' = faults
      BY <1>12, <2>2 DEF Insert, Outcome, Applied
    <3>2. (InDebt(r, c)' <=> mine) /\ (Pending(r, c)' <=> mine) /\ ~Blind(r, c)'
      BY <1>8, <2>1, <3>1
    <3>3. Cardinality(CopiesOf(c)') = Cardinality(CopiesOf(c)) + One(mine)
      BY <1>2, <2>1, <3>1
    <3>4. Moves(One(mine), 0, 0)
      BY <1>5, <1>6, <2>1, <3>1, <3>2, <3>3 DEF One
    <3> QED
      BY <3>4 DEF One
  <2>3. CASE o # "ok"
    <3>1. NextId(r, FALSE) /\ Fault /\ (crm' = crm \/ crm' = crm \cup {NewCopy(r)})
      BY <1>12, <2>3 DEF Insert, Outcome
    <3>2. ~InDebt(r, c)' /\ ~Pending(r, c)' /\ ~Blind(r, c)'
      BY <1>7, <2>1, <3>1
    <3>3. \E i \in {0, 1} : Cardinality(CopiesOf(c)') = Cardinality(CopiesOf(c)) + i
      BY <1>2, <1>3, <2>1, <3>1 DEF One
    <3>4. \A i \in {0, 1} : Cardinality(CopiesOf(c)') = Cardinality(CopiesOf(c)) + i
                             => Moves(i, 0, 1)
      BY <1>5, <1>6, <2>1, <3>1, <3>2 DEF One
    <3> QED
      BY <3>3, <3>4
  <2> QED
    BY <2>2, <2>3
<1>13. ASSUME NEW o \in Outcomes, Mark(r, o)
       PROVE  Moved
  <2>1. /\ request[r].pc = "mark" /\ ~request[r].cut /\ campaign' = campaign /\ crm' = crm
        /\ Goto(r, "count")
        /\ faults' = faults \/ Fault
    BY <1>13 DEF Mark, Outcome
  <2>2. /\ (InDebt(r, c) <=> mine) /\ (Pending(r, c) <=> mine) /\ ~Blind(r, c)
        /\ (InDebt(r, c)' <=> mine) /\ (Pending(r, c)' <=> mine) /\ ~Blind(r, c)'
    <3>1. (InDebt(r, c) <=> mine) /\ (Pending(r, c) <=> mine) /\ ~Blind(r, c)
      BY <2>1 DEF InDebt, Pending, Blind
    <3>2. (InDebt(r, c)' <=> mine) /\ (Pending(r, c)' <=> mine) /\ ~Blind(r, c)'
      BY <1>8, <2>1
    <3> QED
      BY <3>1, <3>2
  <2>3. \E k \in {0, 1} : faults' = faults + k
    BY <1>6, <2>1
  <2>4. \A k \in {0, 1} : faults' = faults + k => Moves(0, 0, k)
    BY <1>3, <1>5, <2>1, <2>2 DEF One
  <2> QED
    BY <2>3, <2>4
<1>14. ASSUME NEW o \in Outcomes, Count(r, o)
       PROVE  Moved
  <2>1. /\ request[r].pc = "count" /\ ~request[r].cut /\ crm' = crm /\ NextId(r, TRUE)
        /\ (InDebt(r, c) <=> mine) /\ (Pending(r, c) <=> mine) /\ ~Blind(r, c)
    BY <1>14 DEF Count, InDebt, Pending, Blind
  <2>2. ~InDebt(r, c)' /\ ~Pending(r, c)' /\ ~Blind(r, c)'
    BY <1>7, <2>1
  <2>3. CASE o = "ok"
    <3>1. campaign' = Counted(r) /\ faults' = faults
      BY <1>14, <2>3 DEF Count, Outcome, Applied
    <3>2. Moves(0, One(mine), 0)
      BY <1>3, <1>4, <1>6, <2>1, <2>2, <3>1 DEF One
    <3> QED
      BY <3>2 DEF One
  <2>4. CASE o # "ok"
    <3>1. Fault /\ (campaign' = campaign \/ campaign' = Counted(r))
      BY <1>14, <2>4 DEF Count, Outcome
    <3>2. \E j \in {0, 1} : j <= One(mine) /\ Exists(c) /\ Imported(c)' = Imported(c) + j
      BY <1>4, <1>5, <2>1, <3>1 DEF One
    <3>3. \A j \in {0, 1} : j <= One(mine) /\ Exists(c) /\ Imported(c)' = Imported(c) + j
                             => Moves(0, j, 1)
      BY <1>3, <1>6, <2>1, <2>2, <3>1 DEF One
    <3> QED
      BY <3>2, <3>3
  <2> QED
    BY <2>3, <2>4
<1>15. CASE Cut(r)
  <2>1. /\ UNCHANGED <<campaign, crm>> /\ Fault /\ ~request[r].cut
        /\ request'[r].pc = request[r].pc /\ request'[r].cut
        /\ request'[r].at = request[r].at /\ request'[r].body = request[r].body
    BY <1>15 DEF Cut, ImportTypeOK, RequestRecord
  <2>2. /\ (InDebt(r, c)' <=> InDebt(r, c)) /\ ~Pending(r, c)' /\ ~Blind(r, c)
        /\ Blind(r, c)' => ~Pending(r, c)
    BY <2>1 DEF InDebt, Pending, Blind, Current
  <2>3. Moves(0, 0, 1)
    BY <1>3, <1>5, <1>6, <2>1, <2>2 DEF One
  <2> QED
    BY <2>3
<1>16. CASE Adrift(r)
  <2>1. request[r].cut /\ request[r].pc # "new" /\ Goto(r, "done") /\ faults' = faults
    BY <1>16 DEF Adrift
  <2>2. /\ ~InDebt(r, c)' /\ ~Pending(r, c)' /\ ~Blind(r, c)' /\ ~Pending(r, c)
    BY <1>8, <2>1 DEF Pending
  <2>3. CASE UNCHANGED <<campaign, crm>>
    <3>1. Moves(0, 0, 0)
      BY <1>3, <1>5, <1>6, <2>1, <2>2, <2>3 DEF One
    <3> QED
      BY <3>1
  <2>4. CASE request[r].pc = "insert" /\ crm' = crm \cup {NewCopy(r)} /\ campaign' = campaign
    <3>1. ~InDebt(r, c) /\ (Blind(r, c) <=> mine)
      BY <2>1, <2>4 DEF InDebt, Blind
    <3>2. Moves(One(mine), 0, 0)
      BY <1>2, <1>5, <1>6, <2>1, <2>2, <2>4, <3>1 DEF One
    <3> QED
      BY <3>2 DEF One
  <2>5. CASE request[r].pc = "count" /\ campaign' = Counted(r) /\ crm' = crm
    <3>1. ~Blind(r, c) /\ (InDebt(r, c) <=> mine)
      BY <2>1, <2>5 DEF InDebt, Blind
    <3>2. Moves(0, One(mine), 0)
      BY <1>3, <1>4, <1>6, <2>1, <2>2, <2>5, <3>1 DEF One
    <3> QED
      BY <3>2 DEF One
  <2> QED
    BY <1>16, <2>3, <2>4, <2>5 DEF Adrift
<1> QED
  BY <1>10, <1>11, <1>12, <1>13, <1>14, <1>15, <1>16 DEF ImportStep

\* A store, a report, a refetch or a delete touches no counter of a campaign that
\* still exists, and only adds faults.
LEMMA OthersMoves ==
  ASSUME TablesTypeOK, OthersNext, NEW c \in Campaigns, Exists(c)'
  PROVE  /\ Exists(c) /\ Imported(c)' = Imported(c)
         /\ faults' \in Nat /\ faults' >= faults
<1>1. /\ campaign \in [Campaigns -> CampaignRow] /\ faults \in Nat
  BY DEF TablesTypeOK
<1>2. PICK d \in Campaigns :
        \/ \E new \in SUBSET LeadsOf(d) : Store(d, new)
        \/ StoreFails(d)
        \/ \E ok \in BOOLEAN : Report(d, ok)
        \/ Refetch(d)
        \/ Delete(d)
  BY DEF OthersNext
<1>3. faults' = faults \/ faults' = faults + 1
  BY <1>2 DEF Store, StoreFails, Report, Refetch, Delete, Fault
<1>4. ASSUME NEW status \in {"RUNNING", "DONE", "FAILED"}, NEW found \in Nat,
             campaign' = WithStatus(d, status, found)
      PROVE  Exists(c) /\ Imported(c)' = Imported(c)
  BY <1>1, <1>4 DEF WithStatus, Exists, Imported, CampaignRow
<1>5. CASE campaign' = campaign
  BY <1>3, <1>1, <1>5 DEF Exists, Imported
<1>6. CASE StoreFails(d)
  BY <1>1, <1>3, <1>4, <1>6 DEF StoreFails
<1>7. ASSUME NEW ok \in BOOLEAN, Report(d, ok), campaign' # campaign
      PROVE  campaign' = WithStatus(d, "DONE", job[d]) /\ job[d] \in Nat
  BY <1>7 DEF Report, TablesTypeOK
<1>8. CASE Refetch(d)
  BY <1>1, <1>3, <1>8 DEF Refetch, Exists, Imported, CampaignRow
<1>9. CASE Delete(d)
  BY <1>1, <1>3, <1>9 DEF Delete, Exists, Imported, CampaignRow
<1>10. CASE \E new \in SUBSET LeadsOf(d) : Store(d, new)
  BY <1>5, <1>10 DEF Store
<1> QED
  BY <1>1, <1>2, <1>3, <1>4, <1>5, <1>6, <1>7, <1>8, <1>9, <1>10

LEMMA BalancedStep ==
  ImportTypeOK /\ Placed /\ Balanced /\ [ImportNext]_importVars => Balanced'
<1> SUFFICES ASSUME ImportTypeOK, Placed, Balanced, [ImportNext]_importVars PROVE Balanced'
  OBVIOUS
<1>1. ASSUME NEW r \in Imports, ImportStep(r), NEW c \in Campaigns, Exists(c)'
      PROVE  /\ Imported(c)' + Cardinality({q \in Imports : InDebt(q, c)'}) <= Cardinality(CopiesOf(c)')
             /\ Cardinality(CopiesOf(c)') + Cardinality({q \in Imports : Blind(q, c)'})
                  <= Imported(c)' + Cardinality({q \in Imports : Pending(q, c)'}) + faults'
  <2> DEFINE D == {q \in Imports : InDebt(q, c)}
             P == {q \in Imports : Pending(q, c)}
             B == {q \in Imports : Blind(q, c)}
             DD == {q \in Imports : InDebt(q, c)'}
             PP == {q \in Imports : Pending(q, c)'}
             BB == {q \in Imports : Blind(q, c)'}
  <2>1. /\ D \in SUBSET Imports /\ P \in SUBSET Imports /\ B \in SUBSET Imports
        /\ IsFiniteSet(D) /\ IsFiniteSet(P) /\ IsFiniteSet(B)
    BY TablesAssumption, FS_Subset
  <2>2. \A q \in Imports \ {r} : /\ InDebt(q, c)' <=> InDebt(q, c)
                                 /\ Pending(q, c)' <=> Pending(q, c)
                                 /\ Blind(q, c)' <=> Blind(q, c)
    BY <1>1, StepEffect DEF InDebt, Pending, Blind, Current
  <2>3. DD \ {r} = D \ {r} /\ PP \ {r} = P \ {r} /\ BB \ {r} = B \ {r}
    BY <2>2
  <2>4. /\ (r \in D <=> InDebt(r, c)) /\ (r \in DD <=> InDebt(r, c)')
        /\ (r \in P <=> Pending(r, c)) /\ (r \in PP <=> Pending(r, c)')
        /\ (r \in B <=> Blind(r, c)) /\ (r \in BB <=> Blind(r, c)')
    OBVIOUS
  <2>5. /\ One(r \in D) = One(InDebt(r, c)) /\ One(r \in DD) = One(InDebt(r, c)')
        /\ One(r \in P) = One(Pending(r, c)) /\ One(r \in PP) = One(Pending(r, c)')
        /\ One(r \in B) = One(Blind(r, c)) /\ One(r \in BB) = One(Blind(r, c)')
    BY <2>4 DEF One
  <2> HIDE DEF D, P, B, DD, PP, BB
  <2>6. /\ Cardinality(D) \in Nat /\ Cardinality(DD) \in Nat
        /\ Cardinality(DD) + One(InDebt(r, c)) = Cardinality(D) + One(InDebt(r, c)')
    BY <2>1, <2>3, <2>5, OneMoves
  <2>7. /\ Cardinality(P) \in Nat /\ Cardinality(PP) \in Nat
        /\ Cardinality(PP) + One(Pending(r, c)) = Cardinality(P) + One(Pending(r, c)')
    BY <2>1, <2>3, <2>5, OneMoves
  <2>8. /\ Cardinality(B) \in Nat /\ Cardinality(BB) \in Nat
        /\ Cardinality(BB) + One(Blind(r, c)) = Cardinality(B) + One(Blind(r, c)')
    BY <2>1, <2>3, <2>5, OneMoves
  <2>9. /\ One(InDebt(r, c)) \in Nat /\ One(InDebt(r, c)') \in Nat
        /\ One(Pending(r, c)) \in Nat /\ One(Pending(r, c)') \in Nat
        /\ One(Blind(r, c)) \in Nat /\ One(Blind(r, c)') \in Nat
    BY DEF One
  <2>10. /\ Imported(c) \in Nat /\ faults \in Nat /\ Cardinality(CopiesOf(c)) \in Nat
    <3>1. CopiesOf(c) \in SUBSET crm
      BY DEF CopiesOf
    <3> QED
      BY <3>1, FS_Subset, FS_CardinalityType
         DEF Placed, Imported, ImportTypeOK, TablesTypeOK, CampaignRow
  <2>11. PICK dCopies, dImported, dFaults \in {0, 1} :
           /\ Exists(c)
           /\ Cardinality(CopiesOf(c)') = Cardinality(CopiesOf(c)) + dCopies
           /\ Imported(c)' = Imported(c) + dImported
           /\ faults' = faults + dFaults
           /\ dImported + One(InDebt(r, c)') <= dCopies + One(InDebt(r, c))
           /\ dCopies + One(Blind(r, c)') + One(Pending(r, c))
                <= dImported + One(Pending(r, c)') + dFaults + One(Blind(r, c))
    BY <1>1, StepMoves
  <2>12. /\ Imported(c) + Cardinality(D) <= Cardinality(CopiesOf(c))
         /\ Cardinality(CopiesOf(c)) + Cardinality(B)
              <= Imported(c) + Cardinality(P) + faults
    BY <2>11 DEF Balanced, D, P, B
  <2>13. /\ Imported(c)' + Cardinality(DD) <= Cardinality(CopiesOf(c)')
         /\ Cardinality(CopiesOf(c)') + Cardinality(BB)
              <= Imported(c)' + Cardinality(PP) + faults'
    BY <2>6, <2>7, <2>8, <2>9, <2>10, <2>11, <2>12
  <2> QED
    BY <2>13 DEF DD, PP, BB
<1>2. CASE \E r \in Imports : ImportStep(r)
  BY <1>1, <1>2 DEF Balanced
<1>3. ASSUME UNCHANGED <<crm, request>>, NEW c \in Campaigns,
             Exists(c), Imported(c)' = Imported(c), faults' \in Nat, faults' >= faults
      PROVE  /\ Imported(c)' + Cardinality({q \in Imports : InDebt(q, c)'}) <= Cardinality(CopiesOf(c)')
             /\ Cardinality(CopiesOf(c)') + Cardinality({q \in Imports : Blind(q, c)'})
                  <= Imported(c)' + Cardinality({q \in Imports : Pending(q, c)'}) + faults'
  <2>1. /\ CopiesOf(c)' = CopiesOf(c)
        /\ {q \in Imports : InDebt(q, c)'} = {q \in Imports : InDebt(q, c)}
        /\ {q \in Imports : Pending(q, c)'} = {q \in Imports : Pending(q, c)}
        /\ {q \in Imports : Blind(q, c)'} = {q \in Imports : Blind(q, c)}
    BY <1>3 DEF CopiesOf, InDebt, Pending, Blind, Current
  <2> DEFINE nC == Cardinality(CopiesOf(c))
             nP == Cardinality({q \in Imports : Pending(q, c)})
             nB == Cardinality({q \in Imports : Blind(q, c)})
             nD == Cardinality({q \in Imports : InDebt(q, c)})
  <2>2. nC \in Nat /\ nP \in Nat /\ nB \in Nat /\ nD \in Nat
    <3>1. /\ CopiesOf(c) \in SUBSET crm
          /\ {q \in Imports : Pending(q, c)} \in SUBSET Imports
          /\ {q \in Imports : Blind(q, c)} \in SUBSET Imports
          /\ {q \in Imports : InDebt(q, c)} \in SUBSET Imports
      BY DEF CopiesOf
    <3> QED
      BY <3>1, TablesAssumption, FS_Subset, FS_CardinalityType DEF Placed
  <2>3. Imported(c) + nD <= nC /\ nC + nB <= Imported(c) + nP + faults
    BY <1>3 DEF Balanced
  <2>4. Imported(c) \in Nat /\ faults \in Nat
    BY DEF Imported, ImportTypeOK, TablesTypeOK, CampaignRow
  <2> HIDE DEF nC, nP, nB, nD
  <2>5. Imported(c)' + nD <= nC /\ nC + nB <= Imported(c)' + nP + faults'
    BY <1>3, <2>2, <2>3, <2>4
  <2> QED
    BY <2>1, <2>5 DEF nC, nP, nB, nD
<1>4. CASE OthersNext /\ UNCHANGED request
  BY <1>3, <1>4, OthersEffect, OthersMoves DEF ImportTypeOK, Balanced
<1>5. CASE UNCHANGED importVars
  <2>1. /\ UNCHANGED <<crm, request>> /\ faults' = faults /\ faults' \in Nat
        /\ \A c \in Campaigns : Exists(c)' => Exists(c) /\ Imported(c)' = Imported(c)
    BY <1>5 DEF importVars, tableVars, Exists, Imported, ImportTypeOK, TablesTypeOK
  <2> QED
    BY <1>3, <2>1 DEF Balanced
<1> QED
  BY <1>2, <1>4, <1>5 DEF ImportNext

\* "totalImported" counts CRM leads, each once, and lags by the imports in progress
\* and at most one for each fault: for any number of imports at a time.
THEOREM CounterCounts == ImportSpec => []CounterCountsCopies
<1>1. ImportTypeOK /\ Placed /\ Balanced => CounterCountsCopies
  <2> SUFFICES ASSUME ImportTypeOK, Placed, Balanced, NEW c \in Campaigns, Exists(c)
               PROVE  LET sure == campaign[c].imported + Cardinality(Uncounted(c))
                      IN  /\ sure <= Cardinality(CopiesOf(c))
                          /\ Cardinality(CopiesOf(c)) <= sure + faults
    BY DEF CounterCountsCopies
  <2> DEFINE P == {q \in Imports : Pending(q, c)}
             B == {q \in Imports : Blind(q, c)}
             D == {q \in Imports : InDebt(q, c)}
  <2>1. Uncounted(c) = D
    BY DEF Uncounted, InDebt
  <2>2. /\ P \in SUBSET D /\ D \in SUBSET Imports /\ B \in SUBSET Imports
        /\ CopiesOf(c) \in SUBSET crm
    BY DEF Pending, CopiesOf
  <2> HIDE DEF P, B, D
  <2>3. /\ IsFiniteSet(D) /\ IsFiniteSet(B) /\ IsFiniteSet(P) /\ IsFiniteSet(CopiesOf(c))
        /\ Cardinality(P) <= Cardinality(D)
    <3>1. IsFiniteSet(D) /\ IsFiniteSet(B) /\ IsFiniteSet(CopiesOf(c))
      BY <2>2, TablesAssumption, FS_Subset DEF Placed
    <3> QED
      BY <2>2, <3>1, FS_Subset
  <2>4. /\ Cardinality(D) \in Nat /\ Cardinality(P) \in Nat /\ Cardinality(B) \in Nat
        /\ Cardinality(CopiesOf(c)) \in Nat /\ Imported(c) \in Nat /\ faults \in Nat
    BY <2>3, FS_CardinalityType DEF Imported, ImportTypeOK, TablesTypeOK, CampaignRow
  <2>5. /\ Imported(c) + Cardinality(D) <= Cardinality(CopiesOf(c))
        /\ Cardinality(CopiesOf(c)) + Cardinality(B) <= Imported(c) + Cardinality(P) + faults
    BY DEF Balanced, D, P, B
  <2> QED
    BY <2>1, <2>3, <2>4, <2>5 DEF Imported
<1> QED
  BY <1>1, TypeCorrect, PlacedInit, PlacedStep, BalancedStep, PTL DEF ImportSpec
=============================================================================
