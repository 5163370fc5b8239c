----------------------------- MODULE LeadQuery ------------------------------
(***************************************************************************)
(* Reading the discovered leads while jobs store them, imports mark them   *)
(* (LeadImport has the statements of an import; a reader sees its mark)    *)
(* and campaigns are deleted: the list, page after page, the CSV export    *)
(* (internal/leads/service.go, FindAll and ExportCSV) and a campaign with  *)
(* its leads (cmd/server/main.go, /lead-campaigns/{id}/full).              *)
(*                                                                         *)
(* FindAll is a COUNT and then a SELECT ... ORDER BY "intentScore" DESC    *)
(* LIMIT OFFSET, in no transaction. Readers change nothing, so one reader  *)
(* is enough, and one reading of it.                                      *)
(***************************************************************************)
EXTENDS LeadTables, SequencesExt

CONSTANTS
  Score,         \* the "intentScore" of each lead
  Filters,       \* the sets of leads that campaign, source, score and search may select
  PageParams,    \* the values of "page" in a query string, as Atoi returns them
  LimitParams,   \* likewise of "limit"
  DefaultLimit,  \* 50 in the code
  ExportLimit,   \* 5000
  FullLimit,     \* 1000
  MaxPages       \* bound: the last page that a listing reads

ASSUME QueryAssumption ==
  /\ Score \in [Leads -> Nat]
  /\ Filters \subseteq SUBSET Leads
  /\ PageParams \subseteq Int /\ LimitParams \subseteq Int
  /\ {DefaultLimit, ExportLimit, FullLimit, MaxPages} \subseteq Nat \ {0}

VARIABLE query

queryVars == <<tableVars, query>>

Ops == {"list", "export", "full"}

\* "of" are the rows that the immutable columns select; "either" is every value of
\* the parameter "imported" but "true" and "false". Ghosts: "began" is what
\* matched when the reading began, "moved" how that has changed since, "fresh"
\* the same since the last COUNT, "hitch" whether a statement of this reading
\* lost something.
QueryRecord == [op       : Ops,
                imported : {"either", "true", "false"},
                of       : SUBSET Leads,
                page     : Nat,
                limit    : Nat,
                pc       : {"off", "row", "count", "list", "page", "done", "error"},
                row      : CampaignRow,
                total    : Nat,
                pages    : Seq(Seq(Leads)),
                began    : SUBSET Leads,
                moved    : SUBSET {"in", "out"},
                fresh    : BOOLEAN,
                hitch    : BOOLEAN]

NoRow == [status |-> "DELETED", found |-> 0, imported |-> 0]

Off == [op |-> "list", imported |-> "either", of |-> {}, page |-> 1, limit |-> 1, pc |-> "off",
        row |-> NoRow, total |-> 0, pages |-> <<>>,
        began |-> {}, moved |-> {}, fresh |-> TRUE, hitch |-> FALSE]

TypeOK == TablesTypeOK /\ query \in QueryRecord

QueryInit == TablesInit /\ query = Off

-----------------------------------------------------------------------------
(* FindAll *)

\* The WHERE clause, over the given rows and marks.
MatchingIn(rows, marks, of, imported) ==
  {l \in rows \cap of : CASE imported = "true"  -> marks[l] # None
                          [] imported = "false" -> marks[l] = None
                          [] OTHER              -> TRUE}

Matching(q) == MatchingIn(stored, mark, q.of, q.imported)

\* Mutant of OrDefault: a negative number is taken as it is.
OrDefaultZero(n, default) == IF n = 0 THEN default ELSE n

OrDefault(n, default) == IF n <= 0 THEN default ELSE n

\* ORDER BY has no tie-break: PostgreSQL may order rows of one score in any way,
\* and another way in the next statement.
Orders(S) == {s \in SetToSeqs(S) : \A i, j \in DOMAIN s : i < j => Score[s[i]] >= Score[s[j]]}

\* Mutants of Offset and of CountClause: an off-by-one, and a COUNT that has
\* lost one of the filters.
OffsetByPage(q) == q.page * q.limit
CountAll(q) == stored \cap q.of

Offset(q) == (q.page - 1) * q.limit
CountClause(q) == Matching(q)

Slice(s, q) == SubSeq(s, Offset(q) + 1, IF Offset(q) + q.limit < Len(s)
                                        THEN Offset(q) + q.limit ELSE Len(s))

\* Mutant of Route: /full reads the leads first.
LeadsFirst(op) == CASE op = "list"   -> <<"count", "list", "page">>
                    [] op = "export" -> <<"count", "list", "done">>
                    [] op = "full"   -> <<"count", "list", "row", "done">>

\* The statements of a reading, in their order.
Route(op) == CASE op = "list"   -> <<"count", "list", "page">>
               [] op = "export" -> <<"count", "list", "done">>
               [] op = "full"   -> <<"row", "count", "list", "done">>

After == LET route == Route(query.op)
         IN  route[1 + CHOOSE i \in DOMAIN route : route[i] = query.pc]

\* The most rows of a page.
LimitOf(op, limit) == CASE op = "list"   -> OrDefault(limit, DefaultLimit)
                        [] op = "export" -> ExportLimit
                        [] op = "full"   -> FullLimit

\* Mutant of Start: the export reads the page that the caller asked for.
StartAtPage(op, of, imported, page, limit) ==
  query' = [Off EXCEPT !.op = op, !.of = of, !.imported = imported,
              !.page  = OrDefault(page, 1),
              !.limit = LimitOf(op, limit),
              !.pc    = Head(Route(op)),
              !.began = MatchingIn(stored, mark, of, imported)]

\* What the handlers make of a query string: parseQuery and the defaults of
\* FindAll for a list, fixed values for export and /full.
Start(op, of, imported, page, limit) ==
  query' = [Off EXCEPT !.op = op, !.of = of, !.imported = imported,
              !.page  = IF op = "list" THEN OrDefault(page, 1) ELSE 1,
              !.limit = LimitOf(op, limit),
              !.pc    = Head(Route(op)),
              !.began = MatchingIn(stored, mark, of, imported)]

List(of, imported, page, limit) == Start("list", of, imported, page, limit)
Export(of, imported, page) == Start("export", of, imported, page, 0)
Full(c) == Start("full", LeadsOf(c), "either", 1, 0)

\* SELECT COUNT(*). Its error is dropped, and the total is 0.
CountMatching ==
  /\ query.pc = "count"
  /\ \/ query' = [query EXCEPT !.pc = After, !.fresh = TRUE,
                               !.total = Cardinality(CountClause(query))]
        /\ UNCHANGED faults
     \/ Fault /\ query' = [query EXCEPT !.pc = After, !.total = 0, !.hitch = TRUE]

\* The rows of the page are streamed, and rows.Err() is never asked: a stream
\* that breaks is a page that ends early, as is one with a row that does not scan.
SelectPage ==
  /\ query.pc = "list"
  /\ \E s \in Orders(Matching(query)) :
       LET items == Slice(s, query) IN
       \/ /\ query' = [query EXCEPT !.pages = Append(@, items), !.pc = After]
          /\ UNCHANGED faults
       \/ /\ Fault
          /\ \E n \in 0..Len(items) - 1 :
               query' = [query EXCEPT !.pages = Append(@, SubSeq(items, 1, n)),
                                      !.pc = After, !.hitch = TRUE]

\* The SELECT itself fails: 500. /full dereferences the nil result instead, and
\* the panic is caught by the Recoverer: 500 as well.
SelectFails ==
  /\ query.pc = "list" /\ Fault
  /\ query' = [query EXCEPT !.pc = "error"]

-----------------------------------------------------------------------------
(* The readers *)

\* The caller of the list reads on until a page is not full.
NextPage ==
  /\ query.pc = "page"
  /\ query' = IF Len(Last(query.pages)) = query.limit /\ query.page < MaxPages
              THEN [query EXCEPT !.page = @ + 1, !.pc = "count"]
              ELSE [query EXCEPT !.pc = "done"]
  /\ UNCHANGED faults

\* /full reads the campaign first; a campaign that is gone, or an error, is 404.
FullRow(c) ==
  /\ query.pc = "row" /\ query.of = LeadsOf(c)
  /\ \/ Exists(c) /\ query' = [query EXCEPT !.row = campaign[c], !.pc = After] /\ UNCHANGED faults
     \/ ~Exists(c) /\ query' = [query EXCEPT !.pc = "error"] /\ UNCHANGED faults
     \/ Fault /\ query' = [query EXCEPT !.pc = "error"]

ReaderStep ==
  /\ \/ CountMatching
     \/ SelectPage
     \/ SelectFails
     \/ NextPage
     \/ \E c \in Campaigns : FullRow(c)
  /\ UNCHANGED <<campaign, stored, mark, crm, job>>

ReaderStart ==
  /\ query.pc = "off"
  /\ \/ \E of \in Filters, imported \in {"either", "true", "false"} :
          \/ \E page \in PageParams, limit \in LimitParams : List(of, imported, page, limit)
          \/ \E page \in PageParams : Export(of, imported, page)
     \/ \E c \in Campaigns : Full(c)
  /\ UNCHANGED tableVars

\* An import, as far as a reader can tell.
ImportMarks(l) ==
  /\ l \in stored /\ mark[l] = None
  /\ \E r \in Imports :
       /\ mark' = [mark EXCEPT ![l] = <<r, 1>>]
       /\ crm' = crm \cup {[id |-> <<r, 1>>, lead |-> l]}
  /\ UNCHANGED <<campaign, stored, job, faults>>

\* How a step of the others moves the rows that the reader is after.
Watching ==
  LET before == Matching(query)
      after  == MatchingIn(stored', mark', query.of, query.imported)
      moves  == (IF after \subseteq before THEN {} ELSE {"in"})
                \cup (IF before \subseteq after THEN {} ELSE {"out"})
  IN  query' = IF query.pc = "off" THEN query
               ELSE [query EXCEPT !.moved = @ \cup moves, !.fresh = @ /\ moves = {}]

\* What the others do after the reading is nothing that it could see.
QueryNext ==
  \/ ReaderStart
  \/ ReaderStep
  \/ /\ query.pc \notin {"done", "error"}
     /\ OthersNext \/ \E l \in Leads : ImportMarks(l)
     /\ Watching

QuerySpec == QueryInit /\ [][QueryNext]_queryVars

-----------------------------------------------------------------------------
(* Properties *)

ReadItems == FlattenSeq(query.pages)

\* The order of the rows is the same in every statement.
NoTies == \A l1, l2 \in query.of : Score[l1] = Score[l2] => l1 = l2

\* The caller asked for everything: from the first page on, to a page that was
\* not full. An export always means that.
FromTheTop == query.op = "export" \/ query.page = Len(query.pages)
ToTheEnd == query.op = "list" /\ Len(Last(query.pages)) < query.limit

\* One statement reads everything that may match.
OnePage == Len(query.pages) = 1 /\ Cardinality(query.of) <= query.limit

\* Reading page after page by OFFSET while jobs store leads shows every lead that
\* was there from the start - it may show one twice - and exactly those when
\* nothing changes. This takes different scores (service.go:69) and rows that do
\* not leave the selection, as they do when "imported=false" is listed and
\* imported. An export of at most 5000 leads shows whatever was there all the
\* time, with equal scores and whatever left the selection.
ScanSeesAll ==
  query.pc = "done" /\ query.op # "full" /\ ~query.hitch /\ FromTheTop =>
    /\ ToTheEnd /\ NoTies /\ "out" \notin query.moved => query.began \subseteq ToSet(ReadItems)
    /\ OnePage => query.began \cap Matching(query) \subseteq ToSet(ReadItems)
    /\ query.moved = {} /\ ((ToTheEnd /\ NoTies) \/ OnePage)
         => Len(ReadItems) = Cardinality(query.began)

\* "total" and the items of a page are two statements (service.go:75-78). They
\* agree, ties or not, unless a row moved between them or a statement failed.
TotalFitsPage ==
  /\ query.pc \in {"page", "done"} /\ query.pages # <<>>
  /\ query.fresh /\ ~query.hitch
  => Len(Last(query.pages)) = Cardinality({i \in 1..query.total :
                                i > Offset(query) /\ i <= Offset(query) + query.limit})

\* /full never says DONE with fewer leads than it counts: it reads the status
\* first, and the job writes it last (main.go:145-152, worker.go:108-115). It may
\* show more (a retry, another job) or show all the leads of a RUNNING campaign.
FullShowsFound ==
  /\ query.pc = "done" /\ query.op = "full" /\ ~query.hitch
  /\ "out" \notin query.moved
  /\ query.row.found <= FullLimit
  => query.row.found <= Len(ReadItems)
=============================================================================
