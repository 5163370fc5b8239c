---------------------------- MODULE NamedSearch -----------------------------
(***************************************************************************)
(* The two searches that drop the leads whose name they have seen: the     *)
(* Places API of google_maps, which asks several queries page by page until*)
(* it has enough (internal/providers/google_maps.go, searchViaPlacesAPI),  *)
(* and remoteok, which filters one answer (remoteok.go, Search).           *)
(*                                                                         *)
(* The services are external and answer anything: any page, with or without*)
(* a token for a next one, an error, or nothing before the deadline of the *)
(* job. What placeDetails adds to a lead, or fails to, changes no decision.*)
(***************************************************************************)
EXTENDS Integers, FiniteSets, SequencesExt

CONSTANTS
  Names,         \* the names of businesses, as the services spell them
  Lower,         \* strings.ToLower of each name
  NoName,        \* ""
  Queries,       \* the number of queriesForFilters
  PageSize,      \* 20: the most results of one page
  Limits,        \* the values of SearchFilters.Limit
  PlacesLimit,   \* 60: the default of google_maps
  RemoteLimit,   \* 500: the default of remoteok
  MaxJobs        \* bound: the jobs in an answer of remoteok

ASSUME NamedAssumption ==
  /\ Queries \in Nat \ {0} /\ PageSize \in Nat \ {0} /\ MaxJobs \in Nat
  /\ PlacesLimit \in Nat \ {0} /\ RemoteLimit \in Nat \ {0}
  /\ Limits \subseteq Int
  /\ NoName \notin Names

VARIABLES
  adapter,   \* which of the two searches it is
  limit,     \* the limit, after its default
  pc,        \* "ask" before each request, "done" after return
  query,     \* the query being asked
  token,     \* pageToken, named by the query that it continues; 0 is ""
  all,       \* the names of the leads collected
  jobs,      \* what remoteok answered
  expired,   \* the deadline of the job has passed
  asked,     \* ghost: how each query ended
  offered    \* ghost: every name that an answer had

namedVars == <<adapter, limit, pc, query, token, all, jobs, expired, asked, offered>>

Job == [company : Names \cup {NoName}, matches : BOOLEAN]

TypeOK ==
  /\ adapter \in {"places", "remoteok"}
  /\ limit \in Nat \ {0}
  /\ pc \in {"ask", "done"}
  /\ query \in 1..Queries
  /\ token \in {0, query}
  /\ all \in Seq(Names)
  /\ jobs \in Seq(Job)
  /\ expired \in BOOLEAN
  /\ asked \in [1..Queries -> {"no", "begun", "to the end", "failed"}]
  /\ offered \subseteq Names

OrDefault(n, default) == IF n <= 0 THEN default ELSE n

NamedInit ==
  /\ adapter \in {"places", "remoteok"}
  /\ \E n \in Limits :
       limit = OrDefault(n, IF adapter = "places" THEN PlacesLimit ELSE RemoteLimit)
  /\ pc = "ask" /\ query = 1 /\ token = 0
  /\ all = <<>> /\ jobs = <<>>
  /\ expired = FALSE
  /\ asked = [q \in 1..Queries |-> "no"]
  /\ offered = {}

-----------------------------------------------------------------------------
(* google_maps *)

\* Mutant of Unseen: seenName is made anew for every page.
UnseenOnPage(names, results) ==
  FoldLeft(LAMBDA new, n : IF \E i \in DOMAIN new : Lower[new[i]] = Lower[n]
                           THEN new ELSE Append(new, n), <<>>, results)

\* The results whose lower-cased names are not among the given ones.
Unseen(names, results) ==
  FoldLeft(LAMBDA new, n : IF \/ \E i \in DOMAIN names : Lower[names[i]] = Lower[n]
                              \/ \E i \in DOMAIN new : Lower[new[i]] = Lower[n]
                           THEN new ELSE Append(new, n), <<>>, results)

\* Mutants of NextQuery: the token of the last query is kept; the first failure
\* ends the search.
NextQueryKeepsToken(names, how) ==
  /\ asked' = [asked EXCEPT ![query] = how]
  /\ IF Len(names) < limit /\ query < Queries
     THEN query' = query + 1 /\ UNCHANGED <<token, pc>>
     ELSE pc' = "done" /\ UNCHANGED <<query, token>>
NextQueryUnlessFailed(names, how) ==
  /\ asked' = [asked EXCEPT ![query] = how]
  /\ IF Len(names) < limit /\ query < Queries /\ how # "failed"
     THEN query' = query + 1 /\ token' = 0 /\ UNCHANGED pc
     ELSE pc' = "done" /\ UNCHANGED <<query, token>>

\* The inner loop is left; "how" is what ended this query.
NextQuery(names, how) ==
  /\ asked' = [asked EXCEPT ![query] = how]
  /\ IF Len(names) < limit /\ query < Queries
     THEN query' = query + 1 /\ token' = 0 /\ UNCHANGED pc
     ELSE pc' = "done" /\ UNCHANGED <<query, token>>

\* Mutant of GoesOn: the limit is tested only between queries.
GoesOnToTheEnd(names, results, more) == more /\ results # <<>>

\* Another page of this query is needed and there.
GoesOn(names, results, more) == more /\ results # <<>> /\ Len(names) < limit

\* An answer, with a token if "more". One that is not JSON is an empty page, and
\* one that breaks off may have any part of it.
PageArrives(results, more) ==
  LET names == all \o Unseen(all, results) IN
  /\ adapter = "places" /\ pc = "ask" /\ ~expired
  /\ all' = names
  /\ offered' = offered \cup ToSet(results)
  /\ IF GoesOn(names, results, more)
     THEN /\ token' = query
          /\ asked' = [asked EXCEPT ![query] = "begun"]
          /\ UNCHANGED <<query, pc>>
     ELSE NextQuery(names, IF more /\ results # <<>> THEN "begun" ELSE "to the end")
  /\ UNCHANGED <<adapter, limit, jobs, expired>>

\* Mutant of PageFails: a page that could not be had is asked for again.
PageFailsAgain ==
  /\ adapter = "places" /\ pc = "ask"
  /\ UNCHANGED namedVars

\* An error of the request: on to the next query. When the context of the job has
\* ended, every request is such an error.
PageFails ==
  /\ adapter = "places" /\ pc = "ask"
  /\ NextQuery(all, "failed")
  /\ UNCHANGED <<adapter, limit, all, jobs, expired, offered>>

-----------------------------------------------------------------------------
(* remoteok *)

Want(leads, job) == job.company # NoName /\ job.matches /\ Len(leads) < limit

\* Mutant of Companies: a company counts as seen before its job is matched.
CompaniesSeenFirst(list) ==
  SelectSeq(FoldLeft(LAMBDA leads, job : IF job.company \in {leads[i].company : i \in DOMAIN leads}
                                         THEN leads ELSE Append(leads, job), <<>>, list),
            LAMBDA job : Want(<<>>, job))

\* The companies of the jobs that match, each once, up to the limit.
Companies(list) ==
  FoldLeft(LAMBDA leads, job : IF Want(leads, job) /\ \A i \in DOMAIN leads : leads[i].company # job.company
                               THEN Append(leads, job) ELSE leads, <<>>, list)

JobsArrive(list) ==
  /\ adapter = "remoteok" /\ pc = "ask" /\ ~expired
  /\ jobs' = list
  /\ all' = [i \in DOMAIN Companies(list) |-> Companies(list)[i].company]
  /\ pc' = "done"
  /\ UNCHANGED <<adapter, limit, query, token, expired, asked, offered>>

JobsFail ==
  /\ adapter = "remoteok" /\ pc = "ask"
  /\ pc' = "done"
  /\ UNCHANGED <<adapter, limit, query, token, all, jobs, expired, asked, offered>>

-----------------------------------------------------------------------------

Expire ==
  /\ ~expired
  /\ expired' = TRUE
  /\ UNCHANGED <<adapter, limit, pc, query, token, all, jobs, asked, offered>>

Pages == UNION {[1..n -> Names] : n \in 0..PageSize}
JobLists == UNION {[1..n -> Job] : n \in 0..MaxJobs}

SearchStep ==
  \/ \E results \in Pages, more \in BOOLEAN : PageArrives(results, more)
  \/ PageFails
  \/ \E list \in JobLists : JobsArrive(list)
  \/ JobsFail

NamedNext == SearchStep \/ Expire

NamedSpec == NamedInit /\ [][NamedNext]_namedVars

\* A request ends, at the latest with its context; and the context ends.
NamedFairSpec == NamedSpec /\ WF_namedVars(SearchStep) /\ WF_namedVars(Expire)

-----------------------------------------------------------------------------
(* Properties *)

\* A name is collected once, however the pages of the queries overlap: up to case
\* by google_maps (google_maps.go:145), as it is spelled by remoteok (remoteok.go:62).
NamesDistinct ==
  \A i, j \in DOMAIN all :
    (IF adapter = "places" THEN Lower[all[i]] = Lower[all[j]] ELSE all[i] = all[j]) => i = j

\* google_maps collects less than one page more than it is asked for: the limit is
\* tested before each request and not for each result (google_maps.go:109).
OvershootBounded ==
  adapter = "places" => Len(all) < limit + PageSize

\* A search that comes back with too few leads has given each query its chance:
\* to its last page or to an error of its own, whatever happened to the queries
\* before (google_maps.go:127); and nothing that was offered is missing.
FailureStaysInQuery ==
  adapter = "places" /\ pc = "done" =>
    /\ \A n \in offered : \E i \in DOMAIN all : Lower[all[i]] = Lower[n]
    /\ Len(all) < limit => \A q \in 1..Queries : asked[q] \in {"to the end", "failed"}

\* A company is found through any of its jobs that matches, though others do not
\* (remoteok.go:62, :84, :89).
AnyJobCounts ==
  adapter = "remoteok" =>
    LET found == {jobs[i].company : i \in {k \in DOMAIN jobs : jobs[k].matches}} \ {NoName} IN
    /\ ToSet(all) \subseteq found
    /\ Len(all) = IF jobs = <<>> \/ Cardinality(found) < limit THEN Cardinality(found) ELSE limit

\* A search ends, even if the service has tokens forever and nothing new to offer:
\* the deadline of the job fails the next request (google_maps.go:125).
Ends == <>(pc = "done")
=============================================================================
