--------------------------- MODULE ProviderSearch ---------------------------
(***************************************************************************)
(* The paging loops of the provider adapters (internal/providers): each    *)
(* Search asks an external service for one page after another until it has *)
(* "limit" leads or the service has no more.                               *)
(*                                                                         *)
(* The service holds a catalogue of "total" items in a fixed order, which  *)
(* does not change while one search runs; item k is the number k. What     *)
(* differs between the adapters is kept: how a page is addressed, how many *)
(* items are asked for, and which answers end the loop.                    *)
(***************************************************************************)
EXTENDS Integers, Sequences, FiniteSets

CONSTANTS
  PageSize,  \* PageSize[a]: the page size written in adapter a, scaled down
  MaxLimit,  \* bound: the largest limit of a search
  MaxTotal   \* bound: the largest catalogue

Adapters == {"github", "apollo", "hunter", "yelp", "product_hunt", "proxycurl",
             "crunchbase", "serpapi"}

ASSUME SearchAssumption ==
  /\ PageSize \in [Adapters -> Nat \ {0}]
  /\ MaxLimit \in Nat \ {0} /\ MaxTotal \in Nat

VARIABLES
  adapter,  \* whose Search this is
  limit,    \* f.Limit, or the adapter's default when that is not positive
  total,    \* the size of the service's catalogue
  pos,      \* page - 1, offset, start, or the item that cursor/after/next_page names
  all,      \* the leads collected so far
  asked,    \* the requests made so far
  pc,       \* "loop" while the for loop runs, then "done"
  hitches   \* what went wrong on the service's side so far

vars == <<adapter, limit, total, pos, all, asked, pc, hitches>>

PageNumbered == {"github", "apollo"}              \* page=1, 2, ...
Shrinking    == {"github", "apollo", "hunter", "yelp", "product_hunt"}

\* "short": an answer held less than was asked for and the service had;
\* "dropped": an item of an answer did not become a lead;
\* "failed": a request failed, was refused, or answered with nothing.
Hitches == {"short", "dropped", "failed"}

TypeOK ==
  /\ adapter \in Adapters
  /\ limit \in 1..MaxLimit
  /\ total \in 0..MaxTotal
  /\ pos \in 0..total
  /\ all \in Seq(1..total)
  /\ asked \in Nat
  /\ pc \in {"loop", "done"}
  /\ hitches \subseteq Hitches

Init ==
  /\ adapter \in Adapters
  /\ limit \in 1..MaxLimit
  /\ total \in 0..MaxTotal
  /\ pos = 0 /\ all = <<>> /\ asked = 0
  /\ pc = "loop"
  /\ hitches = {}

-----------------------------------------------------------------------------
(* Requests and answers *)

proxycurlMin(a, b) == IF a < b THEN a ELSE b

\* Mutant of perPage: the page is not cut to what is still missing.
perPageFull == PageSize[adapter]

\* How many items the next request asks for. Proxycurl's page_size is fixed by
\* its first request: every next_page repeats it.
perPage ==
  CASE adapter \in Shrinking   -> proxycurlMin(PageSize[adapter], limit - Len(all))
    [] adapter = "proxycurl"   -> proxycurlMin(PageSize[adapter], limit)
    [] OTHER                   -> PageSize[adapter]

\* The number of items in front of the page that the request addresses.
Before == IF adapter \in PageNumbered THEN pos * perPage ELSE pos

\* How many items the service could answer with.
Available == IF Before >= total THEN 0 ELSE proxycurlMin(perPage, total - Before)

\* The first n items of the page.
Page(n) == [i \in 1..n |-> Before + i]

\* The ways to enumerate a set: the order in which goroutines deliver.
Arrivals(S) == {s \in [1..Cardinality(S) -> S] : \A i, j \in DOMAIN s : s[i] = s[j] => i = j}

Short(n) == IF n < Available THEN {"short"} ELSE {}

\* One turn of the loop: "leads" are appended, "next" is where the next request
\* starts, "last" says whether the body of the loop ends in a break.
Turn(a, leads, next, last) ==
  /\ pc = "loop" /\ adapter = a
  /\ all' = all \o leads
  /\ pos' = next
  /\ asked' = asked + 1
  /\ pc' = IF last \/ Len(all') >= limit THEN "done" ELSE "loop"
  /\ UNCHANGED <<adapter, limit, total>>

-----------------------------------------------------------------------------
(* The loops. An answer holds n items. *)

\* Mutant of Github: the page number is never advanced.
GithubSamePage(n) ==
  \E kept \in SUBSET (Before + 1 .. Before + n) : \E leads \in Arrivals(kept) :
    /\ Turn("github", leads, pos, n < perPage)
    /\ hitches' = hitches \cup Short(n) \cup (IF Len(leads) < n THEN {"dropped"} ELSE {})

\* Every organisation is looked up in a goroutine of its own; those whose lookup
\* fails are dropped, the others are appended as they arrive.
Github(n) ==
  \E kept \in SUBSET (Before + 1 .. Before + n) : \E leads \in Arrivals(kept) :
    /\ Turn("github", leads, pos + 1, n < perPage)
    /\ hitches' = hitches \cup Short(n) \cup (IF Len(leads) < n THEN {"dropped"} ELSE {})

\* Ends as well once it has as many leads as the service says there are.
Apollo(n) ==
  /\ Turn("apollo", Page(n), pos + 1, Len(all) + n >= total \/ n < perPage)
  /\ hitches' = hitches \cup Short(n)

Hunter(n) ==
  /\ Turn("hunter", Page(n), IF n < perPage THEN pos ELSE pos + perPage, n < perPage)
  /\ hitches' = hitches \cup Short(n)

\* Mutant of Yelp: a short page does not end the loop.
YelpUnbroken(n) ==
  /\ Turn("yelp", Page(n), pos + perPage, FALSE)
  /\ hitches' = hitches \cup Short(n)

Yelp(n) ==
  /\ Turn("yelp", Page(n), IF n < perPage THEN pos ELSE pos + perPage, n < perPage)
  /\ hitches' = hitches \cup Short(n)

\* Mutant of ProductHunt: a short page ends the loop, as in Yelp.
ProductHuntShort(n) ==
  /\ Turn("product_hunt", Page(n), pos + n, n < perPage)
  /\ hitches' = hitches \cup Short(n)

\* The cursor is that of the last edge; hasNextPage decides about the next turn.
ProductHunt(n) ==
  /\ Turn("product_hunt", Page(n), pos + n, pos + n >= total)
  /\ hitches' = hitches \cup Short(n)

\* next_page is empty at the end of the catalogue.
Proxycurl(n) ==
  /\ Turn("proxycurl", Page(n), pos + n, pos + n >= total)
  /\ hitches' = hitches \cup Short(n)

\* Mutant of Crunchbase: after_id is never set.
CrunchbaseRestarts(n) ==
  /\ Turn("crunchbase", Page(n), pos, n < perPage)
  /\ hitches' = hitches \cup Short(n)

\* after_id is the last item of the page.
Crunchbase(n) ==
  /\ Turn("crunchbase", Page(n), pos + n, n < perPage)
  /\ hitches' = hitches \cup Short(n)

SerpAPI(n) ==
  /\ Turn("serpapi", Page(n), IF n < perPage THEN pos ELSE pos + perPage, n < perPage)
  /\ hitches' = hitches \cup Short(n)

\* No item in the answer: the request failed or was refused, the answer did not
\* decode, or there is nothing on this page. What was collected is returned, and
\* never an error.
Break ==
  /\ pc = "loop"
  /\ pc' = "done"
  /\ asked' = asked + 1
  /\ hitches' = IF Available > 0 THEN hitches \cup {"failed"} ELSE hitches
  /\ UNCHANGED <<adapter, limit, total, pos, all>>

Next ==
  \/ \E n \in 1..Available :
       \/ Github(n) \/ Apollo(n) \/ Hunter(n) \/ Yelp(n)
       \/ ProductHunt(n) \/ Proxycurl(n) \/ Crunchbase(n) \/ SerpAPI(n)
  \/ Break

Spec == Init /\ [][Next]_vars

-----------------------------------------------------------------------------
(* Properties *)

\* The loops that address a page by item return the catalogue from its start,
\* nothing skipped, repeated or reordered, whatever answers come: the page asked
\* for shrinks as the limit nears, and the next one starts where it ended.
CollectsPrefix ==
  adapter \notin PageNumbered => all = [i \in 1..Len(all) |-> i]

\* A limit that a page-numbered loop reaches in pages of one size.
EvenPages ==
  adapter \in PageNumbered => limit <= PageSize[adapter] \/ limit % PageSize[adapter] = 0

\* The loops that go on after a short page.
Tolerated == IF adapter \in {"product_hunt", "proxycurl"} THEN {"short"} ELSE {}

Target == proxycurlMin(limit, total)

Distinct == Cardinality({all[i] : i \in DOMAIN all})

\* A search that nothing disturbed (a loop that looks at hasNextPage or next_page
\* is not disturbed by a short page) has as many different leads as the limit
\* asks for and the service has - in EvenPages for github and apollo.
GetsTheTarget ==
  pc = "done" /\ hitches \subseteq Tolerated /\ EvenPages => Distinct >= Target

\* How far a search may exceed what the user asked for: not at all where the
\* page shrinks, by less than a page elsewhere.
LimitKept ==
  IF adapter \in Shrinking THEN Len(all) <= limit ELSE Len(all) < limit + PageSize[adapter]

\* Every loop ends after a bounded number of requests, each of which costs the
\* user quota: at most one for each item and one more, even if no item becomes a
\* lead (github.go:79-86) and every page is short.
RequestsBounded == asked <= total + 1

\* What worker.go:48-49 wants of "the full target" given to each provider: no
\* under-collection while the provider has more and nothing goes wrong.
FullTarget == pc = "done" /\ hitches = {} => Distinct >= Target
=============================================================================
