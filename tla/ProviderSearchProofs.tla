------------------------ MODULE ProviderSearchProofs ------------------------
(***************************************************************************)
(* What the paging loops of ProviderSearch return, proved for every page   *)
(* size, limit and catalogue, with the page sizes of the code among them.  *)
(***************************************************************************)
EXTENDS ProviderSearch, FoldFacts, TLAPS

\* A loop that goes on is below its limit, every request has moved its position,
\* and an item-addressed position counts its leads.
InLoop ==
  pc = "loop" =>
    /\ Len(all) < limit
    /\ asked <= pos
    /\ adapter \notin PageNumbered => pos = Len(all)

SearchInv == TypeOK /\ InLoop /\ CollectsPrefix /\ LimitKept /\ RequestsBounded

-----------------------------------------------------------------------------
(* One turn of the loop *)

\* The page that a request addresses.
LEMMA PageFacts ==
  ASSUME TypeOK, InLoop, pc = "loop", NEW n \in 1..Available
  PROVE  /\ n \in Nat /\ n >= 1
         /\ perPage \in Nat /\ perPage >= 1 /\ perPage <= PageSize[adapter]
         /\ n <= perPage
         /\ Before \in Nat /\ Before + n <= total
         /\ adapter \in Shrinking => Len(all) + perPage <= limit
         /\ adapter \in PageNumbered => pos + 1 <= total
         /\ adapter \notin PageNumbered => Before = pos
<1> USE SearchAssumption
<1>1. /\ PageSize[adapter] \in Nat /\ PageSize[adapter] >= 1
      /\ limit \in Nat /\ total \in Nat /\ pos \in Nat /\ Len(all) \in Nat
      /\ Len(all) < limit
  BY DEF TypeOK, InLoop
<1>2. /\ perPage \in Nat /\ perPage >= 1 /\ perPage <= PageSize[adapter]
      /\ adapter \in Shrinking => Len(all) + perPage <= limit
  <2>1. CASE adapter \in Shrinking
    BY <1>1, <2>1 DEF perPage, proxycurlMin, Shrinking
  <2>2. CASE adapter = "proxycurl"
    BY <1>1, <2>2 DEF perPage, proxycurlMin, Shrinking
  <2>3. CASE adapter \notin Shrinking /\ adapter # "proxycurl"
    BY <1>1, <2>3 DEF perPage
  <2>4. QED
    BY <2>1, <2>2, <2>3
<1>3. /\ Before \in Nat
      /\ adapter \in PageNumbered => Before >= pos
      /\ adapter \notin PageNumbered => Before = pos
  <2>1. pos * perPage \in Nat /\ pos * perPage >= pos
    BY <1>1, <1>2
  <2>2. QED
    BY <1>1, <2>1 DEF Before
<1>4. /\ n \in Nat /\ n >= 1 /\ n <= Available /\ Available \in Nat
      /\ Before < total /\ Available <= perPage /\ Available <= total - Before
  BY <1>1, <1>2, <1>3 DEF Available, proxycurlMin
<1>5. QED
  BY <1>1, <1>2, <1>3, <1>4

LEMMA PageTyped ==
  ASSUME TypeOK, InLoop, pc = "loop", NEW n \in 1..Available
  PROVE  /\ Page(n) \in Seq(1..total)
         /\ Len(Page(n)) = n
         /\ \A i \in 1..n : Page(n)[i] = Before + i
<1>1. n \in Nat /\ Before \in Nat /\ Before + n <= total /\ total \in Nat
  BY PageFacts DEF TypeOK
<1>2. \A i \in 1..n : Before + i \in 1..total
  BY <1>1
<1>3. QED
  BY <1>1, <1>2 DEF Page

LEMMA TurnSays ==
  ASSUME NEW a, NEW leads, NEW next, NEW last, Turn(a, leads, next, last)
  PROVE  /\ pc = "loop" /\ adapter = a
         /\ all' = all \o leads /\ pos' = next /\ asked' = asked + 1
         /\ pc' \in {"loop", "done"}
         /\ pc' = "loop" => ~last /\ ~(Len(all') >= limit)
         /\ adapter' = adapter /\ limit' = limit /\ total' = total
BY Zenon DEF Turn

\* A turn whose leads are the page, and that goes on behind it, keeps the
\* invariant; page-numbered loops need not keep the leads in order.
LEMMA TurnKeeps ==
  ASSUME SearchInv, pc = "loop", NEW n \in 1..Available, NEW leads \in Seq(1..total),
         Len(leads) <= n,
         all' = all \o leads,
         asked' = asked + 1,
         pos' \in 0..total,
         pc' \in {"loop", "done"},
         pc' = "loop" => ~(Len(all') >= limit),
         adapter' = adapter, limit' = limit, total' = total,
         hitches' \subseteq Hitches,
         pc' = "loop" => pos' > pos,
         adapter \notin PageNumbered =>
           leads = Page(n) /\ (pc' = "loop" => pos' = pos + n)
  PROVE  SearchInv'
<1>1. /\ all' = all \o leads /\ adapter' = adapter /\ limit' = limit /\ total' = total
      /\ asked' = asked + 1
  OBVIOUS
<1>2. TypeOK /\ InLoop /\ CollectsPrefix /\ LimitKept /\ RequestsBounded
  BY DEF SearchInv
<1>3. /\ n \in Nat /\ n >= 1
      /\ perPage \in Nat /\ perPage <= PageSize[adapter]
      /\ n <= perPage
      /\ adapter \in Shrinking => Len(all) + perPage <= limit
      /\ adapter \notin PageNumbered => Before = pos
  BY <1>1, <1>2, PageFacts
<1>4. /\ all \in Seq(1..total) /\ limit \in Nat /\ total \in Nat
      /\ Len(all) \in Nat /\ Len(all) < limit
      /\ pos \in Nat /\ pos <= total /\ asked \in Nat /\ asked <= pos
      /\ adapter \notin PageNumbered => pos = Len(all)
  BY <1>1, <1>2 DEF TypeOK, InLoop
<1>5. /\ all' \in Seq(1..total)
      /\ Len(all') = Len(all) + Len(leads) /\ Len(leads) \in Nat
  BY <1>1, <1>4
<1>6. TypeOK'
  BY <1>1, <1>2, <1>5 DEF TypeOK
<1>7. adapter \notin PageNumbered => /\ Len(leads) = n
                                     /\ \A i \in 1..n : leads[i] = Len(all) + i
  BY <1>1, <1>2, <1>3, <1>4, PageTyped
<1>8. InLoop'
  <2>1. SUFFICES ASSUME pc' = "loop"
                 PROVE  /\ Len(all') < limit
                        /\ asked' <= pos'
                        /\ adapter \notin PageNumbered => pos' = Len(all')
    BY <1>1 DEF InLoop
  <2>2. ~(Len(all') >= limit)
    BY <2>1, Zenon
  <2>3. Len(all') < limit
    BY <1>4, <1>5, <2>2
  <2>4. adapter \notin PageNumbered => pos' = pos + n
    BY <2>1, Zenon
  <2>5. adapter \notin PageNumbered => pos' = Len(all')
    BY <1>4, <1>5, <1>7, <2>4
  <2>6. pos' > pos /\ pos' \in Nat
    BY <2>1
  <2>7. asked' <= pos'
    BY <1>1, <1>4, <2>6
  <2>8. QED
    BY <2>3, <2>5, <2>7
<1>9. CollectsPrefix'
  <2>1. SUFFICES ASSUME adapter \notin PageNumbered
                 PROVE  all' = [i \in 1..Len(all') |-> i]
    BY <1>1 DEF CollectsPrefix
  <2>2. all = [i \in 1..Len(all) |-> i]
    BY <1>2, <2>1 DEF CollectsPrefix
  <2>3. \A i \in 1..Len(all') : all'[i] = i
    <3>1. TAKE i \in 1..Len(all')
    <3>2. CASE i <= Len(all)
      <4>1. i \in 1..Len(all) /\ all'[i] = all[i]
        BY <1>1, <1>4, <1>5, <3>2
      <4>2. all[i] = i
        BY <2>2, <4>1
      <4>3. QED
        BY <4>1, <4>2
    <3>3. CASE i > Len(all)
      <4>1. i - Len(all) \in 1..n /\ all'[i] = leads[i - Len(all)]
        BY <1>1, <1>3, <1>4, <1>5, <1>7, <2>1, <3>3
      <4>2. leads[i - Len(all)] = Len(all) + (i - Len(all))
        BY <1>7, <2>1, <4>1
      <4>3. QED
        BY <1>4, <1>5, <4>1, <4>2
    <3>4. QED
      BY <1>4, <1>5, <3>2, <3>3
  <2>4. all' = [i \in 1..Len(all') |-> all'[i]]
    BY <1>5, LenProperties
  <2>5. QED
    BY <2>3, <2>4, Zenon
<1>10. LimitKept'
  <2>1. PageSize[adapter] \in Nat
    BY <1>2, SearchAssumption DEF TypeOK
  <2>2. /\ Len(all') <= Len(all) + perPage
        /\ Len(all') < limit + PageSize[adapter]
    BY <1>3, <1>4, <1>5, <2>1
  <2>3. adapter \in Shrinking => Len(all') <= limit
    BY <1>3, <1>4, <1>5, <2>2
  <2>4. QED
    BY <1>1, <2>2, <2>3 DEF LimitKept
<1>11. RequestsBounded'
  BY <1>1, <1>4 DEF RequestsBounded
<1>12. QED
  BY <1>6, <1>8, <1>9, <1>10, <1>11 DEF SearchInv

\* However the goroutines of a github page deliver, they deliver at most the page.
LEMMA ArrivalsTyped ==
  ASSUME NEW b \in Nat, NEW n \in Nat, NEW m \in Nat, b + n <= m,
         NEW kept \in SUBSET (b + 1 .. b + n), NEW leads \in Arrivals(kept)
  PROVE  leads \in Seq(1..m) /\ Len(leads) <= n
<1>1. /\ IsFiniteSet(b + 1 .. b + n) /\ Cardinality(b + 1 .. b + n) \in Nat
      /\ Cardinality(b + 1 .. b + n) <= n
  <2>1. b + 1 \in Int /\ b + n \in Int
    OBVIOUS
  <2>2. /\ IsFiniteSet(b + 1 .. b + n)
        /\ Cardinality(b + 1 .. b + n) = IF b + 1 > b + n THEN 0 ELSE (b + n) - (b + 1) + 1
    BY <2>1, FS_Interval
  <2>3. QED
    BY <2>2
<1>2. IsFiniteSet(kept) /\ Cardinality(kept) <= n /\ Cardinality(kept) \in Nat
  <2>1. IsFiniteSet(kept) /\ Cardinality(kept) <= Cardinality(b + 1 .. b + n)
    BY <1>1, FS_Subset
  <2>2. Cardinality(kept) \in Nat
    BY <2>1, FS_CardinalityType
  <2>3. QED
    BY <1>1, <2>1, <2>2
<1>3. leads \in [1..Cardinality(kept) -> kept]
  BY DEF Arrivals
<1>4. kept \subseteq 1..m
  BY SMT
<1>5. leads \in [1..Cardinality(kept) -> 1..m]
  BY <1>3, <1>4
<1>6. QED
  BY <1>2, <1>5

-----------------------------------------------------------------------------
(* The invariant *)

LEMMA SearchInvInit == Init => SearchInv
BY SearchAssumption DEF Init, SearchInv, TypeOK, InLoop, CollectsPrefix, LimitKept,
   RequestsBounded

LEMMA SearchInvNext == SearchInv /\ [Next]_vars => SearchInv'
<1> SUFFICES ASSUME SearchInv, [Next]_vars PROVE SearchInv'
  OBVIOUS
<1>1. ASSUME NEW n \in 1..Available,
             \/ Github(n) \/ Apollo(n) \/ Hunter(n) \/ Yelp(n)
             \/ ProductHunt(n) \/ Proxycurl(n) \/ Crunchbase(n) \/ SerpAPI(n)
      PROVE  SearchInv'
  <2>1. pc = "loop"
    BY <1>1 DEF Github, Apollo, Hunter, Yelp, ProductHunt, Proxycurl, Crunchbase,
                SerpAPI, Turn
  <2>2. TypeOK /\ InLoop
    BY DEF SearchInv
  <2>3. /\ n \in Nat /\ n >= 1 /\ perPage \in Nat /\ n <= perPage
        /\ Before \in Nat /\ Before + n <= total
        /\ adapter \in PageNumbered => pos + 1 <= total
        /\ adapter \notin PageNumbered => Before = pos
    BY <2>1, <2>2, PageFacts
  <2>4. pos \in Nat /\ pos <= total /\ total \in Nat /\ hitches \subseteq Hitches
    BY <2>2 DEF TypeOK
  <2>5. Page(n) \in Seq(1..total) /\ Len(Page(n)) <= n
    BY <2>1, <2>2, <2>3, PageTyped
  <2>6. hitches \cup Short(n) \subseteq Hitches
    BY <2>4 DEF Short, Hitches
  <2>7. CASE Github(n)
    <3>1. PICK kept \in SUBSET (Before + 1 .. Before + n) : \E leads \in Arrivals(kept) :
            /\ Turn("github", leads, pos + 1, n < perPage)
            /\ hitches' = hitches \cup Short(n)
                 \cup (IF Len(leads) < n THEN {"dropped"} ELSE {})
      BY <2>7 DEF Github
    <3>2. PICK leads \in Arrivals(kept) :
            /\ Turn("github", leads, pos + 1, n < perPage)
            /\ hitches' = hitches \cup Short(n)
                 \cup (IF Len(leads) < n THEN {"dropped"} ELSE {})
      BY <3>1
    <3>3. leads \in Seq(1..total) /\ Len(leads) <= n
      BY <2>3, <2>4, ArrivalsTyped
    <3>4. hitches' \subseteq Hitches
      BY <2>6, <3>2 DEF Hitches
    <3>5. pos + 1 \in 0..total
      BY <2>3, <2>4, <3>2 DEF Turn, PageNumbered
    <3>6. /\ adapter = "github" /\ all' = all \o leads /\ pos' = pos + 1
          /\ asked' = asked + 1
          /\ pc' \in {"loop", "done"} /\ (pc' = "loop" => ~(Len(all') >= limit))
          /\ adapter' = adapter /\ limit' = limit /\ total' = total
      BY <3>2, TurnSays, Zenon
    <3>7. adapter \in PageNumbered /\ pos' > pos
      BY <2>4, <3>6 DEF PageNumbered
    <3>8. QED
      BY <2>1, <3>3, <3>4, <3>5, <3>6, <3>7, TurnKeeps
  <2>8. CASE Apollo(n)
    <3>1. pos + 1 \in 0..total
      BY <2>3, <2>4, <2>8 DEF Apollo, Turn, PageNumbered
    <3>2. /\ adapter = "apollo" /\ all' = all \o Page(n) /\ pos' = pos + 1
          /\ asked' = asked + 1
          /\ pc' \in {"loop", "done"} /\ (pc' = "loop" => ~(Len(all') >= limit))
          /\ adapter' = adapter /\ limit' = limit /\ total' = total
          /\ hitches' = hitches \cup Short(n)
      BY <2>8, TurnSays, Zenon DEF Apollo
    <3>3. adapter \in PageNumbered /\ pos' > pos
      BY <2>4, <3>2 DEF PageNumbered
    <3>4. QED
      BY <2>1, <2>5, <2>6, <3>1, <3>2, <3>3, TurnKeeps
  <2>9. ASSUME NEW a, a \notin PageNumbered, NEW next, NEW last,
               Turn(a, Page(n), next, last), hitches' = hitches \cup Short(n),
               next \in {pos, pos + n}, last \/ next = pos + n
        PROVE  SearchInv'
    <3>1. /\ adapter = a /\ all' = all \o Page(n) /\ pos' = next /\ asked' = asked + 1
          /\ pc' \in {"loop", "done"} /\ (pc' = "loop" => ~last /\ ~(Len(all') >= limit))
          /\ adapter' = adapter /\ limit' = limit /\ total' = total
      BY <2>9, TurnSays, Zenon
    <3>2. adapter \notin PageNumbered /\ (pc' = "loop" => pos' = pos + n)
      BY <2>9, <3>1, Zenon
    <3>3. pos' \in 0..total /\ (pc' = "loop" => pos' > pos)
      BY <2>3, <2>4, <2>9, <3>1, <3>2
    <3>4. QED
      BY <2>1, <2>5, <2>6, <2>9, <3>1, <3>2, <3>3, TurnKeeps
  <2> DEFINE jump == IF n < perPage THEN pos ELSE pos + perPage
  <2>10. jump \in {pos, pos + n} /\ (n < perPage \/ jump = pos + n)
    BY <2>3, <2>4
  <2>11. CASE Hunter(n) \/ Yelp(n) \/ SerpAPI(n)
    <3>1. PICK a \in {"hunter", "yelp", "serpapi"} : Turn(a, Page(n), jump, n < perPage)
      BY <2>11, Zenon DEF Hunter, Yelp, SerpAPI
    <3>2. hitches' = hitches \cup Short(n) /\ a \notin PageNumbered
      BY <2>11 DEF Hunter, Yelp, SerpAPI, PageNumbered
    <3>3. QED
      BY <2>9, <2>10, <3>1, <3>2, Zenon
  <2>12. CASE ProductHunt(n) \/ Proxycurl(n)
    <3>1. PICK a \in {"product_hunt", "proxycurl"} :
            Turn(a, Page(n), pos + n, pos + n >= total)
      BY <2>12, Zenon DEF ProductHunt, Proxycurl
    <3>2. hitches' = hitches \cup Short(n) /\ a \notin PageNumbered
      BY <2>12 DEF ProductHunt, Proxycurl, PageNumbered
    <3>3. QED
      BY <2>9, <3>1, <3>2, Zenon
  <2>13. CASE Crunchbase(n)
    <3>1. Turn("crunchbase", Page(n), pos + n, n < perPage) /\ hitches' = hitches \cup Short(n)
      BY <2>13, Zenon DEF Crunchbase
    <3>2. "crunchbase" \notin PageNumbered
      BY DEF PageNumbered
    <3>3. QED
      BY <2>9, <3>1, <3>2, Zenon
  <2>14. QED
    BY <1>1, <2>7, <2>8, <2>11, <2>12, <2>13
<1>2. CASE Break
  BY <1>2 DEF Break, SearchInv, TypeOK, InLoop, CollectsPrefix, LimitKept,
              RequestsBounded, Hitches
<1>3. CASE UNCHANGED vars
  BY <1>3 DEF vars, SearchInv, TypeOK, InLoop, CollectsPrefix, LimitKept, RequestsBounded
<1>4. QED
  BY <1>1, <1>2, <1>3 DEF Next

-----------------------------------------------------------------------------

LEMMA SearchInvariant == Spec => []SearchInv
<1>1. QED
  BY SearchInvInit, SearchInvNext, PTL DEF Spec

\* The variables keep their types; in particular no loop leaves the catalogue
\* (internal/providers, the adapters' Search).
THEOREM TypeCorrect == Spec => []TypeOK
<1>1. SearchInv => TypeOK
  BY DEF SearchInv
<1>2. QED
  BY <1>1, SearchInvariant, PTL

\* Item-addressed loops return the catalogue from its start without a gap or a
\* repetition (internal/providers, every Search but github's and apollo's).
THEOREM PrefixCollected == Spec => []CollectsPrefix
<1>1. SearchInv => CollectsPrefix
  BY DEF SearchInv
<1>2. QED
  BY <1>1, SearchInvariant, PTL

\* No search exceeds its limit, or by less than one page where pages are fixed.
THEOREM LimitIsKept == Spec => []LimitKept
<1>1. SearchInv => LimitKept
  BY DEF SearchInv
<1>2. QED
  BY <1>1, SearchInvariant, PTL

\* No search makes more than one request for each item and one more, so every
\* loop comes to an end (internal/providers, the adapters' Search).
THEOREM RequestsAreBounded == Spec => []RequestsBounded
<1>1. SearchInv => RequestsBounded
  BY DEF SearchInv
<1>2. QED
  BY <1>1, SearchInvariant, PTL

-----------------------------------------------------------------------------
(* The target *)

\* Nothing has disturbed the search, in the sense of GetsTheTarget.
Undisturbed == hitches \subseteq Tolerated /\ EvenPages

\* Then the leads are those of the first Len(all) items, in whatever order, the
\* pages of a page-numbered loop were full, and the search ends only with enough
\* leads or with all of them.
Covered ==
  Undisturbed =>
    /\ {all[i] : i \in DOMAIN all} = 1..Len(all)
    /\ pc = "loop" /\ adapter \in PageNumbered =>
         IF limit <= PageSize[adapter] THEN pos = 0 /\ Len(all) = 0
                                       ELSE Len(all) = pos * PageSize[adapter]
    /\ pc = "done" => Len(all) >= limit \/ Len(all) >= total

\* A limit of whole pages that k pages do not reach has room for another.
LEMMA RoomForAPage ==
  ASSUME NEW size \in Nat \ {0}, NEW l \in Nat, l % size = 0, NEW k \in Nat, k * size < l
  PROVE  k * size + size <= l
<1>1. PICK q \in Nat : l = q * size
  <2>1. l \div size \in Nat
    OBVIOUS
  <2>2. l = (l \div size) * size
    OBVIOUS
  <2>3. QED
    BY <2>1, <2>2
<1>2. k < q
  <2>1. SUFFICES ASSUME q <= k PROVE FALSE
    BY <1>1
  <2>2. q * size <= k * size
    BY <1>1, <2>1
  <2>3. QED
    BY <1>1, <2>2
<1>3. (k + 1) * size <= q * size
  BY <1>1, <1>2
<1>4. QED
  BY <1>1, <1>3

\* The page that an undisturbed search asks for begins behind its leads.
LEMMA PageFollows ==
  ASSUME SearchInv, Covered, Undisturbed, pc = "loop"
  PROVE  /\ Before = Len(all)
         /\ adapter \in PageNumbered =>
              perPage = IF limit <= PageSize[adapter] THEN limit ELSE PageSize[adapter]
<1>1. /\ PageSize[adapter] \in Nat \ {0}
      /\ limit \in Nat /\ total \in Nat /\ pos \in Nat /\ Len(all) \in Nat
      /\ Len(all) < limit
      /\ adapter \notin PageNumbered => pos = Len(all)
  BY SearchAssumption DEF SearchInv, TypeOK, InLoop
<1>2. CASE adapter \notin PageNumbered
  BY <1>1, <1>2 DEF Before
<1>3. CASE adapter \in PageNumbered
  <2>1. perPage = proxycurlMin(PageSize[adapter], limit - Len(all))
    BY <1>3 DEF perPage, PageNumbered, Shrinking
  <2>2. CASE limit <= PageSize[adapter]
    <3>1. pos = 0 /\ Len(all) = 0
      BY <1>3, <2>2 DEF Covered
    <3>2. perPage = limit
      BY <1>1, <2>1, <2>2, <3>1 DEF proxycurlMin
    <3>3. Before = Len(all)
      BY <1>1, <1>3, <3>1, <3>2 DEF Before
    <3>4. QED
      BY <2>2, <3>2, <3>3
  <2>3. CASE ~(limit <= PageSize[adapter])
    <3>1. Len(all) = pos * PageSize[adapter]
      BY <1>3, <2>3 DEF Covered
    <3>2. limit % PageSize[adapter] = 0
      BY <1>3, <2>3 DEF Undisturbed, EvenPages
    <3>3. Len(all) + PageSize[adapter] <= limit
      BY <1>1, <3>1, <3>2, RoomForAPage
    <3>4. perPage = PageSize[adapter]
      BY <1>1, <2>1, <3>3 DEF proxycurlMin
    <3>5. QED
      BY <1>3, <2>3, <3>1, <3>4 DEF Before
  <2>4. QED
    BY <2>2, <2>3
<1>4. QED
  BY <1>2, <1>3

\* A turn that collects the page, whole, keeps the leads those of the first items.
LEMMA TurnCovers ==
  ASSUME SearchInv, Covered, pc = "loop", NEW n \in 1..Available, NEW leads \in Seq(1..total),
         all' = all \o leads, adapter' = adapter, limit' = limit, total' = total,
         hitches \subseteq hitches',
         hitches' \subseteq Tolerated =>
           Len(leads) = n /\ {leads[i] : i \in DOMAIN leads} = Before + 1 .. Before + n,
         pc' = "loop" =>
           /\ ~(Len(all') >= limit)
           /\ adapter \in PageNumbered => pos' = pos + 1 /\ ~(n < perPage),
         pc' = "done" /\ hitches' \subseteq Tolerated =>
           Len(all') >= limit \/ Before + n >= total
  PROVE  Covered'
<1>1. adapter' = adapter /\ limit' = limit /\ total' = total /\ all' = all \o leads
  OBVIOUS
<1>2. SUFFICES ASSUME Undisturbed'
               PROVE  /\ {all'[i] : i \in DOMAIN all'} = 1..Len(all')
                      /\ pc' = "loop" /\ adapter \in PageNumbered =>
                           IF limit <= PageSize[adapter] THEN pos' = 0 /\ Len(all') = 0
                             ELSE Len(all') = pos' * PageSize[adapter]
                      /\ pc' = "done" => Len(all') >= limit \/ Len(all') >= total
  BY <1>1, Zenon DEF Covered
<1>3. hitches' \subseteq Tolerated /\ Undisturbed
  BY <1>1, <1>2 DEF Undisturbed, EvenPages, Tolerated
<1>4. /\ Len(leads) = n /\ {leads[i] : i \in DOMAIN leads} = Before + 1 .. Before + n
      /\ Before = Len(all)
      /\ adapter \in PageNumbered =>
           perPage = IF limit <= PageSize[adapter] THEN limit ELSE PageSize[adapter]
  BY <1>3, PageFollows
<1>5. /\ n \in Nat /\ Len(all) \in Nat /\ all \in Seq(1..total) /\ limit \in Nat /\ total \in Nat
      /\ PageSize[adapter] \in Nat \ {0} /\ pos \in Nat /\ perPage \in Nat /\ n <= perPage
      /\ {all[i] : i \in DOMAIN all} = 1..Len(all)
  <2>1. TypeOK /\ InLoop
    BY DEF SearchInv
  <2>2. n \in Nat /\ perPage \in Nat /\ n <= perPage
    BY <2>1, PageFacts
  <2>3. QED
    BY <1>3, <2>1, <2>2, SearchAssumption DEF TypeOK, Covered
<1>6. leads \in Seq(1..total) /\ all' = all \o leads /\ Len(leads) = n
  BY <1>1, <1>4
<1>7. Len(all') = Len(all) + n
  BY <1>5, <1>6
<1>8. {all'[i] : i \in DOMAIN all'} = 1..Len(all')
  <2>1. ToSet(all') = ToSet(all) \cup ToSet(leads)
    BY <1>5, <1>6, ConcatElements
  <2>2. 1..Len(all) \cup (Before + 1 .. Before + n) = 1..Len(all')
    BY <1>4, <1>5, <1>7
  <2>3. QED
    BY <1>4, <1>5, <2>1, <2>2, Zenon DEF ToSet
<1>9. ASSUME pc' = "loop", adapter \in PageNumbered
      PROVE  IF limit <= PageSize[adapter] THEN pos' = 0 /\ Len(all') = 0
               ELSE Len(all') = pos' * PageSize[adapter]
  <2>1. n = perPage /\ pos' = pos + 1 /\ ~(Len(all') >= limit)
    BY <1>5, <1>9
  <2>2. ~(limit <= PageSize[adapter])
    BY <1>4, <1>5, <1>7, <1>9, <2>1
  <2>3. Len(all) = pos * PageSize[adapter]
    BY <1>3, <1>9, <2>2 DEF Covered
  <2>4. Len(all') = pos * PageSize[adapter] + PageSize[adapter]
    BY <1>4, <1>7, <1>9, <2>1, <2>2, <2>3
  <2>5. ASSUME NEW k \in Nat, NEW size \in Nat PROVE k * size + size = (k + 1) * size
    OBVIOUS
  <2>6. QED
    BY <1>5, <2>1, <2>2, <2>4, <2>5
<1>10. pc' = "done" => Len(all') >= limit \/ Len(all') >= total
  BY <1>3, <1>4, <1>7
<1>11. QED
  BY <1>8, <1>9, <1>10

\* An answer that is not short is the rest of the catalogue or a full page.
LEMMA WholeAnswer ==
  ASSUME SearchInv, pc = "loop", NEW n \in 1..Available, Short(n) = {}, n < perPage
  PROVE  Before + n >= total
<1>1. TypeOK /\ InLoop
  BY DEF SearchInv
<1>2. n \in Nat /\ perPage \in Nat /\ Before \in Nat /\ total \in Nat
  BY <1>1, PageFacts DEF TypeOK
<1>3. n = Available
  BY <1>2 DEF Short, Available, proxycurlMin
<1>4. QED
  BY <1>2, <1>3 DEF Available, proxycurlMin

\* If no goroutine of a github page drops its item, the page arrives as a whole.
LEMMA ArrivalsWhole ==
  ASSUME NEW b \in Nat, NEW n \in Nat, NEW kept \in SUBSET (b + 1 .. b + n),
         NEW leads \in Arrivals(kept), ~(Len(leads) < n)
  PROVE  Len(leads) = n /\ ToSet(leads) = b + 1 .. b + n
<1> DEFINE page == b + 1 .. b + n
<1>1. IsFiniteSet(page) /\ Cardinality(page) = n
  <2>1. b + 1 \in Int /\ b + n \in Int
    OBVIOUS
  <2>2. /\ IsFiniteSet(b + 1 .. b + n)
        /\ Cardinality(b + 1 .. b + n) = IF b + 1 > b + n THEN 0 ELSE (b + n) - (b + 1) + 1
    BY <2>1, FS_Interval
  <2>3. QED
    BY <2>2
<1> HIDE DEF page
<1>2. kept \in SUBSET page
  BY DEF page
<1>3. /\ IsFiniteSet(kept) /\ Cardinality(kept) \in Nat /\ Cardinality(kept) <= n
      /\ Cardinality(kept) = n => kept = page
  BY <1>1, <1>2, FS_Subset, FS_CardinalityType
<1>4. leads \in [1..Cardinality(kept) -> kept] /\ \A i, j \in DOMAIN leads : leads[i] = leads[j] => i = j
  BY DEF Arrivals
<1>5. Len(leads) = Cardinality(kept) /\ DOMAIN leads = 1..n
  BY <1>3, <1>4
<1>6. kept = page /\ Cardinality(kept) = n
  BY <1>3, <1>5
<1>7. leads \in Injection(1..n, page)
  BY <1>4, <1>6 DEF Injection, IsInjective
<1>8. leads \in Surjection(1..n, page)
  <2>1. IsFiniteSet(1..n) /\ Cardinality(1..n) = n
    BY FS_Interval
  <2>2. QED
    BY <1>1, <1>7, <2>1, FS_Injection
<1>9. ToSet(leads) = page
  <2>1. \A x \in page : \E i \in 1..n : leads[i] = x
    BY <1>8 DEF Surjection
  <2>2. \A i \in 1..n : leads[i] \in page
    BY <1>4, <1>5, <1>6
  <2>3. QED
    BY <1>5, <2>1, <2>2 DEF ToSet
<1>10. QED
  BY <1>5, <1>6, <1>9 DEF page

LEMMA PageElements ==
  ASSUME SearchInv, pc = "loop", NEW n \in 1..Available
  PROVE  Len(Page(n)) = n /\ ToSet(Page(n)) = Before + 1 .. Before + n
<1>1. TypeOK /\ InLoop
  BY DEF SearchInv
<1>2. n \in Nat /\ Before \in Nat
  BY <1>1, PageFacts
<1>3. Len(Page(n)) = n /\ DOMAIN Page(n) = 1..n /\ \A i \in 1..n : Page(n)[i] = Before + i
  BY <1>2 DEF Page
<1>4. ASSUME NEW x \in Before + 1 .. Before + n PROVE x \in ToSet(Page(n))
  <2>1. x - Before \in 1..n /\ Before + (x - Before) = x
    BY <1>2
  <2>2. QED
    BY <1>3, <2>1 DEF ToSet
<1>5. ASSUME NEW x \in ToSet(Page(n)) PROVE x \in Before + 1 .. Before + n
  <2>1. PICK i \in 1..n : x = Page(n)[i]
    BY <1>3 DEF ToSet
  <2>2. QED
    BY <1>2, <1>3, <2>1
<1>6. QED
  BY <1>3, <1>4, <1>5

LEMMA CoveredInit == Init => Covered
<1> SUFFICES ASSUME Init PROVE Covered
  OBVIOUS
<1>1. pc = "loop" /\ pos = 0 /\ all = <<>> /\ PageSize[adapter] \in Nat
  BY SearchAssumption DEF Init
<1>2. Len(all) = 0 /\ DOMAIN all = {} /\ 1..0 = {} /\ 0 * PageSize[adapter] = 0
  BY <1>1
<1>3. QED
  BY <1>1, <1>2 DEF Covered

LEMMA CoveredNext == SearchInv /\ Covered /\ [Next]_vars => Covered'
<1> SUFFICES ASSUME SearchInv, Covered, [Next]_vars PROVE Covered'
  OBVIOUS
<1>1. TypeOK /\ InLoop
  BY DEF SearchInv
<1>2. /\ limit \in Nat /\ total \in Nat /\ pos \in Nat /\ Len(all) \in Nat
      /\ hitches \subseteq Hitches
  BY <1>1 DEF TypeOK
\* A turn of any adapter.
<1>3. ASSUME NEW n \in 1..Available, NEW a, NEW leads \in Seq(1..total), NEW next, NEW last,
             Turn(a, leads, next, last),
             hitches \cup Short(n) \subseteq hitches',
             hitches' \subseteq Tolerated => Len(leads) = n /\ ToSet(leads) = Before + 1 .. Before + n,
             a \in PageNumbered => next = pos + 1 /\ (n < perPage => last),
             last /\ hitches' \subseteq Tolerated =>
               \/ Short(n) = {} /\ n < perPage
               \/ Before + n >= total
               \/ Before = Len(all) => Len(all) + n >= total
      PROVE  Covered'
  <2>1. /\ pc = "loop" /\ adapter = a
        /\ all' = all \o leads /\ pos' = next
        /\ pc' \in {"loop", "done"}
        /\ pc' = "loop" => ~last /\ ~(Len(all') >= limit)
        /\ adapter' = adapter /\ limit' = limit /\ total' = total
    BY <1>3, TurnSays, Zenon
  <2>2. pc' = "done" => last \/ Len(all') >= limit
    BY <1>3 DEF Turn
  <2>3. CASE ~Undisturbed'
    BY <2>3, Zenon DEF Covered
  <2>4. CASE Undisturbed'
    <3>1. hitches' \subseteq Tolerated /\ Undisturbed
      BY <1>3, <2>1, <2>4 DEF Undisturbed, EvenPages, Tolerated
    <3>2. Before = Len(all)
      BY <2>1, <3>1, PageFollows
    <3>3. last => Before + n >= total
      BY <1>2, <1>3, <2>1, <3>1, <3>2, WholeAnswer
    <3>4. pc' = "loop" =>
            /\ ~(Len(all') >= limit)
            /\ adapter \in PageNumbered => pos' = pos + 1 /\ ~(n < perPage)
      BY <1>3, <2>1, Zenon
    <3>5. pc' = "done" /\ hitches' \subseteq Tolerated => Len(all') >= limit \/ Before + n >= total
      BY <2>2, <3>3, Zenon
    <3>6. hitches' \subseteq Tolerated =>
            Len(leads) = n /\ {leads[i] : i \in DOMAIN leads} = Before + 1 .. Before + n
      BY <1>3, Zenon DEF ToSet
    <3>7. hitches \subseteq hitches'
      BY <1>3
    <3>8. QED
      BY <2>1, <3>4, <3>5, <3>6, <3>7, TurnCovers
  <2>5. QED
    BY <2>3, <2>4, Zenon
<1>4. ASSUME NEW n \in 1..Available,
             \/ Github(n) \/ Apollo(n) \/ Hunter(n) \/ Yelp(n)
             \/ ProductHunt(n) \/ Proxycurl(n) \/ Crunchbase(n) \/ SerpAPI(n)
      PROVE  Covered'
  <2>1. pc = "loop"
    BY <1>4 DEF Github, Apollo, Hunter, Yelp, ProductHunt, Proxycurl, Crunchbase,
                SerpAPI, Turn
  <2>2. /\ n \in Nat /\ perPage \in Nat /\ Before \in Nat /\ Before + n <= total
        /\ adapter \notin PageNumbered => Before = pos
    BY <1>1, <2>1, PageFacts
  <2>3. /\ Page(n) \in Seq(1..total)
        /\ Len(Page(n)) = n /\ ToSet(Page(n)) = Before + 1 .. Before + n
    BY <1>1, <2>1, PageTyped, PageElements
  <2>4. CASE Github(n)
    <3>1. PICK kept \in SUBSET (Before + 1 .. Before + n) : \E leads \in Arrivals(kept) :
            /\ Turn("github", leads, pos + 1, n < perPage)
            /\ hitches' = hitches \cup Short(n)
                 \cup (IF Len(leads) < n THEN {"dropped"} ELSE {})
      BY <2>4 DEF Github
    <3>2. PICK leads \in Arrivals(kept) :
            /\ Turn("github", leads, pos + 1, n < perPage)
            /\ hitches' = hitches \cup Short(n)
                 \cup (IF Len(leads) < n THEN {"dropped"} ELSE {})
      BY <3>1
    <3>3. leads \in Seq(1..total)
      BY <1>2, <2>2, ArrivalsTyped
    <3>4. Tolerated = {}
      BY <3>2, TurnSays DEF Tolerated
    <3>5. hitches' \subseteq Tolerated => Len(leads) = n /\ ToSet(leads) = Before + 1 .. Before + n
      BY <2>2, <3>2, <3>4, ArrivalsWhole
    <3>6. hitches' \subseteq Tolerated => Short(n) = {}
      BY <3>2, <3>4
    <3>7. hitches \cup Short(n) \subseteq hitches'
      BY <3>2
    <3>8. QED
      BY <1>3, <3>2, <3>3, <3>5, <3>6, <3>7
  <2>5. CASE Apollo(n)
    <3>1. Turn("apollo", Page(n), pos + 1, Len(all) + n >= total \/ n < perPage)
          /\ hitches' = hitches \cup Short(n)
      BY <2>5, Zenon DEF Apollo
    <3>2. Tolerated = {}
      BY <3>1, TurnSays DEF Tolerated
    <3>3. hitches' \subseteq Tolerated => Short(n) = {}
      BY <3>1, <3>2
    <3>4. QED
      BY <1>3, <2>3, <3>1, <3>3
  <2>6. ASSUME NEW a \in {"hunter", "yelp", "serpapi", "crunchbase"}, NEW next,
               Turn(a, Page(n), next, n < perPage), hitches' = hitches \cup Short(n)
        PROVE  Covered'
    <3>1. Tolerated = {} /\ a \notin PageNumbered
      BY <2>6, TurnSays DEF Tolerated, PageNumbered
    <3>2. hitches' \subseteq Tolerated => Short(n) = {}
      BY <2>6, <3>1
    <3>3. QED
      BY <1>3, <2>3, <2>6, <3>1, <3>2
  <2>7. CASE Hunter(n) \/ Yelp(n) \/ SerpAPI(n) \/ Crunchbase(n)
    BY <2>6, <2>7, Zenon DEF Hunter, Yelp, SerpAPI, Crunchbase
  <2>8. CASE ProductHunt(n) \/ Proxycurl(n)
    <3>1. PICK a \in {"product_hunt", "proxycurl"} :
            Turn(a, Page(n), pos + n, pos + n >= total)
      BY <2>8, Zenon DEF ProductHunt, Proxycurl
    <3>2. hitches' = hitches \cup Short(n) /\ a \notin PageNumbered /\ Before = pos
      BY <2>2, <2>8, <3>1, TurnSays DEF ProductHunt, Proxycurl, PageNumbered
    <3>3. QED
      BY <1>3, <2>3, <3>1, <3>2
  <2>9. QED
    BY <1>4, <2>4, <2>5, <2>7, <2>8
<1>5. CASE Break
  <2>1. /\ pc = "loop" /\ pc' = "done"
        /\ hitches' = IF Available > 0 THEN hitches \cup {"failed"} ELSE hitches
        /\ adapter' = adapter /\ limit' = limit /\ total' = total /\ pos' = pos /\ all' = all
    BY <1>5 DEF Break
  <2>2. CASE ~Undisturbed'
    BY <2>2, Zenon DEF Covered
  <2>3. CASE Undisturbed'
    <3>1. "failed" \notin Tolerated /\ hitches' \subseteq Tolerated
      BY <2>1, <2>3 DEF Undisturbed, Tolerated
    <3>2. ~(Available > 0) /\ hitches' = hitches
      BY <2>1, <3>1
    <3>3. Undisturbed
      BY <2>1, <2>3, <3>2 DEF Undisturbed, EvenPages, Tolerated
    <3>4. Before = Len(all)
      BY <2>1, <3>3, PageFollows
    <3>5. perPage \in Nat /\ perPage >= 1
      <4>1. PageSize[adapter] \in Nat /\ PageSize[adapter] >= 1 /\ Len(all) < limit
        BY <1>1, <2>1, SearchAssumption DEF TypeOK, InLoop
      <4>2. QED
        BY <1>2, <4>1 DEF perPage, proxycurlMin
    <3>6. Len(all) >= total
      BY <1>2, <3>2, <3>4, <3>5 DEF Available, proxycurlMin
    <3>7. {all[i] : i \in DOMAIN all} = 1..Len(all)
      BY <3>3 DEF Covered
    <3>8. QED
      BY <2>1, <3>6, <3>7, Zenon DEF Covered
  <2>4. QED
    BY <2>2, <2>3, Zenon
<1>6. CASE UNCHANGED vars
  BY <1>6, Zenon DEF vars, Covered, Undisturbed, EvenPages, Tolerated
<1>7. QED
  BY <1>4, <1>5, <1>6 DEF Next

\* An undisturbed search has as many different leads as the limit asks for and the
\* service has, whatever its pages (internal/providers, the adapters' Search).
THEOREM TargetReached == Spec => []GetsTheTarget
<1>1. SearchInv /\ Covered => GetsTheTarget
  <2> SUFFICES ASSUME SearchInv, Covered, pc = "done", Undisturbed
               PROVE  Distinct >= Target
    BY DEF GetsTheTarget, Undisturbed
  <2>1. limit \in Nat /\ total \in Nat /\ Len(all) \in Nat
    BY DEF SearchInv, TypeOK
  <2>2. /\ {all[i] : i \in DOMAIN all} = 1..Len(all)
        /\ Len(all) >= limit \/ Len(all) >= total
    BY DEF Covered
  <2>3. Cardinality(1..Len(all)) = Len(all)
    <3>1. Cardinality(1..Len(all)) = IF 1 > Len(all) THEN 0 ELSE Len(all) - 1 + 1
      BY <2>1, FS_Interval
    <3>2. QED
      BY <2>1, <3>1
  <2>4. Distinct = Len(all)
    BY <2>2, <2>3, Zenon DEF Distinct
  <2>5. QED
    BY <2>1, <2>2, <2>4 DEF Target, proxycurlMin
<1>2. QED
  BY <1>1, SearchInvInit, SearchInvNext, CoveredInit, CoveredNext, PTL DEF Spec
=============================================================================
