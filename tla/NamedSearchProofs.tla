------------------------- MODULE NamedSearchProofs --------------------------
(***************************************************************************)
(* What the two searches of NamedSearch collect, proved for every set of   *)
(* names, every answer of the services and every limit: their loops over   *)
(* the results of a page and over the jobs of an answer, and on top of     *)
(* them the loop over queries and pages.                                   *)
(***************************************************************************)
EXTENDS NamedSearch, FoldFacts, TLAPS

-----------------------------------------------------------------------------
(* The results of a page *)

UnseenStep(names, new, n) ==
  IF \/ \E i \in DOMAIN names : Lower[names[i]] = Lower[n]
     \/ \E i \in DOMAIN new : Lower[new[i]] = Lower[n]
  THEN new ELSE Append(new, n)

LEMMA UnseenSteps ==
  ASSUME NEW names \in Seq(Names), NEW results \in Seq(Names)
  PROVE  \E new :
           /\ Unseen(names, results) = new[Len(results)]
           /\ new[0] = <<>>
           /\ \A n \in 0..Len(results) - 1 :
                new[n + 1] = UnseenStep(names, new[n], results[n + 1])
<1> DEFINE step(new, n) ==
             IF \/ \E i \in DOMAIN names : Lower[names[i]] = Lower[n]
                \/ \E i \in DOMAIN new : Lower[new[i]] = Lower[n]
             THEN new ELSE Append(new, n)
           start == <<>>
           Is(g) == g = [s \in SUBSET DOMAIN results |->
                           IF s = {} THEN start
                           ELSE step(g[s \ {Max(s)}], results[Max(s)])]
           fold  == CHOOSE g : Is(g)
<1>1. \E g : Is(g)
  <2> DEFINE X == Seq(Names)
             F == [p \in X \X Names |-> step(p[1], p[2])]
  <2>1. start \in X
    OBVIOUS
  <2>2. ASSUME NEW new \in X, NEW n \in Names PROVE step(new, n) \in X
    <3>1. Append(new, n) \in X
      OBVIOUS
    <3>2. step(new, n) \in {new, Append(new, n)}
      BY Zenon
    <3>3. QED
      BY <3>1, <3>2
  <2> HIDE DEF X, start, step
  <2>3. F \in [X \X Names -> X]
    BY <2>2
  <2>4. \A new \in X, n \in Names : F[<<new, n>>] = step(new, n)
    OBVIOUS
  <2> HIDE DEF F
  <2>5. PICK g \in [SUBSET DOMAIN results -> X] : FoldsWith(F, start, results, g)
    BY <2>1, <2>3, FoldExists
  <2>6. ASSUME NEW s \in SUBSET DOMAIN results
        PROVE  g[s] = IF s = {} THEN start ELSE step(g[s \ {Max(s)}], results[Max(s)])
    <3>1. CASE s = {}
      BY <2>5, <3>1, Zenon DEF FoldsWith
    <3>2. CASE s # {}
      <4>1. Max(s) \in s
        <5>1. Len(results) \in Nat /\ DOMAIN results = 1..Len(results)
          OBVIOUS
        <5>2. QED
          BY <3>2, <5>1, LargestNumber, Zenon
      <4>2. results[Max(s)] \in Names /\ g[s \ {Max(s)}] \in X
        BY <4>1
      <4>3. QED
        BY <2>4, <2>5, <3>2, <4>2, Zenon DEF FoldsWith
    <3>3. QED
      BY <3>1, <3>2
  <2>7. Is(g)
    BY <2>6, Zenon
  <2>8. QED
    BY <2>7
<1>2. Is(fold)
  BY <1>1, Zenon
<1>3. Unseen(names, results) = fold[DOMAIN results]
  BY DEF Unseen, FoldLeft, MapThenFoldSet
<1> HIDE DEF fold, step
<1>4. \A s \in SUBSET DOMAIN results :
        fold[s] = IF s = {} THEN start ELSE step(fold[s \ {Max(s)}], results[Max(s)])
  BY <1>2, Zenon
<1> HIDE DEF Is
<1> DEFINE new == [n \in 0..Len(results) |-> fold[1..n]]
<1>5. Unseen(names, results) = new[Len(results)]
  <2>1. DOMAIN results = 1..Len(results) /\ Len(results) \in 0..Len(results)
    OBVIOUS
  <2>2. QED
    BY <1>3, <2>1
<1>6. new[0] = start
  <2>1. 1..0 = {} /\ 1..0 \in SUBSET DOMAIN results /\ 0 \in 0..Len(results)
    OBVIOUS
  <2>2. QED
    BY <1>4, <2>1, Zenon
<1>7. ASSUME NEW n \in 0..Len(results) - 1
      PROVE  new[n + 1] = UnseenStep(names, new[n], results[n + 1])
  <2>1. n \in Nat /\ n \in 0..Len(results) /\ n + 1 \in 0..Len(results)
        /\ 1..n+1 \in SUBSET DOMAIN results /\ 1..n+1 # {}
    BY PrefixFacts, Zenon
  <2>2. Max(1..n+1) = n + 1 /\ (1..n+1) \ {n + 1} = 1..n
    BY <2>1, PrefixMax
  <2>3. fold[1..n+1] = step(fold[1..n], results[n + 1])
    BY <1>4, <2>1, <2>2, Zenon
  <2>4. new[n + 1] = fold[1..n+1] /\ new[n] = fold[1..n]
    BY <2>1
  <2>5. QED
    BY <2>3, <2>4, Zenon DEF step, UnseenStep
<1>8. QED
  BY <1>5, <1>6, <1>7, Zenon

Same(n1, n2) == Lower[n1] = Lower[n2]

\* After n results, "new" has those that are in neither, each once.
UnseenAfter(names, results, n, new) ==
  /\ new \in Seq(Names) /\ Len(new) <= n
  /\ \A i \in DOMAIN new : \A j \in DOMAIN names : ~Same(names[j], new[i])
  /\ \A i, j \in DOMAIN new : Same(new[i], new[j]) => i = j
  /\ \A k \in 1..n : \/ \E i \in DOMAIN names : Same(names[i], results[k])
                     \/ \E i \in DOMAIN new : Same(new[i], results[k])

LEMMA UnseenAfterStep ==
  ASSUME NEW names \in Seq(Names), NEW results \in Seq(Names), NEW n \in 0..Len(results) - 1,
         NEW new, UnseenAfter(names, results, n, new)
  PROVE  UnseenAfter(names, results, n + 1, UnseenStep(names, new, results[n + 1]))
<1> DEFINE r == results[n + 1]
           next == UnseenStep(names, new, r)
<1>1. /\ n \in Nat /\ r \in Names /\ 1..n+1 = 1..n \cup {n + 1}
      /\ new \in Seq(Names) /\ Len(new) \in Nat /\ DOMAIN new = 1..Len(new) /\ Len(new) <= n
  BY DEF UnseenAfter
<1>2. CASE \/ \E i \in DOMAIN names : Same(names[i], r)
           \/ \E i \in DOMAIN new : Same(new[i], r)
  <2>1. next = new
    BY <1>2, Zenon DEF UnseenStep, Same
  <2>2. Len(new) <= n + 1
    BY <1>1
  <2>3. \A k \in 1..n+1 : \/ \E i \in DOMAIN names : Same(names[i], results[k])
                          \/ \E i \in DOMAIN new : Same(new[i], results[k])
    BY <1>1, <1>2, Zenon DEF UnseenAfter
  <2>4. QED
    BY <2>1, <2>2, <2>3, Zenon DEF UnseenAfter
<1>3. CASE ~(\/ \E i \in DOMAIN names : Same(names[i], r)
             \/ \E i \in DOMAIN new : Same(new[i], r))
  <2>1. next = Append(new, r)
    BY <1>3, Zenon DEF UnseenStep, Same
  <2> HIDE DEF next
  <2>2. /\ next \in Seq(Names) /\ Len(next) = Len(new) + 1 /\ Len(next) <= n + 1
        /\ DOMAIN next = DOMAIN new \cup {Len(new) + 1} /\ Len(new) + 1 \notin DOMAIN new
        /\ next[Len(new) + 1] = r
        /\ \A i \in DOMAIN new : next[i] = new[i]
    BY <1>1, <2>1
  <2>3. \A i \in DOMAIN next : \A j \in DOMAIN names : ~Same(names[j], next[i])
    BY <1>3, <2>2, Zenon DEF UnseenAfter
  <2>4. \A i, j \in DOMAIN next : Same(next[i], next[j]) => i = j
    <3>1. \A i, j \in DOMAIN new : Same(next[i], next[j]) => i = j
      BY <2>2, Zenon DEF UnseenAfter
    <3>2. \A i \in DOMAIN new : ~Same(next[i], r) /\ ~Same(r, next[i])
      BY <1>3, <2>2, Zenon DEF Same
    <3>3. QED
      BY <2>2, <3>1, <3>2, Zenon
  <2>5. \A k \in 1..n+1 : \/ \E i \in DOMAIN names : Same(names[i], results[k])
                          \/ \E i \in DOMAIN next : Same(next[i], results[k])
    <3>1. TAKE k \in 1..n+1
    <3>2. CASE k = n + 1
      BY <2>2, <3>2, Zenon DEF Same
    <3>3. CASE k \in 1..n
      BY <2>2, <3>3, Zenon DEF UnseenAfter
    <3>4. QED
      BY <1>1, <3>2, <3>3
  <2>6. QED
    BY <2>2, <2>3, <2>4, <2>5, Zenon DEF UnseenAfter, next
<1>4. QED
  BY <1>2, <1>3

\* The leads that a page adds: at most its results, none that was there, none
\* twice, and none of the results is missing then.
LEMMA UnseenFacts ==
  ASSUME NEW names \in Seq(Names), NEW results \in Seq(Names)
  PROVE  UnseenAfter(names, results, Len(results), Unseen(names, results))
<1>1. PICK new : /\ Unseen(names, results) = new[Len(results)]
                 /\ new[0] = <<>>
                 /\ \A n \in 0..Len(results) - 1 :
                      new[n + 1] = UnseenStep(names, new[n], results[n + 1])
  BY UnseenSteps
<1> DEFINE S == {n \in Nat : n <= Len(results) => UnseenAfter(names, results, n, new[n])}
<1>2. 0 \in S
  <2>1. UnseenAfter(names, results, 0, <<>>)
    BY DEF UnseenAfter
  <2>2. QED
    BY <1>1, <2>1
<1>3. ASSUME NEW n \in Nat, n \in S PROVE n + 1 \in S
  <2> SUFFICES ASSUME n + 1 <= Len(results)
               PROVE  UnseenAfter(names, results, n + 1, new[n + 1])
    OBVIOUS
  <2>1. n \in 0..Len(results) - 1 /\ n <= Len(results)
    OBVIOUS
  <2>2. UnseenAfter(names, results, n, new[n])
    BY <1>3, <2>1
  <2>3. QED
    BY <1>1, <2>1, <2>2, UnseenAfterStep
<1> HIDE DEF S
<1>4. Len(results) \in S
  BY <1>2, <1>3, NumberInduction
<1>5. QED
  BY <1>1, <1>4 DEF S

-----------------------------------------------------------------------------
(* The jobs of an answer *)

CompaniesStep(leads, job) ==
  IF Want(leads, job) /\ \A i \in DOMAIN leads : leads[i].company # job.company
  THEN Append(leads, job) ELSE leads

LEMMA CompaniesSteps ==
  ASSUME NEW list \in Seq(Job)
  PROVE  \E leads :
           /\ Companies(list) = leads[Len(list)]
           /\ leads[0] = <<>>
           /\ \A n \in 0..Len(list) - 1 :
                leads[n + 1] = CompaniesStep(leads[n], list[n + 1])
<1> DEFINE step(leads, job) ==
             IF Want(leads, job) /\ \A i \in DOMAIN leads : leads[i].company # job.company
             THEN Append(leads, job) ELSE leads
           start == <<>>
           Is(g) == g = [s \in SUBSET DOMAIN list |->
                           IF s = {} THEN start
                           ELSE step(g[s \ {Max(s)}], list[Max(s)])]
           fold  == CHOOSE g : Is(g)
<1>1. \E g : Is(g)
  <2> DEFINE X == Seq(Job)
             F == [p \in X \X Job |-> step(p[1], p[2])]
  <2>1. start \in X
    OBVIOUS
  <2>2. ASSUME NEW leads \in X, NEW job \in Job PROVE step(leads, job) \in X
    <3>1. Append(leads, job) \in X
      OBVIOUS
    <3>2. step(leads, job) \in {leads, Append(leads, job)}
      BY Zenon
    <3>3. QED
      BY <3>1, <3>2
  <2> HIDE DEF X, start, step
  <2>3. F \in [X \X Job -> X]
    BY <2>2
  <2>4. \A leads \in X, job \in Job : F[<<leads, job>>] = step(leads, job)
    OBVIOUS
  <2> HIDE DEF F
  <2>5. PICK g \in [SUBSET DOMAIN list -> X] : FoldsWith(F, start, list, g)
    BY <2>1, <2>3, FoldExists
  <2>6. ASSUME NEW s \in SUBSET DOMAIN list
        PROVE  g[s] = IF s = {} THEN start ELSE step(g[s \ {Max(s)}], list[Max(s)])
    <3>1. CASE s = {}
      BY <2>5, <3>1, Zenon DEF FoldsWith
    <3>2. CASE s # {}
      <4>1. Max(s) \in s
        <5>1. Len(list) \in Nat /\ DOMAIN list = 1..Len(list)
          OBVIOUS
        <5>2. QED
          BY <3>2, <5>1, LargestNumber, Zenon
      <4>2. list[Max(s)] \in Job /\ g[s \ {Max(s)}] \in X
        BY <4>1
      <4>3. QED
        BY <2>4, <2>5, <3>2, <4>2, Zenon DEF FoldsWith
    <3>3. QED
      BY <3>1, <3>2
  <2>7. Is(g)
    BY <2>6, Zenon
  <2>8. QED
    BY <2>7
<1>2. Is(fold)
  BY <1>1, Zenon
<1>3. Companies(list) = fold[DOMAIN list]
  BY DEF Companies, FoldLeft, MapThenFoldSet
<1> HIDE DEF fold, step
<1>4. \A s \in SUBSET DOMAIN list :
        fold[s] = IF s = {} THEN start ELSE step(fold[s \ {Max(s)}], list[Max(s)])
  BY <1>2, Zenon
<1> HIDE DEF Is
<1> DEFINE leads == [n \in 0..Len(list) |-> fold[1..n]]
<1>5. Companies(list) = leads[Len(list)]
  <2>1. DOMAIN list = 1..Len(list) /\ Len(list) \in 0..Len(list)
    OBVIOUS
  <2>2. QED
    BY <1>3, <2>1
<1>6. leads[0] = start
  <2>1. 1..0 = {} /\ 1..0 \in SUBSET DOMAIN list /\ 0 \in 0..Len(list)
    OBVIOUS
  <2>2. QED
    BY <1>4, <2>1, Zenon
<1>7. ASSUME NEW n \in 0..Len(list) - 1
      PROVE  leads[n + 1] = CompaniesStep(leads[n], list[n + 1])
  <2>1. n \in Nat /\ n \in 0..Len(list) /\ n + 1 \in 0..Len(list)
        /\ 1..n+1 \in SUBSET DOMAIN list /\ 1..n+1 # {}
    BY PrefixFacts, Zenon
  <2>2. Max(1..n+1) = n + 1 /\ (1..n+1) \ {n + 1} = 1..n
    BY <2>1, PrefixMax
  <2>3. fold[1..n+1] = step(fold[1..n], list[n + 1])
    BY <1>4, <2>1, <2>2, Zenon
  <2>4. leads[n + 1] = fold[1..n+1] /\ leads[n] = fold[1..n]
    BY <2>1
  <2>5. QED
    BY <2>3, <2>4, Zenon DEF step, CompaniesStep
<1>8. QED
  BY <1>5, <1>6, <1>7, Zenon

\* The companies that have a job to be found by, among the first n.
Found(list, n) == {list[i].company : i \in {k \in 1..n : list[k].matches}} \ {NoName}

\* After n jobs, "leads" has companies of them that are found, each once and no
\* more than the limit; all of them, while there is room.
CompaniesAfter(list, n, leads) ==
  /\ leads \in Seq(Job) /\ Len(leads) <= limit
  /\ \A i \in DOMAIN leads : leads[i].company \in Found(list, n)
  /\ \A i, j \in DOMAIN leads : leads[i].company = leads[j].company => i = j
  /\ Len(leads) < limit =>
       \A c \in Found(list, n) : \E i \in DOMAIN leads : leads[i].company = c

LEMMA CompaniesAfterStep ==
  ASSUME NEW list \in Seq(Job), NEW n \in 0..Len(list) - 1, limit \in Nat,
         NEW leads, CompaniesAfter(list, n, leads)
  PROVE  CompaniesAfter(list, n + 1, CompaniesStep(leads, list[n + 1]))
<1> DEFINE job == list[n + 1]
           next == CompaniesStep(leads, job)
<1>1. /\ n \in Nat /\ job \in Job /\ 1..n+1 = 1..n \cup {n + 1}
      /\ leads \in Seq(Job) /\ Len(leads) \in Nat /\ DOMAIN leads = 1..Len(leads)
      /\ Len(leads) <= limit
  BY DEF CompaniesAfter
<1>2. Found(list, n + 1) = Found(list, n) \cup
        IF job.matches /\ job.company # NoName THEN {job.company} ELSE {}
  BY <1>1 DEF Found
<1>3. CASE Want(leads, job) /\ \A i \in DOMAIN leads : leads[i].company # job.company
  <2>1. next = Append(leads, job)
    BY <1>3, Zenon DEF CompaniesStep
  <2>2. job.company # NoName /\ job.matches /\ Len(leads) < limit
    BY <1>3, Zenon DEF Want
  <2> HIDE DEF next
  <2>3. /\ next \in Seq(Job) /\ Len(next) = Len(leads) + 1 /\ Len(next) <= limit
        /\ DOMAIN next = DOMAIN leads \cup {Len(leads) + 1} /\ Len(leads) + 1 \notin DOMAIN leads
        /\ next[Len(leads) + 1] = job
        /\ \A i \in DOMAIN leads : next[i] = leads[i]
    BY <1>1, <2>1, <2>2
  <2>4. Found(list, n + 1) = Found(list, n) \cup {job.company}
    BY <1>2, <2>2, Zenon
  <2>5. \A i \in DOMAIN next : next[i].company \in Found(list, n + 1)
    <3>1. \A i \in DOMAIN leads : leads[i].company \in Found(list, n)
      BY DEF CompaniesAfter
    <3>2. QED
      BY <2>3, <2>4, <3>1, Zenon
  <2>6. \A i, j \in DOMAIN next : next[i].company = next[j].company => i = j
    <3>1. \A i, j \in DOMAIN leads : next[i].company = next[j].company => i = j
      BY <2>3, Zenon DEF CompaniesAfter
    <3>2. \A i \in DOMAIN leads : next[i].company # job.company
      BY <1>3, <2>3, Zenon
    <3>3. QED
      BY <2>3, <3>1, <3>2, Zenon
  <2>7. \A c \in Found(list, n + 1) : \E i \in DOMAIN next : next[i].company = c
    <3>1. \A c \in Found(list, n) : \E i \in DOMAIN leads : leads[i].company = c
      BY <2>2, Zenon DEF CompaniesAfter
    <3>2. QED
      BY <2>3, <2>4, <3>1, Zenon
  <2>8. QED
    BY <2>3, <2>5, <2>6, <2>7, Zenon DEF CompaniesAfter, next
<1>4. CASE ~(Want(leads, job) /\ \A i \in DOMAIN leads : leads[i].company # job.company)
  <2>1. next = leads
    BY <1>4, Zenon DEF CompaniesStep
  <2>2. \A i \in DOMAIN leads : leads[i].company \in Found(list, n + 1)
    BY <1>2, Zenon DEF CompaniesAfter
  <2>3. ASSUME Len(leads) < limit, NEW c \in Found(list, n + 1)
        PROVE  \E i \in DOMAIN leads : leads[i].company = c
    <3>1. CASE c \in Found(list, n)
      BY <2>3, <3>1, Zenon DEF CompaniesAfter
    <3>2. CASE c \notin Found(list, n)
      <4>1. job.matches /\ job.company # NoName /\ c = job.company
        BY <1>2, <2>3, <3>2, Zenon
      <4>2. QED
        BY <1>4, <2>3, <4>1, Zenon DEF Want
    <3>3. QED
      BY <3>1, <3>2
  <2>4. QED
    BY <2>1, <2>2, <2>3, Zenon DEF CompaniesAfter
<1>5. QED
  BY <1>3, <1>4

\* The leads that an answer of remoteok makes.
LEMMA CompaniesFacts ==
  ASSUME NEW list \in Seq(Job), limit \in Nat
  PROVE  CompaniesAfter(list, Len(list), Companies(list))
<1>1. PICK leads : /\ Companies(list) = leads[Len(list)]
                   /\ leads[0] = <<>>
                   /\ \A n \in 0..Len(list) - 1 :
                        leads[n + 1] = CompaniesStep(leads[n], list[n + 1])
  BY CompaniesSteps
<1> DEFINE S == {n \in Nat : n <= Len(list) => CompaniesAfter(list, n, leads[n])}
<1>2. 0 \in S
  <2>1. Found(list, 0) = {}
    BY DEF Found
  <2>2. CompaniesAfter(list, 0, <<>>)
    BY <2>1 DEF CompaniesAfter
  <2>3. QED
    BY <1>1, <2>2
<1>3. ASSUME NEW n \in Nat, n \in S PROVE n + 1 \in S
  <2> SUFFICES ASSUME n + 1 <= Len(list)
               PROVE  CompaniesAfter(list, n + 1, leads[n + 1])
    OBVIOUS
  <2>1. n \in 0..Len(list) - 1 /\ n <= Len(list)
    OBVIOUS
  <2>2. CompaniesAfter(list, n, leads[n])
    BY <1>3, <2>1
  <2>3. QED
    BY <1>1, <2>1, <2>2, CompaniesAfterStep
<1> HIDE DEF S
<1>4. Len(list) \in S
  BY <1>2, <1>3, NumberInduction
<1>5. QED
  BY <1>1, <1>4 DEF S

-----------------------------------------------------------------------------
(* The invariant *)

\* A request is sent for lack of leads only, and remoteok sends one.
RoomToAsk ==
  pc = "ask" => IF adapter = "places" THEN Len(all) < limit ELSE all = <<>> /\ jobs = <<>>

\* Every name that an answer had is among the leads, in some spelling.
OfferedKept ==
  adapter = "places" => \A n \in offered : \E i \in DOMAIN all : Same(all[i], n)

Over(q) == asked[q] \in {"to the end", "failed"}

\* The queries before the one being asked are over; all of them, after a search
\* that found too little.
QueriesOver ==
  adapter = "places" =>
    /\ pc = "ask" => \A q \in 1..query - 1 : Over(q)
    /\ pc = "done" /\ Len(all) < limit => \A q \in 1..Queries : Over(q)

NamedInv ==
  /\ TypeOK
  /\ RoomToAsk
  /\ NamesDistinct
  /\ OfferedKept
  /\ QueriesOver
  /\ OvershootBounded
  /\ AnyJobCounts

LEMMA Sizes ==
  /\ Queries \in Nat /\ Queries >= 1 /\ PageSize \in Nat /\ PageSize >= 1
  /\ Limits \subseteq Int
  /\ PlacesLimit \in Nat \ {0} /\ RemoteLimit \in Nat \ {0}
<1>1. /\ Queries \in Nat \ {0} /\ PageSize \in Nat \ {0}
      /\ Limits \subseteq Int
      /\ PlacesLimit \in Nat \ {0} /\ RemoteLimit \in Nat \ {0}
  BY NamedAssumption, Zenon
<1>2. QED
  BY <1>1

\* The state between two requests, as a type.
LEMMA Typed ==
  ASSUME TypeOK
  PROVE  /\ all \in Seq(Names) /\ Len(all) \in Nat
         /\ limit \in Nat /\ limit >= 1
         /\ query \in Nat /\ query >= 1 /\ query <= Queries
         /\ asked \in [1..Queries -> {"no", "begun", "to the end", "failed"}]
<1>1. all \in Seq(Names)
  BY Zenon DEF TypeOK
<1>2. limit \in Nat \ {0} /\ query \in 1..Queries
  BY Zenon DEF TypeOK
<1>3. asked \in [1..Queries -> {"no", "begun", "to the end", "failed"}]
  BY Zenon DEF TypeOK
<1>4. Len(all) \in Nat
  BY <1>1
<1>5. limit \in Nat /\ limit >= 1 /\ query \in Nat /\ query >= 1 /\ query <= Queries
  BY <1>2, Sizes
<1>6. QED
  BY <1>1, <1>3, <1>4, <1>5, Zenon

LEMMA NamedInvInit == NamedInit => NamedInv
<1> SUFFICES ASSUME NamedInit PROVE NamedInv
  OBVIOUS
<1> USE DEF NamedInit
<1>1. limit \in Nat \ {0}
  BY Sizes DEF OrDefault
<1>2. TypeOK
  <2>1. /\ 1 \in 1..Queries /\ token = 0 /\ query = 1
        /\ all \in Seq(Names) /\ jobs \in Seq(Job)
    BY Sizes
  <2>2. asked \in [1..Queries -> {"no", "begun", "to the end", "failed"}]
    BY Zenon
  <2>3. QED
    BY <1>1, <2>1, <2>2 DEF TypeOK
<1>3. RoomToAsk /\ NamesDistinct /\ OfferedKept /\ QueriesOver /\ OvershootBounded
  BY <1>1, Sizes DEF RoomToAsk, NamesDistinct, OfferedKept, QueriesOver, OvershootBounded
<1>4. AnyJobCounts
  <2>1. {jobs[i].company : i \in {k \in DOMAIN jobs : jobs[k].matches}} \ {NoName} = {}
    OBVIOUS
  <2>2. ToSet(all) = {} /\ Len(all) = 0
    BY DEF ToSet
  <2>3. QED
    BY <2>1, <2>2, FS_EmptySet, Zenon DEF AnyJobCounts
<1>5. QED
  BY <1>2, <1>3, <1>4 DEF NamedInv

\* What a page adds to the leads, whichever way the loop goes on.
LEMMA PageKeeps ==
  ASSUME TypeOK, RoomToAsk, NamesDistinct, OfferedKept, adapter = "places", pc = "ask",
         NEW results \in Pages, NEW names, names = all \o Unseen(all, results)
  PROVE  /\ names \in Seq(Names)
         /\ Len(names) \in Nat /\ Len(names) < limit + PageSize
         /\ \A i, j \in DOMAIN names : Same(names[i], names[j]) => i = j
         /\ \A n \in offered \cup ToSet(results) : \E i \in DOMAIN names : Same(names[i], n)
         /\ ToSet(results) \subseteq Names
<1>1. results \in Seq(Names) /\ Len(results) \in Nat /\ Len(results) <= PageSize
      /\ DOMAIN results = 1..Len(results)
  BY Sizes DEF Pages
<1>2. all \in Seq(Names) /\ Len(all) \in Nat /\ Len(all) < limit /\ limit \in Nat
      /\ PageSize \in Nat
  BY Sizes, Typed DEF RoomToAsk
<1> DEFINE new == Unseen(all, results)
<1>3. UnseenAfter(all, results, Len(results), new)
  BY <1>1, <1>2, UnseenFacts
<1> HIDE DEF new
<1>4. new \in Seq(Names) /\ Len(new) \in Nat /\ Len(new) <= Len(results)
  BY <1>3 DEF UnseenAfter
<1>5. names = all \o new
  BY DEF new
<1>6. names \in Seq(Names) /\ Len(names) = Len(all) + Len(new) /\ Len(names) \in Nat
      /\ Len(names) < limit + PageSize
  BY <1>1, <1>2, <1>4, <1>5
<1>7. /\ \A i \in DOMAIN all : i \in DOMAIN names /\ names[i] = all[i]
      /\ \A i \in DOMAIN new : Len(all) + i \in DOMAIN names /\ names[Len(all) + i] = new[i]
      /\ \A i \in DOMAIN names :
           \/ i \in DOMAIN all
           \/ i - Len(all) \in DOMAIN new /\ names[i] = new[i - Len(all)] /\ Len(all) + (i - Len(all)) = i
  <2>1. all \in Seq(Names) /\ new \in Seq(Names)
    BY <1>2, <1>4
  <2> DEFINE both == all \o new
  <2>2. /\ \A i \in DOMAIN all : i \in DOMAIN both /\ both[i] = all[i]
        /\ \A i \in DOMAIN new : Len(all) + i \in DOMAIN both /\ both[Len(all) + i] = new[i]
        /\ \A i \in DOMAIN both :
             \/ i \in DOMAIN all
             \/ i - Len(all) \in DOMAIN new /\ both[i] = new[i - Len(all)]
                /\ Len(all) + (i - Len(all)) = i
    BY <2>1, ConcatElements
  <2>3. QED
    BY <1>5, <2>2, Zenon
<1>8. ASSUME NEW i \in DOMAIN names, NEW j \in DOMAIN names, Same(names[i], names[j])
      PROVE  i = j
  <2>1. CASE i \in DOMAIN all /\ j \in DOMAIN all
    BY <1>7, <1>8, <2>1, Zenon DEF NamesDistinct, Same
  <2> DEFINE fresh(k) == /\ k - Len(all) \in DOMAIN new
                         /\ names[k] = new[k - Len(all)]
                         /\ Len(all) + (k - Len(all)) = k
  <2>2. /\ i \notin DOMAIN all => fresh(i)
        /\ j \notin DOMAIN all => fresh(j)
    BY <1>7, Zenon
  <2>3. /\ \A k \in DOMAIN new : \A h \in DOMAIN all : ~Same(all[h], new[k])
        /\ \A k, h \in DOMAIN new : Same(new[k], new[h]) => k = h
    BY <1>3, Zenon DEF UnseenAfter
  <2>4. CASE i \in DOMAIN all /\ j \notin DOMAIN all
    <3>1. names[i] = all[i] /\ names[j] = new[j - Len(all)] /\ j - Len(all) \in DOMAIN new
      BY <1>7, <2>2, <2>4, Zenon
    <3>2. ~Same(all[i], new[j - Len(all)])
      BY <2>3, <2>4, <3>1, Zenon
    <3>3. QED
      BY <1>8, <3>1, <3>2, Zenon
  <2>5. CASE i \notin DOMAIN all /\ j \in DOMAIN all
    <3>1. names[j] = all[j] /\ names[i] = new[i - Len(all)] /\ i - Len(all) \in DOMAIN new
      BY <1>7, <2>2, <2>5, Zenon
    <3>2. ~Same(all[j], new[i - Len(all)])
      BY <2>3, <2>5, <3>1, Zenon
    <3>3. QED
      BY <1>8, <3>1, <3>2, Zenon DEF Same
  <2>6. CASE i \notin DOMAIN all /\ j \notin DOMAIN all
    <3>1. i - Len(all) = j - Len(all)
      BY <1>8, <2>2, <2>3, <2>6, Zenon
    <3>2. QED
      BY <2>2, <2>6, <3>1, Zenon
  <2>7. QED
    BY <2>1, <2>4, <2>5, <2>6, Zenon
<1>9. ASSUME NEW n \in offered \cup ToSet(results)
      PROVE  \E i \in DOMAIN names : Same(names[i], n)
  <2>1. CASE n \in offered
    BY <1>7, <2>1, Zenon DEF OfferedKept
  <2>2. CASE n \in ToSet(results)
    <3>1. PICK k \in 1..Len(results) : n = results[k]
      BY <1>1, <2>2 DEF ToSet
    <3>2. \/ \E i \in DOMAIN all : Same(all[i], n)
          \/ \E i \in DOMAIN new : Same(new[i], n)
      BY <1>3, <3>1, Zenon DEF UnseenAfter
    <3>3. QED
      BY <1>7, <3>2, Zenon
  <2>3. QED
    BY <2>1, <2>2
<1>10. ToSet(results) \subseteq Names
  BY <1>1 DEF ToSet
<1>11. QED
  BY <1>6, <1>8, <1>9, <1>10

\* The queries up to a number, and the one after it.
LEMMA QueryNumbers ==
  ASSUME NEW q \in 1..Queries
  PROVE  /\ q < Queries => q + 1 \in 1..Queries /\ (q + 1) - 1 = q
         /\ ~(q < Queries) => q = Queries
         /\ \A p \in 1..q : p \in 1..Queries /\ (p # q => p \in 1..q - 1)
<1>1. Queries \in Nat /\ q \in Nat /\ q >= 1 /\ q <= Queries
  BY Sizes
<1>2. QED
  BY <1>1

\* The end of a query, whatever ended it.
LEMMA NextQueryKeeps ==
  ASSUME TypeOK, QueriesOver, adapter = "places", adapter' = "places", pc = "ask",
         NEW names \in Seq(Names), all' = names, limit' = limit,
         NEW how \in {"begun", "to the end", "failed"},
         how = "begun" => ~(Len(names) < limit),
         NextQuery(names, how)
  PROVE  /\ query' \in 1..Queries /\ token' \in {0, query'} /\ pc' \in {"ask", "done"}
         /\ asked' \in [1..Queries -> {"no", "begun", "to the end", "failed"}]
         /\ pc' = "ask" => Len(names) < limit
         /\ QueriesOver'
<1>1. asked \in [1..Queries -> {"no", "begun", "to the end", "failed"}]
  BY Typed
<1>2. query \in 1..Queries /\ token \in {0, query}
  BY Zenon DEF TypeOK
<1>3. /\ query < Queries => query + 1 \in 1..Queries /\ (query + 1) - 1 = query
      /\ ~(query < Queries) => query = Queries
      /\ \A p \in 1..query : p \in 1..Queries /\ (p # query => p \in 1..query - 1)
  BY <1>2, QueryNumbers, Zenon
<1>4. /\ asked' = [asked EXCEPT ![query] = how]
      /\ asked' \in [1..Queries -> {"no", "begun", "to the end", "failed"}]
      /\ asked'[query] = how
      /\ \A q \in 1..Queries : q # query => asked'[q] = asked[q]
  BY <1>1, <1>2 DEF NextQuery
<1>5. ASSUME how # "begun" PROVE \A q \in 1..query : Over(q)'
  <2>1. TAKE q \in 1..query
  <2>2. CASE q = query
    BY <1>4, <1>5, <2>2 DEF Over
  <2>3. CASE q # query
    <3>1. q \in 1..query - 1 /\ q \in 1..Queries
      BY <1>3, <2>3, Zenon
    <3>2. QED
      BY <1>4, <2>3, <3>1 DEF QueriesOver, Over
  <2>4. QED
    BY <2>2, <2>3
<1>6. CASE Len(names) < limit /\ query < Queries
  <2>1. query' = query + 1 /\ token' = 0 /\ pc' = "ask" /\ how # "begun"
    BY <1>6 DEF NextQuery
  <2>2. query' - 1 = query /\ query' \in 1..Queries
    BY <1>3, <1>6, <2>1, Zenon
  <2>3. \A q \in 1..query' - 1 : Over(q)'
    BY <1>5, <2>1, <2>2
  <2>4. QueriesOver'
    BY <2>1, <2>3 DEF QueriesOver
  <2>5. QED
    BY <1>4, <1>6, <2>1, <2>2, <2>4
<1>7. CASE ~(Len(names) < limit /\ query < Queries)
  <2>1. query' = query /\ token' = token /\ pc' = "done"
    BY <1>7 DEF NextQuery
  <2>2. ASSUME Len(names) < limit PROVE \A q \in 1..Queries : Over(q)'
    <3>1. query = Queries
      BY <1>3, <1>7, <2>2, Zenon
    <3>2. how # "begun"
      BY <2>2
    <3>3. QED
      BY <1>5, <3>1, <3>2
  <2>3. QueriesOver'
    BY <2>1, <2>2 DEF QueriesOver
  <2>4. QED
    BY <1>2, <1>4, <1>7, <2>1, <2>3
<1>8. QED
  BY <1>6, <1>7

\* The companies that remoteok finds, counted.
Counted(list, names) ==
  LET found == {list[i].company : i \in {k \in DOMAIN list : list[k].matches}} \ {NoName} IN
  /\ ToSet(names) \subseteq found
  /\ Len(names) = IF list = <<>> \/ Cardinality(found) < limit THEN Cardinality(found) ELSE limit

CompanyNames(list) == [i \in DOMAIN Companies(list) |-> Companies(list)[i].company]

LEMMA FoundCounted ==
  ASSUME NEW list \in Seq(Job), limit \in Nat, limit >= 1
  PROVE  LET names == CompanyNames(list) IN
         /\ names \in Seq(Names)
         /\ \A i, j \in DOMAIN names : names[i] = names[j] => i = j
         /\ Counted(list, names)
<1> DEFINE found == {list[i].company : i \in {k \in DOMAIN list : list[k].matches}} \ {NoName}
           leads == Companies(list)
           names == CompanyNames(list)
<1>1. Len(list) \in Nat /\ DOMAIN list = 1..Len(list)
  OBVIOUS
<1>2. found = Found(list, Len(list))
  BY <1>1, Zenon DEF Found
<1>3. CompaniesAfter(list, Len(list), leads)
  BY <1>1, CompaniesFacts
<1>4. found \subseteq Names
  <2>1. \A i \in DOMAIN list : list[i] \in Job
    OBVIOUS
  <2>2. \A i \in DOMAIN list : list[i].company \in Names \cup {NoName}
    BY <2>1, Zenon DEF Job
  <2>3. QED
    BY <2>2
<1>5. IsFiniteSet(found)
  <2> DEFINE K == {k \in DOMAIN list : list[k].matches /\ list[k].company # NoName}
             f == [k \in K |-> list[k].company]
  <2>1. IsFiniteSet(K)
    <3>1. IsFiniteSet(1..Len(list))
      BY <1>1, FS_Interval
    <3>2. K \in SUBSET (1..Len(list))
      BY <1>1
    <3>3. QED
      BY <3>1, <3>2, FS_Subset
  <2>2. f \in Surjection(K, found)
    BY DEF Surjection
  <2>3. QED
    BY <2>1, <2>2, FS_Surjection
<1> HIDE DEF found, leads, names
<1>6. leads \in Seq(Job) /\ Len(leads) \in Nat /\ Len(leads) <= limit /\ DOMAIN leads = 1..Len(leads)
  BY <1>3 DEF CompaniesAfter
<1>7. \A i \in DOMAIN leads : leads[i].company \in found
  BY <1>2, <1>3, Zenon DEF CompaniesAfter
<1>8. /\ \A i, j \in DOMAIN leads : leads[i].company = leads[j].company => i = j
      /\ Len(leads) < limit => \A c \in found : \E i \in DOMAIN leads : leads[i].company = c
  BY <1>2, <1>3, Zenon DEF CompaniesAfter
<1>9. names = [i \in DOMAIN leads |-> leads[i].company]
  BY DEF leads, names, CompanyNames
<1>10. names \in [1..Len(leads) -> found]
  BY <1>6, <1>7, <1>9
<1>11. names \in Seq(Names) /\ Len(names) = Len(leads) /\ DOMAIN names = DOMAIN leads
  BY <1>4, <1>6, <1>10
<1>12. \A i, j \in DOMAIN names : names[i] = names[j] => i = j
  BY <1>8, <1>9, Zenon
<1>13. ToSet(names) \subseteq found
  BY <1>6, <1>10, <1>11 DEF ToSet
<1>14. Cardinality(found) \in Nat /\ Len(names) <= Cardinality(found)
  <2>1. IsFiniteSet(ToSet(names)) /\ Cardinality(ToSet(names)) = Len(names)
    BY <1>11, <1>12, ElementsCounted
  <2>2. QED
    BY <1>5, <1>13, <2>1, FS_Subset, FS_CardinalityType
<1>15. CASE Len(leads) < limit
  <2>1. Cardinality(found) = Len(names)
    <3>1. \A c \in found : \E i \in DOMAIN names : names[i] = c
      BY <1>8, <1>9, <1>15, Zenon
    <3>2. found = ToSet(names)
      BY <1>13, <3>1, Zenon DEF ToSet
    <3>3. QED
      BY <1>11, <1>12, <3>2, ElementsCounted
  <2>2. Cardinality(found) < limit
    BY <1>11, <1>15, <2>1, Zenon
  <2>3. QED
    BY <1>11, <1>12, <1>13, <2>1, <2>2, Zenon DEF found, names, Counted
<1>16. CASE ~(Len(leads) < limit)
  <2>1. Len(names) = limit
    <3>1. Len(leads) \in Nat /\ Len(leads) <= limit /\ ~(Len(leads) < limit)
      BY <1>6, <1>16, Zenon
    <3>2. Len(leads) = limit
      BY <3>1
    <3>3. QED
      BY <1>11, <3>2, Zenon
  <2>2. ~(Cardinality(found) < limit)
    BY <1>14, <2>1
  <2>3. list # <<>>
    <3> SUFFICES ASSUME list = <<>> PROVE FALSE
      OBVIOUS
    <3>1. found = {}
      BY DEF found
    <3>2. Cardinality(found) = 0
      BY <3>1, FS_EmptySet
    <3>3. QED
      BY <2>2, <3>2
  <2>4. QED
    BY <1>11, <1>12, <1>13, <2>1, <2>2, <2>3, Zenon DEF found, names, Counted
<1>17. QED
  BY <1>15, <1>16

LEMMA NamedInvNext == NamedInv /\ [NamedNext]_namedVars => NamedInv'
<1> SUFFICES ASSUME NamedInv, [NamedNext]_namedVars PROVE NamedInv'
  OBVIOUS
<1>1. /\ TypeOK /\ RoomToAsk /\ NamesDistinct /\ OfferedKept /\ QueriesOver
      /\ OvershootBounded /\ AnyJobCounts
  BY DEF NamedInv
<1>2. limit \in Nat /\ limit >= 1 /\ all \in Seq(Names) /\ Len(all) \in Nat /\ PageSize \in Nat
      /\ PageSize >= 1
  BY <1>1, Typed, Sizes
<1>3. ASSUME NEW results \in Pages, NEW more \in BOOLEAN, PageArrives(results, more)
      PROVE  NamedInv'
  <2> DEFINE names == all \o Unseen(all, results)
             how == IF more /\ results # <<>> THEN "begun" ELSE "to the end"
  <2>1. /\ adapter = "places" /\ pc = "ask" /\ all' = names
        /\ offered' = offered \cup ToSet(results)
        /\ adapter' = adapter /\ limit' = limit /\ jobs' = jobs /\ expired' = expired
        /\ IF GoesOn(names, results, more)
           THEN /\ token' = query
                /\ asked' = [asked EXCEPT ![query] = "begun"]
                /\ query' = query /\ pc' = pc
           ELSE NextQuery(names, how)
    BY <1>3, Zenon DEF PageArrives
  <2>2. /\ names \in Seq(Names)
        /\ Len(names) \in Nat /\ Len(names) < limit + PageSize
        /\ \A i, j \in DOMAIN names : Same(names[i], names[j]) => i = j
        /\ \A n \in offered \cup ToSet(results) : \E i \in DOMAIN names : Same(names[i], n)
        /\ ToSet(results) \subseteq Names
    BY <1>1, <2>1, PageKeeps
  <2> HIDE DEF names
  <2>3. /\ query' \in 1..Queries /\ token' \in {0, query'} /\ pc' \in {"ask", "done"}
        /\ asked' \in [1..Queries -> {"no", "begun", "to the end", "failed"}]
        /\ pc' = "ask" => Len(names) < limit
        /\ QueriesOver'
    <3>1. CASE GoesOn(names, results, more)
      <4>1. /\ query' = query /\ token' = query /\ pc' = "ask"
            /\ asked' = [asked EXCEPT ![query] = "begun"]
            /\ Len(names) < limit
        BY <2>1, <3>1, Zenon DEF GoesOn
      <4>2. query \in 1..Queries /\ asked \in [1..Queries -> {"no", "begun", "to the end", "failed"}]
        BY <1>1, Zenon DEF TypeOK
      <4>3. asked' \in [1..Queries -> {"no", "begun", "to the end", "failed"}]
        BY <4>1, <4>2
      <4>4. \A q \in 1..query - 1 : Over(q)'
        <5>1. TAKE q \in 1..query - 1
        <5>2. q # query /\ q \in 1..Queries
          <6>1. query \in Nat /\ query <= Queries /\ Queries \in Nat
            BY <1>1, Typed, Sizes
          <6>2. QED
            BY <6>1
        <5>3. asked'[q] = asked[q]
          BY <4>1, <4>2, <5>2, Zenon
        <5>4. Over(q)
          BY <1>1, <2>1, Zenon DEF QueriesOver
        <5>5. QED
          BY <5>3, <5>4 DEF Over
      <4>5. QueriesOver'
        BY <4>1, <4>4 DEF QueriesOver
      <4>6. QED
        BY <2>1, <4>1, <4>2, <4>3, <4>5
    <3>2. CASE ~GoesOn(names, results, more)
      <4>1. NextQuery(names, how)
        BY <2>1, <3>2, Zenon
      <4>2. how = "begun" => ~(Len(names) < limit)
        BY <3>2 DEF GoesOn
      <4>3. how \in {"begun", "to the end", "failed"}
        OBVIOUS
      <4> HIDE DEF how
      <4>4. QED
        BY <1>1, <2>1, <2>2, <4>1, <4>2, <4>3, NextQueryKeeps
    <3>3. QED
      BY <3>1, <3>2
  <2>4. TypeOK'
    BY <1>1, <2>1, <2>2, <2>3 DEF TypeOK
  <2>5. RoomToAsk' /\ OvershootBounded' /\ NamesDistinct' /\ OfferedKept'
    BY <2>1, <2>2, <2>3, Zenon DEF RoomToAsk, OvershootBounded, NamesDistinct, OfferedKept, Same
  <2>6. AnyJobCounts'
    BY <2>1 DEF AnyJobCounts
  <2>7. QED
    BY <2>3, <2>4, <2>5, <2>6 DEF NamedInv
<1>4. ASSUME PageFails PROVE NamedInv'
  <2>1. /\ adapter = "places" /\ pc = "ask"
        /\ adapter' = adapter /\ limit' = limit /\ all' = all /\ jobs' = jobs
        /\ expired' = expired /\ offered' = offered
        /\ NextQuery(all, "failed")
    BY <1>4, Zenon DEF PageFails
  <2>2. /\ query' \in 1..Queries /\ token' \in {0, query'} /\ pc' \in {"ask", "done"}
        /\ asked' \in [1..Queries -> {"no", "begun", "to the end", "failed"}]
        /\ pc' = "ask" => Len(all) < limit
        /\ QueriesOver'
    BY <1>1, <1>2, <2>1, NextQueryKeeps
  <2>3. TypeOK'
    BY <1>1, <2>1, <2>2 DEF TypeOK
  <2>4. RoomToAsk' /\ OvershootBounded' /\ NamesDistinct' /\ OfferedKept'
    BY <1>1, <2>1, <2>2, Zenon DEF RoomToAsk, OvershootBounded, NamesDistinct, OfferedKept
  <2>5. AnyJobCounts'
    BY <2>1 DEF AnyJobCounts
  <2>6. QED
    BY <2>2, <2>3, <2>4, <2>5 DEF NamedInv
<1>5. ASSUME NEW list \in JobLists, JobsArrive(list) PROVE NamedInv'
  <2>1. /\ adapter = "remoteok" /\ pc = "ask" /\ pc' = "done"
        /\ jobs' = list
        /\ all' = CompanyNames(list)
        /\ adapter' = adapter /\ limit' = limit /\ query' = query /\ token' = token
        /\ expired' = expired /\ asked' = asked /\ offered' = offered
    BY <1>5, Zenon DEF JobsArrive, CompanyNames
  <2>2. list \in Seq(Job) /\ limit \in Nat /\ limit >= 1
    <3>1. PICK n \in 0..MaxJobs : list \in [1..n -> Job]
      BY Zenon DEF JobLists
    <3>2. n \in Nat
      OBVIOUS
    <3>3. list \in Seq(Job)
      BY <3>1, <3>2
    <3>4. QED
      BY <1>2, <3>3
  <2>3. /\ all' \in Seq(Names)
        /\ \A i, j \in DOMAIN all' : all'[i] = all'[j] => i = j
        /\ Counted(list, all')
    BY <2>1, <2>2, FoundCounted, Zenon
  <2>4. TypeOK'
    BY <1>1, <2>1, <2>2, <2>3 DEF TypeOK
  <2>5. RoomToAsk' /\ OvershootBounded' /\ OfferedKept' /\ QueriesOver'
    BY <2>1 DEF RoomToAsk, OvershootBounded, OfferedKept, QueriesOver
  <2>6. NamesDistinct'
    BY <2>1, <2>3, Zenon DEF NamesDistinct
  <2>7. AnyJobCounts'
    BY <2>1, <2>3 DEF AnyJobCounts, Counted
  <2>8. QED
    BY <2>4, <2>5, <2>6, <2>7 DEF NamedInv
<1>6. ASSUME JobsFail PROVE NamedInv'
  <2>1. /\ adapter = "remoteok" /\ pc' = "done"
        /\ adapter' = adapter /\ limit' = limit /\ query' = query /\ token' = token
        /\ all' = all /\ jobs' = jobs
        /\ expired' = expired /\ asked' = asked /\ offered' = offered
    BY <1>6, Zenon DEF JobsFail
  <2>2. TypeOK'
    BY <1>1, <2>1 DEF TypeOK
  <2>3. RoomToAsk' /\ OvershootBounded' /\ OfferedKept' /\ QueriesOver'
    BY <2>1 DEF RoomToAsk, OvershootBounded, OfferedKept, QueriesOver
  <2>4. NamesDistinct' /\ AnyJobCounts'
    BY <1>1, <2>1, Zenon DEF NamesDistinct, AnyJobCounts
  <2>5. QED
    BY <2>2, <2>3, <2>4 DEF NamedInv
<1>7. ASSUME Expire \/ UNCHANGED namedVars PROVE NamedInv'
  <2>1. /\ adapter' = adapter /\ limit' = limit /\ pc' = pc /\ query' = query /\ token' = token
        /\ all' = all /\ jobs' = jobs /\ expired' \in {expired, TRUE}
        /\ asked' = asked /\ offered' = offered
    BY <1>7 DEF Expire, namedVars
  <2>2. TypeOK'
    BY <1>1, <2>1 DEF TypeOK
  <2>3. RoomToAsk' /\ OvershootBounded' /\ NamesDistinct' /\ OfferedKept'
    BY <1>1, <2>1, Zenon DEF RoomToAsk, OvershootBounded, NamesDistinct, OfferedKept
  <2>4. AnyJobCounts'
    BY <1>1, <2>1 DEF AnyJobCounts
  <2>5. QueriesOver'
    BY <1>1, <2>1, Zenon DEF QueriesOver, Over
  <2>6. QED
    BY <2>2, <2>3, <2>4, <2>5 DEF NamedInv
<1>8. QED
  BY <1>3, <1>4, <1>5, <1>6, <1>7 DEF NamedNext, SearchStep

LEMMA NamedInvariant == NamedSpec => []NamedInv
BY NamedInvInit, NamedInvNext, PTL DEF NamedSpec

-----------------------------------------------------------------------------
(* Theorems *)

\* The state of a search is of its type, whatever the services answer.
THEOREM TypeCorrect == NamedSpec => []TypeOK
<1>1. NamedInv => TypeOK
  BY DEF NamedInv
<1>2. QED
  BY <1>1, NamedInvariant, PTL

\* However the pages of the queries overlap, and whatever jobs a company has: a
\* name is collected once (google_maps.go:145, remoteok.go:62).
THEOREM NoNameTwice == NamedSpec => []NamesDistinct
<1>1. NamedInv => NamesDistinct
  BY DEF NamedInv
<1>2. QED
  BY <1>1, NamedInvariant, PTL

\* For every limit and every size of a page, google_maps collects less than a page
\* too many (google_maps.go:109).
THEOREM LessThanAPageOver == NamedSpec => []OvershootBounded
<1>1. NamedInv => OvershootBounded
  BY DEF NamedInv
<1>2. QED
  BY <1>1, NamedInvariant, PTL

\* A failed request costs its own query alone: a search that comes back with too
\* little has asked every query, and has kept what any of them offered
\* (google_maps.go:127).
THEOREM OthersAreAsked == NamedSpec => []FailureStaysInQuery
<1>1. NamedInv => FailureStaysInQuery
  BY Zenon DEF NamedInv, OfferedKept, QueriesOver, Over, Same, FailureStaysInQuery
<1>2. QED
  BY <1>1, NamedInvariant, PTL

\* remoteok finds each company that has a job that matches, up to the limit
\* (remoteok.go:62, :84, :89).
THEOREM CompaniesFound == NamedSpec => []AnyJobCounts
<1>1. NamedInv => AnyJobCounts
  BY DEF NamedInv
<1>2. QED
  BY <1>1, NamedInvariant, PTL
=============================================================================
