-------------------------- MODULE LeadQueryProofs ---------------------------
(***************************************************************************)
(* What the readings of LeadQuery show, proved for every set of leads,     *)
(* every assignment of scores, every filter, page and limit: the total     *)
(* against the page, the campaign against its leads, and reading page      *)
(* after page by OFFSET while jobs, imports and deletions move the rows.   *)
(***************************************************************************)
EXTENDS LeadQuery, FoldFacts, TLAPS

-----------------------------------------------------------------------------
(* The invariant *)

Read == Len(query.pages)

\* What a reading has done by the time it is at one of its statements.
Staged ==
  /\ query.page >= 1 /\ query.limit >= 1
  /\ query.pc = "row" => query.op = "full"
  /\ query.pc = "page" => query.op = "list"
  /\ query.pc = "off" => query.op = "list"
  /\ query.op # "list" => query.page = 1 /\ Read = IF query.pc = "done" THEN 1 ELSE 0
  /\ query.op = "full" => query.imported = "either" /\ query.limit = FullLimit
  /\ query.pc \in {"page", "done"} => Read >= 1

\* A count that is fresh is the number of rows that the next SELECT finds.
Counted ==
  query.pc = "list" /\ query.fresh /\ ~query.hitch => query.total = Cardinality(Matching(query))

\* A campaign, and a job that has yet to report, count leads that are stored.
Backed ==
  \A c \in Campaigns :
    /\ ~Exists(c) => campaign[c].found = 0
    /\ Exists(c) =>
         /\ campaign[c].found <= Cardinality(stored \cap LeadsOf(c))
         /\ job[c] # None => job[c] <= Cardinality(stored \cap LeadsOf(c))

\* The row that /full has read counts no more leads than the SELECT will find.
RowBacked ==
  query.op = "full" /\ query.pc \in {"count", "list"} /\ "out" \notin query.moved =>
    query.row.found <= Cardinality(Matching(query))

\* A lead that left the selection does not come back: a mark is final, and so is
\* the deletion of a campaign.
Gone(l) ==
  \/ query.imported = "false" /\ mark[l] # None
  \/ l \notin stored /\ Cascade /\ ~Exists(CampaignOf[l])

\* How the rows that match now come from those that did at the beginning.
SinceBegan ==
  query.pc # "off" =>
    /\ \A l \in query.began : /\ l \in query.of
                              /\ query.imported = "true" => mark[l] # None
                              /\ l \in Matching(query) \/ Gone(l)
    /\ "out" \notin query.moved => query.began \subseteq Matching(query)
    /\ query.moved = {} => query.began = Matching(query)

\* The reading began with the first page and has lost nothing.
Top ==
  /\ query.pc \in {"count", "list", "page", "done"} /\ ~query.hitch
  /\ query.page = Read + IF query.pc \in {"count", "list"} THEN 1 ELSE 0

AtPage == query.pc \in {"page", "done"}

\* One statement that reads everything misses only what is gone.
AllSeen ==
  Top /\ AtPage /\ OnePage => \A l \in query.began : l \in ToSet(ReadItems) \/ Gone(l)

\* When nothing moves, the pages are full until all is read.
Filled ==
  /\ Len(ReadItems) <= Cardinality(query.began)
  /\ ~AtPage => Len(ReadItems) = Read * query.limit
  /\ AtPage => Len(ReadItems) = IF Len(Last(query.pages)) < query.limit
                                THEN Cardinality(query.began) ELSE Read * query.limit

PagesFill == Top /\ query.moved = {} => Filled

\* The rows of S that come before l in every order.
Above(S, l) == {k \in S : Score[k] > Score[l]}

\* A lead that is not read yet is pushed behind the pages that are, since rows that
\* come in can only move it down.
Unread ==
  Top /\ query.op = "list" /\ NoTies /\ "out" \notin query.moved =>
    /\ \A l \in query.began \ ToSet(ReadItems) :
         Cardinality(Above(Matching(query), l)) >= Read * query.limit
    /\ AtPage /\ Len(Last(query.pages)) < query.limit => query.began \subseteq ToSet(ReadItems)

Typed == TypeOK /\ Staged /\ Backed

QueryInv ==
  /\ Typed
  /\ Counted /\ TotalFitsPage
  /\ RowBacked /\ FullShowsFound
  /\ SinceBegan /\ AllSeen /\ PagesFill /\ Unread

-----------------------------------------------------------------------------
(* Orders of rows and pages of them *)

LEMMA Constants ==
  /\ IsFiniteSet(Leads) /\ Score \in [Leads -> Nat] /\ Filters \subseteq SUBSET Leads
  /\ PageParams \subseteq Int /\ LimitParams \subseteq Int
  /\ DefaultLimit \in Nat \ {0} /\ ExportLimit \in Nat \ {0} /\ FullLimit \in Nat \ {0}
  /\ CampaignOf \in [Leads -> Campaigns]
BY QueryAssumption, TablesAssumption

LEMMA Finite ==
  ASSUME NEW S \in SUBSET Leads
  PROVE  IsFiniteSet(S) /\ Cardinality(S) \in Nat
BY Constants, FS_Subset, FS_CardinalityType

LEMMA LargerHasMore ==
  ASSUME NEW S \in SUBSET Leads, NEW T \in SUBSET S
  PROVE  Cardinality(T) <= Cardinality(S) /\ (Cardinality(T) = Cardinality(S) => T = S)
BY Finite, FS_Subset

\* Every row of S has one place in an order of S.
LEMMA OrderFacts ==
  ASSUME NEW S \in SUBSET Leads, NEW s \in Orders(S)
  PROVE  /\ s \in Seq(S) /\ Len(s) = Cardinality(S)
         /\ DOMAIN s = 1..Cardinality(S)
         /\ \A i, j \in DOMAIN s : s[i] = s[j] => i = j
         /\ \A i, j \in DOMAIN s : i < j => Score[s[i]] >= Score[s[j]]
         /\ \A l \in S : \E i \in DOMAIN s : s[i] = l
<1> DEFINE n == Cardinality(S)
<1>1. n \in Nat /\ IsFiniteSet(S)
  BY Finite
<1>2. /\ s \in [1..n -> S]
      /\ \A i, j \in 1..n : i # j => s[i] # s[j]
      /\ \A i, j \in DOMAIN s : i < j => Score[s[i]] >= Score[s[j]]
  BY Zenon DEF Orders, SetToSeqs
<1> HIDE DEF n
<1>3. DOMAIN s = 1..n
  BY <1>2
<1>4. s \in Injection(1..n, S)
  BY <1>2 DEF Injection, IsInjective
<1>5. IsFiniteSet(1..n) /\ Cardinality(1..n) = n
  BY <1>1, FS_Interval
<1>6. s \in Surjection(1..n, S)
  BY <1>1, <1>4, <1>5, FS_Injection DEF n
<1>7. \A l \in S : \E i \in 1..n : s[i] = l
  BY <1>6 DEF Surjection
<1>8. s \in Seq(S) /\ Len(s) = n
  BY <1>1, <1>2
<1>9. QED
  BY <1>2, <1>3, <1>7, <1>8, Zenon DEF n

\* The page of at most "limit" rows behind the first "off".
LEMMA SliceFacts ==
  ASSUME NEW S \in SUBSET Leads, NEW s \in Orders(S), NEW q,
         q.limit \in Nat, Offset(q) \in Nat
  PROVE  LET off == Offset(q)
             n == Cardinality(S)
         IN /\ Slice(s, q) \in Seq(S)
            /\ Len(Slice(s, q)) = IF n <= off THEN 0 ELSE IF n - off < q.limit THEN n - off ELSE q.limit
            /\ \A i \in DOMAIN s : i > off /\ i <= off + q.limit => s[i] \in ToSet(Slice(s, q))
<1> DEFINE off == Offset(q)
           n == Cardinality(S)
           k == q.limit
           last == IF off + k < Len(s) THEN off + k ELSE Len(s)
           page == SubSeq(s, off + 1, last)
<1>1. n \in Nat /\ off \in Nat /\ k \in Nat
  BY Finite
<1>2. /\ s \in Seq(S) /\ Len(s) = n /\ DOMAIN s = 1..n
      /\ \A i \in 1..n : s[i] \in S
  <2>1. s \in Seq(S) /\ Len(s) = n /\ DOMAIN s = 1..n
    BY OrderFacts
  <2>2. QED
    BY <2>1
<1>3. Slice(s, q) = page
  BY Zenon DEF Slice
<1> HIDE DEF off, n, k
<1>4. last = IF off + k < n THEN off + k ELSE n
  BY <1>2
<1> HIDE DEF last
<1>5. last \in Int /\ last <= n /\ off + 1 \in Int /\ last <= off + k
  BY <1>1, <1>4
<1>6. \A i \in off + 1..last : s[i] \in S
  <2>1. \A i \in off + 1..last : i \in 1..n
    BY <1>1, <1>5
  <2>2. QED
    BY <1>2, <2>1
<1>7. /\ page \in Seq(S)
      /\ Len(page) = IF off + 1 <= last THEN last - (off + 1) + 1 ELSE 0
      /\ \A i \in 1..last - (off + 1) + 1 : page[i] = s[off + 1 + i - 1]
  BY <1>5, <1>6, SubSeqProperties
<1> HIDE DEF page
<1>8. Len(page) = IF n <= off THEN 0 ELSE IF n - off < k THEN n - off ELSE k
  BY <1>1, <1>4, <1>7
<1>9. ASSUME NEW i \in DOMAIN s, i > off, i <= off + k PROVE s[i] \in ToSet(page)
  <2> DEFINE j == i - off
  <2>1. i \in Nat /\ i <= n /\ i <= last /\ off + 1 <= last
    BY <1>1, <1>2, <1>4, <1>9
  <2>2. j \in 1..last - (off + 1) + 1 /\ off + 1 + j - 1 = i /\ j \in 1..Len(page)
    BY <1>1, <1>5, <1>7, <1>9, <2>1
  <2>3. page[j] = s[i]
    BY <1>7, <2>2, Zenon
  <2>4. QED
    BY <1>7, <2>2, <2>3 DEF ToSet
<1>10. QED
  BY <1>3, <1>7, <1>8, <1>9, Zenon DEF off, n, k

\* Without ties, as many rows come before a row in every order as have a higher score.
LEMMA RankFacts ==
  ASSUME NEW S \in SUBSET Leads, NEW s \in Orders(S),
         \A l1, l2 \in S : Score[l1] = Score[l2] => l1 = l2,
         NEW i \in DOMAIN s
  PROVE  Cardinality(Above(S, s[i])) = i - 1
<1> DEFINE A == Above(S, s[i])
           e == [j \in 1..i - 1 |-> s[j]]
<1>1. /\ s \in Seq(S) /\ DOMAIN s = 1..Cardinality(S) /\ Cardinality(S) \in Nat
      /\ \A j, h \in DOMAIN s : s[j] = s[h] => j = h
      /\ \A j, h \in DOMAIN s : j < h => Score[s[j]] >= Score[s[h]]
      /\ \A l \in S : \E j \in DOMAIN s : s[j] = l
  BY OrderFacts, Finite
<1>2. \A l \in S : Score[l] \in Nat
  BY Constants
<1>3. i \in Nat /\ i >= 1 /\ i - 1 \in Nat /\ \A j \in DOMAIN s : s[j] \in S /\ j \in Nat
  BY <1>1
<1>4. \A j \in 1..i - 1 : j \in DOMAIN s /\ j < i /\ j # i
  BY <1>1
<1>5. ASSUME NEW j \in 1..i - 1 PROVE s[j] \in A
  <2>1. Score[s[j]] >= Score[s[i]] /\ Score[s[j]] # Score[s[i]]
    BY <1>1, <1>3, <1>4, Zenon
  <2>2. Score[s[j]] > Score[s[i]]
    BY <1>2, <1>3, <1>4, <2>1
  <2>3. QED
    BY <1>3, <1>4, <2>2 DEF Above
<1>6. ASSUME NEW l \in A PROVE \E j \in 1..i - 1 : e[j] = l
  <2>1. PICK j \in DOMAIN s : s[j] = l
    BY <1>1 DEF Above
  <2>2. Score[s[j]] > Score[s[i]] /\ Score[s[j]] \in Nat /\ Score[s[i]] \in Nat
    BY <1>2, <1>3, <2>1 DEF Above
  <2>3. ~(i < j) /\ i # j
    BY <1>1, <2>2
  <2>4. j \in 1..i - 1
    BY <1>1, <1>3, <2>3
  <2>5. QED
    BY <2>1, <2>4
<1>7. e \in [1..i - 1 -> A]
  BY <1>5
<1>8. \A j, h \in 1..i - 1 : e[j] = e[h] => j = h
  BY <1>1, <1>4
<1> HIDE DEF A, e
<1>9. Cardinality(A) = i - 1
  BY <1>3, <1>6, <1>7, <1>8, Enumerated, Zenon
<1>10. QED
  BY <1>9 DEF A

\* The numbers of a page of rows, counted.
LEMMA CountBetween ==
  ASSUME NEW n \in Nat, NEW off \in Nat, NEW k \in Nat
  PROVE  Cardinality({i \in 1..n : i > off /\ i <= off + k})
           = IF n <= off THEN 0 ELSE IF n - off < k THEN n - off ELSE k
<1> DEFINE last == IF off + k < n THEN off + k ELSE n
<1>1. {i \in 1..n : i > off /\ i <= off + k} = off + 1..last
  OBVIOUS
<1>2. last \in Int /\ off + 1 \in Int /\ last = IF off + k < n THEN off + k ELSE n
  OBVIOUS
<1> HIDE DEF last
<1>3. Cardinality(off + 1..last) = IF off + 1 > last THEN 0 ELSE last - (off + 1) + 1
  BY <1>2, FS_Interval
<1>4. (IF off + 1 > last THEN 0 ELSE last - (off + 1) + 1)
        = IF n <= off THEN 0 ELSE IF n - off < k THEN n - off ELSE k
  BY <1>2
<1>5. QED
  BY <1>1, <1>3, <1>4

-----------------------------------------------------------------------------
(* What the others do to the tables *)

LEMMA LeadsOfDisjoint ==
  ASSUME NEW c \in Campaigns, NEW d \in Campaigns, c # d
  PROVE  LeadsOf(c) \cap LeadsOf(d) = {} /\ LeadsOf(c) \subseteq Leads
BY DEF LeadsOf

LEMMA SizeOf ==
  ASSUME NEW S \in SUBSET Leads, NEW c \in Campaigns
  PROVE  /\ S \cap LeadsOf(c) \in SUBSET Leads
         /\ Cardinality(S \cap LeadsOf(c)) \in Nat
<1>1. S \cap LeadsOf(c) \in SUBSET Leads
  OBVIOUS
<1>2. QED
  BY <1>1, Finite

\* Stored leads stay until a deletion takes them, and those of a deleted campaign
\* are gone for good; marks stay.
OnlyDeletionRemoves ==
  /\ \A l \in Leads : mark[l] # None => mark'[l] = mark[l]
  /\ \A l \in stored : l \in stored' \/ (Cascade /\ ~Exists(CampaignOf[l])')
  /\ \A l \in stored' : l \in stored \/ ~Cascade \/ Exists(CampaignOf[l])
  /\ \A c \in Campaigns : ~Exists(c) => ~Exists(c)'

LEMMA StoreKeeps ==
  ASSUME TablesTypeOK, Backed, NEW c \in Campaigns, NEW new \in SUBSET LeadsOf(c), Store(c, new)
  PROVE  TablesTypeOK' /\ Backed' /\ OnlyDeletionRemoves
<1>1. /\ campaign' = campaign /\ mark' = mark /\ crm' = crm /\ faults' = faults
      /\ stored' = stored \cup new /\ job' = [job EXCEPT ![c] = Cardinality(new)]
      /\ Exists(c) \/ ~Cascade
      /\ new \in SUBSET Leads
  BY DEF Store, LeadsOf
<1>2. stored \in SUBSET Leads /\ stored' \in SUBSET Leads /\ job \in [Campaigns -> Nat \cup {None}]
  BY <1>1 DEF TablesTypeOK
<1>3. Cardinality(new) \in Nat
  BY <1>1, Finite
<1>4. TablesTypeOK'
  BY <1>1, <1>2, <1>3 DEF TablesTypeOK
<1>5. Backed'
  <2> SUFFICES ASSUME NEW d \in Campaigns
               PROVE  /\ ~Exists(d) => campaign[d].found = 0
                      /\ Exists(d) =>
                           /\ campaign[d].found <= Cardinality(stored' \cap LeadsOf(d))
                           /\ job'[d] # None => job'[d] <= Cardinality(stored' \cap LeadsOf(d))
    BY <1>1 DEF Backed, Exists
  <2>1. /\ Cardinality(stored \cap LeadsOf(d)) \in Nat
        /\ Cardinality(stored' \cap LeadsOf(d)) \in Nat
        /\ stored' \cap LeadsOf(d) \in SUBSET Leads
    BY <1>2, SizeOf
  <2>2. Cardinality(stored \cap LeadsOf(d)) <= Cardinality(stored' \cap LeadsOf(d))
    <3>1. stored \cap LeadsOf(d) \in SUBSET (stored' \cap LeadsOf(d))
      BY <1>1
    <3>2. QED
      BY <2>1, <3>1, LargerHasMore
  <2>3. campaign[d].found \in Nat
    BY DEF TablesTypeOK, CampaignRow
  <2>4. ASSUME Exists(d), job'[d] # None
        PROVE  job'[d] <= Cardinality(stored' \cap LeadsOf(d))
    <3>1. CASE d = c
      <4>1. job'[d] = Cardinality(new)
        BY <1>1, <1>2, <3>1
      <4>2. new \in SUBSET (stored' \cap LeadsOf(d))
        BY <1>1, <3>1
      <4>3. QED
        BY <2>1, <4>1, <4>2, LargerHasMore
    <3>2. CASE d # c
      <4>1. job'[d] = job[d] /\ job[d] \in Nat \cup {None}
        BY <1>1, <1>2, <3>2
      <4>2. job[d] <= Cardinality(stored \cap LeadsOf(d)) /\ job[d] \in Nat
        BY <2>4, <4>1 DEF Backed
      <4>3. QED
        BY <2>1, <2>2, <4>1, <4>2
    <3>3. QED
      BY <3>1, <3>2
  <2>5. /\ ~Exists(d) => campaign[d].found = 0
        /\ Exists(d) => campaign[d].found <= Cardinality(stored \cap LeadsOf(d))
    BY Zenon DEF Backed
  <2>6. QED
    BY <2>1, <2>2, <2>3, <2>4, <2>5
<1>6. OnlyDeletionRemoves
  <2>1. \A l \in new : CampaignOf[l] = c
    BY DEF LeadsOf
  <2>2. QED
    BY <1>1, <2>1, Zenon DEF OnlyDeletionRemoves, Exists
<1>7. QED
  BY <1>4, <1>5, <1>6

\* A step that touches the rows of one campaign only.
LEMMA RowKeeps ==
  ASSUME TablesTypeOK, Backed, NEW c \in Campaigns, NEW row \in CampaignRow,
         campaign' = [campaign EXCEPT ![c] = row],
         stored' = stored, mark' = mark, crm' = crm, faults' \in Nat,
         job' \in [Campaigns -> Nat \cup {None}],
         \A d \in Campaigns : job'[d] \in {job[d], None},
         row.status = "DELETED" <=> ~Exists(c),
         ~Exists(c) => row.found = 0,
         Exists(c) => row.found <= Cardinality(stored \cap LeadsOf(c))
  PROVE  TablesTypeOK' /\ Backed' /\ OnlyDeletionRemoves
<1>1. campaign \in [Campaigns -> CampaignRow]
  BY DEF TablesTypeOK
<1>2. /\ campaign' \in [Campaigns -> CampaignRow]
      /\ campaign'[c] = row
      /\ \A d \in Campaigns : d # c => campaign'[d] = campaign[d]
  BY <1>1
<1>3. TablesTypeOK'
  BY <1>2 DEF TablesTypeOK
<1>4. \A d \in Campaigns : Exists(d)' <=> Exists(d)
  BY <1>2, Zenon DEF Exists
<1>5. Backed'
  <2> SUFFICES ASSUME NEW d \in Campaigns
               PROVE  /\ ~Exists(d) => campaign'[d].found = 0
                      /\ Exists(d) =>
                           /\ campaign'[d].found <= Cardinality(stored \cap LeadsOf(d))
                           /\ job'[d] # None => job'[d] <= Cardinality(stored \cap LeadsOf(d))
    BY <1>4, Zenon DEF Backed
  <2>1. Exists(d) /\ job'[d] # None => job'[d] <= Cardinality(stored \cap LeadsOf(d))
    <3>1. job'[d] \in {job[d], None}
      OBVIOUS
    <3>2. Exists(d) /\ job[d] # None => job[d] <= Cardinality(stored \cap LeadsOf(d))
      BY Zenon DEF Backed
    <3>3. QED
      BY <3>1, <3>2, Zenon
  <2>2. CASE d = c
    BY <1>2, <2>1, <2>2, Zenon
  <2>3. CASE d # c
    BY <1>2, <2>1, <2>3, Zenon DEF Backed
  <2>4. QED
    BY <2>2, <2>3
<1>6. OnlyDeletionRemoves
  BY <1>4, Zenon DEF OnlyDeletionRemoves
<1>7. QED
  BY <1>3, <1>5, <1>6

\* The UPDATE of a job touches a row that is there, if any.
LEMMA StatusKeeps ==
  ASSUME TablesTypeOK, Backed, NEW c \in Campaigns,
         NEW status \in {"DONE", "FAILED"}, NEW found \in Nat,
         Exists(c) => found <= Cardinality(stored \cap LeadsOf(c)),
         campaign' = WithStatus(c, status, found),
         stored' = stored, mark' = mark, crm' = crm, faults' \in Nat,
         job' \in [Campaigns -> Nat \cup {None}],
         \A d \in Campaigns : job'[d] \in {job[d], None}
  PROVE  TablesTypeOK' /\ Backed' /\ OnlyDeletionRemoves
<1> DEFINE row == IF Exists(c) THEN [campaign[c] EXCEPT !.status = status, !.found = found]
                               ELSE campaign[c]
<1>1. campaign \in [Campaigns -> CampaignRow] /\ campaign[c] \in CampaignRow
  BY DEF TablesTypeOK
<1>2. row \in CampaignRow
  BY <1>1 DEF CampaignRow
<1>3. campaign' = [campaign EXCEPT ![c] = row]
  BY <1>1 DEF WithStatus
<1>4. ~Exists(c) => campaign[c].found = 0
  BY Zenon DEF Backed
<1>5. /\ row.status = "DELETED" <=> ~Exists(c)
      /\ ~Exists(c) => row.found = 0
      /\ Exists(c) => row.found <= Cardinality(stored \cap LeadsOf(c))
  BY <1>1, <1>4 DEF CampaignRow, Exists
<1> HIDE DEF row
<1>6. QED
  BY <1>2, <1>3, <1>5, RowKeeps

LEMMA DeleteKeeps ==
  ASSUME TablesTypeOK, Backed, NEW c \in Campaigns, Delete(c)
  PROVE  TablesTypeOK' /\ Backed' /\ OnlyDeletionRemoves
<1> DEFINE row == [status |-> "DELETED", found |-> 0, imported |-> 0]
<1>1. /\ campaign \in [Campaigns -> CampaignRow] /\ row \in CampaignRow
      /\ campaign' = [campaign EXCEPT ![c] = row]
      /\ stored' = IF Cascade THEN stored \ LeadsOf(c) ELSE stored
      /\ mark' = mark /\ crm' = crm /\ job' = job /\ faults' = faults
  BY DEF Delete, TablesTypeOK, CampaignRow
<1>2. /\ campaign' \in [Campaigns -> CampaignRow]
      /\ campaign'[c].status = "DELETED" /\ campaign'[c].found = 0
      /\ \A d \in Campaigns : d # c => campaign'[d] = campaign[d]
  BY <1>1
<1>3. stored' \in SUBSET stored /\ stored \in SUBSET Leads
  BY <1>1 DEF TablesTypeOK
<1>4. TablesTypeOK'
  BY <1>1, <1>2, <1>3 DEF TablesTypeOK
<1>5. ~Exists(c)' /\ \A d \in Campaigns : d # c => (Exists(d)' <=> Exists(d))
  BY <1>2, Zenon DEF Exists
<1>6. ASSUME NEW d \in Campaigns, d # c PROVE stored' \cap LeadsOf(d) = stored \cap LeadsOf(d)
  BY <1>1, <1>6, LeadsOfDisjoint
<1>7. Backed'
  <2> SUFFICES ASSUME NEW d \in Campaigns
               PROVE  /\ ~Exists(d)' => campaign'[d].found = 0
                      /\ Exists(d)' =>
                           /\ campaign'[d].found <= Cardinality(stored' \cap LeadsOf(d))
                           /\ job[d] # None => job[d] <= Cardinality(stored' \cap LeadsOf(d))
    BY <1>1, Zenon DEF Backed
  <2>1. CASE d = c
    BY <1>2, <1>5, <2>1, Zenon
  <2>2. CASE d # c
    BY <1>2, <1>5, <1>6, <2>2, Zenon DEF Backed
  <2>3. QED
    BY <2>1, <2>2
<1>8. OnlyDeletionRemoves
  <2>1. \A l \in stored : l \in stored' \/ (Cascade /\ ~Exists(CampaignOf[l])')
    <3>1. TAKE l \in stored
    <3>2. CASE Cascade /\ l \in LeadsOf(c)
      BY <1>5, <3>2, Zenon DEF LeadsOf
    <3>3. CASE ~(Cascade /\ l \in LeadsOf(c))
      BY <1>1, <3>3
    <3>4. QED
      BY <3>2, <3>3
  <2>2. \A d \in Campaigns : ~Exists(d) => ~Exists(d)'
    BY <1>5, Zenon
  <2>3. QED
    BY <1>1, <1>3, <2>1, <2>2 DEF OnlyDeletionRemoves
<1>9. QED
  BY <1>4, <1>7, <1>8

LEMMA MarkKeeps ==
  ASSUME TablesTypeOK, Backed, NEW l \in Leads, ImportMarks(l)
  PROVE  TablesTypeOK' /\ Backed' /\ OnlyDeletionRemoves
<1>1. PICK r \in Imports : /\ mark' = [mark EXCEPT ![l] = <<r, 1>>]
                           /\ crm' = crm \cup {[id |-> <<r, 1>>, lead |-> l]}
  BY DEF ImportMarks
<1>2. /\ mark[l] = None
      /\ campaign' = campaign /\ stored' = stored /\ job' = job /\ faults' = faults
  BY DEF ImportMarks
<1>3. <<r, 1>> \in CrmId /\ [id |-> <<r, 1>>, lead |-> l] \in Copy
  BY DEF CrmId, Copy
<1>4. mark \in [Leads -> CrmId \cup {None}] /\ crm \subseteq Copy
  BY DEF TablesTypeOK
<1>5. mark' \in [Leads -> CrmId \cup {None}] /\ crm' \subseteq Copy
  BY <1>1, <1>3, <1>4
<1>6. TablesTypeOK'
  BY <1>2, <1>5 DEF TablesTypeOK
<1>7. Backed'
  BY <1>2, Zenon DEF Backed, Exists
<1>8. \A k \in Leads : mark[k] # None => mark'[k] = mark[k]
  BY <1>1, <1>2, <1>4
<1>9. OnlyDeletionRemoves
  BY <1>2, <1>8, Zenon DEF OnlyDeletionRemoves, Exists
<1>10. QED
  BY <1>6, <1>7, <1>9

LEMMA OthersKeep ==
  ASSUME TablesTypeOK, Backed, OthersNext \/ \E l \in Leads : ImportMarks(l)
  PROVE  TablesTypeOK' /\ Backed' /\ OnlyDeletionRemoves
<1>1. /\ job \in [Campaigns -> Nat \cup {None}] /\ campaign \in [Campaigns -> CampaignRow]
      /\ faults \in Nat /\ stored \in SUBSET Leads
  BY DEF TablesTypeOK
<1>2. ASSUME NEW c \in Campaigns, StoreFails(c) PROVE TablesTypeOK' /\ Backed' /\ OnlyDeletionRemoves
  <2>1. /\ campaign' = WithStatus(c, "FAILED", 0) /\ faults' = faults + 1
        /\ stored' = stored /\ mark' = mark /\ crm' = crm /\ job' = job
    BY <1>2 DEF StoreFails, Fault
  <2>2. 0 <= Cardinality(stored \cap LeadsOf(c))
    BY <1>1, SizeOf
  <2>3. /\ faults' \in Nat /\ 0 \in Nat /\ job' \in [Campaigns -> Nat \cup {None}]
        /\ \A d \in Campaigns : job'[d] \in {job[d], None}
    BY <1>1, <2>1
  <2>4. QED
    BY <2>1, <2>2, <2>3, StatusKeeps
<1>3. ASSUME NEW c \in Campaigns, NEW ok \in BOOLEAN, Report(c, ok)
      PROVE  TablesTypeOK' /\ Backed' /\ OnlyDeletionRemoves
  <2>1. /\ campaign' = IF ok THEN WithStatus(c, "DONE", job[c]) ELSE campaign
        /\ job[c] # None /\ job' = [job EXCEPT ![c] = None]
        /\ stored' = stored /\ mark' = mark /\ crm' = crm
        /\ IF ok THEN faults' = faults ELSE faults' = faults + 1
    BY <1>3 DEF Report, Fault
  <2>2. /\ faults' \in Nat /\ job' \in [Campaigns -> Nat \cup {None}]
        /\ \A d \in Campaigns : job'[d] \in {job[d], None}
    BY <1>1, <2>1
  <2>3. CASE ok
    <3>1. job[c] \in Nat /\ (Exists(c) => job[c] <= Cardinality(stored \cap LeadsOf(c)))
      BY <1>1, <2>1 DEF Backed
    <3>2. QED
      BY <2>1, <2>2, <2>3, <3>1, StatusKeeps
  <2>4. CASE ~ok
    <3>1. campaign[c] \in CampaignRow /\ campaign' = [campaign EXCEPT ![c] = campaign[c]]
      BY <1>1, <2>1, <2>4
    <3>2. /\ campaign[c].status = "DELETED" <=> ~Exists(c)
          /\ ~Exists(c) => campaign[c].found = 0
          /\ Exists(c) => campaign[c].found <= Cardinality(stored \cap LeadsOf(c))
      BY Zenon DEF Backed, Exists
    <3>3. QED
      BY <2>1, <2>2, <3>1, <3>2, RowKeeps
  <2>5. QED
    BY <2>3, <2>4
<1>4. ASSUME NEW c \in Campaigns, Refetch(c) PROVE TablesTypeOK' /\ Backed' /\ OnlyDeletionRemoves
  <2> DEFINE row == [campaign[c] EXCEPT !.status = "RUNNING"]
  <2>1. /\ campaign[c].status \in {"DONE", "FAILED"} /\ campaign[c] \in CampaignRow
        /\ campaign' = [campaign EXCEPT ![c] = row]
        /\ stored' = stored /\ mark' = mark /\ crm' = crm /\ job' = job /\ faults' = faults
    BY <1>1, <1>4 DEF Refetch
  <2>2. row \in CampaignRow /\ row.status = "RUNNING" /\ row.found = campaign[c].found /\ Exists(c)
    BY <2>1 DEF CampaignRow, Exists
  <2>3. campaign[c].found <= Cardinality(stored \cap LeadsOf(c))
    BY <2>2, Zenon DEF Backed
  <2> HIDE DEF row
  <2>4. /\ faults' \in Nat /\ job' \in [Campaigns -> Nat \cup {None}]
        /\ \A d \in Campaigns : job'[d] \in {job[d], None}
    BY <1>1, <2>1
  <2>5. row.status # "DELETED"
    BY <2>2
  <2>6. QED
    BY <2>1, <2>2, <2>3, <2>4, <2>5, RowKeeps
<1>5. QED
  BY <1>2, <1>3, <1>4, StoreKeeps, DeleteKeeps, MarkKeeps DEF OthersNext

-----------------------------------------------------------------------------
(* What the statements of a reading do *)

LEMMA Stages ==
  ASSUME query.op \in Ops, query.pc = "row" => query.op = "full",
         query.pc \in {"row", "count", "list"}
  PROVE  After = CASE query.pc = "row"   -> "count"
                   [] query.pc = "count" -> "list"
                   [] query.pc = "list"  -> IF query.op = "list" THEN "page" ELSE "done"
<1> DEFINE route == Route(query.op)
           i == CHOOSE i \in DOMAIN route : route[i] = query.pc
<1>1. CASE query.op = "list"
  <2>1. route = <<"count", "list", "page">>
    BY <1>1 DEF Route
  <2>2. i \in DOMAIN route /\ route[i] = query.pc
    <3>1. \E k \in DOMAIN route : route[k] = query.pc
      BY <1>1, <2>1
    <3>2. QED
      BY <3>1
  <2> HIDE DEF i
  <2>3. i = IF query.pc = "count" THEN 1 ELSE 2
    BY <1>1, <2>1, <2>2
  <2>4. After = route[1 + i]
    BY DEF After, i
  <2>5. QED
    BY <1>1, <2>1, <2>3, <2>4
<1>2. CASE query.op = "export"
  <2>1. route = <<"count", "list", "done">>
    BY <1>2 DEF Route
  <2>2. i \in DOMAIN route /\ route[i] = query.pc
    <3>1. \E k \in DOMAIN route : route[k] = query.pc
      BY <1>2, <2>1
    <3>2. QED
      BY <3>1
  <2> HIDE DEF i
  <2>3. i = IF query.pc = "count" THEN 1 ELSE 2
    BY <1>2, <2>1, <2>2
  <2>4. After = route[1 + i]
    BY DEF After, i
  <2>5. QED
    BY <1>2, <2>1, <2>3, <2>4
<1>3. CASE query.op = "full"
  <2>1. route = <<"row", "count", "list", "done">>
    BY <1>3 DEF Route
  <2>2. i \in DOMAIN route /\ route[i] = query.pc
    <3>1. \E k \in DOMAIN route : route[k] = query.pc
      BY <1>3, <2>1
    <3>2. QED
      BY <3>1
  <2> HIDE DEF i
  <2>3. i = IF query.pc = "row" THEN 1 ELSE IF query.pc = "count" THEN 2 ELSE 3
    BY <1>3, <2>1, <2>2
  <2>4. After = route[1 + i]
    BY DEF After, i
  <2>5. QED
    BY <1>3, <2>1, <2>3, <2>4
<1>4. QED
  BY <1>1, <1>2, <1>3 DEF Ops

\* The tables, and what the caller asked for, stay.
SameReading ==
  /\ campaign' = campaign /\ stored' = stored /\ mark' = mark /\ crm' = crm /\ job' = job
  /\ query'.op = query.op /\ query'.imported = query.imported /\ query'.of = query.of
  /\ query'.limit = query.limit /\ query'.began = query.began /\ query'.moved = query.moved

Begun ==
  /\ campaign' = campaign /\ stored' = stored /\ mark' = mark /\ crm' = crm /\ job' = job
  /\ query.pc = "off" /\ query'.pc = IF query'.op = "full" THEN "row" ELSE "count"
  /\ query'.page >= 1 /\ query'.limit >= 1
  /\ query'.op # "list" => query'.page = 1
  /\ query'.op = "full" => query'.imported = "either" /\ query'.limit = FullLimit
  /\ query'.began = MatchingIn(stored, mark, query'.of, query'.imported)
  /\ query'.pages = <<>> /\ query'.moved = {} /\ query'.hitch = FALSE

Counts ==
  /\ SameReading
  /\ query.pc = "count" /\ query'.pc = "list"
  /\ query'.page = query.page /\ query'.pages = query.pages /\ query'.row = query.row
  /\ \/ query'.total = Cardinality(Matching(query)) /\ query'.hitch = query.hitch
     \/ query'.hitch = TRUE

Selects ==
  /\ SameReading
  /\ query.pc = "list" /\ query'.pc = IF query.op = "list" THEN "page" ELSE "done"
  /\ query'.page = query.page /\ query'.row = query.row
  /\ query'.total = query.total /\ query'.fresh = query.fresh
  /\ \E s \in Orders(Matching(query)), items \in Seq(Leads) :
       /\ query'.pages = Append(query.pages, items)
       /\ \/ items = Slice(s, query) /\ query'.hitch = query.hitch
          \/ query'.hitch = TRUE

Errs ==
  /\ SameReading
  /\ query.pc \in {"row", "list"}
  /\ query'.pc = "error" /\ query'.page = query.page /\ query'.pages = query.pages

Proceeds ==
  /\ SameReading
  /\ query.pc = "page"
  /\ \/ Len(Last(query.pages)) = query.limit /\ query'.pc = "count" /\ query'.page = query.page + 1
     \/ query'.pc = "done" /\ query'.page = query.page
  /\ query'.pages = query.pages /\ query'.total = query.total
  /\ query'.fresh = query.fresh /\ query'.hitch = query.hitch

ReadsRow ==
  /\ SameReading
  /\ query.pc = "row" /\ query'.pc = "count"
  /\ query'.page = query.page /\ query'.pages = query.pages /\ query'.hitch = query.hitch
  /\ \E c \in Campaigns : query.of = LeadsOf(c) /\ Exists(c) /\ query'.row = campaign[c]

LEMMA MatchingFinite ==
  ASSUME TypeOK
  PROVE  Matching(query) \in SUBSET Leads /\ Cardinality(Matching(query)) \in Nat
<1>1. Matching(query) \in SUBSET Leads
  BY DEF TypeOK, TablesTypeOK, Matching, MatchingIn
<1>2. QED
  BY <1>1, Finite

LEMMA OffsetNat ==
  ASSUME TypeOK, Staged
  PROVE  /\ Offset(query) \in Nat /\ query.limit \in Nat /\ query.page \in Nat /\ query.page - 1 \in Nat
         /\ Offset(query) = (query.page - 1) * query.limit
<1>1. query.page \in Nat /\ query.limit \in Nat /\ query.page >= 1
  BY DEF TypeOK, QueryRecord, Staged
<1>2. query.page - 1 \in Nat
  BY <1>1
<1>3. (query.page - 1) * query.limit \in Nat
  BY <1>1, <1>2
<1>4. QED
  BY <1>1, <1>2, <1>3 DEF Offset

LEMMA DefaultFacts ==
  ASSUME NEW n \in Int, NEW default \in Nat \ {0}
  PROVE  OrDefault(n, default) \in Nat /\ OrDefault(n, default) >= 1
BY DEF OrDefault

LEMMA StartFacts ==
  ASSUME NEW op \in Ops, NEW page \in Int, NEW limit \in Int
  PROVE  /\ OrDefault(page, 1) \in Nat /\ OrDefault(page, 1) >= 1
         /\ LimitOf(op, limit) \in Nat /\ LimitOf(op, limit) >= 1
         /\ op = "full" => LimitOf(op, limit) = FullLimit
         /\ Head(Route(op)) = IF op = "full" THEN "row" ELSE "count"
<1>1. OrDefault(page, 1) \in Nat /\ OrDefault(page, 1) >= 1
  BY DefaultFacts
<1>2. OrDefault(limit, DefaultLimit) \in Nat /\ OrDefault(limit, DefaultLimit) >= 1
  BY DefaultFacts, Constants
<1>3. ExportLimit \in Nat /\ ExportLimit >= 1 /\ FullLimit \in Nat /\ FullLimit >= 1
  BY Constants
<1>4. CASE op = "list"
  <2>1. LimitOf(op, limit) = OrDefault(limit, DefaultLimit)
    BY <1>4 DEF LimitOf
  <2>2. Route(op) = <<"count", "list", "page">>
    BY <1>4 DEF Route
  <2>3. Head(<<"count", "list", "page">>) = "count"
    OBVIOUS
  <2>4. QED
    BY <1>1, <1>2, <1>4, <2>1, <2>2, <2>3
<1>5. CASE op = "export"
  <2>1. LimitOf(op, limit) = ExportLimit
    BY <1>5 DEF LimitOf
  <2>2. Route(op) = <<"count", "list", "done">>
    BY <1>5 DEF Route
  <2>3. Head(<<"count", "list", "done">>) = "count"
    OBVIOUS
  <2>4. QED
    BY <1>1, <1>3, <1>5, <2>1, <2>2, <2>3
<1>6. CASE op = "full"
  <2>1. LimitOf(op, limit) = FullLimit
    BY <1>6 DEF LimitOf
  <2>2. Route(op) = <<"row", "count", "list", "done">>
    BY <1>6 DEF Route
  <2>3. Head(<<"row", "count", "list", "done">>) = "row"
    OBVIOUS
  <2>4. QED
    BY <1>1, <1>3, <1>6, <2>1, <2>2, <2>3
<1>7. QED
  BY <1>4, <1>5, <1>6 DEF Ops

LEMMA StartBegins ==
  ASSUME TypeOK, ReaderStart
  PROVE  Begun /\ query' \in QueryRecord /\ UNCHANGED tableVars
<1>1. query.pc = "off" /\ UNCHANGED tableVars
  BY DEF ReaderStart
<1>2. ASSUME NEW op \in Ops, NEW of \in SUBSET Leads, NEW imported \in {"either", "true", "false"},
             op = "full" => imported = "either",
             NEW page \in Int, NEW limit \in Int, Start(op, of, imported, page, limit)
      PROVE  Begun /\ query' \in QueryRecord
  <2> DEFINE p == IF op = "list" THEN OrDefault(page, 1) ELSE 1
             n == LimitOf(op, limit)
             b == MatchingIn(stored, mark, of, imported)
             h == Head(Route(op))
  <2>1. /\ OrDefault(page, 1) \in Nat /\ OrDefault(page, 1) >= 1
        /\ n \in Nat /\ n >= 1 /\ (op = "full" => n = FullLimit)
        /\ h = IF op = "full" THEN "row" ELSE "count"
    BY StartFacts
  <2>2. p \in Nat /\ p >= 1 /\ (op # "list" => p = 1)
    <3>1. CASE op = "list"
      BY <2>1, <3>1, Zenon
    <3>2. CASE op # "list"
      <4>1. p = 1
        BY <3>2, Zenon
      <4>2. 1 \in Nat /\ 1 >= 1
        OBVIOUS
      <4>3. QED
        BY <4>1, <4>2, Zenon
    <3>3. QED
      BY <3>1, <3>2, Zenon
  <2>3. n \in Nat /\ n >= 1 /\ (op = "full" => n = FullLimit)
    BY <2>1
  <2>4. h = IF op = "full" THEN "row" ELSE "count"
    BY <2>1
  <2>5. b \in SUBSET Leads
    BY DEF MatchingIn, TypeOK, TablesTypeOK
  <2>6. query' = [op |-> op, imported |-> imported, of |-> of, page |-> p, limit |-> n, pc |-> h,
                  row |-> NoRow, total |-> 0, pages |-> <<>>,
                  began |-> b, moved |-> {}, fresh |-> TRUE, hitch |-> FALSE]
    <3>1. query' = [Off EXCEPT !.op = op, !.of = of, !.imported = imported,
                               !.page = p, !.limit = n, !.pc = h, !.began = b]
      BY <1>2, Zenon DEF Start
    <3> HIDE DEF p, n, b, h
    <3>2. QED
      BY <3>1 DEF Off
  <2> HIDE DEF p, n, b, h
  <2>7. query' \in QueryRecord
    <3>1. NoRow \in CampaignRow /\ <<>> \in Seq(Seq(Leads)) /\ 0 \in Nat /\ {} \in SUBSET {"in", "out"}
      BY DEF NoRow, CampaignRow
    <3>2. h \in {"row", "count"}
      BY <2>4, Zenon
    <3>3. QED
      BY <2>2, <2>3, <2>5, <2>6, <3>1, <3>2 DEF QueryRecord
  <2>8. /\ query'.op = op /\ query'.imported = imported /\ query'.of = of /\ query'.page = p
        /\ query'.limit = n /\ query'.pc = h /\ query'.pages = <<>> /\ query'.began = b
        /\ query'.moved = {} /\ query'.hitch = FALSE
    BY <2>6
  <2>9. query'.began = MatchingIn(stored, mark, query'.of, query'.imported)
    BY <2>8, Zenon DEF b
  <2>10. Begun
    BY <1>1, <1>2, <2>2, <2>3, <2>4, <2>8, <2>9, Zenon DEF Begun, tableVars
  <2>11. QED
    BY <2>7, <2>10
<1>3. \A op \in Ops, of \in SUBSET Leads, imported \in {"either", "true", "false"},
         page \in Int, limit \in Int :
        (op = "full" => imported = "either") /\ Start(op, of, imported, page, limit)
          => Begun /\ query' \in QueryRecord
  BY <1>2, Zenon
<1>4. "list" \in Ops /\ "export" \in Ops /\ "full" \in Ops
  BY DEF Ops
<1>5. CASE \E of \in Filters, imported \in {"either", "true", "false"}, page \in PageParams,
             limit \in LimitParams : List(of, imported, page, limit)
  <2>1. PICK of \in Filters, imported \in {"either", "true", "false"}, page \in PageParams,
             limit \in LimitParams : Start("list", of, imported, page, limit)
    BY <1>5, Zenon DEF List
  <2>2. of \in SUBSET Leads /\ page \in Int /\ limit \in Int
    BY Constants
  <2>3. "list" = "full" => imported = "either"
    OBVIOUS
  <2>4. QED
    BY <1>1, <1>4, <1>3, <2>1, <2>2, <2>3, Zenon
<1>6. CASE \E of \in Filters, imported \in {"either", "true", "false"}, page \in PageParams :
             Export(of, imported, page)
  <2>1. PICK of \in Filters, imported \in {"either", "true", "false"}, page \in PageParams :
             Start("export", of, imported, page, 0)
    BY <1>6, Zenon DEF Export
  <2>2. of \in SUBSET Leads /\ page \in Int
    BY Constants
  <2>3. 0 \in Int
    OBVIOUS
  <2>4. "export" = "full" => imported = "either"
    OBVIOUS
  <2>5. QED
    BY <1>1, <1>4, <1>3, <2>1, <2>2, <2>3, <2>4, Zenon
<1>7. CASE \E c \in Campaigns : Full(c)
  <2>1. PICK c \in Campaigns : Start("full", LeadsOf(c), "either", 1, 0)
    BY <1>7 DEF Full
  <2>2. LeadsOf(c) \in SUBSET Leads
    BY DEF LeadsOf
  <2>3. /\ 1 \in Int /\ 0 \in Int /\ "either" \in {"either", "true", "false"}
        /\ "full" = "full" => "either" = "either"
    OBVIOUS
  <2>4. QED
    BY <1>1, <1>4, <1>3, <2>1, <2>2, <2>3, Zenon
<1>8. QED
  BY <1>1, <1>5, <1>6, <1>7, Zenon DEF ReaderStart

\* A page, or what arrives of it, is a sequence of leads.
LEMMA PageTyped ==
  ASSUME TypeOK, Staged, NEW s \in Orders(Matching(query))
  PROVE  /\ Slice(s, query) \in Seq(Leads)
         /\ \A n \in 0..Len(Slice(s, query)) - 1 : SubSeq(Slice(s, query), 1, n) \in Seq(Leads)
<1> DEFINE items == Slice(s, query)
<1>1. items \in Seq(Leads)
  <2>1. items \in Seq(Matching(query)) /\ Matching(query) \in SUBSET Leads
    BY MatchingFinite, OffsetNat, SliceFacts
  <2> HIDE DEF items
  <2>2. QED
    BY <2>1
<1> HIDE DEF items
<1>2. \A n \in 0..Len(items) - 1 : SubSeq(items, 1, n) \in Seq(Leads)
  <2>1. TAKE n \in 0..Len(items) - 1
  <2>2. n \in Int /\ 1 \in Int /\ \A i \in 1..n : items[i] \in Leads
    BY <1>1
  <2>3. QED
    BY <2>2, SubSeqProperties
<1>3. QED
  BY <1>1, <1>2 DEF items

LEMMA RecordFacts ==
  ASSUME TypeOK
  PROVE  /\ query \in QueryRecord
         /\ query.op \in Ops /\ query.page \in Nat /\ query.limit \in Nat /\ query.total \in Nat
         /\ query.of \in SUBSET Leads /\ query.began \in SUBSET Leads
         /\ query.row \in CampaignRow /\ query.pages \in Seq(Seq(Leads))
         /\ query.moved \in SUBSET {"in", "out"} /\ query.hitch \in BOOLEAN /\ query.fresh \in BOOLEAN
         /\ query.imported \in {"either", "true", "false"}
         /\ query.pc \in {"off", "row", "count", "list", "page", "done", "error"}
<1>1. query \in QueryRecord
  BY DEF TypeOK
<1>2. QED
  BY <1>1 DEF QueryRecord

\* A step of the reader is one of five kinds.
LEMMA ReaderKinds ==
  ASSUME TypeOK, Staged, ReaderStep
  PROVE  /\ Counts \/ Selects \/ Errs \/ Proceeds \/ ReadsRow
         /\ query' \in QueryRecord /\ faults' \in Nat
<1>1. /\ campaign' = campaign /\ stored' = stored /\ mark' = mark /\ crm' = crm /\ job' = job
  BY DEF ReaderStep
<1>2. query \in QueryRecord /\ query.op \in Ops /\ query.pages \in Seq(Seq(Leads)) /\ query.page \in Nat
  BY RecordFacts
<1>3. faults \in Nat
  BY DEF TypeOK, TablesTypeOK
<1>4. query.pc = "row" => query.op = "full"
  BY DEF Staged
<1>5. CASE CountMatching
  <2>1. query.pc = "count" /\ After = "list"
    BY <1>2, <1>4, <1>5, Stages DEF CountMatching
  <2>2. Cardinality(Matching(query)) \in Nat
    BY MatchingFinite
  <2>3. CASE /\ query' = [query EXCEPT !.pc = After, !.fresh = TRUE,
                                       !.total = Cardinality(CountClause(query))]
             /\ UNCHANGED faults
    <3> DEFINE t == Cardinality(Matching(query))
    <3>1. query' = [query EXCEPT !.pc = "list", !.fresh = TRUE, !.total = t]
      BY <2>1, <2>3 DEF CountClause
    <3> HIDE DEF t
    <3>2. t \in Nat
      BY <2>2 DEF t
    <3>3. query' \in QueryRecord
      BY <1>2, <3>1, <3>2 DEF QueryRecord
    <3>4. /\ SameReading /\ query'.pc = "list" /\ query'.total = t
          /\ query'.page = query.page /\ query'.pages = query.pages /\ query'.row = query.row
          /\ query'.hitch = query.hitch
      BY <1>1, <1>2, <3>1 DEF QueryRecord, SameReading
    <3>5. QED
      BY <1>3, <2>1, <2>3, <3>3, <3>4, Zenon DEF Counts, t
  <2>4. CASE Fault /\ query' = [query EXCEPT !.pc = After, !.total = 0, !.hitch = TRUE]
    <3>1. query' = [query EXCEPT !.pc = "list", !.total = 0, !.hitch = TRUE]
      BY <2>1, <2>4
    <3>2. query' \in QueryRecord
      BY <1>2, <3>1 DEF QueryRecord
    <3>3. /\ SameReading /\ query'.pc = "list" /\ query'.hitch = TRUE
          /\ query'.page = query.page /\ query'.pages = query.pages /\ query'.row = query.row
      BY <1>1, <1>2, <3>1 DEF QueryRecord, SameReading
    <3>4. faults' \in Nat
      BY <1>3, <2>4 DEF Fault
    <3>5. QED
      BY <2>1, <3>2, <3>3, <3>4, Zenon DEF Counts
  <2>5. QED
    BY <1>5, <2>3, <2>4, Zenon DEF CountMatching
<1>6. CASE SelectPage
  <2> DEFINE next == IF query.op = "list" THEN "page" ELSE "done"
  <2>1. query.pc = "list" /\ After = next
    BY <1>2, <1>4, <1>6, Stages DEF SelectPage
  <2>2. next \in {"page", "done"}
    OBVIOUS
  <2>3. PICK s \in Orders(Matching(query)) :
          \/ /\ query' = [query EXCEPT !.pages = Append(@, Slice(s, query)), !.pc = After]
             /\ UNCHANGED faults
          \/ /\ Fault
             /\ \E n \in 0..Len(Slice(s, query)) - 1 :
                  query' = [query EXCEPT !.pages = Append(@, SubSeq(Slice(s, query), 1, n)),
                                         !.pc = After, !.hitch = TRUE]
    BY <1>6, Zenon DEF SelectPage
  <2> HIDE DEF next
  <2>4. CASE /\ query' = [query EXCEPT !.pages = Append(@, Slice(s, query)), !.pc = After]
             /\ UNCHANGED faults
    <3> DEFINE items == Slice(s, query)
               more == Append(query.pages, items)
    <3>1. items \in Seq(Leads)
      BY PageTyped
    <3> HIDE DEF items
    <3>2. query' = [query EXCEPT !.pages = more, !.pc = next]
      BY <2>1, <2>4 DEF items
    <3>3. more \in Seq(Seq(Leads))
      BY <1>2, <3>1
    <3> HIDE DEF more
    <3>4. query' \in QueryRecord
      BY <1>2, <2>2, <3>2, <3>3 DEF QueryRecord
    <3>5. /\ SameReading /\ query'.pc = next /\ query'.pages = more
          /\ query'.page = query.page /\ query'.row = query.row
          /\ query'.total = query.total /\ query'.fresh = query.fresh
          /\ query'.hitch = query.hitch
      BY <1>1, <1>2, <3>2 DEF QueryRecord, SameReading
    <3>6. Selects
      BY <2>1, <3>1, <3>5, Zenon DEF Selects, next, more, items
    <3>7. QED
      BY <1>3, <2>4, <3>4, <3>6
  <2>5. CASE /\ Fault
             /\ \E n \in 0..Len(Slice(s, query)) - 1 :
                  query' = [query EXCEPT !.pages = Append(@, SubSeq(Slice(s, query), 1, n)),
                                         !.pc = After, !.hitch = TRUE]
    <3>1. PICK n \in 0..Len(Slice(s, query)) - 1 :
            query' = [query EXCEPT !.pages = Append(@, SubSeq(Slice(s, query), 1, n)),
                                   !.pc = After, !.hitch = TRUE]
      BY <2>5
    <3> DEFINE items == SubSeq(Slice(s, query), 1, n)
               more == Append(query.pages, items)
    <3>2. items \in Seq(Leads)
      BY PageTyped
    <3> HIDE DEF items
    <3>3. query' = [query EXCEPT !.pages = more, !.pc = next, !.hitch = TRUE]
      BY <2>1, <3>1 DEF items
    <3>4. more \in Seq(Seq(Leads))
      BY <1>2, <3>2
    <3> HIDE DEF more
    <3>5. query' \in QueryRecord
      BY <1>2, <2>2, <3>3, <3>4 DEF QueryRecord
    <3>6. /\ SameReading /\ query'.pc = next /\ query'.pages = more
          /\ query'.page = query.page /\ query'.row = query.row
          /\ query'.total = query.total /\ query'.fresh = query.fresh
          /\ query'.hitch = TRUE
      BY <1>1, <1>2, <3>3 DEF QueryRecord, SameReading
    <3>7. Selects
      BY <2>1, <3>2, <3>6, Zenon DEF Selects, next, more
    <3>8. faults' \in Nat
      BY <1>3, <2>5 DEF Fault
    <3>9. QED
      BY <3>5, <3>7, <3>8
  <2>6. QED
    BY <2>3, <2>4, <2>5
<1>7. ASSUME query' = [query EXCEPT !.pc = "error"], faults' \in Nat, query.pc \in {"row", "list"}
      PROVE  Errs /\ query' \in QueryRecord
  <2>1. query' \in QueryRecord
    BY <1>2, <1>7 DEF QueryRecord
  <2>2. QED
    BY <1>1, <1>2, <1>7, <2>1 DEF QueryRecord, SameReading, Errs
<1>8. CASE SelectFails
  <2>1. query' = [query EXCEPT !.pc = "error"] /\ faults' \in Nat /\ query.pc \in {"row", "list"}
    BY <1>3, <1>8 DEF SelectFails, Fault
  <2>2. QED
    BY <1>7, <2>1
<1>9. CASE NextPage
  <2>1. query.pc = "page" /\ faults' = faults
    BY <1>9 DEF NextPage
  <2>2. CASE Len(Last(query.pages)) = query.limit /\ query.page < MaxPages
    <3> DEFINE p == query.page + 1
    <3>1. query' = [query EXCEPT !.page = p, !.pc = "count"]
      BY <1>9, <2>2 DEF NextPage
    <3>2. p \in Nat
      BY <1>2
    <3> HIDE DEF p
    <3>3. query' \in QueryRecord
      BY <1>2, <3>1, <3>2 DEF QueryRecord
    <3>4. /\ SameReading /\ query'.pc = "count" /\ query'.page = p
          /\ query'.pages = query.pages /\ query'.total = query.total
          /\ query'.fresh = query.fresh /\ query'.hitch = query.hitch
      BY <1>1, <1>2, <3>1 DEF QueryRecord, SameReading
    <3>5. QED
      BY <1>3, <2>1, <2>2, <3>3, <3>4, Zenon DEF Proceeds, p
  <2>3. CASE ~(Len(Last(query.pages)) = query.limit /\ query.page < MaxPages)
    <3>1. query' = [query EXCEPT !.pc = "done"]
      BY <1>9, <2>3 DEF NextPage
    <3>2. query' \in QueryRecord
      BY <1>2, <3>1 DEF QueryRecord
    <3>3. /\ SameReading /\ query'.pc = "done" /\ query'.page = query.page
          /\ query'.pages = query.pages /\ query'.total = query.total
          /\ query'.fresh = query.fresh /\ query'.hitch = query.hitch
      BY <1>1, <1>2, <3>1 DEF QueryRecord, SameReading
    <3>4. QED
      BY <1>3, <2>1, <3>2, <3>3, Zenon DEF Proceeds
  <2>4. QED
    BY <2>2, <2>3
<1>10. ASSUME NEW c \in Campaigns, FullRow(c)
       PROVE  /\ ReadsRow \/ Errs
              /\ query' \in QueryRecord /\ faults' \in Nat
  <2>1. query.pc = "row" /\ query.of = LeadsOf(c) /\ After = "count"
    BY <1>2, <1>4, <1>10, Stages DEF FullRow
  <2>2. CASE Exists(c) /\ query' = [query EXCEPT !.row = campaign[c], !.pc = After] /\ UNCHANGED faults
    <3> DEFINE row == campaign[c]
    <3>1. row \in CampaignRow
      BY DEF TypeOK, TablesTypeOK
    <3>2. query' = [query EXCEPT !.row = row, !.pc = "count"]
      BY <2>1, <2>2
    <3> HIDE DEF row
    <3>3. query' \in QueryRecord
      BY <1>2, <3>1, <3>2 DEF QueryRecord
    <3>4. /\ SameReading /\ query'.pc = "count" /\ query'.row = row
          /\ query'.page = query.page /\ query'.pages = query.pages /\ query'.hitch = query.hitch
      BY <1>1, <1>2, <3>2 DEF QueryRecord, SameReading
    <3>5. QED
      BY <1>3, <2>1, <2>2, <3>3, <3>4, Zenon DEF ReadsRow, row
  <2>3. CASE query' = [query EXCEPT !.pc = "error"] /\ (UNCHANGED faults \/ Fault)
    <3>1. faults' \in Nat
      BY <1>3, <2>3 DEF Fault
    <3>2. QED
      BY <1>7, <2>1, <2>3, <3>1
  <2>4. QED
    BY <1>10, <2>2, <2>3, Zenon DEF FullRow
<1>11. QED
  BY <1>5, <1>6, <1>8, <1>9, <1>10, <1>7, Zenon DEF ReaderStep

-----------------------------------------------------------------------------
(* What the others do to a reading *)

\* All that a step of the others changes of a reading is what has been noted of it.
Watched ==
  /\ query.pc \notin {"off", "done", "error"} /\ query'.pc = query.pc
  /\ query'.op = query.op /\ query'.imported = query.imported /\ query'.of = query.of
  /\ query'.page = query.page /\ query'.limit = query.limit /\ query'.row = query.row
  /\ query'.total = query.total /\ query'.pages = query.pages /\ query'.began = query.began
  /\ query'.hitch = query.hitch
  /\ query.moved \subseteq query'.moved
  /\ "out" \notin query'.moved => Matching(query) \subseteq Matching(query)'
  /\ query'.moved = {} => Matching(query)' = Matching(query)
  /\ query'.fresh => query.fresh /\ Matching(query)' = Matching(query)

Idle == query.pc = "off" /\ query' = query

LEMMA WatchingKinds ==
  ASSUME TypeOK, query.pc \notin {"done", "error"}, Watching
  PROVE  (Idle \/ Watched) /\ query' \in QueryRecord
<1> DEFINE before == Matching(query)
           after == MatchingIn(stored', mark', query.of, query.imported)
           moves == (IF after \subseteq before THEN {} ELSE {"in"})
                    \cup (IF before \subseteq after THEN {} ELSE {"out"})
           m == query.moved \cup moves
           f == query.fresh /\ moves = {}
<1>1. query \in QueryRecord /\ query.moved \in SUBSET {"in", "out"}
  BY RecordFacts
<1>2. query' = IF query.pc = "off" THEN query
               ELSE [query EXCEPT !.moved = query.moved \cup moves, !.fresh = query.fresh /\ moves = {}]
  BY Zenon DEF Watching
<1>3. CASE query.pc = "off"
  BY <1>1, <1>2, <1>3, Zenon DEF Idle
<1>4. CASE query.pc # "off"
  <2>1. query' = [query EXCEPT !.moved = m, !.fresh = f]
    BY <1>2, <1>4, Zenon
  <2>2. m \in SUBSET {"in", "out"} /\ f \in BOOLEAN
    BY <1>1
  <2>3. /\ "out" \notin m => before \subseteq after
        /\ m = {} => after = before
        /\ f => query.fresh /\ after = before
        /\ query.moved \subseteq m
    OBVIOUS
  <2> HIDE DEF m, f, before, after
  <2>4. query' \in QueryRecord
    BY <1>1, <2>1, <2>2 DEF QueryRecord
  <2>5. /\ query'.pc = query.pc
        /\ query'.op = query.op /\ query'.imported = query.imported /\ query'.of = query.of
        /\ query'.page = query.page /\ query'.limit = query.limit /\ query'.row = query.row
        /\ query'.total = query.total /\ query'.pages = query.pages /\ query'.began = query.began
        /\ query'.hitch = query.hitch
        /\ query'.moved = m /\ query'.fresh = f
    BY <1>1, <2>1 DEF QueryRecord
  <2>6. Matching(query)' = after /\ Matching(query) = before
    BY <2>5, Zenon DEF Matching, after, before
  <2>7. Watched
    BY <1>4, <2>3, <2>5, <2>6, Zenon DEF Watched
  <2>8. QED
    BY <2>4, <2>7
<1>5. QED
  BY <1>3, <1>4

\* In the steps of the reader the rows that match stay.
LEMMA MatchingStays ==
  ASSUME SameReading
  PROVE  Matching(query)' = Matching(query)
BY Zenon DEF SameReading, Matching

LEMMA GoneStays ==
  ASSUME TypeOK, OnlyDeletionRemoves, query'.imported = query.imported,
         NEW l \in Leads, Gone(l)
  PROVE  Gone(l)'
<1>1. CASE query.imported = "false" /\ mark[l] # None
  <2>1. mark'[l] # None
    BY <1>1, Zenon DEF OnlyDeletionRemoves
  <2>2. QED
    BY <1>1, <2>1, Zenon DEF Gone
<1>2. CASE l \notin stored /\ Cascade /\ ~Exists(CampaignOf[l])
  <2>1. CampaignOf[l] \in Campaigns
    BY Constants
  <2>2. ~Exists(CampaignOf[l])' /\ l \notin stored'
    BY <1>2, <2>1, Zenon DEF OnlyDeletionRemoves
  <2>3. QED
    BY <1>2, <2>2, Zenon DEF Gone
<1>3. QED
  BY <1>1, <1>2, Zenon DEF Gone

\* A row leaves the selection for good.
LEMMA LeavesForGood ==
  ASSUME TypeOK, OnlyDeletionRemoves, query'.imported = query.imported, query'.of = query.of,
         NEW l \in Matching(query), l \notin Matching(query)'
  PROVE  Gone(l)'
<1>1. /\ l \in stored /\ l \in query.of /\ l \in Leads
      /\ query.imported = "true" => mark[l] # None
  BY DEF Matching, MatchingIn, TypeOK, TablesTypeOK
<1>2. CASE l \notin stored'
  BY <1>1, <1>2, Zenon DEF OnlyDeletionRemoves, Gone
<1>3. CASE l \in stored'
  <2>1. query.imported = "true" => mark'[l] # None
    BY <1>1, Zenon DEF OnlyDeletionRemoves
  <2>2. query.imported = "false" /\ mark'[l] # None
    BY <1>1, <1>3, <2>1 DEF Matching, MatchingIn
  <2>3. QED
    BY <2>2, Zenon DEF Gone
<1>4. QED
  BY <1>2, <1>3

-----------------------------------------------------------------------------
(* What each kind of step keeps *)

LEMMA PagesFacts ==
  ASSUME TypeOK, NEW items \in Seq(Leads)
  PROVE  LET more == Append(query.pages, items)
         IN  /\ Read \in Nat /\ Len(more) = Read + 1 /\ more # <<>> /\ Last(more) = items
             /\ ReadItems \in Seq(Leads)
             /\ FlattenSeq(more) = ReadItems \o items
             /\ FlattenSeq(more) \in Seq(Leads)
             /\ Len(FlattenSeq(more)) = Len(ReadItems) + Len(items)
             /\ ToSet(FlattenSeq(more)) = ToSet(ReadItems) \cup ToSet(items)
<1> DEFINE more == Append(query.pages, items)
<1>1. query.pages \in Seq(Seq(Leads)) /\ items \in Seq(Leads)
  BY RecordFacts
<1>2. Len(query.pages) \in Nat /\ Len(more) = Len(query.pages) + 1 /\ more[Len(query.pages) + 1] = items
  BY <1>1
<1>3. more # <<>> /\ Last(more) = items
  BY <1>2 DEF Last
<1> HIDE DEF more
<1>4. FlattenSeq(query.pages) \in Seq(Leads) /\ FlattenSeq(more) = FlattenSeq(query.pages) \o items
  BY <1>1, FlattenAppend, Zenon DEF more
<1>5. ReadItems \in Seq(Leads) /\ FlattenSeq(more) = ReadItems \o items
  BY <1>4, Zenon DEF ReadItems
<1> HIDE <1>4
<1>6. FlattenSeq(more) \in Seq(Leads) /\ Len(FlattenSeq(more)) = Len(ReadItems) + Len(items)
  <2> DEFINE r == ReadItems
  <2> HIDE DEF r
  <2>1. r \in Seq(Leads) /\ FlattenSeq(more) = r \o items
    BY <1>5 DEF r
  <2>2. r \o items \in Seq(Leads) /\ Len(r \o items) = Len(r) + Len(items)
    BY <1>1, <2>1
  <2>3. QED
    BY <2>1, <2>2, Zenon DEF r
<1>7. ToSet(FlattenSeq(more)) = ToSet(ReadItems) \cup ToSet(items)
  BY <1>5, ConcatElements, Zenon
<1>8. QED
  BY <1>2, <1>3, <1>5, <1>6, <1>7, Zenon DEF more, Read

LEMMA NothingRead ==
  ASSUME TypeOK, query.pages = <<>>
  PROVE  Read = 0 /\ Len(ReadItems) = 0
<1>1. FlattenSeq(<<>>) = <<>>
  BY DEF FlattenSeq
<1>2. QED
  BY <1>1 DEF Read, ReadItems

LEMMA StagedKept ==
  ASSUME TypeOK, Staged,
         Begun \/ Counts \/ Selects \/ Errs \/ Proceeds \/ ReadsRow \/ Watched \/ Idle
  PROVE  Staged'
<1>1. /\ query.op \in Ops /\ query.page \in Nat /\ query.limit \in Nat /\ Len(query.pages) \in Nat
  BY RecordFacts
<1>2. CASE Begun
  BY <1>2 DEF Begun, Staged, Read
<1>3. CASE Counts \/ ReadsRow
  BY <1>3 DEF Counts, ReadsRow, SameReading, Staged, Read
<1>4. CASE Selects
  <2>1. PICK items \in Seq(Leads) : query'.pages = Append(query.pages, items)
    BY <1>4, Zenon DEF Selects
  <2>2. Len(query'.pages) = Len(query.pages) + 1
    BY <2>1, PagesFacts, Zenon DEF Read
  <2>3. QED
    BY <1>1, <1>4, <2>2 DEF Selects, SameReading, Staged, Read, Ops
<1>5. CASE Errs
  BY <1>5 DEF Errs, SameReading, Staged, Read
<1>6. CASE Proceeds
  BY <1>1, <1>6 DEF Proceeds, SameReading, Staged, Read
<1>7. CASE Watched
  BY <1>7 DEF Watched, Staged, Read
<1>8. CASE Idle
  BY <1>8 DEF Idle, Staged, Read
<1>9. QED
  BY <1>2, <1>3, <1>4, <1>5, <1>6, <1>7, <1>8

LEMMA CountedKept ==
  ASSUME TypeOK, Counted,
         Begun \/ Counts \/ Selects \/ Errs \/ Proceeds \/ ReadsRow \/ Watched \/ Idle
  PROVE  Counted'
<1>1. CASE Counts
  <2>1. Matching(query)' = Matching(query)
    BY <1>1, MatchingStays, Zenon DEF Counts
  <2>2. QED
    BY <1>1, <2>1, Zenon DEF Counts, Counted
<1>2. CASE Watched
  BY <1>2, Zenon DEF Watched, Counted
<1>3. CASE ~Counts /\ ~Watched
  <2>1. query'.pc # "list"
    BY <1>3 DEF Begun, Selects, Errs, Proceeds, ReadsRow, Idle
  <2>2. QED
    BY <2>1, Zenon DEF Counted
<1>4. QED
  BY <1>1, <1>2, <1>3

\* What a SELECT reads when nothing is lost.
LEMMA PageRead ==
  ASSUME TypeOK, Staged, NEW s \in Orders(Matching(query))
  PROVE  LET n == Cardinality(Matching(query))
             off == Offset(query)
             items == Slice(s, query)
         IN  /\ n \in Nat /\ off \in Nat /\ query.limit \in Nat
             /\ items \in Seq(Leads)
             /\ Len(items) = IF n <= off THEN 0
                             ELSE IF n - off < query.limit THEN n - off ELSE query.limit
             /\ \A i \in DOMAIN s : i > off /\ i <= off + query.limit => s[i] \in ToSet(items)
<1>1. Matching(query) \in SUBSET Leads /\ Cardinality(Matching(query)) \in Nat
  BY MatchingFinite
<1>2. Offset(query) \in Nat /\ query.limit \in Nat
  BY OffsetNat
<1>3. Slice(s, query) \in Seq(Leads)
  BY PageTyped
<1>4. QED
  BY <1>1, <1>2, <1>3, SliceFacts, Zenon

LEMMA TotalKept ==
  ASSUME TypeOK, Staged, Counted, TotalFitsPage,
         Begun \/ Counts \/ Selects \/ Errs \/ Proceeds \/ ReadsRow \/ Watched \/ Idle
  PROVE  TotalFitsPage'
<1> DEFINE Fits(q) == Len(Last(q.pages)) = Cardinality({i \in 1..q.total :
                                i > Offset(q) /\ i <= Offset(q) + q.limit})
<1>1. CASE Selects
  <2> SUFFICES ASSUME query'.fresh, ~query'.hitch PROVE Fits(query)'
    BY DEF TotalFitsPage
  <2>1. PICK s \in Orders(Matching(query)), items \in Seq(Leads) :
          /\ query'.pages = Append(query.pages, items)
          /\ \/ items = Slice(s, query) /\ query'.hitch = query.hitch
             \/ query'.hitch = TRUE
    BY <1>1, Zenon DEF Selects
  <2>2. items = Slice(s, query) /\ ~query.hitch /\ query.fresh /\ query.pc = "list"
    BY <1>1, <2>1, Zenon DEF Selects
  <2>3. query.total = Cardinality(Matching(query))
    BY <2>2, Zenon DEF Counted
  <2>4. Len(items) = Cardinality({i \in 1..query.total :
                                    i > Offset(query) /\ i <= Offset(query) + query.limit})
    <3> DEFINE n == Cardinality(Matching(query))
               off == Offset(query)
    <3>1. n \in Nat /\ off \in Nat /\ query.limit \in Nat
      BY PageRead, Zenon
    <3>2. Len(items) = IF n <= off THEN 0 ELSE IF n - off < query.limit THEN n - off ELSE query.limit
      BY <2>2, PageRead, Zenon
    <3> DEFINE k == query.limit
               between == {i \in 1..n : i > off /\ i <= off + k}
    <3> HIDE DEF n, off
    <3>3. Len(items) = IF n <= off THEN 0 ELSE IF n - off < k THEN n - off ELSE k
      BY <3>2, Zenon
    <3>4. k \in Nat
      BY <3>1
    <3> HIDE DEF k
    <3>5. Cardinality(between) = IF n <= off THEN 0 ELSE IF n - off < k THEN n - off ELSE k
      BY <3>1, <3>4, CountBetween
    <3> HIDE DEF between
    <3>6. Len(items) = Cardinality(between)
      BY <3>3, <3>5
    <3>7. QED
      BY <2>3, <3>6, Zenon DEF n, off, k, between
  <2>5. Last(query'.pages) = items
    BY <2>1, PagesFacts, Zenon
  <2>6. query'.total = query.total /\ query'.limit = query.limit /\ query'.page = query.page
    BY <1>1, Zenon DEF Selects, SameReading
  <2>7. QED
    BY <2>4, <2>5, <2>6, Zenon DEF Offset
<1>2. CASE Proceeds \/ Watched
  <2> SUFFICES ASSUME query'.pc \in {"page", "done"}, query'.pages # <<>>, query'.fresh, ~query'.hitch
               PROVE  Fits(query)'
    BY DEF TotalFitsPage
  <2>1. /\ query'.total = query.total /\ query'.limit = query.limit /\ query'.page = query.page
        /\ query'.pages = query.pages /\ query'.hitch = query.hitch
        /\ query.fresh /\ query.pc \in {"page", "done"}
    BY <1>2 DEF Proceeds, SameReading, Watched
  <2>2. Fits(query)
    BY <2>1, Zenon DEF TotalFitsPage
  <2>3. QED
    BY <2>1, <2>2, Zenon DEF Offset
<1>3. CASE ~Selects /\ ~Proceeds /\ ~Watched
  <2>1. query'.pc \notin {"page", "done"}
    BY <1>3 DEF Begun, Counts, Errs, ReadsRow, Idle
  <2>2. QED
    BY <2>1, Zenon DEF TotalFitsPage
<1>4. QED
  BY <1>1, <1>2, <1>3

LEMMA MatchingGrows ==
  ASSUME TypeOK, TypeOK', Watched, "out" \notin query'.moved
  PROVE  /\ Matching(query) \subseteq Matching(query)' /\ Matching(query)' \in SUBSET Leads
         /\ Cardinality(Matching(query)) \in Nat /\ Cardinality(Matching(query)') \in Nat
         /\ Cardinality(Matching(query)) <= Cardinality(Matching(query)')
         /\ "out" \notin query.moved
<1>1. Matching(query) \subseteq Matching(query)' /\ query.moved \subseteq query'.moved
  BY Zenon DEF Watched
<1>2. Matching(query)' \in SUBSET Leads
  BY DEF TypeOK, TablesTypeOK, Matching, MatchingIn
<1>3. QED
  BY <1>1, <1>2, MatchingFinite, Finite, LargerHasMore

LEMMA RowBackedKept ==
  ASSUME TypeOK, TypeOK', Staged, Backed, RowBacked,
         Begun \/ Counts \/ Selects \/ Errs \/ Proceeds \/ ReadsRow \/ Watched \/ Idle
  PROVE  RowBacked'
<1>1. CASE ReadsRow
  <2>1. PICK c \in Campaigns : query.of = LeadsOf(c) /\ Exists(c) /\ query'.row = campaign[c]
    BY <1>1, Zenon DEF ReadsRow
  <2>2. campaign[c].found <= Cardinality(stored \cap LeadsOf(c))
    BY <2>1, Zenon DEF Backed
  <2>3. Matching(query) = stored \cap LeadsOf(c)
    <3>1. query.imported = "either"
      BY <1>1 DEF Staged, ReadsRow
    <3>2. QED
      BY <2>1, <3>1 DEF Matching, MatchingIn
  <2>4. Matching(query)' = Matching(query)
    BY <1>1, MatchingStays, Zenon DEF ReadsRow
  <2>5. QED
    BY <2>1, <2>2, <2>3, <2>4, Zenon DEF RowBacked
<1>2. CASE Counts
  <2>1. Matching(query)' = Matching(query)
    BY <1>2, MatchingStays, Zenon DEF Counts
  <2>2. query'.op = query.op /\ query'.row = query.row /\ query'.moved = query.moved /\ query.pc = "count"
    BY <1>2, Zenon DEF Counts, SameReading
  <2>3. "count" \in {"count", "list"}
    OBVIOUS
  <2>4. QED
    BY <2>1, <2>2, <2>3, Zenon DEF RowBacked
<1>3. CASE Watched
  <2> SUFFICES ASSUME query'.op = "full", query'.pc \in {"count", "list"}, "out" \notin query'.moved
               PROVE  query'.row.found <= Cardinality(Matching(query)')
    BY DEF RowBacked
  <2>1. /\ Cardinality(Matching(query)) \in Nat /\ Cardinality(Matching(query)') \in Nat
        /\ Cardinality(Matching(query)) <= Cardinality(Matching(query)')
        /\ "out" \notin query.moved
    BY <1>3, MatchingGrows
  <2>2. query'.row = query.row /\ query'.op = query.op /\ query'.pc = query.pc
    BY <1>3, Zenon DEF Watched
  <2>3. query.row.found <= Cardinality(Matching(query))
    BY <2>1, <2>2, Zenon DEF RowBacked
  <2>4. query.row.found \in Nat
    BY RecordFacts DEF CampaignRow
  <2>5. QED
    BY <2>1, <2>2, <2>3, <2>4
<1>4. CASE ~ReadsRow /\ ~Counts /\ ~Watched
  <2>1. ~(query'.op = "full" /\ query'.pc \in {"count", "list"})
    BY <1>4 DEF Begun, Selects, Errs, Proceeds, Idle, SameReading, Staged
  <2>2. QED
    BY <2>1, Zenon DEF RowBacked
<1>5. QED
  BY <1>1, <1>2, <1>3, <1>4

LEMMA FullKept ==
  ASSUME TypeOK, Staged, RowBacked, FullShowsFound,
         Begun \/ Counts \/ Selects \/ Errs \/ Proceeds \/ ReadsRow \/ Watched \/ Idle
  PROVE  FullShowsFound'
<1>1. CASE Selects
  <2> SUFFICES ASSUME query'.op = "full", ~query'.hitch, "out" \notin query'.moved,
                      query'.row.found <= FullLimit
               PROVE  query'.row.found <= Len(ReadItems')
    BY DEF FullShowsFound
  <2>1. PICK s \in Orders(Matching(query)), items \in Seq(Leads) :
          /\ query'.pages = Append(query.pages, items)
          /\ \/ items = Slice(s, query) /\ query'.hitch = query.hitch
             \/ query'.hitch = TRUE
    BY <1>1, Zenon DEF Selects
  <2>2. /\ items = Slice(s, query) /\ query.pc = "list" /\ query.op = "full"
        /\ "out" \notin query.moved /\ query'.row = query.row
    BY <1>1, <2>1, Zenon DEF Selects, SameReading
  <2> DEFINE n == Cardinality(Matching(query))
             found == query.row.found
  <2>3. found <= n /\ found <= FullLimit
    BY <2>2 DEF RowBacked
  <2>4. Offset(query) = 0 /\ query.limit = FullLimit
    <3>1. query.page = 1 /\ query.limit = FullLimit /\ query.limit \in Nat
      BY <2>2, RecordFacts DEF Staged
    <3>2. QED
      BY <3>1 DEF Offset
  <2>5. n \in Nat /\ FullLimit \in Nat /\ found \in Nat
    BY MatchingFinite, Constants, RecordFacts DEF CampaignRow
  <2>6. Len(items) = IF n <= 0 THEN 0 ELSE IF n - 0 < FullLimit THEN n - 0 ELSE FullLimit
    BY <2>2, <2>4, PageRead, Zenon
  <2>7. Len(ReadItems)' = Len(ReadItems) + Len(items) /\ ReadItems \in Seq(Leads)
    BY <2>1, PagesFacts, Zenon DEF ReadItems
  <2>8. Len(ReadItems) \in Nat
    BY <2>7
  <2> HIDE DEF n, found
  <2>9. found <= Len(items) /\ Len(items) \in Nat
    BY <2>3, <2>5, <2>6
  <2>10. found <= Len(ReadItems) + Len(items)
    BY <2>5, <2>8, <2>9
  <2>11. QED
    BY <2>2, <2>7, <2>10, Zenon DEF found
<1>2. CASE ~Selects
  <2>1. ~(query'.pc = "done" /\ query'.op = "full")
    BY <1>2 DEF Begun, Counts, Errs, Proceeds, ReadsRow, Watched, Idle, SameReading, Staged
  <2>2. QED
    BY <2>1, Zenon DEF FullShowsFound
<1>3. QED
  BY <1>1, <1>2

LEMMA SinceBeganKept ==
  ASSUME TypeOK, SinceBegan,
         \/ Begun \/ Counts \/ Selects \/ Errs \/ Proceeds \/ ReadsRow
         \/ OnlyDeletionRemoves /\ (Watched \/ Idle)
  PROVE  SinceBegan'
<1>1. CASE Begun
  <2>1. query'.began = Matching(query)' /\ query'.moved = {}
    BY <1>1, Zenon DEF Begun, Matching
  <2>2. \A l \in Matching(query)' : l \in query'.of /\ (query'.imported = "true" => mark'[l] # None)
    BY DEF Matching, MatchingIn
  <2>3. QED
    BY <2>1, <2>2, Zenon DEF SinceBegan
<1>2. CASE Counts \/ Selects \/ Errs \/ Proceeds \/ ReadsRow
  <2>1. SameReading /\ query.pc # "off"
    BY <1>2 DEF Counts, Selects, Errs, Proceeds, ReadsRow
  <2>2. Matching(query)' = Matching(query)
    BY <2>1, MatchingStays
  <2>3. \A l : Gone(l)' <=> Gone(l)
    BY <2>1, Zenon DEF SameReading, Gone, Exists
  <2>4. QED
    BY <2>1, <2>2, <2>3, Zenon DEF SinceBegan, SameReading
<1>3. CASE OnlyDeletionRemoves /\ Watched
  <2>1. /\ query.pc # "off" /\ query'.began = query.began /\ query'.of = query.of
        /\ query'.imported = query.imported /\ query.moved \subseteq query'.moved
    BY <1>3, Zenon DEF Watched
  <2>2. query.began \in SUBSET Leads
    BY RecordFacts
  <2>3. ASSUME NEW l \in query.began
        PROVE  /\ query.imported = "true" => mark'[l] # None
               /\ l \in Matching(query)' \/ Gone(l)'
    <3>1. /\ query.imported = "true" => mark[l] # None
          /\ l \in Matching(query) \/ Gone(l)
      BY <2>1, Zenon DEF SinceBegan
    <3>2. l \in Leads
      BY <2>2
    <3>3. query.imported = "true" => mark'[l] # None
      BY <1>3, <3>1, <3>2, Zenon DEF OnlyDeletionRemoves
    <3>4. l \in Matching(query)' \/ Gone(l)'
      BY <1>3, <2>1, <3>1, <3>2, GoneStays, LeavesForGood
    <3>5. QED
      BY <3>3, <3>4
  <2>4. "out" \notin query'.moved => query.began \subseteq Matching(query)'
    <3>1. "out" \notin query'.moved => "out" \notin query.moved
      BY <2>1
    <3>2. "out" \notin query.moved => query.began \subseteq Matching(query)
      BY <2>1, Zenon DEF SinceBegan
    <3>3. "out" \notin query'.moved => Matching(query) \subseteq Matching(query)'
      BY <1>3, Zenon DEF Watched
    <3>4. QED
      BY <3>1, <3>2, <3>3, Zenon
  <2>5. query'.moved = {} => query.began = Matching(query)'
    <3>1. query'.moved = {} => query.moved = {}
      BY <2>1
    <3>2. query.moved = {} => query.began = Matching(query)
      BY <2>1, Zenon DEF SinceBegan
    <3>3. query'.moved = {} => Matching(query)' = Matching(query)
      BY <1>3, Zenon DEF Watched
    <3>4. QED
      BY <3>1, <3>2, <3>3, Zenon
  <2>6. \A l \in query.began : l \in query.of
    BY <2>1, Zenon DEF SinceBegan
  <2>7. QED
    BY <2>1, <2>3, <2>4, <2>5, <2>6, Zenon DEF SinceBegan
<1>4. CASE Idle
  BY <1>4, Zenon DEF Idle, SinceBegan
<1>5. QED
  BY <1>1, <1>2, <1>3, <1>4

\* A reading that is at the top after a step that reads nothing was there before.
LEMMA TopBefore ==
  ASSUME TypeOK, Top', Counts \/ Proceeds \/ Watched
  PROVE  /\ Top /\ query'.pages = query.pages /\ query'.limit = query.limit
         /\ query'.op = query.op /\ query'.of = query.of /\ query'.began = query.began
         /\ query.moved \subseteq query'.moved
         /\ Len(query.pages) \in Nat
<1>1. query.page \in Nat /\ Len(query.pages) \in Nat
  BY RecordFacts
<1>2. CASE Counts
  BY <1>2 DEF Counts, SameReading, Top, Read
<1>3. CASE Proceeds
  <2>1. /\ query.pc = "page" /\ query'.pages = query.pages /\ query'.hitch = query.hitch
        /\ query'.limit = query.limit /\ query'.op = query.op /\ query'.of = query.of
        /\ query'.began = query.began /\ query'.moved = query.moved
        /\ \/ query'.pc = "count" /\ query'.page = query.page + 1
           \/ query'.pc = "done" /\ query'.page = query.page
    BY <1>3, Zenon DEF Proceeds, SameReading
  <2>2. ~query'.hitch /\ query'.page = Len(query'.pages)
                            + IF query'.pc \in {"count", "list"} THEN 1 ELSE 0
    BY Zenon DEF Top, Read
  <2>3. query.page = Len(query.pages)
    <3> DEFINE n == Len(query.pages)
    <3>1. query'.page = n + IF query'.pc \in {"count", "list"} THEN 1 ELSE 0
      BY <2>1, <2>2, Zenon
    <3>2. n \in Nat
      BY <1>1
    <3> HIDE DEF n
    <3>3. query'.pc = "count" /\ query'.page = query.page + 1 => query.page = n
      BY <1>1, <3>1, <3>2
    <3>4. query'.pc = "done" /\ query'.page = query.page => query.page = n
      BY <1>1, <3>1, <3>2
    <3>5. QED
      BY <2>1, <3>3, <3>4, Zenon DEF n
  <2>4. Top
    BY <1>1, <2>1, <2>2, <2>3 DEF Top, Read
  <2>5. QED
    BY <1>1, <2>1, <2>4
<1>4. CASE Watched
  BY <1>1, <1>4 DEF Watched, Top, Read
<1>5. QED
  BY <1>1, <1>2, <1>3, <1>4

\* A page that was read from the top on continues the ones before it.
LEMMA TopSelects ==
  ASSUME TypeOK, Staged, Top', Selects
  PROVE  \E s \in Orders(Matching(query)) :
           LET items == Slice(s, query)
           IN  /\ Top /\ query.pc = "list"
               /\ Offset(query) = Read * query.limit
               /\ Read' = Read + 1 /\ Read \in Nat
               /\ Read' * query.limit = Offset(query) + query.limit
               /\ Last(query'.pages) = items
               /\ ReadItems \in Seq(Leads)
               /\ Len(ReadItems)' = Len(ReadItems) + Len(items)
               /\ ToSet(ReadItems)' = ToSet(ReadItems) \cup ToSet(items)
<1>1. PICK s \in Orders(Matching(query)), items \in Seq(Leads) :
        /\ query'.pages = Append(query.pages, items)
        /\ \/ items = Slice(s, query) /\ query'.hitch = query.hitch
           \/ query'.hitch = TRUE
  BY Zenon DEF Selects
<1>2. query'.pc \in {"page", "done"} /\ query.pc = "list" /\ query'.page = query.page
  BY DEF Selects
<1>3. ~query'.hitch /\ query'.page = Read' + IF query'.pc \in {"count", "list"} THEN 1 ELSE 0
  BY Zenon DEF Top
<1>4. query'.page = Read' + 0
  BY <1>2, <1>3
<1>5. items = Slice(s, query) /\ ~query.hitch
  BY <1>1, <1>3, Zenon
<1>6. /\ Read \in Nat /\ Read' = Read + 1 /\ Last(query'.pages) = items
      /\ ReadItems \in Seq(Leads)
      /\ Len(ReadItems)' = Len(ReadItems) + Len(items)
      /\ ToSet(ReadItems)' = ToSet(ReadItems) \cup ToSet(items)
  BY <1>1, PagesFacts, Zenon DEF ReadItems, Read
<1>7. query.page = Read + 1
  <2>1. Read \in Nat /\ Read' = Read + 1
    BY <1>6
  <2>2. QED
    BY <1>2, <1>4, <2>1
<1>8. Top
  BY <1>2, <1>5, <1>7 DEF Top
<1>9. Offset(query) = Read * query.limit /\ (Read + 1) * query.limit = Offset(query) + query.limit
  <2>1. Offset(query) = (query.page - 1) * query.limit /\ query.limit \in Nat
    BY OffsetNat
  <2>2. query.page - 1 = Read
    BY <1>6, <1>7
  <2> DEFINE r == Read
             k == query.limit
  <2>3. r \in Nat /\ k \in Nat
    BY <1>6, <2>1
  <2> HIDE DEF r, k
  <2>4. (r + 1) * k = r * k + k
    BY <2>3
  <2>5. QED
    BY <2>1, <2>2, <2>4 DEF r, k
<1>10. QED
  BY <1>1, <1>2, <1>5, <1>6, <1>8, <1>9, Zenon

LEMMA AllSeenKept ==
  ASSUME TypeOK, Staged, SinceBegan, AllSeen,
         \/ Begun \/ Counts \/ Selects \/ Errs \/ Proceeds \/ ReadsRow
         \/ OnlyDeletionRemoves /\ (Watched \/ Idle)
  PROVE  AllSeen'
<1> SUFFICES ASSUME Top', AtPage', OnePage', NEW l \in query'.began
             PROVE  l \in ToSet(ReadItems)' \/ Gone(l)'
  BY Zenon DEF AllSeen
<1>1. query'.pc \in {"page", "done"} /\ Len(query'.pages) = 1
      /\ Cardinality(query'.of) <= query'.limit
  BY DEF AtPage, OnePage
<1>2. CASE Selects
  <2>1. /\ query.pc = "list" /\ query'.began = query.began /\ query'.of = query.of
        /\ query'.limit = query.limit
    BY <1>2, Zenon DEF Selects, SameReading
  <2>2. l \in Matching(query) \/ Gone(l)
    BY <2>1 DEF SinceBegan
  <2>3. Gone(l)' <=> Gone(l)
    BY <1>2, Zenon DEF Selects, SameReading, Gone, Exists
  <2>4. CASE l \in Matching(query)
    <3>1. PICK s \in Orders(Matching(query)) :
            /\ Offset(query) = Read * query.limit /\ Read' = Read + 1 /\ Read \in Nat
            /\ ToSet(ReadItems)' = ToSet(ReadItems) \cup ToSet(Slice(s, query))
      BY <1>2, TopSelects, Zenon
    <3>2. query.limit \in Nat /\ query.of \in SUBSET Leads
      BY RecordFacts
    <3>3. Offset(query) = 0
      <4>1. Read' = 1 /\ Read' = Read + 1 /\ Read \in Nat
        BY <1>1, <3>1, Zenon DEF Read
      <4>2. Read = 0
        BY <4>1
      <4>3. QED
        BY <3>1, <3>2, <4>2
    <3> DEFINE n == Cardinality(Matching(query))
    <3>4. Matching(query) \in SUBSET Leads /\ n \in Nat
      BY MatchingFinite
    <3>5. n <= query.limit
      <4>1. Matching(query) \in SUBSET query.of
        BY DEF Matching, MatchingIn
      <4>2. n <= Cardinality(query.of) /\ Cardinality(query.of) \in Nat
        BY <3>2, <4>1, LargerHasMore, Finite
      <4>3. QED
        BY <1>1, <2>1, <3>2, <3>4, <4>2
    <3>6. DOMAIN s = 1..n /\ \E i \in DOMAIN s : s[i] = l
      BY <2>4, <3>4, OrderFacts
    <3> HIDE DEF n
    <3>7. PICK i \in DOMAIN s : s[i] = l
      BY <3>6
    <3>8. i > 0 /\ i <= 0 + query.limit
      BY <3>2, <3>4, <3>5, <3>6, <3>7
    <3>9. s[i] \in ToSet(Slice(s, query))
      BY <3>3, <3>8, PageRead, Zenon
    <3>10. QED
      BY <3>1, <3>7, <3>9
  <2>5. QED
    BY <2>2, <2>3, <2>4
<1>3. CASE Proceeds
  <2>1. Top /\ query'.pages = query.pages /\ query'.limit = query.limit
        /\ query'.of = query.of /\ query'.began = query.began /\ AtPage
    BY <1>3, TopBefore DEF Proceeds, AtPage
  <2>2. Gone(l)' <=> Gone(l)
    BY <1>3, Zenon DEF Proceeds, SameReading, Gone, Exists
  <2>3. OnePage /\ ReadItems' = ReadItems
    BY <2>1, Zenon DEF OnePage, ReadItems
  <2>4. QED
    BY <2>1, <2>2, <2>3, Zenon DEF AllSeen
<1>4. CASE OnlyDeletionRemoves /\ Watched
  <2>1. Top /\ query'.pages = query.pages /\ query'.limit = query.limit
        /\ query'.of = query.of /\ query'.began = query.began
    BY <1>4, TopBefore
  <2>2. AtPage /\ query'.imported = query.imported
    BY <1>1, <1>4 DEF Watched, AtPage
  <2>3. OnePage /\ ReadItems' = ReadItems
    BY <2>1, Zenon DEF OnePage, ReadItems
  <2>4. l \in ToSet(ReadItems) \/ Gone(l)
    BY <2>1, <2>2, <2>3, Zenon DEF AllSeen
  <2>5. l \in Leads
    BY <2>1, RecordFacts
  <2>6. Gone(l) => Gone(l)'
    BY <1>4, <2>2, <2>5, GoneStays
  <2>7. QED
    BY <2>3, <2>4, <2>6, Zenon
<1>5. CASE Begun \/ Counts \/ Errs \/ ReadsRow \/ Idle
  BY <1>1, <1>5 DEF Begun, Counts, Errs, ReadsRow, Idle
<1>6. QED
  BY <1>2, <1>3, <1>4, <1>5

LEMMA PagesFillKept ==
  ASSUME TypeOK, Staged, SinceBegan, PagesFill,
         Begun \/ Counts \/ Selects \/ Errs \/ Proceeds \/ ReadsRow \/ Watched \/ Idle,
         query'.began \in SUBSET Leads, query'.limit \in Nat, query'.pages \in Seq(Seq(Leads))
  PROVE  PagesFill'
<1> SUFFICES ASSUME Top', query'.moved = {} PROVE Filled'
  BY Zenon DEF PagesFill
<1>1. Cardinality(query'.began) \in Nat
  BY Finite
<1>2. query'.pc \in {"count", "list", "page", "done"}
  BY DEF Top
<1>3. ASSUME query'.pages = <<>>, ~AtPage' PROVE Filled'
  <2>1. FlattenSeq(<<>>) = <<>>
    BY DEF FlattenSeq
  <2>2. Len(ReadItems') = 0 /\ Read' = 0
    BY <1>3, <2>1 DEF ReadItems, Read
  <2>3. Read' * query'.limit = 0
    BY <2>2
  <2>4. Len(ReadItems') <= Cardinality(query'.began)
    BY <1>1, <2>2
  <2>5. QED
    BY <1>3, <2>2, <2>3, <2>4, Zenon DEF Filled
<1>4. CASE Begun
  <2>1. query'.pages = <<>> /\ query'.pc \notin {"page", "done"}
    BY <1>4 DEF Begun
  <2>2. QED
    BY <1>3, <2>1 DEF AtPage
<1>5. CASE ReadsRow
  <2>1. query.op = "full" /\ query'.pages = query.pages /\ query.pc = "row" /\ query'.pc = "count"
    BY <1>5 DEF ReadsRow, Staged
  <2>2. Len(query.pages) = 0 /\ query.pages \in Seq(Seq(Leads))
    BY <2>1, RecordFacts DEF Staged, Read
  <2>3. query'.pages = <<>>
    BY <2>1, <2>2
  <2>4. QED
    BY <1>3, <2>1, <2>3 DEF AtPage
<1>6. CASE Counts \/ Proceeds \/ Watched
  <2>1. /\ Top /\ query'.pages = query.pages /\ query'.limit = query.limit
        /\ query'.began = query.began /\ query.moved = {}
    BY <1>6, TopBefore
  <2>2. Filled
    BY <2>1, Zenon DEF PagesFill
  <2>3. ReadItems' = ReadItems /\ Read' = Read
    BY <2>1, Zenon DEF ReadItems, Read
  <2>4. CASE Counts \/ Watched
    <3>1. AtPage' <=> AtPage
      BY <2>4 DEF Counts, Watched, AtPage
    <3>2. QED
      BY <2>1, <2>2, <2>3, <3>1, Zenon DEF Filled
  <2>5. CASE Proceeds
    <3>1. AtPage
      BY <2>5, Zenon DEF Proceeds, AtPage
    <3>2. CASE query'.pc = "done"
      <4>1. AtPage'
        BY <3>2 DEF AtPage
      <4>2. QED
        BY <2>1, <2>2, <2>3, <3>1, <4>1, Zenon DEF Filled
    <3>3. CASE query'.pc = "count" /\ Len(Last(query.pages)) = query.limit
      <4>1. ~AtPage' /\ ~(Len(Last(query.pages)) < query.limit)
        <5>1. query.limit \in Nat
          BY RecordFacts
        <5>2. ~(query.limit < query.limit)
          BY <5>1
        <5>3. QED
          BY <3>3, <5>2 DEF AtPage
      <4>2. Len(ReadItems) = Read * query.limit /\ Len(ReadItems) <= Cardinality(query.began)
        BY <2>2, <3>1, <4>1, Zenon DEF Filled
      <4>3. QED
        BY <2>1, <2>3, <4>1, <4>2, Zenon DEF Filled
    <3>4. QED
      BY <2>5, <3>2, <3>3, Zenon DEF Proceeds
  <2>6. QED
    BY <1>6, <2>4, <2>5
<1>7. CASE Selects
  <2>1. PICK s \in Orders(Matching(query)) :
           LET items == Slice(s, query)
           IN  /\ Top /\ query.pc = "list"
               /\ Offset(query) = Read * query.limit
               /\ Read' * query.limit = Offset(query) + query.limit
               /\ Last(query'.pages) = items
               /\ ReadItems \in Seq(Leads)
               /\ Len(ReadItems)' = Len(ReadItems) + Len(items)
    BY <1>7, TopSelects, Zenon
  <2>2. /\ query'.began = query.began /\ query'.limit = query.limit /\ query.moved = {}
        /\ query'.pc \in {"page", "done"}
    BY <1>7 DEF Selects, SameReading
  <2>3. query.began = Matching(query) /\ Filled /\ ~AtPage
    BY <2>1, <2>2 DEF SinceBegan, PagesFill, AtPage
  <2> DEFINE n == Cardinality(Matching(query))
             off == Offset(query)
             k == query.limit
             more == Len(Slice(s, query))
             all == Len(ReadItems')
  <2>4. n \in Nat /\ off \in Nat /\ k \in Nat
        /\ more = IF n <= off THEN 0 ELSE IF n - off < k THEN n - off ELSE k
    BY PageRead, Zenon
  <2>5. off <= n
    BY <2>1, <2>3, Zenon DEF Filled
  <2>6. all = off + more
    <3>1. Len(ReadItems) = off
      BY <2>1, <2>3, Zenon DEF Filled
    <3>2. QED
      BY <2>1, <3>1, Zenon
  <2>7. AtPage' /\ Read' * query'.limit = off + k /\ Cardinality(query'.began) = n
        /\ Len(Last(query'.pages)) = more
    BY <2>1, <2>2, <2>3, Zenon DEF AtPage
  <2> HIDE DEF n, off, k, more, all
  <2>8. all <= n /\ all = IF more < k THEN n ELSE off + k
    BY <2>4, <2>5, <2>6
  <2>9. QED
    BY <2>2, <2>7, <2>8, Zenon DEF Filled, all, k
<1>8. CASE Errs \/ Idle
  BY <1>2, <1>8 DEF Errs, Idle
<1>9. QED
  BY <1>4, <1>5, <1>6, <1>7, <1>8

LEMMA UnreadKept ==
  ASSUME TypeOK, TypeOK', Staged, SinceBegan, Unread,
         Begun \/ Counts \/ Selects \/ Errs \/ Proceeds \/ ReadsRow \/ Watched \/ Idle
  PROVE  Unread'
<1> SUFFICES ASSUME Top', query'.op = "list", NoTies', "out" \notin query'.moved
             PROVE  /\ \A l \in query'.began \ ToSet(ReadItems)' :
                         Cardinality(Above(Matching(query)', l)) >= Read' * query'.limit
                    /\ AtPage' /\ Len(Last(query'.pages)) < query'.limit
                         => query'.began \subseteq ToSet(ReadItems)'
  BY Zenon DEF Unread, Above
<1>1. query'.pc \in {"count", "list", "page", "done"}
  BY DEF Top
<1>2. query.limit \in Nat /\ query.began \in SUBSET Leads
  BY RecordFacts
<1>3. Matching(query)' \in SUBSET Leads
  BY DEF TypeOK, TablesTypeOK, Matching, MatchingIn
<1>4. \A l : /\ Above(Matching(query)', l) \in SUBSET Leads
             /\ Cardinality(Above(Matching(query)', l)) \in Nat
  <2>1. \A l : Above(Matching(query)', l) \in SUBSET Leads
    BY <1>3 DEF Above
  <2>2. QED
    BY <2>1, Finite
<1>5. CASE Begun
  <2>1. Read' = 0 /\ ~AtPage'
    BY <1>5 DEF Begun, Read, AtPage
  <2>2. query'.limit \in Nat
    BY DEF TypeOK, QueryRecord
  <2>3. Read' * query'.limit = 0
    BY <2>1, <2>2
  <2>4. \A l : Cardinality(Above(Matching(query)', l)) >= 0
    BY <1>4
  <2>5. QED
    BY <2>1, <2>3, <2>4, Zenon
<1>6. CASE Counts \/ Proceeds \/ Watched
  <2>1. /\ Top /\ query'.pages = query.pages /\ query'.limit = query.limit
        /\ query'.began = query.began /\ query.op = "list" /\ query'.of = query.of
        /\ query.moved \subseteq query'.moved /\ Len(query.pages) \in Nat
    BY <1>6, TopBefore
  <2>2. ReadItems' = ReadItems /\ Read' = Read /\ NoTies /\ "out" \notin query.moved
    BY <2>1, Zenon DEF ReadItems, Read, NoTies
  <2>3. /\ \A l \in query.began \ ToSet(ReadItems) :
             Cardinality(Above(Matching(query), l)) >= Read * query.limit
        /\ AtPage /\ Len(Last(query.pages)) < query.limit => query.began \subseteq ToSet(ReadItems)
    BY <2>1, <2>2, Zenon DEF Unread
  <2>4. ASSUME NEW l \in query.began \ ToSet(ReadItems)
        PROVE  Cardinality(Above(Matching(query)', l)) >= Read * query.limit
    <3>1. Matching(query) \subseteq Matching(query)'
      <4>1. CASE Counts \/ Proceeds
        <5>1. Matching(query)' = Matching(query)
          BY <4>1, MatchingStays, Zenon DEF Counts, Proceeds
        <5>2. QED
          BY <5>1
      <4>2. CASE Watched
        BY <4>2, Zenon DEF Watched
      <4>3. QED
        BY <1>6, <4>1, <4>2
    <3>2. Above(Matching(query), l) \in SUBSET Above(Matching(query)', l)
      BY <3>1 DEF Above
    <3> DEFINE before == Cardinality(Above(Matching(query), l))
               after == Cardinality(Above(Matching(query)', l))
               read == Read * query.limit
    <3>3. before <= after /\ before \in Nat /\ after \in Nat
      <4>1. Above(Matching(query), l) \in SUBSET Leads
        BY <1>4, <3>2
      <4>2. QED
        BY <1>4, <3>2, <4>1, LargerHasMore, Finite
    <3>4. before >= read
      BY <2>3
    <3>5. read \in Nat
      BY <1>2, <2>1 DEF Read
    <3> HIDE DEF before, after, read
    <3>6. after >= read
      BY <3>3, <3>4, <3>5
    <3>7. QED
      BY <3>6 DEF after, read
  <2>5. AtPage' /\ Len(Last(query.pages)) < query.limit => AtPage
    <3>1. CASE Counts \/ Watched
      BY <3>1 DEF Counts, Watched, AtPage
    <3>2. CASE Proceeds
      BY <3>2 DEF Proceeds, AtPage
    <3>3. QED
      BY <1>6, <3>1, <3>2
  <2>6. QED
    BY <2>1, <2>2, <2>3, <2>4, <2>5, Zenon
<1>7. CASE Selects
  <2>1. PICK s \in Orders(Matching(query)) :
           LET items == Slice(s, query)
           IN  /\ Top /\ query.pc = "list"
               /\ Offset(query) = Read * query.limit
               /\ Read' * query.limit = Offset(query) + query.limit
               /\ Last(query'.pages) = items
               /\ ToSet(ReadItems)' = ToSet(ReadItems) \cup ToSet(items)
    BY <1>7, TopSelects, Zenon
  <2>2. /\ query'.began = query.began /\ query'.limit = query.limit /\ "out" \notin query.moved
        /\ query.op = "list" /\ query'.of = query.of
        /\ Matching(query)' = Matching(query)
    BY <1>7, MatchingStays, Zenon DEF Selects, SameReading
  <2> DEFINE M == Matching(query)
             n == Cardinality(M)
             off == Offset(query)
             k == query.limit
             items == Slice(s, query)
  <2>3. M \in SUBSET Leads /\ n \in Nat /\ off \in Nat /\ k \in Nat
    BY MatchingFinite, PageRead, Zenon
  <2>4. Len(items) = IF n <= off THEN 0 ELSE IF n - off < k THEN n - off ELSE k
    BY PageRead, Zenon
  <2>5. \A i \in DOMAIN s : i > off /\ i <= off + k => s[i] \in ToSet(items)
    BY PageRead, Zenon
  <2>6. NoTies /\ M \subseteq query.of
    <3>1. NoTies
      BY <2>2, Zenon DEF NoTies
    <3>2. M \subseteq query.of
      BY DEF Matching, MatchingIn
    <3>3. QED
      BY <3>1, <3>2
  <2>7. \A l1, l2 \in M : Score[l1] = Score[l2] => l1 = l2
    BY <2>6 DEF NoTies
  <2>8. DOMAIN s = 1..n /\ \A l \in M : \E i \in DOMAIN s : s[i] = l
    BY <2>3, OrderFacts
  <2>9. query.began \subseteq M /\ \A l \in query.began \ ToSet(ReadItems) :
             Cardinality(Above(M, l)) >= off
    BY <2>1, <2>2, <2>6, Zenon DEF Unread, SinceBegan
  <2> HIDE DEF M, n, off, k, items
  <2>10. ASSUME NEW l \in query.began, l \notin ToSet(ReadItems), l \notin ToSet(items)
         PROVE  Cardinality(Above(M, l)) >= off + k /\ ~(Len(items) < k)
    <3>1. PICK i \in DOMAIN s : s[i] = l
      BY <2>8, <2>9
    <3>2. Cardinality(Above(M, s[i])) = i - 1
      BY <2>3, <2>7, RankFacts DEF M
    <3>3. Cardinality(Above(M, l)) = i - 1 /\ Cardinality(Above(M, l)) >= off
      BY <2>9, <2>10, <3>1, <3>2, Zenon
    <3>4. i \in Nat /\ i <= n
      BY <2>3, <2>8
    <3>5. i > off
      BY <2>3, <3>3, <3>4
    <3>6. ~(i <= off + k)
      BY <2>5, <2>10, <3>1, <3>5, Zenon
    <3>7. i - 1 >= off + k /\ n > off /\ ~(n - off < k)
      BY <2>3, <3>4, <3>5, <3>6
    <3>8. QED
      BY <2>3, <2>4, <3>3, <3>7
  <2>11. ToSet(ReadItems)' = ToSet(ReadItems) \cup ToSet(items)
         /\ Read' * query'.limit = off + k /\ Len(Last(query'.pages)) = Len(items)
    BY <2>1, <2>2, Zenon DEF off, k, items
  <2>12. QED
    BY <2>2, <2>10, <2>11, Zenon DEF M, k
<1>8. CASE Errs \/ ReadsRow \/ Idle
  <2>1. query.op = "list" \/ Errs \/ Idle
    BY <1>8 DEF ReadsRow, SameReading
  <2>2. QED
    BY <1>1, <1>8, <2>1 DEF Errs, ReadsRow, Idle, Staged
<1>9. QED
  BY <1>5, <1>6, <1>7, <1>8

-----------------------------------------------------------------------------
(* The specification *)

LEMMA InitHolds ==
  ASSUME QueryInit
  PROVE  QueryInv
<1>1. /\ query = Off /\ stored = {} /\ faults = 0 /\ crm = {}
      /\ campaign = [c \in Campaigns |-> [status |-> "RUNNING", found |-> 0, imported |-> 0]]
      /\ mark = [l \in Leads |-> None]
      /\ job = [c \in Campaigns |-> None]
  BY DEF QueryInit, TablesInit
<1>2. TablesTypeOK
  BY <1>1 DEF TablesTypeOK, CampaignRow
<1>3. query \in QueryRecord
  BY <1>1 DEF Off, NoRow, QueryRecord, CampaignRow, Ops
<1>4. /\ query.pc = "off" /\ query.op = "list" /\ query.page = 1 /\ query.limit = 1
      /\ query.pages = <<>>
  BY <1>1 DEF Off
<1>5. Staged
  BY <1>4 DEF Staged, Read
<1>6. Backed
  <2> SUFFICES ASSUME NEW c \in Campaigns
               PROVE  /\ ~Exists(c) => campaign[c].found = 0
                      /\ Exists(c) =>
                           /\ campaign[c].found <= Cardinality(stored \cap LeadsOf(c))
                           /\ job[c] # None => job[c] <= Cardinality(stored \cap LeadsOf(c))
    BY Zenon DEF Backed
  <2>2. Exists(c) /\ campaign[c].found = 0 /\ job[c] = None
    BY <1>1 DEF Exists
  <2>3. Cardinality(stored \cap LeadsOf(c)) \in Nat
    BY <1>1, SizeOf
  <2>4. QED
    BY <2>2, <2>3
<1>7. Counted /\ TotalFitsPage /\ RowBacked /\ FullShowsFound /\ SinceBegan
  BY <1>4 DEF Counted, TotalFitsPage, RowBacked, FullShowsFound, SinceBegan
<1>8. AllSeen /\ PagesFill /\ Unread
  <2>1. ~Top
    BY <1>4 DEF Top
  <2>2. QED
    BY <2>1, Zenon DEF AllSeen, PagesFill, Unread
<1>9. QED
  BY <1>2, <1>3, <1>5, <1>6, <1>7, <1>8 DEF QueryInv, Typed, TypeOK

\* Every step is of one of the kinds above.
LEMMA Kinds ==
  ASSUME Typed, QueryNext
  PROVE  /\ \/ Begun \/ Counts \/ Selects \/ Errs \/ Proceeds \/ ReadsRow
            \/ OnlyDeletionRemoves /\ (Watched \/ Idle)
         /\ TypeOK' /\ Backed'
<1>1. TypeOK /\ Staged /\ Backed /\ TablesTypeOK
  BY DEF Typed, TypeOK
<1>2. CASE ReaderStart
  <2>1. Begun /\ query' \in QueryRecord /\ UNCHANGED tableVars
    BY <1>1, <1>2, StartBegins
  <2>2. TablesTypeOK' /\ Backed'
    BY <1>1, <2>1, Zenon DEF tableVars, TablesTypeOK, Backed, Exists
  <2>3. QED
    BY <2>1, <2>2 DEF TypeOK
<1>3. CASE ReaderStep
  <2>1. /\ Counts \/ Selects \/ Errs \/ Proceeds \/ ReadsRow
        /\ query' \in QueryRecord /\ faults' \in Nat
    BY <1>1, <1>3, ReaderKinds
  <2>2. /\ campaign' = campaign /\ stored' = stored /\ mark' = mark /\ crm' = crm /\ job' = job
    BY <1>3 DEF ReaderStep
  <2>3. TablesTypeOK' /\ Backed'
    BY <1>1, <2>1, <2>2, Zenon DEF TablesTypeOK, Backed, Exists
  <2>4. QED
    BY <2>1, <2>3 DEF TypeOK
<1>4. CASE /\ query.pc \notin {"done", "error"}
           /\ OthersNext \/ \E l \in Leads : ImportMarks(l)
           /\ Watching
  <2>1. TablesTypeOK' /\ Backed' /\ OnlyDeletionRemoves
    BY <1>1, <1>4, OthersKeep
  <2>2. (Idle \/ Watched) /\ query' \in QueryRecord
    BY <1>1, <1>4, WatchingKinds
  <2>3. QED
    BY <2>1, <2>2 DEF TypeOK
<1>5. QED
  BY <1>2, <1>3, <1>4 DEF QueryNext

LEMMA StepHolds ==
  ASSUME QueryInv, [QueryNext]_queryVars
  PROVE  QueryInv'
<1>1. CASE QueryNext
  <2>1. /\ Typed /\ Counted /\ TotalFitsPage /\ RowBacked /\ FullShowsFound
        /\ SinceBegan /\ AllSeen /\ PagesFill /\ Unread
    BY DEF QueryInv
  <2>2. TypeOK /\ Staged /\ Backed
    BY <2>1 DEF Typed
  <2>3. /\ \/ Begun \/ Counts \/ Selects \/ Errs \/ Proceeds \/ ReadsRow
           \/ OnlyDeletionRemoves /\ (Watched \/ Idle)
        /\ TypeOK' /\ Backed'
    BY <1>1, <2>1, Kinds
  <2>4. Begun \/ Counts \/ Selects \/ Errs \/ Proceeds \/ ReadsRow \/ Watched \/ Idle
    BY <2>3
  <2>5. Staged' /\ Counted' /\ TotalFitsPage'
    BY <2>1, <2>2, <2>4, StagedKept, CountedKept, TotalKept
  <2>6. RowBacked' /\ FullShowsFound'
    BY <2>1, <2>2, <2>3, <2>4, RowBackedKept, FullKept
  <2>7. SinceBegan' /\ AllSeen'
    BY <2>1, <2>2, <2>3, SinceBeganKept, AllSeenKept
  <2>8. PagesFill' /\ Unread'
    <3>1. query'.began \in SUBSET Leads /\ query'.limit \in Nat /\ query'.pages \in Seq(Seq(Leads))
      <4>1. query' \in QueryRecord
        BY <2>3 DEF TypeOK
      <4>2. QED
        BY <4>1 DEF QueryRecord
    <3>2. QED
      BY <2>1, <2>2, <2>3, <2>4, <3>1, PagesFillKept, UnreadKept
  <2>9. QED
    BY <2>3, <2>5, <2>6, <2>7, <2>8 DEF QueryInv, Typed
<1>2. CASE UNCHANGED queryVars
  <2> USE DEF QueryInv, Typed
  <2>1. /\ campaign' = campaign /\ stored' = stored /\ mark' = mark /\ crm' = crm /\ job' = job
        /\ faults' = faults /\ query' = query
    BY <1>2 DEF queryVars, tableVars
  <2>2. TypeOK' /\ Staged' /\ Backed'
    BY <2>1, Zenon DEF TypeOK, TablesTypeOK, Staged, Read, Backed, Exists
  <2>3. /\ Matching(query)' = Matching(query) /\ ReadItems' = ReadItems /\ Read' = Read
        /\ (Top' <=> Top) /\ (AtPage' <=> AtPage) /\ (OnePage' <=> OnePage) /\ (NoTies' <=> NoTies)
        /\ \A l : Gone(l)' <=> Gone(l)
    BY <2>1, Zenon DEF Matching, ReadItems, Read, Top, AtPage, OnePage, NoTies, Gone, Exists
  <2>4. Counted' /\ TotalFitsPage' /\ RowBacked' /\ FullShowsFound' /\ SinceBegan'
    BY <2>1, <2>3, Zenon DEF Counted, TotalFitsPage, RowBacked, FullShowsFound, SinceBegan, Offset
  <2>5. AllSeen' /\ PagesFill'
    BY <2>1, <2>3, Zenon DEF AllSeen, PagesFill, Filled
  <2>6. Unread'
    BY <2>1, <2>3, Zenon DEF Unread, Above
  <2>7. QED
    BY <2>2, <2>4, <2>5, <2>6
<1>3. QED
  BY <1>1, <1>2

LEMMA InvariantHolds == QuerySpec => []QueryInv
<1>1. QueryInit => QueryInv
  BY InitHolds
<1>2. QueryInv /\ [QueryNext]_queryVars => QueryInv'
  BY StepHolds
<1>3. QED
  BY <1>1, <1>2, PTL DEF QuerySpec

\* What a reading shows follows from where it is and what is left to read.
LEMMA ScanFollows ==
  ASSUME QueryInv
  PROVE  ScanSeesAll
<1> SUFFICES ASSUME query.pc = "done", query.op # "full", ~query.hitch, FromTheTop
             PROVE  /\ ToTheEnd /\ NoTies /\ "out" \notin query.moved
                         => query.began \subseteq ToSet(ReadItems)
                    /\ OnePage => query.began \cap Matching(query) \subseteq ToSet(ReadItems)
                    /\ query.moved = {} /\ ((ToTheEnd /\ NoTies) \/ OnePage)
                         => Len(ReadItems) = Cardinality(query.began)
  BY Zenon DEF ScanSeesAll
<1>1. TypeOK /\ Staged /\ SinceBegan /\ AllSeen /\ PagesFill /\ Unread
  BY DEF QueryInv, Typed
<1>2. Top /\ AtPage
  <2>1. query.page = Read
    BY <1>1 DEF FromTheTop, Staged, Read
  <2>2. query.page \in Nat
    BY <1>1, RecordFacts
  <2>3. QED
    BY <2>1, <2>2 DEF Top, AtPage
<1>3. ToTheEnd /\ NoTies /\ "out" \notin query.moved => query.began \subseteq ToSet(ReadItems)
  BY <1>1, <1>2, Zenon DEF Unread, ToTheEnd
<1>4. OnePage => query.began \cap Matching(query) \subseteq ToSet(ReadItems)
  <2>1. ASSUME OnePage, NEW l \in query.began \cap Matching(query)
        PROVE  l \in ToSet(ReadItems)
    <3>1. l \in ToSet(ReadItems) \/ Gone(l)
      BY <1>1, <1>2, <2>1 DEF AllSeen
    <3>2. ~Gone(l)
      BY <2>1 DEF Gone, Matching, MatchingIn
    <3>3. QED
      BY <3>1, <3>2
  <2>2. QED
    BY <2>1
<1>5. ASSUME query.moved = {}, (ToTheEnd /\ NoTies) \/ OnePage
      PROVE  Len(ReadItems) = Cardinality(query.began)
  <2>1. Filled
    BY <1>1, <1>2, <1>5 DEF PagesFill
  <2>2. CASE ToTheEnd
    BY <1>2, <2>1, <2>2, Zenon DEF Filled, ToTheEnd
  <2>3. CASE OnePage
    <3> DEFINE n == Cardinality(query.began)
               k == query.limit
               r == Len(ReadItems)
    <3>1. k \in Nat /\ query.of \in SUBSET Leads /\ query.began \in SUBSET Leads
      BY <1>1, RecordFacts
    <3>2. query.began \in SUBSET query.of
      BY <1>1 DEF SinceBegan
    <3>3. n \in Nat /\ Cardinality(query.of) \in Nat /\ n <= Cardinality(query.of)
      BY <3>1, <3>2, LargerHasMore, Finite
    <3>4. n <= k
      BY <2>3, <3>1, <3>3 DEF OnePage
    <3>5. Read * query.limit = k
      <4>1. Read = 1
        BY <2>3 DEF OnePage, Read
      <4>2. QED
        BY <3>1, <4>1
    <3>6. r <= n /\ (r = n \/ r = k)
      BY <1>2, <2>1, <3>5, Zenon DEF Filled
    <3> HIDE DEF n, k, r
    <3>7. r = n
      BY <3>1, <3>3, <3>4, <3>6 DEF k
    <3>8. QED
      BY <3>7 DEF r, n
  <2>4. QED
    BY <1>5, <2>2, <2>3
<1>6. QED
  BY <1>3, <1>4, <1>5

\* The types of the tables and of a reading.
THEOREM TypeCorrect == QuerySpec => []TypeOK
<1>1. QueryInv => TypeOK
  BY DEF QueryInv, Typed
<1>2. QED
  BY <1>1, InvariantHolds, PTL

\* service.go:75-78: the total of a page and its items, read in two statements,
\* agree whenever no row moved between them, for every page, limit and order.
THEOREM TotalFits == QuerySpec => []TotalFitsPage
<1>1. QueryInv => TotalFitsPage
  BY DEF QueryInv
<1>2. QED
  BY <1>1, InvariantHolds, PTL

\* main.go:145-152: /full shows at least the leads that the campaign's row counts.
THEOREM FoundShown == QuerySpec => []FullShowsFound
<1>1. QueryInv => FullShowsFound
  BY DEF QueryInv
<1>2. QED
  BY <1>1, InvariantHolds, PTL

\* service.go:69: reading page after page by OFFSET shows every lead that was there
\* from the start, if no two have one score and none leaves the selection; one
\* statement that reads everything shows all that stays, whatever happens; and
\* nothing is shown twice when nothing moves.
THEOREM ScanComplete == QuerySpec => []ScanSeesAll
<1>1. QueryInv => ScanSeesAll
  BY ScanFollows
<1>2. QED
  BY <1>1, InvariantHolds, PTL
=============================================================================
