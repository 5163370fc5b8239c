------------------------- MODULE WorkerFanoutProofs -------------------------
(***************************************************************************)
(* WorkerFanout, proved for every number of requested providers and every  *)
(* list of leads they may return: nobody sends on the closed channel, each *)
(* step is one of Gather or none, and what dedup makes of the collected    *)
(* leads does not depend on the order in which they arrived.               *)
(***************************************************************************)
EXTENDS WorkerFanout, FoldFacts, TLAPS

N == Len(Requested)

\* TypeOK without the result of dedup and the bounds of the counters.
FanoutTypes ==
  /\ main \in {"spawn", "collect", "done"}
  /\ spawned \in 0..N
  /\ pc \in [Slots -> {"new", "lookup", "vault", "search", "send", "sent", "exited"}]
  /\ result \in [Slots -> Result]
  /\ wg \in Nat
  /\ closer \in {"new", "waiting", "exited"}
  /\ ch \in Seq(Slots)
  /\ closed \in BOOLEAN
  /\ all \in Seq(NormalizedLead)

\* The counter of the WaitGroup counts the goroutines that were started and have
\* not called Done.
Running == {i \in Slots : pc[i] \notin {"new", "exited"}}

Waited ==
  /\ wg = Cardinality(Running)
  /\ \A i \in Slots : pc[i] = "new" <=> i > spawned
  /\ main # "spawn" => spawned = N
  /\ closer # "new" => main # "spawn"
  /\ closed => \A i \in Slots : pc[i] = "exited"

\* A result is in the channel at most once, and only after it was sent.
Sent ==
  /\ \A m, n \in 1..Len(ch) : ch[m] = ch[n] => m = n
  /\ \A m \in 1..Len(ch) : pc[ch[m]] \in {"sent", "exited"}
  /\ \A i \in Slots : result[i].leads \in Offers[Requested[i]] \cup {<<>>}
  /\ main # "done" => unique = None

FanoutInv == FanoutTypes /\ Waited /\ Sent

-----------------------------------------------------------------------------

LEMMA SlotFacts ==
  /\ N \in Nat /\ Slots = 1..N
  /\ \A i \in Slots : Requested[i] \in Sources
  /\ \A i \in Slots : Offers[Requested[i]] \subseteq Seq(NormalizedLead)
<1>1. Requested \in Seq(Sources)
  BY FanoutAssumption
<1> QED
  BY <1>1, FanoutAssumption DEF N, Slots

LEMMA RunningFinite == IsFiniteSet(Running) /\ Cardinality(Running) \in Nat
<1>1. IsFiniteSet(Slots) /\ Running \in SUBSET Slots
  BY SlotFacts, FS_Interval DEF Running
<1> QED
  BY <1>1, FS_Subset, FS_CardinalityType

LEMMA FanoutInitial == Init => FanoutInv
<1> SUFFICES ASSUME Init PROVE FanoutInv
  OBVIOUS
<1>1. Running = {}
  BY DEF Init, Running
<1>2. Nothing \in Result
  BY DEF Nothing, Result
<1>3. FanoutTypes
  <2>1. <<>> \in Seq(Slots) /\ <<>> \in Seq(NormalizedLead) /\ 0 \in 0..N
    BY SlotFacts
  <2>2. \A x, S : x \in S => [i \in Slots |-> x] \in [Slots -> S]
    OBVIOUS
  <2> QED
    BY <1>2, <2>1, <2>2 DEF Init, FanoutTypes
<1>4. Waited
  BY <1>1, SlotFacts, FS_EmptySet DEF Init, Waited
<1>5. Sent
  BY SlotFacts DEF Init, Sent, Nothing
<1> QED
  BY <1>3, <1>4, <1>5 DEF FanoutInv

\* A goroutine that goes on, its place apart, neither starts nor ends.
LEMMA GoesOn ==
  ASSUME FanoutInv, NEW i \in Slots, pc[i] \notin {"new", "exited"},
         NEW next \in {"vault", "search", "send", "sent"},
         pc' = [pc EXCEPT ![i] = next]
  PROVE  /\ pc' \in [Slots -> {"new", "lookup", "vault", "search", "send", "sent", "exited"}]
         /\ Running' = Running
         /\ \A j \in Slots : pc'[j] = "new" <=> pc[j] = "new"
         /\ \A j \in Slots \ {i} : pc'[j] = pc[j]
         /\ pc'[i] = next
         /\ ~closed
<1>1. \A j \in Slots : pc'[j] = IF j = i THEN next ELSE pc[j]
  BY DEF FanoutInv, FanoutTypes
<1> QED
  BY <1>1 DEF FanoutInv, FanoutTypes, Waited, Running

LEMMA AttemptInductive ==
  ASSUME FanoutInv, Attempt \/ Close
  PROVE  FanoutInv'
<1> USE SlotFacts DEF FanoutInv
<1>1. CASE Spawn
  <2>1. /\ spawned \in Nat /\ spawned < N /\ spawned + 1 \in Slots /\ main = "spawn"
        /\ pc[spawned + 1] = "new" /\ wg \in Nat
    BY <1>1 DEF Spawn, FanoutTypes, Waited, N
  <2>2. \A j \in Slots : pc'[j] = IF j = spawned + 1 THEN "lookup" ELSE pc[j]
    BY <1>1, <2>1 DEF Spawn, FanoutTypes
  <2>3. Running' = Running \cup {spawned + 1} /\ spawned + 1 \notin Running
    BY <2>1, <2>2 DEF Running
  <2>4. wg' = Cardinality(Running')
    BY <1>1, <2>3, RunningFinite, FS_AddElement DEF Spawn, Waited
  <2>5. FanoutTypes'
    BY <1>1, <2>1 DEF Spawn, FanoutTypes
  <2>6. Waited'
    <3>1. ~closed
      BY <2>1 DEF Waited
    <3>2. \A i \in Slots : pc'[i] = "new" <=> i > spawned'
      BY <1>1, <2>1, <2>2 DEF Spawn, Waited
    <3> QED
      BY <1>1, <2>1, <2>4, <3>1, <3>2 DEF Spawn, Waited
  <2>7. Sent'
    <3>1. \A m \in 1..Len(ch) : ch[m] \in Slots
      BY DEF FanoutTypes
    <3> QED
      BY <1>1, <2>1, <2>2, <3>1 DEF Spawn, Sent
  <2> QED
    BY <2>5, <2>6, <2>7
<1>2. CASE SpawnCloser
  BY <1>2 DEF SpawnCloser, FanoutTypes, Waited, Sent, Running, N
<1>3. CASE Collect
  <2>1. /\ main = "collect" /\ ch # <<>> /\ ch' = Tail(ch) /\ ch \in Seq(Slots)
        /\ UNCHANGED <<main, spawned, pc, result, wg, closer, closed, unique>>
    BY <1>3 DEF Collect, FanoutTypes
  <2>2. /\ Tail(ch) \in Seq(Slots) /\ Len(Tail(ch)) = Len(ch) - 1 /\ Len(ch) \in Nat
        /\ \A m \in 1..Len(Tail(ch)) : Tail(ch)[m] = ch[m + 1] /\ m + 1 \in 1..Len(ch)
        /\ Head(ch) \in Slots
    BY <2>1
  <2>3. all' \in Seq(NormalizedLead)
    <3>1. result[Head(ch)].leads \in Seq(NormalizedLead)
      BY <2>2 DEF FanoutTypes, Result
    <3> QED
      BY <1>3, <3>1 DEF Collect, FanoutTypes
  <2>4. FanoutTypes'
    BY <2>1, <2>2, <2>3 DEF FanoutTypes
  <2>5. Waited' /\ Sent'
    BY <2>1, <2>2 DEF Waited, Sent, Running
  <2> QED
    BY <2>4, <2>5
<1>4. CASE CollectEnd
  BY <1>4 DEF CollectEnd, FanoutTypes, Waited, Sent, Running
<1>5. CASE Close
  <2>1. Running = {}
    BY <1>5, RunningFinite, FS_EmptySet DEF Close, Waited
  <2>2. \A i \in Slots : pc[i] = "exited"
    BY <1>5, <2>1 DEF Close, Waited, Running
  <2> QED
    BY <1>5, <2>2 DEF Close, FanoutTypes, Waited, Sent, Running
<1> QED
  BY <1>1, <1>2, <1>3, <1>4, <1>5 DEF Attempt

LEMMA ProviderInductive ==
  ASSUME FanoutInv, NEW i \in Slots, Provider(i)
  PROVE  FanoutInv'
<1> USE SlotFacts DEF FanoutInv
<1>1. /\ Requested[i] \in Sources /\ ch \in Seq(Slots) /\ Len(ch) \in Nat
      /\ \A m \in 1..Len(ch) : ch[m] \in Slots
  BY DEF FanoutTypes
<1>2. ASSUME NEW next \in {"vault", "search", "send"}, pc[i] \in {"lookup", "vault", "search"},
             pc' = [pc EXCEPT ![i] = next], result' \in [Slots -> Result],
             \A j \in Slots : result'[j].leads \in Offers[Requested[j]] \cup {<<>>},
             UNCHANGED <<main, spawned, wg, closer, ch, closed, all, unique>>
      PROVE  FanoutInv'
  <2>1. FanoutTypes'
    BY <1>2, GoesOn DEF FanoutTypes
  <2>2. Waited'
    BY <1>2, GoesOn DEF Waited
  <2>3. \A m \in 1..Len(ch) : ch[m] # i
    BY <1>1, <1>2 DEF Sent
  <2>4. \A m \in 1..Len(ch) : pc'[ch[m]] = pc[ch[m]]
    BY <1>1, <1>2, <2>3 DEF FanoutTypes
  <2>5. Sent'
    BY <1>2, <2>4 DEF Sent
  <2> QED
    BY <2>1, <2>2, <2>5
<1>3. CASE Lookup(i)
  BY <1>2, <1>3 DEF Lookup, FanoutTypes, Sent
<1>4. ASSUME NEW found \in BOOLEAN, VaultKey(i, found)
      PROVE  FanoutInv'
  BY <1>2, <1>4 DEF VaultKey, FanoutTypes, Sent
<1>5. ASSUME NEW leads \in Offers[Requested[i]], NEW err \in BOOLEAN, SearchReturns(i, leads, err)
      PROVE  FanoutInv'
  <2> DEFINE x == [leads |-> leads, err |-> err]
  <2>1. x \in Result /\ x.leads = leads
    BY DEF Result
  <2>2. result' = [result EXCEPT ![i] = x] /\ result \in [Slots -> Result]
    BY <1>5 DEF SearchReturns, FanoutTypes
  <2> HIDE DEF x
  <2>3. \A j \in Slots : result'[j].leads \in Offers[Requested[j]] \cup {<<>>}
    BY <2>1, <2>2 DEF Sent
  <2>4. result' \in [Slots -> Result]
    BY <2>1, <2>2
  <2> QED
    BY <1>2, <1>5, <2>3, <2>4 DEF SearchReturns
<1>6. CASE Send(i)
  <2>1. /\ pc[i] = "send" /\ ch' = Append(ch, i) /\ pc' = [pc EXCEPT ![i] = "sent"]
        /\ UNCHANGED <<main, spawned, result, wg, closer, closed, all, unique>>
    BY <1>6 DEF Send
  <2>2. /\ ch' \in Seq(Slots) /\ Len(ch') = Len(ch) + 1
        /\ \A m \in 1..Len(ch') : ch'[m] = IF m = Len(ch) + 1 THEN i ELSE ch[m]
    BY <1>1, <2>1
  <2>3. FanoutTypes'
    BY <2>1, <2>2, GoesOn DEF FanoutTypes
  <2>4. Waited'
    BY <2>1, GoesOn DEF Waited
  <2>5. \A m \in 1..Len(ch) : ch[m] # i
    BY <1>1, <2>1 DEF Sent
  <2>6. Sent'
    <3>1. \A m, n \in 1..Len(ch') : ch'[m] = ch'[n] => m = n
      <4> SUFFICES ASSUME NEW m \in 1..Len(ch'), NEW n \in 1..Len(ch'), ch'[m] = ch'[n]
                   PROVE  m = n
        OBVIOUS
      <4>1. CASE m \in 1..Len(ch) /\ n \in 1..Len(ch)
        <5>1. m # Len(ch) + 1 /\ n # Len(ch) + 1
          BY <1>1, <4>1
        <5>2. ch'[m] = ch[m] /\ ch'[n] = ch[n]
          BY <2>2, <5>1, ZenonT(30)
        <5> QED
          BY <4>1, <5>2 DEF Sent
      <4>2. CASE m = Len(ch) + 1 /\ n \in 1..Len(ch)
        <5>1. ch'[m] = i /\ ch'[n] = ch[n]
          BY <1>1, <2>2, <4>2
        <5> QED
          BY <2>5, <4>2, <5>1
      <4>3. CASE n = Len(ch) + 1 /\ m \in 1..Len(ch)
        <5>1. ch'[n] = i /\ ch'[m] = ch[m]
          BY <1>1, <2>2, <4>3
        <5> QED
          BY <2>5, <4>3, <5>1
      <4> QED
        BY <1>1, <2>2, <4>1, <4>2, <4>3
    <3>2. \A m \in 1..Len(ch') : pc'[ch'[m]] \in {"sent", "exited"}
      <4> SUFFICES ASSUME NEW m \in 1..Len(ch')
                   PROVE  pc'[ch'[m]] \in {"sent", "exited"}
        OBVIOUS
      <4>1. \A j \in Slots : pc'[j] = IF j = i THEN "sent" ELSE pc[j]
        BY <2>1 DEF FanoutTypes
      <4>2. CASE m \in 1..Len(ch)
        BY <1>1, <2>2, <4>1, <4>2 DEF Sent
      <4>3. CASE m = Len(ch) + 1
        BY <2>2, <4>1, <4>3
      <4> QED
        BY <1>1, <2>2, <4>2, <4>3
    <3> QED
      BY <2>1, <3>1, <3>2 DEF Sent
  <2> QED
    BY <2>3, <2>4, <2>6
<1>7. CASE Done(i)
  <2>1. /\ pc[i] = "sent" /\ wg' = wg - 1 /\ wg \in Nat
        /\ UNCHANGED <<main, spawned, result, closer, ch, closed, all, unique>>
    BY <1>7 DEF Done, FanoutTypes
  <2>2. \A j \in Slots : pc'[j] = IF j = i THEN "exited" ELSE pc[j]
    BY <1>7 DEF Done, FanoutTypes
  <2>3. Running' = Running \ {i} /\ i \in Running
    BY <2>1, <2>2 DEF Running
  <2>4. wg' = Cardinality(Running') /\ wg' \in Nat
    <3>1. Cardinality(Running') = Cardinality(Running) - 1 /\ IsFiniteSet(Running')
      BY <2>3, RunningFinite, FS_RemoveElement
    <3> QED
      BY <2>1, <3>1, FS_CardinalityType DEF Waited
  <2>5. FanoutTypes'
    BY <1>7, <2>1, <2>4 DEF Done, FanoutTypes
  <2>6. Waited'
    BY <2>1, <2>2, <2>4 DEF Waited
  <2>7. Sent'
    BY <1>1, <2>1, <2>2 DEF Sent
  <2> QED
    BY <2>5, <2>6, <2>7
<1> QED
  BY <1>3, <1>4, <1>5, <1>6, <1>7 DEF Provider

LEMMA FanoutInductive == FanoutInv /\ [Next]_vars => FanoutInv'
<1> SUFFICES ASSUME FanoutInv, [Next]_vars PROVE FanoutInv'
  OBVIOUS
<1>1. CASE UNCHANGED vars
  BY <1>1 DEF vars, FanoutInv, FanoutTypes, Waited, Sent, Running
<1> QED
  BY <1>1, AttemptInductive, ProviderInductive DEF Next

LEMMA FanoutInvariant == Spec => []FanoutInv
  BY FanoutInitial, FanoutInductive, PTL DEF Spec

\* When the channel is closed, every goroutine that could send has exited.
THEOREM NobodySendsOnClosed == Spec => []NoSendOnClosed
<1>1. FanoutInv => NoSendOnClosed
  BY DEF FanoutInv, Waited, NoSendOnClosed
<1> QED
  BY <1>1, FanoutInvariant, PTL

-----------------------------------------------------------------------------
(* dedup *)

DedupStep(acc, l) ==
  IF dedupKey(l) \in acc.seen THEN acc
  ELSE [seen |-> acc.seen \cup {dedupKey(l)}, out |-> Append(acc.out, l)]

\* The loop of dedup goes through the states acc[0], acc[1], ...
LEMMA DedupSteps ==
  ASSUME NEW leads \in Seq(NormalizedLead)
  PROVE  \E acc :
           /\ dedup(leads) = acc[Len(leads)].out
           /\ acc[0] = [seen |-> {}, out |-> <<>>]
           /\ \A n \in 0..Len(leads) - 1 : acc[n + 1] = DedupStep(acc[n], leads[n + 1])
<1> DEFINE start   == [seen |-> {}, out |-> <<>>]
           step(acc, l) ==
             IF dedupKey(l) \in acc.seen THEN acc
             ELSE [seen |-> acc.seen \cup {dedupKey(l)}, out |-> Append(acc.out, l)]
           Is(g)   == g = [s \in SUBSET DOMAIN leads |->
                             IF s = {} THEN start
                             ELSE step(g[s \ {Max(s)}], leads[Max(s)])]
           fold    == CHOOSE g : Is(g)
<1>1. \E g : Is(g)
  <2> DEFINE AllKeys == {dedupKey(l) : l \in NormalizedLead}
             X == [seen : SUBSET AllKeys, out : Seq(NormalizedLead)]
             F == [p \in X \X NormalizedLead |-> step(p[1], p[2])]
  <2>1. start \in X
    OBVIOUS
  <2>2. ASSUME NEW acc \in X, NEW l \in NormalizedLead PROVE step(acc, l) \in X
    <3>1. dedupKey(l) \in AllKeys /\ acc.seen \in SUBSET AllKeys
      OBVIOUS
    <3>2. Append(acc.out, l) \in Seq(NormalizedLead)
      OBVIOUS
    <3>3. QED
      BY <3>1, <3>2
  <2> HIDE DEF X, start, step
  <2>3. F \in [X \X NormalizedLead -> X]
    BY <2>2
  <2>4. \A acc \in X, l \in NormalizedLead : F[<<acc, l>>] = step(acc, l)
    OBVIOUS
  <2> HIDE DEF F
  <2>5. PICK g \in [SUBSET DOMAIN leads -> X] : FoldsWith(F, start, leads, g)
    BY <2>1, <2>3, FoldExists
  <2>6. ASSUME NEW s \in SUBSET DOMAIN leads
        PROVE  g[s] = IF s = {} THEN start ELSE step(g[s \ {Max(s)}], leads[Max(s)])
    <3>1. CASE s = {}
      BY <2>5, <3>1, Zenon DEF FoldsWith
    <3>2. CASE s # {}
      <4>1. Max(s) \in s
        BY <3>2, LargestNumber
      <4>2. leads[Max(s)] \in NormalizedLead /\ g[s \ {Max(s)}] \in X
        BY <4>1
      <4>3. QED
        BY <2>4, <2>5, <3>2, <4>2, Zenon DEF FoldsWith
    <3>3. QED
      BY <3>1, <3>2
  <2>7. Is(g)
    BY <2>6, Zenon
  <2>8. QED
    BY <2>7
<1>2. Is(fold)
  BY <1>1, Zenon
<1>3. dedup(leads) = fold[DOMAIN leads].out
  BY DEF dedup, FoldLeft, MapThenFoldSet
<1> HIDE DEF fold, step
<1>4. \A s \in SUBSET DOMAIN leads :
        fold[s] = IF s = {} THEN start ELSE step(fold[s \ {Max(s)}], leads[Max(s)])
  BY <1>2, Zenon
<1> HIDE DEF Is
<1> DEFINE acc == [n \in 0..Len(leads) |-> fold[1..n]]
<1>5. dedup(leads) = acc[Len(leads)].out
  <2>1. DOMAIN leads = 1..Len(leads) /\ Len(leads) \in 0..Len(leads)
    OBVIOUS
  <2>2. QED
    BY <1>3, <2>1
<1>6. acc[0] = start
  <2>1. 1..0 = {} /\ 1..0 \in SUBSET DOMAIN leads /\ 0 \in 0..Len(leads)
    OBVIOUS
  <2>2. QED
    BY <1>4, <2>1, Zenon
<1>7. ASSUME NEW n \in 0..Len(leads) - 1
      PROVE  acc[n + 1] = DedupStep(acc[n], leads[n + 1])
  <2>1. n \in Nat /\ n \in 0..Len(leads) /\ n + 1 \in 0..Len(leads)
        /\ 1..n+1 \in SUBSET DOMAIN leads /\ 1..n+1 # {}
    OBVIOUS
  <2>2. Max(1..n+1) = n + 1 /\ (1..n+1) \ {n + 1} = 1..n
    BY <2>1, PrefixMax
  <2>3. fold[1..n+1] = step(fold[1..n], leads[n + 1])
    BY <1>4, <2>1, <2>2, Zenon
  <2>4. acc[n + 1] = fold[1..n+1] /\ acc[n] = fold[1..n]
    BY <2>1
  <2>5. QED
    BY <2>3, <2>4, Zenon DEF step, DedupStep
<1>8. QED
  BY <1>5, <1>6, <1>7, Zenon

\* The places in leads of those that no earlier one shares its key with.
FirstPlaces(leads) ==
  {i \in DOMAIN leads : \A j \in 1..(i - 1) : dedupKey(leads[j]) # dedupKey(leads[i])}

\* After n leads, "seen" has their keys and "out" the first of each, in order.
DedupAfter(leads, n, acc) ==
  /\ acc.seen = {dedupKey(leads[i]) : i \in 1..n}
  /\ acc.out \in Seq(NormalizedLead)
  /\ \E e : /\ Ascends(e, Len(acc.out), FirstPlaces(leads) \cap 1..n)
            /\ \A i \in 1..Len(acc.out) : acc.out[i] = leads[e[i]]

LEMMA DedupAfterNone ==
  ASSUME NEW leads \in Seq(NormalizedLead)
  PROVE  DedupAfter(leads, 0, [seen |-> {}, out |-> <<>>])
<1> DEFINE out == <<>>
           e == [i \in 1..0 |-> i]
<1>1. Ascends(e, Len(out), FirstPlaces(leads) \cap 1..0)
  BY DEF Ascends
<1>2. 1..Len(out) = {} /\ 1..0 = {} /\ out \in Seq(NormalizedLead)
  OBVIOUS
<1>3. QED
  BY <1>1, <1>2 DEF DedupAfter

LEMMA DedupAfterStep ==
  ASSUME NEW leads \in Seq(NormalizedLead), NEW n \in 0..Len(leads) - 1,
         NEW acc, DedupAfter(leads, n, acc)
  PROVE  DedupAfter(leads, n + 1, DedupStep(acc, leads[n + 1]))
<1> DEFINE l == leads[n + 1]
           m == Len(acc.out)
           Before == FirstPlaces(leads) \cap 1..n
           Then == FirstPlaces(leads) \cap 1..n+1
<1>1. /\ n \in Nat /\ n + 1 \in DOMAIN leads /\ l \in NormalizedLead
      /\ 1..n+1 = 1..n \cup {n + 1} /\ (n + 1) - 1 = n
  OBVIOUS
<1>2. PICK e : Ascends(e, m, Before) /\ \A i \in 1..m : acc.out[i] = leads[e[i]]
  BY Zenon DEF DedupAfter
<1>3. /\ acc.seen = {dedupKey(leads[i]) : i \in 1..n}
      /\ acc.out \in Seq(NormalizedLead) /\ m \in Nat
  BY DEF DedupAfter
<1>4. n + 1 \in FirstPlaces(leads) <=> dedupKey(l) \notin acc.seen
  <2>1. n + 1 \in FirstPlaces(leads) <=> \A j \in 1..n : dedupKey(leads[j]) # dedupKey(l)
    BY <1>1 DEF FirstPlaces
  <2>2. QED
    BY <1>3, <2>1, Zenon
<1>5. CASE dedupKey(l) \in acc.seen
  <2>1. DedupStep(acc, l) = acc
    BY <1>5, Zenon DEF DedupStep
  <2>2. Then = Before
    BY <1>1, <1>4, <1>5
  <2>3. acc.seen = {dedupKey(leads[i]) : i \in 1..n+1}
    BY <1>1, <1>3, <1>5
  <2> HIDE DEF Then, Before
  <2>4. Ascends(e, m, Then)
    BY <1>2, <2>2
  <2>5. DedupAfter(leads, n + 1, acc)
    BY <1>2, <1>3, <2>3, <2>4, Zenon DEF DedupAfter, Then
  <2>6. QED
    BY <2>1, <2>5
<1>6. CASE dedupKey(l) \notin acc.seen
  <2> DEFINE new == DedupStep(acc, l)
             d == [i \in 1..m+1 |-> IF i = m + 1 THEN n + 1 ELSE e[i]]
  <2>1. new.seen = acc.seen \cup {dedupKey(l)} /\ new.out = Append(acc.out, l)
    BY <1>6 DEF DedupStep
  <2>2. /\ new.out \in Seq(NormalizedLead) /\ Len(new.out) = m + 1
        /\ \A i \in 1..m+1 : new.out[i] = IF i = m + 1 THEN l ELSE acc.out[i]
    BY <1>1, <1>3, <2>1
  <2>3. new.seen = {dedupKey(leads[i]) : i \in 1..n+1}
    BY <1>1, <1>3, <2>1
  <2>4. Then = Before \cup {n + 1} /\ n + 1 \in Then
    BY <1>1, <1>4, <1>6
  <2>5. \A i \in 1..m : e[i] \in Before /\ e[i] \in Then /\ e[i] \in Nat /\ e[i] < n + 1
    BY <1>1, <1>2, <2>4 DEF Ascends
  <2>6. /\ \A i \in 1..m : i \in 1..m+1 /\ i # m + 1
        /\ m + 1 \in 1..m+1
        /\ \A i \in 1..m+1 : i = m + 1 \/ i \in 1..m
    BY <1>3
  <2>7. d[m + 1] = n + 1 /\ \A i \in 1..m : d[i] = e[i]
    BY <2>6
  <2>8. d \in [1..m+1 -> Then]
    BY <2>4, <2>5, <2>6
  <2> HIDE DEF d, Then, Before, new
  <2>9. ASSUME NEW i \in 1..m+1, NEW j \in 1..m+1, i < j
        PROVE  d[i] < d[j]
    <3>1. i \in 1..m
      BY <1>3, <2>9
    <3>2. CASE j = m + 1
      BY <2>5, <2>7, <3>1, <3>2
    <3>3. CASE j \in 1..m
      BY <1>2, <2>7, <2>9, <3>1, <3>3 DEF Ascends
    <3>4. QED
      BY <2>6, <3>2, <3>3
  <2>10. ASSUME NEW x \in Then
         PROVE  \E i \in 1..m+1 : d[i] = x
    BY <1>2, <2>4, <2>6, <2>7 DEF Ascends
  <2>11. ASSUME NEW i \in 1..m+1
         PROVE  new.out[i] = leads[d[i]]
    <3>1. CASE i = m + 1
      BY <2>2, <2>7, <3>1
    <3>2. CASE i \in 1..m
      BY <1>2, <2>2, <2>6, <2>7, <3>2
    <3>3. QED
      BY <2>6, <3>1, <3>2
  <2>12. Ascends(d, Len(new.out), Then) /\ \A i \in 1..Len(new.out) : new.out[i] = leads[d[i]]
    BY <2>2, <2>8, <2>9, <2>10, <2>11, Zenon DEF Ascends
  <2>13. QED
    BY <2>2, <2>3, <2>12, Zenon DEF DedupAfter, Then, new
<1>7. QED
  BY <1>5, <1>6

LEMMA DedupFirsts ==
  ASSUME NEW leads \in Seq(NormalizedLead)
  PROVE  /\ dedup(leads) \in Seq(NormalizedLead)
         /\ \E e : /\ Ascends(e, Len(dedup(leads)), FirstPlaces(leads))
                   /\ \A i \in 1..Len(dedup(leads)) : dedup(leads)[i] = leads[e[i]]
<1>1. PICK acc : /\ dedup(leads) = acc[Len(leads)].out
                 /\ acc[0] = [seen |-> {}, out |-> <<>>]
                 /\ \A n \in 0..Len(leads) - 1 : acc[n + 1] = DedupStep(acc[n], leads[n + 1])
  BY DedupSteps
<1> DEFINE S == {n \in Nat : n <= Len(leads) => DedupAfter(leads, n, acc[n])}
<1>2. 0 \in S
  BY <1>1, DedupAfterNone
<1>3. ASSUME NEW n \in Nat, n \in S PROVE n + 1 \in S
  <2> SUFFICES ASSUME n + 1 <= Len(leads) PROVE DedupAfter(leads, n + 1, acc[n + 1])
    OBVIOUS
  <2>1. n \in 0..Len(leads) - 1 /\ n <= Len(leads)
    OBVIOUS
  <2>2. DedupAfter(leads, n, acc[n])
    BY <1>3, <2>1
  <2>3. QED
    BY <1>1, <2>1, <2>2, DedupAfterStep
<1> HIDE DEF S
<1>4. Len(leads) \in S
  BY <1>2, <1>3, NumberInduction
<1>5. DedupAfter(leads, Len(leads), acc[Len(leads)])
  BY <1>4 DEF S
<1>6. FirstPlaces(leads) \cap 1..Len(leads) = FirstPlaces(leads)
  BY DEF FirstPlaces
<1>7. PICK last : last = acc[Len(leads)]
  OBVIOUS
<1>8. last.out = dedup(leads) /\ DedupAfter(leads, Len(leads), last)
  BY <1>1, <1>5, <1>7
<1>9. QED
  BY <1>6, <1>8, Zenon DEF DedupAfter

\* dedup keeps one lead for each key, the first one, and the order of those.
LEMMA DedupKeepsFirsts ==
  ASSUME NEW leads \in Seq(NormalizedLead)
  PROVE  /\ dedup(leads) \in Seq(NormalizedLead)
         /\ Keys(dedup(leads)) = Keys(leads)
         /\ Len(dedup(leads)) = Cardinality(Keys(leads))
         /\ dedup(leads) = FirstOfEachKey(leads)
<1> DEFINE out == dedup(leads)
           m == Len(out)
           first == FirstPlaces(leads)
<1>1. out \in Seq(NormalizedLead) /\ m \in Nat /\ DOMAIN out = 1..m
  <2>1. out \in Seq(NormalizedLead)
    BY DedupFirsts
  <2> HIDE DEF out
  <2>2. QED
    BY <2>1
<1>2. PICK e : Ascends(e, m, first) /\ \A i \in 1..m : out[i] = leads[e[i]]
  BY DedupFirsts, Zenon
<1>3. /\ e \in [1..m -> first]
       /\ \A x \in first : \E i \in 1..m : e[i] = x
  BY <1>2 DEF Ascends
<1> HIDE DEF out, m
<1>4. first \in SUBSET Nat /\ first \subseteq DOMAIN leads /\ DOMAIN leads = 1..Len(leads)
  BY DEF FirstPlaces
<1>5. /\ \A i, j \in 1..m : e[i] = e[j] => i = j
      /\ IsFiniteSet(first) /\ Cardinality(first) = m
      /\ \A k \in 1..m : Cardinality({x \in first : x <= e[k]}) = k
  <2> HIDE DEF first
  <2>1. QED
    BY <1>1, <1>2, <1>4, Ascending, Zenon
<1>6. \A i, j \in first : dedupKey(leads[i]) = dedupKey(leads[j]) => i = j
  <2>1. SUFFICES ASSUME NEW i \in first, NEW j \in first, i < j,
                        dedupKey(leads[i]) = dedupKey(leads[j])
                 PROVE  FALSE
    BY <1>4
  <2>2. i \in 1..(j - 1)
    BY <1>4, <2>1
  <2>3. QED
    BY <2>1, <2>2 DEF FirstPlaces
<1>7. ASSUME NEW i \in DOMAIN leads
      PROVE  \E x \in first : dedupKey(leads[x]) = dedupKey(leads[i])
  <2> DEFINE T == {x \in DOMAIN leads : dedupKey(leads[x]) = dedupKey(leads[i])}
  <2>1. T \in SUBSET Nat /\ T # {}
    OBVIOUS
  <2> HIDE DEF T
  <2>2. PICK x \in T : \A y \in T : x <= y
    BY <2>1, LeastNumber
  <2>3. x \in DOMAIN leads /\ x \in Nat /\ dedupKey(leads[x]) = dedupKey(leads[i])
    BY <2>1, <2>2 DEF T
  <2>4. ASSUME NEW y \in 1..(x - 1) PROVE dedupKey(leads[y]) # dedupKey(leads[x])
    <3>1. y \in DOMAIN leads /\ ~(x <= y)
      BY <1>4, <2>3
    <3>2. y \notin T
      BY <2>2, <3>1
    <3>3. QED
      BY <2>3, <3>1, <3>2 DEF T
  <2>5. x \in first
    BY <2>3, <2>4, Zenon DEF FirstPlaces
  <2>6. QED
    BY <2>3, <2>5
<1>8. Keys(out) = Keys(leads)
  <2>1. ASSUME NEW k \in Keys(out) PROVE k \in Keys(leads)
    <3>1. PICK i \in 1..m : k = dedupKey(out[i])
      BY <1>1, <2>1 DEF Keys
    <3>2. e[i] \in DOMAIN leads /\ out[i] = leads[e[i]]
      BY <1>2, <1>4, <1>3
    <3>3. QED
      BY <3>1, <3>2, Zenon DEF Keys
  <2>2. ASSUME NEW k \in Keys(leads) PROVE k \in Keys(out)
    <3>1. PICK i \in DOMAIN leads : k = dedupKey(leads[i])
      BY <2>2, Zenon DEF Keys
    <3>2. PICK x \in first : dedupKey(leads[x]) = k
      BY <1>7, <3>1, Zenon
    <3>3. PICK j \in 1..m : e[j] = x
      BY <1>3
    <3>4. j \in DOMAIN out /\ dedupKey(out[j]) = k
      BY <1>1, <1>2, <3>2, <3>3, Zenon
    <3>5. QED
      BY <3>4, Zenon DEF Keys
  <2>3. QED
    BY <2>1, <2>2
<1>9. m = Cardinality(Keys(leads))
  <2> DEFINE key == [i \in 1..m |-> dedupKey(out[i])]
  <2>1. key \in [1..m -> Keys(leads)]
    <3>1. \A i \in 1..m : dedupKey(out[i]) \in Keys(out)
      BY <1>1, Zenon DEF Keys
    <3>2. QED
      BY <1>8, <3>1
  <2>2. ASSUME NEW i \in 1..m, NEW j \in 1..m, key[i] = key[j] PROVE i = j
    <3>1. dedupKey(leads[e[i]]) = dedupKey(leads[e[j]]) /\ e[i] \in first /\ e[j] \in first
      BY <1>2, <1>3, <2>2, Zenon
    <3>2. QED
      BY <1>5, <1>6, <3>1, Zenon
  <2>3. ASSUME NEW k \in Keys(leads) PROVE \E i \in 1..m : key[i] = k
    <3>1. PICK i \in DOMAIN out : k = dedupKey(out[i])
      BY <1>8, Zenon DEF Keys
    <3>2. QED
      BY <1>1, <3>1
  <2> HIDE DEF key
  <2>4. QED
    BY <1>1, <2>1, <2>2, <2>3, Enumerated
<1>10. out = FirstOfEachKey(leads)
  <2> DEFINE place(i) == Cardinality({j \in first : j <= i})
             ith(k) == CHOOSE i \in first : place(i) = k
  <2>1. FirstOfEachKey(leads) = [k \in 1..Cardinality(first) |-> leads[ith(k)]]
    BY Zenon DEF FirstOfEachKey, FirstPlaces
  <2>2. ASSUME NEW k \in 1..m PROVE ith(k) = e[k]
    <3>1. e[k] \in first /\ place(e[k]) = k
      BY <1>3, <1>5
    <3>2. ASSUME NEW i \in first, place(i) = k PROVE i = e[k]
      <4>1. PICK j \in 1..m : e[j] = i
        BY <1>3
      <4>2. place(i) = j
        BY <1>5, <4>1
      <4>3. QED
        BY <3>2, <4>1, <4>2
    <3> HIDE DEF place
    <3>3. QED
      BY <3>1, <3>2
  <2> HIDE DEF ith
  <2>3. \A k \in 1..m : out[k] = leads[ith(k)]
    BY <1>2, <2>2
  <2>4. out = [k \in 1..m |-> out[k]]
    BY <1>1
  <2>5. QED
    BY <1>5, <2>1, <2>3, <2>4, Zenon
<1>11. QED
  BY <1>1, <1>8, <1>9, <1>10 DEF out, m

-----------------------------------------------------------------------------
(* What is collected *)

\* The slots whose result is still to be taken.
Pending == {i \in Slots : pc[i] \notin {"sent", "exited"} \/ i \in ToSet(ch)}

LEMMA HeadLeaves ==
  ASSUME FanoutInv, ch # <<>>
  PROVE  /\ Head(ch) \in Slots /\ Head(ch) \in ToSet(ch)
         /\ ToSet(Tail(ch)) = ToSet(ch) \ {Head(ch)}
         /\ pc[Head(ch)] \in {"sent", "exited"}
<1>1. /\ ch \in Seq(Slots) /\ Len(ch) \in Nat /\ Len(ch) >= 1 /\ Head(ch) = ch[1]
      /\ Len(Tail(ch)) = Len(ch) - 1
      /\ \A m \in 1..Len(Tail(ch)) : Tail(ch)[m] = ch[m + 1]
      /\ DOMAIN ch = 1..Len(ch) /\ DOMAIN Tail(ch) = 1..Len(Tail(ch))
  BY DEF FanoutInv, FanoutTypes
<1>2. \A m \in 2..Len(ch) : ch[m] # ch[1]
  BY <1>1 DEF FanoutInv, Sent
<1>3. ASSUME NEW m \in 2..Len(ch)
      PROVE  ch[m] \in {Tail(ch)[n] : n \in DOMAIN Tail(ch)}
  <2>1. m - 1 \in DOMAIN Tail(ch) /\ Tail(ch)[m - 1] = ch[m]
    BY <1>1
  <2> QED
    BY <2>1
<1>4. ToSet(Tail(ch)) = {ch[m] : m \in 2..Len(ch)}
  <2>1. \A n \in DOMAIN Tail(ch) : n + 1 \in 2..Len(ch) /\ Tail(ch)[n] = ch[n + 1]
    BY <1>1
  <2> QED
    BY <1>3, <2>1 DEF ToSet
<1>5. DOMAIN ch = {1} \cup 2..Len(ch)
  BY <1>1
<1>6. ToSet(ch) = {Head(ch)} \cup {ch[m] : m \in 2..Len(ch)}
  BY <1>1, <1>5 DEF ToSet
<1>7. Head(ch) \notin {ch[m] : m \in 2..Len(ch)}
  BY <1>1, <1>2
<1>8. 1 \in 1..Len(ch) /\ Head(ch) \in Slots
  BY <1>1
<1>9. pc[Head(ch)] \in {"sent", "exited"}
  BY <1>1, <1>8 DEF FanoutInv, Sent
<1> QED
  BY <1>4, <1>6, <1>7, <1>8, <1>9

\* What a step does to the slots that wait and to what was collected: it takes
\* one result, or ends the collection, or changes nothing that was taken.
Takes(i) ==
  /\ main = "collect" /\ i \in Pending /\ Pending' = Pending \ {i}
  /\ all' = IF result[i].err THEN all ELSE all \o result[i].leads
  /\ UNCHANGED <<main, result, closed, unique>>

Ends ==
  /\ Pending = {} /\ Pending' = {}
  /\ closed /\ ch = <<>> /\ main = "collect" /\ main' = "done"
  /\ unique' = dedup(all)
  /\ UNCHANGED <<result, closed, ch, all>>

Stays ==
  /\ UNCHANGED <<Pending, all, unique>>
  /\ \A i \in Slots \ Pending : result'[i] = result[i]
  /\ main' = "done" <=> main = "done"
  /\ main = "done" => (closed => closed') /\ ch' = ch

LEMMA FanoutMoves ==
  ASSUME FanoutInv, [Next]_vars, main = "done" => closed
  PROVE  (\E i \in Slots : Takes(i)) \/ Ends \/ Stays
<1> USE SlotFacts DEF FanoutInv
<1>1. ch \in Seq(Slots) /\ pc \in [Slots -> {"new", "lookup", "vault", "search", "send", "sent", "exited"}]
  BY DEF FanoutTypes
<1>2. CASE Spawn
  <2>1. spawned + 1 \in Slots /\ pc[spawned + 1] = "new"
    BY <1>2 DEF Spawn, FanoutTypes, Waited, N
  <2>2. Pending' = Pending
    BY <1>1, <1>2, <2>1 DEF Spawn, Pending
  <2> QED
    BY <1>2, <2>2 DEF Spawn, Stays
<1>3. CASE SpawnCloser
  BY <1>3 DEF SpawnCloser, Pending, Stays
<1>4. CASE Collect
  <2>1. ch # <<>> /\ ch' = Tail(ch) /\ pc' = pc
    BY <1>4 DEF Collect
  <2> PICK i \in Slots : i = Head(ch)
    BY <2>1, HeadLeaves
  <2>2. i \in Pending /\ Pending' = Pending \ {i}
    BY <2>1, HeadLeaves DEF Pending
  <2>3. Takes(i)
    BY <1>4, <2>2 DEF Collect, Takes
  <2> QED
    BY <2>3
<1>5. CASE CollectEnd
  <2>1. ch = <<>> /\ \A i \in Slots : pc[i] = "exited"
    BY <1>5 DEF CollectEnd, Waited
  <2>2. Pending = {} /\ Pending' = {}
    BY <1>5, <2>1 DEF CollectEnd, Pending, ToSet
  <2> QED
    BY <1>5, <2>2 DEF CollectEnd, Ends
<1>6. CASE Close
  BY <1>6 DEF Close, Pending, Stays
<1>7. ASSUME NEW i \in Slots, Provider(i)
      PROVE  Stays
  <2>1. pc[i] # "exited" /\ UNCHANGED <<main, closed, all, unique>>
    BY <1>7 DEF Provider, Lookup, VaultKey, SearchReturns, Send, Done
  <2>2. main # "done"
    BY <2>1 DEF Waited
  <2>3. CASE Send(i)
    <3>1. ch' = Append(ch, i) /\ pc[i] = "send" /\ pc' = [pc EXCEPT ![i] = "sent"]
      BY <2>3 DEF Send
    <3>2. ToSet(ch') = ToSet(ch) \cup {i}
      <4>1. /\ Len(ch) \in Nat /\ DOMAIN ch = 1..Len(ch) /\ DOMAIN ch' = 1..(Len(ch) + 1)
            /\ ch'[Len(ch) + 1] = i /\ \A m \in 1..Len(ch) : ch'[m] = ch[m]
        BY <1>1, <3>1
      <4> QED
        BY <4>1 DEF ToSet
    <3>3. Pending' = Pending
      BY <1>1, <3>1, <3>2 DEF Pending
    <3> QED
      BY <2>1, <2>2, <2>3, <3>3 DEF Send, Stays
  <2>4. CASE ~Send(i)
    <3>1. /\ ch' = ch
          /\ \E next \in {"vault", "search", "send", "exited"} : pc' = [pc EXCEPT ![i] = next]
                /\ (pc[i] \in {"sent", "exited"} <=> next \in {"sent", "exited"})
      BY <1>7, <2>4 DEF Provider, Lookup, VaultKey, SearchReturns, Done
    <3>2. Pending' = Pending
      BY <1>1, <3>1 DEF Pending
    <3>3. \A j \in Slots \ Pending : result'[j] = result[j]
      <4>1. CASE \E leads \in Offers[Requested[i]], err \in BOOLEAN : SearchReturns(i, leads, err)
        <5>1. pc[i] = "search" /\ \E x : result' = [result EXCEPT ![i] = x]
          BY <4>1, Zenon DEF SearchReturns
        <5>2. i \in Pending
          BY <5>1 DEF Pending
        <5> QED
          BY <5>1, <5>2 DEF FanoutTypes
      <4>2. CASE result' = result
        BY <4>2
      <4> QED
        BY <1>7, <2>4, <4>1, <4>2, Zenon DEF Provider, Lookup, VaultKey, Done
    <3> QED
      BY <2>1, <2>2, <3>2, <3>3 DEF Stays
  <2> QED
    BY <2>3, <2>4
<1>8. CASE UNCHANGED vars
  BY <1>8 DEF vars, Pending, Stays
<1> QED
  BY <1>2, <1>3, <1>4, <1>5, <1>6, <1>7, <1>8 DEF Next, Attempt

LEMMA KeysConcat ==
  ASSUME NEW s \in Seq(NormalizedLead), NEW t \in Seq(NormalizedLead)
  PROVE  Keys(s \o t) = Keys(s) \cup Keys(t)
<1>1. /\ DOMAIN s = 1..Len(s) /\ DOMAIN t = 1..Len(t) /\ DOMAIN (s \o t) = 1..(Len(s) + Len(t))
      /\ Len(s) \in Nat /\ Len(t) \in Nat
      /\ \A i \in DOMAIN s : i \in DOMAIN (s \o t) /\ (s \o t)[i] = s[i]
      /\ \A i \in DOMAIN t : Len(s) + i \in DOMAIN (s \o t) /\ (s \o t)[Len(s) + i] = t[i]
      /\ \A i \in DOMAIN (s \o t) : i \in DOMAIN s \/ i - Len(s) \in DOMAIN t
      /\ \A i \in DOMAIN (s \o t) : Len(s) + (i - Len(s)) = i
  OBVIOUS
<1>2. ASSUME NEW k \in Keys(s) PROVE k \in Keys(s \o t)
  <2>1. PICK i \in DOMAIN s : k = dedupKey(s[i])
    BY Zenon DEF Keys
  <2>2. i \in DOMAIN (s \o t) /\ (s \o t)[i] = s[i]
    BY <1>1
  <2> QED
    BY <2>1, <2>2, Zenon DEF Keys
<1>3. ASSUME NEW k \in Keys(t) PROVE k \in Keys(s \o t)
  <2>1. PICK i \in DOMAIN t : k = dedupKey(t[i])
    BY Zenon DEF Keys
  <2>2. Len(s) + i \in DOMAIN (s \o t) /\ (s \o t)[Len(s) + i] = t[i]
    BY <1>1
  <2> QED
    BY <2>1, <2>2, Zenon DEF Keys
<1>4. ASSUME NEW k \in Keys(s \o t) PROVE k \in Keys(s) \cup Keys(t)
  <2>1. PICK i \in DOMAIN (s \o t) : k = dedupKey((s \o t)[i])
    BY <1>4, Zenon DEF Keys
  <2>2. CASE i \in DOMAIN s
    BY <1>1, <2>1, <2>2, Zenon DEF Keys
  <2>3. CASE i - Len(s) \in DOMAIN t
    <3>1. (s \o t)[i] = t[i - Len(s)]
      BY <1>1, <2>3
    <3> QED
      BY <2>1, <2>3, <3>1, Zenon DEF Keys
  <2> QED
    BY <1>1, <2>2, <2>3
<1> QED
  BY <1>2, <1>3, <1>4

\* "all" has the keys of the results that were taken, and the attempt is done only
\* after the last of them.
Collected ==
  /\ Keys(all) = UNION {Keys(result[i].leads) : i \in {j \in Slots \ Pending : ~result[j].err}}
  /\ main = "done" => closed /\ ch = <<>> /\ unique = dedup(all)

LEMMA CollectedInitial == Init => Collected
<1> SUFFICES ASSUME Init PROVE Collected
  OBVIOUS
<1>1. Pending = Slots /\ all = <<>> /\ main # "done"
  BY DEF Init, Pending
<1>2. Keys(<<>>) = {}
  BY DEF Keys
<1> QED
  BY <1>1, <1>2 DEF Collected

LEMMA CollectedInductive == FanoutInv /\ Collected /\ [Next]_vars => Collected'
<1> SUFFICES ASSUME FanoutInv, Collected, [Next]_vars PROVE Collected'
  OBVIOUS
<1>1. main = "done" => closed
  BY DEF Collected
<1>2. ASSUME NEW i \in Slots, Takes(i) PROVE Collected'
  <2>1. all \in Seq(NormalizedLead) /\ result[i].leads \in Seq(NormalizedLead)
    BY DEF FanoutInv, FanoutTypes, Result
  <2>2. Keys(all') = IF result[i].err THEN Keys(all) ELSE Keys(all) \cup Keys(result[i].leads)
    BY <1>2, <2>1, KeysConcat DEF Takes
  <2>3. Slots \ Pending' = (Slots \ Pending) \cup {i} /\ result' = result
    BY <1>2 DEF Takes
  <2>4. Keys(all') = UNION {Keys(result[j].leads) :
                              j \in {k \in (Slots \ Pending) \cup {i} : ~result[k].err}}
    BY <2>2 DEF Collected
  <2> QED
    BY <1>2, <2>3, <2>4 DEF Takes, Collected
<1>3. CASE Ends
  BY <1>3 DEF Ends, Collected
<1>4. CASE Stays
  <2>1. {j \in Slots \ Pending' : ~result'[j].err} = {j \in Slots \ Pending : ~result[j].err}
    BY <1>4 DEF Stays
  <2>2. \A j \in {k \in Slots \ Pending : ~result[k].err} : result'[j] = result[j]
    BY <1>4 DEF Stays
  <2>3. UNION {Keys(result'[j].leads) : j \in {k \in Slots \ Pending' : ~result'[k].err}}
        = UNION {Keys(result[j].leads) : j \in {k \in Slots \ Pending : ~result[k].err}}
    BY <2>1, <2>2
  <2> QED
    BY <1>4, <2>3 DEF Stays, Collected
<1> QED
  BY <1>1, <1>2, <1>3, <1>4, FanoutMoves

LEMMA CollectedInvariant == Spec => [](FanoutInv /\ Collected)
  BY FanoutInitial, FanoutInductive, CollectedInitial, CollectedInductive, PTL DEF Spec

LEMMA DoneFacts ==
  ASSUME FanoutInv, Collected, main = "done"
  PROVE  /\ unique = dedup(all) /\ all \in Seq(NormalizedLead)
         /\ Keys(all) = UNION {Keys(result[i].leads) : i \in {j \in Slots : ~result[j].err}}
<1>1. closed /\ ch = <<>> /\ \A i \in Slots : pc[i] = "exited"
  BY DEF FanoutInv, Waited, Collected
<1>2. Pending = {}
  BY <1>1 DEF Pending, ToSet
<1> QED
  BY <1>2 DEF Collected, FanoutInv, FanoutTypes

\* What is counted in "totalFound" does not depend on the order in which the
\* providers answer (worker.go:96-105).
THEOREM UniqueDoesNotDependOnOrder == Spec => []UniqueIsOrderFree
<1>1. FanoutInv /\ Collected => UniqueIsOrderFree
  <2> SUFFICES ASSUME FanoutInv, Collected, main = "done"
               PROVE  /\ Keys(unique) = UNION {Keys(result[i].leads) :
                                                 i \in {j \in Slots : ~result[j].err}}
                      /\ Len(unique) = Cardinality(Keys(unique))
    BY DEF UniqueIsOrderFree
  <2>1. Keys(unique) = Keys(all) /\ Len(unique) = Cardinality(Keys(all))
    BY DoneFacts, DedupKeepsFirsts
  <2> QED
    BY <2>1, DoneFacts
<1> QED
  BY <1>1, CollectedInvariant, PTL

\* The lead that stands for its key is the first that arrived (worker.go, dedup).
THEOREM TheFirstArrivalWins == Spec => []FirstArrivalWins
<1>1. FanoutInv /\ Collected => FirstArrivalWins
  BY DoneFacts, DedupKeepsFirsts DEF FirstArrivalWins
<1> QED
  BY <1>1, CollectedInvariant, PTL

\* The variables keep their types: in particular the counter of the WaitGroup does
\* not exceed the number of providers, and neither does what the channel holds, so
\* that its buffer (worker.go:65) is never short.
THEOREM TypeCorrect == Spec => []TypeOK
<1>1. FanoutInv /\ Collected => TypeOK
  <2> SUFFICES ASSUME FanoutInv, Collected PROVE TypeOK
    OBVIOUS
  <2>1. FanoutTypes /\ IsFiniteSet(Slots) /\ Cardinality(Slots) = N /\ N \in Nat
    BY SlotFacts, FS_Interval DEF FanoutInv
  <2>2. wg \in 0..N
    <3>1. Running \in SUBSET Slots /\ Cardinality(Running) \in Nat
      BY RunningFinite DEF Running
    <3>2. Cardinality(Running) <= N
      BY <2>1, <3>1, FS_Subset
    <3> QED
      BY <2>1, <3>1, <3>2 DEF FanoutInv, Waited
  <2>3. Len(ch) <= N
    <3>1. ch \in [1..Len(ch) -> Slots] /\ Len(ch) \in Nat /\ DOMAIN ch = 1..Len(ch)
      BY <2>1 DEF FanoutTypes
    <3>2. ch \in Injection(1..Len(ch), Slots)
      <4>1. IsInjective(ch)
        BY <3>1, Zenon DEF FanoutInv, Sent, IsInjective
      <4> QED
        BY <3>1, <4>1 DEF Injection
    <3>3. Cardinality(1..Len(ch)) <= N
      BY <2>1, <3>2, FS_Injection
    <3>4. Cardinality(1..Len(ch)) = Len(ch)
      <4>1. 1 \in Int /\ Len(ch) \in Int
        BY <3>1
      <4>2. Cardinality(1..Len(ch)) = IF 1 > Len(ch) THEN 0 ELSE Len(ch) - 1 + 1
        BY <4>1, FS_Interval
      <4> QED
        BY <3>1, <4>2
    <3> QED
      BY <3>3, <3>4
  <2>4. unique \in Seq(NormalizedLead) \cup {None}
    <3>1. CASE main = "done"
      BY <3>1, DoneFacts, DedupKeepsFirsts
    <3>2. CASE main # "done"
      BY <3>2 DEF FanoutInv, Sent
    <3> QED
      BY <3>1, <3>2
  <2> QED
    BY <2>1, <2>2, <2>3, <2>4 DEF FanoutTypes, TypeOK, N
<1> QED
  BY <1>1, CollectedInvariant, PTL

-----------------------------------------------------------------------------
(* The refinement *)

LEMMA GatherStep ==
  FanoutInv /\ Collected /\ [Next]_vars => [Gathering!GatherNext]_(Gathering!gatherVars)
<1> SUFFICES ASSUME FanoutInv, Collected, [Next]_vars
             PROVE  \/ \E i \in Slots : Gathering!Take(i)
                    \/ Gathering!Finish
                    \/ UNCHANGED <<Pending, all, unique>>
  BY DEF Gathering!GatherNext, Gathering!gatherVars, Gathering!Slots, Slots, Pending
<1>1. main = "done" => closed
  BY DEF Collected
<1>2. ASSUME NEW i \in Slots, Takes(i) PROVE Gathering!Take(i)
  <2>1. all \in Seq(NormalizedLead) /\ all \o <<>> = all
    BY DEF FanoutInv, FanoutTypes
  <2>2. result[i].leads \in Offers[Requested[i]] \cup {<<>>}
    BY DEF FanoutInv, Sent
  <2>3. \E leads \in Offers[Requested[i]] \cup {<<>>} : all' = all \o leads
    BY <1>2, <2>1, <2>2 DEF Takes
  <2> QED
    BY <1>2, <2>3 DEF Takes, Gathering!Take, Pending
<1>3. CASE Ends
  <2>1. unique = None
    BY <1>3 DEF Ends, FanoutInv, Sent
  <2>2. Gathering!dedup(all) = dedup(all)
    BY DEF Gathering!dedup, dedup, Gathering!dedupKey, dedupKey,
           Gathering!HasOwnDomain, HasOwnDomain, Gathering!FoldLeft, FoldLeft,
           Gathering!MapThenFoldSet, MapThenFoldSet, Gathering!Max, Max
  <2> QED
    BY <1>3, <2>1, <2>2 DEF Ends, Gathering!Finish, Pending
<1>4. CASE Stays
  BY <1>4 DEF Stays
<1> QED
  BY <1>1, <1>2, <1>3, <1>4, FanoutMoves

\* The fan-out takes the answer of every provider exactly once and deduplicates
\* after the last: the safety half of ImplementsGather.
THEOREM GathersSafely ==
  Spec => Gathering!GatherInit /\ [][Gathering!GatherNext]_(Gathering!gatherVars)
<1>1. Init => Gathering!GatherInit
  BY DEF Init, Gathering!GatherInit, Gathering!Slots, Slots, ToSet
<1> QED
  BY <1>1, GatherStep, CollectedInvariant, PTL DEF Spec
=============================================================================
