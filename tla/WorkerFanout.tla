---------------------------- MODULE WorkerFanout ----------------------------
(***************************************************************************)
(* The fan-out of ProcessCampaign (internal/campaign/worker.go): a         *)
(* goroutine per requested provider, their results in a buffered channel,  *)
(* a goroutine that closes the channel once the WaitGroup is down to zero, *)
(* and the attempt itself, which spawns them all and then collects.        *)
(*                                                                         *)
(* It implements Gather, which CampaignPipeline abstracts to the number of *)
(* unique leads of its Fetch step.                                         *)
(***************************************************************************)
EXTENDS LeadDedup

CONSTANTS
  Requested,   \* the provider ids of the payload, in order; one may occur twice
  Registered,  \* the ids that the registry knows
  RequiresKey, \* the providers that are useless without an API key
  Saved,       \* the providers for which the user saved a key in the vault
  Offers       \* Offers[p]: the lead lists that Search of p may return

Slots == 1..Len(Requested)

ASSUME FanoutAssumption ==
  /\ Requested \in Seq(Sources) /\ Registered \subseteq Sources
  /\ RequiresKey \subseteq Registered /\ Saved \subseteq Sources
  /\ Offers \in [Sources -> SUBSET Seq(NormalizedLead)]

VARIABLES
  main,    \* the attempt: "spawn", "collect" or "done"
  spawned, \* how many provider goroutines it has started
  pc,      \* each provider goroutine
  result,  \* what each of them is about to send, or has sent
  wg,      \* the counter of the WaitGroup
  closer,  \* the goroutine that waits and closes
  ch,      \* the channel: the slots whose results are buffered
  closed,  \* the channel is closed
  all,     \* the leads collected so far
  unique   \* None, then the result of dedup

vars == <<main, spawned, pc, result, wg, closer, ch, closed, all, unique>>

Result == [leads : Seq(NormalizedLead), err : BOOLEAN]
Nothing == [leads |-> <<>>, err |-> FALSE]

TypeOK ==
  /\ main \in {"spawn", "collect", "done"}
  /\ spawned \in 0..Len(Requested)
  /\ pc \in [Slots -> {"new", "lookup", "vault", "search", "send", "sent", "exited"}]
  /\ result \in [Slots -> Result]
  /\ wg \in 0..Len(Requested)
  /\ closer \in {"new", "waiting", "exited"}
  /\ ch \in Seq(Slots) /\ Len(ch) <= Len(Requested)
  /\ closed \in BOOLEAN
  /\ all \in Seq(NormalizedLead)
  /\ unique \in Seq(NormalizedLead) \cup {None}

Init ==
  /\ main = "spawn" /\ spawned = 0
  /\ pc = [i \in Slots |-> "new"]
  /\ result = [i \in Slots |-> Nothing]
  /\ wg = 0
  /\ closer = "new"
  /\ ch = <<>> /\ closed = FALSE
  /\ all = <<>> /\ unique = None

-----------------------------------------------------------------------------
(* The attempt *)

\* wg.Add(1) and the go statement; those started before are running already.
Spawn ==
  /\ main = "spawn" /\ spawned < Len(Requested)
  /\ spawned' = spawned + 1
  /\ wg' = wg + 1
  /\ pc' = [pc EXCEPT ![spawned + 1] = "lookup"]
  /\ UNCHANGED <<main, result, closer, ch, closed, all, unique>>

SpawnCloser ==
  /\ main = "spawn" /\ spawned = Len(Requested)
  /\ closer' = "waiting"
  /\ main' = "collect"
  /\ UNCHANGED <<spawned, pc, result, wg, ch, closed, all, unique>>

\* Mutant of Collect: the first error ends the loop.
CollectUntilError ==
  /\ main = "collect" /\ ch # <<>>
  /\ LET r == result[Head(ch)] IN
     /\ main' = IF r.err THEN "done" ELSE main
     /\ unique' = IF r.err THEN dedup(all) ELSE unique
     /\ all' = IF r.err THEN all ELSE all \o r.leads
  /\ ch' = Tail(ch)
  /\ UNCHANGED <<spawned, pc, result, wg, closer, closed>>

\* range ch: a result with an error is logged and skipped.
Collect ==
  /\ main = "collect" /\ ch # <<>>
  /\ LET r == result[Head(ch)] IN all' = IF r.err THEN all ELSE all \o r.leads
  /\ ch' = Tail(ch)
  /\ UNCHANGED <<main, spawned, pc, result, wg, closer, closed, unique>>

\* The range ends when the channel is closed and empty; then dedup.
CollectEnd ==
  /\ main = "collect" /\ ch = <<>> /\ closed
  /\ unique' = dedup(all)
  /\ main' = "done"
  /\ UNCHANGED <<spawned, pc, result, wg, closer, ch, closed, all>>

-----------------------------------------------------------------------------
(* The goroutine of slot i *)

\* Mutant of Lookup: an unknown provider returns without wg.Done().
LookupReturns(i) ==
  /\ pc[i] = "lookup"
  /\ pc' = [pc EXCEPT ![i] = IF Requested[i] \in Registered THEN "vault" ELSE "exited"]
  /\ UNCHANGED <<main, spawned, result, wg, closer, ch, closed, all, unique>>

\* registry.Get: an unknown provider is an empty result.
Lookup(i) ==
  /\ pc[i] = "lookup"
  /\ pc' = [pc EXCEPT ![i] = IF Requested[i] \in Registered THEN "vault" ELSE "send"]
  /\ UNCHANGED <<main, spawned, result, wg, closer, ch, closed, all, unique>>

\* GetDecryptedKey: whatever fails in the vault or the database looks like a key
\* that was never saved. A provider that requires a key is skipped without one.
VaultKey(i, found) ==
  /\ pc[i] = "vault"
  /\ found => Requested[i] \in Saved
  /\ pc' = [pc EXCEPT ![i] = IF Requested[i] \in RequiresKey /\ ~found
                             THEN "send" ELSE "search"]
  /\ UNCHANGED <<main, spawned, result, wg, closer, ch, closed, all, unique>>

\* adapter.Search returns leads, or an error whose leads are dropped later.
SearchReturns(i, leads, err) ==
  /\ pc[i] = "search"
  /\ leads \in Offers[Requested[i]]
  /\ result' = [result EXCEPT ![i] = [leads |-> leads, err |-> err]]
  /\ pc' = [pc EXCEPT ![i] = "send"]
  /\ UNCHANGED <<main, spawned, wg, closer, ch, closed, all, unique>>

\* Mutant of Send: wg.Done() is called here and deferred as well.
SendAndDone(i) ==
  /\ pc[i] = "send" /\ Len(ch) < Len(Requested)
  /\ ch' = Append(ch, i)
  /\ wg' = wg - 1
  /\ pc' = [pc EXCEPT ![i] = "sent"]
  /\ UNCHANGED <<main, spawned, result, closer, closed, all, unique>>

Send(i) ==
  /\ pc[i] = "send" /\ Len(ch) < Len(Requested)
  /\ ch' = Append(ch, i)
  /\ pc' = [pc EXCEPT ![i] = "sent"]
  /\ UNCHANGED <<main, spawned, result, wg, closer, closed, all, unique>>

\* The deferred wg.Done().
Done(i) ==
  /\ pc[i] = "sent"
  /\ wg' = wg - 1
  /\ pc' = [pc EXCEPT ![i] = "exited"]
  /\ UNCHANGED <<main, spawned, result, closer, ch, closed, all, unique>>

\* Mutant of Close: it does not wait.
CloseUnwaited ==
  /\ closer = "waiting"
  /\ closed' = TRUE
  /\ closer' = "exited"
  /\ UNCHANGED <<main, spawned, pc, result, wg, ch, all, unique>>

\* wg.Wait(); close(ch)
Close ==
  /\ closer = "waiting" /\ wg = 0
  /\ closed' = TRUE
  /\ closer' = "exited"
  /\ UNCHANGED <<main, spawned, pc, result, wg, ch, all, unique>>

-----------------------------------------------------------------------------

Attempt == Spawn \/ SpawnCloser \/ Collect \/ CollectEnd

Provider(i) ==
  \/ Lookup(i)
  \/ \E found \in BOOLEAN : VaultKey(i, found)
  \/ \E leads \in Offers[Requested[i]], err \in BOOLEAN : SearchReturns(i, leads, err)
  \/ Send(i)
  \/ Done(i)

Next == Attempt \/ Close \/ \E i \in Slots : Provider(i)

Spec == Init /\ [][Next]_vars

\* The runtime runs every goroutine, and Search returns: the requests of all
\* adapters carry the context of the attempt, which has a deadline.
FairSpec ==
  Spec /\ WF_vars(Attempt) /\ WF_vars(Close) /\ \A i \in Slots : WF_vars(Provider(i))

-----------------------------------------------------------------------------
(* Properties *)

\* Nobody can send on the closed channel, which would panic and take the whole
\* process down with every other attempt and request (worker.go:65-94).
NoSendOnClosed ==
  closed => \A i \in Slots : pc[i] = "exited"

\* What is counted in "totalFound" does not depend on the order in which the
\* providers answer: one lead for each key that any successful search returned.
UniqueIsOrderFree ==
  main = "done" =>
    /\ Keys(unique) = UNION {Keys(result[i].leads) : i \in {j \in Slots : ~result[j].err}}
    /\ Len(unique) = Cardinality(Keys(unique))

\* Which lead stands for its key does: it is the first that arrived.
FirstArrivalWins == main = "done" => unique = FirstOfEachKey(all)

\* The attempt gets past the fan-out, whatever the providers do.
Terminates == <>(main = "done")

\* The abstract fan-out: slot i is pending until its result is collected.
Gathering ==
  INSTANCE Gather WITH
    pending <- {i \in Slots : pc[i] \notin {"sent", "exited"} \/ i \in ToSet(ch)},
    Answers <- Offers

\* Every answer is taken exactly once, and all of them before dedup.
ImplementsGather == Gathering!GatherSpec

\* A host that one source gives as the website of two companies.
HostsMany(h) ==
  \E p \in Sources : \E s1, s2 \in Offers[p] :
    \E l1 \in ToSet(s1), l2 \in ToSet(s2) :
      /\ l1.Website # None /\ l2.Website # None
      /\ l1.Website.host = h /\ l2.Website.host = h
      /\ l1.BusinessName # None /\ l2.BusinessName # None
      /\ l1.BusinessName.word # l2.BusinessName.word

\* What worker.go:131-132 says of such hosts: they are no dedup key.
SharedHostIsNoKey ==
  \A i \in DOMAIN all :
    all[i].Website # None /\ all[i].Website.host \in Hosts /\ HostsMany(all[i].Website.host)
      => dedupKey(all[i]) # <<"domain", all[i].Website.host>>
=============================================================================
