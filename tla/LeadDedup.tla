----------------------------- MODULE LeadDedup -----------------------------
(***************************************************************************)
(* How the campaign worker decides that two leads are the same company     *)
(* (internal/campaign/worker.go, dedup and dedupKey), as pure operators.   *)
(*                                                                         *)
(* A name or an email is a word in one of several spellings, which differ  *)
(* in the case and surrounding space that the code removes (a space at the *)
(* end of an email it keeps: such an email is another word).               *)
(***************************************************************************)
EXTENDS SequencesExt, FiniteSets

CONSTANTS
  Sources,      \* provider ids, as NormalizedLead.Source
  Words,        \* names, emails and contacts, up to spelling
  Spellings,    \* the ways to write a word
  Hosts,        \* hostnames, without a leading "www."
  aggregatorDomains, \* those that host many companies, by the code's list
  None          \* an empty field

ASSUME DedupAssumption == aggregatorDomains \subseteq Hosts /\ None \notin Words \cup Hosts

Spelled == [word : Words, spelling : Spellings] \cup {None}

\* A URL: its Hostname(), None when it does not parse or has no scheme, and
\* whether the host begins with "www.".
URL == [host : Hosts \cup {None}, www : BOOLEAN] \cup {None}

NormalizedLead == [Source : Sources, BusinessName : Spelled, Website : URL,
                   Email : Spelled, ContactName : Words \cup {None}]

\* The website of a lead names its company.
HasOwnDomain(l) ==
  /\ l.Website # None
  /\ l.Website.host # None
  /\ l.Website.host \notin aggregatorDomains

\* The key of the last resort is not random, whatever its name says: it is the
\* source and the contact.
dedupKey(l) ==
  IF l.Email # None             THEN <<"email", l.Email.word>>
  ELSE IF HasOwnDomain(l)       THEN <<"domain", l.Website.host>>
  ELSE IF l.BusinessName # None THEN <<"name", l.BusinessName.word>>
  ELSE <<"rand", l.Source, l.ContactName>>

\* Mutant of dedup: a later lead replaces the earlier one of its key.
dedupLast(leads) ==
  LET later(i) == \E j \in DOMAIN leads : j > i /\ dedupKey(leads[j]) = dedupKey(leads[i])
      kept == SetToSortSeq({i \in DOMAIN leads : ~later(i)}, <)
  IN  [k \in DOMAIN kept |-> leads[kept[k]]]

\* The loop over the leads: "out" is the result so far, "seen" its keys.
dedup(leads) ==
  LET step(acc, l) ==
        IF dedupKey(l) \in acc.seen THEN acc
        ELSE [seen |-> acc.seen \cup {dedupKey(l)}, out |-> Append(acc.out, l)]
  IN  FoldLeft(step, [seen |-> {}, out |-> <<>>], leads).out

-----------------------------------------------------------------------------
(* Reference definitions *)

Keys(leads) == {dedupKey(leads[i]) : i \in DOMAIN leads}

\* The leads that no earlier one shares its key with, in their order.
FirstOfEachKey(leads) ==
  LET first    == {i \in DOMAIN leads :
                     \A j \in 1..(i - 1) : dedupKey(leads[j]) # dedupKey(leads[i])}
      place(i) == Cardinality({j \in first : j <= i})
  IN  [k \in 1..Cardinality(first) |-> leads[CHOOSE i \in first : place(i) = k]]
=============================================================================
