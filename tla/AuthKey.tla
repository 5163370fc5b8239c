------------------------------ MODULE AuthKey -------------------------------
(***************************************************************************)
(* The middleware in front of every endpoint (internal/middleware/user.go):*)
(* a user id comes from the X-User-Id header of the backend's proxy, or    *)
(* from a bearer token whose signature is checked with a key that the      *)
(* process loads once, in the first request that needs it, by an http.Get  *)
(* that has no timeout.                                                    *)
(***************************************************************************)
EXTENDS Integers

CONSTANTS
  Requests,   \* the requests that may be under way at a time
  MaxKeys,    \* bound: the keys that the identity service signs with, one after the other
  MaxFaults   \* bound: faults in one behaviour

ASSUME AuthAssumption == MaxKeys \in Nat \ {0} /\ MaxFaults \in Nat

VARIABLES
  jwks,      \* the key that the published document lists first
  once,      \* ecKeyOnce
  ecPubKey,  \* the key that was loaded, or NoKey
  caller,    \* each request, on its way through the middleware
  faults     \* faults so far

authVars == <<jwks, once, ecPubKey, caller, faults>>

NoKey == 0

\* "signer" is the key that signed a bearer token; NoKey stands for every token
\* that no key makes valid: forged, expired, or without the right algorithm.
CallerRecord == [by     : {"header", "bearer", "nobody"},
                 signer : 0..MaxKeys,
                 pc     : {"new", "once", "load", "hung", "verify",
                           "passed", "denied", "lost"}]

New == [by |-> "nobody", signer |-> NoKey, pc |-> "new"]

AuthTypeOK ==
  /\ jwks \in 1..MaxKeys
  /\ once \in {"new", "loading", "done"}
  /\ ecPubKey \in 0..MaxKeys
  /\ caller \in [Requests -> CallerRecord]
  /\ faults \in Nat

AuthInit ==
  /\ jwks = 1
  /\ once = "new"
  /\ ecPubKey = NoKey
  /\ caller = [r \in Requests |-> New]
  /\ faults = 0

Fault == faults < MaxFaults /\ faults' = faults + 1

Goto(r, pc) == caller' = [caller EXCEPT ![r].pc = pc]

-----------------------------------------------------------------------------

\* Mutant of Extract: the key is fetched before the header is looked at.
ExtractEagerly(by) == "once"

\* extractUserID: the header needs no key.
Extract(by) == CASE by = "header" -> "passed" [] by = "bearer" -> "once" [] by = "nobody" -> "denied"

Arrive(r, by, signer) ==
  /\ caller[r].pc = "new"
  /\ signer <= jwks /\ (by # "bearer" => signer = NoKey)
  /\ caller' = [caller EXCEPT ![r] = [by |-> by, signer |-> signer, pc |-> Extract(by)]]
  /\ UNCHANGED <<jwks, once, ecPubKey, faults>>

\* ecKeyOnce.Do: the first one in loads,
EnterOnce(r) ==
  /\ caller[r].pc = "once" /\ once = "new"
  /\ once' = "loading"
  /\ Goto(r, "load")
  /\ UNCHANGED <<jwks, ecPubKey, faults>>

\* Mutant of PassOnce: a flag set before the loading instead of a sync.Once.
PassOnceEarly(r) ==
  /\ caller[r].pc = "once" /\ once # "new"
  /\ Goto(r, "verify")
  /\ UNCHANGED <<jwks, once, ecPubKey, faults>>

\* and all others wait until it has.
PassOnce(r) ==
  /\ caller[r].pc = "once" /\ once = "done"
  /\ Goto(r, "verify")
  /\ UNCHANGED <<jwks, once, ecPubKey, faults>>

\* loadECKey: the first usable key of the document. Every error is no key, and
\* that counts as loaded.
Load(r) ==
  /\ caller[r].pc = "load"
  /\ \/ ecPubKey' = jwks /\ UNCHANGED faults
     \/ ecPubKey' = NoKey /\ Fault
  /\ once' = "done"
  /\ Goto(r, "verify")
  /\ UNCHANGED jwks

\* The identity service never answers.
Hang(r) ==
  /\ caller[r].pc = "load" /\ Fault
  /\ Goto(r, "hung")
  /\ UNCHANGED <<jwks, once, ecPubKey>>

Accepts(signer) == ecPubKey # NoKey /\ signer = ecPubKey

Verify(r) ==
  /\ caller[r].pc = "verify"
  /\ Goto(r, IF Accepts(caller[r].signer) THEN "passed" ELSE "denied")
  /\ UNCHANGED <<jwks, once, ecPubKey, faults>>

\* The identity service signs with a new key, and lists it first.
Rotate ==
  /\ jwks < MaxKeys
  /\ jwks' = jwks + 1
  /\ UNCHANGED <<once, ecPubKey, caller, faults>>

\* A new process: what was under way is lost.
AuthRestarted ==
  /\ once' = "new"
  /\ ecPubKey' = NoKey
  /\ caller' = [r \in Requests |-> IF caller[r].pc \in {"new", "denied"} THEN New
                                   ELSE [New EXCEPT !.pc = "lost"]]
  /\ UNCHANGED jwks

\* Room for another request.
Leave(r) ==
  /\ caller[r].pc \in {"denied", "lost"}
  /\ caller' = [caller EXCEPT ![r] = New]
  /\ UNCHANGED <<jwks, once, ecPubKey, faults>>

AuthStep(r) == EnterOnce(r) \/ PassOnce(r) \/ Load(r) \/ Verify(r)

Hung == \E r \in Requests : caller[r].pc = "hung"

-----------------------------------------------------------------------------
(* Properties *)

\* However many requests race for the loading of the key, and whenever it is
\* rotated, all bearer tokens that one process judges are judged by one key (user.go:24, :80):
\* no token is refused here that it accepts there. After a load that failed, it
\* accepts none; after a rotation, none of the new key.
VerdictStands ==
  \A r \in Requests :
    caller[r].by = "bearer" /\ caller[r].pc \in {"passed", "denied"}
      => (caller[r].pc = "passed" <=> Accepts(caller[r].signer))
=============================================================================
