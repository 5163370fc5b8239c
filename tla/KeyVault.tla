------------------------------ MODULE KeyVault ------------------------------
(***************************************************************************)
(* The provider keys of a user (internal/vault): requests to save, test and*)
(* remove the key of one provider, behind the middleware of AuthKey, and   *)
(* the jobs that read it. Handlers read, ask the provider and write, with  *)
(* no transaction; a key is stored encrypted with the secret of the        *)
(* process that saved it.                                                  *)
(*                                                                         *)
(* Every statement names one user and one provider, so one row is enough.  *)
(***************************************************************************)
EXTENDS AuthKey

CONSTANTS
  ProviderKeys,  \* the keys that users bring
  Accepted,      \* those that the provider's TestKey says yes to, if it can be asked
  Secrets,       \* the values of VAULT_ENCRYPTION_KEY that are 64 hex digits
  Garbage,       \* what a ciphertext would be under another secret
  None           \* no row, no key

\* A value that is too short makes hexKey[:64] panic. (One that is long enough
\* and not hex encrypts nothing either, and decrypts as little as a wrong one.)
Environments == Secrets \cup {"short"}

ASSUME VaultAssumption ==
  /\ None \notin ProviderKeys \cup {Garbage}
  /\ Garbage \notin ProviderKeys
  /\ "short" \notin Secrets /\ None \notin Secrets
  /\ Accepted \subseteq ProviderKeys

VARIABLES
  secret,   \* VAULT_ENCRYPTION_KEY of the running process
  row,      \* lead_provider_keys: the row of this user and provider, or None
  request,  \* each request, in its handler
  raced     \* ghost: a save overtook a test that had read another key

vaultVars == <<authVars, secret, row, request, raced>>

Statuses == {"active", "unverified", "invalid"}
Row == [key : ProviderKeys, secret : Secrets, status : Statuses]

\* "adrift": the handler has ended, and its statement may still take effect.
RequestRecord == [op     : {"none", "save", "test", "remove"},
                  key    : ProviderKeys \cup {None},
                  status : Statuses,
                  secret : Environments \cup {None},
                  pc     : {"idle", "read", "ask", "write", "adrift"}]

Idle == [op |-> "none", key |-> None, status |-> "active", secret |-> None, pc |-> "idle"]

\* Garbage is no key that a request or a job could ask a provider with.
TypeOK ==
  /\ AuthTypeOK
  /\ secret \in Environments
  /\ row \in Row \cup {None}
  /\ request \in [Requests -> RequestRecord]
  /\ raced \in BOOLEAN

VaultInit ==
  /\ AuthInit
  /\ secret \in Environments
  /\ row = None
  /\ request = [r \in Requests |-> Idle]
  /\ raced = FALSE

-----------------------------------------------------------------------------
(* The handlers *)

Begin(r, op, key) ==
  /\ caller[r].pc = "passed" /\ request[r].pc = "idle"
  /\ op = "save" <=> key # None
  /\ request' = [request EXCEPT ![r] = [Idle EXCEPT
       !.op = op, !.key = key,
       !.pc = CASE op = "save" -> "ask" [] op = "test" -> "read" [] op = "remove" -> "write"]]
  /\ UNCHANGED <<authVars, secret, row, raced>>

\* The request is answered, and makes room for another one.
End(r) ==
  /\ request' = [request EXCEPT ![r] = Idle]
  /\ caller' = [caller EXCEPT ![r] = New]

\* Mutant of Decrypt: a cipher without authentication.
DecryptAny(cipher, with) ==
  IF cipher.secret = with THEN cipher.key ELSE Garbage

\* GCM opens nothing that was sealed with another secret.
Decrypt(cipher, with) ==
  IF cipher.secret = with THEN cipher.key ELSE None

\* test: GetDecryptedKey. No row, an error of the SELECT or of Decrypt, and a
\* panic, which the Recoverer catches, all end the request.
ReadKey(r) ==
  /\ request[r].pc = "read"
  /\ \/ /\ row # None /\ Decrypt(row, secret) # None
        /\ request' = [request EXCEPT ![r].key = Decrypt(row, secret), ![r].pc = "ask"]
        /\ UNCHANGED <<caller, faults>>
     \/ (row # None => Decrypt(row, secret) = None) /\ End(r) /\ UNCHANGED faults
     \/ row # None /\ Fault /\ End(r)
  /\ UNCHANGED <<jwks, once, ecPubKey, secret, row, raced>>

\* save and test: the provider's TestKey. Any failure is a no.
Answer(op, ok) == CASE ok -> "active"
                    [] ~ok /\ op = "save" -> "unverified"
                    [] ~ok /\ op = "test" -> "invalid"

\* A save encrypts the key next, and ends if it cannot.
Ask(r) ==
  /\ request[r].pc = "ask"
  /\ \E ok \in BOOLEAN :
       /\ IF ok = (request[r].key \in Accepted) THEN UNCHANGED faults ELSE ~ok /\ Fault
       /\ IF request[r].op = "save" /\ secret \notin Secrets
          THEN End(r)
          ELSE /\ request' = [request EXCEPT ![r].status = Answer(request[r].op, ok),
                                             ![r].secret = secret, ![r].pc = "write"]
               /\ UNCHANGED caller
  /\ UNCHANGED <<jwks, once, ecPubKey, secret, row, raced>>

SavedRow(q) == [key |-> q.key, secret |-> q.secret, status |-> q.status]

\* Mutants of Written: an upsert that leaves the status as it is; an UPDATE that
\* became an upsert.
UpsertKeepsStatus(q) ==
  CASE q.op = "save"   -> IF row = None THEN SavedRow(q)
                          ELSE [row EXCEPT !.key = q.key, !.secret = q.secret]
    [] q.op = "test"   -> IF row = None THEN None ELSE [row EXCEPT !.status = q.status]
    [] q.op = "remove" -> None
UpdateInserts(q) ==
  CASE q.op = "save"   -> SavedRow(q)
    [] q.op = "test"   -> IF row = None THEN SavedRow(q)
                          ELSE [row EXCEPT !.status = q.status]
    [] q.op = "remove" -> None

\* The row after the statement of a request: the upsert of SaveWithStatus, the
\* UPDATE of UpdateStatus, which creates no row, or the DELETE.
Written(q) ==
  CASE q.op = "save"   -> SavedRow(q)
    [] q.op = "test"   -> IF row = None THEN None ELSE [row EXCEPT !.status = q.status]
    [] q.op = "remove" -> None

\* The tests that have read another key than the one that is saved now.
Overtakes(r) ==
  \E t \in Requests : /\ request[t].op = "test"
                      /\ request[t].pc \in {"ask", "write", "adrift"}
                      /\ request[t].key # request[r].key

Execute(r) ==
  /\ row' = Written(request[r])
  /\ raced' = IF request[r].op = "save" THEN Overtakes(r) ELSE raced

\* The error of a save or a DELETE is a 500; that of the UPDATE is dropped.
Write(r) ==
  /\ request[r].pc = "write"
  /\ \/ Execute(r) /\ End(r) /\ UNCHANGED faults
     \/ /\ Fault
        /\ request' = [request EXCEPT ![r].pc = "adrift"]
        /\ caller' = [caller EXCEPT ![r] = New]
        /\ UNCHANGED <<row, raced>>
  /\ UNCHANGED <<jwks, once, ecPubKey, secret>>

\* A statement whose connection or context ended takes effect late, or never.
Adrift(r) ==
  /\ request[r].pc = "adrift"
  /\ Execute(r) \/ UNCHANGED <<row, raced>>
  /\ request' = [request EXCEPT ![r] = Idle]
  /\ UNCHANGED <<authVars, secret>>

-----------------------------------------------------------------------------
(* Jobs and restarts *)

\* A new process. Of the statements that were sent, each may take effect.
Restarted(with) ==
  /\ AuthRestarted
  /\ secret' = with
  /\ request' = [r \in Requests |->
       IF request[r].pc \in {"write", "adrift"} THEN [request[r] EXCEPT !.pc = "adrift"] ELSE Idle]
  /\ UNCHANGED <<row, raced>>

Restart(with) == Fault /\ Restarted(with)

\* GetDecryptedKey in a job: no row and every error mean no key, and the job goes
\* on, so that only this is a step: in the goroutine of a provider nothing
\* recovers the panic of a short secret, and the process dies.
WorkerRead ==
  /\ row # None /\ secret = "short"
  /\ Restarted(secret)
  /\ UNCHANGED faults

-----------------------------------------------------------------------------

VaultStep(r) ==
  \/ \E op \in {"save", "test", "remove"}, key \in ProviderKeys \cup {None} : Begin(r, op, key)
  \/ ReadKey(r)
  \/ Ask(r)
  \/ Write(r)

InMiddleware(r) == AuthStep(r) /\ UNCHANGED <<secret, row, request, raced>>

Environment ==
  /\ \/ Rotate
     \/ \E r \in Requests :
          \/ Hang(r)
          \/ Leave(r)
          \/ /\ request[r].pc = "idle"
             /\ \E by \in {"header", "bearer", "nobody"}, signer \in 0..MaxKeys : Arrive(r, by, signer)
  /\ UNCHANGED <<secret, row, request, raced>>

VaultNext ==
  \/ \E r \in Requests : InMiddleware(r) \/ VaultStep(r) \/ Adrift(r)
  \/ Environment
  \/ WorkerRead
  \/ \E with \in Environments : Restart(with)

VaultSpec == VaultInit /\ [][VaultNext]_vaultVars

\* A handler goes on: each of its calls ends at the latest with its context, but
\* for the http.Get of loadECKey, which may hang.
VaultFairSpec == VaultSpec /\ \A r \in Requests : WF_vaultVars(InMiddleware(r) \/ VaultStep(r))

-----------------------------------------------------------------------------
(* Properties *)

\* A key is called active only if the provider accepts it, and refused only if it
\* does not or could not be asked, whatever requests overlap, statements arrive
\* late or processes die, unless a save came between the read and the write of a
\* test (handler.go:102-112).
StatusIsOfItsKey ==
  row # None /\ ~raced =>
    /\ row.status = "active" => row.key \in Accepted
    /\ row.status # "active" => row.key \notin Accepted \/ faults > 0

\* A removed key stays removed until a save that is under way writes: a test that
\* read it before, or that arrives late, does not bring it back (handler.go:112,
\* service.go:77).
RemovedStaysRemoved ==
  [][row = None /\ (\A r \in Requests : request[r].op # "save") => row' = None]_vaultVars

\* Every request is answered, even those that come while a load of the key hangs
\* (user.go:45): only bearer tokens have to wait for it.
Answered ==
  \A r \in Requests :
    caller[r].pc # "new" ~>
      \/ caller[r].pc \in {"new", "denied", "lost"}
      \/ Hung /\ caller[r].by = "bearer"
=============================================================================
