--------------------------- MODULE KeyVaultProofs ---------------------------
(***************************************************************************)
(* The safety of KeyVault and of the middleware in front of it, proved for *)
(* every number of requests, signing keys, provider keys and secrets, and  *)
(* for any number of faults.                                               *)
(***************************************************************************)
EXTENDS KeyVault, TLAPS

-----------------------------------------------------------------------------
(* The inductive invariant *)

\* At most one request is inside ecKeyOnce.Do, and none was judged before it left.
OneLoader ==
  /\ \A r \in Requests : caller[r].pc \in {"load", "hung"} =>
       /\ once = "loading"
       /\ \A q \in Requests \ {r} : caller[q].pc \notin {"load", "hung"}
  /\ \A r \in Requests :
       caller[r].pc = "verify" \/ (caller[r].by = "bearer" /\ caller[r].pc \in {"passed", "denied"})
         => once = "done"

AuthSafe == AuthTypeOK /\ OneLoader /\ VerdictStands

\* What a handler holds when it asks the provider and when it writes.
Holds(q) ==
  /\ q.pc = "read" => q.op = "test"
  /\ q.pc \in {"ask", "write", "adrift"} => q.op # "none"
  /\ q.pc = "ask" => q.op # "remove"
  /\ q.pc \in {"ask", "write", "adrift"} /\ q.op # "remove" => q.key \in ProviderKeys
  /\ q.pc \in {"write", "adrift"} /\ q.op = "save" => q.secret \in Secrets

\* A status says what the provider says of a key, or that it could not be asked,
\* which takes a fault.
Fits(status, key, n) ==
  /\ status = "active" => key \in Accepted
  /\ status # "active" => key \notin Accepted \/ n > 0

VaultTypeOK ==
  /\ secret \in Environments
  /\ row \in Row \cup {None}
  /\ request \in [Requests -> RequestRecord]
  /\ raced \in BOOLEAN
  /\ \A r \in Requests : Holds(request[r])

\* A status that will be written fits the key it will be written for: the one of
\* the save, or the one that is stored, which is the one of the test unless it raced.
StatusFits ==
  /\ \A r \in Requests : request[r].pc \in {"write", "adrift"} /\ request[r].op # "remove"
       => Fits(request[r].status, request[r].key, faults)
  /\ row # None /\ ~raced =>
       /\ Fits(row.status, row.key, faults)
       /\ \A r \in Requests : request[r].op = "test" /\ request[r].pc \in {"ask", "write", "adrift"}
            => request[r].key = row.key

-----------------------------------------------------------------------------
(* The middleware *)

LEMMA AuthInitial == AuthInit => AuthSafe
  BY AuthAssumption DEF AuthInit, AuthSafe, AuthTypeOK, OneLoader, VerdictStands, New, NoKey, CallerRecord

\* One request moves on, within the middleware.
LEMMA CallerMoves ==
  ASSUME AuthSafe, NEW r \in Requests, NEW x \in CallerRecord,
         caller' = [caller EXCEPT ![r] = x]
  PROVE  /\ caller' \in [Requests -> CallerRecord]
         /\ caller'[r] = x
         /\ \A q \in Requests \ {r} : caller'[q] = caller[q]
  BY DEF AuthSafe, AuthTypeOK

LEMMA MiddlewareSafe ==
  ASSUME AuthSafe, NEW r \in Requests,
         AuthStep(r) \/ Hang(r) \/ Leave(r)
  PROVE  AuthSafe'
<1> USE DEF AuthSafe
<1>1. /\ jwks \in 1..MaxKeys /\ ecPubKey \in 0..MaxKeys /\ faults \in Nat
      /\ caller[r] \in CallerRecord /\ MaxKeys \in Nat
      /\ once \in {"new", "loading", "done"}
  BY AuthAssumption DEF AuthTypeOK
<1>2. ASSUME NEW pc \in {"load", "hung", "verify", "passed", "denied"}, Goto(r, pc)
      PROVE  /\ caller' \in [Requests -> CallerRecord]
             /\ caller'[r].pc = pc /\ caller'[r].by = caller[r].by
             /\ caller'[r].signer = caller[r].signer
             /\ \A q \in Requests \ {r} : caller'[q] = caller[q]
  <2>1. [caller[r] EXCEPT !.pc = pc] \in CallerRecord
    BY <1>1 DEF CallerRecord
  <2>2. caller' = [caller EXCEPT ![r] = [caller[r] EXCEPT !.pc = pc]]
    BY <1>2 DEF Goto
  <2> QED
    BY <1>1, <2>1, <2>2, CallerMoves DEF CallerRecord
<1>3. CASE EnterOnce(r)
  <2>1. /\ once = "new" /\ once' = "loading" /\ Goto(r, "load")
        /\ UNCHANGED <<jwks, ecPubKey, faults>>
    BY <1>3 DEF EnterOnce
  <2>2. AuthTypeOK' /\ OneLoader'
    BY <1>1, <1>2, <2>1 DEF AuthTypeOK, OneLoader
  <2>3. VerdictStands'
    BY <1>2, <2>1 DEF VerdictStands, Accepts
  <2> QED
    BY <2>2, <2>3
<1>4. CASE PassOnce(r)
  <2>1. /\ once = "done" /\ once' = once /\ Goto(r, "verify")
        /\ UNCHANGED <<jwks, ecPubKey, faults>>
    BY <1>4 DEF PassOnce
  <2>2. AuthTypeOK' /\ OneLoader'
    BY <1>1, <1>2, <2>1 DEF AuthTypeOK, OneLoader
  <2>3. VerdictStands'
    BY <1>2, <2>1 DEF VerdictStands, Accepts
  <2> QED
    BY <2>2, <2>3
\* No token has been judged before the key changes.
<1>5. CASE Load(r)
  <2>1. /\ caller[r].pc = "load" /\ once' = "done" /\ Goto(r, "verify") /\ jwks' = jwks
        /\ ecPubKey' \in {jwks, NoKey} /\ faults' \in Nat
    BY <1>1, <1>5 DEF Load, Fault
  <2>2. once = "loading"
    BY <2>1 DEF OneLoader
  <2>3. AuthTypeOK' /\ OneLoader'
    BY <1>1, <1>2, <2>1 DEF AuthTypeOK, OneLoader, NoKey
  <2>4. \A q \in Requests \ {r} : ~(caller[q].by = "bearer" /\ caller[q].pc \in {"passed", "denied"})
    BY <2>2 DEF OneLoader
  <2>5. VerdictStands'
    BY <1>2, <2>1, <2>4 DEF VerdictStands
  <2> QED
    BY <2>3, <2>5
<1>6. CASE Verify(r)
  <2>1. /\ caller[r].pc = "verify"
        /\ Goto(r, IF Accepts(caller[r].signer) THEN "passed" ELSE "denied")
        /\ UNCHANGED <<jwks, once, ecPubKey, faults>>
    BY <1>6 DEF Verify
  <2>2. /\ caller'[r].pc = IF Accepts(caller[r].signer) THEN "passed" ELSE "denied"
        /\ caller'[r].by = caller[r].by /\ caller'[r].signer = caller[r].signer
        /\ caller' \in [Requests -> CallerRecord]
        /\ \A q \in Requests \ {r} : caller'[q] = caller[q]
    BY <1>2, <2>1
  <2>3. AuthTypeOK' /\ OneLoader'
    BY <1>1, <2>1, <2>2 DEF AuthTypeOK, OneLoader
  <2>4. VerdictStands'
    BY <2>1, <2>2 DEF VerdictStands, Accepts
  <2> QED
    BY <2>3, <2>4
<1>7. CASE Hang(r)
  <2>1. /\ caller[r].pc = "load" /\ Goto(r, "hung") /\ faults' \in Nat
        /\ UNCHANGED <<jwks, once, ecPubKey>>
    BY <1>1, <1>7 DEF Hang, Fault
  <2>2. AuthTypeOK' /\ OneLoader'
    BY <1>1, <1>2, <2>1 DEF AuthTypeOK, OneLoader
  <2>3. VerdictStands'
    BY <1>2, <2>1 DEF VerdictStands, Accepts
  <2> QED
    BY <2>2, <2>3
<1>8. CASE Leave(r)
  <2>1. New \in CallerRecord
    BY <1>1 DEF New, NoKey, CallerRecord
  <2>2. /\ caller' \in [Requests -> CallerRecord] /\ caller'[r] = New
        /\ \A q \in Requests \ {r} : caller'[q] = caller[q]
    BY <1>8, <2>1, CallerMoves DEF Leave
  <2>3. AuthTypeOK' /\ OneLoader' /\ VerdictStands'
    BY <1>1, <1>8, <2>2 DEF Leave, AuthTypeOK, OneLoader, VerdictStands, Accepts, New
  <2> QED
    BY <2>3
<1> QED
  BY <1>3, <1>4, <1>5, <1>6, <1>7, <1>8 DEF AuthStep

LEMMA ArrivalSafe ==
  ASSUME AuthSafe, NEW r \in Requests,
         NEW by \in {"header", "bearer", "nobody"}, NEW signer \in 0..MaxKeys,
         Arrive(r, by, signer)
  PROVE  AuthSafe'
<1> DEFINE x == [by |-> by, signer |-> signer, pc |-> Extract(by)]
<1>1. /\ Extract(by) = IF by = "header" THEN "passed" ELSE IF by = "bearer" THEN "once" ELSE "denied"
      /\ x \in CallerRecord
  BY DEF Extract, CallerRecord
<1>2. /\ caller' \in [Requests -> CallerRecord] /\ caller'[r] = x
      /\ \A q \in Requests \ {r} : caller'[q] = caller[q]
      /\ UNCHANGED <<jwks, once, ecPubKey, faults>>
  BY <1>1, CallerMoves DEF Arrive
<1> HIDE DEF x
<1>3. /\ x.by = "bearer" => x.pc = "once"
      /\ x.pc \in {"passed", "once", "denied"}
  BY <1>1 DEF x
<1> QED
  BY <1>2, <1>3 DEF AuthSafe, AuthTypeOK, OneLoader, VerdictStands, Accepts

\* A request that ends, a rotation, a fault elsewhere, and a restart.
LEMMA OutsideSafe ==
  ASSUME AuthSafe, faults' \in Nat,
         \/ UNCHANGED <<jwks, once, ecPubKey, caller>>
         \/ /\ \E r \in Requests : caller' = [caller EXCEPT ![r] = New]
            /\ UNCHANGED <<jwks, once, ecPubKey>>
         \/ Rotate
         \/ AuthRestarted
  PROVE  AuthSafe'
<1> USE DEF AuthSafe
<1>1. /\ jwks \in 1..MaxKeys /\ MaxKeys \in Nat
  BY AuthAssumption DEF AuthTypeOK
<1>2. New \in CallerRecord /\ New.by = "nobody" /\ New.pc = "new"
  BY <1>1 DEF New, NoKey, CallerRecord
<1>3. CASE UNCHANGED <<jwks, once, ecPubKey, caller>>
  BY <1>3 DEF AuthTypeOK, OneLoader, VerdictStands, Accepts
<1>4. ASSUME NEW r \in Requests, caller' = [caller EXCEPT ![r] = New],
             UNCHANGED <<jwks, once, ecPubKey>>
      PROVE  AuthSafe'
  <2>1. /\ caller' \in [Requests -> CallerRecord] /\ caller'[r] = New
        /\ \A q \in Requests \ {r} : caller'[q] = caller[q]
    BY <1>2, <1>4, CallerMoves
  <2> QED
    BY <1>2, <1>4, <2>1 DEF AuthTypeOK, OneLoader, VerdictStands, Accepts
<1>5. CASE Rotate
  BY <1>1, <1>5 DEF Rotate, AuthTypeOK, OneLoader, VerdictStands, Accepts
<1>6. CASE AuthRestarted
  <2>1. /\ jwks' = jwks /\ once' = "new" /\ ecPubKey' = NoKey
        /\ caller' = [r \in Requests |-> IF caller[r].pc \in {"new", "denied"} THEN New
                                         ELSE [New EXCEPT !.pc = "lost"]]
    BY <1>6 DEF AuthRestarted
  <2>2. /\ [New EXCEPT !.pc = "lost"] \in CallerRecord
        /\ [New EXCEPT !.pc = "lost"].pc = "lost"
        /\ [New EXCEPT !.pc = "lost"].by = "nobody"
    BY <1>2 DEF New, NoKey, CallerRecord
  <2>3. /\ caller' \in [Requests -> CallerRecord]
        /\ \A r \in Requests : caller'[r].pc \in {"new", "lost"} /\ caller'[r].by = "nobody"
    BY <1>2, <2>1, <2>2
  <2> QED
    BY <1>1, <2>1, <2>3 DEF AuthTypeOK, OneLoader, VerdictStands, NoKey
<1> QED
  BY <1>3, <1>4, <1>5, <1>6

-----------------------------------------------------------------------------
(* The handlers *)

VaultInv == AuthSafe /\ VaultTypeOK /\ StatusFits

LEMMA IdleRequest ==
  /\ Idle \in RequestRecord /\ Idle.pc = "idle" /\ Idle.op = "none" /\ Holds(Idle)
  BY DEF Idle, RequestRecord, Statuses, Holds

LEMMA VaultInitial == VaultInit => VaultInv
  BY AuthInitial, IdleRequest DEF VaultInit, VaultInv, VaultTypeOK, StatusFits, Environments

\* One request moves on.
LEMMA RequestMoves ==
  ASSUME VaultTypeOK, NEW r \in Requests, NEW q \in RequestRecord, Holds(q),
         request' = [request EXCEPT ![r] = q]
  PROVE  /\ request' \in [Requests -> RequestRecord]
         /\ request'[r] = q
         /\ \A t \in Requests \ {r} : request'[t] = request[t]
         /\ \A t \in Requests : Holds(request'[t])
  BY DEF VaultTypeOK

\* Faults that are counted stay counted.
LEMMA FitsStays ==
  ASSUME NEW status, NEW key, NEW n \in Nat, NEW m \in {n, n + 1}, Fits(status, key, n)
  PROVE  Fits(status, key, m)
  BY DEF Fits

\* A step that leaves the row alone and lets r go on, with a status that fits.
LEMMA RowStays ==
  ASSUME VaultInv, NEW r \in Requests, NEW q \in RequestRecord, Holds(q),
         request' = [request EXCEPT ![r] = q],
         faults' = faults \/ faults' = faults + 1,
         UNCHANGED <<secret, row, raced>>,
         q.pc \in {"write", "adrift"} /\ q.op # "remove" => Fits(q.status, q.key, faults'),
         q.op = "test" /\ q.pc \in {"ask", "write", "adrift"} /\ row # None /\ ~raced
           => q.key = row.key
  PROVE  VaultTypeOK' /\ StatusFits'
<1>1. /\ request' \in [Requests -> RequestRecord] /\ request'[r] = q
      /\ \A t \in Requests \ {r} : request'[t] = request[t]
      /\ \A t \in Requests : Holds(request'[t])
  BY RequestMoves DEF VaultInv
<1>2. faults \in Nat
  BY DEF VaultInv, AuthSafe, AuthTypeOK
<1>3. VaultTypeOK'
  BY <1>1 DEF VaultInv, VaultTypeOK
<1>4. ASSUME NEW t \in Requests, request'[t].pc \in {"write", "adrift"}, request'[t].op # "remove"
      PROVE  Fits(request'[t].status, request'[t].key, faults')
  <2>1. CASE t = r
    BY <1>1, <1>4, <2>1
  <2>2. CASE t # r
    <3>1. Fits(request[t].status, request[t].key, faults)
      BY <1>1, <1>4, <2>2 DEF VaultInv, StatusFits
    <3> QED
      BY <1>1, <1>2, <2>2, <3>1, FitsStays
  <2> QED
    BY <2>1, <2>2
<1>5. ASSUME row # None, ~raced
      PROVE  Fits(row.status, row.key, faults')
  BY <1>2, <1>5, FitsStays DEF VaultInv, StatusFits
<1>6. ASSUME row # None, ~raced, NEW t \in Requests, request'[t].op = "test",
             request'[t].pc \in {"ask", "write", "adrift"}
      PROVE  request'[t].key = row.key
  BY <1>1, <1>6 DEF VaultInv, StatusFits
<1> QED
  BY <1>3, <1>4, <1>5, <1>6 DEF StatusFits

\* The statement of r takes effect, now or late, and r is idle.
LEMMA RowWritten ==
  ASSUME VaultInv, NEW r \in Requests, request[r].pc \in {"write", "adrift"}, Execute(r),
         request' = [request EXCEPT ![r] = Idle],
         UNCHANGED <<secret, faults>>
  PROVE  VaultTypeOK' /\ StatusFits'
<1> DEFINE q == request[r]
<1>1. /\ request' \in [Requests -> RequestRecord] /\ request'[r] = Idle
      /\ \A t \in Requests \ {r} : request'[t] = request[t]
      /\ \A t \in Requests : Holds(request'[t])
  BY IdleRequest, RequestMoves DEF VaultInv
<1>2. /\ q \in RequestRecord /\ Holds(q) /\ q.op \in {"save", "test", "remove"}
      /\ q.op # "remove" => q.key \in ProviderKeys /\ Fits(q.status, q.key, faults)
      /\ q.status \in Statuses
      /\ q.op = "save" => q.secret \in Secrets
      /\ row \in Row \cup {None} /\ raced \in BOOLEAN
  BY DEF VaultInv, VaultTypeOK, StatusFits, Holds, RequestRecord
<1>3. \A t \in Requests : request'[t].pc \in {"write", "adrift"} /\ request'[t].op # "remove"
        => Fits(request'[t].status, request'[t].key, faults')
  BY <1>1, IdleRequest DEF VaultInv, StatusFits, Fits
<1>4. raced' \in BOOLEAN
  BY <1>2 DEF Execute, Overtakes
<1>5. CASE q.op = "save"
  <2>1. row' = SavedRow(q) /\ raced' = Overtakes(r)
    BY <1>5 DEF Execute, Written
  <2>2. row' \in Row /\ row'.key = q.key /\ row'.status = q.status
    BY <1>2, <1>5, <2>1 DEF SavedRow, Row
  <2>3. ASSUME ~raced', NEW t \in Requests, request'[t].op = "test",
               request'[t].pc \in {"ask", "write", "adrift"}
        PROVE  request'[t].key = row'.key
    BY <1>1, <2>1, <2>2, <2>3, IdleRequest DEF Overtakes
  <2> QED
    BY <1>1, <1>2, <1>3, <1>4, <1>5, <2>2, <2>3 DEF VaultInv, VaultTypeOK, StatusFits, Fits
<1>6. CASE q.op = "test"
  <2>1. /\ row' = IF row = None THEN None ELSE [row EXCEPT !.status = q.status]
        /\ raced' = raced
    BY <1>6 DEF Execute, Written
  <2>2. CASE row = None
    <3>1. row' = None
      BY <2>1, <2>2
    <3> QED
      BY <1>1, <1>2, <1>3, <1>4, <3>1 DEF VaultInv, VaultTypeOK, StatusFits
  <2>3. CASE row # None
    <3>1. row' \in Row /\ row'.key = row.key /\ row'.status = q.status
      BY <1>2, <2>1, <2>3 DEF Row
    <3>2. ASSUME ~raced
          PROVE  Fits(row'.status, row'.key, faults')
      <4>1. q.key = row.key
        BY <1>6, <2>3, <3>2 DEF VaultInv, StatusFits
      <4> QED
        BY <1>2, <1>6, <3>1, <4>1 DEF Fits
    <3>3. ASSUME ~raced, NEW t \in Requests, request'[t].op = "test",
                 request'[t].pc \in {"ask", "write", "adrift"}
          PROVE  request'[t].key = row'.key
      BY <1>1, <2>3, <3>1, <3>3, IdleRequest DEF VaultInv, StatusFits
    <3> QED
      BY <1>1, <1>2, <1>3, <1>4, <2>1, <3>1, <3>2, <3>3 DEF VaultInv, VaultTypeOK, StatusFits
  <2> QED
    BY <2>2, <2>3
<1>7. CASE q.op = "remove"
  <2>1. row' = None
    BY <1>7 DEF Execute, Written
  <2> QED
    BY <1>1, <1>2, <1>3, <1>4, <2>1 DEF VaultInv, VaultTypeOK, StatusFits
<1> QED
  BY <1>2, <1>5, <1>6, <1>7

LEMMA HandlerSafe ==
  ASSUME VaultInv, NEW r \in Requests, VaultStep(r)
  PROVE  VaultInv'
<1>1. /\ request[r] \in RequestRecord /\ Holds(request[r]) /\ faults \in Nat
      /\ secret \in Environments /\ row \in Row \cup {None}
  BY DEF VaultInv, VaultTypeOK, AuthSafe, AuthTypeOK
\* The middleware is as before, or has room for another request.
<1>2. ASSUME faults' = faults \/ Fault, UNCHANGED <<jwks, once, ecPubKey>>,
             caller' = caller \/ caller' = [caller EXCEPT ![r] = New]
      PROVE  AuthSafe' /\ (faults' = faults \/ faults' = faults + 1)
  <2>1. faults' = faults \/ faults' = faults + 1
    BY <1>2 DEF Fault
  <2> QED
    BY <1>1, <1>2, <2>1, OutsideSafe DEF VaultInv
<1>3. ASSUME End(r), UNCHANGED <<secret, row, raced>>, faults' = faults \/ faults' = faults + 1
      PROVE  VaultTypeOK' /\ StatusFits'
  BY <1>3, IdleRequest, RowStays DEF End
<1>4. ASSUME NEW op \in {"save", "test", "remove"}, NEW key \in ProviderKeys \cup {None},
             Begin(r, op, key)
      PROVE  VaultInv'
  <2> DEFINE pc == CASE op = "save" -> "ask" [] op = "test" -> "read" [] op = "remove" -> "write"
             q == [Idle EXCEPT !.op = op, !.key = key, !.pc = pc]
  <2>1. /\ op = "save" => pc = "ask" /\ key \in ProviderKeys
        /\ op = "test" => pc = "read"
        /\ op = "remove" => pc = "write"
    BY <1>4 DEF Begin
  <2>2. request' = [request EXCEPT ![r] = q] /\ UNCHANGED <<authVars, secret, row, raced>>
    BY <1>4 DEF Begin
  <2> HIDE DEF pc
  <2>3. q \in RequestRecord /\ q.op = op /\ q.key = key /\ q.pc = pc
    BY <2>1 DEF Idle, RequestRecord, Statuses
  <2>4. Holds(q)
    <3> HIDE DEF q
    <3> QED
      BY <2>1, <2>3 DEF Holds
  <2> HIDE DEF q
  <2>5. VaultTypeOK' /\ StatusFits'
    BY <2>1, <2>2, <2>3, <2>4, RowStays DEF authVars
  <2> QED
    BY <1>2, <2>2, <2>5 DEF VaultInv, authVars
<1>5. CASE ReadKey(r)
  <2>1. /\ request[r].pc = "read" /\ UNCHANGED <<jwks, once, ecPubKey, secret, row, raced>>
        /\ faults' = faults \/ Fault
        /\ \/ End(r)
           \/ /\ row # None /\ Decrypt(row, secret) # None /\ caller' = caller
              /\ request' = [request EXCEPT ![r].key = Decrypt(row, secret), ![r].pc = "ask"]
    BY <1>5, Zenon DEF ReadKey
  <2>2. AuthSafe' /\ (faults' = faults \/ faults' = faults + 1)
    BY <1>2, <2>1 DEF End
  <2>3. CASE End(r)
    BY <1>3, <2>1, <2>2, <2>3 DEF VaultInv
  <2>4. CASE /\ row # None /\ Decrypt(row, secret) # None
             /\ request' = [request EXCEPT ![r].key = Decrypt(row, secret), ![r].pc = "ask"]
    <3> DEFINE q == [request[r] EXCEPT !.key = row.key, !.pc = "ask"]
    <3>1. Decrypt(row, secret) = row.key /\ row.key \in ProviderKeys
      BY <1>1, <2>4 DEF Decrypt, Row
    <3>2. request' = [request EXCEPT ![r] = q]
      BY <1>1, <2>4, <3>1 DEF VaultInv, VaultTypeOK, RequestRecord
    <3>3. q \in RequestRecord /\ q.pc = "ask" /\ q.key = row.key /\ q.op = "test"
      BY <1>1, <2>1, <3>1 DEF RequestRecord, Holds
    <3> HIDE DEF q
    <3>4. Holds(q)
      BY <3>1, <3>3 DEF Holds
    <3> QED
      BY <2>1, <2>2, <3>2, <3>3, <3>4, RowStays DEF VaultInv
  <2> QED
    BY <2>1, <2>3, <2>4
<1>6. CASE Ask(r)
  <2>1. PICK ok \in BOOLEAN :
          /\ IF ok = (request[r].key \in Accepted) THEN UNCHANGED faults ELSE ~ok /\ Fault
          /\ IF request[r].op = "save" /\ secret \notin Secrets
             THEN End(r)
             ELSE /\ request' = [request EXCEPT ![r].status = Answer(request[r].op, ok),
                                                ![r].secret = secret, ![r].pc = "write"]
                  /\ UNCHANGED caller
    BY <1>6 DEF Ask
  <2>2. request[r].pc = "ask" /\ UNCHANGED <<jwks, once, ecPubKey, secret, row, raced>>
    BY <1>6 DEF Ask
  <2>3. AuthSafe' /\ (faults' = faults \/ faults' = faults + 1)
    BY <1>2, <2>1, <2>2 DEF End
  <2>4. CASE request[r].op = "save" /\ secret \notin Secrets
    BY <1>3, <2>1, <2>2, <2>3, <2>4 DEF VaultInv
  <2>5. CASE ~(request[r].op = "save" /\ secret \notin Secrets)
    <3> DEFINE status == Answer(request[r].op, ok)
               q == [request[r] EXCEPT !.status = status, !.secret = secret, !.pc = "write"]
    <3>1. request[r].op \in {"save", "test"} /\ request[r].key \in ProviderKeys
      BY <1>1, <2>2 DEF Holds, RequestRecord
    <3>2. status \in Statuses /\ (status = "active" <=> ok)
      BY <3>1 DEF Answer, Statuses
    <3> HIDE DEF status
    <3>3. request' = [request EXCEPT ![r] = q]
      BY <1>1, <2>1, <2>5 DEF VaultInv, VaultTypeOK, RequestRecord, status
    <3>4. /\ q \in RequestRecord /\ q.pc = "write" /\ q.key = request[r].key
          /\ q.op = request[r].op /\ q.status = status /\ q.secret = secret
      BY <1>1, <3>2 DEF RequestRecord, Environments
    <3> HIDE DEF q
    <3>5. Holds(q)
      BY <2>5, <3>1, <3>4 DEF Holds
    <3>6. Fits(q.status, q.key, faults')
      BY <1>1, <2>1, <3>2, <3>4 DEF Fits, Fault
    <3>7. q.op = "test" /\ row # None /\ ~raced => q.key = row.key
      BY <2>2, <3>4 DEF VaultInv, StatusFits
    <3> QED
      BY <2>2, <2>3, <3>3, <3>4, <3>5, <3>6, <3>7, RowStays DEF VaultInv
  <2> QED
    BY <2>4, <2>5
<1>7. CASE Write(r)
  <2>1. request[r].pc = "write" /\ UNCHANGED <<jwks, once, ecPubKey, secret>>
    BY <1>7 DEF Write
  <2>2. CASE Execute(r) /\ End(r) /\ UNCHANGED faults
    <3>1. VaultTypeOK' /\ StatusFits'
      BY <2>1, <2>2, RowWritten DEF End
    <3> QED
      BY <1>2, <2>1, <2>2, <3>1 DEF End, VaultInv
  <2>3. CASE /\ Fault /\ request' = [request EXCEPT ![r].pc = "adrift"]
             /\ caller' = [caller EXCEPT ![r] = New] /\ UNCHANGED <<row, raced>>
    <3> DEFINE q == [request[r] EXCEPT !.pc = "adrift"]
    <3>1. request' = [request EXCEPT ![r] = q]
      BY <2>3
    <3>2. /\ q \in RequestRecord /\ q.pc = "adrift" /\ q.key = request[r].key
          /\ q.op = request[r].op /\ q.status = request[r].status /\ q.secret = request[r].secret
      BY <1>1 DEF RequestRecord
    <3> HIDE DEF q
    <3>3. Holds(q)
      BY <1>1, <2>1, <3>2 DEF Holds
    <3>4. AuthSafe' /\ (faults' = faults \/ faults' = faults + 1)
      BY <1>2, <2>1, <2>3
    <3>5. q.op # "remove" => Fits(q.status, q.key, faults')
      <4>1. q.op # "remove" => Fits(q.status, q.key, faults)
        BY <2>1, <3>2 DEF VaultInv, StatusFits
      <4> QED
        BY <1>1, <3>4, <4>1, FitsStays
    <3>6. q.op = "test" /\ row # None /\ ~raced => q.key = row.key
      BY <2>1, <3>2 DEF VaultInv, StatusFits
    <3> QED
      BY <2>1, <2>3, <3>1, <3>2, <3>3, <3>4, <3>5, <3>6, RowStays DEF VaultInv
  <2> QED
    BY <1>7, <2>2, <2>3 DEF Write
<1> QED
  BY <1>4, <1>5, <1>6, <1>7 DEF VaultStep

LEMMA LateSafe ==
  ASSUME VaultInv, NEW r \in Requests, Adrift(r)
  PROVE  VaultInv'
<1>1. /\ request[r].pc = "adrift" /\ request' = [request EXCEPT ![r] = Idle]
      /\ UNCHANGED <<authVars, secret>>
      /\ Execute(r) \/ UNCHANGED <<row, raced>>
  BY DEF Adrift
<1>2. AuthSafe'
  BY <1>1, OutsideSafe DEF VaultInv, AuthSafe, AuthTypeOK, authVars
<1>3. CASE Execute(r)
  BY <1>1, <1>2, <1>3, RowWritten DEF VaultInv, authVars
<1>4. CASE UNCHANGED <<row, raced>>
  BY <1>1, <1>2, <1>4, RowStays, IdleRequest DEF VaultInv, authVars
<1> QED
  BY <1>1, <1>3, <1>4

LEMMA RestartSafe ==
  ASSUME VaultInv, NEW with \in Environments, Restarted(with),
         faults' = faults \/ faults' = faults + 1
  PROVE  VaultInv'
<1>1. /\ faults \in Nat /\ faults' \in Nat /\ AuthRestarted
      /\ secret' = with /\ UNCHANGED <<row, raced>>
      /\ request' = [t \in Requests |->
           IF request[t].pc \in {"write", "adrift"} THEN [request[t] EXCEPT !.pc = "adrift"] ELSE Idle]
  BY DEF VaultInv, AuthSafe, AuthTypeOK, Restarted
<1>2. AuthSafe'
  BY <1>1, OutsideSafe DEF VaultInv
<1>3. ASSUME NEW t \in Requests
      PROVE  /\ request'[t] \in RequestRecord /\ Holds(request'[t])
             /\ \/ request'[t].pc = "idle"
                \/ /\ request[t].pc \in {"write", "adrift"} /\ request'[t].pc = "adrift"
                   /\ request'[t].op = request[t].op /\ request'[t].key = request[t].key
                   /\ request'[t].status = request[t].status
  <2>1. request[t] \in RequestRecord /\ Holds(request[t])
    BY DEF VaultInv, VaultTypeOK
  <2>2. CASE request[t].pc \in {"write", "adrift"}
    BY <1>1, <2>1, <2>2 DEF RequestRecord, Holds
  <2>3. CASE request[t].pc \notin {"write", "adrift"}
    BY <1>1, <2>3, IdleRequest
  <2> QED
    BY <2>2, <2>3
<1>4. VaultTypeOK'
  <2>1. request' \in [Requests -> RequestRecord]
    BY <1>1, <1>3
  <2> QED
    BY <1>1, <1>3, <2>1 DEF VaultInv, VaultTypeOK
<1>5. StatusFits'
  <2>1. ASSUME NEW t \in Requests, request'[t].pc \in {"write", "adrift"}, request'[t].op # "remove"
        PROVE  Fits(request'[t].status, request'[t].key, faults')
    <3>1. Fits(request[t].status, request[t].key, faults)
      BY <1>3, <2>1 DEF VaultInv, StatusFits
    <3> QED
      BY <1>1, <1>3, <2>1, <3>1, FitsStays
  <2>2. ASSUME row # None, ~raced
        PROVE  /\ Fits(row.status, row.key, faults')
               /\ \A t \in Requests : request'[t].op = "test" /\ request'[t].pc \in {"ask", "write", "adrift"}
                    => request'[t].key = row.key
    <3>1. Fits(row.status, row.key, faults)
      BY <2>2 DEF VaultInv, StatusFits
    <3>2. Fits(row.status, row.key, faults')
      BY <1>1, <3>1, FitsStays
    <3> QED
      BY <1>3, <2>2, <3>2 DEF VaultInv, StatusFits
  <2> QED
    BY <1>1, <2>1, <2>2 DEF StatusFits
<1> QED
  BY <1>2, <1>4, <1>5 DEF VaultInv

LEMMA VaultInductive == VaultInv /\ [VaultNext]_vaultVars => VaultInv'
<1> SUFFICES ASSUME VaultInv, [VaultNext]_vaultVars PROVE VaultInv'
  OBVIOUS
<1>1. ASSUME UNCHANGED <<secret, row, request, raced>>, AuthSafe',
             faults' = faults \/ faults' = faults + 1
      PROVE  VaultInv'
  <2>1. faults \in Nat
    BY DEF VaultInv, AuthSafe, AuthTypeOK
  <2> QED
    BY <1>1, <2>1, FitsStays DEF VaultInv, VaultTypeOK, StatusFits
<1>2. ASSUME NEW r \in Requests, InMiddleware(r)
      PROVE  VaultInv'
  BY <1>1, <1>2, MiddlewareSafe
     DEF InMiddleware, AuthStep, EnterOnce, PassOnce, Load, Verify, Fault, VaultInv
<1>3. ASSUME NEW r \in Requests, VaultStep(r)
      PROVE  VaultInv'
  BY <1>3, HandlerSafe
<1>4. ASSUME NEW r \in Requests, Adrift(r)
      PROVE  VaultInv'
  BY <1>4, LateSafe
<1>5. CASE Environment
  <2>1. UNCHANGED <<secret, row, request, raced>>
    BY <1>5 DEF Environment
  <2>2. CASE Rotate
    <3>1. faults' = faults /\ faults \in Nat
      BY <2>2 DEF Rotate, VaultInv, AuthSafe, AuthTypeOK
    <3> QED
      BY <1>1, <2>1, <2>2, <3>1, OutsideSafe DEF VaultInv
  <2>3. ASSUME NEW r \in Requests, Hang(r) \/ Leave(r)
        PROVE  VaultInv'
    <3>1. faults' = faults \/ faults' = faults + 1
      BY <2>3 DEF Hang, Leave, Fault
    <3> QED
      BY <1>1, <2>1, <2>3, <3>1, MiddlewareSafe DEF VaultInv
  <2>4. ASSUME NEW r \in Requests, NEW by \in {"header", "bearer", "nobody"},
               NEW signer \in 0..MaxKeys, Arrive(r, by, signer)
        PROVE  VaultInv'
    <3>1. faults' = faults
      BY <2>4 DEF Arrive
    <3> QED
      BY <1>1, <2>1, <2>4, <3>1, ArrivalSafe DEF VaultInv
  <2> QED
    BY <1>5, <2>2, <2>3, <2>4 DEF Environment
<1>6. CASE WorkerRead
  BY <1>6, RestartSafe DEF WorkerRead, VaultInv, VaultTypeOK
<1>7. ASSUME NEW with \in Environments, Restart(with)
      PROVE  VaultInv'
  BY <1>7, RestartSafe DEF Restart, Fault
<1>8. CASE UNCHANGED vaultVars
  <2>1. faults \in Nat
    BY DEF VaultInv, AuthSafe, AuthTypeOK
  <2>2. AuthSafe'
    BY <1>8, <2>1, OutsideSafe DEF VaultInv, vaultVars, authVars
  <2> QED
    BY <1>1, <1>8, <2>2 DEF vaultVars, authVars
<1> QED
  BY <1>2, <1>3, <1>4, <1>5, <1>6, <1>7, <1>8 DEF VaultNext

LEMMA VaultInvariant == VaultSpec => []VaultInv
  BY VaultInitial, VaultInductive, PTL DEF VaultSpec

-----------------------------------------------------------------------------
(* The theorems *)

\* No garbage of a wrong secret is ever a key that a request holds or stores.
THEOREM TypeCorrect == VaultSpec => []TypeOK
<1>1. VaultInv => TypeOK
  BY DEF VaultInv, VaultTypeOK, AuthSafe, TypeOK
<1> QED
  BY <1>1, VaultInvariant, PTL

\* All bearer tokens of one process are judged by one key.
THEOREM VerdictsStand == VaultSpec => []VerdictStands
<1>1. VaultInv => VerdictStands
  BY DEF VaultInv, AuthSafe
<1> QED
  BY <1>1, VaultInvariant, PTL

\* The status of a stored key is one that the provider gave it, unless a save came
\* between the read and the write of a test.
THEOREM StatusOfItsKey == VaultSpec => []StatusIsOfItsKey
<1>1. VaultInv => StatusIsOfItsKey
  BY DEF VaultInv, StatusFits, Fits, StatusIsOfItsKey
<1> QED
  BY <1>1, VaultInvariant, PTL

\* A removed key comes back only by a save.
THEOREM RemovedStays == VaultSpec => RemovedStaysRemoved
<1>1. VaultInv /\ [VaultNext]_vaultVars
        => [row = None /\ (\A r \in Requests : request[r].op # "save") => row' = None]_vaultVars
  <2> SUFFICES ASSUME VaultInv, VaultNext, row = None,
                      \A r \in Requests : request[r].op # "save"
               PROVE  row' = None
    OBVIOUS
  <2>1. ASSUME NEW r \in Requests, Execute(r), request[r].pc \in {"write", "adrift"}
        PROVE  row' = None
    <3>1. request[r].op \in {"test", "remove"}
      BY <2>1 DEF VaultInv, VaultTypeOK, Holds, RequestRecord
    <3>2. row' = Written(request[r])
      BY <2>1 DEF Execute
    <3>3. CASE request[r].op = "test"
      BY <3>2, <3>3 DEF Written
    <3>4. CASE request[r].op = "remove"
      BY <3>2, <3>4 DEF Written
    <3> QED
      BY <3>1, <3>3, <3>4
  <2>2. ASSUME NEW r \in Requests, VaultStep(r)
        PROVE  row' = None
    BY <2>1, <2>2 DEF VaultStep, Begin, ReadKey, Ask, Write
  <2>3. ASSUME NEW r \in Requests, Adrift(r)
        PROVE  row' = None
    BY <2>1, <2>3 DEF Adrift
  <2>4. CASE row' = row
    BY <2>4
  <2> QED
    BY <2>2, <2>3, <2>4
       DEF VaultNext, InMiddleware, Environment, WorkerRead, Restart, Restarted
<1> QED
  BY <1>1, VaultInvariant, PTL DEF VaultSpec, RemovedStaysRemoved
=============================================================================
