---------------------- MODULE AccountIdentitiesProofs ----------------------
(***************************************************************************)
(* Proofs about AccountIdentities for any number of requests, wallets,     *)
(* nonces and registrations.  IInv is inductive: one lemma per conjunct    *)
(* shows that a step keeps it, with one step per action that touches what  *)
(* the conjunct speaks of.  The invariants follow from IInv, the action    *)
(* properties and the refinement from IInv and one step.                   *)
(***************************************************************************)
EXTENDS AccountIdentities, TLAPS, FiniteSetTheorems

\* What an arriving request brings: arguments of the right type, and the first
\* step of its endpoint.
LEMMA ArrivalShape ==
    ASSUME TypeOK, NEW r \in Requests, Arrival(r)
    PROVE  \E q \in Request, k \in KratosIds \cup {None} :
              \/ Arrive(r, q, k, "nonce") /\ q.kind \in {"verify", "authenticate"}
              \/ Arrive(r, q, k, "auth") /\ q.kind \in {"link", "unlink"}
              \/ Arrive(r, q, k, "delete") /\ q.kind = "adminUnlink"
              \/ Arrive(r, q, k, "registered") /\ q.kind = "webhook"
<1> USE DEF TypeOK, Request, Endpoints, KratosIds
<1>1. ASSUME NEW kind \in Endpoints, NEW n \in Nonces, NEW signed \in BOOLEAN
      PROVE  Signed(kind, n, signed) \in Request
  BY DEF Signed
<1>2. ASSUME NEW kind \in Endpoints, NEW id \in Requests
      PROVE  Unlink(kind, id) \in Request
  BY DEF Unlink
<1>3. ASSUME NEW kind \in Endpoints, NEW n \in Nonces, NEW signed \in BOOLEAN,
             ArriveLogin(r, kind, n, signed)
      PROVE  /\ Arrive(r, Signed(kind, n, signed), None, "nonce")
             /\ Signed(kind, n, signed).kind \in {"verify", "authenticate"}
  BY <1>3 DEF ArriveLogin, Signed
<1>4. ASSUME NEW n \in Nonces, NEW signed \in BOOLEAN, NEW k \in KratosIds,
             ArriveLink(r, n, signed, k)
      PROVE  /\ Arrive(r, Signed("link", n, signed), k, "auth")
             /\ Signed("link", n, signed).kind = "link"
  BY <1>4 DEF ArriveLink, Signed
<1>5. ASSUME NEW k \in KratosIds, NEW id \in Requests, ArriveUnlink(r, k, id)
      PROVE  /\ Arrive(r, Unlink("unlink", id), k, "auth")
             /\ Unlink("unlink", id).kind = "unlink"
  BY <1>5 DEF ArriveUnlink, Unlink
<1>6. ASSUME NEW id \in Requests, ArriveAdminUnlink(r, id)
      PROVE  /\ Arrive(r, Unlink("adminUnlink", id), None, "delete")
             /\ Unlink("adminUnlink", id).kind = "adminUnlink"
  BY <1>6 DEF ArriveAdminUnlink, Unlink
<1>7. ASSUME NEW k \in Registrations, ArriveWebhook(r, k)
      PROVE  /\ Arrive(r, Registered, k, "registered")
             /\ Registered \in Request /\ Registered.kind = "webhook"
  BY <1>7 DEF ArriveWebhook, Registered
<1>8. QED
  BY <1>1, <1>2, <1>3, <1>4, <1>5, <1>6, <1>7 DEF Arrival

\* The row a handler is about to insert is well-formed.
LEMMA NewRowType ==
    ASSUME TypeOK, HandlersConsistent, ArgumentsConsistent,
           NEW r \in Requests, pc[r] = "insert"
    PROVE  /\ NewRow(r) \in Row
           /\ NewRow(r).id = r
           /\ Kind(r) # "link" => NewRow(r).account = r /\ NewRow(r).primary
           /\ Kind(r) = "link" => NewRow(r).account = account[r] /\ ~NewRow(r).primary
<1>1. Kind(r) = "link" => account[r] \in Requests
  BY DEF TypeOK, ArgumentsConsistent
<1>2. IF Kind(r) = "webhook" THEN subject[r] \in Registrations ELSE req[r].wallet \in Wallets
  BY DEF HandlersConsistent, ArgumentsConsistent
<1>3. QED
  BY <1>1, <1>2 DEF NewRow, AccountOf, IsPrimary, Row, KratosIds, Users

\* Every step keeps the types of the variables.
LEMMA TypeStep == IInv /\ [Next]_vars => TypeOK'
<1> SUFFICES ASSUME IInv, [Next]_vars PROVE TypeOK'
  OBVIOUS
<1> USE DistinctNames DEF IInv, TypeOK, HandlersConsistent, ArgumentsConsistent, redis,
        pg, ory, locals, Goto, Reply, Kind, Row, Request, Endpoints, KratosIds, Users,
        InFlight, Answered
<1>1. CASE Environment
  BY <1>1 DEF Environment, IssueChallenge, NonceExpires, KratosRegisters
<1>2. ASSUME NEW r \in Requests, Arrival(r)
     PROVE  TypeOK'
  <2>1. PICK q \in Request, k \in KratosIds \cup {None},
             p \in {"nonce", "auth", "delete", "registered"} :
           /\ pc' = [pc EXCEPT ![r] = p] /\ req' = [req EXCEPT ![r] = q]
           /\ subject' = [subject EXCEPT ![r] = k] /\ gone' = [gone EXCEPT ![r] = unlinked]
           /\ UNCHANGED <<redis, pg, ory, account, counted, proved>>
    BY <1>2, ArrivalShape DEF Arrive
  <2>2. QED
    BY <2>1
<1>3. ASSUME NEW r \in Requests, ResolveToken(r)
     PROVE  TypeOK'
  BY <1>3 DEF ResolveToken, ActiveOfKratos
<1>4. ASSUME NEW r \in Requests, VerifyNonce(r)
     PROVE  TypeOK'
  BY <1>4 DEF VerifyNonce, GetDel
<1>5. ASSUME NEW r \in Requests, AdoptIdentity(r)
     PROVE  TypeOK'
  BY <1>5 DEF AdoptIdentity, ActiveOfUser
<1>6. ASSUME NEW r \in Requests, CreateKratosIdentity(r)
     PROVE  TypeOK'
  BY <1>6 DEF CreateKratosIdentity
<1>7. ASSUME NEW r \in Requests, CreateAccount(r)
     PROVE  TypeOK'
  BY <1>7, NewRowType DEF CreateAccount
<1>8. ASSUME NEW r \in Requests, LinkIdentity(r)
     PROVE  TypeOK'
  BY <1>8, NewRowType DEF LinkIdentity
<1>9. ASSUME NEW r \in Requests, GrantLogin(r)
     PROVE  TypeOK'
  BY <1>9 DEF GrantLogin
<1>10. ASSUME NEW r \in Requests, CountIdentities(r)
     PROVE  TypeOK'
  BY <1>10 DEF CountIdentities, IsLast, ActiveOfAccount
<1>11. ASSUME NEW r \in Requests, SoftDelete(r)
     PROVE  TypeOK'
  BY <1>11 DEF SoftDelete
<1>12. ASSUME NEW r \in Requests,
             RefuseLinkedWallet(r) \/ WalletUnknown(r) \/ LookupRegistration(r)
             \/ InsertConflicts(r) \/ CheckOwner(r) \/ Fail(r)
     PROVE  TypeOK'
  BY <1>12 DEF RefuseLinkedWallet, WalletUnknown, LookupRegistration, InsertConflicts,
     CheckOwner, Owns, Fail
<1>13. CASE UNCHANGED vars
  BY <1>13 DEF vars
<1> HIDE DEF IInv, TypeOK, HandlersConsistent, ArgumentsConsistent, redis, pg, ory,
         locals, Goto, Reply, Kind, Row, Request, Endpoints, KratosIds, Users, InFlight,
         Answered
<1>14. QED
  BY <1>1, <1>2, <1>3, <1>4, <1>5, <1>6, <1>7, <1>8, <1>9, <1>10, <1>11, <1>12,
     <1>13 DEF Next, Step

\* Every step leaves each handler at a step of its own endpoint.
LEMMA HandlersStep == IInv /\ [Next]_vars => HandlersConsistent'
<1> SUFFICES ASSUME IInv, [Next]_vars PROVE HandlersConsistent'
  OBVIOUS
<1> USE DistinctNames DEF IInv, TypeOK, HandlersConsistent, redis, pg, ory, locals, Goto,
        Reply, Kind, Row, Request, Endpoints, KratosIds, Users, InFlight, Answered
<1>1. CASE Environment
  BY <1>1 DEF Environment, IssueChallenge, NonceExpires, KratosRegisters
<1>2. ASSUME NEW r \in Requests, Arrival(r)
     PROVE  HandlersConsistent'
  BY <1>2, ArrivalShape DEF Arrive
<1>3. ASSUME NEW r \in Requests, VerifyNonce(r)
     PROVE  HandlersConsistent'
  BY <1>3 DEF VerifyNonce, GetDel
<1>4. ASSUME NEW r \in Requests, CheckOwner(r)
     PROVE  HandlersConsistent'
  BY <1>4 DEF CheckOwner, Owns
<1>5. ASSUME NEW r \in Requests, CreateAccount(r)
     PROVE  HandlersConsistent'
  BY <1>5 DEF CreateAccount, NewRow, AccountOf, IsPrimary
<1>6. ASSUME NEW r \in Requests,
             ResolveToken(r) \/ AdoptIdentity(r) \/ RefuseLinkedWallet(r)
             \/ WalletUnknown(r) \/ CreateKratosIdentity(r) \/ LookupRegistration(r)
             \/ LinkIdentity(r) \/ InsertConflicts(r) \/ GrantLogin(r)
             \/ CountIdentities(r) \/ SoftDelete(r) \/ Fail(r)
     PROVE  HandlersConsistent'
  BY <1>6 DEF ResolveToken, AdoptIdentity, RefuseLinkedWallet, WalletUnknown,
     CreateKratosIdentity, LookupRegistration, LinkIdentity, InsertConflicts, GrantLogin,
     CountIdentities, IsLast, SoftDelete, Fail
<1>7. CASE UNCHANGED vars
  BY <1>7 DEF vars
<1> HIDE DEF IInv, TypeOK, HandlersConsistent, redis, pg, ory, locals, Goto, Reply, Kind,
         Row, Request, Endpoints, KratosIds, Users, InFlight, Answered
<1>8. QED
  BY <1>1, <1>2, <1>3, <1>4, <1>5, <1>6, <1>7 DEF Next, Step

\* The arguments of a request stay valid while others run.
LEMMA ArgumentsStep == IInv /\ [Next]_vars => ArgumentsConsistent'
<1> SUFFICES ASSUME IInv, [Next]_vars PROVE ArgumentsConsistent'
  OBVIOUS
<1> USE DistinctNames DEF IInv, TypeOK, HandlersConsistent, ArgumentsConsistent,
        OnePrimaryPerAccount, redis, pg, ory, locals, Goto, Reply, Kind, Row, Request,
        Endpoints, KratosIds, Users, InFlight, Answered
<1>1. CASE Environment
  BY <1>1 DEF Environment, IssueChallenge, NonceExpires, KratosRegisters
<1>2. ASSUME NEW r \in Requests, Arrival(r)
     PROVE  ArgumentsConsistent'
  BY <1>2 DEF Arrival, ArriveLogin, ArriveLink, ArriveUnlink, ArriveAdminUnlink,
            ArriveWebhook, Arrive, Signed, Unlink, Registered
<1>3. ASSUME NEW r \in Requests, ResolveToken(r)
     PROVE  ArgumentsConsistent'
  BY <1>3 DEF ResolveToken, ActiveOfKratos
<1>4. ASSUME NEW r \in Requests, VerifyNonce(r)
     PROVE  ArgumentsConsistent'
  BY <1>4 DEF VerifyNonce, GetDel
<1>5. ASSUME NEW r \in Requests, AdoptIdentity(r)
     PROVE  ArgumentsConsistent'
  BY <1>5 DEF AdoptIdentity, ActiveOfUser
<1>6. ASSUME NEW r \in Requests, CreateAccount(r)
     PROVE  ArgumentsConsistent'
  BY <1>6 DEF CreateAccount, NewRow, AccountOf, IsPrimary
<1>7. ASSUME NEW r \in Requests, LinkIdentity(r)
     PROVE  ArgumentsConsistent'
  BY <1>7 DEF LinkIdentity, NewRow, AccountOf, IsPrimary
<1>8. ASSUME NEW r \in Requests,
             RefuseLinkedWallet(r) \/ WalletUnknown(r) \/ CreateKratosIdentity(r)
             \/ LookupRegistration(r) \/ InsertConflicts(r) \/ GrantLogin(r)
             \/ CountIdentities(r) \/ CheckOwner(r) \/ SoftDelete(r) \/ Fail(r)
     PROVE  ArgumentsConsistent'
  BY <1>8 DEF RefuseLinkedWallet, WalletUnknown, CreateKratosIdentity,
     LookupRegistration, InsertConflicts, GrantLogin, CountIdentities, IsLast, CheckOwner, Owns,
     SoftDelete, Fail
<1>9. CASE UNCHANGED vars
  BY <1>9 DEF vars
<1> HIDE DEF IInv, TypeOK, HandlersConsistent, ArgumentsConsistent, OnePrimaryPerAccount,
         redis, pg, ory, locals, Goto, Reply, Kind, Row, Request, Endpoints, KratosIds,
         Users, InFlight, Answered
<1>10. QED
  BY <1>1, <1>2, <1>3, <1>4, <1>5, <1>6, <1>7, <1>8, <1>9 DEF Next, Step

\* A live nonce stays one that was issued and has proved nothing yet.
LEMMA NoncesStep == IInv /\ [Next]_vars => NoncesConsistent'
<1> SUFFICES ASSUME IInv, [Next]_vars PROVE NoncesConsistent'
  OBVIOUS
<1> USE DistinctNames DEF IInv, TypeOK, HandlersConsistent, ArgumentsConsistent,
        NoncesConsistent, redis, pg, ory, locals, Goto, Reply, Kind, Row, Request,
        Endpoints, KratosIds, Users, InFlight, Answered
<1>1. CASE Environment
  BY <1>1 DEF Environment, IssueChallenge, NonceExpires, KratosRegisters
<1>2. ASSUME NEW r \in Requests, Arrival(r)
     PROVE  NoncesConsistent'
  BY <1>2 DEF Arrival, ArriveLogin, ArriveLink, ArriveUnlink, ArriveAdminUnlink,
            ArriveWebhook, Arrive, Signed, Unlink, Registered
<1>3. ASSUME NEW r \in Requests, VerifyNonce(r)
     PROVE  NoncesConsistent'
  BY <1>3 DEF VerifyNonce, GetDel
<1>4. ASSUME NEW r \in Requests,
             ResolveToken(r) \/ AdoptIdentity(r) \/ RefuseLinkedWallet(r)
             \/ WalletUnknown(r) \/ CreateKratosIdentity(r) \/ LookupRegistration(r)
             \/ CreateAccount(r) \/ LinkIdentity(r) \/ InsertConflicts(r)
             \/ GrantLogin(r) \/ CountIdentities(r) \/ CheckOwner(r) \/ SoftDelete(r)
             \/ Fail(r)
     PROVE  NoncesConsistent'
  BY <1>4 DEF ResolveToken, AdoptIdentity, RefuseLinkedWallet, WalletUnknown,
     CreateKratosIdentity, LookupRegistration, CreateAccount, LinkIdentity,
     InsertConflicts, GrantLogin, CountIdentities, IsLast, CheckOwner, Owns, SoftDelete, Fail
<1>5. CASE UNCHANGED vars
  BY <1>5 DEF vars
<1> HIDE DEF IInv, TypeOK, HandlersConsistent, ArgumentsConsistent, NoncesConsistent,
         redis, pg, ory, locals, Goto, Reply, Kind, Row, Request, Endpoints, KratosIds,
         Users, InFlight, Answered
<1>6. QED
  BY <1>1, <1>2, <1>3, <1>4, <1>5 DEF Next, Step

\* Only the request an identity is named after inserts it, once.
LEMMA RowsStep == IInv /\ [Next]_vars => RowsConsistent'
<1> SUFFICES ASSUME IInv, [Next]_vars PROVE RowsConsistent'
  OBVIOUS
<1> USE DistinctNames DEF IInv, TypeOK, HandlersConsistent, ArgumentsConsistent,
        RowsConsistent, redis, pg, ory, locals, Goto, Reply, Kind, Row, Request,
        Endpoints, KratosIds, Users, InFlight, Answered
<1>1. CASE Environment
  BY <1>1 DEF Environment, IssueChallenge, NonceExpires, KratosRegisters
<1>2. ASSUME NEW r \in Requests, Arrival(r)
     PROVE  RowsConsistent'
  BY <1>2 DEF Arrival, ArriveLogin, ArriveLink, ArriveUnlink, ArriveAdminUnlink,
            ArriveWebhook, Arrive, Signed, Unlink, Registered
<1>3. ASSUME NEW r \in Requests, CreateAccount(r)
     PROVE  RowsConsistent'
  BY <1>3 DEF CreateAccount, NewRow, AccountOf, IsPrimary
<1>4. ASSUME NEW r \in Requests, LinkIdentity(r)
     PROVE  RowsConsistent'
  BY <1>4, NewRowType DEF LinkIdentity
<1>5. ASSUME NEW r \in Requests, SoftDelete(r)
     PROVE  RowsConsistent'
  BY <1>5 DEF SoftDelete
<1>6. ASSUME NEW r \in Requests,
             ResolveToken(r) \/ VerifyNonce(r) \/ AdoptIdentity(r)
             \/ RefuseLinkedWallet(r) \/ WalletUnknown(r) \/ CreateKratosIdentity(r)
             \/ LookupRegistration(r) \/ InsertConflicts(r) \/ GrantLogin(r)
             \/ CountIdentities(r) \/ CheckOwner(r) \/ Fail(r)
     PROVE  RowsConsistent'
  BY <1>6 DEF ResolveToken, VerifyNonce, GetDel, AdoptIdentity, RefuseLinkedWallet,
     WalletUnknown, CreateKratosIdentity, LookupRegistration, InsertConflicts,
     GrantLogin, CountIdentities, IsLast, CheckOwner, Owns, Fail
<1>7. CASE UNCHANGED vars
  BY <1>7 DEF vars
<1> HIDE DEF IInv, TypeOK, HandlersConsistent, ArgumentsConsistent, RowsConsistent,
         redis, pg, ory, locals, Goto, Reply, Kind, Row, Request, Endpoints, KratosIds,
         Users, InFlight, Answered
<1>8. QED
  BY <1>1, <1>2, <1>3, <1>4, <1>5, <1>6, <1>7 DEF Next, Step

\* Only the request a Kratos identity is named after creates it.
LEMMA KratosStep == IInv /\ [Next]_vars => KratosConsistent'
<1> SUFFICES ASSUME IInv, [Next]_vars PROVE KratosConsistent'
  OBVIOUS
<1> USE DistinctNames DEF IInv, TypeOK, HandlersConsistent, ArgumentsConsistent,
        KratosConsistent, redis, pg, ory, locals, Goto, Reply, Kind, Row, Request,
        Endpoints, KratosIds, Users, InFlight, Answered
<1>1. CASE Environment
  BY <1>1 DEF Environment, IssueChallenge, NonceExpires, KratosRegisters
<1>2. ASSUME NEW r \in Requests, Arrival(r)
     PROVE  KratosConsistent'
  BY <1>2 DEF Arrival, ArriveLogin, ArriveLink, ArriveUnlink, ArriveAdminUnlink,
            ArriveWebhook, Arrive, Signed, Unlink, Registered
<1>3. ASSUME NEW r \in Requests, CreateKratosIdentity(r)
     PROVE  KratosConsistent'
  BY <1>3 DEF CreateKratosIdentity
<1>4. ASSUME NEW r \in Requests,
             ResolveToken(r) \/ VerifyNonce(r) \/ AdoptIdentity(r)
             \/ RefuseLinkedWallet(r) \/ WalletUnknown(r) \/ LookupRegistration(r)
             \/ CreateAccount(r) \/ LinkIdentity(r) \/ InsertConflicts(r)
             \/ GrantLogin(r) \/ CountIdentities(r) \/ CheckOwner(r) \/ SoftDelete(r)
             \/ Fail(r)
     PROVE  KratosConsistent'
  BY <1>4 DEF ResolveToken, VerifyNonce, GetDel, AdoptIdentity, RefuseLinkedWallet,
     WalletUnknown, LookupRegistration, CreateAccount, LinkIdentity, InsertConflicts,
     GrantLogin, CountIdentities, IsLast, CheckOwner, Owns, SoftDelete, Fail
<1>5. CASE UNCHANGED vars
  BY <1>5 DEF vars
<1> HIDE DEF IInv, TypeOK, HandlersConsistent, ArgumentsConsistent, KratosConsistent,
         redis, pg, ory, locals, Goto, Reply, Kind, Row, Request, Endpoints, KratosIds,
         Users, InFlight, Answered
<1>6. QED
  BY <1>1, <1>2, <1>3, <1>4, <1>5 DEF Next, Step

\* What SafeUnlinkIdentity counted and checked stays recorded until it deletes.
LEMMA UnlinkersStep == IInv /\ [Next]_vars => UnlinkersConsistent'
<1> SUFFICES ASSUME IInv, [Next]_vars PROVE UnlinkersConsistent'
  OBVIOUS
<1> USE DistinctNames DEF IInv, TypeOK, HandlersConsistent, ArgumentsConsistent,
        UnlinkersConsistent, redis, pg, ory, locals, Goto, Reply, Kind, Row, Request,
        Endpoints, KratosIds, Users, InFlight, Answered
<1>1. CASE Environment
  BY <1>1 DEF Environment, IssueChallenge, NonceExpires, KratosRegisters
<1>2. ASSUME NEW r \in Requests, Arrival(r)
     PROVE  UnlinkersConsistent'
  <2>1. PICK q \in Request, p \in {"nonce", "auth", "delete", "registered"} :
           /\ pc[r] = "idle" /\ pc' = [pc EXCEPT ![r] = p] /\ req' = [req EXCEPT ![r] = q]
           /\ p = "delete" => q.kind = "adminUnlink"
           /\ UNCHANGED <<rows, account, counted>>
    BY <1>2, ArrivalShape DEF Arrive
  <2>2. QED
    BY <2>1
<1>3. ASSUME NEW r \in Requests, CreateAccount(r)
     PROVE  UnlinkersConsistent'
  BY <1>3 DEF CreateAccount, NewRow, AccountOf, IsPrimary
<1>4. ASSUME NEW r \in Requests, LinkIdentity(r)
     PROVE  UnlinkersConsistent'
  BY <1>4 DEF LinkIdentity, NewRow, AccountOf, IsPrimary
<1>5. ASSUME NEW r \in Requests, CountIdentities(r)
     PROVE  UnlinkersConsistent'
  <2> DEFINE ids == {x.id : x \in ActiveOfAccount(account[r])}
  <2>1. /\ counted' = [counted EXCEPT ![r] = ids]
        /\ pc' = [pc EXCEPT ![r] = IF Cardinality(ids) <= 1 THEN "rejected" ELSE "owner"]
        /\ UNCHANGED <<rows, req, account>>
    BY <1>5 DEF CountIdentities, IsLast
  <2>2. \A id \in ids : \E x \in rows : x.id = id /\ x.account = account[r]
    BY DEF ActiveOfAccount
  <2>3. Cardinality(ids) \in Nat
    <3>1. ids \subseteq Requests
      BY DEF ActiveOfAccount
    <3>2. QED
      BY <3>1, FiniteRequests, FS_Subset, FS_CardinalityType
  <2>4. pc'[r] = "owner" => Cardinality(ids) > 1
    BY <2>1, <2>3
  <2> HIDE DEF ids
  <2>5. QED
    BY <2>1, <2>2, <2>4
<1>6. ASSUME NEW r \in Requests, CheckOwner(r)
     PROVE  UnlinkersConsistent'
  BY <1>6 DEF CheckOwner, Owns
<1>7. ASSUME NEW r \in Requests,
             ResolveToken(r) \/ VerifyNonce(r) \/ AdoptIdentity(r)
             \/ RefuseLinkedWallet(r) \/ WalletUnknown(r) \/ CreateKratosIdentity(r)
             \/ LookupRegistration(r) \/ InsertConflicts(r) \/ GrantLogin(r)
             \/ SoftDelete(r) \/ Fail(r)
     PROVE  UnlinkersConsistent'
  BY <1>7 DEF ResolveToken, VerifyNonce, GetDel, AdoptIdentity, RefuseLinkedWallet,
     WalletUnknown, CreateKratosIdentity, LookupRegistration, InsertConflicts,
     GrantLogin, SoftDelete, Fail
<1>8. CASE UNCHANGED vars
  BY <1>8 DEF vars
<1> HIDE DEF IInv, TypeOK, HandlersConsistent, ArgumentsConsistent, UnlinkersConsistent,
         redis, pg, ory, locals, Goto, Reply, Kind, Row, Request, Endpoints, KratosIds,
         Users, InFlight, Answered
<1>9. QED
  BY <1>1, <1>2, <1>3, <1>4, <1>5, <1>6, <1>7, <1>8 DEF Next, Step

\* GETDEL leaves no nonce for a second request.
LEMMA NonceProvesOnceStep == IInv /\ [Next]_vars => NonceProvesOnce'
<1> SUFFICES ASSUME IInv, [Next]_vars PROVE NonceProvesOnce'
  OBVIOUS
<1> USE DistinctNames DEF IInv, TypeOK, HandlersConsistent, ArgumentsConsistent,
        NoncesConsistent, NonceProvesOnce, redis, pg, ory, locals, Goto, Reply, Kind,
        Row, Request, Endpoints, KratosIds, Users, InFlight, Answered
<1>1. CASE Environment
  BY <1>1 DEF Environment, IssueChallenge, NonceExpires, KratosRegisters
<1>2. ASSUME NEW r \in Requests, Arrival(r)
     PROVE  NonceProvesOnce'
  BY <1>2 DEF Arrival, ArriveLogin, ArriveLink, ArriveUnlink, ArriveAdminUnlink,
            ArriveWebhook, Arrive, Signed, Unlink, Registered
<1>3. ASSUME NEW r \in Requests, VerifyNonce(r)
     PROVE  NonceProvesOnce'
  BY <1>3 DEF VerifyNonce, GetDel
<1>4. ASSUME NEW r \in Requests,
             ResolveToken(r) \/ AdoptIdentity(r) \/ RefuseLinkedWallet(r)
             \/ WalletUnknown(r) \/ CreateKratosIdentity(r) \/ LookupRegistration(r)
             \/ CreateAccount(r) \/ LinkIdentity(r) \/ InsertConflicts(r)
             \/ GrantLogin(r) \/ CountIdentities(r) \/ CheckOwner(r) \/ SoftDelete(r)
             \/ Fail(r)
     PROVE  NonceProvesOnce'
  BY <1>4 DEF ResolveToken, AdoptIdentity, RefuseLinkedWallet, WalletUnknown,
     CreateKratosIdentity, LookupRegistration, CreateAccount, LinkIdentity,
     InsertConflicts, GrantLogin, CountIdentities, IsLast, CheckOwner, Owns, SoftDelete, Fail
<1>5. CASE UNCHANGED vars
  BY <1>5 DEF vars
<1> HIDE DEF IInv, TypeOK, HandlersConsistent, ArgumentsConsistent, NoncesConsistent,
         NonceProvesOnce, redis, pg, ory, locals, Goto, Reply, Kind, Row, Request,
         Endpoints, KratosIds, Users, InFlight, Answered
<1>6. QED
  BY <1>1, <1>2, <1>3, <1>4, <1>5 DEF Next, Step

\* The unique indexes keep the keys of any two rows apart.
LEMMA OneRowPerKeyStep == IInv /\ [Next]_vars => OneRowPerKey'
<1> SUFFICES ASSUME IInv, [Next]_vars PROVE OneRowPerKey'
  OBVIOUS
<1> USE DistinctNames DEF IInv, TypeOK, OneRowPerKey, redis, pg, ory, locals, Goto,
        Reply, Kind, Row, Request, Endpoints, KratosIds, Users, InFlight, Answered
<1>1. CASE Environment
  BY <1>1 DEF Environment, IssueChallenge, NonceExpires, KratosRegisters
<1>2. ASSUME NEW r \in Requests, Arrival(r)
     PROVE  OneRowPerKey'
  BY <1>2 DEF Arrival, ArriveLogin, ArriveLink, ArriveUnlink, ArriveAdminUnlink,
            ArriveWebhook, Arrive, Signed, Unlink, Registered
<1>3. ASSUME NEW r \in Requests, CreateAccount(r)
     PROVE  OneRowPerKey'
  BY <1>3 DEF CreateAccount, UniqueKeys
<1>4. ASSUME NEW r \in Requests, LinkIdentity(r)
     PROVE  OneRowPerKey'
  BY <1>4 DEF LinkIdentity, UniqueKeys
<1>5. ASSUME NEW r \in Requests,
             ResolveToken(r) \/ VerifyNonce(r) \/ AdoptIdentity(r)
             \/ RefuseLinkedWallet(r) \/ WalletUnknown(r) \/ CreateKratosIdentity(r)
             \/ LookupRegistration(r) \/ InsertConflicts(r) \/ GrantLogin(r)
             \/ CountIdentities(r) \/ CheckOwner(r) \/ SoftDelete(r) \/ Fail(r)
     PROVE  OneRowPerKey'
  BY <1>5 DEF ResolveToken, VerifyNonce, GetDel, AdoptIdentity, RefuseLinkedWallet,
     WalletUnknown, CreateKratosIdentity, LookupRegistration, InsertConflicts,
     GrantLogin, CountIdentities, IsLast, CheckOwner, Owns, SoftDelete, Fail
<1>6. CASE UNCHANGED vars
  BY <1>6 DEF vars
<1> HIDE DEF IInv, TypeOK, OneRowPerKey, redis, pg, ory, locals, Goto, Reply, Kind, Row,
         Request, Endpoints, KratosIds, Users, InFlight, Answered
<1>7. QED
  BY <1>1, <1>2, <1>3, <1>4, <1>5, <1>6 DEF Next, Step

\* A login that is granted keeps the row it was granted for.
LEMMA LoginStep == IInv /\ [Next]_vars => LoginSpeaksForWallet'
<1> SUFFICES ASSUME IInv, [Next]_vars PROVE LoginSpeaksForWallet'
  OBVIOUS
<1> USE DistinctNames DEF IInv, TypeOK, HandlersConsistent, LoginSpeaksForWallet, Logins,
        redis, pg, ory, locals, Goto, Reply, Kind, Row, Request, Endpoints, KratosIds,
        Users, InFlight, Answered
<1>1. CASE Environment
  BY <1>1 DEF Environment, IssueChallenge, NonceExpires, KratosRegisters
<1>2. ASSUME NEW r \in Requests, Arrival(r)
     PROVE  LoginSpeaksForWallet'
  BY <1>2 DEF Arrival, ArriveLogin, ArriveLink, ArriveUnlink, ArriveAdminUnlink,
            ArriveWebhook, Arrive, Signed, Unlink, Registered
<1>3. ASSUME NEW r \in Requests, AdoptIdentity(r)
     PROVE  LoginSpeaksForWallet'
  BY <1>3 DEF AdoptIdentity, ActiveOfUser
<1>4. ASSUME NEW r \in Requests, CreateAccount(r)
     PROVE  LoginSpeaksForWallet'
  BY <1>4 DEF CreateAccount, NewRow, AccountOf, IsPrimary
<1>5. ASSUME NEW r \in Requests, LinkIdentity(r)
     PROVE  LoginSpeaksForWallet'
  BY <1>5 DEF LinkIdentity, NewRow, AccountOf, IsPrimary
<1>6. ASSUME NEW r \in Requests,
             ResolveToken(r) \/ VerifyNonce(r) \/ RefuseLinkedWallet(r)
             \/ WalletUnknown(r) \/ CreateKratosIdentity(r) \/ LookupRegistration(r)
             \/ InsertConflicts(r) \/ GrantLogin(r) \/ CountIdentities(r)
             \/ CheckOwner(r) \/ SoftDelete(r) \/ Fail(r)
     PROVE  LoginSpeaksForWallet'
  BY <1>6 DEF ResolveToken, VerifyNonce, GetDel, RefuseLinkedWallet, WalletUnknown,
     CreateKratosIdentity, LookupRegistration, InsertConflicts, GrantLogin,
     CountIdentities, IsLast, CheckOwner, Owns, SoftDelete, Fail
<1>7. CASE UNCHANGED vars
  BY <1>7 DEF vars
<1> HIDE DEF IInv, TypeOK, HandlersConsistent, LoginSpeaksForWallet, Logins, redis, pg,
         ory, locals, Goto, Reply, Kind, Row, Request, Endpoints, KratosIds, Users,
         InFlight, Answered
<1>8. QED
  BY <1>1, <1>2, <1>3, <1>4, <1>5, <1>6, <1>7 DEF Next, Step

\* Accounts and primary identities appear together and never go.
LEMMA OnePrimaryStep == IInv /\ [Next]_vars => OnePrimaryPerAccount'
<1> SUFFICES ASSUME IInv, [Next]_vars PROVE OnePrimaryPerAccount'
  OBVIOUS
<1> USE DistinctNames DEF IInv, TypeOK, HandlersConsistent, ArgumentsConsistent,
        RowsConsistent, OnePrimaryPerAccount, redis, pg, ory, locals, Goto, Reply, Kind,
        Row, Request, Endpoints, KratosIds, Users, InFlight, Answered
<1>1. CASE Environment
  BY <1>1 DEF Environment, IssueChallenge, NonceExpires, KratosRegisters
<1>2. ASSUME NEW r \in Requests, Arrival(r)
     PROVE  OnePrimaryPerAccount'
  BY <1>2 DEF Arrival, ArriveLogin, ArriveLink, ArriveUnlink, ArriveAdminUnlink,
            ArriveWebhook, Arrive, Signed, Unlink, Registered
<1>3. ASSUME NEW r \in Requests, CreateAccount(r)
     PROVE  OnePrimaryPerAccount'
  <2> DEFINE new == NewRow(r)
  <2>1. rows' = rows \cup {new} /\ accounts' = accounts \cup {r}
    BY <1>3 DEF CreateAccount
  <2>2. new.id = r /\ new.account = r /\ new.primary
    BY <1>3, NewRowType DEF CreateAccount
  <2>3. \A y \in rows : y.id # r
    BY <1>3 DEF CreateAccount
  <2>4. \A y \in rows : y.primary => y.account # r
    BY <2>3
  <2> HIDE DEF new
  <2>5. \A x \in rows' : x.account \in accounts'
    BY <2>1, <2>2
  <2>6. ASSUME NEW a \in accounts'
        PROVE  \E x \in rows' : /\ x.account = a /\ x.primary
                                 /\ \A y \in rows' : y.account = a /\ y.primary => y = x
    <3>1. CASE a = r
      BY <3>1, <2>1, <2>2, <2>4
    <3>2. CASE a # r
      <4>1. PICK x \in rows : /\ x.account = a /\ x.primary
                              /\ \A y \in rows : y.account = a /\ y.primary => y = x
        BY <3>2, <2>1
      <4>2. QED
        BY <4>1, <3>2, <2>1, <2>2
    <3>3. QED
      BY <3>1, <3>2
  <2>7. QED
    BY <2>5, <2>6
<1>4. ASSUME NEW r \in Requests, LinkIdentity(r)
     PROVE  OnePrimaryPerAccount'
  <2> DEFINE new == NewRow(r)
  <2>1. rows' = rows \cup {new} /\ accounts' = accounts
    BY <1>4 DEF LinkIdentity
  <2>2. ~new.primary /\ new.account \in accounts
    BY <1>4, NewRowType DEF LinkIdentity
  <2> HIDE DEF new
  <2>3. QED
    BY <2>1, <2>2
<1>5. ASSUME NEW r \in Requests,
             ResolveToken(r) \/ VerifyNonce(r) \/ AdoptIdentity(r)
             \/ RefuseLinkedWallet(r) \/ WalletUnknown(r) \/ CreateKratosIdentity(r)
             \/ LookupRegistration(r) \/ InsertConflicts(r) \/ GrantLogin(r)
             \/ CountIdentities(r) \/ CheckOwner(r) \/ SoftDelete(r) \/ Fail(r)
     PROVE  OnePrimaryPerAccount'
  BY <1>5 DEF ResolveToken, VerifyNonce, GetDel, AdoptIdentity, RefuseLinkedWallet,
     WalletUnknown, CreateKratosIdentity, LookupRegistration, InsertConflicts,
     GrantLogin, CountIdentities, IsLast, CheckOwner, Owns, SoftDelete, Fail
<1>6. CASE UNCHANGED vars
  BY <1>6 DEF vars
<1> HIDE DEF IInv, TypeOK, HandlersConsistent, ArgumentsConsistent, RowsConsistent,
         OnePrimaryPerAccount, redis, pg, ory, locals, Goto, Reply, Kind, Row, Request,
         Endpoints, KratosIds, Users, InFlight, Answered
<1>7. QED
  BY <1>1, <1>2, <1>3, <1>4, <1>5, <1>6 DEF Next, Step

\* A Kratos identity gets its row, or its request an error.
LEMMA OrphansStep == IInv /\ [Next]_vars => OrphansComeFromErrors'
<1> SUFFICES ASSUME IInv, [Next]_vars PROVE OrphansComeFromErrors'
  OBVIOUS
<1> USE DistinctNames DEF IInv, TypeOK, HandlersConsistent, KratosConsistent,
        OrphansComeFromErrors, redis, pg, ory, locals, Goto, Reply, Kind, Row, Request,
        Endpoints, KratosIds, Users, InFlight, Answered
<1>1. CASE Environment
  BY <1>1 DEF Environment, IssueChallenge, NonceExpires, KratosRegisters
<1>2. ASSUME NEW r \in Requests, Arrival(r)
     PROVE  OrphansComeFromErrors'
  BY <1>2 DEF Arrival, ArriveLogin, ArriveLink, ArriveUnlink, ArriveAdminUnlink,
            ArriveWebhook, Arrive, Signed, Unlink, Registered
<1>3. ASSUME NEW r \in Requests, CreateAccount(r)
     PROVE  OrphansComeFromErrors'
  BY <1>3 DEF CreateAccount, NewRow, AccountOf, IsPrimary
<1>4. ASSUME NEW r \in Requests, LinkIdentity(r)
     PROVE  OrphansComeFromErrors'
  BY <1>4 DEF LinkIdentity, NewRow, AccountOf, IsPrimary
<1>5. ASSUME NEW r \in Requests,
             ResolveToken(r) \/ VerifyNonce(r) \/ AdoptIdentity(r)
             \/ RefuseLinkedWallet(r) \/ WalletUnknown(r) \/ CreateKratosIdentity(r)
             \/ LookupRegistration(r) \/ InsertConflicts(r) \/ GrantLogin(r)
             \/ CountIdentities(r) \/ CheckOwner(r) \/ SoftDelete(r) \/ Fail(r)
     PROVE  OrphansComeFromErrors'
  BY <1>5 DEF ResolveToken, VerifyNonce, GetDel, AdoptIdentity, RefuseLinkedWallet,
     WalletUnknown, CreateKratosIdentity, LookupRegistration, InsertConflicts,
     GrantLogin, CountIdentities, IsLast, CheckOwner, Owns, SoftDelete, Fail
<1>6. CASE UNCHANGED vars
  BY <1>6 DEF vars
<1> HIDE DEF IInv, TypeOK, HandlersConsistent, KratosConsistent, OrphansComeFromErrors,
         redis, pg, ory, locals, Goto, Reply, Kind, Row, Request, Endpoints, KratosIds,
         Users, InFlight, Answered
<1>7. QED
  BY <1>1, <1>2, <1>3, <1>4, <1>5, <1>6 DEF Next, Step

\* Nothing is done for a wallet, and nothing granted, before the proof.
LEMMA ProofsStep == IInv /\ [Next]_vars => ProofsComeFirst'
<1> SUFFICES ASSUME IInv, [Next]_vars PROVE ProofsComeFirst'
  OBVIOUS
<1> USE DistinctNames DEF IInv, TypeOK, HandlersConsistent, ArgumentsConsistent,
        ProofsComeFirst, redis, pg, ory, locals, Goto, Reply, Kind, Row, Request,
        Endpoints, KratosIds, Users, InFlight, Answered
<1>1. CASE Environment
  BY <1>1 DEF Environment, IssueChallenge, NonceExpires, KratosRegisters
<1>2. ASSUME NEW r \in Requests, Arrival(r)
     PROVE  ProofsComeFirst'
  <2>1. PICK q \in Request, p \in {"nonce", "auth", "delete", "registered"} :
           /\ pc[r] = "idle" /\ pc' = [pc EXCEPT ![r] = p] /\ req' = [req EXCEPT ![r] = q]
           /\ \A s \in Requests : s # r => subject'[s] = subject[s]
           /\ UNCHANGED <<rows, sessions, proved>>
    BY <1>2, ArrivalShape DEF Arrive
  <2>2. r \notin proved /\ \A x \in rows : x.id # r
    BY <2>1 DEF RowsConsistent, NoncesConsistent
  <2>3. QED
    BY <2>1, <2>2
<1>3. ASSUME NEW r \in Requests, CreateAccount(r)
     PROVE  ProofsComeFirst'
  BY <1>3, NewRowType DEF CreateAccount, NewRow
<1>4. ASSUME NEW r \in Requests, LinkIdentity(r)
     PROVE  ProofsComeFirst'
  BY <1>4, NewRowType DEF LinkIdentity, NewRow
<1>5. ASSUME NEW r \in Requests, GrantLogin(r)
     PROVE  ProofsComeFirst'
  <2>1. \E x \in rows : x.kratos = subject[r] /\ x.user = req[r].wallet
    BY <1>5 DEF GrantLogin, LoginSpeaksForWallet, Logins
  <2>2. r \in proved
    BY <1>5 DEF GrantLogin
  <2>3. QED
    BY <1>5, <2>1, <2>2 DEF GrantLogin
<1>6. ASSUME NEW r \in Requests, ResolveToken(r) \/ VerifyNonce(r) \/ AdoptIdentity(r)
     PROVE  ProofsComeFirst'
  BY <1>6 DEF ResolveToken, VerifyNonce, GetDel, AdoptIdentity
<1>7. ASSUME NEW r \in Requests,
             RefuseLinkedWallet(r) \/ WalletUnknown(r) \/ CreateKratosIdentity(r)
             \/ LookupRegistration(r) \/ InsertConflicts(r) \/ CountIdentities(r)
             \/ CheckOwner(r) \/ SoftDelete(r) \/ Fail(r)
     PROVE  ProofsComeFirst'
  BY <1>7 DEF RefuseLinkedWallet, WalletUnknown, CreateKratosIdentity, LookupRegistration,
     InsertConflicts, CountIdentities, IsLast, CheckOwner, Owns, SoftDelete, Fail
<1>8. CASE UNCHANGED vars
  BY <1>8 DEF vars
<1> HIDE DEF IInv, TypeOK, HandlersConsistent, ArgumentsConsistent, ProofsComeFirst,
         redis, pg, ory, locals, Goto, Reply, Kind, Row, Request, Endpoints, KratosIds,
         Users, InFlight, Answered
<1>9. QED
  BY <1>1, <1>2, <1>3, <1>4, <1>5, <1>6, <1>7, <1>8 DEF Next, Step

\* No step forgets an unlink, and an arriving request notes those before it.
LEMMA ArrivalsStep == IInv /\ [Next]_vars => ArrivalsConsistent'
<1> SUFFICES ASSUME IInv, [Next]_vars PROVE ArrivalsConsistent'
  OBVIOUS
<1> USE DEF IInv, TypeOK, ArrivalsConsistent, redis, pg, ory, locals, Goto, Reply
<1>1. CASE Environment
  BY <1>1 DEF Environment, IssueChallenge, NonceExpires, KratosRegisters
<1>2. ASSUME NEW r \in Requests, Arrival(r)
     PROVE  ArrivalsConsistent'
  BY <1>2, ArrivalShape DEF Arrive
<1>3. ASSUME NEW r \in Requests, ResolveToken(r) \/ AdoptIdentity(r) \/ CreateAccount(r)
     PROVE  ArrivalsConsistent'
  BY <1>3 DEF ResolveToken, AdoptIdentity, CreateAccount
<1>4. ASSUME NEW r \in Requests, SoftDelete(r)
     PROVE  ArrivalsConsistent'
  BY <1>4 DEF SoftDelete
<1>5. ASSUME NEW r \in Requests,
             VerifyNonce(r) \/ RefuseLinkedWallet(r) \/ WalletUnknown(r)
             \/ CreateKratosIdentity(r) \/ LookupRegistration(r) \/ LinkIdentity(r)
             \/ InsertConflicts(r) \/ GrantLogin(r) \/ CountIdentities(r)
             \/ CheckOwner(r) \/ Fail(r)
     PROVE  ArrivalsConsistent'
  BY <1>5 DEF VerifyNonce, GetDel, RefuseLinkedWallet, WalletUnknown, CreateKratosIdentity,
     LookupRegistration, LinkIdentity, InsertConflicts, GrantLogin, CountIdentities, IsLast,
     CheckOwner, Owns, Fail, InFlight
<1>6. CASE UNCHANGED vars
  BY <1>6 DEF vars
<1> HIDE DEF IInv, TypeOK, ArrivalsConsistent, redis, pg, ory, locals, Goto, Reply
<1>7. QED
  BY <1>1, <1>2, <1>3, <1>4, <1>5, <1>6 DEF Next, Step

\* An account is resolved through an identity that is linked at that moment, and
\* the row a handler inserts is none that was unlinked before.
LEMMA UnlinkBarsStep == IInv /\ [Next]_vars => UnlinkBarsLaterRequests'
<1> SUFFICES ASSUME IInv, [Next]_vars PROVE UnlinkBarsLaterRequests'
  OBVIOUS
<1> USE DEF IInv, TypeOK, ArrivalsConsistent, UnlinkBarsLaterRequests, redis, pg, ory,
        locals, Goto, Reply
<1>1. CASE Environment
  BY <1>1 DEF Environment, IssueChallenge, NonceExpires, KratosRegisters
<1>2. ASSUME NEW r \in Requests, Arrival(r)
     PROVE  UnlinkBarsLaterRequests'
  BY <1>2, ArrivalShape DEF Arrive
<1>3. ASSUME NEW r \in Requests, ResolveToken(r)
     PROVE  UnlinkBarsLaterRequests'
  BY <1>3 DEF ResolveToken, ActiveOfKratos, Active, OneRowPerKey
<1>4. ASSUME NEW r \in Requests, AdoptIdentity(r)
     PROVE  UnlinkBarsLaterRequests'
  BY <1>4 DEF AdoptIdentity, ActiveOfUser, Active, OneRowPerKey
<1>5. ASSUME NEW r \in Requests, pc[r] = "insert"
     PROVE  NewRow(r).id = r /\ \A s \in Requests : r \notin gone[s]
  BY <1>5 DEF NewRow, RowsConsistent
<1>6. ASSUME NEW r \in Requests, CreateAccount(r)
     PROVE  UnlinkBarsLaterRequests'
  <2>1. /\ rows' = rows \cup {NewRow(r)} /\ gone' = gone
        /\ subject' = [subject EXCEPT ![r] = NewRow(r).kratos]
        /\ account' = [account EXCEPT ![r] = r]
    BY <1>6 DEF CreateAccount
  <2>2. \A x \in rows : x.kratos # NewRow(r).kratos
    BY <1>6 DEF CreateAccount, UniqueKeys
  <2>3. NewRow(r).id = r /\ \A s \in Requests : r \notin gone[s]
    BY <1>5, <1>6 DEF CreateAccount
  <2>4. QED
    BY <2>1, <2>2, <2>3
<1>7. ASSUME NEW r \in Requests, LinkIdentity(r)
     PROVE  UnlinkBarsLaterRequests'
  BY <1>5, <1>7 DEF LinkIdentity
<1>8. ASSUME NEW r \in Requests,
             VerifyNonce(r) \/ RefuseLinkedWallet(r) \/ WalletUnknown(r)
             \/ CreateKratosIdentity(r) \/ LookupRegistration(r) \/ InsertConflicts(r)
             \/ GrantLogin(r) \/ CountIdentities(r) \/ CheckOwner(r) \/ SoftDelete(r)
             \/ Fail(r)
     PROVE  UnlinkBarsLaterRequests'
  BY <1>8 DEF VerifyNonce, RefuseLinkedWallet, WalletUnknown, CreateKratosIdentity,
     LookupRegistration, InsertConflicts, GrantLogin, CountIdentities, CheckOwner,
     SoftDelete, Fail
<1>9. CASE UNCHANGED vars
  BY <1>9 DEF vars
<1> HIDE DEF IInv, TypeOK, ArrivalsConsistent, UnlinkBarsLaterRequests, redis, pg, ory,
         locals, Goto, Reply
<1>10. QED
  BY <1>1, <1>2, <1>3, <1>4, <1>6, <1>7, <1>8, <1>9 DEF Next, Step

\* The empty stores satisfy the inductive invariant.
LEMMA InitIInv == Init => IInv
<1> SUFFICES ASSUME Init PROVE IInv
  OBVIOUS
<1>1. TypeOK
  BY DEF Init, TypeOK
<1>2. HandlersConsistent /\ ArgumentsConsistent /\ NoncesConsistent /\ KratosConsistent
  BY DEF Init, HandlersConsistent, ArgumentsConsistent, NoncesConsistent, KratosConsistent
<1>3. RowsConsistent /\ UnlinkersConsistent
  BY DEF Init, RowsConsistent, UnlinkersConsistent
<1>4. NonceProvesOnce /\ OneRowPerKey /\ LoginSpeaksForWallet
  BY DEF Init, NonceProvesOnce, OneRowPerKey, LoginSpeaksForWallet, Logins
<1>5. OnePrimaryPerAccount /\ OrphansComeFromErrors /\ ProofsComeFirst
  BY DEF Init, OnePrimaryPerAccount, OrphansComeFromErrors, ProofsComeFirst
<1>6. ArrivalsConsistent /\ UnlinkBarsLaterRequests
  BY DEF Init, ArrivalsConsistent, UnlinkBarsLaterRequests
<1>7. QED
  BY <1>1, <1>2, <1>3, <1>4, <1>5, <1>6 DEF IInv

\* The inductive invariant of the specification, for any number of requests,
\* wallets, nonces and registrations.
THEOREM Invariance == Spec => []IInv
<1>1. IInv /\ [Next]_vars => IInv'
  BY TypeStep, HandlersStep, ArgumentsStep, NoncesStep, RowsStep, KratosStep,
     UnlinkersStep, NonceProvesOnceStep, OneRowPerKeyStep, LoginStep, OnePrimaryStep,
     OrphansStep, ProofsStep, ArrivalsStep, UnlinkBarsStep DEF IInv
<1>2. QED
  BY InitIInv, <1>1, PTL DEF Spec

\* Every variable keeps its type.
THEOREM TypeCorrect == Spec => []TypeOK
<1>1. IInv => TypeOK
  BY DEF IInv
<1>2. QED
  BY <1>1, Invariance, PTL

\* A nonce is accepted from at most one request: NonceService.Verify's GETDEL.
THEOREM NonceSafety == Spec => []NonceProvesOnce
<1>1. IInv => NonceProvesOnce
  BY DEF IInv
<1>2. QED
  BY <1>1, Invariance, PTL

\* Concurrent find-or-create never gives one wallet two identities.
THEOREM KeySafety == Spec => []OneRowPerKey
<1>1. IInv => OneRowPerKey
  BY DEF IInv
<1>2. QED
  BY <1>1, Invariance, PTL

\* A granted login speaks for the wallet that signed.
THEOREM LoginSafety == Spec => []LoginSpeaksForWallet
<1>1. IInv => LoginSpeaksForWallet
  BY DEF IInv
<1>2. QED
  BY <1>1, Invariance, PTL

\* Every account has exactly one primary identity and every identity an account.
THEOREM AccountSafety == Spec => []OnePrimaryPerAccount
<1>1. IInv => OnePrimaryPerAccount
  BY DEF IInv
<1>2. QED
  BY <1>1, Invariance, PTL

\* Kratos identities without a row come only from requests answered with an error.
THEOREM OrphanSafety == Spec => []OrphansComeFromErrors
<1>1. IInv => OrphansComeFromErrors
  BY DEF IInv
<1>2. QED
  BY <1>1, Invariance, PTL

\* Nothing is created or granted for a wallet before the request has proved it.
THEOREM ProofSafety == Spec => []ProofsComeFirst
<1>1. IInv => ProofsComeFirst
  BY DEF IInv
<1>2. QED
  BY <1>1, Invariance, PTL

\* An unlinked identity serves no request that comes after the unlink.
THEOREM UnlinkBars == Spec => []UnlinkBarsLaterRequests
<1>1. IInv => UnlinkBarsLaterRequests
  BY DEF IInv
<1>2. QED
  BY <1>1, Invariance, PTL

\* Only SoftDelete unlinks, and it unlinks the target of its request.
LEMMA OnlySoftDeleteUnlinks ==
    ASSUME [Next]_vars, unlinked' # unlinked
    PROVE  \E r \in Requests : SoftDelete(r)
<1> USE DEF redis, pg, ory, locals
<1>1. PICK r \in Requests : Arrival(r) \/ Step(r) \/ Fail(r)
  BY DEF Next, vars, Environment, IssueChallenge, NonceExpires, KratosRegisters
<1>2. ~Arrival(r) /\ ~Fail(r)
  BY DEF Arrival, ArriveLogin, ArriveLink, ArriveUnlink, ArriveAdminUnlink, ArriveWebhook,
         Arrive, Fail
<1>3. ASSUME ResolveToken(r) \/ VerifyNonce(r) \/ AdoptIdentity(r)
             \/ RefuseLinkedWallet(r) \/ WalletUnknown(r) \/ CreateKratosIdentity(r)
      PROVE  FALSE
  BY <1>3 DEF ResolveToken, VerifyNonce, GetDel, AdoptIdentity, RefuseLinkedWallet, WalletUnknown,
              CreateKratosIdentity
<1>4. ASSUME LookupRegistration(r) \/ CreateAccount(r) \/ LinkIdentity(r)
             \/ InsertConflicts(r) \/ GrantLogin(r) \/ CountIdentities(r) \/ CheckOwner(r)
      PROVE  FALSE
  BY <1>4 DEF LookupRegistration, CreateAccount, LinkIdentity, InsertConflicts, GrantLogin,
              CountIdentities, IsLast, CheckOwner, Owns
<1>5. QED
  BY <1>1, <1>2, <1>3, <1>4 DEF Step

\* No step removes a row.
LEMMA RowsStay ==
    ASSUME [Next]_vars
    PROVE  rows \subseteq rows'
<1> USE DEF redis, pg, ory, locals
<1>1. CASE UNCHANGED vars
  BY <1>1 DEF vars
<1>2. CASE Environment
  BY <1>2 DEF Environment, IssueChallenge, NonceExpires, KratosRegisters
<1>3. ASSUME NEW r \in Requests, Arrival(r) PROVE rows \subseteq rows'
  BY <1>3 DEF Arrival, ArriveLogin, ArriveLink, ArriveUnlink, ArriveAdminUnlink,
              ArriveWebhook, Arrive
<1>4. ASSUME NEW r \in Requests, ResolveToken(r) \/ VerifyNonce(r) \/ AdoptIdentity(r)
             \/ RefuseLinkedWallet(r) \/ WalletUnknown(r) \/ CreateKratosIdentity(r)
      PROVE  rows \subseteq rows'
  BY <1>4 DEF ResolveToken, VerifyNonce, AdoptIdentity, RefuseLinkedWallet, WalletUnknown,
              CreateKratosIdentity
<1>5. ASSUME NEW r \in Requests, LookupRegistration(r) \/ InsertConflicts(r) \/ GrantLogin(r)
             \/ CountIdentities(r) \/ CheckOwner(r) \/ SoftDelete(r) \/ Fail(r)
      PROVE  rows \subseteq rows'
  BY <1>5 DEF LookupRegistration, InsertConflicts, GrantLogin, CountIdentities, CheckOwner,
              SoftDelete, Fail
<1>6. ASSUME NEW r \in Requests, CreateAccount(r) \/ LinkIdentity(r)
      PROVE  rows \subseteq rows'
  BY <1>6 DEF CreateAccount, LinkIdentity
<1>7. QED
  BY <1>1, <1>2, <1>3, <1>4, <1>5, <1>6 DEF Next, Step

\* A user unlinks only identities of the account the token resolved to.
THEOREM UnlinkSafety == Spec => UnlinkStaysInAccount
<1> DEFINE A == \A x \in rows : x.id \in unlinked' \ unlinked =>
                  \E r \in Requests :
                     /\ pc[r] = "delete" /\ pc'[r] # "delete" /\ req[r].target = x.id
                     /\ Kind(r) = "adminUnlink" \/ account[r] = x.account
<1>1. IInv /\ [Next]_vars => [A]_vars
  <2> SUFFICES ASSUME IInv, [Next]_vars, NEW x \in rows, x.id \in unlinked' \ unlinked
               PROVE  \E r \in Requests :
                     /\ pc[r] = "delete" /\ pc'[r] # "delete" /\ req[r].target = x.id
                     /\ Kind(r) = "adminUnlink" \/ account[r] = x.account
    BY DEF vars
  <2>1. PICK r \in Requests : SoftDelete(r)
    BY OnlySoftDeleteUnlinks
  <2>2. pc[r] = "delete" /\ pc'[r] # "delete" /\ req[r].target = x.id
    BY <2>1 DEF SoftDelete, Reply, Goto, IInv, TypeOK
  <2>3. Kind(r) = "unlink" => account[r] = x.account
    BY <2>2 DEF IInv, UnlinkersConsistent, RowsConsistent
  <2>4. QED
    BY <2>2, <2>3 DEF IInv, HandlersConsistent
<1>2. QED
  BY <1>1, Invariance, PTL DEF Spec, UnlinkStaysInAccount

\* A set with more than one element has another element besides any given one.
LEMMA AnotherElement ==
    ASSUME NEW S, IsFiniteSet(S), Cardinality(S) > 1, NEW e
    PROVE  S \ {e} # {}
<1>1. ASSUME S \subseteq {e} PROVE FALSE
  <2>1. Cardinality(S) <= Cardinality({e})
    BY <1>1, FS_Singleton, FS_Subset
  <2>2. Cardinality({e}) = 1
    BY FS_Singleton
  <2>3. Cardinality(S) \in Nat
    BY FS_CardinalityType
  <2>4. QED
    BY <2>1, <2>2, <2>3
<1>2. QED
  BY <1>1

\* SafeUnlinkIdentity empties an account only when another unlink overlapped it.
THEOREM LastIdentitySafety == Spec => LastIdentityNeedsOverlap
<1> DEFINE A == \A a \in accounts :
                  ActiveOfAccount(a) # {} /\ ActiveOfAccount(a)' = {} =>
                    \E r \in Requests :
                       /\ pc[r] = "delete" /\ pc'[r] # "delete"
                       /\ \/ Kind(r) = "adminUnlink"
                          \/ \E id \in counted[r] \ {req[r].target} : id \in unlinked
<1>1. IInv /\ [Next]_vars => [A]_vars
  <2> SUFFICES ASSUME IInv, [Next]_vars, NEW a \in accounts,
                      ActiveOfAccount(a) # {}, ActiveOfAccount(a)' = {}
               PROVE  \E r \in Requests :
                       /\ pc[r] = "delete" /\ pc'[r] # "delete"
                       /\ \/ Kind(r) = "adminUnlink"
                          \/ \E id \in counted[r] \ {req[r].target} : id \in unlinked
    BY DEF vars, ActiveOfAccount, Active, pg
  <2>0. rows \subseteq rows'
    BY RowsStay
  <2>1. PICK y \in rows : y.account = a /\ y.id \notin unlinked
    BY DEF ActiveOfAccount, Active
  <2>2. y.id \in unlinked'
    BY <2>0, <2>1 DEF ActiveOfAccount, Active
  <2>3. PICK r \in Requests : SoftDelete(r)
    BY <2>1, <2>2, OnlySoftDeleteUnlinks
  <2>4. /\ pc[r] = "delete" /\ pc'[r] # "delete" /\ req[r].target = y.id
        /\ unlinked' = unlinked \cup {y.id} /\ rows' = rows
    BY <2>1, <2>2, <2>3 DEF SoftDelete, Reply, Goto, IInv, TypeOK
  <2>5. CASE Kind(r) = "adminUnlink"
    BY <2>4, <2>5
  <2>6. CASE Kind(r) = "unlink"
    <3>1. account[r] = a
      BY <2>1, <2>4, <2>6 DEF IInv, UnlinkersConsistent, RowsConsistent
    <3>2. Cardinality(counted[r]) > 1 /\ counted[r] \subseteq Requests
      BY <2>4, <2>6 DEF IInv, UnlinkersConsistent, TypeOK
    <3>3. IsFiniteSet(counted[r])
      BY <3>2, FiniteRequests, FS_Subset
    <3>4. PICK id \in counted[r] : id # y.id
      BY <3>2, <3>3, AnotherElement
    <3>5. PICK z \in rows : z.id = id /\ z.account = a
      BY <3>1, <3>4 DEF IInv, UnlinkersConsistent
    <3>6. z.id \in unlinked'
      BY <2>4, <3>5 DEF ActiveOfAccount, Active
    <3>7. id \in unlinked
      BY <2>4, <3>4, <3>5, <3>6
    <3>8. QED
      BY <2>4, <3>4, <3>7
  <2>7. QED
    BY <2>4, <2>5, <2>6 DEF IInv, HandlersConsistent
<1>2. QED
  BY <1>1, Invariance, PTL DEF Spec, LastIdentityNeedsOverlap

\* Every step of a handler is a step of the registry, or leaves it unchanged.
LEMMA RegistryStep ==
    IInv /\ [Next]_vars => [Registry!RegistryNext]_(Registry!registry)
<1> DEFINE Same == UNCHANGED <<rows, unlinked, sessions>>
<1> SUFFICES ASSUME IInv, [Next]_vars
             PROVE  Registry!RegistryNext \/ Same
  BY DEF Registry!registry
<1> USE DEF redis, pg, ory, locals
<1>1. CASE Environment
  <2>1. ASSUME NEW k \in Registrations, KratosRegisters(k)
        PROVE  Registry!LogIn(k) /\ k \in sessions'
    BY <2>1 DEF KratosRegisters, Registry!LogIn
  <2>2. QED
    BY <1>1, <2>1 DEF Environment, IssueChallenge, NonceExpires, Registry!RegistryNext
<1>2. ASSUME NEW r \in Requests, Arrival(r)
      PROVE  Same
  BY <1>2 DEF Arrival, ArriveLogin, ArriveLink, ArriveUnlink, ArriveAdminUnlink,
              ArriveWebhook, Arrive
<1>3. ASSUME NEW r \in Requests, pc[r] = "insert", UniqueKeys(NewRow(r)),
             rows' = rows \cup {NewRow(r)}
      PROVE  Registry!Fresh(NewRow(r)) /\ NewRow(r) \in rows'
  <2>1. NewRow(r).id = r
    BY DEF NewRow
  <2>2. \A x \in rows : x.id # r
    BY <1>3 DEF IInv, RowsConsistent
  <2>3. QED
    BY <1>3, <2>1, <2>2 DEF UniqueKeys, Registry!Fresh
<1>4. ASSUME NEW r \in Requests, CreateAccount(r)
      PROVE  \E x \in rows' : Registry!Open(x)
  <2>1. NewRow(r).account = r /\ NewRow(r).primary
    BY <1>4, NewRowType DEF CreateAccount, IInv
  <2>2. ASSUME NEW y \in rows, y.account = r PROVE FALSE
    <3>1. PICK x \in rows : x.account = r /\ x.primary
      BY <2>2 DEF IInv, OnePrimaryPerAccount
    <3>2. x.id = r
      BY <3>1 DEF IInv, RowsConsistent
    <3>3. QED
      BY <1>4, <3>2 DEF CreateAccount, IInv, RowsConsistent
  <2>3. Registry!Open(NewRow(r)) /\ NewRow(r) \in rows'
    BY <1>3, <1>4, <2>1, <2>2 DEF CreateAccount, Registry!Open
  <2>4. QED
    BY <2>3
<1>5. ASSUME NEW r \in Requests, LinkIdentity(r)
      PROVE  \E x \in rows' : Registry!Join(x)
  <2>1. NewRow(r).account = account[r] /\ ~NewRow(r).primary
    BY <1>5, NewRowType DEF LinkIdentity, IInv
  <2>2. \E y \in rows : y.account = account[r]
    BY <1>5 DEF LinkIdentity, IInv, OnePrimaryPerAccount
  <2>3. Registry!Join(NewRow(r)) /\ NewRow(r) \in rows'
    BY <1>3, <1>5, <2>1, <2>2 DEF LinkIdentity, Registry!Join
  <2>4. QED
    BY <2>3
<1>6. ASSUME NEW r \in Requests, SoftDelete(r)
      PROVE  \E x \in rows : Registry!SwitchOff(x)
  <2>1. PICK x \in rows : x.id = req[r].target
    BY <1>6 DEF SoftDelete, IInv, HandlersConsistent, ArgumentsConsistent
  <2>2. QED
    BY <1>6, <2>1 DEF SoftDelete, Registry!SwitchOff
<1>7. ASSUME NEW r \in Requests, GrantLogin(r)
      PROVE  \E k \in sessions' : Registry!LogIn(k)
  <2>1. r \in Logins
    BY <1>7 DEF GrantLogin, Logins, IInv, HandlersConsistent
  <2>2. \E x \in rows : x.kratos = subject[r]
    BY <1>7, <2>1 DEF GrantLogin, IInv, LoginSpeaksForWallet
  <2>3. QED
    BY <1>7, <2>2 DEF GrantLogin, Registry!LogIn
<1>8. ASSUME NEW r \in Requests,
             \/ ResolveToken(r) \/ VerifyNonce(r) \/ AdoptIdentity(r)
             \/ RefuseLinkedWallet(r) \/ WalletUnknown(r) \/ CreateKratosIdentity(r)
      PROVE  Same
  BY <1>8 DEF ResolveToken, VerifyNonce, AdoptIdentity, RefuseLinkedWallet, WalletUnknown,
              CreateKratosIdentity
<1>9. ASSUME NEW r \in Requests,
             \/ LookupRegistration(r) \/ InsertConflicts(r) \/ CountIdentities(r)
             \/ CheckOwner(r) \/ Fail(r)
      PROVE  Same
  BY <1>9 DEF LookupRegistration, InsertConflicts, CountIdentities, CheckOwner, Fail
<1>10. CASE UNCHANGED vars
  BY <1>10 DEF vars
<1>11. QED
  BY <1>1, <1>2, <1>4, <1>5, <1>6, <1>7, <1>8, <1>9, <1>10
     DEF Next, Step, Registry!RegistryNext

\* The handlers implement the registry for any number of concurrent requests.
THEOREM Implementation == Spec => ImplementsRegistry
<1>1. Init => Registry!RegistryInit
  BY DEF Init, Registry!RegistryInit
<1>2. QED
  BY <1>1, RegistryStep, Invariance, PTL
     DEF Spec, ImplementsRegistry, Registry!RegistrySpec
\* A step of a handler takes it forward, and no other handler with it.
LEMMA Advance ==
    ASSUME TypeOK, NEW r \in Requests, Step(r) \/ Fail(r)
    PROVE  \E p \in InFlight \cup Answered :
              pc' = [pc EXCEPT ![r] = p] /\ Remaining(p) < Remaining(pc[r])
<1> USE DEF Goto, Reply, Remaining, InFlight, Answered
<1>1. ASSUME ResolveToken(r) \/ VerifyNonce(r)
      PROVE  \E p \in InFlight \cup Answered :
                pc' = [pc EXCEPT ![r] = p] /\ Remaining(p) < Remaining(pc[r])
  BY <1>1 DEF ResolveToken, VerifyNonce
<1>2. ASSUME AdoptIdentity(r) \/ RefuseLinkedWallet(r) \/ WalletUnknown(r)
             \/ CreateKratosIdentity(r) \/ LookupRegistration(r)
      PROVE  \E p \in InFlight \cup Answered :
                pc' = [pc EXCEPT ![r] = p] /\ Remaining(p) < Remaining(pc[r])
  BY <1>2 DEF AdoptIdentity, RefuseLinkedWallet, WalletUnknown, CreateKratosIdentity,
              LookupRegistration
<1>3. ASSUME CreateAccount(r) \/ LinkIdentity(r) \/ InsertConflicts(r) \/ GrantLogin(r)
      PROVE  \E p \in InFlight \cup Answered :
                pc' = [pc EXCEPT ![r] = p] /\ Remaining(p) < Remaining(pc[r])
  BY <1>3 DEF CreateAccount, LinkIdentity, InsertConflicts, GrantLogin
<1>4. ASSUME CountIdentities(r) \/ CheckOwner(r) \/ SoftDelete(r) \/ Fail(r)
      PROVE  \E p \in InFlight \cup Answered :
                pc' = [pc EXCEPT ![r] = p] /\ Remaining(p) < Remaining(pc[r])
  BY <1>4 DEF CountIdentities, CheckOwner, SoftDelete, Fail
<1>5. QED
  BY <1>1, <1>2, <1>3, <1>4 DEF Step

\* No handler goes back, and each of its steps is a step forward.
THEOREM HandlersSafety == Spec => HandlersAdvance
<1> DEFINE A == \A r \in Requests :
                  /\ pc'[r] = pc[r] \/ Remaining(pc'[r]) < Remaining(pc[r])
                  /\ Step(r) => pc'[r] # pc[r]
<1>1. IInv /\ [Next]_vars => [A]_vars
  <2> SUFFICES ASSUME IInv, Next, NEW r \in Requests
               PROVE  /\ pc'[r] = pc[r] \/ Remaining(pc'[r]) < Remaining(pc[r])
                      /\ Step(r) => pc'[r] # pc[r]
    BY DEF vars
  <2>0. TypeOK
    BY DEF IInv
  <2>1. Step(r) => pc'[r] # pc[r]
    BY <2>0, Advance DEF TypeOK, Remaining
  <2>2. CASE Environment
    BY <2>1, <2>2 DEF Environment, IssueChallenge, NonceExpires, KratosRegisters
  <2>3. ASSUME NEW s \in Requests, Arrival(s)
        PROVE  pc'[r] = pc[r] \/ Remaining(pc'[r]) < Remaining(pc[r])
    <3>1. /\ pc[s] = "idle"
          /\ \E p \in {"nonce", "auth", "delete", "registered"} : pc' = [pc EXCEPT ![s] = p]
      BY <2>0, <2>3, ArrivalShape DEF Arrive, Goto
    <3>2. QED
      BY <2>0, <3>1 DEF TypeOK, Remaining
  <2>4. ASSUME NEW s \in Requests, Step(s) \/ Fail(s)
        PROVE  pc'[r] = pc[r] \/ Remaining(pc'[r]) < Remaining(pc[r])
    BY <2>0, <2>4, Advance DEF TypeOK
  <2>5. QED
    BY <2>1, <2>2, <2>3, <2>4 DEF Next
<1>2. QED
  BY <1>1, Invariance, PTL DEF Spec, HandlersAdvance

\* What is proved of the registry holds of the stores that implement it.
Facts == INSTANCE IdentityRegistryProofs
    WITH bound <- rows, off <- unlinked, loggedIn <- sessions

LEMMA StoresAreARegistry == Spec => Facts!RegistrySpec
  BY Implementation DEF ImplementsRegistry, Registry!RegistrySpec, Facts!RegistrySpec,
     Registry!RegistryInit, Facts!RegistryInit, Registry!RegistryNext, Facts!RegistryNext,
     Registry!registry, Facts!registry, Registry!Open, Facts!Open, Registry!Join, Facts!Join,
     Registry!SwitchOff, Facts!SwitchOff, Registry!LogIn, Facts!LogIn,
     Registry!Fresh, Facts!Fresh

\* In the stores too, users are bound once, accounts opened once, and nobody has
\* logged in whom Kratos did not register and PostgreSQL does not know.
THEOREM StoresSafety == Spec => []Facts!RegistryInv
  BY StoresAreARegistry, Facts!RegistrySafety, PTL

\* No handler takes back what another has stored: rows are only added, one at a
\* time, and an unlinked identity is never linked again.
THEOREM StoresGrow == Spec => Facts!BindingsAreForGood
  BY StoresAreARegistry, Facts!RegistryGrowth, PTL

\* A link joins only an account that existed before, and a first login opens a
\* new one, even when two handlers insert for the same wallet.
THEOREM StoresLinks == Spec => Facts!LinksJoinAccounts
  BY StoresAreARegistry, Facts!RegistryLinks, PTL
=============================================================================
