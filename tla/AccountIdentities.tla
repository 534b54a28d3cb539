------------------------- MODULE AccountIdentities -------------------------
(***************************************************************************)
(* Wallet login, account linking and unlinking in the Go backend, at the   *)
(* grain at which request handlers interleave: one step per call to Redis, *)
(* PostgreSQL, Ory Kratos or Ory Hydra.  Handlers share nothing in memory; *)
(* they meet only in these stores.                                         *)
(*                                                                         *)
(* A request is served once, so everything a handler creates with          *)
(* uuid.New() (account, identity) or asks Kratos to create is named by the *)
(* request itself.  A call that changes a store may take effect and still  *)
(* fail for its caller (lost reply, cancelled context): see Reply.         *)
(***************************************************************************)
EXTENDS Naturals, FiniteSets

CONSTANTS
    Requests,       \* the HTTP requests the backend serves
    Wallets,        \* EOA addresses, lower-cased by every handler
    Registrations,  \* Kratos identities created by email or OIDC sign-up
    Nonces,         \* the random hex strings NonceService.Generate draws
    Kinds,          \* the endpoints the clients of this instance call
    None            \* an absent value (Go nil, SQL NULL, redis.Nil)

Endpoints == {"verify", "authenticate", "link", "unlink", "adminUnlink", "webhook"}

KratosIds == Requests \cup Registrations
Users     == Wallets \cup Registrations    \* values of provider_user_id

\* UUIDs and addresses of different origin never coincide.
ASSUME DistinctNames ==
    /\ Requests \cap Registrations = {}
    /\ Wallets \cap Registrations = {}
    /\ None \notin Requests \cup Wallets \cup Registrations \cup Nonces
    /\ Kinds \subseteq Endpoints

\* The number of requests is bounded by nothing but is finite.
ASSUME FiniteRequests == IsFiniteSet(Requests)

VARIABLES
    nonce,      \* Redis: the live nonce of each wallet, None after GETDEL or expiry
    challenge,  \* the wallet each nonce was issued to, in the message it signs
    accounts,   \* PostgreSQL: accounts
    rows,       \* PostgreSQL: account_identities, unlinked rows included
    unlinked,   \* PostgreSQL: identity ids whose unlinked_at is set
    kratos,     \* Kratos: existing identities
    sessions,   \* Kratos ids a session or an OAuth2 login was granted to
    pc,         \* the next call of each handler, or its answer
    req,        \* the request each handler was given
    gone,       \* history: the identities already unlinked when the request came
    subject,    \* Kratos id: token sub, webhook identity, or login subject
    account,    \* the account a handler acts for
    counted,    \* the identities CountActiveIdentitiesByAccountID counted
    proved      \* history: requests whose nonce and signature were accepted

redis  == <<nonce, challenge>>
pg     == <<accounts, rows, unlinked>>
ory    == <<kratos, sessions>>
locals == <<req, gone, subject, account, counted, proved>>
vars   == <<redis, pg, ory, pc, locals>>

Row == [id: Requests, account: Requests, kratos: KratosIds, user: Users,
        primary: BOOLEAN]

Request == [kind: Endpoints, wallet: Wallets \cup {None}, nonce: Nonces \cup {None},
            signed: BOOLEAN, target: Requests \cup {None}]

InFlight == {"auth", "nonce", "lookup", "kratos", "insert", "grant",
             "count", "owner", "delete", "registered"}
Answered == {"ok", "rejected", "conflict", "failed"}

TypeOK ==
    /\ nonce \in [Wallets -> Nonces \cup {None}]
    /\ challenge \in [Nonces -> Wallets \cup {None}]
    /\ accounts \subseteq Requests
    /\ rows \subseteq Row
    /\ unlinked \subseteq Requests
    /\ kratos \subseteq KratosIds
    /\ sessions \subseteq KratosIds
    /\ pc \in [Requests -> {"idle"} \cup InFlight \cup Answered]
    /\ req \in [Requests -> Request \cup {None}]
    /\ gone \in [Requests -> SUBSET Requests]
    /\ subject \in [Requests -> KratosIds \cup {None}]
    /\ account \in [Requests -> Requests \cup {None}]
    /\ counted \in [Requests -> SUBSET Requests]
    /\ proved \subseteq Requests

Init ==
    /\ nonce = [w \in Wallets |-> None]
    /\ challenge = [n \in Nonces |-> None]
    /\ accounts = {} /\ rows = {} /\ unlinked = {}
    /\ kratos = {} /\ sessions = {}
    /\ pc = [r \in Requests |-> "idle"]
    /\ req = [r \in Requests |-> None]
    /\ gone = [r \in Requests |-> {}]
    /\ subject = [r \in Requests |-> None]
    /\ account = [r \in Requests |-> None]
    /\ counted = [r \in Requests |-> {}]
    /\ proved = {}

-----------------------------------------------------------------------------
(* Queries: every lookup filters on unlinked_at IS NULL.  A definition     *)
(* marked "Variant" is a form the code does not have; no action uses it.   *)

Active(x) == x.id \notin unlinked

\* GetAccountIdentityByProviderUserID.  (Variant: without the filter.)
RowsOfUser(u)       == {x \in rows : x.user = u}
ActiveOfUser(u)     == {x \in rows : x.user = u /\ Active(x)}

\* GetAccountIdentityByKratosID, and the identities of an account.
ActiveOfKratos(k)   == {x \in rows : x.kratos = k /\ Active(x)}
ActiveOfAccount(a)  == {x \in rows : x.account = a /\ Active(x)}

\* The two UNIQUE indexes of account_identities; neither is partial on
\* unlinked_at, so a soft-deleted row still occupies its keys.  (Variant: they are.)
UniqueActiveKeys(x) == \A y \in rows : Active(y) => y.user # x.user /\ y.kratos # x.kratos
UniqueKeys(x)       == \A y \in rows : y.user # x.user /\ y.kratos # x.kratos

-----------------------------------------------------------------------------
(* Steps of a handler.                                                     *)

Kind(r) == req[r].kind

Goto(r, p) == pc' = [pc EXCEPT ![r] = p]

\* A call took effect: the handler goes on to p, or the reply was lost.
Reply(r, p) == Goto(r, p) \/ Goto(r, "failed")

Arrive(r, q, k, p) ==
    /\ pc[r] = "idle"
    /\ q.kind \in Kinds
    /\ req' = [req EXCEPT ![r] = q]
    /\ gone' = [gone EXCEPT ![r] = unlinked]
    /\ subject' = [subject EXCEPT ![r] = k]
    /\ Goto(r, p)
    /\ UNCHANGED <<redis, pg, ory, account, counted, proved>>

\* GET /siwe/nonce and GET /auth/challenge: SET overwrites an earlier nonce.
IssueChallenge(w, n) ==
    /\ challenge[n] = None
    /\ challenge' = [challenge EXCEPT ![n] = w]
    /\ nonce' = [nonce EXCEPT ![w] = n]
    /\ UNCHANGED <<pg, ory, pc, locals>>

\* Redis drops the key when the TTL given to SET has passed.
NonceExpires(w) ==
    /\ nonce[w] # None
    /\ nonce' = [nonce EXCEPT ![w] = None]
    /\ UNCHANGED <<challenge, pg, ory, pc, locals>>

\* Email or OIDC sign-up inside Kratos; its `session` hook logs the user in.
KratosRegisters(k) ==
    /\ k \notin kratos
    /\ kratos' = kratos \cup {k}
    /\ sessions' = sessions \cup {k}
    /\ UNCHANGED <<redis, pg, pc, locals>>

\* Nonce n of some challenge, possibly presented before, with a message and a
\* signature that pass the handler's checks or do not.  The SIWE message contains
\* its nonce; /auth/verify takes nonce, message and address apart and never compares
\* them, so there `signed` may also stand for a message signed for an earlier nonce.
Signed(kind, n, signed) ==
    [kind |-> kind, wallet |-> challenge[n], nonce |-> n, signed |-> signed,
     target |-> None]

ArriveLogin(r, kind, n, signed) ==
    /\ kind \in {"verify", "authenticate"}
    /\ challenge[n] # None
    /\ Arrive(r, Signed(kind, n, signed), None, "nonce")

\* POST /auth/siwe/link with the bearer token of a subject who once logged in.
ArriveLink(r, n, signed, k) ==
    /\ challenge[n] # None
    /\ k \in sessions
    /\ Arrive(r, Signed("link", n, signed), k, "auth")

Unlink(kind, id) ==
    [kind |-> kind, wallet |-> None, nonce |-> None, signed |-> FALSE, target |-> id]

\* DELETE /accounts/me/identities/:id
ArriveUnlink(r, k, id) ==
    /\ k \in sessions
    /\ \E x \in rows : x.id = id
    /\ Arrive(r, Unlink("unlink", id), k, "auth")

\* DELETE /identities/:id goes straight to the soft delete.
ArriveAdminUnlink(r, id) ==
    /\ \E x \in rows : x.id = id
    /\ Arrive(r, Unlink("adminUnlink", id), None, "delete")

Registered ==
    [kind |-> "webhook", wallet |-> None, nonce |-> None, signed |-> FALSE, target |-> None]

\* Kratos delivers its registration hook, once or again.
ArriveWebhook(r, k) ==
    /\ k \in kratos \cap Registrations
    /\ Arrive(r, Registered, k, "registered")

\* jwtAuthMiddleware: the token's sub names an active identity, whose account
\* the handler keeps for the rest of the request.
ResolveToken(r) ==
    /\ pc[r] = "auth"
    /\ \/ \E x \in ActiveOfKratos(subject[r]) :
             /\ account' = [account EXCEPT ![r] = x.account]
             /\ Goto(r, IF Kind(r) = "link" THEN "nonce" ELSE "count")
       \/ /\ ActiveOfKratos(subject[r]) = {}
          /\ Goto(r, "rejected")
          /\ UNCHANGED account
    /\ UNCHANGED <<redis, pg, ory, req, gone, subject, counted, proved>>

\* Redis reads a wallet's key and deletes it in one command.  (Variant: GET.)
Get(w)    == UNCHANGED nonce
GetDel(w) == nonce' = [nonce EXCEPT ![w] = None]

\* NonceService.Verify and the signature check that follows it: the nonce is
\* gone whatever the comparison says.
VerifyNonce(r) ==
    LET w  == req[r].wallet
        ok == nonce[w] = req[r].nonce /\ req[r].signed
    IN  /\ pc[r] = "nonce"
        /\ GetDel(w)
        /\ proved' = IF ok THEN proved \cup {r} ELSE proved
        /\ Reply(r, IF ok THEN "lookup" ELSE "rejected")
        /\ UNCHANGED <<challenge, pg, ory, req, gone, subject, account, counted>>

\* GetIdentityByProviderUserID, for a login: adopt the identity it finds.
AdoptIdentity(r) ==
    /\ pc[r] = "lookup"
    /\ Kind(r) # "link"
    /\ \E x \in ActiveOfUser(req[r].wallet) :
          /\ subject' = [subject EXCEPT ![r] = x.kratos]
          /\ account' = [account EXCEPT ![r] = x.account]
    /\ Goto(r, "grant")
    /\ UNCHANGED <<redis, pg, ory, req, gone, counted, proved>>

\* The same lookup, for a link: "this wallet is already linked to an account".
RefuseLinkedWallet(r) ==
    /\ pc[r] = "lookup"
    /\ Kind(r) = "link"
    /\ ActiveOfUser(req[r].wallet) # {}
    /\ Goto(r, "rejected")
    /\ UNCHANGED <<redis, pg, ory, locals>>

\* The lookup finds nothing; no lock is held while the handler goes on.
WalletUnknown(r) ==
    /\ pc[r] = "lookup"
    /\ ActiveOfUser(req[r].wallet) = {}
    /\ Goto(r, "kratos")
    /\ UNCHANGED <<redis, pg, ory, locals>>

\* CreateIdentityWithWallet: wallet_address is no Kratos credential, so Kratos
\* accepts the same wallet again and again.
CreateKratosIdentity(r) ==
    /\ pc[r] = "kratos"
    /\ kratos' = kratos \cup {r}
    /\ Reply(r, "insert")
    /\ UNCHANGED <<redis, pg, sessions, locals>>

\* GetAccountByKratosIdentityID in HandleRegistrationWebhook, whose error is
\* discarded: a failed lookup counts as "no account yet".
LookupRegistration(r) ==
    /\ pc[r] = "registered"
    /\ \/ ActiveOfKratos(subject[r]) # {} /\ Goto(r, "ok")
       \/ Goto(r, "insert")
    /\ UNCHANGED <<redis, pg, ory, locals>>

\* The account a new identity belongs to.  (Variant: always the token's.)
AccountOfToken(r) == account[r]
AccountOf(r)      == IF Kind(r) = "link" THEN account[r] ELSE r

\* IsPrimary is true in CreateAccountWithIdentity only.  (Variant: always.)
AlwaysPrimary(r)  == TRUE
IsPrimary(r)      == Kind(r) # "link"

NewRow(r) ==
    [id |-> r,
     account |-> AccountOf(r),
     kratos  |-> IF Kind(r) = "webhook" THEN subject[r] ELSE r,
     user    |-> IF Kind(r) = "webhook" THEN subject[r] ELSE req[r].wallet,
     primary |-> IsPrimary(r)]

\* CreateAccountWithIdentity: account and primary identity in one transaction.
CreateAccount(r) ==
    /\ pc[r] = "insert"
    /\ Kind(r) # "link"
    /\ UniqueKeys(NewRow(r))
    /\ accounts' = accounts \cup {r}
    /\ rows' = rows \cup {NewRow(r)}
    /\ account' = [account EXCEPT ![r] = r]
    /\ subject' = [subject EXCEPT ![r] = NewRow(r).kratos]
    /\ Reply(r, IF Kind(r) = "webhook" THEN "ok" ELSE "grant")
    /\ UNCHANGED <<redis, unlinked, ory, req, gone, counted, proved>>

\* LinkIdentityToAccount: the identity alone, account_id a foreign key.
LinkIdentity(r) ==
    /\ pc[r] = "insert"
    /\ Kind(r) = "link"
    /\ UniqueKeys(NewRow(r))
    /\ account[r] \in accounts
    /\ rows' = rows \cup {NewRow(r)}
    /\ Reply(r, "ok")
    /\ UNCHANGED <<redis, accounts, unlinked, ory, locals>>

\* Variants: ON CONFLICT DO NOTHING, and a handler that goes back to the lookup.
InsertIgnored(r) ==
    /\ pc[r] = "insert"
    /\ ~UniqueKeys(NewRow(r))
    /\ subject' = [subject EXCEPT ![r] = NewRow(r).kratos]
    /\ Goto(r, IF Kind(r) \in {"verify", "authenticate"} THEN "grant" ELSE "ok")
    /\ UNCHANGED <<redis, pg, ory, req, gone, account, counted, proved>>

RetryAfterConflict(r) ==
    /\ pc[r] = "insert"
    /\ ~UniqueKeys(NewRow(r))
    /\ Goto(r, IF Kind(r) = "webhook" THEN "registered" ELSE "lookup")
    /\ UNCHANGED <<redis, pg, ory, locals>>

\* The unique index refuses the row: the transaction rolls back, the handler
\* answers 500 and leaves the Kratos identity it made behind.
InsertConflicts(r) ==
    /\ pc[r] = "insert"
    /\ ~UniqueKeys(NewRow(r))
    /\ Goto(r, "conflict")
    /\ UNCHANGED <<redis, pg, ory, locals>>

\* KratosAdminService.CreateSession or HydraClientService.AcceptLoginRequest.
GrantLogin(r) ==
    /\ pc[r] = "grant"
    /\ sessions' = sessions \cup {subject[r]}
    /\ Reply(r, "ok")
    /\ UNCHANGED <<redis, pg, kratos, locals>>

\* "count <= 1" in SafeUnlinkIdentity, and the ownership check after it.
\* (Variant: count = 0.)
IsNone(ids)  == ids = {}
IsLast(ids)  == Cardinality(ids) <= 1
Owns(r)      == \E x \in rows : x.id = req[r].target /\ x.account = account[r]

\* SafeUnlinkIdentity counts, reads the owner and deletes in three statements.
CountIdentities(r) ==
    LET ids == {x.id : x \in ActiveOfAccount(account[r])}
    IN  /\ pc[r] = "count"
        /\ counted' = [counted EXCEPT ![r] = ids]
        /\ Goto(r, IF IsLast(ids) THEN "rejected" ELSE "owner")
        /\ UNCHANGED <<redis, pg, ory, req, gone, subject, account, proved>>

CheckOwner(r) ==
    /\ pc[r] = "owner"
    /\ Goto(r, IF Owns(r) THEN "delete" ELSE "rejected")
    /\ UNCHANGED <<redis, pg, ory, locals>>

SoftDelete(r) ==
    /\ pc[r] = "delete"
    /\ unlinked' = unlinked \cup {req[r].target}
    /\ Reply(r, "ok")
    /\ UNCHANGED <<redis, accounts, rows, ory, locals>>

\* A call fails before it takes effect, the client goes away, or the pod dies.
Fail(r) ==
    /\ pc[r] \in InFlight
    /\ Goto(r, "failed")
    /\ UNCHANGED <<redis, pg, ory, locals>>

-----------------------------------------------------------------------------
Step(r) ==
    \/ ResolveToken(r) \/ VerifyNonce(r)
    \/ AdoptIdentity(r) \/ RefuseLinkedWallet(r) \/ WalletUnknown(r)
    \/ CreateKratosIdentity(r) \/ LookupRegistration(r)
    \/ CreateAccount(r) \/ LinkIdentity(r) \/ InsertConflicts(r) \/ GrantLogin(r)
    \/ CountIdentities(r) \/ CheckOwner(r) \/ SoftDelete(r)

Arrival(r) ==
    \/ \E kind \in Endpoints, n \in Nonces, signed \in BOOLEAN :
          ArriveLogin(r, kind, n, signed)
    \/ \E n \in Nonces, signed \in BOOLEAN, k \in KratosIds : ArriveLink(r, n, signed, k)
    \/ \E k \in KratosIds, id \in Requests : ArriveUnlink(r, k, id)
    \/ \E id \in Requests : ArriveAdminUnlink(r, id)
    \/ \E k \in Registrations : ArriveWebhook(r, k)

Environment ==
    \/ \E w \in Wallets, n \in Nonces : IssueChallenge(w, n)
    \/ \E w \in Wallets : NonceExpires(w)
    \/ \E k \in Registrations : KratosRegisters(k)

Next ==
    \/ Environment
    \/ \E r \in Requests : Arrival(r) \/ Step(r) \/ Fail(r)

Spec == Init /\ [][Next]_vars

\* net/http runs every accepted request in a goroutine of its own until it
\* answers, and every outgoing call returns or times out.
FairSpec == Spec /\ \A r \in Requests : WF_vars(Step(r))

-----------------------------------------------------------------------------
(* Properties.                                                             *)

Logins == {r \in Requests : pc[r] # "idle" /\ Kind(r) \in {"verify", "authenticate"}}

\* A nonce proves possession of a wallet to at most one request, however often
\* the request is repeated: NonceService.Verify consumes it with GETDEL.
NonceProvesOnce ==
    \A r, s \in proved : req[r].nonce = req[s].nonce => r = s

\* One wallet or registration never resolves to two accounts, nor one Kratos
\* identity to two identities, although every handler looks up first and
\* inserts later without a lock.
OneRowPerKey ==
    \A x, y \in rows : x.user = y.user \/ x.kratos = y.kratos => x = y

\* A login that is about to be granted, or was, speaks for the wallet that
\* signed: the Kratos subject and the account are those PostgreSQL records for
\* that wallet, never those of a Kratos identity left over from a lost race.
LoginSpeaksForWallet ==
    \A r \in Logins : pc[r] \in {"grant", "ok"} =>
        \E x \in rows : /\ x.user = req[r].wallet
                        /\ x.kratos = subject[r]
                        /\ x.account = account[r]

\* No handler looks anything up, creates or grants for a wallet before its own
\* request has proved possession of that wallet; so every identity of a wallet
\* was inserted by a request that did, and every session but those Kratos opens
\* for its own registrations belongs to a wallet that the login itself proved.
ProofsComeFirst ==
    /\ \A r \in Requests :
          /\ pc[r] \in {"lookup", "kratos", "insert", "grant", "ok", "conflict"}
          /\ Kind(r) \in {"verify", "authenticate", "link"}
          => r \in proved
    /\ \A x \in rows : x.user \in Wallets => x.id \in proved /\ req[x.id].wallet = x.user
    /\ \A k \in sessions \ Registrations : \E r \in proved, x \in rows :
          /\ pc[r] \in Answered /\ subject[r] = k
          /\ x.kratos = k /\ x.user = req[r].wallet

\* CreateAccountWithIdentity is atomic and nothing else makes a primary
\* identity: every account has exactly one, and every identity an account.
OnePrimaryPerAccount ==
    /\ \A x \in rows : x.account \in accounts
    /\ \A a \in accounts : \E x \in rows :
          /\ x.account = a /\ x.primary
          /\ \A y \in rows : y.account = a /\ y.primary => y = x

\* A Kratos identity made for a wallet but unknown to PostgreSQL belongs to a
\* request that is still on its way or was answered with an error.
OrphansComeFromErrors ==
    \A r \in kratos \cap Requests :
        (\E x \in rows : x.kratos = r) \/ pc[r] \in {"insert", "conflict", "failed"}

\* The last active identity of an account goes only through the unguarded
\* admin endpoint, or through a SafeUnlinkIdentity that had counted another
\* identity which was unlinked before it deleted its own.
LastIdentityNeedsOverlap ==
    [][\A a \in accounts :
          ActiveOfAccount(a) # {} /\ ActiveOfAccount(a)' = {} =>
             \E r \in Requests :
                /\ pc[r] = "delete" /\ pc'[r] # "delete"
                /\ \/ Kind(r) = "adminUnlink"
                   \/ \E id \in counted[r] \ {req[r].target} : id \in unlinked]_vars

\* A user unlinks only identities of the account the token resolved to.
UnlinkStaysInAccount ==
    [][\A x \in rows : x.id \in unlinked' \ unlinked =>
          \E r \in Requests :
             /\ pc[r] = "delete" /\ pc'[r] # "delete" /\ req[r].target = x.id
             /\ Kind(r) = "adminUnlink" \/ account[r] = x.account]_vars

\* An identity unlinked before a request came serves that request no more: a login
\* does not find it by its wallet, and a token it still has resolves to no account.
\* Only a request that was already running when the unlink committed may finish,
\* even if it has yet to grant its session; what it grants opens nothing later.
UnlinkBarsLaterRequests ==
    \A r \in Requests : account[r] # None =>
        \A x \in rows : x.kratos = subject[r] => x.id \notin gone[r]

\* The steps a handler may still have before it.
Remaining(p) ==
    CASE p = "idle" -> 7
      [] p = "auth" -> 6
      [] p = "nonce" -> 5
      [] p \in {"lookup", "registered", "count"} -> 4
      [] p \in {"kratos", "owner"} -> 3
      [] p \in {"insert", "delete"} -> 2
      [] p = "grant" -> 1
      [] OTHER -> 0

\* No handler repeats or goes back to a step, whatever the others do to the data
\* it reads, and none changes its answer: a request takes six steps at most.
HandlersAdvance ==
    [][\A r \in Requests :
          /\ pc'[r] = pc[r] \/ Remaining(pc'[r]) < Remaining(pc[r])
          /\ Step(r) => pc'[r] # pc[r]]_vars

\* Every request the backend accepts is answered.
RequestsAreAnswered ==
    \A r \in Requests : pc[r] \in InFlight ~> pc[r] \in Answered

\* The inductive strengthening behind the invariants above.

\* Each endpoint runs its own steps, with the locals they need.
HandlersConsistent ==
    \A r \in Requests :
        /\ pc[r] # "idle" => req[r] \in Request
        /\ pc[r] = "auth" => Kind(r) \in {"link", "unlink"}
        /\ pc[r] \in {"nonce", "lookup", "kratos"} =>
              Kind(r) \in {"verify", "authenticate", "link"}
        /\ pc[r] = "insert" => Kind(r) \in {"verify", "authenticate", "link", "webhook"}
        /\ pc[r] = "grant" => Kind(r) \in {"verify", "authenticate"}
        /\ pc[r] \in {"count", "owner"} => Kind(r) = "unlink"
        /\ pc[r] = "delete" => Kind(r) \in {"unlink", "adminUnlink"}
        /\ pc[r] = "registered" => Kind(r) = "webhook"

\* The arguments a request of each kind came with, and the account it acts for.
ArgumentsConsistent ==
    \A r \in Requests : pc[r] # "idle" =>
        /\ Kind(r) \in {"verify", "authenticate", "link"} =>
              /\ req[r].wallet \in Wallets /\ req[r].nonce \in Nonces
              /\ challenge[req[r].nonce] = req[r].wallet
        /\ Kind(r) = "webhook" => subject[r] \in Registrations
        /\ Kind(r) \in {"unlink", "adminUnlink"} => \E x \in rows : x.id = req[r].target
        /\ Kind(r) = "link" /\ pc[r] \in {"nonce", "lookup", "kratos", "insert"} =>
              account[r] \in accounts
        /\ pc[r] = "grant" => subject[r] \in KratosIds

\* A live nonce was issued to its wallet, and a nonce that has proved something
\* is no longer in Redis.
NoncesConsistent ==
    /\ \A w \in Wallets : nonce[w] # None => challenge[nonce[w]] = w
    /\ \A r \in proved :
          /\ pc[r] \notin {"idle", "auth", "nonce"}
          /\ Kind(r) \in {"verify", "authenticate", "link"}
          /\ \A w \in Wallets : nonce[w] # req[r].nonce

\* A row carries the id of the request that inserted it, which is past that step.
RowsConsistent ==
    /\ \A x \in rows : pc[x.id] \in {"grant", "ok", "failed"}
    /\ \A x, y \in rows : x.id = y.id => x = y
    /\ \A x \in rows : x.primary => x.account = x.id
    /\ \A id \in unlinked : \E x \in rows : x.id = id

\* A Kratos identity named after a request was made by that request.
KratosConsistent ==
    \A r \in kratos \cap Requests :
        /\ pc[r] \in {"insert", "grant", "ok", "conflict", "failed"}
        /\ Kind(r) # "webhook"

\* An unlink is never undone, and a request acts for no account before it came.
ArrivalsConsistent ==
    \A r \in Requests :
        /\ gone[r] \subseteq unlinked
        /\ pc[r] = "idle" => account[r] = None

\* What SafeUnlinkIdentity has established when it reaches its delete.
UnlinkersConsistent ==
    \A r \in Requests :
        /\ counted[r] # {} => pc[r] \in {"owner", "delete"} \cup Answered
        /\ \A id \in counted[r] : \E x \in rows : x.id = id /\ x.account = account[r]
        /\ pc[r] \in {"owner", "delete"} /\ Kind(r) = "unlink" =>
              Cardinality(counted[r]) > 1
        /\ pc[r] = "delete" /\ Kind(r) = "unlink" =>
              \E x \in rows : x.id = req[r].target /\ x.account = account[r]

IInv ==
    /\ TypeOK /\ HandlersConsistent /\ ArgumentsConsistent /\ NoncesConsistent
    /\ RowsConsistent /\ KratosConsistent /\ UnlinkersConsistent /\ ArrivalsConsistent
    /\ NonceProvesOnce /\ OneRowPerKey /\ LoginSpeaksForWallet
    /\ OnePrimaryPerAccount /\ OrphansComeFromErrors /\ ProofsComeFirst
    /\ UnlinkBarsLaterRequests

\* The stores implement the registry: PostgreSQL keeps the bindings, and the
\* sessions Kratos and Hydra were asked for are the logins.
Registry == INSTANCE IdentityRegistry
    WITH bound <- rows, off <- unlinked, loggedIn <- sessions

\* Whatever the interleaving of handlers, each of their steps is one step of the
\* registry or none: a user is never bound again, not even after an unlink, an
\* account is opened only by its first identity, and nobody logs in unbound.
ImplementsRegistry == Registry!RegistrySpec

\* What the documentation says and the code does not do.

\* "Cannot unlink if it is the only remaining identity"
\* (openspec/specs/account-linking/spec.md:64).
AccountKeepsIdentity == \A a \in accounts : ActiveOfAccount(a) # {}

\* "Create identity + account if not found" (openspec/specs/siwe/spec.md:239):
\* a wallet that proved itself is turned away by the unique index only if it
\* has a linked identity, which a second attempt will find.
ConflictIsRetryable ==
    \A r \in Logins : pc[r] = "conflict" => ActiveOfUser(req[r].wallet) # {}
=============================================================================
