------------------------------ MODULE UserOps ------------------------------
(***************************************************************************)
(* POST /wallet/execute: the backend builds an ERC-4337 operation from     *)
(* what the chain says at several moments (does the wallet have code, what *)
(* is its nonce at the EntryPoint), sponsors and signs it, and sends it    *)
(* itself, in a transaction of the one account that all requests share.    *)
(* It answers "success" when the node has taken the transaction; the       *)
(* EntryPoint decides later, in the order of that account's nonces.        *)
(*                                                                         *)
(* The address of a wallet follows from the account id alone               *)
(* (GetDeterministicAccount, CREATE2), so a request names its wallet.  An  *)
(* operation counts as executed when its nonce is used up, whether or not  *)
(* the call inside it reverted.                                            *)
(***************************************************************************)
EXTENDS Naturals, FiniteSets, Sequences

CONSTANTS
    Requests,   \* the requests the backend serves
    Wallets,    \* smart wallets, one per account
    None        \* an absent value

ASSUME SetsOfRequests == None \notin Wallets /\ IsFiniteSet(Requests)

VARIABLES
    nonceOf,    \* EntryPoint: the next nonce of each wallet (key 0)
    deployed,   \* the wallets that have code
    mined,      \* the bundler account's nonce: its transactions in blocks
    fate,       \* what the chain and its pool did with a request's transaction
    pc,         \* the next call of each handler, or its answer
    wallet,     \* the wallet a request is for
    op,         \* the operation it builds
    slot,       \* the nonce of the bundler account it takes
    raced,      \* history: requests with another one open for their wallet
    crossed,    \* history: requests that read a nonce another one also holds
    faulty      \* history: requests a call of which failed

chain  == <<nonceOf, deployed, mined, fate>>
locals == <<wallet, op, slot>>
causes == <<raced, crossed, faulty>>
vars   == <<chain, pc, locals, causes>>

InFlight == {"code", "nonce", "sign", "slot", "send"}
Fates    == {"unsent", "pending", "executed", "reverted", "replaced", "evicted"}

Operation == [nonce : Nat, init : BOOLEAN, sponsored : BOOLEAN]

TypeOK ==
    /\ nonceOf \in [Wallets -> Nat]
    /\ deployed \subseteq Wallets
    /\ mined \in Nat
    /\ fate \in [Requests -> Fates]
    /\ pc \in [Requests -> {"idle"} \cup InFlight \cup {"ok", "failed"}]
    /\ wallet \in [Requests -> Wallets \cup {None}]
    /\ op \in [Requests -> Operation]
    /\ slot \in [Requests -> Nat]
    /\ raced \subseteq Requests
    /\ crossed \subseteq Requests
    /\ faulty \subseteq Requests

Init ==
    /\ nonceOf = [w \in Wallets |-> 0]
    /\ deployed = {}
    /\ mined = 0
    /\ fate = [r \in Requests |-> "unsent"]
    /\ pc = [r \in Requests |-> "idle"]
    /\ wallet = [r \in Requests |-> None]
    /\ op = [r \in Requests |-> [nonce |-> 0, init |-> FALSE, sponsored |-> FALSE]]
    /\ slot = [r \in Requests |-> 0]
    /\ raced = {} /\ crossed = {} /\ faulty = {}

-----------------------------------------------------------------------------
Pool == {r \in Requests : fate[r] = "pending"}

\* A request whose operation may still execute.
Open(r) == pc[r] \in InFlight \/ r \in Pool

Rivals(w) == {r \in Requests : wallet[r] = w /\ Open(r)}

Goto(r, p)    == pc' = [pc EXCEPT ![r] = p] /\ UNCHANGED faulty
Stumble(r, p) == pc' = [pc EXCEPT ![r] = p] /\ faulty' = faulty \cup {r}

\* The request is bound and the address of its wallet derived.
ArriveExecute(r, w) ==
    /\ pc[r] = "idle"
    /\ wallet' = [wallet EXCEPT ![r] = w]
    /\ raced' = IF Rivals(w) = {} THEN raced ELSE raced \cup Rivals(w) \cup {r}
    /\ Goto(r, "code")
    /\ UNCHANGED <<chain, op, slot, crossed>>

\* Variant: the factory's code in every operation.
AlwaysInitCode(w) == TRUE

\* createAccount goes with the first operation of a wallet only.
NeedsInitCode(w) == w \notin deployed

\* CodeAt; an error of it counts as a wallet that is deployed.  The encoding
\* of the call that follows refuses an action it does not know.
ReadCode(r) ==
    /\ pc[r] = "code"
    /\ \/ op' = [op EXCEPT ![r].init = NeedsInitCode(wallet[r])] /\ Goto(r, "nonce")
       \/ op' = [op EXCEPT ![r].init = FALSE] /\ Stumble(r, "nonce")
       \/ UNCHANGED op /\ Goto(r, "failed")
    /\ UNCHANGED <<chain, wallet, slot, raced, crossed>>

\* Variant: no nonce before the EntryPoint has answered.
NoNonce == None

\* nonceHex := "0x0", which an error of getNonce leaves as it is.
DefaultNonce == 0

ReadNonce(r) ==
    /\ pc[r] = "nonce"
    /\ \/ op' = [op EXCEPT ![r].nonce = nonceOf[wallet[r]]] /\ Goto(r, "sign")
       \/ op' = [op EXCEPT ![r].nonce = DefaultNonce] /\ Stumble(r, "sign")
    /\ UNCHANGED <<chain, wallet, slot, raced, crossed>>

\* The paymaster's signature covers the chain id, and one that could not be
\* read is taken to be 31337.  A hash that could not be read cannot be signed
\* (crypto.Sign refuses its length), which Fail covers.
Sign(r) ==
    /\ pc[r] = "sign"
    /\ \/ op' = [op EXCEPT ![r].sponsored = TRUE] /\ Goto(r, "slot")
       \/ UNCHANGED op /\ Stumble(r, "slot")
    /\ UNCHANGED <<chain, wallet, slot, raced, crossed>>

Taken(n) == \E r \in Pool : slot[r] = n

\* Variant: a counter kept by the backend, which also counts what was not sent.
CountedNonce(n) ==
    n = Cardinality({r \in Requests : fate[r] # "unsent" \/ pc[r] \in {"send", "failed"}})

\* PendingNonceAt: the first nonce of the bundler account that nobody took.
PendingNonce(n) ==
    /\ n >= mined
    /\ ~Taken(n)
    /\ \A m \in mined .. n - 1 : Taken(m)

\* The requests about to send with a nonce.
Holding(n) == {r \in Requests : pc[r] = "send" /\ slot[r] = n}

ReadSlot(r) ==
    /\ pc[r] = "slot"
    /\ \E n \in 0 .. Cardinality(Requests) :
        /\ PendingNonce(n)
        /\ slot' = [slot EXCEPT ![r] = n]
        /\ crossed' = IF Holding(n) = {} THEN crossed ELSE crossed \cup Holding(n) \cup {r}
    /\ Goto(r, "send")
    /\ UNCHANGED <<chain, wallet, op, raced>>

\* The node takes a transaction with a free nonce, refuses one whose nonce is
\* in a block, and takes one whose nonce is in its pool only if the suggested
\* gas price has risen enough to replace that one.
Accept(r) ==
    /\ slot[r] >= mined
    /\ fate' = [s \in Requests |->
                  IF s = r THEN "pending"
                  ELSE IF s \in Pool /\ slot[s] = slot[r] THEN "replaced"
                  ELSE fate[s]]

Refuses(n) == n < mined \/ Taken(n)

\* An answer that is lost is a 500 for an operation that may well execute.
SendTransaction(r) ==
    /\ pc[r] = "send"
    /\ \/ Accept(r) /\ (Goto(r, "ok") \/ Stumble(r, "failed"))
       \/ Refuses(slot[r]) /\ Goto(r, "failed") /\ UNCHANGED fate
    /\ UNCHANGED <<nonceOf, deployed, mined, locals, raced, crossed>>

\* Variant: a request that was answered with an error tried again.
TryAgain(r) ==
    /\ pc[r] = "failed"
    /\ Stumble(r, "code")
    /\ UNCHANGED <<chain, locals, raced, crossed>>

\* A call fails, the client goes away, or the pod dies.
Fail(r) ==
    /\ pc[r] \in InFlight
    /\ Stumble(r, "failed")
    /\ UNCHANGED <<chain, locals, raced, crossed>>

-----------------------------------------------------------------------------
(* The chain.                                                              *)

\* The paymaster recovers the verifying signer from paymasterAndData.
Sponsored(r) == op[r].sponsored

\* Variant: validation that does not compare nonces.
ValidButForNonce(r) ==
    /\ op[r].init <=> wallet[r] \notin deployed
    /\ Sponsored(r)

\* External: handleOps of the EntryPoint refuses with AA10 or AA20 (initCode), AA25
\* (the wallet's nonce), or AA34 (the paymaster's answer).
Valid(r) ==
    /\ op[r].init <=> wallet[r] \notin deployed
    /\ op[r].nonce = nonceOf[wallet[r]]
    /\ Sponsored(r)

\* A block takes the next transaction of the bundler account.  An operation
\* that is not valid reverts the whole of handleOps.
Mine(r) ==
    /\ r \in Pool
    /\ slot[r] = mined
    /\ mined' = mined + 1
    /\ \/ /\ Valid(r)
          /\ fate' = [fate EXCEPT ![r] = "executed"]
          /\ nonceOf' = [nonceOf EXCEPT ![wallet[r]] = @ + 1]
          /\ deployed' = deployed \cup {wallet[r]}
       \/ /\ ~Valid(r)
          /\ fate' = [fate EXCEPT ![r] = "reverted"]
          /\ UNCHANGED <<nonceOf, deployed>>
    /\ UNCHANGED <<pc, locals, causes>>

\* The node restarts, or makes room, and forgets a transaction.
Evict(r) ==
    /\ r \in Pool
    /\ fate' = [fate EXCEPT ![r] = "evicted"]
    /\ UNCHANGED <<nonceOf, deployed, mined, pc, locals, causes>>

Step(r) == ReadCode(r) \/ ReadNonce(r) \/ Sign(r) \/ ReadSlot(r) \/ SendTransaction(r)

Next == \E r \in Requests :
    \/ \E w \in Wallets : ArriveExecute(r, w)
    \/ Step(r)
    \/ Fail(r)
    \/ Mine(r)
    \/ Evict(r)

Spec == Init /\ [][Next]_vars

-----------------------------------------------------------------------------
(* Properties.                                                             *)

Executed(w) == {r \in Requests : wallet[r] = w /\ fate[r] = "executed"}

\* An operation answered "success" is lost only for a reason: it reverts when
\* another request for the same wallet was open at the same time or a call of
\* its request failed, and it is replaced or refused when another request had
\* read the same nonce of the bundler account.  What a request read at four
\* moments is otherwise still right when its transaction is mined.
LossesHaveCauses ==
    \A r \in Requests :
        /\ fate[r] = "reverted" => r \in raced \cup faulty
        /\ fate[r] = "replaced" => r \in crossed
        /\ pc[r] = "send" /\ Refuses(slot[r]) => r \in crossed

\* The nonce of w counts the operations it executed, one for each number below.
Counts(w) ==
    /\ w \in deployed <=> nonceOf[w] > 0
    /\ \A n \in 0 .. nonceOf[w] - 1 : \E r \in Executed(w) : op[r].nonce = n
    /\ \A r \in Executed(w) : op[r].nonce < nonceOf[w]
    /\ \A r, s \in Executed(w) : op[r].nonce = op[s].nonce => r = s

\* However requests overlap, whatever is replaced, reverted or lost, exactly
\* one operation was executed with each nonce of a wallet so far, and a wallet
\* has code as soon as it has executed one: initCode, sent by every request
\* that saw no code, neither deploys twice nor keeps a wallet undeployed.
WalletsCountOperations == \A w \in Wallets : Counts(w)

Evicted == \E r \in Requests : fate[r] = "evicted"

\* Requests for all wallets share the bundler account: unless the node forgot
\* a transaction, a failed, replaced or refused one leaves no hole in the
\* nonces of the pool for those behind it to wait at for ever.
PoolHasNoGaps ==
    ~Evicted => \A r \in Pool : \A m \in mined .. slot[r] : Taken(m)

\* An undisturbed "success" is true: the operation was executed, or executes
\* when its transaction is mined, unless the node forgets the transaction.
SuccessIsHonest ==
    \A r \in Requests \ (raced \cup crossed \cup faulty) :
        pc[r] = "ok" =>
            \/ fate[r] \in {"executed", "evicted"}
            \/ fate[r] = "pending" /\ Valid(r)

\* The requests whose transaction is in a block.
Landed == {r \in Requests : fate[r] \in {"executed", "reverted"}}

\* The blocks used each nonce of the bundler account below its count once, and
\* the pool holds no second transaction for a nonce: however often requests
\* read the same pending nonce, one transaction comes of it.
BundlerNoncesAreUsedOnce ==
    /\ \A n \in 0 .. mined - 1 : \E r \in Landed : slot[r] = n
    /\ \A r \in Landed : slot[r] < mined
    /\ \A r, s \in Landed \cup Pool : slot[r] = slot[s] => r = s

Fate(r) ==
    IF fate[r] = "executed" THEN "executed"
    ELSE IF fate[r] \in {"reverted", "replaced", "evicted"} \/ (fate[r] = "unsent" /\ pc[r] = "failed")
         THEN "void"
         ELSE "open"

With(w, n) == CHOOSE r \in Executed(w) : op[r].nonce = n

Outcomes  == [r \in Requests |-> Fate(r)]
Histories == [w \in Wallets |-> [i \in 1 .. nonceOf[w] |-> With(w, i - 1)]]

Ledger == INSTANCE OperationLedger WITH fate <- Outcomes, done <- Histories

\* The history of a wallet lists what it executed in the order of its nonces.
HistoriesFollowNonces ==
    \A w \in Wallets :
        /\ Len(Histories[w]) = nonceOf[w]
        /\ \A n \in 0 .. nonceOf[w] - 1 :
              Histories[w][n + 1] \in Executed(w) /\ op[Histories[w][n + 1]].nonce = n

\* Seen from outside, each wallet has one history that only grows at its end:
\* the operation with nonce n is its entry n + 1.  An operation that reverted,
\* was replaced or forgotten, or was never sent by a request that gave up, is
\* void for good; one whose request answered 500 after a lost reply is not.
ImplementsLedger == Ledger!Spec

-----------------------------------------------------------------------------
(* Why they hold: an inductive invariant.                                  *)

\* A request names its wallet when it arrives, and nothing is on its way
\* before its handler has sent it.
Bound ==
    \A r \in Requests :
        /\ pc[r] = "idle" <=> wallet[r] = None
        /\ pc[r] \in {"idle"} \cup InFlight => fate[r] = "unsent"
        /\ pc[r] = "ok" => fate[r] # "unsent"

Racing ==
    \A r, s \in Requests :
        r # s /\ wallet[r] = wallet[s] /\ Open(r) /\ Open(s) => r \in raced

\* The requests that have done a step and not yet sent.
AfterCode  == {"nonce", "sign", "slot", "send"}
AfterNonce == {"sign", "slot", "send"}
AfterSign  == {"slot", "send"}

\* What an undisturbed request has read so far is still so.
Reads ==
    \A r \in Requests \ (raced \cup faulty) :
        /\ pc[r] \in AfterCode \/ r \in Pool => (op[r].init <=> wallet[r] \notin deployed)
        /\ pc[r] \in AfterNonce \/ r \in Pool => op[r].nonce = nonceOf[wallet[r]]
        /\ pc[r] \in AfterSign \/ r \in Pool => op[r].sponsored

\* A nonce of the bundler account has one transaction in the pool, and requests
\* that hold a nonce someone else also holds, or that is used up, know why.
Slots ==
    \A r \in Requests :
        /\ r \in Pool => slot[r] >= mined
        /\ pc[r] = "send" /\ slot[r] < mined => r \in crossed
        /\ \A s \in Requests \ {r} : slot[r] = slot[s] =>
              /\ ~(r \in Pool /\ s \in Pool)
              /\ pc[r] = "send" /\ (pc[s] = "send" \/ s \in Pool) => r \in crossed /\ s \in crossed

\* The pool has no gap below a transaction that is in it or about to be.
NoGaps ==
    ~Evicted => \A r \in Requests :
        r \in Pool \/ pc[r] = "send" => \A m \in mined .. slot[r] - 1 : Taken(m)

IInv ==
    /\ TypeOK
    /\ Bound
    /\ Racing
    /\ Reads
    /\ Slots
    /\ NoGaps
    /\ LossesHaveCauses
    /\ WalletsCountOperations
    /\ BundlerNoncesAreUsedOnce
=============================================================================
