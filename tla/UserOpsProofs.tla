--------------------------- MODULE UserOpsProofs ---------------------------
(***************************************************************************)
(* Proofs about UserOps for any number of requests and wallets: what       *)
(* answers "success" for a lost operation can mean, that wallets count     *)
(* their operations, that the shared account's pool has no gaps, and that  *)
(* the whole implements OperationLedger.                                   *)
(***************************************************************************)
EXTENDS UserOps, TLAPS, FiniteSetTheorems

\* The numbers PendingNonce is looked for among are numbers.
LEMMA SlotsAreNumbers == 0 .. Cardinality(Requests) \subseteq Nat
<1>1. Cardinality(Requests) \in Nat
  BY SetsOfRequests, FS_CardinalityType
<1>2. QED
  BY <1>1

\* Types.
LEMMA TypeInit == Init => TypeOK
BY DEF Init, TypeOK, Operation, Fates, InFlight

LEMMA TypeStep == TypeOK /\ Bound /\ [Next]_vars => TypeOK'
<1> SUFFICES ASSUME TypeOK, Bound, [Next]_vars PROVE TypeOK'
  OBVIOUS
<1> USE DEF TypeOK, Fates, InFlight, Goto, Stumble, chain, locals, causes
<1>a. ASSUME NEW r \in Requests, NEW b \in BOOLEAN, op' = [op EXCEPT ![r].init = b]
      PROVE  op' \in [Requests -> Operation]
  BY <1>a DEF Operation
<1>b. ASSUME NEW r \in Requests, NEW n \in Nat, op' = [op EXCEPT ![r].nonce = n]
      PROVE  op' \in [Requests -> Operation]
  BY <1>b DEF Operation
<1>c. ASSUME NEW r \in Requests, op' = [op EXCEPT ![r].sponsored = TRUE]
      PROVE  op' \in [Requests -> Operation]
  BY <1>c DEF Operation
<1>1. ASSUME NEW r \in Requests, NEW w \in Wallets, ArriveExecute(r, w) PROVE TypeOK'
  <2>1. Rivals(w) \subseteq Requests
    BY DEF Rivals
  <2>2. QED
    BY <1>1, <2>1 DEF ArriveExecute
<1>2. ASSUME NEW r \in Requests, ReadCode(r) PROVE TypeOK'
  <2>1. NeedsInitCode(wallet[r]) \in BOOLEAN
    BY DEF NeedsInitCode
  <2>2. op' \in [Requests -> Operation]
    BY <1>2, <1>a, <2>1 DEF ReadCode
  <2>3. QED
    BY <1>2, <2>2 DEF ReadCode
<1>3. ASSUME NEW r \in Requests, ReadNonce(r) PROVE TypeOK'
  <2>1. nonceOf[wallet[r]] \in Nat /\ DefaultNonce \in Nat
    BY <1>3 DEF ReadNonce, Bound, DefaultNonce
  <2>2. op' \in [Requests -> Operation]
    BY <1>3, <1>b, <2>1 DEF ReadNonce
  <2>3. QED
    BY <1>3, <2>2 DEF ReadNonce
<1>4. ASSUME NEW r \in Requests, Sign(r) PROVE TypeOK'
  <2>1. op' \in [Requests -> Operation]
    BY <1>4, <1>c DEF Sign
  <2>2. QED
    BY <1>4, <2>1 DEF Sign
<1>5. ASSUME NEW r \in Requests, ReadSlot(r) PROVE TypeOK'
  <2>1. \A n : Holding(n) \subseteq Requests
    BY DEF Holding
  <2>2. QED
    BY <1>5, <2>1, SlotsAreNumbers DEF ReadSlot
<1>6. ASSUME NEW r \in Requests, SendTransaction(r) PROVE TypeOK'
  BY <1>6 DEF SendTransaction, Accept
<1>7. ASSUME NEW r \in Requests, Fail(r) PROVE TypeOK'
  BY <1>7 DEF Fail
<1>8. ASSUME NEW r \in Requests, Mine(r) PROVE TypeOK'
  <2>1. wallet[r] \in Wallets
    BY <1>8 DEF Mine, Pool, Bound
  <2>2. QED
    BY <1>8, <2>1 DEF Mine
<1>9. ASSUME NEW r \in Requests, Evict(r) PROVE TypeOK'
  BY <1>9 DEF Evict
<1>10. CASE UNCHANGED vars
  BY <1>10 DEF vars
<1>11. QED
  BY <1>1, <1>2, <1>3, <1>4, <1>5, <1>6, <1>7, <1>8, <1>9, <1>10 DEF Next, Step

\* A request names a wallet from its arrival on.
LEMMA BoundStep == TypeOK /\ Bound /\ [Next]_vars => Bound'
<1> SUFFICES ASSUME TypeOK, Bound, [Next]_vars PROVE Bound'
  OBVIOUS
<1> USE DEF TypeOK, Bound, InFlight, Goto, Stumble, chain, locals, causes
<1>1. ASSUME NEW r \in Requests, NEW w \in Wallets, ArriveExecute(r, w) PROVE Bound'
  BY <1>1, SetsOfRequests DEF ArriveExecute
<1>2. ASSUME NEW r \in Requests, ReadCode(r) \/ ReadNonce(r) \/ Sign(r) \/ ReadSlot(r) PROVE Bound'
  BY <1>2 DEF ReadCode, ReadNonce, Sign, ReadSlot
<1>3. ASSUME NEW r \in Requests, SendTransaction(r) PROVE Bound'
  BY <1>3 DEF SendTransaction, Accept, Pool
<1>4. ASSUME NEW r \in Requests, Fail(r) PROVE Bound'
  BY <1>4 DEF Fail
<1>5. ASSUME NEW r \in Requests, Mine(r) \/ Evict(r) PROVE Bound'
  BY <1>5 DEF Mine, Evict, Pool
<1>6. CASE UNCHANGED vars
  BY <1>6 DEF vars
<1>7. QED
  BY <1>1, <1>2, <1>3, <1>4, <1>5, <1>6 DEF Next, Step

\* Two open requests for one wallet know of each other.
LEMMA RacingStep == TypeOK /\ Bound /\ Racing /\ [Next]_vars => Racing'
<1> SUFFICES ASSUME TypeOK, Bound, Racing, [Next]_vars PROVE Racing'
  OBVIOUS
<1> USE DEF TypeOK, Bound, InFlight, Goto, Stumble, chain, locals, causes, Open, Pool
<1>1. ASSUME NEW r \in Requests, NEW w \in Wallets, ArriveExecute(r, w) PROVE Racing'
  <2> SUFFICES ASSUME NEW s \in Requests, NEW t \in Requests,
                      s # t, wallet'[s] = wallet'[t], Open(s)', Open(t)'
               PROVE  s \in raced'
    BY DEF Racing
  <2>1. /\ fate' = fate
        /\ pc' = [pc EXCEPT ![r] = "code"]
        /\ wallet' = [wallet EXCEPT ![r] = w]
        /\ raced \subseteq raced'
        /\ Rivals(w) # {} => raced' = raced \cup Rivals(w) \cup {r}
    BY <1>1 DEF ArriveExecute
  <2>2. CASE s = r
    <3>1. t \in Rivals(w)
      BY <2>1, <2>2 DEF Rivals
    <3>2. QED
      BY <2>1, <2>2, <3>1
  <2>3. CASE t = r
    <3>1. s \in Rivals(w)
      BY <2>1, <2>3 DEF Rivals
    <3>2. QED
      BY <2>1, <3>1
  <2>4. CASE s # r /\ t # r
    BY <2>1, <2>4 DEF Racing
  <2>5. QED
    BY <2>2, <2>3, <2>4
<1>2. ASSUME NEW r \in Requests, ReadCode(r) \/ ReadNonce(r) \/ Sign(r) \/ ReadSlot(r) PROVE Racing'
  BY <1>2 DEF Racing, ReadCode, ReadNonce, Sign, ReadSlot
<1>3. ASSUME NEW r \in Requests, SendTransaction(r) PROVE Racing'
  BY <1>3 DEF Racing, SendTransaction, Accept
<1>4. ASSUME NEW r \in Requests, Fail(r) PROVE Racing'
  BY <1>4 DEF Racing, Fail
<1>5. ASSUME NEW r \in Requests, Mine(r) \/ Evict(r) PROVE Racing'
  <2>1. /\ pc' = pc /\ wallet' = wallet /\ raced' = raced
        /\ \A s \in Requests : fate'[s] = "pending" => fate[s] = "pending"
    BY <1>5 DEF Mine, Evict
  <2>2. QED
    BY <2>1 DEF Racing
<1>6. CASE UNCHANGED vars
  BY <1>6 DEF Racing, vars
<1>7. QED
  BY <1>1, <1>2, <1>3, <1>4, <1>5, <1>6 DEF Next, Step

\* What an undisturbed request has read stays so until its transaction is mined.
LEMMA ReadsStep == TypeOK /\ Bound /\ Racing /\ Reads /\ [Next]_vars => Reads'
<1> SUFFICES ASSUME TypeOK, Bound, Racing, Reads, [Next]_vars PROVE Reads'
  OBVIOUS
<1> USE DEF TypeOK, Bound, InFlight, Goto, Stumble, chain, locals, causes, Open, Pool,
            AfterCode, AfterNonce, AfterSign
<1>1. ASSUME NEW r \in Requests, NEW w \in Wallets, ArriveExecute(r, w) PROVE Reads'
  BY <1>1 DEF Reads, ArriveExecute
<1>2. ASSUME NEW r \in Requests, ReadCode(r) PROVE Reads'
  <2>1. /\ pc[r] = "code" /\ raced' = raced /\ faulty \subseteq faulty'
        /\ UNCHANGED <<fate, nonceOf, deployed, wallet>>
        /\ \A s \in Requests \ {r} : op'[s] = op[s] /\ pc'[s] = pc[s]
    BY <1>2 DEF ReadCode
  <2>2. \/ pc'[r] = "nonce" /\ (op'[r].init <=> wallet[r] \notin deployed)
        \/ pc'[r] = "nonce" /\ r \in faulty'
        \/ pc'[r] = "failed"
    <3>1. ASSUME op' = [op EXCEPT ![r].init = NeedsInitCode(wallet[r])]
          PROVE  op'[r].init = NeedsInitCode(wallet[r])
      BY <3>1 DEF Operation
    <3>2. QED
      BY <1>2, <3>1 DEF ReadCode, NeedsInitCode
  <2>3. fate[r] = "unsent"
    BY <2>1
  <2>4. QED
    BY <2>1, <2>2, <2>3 DEF Reads
<1>3. ASSUME NEW r \in Requests, ReadNonce(r) PROVE Reads'
  BY <1>3 DEF Reads, ReadNonce, Operation
<1>4. ASSUME NEW r \in Requests, Sign(r) PROVE Reads'
  BY <1>4 DEF Reads, Sign, Operation
<1>5. ASSUME NEW r \in Requests, ReadSlot(r) PROVE Reads'
  BY <1>5 DEF Reads, ReadSlot
<1>6. ASSUME NEW r \in Requests, SendTransaction(r) PROVE Reads'
  BY <1>6 DEF Reads, SendTransaction, Accept
<1>7. ASSUME NEW r \in Requests, Fail(r) PROVE Reads'
  BY <1>7 DEF Reads, Fail
<1>8. ASSUME NEW r \in Requests, Mine(r) PROVE Reads'
  <2> SUFFICES ASSUME NEW s \in Requests, s \notin raced', s \notin faulty', Open(s)'
               PROVE  /\ pc'[s] \in AfterCode \/ (s \in Pool)' => (op'[s].init <=> wallet'[s] \notin deployed')
                      /\ pc'[s] \in AfterNonce \/ (s \in Pool)' => op'[s].nonce = nonceOf'[wallet'[s]]
                      /\ pc'[s] \in AfterSign \/ (s \in Pool)' => op'[s].sponsored
    BY DEF Reads
  <2>1. s # r /\ Open(s) /\ Open(r)
    BY <1>8 DEF Mine
  <2>2. wallet[s] # wallet[r]
    BY <1>8, <2>1 DEF Mine, Racing
  <2>3. wallet[s] \in Wallets /\ wallet[r] \in Wallets
    BY <2>1
  <2>4. nonceOf'[wallet[s]] = nonceOf[wallet[s]] /\ (wallet[s] \in deployed' <=> wallet[s] \in deployed)
    BY <1>8, <2>2, <2>3 DEF Mine
  <2>5. pc' = pc /\ op' = op /\ wallet' = wallet /\ raced' = raced /\ faulty' = faulty
        /\ ((s \in Pool)' <=> s \in Pool)
    BY <1>8, <2>1 DEF Mine
  <2>6. QED
    BY <2>4, <2>5 DEF Reads
<1>9. ASSUME NEW r \in Requests, Evict(r) PROVE Reads'
  BY <1>9 DEF Reads, Evict
<1>10. CASE UNCHANGED vars
  BY <1>10 DEF Reads, vars
<1>11. QED
  BY <1>1, <1>2, <1>3, <1>4, <1>5, <1>6, <1>7, <1>8, <1>9, <1>10 DEF Next, Step

\* Whoever holds a nonce of the shared account that is not its own alone knows it.
LEMMA SlotsStep == TypeOK /\ Bound /\ Slots /\ [Next]_vars => Slots'
<1> SUFFICES ASSUME TypeOK, Bound, Slots, [Next]_vars PROVE Slots'
  OBVIOUS
<1> USE DEF TypeOK, Bound, InFlight, Goto, Stumble, chain, locals, causes, Pool
<1>1. ASSUME NEW r \in Requests, NEW w \in Wallets, ArriveExecute(r, w) PROVE Slots'
  BY <1>1 DEF Slots, ArriveExecute
<1>2. ASSUME NEW r \in Requests, ReadCode(r) \/ ReadNonce(r) \/ Sign(r) PROVE Slots'
  BY <1>2 DEF Slots, ReadCode, ReadNonce, Sign
<1>3. ASSUME NEW r \in Requests, ReadSlot(r) PROVE Slots'
  <2>1. PICK n \in 0 .. Cardinality(Requests) :
          /\ PendingNonce(n)
          /\ slot' = [slot EXCEPT ![r] = n]
          /\ crossed' = IF Holding(n) = {} THEN crossed ELSE crossed \cup Holding(n) \cup {r}
    BY <1>3 DEF ReadSlot
  <2>2. n \in Nat /\ n >= mined /\ \A s \in Pool : slot[s] # n
    BY <2>1, SlotsAreNumbers DEF PendingNonce, Taken
  <2>3. \A s \in Requests \ {r} : pc[s] = "send" /\ slot[s] = n => s \in crossed' /\ r \in crossed'
    BY <2>1 DEF Holding
  <2>4. /\ crossed \subseteq crossed' /\ fate' = fate /\ mined' = mined /\ fate[r] = "unsent"
        /\ pc' = [pc EXCEPT ![r] = "send"]
    BY <1>3, <2>1 DEF ReadSlot
  <2>5. QED
    BY <2>1, <2>2, <2>3, <2>4 DEF Slots
<1>4. ASSUME NEW r \in Requests, SendTransaction(r) PROVE Slots'
  <2>1. CASE Accept(r)
    BY <1>4, <2>1 DEF Slots, SendTransaction, Accept
  <2>2. CASE fate' = fate /\ Goto(r, "failed")
    BY <1>4, <2>2 DEF Slots, SendTransaction
  <2>3. QED
    BY <1>4, <2>1, <2>2 DEF SendTransaction
<1>5. ASSUME NEW r \in Requests, Fail(r) PROVE Slots'
  BY <1>5 DEF Slots, Fail
<1>6. ASSUME NEW r \in Requests, Mine(r) PROVE Slots'
  <2>1. /\ pc' = pc /\ slot' = slot /\ crossed' = crossed /\ mined' = mined + 1
        /\ fate[r] = "pending" /\ slot[r] = mined /\ fate'[r] # "pending"
        /\ \A s \in Requests \ {r} : fate'[s] = fate[s]
    BY <1>6 DEF Mine
  <2>2. \A s \in Requests \ {r} : s \in Pool => slot[s] >= mined + 1
    BY <2>1 DEF Slots
  <2>3. \A s \in Requests : pc[s] = "send" /\ slot[s] < mined + 1 => s \in crossed
    BY <2>1 DEF Slots
  <2>4. \A s \in Requests : fate'[s] = "pending" => fate[s] = "pending" /\ s # r
    BY <2>1
  <2>5. QED
    BY <2>1, <2>2, <2>3, <2>4 DEF Slots
<1>7. ASSUME NEW r \in Requests, Evict(r) PROVE Slots'
  BY <1>7 DEF Slots, Evict
<1>8. CASE UNCHANGED vars
  BY <1>8 DEF Slots, vars
<1>9. QED
  BY <1>1, <1>2, <1>3, <1>4, <1>5, <1>6, <1>7, <1>8 DEF Next, Step

\* Unless the node forgets a transaction, the nonces below a waiting one are taken.
LEMMA NoGapsStep == TypeOK /\ Bound /\ NoGaps /\ [Next]_vars => NoGaps'
<1> SUFFICES ASSUME TypeOK, Bound, NoGaps, [Next]_vars, ~Evicted', NEW s \in Requests,
                    (s \in Pool)' \/ pc'[s] = "send", NEW m \in mined' .. slot'[s] - 1
             PROVE  Taken(m)'
  BY DEF NoGaps
<1> USE DEF TypeOK, Bound, InFlight, Goto, Stumble, chain, locals, causes, Pool, Taken
<1>0. TypeOK'
  BY TypeStep
<1>1. ASSUME NEW r \in Requests, NEW w \in Wallets, ArriveExecute(r, w) PROVE Taken(m)'
  BY <1>1 DEF NoGaps, Evicted, ArriveExecute
<1>2. ASSUME NEW r \in Requests, ReadCode(r) \/ ReadNonce(r) \/ Sign(r) \/ Fail(r) PROVE Taken(m)'
  BY <1>2 DEF NoGaps, Evicted, ReadCode, ReadNonce, Sign, Fail
<1>3. ASSUME NEW r \in Requests, ReadSlot(r) PROVE Taken(m)'
  <2>1. PICK n \in Nat : PendingNonce(n) /\ slot' = [slot EXCEPT ![r] = n]
    BY <1>3, SlotsAreNumbers DEF ReadSlot
  <2>2. fate' = fate /\ mined' = mined /\ fate[r] = "unsent" /\ pc' = [pc EXCEPT ![r] = "send"]
    BY <1>3 DEF ReadSlot
  <2>3. Taken(m)
    <3>1. CASE s = r
      BY <2>1, <2>2, <3>1 DEF PendingNonce
    <3>2. CASE s # r
      BY <2>1, <2>2, <3>2 DEF NoGaps, Evicted
    <3>3. QED
      BY <3>1, <3>2
  <2>4. QED
    BY <2>1, <2>2, <2>3
<1>4. ASSUME NEW r \in Requests, SendTransaction(r) PROVE Taken(m)'
  <2>1. /\ slot' = slot /\ mined' = mined /\ ~Evicted /\ pc[r] = "send"
        /\ s \in Pool \/ pc[s] = "send"
    BY <1>4 DEF SendTransaction, Accept, Evicted
  <2>2. PICK t \in Pool : slot[t] = m
    BY <2>1 DEF NoGaps
  <2>3. CASE Accept(r)
    BY <1>4, <2>1, <2>2, <2>3 DEF Accept
  <2>4. CASE fate' = fate
    BY <2>1, <2>2, <2>4
  <2>5. QED
    BY <1>4, <2>3, <2>4 DEF SendTransaction
<1>5. ASSUME NEW r \in Requests, Mine(r) PROVE Taken(m)'
  <2>1. /\ pc' = pc /\ slot' = slot /\ mined' = mined + 1 /\ slot[r] = mined /\ ~Evicted
        /\ \A t \in Requests \ {r} : fate'[t] = fate[t]
        /\ fate'[r] # "pending"
    BY <1>5 DEF Mine, Evicted
  <2>2. PICK t \in Pool : slot[t] = m
    BY <2>1 DEF NoGaps
  <2>3. QED
    BY <2>1, <2>2
<1>6. ASSUME NEW r \in Requests, Evict(r) PROVE FALSE
  BY <1>6 DEF Evict, Evicted
<1>7. CASE UNCHANGED vars
  BY <1>7 DEF NoGaps, Evicted, vars
<1>8. QED
  BY <1>1, <1>2, <1>3, <1>4, <1>5, <1>6, <1>7 DEF Next, Step

\* LossesHaveCauses follows from what was read, and from the slots, a step before.
LEMMA LossesStep ==
    ASSUME TypeOK, Bound, Reads, Slots, Slots', LossesHaveCauses, [Next]_vars
    PROVE  LossesHaveCauses'
<1> USE DEF TypeOK, Bound, InFlight, Goto, Stumble, chain, locals, causes, Pool
<1>1. ASSUME NEW s \in Requests, pc'[s] = "send", Refuses(slot[s])' PROVE s \in crossed'
  <2>1. CASE slot'[s] < mined'
    BY <1>1, <2>1 DEF Slots
  <2>2. CASE Taken(slot[s])'
    <3>1. PICK t \in Pool' : slot'[t] = slot'[s]
      BY <2>2 DEF Taken
    <3>2. s # t
      BY <1>1, <3>1, BoundStep
    <3>3. QED
      BY <1>1, <3>1, <3>2 DEF Slots
  <2>3. QED
    BY <1>1, <2>1, <2>2 DEF Refuses
<1>2. ASSUME NEW s \in Requests
      PROVE  /\ fate'[s] = "reverted" => s \in raced' \cup faulty'
             /\ fate'[s] = "replaced" => s \in crossed'
  <2>1. ASSUME NEW r \in Requests, NEW w \in Wallets, ArriveExecute(r, w)
        PROVE  fate' = fate /\ raced \subseteq raced' /\ crossed' = crossed /\ faulty' = faulty
    BY <2>1 DEF ArriveExecute
  <2>2. ASSUME NEW r \in Requests,
               ReadCode(r) \/ ReadNonce(r) \/ Sign(r) \/ ReadSlot(r) \/ Fail(r)
        PROVE  fate' = fate /\ raced' = raced /\ crossed \subseteq crossed' /\ faulty \subseteq faulty'
    BY <2>2 DEF ReadCode, ReadNonce, Sign, ReadSlot, Fail
  <2>3. ASSUME NEW r \in Requests, SendTransaction(r)
        PROVE  /\ fate'[s] = "reverted" => fate[s] = "reverted"
               /\ fate'[s] = "replaced" => fate[s] = "replaced" \/ s \in crossed
               /\ raced' = raced /\ crossed' = crossed /\ faulty \subseteq faulty'
    BY <2>3 DEF SendTransaction, Accept, Slots
  <2>4. ASSUME NEW r \in Requests, Mine(r)
        PROVE  /\ fate'[s] = "reverted" => fate[s] = "reverted" \/ s \in raced \cup faulty
               /\ fate'[s] = "replaced" => fate[s] = "replaced"
               /\ raced' = raced /\ crossed' = crossed /\ faulty' = faulty
    BY <2>4 DEF Mine, Valid, Sponsored, Reads
  <2>5. ASSUME NEW r \in Requests, Evict(r)
        PROVE  /\ fate'[s] = "reverted" => fate[s] = "reverted"
               /\ fate'[s] = "replaced" => fate[s] = "replaced"
               /\ raced' = raced /\ crossed' = crossed /\ faulty' = faulty
    BY <2>5 DEF Evict
  <2>6. CASE UNCHANGED vars
    BY <2>6 DEF LossesHaveCauses, vars
  <2>7. QED
    BY <2>1, <2>2, <2>3, <2>4, <2>5, <2>6 DEF LossesHaveCauses, Next, Step
<1>3. QED
  BY <1>1, <1>2 DEF LossesHaveCauses

\* A wallet's nonce counts its executed operations.
LEMMA CountStep ==
    ASSUME TypeOK, Bound, WalletsCountOperations, [Next]_vars
    PROVE  WalletsCountOperations'
<1> USE DEF TypeOK, Bound, InFlight, Goto, Stumble, chain, locals, causes, Pool
<1>1. ASSUME NEW r \in Requests, Mine(r), Valid(r),
             fate' = [fate EXCEPT ![r] = "executed"],
             nonceOf' = [nonceOf EXCEPT ![wallet[r]] = @ + 1],
             deployed' = deployed \cup {wallet[r]}
      PROVE  WalletsCountOperations'
  <2>0. PICK v \in Wallets : v = wallet[r]
    BY <1>1 DEF Mine
  <2>1. v = wallet[r] /\ op' = op /\ wallet' = wallet /\ fate[r] = "pending"
    BY <1>1, <2>0 DEF Mine
  <2>2. /\ Executed(v)' = Executed(v) \cup {r}
        /\ \A w \in Wallets \ {v} : Executed(w)' = Executed(w)
    BY <1>1, <2>1 DEF Executed
  <2>3. op[r].nonce = nonceOf[v] /\ nonceOf[v] \in Nat
    BY <1>1, <2>1 DEF Valid
  <2>4. \A w \in Wallets \ {v} : nonceOf'[w] = nonceOf[w] /\ (w \in deployed' <=> w \in deployed)
    BY <1>1, <2>1
  <2>5. nonceOf'[v] = nonceOf[v] + 1 /\ v \in deployed'
    BY <1>1, <2>1
  <2>6. ASSUME NEW w \in Wallets \ {v} PROVE Counts(w)'
    BY <2>1, <2>2, <2>4 DEF WalletsCountOperations, Counts
  <2>7. Counts(v)'
    <3>1. v \in deployed' <=> nonceOf'[v] > 0
      BY <2>3, <2>5
    <3>2. ASSUME NEW n \in 0 .. nonceOf'[v] - 1 PROVE \E s \in Executed(v)' : op'[s].nonce = n
      <4>1. CASE n = nonceOf[v]
        BY <2>1, <2>2, <2>3, <4>1
      <4>2. CASE n # nonceOf[v]
        <5>1. n \in 0 .. nonceOf[v] - 1
          BY <2>3, <2>5, <4>2
        <5>2. PICK s \in Executed(v) : op[s].nonce = n
          BY <2>1, <5>1 DEF WalletsCountOperations, Counts
        <5>3. QED
          BY <2>1, <2>2, <5>2
      <4>3. QED
        BY <4>1, <4>2
    <3>3. \A s \in Executed(v) : op[s].nonce < nonceOf[v] /\ op[s].nonce \in Nat
      BY <2>1 DEF WalletsCountOperations, Counts, Executed, Operation
    <3>4. \A s \in Executed(v)' : op'[s].nonce < nonceOf'[v]
      BY <2>1, <2>2, <2>3, <2>5, <3>3
    <3>5. ASSUME NEW s \in Executed(v)', NEW t \in Executed(v)', op'[s].nonce = op'[t].nonce
          PROVE  s = t
      <4>1. CASE s = r \/ t = r
        BY <2>1, <2>2, <2>3, <3>3, <3>5, <4>1
      <4>2. CASE s # r /\ t # r
        BY <2>1, <2>2, <3>5, <4>2 DEF WalletsCountOperations, Counts
      <4>3. QED
        BY <4>1, <4>2
    <3>6. QED
      BY <3>1, <3>2, <3>4, <3>5 DEF Counts
  <2>8. QED
    BY <2>6, <2>7 DEF WalletsCountOperations
<1>2. ASSUME nonceOf' = nonceOf, deployed' = deployed,
             \A w \in Wallets : Executed(w)' = Executed(w),
             \A s \in Requests : fate[s] = "executed" => op'[s] = op[s]
      PROVE  WalletsCountOperations'
  <2>1. \A w \in Wallets : \A s \in Executed(w) : op'[s] = op[s]
    BY <1>2 DEF Executed
  <2>2. QED
    BY <1>2, <2>1 DEF WalletsCountOperations, Counts
<1>3. ASSUME NEW r \in Requests, NEW w \in Wallets, ArriveExecute(r, w) PROVE WalletsCountOperations'
  BY <1>2, <1>3 DEF ArriveExecute, Executed
<1>4. ASSUME NEW r \in Requests, ReadCode(r) \/ ReadNonce(r) \/ Sign(r) \/ ReadSlot(r) \/ Fail(r)
      PROVE  WalletsCountOperations'
  <2>1. /\ nonceOf' = nonceOf /\ deployed' = deployed /\ fate' = fate /\ wallet' = wallet
        /\ fate[r] = "unsent" /\ \A s \in Requests \ {r} : op'[s] = op[s]
    BY <1>4 DEF ReadCode, ReadNonce, Sign, ReadSlot, Fail
  <2>2. QED
    BY <1>2, <2>1 DEF Executed
<1>5. ASSUME NEW r \in Requests, SendTransaction(r) \/ Evict(r) PROVE WalletsCountOperations'
  <2>1. /\ nonceOf' = nonceOf /\ deployed' = deployed /\ wallet' = wallet /\ op' = op
        /\ \A s \in Requests : fate'[s] = "executed" <=> fate[s] = "executed"
    BY <1>5 DEF SendTransaction, Accept, Evict
  <2>2. QED
    BY <1>2, <2>1 DEF Executed
<1>6. ASSUME NEW r \in Requests, Mine(r) PROVE WalletsCountOperations'
  <2>1. CASE Valid(r)
    BY <1>1, <1>6, <2>1 DEF Mine
  <2>2. CASE ~Valid(r)
    <3>1. /\ nonceOf' = nonceOf /\ deployed' = deployed /\ wallet' = wallet /\ op' = op
          /\ \A s \in Requests : fate'[s] = "executed" <=> fate[s] = "executed"
      BY <1>6, <2>2 DEF Mine
    <3>2. QED
      BY <1>2, <3>1 DEF Executed
  <2>3. QED
    BY <2>1, <2>2
<1>7. CASE UNCHANGED vars
  BY <1>2, <1>7 DEF vars, Executed
<1>8. QED
  BY <1>3, <1>4, <1>5, <1>6, <1>7 DEF Next, Step

\* A transaction has its own nonce of the bundler account, in the pool and in
\* the blocks.
LEMMA BundlerStep ==
    TypeOK /\ Bound /\ Slots /\ BundlerNoncesAreUsedOnce /\ [Next]_vars => BundlerNoncesAreUsedOnce'
<1> SUFFICES ASSUME TypeOK, Bound, Slots, BundlerNoncesAreUsedOnce, [Next]_vars
             PROVE  BundlerNoncesAreUsedOnce'
  OBVIOUS
<1> USE DEF TypeOK, InFlight, Goto, Stumble, chain, locals, causes, Pool, Landed
<1>1. ASSUME UNCHANGED mined, Landed' = Landed, Pool' \subseteq Pool,
             \A r \in Landed \cup Pool : slot'[r] = slot[r]
      PROVE  BundlerNoncesAreUsedOnce'
  BY <1>1 DEF BundlerNoncesAreUsedOnce
<1>2. ASSUME NEW r \in Requests,
             \/ \E w \in Wallets : ArriveExecute(r, w)
             \/ ReadCode(r) \/ ReadNonce(r) \/ Sign(r) \/ ReadSlot(r) \/ Fail(r)
      PROVE  BundlerNoncesAreUsedOnce'
  <2>1. UNCHANGED <<mined, fate>> /\ pc[r] \in {"idle"} \cup InFlight
    BY <1>2 DEF ArriveExecute, ReadCode, ReadNonce, Sign, ReadSlot, Fail
  <2>2. r \notin Landed \cup Pool
    BY <2>1 DEF Bound
  <2>3. \A s \in Requests \ {r} : slot'[s] = slot[s]
    BY <1>2 DEF ArriveExecute, ReadCode, ReadNonce, Sign, ReadSlot, Fail
  <2>4. QED
    BY <1>1, <2>1, <2>2, <2>3
<1>3. ASSUME NEW r \in Requests, SendTransaction(r) PROVE BundlerNoncesAreUsedOnce'
  <2>1. UNCHANGED <<mined, slot>> /\ fate[r] = "unsent"
    BY <1>3 DEF SendTransaction, Bound
  <2>2. CASE UNCHANGED fate
    BY <1>1, <2>1, <2>2
  <2>3. CASE Accept(r)
    <3>1. Landed' = Landed
      BY <2>1, <2>3 DEF Accept
    <3>2. \A s \in Pool' : s = r \/ (s \in Pool /\ slot[s] # slot[r])
      BY <2>3 DEF Accept
    <3>3. \A s \in Landed : slot[s] < slot[r]
      BY <2>3 DEF Accept, BundlerNoncesAreUsedOnce
    <3>4. QED
      BY <2>1, <3>1, <3>2, <3>3 DEF BundlerNoncesAreUsedOnce
  <2>4. QED
    BY <1>3, <2>2, <2>3 DEF SendTransaction
<1>4. ASSUME NEW r \in Requests, Mine(r) PROVE BundlerNoncesAreUsedOnce'
  <2>1. /\ UNCHANGED slot /\ mined' = mined + 1 /\ slot[r] = mined /\ r \in Pool
        /\ Landed' = Landed \cup {r} /\ Pool' = Pool \ {r}
    BY <1>4 DEF Mine
  <2>2. \A n \in 0 .. mined' - 1 : \E s \in Landed' : slot'[s] = n
    <3> SUFFICES ASSUME NEW n \in 0 .. mined, n # mined PROVE \E s \in Landed : slot[s] = n
      BY <2>1
    <3>1. n \in 0 .. mined - 1
      OBVIOUS
    <3>2. QED
      BY <3>1 DEF BundlerNoncesAreUsedOnce
  <2>3. \A s \in Landed' : slot'[s] < mined'
    BY <2>1 DEF BundlerNoncesAreUsedOnce
  <2>4. QED
    BY <2>1, <2>2, <2>3 DEF BundlerNoncesAreUsedOnce
<1>5. ASSUME NEW r \in Requests, Evict(r) PROVE BundlerNoncesAreUsedOnce'
  <2>1. UNCHANGED <<mined, slot>> /\ Landed' = Landed /\ Pool' \subseteq Pool
    BY <1>5 DEF Evict
  <2>2. QED
    BY <1>1, <2>1
<1>6. CASE UNCHANGED vars
  BY <1>1, <1>6 DEF vars
<1>7. QED
  BY <1>2, <1>3, <1>4, <1>5, <1>6 DEF Next, Step

\* The inductive invariant holds in every reachable state.
THEOREM Invariance == Spec => []IInv
<1>1. Init => IInv
  <2> SUFFICES ASSUME Init PROVE IInv
    OBVIOUS
  <2>1. TypeOK
    BY TypeInit
  <2>2. Bound /\ Racing /\ Reads /\ Slots /\ NoGaps /\ LossesHaveCauses
    BY SetsOfRequests
       DEF Init, Bound, Racing, Reads, Slots, NoGaps, LossesHaveCauses, Open, Pool, InFlight,
           AfterCode, AfterNonce, AfterSign
  <2>3. WalletsCountOperations
    BY DEF Init, WalletsCountOperations, Counts, Executed
  <2>4. BundlerNoncesAreUsedOnce
    BY DEF Init, BundlerNoncesAreUsedOnce, Landed, Pool
  <2>5. QED
    BY <2>1, <2>2, <2>3, <2>4 DEF IInv
<1>2. IInv /\ [Next]_vars => IInv'
  BY TypeStep, BoundStep, RacingStep, ReadsStep, SlotsStep, NoGapsStep, LossesStep, CountStep,
     BundlerStep
     DEF IInv
<1>3. QED
  BY <1>1, <1>2, PTL DEF Spec

\* Every variable keeps its type.
THEOREM TypeCorrect == Spec => []TypeOK
BY Invariance, PTL DEF IInv

\* An operation answered "success" is lost only for one of the recorded reasons.
THEOREM LossSafety == Spec => []LossesHaveCauses
BY Invariance, PTL DEF IInv

\* Exactly one operation is executed with each nonce of a wallet.
THEOREM CountSafety == Spec => []WalletsCountOperations
BY Invariance, PTL DEF IInv

\* The shared account's transactions do not wait behind a nonce nobody sends.
THEOREM PoolSafety == Spec => []PoolHasNoGaps
<1>1. IInv => PoolHasNoGaps
  <2> SUFFICES ASSUME IInv, ~Evicted, NEW r \in Pool, NEW m \in mined .. slot[r] PROVE Taken(m)
    BY DEF PoolHasNoGaps
  <2>1. r \in Requests /\ slot[r] \in Nat /\ mined \in Nat
    BY DEF IInv, TypeOK, Pool
  <2>2. CASE m = slot[r]
    BY <2>2 DEF Taken
  <2>3. CASE m # slot[r]
    BY <2>1, <2>3 DEF IInv, NoGaps
  <2>4. QED
    BY <2>2, <2>3
<1>2. QED
  BY <1>1, Invariance, PTL

-----------------------------------------------------------------------------
(* The refinement.                                                         *)

\* The entry of a history is the one operation executed with its nonce.
LEMMA Chosen ==
    ASSUME NEW S, NEW o, NEW n, NEW x \in S, o[x].nonce = n,
           \A y \in S : o[y].nonce = n => y = x
    PROVE  (CHOOSE y \in S : o[y].nonce = n) = x
OBVIOUS

LEMMA WithIs ==
    ASSUME WalletsCountOperations, NEW w \in Wallets, NEW r \in Executed(w)
    PROVE  With(w, op[r].nonce) = r
<1>1. \A y \in Executed(w) : op[y].nonce = op[r].nonce => y = r
  BY DEF WalletsCountOperations, Counts
<1>2. QED
  BY <1>1, Chosen DEF With

\* A step that executes nothing leaves all histories alone.
LEMMA SameHistories ==
    ASSUME TypeOK, WalletsCountOperations, WalletsCountOperations', nonceOf' = nonceOf,
           \A w \in Wallets : Executed(w)' = Executed(w),
           \A s \in Requests : fate[s] = "executed" => op'[s] = op[s]
    PROVE  Histories' = Histories
<1>1. ASSUME NEW w \in Wallets, NEW i \in 1 .. nonceOf[w]
      PROVE  With(w, i - 1)' = With(w, i - 1)
  <2>1. i - 1 \in 0 .. nonceOf[w] - 1
    BY DEF TypeOK
  <2>2. PICK r \in Executed(w) : op[r].nonce = i - 1
    BY <2>1 DEF WalletsCountOperations, Counts
  <2>3. r \in Executed(w)' /\ op'[r].nonce = i - 1
    BY <2>2 DEF Executed
  <2>4. \A y \in Executed(w)' : op'[y].nonce = i - 1 => y = r
    BY <2>3 DEF WalletsCountOperations, Counts
  <2>5. With(w, i - 1)' = r
    BY <2>3, <2>4, Chosen DEF With
  <2>6. With(w, i - 1) = r
    BY <2>2, WithIs
  <2>7. QED
    BY <2>5, <2>6
<1>2. QED
  BY <1>1 DEF Histories

\* An operation that stays open, or becomes void, while nothing else happens.
LEMMA OneVoid ==
    ASSUME wallet' = wallet, Histories' = Histories, NEW r \in Requests, wallet[r] # None,
           Fate(r) = "open", Fate(r)' \in {"open", "void"},
           \A s \in Requests \ {r} : Fate(s)' = Fate(s)
    PROVE  Ledger!Void(r) \/ UNCHANGED Ledger!ledger
<1>1. CASE Fate(r)' = "void"
  BY <1>1 DEF Ledger!Void, Ledger!Open, Outcomes
<1>2. CASE Fate(r)' = "open"
  BY <1>2 DEF Ledger!ledger, Outcomes
<1>3. QED
  BY <1>1, <1>2

\* The operation of nonce nonceOf[w] becomes the next entry of w's history.
LEMMA NextEntry ==
    ASSUME TypeOK, WalletsCountOperations, WalletsCountOperations',
           NEW v \in Wallets, NEW r \in Requests, op' = op, op[r].nonce = nonceOf[v],
           nonceOf' = [nonceOf EXCEPT ![v] = @ + 1],
           Executed(v)' = Executed(v) \cup {r},
           \A w \in Wallets \ {v} : Executed(w)' = Executed(w)
    PROVE  Histories' = [Histories EXCEPT ![v] = Append(@, r)]
<1>1. ASSUME NEW w \in Wallets, NEW i \in 1 .. nonceOf[w]
      PROVE  With(w, i - 1)' = With(w, i - 1)
  <2>1. i - 1 \in 0 .. nonceOf[w] - 1
    BY DEF TypeOK
  <2>2. PICK s \in Executed(w) : op[s].nonce = i - 1
    BY <2>1 DEF WalletsCountOperations, Counts
  <2>3. s \in Executed(w)' /\ op'[s].nonce = i - 1
    BY <2>2
  <2>4. \A y \in Executed(w)' : op'[y].nonce = i - 1 => y = s
    BY <2>3 DEF WalletsCountOperations, Counts
  <2>5. With(w, i - 1)' = s
    BY <2>3, <2>4, Chosen DEF With
  <2>6. QED
    BY <2>2, <2>5, WithIs
<1>2. ASSUME NEW i \in 1 .. nonceOf[v] + 1, i - 1 = nonceOf[v] PROVE With(v, i - 1)' = r
  <2>1. r \in Executed(v)' /\ op'[r].nonce = i - 1
    BY <1>2
  <2>2. \A y \in Executed(v)' : op'[y].nonce = i - 1 => y = r
    BY <2>1 DEF WalletsCountOperations, Counts
  <2>3. (CHOOSE y \in Executed(v)' : op'[y].nonce = i - 1) = r
    BY <2>1, <2>2, Chosen
  <2>4. QED
    BY <2>3 DEF With
<1>3. \A w \in Wallets \ {v} : Histories'[w] = Histories[w]
  BY <1>1 DEF Histories, TypeOK
<1>4. Histories'[v] = Append(Histories[v], r)
  <2>1. nonceOf[v] \in Nat /\ nonceOf'[v] = nonceOf[v] + 1
    BY DEF TypeOK
  <2>2. Histories[v] = [i \in 1 .. nonceOf[v] |-> With(v, i - 1)]
    BY DEF Histories
  <2>3. Histories'[v] = [i \in 1 .. nonceOf[v] + 1 |-> With(v, i - 1)']
    <3>1. Histories'[v] = [i \in 1 .. nonceOf'[v] |-> With(v, i - 1)']
      BY DEF Histories
    <3>2. QED
      BY <2>1, <3>1
  <2>4. Histories'[v] = [i \in 1 .. nonceOf[v] + 1 |-> IF i = nonceOf[v] + 1 THEN r ELSE Histories[v][i]]
    <3>1. ASSUME NEW i \in 1 .. nonceOf[v] + 1
          PROVE  With(v, i - 1)' = IF i = nonceOf[v] + 1 THEN r ELSE Histories[v][i]
      BY <1>1, <1>2, <2>1, <2>2
    <3>2. QED
      BY <2>3, <3>1
  <2>5. Len(Histories[v]) = nonceOf[v]
    BY <2>1, <2>2
  <2>6. QED
    BY <2>1, <2>4, <2>5
<1>5. QED
  BY <1>3, <1>4 DEF Histories

\* Every step of the handlers and the chain is a step of the ledger, or none.
LEMMA LedgerStep == IInv /\ IInv' /\ [Next]_vars => [Ledger!Next]_Ledger!ledger
<1> SUFFICES ASSUME IInv, IInv', [Next]_vars PROVE Ledger!Next \/ UNCHANGED Ledger!ledger
  OBVIOUS
<1> USE DEF InFlight, Goto, Stumble, chain, locals, causes, Pool
<1>0. TypeOK /\ Bound /\ Slots /\ WalletsCountOperations /\ WalletsCountOperations'
  BY DEF IInv
<1>1. ASSUME NEW r \in Requests, NEW w \in Wallets, ArriveExecute(r, w)
      PROVE  Ledger!Submit(r, w)
  <2>1. /\ pc[r] = "idle" /\ wallet[r] = None /\ fate[r] = "unsent"
        /\ wallet' = [wallet EXCEPT ![r] = w] /\ pc' = [pc EXCEPT ![r] = "code"]
        /\ UNCHANGED <<fate, nonceOf, op>>
    BY <1>0, <1>1 DEF ArriveExecute, Bound
  <2>2. \A s \in Requests : Fate(s)' = Fate(s)
    BY <1>0, <2>1 DEF Fate, TypeOK
  <2>3. \A v \in Wallets : Executed(v)' = Executed(v)
    BY <1>0, <2>1 DEF Executed, TypeOK
  <2>4. Histories' = Histories
    BY <1>0, <2>1, <2>3, SameHistories
  <2>5. Outcomes' = Outcomes
    BY <2>2 DEF Outcomes
  <2>6. QED
    BY <2>1, <2>4, <2>5 DEF Ledger!Submit
<1>2. ASSUME NEW r \in Requests, ReadCode(r) \/ ReadNonce(r) \/ Sign(r) \/ ReadSlot(r) \/ Fail(r)
      PROVE  Ledger!Void(r) \/ UNCHANGED Ledger!ledger
  <2>1. /\ pc[r] \in InFlight /\ fate[r] = "unsent" /\ wallet[r] # None
        /\ UNCHANGED <<fate, nonceOf, wallet>>
        /\ \A s \in Requests \ {r} : pc'[s] = pc[s] /\ op'[s] = op[s]
    BY <1>0, <1>2 DEF ReadCode, ReadNonce, Sign, ReadSlot, Fail, Bound, TypeOK
  <2>2. \A s \in Requests \ {r} : Fate(s)' = Fate(s)
    BY <2>1 DEF Fate
  <2>3. Fate(r) = "open" /\ Fate(r)' \in {"open", "void"}
    BY <2>1 DEF Fate
  <2>4. \A v \in Wallets : Executed(v)' = Executed(v)
    BY <2>1 DEF Executed
  <2>5. Histories' = Histories
    BY <1>0, <2>1, <2>4, SameHistories
  <2>6. QED
    BY <2>1, <2>2, <2>3, <2>5, OneVoid
<1>3. ASSUME NEW r \in Requests, SendTransaction(r)
      PROVE  (\E s \in Requests : Ledger!Void(s)) \/ UNCHANGED Ledger!ledger
  <2>1. /\ pc[r] = "send" /\ fate[r] = "unsent" /\ wallet[r] # None
        /\ UNCHANGED <<nonceOf, wallet, op, slot>>
        /\ pc' \in {[pc EXCEPT ![r] = "ok"], [pc EXCEPT ![r] = "failed"]}
        /\ Accept(r) \/ (fate' = fate /\ pc' = [pc EXCEPT ![r] = "failed"])
    BY <1>0, <1>3 DEF SendTransaction, Bound
  <2>2. \A s \in Requests : fate'[s] = "executed" <=> fate[s] = "executed"
    BY <1>0, <2>1 DEF Accept, TypeOK
  <2>3. Histories' = Histories
    <3>1. \A v \in Wallets : Executed(v)' = Executed(v)
      BY <2>1, <2>2 DEF Executed
    <3>2. QED
      BY <1>0, <2>1, <3>1, SameHistories
  <2>4. CASE fate' = fate /\ pc' = [pc EXCEPT ![r] = "failed"]
    <3>1. Fate(r) = "open" /\ Fate(r)' = "void" /\ \A s \in Requests \ {r} : Fate(s)' = Fate(s)
      BY <1>0, <2>1, <2>4 DEF Fate, TypeOK
    <3>2. QED
      BY <2>1, <2>3, <3>1, OneVoid
  <2>5. CASE Accept(r)
    <3>1. Fate(r) = "open" /\ Fate(r)' = "open"
      BY <1>0, <2>1, <2>5 DEF Fate, TypeOK, Accept
    <3>2. ASSUME NEW s \in Requests \ {r}, ~(s \in Pool /\ slot[s] = slot[r])
          PROVE  Fate(s)' = Fate(s)
      BY <1>0, <2>1, <2>5, <3>2 DEF Fate, TypeOK, Accept
    <3>3. CASE \E t \in Pool : slot[t] = slot[r]
      <4>1. PICK t \in Pool : slot[t] = slot[r]
        BY <3>3
      <4>2. t \in Requests /\ t # r /\ wallet[t] # None
        BY <1>0, <2>1, <4>1 DEF Bound
      <4>3. Fate(t) = "open" /\ Fate(t)' = "void"
        BY <1>0, <2>1, <2>5, <4>1, <4>2 DEF Fate, TypeOK, Accept
      <4>4. \A s \in Requests \ {t} : Fate(s)' = Fate(s)
        BY <1>0, <3>1, <3>2, <4>1, <4>2 DEF Slots
      <4>5. QED
        BY <2>1, <2>3, <4>2, <4>3, <4>4, OneVoid
    <3>4. CASE ~\E t \in Pool : slot[t] = slot[r]
      <4>1. \A s \in Requests : Fate(s)' = Fate(s)
        BY <3>1, <3>2, <3>4
      <4>2. QED
        BY <2>1, <2>3, <4>1 DEF Ledger!ledger, Outcomes
    <3>5. QED
      BY <3>3, <3>4
  <2>6. QED
    BY <2>1, <2>4, <2>5
<1>4. ASSUME NEW r \in Requests, Mine(r)
      PROVE  Ledger!Execute(r) \/ Ledger!Void(r) \/ UNCHANGED Ledger!ledger
  <2>1. /\ fate[r] = "pending" /\ wallet[r] \in Wallets /\ wallet[r] # None
        /\ UNCHANGED <<pc, wallet, op>>
        /\ Fate(r) = "open"
    BY <1>0, <1>4, SetsOfRequests DEF Mine, Bound, TypeOK, Fate
  <2>2. CASE Valid(r)
    <3>1. /\ fate' = [fate EXCEPT ![r] = "executed"]
          /\ nonceOf' = [nonceOf EXCEPT ![wallet[r]] = @ + 1]
          /\ op[r].nonce = nonceOf[wallet[r]]
      BY <1>4, <2>2 DEF Mine, Valid
    <3>2. PICK v \in Wallets : v = wallet[r]
      BY <2>1
    <3>3. /\ Executed(v)' = Executed(v) \cup {r}
          /\ \A w \in Wallets \ {v} : Executed(w)' = Executed(w)
      BY <1>0, <2>1, <3>1, <3>2 DEF Executed, TypeOK
    <3>4. Histories' = [Histories EXCEPT ![v] = Append(@, r)]
      BY <1>0, <2>1, <3>1, <3>2, <3>3, NextEntry
    <3>5. Outcomes' = [Outcomes EXCEPT ![r] = "executed"]
      BY <1>0, <2>1, <3>1 DEF Outcomes, Fate, TypeOK
    <3>6. QED
      BY <2>1, <3>2, <3>4, <3>5 DEF Ledger!Execute, Ledger!Open, Outcomes
  <2>3. CASE ~Valid(r)
    <3>1. fate' = [fate EXCEPT ![r] = "reverted"] /\ nonceOf' = nonceOf
      BY <1>4, <2>3 DEF Mine
    <3>2. \A w \in Wallets : Executed(w)' = Executed(w)
      BY <1>0, <2>1, <3>1 DEF Executed, TypeOK
    <3>3. Histories' = Histories
      BY <1>0, <2>1, <3>1, <3>2, SameHistories
    <3>4. Fate(r)' = "void" /\ \A s \in Requests \ {r} : Fate(s)' = Fate(s)
      BY <1>0, <2>1, <3>1 DEF Fate, TypeOK
    <3>5. QED
      BY <2>1, <3>3, <3>4, OneVoid
  <2>4. QED
    BY <2>2, <2>3
<1>5. ASSUME NEW r \in Requests, Evict(r)
      PROVE  Ledger!Void(r) \/ UNCHANGED Ledger!ledger
  <2>1. /\ fate[r] = "pending" /\ wallet[r] # None
        /\ UNCHANGED <<pc, wallet, op, nonceOf>> /\ fate' = [fate EXCEPT ![r] = "evicted"]
    BY <1>0, <1>5 DEF Evict, Bound
  <2>2. \A w \in Wallets : Executed(w)' = Executed(w)
    BY <1>0, <2>1 DEF Executed, TypeOK
  <2>3. Histories' = Histories
    BY <1>0, <2>1, <2>2, SameHistories
  <2>4. Fate(r) = "open" /\ Fate(r)' = "void" /\ \A s \in Requests \ {r} : Fate(s)' = Fate(s)
    BY <1>0, <2>1 DEF Fate, TypeOK
  <2>5. QED
    BY <2>1, <2>3, <2>4, OneVoid
<1>6. CASE UNCHANGED vars
  BY <1>6 DEF vars, Ledger!ledger, Outcomes, Histories, Fate, With, Executed
<1>7. QED
  BY <1>1, <1>2, <1>3, <1>4, <1>5, <1>6 DEF Next, Step, Ledger!Next

\* For any number of requests and wallets, each wallet has one history that only
\* grows at its end.
THEOREM Implementation == Spec => ImplementsLedger
<1>1. Init => Ledger!Init
  <2> SUFFICES ASSUME Init PROVE Ledger!Init
    OBVIOUS
  <2>1. Outcomes = [r \in Requests |-> "open"]
    BY DEF Init, Outcomes, Fate
  <2>2. Histories = [w \in Wallets |-> <<>>]
    BY DEF Init, Histories
  <2>3. QED
    BY <2>1, <2>2 DEF Init, Ledger!Init
<1>2. QED
  BY <1>1, LedgerStep, Invariance, PTL DEF Spec, ImplementsLedger, Ledger!Spec

-----------------------------------------------------------------------------
(* What the requests, the bundler account and the histories owe to both.   *)

\* Between the answer "success" and the block, what was read for an undisturbed
\* operation stays right.
THEOREM SuccessSafety == Spec => []SuccessIsHonest
<1>1. IInv => SuccessIsHonest
  <2> SUFFICES ASSUME IInv, NEW r \in Requests, r \notin raced, r \notin crossed, r \notin faulty,
                      pc[r] = "ok", fate[r] \notin {"executed", "evicted"}
               PROVE  fate[r] = "pending" /\ Valid(r)
    BY DEF SuccessIsHonest
  <2>1. fate[r] \notin {"reverted", "replaced", "unsent"}
    BY DEF IInv, LossesHaveCauses, Bound
  <2>2. fate[r] = "pending"
    BY <2>1 DEF IInv, TypeOK, Fates
  <2>3. QED
    BY <2>2 DEF IInv, Reads, Pool, Valid, Sponsored
<1>2. QED
  BY <1>1, Invariance, PTL

\* Of all the requests that read one pending nonce of the bundler account, one
\* gets its transaction into a block.
THEOREM BundlerSafety == Spec => []BundlerNoncesAreUsedOnce
BY Invariance, PTL DEF IInv

\* The histories of the refinement are what the EntryPoint executed, by nonce.
THEOREM HistoryOrder == Spec => []HistoriesFollowNonces
<1>1. IInv => HistoriesFollowNonces
  <2> SUFFICES ASSUME IInv, NEW w \in Wallets
               PROVE  /\ Len(Histories[w]) = nonceOf[w]
                      /\ \A n \in 0 .. nonceOf[w] - 1 :
                            /\ Histories[w][n + 1] \in Executed(w)
                            /\ op[Histories[w][n + 1]].nonce = n
    BY DEF HistoriesFollowNonces
  <2>1. nonceOf[w] \in Nat /\ Histories[w] = [i \in 1 .. nonceOf[w] |-> With(w, i - 1)]
    BY DEF IInv, TypeOK, Histories
  <2>2. ASSUME NEW n \in 0 .. nonceOf[w] - 1
        PROVE  Histories[w][n + 1] \in Executed(w) /\ op[Histories[w][n + 1]].nonce = n
    <3>1. PICK r \in Executed(w) : op[r].nonce = n
      BY DEF IInv, WalletsCountOperations, Counts
    <3>2. With(w, n) = r
      BY <3>1, WithIs DEF IInv
    <3>3. n + 1 \in 1 .. nonceOf[w] /\ n + 1 - 1 = n
      BY <2>1
    <3>4. QED
      BY <2>1, <3>1, <3>2, <3>3
  <2>3. QED
    BY <2>1, <2>2
<1>2. QED
  BY <1>1, Invariance, PTL

Facts == INSTANCE OperationLedgerProofs WITH fate <- Outcomes, done <- Histories

LEMMA LedgerHolds == Spec => Facts!Spec
BY Implementation
   DEF ImplementsLedger, Ledger!Spec, Ledger!Init, Ledger!Next, Ledger!ledger, Ledger!Submit,
       Ledger!Execute, Ledger!Void, Ledger!Open, Facts!Spec, Facts!Init, Facts!Next,
       Facts!ledger, Facts!Submit, Facts!Execute, Facts!Void, Facts!Open

\* POST /wallet/execute executes an operation at most once, for the wallet of its
\* request, and lists it there.
THEOREM HistoryTruth == Spec => [](Facts!HistoriesAreExact /\ Facts!NothingIsDoneTwice)
<1>1. Facts!Spec => [](Facts!HistoriesAreExact /\ Facts!NothingIsDoneTwice)
  BY Facts!Exactness
<1>2. QED
  BY <1>1, LedgerHolds, PTL

\* What a wallet has executed is never undone or reordered, whatever the bundler
\* account's transactions go through.
THEOREM HistoryGrowth == Spec => Facts!HistoriesOnlyGrow
<1>1. Facts!Spec => Facts!HistoriesOnlyGrow
  BY Facts!Growth
<1>2. QED
  BY <1>1, LedgerHolds, PTL

\* An operation that was refused, reverted, replaced or forgotten never executes
\* afterwards.
THEOREM OutcomeFinality == Spec => Facts!OutcomesAreFinal
<1>1. Facts!Spec => Facts!OutcomesAreFinal
  BY Facts!Finality
<1>2. QED
  BY <1>1, LedgerHolds, PTL
=============================================================================
