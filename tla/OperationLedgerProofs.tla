----------------------- MODULE OperationLedgerProofs -----------------------
(***************************************************************************)
(* Proofs about OperationLedger, and so about every specification that     *)
(* implements it: UserOps and Minting take their theorems from here.       *)
(***************************************************************************)
EXTENDS OperationLedger, TLAPS

\* Where the entries of a history are after one more.
LEMMA AppendEntries ==
    ASSUME NEW S, NEW s \in Seq(S), NEW e \in S
    PROVE  /\ Append(s, e) \in Seq(S)
           /\ Len(Append(s, e)) = Len(s) + 1
           /\ \A i \in 1 .. Len(s) : Append(s, e)[i] = s[i]
           /\ Append(s, e)[Len(s) + 1] = e
           /\ Len(s) \in Nat
  OBVIOUS

LEMMA InitIInv == Init => IInv
  BY DEF Init, IInv, TypeOK, Submitted, HistoriesAreExact, NothingIsDoneTwice, Entries

LEMMA ExecuteStep ==
    ASSUME IInv, NEW r \in Requests, Execute(r)
    PROVE  /\ IInv'
           /\ \A w \in Wallets : Extended(w)
<1> DEFINE v == wallet[r]
<1>0. IInv
  OBVIOUS
<1>1. /\ v \in Wallets /\ fate[r] = "open" /\ wallet' = wallet
      /\ fate' = [fate EXCEPT ![r] = "executed"]
      /\ done' = [done EXCEPT ![v] = Append(@, r)]
  BY DEF Execute, Open, IInv, TypeOK
<1>2. done[v] \in Seq(Requests)
  BY <1>0, <1>1 DEF IInv, TypeOK
<1>3. /\ done'[v] = Append(done[v], r)
      /\ \A w \in Wallets \ {v} : done'[w] = done[w]
      /\ \A w \in Wallets : Len(done[w]) \in Nat
  BY <1>0, <1>1 DEF IInv, TypeOK
<1>4. /\ Append(done[v], r) \in Seq(Requests)
      /\ Len(done'[v]) = Len(done[v]) + 1
      /\ \A i \in 1 .. Len(done[v]) : done'[v][i] = done[v][i]
      /\ done'[v][Len(done[v]) + 1] = r
  BY <1>2, <1>3, AppendEntries
<1>5. TypeOK'
  BY <1>0, <1>1, <1>4 DEF IInv, TypeOK
<1>6. /\ Entries(v)' = Entries(v) \cup {r}
      /\ \A w \in Wallets \ {v} : Entries(w)' = Entries(w)
  BY <1>3, <1>4, <1>1 DEF Entries
<1>7. HistoriesAreExact'
  BY <1>0, <1>1, <1>6 DEF IInv, TypeOK, HistoriesAreExact
<1>8. \A w \in Wallets : r \notin Entries(w)
  BY <1>0, <1>1 DEF IInv, HistoriesAreExact
<1>9. NothingIsDoneTwice'
  <2> SUFFICES ASSUME NEW u \in Wallets, NEW w \in Wallets,
                      NEW i \in 1 .. Len(done'[u]), NEW j \in 1 .. Len(done'[w]),
                      done'[u][i] = done'[w][j]
               PROVE  u = w /\ i = j
    BY DEF NothingIsDoneTwice
  <2>1. \A x \in Wallets : \A k \in 1 .. Len(done'[x]) :
          \/ k \in 1 .. Len(done[x]) /\ done'[x][k] = done[x][k] /\ done[x][k] # r
          \/ x = v /\ k = Len(done[v]) + 1 /\ done'[x][k] = r
    BY <1>1, <1>3, <1>4, <1>8 DEF Entries
  <2>2. CASE done'[u][i] = r
    BY <1>4, <2>1, <2>2
  <2>3. CASE done'[u][i] # r
    <3>1. i \in 1 .. Len(done[u]) /\ j \in 1 .. Len(done[w]) /\ done[u][i] = done[w][j]
      BY <2>1, <2>3
    <3>2. QED
      BY <1>0, <3>1 DEF IInv, NothingIsDoneTwice
  <2>4. QED
    BY <2>2, <2>3
<1>10. \A w \in Wallets : Extended(w)
  BY <1>1, <1>3, <1>4 DEF Extended
<1>11. Submitted'
  BY <1>0, <1>1 DEF IInv, TypeOK, Submitted, Execute, Open
<1>12. QED
  BY <1>5, <1>7, <1>9, <1>10, <1>11 DEF IInv

\* Nothing else touches a history.
LEMMA OtherSteps ==
    ASSUME IInv,
           \/ \E r \in Requests : Void(r) \/ \E w \in Wallets : Submit(r, w)
           \/ UNCHANGED ledger
    PROVE  IInv' /\ \A w \in Wallets : Extended(w)
<1>0. IInv
  OBVIOUS
<1>1. /\ done' = done
      /\ \A w \in Wallets : Len(done[w]) \in Nat
  BY DEF Void, Submit, ledger, IInv, TypeOK
<1>2. TypeOK'
  BY <1>0 DEF IInv, TypeOK, Void, Submit, ledger
<1>3. \A w \in Wallets : Entries(w)' = Entries(w)
  BY <1>1 DEF Entries
<1>4. ASSUME NEW r \in Requests, NEW w \in Wallets
      PROVE  (wallet[r] = w /\ fate[r] = "executed")' <=> wallet[r] = w /\ fate[r] = "executed"
  <2>1. fate[r] = "executed" => wallet[r] # None
    BY <1>0 DEF IInv, Submitted
  <2>2. QED
    BY <1>0, <2>1 DEF IInv, TypeOK, Void, Submit, Open, ledger
<1>5. HistoriesAreExact'
  BY <1>0, <1>3, <1>4 DEF IInv, HistoriesAreExact
<1>6. NothingIsDoneTwice'
  BY <1>0, <1>1 DEF IInv, NothingIsDoneTwice
<1>7. Submitted'
  BY <1>0 DEF IInv, TypeOK, Submitted, Void, Submit, Open, ledger
<1>8. QED
  BY <1>1, <1>2, <1>5, <1>6, <1>7 DEF IInv, Extended

LEMMA StepIInv == IInv /\ [Next]_ledger => IInv' /\ \A w \in Wallets : Extended(w)
  BY ExecuteStep, OtherSteps DEF Next

\* Every reachable state of the ledger satisfies the inductive invariant.
THEOREM Invariance == Spec => []IInv
<1>1. IInv /\ [Next]_ledger => IInv'
  BY StepIInv
<1>2. QED
  BY InitIInv, <1>1, PTL DEF Spec

\* The histories hold exactly what was executed, each operation in one place.
THEOREM Exactness == Spec => [](HistoriesAreExact /\ NothingIsDoneTwice)
<1>1. IInv => HistoriesAreExact /\ NothingIsDoneTwice
  BY DEF IInv
<1>2. QED
  BY <1>1, Invariance, PTL

\* No step rewrites a history.
THEOREM Growth == Spec => HistoriesOnlyGrow
<1>1. IInv /\ [Next]_ledger => [\A w \in Wallets : Extended(w)]_ledger
  BY StepIInv
<1>2. QED
  BY <1>1, Invariance, PTL DEF Spec, HistoriesOnlyGrow

\* No step reverses an outcome.
THEOREM Finality == Spec => OutcomesAreFinal
<1>1. IInv /\ [Next]_ledger => [\A r \in Requests : Final(r)]_ledger
  BY DEF IInv, TypeOK, Next, Submit, Execute, Void, Open, ledger, Final
<1>2. QED
  BY <1>1, Invariance, PTL DEF Spec, OutcomesAreFinal
=============================================================================
