-------------------------- MODULE OperationLedger --------------------------
(***************************************************************************)
(* What POST /wallet/execute promises about smart wallets, without nonces, *)
(* mempool or bundler: every wallet has one history of operations, which   *)
(* only grows at its end; an operation enters it at most once, and never   *)
(* once it is void.                                                        *)
(***************************************************************************)
EXTENDS Naturals, Sequences

CONSTANTS
    Requests,   \* the requests to execute an operation
    Wallets,    \* the smart wallets they are for
    None        \* the wallet of a request that has not arrived

VARIABLES
    wallet,     \* the wallet of a request
    fate,       \* what became of the operation
    done        \* the history of each wallet

ledger == <<wallet, fate, done>>

Init ==
    /\ wallet = [r \in Requests |-> None]
    /\ fate = [r \in Requests |-> "open"]
    /\ done = [w \in Wallets |-> <<>>]

Open(r) == wallet[r] # None /\ fate[r] = "open"

Submit(r, w) ==
    /\ wallet[r] = None
    /\ wallet' = [wallet EXCEPT ![r] = w]
    /\ UNCHANGED <<fate, done>>

Execute(r) ==
    /\ Open(r)
    /\ fate' = [fate EXCEPT ![r] = "executed"]
    /\ done' = [done EXCEPT ![wallet[r]] = Append(@, r)]
    /\ UNCHANGED wallet

Void(r) ==
    /\ Open(r)
    /\ fate' = [fate EXCEPT ![r] = "void"]
    /\ UNCHANGED <<wallet, done>>

Next == \E r \in Requests :
    \/ \E w \in Wallets : Submit(r, w)
    \/ Execute(r)
    \/ Void(r)

Spec == Init /\ [][Next]_ledger

-----------------------------------------------------------------------------
(* What the ledger promises.                                               *)

TypeOK ==
    /\ wallet \in [Requests -> Wallets \cup {None}]
    /\ fate \in [Requests -> {"open", "executed", "void"}]
    /\ done \in [Wallets -> Seq(Requests)]

\* The operations in the history of w.
Entries(w) == {done[w][i] : i \in 1 .. Len(done[w])}

\* The histories hold the operations that were executed and no other, each in
\* the history of its own wallet.
HistoriesAreExact ==
    \A r \in Requests, w \in Wallets :
        r \in Entries(w) <=> wallet[r] = w /\ fate[r] = "executed"

\* No operation has two places in the histories: none is executed twice, by one
\* wallet or by two.
NothingIsDoneTwice ==
    \A v, w \in Wallets :
        \A i \in 1 .. Len(done[v]), j \in 1 .. Len(done[w]) :
            done[v][i] = done[w][j] => v = w /\ i = j

\* A history is never rewritten: it grows at its end, one operation at a time.
Extended(w) ==
    /\ Len(done'[w]) \in {Len(done[w]), Len(done[w]) + 1}
    /\ \A i \in 1 .. Len(done[w]) : done'[w][i] = done[w][i]

HistoriesOnlyGrow == [][\A w \in Wallets : Extended(w)]_ledger

\* What was executed is never undone, what is void is never executed, and a
\* request never changes its wallet.
Final(r) ==
    /\ fate[r] # "open" => fate'[r] = fate[r]
    /\ wallet[r] # None => wallet'[r] = wallet[r]

OutcomesAreFinal == [][\A r \in Requests : Final(r)]_ledger

\* Nothing has an outcome before it was submitted.
Submitted == \A r \in Requests : wallet[r] = None => fate[r] = "open"

IInv == TypeOK /\ Submitted /\ HistoriesAreExact /\ NothingIsDoneTwice
=============================================================================
