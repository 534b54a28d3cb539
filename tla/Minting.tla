------------------------------ MODULE Minting ------------------------------
(***************************************************************************)
(* The dashboard mints into an ERC-721 collection that a smart wallet owns *)
(* (handleSubmitWithUpload).  The contract numbers its tokens itself, from *)
(* 0; the image and the metadata of a token are stored beforehand, under   *)
(* the number the page expects: the first one for which ownerOf fails,     *)
(* found by a binary search over the numbers 0 to 10000.  The form is      *)
(* locked only while the last call runs, so attempts overlap, in one page  *)
(* or in several.                                                          *)
(*                                                                         *)
(* What POST /wallet/execute does with an attempt is OperationLedger's     *)
(* part, which UserOps implements: minting into a collection it owns, the  *)
(* wallet's operation number i + 1 creates token i.                        *)
(***************************************************************************)
EXTENDS Integers, Sequences

CONSTANTS
    Attempts,   \* the times the form is submitted
    Owner,      \* the smart wallet
    Last,       \* the highest number the search tries
    None        \* an absent value

ASSUME NumbersToTry == Last \in Nat
ASSUME AttemptsAreSome == None \notin Attempts /\ None # Owner

VARIABLES
    wallet, fate, done,     \* OperationLedger
    pc,         \* the next call of each attempt, or how it ended
    range,      \* its binary search: low and high
    nextId,     \* the number it expects
    image,      \* object storage: whose image a number has
    meta,       \* object storage: whose metadata a number has
    bare,       \* history: attempts that mint without metadata
    raced,      \* history: attempts with another one under way
    misled      \* history: attempts whose search went wrong

ledger == <<wallet, fate, done>>
causes == <<bare, raced, misled>>
vars   == <<ledger, pc, range, nextId, image, meta, causes>>

Ledger == INSTANCE OperationLedger WITH Requests <- Attempts, Wallets <- {Owner}

Ids      == 0 .. Last
Busy     == {"probe", "image", "metadata", "execute"}
Stored   == [Ids -> Attempts \cup {None}]

TypeOK ==
    /\ wallet \in [Attempts -> {Owner, None}]
    /\ fate \in [Attempts -> {"open", "executed", "void"}]
    /\ done \in [{Owner} -> Seq(Attempts)]
    /\ pc \in [Attempts -> Busy \cup {"idle", "ok", "failed"}]
    /\ range \in [Attempts -> [low : 0 .. Last + 1, high : -1 .. Last]]
    /\ nextId \in [Attempts -> Ids]
    /\ image \in Stored
    /\ meta \in Stored
    /\ bare \subseteq Attempts /\ raced \subseteq Attempts /\ misled \subseteq Attempts

\* Variant: a bound that is itself left out, in a search that includes it.
OneMore == [low |-> 0, high |-> Last + 1]

\* let low = 0, high = 10000
Whole == [low |-> 0, high |-> Last]

Init ==
    /\ Ledger!Init
    /\ pc = [a \in Attempts |-> "idle"]
    /\ range = [a \in Attempts |-> Whole]
    /\ nextId = [a \in Attempts |-> 0]
    /\ image = [i \in Ids |-> None]
    /\ meta = [i \in Ids |-> None]
    /\ bare = {} /\ raced = {} /\ misled = {}

-----------------------------------------------------------------------------
Goto(a, p) == pc' = [pc EXCEPT ![a] = p]

\* An attempt that may still mint.
UnderWay(a) == pc[a] \in Busy \/ Ledger!Open(a)

Others(a) == {b \in Attempts \ {a} : UnderWay(b)}

\* Mints are all that the collection's owner executes here, and none reverts inside
\* its operation: the n-th executed operation created token n - 1.
Supply == Len(done[Owner])

\* handleSubmitWithUpload, with an image or without one.
Submit(a) ==
    /\ pc[a] = "idle"
    /\ raced' = IF Others(a) = {} THEN raced ELSE raced \cup Others(a) \cup {a}
    /\ \/ Goto(a, "probe") /\ UNCHANGED bare
       \/ Goto(a, "execute") /\ bare' = bare \cup {a}
    /\ UNCHANGED <<ledger, range, nextId, image, meta, misled>>

\* Variant: a search that goes on at the number it has just tried.
SameAgain(mid) == mid

\* ownerOf answered for mid.
Above(mid) == mid + 1

\* Variant: the end of the range for the number that was tried.
HighEnd(a, mid) == range[a].high

\* ownerOf failed for mid.
FirstFree(a, mid) == mid

Mid(a) == (range[a].low + range[a].high) \div 2

TakeForFree(a) ==
    /\ range' = [range EXCEPT ![a].high = Mid(a) - 1]
    /\ nextId' = [nextId EXCEPT ![a] = FirstFree(a, Mid(a))]
    /\ UNCHANGED pc

\* getNextTokenIdForERC721: one ownerOf, or the end of the search, which has
\* left 0 when no number is free.
Probe(a) ==
    /\ pc[a] = "probe"
    /\ \/ /\ range[a].low <= range[a].high
          /\ \/ /\ Mid(a) < Supply
                /\ range' = [range EXCEPT ![a].low = Above(Mid(a))]
                /\ UNCHANGED <<pc, nextId>>
             \/ Mid(a) >= Supply /\ TakeForFree(a)
          /\ UNCHANGED misled
       \/ /\ range[a].low > range[a].high
          /\ Goto(a, "image")
          /\ misled' = IF range[a].low > Last THEN misled \cup {a} ELSE misled
          /\ UNCHANGED <<range, nextId>>
    /\ UNCHANGED <<ledger, image, meta, bare, raced>>

\* Whatever ownerOf fails with, the number counts as free.
ProbeFails(a) ==
    /\ pc[a] = "probe"
    /\ range[a].low <= range[a].high
    /\ Mid(a) < Supply
    /\ TakeForFree(a)
    /\ misled' = misled \cup {a}
    /\ UNCHANGED <<ledger, image, meta, bare, raced>>

\* Variant: tokens numbered from 1.
StoreOneOn(store, a) == [i \in Ids |-> IF i = nextId[a] + 1 THEN a ELSE store[i]]

\* BuildObjectKey: the object of a number, whoever stores it.  Images of two
\* attempts are taken to be of the same type.
StoreAs(store, a) == [store EXCEPT ![nextId[a]] = a]

\* uploadImageToMinIO: a failure, before or after the object is stored, is
\* only shown; the token is minted all the same, without metadata.
UploadImage(a) ==
    /\ pc[a] = "image"
    /\ \/ image' = StoreAs(image, a) /\ Goto(a, "metadata") /\ UNCHANGED bare
       \/ /\ image' \in {image, StoreAs(image, a)}
          /\ Goto(a, "execute")
          /\ bare' = bare \cup {a}
    /\ UNCHANGED <<ledger, range, nextId, meta, raced, misled>>

\* generateMetadata throws when it fails, and nothing is minted.
GenerateMetadata(a) ==
    /\ pc[a] = "metadata"
    /\ \/ meta' = StoreAs(meta, a) /\ Goto(a, "execute")
       \/ meta' \in {meta, StoreAs(meta, a)} /\ Goto(a, "failed")
    /\ UNCHANGED <<ledger, range, nextId, image, causes>>

\* executeTransaction: the answer may be lost on its way.
ExecuteMint(a) ==
    /\ pc[a] = "execute"
    /\ \/ Ledger!Submit(a, Owner) /\ (Goto(a, "ok") \/ Goto(a, "failed"))
       \/ Goto(a, "failed") /\ UNCHANGED ledger
    /\ UNCHANGED <<range, nextId, image, meta, causes>>

\* The page is closed.
Leave(a) ==
    /\ pc[a] \in Busy
    /\ Goto(a, "failed")
    /\ UNCHANGED <<ledger, range, nextId, image, meta, causes>>

\* The backend and the chain, later.
Settle(a) ==
    /\ Ledger!Execute(a) \/ Ledger!Void(a)
    /\ UNCHANGED <<pc, range, nextId, image, meta, causes>>

Step(a) == Probe(a) \/ UploadImage(a) \/ GenerateMetadata(a) \/ ExecuteMint(a)

Next == \E a \in Attempts :
    \/ Submit(a) \/ Step(a)
    \/ ProbeFails(a) \/ Leave(a) \/ Settle(a)

Spec == Init /\ [][Next]_vars

\* Every call of the page returns; the search does not need one to fail.
FairSpec == Spec /\ \A a \in Attempts : WF_vars(Step(a))

-----------------------------------------------------------------------------
(* Properties.                                                             *)

Disturbed == raced \cup misled

\* A token shows the image and the metadata of the attempt that minted it.
\* One minted without metadata may show what an attempt that never minted
\* left under its number.  Anything else takes an attempt that overlapped
\* another, a probe that failed for a token that exists, or a collection with
\* more tokens than the search looks at.
TokensShowTheirMint ==
    \A i \in Ids : i < Supply =>
        LET a == done[Owner][i + 1] IN
        \A w \in {image[i], meta[i]} :
            \/ w = a
            \/ a \in bare /\ (w = None \/ fate[w] # "executed")
            \/ a \in Disturbed
            \/ w \in Disturbed

\* Whatever the probes answered, and however the collection grew meanwhile,
\* the search never expects a number beyond the next one: a wrong guess changes
\* what a token that exists shows, and never what some later token will show.
GuessesNeverSkip ==
    \A a \in Attempts : pc[a] \in {"image", "metadata"} => nextId[a] <= Supply

\* An attempt that nothing disturbed minted the number it had found, however
\* long its calls took: the number is never taken from under it.
PredictionsComeTrue ==
    \A a \in Attempts \ (Disturbed \cup bare) :
        fate[a] = "executed" => nextId[a] < Supply /\ done[Owner][nextId[a] + 1] = a

\* One attempt at a time, with an image and no failed probe: then every token
\* shows its own attempt's image and metadata, and there are no more tokens
\* than numbers to search.
Undisturbed == Disturbed = {} /\ bare = {}

UndisturbedShowsAll ==
    Undisturbed =>
        /\ Supply <= Last + 1
        /\ \A i \in 0 .. Supply - 1 :
              image[i] = done[Owner][i + 1] /\ meta[i] = done[Owner][i + 1]

\* No attempt mints two tokens: a double submit, a lost answer or a lost
\* transaction never repeats a mint.
OneTokenPerAttempt ==
    \A i, j \in 1 .. Supply : done[Owner][i] = done[Owner][j] => i = j

\* Through the page, the ledger of operations is used as UserOps implements it:
\* what holds of its histories holds of the collection.
UsesLedger == Ledger!Spec

\* A token is never taken back or given another number: what the page stored
\* under the number of a token that exists stays about that token.
TokensKeepTheirMinter ==
    [][/\ Supply <= Supply'
       /\ \A i \in 1 .. Supply : done'[Owner][i] = done[Owner][i]]_vars

\* The width of the range a search still has to try.
Width(a) == range[a].high - range[a].low + 1

\* Every probe at least halves what the search still has to try, whatever was
\* minted meanwhile: ownerOf is called for at most 14 of the 10001 numbers.
SearchHalves ==
    [][\A a \in Attempts :
          range'[a] # range[a] => Width(a) > 0 /\ 2 * Width(a)' <= Width(a)]_vars

\* The search ends, although the collection grows under it, and so does the
\* attempt.
AttemptsEnd ==
    \A a \in Attempts : pc[a] = "probe" ~> pc[a] \in {"ok", "failed"}

-----------------------------------------------------------------------------
(* Why they hold: an inductive invariant.                                  *)

\* An attempt is at the backend once its page has sent it, and not before.
Sent ==
    \A a \in Attempts :
        /\ pc[a] \in {"idle"} \cup Busy => wallet[a] = None
        /\ wallet[a] = None => fate[a] = "open"

\* The numbers below low are taken; nextId is the last one that counted as
\* free, just above high.
Searches ==
    \A a \in Attempts :
        /\ pc[a] = "idle" => range[a] = Whole /\ nextId[a] = 0
        /\ range[a].low <= Supply
        /\ range[a].low <= range[a].high + 1
        /\ nextId[a] = range[a].high + 1 \/ (nextId[a] = 0 /\ range[a].high = Last)

Racing ==
    \A a, b \in Attempts : a # b /\ UnderWay(a) /\ UnderWay(b) => a \in raced

\* What an attempt has found and stored is about the next token, until that
\* token is its own.
OnTrack(a) ==
    /\ nextId[a] = range[a].high + 1 /\ UnderWay(a) => nextId[a] >= Supply
    /\ pc[a] \in {"image", "metadata"} => nextId[a] = Supply
    /\ pc[a] = "metadata" => image[nextId[a]] = a
    /\ a \notin bare /\ (pc[a] = "execute" \/ Ledger!Open(a)) =>
          nextId[a] = Supply /\ image[nextId[a]] = a /\ meta[nextId[a]] = a
    /\ \A i \in Ids : a \in {image[i], meta[i]} =>
          /\ UnderWay(a) => i = Supply
          /\ fate[a] = "executed" => i < Supply
          /\ pc[a] \notin {"idle", "probe"}

Ahead == \A a \in Attempts \ Disturbed : OnTrack(a)

IInv ==
    /\ TypeOK
    /\ Sent
    /\ Searches
    /\ Racing
    /\ Ahead
    /\ PredictionsComeTrue
    /\ GuessesNeverSkip
    /\ TokensShowTheirMint
=============================================================================
