---------------------------- MODULE MintingProofs ----------------------------
(***************************************************************************)
(* Proofs about Minting for any number of attempts and any range of        *)
(* numbers to search: the search never skips a number, and a token shows   *)
(* what the attempt that minted it stored, unless something overlapped or  *)
(* went wrong.                                                             *)
(***************************************************************************)
EXTENDS Minting, TLAPS

\* The number that is tried lies in the range.
LEMMA MidBounds ==
    ASSUME NEW low \in Int, NEW high \in Int, low <= high
    PROVE  /\ (low + high) \div 2 \in Int
           /\ low <= (low + high) \div 2 /\ (low + high) \div 2 <= high
OBVIOUS

LEMMA SearchTypes ==
    ASSUME TypeOK, NEW a \in Attempts
    PROVE  /\ range[a].low \in 0 .. Last + 1 /\ range[a].high \in -1 .. Last
           /\ range[a].low <= range[a].high =>
                 /\ Mid(a) \in Ids
                 /\ range[a].low <= Mid(a) /\ Mid(a) <= range[a].high
<1>1. range[a].low \in 0 .. Last + 1 /\ range[a].high \in -1 .. Last
  BY DEF TypeOK
<1>2. CASE range[a].low <= range[a].high
  BY <1>1, <1>2, MidBounds, NumbersToTry DEF Mid, Ids
<1>3. QED
  BY <1>1, <1>2

LEMMA SupplyIsNat == TypeOK => Supply \in Nat
BY DEF TypeOK, Supply

\* Types.
LEMMA TypeInit == Init => TypeOK
BY NumbersToTry DEF Init, TypeOK, Ledger!Init, Whole, Ids, Stored, Busy

LEMMA TypeStep == TypeOK /\ Sent /\ [Next]_vars => TypeOK'
<1> SUFFICES ASSUME TypeOK, Sent, [Next]_vars PROVE TypeOK'
  OBVIOUS
<1> USE NumbersToTry DEF Goto, ledger, causes
<1>a. \A a \in Attempts : Others(a) \subseteq Attempts
  BY DEF Others
<1>b. ASSUME NEW a \in Attempts, NEW s \in Stored, StoreAs(s, a) = [s EXCEPT ![nextId[a]] = a]
      PROVE  StoreAs(s, a) \in Stored
  BY <1>b DEF TypeOK, Stored
<1>c. \A a \in Attempts, s \in Stored : StoreAs(s, a) \in Stored
  BY <1>b DEF StoreAs
<1>d. ASSUME NEW a \in Attempts, range[a].low <= range[a].high, TakeForFree(a)
      PROVE  /\ range' \in [Attempts -> [low : 0 .. Last + 1, high : -1 .. Last]]
             /\ nextId' \in [Attempts -> Ids]
  <2>1. Mid(a) \in Ids /\ Mid(a) - 1 \in -1 .. Last
    BY <1>d, SearchTypes DEF Ids
  <2>2. QED
    BY <1>d, <2>1 DEF TakeForFree, FirstFree, TypeOK
<1>1. ASSUME NEW a \in Attempts, Submit(a) PROVE TypeOK'
  BY <1>1, <1>a DEF Submit, TypeOK, Busy
<1>2. ASSUME NEW a \in Attempts, Probe(a) PROVE TypeOK'
  <2>1. CASE range[a].low <= range[a].high /\ Mid(a) < Supply /\ range' = [range EXCEPT ![a].low = Above(Mid(a))]
             /\ UNCHANGED <<pc, nextId, misled>>
    <3>1. Above(Mid(a)) \in 0 .. Last + 1
      BY <2>1, SearchTypes DEF Above, Ids
    <3>2. range' \in [Attempts -> [low : 0 .. Last + 1, high : -1 .. Last]]
      BY <2>1, <3>1 DEF TypeOK
    <3>3. QED
      BY <1>2, <2>1, <3>2 DEF Probe, TypeOK
  <2>2. CASE range[a].low <= range[a].high /\ TakeForFree(a) /\ UNCHANGED misled
    BY <1>2, <1>d, <2>2 DEF Probe, TakeForFree, TypeOK
  <2>3. CASE range[a].low > range[a].high /\ Goto(a, "image") /\ UNCHANGED <<range, nextId>>
             /\ misled' \in {misled, misled \cup {a}}
    BY <1>2, <2>3 DEF Probe, TypeOK, Busy
  <2>4. QED
    BY <1>2, <2>1, <2>2, <2>3 DEF Probe
<1>3. ASSUME NEW a \in Attempts, ProbeFails(a) PROVE TypeOK'
  BY <1>3, <1>d DEF ProbeFails, TakeForFree, TypeOK
<1>4. ASSUME NEW a \in Attempts, UploadImage(a) PROVE TypeOK'
  BY <1>4, <1>c DEF UploadImage, TypeOK, Busy
<1>5. ASSUME NEW a \in Attempts, GenerateMetadata(a) PROVE TypeOK'
  BY <1>5, <1>c DEF GenerateMetadata, TypeOK, Busy
<1>6. ASSUME NEW a \in Attempts, ExecuteMint(a) PROVE TypeOK'
  BY <1>6 DEF ExecuteMint, Ledger!Submit, TypeOK, Busy
<1>7. ASSUME NEW a \in Attempts, Leave(a) PROVE TypeOK'
  BY <1>7 DEF Leave, TypeOK, Busy
<1>8. ASSUME NEW a \in Attempts, Settle(a) PROVE TypeOK'
  <2>1. wallet[a] = Owner
    BY <1>8 DEF Settle, Ledger!Execute, Ledger!Void, Ledger!Open, TypeOK
  <2>2. done' \in [{Owner} -> Seq(Attempts)]
    <3>1. done[Owner] \in Seq(Attempts)
      BY DEF TypeOK
    <3>2. Append(done[Owner], a) \in Seq(Attempts)
      BY <3>1
    <3>3. done' = done \/ done' = [done EXCEPT ![Owner] = Append(done[Owner], a)]
      BY <1>8, <2>1 DEF Settle, Ledger!Execute, Ledger!Void
    <3>4. QED
      BY <3>2, <3>3 DEF TypeOK
  <2>3. QED
    BY <1>8, <2>2 DEF Settle, Ledger!Execute, Ledger!Void, TypeOK
<1>9. CASE UNCHANGED vars
  BY <1>9 DEF vars, TypeOK
<1>10. QED
  BY <1>1, <1>2, <1>3, <1>4, <1>5, <1>6, <1>7, <1>8, <1>9 DEF Next, Step

\* An attempt reaches the backend once.
LEMMA SentStep == TypeOK /\ Sent /\ [Next]_vars => Sent'
<1> SUFFICES ASSUME TypeOK, Sent, [Next]_vars PROVE Sent'
  OBVIOUS
<1> USE DEF TypeOK, Sent, Goto, ledger, Busy
<1>1. ASSUME NEW a \in Attempts,
             \/ Submit(a) \/ Probe(a) \/ ProbeFails(a)
             \/ UploadImage(a) \/ GenerateMetadata(a) \/ Leave(a)
      PROVE  Sent'
  BY <1>1 DEF Submit, Probe, ProbeFails, TakeForFree, UploadImage, GenerateMetadata, Leave
<1>2. ASSUME NEW a \in Attempts, ExecuteMint(a) PROVE Sent'
  BY <1>2, AttemptsAreSome DEF ExecuteMint, Ledger!Submit
<1>3. ASSUME NEW a \in Attempts, Settle(a) PROVE Sent'
  BY <1>3 DEF Settle, Ledger!Execute, Ledger!Void, Ledger!Open, causes
<1>4. CASE UNCHANGED vars
  BY <1>4 DEF vars
<1>5. QED
  BY <1>1, <1>2, <1>3, <1>4 DEF Next, Step

\* The collection grows by the token of an attempt that executes, and else not.
LEMMA Growth ==
    ASSUME TypeOK, NEW a \in Attempts, Settle(a)
    PROVE  /\ wallet[a] = Owner /\ fate[a] = "open"
           /\ \/ /\ fate' = [fate EXCEPT ![a] = "executed"]
                 /\ done'[Owner] = Append(done[Owner], a)
                 /\ Supply' = Supply + 1
              \/ /\ fate' = [fate EXCEPT ![a] = "void"]
                 /\ UNCHANGED done
                 /\ Supply' = Supply
<1> USE DEF Settle
<1>1. wallet[a] = Owner /\ fate[a] = "open"
  BY DEF Ledger!Execute, Ledger!Void, Ledger!Open, TypeOK
<1>2. CASE Ledger!Execute(a)
  <2>1. done' = [done EXCEPT ![Owner] = Append(done[Owner], a)]
    BY <1>1, <1>2 DEF Ledger!Execute
  <2>2. done[Owner] \in Seq(Attempts) /\ done'[Owner] = Append(done[Owner], a)
    BY <2>1 DEF TypeOK
  <2>3. QED
    BY <1>1, <1>2, <2>2 DEF Ledger!Execute, Supply
<1>3. CASE Ledger!Void(a)
  BY <1>1, <1>3 DEF Ledger!Void, Supply
<1>4. QED
  BY <1>2, <1>3

\* What each of the steps that only move an attempt on leaves alone.
LEMMA Quiet ==
    ASSUME NEW a \in Attempts,
           Submit(a) \/ UploadImage(a) \/ GenerateMetadata(a) \/ ExecuteMint(a) \/ Leave(a)
    PROVE  /\ UNCHANGED <<range, nextId, done, misled>>
           /\ Supply' = Supply
BY DEF Submit, UploadImage, GenerateMetadata, ExecuteMint, Leave, Ledger!Submit, ledger, causes, Supply

\* A probe moves one end of the range past the number it tried.
LEMMA ProbeSteps ==
    ASSUME TypeOK, NEW a \in Attempts, Probe(a) \/ ProbeFails(a)
    PROVE  /\ pc[a] = "probe" /\ Supply' = Supply
           /\ UNCHANGED <<ledger, image, meta, bare, raced>>
           /\ \/ /\ range[a].low <= range[a].high
                 /\ Mid(a) < Supply
                 /\ range' = [range EXCEPT ![a].low = Mid(a) + 1]
                 /\ UNCHANGED <<pc, nextId, misled>>
              \/ /\ range[a].low <= range[a].high
                 /\ range' = [range EXCEPT ![a].high = Mid(a) - 1]
                 /\ nextId' = [nextId EXCEPT ![a] = Mid(a)]
                 /\ UNCHANGED pc
                 /\ misled' = misled \cup {a} \/ (Mid(a) >= Supply /\ misled' = misled)
              \/ /\ range[a].low > range[a].high
                 /\ pc' = [pc EXCEPT ![a] = "image"]
                 /\ UNCHANGED <<range, nextId>>
                 /\ misled' = misled \cup {a} \/ (range[a].low <= Last /\ misled' = misled)
<1>1. range[a].low \in Int /\ Last \in Int
  BY SearchTypes, NumbersToTry
<1>2. CASE Probe(a)
  BY <1>1, <1>2 DEF Probe, TakeForFree, FirstFree, Above, Goto, ledger, Supply
<1>3. CASE ProbeFails(a)
  BY <1>3 DEF ProbeFails, TakeForFree, FirstFree, ledger, Supply
<1>4. QED
  BY <1>2, <1>3

LEMMA SearchesStep == TypeOK /\ Sent /\ Searches /\ [Next]_vars => Searches'
<1> SUFFICES ASSUME TypeOK, Sent, Searches, [Next]_vars PROVE Searches'
  OBVIOUS
<1>a. Supply \in Nat
  BY SupplyIsNat
<1>b. ASSUME UNCHANGED <<range, nextId>>, Supply' \in Nat, Supply' >= Supply,
             \A b \in Attempts : pc'[b] = "idle" => pc[b] = "idle"
      PROVE  Searches'
  <2> SUFFICES ASSUME NEW b \in Attempts
               PROVE  /\ pc'[b] = "idle" => range'[b] = Whole /\ nextId'[b] = 0
                      /\ range'[b].low <= Supply'
                      /\ range'[b].low <= range'[b].high + 1
                      /\ nextId'[b] = range'[b].high + 1 \/ (nextId'[b] = 0 /\ range'[b].high = Last)
    BY DEF Searches, Whole
  <2>1. range[b].low \in Int
    BY SearchTypes
  <2>2. QED
    BY <1>a, <1>b, <2>1 DEF Searches
<1>1. ASSUME NEW a \in Attempts,
             Submit(a) \/ UploadImage(a) \/ GenerateMetadata(a) \/ ExecuteMint(a) \/ Leave(a)
      PROVE  Searches'
  <2>1. \A b \in Attempts : pc'[b] = "idle" => pc[b] = "idle"
    BY <1>1 DEF Submit, UploadImage, GenerateMetadata, ExecuteMint, Leave, Goto, TypeOK
  <2>2. QED
    BY <1>1, <1>a, <1>b, <2>1, Quiet
<1>2. ASSUME NEW a \in Attempts, Probe(a) \/ ProbeFails(a) PROVE Searches'
  <2>1. CASE range[a].low > range[a].high /\ pc' = [pc EXCEPT ![a] = "image"] /\ UNCHANGED <<range, nextId>>
    <3>1. (\A b \in Attempts : pc'[b] = "idle" => pc[b] = "idle") /\ Supply' = Supply
      BY <1>2, <2>1, ProbeSteps DEF TypeOK
    <3>2. QED
      BY <1>a, <1>b, <2>1, <3>1
  <2>2. CASE /\ range[a].low <= range[a].high /\ Mid(a) < Supply
             /\ range' = [range EXCEPT ![a].low = Mid(a) + 1] /\ UNCHANGED <<pc, nextId>>
    <3> SUFFICES ASSUME NEW b \in Attempts
                 PROVE  /\ pc'[b] = "idle" => range'[b] = Whole /\ nextId'[b] = 0
                        /\ range'[b].low <= Supply'
                        /\ range'[b].low <= range'[b].high + 1
                        /\ nextId'[b] = range'[b].high + 1 \/ (nextId'[b] = 0 /\ range'[b].high = Last)
      BY DEF Searches, Whole
    <3>1. b # a => range'[b] = range[b]
      BY <2>2 DEF TypeOK
    <3>2. range'[a].low = Mid(a) + 1 /\ range'[a].high = range[a].high
      BY <2>2 DEF TypeOK
    <3>3. Mid(a) \in Int /\ range[a].high \in Int /\ Mid(a) <= range[a].high
      BY <2>2, SearchTypes, NumbersToTry DEF Ids
    <3>4. pc[a] = "probe" /\ Supply' = Supply
      BY <1>2, ProbeSteps
    <3>5. QED
      BY <1>a, <2>2, <3>1, <3>2, <3>3, <3>4 DEF Searches
  <2>3. CASE /\ range[a].low <= range[a].high /\ UNCHANGED pc
             /\ range' = [range EXCEPT ![a].high = Mid(a) - 1] /\ nextId' = [nextId EXCEPT ![a] = Mid(a)]
    <3> SUFFICES ASSUME NEW b \in Attempts
                 PROVE  /\ pc'[b] = "idle" => range'[b] = Whole /\ nextId'[b] = 0
                        /\ range'[b].low <= Supply'
                        /\ range'[b].low <= range'[b].high + 1
                        /\ nextId'[b] = range'[b].high + 1 \/ (nextId'[b] = 0 /\ range'[b].high = Last)
      BY DEF Searches, Whole
    <3>1. b # a => range'[b] = range[b] /\ nextId'[b] = nextId[b]
      BY <2>3 DEF TypeOK
    <3>2. range'[a].low = range[a].low /\ range'[a].high = Mid(a) - 1 /\ nextId'[a] = Mid(a)
      BY <2>3 DEF TypeOK
    <3>3. Mid(a) \in Int /\ range[a].low \in Int /\ range[a].low <= Mid(a)
      BY <2>3, SearchTypes, NumbersToTry DEF Ids
    <3>4. pc[a] = "probe" /\ Supply' = Supply
      BY <1>2, ProbeSteps
    <3>5. QED
      BY <1>a, <2>3, <3>1, <3>2, <3>3, <3>4 DEF Searches
  <2>4. QED
    BY <1>2, <2>1, <2>2, <2>3, ProbeSteps
<1>3. ASSUME NEW a \in Attempts, Settle(a) PROVE Searches'
  <2>1. UNCHANGED <<pc, range, nextId>> /\ Supply' \in Nat /\ Supply' >= Supply
    BY <1>3, <1>a, Growth DEF Settle
  <2>2. QED
    BY <1>b, <2>1
<1>4. CASE UNCHANGED vars
  BY <1>4, <1>a, <1>b DEF vars, ledger, Supply
<1>5. QED
  BY <1>1, <1>2, <1>3, <1>4 DEF Next, Step

\* No number is skipped: the last one that counted as free is at most the first
\* one that is.
LEMMA GuessStep ==
    TypeOK /\ Sent /\ Searches /\ GuessesNeverSkip /\ [Next]_vars => GuessesNeverSkip'
<1> SUFFICES ASSUME TypeOK, Sent, Searches, GuessesNeverSkip, [Next]_vars PROVE GuessesNeverSkip'
  OBVIOUS
<1>a. Supply \in Nat /\ \A b \in Attempts : nextId[b] \in Nat
  BY SupplyIsNat, NumbersToTry DEF TypeOK, Ids
<1>b. ASSUME UNCHANGED nextId, Supply' \in Nat, Supply' >= Supply,
             \A b \in Attempts : pc'[b] \in {"image", "metadata"} => pc[b] \in {"image", "metadata"}
      PROVE  GuessesNeverSkip'
  BY <1>a, <1>b DEF GuessesNeverSkip
<1>1. ASSUME NEW a \in Attempts,
             Submit(a) \/ UploadImage(a) \/ GenerateMetadata(a) \/ ExecuteMint(a) \/ Leave(a)
      PROVE  GuessesNeverSkip'
  <2>1. \A b \in Attempts : pc'[b] \in {"image", "metadata"} => pc[b] \in {"image", "metadata"}
    BY <1>1 DEF Submit, UploadImage, GenerateMetadata, ExecuteMint, Leave, Goto, TypeOK
  <2>2. QED
    BY <1>1, <1>a, <1>b, <2>1, Quiet
<1>2. ASSUME NEW a \in Attempts, Probe(a) \/ ProbeFails(a) PROVE GuessesNeverSkip'
  <2>1. /\ pc[a] = "probe" /\ Supply' = Supply
        /\ \A b \in Attempts \ {a} : pc'[b] = pc[b] /\ nextId'[b] = nextId[b]
    BY <1>2, ProbeSteps DEF TypeOK
  <2>2. CASE pc'[a] = "probe"
    BY <2>1, <2>2 DEF GuessesNeverSkip
  <2>3. CASE range[a].low > range[a].high /\ UNCHANGED nextId
    <3>1. nextId[a] <= Supply
      BY <1>a, <2>3, SearchTypes, NumbersToTry DEF Searches
    <3>2. QED
      BY <2>1, <2>3, <3>1 DEF GuessesNeverSkip
  <2>4. QED
    BY <1>2, <2>1, <2>2, <2>3, ProbeSteps
<1>3. ASSUME NEW a \in Attempts, Settle(a) PROVE GuessesNeverSkip'
  <2>1. UNCHANGED <<pc, nextId>> /\ Supply' \in Nat /\ Supply' >= Supply
    BY <1>3, <1>a, Growth DEF Settle
  <2>2. QED
    BY <1>b, <2>1
<1>4. CASE UNCHANGED vars
  BY <1>4, <1>a, <1>b DEF vars, ledger, Supply
<1>5. QED
  BY <1>1, <1>2, <1>3, <1>4 DEF Next, Step

\* Two attempts under way know of each other.
LEMMA RacingStep == TypeOK /\ Sent /\ Racing /\ [Next]_vars => Racing'
<1> SUFFICES ASSUME TypeOK, Sent, Racing, [Next]_vars PROVE Racing'
  OBVIOUS
<1>a. ASSUME raced \subseteq raced', \A b \in Attempts : UnderWay(b)' => UnderWay(b)
      PROVE  Racing'
  BY <1>a DEF Racing
<1>1. ASSUME NEW a \in Attempts, Submit(a) PROVE Racing'
  <2>1. /\ \A b \in Attempts \ {a} : UnderWay(b)' <=> UnderWay(b)
        /\ raced \subseteq raced'
        /\ Others(a) # {} => raced' = raced \cup Others(a) \cup {a}
    BY <1>1 DEF Submit, UnderWay, Ledger!Open, ledger, Goto, TypeOK
  <2>2. \A b \in Attempts \ {a} : UnderWay(b) => b \in raced' /\ a \in raced'
    BY <2>1 DEF Others
  <2>3. QED
    BY <2>1, <2>2 DEF Racing
<1>2. ASSUME NEW a \in Attempts, Probe(a) \/ ProbeFails(a) PROVE Racing'
  <2>1. \A b \in Attempts : UnderWay(b)' => UnderWay(b)
    BY <1>2, ProbeSteps DEF UnderWay, Ledger!Open, ledger, Busy, TypeOK
  <2>2. QED
    BY <1>2, <1>a, <2>1, ProbeSteps
<1>3. ASSUME NEW a \in Attempts, UploadImage(a) \/ GenerateMetadata(a) \/ ExecuteMint(a) \/ Leave(a)
      PROVE  Racing'
  <2>1. raced' = raced
    BY <1>3 DEF UploadImage, GenerateMetadata, ExecuteMint, Leave, causes
  <2>2. \A b \in Attempts : UnderWay(b)' => UnderWay(b)
    BY <1>3 DEF UploadImage, GenerateMetadata, ExecuteMint, Leave, Goto, Ledger!Submit, ledger,
                UnderWay, Ledger!Open, Busy, TypeOK
  <2>3. QED
    BY <1>a, <2>1, <2>2
<1>4. ASSUME NEW a \in Attempts, Settle(a) PROVE Racing'
  <2>1. UNCHANGED <<pc, raced, wallet>> /\ \A b \in Attempts : fate'[b] = "open" => fate[b] = "open"
    BY <1>4, Growth DEF Settle, causes, Ledger!Execute, Ledger!Void, TypeOK
  <2>2. QED
    BY <1>a, <2>1 DEF UnderWay, Ledger!Open
<1>5. CASE UNCHANGED vars
  BY <1>5, <1>a DEF vars, ledger, causes, UnderWay, Ledger!Open
<1>6. QED
  BY <1>1, <1>2, <1>3, <1>4, <1>5 DEF Next, Step

\* An attempt that is not under way keeps to its track whatever another one does.
LEMMA Bystander ==
    ASSUME TypeOK, NEW b \in Attempts, OnTrack(b), ~UnderWay(b),
           UNCHANGED <<pc[b], wallet[b], fate[b]>>, Supply' \in Nat, Supply' >= Supply,
           \A i \in Ids : b \in {image'[i], meta'[i]} => b \in {image[i], meta[i]}
    PROVE  OnTrack(b)'
<1>1. ~UnderWay(b)' /\ pc[b] \notin Busy /\ pc'[b] \notin Busy /\ ~Ledger!Open(b)'
  BY DEF UnderWay, Ledger!Open
<1>2. \A i \in Ids : b \in {image'[i], meta'[i]} =>
          /\ fate'[b] = "executed" => i < Supply'
          /\ pc'[b] \notin {"idle", "probe"}
  BY SupplyIsNat, NumbersToTry DEF OnTrack, Ids
<1>3. QED
  BY <1>1, <1>2 DEF OnTrack, Busy

LEMMA OthersRest ==
    ASSUME Racing, NEW a \in Attempts, NEW b \in Attempts \ {a}, UnderWay(a), b \notin Disturbed
    PROVE  ~UnderWay(b)
BY DEF Racing, Disturbed

\* An undisturbed attempt finds, stores and mints the next token.
LEMMA AheadStep ==
    TypeOK /\ Sent /\ Searches /\ Racing /\ Ahead /\ [Next]_vars => Ahead'
<1> SUFFICES ASSUME TypeOK, Sent, Searches, Racing, Ahead, [Next]_vars PROVE Ahead'
  OBVIOUS
<1>a. Supply \in Nat
  BY SupplyIsNat
<1>b. \A b \in Attempts : nextId[b] \in Ids /\ nextId[b] \in Nat /\ range[b].high \in Int /\ range[b].low \in Int
  BY SearchTypes, NumbersToTry DEF TypeOK, Ids
<1>c. \A b \in Attempts : pc[b] \in Busy => UnderWay(b) /\ wallet[b] = None /\ fate[b] = "open" /\ ~Ledger!Open(b)
  BY DEF UnderWay, Sent, Ledger!Open
<1>1. ASSUME NEW a \in Attempts, Submit(a) PROVE Ahead'
  <2>1. /\ UNCHANGED <<wallet, fate, done, range, nextId, image, meta, misled>> /\ Supply' = Supply
        /\ raced \subseteq raced' /\ Others(a) \subseteq raced'
        /\ pc[a] = "idle" /\ \A b \in Attempts \ {a} : pc'[b] = pc[b] /\ (b \in bare' <=> b \in bare)
        /\ pc'[a] = "probe" \/ (pc'[a] = "execute" /\ a \in bare')
    BY <1>1 DEF Submit, Goto, ledger, Supply, TypeOK
  <2>2. ASSUME NEW b \in Attempts \ {a}, b \notin Disturbed' PROVE OnTrack(b)'
    <3>1. b \notin Disturbed /\ ~UnderWay(b)
      BY <2>1, <2>2 DEF Disturbed, Others
    <3>2. QED
      BY <1>a, <2>1, <2>2, <3>1, Bystander DEF Ahead
  <2>3. ASSUME a \notin Disturbed' PROVE OnTrack(a)'
    <3>1. OnTrack(a)
      BY <2>1, <2>3 DEF Disturbed, Ahead
    <3>2. \A i \in Ids : a \notin {image[i], meta[i]}
      BY <2>1, <3>1 DEF OnTrack
    <3>3. nextId[a] # range[a].high + 1
      BY <2>1, NumbersToTry DEF Searches, Whole
    <3>4. ~Ledger!Open(a)'
      BY <2>1 DEF Sent, Ledger!Open
    <3>5. QED
      BY <2>1, <3>2, <3>3, <3>4 DEF OnTrack
  <2>4. QED
    BY <2>2, <2>3 DEF Ahead
<1>2. ASSUME NEW a \in Attempts, Probe(a) \/ ProbeFails(a) PROVE Ahead'
  <2>1. /\ UNCHANGED <<wallet, fate, done, image, meta, bare, raced>> /\ Supply' = Supply
        /\ misled \subseteq misled' /\ pc[a] = "probe"
        /\ \A b \in Attempts \ {a} : pc'[b] = pc[b]
    BY <1>2, ProbeSteps DEF ledger, TypeOK
  <2>2. ASSUME NEW b \in Attempts \ {a}, b \notin Disturbed' PROVE OnTrack(b)'
    <3>1. b \notin Disturbed /\ ~UnderWay(b)
      BY <1>c, <2>1, <2>2, OthersRest DEF Disturbed, Busy
    <3>2. QED
      BY <1>a, <2>1, <2>2, <3>1, Bystander DEF Ahead
  <2>3. ASSUME a \notin Disturbed' PROVE OnTrack(a)'
    <3>1. OnTrack(a) /\ UnderWay(a) /\ a \notin misled'
      BY <1>c, <2>1, <2>3 DEF Disturbed, Ahead, Busy
    <3>2. (\A i \in Ids : a \notin {image[i], meta[i]}) /\ ~Ledger!Open(a)'
      BY <1>c, <2>1, <3>1 DEF OnTrack, Busy, Ledger!Open
    <3>3. CASE pc'[a] = "probe" /\ range' = [range EXCEPT ![a].low = Mid(a) + 1] /\ nextId' = nextId
      <4>1. range'[a].high = range[a].high
        BY <3>3 DEF TypeOK
      <4>2. QED
        BY <2>1, <3>1, <3>2, <3>3, <4>1 DEF OnTrack
    <3>4. CASE pc'[a] = "probe" /\ nextId' = [nextId EXCEPT ![a] = Mid(a)] /\ Mid(a) >= Supply
      <4>1. nextId'[a] >= Supply'
        BY <2>1, <3>4 DEF TypeOK
      <4>2. QED
        BY <2>1, <3>2, <3>4, <4>1 DEF OnTrack
    <3>5. CASE /\ range[a].low > range[a].high /\ range[a].low <= Last
               /\ pc'[a] = "image" /\ UNCHANGED <<range, nextId>>
      <4>1. nextId[a] = range[a].high + 1 /\ nextId[a] <= Supply
        BY <1>a, <1>b, <3>5, NumbersToTry DEF Searches
      <4>2. nextId[a] = Supply
        BY <1>a, <1>b, <3>1, <4>1 DEF OnTrack
      <4>3. QED
        BY <1>a, <2>1, <3>2, <3>5, <4>2 DEF OnTrack
    <3>6. QED
      BY <1>2, <2>1, <3>1, <3>3, <3>4, <3>5, ProbeSteps DEF TypeOK
  <2>4. QED
    BY <2>2, <2>3 DEF Ahead
<1>3. ASSUME NEW a \in Attempts, UploadImage(a) \/ GenerateMetadata(a) PROVE Ahead'
  <2>1. /\ UNCHANGED <<wallet, fate, done, range, nextId, raced, misled>> /\ Supply' = Supply
        /\ pc[a] \in {"image", "metadata"} /\ pc'[a] \in {"metadata", "execute", "failed"}
        /\ \A b \in Attempts \ {a} : pc'[b] = pc[b]
        /\ image' \in {image, StoreAs(image, a)} /\ meta' \in {meta, StoreAs(meta, a)}
    BY <1>3 DEF UploadImage, GenerateMetadata, ledger, causes, Goto, Supply, TypeOK
  <2>2. \A i \in Ids : /\ image'[i] = image[i] \/ (i = nextId[a] /\ image'[i] = a)
                       /\ meta'[i] = meta[i] \/ (i = nextId[a] /\ meta'[i] = a)
    BY <2>1 DEF StoreAs, TypeOK, Stored
  <2>3. ASSUME NEW b \in Attempts \ {a}, b \notin Disturbed' PROVE OnTrack(b)'
    <3>1. b \notin Disturbed /\ ~UnderWay(b)
      BY <1>c, <2>1, <2>3, OthersRest DEF Disturbed, Busy
    <3>2. QED
      BY <1>a, <2>1, <2>2, <2>3, <3>1, Bystander DEF Ahead
  <2>4. ASSUME a \notin Disturbed' PROVE OnTrack(a)'
    <3>1. OnTrack(a) /\ UnderWay(a) /\ nextId[a] = Supply /\ fate[a] = "open" /\ ~Ledger!Open(a)'
      BY <1>c, <2>1, <2>4 DEF Disturbed, Ahead, OnTrack, Busy, Ledger!Open
    <3>2. \A i \in Ids : a \in {image'[i], meta'[i]} => i = Supply
      BY <2>2, <3>1 DEF OnTrack
    <3>3. \/ pc'[a] = "metadata" /\ image'[nextId[a]] = a
          \/ pc'[a] = "execute" /\ a \in bare'
          \/ pc'[a] = "execute" /\ image'[nextId[a]] = a /\ meta'[nextId[a]] = a
          \/ pc'[a] = "failed"
      <4>1. CASE UploadImage(a)
        BY <1>b, <4>1 DEF UploadImage, StoreAs, Goto, TypeOK, Stored
      <4>2. CASE GenerateMetadata(a)
        BY <1>b, <3>1, <4>2 DEF GenerateMetadata, StoreAs, Goto, TypeOK, Stored, OnTrack
      <4>3. QED
        BY <1>3, <4>1, <4>2
    <3>4. QED
      BY <1>a, <2>1, <3>1, <3>2, <3>3 DEF OnTrack
  <2>5. QED
    BY <2>3, <2>4 DEF Ahead
<1>4. ASSUME NEW a \in Attempts, ExecuteMint(a) \/ Leave(a) PROVE Ahead'
  <2>1. /\ UNCHANGED <<fate, done, range, nextId, image, meta, bare, raced, misled>> /\ Supply' = Supply
        /\ pc[a] \in Busy /\ pc'[a] \in {"ok", "failed"}
        /\ \A b \in Attempts \ {a} : pc'[b] = pc[b] /\ wallet'[b] = wallet[b]
        /\ pc[a] = "execute" \/ wallet'[a] = wallet[a]
    BY <1>4 DEF ExecuteMint, Leave, Ledger!Submit, ledger, causes, Goto, Supply, TypeOK, Busy
  <2>2. ASSUME NEW b \in Attempts \ {a}, b \notin Disturbed' PROVE OnTrack(b)'
    <3>1. b \notin Disturbed /\ ~UnderWay(b)
      BY <1>c, <2>1, <2>2, OthersRest DEF Disturbed
    <3>2. QED
      BY <1>a, <2>1, <2>2, <3>1, Bystander DEF Ahead
  <2>3. ASSUME a \notin Disturbed' PROVE OnTrack(a)'
    <3>1. OnTrack(a) /\ UnderWay(a) /\ wallet[a] = None /\ fate[a] = "open"
      BY <1>c, <2>1, <2>3 DEF Disturbed, Ahead
    <3>2. Ledger!Open(a)' => pc[a] = "execute"
      BY <2>1, <3>1 DEF Ledger!Open
    <3>3. QED
      BY <2>1, <3>1, <3>2 DEF OnTrack
  <2>4. QED
    BY <2>2, <2>3 DEF Ahead
<1>5. ASSUME NEW a \in Attempts, Settle(a) PROVE Ahead'
  <2>1. /\ UNCHANGED <<wallet, pc, range, nextId, image, meta, bare, raced, misled>>
        /\ wallet[a] = Owner /\ fate[a] = "open"
        /\ \A b \in Attempts \ {a} : fate'[b] = fate[b]
        /\ \/ fate'[a] = "executed" /\ Supply' = Supply + 1
           \/ fate'[a] = "void" /\ Supply' = Supply
    BY <1>5, Growth DEF Settle, causes, Ledger!Execute, Ledger!Void, TypeOK
  <2>2. UnderWay(a) /\ pc[a] \notin Busy
    BY <2>1, AttemptsAreSome DEF UnderWay, Ledger!Open, Sent
  <2>3. ASSUME NEW b \in Attempts \ {a}, b \notin Disturbed' PROVE OnTrack(b)'
    <3>1. b \notin Disturbed /\ ~UnderWay(b)
      BY <2>1, <2>2, <2>3, OthersRest DEF Disturbed
    <3>2. QED
      BY <1>a, <2>1, <2>3, <3>1, Bystander DEF Ahead
  <2>4. ASSUME a \notin Disturbed' PROVE OnTrack(a)'
    <3>1. OnTrack(a)
      BY <2>1, <2>4 DEF Disturbed, Ahead
    <3>2. ~UnderWay(a)' /\ ~Ledger!Open(a)' /\ pc'[a] \notin Busy
      BY <2>1, <2>2 DEF UnderWay, Ledger!Open
    <3>3. \A i \in Ids : a \in {image[i], meta[i]} => i = Supply /\ pc[a] \notin {"idle", "probe"}
      BY <2>2, <3>1 DEF OnTrack
    <3>4. QED
      BY <1>a, <2>1, <3>2, <3>3 DEF OnTrack, Busy
  <2>5. QED
    BY <2>3, <2>4 DEF Ahead
<1>6. CASE UNCHANGED vars
  <2>1. \A b \in Attempts : UnderWay(b)' = UnderWay(b) /\ Ledger!Open(b)' = Ledger!Open(b)
    BY <1>6 DEF vars, ledger, causes, UnderWay, Ledger!Open
  <2>2. QED
    BY <1>6, <2>1 DEF vars, ledger, causes, Ahead, OnTrack, Supply, Disturbed
<1>7. QED
  BY <1>1, <1>2, <1>3, <1>4, <1>5, <1>6 DEF Next, Step

LEMMA AppendKeeps ==
    ASSUME NEW S, NEW s \in Seq(S), NEW e \in S, NEW i \in Nat, i < Len(s)
    PROVE  Append(s, e)[i + 1] = s[i + 1]
OBVIOUS

\* A token keeps showing what its attempt stored, or what no other token has.
LEMMA TokensStep ==
    TypeOK /\ Sent /\ Ahead /\ TokensShowTheirMint /\ [Next]_vars => TokensShowTheirMint'
<1> SUFFICES ASSUME TypeOK, Sent, Ahead, TokensShowTheirMint, [Next]_vars
             PROVE  TokensShowTheirMint'
  OBVIOUS
<1> DEFINE Shows(a, w) ==
      \/ w = a
      \/ a \in bare /\ (w = None \/ fate[w] # "executed")
      \/ a \in Disturbed
      \/ w \in Disturbed
<1>a. Supply \in Nat /\ \A i \in Ids : i \in Nat
  BY SupplyIsNat, NumbersToTry DEF Ids
<1>b. \A i \in Ids : i < Supply => \A w \in {image[i], meta[i]} : Shows(done[Owner][i + 1], w)
  BY DEF TokensShowTheirMint
<1>c. ASSUME \A i \in Ids : i < Supply' => \A w \in {image'[i], meta'[i]} : Shows(done[Owner][i + 1], w)'
      PROVE  TokensShowTheirMint'
  BY <1>c DEF TokensShowTheirMint
<1>d. ASSUME UNCHANGED <<fate, done>>, bare \subseteq bare', Disturbed \subseteq Disturbed',
             NEW a \in Attempts, a \notin Disturbed => nextId[a] >= Supply,
             \A i \in Ids : /\ image'[i] = image[i] \/ (i = nextId[a] /\ image'[i] = a)
                            /\ meta'[i] = meta[i] \/ (i = nextId[a] /\ meta'[i] = a)
      PROVE  TokensShowTheirMint'
  <2> SUFFICES ASSUME NEW i \in Ids, i < Supply', NEW w \in {image'[i], meta'[i]}
               PROVE  Shows(done[Owner][i + 1], w)'
    BY <1>c
  <2>1. i < Supply
    BY <1>d DEF Supply
  <2>2. CASE w \in {image[i], meta[i]}
    BY <1>b, <1>d, <2>1, <2>2
  <2>3. CASE i = nextId[a] /\ w = a
    <3>1. a \in Disturbed
      BY <1>a, <1>d, <2>1, <2>3
    <3>2. QED
      BY <1>d, <2>3, <3>1
  <2>4. QED
    BY <1>d, <2>2, <2>3
<1>e. ASSUME UNCHANGED <<fate, done, image, meta>>, bare \subseteq bare', Disturbed \subseteq Disturbed'
      PROVE  TokensShowTheirMint'
  <2>1. Supply' = Supply
    BY <1>e DEF Supply
  <2>2. QED
    BY <1>b, <1>c, <1>e, <2>1
<1>1. ASSUME NEW a \in Attempts, Submit(a) \/ ExecuteMint(a) \/ Leave(a) PROVE TokensShowTheirMint'
  BY <1>1, <1>e DEF Submit, ExecuteMint, Leave, Ledger!Submit, ledger, causes, Disturbed
<1>2. ASSUME NEW a \in Attempts, Probe(a) \/ ProbeFails(a) PROVE TokensShowTheirMint'
  <2>1. misled \subseteq misled' /\ UNCHANGED <<ledger, image, meta, bare, raced>>
    BY <1>2, ProbeSteps
  <2>2. QED
    BY <1>e, <2>1 DEF ledger, Disturbed
<1>3. ASSUME NEW a \in Attempts, UploadImage(a) \/ GenerateMetadata(a) PROVE TokensShowTheirMint'
  <2>1. /\ UNCHANGED <<fate, done, raced, misled>> /\ bare \subseteq bare'
        /\ pc[a] \in {"image", "metadata"}
        /\ image' \in {image, StoreAs(image, a)} /\ meta' \in {meta, StoreAs(meta, a)}
    BY <1>3 DEF UploadImage, GenerateMetadata, ledger, causes
  <2>2. \A i \in Ids : /\ image'[i] = image[i] \/ (i = nextId[a] /\ image'[i] = a)
                       /\ meta'[i] = meta[i] \/ (i = nextId[a] /\ meta'[i] = a)
    BY <2>1 DEF StoreAs, TypeOK, Stored
  <2>3. a \notin Disturbed => nextId[a] >= Supply
    BY <1>a, <2>1 DEF Ahead, OnTrack
  <2>4. Disturbed' = Disturbed
    BY <2>1 DEF Disturbed
  <2>5. QED
    BY <1>d, <2>1, <2>2, <2>3, <2>4
<1>4. ASSUME NEW a \in Attempts, Settle(a) PROVE TokensShowTheirMint'
  <2>1. /\ UNCHANGED <<pc, range, nextId, image, meta, bare, raced, misled>> /\ Disturbed' = Disturbed
        /\ wallet[a] = Owner /\ fate[a] = "open" /\ Ledger!Open(a) /\ UnderWay(a)
    BY <1>4, Growth, AttemptsAreSome DEF Settle, causes, Disturbed, Ledger!Open, UnderWay
  <2>2. CASE fate' = [fate EXCEPT ![a] = "void"] /\ UNCHANGED done /\ Supply' = Supply
    <3>1. \A w \in Attempts : fate'[w] = "executed" => fate[w] = "executed"
      BY <2>2 DEF TypeOK
    <3>2. \A i \in Ids : {image[i], meta[i]} \subseteq Attempts \cup {None}
      BY DEF TypeOK, Stored
    <3>3. QED
      BY <1>b, <1>c, <2>1, <2>2, <3>1, <3>2
  <2>3. CASE /\ fate' = [fate EXCEPT ![a] = "executed"] /\ Supply' = Supply + 1
             /\ done'[Owner] = Append(done[Owner], a)
    <3> SUFFICES ASSUME NEW i \in Ids, i < Supply', NEW w \in {image[i], meta[i]}
                 PROVE  Shows(done[Owner][i + 1], w)'
      BY <1>c, <2>1
    <3>1. w \in Attempts \cup {None} /\ (w # a /\ w # None => fate'[w] = fate[w])
      BY <2>3 DEF TypeOK, Stored
    <3>2. a \notin Disturbed => OnTrack(a)
      BY DEF Ahead
    <3>3. CASE i < Supply
      <4>1. done'[Owner][i + 1] = done[Owner][i + 1]
        <5>1. done[Owner] \in Seq(Attempts) /\ i \in Nat /\ i < Len(done[Owner])
          BY <1>a, <3>3 DEF TypeOK, Supply
        <5>2. Append(done[Owner], a)[i + 1] = done[Owner][i + 1]
          BY <5>1, AppendKeeps
        <5>3. QED
          BY <2>3, <5>2
      <4>2. w = a => a \in Disturbed
        BY <1>a, <2>1, <3>2, <3>3 DEF OnTrack
      <4>3. QED
        BY <1>b, <2>1, <3>1, <3>3, <4>1, <4>2
    <3>4. CASE i = Supply
      <4>1. done'[Owner][i + 1] = a
        BY <2>3, <3>4 DEF TypeOK, Supply
      <4>2. a \notin Disturbed \cup bare => w = a
        BY <2>1, <3>2, <3>4 DEF OnTrack
      <4>3. w \in Attempts /\ w # a /\ w \notin Disturbed => fate[w] # "executed"
        BY <1>a, <3>4 DEF Ahead, OnTrack
      <4>4. QED
        BY <2>1, <3>1, <4>1, <4>2, <4>3
    <3>5. i < Supply \/ i = Supply
      BY <1>a, <2>3
    <3>6. QED
      BY <3>3, <3>4, <3>5
  <2>4. QED
    BY <1>4, <2>2, <2>3, Growth
<1>5. CASE UNCHANGED vars
  BY <1>5, <1>e DEF vars, ledger, causes, Disturbed
<1>6. QED
  BY <1>1, <1>2, <1>3, <1>4, <1>5 DEF Next, Step

\* The number an attempt predicted is its token's.
LEMMA PredictionStep ==
    TypeOK /\ Sent /\ Ahead /\ PredictionsComeTrue /\ [Next]_vars => PredictionsComeTrue'
<1> SUFFICES ASSUME TypeOK, Sent, Ahead, PredictionsComeTrue, [Next]_vars
             PROVE  PredictionsComeTrue'
  OBVIOUS
<1>a. Supply \in Nat /\ done[Owner] \in Seq(Attempts) /\ \A b \in Attempts : nextId[b] \in Nat
  BY SupplyIsNat, NumbersToTry DEF TypeOK, Ids
<1>b. ASSUME UNCHANGED <<fate, done>>, Disturbed \cup bare \subseteq (Disturbed \cup bare)',
             \A b \in Attempts : fate[b] = "executed" => nextId'[b] = nextId[b]
      PROVE  PredictionsComeTrue'
  BY <1>b DEF PredictionsComeTrue, Supply
<1>1. ASSUME NEW a \in Attempts,
             Submit(a) \/ UploadImage(a) \/ GenerateMetadata(a) \/ ExecuteMint(a) \/ Leave(a)
      PROVE  PredictionsComeTrue'
  <2>1. UNCHANGED <<fate, done, nextId>> /\ Disturbed \cup bare \subseteq (Disturbed \cup bare)'
    BY <1>1 DEF Submit, UploadImage, GenerateMetadata, ExecuteMint, Leave, Ledger!Submit,
                ledger, causes, Disturbed
  <2>2. QED
    BY <1>b, <2>1
<1>2. ASSUME NEW a \in Attempts, Probe(a) \/ ProbeFails(a) PROVE PredictionsComeTrue'
  <2>1. /\ UNCHANGED <<fate, done, bare, raced>> /\ misled \subseteq misled' /\ pc[a] = "probe"
        /\ \A b \in Attempts \ {a} : nextId'[b] = nextId[b]
    BY <1>2, ProbeSteps DEF ledger, TypeOK
  <2>2. fate[a] # "executed"
    BY <2>1 DEF Sent, Busy
  <2>3. QED
    BY <1>b, <2>1, <2>2 DEF Disturbed
<1>3. ASSUME NEW a \in Attempts, Settle(a) PROVE PredictionsComeTrue'
  <2>1. UNCHANGED <<nextId, bare>> /\ Disturbed' = Disturbed /\ Ledger!Open(a)
    BY <1>3, Growth, AttemptsAreSome DEF Settle, causes, Disturbed, Ledger!Open
  <2>2. CASE fate' = [fate EXCEPT ![a] = "void"] /\ UNCHANGED done
    BY <2>1, <2>2 DEF PredictionsComeTrue, Supply, TypeOK
  <2>3. CASE /\ fate' = [fate EXCEPT ![a] = "executed"] /\ Supply' = Supply + 1
             /\ done'[Owner] = Append(done[Owner], a)
    <3> SUFFICES ASSUME NEW b \in Attempts \ (Disturbed \cup bare), fate'[b] = "executed"
                 PROVE  nextId[b] < Supply' /\ done'[Owner][nextId[b] + 1] = b
      BY <2>1 DEF PredictionsComeTrue
    <3>1. CASE b = a
      <4>1. nextId[a] = Supply
        BY <2>1, <3>1 DEF Ahead, OnTrack
      <4>2. QED
        BY <1>a, <2>3, <3>1, <4>1 DEF Supply
    <3>2. CASE b # a
      <4>1. nextId[b] < Supply /\ done[Owner][nextId[b] + 1] = b
        BY <2>3, <3>2 DEF PredictionsComeTrue, TypeOK
      <4>2. QED
        BY <1>a, <2>3, <4>1, AppendKeeps DEF Supply
    <3>3. QED
      BY <3>1, <3>2
  <2>4. QED
    BY <1>3, <2>2, <2>3, Growth
<1>4. CASE UNCHANGED vars
  BY <1>4, <1>b DEF vars, ledger, causes, Disturbed
<1>5. QED
  BY <1>1, <1>2, <1>3, <1>4 DEF Next, Step

LEMMA IInvInit == Init => IInv
<1> SUFFICES ASSUME Init PROVE IInv
  OBVIOUS
<1>1. /\ \A a \in Attempts : /\ wallet[a] = None /\ fate[a] = "open" /\ pc[a] = "idle"
                             /\ range[a] = Whole /\ nextId[a] = 0
                             /\ range[a].low = 0 /\ range[a].high = Last
      /\ \A i \in Ids : image[i] = None /\ meta[i] = None
      /\ Supply = 0
  BY DEF Init, Ledger!Init, Whole, Supply
<1>2. TypeOK
  BY TypeInit
<1>3. Sent /\ Racing
  BY <1>1 DEF Sent, Racing, UnderWay, Ledger!Open, Busy
<1>4. Searches
  <2> SUFFICES ASSUME NEW a \in Attempts
               PROVE  /\ pc[a] = "idle" => range[a] = Whole /\ nextId[a] = 0
                      /\ range[a].low <= Supply
                      /\ range[a].low <= range[a].high + 1
                      /\ nextId[a] = range[a].high + 1 \/ (nextId[a] = 0 /\ range[a].high = Last)
    BY DEF Searches
  <2>1. range[a] = Whole /\ nextId[a] = 0 /\ range[a].low = 0 /\ range[a].high = Last /\ Supply = 0
    BY <1>1
  <2>2. QED
    BY <2>1, NumbersToTry
<1>5. Ahead
  <2> SUFFICES ASSUME NEW a \in Attempts PROVE OnTrack(a)
    BY DEF Ahead
  <2>1. a # None /\ nextId[a] # range[a].high + 1 /\ ~Ledger!Open(a)
    BY <1>1, AttemptsAreSome, NumbersToTry DEF Ledger!Open
  <2>2. QED
    BY <1>1, <2>1 DEF OnTrack
<1>6. GuessesNeverSkip
  BY <1>1 DEF GuessesNeverSkip
<1>7. TokensShowTheirMint
  BY <1>1, NumbersToTry DEF TokensShowTheirMint, Ids
<1>8. PredictionsComeTrue
  BY <1>1 DEF PredictionsComeTrue
<1>9. QED
  BY <1>2, <1>3, <1>4, <1>5, <1>6, <1>7, <1>8 DEF IInv

LEMMA IInvStep == IInv /\ [Next]_vars => IInv'
BY TypeStep, SentStep, SearchesStep, RacingStep, AheadStep, PredictionStep, GuessStep, TokensStep
   DEF IInv

\* The inductive invariant: what attempts, searches, storage and the collection
\* have to do with each other in every reachable state.
THEOREM Invariance == Spec => []IInv
BY IInvInit, IInvStep, PTL DEF Spec

\* Every variable keeps its type, for any attempts and any range of numbers; so
\* the search never leaves the numbers it may try.
THEOREM TypeCorrect == Spec => []TypeOK
<1>1. IInv => TypeOK
  BY DEF IInv
<1>2. QED
  BY <1>1, Invariance, PTL

\* getNextTokenIdForERC721 never expects a number beyond the next one, whatever
\* its probes answered and however the collection grew meanwhile.
THEOREM GuessSafety == Spec => []GuessesNeverSkip
<1>1. IInv => GuessesNeverSkip
  BY DEF IInv
<1>2. QED
  BY <1>1, Invariance, PTL

\* A token shows what handleSubmitWithUpload stored for it, unless an attempt
\* overlapped another, its search went wrong, or it minted without metadata.
THEOREM TokenSafety == Spec => []TokensShowTheirMint
<1>1. IInv => TokensShowTheirMint
  BY DEF IInv
<1>2. QED
  BY <1>1, Invariance, PTL

\* The number getNextTokenIdForERC721 found is the number of the token that is
\* minted, for an attempt that nothing disturbed.
THEOREM PredictionSafety == Spec => []PredictionsComeTrue
<1>1. IInv => PredictionsComeTrue
  BY DEF IInv
<1>2. QED
  BY <1>1, Invariance, PTL

-----------------------------------------------------------------------------
(* The ledger under the page.                                              *)

Facts == INSTANCE OperationLedgerProofs WITH Requests <- Attempts, Wallets <- {Owner}

\* Every step of a page is one of the ledger or leaves it alone.
LEMMA LedgerStep == [Next]_vars => [Ledger!Next]_(Ledger!ledger)
<1> SUFFICES ASSUME [Next]_vars PROVE [Ledger!Next]_(Ledger!ledger)
  OBVIOUS
<1>1. ASSUME NEW a \in Attempts,
             \/ Submit(a) \/ Probe(a) \/ ProbeFails(a)
             \/ UploadImage(a) \/ GenerateMetadata(a) \/ Leave(a)
      PROVE  UNCHANGED Ledger!ledger
  BY <1>1 DEF Submit, Probe, ProbeFails, UploadImage, GenerateMetadata, Leave, ledger, Ledger!ledger
<1>2. ASSUME NEW a \in Attempts, ExecuteMint(a) \/ Settle(a)
      PROVE  Ledger!Next \/ UNCHANGED Ledger!ledger
  BY <1>2 DEF ExecuteMint, Settle, ledger, Ledger!ledger, Ledger!Next
<1>3. CASE UNCHANGED vars
  BY <1>3 DEF vars, ledger, Ledger!ledger
<1>4. QED
  BY <1>1, <1>2, <1>3 DEF Next, Step

\* The collection is a history of the ledger, so what holds of every ledger holds
\* of the tokens.
THEOREM LedgerUse == Spec => UsesLedger
<1>1. Init => Ledger!Init
  BY DEF Init
<1>2. QED
  BY <1>1, LedgerStep, PTL DEF Spec, UsesLedger, Ledger!Spec

LEMMA LedgerFacts ==
    Spec => /\ [](Facts!HistoriesAreExact /\ Facts!NothingIsDoneTwice)
            /\ Facts!HistoriesOnlyGrow
<1>1. Spec => Facts!Spec
  BY LedgerUse
     DEF UsesLedger, Ledger!Spec, Ledger!Init, Ledger!Next, Ledger!ledger, Ledger!Submit,
         Ledger!Execute, Ledger!Void, Ledger!Open, Facts!Spec, Facts!Init, Facts!Next,
         Facts!ledger, Facts!Submit, Facts!Execute, Facts!Void, Facts!Open
<1>2. Facts!Spec => [](Facts!HistoriesAreExact /\ Facts!NothingIsDoneTwice)
  BY Facts!Exactness
<1>3. Facts!Spec => Facts!HistoriesOnlyGrow
  BY Facts!Growth
<1>4. QED
  BY <1>1, <1>2, <1>3, PTL

\* No attempt mints two tokens.
THEOREM OneTokenSafety == Spec => []OneTokenPerAttempt
<1>1. Facts!NothingIsDoneTwice => OneTokenPerAttempt
  BY DEF Facts!NothingIsDoneTwice, OneTokenPerAttempt, Supply
<1>2. QED
  BY <1>1, LedgerFacts, PTL

\* No token is renumbered.
THEOREM TokensStay == Spec => TokensKeepTheirMinter
<1>1. IInv /\ [\A w \in {Owner} : Facts!Extended(w)]_(Facts!ledger) =>
        [/\ Supply <= Supply'
         /\ \A i \in 1 .. Supply : done'[Owner][i] = done[Owner][i]]_vars
  <2>1. IInv => Supply \in Nat
    BY SupplyIsNat DEF IInv
  <2>2. QED
    BY <2>1 DEF Facts!Extended, Facts!ledger, vars, ledger, Supply
<1>2. QED
  BY <1>1, Invariance, LedgerFacts, PTL DEF TokensKeepTheirMinter, Facts!HistoriesOnlyGrow

\* As long as attempts come one at a time, with an image and no failed probe,
\* the collection shows exactly what was uploaded for it.
THEOREM UndisturbedSafety == Spec => []UndisturbedShowsAll
<1>1. IInv /\ Facts!HistoriesAreExact /\ Facts!NothingIsDoneTwice => UndisturbedShowsAll
  <2> SUFFICES ASSUME IInv, Facts!HistoriesAreExact, OneTokenPerAttempt, Undisturbed
               PROVE  /\ Supply <= Last + 1
                      /\ \A i \in 0 .. Supply - 1 :
                            image[i] = done[Owner][i + 1] /\ meta[i] = done[Owner][i + 1]
    BY DEF Facts!NothingIsDoneTwice, OneTokenPerAttempt, Supply, UndisturbedShowsAll
  <2>1. Supply \in Nat /\ \A a \in Attempts : nextId[a] \in 0 .. Last
    BY SupplyIsNat DEF IInv, TypeOK, Ids
  <2>2. ASSUME NEW i \in 1 .. Supply
        PROVE  /\ done[Owner][i] \in Attempts /\ fate[done[Owner][i]] = "executed"
               /\ nextId[done[Owner][i]] = i - 1
    <3>1. done[Owner] \in Seq(Attempts) /\ i \in 1 .. Len(done[Owner])
      BY DEF IInv, TypeOK, Supply
    <3>2. PICK a \in Attempts : a = done[Owner][i]
      BY <3>1
    <3>3. fate[a] = "executed"
      BY <3>1, <3>2 DEF Facts!HistoriesAreExact, Facts!Entries
    <3>4. nextId[a] < Supply /\ done[Owner][nextId[a] + 1] = a
      BY <3>3 DEF IInv, PredictionsComeTrue, Undisturbed
    <3>5. nextId[a] + 1 = i
      BY <2>1, <3>2, <3>4 DEF OneTokenPerAttempt
    <3>6. QED
      BY <2>1, <3>2, <3>3, <3>5
  <2>3. ASSUME NEW i \in 0 .. Supply - 1
        PROVE  i \in Ids /\ image[i] = done[Owner][i + 1] /\ meta[i] = done[Owner][i + 1]
    <3>1. i + 1 \in 1 .. Supply /\ i + 1 - 1 = i /\ i < Supply
      BY <2>1
    <3>2. PICK a \in Attempts : a = done[Owner][i + 1] /\ nextId[a] = i
      BY <2>2, <3>1
    <3>3. i \in Ids
      BY <2>1, <3>2 DEF Ids
    <3>4. QED
      BY <3>1, <3>2, <3>3 DEF IInv, TokensShowTheirMint, Undisturbed
  <2>4. Supply <= Last + 1
    <3>1. CASE Supply = 0
      BY <3>1, NumbersToTry
    <3>2. CASE Supply > 0
      <4>1. Supply - 1 \in 0 .. Supply - 1
        BY <2>1, <3>2
      <4>2. Supply - 1 \in 0 .. Last
        BY <2>3, <4>1 DEF Ids
      <4>3. QED
        BY <2>1, <4>2, NumbersToTry
    <3>3. QED
      BY <2>1, <3>1, <3>2
  <2>5. QED
    BY <2>3, <2>4
<1>2. QED
  BY <1>1, Invariance, LedgerFacts, PTL

-----------------------------------------------------------------------------
(* The search.                                                             *)

\* What is left of the range on either side of the number that is tried.
LEMMA Halves ==
    ASSUME NEW low \in Int, NEW high \in Int, low <= high
    PROVE  /\ 2 * ((low + high) \div 2 - 1 - low + 1) <= high - low + 1
           /\ 2 * (high - ((low + high) \div 2 + 1) + 1) <= high - low + 1
OBVIOUS

\* Every probe halves the range: the bound on the calls of ownerOf that keeps
\* a submit short, and the measure that ends the search.
THEOREM SearchSpeed == Spec => SearchHalves
<1> DEFINE Halved(a) == range'[a] # range[a] => Width(a) > 0 /\ 2 * Width(a)' <= Width(a)
<1>1. IInv /\ [Next]_vars => [\A a \in Attempts : Halved(a)]_vars
  <2> SUFFICES ASSUME IInv, [Next]_vars, NEW b \in Attempts, range'[b] # range[b]
               PROVE  Width(b) > 0 /\ 2 * Width(b)' <= Width(b)
    OBVIOUS
  <2>1. Probe(b) \/ ProbeFails(b)
    <3>1. PICK a \in Attempts : Submit(a) \/ Step(a) \/ ProbeFails(a) \/ Leave(a) \/ Settle(a)
      BY DEF Next, vars
    <3>2. Probe(a) \/ ProbeFails(a)
      BY <3>1, Quiet DEF Step, Settle
    <3>3. a = b
      BY <3>2, ProbeSteps DEF IInv, TypeOK
    <3>4. QED
      BY <3>2, <3>3
  <2>2. /\ range[b].low \in Int /\ range[b].high \in Int /\ range[b].low <= range[b].high
        /\ \/ range'[b].low = Mid(b) + 1 /\ range'[b].high = range[b].high
           \/ range'[b].low = range[b].low /\ range'[b].high = Mid(b) - 1
    BY <2>1, ProbeSteps, NumbersToTry DEF IInv, TypeOK
  <2>3. Mid(b) \in Int
    BY <2>2, MidBounds DEF Mid
  <2>4. QED
    BY <2>2, <2>3, Halves DEF Width, Mid
<1>2. QED
  BY <1>1, Invariance, PTL DEF Spec, SearchHalves
=============================================================================
