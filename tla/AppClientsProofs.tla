-------------------------- MODULE AppClientsProofs --------------------------
(***************************************************************************)
(* Proofs about AppClients for any requests, configurations and origins:   *)
(* when PostgreSQL, Hydra and Redis agree, and what holds whatever         *)
(* overlaps or fails.                                                      *)
(***************************************************************************)
EXTENDS AppClients, TLAPS

LEMMA TypeInit == Init => TypeOK
BY DEF Init, TypeOK, InFlight, Answered

\* Every call comes from a handler that has its arguments, and moves only that
\* handler and the client it runs on.
LEMMA CallMoves ==
    ASSUME TypeOK, Handlers, NEW r \in Requests, Step(r) \/ Fail(r)
    PROVE  /\ pc[r] \in InFlight /\ target[r] \in Clients
           /\ UNCHANGED <<kind, target, raced>>
           /\ faulty' \in {faulty, faulty \cup {target[r]}}
           /\ \A s \in Requests \ {r} : pc'[s] = pc[s] /\ held'[s] = held[s]
           /\ \A c \in Clients \ {target[r]} :
                 db'[c] = db[c] /\ hydra'[c] = hydra[c] /\ cache'[c] = cache[c] /\ stored'[c] = stored[c]
           /\ stored[target[r]] \subseteq stored'[target[r]]
           /\ pc'[r] \in InFlight \cup Answered
<1> USE DEF TypeOK, Goto, Stumble, Reply, locals, stores, InFlight, Answered, Store, SyncFailed
<1>a. pc[r] # "idle" => target[r] \in Clients /\ Path(r) /\ (kind[r] = "create" => target[r] = r)
  BY DEF Handlers
<1>1. CASE ProvisionHydra(r) \/ RollBackHydra(r)
  BY <1>1, <1>a DEF ProvisionHydra, RollBackHydra, Path, Clients
<1>2. CASE InsertRow(r)
  BY <1>2, <1>a DEF InsertRow, Path, Clients
<1>3. CASE ReadRow(r) \/ UpdateRow(r) \/ DeleteRow(r)
  BY <1>3, <1>a DEF ReadRow, UpdateRow, DeleteRow
<1>4. CASE PutHydra(r) \/ DeleteHydra(r) \/ DelConfig(r) \/ DelOrigins(r)
  BY <1>4, <1>a DEF PutHydra, Replace, DeleteHydra, DelConfig, DelOrigins
<1>5. CASE GetConfig(r) \/ LoadRow(r)
  BY <1>5, <1>a DEF GetConfig, LoadRow
<1>6. CASE SetConfig(r) \/ AddOrigins(r)
  BY <1>6, <1>a DEF SetConfig, AddOrigins
<1>7. CASE Fail(r)
  BY <1>7, <1>a DEF Fail
<1>8. QED
  BY <1>1, <1>2, <1>3, <1>4, <1>5, <1>6, <1>7 DEF Step

\* What a handler holds is a configuration wherever it is written.
LEMMA TypeStep == TypeOK /\ Handlers /\ [Next]_vars => TypeOK'
<1> SUFFICES ASSUME TypeOK, Handlers, [Next]_vars PROVE TypeOK'
  OBVIOUS
<1>1. ASSUME NEW r \in Requests, Arrival(r) PROVE TypeOK'
  <2>1. ASSUME NEW k, NEW c \in Clients, NEW x \in Configs \cup {None}, NEW p \in InFlight, Arrive(r, k, c, x, p)
        PROVE  TypeOK'
    BY <2>1 DEF Arrive, TypeOK, stores
  <2>2. QED
    BY <1>1, <2>1 DEF Arrival, ArriveCreate, ArriveUpdate, ArriveDelete, ArriveLookup, Clients, InFlight
<1>2. ASSUME NEW r \in Requests, Step(r) \/ Fail(r) PROVE TypeOK'
  <2> USE DEF Goto, Stumble, Reply, locals, stores, Store, SyncFailed
  <2>a. pc[r] # "idle" => target[r] \in Clients /\ (pc[r] \in {"set", "sadd"} => held[r] \in Configs)
    BY DEF Handlers
  <2>b. UNCHANGED <<kind, target, raced>> /\ faulty' \subseteq Clients
    BY <1>2, CallMoves DEF TypeOK
  <2>c. pc' \in [Requests -> {"idle"} \cup InFlight \cup Answered]
    <3>1. \E p : pc' = [pc EXCEPT ![r] = p]
      BY <1>2 DEF Step, ProvisionHydra, RollBackHydra, InsertRow, ReadRow, UpdateRow, DeleteRow, PutHydra,
         Replace, DeleteHydra, DelConfig, DelOrigins, GetConfig, LoadRow, SetConfig, AddOrigins, Fail
    <3>2. QED
      BY <1>2, <3>1, CallMoves DEF TypeOK
  <2>1. CASE ProvisionHydra(r) \/ InsertRow(r) \/ RollBackHydra(r)
    BY <2>1, <2>b, <2>c DEF ProvisionHydra, InsertRow, RollBackHydra, TypeOK, Clients
  <2>2. CASE ReadRow(r) \/ UpdateRow(r) \/ DeleteRow(r)
    BY <2>2, <2>b, <2>c DEF ReadRow, UpdateRow, DeleteRow, TypeOK
  <2>3. CASE PutHydra(r) \/ DeleteHydra(r) \/ DelConfig(r) \/ DelOrigins(r)
    BY <2>3, <2>b, <2>c DEF PutHydra, Replace, DeleteHydra, DelConfig, DelOrigins, TypeOK
  <2>4. CASE GetConfig(r) \/ LoadRow(r)
    <3>1. target[r] \in Clients
      BY <2>4, <2>a DEF GetConfig, LoadRow
    <3>2. QED
      BY <2>4, <2>b, <2>c, <3>1 DEF GetConfig, LoadRow, TypeOK
  <2>5. CASE SetConfig(r)
    BY <2>5, <2>b, <2>c DEF SetConfig, TypeOK
  <2>6. CASE AddOrigins(r)
    <3>1. OriginsOf[held[r]] \subseteq Origins
      BY <2>6, <2>a, ConfigsHaveOrigins DEF AddOrigins
    <3>2. QED
      BY <2>6, <2>b, <2>c, <3>1 DEF AddOrigins, TypeOK
  <2>7. CASE Fail(r)
    BY <2>7, <2>b, <2>c DEF Fail, TypeOK
  <2>8. QED
    BY <1>2, <2>1, <2>2, <2>3, <2>4, <2>5, <2>6, <2>7 DEF Step
<1>3. CASE UNCHANGED vars
  BY <1>3 DEF vars, stores, locals, TypeOK
<1>4. QED
  BY <1>1, <1>2, <1>3 DEF Next

\* What an arrival does: it changes no store, and knows of the handlers that
\* are at work on its client.
LEMMA Arrivals ==
    ASSUME TypeOK, NEW r \in Requests, Arrival(r)
    PROVE  /\ pc[r] = "idle" /\ UNCHANGED <<stores, stored, faulty>>
           /\ kind'[r] \in Kinds
           /\ \/ /\ kind'[r] = "create" /\ target'[r] = r
                 /\ pc'[r] = "provision" /\ held'[r] \in Configs
              \/ /\ kind'[r] \in {"update", "delete", "lookup"} /\ target'[r] \in Clients
                 /\ Known(target'[r])
                 /\ pc'[r] = (IF kind'[r] = "lookup" THEN "get" ELSE "read")
                 /\ IF kind'[r] = "update" THEN held'[r] \in Configs ELSE held'[r] = None
           /\ raced \subseteq raced'
           /\ Running(target'[r]) # {} => target'[r] \in raced'
           /\ \A s \in Requests \ {r} : /\ pc'[s] = pc[s] /\ kind'[s] = kind[s]
                                        /\ target'[s] = target[s] /\ held'[s] = held[s]
<1> USE DEF TypeOK, stores
<1>1. ASSUME NEW k, NEW c, NEW x, NEW p, Arrive(r, k, c, x, p)
      PROVE  /\ pc[r] = "idle" /\ UNCHANGED <<stores, stored, faulty>>
             /\ kind'[r] = k /\ k \in Kinds /\ target'[r] = c /\ held'[r] = x /\ pc'[r] = p
             /\ raced \subseteq raced'
             /\ Running(c) # {} => c \in raced'
             /\ \A s \in Requests \ {r} : /\ pc'[s] = pc[s] /\ kind'[s] = kind[s]
                                          /\ target'[s] = target[s] /\ held'[s] = held[s]
  BY <1>1 DEF Arrive
<1>2. CASE \E x \in Configs : ArriveCreate(r, x)
  BY <1>1, <1>2 DEF ArriveCreate
<1>3. CASE \E c \in Clients, x \in Configs : ArriveUpdate(r, c, x)
  BY <1>1, <1>3 DEF ArriveUpdate
<1>4. CASE \E c \in Clients : ArriveDelete(r, c) \/ ArriveLookup(r, c)
  BY <1>1, <1>4 DEF ArriveDelete, ArriveLookup
<1>5. QED
  BY <1>2, <1>3, <1>4 DEF Arrival
\* A handler reaches a call only on its own path, with the arguments it needs.
LEMMA HandlersStep == TypeOK /\ Handlers /\ [Next]_vars => Handlers'
<1> SUFFICES ASSUME TypeOK, Handlers, [Next]_vars PROVE Handlers'
  OBVIOUS
<1> DEFINE Fine(r) ==
      /\ pc[r] = "idle" => held[r] = None
      /\ pc[r] # "idle" =>
          /\ target[r] \in Clients
          /\ Path(r)
          /\ kind[r] = "create" => target[r] = r
          /\ kind[r] # "create" => Known(target[r])
          /\ kind[r] \in {"create", "update"} \/ pc[r] \in {"set", "sadd"} => held[r] \in Configs
<1>a. \A r \in Requests : Fine(r)
  BY DEF Handlers
<1>b. ASSUME \A r \in Requests : Fine(r)' PROVE Handlers'
  BY <1>b DEF Handlers
<1>1. ASSUME NEW r \in Requests, Arrival(r) PROVE Handlers'
  <2>1. ASSUME NEW s \in Requests \ {r} PROVE Fine(s)'
    BY <1>1, <1>a, Arrivals DEF Path, Known, stores
  <2>2. Fine(r)'
    BY <1>1, Arrivals DEF Path, Known, Clients, stores
  <2>3. QED
    BY <1>b, <2>1, <2>2
<1>2. ASSUME NEW r \in Requests, Step(r) \/ Fail(r) PROVE Handlers'
  <2>1. \A c \in Clients : Known(c) => Known(c)'
    BY <1>2, CallMoves DEF Known
  <2>2. ASSUME NEW s \in Requests \ {r} PROVE Fine(s)'
    BY <1>2, <1>a, <2>1, <2>2, CallMoves DEF Path
  <2>3. /\ target'[r] \in Clients /\ pc'[r] # "idle"
        /\ kind'[r] = "create" => target'[r] = r
        /\ kind'[r] # "create" => Known(target[r])'
    BY <1>2, <1>a, <2>1, CallMoves DEF InFlight, Answered
  <2>4. Path(r)' /\ (kind'[r] \in {"create", "update"} \/ pc'[r] \in {"set", "sadd"} => held'[r] \in Configs)
    <3> USE DEF Goto, Stumble, Reply, locals, stores, Store, SyncFailed, TypeOK, Path
    <3>a. Fine(r) /\ UNCHANGED kind /\ pc[r] # "idle"
      BY <1>2, <1>a, CallMoves DEF InFlight
    <3>1. CASE ProvisionHydra(r) \/ InsertRow(r) \/ RollBackHydra(r)
      BY <3>a, <3>1 DEF ProvisionHydra, InsertRow, RollBackHydra
    <3>2. CASE ReadRow(r) \/ UpdateRow(r) \/ DeleteRow(r)
      BY <3>a, <3>2 DEF ReadRow, UpdateRow, DeleteRow
    <3>3. CASE PutHydra(r) \/ DeleteHydra(r) \/ DelConfig(r) \/ DelOrigins(r)
      BY <3>a, <3>3 DEF PutHydra, Replace, DeleteHydra, DelConfig, DelOrigins
    <3>4. CASE GetConfig(r) \/ LoadRow(r)
      BY <3>a, <3>4 DEF GetConfig, LoadRow
    <3>5. CASE SetConfig(r) \/ AddOrigins(r)
      BY <3>a, <3>5 DEF SetConfig, AddOrigins
    <3>6. CASE Fail(r)
      <4>1. pc'[r] = "failed" /\ held'[r] = held[r]
        BY <3>6 DEF Fail
      <4>2. QED
        BY <3>a, <4>1
    <3>7. QED
      BY <1>2, <3>1, <3>2, <3>3, <3>4, <3>5, <3>6 DEF Step
  <2>5. QED
    BY <1>b, <2>2, <2>3, <2>4
<1>3. CASE UNCHANGED vars
  BY <1>3, <1>a, <1>b DEF vars, stores, locals, Path, Known
<1>4. QED
  BY <1>1, <1>2, <1>3 DEF Next

\* The first writes of a client are those of its creation.
LEMMA BirthsStep == TypeOK /\ Handlers /\ Births /\ [Next]_vars => Births'
<1> DEFINE Born(c) ==
      /\ Known(c) => pc[c] \notin {"idle", "provision", "insert"}
      /\ pc[c] \in {"idle", "provision"} => hydra[c] = None
      /\ pc[c] = "insert" => hydra[c] # None
      /\ pc[c] = "rollback" => c \in faulty
<1> SUFFICES ASSUME TypeOK, Handlers, Births, [Next]_vars, NEW c \in Clients PROVE Born(c)'
  BY DEF Births
<1> USE DEF Clients
<1>a. Born(c)
  BY DEF Births
<1>1. ASSUME NEW r \in Requests, Arrival(r) PROVE Born(c)'
  BY <1>1, <1>a, Arrivals DEF stores, Known
<1>2. ASSUME NEW r \in Requests, Step(r) \/ Fail(r) PROVE Born(c)'
  <2> USE DEF Goto, Stumble, Reply, locals, stores, Store, SyncFailed, TypeOK
  <2>a. /\ pc[r] # "idle"
        /\ target[r] \in Clients /\ Path(r)
        /\ kind[r] = "create" => target[r] = r
        /\ kind[r] # "create" => Known(target[r])
        /\ kind[r] \in {"create", "update"} => held[r] \in Configs
    BY <1>2, CallMoves DEF Handlers, InFlight
  <2>b. /\ \A s \in Requests \ {r} : pc'[s] = pc[s]
        /\ faulty \subseteq faulty'
        /\ \A d \in Clients \ {target[r]} : hydra'[d] = hydra[d] /\ stored'[d] = stored[d]
    BY <1>2, CallMoves
  <2>1. CASE ProvisionHydra(r)
    BY <1>a, <2>1, <2>a, <2>b, ConfigsHaveOrigins DEF ProvisionHydra, Path, Known
  <2>2. CASE InsertRow(r)
    BY <1>a, <2>2, <2>a, <2>b DEF InsertRow, Path, Known
  <2>3. CASE RollBackHydra(r)
    BY <1>a, <2>3, <2>a, <2>b DEF RollBackHydra, Path, Known
  <2>4. CASE \/ ReadRow(r) \/ UpdateRow(r) \/ DeleteRow(r)
             \/ PutHydra(r) \/ DeleteHydra(r) \/ DelConfig(r) \/ DelOrigins(r)
    <3>1. Known(target[r])
      BY <2>4, <2>a DEF ReadRow, UpdateRow, DeleteRow, PutHydra, DeleteHydra, DelConfig, DelOrigins, Path
    <3>2. stored'[c] = stored[c] \/ Known(c)
      BY <2>b, <3>1
    <3>3. hydra'[c] = hydra[c] \/ Known(c)
      BY <2>b, <3>1
    <3>4. pc'[r] \notin {"idle", "provision", "insert", "rollback"}
      BY <2>4 DEF ReadRow, UpdateRow, DeleteRow, PutHydra, Replace, DeleteHydra, DelConfig, DelOrigins
    <3>5. QED
      BY <1>a, <2>b, <3>2, <3>3, <3>4 DEF Known
  <2>5. CASE GetConfig(r) \/ LoadRow(r) \/ SetConfig(r) \/ AddOrigins(r)
    BY <1>a, <2>5, <2>b DEF GetConfig, LoadRow, SetConfig, AddOrigins, Known
  <2>6. CASE Fail(r)
    BY <1>a, <2>6, <2>b DEF Fail, Known
  <2>7. QED
    BY <1>2, <2>1, <2>2, <2>3, <2>4, <2>5, <2>6 DEF Step
<1>3. CASE UNCHANGED vars
  BY <1>3, <1>a DEF vars, stores, Known
<1>4. QED
  BY <1>1, <1>2, <1>3 DEF Next

\* Hydra and Redis are given what PostgreSQL had before.
LEMMA CommitsStep ==
    TypeOK /\ Handlers /\ Commits /\ CacheWasCommitted /\ [Next]_vars => Commits' /\ CacheWasCommitted'
<1> SUFFICES ASSUME TypeOK, Handlers, Commits, CacheWasCommitted, [Next]_vars
             PROVE  Commits' /\ CacheWasCommitted'
  OBVIOUS
<1> DEFINE Kept(c) == db[c] \in stored[c] \cup {None} /\ cache[c] \in stored[c] \cup {None}
           Sound(r) == /\ pc[r] \in {"put", "set", "sadd"} => held[r] \in stored[target[r]]
                       /\ kind[r] = "lookup" => held[r] \in stored[target[r]] \cup {None}
<1>a. (\A c \in Clients : Kept(c)) /\ (\A r \in Requests : Sound(r))
  BY DEF Commits, CacheWasCommitted
<1>b. ASSUME \A c \in Clients : Kept(c)', \A r \in Requests : Sound(r)'
      PROVE  Commits' /\ CacheWasCommitted'
  BY <1>b DEF Commits, CacheWasCommitted
<1>1. ASSUME NEW r \in Requests, Arrival(r) PROVE Commits' /\ CacheWasCommitted'
  <2>1. \A c \in Clients : Kept(c)'
    BY <1>1, <1>a, Arrivals DEF stores
  <2>2. \A s \in Requests \ {r} : Sound(s)'
    BY <1>1, <1>a, Arrivals
  <2>3. Sound(r)'
    BY <1>1, Arrivals
  <2>4. QED
    BY <1>b, <2>1, <2>2, <2>3
<1>2. ASSUME NEW r \in Requests, Step(r) \/ Fail(r) PROVE Commits' /\ CacheWasCommitted'
  <2> USE DEF Goto, Stumble, Reply, locals, stores, Store, SyncFailed, TypeOK
  <2>a. /\ pc[r] # "idle"
        /\ target[r] \in Clients /\ Path(r)
        /\ kind[r] = "create" => target[r] = r
        /\ kind[r] \in {"create", "update"} => held[r] \in Configs /\ held[r] # None
    BY <1>2, CallMoves, ConfigsHaveOrigins DEF Handlers, InFlight
  <2>b. /\ \A s \in Requests \ {r} : pc'[s] = pc[s] /\ held'[s] = held[s]
        /\ UNCHANGED <<kind, target>>
        /\ \A c \in Clients \ {target[r]} : Kept(c)'
        /\ \A c \in Clients : stored[c] \subseteq stored'[c]
    BY <1>2, <1>a, CallMoves
  <2>c. \A s \in Requests \ {r} : Sound(s)'
    <3> SUFFICES ASSUME NEW s \in Requests \ {r} PROVE Sound(s)'
      OBVIOUS
    <3>1. CASE pc[s] = "idle"
      BY <2>b, <3>1 DEF Handlers
    <3>2. CASE pc[s] # "idle"
      BY <1>a, <2>b, <3>2 DEF Handlers
    <3>3. QED
      BY <3>1, <3>2
  <2>1. CASE ProvisionHydra(r) \/ RollBackHydra(r)
    <3>1. Kept(target[r])' /\ Sound(r)'
      BY <1>a, <2>1, <2>a, <2>b DEF ProvisionHydra, RollBackHydra, Path
    <3>2. QED
      BY <1>b, <2>b, <2>c, <3>1
  <2>2. CASE InsertRow(r)
    <3>1. Kept(target[r])' /\ Sound(r)'
      BY <1>a, <2>2, <2>a, <2>b DEF InsertRow, Path
    <3>2. QED
      BY <1>b, <2>b, <2>c, <3>1
  <2>3. CASE UpdateRow(r)
    <3>1. Kept(target[r])' /\ Sound(r)'
      BY <1>a, <2>3, <2>a, <2>b DEF UpdateRow, Path
    <3>2. QED
      BY <1>b, <2>b, <2>c, <3>1
  <2>4. CASE ReadRow(r) \/ DeleteRow(r) \/ DeleteHydra(r) \/ DelConfig(r) \/ DelOrigins(r)
    <3>1. Kept(target[r])' /\ Sound(r)'
      BY <1>a, <2>4, <2>a, <2>b DEF ReadRow, DeleteRow, DeleteHydra, DelConfig, DelOrigins, Path
    <3>2. QED
      BY <1>b, <2>b, <2>c, <3>1
  <2>5. CASE PutHydra(r)
    <3>1. Kept(target[r])' /\ Sound(r)'
      BY <1>a, <2>5, <2>a, <2>b DEF PutHydra, Replace, Path
    <3>2. QED
      BY <1>b, <2>b, <2>c, <3>1
  <2>6. CASE GetConfig(r) \/ LoadRow(r)
    <3>1. Kept(target[r])' /\ Sound(r)'
      BY <1>a, <2>6, <2>a, <2>b DEF GetConfig, LoadRow, Path
    <3>2. QED
      BY <1>b, <2>b, <2>c, <3>1
  <2>7. CASE SetConfig(r) \/ AddOrigins(r)
    <3>1. Kept(target[r])' /\ Sound(r)'
      BY <1>a, <2>7, <2>a, <2>b DEF SetConfig, AddOrigins, Path
    <3>2. QED
      BY <1>b, <2>b, <2>c, <3>1
  <2>8. CASE Fail(r)
    <3>1. Kept(target[r])' /\ Sound(r)'
      BY <1>a, <2>8, <2>a, <2>b DEF Fail
    <3>2. QED
      BY <1>b, <2>b, <2>c, <3>1
  <2>9. QED
    BY <1>2, <2>1, <2>2, <2>3, <2>4, <2>5, <2>6, <2>7, <2>8 DEF Step
<1>3. CASE UNCHANGED vars
  BY <1>3, <1>a, <1>b DEF vars, stores, locals
<1>4. QED
  BY <1>1, <1>2, <1>3 DEF Next

\* The origins CORS allows are taken from what PostgreSQL had.
LEMMA CorsStep ==
    TypeOK /\ Handlers /\ Commits /\ CorsWasCommitted /\ [Next]_vars => CorsWasCommitted'
<1> SUFFICES ASSUME TypeOK, Handlers, Commits, CorsWasCommitted, [Next]_vars
             PROVE  CorsWasCommitted'
  OBVIOUS
<1>1. \A c \in Clients : stored[c] \subseteq stored'[c]
  <2>1. ASSUME NEW r \in Requests, Arrival(r) PROVE UNCHANGED stored
    BY <2>1, Arrivals
  <2>2. QED
    BY <2>1, CallMoves DEF Next, vars
<1>2. ASSUME NEW r \in Requests, AddOrigins(r)
      PROVE  /\ target[r] \in Clients /\ held[r] \in stored[target[r]]
             /\ cors' \in {cors, cors \cup OriginsOf[held[r]]}
  BY <1>2 DEF AddOrigins, Handlers, Commits
<1>3. ASSUME NEW r \in Requests, Arrival(r) \/ (Step(r) /\ ~AddOrigins(r)) \/ Fail(r)
      PROVE  cors' \subseteq cors
  <2> USE DEF locals, stores
  <2>1. CASE Arrival(r)
    BY <2>1, Arrivals
  <2>2. CASE ProvisionHydra(r) \/ InsertRow(r) \/ RollBackHydra(r) \/ ReadRow(r) \/ UpdateRow(r)
             \/ PutHydra(r)
    BY <2>2 DEF ProvisionHydra, InsertRow, RollBackHydra, ReadRow, UpdateRow, PutHydra
  <2>3. CASE DeleteRow(r) \/ DeleteHydra(r) \/ DelConfig(r) \/ DelOrigins(r)
    BY <2>3 DEF DeleteRow, DeleteHydra, DelConfig, DelOrigins
  <2>4. CASE GetConfig(r) \/ LoadRow(r) \/ SetConfig(r) \/ Fail(r)
    BY <2>4 DEF GetConfig, LoadRow, SetConfig, Fail
  <2>5. QED
    BY <1>3, <2>1, <2>2, <2>3, <2>4 DEF Step
<1>4. CASE UNCHANGED vars
  BY <1>4 DEF vars, stores, CorsWasCommitted
<1>5. QED
  BY <1>1, <1>2, <1>3, <1>4 DEF Next, Step, CorsWasCommitted

\* What a handler finds deleted, no other brings back.
LEMMA NothingComesBack ==
    ASSUME TypeOK, Handlers, [Next]_vars, NEW c \in Clients, pc[c] \notin {"idle", "provision", "insert"}
    PROVE  (hydra[c] = None => hydra'[c] = None) /\ (db[c] = None => db'[c] = None)
<1> DEFINE Gone == (hydra[c] = None => hydra'[c] = None) /\ (db[c] = None => db'[c] = None)
<1>1. ASSUME NEW r \in Requests, Arrival(r) PROVE Gone
  BY <1>1, Arrivals DEF stores
<1>2. ASSUME NEW r \in Requests, Step(r) \/ Fail(r) PROVE Gone
  <2> USE DEF locals, stores, Store, TypeOK, Clients
  <2>1. CASE ProvisionHydra(r) \/ InsertRow(r) \/ RollBackHydra(r)
    BY <2>1 DEF ProvisionHydra, InsertRow, RollBackHydra
  <2>2. CASE ReadRow(r) \/ UpdateRow(r) \/ DeleteRow(r)
    BY <2>2 DEF ReadRow, UpdateRow, DeleteRow
  <2>3. CASE PutHydra(r) \/ DeleteHydra(r) \/ DelConfig(r) \/ DelOrigins(r)
    BY <2>3 DEF PutHydra, Replace, DeleteHydra, DelConfig, DelOrigins
  <2>4. CASE GetConfig(r) \/ LoadRow(r) \/ SetConfig(r) \/ AddOrigins(r) \/ Fail(r)
    BY <2>4 DEF GetConfig, LoadRow, SetConfig, AddOrigins, Fail
  <2>5. QED
    BY <1>2, <2>1, <2>2, <2>3, <2>4 DEF Step
<1>3. CASE UNCHANGED vars
  BY <1>3 DEF vars, stores
<1>4. QED
  BY <1>1, <1>2, <1>3 DEF Next

LEMMA DeletionsStep == TypeOK /\ Handlers /\ Births /\ Deletions /\ [Next]_vars => Deletions'
<1> SUFFICES ASSUME TypeOK, Handlers, Births, Deletions, [Next]_vars, NEW s \in Requests,
                    pc'[s] \in {"deleteHydra", "delConfig", "delOrigins"}
             PROVE  db'[target'[s]] = None
  BY DEF Deletions
<1>1. CASE pc[s] \in {"deleteHydra", "delConfig", "delOrigins"}
  <2>1. target[s] \in Clients /\ Known(target[s]) /\ db[target[s]] = None
    BY <1>1 DEF Handlers, Path, Deletions
  <2>2. pc[target[s]] \notin {"idle", "provision", "insert"}
    BY <2>1 DEF Births
  <2>3. target'[s] = target[s]
    <3>1. ASSUME NEW r \in Requests, Arrival(r) PROVE target'[s] = target[s]
      BY <1>1, <3>1, Arrivals
    <3>2. ASSUME NEW r \in Requests, Step(r) \/ Fail(r) PROVE target'[s] = target[s]
      BY <3>2, CallMoves
    <3>3. QED
      BY <3>1, <3>2 DEF Next, vars, locals
  <2>4. QED
    BY <2>1, <2>2, <2>3, NothingComesBack
<1>2. CASE pc[s] \notin {"deleteHydra", "delConfig", "delOrigins"}
  <2>1. ASSUME NEW r \in Requests, Arrival(r) PROVE FALSE
    BY <1>2, <2>1, Arrivals
  <2>2. ASSUME NEW r \in Requests, Step(r) \/ Fail(r) PROVE db'[target'[s]] = None
    <3> USE DEF Goto, Stumble, Reply, SyncFailed, TypeOK
    <3>1. s = r /\ UNCHANGED target /\ target[r] \in Clients
      BY <1>2, <2>2, CallMoves
    <3>2. CASE DeleteRow(r)
      BY <3>1, <3>2 DEF DeleteRow, Store
    <3>3. CASE ProvisionHydra(r) \/ InsertRow(r) \/ RollBackHydra(r) \/ ReadRow(r) \/ UpdateRow(r) \/ PutHydra(r)
      BY <1>2, <3>1, <3>3 DEF ProvisionHydra, InsertRow, RollBackHydra, ReadRow, UpdateRow, PutHydra, Replace
    <3>4. CASE DeleteHydra(r) \/ DelConfig(r) \/ DelOrigins(r)
      BY <1>2, <3>1, <3>4 DEF DeleteHydra, DelConfig, DelOrigins
    <3>5. CASE GetConfig(r) \/ LoadRow(r) \/ SetConfig(r) \/ AddOrigins(r) \/ Fail(r)
      BY <1>2, <3>1, <3>5 DEF GetConfig, LoadRow, SetConfig, AddOrigins, Fail
    <3>6. QED
      BY <2>2, <3>2, <3>3, <3>4, <3>5 DEF Step
  <2>3. CASE UNCHANGED vars
    BY <1>2, <2>3 DEF vars
  <2>4. QED
    BY <2>1, <2>2, <2>3 DEF Next
<1>3. QED
  BY <1>1, <1>2

LEMMA OverlapsStep == TypeOK /\ Handlers /\ Overlaps /\ [Next]_vars => Overlaps'
<1> SUFFICES ASSUME TypeOK, Handlers, Overlaps, [Next]_vars PROVE Overlaps'
  OBVIOUS
<1>1. ASSUME NEW r \in Requests, Arrival(r) PROVE Overlaps'
  <2>1. ASSUME NEW s \in Requests \ {r}, pc'[s] \in InFlight, target'[s] = target'[r]
        PROVE  target'[r] \in raced'
    <3>1. s \in Running(target'[r])
      BY <1>1, <2>1, Arrivals DEF Running
    <3>2. QED
      BY <1>1, <3>1, Arrivals
  <2>2. ASSUME NEW s \in Requests \ {r}, NEW t \in Requests \ {r}, s # t,
               {pc'[s], pc'[t]} \subseteq InFlight, target'[s] = target'[t]
        PROVE  target'[s] \in raced'
    BY <1>1, <2>2, Arrivals DEF Overlaps
  <2>3. QED
    BY <2>1, <2>2 DEF Overlaps
<1>2. ASSUME NEW r \in Requests, Step(r) \/ Fail(r) PROVE Overlaps'
  <2>1. \A s \in Requests : pc'[s] \in InFlight => pc[s] \in InFlight
    BY <1>2, CallMoves
  <2>2. QED
    BY <1>2, <2>1, CallMoves DEF Overlaps
<1>3. CASE UNCHANGED vars
  BY <1>3 DEF vars, locals, Overlaps
<1>4. QED
  BY <1>1, <1>2, <1>3 DEF Next

\* Only a create's rollback leaves a row without its client in Hydra.
LEMMA RowsStep ==
    TypeOK /\ Handlers /\ Births /\ Deletions /\ RowsHaveHydraClients /\ [Next]_vars => RowsHaveHydraClients'
<1> SUFFICES ASSUME TypeOK, Handlers, Births, Deletions, RowsHaveHydraClients, [Next]_vars,
                    NEW c \in Clients, db'[c] # None, hydra'[c] = None
             PROVE  c \in faulty' /\ pc'[c] = "failed"
  BY DEF RowsHaveHydraClients
<1> USE DEF Clients
<1>a. db[c] # None /\ hydra[c] = None => c \in faulty /\ pc[c] = "failed"
  BY DEF RowsHaveHydraClients
<1>1. ASSUME NEW r \in Requests, Arrival(r) PROVE c \in faulty' /\ pc'[c] = "failed"
  BY <1>1, <1>a, Arrivals DEF stores
<1>2. ASSUME NEW r \in Requests, Step(r) \/ Fail(r) PROVE c \in faulty' /\ pc'[c] = "failed"
  <2> USE DEF Goto, Stumble, Reply, locals, stores, Store, TypeOK
  <2>a. pc[r] \in InFlight /\ faulty \subseteq faulty' /\ \A s \in Requests \ {r} : pc'[s] = pc[s]
    BY <1>2, CallMoves
  <2>1. CASE db[c] # None /\ hydra[c] = None
    BY <1>a, <2>1, <2>a DEF InFlight
  <2>2. CASE db[c] = None
    <3>1. InsertRow(r) /\ r = c
      BY <1>2, <2>2 DEF Step, ProvisionHydra, RollBackHydra, InsertRow, ReadRow, UpdateRow, DeleteRow, PutHydra,
         DeleteHydra, DelConfig, DelOrigins, GetConfig, LoadRow, SetConfig, AddOrigins, Fail
    <3>2. hydra[c] # None /\ hydra'[c] = hydra[c]
      BY <3>1 DEF InsertRow, Births
    <3>3. QED
      BY <3>2
  <2>3. CASE db[c] # None /\ hydra[c] # None
    <3>1. (RollBackHydra(r) /\ r = c) \/ (DeleteHydra(r) /\ target[r] = c)
          \/ (pc[r] = "provision" /\ r = c /\ hydra'[c] = held[r]) \/ (pc[r] = "put" /\ target[r] = c /\ hydra'[c] = held[r])
      BY <1>2, <2>3 DEF Step, ProvisionHydra, RollBackHydra, InsertRow, ReadRow, UpdateRow, DeleteRow, PutHydra,
         Replace, DeleteHydra, DelConfig, DelOrigins, GetConfig, LoadRow, SetConfig, AddOrigins, Fail
    <3>2. CASE RollBackHydra(r) /\ r = c
      BY <2>a, <3>2 DEF RollBackHydra, Births
    <3>3. CASE DeleteHydra(r) /\ target[r] = c
      BY <2>3, <3>3 DEF DeleteHydra, Deletions
    <3>4. CASE pc[r] \in {"provision", "put"} /\ hydra'[c] = held[r]
      BY <3>4, ConfigsHaveOrigins DEF Handlers, Path
    <3>5. QED
      BY <3>1, <3>2, <3>3, <3>4
  <2>4. QED
    BY <2>1, <2>2, <2>3
<1>3. CASE UNCHANGED vars
  BY <1>3, <1>a DEF vars, stores
<1>4. QED
  BY <1>1, <1>2, <1>3 DEF Next

\* The only handler at work on a client takes its stores to agreement.
LEMMA CourseStep ==
    TypeOK /\ Handlers /\ Births /\ Commits /\ Deletions /\ Overlaps /\ OnCourse
        /\ UndisturbedStoresAgree /\ [Next]_vars
    => OnCourse' /\ UndisturbedStoresAgree'
<1> SUFFICES ASSUME TypeOK, Handlers, Births, Commits, Deletions, Overlaps, OnCourse,
                    UndisturbedStoresAgree, [Next]_vars
             PROVE  OnCourse' /\ UndisturbedStoresAgree'
  OBVIOUS
<1>1. ASSUME NEW r \in Requests, Arrival(r) PROVE OnCourse' /\ UndisturbedStoresAgree'
  <2>1. UNCHANGED <<db, hydra, cache, faulty>> /\ raced \subseteq raced'
    BY <1>1, Arrivals DEF stores
  <2>2. ASSUME NEW c \in Clients, AtRest(c)' PROVE AtRest(c)
    BY <1>1, <2>2, Arrivals DEF AtRest, Running, InFlight
  <2>3. UndisturbedStoresAgree'
    BY <2>1, <2>2 DEF UndisturbedStoresAgree
  <2>4. ASSUME NEW s \in Requests \ {r}, pc'[s] \in InFlight, target'[s] \notin raced' \cup faulty'
        PROVE  Progress(s)'
    <3>1. Progress(s)
      BY <1>1, <2>1, <2>4, Arrivals DEF OnCourse
    <3>2. QED
      BY <1>1, <2>1, <3>1, Arrivals DEF Progress, Agree
  <2>5. ASSUME target'[r] \notin raced' \cup faulty' PROVE Progress(r)'
    <3>1. target'[r] \in Clients /\ Running(target'[r]) = {} /\ target'[r] \notin raced \cup faulty
      BY <1>1, <2>1, <2>5, Arrivals DEF Clients
    <3>2. Agree(target'[r])
      BY <3>1 DEF UndisturbedStoresAgree, AtRest, Agree
    <3>3. CASE pc'[r] = "provision" /\ target'[r] = r
      <4>1. ~Known(r)
        BY <1>1, Arrivals DEF Births, Clients
      <4>2. db[r] = None
        BY <4>1 DEF Commits, Clients, Known
      <4>3. QED
        BY <2>1, <3>3, <4>2 DEF Progress
    <3>4. CASE pc'[r] \in {"get", "read"}
      BY <2>1, <3>2, <3>4 DEF Progress, Agree
    <3>5. QED
      BY <1>1, <3>3, <3>4, Arrivals
  <2>6. QED
    BY <2>3, <2>4, <2>5 DEF OnCourse
<1>2. ASSUME NEW r \in Requests, Step(r) \/ Fail(r) PROVE OnCourse' /\ UndisturbedStoresAgree'
  <2> DEFINE d == target[r]
  <2>a. /\ d \in Clients /\ pc[r] \in InFlight /\ UNCHANGED <<kind, target, raced>>
        /\ faulty' \in {faulty, faulty \cup {d}} /\ pc'[r] \in InFlight \cup Answered
        /\ \A s \in Requests \ {r} : pc'[s] = pc[s] /\ held'[s] = held[s]
        /\ \A c \in Clients \ {d} : db'[c] = db[c] /\ hydra'[c] = hydra[c] /\ cache'[c] = cache[c]
    BY <1>2, CallMoves
  <2>1. ASSUME d \notin raced' \cup faulty'
        PROVE  /\ pc'[r] \in InFlight => Progress(r)'
               /\ pc'[r] \in Answered => Agree(d)'
    <3>a. Progress(r) /\ Path(r) /\ (kind[r] = "create" => d = r) /\ d \notin raced' /\ d \notin faulty'
          /\ (pc[r] = "rollback" => r \in faulty)
          /\ (pc[r] \in {"deleteHydra", "delConfig", "delOrigins"} => db[d] = None)
      BY <2>1, <2>a DEF OnCourse, Handlers, InFlight, Births, Clients, Deletions
    <3> HIDE <2>1
    <3> USE DEF Goto, Stumble, Reply, locals, stores, Store, SyncFailed, TypeOK, Progress, Agree, InFlight, Answered
    <3>1. CASE ProvisionHydra(r) \/ InsertRow(r)
      BY <2>a, <3>a, <3>1 DEF ProvisionHydra, InsertRow, Path
    <3>2. CASE RollBackHydra(r)
      BY <2>a, <3>a, <3>2 DEF RollBackHydra, Path
    <3>3. CASE ReadRow(r) \/ UpdateRow(r) \/ DeleteRow(r)
      BY <2>a, <3>a, <3>3 DEF ReadRow, UpdateRow, DeleteRow
    <3>4. CASE PutHydra(r)
      BY <2>a, <3>a, <3>4 DEF PutHydra, Replace
    <3>5. CASE DeleteHydra(r) \/ DelConfig(r) \/ DelOrigins(r)
      BY <2>a, <3>a, <3>5 DEF DeleteHydra, DelConfig, DelOrigins
    <3>6. CASE GetConfig(r) \/ LoadRow(r)
      BY <2>a, <3>a, <3>6 DEF GetConfig, LoadRow
    <3>7. CASE SetConfig(r) \/ AddOrigins(r)
      BY <2>a, <3>a, <3>7 DEF SetConfig, AddOrigins
    <3>8. CASE Fail(r)
      BY <2>a, <3>a, <3>8 DEF Fail
    <3>9. QED
      BY <1>2, <3>1, <3>2, <3>3, <3>4, <3>5, <3>6, <3>7, <3>8 DEF Step
  <2>2. ASSUME NEW s \in Requests \ {r}, pc'[s] \in InFlight, target'[s] \notin raced' \cup faulty'
        PROVE  Progress(s)'
    <3>1. Progress(s)
      BY <2>2, <2>a DEF OnCourse
    <3>2. target[s] # d /\ target[s] \in Clients
      BY <2>2, <2>a DEF Overlaps, Handlers, InFlight
    <3>3. QED
      BY <2>a, <3>1, <3>2 DEF Progress, Agree
  <2>3. OnCourse'
    BY <2>1, <2>2, <2>a DEF OnCourse
  <2>4. ASSUME NEW c \in Clients, c \notin raced' \cup faulty', AtRest(c)' PROVE Agree(c)'
    <3>1. CASE c = d
      <4>1. pc'[r] \notin InFlight
        BY <2>4, <2>a, <3>1 DEF AtRest, Running
      <4>2. QED
        BY <2>1, <2>4, <2>a, <3>1, <4>1
    <3>2. CASE c # d
      <4>1. AtRest(c)
        BY <2>4, <2>a, <3>2 DEF AtRest, Running
      <4>2. Agree(c)
        BY <2>4, <2>a, <4>1 DEF UndisturbedStoresAgree, Agree
      <4>3. QED
        BY <2>a, <3>2, <4>2 DEF Agree
    <3>3. QED
      BY <3>1, <3>2
  <2>5. QED
    BY <2>3, <2>4 DEF UndisturbedStoresAgree, Agree
<1>3. CASE UNCHANGED vars
  BY <1>3 DEF vars, stores, locals, OnCourse, Progress, Agree, UndisturbedStoresAgree, AtRest, Running
<1>4. QED
  BY <1>1, <1>2, <1>3 DEF Next

LEMMA IInvInit == Init => IInv
<1> SUFFICES ASSUME Init PROVE IInv
  OBVIOUS
<1>1. TypeOK
  BY TypeInit
<1>2. Handlers /\ Births /\ Commits /\ Deletions /\ Overlaps /\ OnCourse
  BY DEF Init, Handlers, Births, Commits, Deletions, Overlaps, OnCourse, Known, Clients, InFlight
<1>3. CacheWasCommitted /\ RowsHaveHydraClients /\ UndisturbedStoresAgree /\ CorsWasCommitted
  BY DEF Init, CacheWasCommitted, RowsHaveHydraClients, UndisturbedStoresAgree, CorsWasCommitted, Clients
<1>4. QED
  BY <1>1, <1>2, <1>3 DEF IInv

LEMMA IInvStep == IInv /\ [Next]_vars => IInv'
BY TypeStep, HandlersStep, BirthsStep, CommitsStep, CorsStep, DeletionsStep, OverlapsStep, RowsStep,
   CourseStep DEF IInv

\* The inductive invariant: what each handler of the client registry has done so
\* far, and what the stores hold meanwhile.
THEOREM Invariance == Spec => []IInv
BY IInvInit, IInvStep, PTL DEF Spec

\* Every variable keeps its type, for any requests, configurations and origins.
THEOREM TypeCorrect == Spec => []TypeOK
<1>1. IInv => TypeOK
  BY DEF IInv
<1>2. QED
  BY <1>1, Invariance, PTL

\* PostgreSQL, Hydra and Redis agree about a client no handler is at work on,
\* unless two handlers overlapped on it or a call of theirs failed.
THEOREM AgreementSafety == Spec => []UndisturbedStoresAgree
<1>1. IInv => UndisturbedStoresAgree
  BY DEF IInv
<1>2. QED
  BY <1>1, Invariance, PTL

\* Redis never holds, and a login never gets, a configuration of a client that
\* PostgreSQL did not commit.
THEOREM CacheSafety == Spec => []CacheWasCommitted
<1>1. IInv => CacheWasCommitted
  BY DEF IInv
<1>2. QED
  BY <1>1, Invariance, PTL

\* CORS allows no origin that no client was ever configured with.
THEOREM CorsSafety == Spec => []CorsWasCommitted
<1>1. IInv => CorsWasCommitted
  BY DEF IInv
<1>2. QED
  BY <1>1, Invariance, PTL

\* A row whose client Hydra does not have comes from a create that reported an
\* error.
THEOREM RowSafety == Spec => []RowsHaveHydraClients
<1>1. IInv => RowsHaveHydraClients
  BY DEF IInv
<1>2. QED
  BY <1>1, Invariance, PTL

\* No update that races a delete brings the row or the client in Hydra back.
THEOREM DeletionSafety == Spec => DeletedStaysDeleted
<1>1. IInv /\ [Next]_vars =>
        [\A c \in Clients : pc[c] \notin {"idle", "provision", "insert"} =>
            /\ hydra[c] = None => hydra'[c] = None
            /\ db[c] = None => db'[c] = None]_vars
  BY NothingComesBack DEF IInv
<1>2. QED
  BY <1>1, Invariance, PTL DEF Spec, DeletedStaysDeleted
=============================================================================
