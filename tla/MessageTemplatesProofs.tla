----------------------- MODULE MessageTemplatesProofs -----------------------
(***************************************************************************)
(* Proofs about MessageTemplates for any requests, names and contents:     *)
(* when Redis has the template of PostgreSQL, when an update keeps the     *)
(* fields it was not given, and that no client loses its template.         *)
(***************************************************************************)
EXTENDS MessageTemplates, TLAPS

\* A PUT with absent fields yields a template again.
LEMMA OverlayIsTemplate ==
    ASSUME NEW x \in Template, NEW f \in Fields
    PROVE  Overlay(x, f) \in Template
BY DEF Overlay, Template, Fields

LEMMA TypeInit == Init => TypeOK
<1>1. NoFields \in Fields
  BY DEF NoFields, Fields
<1>2. [name |-> Default, content |-> Seeded] \in Template
  BY TemplateConstants DEF Template
<1>3. QED
  BY <1>1, <1>2 DEF Init, TypeOK

\* What an arrival does: it changes no store, and knows of the handlers that
\* are at work on its template.
LEMMA Arrivals ==
    ASSUME TypeOK, NEW r \in Requests, Arrival(r)
    PROVE  /\ pc[r] = "idle" /\ UNCHANGED <<db, clients, cache, held, faulty>>
           /\ kind' \in [Requests -> Kinds \cup {None}] /\ target' \in [Requests -> Ids \cup {None}]
           /\ pc' \in [Requests -> {"idle"} \cup InFlight \cup Answered]
           /\ given' \in [Requests -> Fields] /\ raced' \subseteq Ids
           /\ target'[r] \in Ids
           /\ \/ /\ kind'[r] = "create" /\ target'[r] = r
                 /\ pc'[r] = "insert" /\ given'[r] \in Template
              \/ /\ kind'[r] \in {"get", "update"} /\ Known(target'[r]) /\ pc'[r] = "get"
              \/ /\ kind'[r] = "delete" /\ Known(target'[r]) /\ pc'[r] = "count"
           /\ raced \subseteq raced'
           /\ Running(target'[r]) # {} => target'[r] \in raced'
           /\ \A s \in Requests \ {r} : /\ pc'[s] = pc[s] /\ kind'[s] = kind[s]
                                        /\ target'[s] = target[s] /\ given'[s] = given[s]
<1> USE DEF TypeOK
<1>1. ASSUME NEW k, NEW t \in Ids, NEW f \in Fields, NEW p \in InFlight, Arrive(r, k, t, f, p)
      PROVE  /\ pc[r] = "idle" /\ UNCHANGED <<db, clients, cache, held, faulty>>
             /\ kind' \in [Requests -> Kinds \cup {None}] /\ target' \in [Requests -> Ids \cup {None}]
             /\ pc' \in [Requests -> {"idle"} \cup InFlight \cup Answered]
             /\ given' \in [Requests -> Fields] /\ raced' \subseteq Ids
             /\ kind'[r] = k /\ target'[r] = t /\ given'[r] = f /\ pc'[r] = p
             /\ raced \subseteq raced'
             /\ Running(t) # {} => t \in raced'
             /\ \A s \in Requests \ {r} : /\ pc'[s] = pc[s] /\ kind'[s] = kind[s]
                                          /\ target'[s] = target[s] /\ given'[s] = given[s]
  BY <1>1 DEF Arrive
<1>2. NoFields \in Fields /\ Template \subseteq Fields /\ Bodies \subseteq Fields
      /\ {"insert", "get", "count"} \subseteq InFlight /\ r \in Ids
  BY TemplateConstants DEF NoFields, Fields, Template, InFlight, Ids
<1>3. CASE \E x \in Template : ArriveCreate(r, x)
  BY <1>1, <1>2, <1>3 DEF ArriveCreate
<1>4. CASE \E t \in Ids, f \in Bodies : ArriveUpdate(r, t, f)
  BY <1>1, <1>2, <1>4 DEF ArriveUpdate
<1>5. CASE \E t \in Ids : ArriveGet(r, t) \/ ArriveDelete(r, t)
  BY <1>1, <1>2, <1>5 DEF ArriveGet, ArriveDelete
<1>6. QED
  BY <1>3, <1>4, <1>5 DEF Arrival

\* Every call comes from a handler that has its arguments, and moves only that
\* handler and the template it runs on.
LEMMA CallMoves ==
    ASSUME TypeOK, Handlers, NEW r \in Requests, Step(r) \/ Fail(r)
    PROVE  /\ pc[r] \in InFlight /\ target[r] \in Ids
           /\ UNCHANGED <<kind, target, given, clients, raced>>
           /\ faulty' \in {faulty, faulty \cup {target[r]}}
           /\ \A s \in Requests \ {r} : pc'[s] = pc[s] /\ held'[s] = held[s]
           /\ \A t \in Ids \ {target[r]} : db'[t] = db[t] /\ cache'[t] = cache[t]
           /\ pc' \in [Requests -> {"idle"} \cup InFlight \cup Answered] /\ pc'[r] \in InFlight \cup Answered
<1> USE DEF TypeOK, Goto, Stumble, Reply, locals, InFlight, Answered, AfterGet
<1>a. pc[r] # "idle" => target[r] \in Ids /\ Path(r) /\ (kind[r] = "create" => target[r] = r)
  BY DEF Handlers
<1>1. CASE InsertRow(r)
  BY <1>1, <1>a DEF InsertRow, Path
<1>2. CASE GetCached(r) \/ LoadRow(r)
  BY <1>2, <1>a DEF GetCached, LoadRow
<1>3. CASE SetCache(r) \/ Invalidate(r)
  BY <1>3, <1>a DEF SetCache, Invalidate
<1>4. CASE UpdateRow(r)
  BY <1>4, <1>a DEF UpdateRow
<1>5. CASE CountClients(r) \/ DeleteRow(r)
  BY <1>5, <1>a DEF CountClients, DeleteRow
<1>6. CASE Fail(r)
  BY <1>6, <1>a DEF Fail
<1>7. QED
  BY <1>1, <1>2, <1>3, <1>4, <1>5, <1>6 DEF Step

\* What a call does to the row and the entry of its template.
LEMMA CallEffects ==
    ASSUME TypeOK, Handlers, NEW r \in Requests, Step(r) \/ Fail(r)
    PROVE  LET t == target[r] IN
           /\ db' \in [Ids -> Template \cup {None}] /\ cache' \in [Ids -> Template \cup {None}]
           /\ held' \in [Requests -> Template \cup {None}]
           /\ \/ /\ pc[r] = "insert"
                 /\ db'[t] \in Template \/ UNCHANGED db
                 /\ UNCHANGED <<cache, held>>
                 /\ pc'[r] \in Answered
              \/ /\ pc[r] = "get" /\ UNCHANGED <<db, cache>>
                 /\ \/ /\ cache[t] # None /\ held'[r] = cache[t] /\ pc'[r] = AfterGet(r)
                    \/ pc'[r] = "load"
              \/ /\ pc[r] = "load" /\ UNCHANGED <<db, cache>> /\ held'[r] = db[t]
                 /\ pc'[r] = (IF db[t] = None THEN "rejected" ELSE "set")
              \/ /\ pc[r] = "set" /\ UNCHANGED <<db, held>> /\ pc'[r] = AfterGet(r)
                 /\ cache'[t] = held[r] \/ (cache' = cache /\ t \in faulty')
              \/ /\ pc[r] = "update" /\ UNCHANGED cache
                 /\ \/ db[t] # None /\ db'[t] = Overlay(held[r], given[r]) /\ pc'[r] \in {"invalidate", "failed"}
                       /\ (pc'[r] = "failed" => t \in faulty')
                    \/ UNCHANGED db /\ pc'[r] = "failed"
              \/ /\ pc[r] = "count" /\ UNCHANGED <<db, cache, held>> /\ pc'[r] \in {"delete", "failed"}
              \/ /\ pc[r] = "delete" /\ UNCHANGED <<cache, held>>
                 /\ \/ t \notin clients /\ db'[t] = None /\ pc'[r] \in {"invalidate", "failed"}
                       /\ (pc'[r] = "failed" => t \in faulty')
                    \/ UNCHANGED db /\ pc'[r] = "failed"
              \/ /\ pc[r] = "invalidate" /\ UNCHANGED <<db, held>> /\ pc'[r] = "ok"
                 /\ cache'[t] = None \/ (cache' = cache /\ t \in faulty')
              \/ /\ pc'[r] = "failed" /\ UNCHANGED <<db, cache, held>> /\ t \in faulty'
<1> USE DEF TypeOK, Goto, Stumble, Reply, locals
<1>a. target[r] \in Ids /\ Path(r) /\ given[r] \in Fields
      /\ (kind[r] = "create" => target[r] = r /\ given[r] \in Template)
  BY CallMoves DEF Handlers, InFlight
<1>1. CASE InsertRow(r)
  BY <1>1, <1>a DEF InsertRow, Path, Answered
<1>2. CASE GetCached(r)
  BY <1>2, <1>a DEF GetCached
<1>3. CASE LoadRow(r)
  BY <1>3, <1>a DEF LoadRow
<1>4. CASE SetCache(r)
  BY <1>4, <1>a DEF SetCache
<1>5. CASE UpdateRow(r)
  <2>1. Overlay(held[r], given[r]) \in Template
    BY <1>5, <1>a, OverlayIsTemplate DEF UpdateRow, Path
  <2>2. QED
    BY <1>5, <1>a, <2>1 DEF UpdateRow
<1>6. CASE CountClients(r)
  BY <1>6, <1>a DEF CountClients
<1>7. CASE DeleteRow(r)
  BY <1>7, <1>a DEF DeleteRow, MayDelete
<1>8. CASE Invalidate(r)
  BY <1>8, <1>a DEF Invalidate
<1>9. CASE Fail(r)
  BY <1>9, <1>a DEF Fail
<1>10. QED
  BY <1>1, <1>2, <1>3, <1>4, <1>5, <1>6, <1>7, <1>8, <1>9 DEF Step

\* The operator's SQL and the passing of an hour.
LEMMA Elsewhere ==
    ASSUME TypeOK, NEW t \in Ids, LinkClient(t) \/ CacheExpires(t)
    PROVE  /\ UNCHANGED <<db, pc, kind, target, given, held, raced, faulty>>
           /\ \/ UNCHANGED cache /\ clients' = clients \cup {t} /\ db[t] # None
              \/ UNCHANGED clients /\ cache' = [cache EXCEPT ![t] = None]
BY DEF LinkClient, CacheExpires, locals

LEMMA TypeStep == TypeOK /\ Handlers /\ [Next]_vars => TypeOK'
<1> SUFFICES ASSUME TypeOK, Handlers, [Next]_vars PROVE TypeOK'
  OBVIOUS
<1>1. ASSUME NEW r \in Requests, Arrival(r) PROVE TypeOK'
  BY <1>1, Arrivals DEF TypeOK
<1>2. ASSUME NEW r \in Requests, Step(r) \/ Fail(r) PROVE TypeOK'
  BY <1>2, CallMoves, CallEffects DEF TypeOK
<1>3. ASSUME NEW t \in Ids, LinkClient(t) \/ CacheExpires(t) PROVE TypeOK'
  BY <1>3, Elsewhere DEF TypeOK
<1>4. CASE UNCHANGED vars
  BY <1>4 DEF vars, locals, TypeOK
<1>5. QED
  BY <1>1, <1>2, <1>3, <1>4 DEF Next

\* Templates that are known stay known.
LEMMA KnownStays ==
    ASSUME TypeOK, Handlers, [Next]_vars, NEW t \in Ids, Known(t) PROVE Known(t)'
<1>1. ASSUME NEW r \in Requests, Arrival(r) PROVE Known(t)'
  BY <1>1, Arrivals DEF Known, Handlers
<1>2. ASSUME NEW r \in Requests, Step(r) \/ Fail(r) PROVE Known(t)'
  BY <1>2, CallMoves DEF Known
<1>3. ASSUME NEW u \in Ids, LinkClient(u) \/ CacheExpires(u) PROVE Known(t)'
  BY <1>3, Elsewhere DEF Known
<1>4. QED
  BY <1>1, <1>2, <1>3 DEF Next, vars, locals, Known

\* A handler reaches a call only on its own path, with what it needs there.
LEMMA HandlersStep == TypeOK /\ Handlers /\ [Next]_vars => Handlers'
<1> SUFFICES ASSUME TypeOK, Handlers, [Next]_vars PROVE Handlers'
  OBVIOUS
<1> DEFINE Fine(r) ==
      /\ pc[r] = "idle" => kind[r] # "create"
      /\ pc[r] # "idle" =>
            /\ target[r] \in Ids
            /\ Path(r)
            /\ IF kind[r] = "create" THEN target[r] = r /\ given[r] \in Template
               ELSE Known(target[r])
<1>a. \A r \in Requests : Fine(r)
  BY DEF Handlers
<1>b. ASSUME \A r \in Requests : Fine(r)' PROVE Handlers'
  BY <1>b DEF Handlers
<1>c. \A t \in Ids : Known(t) => Known(t)'
  BY KnownStays
<1>1. ASSUME NEW r \in Requests, Arrival(r) PROVE Handlers'
  <2>1. ASSUME NEW s \in Requests \ {r} PROVE Fine(s)'
    BY <1>1, <1>a, <1>c, Arrivals DEF Path
  <2>2. Path(r)' /\ pc'[r] # "idle"
    BY <1>1, Arrivals DEF Path
  <2>3. Fine(r)'
    BY <1>1, <1>c, <2>2, Arrivals
  <2>4. QED
    BY <1>b, <2>1, <2>3
<1>2. ASSUME NEW r \in Requests, Step(r) \/ Fail(r) PROVE Handlers'
  <2>a. pc[r] # "idle" /\ pc'[r] # "idle" /\ UNCHANGED <<kind, target, given>>
    BY <1>2, CallMoves DEF InFlight, Answered
  <2>1. ASSUME NEW s \in Requests \ {r} PROVE Fine(s)'
    BY <1>2, <1>a, <1>c, <2>a, CallMoves DEF Path
  <2>2. Path(r)'
    BY <1>2, <1>a, <2>a, CallEffects DEF Path, AfterGet, Answered, TypeOK
  <2>3. Fine(r)'
    BY <1>a, <1>c, <2>a, <2>2
  <2>4. QED
    BY <1>b, <2>1, <2>3
<1>3. ASSUME NEW t \in Ids, LinkClient(t) \/ CacheExpires(t) PROVE Handlers'
  BY <1>3, <1>a, <1>b, <1>c, Elsewhere DEF Path
<1>4. CASE UNCHANGED vars
  BY <1>4, <1>a, <1>b, <1>c DEF vars, locals, Path
<1>5. QED
  BY <1>1, <1>2, <1>3, <1>4 DEF Next

LEMMA BirthsStep == TypeOK /\ Handlers /\ Births /\ [Next]_vars => Births'
<1> SUFFICES ASSUME TypeOK, Handlers, Births, [Next]_vars, NEW t \in Ids, ~Known(t)'
             PROVE  db'[t] = None /\ cache'[t] = None
  BY DEF Births
<1>a. ~Known(t) /\ db[t] = None /\ cache[t] = None
  BY KnownStays DEF Births
<1>1. ASSUME NEW r \in Requests, Arrival(r) PROVE db'[t] = None /\ cache'[t] = None
  BY <1>1, <1>a, Arrivals
<1>2. ASSUME NEW r \in Requests, Step(r) \/ Fail(r) PROVE db'[t] = None /\ cache'[t] = None
  <2>1. target[r] # t
    BY <1>2, <1>a, CallMoves DEF Handlers, Known, InFlight
  <2>2. QED
    BY <1>2, <1>a, <2>1, CallMoves
<1>3. ASSUME NEW u \in Ids, LinkClient(u) \/ CacheExpires(u) PROVE db'[t] = None /\ cache'[t] = None
  BY <1>3, <1>a, Elsewhere DEF TypeOK
<1>4. QED
  BY <1>1, <1>2, <1>3, <1>a DEF Next, vars

LEMMA OverlapsStep == TypeOK /\ Handlers /\ Overlaps /\ [Next]_vars => Overlaps'
<1> SUFFICES ASSUME TypeOK, Handlers, Overlaps, [Next]_vars PROVE Overlaps'
  OBVIOUS
<1>1. ASSUME NEW r \in Requests, Arrival(r) PROVE Overlaps'
  <2>1. ASSUME NEW s \in Requests \ {r}, pc'[s] \in InFlight, target'[s] = target'[r]
        PROVE  target'[r] \in raced'
    <3>1. s \in Running(target'[r])
      BY <1>1, <2>1, Arrivals DEF Running
    <3>2. QED
      BY <1>1, <3>1, Arrivals
  <2>2. ASSUME NEW s \in Requests \ {r}, NEW u \in Requests \ {r}, s # u,
               {pc'[s], pc'[u]} \subseteq InFlight, target'[s] = target'[u]
        PROVE  target'[s] \in raced'
    BY <1>1, <2>2, Arrivals DEF Overlaps
  <2>3. QED
    BY <2>1, <2>2 DEF Overlaps
<1>2. ASSUME NEW r \in Requests, Step(r) \/ Fail(r) PROVE Overlaps'
  <2>1. \A s \in Requests : pc'[s] \in InFlight => pc[s] \in InFlight
    BY <1>2, CallMoves
  <2>2. QED
    BY <1>2, <2>1, CallMoves DEF Overlaps
<1>3. ASSUME NEW t \in Ids, LinkClient(t) \/ CacheExpires(t) PROVE Overlaps'
  BY <1>3, Elsewhere DEF Overlaps
<1>4. CASE UNCHANGED vars
  BY <1>4 DEF vars, locals, Overlaps
<1>5. QED
  BY <1>1, <1>2, <1>3, <1>4 DEF Next

\* The foreign key keeps the templates clients refer to.
LEMMA ReferencesStep == TypeOK /\ Handlers /\ NoDanglingReference /\ [Next]_vars => NoDanglingReference'
<1> SUFFICES ASSUME TypeOK, Handlers, NoDanglingReference, [Next]_vars PROVE NoDanglingReference'
  OBVIOUS
<1>1. ASSUME NEW r \in Requests, Arrival(r) PROVE NoDanglingReference'
  BY <1>1, Arrivals DEF NoDanglingReference
<1>2. ASSUME NEW r \in Requests, Step(r) \/ Fail(r) PROVE NoDanglingReference'
  <2>1. clients' = clients /\ clients \subseteq Ids /\ \A t \in Ids \ {target[r]} : db'[t] = db[t]
    BY <1>2, CallMoves DEF TypeOK
  <2>2. target[r] \in clients => db'[target[r]] # None
    <3>1. pc[r] = "update" => Overlay(held[r], given[r]) \in Template
      BY OverlayIsTemplate DEF Handlers, Path, TypeOK
    <3>2. db'[target[r]] \in Template \/ UNCHANGED db \/ target[r] \notin clients
      BY <1>2, <3>1, CallEffects
    <3>3. QED
      BY <3>2, NoneIsNothing DEF NoDanglingReference
  <2>3. QED
    BY <2>1, <2>2 DEF NoDanglingReference
<1>3. ASSUME NEW t \in Ids, LinkClient(t) \/ CacheExpires(t) PROVE NoDanglingReference'
  BY <1>3, Elsewhere DEF NoDanglingReference
<1>4. CASE UNCHANGED vars
  BY <1>4 DEF vars, NoDanglingReference
<1>5. QED
  BY <1>1, <1>2, <1>3, <1>4 DEF Next

\* What a call writes to PostgreSQL has a name of its own.
LEMMA Writes ==
    ASSUME TypeOK, Handlers, NEW r \in Requests, Step(r) \/ Fail(r)
    PROVE  \/ UNCHANGED db
           \/ db' = [db EXCEPT ![target[r]] = None] /\ pc[r] = "delete"
           \/ \E x \in Template : /\ db' = [db EXCEPT ![target[r]] = x] /\ NameFree(target[r], x)
                                  /\ pc[r] = "insert" \/ db[target[r]] # None
<1>a. pc[r] \in {"insert", "update"} =>
         target[r] \in Ids /\ Path(r) /\ given[r] \in Fields
         /\ (kind[r] = "create" => target[r] = r /\ given[r] \in Template)
  BY DEF Handlers, TypeOK
<1>1. CASE InsertRow(r)
  BY <1>1, <1>a DEF InsertRow, Path
<1>2. CASE UpdateRow(r)
  <2>1. Overlay(held[r], given[r]) \in Template
    BY <1>2, <1>a, OverlayIsTemplate DEF UpdateRow, Path
  <2>2. QED
    BY <1>2, <2>1 DEF UpdateRow
<1>3. CASE DeleteRow(r)
  BY <1>3 DEF DeleteRow
<1>4. CASE GetCached(r) \/ LoadRow(r) \/ SetCache(r) \/ CountClients(r) \/ Invalidate(r) \/ Fail(r)
  BY <1>4 DEF GetCached, LoadRow, SetCache, CountClients, Invalidate, Fail
<1>5. QED
  BY <1>1, <1>2, <1>3, <1>4 DEF Step

\* The unique index keeps names apart.
LEMMA NamesStep == TypeOK /\ Handlers /\ NamesAreUnique /\ [Next]_vars => NamesAreUnique'
<1> SUFFICES ASSUME TypeOK, Handlers, NamesAreUnique, [Next]_vars PROVE NamesAreUnique'
  OBVIOUS
<1>1. ASSUME UNCHANGED db PROVE NamesAreUnique'
  BY <1>1 DEF NamesAreUnique
<1>2. ASSUME NEW r \in Requests, Step(r) \/ Fail(r) PROVE NamesAreUnique'
  <2>1. target[r] \in Ids
    BY <1>2, CallMoves
  <2>2. CASE db' = [db EXCEPT ![target[r]] = None]
    BY <2>1, <2>2 DEF NamesAreUnique, TypeOK
  <2>3. ASSUME NEW x, db' = [db EXCEPT ![target[r]] = x], NameFree(target[r], x)
        PROVE  NamesAreUnique'
    BY <2>1, <2>3 DEF NamesAreUnique, NameFree, TypeOK
  <2>4. QED
    BY <1>1, <1>2, <2>2, <2>3, Writes
<1>3. QED
  BY <1>1, <1>2, Arrivals, Elsewhere DEF Next, vars

\* The only handler at work on a template leaves Redis with what PostgreSQL has.
LEMMA CourseStep ==
    TypeOK /\ Handlers /\ Births /\ Overlaps /\ OnCourse /\ UndisturbedCacheIsFresh /\ [Next]_vars
    => OnCourse' /\ UndisturbedCacheIsFresh'
<1> SUFFICES ASSUME TypeOK, Handlers, Births, Overlaps, OnCourse, UndisturbedCacheIsFresh, [Next]_vars
             PROVE  OnCourse' /\ UndisturbedCacheIsFresh'
  OBVIOUS
<1>1. ASSUME NEW r \in Requests, Arrival(r) PROVE OnCourse' /\ UndisturbedCacheIsFresh'
  <2>1. UNCHANGED <<db, cache, held, faulty>> /\ raced \subseteq raced'
    BY <1>1, Arrivals
  <2>2. ASSUME NEW t \in Ids, Running(t)' = {} PROVE Running(t) = {}
    BY <1>1, <2>2, Arrivals DEF Running, InFlight
  <2>3. UndisturbedCacheIsFresh'
    BY <2>1, <2>2 DEF UndisturbedCacheIsFresh, Fresh
  <2>4. ASSUME NEW s \in Requests \ {r}, pc'[s] \in InFlight, target'[s] \notin raced' \cup faulty'
        PROVE  Progress(s)'
    <3>1. Progress(s)
      BY <1>1, <2>1, <2>4, Arrivals DEF OnCourse
    <3>2. QED
      BY <1>1, <2>1, <3>1, Arrivals DEF Progress, Fresh
  <2>5. ASSUME target'[r] \notin raced' \cup faulty' PROVE Progress(r)'
    <3>1. target'[r] \in Ids /\ Running(target'[r]) = {} /\ target'[r] \notin raced \cup faulty
      BY <1>1, <2>1, <2>5, Arrivals
    <3>2. Fresh(target'[r])
      BY <3>1 DEF UndisturbedCacheIsFresh
    <3>3. pc'[r] = "insert" => db[target'[r]] = None
      <4>1. ASSUME pc'[r] = "insert" PROVE target'[r] = r /\ r \in Ids /\ kind[r] # "create" /\ r # Seed
        BY <1>1, <4>1, Arrivals, TemplateConstants DEF Handlers, Ids
      <4>2. QED
        BY <4>1 DEF Births, Known
    <3>4. pc'[r] \notin {"set", "update"}
      BY <1>1, Arrivals
    <3>5. QED
      BY <2>1, <3>2, <3>3, <3>4 DEF Progress, Fresh
  <2>6. QED
    BY <2>3, <2>4, <2>5 DEF OnCourse
<1>2. ASSUME NEW r \in Requests, Step(r) \/ Fail(r) PROVE OnCourse' /\ UndisturbedCacheIsFresh'
  <2> DEFINE d == target[r]
  <2>a. /\ d \in Ids /\ pc[r] \in InFlight /\ UNCHANGED <<kind, target, raced>>
        /\ faulty' \in {faulty, faulty \cup {d}} /\ pc'[r] \in InFlight \cup Answered
        /\ \A s \in Requests \ {r} : pc'[s] = pc[s] /\ held'[s] = held[s]
        /\ \A t \in Ids \ {d} : db'[t] = db[t] /\ cache'[t] = cache[t]
    BY <1>2, CallMoves
  <2>1. ASSUME d \notin raced' \cup faulty'
        PROVE  /\ pc'[r] \in InFlight => Progress(r)'
               /\ pc'[r] \in Answered => Fresh(d)'
    <3>a. Progress(r) /\ d \notin faulty'
      BY <2>1, <2>a DEF OnCourse
    <3> HIDE <2>1
    <3>b. CASE pc[r] = "insert"
      BY <1>2, <2>a, <3>a, <3>b, CallEffects DEF Progress, Fresh, InFlight, Answered
    <3>c. CASE pc[r] \in {"get", "load", "set"}
      BY <1>2, <2>a, <3>a, <3>c, CallEffects DEF Progress, Fresh, InFlight, Answered, AfterGet
    <3>d. CASE pc[r] \in {"update", "count", "delete", "invalidate"}
      BY <1>2, <2>a, <3>a, <3>d, CallEffects DEF Progress, Fresh, InFlight, Answered
    <3>e. QED
      BY <2>a, <3>b, <3>c, <3>d DEF InFlight
  <2>2. ASSUME NEW s \in Requests \ {r}, pc'[s] \in InFlight, target'[s] \notin raced' \cup faulty'
        PROVE  Progress(s)'
    <3>1. Progress(s)
      BY <2>2, <2>a DEF OnCourse
    <3>2. target[s] # d /\ target[s] \in Ids
      BY <2>2, <2>a DEF Overlaps, Handlers, InFlight
    <3>3. QED
      BY <2>a, <3>1, <3>2 DEF Progress, Fresh
  <2>3. OnCourse'
    BY <2>1, <2>2, <2>a DEF OnCourse
  <2>4. ASSUME NEW t \in Ids, t \notin raced' \cup faulty', Running(t)' = {} PROVE Fresh(t)'
    <3>1. CASE t = d
      <4>1. pc'[r] \notin InFlight
        BY <2>4, <2>a, <3>1 DEF Running
      <4>2. QED
        BY <2>1, <2>4, <2>a, <3>1, <4>1
    <3>2. CASE t # d
      <4>1. Running(t) = {}
        BY <2>4, <2>a, <3>2 DEF Running
      <4>2. Fresh(t)
        BY <2>4, <2>a, <4>1 DEF UndisturbedCacheIsFresh
      <4>3. QED
        BY <2>a, <3>2, <4>2 DEF Fresh
    <3>3. QED
      BY <3>1, <3>2
  <2>5. QED
    BY <2>3, <2>4 DEF UndisturbedCacheIsFresh
<1>3. ASSUME NEW u \in Ids, LinkClient(u) \/ CacheExpires(u) PROVE OnCourse' /\ UndisturbedCacheIsFresh'
  <2>1. \A t \in Ids : Fresh(t) => Fresh(t)'
    BY <1>3, Elsewhere DEF Fresh, TypeOK
  <2>2. OnCourse'
    <3> SUFFICES ASSUME NEW s \in Requests, pc'[s] \in InFlight, target'[s] \notin raced' \cup faulty'
                 PROVE  Progress(s)'
      BY DEF OnCourse
    <3>1. Progress(s) /\ target[s] \in Ids
      BY <1>3, Elsewhere DEF OnCourse, Handlers, InFlight
    <3>2. QED
      BY <1>3, <2>1, <3>1, Elsewhere DEF Progress
  <2>3. UndisturbedCacheIsFresh'
    BY <1>3, <2>1, Elsewhere DEF UndisturbedCacheIsFresh, Running
  <2>4. QED
    BY <2>2, <2>3
<1>4. CASE UNCHANGED vars
  BY <1>4 DEF vars, locals, OnCourse, Progress, Fresh, UndisturbedCacheIsFresh, Running
<1>5. QED
  BY <1>1, <1>2, <1>3, <1>4 DEF Next

LEMMA IInvInit == Init => IInv
<1> SUFFICES ASSUME Init PROVE IInv
  OBVIOUS
<1>1. TypeOK
  BY TypeInit
<1>2. Handlers
  BY NoneIsNothing DEF Init, Handlers
<1>3. Births
  BY DEF Init, Births, Known
<1>4. Overlaps /\ OnCourse
  BY DEF Init, Overlaps, OnCourse, InFlight
<1>5. UndisturbedCacheIsFresh /\ NoDanglingReference /\ NamesAreUnique
  BY DEF Init, UndisturbedCacheIsFresh, Fresh, NoDanglingReference, NamesAreUnique
<1>6. QED
  BY <1>1, <1>2, <1>3, <1>4, <1>5 DEF IInv

LEMMA IInvStep == IInv /\ [Next]_vars => IInv'
BY TypeStep, HandlersStep, BirthsStep, OverlapsStep, CourseStep, ReferencesStep, NamesStep DEF IInv

\* The inductive invariant: what each handler of the templates has done so far,
\* and what PostgreSQL and Redis hold meanwhile.
THEOREM Invariance == Spec => []IInv
BY IInvInit, IInvStep, PTL DEF Spec

\* Every variable keeps its type, for any requests, names and contents; what is
\* stored is a whole template.
THEOREM TypeCorrect == Spec => []TypeOK
<1>1. IInv => TypeOK
  BY DEF IInv
<1>2. QED
  BY <1>1, Invariance, PTL

\* Redis has nothing but the template of PostgreSQL once no handler is at work
\* on it, unless two handlers overlapped on it or a call of theirs failed.
THEOREM FreshnessSafety == Spec => []UndisturbedCacheIsFresh
<1>1. IInv => UndisturbedCacheIsFresh
  BY DEF IInv
<1>2. QED
  BY <1>1, Invariance, PTL

\* A template that a client refers to is never deleted, although Delete counts
\* and deletes in two statements.
THEOREM ReferenceSafety == Spec => []NoDanglingReference
<1>1. IInv => NoDanglingReference
  BY DEF IInv
<1>2. QED
  BY <1>1, Invariance, PTL

\* An undisturbed update writes the row as it is with the fields it was given.
LEMMA UpdatesOverlay ==
    ASSUME IInv, [Next]_vars, NEW r \in Requests, pc[r] = "update", pc'[r] # "update",
           target[r] \notin raced \cup faulty
    PROVE  db'[target[r]] \in {None, Overlay(db[target[r]], given[r]), db[target[r]]}
<1> USE DEF IInv
<1>a. held[r] = db[target[r]]
  BY DEF OnCourse, Progress, InFlight
<1>1. ASSUME NEW s \in Requests, Arrival(s)
      PROVE  db'[target[r]] \in {None, Overlay(db[target[r]], given[r]), db[target[r]]}
  BY <1>1, Arrivals
<1>2. ASSUME NEW s \in Requests, Step(s) \/ Fail(s)
      PROVE  db'[target[r]] \in {None, Overlay(db[target[r]], given[r]), db[target[r]]}
  <2>1. s = r
    BY <1>2, CallMoves
  <2>2. QED
    BY <1>2, <1>a, <2>1, CallEffects
<1>3. ASSUME NEW t \in Ids, LinkClient(t) \/ CacheExpires(t)
      PROVE  db'[target[r]] \in {None, Overlay(db[target[r]], given[r]), db[target[r]]}
  BY <1>3, Elsewhere
<1>4. QED
  BY <1>1, <1>2, <1>3 DEF Next, vars

\* A field that a PUT did not name changes only if handlers overlapped on the
\* template or a call failed.
THEOREM UpdateSafety == Spec => LostUpdateNeedsOverlap
<1>1. IInv /\ [Next]_vars =>
        [\A r \in Requests : LET t == target[r] IN
            /\ pc[r] = "update" /\ pc'[r] # "update"
            /\ db[t] # None /\ db'[t] \notin {None, Overlay(db[t], given[r]), db[t]}
            => t \in raced \cup faulty]_vars
  BY UpdatesOverlay
<1>2. QED
  BY <1>1, Invariance, PTL DEF Spec, LostUpdateNeedsOverlap

\* Two templates never have one name.
THEOREM NameSafety == Spec => []NamesAreUnique
<1>1. IInv => NamesAreUnique
  BY DEF IInv
<1>2. QED
  BY <1>1, Invariance, PTL

\* No update that races a delete writes the template back.
THEOREM DeletionSafety == Spec => DeletedTemplatesStayDeleted
<1> DEFINE A == \A t \in Ids : db[t] = None /\ (t \in Requests => pc[t] \notin {"idle", "insert"})
                  => db'[t] = None
<1>1. IInv /\ [Next]_vars => [A]_vars
  <2> SUFFICES ASSUME IInv, Next, NEW t \in Ids, db[t] = None,
                      t \in Requests => pc[t] \notin {"idle", "insert"}
               PROVE  db'[t] = None
    BY DEF vars
  <2> USE DEF IInv
  <2>1. ASSUME NEW r \in Requests, Step(r) \/ Fail(r) PROVE db'[t] = None
    <3>1. target[r] \in Ids /\ (pc[r] = "insert" => target[r] = r)
      BY <2>1, CallMoves DEF Handlers, Path
    <3>2. QED
      BY <2>1, <3>1, Writes DEF TypeOK
  <2>2. QED
    BY <2>1, Arrivals, Elsewhere DEF Next
<1>2. QED
  BY <1>1, Invariance, PTL DEF Spec, DeletedTemplatesStayDeleted
=============================================================================
