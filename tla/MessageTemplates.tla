-------------------------- MODULE MessageTemplates --------------------------
(***************************************************************************)
(* The sign-in message templates: MessageTemplateService keeps them in     *)
(* PostgreSQL and caches them in Redis for an hour, invalidating on every  *)
(* write.  Each step is one call to a store.  PUT reads the template       *)
(* through the cache, overlays the fields it was given and writes all.     *)
(*                                                                         *)
(* A template is its name and its content (statement, domain, URI, ...);   *)
(* one created at run time is named by the request that created it.        *)
(***************************************************************************)
EXTENDS FiniteSets

CONSTANTS
    Requests,   \* the HTTP requests the backend serves
    Seed,       \* the template inserted by migration 000004
    Names,      \* template names
    Default,    \* the name of the seeded template, "default"
    Contents,   \* everything else in a template
    Seeded,     \* the content of the seeded template
    Bodies,     \* the fields the callers of PUT send
    Kinds,      \* the operations the callers of this instance use
    None        \* an absent value (no row, redis.Nil, an empty JSON field)

\* The fields of a PUT body; None for one left out.
Fields == [name: Names \cup {None}, content: Contents \cup {None}]
NoFields == [name |-> None, content |-> None]

ASSUME TemplateConstants ==
    /\ Bodies \subseteq Fields
    /\ Default \in Names /\ Seeded \in Contents
    /\ Seed \notin Requests
    /\ None \notin Names \cup Contents \cup Requests \cup {Seed}

Ids == Requests \cup {Seed}
Template == [name: Names, content: Contents]

ASSUME NoneIsNothing == None \notin Template \cup {"create", "get", "update", "delete"}

VARIABLES
    db,         \* PostgreSQL: message_templates
    clients,    \* PostgreSQL: ids that app_clients.message_template_id refers to
    cache,      \* Redis: msg_tmpl:<id>
    pc,         \* the next call of each handler, or its answer
    kind,       \* the operation a handler runs
    target,     \* the template it runs on
    given,      \* the fields of the request body
    held,       \* the template it holds in memory
    raced,      \* history: templates on which two handlers overlapped
    faulty      \* history: templates a call of whose handlers failed

locals == <<kind, target, given, held>>
vars   == <<db, clients, cache, pc, locals, raced, faulty>>

InFlight == {"insert", "get", "load", "set", "update", "count", "delete", "invalidate"}
Answered == {"ok", "rejected", "failed"}

TypeOK ==
    /\ db \in [Ids -> Template \cup {None}]
    /\ clients \subseteq Ids
    /\ cache \in [Ids -> Template \cup {None}]
    /\ pc \in [Requests -> {"idle"} \cup InFlight \cup Answered]
    /\ kind \in [Requests -> Kinds \cup {None}]
    /\ target \in [Requests -> Ids \cup {None}]
    /\ given \in [Requests -> Fields]
    /\ held \in [Requests -> Template \cup {None}]
    /\ raced \subseteq Ids
    /\ faulty \subseteq Ids

Init ==
    /\ db = [t \in Ids |-> IF t = Seed THEN [name |-> Default, content |-> Seeded] ELSE None]
    /\ clients = {}
    /\ cache = [t \in Ids |-> None]
    /\ pc = [r \in Requests |-> "idle"]
    /\ kind = [r \in Requests |-> None]
    /\ target = [r \in Requests |-> None]
    /\ given = [r \in Requests |-> NoFields]
    /\ held = [r \in Requests |-> None]
    /\ raced = {} /\ faulty = {}

-----------------------------------------------------------------------------
\* The handlers at work on a template.
Running(t) == {r \in Requests : target[r] = t /\ pc[r] \in InFlight}

Goto(r, p) == pc' = [pc EXCEPT ![r] = p] /\ UNCHANGED <<raced, faulty>>

\* A call failed, or its reply was lost, and the handler went on to p.
Stumble(r, p) ==
    /\ pc' = [pc EXCEPT ![r] = p]
    /\ faulty' = faulty \cup {target[r]}
    /\ UNCHANGED raced

\* A call took effect: the handler goes on to p, or the reply was lost.
Reply(r, p) == Goto(r, p) \/ Stumble(r, "failed")

\* message_templates.name is UNIQUE.
NameFree(t, x) == \A u \in Ids \ {t} : db[u] # None => db[u].name # x.name

\* Fields of the body that are absent leave the template's own.  (Variant: PUT
\* replaces the template.)
Replacement(x, f) == f
Overlay(x, f) ==
    [name    |-> IF f.name = None THEN x.name ELSE f.name,
     content |-> IF f.content = None THEN x.content ELSE f.content]

Arrive(r, k, t, f, p) ==
    /\ pc[r] = "idle"
    /\ k \in Kinds
    /\ kind' = [kind EXCEPT ![r] = k]
    /\ target' = [target EXCEPT ![r] = t]
    /\ given' = [given EXCEPT ![r] = f]
    /\ pc' = [pc EXCEPT ![r] = p]
    /\ raced' = IF Running(t) = {} THEN raced ELSE raced \cup {t}
    /\ UNCHANGED <<db, clients, cache, held, faulty>>

\* A caller names a template it has seen: the seeded one, or one created since.
Known(t) == t \in {Seed} \cup {r \in Requests : kind[r] = "create"}

\* POST, GET, PUT and DELETE under /admin/message-templates.
ArriveCreate(r, x)    == Arrive(r, "create", r, x, "insert")
ArriveGet(r, t)       == Known(t) /\ Arrive(r, "get", t, NoFields, "get")
ArriveUpdate(r, t, f) == Known(t) /\ Arrive(r, "update", t, f, "get")
ArriveDelete(r, t)    == Known(t) /\ Arrive(r, "delete", t, NoFields, "count")

\* No handler writes app_clients.message_template_id; an operator's SQL does,
\* and the foreign key holds it to templates that exist.
LinkClient(t) ==
    /\ db[t] # None
    /\ clients' = clients \cup {t}
    /\ UNCHANGED <<db, cache, pc, locals, raced, faulty>>

\* Redis drops an entry an hour after it was set.
CacheExpires(t) ==
    /\ cache[t] # None
    /\ cache' = [cache EXCEPT ![t] = None]
    /\ UNCHANGED <<db, clients, pc, locals, raced, faulty>>

InsertRow(r) ==
    /\ pc[r] = "insert"
    /\ \/ /\ NameFree(r, given[r])
          /\ db' = [db EXCEPT ![r] = given[r]]
          /\ Reply(r, "ok")
       \/ /\ ~NameFree(r, given[r])
          /\ Goto(r, "failed")
          /\ UNCHANGED db
    /\ UNCHANGED <<clients, cache, locals>>

\* Where a handler goes with the template Get returned.
AfterGet(r) == IF kind[r] = "update" THEN "update" ELSE "ok"

\* A Redis error counts as a miss.
GetCached(r) ==
    /\ pc[r] = "get"
    /\ \/ /\ cache[target[r]] # None
          /\ held' = [held EXCEPT ![r] = cache[target[r]]]
          /\ Goto(r, AfterGet(r))
       \/ /\ cache[target[r]] = None
          /\ Goto(r, "load")
          /\ UNCHANGED held
       \/ /\ Stumble(r, "load")
          /\ UNCHANGED held
    /\ UNCHANGED <<db, clients, cache, kind, target, given>>

LoadRow(r) ==
    /\ pc[r] = "load"
    /\ held' = [held EXCEPT ![r] = db[target[r]]]
    /\ Goto(r, IF db[target[r]] = None THEN "rejected" ELSE "set")
    /\ UNCHANGED <<db, clients, cache, kind, target, given>>

\* A failing SET is logged.
SetCache(r) ==
    /\ pc[r] = "set"
    /\ \/ cache' = [cache EXCEPT ![target[r]] = held[r]] /\ Goto(r, AfterGet(r))
       \/ cache' \in {cache, [cache EXCEPT ![target[r]] = held[r]]} /\ Stumble(r, AfterGet(r))
    /\ UNCHANGED <<db, clients, locals>>

\* The template read earlier with the new fields, all of them written.
UpdateRow(r) ==
    LET t == target[r]
        x == Overlay(held[r], given[r])
    IN  /\ pc[r] = "update"
        /\ held' = [held EXCEPT ![r] = x]
        /\ \/ /\ db[t] # None /\ NameFree(t, x)
              /\ db' = [db EXCEPT ![t] = x]
              /\ Reply(r, "invalidate")
           \/ /\ db[t] = None \/ ~NameFree(t, x)
              /\ Goto(r, "failed")
              /\ UNCHANGED db
        /\ UNCHANGED <<clients, cache, kind, target, given>>

CountClients(r) ==
    /\ pc[r] = "count"
    /\ Goto(r, IF target[r] \in clients THEN "failed" ELSE "delete")
    /\ UNCHANGED <<db, clients, cache, locals>>

\* The foreign key of app_clients refuses to lose its template.  (Variant:
\* without the key, the count alone protecting the template.)
NoKey(t)     == TRUE
MayDelete(t) == t \notin clients

DeleteRow(r) ==
    /\ pc[r] = "delete"
    /\ \/ /\ MayDelete(target[r])
          /\ db' = [db EXCEPT ![target[r]] = None]
          /\ Reply(r, "invalidate")
       \/ /\ ~MayDelete(target[r])
          /\ Goto(r, "failed")
          /\ UNCHANGED db
    /\ UNCHANGED <<clients, cache, locals>>

\* Variant: the entry left to expire.
KeepCache(r) ==
    /\ pc[r] = "invalidate"
    /\ Goto(r, "ok")
    /\ UNCHANGED <<db, clients, cache, locals>>

\* A failing DEL is logged.
Invalidate(r) ==
    /\ pc[r] = "invalidate"
    /\ \/ cache' = [cache EXCEPT ![target[r]] = None] /\ Goto(r, "ok")
       \/ UNCHANGED cache /\ Stumble(r, "ok")
    /\ UNCHANGED <<db, clients, locals>>

\* A call fails before it takes effect, the client goes away, or the pod dies.
Fail(r) ==
    /\ pc[r] \in InFlight
    /\ Stumble(r, "failed")
    /\ UNCHANGED <<db, clients, cache, locals>>

-----------------------------------------------------------------------------
Step(r) ==
    \/ InsertRow(r) \/ GetCached(r) \/ LoadRow(r) \/ SetCache(r)
    \/ UpdateRow(r) \/ CountClients(r) \/ DeleteRow(r) \/ Invalidate(r)

Arrival(r) ==
    \/ \E x \in Template : ArriveCreate(r, x)
    \/ \E t \in Ids : ArriveGet(r, t) \/ ArriveDelete(r, t)
    \/ \E t \in Ids, f \in Bodies : ArriveUpdate(r, t, f)

Next ==
    \/ \E t \in Ids : LinkClient(t) \/ CacheExpires(t)
    \/ \E r \in Requests : Arrival(r) \/ Step(r) \/ Fail(r)

Spec == Init /\ [][Next]_vars

-----------------------------------------------------------------------------
(* Properties.                                                             *)

Fresh(t) == cache[t] \in {None, db[t]}

\* Redis never serves an old template once the handlers are done, unless two of
\* them overlapped on it or a call failed: every path of Update and Delete that
\* changed the row also dropped the entry, and Get fills it from the row.
UndisturbedCacheIsFresh ==
    \A t \in Ids \ (raced \cup faulty) : Running(t) = {} => Fresh(t)

\* A template an app client refers to is not deleted, although Delete counts
\* the references in one statement and deletes in another.
NoDanglingReference == \A t \in clients : db[t] # None

\* UpdateTemplate writes every field of a template it read before, perhaps from
\* the cache.  A field the request did not name changes only if handlers
\* overlapped on this template, now or when the cache was filled, or a call failed.
LostUpdateNeedsOverlap ==
    [][\A r \in Requests : LET t == target[r] IN
          /\ pc[r] = "update" /\ pc'[r] # "update"
          /\ db[t] # None /\ db'[t] \notin {None, Overlay(db[t], given[r]), db[t]}
          => t \in raced \cup faulty]_vars

\* No two templates have one name, although an update writes back the name it
\* read before, when another template may have taken it meanwhile.
NamesAreUnique ==
    \A t, u \in Ids : db[t] # None /\ db[u] # None /\ db[t].name = db[u].name => t = u

\* A template that was deleted, the seeded one included, is not written back by
\* an update that read it before.
DeletedTemplatesStayDeleted ==
    [][\A t \in Ids : db[t] = None /\ (t \in Requests => pc[t] \notin {"idle", "insert"})
          => db'[t] = None]_vars

-----------------------------------------------------------------------------
(* Why they hold: an inductive invariant.                                  *)

\* The kinds of handler that reach each call, and what they hold there.
Path(r) ==
    /\ pc[r] = "insert" => kind[r] = "create"
    /\ pc[r] \in {"get", "load"} => kind[r] \in {"get", "update"}
    /\ pc[r] = "set" => kind[r] \in {"get", "update"} /\ held[r] \in Template
    /\ pc[r] = "update" => kind[r] = "update" /\ held[r] \in Template
    /\ pc[r] \in {"count", "delete"} => kind[r] = "delete"
    /\ pc[r] = "invalidate" => kind[r] \in {"update", "delete"}

Handlers ==
    \A r \in Requests :
        /\ pc[r] = "idle" => kind[r] # "create"
        /\ pc[r] # "idle" =>
              /\ target[r] \in Ids
              /\ Path(r)
              /\ IF kind[r] = "create" THEN target[r] = r /\ given[r] \in Template
                 ELSE Known(target[r])

\* Nothing is stored for a template before its creation.
Births == \A t \in Ids : ~Known(t) => db[t] = None /\ cache[t] = None

Overlaps ==
    \A r, s \in Requests :
        r # s /\ {pc[r], pc[s]} \subseteq InFlight /\ target[r] = target[s] => target[r] \in raced

\* How far the only handler at work on a template has brought it.
Progress(r) ==
    /\ pc[r] \in InFlight \ {"invalidate"} => Fresh(target[r])
    /\ pc[r] = "insert" => db[target[r]] = None
    /\ pc[r] \in {"set", "update"} => held[r] = db[target[r]]

OnCourse ==
    \A r \in Requests :
        pc[r] \in InFlight /\ target[r] \notin raced \cup faulty => Progress(r)

IInv ==
    /\ TypeOK
    /\ Handlers
    /\ Births
    /\ Overlaps
    /\ OnCourse
    /\ UndisturbedCacheIsFresh
    /\ NoDanglingReference
    /\ NamesAreUnique
=============================================================================
