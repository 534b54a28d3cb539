----------------------------- MODULE AppClients -----------------------------
(***************************************************************************)
(* The registry of OAuth2 clients: AppClientService keeps one client in    *)
(* three stores, PostgreSQL, Ory Hydra and Redis, with one call after the  *)
(* other and no transaction across them, while HandleLogin reads the Redis *)
(* copy and fills it on a miss.                                            *)
(*                                                                         *)
(* A request is served once and a client is named by the request that      *)
(* created it (uuid.New() and Hydra's client_id together).                 *)
(***************************************************************************)
CONSTANTS
    Requests,   \* the HTTP requests the backend serves
    Configs,    \* what an administrator can ask of a client
    Origins,    \* web origins
    OriginsOf,  \* the allowed_cors_origins of a configuration
    Kinds,      \* the operations the callers of this instance use
    None        \* an absent value (no row, Hydra 404, redis.Nil)

ASSUME ConfigsHaveOrigins ==
    /\ OriginsOf \in [Configs -> SUBSET Origins]
    /\ None \notin Configs \cup Requests

Clients == Requests

VARIABLES
    db,         \* PostgreSQL: app_clients
    hydra,      \* Hydra: the OAuth2 client's settings
    cache,      \* Redis: <prefix>:client:<id>:config, kept without a TTL
    cors,       \* Redis: the set <prefix>:cors:origins
    pc,         \* the next call of each handler, or its answer
    kind,       \* the operation a handler runs
    target,     \* the client it runs on
    held,       \* the configuration it holds in memory
    stored,     \* history: configurations PostgreSQL ever held for a client
    raced,      \* history: clients on which two handlers overlapped
    faulty      \* history: clients a call of whose handlers failed

stores == <<db, hydra, cache, cors>>
locals == <<kind, target, held>>
vars   == <<stores, pc, locals, stored, raced, faulty>>

InFlight == {"provision", "insert", "rollback", "read", "update", "put", "set", "sadd",
             "deleteRow", "deleteHydra", "delConfig", "delOrigins", "get", "load"}
Answered == {"ok", "rejected", "failed"}

TypeOK ==
    /\ db \in [Clients -> Configs \cup {None}]
    /\ hydra \in [Clients -> Configs \cup {None}]
    /\ cache \in [Clients -> Configs \cup {None}]
    /\ cors \subseteq Origins
    /\ pc \in [Requests -> {"idle"} \cup InFlight \cup Answered]
    /\ kind \in [Requests -> Kinds \cup {None}]
    /\ target \in [Requests -> Clients \cup {None}]
    /\ held \in [Requests -> Configs \cup {None}]
    /\ stored \in [Clients -> SUBSET Configs]
    /\ raced \subseteq Clients
    /\ faulty \subseteq Clients

Init ==
    /\ db = [c \in Clients |-> None]
    /\ hydra = [c \in Clients |-> None]
    /\ cache = [c \in Clients |-> None]
    /\ cors = {}
    /\ pc = [r \in Requests |-> "idle"]
    /\ kind = [r \in Requests |-> None]
    /\ target = [r \in Requests |-> None]
    /\ held = [r \in Requests |-> None]
    /\ stored = [c \in Clients |-> {}]
    /\ raced = {} /\ faulty = {}

-----------------------------------------------------------------------------
\* The handlers at work on a client.
Running(c) == {r \in Requests : target[r] = c /\ pc[r] \in InFlight}

Goto(r, p) == pc' = [pc EXCEPT ![r] = p] /\ UNCHANGED <<raced, faulty>>

\* A call failed, or its reply was lost, and the handler went on to p.
Stumble(r, p) ==
    /\ pc' = [pc EXCEPT ![r] = p]
    /\ faulty' = faulty \cup {target[r]}
    /\ UNCHANGED raced

\* A call took effect: the handler goes on to p, or the reply was lost.
Reply(r, p) == Goto(r, p) \/ Stumble(r, "failed")

Store(c, x) ==
    /\ db' = [db EXCEPT ![c] = x]
    /\ stored' = [stored EXCEPT ![c] = @ \cup ({x} \ {None})]

Arrive(r, k, c, x, p) ==
    /\ pc[r] = "idle"
    /\ k \in Kinds
    /\ kind' = [kind EXCEPT ![r] = k]
    /\ target' = [target EXCEPT ![r] = c]
    /\ held' = [held EXCEPT ![r] = x]
    /\ pc' = [pc EXCEPT ![r] = p]
    /\ raced' = IF Running(c) = {} THEN raced ELSE raced \cup {c}
    /\ UNCHANGED <<stores, stored, faulty>>

\* POST /admin/clients: provision in Hydra, insert the row, fill the cache.
ArriveCreate(r, x) == Arrive(r, "create", r, x, "provision")

\* An administrator or Hydra names a client that was created at some time.
Known(c) == stored[c] # {}

\* PUT, DELETE /admin/clients/:id and the client lookup of GET /oauth2/login.
ArriveUpdate(r, c, x) == Known(c) /\ Arrive(r, "update", c, x, "read")
ArriveDelete(r, c)    == Known(c) /\ Arrive(r, "delete", c, None, "read")
ArriveLookup(r, c)    == Known(c) /\ Arrive(r, "lookup", c, None, "get")

-----------------------------------------------------------------------------
(* CreateClient.                                                           *)

ProvisionHydra(r) ==
    /\ pc[r] = "provision"
    /\ hydra' = [hydra EXCEPT ![r] = held[r]]
    /\ Reply(r, "insert")
    /\ UNCHANGED <<db, cache, cors, locals, stored>>

\* The insert succeeds, or its error sends the handler to the rollback,
\* although the row may have been committed.
InsertRow(r) ==
    /\ pc[r] = "insert"
    /\ \/ Store(r, held[r]) /\ (Goto(r, "set") \/ Stumble(r, "rollback"))
       \/ Stumble(r, "rollback") /\ UNCHANGED <<db, stored>>
    /\ UNCHANGED <<hydra, cache, cors, locals>>

\* "fire and forget fallback": the deletion in Hydra may fail unnoticed.
RollBackHydra(r) ==
    /\ pc[r] = "rollback"
    /\ hydra' \in {hydra, [hydra EXCEPT ![r] = None]}
    /\ Goto(r, "failed")
    /\ UNCHANGED <<db, cache, cors, locals, stored>>

-----------------------------------------------------------------------------
(* UpdateClient and DeleteClient start by reading the row.                 *)

ReadRow(r) ==
    /\ pc[r] = "read"
    /\ \/ db[target[r]] # None /\ Goto(r, IF kind[r] = "update" THEN "update" ELSE "deleteRow")
       \/ db[target[r]] = None /\ Goto(r, IF kind[r] = "update" THEN "rejected" ELSE "ok")
    /\ UNCHANGED <<stores, locals, stored>>

\* Variant: the row left to the end, after Hydra and Redis.
SkipRow(r) ==
    /\ pc[r] = "update"
    /\ Goto(r, "put")
    /\ UNCHANGED <<stores, locals, stored>>

\* UPDATE ... RETURNING: no row left is an error.
UpdateRow(r) ==
    /\ pc[r] = "update"
    /\ \/ /\ db[target[r]] # None
          /\ Store(target[r], held[r])
          /\ Reply(r, "put")
       \/ /\ db[target[r]] = None
          /\ Goto(r, "failed")
          /\ UNCHANGED <<db, stored>>
    /\ UNCHANGED <<hydra, cache, cors, locals>>

\* Variant: a PUT that creates what is not there.
Upsert(r) ==
    /\ hydra' = [hydra EXCEPT ![target[r]] = held[r]]
    /\ Reply(r, "set")

\* Hydra replaces a client that exists and answers 404 for one that does not.
Replace(r) ==
    \/ /\ hydra[target[r]] # None
       /\ hydra' = [hydra EXCEPT ![target[r]] = held[r]]
       /\ Reply(r, "set")
    \/ /\ hydra[target[r]] = None
       /\ Goto(r, "failed")
       /\ UNCHANGED hydra

PutHydra(r) ==
    /\ pc[r] = "put"
    /\ Replace(r)
    /\ UNCHANGED <<db, cache, cors, locals, stored>>

\* Variant: a failed DELETE logged like those after it.
DeleteRowAnyway(r) ==
    /\ pc[r] = "deleteRow"
    /\ \/ Store(target[r], None) /\ Goto(r, "deleteHydra")
       \/ UNCHANGED <<db, stored>> /\ Stumble(r, "deleteHydra")
    /\ UNCHANGED <<hydra, cache, cors, locals>>

DeleteRow(r) ==
    /\ pc[r] = "deleteRow"
    /\ Store(target[r], None)
    /\ Reply(r, "deleteHydra")
    /\ UNCHANGED <<hydra, cache, cors, locals>>

\* "Log error but continue".
DeleteHydra(r) ==
    /\ pc[r] = "deleteHydra"
    /\ \/ hydra' = [hydra EXCEPT ![target[r]] = None] /\ Goto(r, "delConfig")
       \/ hydra' \in {hydra, [hydra EXCEPT ![target[r]] = None]} /\ Stumble(r, "delConfig")
    /\ UNCHANGED <<db, cache, cors, locals, stored>>

\* Variant: the cached configuration forgotten.
KeepConfig(r) ==
    /\ pc[r] = "delConfig"
    /\ Goto(r, "delOrigins")
    /\ UNCHANGED <<stores, locals, stored>>

\* The results of both DELs are ignored.
DelConfig(r) ==
    /\ pc[r] = "delConfig"
    /\ \/ cache' = [cache EXCEPT ![target[r]] = None] /\ Goto(r, "delOrigins")
       \/ UNCHANGED cache /\ Stumble(r, "delOrigins")
    /\ UNCHANGED <<db, hydra, cors, locals, stored>>

\* DEL of the whole set, the origins of every other client included.
DelOrigins(r) ==
    /\ pc[r] = "delOrigins"
    /\ \/ cors' = {} /\ Goto(r, "ok")
       \/ UNCHANGED cors /\ Stumble(r, "ok")
    /\ UNCHANGED <<db, hydra, cache, locals, stored>>

-----------------------------------------------------------------------------
(* GetCachedClient and SyncToCache.                                        *)

GetConfig(r) ==
    /\ pc[r] = "get"
    /\ held' = [held EXCEPT ![r] = cache[target[r]]]
    /\ Goto(r, IF cache[target[r]] = None THEN "load" ELSE "ok")
    /\ UNCHANGED <<stores, kind, target, stored>>

LoadRow(r) ==
    /\ pc[r] = "load"
    /\ held' = [held EXCEPT ![r] = db[target[r]]]
    /\ Goto(r, IF db[target[r]] = None THEN "ok" ELSE "set")
    /\ UNCHANGED <<stores, kind, target, stored>>

\* Variant: an outcome no handler expects.
SyncRetried(r) == Stumble(r, "retry")

\* An error of SyncToCache is the administrator's 500 and nothing to a lookup.
SyncFailed(r) == Stumble(r, IF kind[r] = "lookup" THEN "ok" ELSE "failed")

SetConfig(r) ==
    /\ pc[r] = "set"
    /\ \/ cache' = [cache EXCEPT ![target[r]] = held[r]] /\ (Goto(r, "sadd") \/ SyncFailed(r))
       \/ UNCHANGED cache /\ SyncFailed(r)
    /\ UNCHANGED <<db, hydra, cors, locals, stored>>

\* SADD adds and never removes.
AddOrigins(r) ==
    /\ pc[r] = "sadd"
    /\ \/ cors' = cors \cup OriginsOf[held[r]] /\ (Goto(r, "ok") \/ SyncFailed(r))
       \/ UNCHANGED cors /\ SyncFailed(r)
    /\ UNCHANGED <<db, hydra, cache, locals, stored>>

\* A call fails before it takes effect, the client goes away, or the pod dies.
\* (An insert that fails goes to the rollback instead, unless the pod dies.)
Fail(r) ==
    /\ pc[r] \in InFlight
    /\ Stumble(r, "failed")
    /\ UNCHANGED <<stores, locals, stored>>

-----------------------------------------------------------------------------
Step(r) ==
    \/ ProvisionHydra(r) \/ InsertRow(r) \/ RollBackHydra(r)
    \/ ReadRow(r) \/ UpdateRow(r) \/ PutHydra(r)
    \/ DeleteRow(r) \/ DeleteHydra(r) \/ DelConfig(r) \/ DelOrigins(r)
    \/ GetConfig(r) \/ LoadRow(r) \/ SetConfig(r) \/ AddOrigins(r)

Arrival(r) ==
    \/ \E x \in Configs : ArriveCreate(r, x)
    \/ \E c \in Clients, x \in Configs : ArriveUpdate(r, c, x)
    \/ \E c \in Clients : ArriveDelete(r, c) \/ ArriveLookup(r, c)

Next == \E r \in Requests : Arrival(r) \/ Step(r) \/ Fail(r)

Spec == Init /\ [][Next]_vars

\* net/http runs every accepted request in a goroutine of its own until it
\* answers, and every outgoing call returns or times out.
FairSpec == Spec /\ \A r \in Requests : WF_vars(Step(r))

-----------------------------------------------------------------------------
(* Properties.                                                             *)

AtRest(c) == Running(c) = {}

\* Whatever three stores are left with after a sequence of creates, updates,
\* deletes and logins, they agree as soon as no handler is at work, unless two
\* handlers overlapped on this client or a call failed: the order of calls in
\* each operation, and every early return, leaves nothing behind.
UndisturbedStoresAgree ==
    \A c \in Clients \ (raced \cup faulty) : AtRest(c) =>
        hydra[c] = db[c] /\ cache[c] \in {None, db[c]}

\* SyncToCache comes after the write to PostgreSQL: even with overlapping or
\* failing handlers Redis never holds, and a login is never sent to, a
\* configuration that was not committed.
CacheWasCommitted ==
    /\ \A c \in Clients : cache[c] \in stored[c] \cup {None}
    /\ \A r \in Requests : kind[r] = "lookup" => held[r] \in stored[target[r]] \cup {None}

\* An update that races a delete brings neither the row nor the Hydra client
\* back: PostgreSQL and Hydra both refuse to update what is not there.
DeletedStaysDeleted ==
    [][\A c \in Clients : pc[c] \notin {"idle", "provision", "insert"} =>
          /\ hydra[c] = None => hydra'[c] = None
          /\ db[c] = None => db'[c] = None]_vars

\* A row without its Hydra client, which no user could log in to, comes only
\* from a create that reported an error.
RowsHaveHydraClients ==
    \A c \in Clients : db[c] # None /\ hydra[c] = None => c \in faulty /\ pc[c] = "failed"

\* Whatever overlaps or fails, CORS lets nobody in but the origins that some client
\* was once configured with: AddOrigins comes after the write to PostgreSQL on
\* every path that leads to it, and takes its origins from what was written.
CorsWasCommitted ==
    \A o \in cors : \E c \in Clients : \E x \in stored[c] : o \in OriginsOf[x]

-----------------------------------------------------------------------------
(* Why they hold: an inductive invariant.                                  *)

\* The kinds of handler that reach each call.
Path(r) ==
    /\ pc[r] \in {"provision", "insert", "rollback"} => kind[r] = "create"
    /\ pc[r] = "read" => kind[r] \in {"update", "delete"}
    /\ pc[r] \in {"update", "put"} => kind[r] = "update"
    /\ pc[r] \in {"deleteRow", "deleteHydra", "delConfig", "delOrigins"} => kind[r] = "delete"
    /\ pc[r] \in {"get", "load"} => kind[r] = "lookup"
    /\ pc[r] \in {"set", "sadd"} => kind[r] # "delete"

Handlers ==
    \A r \in Requests :
        /\ pc[r] = "idle" => held[r] = None
        /\ pc[r] # "idle" =>
              /\ target[r] \in Clients
              /\ Path(r)
              /\ kind[r] = "create" => target[r] = r
              /\ kind[r] # "create" => Known(target[r])
              /\ kind[r] \in {"create", "update"} \/ pc[r] \in {"set", "sadd"} => held[r] \in Configs

\* A client is known, and anything in its stores but Hydra, only after its row
\* was inserted; and then Hydra has it, until it is deleted.
Births ==
    \A c \in Clients :
        /\ Known(c) => pc[c] \notin {"idle", "provision", "insert"}
        /\ pc[c] \in {"idle", "provision"} => hydra[c] = None
        /\ pc[c] = "insert" => hydra[c] # None
        /\ pc[c] = "rollback" => c \in faulty

\* What is written to Hydra, after the creation, or to Redis was in PostgreSQL.
Commits ==
    /\ \A c \in Clients : db[c] \in stored[c] \cup {None}
    /\ \A r \in Requests : pc[r] \in {"put", "set", "sadd"} => held[r] \in stored[target[r]]

\* Once a delete has removed the row it stays away.
Deletions ==
    \A r \in Requests : pc[r] \in {"deleteHydra", "delConfig", "delOrigins"} => db[target[r]] = None

Overlaps ==
    \A r, s \in Requests :
        r # s /\ {pc[r], pc[s]} \subseteq InFlight /\ target[r] = target[s] => target[r] \in raced

Agree(c) == hydra[c] = db[c] /\ cache[c] \in {None, db[c]}

\* How far the only handler at work on a client has brought its stores.
Progress(r) ==
    LET c == target[r] IN
    /\ pc[r] \in {"provision", "insert"} => db[c] = None
    /\ pc[r] \in {"insert", "set"} => hydra[c] = held[r]
    /\ pc[r] \in {"put", "set"} => db[c] = held[r]
    /\ pc[r] = "put" => hydra[c] # None
    /\ pc[r] = "delConfig" => hydra[c] = None
    /\ pc[r] \in {"read", "update", "deleteRow", "delOrigins", "get", "load", "sadd"} => Agree(c)

OnCourse ==
    \A r \in Requests :
        pc[r] \in InFlight /\ target[r] \notin raced \cup faulty => Progress(r)

IInv ==
    /\ TypeOK
    /\ Handlers
    /\ Births
    /\ Commits
    /\ Deletions
    /\ Overlaps
    /\ OnCourse
    /\ CacheWasCommitted
    /\ RowsHaveHydraClients
    /\ UndisturbedStoresAgree
    /\ CorsWasCommitted

-----------------------------------------------------------------------------
\* What the documentation says and the code does not do.

\* "Redis cache must have proper TTL or strict invalidation patterns to prevent
\* routing discrepancies during client config updates"
\* (openspec/specs/app-client-management/spec.md:69): of a client that nobody touched
\* while it was being created, and none of whose calls failed, Redis has in the end
\* the configuration that PostgreSQL has, or none.
FollowCreation(c) ==
    [](pc[c] # "ok" => \A r \in Requests : kind[r] # "create" => target[r] # c)

StaleConfigsGo ==
    \A c \in Clients :
        FollowCreation(c) => <>[](c \in faulty \/ cache[c] \in {None, db[c]})

Configured == UNION {OriginsOf[db[c]] : c \in {d \in Clients : db[d] # None}}

Undisturbed == raced = {} /\ faulty = {} /\ \A c \in Clients : AtRest(c)

\* "the aggregated allowed_cors_origins from Redis"
\* (openspec/specs/app-client-management/spec.md:63): with no handler at work, and
\* no race or failure behind, CORS allows the origins of the clients there are.
CorsIsAggregated == Undisturbed => cors = Configured
=============================================================================
