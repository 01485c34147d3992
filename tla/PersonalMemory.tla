--------------------------- MODULE PersonalMemory ---------------------------
(***************************************************************************)
(* The memories of the personal product: the worker authenticates a        *)
(* request by exactly one credential, resolves it to a profile and calls   *)
(* the Agent Memory service, which is external; the pages of the web UI    *)
(* load, page, search and delete through the same worker.                  *)
(*                                                                         *)
(* A profile is <<user, scope>>.  A memory is a number: the service lists  *)
(* memories in increasing order and a cursor is the last memory listed.    *)
(***************************************************************************)
EXTENDS WorkerUsers, Naturals, Sequences, FiniteSets

CONSTANTS
  Scopes, Keys,
  PageUser,       \* the user of the web UI
  Provisioned,    \* the registry the operator configured: a function on Keys
  MaxMemory,      \* bound: the memories
  TypeOf,         \* the type of a memory
  SessionOf,      \* the session a memory was added under
  PageSize,       \* the limit of one listing
  Queries,        \* the search texts the user types
  LegacyWindow,   \* TRUE while tokens without Memory scopes are accepted
  MaxCalls,       \* bound: the requests of other callers while the UI is closed
  MaxPending,     \* bound: the deletes of the UI under way at once, where a request
  AgentWeight     \* of the user's agent beside the UI counts as so many deletes

Permissions == {"read", "write", "delete"}
Memories == 1 .. MaxMemory
Types == {TypeOf[m] : m \in Memories}
Sessions == {SessionOf[m] : m \in Memories}
Profiles == Users \X (Scopes \cup {None})

ASSUME MemoryAssumption ==
  /\ MaxMemory \in Nat \ {0} /\ PageSize \in Nat \ {0}
  /\ MaxCalls \in Nat /\ MaxPending \in Nat /\ AgentWeight \in Nat
  /\ DOMAIN TypeOf = Memories /\ DOMAIN SessionOf = Memories
  /\ LegacyWindow \in BOOLEAN /\ PageUser \in Users
  /\ None \notin Scopes
  /\ Provisioned \in [Keys -> [kind : {"api-key", "pat"}, user : Users,
                               scope : Scopes \cup {None},
                               permissions : SUBSET Permissions, live : BOOLEAN]]

VARIABLES
  registry,  \* MEMORY_API_KEY_REGISTRY: per key its kind, user, scope, permissions, life
  store,     \* the Agent Memory service: the memories of every profile
  call,      \* the request of an agent or a script the worker is serving
  calls,
  page,      \* what the web UI shows
  req,       \* the current request of the view the UI shows
  old,       \* the last request it superseded, whose answer may still come
  dels       \* the delete requests of the UI that are under way

vars == <<registry, store, call, calls, page, req, old, dels>>

(***************************************************************************)
(* Authentication.                                                         *)
(***************************************************************************)
Requests ==
  [key : Keys \cup {None},
   authz : ({"apikey", "pat"} \X Keys) \cup ({"jwt"} \X Users) \cup {None},
   cookie : Users \cup {None}, same : BOOLEAN,
   grants : {{}, {"read"}, Permissions},
   scope : Scopes \cup {None},
   path : {"mcp", "api"}]

Refused == [ok |-> FALSE, profile |-> None, permissions |-> {}]

Accepted(user, scope, permissions) ==
  [ok |-> TRUE, profile |-> <<user, scope>>, permissions |-> permissions]

\* verifyRegistryCredential: an unexpired entry of the kind the scheme asks for.
Registered(k, kind) ==
  IF registry[k].kind = kind /\ registry[k].live
    THEN Accepted(registry[k].user, registry[k].scope, registry[k].permissions)
    ELSE Refused

\* permissionsFromSession: the Memory scopes, or everything for a token without
\* any while the migration window is open.
Granted(r) ==
  IF r.grants = {} /\ LegacyWindow THEN Permissions ELSE r.grants

Session(user, r, scope) ==
  IF Granted(r) = {} THEN Refused ELSE Accepted(user, scope, Granted(r))

\* isAllowedCookieRequest: a cookie speaks only for its own origin.
CookieAllowed(r) == r.same

Scheme(r) == IF r.authz = None THEN "none" ELSE r.authz[1]

\* A defect: the key of the header wins over an Authorization header.
AuthenticateMutant(r) ==
  IF r.key # None \/ Scheme(r) = "apikey" THEN
    Registered(IF r.key # None THEN r.key ELSE r.authz[2], "api-key")
  ELSE IF Scheme(r) = "pat" THEN Registered(r.authz[2], "pat")
  ELSE IF Scheme(r) = "jwt" THEN Session(r.authz[2], r, r.scope)
  ELSE Refused

\* Two header credentials are refused; a key or a PAT takes no scope header; a
\* cookie counts only under /api/ and only when there is no header credential.
Authenticate(r) ==
  IF r.key # None /\ r.authz # None THEN Refused
  ELSE IF r.key # None \/ Scheme(r) = "apikey" THEN
    IF r.scope # None THEN Refused
    ELSE Registered(IF r.key # None THEN r.key ELSE r.authz[2], "api-key")
  ELSE IF Scheme(r) = "pat" THEN
    IF r.scope # None THEN Refused ELSE Registered(r.authz[2], "pat")
  ELSE IF Scheme(r) = "jwt" THEN Session(r.authz[2], r, r.scope)
  ELSE IF r.path = "api" /\ r.cookie # None /\ CookieAllowed(r)
    THEN Session(r.cookie, r, None)
  ELSE Refused

\* MEMORY_MCP_TOOL_POLICIES.
ToolPermission(op) ==
  CASE op \in {"add", "ingest"} -> "write"
    [] op \in {"delete", "delete_session"} -> "delete"
    [] OTHER -> "read"

\* restPermission.
RestPermission(op) ==
  CASE op \in {"delete", "delete_session"} -> "delete"
    [] op = "add" -> "write"
    [] OTHER -> "read"

Operations(path) ==
  {"add", "search", "list", "get", "delete", "delete_session", "summary", "stats"}
    \cup IF path = "mcp" THEN {"ingest"} ELSE {}

\* hasPermission, and authorizeTool of every tool.
Permitted(identity, path, op) ==
  /\ identity.ok
  /\ (IF path = "mcp" THEN ToolPermission(op) ELSE RestPermission(op))
       \in identity.permissions

(***************************************************************************)
(* A request of another caller: authenticated, then carried out.           *)
(***************************************************************************)
NoCall == [step |-> "idle", request |-> None, identity |-> Refused, op |-> None]

\* What is under way besides the request of the view.
UnderWay == Cardinality(dels) + IF call = NoCall THEN 0 ELSE AgentWeight

Arrive(r, op) ==
  /\ call = NoCall /\ calls < MaxCalls
  /\ op \in Operations(r.path)
  /\ Permitted(Authenticate(r), r.path, op)
  /\ call' = [step |-> "serving", request |-> r, identity |-> Authenticate(r), op |-> op]
  /\ calls' = IF page.route = "closed" THEN calls + 1 ELSE calls
  /\ UNCHANGED <<registry, store, page, req, old, dels>>

Serving(op) == call.step = "serving" /\ call.op = op

Answered ==
  /\ call' = NoCall
  /\ UNCHANGED <<registry, calls, page, req, old, dels>>

Held == store[call.identity.profile]

Holds(memories) ==
  store' = [store EXCEPT ![call.identity.profile] = memories]

\* profile.remember; the answer is the new memory.
Add(m) ==
  /\ Serving("add") /\ m \in Memories \ Held
  /\ Holds(Held \cup {m})
  /\ Answered

\* profile.ingest extracts what it likes from a conversation.
Ingest(memories) ==
  /\ Serving("ingest")
  /\ Holds(Held \cup memories)
  /\ Answered

\* profile.delete; an unknown id is a 404.
Delete(m) ==
  /\ Serving("delete")
  /\ Holds(Held \ {m})
  /\ Answered

DeleteSession(s) ==
  /\ Serving("delete_session")
  /\ Holds({m \in Held : SessionOf[m] # s})
  /\ Answered

Reads(op) ==
  /\ Serving(op)
  /\ UNCHANGED store
  /\ Answered

Search == Reads("search")
List == Reads("list")
Get == Reads("get")
Summary == Reads("summary")
Stats == Reads("stats")

\* The service refuses or fails, whatever the operation.
ServiceFails ==
  /\ call.step = "serving"
  /\ UNCHANGED store
  /\ Answered

\* expiresAt or disabledAt of an entry is reached.
Disable(k) ==
  /\ registry[k].live
  /\ registry' = [registry EXCEPT ![k].live = FALSE]
  /\ UNCHANGED <<store, call, calls, page, req, old, dels>>

(***************************************************************************)
(* The web UI of one signed-in user.  One view loads at a time.  Leaving a *)
(* view, changing its filter or its query supersedes its request: it is    *)
(* aborted and its number is no longer the current one.                    *)
(***************************************************************************)
NoReq == [kind |-> "none", of |-> None, after |-> 0, served |-> FALSE, data |-> <<>>]

Ask(kind, of, after) == [NoReq EXCEPT !.kind = kind, !.of = of, !.after = after]

Mine == store[page.profile]

\* The numbers of a finite set, each once, from the smallest.
InOrder(S) ==
  [i \in 1 .. Cardinality(S) |-> CHOOSE m \in S : Cardinality({k \in S : k < m}) = i - 1]

\* profile.list: at most PageSize memories of the type after the cursor.
Listing(type, after) ==
  LET all == {m \in Mine : m > after /\ (type = None \/ TypeOf[m] = type)}
      first == {m \in all : Cardinality({k \in all : k < m}) < PageSize}
  IN [items |-> InOrder(first), more |-> first # all]

\* What a list keeps when a memory is filtered out of it.
Without(shown, m) ==
  LET kept == InOrder({i \in DOMAIN shown : shown[i] # m})
  IN [j \in DOMAIN kept |-> shown[kept[j]]]

\* A new request of the view, or none; the one under way becomes the old one.
Supersede(new) ==
  /\ old' = IF req # NoReq THEN req ELSE old
  /\ req' = new

Fresh(route, of) ==
  [page EXCEPT !.route = route, !.of = of, !.shown = <<>>, !.cursor = 0,
               !.filter = None, !.listed = None, !.query = None, !.found = None,
               !.entry = None, !.error = FALSE, !.failed = FALSE]

\* A view that is left leaves its deletes to the worker: nobody waits for their
\* answers any more.  Those of the details are aborted, which they may survive.
Abandoned == {[d EXCEPT !.live = FALSE] : d \in {x \in dels : ~x.served}}

\* Navigation: the component of the old route unmounts and the new one mounts,
\* and loads.
Navigate(route, of) ==
  /\ page.route # "closed"
  /\ <<route, of>> # <<page.route, page.of>>
  /\ Supersede(IF route = "new" THEN NoReq ELSE Ask(route, of, 0))
  /\ dels' = Abandoned
  /\ page' = Fresh(route, of)
  /\ UNCHANGED <<registry, store, call, calls>>

\* loadMemories clears the error and asks for the first page.
Reload(type) == Supersede(Ask("list", type, 0))

\* The type filter: loadMemories is a new callback and its effect runs again;
\* under a query it loads nothing and the search goes on.
Filter(type) ==
  /\ page.route = "list" /\ page.filter # type
  /\ IF page.query = None
       THEN /\ page' = [page EXCEPT !.filter = type, !.error = FALSE]
            /\ Reload(type)
       ELSE /\ page' = [page EXCEPT !.filter = type]
            /\ UNCHANGED <<req, old>>
  /\ UNCHANGED <<registry, store, call, calls, dels>>

\* Typing: a query invalidates the list request and debounces a search; an
\* empty one loads the list again.
Type(query) ==
  /\ page.route = "list" /\ page.query # query
  /\ page' = [page EXCEPT !.query = query, !.found = None, !.error = FALSE]
  /\ IF query = None THEN Reload(page.filter) ELSE Supersede(Ask("search", query, 0))
  /\ UNCHANGED <<registry, store, call, calls, dels>>

\* A search that has come back without a result has failed.
SearchFailed == page.query # None /\ page.found = None /\ req = NoReq

\* "Try again", which every view offers beside its error, and the details also
\* beside "not found".
Retry ==
  /\ \/ /\ page.route = "list" /\ page.query = None /\ page.error
        /\ page' = [page EXCEPT !.error = FALSE]
        /\ Reload(page.filter)
     \/ /\ page.route = "list" /\ page.query # None /\ (page.error \/ SearchFailed)
        /\ page' = [page EXCEPT !.found = None]
        /\ Supersede(Ask("search", page.query, 0))
     \/ /\ page.route = "entry" /\ page.entry = None /\ req = NoReq
        /\ UNCHANGED page
        /\ Supersede(Ask("entry", page.of, 0))
     \/ /\ page.route = "summary" /\ page.error
        /\ page' = [page EXCEPT !.error = FALSE]
        /\ Supersede(Ask("summary", None, 0))
  /\ UNCHANGED <<registry, store, call, calls, dels>>

\* loadMore takes the page after the cursor it read, under the filter in force.
LoadMore ==
  /\ page.route = "list" /\ page.query = None
  /\ page.cursor # 0 /\ req = NoReq
  /\ req' = Ask("list", page.filter, page.cursor)
  /\ page' = [page EXCEPT !.error = FALSE]
  /\ UNCHANGED <<registry, store, call, calls, old, dels>>

\* What the list offers to delete: the candidates of a search, else the list.
Offered ==
  IF page.found # None THEN Memories ELSE {page.shown[i] : i \in DOMAIN page.shown}

\* handleDelete of the list, as often as the user likes, and of the details,
\* one at a time.
AskDelete(m) ==
  /\ \/ page.route = "list" /\ m \in Offered
     \/ page.route = "entry" /\ page.entry = m /\ \A d \in dels : ~d.live
  /\ UnderWay + 1 <= MaxPending
  /\ dels' = dels \cup {[of |-> m, served |-> FALSE, live |-> TRUE]}
  /\ UNCHANGED <<registry, store, call, calls, page, req, old>>

\* The worker lists, whether the request is superseded or not.
Listed(r) ==
  LET l == Listing(r.of, r.after) IN
  [r EXCEPT !.served = TRUE,
            !.data = <<l.items, IF l.more THEN l.items[Len(l.items)] ELSE 0>>]

ServeList ==
  /\ \/ /\ req.kind = "list" /\ ~req.served
        /\ req' = Listed(req)
        /\ UNCHANGED old
     \/ /\ old.kind = "list" /\ ~old.served
        /\ old' = Listed(old)
        /\ UNCHANGED req
  /\ UNCHANGED <<registry, store, call, calls, page, dels>>

\* The worker deletes, whether anybody still waits for the answer or not.
ServeDelete(d) ==
  /\ d \in dels /\ ~d.served
  /\ dels' = (dels \ {d}) \cup IF d.live THEN {[d EXCEPT !.served = TRUE]} ELSE {}
  /\ store' = [store EXCEPT ![page.profile] = @ \ {d.of}]
  /\ UNCHANGED <<registry, call, calls, page, req, old>>

\* A defect: the answer of a superseded request of the route is taken too.
UsesMutant(current) == current \/ (old.kind = page.route)

\* What the views check before they use an answer: it is not aborted and it is
\* the newest of its kind.
Uses(current) == current

Answer(current) == IF current THEN req ELSE old

Done(current) ==
  /\ IF current THEN req' = NoReq /\ UNCHANGED old
                ELSE old' = NoReq /\ UNCHANGED req
  /\ UNCHANGED <<registry, store, call, calls, dels>>

\* setMemories: a first page replaces the list, a later one is appended.
TakeList(current) ==
  LET r == Answer(current) IN
  /\ r.kind = "list" /\ r.served
  /\ page' = IF ~Uses(current) THEN page
             ELSE IF r.after = 0
               THEN [page EXCEPT !.shown = r.data[1], !.cursor = r.data[2],
                                 !.listed = r.of, !.failed = FALSE]
               ELSE [page EXCEPT !.shown = @ \o r.data[1], !.cursor = r.data[2]]
  /\ Done(current)

\* A request fails, served or not.  The list keeps the memories and the cursor
\* it has and only sets its error; a search, the details and the summary were
\* cleared when they were asked for.
FailAnswer(current) ==
  LET r == Answer(current) IN
  /\ r # NoReq
  /\ page' = IF Uses(current) /\ r.kind \in {"list", "summary"}
               THEN [page EXCEPT !.error = TRUE,
                                 !.failed = @ \/ (r.kind = "list" /\ r.after = 0)]
               ELSE page
  /\ Done(current)

\* useDebouncedSearch: the candidates of the query.
TakeSearch(current) ==
  LET r == Answer(current) IN
  /\ r.kind = "search"
  /\ page' = IF Uses(current) THEN [page EXCEPT !.found = r.of] ELSE page
  /\ Done(current)

\* The details of a memory, or "not found".
TakeEntry(current) ==
  LET r == Answer(current) IN
  /\ r.kind = "entry"
  /\ page' = IF Uses(current) /\ r.of \in Mine THEN [page EXCEPT !.entry = r.of] ELSE page
  /\ Done(current)

\* The summary.
TakeSummary(current) ==
  LET r == Answer(current) IN
  /\ r.kind = "summary"
  /\ UNCHANGED page
  /\ Done(current)

\* The list drops the memory, and searches again under a query.
TakeDeleteFromList(d) ==
  /\ d \in dels /\ d.live /\ d.served
  /\ page.route = "list"
  /\ page' = [page EXCEPT !.shown = Without(@, d.of), !.found = None]
  /\ dels' = dels \ {d}
  /\ IF page.query = None THEN UNCHANGED <<req, old>>
                           ELSE Supersede(Ask("search", page.query, 0))
  /\ UNCHANGED <<registry, store, call, calls>>

\* The details leave for the list.
TakeDeleteOfEntry(d) ==
  /\ d \in dels /\ d.live /\ d.served
  /\ page.route = "entry"
  /\ page' = Fresh("list", None)
  /\ dels' = Abandoned
  /\ Supersede(Ask("list", None, 0))
  /\ UNCHANGED <<registry, store, call, calls>>

\* A delete fails, or only its answer is lost: the memory stays in the view.
FailDelete(d) ==
  /\ d \in dels
  /\ dels' = dels \ {d}
  /\ page' = IF d.live /\ page.route = "list" THEN [page EXCEPT !.error = TRUE] ELSE page
  /\ UNCHANGED <<registry, store, call, calls, req, old>>

\* The form of a new memory adds it and goes to the list.
Submit(m) ==
  /\ page.route = "new" /\ m \in Memories \ Mine
  /\ store' = [store EXCEPT ![page.profile] = @ \cup {m}]
  /\ page' = Fresh("list", None)
  /\ Supersede(Ask("list", None, 0))
  /\ UNCHANGED <<registry, call, calls, dels>>

(***************************************************************************)
(* The specification.  The bounds: with the UI closed a caller may send    *)
(* any request; with the UI open it is the agent of the same user.         *)
(***************************************************************************)
Init ==
  /\ registry = Provisioned
  /\ \E open \in BOOLEAN :
       /\ page = [route |-> IF open THEN "list" ELSE "closed", of |-> None,
                  profile |-> <<PageUser, None>>, filter |-> None, query |-> None,
                  shown |-> <<>>, cursor |-> 0, listed |-> None, found |-> None,
                  entry |-> None, error |-> FALSE, failed |-> FALSE]
       /\ req = IF open THEN Ask("list", None, 0) ELSE NoReq
  /\ store = [q \in Profiles |-> IF q = <<PageUser, None>> THEN Memories ELSE {}]
  /\ call = NoCall /\ calls = 0
  /\ old = NoReq /\ dels = {}

Plain == [key |-> None, authz |-> <<"jwt", page.profile[1]>>, cookie |-> None,
          same |-> FALSE, grants |-> Permissions, scope |-> None, path |-> "mcp"]

Caller ==
  \/ /\ page.route = "closed"
     /\ \E r \in Requests : \E op \in Operations(r.path) : Arrive(r, op)
  \/ /\ page.route # "closed" /\ UnderWay + AgentWeight <= MaxPending
     /\ \E op \in {"add", "delete"} : Arrive(Plain, op)
  \/ \E m \in Memories : Add(m) \/ Delete(m)
  \/ \E memories \in SUBSET Memories : Ingest(memories)
  \/ \E s \in Sessions : DeleteSession(s)
  \/ Search \/ List \/ Get \/ Summary \/ Stats \/ ServiceFails
  \/ \E k \in Keys : page.route = "closed" /\ Disable(k)

Ui ==
  \/ Navigate("list", None) \/ Navigate("new", None) \/ Navigate("summary", None)
  \/ \E m \in Memories : Navigate("entry", m)
  \/ \E m \in Memories : AskDelete(m)
  \/ \E m \in Memories : Submit(m)
  \/ \E t \in Types \cup {None} : Filter(t)
  \/ \E q \in Queries \cup {None} : Type(q)
  \/ LoadMore \/ Retry \/ ServeList
  \/ \E d \in dels : ServeDelete(d)
  \/ \E d \in dels : TakeDeleteFromList(d)
  \/ \E d \in dels : TakeDeleteOfEntry(d)
  \/ \E d \in dels : FailDelete(d)
  \/ \E current \in BOOLEAN : FailAnswer(current)
  \/ \E current \in BOOLEAN : TakeList(current)
  \/ \E current \in BOOLEAN : TakeSearch(current)
  \/ \E current \in BOOLEAN : TakeEntry(current)
  \/ \E current \in BOOLEAN : TakeSummary(current)

Next == Caller \/ Ui

Spec == Init /\ [][Next]_vars

-----------------------------------------------------------------------------
Identities == [ok : {TRUE}, profile : Profiles, permissions : SUBSET Permissions]
Serves == [step : {"serving"}, request : Requests, identity : Identities,
           op : Operations("api") \cup Operations("mcp")]
Asks == [kind : {"none", "list", "search", "entry", "summary"},
         of : Maybe(Types \cup Queries \cup Memories), after : 0 .. MaxMemory,
         served : BOOLEAN, data : {<<>>} \cup (Seq(Memories) \X (0 .. MaxMemory))]
Views == [route : {"closed", "list", "new", "summary", "entry"}, of : Maybe(Memories),
          profile : {<<PageUser, None>>}, filter : Maybe(Types), query : Maybe(Queries),
          shown : Seq(Memories), cursor : 0 .. MaxMemory, listed : Maybe(Types),
          found : Maybe(Queries), entry : Maybe(Memories),
          error : BOOLEAN, failed : BOOLEAN]
Deletes == [of : Memories, served : BOOLEAN, live : BOOLEAN]

TypeOK ==
  /\ registry \in [Keys -> [kind : {"api-key", "pat"}, user : Users, scope : Maybe(Scopes),
                            permissions : SUBSET Permissions, live : BOOLEAN]]
  /\ store \in [Profiles -> SUBSET Memories]
  /\ call = NoCall \/ call \in Serves
  /\ calls \in 0 .. MaxCalls
  /\ page \in Views
  /\ req \in Asks /\ old \in Asks /\ dels \in SUBSET Deletes

\* The credentials a request carries in its headers.
HeaderCredentials(r) == {c \in {r.key, r.authz} : c # None}

CredentialUser(r) ==
  CASE r.key # None -> registry[r.key].user
    [] r.authz # None -> IF r.authz[1] = "jwt" THEN r.authz[2]
                         ELSE registry[r.authz[2]].user
    [] OTHER -> r.cookie

PresentedKey(r) == IF r.key # None THEN r.key ELSE r.authz[2]

\* A request is served for the user of its only credential, whatever else it
\* carries: never with two credentials in the headers, never for a cookie of
\* another origin or outside /api/, and never under a scope that the holder of
\* a key or a PAT chose: only under the one the registry gives that key.
ServedByOneCredential ==
  call.step = "serving" =>
    LET r == call.request
        chosen == r.authz # None /\ r.authz[1] = "jwt" IN
    /\ Cardinality(HeaderCredentials(r)) <= 1
    /\ call.identity.profile[1] = CredentialUser(r)
    /\ HeaderCredentials(r) = {} => (r.same /\ r.path = "api")
    /\ (r.scope # None /\ ~chosen) => HeaderCredentials(r) = {}
    /\ call.identity.profile[2] # None =>
         \/ chosen
         \/ /\ HeaderCredentials(r) # {}
            /\ registry[PresentedKey(r)].scope = call.identity.profile[2]

\* What the UI shows is what its view asks for, however slowly the answers to
\* requests it has superseded come in and whichever of its own fail: memories in
\* the order of the service without repetitions; at rest a list that starts from
\* the first page of the filter in force, unless that page could not be loaded,
\* in which case the list of an earlier filter stays under the new one (and a
\* later page of the new one may follow it); the results of the query that is
\* typed; the memory the address names.  It does not promise that a memory shown
\* is still stored.
ViewIsOfItsRequest ==
  /\ \A i, j \in DOMAIN page.shown : i < j => page.shown[i] < page.shown[j]
  /\ (page.route = "list" /\ req = NoReq /\ page.query = None /\ ~page.failed)
       => page.listed = page.filter
  /\ page.found # None => page.found = page.query
  /\ page.entry # None => (page.route = "entry" /\ page.entry = page.of)
=============================================================================
