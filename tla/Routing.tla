------------------------------ MODULE Routing -------------------------------
(***************************************************************************)
(* Which database a request works on.  verify_token (core/auth_utils.py)   *)
(* replaces the stores of the one DocumentService of the process by those  *)
(* of the application in the token, which ee/db_router.py looks up in      *)
(* app_metadata once and remembers for as long as the process runs.  The   *)
(* handler reads the fields of the service whenever it needs them, and     *)
(* awaits in between.                                                      *)
(***************************************************************************)
EXTENDS Apps

CONSTANTS Requests,  \* the requests
          MaxUses    \* how often a request turns to its stores

ASSUME RoutingAssumption == MaxUses \in Nat

VARIABLES stores,    \* the fields of DocumentService: db, vector_store, colpali_vector_store
          resolved,  \* _CONN_URI_CACHE
          request,   \* the requests
          crossed    \* the requests during which another one was routed

routingVars == <<stores, resolved, request, crossed>>

\* A store is that of an application with a project of its own, or the shared one.
Targets   == ACalls \cup {"shared"}
Stores    == [db : Targets, vector : Targets, multi : Targets]
Request   == [pc : {"idle", "resolve", "work", "end"}, token : Targets, own : Targets,
              used : SUBSET Stores, uses : 0..MaxUses, whole : BOOLEAN]

\* Variant with a fault: a token is of use as soon as the project of its application is.
TokensEarly == issued \cup projects \cup {"shared"}

\* What the token of a request may name; a token outlives its application.
Tokens == issued \cup {"shared"}

\* app_metadata.connection_uri, or None.
CatalogueEntry(a) == IF Recorded(a) THEN "own" ELSE "none"

\* Variant with a fault: the URI itself is taken for the store.
StoreOfUri(t, uri) == IF t # "shared" THEN uri ELSE "shared"

\* The store an application is given: without a URI of its own the shared one.
StoreFor(t, uri) == IF t # "shared" /\ uri = "own" THEN t ELSE "shared"

\* Variant with a fault: without an application in the token the stores are left as they are.
RoutedIfApp(t, uri, multi) ==
    IF t = "shared" THEN stores
    ELSE [db |-> StoreFor(t, uri), vector |-> StoreFor(t, uri),
          multi |-> IF multi THEN StoreFor(t, uri) ELSE stores.multi]

\* The three fields.  No await of the three lookups gives way once the URI is known; an
\* exception in the third is logged and leaves the field of an earlier request.
Routed(t, uri, multi) ==
    [db |-> StoreFor(t, uri), vector |-> StoreFor(t, uri),
     multi |-> IF multi THEN StoreFor(t, uri) ELSE stores.multi]

\* From here the request works on whatever the fields hold; so do all others at work.
Route(r, t, uri) ==
    \E multi \in IF "remote" \in AppFaults THEN BOOLEAN ELSE {TRUE} :
        /\ stores' = Routed(t, uri, multi)
        /\ request' = [request EXCEPT ![r] =
                          [pc |-> "work", token |-> t, own |-> StoreFor(t, uri),
                           used |-> {}, uses |-> 0, whole |-> multi]]
        /\ crossed' = crossed \cup {q \in Requests \ {r} : request[q].pc = "work"}

\* A token of the shared database, or of an application looked up before.  The next
\* request is any that has not come yet.
Arrive(r, t) ==
    /\ request[r].pc = "idle"
    /\ r = CHOOSE q \in Requests : request[q].pc = "idle"
    /\ t \in Tokens
    /\ \/ t = "shared" /\ Route(r, t, "none") /\ UNCHANGED resolved
       \/ t # "shared" /\ resolved[t] # "unknown" /\ Route(r, t, resolved[t]) /\ UNCHANGED resolved
       \/ /\ t # "shared" /\ resolved[t] = "unknown"
          /\ request' = [request EXCEPT ![r].pc = "resolve", ![r].token = t]
          /\ UNCHANGED <<stores, resolved, crossed>>
    /\ UNCHANGED appsVars

\* The SELECT on app_metadata has answered; the answer is remembered, None as well.
Resolve(r) ==
    LET t == request[r].token
    IN /\ request[r].pc = "resolve"
       /\ resolved' = [resolved EXCEPT ![t] = CatalogueEntry(t)]
       /\ Route(r, t, CatalogueEntry(t))
       /\ UNCHANGED appsVars

\* The SELECT raises: the request ends before it reaches its handler.
ResolveFails(r) ==
    /\ "db" \in AppFaults
    /\ request[r].pc = "resolve"
    /\ request' = [request EXCEPT ![r].pc = "end"]
    /\ UNCHANGED <<appsVars, stores, resolved, crossed>>

\* The handler reads the fields of the service.
UseStores(r) ==
    /\ request[r].pc = "work"
    /\ request[r].uses < MaxUses
    /\ request' = [request EXCEPT ![r].used = @ \cup {stores}, ![r].uses = @ + 1]
    /\ UNCHANGED <<appsVars, stores, resolved, crossed>>

Answer(r) ==
    /\ request[r].pc = "work"
    /\ request' = [request EXCEPT ![r].pc = "end"]
    /\ UNCHANGED <<appsVars, stores, resolved, crossed>>

RoutingInit ==
    /\ AppsInit
    /\ stores = [db |-> "shared", vector |-> "shared", multi |-> "shared"]
    /\ resolved = [a \in ACalls |-> "unknown"]
    /\ request = [r \in Requests |->
                     [pc |-> "idle", token |-> "shared", own |-> "shared",
                      used |-> {}, uses |-> 0, whole |-> TRUE]]
    /\ crossed = {}

\* A restart forgets what was looked up and drops the requests.
ServerRestarts ==
    /\ AppServerDies
    /\ stores' = [db |-> "shared", vector |-> "shared", multi |-> "shared"]
    /\ resolved' = [a \in ACalls |-> "unknown"]
    /\ request' = [r \in Requests |-> IF request[r].pc \in {"resolve", "work"}
                                      THEN [request[r] EXCEPT !.pc = "end"] ELSE request[r]]
    /\ UNCHANGED crossed

AccountStep == (\E c \in ACalls : AppStep(c)) /\ UNCHANGED routingVars

RequestStep(r) ==
    (\E t \in Targets : Arrive(r, t)) \/ Resolve(r) \/ ResolveFails(r) \/ UseStores(r) \/ Answer(r)

RoutingNext ==
    \/ AccountStep
    \/ ServerRestarts
    \/ \E r \in Requests : RequestStep(r)

RoutingSpec == RoutingInit /\ [][RoutingNext]_<<appsVars, routingVars>>

-----------------------------------------------------------------------------
RoutingTypeOK ==
    /\ AppsTypeOK
    /\ stores \in Stores
    /\ resolved \in [ACalls -> {"unknown", "none", "own"}]
    /\ request \in [Requests -> Request]
    /\ crossed \subseteq Requests

\* A request during which no other was routed worked on the stores of the application in its
\* token and of no other, although every request of the process shares the fields; only the
\* multi-vector store may be that of an earlier request, when its lookup failed.  And "this
\* application has no database of its own" is remembered for good, but never wrong later: no
\* application gets a row in app_metadata after a token for it was in use.
RequestsKeepTheirStores ==
    /\ \A r \in Requests \ crossed : \A s \in request[r].used :
          LET own == request[r].own
          IN s.db = own /\ s.vector = own /\ (request[r].whole => s.multi = own)
    /\ \A a \in ACalls : resolved[a] = "none" => ~Recorded(a)

=============================================================================
