-------------------------------- MODULE Apps --------------------------------
(***************************************************************************)
(* The applications of one account: the list app_ids in its limits row     *)
(* (core/database/user_limits_db.py), the rows of the tables apps and      *)
(* app_metadata, the Neon projects and the buckets made for isolated       *)
(* applications (core/services/app_provisioning_service.py).  Four calls    *)
(* create and delete applications; each takes several database sessions     *)
(* and remote calls, none of which is undone when a later one fails.        *)
(*                                                                         *)
(* A provisioning call makes one fresh identifier (uuid4), so calls also    *)
(* name the applications they provision.  A call of generate_cloud_uri     *)
(* brings its identifier with it: its own, or one handed out before.        *)
(***************************************************************************)
EXTENDS Naturals, FiniteSets

CONSTANTS ACalls,     \* the calls, and the applications they may create
          ANames,     \* application names
          Plans,      \* the plans considered, of "free" and "teams"
          AppLimit,   \* how many applications the plan allows
          AppFaults   \* what may fail: "remote", "db", "crash"

ASSUME AppsAssumption ==
    /\ Plans \subseteq {"free", "teams"}
    /\ AppLimit \in Nat
    /\ AppFaults \subseteq {"remote", "db", "crash"}

VARIABLES plan,      \* the tier of the account
          appIds,    \* user_limits.app_ids
          appRows,   \* the table apps
          metaRows,  \* the table app_metadata
          projects,  \* the Neon projects that exist, by application
          buckets,   \* the buckets that exist, by application
          issued,    \* the applications a token was made for
          acall,     \* the calls
          lapped,    \* the calls that ran while another one did
          faulty     \* the applications for which a step failed

appsVars == <<plan, appIds, appRows, metaRows, projects, buckets, issued, acall, lapped, faulty>>

AppRow  == [app : ACalls, name : ANames, uri : BOOLEAN]
MetaRow == [app : ACalls, name : ANames]

AppOps  == {"provision", "uri", "nuke", "delete"}
AppPcs  == {"idle", "create", "prepare", "bucket", "save", "eligible", "register",
            "named", "enroll", "insert", "link",
            "fetch", "project", "empty", "rows", "row", "unregister",
            "done", "refused", "failed"}
AppCall == [op : AppOps \cup {"none"}, pc : AppPcs, name : ANames \cup {"none"}, app : ACalls]

Ended     == {"idle", "done", "refused", "failed"}
AppActive(c) == acall[c].pc \notin Ended
At(c, op, pc) == acall[c].op = op /\ acall[c].pc = pc

RowsOf(rows, n) == {r \in rows : r.name = n}
Without(rows, a) == {r \in rows : r.app # a}
Recorded(a)      == \E r \in metaRows : r.app = a
Listed(a)        == \E r \in appRows : r.app = a

\* The step a call takes next.
AppGoes(c, pc) == acall' = [acall EXCEPT ![c].pc = pc]

\* A step failed: the exception ends the call and nothing done before is undone.
Fails(c, fault) ==
    /\ fault \in AppFaults
    /\ AppGoes(c, "failed")
    /\ faulty' = faulty \cup {acall[c].app}

BeginApp(c, op, n, a, pc) ==
    /\ acall[c].pc = "idle"
    /\ acall' = [acall EXCEPT ![c] = [op |-> op, pc |-> pc, name |-> n, app |-> a]]
    /\ LET others == {d \in ACalls : AppActive(d)}
       IN lapped' = IF others = {} \/ pc \in Ended THEN lapped ELSE lapped \cup others \cup {c}

-----------------------------------------------------------------------------
(* POST /ee/apps: create_app_route and provision_new_app.                  *)

\* No application of the account has this name (only app_metadata is asked).
FreeName(n) == RowsOf(metaRows, n) = {}

Provision(c, n) ==
    /\ BeginApp(c, "provision", n, c, IF FreeName(n) THEN "create" ELSE "refused")
    /\ UNCHANGED <<plan, appIds, appRows, metaRows, projects, buckets, issued, faulty>>

CreateProject(c) ==
    /\ At(c, "provision", "create")
    /\ \/ AppGoes(c, "prepare") /\ projects' = projects \cup {c} /\ UNCHANGED faulty
       \/ Fails(c, "remote") /\ UNCHANGED projects
    /\ UNCHANGED <<plan, appIds, appRows, metaRows, buckets, issued, lapped>>

\* Wait for the project, create its tables.
Prepare(c) ==
    /\ At(c, "provision", "prepare")
    /\ \/ AppGoes(c, "bucket") /\ UNCHANGED faulty
       \/ Fails(c, "remote")
    /\ UNCHANGED <<plan, appIds, appRows, metaRows, projects, buckets, issued, lapped>>

\* Without credentials create_s3_bucket logs and returns.
CreateBucket(c) ==
    /\ At(c, "provision", "bucket")
    /\ \/ /\ AppGoes(c, "save")
          /\ buckets' \in {buckets, buckets \cup {c}}
          /\ UNCHANGED faulty
       \/ Fails(c, "remote") /\ UNCHANGED buckets
    /\ UNCHANGED <<plan, appIds, appRows, metaRows, projects, issued, lapped>>

\* Both rows in one transaction; the URI in the row of apps holds the token.
SaveRows(c) ==
    /\ At(c, "provision", "save")
    /\ \/ /\ AppGoes(c, "eligible")
          /\ metaRows' = metaRows \cup {[app |-> c, name |-> acall[c].name]}
          /\ appRows' = appRows \cup {[app |-> c, name |-> acall[c].name, uri |-> TRUE]}
          /\ issued' = issued \cup {c}
          /\ UNCHANGED faulty
       \/ Fails(c, "db") /\ UNCHANGED <<metaRows, appRows, issued>>
    /\ UNCHANGED <<plan, appIds, projects, buckets, lapped>>

\* The plan is looked at after the application exists.
Eligible(c) ==
    /\ At(c, "provision", "eligible")
    /\ AppGoes(c, IF plan = "teams" /\ Cardinality(appIds) < AppLimit THEN "register" ELSE "refused")
    /\ UNCHANGED <<plan, appIds, appRows, metaRows, projects, buckets, issued, lapped, faulty>>

\* The result of register_app is ignored: the call succeeds without it.
Register(c) ==
    /\ At(c, "provision", "register")
    /\ AppGoes(c, "done")
    /\ \/ appIds' = appIds \cup {c} /\ UNCHANGED faulty
       \/ "db" \in AppFaults /\ faulty' = faulty \cup {c} /\ UNCHANGED appIds
    /\ UNCHANGED <<plan, appRows, metaRows, projects, buckets, issued, lapped>>

-----------------------------------------------------------------------------
(* POST /cloud/generate_uri and /ee/create_app: generate_cloud_uri.        *)

\* Variant with a fault: the limit is compared with > instead of >=.
RoomForOneMore(a) == a \in appIds \/ plan # "free" \/ Cardinality(appIds) <= AppLimit

Room(a) == a \in appIds \/ plan # "free" \/ Cardinality(appIds) < AppLimit

\* Identifiers a client may send: a new one or one it was given.
KnownApps(c) == {c} \cup issued \cup {r.app : r \in appRows}

GenerateUri(c, n, a) ==
    /\ a \in KnownApps(c)
    /\ BeginApp(c, "uri", n, a, IF Room(a) THEN "named" ELSE "refused")
    /\ UNCHANGED <<plan, appIds, appRows, metaRows, projects, buckets, issued, faulty>>

\* Two rows of one name make scalar_one_or_none raise; either way nothing is done.
FindName(c) ==
    /\ At(c, "uri", "named")
    /\ AppGoes(c, IF RowsOf(appRows, acall[c].name) = {} THEN "enroll" ELSE "refused")
    /\ UNCHANGED <<plan, appIds, appRows, metaRows, projects, buckets, issued, lapped, faulty>>

\* register_app, in a session of its own: one UPDATE that appends the id if absent.
Enroll(c) ==
    /\ At(c, "uri", "enroll")
    /\ \/ /\ AppGoes(c, "insert")
          /\ appIds' = appIds \cup {acall[c].app}
          /\ UNCHANGED faulty
       \/ Fails(c, "db") /\ UNCHANGED appIds
    /\ UNCHANGED <<plan, appRows, metaRows, projects, buckets, issued, lapped>>

\* app_id is the primary key: the INSERT fails when the application has a row.
InsertApp(c) ==
    LET a == acall[c].app
    IN /\ At(c, "uri", "insert")
       /\ \/ /\ ~Listed(a)
             /\ AppGoes(c, "link")
             /\ appRows' = appRows \cup {[app |-> a, name |-> acall[c].name, uri |-> FALSE]}
             /\ UNCHANGED faulty
          \/ Listed(a) /\ AppGoes(c, "failed") /\ UNCHANGED <<appRows, faulty>>
          \/ Fails(c, "db") /\ UNCHANGED appRows
       /\ UNCHANGED <<plan, appIds, metaRows, projects, buckets, issued, lapped>>

\* The token is made and UPDATE apps SET uri; no row need be left to update.
LinkApp(c) ==
    LET a == acall[c].app
    IN /\ At(c, "uri", "link")
       /\ \/ /\ AppGoes(c, "done")
             /\ appRows' = {IF r.app = a THEN [r EXCEPT !.uri = TRUE] ELSE r : r \in appRows}
             /\ issued' = issued \cup {a}
             /\ UNCHANGED faulty
          \/ Fails(c, "db") /\ UNCHANGED <<appRows, issued>>
       /\ UNCHANGED <<plan, appIds, metaRows, projects, buckets, lapped>>

-----------------------------------------------------------------------------
(* DELETE /ee/apps: nuke_app_by_name and nuke_app.                         *)

NukeByName(c, n) ==
    /\ \/ \E r \in RowsOf(metaRows, n) :
             RowsOf(metaRows, n) = {r} /\ BeginApp(c, "nuke", n, r.app, "fetch")
       \/ Cardinality(RowsOf(metaRows, n)) # 1 /\ BeginApp(c, "nuke", n, c, "refused")
    /\ UNCHANGED <<plan, appIds, appRows, metaRows, projects, buckets, issued, faulty>>

FetchProject(c) ==
    /\ At(c, "nuke", "fetch")
    /\ AppGoes(c, IF Recorded(acall[c].app) THEN "project" ELSE "refused")
    /\ UNCHANGED <<plan, appIds, appRows, metaRows, projects, buckets, issued, lapped, faulty>>

\* Variant with a fault: the project is left.
KeepProject(a) == projects

DropProject(a) == projects \ {a}

\* A remote error is logged and the deletion goes on.
DeleteProject(c) ==
    LET a == acall[c].app
    IN /\ At(c, "nuke", "project")
       /\ AppGoes(c, "empty")
       /\ \/ projects' = DropProject(a) /\ UNCHANGED faulty
          \/ "remote" \in AppFaults /\ faulty' = faulty \cup {a} /\ UNCHANGED projects
       /\ UNCHANGED <<plan, appIds, appRows, metaRows, buckets, issued, lapped>>

DeleteBucket(c) ==
    LET a == acall[c].app
    IN /\ At(c, "nuke", "empty")
       /\ AppGoes(c, "rows")
       /\ \/ buckets' = buckets \ {a} /\ UNCHANGED faulty
          \/ "remote" \in AppFaults /\ faulty' = faulty \cup {a} /\ UNCHANGED buckets
       /\ UNCHANGED <<plan, appIds, appRows, metaRows, projects, issued, lapped>>

DeleteRows(c) ==
    LET a == acall[c].app
    IN /\ At(c, "nuke", "rows")
       /\ \/ /\ AppGoes(c, "unregister")
             /\ metaRows' = Without(metaRows, a)
             /\ appRows' = Without(appRows, a)
             /\ UNCHANGED faulty
          \/ Fails(c, "db") /\ UNCHANGED <<metaRows, appRows>>
       /\ UNCHANGED <<plan, appIds, projects, buckets, issued, lapped>>

-----------------------------------------------------------------------------
(* DELETE /cloud/apps: delete_cloud_app.  The documents and folders of the *)
(* application go first, by the calls Workspace models; then its row.       *)

DeleteByName(c, n) ==
    /\ \/ \E r \in RowsOf(appRows, n) :
             RowsOf(appRows, n) = {r} /\ BeginApp(c, "delete", n, r.app, "row")
       \/ Cardinality(RowsOf(appRows, n)) # 1 /\ BeginApp(c, "delete", n, c, "refused")
    /\ UNCHANGED <<plan, appIds, appRows, metaRows, projects, buckets, issued, faulty>>

DeleteRow(c) ==
    /\ At(c, "delete", "row")
    /\ \/ AppGoes(c, "unregister") /\ appRows' = Without(appRows, acall[c].app) /\ UNCHANGED faulty
       \/ Fails(c, "db") /\ UNCHANGED appRows
    /\ UNCHANGED <<plan, appIds, metaRows, projects, buckets, issued, lapped>>

\* Variant with a fault: the application stays in the list.
KeepRegistered(a) == appIds

Unregistered(a) == appIds \ {a}

\* The last step of both deletions; unregister_app turns an error into False, unread.
Unregister(c) ==
    LET a == acall[c].app
    IN /\ acall[c].pc = "unregister"
       /\ AppGoes(c, "done")
       /\ \/ appIds' = Unregistered(a) /\ UNCHANGED faulty
          \/ "db" \in AppFaults /\ faulty' = faulty \cup {a} /\ UNCHANGED appIds
       /\ UNCHANGED <<plan, appRows, metaRows, projects, buckets, issued, lapped>>

-----------------------------------------------------------------------------
\* The server process ends: its calls are gone.
AppServerDies ==
    /\ "crash" \in AppFaults
    /\ \E c \in ACalls : AppActive(c)
    /\ acall' = [c \in ACalls |-> IF AppActive(c) THEN [acall[c] EXCEPT !.pc = "failed"] ELSE acall[c]]
    /\ faulty' = faulty \cup {acall[c].app : c \in {d \in ACalls : AppActive(d)}}
    /\ UNCHANGED <<plan, appIds, appRows, metaRows, projects, buckets, issued, lapped>>

AppsInit ==
    /\ plan \in Plans
    /\ appIds = {} /\ appRows = {} /\ metaRows = {} /\ projects = {} /\ buckets = {}
    /\ issued = {} /\ lapped = {} /\ faulty = {}
    /\ acall = [c \in ACalls |-> [op |-> "none", pc |-> "idle", name |-> "none", app |-> c]]

StartAppCall(c) ==
    \E n \in ANames :
        \/ Provision(c, n)
        \/ \E a \in ACalls : GenerateUri(c, n, a)
        \/ NukeByName(c, n)
        \/ DeleteByName(c, n)

ProvisionStep(c) ==
    CreateProject(c) \/ Prepare(c) \/ CreateBucket(c) \/ SaveRows(c) \/ Eligible(c) \/ Register(c)

UriStep(c) == FindName(c) \/ Enroll(c) \/ InsertApp(c) \/ LinkApp(c)

DeletionStep(c) ==
    FetchProject(c) \/ DeleteProject(c) \/ DeleteBucket(c) \/ DeleteRows(c) \/ DeleteRow(c)
        \/ Unregister(c)

AppStep(c) == StartAppCall(c) \/ ProvisionStep(c) \/ UriStep(c) \/ DeletionStep(c)

AppsNext == (\E c \in ACalls : AppStep(c)) \/ AppServerDies

AppsSpec == AppsInit /\ [][AppsNext]_appsVars

-----------------------------------------------------------------------------
AppsTypeOK ==
    /\ plan \in Plans
    /\ appIds \subseteq ACalls
    /\ appRows \subseteq AppRow
    /\ metaRows \subseteq MetaRow
    /\ projects \subseteq ACalls
    /\ buckets \subseteq ACalls
    /\ issued \subseteq ACalls
    /\ acall \in [ACalls -> AppCall]
    /\ lapped \subseteq ACalls
    /\ faulty \subseteq ACalls

Busy(a)  == \E c \in ACalls : AppActive(c) /\ acall[c].app = a
Raced(a) == \E c \in lapped : acall[c].app = a

\* What is made for an application comes and goes together.  A Neon project without its
\* row in app_metadata, or the reverse, or a bucket without either, means that a call on the
\* application is running or that a remote call, a transaction or the server failed in the
\* middle of one.  An application with a row in apps is counted in app_ids and has its URI,
\* and one counted has a row, unless, besides, calls on it overlapped, or the call that
\* provisioned it was refused by the plan afterwards: that one leaves it there, uncounted.
AppsAreWhole ==
    \A a \in ACalls :
        \/ Busy(a)
        \/ a \in faulty
        \/ /\ a \in projects <=> Recorded(a)
           /\ a \in buckets => a \in projects
           /\ \/ Raced(a)
              \/ At(a, "provision", "refused")
              \/ /\ Listed(a) <=> a \in appIds
                 /\ \A r \in appRows : r.app = a => r.uri

\* While calls run one at a time a free account never counts more applications than its plan
\* allows, whatever it creates, deletes and creates again; overlapping calls all pass the check.
OrderlyLimitHolds ==
    plan = "free" /\ lapped = {} => Cardinality(appIds) <= AppLimit

=============================================================================
