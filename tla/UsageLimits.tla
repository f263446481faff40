---------------------------- MODULE UsageLimits ----------------------------
(***************************************************************************)
(* The usage limits of the free tier (cloud mode).  A call is one request  *)
(* of a user that is counted: a query is checked and recorded before it is *)
(* served; a file is checked before it is uploaded, and checked again and  *)
(* recorded afterwards, when a refusal is only logged.                     *)
(*                                                                         *)
(* check_and_increment_limits makes several trips to the user_limits table *)
(* and holds no lock between them, and update_usage writes back the whole  *)
(* usage column it has read: calls of one user that overlap may pass one   *)
(* check together and lose each other's counts.                            *)
(*                                                                         *)
(* "query" stands for the counters with windows ("agent" has the same      *)
(* code), "file" for the lifetime counters that are verified early         *)
(* (storage_size and ingest are charged in the same way).                  *)
(***************************************************************************)
EXTENDS Integers, FiniteSets

CONSTANTS Users, Calls,
          NoRow,      \* the user has no row in user_limits
          Limits,     \* TIER_LIMITS[FREE]: per hour, per month, files in storage
          HourLen,    \* the windows of update_usage, in ticks of the clock
          MonthLen,
          MaxTime,    \* bound on the clock
          DbFails     \* whether calls of the limits database may fail

Kinds   == {"query", "file"}
Tiers   == {"free", "paid"}
Never   == -1                      \* chargedAt of a call that has not been recorded
Times   == 0 .. MaxTime
Windows == [count : Nat, since : Times]
Rows    == [tier : Tiers, hour : Windows, month : Windows, files : Nat]

ASSUME NoRowAssumption  == NoRow \notin Rows
ASSUME CallsAssumption  == IsFiniteSet(Calls)
ASSUME LimitsAssumption == /\ Limits \in [hour : Nat, month : Nat, files : Nat]
                           /\ HourLen \in Nat /\ MonthLen \in Nat /\ MaxTime \in Nat
                           /\ DbFails \in BOOLEAN

VARIABLES
    row,        \* row[u]: the row of user_limits
    now,        \* the clock
    req,        \* req[c]: whose call it is, and what it asks for
    pc,         \* pc[c]: where the call is
    snap,       \* snap[c]: the row that update_usage has selected
    at,         \* at[c]: the time update_usage took just before
    up,         \* the calls that have uploaded their file
    stored,     \* those whose file has not been deleted since
    chargedAt,  \* history: when the call was recorded
    orderly     \* history: the user's calls never overlapped and no call failed

vars == <<row, now, req, pc, snap, at, up, stored, chargedAt, orderly>>

Pcs == {"new", "load", "create", "reload", "check", "read", "write", "act",
        "served", "refused", "error"}

TypeOK ==
    /\ row \in [Users -> Rows \cup {NoRow}]
    /\ now \in Times
    /\ req \in [Calls -> [user : Users, kind : Kinds]]
    /\ pc \in [Calls -> Pcs]
    /\ snap \in [Calls -> Rows \cup {NoRow}]
    /\ at \in [Calls -> Times]
    /\ up \subseteq Calls
    /\ stored \subseteq up
    /\ chargedAt \in [Calls -> Times \cup {Never}]
    /\ orderly \in [Users -> BOOLEAN]

User(c) == req[c].user
Kind(c) == req[c].kind

FreshWindow(t) == [count |-> 0, since |-> t]
FreshRow(tier, t) ==
    [tier |-> tier, hour |-> FreshWindow(t), month |-> FreshWindow(t), files |-> 0]

Init ==
    /\ row \in [Users -> {NoRow, FreshRow("paid", 0)}]
    /\ now = 0
    /\ req \in [Calls -> [user : Users, kind : Kinds]]
    /\ pc = [c \in Calls |-> "new"]
    /\ snap = [c \in Calls |-> NoRow]
    /\ at = [c \in Calls |-> 0]
    /\ up = {}
    /\ stored = {}
    /\ chargedAt = [c \in Calls |-> Never]
    /\ orderly = [u \in Users |-> TRUE]
-----------------------------------------------------------------------------
Active(c)   == pc[c] \notin {"new", "served", "refused", "error"}
Goto(c, to) == pc' = [pc EXCEPT ![c] = to]

\* verify_only is FALSE: for a query always, for a file once it is uploaded.
Charging(c) == Kind(c) = "query" \/ c \in up

\* check_and_increment_limits returns...
Pass(c) == Goto(c, IF Charging(c) THEN "served" ELSE "act")

\* ... or raises, which the caller logs when the file is there already.
Raise(c, to) == Goto(c, IF Kind(c) = "file" /\ c \in up THEN "served" ELSE to)

\* Only the free tier is checked; the others are just counted.
ByTier(c) ==
    IF row[User(c)].tier = "free" THEN Goto(c, "check")
    ELSE IF Charging(c) THEN Goto(c, "read")
    ELSE Pass(c)

\* Variant with a fault: the check looks at the counters before the call.
AllowedBefore(r, kind) ==
    IF kind = "query"
    THEN r.hour.count <= Limits.hour /\ r.month.count <= Limits.month
    ELSE r.files <= Limits.files

\* check_limit compares the stored counters, whether or not their windows are over.
Allowed(r, kind) ==
    IF kind = "query"
    THEN r.hour.count + 1 <= Limits.hour /\ r.month.count + 1 <= Limits.month
    ELSE r.files + 1 <= Limits.files

\* Variant with a fault: a new window starts with the old count.
SlideWindow(w, len, t) ==
    [count |-> w.count + 1, since |-> IF t > w.since + len THEN t ELSE w.since]

\* update_usage: a window that is over is started again.
BumpWindow(w, len, t) ==
    IF t > w.since + len THEN [count |-> 1, since |-> t]
    ELSE [w EXCEPT !.count = @ + 1]

Bump(r, kind, t) ==
    IF kind = "query"
    THEN [r EXCEPT !.hour = BumpWindow(@, HourLen, t),
                   !.month = BumpWindow(@, MonthLen, t)]
    ELSE [r EXCEPT !.files = @ + 1]
-----------------------------------------------------------------------------
\* A request arrives.
Begin(c) ==
    /\ pc[c] = "new"
    /\ Goto(c, "load")
    /\ orderly' = [orderly EXCEPT ![User(c)] =
                     @ /\ \A e \in Calls : User(e) = User(c) => ~Active(e)]
    /\ UNCHANGED <<row, now, req, snap, at, up, stored, chargedAt>>

\* get_user_limits.
Load(c) ==
    /\ pc[c] = "load"
    /\ \/ row[User(c)] = NoRow /\ Goto(c, "create")
       \/ row[User(c)] # NoRow /\ ByTier(c)
    /\ UNCHANGED <<row, now, req, snap, at, up, stored, chargedAt, orderly>>

\* create_user: nothing happens to a row that another call has created meanwhile.
Create(c) ==
    LET u == User(c) IN
    /\ pc[c] = "create"
    /\ Goto(c, "reload")
    /\ \/ /\ row' = [row EXCEPT ![u] = IF @ = NoRow THEN FreshRow("free", now) ELSE @]
          /\ UNCHANGED orderly
       \/ /\ DbFails
          /\ orderly' = [orderly EXCEPT ![u] = FALSE]
          /\ UNCHANGED row
    /\ UNCHANGED <<now, req, snap, at, up, stored, chargedAt>>

\* get_user_limits once more; a call whose user still has no row goes unchecked.
Reload(c) ==
    /\ pc[c] = "reload"
    /\ \/ row[User(c)] = NoRow /\ Pass(c)
       \/ row[User(c)] # NoRow /\ ByTier(c)
    /\ UNCHANGED <<row, now, req, snap, at, up, stored, chargedAt, orderly>>

\* check_limit reads the row for itself.
Check(c) ==
    /\ pc[c] = "check"
    /\ \/ /\ Allowed(row[User(c)], Kind(c))
          /\ IF Charging(c) THEN Goto(c, "read") ELSE Pass(c)
       \/ /\ ~Allowed(row[User(c)], Kind(c))
          /\ Raise(c, "refused")
    /\ UNCHANGED <<row, now, req, snap, at, up, stored, chargedAt, orderly>>

\* update_usage selects the row...
ReadUsage(c) ==
    /\ pc[c] = "read"
    /\ snap' = [snap EXCEPT ![c] = row[User(c)]]
    /\ at' = [at EXCEPT ![c] = now]
    /\ Goto(c, "write")
    /\ UNCHANGED <<row, now, req, up, stored, chargedAt, orderly>>

\* ... and writes back the usage it has read, with its own increment.
WriteUsage(c) ==
    /\ pc[c] = "write"
    /\ row' = [row EXCEPT ![User(c)] = Bump(snap[c], Kind(c), at[c])]
    /\ chargedAt' = [chargedAt EXCEPT ![c] = now]
    /\ snap' = [snap EXCEPT ![c] = NoRow]
    /\ at' = [at EXCEPT ![c] = 0]
    /\ Pass(c)
    /\ UNCHANGED <<now, req, up, stored, orderly>>

\* A read that fails makes the whole call fail; a failure to record is swallowed.
DbError(c) ==
    /\ DbFails
    /\ \/ pc[c] \in {"load", "reload", "check"} /\ Raise(c, "error")
       \/ pc[c] \in {"read", "write"} /\ Pass(c)
    /\ orderly' = [orderly EXCEPT ![User(c)] = FALSE]
    /\ snap' = [snap EXCEPT ![c] = NoRow]
    /\ at' = [at EXCEPT ![c] = 0]
    /\ UNCHANGED <<row, now, req, up, stored, chargedAt>>

\* ingest_file uploads the file, then charges for it.
Upload(c) ==
    /\ pc[c] = "act"
    /\ up' = up \cup {c}
    /\ stored' = stored \cup {c}
    /\ Goto(c, "load")
    /\ UNCHANGED <<row, now, req, snap, at, chargedAt, orderly>>

\* Variant with a fault: deleting a document takes its file off a counter that overlapping
\* calls may have kept from ever counting it.
DeleteFileReleases(c) ==
    /\ pc[c] = "served" /\ c \in stored
    /\ stored' = stored \ {c}
    /\ row' = [row EXCEPT ![User(c)] = IF @ = NoRow THEN @ ELSE [@ EXCEPT !.files = @ - 1]]
    /\ UNCHANGED <<now, req, pc, snap, at, up, chargedAt, orderly>>

\* delete_document deletes the file and leaves the counters as they are.
DeleteFile(c) ==
    /\ pc[c] = "served" /\ c \in stored
    /\ stored' = stored \ {c}
    /\ UNCHANGED <<row, now, req, pc, snap, at, up, chargedAt, orderly>>

Tick ==
    /\ now < MaxTime
    /\ now' = now + 1
    /\ UNCHANGED <<row, req, pc, snap, at, up, stored, chargedAt, orderly>>

CallStep(c) ==
    \/ Begin(c) \/ Load(c) \/ Create(c) \/ Reload(c) \/ Check(c)
    \/ ReadUsage(c) \/ WriteUsage(c) \/ DbError(c) \/ Upload(c) \/ DeleteFile(c)

Next == Tick \/ \E c \in Calls : CallStep(c)

Spec == Init /\ [][Next]_vars
-----------------------------------------------------------------------------
(* What holds.                                                             *)

Uploads(u)        == {c \in up : User(c) = u}
QueriesSince(u, t) ==
    {c \in Calls : User(c) = u /\ Kind(c) = "query" /\ chargedAt[c] # Never /\ chargedAt[c] >= t}

\* A user is never charged for more than was done: overlapping calls lose counts
\* (update_usage writes back what it has read) but never add any, and a counter with
\* a window counts only calls recorded since the window began.
NeverOvercharged ==
    \A u \in Users : row[u] # NoRow =>
        /\ row[u].files <= Cardinality(Uploads(u))
        /\ row[u].hour.count <= Cardinality(QueriesSince(u, row[u].hour.since))
        /\ row[u].month.count <= Cardinality(QueriesSince(u, row[u].month.since))

StoredFiles(u)     == {c \in stored : User(c) = u}
QueriesAfter(u, t) == QueriesSince(u, t + 1)

\* A user whose calls come one at a time gets nothing for free: every query that is
\* served was recorded, each window counts all queries recorded after it began, and between
\* calls no file in storage is uncounted.  On the free tier neither the files in storage
\* nor the counts exceed the limits (check_and_increment_limits, update_usage).
OrderlyCallsAreHeld ==
    \A u \in Users : (orderly[u] /\ row[u] # NoRow) =>
        /\ \A c \in Calls :
               User(c) = u /\ Kind(c) = "query" /\ pc[c] = "served" => chargedAt[c] # Never
        /\ Cardinality(QueriesAfter(u, row[u].hour.since)) <= row[u].hour.count
        /\ Cardinality(QueriesAfter(u, row[u].month.since)) <= row[u].month.count
        /\ (\A c \in Calls : User(c) = u => ~Active(c)) =>
               Cardinality(StoredFiles(u)) <= row[u].files
        /\ row[u].tier = "free" => /\ Cardinality(StoredFiles(u)) <= Limits.files
                                  /\ row[u].hour.count <= Limits.hour
                                  /\ row[u].month.count <= Limits.month
-----------------------------------------------------------------------------
(* What the repository says and the code does not do.                      *)

\* "Maximum queries per hour", "Maximum queries per month" (TIER_LIMITS): a query is
\* refused only to a user who has made that many of late.
RefusedOnlyAtTheLimit ==
    [][\A c \in Calls :
         (Kind(c) = "query" /\ pc[c] = "check" /\ pc'[c] = "refused") =>
             \/ Cardinality(QueriesSince(User(c), now - HourLen)) >= Limits.hour
             \/ Cardinality(QueriesSince(User(c), now - MonthLen)) >= Limits.month]_vars

\* "Maximum number of files in storage" (TIER_LIMITS): a free user never has more.
StorageWithinLimit ==
    \A u \in Users : (row[u] # NoRow /\ row[u].tier = "free") =>
        Cardinality(StoredFiles(u)) <= Limits.files

\* "Maximum number of files in storage" (TIER_LIMITS), "Please delete some files or upgrade
\* to remove limits" (check_and_increment_limits): a file is refused only to a user who has
\* that many files in storage.
RefusedOnlyAtFullStorage ==
    [][\A c \in Calls :
         (Kind(c) = "file" /\ pc[c] = "check" /\ pc'[c] = "refused") =>
             Cardinality(StoredFiles(User(c))) >= Limits.files]_vars
=============================================================================
