--------------------------- MODULE Routing_proofs ---------------------------
(***************************************************************************)
(* Machine-checked theorems about Apps and Routing, for any calls, names,  *)
(* plans, limit, faults and requests, and about Accounts, which puts them  *)
(* beside the metered calls of UsageLimits.                                *)
(***************************************************************************)
EXTENDS Accounts, UsageLimits_proofs, FiniteSetTheorems, TLAPS

\* Until its rows are saved nobody but the call that makes it knows an application.
Unborn(a) == \/ acall[a].pc = "idle"
             \/ acall[a].op = "provision" /\ acall[a].pc \in {"create", "prepare", "bucket", "save"}

OwnApp(c) == /\ acall[c].op = "provision" \/ acall[c].pc = "idle" => acall[c].app = c
             /\ acall[c].pc # "idle" => acall[c].name \in ANames

Unknown(a) == /\ a \notin appIds /\ a \notin issued /\ ~Listed(a) /\ ~Recorded(a)
              /\ \A c \in ACalls : acall[c].app = a => c = a

OwnInv ==
    /\ AppsTypeOK
    /\ \A c \in ACalls : OwnApp(c) /\ (Unborn(c) => Unknown(c))

\* Calls that run together have lapped; only the plan "teams" lets a call register.
OneAtATime ==
    /\ \A c, d \in ACalls : AppActive(c) /\ AppActive(d) /\ c # d => c \in lapped
    /\ \A c \in lapped : acall[c].pc # "idle"

\* A call alone finds the room it has seen.
LimitInv ==
    /\ IsFiniteSet(appIds)
    /\ \A c \in ACalls : acall[c].pc = "register" => plan = "teams"
    /\ \A c \in ACalls \ lapped : acall[c].pc \in {"named", "enroll"} => Room(acall[c].app)
    /\ OrderlyLimitHolds

\* The project, the bucket and the row in app_metadata of an application.
Making(a)  == acall[a].op = "provision" /\ acall[a].pc \in {"prepare", "bucket", "save"}
Nuked(c, a, pcs) == acall[c].app = a /\ acall[c].op = "nuke" /\ acall[c].pc \in pcs
MadeWhole(a) ==
    /\ a \in projects => Recorded(a) \/ Making(a)
    /\ Making(a) => a \in projects
    /\ Recorded(a) => a \in projects \/ \E c \in ACalls : Nuked(c, a, {"empty", "rows"})
    /\ a \in buckets => a \in projects \/ \E c \in ACalls : Nuked(c, a, {"empty"})
    /\ \A c \in ACalls : Nuked(c, a, {"empty", "rows"}) => a \notin projects

\* The row in apps of an application and its place in app_ids.
Linked(a)  == \A r \in appRows : r.app = a => r.uri
Counted(a) == (Listed(a) <=> a \in appIds) /\ Linked(a)
Excused(a) == a \in faulty \/ Raced(a) \/ At(a, "provision", "refused")
Phase(to, a) ==
    /\ to \in {"eligible", "register"} => Listed(a) /\ Linked(a)
    /\ to \in {"named", "enroll", "fetch", "project", "empty", "rows", "row"} => Counted(a)
    /\ to = "insert" => a \in appIds /\ Linked(a)
    /\ to = "link" => a \in appIds /\ Listed(a)
    /\ to = "unregister" => ~Listed(a)
ListedWhole(a) ==
    /\ \A c \in ACalls : AppActive(c) /\ acall[c].app = a => Phase(acall[c].pc, a)
    /\ ~Busy(a) => Counted(a)

AppsInv ==
    /\ OwnInv
    /\ OneAtATime
    /\ \A a \in ACalls \ faulty : MadeWhole(a)
    /\ \A a \in ACalls : ~Excused(a) => ListedWhole(a)

\* The requests: what an undisturbed one has used, and what it finds in the fields.
Fits(q, st) == st.db = q.own /\ st.vector = q.own /\ (q.whole => st.multi = q.own)
RoutedInv ==
    /\ RoutingTypeOK
    /\ \A r \in Requests \ crossed : /\ request[r].pc = "work" => Fits(request[r], stores)
                                     /\ \A st \in request[r].used : Fits(request[r], st)

\* What is remembered of an application, or about to be, is not remembered before it is made.
RememberedInv ==
    /\ \A a \in ACalls : Unborn(a) => resolved[a] = "unknown"
    /\ \A r \in Requests : request[r].pc = "resolve" => request[r].token \in ACalls /\ ~Unborn(request[r].token)
    /\ \A a \in ACalls : resolved[a] = "none" => ~Recorded(a)

-----------------------------------------------------------------------------
(* What a step of a call on an application leaves alone.                   *)

\* Nothing of application b changes.
Spared(b) ==
    /\ (b \in appIds)' <=> b \in appIds
    /\ (b \in projects)' <=> b \in projects
    /\ (b \in buckets)' <=> b \in buckets
    /\ (b \in issued)' <=> b \in issued
    /\ (b \in faulty)' <=> b \in faulty
    /\ Listed(b)' <=> Listed(b)
    /\ Linked(b)' <=> Linked(b)
    /\ Recorded(b)' <=> Recorded(b)

\* Call c goes on to step "to"; it and all others work on what they did.
Moved(c, to) ==
    /\ acall' \in [ACalls -> AppCall]
    /\ acall'[c].pc = to /\ acall'[c].op = acall[c].op
    /\ acall'[c].app = acall[c].app /\ acall'[c].name = acall[c].name
    /\ \A d \in ACalls \ {c} : acall'[d] = acall[d]

\* A step of a running call.
Turns(c, to) ==
    /\ AppActive(c) /\ to # "idle"
    /\ Moved(c, to)
    /\ AppsTypeOK'
    /\ UNCHANGED lapped
    /\ faulty \subseteq faulty'
    /\ \A b \in ACalls : b # acall[c].app => Spared(b)

LEMMA GoingMoves ==
    ASSUME AppsTypeOK, NEW c \in ACalls, NEW to \in AppPcs, AppGoes(c, to)
    PROVE  Moved(c, to)
<1>1. PICK b \in AppCall : b = acall[c]
  BY DEF AppsTypeOK
<1>2. PICK e : e = [b EXCEPT !.pc = to]
  OBVIOUS
<1>3. e \in AppCall /\ e.pc = to /\ e.op = b.op /\ e.app = b.app /\ e.name = b.name
  BY <1>2 DEF AppCall
<1>4. acall' = [acall EXCEPT ![c] = e]
  BY <1>1, <1>2 DEF AppGoes
<1> QED
  BY <1>1, <1>3, <1>4 DEF Moved, AppsTypeOK

-----------------------------------------------------------------------------
(* What a step has to show to keep the invariant.                          *)

LEMMA TurnKeepsOwn ==
    ASSUME OwnInv, NEW c \in ACalls, NEW to, Turns(c, to),
           Unborn(c)' => /\ Unborn(c)
                         /\ (c \notin appIds /\ c \notin issued /\ ~Listed(c) /\ ~Recorded(c))'
    PROVE  OwnInv'
<1>1. \A d \in ACalls : OwnApp(d)'
  BY DEF OwnInv, OwnApp, Turns, Moved, AppActive, Ended
<1>2. \A d \in ACalls : acall'[d].app = acall[d].app
  BY DEF Turns, Moved
<1>3. ASSUME NEW b \in ACalls, Unborn(b)'
      PROVE  Unknown(b)'
  <2>1. CASE b = c
    BY <1>2, <1>3, <2>1 DEF OwnInv, Unknown
  <2>2. CASE b # c
    <3>1. Unborn(b) /\ Unknown(b)
      BY <1>3, <2>2 DEF Turns, Moved, Unborn, OwnInv
    <3>2. Spared(b)
      BY <2>2, <3>1 DEF Unknown, Turns
    <3> QED
      BY <1>2, <3>1, <3>2 DEF Unknown, Spared
  <2> QED
    BY <2>1, <2>2
<1> QED
  BY <1>1, <1>3 DEF OwnInv, Turns

LEMMA TurnKeepsOrder ==
    ASSUME OneAtATime, NEW c \in ACalls, NEW to, Turns(c, to)
    PROVE  OneAtATime'
BY DEF OneAtATime, Turns, Moved, AppActive, AppsTypeOK

LEMMA TurnKeepsMade ==
    ASSUME OwnInv, \A b \in ACalls \ faulty : MadeWhole(b), NEW c \in ACalls, NEW to, Turns(c, to),
           NEW a, a = acall[c].app, a \notin faulty' => MadeWhole(a)'
    PROVE  (\A b \in ACalls \ faulty : MadeWhole(b))'
<1> SUFFICES ASSUME NEW b \in ACalls, b \notin faulty' PROVE MadeWhole(b)'
  OBVIOUS
<1>1. CASE b = a
  BY <1>1
<1>2. CASE b # a
  <2>1. Spared(b) /\ MadeWhole(b)
    BY <1>2 DEF Turns
  <2>2. Making(b)' <=> Making(b)
    BY <1>2 DEF Turns, Moved, Making, OwnInv, OwnApp
  <2>3. \A d \in ACalls, pcs \in {{"empty", "rows"}, {"empty"}} : Nuked(d, b, pcs)' <=> Nuked(d, b, pcs)
    BY <1>2 DEF Turns, Moved, Nuked
  <2> QED
    BY <2>1, <2>2, <2>3 DEF MadeWhole, Spared
<1> QED
  BY <1>1, <1>2

\* Whatever excuses an application goes on to.
LEMMA TurnExcuses ==
    ASSUME NEW c \in ACalls, NEW to, Turns(c, to), NEW b \in ACalls, ~Excused(b)'
    PROVE  ~Excused(b)
<1>1. b \notin faulty /\ ~Raced(b)
  BY DEF Excused, Raced, Turns, Moved, AppsTypeOK
<1>2. ~At(b, "provision", "refused")
  BY DEF Excused, At, Turns, Moved, AppActive, Ended
<1> QED
  BY <1>1, <1>2 DEF Excused

LEMMA TurnKeepsListed ==
    ASSUME AppsInv, NEW c \in ACalls, NEW to, Turns(c, to), NEW a, a = acall[c].app,
           ~Excused(a)' /\ Phase(acall[c].pc, a) => IF to \in Ended THEN Counted(a)' ELSE Phase(to, a)'
    PROVE  (\A b \in ACalls : ~Excused(b) => ListedWhole(b))'
<1> SUFFICES ASSUME NEW b \in ACalls, ~Excused(b)' PROVE ListedWhole(b)'
  OBVIOUS
<1>1. ~Excused(b) /\ ListedWhole(b)
  BY TurnExcuses DEF AppsInv
<1>2. \A d \in ACalls : AppActive(d) /\ acall[d].app = b => d = c
  <2>1. ASSUME NEW d \in ACalls, AppActive(d), acall[d].app = b, d # c
        PROVE  FALSE
    <3>1. d \in lapped
      BY <2>1 DEF AppsInv, OneAtATime, Turns
    <3> QED
      BY <1>1, <2>1, <3>1 DEF Excused, Raced
  <2> QED
    BY <2>1
<1>3. CASE b = a
  <2>1. Phase(acall[c].pc, a)
    BY <1>1, <1>3 DEF ListedWhole, Turns
  <2>2. \A d \in ACalls \ {c} : acall'[d].app = b => ~AppActive(d)'
    BY <1>2 DEF Turns, Moved, AppActive
  <2>3. AppActive(c)' <=> to \notin Ended
    BY DEF Turns, Moved, AppActive
  <2>4. acall'[c].pc = to /\ acall'[c].app = b
    BY <1>3 DEF Turns, Moved
  <2> QED
    BY <1>3, <2>1, <2>2, <2>3, <2>4 DEF ListedWhole, Busy
<1>4. CASE b # a
  <2>1. \A d \in ACalls : acall'[d].app = b => ~AppActive(d)' /\ ~AppActive(d) /\ acall[d].app = b
    BY <1>2, <1>4 DEF Turns, Moved, AppActive
  <2>2. Counted(b)
    BY <1>1, <1>2, <1>4 DEF ListedWhole, Busy
  <2>3. Spared(b)
    BY <1>4 DEF Turns
  <2> QED
    BY <2>1, <2>2, <2>3 DEF ListedWhole, Busy, Counted, Spared
<1> QED
  BY <1>3, <1>4

\* The four together.
LEMMA TurnKeeps ==
    ASSUME AppsInv, NEW c \in ACalls, NEW to, Turns(c, to), NEW a, a = acall[c].app,
           Unborn(c)' => /\ Unborn(c)
                         /\ (c \notin appIds /\ c \notin issued /\ ~Listed(c) /\ ~Recorded(c))',
           a \notin faulty' => MadeWhole(a)',
           ~Excused(a)' /\ Phase(acall[c].pc, a) => IF to \in Ended THEN Counted(a)' ELSE Phase(to, a)'
    PROVE  AppsInv'
<1>1. OwnInv'
  BY TurnKeepsOwn DEF AppsInv
<1>2. OneAtATime'
  BY TurnKeepsOrder DEF AppsInv
<1>3. (\A b \in ACalls \ faulty : MadeWhole(b))'
  BY TurnKeepsMade DEF AppsInv
<1>4. (\A b \in ACalls : ~Excused(b) => ListedWhole(b))'
  BY TurnKeepsListed
<1> QED
  BY <1>1, <1>2, <1>3, <1>4 DEF AppsInv

\* A call that fails leaves its application faulty.
LEMMA FailKeeps ==
    ASSUME AppsInv, NEW c \in ACalls, AppActive(c), NEW fault, Fails(c, fault),
           UNCHANGED <<plan, appIds, appRows, metaRows, projects, buckets, issued, lapped>>
    PROVE  AppsInv'
<1>1. PICK a \in ACalls : a = acall[c].app
  BY DEF AppsInv, OwnInv, AppsTypeOK, AppCall
<1>2. Moved(c, "failed")
  BY GoingMoves DEF Fails, AppPcs, AppsInv, OwnInv
<1>3. faulty' = faulty \cup {a}
  BY <1>1 DEF Fails
<1>4. AppsTypeOK'
  BY <1>2, <1>3 DEF Moved, AppsTypeOK, AppsInv, OwnInv
<1>5. \A b \in ACalls : b # a => Spared(b)
  BY <1>3 DEF Spared, Listed, Linked, Recorded
<1>6. Turns(c, "failed")
  BY <1>1, <1>2, <1>3, <1>4, <1>5 DEF Turns
<1>7. ~Unborn(c)' /\ Excused(a)' /\ a \in faulty'
  BY <1>2, <1>3 DEF Moved, Unborn, Excused
<1> QED
  BY <1>1, <1>6, <1>7, TurnKeeps

-----------------------------------------------------------------------------
(* The rows of an application.                                             *)

\* Nothing but application a differs.
Only(a) ==
    /\ appIds' \ {a} = appIds \ {a}
    /\ projects' \ {a} = projects \ {a}
    /\ buckets' \ {a} = buckets \ {a}
    /\ issued' \ {a} = issued \ {a}
    /\ faulty' \ {a} = faulty \ {a} /\ faulty \subseteq faulty'
    /\ Without(appRows', a) = Without(appRows, a) /\ appRows' \subseteq AppRow
    /\ Without(metaRows', a) = Without(metaRows, a) /\ metaRows' \subseteq MetaRow

LEMMA OnlySpares ==
    ASSUME NEW a, Only(a), NEW b, b # a
    PROVE  Spared(b)
<1>1. /\ (b \in appIds)' <=> b \in appIds
      /\ (b \in projects)' <=> b \in projects
      /\ (b \in buckets)' <=> b \in buckets
      /\ (b \in issued)' <=> b \in issued
      /\ (b \in faulty)' <=> b \in faulty
  BY DEF Only
<1>2. \A r : r.app = b => (r \in appRows' <=> r \in appRows) /\ (r \in metaRows' <=> r \in metaRows)
  BY DEF Only, Without
<1> QED
  BY <1>1, <1>2 DEF Spared, Listed, Linked, Recorded

LEMMA Turning ==
    ASSUME AppsInv, NEW c \in ACalls, AppActive(c), NEW to \in AppPcs, to # "idle", AppGoes(c, to),
           UNCHANGED <<plan, lapped>>, NEW a, a = acall[c].app, Only(a)
    PROVE  Turns(c, to) /\ a \in ACalls
<1>1. a \in ACalls /\ AppsTypeOK
  BY DEF AppsInv, OwnInv, AppsTypeOK, AppCall
<1>2. Moved(c, to)
  BY <1>1, GoingMoves
<1>3. AppsTypeOK'
  BY <1>1, <1>2 DEF Only, AppsTypeOK, Moved
<1>4. \A b \in ACalls : b # a => Spared(b)
  BY OnlySpares
<1> QED
  BY <1>1, <1>2, <1>3, <1>4 DEF Turns, Only

LEMMA RowsAdded ==
    ASSUME NEW a \in ACalls, NEW n \in ANames, NEW u \in BOOLEAN, appRows \subseteq AppRow,
           appRows' = appRows \cup {[app |-> a, name |-> n, uri |-> u]}
    PROVE  /\ Without(appRows', a) = Without(appRows, a) /\ appRows' \subseteq AppRow
           /\ Listed(a)'
           /\ Linked(a)' <=> Linked(a) /\ u
<1>1. PICK e : e = [app |-> a, name |-> n, uri |-> u]
  OBVIOUS
<1>2. e \in AppRow /\ e.app = a /\ e.uri = u /\ appRows' = appRows \cup {e}
  BY <1>1 DEF AppRow
<1> QED
  BY <1>2 DEF Without, Listed, Linked

LEMMA RowsRemoved ==
    ASSUME NEW a, appRows \subseteq AppRow, appRows' = Without(appRows, a)
    PROVE  /\ Without(appRows', a) = Without(appRows, a) /\ appRows' \subseteq AppRow
           /\ ~Listed(a)' /\ Linked(a)'
BY DEF Without, Listed, Linked

LEMMA RowsMapped ==
    ASSUME NEW a, NEW f, \A e : e \in appRows' <=> \E r \in appRows : e = f[r],
           \A r \in appRows : /\ f[r] \in AppRow /\ f[r].app = r.app
                              /\ r.app = a => f[r].uri = TRUE
                              /\ r.app # a => f[r] = r
    PROVE  /\ Without(appRows', a) = Without(appRows, a) /\ appRows' \subseteq AppRow
           /\ Listed(a) => Listed(a)'
           /\ Linked(a)'
<1>1. appRows' \subseteq AppRow
  OBVIOUS
<1>2. \A e : e.app # a => (e \in appRows' <=> e \in appRows)
  OBVIOUS
<1>3. Without(appRows', a) = Without(appRows, a)
  BY <1>2 DEF Without
<1>4. Listed(a) => Listed(a)'
  BY DEF Listed
<1>5. Linked(a)'
  BY DEF Linked
<1> QED
  BY <1>1, <1>3, <1>4, <1>5

LEMMA RowsLinked ==
    ASSUME NEW a, appRows \subseteq AppRow,
           appRows' = {IF r.app = a THEN [r EXCEPT !.uri = TRUE] ELSE r : r \in appRows}
    PROVE  /\ Without(appRows', a) = Without(appRows, a) /\ appRows' \subseteq AppRow
           /\ Listed(a) => Listed(a)'
           /\ Linked(a)'
<1>1. PICK f : f = [r \in appRows |-> IF r.app = a THEN [r EXCEPT !.uri = TRUE] ELSE r]
  OBVIOUS
<1>2. ASSUME NEW r \in appRows
      PROVE  /\ f[r] \in AppRow /\ f[r].app = r.app
             /\ r.app = a => f[r].uri = TRUE
             /\ r.app # a => f[r] = r
  BY <1>1 DEF AppRow
<1>3. \A e : e \in appRows' <=> \E r \in appRows : e = f[r]
  BY <1>1
<1> QED
  BY <1>2, <1>3, RowsMapped

LEMMA RecordAdded ==
    ASSUME NEW a \in ACalls, NEW n \in ANames, metaRows \subseteq MetaRow,
           metaRows' = metaRows \cup {[app |-> a, name |-> n]}
    PROVE  /\ Without(metaRows', a) = Without(metaRows, a) /\ metaRows' \subseteq MetaRow
           /\ Recorded(a)'
<1>1. PICK e : e = [app |-> a, name |-> n]
  OBVIOUS
<1>2. e \in MetaRow /\ e.app = a /\ metaRows' = metaRows \cup {e}
  BY <1>1 DEF MetaRow
<1> QED
  BY <1>2 DEF Without, Recorded

LEMMA RecordRemoved ==
    ASSUME NEW a, metaRows \subseteq MetaRow, metaRows' = Without(metaRows, a)
    PROVE  /\ Without(metaRows', a) = Without(metaRows, a) /\ metaRows' \subseteq MetaRow
           /\ ~Recorded(a)'
BY DEF Without, Recorded

-----------------------------------------------------------------------------
(* Provisioning.  Until the rows are saved nobody else knows the           *)
(* application; from then on it has everything but its place in the list.  *)

\* A step of the call that makes an application, before the rows are saved or when it saves them.
LEMMA UnbornTurn ==
    ASSUME AppsInv, NEW c \in ACalls, acall[c].op = "provision", Unborn(c), AppActive(c),
           NEW to \in AppPcs, to # "idle", AppGoes(c, to), UNCHANGED <<plan, lapped>>, Only(c)
    PROVE  /\ Turns(c, to) /\ acall[c].app = c /\ Unknown(c)
           /\ \A d \in ACalls : \A pcs : ~Nuked(d, c, pcs)'
           /\ Making(c)' <=> to \in {"prepare", "bucket", "save"}
<1>1. acall[c].app = c /\ Unknown(c)
  BY DEF AppsInv, OwnInv, OwnApp
<1>2. Turns(c, to)
  BY <1>1, Turning
<1>3. ASSUME NEW d \in ACalls, NEW pcs
      PROVE  ~Nuked(d, c, pcs)'
  BY <1>1, <1>2 DEF Nuked, Unknown, Turns, Moved
<1>4. Making(c)' <=> to \in {"prepare", "bucket", "save"}
  BY <1>2 DEF Making, Turns, Moved
<1> QED
  BY <1>1, <1>2, <1>3, <1>4

LEMMA CreateProjectKeeps ==
    ASSUME AppsInv, NEW c \in ACalls, CreateProject(c)
    PROVE  AppsInv'
<1>1. AppActive(c) /\ Unborn(c) /\ acall[c].op = "provision"
  BY DEF CreateProject, At, AppActive, Ended, Unborn
<1>2. CASE Fails(c, "remote") /\ UNCHANGED projects
  BY <1>1, <1>2, FailKeeps DEF CreateProject
<1>3. CASE AppGoes(c, "prepare") /\ projects' = projects \cup {c} /\ UNCHANGED faulty
  <2>1. Only(c)
    BY <1>3 DEF Only, CreateProject, AppsInv, OwnInv, AppsTypeOK
  <2>2. /\ Turns(c, "prepare") /\ acall[c].app = c /\ Unknown(c)
        /\ \A d \in ACalls : \A pcs : ~Nuked(d, c, pcs)'
        /\ Making(c)'
    BY <1>1, <1>3, <2>1, UnbornTurn DEF CreateProject, AppPcs
  <2>3. (c \notin appIds /\ c \notin issued /\ ~Listed(c) /\ ~Recorded(c))'
    BY <2>2 DEF Unknown, Listed, Recorded, CreateProject
  <2>4. MadeWhole(c)'
    BY <1>3, <2>2, <2>3 DEF MadeWhole
  <2>5. "prepare" \notin Ended /\ Phase("prepare", c)'
    BY DEF Phase, Ended
  <2> QED
    BY <1>1, <2>2, <2>3, <2>4, <2>5, TurnKeeps
<1> QED
  BY <1>2, <1>3 DEF CreateProject

LEMMA PrepareKeeps ==
    ASSUME AppsInv, NEW c \in ACalls, Prepare(c)
    PROVE  AppsInv'
<1>1. AppActive(c) /\ Unborn(c) /\ acall[c].op = "provision" /\ Making(c)
  BY DEF Prepare, At, AppActive, Ended, Unborn, Making
<1>2. CASE Fails(c, "remote")
  BY <1>1, <1>2, FailKeeps DEF Prepare
<1>3. CASE AppGoes(c, "bucket") /\ UNCHANGED faulty
  <2>1. Only(c)
    BY <1>3 DEF Only, Prepare, AppsInv, OwnInv, AppsTypeOK
  <2>2. /\ Turns(c, "bucket") /\ acall[c].app = c /\ Unknown(c)
        /\ \A d \in ACalls : \A pcs : ~Nuked(d, c, pcs)'
        /\ Making(c)'
    BY <1>1, <1>3, <2>1, UnbornTurn DEF Prepare, AppPcs
  <2>3. (c \notin appIds /\ c \notin issued /\ ~Listed(c) /\ ~Recorded(c))'
    BY <2>2 DEF Unknown, Listed, Recorded, Prepare
  <2>4. c \notin faulty' => MadeWhole(c)'
    BY <1>1, <1>3, <2>2, <2>3 DEF MadeWhole, AppsInv, Prepare
  <2>5. "bucket" \notin Ended /\ Phase("bucket", c)'
    BY DEF Phase, Ended
  <2> QED
    BY <1>1, <2>2, <2>3, <2>4, <2>5, TurnKeeps
<1> QED
  BY <1>2, <1>3 DEF Prepare

LEMMA CreateBucketKeeps ==
    ASSUME AppsInv, NEW c \in ACalls, CreateBucket(c)
    PROVE  AppsInv'
<1>1. AppActive(c) /\ Unborn(c) /\ acall[c].op = "provision" /\ Making(c)
  BY DEF CreateBucket, At, AppActive, Ended, Unborn, Making
<1>2. CASE Fails(c, "remote") /\ UNCHANGED buckets
  BY <1>1, <1>2, FailKeeps DEF CreateBucket
<1>3. CASE AppGoes(c, "save") /\ buckets' \in {buckets, buckets \cup {c}} /\ UNCHANGED faulty
  <2>1. Only(c)
    BY <1>3 DEF Only, CreateBucket, AppsInv, OwnInv, AppsTypeOK
  <2>2. /\ Turns(c, "save") /\ acall[c].app = c /\ Unknown(c)
        /\ \A d \in ACalls : \A pcs : ~Nuked(d, c, pcs)'
        /\ Making(c)'
    BY <1>1, <1>3, <2>1, UnbornTurn DEF CreateBucket, AppPcs
  <2>3. (c \notin appIds /\ c \notin issued /\ ~Listed(c) /\ ~Recorded(c))'
    BY <2>2 DEF Unknown, Listed, Recorded, CreateBucket
  <2>4. c \notin faulty' => MadeWhole(c)'
    BY <1>1, <1>3, <2>2, <2>3 DEF MadeWhole, AppsInv, CreateBucket
  <2>5. "save" \notin Ended /\ Phase("save", c)'
    BY DEF Phase, Ended
  <2> QED
    BY <1>1, <2>2, <2>3, <2>4, <2>5, TurnKeeps
<1> QED
  BY <1>2, <1>3 DEF CreateBucket

LEMMA SaveRowsKeeps ==
    ASSUME AppsInv, NEW c \in ACalls, SaveRows(c)
    PROVE  AppsInv'
<1>1. AppActive(c) /\ Unborn(c) /\ acall[c].op = "provision" /\ Making(c)
  BY DEF SaveRows, At, AppActive, Ended, Unborn, Making
<1>2. CASE Fails(c, "db") /\ UNCHANGED <<metaRows, appRows, issued>>
  BY <1>1, <1>2, FailKeeps DEF SaveRows
<1>3. CASE /\ AppGoes(c, "eligible")
           /\ metaRows' = metaRows \cup {[app |-> c, name |-> acall[c].name]}
           /\ appRows' = appRows \cup {[app |-> c, name |-> acall[c].name, uri |-> TRUE]}
           /\ issued' = issued \cup {c}
           /\ UNCHANGED faulty
  <2>1. PICK n \in ANames : n = acall[c].name
    BY <1>1 DEF AppsInv, OwnInv, OwnApp, AppActive, Ended
  <2>2. appRows \subseteq AppRow /\ metaRows \subseteq MetaRow
    BY DEF AppsInv, OwnInv, AppsTypeOK
  <2>3. /\ Without(appRows', c) = Without(appRows, c) /\ appRows' \subseteq AppRow
        /\ Listed(c)'
        /\ Linked(c)' <=> Linked(c) /\ TRUE
    BY <1>3, <2>1, <2>2, RowsAdded
  <2>4. /\ Without(metaRows', c) = Without(metaRows, c) /\ metaRows' \subseteq MetaRow
        /\ Recorded(c)'
    BY <1>3, <2>1, <2>2, RecordAdded
  <2>5. Only(c)
    BY <1>3, <2>3, <2>4 DEF Only, SaveRows
  <2>6. /\ Turns(c, "eligible") /\ acall[c].app = c /\ Unknown(c)
        /\ \A d \in ACalls : \A pcs : ~Nuked(d, c, pcs)'
        /\ ~Making(c)'
    BY <1>1, <1>3, <2>5, UnbornTurn DEF SaveRows, AppPcs
  <2>7. ~Unborn(c)'
    BY <2>6 DEF Unborn, Turns, Moved
  <2>8. c \notin faulty' => MadeWhole(c)'
    BY <1>1, <1>3, <2>4, <2>6 DEF MadeWhole, AppsInv, SaveRows
  <2>9. Linked(c)'
    BY <2>3, <2>6 DEF Unknown, Listed, Linked
  <2>10. "eligible" \notin Ended /\ Phase("eligible", c)'
    BY <2>3, <2>9 DEF Phase, Ended
  <2> QED
    BY <1>1, <2>6, <2>7, <2>8, <2>10, TurnKeeps
<1> QED
  BY <1>2, <1>3 DEF SaveRows

\* A step of a call on an application that exists, away from its project, bucket and record.
LEMMA BornTurn ==
    ASSUME AppsInv, NEW c \in ACalls, AppActive(c), ~Unborn(c),
           NEW to \in AppPcs \ {"idle", "create", "prepare", "bucket", "save"}, AppGoes(c, to),
           UNCHANGED <<plan, lapped>>, NEW a, a = acall[c].app, Only(a)
    PROVE  /\ Turns(c, to) /\ a \in ACalls /\ ~Unborn(c)'
           /\ ~Excused(a)' => Phase(acall[c].pc, a)
<1>1. Turns(c, to) /\ a \in ACalls
  BY Turning
<1>2. ~Unborn(c)'
  BY <1>1 DEF Turns, Moved, Unborn
<1>3. ~Excused(a)' => Phase(acall[c].pc, a)
  BY <1>1, TurnExcuses DEF AppsInv, ListedWhole
<1> QED
  BY <1>1, <1>2, <1>3

LEMMA MadeStays ==
    ASSUME AppsInv, NEW c \in ACalls, NEW to, Turns(c, to), NEW a \in ACalls, a = acall[c].app, a \notin faulty',
           UNCHANGED <<projects, buckets, metaRows>>, ~Unborn(c), ~Unborn(c)',
           acall[c].op # "nuke" \/ (acall[c].pc \notin {"empty", "rows"} /\ to \notin {"empty", "rows"})
    PROVE  MadeWhole(a)'
<1>1. MadeWhole(a) /\ (Recorded(a)' <=> Recorded(a))
  BY DEF AppsInv, Turns, Recorded
<1>2. Making(a)' <=> Making(a)
  BY DEF Turns, Moved, Making, Unborn
<1>3. \A d \in ACalls, pcs \in {{"empty", "rows"}, {"empty"}} : Nuked(d, a, pcs)' <=> Nuked(d, a, pcs)
  BY DEF Turns, Moved, Nuked
<1> QED
  BY <1>1, <1>2, <1>3 DEF MadeWhole

LEMMA EligibleKeeps ==
    ASSUME AppsInv, NEW c \in ACalls, Eligible(c)
    PROVE  AppsInv'
<1>1. PICK a : a = acall[c].app
  OBVIOUS
<1>2. PICK to \in {"register", "refused"} : AppGoes(c, to)
  BY DEF Eligible
<1>3. AppActive(c) /\ ~Unborn(c) /\ acall[c].op = "provision" /\ acall[c].pc = "eligible" /\ a = c
  BY <1>1 DEF Eligible, At, AppActive, Ended, Unborn, AppsInv, OwnInv, OwnApp
<1>4. Only(a)
  BY DEF Only, Eligible, AppsInv, OwnInv, AppsTypeOK
<1>5. /\ Turns(c, to) /\ a \in ACalls /\ ~Unborn(c)'
      /\ ~Excused(a)' => Phase("eligible", a)
  BY <1>1, <1>2, <1>3, <1>4, BornTurn DEF Eligible, AppPcs
<1>6. a \notin faulty' => MadeWhole(a)'
  BY <1>1, <1>3, <1>5, MadeStays DEF Eligible
<1>7. ~Excused(a)' /\ Phase("eligible", a) => to \notin Ended /\ Phase(to, a)'
  <2>1. ASSUME ~Excused(a)' PROVE to = "register"
    BY <1>2, <1>3, <1>5, <2>1 DEF Excused, At, Turns, Moved
  <2> QED
    BY <2>1 DEF Phase, Listed, Linked, Ended, Eligible
<1> QED
  BY <1>1, <1>3, <1>5, <1>6, <1>7, TurnKeeps

LEMMA RegisterKeeps ==
    ASSUME AppsInv, NEW c \in ACalls, Register(c)
    PROVE  AppsInv'
<1>1. PICK a : a = acall[c].app
  OBVIOUS
<1>2. AppActive(c) /\ ~Unborn(c) /\ acall[c].op = "provision" /\ acall[c].pc = "register" /\ a = c
  BY <1>1 DEF Register, At, AppActive, Ended, Unborn, AppsInv, OwnInv, OwnApp
<1>3. Only(a)
  BY <1>2 DEF Only, Register, AppsInv, OwnInv, AppsTypeOK
<1>4. /\ Turns(c, "done") /\ a \in ACalls /\ ~Unborn(c)'
      /\ ~Excused(a)' => Phase("register", a)
  BY <1>1, <1>2, <1>3, BornTurn DEF Register, AppPcs
<1>5. a \notin faulty' => MadeWhole(a)'
  BY <1>1, <1>2, <1>4, MadeStays DEF Register
<1>6. ~Excused(a)' /\ Phase("register", a) => "done" \in Ended /\ Counted(a)'
  BY <1>2 DEF Excused, Phase, Listed, Linked, Counted, Ended, Register
<1> QED
  BY <1>1, <1>2, <1>4, <1>5, <1>6, TurnKeeps

-----------------------------------------------------------------------------
(* generate_cloud_uri.                                                     *)

LEMMA FindNameKeeps ==
    ASSUME AppsInv, NEW c \in ACalls, FindName(c)
    PROVE  AppsInv'
<1>1. PICK a : a = acall[c].app
  OBVIOUS
<1>2. PICK to \in {"enroll", "refused"} : AppGoes(c, to)
  BY DEF FindName
<1>3. AppActive(c) /\ ~Unborn(c) /\ acall[c].op = "uri" /\ acall[c].pc = "named"
  BY DEF FindName, At, AppActive, Ended, Unborn
<1>4. Only(a)
  BY DEF Only, FindName, AppsInv, OwnInv, AppsTypeOK
<1>5. /\ Turns(c, to) /\ a \in ACalls /\ ~Unborn(c)'
      /\ ~Excused(a)' => Phase("named", a)
  BY <1>1, <1>2, <1>3, <1>4, BornTurn DEF FindName, AppPcs
<1>6. a \notin faulty' => MadeWhole(a)'
  BY <1>1, <1>3, <1>5, MadeStays DEF FindName
<1>7. Phase("named", a) => IF to \in Ended THEN Counted(a)' ELSE Phase(to, a)'
  BY <1>2 DEF Phase, Listed, Linked, Counted, Ended, FindName
<1> QED
  BY <1>1, <1>3, <1>5, <1>6, <1>7, TurnKeeps

LEMMA EnrollKeeps ==
    ASSUME AppsInv, NEW c \in ACalls, Enroll(c)
    PROVE  AppsInv'
<1>1. PICK a : a = acall[c].app
  OBVIOUS
<1>2. AppActive(c) /\ ~Unborn(c) /\ acall[c].op = "uri" /\ acall[c].pc = "enroll"
  BY DEF Enroll, At, AppActive, Ended, Unborn
<1>3. CASE Fails(c, "db") /\ UNCHANGED appIds
  BY <1>2, <1>3, FailKeeps DEF Enroll
<1>4. CASE AppGoes(c, "insert") /\ appIds' = appIds \cup {acall[c].app} /\ UNCHANGED faulty
  <2>1. Only(a)
    BY <1>1, <1>4 DEF Only, Enroll, AppsInv, OwnInv, AppsTypeOK
  <2>2. /\ Turns(c, "insert") /\ a \in ACalls /\ ~Unborn(c)'
        /\ ~Excused(a)' => Phase("enroll", a)
    BY <1>1, <1>2, <1>4, <2>1, BornTurn DEF Enroll, AppPcs
  <2>3. a \notin faulty' => MadeWhole(a)'
    BY <1>1, <1>2, <2>2, MadeStays DEF Enroll
  <2>4. Phase("enroll", a) => "insert" \notin Ended /\ Phase("insert", a)'
    BY <1>1, <1>4 DEF Phase, Listed, Linked, Counted, Ended, Enroll
  <2> QED
    BY <1>1, <1>2, <2>2, <2>3, <2>4, TurnKeeps
<1> QED
  BY <1>3, <1>4 DEF Enroll

LEMMA InsertAppKeeps ==
    ASSUME AppsInv, NEW c \in ACalls, InsertApp(c)
    PROVE  AppsInv'
<1>1. PICK a : a = acall[c].app
  OBVIOUS
<1>2. AppActive(c) /\ ~Unborn(c) /\ acall[c].op = "uri" /\ acall[c].pc = "insert"
  BY DEF InsertApp, At, AppActive, Ended, Unborn
<1>3. CASE Fails(c, "db") /\ UNCHANGED appRows
  BY <1>2, <1>3, FailKeeps DEF InsertApp
<1>4. CASE Listed(a) /\ AppGoes(c, "failed") /\ UNCHANGED <<appRows, faulty>>
  <2>1. Only(a)
    BY <1>4 DEF Only, InsertApp, AppsInv, OwnInv, AppsTypeOK
  <2>2. /\ Turns(c, "failed") /\ a \in ACalls /\ ~Unborn(c)'
        /\ ~Excused(a)' => Phase("insert", a)
    BY <1>1, <1>2, <1>4, <2>1, BornTurn DEF InsertApp, AppPcs
  <2>3. a \notin faulty' => MadeWhole(a)'
    BY <1>1, <1>2, <2>2, MadeStays DEF InsertApp
  <2>4. Phase("insert", a) => "failed" \in Ended /\ Counted(a)'
    BY <1>4 DEF Phase, Listed, Linked, Counted, Ended, InsertApp
  <2> QED
    BY <1>1, <1>2, <2>2, <2>3, <2>4, TurnKeeps
<1>5. CASE /\ ~Listed(a)
           /\ AppGoes(c, "link")
           /\ appRows' = appRows \cup {[app |-> a, name |-> acall[c].name, uri |-> FALSE]}
           /\ UNCHANGED faulty
  <2>1. PICK n \in ANames : n = acall[c].name
    BY <1>2 DEF AppsInv, OwnInv, OwnApp, AppActive, Ended
  <2>2. a \in ACalls /\ appRows \subseteq AppRow
    BY <1>1 DEF AppsInv, OwnInv, AppsTypeOK, AppCall
  <2>3. /\ Without(appRows', a) = Without(appRows, a) /\ appRows' \subseteq AppRow
        /\ Listed(a)'
    BY <1>5, <2>1, <2>2, RowsAdded
  <2>4. Only(a)
    BY <1>5, <2>3 DEF Only, InsertApp, AppsInv, OwnInv, AppsTypeOK
  <2>5. /\ Turns(c, "link") /\ ~Unborn(c)'
        /\ ~Excused(a)' => Phase("insert", a)
    BY <1>1, <1>2, <1>5, <2>4, BornTurn DEF InsertApp, AppPcs
  <2>6. a \notin faulty' => MadeWhole(a)'
    BY <1>1, <1>2, <2>2, <2>5, MadeStays DEF InsertApp
  <2>7. Phase("insert", a) => "link" \notin Ended /\ Phase("link", a)'
    BY <2>3 DEF Phase, Ended, InsertApp
  <2> QED
    BY <1>1, <1>2, <2>5, <2>6, <2>7, TurnKeeps
<1> QED
  BY <1>1, <1>3, <1>4, <1>5 DEF InsertApp

LEMMA LinkAppKeeps ==
    ASSUME AppsInv, NEW c \in ACalls, LinkApp(c)
    PROVE  AppsInv'
<1>1. PICK a : a = acall[c].app
  OBVIOUS
<1>2. AppActive(c) /\ ~Unborn(c) /\ acall[c].op = "uri" /\ acall[c].pc = "link"
  BY DEF LinkApp, At, AppActive, Ended, Unborn
<1>3. CASE Fails(c, "db") /\ UNCHANGED <<appRows, issued>>
  BY <1>2, <1>3, FailKeeps DEF LinkApp
<1>4. CASE /\ AppGoes(c, "done")
           /\ appRows' = {IF r.app = a THEN [r EXCEPT !.uri = TRUE] ELSE r : r \in appRows}
           /\ issued' = issued \cup {a}
           /\ UNCHANGED faulty
  <2>1. appRows \subseteq AppRow
    BY DEF AppsInv, OwnInv, AppsTypeOK
  <2>2. /\ Without(appRows', a) = Without(appRows, a) /\ appRows' \subseteq AppRow
        /\ Listed(a) => Listed(a)'
        /\ Linked(a)'
    BY <1>4, <2>1, RowsLinked
  <2>3. Only(a)
    <3>1. UNCHANGED <<appIds, metaRows, projects, buckets, faulty>> /\ issued' = issued \cup {a} /\ metaRows \subseteq MetaRow
      BY <1>4 DEF LinkApp, AppsInv, OwnInv, AppsTypeOK
    <3> QED
      BY <2>2, <3>1 DEF Only
  <2>4. /\ Turns(c, "done") /\ a \in ACalls /\ ~Unborn(c)'
        /\ ~Excused(a)' => Phase("link", a)
    BY <1>1, <1>2, <1>4, <2>3, BornTurn DEF LinkApp, AppPcs
  <2>5. a \notin faulty' => MadeWhole(a)'
    BY <1>1, <1>2, <2>4, MadeStays DEF LinkApp
  <2>6. UNCHANGED appIds
    BY DEF LinkApp
  <2>7. Phase("link", a) => "done" \in Ended /\ Counted(a)'
    BY <2>2, <2>6 DEF Phase, Counted, Ended
  <2> QED
    BY <1>1, <1>2, <2>4, <2>5, <2>7, TurnKeeps
<1> QED
  BY <1>1, <1>3, <1>4 DEF LinkApp

-----------------------------------------------------------------------------
(* The two deletions.                                                      *)

LEMMA FetchProjectKeeps ==
    ASSUME AppsInv, NEW c \in ACalls, FetchProject(c)
    PROVE  AppsInv'
<1>1. PICK a : a = acall[c].app
  OBVIOUS
<1>2. PICK to \in {"project", "refused"} : AppGoes(c, to)
  BY DEF FetchProject
<1>3. AppActive(c) /\ ~Unborn(c) /\ acall[c].op = "nuke" /\ acall[c].pc = "fetch"
  BY DEF FetchProject, At, AppActive, Ended, Unborn
<1>4. Only(a)
  BY DEF Only, FetchProject, AppsInv, OwnInv, AppsTypeOK
<1>5. /\ Turns(c, to) /\ a \in ACalls /\ ~Unborn(c)'
      /\ ~Excused(a)' => Phase("fetch", a)
  BY <1>1, <1>2, <1>3, <1>4, BornTurn DEF FetchProject, AppPcs
<1>6. a \notin faulty' => MadeWhole(a)'
  BY <1>1, <1>2, <1>3, <1>5, MadeStays DEF FetchProject
<1>7. Phase("fetch", a) => IF to \in Ended THEN Counted(a)' ELSE Phase(to, a)'
  BY <1>2 DEF Phase, Listed, Linked, Counted, Ended, FetchProject
<1> QED
  BY <1>1, <1>3, <1>5, <1>6, <1>7, TurnKeeps

\* An application that is deleted is not being made.
LEMMA NukedIsMade ==
    ASSUME AppsInv, NEW c \in ACalls, acall[c].op = "nuke", AppActive(c), NEW a \in ACalls, a = acall[c].app
    PROVE  ~Making(a)
<1> SUFFICES ASSUME Making(a) PROVE FALSE
  OBVIOUS
<1>1. Unborn(a)
  BY DEF Making, Unborn
<1>2. c = a
  BY <1>1 DEF AppsInv, OwnInv, Unknown
<1> QED
  BY <1>2 DEF Making

LEMMA DeleteProjectKeeps ==
    ASSUME AppsInv, NEW c \in ACalls, DeleteProject(c)
    PROVE  AppsInv'
<1>1. PICK a : a = acall[c].app
  OBVIOUS
<1>2. AppActive(c) /\ ~Unborn(c) /\ acall[c].op = "nuke" /\ acall[c].pc = "project"
  BY DEF DeleteProject, At, AppActive, Ended, Unborn
<1>3. Only(a) /\ (a \notin faulty' => a \notin projects')
  BY <1>1 DEF Only, DeleteProject, DropProject, AppsInv, OwnInv, AppsTypeOK
<1>4. /\ Turns(c, "empty") /\ a \in ACalls /\ ~Unborn(c)'
      /\ ~Excused(a)' => Phase("project", a)
  BY <1>1, <1>2, <1>3, BornTurn DEF DeleteProject, AppPcs
<1>5. Nuked(c, a, {"empty", "rows"})' /\ Nuked(c, a, {"empty"})'
  BY <1>1, <1>2, <1>4 DEF Nuked, Turns, Moved
<1>6. ~Making(a)'
  <2>1. ~Making(a)
    BY <1>1, <1>2, <1>4, NukedIsMade
  <2> QED
    BY <1>4, <2>1 DEF Making, Turns, Moved
<1>7. a \notin faulty' => MadeWhole(a)'
  BY <1>3, <1>5, <1>6 DEF MadeWhole
<1>8. Phase("project", a) => "empty" \notin Ended /\ Phase("empty", a)'
  BY DEF Phase, Listed, Linked, Counted, Ended, DeleteProject
<1> QED
  BY <1>1, <1>2, <1>4, <1>7, <1>8, TurnKeeps

LEMMA DeleteBucketKeeps ==
    ASSUME AppsInv, NEW c \in ACalls, DeleteBucket(c)
    PROVE  AppsInv'
<1>1. PICK a : a = acall[c].app
  OBVIOUS
<1>2. AppActive(c) /\ ~Unborn(c) /\ acall[c].op = "nuke" /\ acall[c].pc = "empty"
  BY DEF DeleteBucket, At, AppActive, Ended, Unborn
<1>3. Only(a) /\ (a \notin faulty' => a \notin buckets' /\ a \notin faulty)
  BY <1>1 DEF Only, DeleteBucket, AppsInv, OwnInv, AppsTypeOK
<1>4. /\ Turns(c, "rows") /\ a \in ACalls /\ ~Unborn(c)'
      /\ ~Excused(a)' => Phase("empty", a)
  BY <1>1, <1>2, <1>3, BornTurn DEF DeleteBucket, AppPcs
<1>5. Nuked(c, a, {"empty", "rows"})' /\ Nuked(c, a, {"empty", "rows"})
  BY <1>1, <1>2, <1>4 DEF Nuked, Turns, Moved
<1>6. ~Making(a)'
  <2>1. ~Making(a)
    BY <1>1, <1>2, <1>4, NukedIsMade
  <2> QED
    BY <1>4, <2>1 DEF Making, Turns, Moved
<1>7. ASSUME a \notin faulty' PROVE MadeWhole(a)'
  <2>1. a \notin projects'
    BY <1>3, <1>4, <1>5, <1>7 DEF AppsInv, MadeWhole, DeleteBucket
  <2> QED
    BY <1>3, <1>5, <1>6, <1>7, <2>1 DEF MadeWhole
<1>8. Phase("empty", a) => "rows" \notin Ended /\ Phase("rows", a)'
  BY DEF Phase, Listed, Linked, Counted, Ended, DeleteBucket
<1> QED
  BY <1>1, <1>2, <1>4, <1>7, <1>8, TurnKeeps

LEMMA DeleteRowsKeeps ==
    ASSUME AppsInv, NEW c \in ACalls, DeleteRows(c)
    PROVE  AppsInv'
<1>1. PICK a : a = acall[c].app
  OBVIOUS
<1>2. AppActive(c) /\ ~Unborn(c) /\ acall[c].op = "nuke" /\ acall[c].pc = "rows"
  BY DEF DeleteRows, At, AppActive, Ended, Unborn
<1>3. CASE Fails(c, "db") /\ UNCHANGED <<metaRows, appRows>>
  BY <1>2, <1>3, FailKeeps DEF DeleteRows
<1>4. CASE /\ AppGoes(c, "unregister")
           /\ metaRows' = Without(metaRows, a)
           /\ appRows' = Without(appRows, a)
           /\ UNCHANGED faulty
  <2>1. appRows \subseteq AppRow /\ metaRows \subseteq MetaRow
    BY DEF AppsInv, OwnInv, AppsTypeOK
  <2>2. /\ Without(appRows', a) = Without(appRows, a) /\ appRows' \subseteq AppRow
        /\ ~Listed(a)' /\ Linked(a)'
    BY <1>4, <2>1, RowsRemoved
  <2>3. /\ Without(metaRows', a) = Without(metaRows, a) /\ metaRows' \subseteq MetaRow
        /\ ~Recorded(a)'
    BY <1>4, <2>1, RecordRemoved
  <2>4. Only(a)
    <3>1. UNCHANGED <<appIds, projects, buckets, issued, faulty>>
      BY <1>4 DEF DeleteRows
    <3> QED
      BY <2>2, <2>3, <3>1 DEF Only
  <2>5. /\ Turns(c, "unregister") /\ a \in ACalls /\ ~Unborn(c)'
    BY <1>1, <1>2, <1>4, <2>4, BornTurn DEF DeleteRows, AppPcs
  <2>6. Nuked(c, a, {"empty", "rows"}) /\ ~Nuked(c, a, {"empty"}) /\ ~Making(a)
    BY <1>1, <1>2, <2>5, NukedIsMade DEF Nuked
  <2>7. ~Making(a)'
    BY <2>5, <2>6 DEF Making, Turns, Moved
  <2>8. ASSUME a \notin faulty' PROVE MadeWhole(a)'
    <3>1. MadeWhole(a) /\ a \notin projects /\ UNCHANGED <<projects, buckets>>
      BY <2>5, <2>6, <2>8 DEF AppsInv, Turns, MadeWhole, DeleteRows
    <3>2. a \in buckets => \E d \in ACalls \ {c} : Nuked(d, a, {"empty"})
      BY <2>6, <3>1 DEF MadeWhole
    <3>3. \A d \in ACalls \ {c} : Nuked(d, a, {"empty"})' <=> Nuked(d, a, {"empty"})
      BY <2>5 DEF Turns, Moved, Nuked
    <3> QED
      BY <2>3, <2>7, <3>1, <3>2, <3>3 DEF MadeWhole
  <2>9. "unregister" \notin Ended /\ Phase("unregister", a)'
    BY <2>2 DEF Phase, Ended
  <2> QED
    BY <1>1, <1>2, <2>5, <2>8, <2>9, TurnKeeps
<1> QED
  BY <1>1, <1>3, <1>4 DEF DeleteRows

LEMMA DeleteRowKeeps ==
    ASSUME AppsInv, NEW c \in ACalls, DeleteRow(c)
    PROVE  AppsInv'
<1>1. PICK a : a = acall[c].app
  OBVIOUS
<1>2. AppActive(c) /\ ~Unborn(c) /\ acall[c].op = "delete" /\ acall[c].pc = "row"
  BY DEF DeleteRow, At, AppActive, Ended, Unborn
<1>3. CASE Fails(c, "db") /\ UNCHANGED appRows
  BY <1>2, <1>3, FailKeeps DEF DeleteRow
<1>4. CASE AppGoes(c, "unregister") /\ appRows' = Without(appRows, a) /\ UNCHANGED faulty
  <2>1. appRows \subseteq AppRow
    BY DEF AppsInv, OwnInv, AppsTypeOK
  <2>2. /\ Without(appRows', a) = Without(appRows, a) /\ appRows' \subseteq AppRow
        /\ ~Listed(a)' /\ Linked(a)'
    BY <1>4, <2>1, RowsRemoved
  <2>3. Only(a)
    <3>1. UNCHANGED <<appIds, metaRows, projects, buckets, issued, faulty>> /\ metaRows \subseteq MetaRow
      BY <1>4 DEF DeleteRow, AppsInv, OwnInv, AppsTypeOK
    <3> QED
      BY <2>2, <3>1 DEF Only
  <2>4. /\ Turns(c, "unregister") /\ a \in ACalls /\ ~Unborn(c)'
    BY <1>1, <1>2, <1>4, <2>3, BornTurn DEF DeleteRow, AppPcs
  <2>5. a \notin faulty' => MadeWhole(a)'
    BY <1>1, <1>2, <2>4, MadeStays DEF DeleteRow
  <2>6. "unregister" \notin Ended /\ Phase("unregister", a)'
    BY <2>2 DEF Phase, Ended
  <2> QED
    BY <1>1, <1>2, <2>4, <2>5, <2>6, TurnKeeps
<1> QED
  BY <1>1, <1>3, <1>4 DEF DeleteRow

LEMMA UnregisterKeeps ==
    ASSUME AppsInv, NEW c \in ACalls, Unregister(c)
    PROVE  AppsInv'
<1>1. PICK a : a = acall[c].app
  OBVIOUS
<1>2. AppActive(c) /\ ~Unborn(c) /\ acall[c].pc = "unregister"
  BY DEF Unregister, AppActive, Ended, Unborn
<1>3. Only(a) /\ (a \notin faulty' => a \notin appIds')
  BY <1>1 DEF Only, Unregister, Unregistered, AppsInv, OwnInv, AppsTypeOK
<1>4. /\ Turns(c, "done") /\ a \in ACalls /\ ~Unborn(c)'
      /\ ~Excused(a)' => Phase("unregister", a)
  BY <1>1, <1>2, <1>3, BornTurn DEF Unregister, AppPcs
<1>5. a \notin faulty' => MadeWhole(a)'
  BY <1>1, <1>2, <1>4, MadeStays DEF Unregister
<1>6. ~Excused(a)' /\ Phase("unregister", a) => "done" \in Ended /\ Counted(a)'
  BY <1>3 DEF Excused, Phase, Listed, Linked, Counted, Ended, Unregister
<1> QED
  BY <1>1, <1>2, <1>4, <1>5, <1>6, TurnKeeps

-----------------------------------------------------------------------------
(* Calls begin, and end with the server.                                   *)

\* What the beginning of a call leaves: everything but the call, and who has lapped.
LEMMA Beginning ==
    ASSUME AppsInv, NEW c \in ACalls, NEW op \in AppOps, NEW n \in ANames, NEW a \in ACalls,
           NEW to \in {"create", "refused", "named", "fetch", "row"}, BeginApp(c, op, n, a, to)
    PROVE  /\ acall' \in [ACalls -> AppCall] /\ lapped' \subseteq ACalls /\ lapped \subseteq lapped'
           /\ acall[c].pc = "idle" /\ acall'[c].op = op /\ acall'[c].pc = to /\ acall'[c].name = n
           /\ acall'[c].app = a
           /\ \A d \in ACalls \ {c} : acall'[d] = acall[d]
           /\ to # "refused" => \A d \in ACalls : AppActive(d) => d \in lapped' /\ c \in lapped'
           /\ lapped' \subseteq lapped \cup {c} \cup {d \in ACalls : AppActive(d)}
           /\ c \in lapped' => c \in lapped \/ to # "refused"
<1>1. PICK e : e = [op |-> op, pc |-> to, name |-> n, app |-> a]
  OBVIOUS
<1>2. e \in AppCall /\ e.op = op /\ e.pc = to /\ e.name = n /\ e.app = a
  BY <1>1 DEF AppCall, AppPcs
<1>3. acall' = [acall EXCEPT ![c] = e] /\ acall[c].pc = "idle"
  BY <1>1 DEF BeginApp
<1>4. PICK others : others = {d \in ACalls : AppActive(d)}
  OBVIOUS
<1>5. lapped' = IF others = {} \/ to \in Ended THEN lapped ELSE lapped \cup others \cup {c}
  BY <1>4 DEF BeginApp
<1>6. to # "refused" <=> to \notin Ended
  BY DEF Ended
<1>7. acall \in [ACalls -> AppCall] /\ lapped \subseteq ACalls
  BY DEF AppsInv, OwnInv, AppsTypeOK
<1>8. acall' \in [ACalls -> AppCall] /\ acall'[c] = e /\ \A d \in ACalls \ {c} : acall'[d] = acall[d]
  BY <1>2, <1>3, <1>7
<1>9. /\ lapped' \subseteq ACalls /\ lapped \subseteq lapped'
      /\ to # "refused" => \A d \in ACalls : AppActive(d) => d \in lapped' /\ c \in lapped'
      /\ lapped' \subseteq lapped \cup {c} \cup {d \in ACalls : AppActive(d)}
      /\ c \in lapped' => c \in lapped \/ to # "refused"
  BY <1>4, <1>5, <1>6, <1>7
<1> QED
  BY <1>2, <1>3, <1>8, <1>9

LEMMA BeginKeeps ==
    ASSUME AppsInv, NEW c \in ACalls, NEW op \in AppOps, NEW n \in ANames, NEW a \in ACalls,
           NEW to \in {"create", "refused", "named", "fetch", "row"}, BeginApp(c, op, n, a, to),
           UNCHANGED <<plan, appIds, appRows, metaRows, projects, buckets, issued, faulty>>,
           op = "provision" => a = c,
           a # c => ~Unborn(a),
           to = "create" => op = "provision"
    PROVE  AppsInv'
<1>1. /\ acall' \in [ACalls -> AppCall] /\ lapped' \subseteq ACalls /\ lapped \subseteq lapped'
      /\ acall[c].pc = "idle" /\ acall'[c].op = op /\ acall'[c].pc = to /\ acall'[c].name = n
      /\ acall'[c].app = a
      /\ \A d \in ACalls \ {c} : acall'[d] = acall[d]
      /\ to # "refused" => \A d \in ACalls : AppActive(d) => d \in lapped' /\ c \in lapped'
      /\ lapped' \subseteq lapped \cup {c} \cup {d \in ACalls : AppActive(d)}
  BY Beginning
<1>2. AppsTypeOK'
  BY <1>1 DEF AppsTypeOK, AppsInv, OwnInv
<1>3. \A d \in ACalls \ {c} : (AppActive(d)' <=> AppActive(d))
  BY <1>1 DEF AppActive
<1>4. ~AppActive(c) /\ (AppActive(c)' <=> to # "refused") /\ Unborn(c) /\ c \notin lapped
  BY <1>1 DEF AppActive, Ended, Unborn, AppsInv, OneAtATime
<1>5. \A b \in ACalls : /\ Listed(b)' <=> Listed(b)
                        /\ Recorded(b)' <=> Recorded(b)
                        /\ Linked(b)' <=> Linked(b)
                        /\ Counted(b)' <=> Counted(b)
  BY DEF Listed, Recorded, Linked, Counted
<1>6. \A d \in ACalls : OwnApp(d)'
  BY <1>1 DEF AppsInv, OwnInv, OwnApp
<1>7. ASSUME NEW b \in ACalls, Unborn(b)'
      PROVE  Unknown(b)'
  <2>1. Unborn(b) /\ Unknown(b)
    BY <1>1, <1>4, <1>7 DEF Unborn, AppsInv, OwnInv
  <2>2. \A d \in ACalls : acall'[d].app = b => d = b
    BY <1>1, <1>7, <2>1 DEF Unknown, Unborn
  <2> QED
    BY <1>5, <2>1, <2>2 DEF Unknown
<1>8. OwnInv'
  BY <1>2, <1>6, <1>7 DEF OwnInv
<1>9. OneAtATime'
  <2>1. ASSUME NEW d \in ACalls, NEW e \in ACalls, AppActive(d)', AppActive(e)', d # e
        PROVE  d \in lapped'
    BY <1>1, <1>3, <1>4, <2>1 DEF AppsInv, OneAtATime
  <2>2. ASSUME NEW d \in lapped'
        PROVE  acall'[d].pc # "idle"
    BY <1>1, <2>2 DEF AppsInv, OneAtATime, AppActive, Ended
  <2> QED
    BY <2>1, <2>2 DEF OneAtATime
<1>10. ASSUME NEW b \in ACalls, b \notin faulty'
       PROVE  MadeWhole(b)'
  <2>1. MadeWhole(b)
    BY <1>10 DEF AppsInv
  <2>2. Making(b)' <=> Making(b)
    BY <1>1 DEF Making
  <2>3. \A d \in ACalls, pcs \in {{"empty", "rows"}, {"empty"}} : Nuked(d, b, pcs)' <=> Nuked(d, b, pcs)
    BY <1>1 DEF Nuked
  <2> QED
    BY <1>5, <2>1, <2>2, <2>3 DEF MadeWhole
<1>11. ASSUME NEW b \in ACalls, ~Excused(b)'
       PROVE  ListedWhole(b)'
  <2>1. b \notin faulty /\ ~Raced(b) /\ ~At(b, "provision", "refused")
    <3>1. \A d \in lapped : d \in ACalls \ {c}
      BY <1>4 DEF AppsInv, OwnInv, AppsTypeOK
    <3>2. ~Raced(b)
      BY <1>1, <1>11, <3>1 DEF Excused, Raced
    <3> QED
      BY <1>1, <1>11, <3>2 DEF Excused, At
  <2>2. ListedWhole(b)
    BY <2>1 DEF AppsInv, Excused
  <2>3. ASSUME NEW d \in ACalls, AppActive(d)', acall'[d].app = b
        PROVE  Phase(acall[d].pc, b)'
    <3>1. CASE d # c
      <4>1. Phase(acall[d].pc, b)
        BY <1>1, <1>3, <2>2, <2>3, <3>1 DEF ListedWhole
      <4> QED
        BY <1>1, <1>5, <3>1, <4>1 DEF Phase
    <3>2. CASE d = c
      <4>1. ~Busy(b)
        BY <1>1, <1>3, <1>4, <1>11, <2>3, <3>2 DEF Busy, Excused, Raced
      <4>2. Counted(b)'
        BY <1>5, <2>2, <4>1 DEF ListedWhole
      <4> QED
        BY <1>1, <3>2, <4>2 DEF Phase
    <3> QED
      BY <3>1, <3>2
  <2>4. ~Busy(b)' => Counted(b)'
    BY <1>1, <1>3, <1>4, <1>5, <2>2 DEF ListedWhole, Busy
  <2> QED
    BY <2>3, <2>4 DEF ListedWhole
<1> QED
  BY <1>8, <1>9, <1>10, <1>11 DEF AppsInv

LEMMA StartAppCallKeeps ==
    ASSUME AppsInv, NEW c \in ACalls, StartAppCall(c)
    PROVE  AppsInv'
<1>1. PICK n \in ANames : \/ Provision(c, n)
                          \/ \E a \in ACalls : GenerateUri(c, n, a)
                          \/ NukeByName(c, n)
                          \/ DeleteByName(c, n)
  BY DEF StartAppCall
<1>2. CASE Provision(c, n)
  <2>1. PICK to \in {"create", "refused"} : BeginApp(c, "provision", n, c, to)
    BY <1>2 DEF Provision
  <2>2. "provision" \in AppOps
    BY DEF AppOps
  <2> QED
    BY <1>2, <2>1, <2>2, BeginKeeps DEF Provision
<1>3. CASE \E a \in ACalls : GenerateUri(c, n, a)
  <2>1. PICK a \in ACalls : GenerateUri(c, n, a)
    BY <1>3
  <2>2. PICK to \in {"named", "refused"} : BeginApp(c, "uri", n, a, to)
    BY <2>1 DEF GenerateUri
  <2>3. a # c => ~Unborn(a)
    BY <2>1 DEF GenerateUri, KnownApps, AppsInv, OwnInv, Unknown, Listed
  <2>4. "uri" \in AppOps
    BY DEF AppOps
  <2> QED
    BY <2>1, <2>2, <2>3, <2>4, BeginKeeps DEF GenerateUri
<1>4. CASE NukeByName(c, n)
  <2>1. PICK a \in ACalls, to \in {"fetch", "refused"} : BeginApp(c, "nuke", n, a, to) /\ (a # c => Recorded(a))
    BY <1>4 DEF NukeByName, RowsOf, Recorded, AppsInv, OwnInv, AppsTypeOK, MetaRow
  <2>2. a # c => ~Unborn(a)
    BY <2>1 DEF AppsInv, OwnInv, Unknown
  <2>3. "nuke" \in AppOps
    BY DEF AppOps
  <2> QED
    BY <1>4, <2>1, <2>2, <2>3, BeginKeeps DEF NukeByName
<1>5. CASE DeleteByName(c, n)
  <2>1. PICK a \in ACalls, to \in {"row", "refused"} : BeginApp(c, "delete", n, a, to) /\ (a # c => Listed(a))
    BY <1>5 DEF DeleteByName, RowsOf, Listed, AppsInv, OwnInv, AppsTypeOK, AppRow
  <2>2. a # c => ~Unborn(a)
    BY <2>1 DEF AppsInv, OwnInv, Unknown
  <2>3. "delete" \in AppOps
    BY DEF AppOps
  <2> QED
    BY <1>5, <2>1, <2>2, <2>3, BeginKeeps DEF DeleteByName
<1> QED
  BY <1>1, <1>2, <1>3, <1>4, <1>5

LEMMA AppServerDiesKeeps ==
    ASSUME AppsInv, AppServerDies
    PROVE  AppsInv'
<1>1. acall \in [ACalls -> AppCall] /\ AppsTypeOK
  BY DEF AppsInv, OwnInv, AppsTypeOK
<1>2. /\ acall' \in [ACalls -> AppCall]
      /\ \A c \in ACalls : ~AppActive(c) => acall'[c] = acall[c]
      /\ \A c \in ACalls : AppActive(c) => /\ acall'[c].pc = "failed" /\ acall'[c].op = acall[c].op
                                           /\ acall'[c].app = acall[c].app /\ acall'[c].name = acall[c].name
  <2>1. ASSUME NEW c \in ACalls
        PROVE  /\ acall'[c] \in AppCall
               /\ ~AppActive(c) => acall'[c] = acall[c]
               /\ AppActive(c) => /\ acall'[c].pc = "failed" /\ acall'[c].op = acall[c].op
                                  /\ acall'[c].app = acall[c].app /\ acall'[c].name = acall[c].name
    <3>1. PICK b \in AppCall : b = acall[c]
      BY <1>1
    <3>2. acall'[c] = IF AppActive(c) THEN [b EXCEPT !.pc = "failed"] ELSE b
      BY <3>1 DEF AppServerDies
    <3> QED
      BY <3>1, <3>2 DEF AppCall, AppPcs
  <2>2. acall' \in [ACalls -> AppCall]
    BY <2>1 DEF AppServerDies
  <2> QED
    BY <2>1, <2>2
<1>3. \A c \in ACalls : ~AppActive(c)'
  BY <1>2 DEF AppActive, Ended
<1>4. /\ faulty \subseteq faulty' /\ faulty' \subseteq ACalls
      /\ \A c \in ACalls : AppActive(c) => acall[c].app \in faulty'
  BY <1>1 DEF AppServerDies, AppsTypeOK, AppCall
<1>5. UNCHANGED <<plan, appIds, appRows, metaRows, projects, buckets, issued, lapped>>
  BY DEF AppServerDies
<1>6. \A b \in ACalls : /\ Listed(b)' <=> Listed(b)
                        /\ Recorded(b)' <=> Recorded(b)
                        /\ Counted(b)' <=> Counted(b)
  BY <1>5 DEF Listed, Recorded, Linked, Counted
<1>7. \A c \in ACalls : acall'[c].app = acall[c].app /\ acall'[c].op = acall[c].op
  BY <1>2
<1>8. AppsTypeOK'
  BY <1>1, <1>2, <1>4, <1>5 DEF AppsTypeOK
<1>9. OwnInv'
  <2>1. \A c \in ACalls : OwnApp(c)'
    BY <1>2 DEF AppsInv, OwnInv, OwnApp, AppActive, Ended
  <2>2. ASSUME NEW b \in ACalls, Unborn(b)'
        PROVE  Unknown(b)'
    <3>1. Unborn(b) /\ Unknown(b)
      BY <1>2, <2>2 DEF Unborn, AppsInv, OwnInv
    <3> QED
      BY <1>5, <1>6, <1>7, <3>1 DEF Unknown
  <2> QED
    BY <1>8, <2>1, <2>2 DEF OwnInv
<1>10. OneAtATime'
  BY <1>2, <1>3, <1>5 DEF AppsInv, OneAtATime, OwnInv, AppsTypeOK
<1>11. ASSUME NEW b \in ACalls, b \notin faulty'
       PROVE  MadeWhole(b)' /\ ~Busy(b)
  <2>1. ~Busy(b)
    BY <1>4, <1>11 DEF Busy
  <2>2. ~Making(b) /\ ~Making(b)'
    BY <1>2, <1>3, <2>1 DEF Making, Busy, AppActive, Ended, AppsInv, OwnInv, OwnApp
  <2>3. \A d \in ACalls, pcs \in {{"empty", "rows"}, {"empty"}} : ~Nuked(d, b, pcs)' /\ ~Nuked(d, b, pcs)
    BY <1>3, <2>1 DEF Nuked, Busy, AppActive, Ended
  <2>4. MadeWhole(b)
    BY <1>4, <1>11 DEF AppsInv
  <2> QED
    BY <1>5, <1>6, <2>1, <2>2, <2>3, <2>4 DEF MadeWhole
<1>12. ASSUME NEW b \in ACalls, ~Excused(b)'
       PROVE  ListedWhole(b)'
  <2>1. ~Busy(b)
    BY <1>11, <1>12 DEF Excused
  <2>2. ~Excused(b)
    BY <1>1, <1>2, <1>4, <1>5, <1>7, <1>12 DEF Excused, Raced, At, AppActive, Ended, AppsTypeOK
  <2>3. Counted(b)'
    BY <1>6, <2>1, <2>2 DEF AppsInv, ListedWhole
  <2> QED
    BY <1>3, <2>3 DEF ListedWhole
<1> QED
  BY <1>9, <1>10, <1>11, <1>12 DEF AppsInv

LEMMA AppsInitially == AppsInit => AppsInv
<1> SUFFICES ASSUME AppsInit PROVE AppsInv
  OBVIOUS
<1>1. \A c \in ACalls : acall[c].pc = "idle" /\ acall[c].op = "none" /\ acall[c].app = c
  BY DEF AppsInit
<1>2. AppsTypeOK
  BY DEF AppsInit, AppsTypeOK, AppCall, AppPcs
<1>3. OwnInv
  BY <1>1, <1>2 DEF AppsInit, OwnInv, OwnApp, Unknown, Listed, Recorded
<1>4. OneAtATime
  BY <1>1 DEF AppsInit, OneAtATime, AppActive, Ended
<1>5. \A a \in ACalls : MadeWhole(a)
  BY <1>1 DEF AppsInit, MadeWhole, Making, Nuked, Recorded
<1>6. \A a \in ACalls : ListedWhole(a)
  BY <1>1 DEF AppsInit, ListedWhole, AppActive, Ended, Counted, Listed, Linked
<1> QED
  BY <1>3, <1>4, <1>5, <1>6 DEF AppsInv

LEMMA AppStepKeeps ==
    ASSUME AppsInv, NEW c \in ACalls, AppStep(c)
    PROVE  AppsInv'
<1>1. CASE StartAppCall(c)
  BY <1>1, StartAppCallKeeps
<1>2. CASE ProvisionStep(c)
  BY <1>2, CreateProjectKeeps, PrepareKeeps, CreateBucketKeeps, SaveRowsKeeps, EligibleKeeps, RegisterKeeps
     DEF ProvisionStep
<1>3. CASE UriStep(c)
  BY <1>3, FindNameKeeps, EnrollKeeps, InsertAppKeeps, LinkAppKeeps DEF UriStep
<1>4. CASE DeletionStep(c)
  BY <1>4, FetchProjectKeeps, DeleteProjectKeeps, DeleteBucketKeeps, DeleteRowsKeeps, DeleteRowKeeps,
     UnregisterKeeps DEF DeletionStep
<1> QED
  BY <1>1, <1>2, <1>3, <1>4 DEF AppStep

LEMMA AppsStutter ==
    ASSUME AppsInv, UNCHANGED appsVars
    PROVE  AppsInv'
<1>1. OwnInv' /\ OneAtATime'
  BY DEF appsVars, AppsInv, OwnInv, OneAtATime, AppsTypeOK, OwnApp, Unborn, Unknown, Listed, Recorded, AppActive
<1>2. ASSUME NEW a \in ACalls PROVE (MadeWhole(a)' <=> MadeWhole(a)) /\ (ListedWhole(a)' <=> ListedWhole(a))
                                    /\ (Excused(a)' <=> Excused(a))
  BY DEF appsVars, MadeWhole, Making, Nuked, Recorded, ListedWhole, Phase, Counted, Listed, Linked,
         Busy, AppActive, Excused, Raced, At
<1> QED
  BY <1>1, <1>2 DEF AppsInv, appsVars

LEMMA AppsInvHolds == AppsSpec => []AppsInv
<1>1. AppsInv /\ [AppsNext]_appsVars => AppsInv'
  BY AppStepKeeps, AppServerDiesKeeps, AppsStutter DEF AppsNext
<1> QED
  BY AppsInitially, <1>1, PTL DEF AppsSpec

\* Every variable of Apps keeps its type.
THEOREM AppsTypesCorrect == AppsSpec => []AppsTypeOK
<1>1. AppsInv => AppsTypeOK
  BY DEF AppsInv, OwnInv
<1> QED
  BY <1>1, AppsInvHolds, PTL

\* What is made for an application comes and goes together, however the calls that make, link
\* and delete applications interleave: a project, a bucket, a row or an entry of app_ids without
\* the others has a running call, a step that failed, an overlap or a refused plan to blame.
THEOREM AppsStayWhole == AppsSpec => []AppsAreWhole
<1>1. AppsInv => AppsAreWhole
  <2> SUFFICES ASSUME AppsInv, NEW a \in ACalls, ~Busy(a), a \notin faulty
      PROVE  /\ a \in projects <=> Recorded(a)
             /\ a \in buckets => a \in projects
             /\ Raced(a) \/ At(a, "provision", "refused") \/ Counted(a)
    BY DEF AppsAreWhole, Counted, Linked
  <2>1. ~Making(a) /\ \A c \in ACalls, pcs \in {{"empty", "rows"}, {"empty"}} : ~Nuked(c, a, pcs)
    BY DEF Making, Nuked, Busy, AppActive, Ended, AppsInv, OwnInv, OwnApp
  <2>2. MadeWhole(a)
    BY DEF AppsInv
  <2>3. ~Excused(a) => Counted(a)
    BY DEF AppsInv, ListedWhole
  <2> QED
    BY <2>1, <2>2, <2>3 DEF MadeWhole, Excused
<1> QED
  BY <1>1, AppsInvHolds, PTL

-----------------------------------------------------------------------------
(* The limit of a free account.                                            *)

\* Other calls that look for room run beside the call that moves: they have lapped.
LEMMA LimitTurn ==
    ASSUME AppsInv, LimitInv, NEW c \in ACalls, AppActive(c), NEW to \in AppPcs, AppGoes(c, to),
           UNCHANGED <<plan, lapped>>, IsFiniteSet(appIds'), OrderlyLimitHolds',
           to = "register" => plan = "teams",
           to \in {"named", "enroll"} => acall[c].pc = "named" /\ UNCHANGED appIds
    PROVE  LimitInv'
<1>1. Moved(c, to)
  BY GoingMoves DEF AppsInv, OwnInv
<1>2. \A d \in ACalls : acall'[d].pc = "register" => plan' = "teams"
  BY <1>1 DEF Moved, LimitInv
<1>3. ASSUME NEW d \in ACalls, d \notin lapped', acall'[d].pc \in {"named", "enroll"}
      PROVE  Room(acall[d].app)'
  <2>1. d = c
    <3>1. d # c => AppActive(d)
      BY <1>1, <1>3 DEF Moved, AppActive, Ended
    <3> QED
      BY <1>3, <3>1 DEF AppsInv, OneAtATime
  <2>2. Room(acall[d].app) /\ UNCHANGED appIds /\ acall'[d].app = acall[d].app
    BY <1>1, <1>3, <2>1 DEF Moved, LimitInv
  <2> QED
    BY <2>2 DEF Room
<1> QED
  BY <1>2, <1>3 DEF LimitInv

LEMMA LimitStill ==
    ASSUME AppsInv, LimitInv, NEW c \in ACalls, AppActive(c),
           NEW to \in AppPcs \ {"register", "named", "enroll"}, AppGoes(c, to),
           UNCHANGED <<plan, lapped, appIds>>
    PROVE  LimitInv'
BY LimitTurn DEF LimitInv, OrderlyLimitHolds

LEMMA EnrollKeepsLimit ==
    ASSUME AppsInv, LimitInv, NEW c \in ACalls, Enroll(c)
    PROVE  LimitInv'
<1>1. AppActive(c) /\ acall[c].pc = "enroll"
  BY DEF Enroll, At, AppActive, Ended
<1>2. CASE Fails(c, "db") /\ UNCHANGED appIds
  BY <1>1, <1>2, LimitStill DEF Enroll, Fails, AppPcs
<1>3. CASE AppGoes(c, "insert") /\ appIds' = appIds \cup {acall[c].app}
  <2>1. PICK a : a = acall[c].app
    OBVIOUS
  <2>2. IsFiniteSet(appIds) /\ IsFiniteSet(appIds')
    BY <1>3, FS_AddElement DEF LimitInv
  <2>3. Cardinality(appIds') = IF a \in appIds THEN Cardinality(appIds) ELSE Cardinality(appIds) + 1
    BY <1>3, <2>1, <2>2, FS_AddElement
  <2>4. Cardinality(appIds) \in Nat
    BY <2>2, FS_CardinalityType
  <2>5. OrderlyLimitHolds'
    <3> SUFFICES ASSUME plan = "free", lapped = {} PROVE Cardinality(appIds') <= AppLimit
      BY DEF OrderlyLimitHolds, Enroll
    <3>1. Room(a) /\ Cardinality(appIds) <= AppLimit
      BY <1>1, <2>1 DEF LimitInv, OrderlyLimitHolds
    <3> QED
      BY <2>3, <2>4, <3>1, AppsAssumption DEF Room
  <2> QED
    BY <1>1, <1>3, <2>2, <2>5, LimitTurn DEF Enroll, AppPcs
<1> QED
  BY <1>2, <1>3 DEF Enroll

LEMMA RegisterKeepsLimit ==
    ASSUME AppsInv, LimitInv, NEW c \in ACalls, Register(c)
    PROVE  LimitInv'
<1>1. AppActive(c) /\ plan = "teams" /\ AppGoes(c, "done") /\ UNCHANGED <<plan, lapped>>
  BY DEF Register, At, AppActive, Ended, LimitInv
<1>2. IsFiniteSet(appIds')
  BY FS_AddElement DEF LimitInv, Register
<1>3. OrderlyLimitHolds'
  BY <1>1 DEF OrderlyLimitHolds
<1> QED
  BY <1>1, <1>2, <1>3, LimitTurn DEF AppPcs

LEMMA UnregisterKeepsLimit ==
    ASSUME AppsInv, LimitInv, NEW c \in ACalls, Unregister(c)
    PROVE  LimitInv'
<1>1. AppActive(c) /\ AppGoes(c, "done") /\ UNCHANGED <<plan, lapped>> /\ appIds' \subseteq appIds
  BY DEF Unregister, Unregistered, AppActive, Ended
<1>2. IsFiniteSet(appIds') /\ Cardinality(appIds') <= Cardinality(appIds)
  BY <1>1, FS_Subset DEF LimitInv
<1>3. Cardinality(appIds) \in Nat /\ Cardinality(appIds') \in Nat
  BY <1>2, FS_CardinalityType DEF LimitInv
<1>4. OrderlyLimitHolds'
  BY <1>1, <1>2, <1>3, AppsAssumption DEF LimitInv, OrderlyLimitHolds
<1> QED
  BY <1>1, <1>2, <1>4, LimitTurn DEF AppPcs

LEMMA FindNameKeepsLimit ==
    ASSUME AppsInv, LimitInv, NEW c \in ACalls, FindName(c)
    PROVE  LimitInv'
<1>1. AppActive(c) /\ acall[c].pc = "named" /\ UNCHANGED <<plan, lapped, appIds>>
  BY DEF FindName, At, AppActive, Ended
<1>2. PICK to \in {"enroll", "refused"} : AppGoes(c, to)
  BY DEF FindName
<1>3. IsFiniteSet(appIds') /\ OrderlyLimitHolds'
  BY <1>1 DEF LimitInv, OrderlyLimitHolds
<1> QED
  BY <1>1, <1>2, <1>3, LimitTurn DEF AppPcs

LEMMA EligibleKeepsLimit ==
    ASSUME AppsInv, LimitInv, NEW c \in ACalls, Eligible(c)
    PROVE  LimitInv'
<1>1. AppActive(c) /\ UNCHANGED <<plan, lapped, appIds>>
  BY DEF Eligible, At, AppActive, Ended
<1>2. PICK to \in {"register", "refused"} : AppGoes(c, to) /\ (to = "register" => plan = "teams")
  BY DEF Eligible
<1>3. IsFiniteSet(appIds') /\ OrderlyLimitHolds'
  BY <1>1 DEF LimitInv, OrderlyLimitHolds
<1> QED
  BY <1>1, <1>2, <1>3, LimitTurn DEF AppPcs

\* A call that begins finds the room it needs, or runs beside another.
LEMMA BeginKeepsLimit ==
    ASSUME AppsInv, LimitInv, NEW c \in ACalls, NEW op \in AppOps, NEW n \in ANames, NEW a \in ACalls,
           NEW to \in {"create", "refused", "named", "fetch", "row"}, BeginApp(c, op, n, a, to),
           UNCHANGED <<plan, appIds>>, to = "named" => Room(a)
    PROVE  LimitInv'
<1>1. /\ lapped \subseteq lapped' /\ acall'[c].pc = to /\ acall'[c].app = a
      /\ \A d \in ACalls \ {c} : acall'[d] = acall[d]
      /\ to # "refused" => \A d \in ACalls : AppActive(d) => d \in lapped' /\ c \in lapped'
  BY Beginning
<1>2. \A d \in ACalls : acall'[d].pc = "register" => plan' = "teams"
  BY <1>1 DEF LimitInv
<1>3. ASSUME NEW d \in ACalls, d \notin lapped', acall'[d].pc \in {"named", "enroll"}
      PROVE  Room(acall[d].app)'
  <2>1. CASE d = c
    BY <1>1, <1>3, <2>1 DEF Room
  <2>2. CASE d # c
    BY <1>1, <1>3, <2>2 DEF Room, LimitInv
  <2> QED
    BY <2>1, <2>2
<1>4. OrderlyLimitHolds'
  BY <1>1 DEF LimitInv, OrderlyLimitHolds
<1> QED
  BY <1>2, <1>3, <1>4 DEF LimitInv

LEMMA StartAppCallKeepsLimit ==
    ASSUME AppsInv, LimitInv, NEW c \in ACalls, StartAppCall(c)
    PROVE  LimitInv'
<1>1. PICK n \in ANames : \/ Provision(c, n)
                          \/ \E a \in ACalls : GenerateUri(c, n, a)
                          \/ NukeByName(c, n)
                          \/ DeleteByName(c, n)
  BY DEF StartAppCall
<1>2. PICK op \in AppOps, a \in ACalls, to \in {"create", "refused", "named", "fetch", "row"} :
         BeginApp(c, op, n, a, to) /\ (to = "named" => Room(a))
  <2>1. CASE Provision(c, n)
    <3>1. PICK to \in {"create", "refused"} : BeginApp(c, "provision", n, c, to)
      BY <2>1 DEF Provision
    <3> QED
      BY <3>1 DEF AppOps
  <2>2. CASE \E a \in ACalls : GenerateUri(c, n, a)
    <3>1. PICK a \in ACalls : GenerateUri(c, n, a)
      BY <2>2
    <3>2. PICK to \in {"named", "refused"} : BeginApp(c, "uri", n, a, to) /\ (to = "named" => Room(a))
      BY <3>1 DEF GenerateUri
    <3> QED
      BY <3>2 DEF AppOps
  <2>3. CASE NukeByName(c, n)
    <3>1. PICK a \in ACalls, to \in {"fetch", "refused"} : BeginApp(c, "nuke", n, a, to)
      BY <2>3 DEF NukeByName, RowsOf, AppsInv, OwnInv, AppsTypeOK, MetaRow
    <3> QED
      BY <3>1 DEF AppOps
  <2>4. CASE DeleteByName(c, n)
    <3>1. PICK a \in ACalls, to \in {"row", "refused"} : BeginApp(c, "delete", n, a, to)
      BY <2>4 DEF DeleteByName, RowsOf, AppsInv, OwnInv, AppsTypeOK, AppRow
    <3> QED
      BY <3>1 DEF AppOps
  <2> QED
    BY <1>1, <2>1, <2>2, <2>3, <2>4
<1>3. UNCHANGED <<plan, appIds>>
  BY <1>1 DEF Provision, GenerateUri, NukeByName, DeleteByName
<1> QED
  BY <1>2, <1>3, BeginKeepsLimit

LEMMA AppStepKeepsLimit ==
    ASSUME AppsInv, LimitInv, NEW c \in ACalls, AppStep(c)
    PROVE  LimitInv'
<1>1. CASE StartAppCall(c)
  BY <1>1, StartAppCallKeepsLimit
<1>2. CASE CreateProject(c) \/ Prepare(c) \/ CreateBucket(c) \/ SaveRows(c)
  <2>1. AppActive(c) /\ UNCHANGED <<plan, lapped, appIds>>
    BY <1>2 DEF CreateProject, Prepare, CreateBucket, SaveRows, At, AppActive, Ended
  <2>2. PICK to \in {"prepare", "bucket", "save", "eligible", "failed"} : AppGoes(c, to)
    BY <1>2 DEF CreateProject, Prepare, CreateBucket, SaveRows, Fails
  <2> QED
    BY <2>1, <2>2, LimitStill DEF AppPcs
<1>3. CASE InsertApp(c) \/ LinkApp(c)
  <2>1. AppActive(c) /\ UNCHANGED <<plan, lapped, appIds>>
    BY <1>3 DEF InsertApp, LinkApp, At, AppActive, Ended
  <2>2. PICK to \in {"link", "done", "failed"} : AppGoes(c, to)
    BY <1>3 DEF InsertApp, LinkApp, Fails
  <2> QED
    BY <2>1, <2>2, LimitStill DEF AppPcs
<1>4. CASE FetchProject(c) \/ DeleteProject(c) \/ DeleteBucket(c) \/ DeleteRows(c) \/ DeleteRow(c)
  <2>1. AppActive(c) /\ UNCHANGED <<plan, lapped, appIds>>
    BY <1>4 DEF FetchProject, DeleteProject, DeleteBucket, DeleteRows, DeleteRow, At, AppActive, Ended
  <2>2. PICK to \in {"project", "refused", "empty", "rows", "unregister", "failed"} : AppGoes(c, to)
    BY <1>4 DEF FetchProject, DeleteProject, DeleteBucket, DeleteRows, DeleteRow, Fails
  <2> QED
    BY <2>1, <2>2, LimitStill DEF AppPcs
<1> QED
  BY <1>1, <1>2, <1>3, <1>4, EligibleKeepsLimit, RegisterKeepsLimit, FindNameKeepsLimit, EnrollKeepsLimit,
     UnregisterKeepsLimit DEF AppStep, ProvisionStep, UriStep, DeletionStep

LEMMA AppServerDiesKeepsLimit ==
    ASSUME AppsInv, LimitInv, AppServerDies
    PROVE  LimitInv'
<1>1. \A c \in ACalls : acall'[c].pc = acall[c].pc \/ acall'[c].pc = "failed"
  <2>1. ASSUME NEW c \in ACalls PROVE acall'[c].pc = acall[c].pc \/ acall'[c].pc = "failed"
    <3>1. PICK b \in AppCall : b = acall[c]
      BY DEF AppsInv, OwnInv, AppsTypeOK
    <3>2. acall'[c] = IF AppActive(c) THEN [b EXCEPT !.pc = "failed"] ELSE b
      BY <3>1 DEF AppServerDies
    <3> QED
      BY <3>1, <3>2 DEF AppCall
  <2> QED
    BY <2>1
<1>2. \A c \in ACalls : acall'[c].pc \in {"named", "enroll"} => FALSE
  <2>1. ASSUME NEW c \in ACalls, acall'[c].pc \in {"named", "enroll"} PROVE FALSE
    <3>1. AppActive(c)
      BY <1>1, <2>1 DEF AppActive, Ended
    <3>2. PICK b \in AppCall : b = acall[c]
      BY DEF AppsInv, OwnInv, AppsTypeOK
    <3>3. acall'[c] = [b EXCEPT !.pc = "failed"]
      BY <3>1, <3>2 DEF AppServerDies
    <3> QED
      BY <2>1, <3>2, <3>3 DEF AppCall
  <2> QED
    BY <2>1
<1>3. UNCHANGED <<plan, appIds, lapped>>
  BY DEF AppServerDies
<1>4. \A c \in ACalls : acall'[c].pc = "register" => plan' = "teams"
  BY <1>1, <1>3 DEF LimitInv
<1> QED
  BY <1>2, <1>3, <1>4 DEF LimitInv, OrderlyLimitHolds

\* While calls run one at a time, a free account never counts more applications than its plan
\* allows, whatever it creates, links, deletes and creates again, and whatever fails meanwhile.
THEOREM OrderlyLimitAlwaysHolds == AppsSpec => []OrderlyLimitHolds
<1>1. AppsInit => LimitInv
  <2> SUFFICES ASSUME AppsInit PROVE LimitInv
    OBVIOUS
  <2>1. IsFiniteSet(appIds) /\ Cardinality(appIds) = 0
    BY FS_EmptySet DEF AppsInit
  <2> QED
    BY <2>1, AppsAssumption DEF AppsInit, LimitInv, OrderlyLimitHolds
<1>2. AppsInv /\ LimitInv /\ [AppsNext]_appsVars => LimitInv'
  <2> SUFFICES ASSUME AppsInv, LimitInv, [AppsNext]_appsVars PROVE LimitInv'
    OBVIOUS
  <2>1. CASE UNCHANGED appsVars
    BY <2>1 DEF appsVars, LimitInv, OrderlyLimitHolds, Room
  <2> QED
    BY <2>1, AppStepKeepsLimit, AppServerDiesKeepsLimit DEF AppsNext
<1>3. LimitInv => OrderlyLimitHolds
  BY DEF LimitInv
<1> QED
  BY <1>1, <1>2, <1>3, AppsInvHolds, PTL DEF AppsSpec

-----------------------------------------------------------------------------
(* The requests, over the applications.                                    *)

\* The account's part of a behaviour of Routing is a behaviour of Apps: routing takes nothing
\* from the account and a restart is the end of the server that Apps knows.
THEOREM RoutingImplementsApps == RoutingSpec => AppsSpec
<1>1. RoutingInit => AppsInit
  BY DEF RoutingInit
<1>2. [RoutingNext]_<<appsVars, routingVars>> => [AppsNext]_appsVars
  <2> SUFFICES ASSUME [RoutingNext]_<<appsVars, routingVars>> PROVE [AppsNext]_appsVars
    OBVIOUS
  <2>1. CASE AccountStep
    BY <2>1 DEF AccountStep, AppsNext
  <2>2. CASE ServerRestarts
    BY <2>2 DEF ServerRestarts, AppsNext
  <2>3. ASSUME NEW r \in Requests, RequestStep(r) PROVE UNCHANGED appsVars
    BY <2>3 DEF RequestStep, Arrive, Resolve, ResolveFails, UseStores, Answer
  <2>4. CASE UNCHANGED <<appsVars, routingVars>>
    BY <2>4
  <2> QED
    BY <2>1, <2>2, <2>3, <2>4 DEF RoutingNext
<1> QED
  BY <1>1, <1>2, PTL DEF RoutingSpec, AppsSpec

LEMMA RoutedInitially == RoutingInit /\ AppsInv => RoutedInv /\ RememberedInv
<1> SUFFICES ASSUME RoutingInit, AppsInv PROVE RoutedInv /\ RememberedInv
  OBVIOUS
<1>1. PICK q : q = [pc |-> "idle", token |-> "shared", own |-> "shared", used |-> {}, uses |-> 0, whole |-> TRUE]
  OBVIOUS
<1>2. q \in Request /\ q.pc = "idle" /\ q.used = {}
  BY <1>1, RoutingAssumption DEF Request, Targets
<1>3. request = [r \in Requests |-> q]
  BY <1>1 DEF RoutingInit
<1>4. RoutedInv
  BY <1>2, <1>3 DEF RoutingInit, RoutedInv, RoutingTypeOK, AppsInv, OwnInv, Stores, Targets
<1>5. RememberedInv
  BY <1>2, <1>3 DEF RoutingInit, RememberedInv
<1> QED
  BY <1>4, <1>5

\* The three fields, and the request that has set them.
LEMMA RouteKeeps ==
    ASSUME RoutedInv, NEW r \in Requests, NEW t \in Targets, NEW uri, Route(r, t, uri), AppsTypeOK',
           resolved' \in [ACalls -> {"unknown", "none", "own"}]
    PROVE  RoutedInv' /\ request'[r].pc = "work" /\ \A p \in Requests \ {r} : request'[p] = request[p]
<1>1. PICK multi \in BOOLEAN :
         /\ stores' = Routed(t, uri, multi)
         /\ request' = [request EXCEPT ![r] =
                           [pc |-> "work", token |-> t, own |-> StoreFor(t, uri),
                            used |-> {}, uses |-> 0, whole |-> multi]]
         /\ crossed' = crossed \cup {q \in Requests \ {r} : request[q].pc = "work"}
  <2>1. (IF "remote" \in AppFaults THEN BOOLEAN ELSE {TRUE}) \subseteq BOOLEAN
    OBVIOUS
  <2> QED
    BY <2>1 DEF Route
<1>2. PICK own \in Targets : own = StoreFor(t, uri)
  BY DEF StoreFor, Targets
<1>3. PICK e : e = [pc |-> "work", token |-> t, own |-> own, used |-> {}, uses |-> 0, whole |-> multi]
  OBVIOUS
<1>4. e \in Request /\ e.pc = "work" /\ e.own = own /\ e.used = {} /\ e.whole = multi
  BY <1>3, RoutingAssumption DEF Request
<1>5. request' = [request EXCEPT ![r] = e] /\ request \in [Requests -> Request]
  BY <1>1, <1>2, <1>3 DEF RoutedInv, RoutingTypeOK
<1>6. stores' \in Stores /\ stores'.db = own /\ stores'.vector = own /\ (multi => stores'.multi = own)
  <2>1. stores.multi \in Targets
    BY DEF RoutedInv, RoutingTypeOK, Stores
  <2>2. stores' = [db |-> own, vector |-> own, multi |-> IF multi THEN own ELSE stores.multi]
    BY <1>1, <1>2 DEF Routed
  <2> QED
    BY <2>1, <2>2 DEF Stores
<1>7. request'[r] = e /\ \A p \in Requests \ {r} : request'[p] = request[p]
  BY <1>5
<1>8. RoutingTypeOK'
  BY <1>1, <1>4, <1>5, <1>6 DEF RoutedInv, RoutingTypeOK
<1>9. ASSUME NEW p \in Requests, p \notin crossed'
      PROVE  (/\ request[p].pc = "work" => Fits(request[p], stores)
              /\ \A st \in request[p].used : Fits(request[p], st))'
  <2>1. CASE p = r
    BY <1>4, <1>6, <1>7, <2>1 DEF Fits
  <2>2. CASE p # r
    BY <1>1, <1>7, <1>9, <2>2 DEF Fits, RoutedInv
  <2> QED
    BY <2>1, <2>2
<1> QED
  BY <1>4, <1>7, <1>8, <1>9 DEF RoutedInv

\* A step that lets a request go on, with nothing else.
LEMMA RequestGoes ==
    ASSUME RoutedInv, NEW r \in Requests, NEW e \in Request, request' = [request EXCEPT ![r] = e],
           UNCHANGED <<stores, crossed>>, AppsTypeOK', resolved' \in [ACalls -> {"unknown", "none", "own"}],
           e.own = request[r].own /\ e.whole = request[r].whole,
           e.pc = "work" => request[r].pc = "work",
           e.used \subseteq request[r].used \/ (e.used = request[r].used \cup {stores} /\ request[r].pc = "work")
    PROVE  RoutedInv'
<1>1. request \in [Requests -> Request]
  BY DEF RoutedInv, RoutingTypeOK
<1>2. request'[r] = e /\ \A p \in Requests \ {r} : request'[p] = request[p]
  BY <1>1
<1>3. RoutingTypeOK'
  BY <1>1 DEF RoutedInv, RoutingTypeOK
<1>4. ASSUME NEW p \in Requests, p \notin crossed'
      PROVE  (/\ request[p].pc = "work" => Fits(request[p], stores)
              /\ \A st \in request[p].used : Fits(request[p], st))'
  <2>1. CASE p = r
    BY <1>2, <1>4, <2>1 DEF Fits, RoutedInv
  <2>2. CASE p # r
    BY <1>2, <1>4, <2>2 DEF Fits, RoutedInv
  <2> QED
    BY <2>1, <2>2
<1> QED
  BY <1>3, <1>4 DEF RoutedInv

LEMMA ArriveKeeps ==
    ASSUME AppsInv, RoutedInv, RememberedInv, NEW r \in Requests, NEW t \in Targets, Arrive(r, t)
    PROVE  RoutedInv' /\ RememberedInv'
<1>1. UNCHANGED appsVars /\ UNCHANGED resolved
  BY DEF Arrive
<1>2. /\ AppsTypeOK' /\ resolved' \in [ACalls -> {"unknown", "none", "own"}]
      /\ \A a \in ACalls : (Unborn(a)' <=> Unborn(a)) /\ (Recorded(a)' <=> Recorded(a))
  BY <1>1 DEF appsVars, AppsTypeOK, RoutedInv, RoutingTypeOK, Unborn, Recorded
<1>3. CASE \E uri \in {"none", resolved[t]} : Route(r, t, uri)
  <2>1. PICK uri : Route(r, t, uri)
    BY <1>3
  <2>2. RoutedInv' /\ request'[r].pc = "work" /\ \A p \in Requests \ {r} : request'[p] = request[p]
    BY <1>2, <2>1, RouteKeeps
  <2> QED
    BY <1>1, <1>2, <2>2 DEF RememberedInv
<1>4. CASE /\ t # "shared"
           /\ request' = [request EXCEPT ![r].pc = "resolve", ![r].token = t]
           /\ UNCHANGED <<stores, resolved, crossed>>
  <2>1. t \in ACalls /\ ~Unborn(t)
    BY <1>4 DEF Arrive, Tokens, AppsInv, OwnInv, AppsTypeOK, Unknown
  <2>2. PICK b \in Request : b = request[r]
    BY DEF RoutedInv, RoutingTypeOK
  <2>3. PICK e : e = [b EXCEPT !.pc = "resolve", !.token = t]
    OBVIOUS
  <2>4. /\ e \in Request /\ e.pc = "resolve" /\ e.token = t /\ e.own = b.own /\ e.whole = b.whole
        /\ e.used = b.used
    BY <2>2, <2>3 DEF Request
  <2>5. request' = [request EXCEPT ![r] = e] /\ request \in [Requests -> Request]
    BY <1>4, <2>2, <2>3 DEF RoutedInv, RoutingTypeOK
  <2>6. RoutedInv'
    BY <1>2, <1>4, <2>2, <2>4, <2>5, RequestGoes
  <2>7. request'[r] = e /\ \A p \in Requests \ {r} : request'[p] = request[p]
    BY <2>5
  <2>8. RememberedInv'
    BY <1>1, <1>2, <2>1, <2>4, <2>7 DEF RememberedInv
  <2> QED
    BY <2>6, <2>8
<1> QED
  BY <1>3, <1>4 DEF Arrive

LEMMA ResolveKeeps ==
    ASSUME AppsInv, RoutedInv, RememberedInv, NEW r \in Requests, Resolve(r)
    PROVE  RoutedInv' /\ RememberedInv'
<1>1. PICK t : t = request[r].token
  OBVIOUS
<1>2. PICK uri \in {"none", "own"} : uri = CatalogueEntry(t)
  BY DEF CatalogueEntry
<1>3. /\ t \in ACalls /\ t \in Targets /\ ~Unborn(t) /\ Route(r, t, uri) /\ UNCHANGED appsVars
      /\ resolved' = [resolved EXCEPT ![t] = uri]
  BY <1>1, <1>2 DEF Resolve, RememberedInv, Targets
<1>4. /\ AppsTypeOK' /\ resolved' \in [ACalls -> {"unknown", "none", "own"}]
      /\ \A a \in ACalls : (Unborn(a)' <=> Unborn(a)) /\ (Recorded(a)' <=> Recorded(a))
  BY <1>3 DEF appsVars, AppsTypeOK, RoutedInv, RoutingTypeOK, Unborn, Recorded
<1>5. RoutedInv' /\ request'[r].pc = "work" /\ \A p \in Requests \ {r} : request'[p] = request[p]
  BY <1>3, <1>4, RouteKeeps
<1>6. uri = "none" => ~Recorded(t)
  BY <1>2 DEF CatalogueEntry
<1>7. \A a \in ACalls : resolved'[a] = IF a = t THEN uri ELSE resolved[a]
  BY <1>3 DEF RoutedInv, RoutingTypeOK
<1>8. RememberedInv'
  <2>1. \A a \in ACalls : Unborn(a)' => resolved'[a] = "unknown"
    BY <1>3, <1>4, <1>7 DEF RememberedInv
  <2>2. \A p \in Requests : request'[p].pc = "resolve" =>
            request'[p].token \in ACalls /\ request[p].pc = "resolve" /\ request'[p] = request[p]
    BY <1>5 DEF RememberedInv
  <2>3. \A a \in ACalls : resolved'[a] = "none" => ~Recorded(a)'
    BY <1>4, <1>6, <1>7 DEF RememberedInv
  <2>4. ASSUME NEW p \in Requests, request'[p].pc = "resolve" PROVE ~Unborn(request[p].token)'
    <3>1. PICK u : u = request[p].token
      OBVIOUS
    <3>2. u \in ACalls /\ ~Unborn(u) /\ request'[p].token = u
      BY <2>2, <2>4, <3>1 DEF RememberedInv
    <3> QED
      BY <1>4, <3>2
  <2> QED
    BY <2>1, <2>2, <2>3, <2>4 DEF RememberedInv
<1> QED
  BY <1>5, <1>8

LEMMA RequestStepKeeps ==
    ASSUME AppsInv, RoutedInv, RememberedInv, NEW r \in Requests, RequestStep(r)
    PROVE  RoutedInv' /\ RememberedInv'
<1>1. CASE \E t \in Targets : Arrive(r, t)
  BY <1>1, ArriveKeeps
<1>2. CASE Resolve(r)
  BY <1>2, ResolveKeeps
<1>3. CASE ResolveFails(r) \/ UseStores(r) \/ Answer(r)
  <2>1. UNCHANGED appsVars /\ UNCHANGED <<stores, resolved, crossed>>
    BY <1>3 DEF ResolveFails, UseStores, Answer
  <2>2. /\ AppsTypeOK' /\ resolved' \in [ACalls -> {"unknown", "none", "own"}]
        /\ \A a \in ACalls : (Unborn(a)' <=> Unborn(a)) /\ (Recorded(a)' <=> Recorded(a))
    BY <2>1 DEF appsVars, AppsTypeOK, RoutedInv, RoutingTypeOK, Unborn, Recorded
  <2>3. PICK b \in Request : b = request[r]
    BY DEF RoutedInv, RoutingTypeOK
  <2>4. request \in [Requests -> Request] /\ stores \in Stores
    BY DEF RoutedInv, RoutingTypeOK
  <2>5. PICK e : /\ request' = [request EXCEPT ![r] = e]
                 /\ e \in Request /\ e.pc # "resolve" /\ e.own = b.own /\ e.whole = b.whole
                 /\ e.pc = "work" => b.pc = "work"
                 /\ e.used \subseteq b.used \/ (e.used = b.used \cup {stores} /\ b.pc = "work")
    <3>1. CASE ResolveFails(r) \/ Answer(r)
      <4>1. PICK e : e = [b EXCEPT !.pc = "end"]
        OBVIOUS
      <4>2. e \in Request /\ e.pc = "end" /\ e.own = b.own /\ e.whole = b.whole /\ e.used = b.used
        BY <2>3, <4>1 DEF Request
      <4>3. request' = [request EXCEPT ![r] = e]
        BY <2>3, <2>4, <3>1, <4>1 DEF ResolveFails, Answer
      <4> QED
        BY <4>2, <4>3
    <3>2. CASE UseStores(r)
      <4>1. PICK st \in Stores : st = stores
        BY <2>4
      <4>2. PICK e : e = [b EXCEPT !.used = b.used \cup {st}, !.uses = b.uses + 1]
        OBVIOUS
      <4>3. b.pc = "work" /\ b.uses + 1 \in 0..MaxUses
        BY <2>3, <3>2, RoutingAssumption DEF UseStores, Request
      <4>4. /\ e \in Request /\ e.pc = "work" /\ e.own = b.own /\ e.whole = b.whole
            /\ e.used = b.used \cup {st}
        BY <2>3, <4>1, <4>2, <4>3 DEF Request
      <4>5. request' = [request EXCEPT ![r] = e]
        BY <2>3, <2>4, <3>2, <4>1, <4>2 DEF UseStores
      <4> QED
        BY <4>1, <4>3, <4>4, <4>5
    <3> QED
      BY <1>3, <3>1, <3>2
  <2>6. RoutedInv'
    BY <2>1, <2>2, <2>3, <2>5, RequestGoes
  <2>7. \A p \in Requests : request'[p].pc = "resolve" => request'[p] = request[p]
    BY <2>4, <2>5
  <2>8. ASSUME NEW p \in Requests, request'[p].pc = "resolve"
        PROVE  request'[p].token \in ACalls /\ ~Unborn(request[p].token)'
    <3>1. PICK u : u = request[p].token
      OBVIOUS
    <3>2. u \in ACalls /\ ~Unborn(u) /\ request'[p].token = u
      BY <2>7, <2>8, <3>1 DEF RememberedInv
    <3> QED
      BY <2>2, <3>2
  <2>9. RememberedInv'
    BY <2>1, <2>2, <2>8 DEF RememberedInv
  <2> QED
    BY <2>6, <2>9
<1> QED
  BY <1>1, <1>2, <1>3 DEF RequestStep

\* An application is born once, and recorded only when it is.
LEMMA BirthIsFinal ==
    ASSUME AppsInv, NEW c \in ACalls, AppStep(c), NEW a \in ACalls
    PROVE  /\ Unborn(a)' => Unborn(a)
           /\ Recorded(a)' => Recorded(a) \/ Unborn(a)
<1>1. CASE StartAppCall(c)
  <2>1. PICK n \in ANames : \/ Provision(c, n)
                            \/ \E b \in ACalls : GenerateUri(c, n, b)
                            \/ NukeByName(c, n)
                            \/ DeleteByName(c, n)
    BY <1>1 DEF StartAppCall
  <2>2. acall[c].pc = "idle" /\ \E e : acall' = [acall EXCEPT ![c] = e]
    BY <2>1 DEF Provision, GenerateUri, NukeByName, DeleteByName, BeginApp
  <2>3. \A d \in ACalls \ {c} : acall'[d] = acall[d]
    BY <2>2 DEF AppsInv, OwnInv, AppsTypeOK
  <2>4. UNCHANGED metaRows
    BY <2>1 DEF Provision, GenerateUri, NukeByName, DeleteByName
  <2> QED
    BY <2>2, <2>3, <2>4 DEF Unborn, Recorded
<1>2. CASE ProvisionStep(c)
  <2>1. acall[c].op = "provision" /\ acall[c].pc # "idle" /\ acall[c].app = c
    BY <1>2 DEF ProvisionStep, CreateProject, Prepare, CreateBucket, SaveRows, Eligible, Register, At,
       AppsInv, OwnInv, OwnApp
  <2>2. PICK to \in AppPcs \ {"idle"} :
           AppGoes(c, to) /\ (to \in {"create", "prepare", "bucket", "save"} => Unborn(c))
    <3>1. CASE Fails(c, "remote") \/ Fails(c, "db")
      BY <3>1 DEF Fails, AppPcs
    <3>2. CASE CreateProject(c) \/ Prepare(c) \/ CreateBucket(c)
      BY <3>1, <3>2 DEF CreateProject, Prepare, CreateBucket, At, Unborn, AppPcs
    <3>3. CASE SaveRows(c) \/ Eligible(c) \/ Register(c)
      BY <3>1, <3>3 DEF SaveRows, Eligible, Register, AppPcs
    <3> QED
      BY <1>2, <3>2, <3>3 DEF ProvisionStep
  <2>3. Moved(c, to)
    BY <2>2, GoingMoves DEF AppsInv, OwnInv
  <2>4. Unborn(a)' => Unborn(a)
    BY <2>2, <2>3 DEF Moved, Unborn
  <2>5. Recorded(a)' => Recorded(a) \/ Unborn(a)
    <3>1. CASE SaveRows(c)
      <4>1. Unborn(c) /\ metaRows' \subseteq metaRows \cup {[app |-> c, name |-> acall[c].name]}
        BY <3>1 DEF SaveRows, At, Unborn
      <4> QED
        BY <4>1 DEF Recorded
    <3>2. CASE ~SaveRows(c)
      BY <1>2, <3>2 DEF ProvisionStep, CreateProject, Prepare, CreateBucket, Eligible, Register, Recorded
    <3> QED
      BY <3>1, <3>2
  <2> QED
    BY <2>4, <2>5
<1>3. CASE UriStep(c) \/ DeletionStep(c)
  <2>1. acall[c].pc # "idle" /\ metaRows' \subseteq metaRows
    BY <1>3 DEF UriStep, FindName, Enroll, InsertApp, LinkApp, DeletionStep, FetchProject, DeleteProject,
       DeleteBucket, DeleteRows, DeleteRow, Unregister, At, Without
  <2>2. PICK to \in AppPcs \ {"idle", "create", "prepare", "bucket", "save"} : AppGoes(c, to)
    <3>1. CASE UriStep(c)
      BY <3>1 DEF UriStep, FindName, Enroll, InsertApp, LinkApp, Fails, AppPcs
    <3>2. CASE DeletionStep(c)
      BY <3>2 DEF DeletionStep, FetchProject, DeleteProject, DeleteBucket, DeleteRows, DeleteRow, Unregister,
         Fails, AppPcs
    <3> QED
      BY <1>3, <3>1, <3>2
  <2>3. Moved(c, to)
    BY <2>2, GoingMoves DEF AppsInv, OwnInv
  <2> QED
    BY <2>1, <2>2, <2>3 DEF Moved, Unborn, Recorded
<1> QED
  BY <1>1, <1>2, <1>3 DEF AppStep

LEMMA AccountStepKeeps ==
    ASSUME AppsInv, AppsInv', RoutedInv, RememberedInv, AccountStep
    PROVE  RoutedInv' /\ RememberedInv'
<1>1. PICK c \in ACalls : AppStep(c)
  BY DEF AccountStep
<1>2. UNCHANGED <<stores, resolved, request, crossed>>
  BY DEF AccountStep, routingVars
<1>3. RoutedInv'
  BY <1>2 DEF RoutedInv, RoutingTypeOK, Fits, AppsInv, OwnInv
<1>4. \A a \in ACalls : (Unborn(a)' => Unborn(a)) /\ (Recorded(a)' => Recorded(a) \/ Unborn(a))
  BY <1>1, BirthIsFinal
<1>5. ASSUME NEW r \in Requests, request[r].pc = "resolve"
      PROVE  request[r].token \in ACalls /\ ~Unborn(request[r].token)'
  <2>1. PICK u : u = request[r].token
    OBVIOUS
  <2>2. u \in ACalls /\ ~Unborn(u) /\ request'[r].token = u
    BY <1>2, <1>5, <2>1 DEF RememberedInv
  <2> QED
    BY <1>4, <2>1, <2>2
<1>6. RememberedInv'
  BY <1>2, <1>4, <1>5 DEF RememberedInv
<1> QED
  BY <1>3, <1>6

LEMMA ServerRestartsKeeps ==
    ASSUME AppsInv, AppsInv', RoutedInv, RememberedInv, ServerRestarts
    PROVE  RoutedInv' /\ RememberedInv'
<1>1. request \in [Requests -> Request]
  BY DEF RoutedInv, RoutingTypeOK
<1>2. ASSUME NEW r \in Requests
      PROVE  /\ request'[r] \in Request /\ request'[r].pc \notin {"resolve", "work"}
             /\ request'[r].used = request[r].used /\ request'[r].own = request[r].own
             /\ request'[r].whole = request[r].whole
  <2>1. PICK b \in Request : b = request[r]
    BY <1>1
  <2>2. request'[r] = IF b.pc \in {"resolve", "work"} THEN [b EXCEPT !.pc = "end"] ELSE b
    BY <2>1 DEF ServerRestarts
  <2> QED
    BY <2>1, <2>2 DEF Request
<1>3. request' \in [Requests -> Request]
  BY <1>2 DEF ServerRestarts
<1>4. PICK st \in Stores : stores' = st
  BY DEF ServerRestarts, Stores, Targets
<1>5. RoutedInv'
  <2>1. RoutingTypeOK'
    BY <1>3, <1>4 DEF RoutedInv, RoutingTypeOK, AppsInv, OwnInv, ServerRestarts
  <2>2. ASSUME NEW p \in Requests, p \notin crossed'
        PROVE  (/\ request[p].pc = "work" => Fits(request[p], stores)
                /\ \A s \in request[p].used : Fits(request[p], s))'
    BY <1>2, <2>2 DEF RoutedInv, Fits, ServerRestarts
  <2> QED
    BY <2>1, <2>2 DEF RoutedInv
<1>6. RememberedInv'
  BY <1>2 DEF RememberedInv, ServerRestarts
<1> QED
  BY <1>5, <1>6

LEMMA RoutingInvHolds == RoutingSpec => [](AppsInv /\ RoutedInv /\ RememberedInv)
<1>1. RoutingInit => AppsInv /\ RoutedInv /\ RememberedInv
  BY AppsInitially, RoutedInitially DEF RoutingInit
<1>2. /\ AppsInv /\ RoutedInv /\ RememberedInv
      /\ [RoutingNext]_<<appsVars, routingVars>>
      => AppsInv' /\ RoutedInv' /\ RememberedInv'
  <2> SUFFICES ASSUME AppsInv, RoutedInv, RememberedInv, [RoutingNext]_<<appsVars, routingVars>>
      PROVE  AppsInv' /\ RoutedInv' /\ RememberedInv'
    OBVIOUS
  <2>1. CASE AccountStep
    <3>1. AppsInv'
      BY <2>1, AppStepKeeps DEF AccountStep
    <3> QED
      BY <2>1, <3>1, AccountStepKeeps
  <2>2. CASE ServerRestarts
    <3>1. AppsInv'
      BY <2>2, AppServerDiesKeeps DEF ServerRestarts
    <3> QED
      BY <2>2, <3>1, ServerRestartsKeeps
  <2>3. CASE \E r \in Requests : RequestStep(r)
    <3>1. UNCHANGED appsVars
      BY <2>3 DEF RequestStep, Arrive, Resolve, ResolveFails, UseStores, Answer
    <3>2. AppsInv'
      BY <3>1, AppsStutter
    <3> QED
      BY <2>3, <3>2, RequestStepKeeps
  <2>4. CASE UNCHANGED <<appsVars, routingVars>>
    <3>1. AppsInv'
      BY <2>4, AppsStutter
    <3>2. RoutedInv'
      BY <2>4, <3>1 DEF routingVars, RoutedInv, RoutingTypeOK, Fits, AppsInv, OwnInv
    <3>3. RememberedInv'
      BY <2>4 DEF routingVars, appsVars, RememberedInv, Unborn, Recorded
    <3> QED
      BY <3>1, <3>2, <3>3
  <2> QED
    BY <2>1, <2>2, <2>3, <2>4 DEF RoutingNext
<1> QED
  BY <1>1, <1>2, PTL DEF RoutingSpec

\* Every variable of Apps and Routing keeps its type.
THEOREM RoutingTypesCorrect == RoutingSpec => []RoutingTypeOK
<1>1. RoutedInv => RoutingTypeOK
  BY DEF RoutedInv
<1> QED
  BY <1>1, RoutingInvHolds, PTL

\* However many requests share the fields of the one DocumentService, a request beside which no
\* other was routed works on the stores of the application in its token; and what is remembered
\* of an application without a database of its own never becomes wrong.
THEOREM RequestsAlwaysKeepTheirStores == RoutingSpec => []RequestsKeepTheirStores
<1>1. RoutedInv /\ RememberedInv => RequestsKeepTheirStores
  BY DEF RoutedInv, RememberedInv, RequestsKeepTheirStores, Fits
<1> QED
  BY <1>1, RoutingInvHolds, PTL
-----------------------------------------------------------------------------
(* Limits, applications and routing beside each other (Accounts).          *)

\* Nothing is routed where another part moves.
Unrouted ==
    part # "routing" =>
      /\ stores = [db |-> "shared", vector |-> "shared", multi |-> "shared"]
      /\ resolved = [a \in ACalls |-> "unknown"]
      /\ request = [r \in Requests |->
                       [pc |-> "idle", token |-> "shared", own |-> "shared",
                        used |-> {}, uses |-> 0, whole |-> TRUE]]

LEMMA UnroutedHolds == AccountsSpec => []Unrouted
<1>1. AccountsInit => Unrouted
  BY DEF AccountsInit, RoutingInit, Unrouted
<1>2. Unrouted /\ [AccountsNext]_<<part, vars, appsVars, routingVars>> => Unrouted'
  BY DEF AccountsNext, UsagePart, AppsPart, RoutingPart, routingVars, Unrouted
<1> QED
  BY <1>1, <1>2, PTL DEF AccountsSpec

\* The end of a server that routes nothing is a restart that forgets nothing.
LEMMA AppsPartRoutes ==
    ASSUME Unrouted, AppsPart
    PROVE  RoutingNext
<1>1. CASE \E c \in ACalls : AppStep(c)
  BY <1>1 DEF AppsPart, RoutingNext, AccountStep
<1>2. CASE AppServerDies
  <2>1. /\ stores' = [db |-> "shared", vector |-> "shared", multi |-> "shared"]
        /\ resolved' = [a \in ACalls |-> "unknown"]
        /\ crossed' = crossed
    BY DEF AppsPart, Unrouted, routingVars
  <2>2. request' = [r \in Requests |-> IF request[r].pc \in {"resolve", "work"}
                                       THEN [request[r] EXCEPT !.pc = "end"] ELSE request[r]]
    BY DEF AppsPart, Unrouted, routingVars
  <2> QED
    BY <1>2, <2>1, <2>2 DEF RoutingNext, ServerRestarts
<1> QED
  BY <1>1, <1>2 DEF AppsPart, AppsNext

\* The behaviours of Accounts, seen through the variables of a part, are behaviours of
\* that part: metered calls, and applications with the requests routed to them.
THEOREM AccountsParts == AccountsSpec => Spec /\ AppsSpec /\ RoutingSpec
<1>1. AccountsInit => Init /\ RoutingInit
  BY DEF AccountsInit
<1>2. Unrouted /\ [AccountsNext]_<<part, vars, appsVars, routingVars>>
      => [Next]_vars /\ [RoutingNext]_<<appsVars, routingVars>>
  <2>1. Unrouted /\ AppsPart => RoutingNext /\ UNCHANGED vars
    BY AppsPartRoutes DEF AppsPart
  <2> QED
    BY <2>1 DEF AccountsNext, UsagePart, RoutingPart
<1> QED
  BY <1>1, <1>2, UnroutedHolds, RoutingImplementsApps, PTL DEF AccountsSpec, Spec, RoutingSpec

\* All that limits, applications and routing promise, in the specification that the run checks.
THEOREM AccountsKeepTheirPromises ==
    AccountsSpec => /\ [](TypeOK /\ NeverOvercharged /\ OrderlyCallsAreHeld)
                    /\ [](RoutingTypeOK /\ AppsAreWhole /\ OrderlyLimitHolds)
                    /\ []RequestsKeepTheirStores
BY AccountsParts, TypeCorrect, NeverOverchargedAlways, OrderlyCallsAlwaysHeld,
   RoutingTypesCorrect, AppsStayWhole, OrderlyLimitAlwaysHolds,
   RequestsAlwaysKeepTheirStores, PTL
=============================================================================
