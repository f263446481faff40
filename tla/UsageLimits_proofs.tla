------------------------- MODULE UsageLimits_proofs -------------------------
(***************************************************************************)
(* Machine-checked theorems about UsageLimits, for any sets of users and   *)
(* calls, any limits, any windows and any bound on the clock.              *)
(***************************************************************************)
EXTENDS UsageLimits, FiniteSetTheorems, TLAPS

-----------------------------------------------------------------------------
(* The type invariant.                                                     *)

\* Sets of times are sets of integers.
LEMMA TimeIsInt == Times \subseteq Nat
BY LimitsAssumption DEF Times

\* A window keeps its type when a call is counted in it.
LEMMA BumpWindowType ==
    ASSUME NEW w \in Windows, NEW len \in Nat, NEW t \in Times
    PROVE  BumpWindow(w, len, t) \in Windows
<1>1. CASE t > w.since + len
  BY <1>1 DEF BumpWindow, Windows
<1>2. CASE ~(t > w.since + len)
  <2>1. BumpWindow(w, len, t) = [w EXCEPT !.count = w.count + 1]
    BY <1>2 DEF BumpWindow
  <2> QED
    BY <2>1 DEF Windows
<1> QED
  BY <1>1, <1>2

\* So does a row when a call is recorded in it.
LEMMA BumpType ==
    ASSUME NEW r \in Rows, NEW kind, NEW t \in Times
    PROVE  Bump(r, kind, t) \in Rows
<1>1. /\ BumpWindow(r.hour, HourLen, t) \in Windows
      /\ BumpWindow(r.month, MonthLen, t) \in Windows
  BY BumpWindowType, LimitsAssumption DEF Rows
<1>2. CASE kind = "query"
  <2>1. Bump(r, kind, t) = [r EXCEPT !.hour = BumpWindow(r.hour, HourLen, t),
                                     !.month = BumpWindow(r.month, MonthLen, t)]
    BY <1>2 DEF Bump
  <2> QED
    BY <1>1, <2>1 DEF Rows
<1>3. CASE kind # "query"
  BY <1>3 DEF Bump, Rows
<1> QED
  BY <1>2, <1>3

\* A new row has its type.
LEMMA FreshRowType ==
    ASSUME NEW tier \in Tiers, NEW t \in Times
    PROVE  FreshRow(tier, t) \in Rows
BY DEF FreshRow, FreshWindow, Rows, Windows

LEMMA InitTypes == Init => TypeOK
<1> SUFFICES ASSUME Init PROVE TypeOK
  OBVIOUS
<1>1. 0 \in Times
  BY LimitsAssumption DEF Times
<1>2. FreshRow("paid", 0) \in Rows
  BY <1>1, FreshRowType DEF Tiers
<1>3. row \in [Users -> Rows \cup {NoRow}]
  BY <1>2 DEF Init
<1>4. orderly \in [Users -> BOOLEAN]
  BY DEF Init
<1> QED
  BY <1>1, <1>3, <1>4 DEF Init, TypeOK, Pcs

\* What a step does to a call's place in the program keeps its type.
LEMMA PcTypes ==
    ASSUME TypeOK, NEW c \in Calls
    PROVE  /\ \A to \in Pcs : Goto(c, to) => pc' \in [Calls -> Pcs]
           /\ Pass(c) => pc' \in [Calls -> Pcs]
           /\ \A to \in Pcs : Raise(c, to) => pc' \in [Calls -> Pcs]
           /\ ByTier(c) => pc' \in [Calls -> Pcs]
<1>1. ASSUME NEW to \in Pcs, Goto(c, to) PROVE pc' \in [Calls -> Pcs]
  BY <1>1 DEF Goto, TypeOK
<1>2. {"served", "act", "check", "read"} \subseteq Pcs
  BY DEF Pcs
<1>3. Pass(c) => pc' \in [Calls -> Pcs]
  BY <1>1, <1>2 DEF Pass
<1>4. \A to \in Pcs : Raise(c, to) => pc' \in [Calls -> Pcs]
  BY <1>1, <1>2 DEF Raise
<1>5. ByTier(c) => pc' \in [Calls -> Pcs]
  BY <1>1, <1>2, <1>3 DEF ByTier
<1> QED
  BY <1>1, <1>3, <1>4, <1>5

\* A call that checks or records has a row to look at, and writes only what it has read.
RowInHand ==
    \A c \in Calls : /\ pc[c] \in {"check", "read", "write"} => row[User(c)] # NoRow
                     /\ pc[c] = "write" => snap[c] # NoRow

LEMMA TypeStep ==
    ASSUME TypeOK, RowInHand, [Next]_vars
    PROVE  TypeOK'
<1> USE DEF TypeOK
<1>1. \A c \in Calls : User(c) \in Users
  BY DEF User
<1>2. CASE Tick
  BY <1>2, LimitsAssumption DEF Tick, Times
<1>3. ASSUME NEW c \in Calls, Begin(c) PROVE TypeOK'
  <2>1. pc' \in [Calls -> Pcs]
    BY <1>3, PcTypes DEF Begin, Pcs
  <2>2. orderly' \in [Users -> BOOLEAN]
    <3> DEFINE alone == orderly[User(c)] /\ \A e \in Calls : User(e) = User(c) => ~Active(e)
    <3>1. alone \in BOOLEAN
      OBVIOUS
    <3>2. orderly' = [orderly EXCEPT ![User(c)] = alone]
      BY <1>3 DEF Begin
    <3> HIDE DEF alone
    <3> QED
      BY <3>1, <3>2
  <2> QED
    BY <1>3, <2>1, <2>2 DEF Begin
<1>4. ASSUME NEW c \in Calls, Load(c) PROVE TypeOK'
  BY <1>4, PcTypes DEF Load, Pcs
<1>5. ASSUME NEW c \in Calls, Create(c) PROVE TypeOK'
  <2>1. pc' \in [Calls -> Pcs]
    BY <1>5, PcTypes DEF Create, Pcs
  <2>2. FreshRow("free", now) \in Rows
    BY FreshRowType DEF Tiers
  <2>3. row' \in [Users -> Rows \cup {NoRow}]
    BY <1>1, <1>5, <2>2 DEF Create
  <2>4. orderly' \in [Users -> BOOLEAN]
    BY <1>1, <1>5 DEF Create
  <2> QED
    BY <1>5, <2>1, <2>3, <2>4 DEF Create
<1>6. ASSUME NEW c \in Calls, Reload(c) PROVE TypeOK'
  BY <1>6, PcTypes DEF Reload
<1>7. ASSUME NEW c \in Calls, Check(c) PROVE TypeOK'
  <2>1. "read" \in Pcs /\ "refused" \in Pcs
    BY DEF Pcs
  <2>2. pc' \in [Calls -> Pcs]
    BY <1>7, <2>1, PcTypes DEF Check
  <2> QED
    BY <1>7, <2>2 DEF Check
<1>8. ASSUME NEW c \in Calls, ReadUsage(c) PROVE TypeOK'
  <2>1. pc' \in [Calls -> Pcs]
    BY <1>8, PcTypes DEF ReadUsage, Pcs
  <2>2. row[User(c)] \in Rows \cup {NoRow}
    BY <1>1
  <2> QED
    BY <1>8, <2>1, <2>2 DEF ReadUsage
<1>9. ASSUME NEW c \in Calls, WriteUsage(c) PROVE TypeOK'
  <2>1. pc' \in [Calls -> Pcs]
    BY <1>9, PcTypes DEF WriteUsage
  <2>2. snap[c] \in Rows
    BY <1>9 DEF RowInHand, WriteUsage
  <2>3. Bump(snap[c], Kind(c), at[c]) \in Rows
    BY <2>2, BumpType
  <2>4. row' \in [Users -> Rows \cup {NoRow}]
    BY <1>1, <1>9, <2>3 DEF WriteUsage
  <2>5. 0 \in Times
    BY LimitsAssumption DEF Times
  <2> QED
    BY <1>9, <2>1, <2>4, <2>5 DEF WriteUsage
<1>10. ASSUME NEW c \in Calls, DbError(c) PROVE TypeOK'
  <2>1. pc' \in [Calls -> Pcs]
    BY <1>10, PcTypes DEF DbError, Pcs
  <2>2. orderly' \in [Users -> BOOLEAN]
    BY <1>1, <1>10 DEF DbError
  <2>3. 0 \in Times
    BY LimitsAssumption DEF Times
  <2> QED
    BY <1>10, <2>1, <2>2, <2>3 DEF DbError
<1>11. ASSUME NEW c \in Calls, Upload(c) PROVE TypeOK'
  <2>1. pc' \in [Calls -> Pcs]
    BY <1>11, PcTypes DEF Upload, Pcs
  <2> QED
    BY <1>11, <2>1 DEF Upload
<1>12. ASSUME NEW c \in Calls, DeleteFile(c) PROVE TypeOK'
  BY <1>12 DEF DeleteFile
<1>13. CASE UNCHANGED vars
  BY <1>13 DEF vars
<1> QED
  BY <1>2, <1>3, <1>4, <1>5, <1>6, <1>7, <1>8, <1>9, <1>10, <1>11, <1>12, <1>13
     DEF Next, CallStep
-----------------------------------------------------------------------------
(* What may have been charged.                                             *)

\* The files a user has been charged for.
ChargedFiles(u) ==
    {c \in Calls : User(c) = u /\ Kind(c) = "file" /\ chargedAt[c] # Never}

\* A window has begun, and counts no more queries than were recorded since.
WindowPaid(w, u) == /\ w.since <= now
                    /\ w.count <= Cardinality(QueriesSince(u, w.since))

\* A row, the one in the table or one that update_usage still holds, counts no more
\* than was recorded by now.
RowPaid(r, u) == r # NoRow => /\ r.files <= Cardinality(ChargedFiles(u))
                              /\ WindowPaid(r.hour, u)
                              /\ WindowPaid(r.month, u)

\* A call is recorded once, as its last step, and a file only after its upload.
CallOrder ==
    \A c \in Calls : /\ pc[c] # "served" => chargedAt[c] = Never
                     /\ (chargedAt[c] # Never /\ Kind(c) = "file") => c \in up
                     /\ pc[c] \in {"read", "write"} => Charging(c)
                     /\ at[c] <= now

\* The inductive invariant.  A row that a call holds must be paid for like the one in
\* the table, because the call will write it back.
UsageInv == /\ TypeOK
            /\ RowInHand
            /\ CallOrder
            /\ \A u \in Users : RowPaid(row[u], u)
            /\ \A c \in Calls : RowPaid(snap[c], User(c))

\* The sets that are counted are finite.
LEMMA CountsAreNumbers ==
    ASSUME NEW u, NEW t
    PROVE  /\ IsFiniteSet(QueriesSince(u, t)) /\ Cardinality(QueriesSince(u, t)) \in Nat
           /\ IsFiniteSet(ChargedFiles(u)) /\ Cardinality(ChargedFiles(u)) \in Nat
<1>1. QueriesSince(u, t) \in SUBSET Calls /\ ChargedFiles(u) \in SUBSET Calls
  BY DEF QueriesSince, ChargedFiles
<1> QED
  BY <1>1, FS_Subset, FS_CardinalityType, CallsAssumption

\* A row that is paid for stays so while calls are only added to the records.
LEMMA PaidStaysPaid ==
    ASSUME TypeOK, TypeOK', req' = req, now <= now',
           \A c \in Calls : chargedAt[c] # Never => chargedAt'[c] = chargedAt[c],
           NEW r \in Rows \cup {NoRow}, NEW u, RowPaid(r, u)
    PROVE  RowPaid(r, u)'
<1>1. SUFFICES ASSUME r # NoRow
               PROVE  /\ r.files <= Cardinality(ChargedFiles(u)')
                      /\ r.hour.since <= now'
                      /\ r.hour.count <= Cardinality(QueriesSince(u, r.hour.since)')
                      /\ r.month.since <= now'
                      /\ r.month.count <= Cardinality(QueriesSince(u, r.month.since)')
  BY DEF RowPaid, WindowPaid
<1>2. ChargedFiles(u) \subseteq ChargedFiles(u)'
  BY DEF ChargedFiles, User, Kind
<1>3. \A t \in Times : QueriesSince(u, t) \subseteq QueriesSince(u, t)'
  BY DEF QueriesSince, User, Kind
<1>4. ChargedFiles(u)' \in SUBSET Calls /\ \A t : QueriesSince(u, t)' \in SUBSET Calls
  BY DEF ChargedFiles, QueriesSince
<1>5. /\ IsFiniteSet(ChargedFiles(u)') /\ Cardinality(ChargedFiles(u)') \in Nat
      /\ \A t : /\ IsFiniteSet(QueriesSince(u, t)')
                /\ Cardinality(QueriesSince(u, t)') \in Nat
  BY <1>4, FS_Subset, FS_CardinalityType, CallsAssumption
<1>6. Cardinality(ChargedFiles(u)) <= Cardinality(ChargedFiles(u)')
  BY <1>2, <1>5, FS_Subset
<1>7. \A t \in Times :
        Cardinality(QueriesSince(u, t)) <= Cardinality(QueriesSince(u, t)')
  BY <1>3, <1>5, FS_Subset
<1>8. /\ r.files \in Nat
      /\ r.hour.since \in Times /\ r.hour.count \in Nat
      /\ r.month.since \in Times /\ r.month.count \in Nat
  BY <1>1 DEF Rows, Windows
<1>9. /\ r.files <= Cardinality(ChargedFiles(u))
      /\ r.hour.since <= now
      /\ r.hour.count <= Cardinality(QueriesSince(u, r.hour.since))
      /\ r.month.since <= now
      /\ r.month.count <= Cardinality(QueriesSince(u, r.month.since))
  BY <1>1 DEF RowPaid, WindowPaid
<1>10. /\ now \in Nat /\ now' \in Nat
       /\ r.hour.since \in Nat /\ r.month.since \in Nat
  <2>1. now \in Times /\ now' \in Times
    BY DEF TypeOK
  <2> QED
    BY <1>8, <2>1, TimeIsInt
<1>11. r.hour.since <= now' /\ r.month.since <= now'
  BY <1>9, <1>10
<1>12. r.files <= Cardinality(ChargedFiles(u)')
  BY <1>5, <1>6, <1>8, <1>9, CountsAreNumbers
<1>13. r.hour.count <= Cardinality(QueriesSince(u, r.hour.since)')
  BY <1>5, <1>7, <1>8, <1>9, CountsAreNumbers
<1>14. r.month.count <= Cardinality(QueriesSince(u, r.month.since)')
  BY <1>5, <1>7, <1>8, <1>9, CountsAreNumbers
<1> QED
  BY <1>11, <1>12, <1>13, <1>14

\* A new row counts nothing.
LEMMA FreshRowPaid ==
    ASSUME TypeOK, NEW tier, NEW t \in Times, t <= now, NEW u
    PROVE  RowPaid(FreshRow(tier, t), u)
BY CountsAreNumbers DEF RowPaid, WindowPaid, FreshRow, FreshWindow

\* A step never takes back or changes what is recorded, and the clock does not turn back.
LEMMA RecordsGrow ==
    ASSUME UsageInv, [Next]_vars
    PROVE  /\ req' = req
           /\ now <= now'
           /\ \A c \in Calls : chargedAt[c] # Never => chargedAt'[c] = chargedAt[c]
<1>1. now \in Nat
  BY TimeIsInt DEF UsageInv, TypeOK
<1>2. req' = req
  BY DEF Next, CallStep, vars, Tick, Begin, Load, Create, Reload, Check, ReadUsage,
         WriteUsage, DbError, Upload, DeleteFile
<1>3. now' = now \/ now' = now + 1
  BY DEF Next, CallStep, vars, Tick, Begin, Load, Create, Reload, Check, ReadUsage,
         WriteUsage, DbError, Upload, DeleteFile
<1>4. chargedAt' = chargedAt \/ \E c \in Calls : WriteUsage(c)
  BY DEF Next, CallStep, vars, Tick, Begin, Load, Create, Reload, Check, ReadUsage,
         DbError, Upload, DeleteFile
<1>5. ASSUME NEW c \in Calls, WriteUsage(c)
      PROVE  \A e \in Calls : chargedAt[e] # Never => chargedAt'[e] = chargedAt[e]
  <2>1. chargedAt[c] = Never
    BY <1>5 DEF UsageInv, CallOrder, WriteUsage
  <2> QED
    BY <1>5, <2>1 DEF WriteUsage, UsageInv, TypeOK
<1> QED
  BY <1>1, <1>2, <1>3, <1>4, <1>5

\* Where a step may leave the call it is about.
LEMMA PcMoves ==
    ASSUME TypeOK, NEW c \in Calls
    PROVE  /\ \A to : Goto(c, to) =>
                 \A e \in Calls : pc'[e] = IF e = c THEN to ELSE pc[e]
           /\ Pass(c) => \A e \in Calls :
                 pc'[e] = IF e = c THEN IF Charging(c) THEN "served" ELSE "act" ELSE pc[e]
           /\ \A to : Raise(c, to) => \A e \in Calls :
                 IF e = c THEN pc'[e] \in {"served", to} ELSE pc'[e] = pc[e]
           /\ ByTier(c) => \A e \in Calls :
                 IF e = c THEN /\ pc'[e] \in {"check", "read", "act"}
                               /\ pc'[e] = "read" => Charging(c)
                 ELSE pc'[e] = pc[e]
<1>1. \A to : Goto(c, to) => \A e \in Calls : pc'[e] = IF e = c THEN to ELSE pc[e]
  BY DEF Goto, TypeOK
<1>2. Pass(c) => \A e \in Calls :
        pc'[e] = IF e = c THEN IF Charging(c) THEN "served" ELSE "act" ELSE pc[e]
  BY <1>1 DEF Pass
<1>3. \A to : Raise(c, to) => \A e \in Calls :
        IF e = c THEN pc'[e] \in {"served", to} ELSE pc'[e] = pc[e]
  BY <1>1 DEF Raise
<1>4. ASSUME ByTier(c)
      PROVE  \A e \in Calls :
                 IF e = c THEN /\ pc'[e] \in {"check", "read", "act"}
                               /\ pc'[e] = "read" => Charging(c)
                 ELSE pc'[e] = pc[e]
  <2>1. CASE row[User(c)].tier = "free"
    BY <1>1, <1>4, <2>1 DEF ByTier
  <2>2. CASE row[User(c)].tier # "free" /\ Charging(c)
    BY <1>1, <1>4, <2>2 DEF ByTier
  <2>3. CASE row[User(c)].tier # "free" /\ ~Charging(c)
    BY <1>2, <1>4, <2>3 DEF ByTier
  <2> QED
    BY <2>1, <2>2, <2>3
<1> QED
  BY <1>1, <1>2, <1>3, <1>4

\* The order of a call's steps is kept.
LEMMA OrderStep ==
    ASSUME UsageInv, [Next]_vars
    PROVE  RowInHand' /\ CallOrder'
<1> USE DEF UsageInv
<1>1. /\ req' = req /\ now <= now' /\ now \in Nat /\ now' \in Nat
      /\ \A c \in Calls : at[c] \in Nat
  <2>1. TypeOK'
    BY TypeStep
  <2>2. now \in Times /\ now' \in Times /\ \A c \in Calls : at[c] \in Times
    BY <2>1 DEF TypeOK
  <2> QED
    BY <2>2, RecordsGrow, TimeIsInt
<1>2. ASSUME NEW c \in Calls
      PROVE  User(c)' = User(c) /\ Kind(c)' = Kind(c) /\ User(c) \in Users
  BY <1>1 DEF User, Kind, TypeOK
<1>3. CASE UNCHANGED <<row, pc, snap, up, chargedAt, at>>
  BY <1>1, <1>2, <1>3 DEF RowInHand, CallOrder, Charging
<1>4. CASE Tick \/ UNCHANGED vars
  BY <1>3, <1>4 DEF Tick, vars
<1>5. ASSUME NEW c \in Calls, DeleteFile(c) PROVE RowInHand' /\ CallOrder'
  BY <1>3, <1>5 DEF DeleteFile
<1>6. ASSUME NEW c \in Calls, Begin(c) PROVE RowInHand' /\ CallOrder'
  <2>1. \A e \in Calls : pc'[e] = IF e = c THEN "load" ELSE pc[e]
    BY <1>6, PcMoves DEF Begin
  <2> QED
    BY <1>1, <1>2, <1>6, <2>1 DEF Begin, RowInHand, CallOrder, Charging
<1>7. ASSUME NEW c \in Calls, Load(c) \/ Reload(c) PROVE RowInHand' /\ CallOrder'
  <2>1. /\ pc[c] \in {"load", "reload"}
        /\ UNCHANGED <<row, now, req, snap, at, up, chargedAt>>
    BY <1>7 DEF Load, Reload
  <2>2. /\ \A e \in Calls : e # c => pc'[e] = pc[e]
        /\ pc'[c] # "write"
        /\ pc'[c] = "read" => Charging(c)
        /\ pc'[c] \in {"check", "read"} => row[User(c)] # NoRow
        /\ pc'[c] = "served" => Charging(c)
    BY <1>7, PcMoves DEF Load, Reload
  <2> QED
    BY <1>1, <1>2, <2>1, <2>2 DEF RowInHand, CallOrder, Charging
<1>8. ASSUME NEW c \in Calls, Create(c) PROVE RowInHand' /\ CallOrder'
  <2>1. \A e \in Calls : pc'[e] = IF e = c THEN "reload" ELSE pc[e]
    BY <1>8, PcMoves DEF Create
  <2>2. FreshRow("free", now) # NoRow
    BY FreshRowType, NoRowAssumption DEF Tiers, TypeOK
  <2>3. \A u \in Users : row[u] # NoRow => row'[u] # NoRow
    BY <1>8, <2>2 DEF Create, TypeOK
  <2> QED
    BY <1>1, <1>2, <1>8, <2>1, <2>3 DEF Create, RowInHand, CallOrder, Charging
<1>9. ASSUME NEW c \in Calls, Check(c) PROVE RowInHand' /\ CallOrder'
  <2>1. /\ \A e \in Calls : e # c => pc'[e] = pc[e]
        /\ pc'[c] \in {"read", "act", "served", "refused"}
        /\ pc'[c] = "read" => Charging(c)
    BY <1>9, PcMoves DEF Check
  <2>2. pc[c] = "check"
    BY <1>9 DEF Check
  <2>3. UNCHANGED <<row, now, req, snap, at, up, chargedAt>>
    BY <1>9 DEF Check
  <2> QED
    BY <1>1, <1>2, <2>1, <2>2, <2>3 DEF RowInHand, CallOrder, Charging
<1>10. ASSUME NEW c \in Calls, ReadUsage(c) PROVE RowInHand' /\ CallOrder'
  <2>1. \A e \in Calls : pc'[e] = IF e = c THEN "write" ELSE pc[e]
    BY <1>10, PcMoves DEF ReadUsage
  <2>2. /\ \A e \in Calls : snap'[e] = IF e = c THEN row[User(c)] ELSE snap[e]
        /\ \A e \in Calls : at'[e] = IF e = c THEN now ELSE at[e]
    BY <1>10 DEF ReadUsage, TypeOK
  <2>3. pc[c] = "read" /\ UNCHANGED <<row, now, up, chargedAt>>
    BY <1>10 DEF ReadUsage
  <2> QED
    BY <1>1, <1>2, <2>1, <2>2, <2>3 DEF RowInHand, CallOrder, Charging
<1>11. ASSUME NEW c \in Calls, WriteUsage(c) PROVE RowInHand' /\ CallOrder'
  <2>1. pc[c] = "write" /\ Charging(c) /\ UNCHANGED <<now, up>>
    BY <1>11 DEF WriteUsage, CallOrder
  <2>2. \A e \in Calls : pc'[e] = IF e = c THEN "served" ELSE pc[e]
    BY <1>11, <2>1, PcMoves DEF WriteUsage
  <2>3. /\ \A e \in Calls : snap'[e] = IF e = c THEN NoRow ELSE snap[e]
        /\ \A e \in Calls : at'[e] = IF e = c THEN 0 ELSE at[e]
        /\ \A e \in Calls : chargedAt'[e] = IF e = c THEN now ELSE chargedAt[e]
    BY <1>11 DEF WriteUsage, TypeOK
  <2>4. Bump(snap[c], Kind(c), at[c]) # NoRow
    BY <2>1, BumpType, NoRowAssumption DEF RowInHand, TypeOK
  <2>5. \A u \in Users : row[u] # NoRow => row'[u] # NoRow
    BY <1>11, <2>4 DEF WriteUsage, TypeOK
  <2> QED
    BY <1>1, <1>2, <2>1, <2>2, <2>3, <2>5 DEF RowInHand, CallOrder, Charging
<1>12. ASSUME NEW c \in Calls, DbError(c) PROVE RowInHand' /\ CallOrder'
  <2>1. /\ \A e \in Calls : e # c => pc'[e] = pc[e]
        /\ pc'[c] \in {"served", "error", "act"}
        /\ pc[c] # "served"
    BY <1>12, PcMoves DEF DbError
  <2>2. /\ \A e \in Calls : e # c => snap'[e] = snap[e] /\ at'[e] = at[e]
        /\ at'[c] = 0
    BY <1>12 DEF DbError, TypeOK
  <2>3. UNCHANGED <<row, now, up, chargedAt>>
    BY <1>12 DEF DbError
  <2> QED
    BY <1>1, <1>2, <2>1, <2>2, <2>3 DEF RowInHand, CallOrder, Charging
<1>13. ASSUME NEW c \in Calls, Upload(c) PROVE RowInHand' /\ CallOrder'
  <2>1. \A e \in Calls : pc'[e] = IF e = c THEN "load" ELSE pc[e]
    BY <1>13, PcMoves DEF Upload
  <2>2. pc[c] = "act" /\ up' = up \cup {c}
    BY <1>13 DEF Upload
  <2>3. UNCHANGED <<row, now, snap, at, chargedAt>>
    BY <1>13 DEF Upload
  <2> QED
    BY <1>1, <1>2, <2>1, <2>2, <2>3 DEF RowInHand, CallOrder, Charging
<1> QED
  BY <1>4, <1>5, <1>6, <1>7, <1>8, <1>9, <1>10, <1>11, <1>12, <1>13 DEF Next, CallStep

\* A window counts one more query once that query has been recorded: the count goes up
\* by one for a query that was not among those counted, or starts again at one.
LEMMA BumpedWindowPaid ==
    ASSUME UsageInv, [Next]_vars, NEW c \in Calls, WriteUsage(c), Kind(c) = "query",
           NEW u, u = User(c), NEW w \in Windows, WindowPaid(w, u),
           NEW len \in Nat, NEW b, b = BumpWindow(w, len, at[c])
    PROVE  WindowPaid(b, u)'
<1>1. /\ now \in Nat /\ now' = now /\ at[c] \in Nat /\ at[c] <= now
      /\ w.since \in Nat /\ w.count \in Nat /\ w.since <= now
  <2>1. now \in Times /\ at[c] \in Times /\ w.since \in Times /\ w.count \in Nat
    BY DEF UsageInv, TypeOK, Windows
  <2> QED
    BY <2>1, TimeIsInt DEF UsageInv, CallOrder, WriteUsage, WindowPaid
<1>2. req' = req /\ chargedAt[c] = Never /\ chargedAt' = [chargedAt EXCEPT ![c] = now]
  BY DEF UsageInv, CallOrder, WriteUsage
<1>3. TypeOK'
  BY TypeStep DEF UsageInv
<1>4. \A t \in Nat : t <= now => QueriesSince(u, t)' = QueriesSince(u, t) \cup {c}
  BY <1>1, <1>2 DEF QueriesSince, User, Kind, UsageInv, TypeOK, Never
<1>5. \A t : c \notin QueriesSince(u, t)
  BY <1>2 DEF QueriesSince
<1>6. \A t \in Nat : t <= now =>
        Cardinality(QueriesSince(u, t)') = Cardinality(QueriesSince(u, t)) + 1
  BY <1>4, <1>5, CountsAreNumbers, FS_AddElement
<1>7. SUFFICES b.since <= now /\ b.count <= Cardinality(QueriesSince(u, b.since)')
  BY <1>1 DEF WindowPaid
<1>8. CASE at[c] > w.since + len
  <2>1. b.since = at[c] /\ b.count = 1
    BY <1>8 DEF BumpWindow
  <2> QED
    BY <1>1, <1>6, <2>1, CountsAreNumbers
<1>9. CASE ~(at[c] > w.since + len)
  <2>1. b.since = w.since /\ b.count = w.count + 1
    BY <1>9 DEF BumpWindow, Windows
  <2>2. w.count <= Cardinality(QueriesSince(u, w.since))
    BY DEF WindowPaid
  <2> QED
    BY <1>1, <1>6, <2>1, <2>2, CountsAreNumbers
<1> QED
  BY <1>8, <1>9

\* What update_usage writes back is paid for once the call is recorded.
LEMMA RecordedRowPaid ==
    ASSUME UsageInv, [Next]_vars, NEW c \in Calls, WriteUsage(c),
           NEW u, u = User(c), NEW b, b = Bump(snap[c], Kind(c), at[c])
    PROVE  RowPaid(b, u)'
<1>1. /\ snap[c] \in Rows /\ RowPaid(snap[c], u) /\ snap[c] # NoRow
      /\ snap[c].hour \in Windows /\ snap[c].month \in Windows /\ snap[c].files \in Nat
  BY DEF UsageInv, RowInHand, WriteUsage, TypeOK, Rows
<1>2. TypeOK' /\ b \in Rows
  BY <1>1, TypeStep, BumpType DEF UsageInv, TypeOK
<1>4. PICK s : s = snap[c]
  OBVIOUS
<1>5. RowPaid(s, u)'
  BY <1>1, <1>2, <1>4, PaidStaysPaid, RecordsGrow DEF UsageInv
<1>6. CASE Kind(c) = "query"
  <2>1. /\ b.files = s.files
        /\ b.hour = BumpWindow(s.hour, HourLen, at[c])
        /\ b.month = BumpWindow(s.month, MonthLen, at[c])
    BY <1>1, <1>4, <1>6 DEF Bump, Rows
  <2>2. WindowPaid(s.hour, u) /\ WindowPaid(s.month, u)
    BY <1>1, <1>4 DEF RowPaid
  <2>3. WindowPaid(b.hour, u)' /\ WindowPaid(b.month, u)'
    BY <1>1, <1>4, <1>6, <2>1, <2>2, BumpedWindowPaid, LimitsAssumption
  <2>4. b.files <= Cardinality(ChargedFiles(u)')
    BY <1>1, <1>4, <1>5, <2>1 DEF RowPaid
  <2> QED
    BY <2>3, <2>4 DEF RowPaid
<1>7. CASE Kind(c) # "query"
  <2>1. /\ b.files = s.files + 1
        /\ b.hour = s.hour
        /\ b.month = s.month
    BY <1>1, <1>4, <1>7 DEF Bump, Rows
  <2>2. Kind(c) = "file"
    BY <1>7 DEF Kind, Kinds, UsageInv, TypeOK
  <2>3. chargedAt[c] = Never /\ chargedAt' = [chargedAt EXCEPT ![c] = now] /\ now # Never
    BY TimeIsInt DEF UsageInv, CallOrder, WriteUsage, TypeOK, Never
  <2>4. ChargedFiles(u)' = ChargedFiles(u) \cup {c} /\ c \notin ChargedFiles(u)
    BY <2>2, <2>3, RecordsGrow DEF ChargedFiles, User, Kind, UsageInv, TypeOK
  <2>5. Cardinality(ChargedFiles(u)') = Cardinality(ChargedFiles(u)) + 1
    BY <2>4, CountsAreNumbers, FS_AddElement
  <2>6. s.files <= Cardinality(ChargedFiles(u))
    BY <1>1, <1>4 DEF RowPaid
  <2>7. b.files <= Cardinality(ChargedFiles(u)')
    BY <1>1, <1>4, <2>1, <2>5, <2>6, CountsAreNumbers
  <2>8. WindowPaid(b.hour, u)' /\ WindowPaid(b.month, u)'
    <3>1. WindowPaid(s.hour, u)' /\ WindowPaid(s.month, u)'
      BY <1>1, <1>4, <1>5 DEF RowPaid
    <3> QED
      BY <2>1, <3>1 DEF WindowPaid
  <2> QED
    BY <2>7, <2>8 DEF RowPaid
<1> QED
  BY <1>6, <1>7

\* The rows of the table and the rows the calls hold stay paid for.
LEMMA PaidStep ==
    ASSUME UsageInv, [Next]_vars
    PROVE  /\ \A u \in Users : RowPaid(row[u], u)'
           /\ \A c \in Calls : RowPaid(snap[c], User(c))'
<1> USE DEF UsageInv
<1>1. TypeOK' /\ req' = req
  BY TypeStep, RecordsGrow
<1>2. \A u : RowPaid(NoRow, u)'
  BY DEF RowPaid
<1>3. \A r \in Rows \cup {NoRow} : \A u : RowPaid(r, u) => RowPaid(r, u)'
  BY <1>1, PaidStaysPaid, RecordsGrow
<1>4. ASSUME NEW u \in Users
      PROVE  \E r : r = row'[u] /\ RowPaid(r, u)'
  <2>1. \/ row'[u] = row[u]
        \/ \E c \in Calls : Create(c) /\ u = User(c)
        \/ \E c \in Calls : WriteUsage(c) /\ u = User(c)
    BY DEF Next, CallStep, vars, Tick, Begin, Load, Create, Reload, Check, ReadUsage,
           WriteUsage, DbError, Upload, DeleteFile, TypeOK
  <2>2. CASE row'[u] = row[u]
    <3>1. row[u] \in Rows \cup {NoRow}
      BY DEF TypeOK
    <3> QED
      BY <1>3, <2>2, <3>1
  <2>3. ASSUME NEW c \in Calls, Create(c), u = User(c)
        PROVE  \E r : r = row'[u] /\ RowPaid(r, u)'
    <3>1. row'[u] = row[u] \/ row'[u] = FreshRow("free", now)
      BY <2>3 DEF Create, TypeOK
    <3>2. FreshRow("free", now) \in Rows
      BY FreshRowType DEF Tiers, TypeOK
    <3>3. now \in Times /\ now <= now
      BY TimeIsInt DEF TypeOK
    <3>4. RowPaid(FreshRow("free", now), u)
      BY <3>3, FreshRowPaid
    <3> QED
      BY <1>3, <2>2, <3>1, <3>2, <3>4
  <2>4. ASSUME NEW c \in Calls, WriteUsage(c), u = User(c)
        PROVE  \E r : r = row'[u] /\ RowPaid(r, u)'
    <3>1. row'[u] = Bump(snap[c], Kind(c), at[c])
      BY <2>4 DEF WriteUsage, TypeOK
    <3> QED
      BY <2>4, <3>1, RecordedRowPaid
  <2> QED
    BY <2>1, <2>2, <2>3, <2>4
<1>5. ASSUME NEW e \in Calls
      PROVE  \E r, u : r = snap'[e] /\ u = User(e) /\ RowPaid(r, u)'
  <2>1. User(e) \in Users
    BY DEF User, TypeOK
  <2>2. \/ snap'[e] = snap[e]
        \/ snap'[e] = NoRow
        \/ snap'[e] = row[User(e)]
    BY DEF Next, CallStep, vars, Tick, Begin, Load, Create, Reload, Check, ReadUsage,
           WriteUsage, DbError, Upload, DeleteFile, TypeOK
  <2>3. snap[e] \in Rows \cup {NoRow} /\ row[User(e)] \in Rows \cup {NoRow}
    BY <2>1 DEF TypeOK
  <2> QED
    BY <1>2, <1>3, <2>1, <2>2, <2>3
<1>6. \A u \in Users : RowPaid(row[u], u)'
  BY <1>4 DEF RowPaid, WindowPaid
<1>7. \A e \in Calls : RowPaid(snap[e], User(e))'
  BY <1>1, <1>5 DEF RowPaid, WindowPaid, User
<1> QED
  BY <1>6, <1>7
-----------------------------------------------------------------------------
(* The theorems.                                                           *)

LEMMA InvInit == Init => UsageInv
<1> SUFFICES ASSUME Init PROVE UsageInv
  OBVIOUS
<1>1. TypeOK
  BY InitTypes
<1>2. RowInHand /\ CallOrder
  BY TimeIsInt DEF Init, RowInHand, CallOrder
<1>3. \A u : RowPaid(NoRow, u)
  BY DEF RowPaid
<1>4. \A u : RowPaid(FreshRow("paid", 0), u)
  <2>1. 0 \in Times /\ now = 0 /\ 0 <= now
    BY LimitsAssumption DEF Times, Init
  <2> QED
    BY <1>1, <2>1, FreshRowPaid
<1>5. \A u \in Users : RowPaid(row[u], u)
  <2>1. \A u \in Users : row[u] \in {NoRow, FreshRow("paid", 0)}
    BY DEF Init
  <2> QED
    BY <1>3, <1>4, <2>1
<1>6. \A c \in Calls : RowPaid(snap[c], User(c))
  BY <1>3 DEF Init
<1> QED
  BY <1>1, <1>2, <1>5, <1>6 DEF UsageInv

LEMMA InvStep == UsageInv /\ [Next]_vars => UsageInv'
<1> SUFFICES ASSUME UsageInv, [Next]_vars PROVE UsageInv'
  OBVIOUS
<1>1. TypeOK'
  BY TypeStep DEF UsageInv
<1>2. RowInHand' /\ CallOrder'
  BY OrderStep
<1>3. /\ \A u \in Users : RowPaid(row[u], u)'
      /\ \A c \in Calls : RowPaid(snap[c], User(c))'
  BY PaidStep
<1> QED
  BY <1>1, <1>2, <1>3 DEF UsageInv

LEMMA InvHolds == Spec => []UsageInv
BY InvInit, InvStep, PTL DEF Spec

\* Every variable keeps its type.
THEOREM TypeCorrect == Spec => []TypeOK
<1>1. UsageInv => TypeOK
  BY DEF UsageInv
<1> QED
  BY <1>1, InvHolds, PTL

\* However calls overlap and fail, no user is charged for more than was done
\* (check_and_increment_limits, update_usage).
THEOREM NeverOverchargedAlways == Spec => []NeverOvercharged
<1>1. UsageInv => NeverOvercharged
  <2> SUFFICES ASSUME UsageInv, NEW u \in Users, row[u] # NoRow
               PROVE  /\ row[u].files <= Cardinality(Uploads(u))
                      /\ row[u].hour.count <= Cardinality(QueriesSince(u, row[u].hour.since))
                      /\ row[u].month.count <= Cardinality(QueriesSince(u, row[u].month.since))
    BY DEF NeverOvercharged
  <2>1. RowPaid(row[u], u)
    BY DEF UsageInv
  <2>2. ChargedFiles(u) \in SUBSET Uploads(u) /\ Uploads(u) \in SUBSET Calls
    BY DEF UsageInv, CallOrder, ChargedFiles, Uploads, TypeOK
  <2>3. /\ Cardinality(ChargedFiles(u)) <= Cardinality(Uploads(u))
        /\ Cardinality(Uploads(u)) \in Nat
    BY <2>2, CallsAssumption, FS_Subset, FS_CardinalityType
  <2>4. row[u].files \in Nat /\ row[u].files <= Cardinality(ChargedFiles(u))
    BY <2>1 DEF RowPaid, UsageInv, TypeOK, Rows
  <2>5. row[u].files <= Cardinality(Uploads(u))
    BY <2>3, <2>4, CountsAreNumbers
  <2> QED
    BY <2>1, <2>5 DEF RowPaid, WindowPaid
<1> QED
  BY <1>1, InvHolds, PTL
-----------------------------------------------------------------------------
(* A free user whose calls come one at a time is held to the limits.       *)

\* Only files are uploaded, each once, when its call gets there.
UploadOrder ==
    \A c \in Calls : /\ c \in up => Kind(c) = "file"
                     /\ pc[c] \in {"new", "act"} => c \notin up
                     /\ pc[c] = "act" => Kind(c) = "file"

\* The calls of a user do not overlap.
Alone(u) ==
    \A c, e \in Calls : User(c) = u /\ User(e) = u /\ Active(c) /\ Active(e) => c = e

\* The row counts every upload but the one whose call is still to charge for it.
FilesExact(u) ==
    /\ row[u] = NoRow => Uploads(u) = {}
    /\ row[u] # NoRow =>
          /\ \A c \in Uploads(u) : Active(c) => row[u].files + 1 = Cardinality(Uploads(u))
          /\ (\A c \in Uploads(u) : ~ Active(c)) => row[u].files = Cardinality(Uploads(u))

WithinLimits(u) ==
    row[u] # NoRow /\ row[u].tier = "free" =>
        /\ Cardinality(Uploads(u)) <= Limits.files
        /\ row[u].hour.count <= Limits.hour
        /\ row[u].month.count <= Limits.month

\* What a call has checked still holds: nothing has touched the row since.
Checked(c) ==
    LET r == row[User(c)] IN
    /\ pc[c] \in {"reload", "act"} => r # NoRow
    /\ pc[c] = "check" => r.tier = "free"
    /\ pc[c] = "act" /\ r.tier = "free" => Allowed(r, "file")
    /\ pc[c] \in {"read", "write"} /\ Kind(c) = "query" /\ r.tier = "free" =>
          Allowed(r, "query")
    /\ pc[c] = "write" => snap[c] = r

Tidy(u) == /\ Alone(u) /\ FilesExact(u) /\ WithinLimits(u)
           /\ \A c \in Calls : User(c) = u => Checked(c)

TidyInv == UploadOrder /\ \A u \in Users : orderly[u] => Tidy(u)

\* What is known of a user who is not the caller of a step does not change.
LEMMA UserSame ==
    ASSUME NEW v, req' = req, row'[v] = row[v],
           \A e \in Calls : User(e) = v => /\ pc'[e] = pc[e] /\ snap'[e] = snap[e]
                                           /\ e \in up' <=> e \in up,
           TypeOK, TypeOK', Tidy(v)
    PROVE  Tidy(v)'
<1>1. Uploads(v)' = Uploads(v)
  BY DEF Uploads, User, TypeOK
<1>2. \A e \in Calls : /\ User(e)' = User(e) /\ Kind(e)' = Kind(e)
                       /\ User(e) = v => (Active(e)' <=> Active(e))
  BY DEF User, Kind, Active
<1>3. \A e \in Uploads(v) : e \in Calls /\ User(e) = v
  BY DEF Uploads, TypeOK
<1>4. Alone(v)'
  BY <1>2 DEF Alone, Tidy
<1>5. FilesExact(v)'
  BY <1>1, <1>2, <1>3 DEF FilesExact, Tidy
<1>6. WithinLimits(v)'
  BY <1>1 DEF WithinLimits, Tidy
<1>7. ASSUME NEW e \in Calls, User(e)' = v PROVE Checked(e)'
  <2>1. Checked(e) /\ User(e) = v
    BY <1>2, <1>7 DEF Tidy
  <2> QED
    BY <1>2, <2>1 DEF Checked, Allowed
<1> QED
  BY <1>4, <1>5, <1>6, <1>7 DEF Tidy

\* Nothing has been checked by a call that is not active.
LEMMA IdleChecked == \A e : ~ Active(e) => Checked(e)
BY DEF Checked, Active

\* A step that leaves row and uploads alone keeps what they are to each other, unless it
\* ends a call that has uploaded.
LEMMA KeepsFiles ==
    ASSUME TypeOK, TypeOK', req' = req, NEW c \in Calls, NEW u, u = User(c), Tidy(u),
           row'[u] = row[u], up' = up,
           \A e \in Calls : e # c => pc'[e] = pc[e] /\ snap'[e] = snap[e],
           c \in up => (Active(c)' <=> Active(c)),
           Active(c) \/ \A e \in Calls : User(e) = u => ~ Active(e),
           Checked(c)'
    PROVE  Tidy(u)'
<1>1. Uploads(u)' = Uploads(u)
  BY DEF Uploads, User, TypeOK
<1>2. \A e \in Calls : /\ User(e)' = User(e) /\ Kind(e)' = Kind(e)
                       /\ e # c => (Active(e)' <=> Active(e))
  BY DEF User, Kind, Active
<1>3. \A e \in Uploads(u) : e \in Calls /\ User(e) = u /\ e \in up
  BY DEF Uploads, TypeOK
<1>4. Alone(u)'
  BY <1>2 DEF Alone, Tidy
<1>5. \A e \in Uploads(u) : Active(e)' <=> Active(e)
  BY <1>2, <1>3
<1>6. FilesExact(u)'
  BY <1>1, <1>5 DEF FilesExact, Tidy
<1>7. WithinLimits(u)'
  BY <1>1 DEF WithinLimits, Tidy
<1>8. ASSUME NEW e \in Calls, User(e)' = u, e # c PROVE Checked(e)'
  <2>1. Checked(e) /\ User(e) = u /\ pc'[e] = pc[e] /\ snap'[e] = snap[e]
    BY <1>2, <1>8 DEF Tidy
  <2> QED
    BY <1>2, <2>1 DEF Checked, Allowed
<1> QED
  BY <1>4, <1>6, <1>7, <1>8 DEF Tidy

\* The tier decides whether a call is checked.
LEMMA TierDecides ==
    ASSUME TypeOK, NEW c \in Calls, ByTier(c)
    PROVE  /\ \A e \in Calls : e # c => pc'[e] = pc[e]
           /\ \/ pc'[c] = "check" /\ row[User(c)].tier = "free"
              \/ pc'[c] \in {"read", "act"} /\ row[User(c)].tier # "free"
<1>1. CASE row[User(c)].tier = "free"
  BY <1>1, PcMoves DEF ByTier
<1>2. CASE row[User(c)].tier # "free" /\ Charging(c)
  BY <1>2, PcMoves DEF ByTier
<1>3. CASE row[User(c)].tier # "free" /\ ~ Charging(c)
  BY <1>3, PcMoves DEF ByTier
<1> QED
  BY <1>1, <1>2, <1>3

LEMMA UploadOrderStep ==
    ASSUME UsageInv, UploadOrder, [Next]_vars
    PROVE  UploadOrder'
<1> USE DEF UsageInv
<1>1. req' = req /\ TypeOK'
  BY TypeStep, RecordsGrow
<1>2. \A e \in Calls : Kind(e)' = Kind(e) /\ Kind(e) \in Kinds
  BY <1>1 DEF Kind, TypeOK
<1>3. CASE UNCHANGED <<pc, up>>
  BY <1>2, <1>3 DEF UploadOrder
<1>4. CASE Tick \/ UNCHANGED vars
  BY <1>3, <1>4 DEF Tick, vars
<1>5. ASSUME NEW c \in Calls, DeleteFile(c) PROVE UploadOrder'
  BY <1>3, <1>5 DEF DeleteFile
<1>6. ASSUME NEW c \in Calls, Upload(c) PROVE UploadOrder'
  <2>1. \A e \in Calls : pc'[e] = IF e = c THEN "load" ELSE pc[e]
    BY <1>6, PcMoves DEF Upload
  <2>2. pc[c] = "act" /\ up' = up \cup {c}
    BY <1>6 DEF Upload
  <2> QED
    BY <1>2, <2>1, <2>2 DEF UploadOrder
<1>7. ASSUME NEW c \in Calls, CallStep(c), ~ Upload(c), ~ DeleteFile(c)
      PROVE  UploadOrder'
  <2>1. up' = up
    BY <1>7 DEF CallStep, Begin, Load, Create, Reload, Check, ReadUsage, WriteUsage, DbError
  <2>2. /\ \A e \in Calls : e # c => pc'[e] = pc[e]
        /\ pc'[c] = "act" => ~ Charging(c)
        /\ pc'[c] # "new"
    <3>1. CASE Begin(c) \/ Create(c) \/ ReadUsage(c)
      BY <3>1, PcMoves DEF Begin, Create, ReadUsage
    <3>2. CASE Load(c) \/ Reload(c)
      <4>1. CASE Pass(c)
        BY <4>1, PcMoves
      <4>2. CASE Goto(c, "create")
        BY <4>2, PcMoves
      <4>3. CASE ByTier(c)
        <5>1. CASE row[User(c)].tier = "free" \/ Charging(c)
          BY <4>3, <5>1, PcMoves DEF ByTier
        <5>2. CASE ~ (row[User(c)].tier = "free" \/ Charging(c))
          BY <4>3, <4>1, <5>2 DEF ByTier
        <5> QED
          BY <5>1, <5>2
      <4> QED
        BY <3>2, <4>1, <4>2, <4>3 DEF Load, Reload
    <3>3. CASE Check(c) \/ WriteUsage(c) \/ DbError(c)
      <4>1. Pass(c) \/ Goto(c, "read") \/ Raise(c, "refused") \/ Raise(c, "error")
        BY <3>3 DEF Check, WriteUsage, DbError
      <4> QED
        BY <4>1, PcMoves
    <3> QED
      BY <1>7, <3>1, <3>2, <3>3 DEF CallStep
  <2> QED
    BY <1>2, <2>1, <2>2 DEF UploadOrder, Charging, Kinds
<1> QED
  BY <1>4, <1>5, <1>6, <1>7 DEF Next

LEMMA UploadsCount ==
    ASSUME TypeOK, NEW u
    PROVE  IsFiniteSet(Uploads(u)) /\ Cardinality(Uploads(u)) \in Nat
<1>1. Uploads(u) \in SUBSET Calls
  BY DEF Uploads, TypeOK
<1> QED
  BY <1>1, FS_Subset, FS_CardinalityType, CallsAssumption

\* Recording a call charges for an upload, or counts a query that there was room for.
LEMMA WriteTidy ==
    ASSUME UsageInv, UploadOrder, [Next]_vars, NEW c \in Calls, WriteUsage(c),
           NEW u, u = User(c), Tidy(u)
    PROVE  Tidy(u)'
<1> USE DEF UsageInv
<1>1. req' = req /\ TypeOK' /\ u \in Users
  BY TypeStep, RecordsGrow DEF User, TypeOK
<1>2. pc[c] = "write" /\ Active(c) /\ Charging(c) /\ up' = up
  BY DEF WriteUsage, CallOrder, Active
<1>3. \A e \in Calls : pc'[e] = IF e = c THEN "served" ELSE pc[e]
  BY <1>2, PcMoves DEF WriteUsage
<1>4. \A e \in Calls : User(e)' = User(e)
  BY <1>1 DEF User
<1>5. \A e \in Calls : User(e) = u => ~ Active(e)'
  BY <1>2, <1>3 DEF Active, Tidy, Alone
<1>6. Alone(u)' /\ \A e \in Calls : User(e)' = u => Checked(e)'
  BY <1>4, <1>5, IdleChecked DEF Alone, Checked, Active
<1>7. Uploads(u)' = Uploads(u) /\ \A e \in Uploads(u) : e \in Calls /\ User(e) = u
  BY <1>2, <1>4 DEF Uploads, TypeOK
<1>8. PICK r : r = row[u]
  OBVIOUS
<1>9. r \in Rows /\ r # NoRow /\ snap[c] = r /\ Checked(c)
  BY <1>1, <1>2, <1>8 DEF RowInHand, Tidy, Checked, TypeOK
<1>10. PICK b : b = Bump(r, Kind(c), at[c])
  OBVIOUS
<1>11. row'[u] = b /\ b \in Rows
  BY <1>1, <1>9, <1>10, BumpType DEF WriteUsage, TypeOK
<1>12. /\ r.files \in Nat /\ r.hour \in Windows /\ r.month \in Windows
       /\ Cardinality(Uploads(u)) \in Nat
  BY <1>9, UploadsCount DEF Rows
<1>13. SUFFICES /\ b.files = Cardinality(Uploads(u))
                /\ b.tier = "free" => /\ Cardinality(Uploads(u)) <= Limits.files
                                      /\ b.hour.count <= Limits.hour
                                      /\ b.month.count <= Limits.month
  <2>1. b # NoRow
    BY <1>11, NoRowAssumption
  <2>2. /\ row'[u] = NoRow => Uploads(u)' = {}
        /\ \A e \in Uploads(u)' : ~ Active(e)'
    BY <1>5, <1>7, <1>11, <2>1
  <2> QED
    BY <1>6, <1>7, <1>11, <2>2 DEF Tidy, FilesExact, WithinLimits
<1>14. b.tier = r.tier
  BY <1>9, <1>10 DEF Bump, Rows
<1>15. r.tier = "free" => /\ Cardinality(Uploads(u)) <= Limits.files
                          /\ r.hour.count <= Limits.hour
                          /\ r.month.count <= Limits.month
  BY <1>8, <1>9 DEF Tidy, WithinLimits
<1>16. CASE Kind(c) = "query"
  <2>1. b = [r EXCEPT !.hour = BumpWindow(r.hour, HourLen, at[c]),
                      !.month = BumpWindow(r.month, MonthLen, at[c])]
    BY <1>10, <1>16 DEF Bump
  <2>2. /\ b.files = r.files
        /\ b.hour = BumpWindow(r.hour, HourLen, at[c])
        /\ b.month = BumpWindow(r.month, MonthLen, at[c])
    BY <1>9, <2>1 DEF Rows
  <2>3. c \notin up
    BY <1>16 DEF UploadOrder
  <2>4. \A e \in Uploads(u) : ~ Active(e)
    BY <1>2, <1>7, <2>3 DEF Tidy, Alone, Uploads
  <2>5. r.files = Cardinality(Uploads(u))
    BY <1>8, <1>9, <2>4 DEF Tidy, FilesExact
  <2>6. r.tier = "free" => r.hour.count + 1 <= Limits.hour /\ r.month.count + 1 <= Limits.month
    BY <1>1, <1>2, <1>8, <1>9, <1>16 DEF Checked, Allowed
  <2>7. \A w \in Windows : \A len, t :
          BumpWindow(w, len, t).count = w.count + 1 \/ BumpWindow(w, len, t).count = 1
    BY DEF BumpWindow, Windows
  <2>8. \/ b.hour.count = r.hour.count + 1
        \/ b.hour.count = 1
    BY <1>12, <2>2, <2>7
  <2>9. \/ b.month.count = r.month.count + 1
        \/ b.month.count = 1
    BY <1>12, <2>2, <2>7
  <2>10. r.hour.count \in Nat /\ r.month.count \in Nat
    BY <1>12 DEF Windows
  <2>11. Limits.hour \in Nat /\ Limits.month \in Nat
    BY LimitsAssumption
  <2> QED
    BY <1>14, <1>15, <2>2, <2>5, <2>6, <2>8, <2>9, <2>10, <2>11
<1>17. CASE Kind(c) # "query"
  <2>1. b.files = r.files + 1 /\ b.hour = r.hour /\ b.month = r.month
    BY <1>9, <1>10, <1>17 DEF Bump, Rows
  <2>2. c \in Uploads(u)
    BY <1>2, <1>17 DEF Charging, Uploads
  <2>3. r.files + 1 = Cardinality(Uploads(u))
    BY <1>2, <1>8, <1>9, <2>2 DEF Tidy, FilesExact
  <2> QED
    BY <1>14, <1>15, <2>1, <2>3
<1> QED
  BY <1>16, <1>17

\* A file that is uploaded was checked, and is the next to be charged for.
LEMMA UploadTidy ==
    ASSUME UsageInv, UploadOrder, [Next]_vars, NEW c \in Calls, Upload(c),
           NEW u, u = User(c), Tidy(u)
    PROVE  Tidy(u)'
<1> USE DEF UsageInv
<1>1. req' = req /\ TypeOK' /\ u \in Users
  BY TypeStep, RecordsGrow DEF User, TypeOK
<1>2. /\ pc[c] = "act" /\ Active(c) /\ Kind(c) = "file" /\ c \notin up
      /\ up' = up \cup {c} /\ row' = row
  BY DEF Upload, UploadOrder, Active
<1>3. \A e \in Calls : pc'[e] = IF e = c THEN "load" ELSE pc[e]
  BY PcMoves DEF Upload
<1>4. \A e \in Calls : User(e)' = User(e)
  BY <1>1 DEF User
<1>5. \A e \in Calls : User(e) = u => (Active(e)' <=> e = c) /\ (Active(e) <=> e = c)
  BY <1>2, <1>3 DEF Active, Tidy, Alone
<1>6. Alone(u)'
  BY <1>4, <1>5 DEF Alone
<1>7. ASSUME NEW e \in Calls, User(e)' = u PROVE Checked(e)'
  BY <1>3, <1>4, <1>5, <1>7 DEF Checked, Active
<1>8. /\ Uploads(u)' = Uploads(u) \cup {c} /\ c \notin Uploads(u)
      /\ \A e \in Uploads(u) : e \in Calls /\ User(e) = u /\ e # c
  BY <1>2, <1>4 DEF Uploads, TypeOK
<1>9. PICK r : r = row[u]
  OBVIOUS
<1>10. r \in Rows /\ r # NoRow /\ r.files \in Nat /\ row'[u] = r
  BY <1>1, <1>2, <1>9 DEF Tidy, Checked, TypeOK, Rows
<1>11. /\ Cardinality(Uploads(u)) \in Nat
       /\ Cardinality(Uploads(u)') = Cardinality(Uploads(u)) + 1
  BY <1>8, UploadsCount, FS_AddElement
<1>12. r.files = Cardinality(Uploads(u))
  <2>1. \A e \in Uploads(u) : ~ Active(e)
    BY <1>5, <1>8
  <2> QED
    BY <1>9, <1>10, <2>1 DEF Tidy, FilesExact
<1>13. FilesExact(u)'
  <2>1. r.files + 1 = Cardinality(Uploads(u)')
    BY <1>11, <1>12
  <2>2. c \in Uploads(u)' /\ Active(c)'
    BY <1>5, <1>8
  <2> QED
    BY <1>10, <2>1, <2>2 DEF FilesExact
<1>14. r.tier = "free" => r.files + 1 <= Limits.files
  BY <1>2, <1>9 DEF Tidy, Checked, Allowed
<1>15. WithinLimits(u)'
  <2>1. r.tier = "free" => r.hour.count <= Limits.hour /\ r.month.count <= Limits.month
    BY <1>9, <1>10 DEF Tidy, WithinLimits
  <2> QED
    BY <1>10, <1>11, <1>12, <1>14, <2>1 DEF WithinLimits
<1> QED
  BY <1>6, <1>7, <1>13, <1>15 DEF Tidy

\* A new row finds nothing to count.
LEMMA CreateTidy ==
    ASSUME UsageInv, UploadOrder, [Next]_vars, NEW c \in Calls, Create(c),
           NEW u, u = User(c), Tidy(u), orderly'[u]
    PROVE  Tidy(u)'
<1> USE DEF UsageInv
<1>1. req' = req /\ TypeOK' /\ u \in Users
  BY TypeStep, RecordsGrow DEF User, TypeOK
<1>2. pc[c] = "create" /\ Active(c) /\ up' = up /\ snap' = snap
  BY DEF Create, Active
<1>3. \A e \in Calls : pc'[e] = IF e = c THEN "reload" ELSE pc[e]
  BY PcMoves DEF Create
<1>4. \A e \in Calls : User(e)' = User(e)
  BY <1>1 DEF User
<1>5. Active(c)'
  BY <1>3 DEF Active
<1>6. row'[u] = IF row[u] = NoRow THEN FreshRow("free", now) ELSE row[u]
  BY <1>1 DEF Create, TypeOK
<1>7. PICK f : f = FreshRow("free", now)
  OBVIOUS
<1>8. /\ f \in Rows /\ f # NoRow
      /\ f.files = 0 /\ f.hour.count = 0 /\ f.month.count = 0
  <2>1. f \in Rows
    BY <1>7, FreshRowType DEF Tiers, TypeOK
  <2> QED
    BY <1>7, <2>1, NoRowAssumption DEF FreshRow, FreshWindow
<1>9. row'[u] # NoRow
  BY <1>6, <1>7, <1>8
<1>10. Checked(c)'
  BY <1>3, <1>4, <1>9 DEF Checked
<1>11. CASE row[u] # NoRow
  <2>1. row'[u] = row[u]
    BY <1>6, <1>11
  <2> QED
    BY <1>1, <1>2, <1>3, <1>5, <1>10, <2>1, KeepsFiles
<1>12. CASE row[u] = NoRow
  <2>1. Uploads(u)' = {}
    <3>1. Uploads(u)' = Uploads(u)
      BY <1>2, <1>4 DEF Uploads, TypeOK
    <3> QED
      BY <1>12, <3>1 DEF Tidy, FilesExact
  <2>2. row'[u] = f /\ Cardinality(Uploads(u)') = 0
    BY <1>6, <1>7, <1>12, <2>1, FS_EmptySet
  <2>3. FilesExact(u)'
    BY <1>8, <2>1, <2>2 DEF FilesExact
  <2>4. WithinLimits(u)'
    BY <1>8, <2>2, LimitsAssumption DEF WithinLimits
  <2>5. \A e \in Calls : User(e) = u /\ e # c => ~ Active(e) /\ ~ Active(e)'
    BY <1>2, <1>3 DEF Tidy, Alone, Active
  <2>6. Alone(u)'
    BY <1>4, <2>5 DEF Alone
  <2>7. ASSUME NEW e \in Calls, User(e)' = u PROVE Checked(e)'
    BY <1>4, <1>10, <2>5, <2>7 DEF Checked, Active
  <2> QED
    BY <2>3, <2>4, <2>6, <2>7 DEF Tidy
<1> QED
  BY <1>11, <1>12

\* Reading the row and checking it disturbs nothing; what a check has found is what the
\* row says.  A file that is uploaded is not refused by the second check.
LEMMA LookTidy ==
    ASSUME UsageInv, UploadOrder, [Next]_vars, NEW c \in Calls,
           Begin(c) \/ Load(c) \/ Reload(c) \/ Check(c) \/ ReadUsage(c),
           NEW u, u = User(c), Tidy(u), orderly'[u]
    PROVE  Tidy(u)'
<1> USE DEF UsageInv
<1>1. /\ req' = req /\ TypeOK' /\ u \in Users /\ TypeOK
      /\ row' = row /\ up' = up
  BY TypeStep, RecordsGrow DEF User, TypeOK, Begin, Load, Reload, Check, ReadUsage
<1>2. User(c)' = u /\ Kind(c)' = Kind(c) /\ row'[u] = row[u]
  BY <1>1 DEF User, Kind
<1>3. CASE Begin(c)
  <2>1. \A e \in Calls : pc'[e] = IF e = c THEN "load" ELSE pc[e]
    BY <1>3, PcMoves DEF Begin
  <2>2. pc[c] = "new" /\ c \notin up /\ snap' = snap
    BY <1>3 DEF Begin, UploadOrder
  <2>3. \A e \in Calls : User(e) = u => ~ Active(e)
    BY <1>1, <1>3 DEF Begin, TypeOK
  <2>4. Checked(c)'
    BY <2>1 DEF Checked
  <2> QED
    BY <1>1, <1>2, <2>1, <2>2, <2>3, <2>4, KeepsFiles
<1>4. CASE Load(c) \/ Reload(c)
  <2>1. pc[c] \in {"load", "reload"} /\ Active(c) /\ snap' = snap
    BY <1>4 DEF Load, Reload, Active
  <2>2. \/ row[u] = NoRow /\ Goto(c, "create")
        \/ row[u] # NoRow /\ ByTier(c)
    <3>1. Reload(c) => row[u] # NoRow
      BY DEF Reload, Tidy, Checked
    <3> QED
      BY <1>4, <3>1 DEF Load, Reload
  <2>3. CASE Goto(c, "create")
    <3>1. \A e \in Calls : pc'[e] = IF e = c THEN "create" ELSE pc[e]
      BY <1>1, <2>3, PcMoves
    <3>2. Checked(c)' /\ Active(c)'
      BY <3>1 DEF Checked, Active
    <3> QED
      BY <1>1, <1>2, <2>1, <3>1, <3>2, KeepsFiles
  <2>4. CASE row[u] # NoRow /\ ByTier(c)
    <3>1. /\ \A e \in Calls : e # c => pc'[e] = pc[e]
          /\ \/ pc'[c] = "check" /\ row[u].tier = "free"
             \/ pc'[c] \in {"read", "act"} /\ row[u].tier # "free"
      BY <1>1, <2>4, TierDecides
    <3>2. Checked(c)' /\ Active(c)'
      BY <1>1, <1>2, <2>4, <3>1 DEF Checked, Active
    <3> QED
      BY <1>1, <1>2, <2>1, <3>1, <3>2, KeepsFiles
  <2> QED
    BY <2>2, <2>3, <2>4
<1>5. CASE Check(c)
  <2>1. pc[c] = "check" /\ Active(c) /\ snap' = snap
    BY <1>5 DEF Check, Active
  <2>2. row[u] # NoRow /\ row[u].tier = "free" /\ row[u] \in Rows
    BY <1>1, <2>1 DEF RowInHand, Tidy, Checked, TypeOK
  <2>3. CASE Allowed(row[u], Kind(c)) /\ Charging(c) /\ Goto(c, "read")
    <3>1. \A e \in Calls : pc'[e] = IF e = c THEN "read" ELSE pc[e]
      BY <1>1, <2>3, PcMoves
    <3>2. Checked(c)' /\ Active(c)'
      BY <1>2, <2>3, <3>1 DEF Checked, Active, Allowed
    <3> QED
      BY <1>1, <1>2, <2>1, <3>1, <3>2, KeepsFiles
  <2>4. CASE Allowed(row[u], Kind(c)) /\ ~ Charging(c) /\ Pass(c)
    <3>1. \A e \in Calls : pc'[e] = IF e = c THEN "act" ELSE pc[e]
      BY <1>1, <2>4, PcMoves
    <3>2. Kind(c) = "file"
      BY <1>1, <2>4 DEF Charging, Kind, Kinds, TypeOK
    <3>3. Checked(c)' /\ Active(c)'
      BY <1>2, <2>2, <2>4, <3>1, <3>2 DEF Checked, Active, Allowed
    <3> QED
      BY <1>1, <1>2, <2>1, <3>1, <3>3, KeepsFiles
  <2>5. CASE ~ Allowed(row[u], Kind(c)) /\ Raise(c, "refused")
    <3>1. c \notin up
      <4>1. SUFFICES ASSUME c \in up PROVE Allowed(row[u], "file")
        BY <2>5 DEF UploadOrder
      <4>2. c \in Uploads(u)
        BY <4>1 DEF Uploads
      <4>3. row[u].files + 1 = Cardinality(Uploads(u))
        BY <2>1, <2>2, <4>2 DEF Tidy, FilesExact
      <4> QED
        BY <2>2, <4>3 DEF Tidy, WithinLimits, Allowed
    <3>2. \A e \in Calls : pc'[e] = IF e = c THEN "refused" ELSE pc[e]
      BY <1>1, <2>5, <3>1, PcMoves DEF Raise
    <3>3. Checked(c)'
      BY <3>2 DEF Checked
    <3> QED
      BY <1>1, <1>2, <2>1, <3>1, <3>2, <3>3, KeepsFiles
  <2> QED
    BY <1>5, <2>3, <2>4, <2>5 DEF Check
<1>6. CASE ReadUsage(c)
  <2>1. \A e \in Calls : pc'[e] = IF e = c THEN "write" ELSE pc[e]
    BY <1>6, PcMoves DEF ReadUsage
  <2>2. pc[c] = "read" /\ Active(c)
    BY <1>6 DEF ReadUsage, Active
  <2>3. \A e \in Calls : snap'[e] = IF e = c THEN row[u] ELSE snap[e]
    BY <1>6 DEF ReadUsage, TypeOK
  <2>4. Checked(c)
    BY DEF Tidy
  <2>5. Checked(c)' /\ Active(c)'
    BY <1>2, <2>1, <2>2, <2>3, <2>4 DEF Checked, Active, Allowed
  <2> QED
    BY <1>1, <1>2, <2>1, <2>2, <2>3, <2>5, KeepsFiles
<1> QED
  BY <1>3, <1>4, <1>5, <1>6

\* What a step leaves alone of the users whose call it is not.
LEMMA Elsewhere ==
    ASSUME TypeOK, NEW c \in Calls, CallStep(c), NEW v \in Users, v # User(c)
    PROVE  /\ row'[v] = row[v] /\ orderly'[v] = orderly[v]
           /\ \A e \in Calls : User(e) = v => /\ pc'[e] = pc[e] /\ snap'[e] = snap[e]
                                              /\ e \in up' <=> e \in up
<1>1. row'[v] = row[v] /\ orderly'[v] = orderly[v]
  BY DEF CallStep, Begin, Load, Create, Reload, Check, ReadUsage, WriteUsage, DbError,
         Upload, DeleteFile, TypeOK
<1>2. \A e \in Calls : e # c => snap'[e] = snap[e] /\ (e \in up' <=> e \in up)
  BY DEF CallStep, Begin, Load, Create, Reload, Check, ReadUsage, WriteUsage, DbError,
         Upload, DeleteFile, TypeOK
<1>3. \A e \in Calls : e # c => pc'[e] = pc[e]
  <2>1. \/ \E to : Goto(c, to) \/ Raise(c, to)
        \/ Pass(c) \/ ByTier(c) \/ pc' = pc
    BY DEF CallStep, Begin, Load, Create, Reload, Check, ReadUsage, WriteUsage, DbError,
           Upload, DeleteFile
  <2> QED
    BY <2>1, PcMoves
<1> QED
  BY <1>1, <1>2, <1>3

LEMMA TidyStep ==
    ASSUME UsageInv, TidyInv, [Next]_vars
    PROVE  TidyInv'
<1> USE DEF UsageInv, TidyInv
<1>1. req' = req /\ TypeOK' /\ UploadOrder'
  BY TypeStep, RecordsGrow, UploadOrderStep
<1>2. SUFFICES ASSUME NEW v \in Users, orderly'[v] PROVE Tidy(v)'
  BY <1>1
<1>3. CASE UNCHANGED <<row, pc, snap, up, orderly>>
  BY <1>1, <1>2, <1>3, UserSame
<1>4. CASE Tick \/ UNCHANGED vars
  BY <1>3, <1>4 DEF Tick, vars
<1>5. ASSUME NEW c \in Calls, CallStep(c) PROVE Tidy(v)'
  <2>1. CASE v # User(c)
    BY <1>1, <1>2, <1>5, <2>1, Elsewhere, UserSame
  <2>2. CASE v = User(c)
    <3>1. orderly[v] /\ ~ DbError(c)
      BY <1>2, <2>2 DEF TypeOK, DbError, Next, CallStep, vars, Tick, Begin, Load, Create,
             Reload, Check, ReadUsage, WriteUsage, Upload, DeleteFile
    <3>2. Tidy(v)
      BY <3>1
    <3>3. CASE DeleteFile(c)
      BY <1>3, <3>3 DEF DeleteFile
    <3>4. CASE WriteUsage(c)
      BY <2>2, <3>2, <3>4, WriteTidy
    <3>5. CASE Upload(c)
      BY <2>2, <3>2, <3>5, UploadTidy
    <3>6. CASE Create(c)
      BY <1>2, <2>2, <3>2, <3>6, CreateTidy
    <3>7. CASE Begin(c) \/ Load(c) \/ Reload(c) \/ Check(c) \/ ReadUsage(c)
      BY <1>2, <2>2, <3>2, <3>7, LookTidy
    <3> QED
      BY <1>5, <3>1, <3>3, <3>4, <3>5, <3>6, <3>7 DEF CallStep
  <2> QED
    BY <2>1, <2>2
<1> QED
  BY <1>4, <1>5 DEF Next

LEMMA TidyInit == Init => TidyInv
<1> SUFFICES ASSUME Init PROVE TidyInv
  OBVIOUS
<1>1. UploadOrder
  BY DEF Init, UploadOrder
<1>2. ASSUME NEW u \in Users PROVE Tidy(u)
  <2>1. Uploads(u) = {} /\ Cardinality(Uploads(u)) = 0
    BY FS_EmptySet DEF Init, Uploads
  <2>2. \A c \in Calls : ~ Active(c)
    BY DEF Init, Active
  <2>3. row[u] # NoRow => row[u].files = 0 /\ row[u].tier = "paid"
    BY DEF Init, FreshRow
  <2> QED
    BY <2>1, <2>2, <2>3, IdleChecked DEF Tidy, Alone, FilesExact, WithinLimits
<1> QED
  BY <1>1, <1>2 DEF TidyInv

-----------------------------------------------------------------------------
(* Such a user's queries are all counted.                                  *)

\* A window counts every query recorded after it began.
WindowFull(w, u) == Cardinality(QueriesAfter(u, w.since)) <= w.count

\* Nothing was recorded after the time update_usage took, nor for a user without a row.
QueriesCounted(u) ==
    /\ row[u] = NoRow => \A c \in Calls :
          User(c) = u /\ Kind(c) = "query" => chargedAt[c] = Never
    /\ row[u] # NoRow => WindowFull(row[u].hour, u) /\ WindowFull(row[u].month, u)
    /\ \A c, e \in Calls : User(c) = u /\ User(e) = u /\ pc[c] = "write" =>
          chargedAt[e] <= at[c]
    /\ \A c \in Calls : User(c) = u /\ Kind(c) = "query" /\ pc[c] = "served" =>
          chargedAt[c] # Never

CountedInv == /\ \A c \in Calls : chargedAt[c] <= now
              /\ \A u \in Users : orderly[u] => QueriesCounted(u)

LEMMA RecordTimes ==
    ASSUME TypeOK, NEW e \in Calls
    PROVE  at[e] \in Int /\ chargedAt[e] \in Int
<1>1. at[e] \in Times /\ (chargedAt[e] \in Times \/ chargedAt[e] = -1)
  BY DEF TypeOK, Never
<1>2. at[e] \in Nat /\ (chargedAt[e] \in Nat \/ chargedAt[e] = -1)
  BY <1>1, TimeIsInt
<1> QED
  BY <1>2

\* A user whose row, records and recording calls stay as they are is counted as before.
LEMMA CountedSame ==
    ASSUME NEW v, req' = req, row'[v] = row[v], QueriesCounted(v),
           \A e \in Calls : User(e) = v =>
               /\ chargedAt'[e] = chargedAt[e]
               /\ pc'[e] = "write" => pc[e] = "write" /\ at'[e] = at[e]
               /\ Kind(e) = "query" /\ pc'[e] = "served" => pc[e] = "served"
    PROVE  QueriesCounted(v)'
<1>1. \A e \in Calls : User(e)' = User(e) /\ Kind(e)' = Kind(e)
  BY DEF User, Kind
<1>2. \A t : QueriesSince(v, t)' = QueriesSince(v, t)
  BY <1>1 DEF QueriesSince
<1>3. \A t : QueriesAfter(v, t)' = QueriesAfter(v, t)
  BY <1>2 DEF QueriesAfter
<1>4. PICK r : r = row[v]
  OBVIOUS
<1>5. r # NoRow => WindowFull(r.hour, v)' /\ WindowFull(r.month, v)'
  BY <1>3, <1>4 DEF QueriesCounted, WindowFull
<1>6. /\ \A c, e \in Calls : User(c)' = v /\ User(e)' = v /\ pc'[c] = "write" =>
            chargedAt'[e] <= at'[c]
      /\ \A c \in Calls : User(c)' = v /\ Kind(c)' = "query" /\ pc'[c] = "served" =>
            chargedAt'[c] # Never
  BY <1>1 DEF QueriesCounted
<1>7. row'[v] = NoRow => \A c \in Calls :
          User(c)' = v /\ Kind(c)' = "query" => chargedAt'[c] = Never
  BY <1>1 DEF QueriesCounted
<1> QED
  BY <1>4, <1>5, <1>6, <1>7 DEF QueriesCounted, WindowFull

\* Recording a query adds it to the records, and to both windows.
LEMMA QueriesGrow ==
    ASSUME TypeOK, TypeOK', req' = req, NEW c \in Calls, NEW v,
           \A e \in Calls : e # c => chargedAt'[e] = chargedAt[e]
    PROVE  \A t : /\ QueriesAfter(v, t)' \subseteq QueriesAfter(v, t) \cup {c}
                  /\ Kind(c) # "query" => QueriesAfter(v, t)' \subseteq QueriesAfter(v, t)
BY DEF QueriesAfter, QueriesSince, User, Kind

LEMMA AfterCount ==
    ASSUME NEW v, NEW t
    PROVE  IsFiniteSet(QueriesAfter(v, t)) /\ Cardinality(QueriesAfter(v, t)) \in Nat
BY CountsAreNumbers DEF QueriesAfter

\* One more element counts one more at most.
LEMMA OneMore ==
    ASSUME NEW S, IsFiniteSet(S), NEW T, NEW x, T \subseteq S \cup {x}
    PROVE  /\ Cardinality(S) \in Nat /\ Cardinality(T) \in Nat
           /\ Cardinality(T) <= Cardinality(S) + 1
           /\ S = {} => Cardinality(T) <= 1
           /\ T \subseteq S => Cardinality(T) <= Cardinality(S)
<1>1. /\ IsFiniteSet(S \cup {x})
      /\ Cardinality(S \cup {x}) = IF x \in S THEN Cardinality(S) ELSE Cardinality(S) + 1
  BY FS_AddElement
<1>2. Cardinality(S) \in Nat /\ Cardinality(S \cup {x}) \in Nat
  BY <1>1, FS_CardinalityType
<1>3. Cardinality(T) \in Nat /\ Cardinality(T) <= Cardinality(S \cup {x})
  BY <1>1, FS_Subset, FS_CardinalityType
<1>4. T \subseteq S => Cardinality(T) <= Cardinality(S)
  BY FS_Subset
<1>5. S = {} => Cardinality(S) = 0
  BY FS_EmptySet
<1> QED
  BY <1>1, <1>2, <1>3, <1>4, <1>5

\* A window that a query is counted in counts all it should.
LEMMA BumpedWindowFull ==
    ASSUME TypeOK, TypeOK', req' = req, NEW c \in Calls, NEW v,
           \A e \in Calls : e # c => chargedAt'[e] = chargedAt[e],
           NEW w \in Windows, NEW len, NEW t, WindowFull(w, v), QueriesAfter(v, t) = {}
    PROVE  \A b : b = BumpWindow(w, len, t) => WindowFull(b, v)'
<1>1. SUFFICES ASSUME NEW b, b = BumpWindow(w, len, t) PROVE WindowFull(b, v)'
  OBVIOUS
<1>2. \/ b.count = 1 /\ b.since = t
      \/ b.count = w.count + 1 /\ b.since = w.since
  BY <1>1 DEF BumpWindow, Windows
<1>3. ASSUME NEW s
      PROVE  /\ Cardinality(QueriesAfter(v, s)) \in Nat
             /\ Cardinality(QueriesAfter(v, s)') <= Cardinality(QueriesAfter(v, s)) + 1
             /\ QueriesAfter(v, s) = {} => Cardinality(QueriesAfter(v, s)') <= 1
             /\ Cardinality(QueriesAfter(v, s)') \in Nat
  <2>1. QueriesAfter(v, s)' \subseteq QueriesAfter(v, s) \cup {c}
    BY QueriesGrow
  <2>2. IsFiniteSet(QueriesAfter(v, s))
    BY AfterCount
  <2> QED
    BY <2>1, <2>2, OneMore
<1>4. w.count \in Nat /\ Cardinality(QueriesAfter(v, w.since)) <= w.count
  BY DEF Windows, WindowFull
<1>5. Cardinality(QueriesAfter(v, b.since)') <= b.count
  <2>1. CASE b.count = 1 /\ b.since = t
    BY <1>3, <2>1
  <2>2. CASE b.count = w.count + 1 /\ b.since = w.since
    BY <1>3, <1>4, <2>2
  <2> QED
    BY <1>2, <2>1, <2>2
<1> QED
  BY <1>5 DEF WindowFull

\* A new row finds nothing to count.
LEMMA CreateCounted ==
    ASSUME UsageInv, UsageInv', [Next]_vars, NEW c \in Calls, Create(c),
           NEW u, u = User(c), QueriesCounted(u)
    PROVE  QueriesCounted(u)'
<1> USE DEF UsageInv
<1>1. /\ req' = req /\ u \in Users /\ chargedAt' = chargedAt /\ at' = at
  BY RecordsGrow DEF User, TypeOK, Create
<1>2. \A e \in Calls : pc'[e] = IF e = c THEN "reload" ELSE pc[e]
  BY PcMoves DEF Create
<1>3. \/ row[u] = NoRow /\ row'[u] = FreshRow("free", now)
      \/ row'[u] = row[u]
  BY <1>1 DEF Create, TypeOK
<1>4. CASE row'[u] = row[u]
  BY <1>1, <1>2, <1>4, CountedSame
<1>5. CASE row[u] = NoRow /\ row'[u] = FreshRow("free", now)
  <2>1. \A e \in Calls : User(e)' = User(e) /\ Kind(e)' = Kind(e)
    BY <1>1 DEF User, Kind
  <2>2. \A e \in Calls : User(e) = u /\ Kind(e) = "query" => chargedAt'[e] = Never
    BY <1>1, <1>5 DEF QueriesCounted
  <2>3. \A t : QueriesAfter(u, t)' = {}
    BY <2>1, <2>2 DEF QueriesAfter, QueriesSince
  <2>4. PICK f : f = FreshRow("free", now)
    OBVIOUS
  <2>5. f.hour.count = 0 /\ f.month.count = 0
    BY <2>4 DEF FreshRow, FreshWindow
  <2>6. Cardinality({}) = 0
    BY FS_EmptySet
  <2>7. WindowFull(f.hour, u)' /\ WindowFull(f.month, u)'
    <3>1. \A w : w.count = 0 => WindowFull(w, u)'
      BY <2>3, <2>6 DEF WindowFull
    <3> QED
      BY <2>3, <2>5, <2>6 DEF WindowFull
  <2>8. row'[u] = f /\ f # NoRow
    <3>1. f \in Rows
      BY <2>4, FreshRowType DEF Tiers, TypeOK
    <3> QED
      BY <1>5, <2>4, <3>1, NoRowAssumption
  <2>9. /\ \A d, e \in Calls : User(d)' = u /\ User(e)' = u /\ pc'[d] = "write" =>
              chargedAt'[e] <= at'[d]
        /\ \A e \in Calls : User(e)' = u /\ Kind(e)' = "query" /\ pc'[e] = "served" =>
              chargedAt'[e] # Never
    BY <1>1, <1>2, <2>1 DEF QueriesCounted
  <2> QED
    BY <2>7, <2>8, <2>9 DEF QueriesCounted, WindowFull
<1> QED
  BY <1>3, <1>4, <1>5

\* The time that update_usage takes is after all that was recorded.
LEMMA ReadCounted ==
    ASSUME UsageInv, UsageInv', [Next]_vars, \A e \in Calls : chargedAt[e] <= now,
           NEW c \in Calls, ReadUsage(c), NEW u, u = User(c), Tidy(u), QueriesCounted(u)
    PROVE  QueriesCounted(u)'
<1> USE DEF UsageInv
<1>1. /\ req' = req /\ u \in Users /\ chargedAt' = chargedAt /\ row' = row
      /\ pc[c] = "read"
  BY RecordsGrow DEF User, TypeOK, ReadUsage
<1>2. \A e \in Calls : pc'[e] = IF e = c THEN "write" ELSE pc[e]
  BY PcMoves DEF ReadUsage
<1>3. \A e \in Calls : User(e)' = User(e) /\ Kind(e)' = Kind(e)
  BY <1>1 DEF User, Kind
<1>4. \A t : QueriesAfter(u, t)' = QueriesAfter(u, t)
  BY <1>1, <1>3 DEF QueriesAfter, QueriesSince
<1>5. at'[c] = now
  BY DEF ReadUsage, TypeOK
<1>6. \A e \in Calls : User(e) = u /\ e # c => pc'[e] # "write"
  BY <1>1, <1>2 DEF Tidy, Alone, Active
<1>7. PICK r : r = row[u]
  OBVIOUS
<1>8. r # NoRow => WindowFull(r.hour, u)' /\ WindowFull(r.month, u)'
  BY <1>4, <1>7 DEF QueriesCounted, WindowFull
<1>9. /\ \A d, e \in Calls : User(d)' = u /\ User(e)' = u /\ pc'[d] = "write" =>
            chargedAt'[e] <= at'[d]
      /\ \A e \in Calls : User(e)' = u /\ Kind(e)' = "query" /\ pc'[e] = "served" =>
            chargedAt'[e] # Never
  BY <1>1, <1>2, <1>3, <1>5, <1>6 DEF QueriesCounted
<1>10. row'[u] = NoRow => \A e \in Calls :
          User(e)' = u /\ Kind(e)' = "query" => chargedAt'[e] = Never
  BY <1>1, <1>3 DEF QueriesCounted
<1> QED
  BY <1>1, <1>7, <1>8, <1>9, <1>10 DEF QueriesCounted, WindowFull

\* A query that is recorded is counted in both windows.
LEMMA WriteCounted ==
    ASSUME UsageInv, UsageInv', [Next]_vars, NEW c \in Calls, WriteUsage(c),
           NEW u, u = User(c), Tidy(u), QueriesCounted(u)
    PROVE  QueriesCounted(u)'
<1> USE DEF UsageInv
<1>1. req' = req /\ TypeOK /\ TypeOK' /\ u \in Users /\ pc[c] = "write" /\ Charging(c)
  BY RecordsGrow DEF User, TypeOK, WriteUsage, CallOrder
<1>2. \A e \in Calls : pc'[e] = IF e = c THEN "served" ELSE pc[e]
  BY <1>1, PcMoves DEF WriteUsage
<1>3. \A e \in Calls : User(e)' = User(e) /\ Kind(e)' = Kind(e)
  BY <1>1 DEF User, Kind
<1>4. \A e \in Calls : chargedAt'[e] = IF e = c THEN now ELSE chargedAt[e]
  BY <1>1 DEF WriteUsage, TypeOK
<1>5. PICK r : r = row[u]
  OBVIOUS
<1>6. r \in Rows /\ r # NoRow /\ snap[c] = r /\ r.hour \in Windows /\ r.month \in Windows
  BY <1>1, <1>5 DEF RowInHand, Tidy, Checked, TypeOK, Rows
<1>7. /\ WindowFull(r.hour, u) /\ WindowFull(r.month, u)
      /\ \A t : t = at[c] => QueriesAfter(u, t) = {}
  <2>1. \A e \in Calls : User(e) = u => chargedAt[e] <= at[c]
    BY <1>1 DEF QueriesCounted
  <2>2. at[c] \in Int /\ \A e \in Calls : chargedAt[e] \in Int
    BY <1>1, RecordTimes
  <2>3. \A t : t = at[c] => QueriesAfter(u, t) = {}
    BY <2>1, <2>2 DEF QueriesAfter, QueriesSince
  <2> QED
    BY <1>5, <1>6, <2>3 DEF QueriesCounted
<1>8. PICK b : b = Bump(r, Kind(c), at[c])
  OBVIOUS
<1>9. row'[u] = b /\ b # NoRow
  <2>1. b \in Rows
    BY <1>1, <1>6, <1>8, BumpType DEF TypeOK
  <2> QED
    BY <1>1, <1>6, <1>8, <2>1, NoRowAssumption DEF WriteUsage, TypeOK
<1>10. WindowFull(b.hour, u)' /\ WindowFull(b.month, u)'
  <2>1. CASE Kind(c) = "query"
    <3>1. /\ b.hour = BumpWindow(r.hour, HourLen, at[c])
          /\ b.month = BumpWindow(r.month, MonthLen, at[c])
      <4>1. b = [r EXCEPT !.hour = BumpWindow(r.hour, HourLen, at[c]),
                          !.month = BumpWindow(r.month, MonthLen, at[c])]
        BY <1>8, <2>1 DEF Bump
      <4> QED
        BY <1>6, <4>1 DEF Rows
    <3>2. PICK t : t = at[c]
      OBVIOUS
    <3>3. \A len : \A w \in Windows : WindowFull(w, u) =>
            \A x : x = BumpWindow(w, len, t) => WindowFull(x, u)'
      BY <1>1, <1>4, <1>7, <3>2, BumpedWindowFull
    <3>4. \A x, y : /\ x = b.hour => WindowFull(x, u)'
                    /\ y = b.month => WindowFull(y, u)'
      BY <1>6, <1>7, <3>1, <3>2, <3>3
    <3> QED
      BY <3>4 DEF WindowFull
  <2>2. CASE Kind(c) # "query"
    <3>1. b.hour = r.hour /\ b.month = r.month
      BY <1>6, <1>8, <2>2 DEF Bump, Rows
    <3>2. \A t : QueriesAfter(u, t)' = QueriesAfter(u, t)
      BY <1>3, <1>4, <2>2 DEF QueriesAfter, QueriesSince
    <3> QED
      BY <1>7, <3>1, <3>2 DEF WindowFull
  <2> QED
    BY <2>1, <2>2
<1>11. now # Never
  BY <1>1, TimeIsInt DEF TypeOK, Never
<1>12. ASSUME NEW e \in Calls, User(e)' = u
       PROVE  /\ pc'[e] # "write"
              /\ Kind(e)' = "query" /\ pc'[e] = "served" => chargedAt'[e] # Never
  <2>1. e # c => pc[e] # "write"
    BY <1>1, <1>3, <1>12 DEF Tidy, Alone, Active
  <2> QED
    BY <1>2, <1>3, <1>4, <1>11, <1>12, <2>1 DEF QueriesCounted
<1> QED
  BY <1>9, <1>10, <1>12 DEF QueriesCounted, WindowFull

\* The other steps of a call neither record nor serve a query.
LEMMA LookCounted ==
    ASSUME UsageInv, UploadOrder, NEW c \in Calls, Tidy(User(c)),
           \/ Begin(c) \/ Load(c) \/ Reload(c) \/ Check(c) \/ Upload(c) \/ DeleteFile(c)
    PROVE  /\ chargedAt' = chargedAt /\ at' = at /\ row' = row
           /\ \A e \in Calls : e # c => pc'[e] = pc[e]
           /\ pc'[c] # "write"
           /\ Kind(c) = "query" /\ pc'[c] = "served" => pc[c] = "served"
<1> USE DEF UsageInv
<1>1. chargedAt' = chargedAt /\ at' = at /\ row' = row /\ TypeOK
  BY DEF Begin, Load, Reload, Check, Upload, DeleteFile
<1>2. CASE Begin(c) \/ Upload(c)
  BY <1>1, <1>2, PcMoves DEF Begin, Upload
<1>3. CASE DeleteFile(c)
  BY <1>1, <1>3 DEF DeleteFile
<1>4. CASE Load(c) \/ Reload(c)
  <2>1. Reload(c) => row[User(c)] # NoRow
    BY DEF Reload, Tidy, Checked
  <2>2. Goto(c, "create") \/ ByTier(c)
    BY <1>4, <2>1 DEF Load, Reload
  <2>3. CASE Goto(c, "create")
    BY <1>1, <2>3, PcMoves
  <2>4. CASE ByTier(c)
    BY <1>1, <2>4, TierDecides
  <2> QED
    BY <2>2, <2>3, <2>4
<1>5. CASE Check(c)
  <2>1. \/ Goto(c, "read")
        \/ ~ Charging(c) /\ Pass(c)
        \/ Raise(c, "refused")
    BY <1>5 DEF Check
  <2>2. CASE Goto(c, "read")
    BY <1>1, <2>2, PcMoves
  <2>3. CASE ~ Charging(c) /\ Pass(c)
    BY <1>1, <2>3, PcMoves
  <2>4. CASE Raise(c, "refused")
    <3>1. CASE Kind(c) = "query"
      <4>1. Goto(c, "refused")
        BY <2>4, <3>1 DEF Raise
      <4> QED
        BY <1>1, <4>1, PcMoves
    <3>2. CASE Kind(c) # "query"
      BY <1>1, <2>4, <3>2, PcMoves
    <3> QED
      BY <3>1, <3>2
  <2> QED
    BY <2>1, <2>2, <2>3, <2>4
<1> QED
  BY <1>2, <1>3, <1>4, <1>5

LEMMA CountedStep ==
    ASSUME UsageInv, UsageInv', TidyInv, CountedInv, [Next]_vars
    PROVE  CountedInv'
<1> USE DEF UsageInv, TidyInv, CountedInv
<1>1. req' = req /\ now <= now' /\ TypeOK /\ TypeOK'
  BY RecordsGrow
<1>2. now \in Nat /\ now' \in Nat /\ \A e \in Calls : chargedAt[e] \in Int
  <2>1. \A x \in Times : x \in Nat
    BY TimeIsInt
  <2>2. now \in Times /\ now' \in Times
    BY <1>1 DEF TypeOK
  <2>3. \A e \in Calls : chargedAt[e] \in Int
    BY <1>1, RecordTimes
  <2> QED
    BY <2>1, <2>2, <2>3
<1>3. ASSUME NEW e \in Calls PROVE chargedAt'[e] <= now'
  <2>1. \/ chargedAt'[e] = chargedAt[e]
        \/ chargedAt'[e] = now
    BY <1>1 DEF Next, CallStep, vars, Tick, Begin, Load, Create, Reload, Check, ReadUsage,
                WriteUsage, DbError, Upload, DeleteFile, TypeOK
  <2> QED
    BY <1>1, <1>2, <2>1
<1>4. ASSUME NEW v \in Users, orderly'[v] PROVE QueriesCounted(v)'
  <2>1. CASE Tick \/ UNCHANGED vars
    <3>1. UNCHANGED <<row, pc, at, chargedAt, orderly>>
      BY <2>1 DEF Tick, vars
    <3> QED
      BY <1>1, <1>4, <3>1, CountedSame
  <2>2. ASSUME NEW c \in Calls, CallStep(c) PROVE QueriesCounted(v)'
    <3>1. \A e \in Calls : e # c => chargedAt'[e] = chargedAt[e] /\ at'[e] = at[e]
      BY <1>1, <2>2 DEF CallStep, Begin, Load, Create, Reload, Check, ReadUsage, WriteUsage,
                        DbError, Upload, DeleteFile, TypeOK
    <3>2. CASE v # User(c)
      BY <1>1, <1>4, <2>2, <3>1, <3>2, Elsewhere, CountedSame
    <3>3. CASE v = User(c)
      <4>1. orderly[v] /\ ~ DbError(c)
        BY <1>1, <1>4, <2>2, <3>3 DEF TypeOK, DbError, CallStep, Begin, Load, Create,
           Reload, Check, ReadUsage, WriteUsage, Upload, DeleteFile
      <4>2. Tidy(v) /\ QueriesCounted(v)
        BY <4>1
      <4>3. CASE Create(c)
        BY <3>3, <4>2, <4>3, CreateCounted
      <4>4. CASE ReadUsage(c)
        BY <3>3, <4>2, <4>4, ReadCounted
      <4>5. CASE WriteUsage(c)
        BY <3>3, <4>2, <4>5, WriteCounted
      <4>6. CASE \/ Begin(c) \/ Load(c) \/ Reload(c) \/ Check(c) \/ Upload(c)
                 \/ DeleteFile(c)
        <5>1. /\ chargedAt' = chargedAt /\ at' = at /\ row' = row
              /\ \A e \in Calls : e # c => pc'[e] = pc[e]
              /\ pc'[c] # "write"
              /\ Kind(c) = "query" /\ pc'[c] = "served" => pc[c] = "served"
          BY <3>3, <4>2, <4>6, LookCounted
        <5> QED
          BY <1>1, <4>2, <5>1, CountedSame
      <4> QED
        BY <2>2, <4>1, <4>3, <4>4, <4>5, <4>6 DEF CallStep
    <3> QED
      BY <3>2, <3>3
  <2> QED
    BY <2>1, <2>2 DEF Next
<1> QED
  BY <1>3, <1>4

LEMMA CountedInit == Init => CountedInv
<1> SUFFICES ASSUME Init PROVE CountedInv
  OBVIOUS
<1>1. \A c \in Calls : chargedAt[c] = Never /\ pc[c] = "new" /\ now = 0
  BY DEF Init
<1>2. \A u, t : t \in Nat => QueriesAfter(u, t) = {}
  BY <1>1 DEF QueriesAfter, QueriesSince
<1>3. ASSUME NEW u \in Users, row[u] # NoRow
      PROVE  WindowFull(row[u].hour, u) /\ WindowFull(row[u].month, u)
  <2>1. /\ row[u].hour = [count |-> 0, since |-> 0]
        /\ row[u].month = [count |-> 0, since |-> 0]
    BY <1>3 DEF Init, FreshRow, FreshWindow
  <2>2. Cardinality(QueriesAfter(u, 0)) = 0
    BY <1>2, FS_EmptySet
  <2> QED
    BY <2>1, <2>2 DEF WindowFull
<1> QED
  BY <1>1, <1>3 DEF CountedInv, QueriesCounted, Never

\* A user whose calls come one at a time and do not fail gets nothing for free, and on the
\* free tier no more than the limits (check_and_increment_limits, verify_only and then
\* charged; update_usage).
THEOREM OrderlyCallsAlwaysHeld == Spec => []OrderlyCallsAreHeld
<1>1. UsageInv /\ TidyInv /\ [Next]_vars => TidyInv'
  BY TidyStep
<1>2. UsageInv /\ UsageInv' /\ TidyInv /\ CountedInv /\ [Next]_vars => CountedInv'
  BY CountedStep
<1>3. UsageInv /\ TidyInv /\ CountedInv => OrderlyCallsAreHeld
  <2> SUFFICES ASSUME UsageInv, TidyInv, CountedInv, NEW u \in Users,
                      orderly[u], row[u] # NoRow
               PROVE  /\ \A c \in Calls :
                            User(c) = u /\ Kind(c) = "query" /\ pc[c] = "served" =>
                                chargedAt[c] # Never
                      /\ Cardinality(QueriesAfter(u, row[u].hour.since)) <= row[u].hour.count
                      /\ Cardinality(QueriesAfter(u, row[u].month.since)) <= row[u].month.count
                      /\ (\A c \in Calls : User(c) = u => ~Active(c)) =>
                             Cardinality(StoredFiles(u)) <= row[u].files
                      /\ row[u].tier = "free" =>
                             /\ Cardinality(StoredFiles(u)) <= Limits.files
                             /\ row[u].hour.count <= Limits.hour
                             /\ row[u].month.count <= Limits.month
    BY DEF OrderlyCallsAreHeld
  <2>1. FilesExact(u) /\ WithinLimits(u) /\ QueriesCounted(u) /\ TypeOK
    BY DEF TidyInv, Tidy, CountedInv, UsageInv
  <2>2. StoredFiles(u) \in SUBSET Uploads(u) /\ Uploads(u) \in SUBSET Calls
    BY <2>1 DEF StoredFiles, Uploads, TypeOK
  <2>3. /\ Cardinality(StoredFiles(u)) <= Cardinality(Uploads(u))
        /\ Cardinality(StoredFiles(u)) \in Nat /\ Cardinality(Uploads(u)) \in Nat
    BY <2>2, CallsAssumption, FS_Subset, FS_CardinalityType
  <2>4. ASSUME \A c \in Calls : User(c) = u => ~Active(c)
        PROVE  row[u].files = Cardinality(Uploads(u))
    <3>1. \A c \in Uploads(u) : c \in Calls /\ User(c) = u
      BY <2>1 DEF Uploads, TypeOK
    <3> QED
      BY <2>1, <2>4, <3>1 DEF FilesExact
  <2>5. row[u].tier = "free" => Cardinality(StoredFiles(u)) <= Limits.files
    BY <2>1, <2>3, LimitsAssumption DEF WithinLimits
  <2> QED
    BY <2>1, <2>3, <2>4, <2>5 DEF WithinLimits, QueriesCounted, WindowFull
<1> QED
  BY <1>1, <1>2, <1>3, TidyInit, CountedInit, InvHolds, PTL DEF Spec
=============================================================================
