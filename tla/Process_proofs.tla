---------------------------- MODULE Process_proofs ----------------------------
(***************************************************************************)
(* Theorems about Process, for all values of the constants.                *)
(***************************************************************************)
EXTENDS Process, TLAPS

\* What the end of a process means for the variables that End changes.
LEMMA EndTypes ==
  ASSUME TypeOK, NEW p \in Processes, NEW how \in Ended, End(p, how)
  PROVE  /\ mode' \in [Processes -> Modes]
         /\ conn' \in [Processes -> {"free", "rows"}]
         /\ have' \in [Processes -> BOOLEAN]
         /\ pos' \in [Processes -> [Handlers -> Positions]]
         /\ tokensIn' \in [Processes -> [Handlers -> Methods]]
         /\ counter' \in [Processes -> Counters]
         /\ linked' \in [Processes -> BOOLEAN]
         /\ key' \in [Processes -> Keys \cup {OtherKey}]
<1>1. NewCounter \in Counters
  BY DEF NewCounter, Counters
<1>2. QED
  BY <1>1 DEF TypeOK, End, Ended, Modes, Positions, Methods

\* The statements keep the database one.
LEMMA DatabaseTypes ==
  ASSUME TypeOK
  PROVE  /\ CreateTable(db) \in Databases(Rows \cup OldRows)
         /\ \A i \in Indexes : CreateIndex(db, i) \in Databases(Rows \cup OldRows)
         /\ AddCacheHit(db) \in Databases(Rows \cup OldRows)
         /\ \A row \in Rows : Insert(db, row) \in Databases(Rows \cup OldRows)
<1> DEFINE R == Rows \cup OldRows
<1>1. db \in Databases(R)
  BY DEF TypeOK
<1>2. \A row \in Rows : row \in R
  OBVIOUS
<1> HIDE DEF R
<1>3. /\ CreateTable(db) \in Databases(R)
      /\ \A i \in Indexes : CreateIndex(db, i) \in Databases(R)
      /\ AddCacheHit(db) \in Databases(R)
      /\ \A row \in R : Insert(db, row) \in Databases(R)
  BY <1>1 DEF Databases, Tables, CreateTable, CreateIndex, AddCacheHit, Insert
<1>4. QED
  BY <1>2, <1>3 DEF R

\* The writes leave one of the files.
LEMMA FileTypes ==
  ASSUME NEW f \in Files, NEW k \in Keys \cup {OtherKey}
  PROVE  /\ Truncate(f) \in Files /\ Remove(f) \in Files /\ Holding(k) \in Files
         /\ WriteOver(f, k) \subseteq Files
         /\ WriteShort(f) \subseteq Files
<1> USE DEF Files
<1>1. Truncate(f) \in Files /\ Remove(f) \in Files /\ Holding(k) \in Files
  BY DEF Truncate, Remove
<1>2. Torn \in Files /\ Holding(OtherKey) \in Files
  OBVIOUS
<1>3. WriteOver(f, k) \subseteq Files
  BY <1>1, <1>2 DEF WriteOver
<1>4. WriteShort(f) \subseteq Files
  BY <1>2 DEF WriteShort
<1>5. QED
  BY <1>1, <1>3, <1>4

LEMMA InitTypeOK == Init => TypeOK
<1> SUFFICES ASSUME Init PROVE TypeOK
  OBVIOUS
<1>1. NewCounter \in Counters
  BY DEF NewCounter, Counters
<1>2. db \in Databases(Rows \cup OldRows)
  BY ProcessAssumption DEF Init, Databases
<1>3. \A p \in Processes : starts[p] <= MaxStarts[p]
  BY ProcessAssumption DEF Init
<1>4. QED
  BY <1>1, <1>2, <1>3 DEF Init, TypeOK, Modes, Ended, Positions, Methods, Files

LEMMA StartupTypeOK ==
  ASSUME TypeOK, NEW p \in Processes, Startup(p)
  PROVE  TypeOK'
<1> USE DEF TypeOK, Go, serveVars, licenseVars
<1>1. {"pragma", "schema", "session", "ts", "columns", "alter", "listen", "serving"}
        \subseteq Modes
  BY DEF Modes, Serving, Opening
<1>2. CASE OpenPragma(p)
  BY <1>1, <1>2 DEF OpenPragma
<1>3. CASE OpenSchema(p)
  BY <1>1, <1>3, DatabaseTypes DEF OpenSchema
<1>4. CASE OpenIndex(p)
  <2>1. db' \in Databases(Rows \cup OldRows)
    <3>1. "session" \in Indexes /\ "ts" \in Indexes
      BY DEF Indexes
    <3>2. QED
      BY <1>4, <3>1, DatabaseTypes DEF OpenIndex
  <2>2. mode' \in [Processes -> Modes]
    BY <1>1, <1>4 DEF OpenIndex
  <2>3. QED
    BY <1>4, <2>1, <2>2 DEF OpenIndex
<1>5. CASE QueryColumns(p)
  BY <1>1, <1>5 DEF QueryColumns, HasCacheHit
<1>6. CASE CloseRows(p)
  BY <1>1, <1>6 DEF CloseRows
<1>7. CASE AddColumn(p)
  BY <1>1, <1>7, DatabaseTypes DEF AddColumn
<1>8. CASE OpenFails(p)
  BY <1>8, EndTypes DEF OpenFails, Ended
<1>9. CASE Listen(p)
  BY <1>1, <1>9 DEF Listen
<1>10. CASE ListenFails(p)
  BY <1>10, EndTypes DEF ListenFails, Ended
<1>11. QED
  BY <1>2, <1>3, <1>4, <1>5, <1>6, <1>7, <1>8, <1>9, <1>10 DEF Startup

LEMMA HandlerTypeOK ==
  ASSUME TypeOK, NEW p \in Processes, NEW h \in Handlers,
         Answered(p, h) \/ Load(p, h) \/ Handle(p, h)
  PROVE  TypeOK'
<1> USE DEF TypeOK, GoHandler, serveVars, licenseVars
<1>1. \A to \in Positions : [pos EXCEPT ![p][h] = to] \in [Processes -> [Handlers -> Positions]]
  OBVIOUS
<1>2. \A m \in Methods :
        [tokensIn EXCEPT ![p][h] = m] \in [Processes -> [Handlers -> Methods]]
  OBVIOUS
<1>3. {"idle", "answered", "loading", "counted"} \subseteq Positions
  BY DEF Positions
<1>4. CountString(counter[p]) \in Methods /\ "exact" \in Methods
  BY DEF CountString, Methods
<1>5. CASE Answered(p, h)
  BY <1>1, <1>3, <1>5 DEF Answered
<1>6. CASE BeginLoad(p, h)
  <2>1. StartLoad(counter[p]) \in Counters
    BY DEF StartLoad, Counters
  <2>2. QED
    BY <1>1, <1>3, <1>6, <2>1 DEF BeginLoad
<1>7. CASE Load(p, h)
  <2>1. \A failed \in {FALSE, LoadMayFail} : EndLoad(counter[p], failed) \in Counters
    BY ProcessAssumption DEF EndLoad, Counters
  <2>2. counter' \in [Processes -> Counters]
    BY <1>7, <2>1 DEF Load
  <2>3. QED
    BY <1>1, <1>3, <1>7, <2>2 DEF Load
<1>8. CASE CountIn(p, h)
  BY <1>1, <1>2, <1>3, <1>4, <1>8 DEF CountIn
<1>9. CASE CountAfterAndInsert(p, h)
  <2>1. [process |-> p, run |-> starts[p], tokensIn |-> tokensIn[p][h],
         tokensInAfter |-> CountString(counter[p])] \in Rows
    BY <1>4 DEF Rows
  <2>2. db' \in Databases(Rows \cup OldRows)
    BY <1>9, <2>1, DatabaseTypes DEF CountAfterAndInsert
  <2>3. QED
    BY <1>1, <1>2, <1>3, <1>4, <1>9, <2>2 DEF CountAfterAndInsert
<1>10. QED
  BY <1>5, <1>6, <1>7, <1>8, <1>9 DEF Handle

LEMMA LicenseTypeOK ==
  ASSUME TypeOK, NEW p \in Processes, LicenseCommand(p)
  PROVE  TypeOK'
<1> USE DEF TypeOK, Go, serveVars, licenseVars
<1>1. {"write", "down"} \subseteq Modes
  BY DEF Modes, Ended, Writing
<1>2. CASE ActivateOpens(p)
  BY <1>1, <1>2, FileTypes DEF ActivateOpens, Overlapped
<1>3. CASE ActivateWrites(p)
  <2>1. license' \in Files /\ left' \in Files
    BY <1>3, FileTypes DEF ActivateWrites
  <2>2. disturbed' \in BOOLEAN
    BY <1>3 DEF ActivateWrites, Overlapped
  <2>3. QED
    BY <1>3, <2>1, <2>2, EndTypes DEF ActivateWrites, Ended
<1>4. CASE RemoveFile(p)
  <2>1. Absent \in Files
    BY DEF Files
  <2>2. QED
    BY <1>1, <1>4, <2>1, FileTypes DEF RemoveFile, Overlapped
<1>5. QED
  BY <1>2, <1>3, <1>4 DEF LicenseCommand

LEMMA StartTypeOK ==
  ASSUME TypeOK, NEW p \in Processes, Start(p)
  PROVE  TypeOK'
<1>1. {"pragma", "truncate", "remove"} \subseteq Modes
  BY DEF Modes, Serving, Opening, Writing
<1>2. starts' \in [Processes -> Nat] /\ \A q \in Processes : starts'[q] <= MaxStarts[q]
  <2>1. /\ starts' = [starts EXCEPT ![p] = starts[p] + 1]
        /\ starts[p] < MaxStarts[p] /\ starts[p] \in Nat /\ MaxStarts[p] \in Nat
    BY ProcessAssumption DEF Start, TypeOK
  <2>2. starts[p] + 1 \in Nat /\ starts[p] + 1 <= MaxStarts[p]
    BY <2>1
  <2>3. QED
    BY <2>1, <2>2 DEF TypeOK
<1>3. mode' \in [Processes -> Modes] /\ key' \in [Processes -> Keys \cup {OtherKey}]
  BY <1>1 DEF Start, TypeOK
<1>4. QED
  BY <1>2, <1>3 DEF Start, TypeOK, serveVars

LEMMA KillTypeOK ==
  ASSUME TypeOK, NEW p \in Processes, Kill(p)
  PROVE  TypeOK'
<1>1. license' \in Files /\ disturbed' \in BOOLEAN
  BY FileTypes DEF Kill, TypeOK
<1>2. QED
  BY <1>1, EndTypes DEF Kill, Ended, TypeOK

LEMMA StutterTypeOK == TypeOK /\ UNCHANGED vars => TypeOK'
  BY DEF TypeOK, vars, serveVars, licenseVars

\* Every state the specification reaches has the types the code declares.
THEOREM TypeCorrect == Spec => []TypeOK
<1>1. TypeOK /\ [Next]_vars => TypeOK'
  BY StartTypeOK, KillTypeOK, StartupTypeOK, LicenseTypeOK, HandlerTypeOK, StutterTypeOK
  DEF Next
<1>2. QED
  BY InitTypeOK, <1>1, PTL DEF Spec

------------------------------------------------------------------------------
(* The database.                                                           *)

\* What no statement of the code takes back.
DbGrows ==
  /\ db.table # "none" => db'.table # "none"
  /\ db.table = "current" => db'.table = "current"
  /\ db.indexes \subseteq db'.indexes
  /\ db.rows \subseteq db'.rows

LEMMA StepDbGrows ==
  ASSUME TypeOK, [Next]_vars
  PROVE  DbGrows
<1> USE DEF DbGrows
<1>1. \A d \in Databases(Rows \cup OldRows) :
        /\ CreateTable(d) = [d EXCEPT !.table = IF d.table = "none" THEN "current" ELSE d.table]
        /\ \A i \in Indexes : CreateIndex(d, i) = [d EXCEPT !.indexes = d.indexes \cup {i}]
        /\ AddCacheHit(d) = [d EXCEPT !.table = "current"]
        /\ \A row : Insert(d, row) = [d EXCEPT !.rows = d.rows \cup {row}]
  BY DEF CreateTable, CreateIndex, AddCacheHit, Insert
<1>2. db \in Databases(Rows \cup OldRows)
  BY DEF TypeOK
<1>3. db' = db => DbGrows
  OBVIOUS
<1>4. db' = CreateTable(db) => DbGrows
  BY <1>1, <1>2 DEF Databases
<1>5. \A i \in Indexes : db' = CreateIndex(db, i) => DbGrows
  BY <1>1, <1>2 DEF Databases
<1>6. db' = AddCacheHit(db) => DbGrows
  BY <1>1, <1>2 DEF Databases
<1>7. \A row : db' = Insert(db, row) => DbGrows
  BY <1>1, <1>2 DEF Databases
<1> HIDE DEF DbGrows
<1>8. ASSUME NEW p \in Processes, Startup(p)
      PROVE  DbGrows
  <2>1. "session" \in Indexes /\ "ts" \in Indexes
    BY DEF Indexes
  <2>2. QED
    BY <1>3, <1>4, <1>5, <1>6, <1>8, <2>1
    DEF Startup, OpenPragma, OpenSchema, OpenIndex, QueryColumns, CloseRows, AddColumn,
        OpenFails, Listen, ListenFails, serveVars
<1>9. ASSUME NEW p \in Processes, NEW h \in Handlers,
             Answered(p, h) \/ Load(p, h) \/ Handle(p, h)
      PROVE  DbGrows
  BY <1>3, <1>7, <1>9
  DEF Answered, Load, Handle, BeginLoad, CountIn, CountAfterAndInsert
<1>10. ASSUME NEW p \in Processes, Start(p) \/ Kill(p) \/ LicenseCommand(p)
       PROVE  DbGrows
  BY <1>3, <1>10
  DEF Start, Kill, LicenseCommand, ActivateOpens, ActivateWrites, RemoveFile, serveVars
<1>11. QED
  BY <1>3, <1>8, <1>9, <1>10 DEF Next, vars, serveVars

\* No opening, upgrade or restart takes a row from the database (Open, migrate).
THEOREM NoRowIsLost == Spec => RowsStay
<1>1. TypeOK /\ [Next]_vars => [db.rows \subseteq db'.rows]_vars
  BY StepDbGrows DEF DbGrows
<1>2. QED
  BY <1>1, TypeCorrect, PTL DEF Spec, RowsStay

\* What a process has done to the database by the time it is at a position of Open.
Prepared(p) ==
  /\ mode[p] \in {"session", "ts", "columns", "alter"} => db.table # "none"
  /\ mode[p] \in {"ts", "columns", "alter", "listen", "serving"} => "session" \in db.indexes
  /\ mode[p] \in {"columns", "alter", "listen", "serving"} => "ts" \in db.indexes
  /\ mode[p] \in {"listen", "serving"} => db.table = "current"
  /\ have[p] => db.table = "current"

SchemaInv == \A p \in Processes : Prepared(p)

\* What is prepared stays so while others use the database.
LEMMA StaysPrepared ==
  ASSUME DbGrows, NEW q \in Processes, Prepared(q),
         mode'[q] = mode[q], have'[q] = have[q]
  PROVE  Prepared(q)'
  BY DEF DbGrows, Prepared

LEMMA StartupSchema ==
  ASSUME TypeOK, SchemaInv, NEW p \in Processes, Startup(p), DbGrows
  PROVE  SchemaInv'
<1>1. \A q \in Processes \ {p} : mode'[q] = mode[q] /\ have'[q] = have[q]
  BY DEF Startup, OpenPragma, OpenSchema, OpenIndex, QueryColumns, CloseRows, AddColumn,
         OpenFails, Listen, ListenFails, Go, End, TypeOK, serveVars
<1>2. Prepared(p)
  BY DEF SchemaInv
<1>3. /\ mode \in [Processes -> Modes] /\ have \in [Processes -> BOOLEAN]
      /\ db \in Databases(Rows \cup OldRows)
  BY DEF TypeOK
<1>4. \A from, to : Go(p, from, to) => mode[p] = from /\ mode'[p] = to
  BY <1>3 DEF Go
<1>5. CASE OpenPragma(p)
  <2>1. mode'[p] = "schema" /\ have' = have
    BY <1>4, <1>5 DEF OpenPragma, serveVars
  <2>2. QED
    BY <1>1, <1>2, <2>1, StaysPrepared DEF Prepared, DbGrows, SchemaInv
<1>6. CASE OpenSchema(p)
  <2>1. mode'[p] = "session" /\ have' = have /\ db' = CreateTable(db)
    BY <1>4, <1>6 DEF OpenSchema
  <2>2. db'.table # "none"
    BY <1>3, <2>1 DEF CreateTable, Databases
  <2>3. QED
    BY <1>1, <1>2, <2>1, <2>2, StaysPrepared DEF Prepared, DbGrows, SchemaInv
<1>7. CASE OpenIndex(p)
  <2>1. have' = have
    BY <1>7 DEF OpenIndex
  <2>2. CASE Go(p, "session", "ts") /\ db' = CreateIndex(db, "session")
    <3>1. "session" \in db'.indexes
      BY <1>3, <2>2 DEF CreateIndex, Databases
    <3>2. mode[p] = "session" /\ mode'[p] = "ts"
      BY <1>4, <2>2
    <3>3. QED
      BY <1>1, <1>2, <2>1, <3>1, <3>2, StaysPrepared DEF Prepared, DbGrows, SchemaInv
  <2>3. CASE Go(p, "ts", "columns") /\ db' = CreateIndex(db, "ts")
    <3>1. "ts" \in db'.indexes
      BY <1>3, <2>3 DEF CreateIndex, Databases
    <3>2. mode[p] = "ts" /\ mode'[p] = "columns"
      BY <1>4, <2>3
    <3>3. QED
      BY <1>1, <1>2, <2>1, <3>1, <3>2, StaysPrepared DEF Prepared, DbGrows, SchemaInv
  <2>4. QED
    BY <1>7, <2>2, <2>3 DEF OpenIndex
<1>8. CASE QueryColumns(p)
  <2>1. mode' = mode /\ db' = db /\ have'[p] = HasCacheHit(db)
    BY <1>3, <1>8 DEF QueryColumns
  <2>2. have'[p] => db'.table = "current"
    BY <2>1 DEF HasCacheHit
  <2>3. QED
    BY <1>1, <1>2, <2>1, <2>2, StaysPrepared DEF Prepared, SchemaInv
<1>9. CASE CloseRows(p)
  <2>1. /\ mode[p] = "columns" /\ have' = have /\ db' = db
        /\ mode'[p] = IF have[p] THEN "listen" ELSE "alter"
    BY <1>4, <1>9 DEF CloseRows
  <2>2. mode'[p] = "listen" => db.table = "current"
    BY <1>2, <2>1 DEF Prepared
  <2>3. mode'[p] \in {"listen", "alter"}
    BY <2>1
  <2>4. QED
    BY <1>1, <1>2, <2>1, <2>2, <2>3, StaysPrepared DEF Prepared, SchemaInv
<1>10. CASE AddColumn(p)
  <2>1. mode[p] = "alter" /\ mode'[p] = "listen" /\ have' = have /\ db' = AddCacheHit(db)
    BY <1>4, <1>10 DEF AddColumn
  <2>2. db'.table = "current"
    BY <1>3, <2>1 DEF AddCacheHit, Databases
  <2>3. QED
    BY <1>1, <1>2, <2>1, <2>2, StaysPrepared DEF Prepared, DbGrows, SchemaInv
<1>11. CASE OpenFails(p) \/ ListenFails(p)
  <2>1. mode'[p] = "failed" /\ have'[p] = FALSE
    BY <1>3, <1>11 DEF OpenFails, ListenFails, End
  <2>2. QED
    BY <1>1, <2>1, StaysPrepared DEF Prepared, SchemaInv
<1>12. CASE Listen(p)
  <2>1. mode[p] = "listen" /\ mode'[p] = "serving" /\ have' = have /\ db' = db
    BY <1>4, <1>12 DEF Listen, serveVars
  <2>2. QED
    BY <1>1, <1>2, <2>1, StaysPrepared DEF Prepared, SchemaInv
<1>13. QED
  BY <1>5, <1>6, <1>7, <1>8, <1>9, <1>10, <1>11, <1>12 DEF Startup

LEMMA OtherSchema ==
  ASSUME TypeOK, SchemaInv, DbGrows, NEW p \in Processes,
         Start(p) \/ Kill(p) \/ LicenseCommand(p)
  PROVE  SchemaInv'
<1>1. \A q \in Processes \ {p} : mode'[q] = mode[q] /\ have'[q] = have[q]
  BY DEF Start, Kill, LicenseCommand, ActivateOpens, ActivateWrites, RemoveFile,
         Go, End, TypeOK, serveVars
<1>2. /\ mode'[p] \in {"pragma", "truncate", "remove", "write", "down"}
      /\ have'[p] => have[p]
  BY DEF Start, Kill, LicenseCommand, ActivateOpens, ActivateWrites, RemoveFile,
         Go, End, TypeOK, serveVars
<1>3. Prepared(p)'
  BY <1>2 DEF SchemaInv, Prepared, DbGrows
<1>4. QED
  BY <1>1, <1>3, StaysPrepared DEF SchemaInv

LEMMA SchemaNext ==
  ASSUME TypeOK, SchemaInv, [Next]_vars
  PROVE  SchemaInv'
<1>1. DbGrows
  BY StepDbGrows
<1>2. ASSUME NEW p \in Processes, NEW h \in Handlers,
             Answered(p, h) \/ Load(p, h) \/ Handle(p, h)
      PROVE  UNCHANGED <<mode, have>>
  BY <1>2 DEF Answered, Load, Handle, BeginLoad, CountIn, CountAfterAndInsert
<1>3. UNCHANGED <<mode, have>> => SchemaInv'
  BY <1>1, StaysPrepared DEF SchemaInv
<1>4. QED
  BY <1>1, <1>2, <1>3, StartupSchema, OtherSchema DEF Next, vars, serveVars

\* Whoever has opened the database has the current schema under it, whichever
\* processes open, upgrade, fail and are killed around it (Open, migrate).
THEOREM SchemaIsCurrent == Spec => []ServingMeansCurrent
<1>1. Init => SchemaInv
  BY DEF Init, SchemaInv, Prepared
<1>2. TypeOK /\ SchemaInv => ServingMeansCurrent
  BY DEF TypeOK, SchemaInv, Prepared, ServingMeansCurrent, Databases, Indexes
<1>3. QED
  BY <1>1, <1>2, SchemaNext, TypeCorrect, PTL DEF Spec

------------------------------------------------------------------------------
(* The methods of the counts.                                              *)

\* Only the handler that runs the load is in it, and nobody has counted before it
\* has ended.
CountersInv(p) ==
  /\ \A h \in Handlers : pos[p][h] = "loading" => counter[p].once = "loading"
  /\ \A g, h \in Handlers : pos[p][g] = "loading" /\ pos[p][h] = "loading" => g = h
  /\ \A h \in Handlers : pos[p][h] = "counted" =>
       counter[p].once = "done" /\ tokensIn[p][h] = CountString(counter[p])

\* The rows of the present run have its method; none is of a run to come.
RunRowsInv(p) ==
  \A row \in db.rows \cap Rows : row.process = p =>
    /\ row.run <= starts[p]
    /\ row.run = starts[p] /\ Up(p) =>
         /\ counter[p].once = "done"
         /\ row.tokensIn = CountString(counter[p])
         /\ row.tokensInAfter = CountString(counter[p])

MethodInv ==
  /\ OneMethodPerRun
  /\ \A p \in Processes : CountersInv(p) /\ RunRowsInv(p)

\* A step of p leaves the other processes alone and adds rows of p only.
StepOf(p) ==
  /\ \A q \in Processes \ {p} :
       /\ mode'[q] = mode[q] /\ starts'[q] = starts[q] /\ pos'[q] = pos[q]
       /\ tokensIn'[q] = tokensIn[q] /\ counter'[q] = counter[q]
  /\ \A row \in db'.rows : row \in db.rows \/ row.process = p

LEMMA OthersKeepMethods ==
  ASSUME NEW p \in Processes, StepOf(p), NEW q \in Processes \ {p},
         CountersInv(q), RunRowsInv(q)
  PROVE  CountersInv(q)' /\ RunRowsInv(q)'
BY DEF StepOf, CountersInv, RunRowsInv, CountString, Up

\* Statements of Open write no row.
LEMMA SameRows ==
  ASSUME TypeOK
  PROVE  /\ CreateTable(db).rows = db.rows
         /\ \A i \in Indexes : CreateIndex(db, i).rows = db.rows
         /\ AddCacheHit(db).rows = db.rows
         /\ \A row : Insert(db, row).rows = db.rows \cup {row}
<1>1. db \in Databases(Rows \cup OldRows)
  BY DEF TypeOK
<1>2. QED
  BY <1>1 DEF Databases, CreateTable, CreateIndex, AddCacheHit, Insert

\* What Open, the license commands, starts and ends have in common: no row, and no
\* handler goes on.
LEMMA QuietMethods ==
  ASSUME TypeOK, MethodInv, NEW p \in Processes, db'.rows = db.rows,
         \A q \in Processes \ {p} :
           /\ mode'[q] = mode[q] /\ starts'[q] = starts[q] /\ pos'[q] = pos[q]
           /\ tokensIn'[q] = tokensIn[q] /\ counter'[q] = counter[q],
         \/ /\ starts'[p] = starts[p] /\ (mode'[p] \in Ended \/ Up(p))
         \/ starts'[p] = starts[p] + 1,
         \/ pos'[p] = pos[p] /\ tokensIn'[p] = tokensIn[p] /\ counter'[p] = counter[p]
         \/ pos'[p] = [h \in Handlers |-> "idle"] /\ mode'[p] \in Ended
  PROVE  MethodInv'
<1>1. OneMethodPerRun'
  BY DEF MethodInv, OneMethodPerRun
<1>2. StepOf(p)
  BY DEF StepOf
<1>3. CountersInv(p)'
  <2>1. CountersInv(p)
    BY DEF MethodInv
  <2>2. QED
    BY <2>1 DEF CountersInv
<1>4. RunRowsInv(p)'
  <2>1. RunRowsInv(p)
    BY DEF MethodInv
  <2>2. starts[p] \in Nat
    BY DEF TypeOK
  <2>3. \A row \in Rows : row.run \in Nat
    BY DEF Rows
  <2>4. CASE starts'[p] = starts[p] + 1
    BY <2>1, <2>2, <2>3, <2>4 DEF RunRowsInv
  <2>5. CASE starts'[p] = starts[p] /\ mode'[p] \in Ended
    BY <2>1, <2>5 DEF RunRowsInv, Up
  <2>6. CASE starts'[p] = starts[p] /\ Up(p) /\ counter'[p] = counter[p]
    BY <2>1, <2>6 DEF RunRowsInv
  <2>7. QED
    BY <2>4, <2>5, <2>6
<1>5. QED
  BY <1>1, <1>2, <1>3, <1>4, OthersKeepMethods DEF MethodInv

LEMMA HandlerMethods ==
  ASSUME TypeOK, MethodInv, NEW p \in Processes, NEW h \in Handlers,
         Answered(p, h) \/ Load(p, h) \/ Handle(p, h)
  PROVE  MethodInv'
<1>1. /\ pos \in [Processes -> [Handlers -> Positions]]
      /\ tokensIn \in [Processes -> [Handlers -> Methods]]
      /\ counter \in [Processes -> Counters]
      /\ starts \in [Processes -> Nat]
  BY DEF TypeOK
<1>2. CountersInv(p) /\ RunRowsInv(p) /\ OneMethodPerRun
  BY DEF MethodInv
<1>3. \A from, to : GoHandler(p, h, from, to) =>
        /\ Up(p)
        /\ pos[p][h] = from /\ pos'[p][h] = to
        /\ \A g \in Handlers \ {h} : pos'[p][g] = pos[p][g]
        /\ \A q \in Processes \ {p} : pos'[q] = pos[q]
  BY <1>1 DEF GoHandler, Up, Ended
<1>4. CASE Answered(p, h)
  <2>1. UNCHANGED <<db, tokensIn, counter, mode, starts>>
    BY <1>4 DEF Answered
  <2>2. CountersInv(p)' /\ RunRowsInv(p)' /\ OneMethodPerRun' /\ StepOf(p)
    BY <1>2, <1>3, <1>4, <2>1
    DEF Answered, CountersInv, RunRowsInv, OneMethodPerRun, StepOf, Up
  <2>3. QED
    BY <2>2, OthersKeepMethods DEF MethodInv
<1>5. CASE BeginLoad(p, h)
  <2>1. /\ UNCHANGED <<db, tokensIn, mode, starts>>
        /\ counter[p].once = "new" /\ counter'[p].once = "loading"
        /\ \A q \in Processes \ {p} : counter'[q] = counter[q]
    BY <1>1, <1>5 DEF BeginLoad, FirstCall, StartLoad, Counters
  <2>2. pos'[p][h] = "loading" /\ Up(p)
    BY <1>3, <1>5 DEF BeginLoad
  <2>3. \A g \in Handlers \ {h} : pos'[p][g] \notin {"loading", "counted"}
    BY <1>2, <1>3, <1>5, <2>1 DEF BeginLoad, CountersInv
  <2>4. CountersInv(p)'
    BY <2>1, <2>2, <2>3 DEF CountersInv
  <2>5. RunRowsInv(p)' /\ OneMethodPerRun' /\ StepOf(p)
    BY <1>2, <1>3, <1>5, <2>1, <2>2 DEF BeginLoad, RunRowsInv, OneMethodPerRun, StepOf, Up
  <2>6. QED
    BY <2>4, <2>5, OthersKeepMethods DEF MethodInv
<1>6. CASE Load(p, h)
  <2>1. /\ UNCHANGED <<db, tokensIn, mode, starts>>
        /\ counter'[p].once = "done"
        /\ \A q \in Processes \ {p} : counter'[q] = counter[q]
    BY <1>1, <1>6 DEF Load, EndLoad
  <2>2. /\ pos[p][h] = "loading" /\ pos'[p][h] = "answered" /\ Up(p)
        /\ counter[p].once = "loading"
    BY <1>2, <1>3, <1>6 DEF Load, CountersInv
  <2>3. \A g \in Handlers \ {h} : pos'[p][g] \notin {"loading", "counted"}
    BY <1>2, <1>3, <1>6, <2>2 DEF Load, CountersInv
  <2>4. CountersInv(p)'
    BY <2>1, <2>2, <2>3 DEF CountersInv
  <2>5. RunRowsInv(p)' /\ OneMethodPerRun' /\ StepOf(p)
    BY <1>2, <1>3, <1>6, <2>1, <2>2 DEF Load, RunRowsInv, OneMethodPerRun, StepOf, Up
  <2>6. QED
    BY <2>4, <2>5, OthersKeepMethods DEF MethodInv
<1>7. CASE CountIn(p, h)
  <2>1. /\ UNCHANGED <<db, counter, mode, starts>>
        /\ counter[p].once = "done"
        /\ tokensIn'[p][h] = CountString(counter[p])
        /\ \A g \in Handlers \ {h} : tokensIn'[p][g] = tokensIn[p][g]
        /\ \A q \in Processes \ {p} : tokensIn'[q] = tokensIn[q]
    BY <1>1, <1>7 DEF CountIn, Ensured
  <2>2. pos'[p][h] = "counted"
    BY <1>3, <1>7 DEF CountIn
  <2>3. CountersInv(p)'
    BY <1>2, <1>3, <1>7, <2>1, <2>2 DEF CountIn, CountersInv, CountString
  <2>4. RunRowsInv(p)' /\ OneMethodPerRun' /\ StepOf(p)
    BY <1>2, <1>3, <1>7, <2>1
    DEF CountIn, RunRowsInv, OneMethodPerRun, StepOf, Up, CountString
  <2>5. QED
    BY <2>3, <2>4, OthersKeepMethods DEF MethodInv
<1>8. CASE CountAfterAndInsert(p, h)
  <2> DEFINE row == [process |-> p, run |-> starts[p], tokensIn |-> tokensIn[p][h],
                     tokensInAfter |-> CountString(counter[p])]
  <2>1. /\ UNCHANGED <<counter, mode, starts>>
        /\ counter[p].once = "done"
        /\ \A g \in Handlers \ {h} : tokensIn'[p][g] = tokensIn[p][g]
        /\ \A q \in Processes \ {p} : tokensIn'[q] = tokensIn[q]
    BY <1>1, <1>8 DEF CountAfterAndInsert, Ensured
  <2>2. /\ pos[p][h] = "counted" /\ pos'[p][h] = "idle" /\ Up(p)
        /\ \A g \in Handlers \ {h} : pos'[p][g] = pos[p][g]
        /\ \A q \in Processes \ {p} : pos'[q] = pos[q]
    BY <1>3, <1>8 DEF CountAfterAndInsert
  <2>3. tokensIn[p][h] = CountString(counter[p])
    BY <1>2, <2>2 DEF CountersInv
  <2>4. db'.rows = db.rows \/ db'.rows = db.rows \cup {row}
    BY <1>8, SameRows DEF CountAfterAndInsert
  <2>5. CountersInv(p)'
    BY <1>2, <2>1, <2>2 DEF CountersInv, CountString
  <2>6. /\ row.process = p /\ row.run = starts[p]
        /\ row.tokensIn = CountString(counter[p])
        /\ row.tokensInAfter = CountString(counter[p])
    BY <2>3
  <2> HIDE DEF row
  <2>7. RunRowsInv(p)'
    BY <1>1, <1>2, <2>1, <2>2, <2>4, <2>6 DEF RunRowsInv, Up, CountString
  <2>8. OneMethodPerRun'
    <3>1. \A r \in db.rows \cap Rows : r.process = p /\ r.run = starts[p] =>
            r.tokensIn = CountString(counter[p]) /\ r.tokensInAfter = CountString(counter[p])
      BY <1>2, <2>2 DEF RunRowsInv
    <3>2. QED
      BY <1>2, <2>4, <2>6, <3>1 DEF OneMethodPerRun
  <2>9. StepOf(p)
    BY <2>1, <2>2, <2>4, <2>6 DEF StepOf
  <2>10. QED
    BY <2>5, <2>7, <2>8, <2>9, OthersKeepMethods DEF MethodInv
<1>9. QED
  BY <1>4, <1>5, <1>6, <1>7, <1>8 DEF Handle

LEMMA MethodNext ==
  ASSUME TypeOK, MethodInv, [Next]_vars
  PROVE  MethodInv'
<1>1. ASSUME NEW p \in Processes, Startup(p)
      PROVE  MethodInv'
  <2>1. db'.rows = db.rows
    <3>1. "session" \in Indexes /\ "ts" \in Indexes
      BY DEF Indexes
    <3>2. QED
      BY <1>1, <3>1, SameRows
      DEF Startup, OpenPragma, OpenSchema, OpenIndex, QueryColumns, CloseRows, AddColumn,
          OpenFails, Listen, ListenFails, serveVars
  <2>2. CASE OpenFails(p) \/ ListenFails(p)
    BY <2>1, <2>2, QuietMethods DEF OpenFails, ListenFails, End, Ended, TypeOK
  <2>3. CASE ~(OpenFails(p) \/ ListenFails(p))
    <3>1. UNCHANGED <<pos, tokensIn, counter, starts>>
      BY <1>1, <2>3
      DEF Startup, OpenPragma, OpenSchema, OpenIndex, QueryColumns, CloseRows, AddColumn,
          Listen, serveVars
    <3>2. Up(p) /\ \A q \in Processes \ {p} : mode'[q] = mode[q]
      BY <1>1, <2>3
      DEF Startup, OpenPragma, OpenSchema, OpenIndex, QueryColumns, CloseRows, AddColumn,
          Listen, Go, Up, Ended, TypeOK
    <3>3. QED
      BY <2>1, <3>1, <3>2, QuietMethods
  <2>4. QED
    BY <2>2, <2>3
<1>2. ASSUME NEW p \in Processes, Kill(p) \/ ActivateWrites(p)
      PROVE  MethodInv'
  BY <1>2, QuietMethods DEF Kill, ActivateWrites, End, Ended, TypeOK
<1>3. ASSUME NEW p \in Processes, ActivateOpens(p) \/ RemoveFile(p)
      PROVE  MethodInv'
  <2>1. /\ UNCHANGED <<db, pos, tokensIn, counter, starts>> /\ Up(p)
        /\ \A q \in Processes \ {p} : mode'[q] = mode[q]
    BY <1>3 DEF ActivateOpens, RemoveFile, Go, Up, Ended, TypeOK, serveVars
  <2>2. QED
    BY <2>1, QuietMethods
<1>4. ASSUME NEW p \in Processes, Start(p)
      PROVE  MethodInv'
  <2>1. /\ UNCHANGED <<db, pos, tokensIn, counter>> /\ starts'[p] = starts[p] + 1
        /\ \A q \in Processes \ {p} : mode'[q] = mode[q] /\ starts'[q] = starts[q]
    BY <1>4 DEF Start, TypeOK, serveVars
  <2>2. QED
    BY <2>1, QuietMethods
<1>5. UNCHANGED vars => MethodInv'
  BY DEF vars, serveVars, MethodInv, OneMethodPerRun, CountersInv, RunRowsInv, Up, CountString
<1>6. QED
  BY <1>1, <1>2, <1>3, <1>4, <1>5, HandlerMethods DEF Next, LicenseCommand

\* The counts of one run of a process are of one method, whichever handler loads the
\* vocabulary and however the load ends (ensure, CountString).
THEOREM CountsAreComparable == Spec => []OneMethodPerRun
<1>1. Init => MethodInv
  <2>1. StartingDbs \subseteq Databases(OldRows) /\ OldRows \cap Rows = {}
    BY ProcessAssumption
  <2>2. Init => db.rows \cap Rows = {}
    BY <2>1 DEF Init, Databases
  <2>3. QED
    BY <2>2 DEF Init, MethodInv, OneMethodPerRun, CountersInv, RunRowsInv
<1>2. QED
  BY <1>1, MethodNext, TypeCorrect, PTL DEF Spec, MethodInv

------------------------------------------------------------------------------
(* The license file.                                                       *)

\* Unless something has come in between, a writer is the only one, and the file it
\* has truncated has its name and is still empty.
WriterInv ==
  ~disturbed => \A p \in Processes : mode[p] = "write" =>
    /\ linked[p] /\ license = Empty
    /\ \A q \in Processes \ {p} : mode[q] # "write"

LicenseInv == WriterInv /\ LicenseAsLeft

\* Servers, starts and handlers change nothing about it.
LEMMA OtherLicense ==
  ASSUME LicenseInv, NEW p \in Processes, UNCHANGED <<license, disturbed, left>>,
         \A q \in Processes : (mode'[q] = "write") = (mode[q] = "write"),
         \A q \in Processes : mode[q] = "write" => linked'[q] = linked[q]
  PROVE  LicenseInv'
BY DEF LicenseInv, WriterInv, LicenseAsLeft

LEMMA CommandLicense ==
  ASSUME TypeOK, LicenseInv, NEW p \in Processes, LicenseCommand(p)
  PROVE  LicenseInv'
<1>1. mode \in [Processes -> Modes] /\ linked \in [Processes -> BOOLEAN]
  BY DEF TypeOK
<1>2. \A from, to : Go(p, from, to) =>
        mode[p] = from /\ mode'[p] = to /\ \A q \in Processes \ {p} : mode'[q] = mode[q]
  BY <1>1 DEF Go
<1>3. ~Overlapped(p) => \A q \in Processes \ {p} : mode[q] # "write"
  BY DEF Overlapped, Writing
<1>4. CASE ActivateOpens(p)
  <2>1. /\ mode'[p] = "write" /\ linked'[p] /\ license' = Empty
        /\ disturbed' = Overlapped(p)
        /\ \A q \in Processes \ {p} : mode'[q] = mode[q]
    BY <1>1, <1>2, <1>4 DEF ActivateOpens, Truncate
  <2>2. QED
    BY <1>3, <2>1 DEF LicenseInv, WriterInv, LicenseAsLeft
<1>5. CASE ActivateWrites(p)
  <2>1. SUFFICES ASSUME ~disturbed' PROVE LicenseInv'
    BY DEF LicenseInv, WriterInv, LicenseAsLeft
  <2>2. /\ mode[p] = "write" /\ ~disturbed /\ ~Overlapped(p)
        /\ license' \in IF linked[p] THEN WriteOver(license, key[p]) ELSE {license}
        /\ left' = Holding(key[p])
    BY <1>5, <2>1 DEF ActivateWrites
  <2>3. linked[p] /\ license = Empty
    BY <2>2 DEF LicenseInv, WriterInv
  <2>4. license' = left'
    <3>1. Empty # Holding(key[p]) /\ \A k \in Keys : Empty # Holding(k)
      BY DEF Empty, Holding
    <3>2. WriteOver(Empty, key[p]) = {Holding(key[p])}
      BY <3>1 DEF WriteOver
    <3>3. QED
      BY <2>2, <2>3, <3>2
  <2>5. \A q \in Processes : mode'[q] # "write"
    BY <1>1, <1>3, <1>5, <2>2 DEF ActivateWrites, End
  <2>6. QED
    BY <2>4, <2>5 DEF LicenseInv, WriterInv, LicenseAsLeft
<1>6. CASE RemoveFile(p)
  <2>1. /\ mode'[p] = "down" /\ license' = left' /\ disturbed' = Overlapped(p)
        /\ \A q \in Processes \ {p} : mode'[q] = mode[q]
    BY <1>2, <1>6 DEF RemoveFile, Remove
  <2>2. QED
    BY <1>3, <2>1 DEF LicenseInv, WriterInv, LicenseAsLeft
<1>7. QED
  BY <1>4, <1>5, <1>6 DEF LicenseCommand

LEMMA LicenseNext ==
  ASSUME TypeOK, LicenseInv, [Next]_vars
  PROVE  LicenseInv'
<1>1. ASSUME NEW p \in Processes, Startup(p)
      PROVE  LicenseInv'
  <2>1. mode \in [Processes -> Modes] /\ linked \in [Processes -> BOOLEAN]
    BY DEF TypeOK
  <2>2. /\ UNCHANGED <<license, disturbed, left>>
        /\ mode[p] # "write" /\ mode'[p] # "write"
        /\ \A q \in Processes \ {p} : mode'[q] = mode[q] /\ linked'[q] = linked[q]
    BY <1>1, <2>1
    DEF Startup, OpenPragma, OpenSchema, OpenIndex, QueryColumns, CloseRows, AddColumn,
        OpenFails, Listen, ListenFails, Go, End, Opening, licenseVars
  <2>3. QED
    BY <2>2, OtherLicense
<1>2. ASSUME NEW p \in Processes, Start(p)
      PROVE  LicenseInv'
  <2>1. /\ UNCHANGED <<license, disturbed, left, linked>>
        /\ \A q \in Processes : (mode'[q] = "write") = (mode[q] = "write")
    BY <1>2 DEF Start, Up, Ended, TypeOK
  <2>2. QED
    BY <1>2, <2>1, OtherLicense
<1>3. ASSUME NEW p \in Processes, Kill(p)
      PROVE  LicenseInv'
  <2>1. CASE mode[p] = "write"
    <3>1. disturbed'
      BY <1>3, <2>1 DEF Kill
    <3>2. QED
      BY <3>1 DEF LicenseInv, WriterInv, LicenseAsLeft
  <2>2. CASE mode[p] # "write"
    <3>1. /\ UNCHANGED <<license, disturbed, left>> /\ mode'[p] = "down"
          /\ \A q \in Processes \ {p} : mode'[q] = mode[q] /\ linked'[q] = linked[q]
      BY <1>3, <2>2 DEF Kill, End, TypeOK
    <3>2. QED
      BY <2>2, <3>1, OtherLicense
  <2>3. QED
    BY <2>1, <2>2
<1>4. ASSUME NEW p \in Processes, NEW h \in Handlers,
             Answered(p, h) \/ Load(p, h) \/ Handle(p, h)
      PROVE  LicenseInv'
  <2>1. UNCHANGED <<license, disturbed, left, linked, mode>>
    BY <1>4 DEF Answered, Load, Handle, BeginLoad, CountIn, CountAfterAndInsert, licenseVars
  <2>2. QED
    BY <2>1, OtherLicense
<1>5. UNCHANGED vars => LicenseInv'
  BY DEF vars, licenseVars, LicenseInv, WriterInv, LicenseAsLeft
<1>6. QED
  BY <1>1, <1>2, <1>3, <1>4, <1>5, CommandLicense DEF Next

\* Unless a license command was killed, failed in its write or ran together with
\* another, the file is as the last one left it (Activate, Remove).
THEOREM LicenseIsAsLeft == Spec => []LicenseAsLeft
<1>1. Init => LicenseInv
  BY DEF Init, LicenseInv, WriterInv, LicenseAsLeft
<1>2. QED
  BY <1>1, LicenseNext, TypeCorrect, PTL DEF Spec, LicenseInv

==============================================================================
