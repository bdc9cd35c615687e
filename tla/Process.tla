------------------------------- MODULE Process -------------------------------
(***************************************************************************)
(* The life of the thin processes on one machine, which share a metrics    *)
(* database and a license file: `thin` opens the database, brings an older *)
(* one up to date and serves; `thin license ...` changes the license file. *)
(* Processes start, are killed and start again at any point.               *)
(*                                                                         *)
(* Of a served request this module has what follows the recording of its   *)
(* answer (the action Finish of module Proxy): both token counts and the   *)
(* row.                                                                    *)
(***************************************************************************)
EXTENDS MetricsDb, TokenCounter, LicenseFile

CONSTANTS
  Processes,      \* processes that may run at the same time
  Handlers,       \* requests that one process serves at a time
  Commands,       \* what each process may be started as
  MaxStarts,      \* bound: starts of each process
  StartingDbs,    \* the databases found in the beginning
  OldRows,        \* the rows they can have
  LoadMayFail     \* whether the vocabulary can fail to load

Methods == {"exact", "estimate"}

\* What is kept of a row: the process and the run that wrote it, and the methods of
\* its two counts.
Rows == [process : Processes, run : Nat,
         tokensIn : Methods, tokensInAfter : Methods]

ASSUME ProcessAssumption ==
  /\ MaxStarts \in [Processes -> Nat]
  /\ Commands \in [Processes -> SUBSET {"serve", "activate", "remove"}]
  /\ StartingDbs \subseteq Databases(OldRows)
  /\ OldRows \cap Rows = {}
  /\ LoadMayFail \in BOOLEAN

VARIABLES
  db,          \* the metrics database
  license,     \* the license file
  mode,        \* how far each process is
  starts,      \* how often each process has been started
  conn,        \* whether the only connection of a process is free
  have,        \* what migrate has learnt: is there a column cache_hit
  pos,         \* how far each handler is
  tokensIn,    \* the method of its first count
  counter,     \* the token counter of each process
  key,         \* the key an activation is about
  linked,      \* whether the file an activation writes still has its name
  disturbed,   \* history: an activation was cut short or not alone
  left         \* history: what the last undisturbed license command left

serveVars == <<db, conn, have, pos, tokensIn, counter>>
licenseVars == <<license, key, linked, disturbed, left>>
vars == <<serveVars, licenseVars, mode, starts>>

\* Where a server is while it opens the database, in this order.
Opening == {"pragma", "schema", "session", "ts", "columns", "alter"}
Serving == Opening \cup {"listen", "serving"}
Writing == {"truncate", "write"}
Ended == {"down", "failed"}
Modes == Ended \cup Serving \cup Writing \cup {"remove"}

Positions == {"idle", "answered", "loading", "counted"}

Init ==
  /\ db \in StartingDbs
  /\ license = Absent
  /\ mode = [p \in Processes |-> "down"]
  /\ starts = [p \in Processes |-> 0]
  /\ conn = [p \in Processes |-> "free"]
  /\ have = [p \in Processes |-> FALSE]
  /\ pos = [p \in Processes |-> [h \in Handlers |-> "idle"]]
  /\ tokensIn = [p \in Processes |-> [h \in Handlers |-> "exact"]]
  /\ counter = [p \in Processes |-> NewCounter]
  /\ key = [p \in Processes |-> OtherKey]
  /\ linked = [p \in Processes |-> FALSE]
  /\ disturbed = FALSE
  /\ left = Absent

Up(p) == mode[p] \notin Ended
Alone(p) == \A q \in Processes \ {p} : ~Up(q)

Go(p, from, to) ==
  /\ mode[p] = from
  /\ mode' = [mode EXCEPT ![p] = to]

------------------------------------------------------------------------------
(* metrics.Open.  SetMaxOpenConns(1): a statement waits for the connection.  *)

Exec(p) == conn[p] = "free"

\* PRAGMA journal_mode=WAL.
OpenPragma(p) ==
  /\ Exec(p)
  /\ Go(p, "pragma", "schema")
  /\ UNCHANGED <<serveVars, licenseVars, starts>>

\* The three statements of the schema.
OpenSchema(p) ==
  /\ Exec(p)
  /\ Go(p, "schema", "session")
  /\ db' = CreateTable(db)
  /\ UNCHANGED <<conn, have, pos, tokensIn, counter, licenseVars, starts>>

OpenIndex(p) ==
  /\ Exec(p)
  /\ \/ Go(p, "session", "ts") /\ db' = CreateIndex(db, "session")
     \/ Go(p, "ts", "columns") /\ db' = CreateIndex(db, "ts")
  /\ UNCHANGED <<conn, have, pos, tokensIn, counter, licenseVars, starts>>

\* migrate asks for the columns; the rows of the answer hold the connection
QueryColumns(p) ==
  /\ mode[p] = "columns"
  /\ Exec(p)
  /\ conn' = [conn EXCEPT ![p] = "rows"]
  /\ have' = [have EXCEPT ![p] = HasCacheHit(db)]
  /\ UNCHANGED <<db, pos, tokensIn, counter, licenseVars, mode, starts>>

\* Variant: the loop ends before the rows do; they are closed on return only.
LeaveRowsOpen(p) ==
  /\ conn[p] = "rows"
  /\ Go(p, "columns", IF have[p] THEN "listen" ELSE "alter")
  /\ conn' = IF have[p] THEN [conn EXCEPT ![p] = "free"] ELSE conn
  /\ UNCHANGED <<db, have, pos, tokensIn, counter, licenseVars, starts>>

\* until Next has returned false.
CloseRows(p) ==
  /\ conn[p] = "rows"
  /\ Go(p, "columns", IF have[p] THEN "listen" ELSE "alter")
  /\ conn' = [conn EXCEPT ![p] = "free"]
  /\ UNCHANGED <<db, have, pos, tokensIn, counter, licenseVars, starts>>

\* ALTER TABLE, if no other process has added the column in between.
AddColumn(p) ==
  /\ Exec(p)
  /\ CanAddCacheHit(db)
  /\ Go(p, "alter", "listen")
  /\ db' = AddCacheHit(db)
  /\ UNCHANGED <<conn, have, pos, tokensIn, counter, licenseVars, starts>>

\* The process ends, on an error of its own ("failed") or not ("down"): its memory, its
\* handlers and its connection are gone.
End(p, how) ==
  /\ mode' = [mode EXCEPT ![p] = how]
  /\ conn' = [conn EXCEPT ![p] = "free"]
  /\ have' = [have EXCEPT ![p] = FALSE]
  /\ pos' = [pos EXCEPT ![p] = [h \in Handlers |-> "idle"]]
  /\ tokensIn' = [tokensIn EXCEPT ![p] = [h \in Handlers |-> "exact"]]
  /\ counter' = [counter EXCEPT ![p] = NewCounter]
  /\ linked' = [linked EXCEPT ![p] = FALSE]
  /\ key' = [key EXCEPT ![p] = OtherKey]

\* Open fails, and main with it: another process holds the lock of the database, or
\* has added the column first.
OpenFails(p) ==
  /\ mode[p] \in Opening
  /\ \/ \E q \in Processes \ {p} : mode[q] \in Serving
     \/ mode[p] = "alter" /\ ~CanAddCacheHit(db)
  /\ End(p, "failed")
  /\ UNCHANGED <<db, license, disturbed, left, starts>>

\* ListenAndServe: whoever has an address to itself (-listen) serves; where another
\* process has the port, this one ends with Fatalf.
Listen(p) ==
  /\ Go(p, "listen", "serving")
  /\ UNCHANGED <<serveVars, licenseVars, starts>>

ListenFails(p) ==
  /\ mode[p] = "listen"
  /\ \E q \in Processes \ {p} : mode[q] = "serving"
  /\ End(p, "failed")
  /\ UNCHANGED <<db, license, disturbed, left, starts>>

Startup(p) ==
  \/ OpenPragma(p) \/ OpenSchema(p) \/ OpenIndex(p)
  \/ QueryColumns(p) \/ CloseRows(p) \/ AddColumn(p) \/ OpenFails(p)
  \/ Listen(p) \/ ListenFails(p)

------------------------------------------------------------------------------
(* The end of a handler, after RecordCacheHit.                             *)

GoHandler(p, h, from, to) ==
  /\ mode[p] = "serving"
  /\ pos[p][h] = from
  /\ pos' = [pos EXCEPT ![p][h] = to]

\* A request has come, been rewritten and been answered.
Answered(p, h) ==
  /\ GoHandler(p, h, "idle", "answered")
  /\ UNCHANGED <<db, conn, have, tokensIn, counter, licenseVars, mode, starts>>

\* CountString of the request body: the first caller loads the vocabulary,
BeginLoad(p, h) ==
  /\ FirstCall(counter[p])
  /\ GoHandler(p, h, "answered", "loading")
  /\ counter' = [counter EXCEPT ![p] = StartLoad(@)]
  /\ UNCHANGED <<db, conn, have, tokensIn, licenseVars, mode, starts>>

\* and is back where it was when that has ended, one way or the other.
Load(p, h) ==
  /\ GoHandler(p, h, "loading", "answered")
  /\ \E failed \in {FALSE, LoadMayFail} :
       counter' = [counter EXCEPT ![p] = EndLoad(@, failed)]
  /\ UNCHANGED <<db, conn, have, tokensIn, licenseVars, mode, starts>>

CountIn(p, h) ==
  /\ Ensured(counter[p])
  /\ GoHandler(p, h, "answered", "counted")
  /\ tokensIn' = [tokensIn EXCEPT ![p][h] = CountString(counter[p])]
  /\ UNCHANGED <<db, conn, have, counter, licenseVars, mode, starts>>

\* CountString of the rewritten body, and Store.Insert, which another process with
\* the database open can make fail; the row is then missing.
CountAfterAndInsert(p, h) ==
  /\ Ensured(counter[p])
  /\ Exec(p)
  /\ GoHandler(p, h, "counted", "idle")
  /\ tokensIn' = [tokensIn EXCEPT ![p][h] = "exact"]
  /\ \/ /\ CanInsert(db)
        /\ db' = Insert(db,
             [process |-> p, run |-> starts[p],
              tokensIn |-> tokensIn[p][h], tokensInAfter |-> CountString(counter[p])])
     \/ /\ ~CanInsert(db) \/ \E q \in Processes \ {p} : mode[q] \in Serving
        /\ db' = db
  /\ UNCHANGED <<conn, have, counter, licenseVars, mode, starts>>

Handle(p, h) == BeginLoad(p, h) \/ CountIn(p, h) \/ CountAfterAndInsert(p, h)

------------------------------------------------------------------------------
(* thin license.                                                           *)

\* Another license command is under way.
Overlapped(p) == \E q \in Processes \ {p} : mode[q] \in Writing \cup {"remove"}

ActivateOpens(p) ==
  /\ Go(p, "truncate", "write")
  /\ license' = Truncate(license)
  /\ linked' = [linked EXCEPT ![p] = TRUE]
  /\ disturbed' = Overlapped(p)
  /\ UNCHANGED <<serveVars, key, left, starts>>

\* A writer whose file has lost its name in the meantime writes it all the same.
ActivateWrites(p) ==
  /\ mode[p] = "write"
  /\ \/ /\ license' \in IF linked[p] THEN WriteOver(license, key[p]) ELSE {license}
        /\ disturbed' = (disturbed \/ Overlapped(p))
     \/ /\ license' \in IF linked[p] THEN WriteShort(license) ELSE {license}
        /\ disturbed' = TRUE
  /\ left' = Holding(key[p])
  /\ End(p, "down")
  /\ UNCHANGED <<db, starts>>

RemoveFile(p) ==
  /\ Go(p, "remove", "down")
  /\ license' = Remove(license)
  /\ linked' = [q \in Processes |-> FALSE]
  /\ disturbed' = Overlapped(p)
  /\ left' = Absent
  /\ UNCHANGED <<serveVars, key, starts>>

LicenseCommand(p) == ActivateOpens(p) \/ ActivateWrites(p) \/ RemoveFile(p)

------------------------------------------------------------------------------
\* main.  The license notice at the start of a server reads the license file and
\* goes on whatever it finds there.
Start(p) ==
  /\ ~Up(p)
  /\ starts[p] < MaxStarts[p]
  /\ starts' = [starts EXCEPT ![p] = @ + 1]
  /\ \/ /\ "serve" \in Commands[p]
        /\ mode' = [mode EXCEPT ![p] = "pragma"]
        /\ key' = key
     \/ /\ "activate" \in Commands[p]
        /\ mode' = [mode EXCEPT ![p] = "truncate"]
        /\ \E k \in Keys : key' = [key EXCEPT ![p] = k]
     \/ /\ "remove" \in Commands[p]
        /\ mode' = [mode EXCEPT ![p] = "remove"]
        /\ key' = key
  /\ UNCHANGED <<serveVars, license, linked, disturbed, left>>

\* The process is killed.  A write that has begun may have got some way.
Kill(p) ==
  /\ Up(p)
  /\ IF mode[p] = "write"
       THEN /\ license' \in {license} \cup (IF linked[p] THEN WriteShort(license) ELSE {})
            /\ disturbed' = TRUE
       ELSE UNCHANGED <<license, disturbed>>
  /\ End(p, "down")
  /\ UNCHANGED <<db, left, starts>>

Next ==
  \E p \in Processes :
    \/ Start(p) \/ Kill(p) \/ Startup(p) \/ LicenseCommand(p)
    \/ \E h \in Handlers : Answered(p, h) \/ Load(p, h) \/ Handle(p, h)

Spec == Init /\ [][Next]_vars

\* A goroutine that can go on does, and a statement on the database returns: there
\* is no busy timeout, a lock held elsewhere is an error at once.  Nothing is assumed
\* of Load, which can hang, of the requests, and of who is started and killed.
FairSpec ==
  /\ Spec
  /\ \A p \in Processes :
       /\ WF_vars(Startup(p))
       /\ \A h \in Handlers : WF_vars(Handle(p, h))

------------------------------------------------------------------------------
(* Properties.                                                             *)

TypeOK ==
  /\ db \in Databases(Rows \cup OldRows)
  /\ license \in Files
  /\ mode \in [Processes -> Modes]
  /\ starts \in [Processes -> Nat]
  /\ \A p \in Processes : starts[p] <= MaxStarts[p]
  /\ conn \in [Processes -> {"free", "rows"}]
  /\ have \in [Processes -> BOOLEAN]
  /\ pos \in [Processes -> [Handlers -> Positions]]
  /\ tokensIn \in [Processes -> [Handlers -> Methods]]
  /\ counter \in [Processes -> Counters]
  /\ key \in [Processes -> Keys \cup {OtherKey}]
  /\ linked \in [Processes -> BOOLEAN]
  /\ disturbed \in BOOLEAN
  /\ left \in Files

\* A process that has opened the database has the current schema under it, whatever
\* version it found, wherever an earlier process was killed in the middle of Open, and
\* whoever else opens the file at the same time (Open, migrate).
ServingMeansCurrent ==
  \A p \in Processes : mode[p] \in {"listen", "serving"} =>
    db.table = "current" /\ db.indexes = Indexes

\* All counts of one run of a process are made by one method, so that the difference
\* of the two counts of a row, and the sum over rows, mean something (ensure).
OneMethodPerRun ==
  \A r1, r2 \in db.rows \cap Rows :
    r1.process = r2.process /\ r1.run = r2.run =>
      {r1.tokensIn, r1.tokensInAfter} = {r2.tokensIn} /\ r2.tokensIn = r2.tokensInAfter

\* Unless a license command was killed, failed in its write or ran together with
\* another, the file holds what the last one left, and nothing of what was there
\* before (Activate, Remove).
LicenseAsLeft ==
  ~disturbed /\ (\A p \in Processes : mode[p] # "write") => license = left

\* No opening, upgrade or restart takes a row from the database.
RowsStay == [][db.rows \subseteq db'.rows]_vars

\* A server that nobody kills, with no other process beside it, gets to serve and does
\* not end on an error of its own: past any database that older or killed processes
\* have left, over the only connection of its pool.
LoneServerServes ==
  \A p \in Processes :
    (mode[p] = "pragma" /\ [](mode[p] # "down" /\ Alone(p))) ~> mode[p] = "serving"

\* As long as loads of the vocabulary end, well or not, every handler does.
HandlersFinish ==
  \A p \in Processes, h \in Handlers :
    []<>(counter[p].once # "loading") => (pos[p][h] = "answered" ~> pos[p][h] = "idle")

==============================================================================
