------------------------------- MODULE Hatch -------------------------------
(***************************************************************************)
(* Caller code on the log's own connections.  A connection belongs to one  *)
(* isle thread and outlives every job; three kinds of job hand it to code  *)
(* the crate does not control: a transaction's closure, the callbacks of a *)
(* projection, and the statement of a query.  Each runs under an           *)
(* authorizer that is installed for the one call, with a trust flag that   *)
(* is up just while the crate's own statements run.  The closure may fail, *)
(* may panic, may swallow a failure or catch a panic and go on.  WritePath *)
(* has the queue, the lock and the numbering; here a write is who made it  *)
(* and which table it reached.                                             *)
(***************************************************************************)
EXTENDS Integers, FiniteSets, Sequences

CONSTANTS
  Writer, Readers,   \* the connections of a log on a file
  Statements,        \* what caller code may run of its own
  Queries,           \* what is asked through query
  MaxJobs,           \* bound: jobs taken
  MaxSteps           \* bound: statements and appends of caller code

Conns == {Writer} \cup Readers

(* What a statement does, as the authorizer is asked about it.             *)
Reshapes == {"Insert", "Update", "Delete", "DropTable", "DropTempTable", "AlterTable",
             "CreateTrigger", "CreateTempTrigger", "DropTrigger", "DropTempTrigger",
             "DropIndex", "DropTempIndex"}
CreatesInMain == {"CreateTable", "CreateView"}
CreatesInTemp == {"CreateTempTable", "CreateTempView"}
Outside == {"Attach", "Detach"}
\* A pragma read plainly, one that names what to describe, one that sets.
Pragmas == {"PragmaRead", "PragmaDescribe", "PragmaSet"}
\* A savepoint outside a transaction opens one; its release is then a commit.
Controls == {"Begin", "Savepoint", "Commit", "Rollback"}
\* No arm of the match names these, whatever they are on.
OtherDrops == {"DropView", "DropTempView", "DropVtable"}
Others == OtherDrops \cup {"Select", "CreateIndex", "CreateVtable", "RollbackTo"}

Verbs == Reshapes \cup CreatesInMain \cup CreatesInTemp \cup Outside \cup Pragmas
           \cup Controls \cup Others

\* What it does, whether what it names is one of RESERVED_TABLES, and whether it
\* alters a TEMP table's name to one of them: ALTER TABLE shows the old name only.
Statement == [verb : Verbs, reserved : BOOLEAN, renames : BOOLEAN]

\* SQLite shows a drop of anything also as a deletion from what is dropped.
Shown(st) == {st.verb} \cup (IF st.verb \in OtherDrops THEN {"Delete"} ELSE {})

\* Faulty: only what lives in main is guarded.
AuthorizeMain(st, isTrusted) ==
  \/ isTrusted
  \/ /\ st.reserved => Shown(st) \cap (Reshapes \cup CreatesInMain) = {}
     /\ st.verb \notin Outside \cup {"PragmaSet"}

Authorize(st, isTrusted) ==
  \/ isTrusted
  \/ /\ st.reserved => Shown(st) \cap (Reshapes \cup CreatesInMain \cup CreatesInTemp) = {}
     /\ st.verb \notin Outside \cup {"PragmaSet"}

-----------------------------------------------------------------------------
(* A query: what it declares, what it is given, and the cells it finds.    *)

Cells == {"null", "integer", "real", "text", "infinity", "not utf8", "blob"}

\* A statement, its named and its bare placeholders, the values given by
\* position or by name, and one row of cells.
Query == [st : Statement, names : SUBSET STRING, bare : Nat,
          by : {"position", "name"}, count : Nat, given : SUBSET STRING, wide : BOOLEAN,
          row : Seq(Cells), lossy : BOOLEAN, deadline : BOOLEAN]

ASSUME HatchAssumption ==
  /\ Writer \notin Readers
  /\ Statements \subseteq Statement
  /\ Queries \subseteq Query /\ \A q \in Queries : IsFiniteSet(q.names)
  /\ MaxJobs \in Nat /\ MaxSteps \in Nat

\* Faulty: a list of the words that write.
ReadOnlyByWords(st) == st.verb \notin {"Insert", "Update", "Delete"}

\* sqlite3_stmt_readonly: attaching and transaction control do not write a file.
ReadOnly(st) == st.verb \in Outside \cup Pragmas \cup Controls \cup {"Select", "RollbackTo"}

\* Every placeholder is supplied, nothing is supplied that is not declared, and
\* no integer is wider than SQLite's.
Binds(q) ==
  /\ ~q.wide
  /\ IF q.by = "position" THEN q.count = Cardinality(q.names) + q.bare
     ELSE q.given = q.names /\ q.bare = 0

\* Cells JSON has no value for.
NoJson == {"infinity", "not utf8", "blob"}

\* sql_to_json: the value, a substitute as text, or the refusal.
ToJson(cell, lossy) ==
  IF cell \notin NoJson THEN cell ELSE IF lossy THEN "text" ELSE "refused"

JsonRow(q) == [i \in DOMAIN q.row |-> ToJson(q.row[i], q.lossy)]

\* It comes to be run.
Runs(q) == Authorize(q.st, FALSE) /\ ReadOnly(q.st) /\ Binds(q)

\* What the query answers when nothing fails or interrupts it.
Answered(q) ==
  IF ~Authorize(q.st, FALSE) \/ ~ReadOnly(q.st) THEN "Unsupported"
  ELSE IF ~Binds(q) THEN "Validation"
  ELSE IF \E i \in DOMAIN q.row : JsonRow(q)[i] = "refused" THEN "Unsupported"
  ELSE "rows"

\* With a deadline the interrupt may come first, or too late.
Late(q) == IF q.deadline THEN {"Timeout"} ELSE {}

-----------------------------------------------------------------------------
VARIABLES
  inMemory,   \* opened on :memory:, where queries go to the writer
  guard,      \* per connection: an authorizer is installed
  trusted,    \* per connection: the flag the authorizer looks at
  open,       \* per connection: a transaction is open
  attached,   \* per connection: a foreign database is attached
  stuck,      \* per connection: the authorizer could not be removed
  job,        \* per connection: the job it runs
  work,       \* the writes the writer's connection sees
  db,         \* the committed writes
  last,       \* how the last job ended
  ids, steps

kept == <<guard, trusted, open, attached, stuck>>
vars == <<inMemory, kept, job, work, db, last, ids, steps>>

\* A write: which job made it and when, whose code, and what it reached: the log,
\* a table of the caller's own, a setting, a TEMP object made under a reserved name
\* (a shadow), one that came by such a name unseen (an alias), or, of the crate's
\* writes, the TEMP object that then stands in the log's place (astray).
Token == [job : Nat, n : Nat, by : {"crate", "caller"},
          reached : {"log", "own", "setting", "shadow", "alias", "astray"}]

None == [op |-> "none", id |-> 0, pc |-> "idle", saved |-> <<>>, did |-> {},
         tag |-> "ok"]
NoAnswer == [op |-> "none", tag |-> "ok", did |-> {}]

Init ==
  /\ inMemory \in BOOLEAN
  /\ guard = [c \in Conns |-> FALSE] /\ trusted = [c \in Conns |-> FALSE]
  /\ open = [c \in Conns |-> FALSE] /\ attached = [c \in Conns |-> FALSE]
  /\ stuck = [c \in Conns |-> FALSE] /\ job = [c \in Conns |-> None]
  /\ work = {} /\ db = {}
  /\ last = NoAnswer
  /\ ids = 0 /\ steps = 0

At(c, pc) == job[c].pc = pc

Set(f, c, to) == [f EXCEPT ![c] = to]

\* What a write of the crate's may reach: an unqualified name is looked up among
\* the TEMP objects first, and the caller's may have the name it is after.
Reaches(writes) ==
  IF \E t \in writes : t.reached \in {"shadow", "alias"} THEN {"log", "astray"} ELSE {"log"}

-----------------------------------------------------------------------------
(* Jobs begin.                                                             *)

Takes(c) == At(c, "idle") /\ ids < MaxJobs /\ ids' = ids + 1

\* A stream handle's own append, all of it the crate's: BEGIN IMMEDIATE, the
\* inserts and COMMIT, on the connection as the jobs before have left it.
StoreWrite ==
  /\ Takes(Writer)
  /\ \/ /\ last' = [op |-> "write", tag |-> "error", did |-> {}]
        /\ UNCHANGED <<db, work>>
     \/ /\ ~open[Writer] /\ (guard[Writer] => trusted[Writer])
        /\ \E reached \in Reaches(db) :
             db' = db \cup {[job |-> ids + 1, n |-> steps, by |-> "crate", reached |-> reached]}
        /\ work' = db'
        /\ last' = [op |-> "write", tag |-> "ok", did |-> db' \ db]
  /\ UNCHANGED <<inMemory, kept, job, steps>>

\* The authorizer of a call, in the place of whatever was there.
Install(c, new, flag) ==
  /\ Takes(c)
  /\ guard' = Set(guard, c, TRUE)
  /\ trusted' = Set(trusted, c, flag)
  /\ job' = Set(job, c, [new EXCEPT !.id = ids + 1])
  /\ UNCHANGED <<inMemory, open, attached, stuck, work, db, last, steps>>

\* with_transaction
Transact == Install(Writer, [None EXCEPT !.op = "txn", !.pc = "begin"], FALSE)

\* in_transaction of a projection runner, which raises trust for its own work.
Fold == Install(Writer, [None EXCEPT !.op = "fold", !.pc = "begin", !.saved = <<FALSE>>], TRUE)

\* Where a query goes: a reader, or the writer when there are none.
QueryConns == IF inMemory THEN {Writer} ELSE Readers

Ask(c) ==
  /\ c \in QueryConns
  /\ Install(c, [None EXCEPT !.op = "query", !.pc = "query"], FALSE)

\* The authorizer could not be installed: the body is not run.
InstallFails(c) ==
  /\ Takes(c)
  /\ last' = [op |-> "refused", tag |-> "error", did |-> {}]
  /\ UNCHANGED <<inMemory, kept, job, work, db, steps>>

-----------------------------------------------------------------------------
(* The body: BEGIN IMMEDIATE, the caller's code, COMMIT.                   *)

\* The body is left with an error, and every trust guard puts back what it found.
Fails(c) ==
  /\ job' = Set(job, c, [job[c] EXCEPT !.pc = "leave", !.saved = <<>>, !.tag = "error"])
  /\ trusted' = Set(trusted, c, FALSE)
  /\ UNCHANGED <<inMemory, guard, attached, stuck, db, last, ids, steps>>

\* Its transaction, dropped, is rolled back if one is still open.
RollsBack(c) == Fails(c) /\ open' = Set(open, c, FALSE) /\ work' = db

\* A connection with a transaction open refuses another.
Begin(c) ==
  /\ At(c, "begin") /\ ~open[c]
  /\ open' = Set(open, c, TRUE)
  /\ job' = Set(job, c, [job[c] EXCEPT !.pc = IF job[c].op = "fold" THEN "runner" ELSE "caller"])
  /\ UNCHANGED <<inMemory, guard, trusted, attached, stuck, work, db, last, ids, steps>>

\* Faulty: the closure runs without its transaction.
BeginIgnored(c) ==
  /\ At(c, "begin")
  /\ job' = Set(job, c, [job[c] EXCEPT !.pc = IF job[c].op = "fold" THEN "runner" ELSE "caller"])
  /\ UNCHANGED <<inMemory, kept, work, db, last, ids, steps>>

\* Or somebody else holds the write lock.
BeginFails(c) == At(c, "begin") /\ Fails(c) /\ UNCHANGED <<open, work>>

\* A write of a job's: in the transaction, or committed at once without one.
Stores(c, by, reached) ==
  /\ work' = work \cup {[job |-> job[c].id, n |-> steps, by |-> by, reached |-> reached]}
  /\ db' = IF open[c] THEN db ELSE work'

\* A write of the crate's, in a job.
Wrote(c, pc, saved) ==
  /\ \E reached \in Reaches(work) : Stores(c, "crate", reached)
  /\ job' = Set(job, c, [job[c] EXCEPT !.pc = pc, !.saved = saved,
                                      !.did = @ \cup (work' \ work)])

\* What a statement of the caller's reaches, if it writes.  In main a reserved name
\* is taken, and a TEMP object of one of these names is what an unqualified
\* statement finds first.
Writes(st) ==
  IF st.verb = "PragmaSet" THEN {"setting"}
  ELSE IF st.verb = "AlterTable" /\ ~st.reserved /\ st.renames THEN {"alias"}
  ELSE IF st.verb = "CreateVtable" /\ st.reserved THEN {"alias"}
  ELSE IF st.verb \in CreatesInTemp /\ st.reserved THEN {"shadow"}
  ELSE IF st.verb \in CreatesInMain /\ st.reserved THEN {}
  ELSE IF st.verb \in Reshapes \cup OtherDrops /\ st.reserved THEN {"log"}
  ELSE IF st.verb \in Reshapes \cup CreatesInMain \cup CreatesInTemp \cup OtherDrops
                       \cup {"CreateVtable", "CreateIndex"}
       THEN {"own"}
  ELSE {}

\* What a statement does where it is let through: to what is written, to the
\* transaction, and to the files at hand.  The readers are opened read-only.
Does(c, st) ==
  \/ /\ c = Writer /\ \E reached \in Writes(st) : Stores(c, "caller", reached)
     /\ UNCHANGED <<open, attached>>
  \/ /\ st.verb \in {"Begin", "Savepoint"} /\ ~open[c]
     /\ open' = Set(open, c, TRUE)
     /\ UNCHANGED <<work, db, attached>>
  \/ /\ st.verb = "Commit" /\ open[c]
     /\ open' = Set(open, c, FALSE) /\ db' = IF c = Writer THEN work ELSE db
     /\ UNCHANGED <<work, attached>>
  \/ /\ st.verb = "Rollback" /\ open[c]
     /\ open' = Set(open, c, FALSE) /\ work' = IF c = Writer THEN db ELSE work
     /\ UNCHANGED <<db, attached>>
  \/ /\ st.verb = "RollbackTo" /\ open[c] /\ c = Writer
     /\ \E n \in 0..steps : work' = db \cup {t \in work : t.n < n}
     /\ UNCHANGED <<db, open, attached>>
  \/ /\ st.verb = "Attach" /\ attached' = Set(attached, c, TRUE)
     /\ UNCHANGED <<work, db, open>>
  \/ /\ st.verb \in {"Select", "PragmaRead", "PragmaDescribe"}
     /\ UNCHANGED <<work, db, open, attached>>

\* A statement of a closure or a callback that the authorizer lets through.  One
\* it refuses changes nothing, and the caller's code may go on or give up.
Run(c, st) ==
  /\ At(c, "caller") /\ Authorize(st, trusted[c])
  /\ steps < MaxSteps /\ steps' = steps + 1
  /\ Does(c, st)
  /\ job' = Set(job, c, [job[c] EXCEPT !.did = {t \in work' : t.job = job[c].id}])
  /\ UNCHANGED <<inMemory, guard, trusted, stuck, last, ids>>

\* An append of the transaction's context: trust is raised around its inserts.
Raise(c) ==
  /\ At(c, "caller") /\ job[c].op = "txn" /\ steps < MaxSteps
  /\ trusted' = Set(trusted, c, TRUE)
  /\ job' = Set(job, c, [job[c] EXCEPT !.pc = "crate", !.saved = <<trusted[c]>>])
  /\ UNCHANGED <<inMemory, guard, open, attached, stuck, work, db, last, ids, steps>>

\* Faulty: trust is lowered behind the inserts, where a failure never gets to.
InsertsThenLower(c) ==
  /\ At(c, "crate") /\ steps < MaxSteps /\ steps' = steps + 1
  /\ \/ Wrote(c, "caller", <<>>)
     \/ job' = Set(job, c, [job[c] EXCEPT !.pc = "caller", !.saved = <<>>])
          /\ UNCHANGED <<work, db>>
  /\ trusted' \in {Set(trusted, c, job[c].saved[1])} \cup {trusted}
  /\ UNCHANGED <<inMemory, guard, open, attached, stuck, last, ids>>

\* The inserts land, or they fail or panic: append_many and import_many then leave
\* the rows before the one that failed in the transaction, or none.  The closure
\* sees that it failed, and an error it swallows or an unwind it catches is not the
\* end of it.
Inserts(c) ==
  /\ At(c, "crate") /\ steps < MaxSteps /\ steps' = steps + 1
  /\ \/ Wrote(c, "caller", <<>>)
     \/ job' = Set(job, c, [job[c] EXCEPT !.pc = "caller", !.saved = <<>>])
          /\ UNCHANGED <<work, db>>
  /\ trusted' = Set(trusted, c, job[c].saved[1])
  /\ UNCHANGED <<inMemory, guard, open, attached, stuck, last, ids>>

\* RunnerTxn::callback: trust is lowered around the projection's code, and put
\* back when it returns.
Callback(c) ==
  /\ At(c, "runner")
  /\ steps < MaxSteps /\ steps' = steps + 1
  /\ trusted' = Set(trusted, c, FALSE)
  /\ job' = Set(job, c, [job[c] EXCEPT !.pc = "caller", !.saved = <<FALSE, trusted[c]>>])
  /\ UNCHANGED <<inMemory, guard, open, attached, stuck, work, db, last, ids>>

CallbackReturns(c) ==
  /\ At(c, "caller") /\ job[c].op = "fold"
  /\ trusted' = Set(trusted, c, job[c].saved[2])
  /\ job' = Set(job, c, [job[c] EXCEPT !.pc = "runner", !.saved = <<FALSE>>])
  /\ UNCHANGED <<inMemory, guard, open, attached, stuck, work, db, last, ids, steps>>

\* save_checkpoint, and on to the commit.
Save(c) ==
  /\ At(c, "runner")
  /\ Wrote(c, "commit", job[c].saved)
  /\ UNCHANGED <<inMemory, kept, last, ids, steps>>

\* The closure returns Ok.
Returns(c) ==
  /\ At(c, "caller") /\ job[c].op = "txn"
  /\ job' = Set(job, c, [job[c] EXCEPT !.pc = "commit"])
  /\ UNCHANGED <<inMemory, kept, work, db, last, ids, steps>>

Commit(c) ==
  /\ At(c, "commit") /\ open[c]
  /\ db' = work
  /\ open' = Set(open, c, FALSE)
  /\ trusted' = Set(trusted, c, FALSE)
  /\ job' = Set(job, c, [job[c] EXCEPT !.pc = "leave", !.saved = <<>>])
  /\ UNCHANGED <<inMemory, guard, attached, stuck, work, last, ids, steps>>

\* There is no transaction to commit, or the commit fails.
CommitFails(c) == At(c, "commit") /\ RollsBack(c)

\* The caller's code answers Err, or panics and the unwind is caught.
GivesUp(c) ==
  /\ At(c, "caller") \/ At(c, "runner")
  /\ RollsBack(c)

\* query_rows: the statement is run, or it never comes to that.
Answers(c, q) ==
  /\ At(c, "query")
  /\ \E tag \in {Answered(q), "error"} \cup Late(q) :
       /\ job' = Set(job, c, [job[c] EXCEPT !.pc = "leave", !.tag = tag])
       /\ \/ Runs(q) /\ tag # "error" /\ Does(c, q.st)
          \/ tag # "rows" /\ UNCHANGED <<work, db, open, attached>>
  /\ UNCHANGED <<inMemory, guard, trusted, stuck, last, ids, steps>>

\* Faulty: an error or an unwind passes the removal by.
RemoveOnSuccess(c) ==
  /\ At(c, "leave")
  /\ guard' = Set(guard, c, job[c].tag = "error")
  /\ trusted' = Set(trusted, c, FALSE)
  /\ last' = [op |-> job[c].op, tag |-> job[c].tag, did |-> job[c].did]
  /\ job' = Set(job, c, None)
  /\ UNCHANGED <<inMemory, open, attached, stuck, work, db, ids, steps>>

\* The authorizer comes off, whatever the body did, and the call has its answer.
Remove(c) ==
  /\ At(c, "leave")
  /\ guard' = Set(guard, c, FALSE)
  /\ trusted' = Set(trusted, c, FALSE)
  /\ stuck' = Set(stuck, c, FALSE)
  /\ last' = [op |-> job[c].op, tag |-> job[c].tag, did |-> job[c].did]
  /\ job' = Set(job, c, None)
  /\ UNCHANGED <<inMemory, open, attached, work, db, ids, steps>>

\* It does not come off: that is the answer, instead of the body's.
RemoveFails(c) ==
  /\ At(c, "leave")
  /\ trusted' = Set(trusted, c, FALSE)
  /\ stuck' = Set(stuck, c, TRUE)
  /\ last' = [op |-> job[c].op, tag |-> "stuck", did |-> job[c].did]
  /\ job' = Set(job, c, None)
  /\ UNCHANGED <<inMemory, guard, open, attached, work, db, ids, steps>>

-----------------------------------------------------------------------------
Body(c) ==
  \/ Begin(c) \/ BeginFails(c)
  \/ \E st \in Statements : Run(c, st)
  \/ Raise(c) \/ Inserts(c)
  \/ Callback(c) \/ CallbackReturns(c) \/ Save(c)
  \/ Returns(c) \/ Commit(c) \/ CommitFails(c) \/ GivesUp(c)

Next ==
  \/ StoreWrite \/ Transact \/ Fold
  \/ \E c \in Conns : \/ Ask(c) \/ InstallFails(c) \/ Body(c)
                      \/ \E q \in Queries : Answers(c, q)
                      \/ Remove(c) \/ RemoveFails(c)

Spec == Init /\ [][Next]_vars

-----------------------------------------------------------------------------
(* What must hold.                                                         *)

Job == [op : {"none", "txn", "fold", "query"}, id : 0..MaxJobs,
        pc : {"idle", "begin", "caller", "crate", "runner", "commit", "query", "leave"},
        saved : Seq(BOOLEAN), did : SUBSET Token,
        tag : {"ok", "error", "rows", "Unsupported", "Validation", "Timeout"}]

\* The shape of the state.  Trust and the values its guards will put back are
\* fixed by where the job is, and only the writer's connection writes.
TypeOK ==
  /\ inMemory \in BOOLEAN
  /\ guard \in [Conns -> BOOLEAN] /\ trusted \in [Conns -> BOOLEAN]
  /\ open \in [Conns -> BOOLEAN] /\ attached \in [Conns -> BOOLEAN]
  /\ stuck \in [Conns -> BOOLEAN] /\ job \in [Conns -> Job]
  /\ db \subseteq Token /\ work \subseteq Token
  /\ last.did \subseteq Token
  /\ ids \in 0..MaxJobs /\ steps \in 0..MaxSteps
  /\ \A c \in Conns :
       LET raised == At(c, "crate")
             \/ (job[c].op = "fold" /\ job[c].pc \in {"begin", "runner", "commit"})
           saved == CASE At(c, "crate") -> <<FALSE>>
                      [] job[c].op = "fold" /\ job[c].pc \in {"begin", "runner", "commit"} -> <<FALSE>>
                      [] job[c].op = "fold" /\ At(c, "caller") -> <<FALSE, TRUE>>
                      [] OTHER -> <<>>
       IN trusted[c] = raised /\ job[c].saved = saved

\* Whatever closures, callbacks and queries run, fail at, swallow or panic in, the
\* caller's own writes are to tables of its own and never to the log or a setting;
\* and the crate's writes land in the log as long as no TEMP object has come by one
\* of its names unseen: ALTER TABLE ... RENAME TO shows the old name only, and
\* CREATE VIRTUAL TABLE none that is looked at.  (What a trigger does that hangs on
\* such a table is the crate's statement's doing, and counts as the crate's.)
OnlyTheCrateWritesTheLog ==
  \A t \in work \cup db :
    /\ t.by = "caller" => t.reached \in {"own", "alias"}
    /\ t.by = "crate" => \/ t.reached = "log"
                         \/ \E a \in work \cup db : a.reached = "alias"

\* A job leaves its connection as it found it: no transaction, no raised trust, no
\* attached database, and no authorizer but one whose removal failed.  That is of
\* statements other than BEGIN and SAVEPOINT: query("BEGIN") is let through, and
\* leaves a transaction open on the connection.
NothingOutlivesAJob ==
  \A c \in Conns : At(c, "idle") =>
    ~open[c] /\ ~trusted[c] /\ ~attached[c] /\ (guard[c] => stuck[c])

\* What a closure or a fold wrote and did not itself take back, appends included, is
\* committed whole when the call answers Ok, and not at all when it answers an error
\* of its body.
AllOrNothing ==
  /\ last.tag = "ok" => last.did \subseteq db
  /\ last.tag = "error" => last.did \cap db = {}

\* The placeholders that would run as NULL, because nothing was given for them.
LeftNull(q) ==
  IF q.by = "name" THEN Cardinality(q.names \ q.given) + q.bare
  ELSE Cardinality(q.names) + q.bare - q.count

\* A query, whatever it answers and on whichever connection, the writer's included,
\* changes nothing that is written, opens no transaction and attaches nothing; and
\* one that answers rows ran with every placeholder bound, and a strict one gives
\* each cell a value that stands for that cell only.  Of statements other than
\* BEGIN and SAVEPOINT, as above.
QueriesOnlyRead ==
  [][\A c \in Conns, q \in Queries :
       At(c, "query") /\ Answers(c, q) =>
         /\ UNCHANGED <<work, db, open, attached>>
         /\ job'[c].tag = "rows" =>
              /\ LeftNull(q) = 0
              /\ ~q.lossy => \A i \in DOMAIN q.row : JsonRow(q)[i] = q.row[i]]_vars

=============================================================================
