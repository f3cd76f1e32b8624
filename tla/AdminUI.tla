------------------------------- MODULE AdminUI -------------------------------
(***************************************************************************)
(* The admin UI server of cmd/ui/ui.go: HTTP handlers running concurrently *)
(* on one SQLite file through the connection pool of database/sql.  Each   *)
(* handler that changes the database checks its form, takes a connection,  *)
(* opens a transaction (txWrap), executes its statements one by one and    *)
(* commits, or answers an error and rolls back.  Transactions begin        *)
(* deferred: the first statement takes SQLite's single write lock.         *)
(*                                                                         *)
(* Foreign keys are enforced per connection, and openDB turns enforcement  *)
(* on for one connection of the pool: connections opened later are bare.   *)
(***************************************************************************)
EXTENDS Schema, SequencesExt

CONSTANTS Seed,      \* the database file at the start
          Worker,    \* goroutines serving requests: how many run at a time
          Nobody,    \* no worker
          MaxIdle,   \* connections the pool keeps open while unused
          Handlers   \* names of the handlers that receive requests

ASSUME WorkerAssumption == Worker # {} /\ IsFiniteSet(Worker) /\ Nobody \notin Worker
ASSUME MaxIdleAssumption == MaxIdle \in Nat \ {0}
ASSUME SeedAssumption == Consistent(Seed)

VARIABLES
  db,      \* the committed contents of the file
  work,    \* what the transaction that holds the write lock has made of it
  writer,  \* the worker whose transaction holds the write lock, or Nobody
  tx,      \* per worker: the request it serves, or its last answer
  idle,    \* idle connections in the pool, enforcing (TRUE) and bare (FALSE)
  minted   \* UUIDs handed out so far: none is ever generated twice

vars == <<db, work, writer, tx, idle, minted>>

Ids == AclId \cup GroupId \cup SourceId \cup RuleId

\* There are finitely many UUIDs for a form to name.
ASSUME IdAssumption == IsFiniteSet(Ids)

\* newACLID is in the source: it is never generated, whether or not "new" is there.
SeedIds ==
  {NewAcl} \cup Seed.acls \cup Seed.groups \cup SourceIds(Seed) \cup RuleIds(Seed)

-----------------------------------------------------------------------------
(* Requests, as the pages send them: every id in a form is one the server   *)
(* generated at some time, but a page may be old and the row long gone.     *)
Request ==
       [op : {"ruleNew", "ruleEdit"}, rule : RuleId, content : Rule]
  \cup [op : {"ruleDelete"}, rules : SUBSET RuleId]
  \cup [op : {"aclNew", "aclDelete", "aclUpdate"}, acl : AclId]
  \cup [op : {"aclMove"}, rules : SUBSET RuleId, dst : AclId]
  \cup [op : {"groupNew", "groupDelete"}, group : GroupId]
  \cup [op : {"accessUpdate"}, group : GroupId, acls : SUBSET AclId]
  \cup [op : {"members"}, group : GroupId, sources : SUBSET SourceId, comments : Nat]
  \cup [op : {"membersNew"}, group : GroupId, source : SourceId, address : Address]
  \cup [op : {"sourceDelete"}, source : SourceId]

\* The statements of each handler's transaction, in order.
RuleNewTx(q) ==
  <<Insert("rules", <<q.rule, q.content>>), Insert("aclrules", <<NewAcl, q.rule>>)>>
\* Mutant: the edit sets the wrong column.
RuleEditTx_WrongColumn(q) ==
  <<Update("rules", {q.rule} \X Rule, 1, q.content)>>
RuleEditTx(q) ==
  <<Update("rules", {q.rule} \X Rule, 2, q.content)>>
\* Mutant: the entry of the rule in its ACL is left behind.
RuleDeleteTx_RulesOnly(q) == <<Delete("rules", q.rules \X Rule)>>
RuleDeleteTx(q) ==
  <<Delete("aclrules", AclId \X q.rules), Delete("rules", q.rules \X Rule)>>
AclNewTx(q) == <<InsertCommented("acls", q.acl)>>
AclDeleteTx(q) == <<Delete("acls", {q.acl})>>
\* Only the comment changes: the write lock is taken, no column here is written.
AclUpdateTx(q) == <<Delete("acls", {})>>
\* Mutant: only rules that are still in the ACL "new" are moved.
AclMoveTx_FromNew(q) == <<Update("aclrules", {NewAcl} \X q.rules, 1, q.dst)>>
AclMoveTx(q) == <<Update("aclrules", AclId \X q.rules, 1, q.dst)>>
GroupNewTx(q) == <<InsertCommented("groups", q.group)>>
GroupDeleteTx(q) == <<Delete("groups", {q.group})>>
\* Mutant: ACLs that are no longer checked stay granted.
AccessUpdateTx_AddOnly(q) ==
  SetToSeq({InsertCommented("groupaccess", <<q.group, a>>) : a \in q.acls})
AccessUpdateTx(q) ==
  <<Delete("groupaccess", {q.group} \X AclId)>>
  \o SetToSeq({InsertCommented("groupaccess", <<q.group, a>>) : a \in q.acls})
\* The inserts into members name its comment, and are never prepared.
MembersTx(q) ==
  <<Delete("members", SourceId \X {q.group})>>
  \o SetToSeq({InsertCommented("members", <<s, q.group>>) : s \in q.sources})
MembersNewTx(q) ==
  <<InsertCommented("sources", <<q.source, q.address>>),
    InsertCommented("members", <<q.source, q.group>>)>>
SourceDeleteTx(q) == <<Delete("sources", {q.source} \X Address)>>

Transaction(q) ==
  CASE q.op = "ruleNew"      -> RuleNewTx(q)
    [] q.op = "ruleEdit"     -> RuleEditTx(q)
    [] q.op = "ruleDelete"   -> RuleDeleteTx(q)
    [] q.op = "aclNew"       -> AclNewTx(q)
    [] q.op = "aclDelete"    -> AclDeleteTx(q)
    [] q.op = "aclUpdate"    -> AclUpdateTx(q)
    [] q.op = "aclMove"      -> AclMoveTx(q)
    [] q.op = "groupNew"     -> GroupNewTx(q)
    [] q.op = "groupDelete"  -> GroupDeleteTx(q)
    [] q.op = "accessUpdate" -> AccessUpdateTx(q)
    [] q.op = "members"      -> MembersTx(q)
    [] q.op = "membersNew"   -> MembersNewTx(q)
    [] q.op = "sourceDelete" -> SourceDeleteTx(q)

-----------------------------------------------------------------------------
(* Answers.  `rows' are the ids a message names, `count' the number it       *)
(* gives and `of' the table counted.                                         *)
Answer == [code : {200, 400, 409, 500}, rows : SUBSET Ids, count : Nat,
           of : {"", "members", "groupaccess", "aclrules"}]

Plain(code) == [code |-> code, rows |-> {}, count |-> 0, of |-> ""]
OK == Plain(200)
BadRequest == Plain(400)
InternalError == Plain(500)
Conflict(row) == [Plain(409) EXCEPT !.rows = {row}]
StillUsed(n, t) == [Plain(400) EXCEPT !.count = n, !.of = t]

Uses(d, t, col, id) == Cardinality({row \in d[t] : row[col] = id})

\* Mutant: any failure is put down to members.
GroupDeleteDiagnosis_MembersOnly(q, d) ==
  {InternalError, StillUsed(Uses(d, "members", 2, q.group), "members")}

\* Members are counted first, then grants.
GroupDeleteDiagnosis(q, d) ==
  LET members == Uses(d, "members", 2, q.group)
      accesses == Uses(d, "groupaccess", 1, q.group)
  IN  {InternalError,
       IF members > 0 THEN StillUsed(members, "members")
       ELSE IF accesses > 0 THEN StillUsed(accesses, "groupaccess")
       ELSE InternalError}

\* A rule or source that a new one is said to duplicate.
Duplicates(q, d) ==
  CASE q.op = "ruleNew" -> {row[1] : row \in {x \in d.rules : x[2].match = q.content.match}}
    [] q.op = "membersNew" -> {row[1] : row \in {x \in d.sources : x[2] = q.address}}

\* What a handler may answer when its statement number pc has failed, whatever
\* the failure: it asks the database, inside its transaction, for a reason.  When that
\* query fails in its turn, or finds nothing, it has none to give.
Diagnoses(q, pc, d) ==
  IF pc # 1 THEN {InternalError} ELSE
  CASE q.op \in {"ruleNew", "membersNew"} ->
         {InternalError} \cup {Conflict(id) : id \in Duplicates(q, d)}
    [] q.op = "aclDelete" ->
         {InternalError, StillUsed(Uses(d, "aclrules", 1, q.acl), "aclrules")}
    [] q.op = "sourceDelete" ->
         {InternalError, StillUsed(Uses(d, "members", 1, q.source), "members")}
    [] q.op = "groupDelete" -> GroupDeleteDiagnosis(q, d)
    [] OTHER -> {InternalError}

-----------------------------------------------------------------------------
(* The connection pool.  Each request that reaches db.Begin has one          *)
(* connection until its transaction ends.                                    *)
\* Mutant: no PRAGMA foreign_keys.
Fresh_NoPragma == [k \in BOOLEAN |-> IF k THEN 0 ELSE 1]
Fresh == [k \in BOOLEAN |-> IF k THEN 1 ELSE 0]

\* An idle connection if there is one; a new one, which is bare, only if not.
TakeConn(fk) ==
  IF idle[TRUE] + idle[FALSE] = 0
    THEN fk = FALSE /\ UNCHANGED idle
    ELSE idle[fk] > 0 /\ idle' = [idle EXCEPT ![fk] = @ - 1]

\* A returned connection is closed when MaxIdle are idle already.
PutConn(fk) ==
  idle' = IF idle[TRUE] + idle[FALSE] < MaxIdle
            THEN [idle EXCEPT ![fk] = @ + 1] ELSE idle

-----------------------------------------------------------------------------
NoRequest == [status |-> "none"]
Open(q, fk) == [status |-> "open", req |-> q, pc |-> 1, fk |-> fk]
Answered(a) == [status |-> "answered", answer |-> a]

Reading(fk) == [status |-> "reading", fk |-> fk]
Serving(w) == tx[w].status \in {"open", "timedOut", "reading"}
Prog(w) == Transaction(tx[w].req)
Stmt(w) == Prog(w)[tx[w].pc]
InProgram(w) == tx[w].status = "open" /\ tx[w].pc <= Len(Prog(w))
AtEnd(w) == tx[w].status = "open" /\ tx[w].pc > Len(Prog(w))

Init ==
  /\ db = Seed
  /\ work = Seed
  /\ writer = Nobody
  /\ tx = [w \in Worker |-> NoRequest]
  /\ idle = Fresh
  /\ minted = SeedIds

\* The form passes the handler's checks: db.Begin.
Begin(w, q) ==
  /\ q.op \in Handlers
  /\ ~Serving(w)
  /\ \E fk \in BOOLEAN :
       TakeConn(fk) /\ tx' = [tx EXCEPT ![w] = Open(q, fk)]
  /\ UNCHANGED <<db, work, writer>>

Mint(id) == id \notin minted /\ minted' = minted \cup {id}

\* The row a request creates, whose id no page shows before it is committed.
Creates(q) ==
  CASE q.op = "ruleNew" -> {q.rule}
    [] q.op = "aclNew" -> {q.acl}
    [] q.op = "groupNew" -> {q.group}
    [] q.op = "membersNew" -> {q.source}
    [] OTHER -> {}
Pending == UNION {Creates(tx[w].req) : w \in {v \in Worker : tx[v].status \in {"open", "timedOut"}}}

\* Ids a page may have shown.
Shown(ids) == ids \subseteq minted \ Pending
Known(ids) == Shown(ids) /\ UNCHANGED minted

RuleNew(w) == \E r \in RuleId, c \in Rule :
  Mint(r) /\ Begin(w, [op |-> "ruleNew", rule |-> r, content |-> c])
RuleEdit(w) == \E r \in RuleId, c \in Rule :
  Known({r}) /\ Begin(w, [op |-> "ruleEdit", rule |-> r, content |-> c])
RuleDelete(w) == \E rs \in SUBSET RuleId :
  Known(rs) /\ Begin(w, [op |-> "ruleDelete", rules |-> rs])
AclNew(w) == \E a \in AclId :
  Mint(a) /\ Begin(w, [op |-> "aclNew", acl |-> a])
AclDelete(w) == \E a \in AclId :
  Known({a}) /\ Begin(w, [op |-> "aclDelete", acl |-> a])
AclUpdate(w) == \E a \in AclId :
  Known({a}) /\ Begin(w, [op |-> "aclUpdate", acl |-> a])
AclMove(w) == \E rs \in SUBSET RuleId, a \in AclId :
  Known(rs \cup {a}) /\ Begin(w, [op |-> "aclMove", rules |-> rs, dst |-> a])
GroupNew(w) == \E g \in GroupId :
  Mint(g) /\ Begin(w, [op |-> "groupNew", group |-> g])
GroupDelete(w) == \E g \in GroupId :
  Known({g}) /\ Begin(w, [op |-> "groupDelete", group |-> g])
AccessUpdate(w) == \E g \in GroupId, as \in SUBSET AclId :
  Known({g} \cup as) /\ Begin(w, [op |-> "accessUpdate", group |-> g, acls |-> as])
\* Unlike accessUpdateHandler this one does not compare the lengths of the two
\* lists of its form.
MembersMembers(w) == \E g \in GroupId, ss \in SUBSET SourceId :
  \E n \in {0, Cardinality(ss)} :
    /\ Known({g} \cup ss)
    /\ Begin(w, [op |-> "members", group |-> g, sources |-> ss, comments |-> n])
MembersNew(w) == \E g \in GroupId, s \in SourceId, addr \in Address :
  /\ Mint(s) /\ Shown({g})
  /\ Begin(w, [op |-> "membersNew", group |-> g, source |-> s, address |-> addr])
SourceDelete(w) == \E s \in SourceId :
  Known({s}) /\ Begin(w, [op |-> "sourceDelete", source |-> s])

\* A form the handler refuses before it opens a transaction: a missing
\* parameter, an empty name, a string that is no UUID, lists of two lengths.
Reject(w) ==
  /\ ~Serving(w)
  /\ \E a \in {BadRequest, InternalError} : tx' = [tx EXCEPT ![w] = Answered(a)]
  /\ UNCHANGED <<db, work, writer, idle, minted>>

\* A page (the GET handlers): each of its queries has a connection for a while,
\* outside any transaction.
ReadPage(w) ==
  /\ "page" \in Handlers
  /\ ~Serving(w)
  /\ \E fk \in BOOLEAN : TakeConn(fk) /\ tx' = [tx EXCEPT ![w] = Reading(fk)]
  /\ UNCHANGED <<db, work, writer, minted>>

Arrive(w) ==
  \/ RuleNew(w) \/ RuleEdit(w) \/ RuleDelete(w)
  \/ AclNew(w) \/ AclDelete(w) \/ AclUpdate(w) \/ AclMove(w)
  \/ GroupNew(w) \/ GroupDelete(w) \/ AccessUpdate(w)
  \/ MembersMembers(w) \/ MembersNew(w) \/ SourceDelete(w)
  \/ Reject(w) \/ ReadPage(w)

-----------------------------------------------------------------------------
CanWrite(w) == writer \in {Nobody, w}

\* comments[n] of membersmembersHandler: the insert of the n-th source panics
\* when the form has fewer comments than that.
Panics(w) ==
  /\ InProgram(w)
  /\ tx[w].req.op = "members"
  /\ tx[w].pc > tx[w].req.comments + 1

\* Mutant: db.Exec where it should be tx.Exec: each statement commits itself.
Exec_Autocommit(w) ==
  /\ InProgram(w) /\ CanWrite(w) /\ ~Panics(w)
  /\ Accepted(work, Stmt(w), tx[w].fk)
  /\ writer' = w
  /\ work' = After(work, Stmt(w))
  /\ db' = work'
  /\ tx' = [tx EXCEPT ![w].pc = @ + 1]
  /\ UNCHANGED <<idle, minted>>

\* A statement: the first takes the write lock, and sees what was committed.
Exec(w) ==
  /\ InProgram(w) /\ CanWrite(w) /\ ~Panics(w)
  /\ Accepted(work, Stmt(w), tx[w].fk)
  /\ writer' = w
  /\ work' = After(work, Stmt(w))
  /\ tx' = [tx EXCEPT ![w].pc = @ + 1]
  /\ UNCHANGED <<db, idle, minted>>

\* Mutant: what was written stays behind for the next transaction.
Rollback_KeepWork(w, a) ==
  /\ tx' = [tx EXCEPT ![w] = a]
  /\ writer' = IF writer = w THEN Nobody ELSE writer
  /\ PutConn(tx[w].fk)
  /\ UNCHANGED <<db, work, minted>>

\* The handler returns an error or panics, and the deferred Rollback of txWrap
\* gives up the transaction, the lock if it has it, and the connection.
Rollback(w, a) ==
  /\ tx' = [tx EXCEPT ![w] = a]
  /\ writer' = IF writer = w THEN Nobody ELSE writer
  /\ work' = IF writer = w THEN db ELSE work
  /\ PutConn(tx[w].fk)
  /\ UNCHANGED <<db, minted>>

\* Mutant: txWrap commits whatever the function it calls returns.
Refuse_Commit(w) ==
  /\ InProgram(w) /\ CanWrite(w) /\ ~Panics(w)
  /\ ~Accepted(work, Stmt(w), tx[w].fk)
  /\ \E a \in Diagnoses(tx[w].req, tx[w].pc, work) : tx' = [tx EXCEPT ![w] = Answered(a)]
  /\ db' = work
  /\ writer' = Nobody
  /\ PutConn(tx[w].fk)
  /\ UNCHANGED <<work, minted>>

\* A statement that a constraint stops: the handler looks for the reason.
Refuse(w) ==
  /\ InProgram(w) /\ CanWrite(w) /\ ~Panics(w)
  /\ ~Accepted(work, Stmt(w), tx[w].fk)
  /\ \E a \in Diagnoses(tx[w].req, tx[w].pc, work) : Rollback(w, Answered(a))

\* Mutant: the driver waits for the lock for as long as it takes.
LockTimeout_Never(w) == FALSE

\* The lock stays taken for the five seconds the driver waits: SQLITE_BUSY.
LockTimeout(w) ==
  /\ InProgram(w) /\ ~CanWrite(w)
  /\ tx' = [tx EXCEPT ![w].status = "timedOut"]
  /\ UNCHANGED <<db, work, writer, idle, minted>>

\* The handler takes that failure for a constraint's and looks for the reason
\* in whatever is committed by then.
Diagnose(w) ==
  /\ tx[w].status = "timedOut"
  /\ \E a \in Diagnoses(tx[w].req, tx[w].pc, db) : Rollback(w, Answered(a))

\* Mutant: no deferred Rollback, so a panic keeps transaction, lock and connection.
Panic_NoRollback(w) ==
  /\ Panics(w)
  /\ tx' = [tx EXCEPT ![w] = NoRequest]
  /\ UNCHANGED <<db, work, writer, idle, minted>>

\* No answer: net/http drops the connection of a handler that panics.
Panic(w) == Panics(w) /\ Rollback(w, NoRequest)

\* rows.Close gives the connection of a page's query back.
PageRead(w) == tx[w].status = "reading" /\ Rollback(w, NoRequest)

Commit(w) ==
  /\ AtEnd(w)
  /\ db' = work
  /\ writer' = Nobody
  /\ tx' = [tx EXCEPT ![w] = Answered(OK)]
  /\ PutConn(tx[w].fk)
  /\ UNCHANGED <<work, minted>>

\* Readers, such as the helpers, keep the commit waiting for too long.
CommitBusy(w) ==
  /\ AtEnd(w)
  /\ Rollback(w, Answered(InternalError))

\* Mutant: no journal: what a transaction wrote before the crash stays.
Crash_NoJournal ==
  /\ db' = work
  /\ tx' = [w \in Worker |-> NoRequest]
  /\ writer' = Nobody
  /\ idle' = Fresh
  /\ UNCHANGED <<work, minted>>

\* The server dies and is started again: SQLite's journal undoes what was not
\* committed, and openDB turns enforcement on in the first connection.
Crash ==
  /\ tx' = [w \in Worker |-> NoRequest]
  /\ writer' = Nobody
  /\ work' = db
  /\ idle' = Fresh
  /\ UNCHANGED <<db, minted>>

Serve(w) == Exec(w) \/ Refuse(w) \/ LockTimeout(w) \/ Diagnose(w) \/ Panic(w) \/ PageRead(w) \/ Commit(w)

Next ==
  \/ \E w \in Worker : Arrive(w) \/ Serve(w) \/ CommitBusy(w)
  \/ Crash

Spec == Init /\ [][Next]_vars

\* Every goroutine is scheduled, and the driver's wait for the lock is bounded.
\* Nothing makes requests arrive, readers keep a commit waiting, or the server
\* die.
FairSpec == Spec /\ \A w \in Worker : WF_vars(Serve(w))

-----------------------------------------------------------------------------
(* Properties.                                                               *)

Opened == [status : {"open", "timedOut"}, req : Request, pc : Nat \ {0}, fk : BOOLEAN]
TypeOK ==
  /\ db \in DB /\ work \in DB
  /\ writer \in Worker \cup {Nobody}
  /\ \A w \in Worker :
       \/ tx[w] = NoRequest
       \/ tx[w] \in {Reading(fk) : fk \in BOOLEAN}
       \/ tx[w].status \in {"open", "timedOut"} /\ tx[w] \in Opened
       \/ tx[w].status = "answered" /\ tx[w].answer \in Answer
  /\ idle \in [BOOLEAN -> 0 .. MaxIdle]
  /\ minted \subseteq Ids

\* The handlers, statement by statement with their failures, refusals, panics
\* and the server's crashes, do to the database only what AdminStore promises:
\* each request as a whole or not at all.  Foreign keys are not part of the promise,
\* since the connection a transaction gets may not enforce them.
Store == INSTANCE AdminStore WITH FkModes <- BOOLEAN
Atomic == Store!Spec

\* Every rule that is committed is in exactly one ACL, though ruleNewHandler,
\* ruleDeleteHandler and aclMoveHandler write rules and aclrules apart and some
\* connections do not enforce the references between the two.
OneAclPerRule == Store!OneAclPerRule

\* No row names a row that is gone: what the FOREIGN KEY clauses of the schema
\* ask for.
References == NoDangling(db)

\* A reference that dangles was made so by a transaction on a bare connection,
\* and by nothing else: no crash, rollback or enforcing connection leaves one.
DanglingFromBare ==
  [][Dangling(db') \subseteq Dangling(db)
     \/ \E w \in Worker : Serving(w) /\ ~tx[w].fk /\ tx'[w] = Answered(OK)]_vars

\* The write lock is held by a request still being served, and while nobody
\* holds it nothing uncommitted is left over for the next transaction to see.
LockHasOwner ==
  /\ writer # Nobody => tx[writer].status = "open" /\ tx[writer].pc > 1
  /\ writer = Nobody => work = db

Answers(w, a) == Serving(w) /\ tx'[w] = Answered(a)

\* What an OK tells the page (main.js and members.js reload on it): the database
\* is as the form said, whatever other requests ran meanwhile.
Done(q, d) ==
  CASE q.op = "ruleNew" -> <<q.rule, q.content>> \in d.rules /\ <<NewAcl, q.rule>> \in d.aclrules
    [] q.op = "ruleEdit" -> \A row \in d.rules : row[1] = q.rule => row[2] = q.content
    [] q.op = "ruleDelete" -> /\ RuleIds(d) \cap q.rules = {}
                              /\ \A ar \in d.aclrules : ar[2] \notin q.rules
    [] q.op = "aclMove" -> \A r \in q.rules \cap RuleIds(d) :
                             {ar[1] : ar \in {x \in d.aclrules : x[2] = r}} = {q.dst}
    [] q.op = "aclNew" -> q.acl \in d.acls
    [] q.op = "aclDelete" -> q.acl \notin d.acls
    [] q.op = "groupNew" -> q.group \in d.groups
    [] q.op = "groupDelete" -> q.group \notin d.groups
    [] q.op = "accessUpdate" ->
         {ga[2] : ga \in {x \in d.groupaccess : x[1] = q.group}} = q.acls
    [] q.op = "members" -> {m[1] : m \in {x \in d.members : x[2] = q.group}} = q.sources
    [] q.op = "membersNew" -> /\ <<q.source, q.address>> \in d.sources
                              /\ <<q.source, q.group>> \in d.members
    [] q.op = "sourceDelete" -> q.source \notin SourceIds(d)
    [] OTHER -> TRUE
OkMeansDone ==
  [][\A w \in Worker : Answers(w, OK) => Done(tx[w].req, db')]_vars

Refuses(w) == tx[w].status = "open" /\ InProgram(w) /\ tx'[w].status = "answered"

Blames(w) == Refuses(w) /\ tx'[w].answer.of # ""

\* A delete that a constraint refused says what still uses the row and how often
\* ("acl still has %d rules"): never that nothing does.
RefusalCounts == [][\A w \in Worker : Blames(w) => tx'[w].answer.count > 0]_vars

\* A delete that a constraint refused says what still uses the row and how often
\* ("group still used by %d sources", "source still used by %d groups"): what it names is
\* there.  Only aclDeleteHandler, which does not look at groupaccess, may say that
\* nothing is, and then a group has been granted the ACL.
RefusalExplained ==
  [][\A w \in Worker : Blames(w) =>
       \/ tx'[w].answer.count > 0
       \/ /\ tx[w].req.op = "aclDelete"
          /\ \E ga \in db.groupaccess : ga[2] = tx[w].req.acl]_vars

\* Every request is answered, or its connection dropped: no form of it and no
\* other request makes its handler wait for ever.
Served == \A w \in Worker : Serving(w) ~> ~Serving(w)

\* The write lock is given back: whatever becomes of the request that has it
\* (error, panic, refusal), the others do not time out for ever.
LockFreed == \A w \in Worker : writer = w ~> writer # w
=============================================================================
