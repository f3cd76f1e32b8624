---------------------------- MODULE AdminUIProofs ----------------------------
(***************************************************************************)
(* The transactions of the admin UI and SQLite's write lock, for any       *)
(* number of goroutines, requests and rows: proofs that TLAPS checks.      *)
(***************************************************************************)
EXTENDS AdminUI, FiniteSetTheorems, TLAPS

-----------------------------------------------------------------------------
(* Every transaction has a statement.                                        *)

LEMMA SequenceOfSet ==
  ASSUME NEW S, IsFiniteSet(S)
  PROVE  SetToSeq(S) \in Seq(S)
<1> DEFINE n == Cardinality(S)
<1>1. n \in Nat /\ \E f \in [1 .. n -> S] : IsInjective(f)
  BY FS_CardinalityType DEF ExistsBijection, Bijection, Injection
<1>2. SetToSeq(S) \in [1 .. n -> S]
  BY <1>1 DEF SetToSeq
<1> QED BY <1>1, <1>2

\* The image of a finite set.
LEMMA FinitelyManyInserts ==
  ASSUME NEW S, IsFiniteSet(S), NEW f, f = [x \in S |-> f[x]]
  PROVE  IsFiniteSet({f[x] : x \in S})
<1>1. f \in Surjection(S, {f[x] : x \in S})
  BY DEF Surjection
<1> QED BY <1>1, FS_Surjection

LEMMA HasStatements ==
  ASSUME NEW q \in Request
  PROVE  Len(Transaction(q)) \in Nat \ {0}
<1> USE DEF Transaction
<1>1. q.op \in {"ruleNew", "ruleEdit", "ruleDelete", "aclNew", "aclDelete", "aclUpdate",
                "aclMove", "groupNew", "groupDelete", "accessUpdate", "members",
                "membersNew", "sourceDelete"}
  BY DEF Request
<1>2. CASE q.op = "accessUpdate"
  <2> DEFINE f == [a \in q.acls |-> InsertCommented("groupaccess", <<q.group, a>>)]
             S == {InsertCommented("groupaccess", <<q.group, a>>) : a \in q.acls}
  <2>1. IsFiniteSet(q.acls)
    BY <1>2, IdAssumption, FS_Subset DEF Request, Ids
  <2>2. {f[a] : a \in q.acls} = S /\ f = [a \in q.acls |-> f[a]]
    OBVIOUS
  <2>3. IsFiniteSet(S)
    <3> HIDE DEF f, S
    <3> QED BY <2>1, <2>2, FinitelyManyInserts
  <2>4. SetToSeq(S) \in Seq(S)
    BY <2>3, SequenceOfSet
  <2>5. Transaction(q) = <<Delete("groupaccess", {q.group} \X AclId)>> \o SetToSeq(S)
    BY <1>2 DEF AccessUpdateTx
  <2> HIDE DEF S, Transaction
  <2> QED BY <2>4, <2>5
<1>3. CASE q.op = "members"
  <2> DEFINE f == [s \in q.sources |-> InsertCommented("members", <<s, q.group>>)]
             S == {InsertCommented("members", <<s, q.group>>) : s \in q.sources}
  <2>1. IsFiniteSet(q.sources)
    BY <1>3, IdAssumption, FS_Subset DEF Request, Ids
  <2>2. {f[s] : s \in q.sources} = S /\ f = [s \in q.sources |-> f[s]]
    OBVIOUS
  <2>3. IsFiniteSet(S)
    <3> HIDE DEF f, S
    <3> QED BY <2>1, <2>2, FinitelyManyInserts
  <2>4. SetToSeq(S) \in Seq(S)
    BY <2>3, SequenceOfSet
  <2>5. Transaction(q) = <<Delete("members", SourceId \X {q.group})>> \o SetToSeq(S)
    BY <1>3 DEF MembersTx
  <2> HIDE DEF S, Transaction
  <2> QED BY <2>4, <2>5
<1>4. CASE q.op \notin {"accessUpdate", "members"}
  BY <1>1, <1>4
     DEF RuleNewTx, RuleEditTx, RuleDeleteTx, AclNewTx, AclDeleteTx, AclUpdateTx,
         AclMoveTx, GroupNewTx, GroupDeleteTx, MembersNewTx, SourceDeleteTx
<1> QED BY <1>2, <1>3, <1>4

-----------------------------------------------------------------------------
(* The write lock.                                                           *)

TxTypes ==
  /\ tx = [w \in Worker |-> tx[w]]
  /\ \A w \in Worker : tx[w].status \in {"open", "timedOut"} => tx[w] \in Opened
  /\ writer \in Worker \cup {Nobody}

\* Who has executed a statement has the lock, and has had it since.
OwnLock ==
  /\ \A w \in Worker : tx[w].status = "open" => (tx[w].pc > 1 <=> writer = w)
  /\ \A w \in Worker : writer = w => tx[w].status = "open"
  /\ writer = Nobody => work = db

\* A transaction on an enforcing connection adds no reference that dangles.
OwnReferences ==
  \A w \in Worker : writer = w /\ tx[w].fk => Dangling(work) \subseteq Dangling(db)

LockInv == TxTypes /\ OwnLock /\ OwnReferences

\* A step that gives one worker another state, and leaves lock and database alone.
LEMMA TxReplaced ==
  ASSUME LockInv, NEW w \in Worker, NEW t, tx' = [tx EXCEPT ![w] = t],
         UNCHANGED <<db, work, writer>>, writer # w,
         t.status \in {"open", "timedOut"} => t \in Opened,
         t.status = "open" => ~(t.pc > 1)
  PROVE  LockInv'
<1> USE DEF LockInv, TxTypes
<1>1. tx'[w] = t /\ \A v \in Worker : v # w => tx'[v] = tx[v]
  OBVIOUS
<1>2. TxTypes'
  BY <1>1
<1>3. OwnLock' /\ OwnReferences'
  BY <1>1 DEF OwnLock, OwnReferences
<1> QED BY <1>2, <1>3

\* A request that begins, whichever it is.
LEMMA BeginKeeps ==
  ASSUME LockInv, NEW w \in Worker, NEW q \in Request, Begin(w, q)
  PROVE  LockInv'
<1>1. PICK fk \in BOOLEAN : tx' = [tx EXCEPT ![w] = Open(q, fk)]
  BY DEF Begin
<1>2. Open(q, fk) \in Opened /\ Open(q, fk).status = "open" /\ ~(Open(q, fk).pc > 1)
  BY DEF Open, Opened
<1>3. writer # w /\ UNCHANGED <<db, work, writer>>
  BY DEF Begin, Serving, LockInv, OwnLock
<1> QED BY <1>1, <1>2, <1>3, TxReplaced

LEMMA ArriveKeeps ==
  ASSUME LockInv, NEW w \in Worker, Arrive(w)
  PROVE  LockInv'
<1>1. CASE \E q \in Request : Begin(w, q)
  BY <1>1, BeginKeeps
<1>2. CASE Reject(w)
  <2>1. PICK a \in {BadRequest, InternalError} : tx' = [tx EXCEPT ![w] = Answered(a)]
    BY <1>2 DEF Reject
  <2>2. writer # w /\ UNCHANGED <<db, work, writer>>
    BY <1>2 DEF Reject, Serving, LockInv, OwnLock
  <2>3. Answered(a).status = "answered"
    BY DEF Answered
  <2> QED BY <2>1, <2>2, <2>3, TxReplaced
<1>3. CASE ReadPage(w)
  <2>1. PICK fk \in BOOLEAN : tx' = [tx EXCEPT ![w] = Reading(fk)]
    BY <1>3 DEF ReadPage
  <2>2. writer # w /\ UNCHANGED <<db, work, writer>>
    BY <1>3 DEF ReadPage, Serving, LockInv, OwnLock
  <2>3. Reading(fk).status = "reading"
    BY DEF Reading
  <2> QED BY <2>1, <2>2, <2>3, TxReplaced
<1>4. CASE RuleNew(w) \/ RuleEdit(w) \/ RuleDelete(w)
  <2>1. \E q \in Request : Begin(w, q)
    BY <1>4 DEF RuleNew, RuleEdit, RuleDelete, Request
  <2> QED BY <1>1, <2>1
<1>5. CASE AclNew(w) \/ AclDelete(w) \/ AclUpdate(w) \/ AclMove(w)
  <2>1. \E q \in Request : Begin(w, q)
    BY <1>5 DEF AclNew, AclDelete, AclUpdate, AclMove, Request
  <2> QED BY <1>1, <2>1
<1>6. CASE GroupNew(w) \/ GroupDelete(w) \/ AccessUpdate(w)
  <2>1. \E q \in Request : Begin(w, q)
    BY <1>6 DEF GroupNew, GroupDelete, AccessUpdate, Request
  <2> QED BY <1>1, <2>1
<1>7. CASE MembersNew(w) \/ SourceDelete(w)
  <2>1. \E q \in Request : Begin(w, q)
    BY <1>7 DEF MembersNew, SourceDelete, Request
  <2> QED BY <1>1, <2>1
<1>8. CASE MembersMembers(w)
  <2>1. \E q \in Request : Begin(w, q)
    <3>0. PICK g \in GroupId, ss \in SUBSET SourceId : \E n \in {0, Cardinality(ss)} :
            Begin(w, [op |-> "members", group |-> g, sources |-> ss, comments |-> n])
      BY <1>8 DEF MembersMembers
    <3>1. PICK n \in {0, Cardinality(ss)} :
            Begin(w, [op |-> "members", group |-> g, sources |-> ss, comments |-> n])
      BY <3>0
    <3>2. n \in Nat
      BY IdAssumption, FS_Subset, FS_CardinalityType DEF Ids
    <3> QED BY <3>1, <3>2 DEF Request
  <2> QED BY <1>1, <2>1
<1> QED BY <1>2, <1>3, <1>4, <1>5, <1>6, <1>7, <1>8 DEF Arrive

\* A rollback, with the lock or without it.
LEMMA RollbackKeeps ==
  ASSUME LockInv, NEW w \in Worker, NEW t, t.status \in {"none", "answered"},
         Rollback(w, t)
  PROVE  LockInv'
<1> USE WorkerAssumption DEF LockInv, TxTypes
<1>1. tx'[w] = t /\ tx' = [v \in Worker |-> tx'[v]]
      /\ \A v \in Worker : v # w => tx'[v] = tx[v]
  BY DEF Rollback
<1>2. TxTypes'
  BY <1>1 DEF Rollback
<1>3. OwnLock'
  BY <1>1 DEF Rollback, OwnLock
<1>4. OwnReferences'
  BY <1>1 DEF Rollback, OwnReferences
<1> QED BY <1>2, <1>3, <1>4

LEMMA ExecKeeps ==
  ASSUME LockInv, NEW w \in Worker, Exec(w)
  PROVE  LockInv'
<1> USE WorkerAssumption DEF LockInv, TxTypes
<1>1. /\ tx[w] \in Opened /\ tx[w].status = "open" /\ CanWrite(w)
      /\ writer' = w /\ db' = db /\ work' = After(work, Stmt(w))
      /\ tx' = [tx EXCEPT ![w] = [tx[w] EXCEPT !.pc = tx[w].pc + 1]]
  BY DEF Exec, InProgram
<1>2. /\ tx'[w] \in Opened /\ tx'[w].status = "open" /\ tx'[w].pc > 1
      /\ tx'[w].fk = tx[w].fk
      /\ \A v \in Worker : v # w => tx'[v] = tx[v]
      /\ tx' = [v \in Worker |-> tx'[v]]
  BY <1>1 DEF Opened
<1>3. TxTypes'
  BY <1>1, <1>2
<1>4. OwnLock'
  BY <1>1, <1>2 DEF OwnLock, CanWrite
<1>5. OwnReferences'
  <2> SUFFICES ASSUME tx[w].fk PROVE Dangling(work') \subseteq Dangling(db)
    BY <1>1, <1>2 DEF OwnReferences, Dangling
  <2>1. Dangling(work') \subseteq Dangling(work)
    BY <1>1 DEF Exec, Accepted
  <2>2. Dangling(work) \subseteq Dangling(db)
    BY <1>1 DEF CanWrite, OwnLock, OwnReferences
  <2> QED BY <2>1, <2>2
<1> QED BY <1>3, <1>4, <1>5

\* The transaction that commits has the lock: it is its own work that it commits.
LEMMA OwnCommit ==
  ASSUME LockInv, NEW w \in Worker, AtEnd(w)
  PROVE  writer = w
<1>1. tx[w].status = "open" /\ tx[w] \in Opened /\ tx[w].pc > Len(Transaction(tx[w].req))
  BY DEF AtEnd, Prog, LockInv, TxTypes
<1>2. tx[w].req \in Request /\ tx[w].pc \in Nat
  BY <1>1 DEF Opened
<1>3. tx[w].pc > 1
  BY <1>1, <1>2, HasStatements
<1> QED BY <1>1, <1>3 DEF LockInv, OwnLock

LEMMA CommitKeeps ==
  ASSUME LockInv, NEW w \in Worker, Commit(w)
  PROVE  LockInv'
<1> USE WorkerAssumption DEF LockInv, TxTypes
<1>1. writer = w
  BY OwnCommit DEF Commit
<1>2. /\ tx'[w] = Answered(OK) /\ tx' = [v \in Worker |-> tx'[v]]
      /\ \A v \in Worker : v # w => tx'[v] = tx[v]
      /\ writer' = Nobody /\ db' = work /\ work' = work
  BY DEF Commit
<1>3. Answered(OK).status = "answered"
  BY DEF Answered
<1>4. TxTypes'
  BY <1>2, <1>3
<1>5. OwnLock' /\ OwnReferences'
  BY <1>1, <1>2, <1>3 DEF OwnLock, OwnReferences
<1> QED BY <1>4, <1>5

LEMMA LockInvKept == ASSUME LockInv, [Next]_vars PROVE LockInv'
<1>1. ASSUME NEW w \in Worker, Arrive(w) PROVE LockInv'
  BY <1>1, ArriveKeeps
<1>2. ASSUME NEW w \in Worker, Serve(w) PROVE LockInv'
  <2>1. CASE Exec(w)
    BY <2>1, ExecKeeps
  <2>2. CASE Refuse(w)
    BY <2>2, RollbackKeeps DEF Refuse, Answered
  <2>3. CASE LockTimeout(w)
    <3> DEFINE t == [tx[w] EXCEPT !.status = "timedOut"]
    <3>1. tx[w] \in Opened /\ writer # w
      BY <2>3 DEF LockTimeout, InProgram, CanWrite, LockInv, TxTypes
    <3>2. t \in Opened /\ t.status = "timedOut"
      BY <3>1 DEF Opened
    <3>3. tx' = [tx EXCEPT ![w] = t] /\ UNCHANGED <<db, work, writer>>
      BY <2>3 DEF LockTimeout
    <3> HIDE DEF t
    <3> QED BY <3>1, <3>2, <3>3, TxReplaced
  <2>4. CASE Diagnose(w)
    BY <2>4, RollbackKeeps DEF Diagnose, Answered
  <2>5. CASE Panic(w) \/ PageRead(w)
    BY <2>5, RollbackKeeps DEF Panic, PageRead, NoRequest
  <2>6. CASE Commit(w)
    BY <2>6, CommitKeeps
  <2> QED BY <1>2, <2>1, <2>2, <2>3, <2>4, <2>5, <2>6 DEF Serve
<1>3. ASSUME NEW w \in Worker, CommitBusy(w) PROVE LockInv'
  BY <1>3, RollbackKeeps DEF CommitBusy, Answered
<1>4. CASE Crash
  BY <1>4, WorkerAssumption
     DEF Crash, LockInv, TxTypes, OwnLock, OwnReferences, NoRequest
<1>5. CASE UNCHANGED vars
  BY <1>5 DEF vars, LockInv, TxTypes, OwnLock, OwnReferences
<1> QED BY <1>1, <1>2, <1>3, <1>4, <1>5 DEF Next

LEMMA LockInvHolds == Spec => []LockInv
<1>1. Init => LockInv
  BY WorkerAssumption
     DEF Init, LockInv, TxTypes, OwnLock, OwnReferences, NoRequest
<1> QED BY <1>1, LockInvKept, PTL DEF Spec

\* The write lock is never left behind: the request that holds it is still being
\* served, and what it wrote is gone from the database when it no longer is, unless
\* it was committed.
THEOREM LockIsOwned == Spec => []LockHasOwner
<1>1. LockInv => LockHasOwner
  BY WorkerAssumption DEF LockInv, TxTypes, OwnLock, LockHasOwner
<1> QED BY <1>1, LockInvHolds, PTL

\* Only a commit on a connection that does not enforce foreign keys makes a
\* reference dangle.
THEOREM OnlyBareDangles == Spec => DanglingFromBare
<1> DEFINE Step ==
     \/ Dangling(db') \subseteq Dangling(db)
     \/ \E w \in Worker : Serving(w) /\ ~tx[w].fk /\ tx'[w] = Answered(OK)
<1>1. ASSUME LockInv, [Next]_vars PROVE Step
  <2>1. ASSUME NEW w \in Worker, Commit(w) PROVE Step
    <3>1. writer = w /\ db' = work
      BY <1>1, <2>1, OwnCommit DEF Commit
    <3>2. CASE tx[w].fk
      BY <1>1, <3>1, <3>2 DEF LockInv, OwnReferences
    <3>3. CASE ~tx[w].fk
      BY <1>1, <2>1, <3>3 DEF Commit, AtEnd, Serving, LockInv, TxTypes
    <3> QED BY <3>2, <3>3
  <2>2. CASE ~\E w \in Worker : Commit(w)
    <3>1. db' = db
      BY <1>1, <2>2
         DEF Next, vars, Crash, CommitBusy, Serve, Exec, Refuse, LockTimeout, Diagnose,
             Panic, PageRead, Rollback, Arrive, RuleNew, RuleEdit, RuleDelete, AclNew,
             AclDelete, AclUpdate, AclMove, GroupNew, GroupDelete, AccessUpdate,
             MembersMembers, MembersNew, SourceDelete, Reject, ReadPage, Begin
    <3> QED BY <3>1
  <2> QED BY <2>1, <2>2
<1>2. LockInv /\ [Next]_vars => [Step]_vars
  BY <1>1
<1> QED BY <1>2, LockInvHolds, PTL DEF Spec, DanglingFromBare
=============================================================================
