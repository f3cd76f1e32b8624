-------------------------- MODULE AdminUIRefinement --------------------------
(***************************************************************************)
(* The transactions of the admin UI implement AdminStore: whatever their   *)
(* statements, failures and interleavings, each request changes the        *)
(* database as a whole, as its handler promises, or not at all.  For any   *)
(* number of goroutines, connections and rows: proofs that TLAPS checks.   *)
(***************************************************************************)
EXTENDS AdminUIProofs

StoreProofs == INSTANCE AdminStoreProofs WITH FkModes <- BOOLEAN

-----------------------------------------------------------------------------
(* The statements of the transactions.                                       *)

\* SetToSeq lists a finite set: its members and nothing else.
LEMMA SequenceEnumerates ==
  ASSUME NEW S, IsFiniteSet(S)
  PROVE  /\ Len(SetToSeq(S)) \in Nat
         /\ \A i \in 1 .. Len(SetToSeq(S)) : SetToSeq(S)[i] \in S
         /\ \A x \in S : \E i \in 1 .. Len(SetToSeq(S)) : SetToSeq(S)[i] = x
<1> DEFINE n == Cardinality(S)
           s == SetToSeq(S)
<1>1. n \in Nat /\ \E f \in [1 .. n -> S] : IsInjective(f)
  BY FS_CardinalityType DEF ExistsBijection, Bijection, Injection
<1>2. s \in [1 .. n -> S] /\ IsInjective(s)
  BY <1>1 DEF SetToSeq
<1>3. s \in Injection(1 .. n, S)
  BY <1>2 DEF Injection, IsInjective
<1>4. Cardinality(1 .. n) = n /\ IsFiniteSet(1 .. n)
  BY <1>1, FS_Interval
<1>5. s \in Surjection(1 .. n, S)
  BY <1>1, <1>3, <1>4, FS_Injection
<1>6. Len(s) = n
  BY <1>1, <1>2
<1> QED BY <1>1, <1>2, <1>5, <1>6 DEF Surjection

\* A first statement, and then one for each member of T and no others.
OneEach(p, first, T, f) ==
  /\ Len(p) \in Nat \ {0} /\ p[1] = first
  /\ \A i \in 2 .. Len(p) : \E x \in T : p[i] = f[x]
  /\ \A x \in T : \E i \in 2 .. Len(p) : p[i] = f[x]

\* A transaction that deletes rows of a table and inserts a list of others: the
\* list is of the rows that were asked for.
LEMMA DeleteThenInsert ==
  ASSUME NEW T, NEW f, NEW S, IsFiniteSet(S),
         \A x \in T : f[x] \in S, \A y \in S : \E x \in T : y = f[x],
         NEW first, NEW p, p = <<first>> \o SetToSeq(S)
  PROVE  OneEach(p, first, T, f)
<1> DEFINE s == SetToSeq(S)
<1>2. /\ s \in Seq(S) /\ Len(s) \in Nat
      /\ \A i \in 1 .. Len(s) : s[i] \in S
      /\ \A x \in S : \E i \in 1 .. Len(s) : s[i] = x
  BY SequenceOfSet, SequenceEnumerates
<1> HIDE DEF s
<1>3. /\ Len(p) = 1 + Len(s) /\ p[1] = first
      /\ \A i \in 2 .. Len(p) : p[i] = s[i - 1]
  BY <1>2 DEF s
<1>4. \A i \in 2 .. Len(p) : i - 1 \in 1 .. Len(s)
  BY <1>2, <1>3
<1>5. ASSUME NEW i \in 1 .. Len(s) PROVE i + 1 \in 2 .. Len(p) /\ p[i + 1] = s[i]
  <2>1. i + 1 \in 2 .. Len(p) /\ (i + 1) - 1 = i
    BY <1>2, <1>3
  <2> QED BY <1>3, <2>1
<1>6. \A i \in 2 .. Len(p) : \E x \in T : p[i] = f[x]
  <2>1. \A i \in 2 .. Len(p) : p[i] \in S
    BY <1>2, <1>3, <1>4
  <2> QED BY <2>1
<1>7. ASSUME NEW x \in T PROVE \E i \in 2 .. Len(p) : p[i] = f[x]
  <2>1. PICK i \in 1 .. Len(s) : s[i] = f[x]
    BY <1>2
  <2> QED BY <1>5, <2>1
<1>8. Len(p) \in Nat \ {0}
  BY <1>2, <1>3
<1> QED BY <1>3, <1>6, <1>7, <1>8 DEF OneEach

IsListed(q) == q.op \in {"accessUpdate", "members"}

\* What accessUpdateHandler is sent and executes: a delete, then an insert for each ACL.
LEMMA AccessUpdateProgram ==
  ASSUME NEW q \in Request, q.op = "accessUpdate"
  PROVE  LET p == Transaction(q) IN
         /\ q.group \in GroupId /\ q.acls \in SUBSET AclId
         /\ Len(p) \in Nat \ {0} /\ p[1] = Delete("groupaccess", {q.group} \X AclId)
         /\ \A i \in 2 .. Len(p) : \E a \in q.acls : p[i] = InsertCommented("groupaccess", <<q.group, a>>)
         /\ \A a \in q.acls : \E i \in 2 .. Len(p) : p[i] = InsertCommented("groupaccess", <<q.group, a>>)
<1> DEFINE f == [a \in q.acls |-> InsertCommented("groupaccess", <<q.group, a>>)]
           S == {InsertCommented("groupaccess", <<q.group, a>>) : a \in q.acls}
           first == Delete("groupaccess", {q.group} \X AclId)
           p == Transaction(q)
<1>1. q.group \in GroupId /\ q.acls \in SUBSET AclId
  BY DEF Request
<1>2. IsFiniteSet(q.acls)
  BY <1>1, IdAssumption, FS_Subset DEF Ids
<1>3. p = <<first>> \o SetToSeq(S)
  BY DEF Transaction, AccessUpdateTx
<1>4. f = [a \in q.acls |-> f[a]] /\ {f[a] : a \in q.acls} = S
  OBVIOUS
<1>5. /\ \A x \in q.acls : f[x] \in S
      /\ \A y \in S : \E x \in q.acls : y = f[x]
      /\ \A a \in q.acls : f[a] = InsertCommented("groupaccess", <<q.group, a>>)
  OBVIOUS
<1> HIDE DEF f, S, first, p
<1>6. IsFiniteSet(S)
  BY <1>2, <1>4, FinitelyManyInserts
<1>7. OneEach(p, first, q.acls, f)
  BY <1>3, <1>5, <1>6, DeleteThenInsert
<1> QED BY <1>1, <1>5, <1>7 DEF OneEach, first, p

\* What membersMembersHandler is sent and executes.
LEMMA MembersProgram ==
  ASSUME NEW q \in Request, q.op = "members"
  PROVE  LET p == Transaction(q) IN
         /\ q.group \in GroupId /\ q.sources \in SUBSET SourceId
         /\ Len(p) \in Nat \ {0} /\ p[1] = Delete("members", SourceId \X {q.group})
         /\ \A i \in 2 .. Len(p) : \E s \in q.sources : p[i] = InsertCommented("members", <<s, q.group>>)
         /\ \A s \in q.sources : \E i \in 2 .. Len(p) : p[i] = InsertCommented("members", <<s, q.group>>)
<1> DEFINE f == [s \in q.sources |-> InsertCommented("members", <<s, q.group>>)]
           S == {InsertCommented("members", <<s, q.group>>) : s \in q.sources}
           first == Delete("members", SourceId \X {q.group})
           p == Transaction(q)
<1>1. q.group \in GroupId /\ q.sources \in SUBSET SourceId
  BY DEF Request
<1>2. IsFiniteSet(q.sources)
  BY <1>1, IdAssumption, FS_Subset DEF Ids
<1>3. p = <<first>> \o SetToSeq(S)
  BY DEF Transaction, MembersTx
<1>4. f = [s \in q.sources |-> f[s]] /\ {f[s] : s \in q.sources} = S
  OBVIOUS
<1>5. /\ \A x \in q.sources : f[x] \in S
      /\ \A y \in S : \E x \in q.sources : y = f[x]
      /\ \A s \in q.sources : f[s] = InsertCommented("members", <<s, q.group>>)
  OBVIOUS
<1> HIDE DEF f, S, first, p
<1>6. IsFiniteSet(S)
  BY <1>2, <1>4, FinitelyManyInserts
<1>7. OneEach(p, first, q.sources, f)
  BY <1>3, <1>5, <1>6, DeleteThenInsert
<1> QED BY <1>1, <1>5, <1>7 DEF OneEach, first, p

\* What the other handlers are sent and execute.
Program(q, p) ==
  /\ q.op = "ruleNew" =>
       /\ q.rule \in RuleId /\ q.content \in Rule /\ Len(p) = 2
       /\ p[1] = Insert("rules", <<q.rule, q.content>>)
       /\ p[2] = Insert("aclrules", <<NewAcl, q.rule>>)
  /\ q.op = "ruleEdit" =>
       /\ q.rule \in RuleId /\ q.content \in Rule /\ Len(p) = 1
       /\ p[1] = Update("rules", {q.rule} \X Rule, 2, q.content)
  /\ q.op = "ruleDelete" =>
       /\ q.rules \in SUBSET RuleId /\ Len(p) = 2
       /\ p[1] = Delete("aclrules", AclId \X q.rules)
       /\ p[2] = Delete("rules", q.rules \X Rule)
  /\ q.op = "aclNew" => q.acl \in AclId /\ Len(p) = 1 /\ p[1] = InsertCommented("acls", q.acl)
  /\ q.op = "aclDelete" => q.acl \in AclId /\ Len(p) = 1 /\ p[1] = Delete("acls", {q.acl})
  /\ q.op = "aclUpdate" => q.acl \in AclId /\ Len(p) = 1 /\ p[1] = Delete("acls", {})
  /\ q.op = "aclMove" =>
       /\ q.rules \in SUBSET RuleId /\ q.dst \in AclId /\ Len(p) = 1
       /\ p[1] = Update("aclrules", AclId \X q.rules, 1, q.dst)
  /\ q.op = "groupNew" =>
       q.group \in GroupId /\ Len(p) = 1 /\ p[1] = InsertCommented("groups", q.group)
  /\ q.op = "groupDelete" =>
       q.group \in GroupId /\ Len(p) = 1 /\ p[1] = Delete("groups", {q.group})
  /\ q.op = "membersNew" =>
       /\ q.group \in GroupId /\ q.source \in SourceId /\ q.address \in Address
       /\ Len(p) = 2
       /\ p[1] = InsertCommented("sources", <<q.source, q.address>>)
       /\ p[2] = InsertCommented("members", <<q.source, q.group>>)
  /\ q.op = "sourceDelete" =>
       /\ q.source \in SourceId /\ Len(p) = 1
       /\ p[1] = Delete("sources", {q.source} \X Address)

\* A request of another kind is sent and executes what Program says.
LEMMA Programs ==
  ASSUME NEW q \in Request
  PROVE  Program(q, Transaction(q))
<1> DEFINE p == Transaction(q)
<1> USE DEF Transaction
<1>1. q.op = "ruleNew" => q.rule \in RuleId /\ q.content \in Rule
  BY DEF Request
<1>2. q.op = "ruleEdit" => q.rule \in RuleId /\ q.content \in Rule
  BY DEF Request
<1>3. q.op = "ruleDelete" => q.rules \in SUBSET RuleId
  BY DEF Request
<1>4. q.op \in {"aclNew", "aclDelete", "aclUpdate"} => q.acl \in AclId
  BY DEF Request
<1>5. q.op = "aclMove" => q.rules \in SUBSET RuleId /\ q.dst \in AclId
  BY DEF Request
<1>6. q.op \in {"groupNew", "groupDelete"} => q.group \in GroupId
  BY DEF Request
<1>7. q.op = "membersNew" =>
        q.group \in GroupId /\ q.source \in SourceId /\ q.address \in Address
  BY DEF Request
<1>8. q.op = "sourceDelete" => q.source \in SourceId
  BY DEF Request
<1>9. /\ q.op = "ruleNew" => p = RuleNewTx(q)
      /\ q.op = "ruleEdit" => p = RuleEditTx(q)
      /\ q.op = "ruleDelete" => p = RuleDeleteTx(q)
      /\ q.op = "aclNew" => p = AclNewTx(q)
      /\ q.op = "aclDelete" => p = AclDeleteTx(q)
      /\ q.op = "aclUpdate" => p = AclUpdateTx(q)
      /\ q.op = "aclMove" => p = AclMoveTx(q)
      /\ q.op = "groupNew" => p = GroupNewTx(q)
      /\ q.op = "groupDelete" => p = GroupDeleteTx(q)
      /\ q.op = "membersNew" => p = MembersNewTx(q)
      /\ q.op = "sourceDelete" => p = SourceDeleteTx(q)
  OBVIOUS
<1> HIDE DEF Transaction, p
<1>10. Program(q, p)
  BY <1>1, <1>2, <1>3, <1>4, <1>5, <1>6, <1>7, <1>8, <1>9
     DEF Program, RuleNewTx, RuleEditTx, RuleDeleteTx, AclNewTx, AclDeleteTx, AclUpdateTx,
         AclMoveTx, GroupNewTx, GroupDeleteTx, MembersNewTx, SourceDeleteTx
<1> QED BY <1>10 DEF p

\* There are no other requests.
LEMMA Operations ==
  ASSUME NEW q \in Request
  PROVE  q.op \in {"ruleNew", "ruleEdit", "ruleDelete", "aclNew", "aclDelete", "aclUpdate",
                   "aclMove", "groupNew", "groupDelete", "accessUpdate", "members",
                   "membersNew", "sourceDelete"}
BY DEF Request

-----------------------------------------------------------------------------
(* What a statement does to a database, table by table.                      *)

\* The database with other rows in one table.
With(d, t, rows) == [d EXCEPT ![t] = rows]

\* An insert adds its row.
LEMMA AfterInsert ==
  ASSUME NEW d, NEW t, NEW row
  PROVE  After(d, Insert(t, row)) = With(d, t, d[t] \cup {row})
BY DEF After, Insert, With

\* So does one that names the comment.
LEMMA AfterInsertCommented ==
  ASSUME NEW d, NEW t, NEW row
  PROVE  After(d, InsertCommented(t, row)) = With(d, t, d[t] \cup {row})
BY DEF After, InsertCommented, With

\* A delete takes its rows away.
LEMMA AfterDelete ==
  ASSUME NEW d, NEW t, NEW rows
  PROVE  After(d, Delete(t, rows)) = With(d, t, d[t] \ rows)
BY DEF After, Delete, With

\* An update sets a column of its rows.
LEMMA AfterUpdate ==
  ASSUME NEW d, NEW t, NEW rows, NEW col, NEW val
  PROVE  After(d, Update(t, rows, col, val)) =
           With(d, t, (d[t] \ rows) \cup {[x EXCEPT ![col] = val] : x \in d[t] \cap rows})
BY DEF After, Update, SetColumn, With

\* The ids a request writes into rows, that of the row it creates among them.
Mentions(q) ==
  CASE q.op = "ruleNew" -> {q.rule, NewAcl}
    [] q.op = "aclNew" -> {q.acl}
    [] q.op = "aclMove" -> {q.dst}
    [] q.op = "groupNew" -> {q.group}
    [] q.op = "accessUpdate" -> {q.group} \cup q.acls
    [] q.op = "members" -> {q.group} \cup q.sources
    [] q.op = "membersNew" -> {q.source, q.group}
    [] OTHER -> {}

\* An id is named somewhere in a database.
Names(d, id) ==
  \/ id \in d.acls \/ id \in d.groups
  \/ \E row \in d.sources : row[1] = id
  \/ \E row \in d.rules : row[1] = id
  \/ \E row \in d.members : row[1] = id \/ row[2] = id
  \/ \E row \in d.aclrules : row[1] = id \/ row[2] = id
  \/ \E row \in d.groupaccess : row[1] = id \/ row[2] = id

\* A statement keeps the tables' types, and names nothing that neither the
\* database named before nor its request mentions.
Keeps(q, d, e) == e \in DB /\ \A id : Names(e, id) => Names(d, id) \/ id \in Mentions(q)

\* So does every statement of every handler.
LEMMA StatementKeeps ==
  ASSUME NEW q \in Request, NEW p, p = Transaction(q), NEW i \in 1 .. Len(p), NEW d \in DB
  PROVE  Keeps(q, d, After(d, p[i]))
<1> DEFINE e == After(d, p[i])
<1>0. Program(q, p)
  BY Programs
<1>1. CASE q.op = "ruleNew"
  <2>1. /\ q.rule \in RuleId /\ q.content \in Rule /\ NewAcl \in AclId
        /\ Mentions(q) = {q.rule, NewAcl}
    BY <1>0, <1>1, NewAclAssumption DEF Program, Mentions
  <2>2. \/ p[i] = Insert("rules", <<q.rule, q.content>>)
        \/ p[i] = Insert("aclrules", <<NewAcl, q.rule>>)
    <3>1. Len(p) = 2
      BY <1>0, <1>1 DEF Program
    <3>2. i \in {1, 2}
      BY <3>1
    <3> QED BY <1>0, <1>1, <3>2 DEF Program
  <2>3. \/ e = With(d, "rules", d.rules \cup {<<q.rule, q.content>>})
        \/ e = With(d, "aclrules", d.aclrules \cup {<<NewAcl, q.rule>>})
    BY <2>2, AfterInsert
  <2> HIDE DEF e
  <2>4. e \in DB
    BY <2>1, <2>3 DEF DB, With
  <2>5. \A id : Names(e, id) => Names(d, id) \/ id \in {q.rule, NewAcl}
    BY <2>3 DEF DB, Names, With
  <2>6. Keeps(q, d, e)
    BY <2>1, <2>4, <2>5 DEF Keeps
  <2> QED BY <2>6 DEF e
<1>2. CASE q.op = "ruleEdit"
  <2>1. /\ q.rule \in RuleId /\ q.content \in Rule /\ Len(p) = 1
        /\ p[1] = Update("rules", {q.rule} \X Rule, 2, q.content)
    BY <1>0, <1>2 DEF Program
  <2> DEFINE old == {q.rule} \X Rule
             set == {[x EXCEPT ![2] = q.content] : x \in d.rules \cap old}
  <2>2. e = With(d, "rules", (d.rules \ old) \cup set)
    <3>1. i = 1
      BY <2>1
    <3> QED BY <2>1, <3>1, AfterUpdate
  <2>3. \A y \in set : y = <<q.rule, q.content>> /\ \E x \in d.rules : x[1] = q.rule
    OBVIOUS
  <2> HIDE DEF e, old, set
  <2>4. e \in DB
    BY <2>1, <2>2, <2>3 DEF DB, With
  <2>5. \A id : Names(e, id) => Names(d, id)
    BY <2>2, <2>3 DEF DB, Names, With
  <2>6. Keeps(q, d, e)
    BY <2>4, <2>5 DEF Keeps
  <2> QED BY <2>6 DEF e
<1>3. CASE q.op = "ruleDelete"
  <2>1. p[i] = Delete("aclrules", AclId \X q.rules) \/ p[i] = Delete("rules", q.rules \X Rule)
    <3>1. Len(p) = 2
      BY <1>0, <1>3 DEF Program
    <3>2. i \in {1, 2}
      BY <3>1
    <3> QED BY <1>0, <1>3, <3>2 DEF Program
  <2>2. \/ e = With(d, "rules", d.rules \ (q.rules \X Rule))
        \/ e = With(d, "aclrules", d.aclrules \ (AclId \X q.rules))
    BY <2>1, AfterDelete
  <2> HIDE DEF e
  <2>3. e \in DB
    BY <2>2 DEF DB, With
  <2>4. \A id : Names(e, id) => Names(d, id)
    BY <2>2 DEF DB, Names, With
  <2>5. Keeps(q, d, e)
    BY <2>3, <2>4 DEF Keeps
  <2> QED BY <2>5 DEF e
<1>4. CASE q.op \in {"aclDelete", "aclUpdate", "groupDelete", "sourceDelete"}
  <2>1. \E S : \/ e = With(d, "acls", d.acls \ S)
               \/ e = With(d, "groups", d.groups \ S)
               \/ e = With(d, "sources", d.sources \ S)
    <3>1. /\ Len(p) = 1
          /\ \/ p[1] = Delete("acls", {q.acl})
             \/ p[1] = Delete("acls", {})
             \/ p[1] = Delete("groups", {q.group})
             \/ p[1] = Delete("sources", {q.source} \X Address)
      BY <1>0, <1>4 DEF Program
    <3>2. PICK S : \/ p[1] = Delete("acls", S)
                   \/ p[1] = Delete("groups", S)
                   \/ p[1] = Delete("sources", S)
      BY <3>1, Zenon
    <3>3. i = 1
      BY <3>1
    <3>4. \/ e = With(d, "acls", d.acls \ S)
          \/ e = With(d, "groups", d.groups \ S)
          \/ e = With(d, "sources", d.sources \ S)
      BY <3>2, <3>3, AfterDelete
    <3> QED BY <3>4, Zenon
  <2> HIDE DEF e
  <2>2. e \in DB
    BY <2>1 DEF DB, With
  <2>3. \A id : Names(e, id) => Names(d, id)
    BY <2>1 DEF DB, Names, With
  <2>4. Keeps(q, d, e)
    BY <2>2, <2>3 DEF Keeps
  <2> QED BY <2>4 DEF e
<1>5. CASE q.op = "aclNew"
  <2>1. /\ Len(p) = 1 /\ p[1] = InsertCommented("acls", q.acl)
        /\ q.acl \in AclId /\ Mentions(q) = {q.acl}
    BY <1>0, <1>5 DEF Program, Mentions
  <2>2. e = With(d, "acls", d.acls \cup {q.acl})
    <3>1. i = 1
      BY <2>1
    <3> QED BY <2>1, <3>1, AfterInsertCommented
  <2> HIDE DEF e
  <2>3. e \in DB
    BY <2>1, <2>2 DEF DB, With
  <2>4. \A id : Names(e, id) => Names(d, id) \/ id \in {q.acl}
    BY <2>2 DEF DB, Names, With
  <2>5. Keeps(q, d, e)
    BY <2>1, <2>3, <2>4 DEF Keeps
  <2> QED BY <2>5 DEF e
<1>6. CASE q.op = "groupNew"
  <2>1. /\ Len(p) = 1 /\ p[1] = InsertCommented("groups", q.group)
        /\ q.group \in GroupId /\ Mentions(q) = {q.group}
    BY <1>0, <1>6 DEF Program, Mentions
  <2>2. e = With(d, "groups", d.groups \cup {q.group})
    <3>1. i = 1
      BY <2>1
    <3> QED BY <2>1, <3>1, AfterInsertCommented
  <2> HIDE DEF e
  <2>3. e \in DB
    BY <2>1, <2>2 DEF DB, With
  <2>4. \A id : Names(e, id) => Names(d, id) \/ id \in {q.group}
    BY <2>2 DEF DB, Names, With
  <2>5. Keeps(q, d, e)
    BY <2>1, <2>3, <2>4 DEF Keeps
  <2> QED BY <2>5 DEF e
<1>7. CASE q.op = "aclMove"
  <2>1. /\ q.rules \in SUBSET RuleId /\ q.dst \in AclId /\ Len(p) = 1
        /\ p[1] = Update("aclrules", AclId \X q.rules, 1, q.dst)
        /\ Mentions(q) = {q.dst}
    BY <1>0, <1>7 DEF Program, Mentions
  <2> DEFINE old == AclId \X q.rules
             set == {[x EXCEPT ![1] = q.dst] : x \in d.aclrules \cap old}
  <2>2. e = With(d, "aclrules", (d.aclrules \ old) \cup set)
    <3>1. i = 1
      BY <2>1
    <3> QED BY <2>1, <3>1, AfterUpdate
  <2>3. \A y \in set : \E x \in d.aclrules : y = <<q.dst, x[2]>>
    OBVIOUS
  <2> HIDE DEF e, old, set
  <2>4. e \in DB
    BY <2>1, <2>2, <2>3 DEF DB, With
  <2>5. \A id : Names(e, id) => Names(d, id) \/ id \in {q.dst}
    BY <2>2, <2>3 DEF DB, Names, With
  <2>6. Keeps(q, d, e)
    BY <2>1, <2>4, <2>5 DEF Keeps
  <2> QED BY <2>6 DEF e
<1>8. CASE q.op = "accessUpdate"
  <2>1. /\ q.group \in GroupId /\ q.acls \in SUBSET AclId
        /\ Mentions(q) = {q.group} \cup q.acls
    BY <1>8, AccessUpdateProgram DEF Mentions
  <2>2. \/ e = With(d, "groupaccess", d.groupaccess \ ({q.group} \X AclId))
        \/ \E a \in q.acls : e = With(d, "groupaccess", d.groupaccess \cup {<<q.group, a>>})
    <3>1. CASE i = 1
      <4>1. p[i] = Delete("groupaccess", {q.group} \X AclId)
        BY <1>8, <3>1, AccessUpdateProgram
      <4> QED BY <4>1, AfterDelete
    <3>2. CASE i # 1
      <4>1. i \in 2 .. Len(p)
        BY <1>8, <3>2, AccessUpdateProgram
      <4>2. PICK a \in q.acls : p[i] = InsertCommented("groupaccess", <<q.group, a>>)
        BY <1>8, <4>1, AccessUpdateProgram
      <4> QED BY <4>2, AfterInsertCommented
    <3> QED BY <3>1, <3>2
  <2> HIDE DEF e
  <2>3. e \in DB
    BY <2>1, <2>2 DEF DB, With
  <2>4. \A id : Names(e, id) => Names(d, id) \/ id \in {q.group} \cup q.acls
    BY <2>2 DEF DB, Names, With
  <2>5. Keeps(q, d, e)
    BY <2>1, <2>3, <2>4 DEF Keeps
  <2> QED BY <2>5 DEF e
<1>9. CASE q.op = "members"
  <2>1. /\ q.group \in GroupId /\ q.sources \in SUBSET SourceId
        /\ Mentions(q) = {q.group} \cup q.sources
    BY <1>9, MembersProgram DEF Mentions
  <2>2. \/ e = With(d, "members", d.members \ (SourceId \X {q.group}))
        \/ \E s \in q.sources : e = With(d, "members", d.members \cup {<<s, q.group>>})
    <3>1. CASE i = 1
      <4>1. p[i] = Delete("members", SourceId \X {q.group})
        BY <1>9, <3>1, MembersProgram
      <4> QED BY <4>1, AfterDelete
    <3>2. CASE i # 1
      <4>1. i \in 2 .. Len(p)
        BY <1>9, <3>2, MembersProgram
      <4>2. PICK s \in q.sources : p[i] = InsertCommented("members", <<s, q.group>>)
        BY <1>9, <4>1, MembersProgram
      <4> QED BY <4>2, AfterInsertCommented
    <3> QED BY <3>1, <3>2
  <2> HIDE DEF e
  <2>3. e \in DB
    BY <2>1, <2>2 DEF DB, With
  <2>4. \A id : Names(e, id) => Names(d, id) \/ id \in {q.group} \cup q.sources
    BY <2>2 DEF DB, Names, With
  <2>5. Keeps(q, d, e)
    BY <2>1, <2>3, <2>4 DEF Keeps
  <2> QED BY <2>5 DEF e
<1>10. CASE q.op = "membersNew"
  <2>1. /\ q.group \in GroupId /\ q.source \in SourceId /\ q.address \in Address
        /\ Mentions(q) = {q.source, q.group}
    BY <1>0, <1>10 DEF Program, Mentions
  <2>2. \/ p[i] = InsertCommented("sources", <<q.source, q.address>>)
        \/ p[i] = InsertCommented("members", <<q.source, q.group>>)
    <3>1. Len(p) = 2
      BY <1>0, <1>10 DEF Program
    <3>2. i \in {1, 2}
      BY <3>1
    <3> QED BY <1>0, <1>10, <3>2 DEF Program
  <2>3. \/ e = With(d, "sources", d.sources \cup {<<q.source, q.address>>})
        \/ e = With(d, "members", d.members \cup {<<q.source, q.group>>})
    BY <2>2, AfterInsertCommented
  <2> HIDE DEF e
  <2>4. e \in DB
    BY <2>1, <2>3 DEF DB, With
  <2>5. \A id : Names(e, id) => Names(d, id) \/ id \in {q.source, q.group}
    BY <2>3 DEF DB, Names, With
  <2>6. Keeps(q, d, e)
    BY <2>1, <2>4, <2>5 DEF Keeps
  <2> QED BY <2>6 DEF e
<1> HIDE DEF e
<1> QED
  BY <1>1, <1>2, <1>3, <1>4, <1>5, <1>6, <1>7, <1>8, <1>9, <1>10, Operations DEF e

-----------------------------------------------------------------------------
(* What it means that a statement is accepted.                               *)

\* An insert on an enforcing connection names rows that are there.
LEMMA InsertRefers ==
  ASSUME NEW d \in DB, NEW x, NEW y
  PROVE  /\ Accepted(d, InsertCommented("groupaccess", <<x, y>>), TRUE) => x \in d.groups /\ y \in d.acls
         /\ Accepted(d, Insert("aclrules", <<x, y>>), TRUE) => x \in d.acls /\ y \in RuleIds(d)
<1>1. ASSUME Accepted(d, InsertCommented("groupaccess", <<x, y>>), TRUE)
      PROVE  x \in d.groups /\ y \in d.acls
  <2> DEFINE st == InsertCommented("groupaccess", <<x, y>>)
             e == After(d, st)
  <2>1. e = With(d, "groupaccess", d.groupaccess \cup {<<x, y>>})
    BY AfterInsertCommented
  <2>2. /\ <<x, y>> \in e.groupaccess /\ e.groups = d.groups /\ e.acls = d.acls
    BY <2>1 DEF With, DB
  <2>3. <<x, y>> \in Written(d, st)
    BY DEF Written, Insert, InsertCommented
  <2>4. \A r \in Dangling(e) : r[2] # <<x, y>>
    BY <1>1, <2>3 DEF Accepted
  <2>5. x \notin d.groups => <<"groupaccess.group_id", <<x, y>>>> \in Dangling(e)
    BY <2>2 DEF Dangling
  <2>6. y \notin d.acls => <<"groupaccess.acl_id", <<x, y>>>> \in Dangling(e)
    BY <2>2 DEF Dangling
  <2> HIDE DEF e
  <2> QED BY <2>4, <2>5, <2>6
<1>2. ASSUME Accepted(d, Insert("aclrules", <<x, y>>), TRUE)
      PROVE  x \in d.acls /\ y \in RuleIds(d)
  <2> DEFINE st == Insert("aclrules", <<x, y>>)
             e == After(d, st)
  <2>1. e = With(d, "aclrules", d.aclrules \cup {<<x, y>>})
    BY AfterInsert
  <2>2. /\ <<x, y>> \in e.aclrules /\ e.acls = d.acls /\ e.rules = d.rules
    BY <2>1 DEF With, DB
  <2>3. <<x, y>> \in Written(d, st)
    BY DEF Written, Insert, InsertCommented
  <2>4. \A r \in Dangling(e) : r[2] # <<x, y>>
    BY <1>2, <2>3 DEF Accepted
  <2>5. x \notin d.acls => <<"aclrules.acl_id", <<x, y>>>> \in Dangling(e)
    BY <2>2 DEF Dangling
  <2>6. y \notin RuleIds(d) => <<"aclrules.rule_id", <<x, y>>>> \in Dangling(e)
    BY <2>2 DEF Dangling, RuleIds
  <2> HIDE DEF e
  <2> QED BY <2>4, <2>5, <2>6
<1> QED BY <1>1, <1>2

\* The schema's members have no comment for an insert to name.
LEMMA NoMemberInserted ==
  ASSUME NEW d, NEW row, NEW fk
  PROVE  ~Accepted(d, InsertCommented("members", row), fk)
BY DEF Accepted, Prepares, Commented, InsertCommented

\* A delete of a row that is there, on an enforcing connection, deletes one that
\* nothing refers to.
LEMMA DeleteUnused ==
  ASSUME NEW d \in DB, NEW id
  PROVE  /\ Accepted(d, Delete("acls", {id}), TRUE) /\ id \in d.acls =>
              /\ \A ar \in d.aclrules : ar[1] # id
              /\ \A ga \in d.groupaccess : ga[2] # id
         /\ Accepted(d, Delete("groups", {id}), TRUE) /\ id \in d.groups =>
              /\ \A m \in d.members : m[2] # id
              /\ \A ga \in d.groupaccess : ga[1] # id
         /\ Accepted(d, Delete("sources", {id} \X Address), TRUE) /\ id \in SourceIds(d) =>
              \A m \in d.members : m[1] # id
<1>1. ASSUME Accepted(d, Delete("acls", {id}), TRUE), id \in d.acls
      PROVE  /\ \A ar \in d.aclrules : ar[1] # id
             /\ \A ga \in d.groupaccess : ga[2] # id
  <2> DEFINE e == After(d, Delete("acls", {id}))
  <2>1. e = With(d, "acls", d.acls \ {id})
    BY AfterDelete
  <2>2. e.acls = d.acls \ {id} /\ e.aclrules = d.aclrules /\ e.groupaccess = d.groupaccess
    BY <2>1 DEF With, DB
  <2>3. Dangling(e) \subseteq Dangling(d)
    BY <1>1 DEF Accepted
  <2>4. \A ar \in d.aclrules : ar[1] = id => <<"aclrules.acl_id", ar>> \in Dangling(e) \ Dangling(d)
    BY <1>1, <2>2 DEF Dangling
  <2>5. \A ga \in d.groupaccess : ga[2] = id => <<"groupaccess.acl_id", ga>> \in Dangling(e) \ Dangling(d)
    BY <1>1, <2>2 DEF Dangling
  <2> HIDE DEF e
  <2> QED BY <2>3, <2>4, <2>5
<1>2. ASSUME Accepted(d, Delete("groups", {id}), TRUE), id \in d.groups
      PROVE  /\ \A m \in d.members : m[2] # id
             /\ \A ga \in d.groupaccess : ga[1] # id
  <2> DEFINE e == After(d, Delete("groups", {id}))
  <2>1. e = With(d, "groups", d.groups \ {id})
    BY AfterDelete
  <2>2. e.groups = d.groups \ {id} /\ e.members = d.members /\ e.groupaccess = d.groupaccess
    BY <2>1 DEF With, DB
  <2>3. Dangling(e) \subseteq Dangling(d)
    BY <1>2 DEF Accepted
  <2>4. \A m \in d.members : m[2] = id => <<"members.group_id", m>> \in Dangling(e) \ Dangling(d)
    BY <1>2, <2>2 DEF Dangling
  <2>5. \A ga \in d.groupaccess : ga[1] = id => <<"groupaccess.group_id", ga>> \in Dangling(e) \ Dangling(d)
    BY <1>2, <2>2 DEF Dangling
  <2> HIDE DEF e
  <2> QED BY <2>3, <2>4, <2>5
<1>3. ASSUME Accepted(d, Delete("sources", {id} \X Address), TRUE), id \in SourceIds(d)
      PROVE  \A m \in d.members : m[1] # id
  <2> DEFINE e == After(d, Delete("sources", {id} \X Address))
  <2>1. e = With(d, "sources", d.sources \ ({id} \X Address))
    BY AfterDelete
  <2>2. id \notin SourceIds(e) /\ e.members = d.members
    BY <2>1 DEF With, DB, SourceIds
  <2>3. Dangling(e) \subseteq Dangling(d)
    BY <1>3 DEF Accepted
  <2>4. \A m \in d.members : m[1] = id => <<"members.source_id", m>> \in Dangling(e)
    BY <2>2 DEF Dangling
  <2>5. \A m \in d.members : m[1] = id => <<"members.source_id", m>> \notin Dangling(d)
    BY <1>3 DEF Dangling
  <2> HIDE DEF e
  <2> QED BY <2>3, <2>4, <2>5
<1> QED BY <1>1, <1>2, <1>3

\* A move that is accepted makes no two rows one, and on an enforcing connection
\* moves to an ACL that is there.
LEMMA MoveAccepted ==
  ASSUME NEW d \in DB, NEW rs \in SUBSET RuleId, NEW dst \in AclId, NEW fk \in BOOLEAN,
         Accepted(d, Update("aclrules", AclId \X rs, 1, dst), fk)
  PROVE  LET moved == {ar \in d.aclrules : ar[2] \in rs} IN
         /\ \A x, y \in moved : x[2] = y[2] => x = y
         /\ fk => moved = {} \/ dst \in d.acls
<1> DEFINE old == AclId \X rs
           st == Update("aclrules", old, 1, dst)
           moved == {ar \in d.aclrules : ar[2] \in rs}
           e == After(d, st)
<1>1. d.aclrules \subseteq AclId \X RuleId
  BY DEF DB
<1>2. moved = d.aclrules \cap old
  BY <1>1
<1>3. \A x \in moved : SetColumn(st, x) = <<dst, x[2]>>
  BY <1>1 DEF SetColumn, Update
<1>4. \A x \in moved, y \in moved : x # y => SetColumn(st, x) # SetColumn(st, y)
  <2>1. st.sql = "update" /\ st.table = "aclrules" /\ st.rows = old
    BY DEF Update
  <2>2. NoRowTwice(d, st)
    BY DEF Accepted
  <2> HIDE DEF st, old
  <2>3. \A x \in d.aclrules \cap old, y \in d.aclrules :
           x # y => SetColumn(st, x) # (IF y \in old THEN SetColumn(st, y) ELSE y)
    BY <2>1, <2>2 DEF NoRowTwice
  <2> HIDE DEF moved
  <2> QED BY <1>2, <2>3
<1>5. \A x, y \in moved : x[2] = y[2] => x = y
  BY <1>3, <1>4
<1>6. ASSUME fk, NEW x \in moved PROVE dst \in d.acls
  <2>1. st.sql = "update" /\ st.table = "aclrules" /\ st.rows = old
    BY DEF Update
  <2>2. SetColumn(st, x) \in Written(d, st)
    BY <1>2, <1>6, <2>1, Zenon DEF Written
  <2>3. <<dst, x[2]>> \in Written(d, st)
    BY <1>3, <1>6, <2>2
  <2>4. \A r \in Dangling(e) : r[2] # <<dst, x[2]>>
    BY <1>6, <2>3 DEF Accepted
  <2>5. e = With(d, "aclrules", (d.aclrules \ old) \cup {[y EXCEPT ![1] = dst] : y \in d.aclrules \cap old})
    BY AfterUpdate
  <2>6. [x EXCEPT ![1] = dst] = <<dst, x[2]>>
    BY <1>1, <1>6
  <2>7. e.acls = d.acls /\ <<dst, x[2]>> \in e.aclrules
    <3> DEFINE set == {[y EXCEPT ![1] = dst] : y \in d.aclrules \cap old}
    <3>1. <<dst, x[2]>> \in set
      BY <1>2, <1>6, <2>6
    <3> HIDE DEF set, old, moved
    <3>2. e.acls = d.acls /\ e.aclrules = (d.aclrules \ old) \cup set
      BY <2>5 DEF With, DB, set
    <3> QED BY <3>1, <3>2
  <2>8. dst \notin d.acls => <<"aclrules.acl_id", <<dst, x[2]>>>> \in Dangling(e)
    BY <2>7 DEF Dangling
  <2> HIDE DEF e
  <2> QED BY <2>4, <2>8
<1> QED BY <1>5, <1>6

-----------------------------------------------------------------------------
(* What a transaction has made of the database so far.                       *)

Did(d, st, fk, e) == Accepted(d, st, fk) /\ e = After(d, st)

\* The rows inserted by the statements from the second to that before pc.
InsertedBefore(p, pc) == UNION {p[i].rows : i \in 2 .. pc - 1}

\* e is what the statements of q before the one at pc have made of d.  Those of the
\* handler of accesses are accounted for by the rows inserted so far; that of members
\* gets no further than its first.
Made(q, pc, fk, d, e) ==
  LET p == Transaction(q)
      new == InsertedBefore(p, pc)
  IN  /\ q.op = "accessUpdate" =>
           /\ e = With(d, "groupaccess", (d.groupaccess \ ({q.group} \X AclId)) \cup new)
           /\ fk => \A ga \in new : ga[1] \in d.groups /\ ga[2] \in d.acls
      /\ q.op = "members" =>
           pc = 2 /\ e = With(d, "members", d.members \ (SourceId \X {q.group}))
      /\ ~IsListed(q) /\ pc = 2 => Did(d, p[1], fk, e)
      /\ ~IsListed(q) /\ pc = 3 =>
           Did(d, p[1], fk, After(d, p[1])) /\ Did(After(d, p[1]), p[2], fk, e)

\* A statement more, of a list: the row it inserts comes to the others.
LEMMA OneMoreRow ==
  ASSUME NEW p, NEW pc \in Nat \ {0, 1}, NEW n, n = pc + 1
  PROVE  InsertedBefore(p, n) = InsertedBefore(p, pc) \cup p[pc].rows
<1>1. 2 .. n - 1 = (2 .. pc - 1) \cup {pc}
  OBVIOUS
<1>2. InsertedBefore(p, n) = UNION {p[i].rows : i \in (2 .. pc - 1) \cup {pc}}
  BY <1>1 DEF InsertedBefore
<1>3. InsertedBefore(p, pc) = UNION {p[i].rows : i \in 2 .. pc - 1}
  BY DEF InsertedBefore
<1> QED BY <1>2, <1>3

\* After the first statement nothing is inserted.
LEMMA NoRowsYet == ASSUME NEW p PROVE InsertedBefore(p, 2) = {}
BY DEF InsertedBefore

\* A statement that is accepted makes the next of the databases Made speaks of.
LEMMA MadeByExec ==
  ASSUME NEW q \in Request, NEW p, p = Transaction(q), NEW pc \in 1 .. Len(p),
         NEW fk \in BOOLEAN, NEW d \in DB, NEW e \in DB,
         IF pc = 1 THEN e = d ELSE Made(q, pc, fk, d, e),
         Accepted(e, p[pc], fk)
  PROVE  Made(q, pc + 1, fk, d, After(e, p[pc]))
<1> DEFINE new == InsertedBefore(p, pc)
           f == After(e, p[pc])
<1>1. CASE q.op = "accessUpdate"
  <2> DEFINE kept == d.groupaccess \ ({q.group} \X AclId)
             next == InsertedBefore(p, pc + 1)
  <2>1. f = With(d, "groupaccess", kept \cup next)
        /\ (fk => \A ga \in next : ga[1] \in d.groups /\ ga[2] \in d.acls)
    <3>1. CASE pc = 1
      <4>1. p[1] = Delete("groupaccess", {q.group} \X AclId)
        BY <1>1, AccessUpdateProgram
      <4>2. f = With(d, "groupaccess", kept)
        BY <3>1, <4>1, AfterDelete
      <4>3. next = {}
        BY <3>1, NoRowsYet
      <4> HIDE DEF f, kept, next
      <4>4. kept \cup next = kept
        BY <4>3
      <4> QED BY <4>2, <4>3, <4>4
    <3>2. CASE pc # 1
      <4>1. pc \in 2 .. Len(p) /\ pc \in Nat \ {0, 1}
        BY <1>1, <3>2, AccessUpdateProgram
      <4>2. PICK a \in q.acls : p[pc] = InsertCommented("groupaccess", <<q.group, a>>)
        BY <1>1, <4>1, AccessUpdateProgram
      <4>3. next = new \cup {<<q.group, a>>}
        <5>1. p[pc].rows = {<<q.group, a>>}
          BY <4>2 DEF InsertCommented
        <5> DEFINE n == pc + 1
        <5>2. n = pc + 1
          OBVIOUS
        <5> HIDE DEF n
        <5>3. InsertedBefore(p, n) = InsertedBefore(p, pc) \cup p[pc].rows
          BY <4>1, <5>2, OneMoreRow
        <5> QED BY <5>1, <5>2, <5>3
      <4>4. /\ e = With(d, "groupaccess", kept \cup new)
            /\ fk => \A ga \in new : ga[1] \in d.groups /\ ga[2] \in d.acls
        BY <1>1, <3>2 DEF Made
      <4>5. f = With(e, "groupaccess", e.groupaccess \cup {<<q.group, a>>})
        BY <4>2, AfterInsertCommented
      <4>6. fk => q.group \in e.groups /\ a \in e.acls
        BY <4>2, InsertRefers
      <4> HIDE DEF f, new, next, kept
      <4>7. /\ e.groups = d.groups /\ e.acls = d.acls
            /\ e.groupaccess = kept \cup new
        BY <4>4 DEF With, DB
      <4>8. f = With(e, "groupaccess", kept \cup next)
        <5>1. e.groupaccess \cup {<<q.group, a>>} = kept \cup next
          BY <4>3, <4>7
        <5> QED BY <4>5, <5>1
      <4>9. With(e, "groupaccess", kept \cup next) = With(d, "groupaccess", kept \cup next)
        BY <4>4 DEF With, DB
      <4> QED BY <4>3, <4>4, <4>6, <4>7, <4>8, <4>9
    <3> QED BY <3>1, <3>2
  <2> HIDE DEF f
  <2>2. q.op # "members" /\ IsListed(q)
    BY <1>1 DEF IsListed
  <2>3. Made(q, pc + 1, fk, d, f)
    BY <1>1, <2>1, <2>2 DEF Made
  <2> QED BY <2>3 DEF f
<1>2. CASE q.op = "members"
  <2>1. pc = 1
    <3> SUFFICES ASSUME pc # 1 PROVE FALSE
      OBVIOUS
    <3>1. pc \in 2 .. Len(p)
      BY <1>2, MembersProgram
    <3>2. PICK s \in q.sources : p[pc] = InsertCommented("members", <<s, q.group>>)
      BY <1>2, <3>1, MembersProgram
    <3> QED BY <3>2, NoMemberInserted
  <2>2. p[1] = Delete("members", SourceId \X {q.group})
    BY <1>2, MembersProgram
  <2>3. f = With(d, "members", d.members \ (SourceId \X {q.group}))
    BY <2>1, <2>2, AfterDelete
  <2> HIDE DEF f
  <2>4. q.op # "accessUpdate" /\ IsListed(q) /\ pc + 1 = 2
    BY <1>2, <2>1 DEF IsListed
  <2>5. Made(q, pc + 1, fk, d, f)
    BY <1>2, <2>3, <2>4 DEF Made
  <2> QED BY <2>5 DEF f
<1>3. CASE ~IsListed(q)
  <2>1. q.op # "accessUpdate" /\ q.op # "members"
    BY <1>3 DEF IsListed
  <2>2. pc + 1 = 2 => Did(d, p[1], fk, f)
    <3> SUFFICES ASSUME pc + 1 = 2 PROVE Did(d, p[1], fk, f)
      OBVIOUS
    <3>1. pc = 1
      OBVIOUS
    <3> QED BY <3>1 DEF Did
  <2>3. pc + 1 = 3 => Did(d, p[1], fk, After(d, p[1])) /\ Did(After(d, p[1]), p[2], fk, f)
    <3> SUFFICES ASSUME pc + 1 = 3
                 PROVE  Did(d, p[1], fk, After(d, p[1])) /\ Did(After(d, p[1]), p[2], fk, f)
      OBVIOUS
    <3>1. pc = 2
      OBVIOUS
    <3>2. Did(d, p[1], fk, e)
      BY <1>3, <3>1 DEF Made
    <3> QED BY <3>1, <3>2 DEF Did
  <2> HIDE DEF f
  <2>4. Made(q, pc + 1, fk, d, f)
    BY <1>3, <2>1, <2>2, <2>3 DEF Made
  <2> QED BY <2>4 DEF f
<1> QED BY <1>1, <1>2, <1>3 DEF IsListed

-----------------------------------------------------------------------------
(* A transaction that has executed all its statements has made of the        *)
(* database what AdminStore says of its request.                             *)

Committed(q, fk) ==
  /\ q \in Request /\ fk \in BOOLEAN /\ db \in DB /\ db' \in DB
  /\ Made(q, Len(Transaction(q)) + 1, fk, db, db')
  /\ \A id \in Creates(q) : ~Names(db, id)

\* The shapes of the handlers with one statement and with two.
LEMMA OneStatement ==
  ASSUME NEW q, NEW fk, Committed(q, fk), ~IsListed(q), NEW st,
         Len(Transaction(q)) = 1, Transaction(q)[1] = st
  PROVE  Accepted(db, st, fk) /\ db' = After(db, st) /\ KeysHold(db')
BY DEF Committed, Made, Did, Accepted

\* The same of a transaction of two statements.
LEMMA TwoStatements ==
  ASSUME NEW q, NEW fk, Committed(q, fk), ~IsListed(q), NEW st, NEW then,
         Len(Transaction(q)) = 2, Transaction(q)[1] = st, Transaction(q)[2] = then
  PROVE  /\ Accepted(db, st, fk) /\ Accepted(After(db, st), then, fk)
         /\ db' = After(After(db, st), then) /\ KeysHold(After(db, st)) /\ KeysHold(db')
BY DEF Committed, Made, Did, Accepted

\* Each of the following: what the request's transaction leaves behind is what the
\* store promises of its handler.
LEMMA RuleNewStep ==
  ASSUME NEW q, NEW fk, Committed(q, fk), q.op = "ruleNew"
  PROVE  Store!RuleNew(q.rule, q.content, fk)
<1> DEFINE row == <<q.rule, q.content>>
           entry == <<NewAcl, q.rule>>
           mid == With(db, "rules", db.rules \cup {row})
<1>1. /\ db \in DB /\ fk \in BOOLEAN /\ ~IsListed(q) /\ Program(q, Transaction(q))
      /\ ~Names(db, q.rule)
  BY Programs DEF Committed, IsListed, Creates
<1>2. /\ q.rule \in RuleId /\ q.content \in Rule
      /\ Accepted(mid, Insert("aclrules", entry), fk) /\ KeysHold(mid)
      /\ db' = With(mid, "aclrules", mid.aclrules \cup {entry})
  <2>1. /\ q.rule \in RuleId /\ q.content \in Rule
        /\ Len(Transaction(q)) = 2
        /\ Transaction(q)[1] = Insert("rules", row)
        /\ Transaction(q)[2] = Insert("aclrules", entry)
    BY <1>1 DEF Program
  <2> HIDE DEF row, entry, mid
  <2>2. /\ Accepted(After(db, Insert("rules", row)), Insert("aclrules", entry), fk)
        /\ KeysHold(After(db, Insert("rules", row)))
        /\ db' = After(After(db, Insert("rules", row)), Insert("aclrules", entry))
    BY <1>1, <2>1, TwoStatements
  <2>3. After(db, Insert("rules", row)) = mid
    BY AfterInsert DEF mid
  <2>4. After(mid, Insert("aclrules", entry)) = With(mid, "aclrules", mid.aclrules \cup {entry})
    BY AfterInsert
  <2> QED BY <2>1, <2>2, <2>3, <2>4
<1>3. /\ mid \in DB /\ mid.rules = db.rules \cup {row}
      /\ mid.acls = db.acls /\ mid.aclrules = db.aclrules
  BY <1>1, <1>2 DEF With, DB
<1>4. \A x \in db.rules : x[1] # q.rule /\ x[2] # q.content
  <2>1. \A x \in db.rules : x[1] # q.rule
    BY <1>1 DEF Names
  <2>2. \A x, y \in db.rules \cup {row} : x # y => x[1] # y[1] /\ x[2] # y[2]
    BY <1>2, <1>3 DEF KeysHold, UniqueRows
  <2>3. ASSUME NEW x \in db.rules PROVE x[2] # q.content
    <3>1. row[1] = q.rule /\ row[2] = q.content
      OBVIOUS
    <3> HIDE DEF row
    <3>2. x # row
      BY <2>1, <3>1
    <3> QED BY <2>2, <3>1, <3>2
  <2> QED BY <2>1, <2>3
<1>5. \A ar \in db.aclrules : ar[2] # q.rule
  BY <1>1 DEF Names
<1>6. ASSUME fk PROVE NewAcl \in db.acls
  <2>1. fk = TRUE
    BY <1>1, <1>6
  <2>2. Accepted(mid, Insert("aclrules", <<NewAcl, q.rule>>), TRUE)
    BY <1>2, <2>1
  <2> HIDE DEF mid
  <2>3. NewAcl \in mid.acls
    BY <1>3, <2>2, InsertRefers
  <2> QED BY <1>3, <2>3
<1>7. db' = [db EXCEPT !.rules = @ \cup {row}, !.aclrules = @ \cup {entry}]
  BY <1>1, <1>2, <1>3 DEF With, DB
<1> QED BY <1>4, <1>5, <1>6, <1>7 DEF Store!RuleNew, Store!NewRuleId, Store!RuleIds

\* An edit of the rule.
LEMMA RuleEditStep ==
  ASSUME NEW q, NEW fk, Committed(q, fk), q.op = "ruleEdit"
  PROVE  \/ Store!RuleEdit(q.rule, q.content)
         \/ q.rule \notin RuleIds(db) /\ db' = db
<1> DEFINE row == <<q.rule, q.content>>
           old == {q.rule} \X Rule
           set == {[x EXCEPT ![2] = q.content] : x \in db.rules \cap old}
<1>1. /\ db \in DB /\ fk \in BOOLEAN /\ ~IsListed(q) /\ Program(q, Transaction(q))
  BY Programs DEF Committed, IsListed
<1>2. q.rule \in RuleId /\ q.content \in Rule
  BY <1>1 DEF Program
<1>3. db' = With(db, "rules", (db.rules \ old) \cup set) /\ KeysHold(db')
  <2>1. /\ Len(Transaction(q)) = 1
        /\ Transaction(q)[1] = Update("rules", old, 2, q.content)
    BY <1>1 DEF Program
  <2> HIDE DEF old
  <2>2. db' = After(db, Update("rules", old, 2, q.content)) /\ KeysHold(db')
    BY <1>1, <2>1, OneStatement
  <2> QED BY <2>2, AfterUpdate
<1>4. db.rules \subseteq RuleId \X Rule
  BY <1>1 DEF DB
<1>5. db.rules \ old = {x \in db.rules : x[1] # q.rule}
  BY <1>4
<1>6. \A y \in set : y = row /\ \E x \in db.rules : x[1] = q.rule
  OBVIOUS
<1>7. (\E x \in db.rules : x[1] = q.rule) => row \in set
  <2> SUFFICES ASSUME NEW x \in db.rules, x[1] = q.rule PROVE row \in set
    OBVIOUS
  <2>1. x \in db.rules \cap old /\ [x EXCEPT ![2] = q.content] = row
    BY <1>4
  <2> QED BY <2>1
<1> HIDE DEF old, set
<1>8. db'.rules = (db.rules \ old) \cup set
  BY <1>1, <1>3 DEF With, DB
<1>9. CASE q.rule \in Store!RuleIds(db)
  <2>1. set = {row}
    BY <1>6, <1>7, <1>9 DEF Store!RuleIds
  <2>2. db' = [db EXCEPT !.rules = {x \in @ : x[1] # q.rule} \cup {row}]
    BY <1>1, <1>3, <1>5, <2>1 DEF With, DB
  <2>3. \A x, y \in db'.rules : x # y => x[1] # y[1] /\ x[2] # y[2]
    BY <1>3 DEF KeysHold, UniqueRows
  <2>4. ASSUME NEW x \in db.rules, x[2] = q.content PROVE x[1] = q.rule
    <3>1. row[1] = q.rule /\ row[2] = q.content
      OBVIOUS
    <3> HIDE DEF row
    <3>2. row \in db'.rules
      BY <1>8, <2>1
    <3>3. x[1] # q.rule => x \in db'.rules /\ x # row
      BY <1>5, <1>8, <3>1
    <3> QED BY <2>3, <2>4, <3>1, <3>2, <3>3
  <2> QED BY <1>9, <2>2, <2>4 DEF Store!RuleEdit
<1>10. CASE q.rule \notin Store!RuleIds(db)
  <2>1. set = {} /\ \A x \in db.rules : x[1] # q.rule
    BY <1>6, <1>10 DEF Store!RuleIds
  <2>2. (db.rules \ old) \cup set = db.rules
    BY <1>5, <2>1
  <2>3. q.rule \notin RuleIds(db)
    BY <1>10 DEF RuleIds, Store!RuleIds
  <2> QED BY <1>1, <1>3, <2>2, <2>3 DEF With, DB
<1> QED BY <1>9, <1>10

\* The rules go, and their entries in ACLs.
LEMMA RuleDeleteStep ==
  ASSUME NEW q, NEW fk, Committed(q, fk), q.op = "ruleDelete"
  PROVE  Store!RuleDelete(q.rules, fk)
<1> DEFINE entries == AclId \X q.rules
           rows == q.rules \X Rule
           mid == With(db, "aclrules", db.aclrules \ entries)
<1>1. /\ db \in DB /\ fk \in BOOLEAN /\ ~IsListed(q) /\ Program(q, Transaction(q))
  BY Programs DEF Committed, IsListed
<1>2. db' = With(mid, "rules", mid.rules \ rows)
  <2>1. /\ Len(Transaction(q)) = 2
        /\ Transaction(q)[1] = Delete("aclrules", entries)
        /\ Transaction(q)[2] = Delete("rules", rows)
    BY <1>1 DEF Program
  <2> HIDE DEF entries, rows
  <2>2. db' = After(After(db, Delete("aclrules", entries)), Delete("rules", rows))
    BY <1>1, <2>1, TwoStatements
  <2> QED BY <2>2, AfterDelete
<1>3. db.aclrules \ entries = {ar \in db.aclrules : ar[2] \notin q.rules}
      /\ db.rules \ rows = {x \in db.rules : x[1] \notin q.rules}
  BY <1>1 DEF DB
<1> HIDE DEF entries, rows
<1>4. db' = [db EXCEPT !.aclrules = {ar \in @ : ar[2] \notin q.rules},
                       !.rules = {x \in @ : x[1] \notin q.rules}]
  BY <1>1, <1>2, <1>3 DEF With, DB
<1> QED BY <1>4 DEF Store!RuleDelete

\* The entries of the rules that are moved name the other ACL.
LEMMA AclMoveStep ==
  ASSUME NEW q, NEW fk, Committed(q, fk), q.op = "aclMove"
  PROVE  Store!AclMove(q.rules, q.dst, fk)
<1> DEFINE old == AclId \X q.rules
           moved == {ar \in db.aclrules : ar[2] \in q.rules}
           set == {[x EXCEPT ![1] = q.dst] : x \in db.aclrules \cap old}
           placed == {<<q.dst, ar[2]>> : ar \in moved}
<1>1. /\ db \in DB /\ fk \in BOOLEAN /\ ~IsListed(q) /\ Program(q, Transaction(q))
  BY Programs DEF Committed, IsListed
<1>2. q.rules \in SUBSET RuleId /\ q.dst \in AclId
  BY <1>1 DEF Program
<1>3. /\ Accepted(db, Update("aclrules", old, 1, q.dst), fk)
      /\ db' = With(db, "aclrules", (db.aclrules \ old) \cup set)
  <2>1. /\ Len(Transaction(q)) = 1
        /\ Transaction(q)[1] = Update("aclrules", old, 1, q.dst)
    BY <1>1 DEF Program
  <2> HIDE DEF old
  <2>2. /\ Accepted(db, Update("aclrules", old, 1, q.dst), fk)
        /\ db' = After(db, Update("aclrules", old, 1, q.dst))
    BY <1>1, <2>1, OneStatement
  <2> QED BY <2>2, AfterUpdate
<1>4. db.aclrules \subseteq AclId \X RuleId
  BY <1>1 DEF DB
<1>5. db.aclrules \cap old = moved /\ db.aclrules \ old = db.aclrules \ moved
  BY <1>4
<1>6. set = placed
  <2>1. \A x \in moved : [x EXCEPT ![1] = q.dst] = <<q.dst, x[2]>>
    BY <1>4
  <2> HIDE DEF moved, old
  <2>2. \A y \in set : \E x \in moved : y = <<q.dst, x[2]>>
    BY <1>5, <2>1
  <2>3. \A x \in moved : <<q.dst, x[2]>> \in set
    BY <1>5, <2>1
  <2> HIDE DEF set
  <2> QED BY <2>2, <2>3
<1>7. /\ \A x, y \in moved : x[2] = y[2] => x = y
      /\ fk => moved = {} \/ q.dst \in db.acls
  BY <1>1, <1>2, <1>3, MoveAccepted
<1> HIDE DEF old, set, moved, placed
<1>8. db' = [db EXCEPT !.aclrules = (@ \ moved) \cup placed]
  BY <1>1, <1>3, <1>5, <1>6 DEF With, DB
<1> QED BY <1>7, <1>8 DEF Store!AclMove, moved, placed

\* A new ACL.
LEMMA AclNewStep ==
  ASSUME NEW q, NEW fk, Committed(q, fk), q.op = "aclNew"
  PROVE  Store!AclNew(q.acl)
<1>1. /\ db \in DB /\ fk \in BOOLEAN /\ ~IsListed(q) /\ Program(q, Transaction(q))
      /\ ~Names(db, q.acl)
  BY Programs DEF Committed, IsListed, Creates
<1>2. db' = With(db, "acls", db.acls \cup {q.acl})
  <2>1. Len(Transaction(q)) = 1 /\ Transaction(q)[1] = InsertCommented("acls", q.acl)
    BY <1>1 DEF Program
  <2>2. db' = After(db, InsertCommented("acls", q.acl))
    BY <1>1, <2>1, OneStatement
  <2> QED BY <2>2, AfterInsertCommented
<1>3. db' = [db EXCEPT !.acls = @ \cup {q.acl}]
  BY <1>1, <1>2 DEF With, DB
<1> QED BY <1>1, <1>3 DEF Store!AclNew, Store!NewAclId, Names

\* An ACL that nothing names, if foreign keys are enforced.
LEMMA AclDeleteStep ==
  ASSUME NEW q, NEW fk, Committed(q, fk), q.op = "aclDelete"
  PROVE  Store!AclDelete(q.acl, fk) \/ (q.acl \notin db.acls /\ db' = db)
<1>1. /\ db \in DB /\ fk \in BOOLEAN /\ ~IsListed(q) /\ Program(q, Transaction(q))
  BY Programs DEF Committed, IsListed
<1>2. Accepted(db, Delete("acls", {q.acl}), fk) /\ db' = With(db, "acls", db.acls \ {q.acl})
  <2> DEFINE S == {q.acl}
  <2>1. Len(Transaction(q)) = 1 /\ Transaction(q)[1] = Delete("acls", S)
    BY <1>1 DEF Program
  <2> HIDE DEF S
  <2>2. Accepted(db, Delete("acls", S), fk) /\ db' = After(db, Delete("acls", S))
    BY <1>1, <2>1, OneStatement
  <2>3. Accepted(db, Delete("acls", S), fk) /\ db' = With(db, "acls", db.acls \ S)
    BY <2>2, AfterDelete
  <2> QED BY <2>3 DEF S
<1>3. db' = [db EXCEPT !.acls = @ \ {q.acl}]
  BY <1>1, <1>2 DEF With, DB
<1>4. CASE q.acl \in db.acls
  <2>1. ASSUME fk PROVE Accepted(db, Delete("acls", {q.acl}), TRUE)
    <3>1. fk = TRUE
      BY <1>1, <2>1
    <3> QED BY <1>2, <3>1
  <2>2. fk => /\ \A ar \in db.aclrules : ar[1] # q.acl
              /\ \A ga \in db.groupaccess : ga[2] # q.acl
    BY <1>1, <1>4, <2>1, DeleteUnused
  <2> QED BY <1>3, <2>2 DEF Store!AclDelete
<1>5. CASE q.acl \notin db.acls
  <2>1. db.acls \ {q.acl} = db.acls
    BY <1>5
  <2> QED BY <1>1, <1>2, <1>5, <2>1 DEF With, DB
<1> QED BY <1>4, <1>5

\* Only the comment of an ACL changes: for the model, nothing does.
LEMMA AclUpdateStep ==
  ASSUME NEW q, NEW fk, Committed(q, fk), q.op = "aclUpdate"
  PROVE  db' = db
<1>1. /\ db \in DB /\ ~IsListed(q) /\ Program(q, Transaction(q))
  BY Programs DEF Committed, IsListed
<1> DEFINE S == {}
<1>2. Len(Transaction(q)) = 1 /\ Transaction(q)[1] = Delete("acls", S)
  BY <1>1 DEF Program
<1> HIDE DEF S
<1>3. db' = After(db, Delete("acls", S))
  BY <1>1, <1>2, OneStatement
<1>4. db' = With(db, "acls", db.acls \ S)
  BY <1>3, AfterDelete
<1>5. db.acls \ S = db.acls
  BY DEF S
<1> QED BY <1>1, <1>4, <1>5 DEF With, DB

\* A new group.
LEMMA GroupNewStep ==
  ASSUME NEW q, NEW fk, Committed(q, fk), q.op = "groupNew"
  PROVE  Store!GroupNew(q.group)
<1>1. /\ db \in DB /\ fk \in BOOLEAN /\ ~IsListed(q) /\ Program(q, Transaction(q))
      /\ ~Names(db, q.group)
  BY Programs DEF Committed, IsListed, Creates
<1>2. db' = With(db, "groups", db.groups \cup {q.group})
  <2>1. Len(Transaction(q)) = 1 /\ Transaction(q)[1] = InsertCommented("groups", q.group)
    BY <1>1 DEF Program
  <2>2. db' = After(db, InsertCommented("groups", q.group))
    BY <1>1, <2>1, OneStatement
  <2> QED BY <2>2, AfterInsertCommented
<1>3. db' = [db EXCEPT !.groups = @ \cup {q.group}]
  BY <1>1, <1>2 DEF With, DB
<1> QED BY <1>1, <1>3 DEF Store!GroupNew, Store!NewGroupId, Names

\* A group that nothing names, if foreign keys are enforced.
LEMMA GroupDeleteStep ==
  ASSUME NEW q, NEW fk, Committed(q, fk), q.op = "groupDelete"
  PROVE  Store!GroupDelete(q.group, fk) \/ (q.group \notin db.groups /\ db' = db)
<1>1. /\ db \in DB /\ fk \in BOOLEAN /\ ~IsListed(q) /\ Program(q, Transaction(q))
  BY Programs DEF Committed, IsListed
<1>2. /\ Accepted(db, Delete("groups", {q.group}), fk)
      /\ db' = With(db, "groups", db.groups \ {q.group})
  <2> DEFINE S == {q.group}
  <2>1. Len(Transaction(q)) = 1 /\ Transaction(q)[1] = Delete("groups", S)
    BY <1>1 DEF Program
  <2> HIDE DEF S
  <2>2. Accepted(db, Delete("groups", S), fk) /\ db' = After(db, Delete("groups", S))
    BY <1>1, <2>1, OneStatement
  <2>3. Accepted(db, Delete("groups", S), fk) /\ db' = With(db, "groups", db.groups \ S)
    BY <2>2, AfterDelete
  <2> QED BY <2>3 DEF S
<1>3. db' = [db EXCEPT !.groups = @ \ {q.group}]
  BY <1>1, <1>2 DEF With, DB
<1>4. CASE q.group \in db.groups
  <2>1. ASSUME fk PROVE Accepted(db, Delete("groups", {q.group}), TRUE)
    <3>1. fk = TRUE
      BY <1>1, <2>1
    <3> QED BY <1>2, <3>1
  <2>2. fk => /\ \A m \in db.members : m[2] # q.group
              /\ \A ga \in db.groupaccess : ga[1] # q.group
    BY <1>1, <1>4, <2>1, DeleteUnused
  <2> QED BY <1>3, <2>2 DEF Store!GroupDelete
<1>5. CASE q.group \notin db.groups
  <2>1. db.groups \ {q.group} = db.groups
    BY <1>5
  <2> QED BY <1>1, <1>2, <1>5, <2>1 DEF With, DB
<1> QED BY <1>4, <1>5

\* A source that is in no group, if foreign keys are enforced.
LEMMA SourceDeleteStep ==
  ASSUME NEW q, NEW fk, Committed(q, fk), q.op = "sourceDelete"
  PROVE  Store!SourceDelete(q.source, fk) \/ (q.source \notin SourceIds(db) /\ db' = db)
<1> DEFINE S == {q.source} \X Address
<1>1. /\ db \in DB /\ fk \in BOOLEAN /\ ~IsListed(q) /\ Program(q, Transaction(q))
  BY Programs DEF Committed, IsListed
<1>2. Accepted(db, Delete("sources", S), fk) /\ db' = With(db, "sources", db.sources \ S)
  <2>1. Len(Transaction(q)) = 1 /\ Transaction(q)[1] = Delete("sources", S)
    BY <1>1 DEF Program
  <2> HIDE DEF S
  <2>2. Accepted(db, Delete("sources", S), fk) /\ db' = After(db, Delete("sources", S))
    BY <1>1, <2>1, OneStatement
  <2> QED BY <2>2, AfterDelete
<1>3. db.sources \ S = {row \in db.sources : row[1] # q.source}
  BY <1>1 DEF DB
<1>4. CASE q.source \in SourceIds(db)
  <2>1. ASSUME fk PROVE Accepted(db, Delete("sources", {q.source} \X Address), TRUE)
    <3>1. fk = TRUE
      BY <1>1, <2>1
    <3> QED BY <1>2, <3>1
  <2>2. fk => \A m \in db.members : m[1] # q.source
    BY <1>1, <1>4, <2>1, DeleteUnused
  <2> HIDE DEF S
  <2>3. db' = [db EXCEPT !.sources = {row \in @ : row[1] # q.source}]
    BY <1>1, <1>2, <1>3 DEF With, DB
  <2> QED BY <2>2, <2>3 DEF Store!SourceDelete
<1>5. CASE q.source \notin SourceIds(db)
  <2>1. {row \in db.sources : row[1] # q.source} = db.sources
    BY <1>5 DEF SourceIds
  <2> HIDE DEF S
  <2> QED BY <1>1, <1>2, <1>3, <1>5, <2>1 DEF With, DB
<1> QED BY <1>4, <1>5

\* No new source is committed: its membership has no comment to set.
LEMMA MembersNewStep ==
  ASSUME NEW q, NEW fk, Committed(q, fk), q.op = "membersNew"
  PROVE  FALSE
<1> DEFINE row == <<q.source, q.address>>
           entry == <<q.source, q.group>>
<1>1. ~IsListed(q) /\ Program(q, Transaction(q))
  BY Programs DEF Committed, IsListed
<1>2. /\ Len(Transaction(q)) = 2
      /\ Transaction(q)[1] = InsertCommented("sources", row)
      /\ Transaction(q)[2] = InsertCommented("members", entry)
  BY <1>1 DEF Program
<1> HIDE DEF row, entry
<1>3. Accepted(After(db, InsertCommented("sources", row)), InsertCommented("members", entry), fk)
  BY <1>1, <1>2, TwoStatements
<1> QED BY <1>3, NoMemberInserted

\* All of the group's access is replaced.
LEMMA AccessUpdateStep ==
  ASSUME NEW q, NEW fk, Committed(q, fk), q.op = "accessUpdate"
  PROVE  Store!AccessUpdate(q.group, q.acls, fk)
<1> DEFINE p == Transaction(q)
           new == InsertedBefore(p, Len(p) + 1)
<1>1. q \in Request /\ db \in DB /\ fk \in BOOLEAN
  BY DEF Committed
<1>2. /\ db' = With(db, "groupaccess", (db.groupaccess \ ({q.group} \X AclId)) \cup new)
      /\ fk => \A ga \in new : ga[1] \in db.groups /\ ga[2] \in db.acls
  BY DEF Committed, Made
<1>3. /\ Len(p) \in Nat
      /\ \A i \in 2 .. Len(p) : \E a \in q.acls : p[i].rows = {<<q.group, a>>}
      /\ \A a \in q.acls : \E i \in 2 .. Len(p) : p[i].rows = {<<q.group, a>>}
  <2>1. \A a \in q.acls : InsertCommented("groupaccess", <<q.group, a>>).rows = {<<q.group, a>>}
    BY DEF InsertCommented
  <2>2. /\ Len(p) \in Nat
        /\ \A i \in 2 .. Len(p) : \E a \in q.acls : p[i] = InsertCommented("groupaccess", <<q.group, a>>)
        /\ \A a \in q.acls : \E i \in 2 .. Len(p) : p[i] = InsertCommented("groupaccess", <<q.group, a>>)
    BY <1>1, AccessUpdateProgram
  <2> HIDE DEF p
  <2> QED BY <2>1, <2>2
<1>4. new = {q.group} \X q.acls
  <2>1. 2 .. (Len(p) + 1) - 1 = 2 .. Len(p)
    BY <1>3
  <2>2. new = UNION {p[i].rows : i \in 2 .. Len(p)}
    BY <2>1 DEF InsertedBefore
  <2> HIDE DEF p, new
  <2>3. \A x \in new : \E a \in q.acls : x = <<q.group, a>>
    BY <1>3, <2>2
  <2>4. \A a \in q.acls : <<q.group, a>> \in new
    BY <1>3, <2>2
  <2> QED BY <2>3, <2>4
<1>5. db.groupaccess \ ({q.group} \X AclId) = {ga \in db.groupaccess : ga[1] # q.group}
  BY <1>1 DEF DB
<1>6. ASSUME fk, NEW a \in q.acls PROVE q.group \in db.groups /\ q.acls \subseteq db.acls
  <2>1. \A b \in q.acls : <<q.group, b>> \in new /\ <<q.group, b>>[1] = q.group
                          /\ <<q.group, b>>[2] = b
    BY <1>4
  <2> HIDE DEF new
  <2>2. \A b \in q.acls : q.group \in db.groups /\ b \in db.acls
    BY <1>2, <1>6, <2>1
  <2> QED BY <1>6, <2>2
<1> HIDE DEF new
<1>7. db' = [db EXCEPT !.groupaccess = {ga \in @ : ga[1] # q.group} \cup ({q.group} \X q.acls)]
  BY <1>1, <1>2, <1>4, <1>5 DEF With, DB
<1> QED BY <1>6, <1>7 DEF Store!AccessUpdate

\* The group's members are deleted, if the form lists none.
LEMMA MembersStep ==
  ASSUME NEW q, NEW fk, Committed(q, fk), q.op = "members"
  PROVE  Store!MembersMembers(q.group) /\ q.sources = {}
<1> DEFINE n == Len(Transaction(q))
<1>1. q \in Request /\ db \in DB
  BY DEF Committed
<1>2. n \in Nat \ {0} /\ \A s \in q.sources : \E i \in 2 .. n : TRUE
  BY <1>1, MembersProgram
<1>3. n + 1 = 2 /\ db' = With(db, "members", db.members \ (SourceId \X {q.group}))
  BY DEF Committed, Made
<1>4. q.sources = {}
  <2> HIDE DEF n
  <2>1. \A i \in 2 .. n : FALSE
    BY <1>2, <1>3
  <2> QED BY <1>2, <2>1
<1>5. db.members \ (SourceId \X {q.group}) = {m \in db.members : m[2] # q.group}
  BY <1>1 DEF DB
<1>6. db' = [db EXCEPT !.members = {m \in @ : m[2] # q.group}]
  BY <1>1, <1>3, <1>5 DEF With, DB
<1> QED BY <1>4, <1>6 DEF Store!MembersMembers

\* Whatever a request was, its commit is a step of AdminStore, or changes nothing.
LEMMA CommittedStep ==
  ASSUME NEW q, NEW fk, Committed(q, fk)
  PROVE  [Store!Next]_db
<1>1. q \in Request /\ fk \in BOOLEAN /\ Program(q, Transaction(q)) /\ Store!Rule = Rule
  BY Programs DEF Committed, Store!Rule, Rule
<1>2. CASE q.op \in {"ruleNew", "ruleEdit", "ruleDelete"}
  <2>1. Store!RuleStep(fk) \/ db' = db
    BY <1>1, <1>2, RuleNewStep, RuleEditStep, RuleDeleteStep DEF Program, Store!RuleStep
  <2> QED BY <1>1, <2>1 DEF Store!Next
<1>3. CASE q.op \in {"aclNew", "aclDelete", "aclUpdate", "aclMove"}
  <2>1. Store!AclStep(fk) \/ db' = db
    BY <1>1, <1>3, AclNewStep, AclDeleteStep, AclUpdateStep, AclMoveStep DEF Program, Store!AclStep
  <2> QED BY <1>1, <2>1 DEF Store!Next
<1>4. CASE q.op \in {"groupNew", "groupDelete", "membersNew", "sourceDelete"}
  <2>1. Store!GroupStep(fk) \/ db' = db
    BY <1>1, <1>4, GroupNewStep, GroupDeleteStep, MembersNewStep, SourceDeleteStep
       DEF Program, Store!GroupStep
  <2> QED BY <1>1, <2>1 DEF Store!Next
<1>5. CASE q.op \in {"accessUpdate", "members"}
  <2>1. q.op = "accessUpdate" => q.group \in GroupId /\ q.acls \in SUBSET AclId
    BY <1>1, AccessUpdateProgram
  <2>2. q.op = "members" => q.group \in GroupId
    BY <1>1, MembersProgram
  <2>3. Store!GroupStep(fk)
    BY <1>5, <2>1, <2>2, AccessUpdateStep, MembersStep DEF Store!GroupStep
  <2> QED BY <1>1, <2>3 DEF Store!Next
<1> QED BY <1>1, <1>2, <1>3, <1>4, <1>5, Operations

-----------------------------------------------------------------------------
(* What is true between the steps of the transactions.                       *)

Active(w) == tx[w].status \in {"open", "timedOut"}

\* The database under the write lock is what its owner's statements have made of
\* the one committed last.
WorkInv ==
  /\ db \in DB /\ work \in DB
  /\ \A w \in Worker : tx[w].status = "open" => tx[w].pc <= Len(Prog(w)) + 1
  /\ \A w \in Worker : writer = w => Made(tx[w].req, tx[w].pc, tx[w].fk, db, work)

\* A UUID that is in a row or in a request was generated before, and one that a
\* request is about to create is in nobody else's rows or requests.
IdsInv ==
  /\ NewAcl \in minted
  /\ \A id \in Ids : Names(db, id) \/ Names(work, id) => id \in minted
  /\ \A w \in Worker : Active(w) =>
       /\ Mentions(tx[w].req) \subseteq minted
       /\ Creates(tx[w].req) \subseteq minted \ {NewAcl}
       /\ \A id \in Creates(tx[w].req) :
            ~Names(db, id) /\ (writer # w => ~Names(work, id))
  /\ \A v, w \in Worker :
       v # w /\ Active(v) /\ Active(w) =>
         Mentions(tx[v].req) \cap Creates(tx[w].req) = {}

TxInv == LockInv /\ WorkInv /\ IdsInv

\* What a request that begins brings: new ids for what it creates, and for the rest
\* ids that a page may have shown.
Minting(q) ==
  /\ Creates(q) \cap minted = {} /\ minted' = minted \cup Creates(q)
  /\ Mentions(q) \ Creates(q) \subseteq (minted \ Pending) \cup {NewAcl}

\* Whatever arrives and begins a transaction brings such ids.
LEMMA BeginsWithIds ==
  ASSUME NEW w \in Worker, Arrive(w)
  PROVE  \/ \E q \in Request : Begin(w, q) /\ Minting(q)
         \/ Reject(w) \/ ReadPage(w)
<1> USE DEF Minting, Mentions, Creates, Mint, Known, Shown
<1>1. CASE RuleNew(w)
  <2>1. PICK r \in RuleId, c \in Rule :
          Mint(r) /\ Begin(w, [op |-> "ruleNew", rule |-> r, content |-> c])
    BY <1>1 DEF RuleNew
  <2> DEFINE q == [op |-> "ruleNew", rule |-> r, content |-> c]
  <2>2. q \in Request /\ Minting(q)
    BY <2>1 DEF Request
  <2> QED BY <2>1, <2>2
<1>2. CASE RuleEdit(w)
  <2>1. PICK r \in RuleId, c \in Rule :
          Known({r}) /\ Begin(w, [op |-> "ruleEdit", rule |-> r, content |-> c])
    BY <1>2 DEF RuleEdit
  <2> DEFINE q == [op |-> "ruleEdit", rule |-> r, content |-> c]
  <2>2. q \in Request /\ Minting(q)
    BY <2>1 DEF Request
  <2> QED BY <2>1, <2>2
<1>3. CASE RuleDelete(w)
  <2>1. PICK rs \in SUBSET RuleId : Known(rs) /\ Begin(w, [op |-> "ruleDelete", rules |-> rs])
    BY <1>3 DEF RuleDelete
  <2> DEFINE q == [op |-> "ruleDelete", rules |-> rs]
  <2>2. q \in Request /\ Minting(q)
    BY <2>1 DEF Request
  <2> QED BY <2>1, <2>2
<1>4. CASE AclNew(w)
  <2>1. PICK a \in AclId : Mint(a) /\ Begin(w, [op |-> "aclNew", acl |-> a])
    BY <1>4 DEF AclNew
  <2> DEFINE q == [op |-> "aclNew", acl |-> a]
  <2>2. q \in Request /\ Minting(q)
    BY <2>1 DEF Request
  <2> QED BY <2>1, <2>2
<1>5. CASE AclDelete(w) \/ AclUpdate(w)
  <2>1. PICK op \in {"aclDelete", "aclUpdate"}, a \in AclId :
          Known({a}) /\ Begin(w, [op |-> op, acl |-> a])
    BY <1>5 DEF AclDelete, AclUpdate
  <2> DEFINE q == [op |-> op, acl |-> a]
  <2>2. q \in Request /\ Minting(q)
    BY <2>1 DEF Request
  <2> QED BY <2>1, <2>2
<1>6. CASE AclMove(w)
  <2>1. PICK rs \in SUBSET RuleId, a \in AclId :
          Known(rs \cup {a}) /\ Begin(w, [op |-> "aclMove", rules |-> rs, dst |-> a])
    BY <1>6 DEF AclMove
  <2> DEFINE q == [op |-> "aclMove", rules |-> rs, dst |-> a]
  <2>2. q \in Request /\ Minting(q)
    BY <2>1 DEF Request
  <2> QED BY <2>1, <2>2
<1>7. CASE GroupNew(w)
  <2>1. PICK g \in GroupId : Mint(g) /\ Begin(w, [op |-> "groupNew", group |-> g])
    BY <1>7 DEF GroupNew
  <2> DEFINE q == [op |-> "groupNew", group |-> g]
  <2>2. q \in Request /\ Minting(q)
    BY <2>1 DEF Request
  <2> QED BY <2>1, <2>2
<1>8. CASE GroupDelete(w)
  <2>1. PICK g \in GroupId : Known({g}) /\ Begin(w, [op |-> "groupDelete", group |-> g])
    BY <1>8 DEF GroupDelete
  <2> DEFINE q == [op |-> "groupDelete", group |-> g]
  <2>2. q \in Request /\ Minting(q)
    BY <2>1 DEF Request
  <2> QED BY <2>1, <2>2
<1>9. CASE AccessUpdate(w)
  <2>1. PICK g \in GroupId, as \in SUBSET AclId :
          Known({g} \cup as) /\ Begin(w, [op |-> "accessUpdate", group |-> g, acls |-> as])
    BY <1>9 DEF AccessUpdate
  <2> DEFINE q == [op |-> "accessUpdate", group |-> g, acls |-> as]
  <2>2. q \in Request /\ Minting(q)
    BY <2>1 DEF Request
  <2> QED BY <2>1, <2>2
<1>10. CASE MembersMembers(w)
  <2>1. PICK g \in GroupId, ss \in SUBSET SourceId : \E n \in {0, Cardinality(ss)} :
          /\ Known({g} \cup ss)
          /\ Begin(w, [op |-> "members", group |-> g, sources |-> ss, comments |-> n])
    BY <1>10 DEF MembersMembers
  <2>2. PICK n \in {0, Cardinality(ss)} :
          /\ Known({g} \cup ss)
          /\ Begin(w, [op |-> "members", group |-> g, sources |-> ss, comments |-> n])
    BY <2>1
  <2>3. n \in Nat
    BY IdAssumption, FS_Subset, FS_CardinalityType DEF Ids
  <2> DEFINE q == [op |-> "members", group |-> g, sources |-> ss, comments |-> n]
  <2>4. q \in Request /\ Minting(q)
    BY <2>2, <2>3 DEF Request
  <2> QED BY <2>2, <2>4
<1>11. CASE MembersNew(w)
  <2>1. PICK g \in GroupId, s \in SourceId, addr \in Address :
          /\ Mint(s) /\ Shown({g})
          /\ Begin(w, [op |-> "membersNew", group |-> g, source |-> s, address |-> addr])
    BY <1>11 DEF MembersNew
  <2> DEFINE q == [op |-> "membersNew", group |-> g, source |-> s, address |-> addr]
  <2>2. q \in Request /\ Minting(q)
    BY <2>1 DEF Request
  <2> QED BY <2>1, <2>2
<1>12. CASE SourceDelete(w)
  <2>1. PICK s \in SourceId : Known({s}) /\ Begin(w, [op |-> "sourceDelete", source |-> s])
    BY <1>12 DEF SourceDelete
  <2> DEFINE q == [op |-> "sourceDelete", source |-> s]
  <2>2. q \in Request /\ Minting(q)
    BY <2>1 DEF Request
  <2> QED BY <2>1, <2>2
<1> QED
  BY <1>1, <1>2, <1>3, <1>4, <1>5, <1>6, <1>7, <1>8, <1>9, <1>10, <1>11, <1>12 DEF Arrive

\* A request that begins does not use an id that another one creates.
LEMMA BeginKeepsIds ==
  ASSUME TxInv, NEW w \in Worker, NEW q \in Request, Begin(w, q), Minting(q)
  PROVE  IdsInv' /\ WorkInv'
<1>1. PICK fk \in BOOLEAN : tx' = [tx EXCEPT ![w] = Open(q, fk)]
  BY DEF Begin
<1>2. /\ writer # w /\ UNCHANGED <<db, work, writer>>
      /\ tx = [v \in Worker |-> tx[v]]
  BY DEF Begin, Serving, TxInv, LockInv, TxTypes, OwnLock
<1>3. /\ tx'[w].status = "open" /\ tx'[w].req = q /\ tx'[w].pc = 1
      /\ \A v \in Worker : v # w => tx'[v] = tx[v]
  BY <1>1, <1>2 DEF Open
<1>4. Creates(q) \subseteq Ids
  BY DEF Creates, Request, Ids
<1>5. WorkInv'
  <2>1. Len(Transaction(q)) \in Nat \ {0}
    BY HasStatements
  <2> QED BY <1>2, <1>3, <2>1 DEF TxInv, WorkInv, Prog
<1>6. IdsInv'
  <2> USE DEF TxInv, IdsInv
  <2>1. Creates(q) \cap minted = {} /\ minted' = minted \cup Creates(q)
        /\ Mentions(q) \ Creates(q) \subseteq (minted \ Pending) \cup {NewAcl}
    BY DEF Minting
  <2>2. NewAcl \in minted'
    BY <2>1
  <2>3. \A id \in Ids : Names(db, id) \/ Names(work, id) => id \in minted'
    BY <2>1
  <2>4. \A v \in Worker \ {w} : Active(v)' => Active(v)
    BY <1>3 DEF Active
  <2>5. \A v \in Worker \ {w} : Active(v) => Creates(tx[v].req) \subseteq Pending
    BY DEF Active, Pending
  <2>6. /\ Mentions(q) \subseteq minted' /\ Creates(q) \subseteq minted' \ {NewAcl}
        /\ \A id \in Creates(q) : ~Names(db, id) /\ ~Names(work, id)
    BY <1>4, <2>1
  <2>7. \A v \in Worker \ {w} : Active(v) =>
          /\ Mentions(q) \cap Creates(tx[v].req) = {}
          /\ Mentions(tx[v].req) \cap Creates(q) = {}
    BY <2>1, <2>5
  <2>8. \A v \in Worker : Active(v)' =>
          /\ Mentions(tx'[v].req) \subseteq minted'
          /\ Creates(tx'[v].req) \subseteq minted' \ {NewAcl}
          /\ \A id \in Creates(tx'[v].req) :
               ~Names(db, id) /\ (writer # v => ~Names(work, id))
    BY <1>3, <2>1, <2>4, <2>6
  <2>9. \A v, u \in Worker :
          v # u /\ Active(v)' /\ Active(u)' => Mentions(tx'[v].req) \cap Creates(tx'[u].req) = {}
    BY <1>3, <2>4, <2>7
  <2> QED BY <1>2, <2>2, <2>3, <2>8, <2>9
<1> QED BY <1>5, <1>6

\* A step that ends a request, or all of them, without committing: what is under
\* the write lock is given up with the lock, and nobody has another request.
LEMMA EndKeepsIds ==
  ASSUME TxInv, UNCHANGED <<db, minted>>,
         \A v \in Worker : Active(v)' => Active(v) /\ tx'[v].req = tx[v].req,
         \A v \in Worker : tx'[v].status = "open" => tx'[v] = tx[v],
         \/ UNCHANGED <<work, writer>>
            /\ \A v \in Worker : writer = v => tx'[v] = tx[v]
         \/ work' = db /\ writer' = Nobody
  PROVE  IdsInv' /\ WorkInv'
<1> USE DEF TxInv
<1>1. IdsInv'
  BY Zenon DEF IdsInv
<1>2. WorkInv'
  <2>1. db' \in DB /\ work' \in DB
    BY DEF WorkInv
  <2>2. \A v \in Worker : tx'[v].status = "open" => tx'[v].pc <= Len(Transaction(tx'[v].req)) + 1
    BY DEF WorkInv, Prog
  <2>3. \A v \in Worker : writer' = v => Made(tx'[v].req, tx'[v].pc, tx'[v].fk, db', work')
    BY WorkerAssumption DEF WorkInv
  <2> QED BY <2>1, <2>2, <2>3 DEF WorkInv, Prog
<1> QED BY <1>1, <1>2

\* What is rolled back leaves no ids behind.
LEMMA RollbackKeepsIds ==
  ASSUME TxInv, NEW w \in Worker, NEW t, t.status \in {"none", "answered"}, Rollback(w, t)
  PROVE  IdsInv' /\ WorkInv'
<1>1. tx = [v \in Worker |-> tx[v]]
  BY DEF TxInv, LockInv, TxTypes
<1>2. /\ tx'[w].status \in {"none", "answered"}
      /\ \A v \in Worker : v # w => tx'[v] = tx[v]
      /\ UNCHANGED <<db, minted>>
  BY <1>1 DEF Rollback
<1>3. \/ UNCHANGED <<work, writer>> /\ \A v \in Worker : writer = v => tx'[v] = tx[v]
      \/ work' = db /\ writer' = Nobody
  BY <1>2 DEF Rollback
<1>4. \A v \in Worker : Active(v)' => Active(v) /\ tx'[v].req = tx[v].req
  BY <1>2 DEF Active
<1>5. \A v \in Worker : tx'[v].status = "open" => tx'[v] = tx[v]
  BY <1>2
<1> QED BY <1>2, <1>3, <1>4, <1>5, EndKeepsIds

\* A statement writes only ids that its request mentions.
LEMMA ExecKeepsIds ==
  ASSUME TxInv, NEW w \in Worker, Exec(w)
  PROVE  IdsInv' /\ WorkInv'
<1> DEFINE q == tx[w].req
           p == Prog(w)
           pc == tx[w].pc
           fk == tx[w].fk
<1>1. /\ tx = [v \in Worker |-> tx[v]] /\ tx[w] \in Opened /\ tx[w].status = "open"
      /\ writer \in {Nobody, w}
  BY DEF Exec, InProgram, CanWrite, TxInv, LockInv, TxTypes
<1>2. /\ q \in Request /\ fk \in BOOLEAN /\ p = Transaction(q) /\ pc \in 1 .. Len(p)
  <2>1. q \in Request /\ fk \in BOOLEAN /\ pc \in Nat \ {0} /\ p = Transaction(q)
    BY <1>1 DEF Opened, Prog
  <2>2. pc <= Len(p) /\ Len(p) \in Nat
    BY <2>1, HasStatements DEF Exec, InProgram
  <2> QED BY <2>1, <2>2
<1>3. /\ writer' = w /\ work' = After(work, p[pc]) /\ UNCHANGED <<db, minted>>
      /\ Accepted(work, p[pc], fk)
  BY DEF Exec, Stmt
<1>4. /\ tx'[w].status = "open" /\ tx'[w].req = q /\ tx'[w].fk = fk /\ tx'[w].pc = pc + 1
      /\ \A v \in Worker : v # w => tx'[v] = tx[v]
  BY <1>1 DEF Exec, Opened
<1>5. Keeps(q, work, work')
  <2>1. work \in DB
    BY DEF TxInv, WorkInv
  <2> HIDE DEF q, p, pc
  <2> QED BY <1>2, <1>3, <2>1, StatementKeeps
<1>6. Active(w) /\ \A v \in Worker : Active(v)' => Active(v) /\ tx'[v].req = tx[v].req
  BY <1>1, <1>4 DEF Active
<1>7. IdsInv'
  <2> USE DEF TxInv, IdsInv
  <2>1. Mentions(q) \subseteq minted
    BY <1>6
  <2>2. \A id \in Ids : Names(db, id) \/ Names(work', id) => id \in minted
    BY <1>5, <2>1 DEF Keeps
  <2>3. ASSUME NEW v \in Worker, v # w, Active(v), NEW id \in Creates(tx[v].req)
        PROVE  ~Names(work', id)
    <3>1. v # writer
      BY <1>1, <2>3, WorkerAssumption
    <3>2. ~Names(work, id) /\ id \notin Mentions(q)
      BY <1>6, <2>3, <3>1
    <3> QED BY <1>5, <3>2 DEF Keeps
  <2> HIDE DEF q, p, pc, fk
  <2> QED BY <1>3, <1>6, <2>2, <2>3
<1>8. WorkInv'
  <2>1. db \in DB /\ work \in DB /\ work' \in DB
    BY <1>5 DEF TxInv, WorkInv, Keeps
  <2>2. IF pc = 1 THEN work = db ELSE Made(q, pc, fk, db, work)
    <3>1. pc = 1 => writer # w
      BY <1>1 DEF TxInv, LockInv, OwnLock
    <3>2. pc # 1 => pc > 1
      BY <1>2
    <3> QED BY <1>1, <3>1, <3>2 DEF TxInv, LockInv, OwnLock, WorkInv
  <2> HIDE DEF q, p, pc, fk
  <2>3. Made(q, pc + 1, fk, db, After(work, p[pc]))
    BY <1>2, <1>3, <2>1, <2>2, MadeByExec
  <2>4. Made(tx'[w].req, tx'[w].pc, tx'[w].fk, db', work')
    BY <1>3, <1>4, <2>3
  <2>5. tx'[w].pc <= Len(Transaction(tx'[w].req)) + 1
    <3>1. Len(p) \in Nat
      BY <1>2, HasStatements
    <3> QED BY <1>2, <1>4, <3>1
  <2>6. \A v \in Worker : v # w /\ tx[v].status = "open" => tx[v].pc <= Len(Transaction(tx[v].req)) + 1
    BY DEF TxInv, WorkInv, Prog
  <2> QED BY <1>3, <1>4, <2>1, <2>4, <2>5, <2>6 DEF WorkInv, Prog
<1> QED BY <1>7, <1>8

\* What a commit commits.
LEMMA CommitMade ==
  ASSUME TxInv, NEW w \in Worker, Commit(w)
  PROVE  Committed(tx[w].req, tx[w].fk)
<1>1. writer = w /\ db' = work /\ tx[w].status = "open" /\ tx[w] \in Opened
  BY OwnCommit DEF Commit, AtEnd, TxInv, LockInv, TxTypes
<1>2. tx[w].req \in Request /\ tx[w].fk \in BOOLEAN /\ tx[w].pc \in Nat
  BY <1>1 DEF Opened
<1>3. tx[w].pc = Len(Transaction(tx[w].req)) + 1
  <2>1. Len(Transaction(tx[w].req)) \in Nat
    BY <1>2, HasStatements
  <2>2. tx[w].pc > Len(Transaction(tx[w].req)) /\ tx[w].pc <= Len(Transaction(tx[w].req)) + 1
    BY <1>1 DEF Commit, AtEnd, Prog, TxInv, WorkInv
  <2> QED BY <1>2, <2>1, <2>2
<1>4. Made(tx[w].req, tx[w].pc, tx[w].fk, db, work)
  BY <1>1 DEF TxInv, WorkInv
<1>5. \A id \in Creates(tx[w].req) : ~Names(db, id)
  BY <1>1 DEF TxInv, IdsInv, Active
<1>6. db \in DB /\ work \in DB
  BY DEF TxInv, WorkInv
<1> QED BY <1>1, <1>2, <1>3, <1>4, <1>5, <1>6 DEF Committed

\* What is committed names ids that are minted.
LEMMA CommitKeepsIds ==
  ASSUME TxInv, NEW w \in Worker, Commit(w)
  PROVE  IdsInv' /\ WorkInv'
<1>1. writer = w /\ db' = work /\ work' = work /\ writer' = Nobody /\ minted' = minted
  BY OwnCommit DEF Commit, TxInv
<1>2. /\ tx'[w].status = "answered" /\ \A v \in Worker : v # w => tx'[v] = tx[v]
  BY DEF Commit, Answered, TxInv, LockInv, TxTypes
<1>3. \A v \in Worker : Active(v)' => v # w /\ Active(v) /\ tx'[v] = tx[v]
  BY <1>2 DEF Active
<1>4. IdsInv'
  BY <1>1, <1>3 DEF TxInv, IdsInv
<1>5. WorkInv'
  BY <1>1, <1>2, WorkerAssumption DEF TxInv, WorkInv, Prog
<1> QED BY <1>4, <1>5

\* The invariant is inductive.
LEMMA TxInvKept == ASSUME TxInv, [Next]_vars PROVE TxInv'
<1>0. LockInv'
  BY LockInvKept DEF TxInv
<1>1. ASSUME NEW w \in Worker, Arrive(w) PROVE IdsInv' /\ WorkInv'
  <2>1. CASE \E q \in Request : Begin(w, q) /\ Minting(q)
    BY <2>1, BeginKeepsIds
  <2>2. CASE Reject(w) \/ ReadPage(w)
    <3>1. PICK t : tx' = [tx EXCEPT ![w] = t] /\ t.status \in {"answered", "reading"}
      <4>1. CASE Reject(w)
        <5>1. PICK a \in {BadRequest, InternalError} : tx' = [tx EXCEPT ![w] = Answered(a)]
          BY <4>1 DEF Reject
        <5>2. Answered(a).status = "answered"
          BY DEF Answered
        <5> QED BY <5>1, <5>2, Zenon
      <4>2. CASE ReadPage(w)
        <5>1. PICK fk \in BOOLEAN : tx' = [tx EXCEPT ![w] = Reading(fk)]
          BY <4>2 DEF ReadPage
        <5>2. Reading(fk).status = "reading"
          BY DEF Reading
        <5> QED BY <5>1, <5>2, Zenon
      <4> QED BY <2>2, <4>1, <4>2
    <3>2. /\ UNCHANGED <<db, work, writer, minted>> /\ writer # w
          /\ tx = [v \in Worker |-> tx[v]]
      BY <2>2 DEF Reject, ReadPage, Serving, TxInv, LockInv, TxTypes, OwnLock
    <3>3. /\ tx'[w].status \in {"answered", "reading"}
          /\ \A v \in Worker : v # w => tx'[v] = tx[v]
      BY <3>1, <3>2
    <3>4. \A v \in Worker : Active(v)' => Active(v) /\ tx'[v].req = tx[v].req
      BY <3>3 DEF Active
    <3> QED BY <3>2, <3>3, <3>4, EndKeepsIds
  <2> QED BY <1>1, <2>1, <2>2, BeginsWithIds
<1>2. ASSUME NEW w \in Worker, Serve(w) PROVE IdsInv' /\ WorkInv'
  <2>1. CASE Exec(w)
    BY <2>1, ExecKeepsIds
  <2>2. CASE Refuse(w)
    BY <2>2, RollbackKeepsIds DEF Refuse, Answered
  <2>3. CASE LockTimeout(w)
    <3>1. /\ UNCHANGED <<db, work, writer, minted>> /\ tx[w].status = "open"
          /\ writer # w /\ tx[w] \in Opened /\ tx = [v \in Worker |-> tx[v]]
      BY <2>3 DEF LockTimeout, InProgram, CanWrite, TxInv, LockInv, TxTypes
    <3>2. /\ tx'[w].status = "timedOut" /\ tx'[w].req = tx[w].req
          /\ \A v \in Worker : v # w => tx'[v] = tx[v]
      BY <2>3, <3>1 DEF LockTimeout, Opened
    <3>3. \A v \in Worker : Active(v)' => Active(v) /\ tx'[v].req = tx[v].req
      BY <3>1, <3>2 DEF Active
    <3> QED BY <3>1, <3>2, <3>3, EndKeepsIds
  <2>4. CASE Diagnose(w)
    BY <2>4, RollbackKeepsIds DEF Diagnose, Answered
  <2>5. CASE Panic(w) \/ PageRead(w)
    BY <2>5, RollbackKeepsIds DEF Panic, PageRead, NoRequest
  <2>6. CASE Commit(w)
    BY <2>6, CommitKeepsIds
  <2> QED BY <1>2, <2>1, <2>2, <2>3, <2>4, <2>5, <2>6 DEF Serve
<1>3. ASSUME NEW w \in Worker, CommitBusy(w) PROVE IdsInv' /\ WorkInv'
  BY <1>3, RollbackKeepsIds DEF CommitBusy, Answered
<1>4. CASE Crash
  <2>1. /\ UNCHANGED <<db, minted>> /\ work' = db /\ writer' = Nobody
        /\ \A v \in Worker : tx'[v].status = "none"
    BY <1>4 DEF Crash, NoRequest
  <2>2. \A v \in Worker : Active(v)' => Active(v) /\ tx'[v].req = tx[v].req
    BY <2>1 DEF Active
  <2>3. \A v \in Worker : tx'[v].status = "open" => tx'[v] = tx[v]
    BY <2>1
  <2> QED BY <1>0, <2>1, <2>2, <2>3, EndKeepsIds DEF TxInv
<1>5. CASE UNCHANGED vars
  <2>1. UNCHANGED <<db, minted, work, writer, tx>>
    BY <1>5 DEF vars
  <2>2. \A v \in Worker : Active(v)' => Active(v) /\ tx'[v].req = tx[v].req
    BY <2>1 DEF Active
  <2> QED BY <1>0, <2>1, <2>2, EndKeepsIds DEF TxInv
<1> QED BY <1>0, <1>1, <1>2, <1>3, <1>4, <1>5 DEF Next, TxInv

\* So it always holds.
LEMMA TxInvHolds == Spec => []TxInv
<1>1. Init => TxInv
  <2> SUFFICES ASSUME Init PROVE TxInv
    OBVIOUS
  <2>1. LockInv
    BY WorkerAssumption DEF Init, LockInv, TxTypes, OwnLock, OwnReferences, NoRequest
  <2>2. /\ db = Seed /\ work = Seed /\ minted = SeedIds /\ writer = Nobody
        /\ \A w \in Worker : tx[w].status = "none"
    BY DEF Init, NoRequest
  <2>3. WorkInv
    BY <2>2, SeedAssumption, WorkerAssumption DEF WorkInv, Consistent
  <2>4. \A id : Names(Seed, id) => id \in SeedIds
    BY SeedAssumption DEF Consistent, NoDangling, Names, SeedIds, SourceIds, RuleIds
  <2>5. IdsInv
    BY <2>2, <2>4 DEF IdsInv, Active, SeedIds
  <2> QED BY <2>1, <2>3, <2>5 DEF TxInv
<1> QED BY <1>1, TxInvKept, PTL DEF Spec

-----------------------------------------------------------------------------
(* What follows.                                                             *)

\* Nothing but a commit changes the database.
LEMMA OnlyCommits ==
  ASSUME [Next]_vars, ~\E w \in Worker : Commit(w)
  PROVE  db' = db
BY DEF Next, vars, Crash, CommitBusy, Serve, Exec, Refuse, LockTimeout, Diagnose,
       Panic, PageRead, Rollback, Arrive, RuleNew, RuleEdit, RuleDelete, AclNew,
       AclDelete, AclUpdate, AclMove, GroupNew, GroupDelete, AccessUpdate,
       MembersMembers, MembersNew, SourceDelete, Reject, ReadPage, Begin

\* The handlers of cmd/ui/ui.go, with their statements, transactions, locks,
\* connections, failures and crashes, implement AdminStore: every request that
\* changes the database does what its action there says, at once, or nothing.
THEOREM Implements == Spec => Atomic
<1>1. Init => Store!Init
  BY DEF Init, Store!Init
<1>2. TxInv /\ [Next]_vars => [Store!Next]_db
  <2> SUFFICES ASSUME TxInv, [Next]_vars PROVE [Store!Next]_db
    OBVIOUS
  <2>1. ASSUME NEW w \in Worker, Commit(w) PROVE [Store!Next]_db
    BY <2>1, CommitMade, CommittedStep
  <2>2. CASE ~\E w \in Worker : Commit(w)
    BY <2>2, OnlyCommits
  <2> QED BY <2>1, <2>2
<1> QED BY <1>1, <1>2, TxInvHolds, PTL DEF Spec, Atomic, Store!Spec

\* The assumptions of AdminStore hold of the instance.
LEMMA StoreAssumptions ==
  /\ StoreProofs!NewAclAssumption /\ StoreProofs!SeedAssumption
  /\ StoreProofs!FkModesAssumption
<1>1. StoreProofs!NewAclAssumption
  BY NewAclAssumption DEF StoreProofs!NewAclAssumption
<1>2. StoreProofs!SeedAssumption
  <2>1. StoreProofs!Consistent(Seed) <=> Consistent(Seed)
    BY DEF Consistent, StoreProofs!Consistent, DB, StoreProofs!DB, KeysHold,
           StoreProofs!KeysHold, UniqueRows, StoreProofs!UniqueRows, NoDangling,
           StoreProofs!NoDangling, RuleIds, StoreProofs!RuleIds, SourceIds,
           StoreProofs!SourceIds, Rule, StoreProofs!Rule
  <2> QED BY <2>1, SeedAssumption DEF StoreProofs!SeedAssumption
<1>3. StoreProofs!FkModesAssumption
  BY DEF StoreProofs!FkModesAssumption
<1> QED BY <1>1, <1>2, <1>3

\* AdminUI's instance of AdminStore and the one the proofs are about are the same.
LEMMA SameStep == Store!Next => StoreProofs!Next
BY Zenon DEF Store!Next, StoreProofs!Next,
  Store!RuleStep, StoreProofs!RuleStep, Store!AclStep, StoreProofs!AclStep,
  Store!GroupStep, StoreProofs!GroupStep, Store!RuleNew, StoreProofs!RuleNew,
  Store!RuleEdit, StoreProofs!RuleEdit, Store!RuleDelete, StoreProofs!RuleDelete,
  Store!AclNew, StoreProofs!AclNew, Store!AclDelete, StoreProofs!AclDelete,
  Store!AclMove, StoreProofs!AclMove, Store!GroupNew, StoreProofs!GroupNew,
  Store!GroupDelete, StoreProofs!GroupDelete, Store!AccessUpdate, StoreProofs!AccessUpdate,
  Store!MembersMembers, StoreProofs!MembersMembers,
  Store!SourceDelete, StoreProofs!SourceDelete,
  Store!NewRuleId, StoreProofs!NewRuleId, Store!NewAclId, StoreProofs!NewAclId,
  Store!NewGroupId, StoreProofs!NewGroupId,
  Store!RuleIds, StoreProofs!RuleIds, Store!SourceIds, StoreProofs!SourceIds,
  Store!Rule, StoreProofs!Rule

\* Every rule that is committed is in exactly one ACL, and no ACL lists one that is
\* gone, whatever requests run at the same time, fail or die, and on whatever
\* connections: AdminUI keeps it because AdminStore does.
THEOREM RulesInOneAcl == Spec => []OneAclPerRule
<1>1. Atomic => StoreProofs!Spec
  <2>1. Store!Init => StoreProofs!Init
    BY DEF Store!Init, StoreProofs!Init
  <2>2. [Store!Next]_db => [StoreProofs!Next]_db
    BY SameStep
  <2> QED BY <2>1, <2>2, PTL DEF Atomic, Store!Spec, StoreProofs!Spec
<1>2. StoreProofs!Spec => []StoreProofs!OneAclPerRule
  BY StoreAssumptions, StoreProofs!RulesInOneAcl
<1>3. StoreProofs!OneAclPerRule => OneAclPerRule
  BY Zenon DEF StoreProofs!OneAclPerRule, OneAclPerRule, Store!OneAclPerRule,
     Store!RuleIds, StoreProofs!RuleIds
<1> QED BY <1>1, <1>2, <1>3, Implements, PTL

\* A request whose transaction is committed has done what it was asked.
LEMMA CommittedDone ==
  ASSUME NEW q, NEW fk, Committed(q, fk), OneAclPerRule
  PROVE  Done(q, db')
<1>1. /\ q \in Request /\ db \in DB /\ db' \in DB /\ Program(q, Transaction(q))
  BY Programs DEF Committed
<1>2. CASE q.op = "ruleNew"
  <2>1. Store!RuleNew(q.rule, q.content, fk)
    BY <1>2, RuleNewStep
  <2>2. <<q.rule, q.content>> \in db'.rules /\ <<NewAcl, q.rule>> \in db'.aclrules
    BY <1>1, <2>1 DEF Store!RuleNew, DB
  <2> QED BY <1>2, <2>2 DEF Done
<1>3. CASE q.op = "ruleEdit"
  <2>1. \/ Store!RuleEdit(q.rule, q.content)
        \/ q.rule \notin RuleIds(db) /\ db' = db
    BY <1>3, RuleEditStep
  <2>2. \A row \in db'.rules : row[1] = q.rule => row[2] = q.content
    <3>1. CASE Store!RuleEdit(q.rule, q.content)
      <4>1. db'.rules = {row \in db.rules : row[1] # q.rule} \cup {<<q.rule, q.content>>}
        BY <1>1, <3>1 DEF Store!RuleEdit, DB
      <4> QED BY <4>1
    <3>2. CASE q.rule \notin RuleIds(db) /\ db' = db
      BY <3>2 DEF RuleIds
    <3> QED BY <2>1, <3>1, <3>2
  <2> QED BY <1>3, <2>2 DEF Done
<1>4. CASE q.op = "ruleDelete"
  <2>1. Store!RuleDelete(q.rules, fk)
    BY <1>4, RuleDeleteStep
  <2>2. /\ db'.rules = {row \in db.rules : row[1] \notin q.rules}
        /\ db'.aclrules = {ar \in db.aclrules : ar[2] \notin q.rules}
    BY <1>1, <2>1 DEF Store!RuleDelete, DB
  <2>3. RuleIds(db') \cap q.rules = {} /\ \A ar \in db'.aclrules : ar[2] \notin q.rules
    BY <2>2 DEF RuleIds
  <2> QED BY <1>4, <2>3 DEF Done
<1>5. CASE q.op = "aclMove"
  <2> DEFINE moved == {ar \in db.aclrules : ar[2] \in q.rules}
             In(d, r) == {ar \in d.aclrules : ar[2] = r}
  <2>1. Store!AclMove(q.rules, q.dst, fk)
    BY <1>5, AclMoveStep
  <2>2. /\ db'.aclrules = (db.aclrules \ moved) \cup {<<q.dst, ar[2]>> : ar \in moved}
        /\ db'.rules = db.rules
    BY <1>1, <2>1 DEF Store!AclMove, DB
  <2>3. ASSUME NEW r \in q.rules \cap RuleIds(db')
        PROVE  {ar[1] : ar \in In(db', r)} = {q.dst}
    <3>1. r \in Store!RuleIds(db)
      BY <2>2 DEF RuleIds, Store!RuleIds
    <3>2. PICK a \in AclId : In(db, r) = {<<a, r>>}
      BY <3>1 DEF OneAclPerRule, Store!OneAclPerRule
    <3>3. <<a, r>> \in moved /\ <<a, r>>[2] = r
      BY <3>2
    <3>4. <<q.dst, r>> \in In(db', r) /\ <<q.dst, r>>[1] = q.dst
      BY <2>2, <3>3
    <3>5. ASSUME NEW ar \in In(db', r) PROVE ar = <<q.dst, r>>
      BY <2>2, <2>3
    <3> HIDE DEF moved, In
    <3> QED BY <3>4, <3>5
  <2> QED BY <1>5, <2>3 DEF Done
<1>6. CASE q.op \in {"aclNew", "aclDelete", "aclUpdate"}
  <2>1. q.op = "aclNew" => q.acl \in db'.acls
    BY <1>1, AclNewStep DEF Store!AclNew, DB
  <2>2. q.op = "aclDelete" => q.acl \notin db'.acls
    BY <1>1, AclDeleteStep DEF Store!AclDelete, DB
  <2> QED BY <1>6, <2>1, <2>2 DEF Done
<1>7. CASE q.op \in {"groupNew", "groupDelete"}
  <2>1. q.op = "groupNew" => q.group \in db'.groups
    BY <1>1, GroupNewStep DEF Store!GroupNew, DB
  <2>2. q.op = "groupDelete" => q.group \notin db'.groups
    BY <1>1, GroupDeleteStep DEF Store!GroupDelete, DB
  <2> QED BY <1>7, <2>1, <2>2 DEF Done
<1>8. CASE q.op = "accessUpdate"
  <2>1. Store!AccessUpdate(q.group, q.acls, fk)
    BY <1>8, AccessUpdateStep
  <2>2. db'.groupaccess = {ga \in db.groupaccess : ga[1] # q.group} \cup ({q.group} \X q.acls)
    BY <1>1, <2>1 DEF Store!AccessUpdate, DB
  <2>3. {ga[2] : ga \in {x \in db'.groupaccess : x[1] = q.group}} = q.acls
    <3>1. {x \in db'.groupaccess : x[1] = q.group} = {q.group} \X q.acls
      BY <2>2
    <3>2. {ga[2] : ga \in {q.group} \X q.acls} = q.acls
      <4>1. \A a \in q.acls : <<q.group, a>> \in {q.group} \X q.acls /\ <<q.group, a>>[2] = a
        OBVIOUS
      <4> QED BY <4>1
    <3> QED BY <3>1, <3>2
  <2> QED BY <1>8, <2>3 DEF Done
<1>9. CASE q.op = "members"
  <2>1. Store!MembersMembers(q.group) /\ q.sources = {}
    BY <1>9, MembersStep
  <2>2. db'.members = {m \in db.members : m[2] # q.group}
    BY <1>1, <2>1 DEF Store!MembersMembers, DB
  <2>3. {m[1] : m \in {x \in db'.members : x[2] = q.group}} = q.sources
    BY <2>1, <2>2
  <2> QED BY <1>9, <2>3 DEF Done
<1>10. CASE q.op = "membersNew"
  BY <1>10, MembersNewStep
<1>11. CASE q.op = "sourceDelete"
  <2>1. \/ Store!SourceDelete(q.source, fk)
        \/ q.source \notin SourceIds(db) /\ db' = db
    BY <1>11, SourceDeleteStep
  <2>2. q.source \notin SourceIds(db')
    BY <1>1, <2>1 DEF Store!SourceDelete, SourceIds, DB
  <2> QED BY <1>11, <2>2 DEF Done
<1> QED
  BY <1>1, <1>2, <1>3, <1>4, <1>5, <1>6, <1>7, <1>8, <1>9, <1>10, <1>11, Operations

\* A diagnosis is never OK.
LEMMA DiagnosesRefuse ==
  ASSUME NEW q, NEW pc, NEW d, NEW a \in Diagnoses(q, pc, d)
  PROVE  a.code # 200
<1>1. InternalError.code = 500 /\ \A r : Conflict(r).code = 409
  BY DEF InternalError, Conflict, Plain
<1>2. \A n, t : StillUsed(n, t).code = 400
  BY DEF StillUsed, Plain
<1>3. \A x \in GroupDeleteDiagnosis(q, d) : x.code # 200
  BY <1>1, <1>2 DEF GroupDeleteDiagnosis
<1> QED BY <1>1, <1>2, <1>3 DEF Diagnoses

\* Only the commit of a request is answered OK.
LEMMA OkIsCommit ==
  ASSUME LockInv, [Next]_vars, NEW w \in Worker, Answers(w, OK)
  PROVE  Commit(w)
<1>1. /\ Serving(w) /\ tx'[w] = Answered(OK) /\ Answered(OK).status = "answered"
      /\ tx = [v \in Worker |-> tx[v]]
  BY DEF Answers, Answered, LockInv, TxTypes
<1>2. tx'[w] # tx[w]
  BY <1>1 DEF Serving
<1>3. ASSUME NEW a, Answered(a) = Answered(OK) PROVE a.code = 200
  <2>1. a = OK
    BY <1>3 DEF Answered
  <2> QED BY <2>1 DEF OK, Plain
<1>4. ASSUME NEW v \in Worker, Arrive(v) PROVE FALSE
  <2>1. ~Serving(v) /\ \E t : tx' = [tx EXCEPT ![v] = t]
    BY <1>4, Zenon
       DEF Arrive, RuleNew, RuleEdit, RuleDelete, AclNew, AclDelete, AclUpdate, AclMove,
           GroupNew, GroupDelete, AccessUpdate, MembersMembers, MembersNew, SourceDelete,
           Reject, ReadPage, Begin
  <2>2. v # w
    BY <1>1, <2>1
  <2>3. tx'[w] = tx[w]
    BY <1>1, <2>1, <2>2
  <2> QED BY <1>2, <2>3
<1>5. ASSUME NEW v \in Worker, NEW t, Rollback(v, t) PROVE v = w /\ t = Answered(OK)
  <2>1. tx' = [tx EXCEPT ![v] = t]
    BY <1>5 DEF Rollback
  <2>2. v = w
    BY <1>1, <1>2, <2>1
  <2> QED BY <1>1, <2>1, <2>2
<1>6. ASSUME NEW v \in Worker, Serve(v) PROVE Commit(w)
  <2>1. CASE Exec(v) \/ LockTimeout(v)
    <3>1. /\ tx[v].status = "open" /\ tx[v] \in Opened
          /\ \/ tx' = [tx EXCEPT ![v] = [tx[v] EXCEPT !.pc = @ + 1]]
             \/ tx' = [tx EXCEPT ![v] = [tx[v] EXCEPT !.status = "timedOut"]]
      BY <2>1 DEF Exec, LockTimeout, InProgram, LockInv, TxTypes
    <3>2. tx'[v].status # "answered" /\ (v # w => tx'[w] = tx[w])
      BY <1>1, <3>1 DEF Opened
    <3> QED BY <1>1, <1>2, <3>2
  <2>2. CASE Refuse(v) \/ Diagnose(v)
    <3>1. PICK pc, d, q : \E a \in Diagnoses(q, pc, d) : Rollback(v, Answered(a))
      BY <2>2, Zenon DEF Refuse, Diagnose
    <3>2. PICK a \in Diagnoses(q, pc, d) : Rollback(v, Answered(a))
      BY <3>1
    <3>3. a.code = 200
      BY <1>3, <1>5, <3>2
    <3> QED BY <3>2, <3>3, DiagnosesRefuse
  <2>3. CASE Panic(v) \/ PageRead(v)
    <3>1. NoRequest = Answered(OK)
      BY <1>5, <2>3 DEF Panic, PageRead
    <3> QED BY <1>1, <3>1 DEF NoRequest
  <2>4. CASE Commit(v)
    <3>1. tx' = [tx EXCEPT ![v] = Answered(OK)]
      BY <2>4 DEF Commit
    <3>2. v = w
      BY <1>1, <1>2, <3>1
    <3> QED BY <2>4, <3>2
  <2> QED BY <1>6, <2>1, <2>2, <2>3, <2>4 DEF Serve
<1>7. ASSUME NEW v \in Worker, CommitBusy(v) PROVE FALSE
  <2>1. InternalError.code = 200
    BY <1>3, <1>5, <1>7 DEF CommitBusy
  <2> QED BY <2>1 DEF InternalError, Plain
<1>8. ~Crash
  BY <1>1 DEF Crash, NoRequest
<1>9. ~UNCHANGED vars
  BY <1>2 DEF vars
<1> QED BY <1>4, <1>6, <1>7, <1>8, <1>9 DEF Next

\* What OK tells a page is so: the database, when the answer is given, is as the
\* form said, whatever other requests ran meanwhile and whatever became of them.
THEOREM OkIsDone == Spec => OkMeansDone
<1>1. TxInv /\ OneAclPerRule /\ [Next]_vars
        => [\A w \in Worker : Answers(w, OK) => Done(tx[w].req, db')]_vars
  <2> SUFFICES ASSUME TxInv, OneAclPerRule, [Next]_vars, NEW w \in Worker, Answers(w, OK)
               PROVE  Done(tx[w].req, db')
    OBVIOUS
  <2>1. Commit(w)
    BY OkIsCommit DEF TxInv
  <2> QED BY <2>1, CommitMade, CommittedDone
<1> QED BY <1>1, TxInvHolds, RulesInOneAcl, PTL DEF Spec, OkMeansDone

-----------------------------------------------------------------------------
(* Types.                                                                    *)

\* What a worker is: at rest, reading a page, in a transaction, or done.
IsTx(t) ==
  \/ t = NoRequest
  \/ t \in {Reading(fk) : fk \in BOOLEAN}
  \/ t.status \in {"open", "timedOut"} /\ t \in Opened
  \/ t.status = "answered" /\ t.answer \in Answer

PoolTypes == idle \in [BOOLEAN -> 0 .. MaxIdle]

ServerTypes ==
  PoolTypes /\ minted \subseteq Ids /\ \A w \in Worker : IsTx(tx[w])

\* The answers, by what they name.
LEMMA PlainAnswers ==
  ASSUME NEW code \in {200, 400, 409, 500}
  PROVE  Plain(code) \in Answer
BY DEF Plain, Answer

\* A conflict names a row.
LEMMA RowAnswers ==
  ASSUME NEW row \in Ids
  PROVE  Conflict(row) \in Answer
<1> DEFINE p == Plain(409)
           rows == {row}
<1>1. p \in Answer
  <2>1. 409 \in {200, 400, 409, 500}
    OBVIOUS
  <2> QED BY <2>1, PlainAnswers, Zenon
<1>2. Conflict(row) = [p EXCEPT !.rows = rows] /\ rows \in SUBSET Ids
  BY DEF Conflict
<1> HIDE DEF p, rows
<1>3. [p EXCEPT !.rows = rows] \in Answer
  BY <1>1, <1>2 DEF Answer
<1> QED BY <1>2, <1>3

\* A refusal counts the rows of a table.
LEMMA CountAnswers ==
  ASSUME NEW n \in Nat, NEW t \in {"members", "groupaccess", "aclrules"}
  PROVE  StillUsed(n, t) \in Answer
<1> DEFINE p == Plain(400)
<1>1. p \in Answer
  <2>1. 400 \in {200, 400, 409, 500}
    OBVIOUS
  <2> QED BY <2>1, PlainAnswers, Zenon
<1>2. StillUsed(n, t) = [p EXCEPT !.count = n, !.of = t]
  BY DEF StillUsed
<1> HIDE DEF p
<1> DEFINE c == [p EXCEPT !.count = n]
<1>3. c \in Answer /\ [p EXCEPT !.count = n, !.of = t] = [c EXCEPT !.of = t]
  BY <1>1 DEF Answer
<1> HIDE DEF c
<1> DEFINE names == {"", "members", "groupaccess", "aclrules"}
           codes == {200, 400, 409, 500}
<1>4. t \in names /\ Answer = [code : codes, rows : SUBSET Ids, count : Nat, of : names]
  BY DEF Answer
<1> HIDE DEF names, codes
<1>5. [c EXCEPT !.of = t] \in Answer
  BY <1>3, <1>4
<1> QED BY <1>2, <1>3, <1>5

\* A handler counts finitely many rows.
LEMMA UsesCount ==
  ASSUME NEW d \in DB, NEW col, NEW id, NEW t \in {"members", "groupaccess", "aclrules"}
  PROVE  Uses(d, t, col, id) \in Nat
<1> DEFINE rows == {row \in d[t] : row[col] = id}
<1>1. IsFiniteSet(AclId) /\ IsFiniteSet(GroupId) /\ IsFiniteSet(SourceId) /\ IsFiniteSet(RuleId)
  BY IdAssumption, FS_Subset DEF Ids
<1>2. /\ IsFiniteSet(SourceId \X GroupId) /\ IsFiniteSet(GroupId \X AclId)
      /\ IsFiniteSet(AclId \X RuleId)
  BY <1>1, FS_Product
<1>3. \/ rows \in SUBSET (SourceId \X GroupId)
      \/ rows \in SUBSET (GroupId \X AclId)
      \/ rows \in SUBSET (AclId \X RuleId)
  <2>1. CASE t = "members"
    BY <2>1 DEF DB
  <2>2. CASE t = "groupaccess"
    BY <2>2 DEF DB
  <2>3. CASE t = "aclrules"
    BY <2>3 DEF DB
  <2> QED BY <2>1, <2>2, <2>3
<1> HIDE DEF rows
<1>4. IsFiniteSet(rows)
  BY <1>2, <1>3, FS_Subset
<1>5. Cardinality(rows) \in Nat
  BY <1>4, FS_CardinalityType
<1> QED BY <1>5 DEF Uses, rows

\* What a handler makes of a failure is an answer.
LEMMA DiagnosesAnswer ==
  ASSUME NEW q \in Request, NEW pc, NEW d \in DB, NEW a \in Diagnoses(q, pc, d)
  PROVE  a \in Answer
<1>1. InternalError \in Answer
  <2>1. 500 \in {200, 400, 409, 500}
    OBVIOUS
  <2> QED BY <2>1, PlainAnswers, Zenon DEF InternalError
<1>2. \A row \in Ids : Conflict(row) \in Answer
  BY RowAnswers
<1>3. \A n \in Nat, t \in {"members", "groupaccess", "aclrules"} : StillUsed(n, t) \in Answer
  BY CountAnswers
<1>4. CASE a = InternalError
  BY <1>1, <1>4
<1>5. CASE \E row \in Ids : a = Conflict(row)
  BY <1>2, <1>5
<1>6. CASE \E n \in Nat, t \in {"members", "groupaccess", "aclrules"} : a = StillUsed(n, t)
  BY <1>3, <1>6
<1>7. \A col, id : \A t \in {"members", "groupaccess", "aclrules"} : Uses(d, t, col, id) \in Nat
  BY UsesCount
<1>8. \/ a = InternalError
      \/ \E row \in Ids : a = Conflict(row)
      \/ \E n \in Nat, t \in {"members", "groupaccess", "aclrules"} : a = StillUsed(n, t)
  <2>1. CASE pc # 1
    BY <2>1 DEF Diagnoses
  <2>2. CASE pc = 1 /\ q.op = "ruleNew"
    <3>1. \A row \in d.rules : row[1] \in Ids
      BY DEF DB, Ids
    <3> QED BY <2>2, <3>1 DEF Diagnoses, Duplicates
  <2>3. CASE pc = 1 /\ q.op = "membersNew"
    <3>1. \A row \in d.sources : row[1] \in Ids
      BY DEF DB, Ids
    <3> QED BY <2>3, <3>1 DEF Diagnoses, Duplicates
  <2>4. CASE pc = 1 /\ q.op = "aclDelete"
    BY <1>7, <2>4 DEF Diagnoses
  <2>5. CASE pc = 1 /\ q.op = "sourceDelete"
    BY <1>7, <2>5 DEF Diagnoses
  <2>6. CASE pc = 1 /\ q.op = "groupDelete"
    BY <1>7, <2>6 DEF Diagnoses, GroupDeleteDiagnosis
  <2>7. CASE pc = 1 /\ q.op \notin {"ruleNew", "membersNew", "aclDelete", "sourceDelete",
                                    "groupDelete"}
    BY <2>7 DEF Diagnoses
  <2> QED BY <2>1, <2>2, <2>3, <2>4, <2>5, <2>6, <2>7
<1> QED BY <1>4, <1>5, <1>6, <1>8

\* The pool never keeps more connections of a kind than it may, nor less than none.
LEMMA ConnTaken ==
  ASSUME PoolTypes, NEW fk \in BOOLEAN, TakeConn(fk)
  PROVE  PoolTypes'
<1>1. CASE idle[TRUE] + idle[FALSE] = 0
  BY <1>1 DEF PoolTypes, TakeConn
<1>2. CASE idle[TRUE] + idle[FALSE] # 0
  <2>1. idle[fk] > 0 /\ idle' = [idle EXCEPT ![fk] = idle[fk] - 1]
    BY <1>2 DEF TakeConn
  <2>2. idle[fk] \in 0 .. MaxIdle /\ MaxIdle \in Nat
    BY MaxIdleAssumption DEF PoolTypes
  <2> DEFINE n == idle[fk]
  <2>3. n - 1 \in 0 .. MaxIdle
    <3> HIDE DEF n
    <3> QED BY <2>1, <2>2 DEF n
  <2> QED BY <2>1, <2>3, Zenon DEF PoolTypes
<1> QED BY <1>1, <1>2

\* Nor when a connection is given back.
LEMMA ConnPut ==
  ASSUME PoolTypes, NEW fk \in BOOLEAN, PutConn(fk)
  PROVE  PoolTypes'
<1>1. idle[TRUE] \in 0 .. MaxIdle /\ idle[FALSE] \in 0 .. MaxIdle /\ MaxIdle \in Nat
  BY MaxIdleAssumption DEF PoolTypes
<1>2. idle[TRUE] + idle[FALSE] < MaxIdle => idle[fk] + 1 \in 0 .. MaxIdle
  <2> DEFINE yes == idle[TRUE]
             no == idle[FALSE]
  <2>1. yes \in 0 .. MaxIdle /\ no \in 0 .. MaxIdle /\ (idle[fk] = yes \/ idle[fk] = no)
    BY <1>1
  <2> HIDE DEF yes, no
  <2>2. yes + no < MaxIdle => idle[fk] + 1 \in 0 .. MaxIdle
    BY <1>1, <2>1
  <2> QED BY <2>2 DEF yes, no
<1>3. CASE idle[TRUE] + idle[FALSE] < MaxIdle
  <2>1. idle' = [idle EXCEPT ![fk] = idle[fk] + 1]
    BY <1>3 DEF PutConn
  <2> QED BY <1>2, <1>3, <2>1 DEF PoolTypes
<1>4. CASE ~(idle[TRUE] + idle[FALSE] < MaxIdle)
  BY <1>4 DEF PoolTypes, PutConn
<1> QED BY <1>3, <1>4

\* A step gives one worker another state.
LEMMA OneTx ==
  ASSUME ServerTypes, LockInv, NEW w \in Worker, NEW t, IsTx(t), tx' = [tx EXCEPT ![w] = t]
  PROVE  \A v \in Worker : IsTx(tx'[v])
BY DEF ServerTypes, LockInv, TxTypes

\* What is rolled back leaves the types as they are.
LEMMA RollbackTypes ==
  ASSUME ServerTypes, LockInv, NEW w \in Worker, NEW t, IsTx(t), Rollback(w, t),
         Serving(w)
  PROVE  ServerTypes'
<1>1. tx[w].fk \in BOOLEAN
  <2>1. CASE tx[w].status = "reading"
    BY <2>1 DEF ServerTypes, IsTx, NoRequest, Reading
  <2>2. CASE tx[w].status \in {"open", "timedOut"}
    BY <2>2 DEF LockInv, TxTypes, Opened
  <2> QED BY <2>1, <2>2 DEF Serving
<1>2. PoolTypes'
  BY <1>1, ConnPut DEF Rollback, ServerTypes
<1>3. \A v \in Worker : IsTx(tx'[v])
  BY OneTx DEF Rollback
<1> QED BY <1>2, <1>3 DEF ServerTypes, Rollback

\* So does every step.
LEMMA ServerTypesKept ==
  ASSUME ServerTypes, TxInv, [Next]_vars
  PROVE  ServerTypes'
<1>a. LockInv /\ db \in DB /\ work \in DB
  BY DEF TxInv, WorkInv
<1>b. \A a : a \in Answer => IsTx(Answered(a))
  BY DEF IsTx, Answered
<1>c. IsTx(NoRequest)
  BY DEF IsTx
<1>d. OK \in Answer /\ BadRequest \in Answer /\ InternalError \in Answer
  <2>1. /\ 200 \in {200, 400, 409, 500} /\ 400 \in {200, 400, 409, 500}
        /\ 500 \in {200, 400, 409, 500}
    OBVIOUS
  <2>2. Plain(200) \in Answer /\ Plain(400) \in Answer /\ Plain(500) \in Answer
    BY <2>1, PlainAnswers, Zenon
  <2> QED BY <2>2, Zenon DEF OK, BadRequest, InternalError
<1>1. ASSUME NEW w \in Worker, Arrive(w) PROVE ServerTypes'
  <2>1. ASSUME NEW q \in Request, Begin(w, q), Minting(q) PROVE ServerTypes'
    <3>1. PICK fk \in BOOLEAN : TakeConn(fk) /\ tx' = [tx EXCEPT ![w] = Open(q, fk)]
      BY <2>1 DEF Begin
    <3>2. PoolTypes'
      BY <3>1, ConnTaken DEF ServerTypes
    <3>3. IsTx(Open(q, fk))
      BY DEF IsTx, Open, Opened
    <3>4. \A v \in Worker : IsTx(tx'[v])
      BY <1>a, <3>1, <3>3, OneTx
    <3>5. Creates(q) \subseteq Ids
      BY DEF Creates, Request, Ids
    <3> QED BY <2>1, <3>2, <3>4, <3>5 DEF ServerTypes, Minting
  <2>2. CASE Reject(w)
    <3>1. PICK a \in {BadRequest, InternalError} : tx' = [tx EXCEPT ![w] = Answered(a)]
      BY <2>2 DEF Reject
    <3>2. \A v \in Worker : IsTx(tx'[v])
      BY <1>a, <1>b, <1>d, <3>1, OneTx
    <3> QED BY <2>2, <3>2 DEF Reject, ServerTypes, PoolTypes
  <2>3. CASE ReadPage(w)
    <3>1. PICK fk \in BOOLEAN : TakeConn(fk) /\ tx' = [tx EXCEPT ![w] = Reading(fk)]
      BY <2>3 DEF ReadPage
    <3>2. IsTx(Reading(fk))
      BY DEF IsTx
    <3>3. \A v \in Worker : IsTx(tx'[v])
      BY <1>a, <3>1, <3>2, OneTx
    <3>4. PoolTypes'
      BY <3>1, ConnTaken DEF ServerTypes
    <3> QED BY <2>3, <3>3, <3>4 DEF ReadPage, ServerTypes
  <2> QED BY <1>1, <2>1, <2>2, <2>3, BeginsWithIds
<1>2. ASSUME NEW w \in Worker, tx[w].status \in {"open", "timedOut"}
      PROVE  tx[w] \in Opened /\ tx[w].req \in Request /\ tx[w].fk \in BOOLEAN
  BY <1>2, <1>a DEF LockInv, TxTypes, Opened
<1>3. ASSUME NEW w \in Worker, Exec(w) \/ LockTimeout(w) PROVE ServerTypes'
  <2>1. PICK t : tx' = [tx EXCEPT ![w] = t] /\ t \in Opened
    <3>1. tx[w] \in Opened
      BY <1>2, <1>3 DEF Exec, LockTimeout, InProgram
    <3>2. CASE Exec(w)
      <4> DEFINE t == [tx[w] EXCEPT !.pc = tx[w].pc + 1]
      <4>1. t \in Opened
        BY <3>1 DEF Opened
      <4>2. tx' = [tx EXCEPT ![w] = t]
        BY <3>2 DEF Exec
      <4> QED BY <4>1, <4>2
    <3>3. CASE LockTimeout(w)
      <4> DEFINE t == [tx[w] EXCEPT !.status = "timedOut"]
      <4>1. t \in Opened
        BY <3>1 DEF Opened
      <4>2. tx' = [tx EXCEPT ![w] = t]
        BY <3>3 DEF LockTimeout
      <4> QED BY <4>1, <4>2
    <3> QED BY <1>3, <3>2, <3>3
  <2>2. IsTx(t)
    BY <2>1 DEF IsTx, Opened
  <2>3. \A v \in Worker : IsTx(tx'[v])
    BY <1>a, <2>1, <2>2, OneTx
  <2> QED BY <1>3, <2>3 DEF Exec, LockTimeout, ServerTypes, PoolTypes
<1>4. ASSUME NEW w \in Worker, Refuse(w) PROVE ServerTypes'
  <2>1. PICK a \in Diagnoses(tx[w].req, tx[w].pc, work) : Rollback(w, Answered(a))
    BY <1>4 DEF Refuse
  <2>2. tx[w].status = "open"
    BY <1>4 DEF Refuse, InProgram
  <2>3. a \in Answer
    BY <1>2, <1>a, <2>1, <2>2, DiagnosesAnswer
  <2> QED BY <1>a, <1>b, <2>1, <2>2, <2>3, RollbackTypes DEF Serving
<1>5. ASSUME NEW w \in Worker, Diagnose(w) PROVE ServerTypes'
  <2>1. PICK a \in Diagnoses(tx[w].req, tx[w].pc, db) : Rollback(w, Answered(a))
    BY <1>5 DEF Diagnose
  <2>2. tx[w].status = "timedOut"
    BY <1>5 DEF Diagnose
  <2>3. a \in Answer
    BY <1>2, <1>a, <2>1, <2>2, DiagnosesAnswer
  <2> QED BY <1>a, <1>b, <2>1, <2>2, <2>3, RollbackTypes DEF Serving
<1>6. ASSUME NEW w \in Worker, Panic(w) \/ PageRead(w) PROVE ServerTypes'
  <2>1. Rollback(w, NoRequest) /\ Serving(w)
    BY <1>6 DEF Panic, Panics, PageRead, InProgram, Serving
  <2> QED BY <1>a, <1>c, <2>1, RollbackTypes
<1>7. ASSUME NEW w \in Worker, CommitBusy(w) PROVE ServerTypes'
  <2>1. Rollback(w, Answered(InternalError)) /\ Serving(w)
    BY <1>7 DEF CommitBusy, AtEnd, Serving
  <2> QED BY <1>a, <1>b, <1>d, <2>1, RollbackTypes
<1>8. ASSUME NEW w \in Worker, Commit(w) PROVE ServerTypes'
  <2>1. /\ tx' = [tx EXCEPT ![w] = Answered(OK)] /\ PutConn(tx[w].fk) /\ minted' = minted
        /\ tx[w].fk \in BOOLEAN
    BY <1>2, <1>8 DEF Commit, AtEnd
  <2>2. PoolTypes'
    BY <2>1, ConnPut DEF ServerTypes
  <2>3. \A v \in Worker : IsTx(tx'[v])
    BY <1>a, <1>b, <1>d, <2>1, OneTx
  <2> QED BY <2>1, <2>2, <2>3 DEF ServerTypes
<1>9. CASE Crash
  <2>1. Fresh \in [BOOLEAN -> 0 .. MaxIdle]
    BY MaxIdleAssumption DEF Fresh
  <2> QED BY <1>9, <1>c, <2>1 DEF Crash, ServerTypes, PoolTypes
<1>10. CASE UNCHANGED vars
  BY <1>10 DEF vars, ServerTypes, PoolTypes
<1> QED
  BY <1>1, <1>3, <1>4, <1>5, <1>6, <1>7, <1>8, <1>9, <1>10 DEF Next, Serve

\* Every variable keeps its type: the databases of txWrap, the requests and answers
\* of the handlers, the pool of database/sql and the ids generated so far.
THEOREM TypeCorrect == Spec => []TypeOK
<1>1. Init => ServerTypes
  <2> SUFFICES ASSUME Init PROVE ServerTypes
    OBVIOUS
  <2>1. PoolTypes
    BY MaxIdleAssumption DEF Init, Fresh, PoolTypes
  <2>2. minted \subseteq Ids
    <3>1. Seed \in DB
      BY SeedAssumption DEF Consistent
    <3> QED BY <3>1, NewAclAssumption DEF Init, SeedIds, SourceIds, RuleIds, Ids, DB
  <2> QED BY <2>1, <2>2 DEF Init, ServerTypes, IsTx
<1>2. ServerTypes /\ TxInv => TypeOK
  BY DEF ServerTypes, PoolTypes, IsTx, TxInv, WorkInv, LockInv, TxTypes, TypeOK
<1> QED BY <1>1, <1>2, ServerTypesKept, TxInvHolds, PTL DEF Spec

-----------------------------------------------------------------------------
(* Refusals.                                                                 *)

\* A deletion of a source that is refused was of one that is a member of a group.
LEMMA SourceInUse ==
  ASSUME NEW d \in DB, KeysHold(d), NEW s, NEW fk,
         ~Accepted(d, Delete("sources", {s} \X Address), fk)
  PROVE  \E m \in d.members : m[1] = s
<1> DEFINE st == Delete("sources", {s} \X Address)
           e == After(d, st)
<1> SUFFICES ASSUME \A m \in d.members : m[1] # s PROVE Accepted(d, st, fk)
  OBVIOUS
<1>1. st.sql = "delete"
  BY DEF Delete
<1>2. Prepares(st) /\ NoRowTwice(d, st) /\ Written(d, st) = {}
  BY <1>1 DEF Prepares, NoRowTwice, Written
<1>3. e = With(d, "sources", d.sources \ ({s} \X Address))
  BY AfterDelete
<1>4. /\ e.sources = d.sources \ ({s} \X Address) /\ e.rules = d.rules
      /\ e.members = d.members /\ e.groups = d.groups /\ e.acls = d.acls
      /\ e.aclrules = d.aclrules /\ e.groupaccess = d.groupaccess
  BY <1>3 DEF With, DB
<1> HIDE DEF st, e
<1>5. KeysHold(e)
  BY <1>4 DEF KeysHold, UniqueRows
<1>6. \A m \in d.members : m[1] \in SourceIds(d) => m[1] \in SourceIds(e)
  BY <1>4 DEF SourceIds, DB
<1>7. Dangling(e) \subseteq Dangling(d)
  BY <1>4, <1>6 DEF Dangling, RuleIds
<1> QED BY <1>2, <1>5, <1>7 DEF Accepted, e

\* Neither is one of an ACL whose rules are all elsewhere, if no group is granted it.
LEMMA AclInUse ==
  ASSUME NEW d \in DB, KeysHold(d), NEW a, NEW fk, ~Accepted(d, Delete("acls", {a}), fk)
  PROVE  \/ \E ar \in d.aclrules : ar[1] = a
         \/ \E ga \in d.groupaccess : ga[2] = a
<1> DEFINE st == Delete("acls", {a})
           e == After(d, st)
<1> SUFFICES ASSUME \A ar \in d.aclrules : ar[1] # a, \A ga \in d.groupaccess : ga[2] # a
             PROVE  Accepted(d, st, fk)
  OBVIOUS
<1>1. st.sql = "delete"
  BY DEF Delete
<1>2. Prepares(st) /\ NoRowTwice(d, st) /\ Written(d, st) = {}
  BY <1>1 DEF Prepares, NoRowTwice, Written
<1>3. e = With(d, "acls", d.acls \ {a})
  BY AfterDelete
<1>4. /\ e.acls = d.acls \ {a} /\ e.rules = d.rules /\ e.sources = d.sources
      /\ e.members = d.members /\ e.groups = d.groups
      /\ e.aclrules = d.aclrules /\ e.groupaccess = d.groupaccess
  BY <1>3 DEF With, DB
<1> HIDE DEF st, e
<1>5. KeysHold(e)
  BY <1>4 DEF KeysHold
<1>6. Dangling(e) \subseteq Dangling(d)
  BY <1>4 DEF Dangling, RuleIds, SourceIds
<1> QED BY <1>2, <1>5, <1>6 DEF Accepted, e

\* A row that is used is counted.
LEMMA UsedCounts ==
  ASSUME NEW d \in DB, NEW id, NEW t \in {"members", "aclrules"}, \E row \in d[t] : row[1] = id
  PROVE  Uses(d, t, 1, id) > 0
<1> DEFINE rows == {row \in d[t] : row[1] = id}
<1>1. Uses(d, t, 1, id) = Cardinality(rows)
  BY DEF Uses
<1>2. rows \subseteq Ids \X Ids /\ rows # {}
  BY DEF DB, Ids
<1>3. IsFiniteSet(Ids \X Ids)
  BY IdAssumption, FS_Product
<1> HIDE DEF rows
<1>4. IsFiniteSet(rows)
  BY <1>2, <1>3, FS_Subset
<1>5. Cardinality(rows) \in Nat /\ Cardinality(rows) # 0
  BY <1>2, <1>4, FS_CardinalityType, FS_EmptySet
<1> QED BY <1>1, <1>5

\* A transaction whose first statement may run sees what is committed.
LEMMA FirstStatement ==
  ASSUME LockInv, NEW w \in Worker, tx[w].status = "open", tx[w].pc = 1,
         writer \in {Nobody, w}
  PROVE  work = db
BY WorkerAssumption DEF LockInv, TxTypes, OwnLock

\* What a constraint's refusal blames on a table is in it, or an ACL was to be deleted
\* that a group is granted.
LEMMA BlameHolds ==
  ASSUME TxInv, KeysHold(db), NEW w \in Worker, Refuse(w),
         NEW a \in Diagnoses(tx[w].req, tx[w].pc, work), a.of # ""
  PROVE  \/ a.count > 0
         \/ tx[w].req.op = "aclDelete" /\ \E ga \in db.groupaccess : ga[2] = tx[w].req.acl
<1> DEFINE q == tx[w].req
<1>1. /\ tx[w] \in Opened /\ tx[w].status = "open" /\ writer \in {Nobody, w}
      /\ ~Accepted(work, Stmt(w), tx[w].fk) /\ work \in DB
  BY DEF Refuse, InProgram, CanWrite, TxInv, LockInv, TxTypes, WorkInv
<1>2. q \in Request /\ tx[w].pc \in Nat
  BY <1>1 DEF Opened
<1>3. InternalError.of = "" /\ \A r : Conflict(r).of = ""
  BY DEF InternalError, Conflict, Plain
<1>4. \A n, t : StillUsed(n, t).count = n
  BY DEF StillUsed, Plain
<1>5. tx[w].pc = 1
  <2> SUFFICES ASSUME tx[w].pc # 1 PROVE FALSE
    OBVIOUS
  <2>1. a = InternalError
    BY DEF Diagnoses
  <2> QED BY <1>3, <2>1
<1>6. work = db
  BY <1>1, <1>5, FirstStatement DEF TxInv
<1>7. CASE q.op = "sourceDelete"
  <2>1. a = StillUsed(Uses(work, "members", 1, q.source), "members")
    BY <1>3, <1>5, <1>7 DEF Diagnoses
  <2>2. Stmt(w) = Delete("sources", {q.source} \X Address)
    <3>1. Transaction(q) = SourceDeleteTx(q)
      BY <1>7 DEF Transaction
    <3>2. Stmt(w) = Transaction(q)[1]
      BY <1>5 DEF Stmt, Prog
    <3>3. SourceDeleteTx(q)[1] = Delete("sources", {q.source} \X Address)
      BY DEF SourceDeleteTx
    <3> QED BY <3>1, <3>2, <3>3, Zenon
  <2>3. \E m \in work.members : m[1] = q.source
    <3>1. ~Accepted(work, Delete("sources", {q.source} \X Address), tx[w].fk)
      BY <1>1, <2>2
    <3>2. KeysHold(work)
      BY <1>6
    <3> HIDE DEF q
    <3> QED BY <1>1, <3>1, <3>2, SourceInUse
  <2>4. Uses(work, "members", 1, q.source) > 0
    BY <1>1, <2>3, UsedCounts
  <2> QED BY <1>4, <2>1, <2>4
<1>8. CASE q.op = "groupDelete"
  <2> DEFINE members == Uses(work, "members", 2, q.group)
             accesses == Uses(work, "groupaccess", 1, q.group)
  <2>1. a \in GroupDeleteDiagnosis(q, work)
    BY <1>5, <1>8 DEF Diagnoses
  <2>2. \/ a = InternalError
        \/ members > 0 /\ a = StillUsed(members, "members")
        \/ accesses > 0 /\ a = StillUsed(accesses, "groupaccess")
    <3>1. a \in {InternalError,
                 IF members > 0 THEN StillUsed(members, "members")
                 ELSE IF accesses > 0 THEN StillUsed(accesses, "groupaccess")
                 ELSE InternalError}
      BY <2>1, Zenon DEF GroupDeleteDiagnosis
    <3> HIDE DEF members, accesses
    <3>3. CASE members > 0
      BY <3>1, <3>3, Zenon
    <3>4. CASE ~(members > 0) /\ accesses > 0
      BY <3>1, <3>4, Zenon
    <3>5. CASE ~(members > 0) /\ ~(accesses > 0)
      BY <3>1, <3>5, Zenon
    <3> QED BY <3>3, <3>4, <3>5, Zenon
  <2> HIDE DEF members, accesses, q
  <2>3. CASE members > 0 /\ a = StillUsed(members, "members")
    <3>1. a.count = members
      BY <1>4, <2>3, Zenon
    <3> QED BY <2>3, <3>1, Zenon
  <2>4. CASE accesses > 0 /\ a = StillUsed(accesses, "groupaccess")
    <3>1. a.count = accesses
      BY <1>4, <2>4, Zenon
    <3> QED BY <2>4, <3>1, Zenon
  <2> QED BY <1>3, <2>2, <2>3, <2>4, Zenon
<1>9. CASE q.op \in {"ruleNew", "membersNew"}
  BY <1>3, <1>5, <1>9 DEF Diagnoses
<1>10. CASE q.op = "aclDelete"
  <2>1. a = StillUsed(Uses(work, "aclrules", 1, q.acl), "aclrules")
    BY <1>3, <1>5, <1>10 DEF Diagnoses
  <2>2. Stmt(w) = Delete("acls", {q.acl})
    <3>1. Transaction(q) = AclDeleteTx(q)
      BY <1>10 DEF Transaction
    <3>2. Stmt(w) = Transaction(q)[1]
      BY <1>5 DEF Stmt, Prog
    <3>3. AclDeleteTx(q)[1] = Delete("acls", {q.acl})
      BY DEF AclDeleteTx
    <3> QED BY <3>1, <3>2, <3>3, Zenon
  <2>3. \/ \E ar \in work.aclrules : ar[1] = q.acl
        \/ \E ga \in work.groupaccess : ga[2] = q.acl
    <3>1. ~Accepted(work, Delete("acls", {q.acl}), tx[w].fk)
      BY <1>1, <2>2
    <3>2. KeysHold(work)
      BY <1>6
    <3> HIDE DEF q
    <3> QED BY <1>1, <3>1, <3>2, AclInUse
  <2>4. CASE \E ar \in work.aclrules : ar[1] = q.acl
    <3>1. Uses(work, "aclrules", 1, q.acl) > 0
      BY <1>1, <2>4, UsedCounts
    <3> QED BY <1>4, <2>1, <3>1
  <2>5. CASE \E ga \in work.groupaccess : ga[2] = q.acl
    BY <1>6, <1>10, <2>5
  <2> QED BY <2>3, <2>4, <2>5
<1>11. CASE q.op \notin {"sourceDelete", "groupDelete", "ruleNew", "membersNew", "aclDelete"}
  BY <1>3, <1>5, <1>11 DEF Diagnoses
<1> QED BY <1>7, <1>8, <1>9, <1>10, <1>11

\* A request that is refused between its first statement and its last is refused by
\* a constraint.
LEMMA RefusesRefuse ==
  ASSUME LockInv, [Next]_vars, NEW w \in Worker, Refuses(w)
  PROVE  /\ Refuse(w)
         /\ \E a \in Diagnoses(tx[w].req, tx[w].pc, work) : tx'[w] = Answered(a)
<1>1. /\ tx[w].status = "open" /\ InProgram(w) /\ tx'[w].status = "answered"
      /\ tx = [v \in Worker |-> tx[v]] /\ tx'[w] # tx[w]
  BY DEF Refuses, LockInv, TxTypes
<1>2. ASSUME NEW v \in Worker, NEW t, tx' = [tx EXCEPT ![v] = t]
      PROVE  v = w /\ t = tx'[w]
  BY <1>1, <1>2
<1>3. ASSUME NEW v \in Worker, Arrive(v) PROVE FALSE
  <2>1. ~Serving(v) /\ \E t : tx' = [tx EXCEPT ![v] = t]
    BY <1>3, Zenon
       DEF Arrive, RuleNew, RuleEdit, RuleDelete, AclNew, AclDelete, AclUpdate, AclMove,
           GroupNew, GroupDelete, AccessUpdate, MembersMembers, MembersNew, SourceDelete,
           Reject, ReadPage, Begin
  <2>2. v = w
    BY <1>2, <2>1
  <2> QED BY <1>1, <2>1, <2>2 DEF Serving
<1>4. ASSUME NEW v \in Worker, NEW t, Rollback(v, t) PROVE v = w /\ t = tx'[w]
  BY <1>2, <1>4 DEF Rollback
<1>5. ASSUME NEW v \in Worker, Serve(v)
      PROVE  /\ Refuse(w)
             /\ \E a \in Diagnoses(tx[w].req, tx[w].pc, work) : tx'[w] = Answered(a)
  <2>1. CASE Exec(v) \/ LockTimeout(v)
    <3>1. /\ tx[v].status = "open" /\ tx[v] \in Opened
          /\ \/ tx' = [tx EXCEPT ![v] = [tx[v] EXCEPT !.pc = @ + 1]]
             \/ tx' = [tx EXCEPT ![v] = [tx[v] EXCEPT !.status = "timedOut"]]
      BY <2>1 DEF Exec, LockTimeout, InProgram, LockInv, TxTypes
    <3>2. tx'[v].status # "answered" /\ (v # w => tx'[w] = tx[w])
      BY <1>1, <3>1 DEF Opened
    <3> QED BY <1>1, <3>2
  <2>2. CASE Refuse(v)
    <3>1. PICK a \in Diagnoses(tx[v].req, tx[v].pc, work) : Rollback(v, Answered(a))
      BY <2>2 DEF Refuse
    <3>2. v = w /\ Answered(a) = tx'[w]
      BY <1>4, <3>1
    <3> QED BY <2>2, <3>1, <3>2
  <2>3. CASE Diagnose(v)
    <3>1. v = w /\ tx[v].status = "timedOut"
      BY <1>4, <2>3 DEF Diagnose
    <3> QED BY <1>1, <3>1
  <2>4. CASE Panic(v) \/ PageRead(v)
    <3>1. NoRequest = tx'[w]
      BY <1>4, <2>4 DEF Panic, PageRead
    <3> QED BY <1>1, <3>1 DEF NoRequest
  <2>5. CASE Commit(v)
    <3>1. v = w
      BY <1>2, <2>5 DEF Commit
    <3>2. tx[w].pc \in Nat /\ tx[w].req \in Request
      BY <1>1 DEF LockInv, TxTypes, Opened
    <3>3. Len(Prog(w)) \in Nat
      BY <3>2, HasStatements DEF Prog
    <3> QED BY <1>1, <2>5, <3>1, <3>2, <3>3 DEF Commit, AtEnd, InProgram
  <2> QED BY <1>5, <2>1, <2>2, <2>3, <2>4, <2>5 DEF Serve
<1>6. ASSUME NEW v \in Worker, CommitBusy(v) PROVE FALSE
  <2>1. v = w /\ AtEnd(v)
    BY <1>4, <1>6 DEF CommitBusy
  <2>2. tx[w].pc \in Nat /\ tx[w].req \in Request
    BY <1>1 DEF LockInv, TxTypes, Opened
  <2>3. Len(Prog(w)) \in Nat
    BY <2>2, HasStatements DEF Prog
  <2> QED BY <1>1, <2>1, <2>2, <2>3 DEF AtEnd, InProgram
<1>7. ~Crash
  BY <1>1 DEF Crash, NoRequest
<1>8. ~UNCHANGED vars
  BY <1>1 DEF vars
<1> QED BY <1>3, <1>5, <1>6, <1>7, <1>8 DEF Next

\* The keys of rules and sources hold of what is committed, as AdminStore keeps them.
LEMMA KeysCommitted == Spec => []KeysHold(db)
<1>1. Atomic => StoreProofs!Spec
  <2>1. Store!Init => StoreProofs!Init
    BY DEF Store!Init, StoreProofs!Init
  <2>2. [Store!Next]_db => [StoreProofs!Next]_db
    BY SameStep
  <2> QED BY <2>1, <2>2, PTL DEF Atomic, Store!Spec, StoreProofs!Spec
<1>2. StoreProofs!Spec => []StoreProofs!KeysHold(db)
  BY StoreAssumptions, StoreProofs!KeysKept
<1>3. StoreProofs!KeysHold(db) => KeysHold(db)
  BY DEF KeysHold, StoreProofs!KeysHold, UniqueRows,
     StoreProofs!UniqueRows
<1> QED BY <1>1, <1>2, <1>3, Implements, PTL

\* A deletion that a constraint refused is explained by a number of rows that use what was
\* to be deleted, never by none: its first statement is the one refused, on tables that
\* nobody else has changed and whose keys hold.  Only an ACL may be said to have no rules,
\* and then a group has been granted it, which its handler does not ask about.
THEOREM RefusalsExplained == Spec => RefusalExplained
<1> DEFINE Explains(w) ==
     \/ tx'[w].answer.count > 0
     \/ /\ tx[w].req.op = "aclDelete"
        /\ \E ga \in db.groupaccess : ga[2] = tx[w].req.acl
<1>1. TxInv => LockInv
  BY DEF TxInv
<1>2. TxInv /\ KeysHold(db) /\ [Next]_vars
        => [\A w \in Worker : Blames(w) => Explains(w)]_vars
  <2> SUFFICES ASSUME TxInv, KeysHold(db), [Next]_vars, NEW w \in Worker, Blames(w)
               PROVE  Explains(w)
    OBVIOUS
  <2>1. PICK a \in Diagnoses(tx[w].req, tx[w].pc, work) :
          Refuse(w) /\ tx'[w] = Answered(a)
    BY <1>1, RefusesRefuse DEF Blames
  <2>2. tx'[w].answer = a /\ a.of # ""
    <3>1. Answered(a).answer = a
      BY DEF Answered
    <3> QED BY <2>1, <3>1 DEF Blames
  <2> QED BY <2>1, <2>2, BlameHolds
<1> QED BY <1>2, TxInvHolds, KeysCommitted, PTL DEF Spec, RefusalExplained
=============================================================================
