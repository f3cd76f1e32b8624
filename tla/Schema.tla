------------------------------- MODULE Schema -------------------------------
(***************************************************************************)
(* The database the three programs share: the tables of sqlite.schema with *)
(* their keys and references, and what one SQL statement of the handlers   *)
(* does to them.  What is in a comment column is left out, but not which   *)
(* tables have one: members has none, so that a statement that names its   *)
(* comment fails.  A rule's type and value are one Match, since every      *)
(* query that looks at one looks at both.                                  *)
(***************************************************************************)
EXTENDS Naturals, Sequences, FiniteSets

CONSTANTS AclId, GroupId, SourceId, RuleId,  \* the UUIDs rows are named by
          NewAcl,    \* newACLID, the ACL that receives every new rule
          Address,   \* values of sources.source: a network or a host mask
          Match,     \* values of (rules.type, rules.value)
          Action     \* values of rules.action

ASSUME NewAclAssumption == NewAcl \in AclId

Rule == [match : Match, action : Action]

\* Each table as a set of rows, without the comment; an acl or a group is nothing but
\* its id.
Rows ==
  [acls        |-> AclId,
   groups      |-> GroupId,
   sources     |-> SourceId \X Address,
   members     |-> SourceId \X GroupId,
   aclrules    |-> AclId \X RuleId,
   rules       |-> RuleId \X Rule,
   groupaccess |-> GroupId \X AclId]

Table == DOMAIN Rows

\* The tables that have a column `comment'.
Commented == {"acls", "groups", "sources", "aclrules", "rules", "groupaccess"}

DB == [acls        : SUBSET AclId,
       groups      : SUBSET GroupId,
       sources     : SUBSET (SourceId \X Address),
       members     : SUBSET (SourceId \X GroupId),
       aclrules    : SUBSET (AclId \X RuleId),
       rules       : SUBSET (RuleId \X Rule),
       groupaccess : SUBSET (GroupId \X AclId)]

\* The database as the schema file leaves it: the ACL "new" and nothing else.
EmptyDB ==
  [acls |-> {NewAcl}, groups |-> {}, sources |-> {}, members |-> {},
   aclrules |-> {}, rules |-> {}, groupaccess |-> {}]

RuleIds(d) == {row[1] : row \in d.rules}
SourceIds(d) == {row[1] : row \in d.sources}

-----------------------------------------------------------------------------
(* PRIMARY KEY and UNIQUE of rules and sources: the id and the content both *)
(* name the row.  In the other tables the whole row is the key.             *)
UniqueRows(rows) ==
  \A x, y \in rows : x # y => x[1] # y[1] /\ x[2] # y[2]

KeysHold(d) == UniqueRows(d.rules) /\ UniqueRows(d.sources)

\* Every FOREIGN KEY names a row that is there.
NoDangling(d) ==
  /\ \A m \in d.members : m[1] \in SourceIds(d) /\ m[2] \in d.groups
  /\ \A ar \in d.aclrules : ar[1] \in d.acls /\ ar[2] \in RuleIds(d)
  /\ \A ga \in d.groupaccess : ga[1] \in d.groups /\ ga[2] \in d.acls

\* The references that name no row, each as the column and the row it is in.
Dangling(d) ==
       {<<"members.source_id", m>> : m \in {x \in d.members : x[1] \notin SourceIds(d)}}
  \cup {<<"members.group_id", m>> : m \in {x \in d.members : x[2] \notin d.groups}}
  \cup {<<"aclrules.acl_id", ar>> : ar \in {x \in d.aclrules : x[1] \notin d.acls}}
  \cup {<<"aclrules.rule_id", ar>> : ar \in {x \in d.aclrules : x[2] \notin RuleIds(d)}}
  \cup {<<"groupaccess.group_id", ga>> : ga \in {x \in d.groupaccess : x[1] \notin d.groups}}
  \cup {<<"groupaccess.acl_id", ga>> : ga \in {x \in d.groupaccess : x[2] \notin d.acls}}

\* A database on which only these programs have worked, one at a time: the tables'
\* constraints hold, and every rule is in one ACL.
Consistent(d) ==
  /\ d \in DB
  /\ KeysHold(d)
  /\ NoDangling(d)
  /\ \A r \in RuleIds(d) : \E a \in AclId : {ar \in d.aclrules : ar[2] = r} = {<<a, r>>}

-----------------------------------------------------------------------------
(* The statements.  `rows' is the row inserted, or every row the WHERE      *)
(* clause selects; an UPDATE sets one column of these to a value.           *)
Insert(t, row) == [sql |-> "insert", table |-> t, rows |-> {row}, comment |-> FALSE]
\* An INSERT that names the comment, too.
InsertCommented(t, row) == [sql |-> "insert", table |-> t, rows |-> {row}, comment |-> TRUE]
Delete(t, rows) == [sql |-> "delete", table |-> t, rows |-> rows]
Update(t, rows, col, val) ==
  [sql |-> "update", table |-> t, rows |-> rows, col |-> col, val |-> val]

\* SQLite prepares no statement that names a column there is not.
Prepares(st) == st.sql = "insert" /\ st.comment => st.table \in Commented

SetColumn(st, row) == [row EXCEPT ![st.col] = st.val]

After(d, st) ==
  CASE st.sql = "insert" -> [d EXCEPT ![st.table] = @ \cup st.rows]
    [] st.sql = "delete" -> [d EXCEPT ![st.table] = @ \ st.rows]
    [] st.sql = "update" ->
         [d EXCEPT ![st.table] =
            (@ \ st.rows) \cup {SetColumn(st, row) : row \in @ \cap st.rows}]

\* No row the statement writes is, or becomes, the same as another row.
NoRowTwice(d, st) ==
  LET t == d[st.table] IN
  CASE st.sql = "insert" -> t \cap st.rows = {}
    [] st.sql = "delete" -> TRUE
    [] st.sql = "update" ->
         \A x \in t \cap st.rows, y \in t :
           x # y => SetColumn(st, x) # (IF y \in st.rows THEN SetColumn(st, y) ELSE y)

\* The rows the statement writes, as they are after it.
Written(d, st) ==
  CASE st.sql = "insert" -> st.rows
    [] st.sql = "delete" -> {}
    [] st.sql = "update" -> {SetColumn(st, row) : row \in d[st.table] \cap st.rows}

\* The statement is prepared, and passes the constraints on a connection with (fk) or
\* without foreign key enforcement; one that does not pass changes nothing.
\* Enforcement looks at the rows the statement writes and at the references to
\* the rows it deletes: one that dangles already, left by a connection without
\* enforcement, is not looked at again.
Accepted(d, st, fk) ==
  LET e == After(d, st) IN
  /\ Prepares(st)
  /\ NoRowTwice(d, st)
  /\ KeysHold(e)
  /\ fk => \A x \in Dangling(e) : x \in Dangling(d) /\ x[2] \notin Written(d, st)
=============================================================================
