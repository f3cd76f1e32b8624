----------------------------- MODULE AdminStore -----------------------------
(***************************************************************************)
(* What the admin UI promises of the database: every request that changes  *)
(* it takes effect as a whole, in some order, and only if the tables'      *)
(* constraints allow it; a request that is refused, fails or dies changes  *)
(* nothing.  One action per handler of cmd/ui/ui.go, each the effect of    *)
(* its transaction.  AdminUI is the transaction by transaction version and *)
(* implements this one; Squidwarden uses it as the helper's environment.   *)
(***************************************************************************)
EXTENDS Schema

CONSTANTS Seed,     \* the database file the UI is started on
          FkModes   \* whether transactions run with foreign keys enforced: BOOLEAN,
                    \* since some connections of the pool do not enforce them

ASSUME SeedAssumption == Consistent(Seed)
ASSUME FkModesAssumption == FkModes \subseteq BOOLEAN

VARIABLE db

-----------------------------------------------------------------------------
\* A new UUID names nothing yet.
NewRuleId(r) == r \notin RuleIds(db) /\ \A ar \in db.aclrules : ar[2] # r
NewAclId(a) ==
  /\ a \notin db.acls
  /\ \A ar \in db.aclrules : ar[1] # a
  /\ \A ga \in db.groupaccess : ga[2] # a
NewGroupId(g) ==
  /\ g \notin db.groups
  /\ \A m \in db.members : m[2] # g
  /\ \A ga \in db.groupaccess : ga[1] # g

RuleNew(r, c, fk) ==
  /\ NewRuleId(r)
  /\ \A row \in db.rules : row[2] # c
  /\ fk => NewAcl \in db.acls
  /\ db' = [db EXCEPT !.rules = @ \cup {<<r, c>>},
                      !.aclrules = @ \cup {<<NewAcl, r>>}]

\* An edit of a rule that is gone updates no row, and is answered OK.
RuleEdit(r, c) ==
  /\ r \in RuleIds(db)
  /\ \A row \in db.rules : row[2] = c => row[1] = r
  /\ db' = [db EXCEPT !.rules = {row \in @ : row[1] # r} \cup {<<r, c>>}]

\* Mutant: the rule's entry in its ACL stays.
RuleDelete_RulesOnly(rs, fk) ==
  db' = [db EXCEPT !.rules = {row \in @ : row[1] \notin rs}]

RuleDelete(rs, fk) ==
  db' = [db EXCEPT !.aclrules = {ar \in @ : ar[2] \notin rs},
                   !.rules = {row \in @ : row[1] \notin rs}]

AclNew(a) ==
  /\ NewAclId(a)
  /\ db' = [db EXCEPT !.acls = @ \cup {a}]

AclDelete(a, fk) ==
  /\ fk => /\ \A ar \in db.aclrules : ar[1] # a
           /\ \A ga \in db.groupaccess : ga[2] # a
  /\ db' = [db EXCEPT !.acls = @ \ {a}]

\* The rules go to dst from whatever ACL each is in.  A rule that were in two
\* would be the same row twice, and the whole move refused.
AclMove(rs, dst, fk) ==
  LET moved == {ar \in db.aclrules : ar[2] \in rs} IN
  /\ \A x, y \in moved : x[2] = y[2] => x = y
  /\ fk => moved = {} \/ dst \in db.acls
  /\ db' = [db EXCEPT !.aclrules = (@ \ moved) \cup {<<dst, ar[2]>> : ar \in moved}]

GroupNew(g) ==
  /\ NewGroupId(g)
  /\ db' = [db EXCEPT !.groups = @ \cup {g}]

GroupDelete(g, fk) ==
  /\ fk => /\ \A m \in db.members : m[2] # g
           /\ \A ga \in db.groupaccess : ga[1] # g
  /\ db' = [db EXCEPT !.groups = @ \ {g}]

\* Mutant: the columns of the insert are swapped.
AccessUpdate_Swapped(g, as, fk) ==
  /\ fk => as = {} \/ (g \in db.groups /\ as \subseteq db.acls)
  /\ db' = [db EXCEPT !.groupaccess = {ga \in @ : ga[1] # g} \cup (as \X {g})]

\* The group is granted exactly the ACLs that were checked on the page.
AccessUpdate(g, as, fk) ==
  /\ fk => as = {} \/ (g \in db.groups /\ as \subseteq db.acls)
  /\ db' = [db EXCEPT !.groupaccess = {ga \in @ : ga[1] # g} \cup ({g} \X as)]

\* The group loses its members if none is checked on the page.  Any other list fails at
\* its first insert, which names a column that members does not have (as does that of
\* membersNewHandler, which so leaves nothing behind).
MembersMembers(g) ==
  db' = [db EXCEPT !.members = {m \in @ : m[2] # g}]

SourceDelete(s, fk) ==
  /\ fk => \A m \in db.members : m[1] # s
  /\ db' = [db EXCEPT !.sources = {row \in @ : row[1] # s}]

-----------------------------------------------------------------------------
Init == db = Seed

RuleStep(fk) ==
  \/ \E r \in RuleId, c \in Rule : RuleNew(r, c, fk) \/ RuleEdit(r, c)
  \/ \E rs \in SUBSET RuleId : RuleDelete(rs, fk)

AclStep(fk) ==
  \/ \E a \in AclId : AclNew(a) \/ AclDelete(a, fk)
  \/ \E rs \in SUBSET RuleId, dst \in AclId : AclMove(rs, dst, fk)

GroupStep(fk) ==
  \/ \E g \in GroupId : GroupNew(g) \/ GroupDelete(g, fk)
  \/ \E g \in GroupId, as \in SUBSET AclId : AccessUpdate(g, as, fk)
  \/ \E g \in GroupId : MembersMembers(g)
  \/ \E s \in SourceId : SourceDelete(s, fk)

Next == \E fk \in FkModes : RuleStep(fk) \/ AclStep(fk) \/ GroupStep(fk)

Spec == Init /\ [][Next]_db

-----------------------------------------------------------------------------
TypeOK == db \in DB

\* Every rule is in exactly one ACL, and an ACL lists only rules that exist:
\* the pages move a rule without saying from where (aclMoveHandler), delete it
\* everywhere, and a rule in no ACL is on no page.  Holds whether or not foreign
\* keys are enforced.
OneAclPerRule ==
  /\ \A r \in RuleIds(db) : \E a \in AclId : {ar \in db.aclrules : ar[2] = r} = {<<a, r>>}
  /\ \A ar \in db.aclrules : ar[2] \in RuleIds(db)
=============================================================================
