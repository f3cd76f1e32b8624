-------------------------- MODULE AdminStoreProofs --------------------------
(***************************************************************************)
(* What AdminStore keeps true of the database, for every number of rows    *)
(* and every seed: proofs that TLAPS checks.                               *)
(***************************************************************************)
EXTENDS AdminStore, TLAPS

\* The ids of a table after a row is inserted or, below, replaced.
LEMMA IdsAfterInsert ==
  ASSUME NEW S, NEW id, NEW val
  PROVE  {row[1] : row \in S \cup {<<id, val>>}} = {row[1] : row \in S} \cup {id}
<1>1. <<id, val>>[1] = id
  OBVIOUS
<1> QED BY <1>1, Zenon

\* An UPDATE of the row with that id changes no ids.
LEMMA IdsAfterUpdate ==
  ASSUME NEW S, NEW id, NEW val, id \in {row[1] : row \in S}
  PROVE  {row[1] : row \in {x \in S : x[1] # id} \cup {<<id, val>>}} = {row[1] : row \in S}
<1> DEFINE kept == {x \in S : x[1] # id}
<1>1. {row[1] : row \in kept \cup {<<id, val>>}} = {row[1] : row \in kept} \cup {id}
  BY IdsAfterInsert
<1>2. {row[1] : row \in kept} = {row[1] : row \in S} \ {id}
  OBVIOUS
<1> QED BY <1>1, <1>2

\* Whatever the handlers do, each table holds rows of its columns' types.
LEMMA TypeKept == ASSUME TypeOK, [Next]_db PROVE TypeOK'
<1> USE NewAclAssumption DEF TypeOK, DB
<1>1. ASSUME NEW r \in RuleId, NEW c \in Rule, NEW fk \in FkModes, RuleNew(r, c, fk)
      PROVE TypeOK'
  <2>1. db.rules \cup {<<r, c>>} \in SUBSET (RuleId \X Rule)
    OBVIOUS
  <2>2. db.aclrules \cup {<<NewAcl, r>>} \in SUBSET (AclId \X RuleId)
    OBVIOUS
  <2> QED BY <1>1, <2>1, <2>2 DEF RuleNew
<1>2. ASSUME NEW r \in RuleId, NEW c \in Rule, RuleEdit(r, c) PROVE TypeOK'
  BY <1>2 DEF RuleEdit
<1>3. ASSUME NEW rs \in SUBSET RuleId, NEW fk \in FkModes, RuleDelete(rs, fk)
      PROVE TypeOK'
  BY <1>3 DEF RuleDelete
<1>4. ASSUME NEW a \in AclId, AclNew(a) PROVE TypeOK'
  BY <1>4 DEF AclNew
<1>5. ASSUME NEW a \in AclId, NEW fk \in FkModes, AclDelete(a, fk) PROVE TypeOK'
  BY <1>5 DEF AclDelete
<1>6. ASSUME NEW rs \in SUBSET RuleId, NEW dst \in AclId, NEW fk \in FkModes,
             AclMove(rs, dst, fk)
      PROVE TypeOK'
  <2> DEFINE moved == {ar \in db.aclrules : ar[2] \in rs}
  <2>1. {<<dst, ar[2]>> : ar \in moved} \subseteq AclId \X RuleId
    OBVIOUS
  <2>2. (db.aclrules \ moved) \cup {<<dst, ar[2]>> : ar \in moved} \in SUBSET (AclId \X RuleId)
    BY <2>1
  <2>3. db' = [db EXCEPT !.aclrules = (db.aclrules \ moved)
                                        \cup {<<dst, ar[2]>> : ar \in moved}]
    BY <1>6 DEF AclMove
  <2> HIDE DEF moved
  <2> QED BY <2>2, <2>3
<1>7. ASSUME NEW g \in GroupId, GroupNew(g) PROVE TypeOK'
  BY <1>7 DEF GroupNew
<1>8. ASSUME NEW g \in GroupId, NEW fk \in FkModes, GroupDelete(g, fk) PROVE TypeOK'
  BY <1>8 DEF GroupDelete
<1>9. ASSUME NEW g \in GroupId, NEW as \in SUBSET AclId, NEW fk \in FkModes,
             AccessUpdate(g, as, fk)
      PROVE TypeOK'
  BY <1>9 DEF AccessUpdate
<1>10. ASSUME NEW g \in GroupId, MembersMembers(g) PROVE TypeOK'
  BY <1>10 DEF MembersMembers
<1>11. ASSUME NEW s \in SourceId, NEW fk \in FkModes, SourceDelete(s, fk) PROVE TypeOK'
  BY <1>11 DEF SourceDelete
<1>12. CASE UNCHANGED db
  BY <1>12
<1> QED
  BY <1>1, <1>2, <1>3, <1>4, <1>5, <1>6, <1>7, <1>8, <1>9, <1>10, <1>11, <1>12
     DEF Next, RuleStep, AclStep, GroupStep

\* The type invariant.
THEOREM TypeCorrect == Spec => []TypeOK
<1>1. Init => TypeOK
  BY SeedAssumption DEF Init, TypeOK, Consistent
<1>2. TypeOK /\ [Next]_db => TypeOK'
  BY TypeKept
<1> QED
  BY <1>1, <1>2, PTL DEF Spec

-----------------------------------------------------------------------------
\* The guards keep PRIMARY KEY and UNIQUE of rules and sources, so that AdminStore takes
\* no step that SQLite would refuse for them: used by the proofs that build on it.
LEMMA KeysKept == Spec => []KeysHold(db)
<1>1. Init => KeysHold(db)
  BY SeedAssumption DEF Init, Consistent
<1>2. ASSUME TypeOK, KeysHold(db), [Next]_db PROVE KeysHold(db)'
  <2> USE DEF TypeOK, DB, KeysHold, UniqueRows
  <2>1. ASSUME NEW r \in RuleId, NEW c \in Rule, NEW fk \in FkModes, RuleNew(r, c, fk)
        PROVE KeysHold(db)'
    <3>1. /\ db'.rules = db.rules \cup {<<r, c>>} /\ db'.sources = db.sources
          /\ \A row \in db.rules : row[1] # r /\ row[2] # c
      BY <1>2, <2>1 DEF RuleNew, NewRuleId, RuleIds
    <3> QED BY <1>2, <3>1
  <2>2. ASSUME NEW r \in RuleId, NEW c \in Rule, RuleEdit(r, c) PROVE KeysHold(db)'
    <3>1. /\ db'.rules = {row \in db.rules : row[1] # r} \cup {<<r, c>>}
          /\ db'.sources = db.sources
          /\ \A row \in db.rules : row[2] = c => row[1] = r
      BY <1>2, <2>2 DEF RuleEdit
    <3> QED BY <1>2, <3>1
  <2>3. ASSUME NEW rs \in SUBSET RuleId, NEW fk \in FkModes, RuleDelete(rs, fk)
        PROVE KeysHold(db)'
    <3>1. db'.rules \subseteq db.rules /\ db'.sources = db.sources
      BY <1>2, <2>3 DEF RuleDelete
    <3> QED BY <1>2, <3>1
  <2>4. ASSUME NEW s \in SourceId, NEW fk \in FkModes, SourceDelete(s, fk) PROVE KeysHold(db)'
    <3>1. db'.sources \subseteq db.sources /\ db'.rules = db.rules
      BY <1>2, <2>4 DEF SourceDelete
    <3> QED BY <1>2, <3>1
  <2>5. ASSUME NEW fk \in FkModes, AclStep(fk) PROVE KeysHold(db)'
    <3>1. db'.rules = db.rules /\ db'.sources = db.sources
      BY <1>2, <2>5 DEF AclStep, AclNew, AclDelete, AclMove
    <3> QED BY <1>2, <3>1
  <2>6. ASSUME NEW g \in GroupId, NEW as \in SUBSET AclId,
               NEW fk \in FkModes,
               \/ GroupNew(g) \/ GroupDelete(g, fk)
               \/ AccessUpdate(g, as, fk) \/ MembersMembers(g)
        PROVE KeysHold(db)'
    <3>1. db'.rules = db.rules /\ db'.sources = db.sources
      BY <1>2, <2>6 DEF GroupNew, GroupDelete, AccessUpdate, MembersMembers
    <3> QED BY <1>2, <3>1
  <2>7. CASE UNCHANGED db
    BY <1>2, <2>7
  <2> QED
    BY <1>2, <2>1, <2>2, <2>3, <2>4, <2>5, <2>6, <2>7
       DEF Next, RuleStep, GroupStep
<1> QED
  BY <1>1, <1>2, TypeCorrect, PTL DEF Spec

-----------------------------------------------------------------------------
\* Every rule is in exactly one ACL and every ACL lists rules that exist, with or
\* without foreign keys: the transactions keep it by themselves.  A new rule's id
\* is in no ACL, a deletion takes the rule out of every ACL, and a move keeps the
\* number of ACLs each rule is in.
THEOREM RulesInOneAcl == Spec => []OneAclPerRule
<1> DEFINE In(d, r) == {ar \in d.aclrules : ar[2] = r}
           Listed(d) == \A ar \in d.aclrules : ar[2] \in RuleIds(d)
           One(d) == \A r \in RuleIds(d) : \E a \in AclId : In(d, r) = {<<a, r>>}
<1>0. OneAclPerRule <=> One(db) /\ Listed(db)
  BY DEF OneAclPerRule
<1>0a. OneAclPerRule' <=> One(db') /\ Listed(db')
  BY DEF OneAclPerRule
<1>1. Init => OneAclPerRule
  <2> SUFFICES ASSUME Init PROVE OneAclPerRule
    OBVIOUS
  <2>1. db = Seed
    BY DEF Init
  <2>2. One(db) /\ Listed(db)
    BY <2>1, SeedAssumption DEF NoDangling, Consistent
  <2> QED BY <1>0, <2>2
<1>2. ASSUME TypeOK, OneAclPerRule, [Next]_db PROVE OneAclPerRule'
  <2>0. /\ One(db) /\ Listed(db)
        /\ db.aclrules \subseteq AclId \X RuleId
        /\ db.rules \subseteq RuleId \X Rule
    BY <1>0, <1>2 DEF TypeOK, DB
  <2> SUFFICES One(db') /\ Listed(db')
    BY <1>0a
  <2>1. ASSUME NEW r \in RuleId, NEW c \in Rule, NEW fk \in FkModes, RuleNew(r, c, fk)
        PROVE One(db') /\ Listed(db')
    <3>1. /\ db'.rules = db.rules \cup {<<r, c>>}
          /\ db'.aclrules = db.aclrules \cup {<<NewAcl, r>>}
          /\ r \notin RuleIds(db) /\ \A ar \in db.aclrules : ar[2] # r
      BY <1>2, <2>1 DEF RuleNew, NewRuleId, TypeOK, DB
    <3>2. RuleIds(db') = RuleIds(db) \cup {r}
      <4>1. {row[1] : row \in db.rules \cup {<<r, c>>}} = {row[1] : row \in db.rules} \cup {r}
        BY IdsAfterInsert
      <4> QED BY <3>1, <4>1, Zenon DEF RuleIds
    <3>3. ASSUME NEW x \in RuleIds(db) PROVE In(db', x) = In(db, x)
      BY <3>1, <3>3
    <3>4. In(db', r) = {<<NewAcl, r>>}
      BY <3>1
    <3>5. One(db')
      BY <2>0, <3>2, <3>3, <3>4, NewAclAssumption
    <3>6. Listed(db')
      BY <2>0, <3>1, <3>2
    <3> QED BY <3>5, <3>6
  <2>2. ASSUME NEW r \in RuleId, NEW c \in Rule, RuleEdit(r, c)
        PROVE One(db') /\ Listed(db')
    <3>1. /\ db'.rules = {row \in db.rules : row[1] # r} \cup {<<r, c>>}
          /\ db'.aclrules = db.aclrules
          /\ r \in RuleIds(db)
      BY <1>2, <2>2 DEF RuleEdit, TypeOK, DB
    <3>2. RuleIds(db') = RuleIds(db)
      <4>1. r \in {row[1] : row \in db.rules}
        BY <3>1 DEF RuleIds
      <4>2. {row[1] : row \in {x \in db.rules : x[1] # r} \cup {<<r, c>>}}
              = {row[1] : row \in db.rules}
        BY <4>1, IdsAfterUpdate
      <4> QED BY <3>1, <4>2, Zenon DEF RuleIds
    <3> QED BY <2>0, <3>1, <3>2
  <2>3. ASSUME NEW rs \in SUBSET RuleId, NEW fk \in FkModes, RuleDelete(rs, fk)
        PROVE One(db') /\ Listed(db')
    <3>1. /\ db'.rules = {row \in db.rules : row[1] \notin rs}
          /\ db'.aclrules = {ar \in db.aclrules : ar[2] \notin rs}
      BY <1>2, <2>3 DEF RuleDelete, TypeOK, DB
    <3>2. RuleIds(db') = RuleIds(db) \ rs
      BY <3>1 DEF RuleIds
    <3>3. ASSUME NEW x \in RuleIds(db') PROVE In(db', x) = In(db, x)
      BY <3>1, <3>2, <3>3
    <3>4. One(db')
      BY <2>0, <3>2, <3>3
    <3>5. Listed(db')
      BY <2>0, <3>1, <3>2
    <3> QED BY <3>4, <3>5
  <2>4. ASSUME NEW rs \in SUBSET RuleId, NEW dst \in AclId, NEW fk \in FkModes,
               AclMove(rs, dst, fk)
        PROVE One(db') /\ Listed(db')
    <3> DEFINE moved == {ar \in db.aclrules : ar[2] \in rs}
    <3>1. /\ db'.rules = db.rules
          /\ db'.aclrules = (db.aclrules \ moved) \cup {<<dst, ar[2]>> : ar \in moved}
      BY <1>2, <2>4 DEF AclMove, TypeOK, DB
    <3>2. RuleIds(db') = RuleIds(db)
      BY <3>1 DEF RuleIds
    <3>3. ASSUME NEW x \in RuleIds(db), x \in rs PROVE In(db', x) = {<<dst, x>>}
      <4>1. PICK a \in AclId : In(db, x) = {<<a, x>>}
        BY <2>0
      <4>2. <<a, x>> \in moved /\ <<a, x>>[2] = x
        BY <3>3, <4>1
      <4>3. <<dst, x>> \in In(db', x)
        BY <3>1, <4>2
      <4>4. ASSUME NEW ar \in In(db', x) PROVE ar = <<dst, x>>
        BY <2>0, <3>1, <3>3
      <4> QED BY <4>3, <4>4
    <3>4. ASSUME NEW x \in RuleIds(db), x \notin rs PROVE In(db', x) = In(db, x)
      <4> DEFINE placed == {<<dst, ar[2]>> : ar \in moved}
      <4>1. \A ar \in placed : ar[2] # x
        BY <3>4
      <4>2. \A ar \in moved : ar[2] # x
        BY <3>4
      <4>3. db'.aclrules = (db.aclrules \ moved) \cup placed
        BY <3>1
      <4> HIDE DEF moved, placed
      <4> QED BY <4>1, <4>2, <4>3
    <3>5. One(db')
      BY <2>0, <3>2, <3>3, <3>4
    <3>6. Listed(db')
      BY <2>0, <3>1, <3>2
    <3> QED BY <3>5, <3>6
  <2>5. ASSUME NEW a \in AclId, NEW fk \in FkModes, AclNew(a) \/ AclDelete(a, fk)
        PROVE One(db') /\ Listed(db')
    <3>1. db'.rules = db.rules /\ db'.aclrules = db.aclrules
      BY <1>2, <2>5 DEF AclNew, AclDelete, TypeOK, DB
    <3> QED BY <2>0, <3>1 DEF RuleIds
  <2>6. ASSUME NEW fk \in FkModes, GroupStep(fk) PROVE One(db') /\ Listed(db')
    <3>1. db'.rules = db.rules /\ db'.aclrules = db.aclrules
      BY <1>2, <2>6 DEF GroupStep, GroupNew, GroupDelete, AccessUpdate, MembersMembers,
                        SourceDelete, TypeOK, DB
    <3> QED BY <2>0, <3>1 DEF RuleIds
  <2>7. CASE UNCHANGED db
    BY <2>0, <2>7
  <2> QED
    BY <1>2, <2>1, <2>2, <2>3, <2>4, <2>5, <2>6, <2>7 DEF Next, RuleStep, AclStep
<1> QED
  BY <1>1, <1>2, TypeCorrect, PTL DEF Spec

=============================================================================
