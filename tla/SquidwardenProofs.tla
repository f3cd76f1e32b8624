-------------------------- MODULE SquidwardenProofs --------------------------
(***************************************************************************)
(* Helpers answer as the grants and rules of their load call for, for      *)
(* every set of sources, rules, clients and targets, any number of helpers *)
(* and of edits: proofs that TLAPS checks.                                 *)
(***************************************************************************)
EXTENDS Squidwarden, TLAPS, FiniteSetTheorems, WellFoundedInduction

StoreProofs == INSTANCE AdminStoreProofs

-----------------------------------------------------------------------------
(* decide.                                                                   *)

\* A set of numbers has a least one.
LEMMA Least ==
  ASSUME NEW S, S \subseteq Nat, S # {}
  PROVE \E i \in S : \A j \in S : i <= j
<1>1. PICK i \in S : \A j \in S : <<j, i>> \notin OpToRel(<, Nat)
  BY NatLessThanWellFounded, WFMin
<1>2. ASSUME NEW j \in S PROVE i <= j
  <2>1. i \in Nat /\ j \in Nat
    OBVIOUS
  <2>2. <<j, i>> \in Nat \X Nat /\ <<j, i>>[1] = j /\ <<j, i>>[2] = i
    BY <2>1
  <2>3. ~(<<j, i>>[1] < <<j, i>>[2])
    BY <1>1, <2>2, Zenon DEF OpToRel
  <2> QED BY <2>1, <2>2, <2>3
<1> QED BY <1>2

\* A configuration lists every row whose source parses, and no other, the longer
\* prefixes first: what is as long as the set and repeats nothing leaves nothing out.
LEMMA SourcesEnumerate ==
  ASSUME NEW rows \in SUBSET (Address \X RuleId), NEW list \in Sources(rows)
  PROVE  /\ \E n \in Nat : DOMAIN list = 1 .. n
         /\ \A i \in DOMAIN list : list[i] \in rows /\ list[i][1] \in Parses
         /\ \A row \in rows : row[1] \in Parses => \E i \in DOMAIN list : list[i] = row
         /\ \A i, j \in DOMAIN list : i < j => Prefix[list[i][1]] >= Prefix[list[j][1]]
<1> DEFINE S == {row \in rows : row[1] \in Parses}
           D == 1 .. Cardinality(S)
<1>1. IsFiniteSet(S) /\ Cardinality(S) \in Nat
  <2>1. IsFiniteSet(Address \X RuleId)
    BY HelperAssumption, FS_Product
  <2>2. S \in SUBSET (Address \X RuleId)
    OBVIOUS
  <2>3. IsFiniteSet(S)
    BY <2>1, <2>2, FS_Subset
  <2> QED BY <2>3, FS_CardinalityType
<1>2. /\ list \in [D -> S]
      /\ \A i, j \in D : i # j => list[i] # list[j]
      /\ \A i, j \in DOMAIN list : i < j => Prefix[list[i][1]] >= Prefix[list[j][1]]
  BY DEF Sources, SetToSeqs
<1>3. list \in Injection(D, S)
  BY <1>2 DEF Injection, IsInjective
<1>4. Cardinality(D) = Cardinality(S)
  BY <1>1, FS_Interval
<1>5. list \in Surjection(D, S)
  BY <1>1, <1>3, <1>4, FS_Injection
<1>6. \A row \in S : \E i \in D : list[i] = row
  BY <1>5 DEF Surjection
<1> QED BY <1>1, <1>2, <1>6

\* Where ids name rows, RuleOf finds the row with the id.
LEMMA RuleOfKnown ==
  ASSUME NEW c, UniqueRows(c.rules), NEW row \in c.rules
  PROVE  Known(c, row[1]) /\ RuleOf(c, row[1]) = row[2]
<1>1. Known(c, row[1])
  BY DEF Known
<1>2. (CHOOSE x \in c.rules : x[1] = row[1]) = row
  <2>1. \A x \in c.rules : x[1] = row[1] => x = row
    BY DEF UniqueRows
  <2>2. (CHOOSE x \in c.rules : x[1] = row[1]) \in c.rules
        /\ (CHOOSE x \in c.rules : x[1] = row[1])[1] = row[1]
    OBVIOUS
  <2> QED BY <2>1, <2>2
<1> QED BY <1>1, <1>2 DEF RuleOf

\* decide, going down the list to the first match, decides what the most specific
\* matching sources call for.
LEMMA DecisionIsMeant ==
  ASSUME NEW rows \in SUBSET (Address \X RuleId), NEW c,
         c.sources \in Sources(rows), UniqueRows(c.rules), NEW client, NEW target,
         c.rules \subseteq RuleId \X Rule,
         ~NilRule(c, client, target)
  PROVE  Decision(c, client, target) \in Meaning(rows, c.rules, client, target)
<1> DEFINE list == c.sources
           stops == FirstStops(c, client, target)
           hits == {x \in rows \X c.rules :
                      /\ x[1][1] \in Parses /\ client \in Covers[x[1][1]]
                      /\ x[2][1] = x[1][2] /\ target \in Hits[x[2][2].match]}
           best == {x \in hits : \A y \in hits : Prefix[y[1][1]] <= Prefix[x[1][1]]}
<1>0. PICK n \in Nat :
      /\ DOMAIN list = 1 .. n
      /\ \A i \in DOMAIN list : list[i] \in rows /\ list[i][1] \in Parses
      /\ \A row \in rows : row[1] \in Parses => \E i \in DOMAIN list : list[i] = row
      /\ \A i, j \in DOMAIN list : i < j => Prefix[list[i][1]] >= Prefix[list[j][1]]
  BY SourcesEnumerate
<1>1. CASE target \in CacheObject
  BY <1>1 DEF Decision, Meaning
<1> SUFFICES ASSUME target \notin CacheObject
             PROVE  Decision(c, client, target) \in Meaning(rows, c.rules, client, target)
  BY <1>1
<1>2. ASSUME NEW x \in hits
      PROVE \E i \in DOMAIN list : list[i] = x[1] /\ Stops(c, i, client, target)
  <2>1. PICK i \in DOMAIN list : list[i] = x[1]
    BY <1>0
  <2>2. Known(c, x[2][1]) /\ RuleOf(c, x[2][1]) = x[2][2]
    BY RuleOfKnown
  <2>3. Stops(c, i, client, target)
    BY <2>1, <2>2 DEF Stops
  <2> QED BY <2>1, <2>3
<1>3. ASSUME NEW i \in DOMAIN list, Stops(c, i, client, target)
      PROVE  \E k \in stops : k <= i
  <2> DEFINE all == {j \in DOMAIN list : Stops(c, j, client, target)}
  <2>1. all \subseteq Nat /\ i \in all
    BY <1>0, <1>3
  <2>2. PICK k \in all : \A j \in all : k <= j
    BY <2>1, Least
  <2>3. \A j \in 1 .. k - 1 : j \in DOMAIN list => ~Stops(c, j, client, target)
    BY <2>1, <2>2
  <2>4. \A j \in 1 .. k - 1 : j \in DOMAIN list
    BY <1>0, <2>1, <2>2
  <2> QED BY <2>1, <2>2, <2>3, <2>4 DEF FirstStops
<1>4. CASE stops = {}
  <2>1. hits = {}
    BY <1>2, <1>3, <1>4
  <2> QED BY <1>4, <2>1 DEF Decision, Meaning
<1>5. CASE stops # {}
  <2> DEFINE i == CHOOSE k \in stops : TRUE
             row == CHOOSE x \in c.rules : x[1] = list[i][2]
  <2>1. /\ i \in stops /\ i \in DOMAIN list
        /\ Stops(c, i, client, target)
        /\ \A j \in 1 .. i - 1 : ~Stops(c, j, client, target)
    BY <1>5 DEF FirstStops
  <2>2. Known(c, list[i][2])
    BY <2>1 DEF NilRule
  <2>3. row \in c.rules /\ row[1] = list[i][2] /\ RuleOf(c, list[i][2]) = row[2]
    BY <2>2 DEF Known, RuleOf
  <2>9. client \in Covers[list[i][1]] /\ target \in Hits[row[2].match]
    BY <2>1, <2>2, <2>3 DEF Stops
  <2> HIDE DEF i, row
  <2>4. <<list[i], row>> \in hits
    <3>1. list[i] \in rows /\ list[i][1] \in Parses
      BY <1>0, <2>1
    <3>2. <<list[i], row>> \in rows \X c.rules
      BY <2>3, <3>1
    <3> QED BY <2>3, <2>9, <3>1, <3>2
  <2>5. <<list[i], row>> \in best
    <3>1. ASSUME NEW y \in hits PROVE Prefix[y[1][1]] <= Prefix[list[i][1]]
      <4>1. PICK j \in DOMAIN list : list[j] = y[1] /\ Stops(c, j, client, target)
        BY <1>2
      <4>2. i = j \/ i < j
        BY <1>0, <2>1, <4>1
      <4>3. Prefix[list[i][1]] \in Nat /\ Prefix[list[j][1]] \in Nat
        BY <1>0, <2>1, <4>1, HelperAssumption
      <4> QED BY <1>0, <2>1, <4>1, <4>2, <4>3
    <3> QED BY <2>4, <3>1
  <2>6. Decision(c, client, target) = <<list[i], row>>[2][2].action
    BY <1>5, <2>3 DEF Decision, i
  <2>7. hits # {}
    BY <2>4
  <2>8. Meaning(rows, c.rules, client, target) = {x[2][2].action : x \in best}
    BY <2>7 DEF Meaning
  <2> QED BY <2>5, <2>6, <2>8
<1> QED BY <1>4, <1>5

-----------------------------------------------------------------------------
(* The database: a step of the whole is a step of AdminStore or leaves it      *)
(* alone, so that what is proved of AdminStore holds here.                    *)
DbOK == db \in DB /\ KeysHold(db)

\* The assumptions of AdminStoreProofs, for these constants.
LEMMA StoreAssumptions ==
  /\ StoreProofs!NewAclAssumption
  /\ StoreProofs!SeedAssumption
  /\ StoreProofs!FkModesAssumption
<1>1. StoreProofs!SeedAssumption
  BY SeedAssumption, Zenon
     DEF StoreProofs!SeedAssumption, StoreProofs!Consistent, Consistent, StoreProofs!DB, DB,
         StoreProofs!KeysHold, KeysHold, StoreProofs!UniqueRows, UniqueRows,
         StoreProofs!NoDangling, NoDangling, StoreProofs!RuleIds, RuleIds,
         StoreProofs!SourceIds, SourceIds, StoreProofs!Rule, Rule
<1>2. StoreProofs!NewAclAssumption /\ StoreProofs!FkModesAssumption
  BY NewAclAssumption, FkModesAssumption
     DEF StoreProofs!NewAclAssumption, StoreProofs!FkModesAssumption
<1> QED BY <1>1, <1>2

\* Squidwarden's instance of AdminStore and the one the proofs are about are the same.
LEMMA SameStep == Store!Next => StoreProofs!Next
BY Zenon DEF Store!Next, StoreProofs!Next,
  Store!RuleStep, StoreProofs!RuleStep, Store!AclStep, StoreProofs!AclStep,
  Store!GroupStep, StoreProofs!GroupStep, Store!RuleNew, StoreProofs!RuleNew,
  Store!RuleEdit, StoreProofs!RuleEdit, Store!RuleDelete, StoreProofs!RuleDelete,
  Store!AclNew, StoreProofs!AclNew, Store!AclDelete, StoreProofs!AclDelete,
  Store!AclMove, StoreProofs!AclMove, Store!GroupNew, StoreProofs!GroupNew,
  Store!GroupDelete, StoreProofs!GroupDelete, Store!AccessUpdate, StoreProofs!AccessUpdate,
  Store!MembersMembers, StoreProofs!MembersMembers,
  Store!SourceDelete, StoreProofs!SourceDelete,
  Store!NewRuleId, StoreProofs!NewRuleId, Store!NewAclId, StoreProofs!NewAclId,
  Store!NewGroupId, StoreProofs!NewGroupId,
  Store!RuleIds, StoreProofs!RuleIds, Store!SourceIds, StoreProofs!SourceIds,
  Store!Rule, StoreProofs!Rule

\* The database always has its types and keys.
LEMMA DatabaseOK == Spec => []DbOK
<1>1. Init => StoreProofs!Init
  BY DEF Init, Store!Init, StoreProofs!Init
<1>2. [Next]_vars => [StoreProofs!Next]_db
  BY SameStep DEF Next, vars, local, hist, Edit, Launch, Line, Listed, Loaded, Other, Locked
<1>3. StoreProofs!TypeOK /\ StoreProofs!KeysHold(db) => DbOK
  BY Zenon DEF DbOK, StoreProofs!TypeOK, StoreProofs!DB, DB,
         StoreProofs!KeysHold, KeysHold, StoreProofs!UniqueRows, UniqueRows,
         StoreProofs!Rule, Rule
<1>4. StoreProofs!NewAclAssumption /\ StoreProofs!SeedAssumption
      /\ StoreProofs!FkModesAssumption
  BY StoreAssumptions
<1>5. StoreProofs!Spec => []StoreProofs!TypeOK /\ []StoreProofs!KeysHold(db)
  BY <1>4, StoreProofs!TypeCorrect, StoreProofs!KeysKept, PTL
<1> QED
  BY <1>1, <1>2, <1>3, <1>5, PTL DEF Spec, StoreProofs!Spec

-----------------------------------------------------------------------------
(* The invariant.                                                             *)

\* What a load may put in Config.Sources is a list of rows.
LEMMA SourcesType ==
  ASSUME NEW rows \in SUBSET (Address \X RuleId), NEW list \in Sources(rows)
  PROVE  list \in Seq(Address \X RuleId)
<1>1. PICK n \in Nat : /\ DOMAIN list = 1 .. n
                       /\ \A i \in DOMAIN list : list[i] \in rows
  BY SourcesEnumerate
<1>2. list = [i \in 1 .. n |-> list[i]]
  BY <1>1 DEF Sources, SetToSeqs
<1>3. list \in [1 .. n -> Address \X RuleId]
  BY <1>1, <1>2
<1> QED BY <1>3

\* Editing appends a version, which is then the database.
LEMMA EditHistory ==
  ASSUME TypeOK, DbOK', Edit
  PROVE  /\ past' \in Seq(DB) /\ past' # <<>> /\ past'[Now'] = db'
         /\ Now \in Nat \ {0} /\ Now' = Now + 1
         /\ \A i \in 1 .. Now : past'[i] = past[i]
<1>1. past \in Seq(DB) /\ past # <<>> /\ db' \in DB /\ past' = Append(past, db')
  BY DEF TypeOK, DbOK, Edit
<1> QED BY <1>1 DEF Now

\* Every step keeps the types.
LEMMA TypeStep ==
  ASSUME TypeOK, DbOK, DbOK', [Next]_vars
  PROVE  TypeOK'
<1>1. CASE Edit
  <2>1. UNCHANGED <<pc, read, cfg, line, answer, since, window>>
    BY <1>1 DEF Edit, local
  <2>2. 1 .. Now \subseteq 1 .. Now'
    BY <1>1, EditHistory
  <2>3. since' \in [HelperId -> 1 .. Now'] /\ window' \in [HelperId -> (1 .. Now') \X (1 .. Now')]
    BY <2>1, <2>2 DEF TypeOK
  <2> QED BY <1>1, <2>1, <2>3, EditHistory DEF TypeOK
<1>2. ASSUME NEW h \in HelperId, UNCHANGED <<db, hist>>,
             Listed(h) \/ Other(h) \/ Locked(h)
      PROVE  TypeOK'
  <2>1. UNCHANGED <<db, past, since, window>> /\ Now' = Now
    BY <1>2 DEF hist, Now
  <2> SUFFICES /\ pc' \in [HelperId -> {"down", "querySources", "queryRules", "ready", "decide"}]
               /\ read' \in [HelperId -> SUBSET (Address \X RuleId)]
               /\ cfg' \in [HelperId ->
                    [sources : Seq(Address \X RuleId), rules : SUBSET (RuleId \X Rule)]]
               /\ line' \in [HelperId -> (Client \X Target) \cup {Nothing}]
               /\ answer' \in [HelperId -> [ok : BOOLEAN, logged : BOOLEAN] \cup {Nothing}]
    BY <2>1 DEF TypeOK
  <2> USE DEF TypeOK, Goto
  <2>2. CASE Listed(h)
    <3>1. Join(db) \in SUBSET (Address \X RuleId)
      BY DEF Join
    <3> QED BY <2>2, <3>1 DEF Listed, QuerySources
  <2>3. CASE Decide(h)
    <3>1. \A act : Reply(act) \in [ok : BOOLEAN, logged : BOOLEAN]
      BY DEF Reply
    <3>2. PICK a \in [ok : BOOLEAN, logged : BOOLEAN] :
            answer' = [answer EXCEPT ![h] = a]
      BY <2>3, <3>1 DEF Decide
    <3> QED BY <2>3, <3>2 DEF Decide
  <2>4. ASSUME Die(h) PROVE TypeOK'
    <3>1. NoConfig \in [sources : Seq(Address \X RuleId), rules : SUBSET (RuleId \X Rule)]
      BY DEF NoConfig
    <3> QED BY <2>1, <2>4, <3>1 DEF Die
  <2>5. ASSUME LoadFails(h) PROVE TypeOK'
    BY <2>1, <2>4, <2>5 DEF LoadFails
  <2> QED
    BY <1>2, <2>2, <2>3, <2>4, <2>5 DEF Other, Locked, BadRule, QueryFails, Panic
<1>3. ASSUME NEW h \in HelperId, Launch(h) PROVE TypeOK'
  <2>1. Now' = Now /\ Now \in 1 .. Now
    BY <1>3 DEF Launch, Now, TypeOK
  <2> QED BY <1>3, <2>1 DEF Launch, Start, Goto, TypeOK
<1>4. ASSUME NEW h \in HelperId, Line(h) PROVE TypeOK'
  <2>1. PICK client \in Client, target \in Target, stale \in BOOLEAN :
          /\ Receive(h, client, target, stale)
          /\ since' = [since EXCEPT ![h] = IF stale THEN Now ELSE @]
          /\ UNCHANGED <<db, past, window>>
    BY <1>4 DEF Line
  <2>2. Now' = Now /\ Now \in 1 .. Now
    BY <2>1 DEF Now, TypeOK
  <2> QED BY <2>1, <2>2 DEF Receive, Goto, TypeOK
<1>5. ASSUME NEW h \in HelperId, Loaded(h) PROVE TypeOK'
  <2>1. Now' = Now /\ Now \in 1 .. Now /\ since[h] \in 1 .. Now
    BY <1>5 DEF Loaded, Now, TypeOK
  <2>2. PICK list \in Sources(read[h]) :
          cfg' = [cfg EXCEPT ![h] = [sources |-> list, rules |-> db.rules]]
    BY <1>5 DEF Loaded, QueryRules
  <2>3. [sources |-> list, rules |-> db.rules]
          \in [sources : Seq(Address \X RuleId), rules : SUBSET (RuleId \X Rule)]
    BY SourcesType DEF TypeOK, DbOK, DB
  <2>4. AfterLoad(h) \in {"ready", "decide"}
    BY DEF AfterLoad
  <2> QED BY <1>5, <2>1, <2>2, <2>3, <2>4 DEF Loaded, QueryRules, Goto, TypeOK
<1>6. CASE UNCHANGED vars
  BY <1>6 DEF vars, local, hist, TypeOK, Now
<1> QED
  BY <1>1, <1>2, <1>3, <1>4, <1>5, <1>6 DEF Next, Listed, Other, Locked

\* At the start, too.
LEMMA InitType == Init => TypeOK
<1> SUFFICES ASSUME Init PROVE TypeOK
  OBVIOUS
<1>1. db = Seed /\ Seed \in DB /\ past = <<Seed>>
  BY SeedAssumption DEF Init, Store!Init, Consistent
<1>2. past \in Seq(DB) /\ past # <<>> /\ Now = 1 /\ past[Now] = db
  BY <1>1 DEF Now
<1>3. NoConfig \in [sources : Seq(Address \X RuleId), rules : SUBSET (RuleId \X Rule)]
  BY DEF NoConfig
<1> QED BY <1>2, <1>3 DEF Init, HelperInit, TypeOK

\* The type invariant, whatever the helpers and the admin do; with it, that the last
\* version in the history is the database.
THEOREM TypeCorrect == Spec => []TypeOK
BY InitType, TypeStep, DatabaseOK, PTL DEF Spec

\* A helper answers, or will if its reload fails, from a configuration it has loaded.
InUse(h) == pc[h] \in {"ready", "decide"} \/ line[h] # Nothing

\* Its configuration is of grants and rules that were committed within its window.
FromWindow(h) ==
  \E v, w \in window[h][1] .. window[h][2] :
    /\ v <= w
    /\ cfg[h].sources \in Sources(Join(past[v]))
    /\ cfg[h].rules = past[w].rules

\* The rows of a load under way are of a version since it began.
ReadSince(h) ==
  pc[h] = "queryRules" => \E v \in since[h] .. Now : read[h] = Join(past[v])

HelperInv(h) == ReadSince(h) /\ (InUse(h) => FromWindow(h))

\* The inductive invariant: what each helper has in hand, as of which versions; and
\* that all versions had their keys, so that an id finds one rule.
Inv ==
  /\ TypeOK
  /\ \A i \in 1 .. Now : KeysHold(past[i])
  /\ \A h \in HelperId : HelperInv(h)

\* What a helper has in hand stays so while others move and the admin edits.
LEMMA HelperFrame ==
  ASSUME TypeOK, NEW g \in HelperId, HelperInv(g),
         Now \in Nat, Now' \in Nat, Now <= Now', \A i \in 1 .. Now : past'[i] = past[i],
         pc'[g] = pc[g], read'[g] = read[g], cfg'[g] = cfg[g], line'[g] = line[g],
         since'[g] = since[g], window'[g] = window[g]
  PROVE  HelperInv(g)'
<1>1. since[g] \in 1 .. Now /\ window[g][1] \in 1 .. Now /\ window[g][2] \in 1 .. Now
  BY DEF TypeOK
<1>2. ReadSince(g)'
  <2> SUFFICES ASSUME pc[g] = "queryRules"
               PROVE \E v \in since[g] .. Now' : read[g] = Join(past'[v])
    BY DEF ReadSince
  <2>1. PICK v \in since[g] .. Now : read[g] = Join(past[v])
    BY DEF HelperInv, ReadSince
  <2> QED BY <1>1, <2>1
<1>3. ASSUME InUse(g)' PROVE FromWindow(g)'
  <2>1. PICK v \in window[g][1] .. window[g][2], w \in window[g][1] .. window[g][2] :
          /\ v <= w
          /\ cfg[g].sources \in Sources(Join(past[v]))
          /\ cfg[g].rules = past[w].rules
    BY <1>3 DEF HelperInv, InUse, FromWindow
  <2>2. past'[v] = past[v] /\ past'[w] = past[w]
    BY <1>1, <2>1
  <2> QED BY <2>1, <2>2 DEF FromWindow
<1> QED BY <1>2, <1>3 DEF HelperInv

\* Every step keeps the invariant.  Only the step's own helper has to be looked at:
\* HelperFrame is for the others.
LEMMA InvStep ==
  ASSUME Inv, DbOK, DbOK', [Next]_vars
  PROVE  Inv'
<1>0. TypeOK /\ TypeOK' /\ \A g \in HelperId : HelperInv(g)
  BY TypeStep DEF Inv
<1>00. Now \in Nat \ {0} /\ past[Now] = db
  BY <1>0 DEF TypeOK, Now
<1>1. CASE Edit
  <2>1. Now' = Now + 1 /\ past'[Now'] = db' /\ \A i \in 1 .. Now : past'[i] = past[i]
    BY <1>0, <1>1, EditHistory
  <2>2. \A i \in 1 .. Now' : KeysHold(past'[i])
    <3>1. \A i \in 1 .. Now' : i \in 1 .. Now \/ i = Now'
      BY <1>00, <2>1
    <3> QED BY <2>1, <3>1 DEF Inv, DbOK
  <2>3. ASSUME NEW g \in HelperId PROVE HelperInv(g)'
    <3>1. UNCHANGED <<pc, read, cfg, line, since, window>>
      BY <1>1 DEF Edit, local
    <3> QED BY <1>0, <1>00, <2>1, <3>1, HelperFrame
  <2> QED BY <1>0, <2>2, <2>3 DEF Inv
<1>2. ASSUME NEW h \in HelperId, UNCHANGED <<db, past>>,
             \A g \in HelperId \ {h} :
               /\ pc'[g] = pc[g] /\ read'[g] = read[g] /\ cfg'[g] = cfg[g]
               /\ line'[g] = line[g] /\ since'[g] = since[g] /\ window'[g] = window[g],
             HelperInv(h)'
      PROVE  Inv'
  <2>1. Now' = Now /\ \A i \in 1 .. Now : past'[i] = past[i]
    BY <1>2 DEF Now
  <2>2. ASSUME NEW g \in HelperId, g # h PROVE HelperInv(g)'
    BY <1>0, <1>2, <1>00, <2>1, <2>2, HelperFrame
  <2> QED BY <1>0, <1>2, <2>1, <2>2 DEF Inv
<1>3. ASSUME NEW h \in HelperId, Launch(h) PROVE Inv'
  <2>1. HelperInv(h)'
    BY <1>0, <1>3 DEF Launch, Start, Goto, TypeOK, HelperInv, ReadSince, InUse, FromWindow
  <2> QED BY <1>0, <1>2, <1>3, <2>1 DEF Launch, Start, Goto, TypeOK
<1>4. ASSUME NEW h \in HelperId, Line(h) PROVE Inv'
  <2>1. PICK client \in Client, target \in Target, stale \in BOOLEAN :
          /\ Receive(h, client, target, stale)
          /\ since' = [since EXCEPT ![h] = IF stale THEN Now ELSE @]
          /\ UNCHANGED <<db, past, window>>
    BY <1>4 DEF Line
  <2>2. InUse(h) /\ FromWindow(h)
    BY <1>0, <2>1 DEF Receive, InUse, HelperInv
  <2>3. pc'[h] # "queryRules" /\ FromWindow(h)'
    BY <1>0, <2>1, <2>2 DEF Receive, Goto, FromWindow, TypeOK
  <2>4. HelperInv(h)'
    BY <2>3 DEF HelperInv, ReadSince
  <2> QED BY <1>0, <1>2, <2>1, <2>4 DEF Receive, Goto, TypeOK
<1>5. ASSUME NEW h \in HelperId, Listed(h) PROVE Inv'
  <2>1. read'[h] = Join(past'[Now']) /\ since'[h] \in 1 .. Now' /\ Now' = Now
    BY <1>0, <1>5, <1>00 DEF Listed, QuerySources, hist, Now, TypeOK
  <2>2. ReadSince(h)'
    BY <1>00, <2>1 DEF ReadSince
  <2>3. (InUse(h) => FromWindow(h)) => (InUse(h) => FromWindow(h))'
    BY <1>0, <1>5 DEF Listed, QuerySources, Goto, hist, InUse, FromWindow, TypeOK
  <2>4. HelperInv(h)'
    BY <1>0, <2>2, <2>3 DEF HelperInv
  <2> QED BY <1>0, <1>2, <1>5, <2>4 DEF Listed, QuerySources, Goto, hist, TypeOK
<1>6. ASSUME NEW h \in HelperId, Loaded(h) PROVE Inv'
  <2>1. PICK list \in Sources(read[h]) :
          cfg' = [cfg EXCEPT ![h] = [sources |-> list, rules |-> db.rules]]
    BY <1>6 DEF Loaded, QueryRules
  <2>2. PICK v \in since[h] .. Now : read[h] = Join(past[v])
    BY <1>0, <1>6 DEF Loaded, QueryRules, HelperInv, ReadSince
  <2>3. /\ cfg'[h].sources \in Sources(Join(past'[v]))
        /\ cfg'[h].rules = past'[Now].rules
        /\ window'[h][1] = since[h] /\ window'[h][2] = Now
    BY <1>0, <1>6, <1>00, <2>1, <2>2 DEF Loaded, TypeOK
  <2>4. since[h] \in 1 .. Now
    BY <1>0 DEF TypeOK
  <2>5. FromWindow(h)'
    BY <1>00, <2>2, <2>3, <2>4 DEF FromWindow
  <2>6. ReadSince(h)'
    BY <1>0, <1>6 DEF Loaded, QueryRules, Goto, AfterLoad, ReadSince, TypeOK
  <2>7. HelperInv(h)'
    BY <2>5, <2>6 DEF HelperInv
  <2> QED BY <1>0, <1>2, <1>6, <2>1, <2>7 DEF Loaded, QueryRules, Goto, TypeOK
<1>7. ASSUME NEW h \in HelperId, Die(h), UNCHANGED <<db, hist>> PROVE Inv'
  <2>1. HelperInv(h)'
    BY <1>0, <1>7 DEF Die, Goto, TypeOK, HelperInv, ReadSince, InUse
  <2> QED BY <1>0, <1>2, <1>7, <2>1 DEF Die, Goto, hist, TypeOK
<1>8. ASSUME NEW h \in HelperId, LoadFails(h), UNCHANGED <<db, hist>> PROVE Inv'
  <2>1. CASE line[h] = Nothing
    BY <1>7, <1>8, <2>1 DEF LoadFails
  <2>2. CASE line[h] # Nothing
    <3>1. FromWindow(h)
      BY <1>0, <2>2 DEF HelperInv, InUse
    <3>2. HelperInv(h)'
      BY <1>0, <1>8, <2>2, <3>1
         DEF LoadFails, Goto, hist, TypeOK, HelperInv, ReadSince, FromWindow
    <3> QED BY <1>0, <1>2, <1>8, <2>2, <3>2 DEF LoadFails, Goto, hist, TypeOK
  <2> QED BY <2>1, <2>2
<1>9. ASSUME NEW h \in HelperId, Decide(h), UNCHANGED <<db, hist>> PROVE Inv'
  <2>1. FromWindow(h)
    BY <1>0, <1>9 DEF Decide, HelperInv, InUse
  <2>2. /\ pc' = [pc EXCEPT ![h] = "ready"] /\ line' = [line EXCEPT ![h] = Nothing]
        /\ UNCHANGED <<db, past, read, cfg, since, window>>
    BY <1>9 DEF Decide, Goto, hist
  <2>3. HelperInv(h)'
    BY <1>0, <2>1, <2>2 DEF TypeOK, HelperInv, ReadSince, FromWindow
  <2> QED BY <1>0, <1>2, <2>2, <2>3 DEF TypeOK
<1>10. CASE UNCHANGED vars
  <2>1. /\ UNCHANGED <<db, past, pc, read, cfg, line, since, window>> /\ Now' = Now
    BY <1>10 DEF vars, local, hist, Now
  <2>2. ASSUME NEW g \in HelperId PROVE HelperInv(g)'
    BY <1>0, <1>00, <2>1, HelperFrame
  <2> QED BY <1>0, <2>1, <2>2 DEF Inv
<1> QED
  BY <1>1, <1>3, <1>4, <1>5, <1>6, <1>7, <1>8, <1>9, <1>10
     DEF Next, Other, Locked, BadRule, QueryFails, Panic

\* The invariant holds of every state the system can reach.
LEMMA InvHolds == Spec => []Inv
<1>1. Init => Inv
  <2> SUFFICES ASSUME Init PROVE Inv
    OBVIOUS
  <2>1. past = <<Seed>> /\ KeysHold(Seed)
    BY SeedAssumption DEF Init, Consistent
  <2>2. Now = 1 /\ past[1] = Seed
    BY <2>1 DEF Now
  <2>3. \A i \in 1 .. Now : KeysHold(past[i])
    BY <2>1, <2>2
  <2>4. \A h \in HelperId : HelperInv(h)
    BY DEF Init, HelperInit, HelperInv, ReadSince, InUse
  <2>5. TypeOK
    BY InitType
  <2> QED BY <2>3, <2>4, <2>5 DEF Inv
<1> QED
  BY <1>1, InvStep, DatabaseOK, PTL DEF Spec

-----------------------------------------------------------------------------
(* What the answers are.                                                      *)

\* Nothing but its answer or a panic takes a helper from a line it is to decide.
LEMMA LeavesDecide ==
  ASSUME TypeOK, Next, NEW h \in HelperId, pc[h] = "decide", pc'[h] # "decide"
  PROVE  Decide(h) \/ Panic(h)
<1> SUFFICES ASSUME NEW g \in HelperId,
                    Launch(g) \/ Line(g) \/ Listed(g) \/ Loaded(g) \/ Locked(g) \/ Other(g)
             PROVE  Decide(h) \/ Panic(h)
  BY DEF Next, Edit, local
<1>1. pc \in [HelperId -> {"down", "querySources", "queryRules", "ready", "decide"}]
  BY DEF TypeOK
<1>2. pc[g] # "decide" \/ Decide(g) \/ Panic(g)
  BY DEF Launch, Start, Line, Receive, Listed, QuerySources, Loaded, QueryRules, Locked,
         QueryFails, Other, BadRule
<1>3. \E label : pc' = [pc EXCEPT ![g] = label]
  BY DEF Launch, Start, Line, Receive, Listed, QuerySources, Loaded, QueryRules, Locked,
         QueryFails, Other, BadRule, Decide, Panic, Die, LoadFails, Goto
<1>4. g = h
  BY <1>1, <1>3
<1> QED BY <1>2, <1>4

\* Explained: every answer is one that grants and rules of the load in use call for.
THEOREM AnswersExplained == Spec => Explained
<1>1. ASSUME Inv, [Next]_vars, NEW h \in HelperId,
             pc[h] = "decide", pc'[h] = "ready", line[h][2] \notin Malformed
      PROVE  \E v \in window[h][1] .. window[h][2], w \in window[h][1] .. window[h][2] :
               /\ v <= w
               /\ \E act \in Meaning(Join(past[v]), past[w].rules, line[h][1], line[h][2]) :
                    answer'[h] = Reply(act)
  <2>1. Decide(h)
    <3>1. Next
      BY <1>1 DEF vars, local
    <3>2. Panic(h) => pc'[h] = "down"
      BY <1>1 DEF Panic, Die, Goto, Inv, TypeOK
    <3> QED BY <1>1, <3>1, <3>2, LeavesDecide DEF Inv
  <2>2. PICK v \in window[h][1] .. window[h][2], w \in window[h][1] .. window[h][2] :
          /\ v <= w
          /\ cfg[h].sources \in Sources(Join(past[v]))
          /\ cfg[h].rules = past[w].rules
    BY <1>1 DEF Inv, HelperInv, InUse, FromWindow
  <2>3. w \in 1 .. Now /\ cfg[h].rules \subseteq RuleId \X Rule
    BY <1>1 DEF Inv, TypeOK, Now
  <2>4. UniqueRows(cfg[h].rules)
    BY <1>1, <2>2, <2>3 DEF Inv, KeysHold
  <2>5. Join(past[v]) \in SUBSET (Address \X RuleId)
    BY DEF Join
  <2>6. ~NilRule(cfg[h], line[h][1], line[h][2])
    BY <1>1, <2>1 DEF Decide
  <2>7. Decision(cfg[h], line[h][1], line[h][2])
          \in Meaning(Join(past[v]), cfg[h].rules, line[h][1], line[h][2])
    BY <2>2, <2>3, <2>4, <2>5, <2>6, DecisionIsMeant
  <2>8. answer'[h] = Reply(Decision(cfg[h], line[h][1], line[h][2]))
    BY <1>1, <2>1 DEF Decide, Inv, TypeOK
  <2> QED BY <2>2, <2>7, <2>8
<1> DEFINE Step ==
      \A h \in HelperId :
        pc[h] = "decide" /\ pc'[h] = "ready" /\ line[h][2] \notin Malformed =>
          \E v \in window[h][1] .. window[h][2], w \in window[h][1] .. window[h][2] :
            /\ v <= w
            /\ \E act \in Meaning(Join(past[v]), past[w].rules, line[h][1], line[h][2]) :
                 answer'[h] = Reply(act)
<1>2. Inv /\ [Next]_vars => [Step]_vars
  BY <1>1
<1>3. Explained <=> [][Step]_vars
  BY DEF Explained
<1> HIDE DEF Step
<1> QED
  BY <1>2, <1>3, InvHolds, PTL DEF Spec

\* PanicsOnlyIfTorn: a helper that a line ends listed a rule of one version that was
\* deleted by a later version its load read the rules of.
THEOREM PanicsAreTorn == Spec => PanicsOnlyIfTorn
<1>1. ASSUME Inv, [Next]_vars, NEW h \in HelperId, pc[h] = "decide", pc'[h] = "down"
      PROVE  \E v, w \in window[h][1] .. window[h][2] :
               v < w /\ ~(RuleIds(past[v]) \subseteq RuleIds(past[w]))
  <2>1. Panic(h)
    <3>1. Next
      BY <1>1 DEF vars, local
    <3>2. Decide(h) => pc'[h] = "ready"
      BY <1>1 DEF Decide, Goto, Inv, TypeOK
    <3> QED BY <1>1, <3>1, <3>2, LeavesDecide DEF Inv
  <2>2. PICK v \in window[h][1] .. window[h][2], w \in window[h][1] .. window[h][2] :
          /\ v <= w
          /\ cfg[h].sources \in Sources(Join(past[v]))
          /\ cfg[h].rules = past[w].rules
    BY <1>1 DEF Inv, HelperInv, InUse, FromWindow
  <2>3. PICK i \in DOMAIN cfg[h].sources : ~Known(cfg[h], cfg[h].sources[i][2])
    BY <2>1 DEF Panic, NilRule, FirstStops
  <2>4. cfg[h].sources[i] \in Join(past[v])
    <3>1. Join(past[v]) \in SUBSET (Address \X RuleId)
      BY DEF Join
    <3> QED BY <2>2, <2>3, <3>1, SourcesEnumerate
  <2>5. cfg[h].sources[i][2] \in RuleIds(past[v])
    BY <2>4 DEF Join
  <2>6. cfg[h].sources[i][2] \notin RuleIds(past[w])
    BY <2>2, <2>3 DEF Known, RuleIds
  <2>7. v < w
    <3>1. v # w
      BY <2>5, <2>6
    <3> QED BY <2>2, <3>1
  <2> QED BY <2>5, <2>6, <2>7
<1> DEFINE Step ==
      \A h \in HelperId : pc[h] = "decide" /\ pc'[h] = "down" =>
        \E v, w \in window[h][1] .. window[h][2] :
          v < w /\ ~(RuleIds(past[v]) \subseteq RuleIds(past[w]))
<1>2. Inv /\ [Next]_vars => [Step]_vars
  BY <1>1
<1>3. PanicsOnlyIfTorn <=> [][Step]_vars
  BY DEF PanicsOnlyIfTorn
<1> HIDE DEF Step
<1> QED
  BY <1>2, <1>3, InvHolds, PTL DEF Spec
=============================================================================
