----------------------------- MODULE MCAdminUI -----------------------------
EXTENDS AdminUI

CONSTANTS new, office, g1, g2, s1, s2, r1, r2, lan, host, news, w1, w2

\* A site with one granted ACL, holding one rule, and one member.
MCSeed ==
  [acls |-> {new, office}, groups |-> {g1}, sources |-> {<<s1, lan>>},
   members |-> {<<s1, g1>>}, aclrules |-> {<<office, r1>>},
   rules |-> {<<r1, [match |-> news, action |-> "allow"]>>},
   groupaccess |-> {<<g1, office>>}]

\* The same with the rule in the ACL "new" and no other ACL.
OneAclSeed ==
  [MCSeed EXCEPT !.acls = {new}, !.aclrules = {<<new, r1>>}, !.groupaccess = {<<g1, new>>}]

\* The same with no rule in it.
NoRuleSeed == [OneAclSeed EXCEPT !.aclrules = {}, !.rules = {}]

OneAcl == {new}
TwoAcls == {new, office}
OneGroup == {g1}
TwoGroups == {g1, g2}
OneSource == {s1}
TwoSources == {s1, s2}
OneRule == {r1}
TwoRules == {r1, r2}
MCAddress == {lan, host}
MCMatch == {news}
MCAction == {"allow", "block"}

OneWorker == {w1}
TwoWorkers == {w1, w2}

RuleHandlers == {"ruleNew", "ruleEdit", "ruleDelete", "aclNew", "aclMove", "aclDelete"}
GroupHandlers ==
  {"groupDelete", "accessUpdate", "aclUpdate", "aclDelete", "members", "membersNew",
   "sourceDelete"}
LiveHandlers == {"groupNew", "members", "page"}
AllHandlers == RuleHandlers \cup GroupHandlers \cup LiveHandlers

WorkerSymmetry == Permutations(Worker)
=============================================================================
