------------------------------ MODULE MCPages ------------------------------
EXTENDS Pages, TLC

CONSTANTS new, office, g1, r1, r2, news, allow, ignore, i1, i2

MCAclId == {new, office}
MCGroupId == {g1}
MCRuleId == {r1, r2}
MCMatch == {news}
MCAction == {allow, ignore}
\* What a transaction does with foreign keys enforced it also does on a bare connection.
Bare == {FALSE}
MCSlot == {i1, i2}

\* No page here shows a source.
NoSourceId == {}
NoAddress == {}

\* On a database that is new, as the schema file leaves it, nothing tells rules or
\* actions apart.
Symmetry == Permutations(RuleId) \cup Permutations(Action) \cup Permutations(Slot)

\* The bound: there are rules only while an ACL's page is open and groups only while it
\* is not, since the page of a group's access shows no rule and that of an ACL no group.
Apart == IF page.kind = "acl" THEN db.groups \cup db.groupaccess = {} ELSE db.rules = {}
=============================================================================
