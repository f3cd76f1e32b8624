----------------------------- MODULE PagesProofs -----------------------------
(***************************************************************************)
(* What a tab of the admin UI may do to the database, for every number of  *)
(* rows and of requests under way, with or without foreign keys, however   *)
(* the tab and the others interleave: proofs that TLAPS checks.            *)
(*                                                                         *)
(* The invariant says how far the page, and what was sent from it, may be  *)
(* from the database: only by what was toggled on the page and by what     *)
(* changed without the tab having been told (unseen, or stale of a         *)
(* request).                                                               *)
(***************************************************************************)
EXTENDS Pages, AdminStoreProofs

Item == AclId \cup RuleId

Kinds == {"none", "access", "acl"}

ItemsOf(kind) == CASE kind = "access" -> AclId [] kind = "acl" -> RuleId [] OTHER -> {}

\* The queries left are the last ones of a load.
Remaining(kind) ==
  CASE kind = "access" -> {<<>>, <<"getACLs">>, <<"getGroupACLs", "getACLs">>, Queries("access")}
    [] kind = "acl" -> {<<>>, <<"rules">>, <<"aclExists", "rules">>, Queries("acl")}
    [] OTHER -> {<<>>}

Todos == Remaining("access") \cup Remaining("acl")

Page == [kind : Kinds, of : GroupId \cup AclId, todo : Todos, found : BOOLEAN,
         active : SUBSET Item, rows : SUBSET Item, checked : SUBSET Item, toggled : SUBSET Item]

Ops(kind) ==
  CASE kind = "access" -> {"access"}
    [] kind = "acl" -> {"move", "delete", "edit", "rename", "deleteAcl"}
    [] OTHER -> {}

AllOps == {"none", "access", "move", "delete", "edit", "rename", "deleteAcl"}

Sent == [op : AllOps, items : SUBSET Item, to : AclId,
         state : {"none", "sent", "done"}, stale : SUBSET Item]

\* The page's own parts belong together.
PageInv ==
  /\ page \in Page
  /\ page.of \in (IF page.kind = "access" THEN GroupId ELSE AclId)
  /\ page.todo \in Remaining(page.kind)
  /\ page.rows \subseteq ItemsOf(page.kind)
  /\ page.checked \subseteq page.rows

\* The requests under way are those of the page that is shown.
SentInv ==
  /\ sent \in [Slot -> Sent]
  /\ \A i \in Slot : sent[i].state # "none" =>
       /\ page.todo = <<>> /\ sent[i].op \in Ops(page.kind)
       /\ sent[i].items \subseteq ItemsOf(page.kind)

\* The rules on the page of an ACL are in it, but for what the tab does not know of.
RowsInv == page.kind = "acl" => page.rows \subseteq Related(page, db) \cup unseen

\* So are those of a request.
ItemsInv ==
  \A i \in Slot : sent[i].state = "sent" /\ sent[i].op \in {"move", "delete"} =>
    sent[i].items \subseteq Related(page, db) \cup sent[i].stale

\* What is in one of two sets only.
Differs(a, b) == (a \ b) \cup (b \ a)

\* The grants that were read and what they are now.
ActiveInv == page.todo = <<"getACLs">> => Differs(page.active, Related(page, db)) \subseteq unseen

\* What the admin toggled explains the rest.  A grant of an ACL that is gone is on no page.
ToggledInv ==
  page.kind = "access" /\ page.todo = <<>> =>
    /\ page.checked \ Related(page, db) \subseteq page.toggled \cup unseen
    /\ (Related(page, db) \ page.checked) \cap db.acls \subseteq page.toggled \cup unseen
    /\ \A i \in Slot : sent[i].state = "sent" =>
         Differs(sent[i].items, page.checked) \subseteq page.toggled

PagesInv == PageInv /\ SentInv /\ RowsInv /\ ItemsInv /\ ActiveInv /\ ToggledInv

-----------------------------------------------------------------------------
(* The database.                                                             *)

\* A tab's request does to the database what the store promises of its handler.
LEMMA EffectIsStep ==
  ASSUME PageInv, SentInv, NEW i \in Slot, sent[i].state = "sent", Effect(sent[i])
  PROVE  [Next]_db
<1> DEFINE q == sent[i]
<1>1. /\ q.op \in Ops(page.kind) /\ q.items \subseteq ItemsOf(page.kind) /\ q.to \in AclId
      /\ page.kind \in Kinds
      /\ page.of \in (IF page.kind = "access" THEN GroupId ELSE AclId)
  BY DEF SentInv, PageInv, Sent, Page
<1>2. Effect(q)
  OBVIOUS
<1> HIDE DEF q
<1>3. PICK fk \in FkModes :
        \/ q.op = "access" /\ AccessUpdate(page.of, q.items, fk)
        \/ q.op = "move" /\ AclMove(q.items, q.to, fk)
        \/ q.op = "delete" /\ RuleDelete(q.items, fk)
        \/ q.op = "edit" /\ \E r \in q.items, c \in Rule : RuleEdit(r, c)
        \/ q.op = "rename" /\ UNCHANGED db
        \/ q.op = "deleteAcl" /\ AclDelete(page.of, fk)
  BY <1>2, Zenon DEF Effect
<1> USE DEF Ops, ItemsOf, Kinds
<1>4. CASE q.op = "access" /\ AccessUpdate(page.of, q.items, fk)
  <2>1. page.of \in GroupId /\ q.items \in SUBSET AclId
    BY <1>1, <1>4
  <2> QED BY <1>4, <2>1 DEF Next, GroupStep
<1>5. CASE q.op = "move" /\ AclMove(q.items, q.to, fk)
  <2>1. q.items \in SUBSET RuleId
    BY <1>1, <1>5
  <2> QED BY <1>1, <1>5, <2>1 DEF Next, AclStep
<1>6. CASE q.op = "delete" /\ RuleDelete(q.items, fk)
  <2>1. q.items \in SUBSET RuleId
    BY <1>1, <1>6
  <2> QED BY <1>6, <2>1 DEF Next, RuleStep
<1>7. CASE q.op = "edit" /\ \E r \in q.items, c \in Rule : RuleEdit(r, c)
  <2>1. q.items \subseteq RuleId
    BY <1>1, <1>7
  <2> QED BY <1>7, <2>1 DEF Next, RuleStep
<1>8. CASE q.op = "rename" /\ UNCHANGED db
  BY <1>8
<1>9. CASE q.op = "deleteAcl" /\ AclDelete(page.of, fk)
  <2>1. page.of \in AclId
    BY <1>1, <1>9
  <2> QED BY <1>9, <2>1 DEF Next, AclStep
<1> QED BY <1>3, <1>4, <1>5, <1>6, <1>7, <1>8, <1>9

\* An Update leaves the group with what it lists.
LEMMA UpdateOnPage ==
  ASSUME TypeOK, page.kind = "access", NEW as, NEW fk, AccessUpdate(page.of, as, fk)
  PROVE  Related(page, db') = as
<1>1. /\ db'.groupaccess = {ga \in db.groupaccess : ga[1] # page.of} \cup ({page.of} \X as)
      /\ db.groupaccess \subseteq GroupId \X AclId
  BY DEF AccessUpdate, TypeOK, DB
<1>2. ASSUME NEW x \in db'.groupaccess, x[1] = page.of PROVE x[2] \in as
  BY <1>1, <1>2
<1>3. ASSUME NEW a \in as PROVE \E ga \in db'.groupaccess : ga[1] = page.of /\ ga[2] = a
  <2>1. <<page.of, a>> \in db'.groupaccess /\ <<page.of, a>>[1] = page.of /\ <<page.of, a>>[2] = a
    BY <1>1
  <2> QED BY <2>1, Zenon
<1>4. {ga[2] : ga \in {x \in db'.groupaccess : x[1] = page.of}} = as
  BY <1>2, <1>3
<1> QED BY <1>4 DEF Related

\* An ACL that appears is one no group is granted.
LEMMA NewAclUngranted ==
  ASSUME TypeOK, [Next]_db, page.kind = "access", NEW a \in db'.acls, a \notin db.acls
  PROVE  a \notin Related(page, db)
<1>1. AclNew(a)
  <2>1. ASSUME NEW fk \in FkModes, RuleStep(fk) \/ GroupStep(fk) PROVE FALSE
    <3>1. CASE \E r \in RuleId, c \in Rule : RuleNew(r, c, fk) \/ RuleEdit(r, c)
      BY <3>1 DEF RuleNew, RuleEdit, TypeOK, DB
    <3>2. CASE \E rs \in SUBSET RuleId : RuleDelete(rs, fk)
      BY <3>2 DEF RuleDelete, TypeOK, DB
    <3>3. CASE \/ \E g \in GroupId : GroupNew(g) \/ GroupDelete(g, fk) \/ MembersMembers(g)
               \/ \E g \in GroupId, as \in SUBSET AclId : AccessUpdate(g, as, fk)
               \/ \E s \in SourceId : SourceDelete(s, fk)
      <4>1. db'.acls = db.acls
        BY <3>3 DEF GroupNew, GroupDelete, MembersMembers, AccessUpdate, SourceDelete, TypeOK, DB
      <4> QED BY <4>1
    <3> QED BY <2>1, <3>1, <3>2, <3>3 DEF RuleStep, GroupStep
  <2>2. ASSUME NEW fk \in FkModes, AclStep(fk) PROVE AclNew(a)
    <3>1. ASSUME NEW b \in AclId, AclNew(b) PROVE AclNew(a)
      BY <3>1 DEF AclNew, TypeOK, DB
    <3>2. ASSUME NEW b \in AclId, AclDelete(b, fk) PROVE AclNew(a)
      BY <3>2 DEF AclDelete, TypeOK, DB
    <3>3. ASSUME NEW rs \in SUBSET RuleId, NEW dst \in AclId, AclMove(rs, dst, fk) PROVE AclNew(a)
      <4>1. db'.acls = db.acls
        BY <3>3 DEF AclMove, TypeOK, DB
      <4> QED BY <4>1
    <3> QED BY <2>2, <3>1, <3>2, <3>3 DEF AclStep
  <2> QED BY <2>1, <2>2 DEF Next
<1>2. \A ga \in db.groupaccess : ga[2] # a
  BY <1>1 DEF AclNew, NewAclId
<1> QED BY <1>2 DEF Related

-----------------------------------------------------------------------------
(* Changes of the database.                                                  *)

\* A change the tab is not told of is unseen, and stale for the requests under way.
LEMMA ChangeKeeps ==
  ASSUME TypeOK, PagesInv, [Next]_db, page' = page, unseen' = unseen \cup Changed(page),
         sent' \in [Slot -> Sent],
         \A i \in Slot :
           /\ sent'[i].op = sent[i].op /\ sent'[i].items = sent[i].items
           /\ sent'[i].stale = sent[i].stale \cup (Changed(page) \cap sent[i].items)
           /\ sent'[i].state = "none" <=> sent[i].state = "none"
           /\ sent'[i].state = "sent" => sent[i].state = "sent"
  PROVE  PagesInv'
<1> DEFINE was == Related(page, db)
           is == Related(page, db')
<1>1. Changed(page) = Differs(was, is)
  BY DEF Changed, Differs
<1>2. Related(page, db)' = is
  BY DEF Related
<1>3. page.kind = "access" => \A a \in db'.acls : a \in was => a \in db.acls
  BY NewAclUngranted
<1>4. PageInv'
  BY DEF PagesInv, PageInv
<1>5. SentInv'
  BY DEF PagesInv, SentInv
<1> HIDE DEF was, is
<1>6. RowsInv'
  BY <1>1, <1>2 DEF PagesInv, RowsInv, Differs, was
<1>7. ItemsInv'
  <2> SUFFICES ASSUME NEW i \in Slot, sent'[i].state = "sent",
                      sent'[i].op \in {"move", "delete"}, NEW x \in sent'[i].items
               PROVE  x \in is \cup sent'[i].stale
    BY <1>2 DEF ItemsInv
  <2>1. sent[i].items \subseteq was \cup sent[i].stale /\ x \in sent[i].items
    BY DEF PagesInv, ItemsInv, was
  <2> QED BY <1>1, <2>1 DEF Differs
<1>8. ActiveInv'
  BY <1>1, <1>2 DEF PagesInv, ActiveInv, Differs, was
<1>9. ToggledInv'
  <2> SUFFICES ASSUME page.kind = "access", page.todo = <<>>
               PROVE  /\ page.checked \ is \subseteq page.toggled \cup unseen'
                      /\ (is \ page.checked) \cap db'.acls \subseteq page.toggled \cup unseen'
                      /\ \A i \in Slot : sent'[i].state = "sent" =>
                           Differs(sent'[i].items, page.checked) \subseteq page.toggled
    BY <1>2 DEF ToggledInv
  <2>1. /\ page.checked \ was \subseteq page.toggled \cup unseen
        /\ (was \ page.checked) \cap db.acls \subseteq page.toggled \cup unseen
        /\ \A i \in Slot : sent[i].state = "sent" =>
             Differs(sent[i].items, page.checked) \subseteq page.toggled
    BY DEF PagesInv, ToggledInv, was
  <2>2. page.checked \ is \subseteq page.toggled \cup unseen'
    BY <1>1, <2>1 DEF Differs
  <2>3. (is \ page.checked) \cap db'.acls \subseteq page.toggled \cup unseen'
    BY <1>1, <1>3, <2>1 DEF Differs
  <2> QED BY <2>1, <2>2, <2>3
<1> QED BY <1>4, <1>5, <1>6, <1>7, <1>8, <1>9 DEF PagesInv

\* What a page is about has the type of the rows it shows.
LEMMA RelatedTyped ==
  ASSUME TypeOK, page.kind \in Kinds
  PROVE  Related(page, db) \subseteq ItemsOf(page.kind) /\ Related(page, db) \subseteq Item
BY DEF TypeOK, DB, Related, ItemsOf, Kinds, Item

\* A change of the database leaves the requests what they are, but for what is stale.
LEMMA AgedTyped ==
  ASSUME SentInv
  PROVE  /\ Aged \in [Slot -> Sent]
         /\ \A i \in Slot :
              /\ Aged[i].op = sent[i].op /\ Aged[i].items = sent[i].items
              /\ Aged[i].state = sent[i].state
              /\ Aged[i].stale = sent[i].stale \cup (Changed(page) \cap sent[i].items)
<1> DEFINE told == Changed(page)
<1>1. Aged = [i \in Slot |-> [sent[i] EXCEPT !.stale = sent[i].stale \cup (told \cap sent[i].items)]]
  BY DEF Aged
<1> HIDE DEF told
<1>2. ASSUME NEW i \in Slot
      PROVE  /\ Aged[i] \in Sent
             /\ Aged[i].op = sent[i].op /\ Aged[i].items = sent[i].items
             /\ Aged[i].state = sent[i].state
             /\ Aged[i].stale = sent[i].stale \cup (told \cap sent[i].items)
  <2>1. sent[i] \in Sent
    BY DEF SentInv
  <2>2. Aged[i] = [sent[i] EXCEPT !.stale = sent[i].stale \cup (told \cap sent[i].items)]
    BY <1>1
  <2> QED BY <2>1, <2>2 DEF Sent
<1>3. Aged \in [Slot -> Sent]
  BY <1>1, <1>2
<1> QED BY <1>2, <1>3 DEF told

\* Others' changes.
LEMMA OtherKeeps == ASSUME TypeOK, PagesInv, Other PROVE PagesInv'
<1>1. Next /\ page' = page /\ sent' = Aged /\ unseen' = unseen \cup Changed(page)
  BY DEF Other
<1>2. SentInv
  BY DEF PagesInv
<1> QED BY <1>1, <1>2, AgedTyped, ChangeKeeps

\* And the tab's own, until it is answered.
LEMMA CommitKeeps ==
  ASSUME TypeOK, PagesInv, NEW i \in Slot, Commit(i) PROVE PagesInv'
<1>1. /\ sent[i].state = "sent" /\ Effect(sent[i]) /\ sent' = [Aged EXCEPT ![i].state = "done"]
      /\ page' = page /\ unseen' = unseen \cup Changed(page)
  BY DEF Commit
<1>2. PageInv /\ SentInv
  BY DEF PagesInv
<1>3. [Next]_db
  BY <1>1, <1>2, EffectIsStep
<1>4. /\ Aged \in [Slot -> Sent]
      /\ \A j \in Slot :
           /\ Aged[j].op = sent[j].op /\ Aged[j].items = sent[j].items
           /\ Aged[j].state = sent[j].state
           /\ Aged[j].stale = sent[j].stale \cup (Changed(page) \cap sent[j].items)
  BY <1>2, AgedTyped
<1>5. sent' \in [Slot -> Sent]
  BY <1>1, <1>4 DEF Sent
<1>6. ASSUME NEW j \in Slot
      PROVE  /\ sent'[j].op = sent[j].op /\ sent'[j].items = sent[j].items
             /\ sent'[j].stale = sent[j].stale \cup (Changed(page) \cap sent[j].items)
             /\ sent'[j].state = "none" <=> sent[j].state = "none"
             /\ sent'[j].state = "sent" => sent[j].state = "sent"
  <2>1. Aged[j] \in Sent
    BY <1>4
  <2>2. CASE j = i
    <3>1. sent'[j] = [Aged[j] EXCEPT !.state = "done"]
      BY <1>1, <1>4, <2>2
    <3> QED BY <1>1, <1>4, <2>1, <2>2, <3>1 DEF Sent
  <2>3. CASE j # i
    <3>1. sent'[j] = Aged[j]
      BY <1>1, <1>4, <2>3
    <3> QED BY <1>4, <3>1
  <2> QED BY <2>2, <2>3
<1> QED BY <1>1, <1>3, <1>5, <1>6, ChangeKeeps

-----------------------------------------------------------------------------
(* Loading.                                                                  *)

\* The queries of a page are those of its kind, and there are some.
LEMMA FirstQuery ==
  ASSUME NEW kind \in {"access", "acl"}
  PROVE  /\ Queries(kind) \in Remaining(kind) /\ Queries(kind) \in Todos
         /\ Queries(kind) # <<>> /\ Queries(kind) # <<"getACLs">>
BY DEF Queries, Remaining, Todos

\* No request is under way.
Quiet == sent \in [Slot -> Sent] /\ \A i \in Slot : sent[i].state = "none"

\* A tab that has sent nothing is quiet.
LEMMA NothingQuiet ==
  /\ NothingSent \in [Slot -> Sent]
  /\ \A i \in Slot : NothingSent[i].state = "none"
BY NewAclAssumption DEF NothingSent, NoneSent, Sent, AllOps

\* A page that begins to load, or is left, claims nothing.
LEMMA FreshKeeps ==
  ASSUME Quiet',
         \/ page' = NoPage
         \/ \E g \in GroupId : page' = Opened("access", g)
         \/ \E a \in AclId : page' = Opened("acl", a)
  PROVE  PagesInv'
<1>1. SentInv' /\ ItemsInv'
  BY DEF SentInv, ItemsInv, Quiet
<1>2. CASE page' = NoPage
  <2>1. page' \in Page /\ page'.kind = "none" /\ page'.of = NewAcl /\ page'.todo = <<>>
        /\ page'.rows = {} /\ page'.checked = {}
    BY <1>2, NewAclAssumption DEF NoPage, Page, Kinds, Todos, Remaining
  <2>2. PageInv'
    BY <2>1, NewAclAssumption DEF PageInv, Remaining, ItemsOf
  <2> QED BY <1>1, <2>1, <2>2 DEF PagesInv, ActiveInv, RowsInv, ToggledInv
<1>3. ASSUME NEW kind \in {"access", "acl"},
             NEW of \in (IF kind = "access" THEN GroupId ELSE AclId), page' = Opened(kind, of)
      PROVE  PagesInv'
  <2> DEFINE q == Queries(kind)
  <2>0. q \in Remaining(kind) /\ q \in Todos /\ q # <<>> /\ q # <<"getACLs">>
    BY FirstQuery
  <2> HIDE DEF q
  <2>1. page' = [NoPage EXCEPT !.kind = kind, !.of = of, !.todo = q]
    BY <1>3 DEF Opened, q
  <2>2. page' \in Page /\ page'.kind = kind /\ page'.of = of /\ page'.todo = q
        /\ page'.rows = {} /\ page'.checked = {}
    BY <2>0, <2>1, NewAclAssumption DEF NoPage, Page, Kinds
  <2>3. PageInv'
    BY <2>0, <2>2 DEF PageInv
  <2> QED BY <1>1, <2>0, <2>2, <2>3 DEF PagesInv, ActiveInv, RowsInv, ToggledInv
<1> QED BY <1>2, <1>3

\* So does one that is gone to.
LEMMA GotoKeeps ==
  ASSUME NEW p, Goto(p),
         \/ p = NoPage
         \/ \E g \in GroupId : p = Opened("access", g)
         \/ \E a \in AclId : p = Opened("acl", a)
  PROVE  PagesInv'
<1>1. page' = p /\ sent' = NothingSent
  BY DEF Goto
<1>2. Quiet'
  BY <1>1, NothingQuiet DEF Quiet
<1> QED BY <1>1, <1>2, FreshKeeps

\* Opening a page begins to load it.
LEMMA OpenKeeps == ASSUME Open PROVE PagesInv'
BY GotoKeeps DEF Open

\* The queries before the last.
Reads == getGroups \/ getGroupACLs \/ aclHandler \/ aclExists

\* Which queries are left after one.
LEMMA NextQuery ==
  ASSUME PageInv, page.todo # <<>>
  PROVE  /\ page.kind \in {"access", "acl"}
         /\ Tail(page.todo) \in Remaining(page.kind) /\ Tail(page.todo) \in Todos
         /\ Head(page.todo) \in {"getACLs", "rules"} <=> Tail(page.todo) = <<>>
         /\ Head(page.todo) = "getGroupACLs" <=> Tail(page.todo) = <<"getACLs">>
         /\ Head(page.todo) = "getACLs" => page.kind = "access" /\ page.todo = <<"getACLs">>
         /\ Head(page.todo) = "rules" => page.kind = "acl"
<1>1. page.kind \in Kinds /\ page.todo \in Remaining(page.kind)
  BY DEF PageInv, Page
<1> USE DEF Kinds, Remaining, Queries, Todos
<1>2. CASE page.kind = "access"
  <2>1. \/ page.todo = <<"getACLs">>
        \/ page.todo = <<"getGroupACLs", "getACLs">>
        \/ page.todo = <<"getGroups", "getGroupACLs", "getACLs">>
    BY <1>1, <1>2
  <2>2. CASE page.todo = <<"getACLs">>
    BY <1>2, <2>2
  <2>3. CASE page.todo = <<"getGroupACLs", "getACLs">>
    BY <1>2, <2>3
  <2>4. CASE page.todo = <<"getGroups", "getGroupACLs", "getACLs">>
    BY <1>2, <2>4
  <2> QED BY <2>1, <2>2, <2>3, <2>4
<1>3. CASE page.kind = "acl"
  <2>1. \/ page.todo = <<"rules">>
        \/ page.todo = <<"aclExists", "rules">>
        \/ page.todo = <<"acls", "aclExists", "rules">>
    BY <1>1, <1>3
  <2>2. CASE page.todo = <<"rules">>
    BY <1>3, <2>2
  <2>3. CASE page.todo = <<"aclExists", "rules">>
    BY <1>3, <2>3
  <2>4. CASE page.todo = <<"acls", "aclExists", "rules">>
    BY <1>3, <2>4
  <2> QED BY <2>1, <2>2, <2>3, <2>4
<1>4. page.kind # "none"
  BY <1>1
<1> QED BY <1>1, <1>2, <1>3, <1>4

\* While a page loads no request is under way.
LEMMA LoadingQuiet == ASSUME SentInv, page.todo # <<>> PROVE Quiet
BY DEF SentInv, Quiet

\* A page that is loading claims nothing but what it read of the group.
LEMMA ReadKeeps == ASSUME TypeOK, PagesInv, Reads PROVE PagesInv'
<1> DEFINE q == Head(page.todo)
           left == Tail(page.todo)
<1>1. page.todo # <<>> /\ UNCHANGED <<db, sent, unseen>>
  BY DEF Reads, getGroups, getGroupACLs, aclHandler, aclExists, Runs
<1>2. Quiet /\ Quiet'
  BY <1>1, LoadingQuiet DEF PagesInv, Quiet
<1>3. CASE page' = NoPage
  BY <1>2, <1>3, FreshKeeps
<1>4. CASE page' # NoPage
  <2>1. page \in Page /\ page.kind \in Kinds
    BY DEF PagesInv, PageInv, Page
  <2>2. Related(page, db) \subseteq Item
    BY <2>1, RelatedTyped
  <2>3. /\ left \in Remaining(page.kind) /\ left \in Todos
        /\ q \in {"getACLs", "rules"} <=> left = <<>>
        /\ q = "getGroupACLs" <=> left = <<"getACLs">>
    BY <1>1, NextQuery DEF PagesInv
  <2> HIDE DEF q, left
  <2>4. CASE q # "getGroupACLs"
    <3> DEFINE f1 == page.of \in db.groups
               f2 == page.of \in db.acls
    <3>0. f1 \in BOOLEAN /\ f2 \in BOOLEAN
      OBVIOUS
    <3>1. q \in {"getGroups", "acls", "aclExists"}
      BY <2>4 DEF Reads, getGroups, aclHandler, aclExists, getGroupACLs, Runs, q
    <3>1a. \/ page' = [page EXCEPT !.todo = left]
           \/ page' = [page EXCEPT !.found = f1, !.todo = left]
           \/ page' = [page EXCEPT !.found = f2, !.todo = left]
      <4>1. CASE getGroups
        BY <2>1, <4>1 DEF getGroups, Read, left, Page
      <4>2. CASE aclExists
        BY <1>4, <4>2 DEF aclExists, Read, left
      <4>3. CASE aclHandler
        BY <2>1, <4>3 DEF aclHandler, Read, left, Page
      <4>4. getGroups \/ aclHandler \/ aclExists
        BY <2>4 DEF Reads, getGroupACLs, Runs, q
      <4> QED BY <4>1, <4>2, <4>3, <4>4
    <3> HIDE DEF f1, f2
    <3>2. /\ page' \in Page /\ page'.kind = page.kind /\ page'.of = page.of /\ page'.rows = page.rows
          /\ page'.checked = page.checked /\ page'.todo = left
      BY <2>1, <2>3, <3>0, <3>1a DEF Page
    <3>3. left # <<>> /\ left # <<"getACLs">>
      BY <2>3, <2>4, <3>1
    <3>4. Related(page', db') = Related(page, db)
      BY <1>1, <3>2 DEF Related
    <3>5. PageInv'
      BY <2>3, <3>2 DEF PagesInv, PageInv
    <3> QED
      BY <1>1, <1>2, <3>2, <3>3, <3>4, <3>5
         DEF PagesInv, SentInv, Quiet, ActiveInv, ItemsInv, RowsInv, ToggledInv
  <2>5. CASE q = "getGroupACLs"
    <3>1. page' = [page EXCEPT !.active = Related(page, db), !.todo = left]
      <4>1. getGroupACLs
        BY <2>5 DEF Reads, getGroups, aclHandler, aclExists, Runs, q
      <4> QED BY <4>1 DEF getGroupACLs, Read, left
    <3>2. /\ page' \in Page /\ page'.kind = page.kind /\ page'.of = page.of /\ page'.rows = page.rows
          /\ page'.checked = page.checked /\ page'.todo = left /\ page'.active = Related(page, db)
      BY <2>1, <2>2, <2>3, <3>1 DEF Page
    <3>3. left # <<>>
      BY <2>3, <2>5
    <3>4. Related(page', db') = Related(page, db)
      BY <1>1, <3>2 DEF Related
    <3>5. PageInv'
      BY <2>3, <3>2 DEF PagesInv, PageInv
    <3>6. ActiveInv'
      BY <3>2, <3>4 DEF ActiveInv, Differs
    <3> QED
      BY <1>1, <1>2, <3>2, <3>3, <3>4, <3>5, <3>6
         DEF PagesInv, SentInv, Quiet, ItemsInv, RowsInv, ToggledInv
  <2> QED BY <2>4, <2>5
<1> QED BY <1>3, <1>4

\* The page is shown as the last query finds it: the checks are the grants that were
\* read before, of the ACLs there are now.
LEMMA ShowKeeps == ASSUME TypeOK, PagesInv, getACLs \/ loadACL PROVE PagesInv'
<1>1. page.todo # <<>> /\ UNCHANGED <<db, sent, unseen>>
  BY DEF getACLs, loadACL, Runs
<1>2. Quiet /\ Quiet'
  BY <1>1, LoadingQuiet DEF PagesInv, Quiet
<1>3. page \in Page /\ page.kind \in Kinds
  BY DEF PagesInv, PageInv, Page
<1>4. PICK rows, checked :
        /\ Show(rows, checked)
        /\ \/ /\ page.todo = <<"getACLs">> /\ page.kind = "access"
              /\ rows = db.acls /\ checked = db.acls \cap page.active
           \/ /\ page.kind = "acl" /\ rows = Related(page, db) \cap RuleIds(db) /\ checked = {}
  <2>1. CASE getACLs
    <3>1. /\ page.kind = "access" /\ page.todo = <<"getACLs">>
          /\ Show(db.acls, db.acls \cap page.active)
      BY <1>1, <2>1, NextQuery DEF PagesInv, getACLs, Runs
    <3> QED BY <3>1
  <2>2. CASE loadACL
    <3>1. page.kind = "acl" /\ Show(Related(page, db) \cap RuleIds(db), {})
      BY <1>1, <2>2, NextQuery DEF PagesInv, loadACL, Runs
    <3> QED BY <3>1
  <2> QED BY <2>1, <2>2
<1>5. rows \subseteq ItemsOf(page.kind) /\ rows \subseteq Item /\ checked \subseteq rows
  <2>1. db.acls \subseteq AclId /\ RuleIds(db) \subseteq RuleId
    BY DEF TypeOK, DB, RuleIds
  <2> QED BY <1>4, <2>1 DEF ItemsOf, Item
<1>6. CASE page' = NoPage
  BY <1>2, <1>6, FreshKeeps
<1>7. CASE page' # NoPage
  <2>1. /\ page' \in Page /\ page'.kind = page.kind /\ page'.of = page.of /\ page'.rows = rows
        /\ page'.checked = checked /\ page'.todo = <<>> /\ page'.toggled = {}
    BY <1>3, <1>4, <1>5, <1>7 DEF Show, NoPage, Page, Todos, Remaining
  <2>2. Related(page', db') = Related(page, db)
    BY <1>1, <2>1 DEF Related
  <2>3. PageInv'
    BY <1>3, <1>5, <2>1 DEF PagesInv, PageInv, Remaining, Kinds
  <2>4. SentInv' /\ ItemsInv' /\ ActiveInv'
    BY <1>2, <2>1 DEF SentInv, Quiet, ItemsInv, ActiveInv
  <2>5. RowsInv'
    BY <1>4, <2>1, <2>2 DEF RowsInv
  <2>6. ToggledInv'
    <3>1. page.kind = "access" => Differs(page.active, Related(page, db)) \subseteq unseen
      BY <1>4 DEF PagesInv, ActiveInv
    <3>2. \A i \in Slot : sent'[i].state # "sent"
      BY <1>2 DEF Quiet
    <3> QED BY <1>1, <1>4, <2>1, <2>2, <3>1, <3>2 DEF ToggledInv, Differs
  <2> QED BY <2>3, <2>4, <2>5, <2>6 DEF PagesInv
<1> QED BY <1>6, <1>7

-----------------------------------------------------------------------------
(* Boxes and buttons.                                                        *)

\* A box that is toggled is toggled.
LEMMA ToggleKeeps == ASSUME PagesInv, NEW x, Toggle(x) PROVE PagesInv'
<1>1. /\ page \in Page /\ page.kind \in {"access", "acl"} /\ page.todo = <<>>
      /\ sent' = sent /\ db' = db /\ unseen' = unseen /\ x \in page.rows
      /\ page.checked \subseteq page.rows
  BY DEF PagesInv, PageInv, Page, Toggle, Shows
<1> DEFINE boxes == IF x \in page.checked THEN page.checked \ {x} ELSE page.checked \cup {x}
           toggled == IF page.kind = "access" THEN page.toggled \cup {x} ELSE page.toggled
<1>2. page' = [page EXCEPT !.checked = boxes, !.toggled = toggled]
  BY DEF Toggle
<1>3. boxes \subseteq page.rows /\ boxes \in SUBSET Item /\ toggled \in SUBSET Item
  BY <1>1 DEF Page
<1>4. \A y : y # x => (y \in boxes <=> y \in page.checked)
  BY <1>1
<1>5. page.kind = "access" => toggled = page.toggled \cup {x}
  OBVIOUS
<1> HIDE DEF boxes, toggled
<1>6. /\ page' \in Page /\ page'.kind = page.kind /\ page'.of = page.of /\ page'.rows = page.rows
      /\ page'.todo = page.todo /\ page'.checked = boxes /\ page'.toggled = toggled
      /\ page'.active = page.active
  BY <1>1, <1>2, <1>3 DEF Page
<1>7. Related(page', db') = Related(page, db)
  BY <1>1, <1>6 DEF Related
<1>8. PageInv' /\ SentInv'
  BY <1>1, <1>3, <1>6 DEF PagesInv, PageInv, SentInv
<1>9. ActiveInv' /\ RowsInv' /\ ItemsInv'
  BY <1>1, <1>6, <1>7 DEF PagesInv, RowsInv, ItemsInv, ActiveInv
<1>10. ToggledInv'
  BY <1>1, <1>4, <1>5, <1>6, <1>7 DEF PagesInv, ToggledInv, Differs
<1> QED BY <1>8, <1>9, <1>10 DEF PagesInv

\* The checks of an ACL's page say nothing of the database.
LEMMA TypeInKeeps == ASSUME PagesInv, NEW r, TypeIn(r) PROVE PagesInv'
<1>1. /\ page \in Page /\ page.kind = "acl" /\ page.todo = <<>>
      /\ sent' = sent /\ db' = db /\ unseen' = unseen /\ page' = [page EXCEPT !.checked = {}]
  BY DEF PagesInv, PageInv, TypeIn, Shows
<1>2. /\ page' \in Page /\ page'.kind = page.kind /\ page'.of = page.of /\ page'.rows = page.rows
      /\ page'.todo = page.todo /\ page'.checked = {}
  BY <1>1 DEF Page
<1>3. Related(page', db') = Related(page, db)
  BY <1>1, <1>2 DEF Related
<1>4. PageInv'
  BY <1>2 DEF PagesInv, PageInv
<1>5. SentInv'
  BY <1>1, <1>2 DEF PagesInv, SentInv
<1>6. ActiveInv' /\ ToggledInv'
  BY <1>1, <1>2 DEF ActiveInv, ToggledInv
<1>7. RowsInv' /\ ItemsInv'
  BY <1>1, <1>2, <1>3 DEF PagesInv, RowsInv, ItemsInv
<1> QED BY <1>4, <1>5, <1>6, <1>7 DEF PagesInv

\* A request that is sent is made of the page that is shown.
LEMMA SendKeeps ==
  ASSUME PagesInv, page.todo = <<>>, NEW i \in Slot,
         NEW op \in Ops(page.kind), NEW items \in SUBSET ItemsOf(page.kind), NEW to \in AclId,
         op \in {"access", "move", "delete"} => items = page.checked,
         Send(i, op, items, to)
  PROVE  PagesInv'
<1>1. page.kind \in Kinds /\ page \in Page /\ sent \in [Slot -> Sent]
  BY DEF PagesInv, PageInv, Page, SentInv
<1>2. op \in AllOps /\ items \in SUBSET Item
  BY <1>1 DEF Ops, AllOps, Kinds, ItemsOf, Item
<1> DEFINE new == [op |-> op, items |-> items, to |-> to, state |-> "sent", stale |-> unseen \cap items]
<1>3. /\ sent' = [sent EXCEPT ![i] = new]
      /\ page' = page /\ db' = db /\ unseen' = unseen
  BY DEF Send
<1>4. new \in Sent /\ new.op = op /\ new.items = items /\ new.state = "sent"
      /\ new.stale = unseen \cap items
  BY <1>2 DEF Sent
<1> HIDE DEF new
<1>5. sent' \in [Slot -> Sent] /\ \A j \in Slot : sent'[j] = IF j = i THEN new ELSE sent[j]
  BY <1>1, <1>3, <1>4
<1>6. Related(page, db)' = Related(page, db)
  BY <1>3
<1>7. PageInv'
  BY <1>3 DEF PagesInv, PageInv
<1>8. SentInv'
  <2>1. ASSUME NEW j \in Slot, sent'[j].state # "none"
        PROVE  /\ page.todo = <<>> /\ sent'[j].op \in Ops(page.kind)
               /\ sent'[j].items \subseteq ItemsOf(page.kind)
    BY <1>4, <1>5, <2>1 DEF PagesInv, SentInv
  <2> QED BY <1>3, <1>5, <2>1 DEF SentInv
<1>9. ActiveInv' /\ RowsInv'
  BY <1>3, <1>6 DEF PagesInv, ActiveInv, RowsInv
<1>10. ItemsInv'
  <2> SUFFICES ASSUME NEW j \in Slot, sent'[j].state = "sent",
                      sent'[j].op \in {"move", "delete"}
               PROVE  sent'[j].items \subseteq Related(page, db) \cup sent'[j].stale
    BY <1>6 DEF ItemsInv
  <2>1. CASE j = i
    <3>1. op \in {"move", "delete"} /\ page.kind = "acl"
      BY <1>1, <1>4, <1>5, <2>1 DEF Ops, Kinds
    <3>2. items \subseteq Related(page, db) \cup unseen
      BY <3>1 DEF PagesInv, PageInv, RowsInv
    <3> QED BY <1>4, <1>5, <2>1, <3>2
  <2>2. CASE j # i
    BY <1>5, <2>2 DEF PagesInv, ItemsInv
  <2> QED BY <2>1, <2>2
<1>11. ToggledInv'
  <2> SUFFICES ASSUME page.kind = "access"
               PROVE  \A j \in Slot : sent'[j].state = "sent" =>
                        Differs(sent'[j].items, page.checked) \subseteq page.toggled
    BY <1>3, <1>6 DEF PagesInv, ToggledInv
  <2>1. items = page.checked
    BY DEF Ops
  <2> QED BY <1>4, <1>5, <2>1 DEF PagesInv, ToggledInv, Differs
<1> QED BY <1>7, <1>8, <1>9, <1>10, <1>11 DEF PagesInv

\* So is each of the tab's requests.
LEMMA RequestsKeep ==
  ASSUME PagesInv, NEW i \in Slot,
         \/ UpdateAccess(i) \/ (\E a \in AclId : Move(i, a)) \/ DeleteRules(i)
         \/ (\E r \in RuleId : SaveRule(i, r)) \/ RenameACL(i) \/ DeleteACL(i)
  PROVE  PagesInv'
<1> USE NewAclAssumption
<1>0. page.rows \subseteq ItemsOf(page.kind) /\ page.checked \subseteq page.rows
  BY DEF PagesInv, PageInv
<1>1. CASE UpdateAccess(i)
  <2>1. Shows("access") /\ Send(i, "access", page.checked, NewAcl)
    BY <1>1 DEF UpdateAccess
  <2>2. page.todo = <<>> /\ "access" \in Ops(page.kind)
    BY <2>1 DEF Shows, Ops
  <2> QED BY <1>0, <2>1, <2>2, SendKeeps
<1>2. ASSUME NEW a \in AclId, Move(i, a) PROVE PagesInv'
  <2>1. Shows("acl") /\ Send(i, "move", page.checked, a)
    BY <1>2 DEF Move
  <2>2. page.todo = <<>> /\ "move" \in Ops(page.kind)
    BY <2>1 DEF Shows, Ops
  <2> QED BY <1>0, <2>1, <2>2, SendKeeps
<1>3. CASE DeleteRules(i)
  <2>1. Shows("acl") /\ Send(i, "delete", page.checked, NewAcl)
    BY <1>3 DEF DeleteRules
  <2>2. page.todo = <<>> /\ "delete" \in Ops(page.kind)
    BY <2>1 DEF Shows, Ops
  <2> QED BY <1>0, <2>1, <2>2, SendKeeps
<1>4. ASSUME NEW r \in RuleId, SaveRule(i, r) PROVE PagesInv'
  <2>1. Shows("acl") /\ r \in page.rows /\ Send(i, "edit", {r}, NewAcl)
    BY <1>4 DEF SaveRule
  <2>2. page.todo = <<>> /\ "edit" \in Ops(page.kind)
    BY <2>1 DEF Shows, Ops
  <2>3. {r} \in SUBSET ItemsOf(page.kind)
    BY <1>0, <2>1
  <2> QED BY <2>1, <2>2, <2>3, SendKeeps
<1>5. ASSUME NEW op \in {"rename", "deleteAcl"}, Shows("acl"), Send(i, op, {}, NewAcl)
      PROVE  PagesInv'
  <2>1. page.todo = <<>> /\ op \in Ops(page.kind)
    BY <1>5 DEF Shows, Ops
  <2> QED BY <1>5, <2>1, SendKeeps
<1> QED BY <1>1, <1>2, <1>3, <1>4, <1>5 DEF RenameACL, DeleteACL

-----------------------------------------------------------------------------
(* Answers.                                                                  *)

\* A slot that is free again claims nothing.
LEMMA FreedKeeps ==
  ASSUME SentInv, ItemsInv, NEW i \in Slot, sent' = [sent EXCEPT ![i] = NoneSent],
         db' = db, page'.kind = page.kind, page'.of = page.of, page'.todo = page.todo
  PROVE  SentInv' /\ ItemsInv' /\ \A j \in Slot : sent'[j].state # "none" => sent'[j] = sent[j]
<1>1. NoneSent \in Sent /\ NoneSent.state = "none"
  BY NewAclAssumption DEF NoneSent, Sent, AllOps
<1>2. /\ sent' \in [Slot -> Sent]
      /\ \A j \in Slot : sent'[j] = IF j = i THEN NoneSent ELSE sent[j]
  BY <1>1 DEF SentInv
<1>3. \A j \in Slot : sent'[j].state # "none" => sent'[j] = sent[j]
  BY <1>1, <1>2
<1>4. SentInv'
  BY <1>2, <1>3 DEF SentInv
<1>5. Related(page', db') = Related(page, db)
  BY DEF Related
<1>6. ItemsInv'
  BY <1>3, <1>5 DEF ItemsInv
<1> QED BY <1>3, <1>4, <1>6

\* A page that stays, stays as far from the database as it was.
LEMMA FailsKeeps ==
  ASSUME PagesInv, NEW i \in Slot, Fails(i) \/ (sent[i].state = "done" /\ Updated(i) /\ UNCHANGED db)
  PROVE  PagesInv'
<1>1. /\ page' = page /\ db' = db /\ unseen' = unseen /\ sent' = [sent EXCEPT ![i] = NoneSent]
  BY DEF Fails, Updated
<1>2. PageInv' /\ Related(page, db)' = Related(page, db)
  BY <1>1 DEF PagesInv, PageInv
<1>3. SentInv' /\ ItemsInv' /\ \A j \in Slot : sent'[j].state # "none" => sent'[j] = sent[j]
  BY <1>1, FreedKeeps DEF PagesInv
<1>4. ActiveInv' /\ RowsInv' /\ ToggledInv'
  BY <1>1, <1>2, <1>3 DEF PagesInv, ActiveInv, RowsInv, ToggledInv
<1> QED BY <1>2, <1>3, <1>4 DEF PagesInv

\* What the tab is told it brings up to date.
LEMMA AnsweredKeeps == ASSUME PagesInv, NEW i \in Slot, Answered(i) PROVE PagesInv'
<1>1. /\ sent[i].state = "done" /\ db' = db /\ page \in Page /\ page.kind \in Kinds
      /\ page.todo = <<>> /\ sent[i].op \in Ops(page.kind)
      /\ page.of \in (IF page.kind = "access" THEN GroupId ELSE AclId)
  BY DEF PagesInv, PageInv, SentInv, Answered, Page
<1>2. CASE Updated(i)
  BY <1>1, <1>2, FailsKeeps
<1>3. CASE Reloaded(i)
  <2>1. page.kind = "acl" /\ Goto(Opened("acl", page.of))
    BY <1>1, <1>3 DEF Reloaded, Ops, Kinds
  <2> QED BY <1>1, <2>1, GotoKeeps
<1>4. CASE Gone(i)
  BY <1>4, GotoKeeps DEF Gone
<1>5. CASE RowsGone(i)
  <2> DEFINE items == sent[i].items
             rows == page.rows \ items
             checked == page.checked \ items
  <2>1. /\ page' = [page EXCEPT !.rows = rows, !.checked = checked]
        /\ unseen' = unseen \ items /\ sent' = [sent EXCEPT ![i] = NoneSent]
        /\ sent[i].op \in {"move", "delete"}
    BY <1>5 DEF RowsGone
  <2>2. page.kind = "acl"
    BY <1>1, <2>1 DEF Ops, Kinds
  <2>3. /\ page' \in Page /\ page'.kind = page.kind /\ page'.of = page.of /\ page'.rows = rows
        /\ page'.todo = page.todo /\ page'.checked = checked
    BY <1>1, <2>1 DEF Page
  <2>4. PageInv'
    BY <2>3 DEF PagesInv, PageInv
  <2>5. SentInv' /\ ItemsInv'
    BY <1>1, <2>1, <2>3, FreedKeeps DEF PagesInv
  <2>6. Related(page', db') = Related(page, db)
    BY <1>1, <2>3 DEF Related
  <2>7. RowsInv'
    BY <2>1, <2>2, <2>3, <2>6 DEF PagesInv, RowsInv
  <2>8. ActiveInv' /\ ToggledInv'
    BY <1>1, <2>2, <2>3 DEF ActiveInv, ToggledInv
  <2> QED BY <2>4, <2>5, <2>7, <2>8 DEF PagesInv
<1> QED BY <1>2, <1>3, <1>4, <1>5 DEF Answered

-----------------------------------------------------------------------------
\* Every step of the tab and the others is one the store allows.
LEMMA StoreStep == ASSUME PagesInv, [PagesNext]_pageVars PROVE [Next]_db
<1>1. CASE \E i \in Slot : Commit(i)
  BY <1>1, EffectIsStep DEF PagesInv, Commit
<1>2. CASE Other
  BY <1>2 DEF Other
<1>3. CASE Open \/ Reads \/ getACLs \/ loadACL
  BY <1>3 DEF Open, Reads, getGroups, getGroupACLs, getACLs, aclHandler, aclExists, loadACL, Runs
<1>4. CASE \E x \in AclId \cup RuleId : Toggle(x) \/ TypeIn(x)
  BY <1>4 DEF Toggle, TypeIn
<1>5. CASE \E i \in Slot :
             \/ UpdateAccess(i) \/ (\E a \in AclId : Move(i, a)) \/ DeleteRules(i)
             \/ (\E r \in RuleId : SaveRule(i, r)) \/ RenameACL(i) \/ DeleteACL(i)
  BY <1>5 DEF UpdateAccess, Move, DeleteRules, SaveRule, RenameACL, DeleteACL, Send
<1>6. CASE \E i \in Slot : Fails(i) \/ Answered(i)
  BY <1>6 DEF Fails, Answered
<1>7. CASE UNCHANGED pageVars
  BY <1>7 DEF pageVars
<1> QED BY <1>1, <1>2, <1>3, <1>4, <1>5, <1>6, <1>7 DEF PagesNext, Reads

\* No step of the tab or the others breaks the invariant.
LEMMA StepKeeps == ASSUME TypeOK, PagesInv, [PagesNext]_pageVars PROVE PagesInv'
<1>1. CASE Other
  BY <1>1, OtherKeeps
<1>2. CASE Open
  BY <1>2, OpenKeeps
<1>3. CASE Reads
  BY <1>3, ReadKeeps
<1>4. CASE getACLs \/ loadACL
  BY <1>4, ShowKeeps
<1>5. CASE \E x \in AclId \cup RuleId : Toggle(x) \/ TypeIn(x)
  BY <1>5, ToggleKeeps, TypeInKeeps
<1>6. CASE \E i \in Slot :
             \/ UpdateAccess(i) \/ (\E a \in AclId : Move(i, a)) \/ DeleteRules(i)
             \/ (\E r \in RuleId : SaveRule(i, r)) \/ RenameACL(i) \/ DeleteACL(i)
  BY <1>6, RequestsKeep
<1>7. CASE \E i \in Slot : Commit(i)
  BY <1>7, CommitKeeps
<1>8. CASE \E i \in Slot : Fails(i)
  BY <1>8, FailsKeeps
<1>9. CASE \E i \in Slot : Answered(i)
  BY <1>9, AnsweredKeeps
<1>10. CASE UNCHANGED pageVars
  BY <1>10 DEF pageVars, PagesInv, PageInv, SentInv, RowsInv, ItemsInv, ActiveInv, ToggledInv, Related
<1> QED
  BY <1>1, <1>2, <1>3, <1>4, <1>5, <1>6, <1>7, <1>8, <1>9, <1>10 DEF PagesNext, Reads

\* Only its commit makes a request done.
LEMMA CommitsIsCommit ==
  ASSUME PagesInv, [PagesNext]_pageVars, NEW i \in Slot, Commits(i) PROVE Commit(i)
<1>1. /\ sent[i].state = "sent" /\ sent'[i].state = "done" /\ sent' # sent
      /\ sent \in [Slot -> Sent] /\ Aged[i].state = sent[i].state
  BY AgedTyped DEF Commits, PagesInv, SentInv
<1>2. NoneSent.state = "none" /\ NothingSent[i].state = "none"
  BY NothingQuiet DEF NoneSent
<1>3. ~Open /\ ~Reads /\ ~getACLs /\ ~loadACL /\ ~Other
  BY <1>1, <1>2 DEF Open, Goto, Reads, getGroups, getGroupACLs, getACLs, aclHandler, aclExists,
                    loadACL, Runs, Other
<1>4. ASSUME NEW x PROVE ~Toggle(x) /\ ~TypeIn(x)
  BY <1>1 DEF Toggle, TypeIn
<1>5. ASSUME NEW j \in Slot, NEW op, NEW items, NEW to, Send(j, op, items, to) PROVE FALSE
  <2>1. /\ sent[j].state = "none"
        /\ sent' = [sent EXCEPT ![j] = [op |-> op, items |-> items, to |-> to, state |-> "sent",
                                        stale |-> unseen \cap items]]
    BY <1>5 DEF Send
  <2>2. sent'[i] = sent[i]
    BY <1>1, <2>1
  <2> QED BY <1>1, <2>2
<1>6. ASSUME NEW j \in Slot
      PROVE  /\ ~UpdateAccess(j) /\ ~DeleteRules(j) /\ ~RenameACL(j) /\ ~DeleteACL(j)
             /\ \A a \in AclId : ~Move(j, a)
             /\ \A r \in RuleId : ~SaveRule(j, r)
  BY <1>5 DEF UpdateAccess, Move, DeleteRules, SaveRule, RenameACL, DeleteACL
<1>7. ASSUME NEW j \in Slot, sent' = [sent EXCEPT ![j] = NoneSent] PROVE FALSE
  BY <1>1, <1>2, <1>7
<1>8. ASSUME NEW j \in Slot PROVE ~Fails(j) /\ ~Answered(j)
  BY <1>1, <1>2, <1>7 DEF Fails, Answered, Updated, RowsGone, Reloaded, Gone, Goto
<1>9. ASSUME NEW j \in Slot, j # i, Commit(j) PROVE FALSE
  <2>1. sent' = [Aged EXCEPT ![j].state = "done"] /\ Aged \in [Slot -> Sent]
    BY <1>9, AgedTyped DEF Commit, PagesInv
  <2> QED BY <1>1, <1>9, <2>1
<1> QED BY <1>1, <1>3, <1>4, <1>6, <1>8, <1>9 DEF PagesNext, Reads, pageVars

\* The database's types and the page's invariant always hold.
LEMMA PagesInvHolds == PagesSpec => [](TypeOK /\ PagesInv)
<1>1. PagesInit => TypeOK /\ PagesInv
  <2> SUFFICES ASSUME PagesInit PROVE TypeOK /\ PagesInv
    OBVIOUS
  <2>1. TypeOK
    BY SeedAssumption DEF PagesInit, Init, TypeOK, Consistent
  <2>2. page = NoPage /\ sent = NothingSent
    BY DEF PagesInit
  <2>3. /\ page \in Page /\ page.kind = "none" /\ page.of = NewAcl /\ page.todo = <<>>
        /\ page.rows = {} /\ page.checked = {}
    BY <2>2, NewAclAssumption DEF NoPage, Page, Kinds, Todos, Remaining
  <2>4. PageInv
    BY <2>3, NewAclAssumption DEF PageInv, Remaining, ItemsOf
  <2>5. SentInv /\ ItemsInv
    BY <2>2, NothingQuiet DEF SentInv, ItemsInv
  <2> QED BY <2>1, <2>3, <2>4, <2>5 DEF PagesInv, ActiveInv, RowsInv, ToggledInv
<1>2. TypeOK /\ PagesInv /\ [PagesNext]_pageVars => TypeOK' /\ PagesInv'
  <2> SUFFICES ASSUME TypeOK, PagesInv, [PagesNext]_pageVars PROVE TypeOK' /\ PagesInv'
    OBVIOUS
  <2>1. [Next]_db
    BY StoreStep
  <2>2. TypeOK'
    BY <2>1, TypeKept
  <2> QED BY <2>2, StepKeeps
<1> QED BY <1>1, <1>2, PTL DEF PagesSpec

\* A page lists and checks rows of its own kind, through every load, answer and failure.
THEOREM PageTypeCorrect == PagesSpec => []PageTypeOK
<1>1. PagesInv => PageTypeOK
  BY DEF PagesInv, PageInv, Page, Kinds, ItemsOf, PageTypeOK
<1> QED BY <1>1, PagesInvHolds, PTL

\* The page of an ACL moves and deletes rules of this ACL only (aclMoveHandler and
\* ruleDeleteHandler do not ask), or such as left it without the tab having been told
\* when it sent the request, however many requests it has under way.
THEOREM OwnRules == PagesSpec => ActsOnOwnRules
<1>1. ASSUME PagesInv, NEW i \in Slot, Commits(i), sent[i].op \in {"move", "delete"}
      PROVE  sent[i].items \subseteq Related(page, db) \cup sent[i].stale
  BY <1>1 DEF Commits, PagesInv, ItemsInv
<1>2. PagesInv =>
        \A i \in Slot : Commits(i) /\ sent[i].op \in {"move", "delete"} =>
          sent[i].items \subseteq Related(page, db) \cup sent[i].stale
  BY <1>1
<1> QED BY <1>2, PagesInvHolds, PTL DEF PagesSpec, ActsOnOwnRules

\* An Update, which replaces all the access of the group (accessUpdateHandler), grants
\* and revokes of the ACLs there are only what was toggled on the page, or what others
\* changed since it began to load: on any connection, with boxes toggled and other
\* Updates sent while it is under way.
THEOREM OnlyToggled == PagesSpec => ChangesToggled
<1>1. ASSUME TypeOK, PagesInv, [PagesNext]_pageVars,
             NEW i \in Slot, Commits(i), sent[i].op = "access"
      PROVE  Changed(page) \cap db.acls \subseteq page.toggled \cup unseen
  <2>1. sent[i].state = "sent" /\ Effect(sent[i])
    BY <1>1, CommitsIsCommit DEF Commit
  <2>2. /\ page.kind = "access" /\ page.todo = <<>>
    BY <1>1, <2>1 DEF PagesInv, PageInv, SentInv, Page, Ops, Kinds
  <2>3. PICK fk \in FkModes : AccessUpdate(page.of, sent[i].items, fk)
    BY <1>1, <2>1 DEF Effect
  <2>4. Related(page, db') = sent[i].items
    BY <1>1, <2>2, <2>3, UpdateOnPage
  <2>5. Changed(page) = Differs(Related(page, db), sent[i].items)
    BY <2>4 DEF Changed, Differs
  <2> QED BY <1>1, <2>1, <2>2, <2>5 DEF PagesInv, ToggledInv, Differs
<1>2. TypeOK /\ PagesInv /\ [PagesNext]_pageVars =>
        \A i \in Slot : Commits(i) /\ sent[i].op = "access" =>
          Changed(page) \cap db.acls \subseteq page.toggled \cup unseen
  BY <1>1
<1> QED BY <1>2, PagesInvHolds, PTL DEF PagesSpec, ChangesToggled

=============================================================================
