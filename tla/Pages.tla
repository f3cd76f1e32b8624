------------------------------- MODULE Pages -------------------------------
(***************************************************************************)
(* A page of the admin UI in a browser tab, while others change the        *)
(* database: the pages of a group's access and of an ACL's rules           *)
(* (accessHandler and aclHandler in cmd/ui/ui.go, with access.js and       *)
(* acl.js).  The server reads a page with several queries, not in a        *)
(* transaction; the tab later sends requests made of what the page showed, *)
(* and brings the page up to date by what they are answered.               *)
(*                                                                         *)
(* While a request is under way the page is covered (loading in            *)
(* squidwarden.js), but nothing on it is disabled: by the keyboard, boxes  *)
(* are toggled and more requests sent, which are served and answered in    *)
(* any order.                                                              *)
(*                                                                         *)
(* The page of a group's members is not here: its query names a column     *)
(* that the schema lacks (getGroupSources), and it never loads.            *)
(***************************************************************************)
EXTENDS AdminStore

CONSTANT Slot  \* bound: the requests the tab has under way at a time

VARIABLES
  page,    \* the page of the tab, as far as it is loaded
  sent,    \* per slot, a request under way
  unseen   \* history: what changed in the page's group or ACL since it began to
           \* load, and the tab was not told

pageVars == <<db, page, sent, unseen>>

\* todo are the queries yet to run; a shown page has none.
NoPage == [kind |-> "none", of |-> NewAcl, todo |-> <<>>, found |-> FALSE, active |-> {},
           rows |-> {}, checked |-> {}, toggled |-> {}]

\* stale is history: the items that had changed when the request was sent and the tab
\* was not told, or that changed later.
NoneSent == [op |-> "none", items |-> {}, to |-> NewAcl, state |-> "none", stale |-> {}]
NothingSent == [i \in Slot |-> NoneSent]

\* What the page is about: the ACLs granted, the rules listed.
Related(p, d) ==
  CASE p.kind = "access" -> {ga[2] : ga \in {x \in d.groupaccess : x[1] = p.of}}
    [] p.kind = "acl" -> {ar[2] : ar \in {x \in d.aclrules : x[1] = p.of}}
    [] OTHER -> {}

Changed(p) == (Related(p, db) \ Related(p, db')) \cup (Related(p, db') \ Related(p, db))

\* The requests once the database has changed.
Aged == [i \in Slot |-> [sent[i] EXCEPT !.stale = @ \cup (Changed(page) \cap sent[i].items)]]

PagesInit == Init /\ page = NoPage /\ sent = NothingSent /\ unseen = {}

\* Someone else's request commits; also one of this tab whose page was left, or whose
\* answer it no longer waits for.
Other ==
  /\ Next
  /\ unseen' = unseen \cup Changed(page)
  /\ sent' = Aged
  /\ UNCHANGED page

-----------------------------------------------------------------------------
(* Loading.                                                                  *)

Queries(kind) ==
  CASE kind = "access" -> <<"getGroups", "getGroupACLs", "getACLs">>
    [] kind = "acl" -> <<"acls", "aclExists", "rules">>

Opened(kind, of) == [NoPage EXCEPT !.kind = kind, !.of = of, !.todo = Queries(kind)]

\* The tab forgets the requests of the page it leaves.
Goto(p) == page' = p /\ sent' = NothingSent /\ unseen' = {}

\* Any page, at any time; none, for one that is not modelled or fails to load.
Open ==
  /\ \/ \E g \in GroupId : Goto(Opened("access", g))
     \/ \E a \in AclId : Goto(Opened("acl", a))
     \/ Goto(NoPage)
  /\ UNCHANGED db

Runs(query) ==
  /\ page.todo # <<>> /\ Head(page.todo) = query
  /\ UNCHANGED <<db, sent, unseen>>

Read(p) == page' = [p EXCEPT !.todo = Tail(@)]

\* The template leaves the table out if the list of groups or ACLs lacked this one.
Show(rows, checked) ==
  page' = IF ~page.found THEN NoPage
          ELSE [NoPage EXCEPT !.kind = page.kind, !.of = page.of, !.rows = rows,
                              !.checked = checked]

getGroups == Runs("getGroups") /\ Read([page EXCEPT !.found = page.of \in db.groups])

getGroupACLs == Runs("getGroupACLs") /\ Read([page EXCEPT !.active = Related(page, db)])

\* Mutant: checks grants of ACLs that are not on the page.
getACLs_AllActive == Runs("getACLs") /\ Show(db.acls, page.active)

getACLs == Runs("getACLs") /\ Show(db.acls, db.acls \cap page.active)

\* aclHandler: all ACLs, whether this one exists, its rules.
aclHandler == Runs("acls") /\ Read([page EXCEPT !.found = page.of \in db.acls])

\* "ACL not found" is an error and no page.
aclExists ==
  /\ Runs("aclExists")
  /\ IF page.of \in db.acls THEN Read(page) ELSE page' = NoPage

loadACL == Runs("rules") /\ Show(Related(page, db) \cap RuleIds(db), {})

-----------------------------------------------------------------------------
(* Boxes and buttons.                                                        *)

Shows(kind) == page.kind = kind /\ page.todo = <<>>

\* A box is checked or unchecked, by the mouse or by the 'x' of keyCheck.
Toggle(x) ==
  /\ Shows("access") \/ Shows("acl")
  /\ x \in page.rows
  /\ page' = [page EXCEPT !.checked = IF x \in @ THEN @ \ {x} ELSE @ \cup {x},
                          !.toggled = IF page.kind = "access" THEN @ \cup {x} ELSE @]
  /\ UNCHANGED <<db, sent, unseen>>

\* Typing in a rule's row unchecks all (ruleTextChanged).  That it disables the other
\* rows is left out.
TypeIn(r) ==
  /\ Shows("acl") /\ r \in page.rows
  /\ page' = [page EXCEPT !.checked = {}]
  /\ UNCHANGED <<db, sent, unseen>>

Send(i, op, items, to) ==
  /\ sent[i].state = "none"
  /\ sent' = [sent EXCEPT ![i] = [op |-> op, items |-> items, to |-> to, state |-> "sent",
                                  stale |-> unseen \cap items]]
  /\ UNCHANGED <<db, page, unseen>>

\* Mutant: without `:checked'.
UpdateAccess_All(i) == Shows("access") /\ Send(i, "access", page.rows, NewAcl)

UpdateAccess(i) == Shows("access") /\ Send(i, "access", page.checked, NewAcl)

\* The buttons stay enabled when rows are taken off: the list may be empty.
Move(i, to) == Shows("acl") /\ Send(i, "move", page.checked, to)

DeleteRules(i) == Shows("acl") /\ Send(i, "delete", page.checked, NewAcl)

\* save goes by the number of the row that is marked: another than the one typed in,
\* if rows before it were taken off since.  Enter presses the button also while it is
\* disabled.
SaveRule(i, r) == Shows("acl") /\ r \in page.rows /\ Send(i, "edit", {r}, NewAcl)

RenameACL(i) == Shows("acl") /\ Send(i, "rename", {}, NewAcl)

DeleteACL(i) == Shows("acl") /\ Send(i, "deleteAcl", {}, NewAcl)

-----------------------------------------------------------------------------
(* What the server does with a request, and the page with its answer.        *)

\* The request runs on any connection of the pool.
Effect(q) ==
  \E fk \in FkModes :
    \/ q.op = "access" /\ AccessUpdate(page.of, q.items, fk)
    \/ q.op = "move" /\ AclMove(q.items, q.to, fk)
    \/ q.op = "delete" /\ RuleDelete(q.items, fk)
    \/ q.op = "edit" /\ \E r \in q.items, c \in Rule : RuleEdit(r, c)
    \/ q.op = "rename" /\ UNCHANGED db
    \/ q.op = "deleteAcl" /\ AclDelete(page.of, fk)

Commit(i) ==
  /\ sent[i].state = "sent" /\ Effect(sent[i])
  /\ sent' = [Aged EXCEPT ![i].state = "done"]
  /\ unseen' = unseen \cup Changed(page)
  /\ UNCHANGED page

\* A refusal, or an answer that does not arrive: an error window, and the page stays.
\* Whether the request was carried out the tab does not know.
Fails(i) ==
  /\ sent[i].state # "none"
  /\ sent' = [sent EXCEPT ![i] = NoneSent]
  /\ UNCHANGED <<db, page, unseen>>

Updated(i) ==
  /\ sent[i].op = "access"
  /\ sent' = [sent EXCEPT ![i] = NoneSent]
  /\ UNCHANGED <<page, unseen>>

\* Mutant: moved rows stay.
RowsGone_Stay(i) ==
  /\ sent[i].op \in {"move", "delete"}
  /\ sent' = [sent EXCEPT ![i] = NoneSent]
  /\ unseen' = unseen \ sent[i].items
  /\ UNCHANGED page

\* Rows that were moved or deleted are taken off the page, with their boxes.
RowsGone(i) ==
  /\ sent[i].op \in {"move", "delete"}
  /\ sent' = [sent EXCEPT ![i] = NoneSent]
  /\ page' = [page EXCEPT !.rows = @ \ sent[i].items, !.checked = @ \ sent[i].items]
  /\ unseen' = unseen \ sent[i].items

Reloaded(i) == sent[i].op \in {"edit", "rename"} /\ Goto(Opened("acl", page.of))

Gone(i) == sent[i].op = "deleteAcl" /\ Goto(NoPage)

Answered(i) ==
  /\ sent[i].state = "done"
  /\ Updated(i) \/ RowsGone(i) \/ Reloaded(i) \/ Gone(i)
  /\ UNCHANGED db

PagesNext ==
  \/ Other \/ Open
  \/ getGroups \/ getGroupACLs \/ getACLs \/ aclHandler \/ aclExists \/ loadACL
  \/ \E x \in AclId \cup RuleId : Toggle(x) \/ TypeIn(x)
  \/ \E i \in Slot :
       \/ UpdateAccess(i) \/ (\E a \in AclId : Move(i, a)) \/ DeleteRules(i)
       \/ (\E r \in RuleId : SaveRule(i, r)) \/ RenameACL(i) \/ DeleteACL(i)
       \/ Commit(i) \/ Fails(i) \/ Answered(i)

PagesSpec == PagesInit /\ [][PagesNext]_pageVars

-----------------------------------------------------------------------------
PageTypeOK ==
  /\ page.kind \in {"none", "access", "acl"}
  /\ page.rows \subseteq (CASE page.kind = "access" -> AclId
                            [] page.kind = "acl" -> RuleId
                            [] OTHER -> {})
  /\ page.checked \subseteq page.rows
  /\ page.found \in BOOLEAN

Commits(i) == sent[i].state = "sent" /\ sent'[i].state = "done"

\* Update replaces all the access of a group by what is checked on a page that may be
\* old, read by queries at different times, and with other Updates of the same tab under
\* way: of the ACLs there are, what it grants or revokes is what the admin toggled on the
\* page, or what others changed since it began to load.
ChangesToggled ==
  [][\A i \in Slot : Commits(i) /\ sent[i].op = "access" =>
       Changed(page) \cap db.acls \subseteq page.toggled \cup unseen]_pageVars

\* aclMoveHandler and ruleDeleteHandler take rules from whatever ACL they are in: the
\* page of an ACL moves and deletes rules of this ACL, or such as left it without the
\* tab having been told when it sent the request.
ActsOnOwnRules ==
  [][\A i \in Slot : Commits(i) /\ sent[i].op \in {"move", "delete"} =>
       sent[i].items \subseteq Related(page, db) \cup sent[i].stale]_pageVars
=============================================================================
