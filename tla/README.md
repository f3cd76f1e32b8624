# Squidwarden in TLA+

Models, model-checking runs and proofs of squidwarden: a web UI that edits the
access rules of a Squid proxy in an SQLite file, and the helper processes that
Squid asks, request by request, whether the rules allow it.

Contents: [the system](#the-system), [the modules](#the-modules),
[the runs](#the-runs), [bounds](#bounds), [fairness](#fairness),
[proofs](#proofs), [what the model assumes](#what-the-model-assumes),
[what the code gets wrong](#what-the-code-gets-wrong),
[not modelled, and the plan](#not-modelled-and-the-plan).

To repeat a run: `tlc -workers 2 -config <cfg> <module>`; a proof:
`tlapm <module>` for the modules whose names end in `Proofs`.

## The system

| component | source | state | operations |
|---|---|---|---|
| database | `sqlite.schema` | seven tables: acls, groups, sources, members (source in group), aclrules (rule in ACL), rules, groupaccess (ACL granted to group) | SQL statements, with PRIMARY KEY, UNIQUE and, per connection, FOREIGN KEY |
| admin UI, writes | `cmd/ui/ui.go` | the connection pool of `database/sql`, open transactions | thirteen POST handlers, each one transaction by way of `txWrap` |
| admin UI, pages | `cmd/ui/ui.go` | none of its own | GET handlers: queries outside transactions, templates, CSRF and CSP headers |
| helper | `cmd/helper/helper.go` | per process: configuration in use, time of the last load | load the configuration (two queries), read a line, reload if the last load is over a second old, decide, answer, log a block |
| matching | `cmd/helper/helper.go` | none | `Check` of the five rule types, `Contains` of the two kinds of source |
| block log | `helper.go:logBlock`, `ui.go:tailLogHandler`, `parseLogEntry`, `reverse` | a file | append under `flock`; read the tail, parse, show the latest first |
| tail stream | `cmd/ui/tailer.go` | per websocket: the file it has open, its position, the file its watcher watches, a pending tick | open, watch, read lines and send them, ping, wait for a tick |
| browser | `cmd/ui/static/*.js` | what the tab shows, what is checked on it, the requests under way | build requests out of what was shown when the page was loaded, bring the page up to date by the answer; follow the log, reconnect |
| bulk import | `cmd/mkacl/mkacl.go` | none | one transaction: an ACL and a rule per line |
| static files | `fakefiles.go`, `cmd/mkgo` | none | generated file contents |

How they interact. The UI and the helpers share only the database file and the
block log. A handler's transaction takes effect at its commit; a helper sees it
at its next load, each of whose two queries reads what is committed at that
moment. Handlers share the connection pool and compete for SQLite's single
write lock. A page shows ids that a later request sends back, when other
requests may have removed the rows. Squid starts the helpers, restarts those
that die, and writes them one line at a time.

What is hard here, and what must hold:

- *Two queries, one configuration* (helper). Between them the admin may edit.
  Every answer must still follow from grants and rules that were committed while
  the load ran, the most specific source first (`Explained`), and a helper must
  end up with what the admin left, whatever its loads met (`CatchesUp`).
- *Rules are in two tables* (UI). Creating, moving and deleting a rule writes
  rules and aclrules in different orders in concurrent transactions, some of
  them on connections without foreign keys: every rule stays in exactly one ACL
  (`OneAclPerRule`), since the pages move a rule without naming its old one.
- *Replace by delete and insert* (UI). Grants and members are deleted and
  inserted one by one: whole or not at all (`Atomic`), and as the form said if
  the answer is OK (`OkMeansDone`).
- *Foreign keys belong to a connection* (UI). `openDB` enables them on the one
  connection the pool happened to use; which transactions may leave dangling
  references is `DanglingFromBare`, and that they do is the run `dangling`.
- *Error paths* (UI). A failed statement makes the handler look for a reason in
  the database; a lock timeout looks the same to it as a constraint. Refusals
  must blame something that is there (`RefusalExplained`), every request must be
  answered and the lock given back, even when a handler panics (`Served`,
  `LockFreed`, `LockHasOwner`).
- *Statements the schema refuses* (UI). Two handlers insert into a column of members
  that the schema does not have, one of them after a statement that
  succeeded: what it did must not stay behind (`Atomic`, `OkMeansDone`).
- *Pages grow old* (UI, browser). A page is read by several queries outside any
  transaction, and its form later replaces all the grants of a group, or moves and
  deletes rules from wherever they are, also several forms at a time, since a request
  under way covers the page but disables nothing on it: the tab may change only what
  the admin toggled, or what others changed behind its back (`ChangesToggled`,
  `ActsOnOwnRules`).
- *One log, several writers, a reader without a lock* (helper, UI). Lines must stay
  whole (`LinesWhole`), and the stream that follows the log, woken by ticks that are
  dropped when one is pending, must not sleep before the end (`SleepsOnlyAtEnd`), skip
  (`NothingSkipped`) or repeat (`Ordered`), through rotation, truncation and
  reconnections; it shows what was written in the end (`Shows`), and its goroutines end
  (`Reaped`).
- *Two spellings of one request* (UI, helper). A rule is offered from a log line by one
  program and matched by the other, with ports that one leaves out and the other
  assumes, addresses in and out of brackets, and public suffixes (`ChecksAsMeant`,
  `OffersMatch`, `OffersStay`).
- *Sources that overlap* (helper). Nets and masks are compared bit by bit, across the
  two versions of addresses (the theorems of `SourcesProofs`).

`PROJECT.json` lists the hazards line by line, with the properties that cover
each, or why none does.

## The modules

- **Schema**: the tables as sets of rows (`DB`), keys and references
  (`KeysHold`, `NoDangling`, `Dangling`), and SQL statements: what INSERT, DELETE
  and UPDATE do (`After`) and which constraints stop them (`Accepted`, with or
  without foreign keys). What is in a comment column is left out, but not which tables
  have one (`Commented`): a statement that names the comment of members is not prepared
  (`Prepares`). A rule's type and value are one `Match`.
- **AdminStore**: what the UI promises of the database. One variable, `db`, and
  one action per handler: its transaction as one step. `FkModes` says whether
  transactions enforce foreign keys. Of `membersmembersHandler` there is only the save
  of an empty list (`MembersMembers`), and of `membersNewHandler` nothing: the rest is
  always rolled back, for want of `members.comment`.
- **AdminUI**: the UI server, transaction by transaction. `tx[w]` is the request
  a goroutine serves, its place in `Transaction(q)` (the handler's statements)
  and whether its connection enforces foreign keys; `writer` has SQLite's write
  lock and `work` is what it has made of `db`; `idle` counts the pool's idle
  connections. The actions are the handlers' forms (`RuleNew`, ..., `Reject`),
  a page's query (`ReadPage`, `PageRead`), a statement (`Exec`), its failure by a
  constraint (`Refuse`) or by the lock (`LockTimeout`, `Diagnose`), the index out
  of range in `membersmembersHandler` (`Panic`), `Commit`, `CommitBusy` and
  `Crash`. Its specification implements AdminStore's (`Atomic`).
- **Helper**: the helper processes: `pc` is where `mainLoop` is, `read` what the
  load's first query returned, `cfg` the configuration. `Start`, `Receive`,
  `QuerySources`, `QueryRules`, `BadRule` and `QueryFails` (a failed load: fatal at
  the start, otherwise the old configuration stays), `Decide`, `Panic`. Whether a
  rule matches a target and whether a source has a client are the parameters
  `Hits` and `Covers`.
- **Squidwarden**: helpers and admin together: `Edit` is any step of AdminStore.
  The variables `past`, `since` and `window` are history for the properties:
  every version of the database, and from and to which version a helper's load
  may have read.
- **Sources**: which addresses a net (`NetContains`) and a mask (`MaskContains`) cover,
  as functions on bits of any width. `MCSquidwarden` computes the helper's `Covers` and
  `Prefix` from it.
- **Matching**: the five `Check` methods over texts of a host and a port, the row that
  `parseLogEntry` makes of a blocked request, `host2domain`, and the rules that the
  buttons of the main page make (`Offer`). Its state is a row and the rules made:
  `Ask` a request, which is blocked if no rule matches, `Click` a button, `Type` a rule.
  `Means` is the reference: sets of hosts and ports, without spellings.
- **Pages**: a browser tab on top of AdminStore, with the pages of a group's access and
  of an ACL. `page` is what it shows and has checked, with the queries yet to run while
  it loads (`getGroups`, `getACLs`, ..., `loadACL`); `sent` its requests, one to a
  `Slot`, which the server may take and the tab be told of in any order, or never.
  `Other` is any step of AdminStore; the tab's actions are its boxes and buttons, also
  while requests are under way; `Commit` is the server's, on any connection; `Updated`,
  `RowsGone`, `Reloaded` and `Gone` are what the page's scripts do with the answer.
  `unseen` and `stale` are history.
- **BlockLog**: `logBlock`, with the file's lock, its name, and its contents as cells,
  two a line, so that a reader may see half of one. `Kill`, `WriteFails`, `Rotate` and
  `Truncate` come at any time.
- **TailStream**: extends BlockLog by `tailHandler` (`Connect`, `Watch`, `SendLine`,
  `AtEnd`, `Ping`, `TakeTick`, `Leave`), its watcher (`Event`, `Timer`), `log.Fatalf`
  (`Fatal`), and the tab's table (`Deliver`, `Hangup`); and the page without websockets
  (`TailLog`, `reverse`). `ever` and `start` are history.
- **MCAdminUI, MCSquidwarden, MCPages, MCTailStream, MCMatching**: small instances.
- **AdminStoreProofs, AdminUIProofs, AdminUIRefinement, PagesProofs, SquidwardenProofs,
  MatchingProofs, SourcesProofs, TailStreamProofs**: the theorems.

How they compose: AdminUI implements AdminStore (`Atomic`); Squidwarden puts the
helpers, and Pages a tab, next to AdminStore; Squidwarden's instance takes its sources
from Sources; TailStream puts the UI's streams next to the helpers' log.

Operators with a suffix, such as `Sources_Ascending`, stand next to the
definition they vary: each is a plausible mistake in that code, and replacing
the definition by it makes TLC find the property violated that `PROJECT.json`
pairs it with. They show that the properties can fail.

## The runs

| run | configuration | shows |
|---|---|---|
| `pages` | MCPages | a tab whose page was read by several queries and grows old, with two requests under way, among others' edits: `ChangesToggled`, `ActsOnOwnRules`; and AdminStore itself from a new database: `OneAclPerRule` |
| `ui_rules` | MCAdminUI_rules | two concurrent requests about rules and ACLs: `Atomic`, `OkMeansDone`, `OneAclPerRule`, `LockHasOwner`, through refusals, timeouts, busy commits and crashes |
| `ui_groups` | MCAdminUI_groups | two concurrent requests about groups, members, sources and grants, and deletions of ACLs: `Atomic`, `OkMeansDone`, `DanglingFromBare`, `RefusalExplained` |
| `ui_live` | MCAdminUI_live | `Served` and `LockFreed`, with panicking handlers and pages among the requests |
| `squidwarden` | MCSquidwarden | a helper under concurrent edits: `Explained`, `PanicsOnlyIfTorn`, and `CatchesUp` through failed, torn and uncompilable loads |
| `stream` | MCTailStream | two helpers, a rotated and truncated log, a tab that reconnects: `LinesWhole`, `SleepsOnlyAtEnd`, `Ordered`, `NothingSkipped`, `Shows`, `Reaped` |
| `offers` | MCMatching | typed and clicked rules against every request: `ChecksAsMeant`, `OffersMatch`, `OffersStay` |
| `dangling`, `refusal`, `helper_panic`, `latest`, `registered` | | counterexamples, see below |

`RefusalExplained` is what of `RefusalCounts`, which `refusal` shows to fail, does hold:
a refusal that names no rows is that of an ACL, and then the ACL is granted to a group.
`OkMeansDone` says of a request to edit or move a rule that is gone nothing: the code
answers it OK and does nothing. `DanglingFromBare` says which transactions are to
blame, not that there are such; that the pool may close the only connection that
enforces, for good, is in the model (`PutConn`) and allowed.

## Bounds

- *Two workers.* Requests interact through the lock, the pool and the committed
  tables; any two handlers that conflict do so in a run with two. Requests
  follow each other without limit. A crash may come at any point.
- *The pool.* `database/sql` keeps two idle connections (`MaxIdle`), so that it
  takes three requests at a time to have one closed; `ui_groups` sets `MaxIdle`
  to 1, where two do, so that the enforcing connection may be closed.
- *Identifiers.* A UUID is handed out once (`minted`; `newACLID` counts as handed out), so the
  sets of ids bound how many rows a behaviour creates: in `ui_rules` one rule and one ACL, in
  `ui_groups` one source, in `ui_live` one group, beside the seed's. Deletions,
  edits, moves and saves are unbounded. Ids of rows long gone stay in use, as
  pages may be old.
- *The seed* has a rule in an ACL granted to a group with a member, so that every
  table and reference is populated; the runs differ in whether a second ACL
  exists or is created; that of `ui_groups` has no rule (`NoRuleSeed`), since what
  rules do is the matter of `ui_rules`. It satisfies the schema's constraints, and its
  member may have come in by hand: from these programs, on this schema, it cannot.
- *One helper* in `squidwarden`: helpers share nothing but the block log, which
  `stream` is about, with two; properties are stated for each.
- *`MaxVersions` = 3*: two edits. The configuration in use is of at most two
  versions (`Explained`); a third lets an edit come before, between or after the
  queries, break a rule and mend it, or delete what the first one made.
- *Clients and targets*: a mask and a host net in it, a client in both and one in the
  wider only, a page the rules are about, a line that does not unescape and a
  `cache_object` URL. Two rule contents, one of which does not compile. Addresses have
  four bits, two of which are an address of version 4's own.
- *Pages*: the database begins as `sqlite.schema` leaves it, so that rules, actions and
  slots are interchangeable (`SYMMETRY`). `Apart` is the bound on what others do: there
  are rules only while an ACL's page is open, and groups only while it is not, since the
  page of a group's access shows no rule and that of an ACL no group. Two ACLs or rules
  are one that the tab acts on and one it does not; two slots are a request that
  overtakes another. `FkModes` is {FALSE}: what a transaction may do with foreign keys
  enforced it may do on a bare connection, so that nothing is left out; the theorems are
  about any `FkModes`. One tab: what other tabs do is `Other`.
- *Log*: two lines, so that one can be cut by another's; two files, so that one is
  renamed under helper, reader and watcher; a window of three of the four cells, so
  that a stream may begin inside a line; one of the lines cannot be parsed. One
  handler at a time: handlers share nothing, and a tab that reconnects while its old
  handler lives is, to the new one, the same as one that comes later. `latest` asks for
  two rows where the page has thirty.
- *Requests and rules*: names under suffixes of one and of two labels and of none,
  with a neighbour each; both versions of addresses; ports 80, 443 and another one; one
  rule at a time (`MaxRules`), since `Check` looks at one rule and one request.

## Fairness

`AdminUI!FairSpec`: weak fairness of each worker's next step. Goroutines are
scheduled, and the driver's wait for the lock ends after five seconds
(`LockTimeout`). Nothing makes requests arrive, a commit fail, or the server die.

`Squidwarden!FairSpec`: a helper's own steps are weakly fair, as is its restart by
Squid. The queries are strongly fair: they may find the database locked
(`QueryFails`), but a commit holds it for a moment and the driver waits for five
seconds, so not every time. Lines that find the configuration stale are strongly
fair: Squid goes on sending requests, with pauses of more than a second. No fairness
is asked of the admin: `CatchesUp` says what follows once edits have stopped, which
in the model the bound on versions brings about.

`TailStream!FairSpec`: a handler's steps, its watcher's event and its ten seconds, and
delivery to a connected tab are weakly fair: goroutines run and time passes. `Leave`,
which needs the handler to be at its check or its ping, where it does not stay, is
strongly fair: the network reports a lost connection some time. Nothing makes a tab
connect, a helper write, or a written line whole. `Shows` and `Reaped` rest on `Timer`:
after a rotation the reader and the watcher are about different files.

## Proofs

`AdminStoreProofs`, for every set of ids, every seed that satisfies
`SeedAssumption`, and any number of steps:

- `TypeCorrect`: `Spec => []TypeOK`.
- `RulesInOneAcl`: `Spec => []OneAclPerRule`, for `FkModes` of any value. The
  property is inductive as it stands, because both halves are in it: that no ACL
  lists a missing rule is what makes a new rule's entry its only one, and that a
  rule has exactly one entry is what makes a move keep the count. The proof has a
  step per action, with the lemmas `IdsAfterInsert` and `IdsAfterUpdate` on the ids
  of a table.

That the keys of rules and sources hold (`KeysKept`) is a lemma: the database enforces
them, and other proofs need it. That no reference dangles is not a theorem: the code
does not give it (run `dangling`).

`SquidwardenProofs`, for any number of helpers, sources, rules and edits (the bound
`MaxVersions` plays no part):

- `TypeCorrect`: `Spec => []TypeOK`.
- `AnswersExplained`: `Spec => Explained`. Two arguments meet in it. One is about
  `decide` alone: `DecisionIsMeant` says that the first match in a list sorted by
  prefix is a match of the most specific source, where `SourcesEnumerate` shows that
  the sorted list has every row (a list as long as a finite set that repeats nothing
  leaves nothing out) and `Least` that there is a first match. The other is the
  invariant `Inv`, which says of each helper what it has in hand and as of which
  versions: the rows of a load under way are those of a version since it began
  (`ReadSince`); the configuration in use has the rows of one version and the rules
  of one no older, both within its window (`FromWindow`); and every version had its
  keys, so that a rule's id finds one rule. `Explained` alone is not inductive: it
  says nothing of a load under way. `HelperFrame` shows that what a helper has in
  hand survives the steps of other helpers and the admin's edits.
- `PanicsAreTorn`: `Spec => PanicsOnlyIfTorn`, from the same invariant: an id that the
  list has and the rules lack was in the rules of the list's version.

That the database keeps its types and keys under Squidwarden's edits is not proved
again: `SameStep` shows them to be AdminStore's steps, and `DatabaseOK` takes the
theorems of AdminStoreProofs over.

The assumptions are the modules' own: `NewAclAssumption`, `SeedAssumption`,
`FkModesAssumption`, and `HelperAssumption`, of which the proofs use that addresses and
rule ids are finitely many and that prefix lengths are numbers.

`AdminUIProofs`, for any number of goroutines, any request and any pool:

- `LockIsOwned`: `Spec => []LockHasOwner`; `OnlyBareDangles`: `Spec =>
  DanglingFromBare`. The invariant `LockInv` has three parts: who has executed a
  statement holds the lock and has held it since (`OwnLock`), what an enforcing
  transaction has made of the database has no reference that dangles beyond those that
  did before (`OwnReferences`), and the types both need. Neither property is inductive
  by itself: a commit empties the lock whoever has it, and that it is the committer's
  own work it commits (`OwnCommit`) takes the first part and the fact that every
  transaction has a statement (`HasStatements`), where the lists of inserts of
  `accessUpdateHandler` and `membersmembersHandler` are sequences because there are
  finitely many ids for a form to name (`IdAssumption`).

`AdminUIRefinement`, for any number of goroutines, ids, requests and connections:

- `Implements`: `Spec => Atomic`, the refinement of AdminStore, with foreign keys of any
  mode. `Init` maps to `Init`; a step that is no commit leaves `db` alone (`OnlyCommits`);
  and a commit is AdminStore's action of the request. That takes the invariant
  `TxInv == LockInv /\ WorkInv /\ IdsInv`. `WorkInv` says what the uncommitted tables
  are: what the statements that the transaction has executed so far, each accepted, have
  made of `db` (`Made`), where of the lists of inserts only the set inserted so far
  matters, whatever the order (`OneEach`, `InsertedBefore`).
  `IdsInv` is what makes a UUID new for AdminStore: an id in a row or a request was
  minted, and one that a request creates is in no other request and no row yet. The step
  of each kind of transaction is a lemma of its own (`RuleNewStep` to `MembersStep`),
  and `CommittedStep` puts them together.
- `RulesInOneAcl`: `Spec => []OneAclPerRule`, from `Implements` and the theorem of
  AdminStoreProofs.
- `OkIsDone`: `Spec => OkMeansDone`. Only a commit answers OK (`OkIsCommit`), and what it
  commits is `Made` of the whole form (`CommittedDone`). That a moved rule is in one ACL
  afterwards needs `OneAclPerRule` before.
- `RefusalsExplained`: `Spec => RefusalExplained`, for any handlers. A refused first
  statement saw what is committed (`FirstStatement`), whose keys hold (`KeysCommitted`,
  from AdminStoreProofs): what refused the deletion of a source is then a member row of
  it (`SourceInUse`), and that of an ACL a rule's row or a grant; only the handler of
  ACLs does not count both. For the bare count no such theorem holds: see the run
  `refusal`.
- `TypeCorrect`: `Spec => []TypeOK`, with that the pool never holds more than `MaxIdle`
  connections and that what the handlers answer counts finite sets.

`PagesProofs`, for any database, other clients' edits, connections with and without
foreign keys, and any number of requests under way:

- `PageTypeCorrect`, `OwnRules`, `OnlyToggled`: `[]PageTypeOK`, `ActsOnOwnRules`,
  `ChangesToggled`. The invariant `PagesInv` says what of a page can be relied on. What
  it shows and has checked is of its kind (`PageInv`), and so is what it has sent
  (`SentInv`). The rows of an ACL's page are in the ACL, or changed unseen (`RowsInv`);
  so is what a request names, or it had changed when the request was sent or has since
  (`ItemsInv`): a request stays behind when its rows leave the page with the answer of
  another, so that the page alone does not tell. What was read of a group's access while
  the page loads is the access, but for what is unseen (`ActiveInv`); afterwards, of the
  ACLs there are, checks or a request's items that are not as the group has them were
  toggled, or are unseen (`ToggledInv`). A grant of an ACL that is gone, which a bare
  connection leaves, is on no page and goes with the next Update: hence *of the ACLs
  there are*.

`MatchingProofs`, for any set of names (sequences of labels), ports, addresses and any
lengths of public suffixes:

- `CheckedAsMeant`, `OffersMatched`, `OffersStayed`, `TypeCorrect`. The only invariant they
  need is `MadeInv`, that a rule was typed or offered by a row; the work is about the
  operators: what splitting, adding a default port and literals do to a text
  (`LiteralHost`, `LogHostText`, `DomainText`), that Go's `HasSuffix` with a dot is to be
  a suffix by labels (`SameHostMeans`), that the longest public suffix is one
  (`SuffixLenIs`, with `Greatest`, from well-foundedness of the numbers), and that a
  host's registered domain, with or without a port, ends with it (`RegisteredParts`).
  Ports are numbers between those that stand for none and any (`MatchingAssumption`).

`TailStreamProofs`, for any number of helpers, lines, files and streams:

- `LinesStayWhole`: `Spec => []LinesWhole`. The invariant `LogInv` adds that a helper
  from its lock to its unlock is the one the file names as its owner (`Locked`) and that
  the beginning of its line is the last thing in its file (`Begun`).
- `StreamsSleepAtEnd`: `Spec => []SleepsOnlyAtEnd`. `ChangeHeard` shows that a change of
  the file a stream sleeps on leaves an event, `AsleepStill` that the steps of others
  leave it asleep at the end, and `AtEnd`, where it goes to sleep, has just looked.
- `TypeCorrect`: `Spec => []TypeOK`, with the invariant `TailInv`, which adds how many
  lines were logged (`Counts`) and that the tab's socket is one of a stream that runs
  (`Connection`).
- `NoLineSkipped` and `TableInOrder`: `Spec => []NothingSkipped` and `Spec => []Ordered`,
  by `TableInv`. What a file has is the end of what was ever written to it (`Kept`); every
  line is new (`Apart`) and begins once (`Once`); a reader of a file that was not truncated
  stands where it began or after the end of a line (`Reading`), since its position moves
  on by lines; and the rows of the tab begin before the position (`Behind`), in their
  order (`InOrder`). The last two speak of the file's history, where a truncation moves a
  position forward and never back.

`SourcesProofs`, for addresses of any width: a mask source with a bit its mask lacks
covers nobody (`StrayBits`) and without one covers its host (`HostCovered`); a mask
with its ones first is the net of that length to clients of version 4 (`MaskIsNet`);
and a mask in dotted form does not look at what stands before an address of version 4
(`MaskIgnoresTop`), as nets do.

Every property of a passing run is so the statement of a theorem, except the liveness
properties (`Served`, `LockFreed`, `CatchesUp`, `Shows`, `Reaped`), which need fairness
and ENABLED, and which the prover does not support: they are model-checked only. The
assumptions are those of the modules, which TLC evaluates on every run: they say that
the constants are what their comments call them, that a seed is consistent, and that ids
and forms are finite.

## What the model assumes

Of code outside the repository, as the source uses it:

- SQLite checks a constraint when a statement runs, and the schema defers none. A
  statement that fails changes nothing. Enforcement of foreign keys is a setting
  of the connection, off unless asked for. `BEGIN` is deferred: the first statement
  takes the write lock, and every handler's first statement is a write. Another
  writer waits for five seconds (the driver's default) and fails with
  SQLITE_BUSY; a commit may fail the same way because of readers. What was not
  committed is gone after a crash.
- `database/sql` takes any idle connection, opens one if there is none, and closes
  a returned one when two are idle.
- `net/http` drops the connection of a handler that panics and goes on. Where the
  server is run under FastCGI and dies instead, that is `Crash`.
- The database file was made with `sqlite.schema`, as the repository's README does it:
  members has no comment. SQLite prepares no statement that names a column there is not.
- UUIDs are never generated twice.
- Squid writes well-formed lines, with an address as the source. CONNECT states its
  port, and an address of version 6 is in brackets.
- `flock` excludes those who ask for it, of one file, and ends with the descriptor. A
  write to a file opened with O_APPEND goes to its end, and a reader may see a part of it.
- inotify reports every change of a watched file, also its renaming, and the watch
  follows the file, not the name.
- `EffectiveTLDPlusOne` is a name's public suffix and one label more; the last label is
  the suffix where the list has none.
- Of less or more than one line of the log, the expression of `parseLogEntry` may match
  the whole, a part, or nothing (`Parse`).

## What the code gets wrong

Five runs expect a violation of what the code, the schema or a message says:

- `helper_panic` (`NeverPanics`): a rule deleted between a load's two queries
  leaves an id without a rule, and `decide` calls `Check` on a nil interface.
  `PanicsOnlyIfTorn` shows that nothing else ends a helper.
- `dangling` (`References`): with two requests at a time one runs on a connection
  that does not enforce foreign keys.
- `refusal` (`RefusalCounts`): an ACL that has no rules but is granted to a group
  is refused with "acl still has 0 rules".
- `latest` (`LatestShown`): `reverse` does not copy the middle of a list of odd length,
  so that the page without websockets lacks one of the latest lines when the log has
  an even number of them.
- `registered` (`RegisteredDomain`): the "Domain" button of a host with a port makes a
  rule for all of a public suffix of two labels. `OffersStay` shows that nothing else
  opens more than it says.

The schema and the code do not agree on members. `membersNewHandler` and
`membersmembersHandler` (`ui.go:903`, `:925`) insert its comment and `getGroupSources`
(`ui.go:661`) selects it, but `sqlite.schema:15-21` has no such column. On a database
made with the schema, as the repository's README does it, no source can be added to a
group, the page of a group's members is an internal error, and a save of its members
succeeds only with an empty list; the helpers get members only from a database that was
filled or altered by hand. The model has the statements fail (`Prepares`).

`ChecksAsMeant` and `OffersMatch` name what they leave out: an address of version 6
without a port keeps its brackets and matches no rule for the address; no rule matches
FTP; "Domain" of an address forgets its port.

## Not modelled, and the plan

Next:

1. The composition of AdminUI with the helpers as a module: that a helper next to the
   transactions is one next to AdminStore follows from `Implements`, and is not stated.
2. The page of a group's members, once the schema and the code agree
   on `members.comment`.

Left out for good:

- templates, headers, CSRF tokens and routing, static files and code generation: they
  keep no state;
- the page of a group's members and its script, which never load;
- the pages of one rule and one source, which show what is there and send nothing back;
- `mkacl`, which inserts rules without an action, where the column is NOT NULL: an import
  that has a rule fails and leaves nothing, and one that has none is `AclNew`;
- the syntax of regular expressions and URLs; the wording of messages, except where a
  property is about it; comments and names of rows.
