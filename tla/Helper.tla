------------------------------- MODULE Helper -------------------------------
(***************************************************************************)
(* The helper processes squid starts (cmd/helper/helper.go): each answers  *)
(* the requests squid writes to its standard input, one line at a time,    *)
(* from a configuration it loads from the database at its start and again  *)
(* when a line finds the last load more than a second old.  A load is two  *)
(* queries, each of which sees what is committed when it runs.             *)
(*                                                                         *)
(* The database is only read here; Squidwarden lets the admin UI change it.*)
(***************************************************************************)
EXTENDS Schema, SequencesExt

CONSTANTS
  HelperId,     \* the helper processes
  Client,       \* source addresses of requests
  Target,       \* the rest of a line: protocol, method and URL
  Malformed,    \* the targets url.QueryUnescape fails on
  CacheObject,  \* the targets that are cache_object:// URLs
  Parses,       \* the values of sources.source that are a CIDR or a mask
  Covers,       \* Covers[addr]: the clients that source.Contains
  Prefix,       \* Prefix[addr]: its PrefixLen, 0 for a mask
  Hits,         \* Hits[m]: the targets a rule's Check matches
  Compiles,     \* the rules' (type, value) that loadConfig can build a rule of
  Nothing       \* no line, no answer

ASSUME HelperAssumption ==
  /\ Malformed \subseteq Target /\ CacheObject \subseteq Target
  /\ Malformed \cap CacheObject = {}
  /\ Parses \subseteq Address
  /\ Covers \in [Address -> SUBSET Client]
  /\ Prefix \in [Address -> Nat]
  /\ Hits \in [Match -> SUBSET Target]
  /\ Compiles \subseteq Match
  /\ Nothing \notin Client \X Target
  /\ IsFiniteSet(Address) /\ IsFiniteSet(RuleId)  \* a query returns finitely many rows

VARIABLES
  db,     \* the database, as committed
  pc,     \* per helper: down, querySources, queryRules, ready or decide
  read,   \* per helper: the rows of the first query of the load under way
  cfg,    \* per helper: the configuration in use
  line,   \* per helper: the line being answered, Nothing between lines
  answer  \* per helper: the answer to the last line

local == <<pc, read, cfg, line, answer>>

-----------------------------------------------------------------------------
(* The configuration.                                                        *)

\* Mutant: the two columns are scanned in the wrong order.
Join_Swapped(d) ==
  {<<row[2], row[1]>> : row \in
     {x \in Address \X RuleId :
        \E s \in d.sources, g \in d.groups, a \in d.acls :
          /\ s[2] = x[1]
          /\ <<s[1], g>> \in d.members
          /\ <<g, a>> \in d.groupaccess
          /\ <<a, x[2]>> \in d.aclrules
          /\ x[2] \in RuleIds(d)}}

\* The first query: which rules which sources are given, by way of a group they
\* are in and an ACL the group has.  A row that names a missing one joins nothing.
Join(d) ==
  {row \in Address \X RuleId :
     \E s \in d.sources, g \in d.groups, a \in d.acls :
       /\ s[2] = row[1]
       /\ <<s[1], g>> \in d.members
       /\ <<g, a>> \in d.groupaccess
       /\ <<a, row[2]>> \in d.aclrules
       /\ row[2] \in RuleIds(d)}

\* Mutant: sort.Sort without sort.Reverse.
Sources_Ascending(rows) ==
  {list \in SetToSeqs({row \in rows : row[1] \in Parses}) :
     \A i, j \in DOMAIN list : i < j => Prefix[list[i][1]] <= Prefix[list[j][1]]}

\* Config.Sources, flattened: every (source, rule) the query returned whose source
\* parses, the longest prefixes first.  Sources of one length come in any order,
\* the rules of a source too, and together: ORDER BY is on the source alone and
\* sort.Sort is not stable.
Sources(rows) ==
  {list \in SetToSeqs({row \in rows : row[1] \in Parses}) :
     \A i, j \in DOMAIN list : i < j =>
       /\ Prefix[list[i][1]] >= Prefix[list[j][1]]
       /\ list[i][1] = list[j][1] =>
            \A k \in i .. j : list[k][1] = list[i][1]}

NoConfig == [sources |-> <<>>, rules |-> {}]

\* Config.Rules of the rows of the second query.
Compilable(rows) == \A row \in rows : row[2].match \in Compiles

-----------------------------------------------------------------------------
(* decide: the first listed rule that matches, of a source that has the      *)
(* client, settles it.                                                       *)
Known(c, r) == \E row \in c.rules : row[1] = r
RuleOf(c, r) == (CHOOSE row \in c.rules : row[1] = r)[2]

\* Where the search ends: at a match, or at a rule id that Config.Rules lacks,
\* which yields a RuleAction whose rule is nil.
Stops(c, i, client, target) ==
  LET addr == c.sources[i][1]
      r == c.sources[i][2]
  IN  /\ client \in Covers[addr]
      /\ Known(c, r) => target \in Hits[RuleOf(c, r).match]

FirstStops(c, client, target) ==
  {i \in DOMAIN c.sources :
     /\ Stops(c, i, client, target)
     /\ \A j \in 1 .. i - 1 : ~Stops(c, j, client, target)}

NilRule(c, client, target) ==
  /\ target \notin CacheObject
  /\ \E i \in FirstStops(c, client, target) : ~Known(c, c.sources[i][2])

Decision(c, client, target) ==
  IF target \in CacheObject THEN "ignore"
  ELSE LET stops == FirstStops(c, client, target) IN
       IF stops = {} THEN "block"
       ELSE RuleOf(c, c.sources[CHOOSE i \in stops : TRUE][2]).action

\* What squid reads, and whether the request goes to the block log.  An action
\* that is none of the four names says ERR and is not logged.
Reply(act) ==
  [ok |-> act = "allow", logged |-> act \in {"block", "none"}]

-----------------------------------------------------------------------------
HelperInit ==
  /\ pc = [h \in HelperId |-> "down"]
  /\ read = [h \in HelperId |-> {}]
  /\ cfg = [h \in HelperId |-> NoConfig]
  /\ line = [h \in HelperId |-> Nothing]
  /\ answer = [h \in HelperId |-> Nothing]

Goto(h, label) == pc' = [pc EXCEPT ![h] = label]

\* Squid starts, or restarts, a helper.
Start(h) ==
  /\ pc[h] = "down" /\ Goto(h, "querySources")
  /\ UNCHANGED <<read, cfg, line, answer>>

\* Mutant: the age is compared in the wrong unit, and no load is ever old.
Receive_NeverStale(h, client, target, stale) ==
  /\ pc[h] = "ready" /\ Goto(h, "decide")
  /\ line' = [line EXCEPT ![h] = <<client, target>>]
  /\ answer' = [answer EXCEPT ![h] = Nothing]
  /\ UNCHANGED <<read, cfg>>

\* A line; stale says that the last load, good or bad, is over a second ago.
Receive(h, client, target, stale) ==
  /\ pc[h] = "ready"
  /\ Goto(h, IF stale THEN "querySources" ELSE "decide")
  /\ line' = [line EXCEPT ![h] = <<client, target>>]
  /\ answer' = [answer EXCEPT ![h] = Nothing]
  /\ UNCHANGED <<read, cfg>>

QuerySources(h) ==
  /\ pc[h] = "querySources" /\ Goto(h, "queryRules")
  /\ read' = [read EXCEPT ![h] = Join(db)]
  /\ UNCHANGED <<cfg, line, answer>>

\* After a load the helper goes on with the line that made it reload, if any.
AfterLoad(h) == IF line[h] = Nothing THEN "ready" ELSE "decide"

\* Mutant: a rule that does not compile is skipped, as a bad source is.
QueryRules_SkipBad(h) ==
  /\ pc[h] = "queryRules" /\ Goto(h, AfterLoad(h))
  /\ \E list \in Sources(read[h]) :
       cfg' = [cfg EXCEPT ![h] =
         [sources |-> list,
          rules |-> {row \in db.rules : row[2].match \in Compiles}]]
  /\ read' = [read EXCEPT ![h] = {}]
  /\ UNCHANGED <<line, answer>>

QueryRules(h) ==
  /\ pc[h] = "queryRules" /\ Goto(h, AfterLoad(h))
  /\ Compilable(db.rules)
  /\ \E list \in Sources(read[h]) :
       cfg' = [cfg EXCEPT ![h] = [sources |-> list, rules |-> db.rules]]
  /\ read' = [read EXCEPT ![h] = {}]
  /\ UNCHANGED <<line, answer>>

\* The process ends; what it had in memory is gone.
Die(h) ==
  /\ Goto(h, "down")
  /\ read' = [read EXCEPT ![h] = {}]
  /\ cfg' = [cfg EXCEPT ![h] = NoConfig]
  /\ line' = [line EXCEPT ![h] = Nothing]
  /\ answer' = [answer EXCEPT ![h] = Nothing]

\* A failed load is fatal at the start; later the old configuration stays.
LoadFails(h) ==
  IF line[h] = Nothing THEN Die(h)
  ELSE /\ Goto(h, "decide")
       /\ read' = [read EXCEPT ![h] = {}]
       /\ UNCHANGED <<cfg, line, answer>>

\* Some rule is of no known type or its regular expression is not one.
BadRule(h) == pc[h] = "queryRules" /\ ~Compilable(db.rules) /\ LoadFails(h)

\* The database is locked by a commit for longer than the driver waits.
QueryFails(h) == pc[h] \in {"querySources", "queryRules"} /\ LoadFails(h)

Decide(h) ==
  LET client == line[h][1]
      target == line[h][2]
      act == Decision(cfg[h], client, target)
  IN  /\ pc[h] = "decide" /\ Goto(h, "ready")
      /\ target \notin Malformed => ~NilRule(cfg[h], client, target)
      /\ answer' = [answer EXCEPT ![h] =
           IF target \in Malformed THEN [ok |-> FALSE, logged |-> FALSE]
           ELSE Reply(act)]
      /\ line' = [line EXCEPT ![h] = Nothing]
      /\ UNCHANGED <<read, cfg>>

\* rule.rule.Check on the nil interface.
Panic(h) ==
  /\ pc[h] = "decide"
  /\ line[h][2] \notin Malformed
  /\ NilRule(cfg[h], line[h][1], line[h][2])
  /\ Die(h)
=============================================================================
