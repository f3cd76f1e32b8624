----------------------------- MODULE Squidwarden -----------------------------
(***************************************************************************)
(* The whole: helpers answering squid while the admin UI changes the       *)
(* database they read (AdminStore; AdminUI implements it).  The variables  *)
(* past, since and window are history, read by the properties only: every  *)
(* version of the database, and, per helper, from which version on the     *)
(* load under way and the one in use may have read.                        *)
(***************************************************************************)
EXTENDS Helper

CONSTANTS Seed,        \* the database at the start
          FkModes,     \* whether transactions enforce foreign keys
          MaxVersions  \* bound: versions of the database, the seed included

ASSUME SeedAssumption == Consistent(Seed)
ASSUME FkModesAssumption == FkModes \subseteq BOOLEAN

VARIABLES past, since, window

hist == <<past, since, window>>
vars == <<db, local, hist>>

Store == INSTANCE AdminStore

Now == Len(past)

Init ==
  /\ Store!Init
  /\ HelperInit
  /\ past = <<Seed>>
  /\ since = [h \in HelperId |-> 1]
  /\ window = [h \in HelperId |-> <<1, 1>>]

\* A transaction of the admin UI commits.  A UUID that was once a rule's is no
\* other rule's later.
Edit ==
  /\ Now < MaxVersions
  /\ Store!Next
  /\ db' # db
  /\ \A i \in 1 .. Now :
       (RuleIds(db') \ RuleIds(db)) \cap RuleIds(past[i]) = {}
  /\ past' = Append(past, db')
  /\ UNCHANGED <<local, since, window>>

\* A load may read anything from the version it begins at on.
Launch(h) ==
  Start(h) /\ since' = [since EXCEPT ![h] = Now] /\ UNCHANGED <<db, past, window>>

Line(h) == \E client \in Client, target \in Target, stale \in BOOLEAN :
  /\ Receive(h, client, target, stale)
  /\ since' = [since EXCEPT ![h] = IF stale THEN Now ELSE @]
  /\ UNCHANGED <<db, past, window>>

Loaded(h) ==
  /\ QueryRules(h)
  /\ window' = [window EXCEPT ![h] = <<since[h], Now>>]
  /\ UNCHANGED <<db, past, since>>

Listed(h) == QuerySources(h) /\ UNCHANGED <<db, hist>>

Other(h) ==
  /\ BadRule(h) \/ Decide(h) \/ Panic(h)
  /\ UNCHANGED <<db, hist>>

Locked(h) == QueryFails(h) /\ UNCHANGED <<db, hist>>

Next ==
  \/ Edit
  \/ \E h \in HelperId : Launch(h) \/ Line(h) \/ Listed(h) \/ Loaded(h)
                            \/ Other(h) \/ Locked(h)

Spec == Init /\ [][Next]_vars

\* A line that finds the configuration over a second old.
StaleLine(h) == Line(h) /\ pc'[h] = "querySources"

\* Processes run, squid restarts a helper that died, and sends it lines now and
\* then, with pauses of more than a second among them.  A commit holds the file
\* for a moment, and the driver waits five seconds for it: queries do not find it
\* locked every time.
FairSpec ==
  /\ Spec
  /\ \A h \in HelperId :
       /\ WF_vars(Other(h))
       /\ SF_vars(Listed(h)) /\ SF_vars(Loaded(h))
       /\ WF_vars(Launch(h))
       /\ SF_vars(StaleLine(h))

-----------------------------------------------------------------------------
TypeOK ==
  /\ pc \in [HelperId -> {"down", "querySources", "queryRules", "ready", "decide"}]
  /\ read \in [HelperId -> SUBSET (Address \X RuleId)]
  /\ cfg \in [HelperId ->
       [sources : Seq(Address \X RuleId), rules : SUBSET (RuleId \X Rule)]]
  /\ line \in [HelperId -> (Client \X Target) \cup {Nothing}]
  /\ answer \in [HelperId -> [ok : BOOLEAN, logged : BOOLEAN] \cup {Nothing}]
  /\ past \in Seq(DB) /\ past # <<>> /\ past[Now] = db
  /\ since \in [HelperId -> 1 .. Now]
  /\ window \in [HelperId -> (1 .. Now) \X (1 .. Now)]

\* What the configuration means, without lists and loads: the actions of the
\* matching rules of the most specific sources that have one; "block" if none has.
\* `granted' are the sources' rules, `rules' the rules.
Meaning(granted, rules, client, target) ==
  LET hits == {x \in granted \X rules :
                 /\ x[1][1] \in Parses /\ client \in Covers[x[1][1]]
                 /\ x[2][1] = x[1][2] /\ target \in Hits[x[2][2].match]}
      best == {x \in hits : \A y \in hits : Prefix[y[1][1]] <= Prefix[x[1][1]]}
  IN  IF target \in CacheObject THEN {"ignore"}
      ELSE IF hits = {} THEN {"block"}
      ELSE {x[2][2].action : x \in best}

\* Every answer is the one that grants of a version v and rules of a version w no
\* older than v call for, both within the load in use: a request is allowed only
\* if the admin's rules say so, the most specific source first, and a line that
\* found the configuration stale is answered from what was committed before it
\* came or later, unless the reload failed.
Explained ==
  [][\A h \in HelperId :
       pc[h] = "decide" /\ pc'[h] = "ready" /\ line[h][2] \notin Malformed =>
         \E v \in window[h][1] .. window[h][2], w \in window[h][1] .. window[h][2] :
           /\ v <= w
           /\ \E act \in Meaning(Join(past[v]), past[w].rules, line[h][1], line[h][2]) :
                answer'[h] = Reply(act)]_vars

\* A helper dies of a request only if a rule was deleted between the two queries
\* of its load: no other edit, and nothing about the request, ends it.
PanicsOnlyIfTorn ==
  [][\A h \in HelperId : pc[h] = "decide" /\ pc'[h] = "down" =>
       \E v, w \in window[h][1] .. window[h][2] :
         v < w /\ ~(RuleIds(past[v]) \subseteq RuleIds(past[w]))]_vars

\* "decide returns 'match found', 'action to take', error": it returns.
NeverPanics ==
  [][\A h \in HelperId : pc[h] = "decide" => pc'[h] # "down"]_vars

\* When the admin stops editing and every rule compiles, each helper ends up
\* answering from what the admin left, whatever its loads met before.
UpToDate(h) ==
  /\ ToSet(cfg[h].sources) = {row \in Join(db) : row[1] \in Parses}
  /\ cfg[h].rules = db.rules
CatchesUp ==
  \A h \in HelperId :
    <>[]Compilable(db.rules) => <>[](pc[h] = "decide" => UpToDate(h))
=============================================================================
