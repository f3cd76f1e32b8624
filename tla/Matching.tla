------------------------------ MODULE Matching ------------------------------
(***************************************************************************)
(* Which requests a rule matches (the Check methods in                     *)
(* cmd/helper/helper.go), what the main page makes of a blocked request    *)
(* (parseLogEntry and host2domain in cmd/ui/ui.go), and the rules its      *)
(* buttons offer (tailLogRow in cmd/ui/static/main.js).                    *)
(*                                                                         *)
(* What stands between a URL's slashes, and the value of a rule, is a text *)
(* [host, port].  A host is a name, a name with a dot before it, an        *)
(* address, an address in brackets or a net; a name is the sequence of its *)
(* labels.                                                                 *)
(***************************************************************************)
EXTENDS Naturals, Sequences, SequencesExt, FiniteSetsExt

CONSTANTS Names,         \* names in requests
          PublicSuffix,  \* the names on the public suffix list
          V4, V6,        \* addresses in requests
          Nets,          \* nets in rules, as the sets of their addresses
          Ports,         \* ports in requests
          Paths,         \* the rest of a URL
          Regexes,       \* regular expressions, as the sets of URLs they match
          MaxRules       \* bound: rules made

NoPort == 0
AnyPort == 65536  \* written *

ASSUME MatchingAssumption ==
  /\ \A n \in Names \cup PublicSuffix : n \in Seq(STRING) /\ n # <<>>
  /\ V4 \cap V6 = {}
  /\ \A net \in Nets : net \subseteq V4 \cup V6
  /\ \A p \in Ports : p \in Nat /\ NoPort < p /\ p < AnyPort
  /\ MaxRules \in Nat

Name(n) == [kind |-> "name", of |-> n]
DotName(n) == [kind |-> "dot", of |-> n]
Addr(a) == [kind |-> "addr", of |-> a]
Bracketed(a) == [kind |-> "brackets", of |-> a]
Net(net) == [kind |-> "net", of |-> net]

\* A request as squid writes it: an address of version 6 is in brackets in a URL;
\* CONNECT always states a port.
Hosts == {Name(n) : n \in Names} \cup {Addr(a) : a \in V4} \cup {Bracketed(a) : a \in V6}
Get(proto) ==
  [proto : {proto}, method : {"GET"}, path : Paths,
   at : [host : Hosts, port : Ports \cup {NoPort}]]
Connect == [proto : {"NONE"}, method : {"CONNECT"}, path : {""},
            at : [host : Hosts, port : Ports]]
Request == Get("HTTP") \cup Get("FTP") \cup Connect

-----------------------------------------------------------------------------
(* Check.                                                                    *)

Literal(host) == IF host.kind = "brackets" THEN Addr(host.of) ELSE host

\* net.SplitHostPort of a text with a port.
SplitHostPort(t) == [t EXCEPT !.host = Literal(@)]

splitHostPortDefault(t, def) ==
  IF t.port = NoPort THEN [t EXCEPT !.port = def] ELSE SplitHostPort(t)

SamePort(rule, asked) == rule.port = AnyPort \/ rule.port = asked.port

\* Mutant: only subdomains.
SameHost_ProperOnly(rule, asked) ==
  \/ rule = asked
  \/ rule.kind = "net" /\ asked.kind = "addr" /\ asked.of \in rule.of
  \/ rule.kind = "dot" /\ asked.kind = "name" /\ IsStrictSuffix(rule.of, asked.of)

\* The host itself, an address of the net, the domain or a name in it.
SameHost(rule, asked) ==
  \/ rule = asked
  \/ rule.kind = "net" /\ asked.kind = "addr" /\ asked.of \in rule.of
  \/ rule.kind = "dot" /\ asked.kind = "name" /\ IsSuffix(rule.of, asked.of)

DomainRule(value, r) ==
  /\ r.proto = "HTTP"
  /\ LET rule == splitHostPortDefault(value, 80)
         asked == splitHostPortDefault(r.at, 80)
     IN  SamePort(rule, asked) /\ SameHost(rule.host, asked.host)

HTTPSDomainRule(value, r) ==
  /\ r.proto = "NONE" /\ r.method = "CONNECT"
  /\ LET rule == splitHostPortDefault(value, 443)
         asked == SplitHostPort(r.at)
     IN  SamePort(rule, asked) /\ SameHost(rule.host, asked.host)

URL(r) == [proto |-> r.proto, at |-> r.at, path |-> r.path]

ExactRule(value, r) == r.proto = "HTTP" /\ value = URL(r)
RegexRule(value, r) == r.proto = "HTTP" /\ URL(r) \in value
HTTPSRegexRule(value, r) == r.proto = "NONE" /\ URL(r) \in value

Check(rule, r) ==
  \/ rule.type = "domain" /\ DomainRule(rule.value, r)
  \/ rule.type = "https-domain" /\ HTTPSDomainRule(rule.value, r)
  \/ rule.type = "exact" /\ ExactRule(rule.value, r)
  \/ rule.type = "regex" /\ RegexRule(rule.value, r)
  \/ rule.type = "https-regex" /\ HTTPSRegexRule(rule.value, r)

-----------------------------------------------------------------------------
(* The row of a blocked request, and its buttons.                            *)

\* How many labels of a name with a port, or without, are its public suffix: what
\* the list has, or else the last label.  The list has no label with a port.
SuffixLen(n, port) ==
  Max({1} \cup {Len(s) : s \in {p \in PublicSuffix : port = NoPort /\ IsSuffix(p, n)}})

\* Mutant: the last two labels.
EffectiveTLDPlusOne_TwoLabels(t) ==
  [t EXCEPT !.host = DotName(SubSeq(@.of, Len(@.of) - 1, Len(@.of)))]

\* publicsuffix.EffectiveTLDPlusOne of a name with more labels than its suffix.
EffectiveTLDPlusOne(t) ==
  [t EXCEPT !.host = DotName(SubSeq(@.of, Len(@.of) - SuffixLen(@.of, t.port), Len(@.of)))]

HasRegistered(t) == t.host.kind = "name" /\ Len(t.host.of) > SuffixLen(t.host.of, t.port)

host2domain(t) ==
  IF Literal(t.host).kind = "addr" /\ (t.port # NoPort \/ t.host.kind = "addr")
  THEN [host |-> Literal(t.host), port |-> NoPort]
  ELSE IF HasRegistered(t) THEN EffectiveTLDPlusOne(t) ELSE t

\* Mutant: the port of CONNECT is always dropped.
LogHost_NoPort(r) ==
  IF r.method = "CONNECT" THEN [host |-> Literal(r.at.host), port |-> NoPort] ELSE r.at

\* parseLogEntry: the host of a URL as it is, of CONNECT without port 443.
LogHost(r) ==
  IF r.method = "CONNECT" /\ r.at.port = 443
  THEN [host |-> Literal(r.at.host), port |-> NoPort] ELSE r.at

\* Mutant: "Path" for every row.
Buttons_All(r) == {"Domain", "Host", "Path"}

\* tailLogRow: a button's rule.  CONNECT has no Path.
Buttons(r) == {"Domain", "Host"} \cup (IF r.method = "CONNECT" THEN {} ELSE {"Path"})

Offer(r, button) ==
  IF button = "Path" THEN [type |-> "exact", value |-> URL(r)]
  ELSE [type |-> IF r.method = "CONNECT" THEN "https-domain" ELSE "domain",
        value |-> IF button = "Host" THEN LogHost(r) ELSE host2domain(LogHost(r))]

-----------------------------------------------------------------------------
VARIABLES rows,  \* the requests that were blocked since the table was emptied
          made   \* the rules made of rows: [rule, row, button], and typed ones

vars == <<rows, made>>

Init == rows = {} /\ made = {}

\* A request no rule matches is blocked; the table shows the latest first, here
\* only that one.
Ask(r) ==
  /\ \A m \in made : ~Check(m.rule, r)
  /\ rows' = {r}
  /\ UNCHANGED made

Make(m) ==
  /\ Cardinality(made) < MaxRules
  /\ made' = made \cup {m}
  /\ UNCHANGED rows

\* A click on a button of a row.
Click(r, button) ==
  /\ r \in rows /\ button \in Buttons(r)
  /\ Make([rule |-> Offer(r, button), row |-> r, button |-> button])

\* The admin types a rule on the page of an ACL.
Typed ==
  LET values == [host : {Net(net) : net \in Nets} \cup {DotName(n) : n \in PublicSuffix}
                        \cup {Addr(a) : a \in V6},
                 port : Ports \cup {NoPort, AnyPort}]
  IN  [type : {"domain", "https-domain"}, value : values]
        \cup [type : {"regex", "https-regex"}, value : Regexes]
Type(rule) == Make([rule |-> rule, row |-> <<>>, button |-> "typed"])

Next ==
  \/ \E r \in Request : Ask(r)
  \/ \E r \in rows : \E button \in Buttons(r) : Click(r, button)
  \/ \E rule \in Typed : Type(rule)

Spec == Init /\ [][Next]_vars

-----------------------------------------------------------------------------
(* What the parts of a request and of a value mean, whatever their spelling. *)

Port(r) == IF r.at.port # NoPort THEN r.at.port ELSE 80
Host(r) == Literal(r.at.host)

Default(type) == IF type = "domain" THEN 80 ELSE 443
PortsOf(rule) ==
  CASE rule.value.port = AnyPort -> Ports \cup {80}
    [] rule.value.port = NoPort -> {Default(rule.type)}
    [] OTHER -> {rule.value.port}

HostsOf(value) ==
  CASE value.host.kind = "dot" -> {Name(n) : n \in {m \in Names : IsSuffix(value.host.of, m)}}
    [] value.host.kind = "net" -> {Addr(a) : a \in value.host.of}
    [] OTHER -> {Literal(value.host)}

TypeFor(r) ==
  CASE r.proto = "HTTP" -> "domain" [] r.proto = "NONE" -> "https-domain" [] OTHER -> "none"

Means(rule, r) ==
  rule.type = TypeFor(r) /\ Host(r) \in HostsOf(rule.value) /\ Port(r) \in PortsOf(rule)

\* An address in brackets without a port keeps them: it is equal to itself only.
KeepsBrackets(t) == t.host.kind = "brackets" /\ t.port = NoPort

Clicked == {m \in made : m.button # "typed"}

TypeOK ==
  /\ rows \subseteq Request
  /\ \A m \in Clicked : m.row \in Request /\ m.button \in {"Domain", "Host", "Path"}
  /\ \A m \in Clicked :
       m.rule.type = "exact" => m.rule.value \in [proto : {"HTTP", "FTP"}, at : [host : Hosts,
                                   port : Ports \cup {NoPort}], path : Paths]
  /\ Cardinality(made) <= MaxRules

\* A rule by domain, typed or clicked, matches the requests to the hosts its value
\* means ("If rule is CIDR, allow anything in it") on the ports it means ("If query
\* doesn't have port, assume port 80"), and no others, except where one of the two
\* is an address that keeps its brackets.
ChecksAsMeant ==
  \A m \in made, r \in Request :
    /\ m.rule.type \in {"domain", "https-domain"}
    /\ ~KeepsBrackets(m.rule.value) /\ ~KeepsBrackets(r.at)
    => (Check(m.rule, r) <=> Means(m.rule, r))

\* The request a rule was made from is not blocked again, except that no rule
\* matches FTP, and that "Domain" forgets the port of an address.
OffersMatch ==
  \A m \in Clicked :
    \/ Check(m.rule, m.row)
    \/ m.row.proto = "FTP"
    \/ /\ m.button = "Domain" /\ Host(m.row).kind = "addr"
       /\ Port(m.row) # Default(m.rule.type)

\* The domain someone registered that a host is in, or else the host alone.
Registered(n) ==
  LET len == SuffixLen(n, NoPort)
  IN  IF Len(n) > len
      THEN {m \in Names : IsSuffix(SubSeq(n, Len(n) - len, Len(n)), m)} ELSE {n}
Neighbours(host) ==
  IF host.kind = "name" THEN {Name(n) : n \in Registered(host.of)} ELSE {host}

Stays(m) ==
  \A r \in Request : Check(m.rule, r) =>
    /\ r.proto = m.row.proto \/ m.row.proto = "FTP"
    /\ Host(r) \in IF m.button = "Domain" THEN Neighbours(Host(m.row)) ELSE {Host(m.row)}

\* A clicked rule lets nothing else through than requests to the same host, or for
\* "Domain" to its registered domain, by the same protocol, or by HTTP if the row is
\* of FTP; of a host with a port this holds only if the suffix it is registered
\* under has one label.
OffersStay ==
  \A m \in Clicked :
    \/ Stays(m)
    \/ /\ m.button = "Domain" /\ LogHost(m.row).port # NoPort
       /\ SuffixLen(Host(m.row).of, NoPort) > 1

\* "given a FQDN, return from the registered domain and on. Also support IP literals
\* and with ports."
RegisteredDomain ==
  \A m \in Clicked :
    m.button = "Domain" /\ HasRegistered([m.row.at EXCEPT !.port = NoPort]) => Stays(m)
=============================================================================
