--------------------------- MODULE MatchingProofs ---------------------------
(***************************************************************************)
(* What rules match and what the buttons of the main page offer, for every *)
(* set of hosts, ports, nets and public suffixes: proofs that TLAPS        *)
(* checks.                                                                 *)
(*                                                                         *)
(* The invariant is how every rule was made: typed, or by a button of the  *)
(* row of some request (MadeInv).  The rest is about one rule at a time.   *)
(***************************************************************************)
EXTENDS Matching, FiniteSetTheorems, NaturalsInduction, WellFoundedInduction, TLAPS

ByButton(m) ==
  \E r \in Request : \E button \in Buttons(r) :
    m = [rule |-> Offer(r, button), row |-> r, button |-> button]
ByHand(m) == \E rule \in Typed : m = [rule |-> rule, row |-> <<>>, button |-> "typed"]

MadeInv == rows \subseteq Request /\ \A m \in made : ByButton(m) \/ ByHand(m)

\* Every rule was typed or offered by a row.
LEMMA MadeInvHolds == Spec => []MadeInv
<1>1. Init => MadeInv
  BY DEF Init, MadeInv
<1>2. MadeInv /\ [Next]_vars => MadeInv'
  <2> SUFFICES ASSUME MadeInv, [Next]_vars PROVE MadeInv'
    OBVIOUS
  <2>1. ASSUME NEW r \in Request, Ask(r) PROVE MadeInv'
    BY <2>1 DEF MadeInv, Ask, ByButton, ByHand
  <2>2. ASSUME NEW r \in rows, NEW button \in Buttons(r), Click(r, button) PROVE MadeInv'
    <3> DEFINE m == [rule |-> Offer(r, button), row |-> r, button |-> button]
    <3>1. ByButton(m)
      BY Zenon DEF MadeInv, ByButton
    <3>2. made' = made \cup {m} /\ rows' = rows
      BY <2>2 DEF Click, Make
    <3> HIDE DEF m
    <3> QED BY <3>1, <3>2 DEF MadeInv, ByButton, ByHand
  <2>3. ASSUME NEW rule \in Typed, Type(rule) PROVE MadeInv'
    <3> DEFINE m == [rule |-> rule, row |-> <<>>, button |-> "typed"]
    <3>1. ByHand(m)
      BY Zenon DEF ByHand
    <3>2. made' = made \cup {m} /\ rows' = rows
      BY <2>3 DEF Type, Make
    <3> HIDE DEF m
    <3> QED BY <3>1, <3>2 DEF MadeInv, ByButton, ByHand
  <2>4. CASE UNCHANGED vars
    BY <2>4 DEF vars, MadeInv, ByButton, ByHand
  <2> QED BY <2>1, <2>2, <2>3, <2>4 DEF Next
<1> QED BY <1>1, <1>2, PTL DEF Spec

-----------------------------------------------------------------------------
(* Texts.                                                                    *)

IsHost(h) ==
  /\ h = [kind |-> h.kind, of |-> h.of]
  /\ h.kind \in {"name", "dot", "addr", "brackets", "net"}
IsText(t) == t = [host |-> t.host, port |-> t.port] /\ IsHost(t.host) /\ t.port \in Nat

\* Ports are numbers, and none of them stands for no port or any.
LEMMA PortNumbers == Ports \subseteq Nat /\ NoPort \notin Ports /\ NoPort \in Nat /\ AnyPort \in Nat
<1>1. \A p \in Ports : p \in Nat /\ NoPort < p
  BY MatchingAssumption
<1> QED BY <1>1 DEF NoPort, AnyPort

\* Where a request goes.
LEMMA RequestParts ==
  ASSUME NEW r \in Request
  PROVE  /\ r.at \in [host : Hosts, port : Ports \cup {NoPort}]
         /\ r.proto \in {"HTTP", "FTP", "NONE"}
         /\ r.method \in {"GET", "CONNECT"}
         /\ r.method = "CONNECT" <=> r.proto = "NONE"
         /\ r.method = "CONNECT" => r.at.port \in Ports /\ r.at.port # NoPort
<1>1. CASE r \in Get("HTTP") \/ r \in Get("FTP")
  BY <1>1 DEF Get
<1>2. CASE r \in Connect
  BY <1>2, PortNumbers DEF Connect
<1> QED BY <1>1, <1>2 DEF Request

\* A host of a request is a name or an address, in brackets or not.
LEMMA HostParts ==
  ASSUME NEW h \in Hosts
  PROVE  \/ h.kind = "name" /\ h.of \in Names /\ h = Name(h.of)
         \/ h.kind = "addr" /\ h.of \in V4 /\ h = Addr(h.of)
         \/ h.kind = "brackets" /\ h.of \in V6 /\ h = Bracketed(h.of)
BY DEF Hosts, Name, Addr, Bracketed

\* So what stands between a URL's slashes is a text.
LEMMA RequestText == ASSUME NEW r \in Request PROVE IsText(r.at)
<1>1. r.at \in [host : Hosts, port : Ports \cup {NoPort}]
  BY RequestParts
<1>2. IsHost(r.at.host)
  BY <1>1, HostParts DEF IsHost, Name, Addr, Bracketed
<1>3. r.at.port \in Nat
  BY <1>1, PortNumbers
<1> QED BY <1>1, <1>2, <1>3 DEF IsText

\* What the programs make of a text is a text.
LEMMA LiteralHost == ASSUME NEW h, IsHost(h) PROVE IsHost(Literal(h))
BY DEF IsHost, Literal, Addr

\* What the table shows of it is one too.
LEMMA LogHostText == ASSUME NEW r \in Request PROVE IsText(LogHost(r))
<1>1. IsText(r.at)
  BY RequestText
<1> QED BY <1>1, LiteralHost DEF IsText, LogHost, NoPort

\* And so is what host2domain makes of that.
LEMMA DomainText == ASSUME NEW t, IsText(t) PROVE IsText(host2domain(t))
<1>1. CASE host2domain(t) = [host |-> Literal(t.host), port |-> NoPort]
  BY <1>1, LiteralHost DEF IsText, NoPort
<1>2. CASE host2domain(t) = EffectiveTLDPlusOne(t)
  <2> DEFINE n == SubSeq(t.host.of, Len(t.host.of) - SuffixLen(t.host.of, t.port), Len(t.host.of))
  <2>1. EffectiveTLDPlusOne(t) = [t EXCEPT !.host = DotName(n)]
    BY DEF EffectiveTLDPlusOne
  <2> HIDE DEF n
  <2> QED BY <1>2, <2>1 DEF IsText, IsHost, DotName
<1>3. CASE host2domain(t) = t
  BY <1>3
<1> QED BY <1>1, <1>2, <1>3 DEF host2domain

\* The value of a rule by domain is a text.
LEMMA ValueText ==
  ASSUME NEW m, ByButton(m) \/ ByHand(m), m.rule.type \in {"domain", "https-domain"}
  PROVE  IsText(m.rule.value)
<1>1. CASE ByHand(m)
  <2>1. PICK rule \in Typed : m.rule = rule
    BY <1>1 DEF ByHand
  <2>2. rule.value \in [host : {Net(net) : net \in Nets} \cup {DotName(n) : n \in PublicSuffix}
                                \cup {Addr(a) : a \in V6},
                        port : Ports \cup {NoPort, AnyPort}]
    BY <2>1 DEF Typed
  <2>3. IsHost(rule.value.host)
    BY <2>2 DEF IsHost, Net, DotName, Addr
  <2>4. rule.value.port \in Nat
    BY <2>2, PortNumbers
  <2> QED BY <2>1, <2>2, <2>3, <2>4 DEF IsText
<1>2. CASE ByButton(m)
  <2>0. PICK r \in Request : \E button \in Buttons(r) : m.rule = Offer(r, button)
    BY <1>2 DEF ByButton
  <2>1. PICK button \in Buttons(r) : m.rule = Offer(r, button)
    BY <2>0
  <2>2. m.rule.value \in {LogHost(r), host2domain(LogHost(r))}
    BY <2>1 DEF Offer
  <2> QED BY <2>2, LogHostText, DomainText
<1> QED BY <1>1, <1>2

-----------------------------------------------------------------------------
(* Check.                                                                    *)

\* A host is in what the value means if Check finds it is, whatever its spelling.
LEMMA SameHostMeans ==
  ASSUME NEW t, IsText(t), NEW h \in Hosts
  PROVE  SameHost(Literal(t.host), Literal(h)) <=> Literal(h) \in HostsOf(t)
<1> DEFINE asked == Literal(h)
           rule == Literal(t.host)
<1>1. \/ asked.kind = "name" /\ asked.of \in Names /\ asked = Name(asked.of)
      \/ asked.kind = "addr" /\ asked = Addr(asked.of)
  BY HostParts DEF Literal, Name, Addr, Bracketed
<1>2. asked.kind \in {"name", "addr"}
  BY <1>1
<1>3. CASE t.host.kind = "dot"
  <2>1. HostsOf(t) = {Name(n) : n \in {m \in Names : IsSuffix(t.host.of, m)}}
    BY <1>3 DEF HostsOf
  <2>2. rule = t.host
    BY <1>3 DEF Literal
  <2> HIDE DEF asked, rule
  <2>3. SameHost(rule, asked) <=> asked.kind = "name" /\ IsSuffix(t.host.of, asked.of)
    BY <1>2, <1>3, <2>2 DEF SameHost
  <2>4. asked \in HostsOf(t) <=> asked.kind = "name" /\ IsSuffix(t.host.of, asked.of)
    BY <1>1, <2>1 DEF Name, Addr
  <2> QED BY <2>3, <2>4 DEF asked, rule
<1>4. CASE t.host.kind = "net"
  <2>1. HostsOf(t) = {Addr(a) : a \in t.host.of}
    BY <1>4 DEF HostsOf
  <2>2. rule = t.host
    BY <1>4 DEF Literal
  <2> HIDE DEF asked, rule
  <2>3. SameHost(rule, asked) <=> asked.kind = "addr" /\ asked.of \in t.host.of
    BY <1>2, <1>4, <2>2 DEF SameHost
  <2>4. asked \in HostsOf(t) <=> asked.kind = "addr" /\ asked.of \in t.host.of
    BY <1>1, <2>1 DEF Name, Addr
  <2> QED BY <2>3, <2>4 DEF asked, rule
<1>5. CASE t.host.kind \notin {"dot", "net"}
  <2>1. HostsOf(t) = {rule}
    BY <1>5 DEF HostsOf
  <2>2. rule.kind \notin {"dot", "net"}
    BY <1>5 DEF Literal, Addr
  <2> HIDE DEF asked, rule
  <2>3. SameHost(rule, asked) <=> asked = rule
    BY <2>2 DEF SameHost
  <2>4. asked \in HostsOf(t) <=> asked = rule
    BY <2>1
  <2> QED BY <2>3, <2>4 DEF asked, rule
<1> QED BY <1>3, <1>4, <1>5

\* A port is one of those the value means if Check finds it is.
LEMMA SamePortMeans ==
  ASSUME NEW rule, rule.type \in {"domain", "https-domain"}, IsText(rule.value), NEW r \in Request,
         r.proto = "NONE" <=> rule.type = "https-domain", r.proto # "FTP"
  PROVE  LET def == Default(rule.type)
             asked == splitHostPortDefault(r.at, def)
         IN  SamePort(splitHostPortDefault(rule.value, def), asked) <=> Port(r) \in PortsOf(rule)
<1> DEFINE def == Default(rule.type)
           asked == splitHostPortDefault(r.at, def)
           own == splitHostPortDefault(rule.value, def)
<1>1. IsText(r.at) /\ r.at.port \in Ports \cup {NoPort} /\ (r.proto = "NONE" => r.at.port # NoPort)
  BY RequestText, RequestParts
<1>2. asked.port = Port(r)
  BY <1>1 DEF splitHostPortDefault, SplitHostPort, IsText, Port, Default
<1>3. own.port = (IF rule.value.port = NoPort THEN def ELSE rule.value.port)
  BY DEF splitHostPortDefault, SplitHostPort, IsText
<1>4. Port(r) \in Ports \cup {80}
  BY <1>1 DEF Port
<1>5. def \in {80, 443} /\ AnyPort # NoPort /\ def # AnyPort
  BY DEF Default, AnyPort, NoPort
<1> HIDE DEF asked, own
<1>6. own.port = AnyPort \/ own.port = asked.port <=> Port(r) \in PortsOf(rule)
  BY <1>2, <1>3, <1>4, <1>5 DEF PortsOf
<1> QED BY <1>6 DEF SamePort, asked, own

\* What Check of a rule by domain comes to.
LEMMA CheckIs ==
  ASSUME NEW rule, rule.type \in {"domain", "https-domain"}, NEW r \in Request
  PROVE  LET def == Default(rule.type)
             asked == splitHostPortDefault(r.at, def)
             own == splitHostPortDefault(rule.value, def)
         IN  Check(rule, r) <=>
               /\ rule.type = TypeFor(r)
               /\ SamePort(own, asked) /\ SameHost(own.host, asked.host)
<1>1. /\ r.proto \in {"HTTP", "FTP", "NONE"}
      /\ r.method = "CONNECT" <=> r.proto = "NONE"
      /\ r.method = "CONNECT" => r.at.port # NoPort
  BY RequestParts
<1> QED BY <1>1 DEF Check, DomainRule, HTTPSDomainRule, TypeFor, Default, splitHostPortDefault

\* Check and the meaning of a rule by domain agree.
LEMMA CheckMeans ==
  ASSUME NEW rule, rule.type \in {"domain", "https-domain"}, IsText(rule.value), NEW r \in Request,
         ~KeepsBrackets(rule.value), ~KeepsBrackets(r.at)
  PROVE  Check(rule, r) <=> Means(rule, r)
<1> DEFINE def == Default(rule.type)
           asked == splitHostPortDefault(r.at, def)
           own == splitHostPortDefault(rule.value, def)
<1>1. /\ IsText(r.at) /\ r.at.host \in Hosts /\ r.proto \in {"HTTP", "FTP", "NONE"}
      /\ r.method = "CONNECT" <=> r.proto = "NONE"
      /\ r.method = "CONNECT" => r.at.port # NoPort
  BY RequestText, RequestParts
<1>2. Check(rule, r) <=>
        /\ rule.type = TypeFor(r)
        /\ SamePort(own, asked) /\ SameHost(own.host, asked.host)
  BY CheckIs
<1>3. asked.host = Literal(r.at.host) /\ own.host = Literal(rule.value.host)
  BY <1>1 DEF splitHostPortDefault, SplitHostPort, IsText, KeepsBrackets, Literal
<1>4. rule.type = TypeFor(r) => (SamePort(own, asked) <=> Port(r) \in PortsOf(rule))
  BY <1>1, SamePortMeans DEF TypeFor
<1> HIDE DEF own, asked
<1>5. SameHost(own.host, asked.host) <=> Host(r) \in HostsOf(rule.value)
  BY <1>1, <1>3, SameHostMeans DEF Host
<1> QED BY <1>2, <1>4, <1>5 DEF Means

\* A rule by domain, typed or clicked, matches the hosts and ports its value means and
\* no others (DomainRule.Check, HTTPSDomainRule.Check), whatever is left out or how it
\* is spelt, but for an address of version 6 that keeps its brackets.
THEOREM CheckedAsMeant == Spec => []ChecksAsMeant
<1>1. MadeInv => ChecksAsMeant
  BY ValueText, CheckMeans DEF MadeInv, ChecksAsMeant
<1> QED BY <1>1, MadeInvHolds, PTL

-----------------------------------------------------------------------------
(* Public suffixes.                                                          *)

\* A set of numbers that is bounded has a greatest.
LEMMA Greatest ==
  ASSUME NEW S, S \subseteq Nat, S # {}, NEW b \in Nat, \A i \in S : i <= b
  PROVE  \E i \in S : \A j \in S : i >= j
<1> DEFINE T == {b - i : i \in S}
<1>1. T \subseteq Nat /\ T # {}
  <2>1. ASSUME NEW i \in S PROVE b - i \in Nat
    <3>1. i \in Nat /\ i <= b
      OBVIOUS
    <3> QED BY <3>1
  <2> QED BY <2>1
<1>2. PICK k \in T : \A j \in T : <<j, k>> \notin OpToRel(<, Nat)
  <2> HIDE DEF T
  <2> QED BY <1>1, NatLessThanWellFounded, WFMin
<1>3. ASSUME NEW j \in T PROVE k <= j
  <2>1. k \in Nat /\ j \in Nat
    BY <1>1, <1>2
  <2>2. <<j, k>> \in Nat \X Nat /\ <<j, k>>[1] = j /\ <<j, k>>[2] = k
    BY <2>1
  <2>3. ~(<<j, k>>[1] < <<j, k>>[2])
    BY <1>2, <2>2, Zenon DEF OpToRel
  <2> QED BY <2>1, <2>2, <2>3
<1>4. PICK i \in S : k = b - i
  BY <1>2
<1>5. ASSUME NEW j \in S PROVE i >= j
  <2>1. b - j \in T /\ i \in Nat /\ j \in Nat
    BY <1>4
  <2>2. k <= b - j
    BY <1>3, <2>1
  <2> QED BY <1>4, <2>1, <2>2
<1> QED BY <1>5

\* Reverse reverses.
LEMMA ReverseLen ==
  ASSUME NEW S, NEW s \in Seq(S)
  PROVE  Len(Reverse(s)) = Len(s) /\ Reverse(s) \in Seq(S)
         /\ \A i \in 1 .. Len(s) : Reverse(s)[i] = s[(Len(s) - i) + 1]
BY DEF Reverse

\* A suffix is no longer than what it ends.
LEMMA SuffixShorter ==
  ASSUME NEW s \in Seq(STRING), NEW t \in Seq(STRING), IsSuffix(s, t)
  PROVE  Len(s) <= Len(t)
BY ReverseLen DEF IsSuffix, IsPrefix

\* The last labels of a name are a suffix of it.
LEMMA EndIsSuffix ==
  ASSUME NEW t \in Seq(STRING), NEW k \in Nat, k < Len(t)
  PROVE  IsSuffix(SubSeq(t, Len(t) - k, Len(t)), t)
<1> DEFINE s == SubSeq(t, Len(t) - k, Len(t))
<1>1. /\ Len(t) \in Nat /\ s \in Seq(STRING) /\ Len(s) = k + 1
      /\ \A i \in 1 .. k + 1 : s[i] = t[(Len(t) - k) + i - 1]
  OBVIOUS
<1> HIDE DEF s
<1>2. /\ Len(Reverse(s)) = k + 1 /\ Reverse(s) \in Seq(STRING)
      /\ \A i \in 1 .. k + 1 : Reverse(s)[i] = s[((k + 1) - i) + 1]
  <2>1. /\ Len(Reverse(s)) = Len(s) /\ Reverse(s) \in Seq(STRING)
        /\ \A i \in 1 .. Len(s) : Reverse(s)[i] = s[(Len(s) - i) + 1]
    BY <1>1, ReverseLen
  <2> QED BY <1>1, <2>1
<1>3. /\ Len(Reverse(t)) = Len(t) /\ Reverse(t) \in Seq(STRING)
      /\ \A i \in 1 .. Len(t) : Reverse(t)[i] = t[(Len(t) - i) + 1]
  BY <1>1, ReverseLen
<1>4. ASSUME NEW i \in 1 .. k + 1 PROVE Reverse(s)[i] = Reverse(t)[i]
  <2>1. ((k + 1) - i) + 1 \in 1 .. k + 1 /\ i \in 1 .. Len(t)
    BY <1>1
  <2>2. Reverse(s)[i] = t[(Len(t) - k) + (((k + 1) - i) + 1) - 1]
    BY <1>1, <1>2, <2>1
  <2>3. (Len(t) - k) + (((k + 1) - i) + 1) - 1 = (Len(t) - i) + 1
    BY <1>1
  <2> QED BY <1>3, <2>1, <2>2, <2>3
<1> DEFINE rs == Reverse(s)
           rt == Reverse(t)
<1>5. /\ rs \in Seq(STRING) /\ Len(rs) = k + 1 /\ rt \in Seq(STRING) /\ k + 1 <= Len(rt)
      /\ \A i \in 1 .. k + 1 : rs[i] = rt[i]
  BY <1>1, <1>2, <1>3, <1>4
<1> HIDE DEF rs, rt
<1>6. SubSeq(rs, 1, k + 1) = SubSeq(rt, 1, k + 1)
  BY <1>5
<1>7. IsPrefix(rs, rt)
  BY <1>5, <1>6 DEF IsPrefix
<1> QED BY <1>7 DEF IsSuffix, rs, rt, s

\* Some label is the public suffix, and of a name with a port only the last.
LEMMA SuffixLenIs ==
  ASSUME NEW n \in Names, NEW port
  PROVE  /\ SuffixLen(n, port) \in Nat /\ SuffixLen(n, port) >= 1
         /\ port # NoPort => SuffixLen(n, port) = 1
<1> DEFINE known == {p \in PublicSuffix : port = NoPort /\ IsSuffix(p, n)}
           S == {1} \cup {Len(s) : s \in known}
<1>1. n \in Seq(STRING) /\ n # <<>> /\ \A p \in PublicSuffix : p \in Seq(STRING)
  BY MatchingAssumption
<1>2. ASSUME NEW i \in S PROVE i \in Nat /\ i <= Len(n)
  <2>1. CASE i = 1
    BY <1>1, <2>1
  <2>2. CASE \E s \in known : i = Len(s)
    BY <1>1, <2>2, SuffixShorter
  <2> QED BY <2>1, <2>2
<1>3. Len(n) \in Nat /\ 1 \in S
  BY <1>1
<1>4. port # NoPort => S = {1}
  OBVIOUS
<1>5. SuffixLen(n, port) = Max(S)
  BY DEF SuffixLen
<1> HIDE DEF S
<1>6. \E i \in S : \A j \in S : i >= j
  BY <1>2, <1>3, Greatest
<1>7. Max(S) \in S /\ \A j \in S : Max(S) >= j
  BY <1>6 DEF Max
<1> QED BY <1>2, <1>3, <1>4, <1>5, <1>7

-----------------------------------------------------------------------------
(* Offers.                                                                   *)

\* The type of the rule by domain a row offers.
DomainType(r) == IF r.method = "CONNECT" THEN "https-domain" ELSE "domain"

\* That type is for the protocol the row was asked by, and FTP has none.
LEMMA TypeIs ==
  ASSUME NEW r \in Request
  PROVE  /\ DomainType(r) \in {"domain", "https-domain"}
         /\ Default(DomainType(r)) = (IF r.method = "CONNECT" THEN 443 ELSE 80)
         /\ r.proto # "FTP" => TypeFor(r) = DomainType(r)
         /\ \A other \in Request : TypeFor(other) = DomainType(r) =>
              other.proto = r.proto \/ r.proto = "FTP"
BY RequestParts DEF DomainType, Default, TypeFor

\* The text of a row is, with the port it leaves out, the one that was asked for.
LEMMA OwnHost ==
  ASSUME NEW r \in Request
  PROVE  LET def == Default(DomainType(r)) IN
         splitHostPortDefault(LogHost(r), def) = splitHostPortDefault(r.at, def)
<1> DEFINE def == Default(DomainType(r))
<1>1. /\ IsText(r.at) /\ (r.method = "CONNECT" => r.at.port # NoPort) /\ NoPort \in Nat
      /\ (r.method = "CONNECT" => def = 443)
  BY RequestText, RequestParts, TypeIs, PortNumbers
<1>2. CASE r.method = "CONNECT" /\ r.at.port = 443
  <2>1. LogHost(r) = [host |-> Literal(r.at.host), port |-> NoPort]
    BY <1>2 DEF LogHost
  <2>2. splitHostPortDefault(LogHost(r), def) = [host |-> Literal(r.at.host), port |-> 443]
    BY <1>1, <1>2, <2>1 DEF splitHostPortDefault
  <2>3. splitHostPortDefault(r.at, def) = [host |-> Literal(r.at.host), port |-> 443]
    BY <1>1, <1>2 DEF splitHostPortDefault, SplitHostPort, IsText
  <2> QED BY <2>2, <2>3
<1>3. CASE ~(r.method = "CONNECT" /\ r.at.port = 443)
  BY <1>3 DEF LogHost
<1> QED BY <1>2, <1>3

\* A text asked for with its default port, its host and its port.
LEMMA AskedParts ==
  ASSUME NEW r \in Request, NEW def \in Nat
  PROVE  LET asked == splitHostPortDefault(r.at, def) IN
         /\ asked.port = (IF r.at.port = NoPort THEN def ELSE r.at.port)
         /\ asked.host = (IF r.at.port = NoPort THEN r.at.host ELSE Literal(r.at.host))
         /\ Literal(asked.host) = Host(r) /\ asked.host.kind \in {"name", "addr", "brackets"}
         /\ r.at.host.kind = "name" => asked.host = r.at.host
<1>1. IsText(r.at) /\ r.at.host \in Hosts
  BY RequestText, RequestParts
<1>2. /\ Literal(Literal(r.at.host)) = Literal(r.at.host)
      /\ r.at.host.kind \in {"name", "addr", "brackets"}
      /\ Literal(r.at.host).kind \in {"name", "addr", "brackets"}
      /\ r.at.host.kind = "name" => Literal(r.at.host) = r.at.host
  BY <1>1, HostParts DEF Literal, Addr
<1> QED BY <1>1, <1>2 DEF splitHostPortDefault, SplitHostPort, IsText, Host

\* The forms a row's host takes under "Domain".
LEMMA DomainForms ==
  ASSUME NEW r \in Request
  PROVE  LET t == LogHost(r) IN
         \/ /\ host2domain(t) = [host |-> Host(r), port |-> NoPort]
            /\ Host(r).kind = "addr" /\ (r.at.port = NoPort => r.at.host = Host(r))
         \/ /\ HasRegistered(t) /\ host2domain(t) = EffectiveTLDPlusOne(t)
            /\ r.at.host = Name(r.at.host.of) /\ r.at.host.of \in Names /\ t.host = r.at.host
         \/ host2domain(t) = t /\ ~HasRegistered(t)
<1> DEFINE t == LogHost(r)
<1>1. IsText(r.at) /\ r.at.host \in Hosts /\ (r.method = "CONNECT" => r.at.port # NoPort)
  BY RequestText, RequestParts
<1>2. /\ Literal(Literal(r.at.host)) = Literal(r.at.host)
      /\ r.at.host.kind \in {"name", "addr", "brackets"}
      /\ r.at.host.kind = "addr" => Literal(r.at.host) = r.at.host
      /\ r.at.host.kind # "name" => Literal(r.at.host).kind = "addr"
      /\ r.at.host.kind = "name" =>
           Literal(r.at.host) = r.at.host /\ r.at.host = Name(r.at.host.of) /\ r.at.host.of \in Names
  BY <1>1, HostParts DEF Literal, Addr
<1>3. \/ t = r.at
      \/ t = [host |-> Literal(r.at.host), port |-> NoPort] /\ r.at.port # NoPort
  <2>1. CASE r.method = "CONNECT" /\ r.at.port = 443
    BY <1>1, <2>1 DEF LogHost
  <2>2. CASE ~(r.method = "CONNECT" /\ r.at.port = 443)
    BY <2>2 DEF LogHost
  <2> QED BY <2>1, <2>2
<1>4. Literal(t.host) = Literal(r.at.host) /\ (t.port # NoPort => t = r.at)
  BY <1>2, <1>3
<1>5. CASE Literal(t.host).kind = "addr" /\ (t.port # NoPort \/ t.host.kind = "addr")
  <2>1. host2domain(t) = [host |-> Host(r), port |-> NoPort] /\ Host(r).kind = "addr"
    BY <1>4, <1>5 DEF host2domain, Host
  <2>2. r.at.port = NoPort => r.at.host = Host(r)
    BY <1>2, <1>3, <1>5 DEF Host
  <2> QED BY <2>1, <2>2
<1>6. CASE ~(Literal(t.host).kind = "addr" /\ (t.port # NoPort \/ t.host.kind = "addr"))
  <2>1. CASE HasRegistered(t)
    <3>1. t.host.kind = "name"
      BY <2>1 DEF HasRegistered
    <3>2. r.at.host.kind = "name" /\ t.host = r.at.host
      BY <1>2, <1>3, <3>1
    <3>3. host2domain(t) = EffectiveTLDPlusOne(t)
      BY <1>6, <2>1 DEF host2domain
    <3> QED BY <1>2, <2>1, <3>2, <3>3
  <2>2. CASE ~HasRegistered(t)
    <3>1. host2domain(t) = t
      BY <1>6, <2>2 DEF host2domain
    <3> QED BY <2>2, <3>1
  <2> QED BY <2>1, <2>2
<1> QED BY <1>5, <1>6

\* The registered domain of a name, with the port as it is.
LEMMA RegisteredParts ==
  ASSUME NEW r \in Request, LET t == LogHost(r) IN
           HasRegistered(t) /\ t.host = r.at.host /\ r.at.host.of \in Names
  PROVE  LET t == LogHost(r)
             n == r.at.host.of
             k == SuffixLen(n, t.port)
         IN  /\ EffectiveTLDPlusOne(t) = [host |-> DotName(SubSeq(n, Len(n) - k, Len(n))), port |-> t.port]
             /\ Len(n) > k /\ IsSuffix(SubSeq(n, Len(n) - k, Len(n)), n)
<1> DEFINE t == LogHost(r)
           n == r.at.host.of
           k == SuffixLen(n, t.port)
<1>1. IsText(t) /\ n \in Seq(STRING) /\ n \in Names /\ t.host.of = n
  BY LogHostText, MatchingAssumption
<1>2. Len(n) > k
  BY <1>1 DEF HasRegistered
<1>3. k \in Nat
  BY <1>1, SuffixLenIs
<1> HIDE DEF t, k, n
<1>4. IsSuffix(SubSeq(n, Len(n) - k, Len(n)), n)
  BY <1>1, <1>2, <1>3, EndIsSuffix
<1>5. EffectiveTLDPlusOne(t) = [host |-> DotName(SubSeq(n, Len(n) - k, Len(n))), port |-> t.port]
  BY <1>1 DEF EffectiveTLDPlusOne, IsText, k
<1> QED BY <1>2, <1>4, <1>5 DEF t, k, n

\* What the two buttons by domain offer.
LEMMA OfferIs ==
  ASSUME NEW r \in Request, NEW button \in Buttons(r)
  PROVE  /\ button \in {"Domain", "Host", "Path"}
         /\ button = "Path" =>
              Offer(r, button) = [type |-> "exact", value |-> URL(r)] /\ r.method # "CONNECT"
         /\ button # "Path" =>
              Offer(r, button).type = DomainType(r)
         /\ button = "Host" => Offer(r, button).value = LogHost(r)
         /\ button = "Domain" => Offer(r, button).value = host2domain(LogHost(r))
BY DEF Buttons, Offer, DomainType

\* A rule whose value is the row's text matches the row.
LEMMA OwnHostMatches ==
  ASSUME NEW r \in Request, r.proto # "FTP",
         NEW rule, rule.type = DomainType(r), rule.value = LogHost(r)
  PROVE  Check(rule, r)
<1>1. rule.type \in {"domain", "https-domain"} /\ rule.type = TypeFor(r)
  BY TypeIs
<1> DEFINE asked == splitHostPortDefault(r.at, Default(rule.type))
           own == splitHostPortDefault(rule.value, Default(rule.type))
<1>2. own = asked
  BY OwnHost
<1>3. Check(rule, r) <=> rule.type = TypeFor(r) /\ SamePort(own, asked) /\ SameHost(own.host, asked.host)
  BY <1>1, CheckIs
<1> HIDE DEF own, asked
<1> QED BY <1>1, <1>2, <1>3 DEF SamePort, SameHost

\* A button's rule matches the row it is in, but for the two exceptions of OffersMatch.
LEMMA OfferMatches ==
  ASSUME NEW r \in Request, NEW button \in Buttons(r), r.proto # "FTP",
         button = "Domain" /\ Host(r).kind = "addr" => Port(r) = Default(DomainType(r))
  PROVE  Check(Offer(r, button), r)
<1> DEFINE rule == Offer(r, button)
           def == Default(DomainType(r))
           t == LogHost(r)
<1>1. CASE button = "Path"
  <2>1. rule = [type |-> "exact", value |-> URL(r)] /\ r.proto = "HTTP"
    BY <1>1, OfferIs, RequestParts
  <2> QED BY <2>1 DEF Check, ExactRule
<1>2. CASE button = "Host"
  BY <1>2, OfferIs, OwnHostMatches
<1>3. CASE button = "Domain"
  <2>1. rule.type = DomainType(r) /\ rule.value = host2domain(t)
    BY <1>3, OfferIs
  <2> HIDE DEF rule
  <2>2. rule.type \in {"domain", "https-domain"} /\ rule.type = TypeFor(r) /\ def \in Nat
    BY <2>1, TypeIs
  <2>3. CASE host2domain(t) = t
    BY <2>1, <2>3, OwnHostMatches DEF rule
  <2>4. CASE /\ host2domain(t) = [host |-> Host(r), port |-> NoPort]
             /\ Host(r).kind = "addr" /\ (r.at.port = NoPort => r.at.host = Host(r))
    <3> DEFINE own == splitHostPortDefault(rule.value, def)
               asked == splitHostPortDefault(r.at, def)
    <3>1. own = [host |-> Host(r), port |-> def]
      BY <2>1, <2>4 DEF splitHostPortDefault
    <3>2. asked.port = Port(r) /\ asked.host = Host(r)
      <4>1. /\ asked.port = (IF r.at.port = NoPort THEN def ELSE r.at.port)
            /\ asked.host = (IF r.at.port = NoPort THEN r.at.host ELSE Literal(r.at.host))
        BY <2>2, AskedParts
      <4>2. r.at.port = NoPort => def = 80
        BY TypeIs, RequestParts
      <4> QED BY <2>4, <4>1, <4>2 DEF Port, Host
    <3>3. Port(r) = def
      BY <1>3, <2>4
    <3>4. SamePort(own, asked) /\ SameHost(own.host, asked.host)
      BY <3>1, <3>2, <3>3 DEF SamePort, SameHost
    <3> QED BY <2>1, <2>2, <3>4, CheckIs DEF rule
  <2>5. CASE /\ HasRegistered(t) /\ host2domain(t) = EffectiveTLDPlusOne(t)
             /\ r.at.host = Name(r.at.host.of) /\ r.at.host.of \in Names /\ t.host = r.at.host
    <3> DEFINE n == r.at.host.of
               k == SuffixLen(n, t.port)
               end == SubSeq(n, Len(n) - k, Len(n))
               own == splitHostPortDefault(rule.value, def)
               asked == splitHostPortDefault(r.at, def)
    <3>1. rule.value = [host |-> DotName(end), port |-> t.port] /\ IsSuffix(end, n)
      BY <2>1, <2>5, RegisteredParts
    <3> HIDE DEF end, k
    <3>2. own.host = DotName(end) /\ own.port = (IF t.port = NoPort THEN def ELSE t.port)
      BY <3>1 DEF splitHostPortDefault, SplitHostPort, Literal, DotName
    <3>3. splitHostPortDefault(t, def) = asked
      BY OwnHost
    <3>4. asked.port = (IF t.port = NoPort THEN def ELSE t.port)
      <4>1. IsText(t)
        BY LogHostText
      <4> HIDE DEF t
      <4> QED BY <3>3, <4>1 DEF splitHostPortDefault, SplitHostPort, IsText
    <3>5. asked.host = Name(n)
      <4>1. r.at.host.kind = "name"
        BY <2>5 DEF Name
      <4> QED BY <2>2, <2>5, <4>1, AskedParts
    <3> HIDE DEF own, asked
    <3>6. SamePort(own, asked) /\ SameHost(own.host, asked.host)
      BY <3>1, <3>2, <3>4, <3>5 DEF SamePort, SameHost, DotName, Name
    <3> QED BY <2>1, <2>2, <3>6, CheckIs DEF rule, own, asked
  <2> QED BY <2>3, <2>4, <2>5, DomainForms
<1> QED BY <1>1, <1>2, <1>3, OfferIs

\* A click on any button lets the row's request through the next time, but for FTP,
\* which no rule matches, and for an address on another port, which "Domain" forgets
\* (tailLogRow, parseLogEntry and host2domain against the Check methods).
THEOREM OffersMatched == Spec => []OffersMatch
<1>1. MadeInv => OffersMatch
  <2> SUFFICES ASSUME MadeInv, NEW m \in Clicked
               PROVE  \/ Check(m.rule, m.row)
                      \/ m.row.proto = "FTP"
                      \/ /\ m.button = "Domain" /\ Host(m.row).kind = "addr"
                         /\ Port(m.row) # Default(m.rule.type)
    BY DEF OffersMatch
  <2>1. ByButton(m)
    BY DEF Clicked, MadeInv, ByHand
  <2>2. PICK r \in Request : \E button \in Buttons(r) :
               m = [rule |-> Offer(r, button), row |-> r, button |-> button]
    BY <2>1 DEF ByButton
  <2>3. PICK button \in Buttons(r) : m = [rule |-> Offer(r, button), row |-> r, button |-> button]
    BY <2>2
  <2>4. m.rule = Offer(r, button) /\ m.row = r /\ m.button = button
    BY <2>3
  <2>5. button = "Domain" => m.rule.type = DomainType(r)
    BY <2>4, OfferIs
  <2> QED BY <2>4, <2>5, OfferMatches
<1> QED BY <1>1, MadeInvHolds, PTL

\* What a rule whose value is the row's text matches is of the row's host.
LEMMA OwnHostStays ==
  ASSUME NEW r \in Request, NEW rule, rule.type = DomainType(r),
         NEW other \in Request, Check(rule, other),
         \/ rule.value = LogHost(r)
         \/ rule.value = [host |-> Host(r), port |-> NoPort]
  PROVE  (other.proto = r.proto \/ r.proto = "FTP") /\ Host(other) = Host(r)
<1> DEFINE def == Default(DomainType(r))
           asked == splitHostPortDefault(other.at, def)
           own == splitHostPortDefault(rule.value, def)
<1>1. /\ rule.type \in {"domain", "https-domain"} /\ def \in Nat
      /\ rule.type = TypeFor(other) /\ SameHost(own.host, asked.host)
  BY TypeIs, CheckIs
<1>2. other.proto = r.proto \/ r.proto = "FTP"
  BY <1>1, TypeIs
<1>3. Literal(asked.host) = Host(other)
  BY <1>1, AskedParts
<1>4. own.host.kind \in {"name", "addr", "brackets"} /\ Literal(own.host) = Host(r)
  <2>1. CASE rule.value = LogHost(r)
    <3>1. own = splitHostPortDefault(r.at, def)
      BY <2>1, OwnHost
    <3> HIDE DEF own
    <3> QED BY <1>1, <3>1, AskedParts
  <2>2. CASE rule.value = [host |-> Host(r), port |-> NoPort]
    <3>1. own.host = Host(r)
      BY <2>2 DEF splitHostPortDefault
    <3>2. r.at.host \in Hosts
      BY RequestParts
    <3> QED BY <3>1, <3>2, HostParts DEF Host, Literal, Addr
  <2> QED BY <2>1, <2>2
<1> HIDE DEF own, asked
<1>5. own.host = asked.host
  BY <1>1, <1>4 DEF SameHost
<1> QED BY <1>2, <1>3, <1>4, <1>5

\* Every host is a neighbour of its own, unless it is in a domain someone registered
\* that is not offered.
LEMMA OwnNeighbour ==
  ASSUME NEW r \in Request, ~HasRegistered(LogHost(r))
  PROVE  Host(r) \in Neighbours(Host(r))
<1> DEFINE t == LogHost(r)
<1>1. r.at.host \in Hosts
  BY RequestParts
<1>2. CASE Host(r).kind = "name"
  <2> DEFINE n == Host(r).of
             len == SuffixLen(n, NoPort)
  <2>1. r.at.host = Name(n) /\ Host(r) = Name(n) /\ n \in Names /\ t.host = Name(n)
    BY <1>1, <1>2, HostParts DEF Host, Literal, LogHost, Name, Addr, Bracketed
  <2>2. ~(Len(n) > SuffixLen(n, t.port))
    BY <2>1 DEF HasRegistered, Name
  <2>3. /\ len \in Nat /\ len >= 1 /\ SuffixLen(n, t.port) \in Nat
        /\ t.port # NoPort => SuffixLen(n, t.port) = 1
    BY <2>1, SuffixLenIs
  <2>4. Len(n) \in Nat
    BY <2>1, MatchingAssumption
  <2> HIDE DEF t, n
  <2>5. ~(Len(n) > len)
    BY <2>2, <2>3, <2>4
  <2>6. Registered(n) = {n}
    BY <2>5 DEF Registered
  <2>7. n \in Registered(n)
    BY <2>6
  <2> QED BY <1>2, <2>1, <2>7 DEF Neighbours, n
<1>3. CASE Host(r).kind # "name"
  BY <1>3 DEF Neighbours
<1> QED BY <1>2, <1>3

\* What a button's rule matches is what OffersStay says of it.
LEMMA OfferStays ==
  ASSUME NEW r \in Request, NEW button \in Buttons(r), NEW other \in Request,
         Check(Offer(r, button), other),
         ~(button = "Domain" /\ LogHost(r).port # NoPort /\ SuffixLen(Host(r).of, NoPort) > 1)
  PROVE  /\ other.proto = r.proto \/ r.proto = "FTP"
         /\ Host(other) \in IF button = "Domain" THEN Neighbours(Host(r)) ELSE {Host(r)}
<1> DEFINE rule == Offer(r, button)
           def == Default(DomainType(r))
           t == LogHost(r)
<1>1. CASE button = "Path"
  <2>1. rule = [type |-> "exact", value |-> URL(r)]
    BY <1>1, OfferIs
  <2>2. URL(r) = URL(other)
    BY <2>1 DEF Check, ExactRule
  <2> QED BY <1>1, <2>2 DEF URL, Host
<1>2. CASE button = "Host"
  BY <1>2, OfferIs, OwnHostStays
<1>3. CASE button = "Domain"
  <2>1. rule.type = DomainType(r) /\ rule.value = host2domain(t)
    BY <1>3, OfferIs
  <2> HIDE DEF rule
  <2>2. Check(rule, other)
    BY DEF rule
  <2>3. CASE host2domain(t) = t /\ ~HasRegistered(t)
    <3>1. (other.proto = r.proto \/ r.proto = "FTP") /\ Host(other) = Host(r)
      BY <2>1, <2>2, <2>3, OwnHostStays
    <3> QED BY <1>3, <2>3, <3>1, OwnNeighbour
  <2>4. CASE host2domain(t) = [host |-> Host(r), port |-> NoPort] /\ Host(r).kind = "addr"
    <3>1. (other.proto = r.proto \/ r.proto = "FTP") /\ Host(other) = Host(r)
      BY <2>1, <2>2, <2>4, OwnHostStays
    <3>2. Host(r) \in Neighbours(Host(r))
      BY <2>4 DEF Neighbours
    <3> QED BY <1>3, <3>1, <3>2
  <2>5. CASE /\ HasRegistered(t) /\ host2domain(t) = EffectiveTLDPlusOne(t)
             /\ r.at.host = Name(r.at.host.of) /\ r.at.host.of \in Names /\ t.host = r.at.host
    <3> DEFINE n == r.at.host.of
               k == SuffixLen(n, t.port)
               end == SubSeq(n, Len(n) - k, Len(n))
               own == splitHostPortDefault(rule.value, def)
               asked == splitHostPortDefault(other.at, def)
    <3>1. rule.value = [host |-> DotName(end), port |-> t.port] /\ Len(n) > k
      BY <2>1, <2>5, RegisteredParts
    <3>2. /\ rule.type \in {"domain", "https-domain"} /\ def \in Nat
          /\ rule.type = TypeFor(other) /\ SameHost(own.host, asked.host)
      BY <2>1, <2>2, TypeIs, CheckIs
    <3>3. own.host = DotName(end)
      <4> HIDE DEF end
      <4> QED BY <3>1 DEF splitHostPortDefault, SplitHostPort, Literal, DotName
    <3>4. other.proto = r.proto \/ r.proto = "FTP"
      BY <2>1, <3>2, TypeIs
    <3>5. asked.host.kind \in {"name", "addr", "brackets"} /\ Literal(asked.host) = Host(other)
      BY <3>2, AskedParts
    <3>6. Host(r) = Name(n)
      BY <2>5 DEF Host, Literal, Name
    <3>7. k = SuffixLen(n, NoPort)
      <4>1. /\ SuffixLen(n, NoPort) \in Nat /\ SuffixLen(n, NoPort) >= 1
            /\ t.port # NoPort => k = 1
        BY <2>5, SuffixLenIs
      <4>2. Host(r).of = n
        BY <3>6 DEF Name
      <4>3. t.port # NoPort => ~(SuffixLen(n, NoPort) > 1)
        BY <1>3, <4>2
      <4> QED BY <4>1, <4>3
    <3> HIDE DEF own, asked
    <3>8. asked.host.kind = "name" /\ IsSuffix(end, asked.host.of)
      <4> HIDE DEF end
      <4> QED BY <3>2, <3>3, <3>5 DEF SameHost, DotName
    <3>9. Host(other) = Name(asked.host.of) /\ asked.host.of \in Names
      <4>1. other.at.host \in Hosts
        BY RequestParts
      <4>2. Literal(asked.host) = asked.host
        BY <3>8 DEF Literal
      <4> QED BY <3>5, <3>8, <4>1, <4>2, HostParts DEF Host, Literal, Addr
    <3>10. asked.host.of \in Registered(n)
      <4>1. Registered(n) = {m \in Names : IsSuffix(end, m)}
        BY <3>1, <3>7 DEF Registered
      <4> HIDE DEF end
      <4> QED BY <3>8, <3>9, <4>1
    <3>11. Neighbours(Host(r)) = {Name(x) : x \in Registered(n)}
      BY <3>6 DEF Neighbours, Name
    <3> QED BY <1>3, <3>4, <3>9, <3>10, <3>11
  <2> QED BY <2>3, <2>4, <2>5, DomainForms
<1> QED BY <1>1, <1>2, <1>3, OfferIs

\* A click lets through nothing but requests to the same host or, for "Domain", to its
\* registered domain, by the same protocol; a host with a port is held to this only if
\* its public suffix has one label.
THEOREM OffersStayed == Spec => []OffersStay
<1>1. MadeInv => OffersStay
  <2> SUFFICES ASSUME MadeInv, NEW m \in Clicked,
                      ~(/\ m.button = "Domain" /\ LogHost(m.row).port # NoPort
                        /\ SuffixLen(Host(m.row).of, NoPort) > 1)
               PROVE  Stays(m)
    BY DEF OffersStay
  <2>1. ByButton(m)
    BY DEF Clicked, MadeInv, ByHand
  <2>2. PICK r \in Request : \E button \in Buttons(r) :
               m = [rule |-> Offer(r, button), row |-> r, button |-> button]
    BY <2>1 DEF ByButton
  <2>3. PICK button \in Buttons(r) : m = [rule |-> Offer(r, button), row |-> r, button |-> button]
    BY <2>2
  <2>4. m.rule = Offer(r, button) /\ m.row = r /\ m.button = button
    BY <2>3
  <2> QED BY <2>4, OfferStays DEF Stays
<1> QED BY <1>1, MadeInvHolds, PTL

-----------------------------------------------------------------------------
\* Rows are requests, rules made by a button keep what they were made from, and no
\* more are made than the bound.
THEOREM TypeCorrect == Spec => []TypeOK
<1> DEFINE Few == IsFiniteSet(made) /\ Cardinality(made) <= MaxRules
<1>1. Init => Few
  BY FS_EmptySet, MatchingAssumption DEF Init
<1>2. Few /\ [Next]_vars => Few'
  <2> SUFFICES ASSUME Few, [Next]_vars PROVE Few'
    OBVIOUS
  <2>1. ASSUME NEW m, Make(m) PROVE Few'
    <3>1. made' = made \cup {m} /\ Cardinality(made) < MaxRules /\ IsFiniteSet(made)
      BY <2>1 DEF Make
    <3>2. /\ IsFiniteSet(made \cup {m}) /\ Cardinality(made) \in Nat
          /\ Cardinality(made \cup {m}) = Cardinality(made)
               \/ Cardinality(made \cup {m}) = Cardinality(made) + 1
      BY <3>1, FS_AddElement, FS_CardinalityType
    <3>3. MaxRules \in Nat
      BY MatchingAssumption
    <3> QED BY <3>1, <3>2, <3>3
  <2>2. CASE made' = made
    BY <2>2
  <2> QED BY <2>1, <2>2 DEF Next, vars, Ask, Click, Type
<1>3. MadeInv /\ Few => TypeOK
  <2> SUFFICES ASSUME MadeInv, NEW m \in Clicked
               PROVE  /\ m.row \in Request /\ m.button \in {"Domain", "Host", "Path"}
                      /\ m.rule.type = "exact" =>
                           m.rule.value \in [proto : {"HTTP", "FTP"},
                             at : [host : Hosts, port : Ports \cup {NoPort}], path : Paths]
    BY DEF TypeOK, MadeInv
  <2>1. ByButton(m)
    BY DEF Clicked, MadeInv, ByHand
  <2>2. PICK r \in Request : \E button \in Buttons(r) :
               m = [rule |-> Offer(r, button), row |-> r, button |-> button]
    BY <2>1 DEF ByButton
  <2>3. PICK button \in Buttons(r) : m = [rule |-> Offer(r, button), row |-> r, button |-> button]
    BY <2>2
  <2>4. m.rule = Offer(r, button) /\ m.row = r /\ m.button = button
    BY <2>3
  <2>5. ASSUME m.rule.type = "exact"
        PROVE  r.method # "CONNECT" /\ m.rule.value = URL(r)
    BY <2>4, <2>5, OfferIs, TypeIs
  <2>6. ASSUME r.method # "CONNECT"
        PROVE  URL(r) \in [proto : {"HTTP", "FTP"},
                           at : [host : Hosts, port : Ports \cup {NoPort}], path : Paths]
    <3>1. r \in Get("HTTP") \/ r \in Get("FTP")
      BY <2>6 DEF Request, Connect
    <3> QED BY <3>1 DEF Get, URL
  <2> QED BY <2>4, <2>5, <2>6, OfferIs
<1> QED BY <1>1, <1>2, <1>3, MadeInvHolds, PTL DEF Spec

=============================================================================
