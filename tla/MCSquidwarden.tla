--------------------------- MODULE MCSquidwarden ---------------------------
EXTENDS Squidwarden, Sources

CONSTANTS new, office, g1, g2, s1, s2, r1, r2, r3, lan, host, news, broken,
          h1, desk, guest, page, odd, mgr

\* Two groups with one source and one ACL each, which hold one rule each: what the
\* network may read is blocked for the desk in it.
MCSeed ==
  [acls |-> {new, office}, groups |-> {g1, g2},
   sources |-> {<<s1, lan>>, <<s2, host>>},
   members |-> {<<s1, g1>>, <<s2, g2>>},
   aclrules |-> {<<office, r1>>, <<new, r2>>},
   rules |-> {<<r1, [match |-> news, action |-> "allow"]>>,
              <<r2, [match |-> news, action |-> "block"]>>},
   groupaccess |-> {<<g1, office>>, <<g2, new>>}]

MCAclId == {new, office}
MCGroupId == {g1, g2}
MCSourceId == {s1, s2}
MCRuleId == {r1, r2, r3}
MCAddress == {lan, host}
MCMatch == {news, broken}
MCAction == {"allow", "block"}
MCFkModes == BOOLEAN

MCHelperId == {h1}
MCClient == {desk, guest}
MCTarget == {page, odd, mgr}
MCMalformed == {odd}
MCCacheObject == {mgr}
\* Addresses of version 4 with two bits of their own: the network is a mask for the
\* last bit, which both clients have, the host a net of full length.
MCSource ==
  (lan :> [kind |-> "mask", host |-> V4(<<0, 0, 0, 1>>), mask |-> V4(<<0, 0, 0, 1>>)])
  @@ (host :> [kind |-> "net", addr |-> V4(<<0, 0, 0, 1>>), len |-> 2])
MCBits == (desk :> V4(<<0, 0, 0, 1>>)) @@ (guest :> V4(<<0, 0, 1, 1>>))

Covered(addr) == {c \in MCClient : SourceContains(MCSource[addr], MCBits[c])}
MCCovers == (lan :> Covered(lan)) @@ (host :> Covered(host))
MCPrefix == (lan :> PrefixLen(MCSource[lan])) @@ (host :> PrefixLen(MCSource[host]))
MCHits == (news :> {page}) @@ (broken :> {})
MCCompiles == {news}

=============================================================================
