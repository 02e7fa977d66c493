--------------------------- MODULE MCOvnMigration ---------------------------
(* Constants for OvnMigration and the preflight checks: rules that differ   *)
(* in one respect each, in every pair, for ports in every subnet.           *)
EXTENDS OvnMigration, FiniteSetsExt

CONSTANTS g1, c1, c2

MCGateways == {g1}
MCComputes == {c1, c2}

Rule(protocol, min, max, anywhere, cidrs) ==
  [direction |-> "egress", ethertype |-> "IPv4", remote_group |-> FALSE,
   protocol |-> protocol, min |-> min, max |-> max, anywhere |-> anywhere, cidrs |-> cidrs]

AnyRule == Rule("any", None, None, TRUE, {})

MCRules ==
  {Rule("any", None, None, FALSE, {c}) : c \in Cidr} \cup
  {Rule("udp", min, max, TRUE, {}) : min \in {None, 66, 68}, max \in {None, 66, 68}} \cup
  {[AnyRule EXCEPT !.direction = "ingress"], [AnyRule EXCEPT !.ethertype = "IPv6"],
   [AnyRule EXCEPT !.remote_group = TRUE], [AnyRule EXCEPT !.anywhere = FALSE],
   [AnyRule EXCEPT !.protocol = "tcp"]}

Subnet(cidr) ==
  [cidr |-> cidr, dhcp |-> TRUE, version |-> 4, dns |-> TRUE, used |-> 1, total |-> 2]

Port(cidr, rules) ==
  [subnets |-> {Subnet(cidr)}, rules |-> rules, security |-> TRUE, workload |-> TRUE,
   external |-> FALSE, owner |-> "compute:nova", vxlan |-> TRUE,
   mtu |-> 1442, physnet |-> 1500, headers |-> 58]

\* Ports that differ in who has them and where they are.
OtherPorts ==
  {[port EXCEPT !.external = external, !.owner = owner] :
     port \in {Port(Wildcard, {}), Port(Wildcard, {AnyRule})}, external \in BOOLEAN,
     owner \in {"compute:nova", "", "compute:zone", "network:dhcp"}}

MCPorts ==
  OtherPorts \cup
  {Port(c, rules) : c \in Cidr, rules \in UNION {kSubset(k, MCRules) : k \in 1..2}}
=============================================================================
