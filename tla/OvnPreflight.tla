---------------------------- MODULE OvnPreflight ----------------------------
(***************************************************************************)
(* do_preflight_checks of cli/ovs_ovn_migration.py: what is asked of the   *)
(* networks of a cloud before its backend is changed from Open vSwitch to  *)
(* OVN.  Addresses are small numbers and a CIDR is a pair of its first     *)
(* address and its prefix length.                                          *)
(***************************************************************************)
EXTENDS Integers, FiniteSets

CONSTANT Bits   \* length of an address
ASSUME BitsAssumption == Bits \in Nat

None == -1
Prefix == 0..Bits
Size(prefixlen) == 2^(Bits - prefixlen)
Address == 0..(Size(0) - 1)
Broadcast == <<Size(0) - 1, Bits>>
Wildcard == <<0, 0>>
Cidr == {c \in Address \X Prefix : c[1] % Size(c[2]) = 0}
AddressesOf(c) == {a \in Address : c[1] <= a /\ a < c[1] + Size(c[2])}

DhcpPort == 67

\* Mutation: the upper end of the range of ports is not looked at.
RuleAllowsDhcpNoMax(rule) ==
  /\ rule.direction = "egress" /\ rule.ethertype = "IPv4" /\ ~rule.remote_group
  /\ \/ rule.protocol = "any"
     \/ rule.protocol = "udp" /\ (rule.min = None \/ rule.min <= DhcpPort)

\* "Rule must be protocol independent or allow access to 67 port by UDP"
RuleAllowsDhcp(rule) ==
  /\ rule.direction = "egress" /\ rule.ethertype = "IPv4" /\ ~rule.remote_group
  /\ \/ rule.protocol = "any"
     \/ /\ rule.protocol = "udp"
        /\ rule.min = None \/ rule.min <= DhcpPort
        /\ rule.max = None \/ rule.max >= DhcpPort

\* A rule with neither a prefix nor an address group is for every address; an
\* address group may have no IPv4 address at all.
NetworksOf(rule) == IF rule.anywhere THEN {Wildcard} ELSE rule.cidrs

security_group_dhcp_allowed_ipv4(rules) ==
  UNION {NetworksOf(r) : r \in {rule \in rules : RuleAllowsDhcp(rule)}}

subnets(net, prefixlen) ==
  {c \in Cidr : c[2] = prefixlen /\ AddressesOf(c) \subseteq AddressesOf(net)}

\* One permitted network must hold the whole of a tested one.
are_addresses_allowed_by_firewall(tested, permitted) ==
  \/ Wildcard \in permitted
  \/ \A subnet \in tested : \E net \in permitted :
       net[2] <= subnet[2] /\ subnet \in subnets(net, subnet[2])

port_cidrs_with_dhcp4(port) ==
  {s.cidr : s \in {t \in port.subnets : t.dhcp /\ t.version = 4}}

\* The ports of internal networks that no server has, or one in the zone nova.
IsTested(port) == ~port.external /\ port.owner \in {"compute:nova", ""}

check_port_sg_allowed_dhcp4(port) ==
  LET tested == port_cidrs_with_dhcp4(port)
      permitted == security_group_dhcp_allowed_ipv4(port.rules)
  IN  \/ ~IsTested(port) \/ ~port.security \/ tested = {}
      \/ /\ are_addresses_allowed_by_firewall({Broadcast}, permitted)
         /\ are_addresses_allowed_by_firewall(tested, permitted)

check_for_free_ip(port) == \A s \in port.subnets : s.used # s.total

\* Geneve needs more room than the VXLAN of the former backend.
check_network_mtu(port) == port.vxlan => port.mtu <= port.physnet - port.headers

subnet_has_workload_ports(port) == port.workload

check_for_no_dhcp_subnet(port) ==
  port.vxlan => \A s \in port.subnets : s.dhcp \/ ~subnet_has_workload_ports(port)

check_subnets_dns_servers(port) ==
  \A s \in port.subnets : s.dhcp => s.dns \/ ~subnet_has_workload_ports(port)

do_preflight_checks(port) ==
  /\ check_for_free_ip(port)
  /\ check_network_mtu(port)
  /\ check_for_no_dhcp_subnet(port)
  /\ check_subnets_dns_servers(port)
  /\ check_port_sg_allowed_dhcp4(port)

\* What a firewall lets through: a packet to an address and a UDP port.
Passes(rule, address, port) ==
  /\ rule.direction = "egress" /\ rule.ethertype = "IPv4" /\ ~rule.remote_group
  /\ rule.anywhere \/ \E c \in rule.cidrs : address \in AddressesOf(c)
  /\ \/ rule.protocol = "any"
     \/ /\ rule.protocol = "udp"
        /\ port \in (IF rule.min = None THEN 0 ELSE rule.min)..
                    (IF rule.max = None THEN 65535 ELSE rule.max)

\* A port that passes gets its address from OVN, which answers DHCP from an
\* address of the subnet: no packet of the exchange is dropped.
GetsAddress(port) ==
  \A s \in port.subnets :
    (s.dhcp /\ s.version = 4 /\ port.security) =>
       \A a \in AddressesOf(s.cidr) \cup AddressesOf(Broadcast) :
         \E rule \in port.rules : Passes(rule, a, DhcpPort)
=============================================================================
