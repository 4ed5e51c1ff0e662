--------------------------- MODULE MCNetworkConfig --------------------------
(***************************************************************************)
(* Instances of NetworkConfig for TLC: a machine with three links, and the *)
(* requests clients send, those of osctl among them.                       *)
(***************************************************************************)
EXTENDS NetworkConfig

ThreeLinks == {"eth0", "eth1", "eth2"}
SomeNames == ThreeLinks \cup {"eth0.100", "bond0"}
Nets4 == {"10.0.2.15/24", "192.168.1.10/24"}
Nets6 == {"fd00::1/64", "fd01::1/64"}
Addrs4 == {"10.0.2.2", "192.168.1.1", "8.8.8.8", "1.1.1.1"}
Addrs6 == {"fd00::2"}
Neighbours == {<<"10.0.2.2", "10.0.2.15/24">>, <<"192.168.1.1", "192.168.1.10/24">>,
               <<"fd00::2", "fd00::1/64">>}
Faults == {{}, {<<"up", "eth0">>}, {<<"addr", "eth1">>}, {<<"write", "resolv.conf">>}}

\* The more a text says the longer it is.
TextSize(t) == 1 + 3 * Len(t.interfaces) + Cardinality(DOMAIN t)

NoDns == <<>>
Dns(s) == <<[nameservers |-> s, search |-> <<>>]>>
Static(v4, gw, mtu, v6, gw6) ==
  [v4 |-> v4, gateway |-> gw, mtu |-> mtu, v6 |-> v6, gateway6 |-> gw6, auto |-> FALSE]
Ip(s) == [type |-> "static", static |-> s]
Unset == [type |-> "none"]
Iface(name, config) == [name |-> name, config |-> config]
Request(ifaces, dns, routes, auto) ==
  [interfaces |-> ifaces, dns |-> dns, routes |-> routes, auto_reboot |-> auto]

Plain == Static("192.168.1.10/24", "192.168.1.1", 0, <<>>, "")
LowMtu == Static("10.0.2.15/24", "", 1279, <<"fd01::1/64">>, "")
V6Only == Static("", "nowhere", 9000, <<"fd00::1/64">>, "fd00::2")
Route == [destination |-> "10.0.2.15/24", gateway |-> "192.168.1.1", metric |-> 0]
Vlan(id, ip) == [type |-> "vlan", parent |-> "eth0", id |-> id, ip |-> ip]
Bond(mode, slaves) == [type |-> "bond", mode |-> mode, slaves |-> slaves, ip |-> Ip(Plain)]

\* osctl network config set, and osctl network dns set
ConfigSet == Request(<<Iface("eth0", Ip(Plain))>>, NoDns, <<>>, TRUE)
DnsSet == Request(<<>>, Dns(<<"8.8.8.8", "fd00::2">>), <<>>, FALSE)

ApiSet == Request(<<Iface("eth0", [type |-> "dhcp"]), Iface("eth1", Ip(V6Only)),
                    Iface("eth2", Ip(LowMtu)), Iface("eth0.100", Vlan(4094, Unset)),
                    Iface("bond0", Bond("802.3ad", <<"eth1">>))>>,
                  Dns(<<"1.1.1.1">>), <<Route, [Route EXCEPT !.metric = 5]>>, TRUE)

\* Requests that are refused, each for a reason of its own.
Refused ==
  {Request(<<Iface("eth0", Unset)>>, NoDns, <<>>, FALSE),
   Request(<<Iface("bond0", Bond("802.3", <<"eth1">>))>>, NoDns, <<>>, FALSE),
   Request(<<Iface("bond0", Bond("802.3ad", <<>>))>>, NoDns, <<>>, FALSE),
   Request(<<Iface("eth0", Ip([Plain EXCEPT !.mtu = 9001]))>>, NoDns, <<>>, FALSE),
   Request(<<Iface("eth0", Ip([Plain EXCEPT !.v4 = ""]))>>, NoDns, <<>>, FALSE),
   Request(<<Iface("eth0.100", Vlan(4095, Unset))>>, NoDns, <<>>, FALSE),
   Request(<<Iface("eth0", Ip(Plain)), Iface("eth0", Ip(Plain))>>, NoDns, <<>>, FALSE),
   Request(<<>>, Dns(<<>>), <<>>, FALSE)}

SomeRequests == {ConfigSet, DnsSet, ApiSet} \cup Refused
=============================================================================
