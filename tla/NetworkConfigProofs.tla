------------------------ MODULE NetworkConfigProofs -------------------------
(***************************************************************************)
(* The safety properties of NetworkConfig, proved for any number of        *)
(* handlers, any requests and any set of ip commands that fail at a boot.  *)
(***************************************************************************)
EXTENDS NetworkTextProofs, FiniteSetTheorems

\* The elements of an Option.
LEMMA RangeEmpty == Range(<<>>) = {}
BY DEF Range

\* The one element of an Option that is set.
LEMMA RangeOne ==
  ASSUME NEW x
  PROVE  Range(<<x>>) = {x}
BY DEF Range

-----------------------------------------------------------------------------
(* What the commands of keel-init change                                   *)

NetFields ==
  {"links", "up", "addr", "addr6", "default", "mtu", "slaac", "master", "routes", "dns",
   "failed"}

IsNet(n) == n = [f \in NetFields |-> n[f]]

\* No command makes a link or mends a fault, takes a link down or an IPv4
\* address away; an IPv6 address goes only with the MTU of its own link.
GrowsBut(n, m, l) ==
  /\ IsNet(m) /\ m.links = n.links /\ m.failed = n.failed
  /\ n.up \subseteq m.up /\ m.up \subseteq n.up \cup n.links
  /\ n.addr \subseteq m.addr
  /\ \A p \in n.addr6 : p[1] # l => p \in m.addr6

\* Most commands take no address away.
Grows(n, m) ==
  /\ IsNet(m) /\ m.links = n.links /\ m.failed = n.failed
  /\ n.up \subseteq m.up /\ m.up \subseteq n.up \cup n.links
  /\ n.addr \subseteq m.addr /\ n.addr6 \subseteq m.addr6

\* The network before the first command of a boot.
LEMMA BareIsNet ==
  ASSUME NEW bad
  PROVE  /\ IsNet(Bare(bad)) /\ Bare(bad).links = Hardware \cup {"lo"}
         /\ Bare(bad).up = {} /\ Bare(bad).failed = bad
         /\ Bare(bad).dns = <<>> /\ Bare(bad).default = {}
BY DEF Bare, IsNet, NetFields

\* Two commands in a row.
LEMMA GrowsTrans ==
  ASSUME NEW n, NEW m, NEW k, Grows(n, m), Grows(m, k)
  PROVE  Grows(n, k)
BY DEF Grows

\* Commands that take nothing away, then commands for link l.
LEMMA GrowsThenBut ==
  ASSUME NEW n, NEW m, NEW k, NEW l, Grows(n, m), GrowsBut(m, k, l)
  PROVE  GrowsBut(n, k, l)
BY DEF Grows, GrowsBut

\* What takes nothing away is harmless for every link.
LEMMA GrowsIsBut ==
  ASSUME NEW n, NEW m, NEW l, Grows(n, m)
  PROVE  GrowsBut(n, m, l)
BY DEF Grows, GrowsBut

\* A command that does nothing.
LEMMA GrowsSelf ==
  ASSUME NEW n, IsNet(n)
  PROVE  Grows(n, n)
BY DEF Grows

\* ip link set up brings up a link that is there.
LEMMA LinkUpGrows ==
  ASSUME NEW n, IsNet(n), NEW l
  PROVE  /\ Grows(n, LinkUp(n, l))
         /\ Works(n, "up", l) => l \in LinkUp(n, l).up
         /\ LinkUp(n, l).default = n.default
BY DEF Grows, IsNet, NetFields, LinkUp, Works

\* ip addr add gives a link that is there its addresses.
LEMMA AddrAddGrows ==
  ASSUME NEW n, IsNet(n), NEW l, NEW nets
  PROVE  /\ Grows(n, AddrAdd(n, l, nets)) /\ AddrAdd(n, l, nets).up = n.up
         /\ AddrAdd(n, l, nets).default = n.default
         /\ Works(n, "addr", l) => \A a \in nets : <<l, a>> \in AddrAdd(n, l, nets).addr
BY DEF Grows, IsNet, NetFields, AddrAdd, Works

\* So does ip -6 addr add.
LEMMA Addr6AddGrows ==
  ASSUME NEW n, IsNet(n), NEW l, NEW nets
  PROVE  /\ Grows(n, Addr6Add(n, l, nets))
         /\ Works(n, "addr", l) => \A a \in nets : <<l, a>> \in Addr6Add(n, l, nets).addr6
BY DEF Grows, IsNet, NetFields, Addr6Add, Works

\* ip route add default changes the default routes only.
LEMMA DefaultViaGrows ==
  ASSUME NEW n, IsNet(n), NEW l, NEW family, NEW gateway
  PROVE  /\ Grows(n, DefaultVia(n, l, family, gateway))
         /\ DefaultVia(n, l, family, gateway).up = n.up
BY DEF Grows, IsNet, NetFields, DefaultVia

\* ip link set mtu takes at most the IPv6 addresses of its link, and only when
\* the MTU is too small for IPv6.
LEMMA SetMtuKeeps ==
  ASSUME NEW n, IsNet(n), NEW l, NEW mtu \in Nat
  PROVE  /\ GrowsBut(n, SetMtu(n, l, mtu), l)
         /\ mtu >= MinMtu6 => Grows(n, SetMtu(n, l, mtu))
<1>. DEFINE m == [n EXCEPT !.mtu = n.mtu \cup {<<l, mtu>>}]
            z == [m EXCEPT !.addr6 = {a \in m.addr6 : a[1] # l}, !.slaac = m.slaac \ {l},
                           !.default = m.default \ {<<"v6", l>>}]
<1>1. SetMtu(n, l, mtu) = IF ~Works(n, "mtu", l) THEN n ELSE IF mtu < MinMtu6 THEN z ELSE m
  BY DEF SetMtu, StopV6
<1>2. Grows(n, m)
  BY DEF Grows, IsNet, NetFields
<1>3. IsNet(m)
  BY <1>2 DEF Grows
<1>. HIDE DEF m
<1>4. GrowsBut(m, z, l)
  BY <1>3 DEF GrowsBut, IsNet, NetFields
<1>. HIDE DEF z
<1>5. GrowsBut(n, n, l) /\ GrowsBut(n, m, l) /\ GrowsBut(n, z, l) /\ Grows(n, n)
  BY <1>2, <1>4, GrowsSelf, GrowsIsBut, GrowsThenBut
<1>6. mtu >= MinMtu6 => ~(mtu < MinMtu6)
  BY DEF MinMtu6
<1>. QED  BY <1>1, <1>2, <1>5, <1>6

\* apply_static_ip_config adds every address of the configuration, IPv4 and IPv6, if the
\* command works for the link; the MTU, which comes last, spares the IPv4 address.
LEMMA ApplyStaticGrows ==
  ASSUME NEW n, IsNet(n), NEW l, NEW s, s.mtu \in Nat
  PROVE  /\ GrowsBut(n, ApplyStatic(n, l, s), l)
         /\ Works(n, "addr", l) =>
              /\ s.v4 # "" => <<l, s.v4>> \in ApplyStatic(n, l, s).addr
              /\ s.mtu >= MinMtu6 =>
                   \A a \in Range(s.v6) : <<l, a>> \in ApplyStatic(n, l, s).addr6
<1>. DEFINE a4 == AddrAdd(n, l, {s.v4})
            v4 == IF s.v4 = "" THEN n ELSE DefaultVia(a4, l, "v4", s.gateway)
            a6 == Addr6Add(v4, l, Range(s.v6))
            v6 == DefaultVia(a6, l, "v6", s.gateway6)
            sl == IF s.auto /\ Works(n, "slaac", l) THEN v6.slaac \cup {l} ELSE v6.slaac
            au == [v6 EXCEPT !.slaac = sl]
            m == IF s.mtu = 1500 THEN au ELSE SetMtu(au, l, s.mtu)
<1>1. ApplyStatic(n, l, s) = m
  BY DEF ApplyStatic
<1>2. /\ Grows(n, a4) /\ IsNet(a4)
      /\ Works(n, "addr", l) => <<l, s.v4>> \in a4.addr
  BY AddrAddGrows DEF Grows
<1>. HIDE DEF a4
<1>3. /\ Grows(n, v4) /\ IsNet(v4)
      /\ Works(n, "addr", l) /\ s.v4 # "" => <<l, s.v4>> \in v4.addr
  <2>1. CASE s.v4 = ""
    BY <2>1, GrowsSelf
  <2>2. CASE s.v4 # ""
    <3>1. v4 = DefaultVia(a4, l, "v4", s.gateway)
      BY <2>2
    <3>. HIDE DEF v4
    <3>2. Grows(a4, v4)
      BY <1>2, <3>1, DefaultViaGrows
    <3>3. Grows(n, v4)
      BY <1>2, <3>2, GrowsTrans
    <3>. QED  BY <1>2, <3>2, <3>3 DEF Grows
  <2>. QED  BY <2>1, <2>2
<1>. HIDE DEF v4
<1>4. /\ Grows(v4, a6) /\ IsNet(a6)
      /\ Works(v4, "addr", l) => \A a \in Range(s.v6) : <<l, a>> \in a6.addr6
  <2>1. /\ Grows(v4, a6)
        /\ Works(v4, "addr", l) => \A a \in Range(s.v6) : <<l, a>> \in a6.addr6
    BY <1>3, Addr6AddGrows
  <2>. QED  BY <2>1 DEF Grows
<1>. HIDE DEF a6
<1>5. Grows(a6, v6) /\ IsNet(v6)
  BY <1>4, DefaultViaGrows DEF Grows
<1>. HIDE DEF v6, sl
<1>6. Grows(v6, au) /\ IsNet(au)
  BY <1>5 DEF Grows, IsNet, NetFields
<1>. HIDE DEF au
<1>7. Works(n, "addr", l) => Works(v4, "addr", l)
  BY <1>3 DEF Works, Grows
<1>8. Grows(n, au) /\ v4.addr \subseteq au.addr /\ a6.addr6 \subseteq au.addr6
  <2>1. Grows(n, au)
    BY <1>3, <1>4, <1>5, <1>6, GrowsTrans
  <2>. QED  BY <1>4, <1>5, <1>6, <2>1 DEF Grows
<1>9. GrowsBut(au, m, l) /\ (s.mtu >= MinMtu6 => Grows(au, m))
  <2>1. CASE s.mtu = 1500
    BY <1>6, <2>1, GrowsSelf, GrowsIsBut
  <2>2. CASE s.mtu # 1500
    BY <1>6, <2>2, SetMtuKeeps
  <2>. QED  BY <2>1, <2>2
<1>. HIDE DEF m
<1>10. GrowsBut(n, m, l)
  BY <1>8, <1>9, GrowsThenBut
<1>11. au.addr \subseteq m.addr /\ (s.mtu >= MinMtu6 => au.addr6 \subseteq m.addr6)
  BY <1>9 DEF Grows, GrowsBut
<1>. QED  BY <1>1, <1>3, <1>4, <1>7, <1>8, <1>10, <1>11

\* What StaticIsUp asks of one interface.
Applied(n, i) ==
  (/\ i.config.type = "static" /\ i.name \in Hardware /\ \A f \in n.failed : f[2] # i.name)
    => LET s == i.config.static IN
       /\ i.name \in n.up
       /\ s.v4 # "" => <<i.name, s.v4>> \in n.addr
       /\ s.mtu >= MinMtu6 => \A a \in Range(s.v6) : <<i.name, a>> \in n.addr6

\* What is applied stays applied, whatever is done for another link.
LEMMA AppliedStays ==
  ASSUME NEW n, NEW m, NEW i, Applied(n, i), NEW l, GrowsBut(n, m, l), i.name # l
  PROVE  Applied(m, i)
<1>1. \A a : <<i.name, a>>[1] = i.name
  OBVIOUS
<1>. QED  BY <1>1 DEF GrowsBut, Applied

\* ... and by what is done for no link.
LEMMA AppliedKept ==
  ASSUME NEW n, NEW m, NEW i, Applied(n, i), Grows(n, m)
  PROVE  Applied(m, i)
BY DEF Grows, Applied

\* configure_interface: a VLAN and a bond are not created, and a static
\* interface whose link works gets all its addresses.
LEMMA ConfigureInterfaceApplies ==
  ASSUME NEW n, IsNet(n), Hardware \subseteq n.links, NEW i \in InterfaceConfigs
  PROVE  /\ GrowsBut(n, ConfigureInterface(n, i), i.name)
         /\ Applied(ConfigureInterface(n, i), i)
<1>. DEFINE l == i.name
            m == ConfigureInterface(n, i)
            up == LinkUp(n, l)
<1>1. CASE ~Works(n, "up", l)
  <2>1. m = n
    BY <1>1 DEF ConfigureInterface
  <2>2. Applied(n, i)
    BY <1>1 DEF Applied, Works
  <2>. QED  BY <2>1, <2>2, GrowsSelf, GrowsIsBut
<1>2. CASE Works(n, "up", l)
  <2>1. Grows(n, up) /\ l \in up.up /\ IsNet(up) /\ l \in up.links
    BY <1>2, LinkUpGrows DEF Grows, Works
  <2>2. m = CASE i.config.type = "dhcp" -> up
              [] i.config.type = "static" -> ApplyStatic(up, l, i.config.static)
              [] i.config.type = "vlan" -> ConfigureVlan(up, l, i.config)
              [] i.config.type = "bond" -> ConfigureBond(up, l, i.config)
    BY <1>2 DEF ConfigureInterface
  <2>3. i.config.type \in {"dhcp", "static", "vlan", "bond"}
    BY InterfaceKinds
  <2>. HIDE DEF up, m
  <2>4. CASE i.config.type # "static"
    <3>1. ~CanAdd(up, l)
      BY <2>1 DEF CanAdd
    <3>2. m = up
      BY <2>2, <2>3, <2>4, <3>1 DEF ConfigureVlan, ConfigureBond
    <3>3. Applied(up, i)
      BY <2>4 DEF Applied
    <3>. QED  BY <2>1, <3>2, <3>3, GrowsIsBut DEF m
  <2>5. CASE i.config.type = "static"
    <3>. DEFINE s == i.config.static
    <3>1. m = ApplyStatic(up, l, s)
      BY <2>2, <2>5
    <3>0. s.mtu \in Nat
      <4>1. i.config \in IpConfigs
        BY <2>5, InterfaceKinds
      <4>2. i.config \in StaticIps
        BY <2>5, <4>1 DEF IpConfigs, DhcpIps
      <4>. QED  BY <4>2 DEF StaticIps, StaticConfigs
    <3>. HIDE DEF s
    <3>2. /\ GrowsBut(up, m, l)
          /\ Works(up, "addr", l) =>
               /\ s.v4 # "" => <<l, s.v4>> \in m.addr
               /\ s.mtu >= MinMtu6 => \A a \in Range(s.v6) : <<l, a>> \in m.addr6
      BY <2>1, <3>0, <3>1, ApplyStaticGrows
    <3>3. GrowsBut(n, m, l) /\ l \in m.up
      <4>1. GrowsBut(n, m, l)
        BY <2>1, <3>2, GrowsThenBut
      <4>2. up.up \subseteq m.up
        BY <3>2 DEF GrowsBut
      <4>. QED  BY <2>1, <4>1, <4>2
    <3>4. (\A f \in m.failed : f[2] # l) => Works(up, "addr", l)
      <4>1. m.failed = up.failed /\ <<"addr", l>>[2] = l
        BY <3>2 DEF GrowsBut
      <4>. QED  BY <2>1, <4>1 DEF Works
    <3>6. Applied(m, i)
      BY <3>2, <3>3, <3>4 DEF Applied, s
    <3>. QED  BY <3>3, <3>6 DEF m
  <2>. QED  BY <2>4, <2>5
<1>. QED  BY <1>1, <1>2

\* configure_loopback
LEMMA LoopbackGrows ==
  ASSUME NEW n, IsNet(n)
  PROVE  Grows(n, ConfigureLoopback(n)) /\ ConfigureLoopback(n).default = n.default
<1>. DEFINE u == LinkUp(n, "lo")
            a == AddrAdd(u, "lo", {"127.0.0.1/8"})
<1>1. Grows(n, u) /\ IsNet(u) /\ u.default = n.default
  BY LinkUpGrows DEF Grows
<1>2. ConfigureLoopback(n) \in {a, n}
  BY DEF ConfigureLoopback
<1>. HIDE DEF u
<1>3. Grows(u, a) /\ a.default = u.default
  BY <1>1, AddrAddGrows
<1>. HIDE DEF a
<1>4. Grows(n, a)
  BY <1>1, <1>3, GrowsTrans
<1>. QED  BY <1>1, <1>2, <1>3, <1>4, GrowsSelf

\* configure_dns and the routes
LEMMA RestGrows ==
  ASSUME NEW n, IsNet(n), NEW x
  PROVE  /\ Grows(n, ConfigureDns(n, x)) /\ Grows(n, DefaultDns(n))
         /\ Grows(n, ConfigureRoutes(n, x))
         /\ DefaultDns(n).default = n.default
<1>1. ASSUME NEW y
      PROVE Grows(n, ConfigureDns(n, y)) /\ ConfigureDns(n, y).default = n.default
  BY DEF Grows, IsNet, NetFields, ConfigureDns
<1>2. Grows(n, DefaultDns(n)) /\ DefaultDns(n).default = n.default
  BY <1>1, GrowsSelf DEF DefaultDns
<1>3. Grows(n, ConfigureRoutes(n, x))
  BY DEF Grows, IsNet, NetFields, ConfigureRoutes
<1>. QED  BY <1>1, <1>2, <1>3

\* configure_dhcp_fallback gives eth0 its address and a default route, if no
\* command for it fails and there is no default route yet.
LEMMA FallbackGrows ==
  ASSUME NEW n, IsNet(n)
  PROVE  /\ Grows(n, ConfigureFallback(n))
         /\ (Eth0 \in n.links /\ n.default = {} /\ \A f \in n.failed : f[2] # Eth0) =>
              /\ <<Eth0, FallbackNet>> \in ConfigureFallback(n).addr
              /\ <<"v4", Eth0>> \in ConfigureFallback(n).default
<1>. DEFINE u == LinkUp(n, Eth0)
            a == AddrAdd(u, Eth0, {FallbackNet})
            gw == <<FallbackGw>>
            d == DefaultVia(a, Eth0, "v4", gw)
<1>1. /\ Grows(n, u) /\ u.default = n.default
      /\ Works(n, "up", Eth0) => Eth0 \in u.up
  BY LinkUpGrows
<1>2. ConfigureFallback(n) = IF Works(n, "up", Eth0) /\ Works(n, "addr", Eth0) THEN d ELSE u
  BY DEF ConfigureFallback
<1>. HIDE DEF u
<1>3. IsNet(u) /\ u.links = n.links /\ u.failed = n.failed
  BY <1>1 DEF Grows
<1>4. /\ Grows(u, a) /\ a.default = u.default /\ a.up = u.up
      /\ Works(u, "addr", Eth0) => <<Eth0, FallbackNet>> \in a.addr
  BY <1>3, AddrAddGrows
<1>. HIDE DEF a
<1>5. IsNet(a) /\ a.links = n.links /\ a.failed = n.failed
  BY <1>3, <1>4 DEF Grows
<1>6. Grows(a, d)
  BY <1>5, DefaultViaGrows
<1>7. Grows(n, d)
  BY <1>1, <1>4, <1>6, GrowsTrans
<1>8. ASSUME Eth0 \in n.links, n.default = {}, \A f \in n.failed : f[2] # Eth0
      PROVE  /\ <<Eth0, FallbackNet>> \in ConfigureFallback(n).addr
             /\ <<"v4", Eth0>> \in ConfigureFallback(n).default
  <2>1. \A cmd : <<cmd, Eth0>> \notin n.failed
    <3>1. \A cmd : <<cmd, Eth0>>[2] = Eth0
      OBVIOUS
    <3>. QED  BY <1>8, <3>1
  <2>2. /\ Works(n, "up", Eth0) /\ Works(n, "addr", Eth0)
        /\ Works(u, "addr", Eth0) /\ Works(a, "route", Eth0)
    BY <1>3, <1>5, <1>8, <2>1 DEF Works
  <2>3. Neighbour(a, Eth0, gw[1])
    BY <1>1, <1>4, <2>2, NetworkAssumption DEF Neighbour
  <2>4. gw # <<>> /\ \A x \in a.default : x[1] # "v4"
    BY <1>1, <1>4, <1>8
  <2>5. d = [a EXCEPT !.default = a.default \cup {<<"v4", Eth0>>}]
    BY <2>2, <2>3, <2>4 DEF DefaultVia
  <2>6. <<"v4", Eth0>> \in d.default /\ d.addr = a.addr
    BY <1>5, <2>5 DEF IsNet, NetFields
  <2>. QED  BY <1>2, <1>4, <2>2, <2>6
<1>. QED  BY <1>1, <1>2, <1>7, <1>8

-----------------------------------------------------------------------------
(* The inductive invariant                                                 *)

Files ==
  [is : {"absent", "broken", "whole"}, text : Texts \cup {<<>>},
   size : {0} \cup {Size(t) : t \in Texts}]

Writing == {h \in Handlers : pc[h] = "write"}

\* The types of the variables that the conjuncts below do not give.
Types ==
  /\ pc \in [Handlers -> {"idle", "write"}]
  /\ asked \in [Handlers -> [config : MaybeConfig, auto : BOOLEAN]]
  /\ solo \in [Handlers -> BOOLEAN]
  /\ dropped \in BOOLEAN /\ harmed \in BOOLEAN
  /\ stage \in {"apply", "run"}
  /\ booted \in MaybeConfig /\ accepted \in MaybeConfig

\* A file that is whole has the text of some configuration.
FileInv == file \in Files /\ (file.is = "whole" => file.text \in Texts)

\* A handler that has the file open has truncated it, and was the only one
\* since then if it is still alone.
HandlerInv ==
  \A h \in Writing :
    /\ harmed /\ stage = "run"
    /\ \E c \in Configs : Valid(c) /\ asked[h].config = <<c>>
    /\ solo[h] => file.size = 0 /\ \A g \in Handlers : g # h => pc[g] = "idle"

\* The file holds what was accepted, until it is truncated.
AcceptedInv ==
  accepted # <<>> /\ ~harmed =>
    \E c \in Configs :
      Valid(c) /\ accepted = <<c>> /\ file.is = "whole" /\ file.text = Text(c)

\* No two interfaces of a configuration have the same name.
Distinct(c) ==
  \A j, k \in DOMAIN c.interfaces : c.interfaces[j].name = c.interfaces[k].name => j = k

\* keel-init goes through the interfaces in their order; the ones behind it are applied.
Through(c, k) ==
  /\ todo = SubSeq(c.interfaces, k, Len(c.interfaces))
  /\ \A j \in 1 .. k - 1 : Applied(net, c.interfaces[j])

BootInv ==
  /\ IsNet(net) /\ net.links = Hardware \cup {"lo"} /\ net.up \subseteq net.links
  /\ net.failed \in IpFaults
  /\ stage = "run" => todo = <<>>
  /\ stage = "apply" => booted # <<>>
  /\ \A c \in Range(booted) : Distinct(c) /\ \E k \in 1 .. 1 + Len(c.interfaces) : Through(c, k)

\* Every call in flight and every task that waits comes of a call of its own.
CountInv ==
  /\ timers \in Nat /\ timers + Cardinality(Writing) <= calls
  /\ calls \in 0 .. MaxCalls /\ faults \in 0 .. MaxFaults /\ crashes \in 0 .. MaxCrashes

Inv == Types /\ FileInv /\ HandlerInv /\ AcceptedInv /\ BootInv /\ CountInv

\* What load_from returns is a configuration that was written, and valid.
LEMMA LoadTyped ==
  ASSUME FileInv
  PROVE  Load(file) \in MaybeConfig /\ \A c \in Range(Load(file)) : Distinct(c)
<1>1. CASE file.is = "whole" /\ Valid(Parse(file.text))
  <2>1. PICK c \in Configs : file.text = Text(c)
    BY <1>1 DEF FileInv, Texts
  <2>2. Parse(file.text) = c
    BY <2>1, ConfigsBack
  <2>3. Load(file) = <<c>> /\ Valid(c)
    BY <1>1, <2>2 DEF Load
  <2>4. Distinct(c)
    <3>1. IsInjective([k \in DOMAIN c.interfaces |-> c.interfaces[k].name])
      BY <2>3 DEF Valid
    <3>. QED  BY <3>1 DEF IsInjective, Distinct
  <2>. QED  BY <2>3, <2>4, RangeOne DEF MaybeConfig
<1>2. CASE ~(file.is = "whole" /\ Valid(Parse(file.text)))
  BY <1>2, RangeEmpty DEF Load, MaybeConfig
<1>. QED  BY <1>1, <1>2

\* What was accepted is what the file loads as, until it is truncated.
LEMMA LoadAccepted ==
  ASSUME AcceptedInv, accepted # <<>>, ~harmed
  PROVE  Load(file) = accepted /\ accepted \in MaybeConfig
<1>1. PICK c \in Configs :
        Valid(c) /\ accepted = <<c>> /\ file.is = "whole" /\ file.text = Text(c)
  BY DEF AcceptedInv
<1>2. Parse(file.text) = c
  BY <1>1, ConfigsBack
<1>. QED  BY <1>1, <1>2 DEF Load, MaybeConfig

\* The handlers that have the file open can be counted.
LEMMA WritingFinite ==
  /\ IsFiniteSet(Writing) /\ Cardinality(Writing) \in Nat
  /\ Writing = {} => Cardinality(Writing) = 0
<1>1. Writing \subseteq Handlers
  BY DEF Writing
<1>2. IsFiniteSet(Writing)
  BY <1>1, NetworkAssumption, FS_Subset
<1>. QED  BY <1>2, FS_CardinalityType, FS_EmptySet

\* Every handler is idle when the agent is gone.
LEMMA KillWriting ==
  ASSUME Kill
  PROVE  Writing' = {}
BY DEF Kill, Writing

\* The handlers of a new agent have their types.
LEMMA KillTypes ==
  ASSUME Kill
  PROVE  /\ pc' \in [Handlers -> {"idle", "write"}]
         /\ asked' \in [Handlers -> [config : MaybeConfig, auto : BOOLEAN]]
         /\ solo' \in [Handlers -> BOOLEAN]
<1>1. NoCall \in [config : MaybeConfig, auto : BOOLEAN]
  BY DEF NoCall, MaybeConfig
<1>. QED  BY <1>1 DEF Kill

\* A handler that is through leaves the types as they are.
LEMMA IdleTypes ==
  ASSUME Types, NEW h \in Handlers, Idle(h)
  PROVE  /\ pc' \in [Handlers -> {"idle", "write"}]
         /\ asked' \in [Handlers -> [config : MaybeConfig, auto : BOOLEAN]]
         /\ solo' \in [Handlers -> BOOLEAN]
<1>1. NoCall \in [config : MaybeConfig, auto : BOOLEAN]
  BY DEF NoCall, MaybeConfig
<1>. HIDE DEF NoCall
<1>. QED  BY <1>1 DEF Idle, Types

\* A handler that is through leaves the others where they are.
LEMMA IdleWriting ==
  ASSUME Types, NEW h \in Writing, Idle(h)
  PROVE  /\ Writing' = Writing \ {h} /\ Cardinality(Writing') = Cardinality(Writing) - 1
         /\ \A g \in Writing' : asked'[g] = asked[g] /\ solo'[g] = solo[g]
         /\ \A g \in Handlers : pc[g] = "idle" => pc'[g] = "idle"
<1>1. /\ Writing' = Writing \ {h}
      /\ \A g \in Writing' : asked'[g] = asked[g] /\ solo'[g] = solo[g]
      /\ \A g \in Handlers : pc[g] = "idle" => pc'[g] = "idle"
  BY DEF Types, Idle, Writing
<1>2. Cardinality(Writing \ {h}) = Cardinality(Writing) - 1
  BY WritingFinite, FS_RemoveElement
<1>. QED  BY <1>1, <1>2

\* The interfaces that are left: all of them, one less, none.
LEMMA SubSeqSteps ==
  ASSUME NEW S, NEW s \in Seq(S), NEW k \in 1 .. 1 + Len(s)
  PROVE  /\ SubSeq(s, 1, Len(s)) = s
         /\ SubSeq(s, k, Len(s)) = <<>> => k = 1 + Len(s)
         /\ SubSeq(s, k, Len(s)) # <<>> =>
              /\ k \in 1 .. Len(s) /\ s[k] \in S
              /\ Head(SubSeq(s, k, Len(s))) = s[k]
              /\ Tail(SubSeq(s, k, Len(s))) = SubSeq(s, k + 1, Len(s))
<1>1. SubSeq(s, 1, Len(s)) = s
  OBVIOUS
<1>. DEFINE t == SubSeq(s, k, Len(s))
<1>2. t \in Seq(S) /\ Len(t) = 1 + Len(s) - k
  OBVIOUS
<1>3. t = <<>> => k = 1 + Len(s)
  BY <1>2
<1>4. ASSUME t # <<>>
      PROVE  /\ k \in 1 .. Len(s) /\ s[k] \in S /\ Head(t) = s[k]
             /\ Tail(t) = SubSeq(s, k + 1, Len(s))
  <2>1. k \in 1 .. Len(s)
    <3>1. CASE k = 1 + Len(s)
      BY <1>4, <3>1
    <3>. QED  BY <3>1
  <2>2. Head(t) = s[k] /\ s[k] \in S
    BY <2>1
  <2>3. Tail(t) = SubSeq(s, k + 1, Len(s))
    BY <2>1
  <2>. QED  BY <2>1, <2>2, <2>3
<1>. QED  BY <1>1, <1>3, <1>4

\* The invariant holds when a node boots for the first time.
LEMMA InitInv == Init => Inv
<1>. SUFFICES ASSUME Init PROVE Inv
  OBVIOUS
<1>1. Types
  <2>1. NoCall \in [config : MaybeConfig, auto : BOOLEAN]
    BY DEF NoCall, MaybeConfig
  <2>. HIDE DEF NoCall
  <2>. QED  BY <2>1 DEF Init, Types, MaybeConfig
<1>2. FileInv
  BY DEF Init, FileInv, Files, NoFile
<1>3. Writing = {}
  BY DEF Init, Writing
<1>4. HandlerInv /\ AcceptedInv
  BY <1>3 DEF Init, HandlerInv, AcceptedInv
<1>5. BootInv
  <2>1. Grows(Bare({}), net)
    <3>. DEFINE n == ConfigureLoopback(Bare({}))
                m == ConfigureFallback(n)
    <3>1. net = DefaultDns(m)
      BY DEF Init
    <3>2. Grows(Bare({}), n)
      BY BareIsNet, LoopbackGrows
    <3>. HIDE DEF n
    <3>3. Grows(n, m)
      BY <3>2, FallbackGrows DEF Grows
    <3>. HIDE DEF m
    <3>4. Grows(m, net)
      BY <3>1, <3>3, RestGrows DEF Grows
    <3>. QED  BY <3>2, <3>3, <3>4, GrowsTrans
  <2>2. /\ IsNet(net) /\ net.links = Hardware \cup {"lo"} /\ net.up \subseteq net.links
        /\ net.failed \in IpFaults
    BY <2>1, BareIsNet, NetworkAssumption DEF Grows
  <2>3. Range(booted) = {}
    BY RangeEmpty DEF Init
  <2>. QED  BY <2>2, <2>3 DEF Init, BootInv
<1>6. CountInv
  <2>1. MaxCalls \in Nat /\ MaxFaults \in Nat /\ MaxCrashes \in Nat
    BY NetworkAssumption
  <2>2. Cardinality(Writing) = 0
    BY <1>3, WritingFinite
  <2>3. timers = 0 /\ calls = 0 /\ faults = 0 /\ crashes = 0
    BY DEF Init
  <2>. QED  BY <2>1, <2>2, <2>3 DEF CountInv
<1>. QED  BY <1>1, <1>2, <1>4, <1>5, <1>6 DEF Inv

-----------------------------------------------------------------------------
(* Booting                                                                 *)

\* keel-init finds no configuration: the fallback; or it starts with the first
\* interface of the one it loads.
LEMMA BootBoots ==
  ASSUME FileInv, Boot
  PROVE  /\ BootInv' /\ booted' \in MaybeConfig /\ stage' \in {"apply", "run"}
         /\ (booted' = <<>> /\ Eth0 \in Hardware /\ \A f \in net'.failed : f[2] # Eth0) =>
              <<Eth0, FallbackNet>> \in net'.addr /\ <<"v4", Eth0>> \in net'.default
<1>1. booted' = Load(file) /\ booted' \in MaybeConfig /\ \A c \in Range(booted') : Distinct(c)
  BY LoadTyped DEF Boot
<1>2. PICK bad \in IpFaults :
        LET n == ConfigureLoopback(Bare(bad))
        IN  IF booted' = <<>>
            THEN stage' = "run" /\ todo' = <<>> /\ net' = DefaultDns(ConfigureFallback(n))
            ELSE stage' = "apply" /\ todo' = booted'[1].interfaces /\ net' = n
  BY DEF Boot
<1>. DEFINE n == ConfigureLoopback(Bare(bad))
            m == ConfigureFallback(n)
<1>3. /\ Grows(Bare(bad), n) /\ n.default = {} /\ IsNet(n)
      /\ n.links = Hardware \cup {"lo"} /\ n.up \subseteq n.links /\ n.failed = bad
  <2>1. Grows(Bare(bad), n) /\ n.default = {}
    BY BareIsNet, LoopbackGrows
  <2>. HIDE DEF n
  <2>. QED  BY <2>1, BareIsNet DEF Grows
<1>4. CASE booted' = <<>>
  <2>1. stage' = "run" /\ todo' = <<>> /\ net' = DefaultDns(m)
    BY <1>2, <1>4
  <2>. HIDE DEF n
  <2>2. /\ Grows(n, m)
        /\ (Eth0 \in n.links /\ \A f \in n.failed : f[2] # Eth0) =>
             <<Eth0, FallbackNet>> \in m.addr /\ <<"v4", Eth0>> \in m.default
    BY <1>3, FallbackGrows
  <2>. HIDE DEF m
  <2>3. Grows(m, net') /\ net'.default = m.default
    <3>1. IsNet(m)
      BY <2>2 DEF Grows
    <3>. QED  BY <2>1, <3>1, RestGrows
  <2>4. Grows(n, net')
    BY <2>2, <2>3, GrowsTrans
  <2>5. /\ IsNet(net') /\ net'.links = Hardware \cup {"lo"} /\ net'.up \subseteq net'.links
        /\ net'.failed \in IpFaults
    BY <1>3, <2>4 DEF Grows
  <2>6. Range(booted') = {}
    BY <1>4, RangeEmpty
  <2>7. BootInv'
    BY <1>4, <2>1, <2>5, <2>6 DEF BootInv
  <2>8. (Eth0 \in Hardware /\ \A f \in net'.failed : f[2] # Eth0) =>
           <<Eth0, FallbackNet>> \in net'.addr /\ <<"v4", Eth0>> \in net'.default
    BY <1>3, <2>2, <2>3, <2>4 DEF Grows
  <2>. QED  BY <1>1, <2>1, <2>7, <2>8
<1>5. CASE booted' # <<>>
  <2>1. PICK c \in Configs : booted' = <<c>>
    BY <1>1, <1>5 DEF MaybeConfig
  <2>2. stage' = "apply" /\ todo' = c.interfaces /\ net' = n
    BY <1>2, <1>5, <2>1
  <2>3. c.interfaces \in Seq(InterfaceConfigs)
    BY ConfigsBack DEF NetworkConfigs
  <2>4. Through(c, 1)' /\ 1 \in 1 .. 1 + Len(c.interfaces)
    BY <2>2, <2>3, SubSeqSteps DEF Through
  <2>5. Range(booted') = {c}
    BY <2>1, RangeOne
  <2>. HIDE DEF n
  <2>6. BootInv'
    BY <1>1, <1>3, <1>5, <2>2, <2>4, <2>5 DEF BootInv
  <2>. QED  BY <1>1, <1>5, <2>2, <2>6
<1>. QED  BY <1>4, <1>5

\* A boot, of an auto-reboot or a crash.
LEMMA BootInvariant ==
  ASSUME Inv, Boot, crashes' \in 0 .. MaxCrashes
  PROVE  Inv'
<1>1. BootInv' /\ booted' \in MaybeConfig /\ stage' \in {"apply", "run"}
  BY BootBoots DEF Inv
<1>2. UNCHANGED <<file, accepted, harmed, calls, faults>> /\ Kill /\ dropped' = FALSE
  BY DEF Boot
<1>3. Writing' = {}
  BY <1>2, KillWriting
<1>4. Types'
  BY <1>1, <1>2, KillTypes DEF Types, Inv
<1>5. FileInv' /\ AcceptedInv'
  BY <1>2 DEF Inv, FileInv, AcceptedInv
<1>6. HandlerInv'
  BY <1>3 DEF HandlerInv
<1>7. CountInv'
  <2>1. Cardinality({}) = 0
    BY FS_EmptySet
  <2>2. timers' = 0 /\ calls' = calls /\ faults' = faults
    BY <1>2 DEF Kill
  <2>. QED  BY <1>3, <2>1, <2>2 DEF CountInv, Inv
<1>. QED  BY <1>1, <1>4, <1>5, <1>6, <1>7 DEF Inv

\* The next interface: it is applied, and so stay the ones before it.
LEMMA ApplyInterfaceInvariant ==
  ASSUME Inv, ApplyInterface
  PROVE  Inv'
<1>1. /\ stage = "apply" /\ todo # <<>> /\ net' = ConfigureInterface(net, Head(todo))
      /\ todo' = Tail(todo)
      /\ UNCHANGED <<file, stage, booted, accepted, harmed, calls, faults, crashes>>
      /\ UNCHANGED <<pc, asked, solo, timers, dropped>>
  BY DEF ApplyInterface, callVars
<1>2. booted \in MaybeConfig /\ booted # <<>>
  BY <1>1 DEF Inv, Types, BootInv
<1>3. PICK c \in Configs : booted = <<c>>
  BY <1>2 DEF MaybeConfig
<1>4. Range(booted) = {c}
  BY <1>3, RangeOne
<1>5. PICK k \in 1 .. 1 + Len(c.interfaces) : Through(c, k) /\ Distinct(c)
  BY <1>4 DEF Inv, BootInv
<1>. DEFINE s == c.interfaces
<1>6. s \in Seq(InterfaceConfigs)
  BY ConfigsBack DEF NetworkConfigs
<1>7. /\ k \in 1 .. Len(s) /\ s[k] \in InterfaceConfigs /\ Head(todo) = s[k]
      /\ todo' = SubSeq(s, k + 1, Len(s))
  <2>1. todo = SubSeq(s, k, Len(s))
    BY <1>5 DEF Through
  <2>2. k \in 1 .. 1 + Len(s)
    OBVIOUS
  <2>. HIDE DEF s
  <2>3. SubSeq(s, k, Len(s)) # <<>> =>
          /\ k \in 1 .. Len(s) /\ s[k] \in InterfaceConfigs
          /\ Head(SubSeq(s, k, Len(s))) = s[k]
          /\ Tail(SubSeq(s, k, Len(s))) = SubSeq(s, k + 1, Len(s))
    BY <1>6, <2>2, SubSeqSteps
  <2>4. todo # <<>> /\ todo' = Tail(todo)
    BY <1>1
  <2>. QED  BY <2>1, <2>3, <2>4
<1>8. GrowsBut(net, net', s[k].name) /\ Applied(net', s[k])
  <2>1. IsNet(net) /\ Hardware \subseteq net.links
    BY DEF Inv, BootInv
  <2>. QED  BY <1>1, <1>7, <2>1, ConfigureInterfaceApplies
<1>9. Through(c, k + 1)' /\ k + 1 \in 1 .. 1 + Len(s)
  <2>0. Len(s) \in Nat
    BY <1>6
  <2>1. ASSUME NEW j \in 1 .. (k + 1) - 1  PROVE Applied(net', s[j])
    <3>1. CASE j = k
      BY <1>8, <3>1
    <3>2. CASE j \in 1 .. k - 1
      <4>1. Applied(net, s[j])
        BY <1>5, <3>2 DEF Through
      <4>2. j \in DOMAIN s /\ k \in DOMAIN s /\ j # k
        BY <1>6, <1>7, <2>0, <3>2
      <4>3. s[j].name # s[k].name
        BY <1>5, <4>2 DEF Distinct
      <4>. QED  BY <1>8, <4>1, <4>3, AppliedStays
    <3>. QED  BY <2>0, <3>1, <3>2, <1>7
  <2>2. k + 1 \in 1 .. 1 + Len(s)
    BY <1>7, <2>0
  <2>. QED  BY <1>7, <2>1, <2>2 DEF Through
<1>10. BootInv'
  <2>1. /\ IsNet(net') /\ net'.links = Hardware \cup {"lo"} /\ net'.up \subseteq net'.links
        /\ net'.failed \in IpFaults
    BY <1>8 DEF GrowsBut, Inv, BootInv
  <2>. QED  BY <1>1, <1>2, <1>4, <1>5, <1>9, <2>1 DEF BootInv
<1>11. Types' /\ FileInv' /\ HandlerInv' /\ AcceptedInv' /\ CountInv'
  BY <1>1 DEF Inv, Types, FileInv, HandlerInv, AcceptedInv, CountInv, Writing
<1>. QED  BY <1>10, <1>11 DEF Inv

\* The rest leaves the interfaces alone.
LEMMA ApplyRestInvariant ==
  ASSUME Inv, ApplyRest
  PROVE  Inv'
<1>. DEFINE c == booted[1]
            n == IF c.dns = <<>> THEN net ELSE ConfigureDns(net, c.dns[1].nameservers)
            m == ConfigureRoutes(n, Range(c.routes))
<1>1. /\ stage = "apply" /\ todo = <<>> /\ net' = DefaultDns(m) /\ stage' = "run"
      /\ UNCHANGED <<file, todo, booted, accepted, harmed, calls, faults, crashes>>
      /\ UNCHANGED <<pc, asked, solo, timers, dropped>>
  BY DEF ApplyRest, callVars
<1>2. IsNet(net)
  BY DEF Inv, BootInv
<1>3. Grows(net, net')
  <2>1. Grows(net, n) /\ IsNet(n)
    BY <1>2, RestGrows, GrowsSelf DEF Grows
  <2>. HIDE DEF n
  <2>2. Grows(n, m) /\ IsNet(m)
    BY <2>1, RestGrows DEF Grows
  <2>. HIDE DEF m
  <2>3. Grows(m, net')
    BY <1>1, <2>2, RestGrows
  <2>. QED  BY <2>1, <2>2, <2>3, GrowsTrans
<1>. HIDE DEF m
<1>4. \A d, k : Through(d, k) => Through(d, k)'
  BY <1>1, <1>3, AppliedKept DEF Through
<1>5. BootInv'
  <2>1. /\ IsNet(net') /\ net'.links = Hardware \cup {"lo"} /\ net'.up \subseteq net'.links
        /\ net'.failed \in IpFaults
    BY <1>3 DEF Grows, Inv, BootInv
  <2>. QED  BY <1>1, <1>4, <2>1 DEF Inv, BootInv
<1>6. Writing' = Writing /\ Writing = {}
  BY <1>1 DEF Inv, HandlerInv, Writing
<1>7. Types' /\ FileInv' /\ HandlerInv' /\ AcceptedInv' /\ CountInv'
  BY <1>1, <1>6 DEF Inv, Types, FileInv, HandlerInv, AcceptedInv, CountInv
<1>. QED  BY <1>5, <1>7 DEF Inv

-----------------------------------------------------------------------------
(* The handlers                                                            *)

\* What the handlers do leaves a boot alone.
LEMMA BootUnchanged ==
  ASSUME BootInv, UNCHANGED bootVars
  PROVE  BootInv'
<1>1. stage' = stage /\ todo' = todo /\ net' = net /\ booted' = booted
  BY DEF bootVars
<1>. QED  BY <1>1 DEF BootInv, Through

\* configure_network opens the file.
LEMMA OpenInvariant ==
  ASSUME Inv, NEW h \in Handlers, pc[h] = "idle", stage = "run", calls < MaxCalls,
         calls' = calls + 1, NEW c \in Configs, Valid(c), NEW auto \in BOOLEAN,
         Open(h, c, auto), UNCHANGED <<timers, dropped, bootVars, accepted, faults, crashes>>
  PROVE  Inv'
<1>. DEFINE q == [config |-> <<c>>, auto |-> auto]
<1>1. /\ file' = Truncated /\ harmed' = TRUE /\ pc' = [pc EXCEPT ![h] = "write"]
      /\ asked' = [asked EXCEPT ![h] = q]
      /\ solo' = [g \in Handlers |-> IF g = h THEN \A o \in Handlers : pc[o] = "idle"
                                     ELSE solo[g] /\ pc[g] = "idle"]
      /\ timers' = timers /\ dropped' = dropped /\ accepted' = accepted
      /\ faults' = faults /\ crashes' = crashes /\ stage' = stage /\ booted' = booted
  BY DEF Open, bootVars
<1>2. q \in [config : MaybeConfig, auto : BOOLEAN] /\ q.config = <<c>>
  BY DEF MaybeConfig
<1>. HIDE DEF q
<1>3. Types'
  BY <1>1, <1>2 DEF Inv, Types
<1>4. FileInv'
  BY <1>1 DEF FileInv, Files, Truncated
<1>5. Writing' = Writing \cup {h} /\ h \notin Writing
  BY <1>1 DEF Inv, Types, Writing
<1>6. HandlerInv'
  <2>1. file'.size = 0
    BY <1>1 DEF Truncated
  <2>2. ASSUME NEW g \in Writing'
        PROVE  /\ \E d \in Configs : Valid(d) /\ asked'[g].config = <<d>>
               /\ solo'[g] => \A o \in Handlers : o # g => pc'[o] = "idle"
    <3>1. CASE g = h
      BY <1>1, <1>2, <3>1 DEF Inv, Types
    <3>2. CASE g # h
      <4>1. g \in Writing /\ g \in Handlers /\ pc[g] = "write"
        BY <1>5, <3>2 DEF Writing
      <4>2. asked'[g] = asked[g] /\ solo'[g] = FALSE
        BY <1>1, <3>2, <4>1 DEF Inv, Types
      <4>3. \E d \in Configs : Valid(d) /\ asked[g].config = <<d>>
        BY <4>1 DEF Inv, HandlerInv
      <4>. QED  BY <4>2, <4>3
    <3>. QED  BY <3>1, <3>2
  <2>. QED  BY <1>1, <2>1, <2>2 DEF HandlerInv
<1>7. AcceptedInv'
  BY <1>1 DEF AcceptedInv
<1>8. BootInv'
  BY BootUnchanged DEF Inv
<1>9. CountInv'
  <2>1. Cardinality(Writing') = Cardinality(Writing) + 1
    BY <1>5, WritingFinite, FS_AddElement, Zenon
  <2>2. Cardinality(Writing) \in Nat /\ MaxCalls \in Nat
    BY WritingFinite, NetworkAssumption
  <2>. QED  BY <1>1, <2>1, <2>2 DEF Inv, CountInv
<1>. QED  BY <1>3, <1>4, <1>6, <1>7, <1>8, <1>9 DEF Inv

\* configure_network answers with an error and changes nothing, or opens the file.
LEMMA ConfigureInvariant ==
  ASSUME Inv, NEW h \in Handlers, Configure(h)
  PROVE  Inv'
<1>1. /\ stage = "run" /\ pc[h] = "idle" /\ calls < MaxCalls /\ calls' = calls + 1
      /\ UNCHANGED <<timers, dropped, bootVars, accepted, crashes>>
  BY DEF Configure
<1>2. PICK r \in Requests :
        IF Convertible(r) /\ Valid(ToConfig(r))
        THEN \/ Open(h, ToConfig(r), r.auto_reboot) /\ UNCHANGED faults
             \/ /\ faults < MaxFaults /\ faults' = faults + 1
                /\ UNCHANGED <<file, harmed, pc, asked, solo>>
        ELSE UNCHANGED <<file, harmed, pc, asked, solo, faults>>
  BY DEF Configure
<1>3. CASE /\ Convertible(r) /\ Valid(ToConfig(r))
           /\ Open(h, ToConfig(r), r.auto_reboot) /\ UNCHANGED faults
  <2>1. ToConfig(r) \in Configs
    BY <1>3 DEF Configs
  <2>2. r.auto_reboot \in BOOLEAN
    <3>1. r \in RequestMsg
      BY NetworkAssumption
    <3>. QED  BY <3>1 DEF RequestMsg
  <2>. QED  BY <1>1, <1>3, <2>1, <2>2, OpenInvariant
<1>4. CASE /\ UNCHANGED <<file, harmed, pc, asked, solo>>
           /\ faults' = faults \/ (faults < MaxFaults /\ faults' = faults + 1)
  <2>1. /\ UNCHANGED <<file, harmed, pc, asked, solo, timers, dropped, accepted, crashes>>
        /\ stage' = stage /\ booted' = booted
    BY <1>1, <1>4 DEF bootVars
  <2>2. Writing' = Writing
    BY <2>1 DEF Writing
  <2>3. Types' /\ FileInv' /\ AcceptedInv'
    BY <2>1 DEF Inv, Types, FileInv, AcceptedInv
  <2>4. HandlerInv'
    BY <2>1, <2>2 DEF Inv, HandlerInv
  <2>5. BootInv'
    BY <1>1, BootUnchanged DEF Inv
  <2>6. CountInv'
    <3>1. MaxCalls \in Nat /\ MaxFaults \in Nat /\ Cardinality(Writing) \in Nat
      BY WritingFinite, NetworkAssumption
    <3>. QED  BY <1>1, <1>4, <2>1, <2>2, <3>1 DEF Inv, CountInv
  <2>. QED  BY <2>3, <2>4, <2>5, <2>6 DEF Inv
<1>. QED  BY <1>2, <1>3, <1>4

\* The configuration is written over what the file holds by then, and accepted.
LEMMA WriteInvariant ==
  ASSUME Inv, NEW h \in Handlers, Write(h)
  PROVE  Inv'
<1>1. /\ pc[h] = "write" /\ accepted' = asked[h].config /\ harmed' = ~solo[h]
      /\ file' = Overwrite(file, Text(asked[h].config[1]))
      /\ timers' = IF asked[h].auto THEN timers + 1 ELSE timers
      /\ Idle(h) /\ UNCHANGED bootVars /\ UNCHANGED <<dropped, calls, faults, crashes>>
  BY DEF Write
<1>2. h \in Writing
  BY <1>1 DEF Writing
<1>3. PICK c \in Configs : Valid(c) /\ asked[h].config = <<c>>
  BY <1>2 DEF Inv, HandlerInv
<1>. DEFINE t == Text(c)
<1>4. t \in Texts /\ Size(t) \in Nat
  BY SizeAssumption DEF Texts
<1>5. file' = IF Size(t) >= file.size THEN [is |-> "whole", text |-> t, size |-> Size(t)]
              ELSE [file EXCEPT !.is = "broken", !.text = <<>>]
  BY <1>1, <1>3 DEF Overwrite
<1>6. /\ Writing' = Writing \ {h} /\ Cardinality(Writing') = Cardinality(Writing) - 1
      /\ \A g \in Writing' : asked'[g] = asked[g] /\ solo'[g] = solo[g]
      /\ \A g \in Handlers : pc[g] = "idle" => pc'[g] = "idle"
  BY <1>1, <1>2, IdleWriting DEF Inv
<1>7. Types'
  <2>1. accepted' \in MaybeConfig /\ harmed' \in BOOLEAN
    BY <1>1, <1>3 DEF Inv, Types, MaybeConfig
  <2>2. stage' = stage /\ booted' = booted
    BY <1>1 DEF bootVars
  <2>. QED  BY <1>1, <2>1, <2>2, IdleTypes DEF Inv, Types
<1>. HIDE DEF t
<1>8. FileInv'
  BY <1>4, <1>5 DEF Inv, FileInv, Files
<1>9. solo[h] => Writing' = {} /\ file.size = 0
  BY <1>2, <1>6 DEF Inv, HandlerInv, Writing
<1>10. HandlerInv'
  <2>1. ASSUME NEW g \in Writing'
        PROVE  /\ harmed' /\ stage' = "run"
               /\ \E d \in Configs : Valid(d) /\ asked'[g].config = <<d>>
               /\ ~solo'[g]
    <3>1. g \in Writing /\ g # h /\ g \in Handlers /\ pc[g] = "write"
      BY <1>6 DEF Writing
    <3>2. ~solo[h] /\ ~solo[g]
      BY <1>1, <1>2, <3>1 DEF Inv, HandlerInv
    <3>3. /\ stage = "run"
          /\ \E d \in Configs : Valid(d) /\ asked[g].config = <<d>>
      BY <3>1 DEF Inv, HandlerInv
    <3>4. stage' = stage
      BY <1>1 DEF bootVars
    <3>. QED  BY <1>1, <1>6, <3>2, <3>3, <3>4
  <2>. QED  BY <2>1 DEF HandlerInv
<1>11. AcceptedInv'
  <2>. SUFFICES ASSUME solo[h]
                PROVE  file'.is = "whole" /\ file'.text = Text(c)
    BY <1>1, <1>3 DEF AcceptedInv
  <2>1. Size(t) >= file.size
    BY <1>4, <1>9
  <2>. QED  BY <1>5, <2>1 DEF t
<1>12. BootInv'
  BY <1>1, BootUnchanged DEF Inv
<1>13. CountInv'
  <2>1. Cardinality(Writing) \in Nat /\ MaxCalls \in Nat
    BY WritingFinite, NetworkAssumption
  <2>2. timers' \in {timers, timers + 1}
    BY <1>1
  <2>. QED  BY <1>1, <1>6, <2>1, <2>2 DEF Inv, CountInv
<1>. QED  BY <1>7, <1>8, <1>10, <1>11, <1>12, <1>13 DEF Inv

\* The write fails: the file stays truncated, or holds a part of the text.
LEMMA WriteFailsInvariant ==
  ASSUME Inv, NEW h \in Handlers, WriteFails(h)
  PROVE  Inv'
<1>1. /\ pc[h] = "write" /\ faults < MaxFaults /\ faults' = faults + 1
      /\ file' \in {file, [file EXCEPT !.is = "broken", !.text = <<>>]}
      /\ Idle(h) /\ UNCHANGED bootVars
      /\ UNCHANGED <<timers, dropped, accepted, harmed, calls, crashes>>
  BY DEF WriteFails
<1>2. h \in Writing
  BY <1>1 DEF Writing
<1>3. harmed /\ (solo[h] => \A g \in Handlers : g # h => pc[g] = "idle")
  BY <1>2 DEF Inv, HandlerInv
<1>4. /\ Writing' = Writing \ {h} /\ Cardinality(Writing') = Cardinality(Writing) - 1
      /\ \A g \in Writing' : asked'[g] = asked[g] /\ solo'[g] = solo[g]
      /\ \A g \in Handlers : pc[g] = "idle" => pc'[g] = "idle"
  BY <1>1, <1>2, IdleWriting DEF Inv
<1>5. stage' = stage /\ booted' = booted
  BY <1>1 DEF bootVars
<1>6. Types'
  BY <1>1, <1>5, IdleTypes DEF Inv, Types
<1>7. FileInv' /\ file'.size = file.size
  BY <1>1 DEF Inv, FileInv, Files
<1>8. HandlerInv'
  <2>1. ASSUME NEW g \in Writing'
        PROVE  /\ stage = "run"
               /\ \E d \in Configs : Valid(d) /\ asked[g].config = <<d>>
               /\ ~solo[g]
    <3>1. g \in Writing /\ g # h
      BY <1>4
    <3>. QED  BY <1>1, <3>1 DEF Inv, HandlerInv
  <2>. QED  BY <1>1, <1>3, <1>4, <1>5, <2>1 DEF HandlerInv
<1>9. AcceptedInv'
  BY <1>1, <1>3 DEF AcceptedInv
<1>10. BootInv'
  BY <1>1, BootUnchanged DEF Inv
<1>11. CountInv'
  <2>1. Cardinality(Writing) \in Nat /\ MaxFaults \in Nat
    BY WritingFinite, NetworkAssumption
  <2>. QED  BY <1>1, <1>4, <2>1 DEF Inv, CountInv
<1>. QED  BY <1>6, <1>7, <1>8, <1>9, <1>10, <1>11 DEF Inv

\* The agent exits, or an auto-reboot does not come.
LEMMA TasksInvariant ==
  ASSUME Inv, AgentExit \/ AutoRebootFails
  PROVE  Inv'
<1>1. CASE AgentExit
  <2>1. /\ crashes < MaxCrashes /\ crashes' = crashes + 1 /\ Kill
        /\ dropped' = (dropped \/ timers > 0) /\ UNCHANGED bootVars
        /\ UNCHANGED <<file, accepted, harmed, calls, faults>>
    BY <1>1 DEF AgentExit
  <2>2. Writing' = {}
    BY <2>1, KillWriting
  <2>3. stage' = stage /\ booted' = booted /\ dropped' \in BOOLEAN
    BY <2>1 DEF bootVars
  <2>4. Types'
    BY <2>1, <2>3, KillTypes DEF Inv, Types
  <2>5. FileInv' /\ AcceptedInv'
    BY <2>1 DEF Inv, FileInv, AcceptedInv
  <2>6. HandlerInv'
    BY <2>2 DEF HandlerInv
  <2>7. BootInv'
    BY <2>1, BootUnchanged DEF Inv
  <2>8. CountInv'
    <3>1. Cardinality(Writing') = 0 /\ MaxCrashes \in Nat
      BY <2>2, FS_EmptySet, NetworkAssumption
    <3>2. timers' = 0
      BY <2>1 DEF Kill
    <3>. QED  BY <2>1, <3>1, <3>2 DEF Inv, CountInv
  <2>. QED  BY <2>4, <2>5, <2>6, <2>7, <2>8 DEF Inv
<1>2. CASE AutoRebootFails
  <2>1. /\ timers > 0 /\ timers' = timers - 1 /\ dropped' = TRUE
        /\ faults < MaxFaults /\ faults' = faults + 1 /\ UNCHANGED bootVars
        /\ UNCHANGED <<file, pc, asked, solo, accepted, harmed, calls, crashes>>
    BY <1>2 DEF AutoRebootFails
  <2>2. Writing' = Writing /\ stage' = stage /\ booted' = booted
    BY <2>1 DEF Writing, bootVars
  <2>3. Types' /\ FileInv' /\ AcceptedInv'
    BY <2>1, <2>2 DEF Inv, Types, FileInv, AcceptedInv
  <2>4. HandlerInv'
    BY <2>1, <2>2 DEF Inv, HandlerInv
  <2>5. BootInv'
    BY <2>1, BootUnchanged DEF Inv
  <2>6. CountInv'
    <3>1. Cardinality(Writing) \in Nat /\ MaxFaults \in Nat
      BY WritingFinite, NetworkAssumption
    <3>. QED  BY <2>1, <2>2, <3>1 DEF Inv, CountInv
  <2>. QED  BY <2>3, <2>4, <2>5, <2>6 DEF Inv
<1>. QED  BY <1>1, <1>2

-----------------------------------------------------------------------------
(* The theorems                                                            *)

\* Every step preserves the invariant.
LEMMA NextInvariant == Inv /\ [Next]_vars => Inv'
<1>. SUFFICES ASSUME Inv, [Next]_vars PROVE Inv'
  OBVIOUS
<1>1. CASE ApplyInterface
  BY <1>1, ApplyInterfaceInvariant
<1>2. CASE ApplyRest
  BY <1>2, ApplyRestInvariant
<1>3. ASSUME NEW h \in Handlers, Configure(h) \/ Write(h) \/ WriteFails(h)
      PROVE  Inv'
  BY <1>3, ConfigureInvariant, WriteInvariant, WriteFailsInvariant
<1>4. CASE AutoReboot
  <2>1. Boot /\ crashes' \in 0 .. MaxCrashes
    BY <1>4 DEF AutoReboot, Inv, CountInv
  <2>. QED  BY <2>1, BootInvariant
<1>5. CASE Crash
  <2>1. MaxCrashes \in Nat
    BY NetworkAssumption
  <2>2. Boot /\ crashes' \in 0 .. MaxCrashes
    BY <1>5, <2>1 DEF Crash, Inv, CountInv
  <2>. QED  BY <2>2, BootInvariant
<1>6. CASE AutoRebootFails \/ AgentExit
  BY <1>6, TasksInvariant
<1>7. CASE UNCHANGED vars
  <2>1. /\ UNCHANGED <<file, pc, asked, solo, timers, dropped, accepted, harmed>>
        /\ UNCHANGED <<calls, faults, crashes>> /\ UNCHANGED bootVars
    BY <1>7 DEF vars, callVars
  <2>2. Writing' = Writing /\ stage' = stage /\ booted' = booted
    BY <2>1 DEF Writing, bootVars
  <2>3. Types' /\ FileInv' /\ AcceptedInv' /\ CountInv'
    BY <2>1, <2>2 DEF Inv, Types, FileInv, AcceptedInv, CountInv
  <2>4. HandlerInv'
    BY <2>1, <2>2 DEF Inv, HandlerInv
  <2>5. BootInv'
    BY <2>1, BootUnchanged DEF Inv
  <2>. QED  BY <2>3, <2>4, <2>5 DEF Inv
<1>. QED  BY <1>1, <1>2, <1>3, <1>4, <1>5, <1>6, <1>7 DEF Next

\* The invariant holds in every state the node and its agent can be in.
THEOREM Invariant == Spec => []Inv
BY InitInv, NextInvariant, PTL DEF Spec

\* keel-init has still to configure a tail of the configuration it loaded.
LEMMA TodoTyped ==
  ASSUME Inv
  PROVE  todo \in {<<>>} \cup UNION {{SubSeq(c.interfaces, k, Len(c.interfaces))
                                         : k \in 1 .. 1 + Len(c.interfaces)} : c \in Configs}
<1>. DEFINE T(d) == {SubSeq(d.interfaces, j, Len(d.interfaces))
                       : j \in 1 .. 1 + Len(d.interfaces)}
            U == UNION {T(d) : d \in Configs}
<1>. SUFFICES todo \in {<<>>} \cup U
  OBVIOUS
<1>1. CASE stage = "run"
  <2>. HIDE DEF U
  <2>. QED  BY <1>1 DEF Inv, BootInv
<1>2. CASE stage = "apply"
  <2>1. booted \in MaybeConfig /\ booted # <<>>
    BY <1>2 DEF Inv, Types, BootInv
  <2>2. PICK c \in Configs : booted = <<c>>
    BY <2>1 DEF MaybeConfig
  <2>3. Range(booted) = {c}
    BY <2>2, RangeOne
  <2>4. PICK k \in 1 .. 1 + Len(c.interfaces) :
          todo = SubSeq(c.interfaces, k, Len(c.interfaces))
    BY <2>3 DEF Inv, BootInv, Through
  <2>5. todo \in T(c)
    BY <2>4
  <2>. HIDE DEF T
  <2>. QED  BY <2>5
<1>. QED  BY <1>1, <1>2 DEF Inv, Types

\* Type correctness of the agent's handlers and of keel-init's boot: no more
\* auto-reboots wait than calls were made, keel-init has always a tail of the
\* configuration it loaded to do, and no link is up that does not exist.
THEOREM TypeCorrect == Spec => []TypeOK
<1>1. Inv => TypeOK
  <2>. SUFFICES ASSUME Inv PROVE TypeOK
    OBVIOUS
  <2>1. timers \in 0 .. MaxCalls /\ calls \in 0 .. MaxCalls
    <3>1. Cardinality(Writing) \in Nat /\ MaxCalls \in Nat
      BY WritingFinite, NetworkAssumption
    <3>. QED  BY <3>1 DEF Inv, CountInv
  <2>2. faults \in 0 .. MaxFaults /\ crashes \in 0 .. MaxCrashes
    BY DEF Inv, CountInv
  <2>3. net.up \subseteq net.links /\ net.failed \in IpFaults
    BY DEF Inv, BootInv
  <2>. QED  BY <2>1, <2>2, <2>3, TodoTyped DEF Inv, Types, FileInv, Files, TypeOK
<1>. QED  BY <1>1, Invariant, PTL

\* StaticIsUp: every static interface of the loaded configuration whose link
\* works is up with its IPv4 address once the agent runs, and with all its IPv6
\* addresses unless its MTU is below 1280, in whatever order keel-init went
\* through the interfaces and whatever failed for, or was done to, the others.
THEOREM StaticIsUpSafe == Spec => []StaticIsUp
<1>1. Inv => StaticIsUp
  <2>. SUFFICES ASSUME Inv, stage = "run", NEW c \in Range(booted),
                       NEW i \in Range(c.interfaces)
                PROVE  Applied(net, i)
    BY DEF StaticIsUp, Applied
  <2>1. booted \in MaybeConfig /\ booted # <<>>
    BY RangeEmpty DEF Inv, Types
  <2>2. PICK d \in Configs : booted = <<d>>
    BY <2>1 DEF MaybeConfig
  <2>3. c = d
    BY <2>2, RangeOne
  <2>. DEFINE s == c.interfaces
  <2>4. s \in Seq(InterfaceConfigs)
    BY <2>3, ConfigsBack DEF NetworkConfigs
  <2>5. PICK k \in 1 .. 1 + Len(s) : Through(c, k)
    BY DEF Inv, BootInv
  <2>6. /\ SubSeq(s, k, Len(s)) = <<>>
        /\ \A j \in 1 .. k - 1 : Applied(net, s[j])
    BY <2>5 DEF Through, Inv, BootInv
  <2>. HIDE DEF s
  <2>7. k = 1 + Len(s)
    BY <2>4, <2>5, <2>6, SubSeqSteps
  <2>8. PICK j \in DOMAIN s : i = s[j]
    BY DEF Range, s
  <2>9. j \in 1 .. k - 1
    BY <2>4, <2>7, <2>8
  <2>. QED  BY <2>6, <2>8, <2>9
<1>. QED  BY <1>1, Invariant, PTL

\* ShownIsAccepted: what get_network_config answers, sent back to
\* configure_network, is the configuration accepted last.
THEOREM ShownIsAcceptedSafe == Spec => []ShownIsAccepted
<1>1. Inv => ShownIsAccepted
  <2>. SUFFICES ASSUME Inv, accepted # <<>>, ~harmed
                PROVE  Convertible(Shown) /\ <<ToConfig(Shown)>> = accepted
    BY DEF ShownIsAccepted
  <2>1. Load(file) = accepted /\ accepted \in MaybeConfig
    BY LoadAccepted DEF Inv
  <2>2. PICK c \in Configs : accepted = <<c>>
    BY <2>1 DEF MaybeConfig
  <2>3. Shown = FromConfig(c)
    BY <2>1, <2>2 DEF Shown
  <2>. QED  BY <2>2, <2>3, ConfigsBack
<1>. QED  BY <1>1, Invariant, PTL

\* NextBootApplies: a boot loads the configuration accepted last, unless the
\* file was truncated since and no write has had it for itself.
THEOREM NextBootAppliesSafe == Spec => NextBootApplies
<1>1. Inv /\ [Next]_vars =>
        [(AutoReboot \/ Crash) /\ accepted # <<>> /\ ~harmed => booted' = accepted]_vars
  <2>. SUFFICES ASSUME Inv, AutoReboot \/ Crash, accepted # <<>>, ~harmed
                PROVE  booted' = accepted
    OBVIOUS
  <2>1. booted' = Load(file)
    BY DEF AutoReboot, Crash, Boot
  <2>. QED  BY <2>1, LoadAccepted DEF Inv
<1>. QED  BY <1>1, Invariant, PTL DEF Spec, NextBootApplies

\* SpoiltFileIsAccessible, for a machine that has an eth0: a boot that finds no
\* whole file leaves the node with the fallback address and a default route,
\* unless a command for eth0 fails.
THEOREM SpoiltFileIsAccessibleSafe ==
  ASSUME Eth0 \in Hardware
  PROVE  Spec => SpoiltFileIsAccessible
<1>1. Inv /\ [Next]_vars =>
        [(AutoReboot \/ Crash) /\ file.is # "whole" =>
           \/ \E f \in net'.failed : f[2] = Eth0
           \/ <<Eth0, FallbackNet>> \in net'.addr /\ <<"v4", Eth0>> \in net'.default]_vars
  <2>. SUFFICES ASSUME Inv, AutoReboot \/ Crash, file.is # "whole",
                       \A f \in net'.failed : f[2] # Eth0
                PROVE  <<Eth0, FallbackNet>> \in net'.addr /\ <<"v4", Eth0>> \in net'.default
    OBVIOUS
  <2>1. Boot
    BY DEF AutoReboot, Crash
  <2>2. booted' = <<>>
    BY <2>1 DEF Boot, Load
  <2>. QED  BY <2>1, <2>2, BootBoots DEF Inv
<1>. QED  BY <1>1, Invariant, PTL DEF Spec, SpoiltFileIsAccessible
=============================================================================
