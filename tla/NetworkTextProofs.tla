------------------------- MODULE NetworkTextProofs --------------------------
(***************************************************************************)
(* Lemmas about the conversions of NetworkConfig: what a request becomes,  *)
(* that its JSON text is parsed back to what was written, and that what    *)
(* get_network_config answers is converted back to what was stored.        *)
(***************************************************************************)
EXTENDS NetworkConfig, TLAPS

\* What the requests become: the types of pkg/config.
Options == {<<>>} \cup {<<x>> : x \in STRING \ {""}}
Metrics == {<<>>} \cup {<<x>> : x \in Nat \ {0}}
StaticConfigs ==
  [v4 : STRING, gateway : Options, mtu : Nat \ {0}, v6 : Seq(STRING), gateway6 : Options,
   auto : BOOLEAN]
DhcpIps == [type : {"dhcp"}]
StaticIps == [type : {"static"}, static : StaticConfigs]
IpConfigs == DhcpIps \cup StaticIps
VlanConfigs == [type : {"vlan"}, parent : STRING, id : Nat, ip : IpConfigs]
BondConfigs == [type : {"bond"}, mode : BondingModes, slaves : Seq(STRING), ip : IpConfigs]
InterfaceConfigs == [name : STRING, config : IpConfigs \cup VlanConfigs \cup BondConfigs]
RouteConfigs == [destination : STRING, gateway : STRING, metric : Metrics]
NetworkConfigs ==
  [interfaces : Seq(InterfaceConfigs), dns : Seq(DnsMsg), routes : Seq(RouteConfigs)]

-----------------------------------------------------------------------------
(* Records                                                                 *)

\* One field of a record is replaced and the others stay.
LEMMA InterfaceUpdate ==
  ASSUME NEW N, NEW C, NEW i \in [name : N, config : C], NEW x
  PROVE  [i EXCEPT !.config = x] = [name |-> i.name, config |-> x]
OBVIOUS

\* The same for a static address configuration.
LEMMA StaticUpdate ==
  ASSUME NEW S, NEW ip \in [type : {"static"}, static : S], NEW x
  PROVE  [ip EXCEPT !.static = x] = [type |-> "static", static |-> x]
OBVIOUS

\* The same for a VLAN.
LEMMA VlanUpdate ==
  ASSUME NEW P, NEW D, NEW I, NEW v \in [type : {"vlan"}, parent : P, id : D, ip : I], NEW x
  PROVE  [v EXCEPT !.ip = x] = [type |-> "vlan", parent |-> v.parent, id |-> v.id, ip |-> x]
OBVIOUS

\* The same for a bond.
LEMMA BondUpdate ==
  ASSUME NEW M, NEW L, NEW I, NEW b \in [type : {"bond"}, mode : M, slaves : L, ip : I], NEW x
  PROVE  [b EXCEPT !.ip = x] = [type |-> "bond", mode |-> b.mode, slaves |-> b.slaves, ip |-> x]
OBVIOUS

\* The same for a route.
LEMMA RouteUpdate ==
  ASSUME NEW D, NEW G, NEW M, NEW r \in [destination : D, gateway : G, metric : M], NEW x
  PROVE  [r EXCEPT !.metric = x] =
           [destination |-> r.destination, gateway |-> r.gateway, metric |-> x]
OBVIOUS

\* A record without the fields that are skipped, filled up again.
LEMMA FillSkip ==
  ASSUME NEW F, NEW K \in SUBSET F, NEW r, r = [f \in F |-> r[f]],
         NEW d, DOMAIN d \subseteq F, K \subseteq DOMAIN d, \A f \in K : d[f] = <<>>
  PROVE  Fill(Skip(r, K), d) = r
<1>. DEFINE t == [f \in {g \in F : g \notin K \/ r[g] # <<>>} |-> r[f]]
<1>0. DOMAIN r = F
  OBVIOUS
<1>1. Skip(r, K) = t
  BY <1>0 DEF Skip, RestrictDomain, Restrict
<1>2. DOMAIN t = {g \in F : g \notin K \/ r[g] # <<>>}
  OBVIOUS
<1>3. DOMAIN t \cup DOMAIN d = F
  BY <1>2
<1>4. ASSUME NEW f \in F
      PROVE  (IF f \in DOMAIN t THEN t[f] ELSE d[f]) = r[f]
  BY <1>2
<1>. HIDE DEF t
<1>5. Fill(t, d) = [f \in F |-> r[f]]
  BY <1>3, <1>4 DEF Fill
<1>. QED  BY <1>1, <1>5

-----------------------------------------------------------------------------
(* Static configurations                                                   *)

\* An empty string is no option, and an option is never an empty string.
LEMMA OptBack ==
  /\ \A x \in STRING : Opt(x) \in Options
  /\ \A o \in Options : Opt(OrEmpty(o)) = o
<1>1. \A x \in STRING : Opt(x) \in Options
  BY DEF Opt, Options
<1>2. ASSUME NEW o \in Options  PROVE Opt(OrEmpty(o)) = o
  <2>1. CASE o = <<>>
    <3>1. OrEmpty(o) = ""
      BY <2>1 DEF OrEmpty
    <3>2. Opt("") = <<>>
      BY DEF Opt
    <3>. QED  BY <2>1, <3>1, <3>2, Zenon
  <2>2. ASSUME NEW x \in STRING \ {""}, o = <<x>>
        PROVE  Opt(OrEmpty(o)) = o
    <3>1. o # <<>> /\ o[1] = x
      BY <2>2
    <3>. QED  BY <2>2, <3>1 DEF OrEmpty, Opt
  <2>. QED  BY <2>1, <2>2 DEF Options
<1>. QED  BY <1>1, <1>2

\* From a message to a configuration.
LEMMA ToStaticType ==
  ASSUME NEW p \in StaticMsg
  PROVE  ToStatic(p) \in StaticConfigs
<1>1. /\ p.v4 \in STRING /\ p.v6 \in Seq(STRING) /\ p.auto \in BOOLEAN /\ p.mtu \in Nat
      /\ p.gateway \in STRING /\ p.gateway6 \in STRING
  BY DEF StaticMsg
<1>2. Opt(p.gateway) \in Options /\ Opt(p.gateway6) \in Options
  BY <1>1, OptBack
<1>3. (IF p.mtu = 0 THEN 1500 ELSE p.mtu) \in Nat \ {0}
  BY <1>1
<1>. QED  BY <1>1, <1>2, <1>3 DEF StaticConfigs, ToStatic

\* serde skips what has its default, and parsing puts it back.
LEMMA StaticTextBack ==
  ASSUME NEW s \in StaticConfigs
  PROVE  ParseStatic(StaticText(s)) = s
<1>. DEFINE F == {"v4", "gateway", "mtu", "v6", "gateway6", "auto"}
            K == {"gateway", "v6", "gateway6"}
<1>1. s = [f \in F |-> s[f]]
  BY DEF StaticConfigs
<1>2. /\ DOMAIN StaticDefault \subseteq F /\ K \subseteq DOMAIN StaticDefault
      /\ \A f \in K : StaticDefault[f] = <<>>
  BY DEF StaticDefault
<1>3. K \in SUBSET F
  OBVIOUS
<1>. HIDE DEF F, K
<1>4. Fill(Skip(s, K), StaticDefault) = s
  BY <1>1, <1>2, <1>3, FillSkip, Zenon
<1>. QED  BY <1>4 DEF ParseStatic, StaticText, K

\* What is shown, sent back, is what was stored.
LEMMA StaticBack ==
  ASSUME NEW s \in StaticConfigs
  PROVE  ToStatic(FromStatic(s)) = s
<1>. DEFINE u == FromStatic(s)
<1>1. /\ s.gateway \in Options /\ s.gateway6 \in Options /\ s.mtu # 0
      /\ s = [v4 |-> s.v4, gateway |-> s.gateway, mtu |-> s.mtu, v6 |-> s.v6,
              gateway6 |-> s.gateway6, auto |-> s.auto]
  BY DEF StaticConfigs
<1>2. /\ u.v4 = s.v4 /\ u.gateway = OrEmpty(s.gateway) /\ u.mtu = s.mtu /\ u.v6 = s.v6
      /\ u.gateway6 = OrEmpty(s.gateway6) /\ u.auto = s.auto
  BY DEF FromStatic, StaticConfigs
<1>. HIDE DEF u
<1>3. Opt(u.gateway) = s.gateway /\ Opt(u.gateway6) = s.gateway6
  BY <1>1, <1>2, OptBack
<1>4. ToStatic(u) = [v4 |-> s.v4, gateway |-> s.gateway, mtu |-> s.mtu, v6 |-> s.v6,
                     gateway6 |-> s.gateway6, auto |-> s.auto]
  BY <1>1, <1>2, <1>3 DEF ToStatic
<1>. QED  BY <1>1, <1>4 DEF u

-----------------------------------------------------------------------------
(* Address configurations                                                  *)

\* The addresses of an interface, on the way from a request ...
LEMMA ToIpType ==
  ASSUME NEW p \in IpMsg
  PROVE  ToIp(p) \in IpConfigs
<1>1. CASE p.type = "static"
  <2>1. p.static \in StaticMsg
    BY <1>1 DEF IpMsg
  <2>. QED  BY <1>1, <2>1, ToStaticType DEF ToIp, IpConfigs, StaticIps
<1>2. CASE p.type # "static"
  BY <1>2 DEF ToIp, IpConfigs, DhcpIps
<1>. QED  BY <1>1, <1>2

\* ... through the JSON text ...
LEMMA IpTextBack ==
  ASSUME NEW ip \in IpConfigs
  PROVE  /\ OfStatic(StaticText, ip).type = ip.type
         /\ OfStatic(ParseStatic, OfStatic(StaticText, ip)) = ip
<1>1. CASE ip \in DhcpIps
  <2>1. ip.type = "dhcp"
    BY <1>1 DEF DhcpIps
  <2>. QED  BY <2>1 DEF OfStatic
<1>2. CASE ip \in StaticIps
  <2>. DEFINE s == ip.static
              t == [type |-> "static", static |-> StaticText(s)]
  <2>1. s \in StaticConfigs /\ ip.type = "static" /\ ip = [type |-> "static", static |-> s]
    BY <1>2 DEF StaticIps
  <2>2. OfStatic(StaticText, ip) = t
    BY <1>2, <2>1, StaticUpdate DEF OfStatic, StaticIps
  <2>3. t \in [type : {"static"}, static : {StaticText(s)}] /\ t.type = "static"
        /\ t.static = StaticText(s)
    OBVIOUS
  <2>. HIDE DEF t
  <2>4. OfStatic(ParseStatic, t) = [type |-> "static", static |-> ParseStatic(StaticText(s))]
    BY <2>3, StaticUpdate DEF OfStatic
  <2>. QED  BY <2>1, <2>2, <2>3, <2>4, StaticTextBack
<1>. QED  BY <1>1, <1>2 DEF IpConfigs

\* ... and back to a message.
LEMMA IpBack ==
  ASSUME NEW ip \in IpConfigs
  PROVE  /\ OfStatic(FromStatic, ip).type = ip.type
         /\ ToIp(OfStatic(FromStatic, ip)) = ip
         /\ ip.type = "static" =>
              /\ [OfStatic(FromStatic, ip) EXCEPT !.static = ToStatic(@)] = ip
         /\ ip.type = "dhcp" => OfStatic(FromStatic, ip) = ip
<1>1. CASE ip \in DhcpIps
  <2>1. ip.type = "dhcp" /\ ip = [type |-> "dhcp"]
    BY <1>1 DEF DhcpIps
  <2>. QED  BY <2>1 DEF OfStatic, ToIp
<1>2. CASE ip \in StaticIps
  <2>. DEFINE s == ip.static
              u == [type |-> "static", static |-> FromStatic(s)]
  <2>1. s \in StaticConfigs /\ ip.type = "static" /\ ip = [type |-> "static", static |-> s]
    BY <1>2 DEF StaticIps
  <2>2. OfStatic(FromStatic, ip) = u
    BY <1>2, <2>1, StaticUpdate DEF OfStatic, StaticIps
  <2>3. u \in [type : {"static"}, static : {FromStatic(s)}] /\ u.type = "static"
        /\ u.static = FromStatic(s)
    OBVIOUS
  <2>. HIDE DEF u
  <2>4. [u EXCEPT !.static = ToStatic(@)] = [type |-> "static", static |-> ToStatic(FromStatic(s))]
    BY <2>3, StaticUpdate
  <2>5. ToIp(u) = [type |-> "static", static |-> ToStatic(FromStatic(s))]
    BY <2>3 DEF ToIp
  <2>. QED  BY <2>1, <2>2, <2>3, <2>4, <2>5, StaticBack
<1>. QED  BY <1>1, <1>2 DEF IpConfigs

-----------------------------------------------------------------------------
(* Interfaces and routes                                                   *)

\* The configuration of an interface is of one of four types.
LEMMA InterfaceKinds ==
  ASSUME NEW i \in InterfaceConfigs
  PROVE  /\ i = [name |-> i.name, config |-> i.config] /\ i.name \in STRING
         /\ \/ i.config \in IpConfigs /\ i.config.type = "dhcp"
            \/ i.config \in IpConfigs /\ i.config.type = "static"
            \/ i.config \in VlanConfigs /\ i.config.type = "vlan"
            \/ i.config \in BondConfigs /\ i.config.type = "bond"
BY DEF InterfaceConfigs, IpConfigs, DhcpIps, StaticIps, VlanConfigs, BondConfigs

\* Its JSON text is parsed back to it.
LEMMA ConfigTextBack ==
  ASSUME NEW c \in IpConfigs \cup VlanConfigs \cup BondConfigs
  PROVE  OfConfig(ParseStatic, OfConfig(StaticText, c)) = c
<1>1. CASE c \in IpConfigs
  <2>1. c.type \notin {"vlan", "bond"}
    BY <1>1 DEF IpConfigs, DhcpIps, StaticIps
  <2>. DEFINE t == OfStatic(StaticText, c)
  <2>2. OfConfig(StaticText, c) = t
    BY <2>1 DEF OfConfig
  <2>3. t.type \notin {"vlan", "bond"} /\ OfStatic(ParseStatic, t) = c
    BY <1>1, <2>1, IpTextBack
  <2>. HIDE DEF t
  <2>4. OfConfig(ParseStatic, t) = c
    BY <2>3 DEF OfConfig
  <2>. QED  BY <2>2, <2>4
<1>2. CASE c \in VlanConfigs
  <2>. DEFINE t == OfStatic(StaticText, c.ip)
              v == [type |-> "vlan", parent |-> c.parent, id |-> c.id, ip |-> t]
  <2>1. c.type = "vlan" /\ c.ip \in IpConfigs
        /\ c = [type |-> "vlan", parent |-> c.parent, id |-> c.id, ip |-> c.ip]
    BY <1>2 DEF VlanConfigs
  <2>2. OfConfig(StaticText, c) = v
    BY <1>2, <2>1, VlanUpdate DEF OfConfig, VlanConfigs
  <2>3. /\ v \in [type : {"vlan"}, parent : {c.parent}, id : {c.id}, ip : {t}]
        /\ v.type = "vlan" /\ v.parent = c.parent /\ v.id = c.id /\ v.ip = t
    OBVIOUS
  <2>4. OfStatic(ParseStatic, t) = c.ip
    BY <2>1, IpTextBack
  <2>. HIDE DEF v, t
  <2>5. OfConfig(ParseStatic, v) = c
    BY <2>1, <2>3, <2>4, VlanUpdate DEF OfConfig
  <2>. QED  BY <2>2, <2>5
<1>3. CASE c \in BondConfigs
  <2>. DEFINE t == OfStatic(StaticText, c.ip)
              v == [type |-> "bond", mode |-> c.mode, slaves |-> c.slaves, ip |-> t]
  <2>1. c.type = "bond" /\ c.ip \in IpConfigs
        /\ c = [type |-> "bond", mode |-> c.mode, slaves |-> c.slaves, ip |-> c.ip]
    BY <1>3 DEF BondConfigs
  <2>2. OfConfig(StaticText, c) = v
    BY <1>3, <2>1, BondUpdate DEF OfConfig, BondConfigs
  <2>3. /\ v \in [type : {"bond"}, mode : {c.mode}, slaves : {c.slaves}, ip : {t}]
        /\ v.type = "bond" /\ v.mode = c.mode /\ v.slaves = c.slaves /\ v.ip = t
    OBVIOUS
  <2>4. OfStatic(ParseStatic, t) = c.ip
    BY <2>1, IpTextBack
  <2>. HIDE DEF v, t
  <2>5. OfConfig(ParseStatic, v) = c
    BY <2>1, <2>3, <2>4, BondUpdate DEF OfConfig
  <2>. QED  BY <2>2, <2>5
<1>. QED  BY <1>1, <1>2, <1>3

\* Shown and sent back it is converted to itself.
LEMMA ConfigBack ==
  ASSUME NEW c \in IpConfigs \cup VlanConfigs \cup BondConfigs
  PROVE  /\ ToInterfaceType(OfConfig(FromStatic, c)) = c
         /\ OfConfig(FromStatic, c).type = c.type
         /\ c.type = "bond" => OfConfig(FromStatic, c).mode \in BondingModes
<1>1. CASE c \in IpConfigs
  <2>1. c.type \in {"dhcp", "static"}
    BY <1>1 DEF IpConfigs, DhcpIps, StaticIps
  <2>. DEFINE t == OfStatic(FromStatic, c)
  <2>2. OfConfig(FromStatic, c) = t
    BY <2>1 DEF OfConfig
  <2>3. /\ t.type = c.type
        /\ c.type = "static" => [t EXCEPT !.static = ToStatic(@)] = c
        /\ c.type = "dhcp" => t = c
    BY <1>1, IpBack
  <2>. HIDE DEF t
  <2>4. ToInterfaceType(t) = c
    <3>1. CASE c.type = "dhcp"
      BY <2>3, <3>1 DEF ToInterfaceType
    <3>2. CASE c.type = "static"
      <4>1. ToInterfaceType(t) = [t EXCEPT !.static = ToStatic(@)]
        BY <2>3, <3>2, Zenon DEF ToInterfaceType
      <4>. QED  BY <2>3, <3>2, <4>1
    <3>. QED  BY <2>1, <3>1, <3>2
  <2>. QED  BY <2>1, <2>2, <2>3, <2>4
<1>2. CASE c \in VlanConfigs
  <2>. DEFINE t == OfStatic(FromStatic, c.ip)
              v == [type |-> "vlan", parent |-> c.parent, id |-> c.id, ip |-> t]
  <2>1. c.type = "vlan" /\ c.ip \in IpConfigs
        /\ c = [type |-> "vlan", parent |-> c.parent, id |-> c.id, ip |-> c.ip]
    BY <1>2 DEF VlanConfigs
  <2>2. OfConfig(FromStatic, c) = v
    BY <1>2, <2>1, VlanUpdate DEF OfConfig, VlanConfigs
  <2>3. /\ v \in [type : {"vlan"}, parent : {c.parent}, id : {c.id}, ip : {t}]
        /\ v.type = "vlan" /\ v.parent = c.parent /\ v.id = c.id /\ v.ip = t
    OBVIOUS
  <2>4. ToIp(t) = c.ip
    BY <2>1, IpBack
  <2>. HIDE DEF v, t
  <2>5. ToInterfaceType(v) = c
    BY <2>1, <2>3, <2>4, VlanUpdate DEF ToInterfaceType
  <2>. QED  BY <2>1, <2>2, <2>3, <2>5
<1>3. CASE c \in BondConfigs
  <2>. DEFINE t == OfStatic(FromStatic, c.ip)
              v == [type |-> "bond", mode |-> c.mode, slaves |-> c.slaves, ip |-> t]
  <2>1. c.type = "bond" /\ c.ip \in IpConfigs /\ c.mode \in BondingModes
        /\ c = [type |-> "bond", mode |-> c.mode, slaves |-> c.slaves, ip |-> c.ip]
    BY <1>3 DEF BondConfigs
  <2>2. OfConfig(FromStatic, c) = v
    BY <1>3, <2>1, BondUpdate DEF OfConfig, BondConfigs
  <2>3. /\ v \in [type : {"bond"}, mode : {c.mode}, slaves : {c.slaves}, ip : {t}]
        /\ v.type = "bond" /\ v.mode = c.mode /\ v.slaves = c.slaves /\ v.ip = t
    OBVIOUS
  <2>4. ToIp(t) = c.ip
    BY <2>1, IpBack
  <2>. HIDE DEF v, t
  <2>5. ToInterfaceType(v) = c
    BY <2>1, <2>3, <2>4, BondUpdate DEF ToInterfaceType
  <2>. QED  BY <2>1, <2>2, <2>3, <2>5
<1>. QED  BY <1>1, <1>2, <1>3

\* A request's interface that the conversion accepts becomes one of these.
LEMMA ToInterfaceTyped ==
  ASSUME NEW i \in InterfaceMsg, i.config.type # "none",
         i.config.type = "bond" => i.config.mode \in BondingModes
  PROVE  ToInterface(i) \in InterfaceConfigs
<1>. DEFINE c == i.config
            D == ToInterfaceType(c)
<1>1. i.name \in STRING /\ c \in IpMsg \cup VlanMsg \cup BondMsg
  BY DEF InterfaceMsg
<1>2. D \in IpConfigs \cup VlanConfigs \cup BondConfigs
  <2>1. CASE c \in [type : {"none", "dhcp"}]
    <3>1. c.type = "dhcp" /\ c \in DhcpIps
      BY <2>1 DEF DhcpIps
    <3>. QED  BY <3>1 DEF ToInterfaceType, IpConfigs
  <2>2. CASE c \in [type : {"static"}, static : StaticMsg]
    <3>1. c.type = "static" /\ c.static \in StaticMsg
      BY <2>2
    <3>2. D = [c EXCEPT !.static = ToStatic(c.static)]
      BY <3>1 DEF ToInterfaceType
    <3>3. D = [type |-> "static", static |-> ToStatic(c.static)]
      BY <2>2, <3>2, StaticUpdate
    <3>. QED  BY <3>1, <3>3, ToStaticType DEF IpConfigs, StaticIps
  <2>3. CASE c \in VlanMsg
    <3>1. c.type = "vlan" /\ c.ip \in IpMsg /\ c.parent \in STRING /\ c.id \in Nat
      BY <2>3 DEF VlanMsg
    <3>2. D = [type |-> "vlan", parent |-> c.parent, id |-> c.id, ip |-> ToIp(c.ip)]
      BY <2>3, <3>1, VlanUpdate DEF ToInterfaceType, VlanMsg
    <3>. QED  BY <3>1, <3>2, ToIpType DEF VlanConfigs
  <2>4. CASE c \in BondMsg
    <3>1. /\ c.type = "bond" /\ c.ip \in IpMsg /\ c.mode \in BondingModes
          /\ c.slaves \in Seq(STRING)
      BY <2>4 DEF BondMsg
    <3>2. D = [type |-> "bond", mode |-> c.mode, slaves |-> c.slaves, ip |-> ToIp(c.ip)]
      BY <2>4, <3>1, BondUpdate DEF ToInterfaceType, BondMsg
    <3>. QED  BY <3>1, <3>2, ToIpType DEF BondConfigs
  <2>. QED  BY <1>1, <2>1, <2>2, <2>3, <2>4 DEF IpMsg
<1>. HIDE DEF D
<1>3. ToInterface(i) = [name |-> i.name, config |-> D]
  BY InterfaceUpdate DEF ToInterface, InterfaceMsg, D
<1>. QED  BY <1>1, <1>2, <1>3 DEF InterfaceConfigs

\* The JSON text of an interface is parsed back to it.
LEMMA InterfaceTextBack ==
  ASSUME NEW i \in InterfaceConfigs
  PROVE  OfInterface(ParseStatic, OfInterface(StaticText, i)) = i
<1>. DEFINE c == i.config
            t == OfConfig(StaticText, c)
            j == [name |-> i.name, config |-> t]
<1>0. i = [name |-> i.name, config |-> c] /\ c \in IpConfigs \cup VlanConfigs \cup BondConfigs
  BY DEF InterfaceConfigs
<1>1. OfInterface(StaticText, i) = j
  BY InterfaceUpdate DEF OfInterface, InterfaceConfigs
<1>2. j \in [name : {i.name}, config : {t}] /\ j.config = t /\ j.name = i.name
  OBVIOUS
<1>3. OfConfig(ParseStatic, t) = c
  BY <1>0, ConfigTextBack
<1>. HIDE DEF j, t
<1>4. OfInterface(ParseStatic, j) = [name |-> i.name, config |-> c]
  BY <1>2, <1>3, InterfaceUpdate DEF OfInterface
<1>. QED  BY <1>0, <1>1, <1>4

\* Shown and sent back it is converted to itself.
LEMMA InterfaceBack ==
  ASSUME NEW i \in InterfaceConfigs
  PROVE  /\ ToInterface(FromInterface(i)) = i
         /\ FromInterface(i).config.type # "none"
         /\ FromInterface(i).config.type = "bond" =>
              FromInterface(i).config.mode \in BondingModes
<1>. DEFINE c == i.config
            t == OfConfig(FromStatic, c)
            j == [name |-> i.name, config |-> t]
<1>0. i = [name |-> i.name, config |-> c] /\ c \in IpConfigs \cup VlanConfigs \cup BondConfigs
      /\ c.type # "none"
  BY InterfaceKinds DEF InterfaceConfigs
<1>1. FromInterface(i) = j
  BY InterfaceUpdate DEF FromInterface, OfInterface, InterfaceConfigs
<1>2. j \in [name : {i.name}, config : {t}] /\ j.config = t /\ j.name = i.name
  OBVIOUS
<1>3. ToInterfaceType(t) = c /\ t.type = c.type /\ (c.type = "bond" => t.mode \in BondingModes)
  BY <1>0, ConfigBack
<1>. HIDE DEF j, t
<1>4. ToInterface(j) = [name |-> i.name, config |-> c]
  BY <1>2, <1>3, InterfaceUpdate DEF ToInterface
<1>. QED  BY <1>0, <1>1, <1>2, <1>3, <1>4

\* The same for a route, whose metric is optional.
LEMMA RouteBack ==
  /\ \A r \in RouteMsg : ToRoute(r) \in RouteConfigs
  /\ \A r \in RouteConfigs : ParseRoute(RouteText(r)) = r /\ ToRoute(FromRoute(r)) = r
<1>1. ASSUME NEW r \in RouteMsg  PROVE ToRoute(r) \in RouteConfigs
  <2>1. /\ r.destination \in STRING /\ r.gateway \in STRING /\ r.metric \in Nat
    BY DEF RouteMsg
  <2>. DEFINE m == IF r.metric = 0 THEN <<>> ELSE <<r.metric>>
  <2>2. m \in Metrics
    BY <2>1 DEF Metrics
  <2>3. ToRoute(r) = [destination |-> r.destination, gateway |-> r.gateway, metric |-> m]
    BY RouteUpdate DEF ToRoute, RouteMsg
  <2>. HIDE DEF m
  <2>. QED  BY <2>1, <2>2, <2>3 DEF RouteConfigs
<1>2. ASSUME NEW r \in RouteConfigs  PROVE ParseRoute(RouteText(r)) = r
  <2>. DEFINE F == {"destination", "gateway", "metric"}
              K == {"metric"}
              d == [metric |-> <<>>]
  <2>1. r = [f \in F |-> r[f]]
    BY DEF RouteConfigs
  <2>2. DOMAIN d \subseteq F /\ K \subseteq DOMAIN d /\ \A f \in K : d[f] = <<>>
    OBVIOUS
  <2>3. K \in SUBSET F
    OBVIOUS
  <2>. HIDE DEF F, K, d
  <2>4. Fill(Skip(r, K), d) = r
    BY <2>1, <2>2, <2>3, FillSkip, Zenon
  <2>. QED  BY <2>4 DEF ParseRoute, RouteText, K, d
<1>3. ASSUME NEW r \in RouteConfigs  PROVE ToRoute(FromRoute(r)) = r
  <2>. DEFINE m == IF r.metric = <<>> THEN 0 ELSE r.metric[1]
              u == [destination |-> r.destination, gateway |-> r.gateway, metric |-> m]
  <2>1. /\ r.metric \in Metrics
        /\ r = [destination |-> r.destination, gateway |-> r.gateway, metric |-> r.metric]
    BY DEF RouteConfigs
  <2>2. FromRoute(r) = u
    BY RouteUpdate DEF FromRoute, RouteConfigs
  <2>3. u \in [destination : {r.destination}, gateway : {r.gateway}, metric : {m}]
        /\ u.metric = m /\ u.destination = r.destination /\ u.gateway = r.gateway
    OBVIOUS
  <2>4. (IF m = 0 THEN <<>> ELSE <<m>>) = r.metric
    <3>1. CASE r.metric = <<>>
      BY <3>1
    <3>2. ASSUME NEW x \in Nat \ {0}, r.metric = <<x>>
          PROVE  (IF m = 0 THEN <<>> ELSE <<m>>) = r.metric
      <4>1. r.metric # <<>> /\ r.metric[1] = x
        BY <3>2
      <4>2. m = x /\ x # 0
        BY <4>1
      <4>. QED  BY <3>2, <4>2
    <3>. QED  BY <2>1, <3>1, <3>2 DEF Metrics
  <2>. HIDE DEF u, m
  <2>5. ToRoute(u) = [destination |-> r.destination, gateway |-> r.gateway, metric |-> r.metric]
    BY <2>3, <2>4, RouteUpdate DEF ToRoute
  <2>. QED  BY <2>1, <2>2, <2>5
<1>. QED  BY <1>1, <1>2, <1>3

-----------------------------------------------------------------------------
(* Configurations                                                          *)

\* What a request that can be converted becomes.
LEMMA ToConfigTyped ==
  ASSUME NEW r \in RequestMsg, Convertible(r)
  PROVE  ToConfig(r) \in NetworkConfigs
<1>1. /\ r.interfaces \in Seq(InterfaceMsg) /\ r.routes \in Seq(RouteMsg)
      /\ r.dns \in Seq(DnsMsg)
  BY DEF RequestMsg
<1>. DEFINE n == Len(r.interfaces)
            m == Len(r.routes)
<1>2. Map(ToInterface, r.interfaces) \in Seq(InterfaceConfigs)
  <2>1. n \in Nat /\ DOMAIN r.interfaces = 1 .. n
    BY <1>1
  <2>2. ASSUME NEW k \in 1 .. n  PROVE ToInterface(r.interfaces[k]) \in InterfaceConfigs
    <3>1. r.interfaces[k] \in InterfaceMsg
      BY <1>1, <2>1
    <3>2. /\ r.interfaces[k].config.type # "none"
          /\ r.interfaces[k].config.type = "bond" => r.interfaces[k].config.mode \in BondingModes
      BY <2>1 DEF Convertible
    <3>. QED  BY <3>1, <3>2, ToInterfaceTyped
  <2>3. Map(ToInterface, r.interfaces) = [k \in 1 .. n |-> ToInterface(r.interfaces[k])]
    BY <2>1 DEF Map
  <2>. HIDE DEF n
  <2>4. Map(ToInterface, r.interfaces) \in [1 .. n -> InterfaceConfigs]
    BY <2>2, <2>3
  <2>. QED  BY <2>1, <2>4
<1>3. Map(ToRoute, r.routes) \in Seq(RouteConfigs)
  <2>1. m \in Nat /\ DOMAIN r.routes = 1 .. m
    BY <1>1
  <2>2. ASSUME NEW k \in 1 .. m  PROVE ToRoute(r.routes[k]) \in RouteConfigs
    <3>1. r.routes[k] \in RouteMsg
      BY <1>1, <2>1
    <3>. QED  BY <3>1, RouteBack
  <2>3. Map(ToRoute, r.routes) = [k \in 1 .. m |-> ToRoute(r.routes[k])]
    BY <2>1 DEF Map
  <2>. HIDE DEF m
  <2>4. Map(ToRoute, r.routes) \in [1 .. m -> RouteConfigs]
    BY <2>2, <2>3
  <2>. QED  BY <2>1, <2>4
<1>. QED  BY <1>1, <1>2, <1>3 DEF ToConfig, NetworkConfigs

\* save_to and load_from: what is written is what is read.
LEMMA TextBack ==
  ASSUME NEW c \in NetworkConfigs
  PROVE  Parse(Text(c)) = c
<1>1. /\ c.interfaces \in Seq(InterfaceConfigs) /\ c.routes \in Seq(RouteConfigs)
      /\ c = [interfaces |-> c.interfaces, dns |-> c.dns, routes |-> c.routes]
  BY DEF NetworkConfigs
<1>. DEFINE s == c.interfaces
            q == c.routes
            S == Map(LAMBDA i : OfInterface(StaticText, i), s)
            Q == Map(RouteText, q)
            R == [interfaces |-> S, dns |-> c.dns, routes |-> Q]
            F == {"interfaces", "dns", "routes"}
            K == {"dns"}
<1>2. /\ DOMAIN S = DOMAIN s /\ \A k \in DOMAIN s : S[k] = OfInterface(StaticText, s[k])
      /\ DOMAIN Q = DOMAIN q /\ \A k \in DOMAIN q : Q[k] = RouteText(q[k])
  BY DEF Map
<1>3. Text(c) = Skip(R, K)
  BY DEF Text
<1>. HIDE DEF S, Q
<1>4. R.interfaces = S /\ R.dns = c.dns /\ R.routes = Q
  OBVIOUS
<1>11. R = [f \in F |-> R[f]]
  OBVIOUS
<1>5. DOMAIN NoConfig \subseteq F /\ K \subseteq DOMAIN NoConfig /\ \A f \in K : NoConfig[f] = <<>>
  BY DEF NoConfig
<1>6. K \in SUBSET F
  OBVIOUS
<1>. HIDE DEF R, F, K
<1>12. Fill(Skip(R, K), NoConfig) = R
  BY <1>11, <1>5, <1>6, FillSkip, Zenon
<1>7. Fill(Text(c), NoConfig) = R
  BY <1>3, <1>12
<1>8. Map(LAMBDA i : OfInterface(ParseStatic, i), S) = s
  <2>1. \A k \in DOMAIN s : s[k] \in InterfaceConfigs
    BY <1>1
  <2>2. \A k \in DOMAIN s : OfInterface(ParseStatic, S[k]) = s[k]
    BY <1>2, <2>1, InterfaceTextBack
  <2>3. Map(LAMBDA i : OfInterface(ParseStatic, i), S) = [k \in DOMAIN s |-> s[k]]
    BY <1>2, <2>2 DEF Map
  <2>. QED  BY <1>1, <2>3
<1>9. Map(ParseRoute, Q) = q
  <2>1. \A k \in DOMAIN q : q[k] \in RouteConfigs
    BY <1>1
  <2>2. \A k \in DOMAIN q : ParseRoute(Q[k]) = q[k]
    BY <1>2, <2>1, RouteBack
  <2>3. Map(ParseRoute, Q) = [k \in DOMAIN q |-> q[k]]
    BY <1>2, <2>2 DEF Map
  <2>. QED  BY <1>1, <2>3
<1>10. Parse(Text(c)) =
         [interfaces |-> Map(LAMBDA i : OfInterface(ParseStatic, i), R.interfaces),
          dns |-> R.dns, routes |-> Map(ParseRoute, R.routes)]
  BY <1>7 DEF Parse
<1>. QED  BY <1>1, <1>4, <1>8, <1>9, <1>10

\* get_network_config and configure_network: what is shown can be sent back.
LEMMA ShownBack ==
  ASSUME NEW c \in NetworkConfigs
  PROVE  Convertible(FromConfig(c)) /\ ToConfig(FromConfig(c)) = c
<1>1. /\ c.interfaces \in Seq(InterfaceConfigs) /\ c.routes \in Seq(RouteConfigs)
      /\ c = [interfaces |-> c.interfaces, dns |-> c.dns, routes |-> c.routes]
  BY DEF NetworkConfigs
<1>. DEFINE s == c.interfaces
            q == c.routes
            S == Map(FromInterface, s)
            Q == Map(FromRoute, q)
            R == FromConfig(c)
<1>2. /\ DOMAIN S = DOMAIN s /\ \A k \in DOMAIN s : S[k] = FromInterface(s[k])
      /\ DOMAIN Q = DOMAIN q /\ \A k \in DOMAIN q : Q[k] = FromRoute(q[k])
  BY DEF Map
<1>3. R.interfaces = S /\ R.dns = c.dns /\ R.routes = Q
  BY DEF FromConfig
<1>. HIDE DEF S, Q, R
<1>4. \A k \in DOMAIN s : s[k] \in InterfaceConfigs
  BY <1>1
<1>5. \A k \in DOMAIN s : /\ ToInterface(S[k]) = s[k] /\ S[k].config.type # "none"
                          /\ S[k].config.type = "bond" => S[k].config.mode \in BondingModes
  BY <1>2, <1>4, InterfaceBack
<1>6. Map(ToInterface, S) = s
  <2>1. Map(ToInterface, S) = [k \in DOMAIN s |-> s[k]]
    BY <1>2, <1>5 DEF Map
  <2>. QED  BY <1>1, <2>1
<1>7. Map(ToRoute, Q) = q
  <2>1. \A k \in DOMAIN q : q[k] \in RouteConfigs
    BY <1>1
  <2>2. \A k \in DOMAIN q : ToRoute(Q[k]) = q[k]
    BY <1>2, <2>1, RouteBack
  <2>3. Map(ToRoute, Q) = [k \in DOMAIN q |-> q[k]]
    BY <1>2, <2>2 DEF Map
  <2>. QED  BY <1>1, <2>3
<1>8. Convertible(R)
  BY <1>2, <1>3, <1>5 DEF Convertible
<1>9. ToConfig(R) = c
  BY <1>1, <1>3, <1>6, <1>7 DEF ToConfig
<1>. QED  BY <1>8, <1>9 DEF R

\* The same for the configurations that requests are converted to.
LEMMA ConfigsBack ==
  ASSUME NEW c \in Configs
  PROVE  /\ c \in NetworkConfigs /\ Parse(Text(c)) = c
         /\ Convertible(FromConfig(c)) /\ ToConfig(FromConfig(c)) = c
<1>1. c \in NetworkConfigs
  BY ToConfigTyped, NetworkAssumption DEF Configs
<1>. QED  BY <1>1, TextBack, ShownBack
=============================================================================
