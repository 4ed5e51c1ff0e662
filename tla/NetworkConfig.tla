--------------------------- MODULE NetworkConfig ----------------------------
(***************************************************************************)
(* The network configuration of a node: the configure_network and          *)
(* get_network_config handlers (cmd/keel-agent/src/network.rs), the        *)
(* configuration and its JSON file (pkg/config/src/network.rs), and what   *)
(* keel-init makes of the file at boot (setup_networking in                *)
(* cmd/keel-init/src/main.rs).                                             *)
(*                                                                         *)
(* Handlers run on several threads, and each save truncates and rewrites   *)
(* the one file in place, without a lock.  At boot keel-init configures    *)
(* the interfaces one after the other, before it starts the agent.         *)
(*                                                                         *)
(* The empty string stands for a protobuf string that was not set; an      *)
(* Option is a sequence of at most one element.  What the address parsers  *)
(* accept is given by constants.                                           *)
(***************************************************************************)
EXTENDS Integers, SequencesExt

CONSTANTS
  Handlers,              \* configure_network calls that may be in flight together
  Requests,              \* the requests clients send
  Hardware,              \* the links that exist when the node boots
  Names,                 \* interface names of 1 to 15 characters
  V4Nets, V6Nets,        \* strings the parsers accept as networks ...
  V4Addrs, V6Addrs,      \* ... and as addresses
  OnLink,                \* pairs of a gateway and a network it is a neighbour in
  IpFaults,              \* sets of commands that may fail together at a boot
  Size(_),               \* the length of a JSON text
  MaxCalls,              \* bound on configure_network calls
  MaxFaults,             \* bound on writes and auto-reboots that fail
  MaxCrashes             \* bound on crashes, of the node and of the agent, and reboots

Eth0 == "eth0"
FallbackNet == "10.0.2.15/24"
FallbackGw == "10.0.2.2"

\* ConfigureNetworkRequest and the messages in it; the type of a oneof is
\* "none" when it is not set, and dns has at most one element.
StaticMsg ==
  [v4 : STRING, gateway : STRING, mtu : Nat, v6 : Seq(STRING), gateway6 : STRING,
   auto : BOOLEAN]
IpMsg == [type : {"none", "dhcp"}] \cup [type : {"static"}, static : StaticMsg]
VlanMsg == [type : {"vlan"}, parent : STRING, id : Nat, ip : IpMsg]
BondMsg == [type : {"bond"}, mode : STRING, slaves : Seq(STRING), ip : IpMsg]
InterfaceMsg == [name : STRING, config : IpMsg \cup VlanMsg \cup BondMsg]
DnsMsg == [nameservers : Seq(STRING), search : Seq(STRING)]
RouteMsg == [destination : STRING, gateway : STRING, metric : Nat]
RequestMsg ==
  [interfaces : Seq(InterfaceMsg), dns : Seq(DnsMsg), routes : Seq(RouteMsg),
   auto_reboot : BOOLEAN]

ASSUME NetworkAssumption ==
  /\ Requests \subseteq RequestMsg /\ \A r \in Requests : Len(r.dns) <= 1
  /\ IsFiniteSet(Handlers) /\ {} \in IpFaults
  /\ "" \notin Names \cup V4Nets \cup V6Nets \cup V4Addrs \cup V6Addrs
  /\ FallbackNet \in V4Nets /\ <<FallbackGw, FallbackNet>> \in OnLink
  /\ {MaxCalls, MaxFaults, MaxCrashes} \subseteq Nat

VARIABLES
  file,      \* config.json: whether it is there and whole, its text and length
  pc,        \* where each handler is
  asked,     \* the configuration a handler writes, and its auto_reboot
  solo,      \* no other handler has the file open while this one has
  timers,    \* auto-reboots that wait for their two seconds
  dropped,   \* such a task was lost, with the agent or because `reboot` failed
  stage,     \* keel-init applies a configuration, or the agent runs
  todo,      \* the interfaces keel-init has still to configure
  net,       \* the kernel's network state
  booted,    \* the configuration the last boot loaded, if it did
  accepted,  \* the configuration last answered with success, if any
  harmed,    \* the file was truncated since, and not rewritten by one call alone
  calls, faults, crashes

bootVars == <<stage, todo, net, booted>>
callVars == <<pc, asked, solo, timers, dropped>>
vars == <<file, callVars, bootVars, accepted, harmed, calls, faults, crashes>>

-----------------------------------------------------------------------------
(* From a request to a configuration, and back *)

Opt(s) == IF s = "" THEN <<>> ELSE <<s>>
OrEmpty(o) == IF o = <<>> THEN "" ELSE o[1]

Map(f(_), s) == [k \in DOMAIN s |-> f(s[k])]

OfStatic(f(_), ip) == IF ip.type = "static" THEN [ip EXCEPT !.static = f(@)] ELSE ip

OfConfig(f(_), c) ==
  IF c.type \in {"vlan", "bond"} THEN [c EXCEPT !.ip = OfStatic(f, @)] ELSE OfStatic(f, c)

\* f on every static configuration of an interface.
OfInterface(f(_), i) == [i EXCEPT !.config = OfConfig(f, @)]

ToStatic(p) ==
  [v4 |-> p.v4, gateway |-> Opt(p.gateway),
   mtu |-> IF p.mtu = 0 THEN 1500 ELSE p.mtu,
   v6 |-> p.v6, gateway6 |-> Opt(p.gateway6), auto |-> p.auto]

\* A VLAN or a bond without an address configuration uses DHCP.
ToIp(p) ==
  IF p.type = "static" THEN [type |-> "static", static |-> ToStatic(p.static)]
  ELSE [type |-> "dhcp"]

ToInterfaceType(c) ==
  CASE c.type = "dhcp" -> c
    [] c.type = "static" -> [c EXCEPT !.static = ToStatic(@)]
    [] c.type \in {"vlan", "bond"} -> [c EXCEPT !.ip = ToIp(@)]

ToInterface(i) == [i EXCEPT !.config = ToInterfaceType(@)]

ToRoute(r) == [r EXCEPT !.metric = IF @ = 0 THEN <<>> ELSE <<@>>]

ToConfig(req) ==
  [interfaces |-> Map(ToInterface, req.interfaces), dns |-> req.dns,
   routes |-> Map(ToRoute, req.routes)]

\* The conversion itself fails for an interface without a configuration and
\* for a bonding mode that does not exist.
BondingModes == {"802.3ad", "active-backup", "balance-rr"}
Convertible(req) ==
  \A k \in DOMAIN req.interfaces :
    LET c == req.interfaces[k].config
    IN  c.type # "none" /\ (c.type = "bond" => c.mode \in BondingModes)

\* Mutant: the IPv6 gateway is forgotten on the way back.
FromStaticV4(s) == [s EXCEPT !.gateway = OrEmpty(@), !.gateway6 = ""]

FromStatic(s) ==
  [s EXCEPT !.gateway = OrEmpty(@), !.gateway6 = OrEmpty(@)]

FromInterface(i) == OfInterface(FromStatic, i)

FromRoute(r) == [r EXCEPT !.metric = IF @ = <<>> THEN 0 ELSE @[1]]

FromConfig(c) ==
  [interfaces |-> Map(FromInterface, c.interfaces), dns |-> c.dns,
   routes |-> Map(FromRoute, c.routes)]

-----------------------------------------------------------------------------
(* validate *)

ValidStatic(s) ==
  /\ s.v4 # "" \/ s.v6 # <<>> \/ s.auto
  /\ s.v4 # "" => s.v4 \in V4Nets /\ Range(s.gateway) \subseteq V4Addrs
  /\ Range(s.v6) \subseteq V6Nets
  /\ Range(s.gateway6) \subseteq V6Addrs
  /\ s.mtu \in 68 .. 9000

ValidIp(ip) == ip.type = "static" => ValidStatic(ip.static)

ValidInterface(i) ==
  /\ i.name \in Names
  /\ CASE i.config.type = "dhcp" -> TRUE
       [] i.config.type = "static" -> ValidStatic(i.config.static)
       [] i.config.type = "vlan" ->
            i.config.id \in 1 .. 4094 /\ i.config.parent # "" /\ ValidIp(i.config.ip)
       [] i.config.type = "bond" -> i.config.slaves # <<>> /\ ValidIp(i.config.ip)

ValidDns(d) == d.nameservers # <<>> /\ Range(d.nameservers) \subseteq V4Addrs \cup V6Addrs

ValidRoute(r) == r.destination \in V4Nets \cup V6Nets /\ r.gateway \in V4Addrs \cup V6Addrs

Valid(c) ==
  /\ \A i \in Range(c.interfaces) : ValidInterface(i)
  /\ \A d \in Range(c.dns) : ValidDns(d)
  /\ \A r \in Range(c.routes) : ValidRoute(r)
  /\ IsInjective([k \in DOMAIN c.interfaces |-> c.interfaces[k].name])

-----------------------------------------------------------------------------
(* The JSON text: a record without the fields that serde skips *)

Skip(r, fields) == RestrictDomain(r, LAMBDA f : f \notin fields \/ r[f] # <<>>)
Fill(t, default) == [f \in DOMAIN t \cup DOMAIN default |->
                       IF f \in DOMAIN t THEN t[f] ELSE default[f]]

StaticText(s) == Skip(s, {"gateway", "v6", "gateway6"})
StaticDefault ==
  [v4 |-> "", gateway |-> <<>>, mtu |-> 1500, v6 |-> <<>>, gateway6 |-> <<>>,
   auto |-> FALSE]
ParseStatic(t) == Fill(t, StaticDefault)

RouteText(r) == Skip(r, {"metric"})
ParseRoute(t) == Fill(t, [metric |-> <<>>])

NoConfig == [interfaces |-> <<>>, dns |-> <<>>, routes |-> <<>>]

Text(c) ==
  Skip([interfaces |-> Map(LAMBDA i : OfInterface(StaticText, i), c.interfaces),
        dns |-> c.dns, routes |-> Map(RouteText, c.routes)], {"dns"})

Parse(t) ==
  LET u == Fill(t, NoConfig)
  IN  [interfaces |-> Map(LAMBDA i : OfInterface(ParseStatic, i), u.interfaces),
       dns |-> u.dns, routes |-> Map(ParseRoute, u.routes)]

NoFile == [is |-> "absent", text |-> <<>>, size |-> 0]
Truncated == [is |-> "broken", text |-> <<>>, size |-> 0]

\* A text written from the beginning of the file leaves the rest of a longer
\* one behind it; no JSON text is a proper prefix of the file then.
Overwrite(f, t) ==
  IF Size(t) >= f.size THEN [is |-> "whole", text |-> t, size |-> Size(t)]
  ELSE [f EXCEPT !.is = "broken", !.text = <<>>]

\* load_from: a configuration, or an error of reading, parsing or validation.
Load(f) ==
  IF f.is = "whole" /\ Valid(Parse(f.text)) THEN <<Parse(f.text)>> ELSE <<>>

\* The answer of get_network_config, which is empty if there is an error.
Shown == FromConfig(IF Load(file) = <<>> THEN NoConfig ELSE Load(file)[1])

-----------------------------------------------------------------------------
(* keel-init at boot; a command that fails is logged and passed over *)

\* What the ip commands of one boot have made of the network; failed tells the
\* commands that did not work, with the link they were for.
Bare(bad) ==
  [links |-> Hardware \cup {"lo"}, up |-> {}, addr |-> {}, addr6 |-> {}, default |-> {},
   mtu |-> {}, slaac |-> {}, master |-> {}, routes |-> {}, dns |-> <<>>, failed |-> bad]

Works(n, cmd, l) == l \in n.links /\ <<cmd, l>> \notin n.failed

LinkUp(n, l) == IF Works(n, "up", l) THEN [n EXCEPT !.up = @ \cup {l}] ELSE n

AddrAdd(n, l, nets) ==
  IF Works(n, "addr", l) THEN [n EXCEPT !.addr = @ \cup ({l} \X nets)] ELSE n

Addr6Add(n, l, nets) ==
  IF Works(n, "addr", l) THEN [n EXCEPT !.addr6 = @ \cup ({l} \X nets)] ELSE n

\* The kernel refuses a gateway that is no neighbour, and a second default route.
Neighbour(n, l, gw) ==
  l \in n.up /\ \E a \in V4Nets \cup V6Nets :
                  <<l, a>> \in n.addr \cup n.addr6 /\ <<gw, a>> \in OnLink

DefaultVia(n, l, family, gateway) ==
  IF /\ gateway # <<>> /\ Works(n, "route", l) /\ Neighbour(n, l, gateway[1])
     /\ \A d \in n.default : d[1] # family
  THEN [n EXCEPT !.default = @ \cup {<<family, l>>}] ELSE n

ConfigureLoopback(n) ==
  IF Works(n, "up", "lo") THEN AddrAdd(LinkUp(n, "lo"), "lo", {"127.0.0.1/8"}) ELSE n

\* Below the smallest MTU of IPv6 the kernel stops IPv6 on the link: its
\* addresses and its default route are gone.
MinMtu6 == 1280
StopV6(n, l) ==
  [n EXCEPT !.addr6 = {a \in @ : a[1] # l}, !.slaac = @ \ {l}, !.default = @ \ {<<"v6", l>>}]

SetMtu(n, l, mtu) ==
  IF ~Works(n, "mtu", l) THEN n
  ELSE LET m == [n EXCEPT !.mtu = @ \cup {<<l, mtu>>}]
       IN  IF mtu < MinMtu6 THEN StopV6(m, l) ELSE m

\* apply_static_ip_config: the MTU comes last.
ApplyStatic(n, l, s) ==
  LET v4 == IF s.v4 = "" THEN n
            ELSE DefaultVia(AddrAdd(n, l, {s.v4}), l, "v4", s.gateway)
      v6 == DefaultVia(Addr6Add(v4, l, Range(s.v6)), l, "v6", s.gateway6)
      auto == [v6 EXCEPT !.slaac = IF s.auto /\ Works(n, "slaac", l) THEN @ \cup {l} ELSE @]
  IN  IF s.mtu = 1500 THEN auto ELSE SetMtu(auto, l, s.mtu)

ApplyIp(n, l, ip) == IF ip.type = "static" THEN ApplyStatic(n, l, ip.static) ELSE n

\* ip link add fails for a name that is taken.
CanAdd(n, l) == l \notin n.links /\ <<"add", l>> \notin n.failed
LinkAdd(n, l) == LinkUp([n EXCEPT !.links = @ \cup {l}], l)

ConfigureVlan(n, l, vlan) ==
  IF CanAdd(n, l) /\ vlan.parent \in n.links THEN ApplyIp(LinkAdd(n, l), l, vlan.ip) ELSE n

\* The slaves are taken down, and up again once they belong to the bond.
ConfigureBond(n, l, bond) ==
  LET members == {s \in Range(bond.slaves) : Works(n, "master", s)}
  IN  IF CanAdd(n, l)
      THEN ApplyIp([LinkAdd(n, l) EXCEPT
                      !.up = (@ \ Range(bond.slaves)) \cup {s \in members : Works(n, "up", s)},
                      !.master = @ \cup (members \X {l})], l, bond.ip)
      ELSE n

\* The link is brought up first, whatever its type, and is left alone if that
\* fails: for want of the link a VLAN or a bond is not created, and a link that
\* is there cannot be created again.  There is no DHCP client.
ConfigureInterface(n, i) ==
  IF ~Works(n, "up", i.name) THEN n
  ELSE LET up == LinkUp(n, i.name)
       IN  CASE i.config.type = "dhcp" -> up
             [] i.config.type = "static" -> ApplyStatic(up, i.name, i.config.static)
             [] i.config.type = "vlan" -> ConfigureVlan(up, i.name, i.config)
             [] i.config.type = "bond" -> ConfigureBond(up, i.name, i.config)

\* Writes /etc/resolv.conf.
ConfigureDns(n, nameservers) ==
  IF <<"write", "resolv.conf">> \in n.failed THEN n ELSE [n EXCEPT !.dns = nameservers]

ConfigureRoutes(n, routes) ==
  [n EXCEPT !.routes =
     {r \in routes : \E l \in n.links : Neighbour(n, l, r.gateway) /\ Works(n, "route", l)}]

\* "DHCP fallback": a fixed address.
ConfigureFallback(n) ==
  IF Works(n, "up", Eth0) /\ Works(n, "addr", Eth0)
  THEN DefaultVia(AddrAdd(LinkUp(n, Eth0), Eth0, {FallbackNet}), Eth0, "v4", <<FallbackGw>>)
  ELSE LinkUp(n, Eth0)

\* Public resolvers, if there is no /etc/resolv.conf yet.
DefaultDns(n) == IF n.dns = <<>> THEN ConfigureDns(n, <<"8.8.8.8", "1.1.1.1">>) ELSE n

-----------------------------------------------------------------------------

NoCall == [config |-> <<>>, auto |-> FALSE]

Configs == {ToConfig(r) : r \in {q \in Requests : Convertible(q)}}
Texts == {Text(c) : c \in Configs}
ASSUME SizeAssumption == \A t \in Texts : Size(t) \in Nat

MaybeConfig == {<<>>} \cup {<<c>> : c \in Configs}

TypeOK ==
  /\ file \in [is : {"absent", "broken", "whole"}, text : Texts \cup {<<>>},
               size : {0} \cup {Size(t) : t \in Texts}]
  /\ pc \in [Handlers -> {"idle", "write"}]
  /\ asked \in [Handlers -> [config : MaybeConfig, auto : BOOLEAN]]
  /\ solo \in [Handlers -> BOOLEAN]
  /\ timers \in 0 .. MaxCalls /\ dropped \in BOOLEAN
  /\ stage \in {"apply", "run"}
  /\ todo \in {<<>>} \cup UNION {{SubSeq(c.interfaces, k, Len(c.interfaces))
                                    : k \in 1 .. 1 + Len(c.interfaces)} : c \in Configs}
  /\ net.up \subseteq net.links /\ net.failed \in IpFaults
  /\ booted \in MaybeConfig /\ accepted \in MaybeConfig
  /\ harmed \in BOOLEAN
  /\ calls \in 0 .. MaxCalls /\ faults \in 0 .. MaxFaults /\ crashes \in 0 .. MaxCrashes

\* A node that boots for the first time.
Init ==
  /\ file = NoFile
  /\ pc = [h \in Handlers |-> "idle"]
  /\ asked = [h \in Handlers |-> NoCall]
  /\ solo = [h \in Handlers |-> TRUE]
  /\ timers = 0 /\ dropped = FALSE
  /\ stage = "run" /\ todo = <<>>
  /\ net = DefaultDns(ConfigureFallback(ConfigureLoopback(Bare({}))))
  /\ booted = <<>> /\ accepted = <<>>
  /\ harmed = FALSE
  /\ calls = 0 /\ faults = 0 /\ crashes = 0

Idle(h) ==
  /\ pc' = [pc EXCEPT ![h] = "idle"]
  /\ asked' = [asked EXCEPT ![h] = NoCall]
  /\ solo' = [solo EXCEPT ![h] = TRUE]

\* fs::write opens the file, which truncates it.
Open(h, c, auto) ==
  /\ file' = Truncated /\ harmed' = TRUE
  /\ pc' = [pc EXCEPT ![h] = "write"]
  /\ asked' = [asked EXCEPT ![h] = [config |-> <<c>>, auto |-> auto]]
  /\ solo' = [g \in Handlers |->
                IF g = h THEN \A o \in Handlers : pc[o] = "idle"
                ELSE solo[g] /\ pc[g] = "idle"]

\* Mutant: save trusts that the caller validated, and the handler that save does.
ConfigureUnchecked(h) ==
  /\ stage = "run" /\ pc[h] = "idle" /\ calls < MaxCalls
  /\ calls' = calls + 1
  /\ \E r \in {q \in Requests : Convertible(q)} : Open(h, ToConfig(r), r.auto_reboot)
  /\ UNCHANGED <<timers, dropped, bootVars, accepted, faults, crashes>>

\* configure_network up to the write: it answers with an error, or opens the
\* file; making the directory or opening the file may fail.
Configure(h) ==
  /\ stage = "run" /\ pc[h] = "idle" /\ calls < MaxCalls
  /\ calls' = calls + 1
  /\ \E r \in Requests :
       IF Convertible(r) /\ Valid(ToConfig(r))
       THEN \/ Open(h, ToConfig(r), r.auto_reboot) /\ UNCHANGED faults
            \/ /\ faults < MaxFaults /\ faults' = faults + 1
               /\ UNCHANGED <<file, harmed, pc, asked, solo>>
       ELSE UNCHANGED <<file, harmed, pc, asked, solo, faults>>
  /\ UNCHANGED <<timers, dropped, bootVars, accepted, crashes>>

\* The rest of configure_network: the text is written and success is answered.
Write(h) ==
  /\ pc[h] = "write"
  /\ file' = Overwrite(file, Text(asked[h].config[1]))
  /\ accepted' = asked[h].config
  /\ harmed' = ~solo[h]
  /\ timers' = IF asked[h].auto THEN timers + 1 ELSE timers
  /\ Idle(h)
  /\ UNCHANGED <<dropped, bootVars, calls, faults, crashes>>

\* The write fails, perhaps after a part of the text, and an error is answered.
WriteFails(h) ==
  /\ pc[h] = "write"
  /\ faults < MaxFaults /\ faults' = faults + 1
  /\ file' \in {file, [file EXCEPT !.is = "broken", !.text = <<>>]}
  /\ Idle(h)
  /\ UNCHANGED <<timers, dropped, bootVars, accepted, harmed, calls, crashes>>

\* The agent and its tasks are gone.
Kill ==
  /\ pc' = [h \in Handlers |-> "idle"]
  /\ asked' = [h \in Handlers |-> NoCall]
  /\ solo' = [h \in Handlers |-> TRUE]
  /\ timers' = 0

\* Mutant: what cannot be loaded counts as a configuration that is empty.
BootOrEmpty ==
  /\ \E bad \in IpFaults : net' = ConfigureLoopback(Bare(bad))
  /\ LET c == IF Load(file) = <<>> THEN NoConfig ELSE Load(file)[1]
     IN  stage' = "apply" /\ todo' = c.interfaces /\ booted' = <<c>>
  /\ Kill /\ dropped' = FALSE
  /\ UNCHANGED <<file, accepted, harmed, calls, faults>>

\* The node goes down and keel-init sets up networking: a configuration that
\* loads is applied, interface by interface, and the fallback otherwise.
Boot ==
  /\ booted' = Load(file)
  /\ \E bad \in IpFaults :
       LET n == ConfigureLoopback(Bare(bad))
       IN  IF booted' = <<>>
           THEN stage' = "run" /\ todo' = <<>> /\ net' = DefaultDns(ConfigureFallback(n))
           ELSE stage' = "apply" /\ todo' = booted'[1].interfaces /\ net' = n
  /\ Kill /\ dropped' = FALSE
  /\ UNCHANGED <<file, accepted, harmed, calls, faults>>

\* Mutant: a second auto-reboot puts off the first, and neither comes.
AutoRebootAlone == timers = 1 /\ Boot /\ UNCHANGED crashes

\* The task an accepted call with auto_reboot has left behind.
AutoReboot == timers > 0 /\ Boot /\ UNCHANGED crashes

\* `reboot` cannot be run; its status is not looked at.
AutoRebootFails ==
  /\ timers > 0 /\ timers' = timers - 1 /\ dropped' = TRUE
  /\ faults < MaxFaults /\ faults' = faults + 1
  /\ UNCHANGED <<file, pc, asked, solo, bootVars, accepted, harmed, calls, crashes>>

\* The operator reboots the node, or it fails.
Crash == crashes < MaxCrashes /\ crashes' = crashes + 1 /\ Boot

\* The agent exits, and keel-init starts another one.
AgentExit ==
  /\ stage = "run" /\ crashes < MaxCrashes /\ crashes' = crashes + 1
  /\ Kill /\ dropped' = (dropped \/ timers > 0)
  /\ UNCHANGED <<file, bootVars, accepted, harmed, calls, faults>>

\* Mutant: the first interface that does not come up ends the loop.
ApplyUntilFailure ==
  /\ stage = "apply" /\ todo # <<>>
  /\ net' = ConfigureInterface(net, Head(todo))
  /\ todo' = IF Works(net, "up", Head(todo).name) THEN Tail(todo) ELSE <<>>
  /\ UNCHANGED <<file, callVars, stage, booted, accepted, harmed,
                 calls, faults, crashes>>

ApplyInterface ==
  /\ stage = "apply" /\ todo # <<>>
  /\ net' = ConfigureInterface(net, Head(todo))
  /\ todo' = Tail(todo)
  /\ UNCHANGED <<file, callVars, stage, booted, accepted, harmed,
                 calls, faults, crashes>>

\* DNS and routes, when all interfaces are through; then the agent starts.
ApplyRest ==
  /\ stage = "apply" /\ todo = <<>>
  /\ LET c == booted[1]
         n == IF c.dns = <<>> THEN net ELSE ConfigureDns(net, c.dns[1].nameservers)
     IN  net' = DefaultDns(ConfigureRoutes(n, Range(c.routes)))
  /\ stage' = "run"
  /\ UNCHANGED <<file, callVars, todo, booted, accepted, harmed,
                 calls, faults, crashes>>

Next ==
  \/ ApplyInterface \/ ApplyRest
  \/ \E h \in Handlers : Configure(h) \/ Write(h) \/ WriteFails(h)
  \/ AutoReboot \/ AutoRebootFails \/ Crash \/ AgentExit

Spec == Init /\ [][Next]_vars

\* keel-init goes on, a handler that writes goes on, and tokio runs the task
\* whose time has come.
FairSpec ==
  /\ Spec /\ WF_vars(ApplyInterface \/ ApplyRest) /\ WF_vars(AutoReboot \/ AutoRebootFails)
  /\ \A h \in Handlers : WF_vars(Write(h) \/ WriteFails(h))

-----------------------------------------------------------------------------

(***************************************************************************)
(* "Network configuration saved. Changes will apply on next boot."         *)
(* (network.rs): a boot loads the configuration that was accepted last,    *)
(* through the conversion, the JSON text and a second validation, unless   *)
(* the file was truncated since and no write has had it for itself.        *)
(***************************************************************************)
NextBootApplies ==
  [][(AutoReboot \/ Crash) /\ accepted # <<>> /\ ~harmed => booted' = accepted]_vars

(***************************************************************************)
(* A boot that finds no configuration, or one that a crash, a failed write *)
(* or two writes at once have spoiled, leaves the node with its fallback   *)
(* address and a default route (setup_networking), unless an ip command    *)
(* for eth0 fails.                                                         *)
(***************************************************************************)
SpoiltFileIsAccessible ==
  [][(AutoReboot \/ Crash) /\ file.is # "whole" =>
       \/ \E f \in net'.failed : f[2] = Eth0
       \/ <<Eth0, FallbackNet>> \in net'.addr /\ <<"v4", Eth0>> \in net'.default]_vars

(***************************************************************************)
(* After a boot every static interface of the configuration that is a link *)
(* of the machine is up and has its IPv4 address and all its IPv6          *)
(* addresses, whatever failed for the other interfaces, before or after it *)
(* (configure_interface).  The IPv6 addresses do not survive an MTU below  *)
(* 1280, which validate accepts.                                           *)
(***************************************************************************)
StaticIsUp ==
  stage = "run" => \A c \in Range(booted) : \A i \in Range(c.interfaces) :
    (/\ i.config.type = "static" /\ i.name \in Hardware
     /\ \A f \in net.failed : f[2] # i.name)
      => LET s == i.config.static IN
         /\ i.name \in net.up
         /\ s.v4 # "" => <<i.name, s.v4>> \in net.addr
         /\ s.mtu >= MinMtu6 => \A a \in Range(s.v6) : <<i.name, a>> \in net.addr6

(***************************************************************************)
(* What get_network_config shows, sent back to configure_network, is the   *)
(* configuration accepted last: neither conversion nor the JSON text loses *)
(* anything.                                                               *)
(***************************************************************************)
ShownIsAccepted ==
  accepted # <<>> /\ ~harmed => Convertible(Shown) /\ <<ToConfig(Shown)>> = accepted

(***************************************************************************)
(* A configuration accepted with auto_reboot is loaded and applied in the  *)
(* end (the task configure_network spawns), unless another call touches    *)
(* the file before, the agent exits within the two seconds, or `reboot`    *)
(* cannot be run.                                                          *)
(***************************************************************************)
AutoRebootApplies ==
  (accepted # <<>> /\ timers > 0 /\ ~harmed)
    ~> ((booted = accepted /\ stage = "run") \/ harmed \/ dropped)
=============================================================================
