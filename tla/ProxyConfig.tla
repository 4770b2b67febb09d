----------------------------- MODULE ProxyConfig -----------------------------
(***************************************************************************)
(* From a provider's list of nodes to the configuration sing-box is        *)
(* started with: the subscription parser (proxy/subscription.ts), the      *)
(* choice of the tunnel and the probe before it (startTunInternal of       *)
(* main/index.ts), the configuration (proxy/sing-box-config.ts), and the   *)
(* steps of a start around it: residues of an earlier tunnel are looked    *)
(* for and cleaned, the configuration is written and checked               *)
(* (sing-box-manager.ts, sing-box-stale-state.ts).  macOS.                 *)
(*                                                                         *)
(* A node is what it says about its protocol, transport and security;      *)
(* names, addresses and secrets are carried along by all of the code and   *)
(* left out, as are regions.  Clash documents are those whose blocks begin *)
(* with the name.  Stops and back ends are TunManager's.                   *)
(***************************************************************************)
EXTENDS Naturals, Sequences, FiniteSets, SequencesExt

CONSTANTS
  Calls,      \* requests that may be under way: tun:startTun, tun:reconnect
  Nobody,
  MaxStarts   \* bound: requests

ASSUME ProxyConfigConstants == Calls # {} /\ Nobody \notin Calls /\ MaxStarts \in Nat \ {0}

-----------------------------------------------------------------------------
(* The provider's nodes.                                                   *)

\* "hy2" is another name of hysteria2.
Proto == {"ss", "ssr", "vmess", "vless", "trojan", "hysteria2", "hy2", "socks5"}
Net == {"tcp", "ws", "grpc"}

\* How a node is written: as a URL, or in a Clash document, on one line or as
\* a block.
Form == {"line", "inline", "block"}

\* What providers offer.  A URL may be damaged.
Entry ==
  { e \in [proto : Proto, net : Net, sec : {"none", "tls", "reality"}, insecure : BOOLEAN,
           form : Form, good : BOOLEAN] :
      /\ e.net # "tcp" => e.proto \in {"vmess", "vless", "trojan"}
      /\ e.sec # "none" <=> \/ e.proto \in {"trojan", "hysteria2", "hy2"}
                            \/ e.proto \in {"vmess", "vless"} /\ e.sec # "none"
      /\ e.sec = "reality" => e.proto = "vless"
      /\ e.insecure => e.sec = "tls"
      /\ ~e.good => e.form = "line" }

\* What a URL of a node tells: "path" and "key" are the path of its transport
\* and the key of reality, where they are needed.
NoUrl == [proto |-> "", net |-> "tcp", sec |-> "none", insecure |-> FALSE, path |-> FALSE,
          key |-> FALSE, good |-> FALSE]

UrlOf(e) == [proto |-> e.proto, net |-> e.net, sec |-> e.sec, insecure |-> e.insecure,
             path |-> e.net # "tcp", key |-> e.sec = "reality", good |-> e.good]

\* parseClashYaml and parseInlineYaml: the fields of a node.  The nested maps
\* of a block come out flat, those of a single line do not come out.
Captured(e) == IF e.form = "block" THEN UrlOf(e)
               ELSE [UrlOf(e) EXCEPT !.path = FALSE, !.key = FALSE]

\* Mutant: reality is what has reality-opts.  (Of a block that is empty.)
buildProtocolUrlByOpts(e) ==
  LET o == Captured(e)
  IN  CASE o.proto = "vless" ->
             [o EXCEPT !.path = FALSE, !.insecure = FALSE,
                       !.sec = IF @ = "reality" /\ e.form = "block" THEN "tls" ELSE @]
        [] OTHER -> o

\* buildProtocolUrl: what of that gets into the URL.
buildProtocolUrl(e) ==
  LET o == Captured(e)
  IN  CASE o.proto = "vless" -> [o EXCEPT !.path = FALSE, !.insecure = FALSE]
        [] o.proto = "vmess" -> [o EXCEPT !.path = FALSE, !.insecure = FALSE]
        [] o.proto = "trojan" ->
             [o EXCEPT !.net = IF @ = "ws" THEN "ws" ELSE "tcp", !.path = @ /\ o.net = "ws",
                       !.insecure = FALSE]
        [] o.proto \in {"hysteria2", "hy2"} -> [o EXCEPT !.proto = "hysteria2"]
        [] o.proto \in {"ss", "socks5"} -> o
        [] OTHER -> NoUrl

\* What the provider wants of a node's connections (history).
Wanted(e) == [sec |-> e.sec, insecure |-> e.insecure]

\* pushClashNode: a node keeps the type it was given.
pushClashNode(e) == [type |-> e.proto, raw |-> buildProtocolUrl(e), of |-> Wanted(e)]

\* parseProxyLine: a damaged URL is a node all the same.
parseProxyLine(e) == [type |-> IF e.proto = "hy2" THEN "hysteria2" ELSE e.proto,
                      raw |-> [UrlOf(e) EXCEPT !.proto = IF @ = "hy2" THEN "hysteria2" ELSE @],
                      of |-> Wanted(e)]

\* parseSubscription.  A document is in one of the two formats.
Document == { <<e>> : e \in Entry } \cup
            { d \in {<<e, f>> : e \in Entry, f \in {g \in Entry : g.net = "tcp" /\ ~g.insecure}} :
                d[1].form = "line" <=> d[2].form = "line" }

parseSubscription(d) ==
  [i \in DOMAIN d |-> IF d[i].form = "line" THEN parseProxyLine(d[i]) ELSE pushClashNode(d[i])]

-----------------------------------------------------------------------------
(* Outbounds (parseProxyUrl): "good" ones have a server to dial.           *)

Outbound(type, u) ==
  [type |-> type, net |-> "tcp", sec |-> "none", insecure |-> FALSE, path |-> FALSE, key |-> FALSE,
   good |-> u.good]

\* The user's proxy: socks5, http, https, or host:port without a scheme.
parseSocks(u) == Outbound("socks", u)
parseHttp(u) == [Outbound("http", u) EXCEPT !.sec = u.sec]

parseShadowsocks(u) == Outbound("shadowsocks", u)

\* The four that catch: of a damaged URL they make an outbound without a
\* server, and without security or transport.
parseVmess(u) ==
  IF u.good THEN [Outbound("vmess", u) EXCEPT !.net = u.net, !.sec = u.sec, !.path = u.path]
  ELSE Outbound("vmess", u)

parseVless(u) ==
  IF u.good
  THEN [Outbound("vless", u) EXCEPT !.net = u.net, !.path = u.path, !.sec = u.sec, !.key = u.key]
  ELSE Outbound("vless", u)

parseHysteria2(u) ==
  IF u.good THEN [Outbound("hysteria2", u) EXCEPT !.sec = "tls", !.insecure = u.insecure]
  ELSE Outbound("hysteria2", u)

\* insecure is not read.
parseTrojan(u) ==
  IF u.good THEN [Outbound("trojan", u) EXCEPT !.net = u.net, !.path = u.path, !.sec = "tls"]
  ELSE Outbound("trojan", u)

parseProxyUrl(u) ==
  CASE u.proto = "socks5" -> parseSocks(u)
    [] u.proto \in {"http", "user@host"} -> parseHttp(u)
    [] u.proto = "https" -> parseHttp([u EXCEPT !.sec = "tls"])
    [] u.proto = "ss" -> parseShadowsocks(u)
    [] u.proto = "vmess" -> parseVmess(u)
    [] u.proto = "vless" -> parseVless(u)
    [] u.proto = "trojan" -> parseTrojan(u)
    [] u.proto = "hysteria2" -> parseHysteria2(u)
    [] OTHER -> [parseSocks(u) EXCEPT !.good = FALSE]

\* The proxies a session may hold.
ProxyUrl == { [NoUrl EXCEPT !.proto = p, !.good = TRUE] :
                p \in {"socks5", "https", "vmess", "user@host", "host"} }

-----------------------------------------------------------------------------
(* The choice of the tunnel (startTunInternal).                            *)

NoNode == [type |-> "none", raw |-> NoUrl]

First(nodes, type) ==
  LET found == SelectInSeq(nodes, LAMBDA n : n.type = type)
  IN  IF found = 0 THEN NoNode ELSE nodes[found]

\* The best node, by protocol.
TunnelNode(nodes) ==
  LET best == SelectInSeq(<<"hysteria2", "vless", "trojan", "ss">>,
                          LAMBDA t : First(nodes, t) # NoNode)
  IN  IF best = 0 THEN NoNode ELSE First(nodes, <<"hysteria2", "vless", "trojan", "ss">>[best])

NoTunnel == Outbound("none", NoUrl)

\* The nodes that a fetch may come back with.
Fetchable == {TunnelNode(parseSubscription(d)) : d \in Document} \ {NoNode}

-----------------------------------------------------------------------------
(* The configuration.                                                      *)

\* What a rule may see of a connection: made by one of the Chinese apps, to a
\* domain or an address known as Chinese, to a private address, by IPv6, and
\* whether the destination was asked for by name.
Trait == {"cn-app", "cn-site", "cn-ip", "private", "ipv6", "named"}
Traffic == SUBSET Trait

Rule(traits, to) == [traits |-> traits, to |-> to]

\* The first rule that matches.
Match(rules, traffic, final) ==
  LET hit == SelectInSeq(rules, LAMBDA r : r.traits \cap traffic # {})
  IN  IF hit = 0 THEN final ELSE rules[hit].to

\* Mutant: the names that Chinese apps ask for are not exempt from FakeIP.
buildTunConfigNoApps(proxy, tunnel, ruleSet) ==
  [proxy |-> proxy, tunnel |-> tunnel,
   detour |-> [proxy |-> IF tunnel # NoTunnel THEN "tunnel" ELSE "none", tunnel |-> "none",
               direct |-> "none"],
   dnsDetour |-> [remote |-> IF tunnel # NoTunnel THEN "tunnel" ELSE "proxy", local |-> "direct",
                  ali |-> "direct"],
   resolver |-> [remote |-> "local", local |-> "none", ali |-> "none"],
   dialDns |-> "local",
   dnsRules |-> (IF ruleSet THEN <<Rule({"cn-site"}, "local")>> ELSE <<>>)
                \o <<Rule({"named"}, "fakeip")>>,
   rules |-> <<Rule({"ipv6"}, "reject"), Rule({"cn-app"}, "direct"), Rule({"private"}, "direct")>>
             \o IF ruleSet THEN <<Rule({"cn-site", "cn-ip"}, "direct")>> ELSE <<>>]

\* Mutant: the servers of the outbounds are looked up like anything else.
buildTunConfigNoDial(proxy, tunnel, ruleSet) ==
  [buildTunConfigNoApps(proxy, tunnel, ruleSet) EXCEPT !.dialDns = "remote"]

\* buildTunConfig.  Per DNS server: the outbound it is asked through (detour)
\* and the server that looks up its own name (address_resolver; the local ones
\* have addresses).  FakeIP answers the names that no rule exempts; the servers
\* of the outbounds are looked up by local-dns.
buildTunConfig(proxy, tunnel, ruleSet) ==
  LET chain == tunnel # NoTunnel
      cn(rules) == IF ruleSet THEN rules ELSE <<>>
  IN  [proxy |-> proxy, tunnel |-> tunnel,
       detour |-> [proxy |-> IF chain THEN "tunnel" ELSE "none", tunnel |-> "none",
                   direct |-> "none"],
       dnsDetour |-> [remote |-> IF chain THEN "tunnel" ELSE "proxy", local |-> "direct",
                      ali |-> "direct"],
       resolver |-> [remote |-> "local", local |-> "none", ali |-> "none"],
       dialDns |-> "local",
       dnsRules |-> <<Rule({"cn-app"}, "local")>> \o cn(<<Rule({"cn-site"}, "local")>>)
                    \o <<Rule({"named"}, "fakeip")>>,
       rules |-> <<Rule({"ipv6"}, "reject"), Rule({"cn-app"}, "direct"),
                   Rule({"private"}, "direct")>>
                 \o cn(<<Rule({"cn-site", "cn-ip"}, "direct")>>)]

\* The address of the TUN interface, and what a residue is told by
\* (parseStaleSingBoxInterfaces, parseStaleSingBoxRoutes).
TunAddress == "172.19.0.1"
StaleAddress == {"198.18.0.1", "198.19.250.5"}

-----------------------------------------------------------------------------
(* Starting.                                                               *)

VARIABLES
  call,
  outbound,  \* _tunnelOutbound
  start,     \* _startPromise: the request that owns it, and its stage
  config,    \* config.json
  box,       \* sing-box runs
  residue,   \* addresses of utun interfaces without a process
  flagged,   \* _hasStaleNetworkState
  starts

proxyVars == <<call, outbound, start, config, box, residue, flagged, starts>>

\* A request: its stage, and the node it means to tunnel through.
NoCall == [pc |-> "idle", node |-> NoNode]
Tunnel(node) == IF node = NoNode THEN NoTunnel ELSE parseProxyUrl(node.raw)
NoStart == [by |-> Nobody, stage |-> "none"]
NoConfig == [proxy |-> NoTunnel]

\* detectStaleNetworkState
detectStale == residue \cap StaleAddress # {}

\* cleanupStaleProcesses, when the app starts; a residue may be that of an
\* earlier version.
ProxyInit ==
  /\ call = [c \in Calls |-> NoCall]
  /\ outbound = NoTunnel
  /\ start = NoStart /\ config = NoConfig /\ box = FALSE
  /\ residue \in {{}, {"198.18.0.1"}} /\ flagged = detectStale
  /\ starts = 0

\* startTun: joins the start under way.
startTun(c, node) ==
  IF start.by = Nobody
  THEN /\ start' = [by |-> c, stage |-> "stopping"]
       /\ call' = [call EXCEPT ![c] = [pc |-> "owner", node |-> node]]
  ELSE call' = [call EXCEPT ![c] = [pc |-> "joined", node |-> node]] /\ UNCHANGED start

\* Mutant: without a tunnel the last one is left.
ProceedKeeping(c, node) ==
  /\ outbound' = IF node # NoNode THEN Tunnel(node) ELSE outbound
  /\ startTun(c, node)

\* setTunnelOutbound and startTun, without a pause between them.
Proceed(c, node) == outbound' = Tunnel(node) /\ startTun(c, node)

\* Only a session with a tunnelUrl has something to fetch.
StartTunInternal(c) ==
  /\ call[c].pc = "idle" /\ starts < MaxStarts
  /\ starts' = starts + 1
  /\ \/ call' = [call EXCEPT ![c].pc = "fetching"] /\ UNCHANGED <<outbound, start>>
     \/ Proceed(c, NoNode)
  /\ UNCHANGED <<config, box, residue, flagged>>

\* fetchSubscription fails, or the document has no node to tunnel through.
FetchedNone(c) ==
  /\ call[c].pc = "fetching"
  /\ Proceed(c, NoNode)
  /\ UNCHANGED <<config, box, residue, flagged, starts>>

Fetched(c) ==
  /\ call[c].pc = "fetching"
  /\ \E node \in Fetchable :
       call' = [call EXCEPT ![c] = [pc |-> "probing", node |-> node]]
  /\ UNCHANGED <<outbound, start, config, box, residue, flagged, starts>>

\* probeDirectProxy: through the tunnel only what does not go without.
Probed(c) ==
  /\ call[c].pc = "probing"
  /\ \E directOk \in BOOLEAN : Proceed(c, IF directOk THEN NoNode ELSE call[c].node)
  /\ UNCHANGED <<config, box, residue, flagged, starts>>

Stage(from, to) == start.stage = from /\ start' = [start EXCEPT !.stage = to]

\* The stop of what runs; then the scan.
Stopped ==
  /\ IF flagged \/ detectStale THEN Stage("stopping", "cleaning") ELSE Stage("stopping", "building")
  /\ box' = FALSE
  /\ UNCHANGED <<call, outbound, config, residue, flagged, starts>>

\* cleanupStaleNetworkState: if the helper answers, it stops sing-box and
\* restores the DNS; else a script destroys the interfaces found, or is refused.
Cleaned ==
  /\ Stage("cleaning", "building")
  /\ \/ flagged' = FALSE /\ UNCHANGED residue
     \/ detectStale /\ residue' = residue \ StaleAddress /\ flagged' = FALSE
     \/ detectStale /\ UNCHANGED <<residue, flagged>>
  /\ UNCHANGED <<call, outbound, config, box, starts>>

\* More than 20 s.
CleanupTimesOut ==
  /\ Stage("cleaning", "building")
  /\ flagged' = TRUE
  /\ UNCHANGED <<call, outbound, config, box, residue, starts>>

\* buildTunConfig and writeConfig; the rule sets are there, or are not.
Built ==
  /\ Stage("building", "validating")
  /\ \E u \in ProxyUrl, ruleSet \in BOOLEAN :
       config' = buildTunConfig(parseProxyUrl(u), outbound, ruleSet)
  /\ UNCHANGED <<call, outbound, box, residue, flagged, starts>>

\* What sing-box check surely refuses: reality without its key.  (What else it
\* refuses is a start that fails.)
Sound(o) == o.sec = "reality" => o.key
Valid == Sound(config.proxy) /\ (config.tunnel # NoTunnel => Sound(config.tunnel))

\* The requests that waited for this start are answered.
Settle ==
  /\ start' = NoStart
  /\ call' = [c \in Calls |-> IF call[c].pc \in {"owner", "joined"} THEN NoCall ELSE call[c]]

Validated ==
  /\ start.stage = "validating" /\ Valid
  /\ start' = [start EXCEPT !.stage = "starting"]
  /\ UNCHANGED <<call, outbound, config, box, residue, flagged, starts>>

Started ==
  /\ start.stage = "starting"
  /\ Settle /\ box' = TRUE
  /\ UNCHANGED <<outbound, config, residue, flagged, starts>>

\* A start may fail at every stage, and fails with a bad configuration; it
\* looks for residues.
StartFails ==
  /\ start.stage # "none"
  /\ Settle
  /\ flagged' = (flagged \/ detectStale)
  /\ UNCHANGED <<outbound, config, box, residue, starts>>

\* sing-box is killed before it can take its interface down.
Killed ==
  /\ box /\ box' = FALSE
  /\ residue' = residue \cup {TunAddress}
  /\ UNCHANGED <<call, outbound, start, config, flagged, starts>>

ProxyNext ==
  \/ \E c \in Calls : StartTunInternal(c) \/ FetchedNone(c) \/ Fetched(c) \/ Probed(c)
  \/ Stopped \/ Cleaned \/ CleanupTimesOut \/ Built \/ Validated \/ Started \/ StartFails
  \/ Killed

ProxySpec == ProxyInit /\ [][ProxyNext]_proxyVars

\* The requests are alike.
Symmetry == Permutations(Calls)

-----------------------------------------------------------------------------

JustBuilt == start.stage = "validating"

\* However a node is written and whatever way it takes into the configuration
\* (buildProtocolUrl, parseProxyUrl), a tunnel that can be dialled is as secure
\* as the node that a waiting request chose for it: the same encryption, and
\* certificates are verified unless the node itself says otherwise.  (A damaged
\* URL becomes a tunnel without TLS, but without a server too.  What may be
\* lost of others is a path, gRPC for trojan, and the key of reality.)
NoDowngrade ==
  JustBuilt /\ config.tunnel.good =>
    \E c \in Calls : LET node == call[c].node IN
      /\ call[c].pc \in {"owner", "joined"} /\ node # NoNode /\ Tunnel(node) = config.tunnel
      /\ config.tunnel.sec = node.of.sec
      /\ config.tunnel.insecure => node.of.insecure

\* A configuration goes through the tunnel only if a request that waits for it
\* found that tunnel and no way without: never through the tunnel of an
\* earlier start (_tunnelOutbound is a field that outlives the start).
ChainIsWanted ==
  JustBuilt /\ config.tunnel # NoTunnel =>
    \E c \in Calls : call[c].pc \in {"owner", "joined"} /\ Tunnel(call[c].node) = config.tunnel

\* What DNS tells of a connection, and where it goes: an address from FakeIP
\* hides whether the real one is Chinese or private.
Dns(traffic) == IF "named" \in traffic THEN Match(config.dnsRules, traffic, "remote") ELSE "none"
Seen(traffic) ==
  IF Dns(traffic) = "fakeip" THEN traffic \ {"cn-ip", "private"} ELSE traffic
Route(traffic) == Match(config.rules, Seen(traffic), "proxy")

\* The DNS rules and the route rules of buildTunConfig, two lists, agree: what
\* goes out directly has been given its real address, and what has nothing
\* Chinese or private about it does not go out directly.  (The lists are the
\* code's: the comment above them still speaks of a list of what is proxied.)
RoutesAgree ==
  JustBuilt => \A traffic \in Traffic :
    Route(traffic) = "direct" =>
      /\ Dns(traffic) \in {"none", "local"}
      /\ traffic \cap {"cn-app", "cn-site", "cn-ip", "private"} # {}

\* What the dial of an outbound needs: the outbound it goes through, and the DNS
\* server that looks up its server's name.  What a DNS server needs: the
\* outbound it is asked through, and the one that looks up its own name.
Needs(n) ==
  CASE n = "direct" -> {}
    [] n \in {"proxy", "tunnel"} -> {config.detour[n], config.dialDns} \ {"none"}
    [] OTHER -> {config.dnsDetour[n], config.resolver[n]} \ {"none"}

\* Nothing waits for itself, neither for a dial nor for a name: among any of the
\* outbounds and DNS servers there is one that needs none of the others.  (The
\* rule "outbound: any" of the DNS rules and the address_resolver are there for
\* that.)
NoLoop ==
  JustBuilt => \A some \in SUBSET {"proxy", "tunnel", "direct", "remote", "local", "ali"} :
    some # {} => \E n \in some : Needs(n) \cap some = {}

\* Every name is looked up where its traffic can use the answer, and no lookup
\* or dial of the configuration waits for itself.
NamesResolve == RoutesAgree /\ NoLoop

\* What detectStaleNetworkState and startTun say: the interfaces of a tunnel
\* that was killed are found and cleaned up before the next one.
StaleIsFound ==
  [][start.stage = "stopping" /\ start'.stage = "building" => residue = {}]_proxyVars

=============================================================================
