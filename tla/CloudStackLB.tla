---------------------------- MODULE CloudStackLB ----------------------------
(***************************************************************************)
(* The load-balancer part of the CloudStack cloud-controller-manager       *)
(* (loadbalancer.go and service_patcher.go): EnsureLoadBalancer,           *)
(* EnsureLoadBalancerDeleted, the rule locator getLoadBalancerByName, the  *)
(* rule and firewall reconcilers, UpdateLoadBalancer with verifyHosts,    *)
(* and the servicePatcher, together with                                  *)
(* the parts of CloudStack and of the Kubernetes service controller they   *)
(* call.  Every remote call is one step, so a failed call or a restart of  *)
(* the controller can fall between any two of them.                        *)
(***************************************************************************)
EXTENDS Naturals, FiniteSets, Sequences, SequencesExt, LBHelpers

CONSTANTS
    Services,          \* the Services of type LoadBalancer
    Controllers,       \* controller-manager processes running the service controller
    CanonicalName,     \* CanonicalName[s]: GetLoadBalancerName(s)
    LegacyName,        \* LegacyName[s]: getLoadBalancerLegacyName(s)
    KeywordHits,       \* <<k, n>> \in KeywordHits: a rule list with keyword k returns rules of LB n
    PortSets,          \* the port lists a Service may declare (sets of [protocol, port, nodePort])
    CidrChoices,       \* loadBalancerSourceRanges values, as sequences (<<>> = not set)
    InvalidCidr,       \* a source range utilnet.ParseIPNets rejects
    AllowAll,          \* defaultAllowedCIDR
    AffinityChoices,   \* spec.sessionAffinity values
    ProxyChoices,      \* values of the proxy-protocol annotation
    RequestChoices,    \* spec.loadBalancerIP values (NoIP = not set)
    PoolIPs,           \* addresses AssociateIpAddress may hand out
    PinnedIP,          \* an address reserved outside the controller
    NoIP,
    VMs,               \* ListVirtualMachines: the VMs of the project, in listing order
    NodeChoices,       \* the node lists the cluster may have
    InitNodes,         \* the node list at start
    FirewallSupported, \* isFirewallSupported of the guest network
    InitSvc,           \* InitSvc[s]: the Service object at start
    InitRules,         \* load-balancer rules that exist at start
    InitFw,            \* firewall rules that exist at start
    MaxFaults,         \* bound on failed remote calls
    MaxCrashes,        \* bound on controller restarts
    MaxEdits,          \* bound on user edits of Services
    MaxDrift,          \* bound on changes made outside the controller
    MaxNodeChanges     \* bound on changes of the node list

VARIABLES
    rules,      \* CloudStack load-balancer rules
    fw,         \* CloudStack firewall rules
    allocated,  \* public IPs associated with the account
    svc,        \* the Service objects stored by the API server
    cache,      \* cache[c][s]: annotation of the informer's copy of s in process c
    needSync,   \* needSync[c][s]: s is queued in c's service controller
    call,       \* call[c]: the load-balancer call process c is executing
    faults, crashes, edits, drifts,
    drifted,    \* drifted[s]: s's rules were changed outside the controller since its last call began
    nodes,      \* the cluster's nodes, as the service controller lists them
    needHosts,  \* needHosts[c][s]: c's node sync still has to run UpdateLoadBalancer for s
    nodeChanges

nodeVars == <<nodes, needHosts, nodeChanges>>

vars == <<rules, fw, allocated, svc, cache, needSync, call,
          faults, crashes, edits, drifts, drifted, nodes, needHosts, nodeChanges>>

-----------------------------------------------------------------------------
(* Protocol names (constants.go) and the two vocabularies derived from a   *)
(* Kubernetes service port: the load-balancer protocol, which names the    *)
(* rule, and the IP protocol of its firewall rule.                         *)

ProtoTCP == "tcp"
ProtoUDP == "udp"
ProtoTCPProxy == "tcp-proxy"
\* Never a load-balancer protocol; firewall rules an operator adds may use it.
ProtoICMP == "icmp"
ProtoInvalid == "invalid"

ProtocolFromServicePort(p, proxy) ==
    CASE p.protocol = "TCP" /\ proxy -> ProtoTCPProxy
      [] p.protocol = "TCP"          -> ProtoTCP
      [] p.protocol = "UDP"          -> ProtoUDP
      [] OTHER                       -> ProtoInvalid

IPProtocol(proto) == IF proto = ProtoTCPProxy THEN ProtoTCP ELSE proto

\* lbRuleName: "<lb name>-<protocol>-<port>"
RuleName(lb, p, proxy) == <<lb, ProtocolFromServicePort(p, proxy), p.port>>

\* The algorithm EnsureLoadBalancer derives from spec.sessionAffinity.
Algorithm(affinity) == IF affinity = "ClientIP" THEN "source" ELSE "roundrobin"

\* getLoadBalancerSourceRanges: the field (or annotation) as an IPNetSet,
\* allow-all when empty.
SourceRanges(d) == IF d.cidrs = <<>> THEN {AllowAll} ELSE ToSet(d.cidrs)
SourceRangesValid(d) == InvalidCidr \notin ToSet(d.cidrs)

\* StringSlice of the IPNetSet: each range once, in some order.
CidrList(set) == SetToSeq(set)

Hits(keyword, r) == <<keyword, r.name[1]>> \in KeywordHits

\* The same filter without its per-rule test: every rule of the address.
FwMatchingAddressOnly(ip, proto, port) == {e \in fw : e.ip = ip}
\* The rules ListFirewallRules returns for the address whose protocol is
\* protocol.IPProtocol() and whose start and end port are the public port.
FwMatching(ip, proto, port) ==
    {e \in fw : e.ip = ip /\ e.proto = IPProtocol(proto) /\ e.port = port}

-----------------------------------------------------------------------------
(* A remote mutation the controller has decided on and not yet issued.     *)

NoRule == [name |-> <<"none", "none", 0>>, ip |-> NoIP, port |-> 0, nodePort |-> 0,
           proto |-> "none", algo |-> "none", hosts |-> {}]
NoPort == [protocol |-> "none", port |-> 0, nodePort |-> 0]
NoFw == [ip |-> NoIP, proto |-> "none", port |-> 0, cidrs |-> <<>>]
Op(kind, r, e, ip) == [kind |-> kind, rule |-> r, fwe |-> e, ip |-> ip]

IdleCall == [op |-> "idle", svc |-> "none", phase |-> "none", lb |-> "none",
             ip |-> NoIP, ipNew |-> FALSE, want |-> "none", work |-> {},
             todo |-> {}, cur |-> NoPort, ops |-> <<>>, err |-> "none",
             lastErr |-> FALSE, mutated |-> FALSE, startConverged |-> FALSE,
             matched |-> {}, base |-> NoIP, anno |-> NoIP, aliased |-> FALSE,
             hostIDs |-> {}]

-----------------------------------------------------------------------------
(* What the Service asks for, judged on the rules as they are.             *)

ResolvedName(s) ==
    IF \E r \in rules : r.name[1] = CanonicalName[s] THEN CanonicalName[s]
    ELSE IF \E r \in rules : r.name[1] = LegacyName[s] THEN LegacyName[s]
    ELSE CanonicalName[s]

RulesOf(s) == {r \in rules : r.name[1] \in {CanonicalName[s], LegacyName[s]}}

RuleFields(r) == [name |-> r.name, ip |-> r.ip, port |-> r.port,
                  nodePort |-> r.nodePort, proto |-> r.proto, algo |-> r.algo]

WantedRule(n, p, d, ip) ==
    [name |-> RuleName(n, p, d.proxy), ip |-> ip, port |-> p.port,
     nodePort |-> p.nodePort, proto |-> ProtocolFromServicePort(p, d.proxy),
     algo |-> Algorithm(d.affinity)]

\* The rules under the Service's name are exactly one per declared port,
\* with the declared fields, on the associated address ip.
RulesConverged(s, d, ip) ==
    LET n == ResolvedName(s)
    IN /\ ip \in allocated
       /\ {RuleFields(r) : r \in {r \in rules : r.name[1] = n}}
            = {WantedRule(n, p, d, ip) : p \in d.ports}

\* Where the network has a firewall, each port of ip has exactly one
\* firewall rule, admitting exactly the source ranges.
FirewallConverged(d, ip) ==
    FirewallSupported =>
        \A p \in d.ports :
            LET m == FwMatching(ip, ProtocolFromServicePort(p, d.proxy), p.port)
            IN /\ Cardinality(m) = 1
               /\ \A e \in m : compareStringSlice(e.cidrs, CidrList(SourceRanges(d)))

Converged(s, d) == \E ip \in allocated : RulesConverged(s, d, ip) /\ FirewallConverged(d, ip)

-----------------------------------------------------------------------------
Init ==
    /\ rules = InitRules
    /\ fw = InitFw
    /\ allocated = {PinnedIP} \cup {r.ip : r \in InitRules}
    /\ svc = InitSvc
    /\ cache = [c \in Controllers |-> [s \in Services |-> InitSvc[s].anno]]
    /\ needSync = [c \in Controllers |-> [s \in Services |-> TRUE]]
    /\ call = [c \in Controllers |-> IdleCall]
    /\ faults = 0 /\ crashes = 0 /\ edits = 0 /\ drifts = 0
    /\ drifted = [s \in Services |-> FALSE]
    /\ nodes = InitNodes
    /\ needHosts = [c \in Controllers |-> [s \in Services |-> FALSE]]
    /\ nodeChanges = 0

-----------------------------------------------------------------------------
(* getLoadBalancerByName: list the rules by keyword, first under the       *)
(* canonical name, then under the legacy one; the IP is that of the last   *)
(* rule listed, in an order CloudStack chooses.                            *)

getLoadBalancerByName(s) ==
    LET byName   == {r \in rules : Hits(CanonicalName[s], r)}
        byLegacy == {r \in rules : Hits(LegacyName[s], r)}
        found    == IF byName = {} THEN byLegacy ELSE byName
    IN [lb    |-> IF byName = {} /\ byLegacy # {} THEN LegacyName[s] ELSE CanonicalName[s],
        found |-> found]

\* lb.rules is keyed by rule name: of rules listed under one name only the
\* last survives, and lb.ipAddr is the address of the last rule listed.
RuleMaps(found) ==
    {W \in SUBSET found :
        /\ {r.name : r \in W} = {r.name : r \in found}
        /\ Cardinality(W) = Cardinality({r.name : r \in W})}
\* The locator without lb.ipAddr = lbRule.Publicip.
LastIPsUnset(W) == {NoIP}
LastIPs(W) == IF W = {} THEN {NoIP} ELSE {r.ip : r \in W}

\* The fields checkLoadBalancerRule cannot update in place.
RuleId(r) == <<r.name, r.ip, r.port, r.nodePort>>
MatchesIgnoringNodePort(r, name, p, ip) ==
    r.name = name /\ r.ip = ip /\ r.port = p.port
Matches(r, name, p, ip) ==
    r.name = name /\ r.ip = ip /\ r.nodePort = p.nodePort /\ r.port = p.port

\* delete(lb.rules, lbRuleName): the rule is kept from the cleanup loop.
DeleteFromMapMissing(work, name) == work
DeleteFromMap(work, name) == {r \in work : r.name # name}

checkLoadBalancerRuleInverted(old, new, p) ==
    LET create == <<Op("createRule", new, NoFw, NoIP), Op("assignHosts", new, NoFw, NoIP)>>
    IN
    IF old = NoRule THEN create
    ELSE IF Matches(old, new.name, p, new.ip)
         THEN IF old.algo = new.algo \/ old.proto # new.proto
              THEN <<Op("updateRule", [old EXCEPT !.algo = new.algo, !.proto = new.proto], NoFw, NoIP)>>
              ELSE <<>>
         ELSE <<Op("deleteRule", old, NoFw, NoIP)>> \o create
checkLoadBalancerRuleNoDelete(old, new, p) ==
    LET create == <<Op("createRule", new, NoFw, NoIP), Op("assignHosts", new, NoFw, NoIP)>>
    IN
    IF old = NoRule THEN create
    ELSE IF Matches(old, new.name, p, new.ip)
         THEN IF old.algo # new.algo \/ old.proto # new.proto
              THEN <<Op("updateRule", [old EXCEPT !.algo = new.algo, !.proto = new.proto], NoFw, NoIP)>>
              ELSE <<>>
         ELSE create
\* checkLoadBalancerRule and what the loop does with its answer.
checkLoadBalancerRule(old, new, p) ==
    LET create == <<Op("createRule", new, NoFw, NoIP), Op("assignHosts", new, NoFw, NoIP)>>
    IN
    IF old = NoRule THEN create
    ELSE IF Matches(old, new.name, p, new.ip)
         THEN IF old.algo # new.algo \/ old.proto # new.proto
              THEN <<Op("updateRule", [old EXCEPT !.algo = new.algo, !.proto = new.proto], NoFw, NoIP)>>
              ELSE <<>>
         ELSE <<Op("deleteRule", old, NoFw, NoIP)>> \o create

\* DeleteFirewallRule calls for the listed rules, in the order given.
DeleteFwOps(o) == [i \in DOMAIN o |-> Op("deleteFw", NoRule, o[i], NoIP)]

\* The check after a loop of deletions: the last deletion's error, if any,
\* is what the function returns.
FwCheck == Op("fwCheck", NoRule, NoFw, NoIP)

\* updateFirewallRule: keep one rule whose CIDR list matches, delete the
\* other rules on the port (each failure logged, the last one returned) and
\* create a rule when none matched (its failure returned at once).  Which
\* matching rule is kept and the order of the deletions follow Go map
\* iteration.
updateFirewallRule(ip, proto, port, allowed) ==
    LET m    == FwMatching(ip, proto, port)
        keep == {e \in m : compareStringSlice(e.cidrs, allowed)}
        new  == [NoFw EXCEPT !.ip = ip, !.proto = IPProtocol(proto), !.port = port,
                             !.cidrs = allowed]
    IN IF keep = {}
       THEN {DeleteFwOps(o) \o <<Op("createFw", NoRule, new, NoIP)>> : o \in SetToSeqs(m)}
       ELSE UNION {{DeleteFwOps(o) \o <<FwCheck>> : o \in SetToSeqs(m \ {k})} : k \in keep}

\* deleteFirewallRule: delete every rule on the port, return the last error.
deleteFirewallRule(ip, proto, port) ==
    {DeleteFwOps(o) \o <<FwCheck>> : o \in SetToSeqs(FwMatching(ip, proto, port))}

-----------------------------------------------------------------------------
(* Steps of a controller process.  A call is Idle, or runs through phases  *)
(* whose decisions queue remote mutations in call[c].ops; the queued calls *)
(* are then issued one per step by the Exec actions, and may fail.      *)

Idle(c) == call[c].op = "idle"

hasLoadBalancerIPAlways(ip) == TRUE
hasLoadBalancerIP(ip) == ip # NoIP
Ready(c, op, phase) ==
    /\ call[c].op = op /\ call[c].phase = phase /\ call[c].ops = <<>>

\* A returned error: the rest of the function body is skipped.
Fail(c, kind) ==
    call' = [call EXCEPT ![c].phase = "exit", ![c].err = kind, ![c].ops = <<>>]

\* EnsureLoadBalancer up to the IP: newServicePatcher snapshots the
\* informer's object, getLoadBalancerByName locates the rules, the affinity
\* gives the algorithm and verifyHosts the VMs of the nodes, or the error
\* that ends the call.
EnsureLoadBalancer(c, s) ==
    /\ Idle(c)
    /\ needSync[c][s]
    /\ svc[s].exists
    /\ svc[s].ports # {}
    /\ LET L == getLoadBalancerByName(s)
           V == verifyHosts(nodes, VMs) IN
       \E W \in RuleMaps(L.found) : \E ip \in LastIPs(W) :
         call' = [call EXCEPT ![c] =
                   [IdleCall EXCEPT !.op = "ensure", !.svc = s,
                      !.phase = IF V.err THEN "exit" ELSE "ip",
                      !.err = IF V.err THEN "remote" ELSE "none",
                      !.hostIDs = ToSet(V.hostIDs),
                      !.lb = L.lb, !.ip = ip, !.want = svc[s], !.work = W,
                      !.todo = svc[s].ports, !.base = cache[c][s],
                      !.anno = cache[c][s], !.aliased = TRUE,
                      !.startConverged = Converged(s, svc[s]),
                      !.matched = {RuleId(r) : r \in {r \in W :
                          \E p \in svc[s].ports :
                              /\ Matches(r, RuleName(L.lb, p, svc[s].proxy), p, ip)
                              /\ r.algo = Algorithm(svc[s].affinity)}}]]
    /\ needSync' = [needSync EXCEPT ![c][s] = FALSE]
    /\ drifted' = [drifted EXCEPT ![s] = FALSE]
    /\ UNCHANGED <<rules, fw, allocated, svc, cache, faults, crashes, edits, drifts>>
    /\ UNCHANGED nodeVars

\* hasLoadBalancerIP, then setServiceAnnotation, which writes into the
\* object the caller passed: the informer's copy, while it is still current.
EnsureRecordIP(c) ==
    /\ Ready(c, "ensure", "ip")
    /\ hasLoadBalancerIP(call[c].ip)
    /\ cache' = IF call[c].aliased
                THEN [cache EXCEPT ![c][call[c].svc] = call[c].ip]
                ELSE cache
    /\ call' = [call EXCEPT ![c].phase = "ports", ![c].anno = call[c].ip]
    /\ UNCHANGED <<rules, fw, allocated, svc, needSync, faults, crashes, edits, drifts, drifted>>
    /\ UNCHANGED nodeVars

\* getLoadBalancerIP -> getPublicIPAddress: the requested address must be
\* associated with the account already.
getPublicIPAddress(c) ==
    /\ Ready(c, "ensure", "ip")
    /\ ~hasLoadBalancerIP(call[c].ip)
    /\ call[c].want.reqIP # NoIP
    /\ IF call[c].want.reqIP \in allocated
       THEN call' = [call EXCEPT ![c].ip = call[c].want.reqIP]
       ELSE Fail(c, "remote")
    /\ UNCHANGED <<rules, fw, allocated, svc, cache, needSync, faults, crashes, edits, drifts, drifted>>
    /\ UNCHANGED nodeVars

\* getLoadBalancerIP -> associatePublicIPAddress.
associatePublicIPAddress(c) ==
    /\ Ready(c, "ensure", "ip")
    /\ ~hasLoadBalancerIP(call[c].ip)
    /\ call[c].want.reqIP = NoIP
    /\ call' = [call EXCEPT ![c].ops = <<Op("associate", NoRule, NoFw, NoIP)>>]
    /\ UNCHANGED <<rules, fw, allocated, svc, cache, needSync, faults, crashes, edits, drifts, drifted>>
    /\ UNCHANGED nodeVars

\* One iteration of the port loop up to the rule: ProtocolFromServicePort,
\* checkLoadBalancerRule and the update, or the create and assignHostsToRule.
\* Ports are taken in the order of service.Spec.Ports, any order here.
EnsurePortRule(c) ==
    /\ Ready(c, "ensure", "ports")
    /\ call[c].cur = NoPort
    /\ \E p \in call[c].todo :
         LET d     == call[c].want
             proto == ProtocolFromServicePort(p, d.proxy)
             name  == RuleName(call[c].lb, p, d.proxy)
             old   == {r \in call[c].work : r.name = name}
             new   == [name |-> name, ip |-> call[c].ip, port |-> p.port,
                       nodePort |-> p.nodePort, proto |-> proto,
                       algo |-> Algorithm(d.affinity), hosts |-> call[c].hostIDs]
         IN IF proto = ProtoInvalid
            THEN Fail(c, "validation")
            ELSE \E r \in (IF old = {} THEN {NoRule} ELSE old) :
                   call' = [call EXCEPT ![c].cur = p, ![c].work = DeleteFromMap(@, name),
                                        ![c].ops = checkLoadBalancerRule(r, new, p)]
    /\ UNCHANGED <<rules, fw, allocated, svc, cache, needSync, faults, crashes, edits, drifts, drifted>>
    /\ UNCHANGED nodeVars

\* The rest of the iteration: GetNetworkByID, getLoadBalancerSourceRanges
\* and, when the network has a firewall, updateFirewallRule for the rule's
\* address (lbRule.Publicipid, which is lb.ipAddr on both paths).
EnsurePortFirewall(c) ==
    /\ Ready(c, "ensure", "ports")
    /\ call[c].cur # NoPort
    /\ LET p     == call[c].cur
            d     == call[c].want
            proto == ProtocolFromServicePort(p, d.proxy)
       IN IF ~SourceRangesValid(d)
          THEN Fail(c, "validation")
          ELSE \E o \in IF FirewallSupported
                         THEN updateFirewallRule(call[c].ip, proto, p.port,
                                                 CidrList(SourceRanges(d)))
                         ELSE {<<>>} :
                 call' = [call EXCEPT ![c].cur = NoPort, ![c].todo = @ \ {p},
                                      ![c].ops = o, ![c].lastErr = FALSE]
    /\ UNCHANGED <<rules, fw, allocated, svc, cache, needSync, faults, crashes, edits, drifts, drifted>>
    /\ UNCHANGED nodeVars

\* The cleanup loop over the rules left in lb.rules: deleteFirewallRule on
\* the rule's address and port, then deleteLoadBalancerRule.
EnsureCleanupRule(c) ==
    /\ Ready(c, "ensure", "ports")
    /\ call[c].cur = NoPort /\ call[c].todo = {}
    /\ \E r \in call[c].work :
       \E o \in deleteFirewallRule(r.ip, r.proto, r.port) :
         call' = [call EXCEPT ![c].work = @ \ {r}, ![c].lastErr = FALSE,
                              ![c].ops = o \o <<Op("deleteRule", r, NoFw, NoIP)>>]
    /\ UNCHANGED <<rules, fw, allocated, svc, cache, needSync, faults, crashes, edits, drifts, drifted>>
    /\ UNCHANGED nodeVars

\* The end of the body: the status is returned without error.
EnsureFinish(c) ==
    /\ Ready(c, "ensure", "ports")
    /\ call[c].cur = NoPort /\ call[c].todo = {} /\ call[c].work = {}
    /\ call' = [call EXCEPT ![c].phase = "exit"]
    /\ UNCHANGED <<rules, fw, allocated, svc, cache, needSync, faults, crashes, edits, drifts, drifted>>
    /\ UNCHANGED nodeVars

-----------------------------------------------------------------------------
(* Issuing the queued remote calls.  CloudStack applies a call atomically; *)
(* the rule a call names is identified by the fields it cannot change.     *)

Pending(c) == call[c].ops[1]
Issue(c, kind) == call[c].op # "idle" /\ call[c].ops # <<>> /\ call[c].ops[1].kind = kind
Done(c) == call' = [call EXCEPT ![c].ops = Tail(@), ![c].mutated = TRUE]
Same(r) == {x \in rules : RuleId(x) = RuleId(r)}

\* AssociateIpAddress: a free address of the pool, or an error when none is.
ExecAssociate(c) ==
    /\ Issue(c, "associate")
    /\ IF PoolIPs \subseteq allocated
       THEN Fail(c, "remote") /\ UNCHANGED allocated
       ELSE \E ip \in PoolIPs \ allocated :
              /\ allocated' = allocated \cup {ip}
              /\ call' = [call EXCEPT ![c].ops = Tail(@), ![c].mutated = TRUE, ![c].ip = ip,
                                      ![c].ipNew = (ip # call[c].want.reqIP)]
    /\ UNCHANGED <<rules, fw, svc, cache, needSync, faults, crashes, edits, drifts, drifted>>
    /\ UNCHANGED nodeVars

\* CreateLoadBalancerRule: refused when a rule already listens on the same
\* address, public port and IP protocol; created without hosts.
ExecCreateRule(c) ==
    /\ Issue(c, "createRule")
    /\ LET new == Pending(c).rule IN
       IF \E r \in rules : r.ip = new.ip /\ r.port = new.port
                          /\ IPProtocol(r.proto) = IPProtocol(new.proto)
       THEN Fail(c, "remote") /\ UNCHANGED rules
       ELSE rules' = rules \cup {[new EXCEPT !.hosts = {}]} /\ Done(c)
    /\ UNCHANGED <<fw, allocated, svc, cache, needSync, faults, crashes, edits, drifts, drifted>>
    /\ UNCHANGED nodeVars

\* AssignToLoadBalancerRule, UpdateLoadBalancerRule, DeleteLoadBalancerRule:
\* an error when the rule is gone.
ExecAssignHosts(c) ==
    /\ Issue(c, "assignHosts")
    /\ LET r == Pending(c).rule IN
       IF Same(r) = {} THEN Fail(c, "remote") /\ UNCHANGED rules
       ELSE rules' = (rules \ Same(r)) \cup {[x EXCEPT !.hosts = @ \cup r.hosts] : x \in Same(r)}
            /\ Done(c)
    /\ UNCHANGED <<fw, allocated, svc, cache, needSync, faults, crashes, edits, drifts, drifted>>
    /\ UNCHANGED nodeVars

\* RemoveFromLoadBalancerRule: the listed VMs leave the rule.
ExecRemoveHosts(c) ==
    /\ Issue(c, "removeHosts")
    /\ LET r == Pending(c).rule IN
       IF Same(r) = {} THEN Fail(c, "remote") /\ UNCHANGED rules
       ELSE rules' = (rules \ Same(r)) \cup {[x EXCEPT !.hosts = @ \ r.hosts] : x \in Same(r)}
            /\ Done(c)
    /\ UNCHANGED <<fw, allocated, svc, cache, needSync, faults, crashes, edits, drifts, drifted>>
    /\ UNCHANGED nodeVars

ExecUpdateRule(c) ==
    /\ Issue(c, "updateRule")
    /\ LET r == Pending(c).rule IN
       IF Same(r) = {} THEN Fail(c, "remote") /\ UNCHANGED rules
       ELSE rules' = (rules \ Same(r)) \cup
                     {[x EXCEPT !.algo = r.algo, !.proto = r.proto] : x \in Same(r)}
            /\ Done(c)
    /\ UNCHANGED <<fw, allocated, svc, cache, needSync, faults, crashes, edits, drifts, drifted>>
    /\ UNCHANGED nodeVars

ExecDeleteRule(c) ==
    /\ Issue(c, "deleteRule")
    /\ LET r == Pending(c).rule IN
       IF Same(r) = {} THEN Fail(c, "remote") /\ UNCHANGED rules
       ELSE rules' = rules \ Same(r) /\ Done(c)
    /\ UNCHANGED <<fw, allocated, svc, cache, needSync, faults, crashes, edits, drifts, drifted>>
    /\ UNCHANGED nodeVars

\* DeleteFirewallRule inside a loop: an error is remembered, not returned.
ExecDeleteFw(c) ==
    /\ Issue(c, "deleteFw")
    /\ IF Pending(c).fwe \in fw
       THEN fw' = fw \ {Pending(c).fwe}
            /\ call' = [call EXCEPT ![c].ops = Tail(@), ![c].mutated = TRUE, ![c].lastErr = FALSE]
       ELSE UNCHANGED fw /\ call' = [call EXCEPT ![c].ops = Tail(@), ![c].lastErr = TRUE]
    /\ UNCHANGED <<rules, allocated, svc, cache, needSync, faults, crashes, edits, drifts, drifted>>
    /\ UNCHANGED nodeVars

\* CreateFirewallRule: its error is returned at once; success overwrites err.
ExecCreateFw(c) ==
    /\ Issue(c, "createFw")
    /\ fw' = fw \cup {Pending(c).fwe}
    /\ call' = [call EXCEPT ![c].ops = Tail(@), ![c].mutated = TRUE, ![c].lastErr = FALSE]
    /\ UNCHANGED <<rules, allocated, svc, cache, needSync, faults, crashes, edits, drifts, drifted>>
    /\ UNCHANGED nodeVars

\* The return of updateFirewallRule / deleteFirewallRule: the last error.
ExecFwCheck(c) ==
    /\ Issue(c, "fwCheck")
    /\ IF call[c].lastErr THEN Fail(c, "remote")
       ELSE call' = [call EXCEPT ![c].ops = Tail(@)]
    /\ UNCHANGED <<rules, fw, allocated, svc, cache, needSync, faults, crashes, edits, drifts, drifted>>
    /\ UNCHANGED nodeVars

\* DisassociateIpAddress: CloudStack removes the rules on the address with
\* it.  A failed release in the compensating defer is only logged.
ExecRelease(c) ==
    /\ Issue(c, "release") \/ Issue(c, "releaseLogged")
    /\ LET ip == Pending(c).ip IN
       IF ip \in allocated
       THEN /\ allocated' = allocated \ {ip}
            /\ rules' = {r \in rules : r.ip # ip}
            /\ fw' = {e \in fw : e.ip # ip}
            /\ Done(c)
       ELSE /\ UNCHANGED <<allocated, rules, fw>>
            /\ IF Pending(c).kind = "release" THEN Fail(c, "remote")
               ELSE call' = [call EXCEPT ![c].ops = Tail(@)]
    /\ UNCHANGED <<svc, cache, needSync, faults, crashes, edits, drifts, drifted>>
    /\ UNCHANGED nodeVars

\* A remote mutation fails: returned at once, except where the code logs it.
FailOp(c) ==
    /\ faults < MaxFaults
    /\ call[c].op # "idle" /\ call[c].ops # <<>>
    /\ Pending(c).kind # "fwCheck"
    /\ faults' = faults + 1
    /\ CASE Pending(c).kind = "deleteFw" ->
               call' = [call EXCEPT ![c].ops = Tail(@), ![c].lastErr = TRUE]
          [] Pending(c).kind = "releaseLogged" ->
               call' = [call EXCEPT ![c].ops = Tail(@)]
          [] OTHER -> Fail(c, "remote")
    /\ UNCHANGED <<rules, fw, allocated, svc, cache, needSync, crashes, edits, drifts, drifted>>
    /\ UNCHANGED nodeVars

\* A list call a decision depends on fails (ListLoadBalancerRules,
\* ListPublicIpAddresses, GetNetworkByID, ListFirewallRules,
\* ListLoadBalancerRuleInstances): the error is
\* returned before anything further is changed.
ReadFails(c) ==
    /\ faults < MaxFaults
    /\ call[c].ops = <<>>
    /\ \/ call[c].op = "ensure" /\ call[c].phase = "ip"
       \/ call[c].op = "ensure" /\ call[c].phase = "ports"
          /\ (call[c].cur # NoPort \/ call[c].work # {})
       \/ call[c].op = "delete" /\ call[c].phase = "locate"
       \/ call[c].op = "delete" /\ call[c].phase = "rules" /\ call[c].work # {}
       \/ call[c].op = "update" /\ call[c].phase = "rules" /\ call[c].work # {}
    /\ faults' = faults + 1
    /\ Fail(c, "remote")
    /\ UNCHANGED <<rules, fw, allocated, svc, cache, needSync, crashes, edits, drifts, drifted>>
    /\ UNCHANGED nodeVars

-----------------------------------------------------------------------------
(* Leaving EnsureLoadBalancer: the deferred functions run in reverse order *)
(* of registration, the IP release before servicePatcher.Patch.            *)

\* The deferred release of an address associated by this call, on error.
EnsureCompensate(c) ==
    /\ Ready(c, "ensure", "exit")
    /\ call[c].err # "none" /\ call[c].ipNew
    /\ call' = [call EXCEPT ![c].ipNew = FALSE,
                            ![c].ops = <<Op("releaseLogged", NoRule, NoFw, call[c].ip)>>]
    /\ UNCHANGED <<rules, fw, allocated, svc, cache, needSync, faults, crashes, edits, drifts, drifted>>
    /\ UNCHANGED nodeVars

\* A change of the stored Service reaches every informer: the cached
\* object is replaced, and calls holding the old one no longer share it.
Refresh(s, anno) ==
    cache' = [c \in Controllers |-> [cache[c] EXCEPT ![s] = anno]]
Unaliased(s) ==
    [c \in Controllers |-> IF call[c].svc = s THEN [call[c] EXCEPT !.aliased = FALSE]
                                              ELSE call[c]]

\* servicePatcher.Patch: no request when the annotations equal the copy
\* taken at the start; otherwise patchService, whose error is aggregated.
\* The service controller requeues the Service on any error.
EnsureReturn(c) ==
    /\ Ready(c, "ensure", "exit")
    /\ ~(call[c].err # "none" /\ call[c].ipNew)
    /\ LET s == call[c].svc
            failed == call[c].err # "none"
       IN \/ /\ call[c].base = call[c].anno
             /\ needSync' = [needSync EXCEPT ![c][s] = @ \/ failed]
             /\ call' = [call EXCEPT ![c] = IdleCall]
             /\ UNCHANGED <<svc, cache, faults>>
          \/ /\ call[c].base # call[c].anno
             /\ svc' = [svc EXCEPT ![s].anno = call[c].anno]
             /\ Refresh(s, call[c].anno)
             /\ needSync' = [needSync EXCEPT ![c][s] = @ \/ failed]
             /\ call' = [Unaliased(s) EXCEPT ![c] = IdleCall]
             /\ UNCHANGED faults
          \/ /\ call[c].base # call[c].anno
             /\ faults < MaxFaults
             /\ faults' = faults + 1
             /\ needSync' = [needSync EXCEPT ![c][s] = TRUE]
             /\ call' = [call EXCEPT ![c] = IdleCall]
             /\ UNCHANGED <<svc, cache>>
    /\ UNCHANGED <<rules, fw, allocated, crashes, edits, drifts, drifted>>
    /\ UNCHANGED nodeVars

-----------------------------------------------------------------------------
(* EnsureLoadBalancerDeleted.                                              *)

\* The service controller asks GetLoadBalancer first, on the same worker,
\* and calls EnsureLoadBalancerDeleted only if it reports the load balancer
\* exists; otherwise it drops the finalizer at once. GetLoadBalancer lists
\* the rules and reports no load balancer when lb.rules is empty, whatever
\* address or firewall rules remain; a list error requeues the Service.
GetLoadBalancer(c, s) ==
    /\ Idle(c)
    /\ needSync[c][s]
    /\ ~svc[s].exists /\ ~svc[s].finalized
    /\ \/ /\ faults < MaxFaults
          /\ faults' = faults + 1
          /\ UNCHANGED <<svc, call, needSync>>
       \/ /\ getLoadBalancerByName(s).found = {}
          /\ svc' = [svc EXCEPT ![s].finalized = TRUE]
          /\ needSync' = [needSync EXCEPT ![c][s] = FALSE]
          /\ UNCHANGED <<call, faults>>
       \/ /\ getLoadBalancerByName(s).found # {}
          /\ call' = [call EXCEPT ![c] =
                        [IdleCall EXCEPT !.op = "delete", !.svc = s, !.phase = "locate"]]
          /\ needSync' = [needSync EXCEPT ![c][s] = FALSE]
          /\ UNCHANGED <<svc, faults>>
    /\ UNCHANGED <<rules, fw, allocated, cache, crashes, edits, drifts, drifted>>
    /\ UNCHANGED nodeVars

\* EnsureLoadBalancerDeleted locates the rules again, as EnsureLoadBalancer
\* does; they may have changed since GetLoadBalancer listed them.
EnsureLoadBalancerDeleted(c) ==
    /\ Ready(c, "delete", "locate")
    /\ LET L == getLoadBalancerByName(call[c].svc) IN
       \E W \in RuleMaps(L.found) : \E ip \in LastIPs(W) :
         call' = [call EXCEPT ![c].phase = "rules", ![c].lb = L.lb,
                              ![c].ip = ip, ![c].work = W]
    /\ UNCHANGED <<rules, fw, allocated, svc, cache, needSync, faults, crashes, edits, drifts, drifted>>
    /\ UNCHANGED nodeVars

\* One rule of lb.rules: deleteFirewallRule, then deleteLoadBalancerRule.
DeleteRule(c) ==
    /\ Ready(c, "delete", "rules")
    /\ \E r \in call[c].work :
       \E o \in deleteFirewallRule(r.ip, r.proto, r.port) :
         call' = [call EXCEPT ![c].work = @ \ {r}, ![c].lastErr = FALSE,
                              ![c].ops = o \o <<Op("deleteRule", r, NoFw, NoIP)>>]
    /\ UNCHANGED <<rules, fw, allocated, svc, cache, needSync, faults, crashes, edits, drifts, drifted>>
    /\ UNCHANGED nodeVars

\* releaseLoadBalancerIP when rules gave an address; its error is returned.
DeleteReleaseIP(c) ==
    /\ Ready(c, "delete", "rules")
    /\ call[c].work = {}
    /\ call' = [call EXCEPT ![c].phase = "exit",
                   ![c].ops = IF call[c].ip # NoIP
                              THEN <<Op("release", NoRule, NoFw, call[c].ip)>>
                              ELSE <<>>]
    /\ UNCHANGED <<rules, fw, allocated, svc, cache, needSync, faults, crashes, edits, drifts, drifted>>
    /\ UNCHANGED nodeVars

DeleteReturnIgnoringError(c) ==
    /\ Ready(c, "delete", "exit")
    /\ svc' = [svc EXCEPT ![call[c].svc].finalized = TRUE]
    /\ call' = [call EXCEPT ![c] = IdleCall]
    /\ UNCHANGED <<rules, fw, allocated, cache, needSync, faults, crashes, edits, drifts, drifted>>
    /\ UNCHANGED nodeVars

\* Success lets the service controller drop the finalizer; an error requeues.
DeleteReturn(c) ==
    /\ Ready(c, "delete", "exit")
    /\ LET s == call[c].svc IN
       IF call[c].err = "none"
       THEN svc' = [svc EXCEPT ![s].finalized = TRUE] /\ UNCHANGED needSync
       ELSE needSync' = [needSync EXCEPT ![c][s] = TRUE] /\ UNCHANGED svc
    /\ call' = [call EXCEPT ![c] = IdleCall]
    /\ UNCHANGED <<rules, fw, allocated, cache, faults, crashes, edits, drifts, drifted>>
    /\ UNCHANGED nodeVars

-----------------------------------------------------------------------------
(* UpdateLoadBalancer, which the service controller's node sync calls for  *)
(* every load-balancer Service when the node list changes, and again after *)
(* an error.                                                               *)

\* Locate the rules, then verifyHosts; its error ends the call.
UpdateLoadBalancer(c, s) ==
    /\ Idle(c)
    /\ needHosts[c][s]
    /\ LET L == getLoadBalancerByName(s)
           V == verifyHosts(nodes, VMs) IN
       \E W \in RuleMaps(L.found) :
         call' = [call EXCEPT ![c] =
                   [IdleCall EXCEPT !.op = "update", !.svc = s, !.lb = L.lb,
                      !.phase = IF V.err THEN "exit" ELSE "rules",
                      !.err = IF V.err THEN "remote" ELSE "none",
                      !.work = W, !.matched = {RuleId(r) : r \in W},
                      !.hostIDs = ToSet(V.hostIDs)]]
    /\ needHosts' = [needHosts EXCEPT ![c][s] = FALSE]
    /\ UNCHANGED <<rules, fw, allocated, svc, cache, needSync, faults, crashes, edits,
                   drifts, drifted, nodes, nodeChanges>>

\* The calls for one rule: assignHostsToRule when assign is not empty, then
\* removeHostsFromRule when remove is not empty.
UpdateHostOpsAssignOnly(r, diff) ==
    IF diff.assign = {} THEN <<>>
    ELSE <<Op("assignHosts", [r EXCEPT !.hosts = diff.assign], NoFw, NoIP)>>
UpdateHostOps(r, diff) ==
    (IF diff.assign = {} THEN <<>>
     ELSE <<Op("assignHosts", [r EXCEPT !.hosts = diff.assign], NoFw, NoIP)>>)
    \o (IF diff.remove = <<>> THEN <<>>
        ELSE <<Op("removeHosts", [r EXCEPT !.hosts = ToSet(diff.remove)], NoFw, NoIP)>>)

\* One rule of lb.rules: ListLoadBalancerRuleInstances (an error when the
\* rule is gone), symmetricDifference with lb.hostIDs, and its calls.
UpdateRule(c) ==
    /\ Ready(c, "update", "rules")
    /\ \E r \in call[c].work :
         IF Same(r) = {}
         THEN Fail(c, "remote")
         ELSE LET instances == SetToSeq(UNION {x.hosts : x \in Same(r)})
                  diff == symmetricDifference(SetToSeq(call[c].hostIDs), instances)
              IN call' = [call EXCEPT ![c].work = @ \ {r}, ![c].ops = UpdateHostOps(r, diff)]
    /\ UNCHANGED <<rules, fw, allocated, svc, cache, needSync, faults, crashes, edits, drifts, drifted>>
    /\ UNCHANGED nodeVars

UpdateFinish(c) ==
    /\ Ready(c, "update", "rules")
    /\ call[c].work = {}
    /\ call' = [call EXCEPT ![c].phase = "exit"]
    /\ UNCHANGED <<rules, fw, allocated, svc, cache, needSync, faults, crashes, edits, drifts, drifted>>
    /\ UNCHANGED nodeVars

\* The same return without the retry of a failed update.
UpdateReturnNoRetry(c) ==
    /\ Ready(c, "update", "exit")
    /\ call' = [call EXCEPT ![c] = IdleCall]
    /\ UNCHANGED <<rules, fw, allocated, svc, cache, needSync, needHosts, faults, crashes,
                   edits, drifts, drifted, nodes, nodeChanges>>

\* UpdateLoadBalancer returns the error of the step that failed (the list,
\* an assign or a remove, each ending the rule loop), else nil; the service
\* controller's node sync keeps a Service whose update failed for its next
\* round.
UpdateReturn(c) ==
    /\ Ready(c, "update", "exit")
    /\ needHosts' = [needHosts EXCEPT ![c][call[c].svc] = @ \/ call[c].err # "none"]
    /\ call' = [call EXCEPT ![c] = IdleCall]
    /\ UNCHANGED <<rules, fw, allocated, svc, cache, needSync, faults, crashes, edits,
                   drifts, drifted, nodes, nodeChanges>>

-----------------------------------------------------------------------------
(* The environment: users, restarts of the controller manager, and changes *)
(* made to CloudStack by hand.                                             *)

\* A user changes the Service spec; the update event queues it everywhere.
EditService(s) ==
    /\ svc[s].exists
    /\ edits < MaxEdits
    /\ \E ports \in PortSets, cidrs \in CidrChoices, aff \in AffinityChoices,
          proxy \in ProxyChoices, req \in RequestChoices :
         LET d == [svc[s] EXCEPT !.ports = ports, !.cidrs = cidrs, !.affinity = aff,
                                 !.proxy = proxy, !.reqIP = req]
         IN /\ d # svc[s]
            /\ svc' = [svc EXCEPT ![s] = d]
    /\ edits' = edits + 1
    /\ needSync' = [c \in Controllers |-> [needSync[c] EXCEPT ![s] = TRUE]]
    /\ Refresh(s, svc[s].anno)
    /\ call' = Unaliased(s)
    /\ UNCHANGED <<rules, fw, allocated, faults, crashes, drifts, drifted>>
    /\ UNCHANGED nodeVars

\* A user deletes the Service; the finalizer keeps it until the load
\* balancer is deleted.
DeleteService(s) ==
    /\ svc[s].exists
    /\ svc' = [svc EXCEPT ![s].exists = FALSE]
    /\ needSync' = [c \in Controllers |-> [needSync[c] EXCEPT ![s] = TRUE]]
    /\ Refresh(s, svc[s].anno)
    /\ call' = Unaliased(s)
    /\ UNCHANGED <<rules, fw, allocated, faults, crashes, edits, drifts, drifted>>
    /\ UNCHANGED nodeVars

\* The process restarts: the call in flight is lost, the informer relists
\* and every Service still present is synced again; the first round of the
\* node sync, which knows no hosts yet, updates every Service.
Restart(c) ==
    /\ crashes < MaxCrashes
    /\ crashes' = crashes + 1
    /\ call' = [call EXCEPT ![c] = IdleCall]
    /\ needSync' = [needSync EXCEPT ![c] = [s \in Services |-> ~svc[s].finalized]]
    /\ cache' = [cache EXCEPT ![c] = [s \in Services |-> svc[s].anno]]
    /\ needHosts' = [needHosts EXCEPT ![c] = [s \in Services |-> svc[s].exists]]
    /\ UNCHANGED <<rules, fw, allocated, svc, faults, edits, drifts, drifted, nodes, nodeChanges>>

\* A node joins or leaves the cluster: the node sync queues every Service
\* that still exists for UpdateLoadBalancer, in every process.
NodeChange ==
    /\ nodeChanges < MaxNodeChanges
    /\ \E n \in NodeChoices \ {nodes} : nodes' = n
    /\ nodeChanges' = nodeChanges + 1
    /\ needHosts' = [c \in Controllers |-> [s \in Services |-> needHosts[c][s] \/ svc[s].exists]]
    /\ UNCHANGED <<rules, fw, allocated, svc, cache, needSync, call, faults, crashes,
                   edits, drifts, drifted>>

\* An operator deletes a load-balancer rule or a firewall rule by hand.
\* Nothing queues the Service: the controller does not watch CloudStack.
DriftDeleteRule ==
    /\ drifts < MaxDrift
    /\ \E r \in rules :
         /\ rules' = rules \ {r}
         /\ drifted' = [s \in Services |-> drifted[s] \/ r \in RulesOf(s)]
    /\ drifts' = drifts + 1
    /\ UNCHANGED <<fw, allocated, svc, cache, needSync, call, faults, crashes, edits>>
    /\ UNCHANGED nodeVars

DriftDeleteFw ==
    /\ drifts < MaxDrift
    /\ \E e \in fw :
         /\ fw' = fw \ {e}
         /\ drifted' = [s \in Services |-> drifted[s] \/ \E r \in RulesOf(s) : r.ip = e.ip]
    /\ drifts' = drifts + 1
    /\ UNCHANGED <<rules, allocated, svc, cache, needSync, call, faults, crashes, edits>>
    /\ UNCHANGED nodeVars

-----------------------------------------------------------------------------
\* The steps of process c once a call is under way.
Step(c) ==
    \/ EnsureRecordIP(c) \/ getPublicIPAddress(c) \/ associatePublicIPAddress(c)
    \/ EnsurePortRule(c) \/ EnsurePortFirewall(c) \/ EnsureCleanupRule(c)
    \/ EnsureFinish(c) \/ EnsureCompensate(c) \/ EnsureReturn(c)
    \/ EnsureLoadBalancerDeleted(c) \/ DeleteRule(c) \/ DeleteReleaseIP(c)
    \/ DeleteReturn(c)
    \/ ExecAssociate(c) \/ ExecCreateRule(c) \/ ExecAssignHosts(c)
    \/ ExecUpdateRule(c) \/ ExecDeleteRule(c) \/ ExecDeleteFw(c)
    \/ ExecCreateFw(c) \/ ExecFwCheck(c) \/ ExecRelease(c) \/ ExecRemoveHosts(c)
    \/ UpdateRule(c) \/ UpdateFinish(c) \/ UpdateReturn(c)

\* The service controller's worker picks a queued Service.
Sync(c) ==
    \E s \in Services : \/ EnsureLoadBalancer(c, s) \/ GetLoadBalancer(c, s)
                       \/ UpdateLoadBalancer(c, s)

Next ==
    \/ \E c \in Controllers : Sync(c) \/ Step(c) \/ FailOp(c) \/ ReadFails(c) \/ Restart(c)
    \/ \E s \in Services : EditService(s) \/ DeleteService(s)
    \/ DriftDeleteRule \/ DriftDeleteFw \/ NodeChange

\* The worker and the node sync keep taking queued Services and each call
\* runs to its end: weak fairness on each process's own steps.  The model
\* runs the node sync in the worker's turns (Idle), so a worker that
\* retries a failing Ensure forever can starve it here, which the real
\* goroutine is not.  In the liveness runs an Ensure fails forever only
\* where the property excuses it (verifyHosts failing) or where that
\* failure is the finding (proxy).
\* Failures, restarts, user actions and drift need no fairness.
Spec == Init /\ [][Next]_vars /\ \A c \in Controllers : WF_vars(Sync(c) \/ Step(c))


-----------------------------------------------------------------------------
(* Properties.                                                             *)

Phases == {"none", "ip", "ports", "locate", "rules", "exit"}
OpKinds == {"associate", "createRule", "assignHosts", "updateRule", "deleteRule",
            "deleteFw", "createFw", "fwCheck", "release", "releaseLogged", "removeHosts"}

TypeOK ==
    /\ \A r \in rules : r.ip \in allocated \cup PoolIPs \cup {PinnedIP}
                      /\ r.hosts \subseteq {VMs[i].id : i \in DOMAIN VMs}
    /\ allocated \subseteq PoolIPs \cup {PinnedIP} \cup {r.ip : r \in InitRules}
    /\ \A c \in Controllers :
         /\ call[c].op \in {"idle", "ensure", "delete", "update"}
         /\ call[c].phase \in Phases
         /\ call[c].err \in {"none", "remote", "validation"}
         /\ \A i \in DOMAIN call[c].ops : call[c].ops[i].kind \in OpKinds
         /\ needSync[c] \in [Services -> BOOLEAN]
    /\ faults \in 0..MaxFaults /\ crashes \in 0..MaxCrashes
    /\ edits \in 0..MaxEdits /\ drifts \in 0..MaxDrift
    /\ nodes \in NodeChoices /\ nodeChanges \in 0..MaxNodeChanges

\* Nothing of the Service's is in flight or queued in any process, and no
\* one has touched its rules by hand since the last call began.
Synced(s) ==
    /\ svc[s].exists
    /\ \A c \in Controllers : ~needSync[c][s] /\ ~needHosts[c][s] /\ call[c].svc # s
    /\ ~drifted[s]

\* Once EnsureLoadBalancer has returned without error for the latest spec
\* (the service controller does not requeue it), CloudStack holds exactly
\* one rule per port with the requested fields on one associated address.
ConvergedWhenSynced ==
    \A s \in Services : Synced(s) => \E ip \in allocated : RulesConverged(s, svc[s], ip)

\* ... and the address of those rules admits exactly the requested source
\* ranges: updateFirewallRule returned no error only if the old firewall
\* rules of the port are gone.
SourceRangesEnforced ==
    \A s \in Services :
        Synced(s) => \E ip \in allocated : RulesConverged(s, svc[s], ip)
                                        /\ FirewallConverged(svc[s], ip)

\* A Service that EnsureLoadBalancer left in sync has its address in the
\* annotation the controller writes back through the servicePatcher.
AnnotationPersisted ==
    \A s \in Services : Synced(s) => \E r \in RulesOf(s) : svc[s].anno = r.ip

\* The VMs of the current nodes, as verifyHosts finds them.
CurrentHosts == ToSet(verifyHosts(nodes, VMs).hostIDs)

\* A Service left in sync has the VMs of the current nodes assigned to every
\* one of its rules (createLoadBalancerRule then assignHostsToRule, and
\* UpdateLoadBalancer after a node change).
BackendsAssigned ==
    \A s \in Services : Synced(s) => \A r \in RulesOf(s) : r.hosts = CurrentHosts

\* An UpdateLoadBalancer that returns without error has left every rule it
\* listed with exactly the VMs verifyHosts gave it: symmetricDifference's
\* assign and remove, applied rule by rule, reach the wanted set.
UpdateAppliesHosts ==
    \A c \in Controllers :
        (call[c].op = "update" /\ call[c].phase = "exit" /\ call[c].err = "none")
            => \A r \in rules : RuleId(r) \in call[c].matched => r.hosts = call[c].hostIDs

\* A Service queued in the node sync eventually has the VMs of the current
\* nodes on every one of its rules, unless the nodes have no usable VM
\* (verifyHosts fails) or the Service is gone: an update that failed part-way
\* through its rule loop is retried until it completes.
HostsEventuallyCurrent ==
    \A c \in Controllers, s \in Services :
        needHosts[c][s] ~> \/ \A r \in RulesOf(s) : r.hosts = CurrentHosts
                          \/ verifyHosts(nodes, VMs).err
                          \/ ~svc[s].exists

\* EnsureLoadBalancer run over rules that already match the Service changes
\* nothing in CloudStack: the rule and firewall reconcilers are idempotent.
IdempotentEnsure ==
    \A c \in Controllers :
        (call[c].op = "ensure" /\ call[c].startConverged /\ ~drifted[call[c].svc])
            => ~call[c].mutated

\* A rule that already serves a port as requested is never taken down by
\* the EnsureLoadBalancer call that found it (no delete-and-recreate of a
\* live listener), unless someone deletes it by hand.
ServingRulesStable ==
    [][\A c \in Controllers :
         call[c].op = "ensure" /\ drifts' = drifts =>
           \A r \in rules : RuleId(r) \in call[c].matched => RuleId(r) \in {RuleId(x) : x \in rules'}
      ]_vars

\* When EnsureLoadBalancerDeleted has succeeded and the finalizer is gone,
\* no rule of the Service remains.
DeletedLeavesNoRules ==
    \A s \in Services : svc[s].finalized => RulesOf(s) = {}

\* Every address the controller associated is either behind a rule or held
\* by a call in flight: none is leaked.
NoLeakedIP ==
    \A ip \in allocated \ {PinnedIP} :
        \/ \E r \in rules : r.ip = ip
        \/ \E c \in Controllers : call[c].op # "idle" /\ call[c].ip = ip

\* An address reserved outside the controller and named in
\* spec.loadBalancerIP stays associated with the account.
PinnedIPKept == PinnedIP \in allocated

\* A firewall rule the controller does not manage (an ICMP rule an operator
\* added to the address) is never deleted by updateFirewallRule or
\* deleteFirewallRule: it goes only with its address, when
\* DisassociateIpAddress removes all rules on it, or by hand.
ForeignFirewallKept ==
    [][drifts' = drifts =>
         \A e \in fw : e.proto = ProtoICMP /\ e.ip \in allocated' => e \in fw']_vars

\* The address a Service's rules stand on: NoIP without rules, a value no
\* address equals when they stand on several.
Several == "several addresses"
AddressOf(s) ==
    LET ips == {r.ip : r \in RulesOf(s)}
    IN IF ips = {} THEN NoIP
       ELSE IF Cardinality(ips) = 1 THEN CHOOSE ip \in ips : TRUE ELSE Several

Address == INSTANCE LBAddress WITH
    Addresses <- PoolIPs \cup {PinnedIP} \cup {r.ip : r \in InitRules},
    bound <- [s \in Services |-> AddressOf(s)]

\* The controller implements LBAddress: EnsureLoadBalancer creates rules
\* only on the address the locator found on existing rules (lb.ipAddr),
\* or on a new one when it found none, so a Service never stands on two
\* addresses nor moves from one to another while it has rules.
AddressRefinement == Address!Spec

\* Every Service queued in a process is eventually handled successfully:
\* the service controller's retries of EnsureLoadBalancer and
\* EnsureLoadBalancerDeleted stop, with nothing left queued or in flight.
SyncCompletes ==
    \A c \in Controllers, s \in Services :
        needSync[c][s] ~> (~needSync[c][s] /\ call[c].svc # s)
=============================================================================
