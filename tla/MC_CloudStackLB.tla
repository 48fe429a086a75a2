--------------------------- MODULE MC_CloudStackLB ---------------------------
(* Instances of CloudStackLB for TLC: a load-balancer Service whose ports,  *)
(* source ranges, affinity, proxy flag and requested address a user may    *)
(* change, with names and addresses as strings.                            *)
EXTENDS CloudStackLB

MCNoIP == "none"

\* Service ports: [protocol, port, nodePort].
P80   == [protocol |-> "TCP",  port |-> 80,  nodePort |-> 30080]
P80b  == [protocol |-> "TCP",  port |-> 80,  nodePort |-> 30081]
P53   == [protocol |-> "UDP",  port |-> 53,  nodePort |-> 30053]
PSctp == [protocol |-> "SCTP", port |-> 99,  nodePort |-> 30099]

\* A Service as the API server stores it.
Svc(ports) == [exists |-> TRUE, finalized |-> FALSE, ports |-> ports,
               cidrs |-> <<>>, affinity |-> "None", proxy |-> FALSE,
               reqIP |-> MCNoIP, anno |-> MCNoIP]

\* One Service, names that only hit themselves.
OneService == {"s1"}
OneCanonical == [s \in OneService |-> "a1"]
OneLegacy == [s \in OneService |-> "L1"]
SelfHits == {<<n, n>> : n \in {"a1", "L1", "a2", "L2"}}
OneInitSvc == [s \in OneService |-> Svc({P80, P53})]

\* The main run: port sets that change the node port, add a port, or add a
\* port of a protocol the controller rejects.
MainPortSets == {{P80}, {P80b, P53}, {P80, PSctp}}
MainCidrs == {<<>>, <<"10.0.0.0/8">>, <<"10.0.0.0/8", "bad">>}

\* Port sets and source ranges the controller accepts.
ValidPortSets == {{P80}, {P80b, P53}}
ValidCidrs == {<<>>, <<"10.0.0.0/8">>}

\* Two Services; the name of the first is a prefix of the second's, so a
\* keyword search for the first also lists the second's rules.
TwoServices == {"s1", "s2"}
TwoCanonical == [s \in TwoServices |-> IF s = "s1" THEN "a1" ELSE "a12"]
TwoLegacy == [s \in TwoServices |-> IF s = "s1" THEN "L1" ELSE "L2"]
PrefixHits == SelfHits \cup {<<"a1", "a12">>}
TwoInitSvc == [s \in TwoServices |-> Svc({P80})]

\* A Service created by an older controller: its rule carries the legacy
\* name, on an address associated back then.
LegacyRules == {[name |-> <<"L1", "tcp", 80>>, ip |-> "ip0", port |-> 80,
                 nodePort |-> 30080, proto |-> "tcp", algo |-> "roundrobin",
                 hosts |-> {"vm1"}]}
\* Its firewall rule; with an ICMP rule an operator added to the address.
LegacyFw == {[ip |-> "ip0", proto |-> "tcp", port |-> 80, cidrs |-> <<"0.0.0.0/0">>]}
LegacyFwIcmp == LegacyFw \cup
                {[ip |-> "ip0", proto |-> "icmp", port |-> 0, cidrs |-> <<"0.0.0.0/0">>]}
\* Nodes [base, upper, domain] and the project's VMs [id, name, nic]: node
\* "w1" runs on VM vm1; node "W2.example.com" on VM vm2, named "w2"; node
\* "w3" on VM vm3, which has no NIC yet.
N1 == [base |-> "w1", upper |-> FALSE, domain |-> ""]
N2 == [base |-> "w2", upper |-> TRUE, domain |-> "example.com"]
N3 == [base |-> "w3", upper |-> FALSE, domain |-> ""]
MCVMs == <<[id |-> "vm1", name |-> [base |-> "w1", upper |-> FALSE], nic |-> "net1"],
           [id |-> "vm2", name |-> [base |-> "w2", upper |-> FALSE], nic |-> "net1"],
           [id |-> "vm3", name |-> [base |-> "w3", upper |-> FALSE], nic |-> NoNic]>>
MCInitNodes == {N1}
\* A node joins, the only node is replaced, or replaced by one whose VM
\* has no NIC (verifyHosts then fails).
MCNodeChoices == {{N1}, {N1, N2}, {N2}, {N3}}

LegacyInitSvc == [s \in OneService |-> [Svc({P80}) EXCEPT !.anno = "ip0"]]

\* A legacy Service with two ports, one rule each, both on ip0.
LegacyRules2 == LegacyRules \cup
                {[name |-> <<"L1", "udp", 53>>, ip |-> "ip0", port |-> 53,
                  nodePort |-> 30053, proto |-> "udp", algo |-> "roundrobin",
                  hosts |-> {"vm1"}]}
LegacyFw2 == LegacyFwIcmp \cup
             {[ip |-> "ip0", proto |-> "udp", port |-> 53, cidrs |-> <<"0.0.0.0/0">>]}
LegacyInitSvc2 == [s \in OneService |-> [Svc({P80, P53}) EXCEPT !.anno = "ip0"]]
=============================================================================
