# TLA+ models of the CloudStack load-balancer controller

This directory models the load-balancer part of the CloudStack
cloud-controller-manager. Its code is the `loadbalancer.go` that makes up lines
130-1119 of `src/charts/cloud-controller-manager/templates/deploy.yaml` (line
numbers below refer to that file unless another file is named). The service
patcher comes from `src/unnamed/part_002` and the protocol names from
`src/cloudstack/constants.go`.

## 1. The system

The Kubernetes service controller calls three entry points for every Service
of type LoadBalancer: `EnsureLoadBalancer` (228-392), `UpdateLoadBalancer`
(395-439) and `EnsureLoadBalancerDeleted` (454-495), the last only after
`GetLoadBalancer` (202-225) reports that the load balancer exists. It passes the
informer-cached Service object. On an error it requeues the Service with
backoff. Each entry point is a sequence of CloudStack API calls. Nothing is
persisted by the controller itself: all state lives in CloudStack (rules,
firewall rules, associated addresses) and in the Service object.

| Part | Code | State it touches | Operations |
|---|---|---|---|
| Orchestrator | `EnsureLoadBalancer` 228-392 | everything below | locate, choose algorithm, verify hosts, get the IP, loop over ports, clean up stale rules, status |
| Locator | `getLoadBalancerByName` 508-559 | reads rules | keyword list under the canonical name, then under the legacy name; `lb.rules` keyed by name; `lb.ipAddr` from the last rule |
| IP lifecycle | 610-697 | associated addresses | look up a requested address, associate a new one, release; a deferred compensating release (274-282) |
| Rule reconciler | 701-811 | LB rules | `checkLoadBalancerRule` (update in place, or delete and recreate), create, assign hosts, delete |
| Firewall synchroniser | 929-1040 | firewall rules | keep a rule whose CIDRs match as a multiset, delete the others (errors logged, the last one returned), create when none matched |
| Existence check | `GetLoadBalancer` 202-225 | reads rules | no load balancer when `lb.rules` is empty; the finalizer is then dropped without a delete |
| Deleter | `EnsureLoadBalancerDeleted` 454-495 | rules, firewall, addresses | delete firewall and rule per rule, release the address |
| Host sync | `UpdateLoadBalancer` 395-439, `verifyHosts` 562-607 | rule membership | assign and remove VMs by symmetric difference |
| Service patcher | part_002 36-87 | Service annotations | deep copy as base, the caller's object as updated, patch only if the annotations differ |
| Pure helpers | 814-866, 1045-1119 | none | `symmetricDifference`, `compareStringSlice`, source ranges, annotation getters and setter |

How the parts interact:
- The orchestrator and the deleter both start with the locator. Everything
  they later delete or keep is decided from that one listing.
- A CloudStack call can fail at any point. A controller process can restart
  between any two calls.
- A user can edit or delete the Service while a call runs.
- An operator can change CloudStack by hand. The controller never notices,
  because it does not watch CloudStack.
- The Helm chart (deploy.yaml 13-20, 71-73) disables leader election when
  `replicaCount` is 1. A `RollingUpdate` strategy then surges a second pod,
  so during a rollout two processes can reconcile the same Service.
- The service controller's node sync calls `UpdateLoadBalancer` for every
  Service when the node list changes, at its first round after a start, and
  again for a Service whose update failed.

Assumed CloudStack semantics:
- The keyword filter of `listLoadBalancerRules` matches substrings.
- Creating an LB rule whose address, public port and IP protocol equal those
  of an existing rule is refused. `tcp-proxy` counts as TCP.
- `disassociateIpAddress` removes the rules on the address.
- Each call is atomic.

## 2. The modules

- `LBHelpers.tla`: the pure helpers as the loops the code runs
  (`FoldLeft` for a `for` loop, `RECURSIVE` where the loop returns early):
  `compareStringSlice` (844-866, counting map with `delete` at zero),
  `symmetricDifference` (814-837) and `verifyHosts` (562-607, lower-cased and
  domain-stripped node names, NIC-less VMs skipped, a second network an
  error). Host names are records `[base, upper]`, so that `ToLower` and the
  domain split do what they do to the string without spelling it out.
  The module also has `getLoadBalancerSourceRanges` (1045-1069). The string
  and bool annotation getters and the status that ends Ensure (380-391) are
  left out: no property depends on them.
  - A string there is a sequence of tokens: a space, a comma, or a whole
    word such as one CIDR text.
  - `TrimSpace`, `Split` and `ParseIPNets` do to the tokens what they do to
    the characters.
  - `ParseIPNets` trims each part, and it keys the set by the network's
    canonical text, so `10.0.0.1/8` becomes `10.0.0.0/8`.
- `CloudStackLB.tla` (extends `LBHelpers`): the Ensure, Update, Delete and
  patch paths.
- `LBAddress.tla`: the abstract specification of a Service's address.
  `bound[s]` is the address s's rules stand on. `Bind` gives a Service
  without rules an address, and `Unbind` takes its last rule away. There is
  no step from one address straight to another. `CloudStackLB` instantiates
  it with the refinement mapping `bound <- [s |-> AddressOf(s)]`, where
  `AddressOf` maps rules on several addresses to a value that is not an
  address, and checks `Address!Spec` as the property `AddressRefinement`.
- `MC_LBHelpers.tla`: the helpers against their contracts.
- `MC_CloudStackLB.tla`: the constants of the `CloudStackLB` runs.

`CloudStackLB` in detail.

State:
- `rules`: LB rules as records `[name, ip, port, nodePort, proto, algo, hosts]`.
  The name is the triple `<<lb name, protocol, port>>` that `lbRuleName` (298)
  formats.
- `fw`: firewall rules `[ip, proto, port, cidrs]`.
- `allocated`: associated addresses.
- `svc`: the stored Service. Its fields are ports, source ranges, affinity,
  proxy flag, requested IP, the address annotation, `exists` and `finalized`.
- `cache[c][s]`: the annotation of process c's informer copy.
- `needSync[c][s]`: whether s is queued in c.
- `call[c]`: the call in flight, i.e. the `loadBalancer` struct (with
  `hostIDs`) plus the program counter.
- `nodes`: the node list the service controller passes; `needHosts[c][s]`:
  the node sync of process c still has to update s.
- Bounded counters for faults, restarts, edits and drift.

Actions:
- Every remote mutation is queued in `call[c].ops` by a decision action and
  issued by one `Exec*` step. So a failure (`FailOp`) or a restart (`Restart`)
  can fall between any two calls, as in the code.
- Listing calls are folded into the decision that uses them. Their failure is
  `ReadFails`.

| Code | Action |
|---|---|
| 228-262 (patcher, locator, affinity, hosts) | `EnsureLoadBalancer(c, s)` |
| 264-288 | `getPublicIPAddress`, `associatePublicIPAddress` + `ExecAssociate`, `EnsureRecordIP` (setServiceAnnotation on the caller's object) |
| 290-330 | `EnsurePortRule` (protocol check, `checkLoadBalancerRule`, update or create and assign) |
| 332-356 | `EnsurePortFirewall` (source-range check, `updateFirewallRule`) |
| 358-378 | `EnsureCleanupRule` |
| 380-391 | `EnsureFinish` |
| 274-282 | `EnsureCompensate` (deferred release, its failure only logged) |
| part_002 53-87 | `EnsureReturn` (deferred `Patch`, then the service controller's requeue) |
| 202-225 | `GetLoadBalancer(c, s)` (list error requeues; no rules: finalizer dropped; else the delete call starts) |
| 454-495 | `EnsureLoadBalancerDeleted(c)` (lists again), `DeleteRule`, `DeleteReleaseIP`, `DeleteReturn` |
| 395-410 | `UpdateLoadBalancer` (locator, `verifyHosts`) |
| 412-435 | `UpdateRule` (`ListLoadBalancerRuleInstances`, `symmetricDifference`, `UpdateHostOps`) + `ExecAssignHosts`, `ExecRemoveHosts` |
| 414-438 | `UpdateFinish` (return nil), `UpdateReturn` (the error of the list, assign or remove is returned; the node sync, not in `src/`, keeps such a Service queued) |

Nondeterminism stands for what the code leaves to Go or to CloudStack:
- the order of `service.Spec.Ports` (any port next);
- the map iteration order in the firewall functions (`SetToSeqs`), which
  decides which rule is kept and which delete's error is "last";
- which of several same-named rules survives in `lb.rules`, and which rule's
  address the locator keeps (`RuleMaps`, `LastIPs`).

Environment actions:
- `EditService` and `DeleteService` model the user.
- `Restart` models the process: the call is lost, the informer relists and
  every Service is queued.
- `DriftDeleteRule` and `DriftDeleteFw` model hand changes.
- `NodeChange` models a node joining or leaving; it queues every Service
  for `UpdateLoadBalancer` in every process.

Abstractions:
- Names and addresses are model values.
- The VM list (`VMs`) is fixed; the node list changes. A VM without a NIC
  stands for one still being rolled out.
- `getLoadBalancerSourceRanges` reads the spec field only; the annotation
  fallback and the string/bool annotation getters are not modelled.
- The VPC-or-network choice and the status object are left out.
- The affinity error branch (255) is unreachable, because the API server
  validates `sessionAffinity`.

## 3. Runs

All runs but `helpers` instantiate `MC_CloudStackLB.tla`.

Shared setup:
- One Service, or two in `keyword`.
- One controller, two in `rollout`.
- Node `w1` on VM vm1. Node changes (only in `hosts`) move between `{w1}`,
  `{w1, W2.example.com}`, `{W2.example.com}` and `{w3}`, whose VM has no
  NIC.
- Ports drawn from `{80/TCP}`, `{80/TCP with another nodePort, 53/UDP}` and
  `{80/TCP, 99/SCTP}`.
- Source ranges `<<>>`, `<<10/8>>` and `<<10/8, bad>>`.
- Both affinities.
- Requested IP none or a pre-existing pinned address.
- A pool of two addresses.

Each bound is 1, which lets every failure, restart or edit land between any
two calls of a call. The exceptions are in `hosts`: two node changes and two
failures, so that an update can fail on one rule after succeeding on the
other, and then fail again on its retry. Hand drift is bounded by 1 in `live` and 0 in `main`:
`main` only tracks drift to exclude it. One edit is enough to move between any two port sets, so
rules are updated, recreated and cleaned up (the Service starts with two
ports).

| Run | Expect | Properties | What it shows |
|---|---|---|---|
| main | pass (1.1M states, 115 s) | TypeOK, ConvergedWhenSynced, IdempotentEnsure, DeletedLeavesNoRules, ServingRulesStable, AddressRefinement | With a failed call, a restart, an edit and deletion: a synced Service has exactly its rules, a converged Ensure changes nothing, rules already serving are never recreated, and a Service whose finalizer is dropped, after a delete or because `GetLoadBalancer` found no rules, has no rule left. `CloudStackLB` implements `LBAddress`: a Service never has rules on two addresses. |
| live | pass (335k states, 2 min) | SyncCompletes | Starting from a rule under the legacy name, with a failure, a restart, an edit and a hand deletion, every queued Service is eventually handled. The requested IP and the affinity are not varied here, since `main` covers them. It needs a pool of three addresses; with two, the address leaked by a restart exhausts the pool. |
| hosts | pass (59k states, 45 s) | UpdateAppliesHosts, ForeignFirewallKept, HostsEventuallyCurrent | The setup: a legacy Service with two rules on `ip0`, an operator's ICMP firewall rule on that address, two node changes, two failed calls and a restart. An `UpdateLoadBalancer` that succeeds leaves every rule it listed with exactly the VMs `verifyHosts` gave. The firewall reconcilers never delete the ICMP rule. A round that worked from a node list that has since changed is repaired by a later round, which `HostsEventuallyCurrent` requires (hazard 407). A queued Service eventually has the current VMs on every rule, even when an update failed part-way through its rule loop (hazard 425). There are no edits: a liveness check with them took 18 minutes. |
| helpers | pass (14k inputs, 2 s) | CompareIsMultisetEquality, SymmetricDifferenceContract, VerifyHostsContract, SourceRangesContract | The loops compute their contracts: multiset equality (the comment at 841), `assign = D - C` and `remove = C - D` (spec.md §8), and the VMs of §4.2, over all slices of up to three strings, all id lists of three VMs, and all node sets of up to two nodes against all lists of up to two VMs. `getLoadBalancerSourceRanges` gives the field, else the comma-separated annotation, else allow-all (spec.md §3, §6), with an error for any malformed entry. This is checked over every field of up to two entries and every annotation text of up to four tokens. |
| firewall | violation | SourceRangesEnforced | `updateFirewallRule` masks a failed delete with the create's nil error (993). The old allow-all rule stays open. |
| annotation | violation | AnnotationPersisted | The patcher aliases the informer's object (part_002:46). After one failed patch, the annotation is never written. |
| backends | violation | BackendsAssigned | A rule created without its hosts (failure or restart before `assignHostsToRule`) is treated as up to date from then on. |
| pinned | violation | PinnedIPKept | Delete releases the address the user requested (487). |
| leak | violation | NoLeakedIP | A restart after `AssociateIpAddress` and before any rule leaks the address. With no restart at all, the same leak follows a port rejected by validation (293) whose deferred release fails. |
| proxy | violation | SyncCompletes | Enabling the proxy protocol renames the rule. The create conflicts with the old rule on the same port, and retries never succeed. |
| keyword | violation | ConvergedWhenSynced | With name `a1` a prefix of `a12`, deleting the first Service deletes the second's rules. |
| rollout | violation | ConvergedWhenSynced | Two processes during a rollout both ensure a new Service. Each associates its own address and creates every rule on it; both succeed, so two load balancers exist and one is never cleaned up. |

Observed, not run (no run slot is left for a violation run):
- The stale annotation of hazard 275 is not always transient. The property
  "an annotation naming a released address is eventually corrected" fails
  under the `live` configuration:
  1. a failed Ensure releases its new address, and its Patch writes that
     address into the annotation;
  2. the retry's Patch fails;
  3. the informer copy, aliased by the patcher (the `annotation` run), then
     already holds the retry's address, so no later call patches again.
- `Test_generateLoadBalancerStatus` (part_001) calls
  `generateLoadBalancerStatus` and expects an `IPMode`, Proxy when the
  proxy annotation is true. The code inlines the status at 380-391 and
  sets no `IPMode`, so every IP case of the test disagrees with the code.
  A passing check of the hostname branch would hide that; showing it needs
  a violation run, so the status is not modelled.
- An unsupported protocol or a bad source range is rejected only after the
  address is associated and earlier ports are changed (293, 341), while
  spec.md says validation comes first. The deferred release undoes the
  address, and the next successful call the ports. When that release fails,
  the address leaks: `NoLeakedIP` (the `leak` run) is violated by this path
  too, as a check with `MaxCrashes = 0` shows.

Fairness: `Spec` is weakly fair on each process's own steps (`Sync(c) \/ Step(c)`).
- The model runs the node sync in the worker's turns. Under weak fairness,
  a worker that retries a failing Ensure forever could starve it, and the
  real node-sync goroutine is not starved that way. No liveness run has such
  an Ensure, except where the property excuses it (`verifyHosts` failing) or
  where it is the finding (`proxy`). So no strong fairness is assumed.
- The service controller's worker and its node sync keep draining their
  queues (`Sync` includes `UpdateLoadBalancer`).
- A CloudStack call returns.
- Failures, restarts, edits, drift and node changes carry no fairness; they
  are bounded.

`CHECK_DEADLOCK FALSE` in the `CloudStackLB` runs: when nothing is queued,
the controller really idles. `helpers` always has a next input.

Each property of a passing run has a mutant, a plausible bug in the mapped
code that the run catches (see `PROJECT.json`):
- a dropped `hasLoadBalancerIP` guard;
- `checkLoadBalancerRule` ignoring the node port;
- `checkLoadBalancerRule` with an inverted algorithm comparison;
- `checkLoadBalancerRule` creating without deleting the stale rule;
- a missing `delete(lb.rules, name)`;
- Delete's result dropping the error;
- `UpdateLoadBalancer` without its `removeHostsFromRule` block;
- the locator never setting `lb.ipAddr`, so every Ensure associates a new
  address;
- the firewall filter dropped, so every rule of the address matches;
- `compareStringSlice` without `delete(diff, _y)`;
- `symmetricDifference` without `delete(newIDs, instance.Id)`;
- `verifyHosts` without `strings.ToLower`;
- a failed `UpdateLoadBalancer` not retried;
- the annotation of source ranges not trimmed.

## 4. Not modelled yet, and the plan

The plan, most important first:
1. Widen the abstract specification from the address to the listeners and
   firewall. Such a spec can only hold where the findings above do not
   interfere.
2. The ordering at 275 and the validation at 293 are covered by the
   `annotation` and `leak` runs (their permanent forms violate
   `AnnotationPersisted` and `NoLeakedIP`). A run of their own would show
   each without the other bugs, once a run slot is free.
3. Use the token model of `getLoadBalancerSourceRanges` inside
   `CloudStackLB` instead of its abstract `SourceRanges`. The cost is state
   space in the runs that vary the ranges.
4. Violation runs, once run slots are free, for: the requested address
   ignored while rules stand on the old one (264; `ConvergedWhenSynced`
   accepts any address); the status test's `IPMode` (part_001); pool
   exhaustion by leaked addresses (677; `live` sizes its pool of three so
   that it cannot happen).

Left out for good:
- the Helm chart and the CI workflow, except for the replica count;
- the Makefile;
- the logging `toString` helpers;
- the string and bool annotation getters and the status that ends Ensure
  (see "Observed, not run");
- the status `GetLoadBalancer` returns, which the delete path ignores;
- name formatting (`GetLoadBalancerName`, `Sprintf255`, which is not in
  `src/`). Names are model values, and a truncation collision has the shape
  of the `keyword` run.
