----------------------------- MODULE LBHelpers -----------------------------
(***************************************************************************)
(* The pure helpers of loadbalancer.go (deploy.yaml 130-1119), written as  *)
(* the loops the code runs, so that CloudStackLB uses the code's           *)
(* algorithm and MC_LBHelpers can compare each loop with the contract it   *)
(* is meant to implement.                                                  *)
(*                                                                         *)
(* Data: a slice is a sequence, a Go map[string]X a function whose domain  *)
(* is the set of keys present. A host name is a record [base, upper]:      *)
(* upper = TRUE means some letter is upper case, so ToLower clears it; a   *)
(* node name also carries the domain suffix after its first dot ("" when  *)
(* there is none). A VM's first NIC is its network id, NoNic when the VM  *)
(* has no NIC.                                                             *)
(***************************************************************************)
EXTENDS Naturals, Sequences, SequencesExt, Functions

\* Go's empty string, used where the code compares a string with "".
Empty == ""
NoNic == "nonic"

-----------------------------------------------------------------------------
(* compareStringSlice (844-866): length check, count every element of x,   *)
(* then decrement per element of y, bailing out on an unknown key and      *)
(* deleting a key whose count reaches zero.                                *)

CountUp(diff, k) ==
    IF k \in DOMAIN diff THEN [diff EXCEPT ![k] = @ + 1] ELSE diff @@ (k :> 1)

\* The same loop without delete(diff, _y): a zero count stays in the map.
RECURSIVE CountDownNoDelete(_, _)
CountDownNoDelete(diff, y) ==
    IF y = <<>> THEN DOMAIN diff = {}
    ELSE LET k == Head(y) IN
         IF k \notin DOMAIN diff THEN FALSE
         ELSE CountDownNoDelete([diff EXCEPT ![k] = @ - 1], Tail(y))

RECURSIVE CountDown(_, _)
CountDown(diff, y) ==
    IF y = <<>> THEN DOMAIN diff = {}
    ELSE LET k == Head(y) IN
         IF k \notin DOMAIN diff THEN FALSE
         ELSE CountDown(IF diff[k] - 1 = 0
                          THEN Restrict(diff, DOMAIN diff \ {k})
                          ELSE [diff EXCEPT ![k] = @ - 1],
                        Tail(y))

compareStringSlice(x, y) ==
    /\ Len(x) = Len(y)
    /\ CountDown(FoldLeft(CountUp, <<>>, x), y)

-----------------------------------------------------------------------------
(* symmetricDifference (814-837): newIDs is the set of wanted ids; an       *)
(* instance already wanted is struck from it, any other instance is to be  *)
(* removed; what is left of newIDs, in map order, is to be assigned.       *)

\* The same loop without delete(newIDs, instance.Id).
SymDiffStepNoStrike(acc, id) ==
    IF id \in acc.newIDs THEN acc
    ELSE [acc EXCEPT !.remove = Append(@, id)]

SymDiffStep(acc, id) ==
    IF id \in acc.newIDs THEN [acc EXCEPT !.newIDs = @ \ {id}]
    ELSE [acc EXCEPT !.remove = Append(@, id)]

\* Returns [assign, remove]; assign is a set since Go's map order is free.
symmetricDifference(hostIDs, instances) ==
    LET out == FoldLeft(SymDiffStep,
                        [newIDs |-> ToSet(hostIDs), remove |-> <<>>],
                        instances)
    IN [assign |-> out.newIDs, remove |-> out.remove]

-----------------------------------------------------------------------------
(* verifyHosts (562-607): the lower-cased, domain-stripped node names; then *)
(* over the VM list: skip a VM whose lower-cased name is not a node, skip  *)
(* one without a NIC, fail on a second network, else collect its id.       *)

\* strings.ToLower without effect, as if the call were dropped.
ToLowerMissing(n) == n

ToLower(n) == [base |-> n.base, upper |-> FALSE]

\* strings.Split(strings.ToLower(node.Name), ".")[0]
HostName(node) == ToLower([base |-> node.base, upper |-> node.upper])

\* The failed result (nil, "", err).
VerifyError == [hostIDs |-> <<>>, networkID |-> Empty, err |-> TRUE]

VerifyStep(names, acc, vm) ==
    IF acc.err \/ ToLower(vm.name) \notin names \/ vm.nic = NoNic
      THEN acc
    ELSE IF acc.networkID # Empty /\ acc.networkID # vm.nic
      THEN VerifyError
    ELSE [acc EXCEPT !.hostIDs = Append(@, vm.id), !.networkID = vm.nic]

\* Returns VerifyError or [hostIDs, networkID, err |-> FALSE].
verifyHosts(nodes, vms) ==
    LET names == {HostName(n) : n \in nodes}
        Step(acc, vm) == VerifyStep(names, acc, vm)
        out == FoldLeft(Step,
                        [hostIDs |-> <<>>, networkID |-> Empty, err |-> FALSE],
                        vms)
    IN IF out.hostIDs = <<>> \/ out.networkID = Empty THEN VerifyError ELSE out

-----------------------------------------------------------------------------
(* Service annotations (1045-1119).  A string is a sequence of tokens: a   *)
(* space, a comma, or a whole word such as one CIDR text or "true"; two     *)
(* words side by side are one word the parser does not know.  The          *)
(* annotations of a Service are a function whose domain is the keys set.   *)

Sp == " "
Comma == ","
AllowAllText == "0.0.0.0/0"                   \* defaultAllowedCIDR (168)
SourceRangesKey == "source-ranges"            \* AnnotationLoadBalancerSourceRangesKey

\* strings.TrimSpace
TrimSpace(str) ==
    LET idx == {i \in DOMAIN str : str[i] # Sp}
    IN IF idx = {} THEN <<>> ELSE SubSeq(str, Min(idx), Max(idx))

\* strings.Split(str, ","): n commas give n + 1 parts, "" gives one.
SplitStep(acc, t) ==
    IF t = Comma THEN Append(acc, <<>>)
    ELSE [acc EXCEPT ![Len(acc)] = Append(@, t)]
Split(str) == FoldLeft(SplitStep, <<<<>>>>, str)

\* utilnet.ParseIPNets: each spec trimmed and parsed by ParseCIDRSloppy,
\* keyed by the network's canonical text; the first bad spec fails all.
\* CidrForm maps each CIDR text the parser accepts to its network's text.
ParseIPNets(specs, CidrForm) ==
    LET items == [i \in DOMAIN specs |-> TrimSpace(specs[i])]
        ok(x) == Len(x) = 1 /\ x[1] \in DOMAIN CidrForm
    IN IF \E i \in DOMAIN items : ~ok(items[i])
       THEN [nets |-> {}, err |-> TRUE]
       ELSE [nets |-> {CidrForm[items[i][1]] : i \in DOMAIN items}, err |-> FALSE]

\* The same function without the TrimSpace of the annotation's value.
getLoadBalancerSourceRangesNoTrim(field, annos, CidrForm) ==
    IF Len(field) > 0 THEN ParseIPNets(field, CidrForm)
    ELSE LET val == IF SourceRangesKey \in DOMAIN annos THEN annos[SourceRangesKey] ELSE <<>>
         IN ParseIPNets(Split(IF val = <<>> THEN <<AllowAllText>> ELSE val), CidrForm)

\* The field when set; else the annotation (a missing key reads as ""),
\* trimmed, allow-all when blank, split at commas.
getLoadBalancerSourceRanges(field, annos, CidrForm) ==
    IF Len(field) > 0 THEN ParseIPNets(field, CidrForm)
    ELSE LET raw == IF SourceRangesKey \in DOMAIN annos THEN annos[SourceRangesKey] ELSE <<>>
             val == TrimSpace(raw)
         IN ParseIPNets(Split(IF val = <<>> THEN <<AllowAllText>> ELSE val), CidrForm)

=============================================================================
