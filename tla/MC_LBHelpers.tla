---------------------------- MODULE MC_LBHelpers ----------------------------
(***************************************************************************)
(* Checks the loops of LBHelpers against the contracts spec.md gives them, *)
(* over every input drawn from small universes. The single variable holds *)
(* the input under test; every initial state is one test case.           *)
(***************************************************************************)
EXTENDS LBHelpers, FiniteSets

VARIABLE input

Strings == {"a", "b"}
Ids == {"v1", "v2", "v3"}
Bases == {"w1", "w2"}
Networks == {"n1", "n2"}

\* Slices of strings, duplicates allowed (CIDR lists).
StringSlices == BoundedSeq(Strings, 3)

\* Slices of distinct ids (hostIDs, and a rule's instances).
IdSlices == UNION {SetToSeqs(S) : S \in SUBSET Ids}

Nodes == [base : Bases, upper : BOOLEAN, domain : {Empty, "example.com"}]
NodeSets == {S \in SUBSET Nodes : Cardinality(S) <= 2}
VMs == [id : {"v1", "v2"}, name : [base : Bases, upper : BOOLEAN],
        nic : Networks \cup {NoNic}]
VMLists0 == {<<>>} \cup {<<v>> : v \in VMs}
           \cup {<<v, w>> : v, w \in VMs}

\* ListVirtualMachines returns each VM once.
VMLists == {l \in VMLists0 : Len(l) = 2 => l[1].id # l[2].id}

\* CIDR texts ParseCIDRSloppy accepts, with the text of their network;
\* "10.0.0.1/8" has host bits set.  "bad" is any other word.
MCCidrForm == ("10.0.0.0/8" :> "10.0.0.0/8") @@ ("10.0.0.1/8" :> "10.0.0.0/8")
              @@ (AllowAllText :> AllowAllText)
Words == {"10.0.0.0/8", "10.0.0.1/8", "bad"}
\* Annotation values of up to four tokens; field entries of up to two.
RangeTexts == BoundedSeq(Words \cup {Sp, Comma}, 4)
FieldEntries == BoundedSeq(Words \cup {Sp}, 2)
FieldLists == {<<e>> : e \in FieldEntries} \cup {<<e, f>> : e, f \in FieldEntries}
\* Annotation maps: at most the one key, each value.
RangeAnnos == {<<>>} \cup {SourceRangesKey :> v : v \in RangeTexts}

CompareInputs == [helper : {"compare"}, x : StringSlices, y : StringSlices]
SymDiffInputs == [helper : {"symdiff"}, hostIDs : IdSlices, instances : IdSlices]
VerifyInputs == [helper : {"verify"}, nodes : NodeSets, vms : VMLists]
\* The field set (the annotation then ignored), or empty with any annotation.
RangesInputs ==
    [helper : {"ranges"}, field : FieldLists, annos : {<<>>, SourceRangesKey :> <<"bad">>}]
    \cup [helper : {"ranges"}, field : {<<>>}, annos : RangeAnnos]

Init == input \in CompareInputs \cup SymDiffInputs \cup VerifyInputs
                  \cup RangesInputs

\* Init already holds every input; a step moves to one fixed input of a
\* helper, which keeps the state graph small.
NextCompare == input' = [helper |-> "compare", x |-> <<>>, y |-> <<>>]
NextSymDiff == input' = [helper |-> "symdiff", hostIDs |-> <<>>, instances |-> <<>>]
NextVerify == input' = [helper |-> "verify", nodes |-> {}, vms |-> <<>>]

NextRanges == input' = [helper |-> "ranges", field |-> <<>>, annos |-> <<>>]

Next == NextCompare \/ NextSymDiff \/ NextVerify \/ NextRanges

Spec == Init /\ [][Next]_input

-----------------------------------------------------------------------------
(* Reference definitions, from spec.md.                                    *)

\* "The slices are equal if and only if both contain the same number of
\* every unique element" (the comment above compareStringSlice, 841).
SameMultiset(x, y) == ToBag(x) = ToBag(y)

\* §4.2: the VMs whose name equals a node's name ignoring case and domain,
\* and that have a NIC, all on one network; no such VM is an error.
Matched(nodes, vms) ==
    SelectSeq(vms, LAMBDA vm : vm.nic # NoNic
                               /\ \E n \in nodes : n.base = vm.name.base)

VerifyReference(nodes, vms) ==
    LET m == Matched(nodes, vms)
        nets == {m[i].nic : i \in DOMAIN m}
    IN IF m = <<>> \/ Cardinality(nets) > 1 THEN VerifyError
       ELSE [hostIDs |-> [i \in DOMAIN m |-> m[i].id],
             networkID |-> CHOOSE n \in nets : TRUE, err |-> FALSE]

\* §3 and §6: the explicit field, else the source-ranges annotation as a
\* comma-separated list, else allow-all; each entry, spaces around it
\* aside, must be one CIDR.  Entries are cut at the comma positions.
NonSpace(x) == SelectSeq(x, LAMBDA t : t # Sp)
Blank(x) == NonSpace(x) = <<>>
Parts(x) ==
    LET b == <<0>> \o SetToSortSeq({i \in DOMAIN x : x[i] = Comma}, <)
                  \o <<Len(x) + 1>>
    IN [k \in 1..Len(b) - 1 |-> SubSeq(x, b[k] + 1, b[k + 1] - 1)]
RangesReference(field, annos) ==
    LET specs == IF field # <<>> THEN field
                 ELSE IF SourceRangesKey \notin DOMAIN annos \/ Blank(annos[SourceRangesKey])
                      THEN <<<<AllowAllText>>>>
                      ELSE Parts(annos[SourceRangesKey])
        cidr(x) == Len(NonSpace(x)) = 1 /\ NonSpace(x)[1] \in DOMAIN MCCidrForm
    IN IF \E i \in DOMAIN specs : ~cidr(specs[i]) THEN [nets |-> {}, err |-> TRUE]
       ELSE [nets |-> {MCCidrForm[NonSpace(specs[i])[1]] : i \in DOMAIN specs},
             err |-> FALSE]

\* compareStringSlice, which decides whether a firewall rule's CIDR list
\* already matches (993), answers exactly multiset equality.
CompareIsMultisetEquality ==
    input.helper = "compare" =>
        (compareStringSlice(input.x, input.y) <=> SameMultiset(input.x, input.y))

\* symmetricDifference, as UpdateLoadBalancer applies it (421-435), yields
\* assign = D - C and remove = C - D (spec.md §8), with remove free of
\* duplicates so that no VM is removed twice.
SymmetricDifferenceContract ==
    input.helper = "symdiff" =>
        LET D == ToSet(input.hostIDs)
            C == ToSet(input.instances)
            r == symmetricDifference(input.hostIDs, input.instances)
        IN /\ r.assign = D \ C
           /\ ToSet(r.remove) = C \ D
           /\ Len(r.remove) = Cardinality(C \ D)

\* getLoadBalancerSourceRanges (1045-1069) resolves the allowed networks as
\* spec.md says: the field, else the annotation, blank or missing meaning
\* allow-all; a malformed entry anywhere is an error, not a dropped entry.
SourceRangesContract ==
    input.helper = "ranges" =>
        getLoadBalancerSourceRanges(input.field, input.annos, MCCidrForm)
            = RangesReference(input.field, input.annos)

\* verifyHosts (562-607) returns the ids, in list order, of exactly the VMs
\* named like a node, case and domain aside, that have a NIC, and fails when
\* there are none or they span two networks.
VerifyHostsContract ==
    input.helper = "verify" =>
        verifyHosts(input.nodes, input.vms) = VerifyReference(input.nodes, input.vms)

=============================================================================
