SPECIFICATION Spec
INVARIANTS
    CompareIsMultisetEquality
    SymmetricDifferenceContract
    VerifyHostsContract
    SourceRangesContract
