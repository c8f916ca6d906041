CONSTANTS
    s1 = s1
    s2 = s2
    s3 = s3
    k1 = k1
    k2 = k2
    k3 = k3
    k4 = k4
    x = x
    None = None
    Session = {s1, s2, s3}
    Key = {k1, k2, k3, k4}
    Field = {"amount", "date"}
    Value = {1, 2}
    Given <- MCDated
    Patch <- MCPatch
    RevisionNo = {1, 2}
    SourceOf <- MCSourceOf
SPECIFICATION OrderedSpec
INVARIANTS
    TypeOK
    EffectOfLatest
    EditsFollowShown
    AnswerIsRequested
    NeverStranded
PROPERTIES
    OperationsEnd
    ImplementsRegister
CHECK_DEADLOCK FALSE
