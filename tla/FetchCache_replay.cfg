CONSTANTS
    Callers = {c1, c2}
    None = none
    MaxResponses = 2
SYMMETRY CallerSymmetry
SPECIFICATION Spec
INVARIANTS BodyKeepsItsMeta RecordedBodyIsFound
PROPERTY ReplayIsDeterministic
