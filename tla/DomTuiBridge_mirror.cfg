CONSTANTS
    Elements = {e1, e2}
    Texts = {t1}
    Container = container
    None = none
    Root = root
    Nowhere = nowhere
    Values = {bare, padded}
    Blank = blank
    Trim <- TrimBlanks
    InitialData <- PlainPages
    MaxChanges = 3
SYMMETRY DocumentSymmetry
SPECIFICATION Spec
INVARIANT MirrorsTheDocument
