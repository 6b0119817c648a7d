-------------------------- MODULE MCDomTuiBridge --------------------------
\* A small document for TLC.
EXTENDS DomTuiBridge, TLC

\* One of the two contents is the other with blanks around it.
Bare == CHOOSE v \in Values : TRUE
TrimBlanks == [d \in Data |-> IF d \in Values THEN Bare ELSE d]

\* Pages whose elements have one style, and whose texts are anything.  As
\* styles the two values are alike: it does not matter which of them it is.
PlainPages == {d \in [Nodes -> Data] : \A n \in Elements : d[n] = Bare}

\* Elements, and texts, are interchangeable.
DocumentSymmetry == Permutations(Elements) \cup Permutations(Texts)
=============================================================================
