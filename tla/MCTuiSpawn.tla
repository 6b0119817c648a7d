----------------------------- MODULE MCTuiSpawn -----------------------------
\* A process that prints four chunks, the text in two of them, for TLC.
EXTENDS TuiSpawn

CONSTANTS text, stable, poll

SomeProgram == <<"a", "re", "ady", "b">>
SomeNeedle == <<"re", "ady">>
=============================================================================
