--------------------------- MODULE MCNoteIndexing ---------------------------
EXTENDS NoteIndexing

CONSTANTS n1, k1, k2, e1, e2
=============================================================================
