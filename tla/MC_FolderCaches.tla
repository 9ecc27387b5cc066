--------------------------- MODULE MC_FolderCaches ---------------------------
EXTENDS FolderCaches, TLC

\* Folders and slots are interchangeable, and no property is temporal.
Symmetry == Permutations(Folders) \cup Permutations(Calls)
=============================================================================
