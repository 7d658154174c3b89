----------------------------- MODULE MCFilesys -----------------------------
\* Instance of Filesys for TLC: the names of files are interchangeable.
EXTENDS Filesys, TLC

NameSymmetry == Permutations(Names)
=============================================================================
