-------------------------- MODULE MCMirrorCommands --------------------------
\* Instances of MirrorCommands for TLC: tools, ids, local roots and inodes are
\* interchangeable.
EXTENDS MirrorCommands, TLC

Symmetry == Permutations(Clients) \cup Permutations(Ids) \cup Permutations(Roots)
                \cup Permutations(Inodes)

=============================================================================
