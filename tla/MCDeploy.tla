------------------------------ MODULE MCDeploy ------------------------------
\* Instances of Deploy for TLC: tools and services are interchangeable.
EXTENDS Deploy, TLC

Symmetry == Permutations(Clients) \cup Permutations(Services)

=============================================================================
