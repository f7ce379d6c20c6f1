-------------------------- MODULE MCPortAllocation --------------------------
\* An instance of PortAllocation for TLC with two ports.  The services want the
\* same port; or the range has one port, one service wants the other and the
\* second service none; two configurations are not accepted.
EXTENDS PortAllocation, TLC

MCConfigs == {[ports |-> <<1, 1>>, low |-> 1, high |-> 2],
              [ports |-> <<2, 0>>, low |-> 1, high |-> 1],
              [ports |-> <<3, 1>>, low |-> 1, high |-> 2],
              [ports |-> <<2, 1>>, low |-> 3, high |-> 3]}

Symmetry == Permutations(Clients)

=============================================================================
