------------------------------ MODULE MCEntry ------------------------------
(* Entry on a small instance.                                              *)
EXTENDS Entry, TLC

CONSTANTS e1, e2, d1, d2, h1, h2, f1, f2

MCEntries == {e1, e2}
MCDevices == {d1, d2}
MCHosts   == {h1, h2}
MCFlows   == {f1, f2}

IdSymmetry ==
    Permutations(MCEntries) \cup Permutations(MCDevices) \cup Permutations(MCHosts)
    \cup Permutations(MCFlows)

=============================================================================
