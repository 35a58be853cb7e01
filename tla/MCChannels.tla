------------------------------- MODULE MCChannels -------------------------------
(* Constants for model checking Channels.                                    *)
EXTENDS Channels, TLC

CONSTANTS c1, c2, k1, k2, m1, m2, m3

OneOrAll == {1, 2}
NoRewind == {}
Acking == {TRUE}

Symmetry == Permutations(Clients) \cup Permutations(Consumers) \cup Permutations(Messages)
================================================================================
