-------------------------- MODULE MCLoginThrottle ---------------------------
(* Instances of LoginThrottle for TLC: attempts are interchangeable, and so *)
(* are identifiers.                                                        *)
EXTENDS LoginThrottle, TLC

Symmetry ==
    {f @@ g : f \in Permutations(Attempts), g \in Permutations(Identifiers)}

=============================================================================
