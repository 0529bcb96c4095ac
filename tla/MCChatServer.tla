---------------------------- MODULE MCChatServer ----------------------------
(* Instances of ChatServer for TLC: ids, names, requests and connections   *)
(* are interchangeable.                                                    *)
EXTENDS ChatServer, TLC

Symmetry ==
    {f @@ g @@ h @@ k @@ n :
        f \in Permutations(Requests), g \in Permutations(Users),
        h \in Permutations(Sessions), k \in Permutations(Conns),
        n \in Permutations(Names)}

=============================================================================
