---------------------------- MODULE MCTransport -----------------------------
(* Instances of Transport for TLC.  Connections are interchangeable, and   *)
(* so are usernames.                                                       *)
EXTENDS Transport, TLC

Symmetry ==
    {f @@ g : f \in Permutations(Conns), g \in Permutations(Users)}

(* The hand-over scenario: one account sends, over one connection that     *)
(* stays up, to a second account that comes and goes over the others, and  *)
(* no connection closes before it has authenticated.  The second message,  *)
(* which has one before it and one behind it, may be impossible to encode. *)
CONSTANTS Sender, SenderConn

HandOver ==
    /\ \A c \in Conns :
         /\ phase[c] \notin {"refused", "failed"}
         /\ phase[c] \in {"closing", "done", "raised"} => Authenticated(c)
         /\ Authenticated(c) => (ident[c] = Sender <=> c = SenderConn)
         /\ phase[c] # "unused" => phase[SenderConn] # "unused"
    /\ Cardinality({c \in Conns \ {SenderConn} :
                      phase[c] \in {"accepting", "open", "resolving"}}) <= 1
    /\ Cardinality({p \in Conns \X (1 .. MaxPendingOutbound) :
                      /\ p[2] <= Len(outbound[p[1]])
                      /\ outbound[p[1]][p[2]] = Control}) <= 1
    /\ phase[SenderConn] \in {"unused", "accepting", "open", "resolving"}
    /\ writer[SenderConn] # "dead"
    /\ \A i \in 1 .. Len(sent) :
         sent[i].claimed = Sender /\ sent[i].to \in Users \ {Sender}
    /\ \A i \in 1 .. Len(sent) : sent[i].encodable \/ i = 2

HandOverSymmetry == Permutations(Conns \ {SenderConn})

=============================================================================
