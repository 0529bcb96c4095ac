----------------------------- MODULE Messaging ------------------------------
(***************************************************************************)
(* What the transport promises, without sockets, tasks or registry: a      *)
(* message gets its verdict the moment it is posted; a queued one waits    *)
(* for its recipient until a link of the recipient opens and takes over    *)
(* all that waits; what a link took is put on the wire, each message at    *)
(* most once, or is lost with the link.  A message is known by its number  *)
(* in the order of the posts, and everything happens in that order: a link *)
(* writes no number below one it has written, and loses no number while it *)
(* keeps a lower one.                                                      *)
(***************************************************************************)
EXTENDS Integers, Sequences

CONSTANTS Links, Names, Nobody

VARIABLES
    posted,   \* the messages and their verdicts, in the order posted
    owner,    \* account of each link, Nobody before it opens
    waiting,  \* the messages queued for each recipient
    taken,    \* what each link took and has neither written nor lost
    wire,     \* what each link has written
    lost      \* what each link took and lost

mvars == << posted, owner, waiting, taken, wire, lost >>

\* All of S comes before all of T.
Precede(S, T) == \A i \in S, j \in T : i < j

MInit ==
    /\ posted = << >>
    /\ owner = [c \in Links |-> Nobody]
    /\ waiting = [r \in Names |-> {}]
    /\ taken = [c \in Links |-> {}]
    /\ wire = [c \in Links |-> {}]
    /\ lost = [c \in Links |-> {}]

\* Some links of the recipient, at least one, take the message.  Nothing
\* older waits for the recipient.
PostDelivered(m, links) ==
    /\ m.status = "delivered"
    /\ links # {}
    /\ \A c \in links : owner[c] = m.to
    /\ waiting[m.to] = {}
    /\ taken' = [c \in Links |-> IF c \in links THEN taken[c] \cup {Len(posted')}
                                                ELSE taken[c]]
    /\ UNCHANGED << owner, waiting, wire, lost >>

PostQueued(m) ==
    /\ m.status = "queued"
    /\ waiting' = [waiting EXCEPT ![m.to] = @ \cup {Len(posted')}]
    /\ UNCHANGED << owner, taken, wire, lost >>

PostRefused(m) ==
    /\ m.status \in {"recipient_unavailable", "rejected"}
    /\ UNCHANGED << owner, waiting, taken, wire, lost >>

\* The message of a Post step is whatever the step appends.
Post ==
    /\ Len(posted') = Len(posted) + 1
    /\ \A i \in 1 .. Len(posted) : posted'[i] = posted[i]
    /\ LET m == posted'[Len(posted')] IN
       \/ PostDelivered(m, {c \in Links : taken'[c] # taken[c]})
       \/ PostQueued(m)
       \/ PostRefused(m)

\* A link opens for u and takes over what waits for u: the first of it is
\* kept, the rest is lost.
Open(c, u, kept) ==
    LET rest == waiting[u] \ kept IN
    /\ owner[c] = Nobody
    /\ Precede(kept, rest)
    /\ owner' = [owner EXCEPT ![c] = u]
    /\ waiting' = [waiting EXCEPT ![u] = {}]
    /\ taken' = [taken EXCEPT ![c] = @ \cup kept]
    /\ lost' = [lost EXCEPT ![c] = @ \cup rest]
    /\ UNCHANGED << posted, wire >>

\* Of what link c took, the first is written and the next is lost.
Progress(c, written, gone) ==
    LET kept == taken[c] \ (written \cup gone) IN
    /\ Precede(wire[c], written)
    /\ Precede(written, gone \cup kept)
    /\ Precede(gone, kept)
    /\ wire' = [wire EXCEPT ![c] = @ \cup written]
    /\ lost' = [lost EXCEPT ![c] = @ \cup gone]
    /\ taken' = [taken EXCEPT ![c] = kept]
    /\ UNCHANGED << posted, owner, waiting >>

MNext ==
    \/ Post
    \/ \E c \in Links, u \in Names : \E kept \in SUBSET waiting[u] : Open(c, u, kept)
    \/ \E c \in Links : \E written, gone \in SUBSET taken[c] : Progress(c, written, gone)

MSpec == MInit /\ [][MNext]_mvars

=============================================================================
