---------------------------- MODULE OfflineQueue ----------------------------
(***************************************************************************)
(* The bounded in-memory queue of app/websocket/queue.py, as operators on  *)
(* its one field, _queues.  A recipient without a key in the dictionary is *)
(* a recipient whose queue is empty: `enqueue` creates a key only to       *)
(* append to it at once (the limits are positive), and `drain` removes it. *)
(***************************************************************************)
EXTENDS Naturals, Sequences, FiniteSets

CONSTANTS
    Names,                  \* every routing identifier a client may address
    MaxQueuedPerRecipient,  \* max_queued_per_recipient
    MaxQueuedRecipients     \* max_queued_recipients

\* _int_env refuses a limit below 1.
ASSUME QueueAssumption ==
    /\ IsFiniteSet(Names)
    /\ MaxQueuedPerRecipient \in Nat \ {0}
    /\ MaxQueuedRecipients \in Nat \ {0}

\* The recipients that hold a key of _queues.
Recipients(queues) == {r \in Names : queues[r] # << >>}

RecipientCount(queues) == Cardinality(Recipients(queues))

\* A test that forgets the bound on the number of recipients.
QueueAcceptsAnyRecipient(queues, r) == Len(queues[r]) < MaxQueuedPerRecipient

\* enqueue returns True.
QueueAccepts(queues, r) ==
    /\ queues[r] = << >> => RecipientCount(queues) < MaxQueuedRecipients
    /\ Len(queues[r]) < MaxQueuedPerRecipient

\* The queues after an enqueue that returned True.
Enqueue(queues, r, m) == [queues EXCEPT ![r] = Append(@, m)]

\* A drain that reads the queue and leaves it in place.
DrainKeeps(queues, r) == queues

\* The queues after drain; it returns queues[r].
Drain(queues, r) == [queues EXCEPT ![r] = << >>]

=============================================================================
