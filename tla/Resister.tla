------------------------------ MODULE Resister ------------------------------
(***************************************************************************)
(* pkg/internal/resister/queue.go: a priority queue of elements with an    *)
(* index by element ID. Every operation holds queueLock throughout, so     *)
(* each is one step. container/heap is external and modelled by its        *)
(* contract: Push, Fix, Pop and ResisterInit leave SOME heap order of the elements *)
(* (any one, ties are not resolved), and Pop removes the first.            *)
(***************************************************************************)
EXTENDS Integers, Sequences, FiniteSets, SequencesExt

CONSTANTS
    Ids,           \* element IDs
    Priorities,    \* QueuePriority values elements are pushed with
    RetryCounts,   \* RetryCount values elements are pushed with
    MaxLen         \* exploration bound on the queue

ASSUME PriorityAssumption == Priorities \subseteq Nat /\ RetryCounts \subseteq Nat

VARIABLES
    queue,        \* the heap: the IDs in array order
    indexByID,    \* the IDs the index holds
    priority, retryCount,  \* of the element object the index or queue holds for an ID
    pushed,       \* history: IDs pushed and not popped since
    popped        \* history: the last element popped, <<id, its priority>>, or None

resisterVars == <<queue, indexByID, priority, retryCount, pushed, popped>>

None == <<>>

ResisterInit ==
    /\ queue = <<>>
    /\ indexByID = {}
    /\ priority = [id \in Ids |-> 0]
    /\ retryCount = [id \in Ids |-> 0]
    /\ pushed = {}
    /\ popped = None

\* Less: the parent of every element has at least its priority.
HeapOrdered(q, prio) == \A i \in 2..Len(q) : prio[q[i \div 2]] >= prio[q[i]]

\* What container/heap leaves: the same elements in some heap order.
Heaps(elements, prio) == {q \in SetToSeqs(elements) : HeapOrdered(q, prio)}

-----------------------------------------------------------------------------
\* Push of an element with a known ID overwrites the queued element and
\* restores the heap; an unknown one is added.
Push(id, p, r) ==
    /\ Len(queue) < MaxLen \/ id \in indexByID
    /\ indexByID' = indexByID \cup {id}
    /\ priority' = [priority EXCEPT ![id] = p]
    /\ retryCount' = [retryCount EXCEPT ![id] = r]
    /\ queue' \in Heaps(ToSet(queue) \cup {id}, priority')
    /\ pushed' = pushed \cup {id}
    /\ popped' = None

\* Pop: nil on an empty queue, otherwise the first element, which leaves the
\* index too.
Pop ==
    /\ queue # <<>>
    /\ popped' = <<Head(queue), priority[Head(queue)]>>
    /\ queue' \in Heaps(ToSet(Tail(queue)), priority)
    /\ indexByID' = indexByID \ {Head(queue)}
    /\ pushed' = pushed \ {Head(queue)}
    /\ UNCHANGED <<priority, retryCount>>

\* Element.DecayPriority
Decayed(id) ==
    IF retryCount[id] > 5
    THEN IF priority[id] - 2 < 0 THEN 0 ELSE priority[id] - 2
    ELSE priority[id]

MutDecayKeepsOrder ==
    /\ priority' = [id \in Ids |-> IF id \in ToSet(queue) THEN Decayed(id) ELSE priority[id]]
    /\ popped' = None
    /\ UNCHANGED <<queue, indexByID, retryCount, pushed>>

\* The heap is rebuilt only if a priority has changed.
DecayPriorities ==
    /\ priority' = [id \in Ids |-> IF id \in ToSet(queue) THEN Decayed(id) ELSE priority[id]]
    /\ IF priority' # priority
       THEN queue' \in Heaps(ToSet(queue), priority')
       ELSE UNCHANGED queue
    /\ popped' = None
    /\ UNCHANGED <<indexByID, retryCount, pushed>>

ResisterNext ==
    \/ \E id \in Ids, p \in Priorities, r \in RetryCounts : Push(id, p, r)
    \/ Pop
    \/ DecayPriorities

ResisterSpec == ResisterInit /\ [][ResisterNext]_resisterVars

-----------------------------------------------------------------------------
\* The fields are typed.
ResisterTypeOK ==
    /\ queue \in Seq(Ids)
    /\ indexByID \subseteq Ids
    /\ priority \in [Ids -> Nat]
    /\ retryCount \in [Ids -> Nat]
    /\ pushed \subseteq Ids
    /\ popped = None \/ popped \in Ids \X Nat

\* The queue and the index agree: an element is in the index exactly while it
\* is queued, and queued once, so a requeue never makes a second copy and the
\* branch of Push for an indexed but unqueued element is never needed.
IndexMatchesQueue ==
    /\ ToSet(queue) = indexByID
    /\ indexByID = pushed
    /\ Len(queue) = Cardinality(indexByID)

\* Pop returns the highest priority element, after any sequence of requeues
\* that change priorities in place and of decays that lower some of them.
PopsHighest ==
    popped # None => \A id \in ToSet(queue) : priority[id] <= popped[2]

\* What the queue promises: Push, Pop and DecayPriorities keep the index and the
\* queue in step and Pop's choice right.
QueueSound == ResisterTypeOK /\ IndexMatchesQueue /\ PopsHighest
=============================================================================
