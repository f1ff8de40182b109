--------------------------- MODULE PriorityQueue ---------------------------
(* What a pqueue_t promises: a set of elements with priorities, of which a *)
(* pop takes one with the smallest.                                        *)
EXTENDS Integers

CONSTANTS Elements, Priorities

VARIABLES content,   \* the elements in the queue
          pri,       \* the priority of each element
          popped     \* what pqueue_pop returned last, or NoElement

NoElement == "NULL"
TypeInvariant == /\ content \in SUBSET Elements
                 /\ pri \in [Elements -> Priorities]
                 /\ popped \in Elements \cup {NoElement}

Init == /\ content = {}
        /\ pri \in [Elements -> Priorities]
        /\ popped = NoElement

Insert(e) == /\ e \notin content
             /\ content' = content \cup {e}
             /\ UNCHANGED <<pri, popped>>

\* An empty queue gives NoElement.
Pop == \/ /\ content = {}
          /\ popped' = NoElement
          /\ UNCHANGED <<content, pri>>
       \/ \E e \in content :
              /\ \A f \in content : pri[e] <= pri[f]
              /\ content' = content \ {e}
              /\ popped' = e
              /\ UNCHANGED pri

ChangePriority(e, p) == /\ e \in content
                        /\ pri' = [pri EXCEPT ![e] = p]
                        /\ UNCHANGED <<content, popped>>

Remove(e) == /\ e \in content
             /\ content' = content \ {e}
             /\ UNCHANGED <<pri, popped>>

Next == \/ Pop
        \/ \E e \in Elements : Insert(e) \/ Remove(e)
        \/ \E e \in Elements, p \in Priorities : ChangePriority(e, p)

Spec == Init /\ [][Next]_<<content, pri, popped>>
=============================================================================
