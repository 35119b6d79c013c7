------------------------------- MODULE PQueue -------------------------------
(***************************************************************************)
(* The binary heap of util/pqueue.h: an array whose least item, by the     *)
(* comparison of the file that includes it, is at the top.  A heap is a    *)
(* sequence; index i of the array is place i + 1.                          *)
(***************************************************************************)
EXTENDS Naturals, Sequences

CONSTANT PQ_COMP(_, _)       \* a comes before b

pq_left(i)   == 2 * i
pq_right(i)  == 2 * i + 1
pq_parent(i) == i \div 2

\* The items on a path move up it by one place, and x takes the last.
Shifted(items, path, x) ==
    [i \in DOMAIN items |->
        IF i = path[Len(path)] THEN x
        ELSE IF \E k \in DOMAIN path : path[k] = i
        THEN items[path[1 + CHOOSE k \in DOMAIN path : path[k] = i]]
        ELSE items[i]]

\* Mutant of SiftPath: the left child is taken to be the lesser.
SiftPathLeft(items, x) ==
    LET path[j \in DOMAIN items] ==
            IF pq_left(j) > Len(items) \/ ~PQ_COMP(items[pq_left(j)], x)
            THEN <<j>>
            ELSE <<j>> \o path[pq_left(j)]
    IN  path[1]

\* The places an item goes through as it sinks from the top: to the lesser
\* child, as long as that comes before it.
SiftPath(items, x) ==
    LET lesser(j) == IF /\ pq_right(j) =< Len(items)
                        /\ PQ_COMP(items[pq_right(j)], items[pq_left(j)])
                     THEN pq_right(j) ELSE pq_left(j)
        path[j \in DOMAIN items] ==
            IF pq_left(j) > Len(items) \/ ~PQ_COMP(items[lesser(j)], x)
            THEN <<j>>
            ELSE <<j>> \o path[lesser(j)]
    IN  path[1]

pq_top(items) == items[1]

\* The last item replaces the top and sinks.
pq_pop(items) ==
    LET n    == Len(items) - 1
        rest == SubSeq(items, 1, n)
    IN  IF n = 0 THEN <<>>
        ELSE Shifted(rest, SiftPath(rest, items[n + 1]), items[n + 1])

\* A new item rises from the end past those that do not come before it.
pq_insert(items, x) ==
    LET n == Len(items) + 1
        path[j \in 1 .. n] ==
            IF j = 1 \/ PQ_COMP(items[pq_parent(j)], x)
            THEN <<j>>
            ELSE <<j>> \o path[pq_parent(j)]
    IN  Shifted(Append(items, x), path[n], x)
=============================================================================
