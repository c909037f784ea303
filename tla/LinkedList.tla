----------------------------- MODULE LinkedList -----------------------------
(***************************************************************************)
(* 024_linked_list/list.c: a circular doubly linked list of allocated      *)
(* nodes.  The init function adds five nodes, walks over them in both      *)
(* directions, removes one and walks again; the exit function frees the    *)
(* rest.  Nothing runs beside these functions; every allocation may fail.  *)
(*                                                                         *)
(* Which address an allocation returns makes no difference: the lowest     *)
(* free one is taken.  A node that was taken off the list has its links    *)
(* poisoned, as list_del does.                                             *)
(***************************************************************************)
EXTENDS Integers, Sequences, SequencesExt, FiniteSetsExt

CONSTANT Node   \* addresses of nodes

ASSUME NodeAssumption == Node \subseteq Nat \ {0}

Head_Node == 0
POISON    == -1

\* The calls of list_init and list_exit, in the order of the source.
Script == <<<<"add", 10>>, <<"add", 20>>, <<"add", 30>>, <<"add", 40>>, <<"add", 50>>,
            <<"traverse", 0>>, <<"reverse", 0>>, <<"remove", 20>>, <<"traverse", 0>>,
            <<"cleanup", 0>>>>

VARIABLES
    next, prev,   \* the links
    data,         \* the values of the nodes
    allocated,    \* the nodes that kmalloc has returned and kfree not yet taken
    call,         \* the call of the script that is being made
    cursor, tmp,  \* the local variables of a loop, POISON outside of loops
    visited,      \* the nodes a walk has come by

    \* History.
    expected,     \* the nodes that should be on the list between two calls
    added         \* the call that added a node; 0 for the head

listVars == <<next, prev, data, allocated, call, cursor, tmp, visited, expected, added>>

ListInit ==
    /\ next = [n \in Node \cup {Head_Node} |-> IF n = Head_Node THEN n ELSE POISON]
    /\ prev = next
    /\ data = [n \in Node |-> 0]
    /\ allocated = {}
    /\ call = 1
    /\ cursor = POISON
    /\ tmp = POISON
    /\ visited = <<>>
    /\ expected = {}
    /\ added = [n \in Node \cup {Head_Node} |-> 0]

Calling(name) == call <= Len(Script) /\ Script[call][1] = name
Argument      == Script[call][2]

----------------------------------------------------------------------------
\* add_node: kmalloc, then list_add_tail.
AddNode ==
    LET n == Min(Node \ allocated)
        last == prev[Head_Node]
    IN
    /\ Calling("add")
    /\ Node \ allocated # {}
    /\ allocated' = allocated \cup {n}
    /\ data' = [data EXCEPT ![n] = Argument]
    /\ next' = [next EXCEPT ![last] = n, ![n] = Head_Node]
    /\ prev' = [prev EXCEPT ![Head_Node] = n, ![n] = last]
    /\ expected' = expected \cup {n}
    /\ added' = [added EXCEPT ![n] = call]
    /\ call' = call + 1
    /\ UNCHANGED <<cursor, tmp, visited>>

\* kmalloc fails, and add_node returns.
AddFails ==
    /\ Calling("add")
    /\ call' = call + 1
    /\ UNCHANGED <<next, prev, data, allocated, cursor, tmp, visited, expected, added>>

\* The loops of traverse_list and traverse_list_reverse.
Walk(name, link) ==
    /\ Calling(name)
    /\ \/ /\ cursor = POISON
          /\ cursor' = link[Head_Node]
          /\ visited' = <<>>
          /\ UNCHANGED call
       \/ /\ cursor \notin {POISON, Head_Node}
          /\ visited' = Append(visited, cursor)
          /\ cursor' = link[cursor]
          /\ UNCHANGED call
       \/ /\ cursor = Head_Node
          /\ cursor' = POISON
          /\ call' = call + 1
          /\ UNCHANGED visited
    /\ UNCHANGED <<next, prev, data, allocated, tmp, expected, added>>

TraverseList        == Walk("traverse", next)
TraverseListReverse == Walk("reverse", prev)

----------------------------------------------------------------------------
(* remove_node and cleanup_list: list_for_each_entry_safe                  *)

Deletes(name, n) == name = "cleanup" \/ data[n] = Argument

\* The head of the loop; from here on the call is judged by its result.
LoopStart(name) ==
    /\ Calling(name)
    /\ cursor = POISON
    /\ cursor' = next[Head_Node]
    /\ tmp' = next[next[Head_Node]]
    /\ expected' = {n \in expected : ~Deletes(name, n)}
    /\ UNCHANGED <<next, prev, data, allocated, call, visited, added>>

\* list_del and kfree of the cursor, if it is to go.
Unlinked(links, other) ==
    [links EXCEPT ![other[cursor]] = links[cursor], ![cursor] = POISON]

\* Faulty variant: list_for_each_entry, which looks at the node it has freed.
LoopUnsafe(name) ==
    /\ Calling(name)
    /\ cursor \in Node
    /\ IF Deletes(name, cursor)
       THEN /\ next' = Unlinked(next, prev)
            /\ prev' = Unlinked(prev, next)
            /\ allocated' = allocated \ {cursor}
       ELSE UNCHANGED <<next, prev, allocated>>
    /\ cursor' = next'[cursor]
    /\ UNCHANGED <<data, call, tmp, visited, expected, added>>

LoopBody(name) ==
    /\ Calling(name)
    /\ cursor \in Node
    /\ IF Deletes(name, cursor)
       THEN /\ next' = Unlinked(next, prev)
            /\ prev' = Unlinked(prev, next)
            /\ allocated' = allocated \ {cursor}
       ELSE UNCHANGED <<next, prev, allocated>>
    /\ cursor' = tmp
    /\ tmp' = next'[tmp]
    /\ UNCHANGED <<data, call, visited, expected, added>>

LoopEnd(name) ==
    /\ Calling(name)
    /\ cursor = Head_Node
    /\ cursor' = POISON
    /\ tmp' = POISON
    /\ call' = call + 1
    /\ UNCHANGED <<next, prev, data, allocated, visited, expected, added>>

ListNext ==
    \/ AddNode \/ AddFails
    \/ TraverseList \/ TraverseListReverse
    \/ \E name \in {"remove", "cleanup"} :
          LoopStart(name) \/ LoopBody(name) \/ LoopEnd(name)

ListSpec == ListInit /\ [][ListNext]_listVars

----------------------------------------------------------------------------
(* Properties                                                              *)

\* b follows a on the ring of the nodes of a set, in the order of insertion.
Follows(a, b, nodes) ==
    /\ {a, b} \subseteq nodes \cup {Head_Node}
    /\ b # Head_Node => added[a] < added[b]
    /\ ~\E n \in nodes : added[a] < added[n] /\ (b # Head_Node => added[n] < added[b])

\* All links agree with that order, in both directions.
Ring(nodes) == \A n \in nodes \cup {Head_Node} :
                  Follows(n, next[n], nodes) /\ Follows(prev[n], n, nodes)

\* A walk has come by each of the nodes once, in the order of insertion or
\* against it.
Forward(walk, nodes) ==
    /\ ToSet(walk) = nodes
    /\ \A i, j \in DOMAIN walk : i < j => added[walk[i]] < added[walk[j]]
Backward(walk, nodes) ==
    /\ ToSet(walk) = nodes
    /\ \A i, j \in DOMAIN walk : i < j => added[walk[i]] > added[walk[j]]

\* The loops look at allocated nodes or the head only, although they free nodes
\* as they go.  Between two calls the list is the ring of the nodes that should
\* be on it, in both directions and in the order they were added, and nothing
\* else is allocated; a walk has come by each of them once.
ListSound ==
    /\ call <= Len(Script) /\ cursor # POISON =>
          /\ cursor \in allocated \cup {Head_Node}
          /\ tmp \in allocated \cup {Head_Node, POISON}
          /\ tmp = POISON => Script[call][1] \in {"traverse", "reverse"}
    /\ cursor = POISON =>
          /\ allocated = expected
          /\ Ring(expected)
          /\ call > 1 => CASE Script[call - 1][1] = "traverse" -> Forward(visited, expected)
                           [] Script[call - 1][1] = "reverse"  -> Backward(visited, expected)
                           [] OTHER                            -> TRUE
=============================================================================
