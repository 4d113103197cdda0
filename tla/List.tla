-------------------------------- MODULE List --------------------------------
(***************************************************************************)
(* The doubly-linked list of lib/list.c that holds the kernel log, the     *)
(* command history and the aliases.  A list has no head of its own: its    *)
(* owner keeps a pointer to some element, any element will do as the       *)
(* argument of an operation, and elements live in heap blocks that are     *)
(* reused once freed.  list_addfirst, which nothing calls and which does   *)
(* not link the old first element to the new one, is left out.             *)
(*                                                                         *)
(* A definition marked "Fault" belongs to no specification: it is a wrong  *)
(* version of the definition after it, that the properties must refuse.    *)
(***************************************************************************)
EXTENDS Integers, Sequences

CONSTANTS
  Addresses,  \* blocks malloc may return
  Values,
  NULL

ASSUME ListConstants == NULL \notin Addresses

VARIABLES
  node,   \* address -> [value, next, prev], for the elements allocated
  list    \* the element the owner points to, or NULL

vars == <<node, list>>

Elements == DOMAIN node

Init == node = [e \in {} |-> NULL] /\ list = NULL

-----------------------------------------------------------------------------
(* Walks.                                                                    *)

get_first(e) ==
  LET back[x \in Elements] == IF node[x].prev = NULL THEN x ELSE back[node[x].prev]
  IN  back[e]

get_last(e) ==
  LET on[x \in Elements] == IF node[x].next = NULL THEN x ELSE on[node[x].next]
  IN  on[e]

list_count(e) ==
  LET before[x \in Elements] == IF node[x].prev = NULL THEN 0 ELSE 1 + before[node[x].prev]
      after[x \in Elements] == IF node[x].next = NULL THEN 0 ELSE 1 + after[node[x].next]
  IN  before[e] + 1 + after[e]

Index(e, i) == i >= 0 /\ i <= list_count(e) - 1

\* Fault: starts to count at the element it is given, and stays on the last.
get_at_here(e, i) ==
  LET at[j \in 0 .. i] ==
        IF j = 0 THEN e
        ELSE IF node[at[j - 1]].next = NULL THEN at[j - 1] ELSE node[at[j - 1]].next
  IN  IF Index(e, i) THEN at[i] ELSE NULL

get_at(e, i) ==
  LET at[j \in 0 .. i] == IF j = 0 THEN get_first(e) ELSE node[at[j - 1]].next
  IN  IF Index(e, i) THEN at[i] ELSE NULL

-----------------------------------------------------------------------------
(* What the operations do to the elements.                                   *)

Fresh == Addresses \ Elements

With(e, fields) == [x \in Elements \cup {e} |-> IF x = e THEN fields ELSE node[x]]

\* Fault: the element after the one removed keeps pointing back to it.
WithoutForward(nodes, e) ==
  [x \in DOMAIN nodes \ {e} |->
     IF x = nodes[e].prev THEN [nodes[x] EXCEPT !.next = nodes[e].next] ELSE nodes[x]]

\* list_remove: the neighbours are linked to each other, and e is freed.
Without(nodes, e) ==
  [x \in DOMAIN nodes \ {e} |->
     [nodes[x] EXCEPT
        !.next = IF x = nodes[e].prev THEN nodes[e].next ELSE @,
        !.prev = IF x = nodes[e].next THEN nodes[e].prev ELSE @]]

list_new(v) ==
  /\ list = NULL
  /\ \E e \in Fresh :
       /\ node' = With(e, [value |-> v, next |-> NULL, prev |-> NULL])
       /\ list' = e

list_add(e, v) ==
  /\ \E n \in Fresh :
       LET last == get_last(e)
       IN  node' = [With(n, [value |-> v, next |-> NULL, prev |-> last]) EXCEPT ![last].next = n]
  /\ UNCHANGED list

\* Fault: the element after the new one keeps pointing back past it.
list_addat_half(e, v, i) ==
  /\ Index(e, i)
  /\ \E n \in Fresh :
       LET prev == get_at(e, i)
       IN  node' = [With(n, [value |-> v, next |-> node[prev].next, prev |-> prev])
                      EXCEPT ![prev].next = n]
  /\ UNCHANGED list

list_addat(e, v, i) ==
  /\ Index(e, i)
  /\ \E n \in Fresh :
       LET prev == get_at(e, i)
           next == node[prev].next
           linked == [With(n, [value |-> v, next |-> next, prev |-> prev])
                        EXCEPT ![prev].next = n]
       IN  node' = IF next = NULL THEN linked ELSE [linked EXCEPT ![next].prev = n]
  /\ UNCHANGED list

\* The owner of a list points to another element once its own is removed.
Repoint(e) ==
  list' \in IF list # e THEN {list}
            ELSE IF list_count(e) = 1 THEN {NULL}
            ELSE {node[e].next, node[e].prev} \ {NULL}

list_remove(e) == node' = Without(node, e) /\ Repoint(e)

list_removeat(e, i) == Index(e, i) /\ list_remove(get_at(e, i))

list_removelast(e) == list_remove(get_last(e))

\* Fault: the last element is left.
list_delete_butlast(e) ==
  LET left[i \in 0 .. list_count(e)] ==
        IF i = 0 THEN node ELSE Without(left[i - 1], get_at(e, i - 1))
  IN  node' = left[list_count(e) - 1] /\ list' = NULL

\* Removes the elements from the first to the last, one after the other.
list_delete(e) ==
  LET left[i \in 0 .. list_count(e)] ==
        IF i = 0 THEN node ELSE Without(left[i - 1], get_at(e, i - 1))
  IN  node' = left[list_count(e)] /\ list' = NULL

Indices == 0 .. list_count(list) - 1

\* The elements the owner can get at: an operation may be given any.
OnList == IF list = NULL THEN {} ELSE {get_at(list, i) : i \in Indices}

Next ==
  \/ \E v \in Values : list_new(v)
  \/ \E e \in OnList :
       \/ \E v \in Values : list_add(e, v) \/ \E i \in Indices : list_addat(e, v, i)
       \/ \E i \in Indices : list_removeat(e, i)
       \/ list_remove(e) \/ list_removelast(e) \/ list_delete(e)

Spec == Init /\ [][Next]_vars

-----------------------------------------------------------------------------
\* Every variable has its type: the pointers of elements name elements.
TypeOK ==
  /\ Elements \subseteq Addresses
  /\ node \in [Elements -> [value : Values, next : Elements \cup {NULL},
                            prev : Elements \cup {NULL}]]
  /\ list \in Elements \cup {NULL}

\* Two elements that are linked one way are linked the other way, no element
\* follows two others, and the walks of get_first and get_last end: from the
\* owner's element they meet every element allocated, so none is lost.
WellLinked ==
  /\ \A x, y \in Elements : node[x].next = y <=> node[y].prev = x
  /\ \A x, y \in Elements : node[x].next = NULL /\ node[y].next = NULL => x = y
  /\ OnList = Elements

\* The values from the first element to the last.
Contents == [i \in 1 .. (IF list = NULL THEN 0 ELSE list_count(list)) |->
               node[get_at(list, i - 1)].value]

Sequence == INSTANCE ListSeq WITH values <- Contents

\* The linked elements behave as a sequence of values.
ImplementsSequence == Sequence!SeqSpec

\* Whichever element of the list an operation is given, its index counts from
\* the first one and the end is the end of the whole list.
IndexFromFirst ==
  [][\A e \in OnList, v \in Values :
       /\ list_add(e, v) => Contents' = Append(Contents, v)
       /\ list_removelast(e) => Contents' = Sequence!WithoutAt(Contents, Len(Contents) - 1)
       /\ \A i \in Indices :
            /\ list_addat(e, v, i) => Contents' = Sequence!InsertAfter(Contents, i, v)
            /\ list_removeat(e, i) => Contents' = Sequence!WithoutAt(Contents, i)]_vars
=============================================================================
