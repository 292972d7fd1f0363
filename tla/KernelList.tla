---------------------------- MODULE KernelList ----------------------------
(***************************************************************************)
(* The kernel's circular doubly linked list (struct list_head), at the     *)
(* level of its pointers and without CONFIG_DEBUG_LIST: nothing checks     *)
(* that a node is not on a list already when it is added.  Code outside    *)
(* the repository, modelled from what camera_vb2.c asks of it.             *)
(*                                                                         *)
(* A memory m maps every node, and the head among them, to its next and    *)
(* prev.                                                                   *)
(***************************************************************************)
EXTENDS TLC

Head0 == "head"         \* the list head
Poison == "poison"      \* LIST_POISON1 and LIST_POISON2

(* INIT_LIST_HEAD, and nodes that were never on a list. *)
EmptyList(nodes) ==
  [n \in nodes \cup {Head0} |->
     IF n = Head0 THEN [next |-> Head0, prev |-> Head0]
                  ELSE [next |-> Poison, prev |-> Poison]]

(* list_add_tail: head->prev = n; n->next = head; n->prev = last;          *)
(* last->next = n, in this order.                                          *)
AddTail(m, n) ==
  LET last == m[Head0].prev
      linked == [m EXCEPT ![Head0].prev = n, ![n] = [next |-> Head0, prev |-> last]]
  IN  [linked EXCEPT ![last].next = n]

(* list_del: the neighbours are joined and the node is poisoned.  A node   *)
(* that is poisoned already makes the kernel write to the poison address.  *)
Faults(m, n) == Poison \in {m[n].next, m[n].prev}

Del(m, n) ==
  LET joined == [m EXCEPT ![m[n].next].prev = m[n].prev]
  IN  [joined EXCEPT ![m[n].prev].next = m[n].next,
                     ![n] = [next |-> Poison, prev |-> Poison]]
=============================================================================
