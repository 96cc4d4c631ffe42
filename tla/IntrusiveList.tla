--------------------------- MODULE IntrusiveList ----------------------------
(***************************************************************************)
(* The doubly linked list of src/utils/list_entry.cc, pointer by pointer,  *)
(* beside the sequence of items it stands for.                             *)
(***************************************************************************)
EXTENDS Integers, Sequences, SequencesExt

CONSTANTS Items, ListHead

\* The head is an entry that is part of no item.
ASSUME ListAssumption == ListHead \notin Items

VARIABLES
    links,   \* [next, prev]: the pointers of the head and the items
    items,   \* history: the sequence of items in the list
    got      \* history: what the last pop returned, and what it should return

listVars == <<links, items, got>>

\* RAPTOR_LIST_INIT
ListInit ==
    /\ links = [next |-> [i \in {ListHead} \cup Items |-> i], prev |-> [i \in {ListHead} \cup Items |-> i]]
    /\ items = <<>>
    /\ got = <<ListHead, ListHead>>

\* p->next = q and q->prev = p
Link(l, p, q) == [next |-> [l.next EXCEPT ![p] = q], prev |-> [l.prev EXCEPT ![q] = p]]

raptor_list_push_front(l, item) ==
    Link(Link(l, ListHead, item), item, l.next[ListHead])

raptor_list_push_back(l, item) ==
    Link(Link(l, l.prev[ListHead], item), item, ListHead)

\* Popping returns the item; the links of an empty list are left.
raptor_list_pop_front(l) ==
    LET removed == l.next[ListHead]
    IN IF removed = ListHead THEN l ELSE Link(l, ListHead, l.next[removed])

raptor_list_pop_back_one_way(l) ==
    LET removed == l.prev[ListHead]
    IN [l EXCEPT !.prev[ListHead] = l.prev[removed]]
raptor_list_pop_back(l) ==
    LET removed == l.prev[ListHead]
    IN IF removed = ListHead THEN l ELSE Link(l, l.prev[removed], ListHead)

raptor_list_remove_entry(l, item) ==
    IF l.next[item] = item THEN l ELSE Link(l, l.prev[item], l.next[item])

PushItem(item) ==
    /\ ~Contains(items, item)
    /\ \/ links' = raptor_list_push_front(links, item) /\ items' = <<item>> \o items
       \/ links' = raptor_list_push_back(links, item) /\ items' = Append(items, item)
    /\ UNCHANGED got

PopFrontItem ==
    /\ got' = <<links.next[ListHead], IF items = <<>> THEN ListHead ELSE Head(items)>>
    /\ links' = raptor_list_pop_front(links)
    /\ items' = IF items = <<>> THEN items ELSE Tail(items)

PopBackItem ==
    /\ got' = <<links.prev[ListHead], IF items = <<>> THEN ListHead ELSE Last(items)>>
    /\ links' = raptor_list_pop_back(links)
    /\ items' = IF items = <<>> THEN items ELSE Front(items)

RemoveItem(item) ==
    /\ Contains(items, item)
    /\ links' = raptor_list_remove_entry(links, item)
    /\ items' = RemoveFirst(items, item)
    /\ UNCHANGED got

ListNext == PopFrontItem \/ PopBackItem \/ \E i \in Items : PushItem(i) \/ RemoveItem(i)

-----------------------------------------------------------------------------
\* Both chains of pointers run through the items of the list in order, from the
\* head and back to it, and a pop returns the item at its end.
ListIsSequence ==
    LET ring == <<ListHead>> \o items \o <<ListHead>>
    IN /\ got[1] = got[2]
       /\ \A i \in 1 .. Len(ring) - 1 : links.next[ring[i]] = ring[i + 1]
                                      /\ links.prev[ring[i + 1]] = ring[i]
=============================================================================
