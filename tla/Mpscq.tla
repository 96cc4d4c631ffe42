-------------------------------- MODULE Mpscq --------------------------------
(***************************************************************************)
(* MultiProducerSingleConsumerQueue (src/utils/mpscq.cc): an intrusive     *)
(* linked list with a stub node.  Producers run push; the one consumer     *)
(* runs PopAndCheckEnd, which pushes the stub again when it takes the last *)
(* node.  Every load, store and exchange of a shared location is a step.   *)
(* Each has acquire/release order or stronger, and _oldest belongs to the  *)
(* consumer, so interleaving these steps covers what the code can do.      *)
(*                                                                         *)
(* A node popped is deleted by the caller, and its memory may come back as *)
(* the node of a later push.                                               *)
(***************************************************************************)
EXTENDS Naturals, Sequences, SequencesExt

CONSTANTS
    Producers,  \* the threads that push
    Nodes,      \* the memory for nodes
    Stub,       \* _stub
    NULL

ASSUME NodesAssumption == Stub \notin Nodes /\ NULL \notin Nodes \cup {Stub}

Cells == Nodes \cup {Stub}

VARIABLES
    newest,   \* _newest
    oldest,   \* _oldest
    next,     \* Node::next of every cell
    live,     \* the nodes between new and delete
    \* push, per producer
    ppc,      \* "idle", "store", "xchg", "link"
    pnode,    \* node
    pprev,    \* prev
    \* PopAndCheckEnd
    cpc,      \* the consumer's next step
    tail,     \* tail
    sprev,    \* prev in its own push(&_stub)
    empty,    \* *empty as the last call left it
    \* history
    order,    \* the nodes in the queue, in the order of their exchanges
    first     \* the last push whose exchange is done: <<it returned, it was first>>

pushVars == <<ppc, pnode, pprev>>
popVars  == <<cpc, tail, sprev, empty>>
vars == <<newest, oldest, next, live, pushVars, popVars, order, first>>

TypeOK ==
    /\ newest \in Cells
    /\ oldest \in Cells
    /\ next \in [Cells -> Cells \cup {NULL}]
    /\ live \in SUBSET Nodes
    /\ ppc \in [Producers -> {"idle", "store", "xchg", "link"}]
    /\ pnode \in [Producers -> Nodes \cup {NULL}]
    /\ pprev \in [Producers -> Cells \cup {NULL}]
    /\ cpc \in {"idle", "load", "last", "sstore", "sxchg", "slink", "retry"}
    /\ tail \in Cells \cup {NULL}
    /\ sprev \in Cells \cup {NULL}
    /\ empty \in BOOLEAN
    /\ order \in Seq(Nodes)
    /\ first \in BOOLEAN \X BOOLEAN

Init ==
    /\ newest = Stub
    /\ oldest = Stub
    /\ next = [c \in Cells |-> NULL]
    /\ live = {}
    /\ ppc = [p \in Producers |-> "idle"]
    /\ pnode = [p \in Producers |-> NULL]
    /\ pprev = [p \in Producers |-> NULL]
    /\ cpc = "idle"
    /\ tail = NULL
    /\ sprev = NULL
    /\ empty = FALSE
    /\ order = <<>>
    /\ first = <<TRUE, TRUE>>

-----------------------------------------------------------------------------
(* push *)

\* The caller allocates a node; its next is whatever the memory held.
New(p) ==
    /\ ppc[p] = "idle"
    /\ \E n \in Nodes \ live :
          /\ live' = live \cup {n}
          /\ pnode' = [pnode EXCEPT ![p] = n]
    /\ ppc' = [ppc EXCEPT ![p] = "store"]
    /\ UNCHANGED <<newest, oldest, next, pprev, popVars, order, first>>

\* node->next.Store(nullptr)
PushStore(p) ==
    /\ ppc[p] = "store"
    /\ next' = [next EXCEPT ![pnode[p]] = NULL]
    /\ ppc' = [ppc EXCEPT ![p] = "xchg"]
    /\ UNCHANGED <<newest, oldest, live, pnode, pprev, popVars, order, first>>

\* prev = _newest.Exchange(node)
PushExchange(p) ==
    /\ ppc[p] = "xchg"
    /\ pprev' = [pprev EXCEPT ![p] = newest]
    /\ newest' = pnode[p]
    /\ ppc' = [ppc EXCEPT ![p] = "link"]
    /\ order' = Append(order, pnode[p])
    /\ first' = <<newest = Stub, order = <<>> >>
    /\ UNCHANGED <<oldest, next, live, pnode, popVars>>

\* prev->next.Store(node); return prev == &_stub
PushLink(p) ==
    /\ ppc[p] = "link"
    /\ next' = [next EXCEPT ![pprev[p]] = pnode[p]]
    /\ ppc' = [ppc EXCEPT ![p] = "idle"]
    /\ pnode' = [pnode EXCEPT ![p] = NULL]
    /\ pprev' = [pprev EXCEPT ![p] = NULL]
    /\ UNCHANGED <<newest, oldest, live, popVars, order, first>>

-----------------------------------------------------------------------------
(* PopAndCheckEnd *)

\* Return a node, which the caller deletes.
Deliver(n) ==
    /\ order' = RemoveFirst(order, n)
    /\ live' = live \ {n}
    /\ empty' = FALSE
    /\ cpc' = "idle" /\ tail' = NULL /\ sprev' = NULL

\* Return nullptr.
GiveUpEmpty(e) ==
    /\ empty' = TRUE
    /\ cpc' = "idle" /\ tail' = NULL /\ sprev' = NULL
    /\ UNCHANGED <<order, live>>
GiveUp(e) ==
    /\ empty' = e
    /\ cpc' = "idle" /\ tail' = NULL /\ sprev' = NULL
    /\ UNCHANGED <<order, live>>

\* tail is taken out once it has a successor: a producer that exchanged behind
\* it may still have to write its next, so it must not be given away before.
AdvanceEarly(n) == oldest' = (IF next[n] = NULL THEN Stub ELSE next[n]) /\ Deliver(n)
Advance(n) == next[n] # NULL /\ oldest' = next[n] /\ Deliver(n)

\* The first loads.  Behind the stub nothing, and the queue is called empty;
\* otherwise the stub is stepped over.
PopStart ==
    /\ cpc = "idle"
    /\ \/ oldest = Stub /\ next[Stub] = NULL /\ GiveUp(TRUE) /\ UNCHANGED oldest
       \/ /\ oldest = Stub /\ next[Stub] # NULL
          /\ oldest' = next[Stub]
          /\ tail' = next[Stub]
          /\ cpc' = "load"
          /\ UNCHANGED <<sprev, empty, order, live>>
       \/ oldest # Stub /\ Advance(oldest)
       \/ /\ oldest # Stub /\ next[oldest] = NULL
          /\ tail' = oldest
          /\ cpc' = "last"
          /\ UNCHANGED <<oldest, sprev, empty, order, live>>
    /\ UNCHANGED <<newest, next, pushVars, first>>

\* obj = tail->next.Load(), the stub behind.
PopLoad ==
    /\ cpc = "load"
    /\ \/ Advance(tail)
       \/ /\ next[tail] = NULL
          /\ cpc' = "last"
          /\ UNCHANGED <<oldest, tail, sprev, empty, order, live>>
    /\ UNCHANGED <<newest, next, pushVars, first>>

\* head = _newest.Load(): with more behind tail a push is under way.
PopLast ==
    /\ cpc = "last"
    /\ \/ tail # newest /\ GiveUp(FALSE)
       \/ tail = newest /\ cpc' = "sstore" /\ UNCHANGED <<tail, sprev, empty, order, live>>
    /\ UNCHANGED <<newest, oldest, next, pushVars, first>>

\* push(&_stub), its three steps.
StubStoreSkipped ==
    /\ cpc = "sstore"
    /\ cpc' = "sxchg"
    /\ UNCHANGED <<newest, oldest, next, live, pushVars, tail, sprev, empty, order, first>>
StubStore ==
    /\ cpc = "sstore"
    /\ next' = [next EXCEPT ![Stub] = NULL]
    /\ cpc' = "sxchg"
    /\ UNCHANGED <<newest, oldest, live, pushVars, tail, sprev, empty, order, first>>

StubExchange ==
    /\ cpc = "sxchg"
    /\ sprev' = newest
    /\ newest' = Stub
    /\ cpc' = "slink"
    /\ UNCHANGED <<oldest, next, live, pushVars, tail, empty, order, first>>

StubLinkSkipped ==
    /\ cpc = "slink"
    /\ cpc' = "retry"
    /\ UNCHANGED <<newest, oldest, next, live, pushVars, tail, sprev, empty, order, first>>
StubLink ==
    /\ cpc = "slink"
    /\ next' = [next EXCEPT ![sprev] = Stub]
    /\ cpc' = "retry"
    /\ UNCHANGED <<newest, oldest, live, pushVars, tail, sprev, empty, order, first>>

\* obj = tail->next.Load() once more.
PopRetry ==
    /\ cpc = "retry"
    /\ \/ Advance(tail)
       \/ next[tail] = NULL /\ GiveUp(FALSE) /\ UNCHANGED oldest
    /\ UNCHANGED <<newest, next, pushVars, first>>

-----------------------------------------------------------------------------
PushStep(p) == PushStore(p) \/ PushExchange(p) \/ PushLink(p)
PopStep == PopStart \/ PopLoad \/ PopLast \/ StubStore \/ StubExchange \/ StubLink \/ PopRetry

Next == (\E p \in Producers : New(p) \/ PushStep(p)) \/ PopStep

Spec == Init /\ [][Next]_vars

\* A producer inside push finishes it, and the consumer keeps popping.
FairSpec == Spec /\ WF_vars(PopStep) /\ \A p \in Producers : WF_vars(PushStep(p))

-----------------------------------------------------------------------------
(* Properties. *)

\* The queue is a first-in first-out queue of the exchanged nodes: no node is
\* lost, returned twice or overtaken, though pop may find nothing for a while.
Queue == INSTANCE Fifo WITH entries <- order
IsFifo == Queue!Spec

\* A cell a producer is about to link to, or the consumer reads through, is the
\* stub or a node not yet given to the caller, who deletes it.
NoUseAfterDelete ==
    /\ \A p \in Producers : ppc[p] = "link" => pprev[p] \in live \cup {Stub}
    /\ oldest \in live \cup {Stub}
    /\ tail \in live \cup {Stub, NULL}

\* PopAndCheckEnd reports the end only if nothing is in the queue or the push of
\* the first node in it has not reached its last step: once the producers are
\* through, a drain loop that stops at empty has deleted every node.
EmptyIsHonest ==
    [][PopStep /\ cpc' = "idle" /\ empty' =>
            \/ order = <<>>
            \/ \E p \in Producers : ppc[p] = "link" /\ pnode[p] = Head(order)]_vars

\* ~MultiProducerSingleConsumerQueue asserts _newest == _oldest == &_stub: it
\* holds between calls of an emptied queue that no producer is in.
DrainedIsStub ==
    cpc = "idle" /\ order = <<>> /\ (\A p \in Producers : ppc[p] # "link")
        => newest = Stub /\ oldest = Stub

\* A push into an empty queue always reports that it is the first element (the
\* converse does not hold: the stub may sit behind a node still in the queue).
FirstIsReported == first[2] => first[1]

\* The node pop is about to return is the one exchanged first of those not yet
\* returned: none is returned twice or before its turn.
ReturnsHead ==
    /\ oldest # Stub => order # <<>> /\ oldest = Head(order)
    /\ tail # NULL => order # <<>> /\ tail = Head(order)

\* A node whose exchange is done is popped in the end.
EveryNodePopped == \A n \in Nodes : Contains(order, n) ~> ~Contains(order, n)

\* The five together: the nodes stay what their users take them for.
NodesSafe == TypeOK /\ NoUseAfterDelete /\ DrainedIsStub /\ FirstIsReported /\ ReturnsHead
=============================================================================
