----------------------------- MODULE RefCounts ------------------------------
(***************************************************************************)
(* The two kinds of counted handles: Slice with SliceRefCount              *)
(* (src/utils/slice.cc) and RefCountedPtr with RefCounted                  *)
(* (ref_counted_ptr.h, ref_counted.h).  Each operation on a handle is a    *)
(* short program of atomic steps (count up, count down, write the          *)
(* pointer), and the programs of several threads interleave.               *)
(***************************************************************************)
EXTENDS Integers, Sequences, FiniteSets

CONSTANTS Threads, Handles, Blocks, NULL

\* The first handle has an owner; threads, handles and blocks are told apart.
ASSUME RefsAssumption ==
    /\ IsFiniteSet(Handles) /\ IsFiniteSet(Threads)
    /\ Threads # {} /\ Threads \cap Handles = {}
    /\ NULL \notin Blocks

VARIABLES
    ref,     \* per handle, _refs or _value: a block or NULL
    count,   \* per block, its counter; 0: free memory
    owner,   \* per handle, the thread that uses it
    prog     \* per thread, the rest of its operation

refVars == <<ref, count, owner, prog>>

RefTypeOK ==
    /\ ref \in [Handles -> Blocks \cup {NULL}]
    /\ count \in [Blocks -> 0 .. Cardinality(Handles) + Cardinality(Threads)]
    /\ owner \in [Handles -> Threads]

RefInit ==
    /\ ref = [h \in Handles |-> NULL]
    /\ count = [b \in Blocks |-> 0]
    /\ owner = [h \in Handles |-> CHOOSE t \in Threads : TRUE]
    /\ prog = [t \in Threads |-> <<>>]

-----------------------------------------------------------------------------
(* The steps.  Nothing is counted for a null pointer.                       *)

Inc(b) == IF b = NULL THEN <<>> ELSE <<[do |-> "inc", block |-> b]>>
Dec(b) == IF b = NULL THEN <<>> ELSE <<[do |-> "dec", block |-> b]>>
Set(h, b) == <<[do |-> "set", handle |-> h, block |-> b]>>

\* AddRef, DecRef; IncrementRefCount, Unref: the last one frees the block.
AddRef(b) == count' = [count EXCEPT ![b] = @ + 1]
DecRef(b) == count' = [count EXCEPT ![b] = @ - 1]

-----------------------------------------------------------------------------
(* Slice                                                                    *)

SliceCopy(h, g) == Inc(ref[g]) \o Set(h, ref[g])
SliceAssign(h, g) == IF h = g THEN <<>> ELSE Dec(ref[h]) \o Inc(ref[g]) \o Set(h, ref[g])
\* std::move of a raw pointer leaves it: the source stays a counted handle.
SliceMove(h, g) == Inc(ref[g]) \o Set(h, ref[g])
SliceMoveAssign(h, g) == IF h = g THEN <<>> ELSE Inc(ref[g]) \o Dec(ref[h]) \o Set(h, ref[g])
SliceDestroy(h) == Dec(ref[h]) \o Set(h, NULL)

(* RefCountedPtr                                                            *)

PtrReset(h, b) == Dec(ref[h]) \o Set(h, b)
PtrCopy(h, g) == Inc(ref[g]) \o Set(h, ref[g])
PtrMove(h, g) == Set(h, ref[g]) \o Set(g, NULL)
\* The order matters when both point to the same object.
PtrAssignResetFirst(h, g) == PtrReset(h, ref[g]) \o Inc(ref[g])
PtrAssign(h, g) == Inc(ref[g]) \o PtrReset(h, ref[g])
PtrMoveAssign(h, g) == PtrReset(h, ref[g]) \o Set(g, NULL)
PtrSwap(h, g) == Set(h, ref[g]) \o Set(g, ref[h])
PtrDestroy(h) == Dec(ref[h]) \o Set(h, NULL)

-----------------------------------------------------------------------------
Idle(t) == prog[t] = <<>>

\* A new Slice longer than SLICE_INLINED_SIZE, or MakeRefCounted, into a handle
\* that is not in use: the counter starts at 1.
New(t, h) ==
    /\ Idle(t) /\ owner[h] = t /\ ref[h] = NULL
    /\ \E b \in Blocks :
        /\ count[b] = 0
        /\ count' = [count EXCEPT ![b] = 1]
        /\ ref' = [ref EXCEPT ![h] = b]
    /\ UNCHANGED <<owner, prog>>

\* The programs for the handles h and g; a constructor's h is not in use.
Operations(h, g) ==
    {SliceAssign(h, g), SliceMoveAssign(h, g), SliceDestroy(h),
     PtrAssign(h, g), PtrMoveAssign(h, g), PtrSwap(h, g), PtrDestroy(h)} \cup
    (IF ref[h] = NULL /\ h # g
     THEN {SliceCopy(h, g), SliceMove(h, g), PtrCopy(h, g), PtrMove(h, g)}
     ELSE {})

Begin(t, h, g) ==
    /\ Idle(t) /\ owner[h] = t /\ owner[g] = t
    /\ \E p \in Operations(h, g) : prog' = [prog EXCEPT ![t] = p]
    /\ UNCHANGED <<ref, count, owner>>

Step(t) ==
    /\ prog[t] # <<>>
    /\ LET s == Head(prog[t])
       IN \/ s.do = "inc" /\ AddRef(s.block) /\ UNCHANGED ref
          \/ s.do = "dec" /\ DecRef(s.block) /\ UNCHANGED ref
          \/ s.do = "set" /\ ref' = [ref EXCEPT ![s.handle] = s.block] /\ UNCHANGED count
    /\ prog' = [prog EXCEPT ![t] = Tail(@)]
    /\ UNCHANGED owner

\* A handle is passed on to another thread, in a queue or a callback.
HandOver(t, h) ==
    /\ Idle(t) /\ owner[h] = t
    /\ \E u \in Threads \ {t} : owner' = [owner EXCEPT ![h] = u]
    /\ UNCHANGED <<ref, count, prog>>

RefNext ==
    \E t \in Threads :
        \/ Step(t)
        \/ \E h \in Handles : New(t, h) \/ HandOver(t, h) \/ \E g \in Handles : Begin(t, h, g)

-----------------------------------------------------------------------------
(* Properties.                                                              *)

\* No thread counts a block that has been freed, in any order of the steps of
\* operator= and the destructors (Unref and DecRef free it at the last one).
CountsLiveBlocks ==
    \A t \in Threads : prog[t] # <<>> /\ Head(prog[t]).do # "set" => count[Head(prog[t]).block] > 0

\* Between operations every counter is the number of handles on its block: no
\* handle dangles, and no block without a handle stays allocated.
RefsExact ==
    (\A t \in Threads : Idle(t)) =>
        \A b \in Blocks : count[b] = Cardinality({h \in Handles : ref[h] = b})
=============================================================================
