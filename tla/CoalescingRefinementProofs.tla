--------------------- MODULE CoalescingRefinementProofs ---------------------
(***************************************************************************)
(* SenderQueue implements the abstract coalescing queue: under the        *)
(* mapping of SenderQueue's Coalescing instance, every step of the code   *)
(* is a step of CoalescingQueue or leaves its variables alone.  The       *)
(* argument rests on DedupInv: with no two queued messages for one target *)
(* the single erase of deduplicate() removes every superseded message.    *)
(***************************************************************************)
EXTENDS SenderQueueProofs

\* The abstract entry of a concrete one.
Strip(e) == [seq |-> e.seq, msg |-> e.msg]

(***************************************************************************)
(* The mapping commutes with the sequence operations the code uses.       *)
(***************************************************************************)
LEMMA AbsViewAppend ==
    ASSUME NEW s \in Seq(Entry), NEW e
    PROVE  AbsView(Append(s, e)) = Append(AbsView(s), Strip(e))
BY AppendProperties DEF AbsView, Strip

LEMMA AbsViewHeadTail ==
    ASSUME NEW s \in Seq(Entry), s # << >>
    PROVE  /\ AbsView(s) # << >>
           /\ Head(AbsView(s)) = Strip(Head(s))
           /\ AbsView(Tail(s)) = Tail(AbsView(s))
<1>1. Len(s) >= 1 /\ Len(Tail(s)) = Len(s) - 1
      /\ \A k \in 1..Len(Tail(s)) : Tail(s)[k] = s[k + 1]
    BY HeadTailProperties, EmptySeq
<1>2. AbsView(s) # << >>
    BY <1>1 DEF AbsView
<1>3. Head(AbsView(s)) = Strip(Head(s))
    BY <1>1 DEF AbsView, Strip
<1>4. AbsView(Tail(s)) = Tail(AbsView(s))
    BY <1>1 DEF AbsView
<1>5. QED
    BY <1>2, <1>3, <1>4

(***************************************************************************)
(* An enqueue() that returns is an abstract Put: the queue it leaves is    *)
(* the abstract queue with the superseded entries removed, in order, and  *)
(* the new entry appended.                                                *)
(***************************************************************************)
LEMMA PutRefined ==
    ASSUME NEW q \in Seq(Entry), NoDupSeq(q), CachedSeq(q),
           NEW m \in Payloads, NEW c \in Nat,
           m.cmd = "invalidateviewcursor:" => m.view # NoView
    PROVE  \E n \in 0..Len(AbsView(q)) :
              \E f \in [1..n -> Coalescing!Kept(AbsView(q), m)] :
                 /\ Coalescing!Enumerates(f, n, Coalescing!Kept(AbsView(q), m))
                 /\ AbsView(Append(Deduplicate(q, NewItem(m, c + 1)),
                                   NewItem(m, c + 1)))
                      = Append([k \in 1..n |-> AbsView(q)[f[k]]],
                               [seq |-> c + 1, msg |-> m])
<1> DEFINE new == NewItem(m, c + 1)
           A == AbsView(q)
           K == Coalescing!Kept(A, m)
           D == Deduplicate(q, new)
<1>1. Len(A) = Len(q) /\ \A k \in 1..Len(q) : A[k] = Strip(q[k])
    BY DEF AbsView, Strip
<1>2. K = {k \in 1..Len(q) : ~SameTarget(m, q[k].msg)}
    <2>1. \A k \in 1..Len(q) : A[k].msg = q[k].msg
        BY DEF AbsView
    <2>2. QED
        BY <1>1, <2>1 DEF Coalescing!Kept
<1>3. AbsView(Append(D, new)) = Append(AbsView(D), [seq |-> c + 1, msg |-> m])
    <2>1. D \in Seq(Entry)
        BY DeduplicateType
    <2>2. Strip(new) = [seq |-> c + 1, msg |-> m]
        BY DEF NewItem, Strip
    <2>3. QED
        BY <2>1, <2>2, AbsViewAppend
<1>4. CASE /\ \A i \in 1..Len(q) : ~SameTarget(m, q[i].msg)
           /\ D = q
    <2> DEFINE f == [k \in 1..Len(q) |-> k]
    <2>1. K = 1..Len(q)
        BY <1>2, <1>4
    <2>2. f \in [1..Len(q) -> K] /\ Coalescing!Enumerates(f, Len(q), K)
        BY <2>1 DEF Coalescing!Enumerates
    <2>3. AbsView(D) = [k \in 1..Len(q) |-> A[f[k]]]
        BY <1>4 DEF AbsView
    <2>4. Len(q) \in 0..Len(A)
        BY <1>1
    <2>5. AbsView(Append(D, new))
            = Append([k \in 1..Len(q) |-> A[f[k]]], [seq |-> c + 1, msg |-> m])
        BY <1>3, <2>3
    <2>6. QED
        BY <2>2, <2>4, <2>5, Zenon
<1>5. ASSUME NEW p \in 1..Len(q),
             SameTarget(m, q[p].msg),
             \A j \in 1..Len(q) : j # p => ~SameTarget(m, q[j].msg),
             D = EraseAt(q, p)
      PROVE  \E n \in 0..Len(A) : \E f \in [1..n -> K] :
                /\ Coalescing!Enumerates(f, n, K)
                /\ AbsView(Append(D, new))
                     = Append([k \in 1..n |-> A[f[k]]], [seq |-> c + 1, msg |-> m])
    <2> DEFINE f == [k \in 1..(Len(q) - 1) |-> IF k < p THEN k ELSE k + 1]
    <2>1. K = (1..Len(q)) \ {p}
        BY <1>2, <1>5
    <2>2. f \in [1..(Len(q) - 1) -> K]
        BY <2>1
    <2>3. Coalescing!Enumerates(f, Len(q) - 1, K)
        <3>1. \A k, l \in 1..(Len(q) - 1) : k < l => f[k] < f[l]
            OBVIOUS
        <3>2. \A j \in K : \E k \in 1..(Len(q) - 1) : f[k] = j
            <4> SUFFICES ASSUME NEW j \in K
                         PROVE  \E k \in 1..(Len(q) - 1) : f[k] = j
                OBVIOUS
            <4>1. j \in 1..Len(q) /\ j # p
                BY <2>1
            <4>2. (IF j < p THEN j ELSE j - 1) \in 1..(Len(q) - 1)
                  /\ f[IF j < p THEN j ELSE j - 1] = j
                BY <4>1
            <4>3. QED
                BY <4>2
        <3>3. QED
            BY <3>1, <3>2 DEF Coalescing!Enumerates
    <2>4. AbsView(D) = [k \in 1..(Len(q) - 1) |-> A[f[k]]]
        <3>1. Len(EraseAt(q, p)) = Len(q) - 1
              /\ \A k \in 1..(Len(q) - 1) :
                    EraseAt(q, p)[k] = q[IF k < p THEN k ELSE k + 1]
            BY EraseKeepsNoDup
        <3>2. \A k \in 1..(Len(q) - 1) : f[k] \in 1..Len(q)
            OBVIOUS
        <3>3. QED
            BY <1>1, <1>5, <3>1, <3>2 DEF AbsView, Strip
    <2>5. Len(q) - 1 \in 0..Len(A)
        BY <1>1
    <2>6. AbsView(Append(D, new))
            = Append([k \in 1..(Len(q) - 1) |-> A[f[k]]], [seq |-> c + 1, msg |-> m])
        BY <1>3, <2>4
    <2>7. QED
        BY <2>2, <2>3, <2>5, <2>6, Zenon
<1>6. QED
    BY <1>4, <1>5, DeduplicateErasesTarget


\* The initial state maps to the abstract initial state.
LEMMA RefineInit == Init => Coalescing!AbsInit
BY DEF Init, Coalescing!AbsInit, AbsView

(***************************************************************************)
(* Every step maps to an abstract step or a stutter: a returning enqueue() *)
(* is Put, a dropped or thrown one is Refuse, the locked pop is Take, and  *)
(* the flag check, the empty return and setting the flag change nothing   *)
(* the abstract queue sees.                                               *)
(***************************************************************************)
LEMMA RefineStep ==
    DedupInv /\ [Next]_vars => [Coalescing!AbsNext]_Coalescing!avars
<1> SUFFICES ASSUME DedupInv, [Next]_vars
             PROVE  [Coalescing!AbsNext]_Coalescing!avars
    OBVIOUS
<1>1. /\ queue \in Seq(Entry) /\ NoDupSeq(queue) /\ CachedSeq(queue)
      /\ calls \in Seq(Call) /\ Len(calls) <= MaxCalls
      /\ delivered \in Seq(Entry)
    BY DEF DedupInv, TypeOK, NoDupSeq, CachedSeq, HashCached, NoDuplicateTargets
<1>2. ASSUME NEW m \in Payloads, Enqueue(m)
      PROVE  Coalescing!Put(m)
    <2> DEFINE c == Len(calls)
    <2>1. c \in Nat /\ c < MaxCalls
        BY <1>1, <1>2 DEF Enqueue
    <2>2. m.cmd = "invalidateviewcursor:" => m.view # NoView
        BY <1>2 DEF Enqueue, ParseThrows, NewItem
    <2>3. queue' = Append(Deduplicate(queue, NewItem(m, c + 1)), NewItem(m, c + 1))
        BY <1>2 DEF Enqueue
    <2>4. Len(calls') = c + 1 /\ delivered' = delivered
        BY <1>1, <1>2, AppendProperties DEF Enqueue
    <2>5. QED
        BY <1>1, <2>1, <2>2, <2>3, <2>4, PutRefined DEF Coalescing!Put
<1>3. ASSUME NEW m \in Payloads, EnqueueDropped(m) \/ EnqueueThrows(m)
      PROVE  Coalescing!Refuse(m)
    <2>1. Len(calls) < MaxCalls /\ queue' = queue /\ delivered' = delivered
          /\ calls' = Append(calls, [msg |-> m, outcome |-> IF term THEN "dropped" ELSE "threw"])
        BY <1>3 DEF EnqueueDropped, EnqueueThrows
    <2>2. QED
        BY <1>1, <2>1, AppendProperties DEF Coalescing!Refuse
<1>4. ASSUME DequeuePop PROVE Coalescing!Take
    <2>1. queue # << >> /\ delivered' = Append(delivered, Head(queue))
          /\ queue' = Tail(queue) /\ calls' = calls
        BY <1>4 DEF DequeuePop
    <2>2. AbsView(delivered') = Append(AbsView(delivered), Strip(Head(queue)))
        BY <1>1, <2>1, AbsViewAppend
    <2>3. QED
        BY <1>1, <2>1, <2>2, AbsViewHeadTail DEF Coalescing!Take
<1>5. CASE DequeueCheck \/ DequeueEmpty \/ SetTerminationFlag \/ UNCHANGED vars
    <2>1. queue' = queue /\ delivered' = delivered /\ calls' = calls
        BY <1>5 DEF DequeueCheck, DequeueEmpty, SetTerminationFlag, vars
    <2>2. QED
        BY <2>1 DEF Coalescing!avars
<1>6. QED
    BY <1>2, <1>3, <1>4, <1>5 DEF Next, Consume, Coalescing!AbsNext

(***************************************************************************)
(* Spec sections 3 and 4.2, for every instance: SenderQueue implements    *)
(* the abstract coalescing queue.  Every enqueue() leaves the queue alone *)
(* or removes exactly the messages the new one supersedes and appends it, *)
(* and dequeue() takes the head; the hash gate, the per-command find_if   *)
(* and the single erase add nothing a caller can see.                     *)
(***************************************************************************)
THEOREM CoalescingRefinementHolds == Spec => CoalescingRefinement
<1>1. DedupInv /\ DedupInv' /\ [Next]_vars => [Coalescing!AbsNext]_Coalescing!avars
    BY RefineStep
<1>2. QED
    BY RefineInit, DedupInit, DedupStep, <1>1, PTL
       DEF Spec, CoalescingRefinement, Coalescing!AbsSpec

=============================================================================
