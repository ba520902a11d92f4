------------------------- MODULE SenderQueueProofs -------------------------
(***************************************************************************)
(* Proofs about SenderQueue that hold for every value of the constants.   *)
(***************************************************************************)
EXTENDS SenderQueue, SequenceTheorems, TLAPS

(***************************************************************************)
(* Erasing any position of a non-empty sequence leaves a sequence of the  *)
(* same element type (the code's erase(pos) keeps the deque's type).      *)
(***************************************************************************)
LEMMA EraseAtType ==
    ASSUME NEW S, NEW q \in Seq(S), Len(q) >= 1, NEW i
    PROVE  EraseAt(q, i) \in Seq(S)
BY DEF EraseAt

(***************************************************************************)
(* deduplicate() leaves a queue of items.                                  *)
(***************************************************************************)
LEMMA DeduplicateType ==
    ASSUME NEW S, NEW q \in Seq(S), NEW new
    PROVE  Deduplicate(q, new) \in Seq(S)
<1>1. CASE \E i \in 1..Len(q) : Matches(new, q[i])
    <2>1. Len(q) >= 1
        BY <1>1
    <2>2. QED
        BY <2>1, EraseAtType DEF Deduplicate, FindIf
<1>2. CASE ~\E i \in 1..Len(q) : Matches(new, q[i])
    BY <1>2 DEF Deduplicate, FindIf
<1>3. QED
    BY <1>1, <1>2

\* The item an enqueue call builds is a queue entry.
LEMMA NewItemType ==
    ASSUME NEW m \in Payloads, NEW n \in 1..MaxCalls
    PROVE  NewItem(m, n) \in Entry
BY PayloadAssumption, HashAssumption DEF NewItem, Entry, Message

\* The initial state and every step respect the type invariant.
LEMMA TypeInit == Init => TypeOK
<1> SUFFICES ASSUME Init PROVE TypeOK
    OBVIOUS
<1>1. queue \in Seq(Entry) /\ delivered \in Seq(Entry)
    BY EmptySeq DEF Init
<1>2. calls \in Seq(Call) /\ Len(calls) <= MaxCalls
    BY EmptySeq, BoundAssumption DEF Init
<1>3. term \in BOOLEAN /\ consPc \in {"idle", "checked"}
    BY DEF Init
<1>4. lateDelivered \in Nat
    BY DEF Init
<1>5. QED
    BY <1>1, <1>2, <1>3, <1>4 DEF TypeOK

LEMMA TypeStep == TypeOK /\ [Next]_vars => TypeOK'
<1> SUFFICES ASSUME TypeOK, [Next]_vars PROVE TypeOK'
    OBVIOUS
<1>1. ASSUME NEW m \in Payloads, EnqueueDropped(m) PROVE TypeOK'
    BY <1>1, BoundAssumption DEF EnqueueDropped, TypeOK, Call, Outcomes
<1>2. ASSUME NEW m \in Payloads, EnqueueThrows(m) PROVE TypeOK'
    BY <1>2, BoundAssumption DEF EnqueueThrows, TypeOK, Call, Outcomes
<1>3. ASSUME NEW m \in Payloads, Enqueue(m) PROVE TypeOK'
    <2> DEFINE new == NewItem(m, Len(calls) + 1)
    <2>1. Len(calls) + 1 \in 1..MaxCalls
        BY <1>3, BoundAssumption DEF Enqueue, TypeOK
    <2>2. new \in Entry
        BY <2>1, NewItemType
    <2>3. Deduplicate(queue, new) \in Seq(Entry)
        BY DeduplicateType DEF TypeOK
    <2>4. queue' \in Seq(Entry)
        BY <1>3, <2>2, <2>3 DEF Enqueue
    <2>5. QED
        BY <1>3, <2>4, BoundAssumption DEF Enqueue, TypeOK, Call, Outcomes
<1>4. CASE DequeueCheck
    BY <1>4 DEF DequeueCheck, TypeOK
<1>5. CASE DequeuePop
    <2>1. Head(queue) \in Entry /\ Tail(queue) \in Seq(Entry)
        BY <1>5, HeadTailProperties DEF DequeuePop, TypeOK
    <2>2. QED
        BY <1>5, <2>1 DEF DequeuePop, TypeOK
<1>6. CASE DequeueEmpty
    BY <1>6 DEF DequeueEmpty, TypeOK
<1>7. CASE SetTerminationFlag
    BY <1>7 DEF SetTerminationFlag, TypeOK
<1>8. CASE UNCHANGED vars
    BY <1>8 DEF vars, TypeOK
<1>9. QED
    BY <1>1, <1>2, <1>3, <1>4, <1>5, <1>6, <1>7, <1>8 DEF Next, Consume

(***************************************************************************)
(* The type invariant: every reachable state gives each variable the      *)
(* shape the code gives it.                                                *)
(***************************************************************************)
THEOREM TypeCorrect == Spec => []TypeOK
BY TypeInit, TypeStep, PTL DEF Spec


-----------------------------------------------------------------------------
(***************************************************************************)
(* No two queued messages for the same target.                            *)
(***************************************************************************)
\* The two conjuncts of DedupInv over the queue, stated for any sequence.
NoDupSeq(q) ==
    \A i, j \in 1..Len(q) : i < j => ~SameTarget(q[i].msg, q[j].msg)

CachedSeq(q) ==
    \A i \in 1..Len(q) :
        q[i].msg.cmd = "tile:" => q[i].hash = TileHash[q[i].msg.tile]

\* "Same target" is symmetric and transitive.
LEMMA SameTargetSymmetric ==
    ASSUME NEW a, NEW b, SameTarget(a, b)
    PROVE  SameTarget(b, a)
BY DEF SameTarget, Coalescible

LEMMA SameTargetTransitive ==
    ASSUME NEW a, NEW b, NEW c, SameTarget(a, b), SameTarget(a, c)
    PROVE  SameTarget(b, c)
BY DEF SameTarget, Coalescible

(***************************************************************************)
(* The find_if predicate of deduplicate() is exactly the spec's "same     *)
(* target" on a queued item whose cached hash is right, for an incoming   *)
(* item that Poco parsed.                                                  *)
(***************************************************************************)
LEMMA MatchesIsSameTarget ==
    ASSUME NEW m \in Payloads, NEW n, NEW cur \in Entry,
           m.cmd = "invalidateviewcursor:" => m.view # NoView,
           cur.msg.cmd = "tile:" => cur.hash = TileHash[cur.msg.tile]
    PROVE  Matches(NewItem(m, n), cur) <=> SameTarget(m, cur.msg)
<1> DEFINE new == NewItem(m, n)
<1>1. m \in Message /\ cur.msg \in Message
    BY PayloadAssumption DEF Entry
<1>2. new.msg = m /\ new.hash = IF m.cmd = "tile:" THEN TileHash[m.tile] ELSE NoHash
    BY DEF NewItem
<1>3. CASE m.cmd = "tile:"
    BY <1>1, <1>2, <1>3
       DEF Matches, TileMatches, SameTarget, Coalescible, Message
<1>4. CASE m.cmd \in {"invalidatecursor:", "setpart:"}
    BY <1>1, <1>2, <1>4
       DEF Matches, SameCommandMatches, SameTarget, Coalescible, Message
<1>5. CASE m.cmd = "progress:"
    BY <1>1, <1>2, <1>5
       DEF Matches, ProgressMatches, SameTarget, Coalescible, Message
<1>6. CASE m.cmd = "invalidateviewcursor:"
    BY <1>1, <1>2, <1>6
       DEF Matches, ViewCursorMatches, SameTarget, Coalescible, Message
<1>7. CASE m.cmd = "other:"
    BY <1>1, <1>2, <1>7 DEF Matches, SameTarget, Coalescible, Message
<1>8. QED
    BY <1>1, <1>3, <1>4, <1>5, <1>6, <1>7 DEF Message, Commands


\* Appending an item that has no target in common with the queue.
LEMMA AppendKeepsNoDup ==
    ASSUME NEW d \in Seq(Entry), NoDupSeq(d), CachedSeq(d),
           NEW new \in Entry,
           new.msg.cmd = "tile:" => new.hash = TileHash[new.msg.tile],
           \A k \in 1..Len(d) : ~SameTarget(d[k].msg, new.msg)
    PROVE  NoDupSeq(Append(d, new)) /\ CachedSeq(Append(d, new))
<1> DEFINE r == Append(d, new)
<1>1. Len(r) = Len(d) + 1
      /\ \A k \in 1..Len(d) : r[k] = d[k]
      /\ r[Len(d) + 1] = new
    BY AppendProperties
<1>2. NoDupSeq(r)
    BY <1>1 DEF NoDupSeq
<1>3. CachedSeq(r)
    BY <1>1 DEF CachedSeq
<1>4. QED
    BY <1>2, <1>3

\* Erasing one item keeps the rest in order, so keeps both properties.
LEMMA EraseKeepsNoDup ==
    ASSUME NEW q \in Seq(Entry), NoDupSeq(q), CachedSeq(q),
           NEW p \in 1..Len(q)
    PROVE  /\ EraseAt(q, p) \in Seq(Entry)
           /\ Len(EraseAt(q, p)) = Len(q) - 1
           /\ \A k \in 1..Len(EraseAt(q, p)) :
                 EraseAt(q, p)[k] = q[IF k < p THEN k ELSE k + 1]
           /\ NoDupSeq(EraseAt(q, p))
           /\ CachedSeq(EraseAt(q, p))
<1> DEFINE d == EraseAt(q, p)
<1>1. d \in Seq(Entry)
    BY EraseAtType
<1>2. Len(d) = Len(q) - 1
      /\ \A k \in 1..Len(d) : d[k] = q[IF k < p THEN k ELSE k + 1]
    BY DEF EraseAt
<1>3. NoDupSeq(d)
    <2> SUFFICES ASSUME NEW i \in 1..Len(d), NEW j \in 1..Len(d), i < j
                 PROVE  ~SameTarget(d[i].msg, d[j].msg)
        BY DEF NoDupSeq
    <2>1. /\ (IF i < p THEN i ELSE i + 1) \in 1..Len(q)
          /\ (IF j < p THEN j ELSE j + 1) \in 1..Len(q)
          /\ (IF i < p THEN i ELSE i + 1) < (IF j < p THEN j ELSE j + 1)
        BY <1>2
    <2>2. QED
        BY <1>2, <2>1 DEF NoDupSeq
<1>4. CachedSeq(d)
    BY <1>2 DEF CachedSeq
<1>5. QED
    BY <1>1, <1>2, <1>3, <1>4

(***************************************************************************)
(* One enqueue() that returns keeps the queue free of duplicates: by      *)
(* NoDupSeq at most one queued item has the new item's target, find_if   *)
(* finds it because its cached hash is right, and erase() removes it      *)
(* before push_back().                                                    *)
(***************************************************************************)
LEMMA EnqueueKeepsNoDup ==
    ASSUME NEW q \in Seq(Entry), NoDupSeq(q), CachedSeq(q),
           NEW m \in Payloads, NEW n \in 1..MaxCalls,
           m.cmd = "invalidateviewcursor:" => m.view # NoView
    PROVE  /\ NoDupSeq(Append(Deduplicate(q, NewItem(m, n)), NewItem(m, n)))
           /\ CachedSeq(Append(Deduplicate(q, NewItem(m, n)), NewItem(m, n)))
<1> DEFINE new == NewItem(m, n)
<1>1. new \in Entry
    BY NewItemType
<1>2. new.msg = m
      /\ (new.msg.cmd = "tile:" => new.hash = TileHash[new.msg.tile])
    BY DEF NewItem
<1>3. \A i \in 1..Len(q) : Matches(new, q[i]) <=> SameTarget(m, q[i].msg)
    BY MatchesIsSameTarget DEF CachedSeq
<1>4. CASE ~\E i \in 1..Len(q) : Matches(new, q[i])
    <2>1. Deduplicate(q, new) = q
        BY <1>4 DEF Deduplicate, FindIf
    <2>2. \A k \in 1..Len(q) : ~SameTarget(q[k].msg, new.msg)
        BY <1>2, <1>3, <1>4, SameTargetSymmetric
    <2>3. QED
        BY <1>1, <1>2, <2>1, <2>2, AppendKeepsNoDup
<1>5. CASE \E i \in 1..Len(q) : Matches(new, q[i])
    <2>1. PICK p \in 1..Len(q) : Matches(new, q[p])
        BY <1>5
    <2>2. \A j \in 1..Len(q) : j # p => ~Matches(new, q[j])
        <3> SUFFICES ASSUME NEW j \in 1..Len(q), j # p, Matches(new, q[j])
                     PROVE  FALSE
            OBVIOUS
        <3>1. SameTarget(m, q[j].msg) /\ SameTarget(m, q[p].msg)
            BY <1>3, <2>1
        <3>2. SameTarget(q[j].msg, q[p].msg) /\ SameTarget(q[p].msg, q[j].msg)
            BY <3>1, SameTargetTransitive
        <3>3. QED
            BY <3>2 DEF NoDupSeq
    <2>3. FindIf(q, new) = p
        <3>1. \A i \in 1..Len(q) :
                 (Matches(new, q[i]) /\ \A j \in 1..(i - 1) : ~Matches(new, q[j]))
                     <=> i = p
            BY <2>1, <2>2
        <3>2. QED
            BY <1>5, <3>1 DEF FindIf
    <2>4. Deduplicate(q, new) = EraseAt(q, p)
        BY <2>3 DEF Deduplicate
    <2>5. \A k \in 1..Len(EraseAt(q, p)) : ~SameTarget(EraseAt(q, p)[k].msg, new.msg)
        <3> SUFFICES ASSUME NEW k \in 1..Len(EraseAt(q, p))
                     PROVE  ~SameTarget(EraseAt(q, p)[k].msg, new.msg)
            OBVIOUS
        <3>1. /\ (IF k < p THEN k ELSE k + 1) \in 1..Len(q)
              /\ (IF k < p THEN k ELSE k + 1) # p
              /\ EraseAt(q, p)[k] = q[IF k < p THEN k ELSE k + 1]
            BY EraseKeepsNoDup
        <3>2. ~SameTarget(m, EraseAt(q, p)[k].msg)
            BY <3>1, <2>2, <1>3
        <3>3. QED
            BY <3>2, <1>2, SameTargetSymmetric
    <2>6. QED
        BY <1>1, <1>2, <2>4, <2>5, EraseKeepsNoDup, AppendKeepsNoDup
<1>6. QED
    BY <1>4, <1>5


\* Taking the head keeps the rest in order.
LEMMA TailKeepsNoDup ==
    ASSUME NEW q \in Seq(Entry), q # << >>, NoDupSeq(q), CachedSeq(q)
    PROVE  NoDupSeq(Tail(q)) /\ CachedSeq(Tail(q))
<1>1. Len(Tail(q)) = Len(q) - 1 /\ \A k \in 1..Len(Tail(q)) : Tail(q)[k] = q[k + 1]
    BY HeadTailProperties
<1>2. QED
    BY <1>1 DEF NoDupSeq, CachedSeq

\* DedupInv is inductive.
LEMMA DedupInit == Init => DedupInv
BY TypeInit DEF Init, DedupInv, HashCached, NoDuplicateTargets

LEMMA DedupStep == DedupInv /\ [Next]_vars => DedupInv'
<1> SUFFICES ASSUME DedupInv, [Next]_vars PROVE DedupInv'
    OBVIOUS
<1>1. TypeOK'
    BY TypeStep DEF DedupInv
<1>2. NoDupSeq(queue) /\ CachedSeq(queue) /\ queue \in Seq(Entry)
    BY DEF DedupInv, NoDupSeq, CachedSeq, HashCached, NoDuplicateTargets, TypeOK
<1>3. NoDupSeq(queue') /\ CachedSeq(queue') => DedupInv'
    BY <1>1 DEF DedupInv, NoDupSeq, CachedSeq, HashCached, NoDuplicateTargets
<1>4. ASSUME NEW m \in Payloads, Enqueue(m)
      PROVE  NoDupSeq(queue') /\ CachedSeq(queue')
    <2> DEFINE n == Len(calls) + 1
    <2>1. n \in 1..MaxCalls
        BY <1>4, BoundAssumption DEF Enqueue, DedupInv, TypeOK
    <2>2. m.cmd = "invalidateviewcursor:" => m.view # NoView
        BY <1>4 DEF Enqueue, ParseThrows, NewItem
    <2>3. queue' = Append(Deduplicate(queue, NewItem(m, n)), NewItem(m, n))
        BY <1>4 DEF Enqueue
    <2>4. QED
        BY <1>2, <2>1, <2>2, <2>3, EnqueueKeepsNoDup
<1>5. ASSUME DequeuePop PROVE NoDupSeq(queue') /\ CachedSeq(queue')
    BY <1>2, <1>5, TailKeepsNoDup DEF DequeuePop
<1>6. ASSUME NEW m \in Payloads, EnqueueDropped(m) \/ EnqueueThrows(m)
      PROVE  queue' = queue
    BY <1>6 DEF EnqueueDropped, EnqueueThrows
<1>7. ASSUME DequeueCheck \/ DequeueEmpty \/ SetTerminationFlag \/ UNCHANGED vars
      PROVE  queue' = queue
    BY <1>7 DEF DequeueCheck, DequeueEmpty, SetTerminationFlag, vars
<1>8. QED
    BY <1>2, <1>3, <1>4, <1>5, <1>6, <1>7 DEF Next, Consume

(***************************************************************************)
(* What deduplicate() does, in the spec's terms: under NoDupSeq and       *)
(* CachedSeq, either no queued message has the new one's target and the  *)
(* queue is kept, or exactly one has and it is erased.                    *)
(***************************************************************************)
LEMMA DeduplicateErasesTarget ==
    ASSUME NEW q \in Seq(Entry), NoDupSeq(q), CachedSeq(q),
           NEW m \in Payloads, NEW n,
           m.cmd = "invalidateviewcursor:" => m.view # NoView
    PROVE  \/ /\ \A i \in 1..Len(q) : ~SameTarget(m, q[i].msg)
              /\ Deduplicate(q, NewItem(m, n)) = q
           \/ \E p \in 1..Len(q) :
                 /\ SameTarget(m, q[p].msg)
                 /\ \A j \in 1..Len(q) : j # p => ~SameTarget(m, q[j].msg)
                 /\ Deduplicate(q, NewItem(m, n)) = EraseAt(q, p)
<1> DEFINE new == NewItem(m, n)
<1>1. \A i \in 1..Len(q) : Matches(new, q[i]) <=> SameTarget(m, q[i].msg)
    BY MatchesIsSameTarget DEF CachedSeq
<1>2. CASE ~\E i \in 1..Len(q) : Matches(new, q[i])
    BY <1>1, <1>2 DEF Deduplicate, FindIf
<1>3. CASE \E i \in 1..Len(q) : Matches(new, q[i])
    <2>1. PICK p \in 1..Len(q) : Matches(new, q[p])
        BY <1>3
    <2>2. \A j \in 1..Len(q) : j # p => ~SameTarget(m, q[j].msg)
        <3> SUFFICES ASSUME NEW j \in 1..Len(q), j # p, SameTarget(m, q[j].msg)
                     PROVE  FALSE
            OBVIOUS
        <3>1. SameTarget(m, q[p].msg)
            BY <1>1, <2>1
        <3>2. SameTarget(q[j].msg, q[p].msg) /\ SameTarget(q[p].msg, q[j].msg)
            BY <3>1, SameTargetTransitive
        <3>3. QED
            BY <3>2 DEF NoDupSeq
    <2>3. FindIf(q, new) = p
        <3>1. \A i \in 1..Len(q) :
                 (Matches(new, q[i]) /\ \A j \in 1..(i - 1) : ~Matches(new, q[j]))
                     <=> i = p
            BY <1>1, <2>1, <2>2
        <3>2. QED
            BY <1>3, <3>1 DEF FindIf
    <2>4. QED
        BY <1>1, <2>1, <2>2, <2>3 DEF Deduplicate
<1>4. QED
    BY <1>2, <1>3


(***************************************************************************)
(* Spec section 3, for every instance: no two queued messages are for the *)
(* same target.  It is NoDuplicateTargets strengthened with the type      *)
(* invariant and HashCached (without the latter, a stale cached hash on a *)
(* queued tile would hide it from find_if and let a duplicate in).        *)
(***************************************************************************)
THEOREM NoDuplicateTargetsHolds == Spec => []NoDuplicateTargets
<1>1. DedupInv => NoDuplicateTargets
    BY DEF DedupInv
<1>2. QED
    BY DedupInit, DedupStep, <1>1, PTL DEF Spec


-----------------------------------------------------------------------------
(***************************************************************************)
(* Shutdown.                                                               *)
(***************************************************************************)
\* A late delivery leaves the writer idle with the flag set, where the
\* flag check of dequeue() keeps it from ever popping again.
LateInv ==
    /\ lateDelivered \in {0, 1}
    /\ lateDelivered = 1 => term /\ consPc = "idle"

LEMMA LateInit == Init => LateInv
BY DEF Init, LateInv

LEMMA LateStep == LateInv /\ [Next]_vars => LateInv'
<1> SUFFICES ASSUME LateInv, [Next]_vars PROVE LateInv'
    OBVIOUS
<1>1. CASE DequeuePop
    <2>1. lateDelivered = 0
        BY <1>1 DEF DequeuePop, LateInv
    <2>2. QED
        BY <1>1, <2>1 DEF DequeuePop, LateInv
<1>2. CASE DequeueCheck
    BY <1>2 DEF DequeueCheck, LateInv
<1>3. CASE SetTerminationFlag
    BY <1>3 DEF SetTerminationFlag, LateInv
<1>4. ASSUME NEW m \in Payloads,
             EnqueueDropped(m) \/ EnqueueThrows(m) \/ Enqueue(m)
      PROVE  LateInv'
    BY <1>4 DEF EnqueueDropped, EnqueueThrows, Enqueue, LateInv
<1>5. CASE DequeueEmpty \/ UNCHANGED vars
    BY <1>5 DEF DequeueEmpty, vars, LateInv
<1>6. QED
    BY <1>1, <1>2, <1>3, <1>4, <1>5 DEF Next, Consume

(***************************************************************************)
(* Spec section 5, for every instance: after the termination flag is set  *)
(* the writer receives at most one message, the one of the dequeue()      *)
(* that had read the flag as clear before it was set.                     *)
(***************************************************************************)
THEOREM AtMostOneLateDeliveryHolds == Spec => []AtMostOneLateDelivery
<1>1. LateInv => AtMostOneLateDelivery
    BY DEF LateInv, AtMostOneLateDelivery
<1>2. QED
    BY LateInit, LateStep, <1>1, PTL DEF Spec


-----------------------------------------------------------------------------
(***************************************************************************)
(* FIFO delivery.                                                          *)
(***************************************************************************)
\* Sequence numbers grow along s.
Increasing(s) == \A i, j \in 1..Len(s) : i < j => s[i].seq < s[j].seq

\* Every entry of s is older than every entry of t.
Before(s, t) == \A i \in 1..Len(s) : \A j \in 1..Len(t) : s[i].seq < t[j].seq

\* No entry is newer than call number n.
Bounded(s, n) == \A i \in 1..Len(s) : s[i].seq <= n

(***************************************************************************)
(* FifoDelivery split over the two halves of the stream, with the bound   *)
(* that makes the item of the next enqueue() newer than all of them.      *)
(***************************************************************************)
FifoInv ==
    /\ TypeOK
    /\ Increasing(delivered) /\ Increasing(queue)
    /\ Before(delivered, queue)
    /\ Bounded(delivered, Len(calls)) /\ Bounded(queue, Len(calls))

LEMMA ConcatIncreasing ==
    ASSUME NEW s \in Seq(Entry), NEW t \in Seq(Entry),
           Increasing(s), Increasing(t), Before(s, t)
    PROVE  Increasing(s \o t)
<1>1. /\ Len(s \o t) = Len(s) + Len(t)
      /\ \A k \in 1..Len(s) : (s \o t)[k] = s[k]
      /\ \A k \in (Len(s) + 1)..(Len(s) + Len(t)) : (s \o t)[k] = t[k - Len(s)]
    BY ConcatProperties
<1> SUFFICES ASSUME NEW i \in 1..Len(s \o t), NEW j \in 1..Len(s \o t), i < j
             PROVE  (s \o t)[i].seq < (s \o t)[j].seq
    BY DEF Increasing
<1>2. CASE j <= Len(s)
    BY <1>1, <1>2 DEF Increasing
<1>3. CASE i <= Len(s) /\ j > Len(s)
    BY <1>1, <1>3 DEF Before
<1>4. CASE i > Len(s)
    <2>1. i - Len(s) \in 1..Len(t) /\ j - Len(s) \in 1..Len(t) /\ i - Len(s) < j - Len(s)
        BY <1>1, <1>4
    <2>2. QED
        BY <1>1, <1>4, <2>1 DEF Increasing
<1>5. QED
    BY <1>2, <1>3, <1>4

\* Erasing one entry keeps the order of the others.
LEMMA EraseKeepsOrder ==
    ASSUME NEW q \in Seq(Entry), NEW p \in 1..Len(q), NEW d \in Seq(Entry),
           Increasing(q), Before(d, q)
    PROVE  /\ Increasing(EraseAt(q, p))
           /\ Before(d, EraseAt(q, p))
           /\ \A k \in 1..Len(EraseAt(q, p)) :
                 \E j \in 1..Len(q) : EraseAt(q, p)[k] = q[j]
<1>1. Len(EraseAt(q, p)) = Len(q) - 1
      /\ \A k \in 1..Len(EraseAt(q, p)) :
            /\ (IF k < p THEN k ELSE k + 1) \in 1..Len(q)
            /\ EraseAt(q, p)[k] = q[IF k < p THEN k ELSE k + 1]
    BY DEF EraseAt
<1>2. Increasing(EraseAt(q, p))
    <2> SUFFICES ASSUME NEW i \in 1..Len(EraseAt(q, p)),
                        NEW j \in 1..Len(EraseAt(q, p)), i < j
                 PROVE  EraseAt(q, p)[i].seq < EraseAt(q, p)[j].seq
        BY DEF Increasing
    <2>1. (IF i < p THEN i ELSE i + 1) < (IF j < p THEN j ELSE j + 1)
        OBVIOUS
    <2>2. QED
        BY <1>1, <2>1 DEF Increasing
<1>3. QED
    BY <1>1, <1>2 DEF Before

(***************************************************************************)
(* Appending the item of call n + 1 to a queue bounded by n.              *)
(***************************************************************************)
LEMMA AppendKeepsOrder ==
    ASSUME NEW d \in Seq(Entry), NEW q \in Seq(Entry), NEW e \in Entry,
           NEW n \in Nat, e.seq = n + 1,
           Increasing(q), Before(d, q), Bounded(d, n), Bounded(q, n)
    PROVE  /\ Increasing(Append(q, e))
           /\ Before(d, Append(q, e))
           /\ Bounded(Append(q, e), n + 1)
<1>1. Len(Append(q, e)) = Len(q) + 1
      /\ \A k \in 1..Len(q) : Append(q, e)[k] = q[k]
      /\ Append(q, e)[Len(q) + 1] = e
    BY AppendProperties
<1>2. \A k \in 1..Len(q) : q[k].seq \in Nat /\ q[k].seq <= n
    <2>1. \A k \in 1..Len(q) : q[k] \in Entry
        OBVIOUS
    <2>2. QED
        BY <2>1 DEF Bounded, Entry
<1>3. Increasing(Append(q, e))
    <2> SUFFICES ASSUME NEW i \in 1..Len(q) + 1, NEW j \in 1..Len(q) + 1, i < j
                 PROVE  Append(q, e)[i].seq < Append(q, e)[j].seq
        BY <1>1 DEF Increasing
    <2>1. CASE j = Len(q) + 1
        BY <1>1, <1>2, <2>1
    <2>2. CASE j <= Len(q)
        BY <1>1, <2>2 DEF Increasing
    <2>3. QED
        BY <2>1, <2>2
<1>4. Before(d, Append(q, e))
    <2>1. \A k \in 1..Len(d) : d[k].seq \in Nat /\ d[k].seq <= n
        <3>1. \A k \in 1..Len(d) : d[k] \in Entry
            OBVIOUS
        <3>2. QED
            BY <3>1 DEF Bounded, Entry
    <2>2. QED
        BY <1>1, <2>1 DEF Before
<1>5. Bounded(Append(q, e), n + 1)
    BY <1>1, <1>2 DEF Bounded
<1>6. QED
    BY <1>3, <1>4, <1>5


LEMMA FifoInit == Init => FifoInv
BY TypeInit DEF Init, FifoInv, Increasing, Before, Bounded

\* A bound on call numbers still holds after more calls.
LEMMA BoundedMono ==
    ASSUME NEW s, NEW n \in Nat, Bounded(s, n), \A i \in 1..Len(s) : s[i].seq \in Nat
    PROVE  Bounded(s, n + 1)
BY DEF Bounded

LEMMA FifoStep == DedupInv /\ FifoInv /\ [Next]_vars => FifoInv'
<1> SUFFICES ASSUME DedupInv, FifoInv, [Next]_vars PROVE FifoInv'
    OBVIOUS
<1>1. TypeOK'
    BY TypeStep DEF FifoInv
<1>2. /\ queue \in Seq(Entry) /\ NoDupSeq(queue) /\ CachedSeq(queue)
      /\ delivered \in Seq(Entry) /\ calls \in Seq(Call)
      /\ Len(calls) \in Nat /\ Len(calls) <= MaxCalls
    BY DEF DedupInv, TypeOK, NoDupSeq, CachedSeq, HashCached, NoDuplicateTargets
<1>3. /\ \A i \in 1..Len(queue) : queue[i].seq \in Nat
      /\ \A i \in 1..Len(delivered) : delivered[i].seq \in Nat
    <2>1. /\ \A i \in 1..Len(queue) : queue[i] \in Entry
          /\ \A i \in 1..Len(delivered) : delivered[i] \in Entry
        BY <1>2
    <2>2. QED
        BY <2>1 DEF Entry
<1>4. ASSUME NEW m \in Payloads, Enqueue(m) PROVE FifoInv'
    <2> DEFINE c == Len(calls)
               new == NewItem(m, c + 1)
               D == Deduplicate(queue, new)
    <2>1. c + 1 \in 1..MaxCalls /\ Len(calls') = c + 1
          /\ queue' = Append(D, new) /\ delivered' = delivered
        BY <1>2, <1>4, AppendProperties, BoundAssumption DEF Enqueue
    <2>2. new \in Entry /\ new.seq = c + 1
        BY <2>1, NewItemType DEF NewItem
    <2>3. m.cmd = "invalidateviewcursor:" => m.view # NoView
        BY <1>4 DEF Enqueue, ParseThrows, NewItem
    <2>4. D \in Seq(Entry) /\ Increasing(D) /\ Before(delivered, D) /\ Bounded(D, c)
        <3>1. D \in Seq(Entry)
            BY <1>2, DeduplicateType
        <3>2. CASE D = queue
            BY <3>1, <3>2 DEF FifoInv
        <3>3. ASSUME NEW p \in 1..Len(queue), D = EraseAt(queue, p)
              PROVE  Increasing(D) /\ Before(delivered, D) /\ Bounded(D, c)
            <4>1. Increasing(D) /\ Before(delivered, D)
                  /\ \A k \in 1..Len(D) : \E j \in 1..Len(queue) : D[k] = queue[j]
                BY <1>2, <3>3, EraseKeepsOrder DEF FifoInv
            <4>2. QED
                BY <4>1 DEF FifoInv, Bounded
        <3>4. QED
            BY <1>2, <2>3, <3>1, <3>2, <3>3, DeduplicateErasesTarget
    <2>5. /\ Increasing(Append(D, new)) /\ Before(delivered, Append(D, new))
          /\ Bounded(Append(D, new), c + 1)
        BY <1>2, <2>2, <2>4, AppendKeepsOrder DEF FifoInv
    <2>6. Bounded(delivered, c + 1)
        BY <1>2, <1>3, BoundedMono DEF FifoInv
    <2>7. QED
        BY <1>1, <2>1, <2>5, <2>6 DEF FifoInv
<1>5. ASSUME NEW m \in Payloads, EnqueueDropped(m) \/ EnqueueThrows(m)
      PROVE  FifoInv'
    <2>1. queue' = queue /\ delivered' = delivered /\ Len(calls') = Len(calls) + 1
        BY <1>2, <1>5, AppendProperties DEF EnqueueDropped, EnqueueThrows
    <2>2. QED
        BY <1>1, <1>2, <1>3, <2>1, BoundedMono DEF FifoInv
<1>6. ASSUME DequeuePop PROVE FifoInv'
    <2>1. queue # << >> /\ queue' = Tail(queue)
          /\ delivered' = Append(delivered, Head(queue)) /\ calls' = calls
        BY <1>6 DEF DequeuePop
    <2>2. /\ Len(queue) >= 1 /\ Head(queue) = queue[1]
          /\ Len(Tail(queue)) = Len(queue) - 1
          /\ \A k \in 1..Len(Tail(queue)) : Tail(queue)[k] = queue[k + 1]
        BY <1>2, <2>1, HeadTailProperties, EmptySeq
    <2>3. /\ Len(delivered') = Len(delivered) + 1
          /\ \A k \in 1..Len(delivered) : delivered'[k] = delivered[k]
          /\ delivered'[Len(delivered) + 1] = queue[1]
        BY <1>2, <2>1, <2>2, AppendProperties
    <2>4. Increasing(delivered')
        BY <2>2, <2>3 DEF FifoInv, Increasing, Before
    <2>5. Increasing(queue')
        BY <2>1, <2>2 DEF FifoInv, Increasing
    <2>6. Before(delivered', queue')
        BY <2>1, <2>2, <2>3 DEF FifoInv, Increasing, Before
    <2>7. Bounded(delivered', Len(calls')) /\ Bounded(queue', Len(calls'))
        BY <2>1, <2>2, <2>3 DEF FifoInv, Bounded
    <2>8. QED
        BY <1>1, <2>4, <2>5, <2>6, <2>7 DEF FifoInv
<1>7. CASE DequeueCheck \/ DequeueEmpty \/ SetTerminationFlag \/ UNCHANGED vars
    <2>1. queue' = queue /\ delivered' = delivered /\ calls' = calls
        BY <1>7 DEF DequeueCheck, DequeueEmpty, SetTerminationFlag, vars
    <2>2. QED
        BY <1>1, <2>1 DEF FifoInv
<1>8. QED
    BY <1>4, <1>5, <1>6, <1>7 DEF Next, Consume

(***************************************************************************)
(* Spec section 5, for every instance: what the writer has received       *)
(* followed by what is still queued is in the order the enqueue() calls   *)
(* took the lock.  A superseding message goes to the back, so FIFO order  *)
(* survives every erase.  The invariant is FifoInv (both halves ordered,  *)
(* the delivered half older, all no newer than the last call) together   *)
(* with DedupInv, which makes find_if's choice the unique match.          *)
(***************************************************************************)
THEOREM FifoDeliveryHolds == Spec => []FifoDelivery
<1>1. DedupInv /\ FifoInv /\ [Next]_vars => DedupInv' /\ FifoInv'
    BY DedupStep, FifoStep
<1>2. FifoInv => FifoDelivery
    <2> SUFFICES ASSUME FifoInv PROVE FifoDelivery
        OBVIOUS
    <2>1. Increasing(delivered \o queue)
        BY ConcatIncreasing DEF FifoInv, TypeOK
    <2>2. QED
        BY <2>1 DEF FifoDelivery, Stream, Increasing
<1>3. QED
    BY DedupInit, FifoInit, <1>1, <1>2, PTL DEF Spec

=============================================================================
