--------------------------- MODULE SupersedeProofs ---------------------------
(***************************************************************************)
(* A message enqueue() accepted is lost only when a later accepted call   *)
(* for the same target superseded it.  The proof follows each sequence    *)
(* number through the history: the inductive invariant SupersedeInv adds  *)
(* to DedupInv that every queued item is the message of the accepted call *)
(* its sequence number names (QueueFromCalls).                            *)
(***************************************************************************)
EXTENDS SenderQueueProofs

\* Some entry of s carries sequence number n.
Has(s, n) == \E i \in 1..Len(s) : s[i].seq = n

(***************************************************************************)
(* How Has moves through the sequence operations of the code.             *)
(***************************************************************************)
LEMMA ConcatHas ==
    ASSUME NEW s \in Seq(Entry), NEW t \in Seq(Entry), NEW n
    PROVE  Has(s \o t, n) <=> Has(s, n) \/ Has(t, n)
<1>1. /\ Len(s \o t) = Len(s) + Len(t)
      /\ \A k \in 1..Len(s) : (s \o t)[k] = s[k]
      /\ \A k \in (Len(s) + 1)..(Len(s) + Len(t)) : (s \o t)[k] = t[k - Len(s)]
    BY ConcatProperties
<1>2. Has(s \o t, n) => Has(s, n) \/ Has(t, n)
    <2> SUFFICES ASSUME NEW i \in 1..Len(s \o t), (s \o t)[i].seq = n
                 PROVE  Has(s, n) \/ Has(t, n)
        BY DEF Has
    <2>1. CASE i <= Len(s)
        BY <1>1, <2>1 DEF Has
    <2>2. CASE i > Len(s)
        <3>1. i - Len(s) \in 1..Len(t) /\ t[i - Len(s)].seq = n
            BY <1>1, <2>2
        <3>2. QED
            BY <3>1 DEF Has
    <2>3. QED
        BY <2>1, <2>2
<1>3. Has(s, n) => Has(s \o t, n)
    <2> SUFFICES ASSUME NEW i \in 1..Len(s), s[i].seq = n
                 PROVE  Has(s \o t, n)
        BY DEF Has
    <2>1. i \in 1..Len(s \o t) /\ (s \o t)[i].seq = n
        BY <1>1
    <2>2. QED
        BY <2>1 DEF Has
<1>4. Has(t, n) => Has(s \o t, n)
    <2> SUFFICES ASSUME NEW j \in 1..Len(t), t[j].seq = n
                 PROVE  Has(s \o t, n)
        BY DEF Has
    <2>1. Len(s) + j \in 1..Len(s \o t) /\ (s \o t)[Len(s) + j].seq = n
        BY <1>1
    <2>2. QED
        BY <2>1 DEF Has
<1>5. QED
    BY <1>2, <1>3, <1>4

\* InStream is Has over the two halves of the stream.
LEMMA StreamHas ==
    ASSUME NEW n, delivered \in Seq(Entry), queue \in Seq(Entry)
    PROVE  InStream(n) <=> Has(delivered, n) \/ Has(queue, n)
<1>1. InStream(n) <=> Has(delivered \o queue, n)
    BY DEF InStream, Stream, Has
<1>2. QED
    BY <1>1, ConcatHas

\* The pop moves the head from the queue to the delivered half.
LEMMA PopHas ==
    ASSUME NEW d \in Seq(Entry), NEW q \in Seq(Entry), q # << >>, NEW n
    PROVE  Has(Append(d, Head(q)), n) \/ Has(Tail(q), n) <=> Has(d, n) \/ Has(q, n)
<1>1. /\ Len(q) >= 1 /\ Head(q) = q[1]
      /\ Len(Tail(q)) = Len(q) - 1
      /\ \A k \in 1..Len(Tail(q)) : Tail(q)[k] = q[k + 1]
    BY HeadTailProperties, EmptySeq
<1>2. /\ Len(Append(d, Head(q))) = Len(d) + 1
      /\ \A k \in 1..Len(d) : Append(d, Head(q))[k] = d[k]
      /\ Append(d, Head(q))[Len(d) + 1] = q[1]
    BY <1>1, AppendProperties
<1>3. Has(q, n) <=> q[1].seq = n \/ Has(Tail(q), n)
    <2>1. ASSUME NEW i \in 1..Len(q), q[i].seq = n, i # 1
          PROVE  Has(Tail(q), n)
        <3>1. i - 1 \in 1..Len(Tail(q)) /\ Tail(q)[i - 1].seq = n
            BY <1>1, <2>1
        <3>2. QED
            BY <3>1 DEF Has
    <2>2. ASSUME NEW k \in 1..Len(Tail(q)), Tail(q)[k].seq = n
          PROVE  Has(q, n)
        <3>1. k + 1 \in 1..Len(q) /\ q[k + 1].seq = n
            BY <1>1, <2>2
        <3>2. QED
            BY <3>1 DEF Has
    <2>3. QED
        BY <1>1, <2>1, <2>2 DEF Has
<1>4. Has(Append(d, Head(q)), n) <=> Has(d, n) \/ q[1].seq = n
    BY <1>2 DEF Has
<1>5. QED
    BY <1>3, <1>4

\* An entry of q is still in q with its p-th entry erased, or is that entry.
LEMMA EraseHas ==
    ASSUME NEW q \in Seq(Entry), NEW p \in 1..Len(q), NEW n, Has(q, n)
    PROVE  Has(EraseAt(q, p), n) \/ q[p].seq = n
<1>1. PICK i \in 1..Len(q) : q[i].seq = n
    BY DEF Has
<1>2. Len(EraseAt(q, p)) = Len(q) - 1
      /\ \A k \in 1..Len(EraseAt(q, p)) :
            EraseAt(q, p)[k] = q[IF k < p THEN k ELSE k + 1]
    BY DEF EraseAt
<1>3. CASE i < p
    BY <1>1, <1>2, <1>3 DEF Has
<1>4. CASE i > p
    <2>1. i - 1 \in 1..Len(EraseAt(q, p)) /\ EraseAt(q, p)[i - 1] = q[i]
        BY <1>2, <1>4
    <2>2. QED
        BY <1>1, <2>1 DEF Has
<1>5. QED
    BY <1>1, <1>3, <1>4

\* Appending keeps every entry and adds the new one.
LEMMA AppendHas ==
    ASSUME NEW s \in Seq(Entry), NEW e, NEW n
    PROVE  Has(Append(s, e), n) <=> Has(s, n) \/ e.seq = n
<1>1. /\ Len(Append(s, e)) = Len(s) + 1
      /\ \A k \in 1..Len(s) : Append(s, e)[k] = s[k]
      /\ Append(s, e)[Len(s) + 1] = e
    BY AppendProperties
<1>2. QED
    BY <1>1 DEF Has


(***************************************************************************)
(* What deduplicate() keeps: every entry it leaves was queued, and an     *)
(* entry it removes has the target of the incoming message.               *)
(***************************************************************************)
LEMMA DeduplicateKeeps ==
    ASSUME NEW q \in Seq(Entry), NoDupSeq(q), CachedSeq(q),
           NEW m \in Payloads, NEW n,
           m.cmd = "invalidateviewcursor:" => m.view # NoView
    PROVE  /\ Deduplicate(q, NewItem(m, n)) \in Seq(Entry)
           /\ \A k \in 1..Len(Deduplicate(q, NewItem(m, n))) :
                 \E j \in 1..Len(q) : Deduplicate(q, NewItem(m, n))[k] = q[j]
           /\ \A s : Has(q, s) =>
                 \/ Has(Deduplicate(q, NewItem(m, n)), s)
                 \/ \E j \in 1..Len(q) : q[j].seq = s /\ SameTarget(m, q[j].msg)
<1> DEFINE D == Deduplicate(q, NewItem(m, n))
<1>1. D \in Seq(Entry)
    BY DeduplicateType
<1>2. CASE D = q
    BY <1>1, <1>2
<1>3. ASSUME NEW p \in 1..Len(q), SameTarget(m, q[p].msg), D = EraseAt(q, p)
      PROVE  /\ \A k \in 1..Len(D) : \E j \in 1..Len(q) : D[k] = q[j]
             /\ \A s : Has(q, s) =>
                   \/ Has(D, s)
                   \/ \E j \in 1..Len(q) : q[j].seq = s /\ SameTarget(m, q[j].msg)
    <2>1. \A k \in 1..Len(D) : \E j \in 1..Len(q) : D[k] = q[j]
        <3>1. Len(D) = Len(q) - 1
              /\ \A k \in 1..Len(D) :
                    /\ (IF k < p THEN k ELSE k + 1) \in 1..Len(q)
                    /\ D[k] = q[IF k < p THEN k ELSE k + 1]
            BY <1>3 DEF EraseAt
        <3>2. QED
            BY <3>1
    <2>2. \A s : Has(q, s) => Has(D, s) \/ q[p].seq = s
        BY <1>3, EraseHas
    <2>3. QED
        BY <1>3, <2>1, <2>2
<1>4. QED
    BY <1>1, <1>2, <1>3, DeduplicateErasesTarget

\* The history shape QueueFromCalls states, for any queue and call list.
FromCalls(q, cs) ==
    \A i \in 1..Len(q) :
        /\ q[i].seq <= Len(cs)
        /\ cs[q[i].seq].msg = q[i].msg
        /\ cs[q[i].seq].outcome = "queued"

(***************************************************************************)
(* A returning enqueue() keeps both history invariants: the item it       *)
(* erases is the message of an accepted call, which the new call, also    *)
(* accepted and later, supersedes.                                        *)
(***************************************************************************)
LEMMA SupEnqueue ==
    ASSUME SupersedeInv, NEW m \in Payloads, Enqueue(m)
    PROVE  QueueFromCalls' /\ OnlySupersededDropped'
<1> DEFINE c == Len(calls)
           new == NewItem(m, c + 1)
           D == Deduplicate(queue, new)
<1>1. /\ queue \in Seq(Entry) /\ NoDupSeq(queue) /\ CachedSeq(queue)
      /\ delivered \in Seq(Entry) /\ calls \in Seq(Call)
      /\ c \in Nat /\ c + 1 \in 1..MaxCalls
      /\ FromCalls(queue, calls)
    BY BoundAssumption DEF SupersedeInv, DedupInv, TypeOK, NoDupSeq, CachedSeq,
       HashCached, NoDuplicateTargets, QueueFromCalls, FromCalls, Enqueue
<1>2. /\ calls' = Append(calls, [msg |-> m, outcome |-> "queued"])
      /\ queue' = Append(D, new) /\ delivered' = delivered
    BY DEF Enqueue
<1>3. /\ Len(calls') = c + 1
      /\ \A j \in 1..c : calls'[j] = calls[j]
      /\ calls'[c + 1] = [msg |-> m, outcome |-> "queued"]
    BY <1>1, <1>2, AppendProperties
<1>4. new \in Entry /\ new.seq = c + 1 /\ new.msg = m
    BY <1>1, NewItemType DEF NewItem
<1>5. m.cmd = "invalidateviewcursor:" => m.view # NoView
    BY DEF Enqueue, ParseThrows, NewItem
<1>6. /\ D \in Seq(Entry)
      /\ \A k \in 1..Len(D) : \E j \in 1..Len(queue) : D[k] = queue[j]
      /\ \A s : Has(queue, s) =>
            \/ Has(D, s)
            \/ \E j \in 1..Len(queue) : queue[j].seq = s /\ SameTarget(m, queue[j].msg)
    BY <1>1, <1>5, DeduplicateKeeps
<1>7. /\ Len(queue') = Len(D) + 1
      /\ \A k \in 1..Len(D) : queue'[k] = D[k]
      /\ queue'[Len(D) + 1] = new
      /\ queue' \in Seq(Entry)
    BY <1>2, <1>4, <1>6, AppendProperties
<1>8. QueueFromCalls'
    <2> SUFFICES ASSUME NEW i \in 1..Len(queue')
                 PROVE  /\ queue'[i].seq <= Len(calls')
                        /\ calls'[queue'[i].seq].msg = queue'[i].msg
                        /\ calls'[queue'[i].seq].outcome = "queued"
        BY DEF QueueFromCalls
    <2>1. CASE i = Len(D) + 1
        BY <1>3, <1>4, <1>7, <2>1
    <2>2. CASE i \in 1..Len(D)
        <3>1. PICK j \in 1..Len(queue) : queue'[i] = queue[j]
            BY <1>6, <1>7, <2>2
        <3>2. queue[j].seq \in 1..c
            <4>1. queue[j] \in Entry
                BY <1>1
            <4>2. QED
                BY <1>1, <4>1 DEF FromCalls, Entry
        <3>3. QED
            BY <1>1, <1>3, <3>1, <3>2 DEF FromCalls
    <2>3. QED
        BY <1>7, <2>1, <2>2
<1>9. OnlySupersededDropped'
    <2> SUFFICES ASSUME NEW n \in 1..Len(calls'), calls'[n].outcome = "queued",
                        ~InStream(n)'
                 PROVE  \E k \in (n + 1)..Len(calls') :
                           /\ calls'[k].outcome = "queued"
                           /\ SameTarget(calls'[k].msg, calls'[n].msg)
        BY DEF OnlySupersededDropped
    <2>1. InStream(n)' <=> Has(delivered, n) \/ Has(queue', n)
        <3>1. InStream(n)' <=> Has(delivered' \o queue', n)
            BY DEF InStream, Stream, Has
        <3>2. delivered' \in Seq(Entry) /\ queue' \in Seq(Entry)
            BY <1>1, <1>2, <1>7
        <3>3. Has(delivered' \o queue', n) <=> Has(delivered', n) \/ Has(queue', n)
            BY <3>2, ConcatHas
        <3>4. QED
            BY <1>2, <3>1, <3>3
    <2>2. Has(queue', c + 1) /\ \A s : Has(D, s) => Has(queue', s)
        BY <1>2, <1>4, <1>6, AppendHas
    <2>3. n \in 1..c /\ calls'[n] = calls[n]
        <3>1. n # c + 1
            BY <2>1, <2>2
        <3>2. n \in 1..c
            BY <1>1, <1>3, <3>1
        <3>3. QED
            BY <1>3, <3>2
    <2>4. CASE InStream(n)
        <3>1. ~Has(delivered, n) /\ Has(queue, n)
            BY <1>1, <2>1, <2>4, StreamHas
        <3>2. PICK j \in 1..Len(queue) : queue[j].seq = n /\ SameTarget(m, queue[j].msg)
            BY <1>6, <2>1, <2>2, <3>1
        <3>3. calls[n].msg = queue[j].msg
            BY <1>1, <3>2 DEF FromCalls
        <3>4. c + 1 \in (n + 1)..Len(calls')
              /\ calls'[c + 1].outcome = "queued"
              /\ SameTarget(calls'[c + 1].msg, calls'[n].msg)
            BY <1>3, <2>3, <3>2, <3>3
        <3>5. QED
            BY <3>4
    <2>5. CASE ~InStream(n)
        <3>1. PICK k \in (n + 1)..c :
                 /\ calls[k].outcome = "queued"
                 /\ SameTarget(calls[k].msg, calls[n].msg)
            BY <2>3, <2>5 DEF SupersedeInv, OnlySupersededDropped
        <3>2. QED
            BY <1>3, <2>3, <3>1
    <2>6. QED
        BY <2>4, <2>5
<1>10. QED
    BY <1>8, <1>9


(***************************************************************************)
(* A call that enqueue() drops or that throws leaves the queue and the    *)
(* writer's record alone and is itself not accepted, so it neither needs  *)
(* a superseder nor changes the history of the earlier calls.             *)
(***************************************************************************)
LEMMA SupRefuse ==
    ASSUME SupersedeInv, NEW m \in Payloads, EnqueueDropped(m) \/ EnqueueThrows(m)
    PROVE  QueueFromCalls' /\ OnlySupersededDropped'
<1> DEFINE c == Len(calls)
<1>1. /\ queue \in Seq(Entry) /\ calls \in Seq(Call) /\ c \in Nat
      /\ FromCalls(queue, calls)
    BY DEF SupersedeInv, DedupInv, TypeOK, QueueFromCalls, FromCalls
<1>2. PICK o \in {"dropped", "threw"} :
         /\ calls' = Append(calls, [msg |-> m, outcome |-> o])
         /\ queue' = queue /\ delivered' = delivered
    BY DEF EnqueueDropped, EnqueueThrows
<1>3. /\ Len(calls') = c + 1
      /\ \A j \in 1..c : calls'[j] = calls[j]
      /\ calls'[c + 1].outcome # "queued"
    BY <1>1, <1>2, AppendProperties
<1>4. \A n : InStream(n)' <=> InStream(n)
    BY <1>2 DEF InStream, Stream
<1>5. QueueFromCalls'
    <2> SUFFICES ASSUME NEW i \in 1..Len(queue)
                 PROVE  /\ queue[i].seq <= c + 1
                        /\ calls'[queue[i].seq].msg = queue[i].msg
                        /\ calls'[queue[i].seq].outcome = "queued"
        BY <1>2, <1>3 DEF QueueFromCalls
    <2>1. queue[i] \in Entry
        BY <1>1
    <2>2. queue[i].seq \in 1..c
        BY <1>1, <2>1 DEF FromCalls, Entry
    <2>3. QED
        BY <1>1, <1>3, <2>2 DEF FromCalls
<1>6. OnlySupersededDropped'
    <2> SUFFICES ASSUME NEW n \in 1..(c + 1), calls'[n].outcome = "queued",
                        ~InStream(n)'
                 PROVE  \E k \in (n + 1)..(c + 1) :
                           /\ calls'[k].outcome = "queued"
                           /\ SameTarget(calls'[k].msg, calls'[n].msg)
        BY <1>3 DEF OnlySupersededDropped
    <2>1. n \in 1..c /\ calls'[n] = calls[n] /\ ~InStream(n)
        BY <1>1, <1>3, <1>4
    <2>2. PICK k \in (n + 1)..c :
             /\ calls[k].outcome = "queued"
             /\ SameTarget(calls[k].msg, calls[n].msg)
        BY <2>1 DEF SupersedeInv, OnlySupersededDropped
    <2>3. QED
        BY <1>3, <2>1, <2>2
<1>7. QED
    BY <1>5, <1>6

(***************************************************************************)
(* The locked pop of dequeue() moves the head to the writer: every entry  *)
(* stays in the stream and the remaining queue still comes from calls.    *)
(***************************************************************************)
LEMMA SupPop ==
    ASSUME SupersedeInv, DequeuePop
    PROVE  QueueFromCalls' /\ OnlySupersededDropped'
<1>1. /\ queue \in Seq(Entry) /\ delivered \in Seq(Entry)
      /\ FromCalls(queue, calls) /\ queue # << >>
      /\ delivered' = Append(delivered, Head(queue))
      /\ queue' = Tail(queue) /\ calls' = calls
    BY DEF SupersedeInv, DedupInv, TypeOK, QueueFromCalls, FromCalls, DequeuePop
<1>2. /\ Len(Tail(queue)) = Len(queue) - 1
      /\ \A k \in 1..Len(Tail(queue)) : Tail(queue)[k] = queue[k + 1]
      /\ Head(queue) \in Entry /\ Tail(queue) \in Seq(Entry)
    BY <1>1, HeadTailProperties, EmptySeq
<1>3. QueueFromCalls'
    BY <1>1, <1>2 DEF QueueFromCalls, FromCalls
<1>4. \A n : InStream(n)' <=> InStream(n)
    <2> SUFFICES ASSUME NEW n PROVE InStream(n)' <=> InStream(n)
        OBVIOUS
    <2>1. InStream(n)' <=> Has(delivered' \o queue', n)
        BY DEF InStream, Stream, Has
    <2>2. Has(delivered' \o queue', n) <=> Has(delivered', n) \/ Has(queue', n)
        <3>1. delivered' \in Seq(Entry)
            BY <1>1, <1>2, AppendProperties
        <3>2. QED
            BY <1>1, <1>2, <3>1, ConcatHas
    <2>3. Has(delivered', n) \/ Has(queue', n) <=> Has(delivered, n) \/ Has(queue, n)
        BY <1>1, PopHas
    <2>4. QED
        BY <1>1, <2>1, <2>2, <2>3, StreamHas
<1>5. OnlySupersededDropped'
    BY <1>1, <1>4 DEF SupersedeInv, OnlySupersededDropped
<1>6. QED
    BY <1>3, <1>5

\* The initial state satisfies the history invariants vacuously.
LEMMA SupInit == Init => SupersedeInv
BY DedupInit DEF Init, SupersedeInv, QueueFromCalls, OnlySupersededDropped

(***************************************************************************)
(* SupersedeInv is inductive: each action of the code preserves it.       *)
(***************************************************************************)
LEMMA SupStep == SupersedeInv /\ [Next]_vars => SupersedeInv'
<1> SUFFICES ASSUME SupersedeInv, [Next]_vars
             PROVE  SupersedeInv'
    OBVIOUS
<1>1. DedupInv'
    BY DedupStep DEF SupersedeInv
<1>2. QueueFromCalls' /\ OnlySupersededDropped'
    <2>1. CASE \E m \in Payloads : EnqueueDropped(m) \/ EnqueueThrows(m)
        BY <2>1, SupRefuse
    <2>2. CASE \E m \in Payloads : Enqueue(m)
        BY <2>2, SupEnqueue
    <2>3. CASE DequeuePop
        BY <2>3, SupPop
    <2>4. CASE DequeueCheck \/ DequeueEmpty \/ SetTerminationFlag \/ UNCHANGED vars
        <3>1. queue' = queue /\ delivered' = delivered /\ calls' = calls
            BY <2>4 DEF DequeueCheck, DequeueEmpty, SetTerminationFlag, vars
        <3>2. QED
            BY <3>1 DEF SupersedeInv, QueueFromCalls, OnlySupersededDropped,
                        InStream, Stream
    <2>5. QED
        BY <2>1, <2>2, <2>3, <2>4 DEF Next, Consume
<1>3. QED
    BY <1>1, <1>2 DEF SupersedeInv

(***************************************************************************)
(* Spec section 4.2, for every instance: enqueue() removes a queued       *)
(* message only when a later accepted call superseded it.  Every call     *)
(* whose enqueue() returned normally is delivered, still queued, or has   *)
(* a later accepted call for the same target (the deduplicate() erase,    *)
(* gated by the tile hash and the per-command find_if).                   *)
(***************************************************************************)
THEOREM OnlySupersededDroppedHolds == Spec => []OnlySupersededDropped
<1>1. SupersedeInv => OnlySupersededDropped
    BY DEF SupersedeInv
<1>2. QED
    BY SupInit, SupStep, <1>1, PTL DEF Spec


-----------------------------------------------------------------------------
(***************************************************************************)
(* NewerVersionKept: a dropped message has a newer same-target message in *)
(* the stream.                                                             *)
(***************************************************************************)

(***************************************************************************)
(* What a returning enqueue() does to the history and the stream: the new *)
(* call is accepted and its item is in the stream, and a number leaves    *)
(* the stream only as the queued item of the incoming message's target.   *)
(***************************************************************************)
LEMMA EnqueueStream ==
    ASSUME DedupInv, NEW m \in Payloads, Enqueue(m), NEW c, c = Len(calls)
    PROVE  /\ c \in Nat
           /\ Len(calls') = c + 1
           /\ \A j \in 1..c : calls'[j] = calls[j]
           /\ calls'[c + 1] = [msg |-> m, outcome |-> "queued"]
           /\ InStream(c + 1)'
           /\ \A s : InStream(s) =>
                 \/ InStream(s)'
                 \/ \E j \in 1..Len(queue) : queue[j].seq = s /\ SameTarget(m, queue[j].msg)
<1> DEFINE new == NewItem(m, c + 1)
           D == Deduplicate(queue, new)
<1>1. /\ queue \in Seq(Entry) /\ NoDupSeq(queue) /\ CachedSeq(queue)
      /\ delivered \in Seq(Entry) /\ calls \in Seq(Call) /\ c \in Nat
      /\ c + 1 \in 1..MaxCalls
    BY BoundAssumption DEF DedupInv, TypeOK, NoDupSeq, CachedSeq, HashCached,
       NoDuplicateTargets, Enqueue
<1>2. /\ calls' = Append(calls, [msg |-> m, outcome |-> "queued"])
      /\ queue' = Append(D, new) /\ delivered' = delivered
    BY DEF Enqueue
<1>3. /\ Len(calls') = c + 1
      /\ \A j \in 1..c : calls'[j] = calls[j]
      /\ calls'[c + 1] = [msg |-> m, outcome |-> "queued"]
    BY <1>1, <1>2, AppendProperties
<1>4. new \in Entry /\ new.seq = c + 1
    BY <1>1, NewItemType DEF NewItem
<1>5. m.cmd = "invalidateviewcursor:" => m.view # NoView
    BY DEF Enqueue, ParseThrows, NewItem
<1>6. /\ D \in Seq(Entry)
      /\ \A s : Has(queue, s) =>
            \/ Has(D, s)
            \/ \E j \in 1..Len(queue) : queue[j].seq = s /\ SameTarget(m, queue[j].msg)
    BY <1>1, <1>5, DeduplicateKeeps
<1>7. queue' \in Seq(Entry) /\ Has(queue', c + 1) /\ \A s : Has(D, s) => Has(queue', s)
    BY <1>2, <1>4, <1>6, AppendHas
<1>8. \A s : InStream(s)' <=> Has(delivered, s) \/ Has(queue', s)
    <2> SUFFICES ASSUME NEW s PROVE InStream(s)' <=> Has(delivered, s) \/ Has(queue', s)
        OBVIOUS
    <2>1. InStream(s)' <=> Has(delivered' \o queue', s)
        BY DEF InStream, Stream, Has
    <2>2. Has(delivered' \o queue', s) <=> Has(delivered', s) \/ Has(queue', s)
        <3>1. delivered' \in Seq(Entry)
            BY <1>1, <1>2
        <3>2. QED
            BY <1>7, <3>1, ConcatHas
    <2>3. QED
        BY <1>2, <2>1, <2>2
<1>9. \A s : InStream(s) =>
         \/ InStream(s)'
         \/ \E j \in 1..Len(queue) : queue[j].seq = s /\ SameTarget(m, queue[j].msg)
    <2> SUFFICES ASSUME NEW s, InStream(s)
                 PROVE  \/ InStream(s)'
                        \/ \E j \in 1..Len(queue) : queue[j].seq = s /\ SameTarget(m, queue[j].msg)
        OBVIOUS
    <2>1. Has(delivered, s) \/ Has(queue, s)
        BY <1>1, StreamHas
    <2>2. QED
        BY <1>6, <1>7, <1>8, <2>1
<1>10. InStream(c + 1)'
    BY <1>7, <1>8
<1>11. QED
    BY <1>1, <1>3, <1>9, <1>10


(***************************************************************************)
(* A returning enqueue() hands the promise on.  A number n that leaves    *)
(* the stream is the queued item of the incoming message's target, so the *)
(* new call supersedes n.  If n's newer version k leaves, the new call    *)
(* supersedes k and, by transitivity of "same target", n as well.         *)
(***************************************************************************)
LEMMA NewerEnqueue ==
    ASSUME NewerInv, NEW m \in Payloads, Enqueue(m)
    PROVE  NewerVersionKept'
\* c is a constant, so that InStream(c + 1)' primes only the stream.
<1>0. PICK c : c = Len(calls)
    OBVIOUS
<1>1. /\ c \in Nat
      /\ Len(calls') = c + 1
      /\ \A j \in 1..c : calls'[j] = calls[j]
      /\ calls'[c + 1] = [msg |-> m, outcome |-> "queued"]
      /\ InStream(c + 1)'
      /\ \A s : InStream(s) =>
            \/ InStream(s)'
            \/ \E j \in 1..Len(queue) : queue[j].seq = s /\ SameTarget(m, queue[j].msg)
    BY <1>0, EnqueueStream DEF NewerInv, SupersedeInv
<1>2. FromCalls(queue, calls) /\ queue \in Seq(Entry)
    BY DEF NewerInv, SupersedeInv, QueueFromCalls, FromCalls, DedupInv, TypeOK
\* A number that leaves the stream is superseded by the new call.
<1>3. ASSUME NEW s, InStream(s), ~InStream(s)'
      PROVE  SameTarget(m, calls[s].msg)
    <2>1. PICK j \in 1..Len(queue) : queue[j].seq = s /\ SameTarget(m, queue[j].msg)
        BY <1>1, <1>3
    <2>2. calls[s].msg = queue[j].msg
        BY <1>2, <2>1 DEF FromCalls
    <2>3. QED
        BY <2>1, <2>2
<1>4. SUFFICES ASSUME NEW n \in 1..(c + 1), calls'[n].outcome = "queued",
                      ~InStream(n)'
               PROVE  \E k \in (n + 1)..(c + 1) :
                         /\ InStream(k)'
                         /\ SameTarget(calls'[k].msg, calls'[n].msg)
    BY <1>0, <1>1 DEF NewerVersionKept
<1>5. n \in 1..c /\ calls'[n] = calls[n]
    <2>1. n # c + 1
        BY <1>1, <1>4
    <2>2. QED
        BY <1>1, <2>1
\* The new call is the witness whenever n or its old witness left.
<1>6. ASSUME SameTarget(m, calls[n].msg)
      PROVE  \E k \in (n + 1)..(c + 1) :
                /\ InStream(k)'
                /\ SameTarget(calls'[k].msg, calls'[n].msg)
    <2>1. c + 1 \in (n + 1)..(c + 1)
        BY <1>1, <1>5
    <2>2. InStream(c + 1)' /\ SameTarget(calls'[c + 1].msg, calls'[n].msg)
        BY <1>1, <1>5, <1>6
    <2>3. QED
        BY <2>1, <2>2
<1>7. CASE InStream(n)
    BY <1>3, <1>4, <1>6, <1>7
<1>8. CASE ~InStream(n)
    <2>1. calls[n].outcome = "queued"
        BY <1>4, <1>5
    <2>2. PICK k \in (n + 1)..c :
             InStream(k) /\ SameTarget(calls[k].msg, calls[n].msg)
        BY <1>0, <1>5, <1>8, <2>1 DEF NewerInv, NewerVersionKept
    <2>3. CASE InStream(k)'
        BY <1>1, <1>5, <2>2, <2>3
    <2>4. CASE ~InStream(k)'
        <3>1. SameTarget(m, calls[k].msg)
            BY <1>3, <2>2, <2>4
        <3>2. SameTarget(calls[k].msg, m)
            BY <3>1, SameTargetSymmetric
        <3>3. SameTarget(m, calls[n].msg)
            BY <2>2, <3>2, SameTargetTransitive
        <3>4. QED
            BY <1>6, <3>3
    <2>5. QED
        BY <2>3, <2>4
<1>9. QED
    BY <1>7, <1>8

(***************************************************************************)
(* The other steps keep the stream's numbers; a dropped or thrown call is *)
(* appended to the history but is not accepted.                           *)
(***************************************************************************)
LEMMA NewerRefuse ==
    ASSUME NewerInv, NEW m \in Payloads, EnqueueDropped(m) \/ EnqueueThrows(m)
    PROVE  NewerVersionKept'
<1> DEFINE c == Len(calls)
<1>1. calls \in Seq(Call) /\ c \in Nat
    BY DEF NewerInv, SupersedeInv, DedupInv, TypeOK
<1>2. PICK o \in {"dropped", "threw"} :
         /\ calls' = Append(calls, [msg |-> m, outcome |-> o])
         /\ queue' = queue /\ delivered' = delivered
    BY DEF EnqueueDropped, EnqueueThrows
<1>3. /\ Len(calls') = c + 1
      /\ \A j \in 1..c : calls'[j] = calls[j]
      /\ calls'[c + 1].outcome # "queued"
    BY <1>1, <1>2, AppendProperties
<1>4. \A s : InStream(s)' <=> InStream(s)
    BY <1>2 DEF InStream, Stream
<1>5. SUFFICES ASSUME NEW n \in 1..(c + 1), calls'[n].outcome = "queued",
                      ~InStream(n)'
               PROVE  \E k \in (n + 1)..(c + 1) :
                         /\ InStream(k)'
                         /\ SameTarget(calls'[k].msg, calls'[n].msg)
    BY <1>3 DEF NewerVersionKept
<1>6. n \in 1..c /\ calls'[n] = calls[n] /\ ~InStream(n)
    BY <1>1, <1>3, <1>4, <1>5
<1>7. PICK k \in (n + 1)..c :
         InStream(k) /\ SameTarget(calls[k].msg, calls[n].msg)
    BY <1>5, <1>6 DEF NewerInv, NewerVersionKept
<1>8. QED
    BY <1>1, <1>3, <1>4, <1>6, <1>7

LEMMA NewerPop ==
    ASSUME NewerInv, DequeuePop
    PROVE  NewerVersionKept'
<1>1. /\ queue \in Seq(Entry) /\ delivered \in Seq(Entry) /\ queue # << >>
      /\ delivered' = Append(delivered, Head(queue))
      /\ queue' = Tail(queue) /\ calls' = calls
    BY DEF NewerInv, SupersedeInv, DedupInv, TypeOK, DequeuePop
<1>2. \A n : InStream(n)' <=> InStream(n)
    <2> SUFFICES ASSUME NEW n PROVE InStream(n)' <=> InStream(n)
        OBVIOUS
    <2>1. Head(queue) \in Entry /\ Tail(queue) \in Seq(Entry)
        BY <1>1, HeadTailProperties, EmptySeq
    <2>2. delivered' \in Seq(Entry)
        BY <1>1, <2>1, AppendProperties
    <2>3. InStream(n)' <=> Has(delivered' \o queue', n)
        BY DEF InStream, Stream, Has
    <2>4. Has(delivered' \o queue', n) <=> Has(delivered', n) \/ Has(queue', n)
        BY <1>1, <2>1, <2>2, ConcatHas
    <2>5. Has(delivered', n) \/ Has(queue', n) <=> Has(delivered, n) \/ Has(queue, n)
        BY <1>1, PopHas
    <2>6. QED
        BY <1>1, <2>3, <2>4, <2>5, StreamHas
<1>3. QED
    BY <1>1, <1>2 DEF NewerInv, NewerVersionKept

\* The initial state satisfies NewerInv vacuously.
LEMMA NewerInit == Init => NewerInv
BY SupInit DEF Init, NewerInv, NewerVersionKept

\* NewerInv is inductive.
LEMMA NewerStep == NewerInv /\ [Next]_vars => NewerInv'
<1> SUFFICES ASSUME NewerInv, [Next]_vars
             PROVE  NewerInv'
    OBVIOUS
<1>1. SupersedeInv'
    BY SupStep DEF NewerInv
<1>2. NewerVersionKept'
    <2>1. CASE \E m \in Payloads : EnqueueDropped(m) \/ EnqueueThrows(m)
        BY <2>1, NewerRefuse
    <2>2. CASE \E m \in Payloads : Enqueue(m)
        BY <2>2, NewerEnqueue
    <2>3. CASE DequeuePop
        BY <2>3, NewerPop
    <2>4. CASE DequeueCheck \/ DequeueEmpty \/ SetTerminationFlag \/ UNCHANGED vars
        <3>1. queue' = queue /\ delivered' = delivered /\ calls' = calls
            BY <2>4 DEF DequeueCheck, DequeueEmpty, SetTerminationFlag, vars
        <3>2. QED
            BY <3>1 DEF NewerInv, NewerVersionKept, InStream, Stream
    <2>5. QED
        BY <2>1, <2>2, <2>3, <2>4 DEF Next, Consume
<1>3. QED
    BY <1>1, <1>2 DEF NewerInv

THEOREM NewerVersionKeptHolds == Spec => []NewerVersionKept
<1>1. NewerInv => NewerVersionKept
    BY DEF NewerInv
<1>2. QED
    BY NewerInit, NewerStep, <1>1, PTL DEF Spec

=============================================================================
