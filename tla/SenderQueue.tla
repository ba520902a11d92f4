---------------------------- MODULE SenderQueue ----------------------------
(***************************************************************************)
(* The per-session coalescing send queue of src/wsd/SenderQueue.hpp.      *)
(*                                                                         *)
(* Producer threads call enqueue(), which under _mutex reads the process- *)
(* wide termination flag, runs deduplicate() and push_back()s the item.   *)
(* Since the whole of enqueue runs under the lock, one enqueue is one     *)
(* step.  The session's writer calls dequeue(), which reads the flag      *)
(* WITHOUT the lock and only then takes the lock to pop the front: those  *)
(* are two steps, and the flag may be set between them.                   *)
(*                                                                         *)
(* A message is abstracted to the fields deduplicate() looks at: its      *)
(* first token (cmd), its parsed TileDesc (tile), whether it contains the *)
(* "setvalue" tag (setvalue), and the viewId of its JSON body (view, or   *)
(* NoView when Poco fails to parse it or the field is missing).           *)
(***************************************************************************)
EXTENDS Naturals, Sequences

CONSTANTS
    Tiles,      \* parsed TileDesc values producers send
    Hashes,     \* range of TileDesc::equalityHash (a uint32 in the code)
    TileHash,   \* TileDesc::equalityHash, a function Tiles -> Hashes
    NoHash,     \* the hash of an item setHash was never called on
    Views,      \* viewId values of invalidateviewcursor: payloads
    NoView,     \* the JSON body does not parse or has no viewId
    Payloads,   \* the messages producers enqueue
    MaxCalls    \* bound on the number of enqueue calls of a behaviour

Commands == {"tile:", "invalidatecursor:", "setpart:", "progress:",
             "invalidateviewcursor:", "other:"}

Message == [cmd : Commands, tile : Tiles, setvalue : BOOLEAN,
            view : Views \cup {NoView}]

ASSUME HashAssumption == /\ TileHash \in [Tiles -> Hashes]
                         /\ NoHash \notin Hashes
ASSUME ViewAssumption == NoView \notin Views
ASSUME PayloadAssumption == Payloads \subseteq Message
ASSUME BoundAssumption == MaxCalls \in Nat

(***************************************************************************)
(* A queued item: the message, the hash cached on it by setHash(), and    *)
(* the sequence number of the enqueue call that brought it (history, for  *)
(* the ordering properties; the code has no such field).                  *)
(***************************************************************************)
Entry == [seq : 1..MaxCalls, msg : Payloads, hash : Hashes \cup {NoHash}]

Outcomes == {"queued", "dropped", "threw"}

VARIABLES
    queue,          \* _queue, the std::deque<Item>
    term,           \* SigUtil's termination flag
    consPc,         \* the writer thread: "idle" or "checked" (flag read false)
    calls,          \* history: every enqueue call, [msg, outcome], in order
    delivered,      \* history: the items dequeue() returned, in order
    lateDelivered   \* history: dequeues that returned an item with the flag set

vars == <<queue, term, consPc, calls, delivered, lateDelivered>>

Init ==
    /\ queue = << >>
    /\ term = FALSE
    /\ consPc = "idle"
    /\ calls = << >>
    /\ delivered = << >>
    /\ lateDelivered = 0

(***************************************************************************)
(* Sequence helper: std::deque::erase.                                     *)
(***************************************************************************)
\* q with its i-th element removed (erase(pos)).
EraseAt(q, i) == [k \in 1..(Len(q) - 1) |-> IF k < i THEN q[k] ELSE q[k + 1]]

(***************************************************************************)
(* The find_if predicates of deduplicate(), one per branch: does the      *)
(* queued item cur match the incoming item new.                           *)
(***************************************************************************)
\* Mutant: the comparison stops at the hashes (no TileDesc equality).
TileMatchesHashOnly(new, cur) ==
    /\ cur.msg.cmd = "tile:"
    /\ TileHash[new.msg.tile] = cur.hash

\* newTilePosHash is computed from the incoming tile; the queued item's
\* hash is the one setHash() cached when it was enqueued.
TileMatches(new, cur) ==
    /\ cur.msg.cmd = "tile:"
    /\ TileHash[new.msg.tile] = cur.hash
    /\ new.msg.tile = cur.msg.tile

SameCommandMatches(new, cur) == cur.msg.cmd = new.msg.cmd

\* Mutant: the incoming progress: is not required to carry the tag.
ProgressMatchesAnyTag(new, cur) ==
    /\ cur.msg.cmd = "progress:"
    /\ cur.msg.setvalue

\* The incoming progress: must itself carry the tag for a search to happen.
ProgressMatches(new, cur) ==
    /\ new.msg.setvalue
    /\ cur.msg.cmd = "progress:"
    /\ cur.msg.setvalue

ViewCursorMatches(new, cur) ==
    /\ cur.msg.cmd = "invalidateviewcursor:"
    /\ cur.msg.view = new.msg.view

\* The dispatch on firstToken() of deduplicate().
Matches(new, cur) ==
    CASE new.msg.cmd = "tile:" -> TileMatches(new, cur)
      [] new.msg.cmd \in {"invalidatecursor:", "setpart:"} ->
             SameCommandMatches(new, cur)
      [] new.msg.cmd = "progress:" -> ProgressMatches(new, cur)
      [] new.msg.cmd = "invalidateviewcursor:" -> ViewCursorMatches(new, cur)
      [] OTHER -> FALSE

\* The index of the first queued item the incoming item new matches, 0 if
\* none: the std::find_if of every branch.
FindIf(q, new) ==
    IF \E i \in 1..Len(q) : Matches(new, q[i])
    THEN CHOOSE i \in 1..Len(q) :
             /\ Matches(new, q[i])
             /\ \A j \in 1..(i - 1) : ~Matches(new, q[j])
    ELSE 0

\* Mutant: setHash() is never called on the incoming tile.
NewItemUnhashed(m, n) == [seq |-> n, msg |-> m, hash |-> NoHash]

\* The item built for call number n: setHash() caches the hash of a tile.
NewItem(m, n) ==
    [seq |-> n, msg |-> m,
     hash |-> IF m.cmd = "tile:" THEN TileHash[m.tile] ELSE NoHash]

\* Poco's parser throws on the incoming body, or on a queued
\* invalidateviewcursor: body that find_if reaches before a match.
ParseThrows(q, new) ==
    /\ new.msg.cmd = "invalidateviewcursor:"
    /\ \/ new.msg.view = NoView
       \/ \E i \in 1..Len(q) :
             /\ q[i].msg.cmd = "invalidateviewcursor:"
             /\ q[i].msg.view = NoView
             /\ \A j \in 1..(i - 1) : ~Matches(new, q[j])

\* deduplicate(): erase the first queued item the incoming one supersedes.
Deduplicate(q, new) ==
    LET pos == FindIf(q, new)
    IN  IF pos = 0 THEN q ELSE EraseAt(q, pos)

\* Mutant: the new item takes the place of the one it supersedes.
DeduplicateInPlace(q, new) ==
    LET pos == FindIf(q, new)
    IN  IF pos = 0 THEN Append(q, new)
        ELSE [q EXCEPT ![pos] = new]

(***************************************************************************)
(* enqueue(item): three outcomes of one call under the lock.              *)
(***************************************************************************)
\* The flag is set: nothing is deduplicated or pushed.
EnqueueDropped(m) ==
    /\ Len(calls) < MaxCalls
    /\ term
    /\ calls' = Append(calls, [msg |-> m, outcome |-> "dropped"])
    /\ UNCHANGED <<queue, term, consPc, delivered, lateDelivered>>

\* deduplicate() throws out of enqueue(); the lock is released by RAII.
EnqueueThrows(m) ==
    /\ Len(calls) < MaxCalls
    /\ ~term
    /\ ParseThrows(queue, NewItem(m, Len(calls) + 1))
    /\ calls' = Append(calls, [msg |-> m, outcome |-> "threw"])
    /\ UNCHANGED <<queue, term, consPc, delivered, lateDelivered>>

\* Mutant: the new item is put where the superseded one was.
EnqueueReplacing(m) ==
    LET new == NewItem(m, Len(calls) + 1)
    IN  /\ Len(calls) < MaxCalls
        /\ ~term
        /\ ~ParseThrows(queue, new)
        /\ queue' = DeduplicateInPlace(queue, new)
        /\ calls' = Append(calls, [msg |-> m, outcome |-> "queued"])
        /\ UNCHANGED <<term, consPc, delivered, lateDelivered>>

\* deduplicate() returns and the item is pushed at the back.
Enqueue(m) ==
    LET new == NewItem(m, Len(calls) + 1)
    IN  /\ Len(calls) < MaxCalls
        /\ ~term
        /\ ~ParseThrows(queue, new)
        /\ queue' = Append(Deduplicate(queue, new), new)
        /\ calls' = Append(calls, [msg |-> m, outcome |-> "queued"])
        /\ UNCHANGED <<term, consPc, delivered, lateDelivered>>

(***************************************************************************)
(* dequeue(item): the unlocked flag check, then the locked pop.  When the *)
(* flag is set the call returns false having changed nothing, a stutter.  *)
(***************************************************************************)
\* Mutant: the flag is not checked before taking the lock.
DequeueCheckIgnoringFlag ==
    /\ consPc = "idle"
    /\ consPc' = "checked"
    /\ UNCHANGED <<queue, term, calls, delivered, lateDelivered>>

DequeueCheck ==
    /\ consPc = "idle"
    /\ ~term
    /\ consPc' = "checked"
    /\ UNCHANGED <<queue, term, calls, delivered, lateDelivered>>

\* Mutant: `if (_queue.size() > 1)` instead of `!_queue.empty()`.
DequeuePopOffByOne ==
    /\ consPc = "checked"
    /\ Len(queue) > 1
    /\ delivered' = Append(delivered, Head(queue))
    /\ queue' = Tail(queue)
    /\ lateDelivered' = IF term THEN lateDelivered + 1 ELSE lateDelivered
    /\ consPc' = "idle"
    /\ UNCHANGED <<term, calls>>

DequeuePop ==
    /\ consPc = "checked"
    /\ queue # << >>
    /\ delivered' = Append(delivered, Head(queue))
    /\ queue' = Tail(queue)
    /\ lateDelivered' = IF term THEN lateDelivered + 1 ELSE lateDelivered
    /\ consPc' = "idle"
    /\ UNCHANGED <<term, calls>>

DequeueEmpty ==
    /\ consPc = "checked"
    /\ queue = << >>
    /\ consPc' = "idle"
    /\ UNCHANGED <<queue, term, calls, delivered, lateDelivered>>

\* SigUtil::setTerminationFlag(): set once, never cleared.
SetTerminationFlag ==
    /\ ~term
    /\ term' = TRUE
    /\ UNCHANGED <<queue, consPc, calls, delivered, lateDelivered>>

Consume == DequeueCheck \/ DequeuePop \/ DequeueEmpty

Next ==
    \/ \E m \in Payloads : EnqueueDropped(m) \/ EnqueueThrows(m) \/ Enqueue(m)
    \/ Consume
    \/ SetTerminationFlag

\* The writer calls dequeue() in a loop for as long as the session lives.
Spec == Init /\ [][Next]_vars /\ WF_vars(Consume)


-----------------------------------------------------------------------------
(***************************************************************************)
(* Properties.                                                             *)
(***************************************************************************)
Call == [msg : Payloads, outcome : Outcomes]

\* Every variable keeps the shape the code gives it.
TypeOK ==
    /\ queue \in Seq(Entry)
    /\ term \in BOOLEAN
    /\ consPc \in {"idle", "checked"}
    /\ calls \in Seq(Call)
    /\ Len(calls) <= MaxCalls
    /\ delivered \in Seq(Entry)
    /\ lateDelivered \in Nat

(***************************************************************************)
(* The spec's notion of "supersedes" (spec section 4.2 table), stated on  *)
(* messages independently of the code's find_if predicates: a message is *)
(* coalescible when a newer one may replace it, and two coalescible       *)
(* messages are replaceable by each other when they name the same target. *)
(***************************************************************************)
Coalescible(m) ==
    \/ m.cmd \in {"tile:", "invalidatecursor:", "setpart:"}
    \/ m.cmd = "progress:" /\ m.setvalue
    \/ m.cmd = "invalidateviewcursor:" /\ m.view # NoView

SameTarget(a, b) ==
    /\ Coalescible(a) /\ Coalescible(b)
    /\ a.cmd = b.cmd
    /\ a.cmd = "tile:" => a.tile = b.tile
    /\ a.cmd = "invalidateviewcursor:" => a.view = b.view

\* Everything the client has been sent followed by everything still queued.
Stream == delivered \o queue

InStream(n) == \E i \in 1..Len(Stream) : Stream[i].seq = n

InQueue(n) == \E i \in 1..Len(queue) : queue[i].seq = n

(***************************************************************************)
(* Spec section 3: at no time are two queued messages for the same target *)
(* (two renders of one tile, two cursor invalidations of one view, ...).  *)
(* It rests on every enqueue erasing the one match deduplicate() finds,   *)
(* on the cached tile hashes and on the command dispatch together.        *)
(***************************************************************************)
NoDuplicateTargets ==
    \A i, j \in 1..Len(queue) :
        i < j => ~SameTarget(queue[i].msg, queue[j].msg)

(***************************************************************************)
(* The inductive invariant behind NoDuplicateTargets: every queued tile   *)
(* carries the equalityHash of its own descriptor (spec section 3: the    *)
(* cached hash is a cache of a pure function), so the hash gate of the    *)
(* tile branch never hides a real match.                                  *)
(***************************************************************************)
HashCached ==
    \A i \in 1..Len(queue) :
        queue[i].msg.cmd = "tile:" => queue[i].hash = TileHash[queue[i].msg.tile]

DedupInv == TypeOK /\ HashCached /\ NoDuplicateTargets

(***************************************************************************)
(* Spec section 5, ordering: the client receives messages in the order    *)
(* their enqueue calls took the lock, and every queued message comes after *)
(* all delivered ones: a superseding message goes to the back, it never   *)
(* takes the place of the one it replaced.                                *)
(***************************************************************************)
FifoDelivery ==
    \A i, j \in 1..Len(Stream) : i < j => Stream[i].seq < Stream[j].seq

(***************************************************************************)
(* Spec sections 3 and 4.2: a message that enqueue() accepted is never    *)
(* lost unless a later accepted message for the same target superseded    *)
(* it; in particular the newest message for every target reaches the      *)
(* queue or the client.  A dedup rule that erases a message of another    *)
(* target (a hash collision, a terminal progress:) breaks it.             *)
(***************************************************************************)
OnlySupersededDropped ==
    \A n \in 1..Len(calls) :
        (calls[n].outcome = "queued" /\ ~InStream(n)) =>
            \E k \in (n + 1)..Len(calls) :
                /\ calls[k].outcome = "queued"
                /\ SameTarget(calls[k].msg, calls[n].msg)

(***************************************************************************)
(* The inductive invariant behind OnlySupersededDropped: every queued     *)
(* item is the message of the accepted call its sequence number names, so *)
(* the item deduplicate() erases stands for a call the new one supersedes.*)
(***************************************************************************)
QueueFromCalls ==
    \A i \in 1..Len(queue) :
        /\ queue[i].seq <= Len(calls)
        /\ calls[queue[i].seq].msg = queue[i].msg
        /\ calls[queue[i].seq].outcome = "queued"

SupersedeInv == DedupInv /\ QueueFromCalls /\ OnlySupersededDropped

(***************************************************************************)
(* Spec section 4.2, what coalescing promises the client: a message that  *)
(* enqueue() accepted and that is gone has a newer message for the same   *)
(* target that has been delivered or is still queued.  Supersession       *)
(* chains (A1 erased by A2, A2 by A3) and each erase hands the promise on *)
(* to the newer call, so the property rests on "same target" being        *)
(* transitive and on the erase removing the match it found, not another.  *)
(***************************************************************************)
NewerVersionKept ==
    \A n \in 1..Len(calls) :
        (calls[n].outcome = "queued" /\ ~InStream(n)) =>
            \E k \in (n + 1)..Len(calls) :
                /\ InStream(k)
                /\ SameTarget(calls[k].msg, calls[n].msg)

\* Its inductive strengthening.
NewerInv == SupersedeInv /\ NewerVersionKept

(***************************************************************************)
(* Spec section 5, cancellation: after the flag is set the writer gets at *)
(* most one more message, the one of a dequeue() already past its         *)
(* unlocked flag check.                                                   *)
(***************************************************************************)
AtMostOneLateDelivery == lateDelivered <= 1

(***************************************************************************)
(* Spec section 6, consumer contract: while the session runs, a queued    *)
(* message leaves the queue, delivered or superseded, unless the flag is  *)
(* set first.                                                             *)
(***************************************************************************)
QueuedEventuallyLeaves ==
    \A n \in 1..MaxCalls : InQueue(n) ~> (~InQueue(n) \/ term)

(***************************************************************************)
(* Refinement: the queue as its callers see it, entries without the       *)
(* cached hash, and the number of enqueue calls.                          *)
(***************************************************************************)
AbsView(s) == [k \in 1..Len(s) |-> [seq |-> s[k].seq, msg |-> s[k].msg]]

Coalescing == INSTANCE CoalescingQueue
                  WITH queue <- AbsView(queue),
                       delivered <- AbsView(delivered),
                       count <- Len(calls),
                       Supersedes <- SameTarget

(***************************************************************************)
(* Spec sections 3 and 4.2: every enqueue() either leaves the queue as it *)
(* was (flag set, exception) or removes exactly the messages the new one  *)
(* supersedes and appends it, and dequeue() takes the head: deduplicate() *)
(* with its hash gate, its per-command find_if and its single erase       *)
(* implements the abstract coalescing queue.                              *)
(***************************************************************************)
CoalescingRefinement == Coalescing!AbsSpec

(***************************************************************************)
(* Spec sections 4.2 and 7: a malformed invalidateviewcursor: body only   *)
(* disables coalescing; enqueue() does not fail and the message is queued *)
(* unless the flag is set.                                                *)
(***************************************************************************)
EnqueueNeverFails == \A n \in 1..Len(calls) : calls[n].outcome # "threw"

(***************************************************************************)
(* Spec sections 5 and 8: once the termination flag is set, dequeue()     *)
(* returns no message, even if the queue is not empty.                    *)
(***************************************************************************)
NoDeliveryAfterTermination == lateDelivered = 0

=============================================================================
