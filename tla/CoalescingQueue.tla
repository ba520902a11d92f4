--------------------------- MODULE CoalescingQueue ---------------------------
(***************************************************************************)
(* What the send queue promises its callers (spec sections 3 and 4.2):    *)
(* a call either leaves the queue alone or appends its message after     *)
(* removing every queued message the new one supersedes, keeping the     *)
(* order of the rest; the writer takes messages from the head.  There is *)
(* no hash, no dispatch on the command, no exception and no termination  *)
(* flag: refusing a call is all the abstract queue says of those.        *)
(*                                                                         *)
(* Supersedes(new, old) is the spec's same-target relation; SenderQueue  *)
(* instantiates it with SameTarget.                                       *)
(***************************************************************************)
EXTENDS Naturals, Sequences

CONSTANTS
    Payloads,           \* the messages callers enqueue
    MaxCalls,           \* bound on the number of enqueue calls
    Supersedes(_, _)    \* Supersedes(new, old): new makes old obsolete

VARIABLES
    queue,      \* the queued entries [seq, msg], oldest first
    delivered,  \* the entries the writer has taken, in order
    count       \* the number of enqueue calls so far

avars == <<queue, delivered, count>>

AbsEntry == [seq : 1..MaxCalls, msg : Payloads]

AbsInit ==
    /\ queue = << >>
    /\ delivered = << >>
    /\ count = 0

\* The positions of q that a new message m leaves in place.
Kept(q, m) == {k \in 1..Len(q) : ~Supersedes(m, q[k].msg)}

\* f lists the set S of positions in increasing order.
Enumerates(f, n, S) ==
    /\ \A k, l \in 1..n : k < l => f[k] < f[l]
    /\ \A j \in S : \E k \in 1..n : f[k] = j

\* A call that queues m: the superseded entries go, m goes to the back.
Put(m) ==
    /\ count < MaxCalls
    /\ \E n \in 0..Len(queue) :
         \E f \in [1..n -> Kept(queue, m)] :
            /\ Enumerates(f, n, Kept(queue, m))
            /\ queue' = Append([k \in 1..n |-> queue[f[k]]],
                               [seq |-> count + 1, msg |-> m])
    /\ count' = count + 1
    /\ UNCHANGED delivered

\* A call that leaves the queue as it is.
Refuse(m) ==
    /\ count < MaxCalls
    /\ count' = count + 1
    /\ UNCHANGED <<queue, delivered>>

\* The writer takes the oldest entry.
Take ==
    /\ queue # << >>
    /\ delivered' = Append(delivered, Head(queue))
    /\ queue' = Tail(queue)
    /\ UNCHANGED count

AbsNext ==
    \/ \E m \in Payloads : Put(m) \/ Refuse(m)
    \/ Take

AbsSpec == AbsInit /\ [][AbsNext]_avars

=============================================================================
