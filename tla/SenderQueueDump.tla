-------------------------- MODULE SenderQueueDump --------------------------
(***************************************************************************)
(* SenderQueue::dumpState(): the loop that lists the queued items under   *)
(* the lock and collapses repeated lines into "<repeats N times>".  The   *)
(* queue is read only, so it is a constant input of the loop: an item is  *)
(* abstracted to what the loop reads of it, the abbreviated text          *)
(* (COOLProtocol::getAbbreviatedMessage), isBinary() and size().          *)
(*                                                                         *)
(* An output line is a record: the item count header, an item line (the   *)
(* index of the item it lists), a repeats marker, or the byte total.      *)
(***************************************************************************)
EXTENDS Naturals, Sequences

CONSTANTS
    Abbrs,      \* abbreviated texts; "" is the abbreviation of an empty payload
    Sizes,      \* item sizes in bytes
    MaxItems    \* bound on the number of queued items

ASSUME DumpAssumption == /\ Sizes \subseteq Nat
                         /\ MaxItems \in Nat

Item == [abbr : Abbrs, binary : BOOLEAN, size : Sizes]

Line(kind, n) == [kind |-> kind, n |-> n]

VARIABLES
    items,      \* the queue being dumped
    i,          \* the loop's position in the queue
    repeats,    \* the repeats counter
    lastStr,    \* the previous item's abbreviation
    totalSize,  \* bytes counted so far
    out,        \* the lines written to os
    pc          \* "loop" or "done"

dvars == <<items, i, repeats, lastStr, totalSize, out, pc>>

\* Lock taken; the header is written and the loop state initialised.
DumpInit ==
    /\ items \in UNION {[1..n -> Item] : n \in 0..MaxItems}
    /\ i = 1
    /\ repeats = 0
    /\ lastStr = ""
    /\ totalSize = 0
    /\ out = << Line("count", Len(items)) >>
    /\ pc = "loop"

\* One iteration of the for loop over _queue.
DumpItem ==
    LET it == items[i]
        same == lastStr = it.abbr /\ ~it.binary
        flush == ~same /\ repeats > 0
        r == IF same THEN repeats + 1 ELSE 0
    IN  /\ pc = "loop"
        /\ i <= Len(items)
        /\ repeats' = r
        /\ out' = out \o (IF flush THEN << Line("repeats", repeats) >> ELSE << >>)
                      \o (IF r = 0 THEN << Line("item", i) >> ELSE << >>)
        /\ lastStr' = it.abbr
        /\ totalSize' = totalSize + it.size
        /\ i' = i + 1
        /\ UNCHANGED <<items, pc>>

\* Mutant: the pending repeats are not flushed after the loop.
DumpFinishNoFlush ==
    /\ pc = "loop"
    /\ i > Len(items)
    /\ out' = Append(out, Line("size", totalSize))
    /\ pc' = "done"
    /\ UNCHANGED <<items, i, repeats, lastStr, totalSize>>

\* After the loop: flush pending repeats, then the byte total.
DumpFinish ==
    /\ pc = "loop"
    /\ i > Len(items)
    /\ out' = out \o (IF repeats > 0 THEN << Line("repeats", repeats) >> ELSE << >>)
                  \o << Line("size", totalSize) >>
    /\ pc' = "done"
    /\ UNCHANGED <<items, i, repeats, lastStr, totalSize>>

DumpNext == DumpItem \/ DumpFinish

\* dumpState returns once the report is written.
DumpSpec == DumpInit /\ [][DumpNext]_dvars

-----------------------------------------------------------------------------
(***************************************************************************)
(* Reference definitions, from spec section 4.2: consecutive identical    *)
(* text entries are collapsed into one line and a repeats marker; binary  *)
(* entries are never collapsed.                                           *)
(***************************************************************************)
\* Item k is a repeat of item k - 1 in the spec's sense.
SpecRepeat(k) ==
    /\ k > 1
    /\ ~items[k].binary /\ ~items[k - 1].binary
    /\ items[k].abbr = items[k - 1].abbr

\* The listing the spec describes for items 1..k.
SpecListing[k \in 0..MaxItems] ==
    IF k = 0 \/ k > Len(items) THEN << >>
    ELSE LET prev == SpecListing[k - 1]
         IN  CASE ~SpecRepeat(k) -> Append(prev, Line("item", k))
               [] prev[Len(prev)].kind = "repeats" ->
                      [prev EXCEPT ![Len(prev)] = Line("repeats", @.n + 1)]
               [] OTHER -> Append(prev, Line("repeats", 1))

\* The sum of a sequence of line counts or sizes.
SumOf(f, n) ==
    LET S[k \in 0..n] == IF k = 0 THEN 0 ELSE S[k - 1] + f[k]
    IN  S[n]

-----------------------------------------------------------------------------
(***************************************************************************)
(* Spec section 4.2: the report accounts for every queued item once,      *)
(* listed or counted in a repeats marker, and its header and trailer      *)
(* give the item count and the byte total.  Repeats still pending when    *)
(* the loop ends must be flushed for it to hold.                          *)
(***************************************************************************)
DumpAccountsForAll ==
    pc = "done" =>
        LET body == SubSeq(out, 2, Len(out) - 1)
            weight == [k \in 1..Len(body) |->
                          IF body[k].kind = "item" THEN 1 ELSE body[k].n]
        IN  /\ out[1] = Line("count", Len(items))
            /\ out[Len(out)] = Line("size", SumOf([k \in 1..Len(items) |-> items[k].size],
                                                  Len(items)))
            /\ SumOf(weight, Len(body)) = Len(items)
            /\ \A k \in 1..Len(body) : body[k].kind \in {"item", "repeats"}

(***************************************************************************)
(* Spec section 4.2: the listing is the spec's collapsing of consecutive  *)
(* identical text entries, binary entries never collapsed.                *)
(***************************************************************************)
DumpMatchesSpec ==
    pc = "done" => SubSeq(out, 2, Len(out) - 1) = SpecListing[Len(items)]

=============================================================================
