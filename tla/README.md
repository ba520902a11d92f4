# TLA+ verification of the coalescing send queue (`src/wsd/SenderQueue.hpp`)

This directory holds TLA+ models of the per-session outbound queue of the
collaborative-editing server. It also holds TLC configurations that check
the models on small instances, and TLAPS proofs of their main invariants.

## 1. Inventory

### Components

| Component | Source | State | Operations | Status |
|---|---|---|---|---|
| `SenderQueue<Item>` | `src/wsd/SenderQueue.hpp` | `_queue` (a `std::deque` of shared items), `_mutex` | `enqueue`, `dequeue`, `size`, `dumpState`, private `deduplicate` | modelled: `SenderQueue`, `SenderQueueDump`; abstract spec `CoalescingQueue` |
| Termination flag | `common/SigUtil` (not under `src/`) | one process-wide boolean, set once | `getTerminationFlag`, `setTerminationFlag` | modelled from the spec (`SetTerminationFlag`) |
| Message / TileDesc / Poco JSON | not under `src/` | immutable payload, and a hash cached by `setHash` | `firstToken`, `firstLine`, `contains`, `jsonString`, `TileDesc::parse`, `equalityHash` | abstracted into the fields `deduplicate` reads |
| Cypress search-bar test, archived npm tarballs, Dockerfile | `src/cypress_test/...`, `src/browser/archived-packages/...`, `src/docker/...` | none relevant | none | not modelled: UI test, vendored build inputs and a build recipe |

### How the parts interact

- Producer threads call `enqueue(item)`. The method takes `_mutex` for its
  whole body. Under the lock it reads the termination flag, runs
  `deduplicate` and `push_back`s the item.
- `deduplicate` dispatches on the item's first token:
  - `tile:`: parses the descriptor, caches its `equalityHash` on the
    incoming item with `setHash`, and erases the first queued tile whose
    cached hash equals the freshly computed hash and whose full descriptor
    is equal.
  - `invalidatecursor:` and `setpart:`: erases the first queued message with
    the same token.
  - `progress:`: only when the incoming message has the `"id":"setvalue"`
    tag, erases the first queued `progress:` message that also has it.
  - `invalidateviewcursor:`: parses the JSON of the incoming message and of
    each queued one with Poco, and erases the first with the same `viewId`.
  - any other token: erases nothing.
- The session's writer calls `dequeue(item)` in a loop. The method reads
  the flag WITHOUT the lock. If the flag is clear, it takes the lock and
  pops the front, or returns false when the queue is empty.
- `size` and `dumpState` only read under the lock. `dumpState` writes a
  report that collapses runs of identical lines into `<repeats N times>`.

### What is hard

- **The unlocked flag read in `dequeue`** (line 47). The flag can be set
  between the check and the pop.
- **Exceptions in `deduplicate`**. Poco throws on a malformed body (line
  177). The exception leaves `enqueue` after part of the work, and the
  message is lost.
- **The cached hash** (lines 119 and 126). Line 126 compares the hash
  computed from the incoming tile with the hash cached on the queued item
  by an earlier `setHash`. A match is found only if every queued tile
  carries the hash of its own descriptor. The model keeps both sides:
  `TileMatches` compares `TileHash[new.msg.tile]` with `cur.hash`.
- **Hash collisions** (line 128). Only the full comparison stops the
  wrong tile from being erased.
- **"Erase the first match only"** (lines 137, 151, 167, 195). This is
  enough only if there is never more than one match. That must hold over
  every sequence of enqueues and dequeues.
- **The position of the superseding message**. It goes to the tail, which
  preserves FIFO order for everything else.

### What makes each component correct

- **No two queued messages for one target** (spec section 3). A target is
  one tile, the cursor, the part, the live progress value, or one view's
  cursor.
- **Only superseded messages are dropped.** The newest message for every
  target reaches the client.
- **FIFO delivery.**
- **Shutdown.** After the flag is set, the writer gets at most one more
  message. That the queue never grows again is the `~term` guard of
  `Enqueue` (line 37) itself and needs no property of its own.
- **Progress.** While the session runs, a queued message is eventually
  delivered or superseded.

The hazards are listed, each at its line, under `hazards` in `PROJECT.json`.

## 2. Plan

1. **`SenderQueue`** (done). The core: enqueue with all `deduplicate`
   branches, the two-step dequeue, and termination.
2. **`SenderQueueProofs`** (done). Type correctness, no duplicate targets,
   FIFO delivery, and at most one late delivery after shutdown.
3. **`SenderQueueDump`** (done). `dumpState`'s loop, checked against the
   spec's collapsing rule.
4. **`CoalescingQueue`** (done). The abstract queue. The refinement is
   checked by TLC and proved in `CoalescingRefinementProofs`.
5. **`SupersedeProofs`** (done). `OnlySupersededDropped` and the stronger
   `NewerVersionKept`, proved through invariants over the call history.
6. **Next.**
   - A composition of several sessions' queues sharing the termination flag
     would bound the late deliveries per process. It would also make the
     `setHash` write on a shared `Item` (line 119) visible, if callers ever
     share items.

## 3. Modules

### `SenderQueue.tla`

Constants:
- `Tiles`, `Hashes` and `TileHash` (the `equalityHash` function).
- `NoHash`: the hash of an item that never went through `setHash`.
- `Views` and `NoView` (a body Poco cannot parse, or one without `viewId`).
- `Payloads`: the messages producers send.
- `MaxCalls`: the bound on enqueue calls.

Each constant has a named `ASSUME`.

A message is a record `[cmd, tile, setvalue, view]`, the fields
`deduplicate` reads. A queue entry adds the cached `hash` and the number
`seq` of the enqueue call that brought it. `seq` is history, used by the
ordering properties only.

| Variable | Code |
|---|---|
| `queue` | `_queue` |
| `term` | the termination flag |
| `consPc` | the writer is inside `dequeue`, past the flag check |
| `calls`, `delivered`, `lateDelivered` | history: every enqueue call and its outcome, what the writer received, and what it received after the flag was set |

| Action | Code |
|---|---|
| `EnqueueDropped(m)` | `enqueue` with the flag set (line 37) |
| `EnqueueThrows(m)` | Poco throws in `deduplicate` (lines 175–189); the queue is unchanged |
| `Enqueue(m)` | `deduplicate` then `push_back` (lines 37–38, 109–200) |
| `DequeueCheck` | the unlocked flag read (line 47). With the flag set, `dequeue` returns false having changed nothing, which is a stutter |
| `DequeuePop`, `DequeueEmpty` | the locked pop or empty return (lines 53–62) |
| `SetTerminationFlag` | `SigUtil`, modelled from the spec |

`enqueue` is one step because its whole body holds `_mutex`. A flag write
between the read at line 37 and the `push_back` is equivalent to a write
just after the step. `dequeue` is two steps because its flag read is
outside the lock.

The helpers `FindIf` and `EraseAt` are `std::find_if` and
`deque::erase`. `Matches` is the dispatch of `deduplicate` over one
predicate per branch. `NewItem` caches `equalityHash` on tiles as
`setHash` does.

The spec's notion of supersession is stated separately, from the spec's
table, in `Coalescible` and `SameTarget`. The properties use it, so they
compare the code's matching against the spec's notion.

### `SenderQueueDump.tla`

`dumpState` (lines 71–103) as the loop it is. The queue is a constant
input chosen in the initial state: every sequence of up to `MaxItems`
items. An item is abstracted to what the loop reads of it:
- `abbr`, the abbreviated text (`getAbbreviatedMessage`); `""` stands for
  an empty payload;
- `binary`;
- `size`.

An output line is a record: the count header, an item line (by index), a
repeats marker, or the byte total. Wording is left out.

| Variable / action | Code |
|---|---|
| `i`, `repeats`, `lastStr`, `totalSize`, `out` | the loop's iterator, `repeats`, `lastStr`, `totalSize`, the stream `os` |
| `DumpInit` | header and loop set-up (lines 73–80) |
| `DumpItem` | one iteration: count a repeat, or flush the marker; print the item when `repeats == 0`; update `lastStr` and `totalSize` (lines 81–99) |
| `DumpFinish` | the flush after the loop and the byte total (lines 100–102) |

`SpecListing` is the reference definition of spec section 4.2 as a
recursive function: item `k` collapses into item `k - 1` when both are
text with the same abbreviation.

### `CoalescingQueue.tla` (abstract specification)

What the queue promises, with no hash, no dispatch, no exception and no
flag. Variables are `queue`, `delivered` and `count`. Actions:
- `Put(m)`: drop every queued entry `m` supersedes, keep the others in
  order and append `m`. The kept positions are listed by an increasing
  function `f` (`Enumerates`), so TLC can evaluate it and TLAPS can reason
  about it without `SelectSeq`'s recursion.
- `Refuse(m)`: a call that leaves the queue alone.
- `Take`: pop the head.

`Supersedes` is a constant operator. `SenderQueue` instantiates the module
as `Coalescing`:
- `queue` and `delivered` map to `AbsView(queue)` and `AbsView(delivered)`,
  the entries without the cached hash;
- `count` maps to `Len(calls)`;
- `Supersedes` maps to `SameTarget`.

`CoalescingRefinement == Coalescing!AbsSpec` is a property of `queue_core`.
The abstract spec has no fairness. After termination the writer stops, so
`Take` may stay enabled forever.

### `MC_SenderQueue.tla` and the runs

The instance has eleven payloads:
- three tiles, two of which (`tA` and `tB`) share an `equalityHash`;
- `invalidatecursor:`, `setpart:` and one unrelated command;
- `progress:` with and without the setvalue tag;
- `invalidateviewcursor:` for two views and with a malformed body.

`MaxCalls = 4`. Four calls are enough for every pattern the properties
are about. Examples:
- superseding with an unrelated message in between (`A X A`);
- a collision (`tA tB`);
- a terminal progress message between two setvalue ones;
- a malformed body after a queued view cursor;
- termination with the writer at either point of `dequeue`.

`queue_core` explores 797,916 distinct states in about 50 s.

`MC_SenderQueueDump` has up to four items, the abbreviations `""`,
`status:` and `tile:`, and sizes 1 and 2. That is every queue of that
shape, 133,670 states. Four items give a run of repeats that ends the
queue, a binary/text pair, and an empty first item.

| Run | Expect | What it shows |
|---|---|---|
| `queue_core` | pass | `NoDuplicateTargets`; `FifoDelivery` (what was delivered followed by what is queued is in enqueue order); `OnlySupersededDropped` (an accepted message is gone only if a later accepted message has the same target); `NewerVersionKept` (an accepted message that is gone has a newer same-target message that has been delivered or is still queued); `AtMostOneLateDelivery`; `QueuedEventuallyLeaves` (liveness); `CoalescingRefinement` (the queue implements `CoalescingQueue`) |
| `malformed_view_cursor` | violation of `EnqueueNeverFails` | a malformed `invalidateviewcursor:` body makes `enqueue` throw and lose the message. The spec says it is queued uncoalesced |
| `late_delivery` | violation of `NoDeliveryAfterTermination` | a `dequeue` past its unlocked check delivers after the flag is set. The spec says none is delivered |
| `dump_accounting` | pass | `DumpAccountsForAll`: the report counts every item once, listed or in a repeats marker, and gives the right count and byte total |
| `dump_repeat_of_binary` | violation of `DumpMatchesSpec` | a text item after a binary one with the same abbreviation is reported as a repeat of the binary line (line 85). The spec says binary entries never collapse |
| `dump_empty_first` | violation of `DumpMatchesSpec` | a first text item with an empty abbreviation equals `lastStr`'s initial `""` (line 80). It is reported as `<repeats 1 times>` and never listed |

Deadlock checking is off. `dumpState` returns once it has written the
total. For the queue, after the flag is set, every call is a no-op and
the process exits. Once the call bound is reached, those states have no
successor.

**Fairness.** `WF_vars(Consume)`: the writer calls `dequeue` in a loop
for as long as the session lives (spec section 6, consumer contract).
Producers and termination get no fairness: they may stop at any time.

Each property of `queue_core` has a mutant in `PROJECT.json` that models a
plausible bug and breaks it:
- line 119 (`setHash`) is deleted. Queued tiles then keep no hash, and the
  comparison at line 126 never matches them (breaks `NoDuplicateTargets`);
- the new message replaces the old one in place (breaks `FifoDelivery`);
- tiles are compared by hash only (breaks `OnlySupersededDropped` and
  `NewerVersionKept`);
- the flag check is dropped from `dequeue` (breaks `AtMostOneLateDelivery`);
- the pop test is off by one (breaks `QueuedEventuallyLeaves`);
- a terminal `progress:` searches for setvalue ones (breaks `CoalescingRefinement`);
- the flush after the dump loop is dropped (breaks `DumpAccountsForAll`).

## 4. Proofs

### `SenderQueueProofs.tla`

- **`TypeCorrect`** proves `Spec => []TypeOK`, from `TypeInit` and
  `TypeStep`. The other proofs use it. `TypeOK` is not a property of a
  run: no plausible bug in the code breaks the shape of the state.
- **`NoDuplicateTargetsHolds`** proves `Spec => []NoDuplicateTargets`.
  `NoDuplicateTargets` alone is not inductive. A queued tile with a wrong
  cached hash would be invisible to `find_if`, so the invariant is
  strengthened to `DedupInv == TypeOK /\ HashCached /\ NoDuplicateTargets`.
  `DedupInv` is an aid to the proof, not a property of a run. Its only
  conjunct beyond the type and `NoDuplicateTargets` is `HashCached`, which
  restates `setHash` at line 119. The argument:
  - `MatchesIsSameTarget`: the code's `Matches` equals the spec's
    `SameTarget`, branch by branch, for a parsed incoming item and a queued
    item with a correct cached hash.
  - `SameTarget` is symmetric and transitive. So at most one queued item
    matches, and it is the one `find_if` returns. `DeduplicateErasesTarget`
    states the result: the queue is kept, or its single same-target entry
    is erased.
  - Erasing, appending and popping preserve both conjuncts.
- **`FifoDeliveryHolds`** proves `Spec => []FifoDelivery`. The inductive
  invariant is `FifoInv` together with `DedupInv`. `FifoInv` says:
  - `delivered` and `queue` are each increasing in `seq`;
  - every delivered entry is older than every queued one;
  - no `seq` exceeds `Len(calls)`.

  The bound makes the next call's item the newest. `DedupInv` is needed
  because `find_if`'s CHOOSE is only known to pick a queue position when
  the match is unique. The lemmas are `EraseKeepsOrder`,
  `AppendKeepsOrder` and `ConcatIncreasing`.
- **`AtMostOneLateDeliveryHolds`** uses `LateInv`: a late delivery leaves
  the writer idle with the flag set, and `DequeueCheck` then never fires.

### `CoalescingRefinementProofs.tla`

**`CoalescingRefinementHolds`** proves `Spec => CoalescingRefinement`.
- `RefineInit`: the initial state maps to `AbsInit`.
- `RefineStep`, under `DedupInv`:
  - a returning `Enqueue` is `Put`;
  - a dropped or thrown enqueue is `Refuse`;
  - `DequeuePop` is `Take`;
  - everything else is a stutter of `avars`.
- `PutRefined` gives the witness of `Put`. With no match it is the
  identity. With a match at `p` it is `k |-> IF k < p THEN k ELSE k + 1`,
  the positions `deque::erase` keeps.
- `AbsViewAppend` and `AbsViewHeadTail` show that the mapping commutes
  with the sequence operations.

### `SupersedeProofs.tla`

**`OnlySupersededDroppedHolds`** proves `Spec => []OnlySupersededDropped`:
every call whose `enqueue()` returned is delivered, still queued, or
superseded by a later accepted call for the same target.

The property alone is not inductive. When `deduplicate()` erases the
queued item at position `p`, the proof must show that the call that queued
it has the incoming message's target. Nothing in `OnlySupersededDropped`
links a queue entry to a call. The strengthening is
`SupersedeInv == DedupInv /\ QueueFromCalls /\ OnlySupersededDropped`.
`QueueFromCalls` says that every queued item is the message of the
accepted call its sequence number names. Like `DedupInv`, it is an aid to
the proof and not a property of a run. The argument:
- `Has(s, n)` says some entry of `s` has sequence number `n`. `StreamHas`
  splits `InStream(n)` into `delivered` and `queue`. `ConcatHas`,
  `PopHas`, `EraseHas` and `AppendHas` say how each sequence operation
  changes `Has`.
- `DeduplicateKeeps`, built on `DeduplicateErasesTarget`, says three
  things. Every entry `deduplicate()` keeps was in the queue. Its result is
  a sequence of entries. An entry that leaves the queue has the new
  message's target.
- `SupEnqueue`: a returning `enqueue()` of call `c + 1` keeps
  `QueueFromCalls`, since the new entry carries `c + 1`. For
  `OnlySupersededDropped`, take an accepted call `n` that was in the
  stream and is not in it now. Its entry is the erased one, so
  `QueueFromCalls` gives `calls[n].msg = q[p].msg`. The new call `c + 1`
  is the later superseder. The other cases keep their old witness.
- `SupRefuse`: a dropped or thrown call is not accepted, and it changes
  neither `queue` nor `delivered`. `SupPop` moves the head into
  `delivered`, and `PopHas` shows the stream holds the same numbers.
- `SupInit` and `SupStep` give the theorem by PTL.

**`NewerVersionKeptHolds`** proves `Spec => []NewerVersionKept`. Take any
accepted message that is gone. Some newer accepted message for the same
target has been delivered or is still queued. This is stronger than
`OnlySupersededDropped`, whose superseder may itself be gone. The
inductive invariant is `NewerInv == SupersedeInv /\ NewerVersionKept`.
The argument:
- `EnqueueStream`: a returning `enqueue()` of call `c + 1` puts `c + 1`
  in the stream. Any number it takes out of the stream is the queued item
  of the incoming message's target.
- `NewerEnqueue`: suppose call `n` leaves the stream. `QueueFromCalls`
  makes the new call `n`'s superseder. Now suppose instead that `n`'s
  witness `k` leaves. The new call supersedes `k`. `SameTargetSymmetric`
  and `SameTargetTransitive` then make it supersede `n` too. In both cases
  the new call, which is in the stream, is the witness. This is why
  supersession chains keep the latest version.
- `NewerRefuse` and `NewerPop`: the stream keeps its numbers, and a
  refused call is not accepted.

### Assumptions, and what stays with TLC

The assumptions used are:
- `HashAssumption` (`equalityHash` is a function into `Hashes`);
- `PayloadAssumption`;
- `BoundAssumption`.

Nothing is assumed about collisions.

**Left to TLC:**
- **`QueuedEventuallyLeaves`** (liveness: fairness and ENABLED are beyond
  the prover).
- **`SenderQueueDump`** (`DumpAccountsForAll`, `DumpMatchesSpec`). Both
  properties are stated through recursive functions: `SumOf` and
  `SpecListing`. To reason about them, the prover needs the fact that such
  a function satisfies its defining equation. That fact needs induction
  with an operator parameter (`NatInductiveDef` of `NaturalsInduction`),
  and the installed provers cannot instantiate it. The dump's accounting
  therefore stays model-checked on every queue of up to four items.

## 5. Not modelled

- `size()` only reads.
- `TileDesc::parse` failures: `TileDesc` is outside `src/`, and the spec
  says a malformed tile matches nothing. No malformed tile is in the
  payloads yet.
- Whether one Item is shared by several queues, which would make the
  `setHash` write a cross-mutex data race, is decided by callers outside
  `src/` (plan step 5).
- The test, tarballs and Dockerfile under `src/` are not part of the
  queue's behaviour.
