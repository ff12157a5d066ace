# TLA+ models of the gsuneido database core

This directory holds TLA+ specifications of the parts of this repository whose
correctness depends on sequences of operations, sharing between versions and
interleavings: the copy-on-write hash array mapped trie (HAMT) that versions the
database metadata, the metadata directories built on it, and the observer and
rule machinery of `SuRecord` with its saving to and reading from database
rows, and the command line parser. Each module is translated from the Go source
named in `PROJECT.json` ("map"). Each run is a TLC configuration listed under
"runs" with its expected outcome.

## 1. The system and its parts

| Part | Source | State | Operations |
|---|---|---|---|
| HAMT | `src/genny/hamt/hamt.go` | nodes (`generation`, `bmVal`, `bmPtr`, `vals`, `ptrs`); handles (`root`, `mutable`, `generation`) | `Get`, `Mutable`, `Put`, `Delete`, `Freeze`, `ForEach`, `Write`, `ReadItemChain` |
| Info directory | `src/db19/meta/info.go` | `Info` per table (`Nrows`, `Size`, `Indexes` overlays) in an info HAMT | `Merge`, `ApplyMerge`, `Persist`, `ApplyPersist`, `MustGet`, tombstones, `Write`/`ReadInfo` |
| Schema directory | `src/db19/meta/schema/schema.go` | `Schema` (columns, indexes, foreign keys) | `FindIndex`, `IIndex`, `Equal`, `String` |
| SuRecord | `src/runtime/surecord.go` | fields, `invalid` set, `invalidated` queue, `dependents`, `observers`, `activeObservers`, `attachedRules`, the thread's `activeRules` | `Put`, `Invalidate`, `Delete`, `Get` with rule evaluation, `callObservers` |
| Checker | not under `src/` (only `checker_test.go`) | live and committed transactions with their write sets | `StartTran`, `Write`, `Commit`, `Abort` |
| Overlay, B-tree, inter-buffers, Stor, ixkey | not under `src/` (tests only) | | |
| SuRecord persistence | `src/runtime/surecord.go`, `src/builtin/query.go` | the row a record came from (`row`, `userow`), `dependents` as saved in `_deps` columns | `SuRecordFromRow`, `Copy`/`copyDeps`, `ToRecord`/`getDeps`/`getPacked`, `DbUpdate`, `queryOne` |
| Options | `src/options/parse.go` | `Client`, `Repl`, `Port`, `Unattended`, `Version`, `Help`, `CmdLine`, `Errlog`, `Outlog` | `Parse`, `remainder` |
| Compiler codegen, DbmsClient, builtins, assert, SuBool, SuExcept | `src/unnamed/*`, `src/builtin/*`, ... | | translation, marshalling |

How they interact. Both metadata directories are HAMTs keyed by table name. A
reader takes a frozen HAMT handle and keeps using it. The writer makes a new
handle with `Mutable()` from the latest frozen one, applies its changes, and
publishes the result with `Freeze()`. `ApplyMerge` and `ApplyPersist` (info.go)
have exactly this shape: `t2 := meta.info.Mutable()`, a `MustGet`/`Put` per
table, then `t2.Freeze()`. What they apply was computed earlier by `Merge` and
`Persist` against an older snapshot. The directories are persisted as a chain of
HAMT chunks (`Write` with a `prevOff`), and `ReadItemChain` rebuilds them with
the newest version of each table winning. `SuRecord` is independent of the
database core: one record object is shared by UI code, rules and observers.
A record read from the database keeps the row it came from and takes its
dependencies from the row's `_deps` columns; `ToRecord` writes rule values
and dependencies back, and `Update` saves through it.

### Hard behaviours

- **Structural sharing between generations.** A node may be reachable from
  several frozen snapshots and from the mutable handle at once. The code mutates
  a node in place only when its `generation` equals the handle's. It path-copies
  (`dup`) every other node on the way down in `with`, `without` and `pullUp`.
- **Delete with pull-up.** Removing a value whose slot also has a child pulls the
  rightmost item up from the child. This must keep the bitmaps, the ranks and
  the order of `vals`/`ptrs` consistent across many operations.
- **Overflow nodes.** Below the last bitmap level, colliding keys live in
  unordered lists, and deletion there swaps with the last item.
- **The generation counter** is a `uint32` that `Mutable` increments without any
  check.
- **Merge/Persist results applied later**, to a possibly different info
  snapshot, matched to indexes by position.
- **Observer re-entrancy in SuRecord.** The record's lock is released while
  observers run. Observers may write to the record again. The recursion guard
  is keyed by (observer, member).

### Correctness properties by part

- HAMT:
  - every live trie (the mutable one and every snapshot) keeps the bitmap/rank
    shape that `get` relies on;
  - `Get` agrees with `ForEach`;
  - nodes the mutable handle may write are not shared with snapshots;
  - the trie as a whole implements a map with frozen, immutable snapshots.
- Info: merges computed against an older info and applied after further
  commits neither lose nor repeat a layer; a reader's info never changes.
- Chain persistence: reading the chain gives, per key, the newest written
  version, and tombstones hide older entries.
- SuRecord: a rule field whose stored value no longer matches its rule is
  marked invalid; every change is eventually reported to every registered
  observer (except the one already running for that member); the
  `activeObservers` stack matches the observer calls in progress; the
  re-entrancy stays bounded.

## 2. Modules

| Module | Models | Status |
|---|---|---|
| `HamtAbstract` | what a HAMT promises: one mutable map and frozen snapshots, as total functions `Keys -> Vals \cup {Absent}` | done |
| `Hamt` | `hamt.go` lines 18-294: nodes, generations, `get`, `with`, `without`, `pullUp`, `forEach`, `Mutable`, `Put`, `Delete`, `Freeze`; refines `HamtAbstract` | done |
| `MCHamt` | instantiates `Hamt` for TLC: model-value keys and a hash function | done |
| `HamtChain` | `hamt.go` `Write` / `ReadItemChain` / `read` and the info directory's tombstones: chained chunks, filters, first-wins reading, crash and reopen; `info.go` `Info.Write`, `ReadInfo`, `newInfoTomb`, `isTomb` | done |
| `MetaInfo` | `info.go`: `Merge`/`ApplyMerge`, `Persist`/`ApplyPersist`, `MustGet`, tombstones, racing with commits, drops and readers | done (commit and overlay steps spec-modelled) |
| `SuRecord` | `surecord.go`: get with rule evaluation, put, toggle (`GetPut` with a toggling `op`), invalidate, delete, SetDeps, Observer/RemoveObserver, `callObservers` with the `activeObservers` guard | done (AttachRule, Erase, list operations left out) |
| `MCSuRecord` | rule chain, observer bodies and top-level calls for TLC | done |
| `SuRecordPersist` | `surecord.go`: `SuRecordFromRow`, `Get` through the row (`getIfPresent`, `getPacked`, `getDeps`), `Put`, `Invalidate`, `Copy`/`copyDeps`, `ToRecord`, `DbUpdate`; `query.go` `queryOne` | done (observers left to `SuRecord`); also `Delete`/`Erase`, `ToObject`, `DeleteAll`, `Clear`, `SetReadOnly`, `DbDelete` |
| `MCSuRecordPersist` | rule and column layout for TLC | done |
| `OptionsParse` | `parse.go`: one step per iteration of the `Parse` loop, then `remainder` and the log names | done |
| `Checker` | the transaction checker | not modelled (no code under `src/`) |

### Hamt: state and actions

The heap is a function from node ids to node records. A bitmap is the set of its
one bits (`Rank` is `bits.OnesCount32(bm & (bit-1))`). Handles are records
`[root, generation]`. `mut` is the one mutable handle, or `NoHamt`. `snaps[i]`
are the frozen handles held by readers. `deleted` records the last `Delete`'s
key and result.

| Action | Code |
|---|---|
| `Mutable(i)` | `ItemHamt.Mutable` on snapshot `i`: `gen := ht.generation + 1` modulo `2^GenBits`, and the root duplicated with that generation |
| `Put(k, v)` | `ItemHamt.Put` → `With`, the recursive `with()` with its four slot cases and overflow branch |
| `Delete(k)` | `ItemHamt.Delete` → `Without` / `DropValue` / `PullUp` |
| `Freeze(i)` | `ItemHamt.Freeze`, published as snapshot `i`, the mutable handle dropped |
| `Release(i)` | a reader drops its handle |

Every step ends with `Settle`, which keeps only the nodes reachable from live
handles and renumbers them in depth-first order. Go's collector does the same
for the unreachable nodes. Node identity is never observable through the API,
so the renumbering only merges states that differ in ids. Allocation is
unbounded in the code. The model draws ids from `1..MaxNodes`, and an ASSUME
makes `MaxNodes` large enough for every live node.

### HamtChain: state and actions

The directory in memory (`mem`) is the map the HAMT implements (justified by
`AbsSpec` in `hamt_core`). `dirty` is the set of keys changed since the last chunk
(the filter `Info.lastmod` gives `Write`). `stor` is the sequence of chunks,
each `[prev, items]`, and `head` the offset of the newest one. `Selected`,
`WriteOff`, `WriteStor` are `Write` (an empty selection writes nothing and
returns 0); `Read`/`ReadFrom`/`ReadItemChain` are `read` and `ReadItemChain`
(an item is put only if its key is not yet there, so newer chunks win).
`Update` and `Drop` (a tombstone, `newInfoTomb`) change an entry; `Persist`
writes the changed items chained to `head` and takes the returned offset as
the new head; `Restart` is a crash and reopen, rebuilding `mem` from the
chain. The ghost `durable` is `mem` as of the last persist. An item is
`[key, ver, idx]`: `ver` stands for the entry's contents and `idx` is the
length of its index list, or `Nil` for a tombstone (`newInfoTomb` sets only
`Table`; `IsTomb` is `Indexes == nil`). Chunks hold items as `InfoWrite`
stores them, `len(Indexes) % 256` in one byte (`Put1`), and `Read` decodes
each with `ReadInfo`, which makes an index list only for a count above 0. How the caller
keeps the head and when it persists is not under `src/` and is modelled from
the spec (`spec_modelled` in the map).

### MetaInfo: state and actions

`info` is the published info HAMT, taken as a map from table to
`[tomb, idx]`; `slices` is a heap of `Indexes` slices, so that two published
versions sharing a slice is visible; an overlay is `[base, under, modified]`,
its base the set of layers merged into it and `under` the layers still
waiting, oldest first. `Commit` adds a layer to every overlay of a table in a
copy (spec-modelled: the commit path is in the transaction code, not in
`info.go`). `Drop` writes a tombstone. `MergeTable(t, n)` runs `Merge` against
the published info and adds its `MergeUpdate` to the batch (skipped tables
are left out, as `MergeUpdate.Skip` does); `PersistAll` runs `Persist`;
`Apply` runs `ApplyMerge` or `ApplyPersist` over the batch with `MustGet`,
the entry and slice copies, and `WithMerged`/`WithSaved`, then publishes; a
failed `MustGet` sets `panicked`. `TakeSnapshot` is a reader taking the
published info; the ghost `snapView` is what it saw. The merger and persister
are one goroutine in the code (the spec's serialized apply), so the model
has one batch at a time. Ghost `committed` records every layer committed to
a table.

### SuRecord: state and actions

The record's fields (`vals`, `Nil` for absent), `invalid`, the
`invalidated` queue, `dependents`, `observers` and `activeObservers` are
variables with the code's names. Each thread is a stack of frames: a `get`
waiting for its rule, a rule body getting its dependencies one by one, the
`callObservers` loop (original key, current key, observers still to call),
and an observer body making its calls. The code between taking and releasing
the record's lock is one atomic action: `Enter(t, s, call)` runs a call up to
the point where it calls user code (a rule or an observer) or returns;
`RuleStep`/`ObsStep` are the user code making its next call;
`RuleReturn`/`ObsReturn` are the code after the user code returns
(`callRule` storing the result, the `defer` popping `activeObservers`, the
loop moving on). The recursive `Advance` is the loop of `callObservers` over
the queue and over the observers, skipping an observer already active for
the member. The ghost `owed` is the set of (observer, member) notifications
due and not yet delivered. When a record is not concurrent its `Lock()` does
nothing and it is used by one thread: `surecord_core` has one thread; the two
violation runs make the record concurrent (two threads, the lock real).
The observer list is taken when `callObservers2` starts (`pending`), as
`range r.observers.list` evaluates the slice once: an observer removed
during the loop is still called, one added is not.

### SuRecordPersist: state and actions

`recs` are record objects, each `[ob, row, userow, deps, invalid, old]`:
the fields set on the record, the row it was read from (`NoRow` for a new
record), the `dependents` map (`NoMap` until first needed, as the code's
nil map), the `invalid` set and whether it came from the database. `db` is
the stored row, one value per column of `Columns` (rule fields among them)
and, for each rule field `c` in `DepsCols`, the set kept in `c_deps`.
`Get` is `SuRecord.Get`: `getIfPresent` looks at `ob`, then at the row
(`getPacked`), runs the rule through `callRule` when the field is invalid or
absent (recording each field it reads with `addDependent`), and stores the
result; `ensureDeps` builds `dependents` from the row's `_deps` columns on
first use. `Put` stores and invalidates the dependents transitively.
`Copy(s, d)` replaces slot `d` by `r.Copy()`, which copies `ob` and
`copyDeps`. `Read` is `queryOne` making a record from `db` with
`SuRecordFromRow`. `DbUpdate` is `r.DbUpdate`: `ToRecord` (rules evaluated,
the `_deps` columns written from `getDeps`) becomes the new stored row.
`Delete(s, k)` is `Delete`/`Erase`: `ensureDeps`, `toObject`, the row
dropped, and the dependents invalidated if the member was there (on a
read-only record it panics after `ensureDeps`). `ToObject` unpacks the row
into the members; `DeleteAll` empties members and row but keeps `invalid`
and `dependents`; `Clear` makes the record new; `SetReadOnly` unpacks and
sets `readonly`, after which `getFromRow` no longer caches and `callRule`
no longer stores; `DbDelete` deletes the row (`db` becomes `NoRow`).
`nops` bounds the number of calls.

### OptionsParse: state and actions

`args` is any command line of up to `MaxArgs` tokens; `i` the loop index
(1-based), `o` the option variables, `CmdLine` the sequence `remainder`
joins (EscapeArg is not under `src/`), the log names a pair of prefix and
port. `SkipEmpty` is the `continue` for an empty argument; `Stop` is the
end of the loop at the end of the arguments or at a non-option, and
`EndOfOptions` the `--` case (skip it, `break loop`), both followed by the
code after the loop; `Option` is one switch arm and `i++`, `-c` and
`-p` stepping over their value; `ClientPanic` is `-c` followed by an empty
argument, where `args[i+1][0]` is out of range. Ghosts `applied` and
`valued` record which indices were read as options and as values.

## 3. Runs

| Run | Config | Expect | Properties |
|---|---|---|---|
| `hamt_core` | `MCHamt.cfg` | pass | `TypeOK`, `WellFormed`, `GetAgrees`, `OwnedNodesPrivate`, `AbsSpec` |
| `hamt_generation_wrap` | `MCHamtWrap.cfg` | violation | `AbsSpec` |
| `hamt_chain` | `MCHamtChain.cfg` | pass | `TypeOK`, `ChainRecovers` |
| `metainfo_core` | `MCMetaInfo.cfg` | pass | `LayersAccounted`, `ReaderStable` |
| `surecord_core` | `MCSuRecord.cfg` | pass | `TypeOK`, `NoStaleValue`, `ObserversNotified`, `RecursionBounded` |
| `surecord_concurrent_stale_rule` | `MCSuRecordStale.cfg` | violation | `NoStaleValue` |
| `surecord_concurrent_lost_notification` | `MCSuRecordQueue.cfg` | violation | `ObserversNotified` |
| `surecord_persist` | `MCSuRecordPersist.cfg` | pass | `TypeOK`, `NoStaleValue`, `StoredConsistent`, `GetRepeatable` |
| `surecord_readonly_stale` | `MCSuRecordPersistReadOnly.cfg` | violation | `GetRepeatable` |
| `surecord_copy_stale` | `MCSuRecordPersistCopy.cfg` | violation | `NoStaleValue` |
| `options_parse` | `MCOptionsParse.cfg` | pass | `TypeOK`, `ArgsAccounted` |
| `options_client_empty_arg` | `MCOptionsParsePanic.cfg` | violation | `NoPanic` |

`hamt_core` bounds:
- Four keys, `a b c d`, with hashes `0 0 0 3` over `HashBits = 2` and
  `BitsPerNode = 1`. There are two bitmap levels and then overflow nodes.
  `a`, `b` and `c` collide on every bit, so every case happens: insertion into
  an empty slot, replacement, creation of a child, descent, overflow append,
  overflow delete, and pull-up through two levels.
- One value suffices, since `Put` of a new value to a present key is the
  replacement arm either way. One snapshot slot.
- `MaxGen = 3` allows three `Mutable` calls along a chain. A snapshot can then
  share nodes of two older generations with the mutable trie.
- `GenBits = 2` leaves the counter room, so it never wraps in this run.

Properties: `WellFormed` is the shape `get` depends on; `GetAgrees` says `Get`
and `ForEach` agree; `OwnedNodesPrivate` is copy-on-write isolation.
`AbsSpec`: under the mapping that sends `mut` and every `snaps[i]` to the
map `Contents` enumerates, every step is a step of `HamtAbstract`, so a
snapshot's contents change only when it is replaced or released.

`hamt_generation_wrap` sets `GenBits = 1` and `MaxGen = 2`. The counter then
wraps exactly as the `uint32` does after 2^32 `Mutable` calls, and TLC finds
a frozen snapshot whose child is emptied by a later `Delete`.

`hamt_chain`: two tables, three versions each (so an entry can be created,
dropped and recreated), up to four chunks, persist only when something
changed (as the code's callers do). `ChainRecovers` says reading the chain
from its head gives the directory of the last persist, tombstones included,
after every entry has gone through `Info.Write` and `ReadInfo`. A live table
has 1 or 255 indexes (`IdxCounts`), so the widest count the byte holds is
checked. With `IdxCounts` containing 0 (an empty, non-nil slice) or 256, TLC
finds `ChainRecovers` violated: the table reopens as a tombstone
(hazard `info.go:57`). Which counts the schema code gives is not under
`src/`, so this is recorded as a hazard, not a run.
With `PersistWhenClean = TRUE` (a persist with nothing changed) `Write`
returns 0 and the head is lost; the callers do not do this, so it is
recorded as a hazard (`hamt.go:306`) rather than a run.

`metainfo_core`: two tables with two indexes each, three commits, up to 14
slices. Merges of any prefix of the waiting layers are computed against the
published info and applied after further commits; persists, drops (outside
a pending batch) and a reader holding an older info interleave freely.
`LayersAccounted` says each committed layer is in exactly one of base and
under for every index; `ReaderStable` says a reader's info never changes.
The module has no type invariant of its own: its records are built by
construction, and TLC's evaluation of `slices[info[t].idx]` already fails on
a bad index. A failed `MustGet` sets `panicked`, but with drops only between
batches no run can reach it: with `DropWhilePending = TRUE` (a drop while a
batch naming the table is pending, which the spec's single serialized
writer path rules out) `MustGet` panics at once; this is kept as a hazard
(`info.go:133`), not a property.

`surecord_core`: one thread, six top-level calls; rule `x` gets `y`, rule
`z` gets `x` then `w` (a two-level chain); observer `o1` toggles `w` when
told of `w` (it changes what it observes, so the re-entrancy guard is
exercised) and gets `x` when told of `x`; observer `o2`, told of `y`,
removes `o1`. `NoStaleValue`: a rule field holding a value its rule would
not compute now is in `invalid`. `ObserversNotified`: when no call is in
progress every notification due has been delivered.
`RecursionBounded`: the frames stay within `MaxDepth`.
The two violation runs use two threads with two calls each.

`surecord_persist`: columns `y`, `w` (plain) and rule fields `x` (gets
`y`) and `z` (gets `x` then `w`), values `{0, 1}`, two record variables, both read from the table at
the start; `Copy` assigns only to the second, and only the second is made
read-only. Up to four calls (five in the violation runs), which is enough
for a read, a change, a save and a second read. The stored row starts as
`ToRecord` of a fresh record. `NoStaleValue`: in a record read from the
database, a rule field that is present and not invalid holds what its rule
computes from the current fields, however the dependencies came to be known
(from the row's `_deps` or from running the rule). `StoredConsistent`: a
record read back from the stored row is not stale, and every field a rule
reads is in its saved `_deps` column. `surecord_copy_stale` checks
`NoStaleValue` on the copy as well: `copyDeps` copies an empty map when the
original never built its dependencies, so a field changed on the copy
leaves a rule value from the row unchanged and not invalid.
`GetRepeatable`: getting a field twice with nothing in between gives the
same value. `surecord_readonly_stale` makes the first record read-only:
after `Delete(y)` (or a `Put`) leaves `x` invalid, `SetReadOnly` keeps the
old `x`; the first `Get(x)` clears `invalid` and returns the new value
without storing it, the second returns the old one.
The model assumes, as the program does, that a read-only record is not
`Put`, `DeleteAll`ed or saved, and that a deleted row is not updated.

`options_parse`: every command line of up to four tokens from empty,
`-c`, `-p`, `-r`, `-u`, `--`, an unknown option and a word, which covers
every switch arm, an option's value at the end and in the middle, and `-c`
followed by another option. `ArgsAccounted`: when `Parse` returns, each
argument before `CmdLine` was used once (option, the value of the `-c`/`-p`
before it, a skipped empty one, or the final `--`), no value was also
applied as an option, and `CmdLine` is exactly the rest.
`options_client_empty_arg` finds `-c ""` panicking.

Findings (details in `PROJECT.json`): the generation wrap (`hamt.go:84`); a
concurrent rule storing a stale result (`surecord.go:681`); the shared
`activeObservers` stack popped by the wrong thread, so a second
`Invalidate` finds its own stale entry and skips the observer
(`surecord.go:511`);
`copyDeps`
copying an unbuilt dependency map (`surecord.go:130`); `-c` followed by an
empty argument (`parse.go:26`); a read-only record returning a
stale rule value on the second `Get` (`surecord.go:676`).

Fairness: none is assumed, and no run checks liveness. The HAMT, the
directories and the record are driven by their callers, which need not call
anything. `ObserversNotified` is stated as a safety property at quiescence,
which needs no fairness.

Deadlock is checked in every run. In `Hamt` either `Freeze`, `Release` or
`Mutable` is always enabled; in `HamtChain` `Restart` always is; in
`MetaInfo` `TakeSnapshot` always is; in `SuRecord` a thread with calls left
can always enter one, and `Finished` states stutter; `SuRecordPersist`
stutters after `MaxOps` calls and `OptionsParse` after `Parse` returns.

## 4. Not modelled, and why

- The byte layout of the encodings (`storSize`, the `Nrows`/`Size` fields
  of `Info.Write`, schema encoding): formatting, with their width limits
  listed as hazards. What decides liveness of an entry, the index count
  byte and the nil-slice tombstone, is modelled in `HamtChain`.
- `skipIndex` in `Merge` (index changes by schema updates), `SuRecord`'s
  `AttachRule`, `GetPut`, `GetDeps`, `_lower!` specials and list operations: left for a later model (`Erase` is modelled with `Delete` in `SuRecordPersist`).
- Overlay, B-tree, inter-buffers, Stor, checksums, ixkey and the transaction
  checker: their implementation is not in `src/`.
- Compiler, client, builtins and assert helpers: single-threaded
  translation and I/O with no protocol to check. `Database`/`Query`
  builtins forward to the database client, whose code is not under `src/`.
- `SuRecord.Clear` on a concurrent record and the window between
  `ToRecord` and `tran.Update` in `DbUpdate`: the lock and the concurrent
  flag are in `SuObject` (not under `src/`), and `SuRecordPersist` is
  single-threaded; both are listed as hazards without a property.
- Schema changes that `skipIndex` guards against: the code that makes them
  is not under `src/`.
