------------------------------ MODULE MetaInfo ------------------------------
(***************************************************************************)
(* The info directory and its merge/persist update records               *)
(* (src/db19/meta/info.go).                                                *)
(*                                                                         *)
(* Each table's Info holds a slice of index overlays.  Commits add a layer *)
(* to every overlay of their table; Merge folds the oldest layers of each  *)
(* overlay into its base and ApplyMerge installs the results; Persist     *)
(* saves modified bases and ApplyPersist installs the saved roots.  Merge  *)
(* and Persist run against the published info while commits and drops go *)
(* on; their results are applied later, by the one thread that publishes *)
(* the info HAMT.  Readers keep the info they took.                        *)
(*                                                                         *)
(* The info HAMT is the map it implements (see Hamt).  Index slices live  *)
(* in a heap so that sharing between published versions is visible: an    *)
(* entry is [tomb, idx], idx the id of its slice, 0 for a tombstone's nil  *)
(* slice.                                                                  *)
(***************************************************************************)
EXTENDS Naturals, Sequences, FiniteSets, SequencesExt

CONSTANTS
    Tables,           \* table names
    NIdx,             \* indexes per table
    MaxCommits,       \* commits in a behaviour
    MaxSlices,        \* index slices allocated in a behaviour
    NoTable,          \* the table of a skipped MergeUpdate ("")
    NoResult,         \* a nil SaveResult
    DropWhilePending  \* whether a table may be dropped while an update for it waits

Idx == 1 .. NIdx
Layers == 1 .. MaxCommits

\* An overlay (index.Overlay): the layers merged into its base, the layers
\* not yet merged, oldest first, and whether the base has unsaved changes.
Overlay == [base : SUBSET Layers, under : Seq(Layers), modified : BOOLEAN]

EmptyOverlay == [base |-> {}, under |-> <<>>, modified |-> FALSE]

VARIABLES
    info,       \* the published info HAMT: table -> [tomb, idx]
    slices,     \* slice id -> the overlays of a table's Indexes
    batch,      \* the merge or persist updates computed and not yet applied
    ncommits,   \* commits so far
    committed,  \* (ghost) table -> the layers committed to it
    snap,       \* a reader's info, taken from a published version
    snapView,   \* (ghost) the overlays the reader saw when it took snap
    panicked    \* a MustGet failed

vars == <<info, slices, batch, ncommits, committed, snap, snapView, panicked>>

-----------------------------------------------------------------------------
(* The index slices.                                                       *)

NewSlice == Len(slices) + 1

\* The overlays an info maps each table to.
View(inf) == [t \in Tables |-> IF inf[t].tomb THEN <<>> ELSE slices[inf[t].idx]]

\* isTomb: Indexes == nil.
IsTomb(e) == e.tomb

\* MustGet(key): the entry, or a panic for a missing table or a tombstone.
MustGetFails(inf, t) == t = NoTable \/ IsTomb(inf[t])

\* Variant of PutCopy that writes the overlays into the entry's own slice.
PutShared(inf, sl, t, ovs) ==
    [inf |-> inf, sl |-> [sl EXCEPT ![inf[t].idx] = ovs]]

\* Write the overlays ovs for table t as a copy of its entry with a copy
\* of its Indexes slice, as ApplyMerge and ApplyPersist do.
PutCopy(inf, sl, t, ovs) ==
    [inf |-> [inf EXCEPT ![t] = [tomb |-> FALSE, idx |-> Len(sl) + 1]],
     sl |-> Append(sl, ovs)]

-----------------------------------------------------------------------------
(* Overlay operations (index.Overlay, from the spec: section 4.3).         *)

\* ov.Merge(n): a new base holding the oldest n layers.
MergeOv(ov, n) == ov.base \cup Range(SubSeq(ov.under, 1, n))

\* Variant of WithMerged that keeps the last merged layer.
WithMergedKeepLast(ov, result, nmerged) ==
    [base |-> result, under |-> SubSeq(ov.under, nmerged, Len(ov.under)),
     modified |-> TRUE]

\* ov.WithMerged(result, nmerged): the new base, without the merged layers.
WithMerged(ov, result, nmerged) ==
    [base |-> result, under |-> SubSeq(ov.under, nmerged + 1, Len(ov.under)),
     modified |-> TRUE]

\* ov.Save(): the root of the saved base, nil when nothing changed.
SaveOv(ov) == IF ov.modified THEN ov.base ELSE NoResult

\* ov.WithSaved(result): the base is the saved one and no longer modified.
WithSaved(ov, result) == [ov EXCEPT !.base = result, !.modified = FALSE]

-----------------------------------------------------------------------------
(* Merge and ApplyMerge.                                                   *)

\* Merge(metaWas, table, nmerge): a dropped table gives MergeUpdate{};
\* otherwise every index of the table's info is merged (skipIndex is
\* false: the schema has not changed).
Merge(t, n) ==
    IF IsTomb(info[t]) THEN [table |-> NoTable, nmerged |-> 0, results |-> <<>>]
    ELSE [table |-> t, nmerged |-> n,
          results |-> [i \in Idx |-> MergeOv(slices[info[t].idx][i], n)]]

\* ApplyMerge(updates): on a mutable copy of the info, for each update
\* MustGet the table, copy its entry and Indexes slice, apply WithMerged
\* to each index and Put the copy; then Freeze and publish.
RECURSIVE ApplyMergeFrom(_, _, _)
ApplyMergeFrom(ups, inf, sl) ==
    IF ups = <<>> THEN [inf |-> inf, sl |-> sl, ok |-> TRUE]
    ELSE LET up == Head(ups)
         IN IF MustGetFails(inf, up.table) THEN [inf |-> inf, sl |-> sl, ok |-> FALSE]
            ELSE LET ovs == [i \in Idx |-> WithMerged(sl[inf[up.table].idx][i],
                                                      up.results[i], up.nmerged)]
                     w == PutCopy(inf, sl, up.table, ovs)
                 IN ApplyMergeFrom(Tail(ups), w.inf, w.sl)

-----------------------------------------------------------------------------
(* Persist and ApplyPersist.                                               *)

\* Persist(exec): for each table whose first index is modified, the saved
\* root of every index.
PersistUpdates ==
    LET ts == {t \in Tables : ~IsTomb(info[t]) /\ slices[info[t].idx][1].modified}
    IN [j \in 1 .. Cardinality(ts) |->
          LET t == SetToSeq(ts)[j]
          IN [table |-> t, results |-> [i \in Idx |-> SaveOv(slices[info[t].idx][i])]]]

\* ApplyPersist(updates): as ApplyMerge, with WithSaved.
RECURSIVE ApplyPersistFrom(_, _, _)
ApplyPersistFrom(ups, inf, sl) ==
    IF ups = <<>> THEN [inf |-> inf, sl |-> sl, ok |-> TRUE]
    ELSE LET up == Head(ups)
         IN IF MustGetFails(inf, up.table) THEN [inf |-> inf, sl |-> sl, ok |-> FALSE]
            ELSE LET ov(i) == sl[inf[up.table].idx][i]
                     ovs == [i \in Idx |-> IF up.results[i] # NoResult
                                         THEN WithSaved(ov(i), up.results[i])
                                         ELSE ov(i)]
                     w == PutCopy(inf, sl, up.table, ovs)
                 IN ApplyPersistFrom(Tail(ups), w.inf, w.sl)

-----------------------------------------------------------------------------
(* The steps.  Commit and Drop are modelled from the spec; the others run *)
(* the code above.                                                         *)

NoBatch == [kind |-> "none", ups |-> <<>>]

Tabled(b) == {b.ups[j].table : j \in 1 .. Len(b.ups)}

\* A transaction commits to table t: each overlay of the table gets its
\* layer, in a copy of the entry published in a new info.
Commit(t) ==
    /\ ~IsTomb(info[t])
    /\ ncommits < MaxCommits
    /\ NewSlice <= MaxSlices
    /\ LET c == ncommits + 1
           ovs == [i \in Idx |-> [slices[info[t].idx][i] EXCEPT !.under = Append(@, c)]]
           w == PutCopy(info, slices, t, ovs)
       IN /\ info' = w.inf
          /\ slices' = w.sl
          /\ ncommits' = c
          /\ committed' = [committed EXCEPT ![t] = @ \cup {c}]
    /\ UNCHANGED <<batch, snap, snapView, panicked>>

\* Table t is dropped: its entry becomes a tombstone (newInfoTomb).
Drop(t) ==
    /\ ~IsTomb(info[t])
    /\ DropWhilePending \/ t \notin Tabled(batch)
    /\ info' = [info EXCEPT ![t] = [tomb |-> TRUE, idx |-> 0]]
    /\ UNCHANGED <<slices, batch, ncommits, committed, snap, snapView, panicked>>

\* How many layers the merger may ask to merge for table t: those waiting
\* in its overlays, or all it was given if it has been dropped since.
Waiting(t) == IF IsTomb(info[t]) THEN Cardinality(committed[t])
              ELSE Len(slices[info[t].idx][1].under)

\* The merge of table t's oldest n layers is computed against the
\* published info and added to the batch unless it is skipped
\* (MergeUpdate.Skip); a table is merged once per batch.
MergeTable(t, n) ==
    /\ batch.kind \in {"none", "merge"}
    /\ t \notin Tabled(batch)
    /\ n <= Waiting(t)
    /\ LET up == Merge(t, n)
       IN batch' = IF up.table = NoTable THEN batch
                   ELSE [kind |-> "merge", ups |-> Append(batch.ups, up)]
    /\ UNCHANGED <<info, slices, ncommits, committed, snap, snapView, panicked>>

\* Persist computes the saved roots of every modified table.
PersistAll ==
    /\ batch.kind = "none"
    /\ PersistUpdates # <<>>
    /\ batch' = [kind |-> "persist", ups |-> PersistUpdates]
    /\ UNCHANGED <<info, slices, ncommits, committed, snap, snapView, panicked>>

\* The batch is applied and the new info published; a failed MustGet
\* panics and publishes nothing.
Apply ==
    /\ batch.kind # "none"
    /\ NewSlice + Len(batch.ups) - 1 <= MaxSlices
    /\ LET r == IF batch.kind = "merge" THEN ApplyMergeFrom(batch.ups, info, slices)
                ELSE ApplyPersistFrom(batch.ups, info, slices)
       IN IF r.ok THEN /\ info' = r.inf
                       /\ slices' = r.sl
                       /\ UNCHANGED panicked
          ELSE /\ panicked' = TRUE
               /\ UNCHANGED <<info, slices>>
    /\ batch' = NoBatch
    /\ UNCHANGED <<ncommits, committed, snap, snapView>>

\* A reader takes the published info.
TakeSnapshot ==
    /\ snap' = info
    /\ snapView' = View(info)
    /\ UNCHANGED <<info, slices, batch, ncommits, committed, panicked>>

\* Each table starts with its own slice of empty overlays.
SeqIndex(t) == CHOOSE j \in 1 .. Cardinality(Tables) : SetToSeq(Tables)[j] = t

Init ==
    /\ info = [t \in Tables |-> [tomb |-> FALSE, idx |-> SeqIndex(t)]]
    /\ slices = [j \in 1 .. Cardinality(Tables) |-> [i \in Idx |-> EmptyOverlay]]
    /\ batch = NoBatch
    /\ ncommits = 0
    /\ committed = [t \in Tables |-> {}]
    /\ snap = info
    /\ snapView = View(info)
    /\ panicked = FALSE

Next ==
    \/ \E t \in Tables : \/ Commit(t)
                        \/ Drop(t)
                        \/ \E n \in Layers : MergeTable(t, n)
    \/ PersistAll
    \/ Apply
    \/ TakeSnapshot

Spec == Init /\ [][Next]_vars

-----------------------------------------------------------------------------
(* Properties.                                                             *)

\* Every layer committed to a live table is, in each of its indexes,
\* either merged into the base or still waiting, and not both: merges
\* computed against an older info and applied after further commits, and
\* saved roots applied after them, neither lose nor repeat a layer.
LayersAccounted ==
    \A t \in Tables : ~IsTomb(info[t]) =>
        \A i \in Idx :
            LET ov == slices[info[t].idx][i]
            IN /\ ov.base \cap Range(ov.under) = {}
               /\ ov.base \cup Range(ov.under) = committed[t]
               /\ Len(ov.under) = Cardinality(Range(ov.under))

\* A reader's info never changes under it: ApplyMerge and ApplyPersist
\* copy an entry and its Indexes slice before changing them.
ReaderStable == View(snap) = snapView

=============================================================================
