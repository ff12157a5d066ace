-------------------------------- MODULE Hamt --------------------------------
(***************************************************************************)
(* The persistent hash array mapped trie of genny/hamt/hamt.go (ItemHamt), *)
(* instantiated by db19/meta as InfoHamt and SchemaHamt.                   *)
(*                                                                         *)
(* Nodes live in a heap of node ids, so that structural sharing between a  *)
(* mutable handle and the frozen snapshots derived from the same root, and *)
(* in-place mutation of nodes owned by the current generation, are         *)
(* modelled as the code does them.  A handle is ItemHamt{root,generation}; *)
(* mut is the caller's mutable handle (from Mutable(), until Freeze()),    *)
(* snaps are the frozen snapshots published to readers.                    *)
(*                                                                         *)
(* The code's 32-bit hash consumed 5 bits per level becomes HashBits       *)
(* consumed BitsPerNode bits per level, and the uint32 generation becomes  *)
(* a GenBits-bit counter; the code's values are 32, 5 and 32.  Unreachable *)
(* nodes are dropped from the heap after every step, as Go's collector     *)
(* would, so that node ids are reused.                                     *)
(***************************************************************************)
EXTENDS Integers, Sequences, FiniteSets, SequencesExt, FiniteSetsExt,
        Functions, TLC

CONSTANTS
    Keys, Vals, SnapIds, Absent, NoMap,
    Hash,           \* ItemHash: Keys -> 0 .. 2^HashBits - 1
    HashBits,       \* width of the hash (32 in the code)
    BitsPerNode,    \* bitsPerItemNode (5 in the code)
    GenBits,        \* width of the generation counter (32 in the code)
    MaxGen,         \* bound: Mutable() only from handles of generation < MaxGen
    MaxNodes,       \* bound: size of the heap of node ids
    NoHamt          \* "the caller holds no mutable handle"

GenModulus == 2^GenBits
Slots == 0 .. 2^BitsPerNode - 1

\* Number of levels of a path: the bitmap levels and the overflow level.
Levels == Cardinality({s \in 0 .. HashBits - 1 : s % BitsPerNode = 0}) + 1

ASSUME Hash \in [Keys -> 0 .. 2^HashBits - 1]
ASSUME SnapIds = 1 .. Cardinality(SnapIds)
ASSUME MaxNodes >= (1 + Cardinality(SnapIds)) * (Cardinality(Keys) + 1) + Levels

Nil == 0
NodeIds == 1 .. MaxNodes
Item == [key : Keys, val : Vals]
NoItem == [key |-> Absent, val |-> Absent]

\* nodeItem
Node == [generation : 0 .. GenModulus - 1, bmVal : SUBSET Slots,
         bmPtr : SUBSET Slots, vals : Seq(Item), ptrs : Seq(NodeIds)]

\* ItemHamt, without the mutable flag: which variable holds it says that.
Handle == [root : NodeIds \cup {Nil}, generation : 0 .. GenModulus - 1]
ZeroHamt == [root |-> Nil, generation |-> 0]

VARIABLES
    heap,       \* node id -> nodeItem, for the allocated ids
    mut,        \* the mutable handle, or NoHamt
    snaps,      \* SnapIds -> frozen handle
    deleted     \* the last Delete: its key and whether it found it

vars == <<heap, mut, snaps, deleted>>

-----------------------------------------------------------------------------
(* Bit arithmetic, with a bitmap as the set of its one bits.               *)

\* Variant of SlotOf without the maskItem mask.
SlotOfNoMask(hash, shift) == hash \div 2^shift

\* bit(): the slot that hash selects at this shift.
SlotOf(hash, shift) == (hash \div 2^shift) % 2^BitsPerNode

\* bits.OnesCount32(bm & (bit - 1)): position of slot s among bm's slots.
Rank(bm, s) == Cardinality({j \in bm : j < s})

ClearHighestOneBit(bm) == bm \ {Max(bm)}

EmptyNode(gen) ==
    [generation |-> gen, bmVal |-> {}, bmPtr |-> {}, vals |-> <<>>, ptrs |-> <<>>]

\* A fresh node id (the allocator).
Alloc(h) == Min(NodeIds \ DOMAIN h)

\* dup(): a shallow copy of a node.
Dup(h, nd) ==
    LET id == Alloc(h) IN [h |-> h @@ (id :> h[nd]), nd |-> id]

\* Variant of Own that mutates the node in place whatever its generation.
OwnInPlace(h, nd, gen) == [h |-> h, nd |-> nd]

\* Path copy on the way down: a node of another generation is duplicated
\* and the copy stamped with the current generation.
Own(h, nd, gen) ==
    IF h[nd].generation # gen
    THEN LET d == Dup(h, nd)
         IN [h |-> [d.h EXCEPT ![d.nd].generation = gen], nd |-> d.nd]
    ELSE [h |-> h, nd |-> nd]

IndexOfKey(vals, key) == CHOOSE i \in 1 .. Len(vals) : vals[i].key = key
HasKey(vals, key) == \E i \in 1 .. Len(vals) : vals[i].key = key

-----------------------------------------------------------------------------
(* Get.                                                                    *)

RECURSIVE GetFrom(_, _, _, _)

\* Variant of GetFrom that gives up when the slot holds another key,
\* without looking at the slot's child.
GetFromNoDescend(h, nd, key, shift) ==
    LET n == h[nd]
        s == SlotOf(Hash[key], shift)
    IN IF shift >= HashBits
       THEN IF HasKey(n.vals, key) THEN n.vals[IndexOfKey(n.vals, key)]
            ELSE NoItem
       ELSE IF s \in n.bmVal
            THEN IF n.vals[Rank(n.bmVal, s) + 1].key = key
                 THEN n.vals[Rank(n.bmVal, s) + 1] ELSE NoItem
            ELSE IF s \notin n.bmPtr THEN NoItem
            ELSE GetFrom(h, n.ptrs[Rank(n.bmPtr, s) + 1], key, shift + BitsPerNode)

GetFrom(h, nd, key, shift) ==
    LET n == h[nd]
        s == SlotOf(Hash[key], shift)
    IN IF shift >= HashBits
       THEN IF HasKey(n.vals, key) THEN n.vals[IndexOfKey(n.vals, key)]
            ELSE NoItem
       ELSE IF s \in n.bmVal /\ n.vals[Rank(n.bmVal, s) + 1].key = key
            THEN n.vals[Rank(n.bmVal, s) + 1]
            ELSE IF s \notin n.bmPtr THEN NoItem
            ELSE GetFrom(h, n.ptrs[Rank(n.bmPtr, s) + 1], key, shift + BitsPerNode)

Get(h, ht, key) == IF ht.root = Nil THEN NoItem ELSE GetFrom(h, ht.root, key, 0)

-----------------------------------------------------------------------------
(* with(): insert or replace item below node nd; returns the node to link. *)

RECURSIVE With(_, _, _, _, _)
With(h0, nd0, gen, item, shift) ==
    LET o == Own(h0, nd0, gen)
        h == o.h
        nd == o.nd
        n == h[nd]
        s == SlotOf(Hash[item.key], shift)
        iv == Rank(n.bmVal, s) + 1
        ip == Rank(n.bmPtr, s) + 1
    IN IF shift >= HashBits
       THEN [nd |-> nd,
             h |-> IF HasKey(n.vals, item.key)
                   THEN [h EXCEPT ![nd].vals[IndexOfKey(n.vals, item.key)] = item]
                   ELSE [h EXCEPT ![nd].vals = Append(@, item)]]
       ELSE CASE s \notin n.bmVal ->
                   [nd |-> nd,
                    h |-> [h EXCEPT ![nd].bmVal = @ \cup {s},
                                    ![nd].vals = InsertAt(@, iv, item)]]
              [] n.vals[iv].key = item.key ->
                   [nd |-> nd, h |-> [h EXCEPT ![nd].vals[iv] = item]]
              [] s \in n.bmPtr ->
                   LET r == With(h, n.ptrs[ip], gen, item, shift + BitsPerNode)
                   IN [nd |-> nd, h |-> [r.h EXCEPT ![nd].ptrs[ip] = r.nd]]
              [] OTHER ->
                   LET c == Alloc(h)
                       r == With(h @@ (c :> EmptyNode(gen)), c, gen, item,
                                 shift + BitsPerNode)
                   IN [nd |-> nd,
                       h |-> [r.h EXCEPT ![nd].ptrs = InsertAt(@, ip, r.nd),
                                         ![nd].bmPtr = @ \cup {s}]]

-----------------------------------------------------------------------------
(* pullUp(): remove the rightmost item below nd; returns the node to link  *)
(* (Nil when it emptied) and the item.                                     *)

RECURSIVE PullUp(_, _, _)
PullUp(h0, nd0, gen) ==
    LET o == Own(h0, nd0, gen)
        h == o.h
        nd == o.nd
        n == h[nd]
    IN IF n.bmPtr # {}
       THEN LET ip == Len(n.ptrs)
                r == PullUp(h, n.ptrs[ip], gen)
            IN [nd |-> nd, item |-> r.item,
                h |-> IF r.nd # Nil
                      THEN [r.h EXCEPT ![nd].ptrs[ip] = r.nd]
                      ELSE [r.h EXCEPT ![nd].ptrs = Front(@),
                                       ![nd].bmPtr = ClearHighestOneBit(@)]]
       ELSE IF Len(n.vals) = 1
            THEN [nd |-> Nil, item |-> Last(n.vals), h |-> h]
            ELSE [nd |-> nd, item |-> Last(n.vals),
                  h |-> [h EXCEPT ![nd].vals = Front(@),
                                  ![nd].bmVal = IF @ # {} THEN ClearHighestOneBit(@)
                                                ELSE @]]

-----------------------------------------------------------------------------
(* without(): remove key below nd; returns the node to link (Nil when it   *)
(* emptied) and whether the key was found.                                 *)

\* The node nd, its child at ptrs[ip] for slot s replaced by c (Nil: dropped).
Relink(h, nd, s, ip, c) ==
    IF c # Nil THEN [h EXCEPT ![nd].ptrs[ip] = c]
    ELSE [h EXCEPT ![nd].bmPtr = @ \ {s}, ![nd].ptrs = RemoveAt(@, ip)]

\* Variant of DropValue that removes the value as if its slot had no child.
DropValueNoPullUp(h, nd, s, gen) ==
    LET n == h[nd]
        bmVal == n.bmVal \ {s}
    IN [h |-> [h EXCEPT ![nd].bmVal = bmVal,
                        ![nd].vals = RemoveAt(@, Rank(n.bmVal, s) + 1)],
        nd |-> IF bmVal = {} /\ n.bmPtr = {} THEN Nil ELSE nd, ok |-> TRUE]

\* Variant of DropValue that pulls the item up but never stores it in the
\* value's place.
DropValueNoReplace(h, nd, s, gen) ==
    LET n == h[nd]
        ip == Rank(n.bmPtr, s) + 1
        p == PullUp(h, n.ptrs[ip], gen)
    IN IF s \notin n.bmPtr
       THEN [h |-> [h EXCEPT ![nd].bmVal = @ \ {s},
                             ![nd].vals = RemoveAt(@, Rank(n.bmVal, s) + 1)],
             nd |-> IF n.bmVal = {s} /\ n.bmPtr = {} THEN Nil ELSE nd, ok |-> TRUE]
       ELSE [h |-> Relink(p.h, nd, s, ip, p.nd), nd |-> nd, ok |-> TRUE]

\* The key is the value at slot s of node nd (shift below HashBits): with no
\* child under the slot the value is removed, and the node reported emptied
\* if nothing is left; otherwise the rightmost item below the child is
\* pulled up into the value's place.
DropValue(h, nd, s, gen) ==
    LET n == h[nd]
        iv == Rank(n.bmVal, s) + 1
        ip == Rank(n.bmPtr, s) + 1
        bmVal == n.bmVal \ {s}
        p == PullUp(h, n.ptrs[ip], gen)
    IN IF s \notin n.bmPtr
       THEN [h |-> [h EXCEPT ![nd].bmVal = bmVal, ![nd].vals = RemoveAt(@, iv)],
             nd |-> IF bmVal = {} /\ n.bmPtr = {} THEN Nil ELSE nd, ok |-> TRUE]
       ELSE [h |-> Relink([p.h EXCEPT ![nd].vals[iv] = p.item], nd, s, ip, p.nd),
             nd |-> nd, ok |-> TRUE]

RECURSIVE Without(_, _, _, _, _)
Without(h0, nd0, gen, key, shift) ==
    LET o == Own(h0, nd0, gen)
        h == o.h
        nd == o.nd
        n == h[nd]
        s == SlotOf(Hash[key], shift)
        ip == Rank(n.bmPtr, s) + 1
    IN IF shift >= HashBits
       THEN IF HasKey(n.vals, key)
            THEN LET vals == Front([n.vals EXCEPT ![IndexOfKey(n.vals, key)] =
                                                   Last(n.vals)])
                 IN [h |-> [h EXCEPT ![nd].vals = vals], ok |-> TRUE,
                     nd |-> IF vals = <<>> THEN Nil ELSE nd]
            ELSE [h |-> h, nd |-> nd, ok |-> FALSE]
       ELSE IF s \in n.bmVal /\ n.vals[Rank(n.bmVal, s) + 1].key = key
       THEN DropValue(h, nd, s, gen)
       ELSE IF s \notin n.bmPtr
       THEN [h |-> h, nd |-> nd, ok |-> FALSE]
       ELSE LET r == Without(h, n.ptrs[ip], gen, key, shift + BitsPerNode)
            IN [h |-> Relink(r.h, nd, s, ip, r.nd), nd |-> nd, ok |-> r.ok]

-----------------------------------------------------------------------------
(* forEach(): values of a node, then its children left to right.           *)

RECURSIVE ForEachSeq(_, _), ChildrenSeq(_, _)
ForEachSeq(h, nd) == h[nd].vals \o ChildrenSeq(h, h[nd].ptrs)
ChildrenSeq(h, ptrs) ==
    IF ptrs = <<>> THEN <<>>
    ELSE ForEachSeq(h, Head(ptrs)) \o ChildrenSeq(h, Tail(ptrs))

ForEach(h, ht) == IF ht.root = Nil THEN <<>> ELSE ForEachSeq(h, ht.root)

\* What a handle holds, as ForEach enumerates it.
Contents(h, ht) ==
    LET items == Range(ForEach(h, ht))
    IN [k \in Keys |-> IF \E it \in items : it.key = k
                       THEN (CHOOSE it \in items : it.key = k).val
                       ELSE Absent]

-----------------------------------------------------------------------------
(* Reachability, and the collector.  After every step the unreachable     *)
(* nodes are dropped and the live ones renumbered in depth-first order     *)
(* from the roots (the mutable handle's first, then the snapshots' in      *)
(* order): node ids are only ever compared for identity, so this changes   *)
(* nothing the code can observe, and it makes equal heaps equal states.    *)

RECURSIVE Closure(_, _)
Closure(h, S) ==
    LET S2 == S \cup UNION {Range(h[n].ptrs) : n \in S}
    IN IF S2 = S THEN S ELSE Closure(h, S2)

Reachable(h, ht) == IF ht.root = Nil THEN {} ELSE Closure(h, {ht.root})

LiveHandles(m, sn) == {sn[i] : i \in SnapIds} \cup (IF m = NoHamt THEN {} ELSE {m})

RECURSIVE Preorder(_, _, _)
Preorder(h, todo, seen) ==
    IF todo = <<>> THEN seen
    ELSE LET x == Head(todo)
         IN IF x \in Range(seen) THEN Preorder(h, Tail(todo), seen)
            ELSE Preorder(h, h[x].ptrs \o Tail(todo), Append(seen, x))

\* The live heap, renumbered, with the handles pointing into it.
Settle(h, m, sn) ==
    LET roots == SelectSeq(<<IF m = NoHamt THEN Nil ELSE m.root>>
                              \o [i \in 1 .. Cardinality(SnapIds) |-> sn[i].root],
                           LAMBDA x : x # Nil)
        order == Preorder(h, roots, <<>>)
        pos == [x \in Range(order) |-> CHOOSE i \in 1 .. Len(order) : order[i] = x]
        Ren(x) == IF x = Nil THEN Nil ELSE pos[x]
        RenH(ht) == [ht EXCEPT !.root = Ren(@)]
    IN [heap |-> [i \in 1 .. Len(order) |->
                    [h[order[i]] EXCEPT !.ptrs = [j \in DOMAIN @ |-> pos[@[j]]]]],
        mut |-> IF m = NoHamt THEN NoHamt ELSE RenH(m),
        snaps |-> [i \in SnapIds |-> RenH(sn[i])]]

\* The step's outcome, settled.
Become(h, m, sn) ==
    LET st == Settle(h, m, sn)
    IN heap' = st.heap /\ mut' = st.mut /\ snaps' = st.snaps

-----------------------------------------------------------------------------
(* The operations.                                                         *)

Init ==
    /\ heap = [id \in {} |-> EmptyNode(0)]
    /\ mut = NoHamt
    /\ snaps = [i \in SnapIds |-> ZeroHamt]
    /\ deleted = [key |-> Absent, found |-> FALSE]

\* Variant of Mutable that does not advance the generation.
MutableSameGen(i) ==
    LET ht == snaps[i]
        gen == ht.generation
        id == Alloc(heap)
        root == IF ht.root = Nil THEN EmptyNode(gen)
                ELSE [heap[ht.root] EXCEPT !.generation = gen]
    IN /\ mut = NoHamt
       /\ ht.generation < MaxGen
       /\ Become(heap @@ (id :> root), [root |-> id, generation |-> gen], snaps)
       /\ UNCHANGED deleted

\* ht.Mutable(): a copy of the root, stamped with the next generation.
Mutable(i) ==
    LET ht == snaps[i]
        gen == (ht.generation + 1) % GenModulus
        id == Alloc(heap)
        root == IF ht.root = Nil THEN EmptyNode(gen)
                ELSE [heap[ht.root] EXCEPT !.generation = gen]
    IN /\ mut = NoHamt
       /\ ht.generation < MaxGen
       /\ Become(heap @@ (id :> root), [root |-> id, generation |-> gen], snaps)
       /\ UNCHANGED deleted

\* ht.Put(item): the node with() returns for the root is not kept.
Put(k, v) ==
    /\ mut # NoHamt
    /\ LET r == With(heap, mut.root, mut.generation, [key |-> k, val |-> v], 0)
       IN Become(r.h, mut, snaps)
    /\ UNCHANGED deleted

\* ht.Delete(key): likewise, the root is kept even when without() empties it.
Delete(k) ==
    /\ mut # NoHamt
    /\ LET r == Without(heap, mut.root, mut.generation, k, 0)
       IN Become(r.h, mut, snaps) /\ deleted' = [key |-> k, found |-> r.ok]

\* t2.Freeze() published as the new snapshot, the mutable handle dropped
\* (ApplyMerge, ApplyPersist and ReadItemChain all end this way).
Freeze(i) ==
    /\ mut # NoHamt
    /\ Become(heap, NoHamt,
              [snaps EXCEPT ![i] = [root |-> mut.root, generation |-> mut.generation]])
    /\ UNCHANGED deleted

\* A reader drops its snapshot; the place holds the zero ItemHamt{}.
Release(i) ==
    /\ snaps[i] # ZeroHamt
    /\ Become(heap, mut, [snaps EXCEPT ![i] = ZeroHamt])
    /\ UNCHANGED deleted

Next ==
    \/ \E i \in SnapIds : Mutable(i) \/ Freeze(i) \/ Release(i)
    \/ \E k \in Keys : Delete(k) \/ \E v \in Vals : Put(k, v)

Spec == Init /\ [][Next]_vars

-----------------------------------------------------------------------------
(* Properties.                                                             *)

Handles == LiveHandles(mut, snaps)

TypeOK ==
    /\ DOMAIN heap \subseteq NodeIds
    /\ \A id \in DOMAIN heap : heap[id] \in Node
    /\ mut \in Handle \cup {NoHamt}
    /\ snaps \in [SnapIds -> Handle]
    /\ deleted \in [key : Keys \cup {Absent}, found : BOOLEAN]

\* The r-th lowest slot of bitmap bm.
SlotAt(bm, r) == CHOOSE s \in bm : Rank(bm, s) = r - 1

\* The shape the code's lookups rely on, below a node at this shift: one
\* value per bmVal slot and one child per bmPtr slot, in slot order; a child
\* only under a slot that also holds a value; every item under a slot hashes
\* to that slot; no empty node but the root; overflow nodes only below the
\* last bitmap level.
RECURSIVE NodeOK(_, _, _)
NodeOK(h, nd, shift) ==
    LET n == h[nd] IN
    IF shift >= HashBits
    THEN n.bmVal = {} /\ n.bmPtr = {} /\ n.ptrs = <<>> /\ n.vals # <<>>
    ELSE /\ Len(n.vals) = Cardinality(n.bmVal)
         /\ Len(n.ptrs) = Cardinality(n.bmPtr)
         /\ n.bmPtr \subseteq n.bmVal
         /\ \A r \in 1 .. Len(n.vals) :
                SlotOf(Hash[n.vals[r].key], shift) = SlotAt(n.bmVal, r)
         /\ \A r \in 1 .. Len(n.ptrs) :
                /\ ForEachSeq(h, n.ptrs[r]) # <<>>
                /\ \A it \in Range(ForEachSeq(h, n.ptrs[r])) :
                       SlotOf(Hash[it.key], shift) = SlotAt(n.bmPtr, r)
                /\ NodeOK(h, n.ptrs[r], shift + BitsPerNode)

\* After any sequence of Put, Delete, Mutable and Freeze, every live trie
\* has the shape above and holds each key at most once.
WellFormed ==
    \A ht \in Handles :
        ht.root # Nil =>
            /\ NodeOK(heap, ht.root, 0)
            /\ LET s == ForEach(heap, ht)
               IN \A i, j \in 1 .. Len(s) : i # j => s[i].key # s[j].key

\* Get (which stops at the first slot that decides) finds exactly what
\* ForEach enumerates, in every live handle.
GetAgrees ==
    \A ht \in Handles, k \in Keys :
        Get(heap, ht, k).val = Contents(heap, ht)[k]

\* Copy-on-write: a node the mutable handle may change in place (one
\* stamped with its generation) is not reachable from any frozen snapshot.
OwnedNodesPrivate ==
    mut # NoHamt =>
        \A id \in Reachable(heap, mut) :
            heap[id].generation = mut.generation =>
                \A i \in SnapIds : id \notin Reachable(heap, snaps[i])

\* The trie implements the abstract map: Put and Delete change only the
\* mutable handle's contents as a map update would, Delete reports whether
\* the key was present, and a frozen snapshot's contents never change
\* until it is replaced or dropped.
Abs == INSTANCE HamtAbstract
           WITH mut <- IF mut = NoHamt THEN NoMap ELSE Contents(heap, mut),
                snaps <- [i \in SnapIds |-> Contents(heap, snaps[i])]

AbsSpec == Abs!Spec

=============================================================================
