---------------------------- MODULE HamtAbstract ----------------------------
(***************************************************************************)
(* What the HAMT of genny/hamt/hamt.go promises its callers, with the trie *)
(* abstracted away: a handle is a finite map from keys to items.  There is *)
(* at most one mutable handle at a time (the one a caller obtained from    *)
(* Mutable() and has not yet frozen) and a fixed number of published,      *)
(* frozen snapshots that readers hold.  A frozen snapshot never changes:   *)
(* it is replaced only by freezing a mutable handle into its place or by   *)
(* its reader dropping it.                                                 *)
(***************************************************************************)
CONSTANTS
    Keys,       \* keys derived from items by ItemKey
    Vals,       \* what distinguishes two items with the same key
    SnapIds,    \* the places a frozen snapshot can be published to
    Absent,     \* "no item for this key"
    NoMap       \* "there is no mutable handle"

ASSUME Absent \notin Vals

VARIABLES
    mut,        \* contents of the mutable handle, or NoMap
    snaps,      \* contents of each frozen snapshot
    deleted     \* the last Delete: its key and whether it found it

vars == <<mut, snaps, deleted>>

Map == [Keys -> Vals \cup {Absent}]

EmptyMap == [k \in Keys |-> Absent]

TypeOK ==
    /\ mut \in Map \cup {NoMap}
    /\ snaps \in [SnapIds -> Map]
    /\ deleted \in [key : Keys \cup {Absent}, found : BOOLEAN]

Init ==
    /\ mut = NoMap
    /\ snaps = [i \in SnapIds |-> EmptyMap]
    /\ deleted = [key |-> Absent, found |-> FALSE]

\* Mutable(): a private copy of a snapshot's contents.
Mutable(i) ==
    /\ mut = NoMap
    /\ mut' = snaps[i]
    /\ UNCHANGED <<snaps, deleted>>

\* Put(item): insert, or replace the item with the same key.
Put(k, v) ==
    /\ mut # NoMap
    /\ mut' = [mut EXCEPT ![k] = v]
    /\ UNCHANGED <<snaps, deleted>>

\* Delete(key): remove the item, reporting whether it was there.
Delete(k) ==
    /\ mut # NoMap
    /\ mut' = [mut EXCEPT ![k] = Absent]
    /\ deleted' = [key |-> k, found |-> mut[k] # Absent]
    /\ UNCHANGED snaps

\* Freeze(): publish the mutable handle's contents as a snapshot.
Freeze(i) ==
    /\ mut # NoMap
    /\ snaps' = [snaps EXCEPT ![i] = mut]
    /\ mut' = NoMap
    /\ UNCHANGED deleted

\* A reader drops its snapshot; the place then holds the empty HAMT.
Release(i) ==
    /\ snaps' = [snaps EXCEPT ![i] = EmptyMap]
    /\ UNCHANGED <<mut, deleted>>

Next ==
    \/ \E i \in SnapIds : Mutable(i) \/ Freeze(i) \/ Release(i)
    \/ \E k \in Keys : Delete(k) \/ \E v \in Vals : Put(k, v)

Spec == Init /\ [][Next]_vars
=============================================================================
