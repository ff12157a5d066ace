------------------------------ MODULE HamtChain ------------------------------
(***************************************************************************)
(* Chained persistence of a HAMT directory (src/genny/hamt/hamt.go: Write, *)
(* ReadItemChain, read), as the info and schema directories use it.        *)
(*                                                                         *)
(* The HAMT itself is taken as the map it implements (Hamt refines         *)
(* HamtAbstract): a function from keys to items.  An item is a version of *)
(* a table's entry, or a tombstone (newInfoTomb) for a dropped table.      *)
(* Each persist writes, as one chunk linked to the previous one, the items *)
(* changed since the last chunk; reopening reads the chain newest first,   *)
(* an item being taken only if its key has not been seen yet.  A crash    *)
(* loses the in-memory directory and reopening rebuilds it from the chain. *)
(* Items are stored as Info.Write encodes them and read back by ReadInfo   *)
(* (src/db19/meta/info.go): the index list is stored as its length in one  *)
(* byte, and an entry read with length 0 has no index list, which isTomb   *)
(* takes for a tombstone.  The table's other fields are abstracted to the  *)
(* entry's version.                                                        *)
(***************************************************************************)
EXTENDS Naturals, Sequences, FiniteSets

CONSTANTS
    Keys,             \* table names
    MaxVer,           \* versions an entry may go through
    MaxChunks,        \* chunks the store may hold
    Absent,           \* no item for a key
    Nil,              \* Info.Indexes of a tombstone (a nil slice)
    IdxCounts,        \* lengths of a live table's index list
    PersistWhenClean  \* whether a persist may run with nothing changed

Items == [key : Keys, ver : 1 .. MaxVer, idx : IdxCounts \cup {Nil}]

\* An item as Info.Write stores it: the table name, the contents, and
\* len(Indexes) put in one byte.
Stored == [table : Keys, ver : 1 .. MaxVer, ni : 0 .. 255]

Dir == [Keys -> Items \cup {Absent}]

EmptyDir == [k \in Keys |-> Absent]

VARIABLES
    mem,      \* the directory in memory
    dirty,    \* keys changed since the last chunk (Info.lastmod)
    stor,     \* the chunks written, by offset: [prev, entries as stored]
    head,     \* offset of the newest chunk, 0 when there is none
    durable   \* (ghost) the directory as of the last persist

vars == <<mem, dirty, stor, head, durable>>

-----------------------------------------------------------------------------
(* Info.Write, ReadInfo and isTomb.                                        *)

IsTomb(it) == it.idx = Nil

\* len(ti.Indexes): 0 for a nil slice.
NumIndexes(it) == IF IsTomb(it) THEN 0 ELSE it.idx

\* Write: PutStr(Table), Put4(Nrows), Put5(Size), Put1(len(Indexes)).
InfoWrite(it) == [table |-> it.key, ver |-> it.ver, ni |-> NumIndexes(it) % 256]

\* Variant of ReadInfo that makes the index slice whatever the count.
ReadInfoAlwaysSlice(e) == [key |-> e.table, ver |-> e.ver, idx |-> e.ni]

\* ReadInfo: Indexes is made only when the stored count is above 0.
ReadInfo(e) ==
    [key |-> e.table, ver |-> e.ver, idx |-> IF e.ni > 0 THEN e.ni ELSE Nil]

-----------------------------------------------------------------------------
(* Write and ReadItemChain.                                                *)

\* Write(st, prevOff, filter): the items ForEach gives that pass filter;
\* if there are none the size is 0 and Write returns 0 without allocating.
Selected(ht, filter) == {ht[k] : k \in {j \in filter : ht[j] # Absent}}

WriteOff(ht, filter) == IF Selected(ht, filter) = {} THEN 0 ELSE Len(stor) + 1

\* Variant of WriteStor that links the chunk to its own offset (Put5 of
\* the offset Alloc returned instead of prevOff).
WriteStorSelfLink(ht, prevOff, filter) ==
    IF Selected(ht, filter) = {} THEN stor
    ELSE Append(stor, [prev |-> Len(stor) + 1,
                       items |-> {InfoWrite(it) : it \in Selected(ht, filter)}])

WriteStor(ht, prevOff, filter) ==
    IF Selected(ht, filter) = {} THEN stor
    ELSE Append(stor, [prev |-> prevOff,
                       items |-> {InfoWrite(it) : it \in Selected(ht, filter)}])

\* Variant of Read that puts every item, replacing what newer chunks gave.
ReadLastWins(items, ht) ==
    [k \in Keys |-> IF \E e \in items : e.table = k
                    THEN ReadInfo(CHOOSE e \in items : e.table = k)
                    ELSE ht[k]]

\* read(st, off): ReadItem each entry of the chunk and put it if its key
\* is not there yet.
Read(items, ht) ==
    [k \in Keys |-> IF ht[k] = Absent /\ \E e \in items : e.table = k
                    THEN ReadInfo(CHOOSE e \in items : e.table = k)
                    ELSE ht[k]]

\* ReadItemChain(st, off): read chunks from off back along prevOff to 0.
RECURSIVE ReadFrom(_, _)
ReadFrom(off, ht) ==
    IF off = 0 THEN ht ELSE ReadFrom(stor[off].prev, Read(stor[off].items, ht))

ReadItemChain(off) == ReadFrom(off, EmptyDir)

-----------------------------------------------------------------------------
(* The directory's operations.                                             *)

NextVer(k) == IF mem[k] = Absent THEN 1 ELSE mem[k].ver + 1

\* A table is created or its entry replaced (ht.Put of a new Info).
Update(k) ==
    /\ NextVer(k) <= MaxVer
    /\ \E n \in IdxCounts :
        mem' = [mem EXCEPT ![k] = [key |-> k, ver |-> NextVer(k), idx |-> n]]
    /\ dirty' = dirty \cup {k}
    /\ UNCHANGED <<stor, head, durable>>

\* A table is dropped: its entry is replaced by a tombstone (newInfoTomb,
\* an Info with only its Table set).
Drop(k) ==
    /\ mem[k] # Absent
    /\ ~IsTomb(mem[k])
    /\ NextVer(k) <= MaxVer
    /\ mem' = [mem EXCEPT ![k] = [key |-> k, ver |-> NextVer(k), idx |-> Nil]]
    /\ dirty' = dirty \cup {k}
    /\ UNCHANGED <<stor, head, durable>>

\* Persist: Write the changed items chained to the current head; the
\* offset Write returns becomes the head.
Persist ==
    /\ Len(stor) < MaxChunks
    /\ PersistWhenClean \/ dirty # {}
    /\ stor' = WriteStor(mem, head, dirty)
    /\ head' = WriteOff(mem, dirty)
    /\ dirty' = {}
    /\ durable' = mem
    /\ UNCHANGED mem

\* Crash and reopen: the directory is what ReadItemChain gives from head.
Restart ==
    /\ mem' = ReadItemChain(head)
    /\ dirty' = {}
    /\ UNCHANGED <<stor, head, durable>>

Init ==
    /\ mem = EmptyDir
    /\ dirty = {}
    /\ stor = <<>>
    /\ head = 0
    /\ durable = EmptyDir

Next ==
    \/ \E k \in Keys : Update(k) \/ Drop(k)
    \/ Persist
    \/ Restart

Spec == Init /\ [][Next]_vars

-----------------------------------------------------------------------------
(* Properties.                                                             *)

TypeOK ==
    /\ mem \in Dir
    /\ dirty \subseteq Keys
    /\ head \in 0 .. Len(stor)
    /\ \A i \in 1 .. Len(stor) : stor[i].prev < i /\ stor[i].items \subseteq Stored
    /\ durable \in Dir

\* Reading the chain from its head gives the directory as it was at the
\* last persist: every entry in its newest persisted version, tombstones
\* included, so a dropped table is not brought back by an older chunk,
\* and no persisted entry is lost.  The entries pass through Info.Write
\* and ReadInfo, so this also says that the encoding keeps a live table
\* live and a tombstone a tombstone.
ChainRecovers == ReadItemChain(head) = durable

=============================================================================
