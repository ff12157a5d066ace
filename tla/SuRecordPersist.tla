--------------------------- MODULE SuRecordPersist ---------------------------
(***************************************************************************)
(* How a SuRecord keeps its rule dependencies across the database          *)
(* (src/runtime/surecord.go: SuRecordFromRow, ensureDeps, deps, Copy,      *)
(* getIfPresent, getFromRow, callRule, put, invalidate, ToRecord,          *)
(* getPacked, DbUpdate, delete, toObject, DeleteAll, Clear, SetReadOnly,   *)
(* DbDelete).                                                              *)
(*                                                                         *)
(* A rule field's value is saved in the row with, in its "_deps" column,   *)
(* the fields its rule read.  A record read from the database starts with *)
(* no dependents (nil) and takes them from the row's _deps columns the     *)
(* first time ensureDeps runs; until then values come from the row, and   *)
(* are cached in the record as they are read.  One thread, no observers   *)
(* (see SuRecord for those): every call runs to its end.                   *)
(***************************************************************************)
EXTENDS Naturals, Sequences, FiniteSets, SequencesExt

CONSTANTS
    Plain,      \* plain columns
    RuleDeps,   \* rule column -> the fields its rule gets, in order
    DepsCols,   \* rule columns that have a "_deps" column in the table
    Columns,    \* hdr.Fields[0] without the _deps columns, in order
    Vals,       \* values put in plain fields
    Recs,       \* SuRecord variables of the program
    CopySlots,  \* the variables a Copy may be assigned to
    ReadOnlySlots, \* the variables whose record the program makes read-only
    Checked,    \* the records NoStaleValue speaks of
    MaxOps,     \* calls in a behaviour
    Nil,        \* a missing member (nil), or "" in a row
    DefVal,     \* the record's default value ""
    NoMap,      \* a nil dependents map
    NoRow,      \* a record not read from the database
    NoRule      \* no active rule on the thread

RuleFields == DOMAIN RuleDeps
Fields == Plain \cup RuleFields

ASSUME DepsCols \subseteq RuleFields /\ Range(Columns) = Fields

\* r.dependents as a function, empty for every field.
EmptyDeps == [f \in Fields |-> {}]

VARIABLES
    recs,   \* variable -> the record it refers to
    db,     \* the table's one row: [vals, deps]
    nops    \* calls made

vars == <<recs, db, nops>>

-----------------------------------------------------------------------------
(* Reading from the row, and the dependents.                               *)

\* Variant of RowDeps that gives each rule its own list, not inverted.
RowDepsUninverted(row) == [f \in Fields |-> IF f \in DepsCols THEN row.deps[f] ELSE {}]

\* deps(row, hdr): for each _deps column, each listed field gets the rule
\* as a dependent.
RowDeps(row) == [f \in Fields |-> {c \in DepsCols : f \in row.deps[c]}]

\* Variant of EnsureDeps that never loads the row's dependencies.
EnsureDepsNever(R) == R

\* ensureDeps: load the dependents from the row if they are nil.
EnsureDeps(R) ==
    IF R.deps = NoMap /\ R.row # NoRow THEN [R EXCEPT !.deps = RowDeps(R.row)]
    ELSE R

\* addDependent(from, to): a nil map is created first.
AddDependent(R, from, to) ==
    IF from = to THEN R
    ELSE LET d == IF R.deps = NoMap THEN EmptyDeps ELSE R.deps
         IN [R EXCEPT !.deps = [d EXCEPT ![to] = @ \cup {from}]]

\* The raw value of key in the row, Nil for "".
Raw(R, key) == IF R.row = NoRow THEN Nil ELSE R.row.vals[key]

\* getIfPresent up to the rule call: the member, else (userow) the row's
\* value from getFromRow.
Present(R, key) == IF R.ob[key] = Nil /\ R.userow THEN Raw(R, key) ELSE R.ob[key]

\* getFromRow caches the row's value in the member unless read-only.
Cached(R, key) ==
    IF R.ob[key] = Nil /\ R.userow /\ Raw(R, key) # Nil /\ ~R.readonly
    THEN [R EXCEPT !.ob[key] = Raw(R, key)]
    ELSE R

\* Variant of StoreRule that never stores the rule's value.
StoreRuleNever(R, key, v) == R

\* callRule stores the rule's value in the member unless read-only.
StoreRule(R, key, v) == IF R.readonly THEN R ELSE [R EXCEPT !.ob[key] = v]

-----------------------------------------------------------------------------
(* Get and the rules.  A rule's value is the sequence of what it got.      *)

RECURSIVE GetIfPresent(_, _, _, _), CallRule(_, _, _), RunRule(_, _, _, _)

\* The rule for key runs: it gets each field it reads, in order, as the
\* rule on top of t.rules; a missing one gives the default value.
RunRule(R, key, act, acc) ==
    IF Len(acc) = Len(RuleDeps[key]) THEN [v |-> acc, r |-> R]
    ELSE LET g == GetIfPresent(R, RuleDeps[key][Len(acc) + 1], key, act)
         IN RunRule(g.r, key, act, Append(acc, IF g.v = Nil THEN DefVal ELSE g.v))

\* callRule(key): ensureDeps, drop key from invalid, and run the rule
\* unless it is already running; its value is stored in the member.
CallRule(R, key, act) ==
    LET R1 == [EnsureDeps(R) EXCEPT !.invalid = @ \ {key}]
        run == RunRule(R1, key, act \cup {key}, <<>>)
    IN IF key \in RuleFields /\ key \notin act
       THEN [v |-> run.v, r |-> StoreRule(run.r, key, run.v)]
       ELSE [v |-> Nil, r |-> R1]

\* getIfPresent(key) with top the rule running on the thread for this
\* record: record the dependency, take the member or the row's value, and
\* call the rule for a missing or invalid one.
GetIfPresent(R, key, top, act) ==
    LET R1 == IF top # NoRule THEN AddDependent(R, top, key) ELSE R
        res == Present(R1, key)
        R2 == Cached(R1, key)
    IN IF res = Nil \/ key \in R2.invalid
       THEN LET c == CallRule(R2, key, act)
            IN IF c.v # Nil THEN c ELSE [v |-> res, r |-> c.r]
       ELSE [v |-> res, r |-> R2]

-----------------------------------------------------------------------------
(* Invalidation and put.                                                   *)

RECURSIVE Invalidate(_, _), InvalidateEach(_, _), InvalidateDependents(_, _)
\* invalidate(key): mark it and, if it was not already, its dependents.
Invalidate(R, key) ==
    IF key \in R.invalid THEN R
    ELSE InvalidateDependents([R EXCEPT !.invalid = @ \cup {key}], key)

\* invalidate each field of ds (the order does not change the result).
InvalidateEach(R, ds) ==
    IF ds = {} THEN R
    ELSE LET d == CHOOSE d \in ds : TRUE
         IN InvalidateEach(Invalidate(R, d), ds \ {d})

\* invalidateDependents(key): ranging over a nil map does nothing.
InvalidateDependents(R, key) ==
    IF R.deps = NoMap THEN R ELSE InvalidateEach(R, R.deps[key])

\* put(key, val): the old value is the member or the row's; the same value
\* changes nothing more, another one invalidates the dependents.
PutRec(R, key, val) ==
    LET R1 == [EnsureDeps(R) EXCEPT !.invalid = @ \ {key}]
        old == IF R1.ob[key] = Nil /\ R1.userow THEN Raw(R1, key) ELSE R1.ob[key]
        R2 == [R1 EXCEPT !.ob[key] = val]
    IN IF old # Nil /\ old = val THEN R2 ELSE InvalidateDependents(R2, key)

-----------------------------------------------------------------------------
(* Saving: ToRecord.                                                       *)

\* deps(t, key): like getIfPresent but a row value is not unpacked; a
\* missing or invalid member calls its rule.
DepsOf(R, key) ==
    LET has == R.ob[key] # Nil \/ (R.userow /\ Raw(R, key) # Nil)
    IN IF ~has \/ key \in R.invalid THEN CallRule(R, key, {}).r ELSE R

\* getPacked(t, key): the member, else the row's raw value (even if the
\* row is no longer used); the rule runs when there is neither or the key
\* is invalid, but a raw value from the row is returned as it is packed;
\* "" packs to nothing.
GetPacked(R, key) ==
    LET packed == IF R.ob[key] = Nil THEN Raw(R, key) ELSE Nil
        base == IF R.ob[key] # Nil THEN R.ob[key] ELSE packed
        c == IF base = Nil \/ key \in R.invalid THEN CallRule(R, key, {}) ELSE [v |-> Nil, r |-> R]
    IN [v |-> IF packed # Nil THEN packed ELSE IF c.v # Nil THEN c.v ELSE base,
        r |-> c.r]

\* Variant of DepsColumn that writes the rule's dependents, not inverted.
DepsColumnUninverted(R, c) ==
    IF R.deps # NoMap /\ R.deps[c] # {} THEN R.deps[c]
    ELSE IF R.row = NoRow THEN {} ELSE R.row.deps[c]

\* The _deps column c: the fields whose dependents include c, the stored
\* dependencies inverted; a column no dependent names keeps its packed
\* value (the row's, or "").
DepsColumn(R, c) ==
    LET inv == {k \in Fields : c \in R.deps[k]}
    IN IF R.deps # NoMap /\ inv # {} THEN inv
       ELSE IF R.row = NoRow THEN {} ELSE R.row.deps[c]

RECURSIVE DepsPass(_, _), PackPass(_, _, _)
\* The first loop of ToRecord: deps for the columns from i on.
DepsPass(R, i) == IF i > Len(Columns) THEN R ELSE DepsPass(DepsOf(R, Columns[i]), i + 1)

\* The last loop of ToRecord: getPacked for the columns from i on.
PackPass(R, i, vals) ==
    IF i > Len(Columns) THEN [r |-> R, vals |-> vals]
    ELSE LET g == GetPacked(R, Columns[i])
         IN PackPass(g.r, i + 1, [vals EXCEPT ![Columns[i]] = g.v])

\* ToRecord: ensureDeps; deps for every column; the _deps columns; then
\* getPacked for every other column, in order.
ToRecord(R) ==
    LET R1 == DepsPass(EnsureDeps(R), 1)
        out == PackPass(R1, 1, [f \in Fields |-> Nil])
    IN [row |-> [vals |-> out.vals, deps |-> [c \in DepsCols |-> DepsColumn(R1, c)]],
        r |-> out.r]

-----------------------------------------------------------------------------
(* Records and the steps.                                                  *)

\* NewSuRecord.
NewRecord == [ob |-> [f \in Fields |-> Nil], row |-> NoRow, userow |-> FALSE,
              deps |-> NoMap, invalid |-> {}, old |-> FALSE, readonly |-> FALSE]

\* SuRecordFromRow of an updateable table: status OLD.
FromRow(row) == [NewRecord EXCEPT !.row = row, !.userow = TRUE, !.old = TRUE]

\* slice(0): the same members, row and status; dependents and invalid
\* copied, a nil map becoming an empty one; tran and recoff are not copied
\* and the copied object is not read-only.
CopyRec(R) == [R EXCEPT !.deps = IF R.deps = NoMap THEN EmptyDeps ELSE R.deps,
                        !.old = FALSE, !.readonly = FALSE]

\* toObject: with userow, every non-empty row value not in a member is
\* unpacked into it, and the row is no longer used (it is kept).
ToObjectRec(R) ==
    IF R.userow
    THEN [R EXCEPT !.ob = [f \in Fields |-> Present(R, f)], !.userow = FALSE]
    ELSE R

\* delete(key) of a mutable record: ensureDeps, unpack, drop the row; if
\* the member was there, invalidate its dependents.
DeleteRec(R, key) ==
    LET R1 == [ToObjectRec(EnsureDeps(R)) EXCEPT !.row = NoRow]
    IN IF R1.ob[key] # Nil
       THEN InvalidateDependents([R1 EXCEPT !.ob[key] = Nil], key)
       ELSE R1

Counted == nops < MaxOps /\ nops' = nops + 1

\* Get(key) from the program: no rule of this record is running.
Get(s, key) ==
    /\ Counted
    /\ recs' = [recs EXCEPT ![s] = GetIfPresent(recs[s], key, NoRule, {}).r]
    /\ UNCHANGED db

\* Put(key, val); the program does not put to a read-only record.
Put(s, key, val) ==
    /\ Counted
    /\ ~recs[s].readonly
    /\ recs' = [recs EXCEPT ![s] = PutRec(recs[s], key, val)]
    /\ UNCHANGED db

\* Invalidate(key): ensureDeps, then invalidate.
InvalidateCall(s, key) ==
    /\ Counted
    /\ recs' = [recs EXCEPT ![s] = Invalidate(EnsureDeps(recs[s]), key)]
    /\ UNCHANGED db

\* Query1 / Next: a record read from the table.
Read(s) ==
    /\ Counted
    /\ db # NoRow
    /\ recs' = [recs EXCEPT ![s] = FromRow(db)]
    /\ UNCHANGED db

\* x = y.Copy().
Copy(s, d) ==
    /\ Counted
    /\ s # d
    /\ recs' = [recs EXCEPT ![d] = CopyRec(recs[s])]
    /\ UNCHANGED db

\* DbUpdate(false): ToRecord, ckModify (a record read from the table),
\* tran.Update; the record keeps its old row.  The program does not save
\* a read-only record, nor update a row it deleted.
DbUpdate(s) ==
    /\ Counted
    /\ recs[s].old
    /\ ~recs[s].readonly
    /\ db # NoRow
    /\ LET w == ToRecord(recs[s])
       IN /\ db' = w.row
          /\ recs' = [recs EXCEPT ![s] = w.r]

\* Delete(key) and Erase(key): on a read-only record mustBeMutable panics
\* after ensureDeps.
Delete(s, key) ==
    /\ Counted
    /\ recs' = [recs EXCEPT ![s] = IF recs[s].readonly THEN EnsureDeps(recs[s])
                                   ELSE DeleteRec(recs[s], key)]
    /\ UNCHANGED db

\* ToObject (also Iter, ArgsIter, Iter2).
ToObject(s) ==
    /\ Counted
    /\ recs' = [recs EXCEPT ![s] = ToObjectRec(recs[s])]
    /\ UNCHANGED db

\* DeleteAll: no members and no row; invalid and dependents are kept.
\* The program does not call it on a read-only record.
DeleteAll(s) ==
    /\ Counted
    /\ ~recs[s].readonly
    /\ recs' = [recs EXCEPT ![s].ob = [f \in Fields |-> Nil],
                             ![s].row = NoRow, ![s].userow = FALSE]
    /\ UNCHANGED db

\* Clear: mustBeMutable, then the record becomes a new one.
Clear(s) ==
    /\ Counted
    /\ ~recs[s].readonly
    /\ recs' = [recs EXCEPT ![s] = NewRecord]
    /\ UNCHANGED db

\* SetReadOnly: ToObject, then the object is read-only.
SetReadOnly(s) ==
    /\ Counted
    /\ s \in ReadOnlySlots
    /\ recs' = [recs EXCEPT ![s] = [ToObjectRec(recs[s]) EXCEPT !.readonly = TRUE]]
    /\ UNCHANGED db

\* DbDelete: ckModify, tran.Delete, status DELETED.
DbDelete(s) ==
    /\ Counted
    /\ recs[s].old
    /\ db # NoRow
    /\ db' = NoRow
    /\ recs' = [recs EXCEPT ![s].old = FALSE]

\* The table's row was output from a new record with every plain field 0.
Init ==
    /\ db = ToRecord([NewRecord EXCEPT !.ob = [f \in Fields |-> IF f \in Plain THEN 0 ELSE Nil]]).row
    /\ recs = [s \in Recs |-> FromRow(db)]
    /\ nops = 0

Next ==
    \/ \E s \in Recs :
          \/ \E k \in Fields : Get(s, k) \/ InvalidateCall(s, k) \/ Delete(s, k)
          \/ ToObject(s) \/ DeleteAll(s) \/ Clear(s) \/ SetReadOnly(s) \/ DbDelete(s)
          \/ \E k \in Plain, v \in Vals : Put(s, k, v)
          \/ Read(s)
          \/ DbUpdate(s)
          \/ \E d \in CopySlots : Copy(s, d)
    \/ nops = MaxOps /\ UNCHANGED vars

Spec == Init /\ [][Next]_vars

-----------------------------------------------------------------------------
(* Properties.                                                             *)

\* What the rule for f gives on the values the record now reads.
RECURSIVE Eval(_, _)
Eval(R, f) ==
    IF f \in Plain
    THEN LET v == IF R.ob[f] # Nil THEN R.ob[f]
                  ELSE IF R.userow THEN Raw(R, f) ELSE Nil
         IN IF v = Nil THEN DefVal ELSE v
    ELSE [i \in 1 .. Len(RuleDeps[f]) |-> Eval(R, RuleDeps[f][i])]

\* The value a Get of a rule field returns without calling its rule.
Held(R, f) == IF R.ob[f] # Nil THEN R.ob[f] ELSE IF R.userow THEN Raw(R, f) ELSE Nil

TypeOK ==
    /\ nops \in 0 .. MaxOps
    /\ \A s \in Recs : /\ recs[s].invalid \subseteq Fields
                       /\ recs[s].deps \in {NoMap} \cup [Fields -> SUBSET RuleFields]
    /\ db = NoRow \/ db.deps \in [DepsCols -> SUBSET Fields]

\* A record read from the table and changed since holds, for every rule
\* field it would return without running the rule, what the rule gives
\* on its current values: the _deps columns written by ToRecord and
\* loaded by ensureDeps bring back every dependency a put must follow.
NoStaleValue ==
    \A s \in Checked : \A f \in RuleFields :
        Held(recs[s], f) # Nil /\ f \notin recs[s].invalid =>
            Held(recs[s], f) = Eval(recs[s], f)

\* Every row DbUpdate writes is consistent: its rule columns are what the
\* rules give on its plain columns, and each _deps column names every
\* field its rule reads, whatever was read, put and invalidated before
\* the save (ToRecord's deps pass and the inversion of r.dependents).
StoredConsistent ==
    LET R == FromRow(db)
    IN db # NoRow =>
       /\ \A f \in RuleFields : Held(R, f) # Nil => Held(R, f) = Eval(R, f)
       /\ \A c \in DepsCols : Range(RuleDeps[c]) \subseteq db.deps[c]

\* Get is repeatable: getting a field twice with nothing in between gives
\* the same value, the second Get reading what the first left (the member
\* callRule stored, the row value getFromRow cached, invalid cleared).
GetRepeatable ==
    \A s \in Checked : \A f \in Fields :
        LET g == GetIfPresent(recs[s], f, NoRule, {})
        IN GetIfPresent(g.r, f, NoRule, {}).v = g.v

=============================================================================
