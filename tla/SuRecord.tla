------------------------------ MODULE SuRecord ------------------------------
(***************************************************************************)
(* The rule, dependency and observer machinery of one SuRecord             *)
(* (src/runtime/surecord.go).                                              *)
(*                                                                         *)
(* Fields are plain (set by put) or rule fields, whose value a rule        *)
(* computes by getting other fields.  A rule's reads are recorded as       *)
(* dependencies; a change to a field invalidates its dependents and        *)
(* queues them for the observers.  Rules and observers are user code: the  *)
(* code calls them with the record's lock released, and they call back     *)
(* into the record.                                                        *)
(*                                                                         *)
(* Each thread is a stack of frames: a get waiting for its rule, a rule    *)
(* body, the callObservers loop of a put or invalidate, an observer body.  *)
(* Every stretch of code between taking and releasing the lock is one      *)
(* atomic action; user code between two calls into the record does not    *)
(* touch it.  When the record is not concurrent Lock() does nothing and    *)
(* only one thread uses it.                                                *)
(***************************************************************************)
EXTENDS Integers, Sequences, FiniteSets, SequencesExt

CONSTANTS
    Threads,    \* threads calling into the record
    Plain,      \* plain fields, holding a value of Vals until deleted
    RuleDeps,   \* rule field -> the fields its rule gets, in order
    Vals,       \* {0, 1}: what put stores in a plain field
    ObsFns,     \* the observer functions that may be registered
    ObsBody,    \* observer -> member -> the calls the observer makes
    Calls,      \* the top-level calls a thread may make
    MaxCalls,   \* top-level calls per thread
    MaxDepth,   \* a bound on frames per thread (see RecursionBounded)
    Nil,        \* a member not present in the object
    DefVal,     \* r.ob.defval, the "" a missing member reads as
    NoRule      \* no active rule

RuleFields == DOMAIN RuleDeps
Fields == Plain \cup RuleFields
Observers == ObsFns

\* A call into the record: Get, Put, GetPut toggling a 0/1 value,
\* Invalidate, Delete, SetDeps restoring a rule's dependencies, and
\* Observer/RemoveObserver.
Call == [op : {"get", "invalidate", "delete"}, key : Fields]
        \cup [op : {"observer", "removeobserver"}, ob : ObsFns]
        \cup [op : {"toggle"}, key : Plain]
        \cup [op : {"put"}, key : Plain, val : Vals]
        \cup [op : {"setdeps"}, key : RuleFields]

ASSUME Calls \subseteq Call
ASSUME \A o \in Observers, f \in Fields : Range(ObsBody[o][f]) \subseteq Call

VARIABLES
    vals,       \* r.ob: field -> value, Nil when absent
    observers,  \* r.observers.list, in registration order
    invalid,    \* r.invalid, as the set of fields mapped to true
    queue,      \* r.invalidated: fields queued for the observers
    deps,       \* r.dependents: field -> the rule fields that used it
    active,     \* r.activeObservers: <<observer, member>> pairs, pushed and popped
    stack,      \* thread -> its frames, innermost last
    ncalls,     \* thread -> top-level calls made
    owed        \* (ghost) <<observer, member>> notifications still due

vars == <<vals, observers, invalid, queue, deps, active, stack, ncalls, owed>>

-----------------------------------------------------------------------------
(* Frames.                                                                 *)

GetFrame(key) == [kind |-> "get", key |-> key]
RuleFrame(key) == [kind |-> "rule", key |-> key, acc |-> <<>>]
NotifyFrame(orig, cur, pending) ==
    [kind |-> "notify", key |-> orig, cur |-> cur, pending |-> pending]
ObsFrame(o, key) == [kind |-> "observer", ob |-> o, key |-> key, todo |-> ObsBody[o][key]]

\* t.rules: the keys of the rule frames, oldest first.
ActiveRules(s) ==
    LET idx == SelectSeq([i \in 1 .. Len(s) |-> i], LAMBDA i : s[i].kind = "rule")
    IN [j \in 1 .. Len(idx) |-> s[idx[j]].key]

\* t.rules.top().key, or NoRule.
TopRule(s) == LET ar == ActiveRules(s) IN IF ar = <<>> THEN NoRule ELSE Last(ar)

\* A value returned to the caller: a rule body collects what it gets.
Deliver(s, v) ==
    IF s # <<>> /\ Last(s).kind = "rule"
    THEN [s EXCEPT ![Len(s)].acc = Append(@, v)]
    ELSE s

\* get(): a missing member gives the record's default value.
Returned(v) == IF v = Nil THEN DefVal ELSE v

SetStack(t, s) == stack' = [stack EXCEPT ![t] = s]

-----------------------------------------------------------------------------
(* Dependencies and invalidation.                                          *)

\* Variant of AddDependent with from and to swapped.
AddDependentSwapped(d, from, to) ==
    IF from = to \/ from = NoRule \/ to \in Range(d[from]) THEN d
    ELSE [d EXCEPT ![from] = Append(@, to)]

\* addDependent(from, to): record that rule field from used field to.
AddDependent(d, from, to) ==
    IF from = to \/ from = NoRule \/ from \in Range(d[to]) THEN d
    ELSE [d EXCEPT ![to] = Append(@, from)]

\* Variant of Invalidate that does not go on to the key's dependents.
InvalidateShallow(key, st) ==
    IF key \in st.invalid THEN st
    ELSE [invalid |-> st.invalid \cup {key}, queue |-> Append(st.queue, key)]

\* invalidate(key) and invalidateDependents, on the pair [invalid, queue].
RECURSIVE Invalidate(_, _), InvalidateDependents(_, _)
Invalidate(key, st) ==
    IF key \in st.invalid THEN st
    ELSE InvalidateDependents(deps[key],
             [invalid |-> st.invalid \cup {key}, queue |-> Append(st.queue, key)])
InvalidateDependents(ds, st) ==
    IF ds = <<>> THEN st
    ELSE InvalidateDependents(Tail(ds), Invalidate(Head(ds), st))

\* The observer calls in progress on any thread.
Running == {<<f.ob, f.key>> : f \in {fr \in UNION {Range(stack[t]) : t \in Threads} :
                                         fr.kind = "observer"}}

\* The notifications a change of the fields K makes due: every observer
\* not already running for that member.
Owe(K) == {<<o, k>> : o \in Range(observers), k \in K} \ Running

-----------------------------------------------------------------------------
(* callObservers(key): callObservers2 for key, then for every queued field *)
(* other than key.  Advance runs the loop, holding the lock, up to the     *)
(* next observer it calls or to the end.  callObservers2 ranges over       *)
(* r.observers.list as it is when it starts: pending is that slice.        *)

\* Variant of Advance without the loop over r.invalidated.
AdvanceNoLoop(orig, cur, pending, q, act) ==
    LET rest == SelectSeq(pending, LAMBDA o : <<o, cur>> \notin Range(act))
    IN IF rest # <<>>
       THEN [call |-> TRUE, ob |-> Head(rest), cur |-> cur,
             pending |-> Tail(rest), queue |-> q]
       ELSE [call |-> FALSE, queue |-> q]

\* Variant of Advance without the activeObservers check.
RECURSIVE AdvanceNoGuard(_, _, _, _, _)
AdvanceNoGuard(orig, cur, pending, q, act) ==
    IF pending # <<>>
    THEN [call |-> TRUE, ob |-> Head(pending), cur |-> cur,
          pending |-> Tail(pending), queue |-> q]
    ELSE IF q = <<>>
    THEN [call |-> FALSE, queue |-> q]
    ELSE IF Head(q) # orig
    THEN AdvanceNoGuard(orig, Head(q), observers, Tail(q), act)
    ELSE AdvanceNoGuard(orig, cur, <<>>, Tail(q), act)

RECURSIVE Advance(_, _, _, _, _)
Advance(orig, cur, pending, q, act) ==
    IF pending # <<>>
    THEN IF <<Head(pending), cur>> \notin Range(act)
         THEN [call |-> TRUE, ob |-> Head(pending), cur |-> cur,
               pending |-> Tail(pending), queue |-> q]
         ELSE Advance(orig, cur, Tail(pending), q, act)
    ELSE IF q = <<>>
    THEN [call |-> FALSE, queue |-> q]
    ELSE IF Head(q) # orig
    THEN Advance(orig, Head(q), observers, Tail(q), act)
    ELSE Advance(orig, cur, <<>>, Tail(q), act)

\* Run the loop from the given point: call the next observer with the lock
\* released (activeObservers.Push, then the call), or return.
Continue(t, s, orig, cur, pending, q, act, ow) ==
    LET a == Advance(orig, cur, pending, q, act)
    IN /\ queue' = a.queue
       /\ IF a.call
          THEN /\ active' = Append(act, <<a.ob, a.cur>>)
               /\ owed' = ow \ {<<a.ob, a.cur>>}
               /\ SetStack(t, s \o <<NotifyFrame(orig, a.cur, a.pending),
                                     ObsFrame(a.ob, a.cur)>>)
          ELSE /\ active' = act
               /\ owed' = ow
               /\ SetStack(t, s)

-----------------------------------------------------------------------------
(* Entering the record: the code each call runs holding the lock, up to    *)
(* its return or to the first rule or observer it calls.  s is the         *)
(* caller's stack.                                                         *)

\* callRule(key): drop key from invalid; call the rule, with the lock
\* released and key pushed on t.rules, unless the field has no rule or its
\* rule is already running on this thread (t.rules.has); otherwise the
\* stored value is the result.
CallRule(t, s, key, stored) ==
    /\ invalid' = invalid \ {key}
    /\ IF key \in RuleFields /\ key \notin Range(ActiveRules(s))
       THEN SetStack(t, s \o <<GetFrame(key), RuleFrame(key)>>)
       ELSE SetStack(t, Deliver(s, Returned(stored)))

\* Get(key) -> getIfPresent: the member is recorded as used by the rule on
\* top of t.rules; a missing or invalid member calls its rule.
EnterGet(t, s, key) ==
    LET stored == vals[key]
    IN /\ deps' = AddDependent(deps, TopRule(s), key)
       /\ IF stored = Nil \/ key \in invalid
          THEN CallRule(t, s, key, stored)
          ELSE /\ SetStack(t, Deliver(s, stored))
               /\ UNCHANGED invalid
       /\ UNCHANGED <<vals, observers, queue, active, owed>>

\* put(key, val) after its get of the old value: the old value is
\* replaced; a value that is not the same invalidates the dependents and
\* calls the observers.
PutValue(t, s, key, val, inv0) ==
    LET old == vals[key]
        inv1 == inv0 \ {key}
        st == InvalidateDependents(deps[key], [invalid |-> inv1, queue |-> queue])
        newly == Range(SubSeq(st.queue, Len(queue) + 1, Len(st.queue)))
    IN /\ vals' = [vals EXCEPT ![key] = val]
       /\ IF old # Nil /\ old = val
          THEN /\ invalid' = inv1
               /\ SetStack(t, s)
               /\ UNCHANGED <<queue, active, owed>>
          ELSE /\ invalid' = st.invalid
               /\ Continue(t, s, key, key, observers, st.queue, active,
                           owed \cup Owe({key} \cup newly))

EnterPut(t, s, key, val) ==
    /\ PutValue(t, s, key, val, invalid)
    /\ UNCHANGED <<observers, deps>>

\* The GetPut operation of the model: 1 becomes 0, anything else (the ""
\* of a deleted member counting as 0) becomes 1.
Toggled(v) == IF v = 1 THEN 0 ELSE 1

\* GetPut: get(m) then put(m, op(orig, v)), with the lock held throughout;
\* for a plain field get calls no rule and only drops m from invalid.
EnterToggle(t, s, key) ==
    /\ deps' = AddDependent(deps, TopRule(s), key)
    /\ PutValue(t, s, key, Toggled(Returned(vals[key])), invalid \ {key})
    /\ UNCHANGED observers

\* Invalidate(key): invalidate, then callObservers whatever it found.
EnterInvalidate(t, s, key) ==
    LET st == Invalidate(key, [invalid |-> invalid, queue |-> queue])
        newly == Range(SubSeq(st.queue, Len(queue) + 1, Len(st.queue)))
    IN /\ invalid' = st.invalid
       /\ Continue(t, s, key, key, observers, st.queue, active,
                   owed \cup Owe({key} \cup newly))
       /\ UNCHANGED <<vals, observers, deps>>

\* delete(key): a present member is removed, its dependents are
\* invalidated (the member itself is not) and the observers called; a
\* missing one changes nothing.
EnterDelete(t, s, key) ==
    LET st == InvalidateDependents(deps[key], [invalid |-> invalid, queue |-> queue])
        newly == Range(SubSeq(st.queue, Len(queue) + 1, Len(st.queue)))
    IN /\ IF vals[key] # Nil
          THEN /\ vals' = [vals EXCEPT ![key] = Nil]
               /\ invalid' = st.invalid
               /\ Continue(t, s, key, key, observers, st.queue, active,
                           owed \cup Owe({key} \cup newly))
          ELSE /\ SetStack(t, s)
               /\ UNCHANGED <<vals, invalid, queue, active, owed>>
       /\ UNCHANGED <<observers, deps>>

\* SetDeps(key, deps): record key as a dependent of each listed field (the
\* fields its rule read when the record was saved), skipping those that
\* already have it.
EnterSetDeps(t, s, key) ==
    /\ deps' = FoldLeft(LAMBDA d, to : AddDependent(d, key, to), deps, RuleDeps[key])
    /\ SetStack(t, s)
    /\ UNCHANGED <<vals, observers, invalid, queue, active, owed>>

\* Observer(fn): observers.Push(fn).
EnterObserver(t, s, o) ==
    /\ observers' = Append(observers, o)
    /\ SetStack(t, s)
    /\ UNCHANGED <<vals, invalid, queue, deps, active, owed>>

\* RemoveObserver(fn): observers.Remove(fn) takes out its first
\* registration; notifications still due to an observer no longer
\* registered are no longer owed.
EnterRemoveObserver(t, s, o) ==
    /\ observers' = RemoveFirst(observers, o)
    /\ owed' = IF o \in Range(observers') THEN owed
               ELSE {p \in owed : p[1] # o}
    /\ SetStack(t, s)
    /\ UNCHANGED <<vals, invalid, queue, deps, active>>

Enter(t, s, c) ==
    CASE c.op = "get"        -> EnterGet(t, s, c.key)
      [] c.op = "put"        -> EnterPut(t, s, c.key, c.val)
      [] c.op = "toggle"     -> EnterToggle(t, s, c.key)
      [] c.op = "invalidate" -> EnterInvalidate(t, s, c.key)
      [] c.op = "delete"     -> EnterDelete(t, s, c.key)
      [] c.op = "setdeps"    -> EnterSetDeps(t, s, c.key)
      [] c.op = "observer"   -> EnterObserver(t, s, c.ob)
      [] c.op = "removeobserver" -> EnterRemoveObserver(t, s, c.ob)

-----------------------------------------------------------------------------
(* The steps.                                                              *)

Top(t) == Last(stack[t])

\* A thread with nothing running makes a top-level call.
TopCall(t, c) ==
    /\ stack[t] = <<>>
    /\ ncalls[t] < MaxCalls
    /\ ncalls' = [ncalls EXCEPT ![t] = @ + 1]
    /\ Enter(t, <<>>, c)

\* A rule body gets its next input.
RuleStep(t) ==
    /\ stack[t] # <<>>
    /\ Top(t).kind = "rule"
    /\ Len(Top(t).acc) < Len(RuleDeps[Top(t).key])
    /\ Enter(t, stack[t], [op |-> "get", key |-> RuleDeps[Top(t).key][Len(Top(t).acc) + 1]])
    /\ UNCHANGED ncalls

\* The rule returns: catchRule relocks and pops t.rules, callRule stores
\* the value, and the get returns it.
RuleReturn(t) ==
    LET s == stack[t]
        key == Top(t).key
        val == Top(t).acc
    IN /\ s # <<>>
       /\ Top(t).kind = "rule"
       /\ Len(val) = Len(RuleDeps[key])
       /\ vals' = [vals EXCEPT ![key] = val]
       /\ SetStack(t, Deliver(SubSeq(s, 1, Len(s) - 2), val))
       /\ UNCHANGED <<observers, invalid, queue, deps, active, ncalls, owed>>

\* An observer body makes its next call.
ObsStep(t) ==
    /\ stack[t] # <<>>
    /\ Top(t).kind = "observer"
    /\ Top(t).todo # <<>>
    /\ Enter(t, [stack[t] EXCEPT ![Len(stack[t])].todo = Tail(@)], Head(Top(t).todo))
    /\ UNCHANGED ncalls

\* The observer returns: the lock is retaken, activeObservers.Pop() drops
\* the last pair, and the loop of callObservers goes on.
ObsReturn(t) ==
    LET s == stack[t]
        nf == s[Len(s) - 1]
    IN /\ s # <<>>
       /\ Top(t).kind = "observer"
       /\ Top(t).todo = <<>>
       /\ Continue(t, SubSeq(s, 1, Len(s) - 2), nf.key, nf.cur, nf.pending,
                   queue, Front(active), owed)
       /\ UNCHANGED <<vals, observers, invalid, deps, ncalls>>

-----------------------------------------------------------------------------

Init ==
    /\ vals = [f \in Fields |-> IF f \in Plain THEN 0 ELSE Nil]
    /\ observers = <<>>
    /\ invalid = {}
    /\ queue = <<>>
    /\ deps = [f \in Fields |-> <<>>]
    /\ active = <<>>
    /\ stack = [t \in Threads |-> <<>>]
    /\ ncalls = [t \in Threads |-> 0]
    /\ owed = {}

\* Every thread has made its calls and returned from them.
Finished == \A t \in Threads : stack[t] = <<>> /\ ncalls[t] = MaxCalls

Next ==
    \/ \E t \in Threads :
          \/ \E c \in Calls : TopCall(t, c)
          \/ RuleStep(t) \/ RuleReturn(t) \/ ObsStep(t) \/ ObsReturn(t)
    \/ Finished /\ UNCHANGED vars

Spec == Init /\ [][Next]_vars

-----------------------------------------------------------------------------
(* Properties.                                                             *)

RECURSIVE Eval(_)
\* What the rule for f gives on the current plain values.
Eval(f) == IF f \in Plain THEN Returned(vals[f])
           ELSE [i \in 1 .. Len(RuleDeps[f]) |-> Eval(RuleDeps[f][i])]

Quiescent == \A t \in Threads : stack[t] = <<>>

TypeOK ==
    /\ \A f \in Plain : vals[f] \in Vals \cup {Nil}
    /\ Range(observers) \subseteq ObsFns
    /\ invalid \subseteq Fields
    /\ Range(queue) \subseteq Fields
    /\ \A f \in Fields : Range(deps[f]) \subseteq RuleFields
    /\ Range(active) \subseteq Observers \X Fields
    /\ ncalls \in [Threads -> 0 .. MaxCalls]
    /\ owed \subseteq Observers \X Fields

\* A rule field that is stored and not marked invalid holds what its rule
\* gives on the current values, once no call is running: put and
\* invalidate reach, through the dependencies rules recorded, every stored
\* value derived from what changed.
NoStaleValue ==
    Quiescent =>
        \A f \in RuleFields :
            vals[f] # Nil /\ f \notin invalid => vals[f] = Eval(f)

\* Every change of a member (a put of a new value, an invalidation) is
\* followed by a call of each observer with that member, unless that
\* observer was already running for that member: callObservers and its
\* loop over r.invalidated leave nothing due once every call has returned.
ObserversNotified == Quiescent => owed = {}

\* Observers that change what they observe and rules reading other rules
\* never nest without end: the activeObservers and t.rules guards bound
\* every thread's stack.
RecursionBounded == \A t \in Threads : Len(stack[t]) <= MaxDepth

=============================================================================
