------------------------ MODULE MCConcurrencyManager ------------------------
(***************************************************************************)
(* Small instances of ConcurrencyManager for TLC: the sizes of the sets,   *)
(* the calls the emulated program makes and the objects it starts with.    *)
(***************************************************************************)
EXTENDS ConcurrencyManager

Two   == 0..1
Three == 0..2
Four  == 0..3
One   == {0}
None  == {}

\* Attributes: with OnlyDefault every thread has the default one, which is not
\* preemptive; the other sets add one attribute with each of the values.
OnlyDefault == {"default"}
AndTwo      == {"default", "a", "b"}

Value(prio, edf, deadline, preemptive) ==
    [prio |-> prio, edf |-> edf, deadline |-> deadline, preemptive |-> preemptive]
PlainValues   == {DefaultValue}
RankedValues  == { Value(prio, FALSE, 0, TRUE) : prio \in 0..1 } \cup {Value(0, TRUE, 1, TRUE)}
UrgentValues  == {Value(1, FALSE, 0, TRUE)}
PreemptValues == {Value(0, FALSE, 0, TRUE), Value(1, FALSE, 0, TRUE)}

\* Objects
OneMutex     == [mutex |-> {0}, sem |-> {}, cond |-> {}]
MutexAndCond == [mutex |-> {0}, sem |-> {}, cond |-> {0}]
Nothing      == [mutex |-> {}, sem |-> {}, cond |-> {}]

\* Calls
LifeCalls   == [f : {"create"}, attr : AttrIds] \cup [f : {"exit"}]
JoinCalls   == LifeCalls \cup [f : {"join"}, th : Threads]
AllJoins    == LifeCalls \cup [f : {"joinAll"}]
LockCalls   == LifeCalls \cup MutexCalls
PairCalls   == LifeCalls \cup [f : {"lock", "unlock"}, m : Mutexes]
SleepCalls  == [f : {"signal", "broadcast"}, c : Conds]
               \cup [f : {"wait"}, c : Conds, m : Mutexes]
WakeCalls   == PairCalls \cup SleepCalls
MixedCalls  == WakeCalls \cup SemCalls \cup JoinCalls
RankCalls   == LockCalls \cup AllJoins \cup [f : {"setschedparam"}, th : {0}, v : {Value(1, FALSE, 0, TRUE)}]
               \cup [f : {"attr_set"}, attr : AttrIds, v : UrgentValues]
EveryCall   == MixedCalls \cup ObjCalls \cup [f : {"timedwait"}, c : Conds, m : Mutexes]

=============================================================================
