------------------------------ MODULE MCMyThread ------------------------------
(* Instances of the thread library for TLC: the calls of main.c's tests, and *)
(* pairs of clients that compete for a thread.                               *)
EXTENDS MyThread, TLC

CONSTANTS c1, c2, t1, t2

Tests == INSTANCE MyThreadTests

create(t) == Tests!mythread_create(t)
Claims(t) == {Tests!mythread_join(t), Tests!mythread_detach(t)}

\* c1 makes the first sequence of calls and c2 the second.
Clients2(first, second) == [c \in {c1, c2} |-> IF c = c1 THEN first ELSE second]

\* c1 starts t1; both clients then join or detach it.
Contest == {Clients2(<<create(t1), x>>, <<y>>) : x, y \in Claims(t1)}

\* Each client starts a thread of which the other one takes care.
Exchange == Clients2(<<create(t1), Tests!mythread_join(t2)>>,
                     <<create(t2), Tests!mythread_detach(t1)>>)

\* One client runs two tests in a row, a detached thread each.
TestsInSequence == Clients2(Tests!test_detach_after_exit(t1)
                              \o Tests!test_detach_long_running(t2), <<>>)

\* One client goes on using the thread it has detached.
LateCalls == {Clients2(calls, <<>>) : calls \in {Tests!test_detach_before_exit(t1),
                                                Tests!test_race_detach_vs_exit(t1, 3)}}

CompetingClients == Contest \cup {Exchange, TestsInSequence} \cup LateCalls

Lifecycles == Contest \cup {TestsInSequence} \cup LateCalls

ReaperSymmetry == Permutations(Reapers)

\* Single tests of main.c.
JoinTest   == {[c \in {c1} |-> Tests!test_join(<<t1, t2>>)]}
RepeatTest == {[c \in {c1} |-> Tests!test_multiple_detach(t1)]}
ErrnoTest  == {[c \in {c1} |-> Tests!test_detach_then_join_fails(t1)]}
=============================================================================
