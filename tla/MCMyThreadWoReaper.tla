-------------------------- MODULE MCMyThreadWoReaper --------------------------
(* Instances of the library without a reaper for TLC: the tests of its main  *)
(* program, alone and beside each other, and two clients that compete.       *)
EXTENDS MyThreadWoReaper

CONSTANTS c1, c2, t1, t2

Tests == INSTANCE WoReaperTests

\* c1 makes the first sequence of calls and c2 the second.
Clients2(first, second) == [c \in {c1, c2} |-> IF c = c1 THEN first ELSE second]

\* c1 starts t1; both clients then join or detach it.
Contest == LET claims == {Tests!mythread_join(t1), Tests!mythread_detach(t1)}
           IN  {Clients2(<<Tests!mythread_create(t1), x>>, <<y>>) : x, y \in claims}

\* c1 joins what it has started, or detaches it twice; c2 detaches a thread of
\* its own meanwhile, and then tries to join it.
SideBySide == {Clients2(calls, Tests!test_detach_then_join_fails(t2)) :
                  calls \in {Tests!test_join(<<t1>>), Tests!test_multiple_detach(t1)}}

\* The tests that one client makes of one thread or of two.
SingleTests == {Clients2(calls, <<>>) :
                   calls \in {Tests!test_join(<<t1, t2>>),
                              Tests!test_many_detached_threads(<<t1, t2>>),
                              Tests!test_detach_before_exit(t1),
                              Tests!test_race_detach_vs_exit(t1, 3),
                              Tests!test_detach_after_exit(t1)
                                \o Tests!test_detach_long_running(t2)}}

CompetingClients == Contest \cup SideBySide \cup SingleTests

\* A single test of main.c.
DetachTest == {[c \in {c1} |-> Tests!test_detach_after_exit(t1)]}

=============================================================================
