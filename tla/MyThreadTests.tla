----------------------------- MODULE MyThreadTests -----------------------------
(***************************************************************************)
(* The test program of the thread library (1.6/src/main.c), as the library *)
(* calls its functions make.  The waits between the calls (sched_yield,    *)
(* sleep) bound no interleaving, and so leave nothing here.                *)
(***************************************************************************)
EXTENDS Sequences, SequencesExt

mythread_create(t) == [op |-> "create", t |-> t]
mythread_join(t)   == [op |-> "join", t |-> t]
mythread_detach(t) == [op |-> "detach", t |-> t]

test_detach_after_exit(t) == <<mythread_create(t), mythread_detach(t)>>

test_detach_before_exit(t) ==
    <<mythread_create(t), mythread_detach(t), mythread_join(t)>>

\* Starts all the threads of a sequence, and joins them in the opposite order.
test_join(ts) ==
    [i \in DOMAIN ts |-> mythread_create(ts[i])]
    \o [i \in DOMAIN ts |-> mythread_join(Reverse(ts)[i])]

test_multiple_detach(t) ==
    <<mythread_create(t), mythread_detach(t), mythread_detach(t)>>

test_detach_long_running(t) == <<mythread_create(t), mythread_detach(t)>>

\* The code detaches 1000 times.
test_race_detach_vs_exit(t, times) ==
    <<mythread_create(t)>> \o [i \in 1..times |-> mythread_detach(t)]

test_detach_then_join_fails(t) ==
    <<mythread_create(t), mythread_detach(t), mythread_join(t)>>

=============================================================================
