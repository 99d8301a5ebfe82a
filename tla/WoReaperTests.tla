----------------------------- MODULE WoReaperTests -----------------------------
(***************************************************************************)
(* The test program of the library without a reaper (wo_reaper/main.c), as *)
(* the library calls its functions make; the waits between the calls bound *)
(* no interleaving, and so leave nothing here.                             *)
(***************************************************************************)
EXTENDS Sequences, SequencesExt

mythread_create(t) == [op |-> "create", t |-> t]
mythread_join(t)   == [op |-> "join", t |-> t]
mythread_detach(t) == [op |-> "detach", t |-> t]

test_detach_after_exit(t) == <<mythread_create(t), mythread_detach(t)>>

test_detach_before_exit(t) ==
    <<mythread_create(t), mythread_detach(t), mythread_join(t)>>

\* The last thread started is the first one joined.
test_join(ts) ==
    [i \in DOMAIN ts |-> mythread_create(ts[i])]
    \o [i \in DOMAIN ts |-> mythread_join(Reverse(ts)[i])]

test_multiple_detach(t) ==
    <<mythread_create(t), mythread_detach(t), mythread_detach(t)>>

test_detach_long_running(t) == <<mythread_create(t), mythread_detach(t)>>

\* The code detaches 1000 times.
test_race_detach_vs_exit(t, times) ==
    <<mythread_create(t)>> \o [i \in 1..times |-> mythread_detach(t)]

test_detach_then_join_fails(t) ==
    <<mythread_create(t), mythread_detach(t), mythread_join(t)>>

\* Detaches each thread as soon as it is started.
test_many_detached_threads(ts) ==
    FlattenSeq([i \in DOMAIN ts |-> <<mythread_create(ts[i]), mythread_detach(ts[i])>>])

=============================================================================
