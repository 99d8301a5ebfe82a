---------------------------- MODULE ThreadContract ----------------------------
(***************************************************************************)
(* What the thread library promises of a thread, without saying how: a     *)
(* started thread finishes once, is claimed once, by a join or by a        *)
(* detach, and its stack and its descriptor are given back once, in this   *)
(* order, and only when the thread is both finished and claimed.           *)
(*                                                                         *)
(* crashed is the end of the process: nothing is promised beyond it.       *)
(***************************************************************************)
CONSTANT Threads

VARIABLES life,      \* absent, running or finished
          owner,     \* none, joined or detached
          held,      \* the resources a thread still occupies
          crashed

vars == <<life, owner, held, crashed>>

Lives     == {"absent", "running", "finished"}
Owners    == {"none", "joined", "detached"}
Resources == {"stack", "descriptor"}

Init ==
    /\ life = [t \in Threads |-> "absent"]
    /\ owner = [t \in Threads |-> "none"]
    /\ held = [t \in Threads |-> {}]
    /\ crashed = FALSE

\* mythread_create
Start(t) ==
    /\ life[t] = "absent"
    /\ life' = [life EXCEPT ![t] = "running"]
    /\ held' = [held EXCEPT ![t] = Resources]
    /\ UNCHANGED owner

\* The start routine has returned and its value can be read.
Finish(t) ==
    /\ life[t] = "running"
    /\ life' = [life EXCEPT ![t] = "finished"]
    /\ UNCHANGED <<owner, held>>

\* mythread_join and mythread_detach compete for the thread; one of them wins.
Own(t, o) ==
    /\ life[t] # "absent"
    /\ owner[t] = "none"
    /\ owner' = [owner EXCEPT ![t] = o]
    /\ UNCHANGED <<life, held>>

ReleaseStack(t) ==
    /\ life[t] = "finished"
    /\ owner[t] # "none"
    /\ "stack" \in held[t]
    /\ held' = [held EXCEPT ![t] = @ \ {"stack"}]
    /\ UNCHANGED <<life, owner>>

ReleaseDescriptor(t) ==
    /\ held[t] = {"descriptor"}
    /\ held' = [held EXCEPT ![t] = {}]
    /\ UNCHANGED <<life, owner>>

Release(t) == /\ ~crashed
              /\ ReleaseStack(t) \/ ReleaseDescriptor(t)
              /\ UNCHANGED crashed

Crash == /\ ~crashed
         /\ crashed' = TRUE
         /\ UNCHANGED <<life, owner, held>>

Next ==
    \/ \E t \in Threads :
          \/ Release(t)
          \/ /\ ~crashed
             /\ Start(t) \/ Finish(t) \/ \E o \in {"joined", "detached"} : Own(t, o)
             /\ UNCHANGED crashed
    \/ Crash

Safe == Init /\ [][Next]_vars

\* Whatever is finished and claimed is given back.
Spec == Safe /\ \A t \in Threads : WF_vars(Release(t))

=============================================================================
