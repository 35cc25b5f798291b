----------------------------- MODULE RtSemaphore -----------------------------
(***************************************************************************)
(* The counting semaphore of the RT-Thread kernel (ipc.c), as operators on *)
(* a record.  The kernel disables interrupts around every update, so each  *)
(* operation is one step for the modules that use it.                      *)
(*                                                                         *)
(* Only waiting forever in FIFO order is modelled: no caller of rt_sem_take *)
(* in this repository's application code asks for anything else.           *)
(***************************************************************************)
EXTENDS Naturals, Sequences

CONSTANT RT_SEM_VALUE_MAX           \* 65535: value is a uint16_t

ASSUME SemAssumption == RT_SEM_VALUE_MAX \in Nat \ {0}

Semaphores(T) == [value : 0..RT_SEM_VALUE_MAX, suspended : Seq(T)]

(* rt_sem_init *)
NewSem(n) == [value |-> n, suspended |-> <<>>]

(* rt_sem_take(sem, RT_WAITING_FOREVER): go on if CanTake, otherwise wait. *)
CanTake(sem) == sem.value > 0
Taken(sem) == [sem EXCEPT !.value = @ - 1]
Suspended(sem, t) == [sem EXCEPT !.suspended = Append(@, t)]

(* rt_sem_release: resume the first waiter, or count, or refuse when full. *)
Full(sem) == sem.suspended = <<>> /\ sem.value = RT_SEM_VALUE_MAX
Resumed(sem) == IF sem.suspended = <<>> THEN {} ELSE {Head(sem.suspended)}

(* Mutant: the waiter is made ready but stays in the list. *)
Released_KeepsList(sem) ==
    IF sem.suspended # <<>> \/ Full(sem) THEN sem
    ELSE [sem EXCEPT !.value = @ + 1]

Released(sem) ==
    IF sem.suspended # <<>> THEN [sem EXCEPT !.suspended = Tail(@)]
    ELSE IF Full(sem) THEN sem
    ELSE [sem EXCEPT !.value = @ + 1]
===============================================================================
