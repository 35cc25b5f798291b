------------------------------- MODULE NodeBoot -------------------------------
(***************************************************************************)
(* How main() of a node brings it up: it starts the timer, prepares its    *)
(* devices, which takes a while, and only then makes the semaphores that   *)
(* the timer interrupt releases.  rt_sem_release and rt_sem_take assert    *)
(* that they are given a semaphore; the handler of a failed assertion is   *)
(* an endless loop, here in the interrupt.                                 *)
(*                                                                         *)
(* Time is counted in ticks of TIM4.  Making semaphores and threads takes  *)
(* no time.                                                                *)
(***************************************************************************)
EXTENDS RtSemaphore

CONSTANTS
    SemOrder,           \* the semaphores, in the order main() makes them
    Interval,           \* for those the timer releases: what its counter is compared with
    PrepTimes           \* ticks that may pass between Timer_Init and rt_sem_init

Timers == DOMAIN Interval
Names == {SemOrder[i] : i \in DOMAIN SemOrder}

ASSUME BootAssumption ==
    /\ SemOrder \in Seq(Names) /\ Timers \subseteq Names
    /\ Interval \in [Timers -> Nat]
    /\ PrepTimes \subseteq Nat /\ PrepTimes # {}

VARIABLES
    prep,               \* ticks the preparation still takes
    made,               \* semaphores made so far
    timer,              \* static counters of TIM4_IRQHandler
    sem,                \* the semaphores
    halted              \* an assertion has failed

bootVars == <<prep, made, timer, sem, halted>>

Ready == {SemOrder[i] : i \in 1..made}
Up == made = Len(SemOrder)

(* Mutant: counters that start full, for a first sample without delay. *)
BootInit_FirstAtOnce ==
    /\ prep \in PrepTimes
    /\ made = 0
    /\ timer = Interval
    /\ sem = [s \in Names |-> NewSem(0)]
    /\ halted = FALSE

(* The instant Timer_Init returns. *)
BootInit ==
    /\ prep \in PrepTimes
    /\ made = 0
    /\ timer = [s \in Timers |-> 0]
    /\ sem = [s \in Names |-> NewSem(0)]
    /\ halted = FALSE

(* rt_sem_init, in the order of main(). *)
MakeSemaphore ==
    /\ ~halted /\ prep = 0 /\ ~Up
    /\ made' = made + 1
    /\ sem' = [sem EXCEPT ![SemOrder[made + 1]] = NewSem(0)]
    /\ UNCHANGED <<prep, timer, halted>>

(* TIM4_IRQHandler: if (timer++ == interval) release. *)
Due == {s \in Timers : timer[s] = Interval[s]}

TimerInterrupt ==
    /\ ~halted /\ (prep > 0 \/ Up)
    /\ prep' = IF prep > 0 THEN prep - 1 ELSE 0
    /\ timer' = [s \in Timers |-> IF s \in Due THEN 0 ELSE timer[s] + 1]
    /\ sem' = [s \in Names |-> IF s \in Due \intersect Ready THEN Released(sem[s]) ELSE sem[s]]
    /\ halted' = ~(Due \subseteq Ready)
    /\ UNCHANGED made

(* rt_sem_take with a token there and without, and rt_sem_release by a thread.
   Each semaphore feeds one thread, which goes by its name. *)
TakeSem(s) ==
    /\ ~halted /\ Up /\ CanTake(sem[s])
    /\ sem' = [sem EXCEPT ![s] = Taken(@)]
    /\ UNCHANGED <<prep, made, timer, halted>>

WaitForSem(s) ==
    /\ ~halted /\ Up /\ ~CanTake(sem[s]) /\ sem[s].suspended = <<>>
    /\ sem' = [sem EXCEPT ![s] = Suspended(@, s)]
    /\ UNCHANGED <<prep, made, timer, halted>>

ReleaseSem(s) ==
    /\ ~halted /\ Up /\ s \notin Timers
    /\ sem' = [sem EXCEPT ![s] = Released(@)]
    /\ UNCHANGED <<prep, made, timer, halted>>

BootNext ==
    \/ MakeSemaphore \/ TimerInterrupt
    \/ \E s \in Names : TakeSem(s) \/ WaitForSem(s) \/ ReleaseSem(s)

BootSpec == BootInit /\ [][BootNext]_bootVars

-------------------------------------------------------------------------------
(* The assertion at the head of rt_sem_release (ipc.c:608) never fails: the
   interrupt releases no semaphore that main() has yet to make. *)
AssertHolds == ~halted
===============================================================================
