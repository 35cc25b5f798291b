---------------------------- MODULE NodeBootProofs ----------------------------
(***************************************************************************)
(* When the start-up of a node is safe: if its preparation never takes     *)
(* longer than its shortest interval, the timer interrupt finds every      *)
(* semaphore it releases.  The detector and the access node satisfy this,  *)
(* the gateway does not: its preparation always takes longer, and then no  *)
(* semaphore is ever made.                                                 *)
(***************************************************************************)
EXTENDS NodeBoot, TLAPS

PreparationIsShort == \A p \in PrepTimes, s \in Timers : p <= Interval[s]

(* Until the semaphores are made no timer can be due before the preparation
   ends. *)
BootIInv ==
    /\ prep \in Nat /\ made \in 0..Len(SemOrder) /\ timer \in [Timers -> Nat]
    /\ ~Up => \A s \in Timers : timer[s] + prep <= Interval[s]
    /\ halted = FALSE

LEMMA BootInitial == PreparationIsShort /\ BootInit => BootIInv
<1> SUFFICES ASSUME PreparationIsShort, BootInit PROVE BootIInv
  OBVIOUS
<1>1. prep \in Nat /\ made \in 0..Len(SemOrder) /\ timer \in [Timers -> Nat]
  BY BootAssumption DEF BootInit
<1>2. \A s \in Timers : timer[s] + prep <= Interval[s]
  BY <1>1, BootAssumption DEF BootInit, PreparationIsShort
<1>3. halted = FALSE
  BY Zenon DEF BootInit
<1> QED BY <1>1, <1>2, <1>3 DEF BootIInv

(* What is up has made every semaphore. *)
LEMMA UpIsReady == Up => Ready = Names
BY BootAssumption DEF Up, Ready, Names

LEMMA BootStep == BootIInv /\ [BootNext]_bootVars => BootIInv'
<1> SUFFICES ASSUME BootIInv, [BootNext]_bootVars PROVE BootIInv'
  OBVIOUS
<1> USE DEF BootIInv
<1>1. CASE MakeSemaphore
  <2>1. /\ prep = 0 /\ made # Len(SemOrder) /\ made' = made + 1
        /\ UNCHANGED <<prep, timer, halted>>
    BY <1>1 DEF MakeSemaphore, Up
  <2>2. made' \in 0..Len(SemOrder)
    BY <2>1, BootAssumption
  <2>3. \A s \in Timers : timer'[s] + prep' <= Interval[s]
    BY <1>1, <2>1 DEF MakeSemaphore
  <2> QED BY <2>1, <2>2, <2>3
<1>2. CASE TimerInterrupt
  <2>1. /\ prep > 0 \/ Up
        /\ prep' = IF prep > 0 THEN prep - 1 ELSE 0
        /\ timer' = [s \in Timers |-> IF s \in Due THEN 0 ELSE timer[s] + 1]
        /\ made' = made
    BY <1>2 DEF TimerInterrupt
  <2>2. halted' = ~(Due \subseteq Ready)
    BY <1>2, Zenon DEF TimerInterrupt
  <2>3. prep' \in Nat /\ timer' \in [Timers -> Nat] /\ (Up' <=> Up)
    BY <2>1 DEF Up
  <2>4. CASE Up
    <3>1. Due \subseteq Ready
      BY <2>4, UpIsReady, BootAssumption DEF Due
    <3>2. halted' = FALSE
      BY <2>2, <3>1, Zenon
    <3> QED BY <2>1, <2>3, <2>4, <3>2
  <2>5. CASE ~Up
    <3>1. prep > 0 /\ prep' = prep - 1
      BY <2>1, <2>5
    <3>2. ASSUME NEW s \in Timers
          PROVE  s \notin Due /\ timer'[s] + prep' <= Interval[s]
      <4>1. timer[s] + prep <= Interval[s] /\ timer[s] \in Nat /\ Interval[s] \in Nat
        BY <2>5, BootAssumption
      <4>2. timer[s] # Interval[s]
        BY <3>1, <4>1
      <4>3. s \notin Due /\ timer'[s] = timer[s] + 1
        BY <2>1, <4>2 DEF Due
      <4> QED BY <3>1, <4>1, <4>3
    <3>3. Due = {}
      BY <3>2 DEF Due
    <3>4. halted' = FALSE
      <4>1. Due \subseteq Ready
        BY <3>3
      <4> QED BY <2>2, <4>1, Zenon
    <3> QED BY <2>1, <2>3, <3>2, <3>4
  <2> QED BY <2>4, <2>5
<1>3. CASE \E s \in Names : TakeSem(s) \/ WaitForSem(s) \/ ReleaseSem(s)
  BY <1>3 DEF TakeSem, WaitForSem, ReleaseSem, Up
<1>4. CASE UNCHANGED bootVars
  BY <1>4 DEF bootVars, Up
<1> QED BY <1>1, <1>2, <1>3, <1>4 DEF BootNext

(* A preparation within the shortest interval keeps the assertion of
   rt_sem_release, whatever the semaphores and intervals. *)
THEOREM BootSafe ==
    ASSUME PreparationIsShort
    PROVE  BootSpec => []AssertHolds
<1>1. BootInit => BootIInv
  BY BootInitial, PreparationIsShort
<1>2. BootIInv => AssertHolds
  BY DEF BootIInv, AssertHolds
<1> QED BY <1>1, <1>2, BootStep, PTL DEF BootSpec

-------------------------------------------------------------------------------
(* The other way round. *)
PreparationIsLong(s) == s \in Timers /\ \A p \in PrepTimes : p > Interval[s]

(* As long as nothing has halted, what is left of the preparation reaches beyond
   the instant at which timer s is due. *)
StuckIInv(s) ==
    /\ prep \in Nat /\ timer \in [Timers -> Nat]
    /\ made = 0 /\ Len(SemOrder) > 0
    /\ ~halted => timer[s] <= Interval[s] /\ timer[s] + prep > Interval[s]

LEMMA StuckInitial == ASSUME NEW s, PreparationIsLong(s), BootInit PROVE StuckIInv(s)
<1>1. s \in Timers /\ Interval[s] \in Nat /\ prep \in Nat /\ prep > Interval[s]
  BY BootAssumption DEF BootInit, PreparationIsLong
<1>2. Len(SemOrder) > 0
  <2>1. PICK i \in DOMAIN SemOrder : s = SemOrder[i]
    BY <1>1, BootAssumption DEF Names
  <2> QED BY <2>1, BootAssumption
<1>3. timer \in [Timers -> Nat] /\ timer[s] = 0 /\ made = 0
  BY <1>1 DEF BootInit
<1> QED BY <1>1, <1>2, <1>3 DEF StuckIInv

LEMMA StuckStep ==
    ASSUME NEW s, PreparationIsLong(s), StuckIInv(s), [BootNext]_bootVars
    PROVE  StuckIInv(s)'
<1>1. /\ s \in Timers /\ Interval[s] \in Nat /\ timer[s] \in Nat /\ prep \in Nat
      /\ ~Up
      /\ ~halted => timer[s] <= Interval[s] /\ timer[s] + prep > Interval[s]
  BY BootAssumption DEF StuckIInv, PreparationIsLong, Up
<1>2. ASSUME MakeSemaphore PROVE FALSE
  BY <1>1, <1>2 DEF MakeSemaphore
<1>3. CASE TimerInterrupt
  <2>1. /\ ~halted /\ prep > 0 /\ prep' = prep - 1 /\ made' = made
        /\ timer' = [u \in Timers |-> IF u \in Due THEN 0 ELSE timer[u] + 1]
    BY <1>1, <1>3 DEF TimerInterrupt
  <2>2. prep' \in Nat /\ timer' \in [Timers -> Nat]
    BY <2>1 DEF StuckIInv
  <2>3. CASE s \in Due
    <3>1. Ready = {}
      BY DEF StuckIInv, Ready
    <3>2. ~(Due \subseteq Ready)
      BY <2>3, <3>1
    <3>3. halted'
      BY <1>3, <3>2, Zenon DEF TimerInterrupt
    <3> QED BY <2>1, <2>2, <3>3 DEF StuckIInv
  <2>4. CASE s \notin Due
    <3>1. timer[s] # Interval[s] /\ timer'[s] = timer[s] + 1
      BY <1>1, <2>1, <2>4 DEF Due
    <3>2. timer'[s] <= Interval[s] /\ timer'[s] + prep' > Interval[s]
      BY <1>1, <2>1, <3>1
    <3> QED BY <2>1, <2>2, <3>2 DEF StuckIInv
  <2> QED BY <2>3, <2>4
<1>4. CASE \E u \in Names : TakeSem(u) \/ WaitForSem(u) \/ ReleaseSem(u)
  BY <1>1, <1>4 DEF TakeSem, WaitForSem, ReleaseSem
<1>5. CASE UNCHANGED bootVars
  BY <1>5 DEF bootVars, StuckIInv
<1> QED BY <1>2, <1>3, <1>4, <1>5 DEF BootNext

(* A node whose every preparation outlasts one of its intervals never gets as far
   as its first semaphore: the interrupt fails the assertion of rt_sem_release
   before (gateway main.c:51-66, 233-257; ipc.c:608). *)
THEOREM BootNeverUp ==
    ASSUME NEW s, PreparationIsLong(s)
    PROVE  BootSpec => [](made = 0 /\ ~Up)
<1>1. BootInit => StuckIInv(s)
  BY StuckInitial
<1>2. StuckIInv(s) /\ [BootNext]_bootVars => StuckIInv(s)'
  BY StuckStep
<1>3. StuckIInv(s) => made = 0 /\ ~Up
  BY DEF StuckIInv, Up
<1> QED BY <1>1, <1>2, <1>3, PTL DEF BootSpec
===============================================================================
