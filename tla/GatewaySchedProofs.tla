-------------------------- MODULE GatewaySchedProofs --------------------------
(***************************************************************************)
(* The gateway's threads: types, no lost wakeup, and the buzzer logic as   *)
(* the scheduler runs it, for every interval, motor time, upload and value *)
(* heard.                                                                  *)
(***************************************************************************)
EXTENDS GatewaySched, RtSemaphoreProofs

-------------------------------------------------------------------------------
(* Report_Move alone, for every pair of debounce limits. *)

(* While the buzzer is off every dangerous evaluation of the current run was
   counted by D0, which has not reached its limit; the same with D1 while it is
   on.  D0 may be ahead of the run: nothing resets it when the run breaks. *)
RunsCounted ==
    /\ ~beep => dangerRun <= D0
    /\ beep => calmRun <= D1

ReportIInv == ReportTypeOK /\ RunsCounted

(* A debounce counter stays below its limit, and counts unless it fires. *)
LEMMA CountedRange ==
    ASSUME NEW limit \in Nat \ {0}, NEW counter \in 0..(limit - 1), NEW on \in BOOLEAN
    PROVE  /\ Counted(counter, limit, on) \in 0..(limit - 1)
           /\ on /\ ~Fires(counter, limit, on) => Counted(counter, limit, on) = counter + 1
           /\ ~on => Counted(counter, limit, on) = counter
BY DEF Counted, Fires

(* The history of a run stays within its cap and grows by at most one. *)
LEMMA LongerRange ==
    ASSUME NEW run \in 0..ALARM_COUNT
    PROVE  Longer(run) \in 0..ALARM_COUNT /\ Longer(run) <= run + 1
BY ReportAssumption DEF Longer

LEMMA ReportInitial == ReportInit => ReportIInv
<1> SUFFICES ASSUME ReportInit PROVE ReportIInv
  OBVIOUS
<1>1. beep \in BOOLEAN /\ ~beep
  BY Zenon DEF ReportInit
<1>2. ReportTypeOK
  BY <1>1, ReportAssumption DEF ReportInit, ReportTypeOK
<1>3. dangerRun <= D0
  BY DEF ReportInit
<1> QED BY <1>1, <1>2, <1>3 DEF ReportIInv, RunsCounted

(* One call of Report_Move keeps the invariant. *)
LEMMA EvaluateKeeps ==
    ASSUME ReportIInv,
           NEW danger \in BOOLEAN, NEW gas \in BOOLEAN, NEW pass \in BOOLEAN,
           Evaluate(danger, gas, pass)
    PROVE  ReportIInv'
<1>1. /\ D0' = Counted(D0, ALARM_COUNT, danger)
      /\ D1' = Counted(D1, ALARM_COUNT, ~danger)
      /\ M0' = Counted(M0, ALARM_COUNT, gas)
      /\ M1' = Counted(M1, PASS_COUNT, pass)
      /\ beep' = IF Fires(D0, ALARM_COUNT, danger) THEN TRUE
                 ELSE IF Fires(D1, ALARM_COUNT, ~danger) THEN FALSE ELSE beep
      /\ dangerRun' = IF danger THEN Longer(dangerRun) ELSE 0
      /\ calmRun' = IF danger THEN 0 ELSE Longer(calmRun)
  BY DEF Evaluate, Buzz
<1>2. /\ D0' \in 0..(ALARM_COUNT - 1) /\ D1' \in 0..(ALARM_COUNT - 1)
      /\ M0' \in 0..(ALARM_COUNT - 1) /\ M1' \in 0..(PASS_COUNT - 1)
  BY <1>1, CountedRange, ReportAssumption DEF ReportIInv, ReportTypeOK
<1>3. beep' \in BOOLEAN
  BY <1>1, Zenon DEF ReportIInv, ReportTypeOK
<1>4. dangerRun' \in 0..ALARM_COUNT /\ calmRun' \in 0..ALARM_COUNT
  BY <1>1, LongerRange, ReportAssumption DEF ReportIInv, ReportTypeOK
<1>5. ReportTypeOK'
  BY <1>2, <1>3, <1>4 DEF ReportTypeOK
<1>6. CASE danger
  <2>1. dangerRun' <= dangerRun + 1 /\ calmRun' = 0
    BY <1>1, <1>6, LongerRange DEF ReportIInv, ReportTypeOK
  <2>2. ASSUME ~beep' PROVE ~beep /\ D0' = D0 + 1
    <3>1. ~Fires(D0, ALARM_COUNT, danger)
      BY <1>1, <2>2
    <3>2. ~Fires(D1, ALARM_COUNT, ~danger)
      BY <1>6 DEF Fires
    <3>3. ~beep
      BY <1>1, <2>2, <3>1, <3>2
    <3>4. D0' = D0 + 1
      BY <1>1, <1>6, <3>1, CountedRange, ReportAssumption DEF ReportIInv, ReportTypeOK
    <3> QED BY <3>3, <3>4
  <2>3. ~beep' => dangerRun' <= D0'
    BY <2>1, <2>2, <1>4 DEF ReportIInv, ReportTypeOK, RunsCounted
  <2>4. beep' => calmRun' <= D1'
    BY <2>1, <1>2, ReportAssumption
  <2> QED BY <2>3, <2>4, <1>5 DEF ReportIInv, RunsCounted
<1>7. CASE ~danger
  <2>1. dangerRun' = 0 /\ calmRun' <= calmRun + 1
    BY <1>1, <1>7, LongerRange DEF ReportIInv, ReportTypeOK
  <2>2. ASSUME beep' PROVE beep /\ D1' = D1 + 1
    <3>1. ~Fires(D0, ALARM_COUNT, danger)
      BY <1>7 DEF Fires
    <3>2. ~Fires(D1, ALARM_COUNT, ~danger)
      BY <1>1, <2>2, <3>1
    <3>3. beep
      BY <1>1, <2>2, <3>1, <3>2
    <3>4. D1' = D1 + 1
      BY <1>1, <1>7, <3>2, CountedRange, ReportAssumption DEF ReportIInv, ReportTypeOK
    <3> QED BY <3>3, <3>4
  <2>3. beep' => calmRun' <= D1'
    BY <2>1, <2>2, <1>4 DEF ReportIInv, ReportTypeOK, RunsCounted
  <2>4. ~beep' => dangerRun' <= D0'
    BY <2>1, <1>2, ReportAssumption
  <2> QED BY <2>3, <2>4, <1>5 DEF ReportIInv, RunsCounted
<1> QED BY <1>6, <1>7

LEMMA ReportStep == ReportIInv /\ [ReportNext]_reportVars => ReportIInv'
<1> SUFFICES ASSUME ReportIInv, [ReportNext]_reportVars PROVE ReportIInv'
  OBVIOUS
<1>1. CASE ReportNext
  BY <1>1, EvaluateKeeps DEF ReportNext
<1>2. CASE UNCHANGED reportVars
  BY <1>2 DEF reportVars, ReportIInv, ReportTypeOK, RunsCounted
<1> QED BY <1>1, <1>2

LEMMA ReportImplied == ReportIInv => BuzzerFollows
BY ReportAssumption DEF ReportIInv, ReportTypeOK, RunsCounted, BuzzerFollows

(* ALARM_COUNT dangerous evaluations in a row leave the buzzer on, ALARM_COUNT
   calm ones leave it off, and the counters of Report_Move stay below their
   limits, for every value of the limits (main.c:259-285). *)
THEOREM BuzzerCorrect == ReportSpec => [](ReportTypeOK /\ BuzzerFollows)
<1>1. ReportIInv => ReportTypeOK /\ BuzzerFollows
  BY ReportImplied DEF ReportIInv
<1> QED BY ReportInitial, ReportStep, <1>1, PTL DEF ReportSpec

-------------------------------------------------------------------------------
(* The scheduler. *)

(* What is heard and seen are records of truth values. *)
LEMMA ValuesAreFlags ==
    ASSUME NEW v \in Values
    PROVE  v.danger \in BOOLEAN /\ v.gas \in BOOLEAN /\ v.pass \in BOOLEAN
<1>1. CASE v = Calm
  BY <1>1 DEF Calm
<1>2. CASE v \in Hearable
  BY <1>2, SchedAssumption
<1> QED BY <1>1, <1>2 DEF Values

(* Every step of the scheduler is one evaluation of Report_Move or leaves its
   state alone. *)
LEMMA SchedStepReports ==
    ASSUME SchedTypeOK, [SchedNext]_schedVars
    PROVE  [ReportNext]_reportVars
<1>1. CASE UserMove
  <2>1. Evaluate(seen.danger, seen.gas, seen.pass)
    BY <1>1 DEF UserMove
  <2>2. seen.danger \in BOOLEAN /\ seen.gas \in BOOLEAN /\ seen.pass \in BOOLEAN
    BY ValuesAreFlags DEF SchedTypeOK
  <2> QED BY <2>1, <2>2 DEF ReportNext
<1>2. CASE ~UserMove
  <2>1. UNCHANGED reportVars
    BY <1>2 DEF SchedNext, ThreadStep, Take, Suspend, SensorRead, Upload, Nap,
                Uploaded, Tick, Hear, schedVars
  <2> QED BY <2>1
<1> QED BY <1>1, <1>2

-------------------------------------------------------------------------------
(* The list of a semaphore holds its thread exactly while that thread waits. *)
WaitersListed ==
    \A t \in Threads :
        /\ state[t] = "wait" => sem[t].value = 0 /\ sem[t].suspended = <<t>>
        /\ state[t] # "wait" => sem[t].suspended = <<>>

SchedIInv == SchedTypeOK /\ WaitersListed /\ ReportIInv

LEMMA SchedInitial == SchedInit => SchedIInv
<1> SUFFICES ASSUME SchedInit PROVE SchedIInv
  OBVIOUS
<1>1. ReportIInv
  BY ReportInitial DEF SchedInit
<1>2. NewSem(0) \in Semaphores(Threads) /\ NewSem(0).suspended = <<>>
  BY SemAssumption DEF NewSem, Semaphores
<1>3. timer \in [Threads -> 0..SEND_TIME] /\ rest \in [Threads -> Nat]
  BY SchedAssumption DEF SchedInit
<1>4. sem \in [Threads -> Semaphores(Threads)]
  BY <1>2 DEF SchedInit
<1>5. state \in [Threads -> States] /\ WaitersListed
  BY <1>2 DEF SchedInit, States, WaitersListed
<1>6. naps \in Seq(Nat) /\ heard \in Values /\ seen \in Values
  BY DEF SchedInit, Values
<1>7. ignored \in 0..(ALARM_DEADLINE + 1)
  BY SchedAssumption DEF SchedInit
<1> QED BY <1>1, <1>3, <1>4, <1>5, <1>6, <1>7 DEF SchedIInv, SchedTypeOK, ReportIInv

(* rt_sem_take, with a token and without. *)
LEMMA TakeKeeps ==
    ASSUME SchedIInv, ReportTypeOK', NEW t \in Threads, Take(t) \/ Suspend(t)
    PROVE  SchedTypeOK' /\ WaitersListed'
<1>1. state[t] = "ready" /\ state[t] # "wait" /\ sem[t] \in Semaphores(Threads)
  BY DEF SchedIInv, SchedTypeOK, Take, Suspend
<1>2. sem[t].suspended = <<>>
  BY <1>1 DEF SchedIInv, WaitersListed
<1>3. CASE Take(t)
  <2>1. Taken(sem[t]) \in Semaphores(Threads) /\ Taken(sem[t]).suspended = <<>>
    BY <1>1, <1>2, <1>3, SemaphoreOps DEF Take
  <2>2. /\ sem' = [sem EXCEPT ![t] = Taken(sem[t])]
        /\ state' = [state EXCEPT ![t] = "go"]
        /\ UNCHANGED <<timer, rest, naps, heard, seen, ignored>>
    BY <1>3 DEF Take
  <2>3. SchedTypeOK'
    BY <2>1, <2>2 DEF SchedIInv, SchedTypeOK, States
  <2>4. WaitersListed'
    BY <2>1, <2>2 DEF SchedIInv, SchedTypeOK, WaitersListed
  <2> QED BY <2>3, <2>4
<1>4. CASE Suspend(t)
  <2>1. sem[t].value = 0
    BY <1>1, <1>4, SemAssumption DEF Suspend, CanTake, Semaphores
  <2>2. /\ Suspended(sem[t], t) \in Semaphores(Threads)
        /\ Suspended(sem[t], t).value = 0
        /\ Suspended(sem[t], t).suspended = <<t>>
    BY <1>1, <1>2, <2>1, SemaphoreOps
  <2>3. /\ sem' = [sem EXCEPT ![t] = Suspended(sem[t], t)]
        /\ state' = [state EXCEPT ![t] = "wait"]
        /\ UNCHANGED <<timer, rest, naps, heard, seen, ignored>>
    BY <1>4 DEF Suspend
  <2>4. SchedTypeOK'
    BY <2>2, <2>3 DEF SchedIInv, SchedTypeOK, States
  <2>5. WaitersListed'
    BY <2>2, <2>3 DEF SchedIInv, SchedTypeOK, WaitersListed
  <2> QED BY <2>4, <2>5
<1> QED BY <1>3, <1>4

(* What the threads do between two takes: semaphores are left alone and nobody
   starts or stops to wait. *)
LEMMA WorkKeeps ==
    ASSUME SchedIInv, ReportTypeOK',
           UserMove \/ SensorRead \/ Upload \/ Nap \/ Uploaded
    PROVE  SchedTypeOK' /\ WaitersListed'
<1>1. CASE UserMove
  <2>1. MotorTime \in Nat
    BY SchedAssumption DEF MotorTime
  <2>2. PICK s \in {"busy", "ready"} : state' = [state EXCEPT !["user"] = s]
    BY <1>1 DEF UserMove
  <2>3. /\ rest' = [rest EXCEPT !["user"] = MotorTime]
        /\ ignored' \in {0, ignored}
        /\ UNCHANGED <<timer, sem, naps, heard, seen>>
    BY <1>1 DEF UserMove
  <2>4. rest' \in [Threads -> Nat]
    BY <2>1, <2>3 DEF SchedIInv, SchedTypeOK
  <2>5. ignored' \in 0..(ALARM_DEADLINE + 1)
    BY <2>3, SchedAssumption DEF SchedIInv, SchedTypeOK
  <2>6. state["user"] = "go"
    BY <1>1 DEF UserMove
  <2>7. SchedTypeOK'
    BY <2>2, <2>3, <2>4, <2>5 DEF SchedIInv, SchedTypeOK, States
  <2>8. WaitersListed'
    BY <2>2, <2>3, <2>6 DEF SchedIInv, SchedTypeOK, WaitersListed, Threads
  <2> QED BY <2>7, <2>8
<1>2. CASE SensorRead
  BY <1>2 DEF SensorRead, SchedIInv, SchedTypeOK, WaitersListed, States, Threads
<1>3. CASE Upload
  <2>1. naps' \in Seq(Nat)
    BY <1>3, SchedAssumption DEF Upload
  <2> QED BY <1>3, <2>1 DEF Upload, SchedIInv, SchedTypeOK, WaitersListed, States, Threads
<1>4. CASE Nap
  <2>1. naps' \in Seq(Nat) /\ Head(naps) \in Nat
    BY <1>4 DEF Nap, SchedIInv, SchedTypeOK
  <2> QED BY <1>4, <2>1 DEF Nap, SchedIInv, SchedTypeOK, WaitersListed, States, Threads
<1>5. CASE Uploaded
  BY <1>5 DEF Uploaded, SchedIInv, SchedTypeOK, WaitersListed, States, Threads
<1> QED BY <1>1, <1>2, <1>3, <1>4, <1>5

(* The timer interrupt. *)
LEMMA TickKeeps ==
    ASSUME SchedIInv, ReportTypeOK', Tick
    PROVE  SchedTypeOK' /\ WaitersListed'
<1> USE DEF SchedIInv
<1>1. timer' \in [Threads -> 0..SEND_TIME]
  BY SchedAssumption DEF Tick, SchedTypeOK, Due
<1>2. rest' \in [Threads -> Nat]
  BY DEF Tick, SchedTypeOK
<1>3. ignored' \in 0..(ALARM_DEADLINE + 1)
  BY SchedAssumption DEF Tick, SchedTypeOK
<1>4. UNCHANGED <<naps, heard, seen>>
  BY DEF Tick
<1>5. ASSUME NEW t \in Threads
      PROVE  /\ sem'[t] \in Semaphores(Threads)
             /\ state'[t] \in States
             /\ state'[t] = "wait" => sem'[t].value = 0 /\ sem'[t].suspended = <<t>>
             /\ state'[t] # "wait" => sem'[t].suspended = <<>>
  <2>1. sem'[t] = (IF Due(t) THEN Released(sem[t]) ELSE sem[t]) /\ state'[t] = AfterTick(t)
    BY DEF Tick
  <2>2. sem[t] \in Semaphores(Threads) /\ state[t] \in States
    BY DEF SchedTypeOK
  <2>3. CASE state[t] = "wait"
    <3>1. sem[t].value = 0 /\ sem[t].suspended = <<t>>
      BY <2>3 DEF WaitersListed
    <3>2. /\ Released(sem[t]) \in Semaphores(Threads)
          /\ Released(sem[t]).suspended = <<>>
          /\ Resumed(sem[t]) = {t}
      BY <2>2, <3>1, SemaphoreOps
    <3>3. AfterTick(t) = IF Due(t) THEN "go" ELSE "wait"
      BY <2>3, <3>2 DEF AfterTick, Elapsed
    <3> QED BY <2>1, <2>2, <3>1, <3>2, <3>3 DEF States
  <2>4. CASE state[t] # "wait"
    <3>1. sem[t].suspended = <<>>
      BY <2>4 DEF WaitersListed
    <3>2. /\ Released(sem[t]) \in Semaphores(Threads)
          /\ Released(sem[t]).suspended = <<>>
          /\ Resumed(sem[t]) = {}
      BY <2>2, <3>1, SemaphoreOps
    <3>3. AfterTick(t) \in States /\ AfterTick(t) # "wait"
      BY <2>2, <2>4, <3>2 DEF AfterTick, States
    <3> QED BY <2>1, <2>2, <3>1, <3>2, <3>3
  <2> QED BY <2>3, <2>4
<1>6. sem' \in [Threads -> Semaphores(Threads)] /\ state' \in [Threads -> States]
  BY <1>5 DEF Tick
<1>7. SchedTypeOK'
  BY <1>1, <1>2, <1>3, <1>4, <1>6 DEF SchedTypeOK
<1>8. WaitersListed'
  BY <1>5 DEF WaitersListed
<1> QED BY <1>7, <1>8

LEMMA SchedStep == SchedIInv /\ [SchedNext]_schedVars => SchedIInv'
<1> SUFFICES ASSUME SchedIInv, [SchedNext]_schedVars PROVE SchedIInv'
  OBVIOUS
<1>1. [ReportNext]_reportVars
  BY SchedStepReports DEF SchedIInv
<1>2. ReportIInv' /\ ReportTypeOK'
  BY <1>1, ReportStep DEF SchedIInv, ReportIInv
<1>3. CASE ThreadStep
  BY <1>2, <1>3, TakeKeeps, WorkKeeps DEF ThreadStep, SchedIInv
<1>4. CASE Tick
  BY <1>2, <1>4, TickKeeps DEF SchedIInv
<1>5. CASE Hear
  <2>1. ignored' \in 0..(ALARM_DEADLINE + 1)
    BY <1>5, SchedAssumption DEF Hear, SchedIInv, SchedTypeOK
  <2> QED BY <1>2, <1>5, <2>1 DEF Hear, SchedIInv, SchedTypeOK, WaitersListed
<1>6. CASE UNCHANGED schedVars
  BY <1>2, <1>6 DEF schedVars, SchedIInv, SchedTypeOK, WaitersListed
<1> QED BY <1>3, <1>4, <1>5, <1>6 DEF SchedNext

-------------------------------------------------------------------------------
LEMMA SchedInvariant == SchedSpec => []SchedIInv
  BY SchedInitial, SchedStep, PTL DEF SchedSpec

(* Timers, semaphores and threads keep their types: no counter passes its interval
   and no semaphore its width, for all intervals, motor times and uploads
   (main.c:100-143, 233-257). *)
THEOREM ThreadTypes == SchedSpec => []SchedTypeOK
<1>1. SchedIInv => SchedTypeOK
  BY DEF SchedIInv
<1> QED BY <1>1, SchedInvariant, PTL

(* No thread sleeps beside a token or out of its semaphore's list, wherever the
   interrupt falls (main.c:105, 123, 140, 243-253). *)
THEOREM NoWakeupLost == SchedSpec => []NoLostWakeup
<1>1. SchedIInv => NoLostWakeup
  BY DEF SchedIInv, WaitersListed, NoLostWakeup
<1> QED BY <1>1, SchedInvariant, PTL

(* The gateway under its scheduler implements the buzzer logic of ReportMove, so
   what BuzzerCorrect says holds of it. *)
THEOREM SchedulerImplementsReport == SchedSpec => ReportSpec
<1>1. SchedInit => ReportInit
  BY DEF SchedInit
<1>2. SchedIInv /\ [SchedNext]_schedVars => [ReportNext]_reportVars
  BY SchedStepReports DEF SchedIInv
<1> QED BY SchedInitial, SchedStep, <1>1, <1>2, PTL DEF SchedSpec, ReportSpec

(* ALARM_COUNT dangerous evaluations in a row leave the buzzer on, and as many
   calm ones leave it off, with the threads, semaphores and motor runs around
   Report_Move as they are (main.c:136-143, 265-285). *)
THEOREM GatewayBuzzes == SchedSpec => []BuzzerFollows
<1>1. ReportTypeOK /\ BuzzerFollows => BuzzerFollows
  OBVIOUS
<1> QED BY <1>1, BuzzerCorrect, SchedulerImplementsReport, PTL

-------------------------------------------------------------------------------
(* The alarm thread and its tokens.  The door stays shut, and a run of the
   exhaust motor ends before ALARM_COUNT further evaluations are due. *)
DoorStaysShut == \A v \in Hearable : ~v.pass
RunsEndInTime == MOTOR_TIME < ALARM_COUNT * (SEND_TIME + 1)

Tokens == sem["user"].value
Load == Tokens * (SEND_TIME + 1)

(* The tokens, the time since the last one and what is left of the run never
   exceed one run; after it the evaluations they stand for are too few for
   another; only the evaluation of a fresh token, with none behind it, can
   begin a run. *)
WorkedOff ==
    /\ state["user"] \in {"ready", "wait", "go", "busy"}
    /\ ~heard.pass /\ ~seen.pass
    /\ Load <= MOTOR_TIME
    /\ state["user"] = "busy" =>
         rest["user"] > 0 /\ Load + timer["user"] + rest["user"] <= MOTOR_TIME /\ M0 = 0
    /\ state["user"] = "ready" => Tokens + M0 < ALARM_COUNT
    /\ state["user"] = "go" =>
         \/ Tokens + M0 + 1 < ALARM_COUNT
         \/ Tokens = 0 /\ timer["user"] = 0

KeepsUpIInv == SchedIInv /\ WorkedOff

LEMMA ProductIsNat == ASSUME NEW a \in Nat, NEW p \in Nat PROVE a * p \in Nat
OBVIOUS

LEMMA ProductOfNext ==
    ASSUME NEW a \in Nat, NEW p \in Nat PROVE (a + 1) * p = a * p + p
OBVIOUS

LEMMA ProductsOrdered ==
    ASSUME NEW a \in Nat, NEW b \in Nat, NEW p \in Nat
    PROVE  /\ a <= b => a * p <= b * p
           /\ a * p < b * p => a < b
<1>1. ASSUME NEW c \in Nat, NEW d \in Nat PROVE c * p <= (c + d) * p
  <2>1. (c + d) * p = c * p + d * p /\ d * p \in Nat /\ c * p \in Nat
    OBVIOUS
  <2> QED BY <2>1
<1>2. ASSUME a <= b PROVE a * p <= b * p
  <2>1. PICK d \in Nat : b = a + d
    BY <1>2
  <2> QED BY <1>1, <2>1
<1>3. ASSUME a * p < b * p, b <= a PROVE FALSE
  <2>1. PICK d \in Nat : a = b + d
    BY <1>3
  <2>2. b * p <= a * p
    BY <1>1, <2>1
  <2>3. a * p \in Nat /\ b * p \in Nat
    OBVIOUS
  <2> QED BY <1>3, <2>2, <2>3
<1> QED BY <1>2, <1>3

(* A release counts one token, or refuses. *)
LEMMA ReleaseCounts ==
    ASSUME NEW s \in Semaphores(Threads), s.suspended = <<>>
    PROVE  Released(s).value \in {s.value, s.value + 1}
<1>1. s = [value |-> s.value, suspended |-> s.suspended] /\ s.value \in Nat
  BY SemAssumption DEF Semaphores
<1> QED BY <1>1 DEF Released

LEMMA TokensTyped == SchedTypeOK => Tokens \in Nat /\ Load \in Nat
<1> SUFFICES ASSUME SchedTypeOK PROVE Tokens \in Nat /\ Load \in Nat
  OBVIOUS
<1>1. Tokens \in Nat
  BY SemAssumption DEF SchedTypeOK, Semaphores, Threads, Tokens
<1> QED BY <1>1, ProductIsNat, SchedAssumption DEF Load

LEMMA KeepsUpInitial == DoorStaysShut /\ SchedInit => WorkedOff
<1> SUFFICES ASSUME SchedInit PROVE WorkedOff
  OBVIOUS
<1>1. Tokens = 0 /\ state["user"] = "ready" /\ M0 = 0
  BY DEF SchedInit, NewSem, Threads, Tokens, ReportInit
<1>2. Load = 0
  BY <1>1, SchedAssumption DEF Load
<1>3. ~heard.pass /\ ~seen.pass
  BY DEF SchedInit, Calm
<1> QED BY <1>1, <1>2, <1>3, SchedAssumption, ReportAssumption DEF WorkedOff

(* The alarm thread takes a token, or waits for one. *)
LEMMA UserTakes ==
    ASSUME KeepsUpIInv, Take("user") \/ Suspend("user")
    PROVE  WorkedOff'
<1>1. /\ state["user"] = "ready" /\ sem["user"] \in Semaphores(Threads)
      /\ Tokens + M0 < ALARM_COUNT /\ Load <= MOTOR_TIME /\ M0 \in Nat
      /\ UNCHANGED <<timer, rest, heard, seen, M0>>
  BY ReportAssumption DEF KeepsUpIInv, SchedIInv, SchedTypeOK, ReportTypeOK, WorkedOff, Take, Suspend,
     reportVars, Threads
<1>2. Tokens \in Nat /\ Load \in Nat
  BY TokensTyped DEF KeepsUpIInv, SchedIInv
<1>3. CASE Take("user")
  <2>1. Tokens' = Tokens - 1 /\ Tokens > 0 /\ state'["user"] = "go"
    <3>1. CanTake(sem["user"]) /\ Taken(sem["user"]).value = sem["user"].value - 1
      BY <1>1, <1>3, SemaphoreOps DEF Take, Threads
    <3> QED BY <1>3, <3>1 DEF Take, CanTake, Tokens, KeepsUpIInv, SchedIInv, SchedTypeOK, Threads
  <2>2. Load' <= Load
    BY <1>2, <2>1, ProductsOrdered, SchedAssumption DEF Load
  <2>3. Load' \in Nat
    BY <1>2, <2>1, ProductIsNat, SchedAssumption DEF Load
  <2>4. Load' <= MOTOR_TIME
    BY <1>1, <1>2, <2>2, <2>3, SchedAssumption
  <2>5. Tokens' + M0' + 1 < ALARM_COUNT
    BY <1>1, <1>2, <2>1, ReportAssumption
  <2> QED BY <1>1, <2>1, <2>4, <2>5 DEF WorkedOff, KeepsUpIInv
<1>4. CASE Suspend("user")
  <2>1. Tokens' = Tokens /\ state'["user"] = "wait"
    <3>1. Suspended(sem["user"], "user").value = sem["user"].value
      BY <1>1, SemaphoreOps DEF Threads
    <3> QED BY <1>4, <3>1 DEF Suspend, Tokens, KeepsUpIInv, SchedIInv, SchedTypeOK, Threads
  <2>2. Load' = Load
    BY <2>1 DEF Load
  <2> QED BY <1>1, <2>1, <2>2 DEF WorkedOff, KeepsUpIInv
<1> QED BY <1>3, <1>4

(* One evaluation: a run begins with no token waiting and the timer just reset. *)
LEMMA UserMoves ==
    ASSUME KeepsUpIInv, ReportTypeOK', UserMove
    PROVE  WorkedOff'
<1>1. /\ state["user"] = "go" /\ ~seen.pass /\ ~heard.pass /\ Load <= MOTOR_TIME
      /\ \/ Tokens + M0 + 1 < ALARM_COUNT
         \/ Tokens = 0 /\ timer["user"] = 0
  BY DEF KeepsUpIInv, WorkedOff, UserMove
<1>2. Tokens \in Nat /\ Load \in Nat /\ M0 \in Nat /\ M0' \in Nat /\ M0' < ALARM_COUNT
  BY TokensTyped, ReportAssumption DEF KeepsUpIInv, SchedIInv, SchedTypeOK, ReportTypeOK
<1>3. /\ M0' = Counted(M0, ALARM_COUNT, seen.gas)
      /\ rest' = [rest EXCEPT !["user"] = MotorTime]
      /\ state' = [state EXCEPT !["user"] = IF MotorTime > 0 THEN "busy" ELSE "ready"]
      /\ UNCHANGED <<timer, sem, heard, seen>>
  BY DEF UserMove, Evaluate
<1>4. Tokens' = Tokens /\ Load' = Load
  BY <1>3 DEF Tokens, Load
<1>5. MotorTime = IF ExhaustRuns(seen.gas) THEN MOTOR_TIME ELSE 0
  BY <1>1, SchedAssumption DEF MotorTime, DoorRuns, Fires
<1>6. rest'["user"] = MotorTime /\ state'["user"] = IF MotorTime > 0 THEN "busy" ELSE "ready"
  BY <1>3 DEF KeepsUpIInv, SchedIInv, SchedTypeOK, Threads
<1>7. CASE ExhaustRuns(seen.gas)
  <2>1. seen.gas /\ M0 + 1 = ALARM_COUNT /\ M0' = 0
    BY <1>3, <1>7 DEF ExhaustRuns, Fires, Counted
  <2>2. Tokens = 0 /\ timer["user"] = 0
    BY <1>1, <1>2, <2>1, ReportAssumption
  <2>3. Load = 0
    BY <2>2, SchedAssumption DEF Load
  <2>4. state'["user"] = "busy" /\ rest'["user"] = MOTOR_TIME
    BY <1>5, <1>6, <1>7, SchedAssumption
  <2>5. Load' + timer'["user"] + rest'["user"] <= MOTOR_TIME /\ rest'["user"] > 0
    BY <1>3, <1>4, <2>2, <2>3, <2>4, SchedAssumption
  <2> QED BY <1>1, <1>3, <1>4, <2>1, <2>4, <2>5 DEF WorkedOff
<1>8. CASE ~ExhaustRuns(seen.gas)
  <2>1. M0' = M0 \/ M0' = M0 + 1
    BY <1>3, <1>8 DEF ExhaustRuns, Counted
  <2>2. state'["user"] = "ready"
    BY <1>5, <1>6, <1>8
  <2>3. Tokens' + M0' < ALARM_COUNT
    <3>1. Tokens' \in Nat /\ ALARM_COUNT \in Nat
      BY <1>2, <1>4, ReportAssumption
    <3>2. \A v, m, w \in Nat :
            (v + m + 1 < ALARM_COUNT /\ (w = m \/ w = m + 1)) => v + w < ALARM_COUNT
      BY <3>1
    <3>3. Tokens + M0 + 1 < ALARM_COUNT => Tokens + M0' < ALARM_COUNT
      BY <1>2, <2>1, <3>2
    <3>4. Tokens = 0 => Tokens + M0' < ALARM_COUNT
      BY <1>2
    <3> QED BY <1>1, <1>4, <3>3, <3>4
  <2> QED BY <1>1, <1>3, <1>4, <2>2, <2>3 DEF WorkedOff
<1> QED BY <1>7, <1>8

(* A tick finds the alarm thread waiting or in a run. *)
LEMMA UserTicks ==
    ASSUME RunsEndInTime, KeepsUpIInv, SchedIInv', Tick
    PROVE  WorkedOff'
<1>1. state["user"] \in {"wait", "busy"}
  <2>1. \A u \in Threads : Priority["user"] <= Priority[u]
    BY DEF Priority, Threads
  <2>2. Runnable("user") => Runs("user")
    BY <2>1 DEF Runs
  <2>3. Runs("user") => state["user"] = "busy"
    BY DEF Tick, Threads
  <2> QED BY <2>2, <2>3 DEF Runnable, KeepsUpIInv, WorkedOff
<1>2. /\ timer'["user"] = IF Due("user") THEN 0 ELSE timer["user"] + 1
      /\ sem'["user"] = IF Due("user") THEN Released(sem["user"]) ELSE sem["user"]
      /\ rest'["user"] = IF rest["user"] > 0 THEN rest["user"] - 1 ELSE 0
      /\ state'["user"] = AfterTick("user")
      /\ UNCHANGED <<heard, seen, M0>>
  BY DEF Tick, Threads, reportVars
<1>3. /\ sem["user"] \in Semaphores(Threads) /\ timer["user"] \in Nat /\ rest["user"] \in Nat
      /\ M0 \in Nat /\ M0 < ALARM_COUNT /\ SEND_TIME \in Nat /\ MOTOR_TIME \in Nat
      /\ ~heard.pass /\ ~seen.pass /\ Load <= MOTOR_TIME
  BY ReportAssumption, SchedAssumption
     DEF KeepsUpIInv, WorkedOff, SchedIInv, SchedTypeOK, ReportTypeOK, Threads
<1>4. Tokens \in Nat /\ Load \in Nat /\ Tokens' \in Nat /\ Load' \in Nat
  <2>1. SchedTypeOK' => Tokens' \in Nat
    BY SemAssumption DEF SchedTypeOK, Semaphores, Threads, Tokens
  <2>2. Tokens' \in Nat
    BY <2>1 DEF SchedIInv
  <2>3. Load' \in Nat
    <3>1. SEND_TIME + 1 \in Nat
      BY <1>3
    <3>2. Tokens' * (SEND_TIME + 1) \in Nat
      BY <2>2, <3>1, ProductIsNat
    <3> QED BY <3>2 DEF Load
  <2> QED BY TokensTyped, <2>2, <2>3 DEF KeepsUpIInv, SchedIInv
<1>5. CASE state["user"] = "wait"
  <2>1. sem["user"].value = 0 /\ sem["user"].suspended = <<"user">>
    BY <1>5 DEF KeepsUpIInv, SchedIInv, WaitersListed, Threads
  <2>2. Released(sem["user"]).value = 0 /\ Resumed(sem["user"]) = {"user"}
    <3>1. "user" \in Threads
      BY DEF Threads
    <3> QED BY <1>3, <2>1, <3>1, SemaphoreOps
  <2>3. Tokens' = 0
    BY <1>2, <2>1, <2>2 DEF Tokens
  <2>4. Load' = 0
    BY <2>3, <1>3 DEF Load
  <2>5. state'["user"] = IF Due("user") THEN "go" ELSE "wait"
    BY <1>2, <1>5, <2>2 DEF AfterTick, Elapsed
  <2> QED BY <1>2, <1>3, <2>3, <2>4, <2>5 DEF WorkedOff
<1>6. CASE state["user"] = "busy"
  <2>1. rest["user"] > 0 /\ Load + timer["user"] + rest["user"] <= MOTOR_TIME /\ M0 = 0
    BY <1>6 DEF KeepsUpIInv, WorkedOff
  <2>2. sem["user"].suspended = <<>>
    BY <1>6 DEF KeepsUpIInv, SchedIInv, WaitersListed, Threads
  <2>3. Resumed(sem["user"]) = {}
    BY <2>2 DEF Resumed
  <2>4. state'["user"] = IF rest["user"] = 1 THEN "ready" ELSE "busy"
    BY <1>2, <1>6, <2>3 DEF AfterTick, Elapsed
  <2>5. Load' + timer'["user"] + rest'["user"] <= MOTOR_TIME
    <3>1. CASE Due("user")
      <4>1. timer["user"] = SEND_TIME
        BY <3>1 DEF Due
      <4>2. Tokens' \in {Tokens, Tokens + 1}
        BY <1>2, <1>3, <2>2, <3>1, ReleaseCounts DEF Tokens
      <4>3. Load' <= Load + SEND_TIME + 1
        <5>1. CASE Tokens' = Tokens
          BY <5>1, <1>3, <1>4 DEF Load
        <5>2. CASE Tokens' = Tokens + 1
          BY <5>2, <1>3, <1>4, ProductOfNext DEF Load
        <5> QED BY <4>2, <5>1, <5>2
      <4> QED BY <1>2, <1>3, <1>4, <2>1, <3>1, <4>1, <4>3
    <3>2. CASE ~Due("user")
      <4>1. Tokens' = Tokens
        BY <1>2, <3>2 DEF Tokens
      <4>2. Load' = Load
        BY <4>1 DEF Load
      <4> QED BY <1>2, <1>3, <1>4, <2>1, <3>2, <4>2
    <3> QED BY <3>1, <3>2
  <2>6. timer'["user"] \in Nat /\ rest'["user"] \in Nat
    BY <1>2, <1>3
  <2>7. Load' <= MOTOR_TIME
    BY <1>3, <1>4, <2>5, <2>6
  <2>8. Tokens' < ALARM_COUNT
    <3>1. Tokens' * (SEND_TIME + 1) = Load'
      BY DEF Load
    <3>2. ALARM_COUNT \in Nat /\ SEND_TIME + 1 \in Nat
      BY ReportAssumption, <1>3
    <3>3. ALARM_COUNT * (SEND_TIME + 1) \in Nat
      BY <3>2, ProductIsNat
    <3>4. Load' < ALARM_COUNT * (SEND_TIME + 1)
      BY <2>7, <3>3, <1>3, <1>4 DEF RunsEndInTime
    <3> QED BY <3>1, <3>2, <3>4, <1>4, ProductsOrdered
  <2>9. Tokens' + M0' < ALARM_COUNT
    BY <2>8, <2>1, <1>2, <1>4
  <2>10. state'["user"] = "busy" => rest'["user"] > 0
    BY <2>1, <2>4, <1>2, <1>3
  <2> QED BY <1>2, <1>3, <2>1, <2>4, <2>5, <2>7, <2>9, <2>10 DEF WorkedOff
<1> QED BY <1>1, <1>5, <1>6

(* What does not concern the alarm thread. *)
LEMMA OthersKeep ==
    ASSUME KeepsUpIInv, ~heard'.pass, ~seen'.pass, sem'["user"] = sem["user"],
           state'["user"] = state["user"], rest'["user"] = rest["user"],
           timer'["user"] = timer["user"], M0' = M0
    PROVE  WorkedOff'
<1>1. Tokens' = Tokens
  BY DEF Tokens
<1>2. Load' = Load
  BY <1>1 DEF Load
<1> QED BY <1>1, <1>2 DEF KeepsUpIInv, WorkedOff

LEMMA KeepsUpStep ==
    DoorStaysShut /\ RunsEndInTime /\ KeepsUpIInv /\ [SchedNext]_schedVars => KeepsUpIInv'
<1> SUFFICES ASSUME DoorStaysShut, RunsEndInTime, KeepsUpIInv, [SchedNext]_schedVars
             PROVE  KeepsUpIInv'
  OBVIOUS
<1>1. SchedIInv'
  BY SchedStep DEF KeepsUpIInv
<1>2. ReportTypeOK'
  BY <1>1 DEF SchedIInv, SchedTypeOK
<1>3. /\ sem \in [Threads -> Semaphores(Threads)] /\ state \in [Threads -> States]
      /\ rest \in [Threads -> Nat] /\ ~heard.pass /\ ~seen.pass
  BY DEF KeepsUpIInv, WorkedOff, SchedIInv, SchedTypeOK
<1>4. WorkedOff'
  <2>1. ASSUME NEW t \in Threads, Take(t) \/ Suspend(t) PROVE WorkedOff'
    <3>1. CASE t = "user"
      BY <2>1, <3>1, UserTakes
    <3>2. CASE t # "user"
      BY <1>3, <2>1, <3>2, OthersKeep DEF Take, Suspend, Threads, reportVars
    <3> QED BY <3>1, <3>2
  <2>2. CASE UserMove
    BY <1>2, <2>2, UserMoves
  <2>3. CASE SensorRead \/ Upload \/ Nap \/ Uploaded
    BY <1>3, <2>3, OthersKeep DEF SensorRead, Upload, Nap, Uploaded, Threads, reportVars
  <2>4. CASE Tick
    BY <1>1, <2>4, UserTicks
  <2>5. CASE Hear
    <3>1. \A v \in Values : ~v.pass
      BY DEF DoorStaysShut, Values, Calm
    <3>2. ~heard'.pass
      BY <2>5, <3>1 DEF Hear
    <3> QED BY <1>3, <2>5, <3>2, OthersKeep DEF Hear, reportVars
  <2>6. CASE UNCHANGED schedVars
    BY <1>3, <2>6, OthersKeep DEF schedVars, reportVars
  <2> QED BY <2>1, <2>2, <2>3, <2>4, <2>5, <2>6 DEF SchedNext, ThreadStep
<1> QED BY <1>1, <1>4 DEF KeepsUpIInv

(* While the door stays shut and a run of the exhaust motor is shorter than
   ALARM_COUNT intervals, the alarm thread never has more tokens than one run
   leaves it, for all intervals, motor times and uploads (main.c:136-143, 286-294). *)
THEOREM AlarmThreadKeepsUp ==
    ASSUME DoorStaysShut, RunsEndInTime PROVE SchedSpec => []UserKeepsUp
<1>1. SchedInit => KeepsUpIInv
  BY SchedInitial, KeepsUpInitial DEF KeepsUpIInv
<1>2. KeepsUpIInv /\ [SchedNext]_schedVars => KeepsUpIInv'
  BY KeepsUpStep
<1>3. KeepsUpIInv => UserKeepsUp
  BY DEF KeepsUpIInv, WorkedOff, Load, Tokens, UserKeepsUp
<1> QED BY <1>1, <1>2, <1>3, PTL DEF SchedSpec

-------------------------------------------------------------------------------
(* How long a danger may stay without the buzzer.  A motor run is shorter than k
   intervals.  The three timers run in step, so the sensor thread is due whenever
   the alarm thread is; it is late by what a run of the alarm thread takes from
   it (k intervals), then ALARM_COUNT evaluations follow, with one more run of
   the exhaust motor between two of them. *)
Period == SEND_TIME + 1
Intervals(n) == n * Period
Late == IF MOTOR_TIME > Period THEN MOTOR_TIME - Period ELSE 0
DelayBound(k) == Intervals(ALARM_COUNT + k) + Late

RunsWithin(k) ==
    /\ k \in Nat /\ k <= ALARM_COUNT /\ k <= RT_SEM_VALUE_MAX
    /\ MOTOR_TIME < Intervals(k)

(* What D0 still asks for, and what a danger not yet seen will take. *)
Debt == Intervals(ALARM_COUNT - D0)
Whole == Intervals(ALARM_COUNT) + Late

SensorDue ==
    \/ state["sensor"] = "go"
    \/ state["sensor"] = "ready" /\ sem["sensor"].value > 0

(* The next evaluation may begin a run. *)
Fresh == state["user"] = "go" /\ Tokens + M0 + 1 >= ALARM_COUNT

(* The threads are in step, and the sensor thread has its token before the alarm
   thread can keep it from the processor. *)
InStep ==
    /\ beep \/ ~heard.danger => ignored = 0
    /\ timer["sensor"] = timer["user"]
    /\ state["sensor"] \in {"ready", "wait", "go"}
    /\ state["wireless"] # "busy"
    /\ state["user"] = "busy" \/ Fresh => SensorDue

(* A danger seen: the evaluations D0 asks for are paid with tokens and time. *)
OwedSeen ==
    /\ ignored + Debt + Late
         <= ALARM_DEADLINE + timer["user"] + Load
              + (IF state["user"] = "go" THEN Period ELSE 0)
    /\ state["user"] = "busy" => ignored + rest["user"] <= ALARM_DEADLINE

(* A danger not seen: the sensor thread waits for a run to end, or is due, or
   will be at the end of this interval. *)
OwedUnseen(k) ==
    IF state["user"] = "busy" \/ Fresh
    THEN ignored + Intervals(k) + Whole
           <= ALARM_DEADLINE + Period + Load + timer["user"]
    ELSE IF SensorDue THEN ignored + Whole <= ALARM_DEADLINE + timer["user"]
    ELSE ignored + Intervals(k) + Whole <= ALARM_DEADLINE + timer["user"]

Owed(k) == IF seen.danger THEN OwedSeen ELSE OwedUnseen(k)

InTime(k) ==
    /\ InStep
    /\ ignored > 0 => Owed(k) /\ ignored <= ALARM_DEADLINE

LEMMA IntervalsTyped == ASSUME NEW n \in Nat PROVE Intervals(n) \in Nat /\ Period \in Nat /\ Period > 0
<1>1. Period \in Nat /\ Period > 0
  BY SchedAssumption DEF Period
<1> QED BY <1>1, ProductIsNat DEF Intervals

LEMMA IntervalsNext == ASSUME NEW n \in Nat PROVE Intervals(n + 1) = Intervals(n) + Period
BY IntervalsTyped, ProductOfNext DEF Intervals

LEMMA IntervalsSum ==
    ASSUME NEW n \in Nat, NEW m \in Nat
    PROVE  Intervals(n + m) = Intervals(n) + Intervals(m)
<1>1. \A p \in Nat : (n + m) * p = n * p + m * p
  OBVIOUS
<1> QED BY <1>1, IntervalsTyped DEF Intervals

LEMMA IntervalsOrdered ==
    ASSUME NEW n \in Nat, NEW m \in Nat
    PROVE  /\ n <= m => Intervals(n) <= Intervals(m)
           /\ Intervals(n) < Intervals(m) => n < m
BY IntervalsTyped, ProductsOrdered DEF Intervals

LEMMA LoadIntervals == Load = Intervals(Tokens)
BY DEF Load, Intervals, Period

(* The types the argument needs, in one place. *)
LEMMA InTimeTyped ==
    ASSUME KeepsUpIInv, NEW k, RunsWithin(k)
    PROVE  /\ k \in Nat \ {0} /\ ALARM_COUNT \in Nat \ {0} /\ ALARM_DEADLINE \in Nat
           /\ Period \in Nat \ {0} /\ Late \in Nat /\ MOTOR_TIME \in Nat \ {0}
           /\ MOTOR_TIME <= Late + Period
           /\ Intervals(k) \in Nat /\ Period <= Intervals(k) /\ MOTOR_TIME < Intervals(k)
           /\ Whole \in Nat /\ Whole >= Period + Late
           /\ Tokens \in Nat /\ Load \in Nat /\ D0 \in Nat /\ D0 < ALARM_COUNT /\ M0 \in Nat
           /\ Debt \in Nat /\ Debt >= Period /\ Debt + Late <= Whole
           /\ timer["user"] \in Nat /\ timer["user"] <= SEND_TIME /\ Period = SEND_TIME + 1
           /\ SEND_TIME \in Nat /\ rest["user"] \in Nat /\ ignored \in Nat
<1>1. /\ k \in Nat /\ ALARM_COUNT \in Nat \ {0} /\ ALARM_DEADLINE \in Nat
      /\ SEND_TIME \in Nat /\ MOTOR_TIME \in Nat \ {0} /\ MOTOR_TIME < Intervals(k)
  BY SchedAssumption, ReportAssumption DEF RunsWithin
<1>2. Period \in Nat \ {0} /\ Period = SEND_TIME + 1
  BY <1>1 DEF Period
<1>3. Late \in Nat /\ MOTOR_TIME <= Late + Period
  BY <1>1, <1>2 DEF Late
<1>4. k # 0 /\ Intervals(k) \in Nat
  <2>1. Intervals(0) = 0
    BY <1>2 DEF Intervals
  <2> QED BY <1>1, <2>1, IntervalsTyped
<1>5. Intervals(1) = Period
  BY <1>2 DEF Intervals
<1>6. Period <= Intervals(k)
  BY <1>1, <1>4, <1>5, IntervalsOrdered
<1>7. /\ Tokens \in Nat /\ Load \in Nat /\ D0 \in Nat /\ D0 < ALARM_COUNT /\ M0 \in Nat
      /\ timer["user"] \in Nat /\ timer["user"] <= SEND_TIME
      /\ rest["user"] \in Nat /\ ignored \in Nat
  BY <1>1, TokensTyped DEF KeepsUpIInv, SchedIInv, SchedTypeOK, ReportTypeOK, Threads
<1>8. Debt \in Nat /\ Debt >= Period /\ Debt <= Intervals(ALARM_COUNT) /\ Intervals(ALARM_COUNT) \in Nat
  <2>1. ALARM_COUNT - D0 \in Nat /\ 1 <= ALARM_COUNT - D0 /\ ALARM_COUNT - D0 <= ALARM_COUNT
    BY <1>1, <1>7
  <2>2. Debt \in Nat /\ Intervals(ALARM_COUNT) \in Nat
    BY <1>1, <2>1, IntervalsTyped DEF Debt
  <2>3. Debt >= Intervals(1)
    BY <2>1, <2>2, <1>2, <1>5, IntervalsOrdered DEF Debt
  <2>4. Debt <= Intervals(ALARM_COUNT)
    BY <1>1, <2>1, IntervalsOrdered DEF Debt
  <2> QED BY <2>2, <2>3, <2>4, <1>5
<1>9. Whole \in Nat /\ Debt + Late <= Whole /\ Whole >= Period + Late
  BY <1>2, <1>3, <1>8 DEF Whole
<1> QED BY <1>1, <1>2, <1>3, <1>4, <1>6, <1>7, <1>8, <1>9

(* A run within k <= ALARM_COUNT intervals ends in time. *)
LEMMA WithinIsInTime == ASSUME NEW k, RunsWithin(k) PROVE RunsEndInTime
<1>1. k \in Nat /\ ALARM_COUNT \in Nat /\ k <= ALARM_COUNT /\ MOTOR_TIME < Intervals(k)
      /\ MOTOR_TIME \in Nat
  BY SchedAssumption, ReportAssumption DEF RunsWithin
<1>2. Intervals(k) <= Intervals(ALARM_COUNT) /\ Intervals(k) \in Nat /\ Intervals(ALARM_COUNT) \in Nat
  BY <1>1, IntervalsOrdered, IntervalsTyped
<1>3. MOTOR_TIME < Intervals(ALARM_COUNT)
  BY <1>1, <1>2
<1> QED BY <1>3 DEF RunsEndInTime, Intervals, Period

(* A danger just heard has the whole bound before it. *)
LEMMA NothingOwed ==
    ASSUME KeepsUpIInv, NEW k, RunsWithin(k), DelayBound(k) <= ALARM_DEADLINE, ignored = 0
    PROVE  Owed(k)
<1>1. Intervals(k) + Whole <= ALARM_DEADLINE
  <2>1. Intervals(ALARM_COUNT + k) = Intervals(ALARM_COUNT) + Intervals(k)
    BY InTimeTyped, IntervalsSum
  <2>2. Intervals(ALARM_COUNT) \in Nat /\ Intervals(k) \in Nat /\ Late \in Nat
    BY InTimeTyped, IntervalsTyped
  <2> QED BY <2>1, <2>2 DEF DelayBound, Whole
<1>2. OwedSeen
  <2>1. state["user"] = "busy" => rest["user"] <= ALARM_DEADLINE
    <3>1. state["user"] = "busy" => Load + timer["user"] + rest["user"] <= MOTOR_TIME
      BY DEF KeepsUpIInv, WorkedOff
    <3> QED BY <1>1, <3>1, InTimeTyped
  <2>2. Debt + Late <= ALARM_DEADLINE
    BY <1>1, InTimeTyped
  <2> QED BY <2>1, <2>2, InTimeTyped DEF OwedSeen
<1>3. OwedUnseen(k)
  BY <1>1, InTimeTyped DEF OwedUnseen
<1> QED BY <1>2, <1>3 DEF Owed

LEMMA OwedNow ==
    ASSUME KeepsUpIInv, NEW k, RunsWithin(k), DelayBound(k) <= ALARM_DEADLINE, InTime(k)
    PROVE  Owed(k)
<1>1. ignored \in Nat
  BY InTimeTyped
<1>2. CASE ignored = 0
  BY <1>2, NothingOwed
<1>3. CASE ignored > 0
  BY <1>3 DEF InTime
<1> QED BY <1>1, <1>2, <1>3

(* What leaves the alarm thread and the sensor thread's token alone. *)
LEMMA NothingChanges ==
    ASSUME NEW k, InTime(k),
           UNCHANGED <<timer, rest, seen, beep, D0, M0>>,
           sem'["user"] = sem["user"], state'["user"] = state["user"],
           SensorDue' <=> SensorDue,
           state'["sensor"] \in {"ready", "wait", "go"}, state'["wireless"] # "busy",
           ~heard'.danger => ignored' = 0,
           ignored' = 0 \/ ignored' = ignored
    PROVE  InTime(k)'
<1>1. Tokens' = Tokens
  BY DEF Tokens
<1>2. Load' = Load
  BY <1>1 DEF Load
<1>3. Debt' = Debt
  BY DEF Debt
<1>4. Fresh' <=> Fresh
  BY <1>1 DEF Fresh
<1>5. InStep'
  BY <1>4 DEF InTime, InStep
<1>6. ASSUME ignored' > 0 PROVE Owed(k)' /\ ignored' <= ALARM_DEADLINE
  <2>1. ignored' = ignored /\ ignored > 0
    BY <1>6
  <2>2. Owed(k) /\ ignored <= ALARM_DEADLINE
    BY <2>1 DEF InTime
  <2>3. Owed(k)'
    BY <1>2, <1>3, <1>4, <2>1, <2>2 DEF Owed, OwedSeen, OwedUnseen
  <2> QED BY <2>1, <2>2, <2>3
<1> QED BY <1>5, <1>6 DEF InTime

(* rt_sem_take of the alarm thread: a token taken pays for one evaluation. *)
LEMMA UserTakesInTime ==
    ASSUME KeepsUpIInv, NEW k, RunsWithin(k), InTime(k), Take("user") \/ Suspend("user")
    PROVE  InTime(k)'
<1>1. /\ state["user"] = "ready" /\ sem["user"] \in Semaphores(Threads)
      /\ Tokens + M0 < ALARM_COUNT
      /\ UNCHANGED <<timer, rest, heard, seen, ignored, beep, D0, M0>>
  BY DEF KeepsUpIInv, SchedIInv, SchedTypeOK, WorkedOff, Take, Suspend, reportVars, Threads
<1>2. /\ sem'["sensor"] = sem["sensor"]
      /\ \A t \in Threads \ {"user"} : state'[t] = state[t]
  BY DEF KeepsUpIInv, SchedIInv, SchedTypeOK, Take, Suspend, Threads
<1>3. (SensorDue' <=> SensorDue) /\ ~Fresh
  BY <1>1, <1>2 DEF SensorDue, Fresh, Threads
<1>4. \/ /\ state'["user"] = "go" /\ Tokens > 0 /\ Tokens' = Tokens - 1
      \/ /\ state'["user"] = "wait" /\ Tokens' = Tokens
  <2>1. "user" \in Threads
    BY DEF Threads
  <2>2. CASE Take("user")
    <3>1. CanTake(sem["user"]) /\ Taken(sem["user"]).value = sem["user"].value - 1
      BY <1>1, <2>1, <2>2, SemaphoreOps DEF Take
    <3>2. sem'["user"].value = sem["user"].value - 1 /\ state'["user"] = "go"
      BY <2>1, <2>2, <3>1 DEF Take, KeepsUpIInv, SchedIInv, SchedTypeOK
    <3> QED BY <2>2, <3>2 DEF Take, CanTake, Tokens
  <2>3. CASE Suspend("user")
    <3>1. Suspended(sem["user"], "user").value = sem["user"].value
      BY <1>1, <2>1, SemaphoreOps
    <3> QED BY <2>1, <2>3, <3>1 DEF Suspend, Tokens, KeepsUpIInv, SchedIInv, SchedTypeOK
  <2> QED BY <2>2, <2>3
<1>5. Tokens' \in Nat /\ (state'["user"] = "go" => Tokens = Tokens' + 1)
  BY <1>4, InTimeTyped
<1>6. \/ state'["user"] = "go" /\ Load' + Period = Load
      \/ state'["user"] = "wait" /\ Load' = Load
  <2>1. CASE state'["user"] = "go"
    <3>1. Load = Load' + Period
      BY <1>5, <2>1, IntervalsNext DEF Load, Intervals, Period
    <3> QED BY <2>1, <3>1
  <2>2. CASE Tokens' = Tokens
    BY <1>4, <2>2, InTimeTyped DEF Load
  <2> QED BY <1>4, <2>1, <2>2
<1>7. ~Fresh'
  BY <1>1, <1>4, <1>5, InTimeTyped DEF Fresh
<1>8. InStep'
  BY <1>1, <1>2, <1>3, <1>6, <1>7 DEF InTime, InStep, Threads
<1>9. ASSUME ignored' > 0 PROVE Owed(k)' /\ ignored' <= ALARM_DEADLINE
  <2>1. Owed(k) /\ ignored <= ALARM_DEADLINE /\ ignored' = ignored
    BY <1>1, <1>9 DEF InTime
  <2>2. Debt' = Debt /\ timer'["user"] = timer["user"]
    BY <1>1 DEF Debt
  <2>3. CASE seen.danger
    <3>1. ignored + Debt + Late <= ALARM_DEADLINE + timer["user"] + Load
      BY <1>1, <2>1, <2>3, InTimeTyped DEF Owed, OwedSeen
    <3>2. /\ ignored' + Debt' + Late <= ALARM_DEADLINE + timer'["user"] + Load'
               + (IF state'["user"] = "go" THEN Period ELSE 0)
      <4>1. Load' \in Nat
        BY <1>5, IntervalsTyped DEF Load, Intervals, Period
      <4>2. CASE state'["user"] = "go"
        <5>1. Load = Load' + Period
          BY <1>6, <4>1, <4>2, InTimeTyped
        <5> QED BY <2>1, <2>2, <3>1, <4>1, <4>2, <5>1, InTimeTyped
      <4>3. CASE state'["user"] = "wait"
        BY <1>6, <2>1, <2>2, <3>1, <4>3, InTimeTyped
      <4> QED BY <1>4, <4>2, <4>3
    <3>3. OwedSeen'
      BY <1>6, <3>2 DEF OwedSeen
    <3> QED BY <1>1, <2>1, <2>3, <3>3 DEF Owed
  <2>4. CASE ~seen.danger
    <3>1. OwedUnseen(k)'
      BY <1>1, <1>3, <1>6, <1>7, <2>1, <2>2, <2>4 DEF Owed, OwedUnseen
    <3> QED BY <1>1, <2>1, <2>4, <3>1 DEF Owed
  <2> QED BY <2>3, <2>4
<1> QED BY <1>8, <1>9 DEF InTime

(* One evaluation: it pays Period of what a danger seen still owes, and the run
   it may begin fits into what is left. *)
LEMMA UserMovesInTime ==
    ASSUME KeepsUpIInv, NEW k, RunsWithin(k), InTime(k), UserMove
    PROVE  InTime(k)'
<1>1. /\ state["user"] = "go" /\ ~seen.pass
      /\ \/ Tokens + M0 + 1 < ALARM_COUNT
         \/ Tokens = 0 /\ timer["user"] = 0
  BY DEF KeepsUpIInv, WorkedOff, UserMove
<1>2. /\ UNCHANGED <<timer, sem, heard, seen>>
      /\ rest' = [rest EXCEPT !["user"] = MotorTime]
      /\ state' = [state EXCEPT !["user"] = IF MotorTime > 0 THEN "busy" ELSE "ready"]
      /\ ignored' = IF beep' THEN 0 ELSE ignored
      /\ D0' = Counted(D0, ALARM_COUNT, seen.danger)
      /\ beep' = IF Fires(D0, ALARM_COUNT, seen.danger) THEN TRUE
                 ELSE IF Fires(D1, ALARM_COUNT, ~seen.danger) THEN FALSE ELSE beep
  BY DEF UserMove, Evaluate, Buzz
<1>3. Tokens' = Tokens /\ Load' = Load /\ timer'["user"] = timer["user"]
  BY <1>2 DEF Tokens, Load
<1>4. MotorTime = IF ExhaustRuns(seen.gas) THEN MOTOR_TIME ELSE 0
  BY <1>1, SchedAssumption DEF MotorTime, DoorRuns, Fires
<1>5. IF ExhaustRuns(seen.gas) THEN state'["user"] = "busy" /\ rest'["user"] = MOTOR_TIME
      ELSE state'["user"] = "ready"
  <2>1. MotorTime > 0 <=> ExhaustRuns(seen.gas)
    BY <1>4, SchedAssumption
  <2>2. rest'["user"] = MotorTime /\ state'["user"] = IF MotorTime > 0 THEN "busy" ELSE "ready"
    BY <1>2 DEF KeepsUpIInv, SchedIInv, SchedTypeOK, Threads
  <2> QED BY <1>4, <2>1, <2>2
<1>6. state'["sensor"] = state["sensor"] /\ state'["wireless"] = state["wireless"]
  BY <1>2 DEF KeepsUpIInv, SchedIInv, SchedTypeOK, Threads
<1>7. (SensorDue' <=> SensorDue) /\ ~Fresh'
  BY <1>2, <1>5, <1>6 DEF SensorDue, Fresh
<1>8. ExhaustRuns(seen.gas) => Fresh /\ Tokens = 0 /\ timer["user"] = 0 /\ Load = 0
  <2> SUFFICES ASSUME ExhaustRuns(seen.gas)
               PROVE  Fresh /\ Tokens = 0 /\ timer["user"] = 0 /\ Load = 0
    OBVIOUS
  <2>1. M0 + 1 = ALARM_COUNT
    BY DEF ExhaustRuns, Fires
  <2>2. Fresh /\ Tokens = 0 /\ timer["user"] = 0
    BY <1>1, <2>1, InTimeTyped DEF Fresh
  <2> QED BY <2>2, InTimeTyped, SchedAssumption DEF Load
<1>9. InStep'
  <2>1. beep' \/ ~heard'.danger => ignored' = 0
    BY <1>2 DEF InTime, InStep
  <2>2. state'["user"] = "busy" \/ Fresh' => SensorDue'
    BY <1>5, <1>7, <1>8 DEF InTime, InStep
  <2> QED BY <1>2, <1>6, <2>1, <2>2 DEF InTime, InStep
<1>10. ASSUME ignored' > 0 PROVE Owed(k)' /\ ignored' <= ALARM_DEADLINE
  <2>1. ~beep' /\ ignored' = ignored /\ Owed(k) /\ ignored <= ALARM_DEADLINE
    BY <1>2, <1>10 DEF InTime
  <2>2. CASE seen.danger
    <3>1. ~Fires(D0, ALARM_COUNT, seen.danger)
      BY <1>2, <2>1
    <3>2. D0 + 1 # ALARM_COUNT /\ D0' = D0 + 1
      BY <1>2, <2>2, <3>1 DEF Fires, Counted
    <3>3. Debt = Debt' + Period /\ Debt' \in Nat /\ Debt' >= Period
      <4> DEFINE n == ALARM_COUNT - D0'
      <4>1. n \in Nat /\ n >= 1 /\ ALARM_COUNT - D0 = n + 1
        BY <3>2, InTimeTyped
      <4>2. Intervals(1) <= Intervals(n) /\ Intervals(1) = Period
        BY <4>1, IntervalsOrdered, InTimeTyped DEF Intervals
      <4> QED BY <4>1, <4>2, IntervalsNext, IntervalsTyped DEF Debt
    <3>4. ignored + Debt + Late <= ALARM_DEADLINE + timer["user"] + Load + Period
      BY <1>1, <2>1, <2>2 DEF Owed, OwedSeen
    <3>5. ignored + Debt' + Late <= ALARM_DEADLINE + timer["user"] + Load
      BY <3>3, <3>4, InTimeTyped
    <3>6. state'["user"] = "busy" => ignored + rest'["user"] <= ALARM_DEADLINE
      <4>1. ExhaustRuns(seen.gas) => ignored + MOTOR_TIME <= ALARM_DEADLINE
        BY <1>8, <3>3, <3>5, InTimeTyped
      <4> QED BY <1>5, <4>1
    <3>7. OwedSeen'
      BY <1>3, <1>5, <2>1, <3>3, <3>5, <3>6, InTimeTyped DEF OwedSeen
    <3> QED BY <1>2, <2>1, <2>2, <3>7 DEF Owed
  <2>3. CASE ~seen.danger
    <3>1. OwedUnseen(k)
      BY <2>1, <2>3 DEF Owed
    <3>2. CASE ExhaustRuns(seen.gas)
      BY <1>2, <1>3, <1>5, <1>8, <2>1, <2>3, <3>1, <3>2 DEF Owed, OwedUnseen
    <3>3. CASE ~ExhaustRuns(seen.gas) /\ ~Fresh
      BY <1>1, <1>2, <1>3, <1>5, <1>7, <2>1, <2>3, <3>1, <3>3 DEF Owed, OwedUnseen
    <3>4. CASE ~ExhaustRuns(seen.gas) /\ Fresh
      <4>1. Tokens = 0 /\ timer["user"] = 0 /\ SensorDue
        BY <1>1, <3>4, InTimeTyped DEF Fresh, InTime, InStep
      <4>2. Load = 0
        BY <4>1, InTimeTyped DEF Load
      <4>3. ignored + Whole <= ALARM_DEADLINE + timer["user"]
        BY <3>1, <3>4, <4>1, <4>2, InTimeTyped DEF OwedUnseen
      <4>4. OwedUnseen(k)'
        BY <1>3, <1>5, <1>7, <2>1, <3>4, <4>1, <4>3 DEF OwedUnseen
      <4> QED BY <1>2, <2>1, <2>3, <4>4 DEF Owed
    <3> QED BY <3>2, <3>3, <3>4
  <2> QED BY <2>2, <2>3
<1> QED BY <1>9, <1>10 DEF InTime

(* The alarm thread keeps the processor unless it waits. *)
LEMMA UserFirst ==
    ASSUME KeepsUpIInv, NEW t \in Threads, t # "user", Runs(t)
    PROVE  state["user"] = "wait" /\ Tokens = 0 /\ Load = 0
<1>1. ~Runnable("user")
  BY DEF Runs, Priority, Threads
<1>2. state["user"] = "wait"
  BY <1>1 DEF Runnable, KeepsUpIInv, WorkedOff
<1>3. Tokens = 0
  BY <1>2 DEF KeepsUpIInv, SchedIInv, WaitersListed, Tokens, Threads
<1> QED BY <1>2, <1>3, SchedAssumption DEF Load

(* What is heard is seen: the debt starts at what D0 has left. *)
LEMMA SensorReadInTime ==
    ASSUME KeepsUpIInv, NEW k, RunsWithin(k), InTime(k), SensorRead
    PROVE  InTime(k)'
<1>1. /\ state["sensor"] = "go" /\ seen' = heard
      /\ UNCHANGED <<timer, sem, rest, heard, ignored, beep, D0, M0>>
      /\ state' = [state EXCEPT !["sensor"] = "ready"]
  BY DEF SensorRead, reportVars
<1>2. state["user"] = "wait" /\ Load = 0
  BY UserFirst DEF SensorRead, Threads
<1>3. state'["user"] = "wait" /\ state'["sensor"] = "ready" /\ state'["wireless"] = state["wireless"]
  BY <1>1, <1>2 DEF KeepsUpIInv, SchedIInv, SchedTypeOK, Threads
<1>4. InStep'
  BY <1>1, <1>3 DEF InTime, InStep, Fresh
<1>5. ASSUME ignored' > 0 PROVE Owed(k)' /\ ignored' <= ALARM_DEADLINE
  <2>1. ignored' = ignored /\ Owed(k) /\ ignored <= ALARM_DEADLINE
    BY <1>1, <1>5 DEF InTime
  <2>2. seen'.danger
    BY <1>1, <1>5 DEF InTime, InStep
  <2>3. ignored + Debt + Late <= ALARM_DEADLINE + timer["user"] + Load
    <3>1. CASE seen.danger
      BY <1>2, <2>1, <3>1, InTimeTyped DEF Owed, OwedSeen
    <3>2. CASE ~seen.danger
      <4>1. ignored + Whole <= ALARM_DEADLINE + timer["user"]
        BY <1>1, <1>2, <2>1, <3>2 DEF Owed, OwedUnseen, SensorDue, Fresh
      <4> QED BY <1>2, <4>1, InTimeTyped
    <3> QED BY <3>1, <3>2
  <2>4. Debt' = Debt /\ Load' = Load /\ timer'["user"] = timer["user"]
    BY <1>1 DEF Debt, Load, Tokens
  <2>5. OwedSeen'
    BY <1>3, <2>1, <2>3, <2>4, InTimeTyped DEF OwedSeen
  <2> QED BY <2>1, <2>2, <2>5 DEF Owed
<1> QED BY <1>4, <1>5 DEF InTime

(* What a tick does to time, whoever has the processor. *)
LEMMA TickTimes ==
    ASSUME KeepsUpIInv, NEW k, RunsWithin(k), DelayBound(k) <= ALARM_DEADLINE, InTime(k), Tick
    PROVE  /\ timer'["sensor"] = timer'["user"]
           /\ timer'["user"] = IF Due("user") THEN 0 ELSE timer["user"] + 1
           /\ Due("sensor") <=> Due("user")
           /\ Due("user") <=> timer["user"] + 1 = Period
           /\ state'["wireless"] # "busy"
           /\ beep' \/ ~heard'.danger => ignored' = 0
           /\ ignored' > 0 => ignored' = ignored + 1
           /\ UNCHANGED <<seen, Debt, M0>>
           /\ Owed(k)
           /\ state["user"] \in {"wait", "busy"}
<1>1. /\ timer' = [t \in Threads |-> IF Due(t) THEN 0 ELSE timer[t] + 1]
      /\ state' = [t \in Threads |-> AfterTick(t)]
      /\ ignored' = IF heard.danger /\ ~beep /\ ignored <= ALARM_DEADLINE
                      THEN ignored + 1 ELSE ignored
      /\ UNCHANGED <<heard, seen, beep, D0, M0>>
  BY DEF Tick, reportVars
<1>2. timer["sensor"] = timer["user"] /\ state["wireless"] # "busy"
  BY DEF InTime, InStep
<1>3. Due("sensor") <=> Due("user")
  BY <1>2 DEF Due
<1>4. timer'["user"] = (IF Due("user") THEN 0 ELSE timer["user"] + 1) /\ timer'["sensor"] = timer'["user"]
  BY <1>1, <1>2, <1>3 DEF Threads
<1>5. Due("user") <=> timer["user"] + 1 = Period
  BY InTimeTyped DEF Due
<1>6. state'["wireless"] # "busy"
  BY <1>1, <1>2 DEF AfterTick, Threads
<1>7. beep' \/ ~heard'.danger => ignored' = 0
  BY <1>1 DEF InTime, InStep
<1>8. ASSUME ignored' > 0 PROVE ignored' = ignored + 1
  <2>1. CASE ignored > 0
    BY <1>1, <2>1, InTimeTyped DEF InTime, InStep
  <2>2. CASE ignored = 0
    BY <1>1, <1>8, <2>2, InTimeTyped
  <2> QED BY <2>1, <2>2, InTimeTyped
<1>9. state["user"] \in {"wait", "busy"}
  <2>1. Runnable("user") => Runs("user")
    BY DEF Runs, Priority, Threads
  <2>2. Runs("user") => state["user"] = "busy"
    BY DEF Tick, Threads
  <2> QED BY <2>1, <2>2 DEF Runnable, KeepsUpIInv, WorkedOff
<1> QED BY <1>1, <1>3, <1>4, <1>5, <1>6, <1>7, <1>8, <1>9, OwedNow DEF Debt

(* A tick while the alarm thread waits: the sensor thread waits too, and at the
   end of the interval both get their token. *)
LEMMA WaitTickInTime ==
    ASSUME KeepsUpIInv, NEW k, RunsWithin(k), DelayBound(k) <= ALARM_DEADLINE, InTime(k),
           Tick, state["user"] = "wait"
    PROVE  InTime(k)'
<1>1. /\ sem' = [t \in Threads |-> IF Due(t) THEN Released(sem[t]) ELSE sem[t]]
      /\ state' = [t \in Threads |-> AfterTick(t)]
  BY DEF Tick
<1>2. state["sensor"] = "wait"
  <2>1. ~Runnable("user") /\ state["wireless"] # "busy"
    BY DEF Runnable, InTime, InStep
  <2>2. ~Runnable("wireless")
    <3>1. Runnable("wireless") => Runs("wireless")
      BY <2>1 DEF Runs, Priority, Threads
    <3> QED BY <2>1, <3>1 DEF Tick, Threads
  <2>3. Runnable("sensor") => Runs("sensor")
    BY <2>1, <2>2 DEF Runs, Priority, Threads
  <2>4. state["sensor"] \in {"ready", "wait", "go"}
    BY DEF InTime, InStep
  <2> QED BY <2>3, <2>4 DEF Tick, Runnable, Threads
<1>3. ASSUME NEW t \in {"user", "sensor"}
      PROVE  /\ sem'[t].value = 0
             /\ state'[t] = IF Due(t) THEN "go" ELSE "wait"
  <2>1. t \in Threads /\ state[t] = "wait"
    BY <1>2 DEF Threads
  <2>2. sem[t] \in Semaphores(Threads) /\ sem[t].value = 0 /\ sem[t].suspended = <<t>>
    BY <2>1 DEF KeepsUpIInv, SchedIInv, SchedTypeOK, WaitersListed
  <2>3. Released(sem[t]).value = 0 /\ Resumed(sem[t]) = {t}
    BY <2>1, <2>2, SemaphoreOps
  <2>4. AfterTick(t) = IF Due(t) THEN "go" ELSE "wait"
    BY <2>1, <2>3 DEF AfterTick, Elapsed
  <2> QED BY <1>1, <2>1, <2>2, <2>3, <2>4
<1>4. /\ Tokens = 0 /\ Load = 0 /\ Tokens' = 0 /\ Load' = 0
  <2>1. Tokens = 0
    BY DEF KeepsUpIInv, SchedIInv, WaitersListed, Tokens, Threads
  <2>2. Tokens' = 0
    BY <1>3 DEF Tokens
  <2> QED BY <2>1, <2>2, InTimeTyped, SchedAssumption DEF Load
<1>5. CASE ~Due("user")
  <2>1. state'["user"] = "wait" /\ state'["sensor"] = "wait" /\ timer'["user"] = timer["user"] + 1
    BY <1>3, <1>5, TickTimes
  <2>2. InStep'
    BY <2>1, TickTimes DEF InStep, Fresh
  <2>3. ASSUME ignored' > 0 PROVE Owed(k)' /\ ignored' <= ALARM_DEADLINE
    <3>1. ignored' = ignored + 1 /\ Owed(k) /\ UNCHANGED <<seen, Debt>>
      BY <2>3, TickTimes
    <3>2. timer["user"] + 1 < Period
      BY <1>5, InTimeTyped, TickTimes
    <3>3. CASE seen.danger
      <4>1. ignored + Debt + Late <= ALARM_DEADLINE + timer["user"]
        BY <1>4, <3>1, <3>3, InTimeTyped DEF Owed, OwedSeen
      <4>2. ignored' + Debt' + Late <= ALARM_DEADLINE + timer'["user"]
        BY <2>1, <3>1, <4>1, InTimeTyped
      <4>3. OwedSeen'
        BY <1>4, <2>1, <4>2, InTimeTyped DEF OwedSeen
      <4> QED BY <3>1, <3>2, <3>3, <4>1, <4>3, InTimeTyped DEF Owed
    <3>4. CASE ~seen.danger
      <4>1. ignored + Intervals(k) + Whole <= ALARM_DEADLINE + timer["user"]
        BY <1>2, <3>1, <3>4 DEF Owed, OwedUnseen, SensorDue, Fresh
      <4>2. ignored' + Intervals(k) + Whole <= ALARM_DEADLINE + timer'["user"]
        BY <2>1, <3>1, <4>1, InTimeTyped
      <4>3. OwedUnseen(k)'
        BY <2>1, <4>2 DEF OwedUnseen, SensorDue, Fresh
      <4> QED BY <3>1, <3>2, <3>4, <4>1, <4>3, InTimeTyped DEF Owed
    <3> QED BY <3>3, <3>4
  <2> QED BY <2>2, <2>3 DEF InTime
<1>6. CASE Due("user")
  <2>1. state'["user"] = "go" /\ state'["sensor"] = "go" /\ timer'["user"] = 0
    BY <1>3, <1>6, TickTimes
  <2>2. InStep'
    BY <2>1, TickTimes DEF InStep, SensorDue
  <2>3. ASSUME ignored' > 0 PROVE Owed(k)' /\ ignored' <= ALARM_DEADLINE
    <3>1. ignored' = ignored + 1 /\ Owed(k) /\ UNCHANGED <<seen, Debt>>
      BY <2>3, TickTimes
    <3>2. timer["user"] + 1 = Period
      BY <1>6, TickTimes
    <3>3. CASE seen.danger
      <4>1. ignored + Debt + Late <= ALARM_DEADLINE + timer["user"]
        BY <1>4, <3>1, <3>3, InTimeTyped DEF Owed, OwedSeen
      <4>2. ignored' + Debt' + Late <= ALARM_DEADLINE + Period
        BY <3>1, <3>2, <4>1, InTimeTyped
      <4>3. OwedSeen'
        BY <1>4, <2>1, <4>2, InTimeTyped DEF OwedSeen
      <4> QED BY <3>1, <3>2, <3>3, <4>1, <4>3, InTimeTyped DEF Owed
    <3>4. CASE ~seen.danger
      <4>1. ignored + Intervals(k) + Whole <= ALARM_DEADLINE + timer["user"]
        BY <1>2, <3>1, <3>4 DEF Owed, OwedUnseen, SensorDue, Fresh
      <4>2. /\ ignored' + Intervals(k) + Whole <= ALARM_DEADLINE + Period
            /\ ignored' + Whole <= ALARM_DEADLINE
            /\ ignored' <= ALARM_DEADLINE
        BY <3>1, <3>2, <4>1, InTimeTyped
      <4>3. OwedUnseen(k)'
        BY <1>4, <2>1, <4>2, InTimeTyped DEF OwedUnseen, SensorDue
      <4> QED BY <3>1, <3>4, <4>2, <4>3 DEF Owed
    <3> QED BY <3>3, <3>4
  <2> QED BY <2>2, <2>3 DEF InTime
<1> QED BY <1>5, <1>6

(* A tick in a run: its semaphore is not full, so the time that passes is kept in
   the timer and the tokens; the sensor thread stays due. *)
LEMMA RunTickInTime ==
    ASSUME KeepsUpIInv, NEW k, RunsWithin(k), DelayBound(k) <= ALARM_DEADLINE, InTime(k),
           Tick, state["user"] = "busy"
    PROVE  InTime(k)'
<1>1. /\ sem' = [t \in Threads |-> IF Due(t) THEN Released(sem[t]) ELSE sem[t]]
      /\ rest' = [t \in Threads |-> IF rest[t] > 0 THEN rest[t] - 1 ELSE 0]
      /\ state' = [t \in Threads |-> AfterTick(t)]
  BY DEF Tick
<1>2. rest["user"] > 0 /\ Load + timer["user"] + rest["user"] <= MOTOR_TIME
  BY DEF KeepsUpIInv, WorkedOff
<1>3. rest'["user"] = rest["user"] - 1
  BY <1>1, <1>2 DEF Threads
<1>4. sem["user"] \in Semaphores(Threads) /\ sem["user"].suspended = <<>>
  BY DEF KeepsUpIInv, SchedIInv, SchedTypeOK, WaitersListed, Threads
<1>5. state'["user"] = IF rest["user"] = 1 THEN "ready" ELSE "busy"
  BY <1>1, <1>4 DEF AfterTick, Elapsed, Resumed, Threads
<1>6. state'["sensor"] = state["sensor"] /\ SensorDue /\ SensorDue'
  <2>1. SensorDue
    BY DEF InTime, InStep
  <2>2. sem["sensor"] \in Semaphores(Threads) /\ sem["sensor"].suspended = <<>>
    BY <2>1 DEF SensorDue, KeepsUpIInv, SchedIInv, SchedTypeOK, WaitersListed, Threads
  <2>3. Released(sem["sensor"]).value > 0 /\ Resumed(sem["sensor"]) = {}
    <3>1. "sensor" \in Threads
      BY DEF Threads
    <3> QED BY <2>2, <3>1, SemaphoreOps
  <2>4. state'["sensor"] = state["sensor"]
    BY <1>1, <2>1, <2>3 DEF AfterTick, Elapsed, SensorDue, Threads
  <2>5. sem'["sensor"].value = sem["sensor"].value \/ sem'["sensor"].value > 0
    BY <1>1, <2>3 DEF Threads
  <2> QED BY <2>1, <2>4, <2>5 DEF SensorDue
<1>7. InStep'
  BY <1>6, TickTimes DEF InTime, InStep
(* The time kept in timer and tokens. *)
<1>8. /\ Load' + timer'["user"] = Load + timer["user"] + 1
      /\ Tokens' \in Nat /\ Load' \in Nat /\ timer'["user"] \in Nat
  <2>1. CASE ~Due("user")
    <3>1. Tokens' = Tokens
      BY <1>1, <2>1 DEF Tokens, Threads
    <3>2. Load' = Load
      BY <3>1 DEF Load
    <3> QED BY <2>1, <3>1, <3>2, InTimeTyped, TickTimes
  <2>2. CASE Due("user")
    <3>1. timer["user"] + 1 = Period /\ timer'["user"] = 0
      BY <2>2, TickTimes
    <3>2. Load + Period <= MOTOR_TIME
      BY <1>2, <3>1, InTimeTyped
    <3>3. Intervals(Tokens) < Intervals(k)
      BY <3>2, InTimeTyped, LoadIntervals
    <3>4. Tokens < RT_SEM_VALUE_MAX
      BY <3>3, InTimeTyped, IntervalsOrdered, SemAssumption DEF RunsWithin
    <3>5. Released(sem["user"]).value = sem["user"].value + 1
      <4>1. ~Full(sem["user"])
        BY <3>4, InTimeTyped, SemAssumption DEF Full, Tokens
      <4>2. sem["user"] = [value |-> sem["user"].value, suspended |-> sem["user"].suspended]
        BY <1>4 DEF Semaphores
      <4> QED BY <1>4, <4>1, <4>2 DEF Released
    <3>6. Tokens' = Tokens + 1
      BY <1>1, <2>2, <3>5 DEF Tokens, Threads
    <3>7. Load' = Load + Period
      BY <3>6, InTimeTyped, IntervalsNext DEF Load, Intervals, Period
    <3> QED BY <3>1, <3>6, <3>7, InTimeTyped
  <2> QED BY <2>1, <2>2
<1>9. ASSUME ignored' > 0 PROVE Owed(k)' /\ ignored' <= ALARM_DEADLINE
  <2>1. ignored' = ignored + 1 /\ Owed(k) /\ UNCHANGED <<seen, Debt>>
    BY <1>9, TickTimes
  <2>2. CASE seen.danger
    <3>1. /\ ignored + Debt + Late <= ALARM_DEADLINE + timer["user"] + Load
          /\ ignored + rest["user"] <= ALARM_DEADLINE
      BY <2>1, <2>2, InTimeTyped DEF Owed, OwedSeen
    <3>2. /\ ignored' + Debt' + Late <= ALARM_DEADLINE + timer'["user"] + Load'
          /\ ignored' + rest'["user"] <= ALARM_DEADLINE
          /\ ignored' <= ALARM_DEADLINE
      BY <1>2, <1>3, <1>8, <2>1, <3>1, InTimeTyped
    <3>3. OwedSeen'
      BY <1>5, <1>8, <3>2, InTimeTyped DEF OwedSeen
    <3> QED BY <2>1, <2>2, <3>2, <3>3 DEF Owed
  <2>3. CASE ~seen.danger
    <3>1. ignored + Intervals(k) + Whole <= ALARM_DEADLINE + Period + Load + timer["user"]
      BY <2>1, <2>3 DEF Owed, OwedUnseen
    <3>2. ignored' + Intervals(k) + Whole <= ALARM_DEADLINE + Period + Load' + timer'["user"]
      BY <1>8, <2>1, <3>1, InTimeTyped
    <3>3. ignored' <= ALARM_DEADLINE
      BY <1>2, <2>1, <3>1, InTimeTyped
    <3>4. CASE rest["user"] # 1
      BY <1>5, <2>1, <2>3, <3>2, <3>3, <3>4 DEF Owed, OwedUnseen
    <3>5. CASE rest["user"] = 1
      <4>1. Load' + Period <= Intervals(k)
        <5>1. Intervals(Tokens') < Intervals(k)
          <6>1. Load' = Intervals(Tokens')
            BY DEF Load, Intervals, Period
          <6>2. Load' <= MOTOR_TIME
            BY <1>2, <1>8, InTimeTyped
          <6> QED BY <1>8, <6>1, <6>2, InTimeTyped
        <5>2. Tokens' + 1 <= k
          BY <1>8, <5>1, InTimeTyped, IntervalsOrdered
        <5>3. Intervals(Tokens' + 1) <= Intervals(k)
          BY <1>8, <5>2, InTimeTyped, IntervalsOrdered
        <5> QED BY <1>8, <5>3, IntervalsNext DEF Load, Intervals, Period
      <4>2. ignored' + Whole <= ALARM_DEADLINE + timer'["user"]
        BY <1>8, <2>1, <3>2, <4>1, InTimeTyped
      <4>3. OwedUnseen(k)'
        BY <1>5, <1>6, <3>5, <4>2 DEF OwedUnseen, Fresh
      <4> QED BY <2>1, <2>3, <3>3, <4>3 DEF Owed
    <3> QED BY <3>4, <3>5
  <2> QED BY <2>2, <2>3
<1> QED BY <1>7, <1>9 DEF InTime

LEMMA InTimeStep ==
    ASSUME DoorStaysShut, NEW k, RunsWithin(k), DelayBound(k) <= ALARM_DEADLINE,
           KeepsUpIInv, InTime(k), [SchedNext]_schedVars
    PROVE  InTime(k)'
<1>1. /\ sem \in [Threads -> Semaphores(Threads)] /\ state \in [Threads -> States]
      /\ rest \in [Threads -> Nat]
      /\ state["sensor"] \in {"ready", "wait", "go"} /\ state["wireless"] # "busy"
      /\ ~heard.danger => ignored = 0
  BY DEF KeepsUpIInv, SchedIInv, SchedTypeOK, InTime, InStep
<1>2. ASSUME NEW t \in Threads, Take(t) \/ Suspend(t) PROVE InTime(k)'
  <2>1. CASE t = "user"
    BY <1>2, <2>1, UserTakesInTime
  <2>2. CASE t = "sensor"
    <3>1. /\ sem'["user"] = sem["user"] /\ state'["user"] = state["user"]
          /\ state'["wireless"] = state["wireless"]
          /\ state["sensor"] = "ready"
          /\ UNCHANGED <<timer, rest, heard, seen, beep, D0, M0, ignored>>
      BY <1>1, <1>2, <2>2 DEF Take, Suspend, Threads, reportVars
    <3>2. /\ state'["sensor"] \in {"go", "wait"}
          /\ state'["sensor"] = "go" <=> sem["sensor"].value > 0
      BY <1>1, <1>2, <2>2 DEF Take, Suspend, CanTake, Threads
    <3>3. SensorDue' <=> SensorDue
      BY <3>1, <3>2 DEF SensorDue
    <3> QED BY <1>1, <3>1, <3>2, <3>3, NothingChanges
  <2>3. CASE t = "wireless"
    <3>1. /\ \A u \in {"user", "sensor"} : sem'[u] = sem[u] /\ state'[u] = state[u]
          /\ state'["wireless"] # "busy"
          /\ UNCHANGED <<timer, rest, heard, seen, beep, D0, M0, ignored>>
      BY <1>1, <1>2, <2>3 DEF Take, Suspend, Threads, reportVars
    <3> QED BY <1>1, <3>1, NothingChanges DEF SensorDue
  <2> QED BY <2>1, <2>2, <2>3 DEF Threads
<1>3. CASE UserMove
  BY <1>3, UserMovesInTime
<1>4. CASE SensorRead
  BY <1>4, SensorReadInTime
<1>5. CASE Upload \/ Nap \/ Uploaded
  <2>1. /\ \A u \in {"user", "sensor"} : state'[u] = state[u] /\ sem'[u] = sem[u]
        /\ state'["wireless"] # "busy"
        /\ UNCHANGED <<timer, heard, seen, beep, D0, M0, ignored>>
    BY <1>1, <1>5 DEF Upload, Nap, Uploaded, Threads, reportVars
  <2>2. state["user"] = "wait"
    BY <1>5, UserFirst DEF Upload, Nap, Uploaded, Threads
  <2> QED BY <1>1, <2>1, <2>2 DEF InTime, InStep, Owed, OwedSeen, OwedUnseen, SensorDue,
                                 Fresh, Debt, Load, Tokens
<1>6. CASE Tick
  <2>1. state["user"] \in {"wait", "busy"}
    BY <1>6, TickTimes
  <2> QED BY <1>6, <2>1, WaitTickInTime, RunTickInTime
<1>7. CASE Hear
  BY <1>1, <1>7, NothingChanges DEF Hear, SensorDue, reportVars
<1>8. CASE UNCHANGED schedVars
  BY <1>1, <1>8, NothingChanges DEF schedVars, SensorDue, reportVars
<1> QED BY <1>2, <1>3, <1>4, <1>5, <1>6, <1>7, <1>8 DEF SchedNext, ThreadStep

LEMMA InTimeInitial == ASSUME NEW k, SchedInit PROVE InTime(k)
<1>1. InStep
  BY DEF SchedInit, InStep, Fresh, Threads
<1>2. ignored = 0
  BY DEF SchedInit
<1> QED BY <1>1, <1>2 DEF InTime

(* A danger that stays in the received strings sounds the buzzer within
   ALARM_COUNT + k intervals and what a run of the exhaust motor takes beyond one
   more, k being the intervals a run stays within, while the door stays shut; for
   all intervals, motor times and uploads.  With the code's numbers a run of 2560 ms
   stays within 3 intervals of 1001 ms, and the bound is 8 * 1001 + 1559 ms
   (main.c:100-143, 265-294; Stepper.c:21-59). *)
THEOREM AlarmComesInTime ==
    ASSUME DoorStaysShut, NEW k, RunsWithin(k), DelayBound(k) <= ALARM_DEADLINE
    PROVE  SchedSpec => []AlarmInTime
<1> DEFINE Inv == KeepsUpIInv /\ InTime(k)
<1>1. SchedInit => Inv
  BY SchedInitial, KeepsUpInitial, InTimeInitial DEF KeepsUpIInv
<1>2. Inv /\ [SchedNext]_schedVars => Inv'
  BY KeepsUpStep, InTimeStep, WithinIsInTime
<1>3. Inv => AlarmInTime
  <2> SUFFICES ASSUME Inv PROVE ignored <= ALARM_DEADLINE
    BY DEF AlarmInTime
  <2>1. CASE ignored = 0
    BY <2>1, SchedAssumption
  <2>2. CASE ignored > 0
    BY <2>2 DEF InTime
  <2> QED BY <2>1, <2>2, InTimeTyped
<1> QED BY <1>1, <1>2, <1>3, PTL DEF SchedSpec

-------------------------------------------------------------------------------
(* The door.  Its motor runs at least as long as the PASS_COUNT intervals that
   drive it again, and the semaphore holds as many tokens. *)
DoorRunIsLong == Intervals(PASS_COUNT) <= MOTOR_TIME /\ PASS_COUNT <= RT_SEM_VALUE_MAX

(* The run in progress, or the tokens that wait, are enough for the next run of
   the door, and the globals keep asking for it. *)
DoorKeepsOn ==
    /\ seen.pass
    /\ state["user"] \in {"ready", "go", "busy"}
    /\ state["user"] = "ready" => Tokens + M1 >= PASS_COUNT
    /\ state["user"] = "go" => Tokens + 1 + M1 >= PASS_COUNT
    /\ state["user"] = "busy" =>
         /\ rest["user"] > 0
         /\ \/ Tokens + M1 >= PASS_COUNT
            \/ Load + timer["user"] + rest["user"] >= Intervals(PASS_COUNT)

(* The sensor and the upload thread are kept from the processor, and what the
   alarm thread reads stays as it is. *)
LowerThreadsStarve == seen.pass /\ \A t \in Threads \ {"user"} : ~Runs(t)

LEMMA DoorTyped ==
    ASSUME SchedIInv
    PROVE  /\ Tokens \in Nat /\ Load \in Nat /\ M1 \in Nat /\ M1 < PASS_COUNT
           /\ PASS_COUNT \in Nat \ {0} /\ Intervals(PASS_COUNT) \in Nat
           /\ timer["user"] \in Nat /\ timer["user"] <= SEND_TIME /\ rest["user"] \in Nat
           /\ SEND_TIME \in Nat /\ Period = SEND_TIME + 1 /\ MOTOR_TIME \in Nat \ {0}
<1>1. PASS_COUNT \in Nat \ {0} /\ SEND_TIME \in Nat /\ MOTOR_TIME \in Nat \ {0}
  BY SchedAssumption, ReportAssumption
<1>2. M1 \in Nat /\ M1 < PASS_COUNT
  BY <1>1 DEF SchedIInv, SchedTypeOK, ReportTypeOK
<1>3. timer["user"] \in Nat /\ timer["user"] <= SEND_TIME /\ rest["user"] \in Nat
  BY <1>1 DEF SchedIInv, SchedTypeOK, Threads
<1> QED BY <1>1, <1>2, <1>3, TokensTyped, IntervalsTyped DEF SchedIInv, Period

LEMMA DoorStarves == DoorKeepsOn => LowerThreadsStarve
<1> SUFFICES ASSUME DoorKeepsOn PROVE LowerThreadsStarve
  OBVIOUS
<1>1. Runnable("user")
  BY DEF DoorKeepsOn, Runnable
<1>2. ASSUME NEW t \in Threads \ {"user"} PROVE ~Runs(t)
  BY <1>1, <1>2 DEF Runs, Priority, Threads
<1> QED BY <1>2 DEF LowerThreadsStarve, DoorKeepsOn

(* A run of the door, once begun, is followed by the next. *)
LEMMA DoorBegins ==
    ASSUME DoorRunIsLong, SchedIInv, UserMove, DoorRuns(seen.pass)
    PROVE  DoorKeepsOn'
<1>1. /\ seen.pass /\ UNCHANGED <<timer, sem, seen>>
      /\ rest' = [rest EXCEPT !["user"] = MotorTime]
      /\ state' = [state EXCEPT !["user"] = IF MotorTime > 0 THEN "busy" ELSE "ready"]
  BY DEF UserMove, DoorRuns, Fires
<1>2. MotorTime \in Nat /\ MotorTime >= MOTOR_TIME /\ MotorTime > 0
  BY SchedAssumption DEF MotorTime
<1>3. state'["user"] = "busy" /\ rest'["user"] = MotorTime
  BY <1>1, <1>2 DEF SchedIInv, SchedTypeOK, Threads
<1>4. Load' = Load /\ timer'["user"] = timer["user"]
  BY <1>1 DEF Load, Tokens
<1>5. Load' + timer'["user"] + rest'["user"] >= Intervals(PASS_COUNT)
  BY <1>2, <1>3, <1>4, DoorTyped DEF DoorRunIsLong
<1> QED BY <1>1, <1>2, <1>3, <1>5 DEF DoorKeepsOn

(* The alarm thread finds a token, and evaluates. *)
LEMMA DoorWorks ==
    ASSUME DoorRunIsLong, SchedIInv, DoorKeepsOn,
           Take("user") \/ Suspend("user") \/ UserMove
    PROVE  DoorKeepsOn'
<1>1. "user" \in Threads /\ sem["user"] \in Semaphores(Threads)
  BY DEF SchedIInv, SchedTypeOK, Threads
<1>2. CASE Take("user") \/ Suspend("user")
  <2>1. state["user"] = "ready" /\ UNCHANGED <<seen, M1>> /\ Tokens + M1 >= PASS_COUNT
    BY <1>2 DEF Take, Suspend, DoorKeepsOn, reportVars
  <2>2. CanTake(sem["user"])
    BY <2>1, DoorTyped DEF CanTake, Tokens
  <2>3. state'["user"] = "go" /\ sem'["user"].value = sem["user"].value - 1
    <3>1. Taken(sem["user"]).value = sem["user"].value - 1
      BY <1>1, <2>2, SemaphoreOps
    <3> QED BY <1>1, <1>2, <2>2, <3>1 DEF Take, Suspend, SchedIInv, SchedTypeOK
  <2>4. Tokens' + 1 + M1' >= PASS_COUNT
    BY <2>1, <2>3, DoorTyped DEF Tokens
  <2> QED BY <2>1, <2>3, <2>4 DEF DoorKeepsOn
<1>3. CASE UserMove /\ ~DoorRuns(seen.pass)
  <2>1. /\ state["user"] = "go" /\ seen.pass /\ Tokens + 1 + M1 >= PASS_COUNT
        /\ UNCHANGED <<timer, sem, seen>>
        /\ M1' = Counted(M1, PASS_COUNT, seen.pass)
        /\ rest' = [rest EXCEPT !["user"] = MotorTime]
        /\ state' = [state EXCEPT !["user"] = IF MotorTime > 0 THEN "busy" ELSE "ready"]
    BY <1>3 DEF UserMove, Evaluate, DoorKeepsOn
  <2>2. M1' = M1 + 1 /\ Tokens' = Tokens
    BY <1>3, <2>1 DEF DoorRuns, Counted, Tokens
  <2>3. Tokens' + M1' >= PASS_COUNT
    <3>1. Tokens + (M1 + 1) >= PASS_COUNT
      BY <2>1, DoorTyped
    <3> QED BY <2>2, <3>1
  <2>4. state'["user"] \in {"busy", "ready"} /\ (state'["user"] = "busy" => rest'["user"] > 0)
    BY <1>1, <2>1 DEF SchedIInv, SchedTypeOK
  <2> QED BY <2>1, <2>3, <2>4 DEF DoorKeepsOn
<1>4. CASE UserMove /\ DoorRuns(seen.pass)
  BY <1>4, DoorBegins
<1> QED BY <1>2, <1>3, <1>4

(* A tick falls into a run; by its end the tokens are there. *)
LEMMA DoorTicks ==
    ASSUME DoorRunIsLong, SchedIInv, SchedIInv', DoorKeepsOn, Tick
    PROVE  DoorKeepsOn'
<1>1. state["user"] = "busy"
  <2>1. Runs("user")
    BY DEF DoorKeepsOn, Runs, Runnable, Priority, Threads
  <2> QED BY <2>1 DEF Tick, Threads
<1>2. /\ sem' = [t \in Threads |-> IF Due(t) THEN Released(sem[t]) ELSE sem[t]]
      /\ timer' = [t \in Threads |-> IF Due(t) THEN 0 ELSE timer[t] + 1]
      /\ rest' = [t \in Threads |-> IF rest[t] > 0 THEN rest[t] - 1 ELSE 0]
      /\ state' = [t \in Threads |-> AfterTick(t)]
      /\ UNCHANGED <<seen, M1>>
  BY DEF Tick, reportVars
<1>3. /\ seen.pass /\ rest["user"] > 0
      /\ \/ Tokens + M1 >= PASS_COUNT
         \/ Load + timer["user"] + rest["user"] >= Intervals(PASS_COUNT)
  BY <1>1 DEF DoorKeepsOn
<1>4. sem["user"] \in Semaphores(Threads) /\ sem["user"].suspended = <<>>
  BY <1>1 DEF SchedIInv, SchedTypeOK, WaitersListed, Threads
<1>5. rest'["user"] = rest["user"] - 1
  BY <1>2, <1>3 DEF Threads
<1>6. state'["user"] = IF rest["user"] = 1 THEN "ready" ELSE "busy"
  BY <1>1, <1>2, <1>4 DEF AfterTick, Elapsed, Resumed, Threads
<1>7. /\ Tokens' \in Nat /\ Load' \in Nat /\ Tokens' >= Tokens
      /\ timer'["user"] \in Nat /\ timer'["user"] < Period
      /\ \/ Tokens' >= PASS_COUNT
         \/ Load' + timer'["user"] = Load + timer["user"] + 1
  <2>1. CASE ~Due("user")
    <3>1. Tokens' = Tokens /\ timer'["user"] = timer["user"] + 1 /\ timer["user"] # SEND_TIME
      BY <1>2, <2>1 DEF Tokens, Threads, Due
    <3>2. Load' = Load
      BY <3>1 DEF Load
    <3> QED BY <3>1, <3>2, DoorTyped
  <2>2. CASE Due("user")
    <3>1. timer["user"] + 1 = Period /\ timer'["user"] = 0 /\ sem'["user"] = Released(sem["user"])
      BY <1>2, <2>2, DoorTyped DEF Due, Threads
    <3>2. CASE Full(sem["user"])
      <4>1. Tokens' = Tokens /\ Tokens = RT_SEM_VALUE_MAX
        BY <1>4, <3>1, <3>2 DEF Released, Full, Tokens
      <4>2. Load' = Load
        BY <4>1 DEF Load
      <4> QED BY <3>1, <4>1, <4>2, DoorTyped DEF DoorRunIsLong
    <3>3. CASE ~Full(sem["user"])
      <4>1. sem["user"] = [value |-> sem["user"].value, suspended |-> sem["user"].suspended]
        BY <1>4 DEF Semaphores
      <4>2. Tokens' = Tokens + 1
        BY <1>4, <3>1, <3>3, <4>1 DEF Released, Tokens
      <4>3. Load' = Load + Period
        BY <4>2, DoorTyped, IntervalsNext DEF Load, Intervals, Period
      <4> QED BY <3>1, <4>2, <4>3, DoorTyped
    <3> QED BY <3>2, <3>3
  <2> QED BY <2>1, <2>2
<1>8. CASE rest["user"] # 1
  <2>1. \/ Tokens' + M1' >= PASS_COUNT
        \/ Load' + timer'["user"] + rest'["user"] >= Intervals(PASS_COUNT)
    BY <1>2, <1>3, <1>5, <1>7, DoorTyped
  <2>2. state'["user"] = "busy" /\ rest'["user"] > 0
    BY <1>3, <1>5, <1>6, <1>8, DoorTyped
  <2> QED BY <1>2, <1>3, <2>1, <2>2 DEF DoorKeepsOn
<1>9. CASE rest["user"] = 1
  <2>1. Tokens' + M1' >= PASS_COUNT
    <3>1. CASE Tokens' >= PASS_COUNT \/ Tokens + M1 >= PASS_COUNT
      BY <1>2, <1>7, <3>1, DoorTyped
    <3>2. CASE /\ Load' + timer'["user"] = Load + timer["user"] + 1
               /\ Load + timer["user"] + rest["user"] >= Intervals(PASS_COUNT)
      <4>1. Intervals(PASS_COUNT) < Load' + Period
        BY <1>7, <1>9, <3>2, DoorTyped
      <4>2. Load' + Period = Intervals(Tokens' + 1)
        BY <1>7, IntervalsNext DEF Load, Intervals, Period
      <4>3. PASS_COUNT < Tokens' + 1
        BY <1>7, <4>1, <4>2, DoorTyped, IntervalsOrdered
      <4> QED BY <1>2, <1>7, <4>3, DoorTyped
    <3> QED BY <1>3, <1>7, <3>1, <3>2
  <2>2. state'["user"] = "ready"
    BY <1>6, <1>9
  <2> QED BY <1>2, <1>3, <2>1, <2>2 DEF DoorKeepsOn
<1> QED BY <1>8, <1>9

LEMMA DoorStep ==
    DoorRunIsLong /\ SchedIInv /\ DoorKeepsOn /\ [SchedNext]_schedVars => DoorKeepsOn'
<1> SUFFICES ASSUME DoorRunIsLong, SchedIInv, DoorKeepsOn, [SchedNext]_schedVars
             PROVE  DoorKeepsOn'
  OBVIOUS
<1>1. SchedIInv'
  BY SchedStep
<1>2. \A t \in Threads \ {"user"} : ~Runs(t)
  BY DoorStarves DEF LowerThreadsStarve
<1>3. CASE ThreadStep
  <2>1. Take("user") \/ Suspend("user") \/ UserMove
    BY <1>2, <1>3 DEF ThreadStep, Take, Suspend, SensorRead, Upload, Nap, Uploaded, Threads
  <2> QED BY <2>1, DoorWorks
<1>4. CASE Tick
  BY <1>1, <1>4, DoorTicks
<1>5. CASE Hear \/ UNCHANGED schedVars
  <2>1. UNCHANGED <<timer, sem, state, rest, seen, M1>>
    BY <1>5 DEF Hear, schedVars, reportVars
  <2> QED BY <2>1 DEF DoorKeepsOn, Load, Tokens
<1> QED BY <1>3, <1>4, <1>5 DEF SchedNext

(* One run of the door motor that is as long as the intervals to the next one is
   the last thing the lower threads see of the processor: from then on the alarm
   thread always has the tokens for the next run, and sensor_read_thread, which
   alone could take the request back, never runs again.  For the code's numbers,
   2 * 1001 <= 2560 (main.c:100-143, 295-303; Stepper.c:21-59). *)
THEOREM DoorStarvesThreads ==
    ASSUME DoorRunIsLong
    PROVE  SchedSpec => /\ [][UserMove /\ DoorRuns(seen.pass) => DoorKeepsOn']_schedVars
                        /\ [](DoorKeepsOn => []LowerThreadsStarve)
<1>1. SchedIInv /\ [SchedNext]_schedVars => [UserMove /\ DoorRuns(seen.pass) => DoorKeepsOn']_schedVars
  BY DoorBegins
<1>2. SchedIInv /\ DoorKeepsOn /\ [SchedNext]_schedVars => DoorKeepsOn'
  BY DoorStep
<1> QED BY <1>1, <1>2, SchedInvariant, DoorStarves, PTL DEF SchedSpec
===============================================================================
