----------------------------- MODULE GatewaySched -----------------------------
(***************************************************************************)
(* Who runs when on the gateway: the timer interrupt, three semaphores and *)
(* the three threads they feed, under fixed priorities.                    *)
(*                                                                         *)
(* Time is counted in ticks of TIM4.  Code that neither sleeps nor waits   *)
(* takes no time.  Two things do: the stepper motors, which busy-wait and  *)
(* keep the processor from every thread below, and the delays of the       *)
(* wireless driver, which sleep.  Instances scale all durations alike.     *)
(*                                                                         *)
(* What is heard over LoRa reaches the alarm thread (highest priority)     *)
(* only through the sensor thread (lowest priority).                       *)
(***************************************************************************)
EXTENDS RtSemaphore, ReportMove

CONSTANTS
    SEND_TIME,          \* the three intervals, equal in the code (1000)
    MOTOR_TIME,         \* one motor run: 12800 steps of 200 us
    Uploads,            \* the delays one turn of the wireless thread may take
    Hearable,           \* the values the two nodes may send
    ALARM_DEADLINE      \* bound stated by AlarmInTime

ASSUME SchedAssumption ==
    /\ SEND_TIME \in Nat \ {0} /\ MOTOR_TIME \in Nat \ {0}
    /\ Uploads \subseteq Seq(Nat \ {0}) /\ Uploads # {}
    /\ Hearable \subseteq [danger : BOOLEAN, gas : BOOLEAN, pass : BOOLEAN]
    /\ ALARM_DEADLINE \in Nat

Threads == {"user", "wireless", "sensor"}
Priority == [user |-> 10, wireless |-> 11, sensor |-> 12]      \* lowest first

VARIABLES
    timer,              \* user_move_timer, wireless_send_timer, sensor_read_timer
    sem,                \* the semaphore that feeds each thread
    state,              \* where each thread is
    rest,               \* ticks a busy or sleeping thread has left
    naps,               \* delays the wireless thread has ahead of it
    heard,              \* danger, gas and pass as in str_m and str_n
    seen,               \* the same in the globals sensor_read_thread fills
    ignored             \* history: ticks danger has been heard and the buzzer off

schedVars == <<timer, sem, state, rest, naps, heard, seen, ignored, reportVars>>

(* "ready": at the head of the loop; "wait": suspended in rt_sem_take; "go": with
   a token; "busy": in a motor run; "sleep": in a delay; "awake": after one. *)
States == {"ready", "wait", "go", "busy", "sleep", "awake"}
Calm == [danger |-> FALSE, gas |-> FALSE, pass |-> FALSE]
Values == Hearable \union {Calm}

SchedInit ==
    /\ timer = [t \in Threads |-> 0]
    /\ sem = [t \in Threads |-> NewSem(0)]
    /\ state = [t \in Threads |-> "ready"]
    /\ rest = [t \in Threads |-> 0]
    /\ naps = <<>>
    /\ heard = Calm /\ seen = Calm
    /\ ignored = 0
    /\ ReportInit

-------------------------------------------------------------------------------
(* The kernel runs the runnable thread of highest priority. *)
Runnable(t) == state[t] \in {"ready", "go", "awake", "busy"}

Runs(t) == Runnable(t) /\ \A u \in Threads : Runnable(u) => Priority[t] <= Priority[u]

(* rt_sem_take with a token there, and without. *)
Take(t) ==
    /\ Runs(t) /\ state[t] = "ready" /\ CanTake(sem[t])
    /\ sem' = [sem EXCEPT ![t] = Taken(@)]
    /\ state' = [state EXCEPT ![t] = "go"]
    /\ UNCHANGED <<timer, rest, naps, heard, seen, ignored, reportVars>>

Suspend(t) ==
    /\ Runs(t) /\ state[t] = "ready" /\ ~CanTake(sem[t])
    /\ sem' = [sem EXCEPT ![t] = Suspended(@, t)]
    /\ state' = [state EXCEPT ![t] = "wait"]
    /\ UNCHANGED <<timer, rest, naps, heard, seen, ignored, reportVars>>

(* user_move_thread: one evaluation; each motor it drives is a busy wait. *)
MotorTime ==
    (IF ExhaustRuns(seen.gas) THEN MOTOR_TIME ELSE 0)
      + (IF DoorRuns(seen.pass) THEN MOTOR_TIME ELSE 0)

UserMove ==
    /\ Runs("user") /\ state["user"] = "go"
    /\ Evaluate(seen.danger, seen.gas, seen.pass)
    /\ rest' = [rest EXCEPT !["user"] = MotorTime]
    /\ state' = [state EXCEPT !["user"] = IF MotorTime > 0 THEN "busy" ELSE "ready"]
    /\ ignored' = IF beep' THEN 0 ELSE ignored
    /\ UNCHANGED <<timer, sem, naps, heard, seen>>

(* sensor_read_thread: the strings are parsed into the globals. *)
SensorRead ==
    /\ Runs("sensor") /\ state["sensor"] = "go"
    /\ seen' = heard
    /\ state' = [state EXCEPT !["sensor"] = "ready"]
    /\ UNCHANGED <<timer, sem, rest, naps, heard, ignored, reportVars>>

(* wireless_send_thread: the delays of this turn, none when MQTT is down. *)
Upload ==
    /\ Runs("wireless") /\ state["wireless"] = "go"
    /\ naps' \in Uploads
    /\ state' = [state EXCEPT !["wireless"] = "awake"]
    /\ UNCHANGED <<timer, sem, rest, heard, seen, ignored, reportVars>>

(* wireless_delay_ms gives the processor away; after the last one the loop
   starts over. *)
Nap ==
    /\ Runs("wireless") /\ state["wireless"] = "awake" /\ naps # <<>>
    /\ rest' = [rest EXCEPT !["wireless"] = Head(naps)]
    /\ naps' = Tail(naps)
    /\ state' = [state EXCEPT !["wireless"] = "sleep"]
    /\ UNCHANGED <<timer, sem, heard, seen, ignored, reportVars>>

Uploaded ==
    /\ Runs("wireless") /\ state["wireless"] = "awake" /\ naps = <<>>
    /\ state' = [state EXCEPT !["wireless"] = "ready"]
    /\ UNCHANGED <<timer, sem, rest, naps, heard, seen, ignored, reportVars>>

-------------------------------------------------------------------------------
(* TIM4_IRQHandler, one tick of time.  if (timer++ == SEND_TIME) *)
Due(t) == timer[t] = SEND_TIME

Elapsed(t) == state[t] \in {"busy", "sleep"} /\ rest[t] = 1

AfterTick(t) ==
    IF Due(t) /\ t \in Resumed(sem[t]) THEN "go"
    ELSE IF Elapsed(t) THEN (IF state[t] = "busy" THEN "ready" ELSE "awake")
    ELSE state[t]

Tick ==
    /\ \A t \in Threads : Runs(t) => state[t] = "busy"
    /\ timer' = [t \in Threads |-> IF Due(t) THEN 0 ELSE timer[t] + 1]
    /\ sem' = [t \in Threads |-> IF Due(t) THEN Released(sem[t]) ELSE sem[t]]
    /\ rest' = [t \in Threads |-> IF rest[t] > 0 THEN rest[t] - 1 ELSE 0]
    /\ state' = [t \in Threads |-> AfterTick(t)]
    /\ ignored' = IF heard.danger /\ ~beep /\ ignored <= ALARM_DEADLINE
                    THEN ignored + 1 ELSE ignored
    /\ UNCHANGED <<naps, heard, seen, reportVars>>

(* The detector and the access node send other values (external). *)
Hear ==
    /\ heard' \in Values \ {heard}
    /\ ignored' = IF heard'.danger THEN ignored ELSE 0
    /\ UNCHANGED <<timer, sem, state, rest, naps, seen, reportVars>>

ThreadStep ==
    \/ \E t \in Threads : Take(t) \/ Suspend(t)
    \/ UserMove \/ SensorRead \/ Upload \/ Nap \/ Uploaded

SchedNext == ThreadStep \/ Tick \/ Hear

SchedSpec == SchedInit /\ [][SchedNext]_schedVars

(* The processor works and time passes; nothing is assumed of the radio. *)
FairSchedSpec == SchedSpec /\ WF_schedVars(ThreadStep) /\ WF_schedVars(Tick)

-------------------------------------------------------------------------------
(* Properties *)

SchedTypeOK ==
    /\ timer \in [Threads -> 0..SEND_TIME]
    /\ sem \in [Threads -> Semaphores(Threads)]
    /\ state \in [Threads -> States]
    /\ rest \in [Threads -> Nat]
    /\ naps \in Seq(Nat)
    /\ heard \in Values /\ seen \in Values
    /\ ignored \in 0..(ALARM_DEADLINE + 1)
    /\ ReportTypeOK

(* A thread that waits is the one waiter of its semaphore, and a token never lies
   there beside it: the interrupt's rt_sem_release wakes it or the next
   rt_sem_take finds the token (main.c:105, 123, 140, 243-253). *)
NoLostWakeup ==
    \A t \in Threads :
        state[t] = "wait" => sem[t].value = 0 /\ sem[t].suspended = <<t>>

(* Whatever is heard for good is acted on in the end: neither uploads that
   never end in time nor the exhaust motor's busy waits keep the lowest
   thread from the processor for ever (main.c:100-116, 286-294).  It fails as
   soon as the door may open, see PROJECT.json. *)
SensorFollows == <>[][FALSE]_heard => <>[](seen = heard)

(* The alarm thread keeps up with its tokens: never more of them wait than
   intervals fit into one motor run, so one run's tokens are worked off before
   the next run begins, although a run is longer than two intervals
   (main.c:136-143, 250-254, 286-294). *)
UserKeepsUp == sem["user"].value * (SEND_TIME + 1) <= MOTOR_TIME

(* A danger that stays in the received strings sounds the buzzer within
   ALARM_DEADLINE ticks, through sensor thread, alarm thread, debounce counter
   and a motor run that may come between (main.c:100-143, 265-285). *)
AlarmInTime == ignored <= ALARM_DEADLINE

===============================================================================
