----------------------------- MODULE DetectorNode -----------------------------
(***************************************************************************)
(* The detector node: its start-up (NodeBoot) and the three threads that   *)
(* share the measured values without a lock.  sensor_read_thread writes    *)
(* them one after the other and sleeps in between; sensor_send_thread and  *)
(* oled_display_thread have lower priorities and read them meanwhile.      *)
(*                                                                         *)
(* A value is abstracted to its age: how many rounds have begun since the  *)
(* one that measured it.  A turn of a thread, from its token to the end of *)
(* its loop, takes less than a tick of 100 ms (35 ms of sleep, 30 bytes at *)
(* 9600 baud, 15 characters of the display), so at most one tick falls     *)
(* into it.                                                                *)
(***************************************************************************)
EXTENDS NodeBoot

CONSTANT MAX_AGE                    \* bound: older is as old

ASSUME DetectorAssumption ==
    /\ Names = {"sensor_read", "sensor_send", "oled_update"}
    /\ Timers = {"sensor_read", "sensor_send"}
    /\ MAX_AGE \in Nat \ {0, 1}

(* Threads go by the name of the semaphore each waits for. *)
Reader == "sensor_read"
Consumers == {"sensor_send", "oled_update"}
Priority == [sensor_read |-> 8, sensor_send |-> 9, oled_update |-> 10]   \* lowest first

Gases == <<"MQ7_PPM", "MQ2_PPM", "FR">>         \* in the order they are written
Gas == {"MQ7_PPM", "MQ2_PPM", "FR"}
Ages == 0..MAX_AGE

VARIABLES
    state,              \* where each thread is
    step,               \* what the reader measures: 1 is the DHT11, then Gases
    age,                \* of each value, "dht" for wendu and shidu
    unread,             \* values a turn of each consumer has still to read
    span,               \* the ages of those it has read
    ticked              \* threads whose turn has seen a tick

detectorVars == <<bootVars, state, step, age, unread, span, ticked>>

States == {"ready", "wait", "go", "sleep", "awake"}

DetectorInit ==
    /\ BootInit
    /\ state = [t \in Names |-> "ready"]
    /\ step = 0
    /\ age = [q \in Gas \union {"dht"} |-> 0]
    /\ unread = [t \in Consumers |-> Gas]
    /\ span = [t \in Consumers |-> {}]
    /\ ticked = {}

(* The kernel runs the runnable thread of highest priority. *)
Runnable(t) == state[t] \in {"ready", "go", "awake"}

Runs(t) == Up /\ Runnable(t) /\ \A u \in Names : Runnable(u) => Priority[t] <= Priority[u]

Boot == MakeSemaphore /\ UNCHANGED <<state, step, age, unread, span, ticked>>

Take(t) ==
    /\ Runs(t) /\ state[t] = "ready"
    /\ \/ TakeSem(t) /\ state' = [state EXCEPT ![t] = "go"]
       \/ WaitForSem(t) /\ state' = [state EXCEPT ![t] = "wait"]
    /\ ticked' = ticked \ {t}
    /\ UNCHANGED <<step, age, unread, span>>

(* Delay_ms gives the processor away until the delay ends. *)
Wake ==
    /\ state[Reader] = "sleep" /\ ~halted
    /\ state' = [state EXCEPT ![Reader] = "awake"]
    /\ UNCHANGED <<bootVars, step, age, unread, span, ticked>>

-------------------------------------------------------------------------------
(* sensor_read_thread *)

Older(a) == IF a = MAX_AGE THEN a ELSE a + 1

(* AD_GetValue, then DHT11_Rst up to its delay. *)
BeginRound ==
    /\ Runs(Reader) /\ state[Reader] = "go"
    /\ step' = 1
    /\ age' = [q \in DOMAIN age |-> Older(age[q])]
    /\ span' = [t \in Consumers |-> {Older(a) : a \in span[t]}]
    /\ state' = [state EXCEPT ![Reader] = "sleep"]
    /\ UNCHANGED <<bootVars, unread, ticked>>

(* DHT11_Read_Data after the delay, whose result nobody looks at: without an
   answer, or with a wrong checksum, wendu and shidu stay as they are.  Then the
   first delay of MQ7_GetData_PPM.  Mutant: after a failure only FR is read. *)
ReadDht_SkipsGases ==
    /\ Runs(Reader) /\ state[Reader] = "awake" /\ step = 1
    /\ \/ age' = [age EXCEPT !["dht"] = 0] /\ step' = 2
       \/ UNCHANGED age /\ step' = 4
    /\ state' = [state EXCEPT ![Reader] = "sleep"]
    /\ UNCHANGED <<bootVars, unread, span, ticked>>

ReadDht ==
    /\ Runs(Reader) /\ state[Reader] = "awake" /\ step = 1
    /\ age' \in {age, [age EXCEPT !["dht"] = 0]}
    /\ step' = 2
    /\ state' = [state EXCEPT ![Reader] = "sleep"]
    /\ UNCHANGED <<bootVars, unread, span, ticked>>

(* MQ7_GetData_PPM and MQ2_GetData_PPM, whose five delays are one here.
   Mutants: one channel too many; the display is told of every value. *)
ReadGas_OneMore ==
    /\ Runs(Reader) /\ state[Reader] = "awake" /\ step \in {2, 3, 4}
    /\ age' = [age EXCEPT ![Gases[step - 1]] = 0]
    /\ step' = step + 1
    /\ state' = [state EXCEPT ![Reader] = "sleep"]
    /\ UNCHANGED <<bootVars, unread, span, ticked>>

ReadGas_Tells ==
    /\ Runs(Reader) /\ state[Reader] = "awake" /\ step \in {2, 3}
    /\ age' = [age EXCEPT ![Gases[step - 1]] = 0]
    /\ step' = step + 1
    /\ ReleaseSem("oled_update")
    /\ state' = [state EXCEPT ![Reader] = "sleep"]
    /\ UNCHANGED <<unread, span, ticked>>

ReadGas ==
    /\ Runs(Reader) /\ state[Reader] = "awake" /\ step \in {2, 3}
    /\ age' = [age EXCEPT ![Gases[step - 1]] = 0]
    /\ step' = step + 1
    /\ state' = [state EXCEPT ![Reader] = "sleep"]
    /\ UNCHANGED <<bootVars, unread, span, ticked>>

(* Threads t of the given set that a release resumes. *)
Woken(S) == [t \in Names |-> IF t \in S /\ t \in Resumed(sem[t]) THEN "go" ELSE state[t]]

(* Fire_GetData, then the display is told.  Mutant: it is not. *)
EndRound_Silent ==
    /\ Runs(Reader) /\ state[Reader] = "awake" /\ step = 4
    /\ age' = [age EXCEPT !["FR"] = 0]
    /\ step' = 0
    /\ state' = [state EXCEPT ![Reader] = "ready"]
    /\ UNCHANGED <<bootVars, unread, span, ticked>>

EndRound ==
    /\ Runs(Reader) /\ state[Reader] = "awake" /\ step = 4
    /\ age' = [age EXCEPT !["FR"] = 0]
    /\ step' = 0
    /\ ReleaseSem("oled_update")
    /\ state' = [Woken({"oled_update"}) EXCEPT ![Reader] = "ready"]
    /\ UNCHANGED <<unread, span, ticked>>

-------------------------------------------------------------------------------
(* sensor_send_thread and oled_display_thread: sprintf evaluates its arguments
   in any order, the display shows one value after the other. *)
ReadValue(t, q) ==
    /\ Runs(t) /\ state[t] = "go" /\ q \in unread[t]
    /\ t = "oled_update" => \A i \in DOMAIN Gases : Gases[i] \in unread[t] =>
                              \E j \in 1..i : Gases[j] = q
    /\ unread' = [unread EXCEPT ![t] = @ \ {q}]
    /\ span' = [span EXCEPT ![t] = @ \union {age[q]}]
    /\ UNCHANGED <<bootVars, state, step, age, ticked>>

(* Lora_SendData, and the end of the display's loop. *)
Finish(t) ==
    /\ Runs(t) /\ state[t] = "go" /\ unread[t] = {}
    /\ unread' = [unread EXCEPT ![t] = Gas]
    /\ span' = [span EXCEPT ![t] = {}]
    /\ state' = [state EXCEPT ![t] = "ready"]
    /\ UNCHANGED <<bootVars, step, age, ticked>>

-------------------------------------------------------------------------------
(* TIM4_IRQHandler; at most one tick falls into a turn. *)
Turning == {t \in Names : Up /\ state[t] # "wait"}

Tick ==
    /\ Turning \intersect ticked = {}
    /\ TimerInterrupt
    /\ state' = Woken(Due)
    /\ ticked' = Turning
    /\ UNCHANGED <<step, age, unread, span>>

ThreadStep ==
    \/ \E t \in Names : Take(t)
    \/ BeginRound \/ ReadDht \/ ReadGas \/ EndRound
    \/ \E t \in Consumers : Finish(t) \/ \E q \in Gas : ReadValue(t, q)

DetectorNext == Boot \/ ThreadStep \/ Wake \/ Tick

DetectorSpec == DetectorInit /\ [][DetectorNext]_detectorVars

(* Main gets to its semaphores, the processor works, delays end, time passes. *)
FairDetectorSpec ==
    /\ DetectorSpec
    /\ WF_detectorVars(Boot) /\ WF_detectorVars(ThreadStep)
    /\ WF_detectorVars(Wake) /\ WF_detectorVars(Tick)

-------------------------------------------------------------------------------
(* Properties *)

DetectorTypeOK ==
    /\ prep \in Nat /\ made \in 0..Len(SemOrder) /\ halted \in BOOLEAN
    /\ timer \in [Timers -> Nat] /\ sem \in [Names -> Semaphores(Names)]
    /\ state \in [Names -> States]
    /\ step \in 0..4
    /\ age \in [Gas \union {"dht"} -> Ages]
    /\ unread \in [Consumers -> SUBSET Gas] /\ span \in [Consumers -> SUBSET Ages]
    /\ ticked \subseteq Names

(* The three channels of a frame, or of a display, can come from two rounds, as
   the reader sleeps between them, but never from more, and the rounds follow
   each other (main.c:91-95, 111-115, 127). *)
SnapshotSpansTwoRounds ==
    \A t \in Consumers : \A a, b \in span[t] : a <= b + 1

(* Every thread works its tokens off: none has two tokens waiting, so none of
   its turns follows another without a pause (main.c:98, 148-157). *)
TokensWorkedOff == \A s \in Names : sem[s].value <= 1

(* Mixed snapshots pass: again and again a frame is sent and a display
   completed all of whose channels are of the latest round. *)
Whole(t) == state[t] = "go" /\ unread[t] = {} /\ span[t] = {0}
WholeAgain == \A t \in Consumers : []<>Whole(t)
===============================================================================
