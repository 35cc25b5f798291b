------------------------------ MODULE ReportMove ------------------------------
(***************************************************************************)
(* Report_Move, what the gateway does about the values it has: buzzer and  *)
(* LED, exhaust motor, door motor.                                         *)
(*                                                                         *)
(* The comparisons with the limits are data: an evaluation is given their  *)
(* three results, danger (too hot, too humid, or a person without a pass), *)
(* gas (CO, smoke or fire above its limit) and pass (a pass was granted).  *)
(***************************************************************************)
EXTENDS Naturals

CONSTANTS
    ALARM_COUNT,        \* evaluations before buzzer or exhaust act (5)
    PASS_COUNT          \* evaluations before the door opens (2)

ASSUME ReportAssumption ==
    ALARM_COUNT \in Nat \ {0} /\ PASS_COUNT \in Nat \ {0}

VARIABLES
    D0, D1, M0, M1,     \* static counters of Report_Move
    beep,               \* BEEP_status, and with it the LED
    dangerRun,          \* history: evaluations with danger in a row, capped
    calmRun             \* history: evaluations without danger in a row, capped

reportVars == <<D0, D1, M0, M1, beep, dangerRun, calmRun>>

ReportInit ==
    /\ D0 = 0 /\ D1 = 0 /\ M0 = 0 /\ M1 = 0
    /\ beep = FALSE
    /\ dangerRun = 0 /\ calmRun = 0

(* A counter that is incremented when on holds and acts at its limit. *)

(* Mutant: compared before it is incremented, as the timers of TIM4 are. *)
Fires_PostIncrement(counter, limit, on) == on /\ counter = limit

Fires(counter, limit, on) == on /\ counter + 1 = limit

Counted(counter, limit, on) ==
    IF ~on THEN counter ELSE IF Fires(counter, limit, on) THEN 0 ELSE counter + 1

Longer(run) == IF run < ALARM_COUNT THEN run + 1 ELSE ALARM_COUNT

(* Mutant: D0 is not reset when the buzzer goes on. *)
Buzz_NoReset(danger) ==
    /\ D0' = IF danger /\ D0 < 2 * ALARM_COUNT THEN D0 + 1 ELSE D0
    /\ D1' = Counted(D1, ALARM_COUNT, ~danger)
    /\ beep' = IF Fires(D0, ALARM_COUNT, danger) THEN TRUE
               ELSE IF Fires(D1, ALARM_COUNT, ~danger) THEN FALSE ELSE beep

Buzz(danger) ==
    /\ D0' = Counted(D0, ALARM_COUNT, danger)
    /\ D1' = Counted(D1, ALARM_COUNT, ~danger)
    /\ beep' = IF Fires(D0, ALARM_COUNT, danger) THEN TRUE
               ELSE IF Fires(D1, ALARM_COUNT, ~danger) THEN FALSE ELSE beep

(* ExhaustRuns and DoorRuns say, before a call of Report_Move, whether it will
   drive a motor. *)

(* Mutant: the exhaust motor runs at every value above its limit. *)
ExhaustRuns_Level(gas) == gas

ExhaustRuns(gas) == Fires(M0, ALARM_COUNT, gas)
DoorRuns(pass) == Fires(M1, PASS_COUNT, pass)

(* One call of Report_Move. *)
Evaluate(danger, gas, pass) ==
    /\ Buzz(danger)
    /\ M0' = Counted(M0, ALARM_COUNT, gas)
    /\ M1' = Counted(M1, PASS_COUNT, pass)
    /\ dangerRun' = IF danger THEN Longer(dangerRun) ELSE 0
    /\ calmRun' = IF danger THEN 0 ELSE Longer(calmRun)

ReportNext == \E danger, gas, pass \in BOOLEAN : Evaluate(danger, gas, pass)

ReportSpec == ReportInit /\ [][ReportNext]_reportVars

-------------------------------------------------------------------------------
ReportTypeOK ==
    /\ D0 \in 0..(ALARM_COUNT - 1) /\ D1 \in 0..(ALARM_COUNT - 1)
    /\ M0 \in 0..(ALARM_COUNT - 1) /\ M1 \in 0..(PASS_COUNT - 1)
    /\ beep \in BOOLEAN
    /\ dangerRun \in 0..ALARM_COUNT /\ calmRun \in 0..ALARM_COUNT

(* The two debounce counters are reset only when they act, never when the other
   one counts, so each may start a run at any value.  Still, ALARM_COUNT
   dangerous evaluations in a row leave the buzzer on and ALARM_COUNT calm ones
   leave it off, whatever came before (main.c:265-285). *)
BuzzerFollows ==
    /\ dangerRun = ALARM_COUNT => beep
    /\ calmRun = ALARM_COUNT => ~beep
===============================================================================
