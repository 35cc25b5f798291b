--------------------------- MODULE DetectorNodeProofs ---------------------------
(***************************************************************************)
(* The detector node for all intervals whose shortest covers the           *)
(* preparation and whose reading one is two ticks or more.                 *)
(***************************************************************************)
EXTENDS DetectorNode, NodeBootProofs, RtSemaphoreProofs

RoundsAreApart == Interval[Reader] >= 2

(* The node under its scheduler does nothing that NodeBoot does not. *)
LEMMA DetectorStepBoots == [DetectorNext]_detectorVars => [BootNext]_bootVars
<1> SUFFICES ASSUME [DetectorNext]_detectorVars PROVE [BootNext]_bootVars
  OBVIOUS
<1>1. CASE Boot
  BY <1>1 DEF Boot, BootNext
<1>2. ASSUME NEW t \in Names, Take(t) PROVE BootNext
  BY <1>2 DEF Take, BootNext
<1>3. CASE BeginRound \/ ReadDht \/ ReadGas
  BY <1>3 DEF BeginRound, ReadDht, ReadGas
<1>4. CASE EndRound
  <2>1. "oled_update" \in Names
    BY DetectorAssumption
  <2> QED BY <1>4, <2>1 DEF EndRound, BootNext
<1>5. ASSUME NEW t \in Consumers, Finish(t) \/ \E q \in Gas : ReadValue(t, q)
      PROVE  UNCHANGED bootVars
  BY <1>5 DEF Finish, ReadValue
<1>6. CASE Wake
  BY <1>6 DEF Wake
<1>7. CASE Tick
  BY <1>7 DEF Tick, BootNext
<1>8. CASE UNCHANGED detectorVars
  BY <1>8 DEF detectorVars
<1> QED BY <1>1, <1>2, <1>3, <1>4, <1>5, <1>6, <1>7, <1>8 DEF DetectorNext, ThreadStep

(* The detector node under its scheduler is one way NodeBoot may go, so what
   BootSafe says holds of it (main.c:45-82, 84-160). *)
THEOREM DetectorImplementsBoot == DetectorSpec => BootSpec
<1>1. DetectorInit => BootInit
  BY DEF DetectorInit
<1> QED BY <1>1, DetectorStepBoots, PTL DEF DetectorSpec, BootSpec

-------------------------------------------------------------------------------
DetectorTypes ==
    /\ sem \in [Names -> Semaphores(Names)]
    /\ state \in [Names -> States] /\ step \in 0..4
    /\ age \in [Gas \union {"dht"} -> Ages]
    /\ unread \in [Consumers -> SUBSET Gas] /\ span \in [Consumers -> SUBSET Ages]
    /\ ticked \subseteq Names

(* The list of a semaphore holds its thread while it waits, and no token with it. *)
Queues ==
    \A t \in Names :
        /\ sem[t].suspended = IF state[t] = "wait" THEN <<t>> ELSE <<>>
        /\ state[t] = "wait" => sem[t].value = 0
        /\ sem[t].value \in {0, 1}

NotYet ==
    ~Up => ticked = {} /\ \A t \in Names : state[t] = "ready" /\ sem[t].value = 0

(* A round of the reader begins when its timer has just been reset, and at most
   one tick falls into it; the token of a turn that is still to come was left by
   the tick that fell into the turn before. *)
Turns ==
    /\ \A t \in Consumers : /\ state[t] \in {"ready", "wait", "go"}
                            /\ state[t] # "go" => span[t] = {}
    /\ step = 0 <=> state[Reader] \in {"ready", "wait", "go"}
    /\ state[Reader] \in {"go", "sleep", "awake"} =>
         /\ timer[Reader] = IF Reader \in ticked THEN 1 ELSE 0
         /\ sem[Reader].value = 0
    /\ sem[Reader].value = 1 => timer[Reader] = 0
    /\ \A t \in Timers : sem[t].value = 1 => t \in ticked

(* Between rounds all channels are of the latest, within one of the latest two. *)
GasAges ==
    /\ \A q \in Gas : age[q] \in {0, 1}
    /\ step \in {0, 3, 4} => age["MQ7_PPM"] = 0
    /\ step \in {0, 4} => age["MQ2_PPM"] = 0
    /\ step = 0 => age["FR"] = 0

(* A round has just ended: the next is further away than the turn of t lasts. *)
Lately(t) ==
    /\ state[Reader] \in {"ready", "wait"} /\ sem[Reader].value = 0
    /\ timer[Reader] <= IF t \in ticked THEN 2 ELSE 1

(* What t has read of an earlier round it has read in a turn in which a round has
   ended, and a display that has still to begin has been told by such a round. *)
Spans ==
    \A t \in Consumers :
        /\ span[t] \subseteq {0, 1}
        /\ step = 0 /\ 1 \in span[t] => Lately(t)

Told == sem["oled_update"].value = 1 => Lately("oled_update")

DetectorIInv ==
    /\ BootIInv /\ DetectorTypes
    /\ Queues /\ NotYet /\ Turns /\ GasAges /\ Spans /\ Told

-------------------------------------------------------------------------------
LEMMA NodeFacts ==
    /\ Names = {"sensor_read", "sensor_send", "oled_update"}
    /\ Timers = {"sensor_read", "sensor_send"}
    /\ Reader \in Names /\ Reader \in Timers /\ Reader \notin Consumers
    /\ Consumers \subseteq Names /\ "oled_update" \in Consumers
    /\ Interval \in [Timers -> Nat]
    /\ MAX_AGE \in Nat /\ MAX_AGE >= 2 /\ Ages = 0..MAX_AGE
    /\ RT_SEM_VALUE_MAX \in Nat \ {0}
  BY DetectorAssumption, BootAssumption, SemAssumption DEF Reader, Consumers, Ages

LEMMA NewSemaphore ==
    /\ NewSem(0) \in Semaphores(Names)
    /\ NewSem(0).suspended = <<>> /\ NewSem(0).value = 0
  BY SemAssumption DEF NewSem, Semaphores

LEMMA DetectorInitial == PreparationIsShort /\ DetectorInit => DetectorIInv
<1> SUFFICES ASSUME PreparationIsShort, DetectorInit PROVE DetectorIInv
  OBVIOUS
<1>1. /\ BootInit
      /\ state = [t \in Names |-> "ready"] /\ step = 0
      /\ age = [q \in Gas \union {"dht"} |-> 0]
      /\ unread = [t \in Consumers |-> Gas] /\ span = [t \in Consumers |-> {}]
      /\ ticked = {}
  BY DEF DetectorInit
<1>2. BootIInv
  BY <1>1, BootInitial
<1>3. sem = [s \in Names |-> NewSem(0)]
  BY <1>1 DEF BootInit
<1>4. \A t \in Names : /\ sem[t] \in Semaphores(Names)
                       /\ sem[t].suspended = <<>> /\ sem[t].value = 0
  BY <1>3, NewSemaphore
<1>5. DetectorTypes
  <2>1. sem \in [Names -> Semaphores(Names)]
    BY <1>3, NewSemaphore
  <2>2. age \in [Gas \union {"dht"} -> Ages]
    BY <1>1, NodeFacts
  <2> QED BY <1>1, <2>1, <2>2 DEF DetectorTypes, States
<1>6. Queues /\ NotYet
  BY <1>1, <1>4 DEF Queues, NotYet
<1>7. Turns
  BY <1>1, <1>4, NodeFacts DEF Turns
<1>8. GasAges
  BY <1>1 DEF GasAges, Gas
<1>9. Spans
  BY <1>1 DEF Spans
<1>10. Told
  BY <1>4, NodeFacts DEF Told
<1> QED BY <1>2, <1>5, <1>6, <1>7, <1>8, <1>9, <1>10 DEF DetectorIInv

-------------------------------------------------------------------------------
LEMMA StateUpdate ==
    ASSUME DetectorTypes, NEW t \in Names, NEW x \in States, state' = [state EXCEPT ![t] = x]
    PROVE  /\ state' \in [Names -> States] /\ state'[t] = x
           /\ \A u \in Names : u # t => state'[u] = state[u]
  BY DEF DetectorTypes

LEMMA SemUpdate ==
    ASSUME DetectorTypes, NEW t \in Names, NEW s \in Semaphores(Names),
           sem' = [sem EXCEPT ![t] = s]
    PROVE  /\ sem' \in [Names -> Semaphores(Names)] /\ sem'[t] = s
           /\ \A u \in Names : u # t => sem'[u] = sem[u]
  BY DEF DetectorTypes

LEMMA BootStepKeeps ==
    ASSUME DetectorIInv, DetectorNext
    PROVE  BootIInv'
  BY BootStep, DetectorStepBoots DEF DetectorIInv

(* The semaphores change only as far as their waiters do. *)
LEMMA KeepQueues ==
    ASSUME Queues, sem' = sem, \A t \in Names : state'[t] = "wait" <=> state[t] = "wait"
    PROVE  Queues'
<1> SUFFICES ASSUME NEW t \in Names
             PROVE  /\ sem'[t].suspended = IF state'[t] = "wait" THEN <<t>> ELSE <<>>
                    /\ state'[t] = "wait" => sem'[t].value = 0
                    /\ sem'[t].value \in {0, 1}
  BY DEF Queues
<1>1. /\ sem[t].suspended = IF state[t] = "wait" THEN <<t>> ELSE <<>>
      /\ state[t] = "wait" => sem[t].value = 0
      /\ sem[t].value \in {0, 1}
  BY DEF Queues
<1> QED BY <1>1

LEMMA BootKeeps == DetectorIInv /\ Boot => DetectorIInv'
<1> SUFFICES ASSUME DetectorIInv, Boot PROVE DetectorIInv'
  OBVIOUS
<1> USE DEF DetectorIInv
<1>1. /\ state' = state /\ step' = step /\ age' = age /\ unread' = unread
      /\ span' = span /\ ticked' = ticked /\ timer' = timer
      /\ sem' = [sem EXCEPT ![SemOrder[made + 1]] = NewSem(0)]
  BY DEF Boot, MakeSemaphore
<1>2. ~Up /\ made + 1 \in DOMAIN SemOrder
  <2>1. ~Up /\ made \in 0..Len(SemOrder) /\ made # Len(SemOrder)
    BY DEF Boot, MakeSemaphore, BootIInv, Up
  <2>2. SemOrder \in Seq(Names)
    BY BootAssumption
  <2> QED BY <2>1, <2>2
<1>3. SemOrder[made + 1] \in Names
  BY <1>2 DEF Names
<1>4. /\ sem' \in [Names -> Semaphores(Names)]
      /\ \A t \in Names : sem'[t].suspended = <<>> /\ sem'[t].value = 0
  <2>1. \A t \in Names : sem[t].suspended = <<>> /\ sem[t].value = 0
    BY <1>2 DEF NotYet, Queues
  <2> QED BY <1>1, <1>3, <2>1, NewSemaphore, SemUpdate
<1>5. ticked = {} /\ \A t \in Names : state[t] = "ready"
  BY <1>2 DEF NotYet
<1>6. BootIInv'
  BY BootStepKeeps DEF DetectorNext
<1>7. DetectorTypes'
  BY <1>1, <1>4 DEF DetectorTypes
<1>8. Queues' /\ NotYet'
  BY <1>1, <1>4, <1>5 DEF Queues, NotYet
<1>9. Turns'
  <2>1. /\ \A t \in Consumers : /\ state[t] \in {"ready", "wait", "go"}
                                /\ state[t] # "go" => span[t] = {}
        /\ step = 0 <=> state[Reader] \in {"ready", "wait", "go"}
    BY DEF Turns
  <2> QED BY <1>1, <1>4, <1>5, <2>1, NodeFacts DEF Turns
<1>10. GasAges'
  BY <1>1 DEF GasAges
<1>11. Spans'
  <2>1. ASSUME NEW t \in Consumers PROVE span[t] = {}
    BY <1>5, NodeFacts DEF Turns
  <2> QED BY <1>1, <2>1 DEF Spans
<1>12. Told'
  BY <1>4, NodeFacts DEF Told
<1> QED BY <1>6, <1>7, <1>8, <1>9, <1>10, <1>11, <1>12

(* A thread gets the token of its next turn, or waits. *)
LEMMA TakeKeeps ==
    ASSUME DetectorIInv, NEW t \in Names, Take(t)
    PROVE  DetectorIInv'
<1> USE DEF DetectorIInv
<1>1. /\ step' = step /\ age' = age /\ unread' = unread /\ span' = span
      /\ timer' = timer /\ made' = made /\ ticked' = ticked \ {t}
  BY DEF Take, TakeSem, WaitForSem
<1>2. Up /\ state[t] = "ready"
  BY DEF Take, Runs
<1>3. sem[t] \in Semaphores(Names) /\ sem[t].suspended = <<>> /\ sem[t].value \in {0, 1}
  BY <1>2 DEF DetectorTypes, Queues
<1>4. \/ /\ sem[t].value = 1 /\ state'[t] = "go"
         /\ sem'[t].value = 0 /\ sem'[t].suspended = <<>>
      \/ /\ sem[t].value = 0 /\ state'[t] = "wait"
         /\ sem'[t].value = 0 /\ sem'[t].suspended = <<t>>
  <2>1. CASE TakeSem(t) /\ state' = [state EXCEPT ![t] = "go"]
    <3>1. CanTake(sem[t]) /\ sem' = [sem EXCEPT ![t] = Taken(sem[t])]
      BY <2>1 DEF TakeSem
    <3>2. /\ Taken(sem[t]) \in Semaphores(Names) /\ Taken(sem[t]).suspended = <<>>
          /\ Taken(sem[t]).value = sem[t].value - 1
      BY <1>3, <3>1, SemaphoreOps
    <3>3. sem[t].value = 1
      BY <1>3, <3>1 DEF CanTake
    <3>4. sem'[t] = Taken(sem[t])
      BY <3>1, <3>2, SemUpdate
    <3>5. state'[t] = "go"
      BY <2>1, StateUpdate DEF States
    <3> QED BY <3>2, <3>3, <3>4, <3>5
  <2>2. CASE WaitForSem(t) /\ state' = [state EXCEPT ![t] = "wait"]
    <3>1. ~CanTake(sem[t]) /\ sem' = [sem EXCEPT ![t] = Suspended(sem[t], t)]
      BY <2>2 DEF WaitForSem
    <3>2. /\ Suspended(sem[t], t) \in Semaphores(Names)
          /\ Suspended(sem[t], t).suspended = <<t>>
          /\ Suspended(sem[t], t).value = sem[t].value
      BY <1>3, SemaphoreOps
    <3>3. sem[t].value = 0
      BY <1>3, <3>1 DEF CanTake
    <3>4. sem'[t] = Suspended(sem[t], t)
      BY <3>1, <3>2, SemUpdate
    <3>5. state'[t] = "wait"
      BY <2>2, StateUpdate DEF States
    <3> QED BY <3>2, <3>3, <3>4, <3>5
  <2> QED BY <2>1, <2>2 DEF Take
<1>5. /\ sem' \in [Names -> Semaphores(Names)] /\ state' \in [Names -> States]
      /\ \A u \in Names : u # t => sem'[u] = sem[u] /\ state'[u] = state[u]
  <2>1. Suspended(sem[t], t) \in Semaphores(Names)
        /\ (CanTake(sem[t]) => Taken(sem[t]) \in Semaphores(Names))
    BY <1>3, SemaphoreOps
  <2>2. \E s \in Semaphores(Names) : sem' = [sem EXCEPT ![t] = s]
    BY <2>1 DEF Take, TakeSem, WaitForSem
  <2>3. \E x \in States : state' = [state EXCEPT ![t] = x]
    BY DEF Take, States
  <2> QED BY <2>2, <2>3, SemUpdate, StateUpdate
<1>6. BootIInv'
  BY BootStepKeeps DEF DetectorNext, ThreadStep
<1>7. DetectorTypes'
  BY <1>1, <1>5 DEF DetectorTypes
<1>8. Queues'
  <2> SUFFICES ASSUME NEW u \in Names
               PROVE  /\ sem'[u].suspended = IF state'[u] = "wait" THEN <<u>> ELSE <<>>
                      /\ state'[u] = "wait" => sem'[u].value = 0
                      /\ sem'[u].value \in {0, 1}
    BY DEF Queues
  <2>1. CASE u = t
    BY <1>4, <2>1
  <2>2. CASE u # t
    BY <1>5, <2>2 DEF Queues
  <2> QED BY <2>1, <2>2
<1>9. NotYet'
  BY <1>1, <1>2 DEF NotYet, Up
<1>10. Turns'
  <2>1. ASSUME NEW u \in Consumers
        PROVE  /\ state'[u] \in {"ready", "wait", "go"}
               /\ state'[u] # "go" => span'[u] = {}
    <3>1. u \in Names /\ state[u] \in {"ready", "wait", "go"}
          /\ (state[u] # "go" => span[u] = {})
      BY NodeFacts DEF Turns
    <3>2. CASE u = t
      BY <1>1, <1>2, <1>4, <3>1, <3>2
    <3>3. CASE u # t
      BY <1>1, <1>5, <3>1, <3>3
    <3> QED BY <3>2, <3>3
  <2>2. /\ step' = 0 <=> state'[Reader] \in {"ready", "wait", "go"}
        /\ state'[Reader] \in {"go", "sleep", "awake"} =>
             /\ timer'[Reader] = IF Reader \in ticked' THEN 1 ELSE 0
             /\ sem'[Reader].value = 0
        /\ sem'[Reader].value = 1 => timer'[Reader] = 0
    <3>1. /\ step = 0 <=> state[Reader] \in {"ready", "wait", "go"}
          /\ state[Reader] \in {"go", "sleep", "awake"} =>
               /\ timer[Reader] = IF Reader \in ticked THEN 1 ELSE 0
               /\ sem[Reader].value = 0
          /\ sem[Reader].value = 1 => timer[Reader] = 0
          /\ Reader \in Names
      BY NodeFacts DEF Turns
    <3>2. CASE Reader = t
      <4>1. Reader \notin ticked' /\ step = 0
        BY <1>1, <1>2, <3>1, <3>2
      <4> QED BY <1>1, <1>4, <3>1, <3>2, <4>1
    <3>3. CASE Reader # t
      <4>1. Reader \in ticked' <=> Reader \in ticked
        BY <1>1, <3>3
      <4> QED BY <1>1, <1>5, <3>1, <3>3, <4>1
    <3> QED BY <3>2, <3>3
  <2>3. ASSUME NEW u \in Timers, sem'[u].value = 1 PROVE u \in ticked'
    <3>1. u # t /\ u \in Names
      BY <1>4, <2>3, NodeFacts
    <3>2. u \in ticked
      BY <1>5, <2>3, <3>1 DEF Turns
    <3> QED BY <1>1, <3>1, <3>2
  <2> QED BY <2>1, <2>2, <2>3 DEF Turns
<1>11. GasAges'
  BY <1>1 DEF GasAges
<1>12. ASSUME NEW u \in Consumers, u # t, Lately(u) PROVE Lately(u)'
  <2>1. u \in ticked' <=> u \in ticked
    BY <1>1, <1>12
  <2>2. state[Reader] \in {"ready", "wait"} /\ sem[Reader].value = 0 /\ Reader \in Names
    BY <1>12, NodeFacts DEF Lately
  <2>3. state'[Reader] \in {"ready", "wait"} /\ sem'[Reader].value = 0
    <3>1. CASE Reader = t
      BY <1>4, <2>2, <3>1
    <3>2. CASE Reader # t
      BY <1>5, <2>2, <3>2
    <3> QED BY <3>1, <3>2
  <2> QED BY <1>1, <1>12, <2>1, <2>3 DEF Lately
<1>13. Spans'
  <2> SUFFICES ASSUME NEW u \in Consumers
               PROVE  /\ span'[u] \subseteq {0, 1}
                      /\ step' = 0 /\ 1 \in span'[u] => Lately(u)'
    BY DEF Spans
  <2>1. span[u] \subseteq {0, 1} /\ (step = 0 /\ 1 \in span[u] => Lately(u))
    BY DEF Spans
  <2>2. CASE u = t
    <3>1. span[u] = {}
      BY <1>2, <2>2 DEF Turns
    <3> QED BY <1>1, <3>1
  <2>3. CASE u # t
    BY <1>1, <1>12, <2>1, <2>3
  <2> QED BY <2>2, <2>3
<1>14. Told'
  <2>1. CASE t = "oled_update"
    BY <1>4, <2>1 DEF Told
  <2>2. CASE t # "oled_update"
    <3>1. "oled_update" \in Consumers /\ "oled_update" \in Names
      BY NodeFacts
    <3>2. sem'["oled_update"] = sem["oled_update"]
      BY <1>5, <2>2, <3>1
    <3> QED BY <1>12, <2>2, <3>1, <3>2 DEF Told
  <2> QED BY <2>1, <2>2
<1> QED BY <1>6, <1>7, <1>8, <1>9, <1>10, <1>11, <1>13, <1>14

-------------------------------------------------------------------------------
(* sensor_read_thread *)
LEMMA WakeKeeps == DetectorIInv /\ Wake => DetectorIInv'
<1> SUFFICES ASSUME DetectorIInv, Wake PROVE DetectorIInv'
  OBVIOUS
<1> USE DEF DetectorIInv
<1>1. /\ step' = step /\ age' = age /\ unread' = unread /\ span' = span /\ ticked' = ticked
      /\ timer' = timer /\ made' = made /\ sem' = sem
  BY DEF Wake, bootVars
<1>2. /\ state[Reader] = "sleep" /\ state'[Reader] = "awake"
      /\ state' \in [Names -> States]
      /\ \A u \in Names : u # Reader => state'[u] = state[u]
  BY NodeFacts, StateUpdate DEF Wake, States
<1>3. BootIInv'
  BY BootStepKeeps DEF DetectorNext
<1>4. DetectorTypes'
  BY <1>1, <1>2 DEF DetectorTypes
<1>5. Queues'
  <2>1. \A u \in Names : state'[u] = "wait" <=> state[u] = "wait"
    BY <1>2
  <2> QED BY <1>1, <2>1, KeepQueues
<1>6. NotYet'
  <2>1. Up
    BY <1>2, NodeFacts DEF NotYet
  <2> QED BY <1>1, <2>1 DEF NotYet, Up
<1>7. Turns'
  BY <1>1, <1>2, NodeFacts DEF Turns
<1>8. GasAges'
  BY <1>1 DEF GasAges
<1>9. Spans' /\ Told'
  <2>1. ASSUME NEW u \in Consumers PROVE ~Lately(u)
    BY <1>2 DEF Lately
  <2>2. step # 0
    BY <1>2 DEF Turns
  <2> QED BY <1>1, <2>1, <2>2, NodeFacts DEF Spans, Told
<1> QED BY <1>3, <1>4, <1>5, <1>6, <1>7, <1>8, <1>9

LEMMA BeginRoundKeeps == DetectorIInv /\ BeginRound => DetectorIInv'
<1> SUFFICES ASSUME DetectorIInv, BeginRound PROVE DetectorIInv'
  OBVIOUS
<1> USE DEF DetectorIInv
<1>1. /\ step' = 1 /\ unread' = unread /\ ticked' = ticked
      /\ timer' = timer /\ made' = made /\ sem' = sem
      /\ age' = [q \in DOMAIN age |-> Older(age[q])]
      /\ span' = [t \in Consumers |-> {Older(a) : a \in span[t]}]
  BY DEF BeginRound, bootVars
<1>2. /\ Up /\ state[Reader] = "go" /\ state'[Reader] = "sleep"
      /\ state' \in [Names -> States]
      /\ \A u \in Names : u # Reader => state'[u] = state[u]
  BY NodeFacts, StateUpdate DEF BeginRound, Runs, States
<1>3. step = 0 /\ \A u \in Consumers : ~Lately(u)
  BY <1>2 DEF Turns, Lately
<1>4. Older(0) = 1 /\ \A a \in Ages : Older(a) \in Ages
  BY NodeFacts DEF Older
<1>5. BootIInv'
  BY BootStepKeeps DEF DetectorNext, ThreadStep
<1>6. DetectorTypes'
  <2>1. age' \in [Gas \union {"dht"} -> Ages] /\ span' \in [Consumers -> SUBSET Ages]
    BY <1>1, <1>4 DEF DetectorTypes
  <2> QED BY <1>1, <1>2, <2>1 DEF DetectorTypes
<1>7. Queues'
  <2>1. \A u \in Names : state'[u] = "wait" <=> state[u] = "wait"
    BY <1>2
  <2> QED BY <1>1, <2>1, KeepQueues
<1>8. NotYet'
  BY <1>1, <1>2 DEF NotYet, Up
<1>9. Turns'
  <2>1. ASSUME NEW u \in Consumers
        PROVE  /\ state'[u] \in {"ready", "wait", "go"}
               /\ state'[u] # "go" => span'[u] = {}
    <3>1. state'[u] = state[u] /\ span'[u] = {Older(a) : a \in span[u]}
      BY <1>1, <1>2, NodeFacts
    <3> QED BY <3>1 DEF Turns
  <2> QED BY <1>1, <1>2, <2>1, NodeFacts DEF Turns
<1>10. GasAges'
  <2>1. ASSUME NEW q \in Gas PROVE age'[q] = 1
    <3>1. q \in DOMAIN age /\ age[q] = 0
      BY <1>3 DEF GasAges, DetectorTypes, Gas
    <3> QED BY <1>1, <1>4, <3>1
  <2> QED BY <1>1, <2>1 DEF GasAges
<1>11. Spans'
  <2>1. ASSUME NEW u \in Consumers PROVE span'[u] \subseteq {1}
    <3>1. span[u] \subseteq {0}
      BY <1>3 DEF Spans
    <3>2. span'[u] = {Older(a) : a \in span[u]}
      BY <1>1
    <3> QED BY <1>4, <3>1, <3>2
  <2> QED BY <1>1, <2>1 DEF Spans
<1>12. Told'
  BY <1>1, <1>3, NodeFacts DEF Told
<1> QED BY <1>5, <1>6, <1>7, <1>8, <1>9, <1>10, <1>11, <1>12

(* A value is read in the middle of a round. *)
LEMMA ReadKeeps == DetectorIInv /\ (ReadDht \/ ReadGas) => DetectorIInv'
<1> SUFFICES ASSUME DetectorIInv, ReadDht \/ ReadGas PROVE DetectorIInv'
  OBVIOUS
<1> USE DEF DetectorIInv
<1>1. /\ unread' = unread /\ span' = span /\ ticked' = ticked
      /\ timer' = timer /\ made' = made /\ sem' = sem
      /\ step \in {1, 2, 3} /\ step' = step + 1
  BY DEF ReadDht, ReadGas, bootVars
<1>2. /\ Up /\ state[Reader] = "awake" /\ state'[Reader] = "sleep"
      /\ state' \in [Names -> States]
      /\ \A u \in Names : u # Reader => state'[u] = state[u]
  BY NodeFacts, StateUpdate DEF ReadDht, ReadGas, Runs, States
<1>3. \A u \in Consumers : ~Lately(u)
  BY <1>2 DEF Lately
<1>4. /\ age' \in [Gas \union {"dht"} -> Ages]
      /\ \A q \in Gas : age'[q] \in {age[q], 0}
      /\ step = 2 => age'["MQ7_PPM"] = 0
      /\ step = 3 => age'["MQ2_PPM"] = 0
  <2>1. age \in [Gas \union {"dht"} -> Ages] /\ 0 \in Ages /\ "dht" \notin Gas
    BY NodeFacts DEF DetectorTypes, Gas
  <2>2. CASE ReadDht
    <3>1. step = 1
      BY <2>2 DEF ReadDht
    <3> QED BY <2>1, <2>2, <3>1 DEF ReadDht
  <2>3. CASE ReadGas /\ step = 2
    <3>1. age' = [age EXCEPT !["MQ7_PPM"] = 0]
      BY <2>3 DEF ReadGas, Gases
    <3> QED BY <2>1, <2>3, <3>1 DEF Gas
  <2>4. CASE ReadGas /\ step = 3
    <3>1. age' = [age EXCEPT !["MQ2_PPM"] = 0]
      BY <2>4 DEF ReadGas, Gases
    <3> QED BY <2>1, <2>4, <3>1 DEF Gas
  <2>5. ReadGas => step \in {2, 3}
    BY DEF ReadGas
  <2> QED BY <2>2, <2>3, <2>4, <2>5
<1>5. BootIInv'
  BY BootStepKeeps DEF DetectorNext, ThreadStep
<1>6. DetectorTypes'
  BY <1>1, <1>2, <1>4 DEF DetectorTypes
<1>7. Queues'
  <2>1. \A u \in Names : state'[u] = "wait" <=> state[u] = "wait"
    BY <1>2
  <2> QED BY <1>1, <2>1, KeepQueues
<1>8. NotYet'
  BY <1>1, <1>2 DEF NotYet, Up
<1>9. Turns'
  BY <1>1, <1>2, NodeFacts DEF Turns
<1>10. GasAges'
  <2>1. \A q \in Gas : age'[q] \in {0, 1}
    BY <1>4 DEF GasAges
  <2>2. "MQ7_PPM" \in Gas /\ "MQ2_PPM" \in Gas
    BY DEF Gas
  <2>3. step' \in {0, 3, 4} => age'["MQ7_PPM"] = 0
    BY <1>1, <1>4, <2>2 DEF GasAges
  <2>4. step' \in {0, 4} => age'["MQ2_PPM"] = 0
    BY <1>1, <1>4
  <2>5. step' # 0
    BY <1>1
  <2> QED BY <2>1, <2>3, <2>4, <2>5 DEF GasAges
<1>11. Spans' /\ Told'
  BY <1>1, <1>3, NodeFacts DEF Spans, Told
<1> QED BY <1>5, <1>6, <1>7, <1>8, <1>9, <1>10, <1>11

(* The end of a round tells the display. *)
LEMMA EndRoundKeeps == DetectorIInv /\ EndRound => DetectorIInv'
<1> SUFFICES ASSUME DetectorIInv, EndRound PROVE DetectorIInv'
  OBVIOUS
<1> USE DEF DetectorIInv
<1> DEFINE o == "oled_update"
<1>0. o \in Names /\ o \in Consumers /\ o # Reader /\ o \notin Timers
  BY NodeFacts
<1>1. /\ unread' = unread /\ span' = span /\ ticked' = ticked
      /\ timer' = timer /\ made' = made /\ step = 4 /\ step' = 0
      /\ sem' = [sem EXCEPT ![o] = Released(sem[o])]
      /\ age' = [age EXCEPT !["FR"] = 0]
      /\ state' = [Woken({o}) EXCEPT ![Reader] = "ready"]
      /\ Up /\ state[Reader] = "awake"
  BY DEF EndRound, ReleaseSem, Runs
<1>2. sem[o].value = 0 /\ sem[o] \in Semaphores(Names)
  <2>1. ~Lately(o)
    BY <1>1 DEF Lately
  <2> QED BY <1>0, <2>1 DEF Told, Queues, DetectorTypes
<1>3. /\ Released(sem[o]) \in Semaphores(Names)
      /\ Released(sem[o]).suspended = <<>>
      /\ Released(sem[o]).value \in {0, 1}
      /\ Woken({o})[o] = IF state[o] = "wait" THEN "go" ELSE state[o]
  <2>1. CASE state[o] = "wait"
    <3>1. sem[o].suspended = <<o>>
      BY <1>0, <2>1 DEF Queues
    <3> QED BY <1>0, <1>2, <2>1, <3>1, SemaphoreOps DEF Woken
  <2>2. CASE state[o] # "wait"
    <3>1. sem[o].suspended = <<>>
      BY <1>0, <2>2 DEF Queues
    <3> QED BY <1>0, <1>2, <2>2, <3>1, SemaphoreOps DEF Woken
  <2> QED BY <2>1, <2>2
<1> HIDE DEF o
<1>4. /\ sem' \in [Names -> Semaphores(Names)] /\ sem'[o] = Released(sem[o])
      /\ \A u \in Names : u # o => sem'[u] = sem[u]
  BY <1>0, <1>1, <1>3, SemUpdate
<1>5. /\ state' \in [Names -> States] /\ state'[Reader] = "ready"
      /\ state'[o] = IF state[o] = "wait" THEN "go" ELSE state[o]
      /\ \A u \in Names : u \notin {o, Reader} => state'[u] = state[u]
  <2>1. /\ Woken({o}) \in [Names -> States]
        /\ \A u \in Names : u # o => Woken({o})[u] = state[u]
    BY DEF Woken, DetectorTypes, States
  <2>2. Reader \in Names /\ "ready" \in States
    BY NodeFacts DEF States
  <2> QED BY <1>0, <1>1, <1>3, <2>1, <2>2
<1>6. BootIInv'
  BY BootStepKeeps DEF DetectorNext, ThreadStep
<1>7. DetectorTypes'
  <2>1. age' \in [Gas \union {"dht"} -> Ages]
    <3>1. 0 \in Ages /\ age' = [age EXCEPT !["FR"] = 0]
      BY <1>1, NodeFacts
    <3> QED BY <3>1 DEF DetectorTypes
  <2>2. unread' = unread /\ span' = span /\ ticked' = ticked /\ step' \in 0..4
    BY <1>1
  <2> QED BY <1>4, <1>5, <2>1, <2>2 DEF DetectorTypes
<1>8. Queues'
  <2> SUFFICES ASSUME NEW u \in Names
               PROVE  /\ sem'[u].suspended = IF state'[u] = "wait" THEN <<u>> ELSE <<>>
                      /\ state'[u] = "wait" => sem'[u].value = 0
                      /\ sem'[u].value \in {0, 1}
    BY DEF Queues
  <2>1. CASE u = o
    <3>1. state'[u] # "wait"
      BY <1>5, <2>1
    <3> QED BY <1>3, <1>4, <2>1, <3>1
  <2>2. CASE u # o
    <3>1. state'[u] = "wait" <=> state[u] = "wait"
      BY <1>1, <1>5, <2>2
    <3> QED BY <1>4, <2>2, <3>1 DEF Queues
  <2> QED BY <2>1, <2>2
<1>9. NotYet'
  BY <1>1 DEF NotYet, Up
<1>10. timer[Reader] \in {0, 1} /\ sem'[Reader].value = 0
  BY <1>0, <1>1, <1>4, NodeFacts DEF Turns
<1>11. Turns'
  <2>1. ASSUME NEW u \in Consumers
        PROVE  /\ state'[u] \in {"ready", "wait", "go"}
               /\ state'[u] # "go" => span'[u] = {}
    <3>1. /\ u \in Names /\ u # Reader /\ state[u] \in {"ready", "wait", "go"}
          /\ state[u] # "go" => span[u] = {}
      BY NodeFacts DEF Turns
    <3> QED BY <1>1, <1>5, <3>1
  <2>2. ASSUME NEW u \in Timers, sem'[u].value = 1 PROVE u \in ticked'
    <3>1. u \in Names /\ u # o
      BY <1>0, NodeFacts
    <3> QED BY <1>1, <1>4, <2>2, <3>1 DEF Turns
  <2> QED BY <1>1, <1>5, <1>10, <2>1, <2>2 DEF Turns
<1>12. GasAges'
  <2>1. age \in [Gas \union {"dht"} -> Ages]
    BY DEF DetectorTypes
  <2>2. /\ \A q \in Gas : age[q] \in {0, 1}
        /\ age["MQ7_PPM"] = 0 /\ age["MQ2_PPM"] = 0
    BY <1>1 DEF GasAges
  <2> QED BY <1>1, <2>1, <2>2 DEF GasAges, Gas
<1>13. ASSUME NEW u \in Consumers PROVE Lately(u)'
  BY <1>1, <1>5, <1>10 DEF Lately
<1>14. Spans'
  BY <1>1, <1>13 DEF Spans
<1>15. Told'
  BY <1>13, NodeFacts DEF Told
<1> QED BY <1>6, <1>7, <1>8, <1>9, <1>11, <1>12, <1>14, <1>15

-------------------------------------------------------------------------------
(* sensor_send_thread and oled_display_thread *)
LEMMA ReadValueKeeps ==
    ASSUME DetectorIInv, NEW t \in Consumers, NEW q \in Gas, ReadValue(t, q)
    PROVE  DetectorIInv'
<1> USE DEF DetectorIInv
<1>1. /\ step' = step /\ age' = age /\ state' = state /\ ticked' = ticked
      /\ timer' = timer /\ made' = made /\ sem' = sem
      /\ unread' = [unread EXCEPT ![t] = unread[t] \ {q}]
      /\ span' = [span EXCEPT ![t] = span[t] \union {age[q]}]
      /\ Up /\ state[t] = "go"
  BY DEF ReadValue, Runs, bootVars
<1>2. age[q] \in Ages /\ age[q] \in {0, 1}
  BY DEF DetectorTypes, GasAges
<1>3. BootIInv'
  BY BootStepKeeps DEF DetectorNext, ThreadStep
<1>4. DetectorTypes'
  <2>1. unread' \in [Consumers -> SUBSET Gas]
    BY <1>1 DEF DetectorTypes
  <2>2. span' \in [Consumers -> SUBSET Ages]
    BY <1>1, <1>2 DEF DetectorTypes
  <2> QED BY <1>1, <2>1, <2>2 DEF DetectorTypes
<1>5. Queues'
  BY <1>1, KeepQueues
<1>6. NotYet'
  BY <1>1 DEF NotYet, Up
<1>7. span'[t] = span[t] \union {age[q]} /\ \A u \in Consumers : u # t => span'[u] = span[u]
  BY <1>1 DEF DetectorTypes
<1>8. Turns'
  BY <1>1, <1>7 DEF Turns
<1>9. GasAges'
  BY <1>1 DEF GasAges
<1>10. Lately(t)' = Lately(t) /\ \A u \in Consumers : Lately(u)' = Lately(u)
  BY <1>1 DEF Lately
<1>11. Spans'
  <2> SUFFICES ASSUME NEW u \in Consumers
               PROVE  /\ span'[u] \subseteq {0, 1}
                      /\ step' = 0 /\ 1 \in span'[u] => Lately(u)'
    BY DEF Spans
  <2>1. span[u] \subseteq {0, 1} /\ (step = 0 /\ 1 \in span[u] => Lately(u))
    BY DEF Spans
  <2>2. step = 0 => age[q] = 0
    BY DEF GasAges, Gas
  <2>3. span'[u] \subseteq {0, 1} /\ (step = 0 /\ 1 \in span'[u] => 1 \in span[u])
    BY <1>2, <1>7, <2>1, <2>2
  <2> QED BY <1>1, <1>10, <2>1, <2>3
<1>12. Told'
  BY <1>1, <1>10, NodeFacts DEF Told
<1> QED BY <1>3, <1>4, <1>5, <1>6, <1>8, <1>9, <1>11, <1>12

LEMMA FinishKeeps ==
    ASSUME DetectorIInv, NEW t \in Consumers, Finish(t)
    PROVE  DetectorIInv'
<1> USE DEF DetectorIInv
<1>1. /\ step' = step /\ age' = age /\ ticked' = ticked
      /\ timer' = timer /\ made' = made /\ sem' = sem
      /\ unread' = [unread EXCEPT ![t] = Gas]
      /\ span' = [span EXCEPT ![t] = {}]
      /\ Up /\ state[t] = "go" /\ t \in Names /\ t # Reader
  BY NodeFacts DEF Finish, Runs, bootVars
<1>2. /\ state' \in [Names -> States] /\ state'[t] = "ready"
      /\ \A u \in Names : u # t => state'[u] = state[u]
  BY <1>1, StateUpdate DEF Finish, States
<1>3. BootIInv'
  BY BootStepKeeps DEF DetectorNext, ThreadStep
<1>4. DetectorTypes'
  <2>1. unread' \in [Consumers -> SUBSET Gas] /\ span' \in [Consumers -> SUBSET Ages]
    BY <1>1 DEF DetectorTypes
  <2> QED BY <1>1, <1>2, <2>1 DEF DetectorTypes
<1>5. Queues'
  <2>1. \A u \in Names : state'[u] = "wait" <=> state[u] = "wait"
    BY <1>1, <1>2
  <2> QED BY <1>1, <2>1, KeepQueues
<1>6. NotYet'
  BY <1>1 DEF NotYet, Up
<1>7. span'[t] = {} /\ \A u \in Consumers : u # t => span'[u] = span[u]
  BY <1>1 DEF DetectorTypes
<1>8. Turns'
  <2>1. ASSUME NEW u \in Consumers
        PROVE  /\ state'[u] \in {"ready", "wait", "go"}
               /\ state'[u] # "go" => span'[u] = {}
    <3>1. u \in Names
      BY NodeFacts
    <3> QED BY <1>2, <1>7, <3>1 DEF Turns
  <2>2. state'[Reader] = state[Reader]
    BY <1>1, <1>2, NodeFacts
  <2> QED BY <1>1, <2>1, <2>2 DEF Turns
<1>9. GasAges'
  BY <1>1 DEF GasAges
<1>10. \A u \in Consumers : Lately(u)' = Lately(u)
  BY <1>1, <1>2, NodeFacts DEF Lately
<1>11. Spans'
  <2> SUFFICES ASSUME NEW u \in Consumers
               PROVE  /\ span'[u] \subseteq {0, 1}
                      /\ step' = 0 /\ 1 \in span'[u] => Lately(u)'
    BY DEF Spans
  <2> QED BY <1>1, <1>7, <1>10 DEF Spans
<1>12. Told'
  BY <1>1, <1>10, NodeFacts DEF Told
<1> QED BY <1>3, <1>4, <1>5, <1>6, <1>8, <1>9, <1>11, <1>12

-------------------------------------------------------------------------------
(* TIM4_IRQHandler.  While the node prepares itself nothing is due. *)
LEMMA TickBeforeUp ==
    ASSUME DetectorIInv, Tick, ~Up
    PROVE  DetectorIInv'
<1> USE DEF DetectorIInv
<1>1. /\ step' = step /\ age' = age /\ unread' = unread /\ span' = span
      /\ made' = made /\ ticked' = Turning /\ state' = Woken(Due)
      /\ prep > 0
      /\ timer' = [s \in Timers |-> IF s \in Due THEN 0 ELSE timer[s] + 1]
      /\ sem' = [s \in Names |-> IF s \in Due \intersect Ready THEN Released(sem[s]) ELSE sem[s]]
  BY DEF Tick, TimerInterrupt
<1>2. Due = {}
  <2>1. ASSUME NEW s \in Timers PROVE timer[s] # Interval[s]
    <3>1. /\ timer[s] + prep <= Interval[s] /\ timer[s] \in Nat /\ Interval[s] \in Nat
          /\ prep \in Nat
      BY NodeFacts DEF BootIInv
    <3> QED BY <1>1, <3>1
  <2> QED BY <2>1 DEF Due
<1>3. sem' = sem /\ state' = state /\ ticked' = {} /\ ~Up'
  <2>1. sem \in [Names -> Semaphores(Names)] /\ state \in [Names -> States]
    BY DEF DetectorTypes
  <2> QED BY <1>1, <1>2, <2>1 DEF Woken, Turning, Up
<1>4. /\ ticked = {} /\ \A t \in Names : state[t] = "ready" /\ sem[t].value = 0
  BY DEF NotYet
<1>5. BootIInv'
  BY BootStepKeeps DEF DetectorNext
<1>6. DetectorTypes'
  BY <1>1, <1>3 DEF DetectorTypes
<1>7. Queues' /\ NotYet'
  BY <1>3, <1>4, KeepQueues DEF NotYet
<1>8. Turns'
  <2>1. /\ \A t \in Consumers : /\ state[t] \in {"ready", "wait", "go"}
                                /\ state[t] # "go" => span[t] = {}
        /\ step = 0 <=> state[Reader] \in {"ready", "wait", "go"}
    BY DEF Turns
  <2> QED BY <1>1, <1>3, <1>4, <2>1, NodeFacts DEF Turns
<1>9. GasAges'
  BY <1>1 DEF GasAges
<1>10. Spans'
  <2>1. ASSUME NEW t \in Consumers PROVE span[t] = {}
    BY <1>4, NodeFacts DEF Turns
  <2> QED BY <1>1, <2>1 DEF Spans
<1>11. Told'
  BY <1>3, <1>4, NodeFacts DEF Told
<1> QED BY <1>5, <1>6, <1>7, <1>8, <1>9, <1>10, <1>11

(* What a tick does to the timer, the semaphore and the thread of one name: no
   token lies there that the turn, in which no tick has fallen yet, has not used. *)
LEMMA TickOne ==
    ASSUME DetectorIInv, Tick, Up, NEW t \in Names
    PROVE  /\ t \notin Due => sem'[t] = sem[t] /\ state'[t] = state[t]
           /\ t \in Due => /\ t \in Timers /\ sem[t].value = 0
                           /\ sem'[t].suspended = <<>>
                           /\ sem'[t].value = IF state[t] = "wait" THEN 0 ELSE 1
                           /\ state'[t] = IF state[t] = "wait" THEN "go" ELSE state[t]
           /\ sem'[t] \in Semaphores(Names) /\ state'[t] \in States
           /\ t \in ticked' <=> state[t] # "wait"
           /\ state[t] # "wait" => t \notin ticked
<1> USE DEF DetectorIInv
<1>1. /\ ticked' = Turning /\ Turning \intersect ticked = {} /\ state' = Woken(Due)
      /\ sem' = [s \in Names |-> IF s \in Due \intersect Ready THEN Released(sem[s]) ELSE sem[s]]
  BY DEF Tick, TimerInterrupt
<1>2. Ready = Names /\ Due \subseteq Timers
  BY UpIsReady DEF Due
<1>3. sem[t] \in Semaphores(Names) /\ state[t] \in States
  BY DEF DetectorTypes
<1>4. (t \in ticked' <=> state[t] # "wait") /\ (state[t] # "wait" => t \notin ticked)
  BY <1>1 DEF Turning
<1>5. CASE t \notin Due
  <2>1. sem'[t] = sem[t]
    BY <1>1, <1>5
  <2>2. state'[t] = state[t]
    BY <1>1, <1>5 DEF Woken
  <2> QED BY <1>3, <1>4, <1>5, <2>1, <2>2
<1>6. CASE t \in Due
  <2>1. t \in Timers /\ sem'[t] = Released(sem[t])
    BY <1>1, <1>2, <1>6
  <2>2. sem[t].value = 0
    <3>1. sem[t].value = 1 => t \in ticked
      BY <2>1 DEF Turns
    <3>2. sem[t].value \in {0, 1} /\ (state[t] = "wait" => sem[t].value = 0)
      BY DEF Queues
    <3> QED BY <1>4, <3>1, <3>2
  <2>3. state'[t] = IF t \in Resumed(sem[t]) THEN "go" ELSE state[t]
    BY <1>1, <1>6 DEF Woken
  <2>4. CASE state[t] = "wait"
    <3>1. sem[t].suspended = <<t>>
      BY <2>4 DEF Queues
    <3> QED BY <1>3, <1>4, <1>6, <2>1, <2>2, <2>3, <2>4, <3>1, SemaphoreOps DEF States
  <2>5. CASE state[t] # "wait"
    <3>1. sem[t].suspended = <<>>
      BY <2>5 DEF Queues
    <3> QED BY <1>3, <1>4, <1>6, <2>1, <2>2, <2>3, <2>5, <3>1, SemaphoreOps
  <2> QED BY <2>4, <2>5
<1> QED BY <1>5, <1>6

LEMMA TickWhenUp ==
    ASSUME DetectorIInv, Tick, Up, RoundsAreApart
    PROVE  DetectorIInv'
<1> USE DEF DetectorIInv
<1>1. /\ step' = step /\ age' = age /\ unread' = unread /\ span' = span
      /\ made' = made /\ ticked' = Turning
      /\ timer' = [s \in Timers |-> IF s \in Due THEN 0 ELSE timer[s] + 1]
      /\ sem' = [s \in Names |-> IF s \in Due \intersect Ready THEN Released(sem[s]) ELSE sem[s]]
      /\ state' = Woken(Due)
  BY DEF Tick, TimerInterrupt
<1>2. ASSUME NEW t \in Names
      PROVE  /\ t \notin Due => sem'[t] = sem[t] /\ state'[t] = state[t]
             /\ t \in Due => /\ t \in Timers /\ sem[t].value = 0
                             /\ sem'[t].suspended = <<>>
                             /\ sem'[t].value = IF state[t] = "wait" THEN 0 ELSE 1
                             /\ state'[t] = IF state[t] = "wait" THEN "go" ELSE state[t]
             /\ sem'[t] \in Semaphores(Names) /\ state'[t] \in States
             /\ t \in ticked' <=> state[t] # "wait"
             /\ state[t] # "wait" => t \notin ticked
  BY TickOne
<1>3. /\ Reader \in Names /\ timer[Reader] \in Nat /\ Interval[Reader] \in Nat
      /\ Interval[Reader] >= 2
      /\ Reader \in Due <=> timer[Reader] = Interval[Reader]
      /\ timer'[Reader] = IF Reader \in Due THEN 0 ELSE timer[Reader] + 1
  BY <1>1, NodeFacts DEF BootIInv, Due, RoundsAreApart
<1>4. BootIInv'
  BY BootStepKeeps DEF DetectorNext
<1>5. DetectorTypes'
  <2>1. sem' \in [Names -> Semaphores(Names)]
    BY <1>1, <1>2
  <2>2. state' \in [Names -> States]
    BY <1>1, <1>2 DEF Woken
  <2>3. ticked' \subseteq Names
    BY <1>1 DEF Turning
  <2> QED BY <1>1, <2>1, <2>2, <2>3 DEF DetectorTypes
<1>6. Queues'
  <2> SUFFICES ASSUME NEW u \in Names
               PROVE  /\ sem'[u].suspended = IF state'[u] = "wait" THEN <<u>> ELSE <<>>
                      /\ state'[u] = "wait" => sem'[u].value = 0
                      /\ sem'[u].value \in {0, 1}
    BY DEF Queues
  <2>1. CASE u \in Due
    <3>1. state'[u] # "wait" /\ sem'[u].value \in {0, 1} /\ sem'[u].suspended = <<>>
      BY <1>2, <2>1
    <3> QED BY <3>1
  <2>2. CASE u \notin Due
    BY <1>2, <2>2 DEF Queues
  <2> QED BY <2>1, <2>2
<1>7. NotYet'
  BY <1>1 DEF NotYet, Up
<1>8. Turns'
  <2>1. ASSUME NEW u \in Consumers
        PROVE  /\ state'[u] \in {"ready", "wait", "go"}
               /\ state'[u] # "go" => span'[u] = {}
    <3>1. /\ u \in Names /\ state[u] \in {"ready", "wait", "go"}
          /\ state[u] # "go" => span[u] = {}
      BY NodeFacts DEF Turns
    <3>2. state'[u] = state[u] \/ (state[u] = "wait" /\ state'[u] = "go")
      BY <1>2, <3>1
    <3> QED BY <1>1, <3>1, <3>2
  <2>2. /\ step = 0 <=> state[Reader] \in {"ready", "wait", "go"}
        /\ state[Reader] \in {"go", "sleep", "awake"} =>
             /\ timer[Reader] = IF Reader \in ticked THEN 1 ELSE 0
             /\ sem[Reader].value = 0
        /\ sem[Reader].value = 1 => Reader \in ticked
    BY NodeFacts DEF Turns
  <2>3. sem[Reader].value = 0 /\ (Reader \in ticked' <=> state[Reader] # "wait")
    <3>1. sem[Reader].value \in {0, 1} /\ (state[Reader] = "wait" => sem[Reader].value = 0)
      BY <1>3 DEF Queues
    <3> QED BY <1>2, <1>3, <2>2, <3>1
  <2>4. CASE Reader \in Due
    <3>1. state[Reader] \notin {"go", "sleep", "awake"}
      BY <1>2, <1>3, <2>2, <2>4
    <3>2. state[Reader] \in {"ready", "wait"} /\ timer'[Reader] = 0
      BY <1>3, <2>4, <3>1 DEF DetectorTypes, States
    <3>3. \/ state[Reader] = "wait" /\ state'[Reader] = "go" /\ sem'[Reader].value = 0
          \/ state[Reader] = "ready" /\ state'[Reader] = "ready"
      BY <1>2, <1>3, <2>4, <3>2
    <3>4. ASSUME NEW u \in Timers, sem'[u].value = 1 PROVE u \in ticked'
      <4>1. u \in Names /\ (sem[u].value = 1 => u \in ticked)
            /\ (state[u] = "wait" => sem[u].value = 0)
        BY NodeFacts DEF Turns, Queues
      <4> QED BY <1>2, <3>4, <4>1
    <3>5. step' = 0 <=> state'[Reader] \in {"ready", "wait", "go"}
      BY <1>1, <2>2, <3>2, <3>3
    <3>6. state'[Reader] \in {"go", "sleep", "awake"}
            => timer'[Reader] = (IF Reader \in ticked' THEN 1 ELSE 0) /\ sem'[Reader].value = 0
      BY <2>3, <3>2, <3>3
    <3> QED BY <2>1, <3>2, <3>4, <3>5, <3>6 DEF Turns
  <2>5. CASE Reader \notin Due
    <3>1. state'[Reader] = state[Reader] /\ sem'[Reader].value = 0
          /\ timer'[Reader] = timer[Reader] + 1
      BY <1>2, <1>3, <2>3, <2>5
    <3>2. ASSUME NEW u \in Timers, sem'[u].value = 1 PROVE u \in ticked'
      <4>1. u \in Names /\ (sem[u].value = 1 => u \in ticked)
            /\ (state[u] = "wait" => sem[u].value = 0)
        BY NodeFacts DEF Turns, Queues
      <4> QED BY <1>2, <3>2, <4>1
    <3>3. state[Reader] \in {"go", "sleep", "awake"} => timer[Reader] = 0 /\ Reader \in ticked'
      BY <1>2, <1>3, <2>2, <2>3
    <3>4. state'[Reader] \in {"go", "sleep", "awake"}
            => timer'[Reader] = (IF Reader \in ticked' THEN 1 ELSE 0) /\ sem'[Reader].value = 0
      BY <3>1, <3>3
    <3>5. step' = 0 <=> state'[Reader] \in {"ready", "wait", "go"}
      BY <1>1, <2>2, <3>1
    <3>6. sem'[Reader].value = 1 => timer'[Reader] = 0
      BY <3>1
    <3> QED BY <2>1, <3>2, <3>4, <3>5, <3>6 DEF Turns
  <2> QED BY <2>4, <2>5
<1>9. GasAges'
  BY <1>1 DEF GasAges
<1>10. ASSUME NEW u \in Consumers, Lately(u), state[u] # "wait" PROVE Lately(u)'
  <2>1. u \notin ticked /\ u \in ticked'
    BY <1>2, <1>10, NodeFacts
  <2>2. /\ state[Reader] \in {"ready", "wait"} /\ sem[Reader].value = 0
        /\ timer[Reader] <= 1
    BY <1>10, <2>1 DEF Lately
  <2>3. Reader \notin Due /\ timer'[Reader] <= 2
    BY <1>3, <2>2
  <2> QED BY <1>2, <1>3, <2>1, <2>2, <2>3 DEF Lately
<1>11. Spans'
  <2> SUFFICES ASSUME NEW u \in Consumers
               PROVE  /\ span'[u] \subseteq {0, 1}
                      /\ step' = 0 /\ 1 \in span'[u] => Lately(u)'
    BY DEF Spans
  <2>1. span[u] \subseteq {0, 1} /\ (step = 0 /\ 1 \in span[u] => Lately(u))
    BY DEF Spans
  <2>2. 1 \in span[u] => state[u] # "wait"
    BY DEF Turns
  <2> QED BY <1>1, <1>10, <2>1, <2>2
<1>12. Told'
  <2> DEFINE o == "oled_update"
  <2>1. o \in Names /\ o \in Consumers /\ o \notin Timers
    BY NodeFacts
  <2>2. sem'[o] = sem[o]
    BY <1>2, <2>1
  <2>3. sem[o].value = 1 => state[o] # "wait"
    <3>1. state[o] = "wait" => sem[o].value = 0
      BY <2>1 DEF Queues
    <3> QED BY <3>1
  <2> QED BY <1>10, <2>1, <2>2, <2>3 DEF Told
<1> QED BY <1>4, <1>5, <1>6, <1>7, <1>8, <1>9, <1>11, <1>12

LEMMA DetectorStutter == DetectorIInv /\ UNCHANGED detectorVars => DetectorIInv'
<1> SUFFICES ASSUME DetectorIInv, UNCHANGED detectorVars PROVE DetectorIInv'
  OBVIOUS
<1> USE DEF DetectorIInv
<1>1. /\ prep' = prep /\ made' = made /\ timer' = timer /\ sem' = sem /\ halted' = halted
      /\ state' = state /\ step' = step /\ age' = age /\ unread' = unread
      /\ span' = span /\ ticked' = ticked
  BY DEF detectorVars, bootVars
<1>2. BootIInv'
  BY <1>1, BootStep DEF bootVars
<1>3. DetectorTypes' /\ Queues' /\ NotYet'
  BY <1>1 DEF DetectorTypes, Queues, NotYet, Up
<1>4. Turns' /\ GasAges'
  BY <1>1 DEF Turns, GasAges
<1>5. Spans' /\ Told'
  BY <1>1 DEF Spans, Told, Lately
<1> QED BY <1>2, <1>3, <1>4, <1>5

LEMMA DetectorInductive ==
    ASSUME RoundsAreApart
    PROVE  DetectorIInv /\ [DetectorNext]_detectorVars => DetectorIInv'
<1> SUFFICES ASSUME DetectorIInv, [DetectorNext]_detectorVars PROVE DetectorIInv'
  OBVIOUS
<1>1. CASE Tick
  BY <1>1, TickBeforeUp, TickWhenUp, RoundsAreApart
<1> QED BY <1>1, BootKeeps, TakeKeeps, WakeKeeps, BeginRoundKeeps, ReadKeeps, EndRoundKeeps,
           ReadValueKeeps, FinishKeeps, DetectorStutter
        DEF DetectorNext, ThreadStep

LEMMA DetectorInvariant ==
    ASSUME PreparationIsShort, RoundsAreApart
    PROVE  DetectorSpec => []DetectorIInv
<1>1. DetectorInit => DetectorIInv
  BY DetectorInitial, PreparationIsShort
<1>2. DetectorIInv /\ [DetectorNext]_detectorVars => DetectorIInv'
  BY DetectorInductive, RoundsAreApart
<1> QED BY <1>1, <1>2, PTL DEF DetectorSpec

-------------------------------------------------------------------------------
(* The threads, semaphores and values of the detector keep their types
   (main.c:84-160). *)
THEOREM DetectorTypesHold ==
    ASSUME PreparationIsShort, RoundsAreApart
    PROVE  DetectorSpec => []DetectorTypeOK
<1>1. DetectorIInv => DetectorTypeOK
  <2>1. halted = FALSE => halted \in BOOLEAN
    BY Zenon
  <2> QED BY <2>1 DEF DetectorIInv, BootIInv, DetectorTypes, DetectorTypeOK
<1>2. DetectorSpec => []DetectorIInv
  BY DetectorInvariant, PreparationIsShort, RoundsAreApart
<1> QED BY <1>1, <1>2, PTL

(* A frame or a display mixes at most two rounds, and those follow each other, for
   every interval of two ticks or more (main.c:91-95, 111-115, 127). *)
THEOREM SnapshotsSpanTwoRounds ==
    ASSUME PreparationIsShort, RoundsAreApart
    PROVE  DetectorSpec => []SnapshotSpansTwoRounds
<1>1. DetectorIInv => SnapshotSpansTwoRounds
  <2> SUFFICES ASSUME DetectorIInv, NEW t \in Consumers, NEW a \in span[t], NEW b \in span[t]
               PROVE  a <= b + 1
    BY DEF SnapshotSpansTwoRounds
  <2>1. a \in {0, 1} /\ b \in {0, 1}
    BY DEF DetectorIInv, Spans
  <2> QED BY <2>1
<1>2. DetectorSpec => []DetectorIInv
  BY DetectorInvariant, PreparationIsShort, RoundsAreApart
<1> QED BY <1>1, <1>2, PTL

(* No thread ever has two tokens: the reader, the display and the sender work off
   what the timer and the reader release (main.c:98, 148-157). *)
THEOREM TokensAreWorkedOff ==
    ASSUME PreparationIsShort, RoundsAreApart
    PROVE  DetectorSpec => []TokensWorkedOff
<1>1. DetectorIInv => TokensWorkedOff
  <2> SUFFICES ASSUME DetectorIInv, NEW s \in Names
               PROVE  sem[s].value <= 1
    BY DEF TokensWorkedOff
  <2>1. sem[s].value \in {0, 1}
    BY DEF DetectorIInv, Queues
  <2> QED BY <2>1
<1>2. DetectorSpec => []DetectorIInv
  BY DetectorInvariant, PreparationIsShort, RoundsAreApart
<1> QED BY <1>1, <1>2, PTL

(* The assertion of rt_sem_release holds in the running detector, not only while
   it starts (ipc.c:608, main.c:142-160). *)
THEOREM DetectorAsserts ==
    ASSUME PreparationIsShort
    PROVE  DetectorSpec => []AssertHolds
<1>1. BootSpec => []AssertHolds
  BY BootSafe, PreparationIsShort
<1> QED BY <1>1, DetectorImplementsBoot, PTL
===============================================================================
