--------------------------- MODULE RtSemaphoreProofs ---------------------------
(***************************************************************************)
(* What the semaphore operations return, for every width of the counter.   *)
(***************************************************************************)
EXTENDS RtSemaphore, TLAPS

(* A semaphore of this repository has one thread that ever waits for it, so its
   list is empty or that thread. *)
LEMMA SemaphoreOps ==
    ASSUME NEW T, NEW t \in T, NEW s \in Semaphores(T)
    PROVE  /\ CanTake(s) => /\ Taken(s) \in Semaphores(T)
                            /\ Taken(s).suspended = s.suspended
                            /\ Taken(s).value = s.value - 1
           /\ /\ Suspended(s, t) \in Semaphores(T)
              /\ Suspended(s, t).value = s.value
              /\ s.suspended = <<>> => Suspended(s, t).suspended = <<t>>
           /\ s.suspended = <<>> => /\ Released(s) \in Semaphores(T)
                                    /\ Released(s).suspended = <<>>
                                    /\ Released(s).value > 0
                                    /\ s.value = 0 => Released(s).value = 1
                                    /\ Resumed(s) = {}
           /\ s.suspended = <<t>> => /\ Released(s) \in Semaphores(T)
                                     /\ Released(s).suspended = <<>>
                                     /\ Released(s).value = s.value
                                     /\ Resumed(s) = {t}
<1>1. s = [value |-> s.value, suspended |-> s.suspended]
      /\ s.value \in 0..RT_SEM_VALUE_MAX /\ s.suspended \in Seq(T)
  BY DEF Semaphores
<1>2. CanTake(s) => /\ Taken(s) \in Semaphores(T)
                    /\ Taken(s).suspended = s.suspended
                    /\ Taken(s).value = s.value - 1
  BY <1>1, SemAssumption DEF CanTake, Taken, Semaphores
<1>3. /\ Suspended(s, t) \in Semaphores(T)
      /\ Suspended(s, t).value = s.value
      /\ s.suspended = <<>> => Suspended(s, t).suspended = <<t>>
  <2> DEFINE v == s.value
             w == s.suspended
  <2>1. Suspended(s, t) = [value |-> s.value, suspended |-> Append(s.suspended, t)]
    <3>1. s = [value |-> v, suspended |-> w]
      BY <1>1
    <3> HIDE DEF v, w
    <3>2. [s EXCEPT !.suspended = Append(w, t)]
            = [value |-> v, suspended |-> Append(w, t)]
      BY <3>1
    <3> QED BY <3>2 DEF Suspended, v, w
  <2>2. Append(s.suspended, t) \in Seq(T)
    BY <1>1
  <2>3. s.suspended = <<>> => Append(s.suspended, t) = <<t>>
    OBVIOUS
  <2> QED BY <1>1, <2>1, <2>2, <2>3 DEF Semaphores
<1>4. ASSUME s.suspended = <<>>
      PROVE  /\ Released(s) \in Semaphores(T)
             /\ Released(s).suspended = <<>>
             /\ Released(s).value > 0
             /\ s.value = 0 => Released(s).value = 1
             /\ Resumed(s) = {}
  BY <1>1, <1>4, SemAssumption DEF Released, Resumed, Full, Semaphores
<1>5. ASSUME s.suspended = <<t>>
      PROVE  /\ Released(s) \in Semaphores(T)
             /\ Released(s).suspended = <<>>
             /\ Released(s).value = s.value
             /\ Resumed(s) = {t}
  <2>1. s.suspended # <<>> /\ Head(s.suspended) = t /\ Tail(s.suspended) = <<>>
    BY <1>5
  <2>2. Released(s) = [value |-> s.value, suspended |-> <<>>]
    BY <1>1, <2>1 DEF Released
  <2>3. Resumed(s) = {t}
    BY <2>1 DEF Resumed
  <2>4. <<>> \in Seq(T)
    OBVIOUS
  <2> QED BY <1>1, <2>2, <2>3, <2>4 DEF Semaphores
<1> QED BY <1>2, <1>3, <1>4, <1>5
===============================================================================
