---------------------------- MODULE PublishMonitor ----------------------------
(***************************************************************************)
(* What publishing to the cloud promises to the rest of the gateway,       *)
(* without buffers, interrupts or counters that wrap.                      *)
(*                                                                         *)
(* A publish succeeds only on the strength of a broker reply that no       *)
(* earlier publish has used; the alarm (ERROR_PUBLISH in the code) is      *)
(* raised by the PUBLISH_LIMIT-th failure in a row and by nothing else,    *)
(* stays raised through any number of further failures, and is lowered by  *)
(* the next success.  WirelessLink implements this specification.          *)
(***************************************************************************)
EXTENDS Naturals

CONSTANTS
    PUBLISH_LIMIT,      \* failures in a row that raise the alarm (not 0)
    ReplyIds            \* identities of the replies the broker may send

VARIABLES
    used,               \* replies already turned into a success
    credit,             \* a reply is in hand for the publish under way
    fails,              \* failures since the last success, up to the limit
    alarm               \* the publish error is reported

monitorVars == <<used, credit, fails, alarm>>

Init == used = {} /\ credit = FALSE /\ fails = 0 /\ alarm = FALSE

(* A publish takes all the replies it finds, none of which was taken before. *)
Use(replies) ==
    /\ ~credit
    /\ replies # {} /\ replies \intersect used = {}
    /\ used' = used \union replies
    /\ credit' = TRUE
    /\ UNCHANGED <<fails, alarm>>

Succeed ==
    /\ credit
    /\ credit' = FALSE
    /\ fails' = 0
    /\ alarm' = FALSE
    /\ used' = used

Fail ==
    /\ ~credit
    /\ fails' = IF fails < PUBLISH_LIMIT THEN fails + 1 ELSE PUBLISH_LIMIT
    /\ alarm' = (fails' = PUBLISH_LIMIT)
    /\ UNCHANGED <<used, credit>>

Next == (\E replies \in SUBSET ReplyIds : Use(replies)) \/ Succeed \/ Fail

Spec == Init /\ [][Next]_monitorVars
===============================================================================
