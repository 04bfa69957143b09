-------------------------- MODULE TzCallRefinement --------------------------
(***************************************************************************)
(* TzCall implements SessionService.  A call is served once its handler    *)
(* is through and the main task runs again: for an invocation that is when *)
(* the service task has handed the processor back.                         *)
(***************************************************************************)
EXTENDS TzCall

ServedIn(t) == pc[t] = "secure" /\ mainPc = "return" /\ current = MainTask

PhaseBar == [t \in Threads |->
    IF pc[t] = "idle" THEN "idle"
    ELSE IF pc[t] \in {"back", "finish"} \/ ServedIn(t) THEN "served"
    ELSE "called"]

AnswerBar == [t \in Threads |-> IF ServedIn(t) THEN mainRet ELSE ret[t]]

SessionsBar ==
    [i \in DOMAIN session |->
        [client |-> session[i].client, service |-> session[i].service]]

Abstract == INSTANCE SessionService WITH
    phase <- PhaseBar, request <- cmd, answer <- AnswerBar,
    sessions <- SessionsBar

(* The calls of the clients are linearizable, and each one that is served  *)
(* returns: every behaviour of the driver, the monitor, the main loop, the *)
(* handlers and the scheduler is one of SessionService.                    *)
Implements == Abstract!Spec

=============================================================================
