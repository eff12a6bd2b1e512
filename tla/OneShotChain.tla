---------------------------- MODULE OneShotChain ----------------------------
(***************************************************************************)
(* What a claimed smoke run promises to whoever pays for it, and nothing   *)
(* about how: every stage's request leaves at most once, in the order of   *)
(* the chain, and none leaves after the run has ended, however often the   *)
(* process that owned it is started again.                                 *)
(***************************************************************************)
EXTENDS Naturals

CONSTANTS Stages,   \* the stages of the chain
          Place     \* the place of each stage in the order

VARIABLES
    sent,     \* how many requests of each stage left the process
    ended     \* the run can send nothing any more

Init == sent = [s \in Stages |-> 0] /\ ended = FALSE

Deliver(s) ==
    /\ ~ended /\ sent[s] = 0
    /\ \A t \in Stages : Place[t] < Place[s] => sent[t] = 1
    /\ sent' = [sent EXCEPT ![s] = 1]
    /\ UNCHANGED ended

End == ~ended /\ ended' = TRUE /\ UNCHANGED sent

Next == End \/ \E s \in Stages : Deliver(s)

Spec == Init /\ [][Next]_<<sent, ended>>
=============================================================================
