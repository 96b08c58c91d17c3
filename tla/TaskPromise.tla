----------------------------- MODULE TaskPromise -----------------------------
(***************************************************************************)
(* What a spawned task's handle promises to whoever holds it (VMTaskHandle *)
(* seen from outside): spawn issues it empty, it receives one result, and  *)
(* every await and every join sees that result from then on.               *)
(***************************************************************************)
CONSTANTS Handle, Result

VARIABLES issued, value

Init == issued = {} /\ value = [h \in Handle |-> "open"]

Issue(h) == /\ h \notin issued
            /\ issued' = issued \cup {h}
            /\ UNCHANGED value

Settle(h, r) == /\ h \in issued
                /\ value[h] = "open"
                /\ value' = [value EXCEPT ![h] = r]
                /\ UNCHANGED issued

Next == \E h \in Handle : Issue(h) \/ \E r \in Result : Settle(h, r)

Spec == Init /\ [][Next]_<<issued, value>>
=============================================================================
