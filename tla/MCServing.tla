----------------------------- MODULE MCServing ------------------------------
(***************************************************************************)
(* Instance of Serving: two connections, each with requests that may be    *)
(* pipelined; both checks want the one worker thread, and the second       *)
(* registration is that of the first driver's card.                        *)
(***************************************************************************)
EXTENDS Serving, TLC

CONSTANTS c1, c2

Check          == [kind |-> "check"]
HealthProbe    == [kind |-> "health"]
Register(l, n) == [kind |-> "register", driver |-> [license |-> l, card |-> n]]

MCScript ==
    (c1 :> <<Check, Register("L1", "N1"), HealthProbe>>) @@
    (c2 :> <<Register("L2", "N1"), Check>>)
=============================================================================
