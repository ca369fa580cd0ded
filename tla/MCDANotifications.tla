------------------------- MODULE MCDANotifications --------------------------
(* A small instance of what brings a value from the source's callback to a  *)
(* consumer: the callback object (CallbackLifetime) and the pending set     *)
(* (DASubscription). They share no variable, so each behaviour follows one  *)
(* of them, the focus, and leaves the other in its initial state.           *)
EXTENDS DASubscription, CallbackLifetime

CONSTANTS h1, h2, t1, t2, g1, g2, g3

VARIABLE focus

TwoHandles == {h1, h2}
TwoThreads == {t1, t2}
ThreeGroups == {g1, g2, g3}

NotificationsInit == focus \in {"object", "set"} /\ Init /\ CallbackInit

NotificationsNext ==
    /\ \/ focus = "set" /\ Next /\ UNCHANGED callbackVars
       \/ focus = "object" /\ CallbackNext /\ UNCHANGED vars
    /\ UNCHANGED focus

NotificationsSpec ==
    /\ NotificationsInit /\ [][NotificationsNext]_<<focus, vars, callbackVars>>
    /\ focus = "set" => Fairness
=============================================================================
