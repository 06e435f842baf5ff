------------------------------ MODULE DmDisplay ------------------------------
(***************************************************************************)
(* What the deformable-mirror driver promises the process that publishes   *)
(* frames in dmvolt, seen actuator by actuator: the mirror shows frames in *)
(* the order they were published, may skip some, never shows one before it *)
(* was written or after a newer one, and, while the driver is on, does     *)
(* show the last one.                                                      *)
(***************************************************************************)
EXTENDS Naturals

CONSTANTS Actuators, MaxFrame

VARIABLES
  published,   \* per actuator, the last frame written
  shown,       \* per actuator, the frame on the mirror
  on           \* the driver is running

displayVars == <<published, shown, on>>

FrameNumbers == 0 .. MaxFrame

Init == /\ published = [a \in Actuators |-> 0]
        /\ shown = [a \in Actuators |-> 0]
        /\ on = FALSE

Publish(a) == /\ \E k \in FrameNumbers : /\ k > published[a]
                                         /\ published' = [published EXCEPT ![a] = k]
              /\ UNCHANGED <<shown, on>>

Refresh(a) == /\ \E k \in FrameNumbers : /\ shown[a] < k /\ k <= published[a]
                                         /\ shown' = [shown EXCEPT ![a] = k]
              /\ UNCHANGED <<published, on>>

Switch == on' = ~on /\ UNCHANGED <<published, shown>>

Next == (\E a \in Actuators : Publish(a) \/ Refresh(a)) \/ Switch

(* A published frame, or a newer one, is shown unless the driver stops.    *)
EventuallyShown ==
  \A a \in Actuators, k \in FrameNumbers :
    on /\ published[a] >= k ~> ~on \/ shown[a] >= k

(* The order alone, which is safety.                                       *)
InOrder == Init /\ [][Next]_displayVars

Spec == InOrder /\ EventuallyShown
=============================================================================
