----------------------------- MODULE MCPetBody ------------------------------
(* Instances of PetBody for TLC: short times, few levels.                  *)
EXTENDS PetBody

MCRecovery ==
    [animation \in Animations |->
        CASE animation = "nap" -> [energy |-> 1, sleepiness |-> -2]
          [] animation = "sleepy" -> [energy |-> 1, sleepiness |-> -1]
          [] animation \in {"play", "excited", "walk"} -> [energy |-> -1, sleepiness |-> 0]
          [] OTHER -> [energy |-> 0, sleepiness |-> 0]]

=============================================================================
