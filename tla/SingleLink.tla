----------------------------- MODULE SingleLink -----------------------------
(***************************************************************************)
(* What BehaviorClient (host/transport.py) promises about the socket it    *)
(* hands to its threads: "the lock and the double-check keep the host to a *)
(* single live socket".  There is no link or exactly one; a new one comes  *)
(* only after the old one is gone, and none comes once the client is shut. *)
(***************************************************************************)
CONSTANTS Sockets, None

VARIABLES link, shut

vars == <<link, shut>>

Init == link = None /\ shut = FALSE

Up(s) == /\ link = None /\ ~shut
         /\ link' = s
         /\ UNCHANGED shut

Down == /\ link # None
        /\ link' = None
        /\ UNCHANGED shut

Shut == /\ ~shut
        /\ shut' = TRUE
        /\ UNCHANGED link

Next == (\E s \in Sockets : Up(s)) \/ Down \/ Shut

Spec == Init /\ [][Next]_vars

=============================================================================
