----------------------------- MODULE MCUserDrive -----------------------------
(* Instances of UserDrive for TLC: the owner and two users.               *)
EXTENDS UserDrive, TLC

CONSTANTS adm, u1, u2

mcBounds == [crash |-> 1, fault |-> 1, disk |-> 1, drop |-> 1, cloud |-> 2, timer |-> 1, bind |-> 1,
             delete |-> 1, call |-> 2]
mcCloud == (adm :> "ACTIVE") @@ (u1 :> "ACTIVE") @@ (u2 :> "INACTIVE")
==============================================================================
