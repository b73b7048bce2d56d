------------------------ MODULE MCManagerWithdrawal ------------------------
(* The small world of MCModRegistrar, on a server or client, with five of its *)
(* manifests, where the managers of both types come and go at any moment.     *)
EXTENDS MCModRegistrar, ManagerWithdrawal

MCInitWithdrawal == InitWithdrawal /\ android = FALSE
MCSpecWithdrawal ==
    MCInitWithdrawal /\ [][NextWithdrawal /\ UNCHANGED android]_<<wvars, android>>

MCFewManifests == {A1, A2, B1, C1, C2}
=============================================================================
