------------------------------ MODULE MCRestraints ------------------------------
(***************************************************************************)
(* Instances of Restraints for TLC: two holds that share wallet 1, of one  *)
(* and of two days, and one on wallet 2.                                   *)
(***************************************************************************)
EXTENDS Restraints, TLC

MCAccounts == {1, 2}
MCHolds == {1, 2, 3}
MCAcctOf == 1 :> 1 @@ 2 :> 1 @@ 3 :> 2
MCPledge == 1 :> 1 @@ 2 :> 2 @@ 3 :> 1
MCCredit == {1, 3}
MCLead == [h \in MCHolds |-> 0]
MCDays == 1 :> 0 @@ 2 :> 1 @@ 3 :> 0
=============================================================================
