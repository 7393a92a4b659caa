---------------------------- MODULE MCWithdrawTrack ----------------------------
(***************************************************************************)
(* Instances of WithdrawTrack for TLC.                                     *)
(***************************************************************************)
EXTENDS WithdrawTrack

MCPayouts == {1, 2, 3}
MCTooLate == {1, 2}
=============================================================================
