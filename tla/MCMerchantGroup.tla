---------------------------- MODULE MCMerchantGroup ----------------------------
(* A group that grows from none to one to two shards, one deposit of 2, a withdrawal of 3 with *)
(* a fee of 1 that sweeps, another that asks for the sweep, a charge of 1 to the first shard, a *)
(* transfer of 1, and the reversals of the last three. *)
EXTENDS MerchantGroup, TLC

MCTiers == {1, 2}
Deposit(f, amount) == [op |-> "DEPOSIT", ref |-> f, amt |-> amount]
Withdrawal(f, amount, auto) ==
  [op |-> "WITHDRAW", ref |-> f, amt |-> amount, fee |-> 1, auto |-> auto]
Charged(f, account, amount) == [op |-> "CHARGE", ref |-> f, acct |-> account, amt |-> amount]
Transfer(f, amount) == [op |-> "TRANSFER", ref |-> f, amt |-> amount]
Reversal(of, f) == [op |-> "REVERSAL", of |-> of, ref |-> f]
Grow == {[op |-> "ACTIVATE", tier |-> 1], [op |-> "RESCALE", tier |-> 2]}
SweepShard(i, trigger) == [op |-> "SWEEP", shard |-> i, trigger |-> trigger]

MCRequests == Grow \cup
  {Deposit("d", 2), Withdrawal("w", 3, TRUE), Withdrawal("w", 3, FALSE), Charged("c", 1, 1),
   Transfer("d", 1), Reversal("WITHDRAW", "w"), Reversal("CHARGE", "c"), Reversal("TRANSFER", "d"),
   SweepShard(1, "PERIODIC")}
SweepFirstRequests ==
  Grow \cup {Deposit("d", 2), Withdrawal("w", 2, FALSE), SweepShard(1, "URGENT")}

Symmetry == Permutations(Sessions)
=============================================================================
