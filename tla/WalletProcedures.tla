---------------------------- MODULE WalletProcedures ----------------------------
(***************************************************************************)
(* What the stored procedures promise the service that calls them: how a   *)
(* repeated call is recognised, and which refusals they raise.  The parts  *)
(* that move money are modelled statement by statement in Posting,         *)
(* WithdrawTrack, Restraints and MerchantGroup.                            *)
(*                                                                         *)
(* KEYED      the key of the call is claimed in WLT_API_MESSAGE            *)
(* REVERSAL   as KEYED, and the answer says was_already_reversed           *)
(* STEP       an UPDATE that names the state it leaves: again is a no-op   *)
(* GUARDED    the row is locked and its state read: again is refused       *)
(* UNIQUE     a duplicate is looked for, and a unique index stands behind  *)
(* OVERWRITE  again leaves the same state                                  *)
(* APPEND     again adds another row                                       *)
(***************************************************************************)
EXTENDS Integers

Proc(class, again, refusals) == [class |-> class, again |-> again, refusals |-> refusals]
Keyed(refusals) == Proc("KEYED", "DUPLICATE_REFERENCE", refusals)
Reversal(refusals) == Proc("REVERSAL", "DUPLICATE_REFERENCE", refusals)

post_topup == Keyed({"INVALID_AMOUNT", "ACCT_NOT_FOUND", "ACCT_ROLE_INVALID", "ACCT_NOT_ACTIVE",
                     "CR_RESTRAINT_ACTIVE"})
post_transfer == Keyed({"FROM_ACCT_NOT_FOUND", "TO_ACCT_NOT_ACTIVE", "TIER_INSUFFICIENT",
                        "AMOUNT_OUT_OF_RANGE", "DR_RESTRAINT_ACTIVE", "INSUFFICIENT_FUNDS"})
post_withdraw == Keyed({"PII_DEK_NOT_SET", "TRAN_TYPE_INACTIVE", "ACCT_NOT_FOUND",
                        "INSUFFICIENT_FUNDS"})
post_fee_charge == Keyed({"TRAN_TYPE_INACTIVE", "ACCT_NOT_ACTIVE", "INSUFFICIENT_FUNDS"})
post_merchant_deposit == Keyed({"GROUP_NOT_FOUND", "GROUP_NOT_ACTIVE", "SETTLEMENT_NOT_FOUND",
                                "CR_RESTRAINT_ACTIVE"})
post_merchant_withdraw == Keyed({"AMOUNT_OUT_OF_RANGE", "GROUP_NOT_FOUND", "GROUP_RESTRAINED",
                                 "INSUFFICIENT_FUNDS"})
post_withdraw_reversal == Reversal({"WD_NOT_FOUND", "WD_ALREADY_COMPLETED",
                                    "REVERSAL_WINDOW_EXPIRED"})
post_transfer_reversal == Reversal({"TRAN_NOT_FOUND", "REVERSAL_WINDOW_EXPIRED",
                                    "CR_RESTRAINT_ACTIVE", "INSUFFICIENT_FUNDS"})
post_topup_reversal == Reversal({"TRAN_NOT_FOUND", "REVERSAL_WINDOW_EXPIRED", "ACCT_NOT_ACTIVE",
                                 "INSUFFICIENT_FUNDS"})
post_fee_charge_reversal == Reversal({"TRAN_NOT_FOUND", "REVERSAL_WINDOW_EXPIRED",
                                      "ACCT_NOT_ACTIVE"})
post_merchant_withdraw_reversal == Reversal({"WD_NOT_FOUND", "REVERSAL_WINDOW_EXPIRED"})

\* Repeated, or called when the withdrawal is further on, a mark answers with no event.
mark_withdraw_acked == Proc("STEP", "WD_INVALID_STATE", {"WD_NOT_FOUND"})
mark_withdraw_disbursing == Proc("STEP", "WD_INVALID_STATE", {"WD_NOT_FOUND"})
mark_withdraw_completed == Proc("STEP", "WD_INVALID_STATE", {"WD_NOT_FOUND", "WD_ALREADY_REVERSED"})

activate_hot_wallet == Proc("GUARDED", "GROUP_ALREADY_ACTIVATED",
                            {"INVALID_SHARD_COUNT", "GROUP_NOT_FOUND"})
rescale_hot_wallet == Proc("GUARDED", "INVALID_SHARD_COUNT",
                           {"GROUP_NOT_FOUND", "GROUP_NOT_ACTIVATED"})
release_restraint == Proc("GUARDED", "RESTRAINT_ALREADY_REMOVED",
                          {"RESTRAINT_NOT_FOUND", "COURT_ORDER_REMOVE_REQUIRES_DOC"})
\* The maker of an entry is not its checker.
approve_manual_je == Proc("GUARDED", "MJE_INVALID_STATE",
                          {"MJE_NOT_FOUND", "MJE_MAKER_CANNOT_CHECK"})
reject_manual_je == Proc("GUARDED", "MJE_INVALID_STATE", {"MJE_NOT_FOUND"})

provision_acct_group == Proc("UNIQUE", "GROUP_ALREADY_EXISTS",
                             {"CLIENT_NOT_FOUND", "INVALID_GROUP_TYPE"})
create_manual_je == Proc("UNIQUE", "DUPLICATE_REFERENCE", {"MJE_UNBALANCED", "MJE_GL_INVALID"})
onboard_client == Proc("UNIQUE", "PHONE_ALREADY_REGISTERED",
                       {"PII_DEK_NOT_SET", "INVALID_PHONE_FORMAT", "ORG_FIELDS_REQUIRED"})
\* The duplicate is looked for by the identity document: a client without one, or whose
\* document has no type (NULLs are distinct in the index), can be created again.
create_client(fields) ==
  Proc(IF {"global_id", "global_id_type"} \subseteq fields THEN "UNIQUE" ELSE "APPEND",
       "CLIENT_ALREADY_EXISTS", {"INVALID_CLIENT_TYPE"})

update_client == Proc("OVERWRITE", "", {"CLIENT_NOT_FOUND"})
update_kyc == Proc("OVERWRITE", "", {"KYC_NOT_FOUND"})
update_account_status == Proc("OVERWRITE", "", {"ACCT_NOT_FOUND", "ACCT_CLOSE_NONZERO_BAL"})
set_default_client_bank == Proc("OVERWRITE", "", {"BANK_LINK_NOT_FOUND"})
attach_client_document == Proc("OVERWRITE", "", {"CLIENT_NOT_FOUND"})

add_restraint == Proc("APPEND", "", {"RESTRAINT_TYPE_INVALID", "RESTRAINT_AMT_EXCEEDS_BALANCE"})
open_account == Proc("APPEND", "", {"CLIENT_NOT_FOUND", "MAX_WALLET_PER_CLIENT_EXCEEDED"})
link_client_bank == Proc("APPEND", "", {"CLIENT_NOT_FOUND", "PII_DEK_NOT_SET"})
=============================================================================
