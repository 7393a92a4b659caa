------------------------------ MODULE WalletDomain ------------------------------
(***************************************************************************)
(* The types of the wallet service (internal/domain).  A struct is the set *)
(* of its fields: what a layer copies, drops or adds of them is what the   *)
(* layers above and below this module say.  A value of personal data that  *)
(* has been masked is another field than the raw one.                      *)
(***************************************************************************)
EXTENDS Integers, Sequences

\* Who calls and through what: trace_id stands for the trace id and the traceparent.
AuditContext == {"actor", "channel", "request_id", "trace_id", "ip", "user_agent"}

\* Inputs of the postings, and what their procedures return.
TopupInput == {"acct_no", "amount", "reference", "narrative", "metadata"}
TransferInput == {"from_acct_no", "to_acct_no", "amount", "reference", "tran_type",
                  "narrative", "metadata"}
WithdrawInput == {"acct_no", "amount", "reference", "ext_payout_ref", "beneficiary_bank",
                  "beneficiary_acct", "narrative", "metadata"}
MerchantWithdrawInput == {"group_id", "amount", "reference", "ext_payout_ref", "auto_sweep"}
ReversalInput == {"ext_payout_ref", "fail_code", "fail_reason", "initiator"}
AckInput == {"ext_payout_ref", "treasury_batch_id"}
DisbursingInput == {"ext_payout_ref"}
CompletedInput == {"ext_payout_ref", "napas_ref"}
FeeChargeInput == {"acct_no", "amount", "reference", "fee_code", "narrative", "metadata"}
FeeChargeReversalInput == {"reference", "reason", "initiator"}
TransferReversalInput == {"reference", "reason", "initiator"}
TopupReversalInput == {"reference", "reason", "initiator"}
MerchantWithdrawReversalInput == {"reference", "fail_code", "fail_reason", "initiator"}

TopupResult == {"tran_key", "status", "new_balance", "event_uuid"}
TransferResult == {"tran_key", "status", "new_balance_from", "new_balance_to", "fee_gross",
                   "vat_amount", "event_uuid"}
WithdrawResult == {"tran_key", "status", "new_balance", "fee_gross", "vat_amount", "event_uuid"}
ReversalResult == {"reversal_tran_key", "was_already_reversed", "event_uuid"}
MerchantWithdrawResult == {"tran_key", "status", "amount", "fee_gross", "vat_amount",
                           "total_deducted", "settlement_balance_after", "event_uuid"}
MarkResult == {"acct_no", "status", "event_uuid"}
FeeChargeResult == {"tran_key", "status", "fee_gross", "vat_amount", "new_balance", "event_uuid"}
FeeChargeReversalResult == {"reversal_tran_key", "was_already_reversed", "new_balance",
                            "event_uuid"}
TransferReversalResult == {"reversal_tran_key", "was_already_reversed", "new_balance_from",
                           "new_balance_to", "event_uuid"}
TopupReversalResult == {"reversal_tran_key", "was_already_reversed", "new_balance", "event_uuid"}
MerchantWithdrawReversalResult == {"reversal_tran_key", "was_already_reversed",
                                   "settlement_balance_after", "event_uuid"}

\* Merchant groups.
ProvisionGroupInput == {"client_no", "group_id", "group_type", "acct_type", "ccy",
                        "shard_threshold", "shard_buffer", "sweep_interval_sec"}
ProvisionGroupResult == {"group_id", "settlement_acct_no", "settlement_internal_key",
                         "group_type", "group_status"}
RescaleHotWalletInput == {"group_id", "new_shard_count"}
RescaleHotWalletResult == {"group_id", "old_shard_count", "new_shard_count",
                           "settlement_acct_no", "added_acct_nos", "rebalanced_amount"}
MerchantDepositInput == {"group_id", "amount", "reference", "metadata"}
MerchantDepositResult == {"tran_key", "status", "target_acct_no", "shard_index", "new_balance",
                          "event_uuid"}
ActivateHotWalletInput == {"group_id", "shard_count"}
ActivateHotWalletResult == {"group_id", "shard_count", "settlement_acct_no", "shard_acct_nos"}

\* Manual journal entries.
ManualJELine == {"gl_code", "tran_nature", "line_amount", "line_client_no", "line_narrative"}
ManualJEInput == {"reference", "ccy", "reason", "narrative", "accounting_date"} \cup ManualJELine
ManualJEDecisionInput == {"je_id", "reason"}
ManualJECreateResult == {"je_id", "status", "total_dr", "total_cr", "line_count"}
ManualJEApproveResult == {"je_id", "status", "gl_tran_key", "posted_lines"}
ManualJERejectResult == {"je_id", "status"}
ManualJELineView == {"line_no"} \cup ManualJELine
ManualJEView == {"je_id", "reference", "accounting_date", "ccy", "narrative", "reason", "status",
                 "total_dr", "total_cr", "gl_tran_key", "maker_id", "checker_id", "check_reason"}
                \cup ManualJELineView
ManualJEListQuery == {"status", "limit", "before_id"}

\* Restraints.
RestraintInput == {"acct_no", "restraint_type", "restraint_purpose", "pledged_amt", "start_date",
                   "end_date", "narrative", "reference_doc"}
ReleaseRestraintInput == {"id", "reason"}
RestraintResult == {"restraint_id", "status", "pledged_amt", "available_bal_after", "version"}
RestraintView == {"restraint_id", "acct_no", "restraint_type", "restraint_purpose", "pledged_amt",
                  "start_date", "end_date", "status", "narrative", "reference_doc", "created_by",
                  "removed_by", "removed_reason"}
RestraintListQuery == {"acct_no", "limit", "before_seq"}

\* Accounts, balances and transactions.
AccountOpenInput == {"client_no", "acct_type", "ccy"}
AccountOpenResult == {"acct_no", "internal_key", "acct_status"}
AccountStatusInput == {"acct_no", "status"}
AccountStatusResult == {"acct_no", "acct_status", "version"}
AccountView == {"acct_no", "client_no", "acct_desc", "acct_type", "ccy", "acct_status",
                "acct_role", "actual_bal", "restrained_amt", "calc_bal", "prev_day_bal",
                "cr_blocked", "version", "group_id", "shard_index"}
AccountSearchItem(name) == {"acct_no", "client_no", name}
BalanceView == {"acct_no", "ccy", "acct_status", "actual_bal", "available_bal", "restrained_amt",
                "masked", "message", "last_tran_date", "as_of"}
BalanceOpsView == {"acct_no", "client_no", "ccy", "acct_status", "actual_bal", "ledger_bal",
                   "calc_bal", "available_bal", "restrained_amt", "cr_blocked",
                   "active_restraints", "version", "previous_day_bal", "as_of"}
BalanceAsOf == {"acct_no", "ccy", "actual_bal", "tran_date", "source"}
BalanceBatchItem == {"acct_no", "ccy", "actual_bal", "available_bal", "restrained_amt"}
TxEntry == {"seq_no", "tran_key", "tran_type", "dr_cr", "amount", "ccy", "balance_after",
            "post_date", "value_date", "reference", "tran_desc", "narrative"}
TxLeg == TxEntry \cup {"tfr_seq_no", "internal_key", "acct_no", "metadata"}
TxListQuery == {"acct_no", "limit", "before_seq", "from", "to"}
SuspenseAgingRow == {"gl_code", "gl_desc", "ccy", "net_balance", "buckets", "oldest_post_date"}

\* Clients.  bank_acct_no is the number of a linked bank account.
ClientCreateInput == {"client_name", "client_type", "global_id", "global_id_type", "country_loc",
                      "country_citizen", "surname", "given_name", "birth_date", "sex"}
ClientUpdateInput == {"client_no", "client_name", "status", "country_loc", "country_citizen",
                      "surname", "given_name", "birth_date", "sex"}
ClientResult == {"client_no", "status", "timestamp"}
OnboardInput == {"client_name", "client_type", "phone", "global_id", "global_id_type", "email",
                 "country_loc", "country_citizen", "acct_type", "ccy", "birth_date", "sex",
                 "date_issue", "expire_date", "place_issue", "extra_data"}
OnboardResult == {"client_no", "acct_no", "internal_key", "kyc_tier", "kyc_status", "balance",
                  "ccy", "created_at"}
KycUpdateInput == {"client_no", "kyc_tier", "status", "risk_level", "ekyc_provider", "ekyc_ref",
                   "face_match_score", "liveness_result", "extra_data"}
KycResult == {"client_no", "kyc_tier", "status", "risk_level", "verified_at"}
BankLinkInput == {"client_no", "bank_code", "acct_no", "bank_name", "acct_holder_name",
                  "is_default"}
SetDefaultBankInput == {"client_no", "link_id"}
BankLinkResult == {"link_id", "client_no", "is_default", "status", "timestamp"}
AttachDocumentInput == {"client_no", "doc_type", "link", "status"}
AttachDocumentResult == {"client_no", "doc_count", "related_docs"}
ClientView == {"client_no", "client_name_masked", "client_type", "global_id_type",
               "global_id_masked", "status", "birth_date", "sex", "kyc_tier", "kyc_status",
               "risk_level", "phone_masked", "verified_at"}
ClientFullView == {"client_no", "client_name", "client_type", "global_id", "global_id_type",
                   "status", "registered_date", "surname", "given_name", "birth_date", "sex",
                   "kyc_tier", "kyc_status", "risk_level", "verified_at", "phone", "email"}
ClientBankView(number) == {"link_id", "bank_code", "bank_name", number, "acct_holder_name",
                           "is_default", "bank_status"}
\* Exactly one of the two profiles.
Client360(profile, banks) == profile \cup AccountView \cup banks \cup RestraintView
ClientListQuery == {"limit", "after", "status", "client_type"}

\* Raw personal data.  A wallet and a linked bank account carry a copy of the name of their
\* holder in a column the ordinary role reads.
HolderName == {"acct_desc", "acct_holder_name"}
RawPii == {"client_name", "surname", "given_name", "global_id", "phone", "email", "bank_acct_no"}
          \cup HolderName
\* The kinds of entries of the access log.
PIIAccess == {"CLIENT_PROFILE", "CLIENT_360", "CLIENT_LIST", "ACCOUNT_SEARCH"}
PIIAccessEntry == {"access_type", "client_no", "detail", "actor"}

-----------------------------------------------------------------------------

\* <<default, maximum>> of the page sizes.
ClientPageSize == <<100, 200>>
ManualJEPageSize == <<100, 200>>
RestraintPageSize == <<100, 200>>
TxPageSize == <<200, 200>>
AccountSearchSize == <<50, 200>>
Clamp(limit, size) == IF limit <= 0 THEN size[1] ELSE IF limit > size[2] THEN size[2] ELSE limit

\* Errors: the canonical code and the HTTP status.
NewError(code, status) == [code |-> code, status |-> status]
InvalidRequest == NewError("INVALID_REQUEST", 400)
Conflict(code) == NewError(code, 409)
Internal == NewError("INTERNAL_ERROR", 500)
\* A read tells by the same code that there is no such account, client, transaction or
\* restraint.
NotFound == "ACCT_NOT_FOUND"

IsRetriable(e) == e.code = "VERSION_CONFLICT"

\* The codes that have metadata.  A code with a prefix (FROM_ACCT_NOT_FOUND) or of a
\* family falls back to its suffix: the second set holds those the procedures raise.
codeMeta == {
  "INVALID_AMOUNT", "AMOUNT_OUT_OF_RANGE", "METADATA_TOO_LARGE", "METADATA_HAS_P1",
  "SAME_ACCOUNT", "TRAN_TYPE_INACTIVE", "ACCT_NOT_FOUND", "ACCT_NOT_ACTIVE", "ACCT_ROLE_INVALID",
  "BATCH_UNBALANCED", "TIER_INSUFFICIENT", "DR_RESTRAINT_ACTIVE", "CR_RESTRAINT_ACTIVE",
  "GROUP_RESTRAINED", "INSUFFICIENT_FUNDS", "TIER_LIMIT_EXCEEDED", "VERSION_CONFLICT",
  "DUPLICATE_REFERENCE", "PII_DEK_NOT_SET", "WD_NOT_FOUND", "WD_ALREADY_COMPLETED",
  "WD_INVALID_STATE", "WD_ALREADY_REVERSED", "REVERSAL_WINDOW_EXPIRED", "INTERNAL_ERROR",
  "TIMEOUT", "UNAUTHORIZED", "FORBIDDEN", "INVALID_REQUEST", "INVALID_DATE", "GONE_ONLINE",
  "BATCH_SIZE_EXCEEDED", "PERIOD_CLOSED", "RESTRAINT_NOT_FOUND", "RESTRAINT_ALREADY_REMOVED",
  "RESTRAINT_TYPE_INVALID", "RESTRAINT_PURPOSE_INVALID", "RESTRAINT_TYPE_PURPOSE_CONFLICT",
  "RESTRAINT_AMT_EXCEEDS_BALANCE", "RESTRAINT_DATE_INVALID", "COURT_ORDER_REMOVE_REQUIRES_DOC",
  "INVALID_CLIENT_TYPE", "CLIENT_ALREADY_EXISTS", "CLIENT_NOT_FOUND", "PHONE_ALREADY_REGISTERED",
  "INVALID_PHONE_FORMAT", "KYC_NOT_FOUND", "ORG_FIELDS_REQUIRED", "BANK_LINK_NOT_FOUND",
  "INVALID_ACCT_TYPE", "MAX_WALLET_PER_CLIENT_EXCEEDED", "ACCT_CLOSE_NONZERO_BAL",
  "INVALID_SHARD_COUNT", "GROUP_ALREADY_ACTIVATED", "INVALID_GROUP_TYPE", "GROUP_ALREADY_EXISTS",
  "GROUP_NOT_ACTIVATED", "MJE_REASON_REQUIRED", "MJE_INVALID_LINES", "MJE_GL_INVALID",
  "MJE_UNBALANCED", "MJE_NOT_FOUND", "MJE_INVALID_STATE", "MJE_MAKER_CANNOT_CHECK"}
MetaFor == {"FROM_ACCT_NOT_FOUND", "TO_ACCT_NOT_FOUND", "TRAN_NOT_FOUND", "GROUP_NOT_FOUND",
            "SETTLEMENT_NOT_FOUND", "FROM_ACCT_NOT_ACTIVE", "TO_ACCT_NOT_ACTIVE",
            "GROUP_NOT_ACTIVE"}
IsClientSafeCode(code) == code # "INTERNAL_ERROR" /\ code \in codeMeta \cup MetaFor

\* ISO 20022 status of a successful callback.
TxStatusForMark == [ACKED |-> "ACTC", DISBURSING |-> "ACSP", COMPLETED |-> "ACSC"]
=============================================================================
