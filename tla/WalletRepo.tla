------------------------------- MODULE WalletRepo -------------------------------
(***************************************************************************)
(* The repository of the wallet service (internal/repo): which procedure or *)
(* query each method runs, on which pool, in what kind of transaction, and *)
(* which of its input reaches the database.  A call is a record that the   *)
(* machine in WalletApi carries out.                                       *)
(***************************************************************************)
EXTENDS WalletDomain, WalletProcedures, FiniteSets

-----------------------------------------------------------------------------
(* The pools and the wrapper: a call names the pool it takes a connection from, which *)
(* may be the primary's under another name *)

\* withTx: the procedure runs in a transaction of the primary, after the settings.
WriteTx(proc, args, result) ==
  [kind |-> "write", pools |-> {"primary"}, keys |-> TRUE, proc |-> proc, args |-> args,
   out |-> result, missing |-> "", limit |-> 0]

\* A query outside a transaction.  A missing row, or the missing account of an empty list,
\* is a not-found error.
Query(pool, view, missing, limit) ==
  [kind |-> "read", pools |-> {pool}, keys |-> FALSE, proc |-> Proc("QUERY", "", {}),
   args |-> {}, out |-> view, missing |-> missing, limit |-> limit]

\* A query that decrypts: in a transaction of its own that sets the key first.
readWithDEK(pool, view, missing, limit) == [Query(pool, view, missing, limit) EXCEPT !.keys = TRUE]

\* Several queries one after the other.
And(q, r) == [q EXCEPT !.pools = @ \cup r.pools, !.out = @ \cup r.out, !.keys = @ \/ r.keys]

\* The settings of a transaction: the trigger of the audit columns reads them.
setAuditGUCs(audit) == [actor |-> audit.actor, channel |-> audit.channel]

StopRetrying(attempt, retries, alive, e) ==   \* mutant: the budget is not looked at
  ~(alive /\ IsRetriable(e))

AnyError(attempt, retries, alive, e) ==       \* mutant: any failure is tried again
  ~(attempt < retries /\ alive)

OneMore(attempt, retries, alive, e) ==        \* mutant: one retry too many
  ~(attempt <= retries /\ alive /\ IsRetriable(e))

\* A failed transaction is the last one, unless it failed on a conflict, the budget is not
\* used up and the context has not ended.
withTx(attempt, retries, alive, e) ==
  ~(attempt < retries /\ alive /\ IsRetriable(e))

-----------------------------------------------------------------------------
(* Errors of the database *)

\* What a procedure raised: the code its message begins with.
httpStatusFor(code) ==
  CASE code \in {"INVALID_AMOUNT", "METADATA_TOO_LARGE", "METADATA_HAS_P1", "SAME_ACCOUNT",
                 "AMOUNT_OUT_OF_RANGE", "TRAN_TYPE_INACTIVE", "INVALID_PHONE_FORMAT",
                 "MJE_REASON_REQUIRED", "MJE_INVALID_LINES", "INVALID_REQUEST"} -> 400
    [] code \in {"MJE_MAKER_CANNOT_CHECK", "TIER_INSUFFICIENT"} -> 403
    [] code \in {"DR_RESTRAINT_ACTIVE", "CR_RESTRAINT_ACTIVE", "GROUP_RESTRAINED"} -> 423
    [] code \in {"INSUFFICIENT_FUNDS", "TIER_LIMIT_EXCEEDED", "ACCT_ROLE_INVALID",
                 "REVERSAL_WINDOW_EXPIRED", "INVALID_DATE", "BATCH_SIZE_EXCEEDED"} -> 422
    [] code \in {"RESTRAINT_TYPE_INVALID", "RESTRAINT_PURPOSE_INVALID",
                 "RESTRAINT_TYPE_PURPOSE_CONFLICT", "RESTRAINT_AMT_EXCEEDS_BALANCE",
                 "RESTRAINT_DATE_INVALID", "COURT_ORDER_REMOVE_REQUIRES_DOC",
                 "INVALID_CLIENT_TYPE", "INVALID_ACCT_TYPE", "ACCT_CLOSE_NONZERO_BAL",
                 "ORG_FIELDS_REQUIRED", "INVALID_SHARD_COUNT", "INVALID_GROUP_TYPE",
                 "MJE_GL_INVALID", "MJE_UNBALANCED"} -> 422
    [] code \in {"VERSION_CONFLICT", "WD_ALREADY_COMPLETED", "WD_ALREADY_REVERSED",
                 "WD_INVALID_STATE", "RESTRAINT_ALREADY_REMOVED", "CLIENT_ALREADY_EXISTS",
                 "PHONE_ALREADY_REGISTERED", "MAX_WALLET_PER_CLIENT_EXCEEDED",
                 "GROUP_ALREADY_ACTIVATED", "GROUP_ALREADY_EXISTS", "GROUP_NOT_ACTIVATED",
                 "MJE_INVALID_STATE", "PERIOD_CLOSED"} -> 409
    [] code = "GONE_ONLINE" -> 410
    [] code \in {"ACCT_NOT_FOUND", "FROM_ACCT_NOT_FOUND", "TO_ACCT_NOT_FOUND", "TRAN_NOT_FOUND",
                 "WD_NOT_FOUND", "GROUP_NOT_FOUND", "SETTLEMENT_NOT_FOUND", "CLIENT_NOT_FOUND",
                 "KYC_NOT_FOUND", "BANK_LINK_NOT_FOUND", "RESTRAINT_NOT_FOUND", "MJE_NOT_FOUND"}
         -> 404
    [] code \in {"ACCT_NOT_ACTIVE", "FROM_ACCT_NOT_ACTIVE", "TO_ACCT_NOT_ACTIVE",
                 "GROUP_NOT_ACTIVE"} -> 403
    [] OTHER -> 500

pgDomainError(code) == NewError(code, httpStatusFor(code))

\* An error of the context or of the driver, an SQLSTATE, or a code raised.
mapPgError(err) ==
  CASE err = "DEADLINE"           -> NewError("TIMEOUT", 504)
    [] err = "CANCELED"           -> NewError("TIMEOUT", 499)
    [] err = "BROKEN"             -> Internal
    [] err \in {"40001", "40P01"} -> Conflict("VERSION_CONFLICT")
    [] err = "55P03"              -> NewError("TIMEOUT", 503)
    [] err = "57014"              -> NewError("TIMEOUT", 504)
    [] err = "23505"              -> Conflict("DUPLICATE_REFERENCE")
    [] err \in {"23503", "23514"} -> InvalidRequest
    [] OTHER                      -> pgDomainError(err)

-----------------------------------------------------------------------------
(* Postings *)

Posting == {"actor", "channel"}

Topup(in) == WriteTx(post_topup, in \cup Posting, TopupResult)
Transfer(in) == WriteTx(post_transfer, in \cup Posting, TransferResult)
Withdraw(in) == WriteTx(post_withdraw, in \cup Posting, WithdrawResult)
MerchantWithdraw(in) == WriteTx(post_merchant_withdraw, in \cup Posting, MerchantWithdrawResult)
Reverse(in) == WriteTx(post_withdraw_reversal, in \cup Posting, ReversalResult)
markGeneric(proc, in, status) == WriteTx(proc, in \cup Posting, MarkResult \cup {status})
MarkAcked(in) == markGeneric(mark_withdraw_acked, in, "ACKED")
MarkDisbursing(in) == markGeneric(mark_withdraw_disbursing, in, "DISBURSING")
MarkCompleted(in) == markGeneric(mark_withdraw_completed, in, "COMPLETED")
PostFeeCharge(in) == WriteTx(post_fee_charge, in \cup Posting, FeeChargeResult)
ReverseFeeCharge(in) ==
  WriteTx(post_fee_charge_reversal, in \cup Posting, FeeChargeReversalResult)
ReverseTransfer(in) == WriteTx(post_transfer_reversal, in \cup Posting, TransferReversalResult)
ReverseTopup(in) == WriteTx(post_topup_reversal, in \cup Posting, TopupReversalResult)
ReverseMerchantWithdraw(in) ==
  WriteTx(post_merchant_withdraw_reversal, in \cup Posting, MerchantWithdrawReversalResult)

ProvisionAcctGroup(in) == WriteTx(provision_acct_group, in \cup Posting, ProvisionGroupResult)
ActivateHotWallet(in) == WriteTx(activate_hot_wallet, in \cup Posting, ActivateHotWalletResult)
RescaleHotWallet(in) == WriteTx(rescale_hot_wallet, in \cup Posting, RescaleHotWalletResult)
MerchantDeposit(in) == WriteTx(post_merchant_deposit, in \cup Posting, MerchantDepositResult)

-----------------------------------------------------------------------------
(* Accounts, restraints, journal entries, clients: the actor is a parameter, the channel *)
(* only a setting of the transaction *)

OpenAccount(in) == WriteTx(open_account, in \cup {"actor"}, AccountOpenResult)
UpdateAccountStatus(in) ==
  WriteTx(update_account_status, in \cup {"actor"}, AccountStatusResult)
AddRestraint(in) == WriteTx(add_restraint, in \cup {"actor"}, RestraintResult)
ReleaseRestraint(in) ==
  WriteTx(release_restraint, in \cup {"actor"}, RestraintResult \ {"pledged_amt"})

jeLineJSON(in) == in \cap ManualJELine
CreateManualJE(in) == WriteTx(create_manual_je,
  (in \ ManualJELine) \cup jeLineJSON(in) \cup {"actor"}, ManualJECreateResult)
ApproveManualJE(in) == WriteTx(approve_manual_je, in \cup {"actor"}, ManualJEApproveResult)
RejectManualJE(in) == WriteTx(reject_manual_je, in \cup {"actor"}, ManualJERejectResult)

CreateClient(in) == WriteTx(create_client(in), in \cup {"actor"}, ClientResult)

ForgetEmail(in) ==            \* mutant: a column is left out of the call
  WriteTx(onboard_client, (in \ {"email"}) \cup {"actor"}, OnboardResult)

OnboardClient(in) == WriteTx(onboard_client, in \cup {"actor"}, OnboardResult)
UpdateKYC(in) == WriteTx(update_kyc, in \cup {"actor"}, KycResult)
LinkClientBank(in) == WriteTx(link_client_bank, in \cup {"actor"}, BankLinkResult)
AttachClientDocument(in) ==
  WriteTx(attach_client_document, in \cup {"actor"}, AttachDocumentResult)
SetDefaultClientBank(in) == WriteTx(set_default_client_bank, in \cup {"actor"}, BankLinkResult)
UpdateClient(in) == WriteTx(update_client, in \cup {"actor"}, ClientResult)

\* The entry of the access log: one statement on the primary, outside a transaction.
LogPIIAccess(type) == [pool |-> "primary", type |-> type, args |-> PIIAccessEntry]

-----------------------------------------------------------------------------
(* Reads *)

GetBalance == Query("primary", BalanceView, NotFound, 0)
GetBalanceOps == Query("primary", BalanceOpsView, NotFound, 0)
GetBalanceAsOf == Query("primary", BalanceAsOf, NotFound, 0)
GetBalanceBatch == Query("primary", BalanceBatchItem, "", 0)

GetAccount == Query("read", AccountView, NotFound, 0)
ListAccountsByClient == Query("read", AccountView, NotFound, 0)
SearchAccounts(limit) ==
  Query("read", AccountSearchItem("client_name_masked"), "", Clamp(limit, AccountSearchSize))
SearchAccountsFull(limit) ==
  Query("pii", AccountSearchItem("client_name"), "", Clamp(limit, AccountSearchSize))
ListTransactions(limit) == Query("read", TxEntry, NotFound, Clamp(limit, TxPageSize))
GetTransaction == Query("primary", TxLeg, NotFound, 0)

restraintCols == RestraintView
ListRestraints(limit) == Query("read", restraintCols, NotFound, limit)
GetRestraint == Query("read", restraintCols, NotFound, 0)

manualJEHeaderCols == ManualJEView \ ManualJELineView
ListManualJE(limit) == Query("read", manualJEHeaderCols, "", Clamp(limit, ManualJEPageSize))
GetManualJE == And(Query("read", manualJEHeaderCols, "MJE_NOT_FOUND", 0),
                   Query("read", ManualJELineView, "", 0))
SuspenseAging == Query("read", SuspenseAgingRow, "", 0)

GetClient == Query("read", ClientView, NotFound, 0)
ListClients(limit) == Query("read", ClientView, "", limit)
GetClientFull == Query("pii", ClientFullView \ {"phone", "email"}, NotFound, 0)
ListClientsFull(limit) == readWithDEK("pii", ClientFullView, "", Clamp(limit, ClientPageSize))

getClientFullWithContacts == readWithDEK("pii", ClientFullView, NotFound, 0)
scanClientBanks(number) == ClientBankView(number)
listClientBanksMasked == readWithDEK("read", scanClientBanks("bank_acct_no_masked"), "", 0)
listClientBanksFull == readWithDEK("pii", scanClientBanks("bank_acct_no"), "", 0)
listRestraintsByClient == Query("read", restraintCols, "", 0)
GetClient360(unmask) ==
  LET profile == IF unmask THEN getClientFullWithContacts ELSE GetClient
      banks   == IF unmask THEN listClientBanksFull ELSE listClientBanksMasked
  IN [And(And(profile, banks), And(ListAccountsByClient, listRestraintsByClient))
        EXCEPT !.out = Client360(profile.out, banks.out)]
=============================================================================
