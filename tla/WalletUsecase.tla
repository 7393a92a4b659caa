------------------------------ MODULE WalletUsecase ------------------------------
(***************************************************************************)
(* The use cases of the wallet service (internal/usecase): one method per  *)
(* operation of the repository behind the port R.  Beyond the call they    *)
(* log, refuse a transfer to the account it comes from, and bound pages.   *)
(***************************************************************************)
EXTENDS WalletDomain

R == INSTANCE WalletRepo

Refuse(e) == [kind |-> "refuse", error |-> e]

Topup(in) == R!Topup(in)
Transfer(in, same) ==
  IF same THEN Refuse(NewError("SAME_ACCOUNT", 400)) ELSE R!Transfer(in)
Withdraw(in) == R!Withdraw(in)
MerchantWithdraw(in) == R!MerchantWithdraw(in)
Reverse(in) == R!Reverse(in)
markTransition(call) == call
MarkAcked(in) == markTransition(R!MarkAcked(in))
MarkDisbursing(in) == markTransition(R!MarkDisbursing(in))
MarkCompleted(in) == markTransition(R!MarkCompleted(in))
PostFeeCharge(in) == R!PostFeeCharge(in)
ReverseFeeCharge(in) == R!ReverseFeeCharge(in)
ReverseTransfer(in) == R!ReverseTransfer(in)
ReverseTopup(in) == R!ReverseTopup(in)
ReverseMerchantWithdraw(in) == R!ReverseMerchantWithdraw(in)

ProvisionAcctGroup(in) == R!ProvisionAcctGroup(in)
ActivateHotWallet(in) == R!ActivateHotWallet(in)
RescaleHotWallet(in) == R!RescaleHotWallet(in)
MerchantDeposit(in) == R!MerchantDeposit(in)

OpenAccount(in) == R!OpenAccount(in)
UpdateAccountStatus(in) == R!UpdateAccountStatus(in)
AddRestraint(in) == R!AddRestraint(in)
ReleaseRestraint(in) == R!ReleaseRestraint(in)
ListRestraints(limit) == R!ListRestraints(Clamp(limit, RestraintPageSize))
GetRestraint == R!GetRestraint

CreateManualJE(in) == R!CreateManualJE(in)
ApproveManualJE(in) == R!ApproveManualJE(in)
RejectManualJE(in) == R!RejectManualJE(in)
ListManualJE(limit) == R!ListManualJE(Clamp(limit, ManualJEPageSize))
GetManualJE == R!GetManualJE
SuspenseAging == R!SuspenseAging

GetBalance == R!GetBalance
GetBalanceOps == R!GetBalanceOps
GetBalanceAsOf == R!GetBalanceAsOf
GetBalanceBatch == R!GetBalanceBatch
GetAccount == R!GetAccount
ListAccountsByClient == R!ListAccountsByClient
SearchAccounts(limit) == R!SearchAccounts(Clamp(limit, AccountSearchSize))
SearchAccountsFull(limit) == R!SearchAccountsFull(Clamp(limit, AccountSearchSize))
ListTransactions(limit) == R!ListTransactions(Clamp(limit, TxPageSize))
GetTransaction == R!GetTransaction

CreateClient(in) == R!CreateClient(in)
UpdateClient(in) == R!UpdateClient(in)
OnboardClient(in) == R!OnboardClient(in)
UpdateKYC(in) == R!UpdateKYC(in)
GetClient == R!GetClient
GetClientFull == R!GetClientFull
ListClientsFull(limit) == R!ListClientsFull(Clamp(limit, ClientPageSize))
GetClient360(unmask) == R!GetClient360(unmask)
ListClients(limit) == R!ListClients(Clamp(limit, ClientPageSize))
LinkClientBank(in) == R!LinkClientBank(in)
\* Best effort: a failure is a line in the log of the service.
LogPIIAccess(type) == R!LogPIIAccess(type)
AttachClientDocument(in) == R!AttachClientDocument(in)
SetDefaultClientBank(in) == R!SetDefaultClientBank(in)
=============================================================================
