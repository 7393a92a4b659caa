------------------------------ MODULE WalletHandler ------------------------------
(***************************************************************************)
(* The HTTP handlers of the wallet service (internal/http/handler): bind   *)
(* and check the request, copy it into the input of a use case, call it,   *)
(* and shape the answer.  A handler maps a request to a plan: the call of  *)
(* the repository and the answer for each outcome the call may have, or a  *)
(* refusal before anything is called.                                      *)
(*                                                                         *)
(* A request is [fields, malformed, limit, dated, rows]: the fields of its *)
(* body, whether a value of it breaks a rule, its page limit (0: not       *)
(* given), whether it asks for a day, the rows there are to list.          *)
(***************************************************************************)
EXTENDS WalletDto

U == INSTANCE WalletUsecase

\* What a call may come back with: the effect is new; it was there already; a sweep of the
\* shards must come first.  A reversal holds was_already_reversed where it says TRUE.
Outcomes == {"FRESH", "REPEAT", "SWEEP"}
Result(call, outcome) ==
  CASE outcome = "FRESH"  -> call.out \ {"was_already_reversed"}
    [] outcome = "REPEAT" ->
         IF call.proc.class = "KEYED" THEN call.out \cup {"DUPLICATE"}
         ELSE IF call.proc.class = "STEP" THEN call.out \ {"event_uuid"}
         ELSE call.out
    [] outcome = "SWEEP"  ->
         (call.out \ {"tran_key", "event_uuid"}) \cup {"SETTLEMENT_SWEEP_REQUIRED"}

renderValidationError == NewProblem("INVALID_REQUEST", 400)
renderError(e) == NewProblemFromError(e)
writeOK(status, data) == Ok(status, data)

AlwaysCreated(r) == 201          \* mutant: a duplicate is told as a new posting

statusFor(r) == IF "DUPLICATE" \in r THEN 200 ELSE 201

Created(r) == 201
Fetched(r) == 200

\* abortProblem: the answer is a problem, and nothing is called.
Refused(problem) == [kind |-> "refuse", problem |-> problem]

\* The frame of every handler, as in Topup: bind the body, call, answer.  A plan says which fields
\* of the body the handler took, the entry of the access log it writes, whether its answer shows
\* every row there is, and whether more rows were asked for than its query returns.
Handle(body, req, call, Resp(_), Status(_)) ==
  IF req.malformed \/ ~(body.required \subseteq req.fields) THEN Refused(renderValidationError)
  ELSE IF call.kind = "refuse" THEN Refused(renderError(call.error))
  ELSE [kind |-> call.kind, call |-> call, log |-> "", all |-> TRUE, over |-> FALSE,
        taken |-> req.fields \cap (body.required \cup body.optional),
        answers |-> [o \in Outcomes |-> LET r == Result(call, o) IN writeOK(Status(r), Resp(r))]]

\* An unmasked read is logged after it succeeded, before it is answered.
Logged(type, plan) ==
  IF plan.kind = "refuse" THEN plan ELSE [plan EXCEPT !.log = U!LogPIIAccess(type).type]

\* A page: the rows the query returns, out of those there are.
Rows(call, req) == IF call.limit > 0 /\ call.limit < req.rows THEN call.limit ELSE req.rows
\* A page shows everything there is, or not.
Paged(call, req, plan) ==
  IF plan.kind = "refuse" THEN plan
  ELSE [plan EXCEPT !.all = Rows(call, req) = req.rows, !.over = req.limit > call.limit]

-----------------------------------------------------------------------------
(* Postings *)

Topup(req) ==
  Handle(TopupRequest, req, U!Topup(req.fields \cap TopupInput), TopupRespFrom, statusFor)

\* The two accounts differ: a rule of the request.
Transfer(req) ==
  Handle(TransferRequest, req, U!Transfer(req.fields \cap TransferInput, FALSE),
         TransferRespFrom, statusFor)

Withdraw(req) ==
  Handle(WithdrawRequest, req, U!Withdraw(req.fields \cap WithdrawInput),
         WithdrawRespFrom, statusFor)

\* auto_sweep is on unless the caller turns it off.
MerchantWithdraw(req) ==
  Handle(MerchantWithdrawRequest, req,
         U!MerchantWithdraw((req.fields \cup {"auto_sweep"}) \cap MerchantWithdrawInput),
         MerchantWithdrawRespFrom, statusFor)

MarkAcked(req) ==
  Handle(AckRequest, req, U!MarkAcked((req.fields \cup {"ext_payout_ref"}) \cap AckInput),
         MarkRespFrom, Fetched)

MarkDisbursing(req) ==
  Handle(NoBody, req, U!MarkDisbursing(DisbursingInput), MarkRespFrom, Fetched)

MarkCompleted(req) ==
  Handle(CompletedRequest, req,
         U!MarkCompleted((req.fields \cup {"ext_payout_ref"}) \cap CompletedInput),
         MarkRespFrom, Fetched)

Reverse(req) ==
  Handle(ReversalRequest, req, U!Reverse((req.fields \cup {"ext_payout_ref"}) \cap ReversalInput),
         ReversalRespFrom, Fetched)

FeeCharge(req) ==
  Handle(FeeChargeRequest, req, U!PostFeeCharge(req.fields \cap FeeChargeInput),
         FeeChargeRespFrom, statusFor)

\* The initiator of a reversal is OPS_MANUAL unless it is given.
ReverseFeeCharge(req) ==
  Handle(FeeChargeReversalRequest, req,
         U!ReverseFeeCharge((req.fields \cup {"initiator"}) \cap FeeChargeReversalInput),
         FeeChargeReversalRespFrom, Fetched)

ReverseTransfer(req) ==
  Handle(TransferReversalRequest, req,
         U!ReverseTransfer((req.fields \cup {"initiator"}) \cap TransferReversalInput),
         TransferReversalRespFrom, Fetched)

ReverseTopup(req) ==
  Handle(TopupReversalRequest, req,
         U!ReverseTopup((req.fields \cup {"initiator"}) \cap TopupReversalInput),
         TopupReversalRespFrom, Fetched)

ReverseMerchantWithdraw(req) ==
  Handle(MerchantWithdrawReversalRequest, req,
         U!ReverseMerchantWithdraw(
           (req.fields \cup {"initiator"}) \cap MerchantWithdrawReversalInput),
         MerchantWithdrawReversalRespFrom, Fetched)

-----------------------------------------------------------------------------
(* Merchant groups: what the caller leaves out has a default *)

ActivateHotWallet(req) ==
  Handle(ActivateHotWalletRequest, req, U!ActivateHotWallet({"group_id", "shard_count"}),
         ActivateHotWalletRespFrom, Created)

ProvisionAcctGroup(req) ==
  Handle(ProvisionGroupRequest, req,
         U!ProvisionAcctGroup((req.fields \cup {"group_type", "acct_type", "ccy"})
                              \cap ProvisionGroupInput),
         ProvisionGroupRespFrom, Created)

RescaleHotWallet(req) ==
  Handle(RescaleHotWalletRequest, req,
         U!RescaleHotWallet((req.fields \cup {"group_id"}) \cap RescaleHotWalletInput),
         RescaleHotWalletRespFrom, Fetched)

MerchantDeposit(req) ==
  Handle(MerchantDepositRequest, req, U!MerchantDeposit(req.fields \cap MerchantDepositInput),
         MerchantDepositRespFrom, statusFor)

-----------------------------------------------------------------------------
(* Accounts and balances *)

\* The answer repeats three fields of the request.
OpenAccount(req) ==
  Handle(OpenAccountRequest, req, U!OpenAccount(req.fields \cap AccountOpenInput),
         LAMBDA r : (r \cap AccountOpenResponse) \cup {"client_no", "acct_type", "ccy"}, Created)

UpdateAccountStatus(req) ==
  Handle(UpdateAccountStatusRequest, req,
         U!UpdateAccountStatus((req.fields \cup {"acct_no"}) \cap AccountStatusInput),
         AccountStatusRespFrom, Fetched)

GetAccount(req) == Handle(NoBody, req, U!GetAccount, AccountRespFrom, Fetched)
ListAccountsByClient(req) ==
  Handle(NoBody, req, U!ListAccountsByClient, AccountListRespFrom, Fetched)

\* At least six characters to search for.
parseAccountSearch == Body({"q"}, {"limit"})
SearchAccounts(req) ==
  LET call == U!SearchAccounts(Clamp(req.limit, AccountSearchSize))
  IN Paged(call, req, Handle(parseAccountSearch, req, call, AccountSearchRespFrom, Fetched))
SearchAccountsFull(req) ==
  LET call == U!SearchAccountsFull(Clamp(req.limit, AccountSearchSize))
  IN Logged("ACCOUNT_SEARCH", Paged(call, req,
       Handle(parseAccountSearch, req, call, AccountSearchRespFrom, Fetched)))

GetBalance(req) ==
  IF req.dated THEN Handle(NoBody, req, U!GetBalanceAsOf, BalanceAsOfRespFrom, Fetched)
               ELSE Handle(NoBody, req, U!GetBalance, BalanceRespFrom, Fetched)
GetBalanceOps(req) == Handle(NoBody, req, U!GetBalanceOps, BalanceOpsRespFrom, Fetched)
GetBalanceBatch(req) ==
  Handle(BalanceBatchRequest, req, U!GetBalanceBatch, BalanceBatchRespFrom, Fetched)

-----------------------------------------------------------------------------
(* Statements *)

ListTransactions(req) ==
  LET limit == Clamp(req.limit, TxPageSize)
      call  == U!ListTransactions(limit)
  IN Paged(call, req, Handle(Body({"acct_no"}, TxListQuery), req, call,
             LAMBDA v : TxListRespFrom(limit, v, Rows(call, req)), Fetched))

GetTransaction(req) == Handle(NoBody, req, U!GetTransaction, TxDetailRespFrom, Fetched)

-----------------------------------------------------------------------------
(* Restraints *)

AddRestraint(req) ==
  Handle(AddRestraintRequest, req, U!AddRestraint(req.fields \cap RestraintInput),
         RestraintRespFrom, Created)

ReleaseRestraint(req) ==
  Handle(ReleaseRestraintRequest, req,
         U!ReleaseRestraint((req.fields \cup {"id"}) \cap ReleaseRestraintInput),
         RestraintRespFrom, Fetched)

ListRestraints(req) ==
  LET limit == Clamp(req.limit, RestraintPageSize)
      call  == U!ListRestraints(limit)
  IN Paged(call, req, Handle(Body({"acct_no"}, RestraintListQuery), req, call,
             LAMBDA v : RestraintListRespFrom(limit, v, Rows(call, req)), Fetched))

GetRestraint(req) == Handle(NoBody, req, U!GetRestraint, RestraintViewRespFrom, Fetched)

-----------------------------------------------------------------------------
(* Manual journal entries *)

CreateManualJE(req) ==
  Handle(CreateManualJERequest, req, U!CreateManualJE(ToInput(req.fields)),
         ManualJECreateRespFrom, Created)

\* Both are decideManualJE with an action of their own.
ApproveManualJE(req) ==
  Handle(ManualJEDecisionRequest, req,
         U!ApproveManualJE((req.fields \cup {"je_id"}) \cap ManualJEDecisionInput),
         ManualJEApproveRespFrom, Fetched)
RejectManualJE(req) ==
  Handle(ManualJEDecisionRequest, req,
         U!RejectManualJE((req.fields \cup {"je_id"}) \cap ManualJEDecisionInput),
         ManualJERejectRespFrom, Fetched)

\* The one list whose limit is bounded behind the handler's back: asked for more rows than a
\* page holds, it takes the full page for the last one.
ListManualJE(req) ==
  LET limit == IF req.limit > 0 THEN req.limit ELSE ManualJEPageSize[1]
      call  == U!ListManualJE(limit)
  IN Paged(call, req, Handle(Body({}, ManualJEListQuery), req, call,
             LAMBDA v : ManualJEListRespFrom(limit, v, Rows(call, req)), Fetched))

GetManualJE(req) == Handle(NoBody, req, U!GetManualJE, ManualJEViewRespFrom, Fetched)
SuspenseAging(req) == Handle(NoBody, req, U!SuspenseAging, SuspenseAgingRespFrom, Fetched)

-----------------------------------------------------------------------------
(* Clients *)

CreateClient(req) ==
  Handle(CreateClientRequest, req, U!CreateClient(req.fields \cap ClientCreateInput),
         ClientRespFrom, Created)

UpdateClient(req) ==
  Handle(UpdateClientRequest, req,
         U!UpdateClient((req.fields \cup {"client_no"}) \cap ClientUpdateInput),
         ClientRespFrom, Fetched)

Onboard(req) ==
  Handle(OnboardRequest, req, U!OnboardClient(req.fields \cap OnboardInput),
         OnboardRespFrom, Created)

UpdateKYC(req) ==
  Handle(KycUpdateRequest, req, U!UpdateKYC((req.fields \cup {"client_no"}) \cap KycUpdateInput),
         KycRespFrom, Fetched)

LinkClientBank(req) ==
  Handle(LinkBankRequest, req,
         U!LinkClientBank((req.fields \cup {"client_no", "is_default"}) \cap BankLinkInput),
         BankLinkRespFrom, Created)

AttachClientDocument(req) ==
  Handle(AttachDocumentRequest, req,
         U!AttachClientDocument((req.fields \cup {"client_no"}) \cap AttachDocumentInput),
         AttachDocumentRespFrom, Fetched)

SetDefaultClientBank(req) ==
  Handle(NoBody, req, U!SetDefaultClientBank(SetDefaultBankInput), BankLinkRespFrom, Fetched)

GetClient(req) == Handle(NoBody, req, U!GetClient, ClientProfileRespFrom, Fetched)
GetClient360(req) == Handle(NoBody, req, U!GetClient360(FALSE), Client360RespFrom, Fetched)
GetClientFull(req) ==
  Logged("CLIENT_PROFILE", Handle(NoBody, req, U!GetClientFull, ClientFullRespFrom, Fetched))

\* mutant: the unmasked view is not logged
GetClientFull360Unlogged(req) ==
  Handle(NoBody, req, U!GetClient360(TRUE), Client360RespFrom, Fetched)

GetClientFull360(req) ==
  Logged("CLIENT_360", Handle(NoBody, req, U!GetClient360(TRUE), Client360RespFrom, Fetched))

\* mutant: one page more than the query returns
parseClientListQueryUnbounded(req) == IF req.limit > 0 THEN req.limit ELSE ClientPageSize[1]

parseClientListQuery(req) == Clamp(req.limit, ClientPageSize)
ListClients(req) ==
  LET call == U!ListClients(parseClientListQuery(req))
  IN Paged(call, req, Handle(Body({}, ClientListQuery), req, call,
       LAMBDA v : ClientListRespFrom(parseClientListQuery(req), v, Rows(call, req)), Fetched))
ListClientsFull(req) ==
  LET call == U!ListClientsFull(parseClientListQuery(req))
  IN Logged("CLIENT_LIST", Paged(call, req, Handle(Body({}, ClientListQuery), req, call,
       LAMBDA v : ClientFullListRespFrom(parseClientListQuery(req), v, Rows(call, req)), Fetched)))
=============================================================================
