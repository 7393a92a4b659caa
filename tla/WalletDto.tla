------------------------------- MODULE WalletDto -------------------------------
(***************************************************************************)
(* The wire format (internal/http/dto): which fields a request must and may *)
(* carry, and what of a result or a view reaches the caller.  Of the rules *)
(* on a field's value only its presence is kept.                           *)
(***************************************************************************)
EXTENDS WalletDomain

Body(required, optional) == [required |-> required, optional |-> optional]
NoBody == Body({}, {})

-----------------------------------------------------------------------------
(* Postings *)

TopupRequest == Body({"acct_no", "amount", "reference"}, {"narrative", "metadata"})
TransferRequest == Body({"from_acct_no", "to_acct_no", "amount", "reference"},
                        {"tran_type", "narrative", "metadata"})
WithdrawRequest == Body({"acct_no", "amount", "reference", "ext_payout_ref", "beneficiary_bank",
                         "beneficiary_acct"}, {"narrative", "metadata"})
MerchantWithdrawRequest == Body({"group_id", "amount", "reference"},
                                {"ext_payout_ref", "auto_sweep"})
AckRequest == Body({"treasury_batch_id"}, {})
CompletedRequest == Body({"napas_ref"}, {})
ReversalRequest == Body({"fail_code", "fail_reason", "initiator"}, {})
FeeChargeRequest == Body({"acct_no", "amount", "reference"}, {"fee_code", "narrative", "metadata"})
FeeChargeReversalRequest == Body({"reference", "reason"}, {"initiator"})
TransferReversalRequest == Body({"reference", "reason"}, {"initiator"})
TopupReversalRequest == Body({"reference", "reason"}, {"initiator"})
MerchantWithdrawReversalRequest == Body({"reference", "fail_code", "fail_reason"}, {"initiator"})

TopupResponse == TopupResult
TransferResponse == TransferResult
WithdrawResponse == WithdrawResult
MerchantWithdrawResponse == MerchantWithdrawResult
MarkResponse == MarkResult
ReversalResponse == ReversalResult
FeeChargeResponse == FeeChargeResult
FeeChargeReversalResponse == FeeChargeReversalResult
TransferReversalResponse == TransferReversalResult
TopupReversalResponse == TopupReversalResult
MerchantWithdrawReversalResponse == MerchantWithdrawReversalResult

\* ISO 20022: a credit or a transfer is settled, a payout accepted for settlement.  A result
\* holds the field "status" and, where an answer depends on it, the status as well.
TopupRespFrom(r) == (r \cap TopupResponse) \cup {"ACSC"}
TransferRespFrom(r) == (r \cap TransferResponse) \cup {"ACSC"}
WithdrawRespFrom(r) == (r \cap WithdrawResponse) \cup {"ACTC"}
MerchantWithdrawRespFrom(r) ==
  (r \cap MerchantWithdrawResponse)
  \cup {IF "SETTLEMENT_SWEEP_REQUIRED" \in r THEN "PDNG" ELSE "ACTC"}
MarkRespFrom(r) ==
  (r \cap MarkResponse) \cup {TxStatusForMark[s] : s \in r \cap DOMAIN TxStatusForMark}
ReversalRespFrom(r) == r \cap ReversalResponse
FeeChargeRespFrom(r) == r \cap FeeChargeResponse
FeeChargeReversalRespFrom(r) == r \cap FeeChargeReversalResponse
TransferReversalRespFrom(r) == r \cap TransferReversalResponse
TopupReversalRespFrom(r) == r \cap TopupReversalResponse
MerchantWithdrawReversalRespFrom(r) == r \cap MerchantWithdrawReversalResponse

-----------------------------------------------------------------------------
(* Merchant groups *)

ActivateHotWalletRequest == Body({}, {"shard_count"})
ProvisionGroupRequest == Body({"client_no", "group_id"},
  {"group_type", "acct_type", "ccy", "shard_threshold", "shard_buffer", "sweep_interval_sec"})
RescaleHotWalletRequest == Body({"new_shard_count"}, {})
MerchantDepositRequest == Body({"group_id", "amount", "reference"}, {"metadata"})

ActivateHotWalletResponse == ActivateHotWalletResult
ProvisionGroupResponse == ProvisionGroupResult
RescaleHotWalletResponse == RescaleHotWalletResult
MerchantDepositResponse == MerchantDepositResult
ActivateHotWalletRespFrom(r) == r \cap ActivateHotWalletResponse
ProvisionGroupRespFrom(r) == r \cap ProvisionGroupResponse
RescaleHotWalletRespFrom(r) == r \cap RescaleHotWalletResponse
MerchantDepositRespFrom(r) == r \cap MerchantDepositResponse

-----------------------------------------------------------------------------
(* Manual journal entries, suspense.  The fields of a line stand for its list. *)

ManualJELineRequest == Body({"gl_code", "tran_nature", "line_amount"},
                            {"line_client_no", "line_narrative"})
CreateManualJERequest ==
  Body({"reference", "ccy", "reason"} \cup ManualJELineRequest.required,
       {"narrative", "accounting_date"} \cup ManualJELineRequest.optional)
ManualJEDecisionRequest == Body({}, {"reason"})
ToInput(fields) == fields \cap ManualJEInput

ManualJECreateResponse == ManualJECreateResult
ManualJEApproveResponse == ManualJEApproveResult
ManualJERejectResponse == ManualJERejectResult
ManualJELineResponse == ManualJELineView
ManualJEViewResponse == ManualJEView
ManualJECreateRespFrom(r) == r \cap ManualJECreateResponse
ManualJEApproveRespFrom(r) == r \cap ManualJEApproveResponse
ManualJERejectRespFrom(r) == r \cap ManualJERejectResponse
manualJEView(v) == v \cap (ManualJEViewResponse \cup ManualJELineResponse)
ManualJEViewRespFrom(v) == manualJEView(v)

SuspenseAgingRowResponse == SuspenseAgingRow
SuspenseAgingResponse == {"as_of", "count"} \cup SuspenseAgingRowResponse
SuspenseAgingRespFrom(v) == (v \cup {"as_of", "count"}) \cap SuspenseAgingResponse

\* A page leads to the next one when it holds as many rows as were asked for: a limit of 0
\* in the query the answer is built from never does.
Cursor(limit, rows) == IF limit > 0 /\ rows = limit THEN {"next_cursor"} ELSE {}
Page(response, v, limit, rows) ==
  (v \cup {"acct_no", "page_size", "count"} \cup Cursor(limit, rows)) \cap response

ManualJEListResponse ==
  {"status", "page_size", "count", "next_cursor"} \cup ManualJEViewResponse
ManualJEListRespFrom(limit, v, rows) == Page(ManualJEListResponse, manualJEView(v), limit, rows)

-----------------------------------------------------------------------------
(* Restraints *)

AddRestraintRequest == Body({"acct_no", "restraint_type", "restraint_purpose"},
  {"pledged_amt", "start_date", "end_date", "narrative", "reference_doc"})
ReleaseRestraintRequest == Body({}, {"reason"})
RestraintResponse == RestraintResult
RestraintRespFrom(r) == r \cap RestraintResponse
RestraintViewResponse == RestraintView
restraintViewResp(v) == v \cap RestraintViewResponse
RestraintViewRespFrom(v) == restraintViewResp(v)
RestraintListResponse ==
  {"acct_no", "page_size", "count", "next_cursor"} \cup RestraintViewResponse
RestraintListRespFrom(limit, v, rows) ==
  Page(RestraintListResponse, restraintViewResp(v), limit, rows)

-----------------------------------------------------------------------------
(* Accounts, balances, transactions *)

OpenAccountRequest == Body({"client_no", "acct_type"}, {"ccy"})
UpdateAccountStatusRequest == Body({"status"}, {})
AccountOpenResponse == {"acct_no", "client_no", "acct_type", "ccy", "acct_status"}
AccountStatusResponse == AccountStatusResult
AccountStatusRespFrom(r) == r \cap AccountStatusResponse
AccountResponse == AccountView
AccountRespFrom(a) == a \cap AccountResponse
AccountListResponse == {"client_no", "count"} \cup AccountResponse
AccountListRespFrom(views) == (AccountRespFrom(views) \cup {"count"}) \cap AccountListResponse
AccountSearchItemResponse(hit) == hit
AccountSearchResponse == {"query", "count"}
AccountSearchRespFrom(hits) == AccountSearchResponse \cup AccountSearchItemResponse(hits)

BalanceResponse == BalanceView
BalanceRespFrom(b) == b \cap BalanceResponse
BalanceOpsResponse == BalanceOpsView
BalanceOpsRespFrom(b) == (b \cap BalanceOpsResponse) \cup {"active_restraints"}
BalanceAsOfResponse == BalanceAsOf
BalanceAsOfRespFrom(b) == b \cap BalanceAsOfResponse
BalanceBatchRequest == Body({"acct_nos"}, {})
BalanceBatchItemResponse == BalanceBatchItem \cup {"error"}
BalanceBatchResponse == {"as_of"} \cup BalanceBatchItemResponse
\* One item per account asked for: the balance where it was found, else an error.
BalanceBatchRespFrom(found) == (found \cup {"as_of", "error"}) \cap BalanceBatchResponse

TxEntryResponse == TxEntry
TxListResponse ==
  {"acct_no", "from", "to", "page_size", "count", "next_cursor"} \cup TxEntryResponse
TxListRespFrom(limit, v, rows) == Page(TxListResponse, v \cap TxEntryResponse, limit, rows)
TxLegResponse == TxLeg \ {"internal_key", "tran_key"}
TxDetailResponse == {"tran_key", "leg_count"}
TxDetailRespFrom(legs) == TxDetailResponse \cup (legs \cap TxLegResponse)

-----------------------------------------------------------------------------
(* Clients *)

CreateClientRequest == Body({"client_name", "client_type"},
  {"global_id", "global_id_type", "country_loc", "country_citizen", "surname", "given_name",
   "birth_date", "sex"})
UpdateClientRequest == Body({}, {"client_name", "status", "country_loc", "country_citizen",
                                 "surname", "given_name", "birth_date", "sex"})
ClientResponse == ClientResult
ClientRespFrom(r) == r \cap ClientResponse
OnboardRequest == Body({"client_name", "client_type", "phone"},
  {"global_id", "global_id_type", "email", "country_loc", "country_citizen", "acct_type", "ccy",
   "birth_date", "sex", "date_issue", "expire_date", "place_issue", "extra_data"})
OnboardResponse == OnboardResult
OnboardRespFrom(r) == r \cap OnboardResponse
KycUpdateRequest == Body({}, {"kyc_tier", "status", "risk_level", "ekyc_provider", "ekyc_ref",
                              "face_match_score", "liveness_result", "extra_data"})
KycResponse == KycResult
KycRespFrom(r) == r \cap KycResponse
LinkBankRequest == Body({"bank_code", "acct_no"}, {"bank_name", "acct_holder_name", "is_default"})
BankLinkResponse == BankLinkResult
BankLinkRespFrom(r) == r \cap BankLinkResponse
AttachDocumentRequest == Body({"doc_type", "link"}, {"status"})
AttachDocumentResponse == AttachDocumentResult
AttachDocumentRespFrom(r) == (r \cap AttachDocumentResponse) \cup {"related_docs"}

ClientProfileResponse == ClientView
ClientProfileRespFrom(c) == c \cap ClientProfileResponse
ClientListResponse == {"page_size", "count", "next_cursor"} \cup ClientProfileResponse
ClientListRespFrom(limit, v, rows) ==
  Page(ClientListResponse, ClientProfileRespFrom(v), limit, rows)
ClientFullResponse == ClientFullView
ClientFullRespFrom(c) == c \cap ClientFullResponse
ClientFullListResponse == {"page_size", "count", "next_cursor"} \cup ClientFullResponse
ClientFullListRespFrom(limit, v, rows) ==
  Page(ClientFullListResponse, ClientFullRespFrom(v), limit, rows)

\* The 360 view has one shape for both profiles: the full one is shown raw and masked.
maskName(v) == IF "client_name" \in v THEN {"client_name_masked"} ELSE {}
maskGlobalID(v) == IF "global_id" \in v THEN {"global_id_masked"} ELSE {}
maskPhone(v) == IF "phone" \in v THEN {"phone_masked"} ELSE {}
Client360Profile == ClientView \cup ClientFullView
Client360Account == AccountView \ {"version", "group_id", "shard_index"}
Client360Bank == ClientBankView("bank_acct_no") \cup ClientBankView("bank_acct_no_masked")
Client360Response == Client360Profile \cup Client360Account \cup Client360Bank
                     \cup RestraintViewResponse
Client360RespFrom(v) ==
  (v \cap Client360Response) \cup maskName(v) \cup maskGlobalID(v) \cup maskPhone(v)

-----------------------------------------------------------------------------
(* Envelopes *)

SuccessEnvelope(status, data) == [status |-> status, code |-> "00000", data |-> data]
Ok(status, data) == SuccessEnvelope(status, data)
ProblemDetails(status, code) == [status |-> status, code |-> code, data |-> {}]
FallbackErrorCode == "999999"

\* A code that is not for clients becomes a plain 500.
NewProblemFromError(e) ==
  IF IsClientSafeCode(e.code) THEN ProblemDetails(e.status, e.code)
  ELSE ProblemDetails(500, FallbackErrorCode)
NewProblem(code, status) == NewProblemFromError(NewError(code, status))
=============================================================================
