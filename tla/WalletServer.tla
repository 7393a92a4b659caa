------------------------------ MODULE WalletServer ------------------------------
(***************************************************************************)
(* The HTTP server of the wallet service (internal/http/server.go and      *)
(* internal/http/middleware): the chain of middleware a request goes       *)
(* through, in its order, and the table of routes.                         *)
(*                                                                         *)
(* A caller is [token, name, sub, roles, channel, subject, via]: the state *)
(* of its bearer token ("none", "garbled", "expired", "valid"), the two    *)
(* claims an actor is read from, its roles and channel claims, and the     *)
(* headers X-Caller-Subject and X-Channel ("" where absent).               *)
(***************************************************************************)
EXTENDS Integers

H == INSTANCE WalletHandler

-----------------------------------------------------------------------------
(* Middleware: each takes the context of the request and hands it on.  A context with a *)
(* problem has been answered. *)

NewContext(caller, mutating) ==
  [caller |-> caller, mutating |-> mutating, gateway |-> "", subject |-> "", verified |-> FALSE,
   roles |-> {}, channel |-> "", audit |-> [actor |-> "", channel |-> ""], problem |-> 0]

\* A caller who is not known, or may not.
Problem(status) ==
  [status |-> status, code |-> IF status = 403 THEN "FORBIDDEN" ELSE "UNAUTHORIZED", data |-> {}]
writeProblem(ctx, status) == [ctx EXCEPT !.problem = status]
Answered(ctx) == ctx.problem # 0

\* The claims of a token are read without checking it: the gateway has done that.
decodeJWTPayload(caller) == caller.token \in {"expired", "valid"}
gatewayActorFromRequest(caller) ==
  IF ~decodeJWTPayload(caller) THEN ""
  ELSE IF caller.name # "" THEN caller.name ELSE caller.sub
GatewayIdentity(ctx) == [ctx EXCEPT !.gateway = gatewayActorFromRequest(ctx.caller)]

resolveActor(ctx) ==
  IF ctx.gateway # "" THEN ctx.gateway
  ELSE IF ctx.subject # "" THEN ctx.subject
  ELSE IF ctx.caller.subject # "" THEN ctx.caller.subject ELSE "anonymous"

parseChannel(s) == IF s \in {"MOBILE", "OPSUI", "TREASURY", "PARTNER", "API"} THEN s ELSE ""
resolveChannel(ctx) ==
  IF parseChannel(ctx.channel) # "" THEN parseChannel(ctx.channel)
  ELSE IF parseChannel(ctx.caller.via) # "" THEN parseChannel(ctx.caller.via) ELSE "API"

AuditContext(ctx) ==
  [ctx EXCEPT !.audit = [actor |-> resolveActor(ctx), channel |-> resolveChannel(ctx)]]

\* The service's own check of the token, where it is turned on.
abortUnauthorized(ctx) == writeProblem(ctx, 401)
JWT(ctx, enabled) ==
  IF ~enabled THEN ctx
  ELSE IF ctx.caller.token # "valid" \/ ctx.caller.sub = "" THEN abortUnauthorized(ctx)
  ELSE [ctx EXCEPT !.subject = ctx.caller.sub, !.verified = TRUE, !.roles = ctx.caller.roles,
                   !.channel = ctx.caller.channel]

\* A request that changes something must come with an actor from the gateway.
EnforceGatewayIdentity(ctx, enforce) ==
  IF enforce /\ ctx.mutating /\ ctx.gateway = "" THEN writeProblem(ctx, 401) ELSE ctx

\* Without verified roles there is nothing to check: the route is open.
RequireAnyRole(ctx, roles) ==
  IF ctx.verified /\ roles # {} /\ ctx.roles \cap roles = {} THEN writeProblem(ctx, 403) ELSE ctx

\* r.Use, v1.Use and the group of the route, in their order.
Chain(ctx, cfg, roles) ==
  LET audited  == AuditContext(GatewayIdentity(ctx))
      checked  == JWT(audited, cfg.jwt)
      enforced == IF Answered(checked) THEN checked
                  ELSE EnforceGatewayIdentity(checked, cfg.enforce)
  IN IF Answered(enforced) THEN enforced ELSE RequireAnyRole(enforced, roles)

-----------------------------------------------------------------------------
(* Routes: <<method and path, roles>> *)

Get(path) == [path |-> path, mutating |-> FALSE]
Send(path) == [path |-> path, mutating |-> TRUE]

ReverseRoutes == {"merchant-withdraw/reverse", "reverse", "topup/reverse", "fee-charge/reverse"}
TreasuryRoutes == {"acked", "disbursing", "completed", "withdraw/reverse"}
OpsRoutes == {"ops/accounts/search", "ops/accounts/balance", "ops/accounts/balance/batch",
              "ops/clients", "ops/clients/one", "ops/clients/360"}
JEReads == {"ops/je", "ops/je/one", "ops/suspense"}

RolesOf(path) ==
  CASE path \in ReverseRoutes  -> {"wallet.finance.reverse"}
    [] path \in TreasuryRoutes -> {"wallet.treasury"}
    [] path \in OpsRoutes      -> {"wallet.ops.read"}
    [] path = "ops/je/create"  -> {"wallet.gl.je.maker"}
    [] path = "ops/je/approve" -> {"wallet.gl.je.checker"}
    [] path = "ops/je/reject"  -> {"wallet.gl.je.maker", "wallet.gl.je.checker"}
    [] path \in JEReads        -> {"wallet.gl.je.maker", "wallet.gl.je.checker", "wallet.ops.read"}
    [] OTHER                   -> {}

Posts == {"topup", "transfer", "withdraw", "merchant-deposit", "merchant-withdraw", "fee-charge"}
         \cup ReverseRoutes \cup TreasuryRoutes
         \cup {"restraints/add", "restraints/release", "onboard", "clients/create",
               "clients/update", "clients/kyc", "clients/documents", "clients/banks",
               "clients/banks/default", "accounts/open", "accounts/status", "groups/provision",
               "groups/activate", "groups/rescale", "ops/accounts/balance/batch",
               "ops/je/create", "ops/je/approve", "ops/je/reject"}
Gets == {"transactions", "transactions/one", "restraints", "restraints/one", "clients",
         "clients/one", "clients/accounts", "clients/360", "accounts/search", "accounts/one",
         "accounts/balance"} \cup (OpsRoutes \ {"ops/accounts/balance/batch"}) \cup JEReads
Routes == {Send(p) : p \in Posts} \cup {Get(p) : p \in Gets}

Dispatch(path, req) ==
  CASE path = "topup"                      -> H!Topup(req)
    [] path = "transfer"                   -> H!Transfer(req)
    [] path = "withdraw"                   -> H!Withdraw(req)
    [] path = "merchant-deposit"           -> H!MerchantDeposit(req)
    [] path = "merchant-withdraw"          -> H!MerchantWithdraw(req)
    [] path = "fee-charge"                 -> H!FeeCharge(req)
    [] path = "merchant-withdraw/reverse"  -> H!ReverseMerchantWithdraw(req)
    [] path = "reverse"                    -> H!ReverseTransfer(req)
    [] path = "topup/reverse"              -> H!ReverseTopup(req)
    [] path = "fee-charge/reverse"         -> H!ReverseFeeCharge(req)
    [] path = "transactions"               -> H!ListTransactions(req)
    [] path = "transactions/one"           -> H!GetTransaction(req)
    [] path = "restraints"                 -> H!ListRestraints(req)
    [] path = "restraints/one"             -> H!GetRestraint(req)
    [] path = "restraints/add"             -> H!AddRestraint(req)
    [] path = "restraints/release"         -> H!ReleaseRestraint(req)
    [] path = "onboard"                    -> H!Onboard(req)
    [] path = "clients/create"             -> H!CreateClient(req)
    [] path = "clients"                    -> H!ListClients(req)
    [] path = "clients/one"                -> H!GetClient(req)
    [] path = "clients/accounts"           -> H!ListAccountsByClient(req)
    [] path = "clients/360"                -> H!GetClient360(req)
    [] path = "clients/update"             -> H!UpdateClient(req)
    [] path = "clients/kyc"                -> H!UpdateKYC(req)
    [] path = "clients/documents"          -> H!AttachClientDocument(req)
    [] path = "clients/banks"              -> H!LinkClientBank(req)
    [] path = "clients/banks/default"      -> H!SetDefaultClientBank(req)
    [] path = "accounts/open"              -> H!OpenAccount(req)
    [] path = "accounts/search"            -> H!SearchAccounts(req)
    [] path = "accounts/status"            -> H!UpdateAccountStatus(req)
    [] path = "accounts/one"               -> H!GetAccount(req)
    [] path = "accounts/balance"           -> H!GetBalance(req)
    [] path = "groups/provision"           -> H!ProvisionAcctGroup(req)
    [] path = "groups/activate"            -> H!ActivateHotWallet(req)
    [] path = "groups/rescale"             -> H!RescaleHotWallet(req)
    [] path = "ops/accounts/search"        -> H!SearchAccountsFull(req)
    [] path = "ops/accounts/balance"       -> H!GetBalanceOps(req)
    [] path = "ops/accounts/balance/batch" -> H!GetBalanceBatch(req)
    [] path = "ops/clients"                -> H!ListClientsFull(req)
    [] path = "ops/clients/one"            -> H!GetClientFull(req)
    [] path = "ops/clients/360"            -> H!GetClientFull360(req)
    [] path = "ops/je/create"              -> H!CreateManualJE(req)
    [] path = "ops/je/approve"             -> H!ApproveManualJE(req)
    [] path = "ops/je/reject"              -> H!RejectManualJE(req)
    [] path = "ops/je"                     -> H!ListManualJE(req)
    [] path = "ops/je/one"                 -> H!GetManualJE(req)
    [] path = "ops/suspense"               -> H!SuspenseAging(req)
    [] path = "acked"                      -> H!MarkAcked(req)
    [] path = "disbursing"                 -> H!MarkDisbursing(req)
    [] path = "completed"                  -> H!MarkCompleted(req)
    [] path = "withdraw/reverse"           -> H!Reverse(req)

\* What becomes of a request: refused by the chain or by its handler, or a plan to carry out
\* on behalf of the caller the chain made out.
Serve(route, req, caller, cfg) ==
  LET ctx  == Chain(NewContext(caller, route.mutating), cfg, RolesOf(route.path))
      plan == IF Answered(ctx) THEN H!Refused(Problem(ctx.problem))
              ELSE Dispatch(route.path, req)
  IN [route |-> route, plan |-> plan, audit |-> ctx.audit, caller |-> caller, jwt |-> cfg.jwt]
=============================================================================
