------------------------------ MODULE MCWalletApi ------------------------------
(***************************************************************************)
(* Every route of the wallet service, with a body that is full, lacks      *)
(* optional or required fields or breaks a rule; the callers, pages and    *)
(* configurations that tell the layers apart.                              *)
(***************************************************************************)
EXTENDS WalletApi

S == INSTANCE WalletServer

Everything ==
  UNION {TopupInput, TransferInput, WithdrawInput, MerchantWithdrawInput, ReversalInput, AckInput,
         CompletedInput, FeeChargeInput, FeeChargeReversalInput, MerchantWithdrawReversalInput,
         ProvisionGroupInput, RescaleHotWalletInput, ActivateHotWalletInput, ManualJEInput,
         RestraintInput, AccountOpenInput, AccountStatusInput, ClientCreateInput,
         ClientUpdateInput, OnboardInput, KycUpdateInput, BankLinkInput, AttachDocumentInput,
         {"q", "acct_nos"}}

Request(fields, malformed, limit, dated, there) ==
  [fields |-> fields, malformed |-> malformed, limit |-> limit, dated |-> dated, rows |-> there]
Plain(fields) == Request(fields, FALSE, 0, FALSE, 0)
Full == Plain(Everything)
Sent == [full |-> Full, brief |-> Plain(Everything \ {"global_id", "narrative", "email"}),
         empty |-> Plain({}), wrong |-> Request(Everything, TRUE, 0, FALSE, 0)]
\* Pages: by default, small, of the largest size and beyond it; fewer rows than that, or more.
Asked(limit, there) == Request(Everything, FALSE, limit, limit = 2, there)

Caller(token, roles, channel, subject, via) ==
  [token |-> token, name |-> "", sub |-> "carol", roles |-> roles, channel |-> channel,
   subject |-> subject, via |-> via]
AllRoles == {"wallet.finance.reverse", "wallet.treasury", "wallet.ops.read", "wallet.gl.je.maker",
             "wallet.gl.je.checker"}
\* Who calls, and whether the service checks tokens itself.
Alice == [Caller("valid", AllRoles, "OPSUI", "bob", "MOBILE") EXCEPT !.name = "alice"]
Nobody == Caller("none", {}, "", "bob", "")
Callers == [alice    |-> <<Alice, TRUE>>,
            nobody   |-> <<Nobody, TRUE>>,
            header   |-> <<Nobody, FALSE>>,
            noroles  |-> <<Caller("valid", {}, "", "", ""), TRUE>>,
            gateway  |-> <<Caller("expired", {}, "", "bob", "PARTNER"), FALSE>>]

Serve(route, req, c) == S!Serve(route, req, c[1], [jwt |-> c[2], enforce |-> TRUE])
MCServed ==
  {Serve(route, Sent[body], Callers.alice) : route \in S!Routes, body \in DOMAIN Sent}
  \cup {Serve(route, Full, Callers[c]) : route \in S!Routes, c \in DOMAIN Callers}
  \cup {Serve(x[1], Asked(x[2], x[3]), Callers.alice) :
          x \in {route \in S!Routes : ~route.mutating} \X {0, 2, 200, 300} \X {1, 500}}
=============================================================================
