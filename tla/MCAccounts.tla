----------------------------- MODULE MCAccounts -----------------------------
(***************************************************************************)
(* The account services, the compliance actions that freeze or close an    *)
(* account, and the stand-alone application that keeps its account in the  *)
(* browser share no state, so one run checks them side by side: an initial *)
(* state puts one of them in focus, and only it steps.  What one of them   *)
(* does to another's tables (erasure to wallets, KYC writes to the audit   *)
(* log) is part of the module that depends on it.                          *)
(***************************************************************************)
EXTENDS Wallets, KycDocuments, AuditTrail, Challenges, RemittanceApp, ComplianceAction

CONSTANTS w1, w2, w3, c1, c2, c3, c4, l1, e1, e2, a1, a2, n1, n2, v1, v2, t1, t2, t3,
          o1, o2, o3

VARIABLE focus

serviceVars == <<walletVars, kycVars, trailVars, challengeVars, appVars>>
allVars == <<vars, serviceVars, focus>>

(* Two calls by o2, who may press the button twice, one each by o1, who    *)
(* requests the action, and o3.                                            *)
Callers == c1 :> o1 @@ c2 :> o2 @@ c3 :> o2 @@ c4 :> o3

(* The application's default wallet, and what may be typed there.          *)
MCOpening == "USDC" :> 2 @@ "NGN" :> 3
MCTyped == {-1, 2}

AccountsInit ==
    /\ WalletInit /\ KycInit /\ TrailInit /\ ChallengeInit /\ AppInit /\ Init
    /\ focus \in {"wallets", "kyc", "trail", "sep10", "anchorNonce", "passkey", "app",
                  "compliance"}

ServicesNext ==
    \/ focus = "wallets" /\ WalletNext /\ UNCHANGED <<kycVars, trailVars, challengeVars, appVars>>
    \/ focus = "kyc" /\ KycNext /\ UNCHANGED <<walletVars, trailVars, challengeVars, appVars>>
    \/ focus = "trail" /\ TrailNext /\ UNCHANGED <<walletVars, kycVars, challengeVars, appVars>>
    \/ focus = "sep10" /\ Sep10Next /\ UNCHANGED <<walletVars, kycVars, trailVars, appVars>>
    \/ /\ focus = "anchorNonce" /\ AnchorNonceNext
       /\ UNCHANGED <<walletVars, kycVars, trailVars, appVars>>
    \/ focus = "passkey" /\ PasskeyNext /\ UNCHANGED <<walletVars, kycVars, trailVars, appVars>>
    \/ focus = "app" /\ AppNext /\ UNCHANGED <<walletVars, kycVars, trailVars, challengeVars>>

AccountsNext ==
    /\ UNCHANGED focus
    /\ \/ ServicesNext /\ UNCHANGED vars
       \/ focus = "compliance" /\ Next /\ UNCHANGED serviceVars

(* ComplianceAction's Fairness, where it is the one that steps.            *)
AccountsFairness ==
    /\ WF_vars(focus = "compliance" /\ SignRequest)
    /\ \A c \in Calls : WF_vars(focus = "compliance" /\ CallStep(c))
    /\ WF_vars(focus = "compliance" /\ ReceiveComplianceJob)

AccountsSpec == AccountsInit /\ [][AccountsNext]_allVars /\ AccountsFairness

(* Every variable of the six parts has its type, and every row the flags   *)
(* and foreign keys point at exists.                                       *)
AccountsTypeOK ==
    /\ WalletTypeOK /\ KycTypeOK /\ TrailTypeOK /\ ChallengeTypeOK /\ AppTypeOK
    /\ TypeOK
=============================================================================
