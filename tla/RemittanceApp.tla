--------------------------- MODULE RemittanceApp ---------------------------
(***************************************************************************)
(* The single-page application of src/src: the wallet and the transactions *)
(* that StorageService keeps in localStorage, the copies App shows, and    *)
(* the components of its tabs, which are mounted anew each time their tab  *)
(* is opened.  Every submission is a timer that settles some seconds later *)
(* whether or not the component that started it is still mounted; a job    *)
(* is one such timer with the values its closure captured.  Recipient      *)
(* details and the inputs of the anchor form only travel into the record.  *)
(***************************************************************************)
EXTENDS Integers, Sequences, SequencesExt

CONSTANTS Currencies,       \* the currencies of the wallet; USDC and NGN are among them
          Opening,          \* Opening[c]: the default wallet's balance
          NgnPerUsd,        \* the fixed rate
          SendAmounts,      \* what may be typed into the transfer form
          AnchorAmounts,    \* what may be typed into the anchor form, negative too
          MaxJobs,          \* bound on the submissions
          NoCode            \* togglingCode is null

ASSUME AppAssumption ==
    /\ {"USDC", "NGN"} \subseteq Currencies
    /\ Opening \in [Currencies -> Nat]
    /\ NgnPerUsd \in Nat \ {0}
    /\ 1 \in SendAmounts /\ SendAmounts \subseteq Nat \ {0}
    /\ AnchorAmounts \subseteq Int
    /\ MaxJobs \in Nat

VARIABLES stored,     \* the wallet in localStorage
          records,    \* the transactions in localStorage, newest first, as indices of jobs
          jobs,       \* the submissions so far, in order
          shown,      \* App's copies: wallet and transactions
          activeTab,
          wizard,       \* SendRemittance
          rails,      \* AnchorRails
          toggling,   \* WalletSummary: togglingCode
          upload      \* KYCPanel: the document is absent, uploading or uploaded

appVars == <<stored, records, jobs, shown, activeTab, wizard, rails, toggling, upload>>

AppTabs == {"dashboard", "send", "anchor", "history", "kyc", "liquidity"}
TrustCodes == Currencies \ {"XLM"}

Wallet == [balance : [Currencies -> Int], trusted : SUBSET TrustCodes]

(* live: the component that set the timer is still mounted.                *)
Job == [kind : {"transfer", "deposit", "withdrawal", "toggle"}, done : BOOLEAN, live : BOOLEAN,
        phase : 1..3, source : Currencies, amount : Int, dest : Currencies, credit : Int]

WizardState == [step : 1..4, source : Currencies, amount : SendAmounts, dest : Currencies,
                quote : Nat, phase : 0..4, receipt : BOOLEAN]

AppTypeOK ==
    /\ stored \in Wallet
    /\ records \in Seq(1..MaxJobs) /\ Len(records) <= MaxJobs
    /\ jobs \in Seq(Job) /\ Len(jobs) <= MaxJobs
    /\ shown \in [wallet : Wallet, rows : Seq(1..MaxJobs)]
    /\ activeTab \in AppTabs
    /\ wizard \in WizardState
    /\ rails \in [panel : {"deposit", "withdraw"}, depositing : BOOLEAN, withdrawing : BOOLEAN,
                  verifying : BOOLEAN, verified : BOOLEAN]
    /\ toggling \in TrustCodes \cup {NoCode}
    /\ upload \in {"absent", "uploading", "uploaded"}

-----------------------------------------------------------------------------
PerUsd(c) == IF c = "NGN" THEN NgnPerUsd ELSE 1

GetFXRate(from, amount, to) ==
    IF from = to THEN amount ELSE (amount * PerUsd(to)) \div PerUsd(from)

(* The anchor fee is at its minimum, one unit of USD here.                 *)
CalculateQuote(from, amount, to) ==
    LET net == GetFXRate(from, amount, to) - PerUsd(to) IN IF net < 0 THEN 0 ELSE net

Requoted(f) == [f EXCEPT !.quote = CalculateQuote(f.source, f.amount, f.dest)]

FreshWizard ==
    Requoted([step |-> 1, source |-> "USDC", amount |-> 1, dest |-> "NGN", quote |-> 0,
              phase |-> 0, receipt |-> FALSE])

FreshRails == [panel |-> "deposit", depositing |-> FALSE, withdrawing |-> FALSE,
               verifying |-> FALSE, verified |-> TRUE]

DefaultWallet == [balance |-> Opening, trusted |-> TrustCodes]

AppInit ==
    /\ stored = DefaultWallet /\ records = <<>>
    /\ jobs = <<>>
    /\ shown = [wallet |-> DefaultWallet, rows |-> <<>>]
    /\ activeTab = "dashboard"
    /\ wizard = FreshWizard /\ rails = FreshRails
    /\ toggling = NoCode /\ upload = "absent"

(* What addTransaction makes of the balances: the source is charged for    *)
(* every type, never below zero, and a deposit credits its destination.    *)
Charged(balance, job) ==
    LET left == balance[job.source] - job.amount
        paid == [balance EXCEPT ![job.source] = IF left < 0 THEN 0 ELSE left]
    IN IF job.kind = "deposit" THEN [paid EXCEPT ![job.dest] = @ + job.credit] ELSE paid

AddTransaction(j) ==
    /\ records' = <<j>> \o records
    /\ stored' = [stored EXCEPT !.balance = Charged(@, jobs[j])]

(* A toggle that writes back the wallet it was rendered with.              *)
ToggleRendered(code) ==
    stored' = [shown.wallet EXCEPT !.trusted =
                  IF code \in @ THEN @ \ {code} ELSE @ \cup {code}]

ToggleTrustline(code) ==
    stored' = [stored EXCEPT !.trusted = IF code \in @ THEN @ \ {code} ELSE @ \cup {code}]

RefreshWallet == shown' = [wallet |-> stored', rows |-> records']

-----------------------------------------------------------------------------
(* setActiveTab: opening another tab unmounts the current component, whose *)
(* timers go on without it, and mounts a fresh one.                        *)
SetActiveTab(tab, all) ==
    IF tab = activeTab THEN jobs' = all /\ UNCHANGED <<activeTab, wizard, rails, toggling, upload>>
    ELSE /\ activeTab' = tab
         /\ jobs' = [j \in DOMAIN all |-> [all[j] EXCEPT !.live = FALSE]]
         /\ wizard' = FreshWizard /\ rails' = FreshRails
         /\ toggling' = NoCode /\ upload' = "absent"

HandleTransactionSuccess(all) == RefreshWallet /\ SetActiveTab("history", all)

Navigate(tab) ==
    /\ tab # activeTab
    /\ SetActiveTab(tab, jobs)
    /\ UNCHANGED <<stored, records, shown>>

SyncHorizon ==
    /\ activeTab = "dashboard"
    /\ UNCHANGED <<stored, records, jobs, activeTab, wizard, rails, toggling, upload>>
    /\ RefreshWallet

StartTimer(kind, source, amount, dest, credit) ==
    /\ Len(jobs) < MaxJobs
    /\ jobs' = Append(jobs, [kind |-> kind, done |-> FALSE, live |-> TRUE, phase |-> 1,
                             source |-> source, amount |-> amount, dest |-> dest,
                             credit |-> credit])
    /\ UNCHANGED <<stored, records, shown, activeTab>>

Finished(j) == [jobs EXCEPT ![j].done = TRUE]
Pending(j, kind) == jobs[j].kind = kind /\ ~jobs[j].done

-----------------------------------------------------------------------------
(* WalletSummary.  togglingCode holds one code: a second toggle, or the    *)
(* end of another one, enables the first button again.                     *)
HandleToggleTrustline(code) ==
    /\ activeTab = "dashboard" /\ toggling # code
    /\ toggling' = code
    /\ StartTimer("toggle", code, 0, code, 0)
    /\ UNCHANGED <<wizard, rails, upload>>

ToggleFires(j) ==
    /\ Pending(j, "toggle")
    /\ ToggleTrustline(jobs[j].source) /\ UNCHANGED records
    /\ RefreshWallet
    /\ jobs' = Finished(j)
    /\ toggling' = IF jobs[j].live THEN NoCode ELSE toggling
    /\ UNCHANGED <<activeTab, wizard, rails, upload>>

-----------------------------------------------------------------------------
(* SendRemittance: a form of three panels, then the settlement.            *)
EditWizard(f) ==
    /\ activeTab = "send"
    /\ wizard' = Requoted(f)
    /\ UNCHANGED <<stored, records, jobs, shown, activeTab, rails, toggling, upload>>

(* A country brings its currency; the two amounts may then be edited.      *)
CorridorPanel ==
    /\ wizard.step = 1
    /\ \/ \E to \in Currencies : EditWizard([wizard EXCEPT !.dest = to])
       \/ \E from \in Currencies, a \in SendAmounts :
             EditWizard([wizard EXCEPT !.source = from, !.amount = a])
       \/ EditWizard([wizard EXCEPT !.step = 2])
       \/ activeTab = "send" /\ Navigate("dashboard")

RecipientPanel ==
    /\ wizard.step = 2
    /\ \E step \in {1, 3} : EditWizard([wizard EXCEPT !.step = step])

HandleExecuteTransfer ==
    /\ wizard' = [wizard EXCEPT !.step = 4, !.phase = 1]
    /\ StartTimer("transfer", wizard.source, wizard.amount, wizard.dest, wizard.quote)
    /\ UNCHANGED <<rails, toggling, upload>>

ReviewPanel ==
    /\ activeTab = "send" /\ wizard.step = 3
    /\ EditWizard([wizard EXCEPT !.step = 2]) \/ HandleExecuteTransfer

(* The timers at 1 and 2 seconds; only the mounted form shows the phase.   *)
PhaseTimer(j) ==
    /\ Pending(j, "transfer") /\ jobs[j].phase < 3
    /\ jobs' = [jobs EXCEPT ![j].phase = @ + 1]
    /\ wizard' = IF jobs[j].live THEN [wizard EXCEPT !.phase = jobs[j].phase + 1] ELSE wizard
    /\ UNCHANGED <<stored, records, shown, activeTab, rails, toggling, upload>>

(* The timer at 3.2 seconds.  It does not refresh App's copies.            *)
TransferSettles(j) ==
    /\ Pending(j, "transfer") /\ jobs[j].phase = 3
    /\ AddTransaction(j)
    /\ jobs' = Finished(j)
    /\ wizard' = IF jobs[j].live THEN [wizard EXCEPT !.receipt = TRUE, !.phase = 4] ELSE wizard
    /\ UNCHANGED <<shown, activeTab, rails, toggling, upload>>

SettledPanel ==
    /\ activeTab = "send" /\ wizard.step = 4 /\ wizard.phase = 4
    /\ \/ EditWizard([wizard EXCEPT !.step = 1, !.receipt = FALSE])
       \/ /\ wizard.receipt
          /\ UNCHANGED <<stored, records>>
          /\ HandleTransactionSuccess(jobs)

-----------------------------------------------------------------------------
(* AnchorRails.                                                            *)
SetRails(r) ==
    /\ activeTab = "anchor"
    /\ rails' = r
    /\ UNCHANGED <<wizard, toggling, upload>>

SelectPanel(panel) ==
    /\ SetRails([rails EXCEPT !.panel = panel])
    /\ UNCHANGED <<stored, records, jobs, shown, activeTab>>

HandleVerifyAccount ==
    /\ rails.panel = "withdraw" /\ ~rails.verifying
    /\ SetRails([rails EXCEPT !.verifying = TRUE, !.verified = FALSE])
    /\ UNCHANGED <<stored, records, jobs, shown, activeTab>>

VerifyFires ==
    /\ rails.verifying
    /\ SetRails([rails EXCEPT !.verifying = FALSE, !.verified = TRUE])
    /\ UNCHANGED <<stored, records, jobs, shown, activeTab>>

(* Only NGN is converted.                                                  *)
HandleExecuteDeposit(from, a) ==
    /\ rails.panel = "deposit" /\ ~rails.depositing
    /\ SetRails([rails EXCEPT !.depositing = TRUE])
    /\ StartTimer("deposit", from, a, "USDC", IF from = "NGN" THEN a \div NgnPerUsd ELSE a)

HandleExecuteWithdrawal(a) ==
    /\ rails.panel = "withdraw" /\ ~rails.withdrawing /\ rails.verified
    /\ SetRails([rails EXCEPT !.withdrawing = TRUE])
    /\ StartTimer("withdrawal", "USDC", a \div NgnPerUsd, "NGN", a)

(* Both handlers end in onRefreshWallet and onSuccessTransaction, which    *)
(* opens the history whatever tab the user is on by then; that unmounts    *)
(* the form, if it was still mounted, with its processing flag.            *)
AnchorFires(j) ==
    /\ Pending(j, "deposit") \/ Pending(j, "withdrawal")
    /\ AddTransaction(j)
    /\ HandleTransactionSuccess(Finished(j))

-----------------------------------------------------------------------------
(* KYCPanel.  Verifying the NIN confirms what is already shown as          *)
(* verified; an upload is remembered by the mounted panel only.            *)
SetUpload(u) ==
    /\ activeTab = "kyc"
    /\ upload' = u
    /\ UNCHANGED <<stored, records, jobs, shown, activeTab, wizard, rails, toggling>>

HandleUploadDoc == upload # "uploaded" /\ SetUpload("uploading")
UploadFires == upload = "uploading" /\ SetUpload("uploaded")

-----------------------------------------------------------------------------
TimerFires(j) == ToggleFires(j) \/ PhaseTimer(j) \/ TransferSettles(j) \/ AnchorFires(j)

AppNext ==
    \/ \E tab \in AppTabs : Navigate(tab)
    \/ SyncHorizon
    \/ \E code \in TrustCodes : HandleToggleTrustline(code)
    \/ CorridorPanel \/ RecipientPanel \/ ReviewPanel \/ SettledPanel
    \/ \E panel \in {"deposit", "withdraw"} : SelectPanel(panel)
    \/ HandleVerifyAccount \/ VerifyFires \/ HandleUploadDoc \/ UploadFires
    \/ \E from \in Currencies \ {"XLM"}, a \in AnchorAmounts : HandleExecuteDeposit(from, a)
    \/ \E a \in AnchorAmounts : HandleExecuteWithdrawal(a)
    \/ \E j \in DOMAIN jobs : TimerFires(j)

AppSpec == AppInit /\ [][AppNext]_appVars

-----------------------------------------------------------------------------
(* The balances that a list of transactions leads to, the last one first.  *)
Replay(all, rows) ==
    LET balance[n \in 0..Len(rows)] ==
            IF n = 0 THEN Opening
                     ELSE Charged(balance[n - 1], all[rows[Len(rows) + 1 - n]])
    IN balance[Len(rows)]

(* The wallet always follows from the transactions beside it: in storage,  *)
(* where timers of unmounted components, trustline toggles and deposits    *)
(* write in any order, and on the page.  What the page misses are          *)
(* transfers only, and every submission that has settled is there once.    *)
WalletFollowsRecords ==
    /\ stored.balance = Replay(jobs, records)
    /\ shown.wallet.balance = Replay(jobs, shown.rows)
    /\ IsSuffix(shown.rows, records)
    /\ \A i \in 1..(Len(records) - Len(shown.rows)) : jobs[records[i]].kind = "transfer"
    /\ IsInjective(records)
    /\ {j \in DOMAIN jobs : jobs[j].done /\ jobs[j].kind # "toggle"} = ToSet(records)
=============================================================================
