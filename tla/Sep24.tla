------------------------------- MODULE Sep24 --------------------------------
(***************************************************************************)
(* Sep24Service and the webview page pages/anchor/interactive.tsx: one     *)
(* interactive session whose URL may be open in several webviews, its row  *)
(* in PostgreSQL and the two deadlines (the JWT's and the row's).          *)
(***************************************************************************)
EXTENDS Naturals

CONSTANTS Pages,     \* webviews opened on the session's URL
          Memos,     \* memos confirmInteractiveSession may draw
          NoMemo

VARIABLES session,   \* the Sep24Transaction row, status "none" before it exists
          deadline,  \* "open", "jwt" (the token has expired), "past" (the row's too)
          page       \* page[p]: a webview and its call to the API

sep24Vars == <<session, deadline, page>>

Session == [status : {"none", "incomplete", "pending_user_transfer_start", "expired"},
            memo : Memos \cup {NoMemo}]

(* memo: what the page shows on success; shared: history, some other call  *)
(* was between its check and its update while this one was.                *)
Page == [step : {"closed", "loading", "kyc", "payment", "submitting", "success", "error"},
         checked : BOOLEAN, memo : Memos \cup {NoMemo}, shared : BOOLEAN]

ClosedPage == [step |-> "closed", checked |-> FALSE, memo |-> NoMemo, shared |-> FALSE]

Sep24TypeOK ==
    /\ session \in Session /\ deadline \in {"open", "jwt", "past"}
    /\ page \in [Pages -> Page]

Sep24Init ==
    /\ session = [status |-> "none", memo |-> NoMemo]
    /\ deadline = "open"
    /\ page = [p \in Pages |-> ClosedPage]

InFlight(p) == page[p].checked

(* A call of p passes its checks: it and whoever is in the same position   *)
(* are together from now on.                                               *)
PassChecks(p) ==
    LET others == {q \in Pages \ {p} : InFlight(q)} IN
    page' = [q \in Pages |->
                IF q = p THEN [page[p] EXCEPT !.checked = TRUE, !.shared = @ \/ others # {}]
                ELSE [page[q] EXCEPT !.shared = @ \/ q \in others]]

Show(p, step) == page' = [page EXCEPT ![p].step = step, ![p].checked = FALSE]

-----------------------------------------------------------------------------
(* depositInteractive and withdrawInteractive.                             *)
CreateInteractiveSession ==
    /\ session.status = "none"
    /\ session' = [session EXCEPT !.status = "incomplete"]
    /\ UNCHANGED <<deadline, page>>

OpenPage(p) ==
    /\ session.status # "none" /\ page[p].step = "closed"
    /\ page' = [page EXCEPT ![p].step = "loading"]
    /\ UNCHANGED <<session, deadline>>

CallsApi(p) == page[p].step \in {"loading", "submitting"} /\ ~page[p].checked

(* A confirmed session is as good as a new one.                            *)
AnyStatus == deadline = "open"

(* verifySessionToken, findFirst and the status, shared by getSessionData  *)
(* and confirmInteractiveSession: refused, the page shows the error.       *)
Admissible == deadline = "open" /\ session.status = "incomplete"

CheckSession(p) ==
    /\ CallsApi(p)
    /\ IF Admissible THEN PassChecks(p) ELSE Show(p, "error")
    /\ UNCHANGED <<session, deadline>>

(* The deadline of the row passed while the row was being read.            *)
MarkExpired(p) ==
    /\ InFlight(p) /\ deadline = "past"
    /\ session' = [session EXCEPT !.status = "expired"]
    /\ Show(p, "error")
    /\ UNCHANGED deadline

GetSessionData(p) ==
    /\ InFlight(p) /\ page[p].step = "loading" /\ deadline # "past"
    /\ Show(p, "kyc")
    /\ UNCHANGED <<session, deadline>>

(* A memo is drawn and the row updated, whatever its status is by now.     *)
ConfirmInteractiveSession(p) ==
    /\ InFlight(p) /\ page[p].step = "submitting"
    /\ \E m \in Memos \ ({session.memo} \cup {page[q].memo : q \in Pages}) :
          /\ session' = [status |-> "pending_user_transfer_start", memo |-> m]
          /\ page' = [page EXCEPT ![p].step = "success", ![p].checked = FALSE, ![p].memo = m]
    /\ UNCHANGED deadline

(* The answer is lost: the page shows an error over a confirmed session.   *)
AnswerLost(p) ==
    /\ page[p].step = "success"
    /\ Show(p, "error")
    /\ UNCHANGED <<session, deadline>>

HandleKycSubmit(p) ==
    /\ page[p].step = "kyc"
    /\ Show(p, "payment")
    /\ UNCHANGED <<session, deadline>>

HandleBackToKyc(p) ==
    /\ page[p].step = "payment"
    /\ Show(p, "kyc")
    /\ UNCHANGED <<session, deadline>>

HandlePaymentSubmit(p) ==
    /\ page[p].step = "payment"
    /\ page' = [page EXCEPT ![p] = [ClosedPage EXCEPT !.step = "submitting"]]
    /\ UNCHANGED <<session, deadline>>

(* The JWT runs out first: its expiry is cut to whole seconds.             *)
TimePasses ==
    /\ session.status # "none" /\ deadline # "past"
    /\ deadline' = IF deadline = "open" THEN "jwt" ELSE "past"
    /\ UNCHANGED <<session, page>>

Sep24Next ==
    \/ CreateInteractiveSession \/ TimePasses
    \/ \E p \in Pages :
          \/ OpenPage(p) \/ CheckSession(p) \/ MarkExpired(p) \/ GetSessionData(p)
          \/ ConfirmInteractiveSession(p) \/ AnswerLost(p)
          \/ HandleKycSubmit(p) \/ HandleBackToKyc(p) \/ HandlePaymentSubmit(p)

Sep24Spec == Sep24Init /\ [][Sep24Next]_sep24Vars

-----------------------------------------------------------------------------
(* A session is confirmed once: a webview on its success step shows the    *)
(* memo of the row, the row is waiting for that transfer and no other      *)
(* webview succeeded, unless the calls of two webviews were both between   *)
(* their check and their update.                                           *)
ConfirmedOnce ==
    \A p \in Pages : page[p].step = "success" /\ ~page[p].shared =>
        /\ session.memo = page[p].memo
        /\ session.status = "pending_user_transfer_start"
        /\ \A q \in Pages \ {p} : page[q].step # "success"
=============================================================================
