---------------------------- MODULE AnchorProofs ----------------------------
(***************************************************************************)
(* Theorems about quotes, the send form, SEP-24 sessions, the deposit and  *)
(* withdrawal modals and liquidity rebalancing, for every number of calls, *)
(* pages, requests and runs in flight.                                     *)
(***************************************************************************)
EXTENDS FxRates, SendForm, Sep24, AnchorModals, Liquidity, TotalsProofs, TLAPS

-----------------------------------------------------------------------------
(* SEP-24 sessions                                                         *)

(* Two calls that are both past their checks know of each other, and a     *)
(* call that knows of none has the session to itself, still incomplete.    *)
(* Once a webview succeeded the session never is incomplete again, and     *)
(* when that webview was alone nobody is past the checks.                  *)
SessionInv ==
    /\ Sep24TypeOK
    /\ \A p \in Pages, q \in Pages : InFlight(p) /\ InFlight(q) /\ p # q => page[p].shared
    /\ \A p \in Pages : InFlight(p) /\ ~page[p].shared => session.status = "incomplete"
    /\ \A p \in Pages : page[p].step = "success" =>
          /\ session.status \notin {"none", "incomplete"}
          /\ ~page[p].shared => \A q \in Pages : ~InFlight(q)
    /\ ConfirmedOnce

(* A page that only moves to a step that is no success, its call over.     *)
LEMMA ShowKeeps ==
    ASSUME SessionInv, NEW p \in Pages, UNCHANGED session, deadline' \in {"open", "jwt", "past"},
           NEW step \in {"kyc", "payment", "error"}, Show(p, step)
    PROVE  SessionInv'
<1> USE DEF SessionInv, Sep24TypeOK, Page, InFlight
<1>1. page' \in [Pages -> Page] /\ session' = session
  BY DEF Show
<1>2. /\ page'[p].step = step /\ ~page'[p].checked
      /\ \A q \in Pages \ {p} : page'[q] = page[q]
  BY DEF Show
<1> QED
  BY <1>1, <1>2 DEF ConfirmedOnce

(* The inductive invariant of the interactive session.                     *)
LEMMA SessionInvHolds == Sep24Spec => []SessionInv
<1>1. Sep24Init => SessionInv
  BY DEF Sep24Init, SessionInv, Sep24TypeOK, Session, Page, ClosedPage, InFlight, ConfirmedOnce
<1>2. SessionInv /\ [Sep24Next]_sep24Vars => SessionInv'
  <2> SUFFICES ASSUME SessionInv, [Sep24Next]_sep24Vars PROVE SessionInv'
    OBVIOUS
  <2>0. deadline \in {"open", "jwt", "past"}
    BY DEF SessionInv, Sep24TypeOK
  <2>1. CASE CreateInteractiveSession
    BY <2>1 DEF CreateInteractiveSession, SessionInv, Sep24TypeOK, Session, Page, InFlight, ConfirmedOnce
  <2>2. CASE TimePasses
    BY <2>2 DEF TimePasses, SessionInv, Sep24TypeOK, InFlight, ConfirmedOnce
  <2>3. ASSUME NEW p \in Pages, OpenPage(p) PROVE SessionInv'
    BY <2>3 DEF OpenPage, SessionInv, Sep24TypeOK, Page, InFlight, ConfirmedOnce
  <2>4. ASSUME NEW p \in Pages, CheckSession(p) PROVE SessionInv'
    <3>1. CASE Admissible
      <4>1. /\ CallsApi(p) /\ PassChecks(p) /\ UNCHANGED <<session, deadline>>
            /\ session.status = "incomplete"
        BY <2>4, <3>1 DEF CheckSession, Admissible
      <4> DEFINE others == {q \in Pages \ {p} : InFlight(q)}
      <4>2. page' \in [Pages -> Page]
        BY <4>1 DEF PassChecks, SessionInv, Sep24TypeOK, Page
      <4>3. /\ page'[p].step = page[p].step /\ page'[p].checked
            /\ (\E q \in Pages \ {p} : InFlight(q)) => page'[p].shared
        BY <4>1 DEF PassChecks, SessionInv, Sep24TypeOK, Page
      <4>4. \A q \in Pages \ {p} :
              /\ page'[q].step = page[q].step /\ page'[q].checked = page[q].checked
              /\ page'[q].memo = page[q].memo
              /\ page[q].shared => page'[q].shared
              /\ InFlight(q) => page'[q].shared
        BY <4>1 DEF PassChecks, SessionInv, Sep24TypeOK, Page
      <4>5. \A q \in Pages : page[q].step # "success"
        BY <4>1 DEF SessionInv
      <4> QED
        BY <4>1, <4>2, <4>3, <4>4, <4>5 DEF SessionInv, Sep24TypeOK, InFlight, ConfirmedOnce
    <3>2. CASE ~Admissible
      BY <2>0, <2>4, <3>2, ShowKeeps DEF CheckSession
    <3> QED
      BY <3>1, <3>2
  <2>5. ASSUME NEW p \in Pages, MarkExpired(p) PROVE SessionInv'
    BY <2>5 DEF MarkExpired, Show, SessionInv, Sep24TypeOK, Session, Page, InFlight, ConfirmedOnce
  <2>6. ASSUME NEW p \in Pages, GetSessionData(p) \/ AnswerLost(p) \/ HandleKycSubmit(p) \/ HandleBackToKyc(p)
        PROVE  SessionInv'
    BY <2>0, <2>6, ShowKeeps DEF GetSessionData, AnswerLost, HandleKycSubmit, HandleBackToKyc
  <2>7. ASSUME NEW p \in Pages, ConfirmInteractiveSession(p) PROVE SessionInv'
    <3>1. PICK m \in Memos :
            /\ session' = [status |-> "pending_user_transfer_start", memo |-> m]
            /\ page' = [page EXCEPT ![p].step = "success", ![p].checked = FALSE, ![p].memo = m]
      BY <2>7 DEF ConfirmInteractiveSession
    <3>2. /\ session' \in Session /\ session'.memo = m
          /\ session'.status = "pending_user_transfer_start"
      BY <3>1 DEF Session
    <3>3. /\ page' \in [Pages -> Page]
          /\ page'[p].step = "success" /\ ~page'[p].checked /\ page'[p].memo = m
          /\ page'[p].shared = page[p].shared
          /\ \A q \in Pages \ {p} : page'[q] = page[q]
      BY <3>1 DEF SessionInv, Sep24TypeOK, Page
    <3>4. InFlight(p) /\ UNCHANGED deadline
      BY <2>7 DEF ConfirmInteractiveSession
    <3>5. ~page[p].shared => \A q \in Pages \ {p} : ~InFlight(q) /\ page[q].step # "success"
      BY <3>4 DEF SessionInv
    <3>6. \A q \in Pages : InFlight(q) /\ q # p => page[q].shared
      BY <3>4 DEF SessionInv
    <3>7. \A q \in Pages \ {p} : page[q].step = "success" => page[q].shared
      BY <3>4 DEF SessionInv
    <3> QED
      BY <3>2, <3>3, <3>4, <3>5, <3>6, <3>7 DEF SessionInv, Sep24TypeOK, InFlight, ConfirmedOnce
  <2>8. ASSUME NEW p \in Pages, HandlePaymentSubmit(p) PROVE SessionInv'
    <3>1. /\ page' \in [Pages -> Page] /\ UNCHANGED <<session, deadline>>
          /\ page'[p].step = "submitting" /\ ~page'[p].checked
          /\ \A q \in Pages \ {p} : page'[q] = page[q]
      BY <2>8 DEF HandlePaymentSubmit, ClosedPage, SessionInv, Sep24TypeOK, Page
    <3> QED
      BY <3>1 DEF SessionInv, Sep24TypeOK, InFlight, ConfirmedOnce
  <2>9. CASE UNCHANGED sep24Vars
    BY <2>9 DEF sep24Vars, SessionInv, Sep24TypeOK, InFlight, ConfirmedOnce
  <2> QED
    BY <2>1, <2>2, <2>3, <2>4, <2>5, <2>6, <2>7, <2>8, <2>9 DEF Sep24Next
<1> QED
  BY <1>1, <1>2, PTL DEF Sep24Spec

(* However many webviews are open on a session's URL, one that succeeded   *)
(* alone shows the memo of the row, which waits for that transfer, and no  *)
(* other webview succeeded.                                                *)
THEOREM SessionsConfirmOnce == Sep24Spec => []ConfirmedOnce
<1>1. SessionInv => ConfirmedOnce
  BY DEF SessionInv
<1> QED
  BY <1>1, SessionInvHolds, PTL

-----------------------------------------------------------------------------
(* The send form                                                           *)

(* A quote as the proof needs it, with the empty one.                      *)
AnyQuote == [of : Forms \cup {NoForm}, status : {"ok", "blocked", "none"}, late : BOOLEAN]

AnyScreen == [step : {"edit", "preview"}, loading : BOOLEAN, timer : BOOLEAN,
              simulation : AnyQuote, countdown : 0..QuoteLife,
              address : BOOLEAN, isOffline : BOOLEAN, busy : {"no", "send", "draft"}]

(* What was asked for is what the form holds, unless it was edited since   *)
(* or has been emptied by a transfer that was sent.                        *)
StillMeant(of, late, f) == of = f \/ late \/ f = NoForm

(* The current request asks for the form and the quote of the preview is   *)
(* for it.  No retyped suffix outlives the form, so an empty form is never *)
(* confirmed.                                                              *)
FormInv ==
    /\ screen \in AnyScreen /\ request \in [Requests -> Request]
    /\ form \in Forms \cup {NoForm}
    /\ screen.address => form # NoForm
    /\ \A r \in Requests :
          request[r].current => StillMeant(request[r].of, request[r].late, form)
    /\ screen.step = "preview" /\ screen.simulation # NoQuote =>
          StillMeant(screen.simulation.of, screen.simulation.late, form)

(* The empty quote and the empty request have their types.                 *)
LEMMA EmptyFacts ==
    /\ NoQuote \in AnyQuote
    /\ NoRequest \in Request /\ ~NoRequest.current
BY DEF NoQuote, AnyQuote, NoRequest, Request

(* A step of the screen that takes no new quote.                           *)
LEMMA ScreenMoves ==
    ASSUME FormInv, UNCHANGED <<form, request>>, screen' \in AnyScreen,
           screen'.address => form # NoForm,
           \/ screen'.step = "edit" \/ screen'.simulation = NoQuote
           \/ screen'.step = screen.step /\ screen'.simulation = screen.simulation
    PROVE  FormInv'
BY DEF FormInv

(* Taking the next request id.                                             *)
LEMMA HandleSimulateInv ==
    ASSUME FormInv, NEW r \in Requests, NEW scr \in AnyScreen, HandleSimulate(r, scr),
           scr.address = screen.address, scr.step = screen.step, scr.simulation = screen.simulation
    PROVE  FormInv'
<1>1. screen' = scr /\ form' = form /\ form \in Forms
  BY DEF HandleSimulate, FormInv
<1>2. /\ request' \in [Requests -> Request] /\ request'[r].of = form
      /\ \A q \in Requests \ {r} : ~request'[q].current
  BY <1>1 DEF HandleSimulate, FormInv, Request
<1>3. \A q \in Requests : request'[q].current => StillMeant(request'[q].of, request'[q].late, form)
  BY <1>2 DEF StillMeant
<1> QED
  BY <1>1, <1>2, <1>3 DEF FormInv

(* The answer to a request.                                                *)
LEMMA SimulatedInv ==
    ASSUME FormInv, NEW r \in Requests, NEW status \in {"ok", "blocked"}, NEW life \in 0..QuoteLife,
           Simulated(r, status, life)
    PROVE  FormInv'
<1> DEFINE quote == [of |-> request[r].of, status |-> status, late |-> request[r].late]
           shown == [screen EXCEPT !.loading = FALSE, !.step = "preview", !.timer = FALSE,
                        !.simulation = quote, !.countdown = life]
<1>1. quote \in AnyQuote /\ quote.of = request[r].of /\ quote.late = request[r].late
  BY DEF AnyQuote, FormInv, Request
<1> HIDE DEF quote
<1>2. /\ shown \in AnyScreen /\ shown.simulation = quote
      /\ shown.address = screen.address
  BY <1>1 DEF FormInv, AnyScreen
<1> HIDE DEF shown
<1>3. /\ request' = [request EXCEPT ![r] = NoRequest] /\ form' = form
      /\ screen' = IF request[r].current THEN shown ELSE [screen EXCEPT !.loading = FALSE]
  BY DEF Simulated, ApplyAnswer, shown, quote
<1>4. /\ request' \in [Requests -> Request]
      /\ \A q \in Requests : request'[q].current => StillMeant(request'[q].of, request'[q].late, form)
  BY <1>3, EmptyFacts DEF FormInv
<1>5. CASE request[r].current
  <2>1. screen' = shown
    BY <1>3, <1>5
  <2>2. StillMeant(quote.of, quote.late, form)
    BY <1>1, <1>5 DEF FormInv
  <2> QED
    BY <1>2, <1>3, <1>4, <2>1, <2>2 DEF FormInv
<1>6. CASE ~request[r].current
  <2>1. screen' = [screen EXCEPT !.loading = FALSE]
    BY <1>3, <1>6
  <2>2. /\ screen' \in AnyScreen /\ screen'.address = screen.address
        /\ screen'.step = screen.step /\ screen'.simulation = screen.simulation
    BY <2>1 DEF FormInv, AnyScreen
  <2> QED
    BY <1>3, <1>4, <2>2 DEF FormInv
<1> QED
  BY <1>5, <1>6

(* The inductive invariant of the form.                                    *)
LEMMA FormInvHolds == FormSpec => []FormInv
<1> USE FormAssumption, EmptyFacts
<1>1. FormInit => FormInv
  <2> SUFFICES ASSUME FormInit PROVE FormInv
    OBVIOUS
  <2>1. screen \in AnyScreen /\ ~screen.address /\ screen.step = "edit"
    BY DEF FormInit, AnyScreen
  <2> QED
    BY <2>1 DEF FormInit, FormInv
<1>2. FormInv /\ [FormNext]_formVars => FormInv'
  <2> SUFFICES ASSUME FormInv, [FormNext]_formVars PROVE FormInv'
    OBVIOUS
  <2>0. screen \in AnyScreen
    BY DEF FormInv
  <2>1. ASSUME NEW f \in Forms, EditForm(f) PROVE FormInv'
    <3>1. /\ screen.step = "edit" /\ form' = f
          /\ screen' = [screen EXCEPT !.timer = TRUE,
                           !.address = @ /\ form # NoForm /\ f.destination = form.destination]
          /\ request' = [r \in Requests |-> [request[r] EXCEPT !.late = @ \/ request[r].current]]
      BY <2>1 DEF EditForm, EditPanel
    <3>2. screen' \in AnyScreen /\ screen'.step = "edit"
      BY <2>0, <3>1 DEF AnyScreen
    <3>3. request' \in [Requests -> Request] /\ \A r \in Requests : request'[r].current => request'[r].late
      BY <3>1 DEF FormInv, Request
    <3>4. f # NoForm
      BY DEF Forms
    <3> QED
      BY <3>1, <3>2, <3>3, <3>4 DEF FormInv, StillMeant
  <2>2. ASSUME NEW r \in Requests, DebounceFires(r) PROVE FormInv'
    <3> DEFINE scr == [screen EXCEPT !.timer = FALSE, !.loading = TRUE]
    <3>1. /\ scr \in AnyScreen /\ scr.address = screen.address /\ scr.step = screen.step
          /\ scr.simulation = screen.simulation
      BY <2>0 DEF AnyScreen
    <3>2. HandleSimulate(r, scr)
      BY <2>2 DEF DebounceFires
    <3> HIDE DEF scr
    <3> QED
      BY <3>1, <3>2, HandleSimulateInv
  <2>3. ASSUME NEW r \in Requests, PreviewTransfer(r) PROVE FormInv'
    <3> DEFINE scr == [screen EXCEPT !.loading = TRUE]
    <3>1. /\ scr \in AnyScreen /\ scr.address = screen.address /\ scr.step = screen.step
          /\ scr.simulation = screen.simulation
      BY <2>0 DEF AnyScreen
    <3>2. HandleSimulate(r, scr)
      BY <2>3 DEF PreviewTransfer
    <3> HIDE DEF scr
    <3> QED
      BY <3>1, <3>2, HandleSimulateInv
  <2>4. ASSUME NEW r \in Requests, SimulateFails(r) PROVE FormInv'
    <3>1. /\ request' = [request EXCEPT ![r] = NoRequest] /\ form' = form
          /\ \/ screen' = [screen EXCEPT !.loading = FALSE, !.simulation = NoQuote, !.countdown = 0]
             \/ screen' = [screen EXCEPT !.loading = FALSE]
      BY <2>4 DEF SimulateFails
    <3>2. /\ request' \in [Requests -> Request]
          /\ \A q \in Requests : request'[q].current => StillMeant(request'[q].of, request'[q].late, form)
      BY <3>1 DEF FormInv
    <3>3. /\ screen' \in AnyScreen /\ screen'.address = screen.address /\ screen'.step = screen.step
          /\ screen'.simulation \in {screen.simulation, NoQuote}
      <4>1. 0 \in 0..QuoteLife
        OBVIOUS
      <4>2. CASE screen' = [screen EXCEPT !.loading = FALSE, !.simulation = NoQuote, !.countdown = 0]
        BY <2>0, <4>1, <4>2 DEF AnyScreen
      <4>3. CASE screen' = [screen EXCEPT !.loading = FALSE]
        BY <2>0, <4>3 DEF AnyScreen
      <4> QED
        BY <3>1, <4>2, <4>3
    <3> QED
      BY <3>1, <3>2, <3>3 DEF FormInv
  <2>5. ASSUME NEW r \in Requests, CountdownTicks(r) PROVE FormInv'
    <3>1. CASE screen' = [screen EXCEPT !.countdown = @ - 1] /\ UNCHANGED <<form, request>>
      <4>1. screen.countdown > 0
        BY <2>5 DEF CountdownTicks
      <4>2. /\ screen' \in AnyScreen /\ screen'.address = screen.address
            /\ screen'.step = screen.step /\ screen'.simulation = screen.simulation
        BY <2>0, <3>1, <4>1 DEF AnyScreen
      <4> QED
        BY <3>1, <4>2, ScreenMoves DEF FormInv
    <3>2. CASE HandleSimulate(r, [screen EXCEPT !.countdown = 0])
      <4> DEFINE scr == [screen EXCEPT !.countdown = 0]
      <4>1. /\ scr \in AnyScreen /\ scr.address = screen.address /\ scr.step = screen.step
            /\ scr.simulation = screen.simulation
        BY <2>0 DEF AnyScreen
      <4>2. HandleSimulate(r, scr)
        BY <3>2
      <4> HIDE DEF scr
      <4> QED
        BY <4>1, <4>2, HandleSimulateInv
    <3> QED
      BY <2>5, <3>1, <3>2 DEF CountdownTicks
  <2>6. ASSUME NEW r \in Requests, NEW status \in {"ok", "blocked"}, NEW life \in 0..QuoteLife,
               Simulated(r, status, life)
        PROVE  FormInv'
    BY <2>6, SimulatedInv
  <2>7. CASE HandleBackToEdit
    <3>1. screen' = [screen EXCEPT !.step = "edit", !.simulation = NoQuote, !.timer = form # NoForm]
      BY <2>7 DEF HandleBackToEdit
    <3>2. screen' \in AnyScreen /\ screen'.step = "edit" /\ screen'.address = screen.address
      BY <2>0, <3>1 DEF AnyScreen
    <3> QED
      BY <2>7, <3>2, ScreenMoves DEF HandleBackToEdit, FormInv
  <2>8. CASE RetypeAddress
    <3>1. PICK ok \in {FALSE, form # NoForm} : screen' = [screen EXCEPT !.address = ok]
      BY <2>8 DEF RetypeAddress
    <3>2. /\ screen' \in AnyScreen /\ screen'.address = ok
          /\ screen'.step = screen.step /\ screen'.simulation = screen.simulation
      BY <2>0, <3>1 DEF AnyScreen
    <3> QED
      BY <2>8, <3>1, <3>2, ScreenMoves DEF RetypeAddress
  <2>9. CASE HandleConfirm \/ QueueOffline
    <3>1. PICK b \in {"send", "draft"} : screen' = [screen EXCEPT !.busy = b]
      BY <2>9 DEF HandleConfirm, QueueOffline
    <3>2. /\ screen' \in AnyScreen /\ screen'.address = screen.address
          /\ screen'.step = screen.step /\ screen'.simulation = screen.simulation
      BY <2>0, <3>1 DEF AnyScreen
    <3> QED
      BY <2>9, <3>2, ScreenMoves DEF HandleConfirm, QueueOffline, FormInv
  <2>10. ASSUME NEW ok \in BOOLEAN, Submitted(ok) PROVE FormInv'
    <3>1. CASE ok
      <4>1. /\ form' = NoForm /\ request' = request
            /\ screen' = [screen EXCEPT !.busy = "no", !.step = "edit", !.simulation = NoQuote,
                             !.timer = FALSE, !.address = FALSE]
        BY <2>10, <3>1 DEF Submitted
      <4>2. screen' \in AnyScreen /\ ~screen'.address /\ screen'.step = "edit"
        BY <2>0, <4>1 DEF AnyScreen
      <4> QED
        BY <4>1, <4>2 DEF FormInv, StillMeant
    <3>2. CASE ~ok
      <4>1. UNCHANGED <<form, request>> /\ screen' = [screen EXCEPT !.busy = "no"]
        BY <2>10, <3>2 DEF Submitted
      <4>2. /\ screen' \in AnyScreen /\ screen'.address = screen.address
            /\ screen'.step = screen.step /\ screen'.simulation = screen.simulation
        BY <2>0, <4>1 DEF AnyScreen
      <4> QED
        BY <4>1, <4>2, ScreenMoves DEF FormInv
    <3> QED
      BY <3>1, <3>2
  <2>11. CASE UpdateConnectivity
    <3>1. screen' = [screen EXCEPT !.isOffline = ~online]
      BY <2>11 DEF UpdateConnectivity
    <3>2. /\ screen' \in AnyScreen /\ screen'.address = screen.address
          /\ screen'.step = screen.step /\ screen'.simulation = screen.simulation
      BY <2>0, <3>1 DEF AnyScreen
    <3> QED
      BY <2>11, <3>2, ScreenMoves DEF UpdateConnectivity, FormInv
  <2>12. CASE ConnectivityChanges \/ UNCHANGED formVars
    BY <2>12 DEF ConnectivityChanges, formVars, FormInv
  <2> QED
    BY <2>1, <2>2, <2>3, <2>4, <2>5, <2>6, <2>7, <2>8, <2>9, <2>10, <2>11, <2>12 DEF FormNext
<1> QED
  BY <1>1, <1>2, PTL DEF FormSpec

(* Confirm Send hands over the form that the quote on the screen was asked *)
(* for, however many requests overlapped and in whatever order they were   *)
(* answered, unless the form was edited while the request was in flight.   *)
THEOREM ConfirmedIsQuoted == FormSpec => ConfirmedFormWasQuoted
<1> DEFINE Quoted == handed' # NoForm /\ handed' # handed =>
                        screen.simulation.of = handed' \/ screen.simulation.late
<1>1. FormInv /\ [FormNext]_formVars => [Quoted]_formVars
  <2> SUFFICES ASSUME FormInv, FormNext, handed' # NoForm, handed' # handed
               PROVE  screen.simulation.of = handed' \/ screen.simulation.late
    OBVIOUS
  <2>1. HandleConfirm
    BY DEF FormNext, EditForm, DebounceFires, PreviewTransfer, HandleSimulate, Simulated, SimulateFails,
           CountdownTicks, HandleBackToEdit, RetypeAddress, QueueOffline, Submitted,
           ConnectivityChanges, UpdateConnectivity
  <2> QED
    BY <2>1 DEF HandleConfirm, PreviewPanel, FormInv, StillMeant
<1> QED
  BY <1>1, FormInvHolds, PTL DEF FormSpec, ConfirmedFormWasQuoted

-----------------------------------------------------------------------------
(* The deposit and withdrawal modals                                       *)

(* What request a asked for is what modal m shows, unless an input was     *)
(* changed since.                                                          *)
AskedBy(a, m) == a.account = m.account /\ (~a.late => a.asset = m.asset /\ a.amount = m.amount)

(* The requests in flight are those of the modal that is open, and the     *)
(* instructions it shows passed both checks of the API.                    *)
ModalInv ==
    /\ ModalTypeOK
    /\ \A q \in Lookups : lookup[q] # NoInfo => IsOpen /\ AskedBy(lookup[q], modal)
    /\ IsOpen /\ modal.state = "success" =>
          /\ modal.info \in Info /\ AskedBy(modal.info.asked, modal)
          /\ ValidateAccountOwnership(modal.info.asked)
          /\ Reconciled(modal.info.asked, modal.info.to, modal.info.within)

(* An input changes: every request in flight is late, and nothing is shown *)
(* as an answer any more.                                                  *)
LEMMA InputChanges ==
    ASSUME ModalInv, IsOpen, Overtake, modal' \in Modal, modal'.account = modal.account,
           modal'.state # "success"
    PROVE  ModalInv'
<1>1. modal' # NoInfo
  BY NoInfoAssumption
<1>2. lookup' \in [Lookups -> Asked \cup {NoInfo}]
  BY DEF Overtake, ModalInv, ModalTypeOK, Asked
<1>3. \A q \in Lookups : lookup'[q] # NoInfo => lookup'[q].late /\ lookup'[q].account = modal.account
  <2> SUFFICES ASSUME NEW q \in Lookups, lookup'[q] # NoInfo
               PROVE  lookup'[q].late /\ lookup'[q].account = modal.account
    OBVIOUS
  <2>1. lookup[q] # NoInfo /\ lookup'[q] = [lookup[q] EXCEPT !.late = TRUE]
    BY DEF Overtake
  <2>2. lookup[q] \in Asked /\ lookup[q].account = modal.account
    BY <2>1 DEF ModalInv, ModalTypeOK, AskedBy
  <2> QED
    BY <2>1, <2>2 DEF Asked
<1> QED
  BY <1>1, <1>2, <1>3 DEF ModalInv, ModalTypeOK, IsOpen, AskedBy

(* The inductive invariant of the modals.                                  *)
LEMMA ModalInvHolds == ModalSpec => []ModalInv
<1> USE ModalAssumption
<1>1. ModalInit => ModalInv
  BY DEF ModalInit, ModalInv, ModalTypeOK, IsOpen
<1>2. ModalInv /\ [ModalNext]_modalVars => ModalInv'
  <2> SUFFICES ASSUME ModalInv, [ModalNext]_modalVars PROVE ModalInv'
    OBVIOUS
  <2>0. IsOpen => modal \in Modal
    BY DEF ModalInv, ModalTypeOK, IsOpen
  <2>1. ASSUME NEW a \in Assets, SelectAsset(a) PROVE ModalInv'
    <3>1. modal \in Modal /\ modal' = Cleared([modal EXCEPT !.asset = a])
      BY <2>0, <2>1 DEF SelectAsset
    <3>2. modal' \in Modal /\ modal'.account = modal.account /\ modal'.state # "success"
      BY <3>1 DEF Modal, Cleared
    <3> QED
      BY <2>1, <3>2, InputChanges DEF SelectAsset
  <2>2. ASSUME NEW n \in Quantities, EnterAmount(n) PROVE ModalInv'
    <3>1. /\ modal \in Modal /\ modal.state # "success"
          /\ \/ modal' = Cleared([modal EXCEPT !.amount = n])
             \/ modal' = [modal EXCEPT !.amount = n]
      BY <2>0, <2>2 DEF EnterAmount
    <3>2. modal' \in Modal /\ modal'.account = modal.account /\ modal'.state # "success"
      BY <3>1 DEF Modal, Cleared
    <3> QED
      BY <2>2, <3>2, InputChanges DEF EnterAmount
  <2>3. ASSUME NEW kind \in {"deposit", "withdraw"}, NEW account \in Accounts, NEW asset \in Assets,
               OpenModal(kind, account, asset)
        PROVE  ModalInv'
    <3>1. /\ modal' = [kind |-> kind, account |-> account, asset |-> asset, amount |-> 0,
                       state |-> "idle", info |-> NoInfo]
          /\ lookup' = lookup /\ \A q \in Lookups : lookup[q] = NoInfo
      BY <2>3 DEF OpenModal, ModalInv
    <3>2. modal' \in Modal /\ modal'.state = "idle"
      BY <3>1 DEF Modal
    <3> QED
      BY <3>1, <3>2 DEF ModalInv, ModalTypeOK
  <2>4. CASE ChangeAsset
    <3>1. modal \in Modal /\ modal' = Cleared(modal) /\ UNCHANGED lookup
      BY <2>0, <2>4 DEF ChangeAsset
    <3>2. /\ modal' \in Modal /\ modal'.account = modal.account /\ modal'.state # "success"
          /\ modal'.asset = modal.asset /\ modal'.amount = modal.amount
      BY <3>1 DEF Modal, Cleared
    <3>3. modal' # NoInfo
      BY <3>2, NoInfoAssumption
    <3> QED
      BY <3>1, <3>2, <3>3 DEF ModalInv, ModalTypeOK, IsOpen, AskedBy
  <2>5. CASE NewWithdrawal
    <3>1. modal \in Modal /\ modal' = Cleared([modal EXCEPT !.amount = 0])
      BY <2>0, <2>5 DEF NewWithdrawal
    <3>2. modal' \in Modal /\ modal'.account = modal.account /\ modal'.state # "success"
      BY <3>1 DEF Modal, Cleared
    <3> QED
      BY <2>5, <3>2, InputChanges DEF NewWithdrawal
  <2>6. CASE CloseModal
    BY <2>6 DEF CloseModal, ModalInv, ModalTypeOK, IsOpen
  <2>7. ASSUME NEW q \in Lookups, Fetch(q) PROVE ModalInv'
    <3>0. modal \in Modal
      BY <2>0, <2>7 DEF Fetch
    <3>1. CASE modal.kind = "withdraw" /\ modal.amount = 0
      <4>1. modal' = [modal EXCEPT !.state = "error"] /\ UNCHANGED lookup
        BY <2>7, <3>1 DEF Fetch
      <4>2. /\ modal' \in Modal /\ modal'.account = modal.account /\ modal'.state = "error"
            /\ modal'.asset = modal.asset /\ modal'.amount = modal.amount
        BY <3>0, <4>1 DEF Modal
      <4>3. modal' # NoInfo
        BY <4>2, NoInfoAssumption
      <4> QED
        BY <4>1, <4>2, <4>3 DEF ModalInv, ModalTypeOK, IsOpen, AskedBy
    <3>2. CASE ~(modal.kind = "withdraw" /\ modal.amount = 0)
      <4> DEFINE a == [kind |-> modal.kind, account |-> modal.account, asset |-> modal.asset,
                       amount |-> modal.amount, late |-> FALSE]
      <4>1. /\ modal' = [modal EXCEPT !.state = "loading", !.info = NoInfo]
            /\ lookup' = [lookup EXCEPT ![q] = a]
        BY <2>7, <3>2 DEF Fetch
      <4>2. /\ a \in Asked /\ a.account = modal.account
            /\ a.asset = modal.asset /\ a.amount = modal.amount
        BY <3>0 DEF Modal, Asked
      <4> HIDE DEF a
      <4>3. /\ modal' \in Modal /\ modal'.account = modal.account /\ modal'.state = "loading"
            /\ modal'.asset = modal.asset /\ modal'.amount = modal.amount
        BY <3>0, <4>1 DEF Modal
      <4>4. modal' # NoInfo
        BY <4>3, NoInfoAssumption
      <4> QED
        BY <4>1, <4>2, <4>3, <4>4 DEF ModalInv, ModalTypeOK, IsOpen, AskedBy
    <3> QED
      BY <3>1, <3>2
  <2>8. ASSUME NEW q \in Lookups, NEW to \in Accounts \cup {NoInfo}, NEW within \in Bounds,
               Answered(q, to, within)
        PROVE  ModalInv'
    <3> DEFINE a == lookup[q]
               info == [asked |-> a, to |-> to, within |-> within]
    <3>1. a \in Asked /\ AskedBy(a, modal) /\ modal \in Modal
      BY <2>0, <2>8 DEF Answered, ModalInv, ModalTypeOK
    <3>2. info \in Info /\ info.asked = a /\ info.to = to /\ info.within = within
      BY <3>1 DEF Info
    <3>3. /\ lookup' = [lookup EXCEPT ![q] = NoInfo]
          /\ modal' = IF ValidateAccountOwnership(a) /\ Reconciled(a, to, within)
                      THEN [modal EXCEPT !.state = "success", !.info = info]
                      ELSE [modal EXCEPT !.state = "error"]
      BY <2>8 DEF Answered
    <3> HIDE DEF info
    <3>4. /\ modal' \in Modal /\ modal'.account = modal.account
          /\ modal'.asset = modal.asset /\ modal'.amount = modal.amount
          /\ modal'.state = "success" => /\ ValidateAccountOwnership(a) /\ Reconciled(a, to, within)
                                         /\ modal'.info = info
      <4>1. CASE ValidateAccountOwnership(a) /\ Reconciled(a, to, within)
        BY <3>1, <3>2, <3>3, <4>1 DEF Modal
      <4>2. CASE ~(ValidateAccountOwnership(a) /\ Reconciled(a, to, within))
        BY <3>1, <3>3, <4>2 DEF Modal
      <4> QED
        BY <4>1, <4>2
    <3>5. modal' # NoInfo
      BY <3>4, NoInfoAssumption
    <3> HIDE DEF a
    <3> QED
      BY <3>1, <3>2, <3>3, <3>4, <3>5 DEF ModalInv, ModalTypeOK, IsOpen, AskedBy
  <2>9. CASE UNCHANGED modalVars
    BY <2>9 DEF modalVars, ModalInv, ModalTypeOK, IsOpen
  <2> QED
    BY <2>1, <2>2, <2>3, <2>4, <2>5, <2>6, <2>7, <2>8, <2>9 DEF ModalNext
<1> QED
  BY <1>1, <1>2, PTL DEF ModalSpec

(* Whatever the anchor answers, in whatever order, the instructions on the *)
(* screen are for the caller's own wallet, name no other account, are      *)
(* within the bounds advertised with them and are for what the form shows, *)
(* unless an input was changed while their request was in flight.          *)
THEOREM InstructionsMatch == ModalSpec => []InstructionsMatchTheForm
<1>1. ModalInv => InstructionsMatchTheForm
  BY DEF ModalInv, InstructionsMatchTheForm, AskedBy, ValidateAccountOwnership, Reconciled
<1> QED
  BY <1>1, ModalInvHolds, PTL

-----------------------------------------------------------------------------
(* Rates and simulations                                                   *)

(* Min finds the least element of a finite set of integers.                *)
LEMMA MinIsLeast ==
    ASSUME NEW S, IsFiniteSet(S), S # {}, S \subseteq Int
    PROVE  Min(S) \in S /\ \A y \in S : Min(S) <= y
BY LeastExists DEF Min

(* Entries whose rate is near what the provider answered when they were    *)
(* written.                                                                *)
Kept == {e \in Entry : Near(e.rate, e.quote)}
KeptOrNone == Kept \cup {NoRate}

PricedPath == [at : {"idle", "hop", "fetch", "write", "done"}, hops : Seq(KeptOrNone),
               cached : KeptOrNone, entry : KeptOrNone]

(* Every entry in Redis, and every copy a simulation carries, is near the  *)
(* answer it stands for; a simulation that is not over has a pair to go.   *)
FxInv ==
    /\ cache \in [PairSet -> KeptOrNone]
    /\ sim \in [Simulations -> PricedPath]
    /\ \A s \in Simulations :
          sim[s].at \in {"hop", "fetch", "write"} => Len(sim[s].hops) < Len(Path[s])

(* What FetchSucceeds writes: the cached rate while the answer is near it, *)
(* and the answer otherwise.                                               *)
LEMMA KeepOrBustKept ==
    ASSUME NEW cached \in KeptOrNone, NEW p \in PairSet, NEW q \in Rates[p],
           NEW e, e = [rate |-> KeepOrBust(cached, q), quote |-> q, age |-> 0]
    PROVE  e \in KeptOrNone
<1>1. q \in AllRates /\ q \in Int
  BY FxAssumption DEF AllRates, PairSet
<1>2. CASE cached # NoRate /\ Near(q, cached.rate)
  <2>1. cached.rate \in AllRates
    BY <1>2 DEF KeptOrNone, Kept, Entry
  <2>2. cached.rate \in Int
    BY <2>1, FxAssumption DEF AllRates, PairSet
  <2>3. Near(cached.rate, q) /\ KeepOrBust(cached, q) = cached.rate
    BY <1>1, <1>2, <2>2 DEF Near, KeepOrBust
  <2>4. e \in Entry /\ e.rate = cached.rate /\ e.quote = q
    BY <1>1, <2>1, <2>3, FxAssumption DEF Entry, Stale
  <2> QED
    BY <2>3, <2>4 DEF KeptOrNone, Kept
<1>3. CASE ~(cached # NoRate /\ Near(q, cached.rate))
  <2>1. KeepOrBust(cached, q) = q /\ Near(q, q)
    BY <1>1, <1>3 DEF Near, KeepOrBust
  <2>2. e \in Entry /\ e.rate = q /\ e.quote = q
    BY <1>1, <2>1, FxAssumption DEF Entry, Stale
  <2> QED
    BY <2>1, <2>2 DEF KeptOrNone, Kept
<1> QED
  BY <1>2, <1>3

(* Time does not part a rate from its answer.                              *)
LEMMA OlderKept ==
    ASSUME NEW e \in KeptOrNone
    PROVE  Older(e) \in KeptOrNone
<1>1. CASE e = NoRate
  BY <1>1 DEF Older, KeptOrNone
<1>2. CASE e # NoRate
  <2>1. PICK a \in 0..Stale : Older(e) = [e EXCEPT !.age = a]
    <3>1. e.age \in 0..Stale /\ Stale \in Nat
      BY <1>2, FxAssumption DEF KeptOrNone, Kept, Entry, Stale
    <3>2. CASE e.age = Stale
      BY <1>2, <3>1, <3>2 DEF Older
    <3>3. CASE e.age # Stale
      <4>1. Older(e) = [e EXCEPT !.age = e.age + 1] /\ e.age + 1 \in 0..Stale
        BY <1>2, <3>1, <3>3 DEF Older
      <4> QED
        BY <4>1
    <3> QED
      BY <3>2, <3>3
  <2>2. e \in Entry /\ Near(e.rate, e.quote)
    BY <1>2 DEF KeptOrNone, Kept
  <2>3. Older(e) \in Entry /\ Older(e).rate = e.rate /\ Older(e).quote = e.quote
    BY <2>1, <2>2 DEF Entry
  <2> QED
    BY <2>2, <2>3 DEF KeptOrNone, Kept
<1> QED
  BY <1>1, <1>2

(* ... nor do the hops of a path change in number.                         *)
LEMMA OlderHops ==
    ASSUME NEW hops \in Seq(KeptOrNone), NEW h, h = [i \in DOMAIN hops |-> Older(hops[i])]
    PROVE  h \in Seq(KeptOrNone) /\ Len(h) = Len(hops)
<1>1. DOMAIN hops = 1..Len(hops) /\ Len(hops) \in Nat /\ \A i \in 1..Len(hops) : hops[i] \in KeptOrNone
  OBVIOUS
<1>2. \A i \in 1..Len(hops) : Older(hops[i]) \in KeptOrNone
  BY <1>1, OlderKept
<1>3. h \in [1..Len(hops) -> KeptOrNone]
  BY <1>1, <1>2
<1> QED
  BY <1>1, <1>3

(* The record of a simulation that has not started.                        *)
LEMMA IdleSimulationFacts ==
    /\ IdleSimulation \in PricedPath
    /\ IdleSimulation.at = "idle" /\ Len(IdleSimulation.hops) = 0
<1>1. << >> \in Seq(KeptOrNone) /\ NoRate \in KeptOrNone /\ Len(<< >>) = 0
  BY DEF KeptOrNone
<1> QED
  BY <1>1 DEF IdleSimulation, PricedPath

(* A simulation on its way knows its pair.                                 *)
LEMMA PairOfType ==
    ASSUME FxInv, NEW s \in Simulations, sim[s].at \in {"hop", "fetch", "write"}
    PROVE  PairOf(s) \in PairSet /\ Len(sim[s].hops) \in Nat /\ sim[s].hops \in Seq(KeptOrNone)
<1>1. sim[s].hops \in Seq(KeptOrNone) /\ Len(sim[s].hops) < Len(Path[s])
  BY DEF FxInv, PricedPath
<1>2. Path[s] \in Seq(PairSet)
  BY FxAssumption DEF PairSet
<1>3. Len(sim[s].hops) + 1 \in 1..Len(Path[s])
  BY <1>1, <1>2
<1> QED
  BY <1>1, <1>2, <1>3 DEF PairOf

(* An answer of getFxRate takes the simulation one hop further.            *)
LEMMA AnswerInv ==
    ASSUME FxInv, NEW s \in Simulations, sim[s].at \in {"hop", "fetch", "write"},
           NEW e \in KeptOrNone, Answer(s, e), cache' \in [PairSet -> KeptOrNone]
    PROVE  FxInv'
<1> DEFINE hops == Append(sim[s].hops, e)
           r == [IdleSimulation EXCEPT !.at = IF Len(hops) = Len(Path[s]) THEN "done" ELSE "hop",
                                       !.hops = hops]
<1>1. sim' = [sim EXCEPT ![s] = r]
  BY DEF Answer
<1>2. hops \in Seq(KeptOrNone) /\ Len(hops) = Len(sim[s].hops) + 1 /\ Len(sim[s].hops) \in Nat
  BY PairOfType
<1>3. Len(sim[s].hops) < Len(Path[s]) /\ Len(Path[s]) \in Nat
  BY FxAssumption DEF FxInv
<1> HIDE DEF hops
<1>4. /\ r \in PricedPath /\ r.hops = hops
      /\ r.at = IF Len(hops) = Len(Path[s]) THEN "done" ELSE "hop"
  BY <1>2, IdleSimulationFacts DEF PricedPath
<1> HIDE DEF r
<1>5. r.at \in {"hop", "fetch", "write"} => Len(r.hops) < Len(Path[s])
  BY <1>2, <1>3, <1>4
<1> QED
  BY <1>1, <1>4, <1>5 DEF FxInv

(* The inductive invariant of rates and simulations.                       *)
LEMMA FxInvHolds == FxSpec => []FxInv
<1>1. FxInit => FxInv
  <2> SUFFICES ASSUME FxInit PROVE FxInv
    OBVIOUS
  <2>1. cache \in [PairSet -> KeptOrNone]
    BY DEF FxInit, KeptOrNone
  <2> QED
    BY <2>1, IdleSimulationFacts DEF FxInit, FxInv
<1>2. FxInv /\ [FxNext]_fxVars => FxInv'
  <2> SUFFICES ASSUME FxInv, [FxNext]_fxVars PROVE FxInv'
    OBVIOUS
  <2>0. /\ cache \in [PairSet -> KeptOrNone] /\ NoRate \in KeptOrNone
        /\ \A s \in Simulations : sim[s] \in PricedPath
    BY DEF FxInv, KeptOrNone
  <2>1. ASSUME NEW s \in Simulations, Simulate(s) PROVE FxInv'
    <3> DEFINE r == [IdleSimulation EXCEPT !.at = "hop"]
    <3>1. r \in PricedPath /\ Len(r.hops) = 0
      BY IdleSimulationFacts DEF PricedPath
    <3>2. sim' = [sim EXCEPT ![s] = r] /\ UNCHANGED cache
      BY <2>1 DEF Simulate
    <3> HIDE DEF r
    <3>3. 0 < Len(Path[s])
      BY FxAssumption
    <3> QED
      BY <3>1, <3>2, <3>3 DEF FxInv
  <2>2. ASSUME NEW s \in Simulations, GetFxRate(s) PROVE FxInv'
    <3>1. sim[s].at = "hop" /\ UNCHANGED cache
      BY <2>2 DEF GetFxRate
    <3>2. cache[PairOf(s)] \in KeptOrNone
      BY <2>0, <3>1, PairOfType
    <3>3. CASE Answer(s, cache[PairOf(s)])
      BY <2>0, <3>1, <3>2, <3>3, AnswerInv
    <3>4. CASE sim' = [sim EXCEPT ![s].at = "fetch", ![s].cached = cache[PairOf(s)]]
      <4>1. /\ sim' \in [Simulations -> PricedPath]
            /\ sim'[s].hops = sim[s].hops /\ \A q \in Simulations \ {s} : sim'[q] = sim[q]
        BY <2>0, <3>2, <3>4 DEF PricedPath, FxInv
      <4> QED
        BY <3>1, <4>1 DEF FxInv
    <3> QED
      BY <2>2, <3>3, <3>4 DEF GetFxRate
  <2>3. ASSUME NEW s \in Simulations, FetchSucceeds(s) PROVE FxInv'
    <3>1. sim[s].at = "fetch" /\ UNCHANGED cache
      BY <2>3 DEF FetchSucceeds
    <3>2. PICK q \in Rates[PairOf(s)] :
            sim' = [sim EXCEPT ![s].at = "write", ![s].cached = NoRate,
                       ![s].entry = [rate |-> KeepOrBust(sim[s].cached, q), quote |-> q, age |-> 0]]
      BY <2>3 DEF FetchSucceeds
    <3> DEFINE e == [rate |-> KeepOrBust(sim[s].cached, q), quote |-> q, age |-> 0]
    <3>3. sim[s].cached \in KeptOrNone /\ PairOf(s) \in PairSet
      BY <2>0, <3>1, PairOfType DEF PricedPath
    <3>4. e \in KeptOrNone
      BY <3>3, KeepOrBustKept
    <3>5. sim' = [sim EXCEPT ![s].at = "write", ![s].cached = NoRate, ![s].entry = e]
      BY <3>2
    <3> HIDE DEF e
    <3>6. /\ sim' \in [Simulations -> PricedPath]
          /\ sim'[s].hops = sim[s].hops /\ \A r \in Simulations \ {s} : sim'[r] = sim[r]
      BY <2>0, <3>4, <3>5 DEF PricedPath, FxInv
    <3> QED
      BY <3>1, <3>6 DEF FxInv
  <2>4. ASSUME NEW s \in Simulations, FetchUnquoted(s) \/ FetchFails(s) PROVE FxInv'
    <3>1. sim[s].at = "fetch" /\ UNCHANGED cache /\ Answer(s, sim[s].cached)
      BY <2>4 DEF FetchUnquoted, FetchFails
    <3>2. sim[s].cached \in KeptOrNone
      BY <2>0 DEF PricedPath
    <3> QED
      BY <2>0, <3>1, <3>2, AnswerInv
  <2>5. ASSUME NEW s \in Simulations, WriteCache(s) PROVE FxInv'
    <3>1. /\ sim[s].at = "write" /\ Answer(s, sim[s].entry)
          /\ cache' = [cache EXCEPT ![PairOf(s)] = sim[s].entry]
      BY <2>5 DEF WriteCache
    <3>2. sim[s].entry \in KeptOrNone
      BY <2>0 DEF PricedPath
    <3>3. cache' \in [PairSet -> KeptOrNone]
      BY <2>0, <3>1, <3>2
    <3> QED
      BY <3>1, <3>2, <3>3, AnswerInv
  <2>6. ASSUME NEW s \in Simulations, RateUnavailable(s) PROVE FxInv'
    BY <2>0, <2>6, AnswerInv DEF RateUnavailable
  <2>7. ASSUME NEW p \in PairSet, CacheExpires(p) PROVE FxInv'
    BY <2>0, <2>7 DEF CacheExpires, FxInv
  <2>8. CASE Tick
    <3>1. cache' \in [PairSet -> KeptOrNone]
      BY <2>0, <2>8, OlderKept DEF Tick
    <3>2. ASSUME NEW s \in Simulations
          PROVE  /\ sim'[s] \in PricedPath /\ sim'[s].at = sim[s].at
                 /\ Len(sim'[s].hops) = Len(sim[s].hops)
      <4> DEFINE c == Older(sim[s].cached)
                 e == Older(sim[s].entry)
                 h == [i \in DOMAIN sim[s].hops |-> Older(sim[s].hops[i])]
      <4>1. sim[s].cached \in KeptOrNone /\ sim[s].entry \in KeptOrNone /\ sim[s].hops \in Seq(KeptOrNone)
        BY <2>0 DEF PricedPath
      <4>2. c \in KeptOrNone /\ e \in KeptOrNone
        BY <4>1, OlderKept
      <4>3. h \in Seq(KeptOrNone) /\ Len(h) = Len(sim[s].hops)
        BY <4>1, OlderHops
      <4>4. sim'[s] = [sim[s] EXCEPT !.cached = c, !.entry = e, !.hops = h]
        BY <2>8 DEF Tick
      <4> HIDE DEF c, e, h
      <4> QED
        BY <2>0, <4>2, <4>3, <4>4 DEF PricedPath
    <3>3. sim' \in [Simulations -> PricedPath]
      <4>1. sim' = [s \in Simulations |-> sim'[s]]
        BY <2>8 DEF Tick
      <4> QED
        BY <3>2, <4>1
    <3> QED
      BY <3>1, <3>2, <3>3 DEF FxInv
  <2>9. CASE UNCHANGED fxVars
    BY <2>9 DEF fxVars, FxInv
  <2> QED
    BY <2>1, <2>2, <2>3, <2>4, <2>5, <2>6, <2>7, <2>8, <2>9 DEF FxNext
<1> QED
  BY <1>1, <1>2, PTL DEF FxSpec

(* A quote that has not expired was confirmed, hop by hop, no longer than  *)
(* MaxCacheAge ago by an answer near the rate it uses, for any paths, any  *)
(* number of simulations in flight and any failures of provider and cache. *)
THEOREM LiveQuotesConfirmed == FxSpec => []LiveQuoteIsConfirmed
<1>1. FxInv => LiveQuoteIsConfirmed
  <2> SUFFICES ASSUME FxInv, NEW s \in Simulations, RateFresh(sim[s].hops),
                      RateExpiresAt(sim[s].hops) >= 0, NEW i \in DOMAIN sim[s].hops
               PROVE  sim[s].hops[i].age <= MaxCacheAge /\ Near(sim[s].hops[i].rate, sim[s].hops[i].quote)
    BY DEF LiveQuoteIsConfirmed
  <2> DEFINE hops == sim[s].hops
             S == {Remaining(hops[j]) : j \in DOMAIN hops}
  <2>1. hops \in Seq(KeptOrNone)
    BY DEF FxInv, PricedPath
  <2>2. \A j \in DOMAIN hops : hops[j] \in KeptOrNone /\ hops[j] # NoRate
    BY <2>1 DEF RateFresh
  <2>3. \A j \in DOMAIN hops : hops[j] \in Entry /\ Near(hops[j].rate, hops[j].quote)
    BY <2>2 DEF KeptOrNone, Kept
  <2>4. \A j \in DOMAIN hops : hops[j].age \in Nat /\ Remaining(hops[j]) \in Int
    BY <2>3, FxAssumption DEF Entry, Remaining, Stale
  <2>5. IsFiniteSet(S)
    <3>1. -1 \in Int /\ MaxCacheAge \in Int
      BY FxAssumption
    <3>2. IsFiniteSet((-1)..MaxCacheAge)
      BY <3>1, FS_Interval
    <3>3. \A j \in DOMAIN hops : hops[j].age \in 0..(MaxCacheAge + 1)
      BY <2>3 DEF Entry, Stale
    <3>4. S \subseteq (-1)..MaxCacheAge
      BY <3>3, FxAssumption DEF Remaining
    <3> HIDE DEF S
    <3> QED
      BY <3>2, <3>4, FS_Subset
  <2>6. S \subseteq Int /\ Remaining(hops[i]) \in S
    BY <2>4
  <2>7. Min(S) = RateExpiresAt(hops)
    BY DEF RateExpiresAt
  <2> HIDE DEF S
  <2>8. Min(S) \in Int /\ Min(S) <= Remaining(hops[i])
    BY <2>5, <2>6, MinIsLeast
  <2>9. Remaining(hops[i]) >= 0
    BY <2>4, <2>7, <2>8
  <2> QED
    BY <2>3, <2>4, <2>9, FxAssumption DEF Remaining
<1> QED
  BY <1>1, FxInvHolds, PTL

-----------------------------------------------------------------------------
(* Liquidity                                                               *)

(* Today, Volume and the exception of DailyLimitsHold, of any rows.        *)
OfDay(rows, c) == {b \in DOMAIN rows : rows[b].corridor \in {c}}
VolumeOf(rows, c) == Total([b \in DOMAIN rows |-> rows[b].amount], OfDay(rows, c))
NoneTogether(rows, c) == \A b \in OfDay(rows, c) : ~rows[b].together

Active(k) == k.at \notin {"idle", "done", "failed"}
BeforeRow(k) == k.at \in {"guards", "plan"}

(* What the guards allowed fits into the day, with one rebalance to spare. *)
Fits(rows, c, amount) ==
    /\ Cardinality(OfDay(rows, c)) < MaxDaily
    /\ VolumeOf(rows, c) + amount <= MaxVolume

(* A check that has no row yet knows of every other check of its corridor. *)
(* One that knows of none finds the rows as its guards saw them, so what   *)
(* they allowed still fits; after midnight it fits into the new day.       *)
ChecksInv(rows, ch) ==
    /\ \A r \in Runs, c \in Corridors : ch[r][c].at = "plan" =>
          /\ MaxDaily > 0 /\ ch[r][c].amount \in 1..MaxVolume
          /\ ~ch[r][c].together /\ NoneTogether(rows, c) => Fits(rows, c, ch[r][c].amount)
    /\ \A r \in Runs, q \in Runs, c \in Corridors :
          BeforeRow(ch[r][c]) /\ Active(ch[q][c]) /\ q # r => ch[r][c].together

RowsInv(rows) ==
    \A c \in Corridors : NoneTogether(rows, c) =>
        Cardinality(OfDay(rows, c)) <= MaxDaily /\ VolumeOf(rows, c) <= MaxVolume

LiquidityInv == LiquidityTypeOK /\ ChecksInv(row, check) /\ RowsInv(row)

(* A day's rows are finitely many and their volume is a natural number.    *)
LEMMA RowFacts ==
    ASSUME NEW rows \in Seq(Row), NEW c
    PROVE  /\ IsFiniteSet(OfDay(rows, c)) /\ Cardinality(OfDay(rows, c)) \in Nat
           /\ VolumeOf(rows, c) \in Nat
           /\ DOMAIN rows = 1..Len(rows) /\ Len(rows) \in Nat
           /\ \A b \in DOMAIN rows : rows[b] \in Row /\ rows[b].amount \in Nat
<1>1. DOMAIN rows = 1..Len(rows) /\ Len(rows) \in Nat /\ \A b \in DOMAIN rows : rows[b] \in Row
  OBVIOUS
<1>2. \A b \in DOMAIN rows : rows[b].amount \in Nat
  BY <1>1, LiquidityAssumption DEF Row
<1>3. IsFiniteSet(1..Len(rows))
  BY <1>1, FS_Interval
<1>4. OfDay(rows, c) \subseteq 1..Len(rows)
  BY <1>1 DEF OfDay
<1>5. IsFiniteSet(OfDay(rows, c))
  BY <1>3, <1>4, FS_Subset
<1>6. Cardinality(OfDay(rows, c)) \in Nat
  BY <1>5, FS_CardinalityType
<1> DEFINE f == [b \in DOMAIN rows |-> rows[b].amount]
<1>7. \A b \in OfDay(rows, c) : f[b] \in Nat
  BY <1>2 DEF OfDay
<1> HIDE DEF f
<1>8. Total(f, OfDay(rows, c)) \in Nat
  BY <1>5, <1>7, TotalNat
<1> QED
  BY <1>1, <1>2, <1>5, <1>6, <1>8 DEF VolumeOf, f

(* A change of a row's status or job changes nothing the guards count.     *)
SameRows(rows, new) ==
    /\ new \in Seq(Row) /\ Len(new) = Len(rows)
    /\ \A b \in 1..Len(rows) : /\ new[b].corridor = rows[b].corridor
                               /\ new[b].amount = rows[b].amount
                               /\ new[b].together = rows[b].together

(* ... so they see the same counts and the same volume.                    *)
LEMMA SameRowsCount ==
    ASSUME NEW rows \in Seq(Row), NEW new, SameRows(rows, new), NEW c
    PROVE  /\ OfDay(new, c) = OfDay(rows, c)
           /\ NoneTogether(new, c) <=> NoneTogether(rows, c)
           /\ VolumeOf(new, c) = VolumeOf(rows, c)
<1>1. DOMAIN new = 1..Len(rows) /\ DOMAIN rows = 1..Len(rows)
  BY DEF SameRows
<1>2. OfDay(new, c) = OfDay(rows, c)
  BY <1>1 DEF OfDay, SameRows
<1>3. NoneTogether(new, c) <=> NoneTogether(rows, c)
  BY <1>1, <1>2 DEF NoneTogether, SameRows, OfDay
<1> DEFINE f == [b \in DOMAIN rows |-> rows[b].amount]
           g == [b \in DOMAIN new |-> new[b].amount]
<1>4. \A b \in OfDay(rows, c) : g[b] = f[b]
  BY <1>1 DEF OfDay, SameRows
<1> HIDE DEF f, g
<1>5. Total(g, OfDay(rows, c)) = Total(f, OfDay(rows, c))
  BY <1>4, RowFacts, TotalSame
<1> QED
  BY <1>2, <1>3, <1>5 DEF VolumeOf, f, g

(* What a row that is written for corridor c adds.                         *)
LEMMA NewRowCounts ==
    ASSUME NEW rows \in Seq(Row), NEW k \in Row, NEW new, new = Append(rows, k), NEW c
    PROVE  /\ new \in Seq(Row)
           /\ c # k.corridor => /\ OfDay(new, c) = OfDay(rows, c)
                                /\ NoneTogether(new, c) => NoneTogether(rows, c)
                                /\ VolumeOf(new, c) = VolumeOf(rows, c)
           /\ c = k.corridor =>
                 /\ Cardinality(OfDay(new, c)) = Cardinality(OfDay(rows, c)) + 1
                 /\ NoneTogether(new, c) => NoneTogether(rows, c) /\ ~k.together
                 /\ VolumeOf(new, c) = VolumeOf(rows, c) + k.amount
<1> DEFINE n == Len(rows) + 1
           f == [b \in DOMAIN rows |-> rows[b].amount]
           g == [b \in DOMAIN new |-> new[b].amount]
<1>1. /\ new \in Seq(Row) /\ DOMAIN new = 1..n /\ DOMAIN rows = 1..Len(rows)
      /\ Len(rows) \in Nat /\ new[n] = k /\ \A b \in 1..Len(rows) : new[b] = rows[b]
  OBVIOUS
<1>2. n \notin OfDay(rows, c)
  BY <1>1 DEF OfDay
<1>3. \A b \in OfDay(rows, c) : f[b] = g[b] /\ new[b] = rows[b] /\ b \in DOMAIN rows
  BY <1>1 DEF OfDay
<1>4. g[n] = k.amount /\ k.amount \in Int
  BY <1>1, LiquidityAssumption DEF Row
<1>5. Total(g, OfDay(rows, c)) = Total(f, OfDay(rows, c))
  <2>1. IsFiniteSet(OfDay(rows, c))
    BY RowFacts
  <2> HIDE DEF f, g
  <2> QED
    BY <1>3, <2>1, TotalSame
<1>6. CASE c # k.corridor
  <2>1. OfDay(new, c) = OfDay(rows, c)
    BY <1>1, <1>6 DEF OfDay
  <2>2. NoneTogether(new, c) => NoneTogether(rows, c)
    BY <1>3, <2>1 DEF NoneTogether
  <2> HIDE DEF f, g
  <2>3. VolumeOf(new, c) = VolumeOf(rows, c)
    BY <1>5, <2>1 DEF VolumeOf, f, g
  <2> QED
    BY <1>1, <1>6, <2>1, <2>2, <2>3
<1>7. CASE c = k.corridor
  <2>1. OfDay(new, c) = OfDay(rows, c) \cup {n}
    BY <1>1, <1>7 DEF OfDay
  <2>2. Cardinality(OfDay(new, c)) = Cardinality(OfDay(rows, c)) + 1
    BY <1>2, <2>1, RowFacts, FS_AddElement
  <2>3. NoneTogether(new, c) => NoneTogether(rows, c) /\ ~k.together
    BY <1>1, <1>3, <2>1 DEF NoneTogether
  <2>4. \A b \in OfDay(rows, c) : g[b] \in Int
    <3>1. \A b \in OfDay(rows, c) : rows[b].amount \in Nat /\ f[b] = rows[b].amount
      BY <1>3, RowFacts
    <3> HIDE DEF f, g
    <3> QED
      BY <1>3, <3>1
  <2>5. \A b \in OfDay(rows, c) \cup {n} : g[b] \in Int
    BY <1>4, <2>4
  <2>6. IsFiniteSet(OfDay(rows, c))
    BY RowFacts
  <2> HIDE DEF n, f, g
  <2>7. Total(g, OfDay(rows, c) \cup {n}) = Total(g, OfDay(rows, c)) + g[n]
    BY <1>2, <2>5, <2>6, TotalAdd
  <2>8. VolumeOf(new, c) = VolumeOf(rows, c) + k.amount
    BY <1>4, <1>5, <2>1, <2>7 DEF VolumeOf, f, g
  <2> QED
    BY <1>1, <1>7, <2>2, <2>3, <2>8
<1> QED
  BY <1>6, <1>7

(* A step that writes no row and lets no check pass its guards.            *)
LEMMA ChecksMove ==
    ASSUME LiquidityInv, hourly' \in Runs \cup {Nobody},
           check' \in [Runs -> [Corridors -> Check]], SameRows(row, row'),
           \A r \in Runs, c \in Corridors :
              /\ Active(check'[r][c]) => Active(check[r][c])
              /\ BeforeRow(check'[r][c]) =>
                    /\ check'[r][c].at = check[r][c].at /\ check'[r][c].amount = check[r][c].amount
                    /\ check[r][c].together => check'[r][c].together
    PROVE  LiquidityInv'
<1>0. row \in Seq(Row) /\ Len(row) <= MaxRows
  BY DEF LiquidityInv, LiquidityTypeOK
<1>1. LiquidityTypeOK'
  BY <1>0 DEF LiquidityTypeOK, SameRows
<1>2. \A c \in Corridors : /\ OfDay(row', c) = OfDay(row, c)
                           /\ NoneTogether(row', c) <=> NoneTogether(row, c)
                           /\ VolumeOf(row', c) = VolumeOf(row, c)
  BY <1>0, SameRowsCount
<1>3. RowsInv(row')
  BY <1>2 DEF LiquidityInv, RowsInv
<1>4. ASSUME NEW r \in Runs, NEW c \in Corridors, check'[r][c].at = "plan"
      PROVE  /\ MaxDaily > 0 /\ check'[r][c].amount \in 1..MaxVolume
             /\ ~check'[r][c].together /\ NoneTogether(row', c) => Fits(row', c, check'[r][c].amount)
  <2>1. /\ check[r][c].at = "plan" /\ check'[r][c].amount = check[r][c].amount
        /\ check[r][c].together => check'[r][c].together
    BY <1>4 DEF BeforeRow
  <2> QED
    BY <1>2, <2>1 DEF LiquidityInv, ChecksInv, Fits
<1>5. ASSUME NEW r \in Runs, NEW q \in Runs, NEW c \in Corridors,
             BeforeRow(check'[r][c]), Active(check'[q][c]), q # r
      PROVE  check'[r][c].together
  <2>1. Active(check[q][c]) /\ check[r][c].together => check'[r][c].together
    BY <1>5
  <2>2. check'[r][c].at = check[r][c].at
    BY <1>5
  <2>3. BeforeRow(check[r][c])
    BY <1>5, <2>2 DEF BeforeRow
  <2> QED
    BY <1>5, <2>1, <2>3 DEF LiquidityInv, ChecksInv
<1>6. ChecksInv(row', check')
  BY <1>4, <1>5 DEF ChecksInv
<1> QED
  BY <1>1, <1>3, <1>6 DEF LiquidityInv

(* The record of a check that is not running, and one that has ended.      *)
LEMMA IdleCheckFacts ==
    /\ IdleCheck \in Check /\ ~Active(IdleCheck) /\ ~BeforeRow(IdleCheck) /\ ~IdleCheck.together
    /\ \A at \in {"idle", "done", "failed"} :
          /\ [IdleCheck EXCEPT !.at = at] \in Check
          /\ ~Active([IdleCheck EXCEPT !.at = at]) /\ ~BeforeRow([IdleCheck EXCEPT !.at = at])
<1>1. IdleCheck \in Check /\ IdleCheck.at = "idle" /\ ~IdleCheck.together
  BY LiquidityAssumption DEF IdleCheck, Check
<1>2. \A at \in {"idle", "done", "failed"} :
         [IdleCheck EXCEPT !.at = at] \in Check /\ [IdleCheck EXCEPT !.at = at].at = at
  BY <1>1 DEF Check
<1> QED
  BY <1>1, <1>2 DEF Active, BeforeRow

(* One check takes a step that is no passing of the guards.                *)
LEMMA OneCheckMoves ==
    ASSUME LiquidityInv, hourly' = hourly, SameRows(row, row'),
           NEW r \in Runs, NEW c \in Corridors, NEW k \in Check,
           check' = [check EXCEPT ![r][c] = k], ~BeforeRow(k), Active(k) => Active(check[r][c])
    PROVE  LiquidityInv'
<1>0. check \in [Runs -> [Corridors -> Check]] /\ hourly \in Runs \cup {Nobody}
  BY DEF LiquidityInv, LiquidityTypeOK
<1>1. check' \in [Runs -> [Corridors -> Check]]
  BY <1>0
<1>2. \A q \in Runs, d \in Corridors :
         check'[q][d] = IF q = r /\ d = c THEN k ELSE check[q][d]
  BY <1>0
<1> QED
  BY <1>0, <1>1, <1>2, ChecksMove

(* Rows are the same as themselves, and as those with one status or job    *)
(* changed.                                                                *)
LEMMA SameRowsFacts ==
    ASSUME NEW rows \in Seq(Row), NEW b
    PROVE  /\ SameRows(rows, rows)
           /\ \A s \in {"PLANNED", "EXECUTING", "EXECUTED", "FAILED"} :
                 SameRows(rows, [rows EXCEPT ![b].status = s])
           /\ \A j \in {"none", "queued", "ran"} : SameRows(rows, [rows EXCEPT ![b].job = j])
<1>1. SameRows(rows, rows)
  BY DEF SameRows
<1>2. ASSUME NEW s \in {"PLANNED", "EXECUTING", "EXECUTED", "FAILED"}
      PROVE  SameRows(rows, [rows EXCEPT ![b].status = s])
  <2> DEFINE new == [rows EXCEPT ![b].status = s]
  <2>1. \A i \in DOMAIN rows : rows[i] \in Row /\ i \in 1..Len(rows)
    OBVIOUS
  <2>2. \A i \in DOMAIN rows : /\ new[i] \in Row /\ new[i].corridor = rows[i].corridor
                               /\ new[i].amount = rows[i].amount /\ new[i].together = rows[i].together
    BY <2>1 DEF Row
  <2>3. new \in Seq(Row) /\ Len(new) = Len(rows)
    <3>1. DOMAIN rows = 1..Len(rows) /\ Len(rows) \in Nat /\ DOMAIN new = DOMAIN rows
      OBVIOUS
    <3>2. new = [i \in 1..Len(rows) |-> new[i]]
      BY <3>1
    <3> HIDE DEF new
    <3>3. new \in [1..Len(rows) -> Row]
      BY <2>2, <3>1, <3>2
    <3> QED
      BY <3>1, <3>3
  <2> HIDE DEF new
  <2>4. SameRows(rows, new)
    BY <2>2, <2>3 DEF SameRows
  <2> QED
    BY <2>4 DEF new
<1>3. ASSUME NEW j \in {"none", "queued", "ran"}
      PROVE  SameRows(rows, [rows EXCEPT ![b].job = j])
  <2> DEFINE new == [rows EXCEPT ![b].job = j]
  <2>1. \A i \in DOMAIN rows : rows[i] \in Row /\ i \in 1..Len(rows)
    OBVIOUS
  <2>2. \A i \in DOMAIN rows : /\ new[i] \in Row /\ new[i].corridor = rows[i].corridor
                               /\ new[i].amount = rows[i].amount /\ new[i].together = rows[i].together
    BY <2>1 DEF Row
  <2>3. new \in Seq(Row) /\ Len(new) = Len(rows)
    <3>1. DOMAIN rows = 1..Len(rows) /\ Len(rows) \in Nat /\ DOMAIN new = DOMAIN rows
      OBVIOUS
    <3>2. new = [i \in 1..Len(rows) |-> new[i]]
      BY <3>1
    <3> HIDE DEF new
    <3>3. new \in [1..Len(rows) -> Row]
      BY <2>2, <3>1, <3>2
    <3> QED
      BY <3>1, <3>3
  <2> HIDE DEF new
  <2>4. SameRows(rows, new)
    BY <2>2, <2>3 DEF SameRows
  <2> QED
    BY <2>4 DEF new
<1> QED
  BY <1>1, <1>2, <1>3

(* The end of a check.                                                     *)
LEMMA FinishInv ==
    ASSUME LiquidityInv, hourly' = hourly, SameRows(row, row'),
           NEW r \in Runs, NEW c \in Corridors, NEW how \in {"done", "failed"}, Finish(r, c, how)
    PROVE  LiquidityInv'
<1> DEFINE at == IF hourly = r THEN how ELSE "idle"
           k == [IdleCheck EXCEPT !.at = at]
<1>1. at \in {"idle", "done", "failed"}
  OBVIOUS
<1>2. check' = [check EXCEPT ![r][c] = k]
  BY DEF Finish
<1> HIDE DEF at
<1>3. k \in Check /\ ~Active(k) /\ ~BeforeRow(k)
  BY <1>1, IdleCheckFacts
<1> HIDE DEF k
<1> QED
  BY <1>2, <1>3, OneCheckMoves

(* A run takes the lock and starts its checks.                             *)
LEMMA RunHourlyCheckInv ==
    ASSUME LiquidityInv, NEW r \in Runs, RunHourlyCheck(r)
    PROVE  LiquidityInv'
<1>0. check \in [Runs -> [Corridors -> Check]] /\ row' = row /\ hourly' = r
  BY DEF LiquidityInv, LiquidityTypeOK, RunHourlyCheck
<1>1. ASSUME NEW c \in Corridors
      PROVE  /\ check'[r][c] \in Check /\ check'[r][c].at = "guards"
             /\ (\E o \in Runs \ {r} : Active(check[o][c])) => check'[r][c].together
  <2> DEFINE some == \E o \in Runs \ {r} : Working(o, c)
             k == [IdleCheck EXCEPT !.at = "guards", !.together = some]
  <2>1. check'[r][c] = k
    BY DEF RunHourlyCheck
  <2>2. some \in BOOLEAN /\ ((\E o \in Runs \ {r} : Active(check[o][c])) => some)
    BY DEF Working, Active
  <2> HIDE DEF some
  <2>3. k \in Check /\ k.at = "guards" /\ k.together = some
    BY <2>2, IdleCheckFacts DEF Check
  <2> HIDE DEF k
  <2> QED
    BY <2>1, <2>2, <2>3
<1>2. ASSUME NEW q \in Runs \ {r}, NEW c \in Corridors
      PROVE  /\ check'[q][c] \in Check /\ check'[q][c].at = check[q][c].at
             /\ check'[q][c].amount = check[q][c].amount
             /\ check[q][c].together \/ Active(check[q][c]) => check'[q][c].together
  <2>1. check'[q][c] = [check[q][c] EXCEPT !.together = @ \/ Working(q, c)]
    BY DEF RunHourlyCheck
  <2>2. check[q][c] \in Check /\ (Working(q, c) <=> Active(check[q][c]))
    BY <1>0 DEF Working, Active
  <2> QED
    BY <2>1, <2>2 DEF Check
<1>3. check' \in [Runs -> [Corridors -> Check]]
  <2>1. \A q \in Runs, c \in Corridors : check'[q][c] \in Check
    BY <1>1, <1>2
  <2>2. check' = [q \in Runs |-> [c \in Corridors |-> check'[q][c]]]
    BY DEF RunHourlyCheck
  <2> QED
    BY <2>1, <2>2
<1>4. LiquidityTypeOK'
  BY <1>0, <1>3 DEF LiquidityInv, LiquidityTypeOK
<1>5. ASSUME NEW q \in Runs, NEW c \in Corridors, check'[q][c].at = "plan"
      PROVE  /\ MaxDaily > 0 /\ check'[q][c].amount \in 1..MaxVolume
             /\ ~check'[q][c].together /\ NoneTogether(row', c) => Fits(row', c, check'[q][c].amount)
  <2>1. q \in Runs \ {r}
    BY <1>1, <1>5
  <2> QED
    BY <1>0, <1>2, <1>5, <2>1 DEF LiquidityInv, ChecksInv
<1>6. ASSUME NEW q \in Runs, NEW o \in Runs, NEW c \in Corridors,
             BeforeRow(check'[q][c]), Active(check'[o][c]), o # q
      PROVE  check'[q][c].together
  <2>1. CASE q = r
    <3>1. Active(check[o][c]) /\ o \in Runs \ {r}
      BY <1>2, <1>6, <2>1 DEF Active
    <3> QED
      BY <1>1, <2>1, <3>1
  <2>2. CASE q # r
    <3>1. Active(check[q][c])
      BY <1>2, <1>6, <2>2 DEF Active, BeforeRow
    <3> QED
      BY <1>2, <2>2, <3>1
  <2> QED
    BY <2>1, <2>2
<1>7. ChecksInv(row', check')
  BY <1>5, <1>6 DEF ChecksInv
<1> QED
  BY <1>0, <1>4, <1>7 DEF LiquidityInv

(* What the guards allow is positive and fits into the day.                *)
LEMMA AllowedFits ==
    ASSUME LiquidityInv, NEW c \in Corridors, NEW n \in Shortfalls,
           CountBelowLimit(c), Allowed(c, n) > 0
    PROVE  /\ MaxDaily > 0 /\ Allowed(c, n) \in 1..MaxVolume
           /\ Fits(row, c, Allowed(c, n))
<1>1. Today(c) = OfDay(row, c) /\ Volume(c) = VolumeOf(row, c)
  BY DEF Today, Rows, OfDay, Volume, VolumeOf
<1>2. VolumeOf(row, c) \in Nat /\ Cardinality(OfDay(row, c)) \in Nat
  BY RowFacts DEF LiquidityInv, LiquidityTypeOK
<1>3. n \in Int /\ MaxVolume - Volume(c) \in Int /\ MaxDaily \in Nat /\ MaxVolume \in Nat
  BY <1>1, <1>2, LiquidityAssumption
<1> DEFINE S == {n, MaxVolume - Volume(c)}
<1>4. IsFiniteSet(S)
  <2>1. IsFiniteSet({n})
    BY FS_Singleton
  <2>2. IsFiniteSet({n} \cup {MaxVolume - Volume(c)})
    BY <2>1, FS_AddElement
  <2>3. S = {n} \cup {MaxVolume - Volume(c)}
    OBVIOUS
  <2> QED
    BY <2>2, <2>3
<1>5. S # {} /\ S \subseteq Int /\ MaxVolume - Volume(c) \in S
  BY <1>3
<1>6. Allowed(c, n) = Min(S)
  BY DEF Allowed
<1> HIDE DEF S
<1>7. Allowed(c, n) \in Int /\ Allowed(c, n) <= MaxVolume - Volume(c)
  BY <1>4, <1>5, <1>6, MinIsLeast
<1>8. MaxDaily > 0 /\ Cardinality(OfDay(row, c)) < MaxDaily
  BY <1>1, <1>2, <1>3 DEF CountBelowLimit
<1>9. Allowed(c, n) \in 1..MaxVolume /\ VolumeOf(row, c) + Allowed(c, n) <= MaxVolume
  BY <1>1, <1>2, <1>3, <1>7
<1> QED
  BY <1>8, <1>9 DEF Fits

(* A check passes its guards.                                              *)
LEMMA GuardsPassedInv ==
    ASSUME LiquidityInv, NEW r \in Runs, NEW c \in Corridors, NEW n \in Shortfalls,
           check[r][c].at = "guards", CountBelowLimit(c), Allowed(c, n) > 0,
           check' = [check EXCEPT ![r][c].at = "plan", ![r][c].amount = Allowed(c, n)],
           UNCHANGED <<hourly, row>>
    PROVE  LiquidityInv'
<1>0. check \in [Runs -> [Corridors -> Check]]
  BY DEF LiquidityInv, LiquidityTypeOK
<1> DEFINE k == [check[r][c] EXCEPT !.at = "plan", !.amount = Allowed(c, n)]
           a == Allowed(c, n)
<1>1. MaxDaily > 0 /\ a \in 1..MaxVolume /\ Fits(row, c, a)
  BY AllowedFits
<1>2. check' = [check EXCEPT ![r][c] = k]
  BY <1>0
<1> HIDE DEF a
<1>3. k \in Check /\ k.at = "plan" /\ k.amount = a /\ k.together = check[r][c].together
  <2>1. check[r][c] \in Check /\ a \in 0..MaxVolume
    BY <1>0, <1>1, LiquidityAssumption
  <2> QED
    BY <2>1 DEF Check, a
<1> HIDE DEF k
<1>4. \A q \in Runs, d \in Corridors :
         check'[q][d] = IF q = r /\ d = c THEN k ELSE check[q][d]
  BY <1>0, <1>2
<1>5. check' \in [Runs -> [Corridors -> Check]]
  BY <1>0, <1>2, <1>3
<1>6. LiquidityTypeOK'
  BY <1>5 DEF LiquidityInv, LiquidityTypeOK
<1>7. ASSUME NEW q \in Runs, NEW d \in Corridors, check'[q][d].at = "plan"
      PROVE  /\ MaxDaily > 0 /\ check'[q][d].amount \in 1..MaxVolume
             /\ ~check'[q][d].together /\ NoneTogether(row', d) => Fits(row', d, check'[q][d].amount)
  <2>1. CASE q = r /\ d = c
    BY <1>1, <1>3, <1>4, <2>1
  <2>2. CASE ~(q = r /\ d = c)
    <3>1. check'[q][d] = check[q][d]
      BY <1>4, <2>2
    <3>2. check[q][d].at = "plan"
      BY <1>7, <3>1
    <3> QED
      BY <3>1, <3>2 DEF LiquidityInv, ChecksInv
  <2> QED
    BY <2>1, <2>2
<1>8. ASSUME NEW q \in Runs, NEW o \in Runs, NEW d \in Corridors,
             BeforeRow(check'[q][d]), Active(check'[o][d]), o # q
      PROVE  check'[q][d].together
  <2>1. \A u \in Runs : \/ check'[u][d] = check[u][d]
                        \/ u = r /\ d = c /\ check'[u][d] = k
    <3> TAKE u \in Runs
    <3>1. CASE u = r /\ d = c
      BY <1>4, <3>1
    <3>2. CASE ~(u = r /\ d = c)
      BY <1>4, <3>2
    <3> QED
      BY <3>1, <3>2
  <2>2. BeforeRow(check[q][d]) /\ check'[q][d].together = check[q][d].together
    <3>1. CASE check'[q][d] = check[q][d]
      BY <1>8, <3>1
    <3>2. CASE q = r /\ d = c /\ check'[q][d] = k
      BY <1>3, <3>2 DEF BeforeRow
    <3> QED
      BY <2>1, <3>1, <3>2
  <2>3. Active(check[o][d])
    <3>1. CASE check'[o][d] = check[o][d]
      BY <1>8, <3>1
    <3>2. CASE o = r /\ d = c
      BY <3>2 DEF Active
    <3> QED
      BY <2>1, <3>1, <3>2
  <2> QED
    BY <1>8, <2>2, <2>3 DEF LiquidityInv, ChecksInv
<1>9. ChecksInv(row', check')
  BY <1>7, <1>8 DEF ChecksInv
<1> QED
  BY <1>6, <1>9 DEF LiquidityInv

(* A rebalance is planned: its row counts from now on.                     *)
LEMMA PlanRebalanceInv ==
    ASSUME LiquidityInv, NEW r \in Runs, NEW c \in Corridors, PlanRebalance(r, c)
    PROVE  LiquidityInv'
<1>0. /\ check \in [Runs -> [Corridors -> Check]] /\ row \in Seq(Row) /\ Len(row) \in Nat
      /\ Len(row) < MaxRows /\ check[r][c].at = "plan" /\ hourly' = hourly
  BY DEF LiquidityInv, LiquidityTypeOK, PlanRebalance
<1> DEFINE old == check[r][c]
           k == [corridor |-> c, status |-> "PLANNED", job |-> "none",
                 amount |-> old.amount, together |-> old.together]
           m == [IdleCheck EXCEPT !.at = "mark", !.row = Len(row) + 1]
<1>1. row' = Append(row, k) /\ check' = [check EXCEPT ![r][c] = m]
  BY DEF PlanRebalance
<1>2. /\ old \in Check /\ old.amount \in 1..MaxVolume /\ Active(old) /\ BeforeRow(old)
      /\ MaxDaily > 0
  BY <1>0 DEF LiquidityInv, ChecksInv, Active, BeforeRow
<1>3. k \in Row /\ k.corridor = c /\ k.amount = old.amount /\ k.together = old.together
  <2>1. old.together \in BOOLEAN
    BY <1>2 DEF Check
  <2> HIDE DEF old
  <2> QED
    BY <1>2, <2>1 DEF Row
<1>4. m \in Check /\ m.at = "mark"
  <2>1. Len(row) + 1 \in 0..MaxRows
    BY <1>0, LiquidityAssumption
  <2> QED
    BY <2>1, IdleCheckFacts DEF Check
<1> HIDE DEF k, m
<1>5. check' \in [Runs -> [Corridors -> Check]]
  BY <1>0, <1>1, <1>4
<1>6. \A q \in Runs, d \in Corridors :
         check'[q][d] = IF q = r /\ d = c THEN m ELSE check[q][d]
  BY <1>0, <1>1
<1>7. row' \in Seq(Row) /\ Len(row') <= MaxRows
  BY <1>0, <1>1, <1>3, LiquidityAssumption
<1>8. LiquidityTypeOK'
  BY <1>0, <1>5, <1>7 DEF LiquidityInv, LiquidityTypeOK
<1>9. \A d \in Corridors \ {c} : /\ OfDay(row', d) = OfDay(row, d)
                                 /\ NoneTogether(row', d) => NoneTogether(row, d)
                                 /\ VolumeOf(row', d) = VolumeOf(row, d)
  BY <1>0, <1>1, <1>3, NewRowCounts
<1>10. /\ Cardinality(OfDay(row', c)) = Cardinality(OfDay(row, c)) + 1
       /\ NoneTogether(row', c) => NoneTogether(row, c) /\ ~old.together
       /\ VolumeOf(row', c) = VolumeOf(row, c) + old.amount
  <2> HIDE DEF old
  <2>1. c = k.corridor
    BY <1>3
  <2>2. /\ Cardinality(OfDay(row', c)) = Cardinality(OfDay(row, c)) + 1
        /\ NoneTogether(row', c) => NoneTogether(row, c) /\ ~k.together
        /\ VolumeOf(row', c) = VolumeOf(row, c) + k.amount
    BY <1>0, <1>1, <1>3, <2>1, NewRowCounts
  <2> QED
    BY <1>3, <2>2
<1>11. NoneTogether(row', c) =>
          Cardinality(OfDay(row', c)) <= MaxDaily /\ VolumeOf(row', c) <= MaxVolume
  <2> SUFFICES ASSUME NoneTogether(row', c)
               PROVE  Cardinality(OfDay(row', c)) <= MaxDaily /\ VolumeOf(row', c) <= MaxVolume
    OBVIOUS
  <2>1. Fits(row, c, old.amount)
    BY <1>0, <1>10 DEF LiquidityInv, ChecksInv
  <2>2. Cardinality(OfDay(row, c)) \in Nat /\ MaxDaily \in Nat
    BY <1>0, RowFacts, LiquidityAssumption
  <2> QED
    BY <1>10, <2>1, <2>2 DEF Fits
<1>12. RowsInv(row')
  BY <1>9, <1>11 DEF LiquidityInv, RowsInv
<1>13. ASSUME NEW q \in Runs, NEW d \in Corridors, check'[q][d].at = "plan"
       PROVE  /\ MaxDaily > 0 /\ check'[q][d].amount \in 1..MaxVolume
              /\ ~check'[q][d].together /\ NoneTogether(row', d) => Fits(row', d, check'[q][d].amount)
  <2>1. ~(q = r /\ d = c)
    BY <1>4, <1>6, <1>13
  <2>2. check'[q][d] = check[q][d] /\ check[q][d].at = "plan"
    BY <1>6, <1>13, <2>1
  <2>3. CASE d = c
    <3>1. q # r /\ BeforeRow(check[q][d])
      BY <2>1, <2>2, <2>3 DEF BeforeRow
    <3>2. check[q][d].together
      BY <1>2, <2>3, <3>1 DEF LiquidityInv, ChecksInv
    <3> QED
      BY <2>2, <3>2 DEF LiquidityInv, ChecksInv
  <2>4. CASE d # c
    BY <1>9, <2>2, <2>4 DEF LiquidityInv, ChecksInv, Fits
  <2> QED
    BY <2>3, <2>4
<1>14. ASSUME NEW q \in Runs, NEW o \in Runs, NEW d \in Corridors,
              BeforeRow(check'[q][d]), Active(check'[o][d]), o # q
       PROVE  check'[q][d].together
  <2>1. check'[q][d] = check[q][d]
    BY <1>4, <1>6, <1>14 DEF BeforeRow
  <2>2. Active(check[o][d])
    <3>1. CASE o = r /\ d = c
      BY <1>2, <3>1
    <3>2. CASE ~(o = r /\ d = c)
      BY <1>6, <1>14, <3>2
    <3> QED
      BY <3>1, <3>2
  <2> QED
    BY <1>14, <2>1, <2>2 DEF LiquidityInv, ChecksInv
<1>15. ChecksInv(row', check')
  BY <1>13, <1>14 DEF ChecksInv
<1> QED
  BY <1>8, <1>12, <1>15 DEF LiquidityInv

(* Midnight: nothing is counted any more.                                  *)
LEMMA NewDayInv ==
    ASSUME LiquidityInv, NewDay
    PROVE  LiquidityInv'
<1>1. row' = << >> /\ check' = check /\ hourly' = hourly
  BY DEF NewDay
<1>2. row' \in Seq(Row) /\ Len(row') = 0 /\ DOMAIN row' = {}
  BY <1>1
<1>3. \A c \in Corridors : OfDay(row', c) = {}
  BY <1>2 DEF OfDay
<1>4. \A c \in Corridors : Cardinality(OfDay(row', c)) = 0 /\ VolumeOf(row', c) = 0
  BY <1>3, FS_EmptySet, RecursEmpty DEF VolumeOf
<1>5. LiquidityTypeOK'
  BY <1>1, <1>2, LiquidityAssumption DEF LiquidityInv, LiquidityTypeOK
<1>6. RowsInv(row')
  BY <1>4, LiquidityAssumption DEF RowsInv
<1>7. \A r \in Runs, c \in Corridors : check[r][c].at = "plan" =>
          /\ MaxDaily > 0 /\ check[r][c].amount \in 1..MaxVolume
          /\ Fits(row', c, check[r][c].amount)
  BY <1>4, LiquidityAssumption DEF LiquidityInv, ChecksInv, Fits
<1>8. ChecksInv(row', check')
  BY <1>1, <1>7 DEF LiquidityInv, ChecksInv
<1> QED
  BY <1>5, <1>6, <1>8 DEF LiquidityInv

(* The lock is given back, or its lease runs out: what is not working any  *)
(* more is forgotten.                                                      *)
LEMMA LetGoInv ==
    ASSUME LiquidityInv, hourly' = Nobody, row' = row, NEW r \in Runs,
           check' = [check EXCEPT ![r] = [c \in Corridors |->
                        IF Working(r, c) THEN check[r][c] ELSE IdleCheck]]
    PROVE  LiquidityInv'
<1>0. check \in [Runs -> [Corridors -> Check]] /\ row \in Seq(Row)
  BY DEF LiquidityInv, LiquidityTypeOK
<1>1. check' \in [Runs -> [Corridors -> Check]]
  BY <1>0, IdleCheckFacts
<1>2. \A q \in Runs, c \in Corridors : check'[q][c] \in {check[q][c], IdleCheck}
  BY <1>0
<1>3. SameRows(row, row')
  BY <1>0, SameRowsFacts
<1> QED
  BY <1>1, <1>2, <1>3, IdleCheckFacts, ChecksMove

(* The inductive invariant of the rebalancing.                             *)
LEMMA LiquidityInvHolds == LiquiditySpec => []LiquidityInv
<1>1. LiquidityInit => LiquidityInv
  <2> SUFFICES ASSUME LiquidityInit PROVE LiquidityInv
    OBVIOUS
  <2>1. check \in [Runs -> [Corridors -> Check]] /\ \A r \in Runs, c \in Corridors : check[r][c] = IdleCheck
    BY IdleCheckFacts DEF LiquidityInit
  <2>2. row \in Seq(Row) /\ Len(row) = 0 /\ DOMAIN row = {}
    BY DEF LiquidityInit
  <2>3. \A c \in Corridors : OfDay(row, c) = {}
    BY <2>2 DEF OfDay
  <2>4. \A c \in Corridors : Cardinality(OfDay(row, c)) = 0 /\ VolumeOf(row, c) = 0
    BY <2>3, FS_EmptySet, RecursEmpty DEF VolumeOf
  <2>5. RowsInv(row)
    BY <2>4, LiquidityAssumption DEF RowsInv
  <2>6. ChecksInv(row, check)
    BY <2>1, IdleCheckFacts DEF ChecksInv, BeforeRow
  <2>7. LiquidityTypeOK
    BY <2>1, <2>2, LiquidityAssumption DEF LiquidityInit, LiquidityTypeOK
  <2> QED
    BY <2>5, <2>6, <2>7 DEF LiquidityInv
<1>2. LiquidityInv /\ [LiquidityNext]_liquidityVars => LiquidityInv'
  <2> SUFFICES ASSUME LiquidityInv, [LiquidityNext]_liquidityVars PROVE LiquidityInv'
    OBVIOUS
  <2>0. /\ row \in Seq(Row) /\ check \in [Runs -> [Corridors -> Check]]
        /\ hourly \in Runs \cup {Nobody} /\ SameRows(row, row)
    BY SameRowsFacts DEF LiquidityInv, LiquidityTypeOK
  <2>1. ASSUME NEW r \in Runs, RunHourlyCheck(r) PROVE LiquidityInv'
    BY <2>1, RunHourlyCheckInv
  <2>2. ASSUME NEW r \in Runs, ReleaseLock(r) PROVE LiquidityInv'
    BY <2>2, LetGoInv DEF ReleaseLock
  <2>3. CASE LeaseExpires
    <3>1. hourly \in Runs
      BY <2>0, <2>3 DEF LeaseExpires
    <3> QED
      BY <2>3, <3>1, LetGoInv DEF LeaseExpires
  <2>4. ASSUME NEW r \in Runs, NEW c \in Corridors, CheckCorridor(r, c) PROVE LiquidityInv'
    <3>1. check[r][c].at = "guards" /\ UNCHANGED <<hourly, row>>
      BY <2>4 DEF CheckCorridor
    <3>2. CASE Finish(r, c, "done")
      BY <2>0, <3>1, <3>2, FinishInv
    <3>3. ASSUME NEW n \in Shortfalls, CountBelowLimit(c), Allowed(c, n) > 0,
                 check' = [check EXCEPT ![r][c].at = "plan", ![r][c].amount = Allowed(c, n)]
          PROVE  LiquidityInv'
      BY <3>1, <3>3, GuardsPassedInv
    <3> QED
      BY <2>4, <3>2, <3>3 DEF CheckCorridor
  <2>5. ASSUME NEW r \in Runs, NEW c \in Corridors, PlanRebalance(r, c) PROVE LiquidityInv'
    BY <2>5, PlanRebalanceInv
  <2>6. ASSUME NEW r \in Runs, NEW c \in Corridors, MarkExecuting(r, c) \/ PushJob(r, c)
        PROVE  LiquidityInv'
    <3>1. PICK at \in {"push", "audit"} : check' = [check EXCEPT ![r][c].at = at]
      BY <2>6 DEF MarkExecuting, PushJob, Step
    <3>2. Active(check[r][c]) /\ hourly' = hourly
      BY <2>6 DEF MarkExecuting, PushJob, Active
    <3>3. SameRows(row, row')
      <4> DEFINE b == check[r][c].row
      <4>1. CASE row' = [row EXCEPT ![b].status = "EXECUTING"]
        BY <2>0, <4>1, SameRowsFacts
      <4>2. CASE row' = [row EXCEPT ![b].job = "queued"]
        BY <2>0, <4>2, SameRowsFacts
      <4> QED
        BY <2>6, <4>1, <4>2 DEF MarkExecuting, PushJob
    <3> DEFINE k == [check[r][c] EXCEPT !.at = at]
    <3>4. k \in Check /\ k.at = at
      <4>1. check[r][c] \in Check
        BY <2>0
      <4> QED
        BY <4>1 DEF Check
    <3>5. check' = [check EXCEPT ![r][c] = k]
      BY <2>0, <3>1
    <3> HIDE DEF k
    <3>6. ~BeforeRow(k)
      BY <3>4 DEF BeforeRow
    <3> QED
      BY <3>2, <3>3, <3>4, <3>5, <3>6, OneCheckMoves
  <2>7. ASSUME NEW r \in Runs, NEW c \in Corridors, AuditDispatch(r, c) PROVE LiquidityInv'
    BY <2>0, <2>7, FinishInv DEF AuditDispatch
  <2>8. ASSUME NEW r \in Runs, NEW c \in Corridors, CheckFails(r, c) PROVE LiquidityInv'
    <3>1. Finish(r, c, "failed") /\ hourly' = hourly
      BY <2>8 DEF CheckFails
    <3>2. SameRows(row, row')
      BY <2>0, <2>8, SameRowsFacts DEF CheckFails
    <3> QED
      BY <3>1, <3>2, FinishInv
  <2>9. ASSUME UNCHANGED <<hourly, check>>, SameRows(row, row') PROVE LiquidityInv'
    BY <2>0, <2>9, ChecksMove
  <2>10. ASSUME NEW b \in DOMAIN row, WorkerExecutes(b) \/ RecordExecutionResult(b)
         PROVE  LiquidityInv'
    <3>1. CASE WorkerExecutes(b)
      <4>1. row' = [row EXCEPT ![b].job = "ran"] /\ UNCHANGED <<hourly, check>>
        BY <3>1 DEF WorkerExecutes
      <4> QED
        BY <2>0, <2>9, <4>1, SameRowsFacts
    <3>2. CASE RecordExecutionResult(b)
      <4>1. PICK s \in {"EXECUTED", "FAILED"} : row' = [row EXCEPT ![b].status = s]
        BY <3>2 DEF RecordExecutionResult
      <4>2. SameRows(row, row')
        BY <2>0, <4>1, SameRowsFacts
      <4> QED
        BY <2>9, <3>2, <4>2 DEF RecordExecutionResult
    <3> QED
      BY <2>10, <3>1, <3>2
  <2>11. CASE NewDay
    BY <2>11, NewDayInv
  <2>12. CASE UNCHANGED liquidityVars
    BY <2>0, <2>9, <2>12 DEF liquidityVars
  <2> QED
    BY <2>1, <2>2, <2>3, <2>4, <2>5, <2>6, <2>7, <2>8, <2>10, <2>11, <2>12 DEF LiquidityNext
<1> QED
  BY <1>1, <1>2, PTL DEF LiquiditySpec

(* For any number of API processes, corridors and failures: a corridor     *)
(* that no two runs checked at once is rebalanced at most MaxDaily times a *)
(* day, for at most MaxVolume in all.                                      *)
THEOREM DailyLimitsKept == LiquiditySpec => []DailyLimitsHold
<1>1. LiquidityInv => DailyLimitsHold
  <2>1. \A c : Today(c) = OfDay(row, c) /\ Volume(c) = VolumeOf(row, c)
    BY DEF Today, Rows, OfDay, Volume, VolumeOf
  <2> QED
    BY <2>1 DEF LiquidityInv, RowsInv, NoneTogether, DailyLimitsHold
<1> QED
  BY <1>1, LiquidityInvHolds, PTL
=============================================================================
