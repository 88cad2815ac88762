------------------------------ MODULE SendForm ------------------------------
(***************************************************************************)
(* components/SendForm.tsx: a form whose quote is fetched by a debounce    *)
(* timer, by buttons and by a countdown, so that several simulations can   *)
(* be in flight while the user edits, goes back or confirms.               *)
(***************************************************************************)
EXTENDS Naturals

CONSTANTS Destinations, Amounts, NoForm,
          Requests,     \* simulate requests in flight at once
          QuoteLife     \* ticks a fresh quote lives

ASSUME FormAssumption ==
    /\ QuoteLife \in Nat \ {0}
    /\ NoForm \notin [destination : Destinations, amount : Amounts]

VARIABLES form,      \* what the inputs hold, or NoForm
          screen,    \* the component's other state
          request,   \* request[r]: a simulation in flight
          online,    \* navigator.onLine
          handed     \* what the last confirmation handed over, or NoForm

formVars == <<form, screen, request, online, handed>>

Forms == [destination : Destinations, amount : Amounts]

(* of: the form a simulation was asked for; late: history, the form was    *)
(* edited while it was the current request in flight.                      *)
Quote == [of : Forms, status : {"ok", "blocked"}, late : BOOLEAN]
NoQuote == [of |-> NoForm, status |-> "none", late |-> FALSE]

(* timer: the debounce is armed; address: the retyped suffix matches;      *)
(* busy: a submission is under way and how ("send", "draft").              *)
Screen == [step : {"edit", "preview"}, loading : BOOLEAN, timer : BOOLEAN,
           simulation : Quote \cup {NoQuote}, countdown : 0..QuoteLife,
           address : BOOLEAN, isOffline : BOOLEAN, busy : {"no", "send", "draft"}]

Request == [of : Forms \cup {NoForm}, current : BOOLEAN, late : BOOLEAN]
NoRequest == [of |-> NoForm, current |-> FALSE, late |-> FALSE]

FormTypeOK ==
    /\ form \in Forms \cup {NoForm} /\ screen \in Screen
    /\ request \in [Requests -> Request]
    /\ online \in BOOLEAN /\ handed \in Forms \cup {NoForm}

FormInit ==
    /\ form = NoForm /\ online = TRUE /\ handed = NoForm
    /\ screen = [step |-> "edit", loading |-> FALSE, timer |-> FALSE, simulation |-> NoQuote,
                 countdown |-> 0, address |-> FALSE, isOffline |-> FALSE, busy |-> "no"]
    /\ request = [r \in Requests |-> NoRequest]

(* The panels are hidden while a quote loads or a transfer is being sent.  *)
EditPanel == ~screen.loading /\ screen.busy # "send" /\ screen.step = "edit"
PreviewPanel == /\ ~screen.loading /\ screen.busy # "send" /\ screen.step = "preview"
                /\ screen.simulation # NoQuote

CanSend == screen.simulation.status = "ok" /\ screen.countdown > 0

-----------------------------------------------------------------------------
(* An input changes: the debounce timer restarts, and a new destination    *)
(* forgets the retyped suffix.  A request in flight keeps the old form.    *)
EditForm(f) ==
    /\ EditPanel /\ f # form
    /\ form' = f
    /\ screen' = [screen EXCEPT !.timer = TRUE,
                     !.address = @ /\ form # NoForm /\ f.destination = form.destination]
    /\ request' = [r \in Requests |-> [request[r] EXCEPT !.late = @ \/ request[r].current]]
    /\ UNCHANGED <<online, handed>>

(* handleSimulate, up to the request: it takes the next request id.        *)
HandleSimulate(r, scr) ==
    /\ form # NoForm /\ request[r] = NoRequest
    /\ screen' = scr
    /\ request' = [q \in Requests |->
                      IF q = r THEN [of |-> form, current |-> TRUE, late |-> FALSE]
                      ELSE [request[q] EXCEPT !.current = FALSE, !.late = FALSE]]
    /\ UNCHANGED <<form, online, handed>>

DebounceFires(r) ==
    /\ screen.timer /\ screen.step = "edit"
    /\ HandleSimulate(r, [screen EXCEPT !.timer = FALSE, !.loading = TRUE])

(* The preview button, and Refresh Quote once the quote has run out.       *)
PreviewTransfer(r) ==
    /\ \/ EditPanel /\ ~screen.isOffline
       \/ PreviewPanel /\ screen.simulation.status = "ok" /\ screen.countdown = 0
          /\ screen.busy = "no"
    /\ HandleSimulate(r, [screen EXCEPT !.loading = TRUE])

(* Applying whatever answer arrives.                                       *)
ApplyAny(r) == TRUE

(* requestId !== simulationRequestRef.current                              *)
ApplyAnswer(r) == request[r].current

(* The answer: a superseded one only takes the loading panel away.  A live *)
(* quote, or a blocked one, opens the preview and ends the debounce.       *)
Simulated(r, status, life) ==
    /\ request[r] # NoRequest
    /\ (status = "blocked") => (life = 0)
    /\ screen' = IF ApplyAnswer(r)
                 THEN [screen EXCEPT !.loading = FALSE, !.step = "preview", !.timer = FALSE,
                          !.simulation = [of |-> request[r].of, status |-> status,
                                          late |-> request[r].late],
                          !.countdown = life]
                 ELSE [screen EXCEPT !.loading = FALSE]
    /\ request' = [request EXCEPT ![r] = NoRequest]
    /\ UNCHANGED <<form, online, handed>>

SimulateFails(r) ==
    /\ request[r] # NoRequest
    /\ screen' = IF ApplyAnswer(r)
                 THEN [screen EXCEPT !.loading = FALSE, !.simulation = NoQuote, !.countdown = 0]
                 ELSE [screen EXCEPT !.loading = FALSE]
    /\ request' = [request EXCEPT ![r] = NoRequest]
    /\ UNCHANGED <<form, online, handed>>

(* The interval: the last tick asks for a new quote behind the old one.    *)
CountdownTicks(r) ==
    /\ screen.step = "preview" /\ screen.simulation # NoQuote
    /\ ~screen.loading /\ screen.countdown > 0
    /\ \/ /\ screen.countdown > 1 \/ form = NoForm
          /\ screen' = [screen EXCEPT !.countdown = @ - 1]
          /\ UNCHANGED <<form, request, online, handed>>
       \/ /\ screen.countdown = 1
          /\ HandleSimulate(r, [screen EXCEPT !.countdown = 0])

(* Modify.  The request in flight is not cancelled.                        *)
HandleBackToEdit ==
    /\ PreviewPanel
    /\ screen' = [screen EXCEPT !.step = "edit", !.simulation = NoQuote,
                               !.timer = form # NoForm]
    /\ UNCHANGED <<form, request, online, handed>>

RetypeAddress ==
    /\ PreviewPanel /\ screen.countdown > 0
    /\ \E ok \in {FALSE, form # NoForm} : screen' = [screen EXCEPT !.address = ok]
    /\ UNCHANGED <<form, request, online, handed>>

(* Confirm Send: sendTransfer, or a draft if the network has gone and the  *)
(* component has not heard of it.                                          *)
HandleConfirm ==
    /\ PreviewPanel /\ ~screen.isOffline /\ screen.busy = "no" /\ CanSend /\ screen.address
    /\ handed' = form
    /\ screen' = [screen EXCEPT !.busy = IF online THEN "send" ELSE "draft"]
    /\ UNCHANGED <<form, request, online>>

(* Queue Transfer Offline, from the edit panel.                            *)
QueueOffline ==
    /\ EditPanel /\ screen.isOffline /\ form # NoForm /\ screen.busy = "no"
    /\ screen' = [screen EXCEPT !.busy = "draft"]
    /\ UNCHANGED <<form, request, online, handed>>

(* The submission ends: accepted, the form is emptied and the edit panel   *)
(* comes back; refused, everything stays.                                  *)
Submitted(ok) ==
    /\ screen.busy # "no"
    /\ handed' = NoForm
    /\ IF ok
       THEN /\ form' = NoForm
            /\ screen' = [screen EXCEPT !.busy = "no", !.step = "edit", !.simulation = NoQuote,
                             !.timer = FALSE, !.address = FALSE]
       ELSE /\ screen' = [screen EXCEPT !.busy = "no"]
            /\ UNCHANGED form
    /\ UNCHANGED <<request, online>>

ConnectivityChanges ==
    /\ online' = ~online
    /\ UNCHANGED <<form, screen, request, handed>>

UpdateConnectivity ==
    /\ screen.isOffline = online
    /\ screen' = [screen EXCEPT !.isOffline = ~online]
    /\ UNCHANGED <<form, request, online, handed>>

FormNext ==
    \/ \E f \in Forms : EditForm(f)
    \/ \E r \in Requests :
          \/ DebounceFires(r) \/ PreviewTransfer(r) \/ SimulateFails(r) \/ CountdownTicks(r)
          \/ \E status \in {"ok", "blocked"}, life \in 0..QuoteLife : Simulated(r, status, life)
    \/ HandleBackToEdit \/ RetypeAddress \/ HandleConfirm \/ QueueOffline
    \/ \E ok \in BOOLEAN : Submitted(ok)
    \/ ConnectivityChanges \/ UpdateConnectivity

FormSpec == FormInit /\ [][FormNext]_formVars

-----------------------------------------------------------------------------
(* What is confirmed is what was quoted: Confirm Send hands over the form  *)
(* that the simulation on the screen was asked for, however many debounced,*)
(* manual and automatic requests overlapped.  The exception, which the     *)
(* flag late marks, is an edit made while the current request was in       *)
(* flight: its answer opens the preview over the edited form.              *)
ConfirmedFormWasQuoted ==
    [][handed' # NoForm /\ handed' # handed =>
          \/ screen.simulation.of = handed'
          \/ screen.simulation.late]_formVars
=============================================================================
