---------------------------- MODULE OfflineQueue ----------------------------
(***************************************************************************)
(* The offline queue of the web client: drafts in IndexedDB, shared by     *)
(* every tab of the browser, and one sync engine per tab that drains them. *)
(* A tab can close, and IndexedDB can reject, between any two awaits; the  *)
(* server may accept a POST whose answer never arrives.                    *)
(***************************************************************************)
EXTENDS Naturals, FiniteSets, Sequences, SequencesExt

CONSTANTS Drafts,         \* drafts the user may queue
          Tabs,           \* tabs with a sync engine
          MaxFaults       \* bound on closed tabs, storage errors and lost answers

VARIABLES drafts,     \* the stored drafts, oldest first
          status,     \* status[d]: of its record in the store, or what became of it
          locked,     \* the drafts whose lockExpiresAt has not passed
          tab,        \* tab[t]: where the drainQueue of t is
          online,     \* navigator.onLine
          accepted,   \* accepted[d]: POSTs of d the server accepted, up to 2
          lost,       \* drafts of which an accepted POST was not seen to succeed
          raced,      \* drafts claimed when not pending, or under a tab at work
          faults

queueVars == <<drafts, status, locked, tab, online, accepted, lost, raced, faults>>

DraftStatus == {"new", "pending", "syncing", "failed", "delivered", "discarded"}

(* todo: the pending drafts of the list still to be handled.               *)
Tab == [at : {"idle", "release", "list", "claim", "post", "remove", "fail", "requeue",
              "stuck", "closed"},
        todo : Seq(Drafts)]

IdleTab == [at |-> "idle", todo |-> << >>]

(* The store holds a record of d.                                          *)
Stored(d) == status[d] \in {"pending", "syncing", "failed"}

QueueTypeOK ==
    /\ drafts \in Seq(Drafts) /\ IsInjective(drafts)
    /\ status \in [Drafts -> DraftStatus]
    /\ ToSet(drafts) = {d \in Drafts : Stored(d)}
    /\ locked \subseteq {d \in Drafts : status[d] = "syncing"}
    /\ \A t \in Tabs : tab[t].at \in {"claim", "post", "remove", "fail", "requeue"}
           => tab[t] \in Tab /\ tab[t].todo # << >>
    /\ accepted \in [Drafts -> 0..2]

QueueInit ==
    /\ drafts = << >> /\ status = [d \in Drafts |-> "new"] /\ locked = {}
    /\ tab = [t \in Tabs |-> IdleTab]
    /\ online = TRUE
    /\ accepted = [d \in Drafts |-> 0] /\ lost = {} /\ raced = {} /\ faults = 0

storeVars == <<drafts, status, locked>>
ghosts == <<accepted, lost, raced>>

Goto(t, at) == tab' = [tab EXCEPT ![t].at = at]

(* The loop of drainQueue goes on with its next draft; the finally block   *)
(* clears isSyncingNow.                                                    *)
AfterDraft(r) == IF Len(r.todo) > 1 THEN [at |-> "claim", todo |-> Tail(r.todo)] ELSE IdleTab

NextDraft(t) == tab' = [tab EXCEPT ![t] = AfterDraft(@)]

(* put of a draft that is still stored; a missing one is left alone.       *)
PutStatus(d, s) == status' = IF Stored(d) THEN [status EXCEPT ![d] = s] ELSE status

Gone(d, how) ==
    /\ drafts' = Remove(drafts, d)
    /\ status' = IF Stored(d) THEN [status EXCEPT ![d] = how] ELSE status
    /\ locked' = locked \ {d}

Fault == faults < MaxFaults /\ faults' = faults + 1

-----------------------------------------------------------------------------
(* queueOfflineDraft / enqueueDraft, called by the form while offline.     *)
QueueOfflineDraft(d) ==
    /\ ~online /\ status[d] = "new"
    /\ drafts' = Append(drafts, d)
    /\ status' = [status EXCEPT ![d] = "pending"]
    /\ UNCHANGED <<locked, tab, online, ghosts, faults>>

(* drainQueue starts on mount, on the online event and every two minutes   *)
(* while online, unless this tab is already syncing.                       *)
DrainQueue(t) ==
    /\ online /\ tab[t].at = "idle"
    /\ Goto(t, "release")
    /\ UNCHANGED <<storeVars, online, ghosts, faults>>

(* A drain that forgets the locks of crashed tabs.                         *)
ReleaseNothing(t) ==
    /\ tab[t].at = "release"
    /\ Goto(t, "list")
    /\ UNCHANGED <<storeVars, online, ghosts, faults>>

ReleaseExpiredLocks(t) ==
    /\ tab[t].at = "release"
    /\ status' = [d \in Drafts |-> IF status[d] = "syncing" /\ d \notin locked
                                     THEN "pending" ELSE status[d]]
    /\ Goto(t, "list")
    /\ UNCHANGED <<drafts, locked, online, ghosts, faults>>

GetQueuedDrafts(t) ==
    LET pending == SelectSeq(drafts, LAMBDA d : status[d] = "pending") IN
    /\ tab[t].at = "list"
    /\ tab' = [tab EXCEPT ![t] = IF pending = << >> THEN IdleTab
                                 ELSE [at |-> "claim", todo |-> pending]]
    /\ UNCHANGED <<storeVars, online, ghosts, faults>>

(* Both awaits come before the try block: if IndexedDB rejects one of      *)
(* them, isSyncingNow stays set and this tab never drains again.           *)
StorageFails(t) ==
    /\ tab[t].at \in {"release", "list"} /\ Fault
    /\ Goto(t, "stuck")
    /\ UNCHANGED <<storeVars, online, ghosts>>

(* Another tab, whose lock has run out, is still busy with draft d.        *)
BeingDelivered(t, d) ==
    \E u \in Tabs \ {t} : /\ tab[u].at \in {"post", "remove", "fail", "requeue"}
                          /\ Head(tab[u].todo) = d

(* claimDraft takes any stored draft, whatever its status, and lets a      *)
(* missing one pass: the POST follows in every case.                       *)
ClaimDraft(t) ==
    LET d == Head(tab[t].todo) IN
    /\ tab[t].at = "claim"
    /\ PutStatus(d, "syncing")
    /\ locked' = IF Stored(d) THEN locked \cup {d} ELSE locked
    /\ raced' = IF status[d] # "pending" \/ BeingDelivered(t, d)
                  THEN raced \cup {d} ELSE raced
    /\ Goto(t, "post")
    /\ UNCHANGED <<drafts, online, accepted, lost, faults>>

ClaimFails(t) ==
    /\ tab[t].at = "claim" /\ Fault
    /\ NextDraft(t)
    /\ UNCHANGED <<storeVars, online, ghosts>>

(* POST /transactions/send without an idempotency key.                     *)
Accept(d) == accepted' = [accepted EXCEPT ![d] = IF @ = 2 THEN 2 ELSE @ + 1]

PostAccepted(t) ==
    /\ tab[t].at = "post" /\ online
    /\ Accept(Head(tab[t].todo))
    /\ Goto(t, "remove")
    /\ UNCHANGED <<storeVars, online, lost, raced, faults>>

(* A timeout or a broken connection after the server took the request.     *)
PostAnswerLost(t) ==
    /\ tab[t].at = "post" /\ online /\ Fault
    /\ Accept(Head(tab[t].todo))
    /\ lost' = lost \cup {Head(tab[t].todo)}
    /\ Goto(t, "requeue")
    /\ UNCHANGED <<storeVars, online, raced>>

(* A status from 400 to 499.                                               *)
PostRefused(t) ==
    /\ tab[t].at = "post" /\ online
    /\ Goto(t, "fail")
    /\ UNCHANGED <<storeVars, online, ghosts, faults>>

(* A drain that takes a transient error for a delivery.                    *)
TransientIsDelivered(t) ==
    /\ tab[t].at = "post" /\ ~online
    /\ Goto(t, "remove")
    /\ UNCHANGED <<storeVars, online, ghosts, faults>>

(* No connection, or a status from 500 up.                                 *)
PostUnreachable(t) ==
    /\ tab[t].at = "post"
    /\ \/ ~online /\ UNCHANGED faults
       \/ online /\ Fault
    /\ Goto(t, "requeue")
    /\ UNCHANGED <<storeVars, online, ghosts>>

(* removeDraft after a success, inside the try block.                      *)
RemoveDraft(t) ==
    /\ tab[t].at = "remove"
    /\ Gone(Head(tab[t].todo), "delivered")
    /\ NextDraft(t)
    /\ UNCHANGED <<online, ghosts, faults>>

(* When it rejects, the catch block treats the delivered draft as a        *)
(* network failure and puts it back.                                       *)
RemoveFails(t) ==
    /\ tab[t].at = "remove" /\ Fault
    /\ lost' = lost \cup {Head(tab[t].todo)}
    /\ Goto(t, "requeue")
    /\ UNCHANGED <<storeVars, online, accepted, raced>>

MarkDraftFailed(t) ==
    LET d == Head(tab[t].todo) IN
    /\ tab[t].at = "fail"
    /\ PutStatus(d, "failed") /\ locked' = locked \ {d}
    /\ NextDraft(t)
    /\ UNCHANGED <<drafts, online, ghosts, faults>>

RequeueDraft(t) ==
    LET d == Head(tab[t].todo) IN
    /\ tab[t].at = "requeue"
    /\ PutStatus(d, "pending") /\ locked' = locked \ {d}
    /\ NextDraft(t)
    /\ UNCHANGED <<drafts, online, ghosts, faults>>

(* A rejection in the catch block leaves the loop through finally.         *)
SettleFails(t) ==
    /\ tab[t].at \in {"fail", "requeue"} /\ Fault
    /\ tab' = [tab EXCEPT ![t] = IdleTab]
    /\ UNCHANGED <<storeVars, online, ghosts>>

-----------------------------------------------------------------------------
(* Sixty seconds pass since the claim.                                     *)
LockExpires(d) ==
    /\ d \in locked
    /\ locked' = locked \ {d}
    /\ UNCHANGED <<drafts, status, tab, online, ghosts, faults>>

(* A closed or reloaded tab drops what it was doing; a POST on its way may *)
(* still be accepted.                                                      *)
TabCloses(t) ==
    /\ tab[t].at # "closed" /\ Fault
    /\ tab' = [tab EXCEPT ![t] = [at |-> "closed", todo |-> << >>]]
    /\ \/ tab[t].at # "remove" /\ UNCHANGED <<accepted, lost>>
       \/ /\ tab[t].at = "post" /\ online
          /\ Accept(Head(tab[t].todo)) /\ lost' = lost \cup {Head(tab[t].todo)}
       \/ /\ tab[t].at = "remove"
          /\ lost' = lost \cup {Head(tab[t].todo)} /\ UNCHANGED accepted
    /\ UNCHANGED <<storeVars, online, raced>>

TabOpens(t) ==
    /\ tab[t].at = "closed"
    /\ tab' = [tab EXCEPT ![t] = IdleTab]
    /\ UNCHANGED <<storeVars, online, ghosts, faults>>

(* The banner lists failed drafts and offers to discard one or, while      *)
(* there are any, to clear the whole store.                                *)
BannerShown(t) ==
    /\ tab[t].at # "closed"
    /\ \E d \in Drafts : status[d] = "failed"
    /\ \/ ~online \/ tab[t].at # "idle"
       \/ \E d \in Drafts : status[d] \in {"pending", "syncing"}

HandleDiscard(t, d) ==
    /\ BannerShown(t) /\ status[d] = "failed"
    /\ Gone(d, "discarded")
    /\ UNCHANGED <<tab, online, ghosts, faults>>

HandleClearAll(t) ==
    /\ BannerShown(t)
    /\ drafts' = << >> /\ locked' = {}
    /\ status' = [d \in Drafts |-> IF Stored(d) THEN "discarded" ELSE status[d]]
    /\ UNCHANGED <<tab, online, ghosts, faults>>

GoesOffline ==
    /\ online /\ faults < MaxFaults
    /\ faults' = faults + 1
    /\ online' = FALSE
    /\ UNCHANGED <<storeVars, tab, ghosts>>

GoesOnline ==
    /\ ~online
    /\ online' = TRUE
    /\ UNCHANGED <<storeVars, tab, ghosts, faults>>

Drain(t) ==
    \/ DrainQueue(t) \/ ReleaseExpiredLocks(t) \/ GetQueuedDrafts(t) \/ ClaimDraft(t)
    \/ PostAccepted(t) \/ PostRefused(t) \/ PostUnreachable(t)
    \/ RemoveDraft(t) \/ MarkDraftFailed(t) \/ RequeueDraft(t)

QueueFaults(t) ==
    \/ StorageFails(t) \/ ClaimFails(t) \/ PostAnswerLost(t) \/ RemoveFails(t)
    \/ SettleFails(t) \/ TabCloses(t) \/ TabOpens(t)

QueueNext ==
    \/ \E t \in Tabs : \/ Drain(t) \/ QueueFaults(t)
                       \/ \E d \in Drafts : HandleDiscard(t, d)
                       \/ HandleClearAll(t)
    \/ \E d \in Drafts : QueueOfflineDraft(d) \/ LockExpires(d)
    \/ GoesOffline \/ GoesOnline

(* The timer starts a drain every two minutes and its awaits come back, a  *)
(* POST with some answer; sixty seconds pass.                              *)
QueueFairness ==
    /\ \A t \in Tabs : WF_queueVars(Drain(t))
    /\ \A d \in Drafts : WF_queueVars(LockExpires(d))

QueueSpec == QueueInit /\ [][QueueNext]_queueVars /\ QueueFairness

-----------------------------------------------------------------------------
(* A transfer reaches the server twice only if an accepted POST was not    *)
(* seen to succeed (its answer, its removal or its tab was lost), or if a  *)
(* tab claimed a draft that had stopped being pending since it was listed, *)
(* or that a tab whose sixty seconds had run out was still delivering; and *)
(* nothing leaves the queue as delivered that the server never took.       *)
SecondPostIsExplained ==
    \A d \in Drafts : /\ accepted[d] > 1 => d \in lost \cup raced
                      /\ status[d] = "delivered" => accepted[d] > 0

(* What claimDraft's comment says: drains that run side by side post a     *)
(* draft once, unless the answer to an accepted POST was lost.             *)
ParallelDrainsPostOnce == \A d \in Drafts \ lost : accepted[d] <= 1

(* A queued draft is delivered, refused or thrown away, though tabs crash  *)
(* with it claimed, provided the browser stays online in the end and one   *)
(* tab stays open that IndexedDB never failed before its try block.        *)
DraftIsSettled ==
    <>[]online /\ (\E t \in Tabs : <>[](tab[t].at \notin {"stuck", "closed"})) =>
        \A d \in Drafts : status[d] = "pending" ~> status[d] \in {"failed", "delivered", "discarded"}
=============================================================================
