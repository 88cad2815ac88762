----------------------------- MODULE AuditTrail -----------------------------
(***************************************************************************)
(* The audit log and the erasure of a user, one subject.                   *)
(*                                                                         *)
(* AuditService.log reads the newest row, inserts a row that points at its *)
(* hash, and then updates the new row with its own hash: three awaits, and *)
(* errors are swallowed.  The trigger audit_log_immutable refuses every    *)
(* update but the erasure's.  eraseUser moves what the subject owns to a   *)
(* pseudonym in one database transaction, from a list of wallets it read   *)
(* before the transaction began.                                           *)
(***************************************************************************)
EXTENDS Naturals, Sequences, FiniteSets

CONSTANTS Loggers,       \* log calls in flight at once
          Erasers,       \* eraseUser calls
          OwnWallets,    \* wallets the subject can create
          MaxRows        \* bound on the length of the trail

ASSUME AuditAssumption == MaxRows \in Nat \ {0}

VARIABLES trail,       \* the AuditLog rows, oldest first
          logger,      \* logger[l]: where a log call is
          subject,     \* whether the subject's User row exists
          tombstone,   \* whether an AnonymizationTombstone exists
          owner,       \* owner[w]: whose wallet row w is, "none" without a row
          secret,      \* the wallets with an encryptedSecret
          transfers,   \* transfers[w]: whose Transaction row refers to w
          kycRow,      \* whether the subject has a KycRecord
          eraser       \* eraser[e]: where an eraseUser call is

auditVars == <<trail, logger>>
accountVars == <<subject, tombstone, owner, secret, transfers, kycRow>>
trailVars == <<trail, logger, subject, tombstone, owner, secret, transfers, kycRow, eraser>>

Owner == {"none", "subject", "pseudonym"}

(* prev: the row whose hash is previousHash, 0 for null; chained: whether  *)
(* AuditService.log wrote the row.                                         *)
AuditRow == [user : {"subject", "other", "pseudonym"}, prev : 0..MaxRows,
             sealed : BOOLEAN, chained : BOOLEAN]

DirectRow(u) == [user |-> u, prev |-> 0, sealed |-> FALSE, chained |-> FALSE]

TrailTypeOK ==
    /\ trail \in Seq(AuditRow) /\ Len(trail) <= MaxRows
    /\ logger \in [Loggers -> [at : {"idle", "insert", "seal"}, row : 0..MaxRows]]
    /\ subject \in BOOLEAN /\ tombstone \in BOOLEAN /\ kycRow \in BOOLEAN
    /\ owner \in [OwnWallets -> Owner] /\ transfers \in [OwnWallets -> Owner]
    /\ secret \subseteq OwnWallets
    /\ eraser \in [Erasers -> [at : {"idle", "load", "commit", "done"}, saw : SUBSET OwnWallets]]

TrailInit ==
    /\ trail = << >>
    /\ logger = [l \in Loggers |-> [at |-> "idle", row |-> 0]]
    /\ subject = TRUE /\ tombstone = FALSE
    /\ owner = [w \in OwnWallets |-> "none"] /\ secret = {}
    /\ transfers = [w \in OwnWallets |-> "none"]
    /\ kycRow = FALSE
    /\ eraser = [e \in Erasers |-> [at |-> "idle", saw |-> {}]]

-----------------------------------------------------------------------------
(* AuditService                                                            *)

(* The hash of the newest row, null when it has none.                      *)
PreviousHash ==
    IF trail # << >> /\ trail[Len(trail)].sealed THEN Len(trail) ELSE 0

ReadPrevious(l) ==
    /\ logger[l].at = "idle"
    /\ logger' = [logger EXCEPT ![l] = [at |-> "insert", row |-> PreviousHash]]
    /\ UNCHANGED <<trail, eraser>> /\ UNCHANGED accountVars

InsertEntry(l, u) ==
    /\ logger[l].at = "insert" /\ Len(trail) < MaxRows
    /\ trail' = Append(trail, [user |-> u, prev |-> logger[l].row,
                              sealed |-> FALSE, chained |-> TRUE])
    /\ logger' = [logger EXCEPT ![l] = [at |-> "seal", row |-> Len(trail) + 1]]
    /\ UNCHANGED eraser /\ UNCHANGED accountVars

(* No trigger on the table.                                                *)
NoTrigger(anonymizing) == TRUE

(* audit_log_prevent_mutation: an update passes only where the transaction *)
(* has set audit_log.allow_anonymization.                                  *)
UpdateAllowed(anonymizing) == anonymizing

(* The update with the hash; what it throws is swallowed.                  *)
SealEntry(l) ==
    /\ logger[l].at = "seal"
    /\ trail' = IF UpdateAllowed(FALSE) THEN [trail EXCEPT ![logger[l].row].sealed = TRUE]
                                        ELSE trail
    /\ logger' = [logger EXCEPT ![l] = [at |-> "idle", row |-> 0]]
    /\ UNCHANGED eraser /\ UNCHANGED accountVars

(* KycService.writeAuditLog and AdminComplianceService.logAccess insert    *)
(* rows that take no part in the chain.                                    *)
WriteAuditLog(u) ==
    /\ Len(trail) < MaxRows
    /\ trail' = Append(trail, DirectRow(u))
    /\ UNCHANGED <<logger, eraser>> /\ UNCHANGED accountVars

-----------------------------------------------------------------------------
(* What the subject does meanwhile                                         *)

(* createWallet's insert; the foreign key needs the User row.              *)
AddWallet(w) ==
    /\ subject /\ owner[w] = "none"
    /\ owner' = [owner EXCEPT ![w] = "subject"]
    /\ UNCHANGED <<subject, tombstone, secret, transfers, kycRow, eraser>>
    /\ UNCHANGED auditVars

(* importWallet's last step updates the row by its id, whoever owns it.    *)
StoreSecret(w) ==
    /\ owner[w] # "none"
    /\ secret' = secret \cup {w}
    /\ UNCHANGED <<subject, tombstone, owner, transfers, kycRow, eraser>>
    /\ UNCHANGED auditVars

AddTransfer(w) ==
    /\ subject /\ owner[w] = "subject" /\ transfers[w] = "none"
    /\ transfers' = [transfers EXCEPT ![w] = "subject"]
    /\ UNCHANGED <<subject, tombstone, owner, secret, kycRow, eraser>>
    /\ UNCHANGED auditVars

AddKycRecord ==
    /\ subject /\ ~kycRow
    /\ kycRow' = TRUE
    /\ UNCHANGED <<subject, tombstone, owner, secret, transfers, eraser>>
    /\ UNCHANGED auditVars

-----------------------------------------------------------------------------
(* AdminComplianceService.eraseUser                                        *)

(* logAccess, then the tombstone is looked up.                             *)
BeginErase(e) ==
    /\ eraser[e].at = "idle" /\ Len(trail) < MaxRows
    /\ trail' = Append(trail, DirectRow("other"))
    /\ eraser' = [eraser EXCEPT ![e].at = IF tombstone THEN "done" ELSE "load"]
    /\ UNCHANGED logger /\ UNCHANGED accountVars

LoadSubject(e) ==
    /\ eraser[e].at = "load"
    /\ eraser' = [eraser EXCEPT ![e] =
                    IF subject THEN [at |-> "commit", saw |-> {w \in OwnWallets : owner[w] = "subject"}]
                               ELSE [at |-> "done", saw |-> {}]]
    /\ UNCHANGED auditVars /\ UNCHANGED accountVars

(* Deleting the User row cascades to wallets the list does not have, and   *)
(* the database refuses it when a transaction refers to one of them.       *)
Unseen(e) == {w \in OwnWallets : owner[w] = "subject"} \ eraser[e].saw

(* Transfers that cascade with the wallet they refer to.                   *)
EraseCascades(e) == subject

CanErase(e) == subject /\ \A w \in Unseen(e) : transfers[w] = "none"

Moved(o) == IF o = "subject" THEN "pseudonym" ELSE o

EraseSubject(e) ==
    /\ eraser[e].at = "commit" /\ CanErase(e) /\ UpdateAllowed(TRUE) /\ Len(trail) < MaxRows
    /\ owner' = [w \in OwnWallets |-> IF w \in Unseen(e) THEN "none" ELSE Moved(owner[w])]
    /\ secret' = secret \ (eraser[e].saw \cup Unseen(e))
    /\ transfers' = [w \in OwnWallets |-> Moved(transfers[w])]
    /\ trail' = Append([i \in 1..Len(trail) |-> [trail[i] EXCEPT !.user = Moved(@)]],
                       DirectRow("pseudonym"))
    /\ subject' = FALSE /\ kycRow' = FALSE /\ tombstone' = TRUE
    /\ eraser' = [eraser EXCEPT ![e] = [at |-> "done", saw |-> {}]]
    /\ UNCHANGED logger

(* The transaction rolls back; the administrator may ask again.            *)
EraseFails(e) ==
    /\ eraser[e].at = "commit" /\ ~CanErase(e)
    /\ eraser' = [eraser EXCEPT ![e] = [at |-> "idle", saw |-> {}]]
    /\ UNCHANGED auditVars /\ UNCHANGED accountVars

TrailNext ==
    \/ \E l \in Loggers : \/ ReadPrevious(l) \/ SealEntry(l)
                          \/ \E u \in {"subject", "other"} : InsertEntry(l, u)
    \/ \E u \in {"subject", "other"} : WriteAuditLog(u)
    \/ \E w \in OwnWallets : AddWallet(w) \/ StoreSecret(w) \/ AddTransfer(w)
    \/ AddKycRecord
    \/ \E e \in Erasers : BeginErase(e) \/ LoadSubject(e) \/ EraseSubject(e) \/ EraseFails(e)

TrailSpec == TrailInit /\ [][TrailNext]_trailVars

-----------------------------------------------------------------------------
(* An audit row is never removed, reordered or changed, except that the    *)
(* step that creates the tombstone may rename the subject.  log itself     *)
(* updates the row it has inserted; the database must refuse that too.     *)
AuditRowsAreImmutable ==
    [][/\ Len(trail') >= Len(trail)
       /\ \A i \in 1..Len(trail) :
             \/ trail'[i] = trail[i]
             \/ /\ tombstone' /\ ~tombstone
                /\ trail'[i] = [trail[i] EXCEPT !.user = "pseudonym"]]_trailVars

(* After eraseUser no wallet, transfer or KYC record names the subject,    *)
(* also when wallets were added after it read the list; and no transfer is *)
(* lost with the wallet it refers to.                                      *)
ErasureIsComplete ==
    /\ tombstone => /\ ~subject /\ ~kycRow
                    /\ \A w \in OwnWallets : owner[w] # "subject" /\ transfers[w] # "subject"
    /\ \A w \in OwnWallets : transfers[w] # "none" => owner[w] = transfers[w]

(* log seals every entry with its hash: a row whose log call has returned  *)
(* carries the hash the next entry is to point at.                         *)
EntriesAreSealed ==
    \A i \in 1..Len(trail) :
        \/ trail[i].sealed \/ ~trail[i].chained
        \/ \E l \in Loggers : logger[l].at = "seal" /\ logger[l].row = i
=============================================================================
