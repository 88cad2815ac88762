---------------------------- MODULE KycDocuments ----------------------------
(***************************************************************************)
(* The KYC record of one user and the document it refers to.  The client   *)
(* uploads straight to S3 with a presigned URL and then asks the API to    *)
(* confirm; the API looks at the object twice (HEAD for its size, GET for  *)
(* its hash) while the URL may still accept another upload.  Two more      *)
(* endpoints write the same record: POST /kyc/submit and PUT               *)
(* /sep12/customer.  A hash is modelled as the document itself.            *)
(***************************************************************************)
EXTENDS Naturals, FiniteSets

CONSTANTS Documents,      \* what an upload can contain
          Oversized,      \* the documents larger than MAX_UPLOAD_BYTES
          Confirms,       \* confirm-upload requests in flight at once
          NoDocument

ASSUME KycAssumption ==
    /\ Oversized \subseteq Documents
    /\ NoDocument \notin Documents

VARIABLES object,      \* the S3 object under the key, NoDocument before the upload
          url,         \* the presigned URL: "none", "open" or "expired"
          kyc,         \* the KycRecord
          confirm,     \* confirm[c]: where a confirm-upload request is
          heldLegal,   \* documents HEAD has measured and found small enough
          overwritten  \* whether an upload came between a HEAD and its GET

kycVars == <<object, url, kyc, confirm, heldLegal, overwritten>>

KycStatus == {"NONE", "PENDING", "APPROVED", "REJECTED"}
KycTier == {"NONE", "BASIC", "FULL"}

(* source: which endpoint wrote documentRef last.                          *)
KycRecord == [status : KycStatus, tier : KycTier,
              ref : Documents \cup {NoDocument},
              source : {"none", "confirmed", "submitted", "sep12"}]

KycTypeOK ==
    /\ object \in Documents \cup {NoDocument}
    /\ url \in {"none", "open", "expired"}
    /\ kyc \in KycRecord
    /\ confirm \in [Confirms -> [at : {"idle", "get", "store"},
                                 doc : Documents \cup {NoDocument}]]
    /\ heldLegal \subseteq Documents
    /\ overwritten \in BOOLEAN

IdleConfirm == [at |-> "idle", doc |-> NoDocument]

KycInit ==
    /\ object = NoDocument /\ url = "none"
    /\ kyc = [status |-> "NONE", tier |-> "NONE", ref |-> NoDocument, source |-> "none"]
    /\ confirm = [c \in Confirms |-> IdleConfirm]
    /\ heldLegal = {} /\ overwritten = FALSE

(* generateUploadUrl: the URL works for fifteen minutes, any number of     *)
(* times; the size limit is not part of it.                                *)
GenerateUploadUrl ==
    /\ url = "none"
    /\ url' = "open"
    /\ UNCHANGED <<object, kyc, confirm, heldLegal, overwritten>>

UrlExpires ==
    /\ url = "open"
    /\ url' = "expired"
    /\ UNCHANGED <<object, kyc, confirm, heldLegal, overwritten>>

PutObject(d) ==
    /\ url = "open" /\ d # object
    /\ object' = d
    /\ overwritten' = (overwritten \/ \E c \in Confirms : confirm[c].at = "get")
    /\ UNCHANGED <<url, kyc, confirm, heldLegal>>

(* confirmUpload: HEAD finds the object and its size is legal.  d is the   *)
(* digest the client sent.                                                 *)
HeadObject(c, d) ==
    /\ confirm[c].at = "idle"
    /\ object # NoDocument /\ object \notin Oversized
    /\ heldLegal' = heldLegal \cup {object}
    /\ confirm' = [confirm EXCEPT ![c] = [at |-> "get", doc |-> d]]
    /\ UNCHANGED <<object, url, kyc, overwritten>>

(* A confirmation that believes the digest it was sent.                    *)
HashUnchecked(c) ==
    /\ confirm[c].at = "get"
    /\ confirm' = [confirm EXCEPT ![c].at = "store"]
    /\ UNCHANGED <<object, url, kyc, heldLegal, overwritten>>

(* GET and hash: a mismatch, or a failed download, ends the request.       *)
HashObject(c) ==
    /\ confirm[c].at = "get"
    /\ \/ object = confirm[c].doc /\ confirm' = [confirm EXCEPT ![c].at = "store"]
       \/ confirm' = [confirm EXCEPT ![c] = IdleConfirm]
    /\ UNCHANGED <<object, url, kyc, heldLegal, overwritten>>

StoreDocumentRef(c) ==
    /\ confirm[c].at = "store"
    /\ kyc' = [kyc EXCEPT !.ref = confirm[c].doc, !.status = "PENDING", !.source = "confirmed"]
    /\ confirm' = [confirm EXCEPT ![c] = IdleConfirm]
    /\ UNCHANGED <<object, url, heldLegal, overwritten>>

(* submitKyc stores whatever documentUrl the body carries, or null.        *)
SubmitKyc(d) ==
    /\ kyc' = [kyc EXCEPT !.ref = d, !.status = "PENDING", !.source = "submitted"]
    /\ UNCHANGED <<object, url, confirm, heldLegal, overwritten>>

(* putCustomer: with a file the reference is replaced, without it stays.   *)
PutCustomer(d) ==
    /\ kyc' = IF d = NoDocument
                THEN [kyc EXCEPT !.status = "PENDING"]
                ELSE [kyc EXCEPT !.ref = d, !.status = "PENDING", !.source = "sep12"]
    /\ UNCHANGED <<object, url, confirm, heldLegal, overwritten>>

(* updateKycRecord writes what the reviewer decided over whatever is there. *)
UpdateKycRecord(s, t) ==
    /\ kyc' = [kyc EXCEPT !.status = s, !.tier = t]
    /\ UNCHANGED <<object, url, confirm, heldLegal, overwritten>>

KycNext ==
    \/ GenerateUploadUrl \/ UrlExpires
    \/ \E d \in Documents : PutObject(d)
    \/ \E c \in Confirms : \/ \E d \in Documents : HeadObject(c, d)
                           \/ HashObject(c) \/ StoreDocumentRef(c)
    \/ \E d \in Documents \cup {NoDocument} : SubmitKyc(d) \/ PutCustomer(d)
    \/ \E s \in KycStatus \ {"NONE"}, t \in KycTier : UpdateKycRecord(s, t)

KycSpec == KycInit /\ [][KycNext]_kycVars

-----------------------------------------------------------------------------
(* What confirm-upload stores is a document it has measured, unless an     *)
(* upload through the still-open URL slipped between its HEAD and its GET: *)
(* the hash that is compared, and stored, is the one of the second read.   *)
ConfirmedDocumentWasMeasured ==
    kyc.source = "confirmed" /\ ~overwritten => kyc.ref \in heldLegal
=============================================================================
