--------------------------- MODULE PaymentRegistry ---------------------------
(***************************************************************************)
(* The payment registry contract (contracts/contracts/payment_registry/    *)
(* src/lib.rs) after its upgrade to version 2: records under the old keys, *)
(* records under the new ones, and the migration that copies the ids the   *)
(* admin lists.  Only the new keys are read.  A record is its amount and   *)
(* recipient; the admin's signature is assumed.                            *)
(***************************************************************************)
EXTENDS Naturals

CONSTANTS PaymentIds, PaymentRecords, NoRecord

ASSUME RegistryAssumption == NoRecord \notin PaymentRecords

VARIABLES v1, v2,       \* the records under Payment(id) and PaymentV2(id)
          version,      \* StorageVersion, 1 when it is absent
          registered,   \* history: what register_payment accepted
          beforehand,   \* history: ids registered before the migration
          leftOut       \* history: ids with a record the migration did not list

registryVars == <<v1, v2, version, registered, beforehand, leftOut>>

Records == [PaymentIds -> PaymentRecords \cup {NoRecord}]
Empty == [id \in PaymentIds |-> NoRecord]

RegistryTypeOK ==
    /\ v1 \in Records /\ v2 \in Records /\ version \in {1, 2}
    /\ registered \in Records /\ beforehand \subseteq PaymentIds /\ leftOut \subseteq PaymentIds

(* A fresh contract, or an upgraded one that has not been migrated.        *)
RegistryInit ==
    /\ \/ version = 2 /\ v1 = Empty
       \/ version = 1 /\ v1 \in Records
    /\ v2 = Empty /\ registered = Empty /\ beforehand = {} /\ leftOut = {}

(* With the current version migrate returns at once.                       *)
Migrate(ids) ==
    /\ version = 1
    /\ v2' = [id \in PaymentIds |-> IF id \in ids /\ v1[id] # NoRecord THEN v1[id] ELSE v2[id]]
    /\ version' = 2
    /\ leftOut' = {id \in PaymentIds \ ids : v1[id] # NoRecord}
    /\ UNCHANGED <<v1, registered, beforehand>>

AnyId(id) == TRUE
IsFree(id) == v2[id] = NoRecord

RegisterPayment(id, record) ==
    /\ IsFree(id)
    /\ v2' = [v2 EXCEPT ![id] = record]
    /\ registered' = [registered EXCEPT ![id] = record]
    /\ beforehand' = IF version = 1 THEN beforehand \cup {id} ELSE beforehand
    /\ UNCHANGED <<v1, version, leftOut>>

RegistryNext ==
    \/ \E ids \in SUBSET PaymentIds : Migrate(ids)
    \/ \E id \in PaymentIds, record \in PaymentRecords : RegisterPayment(id, record)

RegistrySpec == RegistryInit /\ [][RegistryNext]_registryVars

-----------------------------------------------------------------------------
(* No payment is lost or taken for another across the upgrade: once        *)
(* migrated, an id with an old record reads as that record and was not     *)
(* registered again, and what was registered is still there.  The          *)
(* exceptions are what the code admits: an id the migration did not list   *)
(* is gone, and one registered before the migration is overwritten by it.  *)
PaymentsSurviveUpgrade ==
    version = 2 =>
        \A id \in PaymentIds :
            /\ v1[id] # NoRecord /\ id \notin leftOut => v2[id] = v1[id]
            /\ v1[id] # NoRecord /\ registered[id] # NoRecord => id \in beforehand \cup leftOut
            /\ registered[id] # NoRecord =>
                  v2[id] = registered[id] \/ (id \in beforehand /\ v1[id] # NoRecord)
=============================================================================
