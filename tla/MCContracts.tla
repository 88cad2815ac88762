----------------------------- MODULE MCContracts -----------------------------
(***************************************************************************)
(* Staking, the governor, the carbon oracle and the payment registry share *)
(* no state: one run checks them side by side, the initial state choosing  *)
(* which one is in focus and steps.                                        *)
(***************************************************************************)
EXTENDS MCStaking, Governor, CarbonOracle, PaymentRegistry

CONSTANTS m1, m2, k1, k2, i1, i2, r1, r2

VARIABLE focus

contractVars == <<vars, govVars, carbonVars, registryVars, focus>>

ContractsInit ==
    /\ Init /\ GovInit /\ CarbonInit /\ RegistryInit
    /\ focus \in {"staking", "governor", "carbon", "registry"}
    /\ focus = "carbon" \/ carbonPrice = 1
    /\ focus = "registry" \/ version = 2

ContractsNext ==
    /\ UNCHANGED focus
    /\ \/ focus = "staking" /\ Next /\ UNCHANGED <<govVars, carbonVars, registryVars>>
       \/ focus = "governor" /\ GovNext /\ UNCHANGED <<vars, carbonVars, registryVars>>
       \/ focus = "carbon" /\ CarbonNext /\ UNCHANGED <<vars, govVars, registryVars>>
       \/ focus = "registry" /\ RegistryNext /\ UNCHANGED <<vars, govVars, carbonVars>>

ContractsSpec == ContractsInit /\ [][ContractsNext]_contractVars

(* Every variable of the four contracts has its type.                      *)
ContractsTypeOK == TypeOK /\ GovTypeOK /\ CarbonTypeOK /\ RegistryTypeOK
=============================================================================
