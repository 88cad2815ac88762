------------------------------ MODULE MCAnchor ------------------------------
(***************************************************************************)
(* The quote, anchor, trustline and liquidity services share no state: one *)
(* run checks them side by side, the initial state choosing which one is   *)
(* in focus and steps.                                                     *)
(***************************************************************************)
EXTENDS Trustlines, FxRates, SendForm, Sep24, AnchorModals, Liquidity, TLC

CONSTANTS c1, c2, s1, s2, d1, d2, r1, r2, p1, p2, p3, m1, m2, m3, h1, h2, xy, yx, q1, q2

VARIABLE focus

vars == <<trustVars, fxVars, formVars, sep24Vars, modalVars, liquidityVars, focus>>

(* A path over two pairs beside a path over the first of them.             *)
MCPath == [s \in {s1, s2} |-> IF s = s1 THEN <<"XLM-USD", "USD-NGN">> ELSE <<"XLM-USD">>]
MCRates == [p \in {"XLM-USD", "USD-NGN"} |-> IF p = "XLM-USD" THEN {0, 1, 2} ELSE {0}]

(* Two corridors, each the reverse of the other.                           *)
MCOpposite == [c \in {xy, yx} |-> {xy, yx} \ {c}]

(* A third row is checked, and what happens after it is not followed.      *)
RowsToSpare == Len(row) < MaxRows

(* The processes are alike, and so are the corridors.                      *)
LiquiditySymmetry == Permutations(Runs) \cup Permutations(Corridors)

(* An anchor that advertises no bounds, and one that takes 1 only.         *)
MCBounds == {Quantities, {1}}

AnchorInit ==
    /\ TrustInit /\ FxInit /\ FormInit /\ Sep24Init /\ ModalInit /\ LiquidityInit
    /\ focus \in {"trust", "fx", "form", "sep24", "modal", "liquidity"}

AnchorNext ==
    /\ UNCHANGED focus
    /\ \/ /\ focus = "trust" /\ TrustNext
          /\ UNCHANGED <<fxVars, formVars, sep24Vars, modalVars, liquidityVars>>
       \/ /\ focus = "fx" /\ FxNext
          /\ UNCHANGED <<trustVars, formVars, sep24Vars, modalVars, liquidityVars>>
       \/ /\ focus = "form" /\ FormNext
          /\ UNCHANGED <<trustVars, fxVars, sep24Vars, modalVars, liquidityVars>>
       \/ /\ focus = "sep24" /\ Sep24Next
          /\ UNCHANGED <<trustVars, fxVars, formVars, modalVars, liquidityVars>>
       \/ /\ focus = "modal" /\ ModalNext
          /\ UNCHANGED <<trustVars, fxVars, formVars, sep24Vars, liquidityVars>>
       \/ /\ focus = "liquidity" /\ LiquidityNext
          /\ UNCHANGED <<trustVars, fxVars, formVars, sep24Vars, modalVars>>

AnchorSpec == AnchorInit /\ [][AnchorNext]_vars

(* Every variable of the six services has its type.                        *)
AnchorTypeOK ==
    /\ TrustTypeOK /\ FxTypeOK /\ FormTypeOK /\ Sep24TypeOK
    /\ ModalTypeOK /\ LiquidityTypeOK
=============================================================================
