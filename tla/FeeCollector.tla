----------------------------- MODULE FeeCollector -----------------------------
(***************************************************************************)
(* The fee collector (packages/contract/contracts/fee-collector): pools on   *)
(* its list hand over protocol fees while the switch is on, and its admin    *)
(* withdraws what it has recorded.  It pays out of the tokens it holds,      *)
(* which others may add to by plain transfers and which it never reads.      *)
(*                                                                         *)
(* An action is one completed call.  Calls of the admin are signed by the    *)
(* admin of the time, which decides nothing else.                            *)
(***************************************************************************)
EXTENDS Integers

CONSTANTS
    FeeTokens, FeePools,
    FeeAmounts,      \* amounts of a deposit or a plain transfer
    MaxFees          \* bound on what pools hand over, of a token

ASSUME FeesAssumption == FeeAmounts \subseteq Nat \ {0} /\ MaxFees \in Nat

VARIABLES
    feeOn,           \* FEE_ON
    allowed,         \* pools with AuthorizedPool
    recorded,        \* Balance(token)
    feeFunds,        \* what the token contracts hold for the collector
    handedOver,      \* history: what pools have parted with
    withdrawn        \* history: what withdrawals have paid, the collector itself included

feeMoney == <<recorded, feeFunds, handedOver, withdrawn>>
feeVars  == <<feeOn, allowed, feeMoney>>

(* initialize may be called again, and switches fees off. *)
InitializeCollector ==
    /\ feeOn' = FALSE
    /\ UNCHANGED <<allowed, feeMoney>>

SetFeeSwitch(on) ==
    /\ feeOn' = on
    /\ UNCHANGED <<allowed, feeMoney>>

SetAuthorizedPool(pool, yes) ==
    /\ allowed' = IF yes THEN allowed \cup {pool} ELSE allowed \ {pool}
    /\ UNCHANGED <<feeOn, feeMoney>>

(* While the switch is off a deposit returns before the transfer. *)
DepositProtocolFees(token, pool, amount) ==
    /\ pool \in allowed
    /\ handedOver[token] + amount <= MaxFees
    /\ IF feeOn
       THEN /\ feeFunds' = [feeFunds EXCEPT ![token] = @ + amount]
            /\ recorded' = [recorded EXCEPT ![token] = @ + amount]
            /\ handedOver' = [handedOver EXCEPT ![token] = @ + amount]
       ELSE UNCHANGED <<feeFunds, recorded, handedOver>>
    /\ UNCHANGED <<feeOn, allowed, withdrawn>>

(* A transfer needs the funds, and its receiver may be the collector. *)
CollectProtocolFees(token, toItself) ==
    /\ recorded[token] > 0
    /\ recorded[token] <= feeFunds[token]
    /\ feeFunds' = IF toItself THEN feeFunds ELSE [feeFunds EXCEPT ![token] = @ - recorded[token]]
    /\ recorded' = [recorded EXCEPT ![token] = 0]
    /\ withdrawn' = [withdrawn EXCEPT ![token] = @ + recorded[token]]
    /\ UNCHANGED <<feeOn, allowed, handedOver>>

(* Anyone may send tokens without telling the collector. *)
PlainTransfer(token, amount) ==
    /\ feeFunds[token] + amount <= MaxFees
    /\ feeFunds' = [feeFunds EXCEPT ![token] = @ + amount]
    /\ UNCHANGED <<feeOn, allowed, recorded, handedOver, withdrawn>>

----------------------------------------------------------------------------
FeesInit ==
    /\ feeOn = FALSE /\ allowed = {}
    /\ recorded = [t \in FeeTokens |-> 0] /\ feeFunds = [t \in FeeTokens |-> 0]
    /\ handedOver = [t \in FeeTokens |-> 0] /\ withdrawn = [t \in FeeTokens |-> 0]

FeesNext ==
    \/ InitializeCollector
    \/ \E on \in BOOLEAN : SetFeeSwitch(on)
    \/ \E pool \in FeePools, yes \in BOOLEAN : SetAuthorizedPool(pool, yes)
    \/ \E t \in FeeTokens, pool \in FeePools, n \in FeeAmounts : DepositProtocolFees(t, pool, n)
    \/ \E t \in FeeTokens, toItself \in BOOLEAN : CollectProtocolFees(t, toItself)
    \/ \E t \in FeeTokens, n \in FeeAmounts : PlainTransfer(t, n)

FeesSpec == FeesInit /\ [][FeesNext]_feeVars

----------------------------------------------------------------------------
(* Properties *)

(* What is recorded is there, so that a withdrawal never fails for want of funds, and what       *)
(* pools have parted with is recorded or was withdrawn, whatever the switch, the list and        *)
(* repeated calls of initialize did in between (fee-collector/src/lib.rs:80).                    *)
FeesInv ==
    \A t \in FeeTokens :
        /\ recorded[t] \in Nat /\ recorded[t] <= feeFunds[t]
        /\ handedOver[t] = recorded[t] + withdrawn[t]
=============================================================================
