------------------------------ MODULE FeeCheck ------------------------------
(***************************************************************************)
(* The fee-structure check of src/testnet/test-fee-structure.js: read the  *)
(* balances of User 4 and User 5, send Amount from User 4 to User 5 at the *)
(* node's gas price, wait for the receipt, read the balances again and     *)
(* compare each change with the expected one (-(amount + gasUsed *         *)
(* gasPrice) and +amount).  Every await may throw; the catch block ends    *)
(* the script.                                                             *)
(*                                                                         *)
(* The ledger charges a transfer amount + GasUsed * gasPrice.  Other       *)
(* transfers touching the same accounts may be mined at any time: the      *)
(* stress tests of this repository send from User 4 and User 5, and        *)
(* send-transaction.js / send-transaction2.js send between them.           *)
(***************************************************************************)
EXTENDS Integers, FiniteSets

CONSTANTS
    Amount,           \* ethers.parseEther('100')
    GasUsed,          \* gas of a plain transfer (= the 21000 gas limit)
    GasPrices,        \* prices the node may report
    InitBalance,      \* starting balance of both accounts
    ExternalSenders,  \* accounts others send from while the check runs
    ExternalAmount,   \* amount of such a transfer
    MaxExternal       \* bound on the account touches of such transfers

Users == {"user4", "user5"}

\* Payees of other clients' transfers: the two users, or anyone else (the
\* validators the stress tests pay).
Payees == Users \cup {"other"}

VARIABLES
    balance,     \* ledger: balance[u] at the latest block
    nodePrice,   \* ledger: current gas price
    pending,     \* ledger: the check's transfer is accepted but not mined
    mined,       \* ledger: the check's transfer is in a block
    external,    \* ledger: external[u], other transfers to or from u mined
    pc,          \* the await the script is at, "done" or "failed"
    before,      \* balanceUser4Before, balanceUser5Before
    after,       \* balanceUser4After, balanceUser5After
    gasPrice,    \* feeData.gasPrice
    actualGasCost,
    match,       \* the two "Match" verdicts printed
    \* observation only
    extBefore,   \* external[u] when the script read u's balance before
    extAfter     \* external[u] when the script read u's balance after

vars == <<balance, nodePrice, pending, mined, external, pc, before, after,
          gasPrice, actualGasCost, match, extBefore, extAfter>>

Init ==
    /\ balance = [u \in Users |-> InitBalance]
    /\ nodePrice \in GasPrices
    /\ pending = FALSE
    /\ mined = FALSE
    /\ external = [u \in Users |-> 0]
    /\ pc = "before4"
    /\ before = [u \in Users |-> 0]
    /\ after = [u \in Users |-> 0]
    /\ gasPrice = 0
    /\ actualGasCost = 0
    /\ match = [u \in Users |-> FALSE]
    /\ extBefore = [u \in Users |-> 0]
    /\ extAfter = [u \in Users |-> 0]

ledgerVars == <<balance, nodePrice, pending, mined, external>>
scriptVars == <<pc, before, after, gasPrice, actualGasCost, match, extBefore, extAfter>>

-----------------------------------------------------------------------------
(* Ledger.                                                                 *)

\* The check's transfer is included: User 4 pays amount and gas at the
\* transaction's own price, User 5 receives the amount.
MineCheck ==
    /\ pending
    /\ balance' = [balance EXCEPT !["user4"] = @ - (Amount + GasUsed * gasPrice),
                                  !["user5"] = @ + Amount]
    /\ pending' = FALSE
    /\ mined' = TRUE
    /\ UNCHANGED <<nodePrice, external, scriptVars>>

\* Another client's transfer touching a shared account is included: the
\* payer is charged amount and gas, a payee among the users is credited.
MineExternal ==
    /\ \E u \in ExternalSenders, p \in GasPrices : \E v \in Payees \ {u} :
         LET touched == {u, v} \cap Users IN
         /\ external["user4"] + external["user5"] + Cardinality(touched) <= MaxExternal
         /\ balance' = [w \in Users |->
                           balance[w] - (IF w = u THEN ExternalAmount + GasUsed * p ELSE 0)
                                      + (IF w = v THEN ExternalAmount ELSE 0)]
         /\ external' = [w \in Users |-> external[w] + (IF w \in touched THEN 1 ELSE 0)]
    /\ UNCHANGED <<nodePrice, pending, mined, scriptVars>>

\* The fee market moves.
PriceMoves ==
    /\ \E p \in GasPrices : nodePrice' = p /\ p # nodePrice
    /\ UNCHANGED <<balance, pending, mined, external, scriptVars>>

-----------------------------------------------------------------------------
(* Script.                                                                 *)

\* Any await throws: the catch block prints the error and the script ends.
RpcError ==
    /\ pc \in {"before4", "before5", "fee", "send", "wait", "after4", "after5"}
    /\ pc' = "failed"
    /\ UNCHANGED <<ledgerVars, before, after, gasPrice, actualGasCost, match,
                   extBefore, extAfter>>

\* await provider.getBalance(...) of the BEFORE block (lines 21-22).
ReadBefore ==
    \E u \in Users :
      /\ pc = IF u = "user4" THEN "before4" ELSE "before5"
      /\ before' = [before EXCEPT ![u] = balance[u]]
      /\ extBefore' = [extBefore EXCEPT ![u] = external[u]]
      /\ pc' = IF u = "user4" THEN "before5" ELSE "fee"
      /\ UNCHANGED <<ledgerVars, after, gasPrice, actualGasCost, match, extAfter>>

\* await provider.getFeeData() (lines 33-34).
GetFeeData ==
    /\ pc = "fee"
    /\ gasPrice' = nodePrice
    /\ pc' = "send"
    /\ UNCHANGED <<ledgerVars, before, after, actualGasCost, match, extBefore, extAfter>>

\* Mutant: the send is retried instead of waited on.
SendTransactionResend ==
    /\ pc = "send"
    /\ pending' = TRUE
    /\ pc' = "send"
    /\ UNCHANGED <<balance, nodePrice, mined, external, before, after,
                   gasPrice, actualGasCost, match, extBefore, extAfter>>

\* await user4Wallet.sendTransaction(tx) (line 59): the node takes it, and
\* the call returns or, with the answer lost, throws into the catch block.
\* A rejection is an RpcError.
SendTransaction ==
    /\ pc = "send"
    /\ pending' = TRUE
    /\ pc' \in {"wait", "failed"}
    /\ UNCHANGED <<balance, nodePrice, mined, external, before, after,
                   gasPrice, actualGasCost, match, extBefore, extAfter>>

\* await txResponse.wait() returns once the transfer is in a block; the
\* receipt's gasUsed and effective gas price give the actual cost (line 70).
Wait ==
    /\ pc = "wait"
    /\ mined
    /\ actualGasCost' = GasUsed * gasPrice
    /\ pc' = "after4"
    /\ UNCHANGED <<ledgerVars, before, after, gasPrice, match, extBefore, extAfter>>

\* Mutant: the expected change of User 4 without the gas cost.
ExpectedChangeNoGas(u) ==
    IF u = "user4" THEN -Amount ELSE Amount

\* expectedUser4Change = -(amount + actualGasCost), expectedUser5Change = amount
ExpectedChange(u) ==
    IF u = "user4" THEN -(Amount + actualGasCost) ELSE Amount

\* await provider.getBalance(...) of the AFTER block (lines 75-76); after
\* the second one the changes are compared with the expected ones (95-105).
ReadAfter ==
    \E u \in Users :
      /\ pc = IF u = "user4" THEN "after4" ELSE "after5"
      /\ after' = [after EXCEPT ![u] = balance[u]]
      /\ extAfter' = [extAfter EXCEPT ![u] = external[u]]
      /\ IF u = "user4"
           THEN pc' = "after5" /\ UNCHANGED match
           ELSE /\ pc' = "done"
                /\ match' = [v \in Users |-> ExpectedChange(v) = after'[v] - before[v]]
      /\ UNCHANGED <<ledgerVars, before, gasPrice, actualGasCost, extBefore>>

Next ==
    \/ ReadBefore \/ GetFeeData \/ SendTransaction \/ Wait \/ ReadAfter
    \/ RpcError
    \/ MineCheck \/ MineExternal \/ PriceMoves

Spec == Init /\ [][Next]_vars

-----------------------------------------------------------------------------

TypeOK ==
    /\ balance \in [Users -> Int]
    /\ nodePrice \in GasPrices
    /\ pending \in BOOLEAN /\ mined \in BOOLEAN
    /\ ~(pending /\ mined)
    /\ external \in [Users -> 0..MaxExternal]
    /\ pc \in {"before4", "before5", "fee", "send", "wait", "after4", "after5",
               "done", "failed"}
    /\ gasPrice \in GasPrices \cup {0}
    /\ match \in [Users -> BOOLEAN]

(***************************************************************************)
(* The verdict on each account is exact about interference: the script     *)
(* reports a match for u exactly when no other transfer to or from u was   *)
(* mined between its two reads of u's balance -- so, the ledger charging   *)
(* the fee rule, a mismatch means only that the account was used           *)
(* concurrently.  (Amounts could cancel out in principle; with credits of  *)
(* ExternalAmount and debits of ExternalAmount plus gas, up to MaxExternal *)
(* of them, they do not.)                                                  *)
(***************************************************************************)
VerdictExact ==
    pc = "done" =>
        \A u \in Users : match[u] <=> extAfter[u] = extBefore[u]

(***************************************************************************)
(* The check reports a mismatch only when the ledger did not charge the    *)
(* fee rule: the ledger here always charges amount + gasUsed * gasPrice,   *)
(* so both verdicts of a finished run must be matches.                     *)
(***************************************************************************)
VerdictSound ==
    pc = "done" => match = [u \in Users |-> TRUE]

=============================================================================
