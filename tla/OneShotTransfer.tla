--------------------------- MODULE OneShotTransfer ---------------------------
(***************************************************************************)
(* The one-shot transfer scripts src/testnet/send-transaction.js (User 4  *)
(* to User 5, then waits for the receipt) and send-transaction2.js (User  *)
(* 5 to User 4, ends once the node has taken the transfer).  Both are one  *)
(* try block: getFeeData(), wallet.sendTransaction(tx), and for the first  *)
(* one txResponse.wait(); any throw ends in the catch block.               *)
(*                                                                         *)
(* Inside wallet.sendTransaction ethers reads the "pending" nonce of the   *)
(* sender, then signs and broadcasts: two RPC round trips between which    *)
(* other clients holding the same key (every script of this repository    *)
(* signs as User 4 or User 5) may take that nonce.  The node rejects a    *)
(* transfer whose nonce is no longer its next one.                         *)
(***************************************************************************)
EXTENDS Naturals, TLC

CONSTANTS
    Scripts,          \* the scripts run: "send-transaction.js", "send-transaction2.js"
    ReceiptStatuses,  \* receipt.status values the node may produce
    MaxOther,         \* bound on transfers other clients send with the same key
    None              \* model value: no nonce signed yet

ASSUME Scripts \subseteq {"send-transaction.js", "send-transaction2.js"} /\ ReceiptStatuses \subseteq {0, 1} /\ MaxOther \in Nat

Terminal == {"done", "error"}

VARIABLES
    \* ledger node, for the sender's account
    accepted,  \* pending nonce: transfers the node took
    mined,     \* latest nonce: transfers included in blocks
    receipt,   \* receipt[n]: status of the mined transfer with nonce n
    others,    \* transfers other clients of the same key have sent
    \* script
    script,    \* which of the two scripts runs
    pc,        \* "fee", "populate", "broadcast", "wait", "done" or "error"
    signed     \* the nonce ethers put into the script's transfer, or None

vars == <<accepted, mined, receipt, others, script, pc, signed>>

\* Only send-transaction.js awaits txResponse.wait().
WaitForReceipt == script = "send-transaction.js"

-----------------------------------------------------------------------------
(* Ledger node and the other clients of the same key.                      *)

\* Another script signing with the same key sends a transfer.
OtherClientSends ==
    /\ others < MaxOther
    /\ others' = others + 1
    /\ accepted' = accepted + 1
    /\ UNCHANGED <<mined, receipt, script, pc, signed>>

\* The node includes the oldest pending transfer in a block.
Mine ==
    /\ mined < accepted
    /\ \E st \in ReceiptStatuses : receipt' = receipt @@ (mined :> st)
    /\ mined' = mined + 1
    /\ UNCHANGED <<accepted, others, script, pc, signed>>

-----------------------------------------------------------------------------
(* The script.                                                             *)

Init ==
    /\ accepted = 0
    /\ mined = 0
    /\ receipt = <<>>
    /\ others = 0
    /\ script \in Scripts
    /\ pc = "fee"
    /\ signed = None

\* The catch block: print error.message; the script ends.
Fail == pc' = "error"

\* await provider.getFeeData(): the gas price, or 1 gwei when it is null.
GetFeeData ==
    /\ pc = "fee"
    /\ pc' \in {"populate", "error"}
    /\ UNCHANGED <<accepted, mined, receipt, others, script, signed>>

\* await wallet.sendTransaction(tx), first round trip: ethers reads the
\* "pending" transaction count of the sender as the nonce.
Populate ==
    /\ pc = "populate"
    /\ \/ signed' = accepted /\ pc' = "broadcast"
       \/ Fail /\ UNCHANGED signed
    /\ UNCHANGED <<accepted, mined, receipt, others, script>>

\* await wallet.sendTransaction(tx), second round trip: the signed transfer
\* is broadcast.  The node takes it only while its nonce is still the next
\* one; the answer may still be lost.  send-transaction2.js ends here.
Broadcast ==
    /\ pc = "broadcast"
    /\ \/ /\ signed = accepted
          /\ accepted' = accepted + 1
          /\ \/ pc' = IF WaitForReceipt THEN "wait" ELSE "done"
             \/ Fail
       \/ Fail /\ UNCHANGED accepted
    /\ UNCHANGED <<mined, receipt, others, script, signed>>

\* Mutant: txResponse.wait(2), which also waits for the next block.
WaitTwoConfirmations ==
    /\ pc = "wait"
    /\ mined > signed + 1
    /\ pc' = IF receipt[signed] = 1 THEN "done" ELSE "error"
    /\ UNCHANGED <<accepted, mined, receipt, others, script, signed>>

\* await txResponse.wait(): resolves once the transfer is in a block; a
\* receipt with status 0 makes ethers throw CALL_EXCEPTION.
Wait ==
    /\ pc = "wait"
    /\ mined > signed
    /\ pc' = IF receipt[signed] = 1 THEN "done" ELSE "error"
    /\ UNCHANGED <<accepted, mined, receipt, others, script, signed>>

ClientStep == GetFeeData \/ Populate \/ Broadcast \/ Wait

\* await txResponse.wait() throws on an RPC error: ethers first asks for
\* the receipt and checks for a replacement, and a failing request lands in
\* the catch block, with the transfer taken.  Nothing obliges this to
\* happen, so it is outside the fairness condition.
WaitFails ==
    /\ pc = "wait"
    /\ Fail
    /\ UNCHANGED <<accepted, mined, receipt, others, script, signed>>

Next == ClientStep \/ WaitFails \/ OtherClientSends \/ Mine

\* Every RPC call of the script answers or fails (ethers times requests
\* out), and the node keeps producing blocks.
Spec == Init /\ [][Next]_vars /\ WF_vars(ClientStep) /\ WF_vars(Mine)


-----------------------------------------------------------------------------
(* Properties.                                                             *)

(***************************************************************************)
(* The script ends, with its transfer in a block or in the catch block.   *)
(* txResponse.wait() has no timeout, so for send-transaction.js this     *)
(* rests on the node including transfers, in whatever order with those   *)
(* of the other clients of the key.                                       *)
(***************************************************************************)
Termination == <>(pc \in Terminal)

=============================================================================
