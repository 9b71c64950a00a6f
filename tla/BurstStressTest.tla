--------------------------- MODULE BurstStressTest ---------------------------
(***************************************************************************)
(* The ten-transfer stress test of src/testnet/stress-test.js: one        *)
(* transfer per amount, sent strictly one after the other with a 10 s      *)
(* sleep in between, then a summary.  sendTransaction() queries the fee,  *)
(* signs with ethers' pending nonce and sends; any error is caught and     *)
(* turned into null, and only non-null results are listed.                 *)
(***************************************************************************)
EXTENDS Naturals, Sequences, SequencesExt

CONSTANTS
    NumSenders,     \* senders.length
    Amounts         \* the amounts list, one transfer per entry

\* for (let i = 0; i < 10; i++) over the ten amounts
NumTx == Len(Amounts)
Senders == 0..NumSenders - 1
TxIds == Senders \X (0..NumTx)

ASSUME NumSenders >= 1 /\ NumTx >= 1 /\ Amounts \in Seq(Nat)

VARIABLES
    accepted,      \* ledger: accepted[s], the pending nonce of sender s
    pc,            \* "fee", "send", "sleep" or "done"
    i,             \* loop variable of runStressTest
    transactions,  \* the list of sent transactions
    report         \* the numbers printed by the summary

vars == <<accepted, pc, i, transactions, report>>

Entry == [num: 1..NumTx, hash: TxIds, sender: Senders, amount: Nat]

Init ==
    /\ accepted = [s \in Senders |-> 0]
    /\ pc = "fee"
    /\ i = 0
    /\ transactions = <<>>
    /\ report = [sent |-> 0, totalPano |-> 0]

\* Summary lines "Transactions sent" and "Total PANO sent" (lines 115-122).
Summarize ==
    [sent |-> Len(transactions'),
     totalPano |-> FoldLeft(LAMBDA acc, a : acc + a, 0, Amounts)]

\* Mutant: the sleep condition i < 10 instead of i < 9 -- a further
\* iteration after the last amount.
AfterSendSleepAfterLast(res) ==
    /\ transactions' = IF res = {} THEN transactions
                       ELSE Append(transactions,
                              [num |-> i + 1, hash |-> CHOOSE h \in res : TRUE,
                               sender |-> i % NumSenders, amount |-> Amounts[i + 1]])
    /\ IF i < NumTx
         THEN pc' = "sleep" /\ UNCHANGED report
         ELSE pc' = "done" /\ report' = Summarize

\* Back in the loop with the result of sendTransaction (res = {} for null):
\* list it when not null, then sleep or, after the last one, summarize.
AfterSend(res) ==
    /\ transactions' = IF res = {} THEN transactions
                       ELSE Append(transactions,
                              [num |-> i + 1, hash |-> CHOOSE h \in res : TRUE,
                               sender |-> i % NumSenders, amount |-> Amounts[i + 1]])
    /\ IF i < NumTx - 1
         THEN pc' = "sleep" /\ UNCHANGED report
         ELSE pc' = "done" /\ report' = Summarize

\* await provider.getFeeData(); an error makes sendTransaction return null.
GetFeeData ==
    /\ pc = "fee"
    /\ \/ pc' = "send" /\ UNCHANGED <<transactions, report>>
       \/ AfterSend({})
    /\ UNCHANGED <<accepted, i>>

\* await wallet.sendTransaction(tx): rejected, taken and answered, or taken
\* with the answer lost (the call throws and the result is null).
SendTransaction ==
    LET s == i % NumSenders IN
    /\ pc = "send"
    /\ \/ /\ accepted' = [accepted EXCEPT ![s] = @ + 1]
          /\ AfterSend({<<s, accepted[s]>>})
       \/ /\ UNCHANGED accepted
          /\ AfterSend({})
       \/ /\ accepted' = [accepted EXCEPT ![s] = @ + 1]
          /\ AfterSend({})
    /\ UNCHANGED i

\* await sleep(10000), then the next iteration.
Sleep ==
    /\ pc = "sleep"
    /\ i' = i + 1
    /\ pc' = "fee"
    /\ UNCHANGED <<accepted, transactions, report>>

Next == GetFeeData \/ SendTransaction \/ Sleep

Spec == Init /\ [][Next]_vars

-----------------------------------------------------------------------------

TypeOK ==
    /\ accepted \in [Senders -> 0..NumTx]
    /\ pc \in {"fee", "send", "sleep", "done"}
    /\ i \in 0..NumTx - 1
    /\ transactions \in Seq(Entry)
    /\ report \in [sent: 0..NumTx, totalPano: Nat]

(***************************************************************************)
(* The summary's "Total PANO sent" is the sum of the amounts of the        *)
(* transfers that were sent (the listed ones).                             *)
(***************************************************************************)
ReportedTotalIsSent ==
    pc = "done" =>
        report.totalPano = FoldLeft(LAMBDA acc, e : acc + e.amount, 0, transactions)

=============================================================================
