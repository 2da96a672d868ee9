----------------------------- MODULE EvmEvidence -----------------------------
(***************************************************************************)
(* How the eip155 provider turns what two RPC endpoints say into one       *)
(* answer: merge_receipts, merge_transactions, merge_head_values and       *)
(* classify_reconciliation of provider.rs.  Pure operators, applied by     *)
(* EvmEngine to what its endpoints show.                                   *)
(***************************************************************************)
EXTENDS Integers

\* ReceiptObservation and TransactionObservation.  The facts of a mined
\* transaction are compared as a whole.
UnknownReceipt == [kind |-> "unknown"]
PendingReceipt == [kind |-> "pending"]
MinedReceipt(facts) == [kind |-> "mined", facts |-> facts]

MissingTx == [kind |-> "missing"]
PendingTx(nonce) == [kind |-> "pending", nonce |-> nonce]
MinedTx(nonce, number, hash) ==
  [kind |-> "mined", nonce |-> nonce, number |-> number, hash |-> hash]

\* EvmRpcError: which one it is makes no difference to the engine.
RpcError == [kind |-> "error"]

IsError(x) == x.kind = "error"

-----------------------------------------------------------------------------

MergeReceipts(primary, backup) ==
  CASE IsError(primary) \/ IsError(backup) -> RpcError
    [] primary.kind = "unknown" /\ backup.kind = "unknown" -> UnknownReceipt
    [] primary.kind = "mined" /\ backup.kind = "mined" ->
         IF primary.facts = backup.facts THEN primary ELSE RpcError
    [] OTHER -> PendingReceipt

MergeTransactions(primary, backup) ==
  IF IsError(primary) \/ IsError(backup) THEN RpcError
  ELSE IF primary.kind = "missing" THEN backup
  ELSE IF backup.kind = "missing" THEN primary
  ELSE IF primary.nonce # backup.nonce THEN RpcError
  ELSE IF primary.kind = "mined" /\ backup.kind = "mined"
       THEN IF primary = backup THEN primary ELSE RpcError
  ELSE PendingTx(primary.nonce)

Smaller(a, b) == IF a < b THEN a ELSE b

\* merge_head_snapshot and merge_head_values: both endpoints, the configured
\* chain, one pending nonce, the lower block and the lower balance.
MergeHeads(chainId, primary, backup) ==
  IF \/ IsError(primary) \/ IsError(backup)
     \/ primary.chainId # chainId \/ backup.chainId # chainId
     \/ primary.nonce # backup.nonce
  THEN RpcError
  ELSE [kind |-> "head", nonce |-> primary.nonce,
        balance |-> Smaller(primary.balance, backup.balance),
        block |-> Smaller(primary.block, backup.block)]

\* Plausible bug: the mining block is not counted, so one block too many is
\* subtracted from the requirement.
ClassifyConfirmations_OffByOne(facts, head, required) ==
  IF required = 0 \/ head < facts.number THEN RpcError
  ELSE IF head - facts.number + 2 >= required
       THEN [kind |-> "terminal", facts |-> facts, confirmations |-> head - facts.number + 2]
       ELSE PendingReceipt

\* Confirmations include the mining block; a head behind it is an error.
ClassifyConfirmations(facts, head, required) ==
  IF required = 0 \/ head < facts.number THEN RpcError
  ELSE IF head - facts.number + 1 >= required
       THEN [kind |-> "terminal", facts |-> facts, confirmations |-> head - facts.number + 1]
       ELSE PendingReceipt

\* Plausible bug: the receipt is not compared with the one read before.
ClassifyReconciliation_NoRecheck(first, transaction, again, head, required) ==
  CASE first.kind = "unknown" -> IF transaction.kind = "missing" THEN UnknownReceipt ELSE PendingReceipt
    [] first.kind = "mined" -> ClassifyConfirmations(first.facts, head, required)
    [] OTHER -> PendingReceipt

\* The first receipt, the transaction, the receipt read again after the head.
ClassifyReconciliation(first, transaction, again, head, required) ==
  CASE first.kind = "unknown" -> IF transaction.kind = "missing" THEN UnknownReceipt ELSE PendingReceipt
    [] first.kind = "mined" /\ again = first -> ClassifyConfirmations(again.facts, head, required)
    [] OTHER -> PendingReceipt

=============================================================================
