---------------------------- MODULE ReceiptGraph -----------------------------
(***************************************************************************)
(* What the NEAR provider concludes from the final outcome of a submitted  *)
(* transaction: the two lookups of reconcile_status, the identity check,   *)
(* and the walk of interpret_final_outcome over the receipts, followed by  *)
(* its topological sort.  One behaviour is one reconciliation; the truth   *)
(* is the execution on chain, of which an endpoint may show less.          *)
(*                                                                         *)
(* NearEngine takes the verdict as a fact of the chain; this module is the *)
(* reason it may.                                                          *)
(***************************************************************************)
EXTENDS Integers, FiniteSets, Sequences, SequencesExt

CONSTANTS
  Ids,        \* receipt ids
  Payer,      \* the account the delegate receipt executes on
  Asset,      \* the token contract
  Truths,     \* executions that may have happened on chain
  Shown,      \* kinds of lookups an endpoint may answer of each of them
  Others      \* executions of other transactions

Statuses == {"value", "receipt", "failure", "unknown"}

\* The kinds of answers an RPC endpoint gives to a transaction lookup.
LookupKinds == {"final", "dropped", "blank", "foreign", "pending", "unknown", "error"}

\* An outcome an endpoint answers with: the transaction's own, then the
\* receipts'.
IsExecution(o) ==
  /\ DOMAIN o = {"final", "bound", "tx", "receipts"}
  /\ o.final \in {"not_started", "started", "failure", "value"}
  /\ o.bound \in BOOLEAN
  /\ o.tx.status \in Statuses /\ o.tx.children \in Seq(Ids)
  /\ o.receipts \in Seq({o.receipts[i] : i \in DOMAIN o.receipts})
  /\ \A i \in DOMAIN o.receipts :
       /\ DOMAIN o.receipts[i] = {"id", "executor", "status", "children"}
       /\ o.receipts[i].id \in Ids /\ o.receipts[i].status \in Statuses
       /\ o.receipts[i].children \in Seq(Ids)

Unique(o) == \A i, j \in DOMAIN o.receipts : o.receipts[i].id = o.receipts[j].id => i = j

\* A chain has one outcome of a receipt.  An answer with two is a fault of the
\* endpoint, and is then not a partial one as well.
ASSUME ReceiptAssumption ==
  /\ IsFiniteSet(Ids)
  /\ Shown \in [Truths -> SUBSET LookupKinds]
  /\ \A o \in Truths \cup Others : IsExecution(o)
  /\ \A o \in Truths : "dropped" \in Shown[o] => Unique(o)

VARIABLES
  truth,     \* the execution on chain
  lookups,   \* what the primary and the backup answer
  phase,     \* merge, identity, check, walk, sort, done
  out,       \* the final outcome under interpretation
  queue,     \* receipts to visit, in order
  visited,
  indegrees,
  roots,     \* visited receipts without unsorted parents, in order
  sorted,    \* receipts sorted so far
  verdict    \* kind and reason

receiptVars == <<truth, lookups, phase, out, queue, visited, indegrees, roots, sorted, verdict>>

NoVerdict == [kind |-> "none", reason |-> "none"]
Terminal(reason) == [kind |-> "terminal", reason |-> reason]
Indeterminate(reason) == [kind |-> "indeterminate", reason |-> reason]
Verdict(kind) == [kind |-> kind, reason |-> "none"]

-----------------------------------------------------------------------------
(* The two lookups.                                                        *)

NoOutcome(kind) == [kind |-> kind]
Final(o) == [kind |-> "final", outcome |-> o]

\* An endpoint that has executed part of the receipts: one outcome is not
\* there yet, or is there without a result.
Dropped(o) == {[o EXCEPT !.receipts = RemoveAt(@, i)] : i \in DOMAIN o.receipts}
Blank(o) == {[o EXCEPT !.receipts[i].status = "unknown"] : i \in DOMAIN o.receipts}

\* The outcome of some other transaction.
Foreign == {[o EXCEPT !.bound = FALSE] : o \in Others}

Lookups(o) ==
  UNION {CASE kind = "final"   -> {Final(o)}
           [] kind = "dropped" -> {Final(s) : s \in Dropped(o)}
           [] kind = "blank"   -> {Final(s) : s \in Blank(o)}
           [] kind = "foreign" -> {Final(s) : s \in Foreign}
           [] OTHER            -> {NoOutcome(kind)} : kind \in Shown[o]}

ReceiptInit ==
  /\ truth \in Truths
  /\ lookups \in Lookups(truth) \X Lookups(truth)
  /\ phase = "merge"
  /\ out = truth
  /\ queue = <<>>
  /\ visited = {}
  /\ indegrees = [r \in {} |-> 0]
  /\ roots = <<>>
  /\ sorted = 0
  /\ verdict = NoVerdict

Finals == {i \in 1..2 : lookups[i].kind = "final"}

\* final_outcomes_conflict
Conflict == Finals = {1, 2} /\ lookups[1] # lookups[2]

Done(v) == phase' = "done" /\ verdict' = v
KeepWalk == UNCHANGED <<queue, visited, indegrees, roots, sorted>>

MergeLookups ==
  /\ phase = "merge"
  /\ \/ Conflict /\ Done(Verdict("conflict")) /\ UNCHANGED out
     \/ /\ ~Conflict /\ Finals # {}
        /\ out' = lookups[IF 1 \in Finals THEN 1 ELSE 2].outcome
        /\ phase' = "identity"
        /\ UNCHANGED verdict
     \/ /\ Finals = {}
        /\ UNCHANGED out
        /\ Done(IF \E i \in 1..2 : lookups[i].kind = "pending" THEN Verdict("pending")
                ELSE IF \A i \in 1..2 : lookups[i].kind = "unknown" THEN Verdict("unknown")
                ELSE Verdict("ambiguous"))
  /\ UNCHANGED <<truth, lookups>>
  /\ KeepWalk

-----------------------------------------------------------------------------
(* interpret_near_final: the identity, then the receipts.                  *)

\* Plausible bug: the receipts are trusted whatever transaction they are of.
ValidateIdentity_Skip ==
  /\ phase = "identity"
  /\ phase' = "check" /\ UNCHANGED verdict
  /\ UNCHANGED <<truth, lookups, out>>
  /\ KeepWalk

\* validate_final_outcome_identity: hash, outcome id, signer, receiver and
\* executor are those of the prepared transaction.
ValidateIdentity ==
  /\ phase = "identity"
  /\ IF ~out.bound THEN Done(Indeterminate("identity"))
     ELSE phase' = "check" /\ UNCHANGED verdict
  /\ UNCHANGED <<truth, lookups, out>>
  /\ KeepWalk

Known(o) == {o.receipts[i].id : i \in DOMAIN o.receipts}
Outcome(o, r) == o.receipts[CHOOSE i \in DOMAIN o.receipts : o.receipts[i].id = r]
Children(o, r) == Outcome(o, r).children

\* by_id refuses two outcomes of one receipt.
Duplicate(o) == Cardinality(Known(o)) # Len(o.receipts)

Delegate(o) == o.tx.children[1]

\* Where the delegate lists its children on the token contract; one is right.
TokenAt(o) ==
  {i \in DOMAIN Children(o, Delegate(o)) : Outcome(o, Children(o, Delegate(o))[i]).executor = Asset}
Token(o) == Children(o, Delegate(o))[CHOOSE i \in TokenAt(o) : TRUE]

\* The checks before the walk, in order: the first one that fails is the
\* answer, and NoVerdict starts the walk.
Refusal(o) ==
  LET delegate == Outcome(o, Delegate(o))
  IN  IF o.final \in {"not_started", "started"}          THEN Indeterminate(o.final)
      ELSE IF o.final = "failure"                        THEN Terminal("final_failure")
      ELSE IF o.tx.status = "failure"                    THEN Terminal("transaction_failure")
      ELSE IF o.tx.status = "unknown"                    THEN Indeterminate("incomplete")
      ELSE IF Len(o.tx.children) # 1                     THEN Indeterminate("delegate_count")
      ELSE IF Duplicate(o)                               THEN Indeterminate("duplicate_outcome")
      ELSE IF Delegate(o) \notin Known(o)                THEN Indeterminate("missing_delegate")
      ELSE IF delegate.executor # Payer                  THEN Indeterminate("delegate_executor")
      ELSE IF delegate.status = "failure"                THEN Terminal("delegate_failure")
      ELSE IF delegate.status = "unknown"                THEN Indeterminate("incomplete")
      ELSE IF ~(ToSet(delegate.children) \subseteq Known(o)) THEN Indeterminate("incomplete")
      ELSE IF Cardinality(TokenAt(o)) # 1                THEN Indeterminate("token_count")
      ELSE NoVerdict

CheckHead ==
  /\ phase = "check"
  /\ IF Refusal(out) = NoVerdict
     THEN phase' = "walk" /\ queue' = out.tx.children /\ UNCHANGED verdict
     ELSE Done(Refusal(out)) /\ UNCHANGED queue
  /\ UNCHANGED <<truth, lookups, out, visited, indegrees, roots, sorted>>

\* execution_failure
Failed(o, r) == Outcome(o, r).status = "failure"

Visit ==
  LET r == Head(queue)
  IN  /\ phase = "walk"
      /\ queue # <<>>
      /\ IF r \in visited THEN queue' = Tail(queue) /\ UNCHANGED <<phase, visited, verdict>>
         ELSE /\ visited' = visited \cup {r}
              /\ IF r \notin Known(out) THEN Done(Indeterminate("incomplete")) /\ queue' = Tail(queue)
                 ELSE IF Failed(out, r) THEN Done(Terminal("reachable_failure")) /\ queue' = Tail(queue)
                 ELSE IF r # Token(out) /\ Outcome(out, r).status = "unknown"
                      THEN Done(Indeterminate("incomplete")) /\ queue' = Tail(queue)
                 ELSE queue' = Tail(queue) \o Children(out, r) /\ UNCHANGED <<phase, verdict>>
      /\ UNCHANGED <<truth, lookups, out, indegrees, roots, sorted>>

\* Plausible bug: the edges are counted once per pair of receipts.
Edges_Once(o, p, c) == IF \E i \in DOMAIN Children(o, p) : Children(o, p)[i] = c THEN 1 ELSE 0

\* How often c is listed among the children of p.
Edges(o, p, c) == Cardinality({i \in DOMAIN Children(o, p) : Children(o, p)[i] = c})

StartSort ==
  /\ phase = "walk"
  /\ queue = <<>>
  /\ phase' = "sort"
  /\ indegrees' = [c \in visited |-> FoldSet(LAMBDA p, n : n + Edges(out, p, c), 0, visited)]
  /\ roots' = SetToSeq({c \in visited : indegrees'[c] = 0})
  /\ UNCHANGED <<truth, lookups, out, queue, visited, sorted, verdict>>

\* One decrement; the receipt is a root when its count reaches zero.
Release(acc, c) ==
  IF c \notin visited THEN acc
  ELSE LET n == IF acc.indegrees[c] = 0 THEN 0 ELSE acc.indegrees[c] - 1
       IN  [indegrees |-> [acc.indegrees EXCEPT ![c] = n],
            roots |-> IF n = 0 THEN Append(acc.roots, c) ELSE acc.roots]

SortRoot ==
  /\ phase = "sort"
  /\ roots # <<>>
  /\ LET next == FoldLeft(Release, [indegrees |-> indegrees, roots |-> Tail(roots)],
                          Children(out, Head(roots)))
     IN  indegrees' = next.indegrees /\ roots' = next.roots
  /\ sorted' = sorted + 1
  /\ UNCHANGED <<truth, lookups, out, phase, queue, visited, verdict>>

\* Plausible bug: the result of the sort is not looked at.
Sorted_Skip == TRUE

Sorted == sorted = Cardinality(visited)

\* A failed token receipt has been met by the walk already.
ConcludeWalk ==
  /\ phase = "sort"
  /\ roots = <<>>
  /\ Done(IF ~Sorted THEN Indeterminate("cyclic")
          ELSE IF Outcome(out, Token(out)).status = "value" THEN Terminal("success")
          ELSE Indeterminate("token_not_successful"))
  /\ UNCHANGED <<truth, lookups, out, queue, visited, indegrees, roots, sorted>>

Reported == phase = "done" /\ UNCHANGED receiptVars

ReceiptNext ==
  \/ MergeLookups \/ ValidateIdentity \/ CheckHead
  \/ Visit \/ StartSort \/ SortRoot \/ ConcludeWalk
  \/ Reported

ReceiptSpec == ReceiptInit /\ [][ReceiptNext]_receiptVars

-----------------------------------------------------------------------------
(* What the verdict means, stated on the whole execution.                  *)

\* The least set that holds the given receipts and, in the execution o, the
\* children its members list.
Listed(o, S) ==
  {r \in Ids : \E i \in DOMAIN o.receipts :
     o.receipts[i].id \in S /\ r \in ToSet(o.receipts[i].children)}
Closed(o, S) == Listed(o, S) \subseteq S
Closure(o, from) == {r \in Ids : \A S \in SUBSET Ids : from \subseteq S /\ Closed(o, S) => r \in S}

\* Receipts the transaction led to, and those at the end of a nonempty path
\* from r.
Reachable(o) == Closure(o, ToSet(o.tx.children))
Below(o, r) == Closure(o, Listed(o, {r}))

StatusIn(o, r) == {o.receipts[i].status : i \in {j \in DOMAIN o.receipts : o.receipts[j].id = r}}
OnAsset(o, r) == \E i \in DOMAIN o.receipts : o.receipts[i].id = r /\ o.receipts[i].executor = Asset

\* The transfer of the token took place: among the receipts the delegate
\* receipt spawned, exactly one ran on the token contract, and it returned.
TransferOf(o) ==
  {r \in UNION {ToSet(o.receipts[i].children) :
                  i \in {j \in DOMAIN o.receipts :
                           o.receipts[j].id \in ToSet(o.tx.children) /\ o.receipts[j].executor = Payer}} :
     OnAsset(o, r)}
Paid(o) == Cardinality(TransferOf(o)) = 1 /\ \A r \in TransferOf(o) : StatusIn(o, r) = {"value"}

\* Something in the execution failed: the transaction itself or a receipt it
\* led to.
SomethingFailed(o) ==
  \/ o.final = "failure"
  \/ o.tx.status = "failure"
  \/ \E r \in Reachable(o) : "failure" \in StatusIn(o, r)

\* Every receipt the execution led to has run, and none waits on itself.
Ran(o) == \A r \in Reachable(o) : StatusIn(o, r) \cap {"value", "receipt"} # {}
Settled(o) == Ran(o) /\ \A r \in Reachable(o) : r \notin Below(o, r)

Succeeded == phase = "done" /\ verdict = Terminal("success")
FailedForGood == phase = "done" /\ verdict.kind = "terminal" /\ verdict.reason # "success"

\* A success is reported only when the execution on chain transferred the
\* token, all of it ran without a failure and without a cycle, whatever part
\* of it the endpoint that answered had seen.
SuccessMeansSettled ==
  Succeeded => Paid(truth) /\ ~SomethingFailed(truth) /\ Settled(truth)

\* A definitive failure is reported only when the execution on chain really
\* holds a failed transaction or a failed receipt of it: an outcome that is
\* missing, blank or of another transaction never becomes a failure.
FailureIsOnChain == FailedForGood => SomethingFailed(truth)

\* A complete, agreed outcome of a settled transfer is never left undecided:
\* when both endpoints show the whole execution and the token receipt
\* returned, the walk and the sort accept it.
SettledIsAccepted ==
  /\ phase = "done"
  /\ \A i \in 1..2 : lookups[i] = Final(truth)
  /\ truth.final = "value" /\ truth.bound /\ truth.tx.status \in {"value", "receipt"}
  /\ ~Duplicate(truth) /\ Len(truth.tx.children) = 1
  /\ Paid(truth) /\ Settled(truth)
  /\ Cardinality(TokenAt(truth)) = 1
  => Succeeded

\* What the comment on is_definitive_failure says: a definitive failure is
\* evidence that the payment failed on chain.
DefinitiveMeansUnpaid == FailedForGood => ~Paid(truth)

=============================================================================
