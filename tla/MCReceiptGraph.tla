--------------------------- MODULE MCReceiptGraph ----------------------------
(* Small instances of ReceiptGraph.  The ids are d, the delegate receipt;   *)
(* t and x, two receipts below it; and m, which has no outcome.             *)
EXTENDS ReceiptGraph

CONSTANTS d, t, x, m

Lists(S, n) == UNION {[1..k -> S] : k \in 0..n}

Receipt(id, executor, status, children) ==
  [id |-> id, executor |-> executor, status |-> status, children |-> children]

Execution(final, tx, children, receipts) ==
  [final |-> final, bound |-> TRUE, tx |-> [status |-> tx, children |-> children], receipts |-> receipts]

\* Every small graph below one delegate receipt: repeated children, children
\* without an outcome, cycles, two token receipts, none.
Graphs ==
  {Execution("value", "receipt", <<d>>,
     <<Receipt(d, Payer, sd, cd), Receipt(t, Asset, st, ct), Receipt(x, ex, sx, cx)>>) :
     sd \in {"value", "receipt"}, st \in Statuses, sx \in Statuses \ {"receipt"},
     cd \in Lists({d, t, x, m}, 2) \cup {<<t, x, x>>, <<x, t, m>>}, ct \in {<<>>, <<x>>, <<d>>, <<m>>},
     cx \in {<<>>, <<t>>, <<d>>, <<x>>, <<t, t>>}, ex \in {Asset, Payer}}

\* The same transfer with each way the checks before the walk can end.
Heads ==
  {Execution(f, tx, ch, rs) :
     f \in {"not_started", "started", "failure", "value"},
     tx \in Statuses, ch \in Lists({d, m}, 2),
     rs \in {<<Receipt(d, ed, sd, <<t>>), Receipt(t, Asset, st, <<>>)>> :
               ed \in {Payer, Asset}, sd \in Statuses, st \in {"value", "failure"}}
            \cup {<<Receipt(d, Payer, "receipt", <<t>>), Receipt(t, Asset, "value", <<>>),
                   Receipt(t, Asset, "failure", <<>>)>>}}

\* Honest executions: complete and acyclic, successful or failed at any place.
Transfers ==
  {Execution("value", "receipt", <<d>>,
     <<Receipt(d, Payer, "receipt", cd), Receipt(t, Asset, st, ct), Receipt(x, Payer, sx, <<>>)>>) :
     st \in {"value", "failure"}, sx \in {"value", "failure"},
     cd \in {<<t>>, <<t, x>>}, ct \in {<<>>, <<x>>}}
  \cup {Execution("failure", "receipt", <<d>>, <<Receipt(d, Payer, "failure", <<x>>), Receipt(x, Payer, "value", <<>>)>>),
        Execution("failure", "failure", <<>>, <<>>)}

Executions == Graphs \cup Heads \cup Transfers

\* Both endpoints show a graph as it is; of an honest execution they may show
\* any part.
AnyPart == [o \in Executions |-> IF o \in Transfers THEN LookupKinds ELSE {"final"}]
Whole == [o \in Transfers |-> {"final"}]

=============================================================================
