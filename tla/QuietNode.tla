----------------------------- MODULE QuietNode -----------------------------
(***************************************************************************)
(* The main loop with a client for which it was written: blocks extend the *)
(* chain, every block is announced, and none comes before the client gave  *)
(* the logs of the one announced last.  A block still comes between the    *)
(* answers of an iteration, its updates and its search; requests fail and  *)
(* are answered in any order, the client reports that it is syncing,       *)
(* searches hang, and the process is started again.                        *)
(*                                                                         *)
(* Under these conditions the delta updates of the loop implement          *)
(* AtomicView; without them (BlockLoop alone) they do not.                 *)
(***************************************************************************)
EXTENDS BlockLoop

QuietImport(S) ==
    /\ headers = 0
    /\ pc = "info" => "logs" \in info.answered
    /\ ~syncing
    /\ Import(Len(chain), S)

QuietNext ==
    \/ \E S \in SUBSET Pairs : QuietImport(S)
    \/ NodeSyncs
    \/ StreamEnds
    \/ SearchHangs
    \/ RequestFails
    \/ Restart
    \/ Bot

QuietSpec == Init /\ [][QuietNext]_vars

\* The block before the head.
Parent == chain[IF Len(chain) = 1 THEN 1 ELSE Len(chain) - 1]

\* The head changed a pair after the graph was brought up to date with its parent,
\* and its header waits in the queue: the next iteration will read the pair.
Announced(m) == headers > 0 /\ m \in Tip.logs /\ cache[m] = Parent.state[m]

\* All that search() can lack of the chain is the one block that came after the logs
\* it was started for, and the loop is going to be told of that block: the full
\* update, the logs of one block and the markets updated without logs add up to the
\* rest, whatever order the requests are answered in.  The rate of cETH is of a
\* draft on top of that block or of its parent.
LacksAtMostTheNextBlock ==
    pc = "search" =>
        /\ \A m \in Pairs : Stale(m) => Announced(m)
        /\ \A m \in Accruing : RateSince(m, IF headers > 0 THEN Parent.id ELSE Tip.id)

\* The inductive invariant behind LacksAtMostTheNextBlock: what the graph lacks is
\* always named by the header that waits, by the logs at hand or by the updates
\* that have not returned.
QuietInv ==
    /\ headers \in {0, 1}
    /\ headers > 0 => Parent.id = mined - 1
    /\ pc = "wait" /\ ~fullUpdate => \A m \in Pairs : Stale(m) => Announced(m)
    /\ pc = "info" /\ "logs" \notin info.answered =>
          /\ headers = 0
          /\ ~fullUpdate => \A m \in Pairs : Stale(m) => m \in Tip.logs
    /\ pc = "info" /\ "logs" \in info.answered =>
          /\ info.id >= mined - headers
          /\ ~fullUpdate => \A m \in Pairs : Stale(m) => m \in info.logs \/ Announced(m)
    /\ pc \in {"update", "search", "hung"} =>
          /\ info.id >= mined - headers
          /\ \A m \in Pairs : Stale(m) => m \in pending \/ Announced(m)

\* The states of all markets after block b: what cETH is worth is that of the drafts
\* on top of it.
StateAt(b) ==
    [m \in Markets |-> IF m \in Pairs THEN b.state[m] ELSE IF m \in Accruing THEN b.id ELSE 0]

\* The states that the graph holds.
GraphView ==
    [m \in Markets |-> IF m \in Accruing /\ cache[m] # Unread THEN drafts[cache[m]] ELSE cache[m]]

Abstract == INSTANCE AtomicView
    WITH state <- StateAt(Tip), previous <- StateAt(Parent), view <- GraphView,
         searching <- (pc \in {"search", "hung"})

\* The loop and its graph implement the abstract view.
ImplementsAtomicView == Abstract!Spec
=============================================================================
