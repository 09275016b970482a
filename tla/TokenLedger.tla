------------------------------ MODULE TokenLedger ------------------------------
(***************************************************************************)
(* What the token count of a run on pi promises, without pipes, stats      *)
(* responses or a baseline: it follows what the run spends from below,     *)
(* never goes back, and the final usage of an aborted run closes the book  *)
(* with every token in it. PiHarness implements it.                        *)
(***************************************************************************)
EXTENDS Naturals

VARIABLES
    spent,     \* the tokens the harness spent in this run
    counted,   \* those the runner counted
    settled    \* the final usage is in

ledger == <<spent, counted, settled>>

Init == spent = 0 /\ counted = 0 /\ settled = FALSE

\* Whatever is spent is spent before the final usage is in.
Spend ==
    /\ ~settled
    /\ spent' \in Nat /\ spent' > spent
    /\ UNCHANGED <<counted, settled>>

\* Only what was spent and is not counted yet.
Count ==
    /\ ~settled
    /\ counted' \in Nat /\ counted' > counted /\ counted' <= spent
    /\ UNCHANGED <<spent, settled>>

Settle ==
    /\ ~settled /\ settled' = TRUE
    /\ counted <= spent /\ counted' = spent
    /\ UNCHANGED spent

Next == Spend \/ Count \/ Settle

Spec == Init /\ [][Next]_ledger

=============================================================================
