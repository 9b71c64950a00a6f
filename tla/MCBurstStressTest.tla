-------------------------- MODULE MCBurstStressTest --------------------------
(* Two senders as in the source; its whole amounts list, or the first four. *)
EXTENDS BurstStressTest

FirstAmounts == <<50, 100, 200, 500>>

\* The whole amounts list of stress-test.js.
SourceAmounts == <<50, 100, 200, 500, 1000, 150, 300, 750, 250, 400>>

=============================================================================
