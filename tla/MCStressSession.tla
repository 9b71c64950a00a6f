--------------------------- MODULE MCStressSession ---------------------------
(***************************************************************************)
(* Model-checking instance of StressSession: two senders and three         *)
(* recipients as in the source, three transfers per batch so that sender  *)
(* 0 submits twice in a batch, two batches so that a sleep between        *)
(* batches and the carry-over of the recipient cursor both occur.          *)
(***************************************************************************)
EXTENDS StressSession

\* SIGINT may arrive while the timeline is parked at any await.
SignalAnywhere == AwaitPoints

\* Scenario D: the operator stops the test during startup or during the
\* INTERVAL_MINUTES sleep between batches.
SignalBetweenBatches == {"startup", "interval"}

=============================================================================
