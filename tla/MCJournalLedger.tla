---------------------------- MODULE MCJournalLedger ----------------------------
(* Two periods, one advance of two units and two transactions in flight.   *)
EXTENDS JournalLedger, TLC

MCSymmetry == Permutations(Requests)
=============================================================================
