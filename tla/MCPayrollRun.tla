---------------------------- MODULE MCPayrollRun ----------------------------
(* A payroll run for TLC: two amounts, two chains, two batches.             *)
EXTENDS PayrollRun
=============================================================================
