---------------------------- MODULE MCDurableRun ----------------------------
(* Small catalogs, capacities and budgets for TLC. *)
EXTENDS DurableRun

MCCatalogs == {[total |-> 3, failing |-> {}], [total |-> 2, failing |-> {1}]}

Budget(sources, units) == [max_sources |-> sources, max_work_units |-> units]

\* nothing, a source ceiling inside a chunk, a work ceiling inside a chunk, both at
\* once on a chunk boundary, and ample
MCBudgets == {Budget(0, 99), Budget(1, 99), Budget(9, 7), Budget(2, 10), Budget(9, 99)}

=============================================================================
