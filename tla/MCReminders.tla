---------------------------- MODULE MCReminders ----------------------------
(* Values for TLC: a business with two rules and one with none. *)
EXTENDS Reminders

CONSTANTS ruled, unruled

TwoRulesAndNone == [i \in Invoices |-> IF i = ruled THEN {0, 1} ELSE {}]

Either == {{ruled}, {unruled}}
=============================================================================
