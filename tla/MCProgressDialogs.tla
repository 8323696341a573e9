------------------------- MODULE MCProgressDialogs -------------------------
(* Descriptions for TLC: a blocking dialog, and one without an owner. *)
EXTENDS ProgressDialogs

MCBlocking == [owned |-> TRUE, blocks |-> TRUE, cancelable |-> TRUE]
MCOwnerless == [owned |-> FALSE, blocks |-> TRUE, cancelable |-> FALSE]

MCBoth == {MCBlocking, MCOwnerless}
=============================================================================
