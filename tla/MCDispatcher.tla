---------------------------- MODULE MCDispatcher ----------------------------
EXTENDS Dispatcher, TLC

MCWorks == {{"packets", "tasks"}, {"packets", "events"}, {"events", "tasks"}, {"notify"}}

(* Only invariants are checked, and no packet, text or caller is special.  *)
Symmetry == Permutations(Packets) \cup Permutations(Contents) \cup Permutations(Callers)
=============================================================================
