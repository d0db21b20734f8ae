-------------------------------- MODULE MCLoop --------------------------------
EXTENDS Loop

Mix(slots, mode) ==
    [slots |-> slots, mode |-> mode, expires |-> FALSE, ops |-> {"status", "stop", "close"},
     commands |-> 1, crashes |-> 0, failures |-> 0, ticks |-> FALSE]

MCMixes ==
    {[Mix({1}, "rotating") EXCEPT !.ops = {"status", "close"}],
     [Mix({1}, "rotating") EXCEPT !.commands = 0, !.crashes = 1],
     [Mix({1}, "holder") EXCEPT !.ops = {"stop"}, !.ticks = TRUE, !.failures = 1],
     [Mix({1}, "rotating") EXCEPT !.commands = 0, !.failures = 2],
     [Mix({1}, "manual") EXCEPT !.ops = {"stop"}, !.expires = TRUE],
     [Mix({1, 2}, "rotating") EXCEPT !.commands = 0],
     [Mix({1, 2}, "manual") EXCEPT !.ops = {"stop"}]}

(* One closing operation against the host's rotation, nothing dies. *)
MCRace == {[Mix({1}, "rotating") EXCEPT !.ops = {"close"}]}
=============================================================================
