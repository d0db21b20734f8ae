----------------------------- MODULE MCHeartbeat -----------------------------
EXTENDS Heartbeat, TLC

(* A mix of two heartbeats; the second one may be gone from the start.     *)
Mix(k1, k2, gone) ==
    [kind |-> (1 :> k1 @@ 2 :> k2), gone |-> gone, strict |-> FALSE, shared |-> FALSE, ended |-> {},
     cap |-> 2, others |-> {}, expires |-> FALSE, claims |-> 3, crashes |-> 0,
     commands |-> 0, user |-> 0]

MCMixes ==
    {\* two prompts to one thread, and a crash
     [Mix("prompt", "prompt", {}) EXCEPT !.shared = TRUE, !.crashes = 1, !.claims = 2],
     \* a strict prompt, and with a probe in a pool of one
     [Mix("prompt", "plain", {2}) EXCEPT !.strict = TRUE],
     [Mix("prompt", "plain", {}) EXCEPT !.strict = TRUE, !.cap = 1, !.claims = 2],
     \* a prompt and its expiry, a prompt and the CLI
     [Mix("prompt", "plain", {2}) EXCEPT !.expires = TRUE],
     [Mix("prompt", "plain", {2}) EXCEPT !.commands = 1, !.claims = 1],
     \* a quota trigger: with a crash, the CLI, both, and beside another process
     [Mix("quota", "plain", {2}) EXCEPT !.crashes = 1],
     [Mix("quota", "plain", {2}) EXCEPT !.commands = 1, !.claims = 2],
     [Mix("quota", "plain", {2}) EXCEPT !.crashes = 1, !.commands = 1, !.claims = 1],
     [Mix("quota", "plain", {2}) EXCEPT !.others = {"second"}, !.claims = 2],
     [Mix("quota", "plain", {2}) EXCEPT !.others = {"once"}, !.claims = 2],
     \* receipts and continuations of an observed thread, and a crash
     [Mix("terminal", "plain", {2}) EXCEPT !.crashes = 1, !.user = 2, !.claims = 2],
     [Mix("continue", "plain", {2}) EXCEPT !.user = 1],
     [Mix("continue", "plain", {2}) EXCEPT !.crashes = 1, !.user = 1, !.shared = TRUE],
     \* two items and a crash, or two heartbeats and one item left, on a queue
     [Mix("queue", "plain", {2}) EXCEPT !.crashes = 1, !.claims = 2],
     [Mix("queue", "queue", {}) EXCEPT !.claims = 2, !.ended = {1}]}
=============================================================================
