---------------------------- MODULE MCCaptureInbox ----------------------------
(* Instances of CaptureInbox.                                                 *)
EXTENDS CaptureInbox

CONSTANTS worker, hook     \* a worker, a host's hook
CONSTANTS here, there      \* sessions
CONSTANTS letter, quoting  \* texts

Hooks == {hook}
Sent(s, w, m) == [session |-> s, revision |-> 1, words |-> w, moment |-> m]

(* A message, the same one dated anew, one that quotes it under its key, and  *)
(* another session's that says the same at the same moment.                   *)
Collisions == {Sent(here, letter, 1), Sent(here, letter, 2), Sent(here, quoting, 1),
               Sent(there, quoting, 1)}
QuotedBy == {<<quoting, letter>>}
==============================================================================
