------------------------------- MODULE MCCancel -------------------------------
(* Instances of Cancel: a target that cancels itself and is canceled by one   *)
(* or two other threads.                                                      *)
EXTENDS Cancel

CONSTANTS a, b, c

TwoCancelers == {<<a, c>>, <<b, c>>, <<c, c>>}
OneCanceler == {<<a, c>>, <<c, c>>}
=============================================================================
