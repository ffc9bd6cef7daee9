-------------------------- MODULE MCSessionDelivery --------------------------
(* Instances of SessionDelivery.                                              *)
EXTENDS SessionDelivery, TLC

CONSTANT office            \* a fact
CONSTANTS first, second    \* two prompts

Facts == {office}
Prompts == {first, second}
Symmetric == Permutations(Prompts)
=============================================================================
