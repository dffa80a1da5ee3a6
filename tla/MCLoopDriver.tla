---------------------------- MODULE MCLoopDriver ----------------------------
(* Instances of LoopDriver for TLC: a request's loop, driven until no       *)
(* interest is left, beside a loop driven until it has nothing left.        *)
EXTENDS LoopDriver
CONSTANTS A, B
MCLoops == {A, B}
MCDraining == {B}
MCStoppable == {A}

=============================================================================
