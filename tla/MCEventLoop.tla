---------------------------- MODULE MCEventLoop ----------------------------
(* Instances of EventLoop for TLC. *)
EXTENDS EventLoop

\* A timeout below zero, which counts as zero, and one that outlasts a tick.
MCTimeouts == {-1, 2}

=============================================================================
