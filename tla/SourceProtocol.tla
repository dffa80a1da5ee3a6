--------------------------- MODULE SourceProtocol ---------------------------
(***************************************************************************)
(* What an underlying source may rely on: when a readable stream calls its *)
(* pull and cancel.  pull comes only after start succeeded, one call at a  *)
(* time, and only while the stream wants chunks: never after the source    *)
(* closed or errored the stream, or the consumer cancelled it.  cancel     *)
(* comes at most once, and never once the stream is over.                  *)
(***************************************************************************)
EXTENDS Naturals

VARIABLES
    start,    \* "pending" | "fulfilled" | "rejected"
    pulls,    \* the calls of pull that are not answered
    cancel,   \* cancel was called
    fate      \* "open" | "closing" (closed, chunks are left) | "over"

sourceVars == <<start, pulls, cancel, fate>>

Init ==
    /\ start = "pending"
    /\ pulls = 0
    /\ cancel = FALSE
    /\ fate = "open"

Fulfil == start' = "fulfilled" /\ start = "pending"

Start == Fulfil /\ UNCHANGED <<pulls, cancel, fate>>

\* A call may follow the success of start, or the end of the call before, at once.
Pull ==
    /\ fate = "open"
    /\ (start = "fulfilled" /\ UNCHANGED start) \/ Fulfil
    /\ pulls = 0
    /\ pulls' = 1
    /\ UNCHANGED <<cancel, fate>>

PullAnswered ==
    /\ pulls = 1
    /\ pulls' = 0
    /\ UNCHANGED <<start, cancel, fate>>

\* close(), with or without chunks left, and the last of them read.
Close ==
    /\ \/ fate = "open" /\ fate' \in {"closing", "over"}
       \/ fate = "closing" /\ fate' = "over"
    /\ UNCHANGED <<start, pulls, cancel>>

\* error(), or start or pull failed, on a stream that may be over.
Error ==
    /\ fate' = "over"
    /\ \/ UNCHANGED <<start, pulls>> /\ fate # "over"
       \/ start = "pending" /\ start' = "rejected" /\ UNCHANGED pulls
       \/ pulls = 1 /\ pulls' = 0 /\ UNCHANGED start
    /\ UNCHANGED cancel

Cancel ==
    /\ fate # "over" /\ ~cancel
    /\ cancel' = TRUE
    /\ fate' = "over"
    /\ UNCHANGED <<start, pulls>>

Next == Start \/ Pull \/ PullAnswered \/ Close \/ Error \/ Cancel

Spec == Init /\ [][Next]_sourceVars

=============================================================================
