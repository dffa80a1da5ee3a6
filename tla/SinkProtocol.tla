---------------------------- MODULE SinkProtocol ----------------------------
(***************************************************************************)
(* What an underlying sink may rely on: the order in which a writable      *)
(* stream calls start, write, close and abort.  One call is outstanding at *)
(* a time.  Chunks arrive once each, in the order they were accepted.      *)
(* close comes after every accepted chunk was written and nothing failed.  *)
(* abort is the last call, and never follows close.                        *)
(***************************************************************************)
EXTENDS Sequences, Naturals

CONSTANT Chunks

VARIABLES
    op,        \* the sink call that is outstanding, or "idle"
    accepted,  \* the chunks accepted, in order
    written,   \* the chunks given to the sink, in order
    answers,   \* how many calls have been answered
    fate       \* "open" | "broken" (no more writes) | "over" (close or abort was called)

sinkVars == <<op, accepted, written, answers, fate>>

Init ==
    /\ op = "start"
    /\ accepted = <<>>
    /\ written = <<>>
    /\ answers = 0
    /\ fate = "open"

\* The outstanding call is answered in this step.
Answered == op # "idle" /\ answers' = answers + 1

\* The next call begins: none is outstanding, or the one before is answered in this step.
Begin(call) ==
    /\ IF op = "idle" THEN UNCHANGED answers ELSE Answered
    /\ op' = call

Accept(c) ==
    /\ fate = "open"
    /\ \A i \in 1..Len(accepted) : accepted[i] # c
    /\ accepted' = Append(accepted, c)
    /\ UNCHANGED <<op, written, answers, fate>>

\* The stream was aborted or errored, or the outstanding call failed.
Break ==
    /\ fate = "open"
    /\ fate' = "broken"
    /\ \/ UNCHANGED <<op, answers>>
       \/ Answered /\ op' = "idle"
    /\ UNCHANGED <<accepted, written>>

\* The end of the call before, or the arrival of a chunk, lets the next write begin.
Write ==
    /\ fate = "open"
    /\ Begin("write")
    /\ \/ accepted' = accepted
       \/ op = "idle" /\ \E c \in Chunks : accepted' = Append(accepted, c)
    /\ Len(written) < Len(accepted')
    /\ written' = Append(written, accepted'[Len(written) + 1])
    /\ UNCHANGED fate

Close ==
    /\ fate = "open"
    /\ Begin("close")
    /\ written = accepted
    /\ fate' = "over"
    /\ UNCHANGED <<accepted, written>>

Abort ==
    /\ fate \in {"open", "broken"}
    /\ Begin("abort")
    /\ fate' = "over"
    /\ UNCHANGED <<accepted, written>>

Return ==
    /\ Answered
    /\ op' = "idle"
    /\ UNCHANGED <<accepted, written, fate>>

Next == (\E c \in Chunks : Accept(c)) \/ Break \/ Write \/ Close \/ Abort \/ Return

Spec == Init /\ [][Next]_sinkVars

=============================================================================
