-------------------------------- MODULE Tee --------------------------------
(***************************************************************************)
(* ReadableStream.tee() with default controllers                           *)
(* (TeeState in builtins/web-streams/src/readable/algorithms.rs).          *)
(*                                                                         *)
(* Three streams meet: the source, which the tee has locked, and the two   *)
(* branches, whose pull and cancel algorithms are the tee's.  Of each only *)
(* what the tee can see is kept; ReadableStream.tla models one stream in   *)
(* full.  Chunks are numbered in the order in which the source takes them. *)
(*                                                                         *)
(* The tee's own jobs run in the order in which they were queued: `jobs'   *)
(* is that part of the microtask queue.  Author code runs between any two  *)
(* jobs, and inside the source's pull() and cancel(): a frame keeps what   *)
(* is left of the call it interrupts.  Whether the source's pull() is      *)
(* really called depends on its controller; if not, author code just does  *)
(* nothing in the frame.                                                   *)
(***************************************************************************)
EXTENDS Integers, SequencesExt

CONSTANTS
    MaxChunks,      \* bound on the chunks the source gives
    MaxReads        \* bound on the reads from each branch

VARIABLE s          \* TeeState, the source, the branches, the jobs and the suspended calls

Branches == {1, 2}
Other(i) == 3 - i
None == 0

-----------------------------------------------------------------------------
(* What the tee does to a branch.                                          *)

Push(r, job) == [r EXCEPT !.jobs = Append(@, job)]
Readable(r, i) == r.b[i].state = "readable"
CanCloseOrEnqueue(r, i) == Readable(r, i) /\ ~r.b[i].closeRequested

\* readable_stream_close and readable_stream_error of a branch: reads that wait are answered.
EndBranch(r, i, state) ==
    [r EXCEPT !.b[i].state = state, !.b[i].waiting = 0]

BranchError(r, i) ==
    IF Readable(r, i) THEN [EndBranch(r, i, "errored") EXCEPT !.b[i].queue = <<>>] ELSE r

BranchClose(r, i) ==
    IF ~CanCloseOrEnqueue(r, i) THEN r
    ELSE LET r1 == [r EXCEPT !.b[i].closeRequested = TRUE] IN
         IF r.b[i].queue = <<>> THEN EndBranch(r1, i, "closed") ELSE r1

\* The branches have high water mark one.
Wants(r, i) ==
    /\ CanCloseOrEnqueue(r, i) /\ r.b[i].started
    /\ r.b[i].waiting > 0 \/ r.b[i].queue = <<>>

ResolveCancelPromise(r) == [r EXCEPT !.cancelP = TRUE]

ResolveUnlessBothCanceled(r) ==
    IF r.canceled = Branches THEN r ELSE ResolveCancelPromise(r)

-----------------------------------------------------------------------------
(* Read requests of the tee.                                               *)

\* tee_read_request_chunk_steps: the chunk is parked until the microtask runs.
ChunkSteps(r, chunk) == Push([r EXCEPT !.pendingChunk = chunk, !.taken = @ + 1], <<"chunk", 0>>)

CloseBranches(r) ==
    LET r1 == IF 1 \in r.canceled THEN r ELSE BranchClose(r, 1) IN
    IF 2 \in r.canceled THEN r1 ELSE BranchClose(r1, 2)

\* tee_read_request_close_steps.
CloseSteps(r) == ResolveUnlessBothCanceled(CloseBranches([r EXCEPT !.reading = FALSE]))

\* tee_read_request_error_steps.
ErrorSteps(r) == [r EXCEPT !.reading = FALSE]

Suspend(r, call, branch, chunk) ==
    [r EXCEPT !.frames = Append(@, [call |-> call, branch |-> branch, chunk |-> chunk])]

\* readable_stream_default_reader_read on the source.  A stream that ended answers at once,
\* else the source's pull() may run before the chunk, if there is one, is handed over.
\* `then' is what the caller does when the read returns.
SourceRead(r, branch) ==
    LET src == r.src
        last == src.closeRequested /\ Len(src.queue) = 1
        done(r1) == IF branch = None THEN r1 ELSE Push(r1, <<"pulled", branch>>)
    IN CASE src.state = "closed"  -> done(CloseSteps(r))
         [] src.state = "errored" -> done(ErrorSteps(r))
         [] src.state = "readable" /\ src.queue = <<>> ->
                Suspend([r EXCEPT !.src.request = TRUE], "pull", branch, None)
         [] OTHER ->
                Suspend([r EXCEPT !.src.queue = Tail(@),
                                  !.src.state = IF last THEN "closed" ELSE @],
                        "pull", branch, Head(src.queue))

\* Mutant: demand that comes while a read is under way is forgotten.
TeePull_Forgets(r, branch) ==
    IF r.reading THEN IF branch = None THEN r ELSE Push(r, <<"pulled", branch>>)
    ELSE SourceRead([r EXCEPT !.reading = TRUE], branch)

\* tee_pull, for the branch whose pull algorithm it is, if any: that one's controller reacts
\* to the resolved promise it returns.
TeePull(r, branch) ==
    IF r.reading
    THEN LET r1 == [r EXCEPT !.readAgain = TRUE] IN
         IF branch = None THEN r1 ELSE Push(r1, <<"pulled", branch>>)
    ELSE SourceRead([r EXCEPT !.reading = TRUE], branch)

\* call_pull_if_needed of a branch.
CallPullIfNeeded(r, i) ==
    IF ~Wants(r, i) THEN r
    ELSE IF r.b[i].pulling THEN [r EXCEPT !.b[i].pullAgain = TRUE]
    ELSE TeePull([r EXCEPT !.b[i].pulling = TRUE], i)

\* readable_stream_default_controller_enqueue of a branch.  It is only called while `reading'
\* is set, so that the pull algorithm has nothing to read.
BranchEnqueue(r, i, chunk) ==
    IF ~CanCloseOrEnqueue(r, i) THEN r
    ELSE LET r1 == [r EXCEPT !.b[i].accepted = Append(@, chunk)] IN
         CallPullIfNeeded(IF r.b[i].waiting > 0
                          THEN [r1 EXCEPT !.b[i].waiting = @ - 1]
                          ELSE [r1 EXCEPT !.b[i].queue = Append(@, chunk)], i)

-----------------------------------------------------------------------------
(* Canceling the source.                                                   *)

\* readable_stream_cancel of the source: the tee's read gets its close steps, and the
\* source's cancel() runs before the cancel promise is resolved.
SourceCancel(r) ==
    IF r.src.state # "readable" THEN ResolveCancelPromise(r)
    ELSE LET r1 == [r EXCEPT !.src.state = "closed", !.src.queue = <<>>,
                             !.src.request = FALSE, !.src.canceled = TRUE]
         IN Suspend(IF r.src.request THEN CloseSteps(r1) ELSE r1, "cancel", None, None)

\* tee_cancel.
TeeCancel(r, i) ==
    LET r1 == [r EXCEPT !.canceled = @ \cup {i}] IN
    IF Other(i) \in r.canceled THEN SourceCancel(r1) ELSE r1

-----------------------------------------------------------------------------
(* Author code: the source, and whoever has the branches.                  *)

Give ==
    /\ s.src.state = "readable" /\ ~s.src.closeRequested /\ s.given < MaxChunks
    /\ LET r == [s EXCEPT !.given = @ + 1] IN
       s' = IF s.src.request
            THEN ChunkSteps([r EXCEPT !.src.request = FALSE], r.given)
            ELSE [r EXCEPT !.src.queue = Append(@, r.given)]

CloseSource ==
    /\ s.src.state = "readable" /\ ~s.src.closeRequested
    /\ LET r == [s EXCEPT !.src.closeRequested = TRUE] IN
       s' = IF s.src.queue # <<>> THEN r
            ELSE LET r1 == [r EXCEPT !.src.state = "closed", !.src.request = FALSE] IN
                 IF s.src.request THEN CloseSteps(r1) ELSE r1

\* The closed promise of the tee's reader is rejected.
ErrorSource ==
    /\ s.src.state = "readable"
    /\ LET r == Push([s EXCEPT !.src.state = "errored", !.src.queue = <<>>,
                               !.src.request = FALSE], <<"rejected", 0>>)
       IN s' = IF s.src.request THEN ErrorSteps(r) ELSE r

\* A read from a branch: default_reader_read and pull_steps.
ReadBranch(i) ==
    /\ Readable(s, i) /\ s.b[i].reads < MaxReads
    /\ LET r == [s EXCEPT !.b[i].reads = @ + 1]
           r1 == [r EXCEPT !.b[i].queue = Tail(@)]
       IN s' = IF s.b[i].queue = <<>>
               THEN CallPullIfNeeded([r EXCEPT !.b[i].waiting = @ + 1], i)
               ELSE IF s.b[i].closeRequested /\ r1.b[i].queue = <<>>
               THEN EndBranch(r1, i, "closed")
               ELSE CallPullIfNeeded(r1, i)

\* cancel() on a branch: readable_stream_cancel and cancel_steps.
CancelBranch(i) ==
    /\ Readable(s, i)
    /\ s' = TeeCancel([EndBranch(s, i, "closed") EXCEPT !.b[i].queue = <<>>], i)

\* The source's pull() or cancel() returns, and the call it interrupted goes on.
AuthorReturns ==
    /\ s.frames # <<>>
    /\ LET f == Last(s.frames)
           r == [s EXCEPT !.frames = Front(@)]
           r1 == IF f.chunk = None THEN r ELSE ChunkSteps(r, f.chunk)
       IN s' = CASE f.call = "cancel" -> ResolveCancelPromise(r)
                 [] f.call = "pull" /\ f.branch = None -> r1
                 [] f.call = "pull" /\ f.branch # None -> Push(r1, <<"pulled", f.branch>>)

-----------------------------------------------------------------------------
(* Jobs.                                                                   *)

\* The next job of the tee, when no call is suspended.
Job(name, i) == s.frames = <<>> /\ s.jobs # <<>> /\ Head(s.jobs) = <<name, i>>
Rest == [s EXCEPT !.jobs = Tail(@)]

\* The start reaction of a branch.
Started(i) ==
    /\ Job("start", i)
    /\ s' = CallPullIfNeeded([Rest EXCEPT !.b[i].started = TRUE], i)

\* The reaction of a branch to its pull promise.
Pulled(i) ==
    /\ Job("pulled", i)
    /\ LET r == [Rest EXCEPT !.b[i].pulling = FALSE, !.b[i].pullAgain = FALSE] IN
       s' = IF s.b[i].pullAgain THEN CallPullIfNeeded(r, i) ELSE r

Unparked == [Rest EXCEPT !.pendingChunk = None, !.readAgain = FALSE]

\* tee_chunk_microtask.
ChunkMicrotask ==
    /\ Job("chunk", 0)
    /\ LET r1 == IF 1 \in s.canceled THEN Unparked ELSE BranchEnqueue(Unparked, 1, s.pendingChunk)
           r2 == IF 2 \in s.canceled THEN r1 ELSE BranchEnqueue(r1, 2, s.pendingChunk)
           r3 == [r2 EXCEPT !.reading = FALSE]
       IN s' = IF r2.readAgain THEN TeePull(r3, None) ELSE r3

\* tee_chunk_microtask, where the chunk cannot be cloned for the second branch: both
\* branches are errored and the source is canceled.
CloneFails ==
    /\ Job("chunk", 0) /\ s.cloneForBranch2 /\ 2 \notin s.canceled
    /\ s' = SourceCancel(BranchError(BranchError(
                [Unparked EXCEPT !.cloneFailed = TRUE], 1), 2))

\* tee_closed_rejected.
ClosedRejected ==
    /\ Job("rejected", 0)
    /\ s' = ResolveUnlessBothCanceled(BranchError(BranchError(Rest, 1), 2))

-----------------------------------------------------------------------------
NewBranch ==
    [state |-> "readable", queue |-> <<>>, waiting |-> 0, started |-> FALSE,
     pulling |-> FALSE, pullAgain |-> FALSE, closeRequested |-> FALSE,
     reads |-> 0, accepted |-> <<>>]

\* TeeState::new.
NewTee(state, clone) ==
    [src |-> [state |-> state, queue |-> <<>>, request |-> FALSE,
              closeRequested |-> state = "closed", canceled |-> FALSE],
     b |-> [i \in Branches |-> NewBranch],
     cloneForBranch2 |-> clone, reading |-> FALSE, readAgain |-> FALSE,
     canceled |-> {}, cancelP |-> FALSE, pendingChunk |-> None,
     jobs |-> <<<<"start", 1>>, <<"start", 2>>>>,
     frames |-> <<>>, given |-> 0, taken |-> 0, cloneFailed |-> FALSE]

\* readable_stream_default_tee reacts to the reader's closed promise; the source may have
\* ended before.
Init == \E state \in {"readable", "closed", "errored"}, clone \in BOOLEAN :
    s = [NewTee(state, clone)
         EXCEPT !.jobs = @ \o (IF state = "errored" THEN <<<<"rejected", 0>>>> ELSE <<>>)]

Author ==
    \/ Give \/ CloseSource \/ ErrorSource \/ AuthorReturns
    \/ \E i \in Branches : ReadBranch(i) \/ CancelBranch(i)

Jobs ==
    \/ ChunkMicrotask \/ CloneFails \/ ClosedRejected
    \/ \E i \in Branches : Started(i) \/ Pulled(i)

Next == Author \/ Jobs

Spec == Init /\ [][Next]_s

-----------------------------------------------------------------------------
(* Properties.                                                             *)

FirstChunks(n) == [k \in 1..n |-> k]

\* Chunks that were taken from the source and are parked for the microtask.
Parked == IF s.pendingChunk = None THEN 0 ELSE 1

\* A branch that goes on gets every chunk that was taken from the source, in order and once;
\* a branch that ended got the first of them.  No chunk is parked over another one, and
\* none is taken that no branch is going to get.
BranchesSeeTheSame ==
    \A i \in Branches :
        /\ s.b[i].accepted = FirstChunks(Len(s.b[i].accepted))
        /\ CanCloseOrEnqueue(s, i) => Len(s.b[i].accepted) + Parked = s.taken
        /\ s.b[i].state = "closed" /\ i \notin s.canceled =>
               Len(s.b[i].accepted) = s.taken

Quiet == s.frames = <<>> /\ s.jobs = <<>>

\* When nothing is left to run: a branch that wants a chunk has a read waiting at the source;
\* and whoever canceled one branch has an answer if the other branch is over as well.  The
\* source is canceled only for two branches that were canceled, or for a failed clone.
TeeComesToRest ==
    /\ Quiet => /\ (\E i \in Branches : Wants(s, i)) => s.reading /\ s.src.request
                /\ (s.canceled # {} /\ \A i \in Branches : ~Readable(s, i)) => s.cancelP
    /\ s.src.canceled => s.canceled = Branches \/ s.cloneFailed

=============================================================================
