------------------------------- MODULE ByteTee -------------------------------
(***************************************************************************)
(* ReadableStream.tee() of a byte stream                                   *)
(* (ByteTeeState in builtins/web-streams/src/readable/algorithms.rs).      *)
(*                                                                         *)
(* The source and the two branches are byte streams of ByteStream.tla, of  *)
(* which this module takes the operations.  The tee reads the source with  *)
(* a default reader, or with a BYOB reader into the buffer that a reader   *)
(* of a branch brought; to change from one to the other it releases its    *)
(* reader and gets a new one.  Readers are numbered: a reaction to the     *)
(* closed promise of one that was released must do nothing.                *)
(*                                                                         *)
(* A pull or cancel algorithm of a branch is the tee's and runs in the     *)
(* step that calls it.  Only the source's pull() and cancel() are author   *)
(* code: `under' keeps, for each of their frames, the branch whose         *)
(* algorithm called the source, and which goes on when they return.        *)
(* `jobs' are the tee's own jobs and the reactions of the branches, in     *)
(* the order in which they were queued.  Running out of memory, the one    *)
(* way in which cloning a chunk fails, is not modelled.                    *)
(*                                                                         *)
(* Careful authors do with a branch what ByteStream.tla asks of them: they *)
(* do not read with a default reader while a buffer whose reader left is   *)
(* first in line.                                                          *)
(***************************************************************************)
EXTENDS Integers, SequencesExt

CONSTANTS
    MaxReads,   \* bound on the reads from both branches
    MaxBytes,   \* bound on the bytes the source gives
    Views,      \* views that are read into, as in ByteStream.tla
    Careful     \* authors avoid what the asserts rule out, see above

VARIABLE s  \* ByteTeeState, the source, the branches, the jobs and the suspended calls

\* The operations of byte streams, all of which take the stream as a parameter.
B == INSTANCE ByteStream WITH AutoSizes <- {0}, HighWaterMarks <- {0}

Branches == {1, 2}
Other(i) == 3 - i
None == 0

Expect(t, cond) == [t EXCEPT !.ok = @ /\ cond]
Push(t, job) == [t EXCEPT !.jobs = Append(@, job)]
ResolveCancelPromise(t) == [t EXCEPT !.cancelP = TRUE]
ResolveUnlessBothCanceled(t) ==
    IF t.canceled = Branches THEN t ELSE ResolveCancelPromise(t)

-----------------------------------------------------------------------------
(* Steps of the tee's read requests.                                       *)

\* byte_tee_default_chunk_steps and byte_tee_byob_chunk_steps.
ChunkSteps(t, bytes) ==
    Push([Expect(t, t.parked.kind = "none") EXCEPT
             !.parked = [kind |-> t.src.reader, branch |-> t.target, bytes |-> bytes]],
         <<"chunk", None>>)

\* byte_tee_set_not_reading.
ErrorSteps(t) == [t EXCEPT !.reading = FALSE]

ErrorBranch(t, i) == [t EXCEPT !.b[i] = B!ControllerError(@)]

\* byte_tee_error_both_branches_and_cancel: the source is over whenever close steps fail.
ErrorBothAndCancel(t) ==
    ResolveCancelPromise(ErrorBranch(ErrorBranch(Expect(t, ~B!Readable(t.src)), 1), 2))

\* Responding without bytes, to a branch that is closed; it throws if the branch is not.
RespondNothing(t, i) ==
    [t EXCEPT !.b[i] = B!RespondInternal([@ EXCEPT !.pending[1].detached = FALSE], <<>>)]

CloseBranch(t, i) == [t EXCEPT !.b[i] = B!ControllerClose(@)]

\* One of the close steps, unless one before it threw: a branch that was not canceled is
\* closed, or answers the first of the buffers that wait.
SettleStep(acc, step) ==
    LET i == step[2]
        r == acc.tee.b[i]
        skip == acc.failed \/ IF step[1] = "close" THEN i \in acc.tee.canceled
                              ELSE r.pending = <<>>
        throws == IF step[1] = "close" THEN B!Insufficient(r) ELSE B!Readable(r)
    IN IF skip THEN acc
       ELSE [tee |-> IF step[1] = "close" THEN CloseBranch(acc.tee, i)
                     ELSE IF throws THEN acc.tee ELSE RespondNothing(acc.tee, i),
             failed |-> throws]

SettleAll(acc) ==
    IF acc.failed THEN ErrorBothAndCancel(acc.tee) ELSE ResolveUnlessBothCanceled(acc.tee)

\* The close steps of both kinds of request: branches are closed, in the order `first',
\* the other one, and then those of `answered' respond.  The first step that throws ends it,
\* and both branches are errored.
Settle(t, first, answered) ==
    LET order == <<first, Other(first)>>
        steps == [k \in {1, 2} |-> <<"close", order[k]>>]
                     \o [k \in {1, 2} |-> <<"answer", order[k]>>]
    IN SettleAll(FoldLeft(SettleStep, [tee |-> t, failed |-> FALSE],
                          SelectSeq(steps, LAMBDA step : step[1] = "answer" => step[2] \in answered)))

\* byte_tee_default_close_steps and byte_tee_byob_close_steps.  A canceled source gives no
\* view back with a read into a buffer, and nobody is answered.
CloseSteps(t) ==
    LET i == t.target
        default == t.src.reader = "default"
        canceled == t.src.cancel # "none"
        expected == default \/ canceled \/ i \in t.canceled \/ t.b[i].pending # <<>>
    IN Settle(Expect([t EXCEPT !.reading = FALSE], expected),
              IF default THEN 1 ELSE i,
              IF default THEN Branches ELSE IF canceled THEN {} ELSE Branches \ t.canceled)

-----------------------------------------------------------------------------
(* The source, as the tee calls it.                                        *)

\* The closed promise of the tee's reader is rejected.
ReaderFails(t) == Push(t, <<"rejected", t.readers>>)

\* The tee makes one read at a time: it is always the first of the source's record.
NewRequests(r) ==
    [r EXCEPT !.reads = 0, !.readP = [i \in B!Reads |-> "none"], !.got = [i \in B!Reads |-> <<>>]]

\* The steps of the tee's read request, when the source answered it.
Answered(t) ==
    LET answer == t.src.readP[1]
        t1 == [t EXCEPT !.src = NewRequests(@)]
    IN CASE answer = "chunk"    -> ChunkSteps([t1 EXCEPT !.taken = @ + Len(t.src.got[1])],
                                              t.src.got[1])
         [] answer = "done"     -> CloseSteps(t1)
         [] answer = "rejected" -> ErrorSteps(t1)
         [] OTHER               -> t

\* The loop in which an enqueue() of the source serves the tee's read.
ServeSource(t) ==
    LET turn(u, k) == IF u.src.frames # <<>> /\ B!Top(u.src).call = "serve"
                      THEN [u EXCEPT !.src = B!ServeTurn(@)] ELSE u
    IN FoldLeft(turn, t, <<1, 2>>)

AuthorFrames(t) == SelectSeq(t.src.frames, LAMBDA f : f.call # "serve")

\* What the call of a branch's algorithm returns to: the branch's controller.
Returned(t, i) ==
    IF i = None THEN t
    ELSE IF B!Top(t.b[i]).call = "cancel" THEN [t EXCEPT !.b[i] = B!CancelReturned(@)]
    ELSE Push([t EXCEPT !.b[i] = B!PullReturned(@)], <<"pulled", i>>)

\* The call that made an operation on the source goes on, unless author code runs first.
GoOn(t, i) ==
    IF Len(AuthorFrames(t)) > Len(t.under) THEN [t EXCEPT !.under = Append(@, i)]
    ELSE Returned(t, i)

\* The source after an operation on it, which made it `src': if it called author code, the
\* rest waits, and the branch `i' under it.
SourceIs(t, src, i) ==
    LET failed == src.state = "errored" /\ t.src.state # "errored"
        served == ServeSource([t EXCEPT !.src = src])
    IN GoOn(Answered(IF failed THEN ReaderFails(served) ELSE served), i)

\* The start of pull_with_default_reader and of pull_with_byob_reader: the reader that is
\* released rejects its closed promise, and the new one is watched from now on.
Switched(t, kind) ==
    [Expect(t, t.src.requests = <<>>) EXCEPT
        !.src = [B!ReleaseReader(@) EXCEPT !.reader = kind],
        !.readers = @ + 1,
        !.jobs = @ \o (IF B!Readable(t.src) THEN <<<<"rejected", t.readers>>>> ELSE <<>>)
                   \o (IF t.src.state = "errored" THEN <<<<"rejected", t.readers + 1>>>>
                       ELSE <<>>)]

SwitchReader(t, kind) == IF t.src.reader = kind THEN t ELSE Switched(t, kind)

\* The view of the byobRequest of a branch: what is left of its first buffer, in bytes.
RestOf(d) == [len |-> d.len - Len(d.filled), elem |-> 1, min |-> 1]

\* The rest of them: the source is asked, and the branch's buffer lent to it if it has one.
Lent(t, i) ==
    [t EXCEPT !.b[i].byob = TRUE, !.b[i].pending[1].detached = @ \/ t.src.state # "errored"]

ReadSource(t, i, caller) ==
    LET default == t.src.reader = "default" IN
    SourceIs(IF default THEN t ELSE Lent(t, i),
             IF default THEN B!DefaultReaderRead(t.src)
             ELSE B!ByobReaderRead(t.src, RestOf(Head(t.b[i].pending))),
             caller)

\* byte_tee_pull: demand that comes while a read is under way is remembered, for each branch.
\* `i' is the branch that brings the buffer, `caller' the one that called, if any.
TeePull(t, i, caller) ==
    IF t.reading THEN Returned([t EXCEPT !.again = @ \cup {i}], caller)
    ELSE ReadSource(SwitchReader([t EXCEPT !.reading = TRUE, !.target = i],
                                 IF t.b[i].pending = <<>> THEN "default" ELSE "byob"),
                    i, caller)

-----------------------------------------------------------------------------
(* The branches, as the tee and their readers call them.                   *)

\* What a branch does by itself after an operation: it serves reads, and pulls.
BranchTurn(t, i) ==
    LET frames == t.b[i].frames IN
    IF frames = <<>> \/ i \in ToSet(t.under) THEN t
    ELSE CASE B!Top(t.b[i]).call = "serve" -> [t EXCEPT !.b[i] = B!ServeTurn(@)]
           [] B!Top(t.b[i]).call = "pull"  -> TeePull(t, i, i)

BranchIs(t, i, branch) ==
    FoldLeft(LAMBDA u, k : BranchTurn(u, i), [t EXCEPT !.b[i] = branch], <<1, 2, 3, 4>>)

\* readable_byte_stream_controller_enqueue of a branch, which must not throw, and of what it
\* makes of the branch.
Enqueued(r, bytes) == IF B!Open(r) THEN B!ControllerEnqueue(r, bytes) ELSE r
MayBeEnqueued(r) == ~(B!Open(r) /\ r.pending # <<>> /\ Head(r.pending).detached)

\* readable_byte_stream_controller_respond_with_new_view of a branch, which must not throw
\* either: the branch still has the buffer in line, and room for the bytes.
Responded(r, bytes) == B!RespondInternal([r EXCEPT !.pending[1].detached = FALSE], bytes)
MayRespond(r, bytes) ==
    r.pending # <<>> /\ B!Readable(r) /\ Len(bytes) \in 1..RestOf(Head(r.pending)).len

\* byte_tee_cancel.
TeeCancel(t, i) ==
    LET t1 == [t EXCEPT !.canceled = @ \cup {i}] IN
    IF Other(i) \notin t.canceled THEN Returned(t1, i)
    ELSE IF ~B!Readable(t.src) THEN Returned(ResolveCancelPromise(t1), i)
    ELSE ResolveCancelPromise(SourceIs(t1, B!StreamCancel(t1.src), i))

-----------------------------------------------------------------------------
(* Author code: the source.                                                *)

SourceDoes(src) == s' = SourceIs(s, src, None)

Give(n) ==
    /\ n > 0 /\ B!MayEnqueue(s.src) /\ s.src.given + n <= MaxBytes
    /\ SourceDoes(B!ControllerEnqueue(s.src, B!NewBytes(s.src, n)))

\* byobRequest.respond(n): the tee's buffer is filled; or given back, when the source is closed.
Fill(n) ==
    /\ s.src.pending # <<>> /\ s.src.given + n <= MaxBytes
    /\ IF s.src.state = "closed" THEN n = 0 ELSE n \in 1..RestOf(Head(s.src.pending)).len
    /\ SourceDoes(B!RespondInternal(s.src, B!NewBytes(s.src, n)))

CloseSource ==
    /\ B!Open(s.src)
    /\ SourceDoes(B!ControllerClose(s.src))

ErrorSource ==
    /\ B!Readable(s.src)
    /\ SourceDoes(B!ControllerError(s.src))

\* The source's pull() or cancel() returns, and the calls it interrupted go on.
AuthorReturns ==
    /\ s.under # <<>>
    /\ LET src == IF B!Top(s.src).call = "pull" THEN B!PullReturned(s.src)
                  ELSE B!CancelReturned(s.src)
       IN s' = SourceIs([s EXCEPT !.under = Front(@)], src, Last(s.under))

\* The promise that the source's pull() returned is settled.
SourcePulled ==
    /\ s.src.frames = <<>> /\ s.src.pulls > 0
    /\ SourceDoes(B!AfterPull(s.src))

-----------------------------------------------------------------------------
(* Author code: whoever has the branches.                                  *)

MayRead == s.b[1].reads + s.b[2].reads < MaxReads

GetReader(i, kind) ==
    /\ s.b[i].reader = "none" /\ MayRead /\ B!Readable(s.b[i])
    /\ s' = [s EXCEPT !.b[i].reader = kind]

ReleaseLock(i) ==
    /\ s.b[i].reader # "none" /\ B!Readable(s.b[i])
    /\ s' = [s EXCEPT !.b[i] = B!ReleaseReader(@)]

LeftBehind(r) == r.pending # <<>> /\ Head(r.pending).reader = "none"

ReadBranch(i) ==
    /\ s.b[i].reader = "default" /\ MayRead /\ B!Readable(s.b[i])
    /\ Careful => ~LeftBehind(s.b[i])
    /\ s' = BranchIs(s, i, B!DefaultReaderRead(s.b[i]))

ReadBranchInto(i, view) ==
    /\ s.b[i].reader = "byob" /\ MayRead /\ B!Readable(s.b[i])
    /\ s' = BranchIs(s, i, B!ByobReaderRead(s.b[i], view))

CancelBranch(i) ==
    /\ B!Readable(s.b[i])
    /\ s' = TeeCancel([s EXCEPT !.b[i] = B!StreamCancel(@)], i)

-----------------------------------------------------------------------------
(* Jobs.                                                                   *)

Job(name, i) == s.src.frames = <<>> /\ s.jobs # <<>> /\ Head(s.jobs) = <<name, i>>
Rest == [s EXCEPT !.jobs = Tail(@)]

Started(i) ==
    /\ Job("start", i)
    /\ s' = BranchIs(Rest, i, B!AfterStart(s.b[i]))

Pulled(i) ==
    /\ Job("pulled", i)
    /\ s' = BranchIs(Rest, i, B!AfterPull(s.b[i]))

NothingParked == [kind |-> "none", branch |-> None, bytes |-> <<>>]
Unparked == [Rest EXCEPT !.parked = NothingParked, !.again = {}]

\* The end of both microtasks.
ReadAgain(t) ==
    IF t.again = {} THEN [t EXCEPT !.reading = FALSE]
    ELSE TeePull([t EXCEPT !.reading = FALSE], IF 1 \in t.again THEN 1 ELSE 2, None)

\* A branch that was not canceled gets the bytes, or its buffer back with the bytes in it.
HandOut(t, i, lent, bytes) ==
    LET r == t.b[i] IN
    IF i \in t.canceled THEN t
    ELSE IF ~(IF lent THEN MayRespond(r, bytes) ELSE MayBeEnqueued(r)) THEN Expect(t, FALSE)
    ELSE BranchIs(t, i, IF lent THEN Responded(r, bytes) ELSE Enqueued(r, bytes))

\* byte_tee_default_microtask.
DefaultMicrotask ==
    /\ Job("chunk", None) /\ s.parked.kind = "default"
    /\ LET give(t, i) == HandOut(t, i, FALSE, s.parked.bytes) IN
       s' = ReadAgain(FoldLeft(give, Unparked, <<1, 2>>))

\* byte_tee_byob_microtask: the branch that brought the buffer gets it back, the other one
\* a copy of what is in it.
ByobMicrotask ==
    /\ Job("chunk", None) /\ s.parked.kind = "byob"
    /\ LET i == s.parked.branch
           give(t, k) == HandOut(t, k, k = i, s.parked.bytes)
       IN s' = ReadAgain(FoldLeft(give, Unparked, <<i, Other(i)>>))

\* byte_tee_forward_rejected: a reader that was replaced has nothing to forward.
ReaderRejected(n) ==
    /\ Job("rejected", n)
    /\ s' = IF n # s.readers THEN Rest
            ELSE ResolveUnlessBothCanceled(ErrorBranch(ErrorBranch(Rest, 1), 2))

-----------------------------------------------------------------------------
\* create_readable_byte_stream: nothing is pulled for ahead of a read.
NewBranch == B!NewStream(0, 0)

\* ByteTeeState::new: the source is locked by a first reader, whose failure is forwarded.
NewTee(src) ==
    [src |-> [src EXCEPT !.reader = "default"], b |-> [i \in Branches |-> NewBranch],
     readers |-> 1, target |-> None, reading |-> FALSE, again |-> {},
     canceled |-> {}, cancelP |-> FALSE, parked |-> NothingParked,
     jobs |-> <<<<"start", 1>>, <<"start", 2>>>>
                 \o (IF src.state = "errored" THEN <<<<"rejected", 1>>>> ELSE <<>>),
     under |-> <<>>, taken |-> 0, ok |-> TRUE]

\* readable_byte_stream_tee: the source has started, and may be over.
Init == \E state \in {"readable", "closed", "errored"} :
    s = NewTee([B!NewStream(0, 0) EXCEPT !.state = state, !.start = "fulfilled",
                                         !.started = TRUE])

Author ==
    \/ \E n \in 0..MaxBytes : Fill(n) \/ Give(n)
    \/ CloseSource \/ ErrorSource \/ AuthorReturns \/ SourcePulled
    \/ \E i \in Branches :
           \/ ReadBranch(i) \/ CancelBranch(i) \/ ReleaseLock(i)
           \/ \E kind \in {"default", "byob"} : GetReader(i, kind)
           \/ \E view \in Views : ReadBranchInto(i, view)

Jobs ==
    \/ DefaultMicrotask \/ ByobMicrotask
    \/ \E i \in Branches : Started(i) \/ Pulled(i)
    \/ \E n \in 1..s.readers : ReaderRejected(n)

Next == Author \/ Jobs

Spec == Init /\ [][Next]_s

-----------------------------------------------------------------------------
(* Properties.                                                             *)

\* No assert or expect of the tee or of its three streams can fail: a branch that is given a
\* chunk or its buffer back can take it, and no reader is released with a read under way.
TeeAsserts == s.ok /\ s.src.ok /\ \A i \in Branches : s.b[i].ok

Numbers(n) == [k \in 1..n |-> k]
Got(r) ==
    LET reads == FlattenSeq([k \in 1..r.reads |-> r.got[k]])
        written == FlattenSeq([k \in DOMAIN r.pending |-> r.pending[k].filled])
    IN reads \o written \o FlattenSeq(r.queue)

\* A branch that goes on has every byte that was taken from the source, in order and once:
\* read, in a buffer of a reader or in its queue.  A branch that was closed had them all.
BranchesGetEveryByte ==
    \A i \in Branches :
        LET r == s.b[i] IN
        /\ B!Readable(r) /\ r.frames = <<>> => Got(r) = Numbers(r.given)
        /\ B!Readable(r) => r.given + Len(s.parked.bytes) = s.taken
        /\ r.state = "closed" /\ i \notin s.canceled => r.given = s.taken

Quiet == s.src.frames = <<>> /\ s.jobs = <<>>

\* A read into a buffer behind one that was left does not call pull(), and nobody may have.
Wants(r) == B!ShouldCallPull(r) /\ ~LeftBehind(r)

\* When nothing is left to run: a branch whose reads wait has a read waiting at the source, an
\* error of the source has reached both branches whichever reader met it, and whoever canceled
\* one branch has an answer if the other branch is over as well.
ByteTeeComesToRest ==
    Quiet =>
        /\ (\E i \in Branches : Wants(s.b[i])) =>
               s.reading /\ (s.src.requests # <<>> \/ ~B!Readable(s.src))
        /\ s.src.state = "errored" => \A i \in Branches : ~B!Readable(s.b[i])
        /\ (s.canceled # {} /\ \A i \in Branches : ~B!Readable(s.b[i])) => s.cancelP

\* Every read from a branch that closed has its answer.  There is one exception: if close
\* steps find that a buffer of the other branch ends inside an element, that branch is errored,
\* and reads into buffers of the branch that was closed first are never answered.
ClosedBranchesAnswer ==
    Quiet /\ ~s.reading =>
        \A i \in Branches :
            s.b[i].state = "closed" /\ s.b[Other(i)].state # "errored" =>
                \A k \in B!Reads : s.b[i].readP[k] # "pending"

=============================================================================
