------------------------------ MODULE FetchCall ------------------------------
(***************************************************************************)
(* One call of fetch(): web-fetch/src/globals.rs, the fetch algorithms of  *)
(* algorithms.rs, the redirect loop of transport.rs, the response built    *)
(* from the platform's (response.rs), and the abort of a call (abort.rs).  *)
(*                                                                         *)
(* A URL is its origin.  The requester's own origin is "home"; a runtime   *)
(* without a location restricts nothing, as if ~s.enforce.  Of the         *)
(* request's headers the model keeps whether the credentials ones and the  *)
(* ones that describe the body are there.  The server answers anything.    *)
(*                                                                         *)
(* The transport's future is done in one step and its promise settled in   *)
(* another: what settles before it in the same turn of the loop may run    *)
(* author code, and the future is then where an abort does not find it.    *)
(* Nor is it found by author code that the poll of another future runs,    *)
(* for a poll takes all of them out of the sets that are looked through.   *)
(*                                                                         *)
(* s.sent, s.given, s.invoked and s.late are history.                      *)
(***************************************************************************)
EXTENDS Integers, Sequences, SequencesExt

CONSTANTS MaxRedirects,  \* the code's 20
          Origins        \* "home" and others

VARIABLE s

Current(r) == Last(r.urls)
IsRedirect(status) == status \in {301, 303, 307}

\* How an answer's Location reads: absent, more than one, not a URL, not HTTP, with
\* credentials in it, or an origin.
Locations == {"absent", "many", "invalid", "scheme", "credentials"} \cup Origins

-----------------------------------------------------------------------------
(* The abort algorithm.                                                    *)

\* register_fetch_abort.
RegisterFetchAbort(r) == [r EXCEPT !.algorithm = TRUE]

\* AbortFetchState::detach.
Detach(r) == [r EXCEPT !.algorithm = FALSE, !.abortResponse = FALSE]

\* AbortFetchState::deliver: kept only while an abort could act on the response.
Deliver(r) ==
    IF r.responseBody = "unread" THEN [r EXCEPT !.abortResponse = TRUE] ELSE Detach(r)

\* A promise settles once.
Settle(r, how) == IF r.promise = "pending" THEN [r EXCEPT !.promise = how] ELSE r

\* Response::abort_body: the unread host body is dropped, which closes the connection.
AbortBody(r) == [r EXCEPT !.responseBody = IF @ \in {"unread", "streaming"} THEN "aborted" ELSE @,
                          !.connection = FALSE]

\* abort_fetch: the promise, the request's body and the response's body, in this order.
AbortFetch(r, hasResponse) ==
    LET rejected == [Settle(r, "aborted") EXCEPT !.requestDisturbed = TRUE]
    IN IF hasResponse THEN AbortBody(rejected) ELSE rejected

\* cancel_pending_future: a future that is done, or held by a poll, is not among those it looks
\* through.
InFlight(r) == r.future \in {"spawned", "sending"}
CancelPendingFuture(r, held) ==
    IF InFlight(r) /\ ~held
    THEN [r EXCEPT !.future = "none", !.connection = FALSE] ELSE r

\* Mutant: the response was delivered, but the algorithm forgot it.
OnAbort_PromiseOnly(r, held) == Detach(AbortFetch(CancelPendingFuture(r, held), FALSE))

\* on_abort: the transport's future is dropped first, with the request's body it owns.
OnAbort(r, held) == Detach(AbortFetch(CancelPendingFuture(r, held), r.abortResponse))

-----------------------------------------------------------------------------
(* transport.rs: the origin and mode switch, the redirect loop.            *)

\* A hop to another origin, or after one, is no longer "basic".
Tainted(r) ==
    CASE r.tainting = "basic" /\ Current(r) = "home" -> "basic"
      [] r.mode = "cors" -> "cors"
      [] OTHER -> "opaque"

\* apply_main_fetch_switch: may this hop proceed.
SwitchAllows(r) ==
    \/ ~r.enforce
    \/ r.tainting = "basic" /\ Current(r) = "home"
    \/ r.mode = "cors"
    \/ r.mode = "no-cors" /\ r.redirect = "follow"

ApplyMainFetchSwitch(r) == IF r.enforce THEN [r EXCEPT !.tainting = Tainted(r)] ELSE r

\* The body of an attempt: bytes are kept for another one, a stream is used up.
Attempt(r) ==
    [r EXCEPT !.sent = Append(@, [origin |-> Current(r), method |-> r.method, body |-> r.body,
                                  credentials |-> r.credentials, describes |-> r.describes]),
              !.body = IF @ = "stream" THEN "consumed" ELSE @,
              !.connection = TRUE,
              !.future = "sending"]

\* The future is done, with the status of the platform's response or an error.
NoResponse == 0
Done(r, status) ==
    [r EXCEPT !.future = "done", !.status = status, !.connection = @ /\ status # NoResponse]

\* The next hop, or the switch's refusal.
SendHop(r) ==
    IF SwitchAllows(r) THEN Attempt(ApplyMainFetchSwitch(r)) ELSE Done(r, NoResponse)

\* Mutant: a stream that was used up is sent again.
CanFollow_Replays(r, status, location) ==
    /\ location \in Origins \cup {"credentials"}
    /\ Len(r.urls) <= MaxRedirects
    /\ ~(r.mode = "cors" /\ location = "credentials")

\* Steps 3 to 11 of HTTP-redirect fetch: whether the redirect can be followed at all.
CanFollow(r, status, location) ==
    /\ location \in Origins \cup {"credentials"}
    /\ Len(r.urls) <= MaxRedirects
    /\ ~(r.mode = "cors" /\ location = "credentials")
    /\ ~(status # 303 /\ r.body = "consumed")

\* Step 12: the method and body of the next request.
Rewritten(r, status) ==
    IF \/ status = 301 /\ r.method = "POST"
       \/ status = 303 /\ r.method \notin {"GET", "HEAD"}
      THEN [r EXCEPT !.method = "GET", !.body = "empty", !.describes = FALSE]
      ELSE r

\* Mutant: the next origin is compared with the requester's.
Stripped_FromHome(r, to) == [r EXCEPT !.credentials = @ /\ to = "home"]

\* Step 13: the first change of origin takes the credentials away.
Stripped(r, to) == [r EXCEPT !.credentials = @ /\ to = Current(r)]

Followed(r, status, location) ==
    LET to == IF location = "credentials" THEN Current(r) ELSE location
        next == Stripped(Rewritten(r, status), to)
    IN SendHop([next EXCEPT !.urls = Append(@, to), !.connection = FALSE])

-----------------------------------------------------------------------------
(* The response.                                                           *)

\* response_from_platform: what the caller may see of the platform's response.
FilteredType(r, status) ==
    CASE r.enforce /\ r.redirect = "manual" /\ IsRedirect(status) -> "opaqueredirect"
      [] r.tainting = "opaque" -> "opaque"
      [] OTHER -> "basic"

\* The promise resolves with it.  A filtered response, and one without a body, drops the
\* platform's, which closes the connection.
ResponseFromPlatform(r, status) ==
    LET type == FilteredType(r, status)
        hasBody == type = "basic" /\ r.method # "HEAD" /\ status # 204
    IN Settle(Deliver([r EXCEPT !.future = "none", !.response = type,
                                !.responseBody = IF hasBody THEN "unread" ELSE "null",
                                !.connection = hasBody]), "fulfilled")

\* A network error: a TypeError.
NetworkError(r) == Detach(Settle([r EXCEPT !.future = "none"], "failed"))

\* One turn of send_following_redirects after the platform's answer.
Answered(r, status, location) ==
    CASE ~IsRedirect(status) -> Done(r, status)
      [] IsRedirect(status) /\ r.redirect = "manual" -> Done(r, status)
      [] IsRedirect(status) /\ r.redirect = "error" -> Done(r, NoResponse)
      [] IsRedirect(status) /\ r.redirect = "follow" /\ location = "absent" -> Done(r, status)
      [] OTHER -> IF CanFollow(r, status, location) THEN Followed(r, status, location)
                  ELSE Done(r, NoResponse)

-----------------------------------------------------------------------------
(* The actions.                                                            *)

Pending == [s EXCEPT !.promise = "pending"]

\* fetch() without an event loop, or with an input that makes no Request.
FetchRejects ==
    /\ s.promise = "none"
    /\ s' = Settle(Pending, "failed")

\* The signal aborted before.
FetchAborted ==
    /\ s.promise = "none" /\ s.signal
    /\ s' = AbortFetch(Pending, FALSE)

\* The URLs that are no HTTP: a data: URL may be unreadable.
Schemes == {"http", "data", "unreadable", "other"}

\* scheme fetch answers a data: URL itself.
SchemeFetch(scheme) == IF scheme = "data" THEN "response" ELSE "networkError"

MainFetch(scheme) ==
    CASE scheme = "http" -> "network"
      [] scheme \in {"data", "unreadable"} -> SchemeFetch(scheme)
      [] scheme = "other" -> "networkError"

\* fetch() starts: the abort algorithm is registered, and main fetch says how to go on.
Starts(outcome) ==
    /\ s.promise = "none" /\ ~s.signal
    /\ \E scheme \in Schemes : MainFetch(scheme) = outcome

FetchRefuses ==
    /\ Starts("networkError")
    /\ s' = NetworkError(RegisterFetchAbort(Pending))

\* A data: URL; HEAD takes the body away.
FetchData ==
    /\ Starts("response")
    /\ LET r == [RegisterFetchAbort(Pending) EXCEPT
                    !.response = "basic", !.responseBody = IF s.method = "HEAD" THEN "null" ELSE "bytes"]
       IN s' = Settle(Deliver(r), "fulfilled")

\* platform_request: the body goes to the transport.  Its length is told when it is known.
PlatformRequest(r) == [r EXCEPT !.requestDisturbed = r.body # "empty"]

\* HTTP: the transport's future is spawned on the promise.
FetchSpawns ==
    /\ Starts("network")
    /\ s' = [PlatformRequest(RegisterFetchAbort(Pending)) EXCEPT !.future = "spawned"]

Fetch == FetchRejects \/ FetchAborted \/ FetchRefuses \/ FetchData \/ FetchSpawns

\* The loop polls the future for the first time.
FirstSend ==
    /\ s.future = "spawned"
    /\ s' = SendHop(s)

ServerAnswers ==
    /\ s.future = "sending"
    /\ \/ \E status \in {200, 204} : s' = Answered(s, status, "absent")
       \/ \E status \in {301, 303, 307}, location \in Locations : s' = Answered(s, status, location)

TransportFails ==
    /\ s.future = "sending"
    /\ s' = Done(s, NoResponse)

\* The promise of a future that is done settles, also if an abort has rejected it already.
SettleFuture ==
    /\ s.future = "done"
    /\ s' = IF s.status = NoResponse THEN NetworkError(s) ELSE ResponseFromPlatform(s, s.status)

\* controller.abort() on the request's signal, while a poll holds the futures or not.
SignalAborts ==
    /\ ~s.signal
    /\ LET aborted == [s EXCEPT !.signal = TRUE] IN
       \/ ~s.algorithm /\ s' = aborted
       \/ /\ s.algorithm
          /\ \E held \in BOOLEAN :
                /\ held => InFlight(s)
                /\ s' = [OnAbort(aborted, held) EXCEPT !.invoked = TRUE,
                                                       !.late = held \/ s.future = "done"]

\* The author, who got the response, asks for the body's stream, or reads all of it, which
\* detaches the algorithm.
OpenStream ==
    /\ s.promise = "fulfilled" /\ s.responseBody = "unread"
    /\ s' = [s EXCEPT !.responseBody = "streaming"]

ConsumeBody ==
    /\ s.promise = "fulfilled" /\ s.responseBody = "unread"
    /\ s' = [Detach(s) EXCEPT !.responseBody = "consumed"]

\* The last byte arrives.
BodyEnds ==
    /\ s.responseBody \in {"streaming", "consumed"} /\ s.connection
    /\ s' = [s EXCEPT !.connection = FALSE,
                      !.responseBody = IF @ = "streaming" THEN "ended" ELSE @]

-----------------------------------------------------------------------------
\* What the constructor of Request lets through: a body has a method for it, a streamed body and
\* an unusual method are not for no-cors mode.
BodyAllowed(method, body) == method \in {"GET", "HEAD"} => body = "empty"
StreamAllowed(mode, body) == mode = "no-cors" => body # "stream"
MethodAllowed(mode, method) == mode = "no-cors" => method # "PUT"

\* The request that the constructor makes of a string or another request, and of its options:
\* mode and redirect are what the options say, or the other request, or their defaults.
NewRequests(enforce) ==
    {q \in [mode : {"cors", "no-cors", "same-origin"}, redirect : {"follow", "error", "manual"},
            method : {"GET", "HEAD", "POST", "PUT"}, body : {"empty", "bytes", "stream"}] :
        /\ BodyAllowed(q.method, q.body)
        /\ enforce => StreamAllowed(q.mode, q.body) /\ MethodAllowed(q.mode, q.method)}

\* A body describes itself; the signal may have aborted before.
Init ==
    \E enforce \in BOOLEAN, first \in Origins, signal \in BOOLEAN : \E q \in NewRequests(enforce) :
        s = [enforce |-> enforce, mode |-> q.mode, redirect |-> q.redirect, method |-> q.method,
             body |-> q.body, credentials |-> TRUE, describes |-> q.body # "empty",
             urls |-> <<first>>, tainting |-> "basic", sent |-> <<>>, given |-> q.body,
             promise |-> "none", future |-> "none", status |-> NoResponse, connection |-> FALSE,
             response |-> "none", responseBody |-> "none", requestDisturbed |-> FALSE,
             signal |-> signal, algorithm |-> FALSE, abortResponse |-> FALSE,
             invoked |-> FALSE, late |-> FALSE]

Next ==
    \/ Fetch \/ FirstSend \/ ServerAnswers \/ TransportFails \/ SettleFuture
    \/ SignalAborts \/ OpenStream \/ ConsumeBody \/ BodyEnds

Spec == Init /\ [][Next]_s

-----------------------------------------------------------------------------
Hops == DOMAIN s.sent

\* Credentials given for one origin never reach another one, nor come back after the call left
\* its origin, whichever way the redirects go (send_following_redirects step 13).
CredentialsStay ==
    \A i \in Hops : s.sent[i].credentials => \A j \in 1..i : s.sent[j].origin = s.sent[1].origin

\* With the restrictions enforced: a same-origin request never leaves home, the redirect limit
\* holds, and a no-cors response that was anywhere else shows nothing of itself
\* (apply_main_fetch_switch run per hop, response_from_platform).
TaintSticks ==
    /\ Len(s.sent) <= MaxRedirects + 1
    /\ s.enforce =>
         LET away == \E i \in Hops : s.sent[i].origin # "home" IN
         /\ s.mode = "same-origin" => ~away
         /\ s.mode = "no-cors" /\ away /\ s.response # "none" =>
              s.response \in {"opaque", "opaqueredirect"} /\ s.responseBody = "null"

\* Every request that is sent carries the body the call was given, whole, until the redirect
\* rules drop it together with the headers that describe it; a body that was used up is never
\* sent as if it were empty (body_is_stream, steps 11, 12 and 14).
BodyIsWhole ==
    \A i \in Hops :
        /\ s.sent[i].body \in {s.given, "empty"}
        /\ s.sent[i].body = "empty" /\ s.given # "empty" =>
             s.sent[i].method = "GET" /\ ~s.sent[i].describes
        /\ i > 1 => s.sent[i].body # "stream"

\* An abort takes hold as long as the promise is pending or the response's body untouched: the
\* promise has settled, nothing is in flight, and the connection is closed.  An abort that does
\* not find the transport's future still keeps the response from the author, whose promise is
\* rejected (register_fetch_abort, deliver, on_abort).
AbortTakesHold ==
    /\ s.promise = "pending" => s.algorithm
    /\ s.signal /\ s.promise # "none" => s.promise # "pending" /\ ~s.algorithm
    /\ s.signal /\ s.promise # "none" /\ ~s.late =>
         /\ s.future = "none"
         /\ s.invoked => ~s.connection /\ s.responseBody \notin {"unread", "streaming"}
    /\ s.late => s.promise = "aborted"

\* "dropping any unread host body, which closes the connection. Called by the `fetch` abort
\* algorithm": once an aborted call has nothing left to settle, its connection is closed.  This
\* does not hold: see README.md, Findings.
AbortClosesConnection == s.invoked /\ s.future = "none" => ~s.connection

=============================================================================
