-------------------------------- MODULE MCWeb --------------------------------
(***************************************************************************)
(* Web APIs and what they stand on, for TLC: events and abort signals,     *)
(* header lists, calls of fetch(), the owners of bodies and the bodies     *)
(* that the host gives, the module loader, and the pool of handles, which  *)
(* is extended since it has assumptions.  `kind' says which of the specifications a behaviour       *)
(* follows, and Kinds picks those of a run: "signals" is "events" with     *)
(* more calls and no timeouts, "listeners" with fewer signals and more     *)
(* listeners.  Careful keeps author code clear of the disagreements that   *)
(* the README tells of.                                                    *)
(***************************************************************************)
EXTENDS HandlePool

CONSTANTS Kinds, Careful

VARIABLES kind, s

E == INSTANCE Events WITH Controlled <- {"a"}, Timeouts <- {"t"}, Others <- {"d", "e"},
                          Callbacks <- {"f"}, MaxCalls <- 3
S == INSTANCE Events WITH Controlled <- {"a"}, Timeouts <- {}, Others <- {"d", "e"},
                          Callbacks <- {"f"}, MaxCalls <- 5
L == INSTANCE Events WITH Controlled <- {"a"}, Timeouts <- {}, Others <- {},
                          Callbacks <- {"f", "g"}, MaxCalls <- 5
H == INSTANCE Headers WITH h <- s, MaxList <- 3, MaxCombined <- 2, Enforce <- TRUE
F == INSTANCE FetchCall WITH MaxRedirects <- 2, Origins <- {"home", "away", "third"}
B == INSTANCE HostBody WITH Chunks <- 2, MaxReads <- 3
O == INSTANCE BodyOwners WITH MaxOwners <- 3, MaxCalls <- 6
M == INSTANCE ModuleLoader WITH Files <- {"main", "a"}, Entry <- "main", MaxModules <- 6,
                                MaxImports <- 2, MaxRealms <- 2

Init ==
    /\ kind \in Kinds /\ PoolInit
    /\ \/ kind = "events" /\ E!Init
       \/ kind = "signals" /\ S!Init
       \/ kind = "listeners" /\ L!Init
       \/ kind = "headers" /\ H!Init
       \/ kind = "fetch" /\ F!Init
       \/ kind = "host body" /\ B!Init
       \/ kind = "owners" /\ O!Init
       \/ kind = "modules" /\ M!Init
       \/ kind = "handles" /\ s = <<>>

ApiNext ==
    \/ kind = "events" /\ E!Next
    \/ kind = "signals" /\ S!Next
    \/ kind = "listeners" /\ L!Next
    \/ kind = "headers" /\ H!Next
    \/ kind = "fetch" /\ F!Next
    \/ kind = "host body" /\ B!Next
    \/ kind = "owners" /\ O!Next
    \/ kind = "modules" /\ M!Next

Next ==
    /\ UNCHANGED kind
    /\ \/ kind = "handles" /\ PoolNext /\ UNCHANGED s
       \/ ApiNext /\ UNCHANGED poolVars

Spec == Init /\ [][Next]_<<kind, s, poolVars>>

-----------------------------------------------------------------------------
(* Properties.  Each is about one of the specifications, and is stated     *)
(* there.                                                                  *)

\* Signals made by AbortSignal.any() are aborted with their sources and with their reason, as
\* every callback sees them, and the asserts of events and signals hold.
DependentsFollow ==
    /\ kind = "events" => E!DependentsFollow /\ E!EventAsserts
    /\ kind = "signals" => S!DependentsFollow /\ S!EventAsserts

\* A listener that was added with a signal is gone when the signal's abort steps are done, and
\* a once listener is called once.
ListenersFollow ==
    /\ kind = "events" => E!ListenersFollow
    /\ kind = "signals" => S!ListenersFollow
    /\ kind = "listeners" => L!ListenersFollow

\* A listener that is not in a list is not called, also when it was removed in the middle of
\* the dispatch.
OnlyListenersAreCalled ==
    [][kind = "listeners" =>
         \A id \in DOMAIN s.calls : s'.calls[id] # s.calls[id] => L!InList(L!Top(s).target, id)]_s

\* A no-cors request only holds safelisted headers, the spellings of a name are one, and what
\* is iterated is the list as it is. No forbidden header gets into the list of a request.
HeadersStaySafe ==
    /\ [](kind = "headers" => H!NoCorsStaysSafe /\ H!ListsAreConsistent)
    /\ [][kind = "headers" => H!ForbiddenStaysOut]_s

\* Credentials do not leave their origin, and what was tainted once is not shown.
OriginsKeptApart == kind = "fetch" => F!CredentialsStay /\ F!TaintSticks

\* Every request that is sent carries the whole body, or none that it describes.
BodyIsWhole == kind = "fetch" => F!BodyIsWhole

\* An abort takes hold as long as the promise is pending or the response's body untouched; what
\* is done by then, but not settled, does not reach the author.
AbortTakesHold == kind = "fetch" => F!AbortTakesHold

\* The bytes of a body from the host come out in order and once, nobody waits for them in vain,
\* and a stream that is over keeps no connection.
HostBodyServed == kind = "host body" => B!BytesOnce /\ B!NoReadHangs /\ B!Released

\* What a body holds is handed out once for each clone() and once more, however its owners
\* share and take it, and whoever is told that it was read or sent got all of it.
BodiesReadOnce == kind = "owners" => O!NoDocumentTwice /\ O!UsableIsWhole /\ O!NothingShort

\* "author code can no longer read from it": a body that is reserved for the response is not
\* read by anybody else.
ReservedIsSent == kind = "host body" => B!ReservedIsSent

\* A file is one module in a global, evaluated once, and modules of globals are kept apart.
OneInstance == kind = "modules" => M!OneInstance /\ M!OwnModules

=============================================================================
