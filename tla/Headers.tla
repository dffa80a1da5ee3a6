------------------------------- MODULE Headers -------------------------------
(***************************************************************************)
(* Header lists and their guards: web-fetch/src/headers.rs, the header     *)
(* algorithms of algorithms.rs, and the constructors of Request and        *)
(* Response as far as they fill a header list.                             *)
(*                                                                         *)
(* A header is a name, the case its name is spelled in, and a value.  A    *)
(* value is a sequence of pieces joined by ", ", as combining makes them;  *)
(* of a piece the model keeps what the safelists look at.  The model       *)
(* follows one Headers object, and the ones that are made from it.         *)
(***************************************************************************)
EXTENDS Integers, Sequences, SequencesExt

CONSTANTS MaxList,      \* bound on the entries of a list
          MaxCombined,  \* pieces within the 128 bytes of a safelisted value
          Enforce       \* enforce_fetch_restrictions

VARIABLE h

-----------------------------------------------------------------------------
\* The names of the model in byte order.  "cookie" stands for every forbidden request header.
Names == <<"accept", "content-type", "cookie", "range", "set-cookie">>
Cases == {"lower", "upper"}
\* A piece of a value: of a content type its essence and a parameter matter, of an accept its
\* bytes, of the others nothing.
Pieces(name) ==
    CASE name = "content-type" -> {"plain", "plain;", "json", "unsafe"}
      [] name = "accept" -> {"plain", "unsafe"}
      [] OTHER -> {"plain"}

HasUnsafeByte(piece) == piece = "unsafe"
HasSemicolon(piece) == piece = "plain;"
SafeEssence(piece) == piece \in {"plain", "plain;"}

Entry(name, case, piece) == [name |-> name, case |-> case, piece |-> piece]

IsForbiddenRequestHeader(name) == name \in {"cookie", "set-cookie"}
IsForbiddenResponseHeaderName(name) == name = "set-cookie"
IsNoCorsName(name) == name \in {"accept", "content-type"}
IsPrivilegedName(name) == name = "range"

-----------------------------------------------------------------------------
(* Header lists.                                                           *)

HasHeader(list, name) == \E i \in DOMAIN list : list[i].name = name

Matching(list, name) == SelectSeq(list, LAMBDA e : e.name = name)

\* get_header_for_name: the values in order, combined.
GetHeader(list, name) == LET m == Matching(list, name) IN [i \in DOMAIN m |-> m[i].piece]

\* append_a_header: in the spelling of the first match.
AppendAHeader(list, name, case, piece) ==
    LET m == Matching(list, name)
    IN Append(list, Entry(name, IF m = <<>> THEN case ELSE Head(m).case, piece))

DeleteHeader(list, name) == SelectSeq(list, LAMBDA e : e.name # name)

\* set_a_header: the first match takes the value, the others go.
SetAHeader(list, name, case, piece) ==
    IF ~HasHeader(list, name) THEN Append(list, Entry(name, case, piece))
    ELSE LET first == SelectInSeq(list, LAMBDA e : e.name = name)
         IN DeleteHeader(SubSeq(list, 1, first - 1), name)
              \o <<[list[first] EXCEPT !.piece = piece]>>
              \o DeleteHeader(SubSeq(list, first + 1, Len(list)), name)

\* sort_and_combine_a_header_list: by name; set-cookie is never combined.
Combined(list, name) ==
    LET values == GetHeader(list, name) IN
    CASE values = <<>> -> <<>>
      [] values # <<>> /\ name = "set-cookie" ->
           [i \in DOMAIN values |-> [name |-> name, value |-> <<values[i]>>]]
      [] OTHER -> <<[name |-> name, value |-> values]>>

SortAndCombine(list) == FlattenSeq([i \in DOMAIN Names |-> Combined(list, Names[i])])

-----------------------------------------------------------------------------
(* Safelists.                                                              *)

\* is_cors_safelisted_request_header of a combined value.  Its essence ends at its first
\* semicolon, and one with a joiner in it is no safelisted essence.
IsCorsSafelisted(name, value) ==
    /\ Len(value) <= MaxCombined
    /\ \A i \in DOMAIN value : ~HasUnsafeByte(value[i])
    /\ name = "content-type" =>
         SafeEssence(value[1]) /\ (Len(value) = 1 \/ HasSemicolon(value[1]))

IsNoCorsSafelisted(name, value) == IsNoCorsName(name) /\ IsCorsSafelisted(name, value)

\* Mutant: each value is judged alone.
SafelistedAfterAppend_Alone(name, existing, piece) == IsNoCorsSafelisted(name, <<piece>>)

\* is_no_cors_safelisted_request_header_after_append: the same of what an append would make,
\* from the two parts.
SafelistedAfterAppend(name, existing, piece) ==
    IF existing = <<>> THEN IsNoCorsSafelisted(name, <<piece>>)
    ELSE /\ IsNoCorsName(name)
         /\ Len(existing) + 1 <= MaxCombined
         /\ ~HasUnsafeByte(piece) /\ \A i \in DOMAIN existing : ~HasUnsafeByte(existing[i])
         /\ name = "content-type" =>
              LET semi == SelectInSeq(existing, HasSemicolon)
              IN semi = 1 /\ SafeEssence(existing[1])

-----------------------------------------------------------------------------
(* Headers objects.                                                        *)

\* Every mutable access to the list drops what was cached (CachedHeaderList::deref_mut).
WithList(o, list) == [o EXCEPT !.list = list, !.cached = FALSE, !.cache = <<>>]

RemovePrivileged(o) ==
    IF o.guard = "request-no-cors" THEN WithList(o, DeleteHeader(o.list, "range")) ELSE o

\* validate_header_name for names and values that are well formed; an ill-formed one throws.
Immutable(o) == o.guard = "immutable"
Validates(o, name) ==
    ~(Enforce /\ \/ o.guard = "request" /\ IsForbiddenRequestHeader(name)
                 \/ o.guard = "response" /\ IsForbiddenResponseHeaderName(name))

\* append_to_headers.
AppendTo(o, e) ==
    IF \/ Immutable(o) \/ ~Validates(o, e.name)
       \/ /\ Enforce /\ o.guard = "request-no-cors"
          /\ ~SafelistedAfterAppend(e.name, GetHeader(o.list, e.name), e.piece)
      THEN o
      ELSE RemovePrivileged(WithList(o, AppendAHeader(o.list, e.name, e.case, e.piece)))

\* fill_headers.
Fill(o, entries) == FoldLeft(AppendTo, o, entries)

\* refill_headers_from_own_list: only what the guard filters.
Refill(o) ==
    IF ~Enforce THEN o
    ELSE LET keep(list, e) ==
               IF o.guard = "request"
                 THEN IF IsForbiddenRequestHeader(e.name) THEN list
                      ELSE AppendAHeader(list, e.name, e.case, e.piece)
                 ELSE IF SafelistedAfterAppend(e.name, GetHeader(list, e.name), e.piece)
                        THEN AppendAHeader(list, e.name, e.case, e.piece) ELSE list
         IN WithList(o, FoldLeft(keep, <<>>, o.list))

\* Headers::from_list.
FromList(list, guard) == [list |-> list, guard |-> guard, cached |-> FALSE, cache |-> <<>>]

\* Request steps 37.3, 37.4 and initialize_a_response 6.3: a body with a type names it, past
\* the guard.
WithBodyType(o) ==
    IF HasHeader(o.list, "content-type") THEN o
    ELSE WithList(o, Append(o.list, Entry("content-type", "upper", "plain;")))

-----------------------------------------------------------------------------
(* The actions.                                                            *)

Entries ==
    UNION {{Entry(name, case, piece) : case \in Cases, piece \in Pieces(name)} : name \in Range(Names)}

\* Lists a client may send, and what an author may fill with.
Lists == {<<>>} \cup {<<e>> : e \in Entries}

Room == Len(h.list) < MaxList

\* Headers.append().
AppendHeader ==
    /\ Room
    /\ \E e \in Entries : h' = AppendTo(h, e)

\* Headers.set().
SetHeader ==
    /\ ~Immutable(h)
    /\ \E e \in Entries :
         /\ Validates(h, e.name)
         /\ h.guard = "request-no-cors" => IsNoCorsSafelisted(e.name, <<e.piece>>)
         /\ HasHeader(h.list, e.name) \/ Room
         /\ h' = RemovePrivileged(WithList(h, SetAHeader(h.list, e.name, e.case, e.piece)))

\* Headers.delete(): nothing happens for a name that is not there.
DeleteName ==
    /\ ~Immutable(h)
    /\ \E i \in DOMAIN Names :
         LET name == Names[i] IN
         /\ Validates(h, name)
         /\ h.guard = "request-no-cors" => IsNoCorsName(name) \/ IsPrivilegedName(name)
         /\ HasHeader(h.list, name)
         /\ h' = RemovePrivileged(WithList(h, DeleteHeader(h.list, name)))

\* entries(), forEach() and the iterators read the sorted list, which is kept.
Iterate ==
    /\ ~h.cached
    /\ h' = [h EXCEPT !.cached = TRUE, !.cache = SortAndCombine(h.list)]

\* new Request(input, init): the list of a Request that is given as input is copied, ...
InputList(input) == IF input = "string" THEN <<>> ELSE h.list

\* ... the guard follows the mode, which is the input's when there is no init, ...
RequestGuard(noCors) == IF noCors /\ Enforce THEN "request-no-cors" ELSE "request"
InputIsNoCors(input) == input = "request" /\ h.guard = "request-no-cors"

\* ... and headers that come with a non-empty init, or in it, are sanitized.
InitHeaders(o, init, given) ==
    CASE init = "none" -> o
      [] init = "other" -> Refill(o)
      [] init = "headers" -> Fill(WithList(o, <<>>), given)

NewRequest ==
    \E input \in {"string", "request"}, noCors \in BOOLEAN, init \in {"none", "other", "headers"},
       bodyType \in BOOLEAN, given \in Lists :
        LET copied == FromList(InputList(input), RequestGuard(noCors))
            filled == InitHeaders(copied, init, given)
            o == IF bodyType THEN WithBodyType(filled) ELSE filled
        IN /\ init = "none" => ~bodyType /\ (noCors <=> InputIsNoCors(input))
           /\ init # "headers" => given = <<>>
           /\ Len(o.list) <= MaxList
           /\ h' = o

\* new Response(body, init), Response.json(): filled, then the body's type.
NewResponse ==
    \E given \in Lists, bodyType \in BOOLEAN :
        LET o == Fill(FromList(<<>>, "response"), given)
        IN h' = IF bodyType THEN WithBodyType(o) ELSE o

\* new Headers(init).
NewHeaders == \E given \in Lists : h' = Fill(FromList(<<>>, "none"), given)

\* Request::from_incoming, Response::redirect and a fetched response: what the transport sent, in
\* lower case.
FromTransport ==
    \E given \in Lists : h' = FromList([i \in DOMAIN given |-> [given[i] EXCEPT !.case = "lower"]],
                                       "immutable")

-----------------------------------------------------------------------------
Init == h = FromList(<<>>, "none")

Next ==
    \/ AppendHeader \/ SetHeader \/ DeleteName \/ Iterate
    \/ NewRequest \/ NewResponse \/ NewHeaders \/ FromTransport

Spec == Init /\ [][Next]_h

-----------------------------------------------------------------------------
\* A no-cors request only ever holds safelisted headers, judged by their combined values, in
\* whatever order they were appended, set, deleted, inherited or given a body type
\* (append_to_headers, refill_headers_from_own_list, is_no_cors_safelisted_request_header_after_append).
NoCorsStaysSafe ==
    h.guard = "request-no-cors" =>
        \A i \in DOMAIN Names :
            HasHeader(h.list, Names[i]) => IsNoCorsSafelisted(Names[i], GetHeader(h.list, Names[i]))

\* "If there are multiple matched headers their names will all be identical"
\* (append_a_header), and what iteration reads is the list as it is now (CachedHeaderList).
ListsAreConsistent ==
    /\ \A i, j \in DOMAIN h.list : h.list[i].name = h.list[j].name => h.list[i].case = h.list[j].case
    /\ h.cached => h.cache = SortAndCombine(h.list)

\* With restrictions, no operation adds a forbidden header to a request's list or changes one
\* that it inherited from the transport (validate_header_name, refill_headers_from_own_list).
ForbiddenStaysOut ==
    Enforce /\ h'.guard = "request" =>
        \A n \in {"cookie", "set-cookie"} :
            Matching(h'.list, n) \in {<<>>, Matching(h.list, n)}

=============================================================================
