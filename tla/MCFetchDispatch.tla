--------------------------- MODULE MCFetchDispatch ---------------------------
(* FetchDispatch for TLC.                                                  *)
EXTENDS FetchDispatch
CONSTANTS A, B, X, N
MCRequests == {A, B}
MCResponses == {X, N}
MCOnlyA == {A}
MCOnlyB == {B}
MCNull == {N}
MCOnlyX == {X}

=============================================================================
