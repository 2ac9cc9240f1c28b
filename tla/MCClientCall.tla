---------------------------- MODULE MCClientCall ----------------------------
(* Instances of ClientCall for TLC. *)
EXTENDS ClientCall

(* Fewer than none, one, more than maxBackoffShift, and the largest int. *)
SomeRetryMaxes == {-1, 1, 4, MaxInt}

SomeRetryCodes ==
    {{}, {"InvalidArgument"}, {"Unavailable", "DeadlineExceeded"}, {"Unauthenticated"}}
=============================================================================
