---------------------------- MODULE MCServerChain ----------------------------
(* Instances of ServerChain for TLC: the chain of cmd/server/main.go, the    *)
(* one of internal/server/doc.go, the one of                                 *)
(* internal/server/interceptor/doc.go, one with every interceptor, one with  *)
(* Logging outside Recovery, one without Recovery, and two in orders that no *)
(* document shows.                                                           *)
EXTENDS ServerChain

MainChain  == <<"RequestID", "Recovery", "Logging">>
DocChain   == <<"Recovery", "Logging", "Auth", "RateLimit">>
UsageChain == <<"Recovery", "Logging", "RequestID", "Auth", "Validation", "RateLimit">>
FullChain  == <<"RequestID", "Recovery", "Logging", "Auth", "RateLimit", "Validation">>
OuterChain == <<"RequestID", "Logging", "Recovery", "Auth">>
BareChain  == <<"Logging">>
LateChain  == <<"Auth", "Recovery", "RateLimit", "Logging", "RequestID">>
LastChain  == <<"Validation", "Logging", "RequestID", "Recovery">>

AllChains ==
    {MainChain, DocChain, UsageChain, FullChain, OuterChain, BareChain, LateChain, LastChain}
==============================================================================
