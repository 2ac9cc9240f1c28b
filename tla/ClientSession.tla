---------------------------- MODULE ClientSession ----------------------------
(***************************************************************************)
(* What a Client promises its owner: a sequence of sessions.  A session is *)
(* a fresh connection, optionally under one health watch; the next session *)
(* starts only after the connection of the last one is closed, and a       *)
(* connection is closed only when nothing watches it.                      *)
(***************************************************************************)
EXTENDS Integers

VARIABLES current,   \* the session's connection, 0 if there is none
          opened,    \* connections opened so far
          watching   \* the connections under a health watch

vars == <<current, opened, watching>>

Init == current = 0 /\ opened = 0 /\ watching = {}

Open ==
    /\ current = 0
    /\ watching = {}
    /\ opened' = opened + 1
    /\ current' = opened + 1
    /\ UNCHANGED watching

Watch ==
    /\ current # 0
    /\ watching = {}
    /\ watching' = {current}
    /\ UNCHANGED <<current, opened>>

Unwatch ==
    /\ watching' = {}
    /\ UNCHANGED <<current, opened>>

Shut ==
    /\ watching = {}
    /\ current' = 0
    /\ UNCHANGED <<opened, watching>>

Next == Open \/ Watch \/ Unwatch \/ Shut

Spec == Init /\ [][Next]_vars
=============================================================================
