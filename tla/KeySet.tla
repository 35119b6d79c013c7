------------------------------- MODULE KeySet -------------------------------
(***************************************************************************)
(* What a multibit promises its users: a set of keys, and that each call   *)
(* changes exactly the keys it names.                                      *)
(***************************************************************************)
EXTENDS Naturals

CONSTANTS Keys,
          KeySets   \* the sets of keys a call may name: ranges and iterators

VARIABLES on,    \* the keys that are switched on
          call   \* the last call, and what it returned

Called(op, keys, ret) == [op |-> op, keys |-> keys, ret |-> ret]

Init == on = {} /\ call = Called("clear", {}, 0)

Clear == on' = {} /\ call' = Called("clear", {}, 0)

\* Returns whether the key was on before.
Set(k) ==
    /\ on' = on \cup {k}
    /\ call' = Called("set", {k}, IF k \in on THEN 1 ELSE 0)

Unset(S) == on' = on \ S /\ call' = Called("unset", S, 0)

InitRange(S) == on' = S /\ call' = Called("init_range", S, 0)

Next ==
    \/ Clear
    \/ \E k \in Keys : Set(k) \/ Unset({k})
    \/ \E S \in KeySets : Unset(S) \/ InitRange(S)

Spec == Init /\ [][Next]_<<on, call>>
=============================================================================
