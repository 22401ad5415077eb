------------------------------ MODULE LossyLine ------------------------------
(***************************************************************************)
(* What an interface promises of its lines: each is a queue that loses     *)
(* items at any place, but neither repeats nor reorders nor invents them.  *)
(***************************************************************************)
EXTENDS Naturals, Sequences

CONSTANTS Lines, Items

VARIABLES pending,   \* what was put and has neither come out nor been lost
          received   \* what came out of each line

lvars == <<pending, received>>

Init ==
    /\ pending = [l \in Lines |-> <<>>]
    /\ received = [l \in Lines |-> <<>>]

Put(l, c) ==
    /\ pending' = [pending EXCEPT ![l] = Append(@, c)]
    /\ UNCHANGED received

Get(l) ==
    /\ pending[l] # <<>>
    /\ received' = [received EXCEPT ![l] = Append(@, Head(pending[l]))]
    /\ pending' = [pending EXCEPT ![l] = Tail(@)]

(* s is what is left of t when some of its items are lost. *)
LeftOf(s, t) ==
    \E f \in [1..Len(s) -> 1..Len(t)] :
        /\ \A i \in 1..Len(s) : s[i] = t[f[i]]
        /\ \A i \in 1 .. Len(s) - 1 : f[i] < f[i + 1]

Lose ==
    /\ \A l \in Lines : LeftOf(pending'[l], pending[l])
    /\ UNCHANGED received

Next == Lose \/ \E l \in Lines : Get(l) \/ \E c \in Items : Put(l, c)

Spec == Init /\ [][Next]_lvars
=============================================================================
