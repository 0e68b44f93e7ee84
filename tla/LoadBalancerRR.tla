--------------------------- MODULE LoadBalancerRR ---------------------------
(***************************************************************************)
(* LoadBalancerRR of loadbalancer.h: round robin over min..max with one     *)
(* atomic int that is incremented forever.  retain() is one fetch_add, so   *)
(* calls from several threads interleave as whole steps; the int wraps at   *)
(* Width bits and % is C's, which truncates towards zero.                   *)
(***************************************************************************)
EXTENDS Integers, FiniteSets

CONSTANTS
    Width,       \* bits of an int (32)
    Ranges,      \* the pairs <<min, max>> setup() is called with
    MaxRetains   \* bound: retain() calls after a setup()

IntMax  == 2 ^ (Width - 1) - 1

ASSUME BalancerAssumption ==
    /\ Width \in Nat \ {0} /\ MaxRetains \in Nat
    /\ IntMax \in Nat
    /\ \A r \in Ranges : /\ r = <<r[1], r[2]>> /\ r[1] \in Nat /\ r[2] \in Nat
                         /\ r[1] <= r[2] /\ r[2] <= IntMax

VARIABLES
    min, mod,    \* _min, _mod
    next,        \* _next
    given,       \* what retain() returned since setup(), per value
    retains      \* how many calls that were

vars == <<min, mod, next, given, retains>>

\* Every value retain() could return: C's % may be negative.
Values == UNION {(r[1] - (r[2] - r[1])) .. r[2] : r \in Ranges}

TypeOK ==
    /\ min \in Nat /\ mod \in Nat \ {0}
    /\ next \in (- IntMax - 1) .. IntMax
    /\ given \in [Values -> Nat]
    /\ retains \in 0 .. MaxRetains

Wrap(n) == IF n > IntMax THEN n - 2 * (IntMax + 1) ELSE n

\* a % b of C, for b > 0.
CRem(a, b) == IF a >= 0 THEN a % b ELSE - ((- a) % b)

\* Mutant of SetUp: the upper bound is left out.
SetUp_ExcludesMax(r) ==
    /\ min' = r[1] /\ mod' = r[2] - r[1]
    /\ next' = r[1]
    /\ given' = [v \in Values |-> 0]
    /\ retains' = 0

\* Mutant of SetUp: the counter goes on from where it was.
SetUp_KeepsNext(r) ==
    /\ min' = r[1] /\ mod' = r[2] - r[1] + 1
    /\ next' = next
    /\ given' = [v \in Values |-> 0]
    /\ retains' = 0

SetUp(r) ==
    /\ min' = r[1] /\ mod' = r[2] - r[1] + 1
    /\ next' = r[1]
    /\ given' = [v \in Values |-> 0]
    /\ retains' = 0

\* setup() as it is called before the first retain().
Init == \E r \in Ranges :
    /\ min = r[1] /\ mod = r[2] - r[1] + 1
    /\ next = r[1]
    /\ given = [v \in Values |-> 0]
    /\ retains = 0

\* The value the next retain() returns.
Choice == min + CRem(next, mod)

\* Mutant of Retain: counted twice.
Retain_SkipsOne ==
    /\ retains < MaxRetains
    /\ given' = [given EXCEPT ![Choice] = @ + 1]
    /\ next' = Wrap(Wrap(next + 1) + 1)
    /\ retains' = retains + 1
    /\ UNCHANGED <<min, mod>>

Retain ==
    /\ retains < MaxRetains
    /\ given' = [given EXCEPT ![Choice] = @ + 1]
    /\ next' = Wrap(next + 1)
    /\ retains' = retains + 1
    /\ UNCHANGED <<min, mod>>

Next == Retain \/ \E r \in Ranges : SetUp(r)

Spec == Init /\ [][Next]_vars

\* retain() returns a value between the min and the max given to setup().
InRange == Choice \in min .. min + mod - 1

\* No worker is given two connections more than another.
Balanced ==
    \A v, w \in min .. min + mod - 1 : given[v] - given[w] <= 1
==============================================================================
