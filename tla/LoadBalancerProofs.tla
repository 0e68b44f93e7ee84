------------------------- MODULE LoadBalancerProofs -------------------------
(***************************************************************************)
(* Proofs about LoadBalancerRR, for every width of the int, every range     *)
(* and any number of calls.  What the balancer promises is promised only    *)
(* as long as the counter stays positive (NoWrap): the run balancer_wrap    *)
(* shows what happens afterwards.                                           *)
(***************************************************************************)
EXTENDS LoadBalancerRR, TLAPS

\* The calls after a setup() do not take the counter beyond the largest int.
NoWrap == \A r \in Ranges : r[1] + MaxRetains <= IntMax

------------------------------------------------------------------------------
(* Lemmas about the remainder *)

LEMMA ProductGrows ==
    ASSUME NEW b \in Nat, NEW k \in Nat, k >= 1
    PROVE  b * k >= b
BY Z3

LEMMA RemBounds ==
    ASSUME NEW a \in Nat, NEW b \in Nat \ {0}
    PROVE  a % b \in 0 .. b - 1 /\ CRem(a, b) = a % b
BY DEF CRem

\* Quotient and remainder are unique.
LEMMA RemUnique ==
    ASSUME NEW b \in Nat \ {0}, NEW q \in Int, NEW r \in 0 .. b - 1,
           NEW p \in Int, NEW s \in 0 .. b - 1, b * q + r = b * p + s
    PROVE  r = s
BY Z3

\* The remainder counts up and starts over.
LEMMA RemSucc ==
    ASSUME NEW a \in Nat, NEW b \in Nat \ {0}
    PROVE  (a + 1) % b = IF (a % b) + 1 = b THEN 0 ELSE (a % b) + 1
<1> DEFINE q == a \div b
           r == a % b
           p == (a + 1) \div b
           s == (a + 1) % b
<1>1. /\ q \in Int /\ r \in 0 .. b - 1 /\ a = b * q + r
      /\ p \in Int /\ s \in 0 .. b - 1 /\ a + 1 = b * p + s
  BY Z3
<1>2. q + 1 \in Int /\ b * (q + 1) + 0 = b * q + b
  BY <1>1, Z3
<1> HIDE DEF q, r, p, s
<1>3. CASE r + 1 = b
  <2>1. b * (q + 1) + 0 = b * p + s
    BY <1>1, <1>2, <1>3
  <2>2. 0 \in 0 .. b - 1
    OBVIOUS
  <2>3. s = 0
    BY <1>1, <1>2, <2>1, <2>2, RemUnique
  <2>4. QED
    BY <1>3, <2>3 DEF r, s
<1>4. CASE r + 1 # b
  <2>1. r + 1 \in 0 .. b - 1
    BY <1>1, <1>4
  <2>2. b * q + (r + 1) = b * p + s
    BY <1>1, Z3
  <2>3. s = r + 1
    BY <1>1, <2>1, <2>2, RemUnique
  <2>4. QED
    BY <1>4, <2>3 DEF r, s
<1>5. QED
  BY <1>3, <1>4

------------------------------------------------------------------------------
(* The state *)

LEMMA InitTypeOK == Init => TypeOK
BY BalancerAssumption DEF Init, TypeOK

\* The counter stays an int: it wraps where the int does.
LEMMA WrapFits ==
    ASSUME NEW n \in (- IntMax - 1) .. IntMax
    PROVE  Wrap(n + 1) \in (- IntMax - 1) .. IntMax
BY BalancerAssumption DEF Wrap

LEMMA NextTypeOK == TypeOK /\ [Next]_vars => TypeOK'
<1> SUFFICES ASSUME TypeOK, [Next]_vars PROVE TypeOK'
  OBVIOUS
<1>1. CASE Retain
  <2>1. next' \in (- IntMax - 1) .. IntMax
    BY <1>1, WrapFits DEF Retain, TypeOK
  <2>2. given' \in [Values -> Nat]
    <3>1. PICK v : v = Choice
      OBVIOUS
    <3>2. given \in [Values -> Nat] /\ given' = [given EXCEPT ![v] = given[v] + 1]
      BY <1>1, <3>1 DEF Retain, TypeOK
    <3>3. CASE v \in Values
      BY <3>2, <3>3
    <3>4. CASE v \notin Values
      BY <3>2, <3>4
    <3>5. QED
      BY <3>3, <3>4
  <2>3. retains' \in 0 .. MaxRetains /\ min' \in Nat /\ mod' \in Nat \ {0}
    BY <1>1, BalancerAssumption DEF Retain, TypeOK
  <2>4. QED
    BY <2>1, <2>2, <2>3 DEF TypeOK
<1>2. ASSUME NEW r \in Ranges, SetUp(r) PROVE TypeOK'
  BY <1>2, BalancerAssumption DEF SetUp, TypeOK
<1>3. CASE UNCHANGED vars
  BY <1>3 DEF vars, TypeOK
<1>4. QED
  BY <1>1, <1>2, <1>3 DEF Next

\* The counter is always an int, whatever is retained and however often it wraps;
\* the tally of the values is a tally.
THEOREM TypeOKAlways == Spec => []TypeOK
BY InitTypeOK, NextTypeOK, PTL DEF Spec

------------------------------------------------------------------------------
(* The inductive invariant *)

\* The range is one of those set up, and the counter has run from its min on.
InStep == \E r \in Ranges : /\ min = r[1] /\ mod = r[2] - r[1] + 1
                            /\ next = r[1] + retains

\* The values from the first one given up to the next one, in the order of the turns,
\* have been given once more than the rest, which all have been given equally often.
Ahead(o) ==
    LET first == min % mod
        turn  == next % mod
    IN  IF first <= turn THEN first <= o /\ o < turn ELSE first <= o \/ o < turn

EqualRounds ==
    \E k \in Nat : \A o \in 0 .. mod - 1 : given[min + o] = IF Ahead(o) THEN k + 1 ELSE k

IInv == TypeOK /\ InStep /\ EqualRounds

LEMMA InitIInv == Init => IInv
<1> SUFFICES ASSUME Init PROVE IInv
  OBVIOUS
<1>1. TypeOK
  BY InitTypeOK
<1>2. PICK r \in Ranges : /\ min = r[1] /\ mod = r[2] - r[1] + 1
                          /\ next = r[1] /\ retains = 0
                          /\ given = [v \in Values |-> 0]
  BY DEF Init
<1>3. InStep
  BY <1>2, BalancerAssumption DEF InStep
<1>4. min .. min + mod - 1 \subseteq Values
  BY <1>2, BalancerAssumption DEF Values
<1>5. \A o \in 0 .. mod - 1 : given[min + o] = 0 /\ ~Ahead(o)
  BY <1>1, <1>2, <1>4 DEF Ahead, TypeOK
<1>6. EqualRounds
  BY <1>5 DEF EqualRounds
<1>7. QED
  BY <1>1, <1>3, <1>6 DEF IInv

\* A setup() starts the rounds afresh.
LEMMA SetUpIInv ==
    ASSUME TypeOK', NEW r \in Ranges, SetUp(r)
    PROVE  IInv'
<1>1. InStep'
  BY BalancerAssumption DEF InStep, SetUp
<1>2. min' .. min' + mod' - 1 \subseteq Values
  BY BalancerAssumption DEF Values, SetUp
<1>3. \A o \in 0 .. mod' - 1 : given'[min' + o] = 0 /\ ~Ahead(o)'
  BY <1>2 DEF SetUp, Ahead, TypeOK
<1>4. EqualRounds'
  BY <1>3 DEF EqualRounds
<1>5. QED
  BY <1>1, <1>4 DEF IInv

\* As long as the counter is positive, the next value is the one whose turn it is.
LEMMA ChoiceIs ==
    ASSUME IInv
    PROVE  /\ next \in Nat /\ next % mod \in 0 .. mod - 1 /\ min % mod \in 0 .. mod - 1
           /\ Choice = min + (next % mod)
           /\ min .. min + mod - 1 \subseteq Values
<1>1. PICK r \in Ranges : /\ min = r[1] /\ mod = r[2] - r[1] + 1
                          /\ next = r[1] + retains
  BY DEF IInv, InStep
<1>2. min \in Nat /\ mod \in Nat \ {0} /\ next \in Nat
  BY <1>1, BalancerAssumption DEF IInv, TypeOK
<1>3. min .. min + mod - 1 \subseteq Values
  BY <1>1, BalancerAssumption DEF Values
<1>4. QED
  BY <1>2, <1>3, RemBounds DEF Choice

\* retain() gives the value whose turn it is and passes the turn on; the last turn of
\* a round makes the tally even again.
LEMMA RetainIInv ==
    ASSUME NoWrap, IInv, TypeOK', Retain
    PROVE  IInv'
<1> DEFINE first == min % mod
           turn  == next % mod
<1>1. /\ next \in Nat /\ turn \in 0 .. mod - 1 /\ first \in 0 .. mod - 1
      /\ Choice = min + turn /\ min .. min + mod - 1 \subseteq Values
  BY ChoiceIs
<1>2. /\ min \in Nat /\ mod \in Nat \ {0} /\ given \in [Values -> Nat] /\ retains \in Nat
  BY DEF IInv, TypeOK
<1>3. /\ min' = min /\ mod' = mod /\ retains' = retains + 1 /\ retains < MaxRetains
      /\ given' = [given EXCEPT ![Choice] = @ + 1]
  BY DEF Retain
<1>4. next' = next + 1
  BY <1>1, <1>2, <1>3, BalancerAssumption DEF NoWrap, IInv, InStep, Retain, Wrap
<1>5. InStep'
  BY <1>1, <1>2, <1>3, <1>4, BalancerAssumption DEF IInv, InStep
<1>6. next' % mod' = IF turn + 1 = mod THEN 0 ELSE turn + 1
  BY <1>1, <1>2, <1>3, <1>4, RemSucc
<1>7. min' % mod' = first
  BY <1>3
<1>8. PICK k \in Nat : \A o \in 0 .. mod - 1 : given[min + o] = IF Ahead(o) THEN k + 1 ELSE k
  BY DEF IInv, EqualRounds
<1>9. \A o \in 0 .. mod - 1 :
         given'[min + o] = IF o = turn THEN given[min + o] + 1 ELSE given[min + o]
  BY <1>1, <1>2, <1>3
<1>10. \A o \in 0 .. mod - 1 :
          Ahead(o) <=> IF first <= turn THEN first <= o /\ o < turn ELSE first <= o \/ o < turn
  BY DEF Ahead
<1>11. \A o \in 0 .. mod - 1 :
          Ahead(o)' <=> IF first <= next' % mod' THEN first <= o /\ o < next' % mod'
                                               ELSE first <= o \/ o < next' % mod'
  BY <1>7 DEF Ahead
<1> HIDE DEF first, turn
<1>12. \A o \in 0 .. mod - 1 :
          given'[min + o] = IF Ahead(o) \/ o = turn THEN k + 1 ELSE k
  BY <1>1, <1>2, <1>8, <1>9, <1>10
<1>13. CASE next' % mod' = first
  <2>1. \A o \in 0 .. mod - 1 : (Ahead(o) \/ o = turn) /\ ~Ahead(o)'
    BY <1>1, <1>2, <1>6, <1>10, <1>11, <1>13
  <2>2. \A o \in 0 .. mod' - 1 : given'[min' + o] = IF Ahead(o)' THEN (k + 1) + 1 ELSE k + 1
    BY <1>3, <1>12, <2>1
  <2>3. QED
    BY <1>5, <2>2 DEF IInv, EqualRounds
<1>14. CASE next' % mod' # first
  <2>1. \A o \in 0 .. mod - 1 : ((Ahead(o) \/ o = turn) <=> Ahead(o)')
    BY <1>1, <1>2, <1>6, <1>10, <1>11, <1>14
  <2>2. \A o \in 0 .. mod' - 1 : given'[min' + o] = IF Ahead(o)' THEN k + 1 ELSE k
    BY <1>3, <1>12, <2>1
  <2>3. QED
    BY <1>5, <2>2 DEF IInv, EqualRounds
<1>15. QED
  BY <1>13, <1>14

LEMMA NextIInv == NoWrap /\ IInv /\ [Next]_vars => IInv'
<1> SUFFICES ASSUME NoWrap, IInv, [Next]_vars PROVE IInv'
  OBVIOUS
<1>1. TypeOK'
  BY NextTypeOK DEF IInv
<1>2. CASE Retain
  BY <1>1, <1>2, RetainIInv
<1>3. ASSUME NEW r \in Ranges, SetUp(r) PROVE IInv'
  BY <1>1, <1>3, SetUpIInv
<1>4. CASE UNCHANGED vars
  BY <1>4 DEF vars, IInv, TypeOK, InStep, EqualRounds, Ahead
<1>5. QED
  BY <1>2, <1>3, <1>4 DEF Next

LEMMA IInvAlways == ASSUME NoWrap PROVE Spec => []IInv
BY NoWrap, InitIInv, NextIInv, PTL DEF Spec

\* As long as the counter has not wrapped, retain() returns a value between the min
\* and the max given to setup(), whatever they are.
THEOREM InRangeAlways == ASSUME NoWrap PROVE Spec => []InRange
<1>1. IInv => InRange
  BY ChoiceIs DEF IInv, TypeOK, InRange
<1>2. QED
  BY <1>1, IInvAlways, PTL

\* As long as the counter has not wrapped, no value has been given more than once more
\* than another since the last setup(), from whichever threads retain() is called.
THEOREM BalancedAlways == ASSUME NoWrap PROVE Spec => []Balanced
<1>1. ASSUME IInv PROVE Balanced
  <2> SUFFICES ASSUME NEW v \in min .. min + mod - 1, NEW w \in min .. min + mod - 1
               PROVE  given[v] - given[w] <= 1
    BY DEF Balanced
  <2>1. PICK k \in Nat : \A o \in 0 .. mod - 1 : given[min + o] = IF Ahead(o) THEN k + 1 ELSE k
    BY <1>1 DEF IInv, EqualRounds
  <2>2. min \in Nat /\ mod \in Nat \ {0}
    BY <1>1 DEF IInv, TypeOK
  <2>3. /\ v - min \in 0 .. mod - 1 /\ min + (v - min) = v
        /\ w - min \in 0 .. mod - 1 /\ min + (w - min) = w
    BY <2>2
  <2>4. given[v] \in {k, k + 1} /\ given[w] \in {k, k + 1}
    BY <2>1, <2>3
  <2>5. QED
    BY <2>4
<1>2. QED
  BY <1>1, IInvAlways, PTL
==============================================================================
