---------------------------- MODULE Traffic_proofs ----------------------------
(***************************************************************************)
(* Proofs about what is on its way between the window, the services and    *)
(* the queue, for every value of the constants of WorkQueue, Endpoint,     *)
(* ConfigPoll and LivePush; the four modules share no state.               *)
(*                                                                         *)
(*  - The queue is well typed, and the weighted token of takeFairTurn()    *)
(*    hands out the share it is given up to one turn and the rounding of   *)
(*    its sums.  That is not inductive alone: the token must be a double   *)
(*    below 1, so that no sum is rounded to 2, and what it holds must be   *)
(*    added to the turns that were had.                                    *)
(*  - execute() starts with the query the client was given: the path is    *)
(*    the values one after another, as there is no first segment up to     *)
(*    which it is not, and the server takes it apart by the same pattern.  *)
(*  - Calls of latest() that do not overlap miss no change but one that is *)
(*    no JSON: what the caller keeps is that of the token, as the one call *)
(*    under way polls with that token, and an answer without a value       *)
(*    leaves the token standing for the same version.                      *)
(*  - A bridge with one connection left has the event of the other's end   *)
(*    before it; and the connection the window listens to was made for     *)
(*    the account it is signed in with, since the account never changes    *)
(*    without the socket.                                                  *)
(***************************************************************************)
EXTENDS WorkQueue, Endpoint, ConfigPoll, LivePush, SequenceTheorems,
        WellFoundedInduction, TLAPS

-----------------------------------------------------------------------------
(* The fair-share work queue                                               *)

\* What the fair queue has had and what it has saved is its share, up to the
\* rounding of one sum in each cycle.
TokenShare ==
  LET had == acc + turns * One - cycle * Weight
  IN  0 - cycle * Half <= had /\ had < One + cycle * Half

QueueInv == TypeOK /\ TokenShare

-----------------------------------------------------------------------------
(* Rounding                                                                *)

\* A set of numbers has a smallest one.
LEMMA Smallest ==
  ASSUME NEW S \in SUBSET Nat, S # {}
  PROVE  \E s \in S : \A r \in S : s <= r
<1>1. PICK s \in S : \A r \in S : ~(<<r, s>> \in OpToRel(<, Nat))
  BY NatLessThanWellFounded, WFMin
<1>2. ASSUME NEW r \in S PROVE s <= r
  <2>1. r \in Nat /\ s \in Nat /\ ~(r < s) BY <1>1 DEF OpToRel
  <2> QED BY ONLY <2>1
<1> QED BY <1>2

\* Around a number below 2 doubles are at most 2 * Half apart, and Half below 1.
LEMMA UlpIs ==
  ASSUME NEW n \in Nat, n < 2 * One
  PROVE  /\ Ulp(n) \in Spacings /\ n < Whole * Ulp(n)
         /\ Ulp(n) \in Nat \ {0} /\ Ulp(n) <= 2 * Half
         /\ n < One => Ulp(n) <= Half
<1> USE DoubleAssumption DEF One
<1> DEFINE S == {s \in Spacings : n < Whole * s}
<1>1. 2 * Half \in S
  <2>1. Whole * (2 * Half) = 2 * (Whole * Half) OBVIOUS
  <2> QED BY <2>1
<1>2. PICK s \in S : \A r \in S : s <= r
  <2>1. S \in SUBSET Nat OBVIOUS
  <2> HIDE DEF S
  <2> QED BY <1>1, <2>1, Smallest
<1>3. /\ Ulp(n) \in Spacings /\ n < Whole * Ulp(n)
      /\ \A r \in Spacings : n < Whole * r => Ulp(n) <= r
  BY <1>2 DEF Ulp
<1>4. Ulp(n) <= 2 * Half BY <1>1, <1>3
<1>5. n < One => Ulp(n) <= Half BY <1>3
<1> QED BY <1>3, <1>4, <1>5

\* Division with rest.
LEMMA Division ==
  ASSUME NEW n \in Nat, NEW u \in Nat \ {0}
  PROVE  n \div u \in Nat /\ n % u \in 0..(u - 1) /\ n = (n \div u) * u + (n % u)
OBVIOUS

\* A sum is rounded to a multiple of the distance there, half of it away at most.
LEMMA RoundIs ==
  ASSUME NEW n \in Nat, n < 2 * One
  PROVE  \E k \in Nat : /\ Round(n) = k * Ulp(n)
                        /\ 2 * (Round(n) - n) <= Ulp(n) /\ 2 * (n - Round(n)) <= Ulp(n)
                        /\ k = n \div Ulp(n) \/ (k = n \div Ulp(n) + 1 /\ n % Ulp(n) # 0)
<1> DEFINE u == Ulp(n)
<1> DEFINE k == n \div u
<1> DEFINE r == n % u
<1>1. u \in Nat \ {0} BY UlpIs
<1>2. k \in Nat /\ r \in 0..(u - 1) /\ n = k * u + r BY <1>1, Division
<1>3. CASE 2 * r > u \/ (2 * r = u /\ k % 2 = 1)
  <2>1. Round(n) = (k + 1) * u BY <1>3 DEF Round
  <2> HIDE DEF u, k, r
  <2>2. (k + 1) * u = k * u + u BY <1>1, <1>2
  <2>3. k * u \in Nat BY <1>1, <1>2
  <2>4. Round(n) - n = u - r BY <1>1, <1>2, <2>1, <2>2, <2>3
  <2>5. 2 * r >= u /\ r # 0 BY <1>1, <1>2, <1>3
  <2>6. 2 * (Round(n) - n) <= u /\ 2 * (n - Round(n)) <= u
    BY <1>1, <1>2, <2>1, <2>2, <2>3, <2>4, <2>5
  <2> QED BY <1>2, <2>1, <2>5, <2>6 DEF u, k, r
<1>4. CASE ~(2 * r > u \/ (2 * r = u /\ k % 2 = 1))
  <2>1. Round(n) = k * u BY <1>4 DEF Round
  <2> HIDE DEF u, k, r
  <2>3. k * u \in Nat BY <1>1, <1>2
  <2>4. n - Round(n) = r BY <1>1, <1>2, <2>1, <2>3
  <2>5. 2 * r <= u BY <1>1, <1>2, <1>4
  <2>6. 2 * (Round(n) - n) <= u /\ 2 * (n - Round(n)) <= u
    BY <1>1, <1>2, <2>1, <2>3, <2>4, <2>5
  <2> QED BY <1>2, <2>1, <2>6 DEF u, k, r
<1> QED BY <1>3, <1>4

\* Below 1 the next double is 1, or Half away from it at least.
LEMMA BelowOne ==
  ASSUME NEW n \in Nat, n < One
  PROVE  Round(n) \in 0..(One - Half) \cup {One}
<1> USE DoubleAssumption DEF One
<1>0. Whole * Half \in Nat /\ 2 * Half <= Whole * Half
  <2>1. (Whole - 2) * Half >= 0 OBVIOUS
  <2> QED BY <2>1
<1> DEFINE u == Ulp(n)
<1>1. u \in Spacings /\ u \in Nat \ {0} /\ n < Whole * u /\ u <= Half
  BY <1>0, UlpIs
<1>2. PICK k \in Nat : Round(n) = k * u /\ k <= n \div u + 1
  <2>1. PICK k \in Nat : Round(n) = k * u /\ (k = n \div u \/ k = n \div u + 1)
    BY <1>0, RoundIs
  <2>2. n \div u \in Nat BY <1>1, Division
  <2>3. k <= n \div u + 1 BY ONLY <2>1, <2>2
  <2> QED BY <2>1, <2>3
<1> HIDE DEF u
<1>3. k <= Whole
  <2>1. n \div u \in Nat /\ (n \div u) * u <= n
    <3>1. /\ n \div u \in Nat /\ n % u \in 0..(u - 1)
          /\ n = (n \div u) * u + (n % u)
      BY ONLY <1>1, Division
    <3>2. n % u \in Nat BY ONLY <1>1, <3>1
    <3>3. PICK d \in Nat, r \in Nat : d = n \div u /\ r = n % u BY ONLY <3>1, <3>2
    <3>4. d * u \in Nat BY ONLY <1>1, <3>3
    <3> QED BY ONLY <3>1, <3>3, <3>4
  <2>2. SUFFICES ASSUME n \div u >= Whole PROVE FALSE BY <1>2, <2>1
  <2>3. (n \div u - Whole) * u >= 0 BY <1>1, <2>1, <2>2
  <2> QED BY <1>1, <2>1, <2>3
<1>4. CASE u = Half
  <2>1. CASE k = Whole BY <1>2, <1>4, <2>1
  <2>2. CASE k <= Whole - 1
    <3>1. (Whole - 1 - k) * Half >= 0 BY <2>2
    <3>2. k * Half >= 0 OBVIOUS
    <3> QED BY <1>0, <1>2, <1>4, <3>1, <3>2
  <2> QED BY <1>2, <1>3, <2>1, <2>2
<1>5. CASE u < Half
  <2>1. 2 * u <= Half BY <1>1, <1>5
  <2>2. k * u >= 0 /\ (Whole - k) * u >= 0 BY <1>1, <1>3
  <2>3. k * u <= Whole * u BY <1>1, <2>2
  <2>4. Whole * (Half - 2 * u) >= 0 BY <1>1, <2>1
  <2>5. 2 * (Whole * u) <= Whole * Half BY <1>1, <2>4
  <2> QED BY <1>0, <1>1, <1>2, <2>2, <2>3, <2>5
<1> QED BY <1>1, <1>4, <1>5

\* A sum of two doubles below 1 is rounded to a double that is 1 - Half more than 1
\* at most, by Half at most.
LEMMA SumIs ==
  ASSUME NEW a \in 0..(One - Half), NEW w \in 0..(One - Half)
  PROVE  /\ Round(a + w) \in Nat
         /\ Round(a + w) >= One => Round(a + w) - One \in 0..(One - Half)
         /\ Round(a + w) < One => Round(a + w) \in 0..(One - Half)
         /\ Round(a + w) - (a + w) <= Half /\ (a + w) - Round(a + w) <= Half
<1> USE DoubleAssumption
<1> DEFINE n == a + w
           u == Ulp(n)
<1>0. One \in Nat /\ One = Whole * Half /\ 2 * Half <= One
  <2>1. (Whole - 2) * Half >= 0 OBVIOUS
  <2> QED BY <2>1 DEF One
<1>1. n \in Nat /\ n <= 2 * One - 2 * Half /\ n < 2 * One BY <1>0
<1> HIDE DEF n
<1>2. u \in Spacings /\ u \in Nat \ {0} /\ n < Whole * u /\ u <= 2 * Half
  BY <1>1, UlpIs
<1>3. PICK k \in Nat : /\ Round(n) = k * u
                       /\ 2 * (Round(n) - n) <= u /\ 2 * (n - Round(n)) <= u
                       /\ k = n \div u \/ (k = n \div u + 1 /\ n % u # 0)
  BY <1>1, RoundIs
<1> HIDE DEF u
<1>4. Round(n) \in Nat BY <1>2, <1>3
<1>5. Round(n) - n <= Half /\ n - Round(n) <= Half BY <1>1, <1>2, <1>3, <1>4
<1>6. CASE n < One
  <2>1. Round(n) \in 0..(One - Half) \cup {One} BY <1>1, <1>6, BelowOne
  <2> QED BY <1>0, <1>4, <1>5, <2>1 DEF n
<1>7. CASE n >= One
  <2>1. u = 2 * Half
    <3>1. u > Half
      <4>1. SUFFICES ASSUME u <= Half PROVE FALSE BY <1>2
      <4>2. Whole * (Half - u) >= 0 BY <1>2, <4>1
      <4>3. Whole * u <= Whole * Half BY <1>2, <4>2
      <4> QED BY <1>0, <1>1, <1>2, <1>7, <4>3
    <3> QED BY <1>2, <3>1
  <2>2. PICK d \in Nat, r \in Nat : d = n \div u /\ r = n % u /\ n = d * u + r
    <3>1. n % u \in Nat
      <4>1. n % u \in 0..(u - 1) BY <1>1, <1>2, Division
      <4> QED BY ONLY <1>2, <4>1
    <3> QED BY <1>1, <1>2, <3>1, Division
  <2>3. (Whole - 1) * u = 2 * One - 2 * Half BY <1>0, <2>1
  <2>4. k <= Whole - 1
    <3>1. SUFFICES ASSUME k >= Whole PROVE FALSE BY <1>3
    <3>2. d >= Whole \/ (d = Whole - 1 /\ r > 0) BY <1>3, <2>2, <3>1
    <3>3. CASE d >= Whole
      <4>1. (d - Whole) * u >= 0 BY <1>2, <3>3
      <4>2. d * u >= Whole * u BY <1>2, <4>1
      <4> QED BY <1>1, <1>2, <2>2, <4>2
    <3>4. CASE d = Whole - 1 /\ r > 0
      <4>1. d * u = 2 * One - 2 * Half BY <2>3, <3>4
      <4> QED BY <1>0, <1>1, <2>2, <3>4, <4>1
    <3> QED BY <3>2, <3>3, <3>4
  <2>5. k * u <= 2 * One - 2 * Half
    <3>1. (Whole - 1 - k) * u >= 0 BY <1>2, <2>4
    <3>2. k * u <= (Whole - 1) * u BY <1>2, <3>1
    <3> QED BY <1>0, <2>3, <3>2
  <2>6. Round(n) < One => Round(n) <= One - Half
    <3>1. SUFFICES ASSUME Round(n) < One PROVE 2 * k <= Whole - 1
      <4>1. ASSUME 2 * k <= Whole - 1 PROVE Round(n) <= One - Half
        <5>1. (Whole - 1 - 2 * k) * Half >= 0 BY <4>1
        <5>2. (Whole - 1 - 2 * k) * Half = Whole * Half - Half - k * (2 * Half) OBVIOUS
        <5> QED BY <1>0, <1>3, <1>4, <2>1, <5>1, <5>2
      <4> QED BY <4>1
    <3>2. SUFFICES ASSUME 2 * k >= Whole PROVE FALSE OBVIOUS
    <3>3. (2 * k - Whole) * Half >= 0 BY <3>2
    <3>4. (2 * k - Whole) * Half = k * (2 * Half) - Whole * Half OBVIOUS
    <3> QED BY <1>0, <1>3, <1>4, <2>1, <3>1, <3>3, <3>4
  <2> QED BY <1>0, <1>3, <1>4, <1>5, <2>5, <2>6 DEF n
<1> QED BY <1>0, <1>1, <1>6, <1>7

-----------------------------------------------------------------------------
(* The invariant                                                           *)

LEMMA QueueInit == Init => QueueInv
<1> SUFFICES ASSUME Init PROVE QueueInv OBVIOUS
<1> USE DoubleAssumption, WindowAssumption, LoadAssumption DEF Init
<1>1. One \in Nat /\ Half <= One /\ Half > 0
  <2>1. (Whole - 1) * Half >= 0 OBVIOUS
  <2> QED BY <2>1 DEF One
<1>2. Weight \in Nat BY <1>1, OptionsAssumption DEF Weight
<1>3. 0 * One = 0 /\ 0 * Weight = 0 /\ 0 * Half = 0 BY <1>1, <1>2
<1>4. TokenShare BY <1>1, <1>3 DEF TokenShare
<1>5. TypeOK BY <1>1 DEF TypeOK
<1> QED BY <1>4, <1>5 DEF QueueInv

\* The weight of the queue's options is 1, or a double below it.
LEMMA WeightIs ==
  ASSUME TypeOK
  PROVE  /\ One \in Nat /\ Half \in Nat /\ 0 < Half /\ Half <= One
         /\ Weight \in 0..One /\ (Weight # One => Weight <= One - Half)
<1> USE DoubleAssumption
<1>1. One \in Nat /\ Half \in Nat /\ 0 < Half /\ Half <= One
  <2>1. (Whole - 1) * Half >= 0 OBVIOUS
  <2> QED BY <2>1 DEF One
<1>2. Weight \in 0..One /\ Round(Weight) = Weight
  BY OptionsAssumption DEF TypeOK, Weight
<1>3. ASSUME Weight # One PROVE Weight <= One - Half
  <2>1. Weight \in Nat /\ Weight < One BY <1>1, <1>2, <1>3
  <2>2. Round(Weight) \in 0..(One - Half) \cup {One} BY <2>1, BelowOne
  <2> QED BY <1>1, <1>2, <1>3, <2>2
<1> QED BY <1>1, <1>2, <1>3

\* A cycle is begun: the token stays below 1, and the share is kept.
LEMMA CycleKeepsShare ==
  ASSUME QueueInv, NEW c \in Consumers, TakeFairTurn(c), Count(c), opts' = opts
  PROVE  /\ acc' \in 0..(One - Half) /\ cycle' \in 0..(Window - 1) /\ turns' \in 0..cycle'
         /\ fairFirst' \in [Consumers -> BOOLEAN]
         /\ TokenShare'
<1>0. Weight' = Weight BY DEF Weight
<1>1. /\ acc \in 0..(One - Half) /\ cycle \in 0..(Window - 1) /\ turns \in 0..cycle
      /\ fairFirst \in [Consumers -> BOOLEAN] /\ TypeOK
  BY DEF QueueInv, TypeOK
<1>2. /\ One \in Nat /\ Half \in Nat /\ 0 < Half /\ Half <= One /\ Window \in Nat \ {0}
      /\ Weight \in 0..One /\ (Weight # One => Weight <= One - Half)
  BY <1>1, WeightIs, WindowAssumption
<1>3. /\ One \in Nat /\ Half \in Nat /\ Weight \in Nat /\ cycle \in Nat /\ turns \in Nat
      /\ 0 * One = 0 /\ 0 * Weight = 0 /\ 0 * Half = 0
  <2>1. One \in Nat /\ Half \in Nat /\ Weight \in Nat BY ONLY <1>2
  <2>2. cycle \in Nat BY ONLY <1>1, <1>2
  <2>3. turns \in Nat BY ONLY <1>1, <2>2
  <2>4. \A x \in Nat : 0 * x = 0 OBVIOUS
  <2>5. 0 * One = 0 /\ 0 * Weight = 0 /\ 0 * Half = 0 BY ONLY <2>1, <2>4
  <2> QED BY ONLY <2>1, <2>2, <2>3, <2>5
<1>4. CASE Weight \in {0, One}
  <2>1. acc' = acc /\ fairFirst' = [fairFirst EXCEPT ![c] = (Weight = One)]
    BY <1>4 DEF TakeFairTurn
  <2>2. cycle' = 0 /\ turns' = 0 BY <1>4 DEF Count
  <2>3. (Weight = One) \in BOOLEAN OBVIOUS
  <2>4. fairFirst' \in [Consumers -> BOOLEAN] BY <1>1, <2>1, <2>3, Zenon
  <2> QED BY <1>0, <1>1, <1>2, <1>3, <2>1, <2>2, <2>4 DEF TokenShare
<1>5. CASE Weight \notin {0, One}
  <2> DEFINE sum == Round(acc + Weight)
  <2>1. /\ fairFirst' = [fairFirst EXCEPT ![c] = (sum >= One)]
        /\ acc' = IF sum >= One THEN sum - One ELSE sum
    BY <1>5 DEF TakeFairTurn
  <2>2. /\ sum \in Nat
        /\ sum >= One => sum - One \in 0..(One - Half)
        /\ sum < One => sum \in 0..(One - Half)
        /\ sum - (acc + Weight) <= Half /\ (acc + Weight) - sum <= Half
    <3>1. acc \in 0..(One - Half) /\ Weight \in 0..(One - Half) BY ONLY <1>1, <1>2, <1>5
    <3> HIDE DEF sum
    <3> QED BY <3>1, SumIs DEF sum
  <2> HIDE DEF sum
  <2>3. (sum >= One) \in BOOLEAN OBVIOUS
  <2>4. fairFirst' \in [Consumers -> BOOLEAN] BY <1>1, <2>1, <2>3, Zenon
  <2>5. fairFirst'[c] <=> sum >= One BY <1>1, <2>1
  <2>6. acc' \in 0..(One - Half) BY <1>2, <2>1, <2>2
  <2>7. CASE cycle + 1 = Window
    <3>1. cycle' = 0 /\ turns' = 0 BY <2>7 DEF Count
    <3>2. acc' \in Nat /\ acc' < One BY ONLY <1>2, <2>6
    <3>3. turns' * One = 0 /\ cycle' * Weight = 0 /\ cycle' * Half = 0 BY ONLY <1>3, <3>1
    <3>4. 0 - 0 <= acc' + 0 - 0 /\ acc' + 0 - 0 < One + 0
      <4>1. \A a, o \in Nat : a < o => 0 - 0 <= a + 0 - 0 /\ a + 0 - 0 < o + 0 OBVIOUS
      <4>2. One \in Nat BY ONLY <1>3
      <4> QED BY ONLY <3>2, <4>1, <4>2
    <3>5. TokenShare' BY ONLY <1>0, <3>3, <3>4 DEF TokenShare
    <3>6. cycle' \in 0..(Window - 1) /\ turns' \in 0..cycle' BY ONLY <1>2, <3>1
    <3> QED BY <2>4, <2>6, <3>5, <3>6
  <2>8. CASE cycle + 1 # Window
    <3>1. /\ cycle' = cycle + 1
          /\ turns' = IF sum >= One THEN turns + 1 ELSE turns
      BY <1>5, <2>5, <2>8 DEF Count
    <3>2. cycle' \in 0..(Window - 1) /\ turns' \in 0..cycle' BY <1>1, <1>2, <2>8, <3>1
    <3>3. PICK tn \in Int, cw \in Int, ch \in Int :
            tn = turns * One /\ cw = cycle * Weight /\ ch = cycle * Half
      BY ONLY <1>3
    <3>4. /\ cycle' * Weight = cw + Weight /\ cycle' * Half = ch + Half
          /\ turns' * One = IF sum >= One THEN tn + One ELSE tn
      BY ONLY <1>3, <3>1, <3>3
    <3>5. 0 - ch <= acc + tn - cw /\ acc + tn - cw < One + ch
      BY <3>3 DEF QueueInv, TokenShare
    <3>6. acc' + turns' * One = sum + tn
      BY ONLY <1>3, <2>1, <2>2, <3>3, <3>4
    <3>7. /\ 0 - cycle' * Half <= acc' + turns' * One - cycle' * Weight
          /\ acc' + turns' * One - cycle' * Weight < One + cycle' * Half
      <4>1. PICK tm \in Int, cx \in Int, ci \in Int, a \in Int, b \in Int :
              /\ tm = turns' * One /\ cx = cycle' * Weight /\ ci = cycle' * Half
              /\ a = acc /\ b = acc'
        BY ONLY <1>1, <1>3, <2>2, <3>3, <3>4, <2>6
      <4>2. 0 - ci <= b + tm - cx /\ b + tm - cx < One + ci
        BY ONLY <1>3, <2>2, <3>3, <3>4, <3>5, <3>6, <4>1
      <4> QED BY ONLY <4>1, <4>2
    <3> QED BY <1>0, <2>4, <2>6, <3>2, <3>7 DEF TokenShare
  <2> QED BY <2>7, <2>8
<1> QED BY <1>4, <1>5

LEMMA QueueStep == QueueInv /\ [Next]_vars => QueueInv'
<1> SUFFICES ASSUME QueueInv, [Next]_vars PROVE QueueInv' OBVIOUS
<1> USE LoadAssumption
<1>0. opts' = opts => Weight' = Weight BY DEF Weight
<1>1. TypeOK /\ TokenShare BY DEF QueueInv
<1>2. ASSUME NEW c \in Consumers, Receive(c) PROVE QueueInv'
  <2>1. /\ UNCHANGED <<opts, queueVars, items>>
        /\ pc' \in [Consumers -> {"idle", "first", "second", "working"}]
    BY <1>1, <1>2 DEF Receive, TypeOK
  <2>2. CASE opts.priorityKey
    <3>1. TakeFairTurn(c) /\ Count(c) BY <1>2, <2>2 DEF Receive
    <3>2. /\ acc' \in 0..(One - Half) /\ cycle' \in 0..(Window - 1) /\ turns' \in 0..cycle'
          /\ fairFirst' \in [Consumers -> BOOLEAN]
          /\ TokenShare'
      BY <2>1, <3>1, CycleKeepsShare
    <3> QED BY <1>1, <2>1, <3>2 DEF QueueInv, TypeOK, queueVars
  <2>3. CASE ~opts.priorityKey
    <3>1. fairFirst' \in [Consumers -> BOOLEAN] /\ UNCHANGED tokenVars
      BY <1>1, <1>2, <2>3 DEF Receive, TypeOK
    <3> QED BY <1>0, <1>1, <2>1, <3>1 DEF QueueInv, TypeOK, TokenShare, tokenVars, queueVars
  <2> QED BY <2>2, <2>3
<1>3. ASSUME NEW c \in Consumers, PollDelivers(c) PROVE QueueInv'
  <2>1. PICK S \in Deliverable(Polled(c)) \ {{}} :
          /\ holder' = [m \in Message |-> IF m \in S THEN c ELSE holder[m]]
          /\ items' = [items EXCEPT ![c] = S]
    BY <1>3 DEF PollDelivers
  <2>2. S \subseteq Message BY <1>1, <2>1 DEF Deliverable, TypeOK
  <2>3. /\ pc' = [pc EXCEPT ![c] = "working"] /\ fairFirst' = [fairFirst EXCEPT ![c] = FALSE]
        /\ UNCHANGED <<tokenVars, stored, sent>>
    BY <1>3 DEF PollDelivers, Return
  <2> QED BY <1>0, <1>1, <2>1, <2>2, <2>3 DEF QueueInv, TypeOK, TokenShare, tokenVars
<1>4. ASSUME NEW c \in Consumers, PollEmpty(c) \/ PollFails(c) PROVE QueueInv'
  BY <1>0, <1>1, <1>4 DEF PollEmpty, PollFails, Return, QueueInv, TypeOK, TokenShare, tokenVars, queueVars
<1>5. ASSUME NEW c \in Consumers, NEW m \in Message, Ack(c, m) PROVE QueueInv'
  BY <1>0, <1>1, <1>5 DEF Ack, QueueInv, TypeOK, TokenShare, tokenVars
<1>6. ASSUME NEW c \in Consumers, NEW m \in Message, GiveUp(c, m) PROVE QueueInv'
  BY <1>0, <1>1, <1>6 DEF GiveUp, QueueInv, TypeOK, TokenShare, tokenVars, queueVars
<1>7. ASSUME NEW t \in Tenants, SubmitFair(t) PROVE QueueInv'
  <2>1. sent[t] + 1 \in 1..PerTenant /\ <<t, sent[t] + 1>> \in Message
    BY <1>1, <1>7 DEF SubmitFair, TypeOK, Message, FairWork
  <2> QED BY <1>0, <1>1, <1>7, <2>1 DEF SubmitFair, QueueInv, TypeOK, TokenShare, tokenVars, callVars
<1>8. ASSUME NEW m \in Message, Reappear(m) PROVE QueueInv'
  BY <1>0, <1>1, <1>8 DEF Reappear, QueueInv, TypeOK, TokenShare, tokenVars, callVars
<1>9. ASSUME NEW m \in Urgent, SubmitUrgent(m) PROVE QueueInv'
  BY <1>0, <1>1, <1>9 DEF SubmitUrgent, Message, QueueInv, TypeOK, TokenShare, tokenVars, callVars
<1>10. CASE UNCHANGED vars
  BY <1>0, <1>1, <1>10 DEF vars, tokenVars, queueVars, callVars, QueueInv, TypeOK, TokenShare
<1> QED BY <1>2, <1>3, <1>4, <1>5, <1>6, <1>7, <1>8, <1>9, <1>10 DEF Next, Consume

\* receive() and ack() keep every variable in its type, for any number of
\* concurrent consumers: what is saved of the fair queue's turns stays below 1.
THEOREM QueueTypeCorrect == Spec => []TypeOK
<1>1. Spec => []QueueInv BY QueueInit, QueueStep, PTL DEF Spec
<1>2. QueueInv => TypeOK BY DEF QueueInv
<1> QED BY <1>1, <1>2, PTL

\* takeFairTurn() gives the fair queue the share it is configured for, up to one
\* turn and what the sums are rounded by, for every weight, every precision of the
\* doubles and every number of cycles.
THEOREM TheShareIsKept == Spec => []ShareKept
<1>1. Spec => []QueueInv BY QueueInit, QueueStep, PTL DEF Spec
<1>2. ASSUME QueueInv PROVE ShareKept
  <2>1. /\ acc \in 0..(One - Half) /\ cycle \in Nat /\ turns \in Nat /\ TypeOK
    BY <1>2, WindowAssumption DEF QueueInv, TypeOK
  <2>2. One \in Nat /\ Half \in Nat /\ 0 < Half /\ Weight \in Nat
    <3>1. One \in Nat /\ Half \in Nat /\ 0 < Half /\ Weight \in 0..One BY <2>1, WeightIs
    <3> QED BY ONLY <3>1
  <2>3. PICK tn \in Int, cw \in Int, ch \in Int :
          tn = turns * One /\ cw = cycle * Weight /\ ch = cycle * Half
    BY ONLY <2>1, <2>2
  <2>4. 0 - ch <= acc + tn - cw /\ acc + tn - cw < One + ch
    BY <1>2, <2>3 DEF QueueInv, TokenShare
  <2>5. tn - cw < One + ch /\ -(tn - cw) < One + ch BY ONLY <2>1, <2>2, <2>3, <2>4
  <2> QED BY <2>3, <2>5 DEF ShareKept
<1>3. QueueInv => ShareKept BY <1>2
<1> QED BY <1>1, <1>3, PTL

-----------------------------------------------------------------------------
(* The polled configuration                                                *)

CTypeOK ==
  /\ versions \in Nat /\ deployed \in Nat /\ deploys \in Nat
  /\ tokens \in Nat \cup {NoToken} /\ expired \in BOOLEAN
  /\ call \in [Polls -> {"idle", "starting", "polling", "refused", "answered"}]
  /\ token \in [Polls -> Nat \cup {NoToken}]
  /\ answer \in [Polls -> Nat \cup {Unchanged}]
  /\ cached \in Nat \cup {Unchanged} /\ overlapped \in BOOLEAN

\* One call at most is under way.
OneCall == \A p, q \in Polls : call[p] # "idle" /\ call[q] # "idle" => p = q

\* Until it is answered it has the token of the map.
PollsWithTheToken == \A p \in Polls : call[p] \in {"starting", "polling"} => token[p] = tokens

\* Answered, its next token is of the value it got, or, if it got none, of the
\* version the token in the map stands for.
NextToken ==
  \A p \in Polls :
    call[p] = "answered" =>
      /\ token[p] # NoToken
      /\ token[p] = IF answer[p] = Unchanged THEN tokens ELSE answer[p]

Sequential == OneCall /\ PollsWithTheToken /\ NextToken

CInv == CTypeOK /\ (~overlapped => Sequential) /\ NoChangeIsMissed

LEMMA ConfigInit == CInit => CInv
<1> SUFFICES ASSUME CInit PROVE CInv OBVIOUS
<1> USE DEF CInit
<1>1. CTypeOK BY DEF CTypeOK
<1>2. Sequential BY DEF Sequential, OneCall, PollsWithTheToken, NextToken
<1>3. NoChangeIsMissed BY DEF NoChangeIsMissed
<1> QED BY <1>1, <1>2, <1>3 DEF CInv

LEMMA ConfigTypes == CTypeOK /\ [CNext]_configVars => CTypeOK'
<1> SUFFICES ASSUME CTypeOK, [CNext]_configVars PROVE CTypeOK' OBVIOUS
<1> USE ConfigAssumption DEF CTypeOK, controlVars, pollVars
<1>1. CASE CreateVersion BY <1>1 DEF CreateVersion
<1>2. ASSUME NEW v \in 0..MaxVersions, Deploy(v) PROVE CTypeOK' BY <1>2 DEF Deploy
<1>3. ASSUME NEW p \in Polls, Latest(p) PROVE CTypeOK'
  <2>1. overlapped' \in BOOLEAN BY <1>3, Zenon DEF Latest
  <2> QED BY <1>3, <2>1 DEF Latest
<1>4. ASSUME NEW p \in Polls, SessionStarts(p) PROVE CTypeOK' BY <1>4 DEF SessionStarts
<1>5. ASSUME NEW p \in Polls, Served(p) PROVE CTypeOK' BY <1>5 DEF Served
<1>6. ASSUME NEW p \in Polls, Returns(p) PROVE CTypeOK' BY <1>6 DEF Returns
<1>7. ASSUME NEW p \in Polls, Fails(p) PROVE CTypeOK' BY <1>7 DEF Fails
<1>8. CASE Expire BY <1>8 DEF Expire
<1>9. CASE UNCHANGED configVars BY <1>9 DEF configVars
<1>10. ASSUME NEW p \in Polls, ParseFails(p) PROVE CTypeOK' BY <1>10 DEF ParseFails
<1> QED BY <1>1, <1>2, <1>3, <1>4, <1>5, <1>6, <1>7, <1>8, <1>9, <1>10 DEF CNext

LEMMA ConfigStep == CInv /\ [CNext]_configVars => CInv'
<1> SUFFICES ASSUME CInv, [CNext]_configVars PROVE CInv' OBVIOUS
<1>0. CTypeOK' BY ConfigTypes DEF CInv
<1> USE <1>0, ConfigAssumption
    DEF CInv, CTypeOK, Sequential, OneCall, PollsWithTheToken, NextToken, NoChangeIsMissed, controlVars, pollVars
<1>1. CASE CreateVersion BY <1>1 DEF CreateVersion
<1>2. ASSUME NEW v \in 0..MaxVersions, Deploy(v) PROVE CInv' BY <1>2 DEF Deploy
<1>3. ASSUME NEW p \in Polls, Latest(p) PROVE CInv'
  <2>1. SUFFICES ASSUME ~overlapped' PROVE Sequential' /\ NoChangeIsMissed'
    BY <1>3
  <2>2. ~overlapped /\ \A q \in Polls : call[q] = "idle" BY <1>3, <2>1 DEF Latest
  <2> QED BY <1>3, <2>2 DEF Latest
<1>4. ASSUME NEW p \in Polls, SessionStarts(p) PROVE CInv' BY <1>4 DEF SessionStarts
<1>5. ASSUME NEW p \in Polls, Served(p) PROVE CInv' BY <1>5 DEF Served
<1>6. ASSUME NEW p \in Polls, Returns(p) PROVE CInv'
  <2>1. SUFFICES ASSUME ~overlapped' PROVE Sequential' /\ NoChangeIsMissed'
    BY <1>6
  <2>2. ~overlapped /\ \A q \in Polls : call'[q] = "idle" BY <1>6, <2>1 DEF Returns
  <2>3. tokens' = token[p] /\ (cached' = tokens' \/ tokens' \in Unparsable)
    BY <1>6, <2>2 DEF Returns
  <2> QED BY <2>2, <2>3
<1>7. ASSUME NEW p \in Polls, Fails(p) PROVE CInv' BY <1>7 DEF Fails
<1>8. CASE Expire BY <1>8 DEF Expire
<1>9. CASE UNCHANGED configVars BY <1>9 DEF configVars
<1>10. ASSUME NEW p \in Polls, ParseFails(p) PROVE CInv'
  <2>1. SUFFICES ASSUME ~overlapped' PROVE Sequential' /\ NoChangeIsMissed'
    BY <1>10
  <2>2. ~overlapped /\ \A q \in Polls : call'[q] = "idle" BY <1>10, <2>1 DEF ParseFails
  <2>3. answer[p] \in Unparsable BY <1>10 DEF ParseFails
  <2>4. tokens' = answer[p] /\ tokens' \in Unparsable BY <1>10, <2>2, <2>3, ConfigAssumption DEF ParseFails
  <2> QED BY <2>2, <2>4
<1> QED BY <1>1, <1>2, <1>3, <1>4, <1>5, <1>6, <1>7, <1>8, <1>9, <1>10 DEF CNext

\* While calls do not overlap, the value the caller keeps is the one of the token
\* latest() polls with next, whatever fails, is lost, deployed or rolled back,
\* unless that is a version json() could not parse.
THEOREM NothingMissed == CSpec => []NoChangeIsMissed
<1>1. CInv => NoChangeIsMissed BY DEF CInv
<1> QED BY ConfigInit, ConfigStep, <1>1, PTL DEF CSpec

-----------------------------------------------------------------------------
(* The realtime path                                                       *)

LPTypeOK ==
  /\ conn \in 0..made /\ made \in 0..MaxConns
  /\ client \in [Conn -> {"none", "open", "closed"}]
  /\ backend \in [Conn -> {"none", "connecting", "open", "closed"}]
  /\ \A k \in Conn : k > made => client[k] = "none" /\ backend[k] = "none"

-----------------------------------------------------------------------------
(* Bridges                                                                 *)

\* What is left of a bridge has been told of the end of the rest, or will be.
EndsAreHeard ==
  \A k \in Conn :
    /\ client[k] = "open" /\ backend[k] \notin Live => <<k, "backend">> \in unheard
    /\ backend[k] \in Live /\ client[k] # "open" => <<k, "client">> \in unheard

BridgeInv == LPTypeOK /\ EndsAreHeard

LEMMA BridgeInit == LPInit => BridgeInv
BY PushAssumption DEF LPInit, BridgeInv, LPTypeOK, EndsAreHeard, Live, Conn

LEMMA BridgeStep == BridgeInv /\ [LPNext]_pushVars => BridgeInv'
<1> SUFFICES ASSUME BridgeInv, [LPNext]_pushVars PROVE BridgeInv' OBVIOUS
<1> USE PushAssumption
    DEF BridgeInv, LPTypeOK, EndsAreHeard, Live, Conn, windowVars, bridgeVars, frameVars
<1>1. ASSUME NEW id \in AccountIds, SetAccountId(id) PROVE BridgeInv'
  BY <1>1 DEF SetAccountId, ClientEnds
<1>2. CASE MakeEmpty BY <1>2 DEF MakeEmpty, ClientEnds
<1>3. CASE OnClientSocket
  <2>1. made' \in Conn /\ made' = made + 1 /\ client[made'] = "none" /\ backend[made'] = "none"
    BY <1>3 DEF OnClientSocket
  <2>2. conn' \in 0..made' /\ made' \in 0..MaxConns /\ unheard' = unheard
    BY <1>3, <2>1 DEF OnClientSocket
  <2>3. CASE /\ client' = [client EXCEPT ![made'] = "open"]
             /\ backend' = [backend EXCEPT ![made'] = "connecting"]
    BY <2>1, <2>2, <2>3
  <2>4. CASE client' = [client EXCEPT ![made'] = "closed"] /\ backend' = backend
    BY <2>1, <2>2, <2>4
  <2> QED BY <1>3, <2>3, <2>4 DEF OnClientSocket
<1>4. ASSUME NEW k \in Conn, Accept(k) PROVE BridgeInv' BY <1>4 DEF Accept
<1>5. ASSUME NEW k \in Conn, NetworkFails(k) PROVE BridgeInv'
  BY <1>5 DEF NetworkFails, ClientEnds, BackendEnds
<1>6. ASSUME NEW k \in Conn, NEW end \in {"client", "backend"}, OnClose(k, end) PROVE BridgeInv'
  BY <1>6 DEF OnClose, Paired
<1>7. ASSUME NEW k \in Conn, Push(k) PROVE BridgeInv' BY <1>7 DEF Push
<1>8. ASSUME NEW k \in Conn, FrameArrives(k) PROVE BridgeInv' BY <1>8 DEF FrameArrives
<1>9. ASSUME NEW m \in reading, Publish(m) PROVE BridgeInv' BY <1>9 DEF Publish
<1>10. CASE UNCHANGED pushVars BY <1>10 DEF pushVars
<1> QED BY <1>1, <1>2, <1>3, <1>4, <1>5, <1>6, <1>7, <1>8, <1>9, <1>10 DEF LPNext

\* A bridge is never left with one of its connections once the proxy has taken
\* the events of their ends, in whatever order they ended.
THEOREM NoHalfBridge == LPSpec => []BridgesEndTogether
<1>1. BridgeInv => BridgesEndTogether
  BY DEF BridgeInv, LPTypeOK, EndsAreHeard, BridgesEndTogether
<1> QED BY BridgeInit, BridgeStep, <1>1, PTL DEF LPSpec

-----------------------------------------------------------------------------
(* Frames                                                                  *)

\* The socket is the signed-in account's, and so is the connection listened to.
WindowInv ==
  /\ socket \in {NoAccount, accountId}
  /\ made \in 0..MaxConns /\ conn \in 0..MaxConns
  /\ of \in [Conn -> AccountIds \cup {NoAccount}] /\ accountId \in AccountIds \cup {NoAccount}
  /\ conn # 0 => socket # NoAccount /\ of[conn] = socket

FrameInv == WindowInv /\ FramesAreOfTheAccount

LEMMA FrameInit == LPInit => FrameInv
BY PushAssumption DEF LPInit, FrameInv, WindowInv, FramesAreOfTheAccount, Conn

LEMMA WindowStep == WindowInv /\ [LPNext]_pushVars => WindowInv'
<1> SUFFICES ASSUME WindowInv, [LPNext]_pushVars PROVE WindowInv' OBVIOUS
<1> USE PushAssumption DEF WindowInv, Conn, windowVars
<1>1. ASSUME NEW id \in AccountIds, SetAccountId(id) PROVE WindowInv' BY <1>1 DEF SetAccountId
<1>2. CASE MakeEmpty BY <1>2 DEF MakeEmpty
<1>3. CASE OnClientSocket BY <1>3 DEF OnClientSocket
<1>4. ASSUME NEW k \in Conn, Accept(k) PROVE WindowInv' BY <1>4 DEF Accept
<1>5. ASSUME NEW k \in Conn, NetworkFails(k) PROVE WindowInv' BY <1>5 DEF NetworkFails
<1>6. ASSUME NEW k \in Conn, NEW end \in {"client", "backend"}, OnClose(k, end) PROVE WindowInv'
  BY <1>6 DEF OnClose
<1>7. ASSUME NEW k \in Conn, Push(k) PROVE WindowInv' BY <1>7 DEF Push
<1>8. ASSUME NEW k \in Conn, FrameArrives(k) PROVE WindowInv' BY <1>8 DEF FrameArrives
<1>9. ASSUME NEW m \in reading, Publish(m) PROVE WindowInv' BY <1>9 DEF Publish
<1>10. CASE UNCHANGED pushVars BY <1>10 DEF pushVars
<1> QED BY <1>1, <1>2, <1>3, <1>4, <1>5, <1>6, <1>7, <1>8, <1>9, <1>10 DEF LPNext

LEMMA FrameStep == FrameInv /\ [LPNext]_pushVars => FrameInv'
<1> SUFFICES ASSUME FrameInv, [LPNext]_pushVars PROVE FrameInv' OBVIOUS
<1>0. WindowInv' BY WindowStep DEF FrameInv
<1>1. ASSUME NEW k \in Conn, FrameArrives(k) PROVE FramesAreOfTheAccount'
  <2>1. published' = published BY <1>1 DEF FrameArrives
  <2>2. CASE reading' = reading BY <2>1, <2>2 DEF FrameInv, FramesAreOfTheAccount
  <2>3. CASE conn = k
    <3>1. of[k] = accountId BY PushAssumption, <2>3 DEF FrameInv, WindowInv, Conn
    <3>2. reading' = reading \cup {[frame |-> Head(pipe[k]), of |-> of[k], to |-> accountId]}
      BY <1>1, <2>3 DEF FrameArrives, Listening
    <3> QED BY <2>1, <3>1, <3>2 DEF FrameInv, FramesAreOfTheAccount
  <2> QED BY <1>1, <2>2, <2>3 DEF FrameArrives, Listening
<1>2. ASSUME NEW m \in reading, Publish(m) PROVE FramesAreOfTheAccount'
  <2>1. reading' \subseteq reading /\ published' = published \cup {<<m, accountId>>} BY <1>2 DEF Publish
  <2>2. m.of = m.to /\ <<m, accountId>>[1] = m BY <1>2 DEF FrameInv, FramesAreOfTheAccount
  <2>3. {p[1] : p \in published'} \subseteq {p[1] : p \in published} \cup {m} BY <2>1, <2>2, Zenon
  <2> QED BY <2>1, <2>2, <2>3 DEF FrameInv, FramesAreOfTheAccount
<1>3. ASSUME reading' = reading, published' = published PROVE FramesAreOfTheAccount'
  <2>1. {p[1] : p \in published'} = {p[1] : p \in published} BY <1>3, Zenon
  <2> QED BY <1>3, <2>1, Zenon DEF FrameInv, FramesAreOfTheAccount
<1>4. \/ \E k \in Conn : FrameArrives(k)
      \/ \E m \in reading : Publish(m)
      \/ reading' = reading /\ published' = published
  BY DEF LPNext, SetAccountId, MakeEmpty, OnClientSocket, Accept, NetworkFails, OnClose, Push, frameVars, pushVars
<1> QED BY <1>0, <1>1, <1>2, <1>3, <1>4 DEF FrameInv

\* No frame of a connection made for one account is taken while another is signed
\* in, however the accounts are switched while frames are on their way.
THEOREM FramesFindTheirAccount == LPSpec => []FramesAreOfTheAccount
<1>1. FrameInv => FramesAreOfTheAccount BY DEF FrameInv
<1> QED BY FrameInit, FrameStep, <1>1, PTL DEF LPSpec

-----------------------------------------------------------------------------
(* The REST endpoint                                                       *)

-----------------------------------------------------------------------------
(* The path                                                                *)

\* What stands in the i-th place of the path, and how many places there are.
Piece(i, q) == IF Pattern[i].is = "static" THEN Pattern[i].name ELSE q[Pattern[i].name][1]
Given(q) == {i \in DOMAIN Pattern : Pattern[i].is = "param" => Pattern[i].name \in DOMAIN q}
Places(q) == IF Given(q) = DOMAIN Pattern THEN Len(Pattern) ELSE Len(Pattern) - 1

Pieces == Texts \cup Fields

LEMMA PatternIs ==
  /\ Len(Pattern) \in Nat /\ DOMAIN Pattern = 1..Len(Pattern)
  /\ \A i \in DOMAIN Pattern : Pattern[i] \in Segment
<1>1. Pattern \in Seq(Segment) BY EndpointAssumption
<1> QED BY ONLY <1>1, LenProperties

LEMMA OneTextIs ==
  ASSUME NEW t \in Seq(Texts), Len(t) = 1 PROVE t = <<t[1]>> /\ t[1] \in Texts
<1>1. t \in [1..1 -> Texts] BY LenProperties
<1>2. t[1] \in Texts BY <1>1
<1> QED BY <1>1, <1>2

\* Only the last segment may lack a value.
LEMMA GivenIs ==
  ASSUME NEW q \in Queries, Accepts(q)
  PROVE  /\ \A i \in DOMAIN Pattern : i < Len(Pattern) => i \in Given(q)
         /\ \A i \in DOMAIN Pattern : i \in Given(q) \/ Pattern[i].optional
         /\ \A i \in DOMAIN Pattern : i \in Given(q) <=> i <= Places(q)
         /\ Places(q) \in 0..Len(Pattern)
<1>1. \A i \in DOMAIN Pattern : i \in Given(q) \/ Pattern[i].optional
  BY EndpointAssumption DEF Given, Accepts
<1>2. \A i \in DOMAIN Pattern : i < Len(Pattern) => i \in Given(q)
  BY <1>1, PatternIs, EndpointAssumption
<1>3. CASE Given(q) = DOMAIN Pattern BY <1>1, <1>2, <1>3, PatternIs DEF Places
<1>4. CASE Given(q) # DOMAIN Pattern
  <2>1. PICK i \in DOMAIN Pattern : i \notin Given(q) BY <1>4 DEF Given
  <2>2. i = Len(Pattern) BY <1>2, <2>1, PatternIs
  <2> QED BY <1>1, <1>2, <1>4, <2>1, <2>2, PatternIs DEF Places
<1> QED BY <1>3, <1>4

LEMMA SegmentsAre ==
  ASSUME NEW q \in Queries, Accepts(q), Plain(q), NEW i \in DOMAIN Pattern
  PROVE  /\ i <= Places(q) => Segments(Pattern[i], q) = <<Piece(i, q)>> /\ Piece(i, q) \in Pieces
         /\ i > Places(q) => Segments(Pattern[i], q) = <<>>
<1>1. Pattern[i] \in Segment BY PatternIs
<1>2. i \in Given(q) <=> i <= Places(q) BY GivenIs
<1>3. Places(q) \in Int /\ i \in Int BY GivenIs, PatternIs
<1>4. CASE Pattern[i].is = "static"
  <2>1. i \in Given(q) BY <1>4 DEF Given
  <2> QED BY <1>1, <1>2, <1>3, <1>4, <2>1 DEF Segments, Piece, Pieces, Segment
<1>5. CASE Pattern[i].is # "static"
  <2>1. Pattern[i].is = "param" BY <1>1, <1>5 DEF Segment
  <2>2. Pattern[i].name \in Fields /\ Location[Pattern[i].name] = "uri" BY <2>1, EndpointAssumption
  <2>3. i \in Given(q) <=> Pattern[i].name \in DOMAIN q BY <2>1 DEF Given
  <2>4. ASSUME Pattern[i].name \in DOMAIN q
        PROVE  q[Pattern[i].name] = <<Piece(i, q)>> /\ Piece(i, q) \in Pieces
    <3>1. q[Pattern[i].name] \in Seq(Texts) BY <2>4, EndpointAssumption
    <3>2. Len(q[Pattern[i].name]) = 1 BY <2>2, <2>4 DEF Plain
    <3> QED BY <3>1, <3>2, <1>5, OneTextIs DEF Piece, Pieces
  <2> QED BY <1>2, <1>3, <1>5, <2>3, <2>4 DEF Segments
<1> QED BY <1>4, <1>5

\* The path is the pieces one after another.  What is put together up to each
\* segment is: there is no first segment for which it is not.
LEMMA PathIs ==
  ASSUME NEW q \in Queries, Accepts(q), Plain(q)
  PROVE  ResolvedUri(q) = [j \in 1..Places(q) |-> Piece(j, q)]
<1> DEFINE n == Len(Pattern)
           UpTo(i) == [j \in 1..(IF i <= Places(q) THEN i ELSE Places(q)) |-> Piece(j, q)]
           Step(f) == [i \in 0..n |-> IF i = 0 THEN <<>> ELSE f[i - 1] \o Segments(Pattern[i], q)]
           w == [i \in 0..n |-> UpTo(i)]
           g == CHOOSE f : f = Step(f)
<1>1. n \in Nat /\ Places(q) \in 0..n BY PatternIs, GivenIs
<1>2. \A i \in 0..n : UpTo(i) \in Seq(Pieces)
  <2> TAKE i \in 0..n
  <2>1. PICK k \in Nat : k = IF i <= Places(q) THEN i ELSE Places(q) BY <1>1
  <2>2. \A j \in 1..k : Piece(j, q) \in Pieces
    <3> TAKE j \in 1..k
    <3>1. j \in DOMAIN Pattern /\ j <= Places(q) BY <1>1, <2>1, PatternIs
    <3> QED BY <3>1, SegmentsAre
  <2>3. [j \in 1..k |-> Piece(j, q)] \in Seq(Pieces) BY <2>2, IsASeq
  <2> QED BY <2>1, <2>3
<1>3. UpTo(0) = <<>>
  <2>1. 0 <= Places(q) BY <1>1
  <2>2. UpTo(0) = [j \in 1..0 |-> Piece(j, q)] BY <2>1
  <2>3. 1..0 = {} OBVIOUS
  <2> QED BY <2>2, <2>3
<1>4. \A i \in 1..n : UpTo(i) = UpTo(i - 1) \o Segments(Pattern[i], q)
  <2> TAKE i \in 1..n
  <2>1. i \in DOMAIN Pattern /\ i - 1 \in 0..n BY PatternIs
  <2>2. CASE i <= Places(q)
    <3>1. PICK k \in Nat : k = i - 1 BY <1>1
    <3>2. UpTo(i) = [j \in 1..(k + 1) |-> Piece(j, q)] /\ UpTo(i - 1) = [j \in 1..k |-> Piece(j, q)]
      <4>1. i - 1 <= Places(q) /\ k + 1 = i BY <1>1, <2>2, <3>1
      <4> QED BY <2>2, <3>1, <4>1
    <3>3. Segments(Pattern[i], q) = <<Piece(k + 1, q)>> /\ Piece(k + 1, q) \in Pieces
      <4>1. k + 1 = i BY <3>1
      <4> QED BY <2>1, <2>2, <4>1, SegmentsAre
    <3>4. [j \in 1..k |-> Piece(j, q)] \in Seq(Pieces) BY <1>2, <2>1, <3>2
    <3>5. PICK s \in Seq(Pieces), x \in Pieces : s = [j \in 1..k |-> Piece(j, q)] /\ x = Piece(k + 1, q)
      BY <3>3, <3>4
    <3>6. Len(s) = k BY <3>5, LenProperties
    <3>7. /\ s \o <<x>> \in [1..(k + 1) -> Pieces]
          /\ \A j \in 1..(k + 1) : (s \o <<x>>)[j] = IF j <= k THEN s[j] ELSE x
      <4>1. <<x>> \in Seq(Pieces) /\ Len(<<x>>) = 1 /\ <<x>>[1] = x OBVIOUS
      <4>2. /\ s \o <<x>> \in Seq(Pieces) /\ Len(s \o <<x>>) = Len(s) + Len(<<x>>)
            /\ \A j \in 1..(Len(s) + Len(<<x>>)) :
                 (s \o <<x>>)[j] = IF j <= Len(s) THEN s[j] ELSE <<x>>[j - Len(s)]
        BY <4>1, ConcatProperties
      <4>3. \A j \in 1..(k + 1) : ~(j <= k) => j - k = 1 OBVIOUS
      <4> QED BY ONLY <3>6, <4>1, <4>2, <4>3, LenProperties, k \in Nat
    <3>8. \A j \in 1..k : s[j] = Piece(j, q) BY ONLY <3>5
    <3>9. \A j \in 1..(k + 1) : (s \o <<x>>)[j] = Piece(j, q)
      <4> TAKE j \in 1..(k + 1)
      <4>1. CASE j <= k BY <3>7, <3>8, <4>1
      <4>2. CASE ~(j <= k)
        <5>1. j = k + 1 BY <4>2
        <5> QED BY <3>5, <3>7, <4>2, <5>1
      <4> QED BY <4>1, <4>2
    <3>10. s \o <<x>> = [j \in 1..(k + 1) |-> Piece(j, q)] BY ONLY <3>7, <3>9
    <3> QED BY ONLY <3>2, <3>3, <3>5, <3>10
  <2>3. CASE ~(i <= Places(q))
    <3>1. Segments(Pattern[i], q) = <<>> BY <1>1, <2>1, <2>3, SegmentsAre
    <3>2. UpTo(i - 1) = UpTo(i)
      <4>1. (IF i <= Places(q) THEN i ELSE Places(q)) = Places(q) BY <2>3
      <4>2. (IF i - 1 <= Places(q) THEN i - 1 ELSE Places(q)) = Places(q) BY <1>1, <2>3
      <4> QED BY ONLY <4>1, <4>2
    <3>3. UpTo(i - 1) \o <<>> = UpTo(i - 1) BY <1>2, <2>1, ConcatEmptySeq
    <3> QED BY ONLY <3>1, <3>2, <3>3
  <2> QED BY <2>2, <2>3
<1> HIDE DEF UpTo
<1>5. w = Step(w)
  <2>1. \A i \in 0..n : w[i] = IF i = 0 THEN <<>> ELSE w[i - 1] \o Segments(Pattern[i], q)
    <3> TAKE i \in 0..n
    <3>1. CASE i = 0 BY <1>3, <3>1
    <3>2. CASE i # 0
      <4>1. i \in 1..n /\ i - 1 \in 0..n BY <1>1, <3>2
      <4> QED BY <1>4, <3>2, <4>1
    <3> QED BY <3>1, <3>2
  <2> QED BY <2>1
<1>6. g = Step(g) BY <1>5
<1>7. ResolvedUri(q) = g[n] BY DEF ResolvedUri
<1> HIDE DEF g, w
<1>8. \A i \in 0..n : g[i] = w[i]
  <2> DEFINE T == {i \in 0..n : g[i] # w[i]}
  <2>1. SUFFICES ASSUME T # {} PROVE FALSE OBVIOUS
  <2>2. T \subseteq Nat BY <1>1
  <2>3. PICK x \in T : \A y \in T : ~(<<y, x>> \in OpToRel(<, Nat))
    BY ONLY <2>1, <2>2, NatLessThanWellFounded, WFMin
  <2>4. \A y \in T : ~(y < x) BY <2>2, <2>3 DEF OpToRel
  <2>5. g[x] = IF x = 0 THEN <<>> ELSE g[x - 1] \o Segments(Pattern[x], q) BY <1>6
  <2>6. w[x] = IF x = 0 THEN <<>> ELSE w[x - 1] \o Segments(Pattern[x], q) BY <1>5
  <2>7. x # 0 => g[x - 1] = w[x - 1]
    <3>1. x # 0 => x - 1 \in 0..n /\ x - 1 < x BY <1>1
    <3> QED BY <2>4, <3>1
  <2> QED BY <2>5, <2>6, <2>7
<1>9. g[n] = UpTo(n) BY <1>1, <1>8 DEF w
<1> QED
  <2>1. (IF n <= Places(q) THEN n ELSE Places(q)) = Places(q) BY <1>1
  <2> QED BY <1>7, <1>9, <2>1 DEF UpTo

-----------------------------------------------------------------------------
(* The server's query                                                      *)

LEMMA RoundTrip ==
  ASSUME NEW q \in Queries, Accepts(q), Plain(q)
  PROVE  Fits(ResolvedUri(q)) /\ UnmarshalServer(MarshalClient(q)) = q
<1>1. PICK path : path = ResolvedUri(q) OBVIOUS
<1>2. /\ DOMAIN path = 1..Places(q) /\ Len(path) = Places(q)
      /\ \A i \in 1..Places(q) : path[i] = Piece(i, q)
  <2>1. path = [j \in 1..Places(q) |-> Piece(j, q)] BY <1>1, PathIs
  <2>2. Places(q) \in Nat BY GivenIs, PatternIs
  <2> QED BY ONLY <2>1, <2>2
<1>3. /\ Len(Pattern) \in Nat /\ DOMAIN Pattern = 1..Len(Pattern) /\ Places(q) \in 0..Len(Pattern)
      /\ \A i \in DOMAIN Pattern : i \in Given(q) <=> i <= Places(q)
      /\ \A i \in DOMAIN Pattern : i \in Given(q) \/ Pattern[i].optional
  BY PatternIs, GivenIs
<1>4. Fits(path)
  <2>1. ASSUME NEW i \in DOMAIN Pattern, i <= Len(path), Pattern[i].is = "static"
        PROVE  path[i] = Pattern[i].name
    BY <1>2, <1>3, <2>1 DEF Piece
  <2> QED BY <1>2, <1>3, <2>1 DEF Fits
<1> DEFINE params == {i \in DOMAIN path : Fits(path) /\ Pattern[i].is = "param"}
           uri == ParseUriParams(path)
           inUri == {f \in DOMAIN q : Location[f] = "uri"}
<1>5. ASSUME NEW i \in params
      PROVE  LET f == Pattern[i].name IN f \in inUri /\ <<path[i]>> = q[f]
  <2>1. i \in DOMAIN Pattern /\ i \in Given(q) /\ Pattern[i].is = "param" BY <1>2, <1>3
  <2>2. Pattern[i].name \in DOMAIN q /\ Location[Pattern[i].name] = "uri"
    BY <2>1, EndpointAssumption DEF Given
  <2>3. q[Pattern[i].name] \in Seq(Texts) /\ Len(q[Pattern[i].name]) = 1
    BY <2>2, EndpointAssumption DEF Plain
  <2>4. path[i] = q[Pattern[i].name][1] BY <1>2, <2>1 DEF Piece
  <2> QED BY <2>2, <2>3, <2>4, OneTextIs
<1>6. ASSUME NEW f \in inUri PROVE \E i \in params : Pattern[i].name = f
  <2>1. PICK i \in DOMAIN Pattern : Pattern[i].is = "param" /\ Pattern[i].name = f
    BY EndpointAssumption
  <2>2. i \in DOMAIN path BY <1>2, <1>3, <2>1 DEF Given
  <2> QED BY <1>4, <2>1, <2>2
<1>7. DOMAIN uri = inUri /\ \A f \in inUri : uri[f] = q[f]
  <2>1. uri = [f \in {Pattern[i].name : i \in params} |->
                 <<path[CHOOSE i \in params : Pattern[i].name = f]>>]
    BY DEF ParseUriParams
  <2> HIDE DEF params, inUri, uri
  <2>2. {Pattern[i].name : i \in params} = inUri BY <1>5, <1>6
  <2>3. ASSUME NEW f \in inUri PROVE <<path[CHOOSE i \in params : Pattern[i].name = f]>> = q[f]
    <3>1. PICK i : i = CHOOSE j \in params : Pattern[j].name = f OBVIOUS
    <3>2. i \in params /\ Pattern[i].name = f BY <1>6, <3>1
    <3> QED BY <1>5, <3>1, <3>2
  <2> QED BY <2>1, <2>2, <2>3
<1>8. DOMAIN q = inUri \cup DOMAIN Placed(q, "header") \cup DOMAIN Placed(q, "param")
  <2>1. \A f \in DOMAIN q : Location[f] \in {"uri", "header", "param"} BY EndpointAssumption
  <2>2. DOMAIN Placed(q, "header") = {f \in DOMAIN q : Location[f] = "header"} BY DEF Placed
  <2>3. DOMAIN Placed(q, "param") = {f \in DOMAIN q : Location[f] = "param"} BY DEF Placed
  <2> QED BY ONLY <2>1, <2>2, <2>3
<1>9. q = [f \in DOMAIN q |-> q[f]] BY EndpointAssumption
<1>10. UnmarshalServer(MarshalClient(q)) =
         [f \in DOMAIN uri \cup DOMAIN Placed(q, "header") \cup DOMAIN Placed(q, "param") |->
            IF f \in DOMAIN uri THEN uri[f]
            ELSE IF f \in DOMAIN Placed(q, "header") THEN Placed(q, "header")[f] ELSE Placed(q, "param")[f]]
  BY <1>1 DEF UnmarshalServer, MarshalClient
<1>11. /\ \A f \in DOMAIN Placed(q, "header") : Placed(q, "header")[f] = q[f]
       /\ \A f \in DOMAIN Placed(q, "param") : Placed(q, "param")[f] = q[f]
  BY DEF Placed
<1> HIDE DEF uri, inUri
<1> QED BY <1>1, <1>4, <1>7, <1>8, <1>9, <1>10, <1>11

-----------------------------------------------------------------------------
(* Requests                                                                *)

\* A request that has been sent is what its client made of a valid query.
SentIsMarshalled ==
  \A r \in Requests : at[r] \notin {"new", "thrown"} =>
    asked[r] \in Queries /\ Accepts(asked[r]) /\ wire[r] = MarshalClient(asked[r])

RequestInv ==
  /\ at \in [Requests -> {"new", "sent", "thrown", "executing", "400", "404", "200"}]
  /\ asked \in [Requests -> Queries \cup {Unset}]
  /\ DOMAIN wire = Requests /\ DOMAIN started = Requests
  /\ SentIsMarshalled /\ ServerSeesWhatTheClientSent

LEMMA RequestStart == EInit => RequestInv
BY DEF EInit, RequestInv, SentIsMarshalled, ServerSeesWhatTheClientSent

LEMMA RequestStep == RequestInv /\ [ENext]_endpointVars => RequestInv'
<1> SUFFICES ASSUME RequestInv, [ENext]_endpointVars PROVE RequestInv' OBVIOUS
<1>1. ASSUME NEW r \in Requests, NEW q \in Queries, Send(r, q) PROVE RequestInv'
  BY <1>1 DEF Send, RequestInv, SentIsMarshalled, ServerSeesWhatTheClientSent
<1>2. ASSUME NEW r \in Requests, ProcessEndpoint(r) PROVE RequestInv'
  <2>1. asked[r] \in Queries /\ Accepts(asked[r]) /\ wire[r] = MarshalClient(asked[r])
    BY <1>2 DEF ProcessEndpoint, RequestInv, SentIsMarshalled
  <2>2. Plain(asked[r]) => query' = asked[r]
    BY <1>2, <2>1, RoundTrip DEF ProcessEndpoint
  <2> QED BY <1>2, <2>1, <2>2 DEF ProcessEndpoint, RequestInv, SentIsMarshalled, ServerSeesWhatTheClientSent
<1>3. ASSUME NEW r \in Requests, NoRoute(r) PROVE RequestInv'
  <2>1. asked[r] \in Queries /\ Accepts(asked[r]) /\ wire[r] = MarshalClient(asked[r])
    BY <1>3 DEF NoRoute, RequestInv, SentIsMarshalled
  <2>2. ~Plain(asked[r])
    <3>1. wire[r].path = ResolvedUri(asked[r]) BY <2>1 DEF MarshalClient
    <3> QED BY <1>3, <2>1, <3>1, RoundTrip DEF NoRoute
  <2> QED BY <1>3, <2>1, <2>2 DEF NoRoute, RequestInv, SentIsMarshalled, ServerSeesWhatTheClientSent
<1>4. ASSUME NEW r \in Requests, Reply200(r) PROVE RequestInv'
  BY <1>4 DEF Reply200, RequestInv, SentIsMarshalled, ServerSeesWhatTheClientSent
<1>5. ASSUME UNCHANGED endpointVars PROVE RequestInv'
  BY <1>5 DEF endpointVars, RequestInv, SentIsMarshalled, ServerSeesWhatTheClientSent
<1> QED BY <1>1, <1>2, <1>3, <1>4, <1>5 DEF ENext

\* Whatever requests the one instance served before, execute() starts with the query
\* the client was given, and no valid query whose values fit in a path is turned away,
\* for any pattern, mappings and queries (RestfulEndpoint.ts:34).
THEOREM QueriesArrive == ESpec => []ServerSeesWhatTheClientSent
<1>1. RequestInv => ServerSeesWhatTheClientSent BY DEF RequestInv
<1> QED BY <1>1, RequestStart, RequestStep, PTL DEF ESpec
=============================================================================
