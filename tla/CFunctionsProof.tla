-------------------------- MODULE CFunctionsProof --------------------------
(***************************************************************************)
(* What is proved of the C functions on ints, arrays, floating-point       *)
(* patterns and bits, for every width of an int, every set of numbers,     *)
(* every length of an array and every floating-point format.               *)
(***************************************************************************)
EXTENDS Entity, Arrays, FloatBits, Bits, FiniteSetTheorems, WellFoundedInduction, TLAPS

-----------------------------------------------------------------------------
(* Arithmetic on ints.                                                     *)

HalfCount == 2 ^ (Width - 1)

(* Half the number of ints is a positive number.                           *)
LEMMA HalfRange ==
  /\ HalfCount \in Nat \ {0}
  /\ IntMin = -HalfCount /\ IntMax = HalfCount - 1
  /\ \A v \in Int : v \in Ints <=> -HalfCount <= v /\ v < HalfCount
  /\ \A v \in Int : Wrap(v) = ((v + HalfCount) % (2 * HalfCount)) - HalfCount
<1> DEFINE H == 2 ^ (Width - 1)
<1>1. H \in Nat \ {0} /\ 2 ^ Width = 2 * H
  BY PowerAssumption
<1>2. IntMin = -H /\ IntMax = H - 1
  BY DEF IntMin, IntMax
<1>3. HalfCount = H
  BY DEF HalfCount
<1> HIDE DEF H
<1>4. \A v \in Int : v \in Ints <=> -H <= v /\ v < H
  BY <1>1, <1>2 DEF Ints
<1>5. \A v \in Int : v - IntMin = v + H
  BY <1>1, <1>2
<1>6. \A v \in Int : Wrap(v) = ((v + H) % (2 * H)) - H
  <2>1. TAKE v \in Int
  <2>2. Wrap(v) = ((v - IntMin) % 2 ^ Width) + IntMin
    BY DEF Wrap
  <2>3. Wrap(v) = ((v + H) % (2 * H)) + (-H)
    BY <2>1, <2>2, <1>1, <1>2, <1>5
  <2>4. (v + H) % (2 * H) \in Int
    BY <1>1, <2>1
  <2> QED
    BY <2>3, <2>4, <1>1
<1> QED
  BY <1>1, <1>2, <1>3, <1>4, <1>6

(* Remainders of numbers that leave the range by less than its size.       *)
LEMMA Remainders ==
  ASSUME NEW M \in Nat \ {0}, NEW v \in Int
  PROVE  /\ v % M \in Int /\ 0 <= v % M /\ v % M < M
         /\ (0 <= v /\ v < M) => v % M = v
         /\ (M <= v /\ v < 2 * M) => v % M = v - M
         /\ (-M <= v /\ v < 0) => v % M = v + M
         /\ v = M * (v \div M) + (v % M) /\ v \div M \in Int
<1>1. v % M \in Int /\ 0 <= v % M /\ v % M < M
  OBVIOUS
<1>2. ASSUME 0 <= v, v < M PROVE v % M = v
  BY <1>2
<1>3. ASSUME M <= v, v < 2 * M PROVE v % M = v - M
  BY <1>3
<1>4. ASSUME -M <= v, v < 0 PROVE v % M = v + M
  BY <1>4
<1>5. v \div M \in Int
  OBVIOUS
<1>6. v = M * (v \div M) + (v % M)
  OBVIOUS
<1> QED
  BY <1>1, <1>2, <1>3, <1>4, <1>5, <1>6

(* Wrap returns an int; it is the identity on ints and moves a number that *)
(* is a little out of range by the number of ints.                         *)
LEMMA WrapFacts ==
  ASSUME NEW v \in Int
  PROVE  /\ Wrap(v) \in Ints
         /\ v \in Ints => Wrap(v) = v
         /\ (HalfCount <= v /\ v < 3 * HalfCount) => Wrap(v) = v - 2 * HalfCount
         /\ (-3 * HalfCount <= v /\ v < -HalfCount) => Wrap(v) = v + 2 * HalfCount
<1> DEFINE H == HalfCount
           M == 2 * H
           r == (v + H) % M
<1>1. H \in Nat \ {0} /\ M \in Nat \ {0} /\ v + H \in Int
  BY HalfRange
<1>2. Wrap(v) = r - H
  BY HalfRange
<1>3. v \in Ints <=> -H <= v /\ v < H
  BY HalfRange
<1>4. /\ r \in Int /\ 0 <= r /\ r < M
      /\ (0 <= v + H /\ v + H < M) => r = v + H
      /\ (M <= v + H /\ v + H < 2 * M) => r = (v + H) - M
      /\ (-M <= v + H /\ v + H < 0) => r = (v + H) + M
  BY <1>1, Remainders
<1> HIDE DEF r
<1>5. Wrap(v) \in Int /\ -H <= Wrap(v) /\ Wrap(v) < H
  BY <1>1, <1>2, <1>4
<1>6. Wrap(v) \in Ints
  BY <1>5, HalfRange
<1>7. v \in Ints => Wrap(v) = v
  BY <1>1, <1>2, <1>3, <1>4
<1>8. (H <= v /\ v < 3 * H) => Wrap(v) = v - M
  BY <1>1, <1>2, <1>4
<1>9. (-3 * H <= v /\ v < -H) => Wrap(v) = v + M
  BY <1>1, <1>2, <1>4
<1> QED
  BY <1>6, <1>7, <1>8, <1>9

-----------------------------------------------------------------------------
(* The entity.                                                             *)

(***************************************************************************)
(* What EntityExact and DeathIsFinal need: the members are ints, and the   *)
(* dead have exactly 0 hit points, whatever the heals before have done.    *)
(***************************************************************************)
EntityInv ==
  /\ hp \in Ints /\ max_hp \in MaxHps
  /\ alive \in BOOLEAN /\ overflowed \in BOOLEAN
  /\ px \in Ints /\ py \in Ints
  /\ ~alive => hp = 0
  /\ HpInRange

(* Every int is an integer; what the caller passes are ints.               *)
LEMMA EntityArguments ==
  /\ Ints \subseteq Int /\ 0 \in Ints
  /\ \A m \in MaxHps : m \in Ints /\ m > 0
  /\ \A a \in Amounts : a \in Ints /\ a >= 0
  /\ Coords \subseteq Ints /\ Deltas \subseteq Ints
<1>1. Ints \subseteq Int
  BY HalfRange DEF Ints
<1>2. 0 \in Ints
  BY HalfRange
<1>3. \A a \in MaxHps \cup Amounts : a \in Ints /\ a >= 0
  <2>1. TAKE a \in MaxHps \cup Amounts
  <2>2. a \in 0..IntMax
    BY <2>1, HpAssumption
  <2> QED
    BY <2>2, HalfRange
<1>4. \A m \in MaxHps : m > 0
  BY <1>1, <1>3, HpAssumption
<1> QED
  BY <1>1, <1>2, <1>3, <1>4, CoordsAssumption

(* The invariant holds of a new entity.                                    *)
LEMMA EntityInvInit == EntityInit => EntityInv
<1> SUFFICES ASSUME EntityInit PROVE EntityInv
  OBVIOUS
<1>1. /\ max_hp \in MaxHps /\ hp = max_hp /\ alive = TRUE
      /\ px \in Coords /\ py \in Coords /\ overflowed = FALSE
  BY DEF EntityInit
<1>2. max_hp \in Ints /\ max_hp > 0 /\ max_hp \in Int
  BY <1>1, EntityArguments
<1>3. hp \in Ints /\ px \in Ints /\ py \in Ints
  BY <1>1, <1>2, EntityArguments
<1>4. 0 <= hp /\ hp <= max_hp /\ hp > 0
  BY <1>1, <1>2
<1> QED
  BY <1>1, <1>3, <1>4, Zenon DEF EntityInv, HpInRange

(* entity_init makes a new one.                                            *)
LEMMA InitKeepsEntity ==
  ASSUME NEW m \in MaxHps, entity_init(m)
  PROVE  EntityInv'
<1>1. PICK cx \in Coords, cy \in Coords : Fresh(m, cx, cy)
  BY DEF entity_init
<1>2. /\ max_hp' = m /\ hp' = m /\ alive' = TRUE
      /\ px' = cx /\ py' = cy /\ overflowed' = FALSE
  BY <1>1 DEF Fresh
<1>3. m \in Ints /\ m > 0 /\ m \in Int
  BY EntityArguments
<1>4. hp' \in Ints /\ px' \in Ints /\ py' \in Ints /\ max_hp' \in MaxHps
  BY <1>2, <1>3, EntityArguments
<1>5. 0 <= hp' /\ hp' <= max_hp' /\ hp' > 0
  BY <1>2, <1>3
<1> QED
  BY <1>2, <1>4, <1>5, Zenon DEF EntityInv, HpInRange

(* A hit.                                                                  *)
LEMMA DamageKeepsEntity ==
  ASSUME EntityInv, NEW a \in Amounts, entity_take_damage(a)
  PROVE  EntityInv' /\ (~alive => ~alive' /\ hp' = 0)
<1> DEFINE h == Wrap(hp - a)
<1>1. hp \in Int /\ a \in Int /\ a >= 0 /\ hp - a \in Int /\ max_hp \in Int /\ max_hp > 0
  <2>1. hp \in Ints /\ max_hp \in MaxHps
    BY Zenon DEF EntityInv
  <2>2. a \in Ints /\ a >= 0 /\ max_hp \in Ints /\ max_hp > 0
    BY <2>1, EntityArguments
  <2>3. a \in Int /\ hp \in Int /\ max_hp \in Int
    BY <2>1, <2>2, EntityArguments
  <2> QED
    BY <2>2, <2>3
<1>2. h \in Ints /\ h \in Int
  BY <1>1, WrapFacts, EntityArguments
<1>3. (hp >= 0) => h = hp - a
  <2>1. HAVE hp >= 0
  <2>2. hp - a \in Ints
    BY <1>1, <2>1, HalfRange, EntityArguments DEF EntityInv
  <2> QED
    BY <1>1, <2>2, WrapFacts
<1>4. /\ hp' = IF h <= 0 THEN 0 ELSE h
      /\ alive' = (alive /\ ~(h <= 0))
      /\ UNCHANGED <<max_hp, px, py, overflowed>>
  BY DEF entity_take_damage, Dies
<1> HIDE DEF h
<1>5. alive' \in BOOLEAN
  BY <1>4 DEF EntityInv
<1>6. hp' \in Ints
  BY <1>2, <1>4, EntityArguments
<1>7. ~alive => ~alive' /\ hp' = 0
  BY <1>1, <1>2, <1>3, <1>4 DEF EntityInv
<1>8. ~alive' => hp' = 0
  BY <1>2, <1>4, <1>7 DEF EntityInv
<1>9. HpInRange'
  BY <1>1, <1>2, <1>3, <1>4, <1>7 DEF EntityInv, HpInRange
<1> QED
  BY <1>4, <1>5, <1>6, <1>7, <1>8, <1>9 DEF EntityInv

(* A heal.                                                                 *)
LEMMA HealKeepsEntity ==
  ASSUME EntityInv, NEW a \in Amounts, entity_heal(a)
  PROVE  EntityInv' /\ alive
<1> DEFINE h == Wrap(hp + a)
<1>1. /\ hp \in Int /\ a \in Int /\ a >= 0 /\ hp + a \in Int /\ max_hp \in Int /\ max_hp > 0
      /\ max_hp \in Ints
  <2>1. hp \in Ints /\ max_hp \in MaxHps
    BY Zenon DEF EntityInv
  <2>2. a \in Ints /\ a >= 0 /\ max_hp \in Ints /\ max_hp > 0
    BY <2>1, EntityArguments
  <2>3. a \in Int /\ hp \in Int /\ max_hp \in Int
    BY <2>1, <2>2, EntityArguments
  <2> QED
    BY <2>2, <2>3
<1>2. h \in Ints /\ h \in Int
  BY <1>1, WrapFacts, EntityArguments
<1>3. (0 <= hp /\ hp + a <= IntMax) => h = hp + a
  <2>1. HAVE 0 <= hp /\ hp + a <= IntMax
  <2>2. hp + a \in Ints
    BY <1>1, <2>1, HalfRange
  <2> QED
    BY <1>1, <2>2, WrapFacts
<1>4. /\ alive
      /\ hp' = IF h > max_hp THEN max_hp ELSE h
      /\ overflowed' = (overflowed \/ hp + a > IntMax)
      /\ UNCHANGED <<max_hp, alive, px, py>>
  BY DEF entity_heal, CanHeal
<1> HIDE DEF h
<1>5. overflowed' \in BOOLEAN
  BY <1>4 DEF EntityInv
<1>6. hp' \in Ints
  BY <1>1, <1>2, <1>4
<1>7. HpInRange'
  <2> SUFFICES ASSUME ~overflowed'
               PROVE  0 <= hp' /\ hp' <= max_hp' /\ hp' > 0
    BY <1>4, Zenon DEF HpInRange
  <2>1. ~overflowed /\ ~(hp + a > IntMax)
    BY <1>4, Zenon
  <2>2. 0 <= hp /\ hp <= max_hp /\ hp > 0
    BY <1>4, <2>1, Zenon DEF EntityInv, HpInRange
  <2>3. IntMax \in Int
    BY HalfRange
  <2>4. hp + a <= IntMax
    BY <1>1, <2>1, <2>3
  <2>5. h = hp + a
    BY <1>3, <2>2, <2>4
  <2> QED
    BY <1>1, <1>4, <2>2, <2>5
<1> QED
  BY <1>4, <1>5, <1>6, <1>7 DEF EntityInv

(* A move.                                                                 *)
LEMMA MoveKeepsEntity ==
  ASSUME EntityInv, NEW dx \in Deltas, NEW dy \in Deltas, entity_move(dx, dy)
  PROVE  EntityInv' /\ (~alive => ~alive' /\ hp' = 0)
<1>1. px + dx \in Int /\ py + dy \in Int
  BY EntityArguments DEF EntityInv
<1>2. Wrap(px + dx) \in Ints /\ Wrap(py + dy) \in Ints
  BY <1>1, WrapFacts
<1> QED
  BY <1>2 DEF EntityInv, HpInRange, entity_move, life

(***************************************************************************)
(* The distance along an axis is an int, the same from both ends, and      *)
(* exact whenever the exact one is an int.  Two ints may be almost twice   *)
(* the range apart: then both differences wrap.                            *)
(***************************************************************************)
LEMMA AxisFacts ==
  ASSUME NEW a \in Ints, NEW b \in Ints, a <= b
  PROVE  /\ AxisDistance(a, b) \in Ints
         /\ AxisDistance(a, b) = AxisDistance(b, a)
         /\ b - a \in Ints => AxisDistance(a, b) = b - a
<1> DEFINE H == HalfCount
           e == b - a
<1>1. /\ H \in Nat \ {0} /\ a \in Int /\ b \in Int
      /\ -H <= a /\ a < H /\ -H <= b /\ b < H
  BY HalfRange, EntityArguments
<1>2. e \in Int /\ 0 <= e /\ e < 2 * H /\ -e \in Int /\ a - b = -e
  BY <1>1
<1>3. AxisDistance(a, b) = abs(Wrap(-e)) /\ AxisDistance(b, a) = abs(Wrap(e))
  BY <1>2 DEF AxisDistance
<1>4. e \in Ints <=> e < H
  BY <1>1, <1>2, HalfRange
<1> HIDE DEF H, e
<1>5. CASE e < H
  <2>1. -e \in Ints
    BY <1>1, <1>2, <1>5, HalfRange DEF H
  <2>2. Wrap(-e) = -e /\ Wrap(e) = e
    BY <1>2, <1>4, <1>5, <2>1, WrapFacts
  <2>3. abs(e) = e /\ abs(-e) = e
    BY <1>2, <2>2 DEF abs
  <2> QED
    BY <1>3, <1>4, <1>5, <2>2, <2>3 DEF e
<1>6. CASE e = H
  <2>1. -H \in Ints /\ -H \in Int /\ H \in Int
    BY <1>1, HalfRange DEF H
  <2>2. Wrap(-H) = -H
    BY <2>1, WrapFacts
  <2>3. H <= H /\ H < 3 * H
    BY <1>1
  <2>4. Wrap(H) = H - 2 * H
    BY <2>1, <2>3, WrapFacts DEF H
  <2>5. Wrap(H) = -H
    BY <2>1, <2>4
  <2>6. abs(-H) = -H
    <3>1. -H < 0 /\ -(-H) = H
      BY <1>1
    <3> QED
      BY <3>1, <2>5 DEF abs
  <2> QED
    BY <1>3, <1>4, <1>6, <1>1, <2>1, <2>2, <2>5, <2>6 DEF e
<1>7. CASE e > H
  <2> DEFINE g == 2 * H - e
  <2>1. g \in Int /\ 0 < g /\ g < H /\ -g \in Int
    BY <1>1, <1>2, <1>7
  <2>2. g \in Ints /\ -g \in Ints
    BY <1>1, <2>1, HalfRange DEF H
  <2>3. Wrap(e) = e - 2 * H
    <3>1. H <= e /\ e < 3 * H
      BY <1>1, <1>2, <1>7
    <3> QED
      BY <1>2, <3>1, WrapFacts DEF H
  <2>4. Wrap(-e) = (-e) + 2 * H
    <3>1. -3 * H <= -e /\ -e < -H
      BY <1>1, <1>2, <1>7
    <3> QED
      BY <1>2, <3>1, WrapFacts DEF H
  <2>5. Wrap(e) = -g /\ Wrap(-e) = g
    BY <1>1, <1>2, <2>3, <2>4
  <2> HIDE DEF g
  <2>6. Wrap(g) = g
    BY <2>1, <2>2, WrapFacts
  <2>7. abs(g) = g /\ abs(-g) = g
    BY <2>1, <2>6 DEF abs
  <2> QED
    BY <1>1, <1>2, <1>3, <1>4, <1>7, <2>2, <2>5, <2>7 DEF e
<1> QED
  BY <1>1, <1>2, <1>5, <1>6, <1>7

(* The same for two ints in either order.                                  *)
LEMMA AxisExact ==
  ASSUME NEW a \in Ints, NEW b \in Ints
  PROVE  LET e == IF a < b THEN b - a ELSE a - b
         IN  /\ e \in Int /\ 0 <= e
             /\ AxisDistance(a, b) \in Ints
             /\ AxisDistance(a, b) = AxisDistance(b, a)
             /\ e \in Ints => AxisDistance(a, b) = e
<1>1. a \in Int /\ b \in Int
  BY EntityArguments
<1>2. CASE a < b
  <2>1. a <= b
    BY <1>1, <1>2
  <2> QED
    BY <1>1, <1>2, <2>1, AxisFacts
<1>3. CASE ~(a < b)
  <2>1. b <= a
    BY <1>1, <1>3
  <2> QED
    BY <1>1, <1>3, <2>1, AxisFacts
<1> QED
  BY <1>2, <1>3

(* The position and what is asked about it are ints: the rest is Wrap.     *)
LEMMA DistanceFollows == EntityInv => DistanceExact
<1> SUFFICES ASSUME EntityInv, NEW qx \in Coords, NEW qy \in Coords
             PROVE  LET d == (IF px < qx THEN qx - px ELSE px - qx) + (IF py < qy THEN qy - py ELSE py - qy)
                    IN  /\ d \in Ints => entity_distance(px, py, qx, qy) = d
                        /\ entity_distance(px, py, qx, qy) = entity_distance(qx, qy, px, py)
  BY DEF DistanceExact
<1> DEFINE ex == IF px < qx THEN qx - px ELSE px - qx
           ey == IF py < qy THEN qy - py ELSE py - qy
<1>1. px \in Ints /\ py \in Ints
  BY Zenon DEF EntityInv
<1>2. qx \in Ints /\ qy \in Ints
  BY EntityArguments
<1>3. /\ ex \in Int /\ 0 <= ex
      /\ AxisDistance(px, qx) = AxisDistance(qx, px)
      /\ ex \in Ints => AxisDistance(px, qx) = ex
  BY <1>1, <1>2, AxisExact
<1>4. /\ ey \in Int /\ 0 <= ey
      /\ AxisDistance(py, qy) = AxisDistance(qy, py)
      /\ ey \in Ints => AxisDistance(py, qy) = ey
  BY <1>1, <1>2, AxisExact
<1>5. entity_distance(px, py, qx, qy) = entity_distance(qx, qy, px, py)
  BY <1>3, <1>4 DEF entity_distance
<1> HIDE DEF ex, ey
<1>6. ASSUME ex + ey \in Ints PROVE entity_distance(px, py, qx, qy) = ex + ey
  <2>1. ex + ey \in Int /\ ex + ey < HalfCount /\ HalfCount \in Int /\ 0 < HalfCount
    BY <1>3, <1>4, <1>6, HalfRange
  <2>2. -HalfCount <= ex /\ ex < HalfCount /\ -HalfCount <= ey /\ ey < HalfCount
    BY <1>3, <1>4, <2>1
  <2>3. ex \in Ints /\ ey \in Ints
    BY <1>3, <1>4, <2>2, HalfRange
  <2>4. Wrap(ex + ey) = ex + ey
    BY <1>6, <2>1, WrapFacts
  <2> QED
    BY <1>3, <1>4, <2>3, <2>4 DEF entity_distance
<1> QED
  BY <1>5, <1>6 DEF ex, ey

(* The invariant through every call.                                       *)
LEMMA EntityInductive == EntityInv /\ [EntityNext]_entityVars => EntityInv'
<1> SUFFICES ASSUME EntityInv, [EntityNext]_entityVars PROVE EntityInv'
  OBVIOUS
<1>1. ASSUME NEW m \in MaxHps, entity_init(m) PROVE EntityInv'
  BY <1>1, InitKeepsEntity
<1>2. ASSUME NEW a \in Amounts, entity_take_damage(a) PROVE EntityInv'
  BY <1>2, DamageKeepsEntity
<1>3. ASSUME NEW a \in Amounts, entity_heal(a) PROVE EntityInv'
  BY <1>3, HealKeepsEntity
<1>4. ASSUME NEW dx \in Deltas, NEW dy \in Deltas, entity_move(dx, dy) PROVE EntityInv'
  BY <1>4, MoveKeepsEntity
<1>5. CASE UNCHANGED entityVars
  BY <1>5 DEF EntityInv, HpInRange, entityVars, life
<1> QED
  BY <1>1, <1>2, <1>3, <1>4, <1>5 DEF EntityNext

(***************************************************************************)
(* Through any sequence of calls the hit points stay between 0 and max_hp  *)
(* and agree with alive, unless a heal has left the range of int, and      *)
(* entity_distance is the Manhattan distance whenever that is an int.      *)
(***************************************************************************)
THEOREM EntitySound == EntitySpec => []EntityExact
<1>1. EntityInv => EntityExact
  <2>1. EntityInv => HpInRange
    BY DEF EntityInv
  <2> QED
    BY <2>1, DistanceFollows DEF EntityExact
<1> QED
  BY EntityInvInit, EntityInductive, <1>1, PTL DEF EntitySpec

(***************************************************************************)
(* No call but entity_init brings an entity back to life, even one whose   *)
(* hit points have left the range of int before it died.                   *)
(***************************************************************************)
THEOREM DeadStayDead == EntitySpec => DeathIsFinal
<1>1. EntityInv /\ [EntityNext]_entityVars
      => [~alive => \/ ~alive' /\ hp' = 0
                    \/ \E m \in MaxHps : entity_init(m)]_entityVars
  <2> SUFFICES ASSUME EntityInv, EntityNext, ~alive
               PROVE  \/ ~alive' /\ hp' = 0
                      \/ \E m \in MaxHps : entity_init(m)
    OBVIOUS
  <2>1. ASSUME NEW a \in Amounts, entity_take_damage(a) PROVE ~alive' /\ hp' = 0
    BY <2>1, DamageKeepsEntity
  <2>2. ASSUME NEW a \in Amounts, entity_heal(a) PROVE FALSE
    BY <2>2, HealKeepsEntity
  <2>3. ASSUME NEW dx \in Deltas, NEW dy \in Deltas, entity_move(dx, dy) PROVE ~alive' /\ hp' = 0
    BY <2>3, MoveKeepsEntity
  <2> QED
    BY <2>1, <2>2, <2>3 DEF EntityNext
<1> QED
  BY EntityInvInit, EntityInductive, <1>1, PTL DEF EntitySpec, DeathIsFinal

-----------------------------------------------------------------------------
(* array_reverse.                                                          *)

(* An array of n numbers is a sequence.                                    *)
LEMMA ArrayIsSeq ==
  ASSUME NEW n \in Nat, NEW a \in [1..n -> Items]
  PROVE  a \in Seq(Items) /\ Len(a) = n /\ DOMAIN a = 1..n
<1>1. a \in Seq(Items)
  OBVIOUS
<1> QED
  BY <1>1

(* The pairs that the loop has exchanged: the outer ones.                  *)
Exchanged(j) == j <= swaps \/ j > Len(original) - swaps

(* Half the length, as the division rounds it.                             *)
LEMMA Halves ==
  ASSUME NEW n \in Nat
  PROVE  n \div 2 \in Nat /\ 2 * (n \div 2) <= n /\ n <= 2 * (n \div 2) + 1
  OBVIOUS

(***************************************************************************)
(* In the middle of the loop the outer pairs are exchanged and the rest is *)
(* as it was.                                                              *)
(***************************************************************************)
ArraysInv ==
  /\ arr \in Seq(Items) /\ original \in Seq(Items)
  /\ swaps \in Nat /\ busy \in BOOLEAN
  /\ busy => /\ Len(original) = Len(arr)
             /\ swaps <= Half
             /\ \A j \in DOMAIN original :
                  arr[j] = IF Exchanged(j) THEN original[Len(original) + 1 - j] ELSE original[j]

(* The invariant at the start.                                             *)
LEMMA ArraysInvInit == ArraysInit => ArraysInv
<1> SUFFICES ASSUME ArraysInit PROVE ArraysInv
  OBVIOUS
<1>1. arr = <<>> /\ swaps = 0 /\ busy = FALSE /\ original = <<>>
  BY DEF ArraysInit
<1>2. arr \in Seq(Items) /\ original \in Seq(Items) /\ swaps \in Nat
  BY <1>1
<1> QED
  BY <1>1, <1>2, Zenon DEF ArraysInv

(* The caller fills the array.                                             *)
LEMMA FillKeeps == ArraysInv /\ FillArray => ArraysInv'
<1> SUFFICES ASSUME ArraysInv, FillArray PROVE ArraysInv'
  OBVIOUS
<1>1. PICK n \in 0..MaxN : arr' \in [1..n -> Items]
  BY DEF FillArray
<1>2. n \in Nat
  BY ItemsAssumption
<1>3. arr' \in Seq(Items)
  BY <1>1, <1>2, ArrayIsSeq
<1> QED
  BY <1>3, Zenon DEF ArraysInv, FillArray

(* array_reverse is called: nothing is exchanged yet.                      *)
LEMMA ReverseBegins == ArraysInv /\ array_reverse => ArraysInv'
<1> SUFFICES ASSUME ArraysInv, array_reverse PROVE ArraysInv'
  OBVIOUS
<1>1. arr' = arr /\ original' = arr /\ swaps' = 0 /\ busy' = TRUE
  BY DEF array_reverse
<1>2. arr \in Seq(Items)
  BY DEF ArraysInv
<1>3. Half' \in Nat
  BY <1>1, <1>2, Halves DEF Half
<1>4. ASSUME NEW j \in DOMAIN original' PROVE ~(Exchanged(j)')
  BY <1>1, <1>2 DEF Exchanged
<1> QED
  BY <1>1, <1>2, <1>3, <1>4 DEF ArraysInv

(* An iteration exchanges the next pair, which is not the middle.          *)
LEMMA SwapKeeps == ArraysInv /\ reverse_swaps => ArraysInv'
<1> SUFFICES ASSUME ArraysInv, reverse_swaps PROVE ArraysInv'
  OBVIOUS
<1> DEFINE n == Len(arr)
           l == swaps + 1
           r == n - swaps
<1>1. /\ busy /\ busy' = busy /\ original' = original /\ swaps' = swaps + 1
      /\ swaps < n \div 2
      /\ arr' = [arr EXCEPT ![l] = arr[r], ![r] = arr[l]]
  BY DEF reverse_swaps, Half, Mirror
<1>2. /\ arr \in Seq(Items) /\ original \in Seq(Items) /\ swaps \in Nat
      /\ Len(original) = n
      /\ \A j \in DOMAIN original :
           arr[j] = IF Exchanged(j) THEN original[Len(original) + 1 - j] ELSE original[j]
  BY <1>1, Zenon DEF ArraysInv
<1>3. n \in Nat /\ DOMAIN arr = 1..n /\ DOMAIN original = 1..n
  BY <1>2
<1>4. n \div 2 \in Nat /\ 2 * (n \div 2) <= n
  BY <1>3, Halves
<1>5. /\ l \in 1..n /\ r \in 1..n /\ l < r
      /\ n + 1 - l = r /\ n + 1 - r = l
  <2>1. swaps \in Nat /\ n \in Nat
    BY <1>2, <1>3, Zenon
  <2>2. swaps + 1 <= n \div 2
    BY <1>1, <1>4, <2>1
  <2> HIDE DEF n
  <2>3. 2 * (swaps + 1) <= n
    BY <1>4, <2>1, <2>2
  <2> QED
    BY <2>1, <2>3
<1>6. ~Exchanged(l) /\ ~Exchanged(r)
  BY <1>2, <1>3, <1>5 DEF Exchanged
<1>7. arr[l] = original[l] /\ arr[r] = original[r]
  BY <1>2, <1>3, <1>5, <1>6
<1>8. arr' \in Seq(Items) /\ Len(arr') = n
  BY <1>1, <1>2, <1>3, <1>5
<1>9. /\ arr'[l] = original[r] /\ arr'[r] = original[l]
      /\ \A j \in 1..n : j # l /\ j # r => arr'[j] = arr[j]
  BY <1>1, <1>2, <1>3, <1>5, <1>7
<1>10. \A j \in 1..n : Exchanged(j)' <=> Exchanged(j) \/ j = l \/ j = r
  <2>1. TAKE j \in 1..n
  <2>2. Exchanged(j)' <=> j <= swaps + 1 \/ j > n - (swaps + 1)
    BY <1>1, <1>2, Zenon DEF Exchanged
  <2>3. Exchanged(j) <=> j <= swaps \/ j > n - swaps
    BY <1>2, Zenon DEF Exchanged
  <2>4. swaps \in Nat /\ n \in Nat /\ j \in Int
    BY <1>2, <1>3, <2>1
  <2> HIDE DEF n
  <2> QED
    BY <2>2, <2>3, <2>4
<1>11. \A j \in 1..n :
         arr'[j] = IF Exchanged(j)' THEN original[n + 1 - j] ELSE original[j]
  <2>1. TAKE j \in 1..n
  <2>2. CASE j = l
    BY <2>2, <1>5, <1>9, <1>10
  <2>3. CASE j = r
    BY <2>3, <1>5, <1>9, <1>10
  <2>4. CASE j # l /\ j # r
    BY <2>4, <1>2, <1>3, <1>9, <1>10
  <2> QED
    BY <2>2, <2>3, <2>4
<1>12. swaps' <= Half'
  BY <1>1, <1>2, <1>4, <1>8 DEF Half
<1> HIDE DEF n, l, r
<1>13. /\ Len(original') = Len(arr')
       /\ \A j \in DOMAIN original' :
            arr'[j] = IF Exchanged(j)' THEN original'[Len(original') + 1 - j] ELSE original'[j]
  BY <1>1, <1>2, <1>3, <1>8, <1>11
<1>14. swaps' \in Nat /\ busy' = TRUE
  BY <1>1, <1>2 DEF ArraysInv
<1> QED
  BY <1>1, <1>2, <1>8, <1>12, <1>13, <1>14, Zenon DEF ArraysInv

(* The invariant through every step.                                       *)
LEMMA ArraysInductive == ArraysInv /\ [ArraysNext]_arrayVars => ArraysInv'
<1> SUFFICES ASSUME ArraysInv, [ArraysNext]_arrayVars PROVE ArraysInv'
  OBVIOUS
<1>1. CASE reverse_ends
  BY <1>1, Zenon DEF ArraysInv, reverse_ends
<1>2. CASE UNCHANGED arrayVars
  BY <1>2 DEF ArraysInv, arrayVars, Half, Exchanged
<1> QED
  BY <1>1, <1>2, FillKeeps, ReverseBegins, SwapKeeps DEF ArraysNext

(* When the loop ends every pair is exchanged, and the middle of an odd    *)
(* length is its own mirror image.                                         *)
LEMMA ReverseDone ==
  ASSUME ArraysInv, reverse_ends
  PROVE  arr' = [j \in DOMAIN original |-> original[Len(original) + 1 - j]]
<1> DEFINE n == Len(arr)
<1>1. busy /\ swaps >= n \div 2 /\ arr' = arr
  BY DEF reverse_ends, Half
<1>2. /\ arr \in Seq(Items) /\ original \in Seq(Items) /\ swaps \in Nat
      /\ Len(original) = n
      /\ \A j \in DOMAIN original :
           arr[j] = IF Exchanged(j) THEN original[Len(original) + 1 - j] ELSE original[j]
  BY <1>1, Zenon DEF ArraysInv
<1>3. n \in Nat /\ DOMAIN arr = 1..n /\ DOMAIN original = 1..n
  BY <1>2
<1>4. n \div 2 \in Nat /\ n <= 2 * (n \div 2) + 1
  BY <1>3, Halves
<1>5. \A j \in 1..n : Exchanged(j) \/ n + 1 - j = j
  <2>1. n <= 2 * swaps + 1
    BY <1>1, <1>2, <1>3, <1>4
  <2>2. TAKE j \in 1..n
  <2> HIDE DEF n
  <2>3. n \in Int /\ swaps \in Int /\ j \in Int
    BY <1>2, <1>3, <2>2
  <2>4. ASSUME ~(j <= swaps), ~(j > n - swaps) PROVE n + 1 - j = j
    BY <2>1, <2>3, <2>4
  <2>5. j <= swaps \/ j > n - swaps \/ n + 1 - j = j
    BY <2>4
  <2> QED
    BY <1>2, <2>5 DEF Exchanged
<1>6. \A j \in 1..n : arr[j] = original[n + 1 - j]
  BY <1>2, <1>3, <1>5
<1>7. arr = [j \in 1..n |-> arr[j]]
  BY <1>2, <1>3
<1> QED
  BY <1>1, <1>2, <1>3, <1>6, <1>7

(***************************************************************************)
(* array_reverse leaves the array it was given read backwards, for every   *)
(* length, and in the middle of it exactly the outer pairs are exchanged.  *)
(***************************************************************************)
THEOREM ReverseReverses == ArraysSpec => ReverseReturns
<1> DEFINE Step ==
      /\ busy /\ ~busy' => arr' = [j \in DOMAIN original |-> original[Len(original) + 1 - j]]
      /\ busy' => \A j \in DOMAIN original' :
           arr'[j] = IF j <= swaps' \/ j > Len(original') - swaps'
                     THEN original'[Len(original') + 1 - j] ELSE original'[j]
<1>1. ArraysInv /\ ArraysInv' /\ [ArraysNext]_arrayVars => [Step]_arrayVars
  <2> SUFFICES ASSUME ArraysInv, ArraysInv', ArraysNext PROVE Step
    OBVIOUS
  <2>1. busy' => \A j \in DOMAIN original' :
           arr'[j] = IF j <= swaps' \/ j > Len(original') - swaps'
                     THEN original'[Len(original') + 1 - j] ELSE original'[j]
    BY Zenon DEF ArraysInv, Exchanged
  <2>2. busy /\ ~busy' => reverse_ends
    BY Zenon DEF ArraysNext, FillArray, array_reverse, reverse_swaps
  <2> QED
    BY <2>1, <2>2, ReverseDone
<1> QED
  BY ArraysInvInit, ArraysInductive, <1>1, PTL DEF ArraysSpec, ReverseReturns

-----------------------------------------------------------------------------
(* Loops as recursive functions.                                           *)

(* A set that contains 0 and, with every number below n, its successor,    *)
(* contains all numbers up to n: otherwise there is a least exception.     *)
LEMMA UpTo ==
  ASSUME NEW n \in Nat, NEW T, 0 \in T,
         \A m \in 1..n : m - 1 \in T => m \in T
  PROVE  \A m \in 0..n : m \in T
<1> DEFINE S == {m \in 0..n : m \notin T}
<1>1. SUFFICES ASSUME S # {} PROVE FALSE
  OBVIOUS
<1>2. S \in SUBSET Nat
  OBVIOUS
<1>3. IsWellFoundedOn(OpToRel(<, Nat), Nat)
  BY NatLessThanWellFounded
<1>4. PICK m \in S : \A k \in S : ~(<<k, m>> \in OpToRel(<, Nat))
  BY <1>1, <1>2, <1>3, WFMin
<1>5. \A k \in S : ~(k < m)
  BY <1>2, <1>4 DEF OpToRel
<1>6. m \in 0..n /\ m \notin T /\ m # 0
  BY <1>4
<1>7. m \in 1..n /\ m - 1 \in 0..n /\ m - 1 < m
  BY <1>6
<1>8. m - 1 \in T
  BY <1>5, <1>7
<1> QED
  BY <1>6, <1>7, <1>8

(* The results of a loop after 0 to n iterations: each is computed from    *)
(* the one before.                                                         *)
Iterates(g, n, S, s0, F) ==
  /\ g \in [0..n -> S]
  /\ g[0] = s0
  /\ \A m \in 1..n : g[m] = F[<<g[m - 1], m>>]

(* A loop of n iterations has such results.                                *)
LEMMA LoopRuns ==
  ASSUME NEW n \in Nat, NEW S, NEW s0 \in S, NEW F \in [S \X (1..n) -> S]
  PROVE  \E g : Iterates(g, n, S, s0, F)
<1> DEFINE T == {k \in 0..n : \E g : Iterates(g, k, S, s0, F)}
<1>1. 0 \in T
  <2> DEFINE g == [m \in 0..0 |-> s0]
  <2>1. Iterates(g, 0, S, s0, F)
    BY DEF Iterates
  <2> QED
    BY <2>1
<1>2. ASSUME NEW k \in 1..n, k - 1 \in T PROVE k \in T
  <2>1. PICK g : Iterates(g, k - 1, S, s0, F)
    BY <1>2
  <2> DEFINE h == [m \in 0..k |-> IF m = k THEN F[<<g[k - 1], k>>] ELSE g[m]]
  <2>2. k \in Int /\ 1 <= k /\ k <= n /\ k - 1 \in 0..(k - 1)
    BY <1>2
  <2>3. g \in [0..(k - 1) -> S] /\ g[0] = s0
    BY <2>1 DEF Iterates
  <2>4. F[<<g[k - 1], k>>] \in S
    BY <2>2, <2>3
  <2>5. h \in [0..k -> S]
    BY <2>2, <2>3, <2>4
  <2>6. h[0] = s0
    BY <2>2, <2>3
  <2>7. ASSUME NEW m \in 1..k PROVE h[m] = F[<<h[m - 1], m>>]
    <3>1. h[m - 1] = g[m - 1]
      BY <2>2, <2>7
    <3>2. CASE m = k
      <4>1. h[k] = F[<<g[k - 1], k>>]
        BY <2>2
      <4> HIDE DEF h
      <4> QED
        BY <3>1, <3>2, <4>1, Zenon
    <3>3. CASE m # k
      <4>1. m \in 1..(k - 1) /\ m \in 0..k
        BY <2>2, <3>3
      <4>2. g[m] = F[<<g[m - 1], m>>]
        BY <2>1, <4>1 DEF Iterates
      <4> QED
        BY <3>1, <3>3, <4>1, <4>2
    <3> QED
      BY <3>2, <3>3
  <2> HIDE DEF h
  <2>8. Iterates(h, k, S, s0, F)
    BY <2>5, <2>6, <2>7 DEF Iterates
  <2>9. k \in 0..n
    BY <2>2
  <2> QED
    BY <2>8, <2>9
<1> HIDE DEF T
<1>3. \A m \in 0..n : m \in T
  BY <1>1, <1>2, UpTo
<1>4. n \in T
  BY <1>3
<1> QED
  BY <1>4 DEF T

-----------------------------------------------------------------------------
(* The functions that only look at an array.                               *)

(* The partial sums of a, exact and as the variable sum of array_sum.      *)
Exact(a) ==
  LET exact[n \in 0..Len(a)] == IF n = 0 THEN 0 ELSE exact[n - 1] + a[n] IN exact

Wrapped(a) ==
  LET sum[n \in 0..Len(a)] == IF n = 0 THEN 0 ELSE Wrap(sum[n - 1] + a[n]) IN sum

(* The exact sums are what the recursive definition says.                  *)
LEMMA ExactDef ==
  ASSUME NEW a \in Seq(Int)
  PROVE  /\ Exact(a)[0] = 0
         /\ \A m \in 1..Len(a) : Exact(a)[m] = Exact(a)[m - 1] + a[m]
<1> DEFINE n == Len(a)
           F == [p \in Int \X (1..n) |-> p[1] + a[p[2]]]
           Rec(g) == g = [m \in 0..n |-> IF m = 0 THEN 0 ELSE g[m - 1] + a[m]]
<1>1. n \in Nat /\ \A m \in 1..n : a[m] \in Int
  OBVIOUS
<1>2. F \in [Int \X (1..n) -> Int]
  BY <1>1
<1>3. \A v \in Int, m \in 1..n : F[<<v, m>>] = v + a[m]
  BY <1>1
<1> HIDE DEF F, n
<1>4. PICK g : Iterates(g, n, Int, 0, F)
  <2>1. n \in Nat /\ 0 \in Int
    BY <1>1
  <2> QED
    BY <1>2, <2>1, LoopRuns, Zenon
<1>5. g \in [0..n -> Int] /\ g[0] = 0
  BY <1>4 DEF Iterates
<1>6. ASSUME NEW m \in 1..n PROVE g[m] = g[m - 1] + a[m]
  <2>1. g[m] = F[<<g[m - 1], m>>]
    BY <1>4 DEF Iterates
  <2>2. g[m - 1] \in Int
    BY <1>1, <1>5
  <2> QED
    BY <1>3, <2>1, <2>2
<1>7. \A m \in 0..n : g[m] = IF m = 0 THEN 0 ELSE g[m - 1] + a[m]
  BY <1>1, <1>5, <1>6
<1>8. Rec(g)
  BY <1>5, <1>7
<1>9. Exact(a) = CHOOSE e : Rec(e)
  BY DEF Exact, n
<1>10. Rec(Exact(a))
  BY <1>8, <1>9
<1>11. \A m \in 0..n : Exact(a)[m] = IF m = 0 THEN 0 ELSE Exact(a)[m - 1] + a[m]
  BY <1>10
<1> QED
  BY <1>1, <1>11 DEF n

(* So are the sums that wrap, which are ints.                              *)
LEMMA WrappedDef ==
  ASSUME NEW a \in Seq(Int)
  PROVE  /\ Wrapped(a)[0] = 0
         /\ \A m \in 1..Len(a) : Wrapped(a)[m] = Wrap(Wrapped(a)[m - 1] + a[m])
<1> DEFINE n == Len(a)
           F == [p \in Int \X (1..n) |-> Wrap(p[1] + a[p[2]])]
           Rec(g) == g = [m \in 0..n |-> IF m = 0 THEN 0 ELSE Wrap(g[m - 1] + a[m])]
<1>1. n \in Nat /\ \A m \in 1..n : a[m] \in Int
  OBVIOUS
<1>2. \A v \in Int : Wrap(v) \in Int
  BY WrapFacts, EntityArguments
<1>3. F \in [Int \X (1..n) -> Int]
  <2>1. ASSUME NEW p \in Int \X (1..n) PROVE Wrap(p[1] + a[p[2]]) \in Int
    <3>1. p[1] + a[p[2]] \in Int
      BY <1>1, <2>1
    <3> QED
      BY <1>2, <3>1
  <2> QED
    BY <2>1
<1>4. \A v \in Int, m \in 1..n : F[<<v, m>>] = Wrap(v + a[m])
  OBVIOUS
<1> HIDE DEF F, n
<1>5. PICK g : Iterates(g, n, Int, 0, F)
  <2>1. n \in Nat /\ 0 \in Int
    BY <1>1
  <2> QED
    BY <1>3, <2>1, LoopRuns, Zenon
<1>6. g \in [0..n -> Int] /\ g[0] = 0
  BY <1>5 DEF Iterates
<1>7. ASSUME NEW m \in 1..n PROVE g[m] = Wrap(g[m - 1] + a[m])
  <2>1. g[m] = F[<<g[m - 1], m>>]
    BY <1>5 DEF Iterates
  <2>2. g[m - 1] \in Int
    BY <1>1, <1>6
  <2> QED
    BY <1>4, <2>1, <2>2
<1>8. \A m \in 0..n : g[m] = IF m = 0 THEN 0 ELSE Wrap(g[m - 1] + a[m])
  BY <1>1, <1>6, <1>7
<1>9. Rec(g)
  BY <1>6, <1>8
<1>10. Wrapped(a) = CHOOSE e : Rec(e)
  BY DEF Wrapped, n
<1>11. Rec(Wrapped(a))
  BY <1>9, <1>10
<1>12. \A m \in 0..n : Wrapped(a)[m] = IF m = 0 THEN 0 ELSE Wrap(Wrapped(a)[m - 1] + a[m])
  BY <1>11
<1> QED
  BY <1>1, <1>12 DEF n

(* Wrap changes a number by a multiple of the number of ints.              *)
LEMMA WrapShifts ==
  ASSUME NEW v \in Int
  PROVE  \E k \in Int : Wrap(v) = v + (2 * HalfCount) * k
<1> DEFINE M == 2 * HalfCount
           q == (v + HalfCount) \div M
           r == (v + HalfCount) % M
<1>1. HalfCount \in Nat \ {0} /\ M \in Nat \ {0} /\ v + HalfCount \in Int
  BY HalfRange
<1>2. Wrap(v) = r - HalfCount
  BY HalfRange
<1>3. v + HalfCount = M * q + r /\ q \in Int /\ r \in Int
  BY <1>1, Remainders
<1> HIDE DEF q, r, M
<1>4. M * q \in Int /\ M * (-q) = -(M * q) /\ -q \in Int
  BY <1>1, <1>3
<1>5. Wrap(v) = v + M * (-q)
  BY <1>1, <1>2, <1>3, <1>4
<1> QED
  BY <1>4, <1>5 DEF M

(* Two ints that differ by a multiple of the number of ints are equal.     *)
LEMMA SameInt ==
  ASSUME NEW v \in Ints, NEW w \in Ints, NEW k \in Int, w = v + (2 * HalfCount) * k
  PROVE  w = v
<1> DEFINE M == 2 * HalfCount
<1>1. HalfCount \in Nat \ {0} /\ v \in Int /\ w \in Int
  BY HalfRange, EntityArguments
<1>2. -HalfCount <= v /\ v < HalfCount /\ -HalfCount <= w /\ w < HalfCount
  BY <1>1, HalfRange
<1>3. M \in Nat \ {0} /\ w = v + M * k /\ v < w + M /\ w < v + M
  BY <1>1, <1>2
<1> HIDE DEF M
<1>4. M * k \in Int /\ M * k < M /\ -M < M * k
  BY <1>1, <1>3
<1>5. k >= 1 => M * k >= M
  BY <1>3
<1>6. k <= -1 => M * k <= -M
  BY <1>3
<1>7. k = 0
  BY <1>3, <1>4, <1>5, <1>6
<1>8. M * k = 0
  BY <1>3, <1>7
<1> QED
  BY <1>1, <1>3, <1>8

(***************************************************************************)
(* Every partial sum is the exact one up to a multiple of the number of    *)
(* ints: an overflow on the way is undone by the end.                      *)
(***************************************************************************)
LEMMA SumsDiffer ==
  ASSUME NEW a \in Seq(Int)
  PROVE  /\ Exact(a)[Len(a)] \in Int /\ Wrapped(a)[Len(a)] \in Ints
         /\ \E k \in Int : Wrapped(a)[Len(a)] = Exact(a)[Len(a)] + (2 * HalfCount) * k
<1> DEFINE n == Len(a)
           M == 2 * HalfCount
           e == Exact(a)
           w == Wrapped(a)
           T == {m \in 0..n : /\ e[m] \in Int /\ w[m] \in Ints
                              /\ \E k \in Int : w[m] = e[m] + M * k}
<1>1. n \in Nat /\ (\A m \in 1..n : a[m] \in Int) /\ M \in Int
  BY HalfRange, SMTT(30)
<1>2. e[0] = 0 /\ w[0] = 0
  BY ExactDef, WrappedDef
<1>3. \A m \in 1..n : e[m] = e[m - 1] + a[m] /\ w[m] = Wrap(w[m - 1] + a[m])
  BY ExactDef, WrappedDef
<1> HIDE DEF e, w, n, M
<1>4. 0 \in T
  <2>1. 0 = 0 + M * 0 /\ 0 \in 0..n
    BY <1>1
  <2> QED
    BY <1>2, <2>1, EntityArguments
<1>5. ASSUME NEW m \in 1..n, m - 1 \in T PROVE m \in T
  <2>1. /\ e[m - 1] \in Int /\ w[m - 1] \in Int /\ a[m] \in Int
        /\ \E k \in Int : w[m - 1] = e[m - 1] + M * k
    BY <1>1, <1>5, EntityArguments
  <2>2. PICK k \in Int : w[m - 1] = e[m - 1] + M * k
    BY <2>1
  <2>3. w[m - 1] + a[m] \in Int
    BY <2>1
  <2>4. w[m] \in Ints
    BY <1>3, <2>3, WrapFacts
  <2>5. PICK j \in Int : Wrap(w[m - 1] + a[m]) = (w[m - 1] + a[m]) + M * j
    BY <2>3, WrapShifts DEF M
  <2>6. M * (k + j) = M * k + M * j /\ M * k \in Int /\ M * j \in Int /\ k + j \in Int
    BY <1>1
  <2>7. e[m] = e[m - 1] + a[m] /\ e[m] \in Int
    BY <1>3, <2>1
  <2>8. w[m] = e[m] + M * (k + j)
    <3>1. w[m] = (w[m - 1] + a[m]) + M * j
      BY <1>3, <2>5
    <3> QED
      BY <2>1, <2>2, <2>6, <2>7, <3>1, SMTT(30)
  <2>9. m \in 0..n
    BY <1>1
  <2> QED
    BY <2>4, <2>6, <2>7, <2>8, <2>9
<1>6. \A m \in 0..n : m \in T
  <2> HIDE DEF T
  <2> QED
    BY <1>1, <1>4, <1>5, UpTo
<1>7. n \in T
  <2>1. n \in 0..n
    BY <1>1
  <2> QED
    BY <1>6, <2>1, Zenon
<1> QED
  BY <1>7 DEF n, M, e, w

(* The elements are ints.                                                  *)
LEMMA ArrayOfInts ==
  ASSUME ArraysInv
  PROVE  arr \in Seq(Int)
<1>1. arr \in Seq(Items)
  BY Zenon DEF ArraysInv
<1>2. Len(arr) \in Nat /\ arr \in [1..Len(arr) -> Items]
  BY <1>1
<1>3. \A v \in Items : v \in Int
  BY ItemsAssumption, EntityArguments
<1>4. arr \in [1..Len(arr) -> Int]
  BY <1>2, <1>3
<1> QED
  BY <1>2, <1>4

(* array_sum.                                                              *)
LEMMA SumFollows == ArraysInv => SumExact
<1> SUFFICES ASSUME ArraysInv, Exact(arr)[Len(arr)] \in Ints
             PROVE  Wrapped(arr)[Len(arr)] = Exact(arr)[Len(arr)]
  BY DEF SumExact, array_sum, Exact, Wrapped
<1>2. arr \in Seq(Int)
  BY ArrayOfInts
<1>3. Wrapped(arr)[Len(arr)] \in Ints
  BY <1>2, SumsDiffer
<1>4. PICK k \in Int : Wrapped(arr)[Len(arr)] = Exact(arr)[Len(arr)] + (2 * HalfCount) * k
  BY <1>2, SumsDiffer
<1> QED
  BY <1>3, <1>4, SameInt

(* largest_idx + 1 after the loop of array_max_index has seen 1, 2, ...    *)
(* elements.                                                               *)
Largest(a) ==
  LET idx[n \in 1..Len(a)] ==
        IF n = 1 THEN 1 ELSE IF Larger(a[n], a[idx[n - 1]]) THEN n ELSE idx[n - 1]
  IN  idx

(* These places are what the recursive definition says.                    *)
LEMMA LargestDef ==
  ASSUME NEW a \in Seq(Int), Len(a) >= 1
  PROVE  /\ Largest(a)[1] = 1
         /\ \A m \in 2..Len(a) :
              Largest(a)[m] = IF a[m] > a[Largest(a)[m - 1]] THEN m ELSE Largest(a)[m - 1]
<1> DEFINE n == Len(a)
           F == [p \in (1..n) \X (1..(n - 1)) |-> IF a[p[2] + 1] > a[p[1]] THEN p[2] + 1 ELSE p[1]]
           Rec(g) == g = [m \in 1..n |-> IF m = 1 THEN 1
                                         ELSE IF Larger(a[m], a[g[m - 1]]) THEN m ELSE g[m - 1]]
<1>1. n \in Nat /\ n - 1 \in Nat /\ 1 \in 1..n /\ \A m \in 1..n : a[m] \in Int
  OBVIOUS
<1> HIDE DEF n
<1>2. F \in [(1..n) \X (1..(n - 1)) -> 1..n]
  <2>1. \A p \in (1..n) \X (1..(n - 1)) : p[1] \in 1..n /\ p[2] + 1 \in 1..n
    BY <1>1
  <2> QED
    BY <2>1
<1>3. \A v \in 1..n, m \in 1..(n - 1) : F[<<v, m>>] = IF a[m + 1] > a[v] THEN m + 1 ELSE v
  OBVIOUS
<1> HIDE DEF F
<1>4. PICK h : Iterates(h, n - 1, 1..n, 1, F)
  BY <1>1, <1>2, LoopRuns, Zenon
<1> DEFINE g == [m \in 1..n |-> h[m - 1]]
<1>5. h \in [0..(n - 1) -> 1..n] /\ h[0] = 1
  BY <1>4 DEF Iterates
<1>6. g[1] = 1
  BY <1>1, <1>5
<1>7. ASSUME NEW m \in 2..n PROVE g[m] = IF a[m] > a[g[m - 1]] THEN m ELSE g[m - 1]
  <2>1. /\ m - 1 \in 1..(n - 1) /\ (m - 1) + 1 = m /\ m \in 1..n /\ m - 1 \in 1..n
        /\ (m - 1) - 1 \in 0..(n - 1)
    BY <1>1, <1>7
  <2>2. h[m - 1] = F[<<h[(m - 1) - 1], m - 1>>]
    BY <1>4, <2>1 DEF Iterates
  <2>3. h[(m - 1) - 1] \in 1..n
    BY <1>5, <2>1
  <2>4. F[<<h[(m - 1) - 1], m - 1>>] = IF a[m] > a[h[(m - 1) - 1]] THEN m ELSE h[(m - 1) - 1]
    BY <1>3, <2>1, <2>3
  <2>5. g[m] = h[m - 1] /\ g[m - 1] = h[(m - 1) - 1]
    BY <2>1
  <2> HIDE DEF g
  <2> QED
    BY <2>2, <2>4, <2>5
<1>8. \A m \in 1..n : g[m] = IF m = 1 THEN 1
                             ELSE IF Larger(a[m], a[g[m - 1]]) THEN m ELSE g[m - 1]
  <2> HIDE DEF g
  <2> QED
    BY <1>1, <1>6, <1>7 DEF Larger
<1>9. Rec(g)
  <2>1. g = [m \in 1..n |-> g[m]]
    OBVIOUS
  <2> HIDE DEF g
  <2> QED
    BY <1>8, <2>1
<1>10. Largest(a) = CHOOSE e : Rec(e)
  BY DEF Largest, n
<1>11. Rec(Largest(a))
  BY <1>9, <1>10
<1>12. \A m \in 1..n : Largest(a)[m] = IF m = 1 THEN 1
                         ELSE IF Larger(a[m], a[Largest(a)[m - 1]]) THEN m ELSE Largest(a)[m - 1]
  BY <1>11
<1> QED
  BY <1>1, <1>12 DEF n, Larger

(* The loop keeps the first place of the largest element seen.             *)
IsFirstLargest(a, m, l) ==
  l \in 1..m /\ \A j \in 1..m : a[j] <= a[l] /\ (j < l => a[j] < a[l])

(* That is where array_max_index ends, for every array that is not empty.  *)
LEMMA LargestFirst ==
  ASSUME NEW a \in Seq(Int), Len(a) >= 1
  PROVE  IsFirstLargest(a, Len(a), Largest(a)[Len(a)])
<1> DEFINE n == Len(a)
           L == Largest(a)
           T == {m \in 0..(n - 1) : IsFirstLargest(a, m + 1, L[m + 1])}
<1>1. n \in Nat /\ n - 1 \in Nat /\ \A m \in 1..n : a[m] \in Int
  OBVIOUS
<1>2. L[1] = 1 /\ \A m \in 2..n : L[m] = IF a[m] > a[L[m - 1]] THEN m ELSE L[m - 1]
  BY LargestDef
<1> HIDE DEF n, L
<1>3. 0 \in T
  <2>1. 1 \in 1..n /\ 0 \in 0..(n - 1) /\ 0 + 1 = 1
    BY <1>1
  <2>2. IsFirstLargest(a, 1, 1)
    BY <1>1, <2>1 DEF IsFirstLargest
  <2> QED
    BY <1>2, <2>1, <2>2
<1>4. ASSUME NEW m \in 1..(n - 1), m - 1 \in T PROVE m \in T
  <2> DEFINE k == m + 1
             l == L[m]
  <2>1. m \in Int /\ 1 <= m /\ k \in 2..n /\ k - 1 = m /\ m \in 0..(n - 1) /\ (m - 1) + 1 = m
    BY <1>1, <1>4
  <2>2. IsFirstLargest(a, m, l)
    BY <1>4, <2>1
  <2>3. L[k] = IF a[k] > a[l] THEN k ELSE l
    BY <1>2, <2>1
  <2>4. l \in 1..m /\ \A j \in 1..m : a[j] <= a[l] /\ (j < l => a[j] < a[l])
    BY <2>2 DEF IsFirstLargest
  <2>5. \A j \in 1..k : j \in 1..n /\ a[j] \in Int /\ (j \in 1..m \/ j = k)
    BY <1>1, <2>1
  <2> HIDE DEF k, l
  <2>6. l \in 1..k /\ k \in 1..k /\ k \in Int /\ l < k
    BY <2>1, <2>4 DEF k
  <2>7. ASSUME a[k] > a[l] PROVE IsFirstLargest(a, k, L[k])
    <3>1. ASSUME NEW j \in 1..k PROVE a[j] <= a[k] /\ (j < k => a[j] < a[k])
      <4>1. a[j] \in Int /\ a[k] \in Int /\ a[l] \in Int
        BY <2>5, <2>6
      <4>2. j \in 1..m => a[j] < a[k]
        BY <2>4, <2>7, <4>1
      <4>3. j = k => a[j] <= a[k] /\ ~(j < k)
        BY <2>6, <4>1
      <4> QED
        BY <2>5, <4>1, <4>2, <4>3
    <3> QED
      BY <2>3, <2>6, <2>7, <3>1 DEF IsFirstLargest
  <2>8. ASSUME ~(a[k] > a[l]) PROVE IsFirstLargest(a, k, L[k])
    <3>1. ASSUME NEW j \in 1..k PROVE a[j] <= a[l] /\ (j < l => a[j] < a[l])
      <4>1. a[j] \in Int /\ a[k] \in Int /\ a[l] \in Int
        BY <2>5, <2>6
      <4>2. j = k => a[j] <= a[l] /\ ~(j < l)
        BY <2>6, <2>8, <4>1
      <4> QED
        BY <2>4, <2>5, <4>2
    <3> QED
      BY <2>3, <2>6, <2>8, <3>1 DEF IsFirstLargest
  <2>9. IsFirstLargest(a, k, L[k])
    BY <2>7, <2>8
  <2> QED
    BY <2>1, <2>9 DEF k
<1>5. \A m \in 0..(n - 1) : m \in T
  <2> HIDE DEF T
  <2> QED
    BY <1>1, <1>3, <1>4, UpTo
<1>6. n - 1 \in T /\ (n - 1) + 1 = n
  <2>1. n - 1 \in 0..(n - 1) /\ (n - 1) + 1 = n
    BY <1>1
  <2> QED
    BY <1>5, <2>1, Zenon
<1> QED
  BY <1>6 DEF n, L

(* array_max_index.                                                        *)
LEMMA MaxIndexFollows == ArraysInv => MaxIndexFirst
<1> SUFFICES ASSUME ArraysInv PROVE MaxIndexFirst
  OBVIOUS
<1>1. arr \in Seq(Int)
  BY ArrayOfInts
<1>2. CASE arr = <<>>
  <2>1. array_max_index(arr) = -1
    BY <1>2 DEF array_max_index
  <2> QED
    BY <1>2, <2>1 DEF MaxIndexFirst
<1>3. CASE arr # <<>>
  <2> DEFINE l == Largest(arr)[Len(arr)]
  <2>1. Len(arr) >= 1 /\ Len(arr) \in Nat /\ DOMAIN arr = 1..Len(arr)
    BY <1>1, <1>3
  <2>2. l \in 1..Len(arr) /\ \A j \in 1..Len(arr) : arr[j] <= arr[l] /\ (j < l => arr[j] < arr[l])
    BY <1>1, <2>1, LargestFirst DEF IsFirstLargest
  <2>3. array_max_index(arr) = l - 1
    BY <1>3 DEF array_max_index, Largest
  <2> HIDE DEF l
  <2>4. array_max_index(arr) + 1 = l
    BY <2>1, <2>2, <2>3
  <2> QED
    BY <1>3, <2>1, <2>2, <2>4 DEF MaxIndexFirst
<1> QED
  BY <1>2, <1>3

(* A square is larger the further its root is from 0.                      *)
LEMMA Squares ==
  ASSUME NEW p \in Int, NEW q \in Int,
         (0 <= p /\ p <= q) \/ (q <= p /\ p <= 0)
  PROVE  p * p <= q * q
<1>1. ASSUME NEW s \in Int, NEW t \in Int, 0 <= s, s <= t PROVE s * s <= t * t
  <2>1. s * s <= s * t
    BY <1>1
  <2>2. s * t <= t * t
    BY <1>1
  <2> QED
    BY <1>1, <2>1, <2>2
<1>2. CASE 0 <= p /\ p <= q
  BY <1>1, <1>2
<1>3. CASE q <= p /\ p <= 0
  <2>1. -p \in Int /\ -q \in Int /\ 0 <= -p /\ -p <= -q
    BY <1>3
  <2>2. (-p) * (-p) <= (-q) * (-q)
    BY <1>1, <2>1
  <2>3. (-p) * (-p) = p * p /\ (-q) * (-q) = q * q
    OBVIOUS
  <2> QED
    BY <2>2, <2>3
<1> QED
  BY <1>2, <1>3

(* clamp, for any bounds in order.                                         *)
LEMMA ClampFacts ==
  ASSUME NEW lo \in Int, NEW hi \in Int, lo <= hi, NEW v \in Int
  PROVE  LET c == clamp(v, lo, hi)
         IN  c \in lo..hi /\ \A w \in lo..hi : (c - v) * (c - v) <= (w - v) * (w - v)
<1> DEFINE c == clamp(v, lo, hi)
<1>1. c = IF v < lo THEN lo ELSE IF v > hi THEN hi ELSE v
  BY DEF clamp
<1> HIDE DEF c
<1>2. c \in lo..hi
  BY <1>1
<1>3. ASSUME NEW w \in lo..hi PROVE (c - v) * (c - v) <= (w - v) * (w - v)
  <2>1. c - v \in Int /\ w - v \in Int
    BY <1>2, <1>3
  <2>2. (0 <= c - v /\ c - v <= w - v) \/ (w - v <= c - v /\ c - v <= 0)
    BY <1>1, <1>3
  <2> QED
    BY <2>1, <2>2, Squares
<1> QED
  BY <1>2, <1>3 DEF c

(* clamp with the bounds that min_of and max_of give.                      *)
LEMMA ClampFollows == ArraysInv => ClampNearest
<1> SUFFICES ASSUME ArraysInv, NEW j \in DOMAIN arr, NEW k \in DOMAIN arr, NEW v \in Items
             PROVE  LET lo == min_of(arr[j], arr[k])
                        hi == max_of(arr[j], arr[k])
                        c == clamp(v, lo, hi)
                    IN  c \in lo..hi /\ \A w \in lo..hi : (c - v) * (c - v) <= (w - v) * (w - v)
  BY DEF ClampNearest
<1>1. arr[j] \in Int /\ arr[k] \in Int
  BY ArrayOfInts
<1>2. v \in Int
  BY ItemsAssumption, EntityArguments
<1>3. /\ min_of(arr[j], arr[k]) \in Int /\ max_of(arr[j], arr[k]) \in Int
      /\ min_of(arr[j], arr[k]) <= max_of(arr[j], arr[k])
  BY <1>1 DEF min_of, max_of
<1> QED
  BY <1>2, <1>3, ClampFacts

(***************************************************************************)
(* For every array of ints: array_sum is the sum of the elements whenever  *)
(* that is an int, whatever the partial sums do; array_max_index is the    *)
(* first place of the largest element; clamp is the nearest number.        *)
(***************************************************************************)
THEOREM ArraysSound == ArraysSpec => []ArraysExact
<1>1. ArraysInv => ArraysExact
  BY SumFollows, MaxIndexFollows, ClampFollows DEF ArraysExact
<1> QED
  BY ArraysInvInit, ArraysInductive, <1>1, PTL DEF ArraysSpec

-----------------------------------------------------------------------------
(* The IEEE 754 functions.                                                 *)

Exps == ExpMax + 1

(* The pattern of three fields.                                            *)
Pattern(s, e, r) == s * SignBit + e * ExpOne + r

AreFields(s, e, r) == s \in {0, 1} /\ e \in 0..ExpMax /\ r \in 0..(ExpOne - 1)

(* The sizes of the fields.                                                *)
LEMMA FormatFacts ==
  /\ ExpOne \in Nat \ {0} /\ ExpMax \in Nat /\ ExpMax >= 3 /\ Exps \in Nat /\ Exps = ExpMax + 1
  /\ Exps >= 4 /\ SignBit \in Nat /\ SignBit = Exps * ExpOne /\ SignBit >= 4 * ExpOne
<1> DEFINE X == 2 ^ ExpBits
           E == 2 ^ FracBits
           S == 2 ^ (ExpBits + FracBits)
<1>1. E \in Nat \ {0} /\ X \in Nat /\ X >= 4 /\ S = X * E
  BY FormatPowers
<1>2. ExpOne = E /\ ExpMax = X - 1 /\ SignBit = S
  BY DEF ExpOne, ExpMax, SignBit
<1> HIDE DEF X, E, S
<1>3. Exps = X
  BY <1>1, <1>2 DEF Exps
<1>4. X * E \in Nat
  BY <1>1
<1>5. X * E >= 4 * E
  BY <1>1
<1> QED
  BY <1>1, <1>2, <1>3, <1>4, <1>5

(* SignBit is even.                                                        *)
LEMMA SignBitEven == SignBit \div 2 \in Nat /\ SignBit = 2 * (SignBit \div 2)
<1>1. PICK X \in Nat, E \in Nat : X = 2 ^ ExpBits /\ E = 2 ^ FracBits
  BY FormatPowers
<1>2. X % 2 = 0 /\ SignBit = X * E
  BY <1>1, FormatPowers DEF SignBit
<1>3. PICK h \in Nat : X = 2 * h
  <2>1. X \div 2 \in Nat /\ X = 2 * (X \div 2)
    BY <1>2
  <2> QED
    BY <2>1
<1>4. PICK g \in Nat : g = h * E
  BY <1>1
<1>5. X * E = 2 * g
  BY <1>3, <1>4
<1>6. PICK S \in Nat : S = SignBit
  BY <1>2, <1>5
<1>7. S = 2 * g
  BY <1>2, <1>5, <1>6
<1>8. S \div 2 = g
  BY <1>7
<1> QED
  BY <1>6, <1>7, <1>8

(* Quotient and remainder are unique.                                      *)
LEMMA QuotientOf ==
  ASSUME NEW M \in Nat \ {0}, NEW q \in Int, NEW r \in 0..(M - 1), NEW v \in Int, v = q * M + r
  PROVE  v \div M = q /\ v % M = r
<1>1. PICK Q \in Int, R \in Int : Q = v \div M /\ R = v % M
  OBVIOUS
<1>2. 0 <= R /\ R < M /\ v = M * Q + R
  BY <1>1, Remainders
<1>3. PICK d \in Int : d = q - Q
  OBVIOUS
<1>4. M * d = R - r
  <2>1. M * (q - Q) = M * q - M * Q
    OBVIOUS
  <2>2. M * q = q * M
    OBVIOUS
  <2>3. PICK a \in Int, b \in Int, c \in Int : a = M * q /\ b = M * Q /\ c = M * (q - Q)
    OBVIOUS
  <2>4. v = a + r /\ v = b + R /\ c = a - b
    BY <1>2, <2>1, <2>2, <2>3
  <2>5. c = R - r
    BY <2>4
  <2> QED
    BY <1>3, <2>3, <2>5
<1>5. d >= 1 => M * d >= M
  OBVIOUS
<1>6. d <= -1 => M * d <= -M
  OBVIOUS
<1>7. PICK t \in Int : t = M * d
  OBVIOUS
<1>8. t < M /\ t > -M
  BY <1>2, <1>4, <1>7
<1>9. d = 0
  BY <1>5, <1>6, <1>7, <1>8
<1>10. q = Q
  BY <1>3, <1>9
<1>11. t = 0
  BY <1>7, <1>9
<1>12. R = r
  BY <1>2, <1>4, <1>7, <1>11
<1> QED
  BY <1>1, <1>10, <1>12

(* Products of the sizes.                                                  *)
LEMMA FieldBounds ==
  ASSUME NEW e \in 0..ExpMax, NEW r \in 0..(ExpOne - 1)
  PROVE  e * ExpOne \in Nat /\ e * ExpOne + r \in 0..(SignBit - 1)
<1>1. PICK X \in Nat, E \in Nat \ {0}, S \in Nat :
        X = Exps /\ E = ExpOne /\ S = SignBit /\ S = X * E /\ ExpMax = X - 1
  BY FormatFacts
<1>2. e \in Nat /\ e <= X - 1
  BY <1>1
<1>3. e * E \in Nat
  BY <1>2
<1>4. (X - 1 - e) * E >= 0
  BY <1>2
<1>5. (X - 1 - e) * E = X * E - E - e * E
  BY <1>2
<1>6. PICK a \in Nat : a = e * E
  BY <1>3
<1>7. S - E - a >= 0
  BY <1>1, <1>4, <1>5, <1>6
<1> QED
  BY <1>1, <1>6, <1>7

(* What the masks and shifts extract of a pattern.                         *)
LEMMA FieldsOfPattern ==
  ASSUME NEW s, NEW e, NEW r, AreFields(s, e, r)
  PROVE  /\ Pattern(s, e, r) \in FloatBitPatterns
         /\ sign(Pattern(s, e, r)) = s
         /\ exp(Pattern(s, e, r)) = e
         /\ frac(Pattern(s, e, r)) = r
         /\ Pattern(s, e, r) % SignBit = e * ExpOne + r
<1>1. PICK X \in Nat \ {0}, E \in Nat \ {0}, S \in Nat \ {0} :
        X = Exps /\ E = ExpOne /\ S = SignBit /\ S = X * E /\ ExpMax = X - 1
  BY FormatFacts
<1>2. s \in {0, 1} /\ s \in Int /\ e \in 0..(X - 1) /\ e \in Int /\ r \in 0..(E - 1)
  BY <1>1 DEF AreFields
<1>3. PICK a \in Nat : a = e * E
  BY <1>1, <1>2
<1>4. a + r \in 0..(S - 1)
  BY <1>1, <1>2, <1>3, FieldBounds
<1>5. PICK p \in Int : p = s * S + a + r
  BY <1>2, <1>4
<1>6. Pattern(s, e, r) = p
  BY <1>1, <1>3, <1>5 DEF Pattern
<1>7. p \in 0..(2 * S - 1)
  BY <1>2, <1>4, <1>5
<1>8. p \div S = s /\ p % S = a + r
  <2>1. PICK w \in 0..(S - 1) : w = a + r
    BY <1>4
  <2>2. p = s * S + w
    BY <1>2, <1>5, <2>1
  <2>3. s \in Int
    BY <1>2
  <2>4. p \div S = s /\ p % S = w
    BY <2>2, <2>3, QuotientOf
  <2> QED
    BY <2>1, <2>4
<1>9. p \div E = s * X + e /\ p % E = r
  <2>1. PICK q \in Int : q = s * X + e
    BY <1>2
  <2>2. q * E = s * S + a
    BY <1>1, <1>2, <1>3, <2>1
  <2>3. p = q * E + r
    BY <1>2, <1>5, <2>1, <2>2
  <2>4. r \in 0..(E - 1)
    BY <1>2
  <2>5. p \div E = q /\ p % E = r
    BY <2>3, <2>4, QuotientOf
  <2> QED
    BY <2>1, <2>5
<1>10. (s * X + e) % X = e
  <2>1. PICK q \in Int : q = s * X + e
    BY <1>2
  <2> QED
    BY <1>2, <2>1, QuotientOf
<1>11. sign(p) = s
  BY <1>1, <1>8 DEF sign
<1>12. exp(p) = e
  <2>1. ExpMax + 1 = X
    BY <1>1
  <2> QED
    BY <1>1, <1>9, <1>10, <2>1 DEF exp
<1>13. frac(p) = r
  BY <1>1, <1>9 DEF frac
<1> QED
  BY <1>1, <1>3, <1>6, <1>7, <1>8, <1>11, <1>12, <1>13 DEF FloatBitPatterns

(* Every pattern has three fields.                                         *)
LEMMA PatternHasFields ==
  ASSUME NEW p \in FloatBitPatterns
  PROVE  \E s, e, r : AreFields(s, e, r) /\ p = Pattern(s, e, r)
<1>1. PICK X \in Nat \ {0}, E \in Nat \ {0}, S \in Nat \ {0} :
        X = Exps /\ E = ExpOne /\ S = SignBit /\ S = X * E /\ ExpMax = X - 1
  BY FormatFacts
<1>2. p \in Int /\ 0 <= p /\ p < 2 * S
  BY <1>1 DEF FloatBitPatterns
<1>3. PICK s \in Int : s \in {0, 1} /\ 0 <= p - s * S /\ p - s * S < S
  <2>1. CASE p < S
    BY <1>2, <2>1
  <2>2. CASE p >= S
    BY <1>2, <2>2
  <2> QED
    BY <1>2, <2>1, <2>2
<1>4. PICK m \in Int : m = p - s * S
  BY <1>2, <1>3
<1>5. PICK e \in Int, r \in Int : e = m \div E /\ r = m % E
  BY <1>4
<1>6. 0 <= r /\ r < E /\ m = E * e + r
  BY <1>5, Remainders
<1>7. e >= 0
  <2>1. e <= -1 => E * e <= -E
    OBVIOUS
  <2>2. PICK t \in Int : t = E * e
    OBVIOUS
  <2> QED
    BY <1>3, <1>4, <1>6, <2>1, <2>2
<1>8. e <= X - 1
  <2>1. e >= X => E * e >= E * X
    <3>1. e - X >= 0 => E * (e - X) >= 0
      OBVIOUS
    <3>2. E * (e - X) = E * e - E * X
      OBVIOUS
    <3>3. PICK a \in Int, b \in Int, c \in Int : a = E * e /\ b = E * X /\ c = E * (e - X)
      OBVIOUS
    <3> QED
      BY <3>1, <3>2, <3>3
  <2>2. PICK t \in Int : t = E * e
    OBVIOUS
  <2>3. E * X = S
    BY <1>1
  <2> QED
    BY <1>3, <1>4, <1>6, <2>1, <2>2, <2>3
<1>9. AreFields(s, e, r)
  BY <1>1, <1>3, <1>6, <1>7, <1>8 DEF AreFields
<1>10. p = s * S + e * E + r
  <2>1. E * e = e * E
    OBVIOUS
  <2> QED
    BY <1>2, <1>3, <1>4, <1>6, <2>1
<1> QED
  BY <1>1, <1>9, <1>10 DEF Pattern

(* Bitwise or with a sign bit.                                             *)
LEMMA SignRestored ==
  ASSUME NEW p, NEW s \in {0, 1}, sign(p) = s, NEW w \in 0..(SignBit - 1)
  PROVE  WithSignOf(w, p) = s * SignBit + w
<1>1. PICK S \in Nat \ {0} : S = SignBit
  BY FormatFacts
<1>2. w \in Int /\ w % S = w
  BY <1>1, Remainders
<1>3. s * S \in Int
  BY <1>1
<1> QED
  BY <1>1, <1>2, <1>3 DEF WithSignOf

(* The four functions in terms of the fields.  Negation changes the sign.  *)
LEMMA NegateFields ==
  ASSUME NEW s, NEW e, NEW r, AreFields(s, e, r), ~(e = ExpMax /\ r # 0)
  PROVE  float_negate(Pattern(s, e, r)) = Pattern(1 - s, e, r) /\ AreFields(1 - s, e, r)
<1>1. PICK S \in Nat \ {0}, E \in Nat \ {0} : S = SignBit /\ E = ExpOne
  BY FormatFacts
<1>2. s \in {0, 1} /\ s \in Int /\ e \in 0..ExpMax /\ r \in 0..(ExpOne - 1)
  BY DEF AreFields
<1>3. PICK w \in 0..(S - 1) : w = e * ExpOne + r
  BY <1>1, <1>2, FieldBounds
<1>4. \A k \in {0, 1} : Pattern(k, e, r) = k * S + w
  <2>1. e * ExpOne \in Int /\ r \in Int
    BY <1>1, <1>2, FieldBounds
  <2> QED
    BY <1>1, <1>2, <1>3, <2>1 DEF Pattern
<1>5. ~float_is_nan(Pattern(s, e, r))
  BY FieldsOfPattern DEF float_is_nan
<1>6. float_negate(Pattern(s, e, r)) = (s * S + w + S) % (2 * S)
  BY <1>1, <1>2, <1>4, <1>5 DEF float_negate
<1>7. PICK M \in Nat \ {0} : M = 2 * S
  BY <1>1
<1>8. CASE s = 0
  <2>1. PICK v \in Int : v = s * S + w + S
    BY <1>2, <1>3
  <2>2. 0 <= v /\ v < M
    BY <1>7, <1>8, <2>1
  <2>3. v % M = v
    BY <2>2, Remainders
  <2> QED
    BY <1>2, <1>4, <1>6, <1>7, <1>8, <2>1, <2>3 DEF AreFields
<1>9. CASE s = 1
  <2>1. PICK v \in Int : v = s * S + w + S
    BY <1>2, <1>3
  <2>2. M <= v /\ v < 2 * M
    BY <1>7, <1>9, <2>1
  <2>3. v % M = v - M
    BY <2>2, Remainders
  <2>4. v - M = w
    BY <1>7, <1>9, <2>1
  <2> QED
    BY <1>2, <1>4, <1>6, <1>7, <1>9, <2>1, <2>3, <2>4 DEF AreFields
<1> QED
  BY <1>2, <1>8, <1>9

(* The absolute value clears it.                                           *)
LEMMA AbsFields ==
  ASSUME NEW s, NEW e, NEW r, AreFields(s, e, r)
  PROVE  float_abs(Pattern(s, e, r)) = Pattern(0, e, r) /\ AreFields(0, e, r)
<1>1. e \in 0..ExpMax /\ r \in 0..(ExpOne - 1) /\ SignBit \in Nat /\ ExpOne \in Nat
  BY FormatFacts DEF AreFields
<1>2. e * ExpOne \in Nat /\ r \in Nat
  BY <1>1, FieldBounds
<1>3. Pattern(0, e, r) = e * ExpOne + r
  BY <1>1, <1>2 DEF Pattern
<1>4. Pattern(s, e, r) % SignBit = e * ExpOne + r
  BY FieldsOfPattern
<1> QED
  BY <1>1, <1>3, <1>4 DEF float_abs, AreFields

(* The exponent is replaced.                                               *)
LEMMA WithExpFields ==
  ASSUME NEW s, NEW e, NEW r, AreFields(s, e, r), NEW k
  PROVE  WithExp(Pattern(s, e, r), k) = Pattern(s, k, r)
<1>1. sign(Pattern(s, e, r)) = s /\ frac(Pattern(s, e, r)) = r
  BY FieldsOfPattern
<1> QED
  BY <1>1 DEF WithExp, Pattern

(* Twice a denormal: the carry of the fraction becomes the exponent.       *)
LEMMA TwiceDenormal ==
  ASSUME NEW s, NEW r, AreFields(s, 0, r)
  PROVE  float_twice(Pattern(s, 0, r))
           = IF 2 * r < ExpOne THEN Pattern(s, 0, 2 * r) ELSE Pattern(s, 1, 2 * r - ExpOne)
<1>1. PICK S \in Nat \ {0}, E \in Nat \ {0} : S = SignBit /\ E = ExpOne /\ S >= 4 * E
  BY FormatFacts
<1>2. s \in {0, 1} /\ s \in Int /\ r \in 0..(E - 1) /\ r \in Int
  BY <1>1 DEF AreFields
<1>3. PICK p : p = Pattern(s, 0, r)
  OBVIOUS
<1>4. sign(p) = s /\ exp(p) = 0
  BY <1>3, FieldsOfPattern
<1>5. p = s * S + r
  BY <1>1, <1>2, <1>3 DEF Pattern
<1>6. PICK w \in 0..(SignBit - 1) : w = 2 * r
  BY <1>1, <1>2
<1>7. (2 * p) % (2 * S) = w
  <2>1. PICK M \in Nat \ {0}, v \in Int : M = 2 * S /\ v = 2 * p
    BY <1>2, <1>5
  <2>2. CASE s = 0
    <3>1. 0 <= v /\ v < M /\ v = w
      BY <1>1, <1>2, <1>5, <1>6, <2>1, <2>2
    <3>2. v % M = v
      BY <3>1, Remainders
    <3> QED
      BY <2>1, <3>1, <3>2
  <2>3. CASE s = 1
    <3>1. M <= v /\ v < 2 * M /\ v - M = w
      BY <1>1, <1>2, <1>5, <1>6, <2>1, <2>3
    <3>2. v % M = v - M
      BY <3>1, Remainders
    <3> QED
      BY <2>1, <3>1, <3>2
  <2> QED
    BY <1>2, <2>2, <2>3
<1>8. float_twice(p) = WithSignOf(w, p)
  BY <1>1, <1>4, <1>7 DEF float_twice
<1>9. WithSignOf(w, p) = s * S + w
  BY <1>1, <1>2, <1>4, SignRestored
<1>10. Pattern(s, 0, 2 * r) = s * S + w
  BY <1>1, <1>2, <1>6 DEF Pattern
<1>11. Pattern(s, 1, 2 * r - E) = s * S + w
  BY <1>1, <1>2, <1>6 DEF Pattern
<1> QED
  BY <1>1, <1>3, <1>8, <1>9, <1>10, <1>11

(* Half a denormal: the sign that moved into the exponent is cleared.      *)
LEMMA HalfDenormal ==
  ASSUME NEW s, NEW r, AreFields(s, 0, r)
  PROVE  float_half(Pattern(s, 0, r)) = Pattern(s, 0, r \div 2) /\ AreFields(s, 0, r \div 2)
<1>1. PICK S \in Nat \ {0}, E \in Nat \ {0} : S = SignBit /\ E = ExpOne /\ S >= 4 * E
  BY FormatFacts
<1>2. s \in {0, 1} /\ s \in Int /\ r \in 0..(E - 1) /\ r \in Int
  BY <1>1 DEF AreFields
<1>3. PICK p : p = Pattern(s, 0, r)
  OBVIOUS
<1>4. sign(p) = s /\ exp(p) = 0
  BY <1>3, FieldsOfPattern
<1>5. p = s * S + r
  BY <1>1, <1>2, <1>3 DEF Pattern
<1>6. PICK H \in Nat \ {0} : H = S \div 2 /\ S = 2 * H
  BY <1>1, SignBitEven
<1>7. PICK w \in Int : w = r \div 2 /\ 0 <= w /\ w <= r
  BY <1>2
<1>8. p \div 2 = s * H + w
  <2>1. CASE s = 0
    BY <1>1, <1>2, <1>5, <1>6, <1>7, <2>1
  <2>2. CASE s = 1
    <3>1. p = 2 * H + r
      BY <1>1, <1>2, <1>5, <1>6, <2>2
    <3>2. (2 * H + r) \div 2 = H + r \div 2
      BY <1>2
    <3> QED
      BY <1>7, <2>2, <3>1, <3>2
  <2> QED
    BY <1>2, <2>1, <2>2
<1>9. w \in 0..(H - 1) /\ w \in 0..(SignBit - 1)
  BY <1>1, <1>2, <1>6, <1>7
<1>10. (p \div 2) % H = w
  <2>1. PICK v \in Int : v = s * H + w
    BY <1>2
  <2>2. v % H = w
    BY <1>2, <1>9, <2>1, QuotientOf
  <2> QED
    BY <1>8, <2>1, <2>2
<1>11. float_half(p) = WithSignOf(w, p)
  BY <1>1, <1>4, <1>6, <1>10 DEF float_half
<1>12. WithSignOf(w, p) = s * S + w
  BY <1>1, <1>2, <1>4, <1>9, SignRestored
<1>13. Pattern(s, 0, w) = s * S + w
  BY <1>1, <1>2, <1>7 DEF Pattern
<1>14. AreFields(s, 0, w)
  BY <1>1, <1>2, <1>7, FormatFacts DEF AreFields
<1> QED
  BY <1>3, <1>7, <1>11, <1>12, <1>13, <1>14

(* The other finite numbers get the exponent above or below.               *)
LEMMA NormalFields ==
  ASSUME NEW s, NEW e, NEW r, AreFields(s, e, r), e # 0, e # ExpMax
  PROVE  /\ float_twice(Pattern(s, e, r)) = Pattern(s, e + 1, r) /\ AreFields(s, e + 1, r)
         /\ float_half(Pattern(s, e, r)) = Pattern(s, e - 1, r) /\ AreFields(s, e - 1, r)
<1>1. exp(Pattern(s, e, r)) = e
  BY FieldsOfPattern
<1>2. /\ WithExp(Pattern(s, e, r), e + 1) = Pattern(s, e + 1, r)
      /\ WithExp(Pattern(s, e, r), e - 1) = Pattern(s, e - 1, r)
  BY WithExpFields
<1>3. AreFields(s, e + 1, r) /\ AreFields(s, e - 1, r)
  BY FormatFacts DEF AreFields
<1> QED
  BY <1>1, <1>2, <1>3 DEF float_twice, float_half

(* What a pattern stands for.                                              *)
LEMMA MagnitudeFields ==
  ASSUME NEW s, NEW e, NEW r, AreFields(s, e, r)
  PROVE  /\ e = 0 => Magnitude(Pattern(s, e, r)) = r
         /\ e # 0 => Magnitude(Pattern(s, e, r)) = (ExpOne + r) * 2 ^ (e - 1)
         /\ Finite(Pattern(s, e, r)) <=> e # ExpMax
  BY FieldsOfPattern DEF Magnitude, Finite

(* The powers that scale a fraction.                                       *)
LEMMA FloatPowers ==
  ASSUME NEW n \in 0..ExpMax
  PROVE  2 ^ n \in Nat \ {0} /\ 2 ^ (n + 1) = 2 * 2 ^ n
<1>1. n \in 0 .. 2 ^ ExpBits
  <2>1. PICK X \in Nat : X = 2 ^ ExpBits
    BY FormatPowers
  <2>2. ExpMax = X - 1
    BY <2>1 DEF ExpMax
  <2> QED
    BY <2>1, <2>2
<1> QED
  BY <1>1, FormatPowers

(* The largest finite number has the last exponent below infinity's and    *)
(* all bits of the fraction set.                                           *)
LEMMA MaxFiniteIs ==
  /\ ExpMax - 2 \in 0..ExpMax
  /\ MaxFinite = (2 * ExpOne - 1) * 2 ^ (ExpMax - 2)
<1>1. PICK E \in Nat \ {0}, m \in Nat : E = ExpOne /\ m = ExpMax /\ m >= 3 /\ SignBit \in Nat
  BY FormatFacts
<1>2. PICK e \in Int, r \in Int : e = m - 1 /\ r = E - 1
  BY <1>1
<1>3. AreFields(0, e, r) /\ e # 0
  BY <1>1, <1>2 DEF AreFields
<1>4. Pattern(0, e, r) = m * E - 1
  <2>1. (m - 1) * E + (E - 1) = m * E - 1
    BY <1>1
  <2>2. 0 * SignBit = 0
    BY <1>1
  <2>3. PICK a \in Int : a = (m - 1) * E
    BY <1>1
  <2>4. 0 + a + (E - 1) = a + (E - 1)
    BY <1>1
  <2>5. Pattern(0, e, r) = 0 + a + (E - 1)
    BY <1>1, <1>2, <2>2, <2>3 DEF Pattern
  <2> QED
    BY <2>1, <2>3, <2>4, <2>5
<1>5. Magnitude(Pattern(0, e, r)) = (E + r) * 2 ^ (e - 1)
  <2>1. PICK d : d = 0
    OBVIOUS
  <2>2. AreFields(d, e, r)
    BY <1>3, <2>1
  <2>3. Magnitude(Pattern(d, e, r)) = (ExpOne + r) * 2 ^ (e - 1)
    BY <1>3, <2>2, MagnitudeFields
  <2> QED
    BY <1>1, <2>1, <2>3
<1>6. E + r = 2 * E - 1 /\ e - 1 = m - 2
  BY <1>1, <1>2
<1>7. MaxFinite = Magnitude(m * E - 1)
  BY <1>1 DEF MaxFinite
<1>8. m - 2 \in 0..m
  BY <1>1
<1> QED
  BY <1>1, <1>4, <1>5, <1>6, <1>7, <1>8

(* Negation and absolute value of a NaN.                                   *)
LEMMA NanSigns ==
  ASSUME f \in FloatBitPatterns, float_is_nan(f)
  PROVE  /\ float_negate(f) = f
         /\ float_is_nan(float_abs(f))
         /\ sign(f) = 0 => float_abs(f) = f
<1>1. PICK s, e, r : AreFields(s, e, r) /\ f = Pattern(s, e, r)
  BY PatternHasFields
<1>2. sign(f) = s /\ e = ExpMax /\ r # 0
  BY <1>1, FieldsOfPattern DEF float_is_nan
<1>3. float_negate(f) = f
  BY DEF float_negate
<1>4. PICK d : d = 0
  OBVIOUS
<1>5. float_abs(f) = Pattern(d, e, r) /\ AreFields(d, e, r)
  BY <1>1, <1>4, AbsFields
<1>6. exp(Pattern(d, e, r)) = e /\ frac(Pattern(d, e, r)) = r
  BY <1>5, FieldsOfPattern
<1>7. float_is_nan(float_abs(f))
  BY <1>2, <1>5, <1>6 DEF float_is_nan
<1>8. sign(f) = 0 => float_abs(f) = f
  BY <1>1, <1>2, <1>4, <1>5
<1> QED
  BY <1>3, <1>7, <1>8

(* Negation and absolute value.                                            *)
LEMMA SignsFollow == f \in FloatBitPatterns => SignsAreRight
<1> SUFFICES ASSUME f \in FloatBitPatterns, ~float_is_nan(f) PROVE SignsAreRight
  BY NanSigns DEF SignsAreRight
<1>1. PICK s, e, r : AreFields(s, e, r) /\ f = Pattern(s, e, r)
  BY PatternHasFields
<1>2. ~(e = ExpMax /\ r # 0)
  BY <1>1, FieldsOfPattern DEF float_is_nan
<1>3. PICK u : u = 1 - s
  OBVIOUS
<1>4. s \in {0, 1} /\ 1 - u = s
  BY <1>1, <1>3 DEF AreFields
<1>5. float_negate(f) = Pattern(u, e, r) /\ AreFields(u, e, r)
  BY <1>1, <1>2, <1>3, NegateFields
<1>6. float_negate(float_negate(f)) = f
  <2>1. float_negate(Pattern(u, e, r)) = Pattern(1 - u, e, r)
    BY <1>2, <1>5, NegateFields
  <2> QED
    BY <1>1, <1>4, <1>5, <2>1
<1>7. sign(float_negate(f)) = 1 - sign(f)
  <2>1. sign(f) = s /\ sign(float_negate(f)) = u
    BY <1>1, <1>5, FieldsOfPattern
  <2> QED
    BY <1>3, <2>1
<1>8. float_abs(f) = Pattern(0, e, r) /\ AreFields(0, e, r)
  BY <1>1, AbsFields
<1>9. float_abs(float_negate(f)) = Pattern(0, e, r)
  BY <1>5, AbsFields
<1>10. sign(float_abs(f)) = 0
  <2>1. PICK d : d = 0
    OBVIOUS
  <2>2. AreFields(d, e, r)
    BY <1>8, <2>1
  <2>3. sign(Pattern(d, e, r)) = d
    BY <2>2, FieldsOfPattern
  <2> QED
    BY <1>8, <2>1, <2>3
<1> QED
  BY <1>6, <1>7, <1>8, <1>9, <1>10 DEF SignsAreRight

(* Doubling, by the kind of number.                                        *)
LEMMA TwiceFollows == f \in FloatBitPatterns => TwiceExact
<1> SUFFICES ASSUME f \in FloatBitPatterns PROVE TwiceExact
  OBVIOUS
<1>1. PICK s, e, r : AreFields(s, e, r) /\ f = Pattern(s, e, r)
  BY PatternHasFields
<1>2. PICK E \in Nat \ {0}, m \in Nat : E = ExpOne /\ m = ExpMax /\ m >= 3
  BY FormatFacts
<1>3. s \in {0, 1} /\ e \in 0..m /\ r \in 0..(E - 1) /\ e \in Int /\ r \in Int
  BY <1>1, <1>2 DEF AreFields
<1>4. Finite(f) <=> e # m
  BY <1>1, <1>2, MagnitudeFields
<1>5. sign(f) = s /\ exp(f) = e
  BY <1>1, FieldsOfPattern
<1>6. CASE e = m
  <2>1. e # 0
    BY <1>2, <1>6
  <2>2. float_twice(f) = f
    BY <1>2, <1>5, <1>6, <2>1 DEF float_twice
  <2> QED
    BY <1>4, <1>6, <2>2 DEF TwiceExact
<1>7. CASE e = 0
  <2>1. Magnitude(f) = r
    BY <1>1, <1>7, MagnitudeFields
  <2>2. float_twice(f) = IF 2 * r < E THEN Pattern(s, 0, 2 * r) ELSE Pattern(s, 1, 2 * r - E)
    BY <1>1, <1>2, <1>7, TwiceDenormal
  <2>3. ASSUME 2 * r < E
        PROVE  /\ Finite(float_twice(f)) /\ Magnitude(float_twice(f)) = 2 * r
               /\ sign(float_twice(f)) = s
    <3>1. PICK d, w : d = 0 /\ w = 2 * r
      OBVIOUS
    <3>2. AreFields(s, d, w) /\ d # ExpMax
      BY <1>2, <1>3, <2>3, <3>1 DEF AreFields
    <3>3. /\ Magnitude(Pattern(s, d, w)) = w /\ Finite(Pattern(s, d, w))
          /\ sign(Pattern(s, d, w)) = s
      BY <3>1, <3>2, MagnitudeFields, FieldsOfPattern
    <3> QED
      BY <2>2, <2>3, <3>1, <3>3
  <2>4. ASSUME ~(2 * r < E)
        PROVE  /\ Finite(float_twice(f)) /\ Magnitude(float_twice(f)) = 2 * r
               /\ sign(float_twice(f)) = s
    <3>v. 2 * r - E \in Int
      <4>1. r \in Int /\ E \in Int
        BY <1>2, <1>3
      <4> QED
        BY <4>1
    <3>w. PICK w \in Int : w = 2 * r - E
      BY <3>v
    <3>1. PICK d \in Int : d = 1 /\ w = 2 * r - E
      BY <3>w
    <3>2. AreFields(s, d, w) /\ d # ExpMax /\ d # 0
      BY <1>2, <1>3, <2>4, <3>1 DEF AreFields
    <3>3. /\ Magnitude(Pattern(s, d, w)) = (ExpOne + w) * 2 ^ (d - 1)
          /\ Finite(Pattern(s, d, w))
          /\ sign(Pattern(s, d, w)) = s
      BY <3>2, MagnitudeFields, FieldsOfPattern
    <3>4. 2 ^ (d - 1) = 1
      <4>1. d - 1 = 0
        BY <3>1
      <4>2. 2 ^ 0 = 1
        BY FormatPowers
      <4> QED
        BY <4>1, <4>2
    <3>5. (E + w) * 1 = 2 * r
      BY <1>2, <1>3, <3>1
    <3> QED
      BY <1>2, <2>2, <2>4, <3>1, <3>3, <3>4, <3>5
  <2>5. /\ Finite(float_twice(f)) /\ Magnitude(float_twice(f)) = 2 * Magnitude(f)
        /\ sign(float_twice(f)) = sign(f)
    BY <1>5, <2>1, <2>3, <2>4
  <2>6. Finite(f)
    BY <1>2, <1>4, <1>7
  <2> QED
    BY <2>5, <2>6, Zenon DEF TwiceExact
<1>8. CASE e # 0 /\ e # m
  <2>1. float_twice(f) = Pattern(s, e + 1, r) /\ AreFields(s, e + 1, r)
    BY <1>1, <1>2, <1>8, NormalFields
  <2>2. PICK k \in Int : k = e - 1
    BY <1>3
  <2>3. k \in 0..ExpMax
    BY <1>2, <1>3, <1>8, <2>2
  <2>4. 2 ^ k \in Nat \ {0} /\ 2 ^ (k + 1) = 2 * 2 ^ k
    BY <2>3, FloatPowers
  <2>5. PICK w \in Nat \ {0} : w = 2 ^ k /\ 2 ^ (k + 1) = 2 * w
    BY <2>4
  <2>6. Magnitude(f) = (E + r) * w
    BY <1>1, <1>2, <1>8, <2>2, <2>5, MagnitudeFields
  <2>7. PICK t : t = e + 1
    OBVIOUS
  <2>8. t # 0 /\ t - 1 = k + 1 /\ AreFields(s, t, r) /\ float_twice(f) = Pattern(s, t, r)
    BY <1>3, <2>1, <2>2, <2>7
  <2>9. /\ Magnitude(Pattern(s, t, r)) = (ExpOne + r) * 2 ^ (t - 1)
        /\ Finite(Pattern(s, t, r)) <=> t # ExpMax
        /\ sign(Pattern(s, t, r)) = s
    BY <2>8, MagnitudeFields, FieldsOfPattern
  <2>10. Magnitude(float_twice(f)) = 2 * ((E + r) * w)
    <3>1. Magnitude(float_twice(f)) = (E + r) * (2 * w)
      BY <1>2, <2>5, <2>8, <2>9
    <3>2. (E + r) * (2 * w) = 2 * ((E + r) * w)
      BY <1>3
    <3> QED
      BY <3>1, <3>2
  <2>11. CASE t # ExpMax
    BY <1>4, <1>5, <1>8, <2>6, <2>8, <2>9, <2>10, <2>11 DEF TwiceExact
  <2>12. CASE t = ExpMax
    <3>1. MaxFinite = (2 * E - 1) * w
      <4>1. ExpMax - 2 = k
        BY <1>3, <2>2, <2>7, <2>12
      <4> QED
        BY <1>2, <2>5, <4>1, MaxFiniteIs
    <3>2. 2 * ((E + r) * w) > (2 * E - 1) * w
      <4>1. 2 * ((E + r) * w) - (2 * E - 1) * w = (2 * r + 1) * w
        BY <1>3
      <4>2. (2 * r + 1) * w > 0
        BY <1>3
      <4>3. PICK a \in Int, b \in Int, c \in Int :
              a = 2 * ((E + r) * w) /\ b = (2 * E - 1) * w /\ c = (2 * r + 1) * w
        BY <1>3
      <4> QED
        BY <4>1, <4>2, <4>3
    <3>3. ~(2 * ((E + r) * w) <= (2 * E - 1) * w)
      <4>1. 2 * ((E + r) * w) \in Int /\ (2 * E - 1) * w \in Int
        BY <1>3
      <4> QED
        BY <3>2, <4>1
    <3> QED
      BY <1>4, <1>8, <2>6, <3>1, <3>3 DEF TwiceExact
  <2> QED
    BY <2>11, <2>12
<1> QED
  BY <1>6, <1>7, <1>8

(* Halving, by the kind of number.                                         *)
LEMMA HalfFollows == f \in FloatBitPatterns => HalfNearest
<1> SUFFICES ASSUME f \in FloatBitPatterns PROVE HalfNearest
  OBVIOUS
<1>1. PICK s, e, r : AreFields(s, e, r) /\ f = Pattern(s, e, r)
  BY PatternHasFields
<1>2. PICK E \in Nat \ {0}, m \in Nat : E = ExpOne /\ m = ExpMax /\ m >= 3
  BY FormatFacts
<1>3. s \in {0, 1} /\ e \in 0..m /\ r \in 0..(E - 1) /\ e \in Int /\ r \in Int
  BY <1>1, <1>2 DEF AreFields
<1>4. Finite(f) <=> e # m
  BY <1>1, <1>2, MagnitudeFields
<1>5. sign(f) = s /\ exp(f) = e
  BY <1>1, FieldsOfPattern
<1>6. CASE e = m
  <2>1. e # 0
    BY <1>2, <1>6
  <2>2. float_half(f) = f
    BY <1>2, <1>5, <1>6, <2>1 DEF float_half
  <2> QED
    BY <1>4, <1>6, <2>2 DEF HalfNearest
<1>7. CASE e = 0
  <2>1. Magnitude(f) = r
    BY <1>1, <1>7, MagnitudeFields
  <2>2. PICK d, w : d = 0 /\ w = r \div 2
    OBVIOUS
  <2>3. float_half(f) = Pattern(s, d, w) /\ AreFields(s, d, w)
    BY <1>1, <1>7, <2>2, HalfDenormal
  <2>4. Magnitude(Pattern(s, d, w)) = w /\ sign(Pattern(s, d, w)) = s
    BY <2>2, <2>3, MagnitudeFields, FieldsOfPattern
  <2>5. e # m
    BY <1>2, <1>7
  <2>6. 2 * w \in r - 1 .. r + 1
    BY <1>3, <2>2
  <2> QED
    BY <1>4, <1>5, <2>1, <2>3, <2>4, <2>5, <2>6 DEF HalfNearest
<1>8. CASE e = 1
  <2>1. e # m
    BY <1>2, <1>8
  <2> QED
    BY <1>4, <1>5, <1>8, <2>1 DEF HalfNearest
<1>9. CASE e \notin {0, 1, m}
  <2>1. PICK t : t = e - 1
    OBVIOUS
  <2>2. float_half(f) = Pattern(s, t, r) /\ AreFields(s, t, r)
    BY <1>1, <1>2, <1>9, <2>1, NormalFields
  <2>3. PICK k \in Int : k = e - 2
    BY <1>3
  <2>4. k \in 0..ExpMax /\ k = t - 1 /\ k + 1 = e - 1 /\ t # 0 /\ e # 0
    BY <1>2, <1>3, <1>9, <2>1, <2>3
  <2>5. 2 ^ k \in Nat \ {0} /\ 2 ^ (k + 1) = 2 * 2 ^ k
    BY <2>4, FloatPowers
  <2>6. PICK w \in Nat \ {0} : w = 2 ^ k /\ 2 ^ (k + 1) = 2 * w
    BY <2>5
  <2>7. Magnitude(f) = (E + r) * (2 * w)
    BY <1>1, <1>2, <2>4, <2>6, MagnitudeFields
  <2>8. Magnitude(Pattern(s, t, r)) = (E + r) * w
    BY <1>2, <2>2, <2>4, <2>6, MagnitudeFields
  <2>9. sign(Pattern(s, t, r)) = s
    BY <2>2, FieldsOfPattern
  <2>10. PICK a \in Int : a = (E + r) * w
    BY <1>3
  <2>11. (E + r) * (2 * w) = 2 * a
    BY <1>3, <2>10
  <2>12. 2 * a \in 2 * a - 1 .. 2 * a + 1
    OBVIOUS
  <2> QED
    BY <1>4, <1>5, <1>9, <2>2, <2>7, <2>8, <2>9, <2>10, <2>11, <2>12 DEF HalfNearest
<1> QED
  BY <1>6, <1>7, <1>8, <1>9

(* The functions return patterns.                                          *)
LEMMA PatternsClosed ==
  ASSUME NEW p \in FloatBitPatterns
  PROVE  /\ float_negate(p) \in FloatBitPatterns
         /\ float_abs(p) \in FloatBitPatterns
         /\ float_twice(p) \in FloatBitPatterns
         /\ float_half(p) \in FloatBitPatterns
<1>1. PICK s, e, r : AreFields(s, e, r) /\ p = Pattern(s, e, r)
  BY PatternHasFields
<1>2. ASSUME NEW u, NEW v, NEW w, AreFields(u, v, w) PROVE Pattern(u, v, w) \in FloatBitPatterns
  BY <1>2, FieldsOfPattern
<1>3. exp(p) = e /\ frac(p) = r
  BY <1>1, FieldsOfPattern
<1>4. float_negate(p) \in FloatBitPatterns
  <2>1. CASE e = ExpMax /\ r # 0
    BY <1>3, <2>1 DEF float_negate, float_is_nan
  <2>2. CASE ~(e = ExpMax /\ r # 0)
    <3>1. float_negate(p) = Pattern(1 - s, e, r) /\ AreFields(1 - s, e, r)
      BY <1>1, <2>2, NegateFields
    <3> QED
      BY <1>2, <3>1
  <2> QED
    BY <2>1, <2>2
<1>5. float_abs(p) \in FloatBitPatterns
  <2>1. float_abs(p) = Pattern(0, e, r) /\ AreFields(0, e, r)
    BY <1>1, AbsFields
  <2> QED
    BY <1>2, <2>1
<1>6. CASE e = ExpMax
  <2>1. e # 0
    BY <1>6, FormatFacts
  <2>2. float_twice(p) = p /\ float_half(p) = p
    BY <1>3, <1>6, <2>1 DEF float_twice, float_half
  <2> QED
    BY <1>4, <1>5, <2>2
<1>7. CASE e = 0
  <2>1. float_half(p) \in FloatBitPatterns
    <3>1. float_half(p) = Pattern(s, 0, r \div 2) /\ AreFields(s, 0, r \div 2)
      BY <1>1, <1>7, HalfDenormal
    <3> QED
      BY <1>2, <3>1
  <2>2. float_twice(p) \in FloatBitPatterns
    <3>1. /\ 2 * r < ExpOne => float_twice(p) = Pattern(s, 0, 2 * r)
          /\ ~(2 * r < ExpOne) => float_twice(p) = Pattern(s, 1, 2 * r - ExpOne)
      BY <1>1, <1>7, TwiceDenormal
    <3>2. 2 * r < ExpOne => AreFields(s, 0, 2 * r)
      BY <1>1, <1>7, FormatFacts DEF AreFields
    <3>3. ~(2 * r < ExpOne) => AreFields(s, 1, 2 * r - ExpOne)
      BY <1>1, <1>7, FormatFacts DEF AreFields
    <3> QED
      BY <1>2, <3>1, <3>2, <3>3
  <2> QED
    BY <1>4, <1>5, <2>1, <2>2
<1>8. CASE e # 0 /\ e # ExpMax
  <2>1. /\ float_twice(p) = Pattern(s, e + 1, r) /\ AreFields(s, e + 1, r)
        /\ float_half(p) = Pattern(s, e - 1, r) /\ AreFields(s, e - 1, r)
    BY <1>1, <1>8, NormalFields
  <2>2. float_twice(p) \in FloatBitPatterns /\ float_half(p) \in FloatBitPatterns
    BY <1>2, <2>1
  <2> QED
    BY <1>4, <1>5, <2>2
<1> QED
  BY <1>6, <1>7, <1>8

(***************************************************************************)
(* The four functions of float_bits.c, for every width of exponent and     *)
(* fraction and every bit pattern: negate and abs are exact on every       *)
(* number and map a NaN to a NaN, twice is exact wherever the result is    *)
(* finite, and half is a number nearest to the quotient away from the last *)
(* normal binade.                                                          *)
(***************************************************************************)
THEOREM AllFloatsExact == FloatSpec => []FloatsExact
<1> DEFINE Inv == f \in FloatBitPatterns
<1>1. FloatInit => Inv
  BY DEF FloatInit
<1>2. Inv /\ [FloatNext]_f => Inv'
  BY PatternsClosed DEF FloatNext, FloatNegate, FloatAbs, FloatTwice, FloatHalf
<1>3. Inv => FloatsExact
  BY SignsFollow, TwiceFollows, HalfFollows DEF FloatsExact
<1> QED
  BY <1>1, <1>2, <1>3, PTL DEF FloatSpec

-----------------------------------------------------------------------------
(* The bitwise functions.                                                  *)

(* Dividing twice is dividing by the product.                              *)
LEMMA DivDiv ==
  ASSUME NEW v \in Int, NEW a \in Nat \ {0}, NEW b \in Nat \ {0}
  PROVE  (v \div a) \div b = v \div (a * b)
<1>1. PICK q \in Int, r \in Int : q = v \div a /\ r = v % a
  OBVIOUS
<1>2. 0 <= r /\ r < a /\ v = a * q + r
  BY <1>1, Remainders
<1>3. PICK t \in Int, u \in Int : t = q \div b /\ u = q % b
  OBVIOUS
<1>4. 0 <= u /\ u < b /\ q = b * t + u
  BY <1>3, Remainders
<1>5. PICK M \in Nat \ {0} : M = a * b
  OBVIOUS
<1>6. PICK w \in Int : w = a * u + r
  OBVIOUS
<1>7. v = t * M + w
  <2>1. a * (b * t + u) + r = t * (a * b) + (a * u + r)
    OBVIOUS
  <2> QED
    BY <1>2, <1>4, <1>5, <1>6, <2>1
<1>8. w \in 0..(M - 1)
  <2>1. a * u >= 0
    BY <1>4
  <2>2. a * (b - 1 - u) >= 0
    BY <1>4
  <2>3. a * (b - 1 - u) = a * b - a - a * u
    OBVIOUS
  <2>4. PICK c \in Int : c = a * u
    OBVIOUS
  <2>5. c >= 0 /\ M - a - c >= 0
    BY <1>5, <2>1, <2>2, <2>3, <2>4
  <2> QED
    BY <1>2, <1>6, <2>4, <2>5
<1>9. v \div M = t
  BY <1>7, <1>8, QuotientOf
<1> QED
  BY <1>1, <1>3, <1>5, <1>9

(* The weight of a place.                                                  *)
LEMMA Weights ==
  /\ 2 ^ 0 = 1
  /\ \A n \in 0..Width : 2 ^ n \in Nat \ {0} /\ 2 ^ (n + 1) = 2 * 2 ^ n
  BY BitPowers

(* A quotient by a weight, from the one by the next weight and the bit.    *)
LEMMA NextQuotient ==
  ASSUME NEW v \in Int, NEW n \in 0..Width
  PROVE  /\ v \div 2 ^ n \in Int
         /\ Bit(v, n) \in {0, 1}
         /\ v \div 2 ^ n = 2 * (v \div 2 ^ (n + 1)) + Bit(v, n)
<1>1. PICK p \in Nat \ {0} : p = 2 ^ n /\ 2 ^ (n + 1) = 2 * p
  BY Weights
<1>2. PICK q \in Int : q = v \div p
  BY <1>1
<1>3. PICK d \in Nat \ {0} : d = 2
  OBVIOUS
<1>4. (v \div p) \div d = v \div (p * d)
  BY DivDiv
<1>5. p * d = 2 * p
  BY <1>3
<1>6. q = 2 * (q \div 2) + (q % 2) /\ q % 2 \in {0, 1}
  OBVIOUS
<1>7. q \div 2 = v \div 2 ^ (n + 1)
  BY <1>1, <1>2, <1>3, <1>4, <1>5
<1>8. Bit(v, n) = q % 2
  BY <1>1, <1>2 DEF Bit
<1> QED
  BY <1>1, <1>2, <1>6, <1>7, <1>8

(* Of an int, the quotient by the last weight is 0 or, below 0, -1.        *)
LEMMA SignQuotient ==
  ASSUME NEW v \in Ints
  PROVE  /\ v \in Int
         /\ v < 0 => v \div 2 ^ (Width - 1) = -1 /\ Bit(v, Width - 1) = 1
         /\ ~(v < 0) => v \div 2 ^ (Width - 1) = 0 /\ Bit(v, Width - 1) = 0
<1>1. PICK H \in Nat \ {0} : H = HalfCount /\ H = 2 ^ (Width - 1)
  BY HalfRange DEF HalfCount
<1>2. v \in Int /\ -H <= v /\ v < H
  <2>1. v \in Int
    BY HalfRange DEF Ints
  <2> QED
    BY <1>1, <2>1, HalfRange
<1>3. CASE v < 0
  <2>1. PICK q \in Int, r \in Int : q = -1 /\ r = v + H
    BY <1>2
  <2>2. r \in 0..(H - 1) /\ v = q * H + r
    BY <1>2, <1>3, <2>1
  <2>3. v \div H = q
    BY <1>2, <2>2, QuotientOf
  <2>4. q % 2 = 1
    <3>1. PICK d \in Nat \ {0} : d = 2
      OBVIOUS
    <3>2. (-d <= q /\ q < 0) => q % d = q + d
      BY Remainders
    <3> QED
      BY <2>1, <3>1, <3>2
  <2> QED
    BY <1>1, <1>2, <1>3, <2>1, <2>3, <2>4 DEF Bit
<1>4. CASE ~(v < 0)
  <2>1. PICK q \in Int : q = 0
    OBVIOUS
  <2>2. v \in 0..(H - 1) /\ v = q * H + v
    BY <1>2, <1>4, <2>1
  <2>3. v \div H = q
    BY <1>2, <2>2, QuotientOf
  <2>4. 0 % 2 = 0
    OBVIOUS
  <2> QED
    BY <1>1, <1>2, <1>4, <2>1, <2>3, <2>4 DEF Bit
<1> QED
  BY <1>3, <1>4

(* Two numbers with the same bits.                                         *)
SameBits(u, v) == \A n \in Places : Bit(u, n) = Bit(v, n)

(* An int is determined by its bits: from the sign down, so are its        *)
(* quotients by the weights.                                               *)
LEMMA BitsDetermine ==
  ASSUME NEW u \in Ints, NEW v \in Ints, SameBits(u, v)
  PROVE  u = v
<1>1. PICK W \in Nat : W = Width - 1 /\ W >= 2
  BY WidthAssumption
<1> DEFINE T == {m \in 0..W : u \div 2 ^ (W - m) = v \div 2 ^ (W - m)}
<1>2. u \in Int /\ v \in Int
  BY SignQuotient
<1>3. \A n \in 0..W : n \in Places /\ n \in 0..Width /\ Bit(u, n) = Bit(v, n)
  <2>1. \A n \in 0..W : n \in Places /\ n \in 0..Width
    BY <1>1, WidthAssumption DEF Places
  <2> QED
    BY <2>1 DEF SameBits
<1>4. 0 \in T
  <2>1. W - 0 = W /\ W \in 0..W /\ 0 \in 0..W
    BY <1>1
  <2>2. Bit(u, W) = Bit(v, W)
    BY <1>3, <2>1
  <2>3. /\ u < 0 => u \div 2 ^ W = -1 /\ Bit(u, W) = 1
        /\ ~(u < 0) => u \div 2 ^ W = 0 /\ Bit(u, W) = 0
    BY <1>1, SignQuotient
  <2>4. /\ v < 0 => v \div 2 ^ W = -1 /\ Bit(v, W) = 1
        /\ ~(v < 0) => v \div 2 ^ W = 0 /\ Bit(v, W) = 0
    BY <1>1, SignQuotient
  <2>5. u \div 2 ^ W = v \div 2 ^ W
    <3>1. PICK i, j : i = Bit(u, W) /\ j = Bit(v, W)
      OBVIOUS
    <3>2. i = j
      BY <2>2, <3>1
    <3>3. (u < 0 => i = 1) /\ (~(u < 0) => i = 0)
      BY <2>3, <3>1
    <3>4. (v < 0 => j = 1) /\ (~(v < 0) => j = 0)
      BY <2>4, <3>1
    <3>5. u < 0 <=> v < 0
      BY <3>2, <3>3, <3>4
    <3>6. CASE u < 0
      BY <2>3, <2>4, <3>5, <3>6
    <3>7. CASE ~(u < 0)
      BY <2>3, <2>4, <3>5, <3>7
    <3> QED
      BY <3>6, <3>7
  <2> QED
    BY <2>1, <2>5
<1>5. ASSUME NEW m \in 1..W, m - 1 \in T PROVE m \in T
  <2>1. PICK n \in Int : n = W - m
    BY <1>1
  <2>2. n \in 0..W /\ n \in 0..Width /\ W - (m - 1) = n + 1 /\ m \in 0..W
    BY <1>1, <1>3, <2>1
  <2>3. u \div 2 ^ (n + 1) = v \div 2 ^ (n + 1)
    BY <1>5, <2>2
  <2>4. u \div 2 ^ n = 2 * (u \div 2 ^ (n + 1)) + Bit(u, n)
    BY <1>2, <2>2, NextQuotient
  <2>5. v \div 2 ^ n = 2 * (v \div 2 ^ (n + 1)) + Bit(v, n)
    BY <1>2, <2>2, NextQuotient
  <2>6. Bit(u, n) = Bit(v, n)
    BY <1>3, <2>2
  <2>7. u \div 2 ^ n = v \div 2 ^ n
    BY <2>3, <2>4, <2>5, <2>6
  <2> QED
    BY <2>1, <2>2, <2>7
<1> HIDE DEF T
<1>6. \A m \in 0..W : m \in T
  BY <1>1, <1>4, <1>5, UpTo
<1>7. W \in T
  BY <1>1, <1>6
<1>8. u \div 2 ^ (W - W) = v \div 2 ^ (W - W)
  BY <1>7 DEF T
<1>9. W - W = 0
  BY <1>1
<1>10. u \div 1 = v \div 1
  BY <1>8, <1>9, Weights
<1> QED
  BY <1>2, <1>10

(* Every choice of bits is an int: it is built from the sign down.         *)
LEMMA BitsExist ==
  ASSUME NEW b \in [Places -> {0, 1}]
  PROVE  \E v \in Ints : \A n \in Places : Bit(v, n) = b[n]
<1>1. PICK W \in Nat : W = Width - 1 /\ W >= 2 /\ Places = 0..W /\ 0..W \subseteq 0..Width
  <2>1. Width - 1 \in Nat /\ Width - 1 >= 2
    BY WidthAssumption
  <2>2. Places = 0..(Width - 1) /\ 0..(Width - 1) \subseteq 0..Width
    BY WidthAssumption DEF Places
  <2> QED
    BY <2>1, <2>2
<1> DEFINE Fits(m, q) == /\ q \in Int /\ -(2 ^ m) <= q /\ q < 2 ^ m
                         /\ \A j \in 0..m : Bit(q, j) = b[W - m + j]
           T == {m \in 0..W : \E q : Fits(m, q)}
<1>2. \A n \in 0..W : b[n] \in {0, 1}
  BY <1>1
<1>3. \A q \in Int : q \div 2 ^ 0 = q /\ Bit(q, 0) = q % 2
  <2>1. \A q \in Int : q \div 1 = q
    OBVIOUS
  <2> QED
    BY <2>1, Weights DEF Bit
<1>4. 0 \in T
  <2>1. PICK q \in Int : q = -b[W]
    BY <1>1, <1>2
  <2>2. b[W] \in {0, 1}
    BY <1>1, <1>2
  <2>3. q % 2 = b[W]
    BY <2>1, <2>2
  <2>4. -1 <= q /\ q < 1
    BY <2>1, <2>2
  <2>5. ASSUME NEW j \in 0..0 PROVE Bit(q, j) = b[W - 0 + j]
    <3>1. j = 0 /\ W - 0 + j = W
      BY <1>1
    <3>2. Bit(q, 0) = b[W]
      BY <1>3, <2>3
    <3> QED
      BY <3>1, <3>2
  <2>6. Fits(0, q)
    BY <2>4, <2>5, Weights
  <2> HIDE DEF Fits
  <2> QED
    BY <1>1, <2>6
<1>5. ASSUME NEW m \in 1..W, m - 1 \in T PROVE m \in T
  <2>1. PICK q : Fits(m - 1, q)
    BY <1>5
  <2>2. PICK k \in Nat : k = m - 1 /\ k \in 0..Width /\ m = k + 1 /\ m \in 0..W
    BY <1>1
  <2>3. /\ q \in Int /\ -(2 ^ k) <= q /\ q < 2 ^ k
        /\ \A j \in 0..k : Bit(q, j) = b[W - k + j]
    BY <2>1, <2>2
  <2>4. W - m \in 0..W
    BY <1>1, <2>2
  <2>5. PICK c \in {0, 1} : c = b[W - m]
    BY <1>2, <2>4
  <2>6. PICK u \in Int : u = 2 * q + c
    BY <2>3
  <2>7. -(2 ^ m) <= u /\ u < 2 ^ m
    <3>1. PICK p \in Nat \ {0} : p = 2 ^ k /\ 2 ^ m = 2 * p
      BY <2>2, Weights
    <3>2. -p <= q /\ q < p
      BY <2>3, <3>1
    <3>3. -(2 * p) <= u /\ u < 2 * p
      BY <2>3, <2>6, <3>2
    <3> QED
      BY <3>1, <3>3
  <2>8. u % 2 = c /\ u \div 2 = q
    BY <2>3, <2>5, <2>6
  <2>9. ASSUME NEW j \in 0..m PROVE Bit(u, j) = b[W - m + j]
    <3>1. CASE j = 0
      <4>1. W - m + 0 = W - m
        BY <1>1, <2>2
      <4>2. Bit(u, 0) = c
        BY <1>3, <2>8
      <4> QED
        BY <2>5, <3>1, <4>1, <4>2
    <3>2. CASE j # 0
      <4>1. PICK i \in 0..k : i = j - 1 /\ j = i + 1
        BY <2>2, <3>2
      <4>2. i \in 0..Width
        <5>1. i \in 0..W
          BY <1>1, <2>2
        <5> QED
          BY <1>1, <5>1
      <4>3. PICK p \in Nat \ {0} : p = 2 ^ i /\ 2 ^ (i + 1) = 2 * p
        BY <4>2, Weights
      <4>4. PICK d \in Nat \ {0} : d = 2
        OBVIOUS
      <4>5. (u \div d) \div p = u \div (d * p)
        BY DivDiv
      <4>6. u \div 2 ^ j = q \div 2 ^ i
        BY <2>8, <4>1, <4>3, <4>4, <4>5
      <4>7. Bit(u, j) = Bit(q, i)
        BY <4>6 DEF Bit
      <4>8. W - k + i = W - m + j
        BY <1>1, <2>2, <4>1
      <4> QED
        BY <2>3, <4>7, <4>8
    <3> QED
      BY <3>1, <3>2
  <2>10. Fits(m, u)
    BY <2>7, <2>9
  <2> HIDE DEF Fits
  <2> QED
    BY <2>2, <2>10
<1> HIDE DEF T
<1>6. \A m \in 0..W : m \in T
  BY <1>1, <1>4, <1>5, UpTo
<1>7. W \in T
  BY <1>1, <1>6
<1>8. PICK q : Fits(W, q)
  BY <1>7 DEF T
<1>9. q \in Ints
  <2>1. q \in Int /\ -HalfCount <= q /\ q < HalfCount
    BY <1>1, <1>8 DEF HalfCount
  <2> QED
    BY <2>1, HalfRange
<1>10. ASSUME NEW n \in Places PROVE Bit(q, n) = b[n]
  <2>1. n \in 0..W /\ W - W + n = n
    BY <1>1
  <2>2. Bit(q, n) = b[W - W + n]
    BY <1>8, <2>1
  <2> QED
    BY <2>1, <2>2
<1> QED
  BY <1>9, <1>10

(* The bit n of v is one.                                                  *)
On(v, n) == Bit(v, n) = 1

(* A bit is 0 or 1.                                                        *)
LEMMA BitRange ==
  ASSUME NEW v \in Int, NEW n \in Places
  PROVE  /\ n \in 0..Width /\ n \in Nat
         /\ Bit(v, n) \in {0, 1}
         /\ ~On(v, n) => Bit(v, n) = 0
<1>1. n \in 0..Width /\ n \in Nat
  BY WidthAssumption DEF Places
<1>2. Bit(v, n) \in {0, 1}
  BY <1>1, NextQuotient
<1> QED
  BY <1>1, <1>2 DEF On

(* Ints are numbers.                                                       *)
LEMMA IntsAreInt == ASSUME NEW v \in Ints PROVE v \in Int
  BY SignQuotient

(* Ints with the same ones are equal.                                      *)
LEMMA SameOnes ==
  ASSUME NEW u \in Ints, NEW v \in Ints, \A n \in Places : On(u, n) <=> On(v, n)
  PROVE  u = v
<1>1. u \in Int /\ v \in Int
  BY IntsAreInt
<1>2. ASSUME NEW n \in Places PROVE Bit(u, n) = Bit(v, n)
  <2>1. CASE On(u, n)
    <3>1. On(v, n)
      BY <2>1
    <3> QED
      BY <2>1, <3>1 DEF On
  <2>2. CASE ~On(u, n)
    <3>1. ~On(v, n)
      BY <2>2
    <3> QED
      BY <1>1, <2>2, <3>1, BitRange
  <2> QED
    BY <2>1, <2>2
<1> QED
  BY <1>2, BitsDetermine DEF SameBits

(* WithBits finds the int.                                                 *)
LEMMA WithBitsHas ==
  ASSUME NEW b \in [Places -> {0, 1}]
  PROVE  WithBits(b) \in Ints /\ \A n \in Places : Bit(WithBits(b), n) = b[n]
  BY BitsExist, Zenon DEF WithBits

(* & is the conjunction of bits.                                           *)
LEMMA AndOn ==
  ASSUME NEW u \in Ints, NEW v \in Ints
  PROVE  /\ and(u, v) \in Ints
         /\ \A n \in Places : On(and(u, v), n) <=> On(u, n) /\ On(v, n)
<1> DEFINE b == [n \in Places |-> Bit(u, n) * Bit(v, n)]
<1>1. ASSUME NEW n \in Places
      PROVE  /\ Bit(u, n) * Bit(v, n) \in {0, 1}
             /\ Bit(u, n) * Bit(v, n) = 1 <=> Bit(u, n) = 1 /\ Bit(v, n) = 1
  <2>1. PICK i \in {0, 1}, j \in {0, 1} : i = Bit(u, n) /\ j = Bit(v, n)
    BY BitRange, IntsAreInt
  <2>2. i * j \in {0, 1} /\ (i * j = 1 <=> i = 1 /\ j = 1)
    OBVIOUS
  <2> QED
    BY <2>1, <2>2
<1>2. b \in [Places -> {0, 1}]
  BY <1>1
<1>3. \A n \in Places : b[n] = 1 <=> On(u, n) /\ On(v, n)
  BY <1>1 DEF On
<1>4. and(u, v) = WithBits(b)
  BY DEF and, AndOf
<1> HIDE DEF b
<1>5. and(u, v) \in Ints /\ \A n \in Places : Bit(and(u, v), n) = b[n]
  BY <1>2, <1>4, WithBitsHas
<1> QED
  BY <1>3, <1>5 DEF On

(* | is the disjunction of bits.                                           *)
LEMMA OrOn ==
  ASSUME NEW u \in Ints, NEW v \in Ints
  PROVE  /\ or(u, v) \in Ints
         /\ \A n \in Places : On(or(u, v), n) <=> On(u, n) \/ On(v, n)
<1> DEFINE b == [n \in Places |-> Bit(u, n) + Bit(v, n) - Bit(u, n) * Bit(v, n)]
<1>1. ASSUME NEW n \in Places
      PROVE  /\ Bit(u, n) + Bit(v, n) - Bit(u, n) * Bit(v, n) \in {0, 1}
             /\ Bit(u, n) + Bit(v, n) - Bit(u, n) * Bit(v, n) = 1
                  <=> Bit(u, n) = 1 \/ Bit(v, n) = 1
  <2>1. PICK i \in {0, 1}, j \in {0, 1} : i = Bit(u, n) /\ j = Bit(v, n)
    BY BitRange, IntsAreInt
  <2>2. i + j - i * j \in {0, 1} /\ (i + j - i * j = 1 <=> i = 1 \/ j = 1)
    OBVIOUS
  <2> QED
    BY <2>1, <2>2
<1>2. b \in [Places -> {0, 1}]
  BY <1>1
<1>3. \A n \in Places : b[n] = 1 <=> On(u, n) \/ On(v, n)
  BY <1>1 DEF On
<1>4. or(u, v) = WithBits(b)
  BY DEF or, OrOf
<1> HIDE DEF b
<1>5. or(u, v) \in Ints /\ \A n \in Places : Bit(or(u, v), n) = b[n]
  BY <1>2, <1>4, WithBitsHas
<1> QED
  BY <1>3, <1>5 DEF On

(* ^ is the difference of bits.                                            *)
LEMMA XorOn ==
  ASSUME NEW u \in Ints, NEW v \in Ints
  PROVE  /\ xor(u, v) \in Ints
         /\ \A n \in Places : On(xor(u, v), n) <=> ~(On(u, n) <=> On(v, n))
<1> DEFINE b == [n \in Places |-> (Bit(u, n) + Bit(v, n)) % 2]
<1>1. ASSUME NEW n \in Places
      PROVE  /\ (Bit(u, n) + Bit(v, n)) % 2 \in {0, 1}
             /\ (Bit(u, n) + Bit(v, n)) % 2 = 1 <=> ~(Bit(u, n) = 1 <=> Bit(v, n) = 1)
  <2>1. PICK i \in {0, 1}, j \in {0, 1} : i = Bit(u, n) /\ j = Bit(v, n)
    BY BitRange, IntsAreInt
  <2>2. (i + j) % 2 \in {0, 1} /\ ((i + j) % 2 = 1 <=> ~(i = 1 <=> j = 1))
    OBVIOUS
  <2> QED
    BY <2>1, <2>2
<1>2. b \in [Places -> {0, 1}]
  BY <1>1
<1>3. \A n \in Places : b[n] = 1 <=> ~(On(u, n) <=> On(v, n))
  BY <1>1 DEF On
<1>4. xor(u, v) = WithBits(b)
  BY DEF xor, XorOf
<1> HIDE DEF b
<1>5. xor(u, v) \in Ints /\ \A n \in Places : Bit(xor(u, v), n) = b[n]
  BY <1>2, <1>4, WithBitsHas
<1> QED
  BY <1>3, <1>5 DEF On

(* ~ turns every bit around, and stays in range.                           *)
LEMMA NotOn ==
  ASSUME NEW v \in Ints
  PROVE  /\ not(v) \in Ints
         /\ \A n \in Places : On(not(v), n) <=> ~On(v, n)
<1>1. v \in Int
  BY IntsAreInt
<1>2. not(v) \in Ints
  <2>1. PICK H \in Nat \ {0} : H = HalfCount
    BY HalfRange
  <2>2. -H <= v /\ v < H
    BY <1>1, <2>1, HalfRange
  <2>3. not(v) \in Int /\ -H <= not(v) /\ not(v) < H
    BY <1>1, <2>2 DEF not
  <2> QED
    BY <2>1, <2>3, HalfRange
<1>3. ASSUME NEW n \in Places PROVE On(not(v), n) <=> ~On(v, n)
  <2>1. PICK p \in Nat \ {0} : p = 2 ^ n
    BY <1>1, BitRange, Weights
  <2>2. PICK q \in Int, r \in Int : q = v \div p /\ r = v % p
    BY <1>1
  <2>3. 0 <= r /\ r < p /\ v = p * q + r
    BY <1>1, <2>2, Remainders
  <2>4. PICK t \in Int, s \in Int, w \in Int : t = -q - 1 /\ s = p - 1 - r /\ w = not(v)
    BY <1>1 DEF not
  <2>5. s \in 0..(p - 1)
    BY <2>3, <2>4
  <2>6. w = t * p + s
    <3>1. (-q - 1) * p + (p - 1 - r) = -(p * q + r) - 1
      OBVIOUS
    <3> QED
      BY <2>3, <2>4, <3>1 DEF not
  <2>7. w \div p = t
    BY <2>5, <2>6, QuotientOf
  <2>8. Bit(not(v), n) = t % 2 /\ Bit(v, n) = q % 2
    BY <2>1, <2>2, <2>4, <2>7 DEF Bit
  <2>9. t % 2 = 1 <=> ~(q % 2 = 1)
    BY <2>4
  <2> QED
    BY <2>8, <2>9 DEF On
<1> QED
  BY <1>2, <1>3

(* The weights grow faster than the places.                                *)
LEMMA WeightGrows == \A n \in 0..(Width - 3) : 2 ^ (n + 2) >= n + 4
<1>1. PICK N \in Nat : N = Width - 3
  BY WidthAssumption
<1> DEFINE T == {n \in 0..N : 2 ^ (n + 2) >= n + 4}
<1>2. 0 \in T
  <2>1. PICK o \in 0..Width : o = 0
    BY WidthAssumption
  <2>2. PICK i \in 0..Width : i = 1
    BY WidthAssumption
  <2>3. 2 ^ o = 1 /\ 2 ^ i = 2 * 2 ^ o /\ 2 ^ (i + 1) = 2 * 2 ^ i
    <3>1. i = o + 1
      BY <2>1, <2>2
    <3> QED
      BY <2>1, <3>1, Weights
  <2>4. 2 ^ (i + 1) = 4
    BY <2>3
  <2>5. i + 1 = 2 /\ 0 + 2 = 2
    BY <2>2
  <2>6. 2 ^ (0 + 2) = 4
    BY <2>4, <2>5
  <2> QED
    BY <2>6, <1>1
<1>3. ASSUME NEW n \in 1..N, n - 1 \in T PROVE n \in T
  <2>1. PICK k \in 0..Width : k = n + 1 /\ (n - 1) + 2 = k /\ n + 2 = k + 1
    BY <1>1, WidthAssumption
  <2>2. PICK p \in Nat \ {0} : p = 2 ^ k /\ 2 ^ (k + 1) = 2 * p
    BY Weights
  <2>3. p >= (n - 1) + 4
    BY <1>3, <2>1, <2>2
  <2>4. 2 * p >= n + 4
    BY <2>3
  <2>5. n \in 0..N
    BY <1>1
  <2> QED
    BY <2>1, <2>2, <2>4, <2>5
<1> HIDE DEF T
<1>4. \A n \in 0..N : n \in T
  BY <1>1, <1>2, <1>3, UpTo
<1> QED
  BY <1>1, <1>4 DEF T

(* Half the range is at least 4 and holds the number of bits.              *)
LEMMA HalfLarge == HalfCount \in Nat /\ HalfCount >= Width + 1 /\ HalfCount >= 4
<1>1. PICK N \in Nat : N = Width - 3 /\ N + 2 = Width - 1
  BY WidthAssumption
<1>2. 2 ^ (N + 2) >= N + 4
  BY <1>1, WeightGrows
<1>3. PICK H \in Nat : H = HalfCount /\ H = 2 ^ (N + 2)
  BY <1>1, HalfRange DEF HalfCount
<1> QED
  BY <1>1, <1>2, <1>3, WidthAssumption

(* The small numbers are ints.                                             *)
LEMMA SmallInts ==
  /\ \A v \in Int : -2 <= v /\ v <= Width => v \in Ints
  /\ 0 \in Ints /\ 1 \in Ints /\ 2 \in Ints /\ -1 \in Ints /\ -2 \in Ints
<1>1. PICK H \in Nat : H = HalfCount /\ H >= Width + 1 /\ H >= 4
  BY HalfLarge
<1>2. Width \in Nat /\ Width >= 3
  BY WidthAssumption
<1>3. ASSUME NEW v \in Int, -2 <= v, v <= Width PROVE v \in Ints
  <2>1. -H <= v /\ v < H
    BY <1>1, <1>2, <1>3
  <2> QED
    BY <1>1, <2>1, HalfRange
<1> QED
  BY <1>2, <1>3

(* 0 has no ones, -1 only ones, 1 the last.                                *)
LEMMA ConstantsOn ==
  \A n \in Places : ~On(0, n) /\ On(-1, n) /\ (On(1, n) <=> n = 0)
<1> SUFFICES ASSUME NEW n \in Places
             PROVE  ~On(0, n) /\ On(-1, n) /\ (On(1, n) <=> n = 0)
  OBVIOUS
<1>1. n \in 0..Width /\ n \in Nat
  <2>1. PICK v \in Int : v = 0
    OBVIOUS
  <2> QED
    BY <2>1, BitRange
<1>2. PICK p \in Nat \ {0} : p = 2 ^ n
  BY <1>1, Weights
<1>3. PICK o \in Int : o = 0
  OBVIOUS
<1>4. o \in 0..(p - 1) /\ o = o * p + o
  BY <1>3
<1>5. o \div p = o
  BY <1>4, QuotientOf
<1>6. Bit(0, n) = 0
  <2>1. o % 2 = 0
    BY <1>3
  <2> QED
    BY <1>2, <1>3, <1>5, <2>1 DEF Bit
<1>7. ~On(0, n)
  BY <1>6 DEF On
<1>8. not(0) = -1
  BY DEF not
<1>9. On(-1, n)
  BY <1>7, <1>8, SmallInts, NotOn
<1>10. ASSUME n = 0 PROVE On(1, n)
  <2>1. 1 \div 1 = 1 /\ 1 % 2 = 1
    OBVIOUS
  <2> QED
    BY <1>10, <2>1, Weights DEF On, Bit
<1>11. ASSUME n # 0 PROVE ~On(1, n)
  <2>1. PICK k \in 0..Width : n = k + 1
    <3>1. n - 1 \in 0..Width /\ n = (n - 1) + 1
      BY <1>1, <1>11, WidthAssumption
    <3> QED
      BY <3>1
  <2>2. PICK h \in Nat \ {0} : p = 2 * h
    BY <1>2, <2>1, Weights
  <2>3. PICK u \in Int : u = 1
    OBVIOUS
  <2>4. u \in 0..(p - 1) /\ u = o * p + u
    BY <1>3, <2>2, <2>3
  <2>5. u \div p = o
    BY <2>4, QuotientOf
  <2>6. Bit(1, n) = 0
    <3>1. o % 2 = 0
      BY <1>3
    <3> QED
      BY <1>2, <2>3, <2>5, <3>1 DEF Bit
  <2> QED
    BY <2>6 DEF On
<1> QED
  BY <1>7, <1>9, <1>10, <1>11

(* The last place is the sign.                                             *)
LEMMA SignOn ==
  ASSUME NEW v \in Ints
  PROVE  Width - 1 \in Places /\ (On(v, Width - 1) <=> v < 0)
<1>1. Width - 1 \in Places
  BY WidthAssumption DEF Places
<1>2. v < 0 => Bit(v, Width - 1) = 1
  BY SignQuotient
<1>3. ~(v < 0) => Bit(v, Width - 1) = 0
  BY SignQuotient
<1> QED
  BY <1>1, <1>2, <1>3 DEF On

(* Masking with 0 and -1, and with the last bit.                           *)
LEMMA Masking ==
  ASSUME NEW v \in Ints
  PROVE  /\ and(0, v) = 0 /\ and(v, 0) = 0
         /\ and(-1, v) = v /\ and(v, -1) = v
         /\ xor(v, 0) = v /\ xor(0, v) = v
         /\ xor(v, -1) = not(v)
         /\ xor(v, v) = 0
<1>0. PICK o \in Ints, m \in Ints : o = 0 /\ m = -1
  BY SmallInts
<1>1. v \in Int /\ o \in Int /\ m \in Int
  BY IntsAreInt
<1>2. \A n \in Places : ~On(o, n) /\ On(m, n)
  BY <1>0, ConstantsOn
<1>3. and(o, v) = o
  <2>1. and(o, v) \in Ints
    BY <1>1, AndOn
  <2>2. \A n \in Places : On(and(o, v), n) <=> On(o, n)
    BY <1>1, <1>2, AndOn
  <2> QED
    BY <2>1, <2>2, SameOnes
<1>4. and(v, o) = o
  <2>1. and(v, o) \in Ints
    BY <1>1, AndOn
  <2>2. \A n \in Places : On(and(v, o), n) <=> On(o, n)
    BY <1>1, <1>2, AndOn
  <2> QED
    BY <2>1, <2>2, SameOnes
<1>5. and(m, v) = v
  <2>1. and(m, v) \in Ints
    BY <1>1, AndOn
  <2>2. \A n \in Places : On(and(m, v), n) <=> On(v, n)
    BY <1>1, <1>2, AndOn
  <2> QED
    BY <2>1, <2>2, SameOnes
<1>6. and(v, m) = v
  <2>1. and(v, m) \in Ints
    BY <1>1, AndOn
  <2>2. \A n \in Places : On(and(v, m), n) <=> On(v, n)
    BY <1>1, <1>2, AndOn
  <2> QED
    BY <2>1, <2>2, SameOnes
<1>7. xor(v, o) = v
  <2>1. xor(v, o) \in Ints
    BY <1>1, XorOn
  <2>2. \A n \in Places : On(xor(v, o), n) <=> On(v, n)
    BY <1>1, <1>2, XorOn
  <2> QED
    BY <2>1, <2>2, SameOnes
<1>8. xor(o, v) = v
  <2>1. xor(o, v) \in Ints
    BY <1>1, XorOn
  <2>2. \A n \in Places : On(xor(o, v), n) <=> On(v, n)
    BY <1>1, <1>2, XorOn
  <2> QED
    BY <2>1, <2>2, SameOnes
<1>9. xor(v, m) = not(v)
  <2>1. xor(v, m) \in Ints /\ not(v) \in Ints
    BY <1>1, XorOn, NotOn
  <2>2. \A n \in Places : On(xor(v, m), n) <=> ~On(v, n)
    BY <1>1, <1>2, XorOn
  <2>3. \A n \in Places : On(xor(v, m), n) <=> On(not(v), n)
    BY <2>2, NotOn
  <2> QED
    BY <2>1, <2>3, SameOnes
<1>10. xor(v, v) = o
  <2>1. xor(v, v) \in Ints
    BY <1>1, XorOn
  <2>2. \A n \in Places : On(xor(v, v), n) <=> On(o, n)
    BY <1>1, <1>2, XorOn
  <2> QED
    BY <2>1, <2>2, SameOnes
<1> QED
  BY <1>0, <1>3, <1>4, <1>5, <1>6, <1>7, <1>8, <1>9, <1>10

(* A quotient of an int is an int.                                         *)
LEMMA ShiftedInt ==
  ASSUME NEW v \in Ints, NEW k \in 0..Width
  PROVE  shr(v, k) \in Ints
<1>1. v \in Int
  BY IntsAreInt
<1>2. PICK d \in Nat \ {0} : d = 2 ^ k
  BY Weights
<1>3. PICK H \in Nat \ {0} : H = HalfCount
  BY HalfRange
<1>4. -H <= v /\ v < H
  BY <1>1, <1>3, HalfRange
<1>5. PICK q \in Int : q = v \div d
  BY <1>1, <1>2
<1>6. d * q <= v /\ v < d * q + d
  BY <1>1, <1>5
<1>7. q < H
  <2>1. ASSUME q >= H PROVE FALSE
    <3>1. PICK g \in Nat, e \in Nat : q = g /\ d = e + 1
      BY <2>1
    <3>2. d * q = e * g + g
      BY <3>1
    <3>3. e * g \in Nat
      BY <3>1
    <3> QED
      BY <1>1, <1>4, <1>6, <2>1, <3>1, <3>2, <3>3
  <2> QED
    BY <2>1
<1>8. -H <= q
  <2>1. ASSUME q < -H PROVE FALSE
    <3>1. PICK g \in Nat, e \in Nat : q + 1 = -g /\ d = e + 1 /\ g >= H
      <4>1. -(q + 1) \in Nat /\ d - 1 \in Nat
        BY <2>1
      <4> QED
        BY <2>1, <4>1
    <3>2. d * q + d = -(e * g) - g
      <4>1. d * q + d = d * (q + 1)
        OBVIOUS
      <4>2. d * (q + 1) = (e + 1) * (-g)
        BY <3>1
      <4>3. (e + 1) * (-g) = -(e * g) - g
        OBVIOUS
      <4> QED
        BY <4>1, <4>2, <4>3
    <3>3. e * g \in Nat
      BY <3>1
    <3> QED
      BY <1>1, <1>4, <1>6, <3>1, <3>2, <3>3
  <2> QED
    BY <2>1
<1>9. q \in Ints
  BY <1>3, <1>7, <1>8, HalfRange
<1> QED
  BY <1>2, <1>5, <1>9 DEF shr

(* & 1 is the last bit, of any int.                                        *)
LEMMA LastBit ==
  ASSUME NEW v \in Ints
  PROVE  and(v, 1) = v % 2
<1>0. v \in Int
  BY IntsAreInt
<1>1. PICK o \in Ints, u \in Ints : o = 0 /\ u = 1
  BY SmallInts
<1>3. \A n \in Places : ~On(o, n) /\ (On(u, n) <=> n = 0)
  BY <1>1, ConstantsOn
<1>4. Bit(v, 0) = v % 2
  <2>1. v \div 1 = v
    BY <1>0
  <2> QED
    BY <2>1, Weights DEF Bit
<1>5. v % 2 \in {0, 1}
  BY <1>0
<1>6. CASE On(v, 0)
  <2>1. and(v, u) = u
    <3>1. and(v, u) \in Ints
      BY AndOn
    <3>2. \A n \in Places : On(and(v, u), n) <=> On(u, n)
      BY <1>3, <1>6, AndOn
    <3> QED
      BY <3>1, <3>2, SameOnes
  <2> QED
    BY <1>1, <1>4, <1>6, <2>1 DEF On
<1>7. CASE ~On(v, 0)
  <2>1. and(v, u) = o
    <3>1. and(v, u) \in Ints
      BY AndOn
    <3>2. \A n \in Places : On(and(v, u), n) <=> On(o, n)
      BY <1>3, <1>7, AndOn
    <3> QED
      BY <3>1, <3>2, SameOnes
  <2>2. v % 2 = 0
    BY <1>4, <1>5, <1>7 DEF On
  <2> QED
    BY <1>1, <2>1, <2>2
<1> QED
  BY <1>6, <1>7

(* The arithmetic shift by the last place.                                 *)
LEMMA SignMaskIs ==
  ASSUME NEW v \in Ints
  PROVE  /\ v < 0 => SignMask(v) = -1
         /\ ~(v < 0) => SignMask(v) = 0
<1>1. SignMask(v) = v \div 2 ^ (Width - 1)
  BY DEF SignMask, shr
<1> QED
  BY <1>1, SignQuotient

(* bit_negate wraps the opposite.                                          *)
LEMMA NegateIs ==
  ASSUME NEW v \in Ints
  PROVE  bit_negate(v) = Wrap(-v) /\ bit_negate(v) \in Ints /\ -v \in Int
<1>1. v \in Int
  BY IntsAreInt
<1>2. (-v - 1) + 1 = -v /\ -v \in Int
  BY <1>1
<1>3. bit_negate(v) = Wrap(-v)
  BY <1>2 DEF bit_negate, add, not
<1> QED
  BY <1>2, <1>3, WrapFacts

(* bit_abs wraps the opposite of a negative number.                        *)
LEMMA AbsIs ==
  ASSUME NEW v \in Ints
  PROVE  /\ v < 0 => bit_abs(v) = Wrap(-v)
         /\ ~(v < 0) => bit_abs(v) = v
         /\ bit_abs(v) \in Ints
<1>1. v \in Int
  BY IntsAreInt
<1>2. ASSUME v < 0 PROVE bit_abs(v) = Wrap(-v)
  <2>1. bit_abs(v) = Wrap(xor(v, -1) - (-1))
    BY <1>2, SignMaskIs DEF bit_abs
  <2>2. xor(v, -1) = -v - 1
    BY Masking DEF not
  <2>3. (-v - 1) - (-1) = -v
    BY <1>1
  <2> QED
    BY <2>1, <2>2, <2>3
<1>3. ASSUME ~(v < 0) PROVE bit_abs(v) = v
  <2>1. bit_abs(v) = Wrap(xor(v, 0) - 0)
    BY <1>3, SignMaskIs DEF bit_abs
  <2>2. xor(v, 0) = v
    BY Masking
  <2>3. v - 0 = v
    BY <1>1
  <2>4. Wrap(v) = v
    BY <1>1, WrapFacts
  <2> QED
    BY <2>1, <2>2, <2>3, <2>4
<1>4. Wrap(-v) \in Ints
  BY NegateIs
<1> QED
  BY <1>2, <1>3, <1>4

(* is_negative is the sign bit.                                            *)
LEMMA NegativeIs ==
  ASSUME NEW v \in Ints
  PROVE  /\ v < 0 => is_negative(v) = 1
         /\ ~(v < 0) => is_negative(v) = 0
         /\ is_negative(v) \in {0, 1}
<1>1. PICK o \in Int, u \in Int : o = 0 /\ u = 1
  OBVIOUS
<1>2. Wrap(o) = o /\ Wrap(u) = u
  BY <1>1, SmallInts, WrapFacts
<1>3. ASSUME v < 0 PROVE is_negative(v) = 1
  <2>1. is_negative(v) = Wrap((-(-1) - 1) + 1)
    BY <1>3, SignMaskIs DEF is_negative, add, not
  <2>2. (-(-1) - 1) + 1 = u
    <3>1. PICK m \in Int : m + 1 = 0
      OBVIOUS
    <3>2. (-m - 1) + 1 = u /\ m = -1
      BY <1>1, <3>1
    <3> QED
      BY <3>2, Zenon
  <2> QED
    BY <1>1, <1>2, <2>1, <2>2
<1>4. ASSUME ~(v < 0) PROVE is_negative(v) = 0
  <2>1. is_negative(v) = Wrap((-0 - 1) + 1)
    BY <1>4, SignMaskIs DEF is_negative, add, not
  <2>2. (-0 - 1) + 1 = o
    BY <1>1
  <2> QED
    BY <1>1, <1>2, <2>1, <2>2
<1> QED
  BY <1>3, <1>4

(* Of a number that is not 0 either it or its opposite is negative: at     *)
(* IntMin, which is its own opposite, both are.                            *)
LEMMA NonZeroIs ==
  ASSUME NEW v \in Ints
  PROVE  /\ v # 0 => NonZeroMask(v) = -1
         /\ v = 0 => NonZeroMask(v) = 0
<1>1. v \in Int
  BY IntsAreInt
<1>2. PICK w \in Ints : w = bit_negate(v) /\ w = Wrap(-v)
  BY NegateIs
<1>3. w \in Int
  BY IntsAreInt
<1>4. PICK e \in Ints : e = or(v, w)
  BY <1>1, <1>3, OrOn
<1>5. NonZeroMask(v) = SignMask(e)
  BY <1>2, <1>4 DEF NonZeroMask
<1>6. On(e, Width - 1) <=> On(v, Width - 1) \/ On(w, Width - 1)
  <2>1. Width - 1 \in Places
    BY SignOn
  <2> QED
    BY <1>1, <1>3, <1>4, <2>1, OrOn
<1>7. e < 0 <=> v < 0 \/ w < 0
  BY <1>6, SignOn
<1>8. ASSUME v > 0 PROVE w < 0
  <2>1. PICK H \in Nat : H = HalfCount
    BY HalfRange
  <2>2. -v \in Int /\ -H <= -v
    BY <1>1, <1>8, <2>1, HalfRange
  <2>3. -v < H
    BY <1>1, <1>8, <2>1
  <2>4. -v \in Ints
    BY <2>1, <2>2, <2>3, HalfRange
  <2>5. Wrap(-v) = -v
    BY <2>2, <2>4, WrapFacts
  <2> QED
    BY <1>1, <1>2, <1>8, <2>5
<1>9. ASSUME v # 0 PROVE NonZeroMask(v) = -1
  <2>1. v < 0 \/ v > 0
    BY <1>1, <1>9
  <2>2. e < 0
    BY <1>7, <1>8, <2>1
  <2> QED
    BY <1>5, <2>2, SignMaskIs
<1>10. ASSUME v = 0 PROVE NonZeroMask(v) = 0
  <2>1. PICK o \in Int : o = 0 /\ o = -v
    BY <1>1, <1>10
  <2>2. Wrap(o) = o
    BY <2>1, SmallInts, WrapFacts
  <2>3. w = 0
    BY <1>2, <2>1, <2>2
  <2>4. ~(v < 0) /\ ~(w < 0)
    BY <1>10, <2>3
  <2>5. ~(e < 0)
    BY <1>7, <2>4
  <2> QED
    BY <1>5, <2>5, SignMaskIs
<1> QED
  BY <1>9, <1>10

(* What the opposite wraps to.                                             *)
LEMMA OppositeIs ==
  ASSUME NEW v \in Ints
  PROVE  /\ v = IntMin => Wrap(-v) = v /\ v < 0
         /\ v # IntMin => Wrap(-v) = -v
<1>1. v \in Int
  BY IntsAreInt
<1>2. PICK H \in Nat \ {0} : H = HalfCount /\ IntMin = -H
  BY HalfRange
<1>3. -H <= v /\ v < H
  BY <1>1, <1>2, HalfRange
<1>4. PICK w \in Int : w = -v
  BY <1>1
<1>5. ASSUME v = IntMin PROVE Wrap(-v) = v /\ v < 0
  <2>1. w = H /\ v = -H
    BY <1>2, <1>4, <1>5
  <2>2. H <= w /\ w < 3 * H
    BY <2>1
  <2>3. Wrap(w) = w - 2 * H
    BY <1>2, <2>2, WrapFacts
  <2>4. w - 2 * H = v /\ v < 0
    BY <2>1
  <2> QED
    BY <1>4, <2>3, <2>4
<1>6. ASSUME v # IntMin PROVE Wrap(-v) = -v
  <2>1. -H <= w /\ w < H
    BY <1>1, <1>2, <1>3, <1>4, <1>6
  <2>2. w \in Ints
    BY <1>2, <2>1, HalfRange
  <2> QED
    BY <1>4, <2>2, WrapFacts
<1> QED
  BY <1>5, <1>6

(* bit_abs and bit_negate are exact.                                       *)
LEMMA AbsFollows == x \in Ints => AbsAndNegate
<1> SUFFICES ASSUME x \in Ints PROVE AbsAndNegate
  OBVIOUS
<1>1. CASE x = IntMin
  <2>1. Wrap(-x) = x /\ x < 0
    BY <1>1, OppositeIs
  <2>2. bit_abs(x) = x /\ bit_negate(x) = x
    BY <2>1, AbsIs, NegateIs
  <2> QED
    BY <1>1, <2>2 DEF AbsAndNegate
<1>2. CASE x # IntMin
  <2>1. Wrap(-x) = -x
    BY <1>2, OppositeIs
  <2>2. bit_negate(x) = -x
    BY <2>1, NegateIs
  <2>3. bit_abs(x) = IF x < 0 THEN -x ELSE x
    BY <2>1, AbsIs
  <2> QED
    BY <1>2, <2>2, <2>3 DEF AbsAndNegate
<1> QED
  BY <1>1, <1>2

(* conditional selects.                                                    *)
LEMMA ConditionalFollows == x \in Ints /\ y \in Ints /\ z \in Ints => ConditionalSelects
<1> SUFFICES ASSUME x \in Ints, y \in Ints, z \in Ints PROVE ConditionalSelects
  OBVIOUS
<1>1. y \in Int /\ z \in Int
  BY IntsAreInt
<1>2. Wrap(y) = y /\ Wrap(z) = z
  BY <1>1, WrapFacts
<1>3. and(0, y) = 0 /\ and(-1, y) = y /\ and(0, z) = 0 /\ and(-1, z) = z
  BY Masking
<1>4. not(0) = -1 /\ not(-1) = 0
  <2>1. PICK m \in Int : m + 1 = 0
    OBVIOUS
  <2>2. -m - 1 = 0 /\ m = -1 /\ -0 - 1 = -1
    BY <2>1
  <2>3. not(m) = 0 /\ not(0) = -1
    BY <2>2 DEF not
  <2> QED
    BY <2>2, <2>3, Zenon
<1>5. conditional(x, y, z)
        = Wrap(and(NonZeroMask(x), y) + and(NonZeroMask(x), z) + and(not(NonZeroMask(x)), z)
               - and(NonZeroMask(x), z))
  BY DEF conditional
<1>6. CASE x # 0
  <2>1. NonZeroMask(x) = -1
    BY <1>6, NonZeroIs
  <2>2. conditional(x, y, z) = Wrap(y + z + 0 - z)
    BY <1>3, <1>4, <1>5, <2>1
  <2>3. y + z + 0 - z = y
    BY <1>1
  <2> QED
    BY <1>2, <1>6, <2>2, <2>3 DEF ConditionalSelects
<1>7. CASE x = 0
  <2>1. NonZeroMask(x) = 0
    BY <1>7, NonZeroIs
  <2>2. conditional(x, y, z) = Wrap(0 + 0 + z - 0)
    BY <1>3, <1>4, <1>5, <2>1
  <2>3. 0 + 0 + z - 0 = z
    BY <1>1
  <2> QED
    BY <1>2, <1>7, <2>2, <2>3 DEF ConditionalSelects
<1> QED
  BY <1>6, <1>7

(* ^ of two flags tells whether they differ.                               *)
LEMMA FlagsDiffer ==
  ASSUME NEW i \in {0, 1}, NEW j \in {0, 1}
  PROVE  /\ i = j => xor(i, j) = 0
         /\ i # j => xor(i, j) = 1
<1>1. i \in Ints /\ j \in Ints
  BY SmallInts
<1>2. i = j => xor(i, j) = 0
  BY <1>1, Masking
<1>3. ASSUME i # j PROVE xor(i, j) = 1
  <2>1. CASE i = 0 /\ j = 1
    BY <1>1, <2>1, Masking
  <2>2. CASE i = 1 /\ j = 0
    BY <1>1, <2>2, Masking
  <2> QED
    BY <1>3, <2>1, <2>2
<1> QED
  BY <1>2, <1>3

(* Of the small numbers bit_abs is the absolute value.                     *)
LEMMA SmallAbs ==
  /\ bit_abs(not(0)) = 1 /\ bit_abs(not(1)) = 2
  /\ bit_abs(Wrap(0 - 1)) = 1 /\ bit_abs(Wrap(1 - 1)) = 0
<1>1. PICK m \in Int : m + 1 = 0
  OBVIOUS
<1>2. PICK d \in Int : d + 2 = 0
  OBVIOUS
<1>3. PICK o \in Int, u \in Int, t \in Int : o = 0 /\ u = 1 /\ t = 2
  OBVIOUS
<1>4. m \in Ints /\ d \in Ints /\ o \in Ints /\ u \in Ints /\ t \in Ints
  <2>1. \A v \in {m, d, o, u, t} : v \in Int /\ -2 <= v /\ v <= Width
    BY <1>1, <1>2, <1>3, WidthAssumption
  <2> QED
    BY <2>1, SmallInts
<1>5. Wrap(u) = u /\ Wrap(t) = t /\ Wrap(m) = m /\ Wrap(o) = o
  BY <1>4, WrapFacts
<1>6. not(0) = m /\ not(1) = d
  <2>1. -0 - 1 = m /\ -1 - 1 = d
    BY <1>1, <1>2
  <2> QED
    BY <2>1 DEF not
<1>7. bit_abs(m) = u
  <2>1. m < 0 /\ -m = u
    BY <1>1, <1>3
  <2>2. bit_abs(m) = Wrap(-m)
    BY <1>4, <2>1, AbsIs
  <2> QED
    BY <1>5, <2>1, <2>2
<1>8. bit_abs(d) = t
  <2>1. d < 0 /\ -d = t
    BY <1>2, <1>3
  <2>2. bit_abs(d) = Wrap(-d)
    BY <1>4, <2>1, AbsIs
  <2> QED
    BY <1>5, <2>1, <2>2
<1>9. bit_abs(o) = o
  <2>1. ~(o < 0)
    BY <1>3
  <2> QED
    BY <1>4, <2>1, AbsIs
<1>10. 0 - 1 = m /\ 1 - 1 = o
  BY <1>1, <1>3
<1> QED
  BY <1>3, <1>5, <1>6, <1>7, <1>8, <1>9, <1>10

(* add_ok says 0 when the arguments have the same sign and the wrapped sum *)
(* has the other one, else 1.                                              *)
LEMMA AddOkIs ==
  ASSUME NEW a \in Ints, NEW b \in Ints
  PROVE  /\ add(a, b) \in Ints
         /\ ((a < 0 <=> b < 0) /\ ~(add(a, b) < 0 <=> a < 0)) => add_ok(a, b) = 0
         /\ ~((a < 0 <=> b < 0) /\ ~(add(a, b) < 0 <=> a < 0)) => add_ok(a, b) = 1
<1>1. a \in Int /\ b \in Int
  BY IntsAreInt
<1>2. PICK s \in Ints : s = add(a, b)
  <2>1. a + b \in Int
    BY <1>1
  <2> QED
    BY <2>1, WrapFacts DEF add
<1>3. PICK i \in {0, 1}, j \in {0, 1}, k \in {0, 1} :
        i = is_negative(a) /\ j = is_negative(b) /\ k = is_negative(s)
  BY NegativeIs
<1>4. /\ (a < 0 => i = 1) /\ (~(a < 0) => i = 0)
      /\ (b < 0 => j = 1) /\ (~(b < 0) => j = 0)
      /\ (s < 0 => k = 1) /\ (~(s < 0) => k = 0)
  BY <1>3, NegativeIs
<1>5. PICK g : g = bit_abs(not(xor(i, j)))
  OBVIOUS
<1>6. PICK t : t = xor(k, i)
  OBVIOUS
<1>7. add_ok(a, b) = bit_abs(Wrap(and(g, t) - 1))
  BY <1>2, <1>3, <1>5, <1>6, Zenon DEF add_ok
<1>8. (i = j => g = 1) /\ (i # j => g = 2)
  BY <1>5, FlagsDiffer, SmallAbs
<1>9. (k = i => t = 0) /\ (k # i => t = 1)
  BY <1>6, FlagsDiffer
<1>10. and(1, 0) = 0 /\ and(2, 0) = 0
  BY SmallInts, Masking
<1>11. and(1, 1) = 1 /\ and(2, 1) = 0
  <2>1. and(1, 1) = 1 % 2
    <3>1. PICK u \in Ints : u = 1
      BY SmallInts
    <3>2. and(u, 1) = u % 2
      BY LastBit
    <3> QED
      BY <3>1, <3>2
  <2>2. and(2, 1) = 2 % 2
    <3>1. PICK u \in Ints : u = 2
      BY SmallInts
    <3>2. and(u, 1) = u % 2
      BY LastBit
    <3> QED
      BY <3>1, <3>2
  <2>3. 1 % 2 = 1 /\ 2 % 2 = 0
    OBVIOUS
  <2> QED
    BY <2>1, <2>2, <2>3
<1>12. ASSUME i = j, k # i PROVE add_ok(a, b) = 0
  BY <1>7, <1>8, <1>9, <1>11, <1>12, SmallAbs
<1>13. ASSUME i = j, k = i PROVE add_ok(a, b) = 1
  BY <1>7, <1>8, <1>9, <1>10, <1>13, SmallAbs
<1>14. ASSUME i # j PROVE add_ok(a, b) = 1
  <2>1. g = 2 /\ (t = 0 \/ t = 1)
    BY <1>8, <1>9, <1>14
  <2>2. and(g, t) = 0
    BY <1>10, <1>11, <2>1
  <2> QED
    BY <1>7, <2>2, SmallAbs
<1>15. /\ i = j <=> (a < 0 <=> b < 0)
       /\ k = i <=> (s < 0 <=> a < 0)
  BY <1>4
<1> QED
  BY <1>2, <1>12, <1>13, <1>14, <1>15

(* The sum overflows exactly when its sign is wrong.                       *)
LEMMA AddOkFollows == x \in Ints /\ y \in Ints => AddOkIsExact
<1> SUFFICES ASSUME x \in Ints, y \in Ints PROVE AddOkIsExact
  OBVIOUS
<1>1. PICK a \in Int, b \in Int : a = x /\ b = y
  BY IntsAreInt
<1>2. PICK H \in Nat \ {0} : H = HalfCount
  BY HalfRange
<1>3. -H <= a /\ a < H /\ -H <= b /\ b < H
  BY <1>1, <1>2, HalfRange
<1>4. PICK e \in Int : e = a + b
  OBVIOUS
<1>5. add(x, y) = Wrap(e)
  BY <1>1, <1>4 DEF add
<1>6. CASE e \in Ints
  <2>1. Wrap(e) = e
    BY <1>6, WrapFacts
  <2>2. ~((a < 0 <=> b < 0) /\ ~(e < 0 <=> a < 0))
    BY <1>4
  <2>3. add_ok(x, y) = 1
    BY <1>1, <1>5, <2>1, <2>2, AddOkIs
  <2> QED
    BY <1>1, <1>4, <1>6, <2>3 DEF AddOkIsExact
<1>7. CASE e \notin Ints
  <2>1. e < -H \/ H <= e
    BY <1>2, <1>7, HalfRange
  <2>2. PICK w \in Int : w = Wrap(e)
    BY WrapFacts, IntsAreInt
  <2>3. (a < 0 <=> b < 0) /\ ~(w < 0 <=> a < 0)
    <3>1. CASE e < -H
      <4>1. -3 * H <= e /\ a < 0 /\ b < 0
        BY <1>3, <1>4, <3>1
      <4>2. w = e + 2 * H
        BY <1>2, <2>2, <3>1, <4>1, WrapFacts
      <4>3. w >= 0
        BY <1>3, <1>4, <4>2
      <4> QED
        BY <4>1, <4>3
    <3>2. CASE H <= e
      <4>1. e < 3 * H /\ a >= 0 /\ b >= 0
        BY <1>3, <1>4, <3>2
      <4>2. w = e - 2 * H
        BY <1>2, <2>2, <3>2, <4>1, WrapFacts
      <4>3. w < 0
        BY <1>3, <1>4, <4>2
      <4> QED
        BY <4>1, <4>3
    <3> QED
      BY <2>1, <3>1, <3>2
  <2>4. add_ok(x, y) = 0
    BY <1>1, <1>5, <2>2, <2>3, AddOkIs
  <2> QED
    BY <1>1, <1>4, <1>7, <2>4 DEF AddOkIsExact
<1> QED
  BY <1>6, <1>7

(* Doubling moves the bits up by one place.                                *)
LEMMA DoubleOn ==
  ASSUME NEW v \in Int
  PROVE  /\ ~On(2 * v, 0)
         /\ \A n \in 0..Width : On(2 * v, n + 1) <=> On(v, n)
<1>1. PICK d \in Nat \ {0}, w \in Int : d = 2 /\ w = 2 * v
  OBVIOUS
<1>2. w % 2 = 0 /\ w \div d = v /\ w \div 1 = w
  BY <1>1
<1>3. ~On(w, 0)
  <2>1. Bit(w, 0) = 0
    BY <1>2, Weights DEF Bit
  <2> QED
    BY <2>1 DEF On
<1>4. ASSUME NEW n \in 0..Width PROVE On(w, n + 1) <=> On(v, n)
  <2>1. PICK p \in Nat \ {0} : p = 2 ^ n /\ 2 ^ (n + 1) = 2 * p
    BY Weights
  <2>2. (w \div d) \div p = w \div (d * p)
    BY DivDiv
  <2>3. w \div 2 ^ (n + 1) = v \div 2 ^ n
    BY <1>1, <1>2, <2>1, <2>2
  <2> QED
    BY <2>3 DEF On, Bit
<1> QED
  BY <1>1, <1>3, <1>4

(* A power of two has one one.                                             *)
LEMMA PowerOn ==
  ASSUME NEW h \in Places
  PROVE  \A n \in Places : On(2 ^ h, n) <=> n = h
<1>1. PICK W \in Nat : W = Width - 1 /\ Places = 0..W
  BY WidthAssumption DEF Places
<1> DEFINE T == {k \in 0..W : \A n \in Places : On(2 ^ k, n) <=> n = k}
<1>2. 0 \in T
  BY <1>1, ConstantsOn, Weights
<1>3. ASSUME NEW k \in 1..W, k - 1 \in T PROVE k \in T
  <2>1. PICK j \in 0..Width : j = k - 1 /\ k = j + 1
    BY <1>1, WidthAssumption
  <2>2. PICK p \in Nat \ {0} : p = 2 ^ j /\ 2 ^ k = 2 * p
    BY <2>1, Weights
  <2>3. \A n \in Places : On(p, n) <=> n = j
    BY <1>3, <2>1, <2>2
  <2>4. ASSUME NEW n \in Places PROVE On(2 * p, n) <=> n = k
    <3>1. CASE n = 0
      <4>1. ~On(2 * p, 0)
        <5>1. p \in Int
          OBVIOUS
        <5> QED
          BY <5>1, DoubleOn
      <4>2. n # k
        BY <1>1, <3>1
      <4> QED
        BY <3>1, <4>1, <4>2
    <3>2. CASE n # 0
      <4>1. PICK i \in Places : n = i + 1
        <5>1. n - 1 \in Places /\ n = (n - 1) + 1
          BY <1>1, <3>2
        <5> QED
          BY <5>1
      <4>2. i \in 0..Width
        BY <1>1, WidthAssumption
      <4>3. On(2 * p, i + 1) <=> On(p, i)
        BY <4>2, DoubleOn
      <4>4. On(p, i) <=> i = j
        BY <2>3
      <4>5. i = j <=> n = k
        BY <2>1, <4>1, <4>2
      <4> QED
        BY <4>1, <4>3, <4>4, <4>5
    <3> QED
      BY <3>1, <3>2
  <2>5. k \in 0..W
    BY <1>1
  <2> QED
    BY <2>2, <2>4, <2>5
<1> HIDE DEF T
<1>4. \A k \in 0..W : k \in T
  BY <1>1, <1>2, <1>3, UpTo
<1>5. h \in T
  BY <1>1, <1>4
<1> QED
  BY <1>5 DEF T

(* A positive int lies between two powers of two.                          *)
LEMMA Highest ==
  ASSUME NEW a \in Ints, a > 0
  PROVE  \E h \in 0..(Width - 2) : 2 ^ h <= a /\ a < 2 ^ (h + 1)
<1>1. PICK W \in Nat : W = Width - 1 /\ W - 1 = Width - 2 /\ W <= Width
  BY WidthAssumption
<1>2. a \in Int
  BY IntsAreInt
<1>3. SUFFICES ASSUME \A h \in 0..(W - 1) : ~(2 ^ h <= a /\ a < 2 ^ (h + 1))
               PROVE  FALSE
  BY <1>1
<1> DEFINE T == {m \in 0..W : 2 ^ m <= a}
<1>4. 0 \in T
  BY <1>1, <1>2, Weights
<1>5. ASSUME NEW m \in 1..W, m - 1 \in T PROVE m \in T
  <2>1. PICK k \in 0..(W - 1) : k = m - 1 /\ m = k + 1
    BY <1>1
  <2>2. k \in 0..Width
    BY <1>1, WidthAssumption
  <2>3. PICK p \in Nat : p = 2 ^ (k + 1)
    BY <2>2, Weights
  <2>4. 2 ^ k <= a
    BY <1>5, <2>1
  <2>5. ~(a < 2 ^ (k + 1))
    BY <1>3, <2>4
  <2>6. p <= a
    BY <1>2, <2>3, <2>5
  <2>7. m \in 0..W
    BY <1>1
  <2> QED
    BY <2>1, <2>3, <2>6, <2>7
<1> HIDE DEF T
<1>6. \A m \in 0..W : m \in T
  BY <1>1, <1>4, <1>5, UpTo
<1>7. W \in T
  BY <1>1, <1>6
<1>8. 2 ^ W <= a
  BY <1>7 DEF T
<1>9. PICK H \in Nat : H = HalfCount /\ H = 2 ^ W
  BY <1>1, HalfRange DEF HalfCount
<1>10. a < H
  BY <1>2, <1>9, HalfRange
<1> QED
  BY <1>2, <1>8, <1>9, <1>10

(* Its highest one, and a smaller number's.                                *)
LEMMA HighestOn ==
  ASSUME NEW v \in Int, NEW h \in 0..Width
  PROVE  /\ 2 ^ h <= v /\ v < 2 ^ (h + 1) => On(v, h)
         /\ 0 <= v /\ v < 2 ^ h => ~On(v, h)
<1>1. PICK p \in Nat \ {0} : p = 2 ^ h /\ 2 ^ (h + 1) = 2 * p
  BY Weights
<1>2. ASSUME p <= v, v < 2 * p PROVE On(v, h)
  <2>1. PICK q \in Int, r \in Int : q = 1 /\ r = v - p
    OBVIOUS
  <2>2. r \in 0..(p - 1) /\ v = q * p + r
    BY <1>2, <2>1
  <2>3. v \div p = q
    BY <2>2, QuotientOf
  <2>4. q % 2 = 1
    BY <2>1
  <2> QED
    BY <1>1, <2>3, <2>4 DEF On, Bit
<1>3. ASSUME 0 <= v, v < p PROVE ~On(v, h)
  <2>1. PICK q \in Int : q = 0
    OBVIOUS
  <2>2. v \in 0..(p - 1) /\ v = q * p + v
    BY <1>3, <2>1
  <2>3. v \div p = q
    BY <2>2, QuotientOf
  <2>4. q % 2 = 0
    BY <2>1
  <2>5. Bit(v, h) = 0
    BY <1>1, <2>3, <2>4 DEF Bit
  <2> QED
    BY <2>5 DEF On
<1> QED
  BY <1>1, <1>2, <1>3

(* a & (a - 1) of a positive a is 0 exactly when a is a power of two: else *)
(* the highest ones of the two coincide.                                   *)
LEMMA ClearsLowest ==
  ASSUME NEW a \in Ints, a > 0
  PROVE  /\ Wrap(a - 1) = a - 1 /\ a - 1 \in Ints
         /\ and(a, a - 1) = 0 <=> \E n \in 0..(Width - 2) : a = 2 ^ n
<1>1. a \in Int
  BY IntsAreInt
<1>2. PICK b \in Int : b = a - 1
  BY <1>1
<1>3. b \in Ints
  <2>1. PICK H \in Nat : H = HalfCount
    BY HalfRange
  <2>2. a < H
    BY <1>1, <2>1, HalfRange
  <2>3. -H <= b /\ b < H
    BY <1>1, <1>2, <2>2
  <2> QED
    BY <2>1, <2>3, HalfRange
<1>4. Wrap(b) = b
  BY <1>3, WrapFacts
<1>5. PICK o \in Ints : o = 0
  BY SmallInts
<1>6. \A n \in Places : ~On(o, n)
  BY <1>5, ConstantsOn
<1>7. PICK c \in Ints : c = and(a, b) /\ \A n \in Places : On(c, n) <=> On(a, n) /\ On(b, n)
  <2>1. and(a, b) \in Ints
    BY <1>3, AndOn
  <2>2. \A n \in Places : On(and(a, b), n) <=> On(a, n) /\ On(b, n)
    BY <1>3, AndOn
  <2> QED
    BY <2>1, <2>2, Zenon
<1>8. ASSUME NEW h \in 0..(Width - 2), a = 2 ^ h PROVE c = o
  <2>1. h \in Places /\ h \in 0..Width
    BY WidthAssumption DEF Places
  <2>2. \A n \in Places : On(a, n) <=> n = h
    BY <1>8, <2>1, PowerOn
  <2>3. 0 <= b /\ b < 2 ^ h
    BY <1>1, <1>2, <1>8
  <2>4. ~On(b, h)
    BY <2>1, <2>3, HighestOn
  <2>5. \A n \in Places : On(c, n) <=> On(o, n)
    BY <1>6, <1>7, <2>2, <2>4
  <2> QED
    BY <2>5, SameOnes
<1>9. ASSUME \A n \in 0..(Width - 2) : a # 2 ^ n PROVE c # o
  <2>1. PICK h \in 0..(Width - 2) : 2 ^ h <= a /\ a < 2 ^ (h + 1)
    BY Highest
  <2>2. h \in Places /\ h \in 0..Width
    BY WidthAssumption DEF Places
  <2>3. PICK p \in Nat, t \in Nat : p = 2 ^ h /\ t = 2 ^ (h + 1)
    BY <2>2, Weights
  <2>4. a # p /\ p <= a /\ a < t
    BY <1>9, <2>1, <2>3
  <2>5. p <= b /\ b < t
    BY <1>1, <1>2, <2>4
  <2>6. On(a, h) /\ On(b, h)
    BY <1>1, <2>1, <2>2, <2>3, <2>5, HighestOn
  <2>7. On(c, h) /\ ~On(o, h)
    BY <1>6, <1>7, <2>2, <2>6
  <2> QED
    BY <2>7
<1>10. c = o <=> \E n \in 0..(Width - 2) : a = 2 ^ n
  BY <1>8, <1>9
<1> QED
  BY <1>2, <1>3, <1>4, <1>5, <1>7, <1>10

(* is_power_of_2 puts three conditions together.                           *)
LEMMA PowerIs ==
  ASSUME NEW a \in Ints
  PROVE  /\ a > 0 /\ and(a, Wrap(a - 1)) = 0 => is_power_of_2(a) = 1
         /\ ~(a > 0 /\ and(a, Wrap(a - 1)) = 0) => is_power_of_2(a) = 0
<1>1. a \in Int
  BY IntsAreInt
<1>2. PICK o \in Ints, m \in Ints, u \in Ints : o = 0 /\ m = -1 /\ u = 1
  BY SmallInts
<1>3. not(o) = m /\ not(m) = o
  <2>1. PICK e \in Int : e + 1 = 0
    OBVIOUS
  <2>2. -e - 1 = 0 /\ e = -1 /\ -0 - 1 = -1
    BY <2>1
  <2>3. not(e) = 0 /\ not(0) = -1
    BY <2>2 DEF not
  <2> QED
    BY <1>2, <2>2, <2>3, Zenon
<1>4. PICK v \in Ints : v = and(a, Wrap(a - 1))
  <2>1. a - 1 \in Int
    BY <1>1
  <2>2. Wrap(a - 1) \in Ints
    BY <2>1, WrapFacts
  <2> QED
    BY <2>2, AndOn
<1>5. PICK i, j, k : i = not(NonZeroMask(v)) /\ j = NonZeroMask(a) /\ k = not(SignMask(a))
  OBVIOUS
<1>6. is_power_of_2(a) = and(and(and(i, j), k), u)
  BY <1>2, <1>4, <1>5, Zenon DEF is_power_of_2
<1>7. (v = 0 => i = m) /\ (v # 0 => i = o)
  BY <1>2, <1>3, <1>5, NonZeroIs
<1>8. (a # 0 => j = m) /\ (a = 0 => j = o)
  BY <1>2, <1>5, NonZeroIs
<1>9. (a < 0 => k = o) /\ (~(a < 0) => k = m)
  BY <1>2, <1>3, <1>5, SignMaskIs
<1>10. \A w \in Ints : and(o, w) = o /\ and(w, o) = o /\ and(m, w) = w
  BY <1>2, Masking
<1>11. ASSUME a > 0, v = 0 PROVE is_power_of_2(a) = 1
  <2>1. i = m /\ j = m /\ k = m
    <3>1. a # 0 /\ ~(a < 0)
      BY <1>1, <1>11
    <3> QED
      BY <1>7, <1>8, <1>9, <1>11, <3>1
  <2>2. and(m, m) = m /\ and(m, u) = u
    BY <1>10
  <2> QED
    BY <1>2, <1>6, <2>1, <2>2
<1>12. ASSUME ~(a > 0 /\ v = 0) PROVE is_power_of_2(a) = 0
  <2>1. (i = m \/ i = o) /\ (j = m \/ j = o) /\ (k = m \/ k = o)
    BY <1>7, <1>8, <1>9
  <2>2. i = o \/ j = o \/ k = o
    <3>1. v # 0 \/ a = 0 \/ a < 0
      BY <1>1, <1>12
    <3> QED
      BY <1>7, <1>8, <1>9, <3>1
  <2>3. and(o, o) = o /\ and(o, m) = o /\ and(m, o) = o /\ and(m, m) = m /\ and(o, u) = o
    BY <1>10
  <2>4. and(and(i, j), k) = o
    BY <2>1, <2>2, <2>3
  <2> QED
    BY <1>2, <1>6, <2>3, <2>4
<1> QED
  BY <1>4, <1>11, <1>12

(* is_power_of_2 recognises the powers of two.                             *)
LEMMA PowerExact ==
  ASSUME NEW a \in Ints
  PROVE  /\ (\E n \in 0..(Width - 2) : a = 2 ^ n) => is_power_of_2(a) = 1 /\ a > 0
         /\ ~(\E n \in 0..(Width - 2) : a = 2 ^ n) => is_power_of_2(a) = 0
<1>1. a \in Int
  BY IntsAreInt
<1>2. CASE a > 0
  <2>1. and(a, Wrap(a - 1)) = 0 <=> \E n \in 0..(Width - 2) : a = 2 ^ n
    BY <1>2, ClearsLowest
  <2> QED
    BY <1>2, <2>1, PowerIs
<1>3. CASE ~(a > 0)
  <2>1. \A n \in 0..(Width - 2) : n \in 0..Width
    BY WidthAssumption
  <2>2. ASSUME NEW n \in 0..(Width - 2) PROVE a # 2 ^ n
    <3>1. PICK p \in Nat \ {0} : p = 2 ^ n
      BY <2>1, Weights
    <3> QED
      BY <1>1, <1>3, <3>1
  <2> QED
    BY <1>3, <2>2, PowerIs
<1> QED
  BY <1>2, <1>3

(* The places below n at which a has a one.                                *)
OnesBelow(a, n) == {j \in 0..(n - 1) : On(a, j)}

(* They are finitely many, and one place more adds its bit.                *)
LEMMA OnesGrow ==
  ASSUME NEW a \in Int
  PROVE  /\ Cardinality(OnesBelow(a, 0)) = 0
         /\ \A n \in 0..Width : /\ IsFiniteSet(OnesBelow(a, n))
                                /\ Cardinality(OnesBelow(a, n)) \in 0..n
         /\ \A n \in 1..Width :
              Cardinality(OnesBelow(a, n)) = Cardinality(OnesBelow(a, n - 1)) + Bit(a, n - 1)
<1>1. OnesBelow(a, 0) = {}
  BY DEF OnesBelow
<1>2. Cardinality(OnesBelow(a, 0)) = 0
  BY <1>1, FS_EmptySet
<1>3. ASSUME NEW n \in 0..Width
      PROVE  /\ IsFiniteSet(OnesBelow(a, n))
             /\ Cardinality(OnesBelow(a, n)) \in 0..n
  <2>1. PICK i \in Int, k \in Int : i = 0 /\ k = n - 1 /\ n \in Nat
    BY WidthAssumption
  <2>2. IsFiniteSet(i..k) /\ Cardinality(i..k) = IF i > k THEN 0 ELSE k - i + 1
    BY FS_Interval
  <2>3. OnesBelow(a, n) \in SUBSET (i..k)
    BY <2>1 DEF OnesBelow
  <2>4. IsFiniteSet(OnesBelow(a, n)) /\ Cardinality(OnesBelow(a, n)) <= Cardinality(i..k)
    BY <2>2, <2>3, FS_Subset
  <2>5. Cardinality(OnesBelow(a, n)) \in Nat
    BY <2>4, FS_CardinalityType
  <2>6. Cardinality(i..k) = n
    BY <2>1, <2>2
  <2> QED
    BY <2>1, <2>4, <2>5, <2>6
<1>4. ASSUME NEW n \in 1..Width
      PROVE  Cardinality(OnesBelow(a, n)) = Cardinality(OnesBelow(a, n - 1)) + Bit(a, n - 1)
  <2>1. PICK k \in 0..Width : k = n - 1 /\ n = k + 1 /\ k \in Places
    <3>1. n - 1 \in 0..Width /\ n = (n - 1) + 1 /\ n - 1 \in Places
      BY WidthAssumption DEF Places
    <3> QED
      BY <3>1
  <2>2. IsFiniteSet(OnesBelow(a, k)) /\ Cardinality(OnesBelow(a, k)) \in 0..k
    BY <1>3
  <2>3. k \notin OnesBelow(a, k)
    BY <2>1, WidthAssumption DEF OnesBelow
  <2>4. CASE On(a, k)
    <3>1. OnesBelow(a, n) = OnesBelow(a, k) \cup {k}
      BY <2>1, <2>4, WidthAssumption DEF OnesBelow
    <3>2. Cardinality(OnesBelow(a, k) \cup {k}) = Cardinality(OnesBelow(a, k)) + 1
      BY <2>2, <2>3, FS_AddElement
    <3> QED
      BY <2>1, <2>4, <3>1, <3>2 DEF On
  <2>5. CASE ~On(a, k)
    <3>1. OnesBelow(a, n) = OnesBelow(a, k)
      BY <2>1, <2>5, WidthAssumption DEF OnesBelow
    <3>2. Bit(a, k) = 0
      BY <2>1, <2>5, BitRange
    <3>3. Cardinality(OnesBelow(a, k)) + 0 = Cardinality(OnesBelow(a, k))
      BY <2>2
    <3> QED
      BY <2>1, <3>1, <3>2, <3>3
  <2> QED
    BY <2>4, <2>5
<1> QED
  BY <1>2, <1>3, <1>4

(* bit_count counts the ones.                                              *)
LEMMA CountIs ==
  ASSUME NEW a \in Ints
  PROVE  bit_count(a) = Cardinality(OnesBelow(a, Width))
<1> DEFINE Rec(g) ==
             g = [n \in 0..Width |-> IF n = 0 THEN 0 ELSE g[n - 1] + and(shr(a, n - 1), 1)]
           count == [n \in 0..Width |-> Cardinality(OnesBelow(a, n))]
<1>1. Width \in Nat
  BY WidthAssumption
<1>2. ASSUME NEW n \in 1..Width PROVE and(shr(a, n - 1), 1) = Bit(a, n - 1)
  <2>1. PICK k \in 0..Width : k = n - 1
    BY <1>1
  <2>2. shr(a, k) \in Ints
    BY ShiftedInt
  <2>3. and(shr(a, k), 1) = shr(a, k) % 2
    BY <2>2, LastBit
  <2>4. shr(a, k) % 2 = Bit(a, k)
    BY DEF shr, Bit
  <2> QED
    BY <2>1, <2>3, <2>4
<1>3. \A n \in 0..Width : count[n] = Cardinality(OnesBelow(a, n))
  OBVIOUS
<1>4. count = [n \in 0..Width |-> count[n]]
  OBVIOUS
<1> HIDE DEF count
<1>5. count[0] = 0
  BY <1>1, <1>3, IntsAreInt, OnesGrow
<1>6. ASSUME NEW n \in 1..Width PROVE count[n] = count[n - 1] + and(shr(a, n - 1), 1)
  <2>1. n \in 0..Width /\ n - 1 \in 0..Width
    BY <1>1
  <2>2. count[n] = Cardinality(OnesBelow(a, n))
    BY <1>3, <2>1
  <2>3. count[n - 1] = Cardinality(OnesBelow(a, n - 1))
    BY <1>3, <2>1
  <2>4. Cardinality(OnesBelow(a, n)) = Cardinality(OnesBelow(a, n - 1)) + Bit(a, n - 1)
    BY IntsAreInt, OnesGrow
  <2> QED
    BY <1>2, <2>2, <2>3, <2>4
<1>7. \A n \in 0..Width : count[n] = IF n = 0 THEN 0 ELSE count[n - 1] + and(shr(a, n - 1), 1)
  <2>1. \A n \in 0..Width : n = 0 \/ n \in 1..Width
    BY <1>1
  <2> QED
    BY <1>5, <1>6, <2>1
<1>8. Rec(count)
  BY <1>4, <1>7
<1>9. PICK terms : terms = CHOOSE e : Rec(e)
  OBVIOUS
<1>10. Rec(terms)
  BY <1>8, <1>9
<1>11. bit_count(a) = terms[Width]
  BY <1>9 DEF bit_count
<1>12. terms[0] = 0
  BY <1>1, <1>10
<1>13. ASSUME NEW n \in 1..Width PROVE terms[n] = terms[n - 1] + and(shr(a, n - 1), 1)
  <2>1. n \in 0..Width /\ n # 0
    BY <1>1
  <2> QED
    BY <1>10, <2>1
<1> DEFINE T == {n \in 0..Width : terms[n] = count[n]}
<1> HIDE DEF Rec
<1>14. 0 \in T
  BY <1>1, <1>5, <1>12
<1>15. ASSUME NEW n \in 1..Width, n - 1 \in T PROVE n \in T
  <2>1. n \in 0..Width
    BY <1>1
  <2>2. terms[n - 1] = count[n - 1]
    BY <1>15
  <2>3. terms[n] = count[n]
    BY <1>6, <1>13, <2>2
  <2> QED
    BY <2>1, <2>3
<1> HIDE DEF T
<1>16. \A n \in 0..Width : n \in T
  BY <1>1, <1>14, <1>15, UpTo
<1>17. Width \in T /\ Width \in 0..Width
  BY <1>1, <1>16
<1>18. terms[Width] = count[Width]
  BY <1>17 DEF T
<1> QED
  BY <1>3, <1>11, <1>17, <1>18

(* A positive int with a single one is a power of two.                     *)
LEMMA CountOne ==
  ASSUME NEW a \in Ints, a > 0
  PROVE  is_power_of_2(a) = 1 <=> bit_count(a) = 1
<1>1. a \in Int
  BY IntsAreInt
<1>2. Width \in Nat /\ Width \in 0..Width /\ Places = 0..(Width - 1)
  BY WidthAssumption DEF Places
<1>3. PICK S : S = OnesBelow(a, Width)
  OBVIOUS
<1>4. IsFiniteSet(S) /\ bit_count(a) = Cardinality(S)
  BY <1>1, <1>2, <1>3, OnesGrow, CountIs
<1>5. \A n : n \in S <=> n \in Places /\ On(a, n)
  BY <1>2, <1>3 DEF OnesBelow
<1>6. ASSUME NEW h \in 0..(Width - 2), a = 2 ^ h PROVE bit_count(a) = 1
  <2>1. h \in Places
    BY WidthAssumption DEF Places
  <2>2. \A n \in Places : On(a, n) <=> n = h
    BY <1>6, <2>1, PowerOn
  <2>3. S = {h}
    BY <1>5, <2>1, <2>2
  <2> QED
    BY <1>4, <2>3, FS_Singleton
<1>7. ASSUME bit_count(a) = 1 PROVE \E n \in 0..(Width - 2) : a = 2 ^ n
  <2>1. PICK h \in 0..(Width - 2) : 2 ^ h <= a /\ a < 2 ^ (h + 1)
    BY Highest
  <2>2. h \in Places /\ h \in 0..Width
    BY WidthAssumption DEF Places
  <2>3. On(a, h)
    BY <1>1, <2>1, <2>2, HighestOn
  <2>4. PICK e : S = {e}
    BY <1>4, <1>7, FS_Singleton
  <2>5. \A n \in Places : On(a, n) <=> n = h
    BY <1>5, <2>2, <2>3, <2>4
  <2>6. PICK p \in Nat \ {0} : p = 2 ^ h
    BY <2>2, Weights
  <2>7. p \in Ints
    <3>1. PICK H \in Nat : H = HalfCount
      BY HalfRange
    <3>2. a < H
      BY <1>1, <3>1, HalfRange
    <3>3. p \in Int /\ -H <= p /\ p < H
      BY <1>1, <2>1, <2>6, <3>2
    <3> QED
      BY <3>1, <3>3, HalfRange
  <2>8. \A n \in Places : On(p, n) <=> n = h
    BY <2>2, <2>6, PowerOn
  <2>9. \A n \in Places : On(a, n) <=> On(p, n)
    BY <2>5, <2>8
  <2>10. a = p
    BY <2>7, <2>9, SameOnes
  <2> QED
    BY <2>6, <2>10
<1>8. is_power_of_2(a) = 1 <=> \E n \in 0..(Width - 2) : a = 2 ^ n
  BY PowerExact
<1> QED
  BY <1>6, <1>7, <1>8

(* is_power_of_2 is exact.                                                 *)
LEMMA PowerFollows == x \in Ints => PowersOfTwo
<1> SUFFICES ASSUME x \in Ints PROVE PowersOfTwo
  OBVIOUS
<1>1. is_power_of_2(x) = IF \E n \in 0..(Width - 2) : x = 2 ^ n THEN 1 ELSE 0
  BY PowerExact
<1>2. x > 0 => (is_power_of_2(x) = 1 <=> bit_count(x) = 1)
  BY CountOne
<1> QED
  BY <1>1, <1>2, Zenon DEF PowersOfTwo

(* The three variables are ints.                                           *)
BitsInv == x \in Ints /\ y \in Ints /\ z \in Ints

(* Every function returns an int.                                          *)
LEMMA BitsReturnInts ==
  ASSUME NEW a \in Ints, NEW b \in Ints, NEW c \in Ints
  PROVE  /\ bit_and(a, b) \in Ints /\ bit_negate(a) \in Ints /\ bit_abs(a) \in Ints
         /\ is_power_of_2(a) \in Ints /\ is_negative(a) \in Ints /\ add_ok(a, b) \in Ints
         /\ conditional(a, b, c) \in Ints /\ bit_count(a) \in Ints
<1>1. a \in Int /\ b \in Int /\ c \in Int
  BY IntsAreInt
<1>2. 0 \in Ints /\ 1 \in Ints
  BY SmallInts
<1>3. bit_and(a, b) \in Ints
  BY <1>1, AndOn DEF bit_and
<1>4. bit_negate(a) \in Ints /\ bit_abs(a) \in Ints
  BY NegateIs, AbsIs
<1>5. is_power_of_2(a) \in Ints
  BY <1>2, PowerExact
<1>6. is_negative(a) \in Ints
  BY <1>2, NegativeIs
<1>7. add_ok(a, b) \in Ints
  BY <1>2, AddOkIs
<1>8. conditional(a, b, c) \in Ints
  <2>1. PICK m \in Ints, w \in Ints : m = NonZeroMask(a) /\ w = not(m)
    <3>1. NonZeroMask(a) \in Ints
      BY NonZeroIs, SmallInts
    <3> QED
      BY <3>1, NotOn
  <2>2. PICK i \in Int, j \in Int, k \in Int : i = and(m, b) /\ j = and(m, c) /\ k = and(w, c)
    BY AndOn, IntsAreInt
  <2>3. conditional(a, b, c) = Wrap(i + j + k - j)
    BY <2>1, <2>2, Zenon DEF conditional
  <2>4. i + j + k - j \in Int
    OBVIOUS
  <2> QED
    BY <2>3, <2>4, WrapFacts
<1>9. bit_count(a) \in Ints
  <2>1. Width \in Nat /\ Width \in 0..Width
    BY WidthAssumption
  <2>2. bit_count(a) \in 0..Width
    BY <1>1, <2>1, CountIs, OnesGrow
  <2>3. bit_count(a) \in Int /\ -2 <= bit_count(a) /\ bit_count(a) <= Width
    BY <2>1, <2>2
  <2> QED
    BY <2>3, SmallInts
<1> QED
  BY <1>3, <1>4, <1>5, <1>6, <1>7, <1>8, <1>9

(* They stay ints.                                                         *)
LEMMA BitsInductive == BitsInv /\ [BitsNext]_bitsVars => BitsInv'
<1> SUFFICES ASSUME BitsInv, [BitsNext]_bitsVars PROVE BitsInv'
  OBVIOUS
<1> USE DEF BitsInv, Store
<1>1. CASE BitAnd
  BY <1>1, BitsReturnInts DEF BitAnd
<1>2. CASE Negate
  BY <1>2, BitsReturnInts DEF Negate
<1>3. CASE Abs
  BY <1>3, BitsReturnInts DEF Abs
<1>4. CASE PowerOf2
  BY <1>4, BitsReturnInts DEF PowerOf2
<1>5. CASE IsNegative
  BY <1>5, BitsReturnInts DEF IsNegative
<1>6. CASE AddOk
  BY <1>6, BitsReturnInts DEF AddOk
<1>7. CASE Conditional
  BY <1>7, BitsReturnInts DEF Conditional
<1>8. CASE BitCount
  BY <1>8, BitsReturnInts DEF BitCount
<1>9. CASE UNCHANGED bitsVars
  BY <1>9 DEF bitsVars
<1> QED
  BY <1>1, <1>2, <1>3, <1>4, <1>5, <1>6, <1>7, <1>8, <1>9 DEF BitsNext

(* The sign, the bits in common and their number.                          *)
LEMMA SignAndCountFollows ==
  ASSUME x \in Ints, y \in Ints
  PROVE  SignAndCount
<1>1. x \in Int /\ y \in Int /\ Width \in Nat
  BY WidthAssumption DEF Ints
<1>2. is_negative(x) = IF x < 0 THEN 1 ELSE 0
  BY NegativeIs
<1>3. bit_count(x) = Cardinality({n \in Places : Bit(x, n) = 1})
  <2>1. OnesBelow(x, Width) = {n \in Places : Bit(x, n) = 1}
    BY DEF OnesBelow, On, Places
  <2> QED
    BY <1>1, <2>1, CountIs
<1>4. /\ bit_and(x, y) \in Ints
      /\ \A n \in Places : Bit(bit_and(x, y), n) = 1 <=> Bit(x, n) = 1 /\ Bit(y, n) = 1
  <2>1. /\ and(x, y) \in Ints
        /\ \A n \in Places : On(and(x, y), n) <=> On(x, n) /\ On(y, n)
    BY <1>1, AndOn
  <2> QED
    BY <2>1 DEF bit_and, On
<1> QED
  BY <1>2, <1>3, <1>4 DEF SignAndCount

(* For every width of int the eight branch-free functions compute what the *)
(* comments in bits.c ask for on every argument: add_ok detects overflow   *)
(* from the wrapped sum, is_power_of_2 recognises the powers of two,       *)
(* conditional selects, bit_abs and bit_negate are exact but at the most   *)
(* negative integer, is_negative tells the sign, bit_count counts the bits *)
(* that are set and bit_and sets those that both arguments have.           *)
THEOREM AllBitsExact == BitsSpec => []BitsExact
<1>1. BitsInit => BitsInv
  BY DEF BitsInit, BitsInv
<1>2. BitsInv => BitsExact
  BY AddOkFollows, PowerFollows, ConditionalFollows, AbsFollows, SignAndCountFollows
     DEF BitsInv, BitsExact
<1> QED
  BY <1>1, <1>2, BitsInductive, PTL DEF BitsSpec
=============================================================================
