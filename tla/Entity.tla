------------------------------- MODULE Entity -------------------------------
(***************************************************************************)
(* entity_t, 00-c-for-programmers/exercises/ex3-structs-and-pointers/      *)
(* structs.c: hit points, life and position of an entity.  The name and    *)
(* the status line are left out: nothing depends on them.                  *)
(*                                                                         *)
(* Client contract: a positive max_hp, amounts that are not negative.      *)
(***************************************************************************)
EXTENDS CInt

CONSTANTS
  MaxHps,  \* max_hp values passed to entity_init
  Amounts, \* amounts of damage and of healing
  Coords,  \* coordinates passed to entity_init
  Deltas   \* distances moved along an axis

ASSUME HpAssumption == (MaxHps \cup Amounts) \subseteq 0..IntMax /\ 0 \notin MaxHps
ASSUME CoordsAssumption == (Coords \cup Deltas) \subseteq Ints

VARIABLES
  hp, max_hp, alive,
  px, py,    \* the members x and y
  overflowed \* history: a heal since entity_init has exceeded IntMax

life == <<hp, max_hp, alive, overflowed>>

entityVars == <<life, px, py>>

(* entity_init                                                             *)
Fresh(m, cx, cy) ==
  /\ hp' = m /\ max_hp' = m /\ alive' = TRUE
  /\ px' = cx /\ py' = cy
  /\ overflowed' = FALSE

EntityInit ==
  /\ max_hp \in MaxHps /\ hp = max_hp /\ alive = TRUE
  /\ px \in Coords /\ py \in Coords
  /\ overflowed = FALSE

entity_init(m) == \E cx, cy \in Coords : Fresh(m, cx, cy)

\* Mutant of Dies: an entity hit down to exactly 0 stays alive.
DiesBelow(h) == h < 0

(* The test of entity_take_damage.                                         *)
Dies(h) == h <= 0

entity_take_damage(amount) ==
  LET h == Wrap(hp - amount)
  IN
  /\ hp' = IF Dies(h) THEN 0 ELSE h
  /\ alive' = (alive /\ ~Dies(h))
  /\ UNCHANGED <<max_hp, px, py, overflowed>>

\* Mutant of CanHeal: the dead are healed too.
CanHealAll == TRUE

CanHeal == alive

(* The sum is formed before it is compared with max_hp.                    *)
entity_heal(amount) ==
  LET h == Wrap(hp + amount)
  IN
  /\ CanHeal
  /\ hp' = IF h > max_hp THEN max_hp ELSE h
  /\ overflowed' = (overflowed \/ hp + amount > IntMax)
  /\ UNCHANGED <<max_hp, alive, px, py>>

entity_move(dx, dy) ==
  /\ px' = Wrap(px + dx)
  /\ py' = Wrap(py + dy)
  /\ UNCHANGED life

AxisDistance(a, b) == abs(Wrap(a - b))

entity_distance(ax, ay, bx, by) == Wrap(AxisDistance(ax, bx) + AxisDistance(ay, by))

EntityNext ==
  \/ \E m \in MaxHps : entity_init(m)
  \/ \E amount \in Amounts : entity_take_damage(amount) \/ entity_heal(amount)
  \/ \E dx, dy \in Deltas : entity_move(dx, dy)

EntitySpec == EntityInit /\ [][EntityNext]_entityVars

----------------------------------------------------------------------------
(***************************************************************************)
(* An entity is alive exactly while it has hit points, and it never has    *)
(* fewer than 0 or more than max_hp: "HP should not go below 0. Set        *)
(* alive=0 if HP reaches 0.", "HP should not exceed max_hp." (structs.h).  *)
(* The one thing that breaks it is a heal that exceeds the range of int    *)
(* before the clamp: nothing else does, in any order of calls.             *)
(***************************************************************************)
HpInRange == ~overflowed => 0 <= hp /\ hp <= max_hp /\ (alive <=> hp > 0)

(***************************************************************************)
(* Death is final: through any sequence of heals, hits and moves a dead    *)
(* entity stays dead at 0 hit points, until it is initialised again ("Only *)
(* works if alive.", structs.h).                                           *)
(***************************************************************************)
DeathIsFinal ==
  [][~alive => \/ ~alive' /\ hp' = 0
               \/ \E m \in MaxHps : entity_init(m)]_entityVars

(***************************************************************************)
(* entity_distance is the Manhattan distance between wherever the entity   *)
(* has moved and wherever another was put, whenever that is an int, and it *)
(* is the same in both directions even when it is not.                     *)
(***************************************************************************)
DistanceExact ==
  \A qx, qy \in Coords :
    LET d == (IF px < qx THEN qx - px ELSE px - qx) + (IF py < qy THEN qy - py ELSE py - qy)
    IN  /\ d \in Ints => entity_distance(px, py, qx, qy) = d
        /\ entity_distance(px, py, qx, qy) = entity_distance(qx, qy, px, py)

(***************************************************************************)
(* The arithmetic on ints is right wherever no sum leaves their range.     *)
(***************************************************************************)
EntityExact == HpInRange /\ DistanceExact
=============================================================================
