------------------------------ MODULE Unicorns ------------------------------
(***************************************************************************)
(* Unicorns (ict/unicorn.py): a breaker block that overlaps a fair value    *)
(* gap of its own direction.  G and X are the gaps and the breakers found   *)
(* in a frame whose bars open at the times T, u the detector's              *)
(* configuration; how the two age is the subject of module Composites.      *)
(***************************************************************************)
EXTENDS Zones

UnicornConfigType ==
  [maxBars : Nat \ {0}, minOverlap : Nat, contained : BOOLEAN, gaps : GapConfigType,
   partial : 0 .. Whole, full : 1 .. Whole]

Inside(x, z) == z.top <= x.top /\ z.bottom >= x.bottom

\* The conditions of UnicornDetector.detect on a breaker x and a gap z.
Joins(T, u, x, z) ==
  /\ x.direction = z.direction
  /\ Overlaps(x, z, u.minOverlap)
  /\ u.contained => Inside(x, z)
  /\ BarsBetween(T, x.bar, z.third) <= u.maxBars

\* A mutant: the unicorn is confirmed by the first of its two sources.
UnicornEarly(x, z) ==
  [breaker |-> x, gap |-> z, direction |-> x.direction,
   top |-> Overlap(x, z).top, bottom |-> Overlap(x, z).bottom, bar |-> Min({x.bar, z.third})]

Unicorn(x, z) ==
  [breaker |-> x, gap |-> z, direction |-> x.direction,
   top |-> Overlap(x, z).top, bottom |-> Overlap(x, z).bottom, bar |-> Max({x.bar, z.third})]

UnicornsOf(T, u, X, G) ==
  {Unicorn(p[1], p[2]) : p \in {p \in X \X G : Joins(T, u, p[1], p[2])}}
=============================================================================
