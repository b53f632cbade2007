----------------------------- MODULE MCLiquidity ----------------------------
(***************************************************************************)
(* Small instances of Liquidity for TLC.  A bar lasts two units of time, a *)
(* local day four, a week three days of which two are trading days.  The   *)
(* clocks of one zone skip a unit while the frame lasts, those of another  *)
(* show one twice, and sessions start and end within bars, at the skipped  *)
(* time, at the repeated one, and across midnight.                         *)
(***************************************************************************)
EXTENDS Liquidity

Bar(h, l, c) == [open |-> l, high |-> h, low |-> l, close |-> c]

MCBars == {Bar(2, 1, 1), Bar(3, 1, 3), Bar(4, 2, 3), Bar(3, 0, 0)}

\* At 5 the clocks go from 4 to 5; at 6 from 7 back to 6.
Spring == [before |-> -1, after |-> 0, change |-> 5]
Autumn == [before |-> 1, after |-> 0, change |-> 6]

MCDefinitions ==
  {[name |-> "london", zone |-> Spring, start |-> 0, end |-> 3],
   [name |-> "asian", zone |-> Autumn, start |-> 2, end |-> 1]}

Default ==
  [left |-> 1, right |-> 1, tie |-> "first", equalTol |-> 1, distance |-> 1,
   sweepTol |-> 0, approachTol |-> NoTracking, swingLevels |-> TRUE,
   zone |-> Spring, boundary |-> 3]

\* The default rules; and approach tracking, wider pairs, a sweep tolerance and
\* a trading day in the other zone.
MCConfigs ==
  {Default,
   [Default EXCEPT !.tie = "all", !.equalTol = 0, !.distance = 2, !.sweepTol = 1,
                   !.approachTol = 1, !.zone = Autumn, !.boundary = 0]}

\* On the dates the frames reach, no session ends on another date than it should.
ASSUME EndsAssumption == \A d \in Definitions : \A day \in -2 .. 6 : EndsOnDate(d, day)
=============================================================================
