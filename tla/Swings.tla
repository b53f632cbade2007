------------------------------- MODULE Swings ------------------------------
(***************************************************************************)
(* Fractal swing detection (ict/swings.py).  A bar is a pivot when its     *)
(* extreme beats the bars of a window around it; the pivot is known only   *)
(* when the last bar of the window has closed.                             *)
(***************************************************************************)
EXTENDS Candles, FiniteSets

\* No swing: positions start at 1.
None == 0

TiePolicies == {"first", "last", "strict", "all"}

\* One side of the window under a tie policy: a strict side admits no equal
\* neighbour.
Beats(d, strict, x, y) == Beyond(d, x, y) \/ (~strict /\ x = y)

WindowBefore(c, i) == (i - c.left) .. (i - 1)
WindowAfter(c, i)  == (i + 1) .. (i + c.right)

\* The mask of _pivot_mask: the window is complete and the pivot beats both
\* sides of it.
IsPivot(F, c, d, i) ==
  /\ i - c.left >= 1
  /\ i + c.right <= Len(F)
  /\ \A k \in WindowBefore(c, i) :
       Beats(d, c.tie \in {"first", "strict"}, Extreme(F[i], d), Extreme(F[k], d))
  /\ \A k \in WindowAfter(c, i) :
       Beats(d, c.tie \in {"last", "strict"}, Extreme(F[i], d), Extreme(F[k], d))

\* strength >= min_swing_strength_points: the pivot stands that far clear of
\* its strongest neighbour.
Significant(F, c, d, i) ==
  \A k \in WindowBefore(c, i) \cup WindowAfter(c, i) :
    Distance(d, Extreme(F[i], d), Extreme(F[k], d)) >= c.minStrength

\* A swing of the frame that passes the significance filter.
IsSwing(F, c, d, i) == IsPivot(F, c, d, i) /\ Significant(F, c, d, i)

\* The bar whose close makes the swing knowable.
ConfirmIndex(c, i) == i + c.right

\* All the swings of one direction the detector finds in a frame.
SwingsOf(F, c, d) == {i \in 1 .. Len(F) : IsSwing(F, c, d, i)}
=============================================================================
