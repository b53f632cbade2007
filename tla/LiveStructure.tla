---------------------------- MODULE LiveStructure ---------------------------
(***************************************************************************)
(* What market structure promises a live consumer: bars arrive one at a    *)
(* time and each new bar publishes the labels and at most one break that   *)
(* follow from the bars seen so far and from what was published before.    *)
(* There is no state, no predecessor and no pending reference here: they   *)
(* are read off the swings of the prefix and the breaks published.         *)
(***************************************************************************)
EXTENDS StructureRules

VARIABLES
  seen,       \* the bars that have closed
  config,
  labels,     \* published so far
  breaks

liveVars == <<seen, config, labels, breaks>>

Init ==
  /\ seen = <<>>
  /\ config \in Configs
  /\ labels = {}
  /\ breaks = <<>>

\* The newest swing of direction d in a frame, before position i.
IsLatest(F, d, i, s) ==
  /\ s = None \/ (s < i /\ IsSwing(F, config, d, s))
  /\ \A k \in 1 .. (i - 1) : IsSwing(F, config, d, k) => k <= s

LatestBefore(F, d, i) == CHOOSE s \in 0 .. Len(F) : IsLatest(F, d, i, s)

\* The level a break may refer to: the newest swing, unless it was broken.
Target(F, d) ==
  LET s == LatestBefore(F, d, Len(F) + 1)
  IN  IF \E n \in DOMAIN breaks : breaks[n].direction = d /\ breaks[n].reference = s
      THEN None ELSE s

State == IF breaks = <<>> THEN "undefined" ELSE breaks[Len(breaks)].to

\* The swings the last bar of F confirmed, classified against the swing
\* before them.
NewLabels(F) ==
  UNION {UNION {Classify(F, config, d, i, LatestBefore(F, d, i)) :
                  i \in {i \in SwingsOf(F, config, d) : ConfirmIndex(config, i) = Len(F)}}
           : d \in Directions}

\* The last bar of F breaks the pending level of direction d; when both
\* levels give way at once only the high is reported.
Broken(F, d) ==
  /\ Breaks(F, config, d, Target(F, d), Len(F))
  /\ d = "bearish" => ~Breaks(F, config, "bullish", Target(F, "bullish"), Len(F))

Publish(F) ==
  /\ labels' = labels \cup NewLabels(F)
  /\ \/ \E d \in Directions :
          /\ Broken(F, d)
          /\ breaks' = Append(breaks, MakeBreak(F, config, d, Target(F, d), State, Len(F)))
     \/ /\ \A d \in Directions : ~Broken(F, d)
        /\ UNCHANGED breaks

Arrive(bar) ==
  /\ seen' = Append(seen, bar)
  /\ Publish(Append(seen, bar))
  /\ UNCHANGED config

Next == \E bar \in Bars : Arrive(bar)

Spec == Init /\ [][Next]_liveVars
=============================================================================
