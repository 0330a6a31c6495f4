----------------------------- MODULE RouteViewMC -----------------------------
(***************************************************************************)
(* Small inputs of every computation: shapes that turn back on themselves; *)
(* rows that stand, move and fall back; recordings that begin and end      *)
(* inside and outside the window, or lack samples within it.               *)
(***************************************************************************)
EXTENDS RouteView

OnALine == [x \in Stops \X Places |-> IF x[1] >= x[2] THEN x[1] - x[2] ELSE x[2] - x[1]]

Walks == {s \in [0..Length -> Places] : \A i \in 1..Length : s[i] - s[i - 1] \in -1..1}

Sample(dt, move, speed, full) == [dt |-> dt, move |-> move, speed |-> speed, full |-> full]

Forwards == {Sample(1, 1, 1, FALSE), Sample(1, 0, 0, TRUE), Sample(2, 0, 0, FALSE)}

AllSamples == Forwards \cup {Sample(1, -1, -1, TRUE)}

SomeTracks ==
    {[t \in span |-> d + v * (t + 5)] :
        span \in {-5..1, -2..0, -5..-1, -5..-4, 0..1, {-5, -4, 0, 1}}, d \in {0, 2, 3}, v \in 0..1}
=============================================================================
