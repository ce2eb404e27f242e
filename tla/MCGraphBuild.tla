---------------------------- MODULE MCGraphBuild ----------------------------
(* Four messages on three days: the last two share a day.  The archive packs *)
(* into <1,2> and <3>; from day 2 on it packs into <2,3>.                     *)
EXTENDS GraphBuild

MCMessages == 1..4
MCDayOf == <<1, 2, 3, 3>>

Archive == <<0, 0, 0, 0>>
Recent == [m \in {2, 4} |-> 0]
Revised == <<0, 0, 0, 1>>
Shorter == <<0, 0, 0>>

MCExports == {Nothing, Archive, Shorter}
MCFileExports == {Nothing, Revised, Recent}
MCTwoExports == {Nothing, Archive}

All == [since |-> 0, limit |-> 0]
Since(day) == [since |-> day, limit |-> 0]
Newest(n) == [since |-> 0, limit |-> n]

WholeDays == {All, Since(2), Since(3)}
Capped == {All, Newest(1)}
OnlyAll == {All}
=============================================================================
