------------------------------ MODULE MCStays ------------------------------
(* A year of six days, and stays of at most two nights.                    *)
EXTENDS Stays

Days == 1..YearLength

D(day, word, label, link, short) ==
    [day |-> day, word |-> word, label |-> label, link |-> link, short |-> short]
T(dates) == [dates |-> dates, later |-> FALSE]

Labels == {"none", "in", "out"}

OneDef == {T(<<D(d, w, l, FALSE, FALSE)>>) : d \in Days, w \in {"none", "next"}, l \in Labels}

\* Two dates, apart, as a range, or with a bare second day.
TwoDef(words) ==
    {T(<<D(a, w[1], k, s # "apart", FALSE), D(b, w[2], l, FALSE, s = "short")>>) :
        a \in Days, b \in Days, k \in Labels, l \in Labels, w \in words,
        s \in {"apart", "range", "short"}}

\* Three: a range with another date before it or behind it.
ThreeDef ==
    {T(<<D(a, "none", k, s = 1, FALSE), D(b, "none", l, s # 1, FALSE), D(3, "none", m, FALSE, FALSE)>>) :
        a \in {2, 5}, b \in {3, 6}, k \in Labels, l \in Labels, m \in Labels, s \in {1, 2}}

LaterDef == {[dates |-> <<D(5, "none", "in", FALSE, FALSE), D(6, "none", "out", FALSE, FALSE)>>,
              later |-> TRUE]}

TextDef == OneDef \cup TwoDef({<<"none", "none">>, <<"next", "none">>})
    \cup {t \in TwoDef({<<"this", "next">>, <<"none", "this">>, <<"next", "after">>}) : ~t.dates[2].short}
    \cup ThreeDef \cup LaterDef

FollowDef == OneDef

TodayDef == (YearLength + 1)..(2 * YearLength + 1)
=============================================================================
