----------------------------- MODULE MCJobReader -----------------------------
EXTENDS JobReader

\* Streams of up to two records of every kind, and a few longer ones.
Shapes == {<<"row", 0, 1>>, <<"row", 0, 3>>, <<"row", 0, 4>>, <<"list", 0, 2>>,
           <<"switch", 0, 2>>, <<"table", 1, 1>>, <<"rowIndex", 5, 1>>,
           <<"rangeIndex", 7, 1>>, <<"skip", 0, 2>>, <<"badControl", 0, 2>>,
           <<"malformed", 0, 2>>}
Short == UNION {[1..n -> Shapes] : n \in 0..2}
Long ==
  LET r == <<"row", 0, 1>>
      k == <<"switch", 0, 1>>
  IN  {<<k, r, r, k, k, r>>, <<r, k, <<"list", 0, 1>>, r, k, r>>,
       <<<<"rowIndex", 5, 1>>, r, k, r, r, <<"table", 1, 1>>, r>>,
       <<<<"table", 1, 1>>, <<"rangeIndex", 7, 1>>, <<"rowIndex", 0, 2>>, r, r, k, r>>}

Placed(s) ==
  LET end[i \in 0..Len(s)] == IF i = 0 THEN 0 ELSE end[i - 1] + s[i][3] + 1
  IN [i \in 1..Len(s) |-> [kind |-> s[i][1], n |-> s[i][2], at |-> end[i - 1], len |-> s[i][3],
                           torn |-> {}]]
MCInputs == {Placed(s) : s \in Short \cup Long}

\* The same in text: one cut of a record falls inside a number or a literal such
\* as %true.
MCTextInputs == {[i \in DOMAIN s |-> [s[i] EXCEPT !.torn = {s[i].len - 1} \ {0}]] : s \in MCInputs}
=============================================================================
