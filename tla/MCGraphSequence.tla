-------------------------- MODULE MCGraphSequence --------------------------
(* Small Wikipedias: two or three articles, of which "F" has the name of   *)
(* "A" before its parentheses, redirects that may loop, a disambiguation   *)
(* page, and mentions from infoboxes, sentences and lists.                 *)
EXTENDS GraphSequence

MCTitle == {"A", "F", "R", "S"}
MCNameOf == [t \in MCTitle |-> IF t \in {"F", "S"} THEN "A" ELSE t]
MCLower == [A |-> "a", a |-> "a", R |-> "r", r |-> "r", S |-> "s", s |-> "s", F |-> "f", f |-> "f"]

Spouse(t, d, r) == Infobox(t, "SPOUSE", d, r, FALSE)
PagesA ==
  {<<Spouse(x, 20, 60), Words, Newline>> : x \in {"F", "R", "S"}}
    \cup {<<Link(x), Stop, Newline>> : x \in {"F", "R", "A"}}
    \cup {<<Infobox("A", "SPOUSE", 20, 60, TRUE), Words, NewItem, Link("S"), Stop, Newline>>,
          <<Words, Newline, Link("F"), LongStop, Link("S"), Stop>>}
PagesF ==
  {<<Link("A"), Stop, Link("R"), Newline>>, <<Spouse("R", 60, 20), Link("S"), Stop, Newline>>,
   <<Spouse("A", 70, 10), Link("A"), LongStop, Newline>>, <<Newline, Link("A"), Stop>>}
PagesR ==
  {<<Redirect(x)>> : x \in {"A", "F", "R", "S"}} \cup {<<Spouse("A", 30, 30), Redirect("F"), Stop>>}
PagesS ==
  {<<Redirect(x)>> : x \in {"R", "A"}}
    \cup {<<Disambig, Match("F", 10), Match("A", 90), Newline, Match("A", 90), Newline, SeeAlso,
            Match("A", 10), Newline>>,
          <<Link("A"), Words, Stop, Newline>>}
MCDumps ==
  {[A |-> a, F |-> f, R |-> r, S |-> s] : a \in PagesA, f \in PagesF, r \in PagesR, s \in PagesS}
    \cup {[A |-> a, F |-> f, R |-> r] : a \in PagesA, f \in PagesF, r \in PagesR}
MCDistances == {<<>>, [p \in {<<"A", "F">>, <<"F", "S">>} |-> 40]}
=============================================================================
