----------------------------- MODULE MCExampleRun -----------------------------
(* ExampleRun with an int16_t of 3 bits and an int of 4.  num runs through  *)
(* all of the int, so that its conversion to int16_t wraps; the strings are *)
(* shorter than, as long as and longer than an int16_t can ask for.         *)
EXTENDS ExampleRun

Strings == {<<>>, <<"a">>, <<"a", "b", "a">>, <<"a", "b", "b", "a", "a">>}
Levels  == {-1, 0, 4, 5}
Sums    == {<<3, 4>>, <<5, 6>>}
SomeInputs ==
  {[level |-> l, a |-> s[1], b |-> s[2], str |-> t, num |-> n,
    struct |-> [i |-> 9, b |-> FALSE, c |-> "b"]] :
     l \in Levels, s \in Sums, t \in Strings, n \in Int32}
=============================================================================
