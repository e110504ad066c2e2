-------------------------- MODULE MCJsonAnswer --------------------------
(* Pieces of answers, with what commonly goes wrong in them. *)
EXTENDS JsonAnswer

\* Brackets, a comma, two members, one of them with a bare key, a key alone, a string
\* that holds what could be the end of an object, one that is not closed, and a fence.
Written == {
  <<"{">>, <<"}">>, <<"[">>, <<"]">>, <<",">>, <<Fence>>,
  <<"\"", "a", "\"", ":", "1">>, <<"b", ":", "1">>, <<"\"", "a", "\"", ":">>,
  <<"\"", ",", "}", "1", "\"">>, <<"\"", "a">>}

Defaults == [stop |-> "obeyed", repair |-> TRUE]
AllSettings == {Defaults, [Defaults EXCEPT !.stop = "ignored"], [Defaults EXCEPT !.stop = "off"],
                [Defaults EXCEPT !.repair = FALSE]}
=============================================================================
