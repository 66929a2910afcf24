------------------------------ MODULE MCLogRow ------------------------------
(* LogRow for TLC, with messages of at most four bytes. *)
EXTENDS LogRow

CONSTANTS web, db

P(text, structured, keyword) == [text |-> text, structured |-> structured, keyword |-> keyword]

\* A short line with space around it, long ones cut after one to three bytes of a character,
\* ones that HTML escapes make longer, one of nothing but escapes, a blank one, and one with a
\* carriage return inside.
MCPayloads == {
  P(<<"space", "x", "space", "x", "cr">>, {}, {}),
  P(<<"ansi", "x", "x", "x", "wide">>, {"warning", "error"}, {"alert"}),
  P(<<"x", "x", "emoji", "x">>, {}, {"debug", "warning"}),
  P(<<"x", "emoji", "x">>, {}, {}),
  P(<<"emoji", "emoji", "emoji", "emoji", "x">>, {}, {}),
  P(<<"x", "x", "x", "x", "x">>, {"debug"}, {}),
  P(<<"x", "amp", "x">>, {}, {"error"}),
  P(<<"emoji", "amp">>, {"info"}, {}),
  P(<<"ansi", "space", "ansi">>, {}, {}),
  P(<<"space", "cr">>, {}, {}),
  P(<<"x", "cr", "x">>, {}, {}) }
=============================================================================
