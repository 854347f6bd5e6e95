---------------------------- MODULE MCWhiteList ----------------------------
(* A small instance of WhiteList for TLC.                                  *)
EXTENDS WhiteList

CONSTANTS s1, s2

\* Files that grow, shrink and change by one sensor, one with a row twice and
\* a comment, one with a bad row and one with a blank line before the version.
SmallFiles ==
  {<<"version", s1, s2>>, <<"version", s2, "comment", s2>>, <<"version", s1>>,
   <<"version", s1, "bad", s2>>, <<"comment", "blank", "version", s1>>}

=============================================================================
