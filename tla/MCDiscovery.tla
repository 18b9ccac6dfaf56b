----------------------------- MODULE MCDiscovery -----------------------------
(***************************************************************************)
(* Discovery on small instances: two queries of up to two pages that show  *)
(* some repositories twice, one of them twice on the same page; the first  *)
(* shows more than the limit admits.                                       *)
(***************************************************************************)
EXTENDS Discovery

CONSTANTS a, b, c, d

MCCorpora ==
  { << << <<a, b>>, <<c>> >>, << <<a, d, c>>, <<b>> >> >>,
    << << <<a, a>> >>, << <<a>>, <<b>> >> >> }
=============================================================================
