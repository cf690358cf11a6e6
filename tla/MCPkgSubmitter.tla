--------------------------- MODULE MCPkgSubmitter ---------------------------
(***************************************************************************)
(* PkgSubmitter for TLC: two submitters, and a server that has no version  *)
(* of the package, one, two in order, two out of order, or one that has no *)
(* third number at the end of its list.                                    *)
(***************************************************************************)
EXTENDS PkgSubmitter

CONSTANTS s1, s2

MCSubmitters == {s1, s2}

MCListings == {<<>>, <<1>>, <<1, 2>>, <<2, 1>>, <<Malformed>>, <<1, Malformed>>}

=============================================================================
