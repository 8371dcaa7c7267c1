--------------------------- MODULE MCRunAuthority ---------------------------
(* RunAuthority on a small instance.                                          *)
EXTENDS RunAuthority
=============================================================================
