----------------------------- MODULE MCUrlTest -----------------------------
(* UrlTest for TLC: two proxies, delays of a 3-bit clock. *)
EXTENDS UrlTest
=============================================================================
