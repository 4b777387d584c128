------------------------------- MODULE MCServer -------------------------------
(* Two servers, under one prefix or two.  The requests are bounded by      *)
(* Conn.                                                                   *)
EXTENDS Server, TLC

CONSTANTS s1, s2, c1, c2

MCFlags ==
  {[root |-> "directory", host |-> "localhost"], [root |-> "", host |-> "loopback"]}
=============================================================================
