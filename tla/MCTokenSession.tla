--------------------------- MODULE MCTokenSession ---------------------------
(* Two slots with keys of the same name, RSA in one, elliptic curve in the *)
(* other.                                                                  *)
EXTENDS TokenSession

TokenObjects ==
  {[slot |-> s, class |-> c, name |-> "auth", ec |-> s = "s2"] :
     s \in {"s1", "s2"}, c \in {"private", "public", "certificate", "secret"}}
=============================================================================
