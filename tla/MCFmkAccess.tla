---------------------------- MODULE MCFmkAccess ----------------------------
(* Two slots with a private, a public and a secret key and a certificate   *)
(* each, all of the same name, RSA in one, elliptic curve in the other,    *)
(* and a key that only one slot has.                                       *)
EXTENDS FmkAccess

Object(slot, class, name, ec) == [slot |-> slot, class |-> class, name |-> name, ec |-> ec]
TokenObjects ==
  {Object(s, c, "auth", s = "s2") :
     s \in {"s1", "s2"}, c \in {"private", "public", "certificate", "secret"}}
    \cup {Object("s1", "public", "other", TRUE)}
=============================================================================
