--------------------------- MODULE MCFileTransfer ---------------------------
(* Small disks for FileTransfer: files of no, one and two blocks of two     *)
(* units, whole or not.                                                     *)
EXTENDS FileTransfer

File(s, state) == [size |-> s, stat |-> s, state |-> state]
Plain      == {File(s, "ok") : s \in {0, 2, 3}}
Changed    == {[size |-> 1, stat |-> 2, state |-> "ok"], [size |-> 4, stat |-> 2, state |-> "ok"]}
Broken     == {File(2, "missing"), File(3, "breaks")}
Unreadable == {File(0, "unreadable"), File(2, "unreadable")}
Any        == Plain \cup Changed \cup Broken \cup Unreadable
(* Recipients with and without a secret of their own, in any order, and    *)
(* one that is left out before others.                                     *)
Lists   == {<<"cert", "password", "skey">>, <<"token", "pkey", "password">>,
            <<"lost", "pkey", "password">>, <<"skey", "lost", "skey">>, <<"lost">>}
NoLists == {}
=============================================================================
