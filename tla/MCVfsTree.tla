------------------------------ MODULE MCVfsTree ------------------------------
(* Small instances of VfsTree: no entry, nested and missing directories, a  *)
(* name that fills its field, an entry of another type, one name twice, a   *)
(* path through a file, a damaged header and a name the console will hide.  *)
(* The self tests create names as long as a node holds, and longer ones.    *)
EXTENDS VfsTree

Dirent(name) == [name |-> name, type |-> "dir", data |-> <<>>]
Reg(name, data) == [name |-> name, type |-> "reg", data |-> data]

A == <<"a">>
AB == <<"a", "/", "b">>
ABC == <<"a", "/", "b", "/", "c">>

SomeInitrds == {
  <<>>,
  <<Dirent(A \o <<"/">>), Reg(AB, <<1, 2, 3>>), Reg(AB \o <<"c", "d">>, <<>>),
    Reg(<<"c">>, <<1, 2, 3, 4, 5, 6, 7, 8, 9>>), Reg(<<"a", "/", "c">>, <<5>>)>>,
  <<Reg(ABC, <<1>>), [name |-> <<"l">>, type |-> "other", data |-> <<4, 4, 4>>], Dirent(AB)>>,
  <<Reg(AB, <<1, 2, 3>>), Reg(<<"a", "/", "/", "b">>, <<6>>)>>,
  <<Reg(<<"a", "/", "b", "b", "b", "b">>, <<1>>), Reg(<<"d", "/", "c", "x">>, <<2, 2>>)>>,
  <<Reg(A, <<1>>), Reg(AB, <<2>>)>>,
  <<Dirent(AB), [name |-> A, type |-> "bad", data |-> <<>>]>>}

Console == <<"/", "d", "/", "c">>
Longest == <<"l", "l", "l", "l", "l", "l">>
Tests == {<<"/", "a", "/", "x">>, <<"/", "a", "/", "b", "/", "x">>, <<"a">>,
          <<"/", "d", "/", "c", "b">>, <<"/", "a", "/">> \o Longest,
          <<"/", "a", "/">> \o Longest \o <<"l">>, <<"/", "a", "/", "b", "/">> \o Longest}
DirA == <<"/", "a">>
SomeBuffers == {<<5, 99>>, <<6, 99>>, <<15, 99>>, <<30, 99>>, <<30, 8>>}
SomeHeaps == {<<n, TRUE>> : n \in 0..8 \cup {10}} \cup {<<10, FALSE>>}
=============================================================================
