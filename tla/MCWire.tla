------------------------------- MODULE MCWire -------------------------------
(***************************************************************************)
(* An instance of Wire for TLC: a group of two bytes, a hash and a cipher  *)
(* of one byte and of eleven, short names, words and addresses.  The tests *)
(* of the codecs and of AES are evaluated with it.                         *)
(***************************************************************************)
EXTENDS Wire, CodecTests, AesVectors

ToyHash(b) == <<1 + FoldLeft(LAMBDA acc, x : (acc * 31 + x + 7) % 199, 5, b)>>
ToyCipher(key, block) == [i \in 1..BlockLen |-> ToyHash(key \o block \o <<i>>)[1]]

(* san has an account, and so has bob; eve has none. *)
San == <<115, 97>>
Bob == <<98>>
Eve == <<101>>
TheAccounts == {[name |-> San, password |-> <<3, 1, 4>>, salt |-> <<21, 6>>],
                [name |-> Bob, password |-> <<2>>, salt |-> <<7>>]}
TheUsers == {[name |-> San, password |-> <<3, 1, 4>>], [name |-> San, password |-> <<3, 1>>],
             [name |-> Eve, password |-> <<2>>]}

(* A comment, an empty line, the lines of create_user; a second line for san does not count. *)
Line(name) == LET x == CHOOSE y \in TheAccounts : y.name = name
              IN  UserLine(x.name, x.password, x.salt)
TheFile == <<<<Comment \o <<9>>, <<1>>>>, Line(San), <<>>, Line(Bob), UserLine(San, <<5>>, <<1>>)>>

(* 2^7 has one byte, 2^23 % 46337 has two. *)
ShortAndLong == {<<7>>, <<23>>}
Long == {<<23>>}
OneB == {<<19>>}

(* A command of more than a block, and version. *)
VersionWord == <<118>>
HostnameWord == <<104, 110>>
LongWord == [i \in 1..13 |-> 90 + i]
TheCommands == {VersionWord, LongWord}
Extra == <<10, 49>>
Unknown == <<85>>
TheParameter(word) ==
    CASE word = VersionWord -> <<83>>
      [] word = HostnameWord -> [i \in 1..12 |-> 60 + i]
      [] OTHER -> <<>>

ThePieces == {7, 64}
TwoAddresses == <<<<0, 17>>, <<0, 18>>>>
ServerDigits == <<15, 15, 2>>
SomeJunk == {[hop |-> 1025, dx |-> TRUE, appId |-> <<9>>]}
=============================================================================
