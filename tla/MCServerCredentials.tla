-------------------------- MODULE MCServerCredentials --------------------------
(* One server of the bootstrap, rotated twice, and one that may be created;  *)
(* two starts beside the managed session.                                    *)
EXTENDS ServerCredentials, TLC
CONSTANTS s1, s2
SomeOrder == <<s1, s2>>
TwoRotations == (s1 :> <<1, 3>>) @@ (s2 :> <<>>)
Renamings == Permutations(Starts)
=============================================================================
