----------------------------- MODULE MCAuthDomain -----------------------------
(* TLC instances of AuthDomain.                                               *)
EXTENDS AuthDomain, TLC
Accidents == {{"crash", "unpair"}, {"crash", "import"}, {"foreign"}}
Imports == {{"import"}}
Unpairs == {{"unpair"}}
AuthSymmetry == Permutations(Bridges) \cup Permutations(Grants)
===============================================================================
