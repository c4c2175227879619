---------------------------- MODULE MCVerifiers ----------------------------
(***************************************************************************)
(* Small instances of Verifiers: the old licence l1, the licence l2, a     *)
(* copy of l1's bundle whose certificate was altered, and one anchored on  *)
(* somebody else's topic.                                                  *)
(***************************************************************************)
EXTENDS Verifiers

CONSTANTS l1, l2, f1, f2

Altered == [OldCert(l1) EXCEPT !.of = l2]

MCContents == [f \in Files |->
    IF f = f1 THEN [cert |-> Altered, commitment |-> OldCert(l1),
                    terms |-> "same", topic |-> Ours, seq |-> 1]
              ELSE [cert |-> Altered, commitment |-> Altered,
                    terms |-> "absent", topic |-> Foreign, seq |-> 1]]

MCSettings == {<<l1, None>>, <<l2, None>>, <<f1, None>>, <<f2, Ours>>}

=============================================================================
