------------------------------- MODULE Lists -------------------------------
(***************************************************************************)
(* Lists as the code uses them: iter().map and iter().filter over a Vec.    *)
(* Filter is SelectSeq in a form that proofs can unfold.                    *)
(***************************************************************************)
EXTENDS Naturals, Sequences, FiniteSets, SequencesExt

MapSeq(s, Op(_)) == [i \in DOMAIN s |-> Op(s[i])]

\* The elements of a list that pass a test, in their order.
Filter(s, Test(_)) == FlattenSeq([i \in DOMAIN s |-> IF Test(s[i]) THEN <<s[i]>> ELSE <<>>])

IsList(s) == s \in Seq(Range(s))
============================================================================
