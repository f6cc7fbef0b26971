----------------------------- MODULE MCAdmission -----------------------------
(***************************************************************************)
(* Instances of Admission for TLC.  Two advertisers: any of them may be    *)
(* configured from the start, so one can be our own gear and one a         *)
(* stranger.                                                               *)
(***************************************************************************)
EXTENDS Admission, TLC

CONSTANTS m1, m2

OneMac == {m1}
TwoMacs == {m1, m2}
Swap == Permutations(TwoMacs)

Record(class, external) == [class |-> class, external |-> external]

\* A readable frame; one whose initialisation raises half way through; one of
\* another format, whose manufacturer an external service may have registered.
Readables == {Record("fits", FALSE)}
Failures == {Record("fits", FALSE), Record("halfway", FALSE)}
Interleaved == {Record("fits", FALSE), Record("alien", TRUE)}
=============================================================================
