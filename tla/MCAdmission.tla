----------------------------- MODULE MCAdmission -----------------------------
(***************************************************************************)
(* The instance of Admission that TLC checks, and the backfilling rule     *)
(* against the loop of Admission.shadow over the sorted releases.          *)
(***************************************************************************)
EXTENDS Admission, SequencesExt, TLC

Symmetry == Permutations(Workers)

(* Admission.shadow as the code computes it: walk the releases in order of *)
(* (until, slots) and stop at the first that makes up for the shortfall.   *)
SortedReleases(X) ==
  SetToSortSeq({w \in Workers \ X : reserved[w].busy},
    LAMBDA v, w : \/ reserved[v].until < reserved[w].until
                  \/ /\ reserved[v].until = reserved[w].until
                     /\ reserved[v].slots <= reserved[w].slots)

ShadowLoop(h, X) ==
  LET releases == SortedReleases(X)
      step(acc, w) ==
        IF acc.at # Never THEN acc
        ELSE LET available == acc.available + Held(w)
             IN  [available |-> available,
                  at |-> IF available >= Shortfall(h) THEN reserved[w].until
                                                      ELSE Never]
  IN  IF Free >= Shortfall(h) THEN 0
      ELSE FoldLeft(step, [available |-> Free, at |-> Never], releases).at

(* The rule of Admission.fits, "finish <= shadow", is what BeforeHead      *)
(* says, for every worker behind the head and every projected end: the     *)
(* loop over sorted releases misses no earlier start, ties included.       *)
ShadowIsEarliestStart ==
  line # <<>> =>
    \A w \in Workers \ {LineHead} :
      LET shadow == ShadowLoop(LineHead, {LineHead, w})
      IN  \A finish \in 1 .. Never : (finish <= shadow) = BeforeHead(w, finish)
=============================================================================
