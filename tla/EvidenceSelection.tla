------------------------- MODULE EvidenceSelection -------------------------
(***************************************************************************)
(* Which of the candidates of a search become its evidence                 *)
(* (_select_candidates and _retain_protected of production_service.py).    *)
(* Candidates are a sequence with descending scores, in percent; what is   *)
(* kept of them is a set of positions.                                     *)
(***************************************************************************)
EXTENDS Integers, FiniteSets, Sequences

CONSTANTS
    MinEvidence, MaxEvidence,  \* retrieval_min_evidence, retrieval_max_evidence
    MinScore,                  \* retrieval_rerank_min_score
    CliffGap, CliffRatio       \* retrieval_score_cliff_min_gap, retrieval_score_cliff_ratio

ASSUME SelectionAssumption ==
    /\ MinEvidence \in Nat \ {0} /\ MaxEvidence \in Nat \ {0}
    /\ {MinScore, CliffGap, CliffRatio} \subseteq 0 .. 100

Least(S) == CHOOSE i \in S : \A j \in S : i <= j
Greatest(S) == CHOOSE i \in S : \A j \in S : j <= i
Smaller(a, b) == IF a < b THEN a ELSE b

\* The first n positions of a set.
First(S, n) == {i \in S : Cardinality({j \in S : j < i}) < n}

Protected(c, S) == {i \in S : c[i].protected}

\* Mutant of RetainProtected: nothing makes room for protected evidence.
RetainBest(c, kept, eligible) == First(kept \cup Protected(c, eligible), MaxEvidence)

\* Protected evidence joins what has been kept, and the last of the rest make room for it.
RetainProtected(c, kept, eligible) ==
    LET protected == Protected(c, eligible)
    IN  protected \cup First(kept \ protected, MaxEvidence - Cardinality(protected))

\* A score falls off, by much and by a large part, from the one kept before it.
Cliff(c, S, i) ==
    LET previous == c[Greatest({j \in S : j < i})].score
        gap == previous - c[i].score
    IN  gap >= CliffGap /\ (IF previous > 0 THEN gap * 100 >= CliffRatio * previous ELSE CliffRatio = 0)

Cliffs(c, S) ==
    {i \in S \ First(S, Smaller(MinEvidence, Cardinality(S))) : Cliff(c, S, i)}

Eligible(c, reranked) ==
    {i \in DOMAIN c : reranked => c[i].score >= MinScore \/ c[i].protected}

\* What is kept of the candidates c of a search for topK of them.
Selected(c, topK, reranked) ==
    LET eligible == Eligible(c, reranked)
        taken == RetainProtected(c, First(eligible, Smaller(topK, MaxEvidence)), eligible)
        cliffs == Cliffs(c, taken)
    IN  IF cliffs = {} THEN taken
        ELSE RetainProtected(c, {i \in taken : i < Least(cliffs)}, eligible)

=============================================================================
