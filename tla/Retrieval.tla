----------------------------- MODULE Retrieval ------------------------------
(***************************************************************************)
(* How evidence is ranked before a confidence margin is read off it: the   *)
(* fusion of the dense and the sparse leg (ragcore.retrieval.hybrid) and   *)
(* the gated rerank pass (ragcore.retrieval.rerank).                       *)
(*                                                                         *)
(* A chunk is its source reference and its score; its text is not looked   *)
(* at.  References are numbers, which orders them as strings are ordered.  *)
(* Scores are integers; a fused score is a fraction, kept as its numerator *)
(* over the denominator the two legs give every chunk of one fusion.       *)
(***************************************************************************)
EXTENDS Integers, Sequences, FiniteSets

DENSE_WEIGHT == 6      \* tenths
SPARSE_WEIGHT == 4
OVER_FETCH == 2

(* Best first; ties by reference, so the order is total. *)
Before(a, b) ==
    a.score > b.score \/ (a.score = b.score /\ a.reference < b.reference)

(* The elements of S in the order of Before (their references differ). *)
Ranked(S) ==
    [i \in 1..Cardinality(S) |->
        CHOOSE a \in S : Cardinality({b \in S : Before(b, a)}) = i - 1]

FirstOf(seq, limit) == SubSeq(seq, 1, IF Len(seq) < limit THEN Len(seq) ELSE limit)

-----------------------------------------------------------------------------
(* One leg. *)

References(leg) == {leg[i].reference : i \in DOMAIN leg}

LegBest(leg) == CHOOSE x \in {leg[i].score : i \in DOMAIN leg} :
                    \A i \in DOMAIN leg : x >= leg[i].score

(* A leg that found nothing worth ranking contributes zeros. *)
RanksNothing(leg) == leg = <<>> \/ LegBest(leg) <= 0

(* What the leg's scores are divided by. *)
Scale(leg) == IF RanksNothing(leg) THEN 1 ELSE LegBest(leg)

(* _normalised: a dictionary keyed by reference, so the last chunk of a       *)
(* reference is the one that counts; times Scale(leg).                        *)
Normalised(leg) ==
    [r \in References(leg) |->
        IF RanksNothing(leg) THEN 0
        ELSE leg[CHOOSE i \in DOMAIN leg :
                    /\ leg[i].reference = r
                    /\ \A j \in DOMAIN leg : leg[j].reference = r => j <= i].score]

Contribution(leg, r) == IF r \in References(leg) THEN Normalised(leg)[r] ELSE 0

FusedScore(dense, sparse, r) ==
    DENSE_WEIGHT * Contribution(dense, r) * Scale(sparse)
        + SPARSE_WEIGHT * Contribution(sparse, r) * Scale(dense)

Fused(dense, sparse, r) ==
    [reference |-> r, score |-> FusedScore(dense, sparse, r),
     from_dense |-> r \in References(dense), from_sparse |-> r \in References(sparse)]

FuseIntersection(dense, sparse, limit) ==
    FirstOf(Ranked({Fused(dense, sparse, r) : r \in References(dense) \cap References(sparse)}),
            limit)

(* fuse *)
Fuse(dense, sparse, limit) ==
    FirstOf(Ranked({Fused(dense, sparse, r) : r \in References(dense) \cup References(sparse)}),
            limit)

(* HybridRetrieval.search: each leg's index returns its own best few. *)
Fetched(limit) == IF limit * OVER_FETCH > 1 THEN limit * OVER_FETCH ELSE 1

Search(dense, sparse, limit) ==
    Fuse(FirstOf(dense, Fetched(limit)), FirstOf(sparse, Fetched(limit)), limit)

-----------------------------------------------------------------------------
(* The rerank pass, over candidates whose references differ (a fusion's do). *)

RERANK_TOP_K == 5
MINIMUM_RERANK_SCORE == 25   \* hundredths

(* _eligible: the plausible part of the first few, and all the others, each   *)
(* in the order of all.                                                       *)
FirstFew(chunks) == FirstOf(Ranked(chunks), RERANK_TOP_K)

Eligible(chunks) ==
    LET first == FirstFew(chunks)
    IN  {c \in chunks : (\E k \in DOMAIN first : first[k] = c) /\ c.score >= MINIMUM_RERANK_SCORE}

HeadOf(chunks) == Ranked(Eligible(chunks))

TailOf(chunks) == Ranked(chunks \ Eligible(chunks))

AsReranked(chunk, score, was) ==
    [reference |-> chunk.reference, score |-> score, was_reranked |-> was]

(* rerank; scores is what the reranker answers with (not asked when the head  *)
(* is empty).  An answer of another length is a RerankContractError.          *)
Rerank(chunks, scores) ==
    LET head == HeadOf(chunks)
        tail == TailOf(chunks)
        kept == [i \in DOMAIN tail |-> AsReranked(tail[i], tail[i].score, FALSE)]
    IN  IF head = <<>> THEN [error |-> FALSE, chunks |-> kept, considered |-> 0]
        ELSE IF Len(scores) # Len(head)
             THEN [error |-> TRUE, chunks |-> <<>>, considered |-> Len(head)]
        ELSE [error      |-> FALSE,
              chunks     |-> Ranked({AsReranked(head[i], scores[i], TRUE) : i \in DOMAIN head})
                                 \o kept,
              considered |-> Len(head)]

=============================================================================
