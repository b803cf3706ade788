------------------------------- MODULE Promotion -------------------------------
(***************************************************************************)
(* The promotion of proposed knowledge.  The maintenance loop of every     *)
(* process now and then lists the proposed records, rotates the list to    *)
(* start behind a shared cursor, takes a bounded batch of it, evaluates    *)
(* the batch one record at a time and moves the cursor after each.  The    *)
(* cursor's generation fences a batch: once another worker has moved the   *)
(* cursor, this one stops.  Identifiers are the numbers they sort by.      *)
(*                                                                         *)
(* A generation only grows, so whether a batch's generation is still the   *)
(* stored one is the membership of its worker in `leading'.                *)
(***************************************************************************)
EXTENDS Naturals, Sequences, FiniteSets

CONSTANTS
    Promoters,      \* processes with a maintenance loop
    Candidates,     \* record identifiers, natural numbers
    Eligible,       \* those the gates let through
    BatchSize,      \* max_candidates_per_run
    MaxInterrupts   \* batches that a fault or a cancellation ends

ASSUME PromotionAssumption ==
    /\ IsFiniteSet(Candidates) /\ Candidates \subseteq Nat \ {0}
    /\ BatchSize \in Nat \ {0} /\ MaxInterrupts \in Nat

VARIABLES
    lifecycle,  \* of each candidate: "none", "proposed", "active" or "retired"
    boundary,   \* the record the cursor is on, 0: none yet
    batch,      \* what a worker still has to evaluate, <<>> between batches
    checked,    \* workers that evaluated the head of their batch
    leading,    \* workers whose generation is the stored one
    interrupts

promotionVars == <<lifecycle, boundary, batch, checked, leading, interrupts>>

Proposed == {r \in Candidates : lifecycle[r] = "proposed"}

\* The keyset order: behind the boundary first, then from the start.  The
\* boundary may name a record that is gone.
Precedes(r, s) == IF r > boundary <=> s > boundary THEN r < s ELSE r > boundary
Rotated(rs) == {q \in [1 .. Cardinality(rs) -> rs] : \A i, j \in DOMAIN q : i < j => Precedes(q[i], q[j])}

BatchEnds(w) ==
    /\ batch' = [batch EXCEPT ![w] = <<>>]
    /\ checked' = checked \ {w}
    /\ leading' = leading \ {w}

\* run_memory_promotion, and evaluate as far as the selection.
Begin(w) ==
    /\ batch[w] = <<>> /\ Proposed # {}
    /\ \E rs \in Rotated(Proposed) :
           batch' = [batch EXCEPT ![w] = SubSeq(rs, 1, IF Len(rs) < BatchSize THEN Len(rs)
                                                                              ELSE BatchSize)]
    /\ leading' = leading \cup {w}
    /\ UNCHANGED <<lifecycle, boundary, checked, interrupts>>

\* Mutant: a candidate that is turned down ends the batch.
Judged_EndsBatch(w) ==
    IF lifecycle[batch[w][1]] = "proposed" /\ batch[w][1] \notin Eligible
    THEN BatchEnds(w) /\ UNCHANGED lifecycle
    ELSE /\ lifecycle' = [lifecycle EXCEPT ![batch[w][1]] =
                              IF @ = "proposed" THEN "active" ELSE @]
         /\ checked' = checked \cup {w}
         /\ UNCHANGED <<batch, leading>>

\* _ineligible_reason and promote_candidate on the head of the batch.  Either
\* verdict is observed and counts as an evaluation; one on a record that left
\* the proposed state since the listing is a refusal of the repository.
Judged(w) ==
    /\ lifecycle' = [lifecycle EXCEPT ![batch[w][1]] =
                         IF @ = "proposed" /\ batch[w][1] \in Eligible THEN "active" ELSE @]
    /\ checked' = checked \cup {w}
    /\ UNCHANGED <<batch, leading>>

Evaluate(w) ==
    /\ batch[w] # <<>> /\ w \notin checked
    /\ Judged(w)
    /\ UNCHANGED <<boundary, interrupts>>

\* checkpoint: the cursor moves to the evaluated record if the generation the
\* worker last saw is the stored one.  Otherwise the rest of the batch is left.
Checkpoint(w) ==
    /\ w \in checked
    /\ \/ /\ w \in leading
          /\ boundary' = batch[w][1]
          /\ leading' = IF Len(batch[w]) = 1 THEN {} ELSE {w}
          /\ batch' = [batch EXCEPT ![w] = Tail(@)]
          /\ checked' = checked \ {w}
       \/ w \notin leading /\ BatchEnds(w) /\ UNCHANGED boundary
    /\ UNCHANGED <<lifecycle, interrupts>>

\* The audit observer raises, the store fails, the run is cancelled or the
\* process dies: the batch ends where it is.
Interrupted(w) ==
    /\ batch[w] # <<>> /\ interrupts < MaxInterrupts
    /\ interrupts' = interrupts + 1
    /\ BatchEnds(w)
    /\ UNCHANGED <<lifecycle, boundary>>

\* The rest of the memory pipeline: a candidate is proposed, or forgotten.
Propose(r) ==
    /\ lifecycle[r] = "none"
    /\ lifecycle' = [lifecycle EXCEPT ![r] = "proposed"]
    /\ UNCHANGED <<boundary, batch, checked, leading, interrupts>>

Retire(r) ==
    /\ lifecycle[r] \in {"proposed", "active"}
    /\ lifecycle' = [lifecycle EXCEPT ![r] = "retired"]
    /\ UNCHANGED <<boundary, batch, checked, leading, interrupts>>

PromotionInit ==
    /\ lifecycle \in [Candidates -> {"none", "proposed"}]
    /\ boundary = 0
    /\ batch = [w \in Promoters |-> <<>>]
    /\ checked = {} /\ leading = {}
    /\ interrupts = 0

Promoter(w) == Begin(w) \/ Evaluate(w) \/ Checkpoint(w)

PromotionNext ==
    \/ \E w \in Promoters : Promoter(w) \/ Interrupted(w)
    \/ \E r \in Candidates : Propose(r) \/ Retire(r)

\* The maintenance loop of a process never stops for good.
PromotionFair == \A w \in Promoters : WF_promotionVars(Promoter(w))

PromotionSpec == PromotionInit /\ [][PromotionNext]_promotionVars /\ PromotionFair

PromotionTypeOK ==
    /\ lifecycle \in [Candidates -> {"none", "proposed", "active", "retired"}]
    /\ boundary \in Candidates \cup {0}
    /\ batch \in [Promoters -> UNION {[1 .. n -> Candidates] : n \in 0 .. BatchSize}]
    /\ checked \subseteq {w \in Promoters : batch[w] # <<>>}
    /\ leading \subseteq {w \in Promoters : batch[w] # <<>>}
    /\ interrupts \in 0 .. MaxInterrupts

\* No candidate the gates let through waits for ever, whatever stands before it
\* in the order: a prefix of candidates that are turned down again and again, a
\* second worker that keeps taking the cursor away, batches that break off, and
\* records that go while the cursor is on them.
EveryCandidateServed ==
    \A r \in Eligible : lifecycle[r] = "proposed" ~> lifecycle[r] # "proposed"
=============================================================================
