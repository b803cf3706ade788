------------------------------ MODULE MCStores ------------------------------
(***************************************************************************)
(* The components that keep something durable and promise what becomes of  *)
(* it, on small instances.  They share no state: a behaviour runs one of   *)
(* them, under its own fairness, and the others stay as they started.      *)
(***************************************************************************)
EXTENDS ResultCommit, MemoryStore, Promotion, PromptActivation

VARIABLE part      \* the component that runs

stores == <<commit, memory, promotionVars, prompts, part>>

StoresInit ==
  /\ part \in {"commit", "memory", "promotion", "prompt"}
  /\ CommitInit /\ MemoryInit /\ (part # "memory" => equipped = {})
  /\ PromotionInit /\ (part # "promotion" => \A c \in Candidates : lifecycle[c] = "none")
  /\ PromptInit /\ (part # "prompt" => shared)

StoresNext ==
  \/ /\ part = "commit" /\ CommitNext
     /\ UNCHANGED <<memory, promotionVars, prompts, part>>
  \/ /\ part = "memory" /\ MemoryNext
     /\ UNCHANGED <<commit, promotionVars, prompts, part>>
  \/ /\ part = "promotion" /\ PromotionNext
     /\ UNCHANGED <<commit, memory, prompts, part>>
  \/ /\ part = "prompt" /\ PromptNext
     /\ UNCHANGED <<commit, memory, promotionVars, part>>

(* CommitFair, MemoryFair, PromotionFair and PromptFair, each where its    *)
(* component runs.                                                         *)
StoresSpec ==
  /\ StoresInit /\ [][StoresNext]_stores
  /\ WF_commit(part = "commit" /\ Delivery)
  /\ \A o \in Owners : WF_commit(part = "commit" /\ Execute(o))
  /\ WF_commit(part = "commit" /\ RetryPending)
  /\ \A w \in Workers : WF_memory(part = "memory" /\ Pass(w))
  /\ \A w \in Promoters : WF_promotionVars(part = "promotion" /\ Promoter(w))
  /\ \A t \in Managers : WF_prompts(part = "prompt" /\ Recovery(t))

(* What is kept is sound: an accepted result can be recovered and memory   *)
(* holds records of one proof; a record refers to stored records, one      *)
(* revision of a rule is active and its artifacts are there; the audit     *)
(* rows are one history, and a row marked delivered was heard.             *)
StoresSound ==
  /\ part = "commit" => CommitTypeOK /\ Recoverable /\ OneProof
  /\ part = "memory" => MemoryTypeOK /\ Supported /\ OneActive /\ ArtifactKept
  /\ part = "promotion" => PromotionTypeOK
  /\ part = "prompt" => PromptTypeOK /\ OneHistory /\ NeverUnheard

(* What waits is served: an accepted result is committed unless its job    *)
(* failed for good, an outcome extracted, a purged artifact deleted where  *)
(* there is a store to delete it from, an eligible candidate promoted and  *)
(* a switch of prompts heard, through crashes and failing calls.           *)
StoresServe ==
  /\ EventuallyCommitted /\ EventuallyExtracted /\ OutboxServed
  /\ EveryCandidateServed /\ EverySwitchHeard

-----------------------------------------------------------------------------
(* Two revisions of one rule, resting on one of two events.                *)
TwoRules == <<"k1", "k2">>
OneEvidence == [k \in {"k1", "k2"} |-> {"e1"}]
OneArtifact == [e \in {"e1", "e2"} |-> "a"]

(* The deployed worker can delete nothing; another has store and adapters. *)
EveryDeployment == {{}, {"artifact", "derivative"}}

(* The second manager has not been given the second release.               *)
OneBehind == [t \in Managers |-> IF t = "m1" THEN Releases ELSE {"r1"}]
=============================================================================
