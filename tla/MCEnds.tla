------------------------------- MODULE MCEnds -------------------------------
(***************************************************************************)
(* What has to come to an end: a funding hedge, and a run of the Harness   *)
(* kernel.  They share no state: a behaviour runs one of them under its    *)
(* own fairness, and the other stays as it started.                        *)
(***************************************************************************)
EXTENDS HedgeCycle

CONSTANTS w1, k1, NoCandidate, Malformed

VARIABLES
  events, kernelPc, call, at, retried, decision, backend, stopped, ledger, kernelFaults,
  part      \* the part that runs

kernel == <<events, kernelPc, call, at, retried, decision, backend, stopped, ledger,
            kernelFaults>>

Kernel == INSTANCE HarnessKernel WITH
  pc <- kernelPc, faults <- kernelFaults,
  Kernels <- {k1}, Prior <- <<>>, Candidates <- {}, Usages <- {"synthetic", "bound"},
  StrictBackend <- TRUE, MaxSettlements <- 2, MaxCheckpoints <- 1, MaxRejects <- 0,
  MaxFaults <- 1

EndsInit == part \in {"hedge", "kernel"} /\ Init /\ Kernel!Init

EndsNext ==
  \/ part = "hedge" /\ Next /\ UNCHANGED <<kernel, part>>
  \/ part = "kernel" /\ Kernel!Next /\ UNCHANGED <<vars, part>>

(* FairSpec of HedgeCycle and Spec of HarnessKernel, each where it runs.   *)
EndsSpec ==
  /\ EndsInit /\ [][EndsNext]_<<vars, kernel, part>>
  /\ WF_vars(part = "hedge" /\ (Round(w1) \/ RoundFails(w1)))
  /\ WF_vars(part = "hedge" /\ \E o \in sent : Exchange(o))
  /\ WF_vars(part = "hedge" /\ Tick)
  /\ \A t \in Timeout : WF_vars(part = "hedge" /\ Elapse(t))
  /\ WF_kernel(part = "kernel" /\ Kernel!Step(k1))

(* RunSettles of HarnessKernel: a run that keeps being advanced without a  *)
(* new candidate reaches a terminal state, also after a crash or a failing *)
(* issuer left a decision authorized and not applied.                      *)
RunReachesEnd == part = "kernel" => Kernel!RunSettles
=============================================================================
