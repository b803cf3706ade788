---------------------------- MODULE StoresProofs ----------------------------
(***************************************************************************)
(* What the durable stores keep, for every number of executions, managers, *)
(* workers, promoters and records: an accepted result can be recovered and *)
(* memory holds records of one proof; a stored record rests on stored      *)
(* records, and its artifact is there; the audit rows of the prompts are   *)
(* one history.                                                            *)
(*                                                                         *)
(* A behaviour runs one component and leaves the others as they started,   *)
(* so each inductive invariant is kept by its own component's steps.       *)
(***************************************************************************)
EXTENDS MCStores, FiniteSetTheorems, WellFoundedInduction, TLAPS

-----------------------------------------------------------------------------
(* Result commit.  An execution carries the staged result or none, except  *)
(* between producing one and staging it; the proof it writes records under *)
(* is the journal's, which never changes; and it has written the outcome   *)
(* before it marks the result committed.                                   *)

AppParts == {"at", "seen", "done", "result", "proof", "armed"}
AppShape(a) == a = [f \in AppParts |-> a[f]]
Writing == {"event", "decision", "outcome", "propose", "marker", "mark"}
Written == {"propose", "marker", "mark"}
Results == Outcomes \cup {"none"}

\* What holds of an execution, with the journal j and the records m.
AppOK(a, j, m) ==
  /\ AppShape(a) /\ a.at \in Stages /\ a.result \in Results
  /\ a.at # "stage" => a.result \in {"none", j.staged}
  /\ a.at \in Writing => a.proof = j.proof /\ j.proof > 0
  /\ a.at \in Written => m.outcome = j.proof

AppsOK ==
  /\ app = [o \in Owners |-> app[o]]
  /\ \A o \in Owners : AppOK(app[o], journal, records)
ArmedOK ==
  /\ holder \in Owners \cup {"none"}
  /\ \A o \in Owners : app[o].armed => holder # o
KernelOK ==
  /\ kernel = [f \in {"state", "accepted", "checkpoint"} |-> kernel[f]]
  /\ kernel.state \in {"absent", "running", "succeeded", "degraded", "cancelled"}
  /\ kernel.accepted \in Results
  /\ kernel.state = "succeeded" => journal.staged = kernel.accepted /\ journal.staged # "none"
JournalOK ==
  /\ journal = [f \in {"staged", "proof", "committed"} |-> journal[f]]
  /\ journal.staged \in Results /\ journal.proof \in Nat /\ stamp \in Nat \ {0}
  /\ journal.committed => journal.proof > 0 /\ records.outcome = journal.proof
RecordsOK ==
  /\ records = [f \in {"event", "decision", "outcome", "candidate"} |-> records[f]]
  /\ \A kind \in {"event", "decision", "outcome"} : records[kind] \in {0, journal.proof}

CommitInv == AppsOK /\ ArmedOK /\ KernelOK /\ JournalOK /\ RecordsOK

\* Setting a field of an execution.
AppAt(a, v) == [a EXCEPT !.at = v]
AppSeen(a, v) == [a EXCEPT !.seen = v]
AppDone(a, v) == [a EXCEPT !.done = v]
AppResult(a, v) == [a EXCEPT !.result = v]
AppProof(a, v) == [a EXCEPT !.proof = v]
AppArmed(a, v) == [a EXCEPT !.armed = v]
AppSame(a, b, fs) ==
  /\ AppShape(b)
  /\ "at" \notin fs => b.at = a.at
  /\ "result" \notin fs => b.result = a.result
  /\ "proof" \notin fs => b.proof = a.proof
  /\ "armed" \notin fs => b.armed = a.armed

LEMMA SetApp ==
  ASSUME NEW a, AppShape(a), NEW v
  PROVE  /\ AppSame(a, AppAt(a, v), {"at"}) /\ AppAt(a, v).at = v
         /\ AppSame(a, AppSeen(a, v), {})
         /\ AppSame(a, AppDone(a, v), {})
         /\ AppSame(a, AppResult(a, v), {"result"}) /\ AppResult(a, v).result = v
         /\ AppSame(a, AppProof(a, v), {"proof"}) /\ AppProof(a, v).proof = v
         /\ AppSame(a, AppArmed(a, v), {"armed"}) /\ AppArmed(a, v).armed = v
<1>1. AppSame(a, AppAt(a, v), {"at"}) /\ AppAt(a, v).at = v
  BY DEF AppAt, AppSame, AppShape, AppParts
<1>2. AppSame(a, AppSeen(a, v), {})
  BY DEF AppSeen, AppSame, AppShape, AppParts
<1>3. AppSame(a, AppDone(a, v), {})
  BY DEF AppDone, AppSame, AppShape, AppParts
<1>4. AppSame(a, AppResult(a, v), {"result"}) /\ AppResult(a, v).result = v
  BY DEF AppResult, AppSame, AppShape, AppParts
<1>5. AppSame(a, AppProof(a, v), {"proof"}) /\ AppProof(a, v).proof = v
  BY DEF AppProof, AppSame, AppShape, AppParts
<1>6. AppSame(a, AppArmed(a, v), {"armed"}) /\ AppArmed(a, v).armed = v
  BY DEF AppArmed, AppSame, AppShape, AppParts
<1> QED
  BY <1>1, <1>2, <1>3, <1>4, <1>5, <1>6

\* An execution that has not started.
LEMMA NoAppIs == AppShape(NoApp) /\ NoApp.at = "idle" /\ NoApp.result = "none" /\ NoApp.armed = FALSE
<1>1. AppShape(NoApp)
  BY DEF NoApp, AppShape, AppParts
<1> QED
  BY <1>1 DEF NoApp

LEMMA InitCommit == CommitInit => CommitInv
<1> SUFFICES ASSUME CommitInit PROVE CommitInv
  OBVIOUS
<1>1. kernel = [state |-> "absent", accepted |-> "none", checkpoint |-> FALSE]
  BY DEF CommitInit
<1>2. journal = [staged |-> "none", proof |-> 0, committed |-> FALSE]
  BY DEF CommitInit
<1>3. records = [event |-> 0, decision |-> 0, outcome |-> 0, candidate |-> "none"]
  BY DEF CommitInit
<1>4. app = [o \in Owners |-> NoApp] /\ holder = "none" /\ stamp = 1
  BY DEF CommitInit
<1>5. KernelOK
  BY <1>1, <1>2 DEF KernelOK, Results
<1>6. JournalOK
  BY <1>2, <1>4 DEF JournalOK, Results
<1>7. RecordsOK
  BY <1>3, <1>2 DEF RecordsOK
<1>8. AppOK(NoApp, journal, records)
  BY <1>2, NoAppIs DEF AppOK, Stages, Results, Writing, Written
<1>9. AppsOK /\ ArmedOK
  <2>1. \A o \in Owners : app[o] = NoApp
    BY <1>4
  <2>2. app = [o \in Owners |-> app[o]]
    BY <1>4
  <2> QED
    BY <1>4, <1>8, <2>1, <2>2, NoAppIs DEF AppsOK, ArmedOK
<1> QED
  BY <1>5, <1>6, <1>7, <1>9 DEF CommitInv

\* One execution changes, the others and the holder do not.
LEMMA OneApp ==
  ASSUME CommitInv, NEW o \in Owners, NEW a, app' = [app EXCEPT ![o] = a], a.armed = FALSE, UNCHANGED holder,
         AppOK(a, journal', records'),
         \A p \in Owners \ {o} : AppOK(app[p], journal', records')
  PROVE  AppsOK' /\ ArmedOK'
<1>1. app = [p \in Owners |-> app[p]]
  BY DEF CommitInv, AppsOK
<1>2. app'[o] = a /\ \A p \in Owners \ {o} : app'[p] = app[p]
  BY <1>1
<1>3. app' = [p \in Owners |-> app'[p]]
  BY <1>1
<1> QED
  BY <1>2, <1>3 DEF AppsOK, ArmedOK, CommitInv

\* A step of one execution that leaves journal, records and kernel alone.
LEMMA QuietApp ==
  ASSUME CommitInv, NEW o \in Owners, NEW a, app' = [app EXCEPT ![o] = a], a.armed = FALSE,
         AppOK(a, journal, records),
         UNCHANGED <<kernel, journal, records, holder, stamp>>
  PROVE  CommitInv'
<1>1. AppsOK' /\ ArmedOK'
  BY OneApp DEF CommitInv, AppsOK
<1>2. KernelOK' /\ JournalOK' /\ RecordsOK'
  BY DEF CommitInv, KernelOK, JournalOK, RecordsOK
<1> QED
  BY <1>1, <1>2 DEF CommitInv

LEMMA Stopped == ASSUME CommitInv, NEW j, NEW m PROVE AppOK(NoApp, j, m) /\ NoApp.armed = FALSE
  BY NoAppIs DEF AppOK, Stages, Results, Writing, Written

\* Where an execution goes next, and that it has used up its last look.
LEMMA GoesTo ==
  ASSUME NEW a, NEW j, NEW m, AppOK(a, j, m), NEW x \in Stages,
         x # "stage" => a.result \in {"none", j.staged},
         x \in Writing => a.proof = j.proof /\ j.proof > 0,
         x \in Written => m.outcome = j.proof
  PROVE  AppOK(AppAt(a, x), j, m)
<1>1. AppShape(a) /\ a.result \in Results
  BY DEF AppOK
<1>2. /\ AppShape(AppAt(a, x)) /\ AppAt(a, x).at = x
      /\ AppAt(a, x).result = a.result /\ AppAt(a, x).proof = a.proof
  BY <1>1, SetApp DEF AppSame
<1> QED
  BY <1>1, <1>2 DEF AppOK

LEMMA Disarmed ==
  ASSUME NEW a, NEW j, NEW m, AppOK(a, j, m), NEW b
  PROVE  AppOK(AppArmed(a, b), j, m) /\ AppArmed(a, b).armed = b
<1>1. AppShape(a)
  BY DEF AppOK
<1>2. /\ AppShape(AppArmed(a, b)) /\ AppArmed(a, b).at = a.at /\ AppArmed(a, b).armed = b
      /\ AppArmed(a, b).result = a.result /\ AppArmed(a, b).proof = a.proof
  BY <1>1, SetApp DEF AppSame
<1> QED
  BY <1>2 DEF AppOK

\* A step of an execution alone.
LEMMA QuietStep ==
  ASSUME CommitInv, NEW o \in Owners, NEW s, Step(o, s), AppOK(s, journal, records),
         UNCHANGED <<kernel, journal, records, holder, stamp>>
  PROVE  CommitInv'
<1>1. app' = [app EXCEPT ![o] = AppArmed(s, FALSE)]
  BY DEF Step, AppArmed
<1>2. AppOK(AppArmed(s, FALSE), journal, records) /\ AppArmed(s, FALSE).armed = FALSE
  BY Disarmed
<1> QED
  BY <1>1, <1>2, QuietApp

LEMMA QuietStop ==
  ASSUME CommitInv, NEW o \in Owners, Stop(o), UNCHANGED <<kernel, journal, records, holder, stamp>>
  PROVE  CommitInv'
  BY Stopped, QuietApp DEF Stop

\* The queue delivers; an execution that loses its lease may look once more.
LEMMA StepDeliver == ASSUME CommitInv, NEW o \in Owners, Deliver(o) PROVE CommitInv'
<1> DEFINE new == AppAt(NoApp, "load")
<1>1. holder' = o /\ UNCHANGED <<kernel, journal, records, stamp>>
  BY DEF Deliver
<1>2. AppOK(new, journal, records) /\ new.armed = FALSE
  <2>1. AppOK(NoApp, journal, records) /\ NoApp.armed = FALSE /\ NoApp.result = "none"
    BY Stopped, NoAppIs
  <2>2. AppOK(new, journal, records)
    BY <2>1, GoesTo DEF Stages, Writing, Written
  <2> QED
    BY <2>1, <2>2, NoAppIs, SetApp DEF AppSame
<1> HIDE DEF new
<1>3. app = [p \in Owners |-> app[p]] /\ \A p \in Owners : AppOK(app[p], journal, records)
  BY DEF CommitInv, AppsOK
<1>4. /\ app' = [p \in Owners |-> app'[p]] /\ app'[o] = new
      /\ \A p \in Owners : AppOK(app'[p], journal, records)
  <2>1. CASE app' = [app EXCEPT ![o] = new]
    BY <1>2, <1>3, <2>1
  <2>2. CASE \E b \in BOOLEAN : app' = [app EXCEPT ![o] = new, ![holder].armed = b]
    <3>1. PICK b \in BOOLEAN : app' = [app EXCEPT ![o] = new, ![holder].armed = b]
      BY <2>2
    <3>2. PICK g : g = [app EXCEPT ![o] = new]
      OBVIOUS
    <3>3. app' = [g EXCEPT ![holder] = AppArmed(g[holder], b)]
      BY <3>1, <3>2 DEF AppArmed
    <3>4. g = [p \in Owners |-> g[p]] /\ g[o] = new /\ \A p \in Owners : AppOK(g[p], journal, records)
      BY <1>2, <1>3, <3>2
    <3>5. holder # o \/ app' = [app EXCEPT ![o] = new]
      BY DEF Deliver, new, AppAt
    <3>6. \A p \in Owners : AppOK(AppArmed(g[p], b), journal, records)
      BY <3>4, Disarmed
    <3> QED
      BY <2>1, <3>3, <3>4, <3>5, <3>6
  <2> QED
    BY <2>1, <2>2 DEF Deliver, new, AppAt
<1>5. AppsOK' /\ ArmedOK'
  BY <1>1, <1>2, <1>4 DEF AppsOK, ArmedOK
<1>6. KernelOK' /\ JournalOK' /\ RecordsOK'
  BY <1>1 DEF CommitInv, KernelOK, JournalOK, RecordsOK
<1> QED
  BY <1>5, <1>6 DEF CommitInv

\* The attempts are used up; an execution that goes on may look once more.
LEMMA StepExhausted == ASSUME CommitInv, Exhausted PROVE CommitInv'
<1>1. holder' = "none" /\ UNCHANGED <<kernel, journal, records, stamp>>
  BY DEF Exhausted
<1>2. app = [p \in Owners |-> app[p]] /\ \A p \in Owners : AppOK(app[p], journal, records)
  BY DEF CommitInv, AppsOK
<1>3. app' = [p \in Owners |-> app'[p]] /\ \A p \in Owners : AppOK(app'[p], journal, records)
  <2>1. CASE UNCHANGED app
    BY <1>2, <2>1
  <2>2. CASE \E b \in BOOLEAN : app' = [app EXCEPT ![holder].armed = b]
    <3>1. PICK b \in BOOLEAN : app' = [app EXCEPT ![holder] = AppArmed(app[holder], b)]
      BY <2>2 DEF AppArmed
    <3>2. \A p \in Owners : AppOK(AppArmed(app[p], b), journal, records)
      BY <1>2, Disarmed
    <3> QED
      BY <1>2, <3>1, <3>2
  <2> QED
    BY <2>1, <2>2 DEF Exhausted
<1>4. AppsOK' /\ ArmedOK'
  <2>1. holder' \notin Owners
    BY <1>1, OwnersAssumption
  <2> QED
    BY <1>1, <1>3, <2>1 DEF AppsOK, ArmedOK
<1>5. KernelOK' /\ JournalOK' /\ RecordsOK'
  BY <1>1 DEF CommitInv, KernelOK, JournalOK, RecordsOK
<1> QED
  BY <1>4, <1>5 DEF CommitInv

LEMMA StepLoad == ASSUME CommitInv, NEW o \in Owners, LoadResult(o) PROVE CommitInv'
<1> DEFINE a == AppAt(app[o], "create")
           b == AppSeen(a, journal.staged)
           c == AppResult(b, journal.staged)
           d == AppDone(c, journal.committed)
<1>1. Step(o, d) /\ UNCHANGED <<kernel, journal, records, holder, stamp>>
  BY DEF LoadResult, AppAt, AppSeen, AppResult, AppDone
<1>2. AppShape(app[o])
  BY DEF CommitInv, AppsOK, AppOK
<1>3. AppShape(a) /\ a.at = "create"
  BY <1>2, SetApp DEF AppSame
<1> HIDE DEF a
<1>4. AppShape(b) /\ b.at = "create"
  BY <1>3, SetApp DEF AppSame
<1> HIDE DEF b
<1>5. AppShape(c) /\ c.at = "create" /\ c.result = journal.staged
  BY <1>4, SetApp DEF AppSame
<1> HIDE DEF c
<1>6. AppShape(d) /\ d.at = "create" /\ d.result = journal.staged
  BY <1>5, SetApp DEF AppSame
<1> HIDE DEF d
<1>7. AppOK(d, journal, records)
  BY <1>6 DEF AppOK, Stages, Writing, Written, CommitInv, JournalOK
<1> QED
  BY <1>1, <1>7, QuietStep

\* An execution moves the kernel too.
LEMMA KernelStep ==
  ASSUME CommitInv, NEW o \in Owners, NEW s, Step(o, s), AppOK(s, journal, records), KernelOK',
         UNCHANGED <<journal, records, holder, stamp>>
  PROVE  CommitInv'
<1>1. app' = [app EXCEPT ![o] = AppArmed(s, FALSE)]
  BY DEF Step, AppArmed
<1>2. AppOK(AppArmed(s, FALSE), journal, records) /\ AppArmed(s, FALSE).armed = FALSE
  BY Disarmed
<1>3. AppsOK' /\ ArmedOK'
  BY <1>1, <1>2, OneApp DEF CommitInv, AppsOK
<1>4. JournalOK' /\ RecordsOK'
  BY DEF CommitInv, JournalOK, RecordsOK
<1> QED
  BY <1>3, <1>4 DEF CommitInv

\* A run that has not succeeded goes to another state than success.
LEMMA StateSet ==
  ASSUME CommitInv, NEW v \in {"running", "degraded", "cancelled"}, kernel.state # "succeeded",
         kernel' = [kernel EXCEPT !.state = v], UNCHANGED journal
  PROVE  KernelOK'
<1>1. /\ kernel' = [f \in {"state", "accepted", "checkpoint"} |-> kernel'[f]]
      /\ kernel'.state = v /\ kernel'.accepted = kernel.accepted
  <2>1. kernel = [f \in {"state", "accepted", "checkpoint"} |-> kernel[f]]
    BY DEF CommitInv, KernelOK
  <2> QED
    BY <2>1
<1> QED
  BY <1>1 DEF CommitInv, KernelOK

LEMMA StateKept == ASSUME CommitInv, UNCHANGED <<kernel, journal>> PROVE KernelOK'
  BY DEF CommitInv, KernelOK

LEMMA AppNow == ASSUME CommitInv, NEW o \in Owners PROVE AppOK(app[o], journal, records)
  BY DEF CommitInv, AppsOK

LEMMA StepCreate == ASSUME CommitInv, NEW o \in Owners, Create(o) PROVE CommitInv'
<1>1. PICK x \in {"run", "settled"} : Step(o, AppAt(app[o], x))
  BY DEF Create, AppAt
<1>2. app[o].at = "create" /\ UNCHANGED <<journal, records, holder, stamp>>
  BY DEF Create
<1>3. AppOK(AppAt(app[o], x), journal, records)
  <2>1. AppOK(app[o], journal, records) /\ app[o].result \in {"none", journal.staged}
    BY <1>2, AppNow DEF AppOK
  <2> QED
    BY <2>1, GoesTo DEF Stages, Writing, Written
<1>4. KernelOK'
  <2>1. CASE kernel.state = "absent"
    BY <1>2, <2>1, StateSet DEF Create
  <2>2. CASE kernel.state # "absent"
    BY <1>2, <2>2, StateKept DEF Create
  <2> QED
    BY <2>1, <2>2
<1> QED
  BY <1>1, <1>2, <1>3, <1>4, KernelStep

LEMMA StepRun == ASSUME CommitInv, NEW o \in Owners, Run(o) PROVE CommitInv'
<1>1. PICK x \in {"invoke", "advance"} : Step(o, AppAt(app[o], x))
  BY DEF Run, AppAt
<1>2. app[o].at = "run" /\ UNCHANGED <<journal, records, holder, stamp>>
  BY DEF Run
<1>3. AppOK(AppAt(app[o], x), journal, records)
  <2>1. AppOK(app[o], journal, records) /\ app[o].result \in {"none", journal.staged}
    BY <1>2, AppNow DEF AppOK
  <2> QED
    BY <2>1, GoesTo DEF Stages, Writing, Written
<1>4. KernelOK'
  <2>1. CASE signal /\ kernel.state = "running"
    BY <1>2, <2>1, StateSet DEF Run
  <2>2. CASE ~(signal /\ kernel.state = "running")
    BY <1>2, <2>2, StateKept DEF Run
  <2> QED
    BY <2>1, <2>2
<1> QED
  BY <1>1, <1>2, <1>3, <1>4, KernelStep

LEMMA StepCheckpoint == ASSUME CommitInv, NEW o \in Owners, RecordCheckpoint(o) PROVE CommitInv'
<1>1. /\ Step(o, app[o]) /\ kernel' = [kernel EXCEPT !.checkpoint = TRUE]
      /\ UNCHANGED <<journal, records, holder, stamp>>
  BY DEF RecordCheckpoint
<1>2. KernelOK'
  <2>1. kernel = [f \in {"state", "accepted", "checkpoint"} |-> kernel[f]]
    BY DEF CommitInv, KernelOK
  <2>2. /\ kernel' = [f \in {"state", "accepted", "checkpoint"} |-> kernel'[f]]
        /\ kernel'.state = kernel.state /\ kernel'.accepted = kernel.accepted
    BY <1>1, <2>1
  <2> QED
    BY <1>1, <2>2 DEF CommitInv, KernelOK
<1> QED
  BY <1>1, <1>2, AppNow, KernelStep

LEMMA StepInvoke == ASSUME CommitInv, NEW o \in Owners, Invoke(o) PROVE CommitInv'
<1>1. PICK x \in {"stage", "advance"}, r \in Results :
        /\ Step(o, AppResult(AppAt(app[o], x), r)) /\ (x = "advance" => r = "none")
  <2>1. CASE \E r \in Outcomes : Step(o, [app[o] EXCEPT !.at = "stage", !.result = r])
    BY <2>1 DEF AppAt, AppResult, Results
  <2>2. CASE Step(o, [app[o] EXCEPT !.at = "advance", !.result = "none"])
    BY <2>2 DEF AppAt, AppResult, Results
  <2> QED
    BY <2>1, <2>2 DEF Invoke
<1>2. UNCHANGED <<kernel, journal, records, holder, stamp>>
  BY DEF Invoke
<1> DEFINE a == AppAt(app[o], x)
           b == AppResult(a, r)
<1>3. AppShape(a) /\ a.at = x
  BY AppNow, SetApp DEF AppOK, AppSame
<1> HIDE DEF a
<1>4. AppShape(b) /\ b.at = x /\ b.result = r
  BY <1>3, SetApp DEF AppSame
<1> HIDE DEF b
<1>5. AppOK(b, journal, records)
  BY <1>1, <1>4 DEF AppOK, Stages, Writing, Written
<1>6. Step(o, b)
  BY <1>1 DEF a, b
<1> QED
  BY <1>2, <1>5, <1>6, QuietStep

\* What other executions know stays true when a result is staged or bound.
LEMMA OthersKept ==
  ASSUME CommitInv, UNCHANGED records,
         journal'.staged = journal.staged \/ journal.staged = "none",
         journal'.proof = journal.proof \/ journal.proof = 0
  PROVE  \A p \in Owners : AppOK(app[p], journal', records')
<1> SUFFICES ASSUME NEW p \in Owners PROVE AppOK(app[p], journal', records')
  OBVIOUS
<1>1. AppOK(app[p], journal, records) /\ journal.proof \in Nat
  BY AppNow DEF CommitInv, JournalOK
<1>2. app[p].at \in Written => app[p].at \in Writing
  BY DEF Written, Writing
<1> QED
  BY <1>1, <1>2 DEF AppOK

LEMMA StepStage == ASSUME CommitInv, NEW o \in Owners, Stage(o) PROVE CommitInv'
<1>0. /\ app[o].at = "stage" /\ UNCHANGED <<kernel, records, holder, stamp>>
      /\ journal = [f \in {"staged", "proof", "committed"} |-> journal[f]]
      /\ journal' = IF journal.staged = "none" THEN [journal EXCEPT !.staged = app[o].result] ELSE journal
  BY DEF Stage, CommitInv, JournalOK
<1>1. /\ journal' = [f \in {"staged", "proof", "committed"} |-> journal'[f]]
      /\ journal'.proof = journal.proof /\ journal'.committed = journal.committed
      /\ journal'.staged = IF journal.staged = "none" THEN app[o].result ELSE journal.staged
  <2>1. CASE journal.staged = "none"
    BY <1>0, <2>1
  <2>2. CASE journal.staged # "none"
    BY <1>0, <2>2
  <2> QED
    BY <2>1, <2>2
<1>2. app[o].result \in Results
  BY AppNow DEF AppOK
<1>3. JournalOK' /\ RecordsOK' /\ KernelOK'
  <2>1. JournalOK'
    BY <1>0, <1>1, <1>2 DEF CommitInv, JournalOK
  <2>2. RecordsOK'
    BY <1>0, <1>1 DEF CommitInv, RecordsOK
  <2>3. KernelOK'
    BY <1>0, <1>1 DEF CommitInv, KernelOK
  <2> QED
    BY <2>1, <2>2, <2>3
<1>4. \A p \in Owners : AppOK(app[p], journal', records')
  BY <1>0, <1>1, OthersKept
<1>5. CASE Stop(o)
  <2>1. AppsOK' /\ ArmedOK'
    BY <1>0, <1>4, <1>5, Stopped, OneApp DEF Stop
  <2> QED
    BY <1>3, <2>1 DEF CommitInv
<1>6. CASE ~Stop(o)
  <2> DEFINE a == AppAt(app[o], "advance")
             b == AppSeen(a, app[o].result)
             c == AppDone(b, journal.committed)
  <2>1. journal'.staged = app[o].result /\ Step(o, c)
    BY <1>6 DEF Stage, AppAt, AppSeen, AppDone, Retried
  <2>2. AppOK(a, journal', records')
    BY <1>4, <2>1, GoesTo DEF Stages, Writing, Written
  <2>3. AppShape(a) /\ a.at = "advance" /\ a.result = app[o].result
    BY AppNow, SetApp DEF AppOK, AppSame
  <2> HIDE DEF a
  <2>4. AppShape(b) /\ b.at = "advance" /\ b.result = app[o].result
    BY <2>3, SetApp DEF AppSame
  <2> HIDE DEF b
  <2>5. AppShape(c) /\ c.at = "advance" /\ c.result = app[o].result
    BY <2>4, SetApp DEF AppSame
  <2> HIDE DEF c
  <2>6. AppOK(c, journal', records')
    BY <1>2, <2>1, <2>5 DEF AppOK, Stages, Writing, Written
  <2>7. AppOK(AppArmed(c, FALSE), journal', records') /\ AppArmed(c, FALSE).armed = FALSE
    BY <2>6, Disarmed
  <2>8. AppsOK' /\ ArmedOK'
    BY <1>0, <1>4, <2>1, <2>7, OneApp DEF Step, AppArmed
  <2> QED
    BY <1>3, <2>8 DEF CommitInv
<1> QED
  BY <1>5, <1>6

LEMMA StepAdvance == ASSUME CommitInv, NEW o \in Owners, Advance(o) PROVE CommitInv'
<1>1. app[o].at = "advance" /\ Step(o, AppAt(app[o], "settled")) /\ UNCHANGED <<journal, records, holder, stamp>>
  BY DEF Advance, AppAt
<1>2. AppOK(app[o], journal, records) /\ app[o].result \in {"none", journal.staged} /\ app[o].result \in Results
  BY <1>1, AppNow DEF AppOK
<1>3. AppOK(AppAt(app[o], "settled"), journal, records)
  BY <1>2, GoesTo DEF Stages, Writing, Written
<1>4. KernelOK'
  <2>1. CASE kernel' = kernel
    BY <1>1, <2>1, StateKept
  <2>2. CASE kernel.state = "running" /\ \E v \in {"degraded", "cancelled"} : kernel' = [kernel EXCEPT !.state = v]
    BY <1>1, <2>2, StateSet
  <2>3. CASE /\ app[o].result # "none"
             /\ kernel' = [kernel EXCEPT !.state = "succeeded", !.accepted = app[o].result]
    <3>1. kernel = [f \in {"state", "accepted", "checkpoint"} |-> kernel[f]]
      BY DEF CommitInv, KernelOK
    <3>2. PICK k : k = [kernel EXCEPT !.state = "succeeded"]
      OBVIOUS
    <3>3. k = [f \in {"state", "accepted", "checkpoint"} |-> k[f]] /\ k.state = "succeeded"
      BY <3>1, <3>2
    <3>4. kernel' = [k EXCEPT !.accepted = app[o].result]
      BY <2>3, <3>2
    <3>5. /\ kernel' = [f \in {"state", "accepted", "checkpoint"} |-> kernel'[f]]
          /\ kernel'.state = "succeeded" /\ kernel'.accepted = app[o].result
      BY <3>3, <3>4
    <3> QED
      BY <1>1, <1>2, <2>3, <3>5 DEF KernelOK
  <2> QED
    BY <2>1, <2>2, <2>3 DEF Advance
<1> QED
  BY <1>1, <1>3, <1>4, KernelStep

LEMMA StepSettled == ASSUME CommitInv, NEW o \in Owners, Settled(o) PROVE CommitInv'
<1>1. app[o].at = "settled" /\ UNCHANGED <<kernel, journal, records, holder, stamp>>
  BY DEF Settled
<1>2. Stop(o) \/ \E x \in {"bind", "return"} : Step(o, AppAt(app[o], x))
  BY DEF Settled, AppAt, Retried
<1>3. \A x \in {"bind", "return"} : AppOK(AppAt(app[o], x), journal, records)
  <2>1. AppOK(app[o], journal, records) /\ app[o].result \in {"none", journal.staged}
    BY <1>1, AppNow DEF AppOK
  <2> QED
    BY <2>1, GoesTo DEF Stages, Writing, Written
<1> QED
  BY <1>1, <1>2, <1>3, QuietStep, QuietStop


\* The first proof bound to the result stays.
LEMMA StepBind == ASSUME CommitInv, NEW o \in Owners, Bind(o) PROVE CommitInv'
<1>0. app[o].at = "bind" /\ UNCHANGED <<kernel, records, holder>>
  BY DEF Bind
<1>1. CASE kernel.accepted = app[o].result /\ journal.staged = app[o].result
  <2> DEFINE n == Bound(o)
             x == IF app[o].done THEN "return" ELSE "event"
             a == AppAt(app[o], x)
             b == AppProof(a, n)
  <2>1. /\ journal' = [journal EXCEPT !.proof = n] /\ Step(o, b)
        /\ stamp' = IF n = stamp THEN stamp + 1 ELSE stamp
    BY <1>1 DEF Bind, AppAt, AppProof
  <2>2. /\ n \in Nat /\ n > 0 /\ (journal.proof = 0 \/ n = journal.proof)
        /\ journal.proof \in Nat /\ stamp \in Nat \ {0}
    BY DEF Bound, CommitInv, JournalOK
  <2> HIDE DEF n
  <2>3. journal = [f \in {"staged", "proof", "committed"} |-> journal[f]]
    BY DEF CommitInv, JournalOK
  <2>4. /\ journal' = [f \in {"staged", "proof", "committed"} |-> journal'[f]]
        /\ journal'.proof = n /\ journal'.staged = journal.staged
        /\ journal'.committed = journal.committed
    BY <2>1, <2>3
  <2>5. JournalOK' /\ RecordsOK' /\ KernelOK'
    <3>1. JournalOK'
      BY <1>0, <2>1, <2>2, <2>4 DEF CommitInv, JournalOK
    <3>2. RecordsOK'
      BY <1>0, <2>2, <2>4 DEF CommitInv, RecordsOK
    <3>3. KernelOK'
      BY <1>0, <2>4 DEF CommitInv, KernelOK
    <3> QED
      BY <3>1, <3>2, <3>3
  <2>6. \A p \in Owners : AppOK(app[p], journal', records')
    BY <1>0, <2>2, <2>4, OthersKept
  <2>7. x \in {"return", "event"}
    OBVIOUS
  <2> HIDE DEF x
  <2>8. AppShape(a) /\ a.at = x /\ a.result = app[o].result
    BY AppNow, SetApp DEF AppOK, AppSame
  <2> HIDE DEF a
  <2>9. AppShape(b) /\ b.at = x /\ b.result = app[o].result /\ b.proof = n
    BY <2>8, SetApp DEF AppSame
  <2> HIDE DEF b
  <2>10. app[o].result \in Results
    BY AppNow DEF AppOK
  <2>11. AppOK(b, journal', records')
    BY <1>1, <2>2, <2>4, <2>7, <2>9, <2>10 DEF AppOK, Stages, Writing, Written
  <2>12. AppOK(AppArmed(b, FALSE), journal', records') /\ AppArmed(b, FALSE).armed = FALSE
    BY <2>11, Disarmed
  <2>13. AppsOK' /\ ArmedOK'
    BY <1>0, <2>1, <2>6, <2>12, OneApp DEF Step, AppArmed
  <2> QED
    BY <2>5, <2>13 DEF CommitInv
<1>2. CASE ~(kernel.accepted = app[o].result /\ journal.staged = app[o].result)
  BY <1>0, <1>2, QuietStop DEF Bind, Retried
<1> QED
  BY <1>1, <1>2

\* A record is written, of the journal's proof.
LEMMA RecordStep ==
  ASSUME CommitInv, NEW o \in Owners, NEW x \in Stages, Step(o, AppAt(app[o], x)),
         app[o].at # "stage", x # "stage",
         app[o].proof = journal.proof, journal.proof > 0, x \in Written => records'.outcome = journal.proof,
         RecordsOK', records.outcome = journal.proof => records'.outcome = journal.proof,
         UNCHANGED <<kernel, journal, holder, stamp>>
  PROVE  CommitInv'
<1>1. \A p \in Owners : AppOK(app[p], journal', records')
  BY AppNow DEF AppOK
<1>2. AppOK(AppAt(app[o], x), journal', records')
  <2>1. AppOK(app[o], journal', records') /\ app[o].result \in {"none", journal'.staged}
    BY <1>1 DEF AppOK
  <2> QED
    BY <2>1, GoesTo
<1>3. AppOK(AppArmed(AppAt(app[o], x), FALSE), journal', records') /\ AppArmed(AppAt(app[o], x), FALSE).armed = FALSE
  BY <1>2, Disarmed
<1>4. AppsOK' /\ ArmedOK'
  BY <1>1, <1>3, OneApp DEF Step, AppArmed
<1>5. JournalOK' /\ KernelOK'
  BY DEF CommitInv, JournalOK, KernelOK
<1> QED
  BY <1>4, <1>5 DEF CommitInv

LEMMA StepAppend ==
  ASSUME CommitInv, NEW o \in Owners, NEW kind \in {"event", "decision", "outcome"}, NEW next,
         next = (CASE kind = "event" -> "decision" [] kind = "decision" -> "outcome"
                   [] kind = "outcome" -> "propose"),
         AppendRecord(o, kind, next)
  PROVE  CommitInv'
<1>1. app[o].at = kind /\ UNCHANGED <<kernel, journal, holder, stamp>>
  BY DEF AppendRecord
<1>2. app[o].proof = journal.proof /\ journal.proof > 0
  BY <1>1, AppNow DEF AppOK, Writing
<1>3. CASE records[kind] \in {0, app[o].proof}
  <2>1. records' = [records EXCEPT ![kind] = app[o].proof] /\ Step(o, AppAt(app[o], next))
    BY <1>3 DEF AppendRecord, AppAt
  <2>2. /\ records' = [f \in {"event", "decision", "outcome", "candidate"} |-> records'[f]]
        /\ records'[kind] = journal.proof
        /\ \A f \in {"event", "decision", "outcome", "candidate"} \ {kind} : records'[f] = records[f]
    <3>1. records = [f \in {"event", "decision", "outcome", "candidate"} |-> records[f]]
      BY DEF CommitInv, RecordsOK
    <3> QED
      BY <1>2, <2>1, <3>1
  <2>3. RecordsOK'
    BY <1>1, <2>2 DEF CommitInv, RecordsOK
  <2>4. next \in Stages /\ next # "stage" /\ app[o].at # "stage" /\ (next \in Written => kind = "outcome")
    BY <1>1 DEF Stages, Written
  <2>5. records.outcome = journal.proof => records'.outcome = journal.proof
    BY <2>2
  <2>6. next \in Written => records'.outcome = journal.proof
    BY <2>2, <2>4
  <2> QED
    BY <1>1, <1>2, <2>1, <2>3, <2>4, <2>5, <2>6, RecordStep
<1>4. CASE records[kind] \notin {0, app[o].proof}
  BY <1>1, <1>4, QuietStop DEF AppendRecord, Retried
<1> QED
  BY <1>3, <1>4

LEMMA StepWrite == ASSUME CommitInv, NEW o \in Owners, WriteRecords(o) PROVE CommitInv'
<1>1. CASE AppendRecord(o, "event", "decision")
  BY <1>1, StepAppend
<1>2. CASE AppendRecord(o, "decision", "outcome")
  BY <1>2, StepAppend
<1>3. CASE AppendRecord(o, "outcome", "propose")
  BY <1>3, StepAppend
<1> QED
  BY <1>1, <1>2, <1>3 DEF WriteRecords

\* What the extraction leaves is not a record of the result.
LEMMA CandidateSet ==
  ASSUME CommitInv, NEW v, records' = [records EXCEPT !.candidate = v], UNCHANGED journal
  PROVE  RecordsOK' /\ records'.outcome = records.outcome
<1>1. records = [f \in {"event", "decision", "outcome", "candidate"} |-> records[f]]
  BY DEF CommitInv, RecordsOK
<1>2. /\ records' = [f \in {"event", "decision", "outcome", "candidate"} |-> records'[f]]
      /\ records'.event = records.event /\ records'.decision = records.decision
      /\ records'.outcome = records.outcome
  BY <1>1
<1> QED
  BY <1>2 DEF CommitInv, RecordsOK

LEMMA StepPropose == ASSUME CommitInv, NEW o \in Owners, ProposeCandidate(o) PROVE CommitInv'
<1>1. app[o].at = "propose" /\ UNCHANGED <<kernel, journal, holder, stamp>>
  BY DEF ProposeCandidate
<1>2. PICK x \in {"marker", "mark"} : Step(o, AppAt(app[o], x))
  BY DEF ProposeCandidate, AppAt
<1>3. app[o].proof = journal.proof /\ journal.proof > 0 /\ records.outcome = journal.proof
  BY <1>1, AppNow DEF AppOK, Writing, Written
<1>4. RecordsOK' /\ records'.outcome = records.outcome
  <2>1. CASE UNCHANGED records
    BY <1>1, <2>1 DEF CommitInv, RecordsOK
  <2>2. CASE records' = [records EXCEPT !.candidate = IF @ = "none" THEN "proposed" ELSE @]
    BY <1>1, <2>2, CandidateSet
  <2> QED
    BY <2>1, <2>2 DEF ProposeCandidate
<1>5. x \in Stages /\ x # "stage" /\ app[o].at # "stage"
  BY <1>1, <1>2 DEF Stages
<1> QED
  BY <1>1, <1>2, <1>3, <1>4, <1>5, RecordStep

LEMMA StepMarker == ASSUME CommitInv, NEW o \in Owners, Marker(o) PROVE CommitInv'
<1>1. app[o].at = "marker" /\ Step(o, AppAt(app[o], "mark")) /\ UNCHANGED <<kernel, journal, holder, stamp>>
  BY DEF Marker, AppAt
<1>2. app[o].proof = journal.proof /\ journal.proof > 0 /\ records.outcome = journal.proof
  BY <1>1, AppNow DEF AppOK, Writing, Written
<1>3. RecordsOK' /\ records'.outcome = records.outcome
  BY <1>1, CandidateSet DEF Marker
<1>4. "mark" \in Stages /\ "mark" # "stage" /\ app[o].at # "stage"
  BY <1>1 DEF Stages
<1> QED
  BY <1>1, <1>2, <1>3, <1>4, RecordStep

LEMMA StepPending == ASSUME CommitInv, RetryPending PROVE CommitInv'
<1>1. UNCHANGED <<kernel, journal, app, holder, stamp>>
  BY DEF RetryPending
<1>2. RecordsOK' /\ records'.outcome = records.outcome
  BY <1>1, CandidateSet DEF RetryPending
<1>3. \A p \in Owners : AppOK(app[p], journal', records')
  BY <1>1, <1>2, AppNow DEF AppOK
<1> QED
  BY <1>1, <1>2, <1>3 DEF CommitInv, AppsOK, ArmedOK, KernelOK, JournalOK

LEMMA StepMark == ASSUME CommitInv, NEW o \in Owners, MarkCommitted(o) PROVE CommitInv'
<1>1. app[o].at = "mark" /\ UNCHANGED <<kernel, records, holder, stamp>>
  BY DEF MarkCommitted
<1>2. app[o].proof = journal.proof /\ journal.proof > 0 /\ records.outcome = journal.proof
  BY <1>1, AppNow DEF AppOK, Writing, Written
<1>3. journal' = [journal EXCEPT !.committed = TRUE] /\ Step(o, AppAt(app[o], "return"))
  BY <1>2 DEF MarkCommitted, AppAt
<1>4. /\ journal' = [f \in {"staged", "proof", "committed"} |-> journal'[f]]
      /\ journal'.proof = journal.proof /\ journal'.staged = journal.staged
  <2>1. journal = [f \in {"staged", "proof", "committed"} |-> journal[f]]
    BY DEF CommitInv, JournalOK
  <2> QED
    BY <1>3, <2>1
<1>5. JournalOK' /\ RecordsOK' /\ KernelOK'
  <2>1. JournalOK'
    BY <1>1, <1>2, <1>4 DEF CommitInv, JournalOK
  <2>2. RecordsOK'
    BY <1>1, <1>4 DEF CommitInv, RecordsOK
  <2>3. KernelOK'
    BY <1>1, <1>4 DEF CommitInv, KernelOK
  <2> QED
    BY <2>1, <2>2, <2>3
<1>6. \A p \in Owners : AppOK(app[p], journal', records')
  BY <1>1, <1>4, OthersKept
<1>7. AppOK(AppAt(app[o], "return"), journal', records')
  <2>1. app[o].result \in {"none", journal'.staged}
    BY <1>1, <1>6 DEF AppOK
  <2> QED
    BY <1>6, <2>1, GoesTo DEF Stages, Writing, Written
<1>8. /\ AppOK(AppArmed(AppAt(app[o], "return"), FALSE), journal', records')
      /\ AppArmed(AppAt(app[o], "return"), FALSE).armed = FALSE
  BY <1>7, Disarmed
<1>9. AppsOK' /\ ArmedOK'
  BY <1>1, <1>3, <1>6, <1>8, OneApp DEF Step, AppArmed
<1> QED
  BY <1>5, <1>9 DEF CommitInv

LEMMA NextCommit == ASSUME CommitInv, CommitNext PROVE CommitInv'
<1>1. CASE Cancel
  BY <1>1 DEF Cancel, CommitInv, AppsOK, ArmedOK, KernelOK, JournalOK, RecordsOK
<1>2. ASSUME NEW o \in Owners, Return(o) PROVE CommitInv'
  BY <1>2, QuietStop DEF Return
<1>3. ASSUME NEW o \in Owners, Die(o) PROVE CommitInv'
  BY <1>3, QuietStop DEF Die
<1>4. ASSUME NEW o \in Owners, Execute(o) PROVE CommitInv'
  BY <1>2, <1>4, StepLoad, StepCreate, StepRun, StepInvoke, StepStage, StepAdvance, StepSettled, StepBind, StepWrite,
     StepPropose, StepMarker, StepMark DEF Execute
<1> QED
  BY <1>1, <1>3, <1>4, StepExhausted, StepPending, StepDeliver, StepCheckpoint DEF CommitNext

LEMMA CommitSafe == CommitInv => CommitTypeOK /\ Recoverable /\ OneProof
<1> SUFFICES ASSUME CommitInv PROVE CommitTypeOK /\ Recoverable /\ OneProof
  OBVIOUS
<1>1. CommitTypeOK
  BY DEF CommitInv, CommitTypeOK, KernelOK, JournalOK, AppsOK, AppOK, ArmedOK, Terminal, Results
<1>2. Recoverable
  BY DEF CommitInv, KernelOK, Recoverable
<1>3. OneProof
  BY DEF CommitInv, JournalOK, RecordsOK, OneProof
<1> QED
  BY <1>1, <1>2, <1>3

-----------------------------------------------------------------------------
(* Memory.  A record moves away only while no stored record refers to it,  *)
(* as the plan is judged again when it is applied, so the support of a     *)
(* rule outlives the rule.                                                 *)

Lifecycle == {"absent", "proposed", "active", "archived", "tombstoned", "purged"}
LifeOK ==
  /\ life \in [Records -> Lifecycle] /\ Supported
  /\ \A j, k \in Rules : life[j] = "active" /\ life[k] = "active" => j = k

\* What a rule refers to: its evidence, and the revision before it.
LEMMA RuleRefs ==
  ASSUME NEW k \in Rules
  PROVE  /\ k \notin Events /\ k \in Records /\ Refs(k) \subseteq Records
         /\ EvidenceOf[k] \subseteq Refs(k) /\ \A e \in EvidenceOf[k] : e \notin Rules
<1>1. k \notin Events /\ k \in Records /\ EvidenceOf[k] \subseteq Events
  BY MemoryAssumption DEF Records
<1>2. PICK i \in 1..Len(Rule) : Rule[i] = k
  BY MemoryAssumption DEF Rules, Range
<1>3. Position(k) \in 1..Len(Rule)
  BY <1>2 DEF Position
<1>4. Position(k) # 1 => Rule[Position(k) - 1] \in Rules
  BY <1>3, MemoryAssumption
<1> QED
  BY <1>1, <1>4, MemoryAssumption DEF Refs, Records

LEMMA InitLife == MemoryInit => LifeOK
<1> SUFFICES ASSUME MemoryInit PROVE LifeOK
  OBVIOUS
<1>1. life = [r \in Records |-> "absent"]
  BY DEF MemoryInit
<1>2. \A k \in Rules : life[k] = "absent"
  BY <1>1 DEF Records
<1> QED
  BY <1>1, <1>2 DEF LifeOK, Lifecycle, Supported, Stored

\* One record takes a step that makes no rule active.
LEMMA OneMove ==
  ASSUME LifeOK, NEW r \in Records, NEW v \in {"active", "proposed"}, life[r] = "absent",
         life' = [life EXCEPT ![r] = v], r \in Events \/ v = "proposed",
         r \in Rules => \A s \in Refs(r) : Stored(s)
  PROVE  LifeOK'
<1>1. life \in [Records -> Lifecycle]
  BY DEF LifeOK
<1>2. life' \in [Records -> Lifecycle] /\ life'[r] = v /\ \A s : s # r => life'[s] = life[s]
  BY <1>1 DEF Lifecycle
<1>3. \A s : Stored(s) => Stored(s)'
  BY <1>2 DEF Stored
<1>4. \A k \in Rules : life'[k] = "active" => life[k] = "active"
  <2>1. r \in Rules => v = "proposed"
    BY MemoryAssumption
  <2> QED
    BY <1>2, <2>1
<1>5. \A k \in Rules : Stored(k)' => \A s \in Refs(k) : Stored(s)'
  <2> SUFFICES ASSUME NEW k \in Rules, Stored(k)' PROVE \A s \in Refs(k) : Stored(s)
    BY <1>3
  <2>1. CASE k = r
    BY <2>1
  <2>2. CASE k # r
    BY <1>2, <2>2 DEF Stored, LifeOK, Supported
  <2> QED
    BY <2>1, <2>2
<1>6. \A k \in Rules : life'[k] = "active" => \A e \in EvidenceOf[k] : life'[e] = "active"
  <2> SUFFICES ASSUME NEW k \in Rules, life'[k] = "active", NEW e \in EvidenceOf[k] PROVE life'[e] = "active"
    OBVIOUS
  <2>1. life[e] = "active"
    BY <1>4 DEF LifeOK, Supported
  <2> QED
    BY <1>2, <2>1
<1>7. Supported'
  BY <1>5, <1>6 DEF Supported
<1> QED
  BY <1>2, <1>4, <1>7 DEF LifeOK

LEMMA StepActivate == ASSUME LifeOK, NEW k \in Rules, ActivateKnowledge(k) PROVE LifeOK'
<1>1. /\ life[k] = "proposed" /\ \A e \in EvidenceOf[k] : life[e] = "active"
      /\ life' = Activated(k)
  BY DEF ActivateKnowledge
<1>2. life \in [Records -> Lifecycle] /\ k \in Records
  BY RuleRefs DEF LifeOK
<1>3. life' \in [Records -> Lifecycle]
  BY <1>1, <1>2 DEF Activated, Lifecycle
<1>4. /\ life'[k] = "active"
      /\ \A r \in Records : r # k /\ r \notin Rules => life'[r] = life[r]
      /\ \A j \in Rules : j # k => /\ life'[j] # "active"
                                   /\ life'[j] # life[j] => life[j] = "active" /\ life'[j] = "archived"
  BY <1>1, <1>2 DEF Activated, Records
<1>5. \A r \in Records : Stored(r)' <=> Stored(r)
  BY <1>1, <1>4 DEF Stored, Records
<1>6. \A j \in Rules : Stored(j)' => \A r \in Refs(j) : Stored(r)'
  <2> SUFFICES ASSUME NEW j \in Rules, Stored(j)', NEW r \in Refs(j) PROVE Stored(r)'
    OBVIOUS
  <2>1. Stored(j)
    BY <1>5, RuleRefs
  <2>2. Stored(r)
    BY <2>1 DEF LifeOK, Supported
  <2> QED
    BY <1>5, <2>2, RuleRefs
<1>7. \A e \in EvidenceOf[k] : life'[e] = "active"
  BY <1>1, <1>4, RuleRefs
<1>8. Supported'
  BY <1>4, <1>6, <1>7 DEF Supported
<1> QED
  BY <1>3, <1>4, <1>8 DEF LifeOK

\* A record that moves has no stored record referring to it, and is stored itself.
LEMMA Moves ==
  ASSUME NEW m \in EligibleRecords
  PROVE  /\ m[1] \in Records /\ m[2] \in {"archived", "tombstoned", "purged"} /\ m = <<m[1], MovesTo(m[1])>>
         /\ Stored(m[1]) /\ ~Referenced(m[1])
<1>1. PICK r \in Records : m = <<r, MovesTo(r)>> /\ ~Referenced(r) /\ MovesTo(r) # "none"
  BY DEF EligibleRecords, Movable
<1>2. MovesTo(r) \in {"archived", "tombstoned", "purged"} /\ Stored(r)
  <2>1. CASE Live(r) /\ r \in due
    <3>1. MovesTo(r) = "archived"
      BY <2>1 DEF MovesTo, Live
    <3> QED
      BY <2>1, <3>1 DEF Live, Stored
  <2>2. CASE life[r] = "archived" /\ r \in graced
    <3>1. MovesTo(r) = "tombstoned"
      BY <2>2 DEF MovesTo, Live
    <3> QED
      BY <2>2, <3>1 DEF Stored
  <2>3. CASE life[r] = "tombstoned" /\ r \in graced /\ Latest # r
    <3>1. MovesTo(r) = "purged"
      BY <2>3 DEF MovesTo, Live
    <3> QED
      BY <2>3, <3>1 DEF Stored
  <2>4. CASE /\ ~(Live(r) /\ r \in due) /\ ~(life[r] = "archived" /\ r \in graced)
             /\ ~(life[r] = "tombstoned" /\ r \in graced /\ Latest # r)
    BY <1>1, <2>4 DEF MovesTo
  <2> QED
    BY <2>1, <2>2, <2>3, <2>4
<1> QED
  BY <1>1, <1>2

\* What the application of a plan does to a record.
LEMMA Applied ==
  ASSUME NEW w \in Workers, Apply(w)
  PROVE  /\ life' = [r \in Records |-> life'[r]]
         /\ \A r \in Records :
              \/ life'[r] = life[r]
              \/ life'[r] \in {"archived", "tombstoned", "purged"} /\ Stored(r) /\ ~Referenced(r)
<1> DEFINE moved == worker[w].plan \cap EligibleRecords
<1>1. life' = [r \in Records |-> IF \E m \in moved : m[1] = r
                                 THEN (CHOOSE m \in moved : m[1] = r)[2] ELSE life[r]]
  BY DEF Apply, After
<1>2. ASSUME NEW r \in Records
      PROVE  \/ life'[r] = life[r]
             \/ life'[r] \in {"archived", "tombstoned", "purged"} /\ Stored(r) /\ ~Referenced(r)
  <2>1. CASE \E m \in moved : m[1] = r
    <3>1. PICK m : m = CHOOSE n \in moved : n[1] = r
      OBVIOUS
    <3>2. m \in moved /\ m[1] = r
      BY <2>1, <3>1
    <3>3. life'[r] = m[2]
      BY <1>1, <1>2, <2>1, <3>1
    <3>4. m \in EligibleRecords
      BY <3>2
    <3> HIDE DEF moved
    <3> QED
      BY <3>2, <3>3, <3>4, Moves
  <2>2. CASE ~\E m \in moved : m[1] = r
    BY <1>1, <2>2
  <2> QED
    BY <2>1, <2>2
<1> QED
  BY <1>1, <1>2

LEMMA StepApply == ASSUME LifeOK, NEW w \in Workers, Apply(w) PROVE LifeOK'
<1>1. life \in [Records -> Lifecycle]
  BY DEF LifeOK
<1>2. ASSUME NEW r \in Records
      PROVE  \/ life'[r] = life[r]
             \/ life'[r] \in {"archived", "tombstoned", "purged"} /\ Stored(r) /\ ~Referenced(r)
  BY Applied
<1>3. life' \in [Records -> Lifecycle]
  <2>1. life' = [r \in Records |-> life'[r]]
    BY Applied
  <2>2. \A r \in Records : life'[r] \in Lifecycle
    BY <1>1, <1>2 DEF Lifecycle
  <2> QED
    BY <2>1, <2>2
<1>4. \A r \in Records : Stored(r)' => Stored(r)
  BY <1>2 DEF Stored
<1>5. \A r \in Records : life'[r] = "active" => life[r] = "active"
  BY <1>2
<1>6. ASSUME NEW k \in Rules, Stored(k)', NEW r \in Refs(k) PROVE Stored(r) /\ life'[r] = life[r]
  <2>1. Stored(k) /\ k \in Records /\ r \in Records
    BY <1>4, <1>6, RuleRefs
  <2>2. Stored(r) /\ Referenced(r)
    BY <1>6, <2>1 DEF LifeOK, Supported, Referenced
  <2> QED
    BY <1>2, <2>1, <2>2
<1>7. \A k \in Rules : Stored(k)' => \A r \in Refs(k) : Stored(r)'
  BY <1>6 DEF Stored
<1>8. ASSUME NEW k \in Rules, life'[k] = "active", NEW e \in EvidenceOf[k] PROVE life'[e] = "active"
  <2>1. Stored(k)' /\ e \in Refs(k) /\ life[k] = "active"
    BY <1>5, <1>8, RuleRefs DEF Stored
  <2>2. life[e] = "active"
    BY <1>8, <2>1 DEF LifeOK, Supported
  <2> QED
    BY <1>6, <2>1, <2>2
<1>9. Supported'
  BY <1>7, <1>8 DEF Supported
<1>10. \A j, k \in Rules : life'[j] = "active" /\ life'[k] = "active" => j = k
  BY <1>5, RuleRefs DEF LifeOK
<1> QED
  BY <1>3, <1>9, <1>10 DEF LifeOK

LEMMA LifeKept == ASSUME LifeOK, UNCHANGED life PROVE LifeOK'
  BY DEF LifeOK, Supported, Stored

LEMMA NextLife == ASSUME LifeOK, MemoryNext PROVE LifeOK'
<1>1. CASE \E a \in Artifacts : Upload(a)
  BY <1>1, LifeKept DEF Upload
<1>2. CASE \E e \in Events : AppendEvent(e)
  <2>1. PICK e \in Events : AppendEvent(e)
    BY <1>2
  <2>2. e \in Records /\ e \notin Rules
    BY MemoryAssumption DEF Records
  <2> QED
    BY <2>1, <2>2, OneMove DEF AppendEvent
<1>3. CASE \E k \in Rules : ProposeKnowledge(k) \/ ActivateKnowledge(k)
  <2>1. PICK k \in Rules : ProposeKnowledge(k) \/ ActivateKnowledge(k)
    BY <1>3
  <2>2. CASE ProposeKnowledge(k)
    BY <2>2, RuleRefs, OneMove DEF ProposeKnowledge
  <2> QED
    BY <2>1, <2>2, StepActivate
<1>4. CASE \E r \in Records : Reassess(r) \/ GraceEnds(r)
  BY <1>4, LifeKept DEF Reassess, GraceEnds
<1>5. CASE \E w \in Workers : Pass(w) \/ Restart(w)
  <2>1. PICK w \in Workers : Pass(w) \/ Restart(w)
    BY <1>5
  <2>2. CASE Apply(w)
    BY <2>2, StepApply
  <2>3. CASE ~Apply(w)
    BY <2>1, <2>3, LifeKept DEF Pass, Restart, Plan, BeginCleanup, Delete, FinishCleanup, EndPass
  <2> QED
    BY <2>2, <2>3
<1> QED
  BY <1>1, <1>2, <1>3, <1>4, <1>5 DEF MemoryNext

LEMMA RulesSafe == LifeOK => Supported /\ OneActive
<1> SUFFICES ASSUME LifeOK PROVE Supported /\ OneActive
  OBVIOUS
<1> DEFINE S == {k \in Rules : life[k] = "active"}
<1>1. CASE S = {}
  BY <1>1, FS_EmptySet DEF OneActive, LifeOK
<1>2. CASE S # {}
  <2>1. PICK k : S = {k}
    BY <1>2 DEF LifeOK
  <2>2. Cardinality({k}) = 1
    BY FS_Singleton, Zenon
  <2>3. Cardinality(S) = 1
    BY <2>1, <2>2
  <2> QED
    BY <2>3 DEF OneActive, LifeOK
<1> QED
  BY <1>1, <1>2

-----------------------------------------------------------------------------
\* A sequence without one of its places, and without one of its elements.
LEMMA PlaceRemoved ==
  ASSUME NEW S, NEW q \in Seq(S), NEW p \in 1..Len(q)
  PROVE  /\ RemoveAt(q, p) \in Seq(S) /\ Len(RemoveAt(q, p)) = Len(q) - 1
         /\ \A i \in 1..Len(q) - 1 : RemoveAt(q, p)[i] = IF i < p THEN q[i] ELSE q[i + 1]
<1> DEFINE a == SubSeq(q, 1, p - 1)
           b == SubSeq(q, p + 1, Len(q))
<1>1. Len(q) \in Nat /\ p - 1 \in 0..Len(q) /\ p + 1 \in 1..Len(q) + 1
  OBVIOUS
<1>2. a \in Seq(S) /\ Len(a) = p - 1 /\ \A i \in 1..p - 1 : a[i] = q[i]
  BY <1>1
<1>3. b \in Seq(S) /\ Len(b) = Len(q) - p /\ \A i \in 1..Len(q) - p : b[i] = q[i + p]
  BY <1>1
<1>4. RemoveAt(q, p) = a \o b
  BY DEF RemoveAt
<1> HIDE DEF a, b
<1>5. a \o b \in Seq(S) /\ Len(a \o b) = Len(q) - 1
  <2>1. a \in Seq(S) /\ b \in Seq(S)
    BY <1>2, <1>3
  <2>2. a \o b \in Seq(S) /\ Len(a \o b) = Len(a) + Len(b)
    BY <2>1
  <2> QED
    BY <1>1, <1>2, <1>3, <2>2
<1>6. ASSUME NEW i \in 1..Len(q) - 1 PROVE (a \o b)[i] = IF i < p THEN q[i] ELSE q[i + 1]
  <2>1. CASE i < p
    BY <1>1, <1>2, <1>3, <2>1
  <2>2. CASE ~(i < p)
    <3>1. (a \o b)[i] = b[i - (p - 1)] /\ i - (p - 1) \in 1..Len(q) - p
      BY <1>1, <1>2, <1>3, <2>2
    <3>2. (i - (p - 1)) + p = i + 1
      BY <1>1
    <3> QED
      BY <1>3, <2>2, <3>1, <3>2
  <2> QED
    BY <2>1, <2>2
<1> QED
  BY <1>4, <1>5, <1>6

LEMMA ElementRemoved ==
  ASSUME NEW S, NEW q \in Seq(S), IsInjective(q), NEW t
  PROVE  /\ RemoveFirst(q, t) \in Seq(S) /\ IsInjective(RemoveFirst(q, t))
         /\ Range(RemoveFirst(q, t)) = Range(q) \ {t}
<1>1. CASE ~\E i \in 1..Len(q) : q[i] = t
  BY <1>1 DEF RemoveFirst, Range
<1>2. CASE \E i \in 1..Len(q) : q[i] = t
  <2>1. PICK p \in 1..Len(q) : q[p] = t
    BY <1>2
  <2>2. \A i \in 1..Len(q) : q[i] = t => i = p
    BY <2>1 DEF IsInjective
  <2>3. SelectInSeq(q, LAMBDA v : v = t) = p
    <3>1. {i \in 1..Len(q) : q[i] = t} = {p}
      BY <2>1, <2>2
    <3>2. Min({p}) = p
      BY DEF Min
    <3> QED
      BY <3>1, <3>2 DEF SelectInSeq
  <2>4. PICK r : r = RemoveAt(q, p)
    OBVIOUS
  <2>5. RemoveFirst(q, t) = r
    BY <1>2, <2>3, <2>4 DEF RemoveFirst
  <2>6. /\ r \in Seq(S) /\ Len(r) = Len(q) - 1 /\ Len(q) \in Nat
        /\ \A i \in 1..Len(q) - 1 : r[i] = IF i < p THEN q[i] ELSE q[i + 1]
    BY <2>4, PlaceRemoved
  <2>7. DOMAIN r = 1..Len(q) - 1 /\ DOMAIN q = 1..Len(q)
    BY <2>6
  <2>8. IsInjective(r)
    <3> SUFFICES ASSUME NEW i \in DOMAIN r, NEW j \in DOMAIN r, r[i] = r[j] PROVE i = j
      BY DEF IsInjective
    <3>1. \A k \in 1..Len(q) - 1 : (IF k < p THEN k ELSE k + 1) \in 1..Len(q)
      BY <2>6
    <3>2. (IF i < p THEN i ELSE i + 1) = (IF j < p THEN j ELSE j + 1)
      BY <2>6, <2>7, <3>1 DEF IsInjective
    <3> QED
      BY <2>6, <2>7, <3>2
  <2>9. Range(r) \subseteq Range(q) \ {t}
    <3> SUFFICES ASSUME NEW i \in DOMAIN r PROVE r[i] \in Range(q) \ {t}
      BY DEF Range
    <3>1. PICK k \in 1..Len(q) : r[i] = q[k] /\ k # p
      <4>1. CASE i < p
        BY <2>6, <2>7, <4>1
      <4>2. CASE ~(i < p)
        BY <2>6, <2>7, <4>2
      <4> QED
        BY <4>1, <4>2
    <3> QED
      BY <2>2, <2>7, <3>1 DEF Range
  <2>10. Range(q) \ {t} \subseteq Range(r)
    <3> SUFFICES ASSUME NEW k \in 1..Len(q), q[k] # t PROVE q[k] \in Range(r)
      BY <2>7 DEF Range
    <3>1. k # p
      BY <2>1
    <3>2. CASE k < p
      <4>1. k \in 1..Len(q) - 1 /\ r[k] = q[k]
        BY <2>6, <3>2
      <4> QED
        BY <2>7, <4>1 DEF Range
    <3>3. CASE k > p
      <4>1. k - 1 \in 1..Len(q) - 1 /\ ~(k - 1 < p) /\ (k - 1) + 1 = k
        BY <2>6, <3>3
      <4>2. r[k - 1] = q[k]
        BY <2>6, <4>1
      <4> QED
        BY <2>7, <4>1, <4>2 DEF Range
    <3> QED
      BY <3>1, <3>2, <3>3
  <2> QED
    BY <2>5, <2>6, <2>8, <2>9, <2>10
<1> QED
  BY <1>1, <1>2

LEMMA ElementAdded ==
  ASSUME NEW S, NEW q \in Seq(S), NEW t \in S, IsInjective(q), t \notin Range(q)
  PROVE  /\ Append(q, t) \in Seq(S) /\ IsInjective(Append(q, t))
         /\ Range(Append(q, t)) = Range(q) \cup {t}
<1>1. PICK r : r = Append(q, t)
  OBVIOUS
<1>2. /\ r \in Seq(S) /\ Len(q) \in Nat /\ Len(r) = Len(q) + 1 /\ r[Len(q) + 1] = t
      /\ \A i \in 1..Len(q) : r[i] = q[i]
  BY <1>1
<1>3. DOMAIN r = 1..Len(q) + 1 /\ DOMAIN q = 1..Len(q)
  BY <1>2
<1>4. \A i \in 1..Len(q) : q[i] # t
  BY <1>3 DEF Range
<1>5. IsInjective(r)
  BY <1>2, <1>3, <1>4 DEF IsInjective
<1>6. Range(r) \subseteq Range(q) \cup {t}
  <2> SUFFICES ASSUME NEW i \in DOMAIN r PROVE r[i] \in Range(q) \cup {t}
    BY DEF Range
  <2>1. i = Len(q) + 1 \/ i \in 1..Len(q)
    BY <1>2, <1>3
  <2> QED
    BY <1>2, <1>3, <2>1 DEF Range
<1>7. Range(q) \cup {t} \subseteq Range(r)
  <2>1. t \in Range(r)
    BY <1>2, <1>3 DEF Range
  <2>2. \A i \in DOMAIN q : q[i] \in Range(r)
    <3> SUFFICES ASSUME NEW i \in DOMAIN q PROVE q[i] \in Range(r)
      OBVIOUS
    <3>1. i \in DOMAIN r /\ r[i] = q[i]
      BY <1>2, <1>3
    <3> QED
      BY <3>1 DEF Range
  <2> QED
    BY <2>1, <2>2 DEF Range
<1> QED
  BY <1>1, <1>2, <1>5, <1>6, <1>7

-----------------------------------------------------------------------------
(* The outbox.  A task that has entered it is pending or finished for      *)
(* good, every worker's list holds only such tasks, and none of them is    *)
(* the artifact of a stored event.                                         *)

Known == Pending \cup finished
QueueOK ==
  /\ due \subseteq Records /\ graced \subseteq Records /\ removed \subseteq Known
  /\ outbox \in Seq(Tasks) /\ IsInjective(outbox)
  /\ fresh \subseteq Tasks /\ finished \subseteq Tasks
  /\ fresh \cap Range(outbox) = {} /\ Pending \cap finished = {}

WorkParts == {"at", "plan", "list", "left"}
WorkShape(x) == x = [f \in WorkParts |-> x[f]]
WorkerOK(x, known) ==
  /\ WorkShape(x) /\ x.list \in Seq(known)
  /\ x.at \in {"delete", "finish"} => x.list # <<>>
WorkersOK ==
  /\ worker = [w \in Workers |-> worker[w]]
  /\ \A w \in Workers : WorkerOK(worker[w], Known)
GoneOK ==
  \A a \in Artifacts : a \in Known => \A e \in Events : Artifact[e] = a => ~Stored(e)

MemoryOK == LifeOK /\ QueueOK /\ WorkersOK /\ GoneOK /\ ArtifactKept

WorkAt(x, v) == [x EXCEPT !.at = v]
WorkPlan(x, v) == [x EXCEPT !.plan = v]
WorkList(x, v) == [x EXCEPT !.list = v]
WorkLeft(x, v) == [x EXCEPT !.left = v]
LEMMA SetWork ==
  ASSUME NEW x, WorkShape(x), NEW v
  PROVE  /\ WorkShape(WorkAt(x, v)) /\ WorkAt(x, v).at = v /\ WorkAt(x, v).list = x.list
         /\ WorkShape(WorkPlan(x, v)) /\ WorkPlan(x, v).at = x.at /\ WorkPlan(x, v).list = x.list
         /\ WorkShape(WorkList(x, v)) /\ WorkList(x, v).at = x.at /\ WorkList(x, v).list = v
         /\ WorkShape(WorkLeft(x, v)) /\ WorkLeft(x, v).at = x.at /\ WorkLeft(x, v).list = x.list
<1>1. WorkShape(WorkAt(x, v)) /\ WorkAt(x, v).at = v /\ WorkAt(x, v).list = x.list
  BY DEF WorkAt, WorkShape, WorkParts
<1>2. WorkShape(WorkPlan(x, v)) /\ WorkPlan(x, v).at = x.at /\ WorkPlan(x, v).list = x.list
  BY DEF WorkPlan, WorkShape, WorkParts
<1>3. WorkShape(WorkList(x, v)) /\ WorkList(x, v).at = x.at /\ WorkList(x, v).list = v
  BY DEF WorkList, WorkShape, WorkParts
<1>4. WorkShape(WorkLeft(x, v)) /\ WorkLeft(x, v).at = x.at /\ WorkLeft(x, v).list = x.list
  BY DEF WorkLeft, WorkShape, WorkParts
<1> QED
  BY <1>1, <1>2, <1>3, <1>4

LEMMA NoWorkIs ==
  ASSUME NEW known PROVE WorkerOK(NoWork, known) /\ NoWork.at = "idle" /\ NoWork.list = <<>>
<1>1. WorkShape(NoWork) /\ NoWork.at = "idle" /\ NoWork.list = <<>>
  BY DEF NoWork, WorkShape, WorkParts
<1>2. <<>> \in Seq(known)
  OBVIOUS
<1> QED
  BY <1>1, <1>2 DEF WorkerOK

LEMMA InitMemory == MemoryInit => MemoryOK
<1> SUFFICES ASSUME MemoryInit PROVE MemoryOK
  OBVIOUS
<1>1. /\ life = [r \in Records |-> "absent"] /\ due = {} /\ graced = {} /\ fresh = {} /\ outbox = <<>>
      /\ finished = {} /\ removed = {} /\ worker = [w \in Workers |-> NoWork]
  BY DEF MemoryInit
<1>2. Range(outbox) = {}
  BY <1>1 DEF Range
<1>3. QueueOK
  BY <1>1, <1>2 DEF QueueOK, Pending, IsInjective
<1>4. WorkersOK
  <2>1. \A w \in Workers : worker[w] = NoWork
    BY <1>1
  <2>2. worker = [w \in Workers |-> worker[w]]
    BY <1>1
  <2> QED
    BY <2>1, <2>2, NoWorkIs DEF WorkersOK
<1>5. GoneOK
  BY <1>1, <1>2 DEF GoneOK, Known, Pending
<1>6. ArtifactKept
  <2>1. \A e \in Events : ~Stored(e)
    BY <1>1 DEF Stored, Records
  <2> QED
    BY <2>1 DEF ArtifactKept
<1> QED
  BY <1>3, <1>4, <1>5, <1>6, InitLife DEF MemoryOK

\* A worker moves, and what is known only grows.
LEMMA OneWorker ==
  ASSUME WorkersOK, NEW w \in Workers, NEW x, worker' = [worker EXCEPT ![w] = x], Known \subseteq Known',
         WorkerOK(x, Known')
  PROVE  WorkersOK'
<1>1. worker = [v \in Workers |-> worker[v]]
  BY DEF WorkersOK
<1>2. worker' = [v \in Workers |-> worker'[v]] /\ worker'[w] = x /\ \A v \in Workers \ {w} : worker'[v] = worker[v]
  BY <1>1
<1>3. \A v \in Workers : WorkerOK(worker[v], Known')
  <2> SUFFICES ASSUME NEW v \in Workers PROVE WorkerOK(worker[v], Known')
    OBVIOUS
  <2>1. WorkerOK(worker[v], Known)
    BY DEF WorkersOK
  <2>2. PICK q : q = worker[v].list
    OBVIOUS
  <2>3. q \in Seq(Known')
    <3>1. q \in Seq(Known)
      BY <2>1, <2>2 DEF WorkerOK
    <3> QED
      BY <3>1
  <2> QED
    BY <2>1, <2>2, <2>3 DEF WorkerOK
<1> QED
  BY <1>2, <1>3 DEF WorkersOK

LEMMA SameQueue == ASSUME UNCHANGED <<fresh, outbox, finished>> PROVE Known' = Known /\ Pending' = Pending
  BY DEF Known, Pending

\* The life of events is all that the artifacts depend on.
LEMMA EventsRest ==
  ASSUME GoneOK, ArtifactKept, UNCHANGED <<fresh, outbox, finished, removed>>,
         \A e \in Events : Stored(e)' => Stored(e)
  PROVE  GoneOK' /\ ArtifactKept'
  BY SameQueue DEF GoneOK, ArtifactKept

\* Only a worker moves.
LEMMA WorkerOnly ==
  ASSUME MemoryOK, NEW w \in Workers, NEW x, worker' = [worker EXCEPT ![w] = x],
         UNCHANGED <<life, due, graced, fresh, outbox, finished, removed>>, WorkerOK(x, Known)
  PROVE  MemoryOK'
<1>1. LifeOK'
  BY LifeKept DEF MemoryOK
<1>2. QueueOK'
  BY SameQueue DEF MemoryOK, QueueOK
<1>3. WorkersOK'
  BY SameQueue, OneWorker DEF MemoryOK
<1>4. GoneOK' /\ ArtifactKept'
  BY EventsRest DEF MemoryOK, Stored
<1> QED
  BY <1>1, <1>2, <1>3, <1>4 DEF MemoryOK

LEMMA QueueRests ==
  ASSUME MemoryOK, LifeOK', UNCHANGED <<fresh, outbox, finished, worker, removed>>,
         due' \subseteq Records, graced' \subseteq Records, \A e \in Events : Stored(e)' => Stored(e)
  PROVE  MemoryOK'
<1>1. QueueOK' /\ WorkersOK'
  BY SameQueue DEF MemoryOK, QueueOK, WorkersOK
<1>2. GoneOK' /\ ArtifactKept'
  BY EventsRest DEF MemoryOK
<1> QED
  BY <1>1, <1>2 DEF MemoryOK

\* A task of a worker's list that is known.
LEMMA Listed ==
  ASSUME MemoryOK, NEW w \in Workers, worker[w].list # <<>>
  PROVE  /\ worker[w].list[1] \in Known /\ worker[w].list[1] \in Tasks
         /\ WorkShape(worker[w]) /\ Tail(worker[w].list) \in Seq(Known) /\ worker[w].list \in Seq(Known)
<1>1. WorkerOK(worker[w], Known)
  BY DEF MemoryOK, WorkersOK
<1>2. PICK q : q = worker[w].list
  OBVIOUS
<1>3. q \in Seq(Known) /\ q # <<>>
  BY <1>1, <1>2 DEF WorkerOK
<1>4. q[1] \in Known /\ Tail(q) \in Seq(Known)
  BY <1>3
<1>5. Known \subseteq Tasks
  <2>1. Range(outbox) \subseteq Tasks
    <3>1. outbox \in Seq(Tasks)
      BY DEF MemoryOK, QueueOK
    <3> QED
      BY <3>1 DEF Range
  <2> QED
    BY <2>1 DEF MemoryOK, QueueOK, Known, Pending
<1> QED
  BY <1>1, <1>2, <1>3, <1>4, <1>5 DEF WorkerOK

LEMMA StepBegin == ASSUME MemoryOK, NEW w \in Workers, BeginCleanup(w) PROVE MemoryOK'
<1> DEFINE t == worker[w].list[1]
<1>1. /\ worker[w].at = "clean" /\ worker[w].list # <<>>
      /\ UNCHANGED <<life, due, graced, finished, removed>>
  BY DEF BeginCleanup
<1>2. /\ t \in Known /\ t \in Tasks /\ WorkShape(worker[w]) /\ Tail(worker[w].list) \in Seq(Known)
      /\ worker[w].list \in Seq(Known)
  BY <1>1, Listed
<1>3. CASE t \in finished \/ ~Serves(t)
  <2> DEFINE x == WorkList(worker[w], Tail(worker[w].list))
  <2>1. worker' = [worker EXCEPT ![w] = x] /\ UNCHANGED <<fresh, outbox>>
    BY <1>3 DEF BeginCleanup, WorkList
  <2>2. WorkShape(x) /\ x.at = "clean" /\ x.list = Tail(worker[w].list)
    BY <1>1, <1>2, SetWork
  <2> HIDE DEF x
  <2>3. WorkerOK(x, Known)
    BY <1>2, <2>2 DEF WorkerOK
  <2> QED
    BY <1>1, <2>1, <2>3, WorkerOnly
<1>4. CASE t \notin finished /\ Serves(t)
  <2> DEFINE y == WorkAt(worker[w], "delete")
             x == WorkLeft(y, y.left - 1)
             q == RemoveFirst(outbox, t)
  <2>1. fresh' = fresh \ {t} /\ outbox' = Append(q, t) /\ worker' = [worker EXCEPT ![w] = x]
    BY <1>4 DEF BeginCleanup, Attempted, WorkAt, WorkLeft
  <2>2. WorkShape(y) /\ y.at = "delete" /\ y.list = worker[w].list
    BY <1>2, SetWork
  <2> HIDE DEF y
  <2>3. WorkShape(x) /\ x.at = "delete" /\ x.list = worker[w].list
    BY <2>2, SetWork
  <2> HIDE DEF x
  <2>4. outbox \in Seq(Tasks) /\ IsInjective(outbox)
    BY DEF MemoryOK, QueueOK
  <2>5. q \in Seq(Tasks) /\ IsInjective(q) /\ Range(q) = Range(outbox) \ {t}
    BY <2>4, ElementRemoved
  <2> HIDE DEF q
  <2>6. outbox' \in Seq(Tasks) /\ IsInjective(outbox') /\ Range(outbox') = Range(outbox) \cup {t}
    BY <1>2, <2>1, <2>5, ElementAdded
  <2>7. t \in Pending
    BY <1>2, <1>4 DEF Known
  <2>8. Pending' = Pending /\ Known' = Known
    BY <1>1, <2>1, <2>6, <2>7 DEF Pending, Known
  <2>9. QueueOK'
    BY <1>1, <2>1, <2>6, <2>8 DEF MemoryOK, QueueOK
  <2>10. WorkersOK'
    <3>1. WorkerOK(x, Known')
      BY <1>1, <1>2, <2>3, <2>8 DEF WorkerOK
    <3> QED
      BY <2>1, <2>8, <3>1, OneWorker DEF MemoryOK
  <2>11. GoneOK' /\ ArtifactKept'
    BY <1>1, <2>8 DEF MemoryOK, GoneOK, ArtifactKept, Stored
  <2> QED
    BY <1>1, <2>9, <2>10, <2>11, LifeKept DEF MemoryOK
<1> QED
  BY <1>3, <1>4

LEMMA StepDelete == ASSUME MemoryOK, NEW w \in Workers, Delete(w) PROVE MemoryOK'
<1> DEFINE t == worker[w].list[1]
<1>1. /\ worker[w].at = "delete" /\ UNCHANGED <<life, due, graced, fresh, outbox, finished>>
      /\ WorkerOK(worker[w], Known)
  BY DEF Delete, MemoryOK, WorkersOK
<1>2. /\ t \in Known /\ WorkShape(worker[w]) /\ Tail(worker[w].list) \in Seq(Known)
      /\ worker[w].list \in Seq(Known) /\ worker[w].list # <<>>
  BY <1>1, Listed DEF WorkerOK
<1>3. CASE t \in Poisoned
  <2> DEFINE y == WorkAt(worker[w], "clean")
             x == WorkList(y, Tail(y.list))
  <2>1. worker' = [worker EXCEPT ![w] = x] /\ UNCHANGED removed
    BY <1>3 DEF Delete, WorkAt, WorkList
  <2>2. WorkShape(y) /\ y.at = "clean" /\ y.list = worker[w].list
    BY <1>2, SetWork
  <2> HIDE DEF y
  <2>3. WorkShape(x) /\ x.at = "clean" /\ x.list = Tail(worker[w].list)
    BY <2>2, SetWork
  <2> HIDE DEF x
  <2>4. WorkerOK(x, Known)
    BY <1>2, <2>3 DEF WorkerOK
  <2> QED
    BY <1>1, <2>1, <2>4, WorkerOnly
<1>4. CASE t \notin Poisoned
  <2> DEFINE x == WorkAt(worker[w], "finish")
  <2>1. worker' = [worker EXCEPT ![w] = x] /\ removed' = removed \cup {t}
    BY <1>4 DEF Delete, WorkAt
  <2>2. WorkShape(x) /\ x.at = "finish" /\ x.list = worker[w].list
    BY <1>2, SetWork
  <2> HIDE DEF x
  <2>3. WorkerOK(x, Known)
    BY <1>2, <2>2 DEF WorkerOK
  <2>4. Known' = Known /\ Pending' = Pending
    BY <1>1, SameQueue
  <2>5. QueueOK' /\ WorkersOK'
    BY <1>1, <1>2, <2>1, <2>3, <2>4, OneWorker DEF MemoryOK, QueueOK
  <2>6. GoneOK'
    BY <1>1, <2>4 DEF MemoryOK, GoneOK, Stored
  <2>7. ArtifactKept'
    <3> SUFFICES ASSUME NEW e \in Events, Stored(e), Artifact[e] # "none" PROVE Artifact[e] \notin removed'
      BY <1>1 DEF ArtifactKept, Stored
    <3>1. Artifact[e] \notin removed /\ Artifact[e] \in Artifacts
      BY DEF MemoryOK, ArtifactKept, Artifacts
    <3>2. Artifact[e] # t
      BY <1>2, <3>1 DEF MemoryOK, GoneOK
    <3> QED
      BY <2>1, <3>1, <3>2
  <2> QED
    BY <1>1, <2>5, <2>6, <2>7, LifeKept DEF MemoryOK
<1> QED
  BY <1>3, <1>4

LEMMA StepFinish == ASSUME MemoryOK, NEW w \in Workers, FinishCleanup(w) PROVE MemoryOK'
<1> DEFINE t == worker[w].list[1]
           q == RemoveFirst(outbox, t)
           y == WorkAt(worker[w], "clean")
           x == WorkList(y, Tail(y.list))
<1>1. /\ worker[w].at = "finish" /\ UNCHANGED <<life, due, graced, removed>>
      /\ WorkerOK(worker[w], Known)
      /\ finished' = finished \cup {t} /\ fresh' = fresh \ {t} /\ outbox' = q
      /\ worker' = [worker EXCEPT ![w] = x]
  BY DEF FinishCleanup, MemoryOK, WorkersOK, WorkAt, WorkList
<1>2. t \in Known /\ t \in Tasks /\ WorkShape(worker[w]) /\ Tail(worker[w].list) \in Seq(Known)
  BY <1>1, Listed DEF WorkerOK
<1>3. WorkShape(y) /\ y.at = "clean" /\ y.list = worker[w].list
  BY <1>2, SetWork
<1> HIDE DEF y
<1>4. WorkShape(x) /\ x.at = "clean" /\ x.list = Tail(worker[w].list)
  BY <1>3, SetWork
<1> HIDE DEF x
<1>5. WorkerOK(x, Known)
  BY <1>2, <1>4 DEF WorkerOK
<1>6. outbox \in Seq(Tasks) /\ IsInjective(outbox)
  BY DEF MemoryOK, QueueOK
<1>7. outbox' \in Seq(Tasks) /\ IsInjective(outbox') /\ Range(outbox') = Range(outbox) \ {t}
  BY <1>1, <1>6, ElementRemoved
<1> HIDE DEF q, t
<1>8. Pending' = Pending \ {t}
  BY <1>1, <1>7 DEF Pending
<1>9. Known' = Known
  BY <1>1, <1>2, <1>8 DEF Known
<1>10. QueueOK'
  BY <1>1, <1>2, <1>7, <1>8, <1>9 DEF MemoryOK, QueueOK
<1>11. WorkersOK'
  BY <1>1, <1>5, <1>9, OneWorker DEF MemoryOK
<1>12. GoneOK' /\ ArtifactKept'
  BY <1>1, <1>9 DEF MemoryOK, GoneOK, ArtifactKept, Stored
<1> QED
  BY <1>1, <1>10, <1>11, <1>12, LifeKept DEF MemoryOK

LEMMA FiniteTasks == IsFiniteSet(Tasks)
<1>1. IsFiniteSet(Rules)
  <2>1. Rule \in Surjection(1..Len(Rule), Rules) /\ Len(Rule) \in Nat
    <3>1. Rule \in [1..Len(Rule) -> Rules] /\ Len(Rule) \in Nat
      BY MemoryAssumption
    <3> QED
      BY <3>1 DEF Surjection, Rules, Range
  <2>2. IsFiniteSet(1..Len(Rule))
    BY <2>1, FS_Interval
  <2> QED
    BY <2>1, <2>2, FS_Surjection
<1>2. IsFiniteSet(Artifacts)
  <2> DEFINE T == {Artifact[e] : e \in Events}
             f == [e \in Events |-> Artifact[e]]
  <2>1. f \in Surjection(Events, T)
    BY DEF Surjection
  <2> HIDE DEF f
  <2>2. IsFiniteSet(T)
    BY <2>1, FS_Surjection, MemoryAssumption
  <2>3. Artifacts \in SUBSET T
    BY DEF Artifacts
  <2> HIDE DEF T
  <2> QED
    BY <2>2, <2>3, FS_Subset
<1>3. IsFiniteSet(Events \cup Rules)
  BY <1>1, FS_Union, MemoryAssumption
<1> QED
  BY <1>2, <1>3, FS_Union DEF Tasks, Records

\* Any order of a set of tasks, with the outbox behind it, is a list of them.
LEMMA ListOf ==
  ASSUME NEW S \in SUBSET Tasks, NEW order \in SetToSeqs(S), NEW q \in Seq(Tasks), NEW known,
         S \subseteq known, Range(q) \subseteq known
  PROVE  order \o q \in Seq(known)
<1>1. Cardinality(S) \in Nat
  <2>1. IsFiniteSet(S)
    BY FiniteTasks, FS_Subset
  <2> QED
    BY <2>1, FS_CardinalityType
<1>2. order \in [1..Cardinality(S) -> S]
  BY DEF SetToSeqs
<1>3. order \in Seq(known)
  BY <1>1, <1>2
<1>4. q \in Seq(known)
  <2>1. Len(q) \in Nat /\ q \in [1..Len(q) -> Tasks]
    OBVIOUS
  <2>2. \A i \in 1..Len(q) : q[i] \in known
    BY <2>1 DEF Range
  <2>3. q \in [1..Len(q) -> known]
    BY <2>1, <2>2
  <2> QED
    BY <2>1, <2>3
<1> QED
  BY <1>3, <1>4

LEMMA StepPlan == ASSUME MemoryOK, NEW w \in Workers, Plan(w) PROVE MemoryOK'
<1> DEFINE y == WorkAt(NoWork, "apply")
           x == WorkPlan(y, EligibleRecords)
<1>1. worker' = [worker EXCEPT ![w] = x] /\ UNCHANGED <<life, due, graced, fresh, outbox, finished, removed>>
  BY DEF Plan, WorkAt, WorkPlan
<1>2. WorkShape(y) /\ y.at = "apply" /\ y.list = <<>>
  BY NoWorkIs, SetWork DEF WorkerOK
<1> HIDE DEF y
<1>3. WorkShape(x) /\ x.at = "apply" /\ x.list = <<>>
  BY <1>2, SetWork
<1> HIDE DEF x
<1>4. WorkerOK(x, Known)
  <2>1. <<>> \in Seq(Known)
    OBVIOUS
  <2> QED
    BY <1>3, <2>1 DEF WorkerOK
<1> QED
  BY <1>1, <1>4, WorkerOnly

LEMMA StepApplies == ASSUME MemoryOK, NEW w \in Workers, Apply(w) PROVE MemoryOK'
<1> DEFINE moved == worker[w].plan \cap EligibleRecords
           new == Queued(moved, life') \ Known
<1>1. LifeOK'
  BY StepApply DEF MemoryOK
<1>2. /\ fresh' = fresh \cup new /\ UNCHANGED <<outbox, finished, removed>>
      /\ due' \subseteq due /\ graced' \subseteq graced
  BY DEF Apply, Known
<1>3. PICK order \in SetToSeqs(fresh') :
        worker' = [worker EXCEPT ![w] = [NoWork EXCEPT !.at = "clean", !.list = order \o outbox, !.left = MaxCleanup]]
  BY DEF Apply
<1>4. \A e \in Events : Stored(e)' => Stored(e)
  <2>1. Events \subseteq Records
    BY DEF Records
  <2> QED
    BY <2>1, Applied DEF Stored
<1>5. ASSUME NEW a \in Artifacts, a \in new, NEW e \in Events, Artifact[e] = a PROVE ~Stored(e)'
  BY <1>5, MemoryAssumption DEF Queued, Stored
<1>6. new \subseteq Tasks /\ new \cap Known = {}
  BY DEF Queued, Tasks
<1> HIDE DEF new, moved
<1>7. Pending' = Pending \cup new /\ Known' = Known \cup new
  BY <1>2 DEF Pending, Known
<1>8. QueueOK'
  <2>1. fresh' \cap Range(outbox) = {} /\ Pending' \cap finished = {}
    BY <1>2, <1>6, <1>7 DEF MemoryOK, QueueOK, Known, Pending
  <2> QED
    BY <1>2, <1>6, <1>7, <2>1 DEF MemoryOK, QueueOK
<1>9. order \o outbox \in Seq(Known')
  <2>1. fresh' \subseteq Known' /\ Range(outbox) \subseteq Known'
    BY <1>2, <1>7 DEF Known, Pending
  <2>2. fresh' \in SUBSET Tasks /\ outbox \in Seq(Tasks)
    BY <1>2, <1>6 DEF MemoryOK, QueueOK
  <2> QED
    BY <2>1, <2>2, ListOf
<1>10. PICK list : list = order \o outbox
  OBVIOUS
<1> DEFINE y == WorkAt(NoWork, "clean")
           z == WorkList(y, list)
           x == WorkLeft(z, MaxCleanup)
<1>11. worker' = [worker EXCEPT ![w] = x]
  BY <1>3, <1>10 DEF WorkAt, WorkList, WorkLeft
<1>12. WorkShape(y) /\ y.at = "clean"
  BY NoWorkIs, SetWork DEF WorkerOK
<1> HIDE DEF y
<1>13. WorkShape(z) /\ z.at = "clean" /\ z.list = list
  BY <1>12, SetWork
<1> HIDE DEF z
<1>14. WorkShape(x) /\ x.at = "clean" /\ x.list = list
  BY <1>13, SetWork
<1> HIDE DEF x
<1>15. WorkersOK'
  <2>1. WorkerOK(x, Known')
    BY <1>9, <1>10, <1>14 DEF WorkerOK
  <2> QED
    BY <1>7, <1>11, <2>1, OneWorker DEF MemoryOK
<1>16. GoneOK'
  <2> SUFFICES ASSUME NEW a \in Artifacts, a \in Known', NEW e \in Events, Artifact[e] = a PROVE ~Stored(e)'
    BY DEF GoneOK
  <2> QED
    BY <1>4, <1>5, <1>7 DEF MemoryOK, GoneOK
<1>17. ArtifactKept'
  BY <1>2, <1>4 DEF MemoryOK, ArtifactKept
<1> QED
  BY <1>1, <1>8, <1>15, <1>16, <1>17 DEF MemoryOK

LEMMA StepEvent == ASSUME MemoryOK, NEW e \in Events, AppendEvent(e) PROVE MemoryOK'
<1>1. /\ life[e] = "absent" /\ life' = [life EXCEPT ![e] = "active"]
      /\ Artifact[e] = "none" \/ Attachable(Artifact[e])
      /\ UNCHANGED <<due, graced, fresh, outbox, finished, removed, worker>>
  BY DEF AppendEvent
<1>2. LifeOK'
  <2>1. MemoryNext
    BY DEF MemoryNext
  <2> QED
    BY <2>1, NextLife DEF MemoryOK
<1>3. \A d \in Events : d # e => (Stored(d)' <=> Stored(d))
  <2>1. life \in [Records -> Lifecycle]
    BY DEF MemoryOK, LifeOK
  <2> QED
    BY <1>1, <2>1 DEF Stored, Records
<1>4. QueueOK' /\ WorkersOK' /\ Known' = Known
  BY <1>1, SameQueue DEF MemoryOK, QueueOK, WorkersOK
<1>5. Artifact[e] = "none" \/ (Artifact[e] \notin removed /\ Artifact[e] \notin Known)
  BY <1>1 DEF Attachable, Known, MemoryOK, QueueOK
<1>6. GoneOK'
  <2> SUFFICES ASSUME NEW a \in Artifacts, a \in Known, NEW d \in Events, Artifact[d] = a PROVE ~Stored(d)'
    BY <1>4 DEF GoneOK
  <2>1. a # "none"
    BY DEF Artifacts
  <2> QED
    BY <1>3, <1>5, <2>1 DEF MemoryOK, GoneOK
<1>7. ArtifactKept'
  BY <1>1, <1>3, <1>5 DEF MemoryOK, ArtifactKept
<1> QED
  BY <1>2, <1>4, <1>6, <1>7 DEF MemoryOK

LEMMA NextMemory == ASSUME MemoryOK, MemoryNext PROVE MemoryOK'
<1>0. LifeOK'
  BY NextLife DEF MemoryOK
<1>1. CASE \E a \in Artifacts : Upload(a)
  <2>1. PICK a \in Artifacts : Upload(a)
    BY <1>1
  <2>2. removed' = removed \ {a} /\ UNCHANGED <<life, due, graced, fresh, outbox, finished, worker>>
    BY <2>1 DEF Upload
  <2>3. QueueOK' /\ WorkersOK'
    BY <2>2, SameQueue DEF MemoryOK, QueueOK, WorkersOK
  <2>4. GoneOK' /\ ArtifactKept'
    BY <2>2, SameQueue DEF MemoryOK, GoneOK, ArtifactKept, Stored
  <2> QED
    BY <1>0, <2>3, <2>4 DEF MemoryOK
<1>2. CASE \E e \in Events : AppendEvent(e)
  BY <1>2, StepEvent
<1>3. CASE \E k \in Rules : ProposeKnowledge(k) \/ ActivateKnowledge(k)
  <2>1. PICK k \in Rules : ProposeKnowledge(k) \/ ActivateKnowledge(k)
    BY <1>3
  <2>2. UNCHANGED <<due, fresh, outbox, finished, worker, removed>> /\ graced' \subseteq graced
    BY <2>1 DEF ProposeKnowledge, ActivateKnowledge
  <2>3. \A e \in Events : life'[e] = life[e]
    <3>1. k \notin Events /\ Events \cap Rules = {} /\ life \in [Records -> Lifecycle] /\ Events \subseteq Records
      BY RuleRefs, MemoryAssumption DEF MemoryOK, LifeOK, Records
    <3>2. CASE ProposeKnowledge(k)
      BY <3>1, <3>2 DEF ProposeKnowledge
    <3>3. CASE ActivateKnowledge(k)
      <4>1. life' = Activated(k)
        BY <3>3 DEF ActivateKnowledge
      <4> QED
        BY <3>1, <4>1 DEF Activated
    <3> QED
      BY <2>1, <3>2, <3>3
  <2>4. due' \subseteq Records /\ graced' \subseteq Records
    BY <2>2 DEF MemoryOK, QueueOK
  <2> QED
    BY <1>0, <2>2, <2>3, <2>4, QueueRests DEF Stored
<1>4. CASE \E r \in Records : Reassess(r) \/ GraceEnds(r)
  <2>1. PICK r \in Records : Reassess(r) \/ GraceEnds(r)
    BY <1>4
  <2>2. /\ UNCHANGED <<life, fresh, outbox, finished, worker, removed>>
        /\ due' \subseteq due \cup {r} /\ graced' \subseteq graced \cup {r}
    BY <2>1 DEF Reassess, GraceEnds
  <2>3. due' \subseteq Records /\ graced' \subseteq Records
    BY <2>2 DEF MemoryOK, QueueOK
  <2> QED
    BY <1>0, <2>2, <2>3, QueueRests DEF Stored
<1>5. CASE \E w \in Workers : Pass(w) \/ Restart(w)
  <2>1. PICK w \in Workers : Pass(w) \/ Restart(w)
    BY <1>5
  <2>2. CASE EndPass(w) \/ Restart(w)
    <3>1. worker' = [worker EXCEPT ![w] = NoWork] /\ UNCHANGED <<life, due, graced, fresh, outbox, finished, removed>>
      BY <2>2 DEF EndPass, Restart
    <3> QED
      BY <3>1, NoWorkIs, WorkerOnly
  <2> QED
    BY <2>1, <2>2, StepPlan, StepApplies, StepBegin, StepDelete, StepFinish DEF Pass
<1> QED
  BY <1>1, <1>2, <1>3, <1>4, <1>5 DEF MemoryNext

LEMMA MemorySafe == MemoryOK => MemoryTypeOK /\ Supported /\ OneActive /\ ArtifactKept
<1> SUFFICES ASSUME MemoryOK PROVE MemoryTypeOK /\ Supported /\ OneActive /\ ArtifactKept
  OBVIOUS
<1>1. MemoryTypeOK
  <2>1. Range(outbox) \subseteq Tasks
    <3>1. outbox \in Seq(Tasks)
      BY DEF MemoryOK, QueueOK
    <3> QED
      BY <3>1 DEF Range
  <2> QED
    BY <2>1 DEF MemoryOK, LifeOK, QueueOK, MemoryTypeOK, Lifecycle, Pending, Known
<1> QED
  BY <1>1, RulesSafe DEF MemoryOK

-----------------------------------------------------------------------------
(* Promotion.  A batch is a bounded sequence of candidates, and who has    *)
(* evaluated its head or leads the cursor has a batch.                     *)

Batches == UNION {[1 .. n -> Candidates] : n \in 0 .. BatchSize}

LEMMA ABatch ==
  ASSUME NEW q
  PROVE  q \in Batches <=> q \in Seq(Candidates) /\ Len(q) <= BatchSize
<1>1. ASSUME q \in Batches PROVE q \in Seq(Candidates) /\ Len(q) <= BatchSize
  <2>1. PICK n \in 0 .. BatchSize : q \in [1 .. n -> Candidates]
    BY <1>1 DEF Batches
  <2> QED
    BY <2>1, PromotionAssumption
<1>2. ASSUME q \in Seq(Candidates), Len(q) <= BatchSize PROVE q \in Batches
  <2>1. Len(q) \in 0 .. BatchSize /\ q \in [1 .. Len(q) -> Candidates]
    BY <1>2, PromotionAssumption
  <2> QED
    BY <2>1 DEF Batches
<1> QED
  BY <1>1, <1>2

LEMMA InitPromotion == PromotionInit => PromotionTypeOK
<1> SUFFICES ASSUME PromotionInit PROVE PromotionTypeOK
  OBVIOUS
<1>1. <<>> \in Batches
  <2>1. <<>> \in Seq(Candidates) /\ Len(<<>>) <= BatchSize
    BY PromotionAssumption
  <2> QED
    BY <2>1, ABatch
<1>2. batch \in [Promoters -> Batches]
  BY <1>1 DEF PromotionInit
<1> QED
  BY <1>2, PromotionAssumption DEF PromotionInit, PromotionTypeOK, Batches

\* A worker's batch changes to one that it may have.
LEMMA BatchOf ==
  ASSUME PromotionTypeOK, NEW w \in Promoters, NEW q \in Batches, batch' = [batch EXCEPT ![w] = q],
         checked' \subseteq Promoters, leading' \subseteq Promoters,
         w \in checked' \cup leading' => q # <<>>,
         checked' \ {w} \subseteq checked, leading' \ {w} \subseteq leading,
         lifecycle' \in [Candidates -> {"none", "proposed", "active", "retired"}],
         boundary' \in Candidates \cup {0}, interrupts' \in 0 .. MaxInterrupts
  PROVE  PromotionTypeOK'
<1>1. batch \in [Promoters -> Batches]
  BY DEF PromotionTypeOK, Batches
<1>2. batch' \in [Promoters -> Batches] /\ batch'[w] = q /\ \A v \in Promoters \ {w} : batch'[v] = batch[v]
  BY <1>1
<1>3. /\ checked' \subseteq {v \in Promoters : batch'[v] # <<>>}
      /\ leading' \subseteq {v \in Promoters : batch'[v] # <<>>}
  BY <1>2 DEF PromotionTypeOK
<1> QED
  BY <1>2, <1>3 DEF PromotionTypeOK, Batches

LEMMA NextPromotion == ASSUME PromotionTypeOK, PromotionNext PROVE PromotionTypeOK'
<1>1. /\ lifecycle \in [Candidates -> {"none", "proposed", "active", "retired"}]
      /\ boundary \in Candidates \cup {0} /\ interrupts \in 0 .. MaxInterrupts
      /\ batch \in [Promoters -> Batches]
      /\ checked \subseteq Promoters /\ leading \subseteq Promoters
  BY DEF PromotionTypeOK, Batches
<1>2. ASSUME NEW w \in Promoters PROVE batch[w] \in Seq(Candidates) /\ Len(batch[w]) <= BatchSize
  BY <1>1, ABatch
<1>3. <<>> \in Batches
  <2>1. <<>> \in Seq(Candidates) /\ Len(<<>>) <= BatchSize
    BY PromotionAssumption
  <2> QED
    BY <2>1, ABatch
<1>4. ASSUME NEW w \in Promoters, Begin(w) PROVE PromotionTypeOK'
  <2>1. PICK rs \in Rotated(Proposed) :
          batch' = [batch EXCEPT ![w] = SubSeq(rs, 1, IF Len(rs) < BatchSize THEN Len(rs) ELSE BatchSize)]
    BY <1>4 DEF Begin
  <2>2. Cardinality(Proposed) \in Nat \ {0}
    <3>1. IsFiniteSet(Proposed)
      BY PromotionAssumption, FS_Subset DEF Proposed
    <3>2. Proposed # {}
      BY <1>4 DEF Begin
    <3> QED
      BY <3>1, <3>2, FS_CardinalityType, FS_EmptySet
  <2>3. rs \in Seq(Candidates) /\ Len(rs) \in Nat \ {0}
    <3>1. rs \in [1 .. Cardinality(Proposed) -> Proposed]
      BY DEF Rotated
    <3>2. rs \in [1 .. Cardinality(Proposed) -> Candidates]
      BY <3>1 DEF Proposed
    <3> QED
      BY <2>2, <3>2
  <2>4. PICK n : n = IF Len(rs) < BatchSize THEN Len(rs) ELSE BatchSize
    OBVIOUS
  <2>5. n \in 1 .. Len(rs) /\ n <= BatchSize /\ n # 0
    BY <2>3, <2>4, PromotionAssumption
  <2>6. PICK q : q = SubSeq(rs, 1, n)
    OBVIOUS
  <2>7. q \in Seq(Candidates) /\ Len(q) = n
    BY <2>3, <2>5, <2>6
  <2>8. q \in Batches /\ q # <<>>
    BY <2>5, <2>7, ABatch
  <2>9. batch' = [batch EXCEPT ![w] = q]
    BY <2>1, <2>4, <2>6
  <2>10. leading' = leading \cup {w} /\ UNCHANGED <<lifecycle, boundary, checked, interrupts>>
    BY <1>4 DEF Begin
  <2> QED
    BY <1>1, <2>8, <2>9, <2>10, BatchOf
<1>5. ASSUME NEW w \in Promoters, Evaluate(w) PROVE PromotionTypeOK'
  <2>1. /\ batch[w] # <<>> /\ checked' = checked \cup {w}
        /\ lifecycle' = [lifecycle EXCEPT ![batch[w][1]] =
                           IF @ = "proposed" /\ batch[w][1] \in Eligible THEN "active" ELSE @]
        /\ UNCHANGED <<batch, leading, boundary, interrupts>>
    BY <1>5 DEF Evaluate, Judged
  <2>2. lifecycle' \in [Candidates -> {"none", "proposed", "active", "retired"}]
    BY <1>1, <2>1
  <2> QED
    BY <2>1, <2>2 DEF PromotionTypeOK
<1>6. ASSUME NEW w \in Promoters, BatchEnds(w), UNCHANGED <<lifecycle, boundary>>, interrupts' \in 0 .. MaxInterrupts
      PROVE  PromotionTypeOK'
  BY <1>1, <1>3, <1>6, BatchOf DEF BatchEnds
<1>7. ASSUME NEW w \in Promoters, Checkpoint(w) PROVE PromotionTypeOK'
  <2>1. CASE w \notin leading
    BY <1>1, <1>6, <1>7, <2>1 DEF Checkpoint
  <2>2. CASE w \in leading
    <3>1. /\ boundary' = batch[w][1] /\ leading' = (IF Len(batch[w]) = 1 THEN {} ELSE {w})
          /\ batch' = [batch EXCEPT ![w] = Tail(batch[w])] /\ checked' = checked \ {w}
          /\ UNCHANGED <<lifecycle, interrupts>>
      BY <1>7, <2>2 DEF Checkpoint
    <3>2. PICK q : q = batch[w]
      OBVIOUS
    <3>3. q \in Seq(Candidates) /\ Len(q) <= BatchSize /\ q # <<>>
      BY <1>2, <2>2, <3>2 DEF PromotionTypeOK
    <3>4. /\ q[1] \in Candidates /\ Tail(q) \in Seq(Candidates) /\ Len(Tail(q)) = Len(q) - 1 /\ Len(q) \in Nat
          /\ (Len(q) # 1 => Tail(q) # <<>>)
      <4>1. q[1] \in Candidates /\ Tail(q) \in Seq(Candidates) /\ Len(Tail(q)) = Len(q) - 1 /\ Len(q) \in Nat
        BY <3>3
      <4>2. PICK z : z = Tail(q)
        OBVIOUS
      <4>3. Len(q) # 1 => Len(z) # 0
        BY <4>1, <4>2
      <4>4. Len(q) # 1 => z # <<>>
        BY <4>3
      <4> QED
        BY <4>1, <4>2, <4>4
    <3>5. Tail(q) \in Batches
      <4>1. Len(Tail(q)) <= BatchSize
        BY <3>3, <3>4, PromotionAssumption
      <4> QED
        BY <3>4, <4>1, ABatch
    <3>6. boundary' \in Candidates
      BY <3>1, <3>2, <3>4
    <3>7. leading' \subseteq {w} /\ (w \in leading' => Tail(q) # <<>>)
      BY <3>1, <3>2, <3>4
    <3> QED
      BY <1>1, <3>1, <3>2, <3>5, <3>6, <3>7, BatchOf
  <2> QED
    BY <2>1, <2>2
<1>8. ASSUME NEW w \in Promoters, Interrupted(w) PROVE PromotionTypeOK'
  <2>1. interrupts' \in 0 .. MaxInterrupts
    BY <1>1, <1>8, PromotionAssumption DEF Interrupted
  <2> QED
    BY <1>6, <1>8, <2>1 DEF Interrupted
<1>9. ASSUME NEW r \in Candidates, Propose(r) \/ Retire(r) PROVE PromotionTypeOK'
  <2>1. /\ lifecycle' \in [Candidates -> {"none", "proposed", "active", "retired"}]
        /\ UNCHANGED <<boundary, batch, checked, leading, interrupts>>
    BY <1>1, <1>9 DEF Propose, Retire
  <2> QED
    BY <2>1 DEF PromotionTypeOK
<1> QED
  BY <1>4, <1>5, <1>7, <1>8, <1>9 DEF PromotionNext, Promoter

-----------------------------------------------------------------------------
(* Prompt activation.  The rows are one history and the store is its last  *)
(* row; a switch that read the present revision has read the release it    *)
(* leaves; a switch or a replay at its acknowledgement was heard.          *)

Kinds == {"activate", "rollback"}
Row == [action : Kinds, active : Releases, previous : Releases \cup {NoRelease}]
Before(au, i) == IF i = 1 THEN NoRelease ELSE au[i - 1].active
RowOK(au, i) ==
  /\ au[i].previous = Before(au, i) /\ au[i].active # Before(au, i)
  /\ au[i].action = "rollback" =>
       i > 1 /\ au[i - 1].action = "activate" /\ au[i].active = au[i - 1].previous

\* The store is what the rows make of it.
StoreOf(s, au) ==
  /\ s.active \in Releases \cup {NoRelease} /\ s.previous \in Releases \cup {NoRelease}
  /\ s.revision = Len(au)
  /\ au = <<>> => s.active = NoRelease /\ s.previous = NoRelease
  /\ au # <<>> => /\ s.active = au[Len(au)].active
                  /\ s.previous = IF au[Len(au)].action = "activate" THEN au[Len(au)].previous ELSE NoRelease
HistoryOK ==
  /\ audits \in Seq(Row) /\ StoreOf(store, audits)
  /\ \A i \in 1..Len(audits) : RowOK(audits, i)

\* A switch that may be made of a store.
Makes(action, r, s) == IF action = "activate" THEN r # s.active ELSE r = s.previous

OpParts == {"at", "action", "release", "seen", "rev"}
OpShape(o) == o = [f \in OpParts |-> o[f]]
OpOK(o, s, au, h, sh) ==
  /\ OpShape(o) /\ o.at \in {"idle", "swap", "emit", "ack"}
  /\ o.at # "idle" => o.action \in Kinds /\ o.release \in Releases
  /\ o.at = "swap" => /\ o.seen \in Nat /\ o.seen <= s.revision
                      /\ o.seen = s.revision => Makes(o.action, o.release, s)
  /\ o.at \in {"emit", "ack"} =>
       /\ o.rev \in 1..Len(au)
       /\ ~sh => au[o.rev].active = o.release /\ au[o.rev].action = o.action
  /\ o.at = "ack" => o.rev \in h
OpsOK ==
  /\ op = [t \in Managers |-> op[t]]
  /\ \A t \in Managers : OpOK(op[t], store, audits, heard, shared)

ReplayOK(r, n, h) ==
  /\ r = [f \in {"at", "queue"} |-> r[f]] /\ r.at \in {"idle", "deliver", "ack"}
  /\ r.queue \in Seq(1..n)
  /\ r.at # "idle" => r.queue # <<>>
  /\ r.at = "ack" => Head(r.queue) \in h
ReplaysOK ==
  /\ replay = [t \in Managers |-> replay[t]]
  /\ \A t \in Managers : ReplayOK(replay[t], Len(audits), heard)

HeardOK ==
  /\ acknowledged \subseteq 1..Len(audits) /\ heard \subseteq 1..Len(audits)
  /\ shared => acknowledged \subseteq heard

PromptOK == HistoryOK /\ OpsOK /\ ReplaysOK /\ HeardOK

\* A set of numbers up to n has a greatest member.
LEMMA Greatest ==
  ASSUME NEW n \in Nat, NEW S, S \subseteq 1..n, S # {}
  PROVE  \E i \in S : \A j \in S : j <= i
<1> DEFINE T == {n - i : i \in S}
           R == OpToRel(<, Nat)
<1>1. IsWellFoundedOn(R, Nat)
  BY NatLessThanWellFounded
<1>2. T \subseteq Nat /\ T # {}
  <2>1. PICK i : i \in S
    OBVIOUS
  <2>2. n - i \in T
    BY <2>1
  <2>3. \A j \in S : n - j \in Nat
    OBVIOUS
  <2> QED
    BY <2>2, <2>3
<1>3. \E x \in T : \A y \in T : ~ (<<y, x>> \in R)
  <2> HIDE DEF T, R
  <2> QED
    BY <1>1, <1>2, WFMin
<1>4. PICK x \in T : \A y \in T : ~ (<<y, x>> \in R)
  BY <1>3
<1>5. \A y \in T : ~(y < x)
  BY <1>2, <1>4 DEF OpToRel
<1>6. PICK i \in S : x = n - i
  OBVIOUS
<1>7. \A j \in S : j <= i
  BY <1>5, <1>6
<1> QED
  BY <1>7

\* Setting a field of a switch.
OpAt(o, v) == [o EXCEPT !.at = v]
OpAction(o, v) == [o EXCEPT !.action = v]
OpRelease(o, v) == [o EXCEPT !.release = v]
OpSeen(o, v) == [o EXCEPT !.seen = v]
OpRev(o, v) == [o EXCEPT !.rev = v]
OpSame(o, p, fs) == OpShape(p) /\ \A f \in OpParts \ fs : p[f] = o[f]

LEMMA SetOp ==
  ASSUME NEW o, OpShape(o), NEW v
  PROVE  /\ OpSame(o, OpAt(o, v), {"at"}) /\ OpAt(o, v).at = v
         /\ OpSame(o, OpAction(o, v), {"action"}) /\ OpAction(o, v).action = v
         /\ OpSame(o, OpRelease(o, v), {"release"}) /\ OpRelease(o, v).release = v
         /\ OpSame(o, OpSeen(o, v), {"seen"}) /\ OpSeen(o, v).seen = v
         /\ OpSame(o, OpRev(o, v), {"rev"}) /\ OpRev(o, v).rev = v
<1>1. OpSame(o, OpAt(o, v), {"at"}) /\ OpAt(o, v).at = v
  BY DEF OpAt, OpSame, OpShape, OpParts
<1>2. OpSame(o, OpAction(o, v), {"action"}) /\ OpAction(o, v).action = v
  BY DEF OpAction, OpSame, OpShape, OpParts
<1>3. OpSame(o, OpRelease(o, v), {"release"}) /\ OpRelease(o, v).release = v
  BY DEF OpRelease, OpSame, OpShape, OpParts
<1>4. OpSame(o, OpSeen(o, v), {"seen"}) /\ OpSeen(o, v).seen = v
  BY DEF OpSeen, OpSame, OpShape, OpParts
<1>5. OpSame(o, OpRev(o, v), {"rev"}) /\ OpRev(o, v).rev = v
  BY DEF OpRev, OpSame, OpShape, OpParts
<1> QED
  BY <1>1, <1>2, <1>3, <1>4, <1>5

LEMMA NoOpIs == OpShape(NoOp) /\ \A s, au, h, sh : OpOK(NoOp, s, au, h, sh)
<1>1. OpShape(NoOp) /\ NoOp.at = "idle"
  BY DEF NoOp, OpShape, OpParts
<1> QED
  BY <1>1 DEF OpOK

LEMMA IdleReplay == ASSUME NEW n \in Nat, NEW h PROVE ReplayOK(NotSwitching, n, h)
<1>1. /\ NotSwitching = [f \in {"at", "queue"} |-> NotSwitching[f]]
      /\ NotSwitching.at = "idle" /\ NotSwitching.queue = <<>>
  BY DEF NotSwitching
<1>2. <<>> \in Seq(1..n)
  OBVIOUS
<1> QED
  BY <1>1, <1>2, Zenon DEF ReplayOK

LEMMA InitPrompt == PromptInit => PromptOK
<1> SUFFICES ASSUME PromptInit PROVE PromptOK
  OBVIOUS
<1>1. store.active = NoRelease /\ store.previous = NoRelease /\ store.revision = 0
  BY DEF PromptInit, NoPrompt
<1>2. audits = <<>> /\ acknowledged = {} /\ heard = {}
  BY DEF PromptInit
<1>3. op = [t \in Managers |-> NoOp] /\ replay = [t \in Managers |-> NotSwitching]
  BY DEF PromptInit
<1>4. HistoryOK
  BY <1>1, <1>2 DEF HistoryOK, StoreOf
<1>5. OpsOK
  <2>1. \A t \in Managers : op[t] = NoOp
    BY <1>3
  <2>2. op = [t \in Managers |-> op[t]]
    BY <1>3
  <2> QED
    BY <2>1, <2>2, NoOpIs DEF OpsOK
<1>6. ReplaysOK
  <2>1. \A t \in Managers : replay[t] = NotSwitching
    BY <1>3
  <2>2. replay = [t \in Managers |-> replay[t]] /\ Len(audits) \in Nat
    BY <1>2, <1>3
  <2> QED
    BY <2>1, <2>2, IdleReplay DEF ReplaysOK
<1>7. HeardOK
  BY <1>2 DEF HeardOK
<1> QED
  BY <1>4, <1>5, <1>6, <1>7 DEF PromptOK

\* One switch changes, the others stay right.
LEMMA OneOp ==
  ASSUME OpsOK, NEW t \in Managers, NEW o, Put(t, o), OpOK(o, store', audits', heard', shared'),
         \A u \in Managers \ {t} : OpOK(op[u], store', audits', heard', shared')
  PROVE  OpsOK'
<1>1. op = [u \in Managers |-> op[u]]
  BY DEF OpsOK
<1>2. op' = [u \in Managers |-> op'[u]] /\ op'[t] = o /\ \A u \in Managers \ {t} : op'[u] = op[u]
  BY <1>1 DEF Put
<1> QED
  BY <1>2 DEF OpsOK

LEMMA OneReplay ==
  ASSUME ReplaysOK, NEW t \in Managers, NEW r, replay' = [replay EXCEPT ![t] = r],
         ReplayOK(r, Len(audits'), heard'), \A u \in Managers \ {t} : ReplayOK(replay[u], Len(audits'), heard')
  PROVE  ReplaysOK'
<1>1. replay = [u \in Managers |-> replay[u]]
  BY DEF ReplaysOK
<1>2. replay' = [u \in Managers |-> replay'[u]] /\ replay'[t] = r /\ \A u \in Managers \ {t} : replay'[u] = replay[u]
  BY <1>1
<1> QED
  BY <1>2 DEF ReplaysOK

\* What more rows and more rows heard leave right.
LEMMA MoreHeard ==
  ASSUME PromptOK, UNCHANGED <<shared, store, audits>>, heard \subseteq heard'
  PROVE  /\ HistoryOK'
         /\ \A t \in Managers : OpOK(op[t], store', audits', heard', shared')
         /\ \A t \in Managers : ReplayOK(replay[t], Len(audits'), heard')
<1>1. HistoryOK'
  BY DEF PromptOK, HistoryOK
<1>2. \A t \in Managers : OpOK(op[t], store', audits', heard', shared')
  BY DEF PromptOK, OpsOK, OpOK
<1>3. \A t \in Managers : ReplayOK(replay[t], Len(audits'), heard')
  BY DEF PromptOK, ReplaysOK, ReplayOK
<1> QED
  BY <1>1, <1>2, <1>3

LEMMA Quiet ==
  ASSUME PromptOK, NEW t \in Managers, NEW o, Put(t, o), OpOK(o, store, audits, heard, shared),
         UNCHANGED <<shared, store, audits, acknowledged, heard, replay>>
  PROVE  PromptOK'
<1>1. HistoryOK' /\ \A u \in Managers : OpOK(op[u], store', audits', heard', shared')
  BY MoreHeard
<1>2. OpsOK'
  BY <1>1, OneOp DEF PromptOK
<1>3. ReplaysOK' /\ HeardOK'
  BY DEF PromptOK, ReplaysOK, HeardOK
<1> QED
  BY <1>1, <1>2, <1>3 DEF PromptOK

LEMMA StepBegins ==
  ASSUME PromptOK, NEW t \in Managers, NEW a \in Kinds, NEW r \in Releases, SwitchBegins(t, a, r)
  PROVE  PromptOK'
<1> DEFINE o == OpAt(NoOp, "swap")
           p == OpAction(o, a)
           q == OpRelease(p, r)
           z == OpSeen(q, store.revision)
<1>1. Put(t, z) /\ UNCHANGED <<shared, store, audits, acknowledged, heard, replay>>
  BY DEF SwitchBegins, OpAt, OpAction, OpRelease, OpSeen
<1>2. Makes(a, r, store)
  BY DEF SwitchBegins, Makes
<1>3. OpShape(o) /\ o.at = "swap"
  BY NoOpIs, SetOp DEF OpSame
<1> HIDE DEF o
<1>4. OpShape(p) /\ p.at = "swap" /\ p.action = a
  BY <1>3, SetOp DEF OpSame, OpParts
<1> HIDE DEF p
<1>5. OpShape(q) /\ q.at = "swap" /\ q.action = a /\ q.release = r
  BY <1>4, SetOp DEF OpSame, OpParts
<1> HIDE DEF q
<1>6. OpShape(z) /\ z.at = "swap" /\ z.action = a /\ z.release = r /\ z.seen = store.revision
  BY <1>5, SetOp DEF OpSame, OpParts
<1> HIDE DEF z
<1>7. store.revision \in Nat
  BY DEF PromptOK, HistoryOK, StoreOf
<1>8. OpOK(z, store, audits, heard, shared)
  BY <1>2, <1>6, <1>7 DEF OpOK
<1> QED
  BY <1>1, <1>8, Quiet

\* The switch that the store allows extends the history by a row.
LEMMA Extends ==
  ASSUME HistoryOK, NEW a \in Kinds, NEW r \in Releases, Makes(a, r, store), CommitSwitch(a, r)
  PROVE  /\ HistoryOK' /\ Len(audits') = Len(audits) + 1 /\ store'.revision = store.revision + 1
         /\ \A i \in 1..Len(audits) : audits'[i] = audits[i]
         /\ audits'[Len(audits')].active = r /\ audits'[Len(audits')].action = a
<1> DEFINE n == Len(audits)
           row == [action |-> a, active |-> r, previous |-> store.active]
<1>1. audits \in Seq(Row) /\ StoreOf(store, audits) /\ n \in Nat
  BY DEF HistoryOK
<1>2. audits' = Append(audits, row) /\ store' = Switched(a, r)
  BY DEF CommitSwitch
<1>3. row.action = a /\ row.active = r /\ row.previous = store.active /\ row \in Row
  BY <1>1 DEF Row, StoreOf
<1> HIDE DEF row
<1>4. /\ audits' \in Seq(Row) /\ Len(audits') = n + 1 /\ audits'[n + 1] = row
      /\ \A i \in 1..n : audits'[i] = audits[i]
  BY <1>1, <1>2, <1>3
<1>5. /\ store'.active = r /\ store'.revision = store.revision + 1
      /\ store'.previous = IF a = "activate" THEN store.active ELSE NoRelease
  BY <1>2 DEF Switched
<1>6. StoreOf(store', audits')
  <2>1. audits' # <<>>
    BY <1>1, <1>4
  <2> QED
    BY <1>1, <1>3, <1>4, <1>5, <2>1 DEF StoreOf
<1>7. ASSUME NEW i \in 1..n PROVE RowOK(audits', i)
  <2>1. RowOK(audits, i) /\ audits'[i] = audits[i] /\ (i > 1 => audits'[i - 1] = audits[i - 1])
    BY <1>1, <1>4, <1>7 DEF HistoryOK
  <2> QED
    BY <1>1, <2>1 DEF RowOK, Before
<1>8. RowOK(audits', n + 1)
  <2>1. Before(audits', n + 1) = store.active
    <3>1. CASE n = 0
      <4>1. audits = <<>>
        BY <1>1, <3>1
      <4> QED
        BY <1>1, <3>1, <4>1 DEF Before, StoreOf
    <3>2. CASE n # 0
      <4>1. audits # <<>> /\ n \in 1..n /\ (n + 1) - 1 = n /\ n + 1 # 1
        BY <1>1, <3>2
      <4> QED
        BY <1>1, <1>4, <4>1 DEF Before, StoreOf
    <3> QED
      BY <3>1, <3>2
  <2>2. CASE a = "activate"
    BY <1>3, <1>4, <2>1, <2>2 DEF RowOK, Makes
  <2>3. CASE a = "rollback"
    <3>1. r = store.previous /\ r # NoRelease
      BY <2>3, ReleaseAssumption DEF Makes
    <3>2. audits # <<>> /\ n \in 1..n /\ (n + 1) - 1 = n /\ n + 1 > 1
      BY <1>1, <3>1 DEF StoreOf
    <3>3. audits[n].action = "activate" /\ r = audits[n].previous /\ store.active = audits[n].active
      BY <1>1, <3>1, <3>2 DEF StoreOf
    <3>4. audits[n].active # audits[n].previous
      BY <1>1, <3>2 DEF HistoryOK, RowOK
    <3> QED
      BY <1>3, <1>4, <2>1, <3>2, <3>3, <3>4 DEF RowOK
  <2> QED
    BY <2>2, <2>3 DEF Kinds
<1>9. HistoryOK'
  BY <1>1, <1>4, <1>6, <1>7, <1>8 DEF HistoryOK
<1> QED
  BY <1>3, <1>4, <1>5, <1>9

\* What a new row leaves right.
LEMMA OthersRight ==
  ASSUME PromptOK, NEW a \in Kinds, NEW r \in Releases, Makes(a, r, store), CommitSwitch(a, r),
         UNCHANGED <<shared, heard>>
  PROVE  /\ \A t \in Managers : OpOK(op[t], store', audits', heard', shared')
         /\ \A t \in Managers : ReplayOK(replay[t], Len(audits'), heard')
<1>1. /\ HistoryOK' /\ Len(audits') = Len(audits) + 1 /\ store'.revision = store.revision + 1
      /\ \A i \in 1..Len(audits) : audits'[i] = audits[i]
  BY Extends DEF PromptOK
<1>2. Len(audits) \in Nat /\ store.revision = Len(audits)
  BY DEF PromptOK, HistoryOK, StoreOf
<1>3. ASSUME NEW t \in Managers PROVE OpOK(op[t], store', audits', heard', shared')
  <2>1. OpOK(op[t], store, audits, heard, shared)
    BY DEF PromptOK, OpsOK
  <2> QED
    BY <1>1, <1>2, <2>1 DEF OpOK
<1>4. ASSUME NEW t \in Managers PROVE ReplayOK(replay[t], Len(audits'), heard')
  <2>1. ReplayOK(replay[t], Len(audits), heard)
    BY DEF PromptOK, ReplaysOK
  <2>2. replay[t].queue \in Seq(1..Len(audits'))
    BY <1>1, <1>2, <2>1 DEF ReplayOK
  <2> QED
    BY <2>1, <2>2 DEF ReplayOK
<1> QED
  BY <1>3, <1>4

\* A switch is committed, and its manager goes on to emit the row or is gone.
LEMMA Committed ==
  ASSUME PromptOK, NEW t \in Managers, NEW o, Put(t, o), NEW a \in Kinds, NEW r \in Releases, Makes(a, r, store),
         CommitSwitch(a, r), UNCHANGED <<shared, acknowledged, heard, replay>>,
         OpOK(o, store', audits', heard', shared')
  PROVE  PromptOK'
<1>1. HistoryOK' /\ Len(audits') = Len(audits) + 1 /\ Len(audits) \in Nat
  BY Extends DEF PromptOK, HistoryOK
<1>2. OpsOK'
  BY OthersRight, OneOp DEF PromptOK
<1>3. ReplaysOK'
  BY OthersRight DEF PromptOK, ReplaysOK
<1>4. HeardOK'
  BY <1>1 DEF PromptOK, HeardOK
<1> QED
  BY <1>1, <1>2, <1>3, <1>4 DEF PromptOK

LEMMA StepSwap == ASSUME PromptOK, NEW t \in Managers, Swap(t) PROVE PromptOK'
<1> DEFINE o == op[t]
<1>1. /\ o.at = "swap" /\ shared /\ UNCHANGED <<shared, acknowledged, heard, replay>>
      /\ OpOK(o, store, audits, heard, shared)
  BY DEF Swap, PromptOK, OpsOK
<1>2. OpShape(o) /\ o.action \in Kinds /\ o.release \in Releases
  BY <1>1 DEF OpOK
<1>3. Len(audits) \in Nat /\ store.revision = Len(audits)
  BY DEF PromptOK, HistoryOK, StoreOf
<1>4. ASSUME NEW n, n \in 1..Len(audits')
      PROVE  OpOK(OpRev(OpAt(o, "emit"), n), store', audits', heard', shared')
  <2> DEFINE a == OpAt(o, "emit")
             b == OpRev(a, n)
  <2>1. OpShape(a) /\ a.at = "emit" /\ a.action = o.action /\ a.release = o.release
    BY <1>2, SetOp DEF OpSame, OpParts
  <2> HIDE DEF a
  <2>2. OpShape(b) /\ b.at = "emit" /\ b.action = o.action /\ b.release = o.release /\ b.rev = n
    BY <2>1, SetOp DEF OpSame, OpParts
  <2> HIDE DEF b
  <2>3. OpOK(b, store', audits', heard', shared')
    BY <1>1, <1>2, <1>4, <2>2 DEF OpOK
  <2> QED
    BY <2>3 DEF a, b
<1>5. CASE Unchanged(t) /\ CommitSwitch(o.action, o.release)
  <2>1. Makes(o.action, o.release, store)
    BY <1>1, <1>5 DEF OpOK, Unchanged
  <2>2. Len(audits') = Len(audits) + 1
    BY <1>2, <1>5, <2>1, Extends DEF PromptOK
  <2>3. Put(t, OpRev(OpAt(o, "emit"), store.revision + 1)) \/ Put(t, NoOp)
    <3>1. CASE Adopts(t) /\ Put(t, [o EXCEPT !.at = "emit", !.rev = store.revision]) /\ UNCHANGED audits
      BY <1>3, <2>2, <3>1
    <3>2. CASE ~Unchanged(t)
      BY <1>5, <3>2
    <3> QED
      BY <3>1, <3>2 DEF Swap, OpAt, OpRev
  <2>4. OpOK(OpRev(OpAt(o, "emit"), store.revision + 1), store', audits', heard', shared')
    BY <1>3, <1>4, <2>2
  <2> QED
    BY <1>1, <1>2, <1>5, <2>1, <2>3, <2>4, NoOpIs, Committed
<1>6. CASE Adopts(t) /\ Put(t, [o EXCEPT !.at = "emit", !.rev = store.revision]) /\ UNCHANGED <<store, audits>>
  <2>1. Put(t, OpRev(OpAt(o, "emit"), store.revision))
    BY <1>6 DEF OpAt, OpRev
  <2>2. OpOK(OpRev(OpAt(o, "emit"), store.revision), store, audits, heard, shared)
    <3>1. store.revision \in 1..Len(audits')
      BY <1>3, <1>6 DEF Adopts
    <3> QED
      BY <1>1, <1>4, <1>6, <3>1
  <2> QED
    BY <1>1, <1>6, <2>1, <2>2, Quiet
<1>7. CASE Put(t, NoOp) /\ UNCHANGED <<store, audits>>
  BY <1>1, <1>7, NoOpIs, Quiet
<1> QED
  BY <1>5, <1>6, <1>7 DEF Swap

LEMMA StepLocal == ASSUME PromptOK, NEW t \in Managers, SwapLocal(t) PROVE PromptOK'
<1> DEFINE o == op[t]
           r == IF o.action = "activate" THEN o.release ELSE store.previous
<1>1. /\ o.at = "swap" /\ ~shared /\ UNCHANGED <<shared, acknowledged, heard, replay>>
      /\ OpOK(o, store, audits, heard, shared)
  BY DEF SwapLocal, PromptOK, OpsOK
<1>2. OpShape(o) /\ o.action \in Kinds /\ o.release \in Releases
  BY <1>1 DEF OpOK
<1>3. Len(audits) \in Nat /\ store.revision = Len(audits) /\ store.previous \in Releases \cup {NoRelease}
  BY DEF PromptOK, HistoryOK, StoreOf
<1>4. CASE r \in {NoRelease, store.active}
  BY <1>1, <1>4, NoOpIs, Quiet DEF SwapLocal
<1>5. CASE r \notin {NoRelease, store.active}
  <2> DEFINE n == store.revision + 1
             a == OpAt(o, "emit")
             b == OpRelease(a, r)
             c == OpRev(b, n)
  <2>1. CommitSwitch(o.action, r) /\ Put(t, c)
    BY <1>5 DEF SwapLocal, OpAt, OpRelease, OpRev
  <2>2. r \in Releases /\ Makes(o.action, r, store)
    BY <1>2, <1>3, <1>5 DEF Makes, Kinds
  <2> HIDE DEF r
  <2>3. /\ Len(audits') = Len(audits) + 1
        /\ audits'[Len(audits')].active = r /\ audits'[Len(audits')].action = o.action
    BY <1>2, <2>1, <2>2, Extends DEF PromptOK
  <2>4. OpShape(a) /\ a.at = "emit" /\ a.action = o.action
    BY <1>2, SetOp DEF OpSame, OpParts
  <2> HIDE DEF a
  <2>5. OpShape(b) /\ b.at = "emit" /\ b.action = o.action /\ b.release = r
    BY <2>4, SetOp DEF OpSame, OpParts
  <2> HIDE DEF b
  <2>6. OpShape(c) /\ c.at = "emit" /\ c.action = o.action /\ c.release = r /\ c.rev = n
    BY <2>5, SetOp DEF OpSame, OpParts
  <2> HIDE DEF c
  <2>7. OpOK(c, store', audits', heard', shared')
    BY <1>2, <1>3, <2>2, <2>3, <2>6 DEF OpOK
  <2> QED
    BY <1>1, <1>2, <2>1, <2>2, <2>7, Committed
<1> QED
  BY <1>4, <1>5

LEMMA StepEmit == ASSUME PromptOK, NEW t \in Managers, Emit(t) PROVE PromptOK'
<1>1. /\ op[t].at = "emit" /\ UNCHANGED <<shared, store, audits, acknowledged, replay>>
      /\ OpOK(op[t], store, audits, heard, shared)
  BY DEF Emit, PromptOK, OpsOK
<1>2. CASE heard' = heard \cup {op[t].rev} /\ Put(t, [op[t] EXCEPT !.at = "ack"])
  <2> DEFINE o == OpAt(op[t], "ack")
  <2>1. Put(t, o)
    BY <1>2 DEF OpAt
  <2>2. /\ OpShape(o) /\ o.at = "ack" /\ o.action = op[t].action /\ o.release = op[t].release
        /\ o.rev = op[t].rev
    BY <1>1, SetOp DEF OpOK, OpSame, OpParts
  <2> HIDE DEF o
  <2>3. OpOK(o, store', audits', heard', shared')
    BY <1>1, <1>2, <2>2 DEF OpOK
  <2>4. HistoryOK' /\ OpsOK' /\ ReplaysOK'
    BY <1>1, <1>2, <2>1, <2>3, MoreHeard, OneOp DEF PromptOK, ReplaysOK
  <2>5. HeardOK'
    BY <1>1, <1>2 DEF PromptOK, HeardOK, OpOK
  <2> QED
    BY <2>4, <2>5 DEF PromptOK
<1>3. CASE Put(t, NoOp) /\ UNCHANGED heard
  BY <1>1, <1>3, NoOpIs, Quiet
<1> QED
  BY <1>2, <1>3 DEF Emit

\* The row an acknowledgement marks is a row, and over a shared store one heard.
LEMMA MarksRow ==
  ASSUME PromptOK, NEW t \in Managers, op[t].at = "ack"
  PROVE  Marked(op[t]) \in 1..Len(audits) /\ (shared => Marked(op[t]) \in heard)
<1>1. OpOK(op[t], store, audits, heard, shared) /\ Len(audits) \in Nat
  BY DEF PromptOK, OpsOK, HistoryOK
<1>2. CASE shared
  BY <1>1, <1>2 DEF OpOK, Marked
<1>3. CASE ~shared
  <2> DEFINE S == SameKind(op[t])
  <2>1. S \subseteq 1..Len(audits) /\ op[t].rev \in S
    BY <1>1, <1>3 DEF OpOK, SameKind
  <2> HIDE DEF S
  <2>2. \E i \in S : \A j \in S : j <= i
    BY <1>1, <2>1, Greatest
  <2>3. LatestAlike(S) \in S
    BY <2>2 DEF LatestAlike
  <2>4. Marked(op[t]) = LatestAlike(S)
    BY <1>3 DEF Marked, S
  <2> QED
    BY <1>3, <2>1, <2>3, <2>4
<1> QED
  BY <1>2, <1>3

LEMMA StepAcknowledge == ASSUME PromptOK, NEW t \in Managers, Acknowledge(t) PROVE PromptOK'
<1>1. /\ op[t].at = "ack" /\ acknowledged' = acknowledged \cup {Marked(op[t])} /\ Put(t, NoOp)
      /\ UNCHANGED <<shared, store, audits, heard, replay>>
  BY DEF Acknowledge
<1>2. HistoryOK' /\ OpsOK' /\ ReplaysOK'
  BY <1>1, MoreHeard, NoOpIs, OneOp DEF PromptOK, ReplaysOK
<1>3. HeardOK'
  BY <1>1, MarksRow DEF PromptOK, HeardOK
<1> QED
  BY <1>2, <1>3 DEF PromptOK

LEMMA StepDies == ASSUME PromptOK, NEW t \in Managers, Dies(t) PROVE PromptOK'
<1>1. /\ Put(t, NoOp) /\ replay' = [replay EXCEPT ![t] = NotSwitching]
      /\ UNCHANGED <<shared, store, audits, acknowledged, heard>> /\ Len(audits) \in Nat
  BY DEF Dies, PromptOK, HistoryOK
<1>2. HistoryOK' /\ OpsOK' /\ ReplaysOK'
  BY <1>1, MoreHeard, NoOpIs, OneOp, IdleReplay, OneReplay DEF PromptOK
<1>3. HeardOK'
  BY <1>1 DEF PromptOK, HeardOK
<1> QED
  BY <1>2, <1>3 DEF PromptOK

\* A recovery thread moves, and hears no row or one more.
LEMMA ReplayStep ==
  ASSUME PromptOK, NEW t \in Managers, NEW r, replay' = [replay EXCEPT ![t] = r],
         UNCHANGED <<shared, store, audits, op>>, heard \subseteq heard', HeardOK',
         ReplayOK(r, Len(audits), heard')
  PROVE  PromptOK'
<1>1. /\ HistoryOK' /\ \A u \in Managers : OpOK(op[u], store', audits', heard', shared')
      /\ \A u \in Managers : ReplayOK(replay[u], Len(audits'), heard')
  BY MoreHeard
<1>2. OpsOK'
  BY <1>1 DEF PromptOK, OpsOK
<1>3. ReplaysOK'
  BY <1>1, OneReplay DEF PromptOK
<1> QED
  BY <1>1, <1>2, <1>3 DEF PromptOK

LEMMA StopsRight ==
  ASSUME PromptOK, NEW t \in Managers, replay[t].at # "idle"
  PROVE  ReplayOK(ReplayStops(t), Len(audits), heard) /\ Head(replay[t].queue) \in 1..Len(audits)
<1>1. ReplayOK(replay[t], Len(audits), heard) /\ Len(audits) \in Nat
  BY DEF PromptOK, ReplaysOK, HistoryOK
<1>2. PICK q : q = replay[t].queue
  OBVIOUS
<1>3. q \in Seq(1..Len(audits)) /\ q # <<>>
  BY <1>1, <1>2 DEF ReplayOK
<1>4. Tail(q) \in Seq(1..Len(audits)) /\ Head(q) \in 1..Len(audits)
  BY <1>1, <1>3
<1>5. CASE Tail(q) = <<>>
  BY <1>1, <1>2, <1>4, <1>5, IdleReplay DEF ReplayStops
<1>6. CASE Tail(q) # <<>>
  <2> DEFINE r == [at |-> "deliver", queue |-> Tail(q)]
  <2>1. ReplayStops(t) = r
    BY <1>2, <1>6 DEF ReplayStops
  <2>2. r = [f \in {"at", "queue"} |-> r[f]] /\ r.at = "deliver" /\ r.queue = Tail(q)
    OBVIOUS
  <2> HIDE DEF r
  <2>3. ReplayOK(r, Len(audits), heard)
    BY <1>4, <1>6, <2>2 DEF ReplayOK
  <2> QED
    BY <1>2, <1>4, <2>1, <2>3
<1> QED
  BY <1>5, <1>6

LEMMA StepStarts == ASSUME PromptOK, NEW t \in Managers, ReplayStarts(t) PROVE PromptOK'
<1>1. /\ UNCHANGED <<shared, store, audits, acknowledged, heard, op>> /\ PendingAudits # {}
      /\ \E q \in InOrderOf(PendingAudits) : replay' = [replay EXCEPT ![t] = [at |-> "deliver", queue |-> q]]
  BY DEF ReplayStarts
<1>2. PICK q \in InOrderOf(PendingAudits) : replay' = [replay EXCEPT ![t] = [at |-> "deliver", queue |-> q]]
  BY <1>1
<1>3. Len(audits) \in Nat
  BY DEF PromptOK, HistoryOK
<1>4. PICK k : k = Cardinality(PendingAudits)
  OBVIOUS
<1>5. k \in Nat /\ k # 0
  <2>1. IsFiniteSet(1..Len(audits))
    BY <1>3, FS_Interval
  <2>2. IsFiniteSet(PendingAudits)
    BY <2>1, FS_Subset DEF PendingAudits
  <2> QED
    BY <1>1, <1>4, <2>2, FS_CardinalityType, FS_EmptySet
<1>6. q \in [1..k -> 1..Len(audits)]
  BY <1>2, <1>4 DEF InOrderOf, PendingAudits
<1>7. q \in Seq(1..Len(audits)) /\ q # <<>>
  BY <1>3, <1>5, <1>6
<1> DEFINE r == [at |-> "deliver", queue |-> q]
<1>8. r = [f \in {"at", "queue"} |-> r[f]] /\ r.at = "deliver" /\ r.queue = q
  OBVIOUS
<1>9. replay' = [replay EXCEPT ![t] = r]
  BY <1>2
<1> HIDE DEF r
<1>10. ReplayOK(r, Len(audits), heard')
  BY <1>7, <1>8 DEF ReplayOK
<1>11. HeardOK'
  BY <1>1 DEF PromptOK, HeardOK
<1> QED
  BY <1>1, <1>9, <1>10, <1>11, ReplayStep

LEMMA StepDelivers == ASSUME PromptOK, NEW t \in Managers, ReplayDelivers(t) PROVE PromptOK'
<1> DEFINE rev == Head(replay[t].queue)
<1>1. replay[t].at = "deliver" /\ UNCHANGED <<shared, store, audits, acknowledged, op>>
  BY DEF ReplayDelivers
<1>2. /\ ReplayOK(ReplayStops(t), Len(audits), heard) /\ rev \in 1..Len(audits)
      /\ ReplayOK(replay[t], Len(audits), heard) /\ Len(audits) \in Nat
  BY <1>1, StopsRight DEF PromptOK, ReplaysOK, HistoryOK
<1>3. CASE replay' = [replay EXCEPT ![t] = NotSwitching] /\ UNCHANGED heard
  <2>1. HeardOK'
    BY <1>1, <1>3 DEF PromptOK, HeardOK
  <2> QED
    BY <1>1, <1>2, <1>3, <2>1, IdleReplay, ReplayStep
<1>4. CASE heard' = heard \cup {rev} /\ replay' = [replay EXCEPT ![t].at = "ack"]
  <2>1. HeardOK'
    BY <1>1, <1>2, <1>4 DEF PromptOK, HeardOK
  <2> DEFINE r == [replay[t] EXCEPT !.at = "ack"]
  <2>2. replay' = [replay EXCEPT ![t] = r]
    BY <1>4
  <2>3. r = [f \in {"at", "queue"} |-> r[f]] /\ r.at = "ack" /\ r.queue = replay[t].queue
    <3>1. replay[t] = [f \in {"at", "queue"} |-> replay[t][f]]
      BY <1>2 DEF ReplayOK
    <3> QED
      BY <3>1
  <2> HIDE DEF r
  <2>4. ReplayOK(r, Len(audits), heard')
    BY <1>1, <1>2, <1>4, <2>3 DEF ReplayOK
  <2> QED
    BY <1>1, <1>4, <2>1, <2>2, <2>4, ReplayStep
<1>5. CASE replay' = [replay EXCEPT ![t] = ReplayStops(t)] /\ UNCHANGED heard
  <2>1. HeardOK'
    BY <1>1, <1>5 DEF PromptOK, HeardOK
  <2> QED
    BY <1>1, <1>2, <1>5, <2>1, ReplayStep
<1> QED
  BY <1>3, <1>4, <1>5 DEF ReplayDelivers

LEMMA StepReplayAck == ASSUME PromptOK, NEW t \in Managers, ReplayAcknowledges(t) PROVE PromptOK'
<1>1. /\ replay[t].at = "ack" /\ acknowledged' = acknowledged \cup {Head(replay[t].queue)}
      /\ replay' = [replay EXCEPT ![t] = ReplayStops(t)]
      /\ UNCHANGED <<shared, store, audits, heard, op>>
  BY DEF ReplayAcknowledges
<1>2. /\ ReplayOK(ReplayStops(t), Len(audits), heard) /\ Head(replay[t].queue) \in 1..Len(audits)
      /\ Head(replay[t].queue) \in heard
  BY <1>1, StopsRight DEF PromptOK, ReplaysOK, ReplayOK
<1>3. HeardOK'
  BY <1>1, <1>2 DEF PromptOK, HeardOK
<1> QED
  BY <1>1, <1>2, <1>3, ReplayStep

LEMMA NextPrompt == ASSUME PromptOK, PromptNext PROVE PromptOK'
<1>1. PICK t \in Managers :
        \/ \E r \in Releases, a \in {"activate", "rollback"} : SwitchBegins(t, a, r)
        \/ Swap(t) \/ SwapLocal(t) \/ Emit(t) \/ Acknowledge(t) \/ Dies(t) \/ Recovery(t)
  BY DEF PromptNext
<1>2. CASE \E r \in Releases, a \in {"activate", "rollback"} : SwitchBegins(t, a, r)
  BY <1>2, StepBegins DEF Kinds
<1>3. CASE Recovery(t)
  BY <1>3, StepStarts, StepDelivers, StepReplayAck DEF Recovery
<1> QED
  BY <1>1, <1>2, <1>3, StepSwap, StepLocal, StepEmit, StepAcknowledge, StepDies

LEMMA PromptSafe == PromptOK => PromptTypeOK /\ OneHistory /\ NeverUnheard
<1> SUFFICES ASSUME PromptOK PROVE PromptTypeOK /\ OneHistory /\ NeverUnheard
  OBVIOUS
<1>1. PromptTypeOK
  <2>1. \A t \in Managers : op[t].at \in {"idle", "swap", "emit", "ack"}
    BY DEF PromptOK, OpsOK, OpOK
  <2>2. \A t \in Managers : replay[t].at \in {"idle", "deliver", "ack"}
    BY DEF PromptOK, ReplaysOK, ReplayOK
  <2> QED
    BY <2>1, <2>2 DEF PromptOK, HistoryOK, StoreOf, HeardOK, PromptTypeOK
<1>2. OneHistory
  BY DEF PromptOK, HistoryOK, StoreOf, RowOK, Before, OneHistory
<1>3. NeverUnheard
  BY DEF PromptOK, HeardOK, NeverUnheard
<1> QED
  BY <1>1, <1>2, <1>3

-----------------------------------------------------------------------------
StoresOK == CommitInv /\ MemoryOK /\ PromotionTypeOK /\ PromptOK

LEMMA InitStores == StoresInit => StoresOK
  BY InitCommit, InitMemory, InitPromotion, InitPrompt DEF StoresInit, StoresOK

\* A component that does not run stays as it is.
LEMMA CommitRests == ASSUME CommitInv, UNCHANGED commit PROVE CommitInv'
  BY DEF commit, CommitInv, AppsOK, ArmedOK, KernelOK, JournalOK, RecordsOK
LEMMA MemoryRests == ASSUME MemoryOK, UNCHANGED memory PROVE MemoryOK'
<1>1. UNCHANGED <<life, due, graced, fresh, outbox, finished, removed, worker>>
  BY DEF memory
<1>2. due' \subseteq Records /\ graced' \subseteq Records /\ LifeOK'
  BY <1>1, LifeKept DEF MemoryOK, QueueOK
<1> QED
  BY <1>1, <1>2, QueueRests DEF Stored
LEMMA PromotionRests == ASSUME PromotionTypeOK, UNCHANGED promotionVars PROVE PromotionTypeOK'
  BY DEF promotionVars, PromotionTypeOK
LEMMA PromptRests == ASSUME PromptOK, UNCHANGED prompts PROVE PromptOK'
  BY DEF prompts, PromptOK, HistoryOK, OpsOK, ReplaysOK, HeardOK

LEMMA NextStores == StoresOK /\ [StoresNext]_stores => StoresOK'
<1> SUFFICES ASSUME StoresOK, [StoresNext]_stores PROVE StoresOK'
  OBVIOUS
<1>1. CommitInv'
  <2>1. CommitNext \/ UNCHANGED commit
    BY DEF StoresNext, stores
  <2> QED
    BY <2>1, NextCommit, CommitRests DEF StoresOK
<1>2. MemoryOK'
  <2>1. MemoryNext \/ UNCHANGED memory
    BY DEF StoresNext, stores
  <2> QED
    BY <2>1, NextMemory, MemoryRests DEF StoresOK
<1>3. PromotionTypeOK'
  <2>1. PromotionNext \/ UNCHANGED promotionVars
    BY DEF StoresNext, stores
  <2> QED
    BY <2>1, NextPromotion, PromotionRests DEF StoresOK
<1>4. PromptOK'
  <2>1. PromptNext \/ UNCHANGED prompts
    BY DEF StoresNext, stores
  <2> QED
    BY <2>1, NextPrompt, PromptRests DEF StoresOK
<1> QED
  BY <1>1, <1>2, <1>3, <1>4 DEF StoresOK

(* What the stores keep is sound, for every number of executions, workers, *)
(* records, promoters and managers.  Whatever executions overlap, die or   *)
(* lose their lease between two steps, the journal holds the result the    *)
(* kernel accepted and memory holds records of the one proof bound to it   *)
(* (HarnessWorkflowApplication.execute, bind_proof).  However appends,     *)
(* activations and the plans of lifecycle workers interleave, a stored     *)
(* record keeps what it rests on, one revision of a rule is active, and no *)
(* queued deletion takes the artifact of a stored event (apply_lifecycle,  *)
(* which judges each planned move again).  Whatever managers race, the     *)
(* audit rows are one history, and over a shared store a row marked        *)
(* delivered was heard (compare_and_swap, acknowledge_audit).              *)
THEOREM StoresKept == StoresSpec => []StoresSound
<1>1. StoresOK => StoresSound
  BY CommitSafe, MemorySafe, PromptSafe DEF StoresOK, StoresSound
<1> QED
  BY <1>1, InitStores, NextStores, PTL DEF StoresSpec
=============================================================================
