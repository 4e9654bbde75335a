------------------------- MODULE PublicationProofs -------------------------
(***************************************************************************)
(* Proofs about the publication of a release, for every value of the      *)
(* constants. First ReleaseQualify: what is published was checked in its   *)
(* own attempt, what a later run takes over was published, and what is     *)
(* skipped is replaced. Then ReleasePublish: the transaction works with    *)
(* one draft, its own, its readback misses none, it makes public exactly   *)
(* the staged files, and it does nothing that ReleaseLedger does not.      *)
(***************************************************************************)
EXTENDS ReleaseQualify, ReleasePublish, FiniteSetTheorems, SequenceTheorems, TLAPS

-----------------------------------------------------------------------------
(* ReleaseQualify: the candidate, its run and the later run.               *)


Releases == [public : BOOLEAN, tag : BOOLEAN, bytes : 0..MaxAttempts, bytesId : Nat,
             manifest : Manifest \cup {NoManifest}, manifestId : Nat]

StatesTyped ==
  /\ QualifyTypeOK
  /\ release \in Releases /\ snap \in Releases
  /\ manifest \in Manifest \cup {NoManifest} /\ stamp \in Nat

-----------------------------------------------------------------------------
\* The jobs.

\* A job that has a result was executed by an attempt that there has been.
RanInv == \A j \in Jobs : Done(j) => job[j].ran \in 1..attempt

\* The gate passes only after the jobs that it stands for.
GateInv == Passed("gate") => Passed("prepare") /\ Passed("checks") /\ Passed("build")

\* The publisher that has got past the metadata.
Deciding == {"asking", "collecting", "confirming", "publishing", "storing", "comparing",
             "rereading"}

Checks == {"prepare", "checks", "build", "gate"}

\* Behind it, this attempt has executed what it publishes: no job is run
\* again while the publisher is running.
DecidingInv == publisher \in Deciding => \A j \in Checks : Passed(j) /\ job[j].ran = attempt

\* What is about to become evidence is published.
StoringInv == publisher = "storing" => attempt \in published

JobsInv == RanInv /\ GateInv /\ DecidingInv /\ StoringInv

\* A head that is to be read again is not the run's own commit, and has it behind
\* it and a run of its own: neither is ever taken back.
SeenInv ==
  /\ publisher \in {"comparing", "rereading"} => seen # 0
  /\ publisher = "rereading" => seen \in ahead /\ seen \in pushed

-----------------------------------------------------------------------------
\* The later run.

\* Evidence is about published bytes.
EvidenceInv == \A m \in evidence : m.bytes \in published

\* A manifest that agrees with the evidence names published bytes, ...
ManifestInv == step \in {"download", "compare", "rerun", "accept"} =>
                 manifest.bytes \in published

\* ... a nightly has listed the bytes of its manifest, ...
ListedInv == goal = "reuse" /\ step \in {"run", "evidence"} => snap.bytes = manifest.bytes

\* ... and what is held in the end are the manifest's bytes.
GotInv == step \in {"compare", "rerun", "accept"} => got = manifest.bytes

LaterInv == EvidenceInv /\ ManifestInv /\ ListedInv /\ GotInv /\ OnlyQualifiedBytes

QualifyInv == StatesTyped /\ JobsInv /\ LaterInv /\ SeenInv

-----------------------------------------------------------------------------
(* Types.                                                                  *)

JobStates == [result : {"none", "success", "failure"}, ran : 0..MaxAttempts]

LEMMA NothingTyped ==
  NotRun \in JobStates /\ NoRelease \in Releases /\ NoManifest \in Manifest \cup {NoManifest}
  BY BoundsAssumption DEF NotRun, JobStates, NoRelease, Releases

\* A job gets its result from the attempt; the others keep theirs.
LEMMA FinishFacts ==
  ASSUME StatesTyped, NEW j \in Jobs, NEW r \in {"none", "success", "failure"}, Finish(j, r)
  PROVE  /\ job' \in [Jobs -> JobStates]
         /\ job'[j] = [result |-> r, ran |-> attempt]
         /\ \A k \in Jobs \ {j} : job'[k] = job[k]
<1>1. attempt \in 0..MaxAttempts /\ job \in [Jobs -> JobStates]
  BY BoundsAssumption DEF StatesTyped, QualifyTypeOK, Attempts, JobStates
<1>2. [result |-> r, ran |-> attempt] \in JobStates
  BY <1>1 DEF JobStates
<1>3. job' = [job EXCEPT ![j] = [result |-> r, ran |-> attempt]]
  BY DEF Finish
<1> QED BY <1>1, <1>2, <1>3

LEMMA InitTyped == QualifyInit => StatesTyped
<1> SUFFICES ASSUME QualifyInit PROVE StatesTyped
  OBVIOUS
<1>1. job \in [Jobs -> JobStates]
  BY NothingTyped DEF QualifyInit
<1>2. 1 \in Attempts /\ 0 \in 0..MaxWait /\ 0 \in 0..MaxAttempts
  BY BoundsAssumption DEF Attempts
<1>3. QualifyTypeOK
  BY <1>1, <1>2 DEF QualifyInit, QualifyTypeOK, JobStates
<1> QED BY <1>3, NothingTyped DEF QualifyInit, StatesTyped

\* What the publisher and its jobs do.
LEMMA CandidateTyped ==
  ASSUME StatesTyped, CandidateNext \/ PublisherFails \/ CatchUp
  PROVE  StatesTyped'
<1> USE BoundsAssumption
<1>1. /\ UNCHANGED <<kind, attempt, branch, reviewers, later, changes>>
      /\ publisher' \in {"off", "waiting", "asking", "collecting", "confirming", "publishing",
                        "storing", "comparing", "rereading"}
      /\ seen' \in {seen, head}
      /\ outcome' \in {"none", "failed", "superseded", "published"}
      /\ lag' \in BOOLEAN
      /\ \/ UNCHANGED job
         \/ \E j \in Jobs, r \in {"success", "failure"} : Finish(j, r)
  <2>1. publisher \in {"off", "waiting", "asking", "collecting", "confirming", "publishing",
                        "storing", "comparing", "rereading"}
        /\ outcome \in {"none", "failed", "superseded", "published"} /\ lag \in BOOLEAN
    BY DEF StatesTyped, QualifyTypeOK
  <2>2. CASE (\E j \in {"prepare", "checks", "build"} : RunJob(j)) \/ RunGate \/ CatchUp
    BY <2>1, <2>2 DEF RunJob, RunGate, CatchUp, Jobs
  <2>3. CASE Start \/ WaitForRun \/ Collect
    BY <2>1, <2>3 DEF Start, WaitForRun, Collect, Leave, Jobs
  <2>4. CASE ReadHead("asking", "collecting") \/ ReadHead("confirming", "publishing")
    BY <2>1, <2>4 DEF ReadHead, Superseded
  <2>5. CASE CompareHead \/ RereadHead
    BY <2>1, <2>5 DEF CompareHead, RereadHead, Leave, Jobs
  <2>6. CASE PublishCandidate \/ StoreEvidence \/ PublisherFails
    BY <2>1, <2>6 DEF PublishCandidate, StoreEvidence, PublisherFails, Leave, Jobs
  <2> QED BY <2>2, <2>3, <2>4, <2>5, <2>6 DEF CandidateNext
<1>2. job' \in [Jobs -> JobStates]
  BY <1>1, FinishFacts DEF StatesTyped, QualifyTypeOK, JobStates
<1>3. waited' \in 0..MaxWait
  BY DEF CandidateNext, RunJob, RunGate, Start, WaitForRun, Collect, ReadHead, CompareHead, RereadHead,
         PublishCandidate, StoreEvidence, PublisherFails, CatchUp, StatesTyped,
         QualifyTypeOK
<1>4. /\ release' \in Releases /\ evidence' \subseteq Manifest
      /\ stamp' \in Nat /\ published' \subseteq Attempts
  <2>1. CASE UNCHANGED store
    BY <2>1 DEF store, StatesTyped, QualifyTypeOK
  <2>2. attempt \in Attempts /\ attempt \in 0..MaxAttempts
        /\ [attempt |-> attempt, bytes |-> attempt] \in Manifest
    BY DEF StatesTyped, QualifyTypeOK, Attempts, Manifest
  <2>3. CASE PublishCandidate
    <3>1. /\ release' = [public |-> TRUE, tag |-> TRUE, bytes |-> attempt,
                         bytesId |-> stamp + 1,
                         manifest |-> [attempt |-> attempt, bytes |-> attempt],
                         manifestId |-> stamp + 2]
          /\ stamp' = stamp + 2 /\ published' = published \cup {attempt}
          /\ evidence' = evidence
      BY <2>3 DEF PublishCandidate
    <3>2. release' \in Releases
      BY <2>2, <3>1 DEF Releases, StatesTyped
    <3> QED BY <2>2, <3>1, <3>2 DEF StatesTyped, QualifyTypeOK
  <2>4. CASE StoreEvidence
    BY <2>2, <2>4 DEF StoreEvidence, StatesTyped, QualifyTypeOK
  <2> QED
    BY <2>1, <2>3, <2>4
    DEF CandidateNext, RunJob, RunGate, Start, WaitForRun, Collect, ReadHead, CompareHead, RereadHead,
        PublisherFails, CatchUp
<1> QED
  BY <1>1, <1>2, <1>3, <1>4 DEF branch, later, StatesTyped, QualifyTypeOK, JobStates

\* What the later run does.
LaterNext == VerifiedRc \/ Promote \/ Reuse \/ Refuse

LEMMA LaterTyped ==
  ASSUME StatesTyped, LaterNext
  PROVE  StatesTyped'
<1>1. /\ UNCHANGED <<kind, candidate, branch, reviewers, goal, store, changes>>
      /\ step' \in {"off", "snapshot", "manifest", "run", "evidence", "download", "compare",
                    "rerun", "accept", "end"}
  BY DEF LaterNext, VerifiedRc, Promote, Reuse, Verification, Begin, Refuse, Snapshot,
         ReadManifest, CheckRun, VerifyEvidence, Download, SnapshotAgain, Accept, To,
         StatesTyped, QualifyTypeOK
<1>2. /\ snap' \in {snap, release} /\ manifest' \in {manifest, release.manifest}
      /\ got' \in {got, snap.bytes, release.bytes} /\ result' \in {result, got}
  BY DEF LaterNext, VerifiedRc, Promote, Reuse, Verification, Begin, Refuse, Snapshot,
         ReadManifest, CheckRun, VerifyEvidence, Download, SnapshotAgain, Accept
<1>3. \A r \in Releases :
        r.manifest \in Manifest \cup {NoManifest} /\ r.bytes \in 0..MaxAttempts
  BY DEF Releases
<1>4. /\ snap' \in Releases /\ manifest' \in Manifest \cup {NoManifest}
      /\ got' \in 0..MaxAttempts /\ result' \in 0..MaxAttempts
  BY <1>2, <1>3 DEF StatesTyped, QualifyTypeOK
<1> QED
  BY <1>1, <1>4 DEF candidate, branch, store, StatesTyped, QualifyTypeOK

\* Some jobs are run again, and with a job those that need its results.
LEMMA RerunJobs ==
  ASSUME Rerun
  PROVE  \E again \in SUBSET Jobs :
           /\ job' = [j \in Jobs |-> IF j \in again THEN NotRun ELSE job[j]]
           /\ "gate" \notin again => {"prepare", "checks", "build"} \cap again = {}
<1>1. PICK js \in SUBSET Jobs :
        job' = [j \in Jobs |->
                  IF j \in WithDependents(WithDependents(js)) THEN NotRun ELSE job[j]]
  BY DEF Rerun
<1> DEFINE again == Jobs \cap WithDependents(WithDependents(js))
<1>2. job' = [j \in Jobs |-> IF j \in again THEN NotRun ELSE job[j]]
  BY <1>1
<1>3. {"prepare", "checks", "build"} \subseteq Needs["gate"] /\ "gate" \in Jobs
      /\ \A j \in {"prepare", "checks", "build"} : Needs[j] \subseteq {"prepare"}
  BY DEF Needs, Jobs
<1>4. ASSUME "gate" \notin again, NEW j \in {"prepare", "checks", "build"} \cap again
      PROVE  FALSE
  <2>1. "gate" \notin WithDependents(js) /\ Needs["gate"] \cap WithDependents(js) = {}
    BY <1>3, <1>4 DEF WithDependents
  <2>2. j \notin WithDependents(js)
    BY <1>3, <2>1
  <2> QED BY <1>3, <1>4, <2>1, <2>2 DEF WithDependents
<1> QED BY <1>2, <1>4

\* What people do.
People == Rerun \/ ChangeRelease \/ Expire \/ Push \/ ChangeReviewers

LEMMA ChangedRelease ==
  ASSUME StatesTyped, ChangeRelease
  PROVE  release' \in Releases /\ stamp' \in Nat
<1>1. /\ stamp \in Nat /\ stamp + 1 \in Nat /\ release \in Releases
  BY DEF StatesTyped
<1>2. stamp' = stamp + 1
  BY DEF ChangeRelease
<1>3. \A b \in 0..MaxAttempts :
        [release EXCEPT !.bytes = b, !.bytesId = stamp + 1] \in Releases
  BY <1>1 DEF Releases
<1>4. \A m \in Manifest :
        [release EXCEPT !.manifest = m, !.manifestId = stamp + 1] \in Releases
  BY <1>1 DEF Releases
<1>5. [release EXCEPT !.public = ~ @] \in Releases /\ [release EXCEPT !.tag = ~ @] \in Releases
  BY <1>1 DEF Releases
<1> QED BY <1>1, <1>2, <1>3, <1>4, <1>5, NothingTyped DEF ChangeRelease

LEMMA PeopleTyped ==
  ASSUME StatesTyped, People
  PROVE  StatesTyped'
<1> USE BoundsAssumption
<1>1. CASE Rerun
  <2>1. /\ attempt' = attempt + 1 /\ attempt < MaxAttempts
        /\ lag' \in BOOLEAN /\ outcome' = "none"
        /\ UNCHANGED <<kind, publisher, waited, seen, branch, reviewers, later, store>>
    BY <1>1 DEF Rerun
  <2>2. attempt' \in Attempts
    BY <2>1 DEF StatesTyped, QualifyTypeOK, Attempts
  <2>3. job' \in [Jobs -> JobStates]
    <3>1. job \in [Jobs -> JobStates]
      BY DEF StatesTyped, QualifyTypeOK, JobStates
    <3>2. PICK again \in SUBSET Jobs :
            job' = [j \in Jobs |-> IF j \in again THEN NotRun ELSE job[j]]
      BY <1>1, RerunJobs
    <3> QED BY <3>1, <3>2, NothingTyped
  <2> QED BY <2>1, <2>2, <2>3 DEF branch, later, store, StatesTyped, QualifyTypeOK, JobStates
<1>2. CASE ChangeRelease
  <2>1. UNCHANGED <<kind, candidate, branch, reviewers, later, evidence, published>>
    BY <1>2 DEF ChangeRelease
  <2>2. release' \in Releases /\ stamp' \in Nat
    BY <1>2, ChangedRelease
  <2> QED BY <2>1, <2>2 DEF candidate, branch, later, StatesTyped, QualifyTypeOK
<1>3. CASE Expire
  BY <1>3 DEF Expire, candidate, branch, later, StatesTyped, QualifyTypeOK
<1>4. CASE Push
  <2>1. /\ head' = head + 1
        /\ pushed' = pushed \/ pushed' = pushed \cup {head + 1}
        /\ UNCHANGED <<kind, candidate, reviewers, later, store>>
    BY <1>4 DEF Push
  <2>2. ahead' = ahead \/ ahead' = ahead \cup {head + 1}
    BY <1>4 DEF Push
  <2>3. head' \in Nat /\ pushed' \subseteq Nat /\ ahead' \subseteq Nat
    <3>1. pushed \subseteq Nat /\ ahead \subseteq Nat /\ head + 1 \in Nat
      BY DEF StatesTyped, QualifyTypeOK
    <3> QED BY <2>1, <2>2, <3>1
  <2> QED BY <2>1, <2>3 DEF candidate, later, store, StatesTyped, QualifyTypeOK
<1>5. CASE ChangeReviewers
  BY <1>5 DEF ChangeReviewers, candidate, branch, later, store, StatesTyped, QualifyTypeOK
<1> QED BY <1>1, <1>2, <1>3, <1>4, <1>5 DEF People

LEMMA NextCases ==
  QualifyNext <=> CandidateNext \/ PublisherFails \/ CatchUp \/ LaterNext \/ People
  BY DEF QualifyNext, LaterNext, People

-----------------------------------------------------------------------------
(* The jobs of the attempt.                                                *)

\* With the jobs as they are, the publisher moves on for a reason.
LEMMA SameJobs ==
  ASSUME JobsInv, UNCHANGED <<attempt, job>>, published \subseteq published',
         publisher' \in Deciding => \A j \in Checks : Passed(j) /\ job[j].ran = attempt,
         publisher' = "storing" => attempt \in published'
  PROVE  JobsInv'
  BY DEF JobsInv, RanInv, GateInv, DecidingInv, StoringInv, Done, Passed

\* A job gets a result that it did not have, or it is the publisher's own.
LEMMA FinishedJob ==
  ASSUME StatesTyped, JobsInv, NEW j \in Jobs, NEW r \in {"success", "failure"}, Finish(j, r),
         UNCHANGED <<attempt, published>>,
         \/ j = "candidate" /\ publisher' = "off"
         \/ j # "candidate" /\ ~ Done(j) /\ publisher' = publisher,
         j = "gate" /\ r = "success" => Passed("prepare") /\ Passed("checks") /\ Passed("build")
  PROVE  JobsInv'
<1>1. /\ job'[j] = [result |-> r, ran |-> attempt]
      /\ \A k \in Jobs \ {j} : job'[k] = job[k]
  BY FinishFacts
<1>2. attempt \in Nat /\ attempt \in 1..attempt
  BY BoundsAssumption DEF StatesTyped, QualifyTypeOK, Attempts
<1>3. RanInv'
  BY <1>1, <1>2 DEF JobsInv, RanInv, Done
<1>4. ~ Done(j) => \A k \in Jobs : Passed(k) => k # j
  BY DEF Done, Passed
<1>5. GateInv'
  <2>1. SUFFICES ASSUME Passed("gate")'
                 PROVE  (Passed("prepare") /\ Passed("checks") /\ Passed("build"))'
    BY DEF GateInv
  <2>2. Passed("prepare") /\ Passed("checks") /\ Passed("build")
    BY <1>1, <2>1 DEF JobsInv, GateInv, Passed, Jobs
  <2>3. j \notin {"prepare", "checks", "build"}
    BY <1>4, <2>2 DEF Jobs
  <2> QED BY <1>1, <2>2, <2>3 DEF Passed, Jobs
<1>6. DecidingInv'
  <2>1. SUFFICES ASSUME publisher' \in Deciding, NEW k \in Checks
                 PROVE  (Passed(k) /\ job[k].ran = attempt)'
    BY DEF DecidingInv
  <2>2. publisher' = publisher /\ ~ Done(j)
    BY <2>1 DEF Deciding
  <2>3. Passed(k) /\ job[k].ran = attempt /\ k \in Jobs
    BY <2>1, <2>2 DEF JobsInv, DecidingInv, Checks, Jobs
  <2>4. k # j
    BY <1>4, <2>2, <2>3
  <2> QED BY <1>1, <2>3, <2>4 DEF Passed
<1>7. StoringInv'
  BY DEF JobsInv, StoringInv
<1> QED BY <1>3, <1>5, <1>6, <1>7 DEF JobsInv

\* A gate that passed in this attempt stands for jobs of this attempt.
LEMMA FreshJobs ==
  ASSUME StatesTyped, JobsInv, GateReady
  PROVE  \A j \in Checks : Passed(j) /\ job[j].ran = attempt
<1> SUFFICES ASSUME NEW j \in Checks PROVE Passed(j) /\ job[j].ran = attempt
  OBVIOUS
<1>1. Passed(j) /\ Done(j) /\ j \in Jobs
  BY DEF GateReady, JobsInv, GateInv, Checks, Passed, Done, Jobs
<1>2. job[j].ran \in 1..attempt
  BY <1>1 DEF JobsInv, RanInv
<1>3. attempt = 1 \/ job[j].ran = attempt
  BY <1>1 DEF GateReady, Fresh
<1> QED BY <1>1, <1>2, <1>3

LEMMA LeaveKeeps ==
  ASSUME StatesTyped, JobsInv, NEW how \in {"failed", "superseded", "published"}, Leave(how),
         UNCHANGED <<attempt, published>>
  PROVE  JobsInv'
<1>1. PICK r \in {"success", "failure"} : Finish("candidate", r)
  BY DEF Leave
<1>2. publisher' = "off" /\ "candidate" \in Jobs
  BY DEF Leave, Jobs
<1> QED BY <1>1, <1>2, FinishedJob

\* The publisher and its jobs keep the invariant of the jobs.
LEMMA CandidateKeeps ==
  ASSUME StatesTyped, JobsInv, CandidateNext \/ PublisherFails \/ CatchUp
  PROVE  JobsInv'
<1>1. ASSUME NEW j \in {"prepare", "checks", "build"}, RunJob(j) PROVE JobsInv'
  <2>1. /\ ~ Done(j) /\ publisher' = publisher /\ UNCHANGED <<attempt, published>>
        /\ \E r \in {"success", "failure"} : Finish(j, r)
    BY <1>1 DEF RunJob, store
  <2>2. j \in Jobs /\ j # "gate" /\ j # "candidate"
    BY DEF Jobs
  <2> QED BY <2>1, <2>2, FinishedJob
<1>2. CASE RunGate
  <2>1. /\ ~ Done("gate") /\ publisher' = publisher /\ UNCHANGED <<attempt, published>>
        /\ Passed("prepare")
        /\ Finish("gate", IF Passed("checks") /\ Passed("build") THEN "success" ELSE "failure")
    BY <1>2 DEF RunGate, store
  <2>2. "gate" \in Jobs
    BY DEF Jobs
  <2>3. CASE Passed("checks") /\ Passed("build")
    BY <2>1, <2>2, <2>3, FinishedJob
  <2>4. CASE ~ (Passed("checks") /\ Passed("build"))
    <3>1. Finish("gate", "failure")
      BY <2>1, <2>4
    <3> QED BY <2>1, <2>2, <3>1, FinishedJob
  <2> QED BY <2>3, <2>4
<1>3. CASE Start
  <2>1. UNCHANGED <<attempt, job, published>> /\ publisher' = "waiting"
    BY <1>3 DEF Start, store
  <2> QED BY <2>1, SameJobs DEF Deciding
<1>4. CASE WaitForRun
  <2>1. UNCHANGED <<attempt, published>>
    BY <1>4 DEF WaitForRun, store
  <2>2. CASE Leave("failed")
    BY <2>1, <2>2, LeaveKeeps
  <2>3. CASE UNCHANGED job /\ publisher' = "asking" /\ GateReady
    BY <2>1, <2>3, FreshJobs, SameJobs
  <2>4. CASE UNCHANGED <<job, publisher>> /\ publisher = "waiting"
    BY <2>1, <2>4, SameJobs DEF Deciding
  <2> QED BY <1>4, <2>2, <2>3, <2>4 DEF WaitForRun
<1>5. CASE Collect
  <2>1. UNCHANGED <<attempt, job, published>>
        /\ publisher = "collecting" /\ publisher' = "confirming"
    BY <1>5 DEF Collect, store
  <2> QED BY <2>1, SameJobs DEF JobsInv, DecidingInv, Deciding
<1>6. CASE ReadHead("asking", "collecting") \/ ReadHead("confirming", "publishing")
  <2>1. /\ UNCHANGED <<attempt, job, published>> /\ publisher \in Deciding
        /\ publisher' # "storing"
    BY <1>6 DEF ReadHead, store, Deciding
  <2> QED BY <2>1, SameJobs DEF JobsInv, DecidingInv
<1>6a. CASE CompareHead
  <2>1. UNCHANGED <<attempt, published>> /\ publisher \in Deciding
    BY <1>6a DEF CompareHead, store, Deciding
  <2>2. CASE UNCHANGED job /\ publisher' = "rereading"
    BY <2>1, <2>2, SameJobs DEF JobsInv, DecidingInv
  <2>3. CASE Leave("failed")
    BY <2>1, <2>3, LeaveKeeps
  <2> QED BY <1>6a, <2>2, <2>3 DEF CompareHead
<1>6b. CASE RereadHead
  <2>1. UNCHANGED <<attempt, published>> /\ (Leave("superseded") \/ Leave("failed"))
    BY <1>6b DEF RereadHead, store
  <2> QED BY <2>1, LeaveKeeps
<1>7. CASE PublishCandidate
  <2>1. /\ UNCHANGED <<attempt, job>> /\ publisher = "publishing" /\ publisher' = "storing"
        /\ published' = published \cup {attempt}
    BY <1>7 DEF PublishCandidate
  <2> QED BY <2>1, SameJobs DEF JobsInv, DecidingInv, Deciding
<1>8. CASE StoreEvidence
  BY <1>8, LeaveKeeps DEF StoreEvidence
<1>9. CASE PublisherFails
  BY <1>9, LeaveKeeps DEF PublisherFails, store
<1>10. CASE CatchUp
  <2>1. UNCHANGED <<attempt, job, publisher, published>>
    BY <1>10 DEF CatchUp, store
  <2> QED BY <2>1, SameJobs DEF JobsInv, DecidingInv, StoringInv
<1> QED
  BY <1>1, <1>2, <1>3, <1>4, <1>5, <1>6, <1>6a, <1>6b, <1>7, <1>8, <1>9, <1>10
  DEF CandidateNext

\* Nobody runs a job again while the publisher is running.
LEMMA PeopleKeep ==
  ASSUME StatesTyped, JobsInv, People \/ LaterNext \/ UNCHANGED qualifyVars
  PROVE  JobsInv'
<1>1. CASE Rerun
  <2>1. /\ attempt' = attempt + 1 /\ publisher = "off" /\ publisher' = "off"
    BY <1>1 DEF Rerun, Completed
  <2>2. PICK again \in SUBSET Jobs :
          /\ job' = [j \in Jobs |-> IF j \in again THEN NotRun ELSE job[j]]
          /\ "gate" \notin again => {"prepare", "checks", "build"} \cap again = {}
    BY <1>1, RerunJobs
  <2>3. NotRun.result = "none"
    BY DEF NotRun
  <2>4. RanInv'
    <3>1. SUFFICES ASSUME NEW j \in Jobs, Done(j)' PROVE job'[j].ran \in 1..attempt'
      BY DEF RanInv
    <3>2. job'[j] = job[j]
      BY <2>2, <2>3, <3>1 DEF Done
    <3>3. job[j].ran \in 1..attempt /\ attempt \in Nat
      BY <3>1, <3>2, BoundsAssumption DEF JobsInv, RanInv, Done, StatesTyped,
                                          QualifyTypeOK, Attempts
    <3> QED BY <2>1, <3>2, <3>3
  <2>5. GateInv'
    <3>1. SUFFICES ASSUME Passed("gate")'
                   PROVE  (Passed("prepare") /\ Passed("checks") /\ Passed("build"))'
      BY DEF GateInv
    <3>2. "gate" \notin again /\ Passed("gate")
      BY <2>2, <2>3, <3>1 DEF Passed, Jobs
    <3>3. \A j \in {"prepare", "checks", "build"} : job'[j] = job[j]
      BY <2>2, <3>2 DEF Jobs
    <3> QED BY <3>2, <3>3 DEF JobsInv, GateInv, Passed
  <2> QED BY <2>1, <2>4, <2>5 DEF JobsInv, DecidingInv, StoringInv, Deciding
<1>2. CASE UNCHANGED <<attempt, job, publisher, published>>
  BY <1>2, SameJobs DEF JobsInv, DecidingInv, StoringInv
<1>3. People \/ LaterNext \/ UNCHANGED qualifyVars
        => Rerun \/ UNCHANGED <<attempt, job, publisher, published>>
  BY DEF People, ChangeRelease, Expire, Push, ChangeReviewers, LaterNext, VerifiedRc,
         Promote, Reuse, Verification, Begin, Refuse, Snapshot, ReadManifest, CheckRun,
         VerifyEvidence, Download, SnapshotAgain, Accept, candidate, store, qualifyVars
<1> QED BY <1>1, <1>2, <1>3

-----------------------------------------------------------------------------
(* What the later run holds.                                               *)

\* The later run stands still while more is published.
LEMMA LaterWaits ==
  ASSUME LaterInv, UNCHANGED later, published \subseteq published',
         \A m \in evidence' : m.bytes \in published'
  PROVE  LaterInv'
  BY DEF LaterInv, EvidenceInv, ManifestInv, ListedInv, GotInv, OnlyQualifiedBytes, later

LEMMA OthersKeepLater ==
  ASSUME JobsInv, LaterInv,
         CandidateNext \/ PublisherFails \/ CatchUp \/ People \/ UNCHANGED qualifyVars
  PROVE  LaterInv'
<1>1. UNCHANGED later /\ published \subseteq published'
  BY DEF CandidateNext, RunJob, RunGate, Start, WaitForRun, Collect, ReadHead, CompareHead, RereadHead,
         PublishCandidate, StoreEvidence, PublisherFails, CatchUp, People, Rerun,
         ChangeRelease, Expire, Push, ChangeReviewers, store, qualifyVars
<1>2. CASE StoreEvidence
  <2>1. /\ attempt \in published
        /\ evidence' = evidence \cup {[attempt |-> attempt, bytes |-> attempt]}
    BY <1>2 DEF StoreEvidence, JobsInv, StoringInv
  <2> QED BY <1>1, <2>1, LaterWaits DEF LaterInv, EvidenceInv
<1>3. CASE evidence' \subseteq evidence
  BY <1>1, <1>3, LaterWaits DEF LaterInv, EvidenceInv
<1>4. CandidateNext \/ PublisherFails \/ CatchUp \/ People \/ UNCHANGED qualifyVars =>
        StoreEvidence \/ evidence' \subseteq evidence
  BY DEF CandidateNext, RunJob, RunGate, Start, WaitForRun, Collect, ReadHead, CompareHead, RereadHead,
         PublishCandidate, PublisherFails, CatchUp, People, Rerun, ChangeRelease,
         Expire, Push, ChangeReviewers, store, qualifyVars
<1> QED BY <1>2, <1>3, <1>4

\* Every step of the later run rests on those before it: only the evidence ties
\* the manifest to what was published, only the manifest ties the bytes to it.
LEMMA LaterKeeps ==
  ASSUME LaterInv, LaterNext
  PROVE  LaterInv'
<1> USE DEF LaterInv, EvidenceInv, ManifestInv, ListedInv, GotInv, OnlyQualifiedBytes, To
<1>1. CASE Begin \/ Refuse \/ Snapshot
  BY <1>1 DEF Begin, Refuse, Snapshot, store
<1>2. CASE ReadManifest
  BY <1>2 DEF ReadManifest, store
<1>3. CASE CheckRun("run", "evidence") \/ CheckRun("rerun", "accept")
  BY <1>3 DEF CheckRun, store
<1>4. CASE VerifyEvidence
  <2>1. /\ step = "evidence" /\ step' = (IF goal = "reuse" THEN "compare" ELSE "download")
        /\ evidence = {manifest} /\ got' = snap.bytes
        /\ UNCHANGED <<goal, snap, manifest, result, evidence, published>>
    BY <1>4 DEF VerifyEvidence, store
  <2>2. manifest.bytes \in published
    BY <2>1
  <2>3. goal = "reuse" => got' = manifest.bytes
    BY <2>1
  <2> QED BY <2>1, <2>2, <2>3
<1>5. CASE goal # "reuse" /\ Download
  BY <1>5 DEF Download, store
<1>6. CASE SnapshotAgain
  BY <1>6 DEF SnapshotAgain, store
<1>7. CASE Accept
  <2>1. /\ step = "accept" /\ step' = "end" /\ result' = got
        /\ UNCHANGED <<goal, snap, manifest, got, evidence, published>>
    BY <1>7 DEF Accept, store
  <2>2. got = manifest.bytes /\ manifest.bytes \in published
    BY <2>1
  <2> QED BY <2>1, <2>2
<1> QED
  BY <1>1, <1>2, <1>3, <1>4, <1>5, <1>6, <1>7
  DEF LaterNext, VerifiedRc, Promote, Reuse, Verification

-----------------------------------------------------------------------------
(* What the publisher has seen of the branch.                              *)

\* A branch keeps the commits and the runs that it has got.
LEMMA BranchGrows ==
  ASSUME [QualifyNext]_qualifyVars
  PROVE  ahead \subseteq ahead' /\ pushed \subseteq pushed'
<1>1. CASE UNCHANGED branch
  BY <1>1 DEF branch
<1>2. CASE Push
  BY <1>2 DEF Push
<1>3. UNCHANGED branch \/ Push
  BY DEF QualifyNext, CandidateNext, RunJob, RunGate, Start, WaitForRun, Collect, ReadHead,
         CompareHead, RereadHead, PublishCandidate, StoreEvidence, PublisherFails, CatchUp,
         VerifiedRc, Promote, Reuse, Verification, Begin, Refuse, Snapshot, ReadManifest,
         CheckRun, VerifyEvidence, Download, SnapshotAgain, Accept, Rerun, ChangeRelease,
         Expire, ChangeReviewers, qualifyVars
<1> QED BY <1>1, <1>2, <1>3

LEMMA SeenKeeps ==
  ASSUME SeenInv, [QualifyNext]_qualifyVars
  PROVE  SeenInv'
<1>1. CASE UNCHANGED <<publisher, seen>>
  BY <1>1, BranchGrows DEF SeenInv
<1>2. CASE publisher' \notin {"comparing", "rereading"}
  BY <1>2 DEF SeenInv
<1>3. CASE ReadHead("asking", "collecting") \/ ReadHead("confirming", "publishing")
  BY <1>3 DEF ReadHead, Superseded, SeenInv
<1>4. CASE CompareHead
  <2>1. publisher = "comparing" /\ seen' = seen /\ UNCHANGED branch
        /\ (publisher' = "off" \/ (publisher' = "rereading" /\ Replaced))
    BY <1>4 DEF CompareHead, Leave
  <2> QED BY <2>1 DEF SeenInv, Replaced, branch
<1>5. \/ UNCHANGED <<publisher, seen>> \/ publisher' \notin {"comparing", "rereading"}
      \/ ReadHead("asking", "collecting") \/ ReadHead("confirming", "publishing")
      \/ CompareHead
  BY DEF QualifyNext, CandidateNext, RunJob, RunGate, Start, WaitForRun, Collect,
         RereadHead, Leave, PublishCandidate, StoreEvidence, PublisherFails, CatchUp,
         VerifiedRc, Promote, Reuse, Verification, Begin, Refuse, Snapshot, ReadManifest,
         CheckRun, VerifyEvidence, Download, SnapshotAgain, Accept, Rerun, ChangeRelease,
         Expire, Push, ChangeReviewers, candidate, qualifyVars
<1> QED BY <1>1, <1>2, <1>3, <1>4, <1>5

\* Only the last of the reads skips the candidate.
LEMMA SkipIsRereading ==
  ASSUME [QualifyNext]_qualifyVars, outcome' = "superseded", outcome # "superseded"
  PROVE  RereadHead /\ StillHead
<1>1. RereadHead
  BY DEF QualifyNext, CandidateNext, RunJob, RunGate, Start, WaitForRun, Collect, ReadHead,
         CompareHead, Leave, PublishCandidate, StoreEvidence, PublisherFails, CatchUp,
         VerifiedRc, Promote, Reuse, Verification, Begin, Refuse, Snapshot, ReadManifest,
         CheckRun, VerifyEvidence, Download, SnapshotAgain, Accept, Rerun, ChangeRelease,
         Expire, Push, ChangeReviewers, candidate, qualifyVars
<1> QED BY <1>1 DEF RereadHead, Leave

-----------------------------------------------------------------------------
LEMMA QualifyInvAtStart == QualifyInit => QualifyInv
<1> SUFFICES ASSUME QualifyInit PROVE QualifyInv
  OBVIOUS
<1>1. \A j \in Jobs : ~ Done(j)
  BY DEF QualifyInit, Done, NotRun
<1>2. JobsInv
  BY <1>1
  DEF QualifyInit, JobsInv, RanInv, GateInv, DecidingInv, StoringInv, Deciding, Done,
      Passed, NotRun, Jobs
<1>3. LaterInv
  BY DEF QualifyInit, LaterInv, EvidenceInv, ManifestInv, ListedInv, GotInv,
         OnlyQualifiedBytes
<1>4. SeenInv
  BY DEF QualifyInit, SeenInv
<1> QED BY <1>2, <1>3, <1>4, InitTyped DEF QualifyInv

LEMMA QualifyKeepsInv == QualifyInv /\ [QualifyNext]_qualifyVars => QualifyInv'
<1> SUFFICES ASSUME QualifyInv, [QualifyNext]_qualifyVars PROVE QualifyInv'
  OBVIOUS
<1>1. StatesTyped'
  <2>1. CASE UNCHANGED qualifyVars
    BY <2>1
    DEF QualifyInv, StatesTyped, QualifyTypeOK, qualifyVars, candidate, branch, later,
        store
  <2> QED BY <2>1, NextCases, CandidateTyped, LaterTyped, PeopleTyped DEF QualifyInv
<1>2. JobsInv'
  BY NextCases, CandidateKeeps, PeopleKeep DEF QualifyInv
<1>3. LaterInv'
  BY NextCases, OthersKeepLater, LaterKeeps DEF QualifyInv
<1>4. SeenInv'
  BY SeenKeeps DEF QualifyInv
<1> QED BY <1>1, <1>2, <1>3, <1>4 DEF QualifyInv

LEMMA QualifyInvariant == QualifySpec => []QualifyInv
  BY QualifyInvAtStart, QualifyKeepsInv, PTL DEF QualifySpec

\* Every reachable state is well typed, the release, its manifest and what the
\* later run has read of them included.
THEOREM QualifyTyped == QualifySpec => []StatesTyped
<1>1. QualifyInv => StatesTyped
  BY DEF QualifyInv
<1> QED BY <1>1, QualifyInvariant, PTL

\* Whatever is exchanged, moved or run again, bytes that a later run accepts,
\* promotes or reuses were published by an attempt of the candidate's run
\* (release_versioned.py: verify_evidence, validate_manifest, the downloads).
THEOREM QualifiedBytesOnly == QualifySpec => []OnlyQualifiedBytes
<1>1. QualifyInv => OnlyQualifiedBytes
  BY DEF QualifyInv, LaterInv
<1> QED BY <1>1, QualifyInvariant, PTL

\* Whatever is pushed while it reads, an automatic candidate is skipped only in
\* favour of a commit that is the head at that moment, has the candidate's behind
\* it and a run of its own (release_control.py: superseded_candidate): what the
\* first reads found of a head still holds when the last finds it unmoved.
THEOREM SkippedReplaced == QualifySpec => SkippedIsReplaced
<1> DEFINE Skip == outcome' = "superseded" /\ outcome # "superseded"
                     => head # 0 /\ head \in pushed /\ ancestor
<1>1. ASSUME QualifyInv, [QualifyNext]_qualifyVars PROVE Skip
  <2> SUFFICES ASSUME outcome' = "superseded", outcome # "superseded"
               PROVE  head # 0 /\ head \in pushed /\ ancestor
    OBVIOUS
  <2>1. publisher = "rereading" /\ head = seen
    BY <1>1, SkipIsRereading DEF RereadHead, StillHead
  <2> QED BY <1>1, <2>1 DEF QualifyInv, SeenInv, ancestor
<1>2. QualifyInv /\ [QualifyNext]_qualifyVars => Skip
  BY <1>1
<1>3. QualifySpec => [][Skip]_qualifyVars
  BY <1>2, QualifyInvariant, PTL DEF QualifySpec
<1> QED BY <1>3 DEF SkippedIsReplaced

\* No result of an earlier attempt fills in for a publication (release_control.py:
\* require_current_attempt_jobs): the publisher holds the invariant of its jobs
\* from the metadata to the publication.
THEOREM PublishedFresh == QualifySpec => FreshPublication
<1> DEFINE FreshStep ==
      \A a \in published' \ published :
        \A j \in {"prepare", "checks", "build", "gate"} : Passed(j) /\ job[j].ran = a
<1>1. ASSUME QualifyInv, [QualifyNext]_qualifyVars PROVE FreshStep
  <2>1. published' = published \/ (PublishCandidate /\ published' = published \cup {attempt})
    BY <1>1
    DEF QualifyNext, CandidateNext, RunJob, RunGate, Start, WaitForRun, Collect,
        ReadHead, CompareHead, RereadHead, PublishCandidate, StoreEvidence, PublisherFails, CatchUp,
        VerifiedRc, Promote, Reuse, Verification, Begin, Refuse, Snapshot, ReadManifest,
        CheckRun, VerifyEvidence, Download, SnapshotAgain, Accept, Rerun, ChangeRelease,
        Expire, Push, ChangeReviewers, store, qualifyVars
  <2>2. PublishCandidate => \A j \in Checks : Passed(j) /\ job[j].ran = attempt
    BY <1>1 DEF PublishCandidate, QualifyInv, JobsInv, DecidingInv, Deciding
  <2> QED BY <2>1, <2>2 DEF Checks
<1>2. QualifyInv /\ [QualifyNext]_qualifyVars => FreshStep
  BY <1>1
<1>3. QualifySpec => [][FreshStep]_qualifyVars
  BY <1>2, QualifyInvariant, PTL DEF QualifySpec
<1> QED BY <1>3 DEF FreshPublication

-----------------------------------------------------------------------------
(* ReleasePublish: sequences of releases.                                  *)


Descending(s) == \A i, j \in DOMAIN s : i < j => s[i].id > s[j].id

\* The same release, with other files perhaps or with another body.
Like(x, y) == x.id = y.id /\ x.ours = y.ours /\ (x.note = "nonce" => y.note = "nonce")

LEMMA OneEntry ==
  ASSUME NEW s \in Seq(Release), Descending(s),
         NEW x \in Elements(s), NEW y \in Elements(s), x.id = y.id
  PROVE  x = y
<1>1. PICK i \in DOMAIN s : x = s[i]
  BY DEF Elements
<1>2. PICK j \in DOMAIN s : y = s[j]
  BY DEF Elements
<1>3. s[i] \in Release /\ s[j] \in Release /\ i \in Nat /\ j \in Nat
  BY <1>1, <1>2
<1>4. ~ i < j /\ ~ j < i
  BY <1>1, <1>2, <1>3 DEF Descending, Release
<1> QED
  BY <1>1, <1>2, <1>3, <1>4

LEMMA EntryOf ==
  ASSUME NEW s \in Seq(Release), Descending(s), NEW x \in Elements(s)
  PROVE  Entry(s, x.id) = x
<1>1. Entry(s, x.id) \in Elements(s) /\ Entry(s, x.id).id = x.id
  BY DEF Entry
<1> QED
  BY <1>1, OneEntry

LEMMA Prepended ==
  ASSUME NEW s \in Seq(Release), NEW x \in Release
  PROVE  LET t == <<x>> \o s IN
           /\ t \in Seq(Release)
           /\ Elements(t) = {x} \cup Elements(s)
           /\ Descending(s) /\ (\A y \in Elements(s) : y.id < x.id) => Descending(t)
<1> DEFINE t == <<x>> \o s
<1>1. t \in Seq(Release) /\ Len(t) = Len(s) + 1 /\ t[1] = x
  OBVIOUS
<1>2. \A i \in 1..Len(s) : t[i + 1] = s[i]
  OBVIOUS
<1>3. \A i \in 1..Len(t) : i = 1 \/ (i - 1 \in 1..Len(s) /\ t[i] = s[i - 1])
  BY <1>1, <1>2
<1>4. DOMAIN t = 1..Len(t) /\ DOMAIN s = 1..Len(s) /\ Len(s) \in Nat
  BY <1>1
<1>5. Elements(t) = {x} \cup Elements(s)
  <2>1. Elements(t) \subseteq {x} \cup Elements(s)
    BY <1>1, <1>3, <1>4 DEF Elements
  <2>2. x \in Elements(t)
    BY <1>1, <1>4 DEF Elements
  <2>3. Elements(s) \subseteq Elements(t)
    <3>1. SUFFICES ASSUME NEW i \in 1..Len(s) PROVE s[i] \in Elements(t)
      BY <1>4 DEF Elements
    <3>2. i + 1 \in 1..Len(t)
      BY <1>1, <1>4
    <3> QED
      BY <1>2, <1>4, <3>2 DEF Elements
  <2> QED
    BY <2>1, <2>2, <2>3
<1>6. ASSUME Descending(s), \A y \in Elements(s) : y.id < x.id
      PROVE  Descending(t)
  <2>1. SUFFICES ASSUME NEW i \in 1..Len(t), NEW j \in 1..Len(t), i < j
                 PROVE  t[i].id > t[j].id
    BY <1>4 DEF Descending
  <2>2. j - 1 \in 1..Len(s) /\ t[j] = s[j - 1]
    BY <2>1, <1>3
  <2>3. s[j - 1].id \in Nat /\ x.id \in Nat
    <3>1. s[j - 1] \in Release
      BY <2>2, <1>4
    <3> QED
      BY <3>1 DEF Release
  <2>4. CASE i = 1
    <3>1. s[j - 1] \in Elements(s)
      BY <2>2, <1>4 DEF Elements
    <3>2. s[j - 1].id < x.id
      BY <3>1, <1>6
    <3> QED
      BY <2>2, <2>3, <2>4, <1>1, <3>2
  <2>5. CASE i # 1
    <3>1. i - 1 \in 1..Len(s) /\ t[i] = s[i - 1] /\ i - 1 < j - 1
      BY <2>1, <2>5, <1>3, <1>4
    <3> QED
      BY <2>2, <3>1, <1>4, <1>6 DEF Descending
  <2> QED
    BY <2>4, <2>5
<1> QED
  BY <1>1, <1>5, <1>6

LEMMA Removed ==
  ASSUME NEW s \in Seq(Release), NEW k \in DOMAIN s
  PROVE  LET t == SubSeq(s, 1, k - 1) \o SubSeq(s, k + 1, Len(s)) IN
           /\ t \in Seq(Release)
           /\ Elements(t) \subseteq Elements(s)
           /\ Elements(s) \subseteq Elements(t) \cup {s[k]}
           /\ Descending(s) => Descending(t)
<1> DEFINE u == SubSeq(s, 1, k - 1)
           v == SubSeq(s, k + 1, Len(s))
           t == u \o v
<1>1. DOMAIN s = 1..Len(s) /\ Len(s) \in Nat /\ k \in 1..Len(s)
  OBVIOUS
<1>2. u \in Seq(Release) /\ Len(u) = k - 1 /\ \A i \in 1..(k - 1) : u[i] = s[i]
  BY <1>1
<1>3. v \in Seq(Release) /\ Len(v) = Len(s) - k
  BY <1>1
<1>4. \A i \in 1..(Len(s) - k) : v[i] = s[k + i]
  BY <1>1
<1>5. t \in Seq(Release) /\ Len(t) = Len(s) - 1
  <2> HIDE DEF u, v
  <2>1. t \in Seq(Release) /\ Len(t) = Len(u) + Len(v)
    BY <1>2, <1>3, ConcatProperties, Zenon
  <2> QED
    BY <2>1, <1>1, <1>2, <1>3
<1>6. \A i \in 1..Len(t) : t[i] = IF i < k THEN s[i] ELSE s[i + 1]
  <2> SUFFICES ASSUME NEW i \in 1..Len(t) PROVE t[i] = IF i < k THEN s[i] ELSE s[i + 1]
    OBVIOUS
  <2>4. i \in 1..(Len(u) + Len(v))
    BY <1>1, <1>2, <1>3, <1>5
  <2> HIDE DEF u, v
  <2>1. t[i] = IF i <= Len(u) THEN u[i] ELSE v[i - Len(u)]
    BY <2>4, <1>2, <1>3, ConcatProperties, Zenon
  <2>5. i \in Nat /\ k \in Nat /\ 1 <= i /\ Len(u) = k - 1
    BY <1>1, <1>2, <1>5
  <2> HIDE DEF t
  <2>2. CASE i < k
    <3>1. i <= Len(u) /\ i \in 1..(k - 1)
      BY <2>2, <2>5
    <3> QED
      BY <2>1, <2>2, <3>1, <1>2
  <2>3. CASE ~ i < k
    <3>1. t[i] = v[i - (k - 1)]
      BY <2>1, <2>3, <2>5
    <3>2. i - (k - 1) \in 1..(Len(s) - k) /\ k + (i - (k - 1)) = i + 1
      BY <2>3, <1>1, <1>5
    <3> QED
      BY <2>3, <3>1, <3>2, <1>4
  <2> QED
    BY <2>2, <2>3
<1>7. DOMAIN t = 1..Len(t)
  BY <1>5
<1> HIDE DEF t, u, v
<1>8. \A i \in 1..Len(t) : i \in 1..Len(s) /\ i + 1 \in 1..Len(s)
  BY <1>1, <1>5
<1>9. Elements(t) \subseteq Elements(s)
  BY <1>1, <1>6, <1>7, <1>8 DEF Elements
<1>11. Elements(s) \subseteq Elements(t) \cup {s[k]}
  <2>1. SUFFICES ASSUME NEW i \in 1..Len(s), i # k PROVE s[i] \in Elements(t)
    BY <1>1 DEF Elements
  <2>2. CASE i < k
    <3>1. i \in 1..Len(t) /\ t[i] = s[i]
      BY <2>2, <1>1, <1>5, <1>6
    <3> QED
      BY <3>1, <1>7 DEF Elements
  <2>3. CASE ~ i < k
    <3>1. i - 1 \in 1..Len(t) /\ ~ i - 1 < k /\ (i - 1) + 1 = i
      BY <2>1, <2>3, <1>1, <1>5
    <3>2. t[i - 1] = s[i]
      BY <3>1, <1>6
    <3> QED
      BY <3>1, <3>2, <1>7 DEF Elements
  <2> QED
    BY <2>2, <2>3
<1>10. ASSUME Descending(s) PROVE Descending(t)
  <2>1. SUFFICES ASSUME NEW i \in 1..Len(t), NEW j \in 1..Len(t), i < j
                 PROVE  t[i].id > t[j].id
    BY <1>7 DEF Descending
  <2> DEFINE a == IF i < k THEN i ELSE i + 1
             b == IF j < k THEN j ELSE j + 1
  <2>2. a \in 1..Len(s) /\ b \in 1..Len(s) /\ a < b
    BY <2>1, <1>1, <1>8
  <2>3. t[i] = s[a] /\ t[j] = s[b]
    BY <1>6
  <2> HIDE DEF a, b
  <2> QED
    BY <2>2, <2>3, <1>1, <1>10 DEF Descending
<1> QED
  BY <1>5, <1>9, <1>10, <1>11 DEF t, u, v

\* What Edit does to one release.
LEMMA Edited ==
  ASSUME NEW s \in Seq(Release), NEW t \in Seq(Release), DOMAIN t = DOMAIN s,
         \A i \in DOMAIN s : Like(t[i], s[i])
  PROVE  /\ \A y \in Elements(t) : \E x \in Elements(s) : Like(y, x)
         /\ Descending(s) => Descending(t)
BY DEF Elements, Descending, Like

-----------------------------------------------------------------------------
\* The inventory, page by page.

Distinct(s) == \A i, j \in DOMAIN s : i # j => s[i].id # s[j].id

LEMMA Joined ==
  ASSUME NEW u \in Seq(Release), NEW v \in Seq(Release)
  PROVE  /\ u \o v \in Seq(Release) /\ Len(u \o v) = Len(u) + Len(v)
         /\ Elements(u \o v) = Elements(u) \cup Elements(v)
         /\ Distinct(u) /\ Distinct(v) /\ Ids(u) \cap Ids(v) = {} => Distinct(u \o v)
<1> DEFINE t == u \o v
<1>1. /\ t \in Seq(Release) /\ Len(t) = Len(u) + Len(v)
      /\ \A i \in 1..Len(t) : t[i] = IF i <= Len(u) THEN u[i] ELSE v[i - Len(u)]
  BY ConcatProperties, Zenon
<1>2. DOMAIN t = 1..Len(t) /\ DOMAIN u = 1..Len(u) /\ DOMAIN v = 1..Len(v)
      /\ Len(u) \in Nat /\ Len(v) \in Nat
  BY <1>1
<1> HIDE DEF t
<1>3. \A i \in 1..Len(t) : i \in 1..Len(u) \/ (i - Len(u) \in 1..Len(v) /\ ~ i <= Len(u))
  BY <1>1, <1>2
<1>4. Elements(t) = Elements(u) \cup Elements(v)
  <2>1. Elements(t) \subseteq Elements(u) \cup Elements(v)
    BY <1>1, <1>2, <1>3 DEF Elements
  <2>2. Elements(u) \subseteq Elements(t)
    <3>1. \A i \in 1..Len(u) : i \in 1..Len(t) /\ t[i] = u[i]
      BY <1>1, <1>2
    <3> QED
      BY <1>2, <3>1 DEF Elements
  <2>3. Elements(v) \subseteq Elements(t)
    <3>1. \A i \in 1..Len(v) : i + Len(u) \in 1..Len(t) /\ t[i + Len(u)] = v[i]
      BY <1>1, <1>2
    <3> QED
      BY <1>2, <3>1 DEF Elements
  <2> QED
    BY <2>1, <2>2, <2>3
<1>5. ASSUME Distinct(u), Distinct(v), Ids(u) \cap Ids(v) = {}
      PROVE  Distinct(t)
  <2>1. SUFFICES ASSUME NEW i \in 1..Len(t), NEW j \in 1..Len(t), i < j
                 PROVE  t[i].id # t[j].id
    BY <1>1, <1>2 DEF Distinct
  <2>2. CASE j <= Len(u)
    <3>1. i \in 1..Len(u) /\ j \in 1..Len(u) /\ t[i] = u[i] /\ t[j] = u[j]
      BY <2>1, <2>2, <1>1, <1>2
    <3> QED
      BY <2>1, <3>1, <1>2, <1>5 DEF Distinct
  <2>3. CASE ~ j <= Len(u) /\ i <= Len(u)
    <3>1. /\ i \in 1..Len(u) /\ j - Len(u) \in 1..Len(v)
          /\ t[i] = u[i] /\ t[j] = v[j - Len(u)]
      BY <2>1, <2>3, <1>1, <1>2
    <3>2. t[i].id \in Ids(u) /\ t[j].id \in Ids(v)
      BY <3>1, <1>2 DEF Ids, Elements
    <3> QED
      BY <3>2, <1>5
  <2>4. CASE ~ i <= Len(u)
    <3>1. /\ i - Len(u) \in 1..Len(v) /\ j - Len(u) \in 1..Len(v) /\ i - Len(u) # j - Len(u)
          /\ t[i] = v[i - Len(u)] /\ t[j] = v[j - Len(u)]
      BY <2>1, <2>4, <1>1, <1>2
    <3> QED
      BY <3>1, <1>2, <1>5 DEF Distinct
  <2> QED
    BY <2>2, <2>3, <2>4
<1> QED
  BY <1>1, <1>4, <1>5 DEF t

\* As many releases as were read so far, all of them still listed: then each
\* that stands at one of the first places was read, or one behind them was.
LEMMA NoneMissed ==
  ASSUME NEW s \in Seq(Release), Descending(s),
         NEW f \in Seq(Release), Distinct(f), Ids(f) \subseteq Ids(s),
         NEW k \in DOMAIN s, k <= Len(f),
         \A m \in Ids(f) : m < s[k].id => s[k].id \in Ids(f)
  PROVE  s[k].id \in Ids(f)
<1>1. SUFFICES ASSUME s[k].id \notin Ids(f) PROVE FALSE
  OBVIOUS
<1> DEFINE L == 1..Len(f)
           at == [i \in L |-> CHOOSE q \in DOMAIN s : s[q].id = f[i].id]
<1>2. DOMAIN f = L /\ Len(f) \in Nat /\ DOMAIN s = 1..Len(s) /\ Len(s) \in Nat
  OBVIOUS
<1>3. \A i \in L : f[i].id \in Ids(f)
  BY <1>2 DEF Ids, Elements
<1>4. \A i \in L : at[i] \in DOMAIN s /\ s[at[i]].id = f[i].id
  <2>1. SUFFICES ASSUME NEW i \in L PROVE \E q \in DOMAIN s : s[q].id = f[i].id
    OBVIOUS
  <2>2. f[i].id \in Ids(s)
    BY <1>3
  <2> QED
    BY <2>2 DEF Ids, Elements
<1> HIDE DEF at
<1>5. \A i \in L : at[i] \in L \ {k}
  <2>1. SUFFICES ASSUME NEW i \in L PROVE at[i] \in L /\ at[i] # k
    OBVIOUS
  <2>2. at[i] # k
    BY <1>1, <1>3, <1>4
  <2>3. at[i] <= Len(f)
    <3>1. SUFFICES ASSUME at[i] > Len(f) PROVE FALSE
      BY <1>2, <1>4
    <3>2. k < at[i]
      BY <3>1, <1>2, <1>4
    <3>3. f[i].id < s[k].id
      <4>1. s[k] \in Release /\ s[at[i]] \in Release
        BY <1>4
      <4> QED
        BY <3>2, <4>1, <1>4 DEF Descending, Release
    <3> QED
      BY <3>3, <1>1, <1>3
  <2> QED
    BY <2>2, <2>3, <1>2, <1>4
<1>6. at \in [L -> L \ {k}]
  BY <1>5 DEF at
<1>7. IsFiniteSet(L) /\ Cardinality(L) = Len(f)
  <2>1. 1 \in Int /\ Len(f) \in Int
    BY <1>2
  <2>2. IsFiniteSet(L) /\ Cardinality(L) = IF 1 > Len(f) THEN 0 ELSE Len(f) - 1 + 1
    BY <2>1, FS_Interval
  <2> QED
    BY <2>2, <1>2
<1>8. IsFiniteSet(L \ {k}) /\ Cardinality(L \ {k}) < Cardinality(L)
  <2>1. k \in L
    BY <1>2
  <2>2. IsFiniteSet(L \ {k}) /\ Cardinality(L \ {k}) = Cardinality(L) - 1
    BY <2>1, <1>7, FS_RemoveElement
  <2> QED
    BY <2>2, <1>2, <1>7
<1>9. PICK i, j \in L : i # j /\ at[i] = at[j]
  BY <1>6, <1>7, <1>8, FS_PigeonHole
<1>10. f[i].id = f[j].id
  BY <1>4, <1>9
<1>11. i \in DOMAIN f /\ j \in DOMAIN f
  BY <1>2
<1> QED
  BY <1>9, <1>10, <1>11 DEF Distinct

LEMMA Pages ==
  ASSUME NEW n \in Nat \ {0}
  PROVE  (n - 1) * PageSize \in Nat /\ n * PageSize = (n - 1) * PageSize + PageSize
BY SizesAssumption

LEMMA PageOf ==
  ASSUME listing \in Seq(Release), Descending(listing), NEW n \in Nat \ {0}
  PROVE  LET p == Page(n)
             from == (n - 1) * PageSize IN
           /\ p \in Seq(Release) /\ Distinct(p)
           /\ \A x \in Elements(p) : \E k \in DOMAIN listing :
                /\ x = listing[k]
                /\ \A j \in DOMAIN listing : from < j /\ j <= k => listing[j] \in Elements(p)
           /\ Len(p) # PageSize =>
                \A j \in DOMAIN listing : from < j => listing[j] \in Elements(p)
<1> DEFINE p == Page(n)
           from == (n - 1) * PageSize
           end == IF n * PageSize < Len(listing) THEN n * PageSize ELSE Len(listing)
<1>1. from \in Nat /\ n * PageSize = from + PageSize /\ PageSize \in Nat \ {0}
  BY Pages, SizesAssumption
<1>2. DOMAIN listing = 1..Len(listing) /\ Len(listing) \in Nat
  OBVIOUS
<1> HIDE DEF from
<1>3. end \in Nat /\ end <= Len(listing) /\ end <= from + PageSize
  BY <1>1, <1>2
<1>4. p = SubSeq(listing, from + 1, end)
  BY DEF Page, from
<1>5. \A i \in (from + 1)..end : listing[i] \in Release
  BY <1>1, <1>2, <1>3
<1> HIDE DEF p
<1>6. /\ p \in Seq(Release)
      /\ Len(p) = IF from + 1 <= end THEN end - (from + 1) + 1 ELSE 0
      /\ \A i \in 1..(end - (from + 1) + 1) : p[i] = listing[from + 1 + i - 1]
  <2> HIDE DEF end
  <2>1. from + 1 \in Int /\ end \in Int
    BY <1>1, <1>3
  <2> QED
    BY <2>1, <1>4, <1>5, SubSeqProperties
<1>7. DOMAIN p = 1..Len(p) /\ Len(p) \in Nat
  BY <1>6
<1>8. /\ \A i \in 1..Len(p) : from + i \in (from + 1)..end /\ p[i] = listing[from + i]
      /\ \A j \in (from + 1)..end : j - from \in 1..Len(p) /\ p[j - from] = listing[j]
  BY <1>1, <1>3, <1>6, <1>7
<1>9. Elements(p) = {listing[j] : j \in (from + 1)..end}
  BY <1>7, <1>8 DEF Elements
<1>10. Distinct(p)
  <2>1. SUFFICES ASSUME NEW i \in 1..Len(p), NEW j \in 1..Len(p), i < j
                 PROVE  p[i].id # p[j].id
    BY <1>7 DEF Distinct
  <2>2. from + i \in 1..Len(listing) /\ from + j \in 1..Len(listing) /\ from + i < from + j
    BY <2>1, <1>1, <1>3, <1>7, <1>8
  <2>3. listing[from + i].id > listing[from + j].id
    BY <2>2, <1>2 DEF Descending
  <2>4. listing[from + i] \in Release /\ listing[from + j] \in Release
    BY <2>2
  <2> QED
    BY <2>3, <2>4, <1>8 DEF Release
<1>11. ASSUME NEW x \in Elements(p)
       PROVE  \E k \in DOMAIN listing :
                /\ x = listing[k]
                /\ \A j \in DOMAIN listing : from < j /\ j <= k => listing[j] \in Elements(p)
  <2>1. PICK k \in (from + 1)..end : x = listing[k]
    BY <1>9
  <2>2. k \in DOMAIN listing
    BY <2>1, <1>1, <1>2, <1>3
  <2>3. \A j \in DOMAIN listing : from < j /\ j <= k => j \in (from + 1)..end
    BY <2>1, <1>1, <1>2, <1>3
  <2> QED
    BY <2>1, <2>2, <2>3, <1>9
<1>12. ASSUME Len(p) # PageSize, NEW j \in DOMAIN listing, from < j
       PROVE  listing[j] \in Elements(p)
  <2>1. end # from + PageSize
    BY <1>1, <1>3, <1>6, <1>12
  <2>2. end = Len(listing)
    BY <2>1, <1>1
  <2> HIDE DEF end
  <2>3. j \in (from + 1)..end
    <3>1. j \in 1..Len(listing) /\ from < j
      BY <1>2, <1>12
    <3> QED
      BY <3>1, <2>2, <1>1
  <2> QED
    BY <2>3, <1>9
<1> QED
  BY <1>6, <1>10, <1>11, <1>12 DEF p, from

\* One release that was read is gone.
Gone(f) == \E d \in Ids(f) : d \notin Ids(listing)

\* Nothing old was missed among what is newer than something read.
NewerRead(f) ==
  \A n \in Ids(listing) \cap old, m \in Ids(f) : m < n => n \in Ids(f)

LEMMA ReadOn ==
  ASSUME listing \in Seq(Release), Descending(listing), first \in Seq(Release),
         page \in Nat \ {0}, Len(first) = (page - 1) * PageSize, Distinct(first),
         Ids(Page(page)) \cap Ids(first) = {}, Gone(first) \/ NewerRead(first)
  PROVE  LET g == first \o Page(page) IN
           /\ g \in Seq(Release) /\ Distinct(g)
           /\ Elements(g) = Elements(first) \cup Elements(Page(page))
           /\ Elements(Page(page)) \subseteq Elements(listing)
           /\ Len(Page(page)) = PageSize => Len(g) = page * PageSize
           /\ Gone(g) \/ NewerRead(g)
           /\ Len(Page(page)) # PageSize => Gone(g) \/ Ids(listing) \cap old \subseteq Ids(g)
<1> DEFINE p == Page(page)
           g == first \o p
           from == (page - 1) * PageSize
<1>1. /\ p \in Seq(Release) /\ Distinct(p)
      /\ \A x \in Elements(p) : \E k \in DOMAIN listing :
           /\ x = listing[k]
           /\ \A j \in DOMAIN listing : from < j /\ j <= k => listing[j] \in Elements(p)
      /\ Len(p) # PageSize =>
           \A j \in DOMAIN listing : from < j => listing[j] \in Elements(p)
  BY PageOf
<1> HIDE DEF p
<1>2. /\ g \in Seq(Release) /\ Len(g) = Len(first) + Len(p) /\ Distinct(g)
      /\ Elements(g) = Elements(first) \cup Elements(p)
  BY <1>1, Joined DEF p
<1>3. Len(p) = PageSize => Len(g) = page * PageSize
  BY <1>2, Pages
<1>4. Elements(p) \subseteq Elements(listing)
  BY <1>1 DEF Elements
<1> HIDE DEF g
<1>5. Ids(g) = Ids(first) \cup Ids(p)
  BY <1>2 DEF Ids
<1>6. Gone(first) => Gone(g)
  BY <1>5 DEF Gone
<1>7. from \in Nat /\ DOMAIN listing = 1..Len(listing) /\ Len(listing) \in Nat
  BY Pages
<1>8. ASSUME ~ Gone(first), NEW k \in DOMAIN listing, ~ from < k, listing[k].id \in old
      PROVE  listing[k].id \in Ids(first)
  <2>1. Ids(first) \subseteq Ids(listing)
    BY <1>8 DEF Gone
  <2>2. listing[k].id \in Ids(listing)
    BY DEF Ids, Elements
  <2>3. \A m \in Ids(first) : m < listing[k].id => listing[k].id \in Ids(first)
    BY <1>8, <2>2 DEF NewerRead
  <2>4. k <= Len(first)
    BY <1>7, <1>8
  <2> QED
    BY <2>1, <2>3, <2>4, NoneMissed
<1>9. ASSUME ~ Gone(first) PROVE NewerRead(g)
  <2>1. SUFFICES ASSUME NEW n \in Ids(listing) \cap old, NEW m \in Ids(g), m < n
                 PROVE  n \in Ids(g)
    BY DEF NewerRead
  <2>2. PICK k \in DOMAIN listing : n = listing[k].id
    BY <2>1 DEF Ids, Elements
  <2>3. CASE m \in Ids(first)
    BY <2>1, <2>3, <1>5, <1>9 DEF NewerRead
  <2>4. CASE m \in Ids(p)
    <3>1. PICK q \in DOMAIN listing :
            /\ m = listing[q].id
            /\ \A j \in DOMAIN listing : from < j /\ j <= q => listing[j] \in Elements(p)
      BY <2>4, <1>1 DEF Ids
    <3>2. listing[k] \in Release /\ listing[q] \in Release /\ k \in Nat /\ q \in Nat
      BY <2>2, <3>1
    <3>3. k <= q
      <4>1. SUFFICES ASSUME q < k PROVE FALSE
        BY <3>2
      <4>2. listing[q].id > listing[k].id
        BY <4>1 DEF Descending
      <4> QED
        BY <4>2, <2>1, <2>2, <3>1, <3>2 DEF Release
    <3>4. CASE from < k
      BY <2>2, <3>1, <3>3, <3>4, <1>5 DEF Ids
    <3>5. CASE ~ from < k
      BY <2>1, <2>2, <3>5, <1>5, <1>8, <1>9
    <3> QED
      BY <3>4, <3>5
  <2> QED
    BY <2>3, <2>4, <1>5
<1>10. ASSUME ~ Gone(first), Len(p) # PageSize
       PROVE  Ids(listing) \cap old \subseteq Ids(g)
  <2>1. SUFFICES ASSUME NEW k \in DOMAIN listing, listing[k].id \in old
                 PROVE  listing[k].id \in Ids(g)
    BY DEF Ids, Elements
  <2>2. CASE from < k
    BY <2>2, <1>1, <1>5, <1>10 DEF Ids
  <2>3. CASE ~ from < k
    BY <2>1, <2>3, <1>5, <1>8, <1>10
  <2> QED
    BY <2>2, <2>3
<1> QED
  BY <1>2, <1>3, <1>4, <1>6, <1>9, <1>10 DEF g, p

-----------------------------------------------------------------------------
\* The inductive invariant.

\* Every release that the server lists and every one that was read.
Known == Elements(listing) \cup Elements(first) \cup Elements(second)

\* Ids rise, and none is given twice.
SortedInv ==
  /\ Descending(listing)
  /\ \A x \in Known : x.id \in 1..lastId
  /\ old \subseteq 1..lastId /\ own \subseteq 1..lastId

\* A release keeps its tag.
OursInv ==
  /\ \A x, y \in Known : x.id = y.id => x.ours = y.ours
  /\ \A x \in Known : x.id \in own => x.ours

BeforeCreation == {"no tag", "no release", "tag", "create"}

\* One POST makes at most one draft, soon or late, and only it has the nonce.
OwnInv ==
  /\ pc \in BeforeCreation => own = {} /\ ~ late /\ draftId = 0
  /\ late => own = {}
  /\ \A d, e \in own : d = e
  /\ \A x \in Known : x.note = "nonce" => x.id \in own
  /\ draftId # 0 => draftId \in own

\* The first inventory, up to the page that is read next: it has missed
\* nothing old, or it holds what is gone, and then the second will differ.
FirstInv ==
  /\ pc \in BeforeCreation \cup {"confirm"} => old = {}
  /\ pc = "first" =>
       /\ Len(first) = (page - 1) * PageSize /\ second = <<>>
       /\ Distinct(first)
       /\ Gone(first) \/ NewerRead(first)

SecondInv ==
  pc \in {"second", "compare"} =>
    \/ \E d \in Ids(first) : d \notin Ids(listing) \cup Ids(second)
    \/ Ids(listing) \cap old \subseteq Ids(first)

Inventories == FirstInv /\ SecondInv /\ OnlyMatch

\* From the listing of the files on, the draft holds them and no others.
VerifyInv ==
  /\ pc \notin Stopped \cup {"verify", "check source", "publish"} => checked = {}
  /\ pc \in {"check source", "publish"} => checked = Files
  /\ Listed /\ ~ touched =>
       \A x \in Elements(listing) : x.id = draftId =>
         /\ Names(x) = Files /\ Cardinality(x.files) = Cardinality(Files)
         /\ \A f \in checked : <<f, TRUE>> \in x.files

\* Nothing of this tag is public before the transaction ends.
PublicInv ==
  \A x \in Elements(listing) : x.ours /\ ~ x.draft =>
    pc \in Stopped /\ (touched \/ x.files = Exact)

IdsInv == SortedInv /\ OursInv /\ OwnInv
FilesInv == VerifyInv /\ PublicInv
Inv == TypeOK /\ IdsInv /\ Inventories /\ FilesInv

USE FilesAssumption, SizesAssumption

-----------------------------------------------------------------------------
\* How one step changes the listing.

LEMMA EditedListing ==
  ASSUME NEW s \in Seq(Release), NEW t, t = [i \in DOMAIN s |-> t[i]],
         \A i \in DOMAIN s : t[i] \in Release /\ Like(t[i], s[i])
  PROVE  /\ t \in Seq(Release)
         /\ \A y \in Elements(t) : \E x \in Elements(s) : Like(y, x)
         /\ Descending(s) => Descending(t)
<1>1. DOMAIN s = 1..Len(s) /\ Len(s) \in Nat
  OBVIOUS
<1>2. t \in [1..Len(s) -> Release]
  BY <1>1
<1>3. t \in Seq(Release) /\ DOMAIN t = DOMAIN s
  BY <1>1, <1>2
<1> QED
  BY <1>3, Edited

\* It loses releases or changes what they hold, ...
Shrinks ==
  /\ listing' \in Seq(Release) /\ Descending(listing')
  /\ \A y \in Elements(listing') : \E x \in Elements(listing) : Like(y, x)
  /\ UNCHANGED <<lastId, own>>

\* ... or a draft comes to the front.
Grows(note) ==
  /\ listing' \in Seq(Release) /\ Descending(listing')
  /\ Elements(listing') = {Draft(lastId + 1, note)} \cup Elements(listing)
  /\ lastId' = lastId + 1
  /\ own' = own \cup (IF note = "nonce" THEN {lastId + 1} ELSE {})

LEMMA KeptListing ==
  ASSUME TypeOK, IdsInv, UNCHANGED <<listing, lastId, own>>
  PROVE  Shrinks
BY DEF TypeOK, IdsInv, SortedInv, Shrinks, Like

LEMMA GrownListing ==
  ASSUME TypeOK, IdsInv, NEW note \in {"nonce", "other"},
         listing' = <<Draft(lastId + 1, note)>> \o listing, lastId' = lastId + 1
  PROVE  /\ listing' \in Seq(Release) /\ Descending(listing')
         /\ Elements(listing') = {Draft(lastId + 1, note)} \cup Elements(listing)
<1> DEFINE d == Draft(lastId + 1, note)
<1>1. d \in Release /\ d.id = lastId + 1
  <2>1. lastId + 1 \in Nat
    <3>1. lastId \in Nat
      BY Zenon DEF TypeOK
    <3> QED
      BY <3>1
  <2>2. {} \in SUBSET Uploads
    OBVIOUS
  <2> HIDE DEF d
  <2> QED
    BY <2>1, <2>2 DEF d, Draft, Release
<1>2. listing \in Seq(Release) /\ Descending(listing) /\ lastId \in Nat
  BY DEF TypeOK, IdsInv, SortedInv
<1>3. \A y \in Elements(listing) : y.id < d.id
  BY <1>1, <1>2 DEF IdsInv, SortedInv, Known
<1> HIDE DEF d
<1>4. listing' = <<d>> \o listing
  BY DEF d
<1> QED
  BY <1>1, <1>2, <1>3, <1>4, Prepended DEF d

LEMMA RemovedFromListing ==
  ASSUME TypeOK, IdsInv, DeleteRelease
  PROVE  Shrinks
<1>1. PICK i \in DOMAIN listing :
        listing' = SubSeq(listing, 1, i - 1) \o SubSeq(listing, i + 1, Len(listing))
  BY DEF DeleteRelease
<1>2. listing \in Seq(Release) /\ Descending(listing)
  BY DEF TypeOK, IdsInv, SortedInv
<1>3. /\ listing' \in Seq(Release) /\ Descending(listing')
      /\ Elements(listing') \subseteq Elements(listing)
  BY <1>1, <1>2, Removed
<1> QED
  BY <1>3 DEF Shrinks, DeleteRelease, history, Like

\* The steps that change what one release holds.
LEMMA UploadEdits ==
  ASSUME TypeOK, IdsInv, NEW f \in Files, Upload(f)
  PROVE  Shrinks
<1>1. PICK stored, healthy \in BOOLEAN :
        IF stored
        THEN Edit(draftId, LAMBDA x : [x EXCEPT !.files = @ \cup {<<f, healthy>>}])
        ELSE UNCHANGED listing
  BY DEF Upload
<1>2. CASE ~ stored
  BY <1>1, <1>2, KeptListing DEF Upload, history
<1>3. CASE stored
  <2>1. listing' = [i \in DOMAIN listing |->
                      IF listing[i].id = draftId
                      THEN [listing[i] EXCEPT !.files = @ \cup {<<f, healthy>>}]
                      ELSE listing[i]]
    BY <1>1, <1>3 DEF Edit
  <2>2. listing \in Seq(Release)
    BY DEF TypeOK
  <2>3. <<f, healthy>> \in Uploads
    BY DEF Uploads
  <2>4. \A i \in DOMAIN listing : listing[i] \in Release
    BY <2>2
  <2>5. \A i \in DOMAIN listing : listing'[i] \in Release /\ Like(listing'[i], listing[i])
    BY <2>1, <2>3, <2>4 DEF Release, Like
  <2>6. listing' = [i \in DOMAIN listing |-> listing'[i]]
    BY <2>1
  <2> QED
    BY <2>2, <2>5, <2>6, EditedListing DEF Shrinks, Upload, history, IdsInv, SortedInv
<1> QED
  BY <1>2, <1>3

LEMMA PublishEdits ==
  ASSUME TypeOK, IdsInv, Publish
  PROVE  Shrinks
<1>1. listing' = [i \in DOMAIN listing |->
                    IF listing[i].id = draftId
                    THEN [listing[i] EXCEPT !.draft = FALSE] ELSE listing[i]]
  BY DEF Publish, Edit
<1>2. listing \in Seq(Release)
  BY DEF TypeOK
<1>3. \A i \in DOMAIN listing : listing[i] \in Release
  BY <1>2
<1>4. \A i \in DOMAIN listing : listing'[i] \in Release /\ Like(listing'[i], listing[i])
  BY <1>1, <1>3 DEF Release, Like
<1>5. listing' = [i \in DOMAIN listing |-> listing'[i]]
  BY <1>1
<1> QED
  BY <1>2, <1>4, <1>5, EditedListing DEF Shrinks, Publish, IdsInv, SortedInv

\* What people do to a draft, as one change of its files and its note.
LEMMA ChangeEdits ==
  ASSUME TypeOK, IdsInv, ChangeDraft
  PROVE  \E x \in Elements(listing), fs \in SUBSET Uploads, note \in {"nonce", "other"} :
           /\ x.ours /\ x.draft /\ (note = "nonce" => x.note = "nonce")
           /\ listing' = [i \in DOMAIN listing |->
                            IF listing[i].id = x.id
                            THEN [listing[i] EXCEPT !.files = fs, !.note = note]
                            ELSE listing[i]]
<1>1. PICK x \in {x \in Elements(listing) : x.ours /\ x.draft} :
        \/ \E f \in Uploads \ x.files :
             Edit(x.id, LAMBDA y : [y EXCEPT !.files = @ \cup {f}])
        \/ \E f \in x.files :
             Edit(x.id, LAMBDA y : [y EXCEPT !.files = @ \ {f}])
        \/ Edit(x.id, LAMBDA y : [y EXCEPT !.note = "other"])
  BY DEF ChangeDraft
<1>2. /\ x \in Release
      /\ \A i \in DOMAIN listing :
           listing[i] \in Release /\ (listing[i].id = x.id => listing[i] = x)
  <2>1. listing \in Seq(Release) /\ Descending(listing)
    BY DEF TypeOK, IdsInv, SortedInv
  <2>2. \A i \in DOMAIN listing : listing[i] \in Release /\ listing[i] \in Elements(listing)
    BY <2>1 DEF Elements
  <2>3. \A i \in DOMAIN listing : listing[i].id = x.id => listing[i] = x
    BY <2>1, <2>2, OneEntry
  <2>4. x \in Release
    BY <2>2 DEF Elements
  <2> QED
    BY <2>2, <2>3, <2>4
<1> DEFINE Becomes(fs, note) ==
             listing' = [i \in DOMAIN listing |->
                           IF listing[i].id = x.id
                           THEN [listing[i] EXCEPT !.files = fs, !.note = note]
                           ELSE listing[i]]
<1>3. SUFFICES \E fs \in SUBSET Uploads, note \in {"nonce", "other"} :
                 (note = "nonce" => x.note = "nonce") /\ Becomes(fs, note)
  OBVIOUS
<1>4. x.files \in SUBSET Uploads /\ x.note \in {"nonce", "other"}
  BY <1>2 DEF Release
<1>5. \A i \in DOMAIN listing : listing[i].id = x.id =>
        /\ \A fs : [listing[i] EXCEPT !.files = fs]
                     = [listing[i] EXCEPT !.files = fs, !.note = x.note]
        /\ [listing[i] EXCEPT !.note = "other"]
             = [listing[i] EXCEPT !.files = x.files, !.note = "other"]
  BY <1>2 DEF Release
<1>6. CASE \E f \in Uploads \ x.files :
             Edit(x.id, LAMBDA y : [y EXCEPT !.files = @ \cup {f}])
  <2>1. PICK f \in Uploads \ x.files :
          Edit(x.id, LAMBDA y : [y EXCEPT !.files = @ \cup {f}])
    BY <1>6
  <2>2. Becomes(x.files \cup {f}, x.note)
    BY <2>1, <1>2, <1>5 DEF Edit
  <2> QED
    BY <2>2, <1>4
<1>7. CASE \E f \in x.files :
             Edit(x.id, LAMBDA y : [y EXCEPT !.files = @ \ {f}])
  <2>1. PICK f \in x.files :
          Edit(x.id, LAMBDA y : [y EXCEPT !.files = @ \ {f}])
    BY <1>7
  <2>2. Becomes(x.files \ {f}, x.note)
    BY <2>1, <1>2, <1>5 DEF Edit
  <2> QED
    BY <2>2, <1>4
<1>8. CASE Edit(x.id, LAMBDA y : [y EXCEPT !.note = "other"])
  <2>1. Becomes(x.files, "other")
    BY <1>2, <1>5, <1>8 DEF Edit
  <2> QED
    BY <2>1, <1>4
<1> QED
  BY <1>1, <1>6, <1>7, <1>8

LEMMA ChangeShrinks ==
  ASSUME TypeOK, IdsInv, ChangeDraft
  PROVE  Shrinks
<1>1. PICK x \in Elements(listing), fs \in SUBSET Uploads, note \in {"nonce", "other"} :
        /\ note = "nonce" => x.note = "nonce"
        /\ listing' = [i \in DOMAIN listing |->
                         IF listing[i].id = x.id
                         THEN [listing[i] EXCEPT !.files = fs, !.note = note]
                         ELSE listing[i]]
  BY ChangeEdits
<1>2. listing \in Seq(Release) /\ Descending(listing)
  BY DEF TypeOK, IdsInv, SortedInv
<1>3. \A i \in DOMAIN listing :
        listing[i] \in Release /\ (listing[i].id = x.id => listing[i] = x)
  <2>1. \A i \in DOMAIN listing : listing[i] \in Release /\ listing[i] \in Elements(listing)
    BY <1>2 DEF Elements
  <2> QED
    BY <2>1, <1>2, OneEntry
<1>4. \A i \in DOMAIN listing : listing'[i] \in Release /\ Like(listing'[i], listing[i])
  BY <1>1, <1>3 DEF Release, Like
<1>5. listing' = [i \in DOMAIN listing |-> listing'[i]]
  BY <1>1
<1> QED
  BY <1>2, <1>4, <1>5, EditedListing DEF Shrinks, ChangeDraft, history, IdsInv, SortedInv

-----------------------------------------------------------------------------
\* The steps that change neither what there is nor what was read of it.
Quiet ==
  \/ EnsureNoTag \/ EnsureNoRelease \/ CreateTag
  \/ Inspect("inspect", "reconfirm") \/ ConfirmAgain \/ Inspect("inspect again", "upload")
  \/ (\E f \in Files : VerifyFile(f))
  \/ ReadUploaded \/ CheckTag \/ CheckSource
  \/ Fail \/ ChangeTag \/ ChangeWorld \/ UNCHANGED vars

Loud ==
  \/ CreateRelease \/ Confirm \/ ReadFirst \/ ReadSecond \/ Compare
  \/ (\E f \in Files : Upload(f))
  \/ Publish \/ LateCreation \/ NewDraft \/ DeleteRelease \/ ChangeDraft

Inspecting == {"inspect", "reconfirm", "inspect again", "upload"}

LEMMA QuietSteps ==
  ASSUME Quiet
  PROVE  /\ UNCHANGED <<listing, lastId, own, first, second, old, page, draftId, late>>
         /\ pc' \in BeforeCreation => pc \in BeforeCreation
         /\ pc' \in {"confirm", "first", "second", "compare"} => pc' = pc
         /\ pc' \in Inspecting => pc \in Inspecting
<1> USE DEF BeforeCreation, Inspecting, Goto, Stopped, reading, history, people
<1>1. CASE EnsureNoTag \/ EnsureNoRelease \/ CreateTag
  BY <1>1 DEF EnsureNoTag, EnsureNoRelease, CreateTag, ReadAbsent
<1>2. CASE Inspect("inspect", "reconfirm") \/ ConfirmAgain \/ Inspect("inspect again", "upload")
  BY <1>2 DEF Inspect, ConfirmAgain
<1>3. CASE \E f \in Files : VerifyFile(f)
  BY <1>3 DEF VerifyFile
<1>4. CASE ReadUploaded
  BY <1>4 DEF ReadUploaded
<1>5. CASE CheckTag \/ CheckSource
  BY <1>5 DEF CheckTag, CheckSource
<1>6. CASE Fail
  BY <1>6 DEF Fail
<1>7. CASE ChangeTag \/ ChangeWorld \/ UNCHANGED vars
  BY <1>7 DEF ChangeTag, ChangeWorld, vars
<1> QED
  BY <1>1, <1>2, <1>3, <1>4, <1>5, <1>6, <1>7 DEF Quiet

LEMMA LoudOrQuiet ==
  ASSUME [Next]_vars
  PROVE  Loud \/ Quiet
BY Zenon DEF Next, Step, Loud, Quiet

LEMMA ListingStep ==
  ASSUME TypeOK, IdsInv, [Next]_vars
  PROVE  Shrinks \/ \E note \in {"nonce", "other"} : Grows(note)
<1>1. CASE Quiet
  BY <1>1, QuietSteps, KeptListing
<1>2. CASE Confirm \/ ReadFirst \/ ReadSecond \/ Compare
  <2>1. UNCHANGED <<listing, lastId, own>>
    BY <1>2 DEF Confirm, ReadFirst, ReadSecond, Compare, history
  <2> QED
    BY <2>1, KeptListing
<1>3. CASE (\E f \in Files : Upload(f)) \/ Publish \/ DeleteRelease \/ ChangeDraft
  BY <1>3, UploadEdits, PublishEdits, RemovedFromListing, ChangeShrinks
<1>4. CASE NewDraft
  <2>1. listing' = <<Draft(lastId + 1, "other")>> \o listing /\ lastId' = lastId + 1 /\ own' = own
    BY <1>4 DEF NewDraft, history
  <2>2. Grows("other")
    BY <2>1, GrownListing DEF Grows
  <2> QED
    BY <2>2
<1>5. CASE CreateRelease \/ LateCreation
  <2>1. CASE UNCHANGED <<listing, lastId, own>>
    BY <2>1, KeptListing
  <2>2. CASE Insert
    <3>1. listing' = <<Draft(lastId + 1, "nonce")>> \o listing /\ lastId' = lastId + 1
          /\ own' = own \cup {lastId + 1}
      BY <2>2 DEF Insert
    <3>2. Grows("nonce")
      BY <3>1, GrownListing DEF Grows
    <3> QED
      BY <3>2
  <2> QED
    BY <1>5, <2>1, <2>2 DEF CreateRelease, LateCreation
<1> QED
  BY <1>1, <1>2, <1>3, <1>4, <1>5, LoudOrQuiet DEF Loud

\* What is read was listed.
LEMMA ReadStep ==
  ASSUME TypeOK, IdsInv, [Next]_vars
  PROVE  /\ first' \in Seq(Release) /\ second' \in Seq(Release) /\ page' \in Nat \ {0}
         /\ Elements(first') \cup Elements(second') \subseteq Known
<1>0. /\ listing \in Seq(Release) /\ first \in Seq(Release) /\ second \in Seq(Release)
      /\ page \in Nat \ {0} /\ Descending(listing)
  BY DEF TypeOK, IdsInv, SortedInv
<1>1. Page(page) \in Seq(Release) /\ Elements(Page(page)) \subseteq Elements(listing)
  <2>1. Page(page) \in Seq(Release)
        /\ \A x \in Elements(Page(page)) : \E k \in DOMAIN listing : x = listing[k]
    BY <1>0, PageOf
  <2> QED
    BY <2>1 DEF Elements
<1>2. CASE UNCHANGED <<first, second, page>>
  BY <1>0, <1>2 DEF Known
<1>3. CASE Confirm
  BY <1>3 DEF Confirm, Elements
<1>4. CASE ReadFirst
  <2>1. first' = first \o Page(page) /\ second' = second /\ page' \in {page + 1, 1}
    BY <1>4 DEF ReadFirst, ReadPage
  <2>2. first' \in Seq(Release) /\ Elements(first') = Elements(first) \cup Elements(Page(page))
    BY <2>1, <1>0, <1>1, Joined
  <2> QED
    BY <2>1, <2>2, <1>0, <1>1 DEF Known
<1>5. CASE ReadSecond
  <2>1. second' = second \o Page(page) /\ first' = first /\ page' \in {page + 1, 1}
    BY <1>5 DEF ReadSecond, ReadPage
  <2>2. second' \in Seq(Release) /\ Elements(second') = Elements(second) \cup Elements(Page(page))
    BY <2>1, <1>0, <1>1, Joined
  <2> QED
    BY <2>1, <2>2, <1>0, <1>1 DEF Known
<1>6. CASE Loud
  <2>1. CASE CreateRelease \/ Compare \/ (\E f \in Files : Upload(f)) \/ Publish
    BY <2>1, <1>2 DEF CreateRelease, Compare, Upload, Publish, reading
  <2>2. CASE LateCreation \/ NewDraft \/ DeleteRelease \/ ChangeDraft
    BY <2>2, <1>2 DEF LateCreation, NewDraft, DeleteRelease, ChangeDraft, reading
  <2> QED
    BY <1>3, <1>4, <1>5, <1>6, <2>1, <2>2 DEF Loud
<1> QED
  BY <1>2, <1>6, QuietSteps, LoudOrQuiet

\* Where what is known after a step comes from.
LEMMA Origin ==
  ASSUME TypeOK, IdsInv, [Next]_vars
  PROVE  \/ /\ UNCHANGED <<lastId, own>>
            /\ \A y \in Known' : \E x \in Known : Like(y, x)
         \/ \E note \in {"nonce", "other"} :
              /\ Grows(note)
              /\ \A y \in Known' : y = Draft(lastId + 1, note) \/ \E x \in Known : Like(y, x)
<1>1. Known' = Elements(listing') \cup Elements(first') \cup Elements(second')
  BY DEF Known, Elements
<1>2. \A y \in Elements(first') \cup Elements(second') : \E x \in Known : Like(y, x)
  BY ReadStep DEF Like
<1>3. CASE Shrinks
  BY <1>1, <1>2, <1>3 DEF Shrinks, Known
<1>4. ASSUME NEW note \in {"nonce", "other"}, Grows(note)
      PROVE  \A y \in Known' : y = Draft(lastId + 1, note) \/ \E x \in Known : Like(y, x)
  <2>1. \A y \in Elements(listing) : y \in Known /\ Like(y, y)
    BY DEF Known, Like
  <2> QED
    BY <1>1, <1>2, <1>4, <2>1 DEF Grows
<1> QED
  BY <1>3, <1>4, ListingStep

-----------------------------------------------------------------------------
\* The ids and the owner of the draft.

LEMMA KeepsSorted ==
  ASSUME TypeOK, IdsInv, [Next]_vars
  PROVE  SortedInv'
<1> USE DEF IdsInv, SortedInv
<1>1. lastId \in Nat
  BY Zenon DEF TypeOK
<1>2. Descending(listing')
  BY ListingStep DEF Shrinks, Grows
<1>3. old' \subseteq 1..lastId
  <2>1. CASE Confirm
    <3>1. old' = Ids(listing)
      BY <2>1 DEF Confirm
    <3> QED
      BY <3>1 DEF Ids, Known
  <2>2. CASE Loud /\ ~ Confirm
    BY <2>2 DEF Loud, CreateRelease, ReadFirst, ReadSecond, Compare, Upload, Publish,
                LateCreation, NewDraft, DeleteRelease, ChangeDraft, reading
  <2> QED
    BY <2>1, <2>2, LoudOrQuiet, QuietSteps
<1>4. CASE /\ UNCHANGED <<lastId, own>>
           /\ \A y \in Known' : \E x \in Known : Like(y, x)
  BY <1>2, <1>3, <1>4 DEF Like
<1>5. ASSUME NEW note \in {"nonce", "other"}, Grows(note),
             \A y \in Known' : y = Draft(lastId + 1, note) \/ \E x \in Known : Like(y, x)
      PROVE  SortedInv'
  <2>1. lastId' = lastId + 1 /\ own' \subseteq own \cup {lastId + 1}
    BY <1>5 DEF Grows
  <2>2. \A y \in Known' : y.id \in 1..(lastId + 1)
    BY <1>1, <1>5 DEF Draft, Like
  <2> QED
    BY <1>1, <1>2, <1>3, <2>1, <2>2
<1> QED
  BY <1>4, <1>5, Origin

LEMMA KeepsOurs ==
  ASSUME TypeOK, IdsInv, [Next]_vars
  PROVE  OursInv'
<1>1. lastId \in Nat
  BY Zenon DEF TypeOK
<1>2. /\ \A x, y \in Known : x.id = y.id => x.ours = y.ours
      /\ \A x \in Known : x.id \in own => x.ours
      /\ \A x \in Known : x.id \in 1..lastId
  BY DEF IdsInv, OursInv, SortedInv
<1>3. CASE /\ UNCHANGED <<lastId, own>>
           /\ \A y \in Known' : \E x \in Known : Like(y, x)
  BY <1>2, <1>3 DEF OursInv, Like
<1>4. ASSUME NEW note \in {"nonce", "other"}, Grows(note),
             \A y \in Known' : y = Draft(lastId + 1, note) \/ \E x \in Known : Like(y, x)
      PROVE  OursInv'
  <2> DEFINE d == Draft(lastId + 1, note)
  <2>1. d.id = lastId + 1 /\ d.ours
    BY DEF Draft
  <2> HIDE DEF d
  <2>2. \A x \in Known : x.id # d.id
    BY <1>1, <1>2, <2>1
  <2>3. \A x \in Known : x.id \in own' => x.ours
    BY <1>2, <1>4, <2>1, <2>2 DEF Grows
  <2>4. \A y \in Known' : y = d \/ \E x \in Known : Like(y, x)
    BY <1>4 DEF d
  <2>5. \A x, y \in Known' : x.id = y.id => x.ours = y.ours
    BY <1>2, <2>1, <2>2, <2>4 DEF Like
  <2>6. \A x \in Known' : x.id \in own' => x.ours
    BY <2>1, <2>3, <2>4 DEF Like
  <2> QED
    BY <2>5, <2>6 DEF OursInv
<1> QED
  BY <1>3, <1>4, Origin

\* The nonce stands only in what the transaction created.
LEMMA KeepsNonce ==
  ASSUME TypeOK, IdsInv, [Next]_vars
  PROVE  \A y \in Known' : y.note = "nonce" => y.id \in own'
<1>1. \A x \in Known : x.note = "nonce" => x.id \in own
  BY DEF IdsInv, OwnInv
<1>2. CASE /\ UNCHANGED <<lastId, own>>
           /\ \A y \in Known' : \E x \in Known : Like(y, x)
  BY <1>1, <1>2 DEF Like
<1>3. ASSUME NEW note \in {"nonce", "other"}, Grows(note),
             \A y \in Known' : y = Draft(lastId + 1, note) \/ \E x \in Known : Like(y, x)
      PROVE  \A y \in Known' : y.note = "nonce" => y.id \in own'
  <2>1. own \subseteq own' /\ (note = "nonce" => lastId + 1 \in own')
    BY <1>3 DEF Grows
  <2>2. ASSUME NEW y \in Known', y.note = "nonce" PROVE y.id \in own'
    <3>1. CASE y = Draft(lastId + 1, note)
      BY <2>1, <2>2, <3>1 DEF Draft
    <3>2. CASE \E x \in Known : Like(y, x)
      BY <1>1, <2>1, <2>2, <3>2 DEF Like
    <3> QED
      BY <1>3, <3>1, <3>2
  <2> QED
    BY <2>2
<1> QED
  BY <1>2, <1>3, Origin

\* Only an answer to a creation that took place names a release.
LEMMA NamesCreated == "created" \notin CreateResults[FALSE]
<1>1. SUFFICES ASSUME NEW e \in Ends, Plausible(e, FALSE) PROVE CreateResult(e) # "created"
  BY DEF CreateResults
<1>2. e.head \in Heads /\ e.body \in Bodies
  BY DEF Ends
<1>3. e.status = 201 /\ e.head # "none" => FALSE
  BY <1>1 DEF Plausible, Between, ServerFailed
<1> QED
  BY <1>2, <1>3 DEF CreateResult, Heads, Bodies

LEMMA CreationKeepsOwn ==
  ASSUME TypeOK, IdsInv, CreateRelease
  PROVE  /\ pc' \notin BeforeCreation
         /\ late' => own' = {}
         /\ \A d, e \in own' : d = e
         /\ draftId' # 0 => draftId' \in own'
<1>1. pc = "create" /\ own = {} /\ ~ late /\ draftId = 0
  BY DEF CreateRelease, IdsInv, OwnInv, BeforeCreation
<1>2. PICK created \in BOOLEAN :
        /\ IF created THEN Insert ELSE UNCHANGED <<listing, lastId, own>>
        /\ \E r \in CreateResults[created] :
             CASE r = "created" -> pc' = "upload" /\ draftId' = lastId' /\ UNCHANGED late
               [] r = "unknown" -> /\ pc' = IF caller = "promotion" THEN "failed" ELSE "confirm"
                                   /\ late' \in {FALSE, ~ created}
                                   /\ UNCHANGED draftId
               [] OTHER -> pc' = "failed" /\ UNCHANGED <<late, draftId>>
  BY DEF CreateRelease
<1>3. own' = IF created THEN {lastId + 1} ELSE {}
  BY <1>1, <1>2 DEF Insert
<1>4. created => lastId' = lastId + 1
  BY <1>2 DEF Insert
<1>5. PICK r \in CreateResults[created] :
        CASE r = "created" -> pc' = "upload" /\ draftId' = lastId' /\ UNCHANGED late
          [] r = "unknown" -> /\ pc' = IF caller = "promotion" THEN "failed" ELSE "confirm"
                              /\ late' \in {FALSE, ~ created}
                              /\ UNCHANGED draftId
          [] OTHER -> pc' = "failed" /\ UNCHANGED <<late, draftId>>
  BY <1>2
<1>6. pc' \in {"upload", "confirm", "failed"}
  BY <1>5
<1>7. r = "created" => created
  BY NamesCreated
<1>8. late' => ~ created
  BY <1>1, <1>5
<1>9. draftId' # 0 => draftId' \in own'
  BY <1>1, <1>3, <1>4, <1>5, <1>7
<1> QED
  BY <1>3, <1>6, <1>8, <1>9 DEF BeforeCreation

LEMMA KeepsOwn ==
  ASSUME TypeOK, IdsInv, [Next]_vars
  PROVE  OwnInv'
<1>1. /\ pc \in BeforeCreation => own = {} /\ ~ late /\ draftId = 0
      /\ late => own = {}
      /\ \A d, e \in own : d = e
      /\ draftId # 0 => draftId \in own
      /\ \A x \in Known : x.note = "nonce" => x.id \in own
  BY DEF IdsInv, OwnInv
<1>2. SUFFICES /\ pc' \in BeforeCreation => own' = {} /\ ~ late' /\ draftId' = 0
               /\ late' => own' = {}
               /\ \A d, e \in own' : d = e
               /\ draftId' # 0 => draftId' \in own'
  BY KeepsNonce DEF OwnInv
<1>3. CASE Quiet
  BY <1>1, <1>3, QuietSteps
<1>4. CASE CreateRelease
  BY <1>4, CreationKeepsOwn
<1>5. CASE LateCreation
  BY <1>1, <1>5 DEF LateCreation, Insert
<1>6. CASE Compare
  <2>1. PICK x \in Matches(second) : Requested(x) /\ draftId' = x.id
    BY <1>6 DEF Compare
  <2>2. x \in Known /\ x.note = "nonce"
    BY <2>1 DEF Matches, Known, Requested
  <2>3. draftId' \in own /\ UNCHANGED <<own, late>> /\ pc' = "inspect"
    BY <1>1, <1>6, <2>1, <2>2 DEF Compare, Goto, history
  <2> QED
    BY <1>1, <2>3 DEF BeforeCreation
<1>7. CASE Confirm \/ ReadFirst \/ ReadSecond
  <2>1. UNCHANGED <<own, late, draftId>>
    BY <1>7 DEF Confirm, ReadFirst, ReadSecond, history
  <2>2. pc' \notin BeforeCreation
    BY <1>7 DEF Confirm, ReadFirst, ReadSecond, ReadPage, Goto, BeforeCreation
  <2> QED
    BY <1>1, <2>1, <2>2
<1>8. CASE (\E f \in Files : Upload(f)) \/ Publish
  <2>1. UNCHANGED <<own, late, draftId>>
    BY <1>8 DEF Upload, Publish, history
  <2>2. pc' \notin BeforeCreation
    BY <1>8 DEF Upload, Publish, Goto, BeforeCreation
  <2> QED
    BY <1>1, <2>1, <2>2
<1>9. CASE NewDraft \/ DeleteRelease \/ ChangeDraft
  BY <1>1, <1>9 DEF NewDraft, DeleteRelease, ChangeDraft, history
<1> QED
  BY <1>3, <1>4, <1>5, <1>6, <1>7, <1>8, <1>9, LoudOrQuiet DEF Loud

-----------------------------------------------------------------------------
\* The inventories.

\* A step that reads nothing, whatever it does to the listing.
LEMMA OtherSteps ==
  ASSUME TypeOK, IdsInv, Inventories, [Next]_vars,
         UNCHANGED <<first, second, page, old>>,
         pc' \in BeforeCreation \cup {"confirm"} => old = {},
         pc' \in {"first", "second", "compare"} => pc' = pc,
         pc' \in Inspecting => old = {} \/ (pc \in Inspecting /\ draftId' = draftId)
  PROVE  Inventories'
<1>1. lastId \in Nat /\ old \subseteq 1..lastId
  BY Zenon DEF TypeOK, IdsInv, SortedInv
<1>2. \A x \in Elements(first) : x.id \in 1..lastId
  BY DEF IdsInv, SortedInv, Known
<1>3. \A y \in Elements(listing') :
        \/ y.id = lastId + 1
        \/ \E x \in Elements(listing) : x.id = y.id /\ x.ours = y.ours
  BY ListingStep DEF Shrinks, Grows, Draft, Like
<1>4. Ids(listing') \subseteq Ids(listing) \cup {lastId + 1}
  BY <1>3 DEF Ids
<1>5. lastId + 1 \notin old /\ lastId + 1 \notin Ids(first)
  BY <1>1, <1>2 DEF Ids
<1>6. FirstInv'
  <2>1. pc' = "first" =>
          /\ Len(first) = (page - 1) * PageSize /\ second = <<>> /\ Distinct(first)
          /\ Gone(first) \/ NewerRead(first)
    BY DEF Inventories, FirstInv
  <2>2. Gone(first) => Gone(first)'
    BY <1>4, <1>5 DEF Gone, Ids, Elements
  <2>3. NewerRead(first) => NewerRead(first)'
    BY <1>4, <1>5 DEF NewerRead, Ids, Elements
  <2>4. Distinct(first) => Distinct(first)'
    BY DEF Distinct
  <2> QED
    BY <2>1, <2>2, <2>3, <2>4 DEF FirstInv
<1>7. SecondInv'
  <2>1. Ids(first)' = Ids(first) /\ Ids(second)' = Ids(second)
    BY DEF Ids, Elements
  <2>2. Ids(listing)' = Ids(listing')
    BY DEF Ids, Elements
  <2> QED
    BY <1>4, <1>5, <2>1, <2>2 DEF Inventories, SecondInv
<1>8. OnlyMatch'
  <2>1. Matches(listing)' = {x \in Elements(listing') : x.ours}
    BY DEF Matches, Elements
  <2>2. SUFFICES ASSUME old # {}, draftId' # 0, pc' \in Inspecting,
                        NEW y \in Elements(listing'), y.ours, y.id \in old
                 PROVE  y.id = draftId'
    BY <2>1 DEF OnlyMatch, Inspecting
  <2>3. PICK x \in Elements(listing) : x.id = y.id /\ x.ours = y.ours
    <3>1. y.id # lastId + 1
      BY <1>5, <2>2
    <3> QED
      BY <1>3, <2>2, <3>1
  <2>4. x \in Matches(listing) /\ draftId' = draftId /\ pc \in Inspecting
    BY <2>2, <2>3 DEF Matches
  <2> QED
    BY <2>2, <2>3, <2>4 DEF Inventories, OnlyMatch, Inspecting
<1> QED
  BY <1>6, <1>7, <1>8 DEF Inventories

LEMMA ConfirmInventories ==
  ASSUME TypeOK, IdsInv, Inventories, Confirm
  PROVE  Inventories'
<1>1. pc' = "first" /\ page' = 1 /\ first' = <<>> /\ second' = <<>>
  BY DEF Confirm, Goto
<1>2. Ids(first') = {} /\ DOMAIN first' = {} /\ Len(first') = 0
  BY <1>1 DEF Ids, Elements
<1>3. Distinct(first)' /\ NewerRead(first)'
  BY <1>2 DEF Distinct, NewerRead, Ids, Elements
<1>4. (page' - 1) * PageSize = 0
  BY <1>1
<1> QED
  BY <1>1, <1>2, <1>3, <1>4
  DEF Inventories, FirstInv, SecondInv, OnlyMatch, BeforeCreation

LEMMA FirstInventories ==
  ASSUME TypeOK, IdsInv, Inventories, ReadFirst
  PROVE  Inventories'
<1>1. /\ pc = "first" /\ first' = first \o Page(page)
      /\ Ids(Page(page)) \cap Ids(first) = {}
      /\ UNCHANGED <<listing, second, old>>
      /\ IF Len(Page(page)) = PageSize THEN pc' = "first" /\ page' = page + 1
                                       ELSE pc' = "second" /\ page' = 1
  BY DEF ReadFirst, ReadPage, Goto
<1>2. /\ listing \in Seq(Release) /\ first \in Seq(Release) /\ page \in Nat \ {0}
      /\ Descending(listing)
  BY DEF TypeOK, IdsInv, SortedInv
<1>3. /\ Len(first) = (page - 1) * PageSize /\ second = <<>> /\ Distinct(first)
      /\ Gone(first) \/ NewerRead(first)
  BY <1>1 DEF Inventories, FirstInv
<1> DEFINE g == first \o Page(page)
<1>4. /\ Distinct(g) /\ (Gone(g) \/ NewerRead(g))
      /\ Len(Page(page)) = PageSize => Len(g) = page * PageSize
      /\ Len(Page(page)) # PageSize => Gone(g) \/ Ids(listing) \cap old \subseteq Ids(g)
  BY <1>1, <1>2, <1>3, ReadOn
<1> HIDE DEF g
<1>5. first' = g
  BY <1>1 DEF g
<1>6. Distinct(first)' /\ (Gone(first)' \/ NewerRead(first)')
  BY <1>1, <1>4, <1>5 DEF Distinct, Gone, NewerRead, Ids, Elements
<1>7. CASE Len(Page(page)) = PageSize
  <2>1. Len(first') = (page' - 1) * PageSize
    BY <1>1, <1>2, <1>4, <1>5, <1>7
  <2> QED
    BY <1>1, <1>3, <1>6, <1>7, <2>1
    DEF Inventories, FirstInv, SecondInv, OnlyMatch, BeforeCreation
<1>8. CASE Len(Page(page)) # PageSize
  <2>1. (\E d \in Ids(g) : d \notin Ids(listing)) \/ Ids(listing) \cap old \subseteq Ids(g)
    BY <1>4, <1>8 DEF Gone
  <2>2. Ids(second)' = {} /\ Ids(listing)' = Ids(listing) /\ Ids(first)' = Ids(g)
    BY <1>1, <1>3, <1>5 DEF Ids, Elements
  <2>3. SecondInv'
    BY <1>1, <2>1, <2>2 DEF SecondInv
  <2> QED
    BY <1>1, <1>8, <2>3 DEF Inventories, FirstInv, OnlyMatch, BeforeCreation
<1> QED
  BY <1>7, <1>8

LEMMA SecondInventories ==
  ASSUME TypeOK, IdsInv, Inventories, ReadSecond
  PROVE  Inventories'
<1>1. /\ pc = "second" /\ second' = second \o Page(page) /\ pc' \in {"second", "compare"}
      /\ UNCHANGED <<listing, first, old>>
  BY DEF ReadSecond, ReadPage, Goto
<1>2. /\ listing \in Seq(Release) /\ second \in Seq(Release) /\ page \in Nat \ {0}
      /\ Descending(listing)
  BY DEF TypeOK, IdsInv, SortedInv
<1>3. Page(page) \in Seq(Release) /\ Elements(Page(page)) \subseteq Elements(listing)
  <2>1. Page(page) \in Seq(Release)
        /\ \A x \in Elements(Page(page)) : \E k \in DOMAIN listing : x = listing[k]
    BY <1>2, PageOf
  <2> QED
    BY <2>1 DEF Elements
<1>4. Elements(second') = Elements(second) \cup Elements(Page(page))
  BY <1>1, <1>2, <1>3, Joined
<1>5. Ids(listing) \cup Ids(second') = Ids(listing) \cup Ids(second)
  BY <1>3, <1>4 DEF Ids
<1>6. SecondInv'
  <2>1. /\ Ids(second)' = Ids(second') /\ Ids(listing)' = Ids(listing)
        /\ Ids(first)' = Ids(first)
    BY <1>1 DEF Ids, Elements
  <2> QED
    BY <1>1, <1>5, <2>1 DEF Inventories, SecondInv
<1> QED
  BY <1>1, <1>6 DEF Inventories, FirstInv, OnlyMatch, BeforeCreation

LEMMA CompareInventories ==
  ASSUME TypeOK, IdsInv, Inventories, Compare
  PROVE  Inventories'
<1>1. /\ pc = "compare" /\ pc' = "inspect" /\ UNCHANGED <<listing, first, second, old>>
      /\ {<<x.id, x.ours>> : x \in Elements(first)}
           = {<<x.id, x.ours>> : x \in Elements(second)}
  BY DEF Compare, Goto
<1>2. PICK z \in Matches(second) : Matches(second) = {z} /\ draftId' = z.id
  BY DEF Compare
<1>3. ASSUME NEW x \in Elements(first) PROVE \E y \in Elements(second) : x.id = y.id
  <2>1. <<x.id, x.ours>> \in {<<y.id, y.ours>> : y \in Elements(second)}
    BY <1>1
  <2> QED
    BY <2>1
<1>4. Ids(first) \subseteq Ids(second)
  BY <1>3 DEF Ids
<1>5. Ids(listing) \cap old \subseteq Ids(second)
  BY <1>1, <1>4 DEF Inventories, SecondInv
<1>6. ASSUME NEW x \in Matches(listing), x.id \in old
      PROVE  x.id = draftId'
  <2>1. x \in Elements(listing) /\ x.ours
    BY DEF Matches
  <2>2. PICK y \in Elements(second) : y.id = x.id
    BY <1>5, <1>6, <2>1 DEF Ids
  <2>3. y.ours
    BY <2>1, <2>2 DEF IdsInv, OursInv, Known
  <2>4. y \in Matches(second)
    BY <2>3 DEF Matches
  <2> QED
    BY <1>2, <2>2, <2>4
<1>7. OnlyMatch'
  BY <1>1, <1>6 DEF OnlyMatch, Matches, Elements
<1> QED
  BY <1>1, <1>7 DEF Inventories, FirstInv, SecondInv, BeforeCreation

LEMMA KeepsInventories ==
  ASSUME TypeOK, IdsInv, Inventories, [Next]_vars
  PROVE  Inventories'
<1>1. pc \in BeforeCreation \cup {"confirm"} => old = {}
  BY DEF Inventories, FirstInv
<1>2. CASE Confirm \/ ReadFirst \/ ReadSecond \/ Compare
  BY <1>2, ConfirmInventories, FirstInventories, SecondInventories, CompareInventories
<1>3. CASE Quiet
  <2>1. /\ UNCHANGED <<first, second, page, old, draftId>>
        /\ pc' \in BeforeCreation => pc \in BeforeCreation
        /\ pc' \in {"confirm", "first", "second", "compare"} => pc' = pc
        /\ pc' \in Inspecting => pc \in Inspecting
    BY <1>3, QuietSteps
  <2>2. pc' \in BeforeCreation \cup {"confirm"} => old = {}
    BY <1>1, <2>1
  <2> QED
    BY <2>1, <2>2, OtherSteps
<1>4. CASE CreateRelease
  <2>1. pc = "create" /\ pc' \in {"upload", "confirm", "failed"}
        /\ UNCHANGED <<first, second, page, old>>
    BY <1>4 DEF CreateRelease, reading
  <2>2. old = {}
    BY <1>1, <2>1 DEF BeforeCreation
  <2> QED
    BY <2>1, <2>2, OtherSteps DEF BeforeCreation
<1>5. CASE (\E f \in Files : Upload(f)) \/ Publish
  <2>1. /\ UNCHANGED <<first, second, page, old, draftId>>
        /\ pc' \in {"upload", "failed", "published"} /\ (pc' = "upload" => pc = "upload")
    BY <1>5 DEF Upload, Publish, Goto, reading
  <2> QED
    BY <2>1, OtherSteps DEF BeforeCreation, Inspecting
<1>6. CASE LateCreation \/ NewDraft \/ DeleteRelease \/ ChangeDraft
  <2>1. UNCHANGED <<first, second, page, old, draftId, pc>>
    BY <1>6 DEF LateCreation, NewDraft, DeleteRelease, ChangeDraft, reading
  <2> QED
    BY <1>1, <2>1, OtherSteps
<1> QED
  BY <1>2, <1>3, <1>4, <1>5, <1>6, LoudOrQuiet DEF Loud

-----------------------------------------------------------------------------
\* The files.

LEMMA ListedReleases ==
  ASSUME TypeOK
  PROVE  \A i \in DOMAIN listing : listing[i] \in Release /\ listing[i] \in Elements(listing)
<1>1. listing \in Seq(Release)
  BY Zenon DEF TypeOK
<1> QED
  BY <1>1 DEF Elements

LEMMA StoppedStays ==
  ASSUME [Next]_vars, pc \in Stopped
  PROVE  pc' = pc
<1> USE DEF Stopped, Goto
<1>1. CASE Quiet
  <2>1. CASE EnsureNoTag \/ EnsureNoRelease \/ CreateTag
    BY <2>1 DEF EnsureNoTag, EnsureNoRelease, CreateTag, ReadAbsent
  <2>2. CASE Inspect("inspect", "reconfirm") \/ ConfirmAgain \/ Inspect("inspect again", "upload")
    BY <2>2 DEF Inspect, ConfirmAgain
  <2>3. CASE \E f \in Files : VerifyFile(f)
    BY <2>3 DEF VerifyFile
  <2>4. CASE ReadUploaded \/ CheckTag \/ CheckSource \/ Fail
    BY <2>4 DEF ReadUploaded, CheckTag, CheckSource, Fail
  <2>5. CASE ChangeTag \/ ChangeWorld \/ UNCHANGED vars
    BY <2>5 DEF ChangeTag, ChangeWorld, vars
  <2> QED
    BY <1>1, <2>1, <2>2, <2>3, <2>4, <2>5 DEF Quiet
<1>2. CASE Loud
  <2>1. CASE CreateRelease \/ Confirm \/ Compare \/ Publish
    BY <2>1 DEF CreateRelease, Confirm, Compare, Publish
  <2>2. CASE ReadFirst \/ ReadSecond
    BY <2>2 DEF ReadFirst, ReadSecond, ReadPage
  <2>3. CASE \E f \in Files : Upload(f)
    BY <2>3 DEF Upload
  <2>4. CASE LateCreation \/ NewDraft \/ DeleteRelease \/ ChangeDraft
    BY <2>4 DEF LateCreation, NewDraft, DeleteRelease, ChangeDraft
  <2> QED
    BY <1>2, <2>1, <2>2, <2>3, <2>4 DEF Loud
<1> QED
  BY <1>1, <1>2, LoudOrQuiet

LEMMA QuietTouches ==
  ASSUME Quiet
  PROVE  UNCHANGED touched
<1> USE DEF people
<1>1. CASE EnsureNoTag \/ EnsureNoRelease \/ CreateTag
  BY <1>1 DEF EnsureNoTag, EnsureNoRelease, CreateTag, ReadAbsent
<1>2. CASE Inspect("inspect", "reconfirm") \/ ConfirmAgain \/ Inspect("inspect again", "upload")
  BY <1>2 DEF Inspect, ConfirmAgain
<1>3. CASE \E f \in Files : VerifyFile(f)
  BY <1>3 DEF VerifyFile
<1>4. CASE ReadUploaded \/ CheckTag \/ CheckSource \/ Fail
  BY <1>4 DEF ReadUploaded, CheckTag, CheckSource, Fail
<1>5. CASE ChangeTag \/ ChangeWorld \/ UNCHANGED vars
  BY <1>5 DEF ChangeTag, ChangeWorld, vars
<1> QED
  BY <1>1, <1>2, <1>3, <1>4, <1>5 DEF Quiet

\* A step that publishes nothing.
LEMMA NothingNewPublic ==
  ASSUME PublicInv, [Next]_vars, touched => touched',
         \A y \in Elements(listing') : y.ours /\ ~ y.draft =>
           \E x \in Elements(listing) :
             x.ours /\ ~ x.draft /\ (pc \in Stopped => x.files = y.files)
  PROVE  PublicInv'
<1>1. SUFFICES ASSUME NEW y \in Elements(listing'), y.ours, ~ y.draft
               PROVE  pc' \in Stopped /\ (touched' \/ y.files = Exact)
  BY DEF PublicInv, Elements, Exact, Stopped
<1>2. PICK x \in Elements(listing) : x.ours /\ ~ x.draft /\ (pc \in Stopped => x.files = y.files)
  BY <1>1
<1>3. pc \in Stopped /\ (touched \/ x.files = Exact)
  BY <1>2 DEF PublicInv
<1> QED
  BY <1>2, <1>3, StoppedStays

\* What the checks say of the draft once all of them have passed.
LEMMA AllExact ==
  ASSUME NEW fs \in SUBSET Uploads, {u[1] : u \in fs} = Files,
         Cardinality(fs) = Cardinality(Files), \A f \in Files : <<f, TRUE>> \in fs
  PROVE  fs = Exact
<1>1. IsFiniteSet(Files \cup {"extra"})
  BY FS_AddElement
<1>2. IsFiniteSet(BOOLEAN)
  <2>1. BOOLEAN = {FALSE, TRUE}
    OBVIOUS
  <2>2. IsFiniteSet({FALSE})
    BY FS_Singleton
  <2>3. IsFiniteSet({FALSE} \cup {TRUE})
    BY <2>2, FS_AddElement
  <2>4. {FALSE} \cup {TRUE} = {FALSE, TRUE}
    OBVIOUS
  <2> QED
    BY <2>1, <2>3, <2>4
<1>3. IsFiniteSet(Uploads)
  BY <1>1, <1>2, FS_Product DEF Uploads
<1>4. IsFiniteSet(fs)
  BY <1>3, FS_Subset
<1>5. Exact \subseteq fs
  BY DEF Exact
<1> DEFINE upload == [f \in Files |-> <<f, TRUE>>]
<1>6. upload \in Bijection(Files, Exact)
  <2>1. upload \in [Files -> Exact]
    BY DEF Exact
  <2>2. \A f, g \in Files : upload[f] = upload[g] => f = g
    OBVIOUS
  <2>3. \A e \in Exact : \E f \in Files : upload[f] = e
    BY DEF Exact
  <2> HIDE DEF upload
  <2> QED
    BY <2>1, <2>2, <2>3 DEF Bijection, Injection, Surjection, IsInjective
<1>7. Cardinality(Exact) = Cardinality(Files)
  BY <1>6, FS_Bijection DEF ExistsBijection
<1> QED
  BY <1>4, <1>5, <1>7, FS_Subset

LEMMA PublishPublic ==
  ASSUME TypeOK, IdsInv, FilesInv, Publish
  PROVE  PublicInv'
<1>1. /\ pc = "publish" /\ pc' \in Stopped /\ UNCHANGED touched
      /\ listing' = [i \in DOMAIN listing |->
                       IF listing[i].id = draftId
                       THEN [listing[i] EXCEPT !.draft = FALSE] ELSE listing[i]]
  BY DEF Publish, Edit, Stopped, people
<1>2. SUFFICES ASSUME NEW i \in DOMAIN listing, listing'[i].ours, ~ listing'[i].draft, ~ touched
               PROVE  listing'[i].files = Exact
  <2>1. DOMAIN listing' = DOMAIN listing /\ pc' \in Stopped
    BY <1>1
  <2>2. UNCHANGED <<Exact, touched, Stopped>>
    BY <1>1 DEF Exact, Stopped
  <2>3. SUFFICES ASSUME NEW x \in Elements(listing'), x.ours, ~ x.draft, ~ touched
                 PROVE  x.files = Exact
    BY <2>1, <2>2 DEF PublicInv
  <2>4. PICK i \in DOMAIN listing : x = listing'[i]
    BY <2>1 DEF Elements
  <2> QED
    BY <2>3, <2>4
<1>3. listing[i] \in Release /\ listing[i] \in Elements(listing)
  BY ListedReleases
<1>4. listing'[i].ours = listing[i].ours /\ listing'[i].files = listing[i].files
  BY <1>1, <1>3 DEF Release
<1>5. CASE listing[i].id # draftId
  <2>1. ~ listing[i].draft /\ listing[i].ours
    BY <1>1, <1>2, <1>4, <1>5
  <2>2. pc \in Stopped
    BY <1>3, <2>1 DEF FilesInv, PublicInv
  <2> QED
    BY <1>1, <2>2 DEF Stopped
<1>6. CASE listing[i].id = draftId
  <2>1. /\ Names(listing[i]) = Files
        /\ Cardinality(listing[i].files) = Cardinality(Files)
        /\ \A f \in Files : <<f, TRUE>> \in listing[i].files
    BY <1>1, <1>2, <1>3, <1>6 DEF FilesInv, VerifyInv, Listed
  <2>2. listing[i].files \in SUBSET Uploads
    BY <1>3 DEF Release
  <2>3. listing[i].files = Exact
    BY <2>1, <2>2, AllExact DEF Names
  <2> QED
    BY <1>4, <2>3
<1> QED
  BY <1>5, <1>6

LEMMA KeepsPublic ==
  ASSUME TypeOK, IdsInv, FilesInv, [Next]_vars
  PROVE  PublicInv'
<1>0. /\ PublicInv
      /\ \A i \in DOMAIN listing : listing[i] \in Release /\ listing[i] \in Elements(listing)
  BY ListedReleases DEF FilesInv
<1>1. CASE UNCHANGED <<listing, touched>>
  BY <1>0, <1>1, NothingNewPublic
<1>2. CASE Quiet
  <2>1. UNCHANGED touched
    BY <1>2, QuietTouches
  <2> QED
    BY <1>1, <1>2, <2>1, QuietSteps
<1>3. CASE Confirm \/ ReadFirst \/ ReadSecond \/ Compare
  <2>1. UNCHANGED <<listing, touched>>
    BY <1>3 DEF Confirm, ReadFirst, ReadSecond, Compare, people
  <2> QED
    BY <1>1, <2>1
<1>4. CASE CreateRelease \/ LateCreation \/ NewDraft
  <2>1. UNCHANGED touched
    BY <1>4 DEF CreateRelease, LateCreation, NewDraft, people
  <2>2. CASE Shrinks /\ UNCHANGED listing
    BY <1>1, <2>1, <2>2
  <2>3. ASSUME NEW note \in {"nonce", "other"}, listing' = <<Draft(lastId + 1, note)>> \o listing,
               lastId' = lastId + 1
        PROVE  PublicInv'
    <3>1. Elements(listing') = {Draft(lastId + 1, note)} \cup Elements(listing)
      BY <2>3, GrownListing
    <3>2. \A y \in Elements(listing') : y.ours /\ ~ y.draft => y \in Elements(listing)
      BY <3>1 DEF Draft
    <3> QED
      BY <1>0, <2>1, <3>2, NothingNewPublic
  <2>4. UNCHANGED listing \/ \E note \in {"nonce", "other"} :
          listing' = <<Draft(lastId + 1, note)>> \o listing /\ lastId' = lastId + 1
    BY <1>4 DEF CreateRelease, LateCreation, NewDraft, Insert
  <2> QED
    BY <1>1, <2>1, <2>3, <2>4
<1>5. ASSUME NEW f \in Files, Upload(f) PROVE PublicInv'
  <2>1. pc = "upload" /\ UNCHANGED touched
    BY <1>5 DEF Upload, Goto, people
  <2>2. PICK stored, healthy \in BOOLEAN :
          IF stored
          THEN Edit(draftId, LAMBDA x : [x EXCEPT !.files = @ \cup {<<f, healthy>>}])
          ELSE UNCHANGED listing
    BY <1>5 DEF Upload
  <2>3. \A i \in DOMAIN listing' : i \in DOMAIN listing
          /\ listing'[i].ours = listing[i].ours /\ listing'[i].draft = listing[i].draft
    BY <1>0, <2>2 DEF Edit, Release
  <2>4. \A y \in Elements(listing') : y.ours /\ ~ y.draft =>
          \E x \in Elements(listing) : x.ours /\ ~ x.draft
    BY <2>3 DEF Elements
  <2> QED
    BY <1>0, <2>1, <2>4, NothingNewPublic DEF Stopped
<1>6. CASE DeleteRelease
  <2>1. PICK i \in DOMAIN listing :
          listing' = SubSeq(listing, 1, i - 1) \o SubSeq(listing, i + 1, Len(listing))
    BY <1>6 DEF DeleteRelease
  <2>2. Elements(listing') \subseteq Elements(listing)
    <3>1. listing \in Seq(Release)
      BY DEF TypeOK
    <3> QED
      BY <2>1, <3>1, Removed
  <2> QED
    BY <1>0, <1>6, <2>2, NothingNewPublic DEF DeleteRelease
<1>7. CASE ChangeDraft
  <2>1. PICK x \in Elements(listing), fs \in SUBSET Uploads, note \in {"nonce", "other"} :
          /\ x.ours /\ x.draft
          /\ listing' = [i \in DOMAIN listing |->
                           IF listing[i].id = x.id
                           THEN [listing[i] EXCEPT !.files = fs, !.note = note]
                           ELSE listing[i]]
    BY <1>7, ChangeEdits
  <2>2. \A i \in DOMAIN listing : listing[i].id = x.id => listing[i] = x
    <3>1. listing \in Seq(Release) /\ Descending(listing)
      BY DEF TypeOK, IdsInv, SortedInv
    <3> QED
      BY <1>0, <3>1, OneEntry
  <2>3. \A i \in DOMAIN listing' :
          i \in DOMAIN listing /\ (listing'[i].draft \/ listing'[i] = listing[i])
    <3>1. DOMAIN listing' = DOMAIN listing
      BY <2>1
    <3>2. SUFFICES ASSUME NEW i \in DOMAIN listing
                   PROVE  listing'[i].draft \/ listing'[i] = listing[i]
      BY <3>1
    <3>3. CASE listing[i].id = x.id
      <4>1. listing[i] = x /\ listing[i] \in Release
        BY <1>0, <2>2, <3>3
      <4>2. listing'[i] = [listing[i] EXCEPT !.files = fs, !.note = note]
        BY <2>1, <3>3
      <4> QED
        BY <2>1, <4>1, <4>2 DEF Release
    <3> QED
      BY <2>1, <3>3
  <2>4. \A y \in Elements(listing') : ~ y.draft => y \in Elements(listing)
    BY <2>3 DEF Elements
  <2> QED
    BY <1>0, <1>7, <2>4, NothingNewPublic DEF ChangeDraft
<1> QED
  BY <1>2, <1>3, <1>4, <1>5, <1>6, <1>7, PublishPublic, LoudOrQuiet DEF Loud

\* What the listing of the files says of the draft, and what is checked.
Holds(x, done) ==
  /\ Names(x) = Files /\ Cardinality(x.files) = Cardinality(Files)
  /\ \A f \in done : <<f, TRUE>> \in x.files

\* A step that neither reads the files nor changes them unnoticed.
LEMMA SameFiles ==
  ASSUME TypeOK, IdsInv, FilesInv, [Next]_vars,
         checked' = checked, draftId' = draftId, touched => touched',
         Listed' => Listed, pc' \in {"check source", "publish"} => checked = Files,
         pc' \notin Stopped \cup {"verify", "check source", "publish"} =>
           pc \notin Stopped \cup {"verify", "check source", "publish"},
         \A y \in Elements(listing') : y.id = draftId => y \in Elements(listing)
  PROVE  VerifyInv'
<1>1. pc' \notin Stopped \cup {"verify", "check source", "publish"} => checked' = {}
  BY DEF FilesInv, VerifyInv
<1>2. ASSUME Listed', ~ touched', NEW y \in Elements(listing'), y.id = draftId'
      PROVE  Holds(y, checked')
  <2>1. y \in Elements(listing) /\ y.id = draftId /\ Listed /\ ~ touched
    BY <1>2
  <2> QED
    BY <2>1 DEF FilesInv, VerifyInv, Holds
<1> QED
  BY <1>1, <1>2 DEF VerifyInv, Holds, Names, Elements, Stopped, Listed

\* A step to where no file is looked at.
LEMMA NoFiles ==
  ASSUME pc' \notin {"verify", "check source", "publish"}, pc' \notin Stopped => checked' = {}
  PROVE  VerifyInv'
BY DEF VerifyInv, Listed

\* A draft has been created, so what comes after it has another id.
LEMMA NewIsOther ==
  ASSUME TypeOK, IdsInv
  PROVE  draftId # lastId + 1
<1>1. lastId \in Nat /\ draftId \in Nat
  BY Zenon DEF TypeOK
<1>2. draftId # 0 => draftId \in 1..lastId
  BY DEF IdsInv, OwnInv, SortedInv
<1> QED
  BY <1>1, <1>2

LEMMA GrowthElsewhere ==
  ASSUME TypeOK, IdsInv, NEW note \in {"nonce", "other"},
         listing' = <<Draft(lastId + 1, note)>> \o listing, lastId' = lastId + 1
  PROVE  \A y \in Elements(listing') : y.id = draftId => y \in Elements(listing)
<1>1. Elements(listing') = {Draft(lastId + 1, note)} \cup Elements(listing)
  BY GrownListing
<1>2. Draft(lastId + 1, note).id = lastId + 1
  BY DEF Draft
<1>3. draftId # lastId + 1
  BY NewIsOther
<1> QED
  BY <1>1, <1>2, <1>3

LEMMA ListsFiles ==
  ASSUME TypeOK, IdsInv, FilesInv, ReadUploaded
  PROVE  VerifyInv'
<1>1. checked' = checked /\ pc = "upload" /\ checked = {} /\ UNCHANGED <<listing, draftId>>
  BY DEF ReadUploaded, FilesInv, VerifyInv, Stopped
<1>2. pc' \in {"upload", "failed", "verify"}
  BY DEF ReadUploaded
<1>3. CASE pc' # "verify"
  BY <1>1, <1>2, <1>3, NoFiles
<1>4. CASE pc' = "verify"
  <2>1. /\ Names(Entry(listing, draftId)) = Files
        /\ Cardinality(Entry(listing, draftId).files) = Cardinality(Files)
    BY <1>4 DEF ReadUploaded
  <2>2. \A y \in Elements(listing) : y.id = draftId => y = Entry(listing, draftId)
    <3>1. listing \in Seq(Release) /\ Descending(listing)
      BY Zenon DEF TypeOK, IdsInv, SortedInv
    <3> QED
      BY <3>1, EntryOf
  <2>3. \A y \in Elements(listing) : y.id = draftId => Holds(y, checked')
    BY <1>1, <2>1, <2>2 DEF Holds
  <2> QED
    BY <1>1, <1>4, <2>3 DEF VerifyInv, Holds, Names, Elements, Stopped, Listed
<1> QED
  BY <1>3, <1>4

LEMMA ChecksFile ==
  ASSUME TypeOK, IdsInv, FilesInv, NEW f \in Files, VerifyFile(f)
  PROVE  VerifyInv'
<1>1. /\ pc = "verify" /\ pc' = "verify" /\ UNCHANGED <<listing, draftId, touched>>
      /\ <<f, TRUE>> \in Entry(listing, draftId).files /\ checked' = checked \cup {f}
  BY DEF VerifyFile, Goto, people
<1>2. \A y \in Elements(listing) : y.id = draftId => y = Entry(listing, draftId)
  <2>1. listing \in Seq(Release) /\ Descending(listing)
    BY Zenon DEF TypeOK, IdsInv, SortedInv
  <2> QED
    BY <2>1, EntryOf
<1>3. ASSUME ~ touched, NEW y \in Elements(listing), y.id = draftId
      PROVE  Holds(y, checked')
  BY <1>1, <1>2, <1>3 DEF FilesInv, VerifyInv, Listed, Holds
<1> QED
  BY <1>1, <1>3 DEF VerifyInv, Holds, Names, Elements, Stopped, Listed

LEMMA KeepsVerify ==
  ASSUME TypeOK, IdsInv, FilesInv, [Next]_vars
  PROVE  VerifyInv'
<1> USE DEF Goto, people, Stopped
<1>1. /\ pc \notin Stopped \cup {"verify", "check source", "publish"} => checked = {}
      /\ pc \in {"check source", "publish"} => checked = Files
  BY DEF FilesInv, VerifyInv
<1>2. CASE UNCHANGED <<checked, draftId, touched, pc>> /\ (UNCHANGED listing \/ DeleteRelease)
  <2>1. Elements(listing') \subseteq Elements(listing)
    <3>1. CASE UNCHANGED listing
      BY <3>1
    <3>2. CASE DeleteRelease
      <4>1. listing \in Seq(Release)
        BY Zenon DEF TypeOK
      <4> QED
        BY <3>2, <4>1, Removed DEF DeleteRelease
    <3> QED
      BY <1>2, <3>1, <3>2
  <2> QED
    BY <1>1, <1>2, <2>1, SameFiles DEF Listed
<1>3. CASE EnsureNoTag \/ EnsureNoRelease \/ CreateTag
  <2>1. /\ pc' \in {"no tag", "no release", "tag", "create", "failed"} /\ checked' = checked
        /\ pc \in {"no tag", "no release", "tag"}
    BY <1>3 DEF EnsureNoTag, EnsureNoRelease, CreateTag, ReadAbsent
  <2> QED
    BY <1>1, <2>1, NoFiles
<1>4. CASE CreateRelease \/ Confirm \/ Compare
  <2>1. /\ pc' \in {"upload", "confirm", "failed", "first", "inspect"} /\ checked' = checked
        /\ pc \in {"create", "confirm", "compare"}
    BY <1>4 DEF CreateRelease, Confirm, Compare
  <2> QED
    BY <1>1, <2>1, NoFiles
<1>5. CASE ReadFirst \/ ReadSecond
  <2>1. /\ pc' \in {"first", "second", "compare"} /\ checked' = checked
        /\ pc \in {"first", "second"}
    BY <1>5 DEF ReadFirst, ReadSecond, ReadPage
  <2> QED
    BY <1>1, <2>1, NoFiles
<1>6. CASE Inspect("inspect", "reconfirm") \/ ConfirmAgain \/ Inspect("inspect again", "upload")
  <2>1. /\ pc' \in {"reconfirm", "inspect again", "upload"} /\ checked' = checked
        /\ pc \in {"inspect", "reconfirm", "inspect again"}
    BY <1>6 DEF Inspect, ConfirmAgain
  <2> QED
    BY <1>1, <2>1, NoFiles
<1>7. ASSUME NEW f \in Files, Upload(f) PROVE VerifyInv'
  <2>1. pc' \in {"upload", "failed"} /\ checked' = checked /\ pc = "upload"
    BY <1>7 DEF Upload
  <2> QED
    BY <1>1, <2>1, NoFiles
<1>8. CASE CheckTag \/ CheckSource
  <2>1. /\ pc \in {"verify", "check source"} /\ pc' \in {"check source", "publish"}
        /\ checked = Files /\ UNCHANGED <<checked, draftId, touched, listing>>
    BY <1>1, <1>8 DEF CheckTag, CheckSource
  <2> QED
    BY <2>1, SameFiles DEF Listed
<1>9. CASE Publish \/ Fail
  <2>1. pc' \in Stopped
    BY <1>9 DEF Publish, Fail
  <2> QED
    BY <2>1, NoFiles
<1>10. CASE LateCreation \/ NewDraft
  <2>1. UNCHANGED <<checked, draftId, touched, pc>>
    BY <1>10 DEF LateCreation, NewDraft
  <2>2. \A y \in Elements(listing') : y.id = draftId => y \in Elements(listing)
    <3>1. \E note \in {"nonce", "other"} :
            listing' = <<Draft(lastId + 1, note)>> \o listing /\ lastId' = lastId + 1
      BY <1>10 DEF LateCreation, NewDraft, Insert
    <3> QED
      BY <3>1, GrowthElsewhere
  <2> QED
    BY <1>1, <2>1, <2>2, SameFiles DEF Listed
<1>11. CASE ChangeDraft
  <2>1. UNCHANGED <<checked, draftId, pc>> /\ touched' = (touched \/ Listed)
    BY <1>11 DEF ChangeDraft
  <2> QED
    BY <1>1, <2>1 DEF VerifyInv, Listed
<1>12. CASE DeleteRelease
  <2>1. UNCHANGED <<checked, draftId, touched, pc>>
    BY <1>12 DEF DeleteRelease
  <2> QED
    BY <1>2, <1>12, <2>1
<1>13. CASE ChangeTag \/ ChangeWorld \/ UNCHANGED vars
  <2>1. UNCHANGED <<checked, draftId, touched, pc, listing>>
    BY <1>13 DEF ChangeTag, ChangeWorld, vars
  <2> QED
    BY <1>2, <2>1
<1> QED
  BY <1>3, <1>4, <1>5, <1>6, <1>7, <1>8, <1>9, <1>10, <1>11, <1>12, <1>13,
     ListsFiles, ChecksFile DEF Next, Step

-----------------------------------------------------------------------------
\* The types.

LEMMA LastRead == \A exists \in BOOLEAN : "again" \notin ReadResults[exists][TRUE]
<1>1. \A e \in Ends : ReadResult(e, TRUE) # "again"
  BY DEF ReadResult
<1> QED
  BY <1>1 DEF ReadResults

LEMMA ReadTries ==
  ASSUME tries \in 0..2, NEW exists \in BOOLEAN, "again" \in Reads(exists)
  PROVE  tries + 1 \in 0..2
<1>1. (tries = 2) \in BOOLEAN
  OBVIOUS
<1>2. tries # 2
  <2>1. SUFFICES ASSUME tries = 2 PROVE FALSE
    OBVIOUS
  <2>2. (tries = 2) = TRUE
    BY <2>1
  <2> QED
    BY <2>2, LastRead DEF Reads
<1> QED
  BY <1>2

LEMMA KeepsTypes ==
  ASSUME TypeOK, IdsInv, [Next]_vars
  PROVE  TypeOK'
<1>1. /\ listing' \in Seq(Release) /\ lastId' \in Nat /\ own' \subseteq Nat
  <2>1. lastId \in Nat /\ own \subseteq Nat
    BY Zenon DEF TypeOK
  <2>2. lastId + 1 \in Nat /\ {lastId + 1} \subseteq Nat
    BY <2>1
  <2>3. CASE Shrinks
    BY <2>1, <2>3, Zenon DEF Shrinks
  <2>4. ASSUME NEW note \in {"nonce", "other"}, Grows(note)
        PROVE  /\ listing' \in Seq(Release) /\ lastId' = lastId + 1
               /\ own' \subseteq own \cup {lastId + 1}
    BY <2>4 DEF Grows
  <2>5. ASSUME NEW note \in {"nonce", "other"}, Grows(note)
        PROVE  listing' \in Seq(Release) /\ lastId' \in Nat /\ own' \subseteq Nat
    BY <2>1, <2>2, <2>4, <2>5, Zenon
  <2> QED
    BY <2>3, <2>5, ListingStep
<1>2. first' \in Seq(Release) /\ second' \in Seq(Release) /\ page' \in Nat \ {0}
  BY ReadStep
<1>3. old' \subseteq Nat
  <2>1. lastId' \in Nat /\ old' \subseteq 1..lastId'
    BY <1>1, KeepsSorted DEF SortedInv
  <2> QED
    BY <2>1
<1>4. draftId' \in Nat
  <2>1. draftId' # 0 => draftId' \in own'
    BY KeepsOwn DEF OwnInv
  <2>2. CASE draftId' = 0
    BY <2>2
  <2>3. CASE draftId' # 0
    BY <1>1, <2>1, <2>3, Zenon
  <2> QED
    BY <2>2, <2>3
<1> DEFINE
  Rest == /\ caller \in Kinds /\ world \subseteq World /\ tag \in {"none", "ours", "moved"}
          /\ acts \in 0..MaxActs /\ late \in BOOLEAN /\ tries \in 0..2
          /\ pc \in Stopped \cup
               {"no tag", "no release", "tag", "create", "confirm", "first",
                "second", "compare", "inspect", "reconfirm", "inspect again",
                "upload", "verify", "check source", "publish"}
          /\ sent \subseteq Files /\ checked \subseteq Files
          /\ touched \in BOOLEAN /\ shown \in BOOLEAN
<1>5. Rest
  BY DEF TypeOK
<1>0. tries \in 0..2 /\ acts \in 0..MaxActs
  BY <1>5
<1>6. SUFFICES Rest'
  BY <1>1, <1>2, <1>3, <1>4 DEF TypeOK, Stopped, Kinds, World
<1> USE DEF Goto, Stopped, Kinds, World, people, history
<1>7. CASE EnsureNoTag
  <2>1. "again" \in Reads(tag # "none") => tries + 1 \in 0..2
    BY <1>5, ReadTries
  <2>2. tries' \in {0, tries} \/ ("again" \in Reads(tag # "none") /\ tries' = tries + 1)
    BY <1>7 DEF EnsureNoTag, ReadAbsent
  <2>3. pc' \in {"no tag", "no release", "failed"}
    BY <1>7 DEF EnsureNoTag, ReadAbsent
  <2>4. UNCHANGED <<caller, world, tag, acts, late, sent, checked, touched, shown>>
    BY <1>7 DEF EnsureNoTag, ReadAbsent
  <2>5. tries' \in 0..2
    BY <1>0, <2>1, <2>2
  <2> QED
    BY <1>5, <2>3, <2>4, <2>5
<1>8. CASE EnsureNoRelease
  <2>1. "again" \in Reads(Matches(listing) # {}) => tries + 1 \in 0..2
    BY <1>5, ReadTries
  <2>2. tries' \in {0, tries} \/ ("again" \in Reads(Matches(listing) # {}) /\ tries' = tries + 1)
    BY <1>8 DEF EnsureNoRelease, ReadAbsent
  <2>3. pc' \in {"no release", "tag", "failed"}
    BY <1>8 DEF EnsureNoRelease, ReadAbsent
  <2>4. UNCHANGED <<caller, world, tag, acts, late, sent, checked, touched, shown>>
    BY <1>8 DEF EnsureNoRelease, ReadAbsent
  <2>5. tries' \in 0..2
    BY <1>0, <2>1, <2>2
  <2> QED
    BY <1>5, <2>3, <2>4, <2>5
<1>9. CASE ReadUploaded
  <2>1. "again" \in Reads(draftId \in Ids(listing)) => tries + 1 \in 0..2
    <3>1. (draftId \in Ids(listing)) \in BOOLEAN
      OBVIOUS
    <3> QED
      BY <1>0, <3>1, ReadTries, Zenon
  <2>2. tries' \in {0, tries}
        \/ ("again" \in Reads(draftId \in Ids(listing)) /\ tries' = tries + 1)
    BY <1>9 DEF ReadUploaded
  <2>3. pc' \in {"upload", "verify", "failed"}
    BY <1>9 DEF ReadUploaded
  <2>4. UNCHANGED <<caller, world, tag, acts, late, sent, checked, touched, shown>>
    BY <1>9 DEF ReadUploaded
  <2>5. tries' \in 0..2
    BY <1>0, <2>1, <2>2
  <2> QED
    BY <1>5, <2>3, <2>4, <2>5
<1>10. CASE CreateTag
  BY <1>5, <1>10 DEF CreateTag
<1>11. CASE CreateRelease
  <2>1. pc' \in {"upload", "confirm", "failed"} /\ late' \in BOOLEAN
    BY <1>5, <1>11 DEF CreateRelease
  <2>2. UNCHANGED <<caller, world, tag, acts, tries, sent, checked, touched, shown>>
    BY <1>11 DEF CreateRelease
  <2> QED
    BY <1>5, <2>1, <2>2
<1>12. CASE Confirm \/ Compare
  BY <1>5, <1>12 DEF Confirm, Compare
<1>13. CASE ReadFirst \/ ReadSecond
  BY <1>5, <1>13 DEF ReadFirst, ReadSecond, ReadPage
<1>14. CASE Inspect("inspect", "reconfirm") \/ ConfirmAgain \/ Inspect("inspect again", "upload")
  BY <1>5, <1>14 DEF Inspect, ConfirmAgain
<1>15. ASSUME NEW f \in Files, Upload(f) \/ VerifyFile(f) PROVE Rest'
  <2>1. pc' \in {"upload", "verify", "failed"} /\ sent' \subseteq Files /\ checked' \subseteq Files
    BY <1>5, <1>15 DEF Upload, VerifyFile
  <2>2. UNCHANGED <<caller, world, tag, acts, late, tries, touched, shown>>
    BY <1>15 DEF Upload, VerifyFile
  <2> QED
    BY <1>5, <2>1, <2>2
<1>16. CASE CheckTag \/ CheckSource
  BY <1>5, <1>16 DEF CheckTag, CheckSource
<1>17. CASE Publish
  <2>1. pc' \in {"published", "failed"} /\ tag' \in {"ours", tag} /\ shown'
    BY <1>17 DEF Publish
  <2>2. UNCHANGED <<caller, world, acts, late, tries, sent, checked, touched>>
    BY <1>17 DEF Publish
  <2> QED
    BY <1>5, <2>1, <2>2 DEF Publish
<1>18. CASE Fail \/ LateCreation
  <2>1. CASE Fail
    <3>1. pc' = "failed"
          /\ UNCHANGED <<caller, world, tag, acts, late, tries, sent, checked, touched, shown>>
      BY <2>1 DEF Fail
    <3> QED
      BY <1>5, <3>1
  <2>2. CASE LateCreation
    <3>1. late' = FALSE
          /\ UNCHANGED <<caller, world, tag, acts, pc, tries, sent, checked, touched, shown>>
      BY <2>2 DEF LateCreation
    <3> QED
      BY <1>5, <3>1
  <2> QED
    BY <1>18, <2>1, <2>2
<1>19. CASE NewDraft \/ DeleteRelease \/ ChangeDraft \/ ChangeTag \/ ChangeWorld
  <2>1. acts' \in 0..MaxActs
    <3>1. Act
      BY <1>19 DEF NewDraft, DeleteRelease, ChangeDraft, ChangeTag, ChangeWorld
    <3> QED
      BY <1>0, <3>1, SizesAssumption DEF Act
  <2>2. CASE NewDraft \/ DeleteRelease
    <3>1. UNCHANGED <<caller, world, tag, late, pc, tries, sent, checked, touched, shown>>
      BY <2>2 DEF NewDraft, DeleteRelease, history
    <3> QED
      BY <1>5, <2>1, <3>1
  <2>3. CASE ChangeDraft
    <3>1. touched' \in BOOLEAN
      BY <1>5, <2>3 DEF ChangeDraft, Listed
    <3>2. UNCHANGED <<caller, world, tag, late, pc, tries, sent, checked, shown>>
      BY <2>3 DEF ChangeDraft
    <3> QED
      BY <1>5, <2>1, <3>1, <3>2
  <2>4. CASE ChangeTag
    BY <1>5, <2>1, <2>4 DEF ChangeTag
  <2>5. CASE ChangeWorld
    <3>1. world' \subseteq world
      BY <2>5 DEF ChangeWorld
    <3>2. UNCHANGED <<caller, tag, late, pc, tries, sent, checked, touched, shown>>
      BY <2>5 DEF ChangeWorld
    <3> QED
      BY <1>5, <2>1, <3>1, <3>2
  <2> QED
    BY <1>19, <2>2, <2>3, <2>4, <2>5
<1>20. CASE UNCHANGED vars
  BY <1>5, <1>20 DEF vars
<1> QED
  BY <1>7, <1>8, <1>9, <1>10, <1>11, <1>12, <1>13, <1>14, <1>15, <1>16, <1>17, <1>18,
     <1>19, <1>20 DEF Next, Step

-----------------------------------------------------------------------------
LEMMA InvAtStart == Init => Inv
<1> SUFFICES ASSUME Init PROVE Inv
  OBVIOUS
<1>1. Others \in Nat /\ lastId = Others
      /\ listing = [i \in 1..Others |-> Other(Others + 1 - i)]
  BY SizesAssumption, Zenon DEF Init
<1>0. /\ first = <<>> /\ second = <<>> /\ old = {} /\ own = {} /\ checked = {}
      /\ pc = "no tag" /\ ~ late /\ draftId = 0
  BY Zenon DEF Init
<1>2. \A i \in 1..Others : /\ listing[i] \in Release /\ listing[i].id = Others + 1 - i
                           /\ listing[i].ours = FALSE /\ listing[i].note = "other"
  <2>1. SUFFICES ASSUME NEW i \in 1..Others
                 PROVE  /\ listing[i] \in Release /\ listing[i].id = Others + 1 - i
                        /\ listing[i].ours = FALSE /\ listing[i].note = "other"
    OBVIOUS
  <2>2. listing[i] = Other(Others + 1 - i) /\ Others + 1 - i \in Nat
    BY <1>1
  <2>3. \A n \in Nat : /\ Other(n) \in Release /\ Other(n).id = n
                       /\ Other(n).ours = FALSE /\ Other(n).note = "other"
    BY DEF Other, Release
  <2> QED
    BY <2>2, <2>3
<1>3. DOMAIN listing = 1..Others /\ listing = [i \in 1..Others |-> listing[i]]
  BY <1>1
<1>4. listing \in Seq(Release)
  BY <1>1, <1>2, <1>3
<1>5. Descending(listing)
  <2>1. \A i \in 1..Others : listing[i].id \in Nat
    BY <1>2 DEF Release
  <2>2. \A i, j \in 1..Others : i < j => Others + 1 - i > Others + 1 - j
    BY <1>1
  <2> QED
    BY <1>2, <1>3, <2>1, <2>2 DEF Descending
<1>6. \A x \in Known : x.id \in 1..lastId /\ x.ours = FALSE /\ x.note # "nonce"
  <2>1. Elements(first) = {} /\ Elements(second) = {}
    <3>1. first = <<>> /\ second = <<>>
      BY <1>0
    <3> QED
      BY <3>1 DEF Elements
  <2>2. Known = {listing[i] : i \in 1..Others}
    BY <1>3, <2>1 DEF Known, Elements
  <2>3. \A i \in 1..Others : Others + 1 - i \in 1..Others
    BY <1>1
  <2> QED
    BY <1>1, <1>2, <2>2, <2>3
<1>7. TypeOK
  <2>1. acts = 0 /\ tries = 0 /\ MaxActs \in Nat
    BY SizesAssumption, Zenon DEF Init
  <2>2. acts \in 0..MaxActs /\ tries \in 0..2
    BY <2>1
  <2>3. lastId \in Nat /\ draftId \in Nat /\ page \in Nat \ {0}
    <3>1. lastId \in Nat
      BY <1>1
    <3>2. draftId = 0 /\ page = 1
      BY Zenon DEF Init
    <3> QED
      BY <3>1, <3>2
  <2>4. first \in Seq(Release) /\ second \in Seq(Release)
    <3>1. first = <<>> /\ second = <<>>
      BY <1>0
    <3> QED
      BY <3>1
  <2>5. /\ caller \in Kinds /\ world \subseteq World /\ tag = "none"
        /\ late = FALSE /\ touched = FALSE /\ shown = FALSE
        /\ sent = {} /\ checked = {} /\ own = {} /\ old = {} /\ pc = "no tag"
    BY Zenon DEF Init
  <2> QED
    BY <1>4, <2>2, <2>3, <2>4, <2>5 DEF TypeOK
<1>8. IdsInv
  <2>1. SortedInv
    <3>1. old \subseteq 1..lastId /\ own \subseteq 1..lastId
      BY <1>0, Zenon
    <3> QED
      BY <3>1, <1>5, <1>6 DEF SortedInv
  <2>2. OursInv
    BY <1>0, <1>6 DEF OursInv
  <2>3. OwnInv
    BY <1>0, <1>6 DEF OwnInv
  <2> QED
    BY <2>1, <2>2, <2>3 DEF IdsInv
<1>9. Inventories
  BY <1>0 DEF Inventories, FirstInv, SecondInv, OnlyMatch
<1>10. FilesInv
  BY <1>0, <1>6 DEF FilesInv, VerifyInv, PublicInv, Listed, Known
<1> QED
  BY <1>7, <1>8, <1>9, <1>10 DEF Inv

LEMMA KeepsInv == Inv /\ [Next]_vars => Inv'
<1> SUFFICES ASSUME Inv, [Next]_vars PROVE Inv'
  OBVIOUS
<1>1. TypeOK /\ IdsInv /\ Inventories /\ FilesInv
  BY DEF Inv
<1>2. IdsInv'
  BY <1>1, KeepsSorted, KeepsOurs, KeepsOwn DEF IdsInv
<1>3. FilesInv'
  BY <1>1, KeepsVerify, KeepsPublic DEF FilesInv
<1> QED
  BY <1>1, <1>2, <1>3, KeepsTypes, KeepsInventories DEF Inv

LEMMA Invariant == Spec => []Inv
<1>1. Init => Inv
  BY InvAtStart
<1>2. Inv /\ [Next]_vars => Inv'
  BY KeepsInv
<1> QED
  BY <1>1, <1>2, PTL DEF Spec

\* The state of the transaction is well typed.
THEOREM PublishTyped == Spec => []TypeOK
<1>1. Inv => TypeOK
  BY DEF Inv
<1> QED
  BY <1>1, Invariant, PTL

\* However the answer to the one POST is lost and whatever others draft, the
\* transaction creates at most one draft and works with no other.
THEOREM OneOwnDraft == Spec => []OwnDraft
<1>1. ASSUME Inv PROVE OwnDraft
  <2>1. /\ \A d, e \in own : d = e
        /\ draftId # 0 => draftId \in own
    BY <1>1 DEF Inv, IdsInv, OwnInv
  <2>2. Cardinality(own) <= 1
    <3>1. CASE own = {}
      BY <3>1, FS_EmptySet
    <3>2. CASE own # {}
      <4>1. PICK d \in own : own = {d}
        BY <2>1, <3>2
      <4>2. Cardinality({d}) = 1
        BY FS_Singleton
      <4> QED
        BY <4>1, <4>2
    <3> QED
      BY <3>1, <3>2
  <2> QED
    BY <2>1, <2>2 DEF OwnDraft
<1> QED
  BY <1>1, Invariant, PTL

\* Two inventories that agree have missed nothing, for every size of the
\* pages and whatever is drafted and deleted between two of them.
THEOREM NothingMissed == Spec => []OnlyMatch
<1>1. Inv => OnlyMatch
  BY DEF Inv, Inventories
<1> QED
  BY <1>1, Invariant, PTL

LEMMA TouchedWhileListed ==
  ASSUME [Next]_vars, ~ touched, touched'
  PROVE  Listed /\ pc' = pc
<1> USE DEF people
<1>1. CASE Loud
  <2>1. CASE CreateRelease \/ Confirm \/ ReadFirst \/ ReadSecond \/ Compare
    BY <2>1 DEF CreateRelease, Confirm, ReadFirst, ReadSecond, Compare
  <2>2. CASE (\E f \in Files : Upload(f)) \/ Publish
    BY <2>2 DEF Upload, Publish
  <2>3. CASE LateCreation \/ NewDraft \/ DeleteRelease \/ ChangeDraft
    BY <2>3 DEF LateCreation, NewDraft, DeleteRelease, ChangeDraft
  <2> QED
    BY <1>1, <2>1, <2>2, <2>3 DEF Loud
<1>2. CASE Quiet
  BY <1>2, QuietTouches
<1> QED
  BY <1>1, <1>2, LoudOrQuiet

\* What becomes public holds the staged files and none besides.
THEOREM ExactFiles == Spec => PublishedExact
<1>1. ASSUME Inv, [Next]_vars
      PROVE  \A x \in Elements(listing') :
               (~ x.draft /\ x.ours /\ ~ touched) => x.files = Exact
  <2>1. SUFFICES ASSUME NEW x \in Elements(listing'), ~ x.draft, x.ours, ~ touched
                 PROVE  x.files = Exact
    OBVIOUS
  <2>2. PublicInv'
    BY <1>1, KeepsInv DEF Inv, FilesInv
  <2>3. pc' \in Stopped /\ (touched' \/ x.files = Exact)
    BY <2>1, <2>2 DEF PublicInv, Elements, Stopped, Exact
  <2>4. touched' => pc' \notin Stopped
    BY <1>1, <2>1, TouchedWhileListed DEF Listed, Stopped
  <2> QED
    BY <2>3, <2>4
<1> QED
  BY <1>1, Invariant, PTL DEF PublishedExact, Spec

-----------------------------------------------------------------------------
\* The transaction does what ReleaseLedger says of it.

\* The public release of this tag, as the ledger knows it.
Numbered == [tag |-> Name, number |-> 1]

Tagging == {"no tag", "no release", "tag"}

LEMMA Phases ==
  /\ Phase = "idle" <=> pc \in Stopped /\ ~ late
  /\ pc \in Tagging => Phase = "tagging"
  /\ pc \notin Tagging /\ ~ (pc \in Stopped /\ ~ late) =>
       Phase = IF own = {} THEN "drafting" ELSE "publishing"
BY DEF Phase, Tagging, Stopped

LEMMA DraftsAre ==
  Drafts = IF \E x \in Elements(listing) : x.ours /\ x.draft THEN {Name} ELSE {}
BY DEF Drafts, Matches

LEMMA PublishedAre ==
  Published = IF \E x \in Elements(listing) : x.ours /\ ~ x.draft THEN {Numbered} ELSE {}
BY DEF Published, Matches, Numbered

LEMMA NameStays ==
  ASSUME UNCHANGED caller
  PROVE  UNCHANGED <<Name, Channel, Numbered, Candidate>>
BY DEF Name, Channel, Numbered, Candidate

LEMMA PublishedTag == \A t : t \in Ledger!PublishedTags <=> t = Name /\ Published # {}
<1>1. \A p \in Published : p.tag = Name
  BY DEF Published
<1> QED
  BY <1>1 DEF Ledger!PublishedTags

\* The run aims at the tag of the transaction while it works on it.
LEMMA TargetIs == Phase # "idle" => Ledger!Target("run") = Name
<1> SUFFICES ASSUME Phase # "idle" PROVE Ledger!Target("run") = Name
  OBVIOUS
<1>1. One([channel |-> Channel, base |-> "1.0"])["run"] = [channel |-> Channel, base |-> "1.0"]
      /\ One(IF Phase = "idle" THEN Unplanned ELSE Candidate)["run"] = Candidate
  BY DEF One
<1>2. CASE caller = "promotion"
  BY <1>1, <1>2 DEF Ledger!Target, Ledger!Promotes, Ledger!StableTag, Channel, Name
<1>3. CASE caller # "promotion"
  <2>1. Channel # "stable" /\ Name = [base |-> "1.0", channel |-> Channel, seq |-> 1]
    BY <1>3 DEF Channel, Name
  <2>2. Candidate.tag = Name
    BY <2>1 DEF Candidate
  <2> QED
    BY <1>1, <2>1, <2>2 DEF Ledger!Target, Ledger!Promotes
<1> QED
  BY <1>2, <1>3

Steady == UNCHANGED <<caller, Phase, Tags, Drafts, Published, shown>>

LEMMA Stutters ==
  ASSUME Steady
  PROVE  UNCHANGED Ledger!vars
BY NameStays DEF Steady, Ledger!vars, Ledger!fixed, Ledger!world, Ledger!history, One, State

LEMMA FixedStays ==
  ASSUME UNCHANGED caller
  PROVE  UNCHANGED Ledger!fixed
BY NameStays DEF Ledger!fixed, One

LEMMA RunEnds ==
  ASSUME Phase' = "idle"
  PROVE  Ledger!End("run")
<1>1. Ledger!NewLedger = Unwritten
  BY DEF Ledger!NewLedger, Unwritten, One
<1>2. Ledger!Unplanned("run") = Unplanned
  BY DEF Ledger!Unplanned, Ledger!StableTag, Unplanned, One
<1>3. Unwritten' = Unwritten /\ Unplanned' = Unplanned
  BY DEF Unwritten, Unplanned, One
<1> QED
  BY <1>1, <1>2, <1>3 DEF Ledger!End, One


\* The run goes on, or it ends; either way its inputs stay.
LEMMA RunWrites ==
  ASSUME NEW from, NEW to, from # "idle", to # "idle", Phase = from, Phase' \in {to, "idle"},
         UNCHANGED caller
  PROVE  Ledger!Write("run", from, to)
<1>1. One(Phase)["run"] = from
  BY DEF One
<1>2. CASE Phase' = to
  <2>1. One(Phase)' = [One(Phase) EXCEPT !["run"] = to]
    BY <1>2 DEF One
  <2>2. UNCHANGED <<One(IF Phase = "idle" THEN Unwritten ELSE State),
                    One(IF Phase = "idle" THEN Unplanned ELSE Candidate)>>
    BY <1>2, NameStays DEF One, State
  <2> QED
    BY <1>1, <2>1, <2>2 DEF Ledger!Write, Ledger!Goto
<1>3. CASE Phase' = "idle"
  BY <1>1, <1>3, RunEnds DEF Ledger!Write
<1> QED
  BY <1>2, <1>3

Rests == <<1, One(IF caller = "promotion" THEN 0 ELSE 1), TRUE, State>>

LEMMA RestsStay ==
  ASSUME UNCHANGED caller
  PROVE  UNCHANGED Rests
BY DEF Rests, One, State

LEMMA LedgerFails ==
  ASSUME Phase # "idle", Phase' = "idle",
         UNCHANGED <<caller, Tags, Drafts, Published, shown>>
  PROVE  Ledger!Next
<1>1. One(Phase)["run"] # "idle"
  BY DEF One
<1>2. Ledger!Fail("run")
  BY <1>1, RunEnds, FixedStays, RestsStay DEF Ledger!Fail, Ledger!world, Ledger!history,
                                              Rests
<1> QED
  BY <1>2 DEF Ledger!Next, Ledger!RunNext

LEMMA LedgerTags ==
  ASSUME Phase = "tagging", Phase' \in {"drafting", "idle"}, tag = "none", tag' = "ours",
         UNCHANGED <<caller, Drafts, Published, shown>>
  PROVE  Ledger!Next
<1>1. Tags = {} /\ Tags' = {Name}
  BY NameStays DEF Tags
<1>2. Ledger!Target("run") = Name
  BY TargetIs
<1>3. Ledger!Write("run", "tagging", "drafting")
  BY RunWrites
<1>4. Ledger!CreateTag("run")
  BY <1>1, <1>2, <1>3, FixedStays, RestsStay DEF Ledger!CreateTag, Ledger!history, Rests
<1> QED
  BY <1>4 DEF Ledger!Next, Ledger!RunNext

LEMMA LedgerDrafts ==
  ASSUME Phase = "drafting", Phase' \in {"publishing", "idle"}, Drafts' = Drafts \cup {Name},
         UNCHANGED <<caller, Tags, Published, shown>>
  PROVE  Ledger!Next
<1>1. Ledger!Target("run") = Name
  BY TargetIs
<1>2. Ledger!Write("run", "drafting", "publishing")
  BY RunWrites
<1>3. Ledger!CreateDraft("run")
  BY <1>1, <1>2, FixedStays, RestsStay DEF Ledger!CreateDraft, Ledger!history, Rests
<1> QED
  BY <1>3 DEF Ledger!Next, Ledger!RunNext

LEMMA LedgerPublishes ==
  ASSUME Phase = "publishing", Phase' = "idle", shown \in BOOLEAN, shown' = TRUE,
         Name \in Drafts, Tags' = Tags \cup {Name}, Drafts' \in {Drafts, Drafts \ {Name}},
         Published' = Published \cup {Numbered}, UNCHANGED caller
  PROVE  Ledger!Next
<1>1. Ledger!Target("run") = Name
  BY TargetIs
<1>2. One(Phase)["run"] = "publishing"
  BY DEF One
<1>3. One(IF Phase = "idle" THEN Unplanned ELSE Candidate)["run"].number = 1
  BY DEF One, Candidate
<1>4. (IF shown' THEN 1 ELSE 0) =
        IF 1 > (IF shown THEN 1 ELSE 0) THEN 1 ELSE (IF shown THEN 1 ELSE 0)
  OBVIOUS
<1>5. Ledger!Publish("run")
  BY <1>1, <1>2, <1>3, <1>4, RunEnds, FixedStays, RestsStay
     DEF Ledger!Publish, Numbered, Rests
<1> QED
  BY <1>5 DEF Ledger!Next, Ledger!RunNext

\* What people do.
Same == UNCHANGED <<caller, Phase, shown>>

LEMMA LedgerDeletes ==
  ASSUME Same, Name \in Tags \/ Name \in Drafts \/ Published # {},
         Tags' \in {Tags, Tags \ {Name}},
         \/ Drafts' = Drafts \ {Name} /\ Published' = Published
         \/ Published' = {} /\ Drafts' = Drafts
         \/ Published' = Published /\ Drafts' = Drafts
  PROVE  Ledger!Next
<1>1. Name \in Tags \cup Drafts \cup Ledger!PublishedTags
  BY PublishedTag
<1>2. {p \in Published : p.tag # Name} = {}
  BY DEF Published
<1>3. UNCHANGED <<One(Phase), One(IF Phase = "idle" THEN Unwritten ELSE State),
                  One(IF Phase = "idle" THEN Unplanned ELSE Candidate)>>
  BY NameStays DEF Same, One, State
<1>4. Ledger!Delete(Name)
  BY <1>1, <1>2, <1>3, FixedStays, RestsStay DEF Same, Ledger!Delete, Ledger!history,
                                                 Rests
<1> QED
  BY <1>1, <1>4 DEF Ledger!Next

LEMMA LedgerClaims ==
  ASSUME Same, Phase # "idle", UNCHANGED Published,
         \/ Drafts' = Drafts \cup {Name} /\ UNCHANGED Tags
         \/ Tags' = Tags \cup {Name} /\ UNCHANGED Drafts
  PROVE  Ledger!Next
<1>1. Ledger!Target("run") = Name
  BY TargetIs
<1>2. One(Phase)["run"] \in {"tagging", "drafting", "publishing"}
  <2>1. Phase \in {"tagging", "drafting", "publishing"}
    BY Phases
  <2> QED
    BY <2>1 DEF One
<1>3. UNCHANGED <<One(Phase), One(IF Phase = "idle" THEN Unwritten ELSE State),
                  One(IF Phase = "idle" THEN Unplanned ELSE Candidate)>>
  BY NameStays DEF Same, One, State
<1>4. Ledger!Claim("run")
  BY <1>1, <1>2, <1>3, FixedStays, RestsStay DEF Same, Ledger!Claim, Ledger!history, Rests
<1> QED
  BY <1>4 DEF Ledger!Next


LEMMA PhaseStays ==
  ASSUME UNCHANGED <<own, late>>, pc \in Stopped <=> pc' \in Stopped,
         pc \in Tagging <=> pc' \in Tagging
  PROVE  UNCHANGED Phase
BY DEF Phase, Tagging, Stopped

LEMMA SameFlags ==
  ASSUME UNCHANGED caller,
         \A y \in Elements(listing') : \E x \in Elements(listing) :
           x.ours = y.ours /\ x.draft = y.draft,
         \A x \in Elements(listing) : \E y \in Elements(listing') :
           x.ours = y.ours /\ x.draft = y.draft
  PROVE  UNCHANGED <<Drafts, Published>>
<1>1. /\ Drafts' = IF \E x \in Elements(listing') : x.ours /\ x.draft THEN {Name'} ELSE {}
      /\ Published' = IF \E x \in Elements(listing') : x.ours /\ ~ x.draft
                      THEN {Numbered'} ELSE {}
  BY DEF Drafts, Published, Matches, Numbered, Elements
<1> QED
  BY <1>1, DraftsAre, PublishedAre, NameStays

\* A step of the transaction that writes nothing of its own, or its failure.
LEMMA PlainStep ==
  ASSUME Inv, pc \notin Stopped, pc' \in Stopped \/ (pc \in Tagging <=> pc' \in Tagging),
         UNCHANGED <<caller, tag, own, late, shown, Drafts, Published>>
  PROVE  Ledger!Next \/ UNCHANGED Ledger!vars
<1>1. UNCHANGED Tags
  BY NameStays DEF Tags
<1>2. CASE pc' \notin Stopped
  <2>1. UNCHANGED Phase
    BY <1>2, PhaseStays
  <2> QED
    BY <1>1, <2>1, Stutters DEF Steady
<1>3. CASE pc' \in Stopped /\ ~ late
  <2>1. Phase # "idle"
    BY Phases
  <2>2. Phase' = "idle"
    BY <1>3 DEF Phase, Stopped
  <2> QED
    BY <1>1, <2>1, <2>2, LedgerFails
<1>4. CASE pc' \in Stopped /\ late
  <2>1. own = {} /\ pc \notin Tagging
    BY <1>4 DEF Inv, IdsInv, OwnInv, BeforeCreation, Tagging
  <2>2. Phase = "drafting"
    BY <2>1, Phases
  <2>3. Phase' = "drafting"
    BY <1>4, <2>1 DEF Phase, Stopped
  <2> QED
    BY <1>1, <2>2, <2>3, Stutters DEF Steady
<1> QED
  BY <1>2, <1>3, <1>4

LEMMA SameListing ==
  ASSUME UNCHANGED <<caller, listing>>
  PROVE  UNCHANGED <<Drafts, Published>>
BY SameFlags

LEMMA QuietRefines ==
  ASSUME Inv, Quiet, ~ CreateTag, ~ ChangeTag
  PROVE  Ledger!Next \/ UNCHANGED Ledger!vars
<1> USE DEF Goto, Stopped, Tagging, history
<1>1. UNCHANGED <<listing, own, late>>
  BY QuietSteps
<1>2. ASSUME pc \notin Stopped, pc' \in Stopped \/ (pc \in Tagging <=> pc' \in Tagging),
             UNCHANGED <<caller, tag, shown>>
      PROVE  Ledger!Next \/ UNCHANGED Ledger!vars
  BY <1>1, <1>2, SameListing, PlainStep
<1>3. CASE EnsureNoTag \/ EnsureNoRelease
  BY <1>2, <1>3 DEF EnsureNoTag, EnsureNoRelease, ReadAbsent
<1>4. CASE Inspect("inspect", "reconfirm") \/ ConfirmAgain \/ Inspect("inspect again", "upload")
  BY <1>2, <1>4 DEF Inspect, ConfirmAgain
<1>5. CASE \E f \in Files : VerifyFile(f)
  BY <1>2, <1>5 DEF VerifyFile
<1>6. CASE ReadUploaded
  BY <1>2, <1>6 DEF ReadUploaded
<1>7. CASE CheckTag \/ CheckSource
  BY <1>2, <1>7 DEF CheckTag, CheckSource
<1>8. CASE Fail
  BY <1>2, <1>8 DEF Fail
<1>9. CASE ChangeWorld \/ UNCHANGED vars
  <2>1. UNCHANGED <<caller, tag, shown, pc>>
    BY <1>9 DEF ChangeWorld, vars
  <2>2. UNCHANGED <<Phase, Tags, Drafts, Published>>
    BY <1>1, <2>1, PhaseStays, SameListing, NameStays DEF Tags
  <2> QED
    BY <2>1, <2>2, Stutters DEF Steady
<1> QED
  BY <1>3, <1>4, <1>5, <1>6, <1>7, <1>8, <1>9 DEF Quiet


LEMMA TagRefines ==
  ASSUME Inv, CreateTag
  PROVE  Ledger!Next
<1>1. /\ pc = "tag" /\ tag = "none" /\ tag' = "ours" /\ pc' \in {"create", "failed"}
      /\ UNCHANGED <<caller, listing, own, late, shown>>
  BY DEF CreateTag, history
<1>2. own = {} /\ ~ late
  BY <1>1 DEF Inv, IdsInv, OwnInv, BeforeCreation
<1>3. Phase = "tagging"
  BY <1>1, Phases DEF Tagging
<1>4. Phase' \in {"drafting", "idle"}
  BY <1>1, <1>2 DEF Phase, Stopped
<1> QED
  BY <1>1, <1>3, <1>4, SameListing, LedgerTags

\* A new draft of this tag.
LEMMA NewDrafts ==
  ASSUME Inv, NEW note \in {"nonce", "other"}, UNCHANGED caller,
         listing' = <<Draft(lastId + 1, note)>> \o listing, lastId' = lastId + 1
  PROVE  Drafts' = Drafts \cup {Name} /\ UNCHANGED Published
<1> DEFINE d == Draft(lastId + 1, note)
<1>1. Elements(listing') = {d} \cup Elements(listing)
  BY GrownListing DEF Inv
<1>2. d.ours /\ d.draft
  BY DEF Draft
<1> HIDE DEF d
<1>3. /\ Drafts' = IF \E x \in Elements(listing') : x.ours /\ x.draft THEN {Name'} ELSE {}
      /\ Published' = IF \E x \in Elements(listing') : x.ours /\ ~ x.draft
                      THEN {Numbered'} ELSE {}
  BY DEF Drafts, Published, Matches, Numbered, Elements
<1>4. Drafts' = {Name}
  BY <1>1, <1>2, <1>3, NameStays
<1>5. Drafts \subseteq {Name}
  BY DraftsAre
<1>6. (\E x \in Elements(listing') : x.ours /\ ~ x.draft)
        <=> \E x \in Elements(listing) : x.ours /\ ~ x.draft
  BY <1>1, <1>2
<1>7. UNCHANGED Published
  BY <1>3, <1>6, PublishedAre, NameStays
<1> QED
  BY <1>4, <1>5, <1>7

LEMMA CreationRefines ==
  ASSUME Inv, CreateRelease
  PROVE  Ledger!Next \/ UNCHANGED Ledger!vars
<1>1. pc = "create" /\ own = {} /\ ~ late
  BY DEF CreateRelease, Inv, IdsInv, OwnInv, BeforeCreation
<1>2. PICK created \in BOOLEAN :
        /\ IF created THEN Insert ELSE UNCHANGED <<listing, lastId, own>>
        /\ \E r \in CreateResults[created] :
             CASE r = "created" -> pc' = "upload" /\ draftId' = lastId' /\ UNCHANGED late
               [] r = "unknown" -> /\ pc' = IF caller = "promotion" THEN "failed" ELSE "confirm"
                                   /\ late' \in {FALSE, ~ created}
                                   /\ UNCHANGED draftId
               [] OTHER -> pc' = "failed" /\ UNCHANGED <<late, draftId>>
  BY DEF CreateRelease
<1>3. UNCHANGED <<caller, tag, shown>>
  BY DEF CreateRelease
<1>4. pc' \in {"upload", "confirm", "failed"} /\ (created => ~ late')
  <2>1. PICK r \in CreateResults[created] :
          CASE r = "created" -> pc' = "upload" /\ draftId' = lastId' /\ UNCHANGED late
            [] r = "unknown" -> /\ pc' = IF caller = "promotion" THEN "failed" ELSE "confirm"
                                /\ late' \in {FALSE, ~ created}
                                /\ UNCHANGED draftId
            [] OTHER -> pc' = "failed" /\ UNCHANGED <<late, draftId>>
    BY <1>2
  <2>2. pc' \in {"upload", "confirm", "failed"}
    BY <2>1
  <2>3. created => ~ late'
    BY <1>1, <2>1
  <2> QED
    BY <2>2, <2>3
<1>5. Phase = "drafting" /\ UNCHANGED Tags
  BY <1>1, <1>3, Phases, NameStays DEF Tagging, Stopped, Tags
<1>6. CASE created
  <2>1. /\ listing' = <<Draft(lastId + 1, "nonce")>> \o listing /\ lastId' = lastId + 1
        /\ own' = own \cup {lastId + 1}
    BY <1>2, <1>6 DEF Insert
  <2>2. Drafts' = Drafts \cup {Name} /\ UNCHANGED Published
    BY <1>3, <2>1, NewDrafts
  <2>3. own' # {}
    BY <2>1
  <2>4. Phase' \in {"publishing", "idle"}
    BY <1>4, <2>3 DEF Phase, Stopped
  <2> QED
    BY <1>3, <1>5, <2>2, <2>4, LedgerDrafts
<1>7. CASE ~ created
  <2>1. UNCHANGED <<listing, own>>
    BY <1>2, <1>7
  <2>2. UNCHANGED <<Drafts, Published>>
    BY <1>3, <2>1, SameListing
  <2>3. Phase' \in {"drafting", "idle"}
    BY <1>1, <1>4, <2>1 DEF Phase, Stopped
  <2>4. CASE Phase' = "idle"
    BY <1>3, <1>5, <2>2, <2>4, LedgerFails
  <2>5. CASE Phase' = "drafting"
    BY <1>3, <1>5, <2>2, <2>5, Stutters DEF Steady
  <2> QED
    BY <2>3, <2>4, <2>5
<1> QED
  BY <1>6, <1>7

LEMMA LateRefines ==
  ASSUME Inv, LateCreation
  PROVE  Ledger!Next
<1>1. /\ late /\ ~ late' /\ own = {} /\ pc \notin Tagging
      /\ UNCHANGED <<caller, tag, shown, pc>>
  BY DEF LateCreation, Inv, IdsInv, OwnInv, BeforeCreation, Tagging
<1>2. /\ listing' = <<Draft(lastId + 1, "nonce")>> \o listing /\ lastId' = lastId + 1
      /\ own' = own \cup {lastId + 1}
  BY DEF LateCreation, Insert
<1>3. own' # {}
  BY <1>2
<1>4. Phase = "drafting"
  BY <1>1, Phases
<1>5. Phase' \in {"publishing", "idle"}
  BY <1>1, <1>3 DEF Phase, Tagging
<1>6. Drafts' = Drafts \cup {Name} /\ UNCHANGED Published
  BY <1>1, <1>2, NewDrafts
<1>7. UNCHANGED Tags
  BY <1>1, NameStays DEF Tags
<1> QED
  BY <1>1, <1>4, <1>5, <1>6, <1>7, LedgerDrafts

LEMMA UploadRefines ==
  ASSUME Inv, NEW f \in Files, Upload(f)
  PROVE  Ledger!Next \/ UNCHANGED Ledger!vars
<1>1. /\ pc = "upload" /\ pc' \in {"upload", "failed"}
      /\ UNCHANGED <<caller, tag, own, late, shown>>
  BY DEF Upload, Goto, history
<1>2. PICK stored, healthy \in BOOLEAN :
        IF stored
        THEN Edit(draftId, LAMBDA x : [x EXCEPT !.files = @ \cup {<<f, healthy>>}])
        ELSE UNCHANGED listing
  BY DEF Upload
<1>3. \A i \in DOMAIN listing : listing[i] \in Release
  BY ListedReleases DEF Inv
<1>4. DOMAIN listing' = DOMAIN listing /\ \A i \in DOMAIN listing :
        listing'[i].ours = listing[i].ours /\ listing'[i].draft = listing[i].draft
  BY <1>2, <1>3 DEF Edit, Release
<1>5. UNCHANGED <<Drafts, Published>>
  <2>1. /\ \A y \in Elements(listing') : \E x \in Elements(listing) :
             x.ours = y.ours /\ x.draft = y.draft
        /\ \A x \in Elements(listing) : \E y \in Elements(listing') :
             x.ours = y.ours /\ x.draft = y.draft
    BY <1>4 DEF Elements
  <2> QED
    BY <1>1, <2>1, SameFlags
<1> QED
  BY <1>1, <1>5, PlainStep DEF Stopped, Tagging

LEMMA ReadingRefines ==
  ASSUME Inv, Confirm \/ ReadFirst \/ ReadSecond \/ Compare
  PROVE  Ledger!Next \/ UNCHANGED Ledger!vars
<1>1. UNCHANGED <<caller, tag, own, late, shown, listing>>
  BY DEF Confirm, ReadFirst, ReadSecond, Compare, history
<1>2. /\ pc \in {"confirm", "first", "second", "compare"}
      /\ pc' \in {"first", "second", "compare", "inspect"}
  BY DEF Confirm, ReadFirst, ReadSecond, ReadPage, Compare, Goto
<1> QED
  BY <1>1, <1>2, SameListing, PlainStep DEF Stopped, Tagging

LEMMA PublicationRefines ==
  ASSUME Inv, Publish
  PROVE  Ledger!Next
<1>1. /\ pc = "publish" /\ pc' \in Stopped /\ shown' = TRUE /\ draftId \in Ids(listing)
      /\ tag' = (IF tag = "none" THEN "ours" ELSE tag)
      /\ UNCHANGED <<caller, own, late>>
  BY DEF Publish, Stopped
<1>2. listing' = [i \in DOMAIN listing |->
                    IF listing[i].id = draftId
                    THEN [listing[i] EXCEPT !.draft = FALSE] ELSE listing[i]]
  BY DEF Publish, Edit
<1>3. PICK k \in DOMAIN listing : listing[k].id = draftId
  BY <1>1 DEF Ids, Elements
<1>4. \A i \in DOMAIN listing : listing[i] \in Release /\ listing[i] \in Elements(listing)
  BY ListedReleases DEF Inv
<1>5. listing[k] \in Known /\ draftId # 0
  BY <1>3, <1>4 DEF Inv, IdsInv, SortedInv, Known
<1>6. draftId \in own /\ listing[k].ours
  BY <1>3, <1>5 DEF Inv, IdsInv, OwnInv, OursInv
<1>7. \A x \in Elements(listing) : x.ours => x.draft
  BY <1>1 DEF Inv, FilesInv, PublicInv, Stopped
<1>8. ~ late
  BY <1>6 DEF Inv, IdsInv, OwnInv
<1>9. Phase = "publishing"
  BY <1>1, <1>6, Phases DEF Tagging, Stopped
<1>10. Phase' = "idle"
  BY <1>1, <1>8 DEF Phase, Stopped
<1>11. Name \in Drafts
  BY <1>4, <1>6, <1>7, DraftsAre
<1>12. Drafts = {Name} /\ Published = {}
  BY <1>7, <1>11, DraftsAre, PublishedAre
<1>13. /\ Drafts' = IF \E x \in Elements(listing') : x.ours /\ x.draft THEN {Name'} ELSE {}
       /\ Published' = IF \E x \in Elements(listing') : x.ours /\ ~ x.draft
                       THEN {Numbered'} ELSE {}
  BY DEF Drafts, Published, Matches, Numbered, Elements
<1>14. Drafts' \in {Drafts, Drafts \ {Name}}
  BY <1>1, <1>12, <1>13, NameStays
<1>15. listing'[k] \in Elements(listing') /\ listing'[k].ours /\ ~ listing'[k].draft
  <2>1. listing'[k] = [listing[k] EXCEPT !.draft = FALSE] /\ k \in DOMAIN listing'
    BY <1>2, <1>3
  <2> QED
    BY <1>4, <1>6, <2>1 DEF Elements, Release
<1>16. Published' = Published \cup {Numbered}
  BY <1>1, <1>12, <1>13, <1>15, NameStays
<1>17. Tags' = Tags \cup {Name}
  BY <1>1, NameStays DEF Tags
<1>18. shown \in BOOLEAN
  BY Zenon DEF Inv, TypeOK
<1> QED
  BY <1>1, <1>9, <1>10, <1>11, <1>14, <1>16, <1>17, <1>18, LedgerPublishes

LEMMA NewDraftRefines ==
  ASSUME Inv, NewDraft
  PROVE  Ledger!Next
<1>1. /\ pc \notin Stopped /\ UNCHANGED <<caller, tag, pc, late, own, shown>>
      /\ listing' = <<Draft(lastId + 1, "other")>> \o listing /\ lastId' = lastId + 1
  BY DEF NewDraft, history
<1>2. Phase # "idle" /\ UNCHANGED Phase
  BY <1>1, Phases, PhaseStays
<1>3. UNCHANGED Tags
  BY <1>1, NameStays DEF Tags
<1>4. Drafts' = Drafts \cup {Name} /\ UNCHANGED Published
  BY <1>1, NewDrafts
<1> QED
  BY <1>1, <1>2, <1>3, <1>4, LedgerClaims DEF Same

LEMMA DeletionRefines ==
  ASSUME Inv, DeleteRelease
  PROVE  Ledger!Next \/ UNCHANGED Ledger!vars
<1>1. UNCHANGED <<caller, tag, pc, late, own, shown>>
  BY DEF DeleteRelease, history
<1>2. UNCHANGED <<Phase, Tags>>
  BY <1>1, PhaseStays, NameStays DEF Tags
<1>3. PICK k \in DOMAIN listing :
        listing' = SubSeq(listing, 1, k - 1) \o SubSeq(listing, k + 1, Len(listing))
  BY DEF DeleteRelease
<1>4. /\ Elements(listing') \subseteq Elements(listing)
      /\ Elements(listing) \subseteq Elements(listing') \cup {listing[k]}
  <2>1. listing \in Seq(Release)
    BY Zenon DEF Inv, TypeOK
  <2> QED
    BY <1>3, <2>1, Removed
<1>5. /\ Drafts' = IF \E x \in Elements(listing') : x.ours /\ x.draft THEN {Name} ELSE {}
      /\ Published' = IF \E x \in Elements(listing') : x.ours /\ ~ x.draft
                      THEN {Numbered} ELSE {}
  BY <1>1, NameStays DEF Drafts, Published, Matches, Numbered, Elements
<1>6. Drafts' = Drafts \/ (Drafts = {Name} /\ Drafts' = {} /\ listing[k].draft)
  BY <1>4, <1>5, DraftsAre
<1>7. Published' = Published
      \/ (Published = {Numbered} /\ Published' = {} /\ ~ listing[k].draft)
  BY <1>4, <1>5, PublishedAre
<1>8. CASE UNCHANGED <<Drafts, Published>>
  BY <1>1, <1>2, <1>8, Stutters DEF Steady
<1>9. CASE Drafts = {Name} /\ Drafts' = {} /\ UNCHANGED Published
  BY <1>1, <1>2, <1>9, LedgerDeletes DEF Same
<1>10. CASE Published = {Numbered} /\ Published' = {} /\ UNCHANGED Drafts
  BY <1>1, <1>2, <1>10, LedgerDeletes DEF Same
<1> QED
  BY <1>6, <1>7, <1>8, <1>9, <1>10

LEMMA ChangeRefines ==
  ASSUME Inv, ChangeDraft
  PROVE  UNCHANGED Ledger!vars
<1>1. UNCHANGED <<caller, tag, pc, late, own, shown>>
  BY DEF ChangeDraft, history
<1>2. UNCHANGED <<Phase, Tags>>
  BY <1>1, PhaseStays, NameStays DEF Tags
<1>3. PICK x \in Elements(listing), fs \in SUBSET Uploads, note \in {"nonce", "other"} :
        listing' = [i \in DOMAIN listing |->
                      IF listing[i].id = x.id
                      THEN [listing[i] EXCEPT !.files = fs, !.note = note]
                      ELSE listing[i]]
  BY ChangeEdits DEF Inv
<1>4. \A i \in DOMAIN listing : listing[i] \in Release
  BY ListedReleases DEF Inv
<1>5. DOMAIN listing' = DOMAIN listing /\ \A i \in DOMAIN listing :
        listing'[i].ours = listing[i].ours /\ listing'[i].draft = listing[i].draft
  BY <1>3, <1>4 DEF Release
<1>6. UNCHANGED <<Drafts, Published>>
  <2>1. /\ \A y \in Elements(listing') : \E z \in Elements(listing) :
             z.ours = y.ours /\ z.draft = y.draft
        /\ \A z \in Elements(listing) : \E y \in Elements(listing') :
             z.ours = y.ours /\ z.draft = y.draft
    BY <1>5 DEF Elements
  <2> QED
    BY <1>1, <2>1, SameFlags
<1> QED
  BY <1>1, <1>2, <1>6, Stutters DEF Steady

LEMMA TagChangeRefines ==
  ASSUME Inv, ChangeTag
  PROVE  Ledger!Next \/ UNCHANGED Ledger!vars
<1>1. /\ UNCHANGED <<caller, listing, pc, late, own, shown>>
      /\ (tag # "none" /\ tag' = "none") \/ (pc \notin Stopped /\ tag' = "moved")
  BY DEF ChangeTag, history
<1>2. UNCHANGED <<Phase, Drafts, Published>>
  BY <1>1, PhaseStays, SameListing
<1>3. CASE tag # "none" /\ tag' = "none"
  <2>1. Tags = {Name} /\ Tags' = {}
    BY <1>3 DEF Tags
  <2> QED
    BY <1>1, <1>2, <2>1, LedgerDeletes DEF Same
<1>4. CASE pc \notin Stopped /\ tag' = "moved"
  <2>1. Tags' = {Name} /\ Tags \subseteq {Name} /\ Phase # "idle"
    BY <1>1, <1>4, NameStays, Phases DEF Tags
  <2>2. Tags' = Tags \cup {Name}
    BY <2>1
  <2> QED
    BY <1>1, <1>2, <2>1, <2>2, LedgerClaims DEF Same
<1> QED
  BY <1>1, <1>3, <1>4

\* The transaction is what ReleaseLedger takes a publication to be: seen
\* through the mapping, each of its steps is one of a run that has used its
\* number up, one of the people, or none.
THEOREM TransactionImplements == Spec => ImplementsLedger
<1>1. ASSUME Inv, [Next]_vars
      PROVE  Ledger!Next \/ UNCHANGED Ledger!vars
  <2>1. CASE Loud
    BY <1>1, <2>1, CreationRefines, ReadingRefines, UploadRefines, PublicationRefines,
       LateRefines, NewDraftRefines, DeletionRefines, ChangeRefines DEF Loud
  <2>2. CASE Quiet
    BY <1>1, <2>2, TagRefines, TagChangeRefines, QuietRefines
  <2> QED
    BY <1>1, <2>1, <2>2, LoudOrQuiet
<1> QED
  BY <1>1, Invariant, PTL DEF Spec, ImplementsLedger

=============================================================================
