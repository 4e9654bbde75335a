-------------------------- MODULE ReleaseQualify --------------------------
(***************************************************************************)
(* What has to be true before the release pipeline publishes anything      *)
(* (scripts/release_control.py, release_versioned.py): a workflow run with *)
(* its attempts builds and checks a candidate, its gate passes, and its    *)
(* last job publishes; a later run takes the bytes of a published release  *)
(* candidate over, either as the stable release (promote) or instead of a  *)
(* nightly (scheduled_reuse). ReleasePublish has the publication itself.   *)
(*                                                                         *)
(* People run the whole run, its failed jobs or one job again; GitHub then *)
(* shows the results of the jobs that are not run again as results of the  *)
(* new attempt. Its metadata lag behind. People push, rewrite the branch,  *)
(* exchange the files of a release, move its tag, and change who must      *)
(* approve; evidence expires.                                              *)
(***************************************************************************)
EXTENDS Naturals, FiniteSets

CONSTANTS
  MaxAttempts,   \* bound on the attempts of the run
  MaxWait,       \* polls of the metadata before the deadline
  MaxChanges     \* bound on what people do

ASSUME BoundsAssumption ==
  MaxAttempts \in Nat \ {0} /\ MaxWait \in Nat /\ MaxChanges \in Nat

VARIABLES
  kind,        \* the candidate: rc, asked for by hand, or push, automatic
  attempt,     \* the attempt of the run
  job,         \* each job's result, and the attempt that executed it
  lag,         \* the metadata do not yet show the run as it is
  publisher, waited,   \* the publisher inside the job candidate, and its polls
  seen,        \* the head of the branch that it has read
  outcome,     \* how it ended
  head, pushed,    \* commits after the run's own; those with a run of their own
  ahead,           \* the heads that have the run's commit behind them
  reviewers,       \* the release environment has required reviewers
  release,     \* the published candidate
  evidence,    \* the manifests kept as artifacts of the run
  goal, step,  \* the later run: what it wants, and where it is
  snap, manifest, got,  \* what it has read: release, manifest, bytes
  result,      \* the bytes it published or accepted, 0 before
  changes, stamp, \* what people have done; the id given last to an asset
  published    \* history: attempts in which the candidate was published

candidate == <<attempt, job, lag, publisher, waited, seen, outcome>>
branch == <<head, pushed, ahead>>
later == <<goal, step, snap, manifest, got, result>>
store == <<release, evidence, stamp, published>>
qualifyVars == <<kind, candidate, branch, reviewers, later, store, changes>>

-----------------------------------------------------------------------------
Jobs == {"prepare", "checks", "build", "gate", "candidate"}
Needs == [j \in Jobs |-> CASE j = "prepare" -> {}
                           [] j \in {"checks", "build"} -> {"prepare"}
                           [] j = "gate" -> {"prepare", "checks", "build"}
                           [] j = "candidate" -> {"prepare", "gate"}]
\* The later run: a stable one prepares and then promotes, a nightly one reuses.
Goals == {"prepare", "promote", "reuse"}

NotRun == [result |-> "none", ran |-> 0]

Attempts == 1..MaxAttempts
Manifest == [attempt : Attempts, bytes : 0..MaxAttempts]   \* 0: nobody's build
NoManifest == [attempt |-> 0, bytes |-> 0]
NoRelease == [public |-> FALSE, tag |-> FALSE, bytes |-> 0, bytesId |-> 0,
              manifest |-> NoManifest, manifestId |-> 0]

Done(j) == job[j].result # "none"
Passed(j) == job[j].result = "success"

\* The run's commit is on the default branch.
ancestor == head \in ahead

\* Nothing of the attempt is left to run.
Completed ==
  /\ publisher = "off"
  /\ \A j \in Jobs : ~ Done(j) => \E n \in Needs[j] : ~ Passed(n)
Succeeded == Completed /\ \A j \in Jobs : Passed(j)

\* require_current_attempt_jobs: from the second attempt on, a success must
\* have been executed in this attempt, by its times and those of its steps.
Fresh == attempt = 1 \/ \A j \in Jobs : Passed(j) => job[j].ran = attempt

\* Any gate shown with the attempt will do.
GatePassed == Passed("gate")

\* release_gate_ready: one gate of that name, completed with success.
GateReady == Passed("gate") /\ Fresh

\* validate_run_provenance: the attempt asked for is the latest one.
Latest(a) == a = attempt

ValidRun(a) == Latest(a) /\ Succeeded

-----------------------------------------------------------------------------
QualifyInit ==
  /\ kind \in {"rc", "push"}
  /\ attempt = 1 /\ job = [j \in Jobs |-> NotRun] /\ lag \in BOOLEAN
  /\ publisher = "off" /\ waited = 0 /\ seen = 0 /\ outcome = "none"
  /\ head = 0 /\ pushed = {} /\ ahead = {0} /\ reviewers = TRUE
  /\ release = NoRelease /\ evidence = {} /\ stamp = 0 /\ published = {}
  /\ goal \in Goals /\ step = "off"
  /\ snap = NoRelease /\ manifest = NoManifest /\ got = 0 /\ result = 0
  /\ changes = 0

Finish(j, r) == job' = [job EXCEPT ![j] = [result |-> r, ran |-> attempt]]

\* The jobs prepare, checks and build.
RunJob(j) ==
  /\ ~ Done(j) /\ \A n \in Needs[j] : Passed(n)
  /\ \E r \in {"success", "failure"} : Finish(j, r)
  /\ UNCHANGED <<kind, attempt, lag, publisher, waited, seen, outcome, branch, reviewers,
                 later, store, changes>>

\* The gate runs even when a job before it has failed, to say so.
RunGate ==
  /\ ~ Done("gate") /\ Passed("prepare") /\ Done("checks") /\ Done("build")
  /\ Finish("gate", IF Passed("checks") /\ Passed("build") THEN "success" ELSE "failure")
  /\ UNCHANGED <<kind, attempt, lag, publisher, waited, seen, outcome, branch, reviewers,
                 later, store, changes>>

-----------------------------------------------------------------------------
\* The publisher: context, publish_versioned.

Start ==
  /\ publisher = "off" /\ ~ Done("candidate") /\ Passed("prepare") /\ Passed("gate")
  /\ publisher' = "waiting" /\ waited' = 0
  /\ UNCHANGED <<kind, attempt, job, lag, seen, outcome, branch, reviewers, later, store,
                 changes>>

Leave(how) ==
  /\ publisher' = "off" /\ outcome' = how
  /\ Finish("candidate", IF how = "failed" THEN "failure" ELSE "success")

\* Any call may fail.
PublisherFails ==
  /\ publisher # "off" /\ Leave("failed")
  /\ UNCHANGED <<kind, attempt, lag, waited, seen, branch, reviewers, later, store, changes>>

\* wait_for_executing_run polls until the run shows as in progress with its
\* gate, or the deadline; a gate that cannot do is an error at once.
WaitForRun ==
  /\ publisher = "waiting"
  /\ \/ /\ ~ lag /\ GateReady /\ ancestor
        /\ publisher' = "asking"
        /\ UNCHANGED <<job, outcome, waited>>
     \/ /\ lag /\ waited < MaxWait
        /\ waited' = waited + 1
        /\ UNCHANGED <<publisher, job, outcome>>
     \/ /\ IF lag THEN waited = MaxWait ELSE ~ (GateReady /\ ancestor)
        /\ Leave("failed") /\ UNCHANGED waited
  /\ UNCHANGED <<kind, attempt, lag, seen, branch, reviewers, later, store, changes>>

CatchUp ==
  /\ lag /\ lag' = FALSE
  /\ UNCHANGED <<kind, attempt, job, publisher, waited, seen, outcome, branch, reviewers,
                 later, store, changes>>

\* superseded_candidate, for automatic candidates only: the branch has moved
\* on, and the head that it reads first ...
Superseded == kind = "push" /\ head # 0

ReadHead(from, to) ==
  /\ publisher = from
  /\ publisher' = IF Superseded THEN "comparing" ELSE to
  /\ seen' = head
  /\ UNCHANGED <<kind, attempt, job, lag, waited, outcome, branch, reviewers, later,
                 store, changes>>

\* ... still has the run's commit behind it and a push run of its own ...
Replaced == seen \in ahead /\ seen \in pushed

CompareHead ==
  /\ publisher = "comparing"
  /\ IF Replaced THEN publisher' = "rereading" /\ UNCHANGED <<job, outcome>>
     ELSE Leave("failed")
  /\ UNCHANGED <<kind, attempt, lag, waited, seen, branch, reviewers, later, store, changes>>

MovedOn == head # 0
\* ... and is the head still when it is read again.
StillHead == head = seen

RereadHead ==
  /\ publisher = "rereading"
  /\ Leave(IF StillHead THEN "superseded" ELSE "failed")
  /\ UNCHANGED <<kind, attempt, lag, waited, seen, branch, reviewers, later, store, changes>>

\* The receipts of the staged files name this attempt of the run.
Collect ==
  /\ publisher = "collecting"
  /\ job["build"].ran = attempt
  /\ publisher' = "confirming"
  /\ UNCHANGED <<kind, attempt, job, lag, waited, seen, outcome, branch, reviewers, later,
                 store, changes>>

\* _publish_prepared, which refuses a tag that exists; an automatic candidate
\* looks at the branch once more.
PublishCandidate ==
  /\ publisher = "publishing"
  /\ ~ release.tag /\ ~ release.public /\ ~ Superseded
  /\ release' = [public |-> TRUE, tag |-> TRUE, bytes |-> attempt, bytesId |-> stamp + 1,
                 manifest |-> [attempt |-> attempt, bytes |-> attempt],
                 manifestId |-> stamp + 2]
  /\ stamp' = stamp + 2
  /\ published' = published \cup {attempt}
  /\ publisher' = "storing"
  /\ UNCHANGED <<kind, attempt, job, lag, waited, seen, outcome, branch, reviewers, later,
                 evidence, changes>>

\* The manifest becomes an artifact of the run.
StoreEvidence ==
  /\ publisher = "storing"
  /\ evidence' = evidence \cup {[attempt |-> attempt, bytes |-> attempt]}
  /\ Leave("published")
  /\ UNCHANGED <<kind, attempt, lag, waited, seen, branch, reviewers, later, release, stamp,
                 published, changes>>

-----------------------------------------------------------------------------
(* The later run: promote, or scheduled_reuse with verify_scheduled_reuse, *)
(* which takes the bytes' hash from the list of the assets.                *)

To(from, to) == step = from /\ step' = to

Begin ==
  /\ To("off", "snapshot")
  /\ IF goal = "reuse" THEN head = 0 ELSE reviewers
  /\ UNCHANGED <<kind, candidate, branch, reviewers, goal, snap, manifest, got, result,
                 store, changes>>

Refuse ==
  /\ step \notin {"off", "end"} /\ step' = "end"
  /\ UNCHANGED <<kind, candidate, branch, reviewers, goal, snap, manifest, got, result,
                 store, changes>>

\* release_snapshot: tag, release and assets.
Snapshot ==
  /\ To("snapshot", "manifest")
  /\ release.public /\ release.tag
  /\ snap' = release
  /\ UNCHANGED <<kind, candidate, branch, reviewers, goal, manifest, got, result,
                 store, changes>>

\* validate_manifest, of the asset that was listed.
ReadManifest ==
  /\ To("manifest", "run")
  /\ release.manifestId = snap.manifestId
  /\ goal = "reuse" => snap.bytes = release.manifest.bytes
  /\ manifest' = release.manifest
  /\ UNCHANGED <<kind, candidate, branch, reviewers, goal, snap, got, result, store,
                 changes>>

\* The run of the manifest; only a promotion asks for a run by hand, for jobs
\* that were not taken over, and, the first time, for a source on the branch.
CheckRun(from, to) ==
  /\ To(from, to)
  /\ ValidRun(manifest.attempt)
  /\ goal # "reuse" => kind = "rc" /\ Fresh
  /\ IF from = "rerun" THEN reviewers ELSE goal # "reuse" => ancestor
  /\ UNCHANGED <<kind, candidate, branch, reviewers, goal, snap, manifest, got, result,
                 store, changes>>

\* Some evidence is there.
HaveEvidence ==
  /\ To("evidence", IF goal = "reuse" THEN "compare" ELSE "download")
  /\ evidence # {}
  /\ got' = snap.bytes
  /\ UNCHANGED <<kind, candidate, branch, reviewers, goal, snap, manifest, result,
                 store, changes>>

\* verify_evidence: one artifact, and it holds this manifest.
VerifyEvidence ==
  /\ To("evidence", IF goal = "reuse" THEN "compare" ELSE "download")
  /\ evidence = {manifest}
  /\ got' = snap.bytes
  /\ UNCHANGED <<kind, candidate, branch, reviewers, goal, snap, manifest, result,
                 store, changes>>

\* Every file by its id, with the size and the hash of the manifest.
Download ==
  /\ To("download", "compare")
  /\ release.bytesId = snap.bytesId /\ release.bytes = manifest.bytes
  /\ got' = release.bytes
  /\ UNCHANGED <<kind, candidate, branch, reviewers, goal, snap, manifest, result,
                 store, changes>>

\* The release is still the one that was listed.
SnapshotAgain ==
  /\ To("compare", IF goal = "promote" THEN "rerun" ELSE "accept")
  /\ release = snap
  /\ UNCHANGED <<kind, candidate, branch, reviewers, goal, snap, manifest, got, result,
                 store, changes>>

\* A promotion publishes the bytes; a reuse looks at the branch once more.
Accept ==
  /\ To("accept", "end")
  /\ goal = "reuse" => head = 0
  /\ result' = got
  /\ UNCHANGED <<kind, candidate, branch, reviewers, goal, snap, manifest, got, store,
                 changes>>

-----------------------------------------------------------------------------
(* People.                                                                 *)
MayChange == changes < MaxChanges /\ changes' = changes + 1

\* A set of jobs with those that need one of them.
WithDependents(js) == js \cup {j \in Jobs : Needs[j] \cap js # {}}

\* All jobs, the failed ones or one of them, with what depends on them.
Rerun ==
  /\ MayChange /\ attempt < MaxAttempts /\ Completed
  /\ \E js \in {Jobs, {j \in Jobs : ~ Passed(j)}} \cup {{j} : j \in Jobs} :
       /\ js # {}
       /\ job' = [j \in Jobs |->
                    IF j \in WithDependents(WithDependents(js)) THEN NotRun ELSE job[j]]
  /\ attempt' = attempt + 1 /\ lag' \in BOOLEAN /\ outcome' = "none"
  /\ UNCHANGED <<kind, publisher, waited, seen, branch, reviewers, later, store>>

\* Files are exchanged, the release or its tag goes or comes back.
ChangeRelease ==
  /\ MayChange /\ release # NoRelease
  /\ \/ \E b \in 0..MaxAttempts :
          release' = [release EXCEPT !.bytes = b, !.bytesId = stamp + 1]
     \/ \E m \in Manifest :
          release' = [release EXCEPT !.manifest = m, !.manifestId = stamp + 1]
     \/ release' = [release EXCEPT !.public = ~ @]
     \/ release' = [release EXCEPT !.tag = ~ @]
     \/ release' = NoRelease
  /\ stamp' = stamp + 1
  /\ UNCHANGED <<kind, candidate, branch, reviewers, later, evidence, published>>

Expire ==
  /\ MayChange /\ \E m \in evidence : evidence' = evidence \ {m}
  /\ UNCHANGED <<kind, candidate, branch, reviewers, later, release, stamp, published>>

\* A push, with a run of its own or without, that goes on or rewrites the branch.
Push ==
  /\ MayChange
  /\ head' = head + 1
  /\ pushed' \in {pushed, pushed \cup {head'}}
  /\ ahead' \in {ahead, IF ancestor THEN ahead \cup {head'} ELSE ahead}
  /\ UNCHANGED <<kind, candidate, reviewers, later, store>>

ChangeReviewers ==
  /\ MayChange /\ reviewers' = ~ reviewers
  /\ UNCHANGED <<kind, candidate, branch, later, store>>

CandidateNext ==
  \/ (\E j \in {"prepare", "checks", "build"} : RunJob(j)) \/ RunGate
  \/ Start \/ WaitForRun \/ Collect
  \/ ReadHead("asking", "collecting") \/ ReadHead("confirming", "publishing")
  \/ CompareHead \/ RereadHead
  \/ PublishCandidate \/ StoreEvidence

\* What the three have in common.
Verification ==
  \/ Begin \/ Snapshot \/ ReadManifest \/ CheckRun("run", "evidence") \/ VerifyEvidence
  \/ SnapshotAgain \/ Accept

\* Before anything is built, the job prepare accepts the release candidate; the
\* job that promotes starts again from the beginning, and looks twice at what
\* may change. A nightly does not download.
VerifiedRc == goal = "prepare" /\ (Verification \/ Download)
Promote == goal = "promote" /\ (Verification \/ Download \/ CheckRun("rerun", "accept"))
Reuse == goal = "reuse" /\ Verification

QualifyNext ==
  \/ CandidateNext \/ PublisherFails \/ CatchUp
  \/ VerifiedRc \/ Promote \/ Reuse \/ Refuse
  \/ Rerun \/ ChangeRelease \/ Expire \/ Push \/ ChangeReviewers

QualifySpec == QualifyInit /\ [][QualifyNext]_qualifyVars

-----------------------------------------------------------------------------
QualifyTypeOK ==
  /\ kind \in {"rc", "push"} /\ attempt \in Attempts /\ lag \in BOOLEAN
  /\ job \in [Jobs -> [result : {"none", "success", "failure"}, ran : 0..MaxAttempts]]
  /\ publisher \in {"off", "waiting", "asking", "collecting", "confirming", "publishing",
                    "storing", "comparing", "rereading"}
  /\ seen \in Nat /\ waited \in 0..MaxWait /\ outcome \in {"none", "failed", "superseded", "published"}
  /\ head \in Nat /\ pushed \subseteq Nat /\ ahead \subseteq Nat /\ reviewers \in BOOLEAN
  /\ evidence \subseteq Manifest /\ published \subseteq Attempts
  /\ goal \in Goals
  /\ step \in {"off", "snapshot", "manifest", "run", "evidence", "download", "compare",
               "rerun", "accept", "end"}
  /\ got \in 0..MaxAttempts /\ result \in 0..MaxAttempts

\* A candidate becomes public only in an attempt that has itself executed
\* the checks, the build and the gate: results of an earlier attempt, shown
\* again after some jobs were run again, do not fill in.
FreshPublication ==
  [][\A a \in published' \ published :
       \A j \in {"prepare", "checks", "build", "gate"} : Passed(j) /\ job[j].ran = a]_qualifyVars

\* Whatever people do to a release candidate, to its files, its manifest and
\* its run, the bytes accepted, promoted or reused are those that the run
\* published in the attempt that qualified them.
OnlyQualifiedBytes == result # 0 => result \in published

\* An automatic candidate is skipped only when the branch, at that moment, ends
\* in a later commit that has the candidate's behind it and a run of its own,
\* whatever was pushed while it was looking: a push without a run does not leave
\* both unreleased.
SkippedIsReplaced ==
  [][outcome' = "superseded" /\ outcome # "superseded"
       => head # 0 /\ head \in pushed /\ ancestor]_qualifyVars

=============================================================================
