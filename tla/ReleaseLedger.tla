-------------------------- MODULE ReleaseLedger --------------------------
(***************************************************************************)
(* The version ledger of the release pipeline (scripts/release_state.py):  *)
(* one JSON file on a branch of its own, read by every run and written     *)
(* back by compare-and-swap of the blob. A candidate run reserves a build  *)
(* number and a tag before it builds; a publication uses the number up     *)
(* before it creates the tag; the promotion of a release candidate keeps   *)
(* the candidate's number.                                                 *)
(*                                                                         *)
(* A run may fail, be cancelled or lose the answer to a write at any       *)
(* point, and may be run again: it then starts over with its inputs.       *)
(* People may delete a release or a tag. What a publication does between   *)
(* its tag and its release is the subject of ReleasePublish.               *)
(*                                                                         *)
(* The policy of this repository is promote-bytes (.release-policy.json),  *)
(* so a stable run promotes a candidate and reserves nothing.              *)
(***************************************************************************)
EXTENDS Naturals, FiniteSets

CONSTANTS
  Runs,          \* the ids of the workflow runs
  Bases,         \* the base versions X.Y.Z
  MaxAttempts,   \* bound on the attempts of all runs
  MaxParallel    \* bound on the runs in progress without a concurrency group

ASSUME RunsAssumption == IsFiniteSet(Runs) /\ Runs \cap Nat = {}
ASSUME BoundAssumption == MaxAttempts \in Nat /\ MaxParallel \in Nat \ {0}

VARIABLES
  parallel,   \* how many runs may be in progress: 1 in a concurrency group
  request,    \* the channel and the base of each run
  branch,     \* the branch of the ledger exists
  ledger,     \* the file on it
  tags,       \* the tags of the repository
  drafts,     \* the tags of the unpublished releases
  releases,   \* the published releases: tag and build number
  pc,         \* where each run is
  attempts,   \* the attempts of all runs so far
  seen,       \* the ledger as the run last read it
  plan,       \* the plan the run works with
  \* history
  begun,      \* how often each number was used up by a candidate's run
  newest      \* the largest number ever published

world == <<branch, tags, drafts, releases>>
history == <<begun, newest>>
fixed == <<parallel, request>>
vars == <<fixed, world, ledger, pc, attempts, seen, plan, history>>

Channels == {"nightly", "beta", "rc", "stable"}
Requests == [channel : Channels, base : Bases]
Tag == [base : Bases, channel : Channels, seq : Nat \cup Runs]
Plan == [tag : Tag, number : Nat]
Ledger == [written : BOOLEAN, counter : Nat, floor : Nat,
           number : [Runs -> Nat], seq : [Runs -> Nat \cup Runs]]

\* The ledger of a repository that has never allocated a version.
NewLedger == [written |-> FALSE, counter |-> 0, floor |-> 0,
              number |-> [r \in Runs |-> 0], seq |-> [r \in Runs |-> 0]]

StableTag(b) == [base |-> b, channel |-> "stable", seq |-> 0]
RunTag(r, s) == [base |-> request[r].base, channel |-> request[r].channel, seq |-> s]
Unplanned(r) == [tag |-> StableTag(request[r].base), number |-> 0]
Promotes(r) == request[r].channel = "stable"

\* The plan that a ledger holds for a run.
Reserved(l, r) == [tag |-> RunTag(r, l.seq[r]), number |-> l.number[r]]

\* The tag that a run publishes.
Target(r) == IF Promotes(r) THEN StableTag(request[r].base) ELSE plan[r].tag

PublishedTags == {p.tag : p \in releases}

\* ensure_absent: no tag, no release and no draft has the name.
Absent(t) == t \notin tags \cup drafts \cup PublishedTags

\* After the stable release of a base it has no more betas and candidates.
Open(r) == request[r].channel \in {"beta", "rc"} => Absent(StableTag(request[r].base))

\* read_state refuses a branch that has lost its file.
Readable == branch => ledger.written

\* The sequences of a base and channel in use: by tags and releases, and by
\* the reservations that a ledger holds.
UsedSequences(l, r) ==
  {t.seq : t \in {t \in tags \cup drafts \cup PublishedTags :
                    t.base = request[r].base /\ t.channel = request[r].channel}}
    \cup {l.seq[q] : q \in {q \in Runs : l.number[q] # 0 /\ request[q] = request[r]}}

\* The only one is one more than the largest, or 1.
NextSequences(used) == {s \in {1} \cup {n + 1 : n \in used} : \A n \in used : n < s}

\* A nightly's sequence holds the id of its run.
SequencesOf(l, r) ==
  IF request[r].channel = "nightly" THEN {r} ELSE NextSequences(UsedSequences(l, r))

PublishableTwice(l, r) ==
  /\ Reserved(l, r) = plan[r]
  /\ plan[r].number >= l.floor

\* verify_reservation: the plan is the run's own, its number is not used up,
\* and no package with this or a newer number is public.
Publishable(l, r) ==
  /\ Reserved(l, r) = plan[r]
  /\ plan[r].number > l.floor
  /\ ~ \E q \in Runs : /\ l.number[q] # 0
                       /\ Reserved(l, q).tag \in PublishedTags
                       /\ l.number[q] >= plan[r].number

\* verify_promotion_order: the candidate has one reservation and is public,
\* and no newer number is used up or public.
Promotable(l, p) ==
  /\ Cardinality({q \in Runs : l.number[q] # 0 /\ Reserved(l, q) = p}) = 1
  /\ p.number >= l.floor
  /\ p.tag \in PublishedTags
  /\ ~ \E q \in Runs : /\ l.number[q] # 0
                       /\ Reserved(l, q).tag # p.tag
                       /\ Reserved(l, q).tag \in PublishedTags
                       /\ l.number[q] > p.number

Init ==
  /\ parallel \in 1..MaxParallel
  /\ request \in [Runs -> Requests]
  /\ branch = FALSE /\ ledger = NewLedger
  /\ tags = {} /\ drafts = {} /\ releases = {}
  /\ pc = [r \in Runs |-> "idle"]
  /\ attempts = 0
  /\ seen = [r \in Runs |-> NewLedger]
  /\ plan = [r \in Runs |-> Unplanned(r)]
  /\ begun = [r \in Runs |-> 0] /\ newest = 0

Goto(r, from, to) == pc[r] = from /\ pc' = [pc EXCEPT ![r] = to]

\* A run ends; what it knew is gone with its runner.
End(r) ==
  /\ pc' = [pc EXCEPT ![r] = "idle"]
  /\ seen' = [seen EXCEPT ![r] = NewLedger]
  /\ plan' = [plan EXCEPT ![r] = Unplanned(r)]

\* A write that reaches the server; the run ends when it loses the answer.
Write(r, from, to) ==
  /\ pc[r] = from
  /\ \/ Goto(r, from, to) /\ UNCHANGED <<seen, plan>>
     \/ End(r)

StartAnyTime(r) ==
  /\ attempts < MaxAttempts
  /\ Goto(r, "idle", IF Promotes(r) THEN "selecting" ELSE "preparing")
  /\ attempts' = attempts + 1
  /\ UNCHANGED <<fixed, world, ledger, seen, plan, history>>

\* A run starts, or is run again; with the concurrency group, alone.
Start(r) ==
  /\ attempts < MaxAttempts
  /\ Cardinality({q \in Runs : pc[q] # "idle"}) < parallel
  /\ Goto(r, "idle", IF Promotes(r) THEN "selecting" ELSE "preparing")
  /\ attempts' = attempts + 1
  /\ UNCHANGED <<fixed, world, ledger, seen, plan, history>>

\* A check, a call or the runner fails, or the job is cancelled.
Fail(r) ==
  /\ pc[r] # "idle"
  /\ End(r)
  /\ UNCHANGED <<fixed, world, ledger, attempts, history>>

-----------------------------------------------------------------------------
\* Reservation: prepare, reserve_plan.

ReserveAgain(r) ==
  /\ Open(r) /\ Readable
  /\ seen' = [seen EXCEPT ![r] = ledger]
  /\ Goto(r, "preparing", "allocating")
  /\ UNCHANGED <<fixed, world, ledger, attempts, plan, history>>

\* A run that has reserved before, in an earlier attempt, keeps its plan.
ReadForReservation(r) ==
  /\ Open(r) /\ Readable
  /\ seen' = [seen EXCEPT ![r] = ledger]
  /\ IF ledger.number[r] # 0
     THEN Goto(r, "preparing", "built") /\ plan' = [plan EXCEPT ![r] = Reserved(ledger, r)]
     ELSE Goto(r, "preparing", "allocating") /\ UNCHANGED plan
  /\ UNCHANGED <<fixed, world, ledger, attempts, history>>

Allocate(r) ==
  /\ Goto(r, "allocating", "reserving")
  /\ \E s \in SequencesOf(seen[r], r) :
       plan' = [plan EXCEPT ![r] = [tag |-> RunTag(r, s), number |-> seen[r].counter + 1]]
  /\ UNCHANGED <<fixed, world, ledger, attempts, seen, history>>

\* The first allocation creates the branch, without the file.
CreateBranch(r) ==
  /\ Write(r, "reserving", "saving")
  /\ Absent(plan[r].tag)
  /\ branch' = TRUE
  /\ UNCHANGED <<fixed, tags, drafts, releases, ledger, attempts, history>>

SaveBlindly(r) ==
  /\ Write(r, "saving", "built")
  /\ ledger' = [ledger EXCEPT !.written = TRUE, !.counter = plan[r].number,
                              !.number[r] = plan[r].number, !.seq[r] = plan[r].tag.seq]
  /\ UNCHANGED <<fixed, world, attempts, history>>

\* write_state: the server refuses a write that is based on another blob.
SaveReservation(r) ==
  /\ Write(r, "saving", "built")
  /\ seen[r] = ledger
  /\ ledger' = [ledger EXCEPT !.written = TRUE, !.counter = plan[r].number,
                              !.number[r] = plan[r].number, !.seq[r] = plan[r].tag.seq]
  /\ UNCHANGED <<fixed, world, attempts, history>>

-----------------------------------------------------------------------------
\* Publication: publish_versioned and promote up to begin_publication, and
\* the writes of _publish_prepared.

Verify(r) ==
  /\ Goto(r, "built", "opening")
  /\ Readable /\ Publishable(ledger, r) /\ Absent(plan[r].tag) /\ Open(r)
  /\ UNCHANGED <<fixed, world, ledger, attempts, seen, plan, history>>

SelectCandidate(r) ==
  /\ Goto(r, "selecting", "opening")
  /\ \E p \in releases :
       /\ p.tag.channel = "rc" /\ p.tag.base = request[r].base
       /\ Readable /\ Promotable(ledger, p)
       /\ plan' = [plan EXCEPT ![r] = p]
  /\ Absent(StableTag(request[r].base))
  /\ UNCHANGED <<fixed, world, ledger, attempts, seen, history>>

ReadForPublication(r) ==
  /\ Goto(r, "opening", "ordering")
  /\ Readable
  /\ seen' = [seen EXCEPT ![r] = ledger]
  /\ UNCHANGED <<fixed, world, ledger, attempts, plan, history>>

CheckOrder(r) ==
  /\ Goto(r, "ordering", "consuming")
  /\ IF Promotes(r) THEN Promotable(seen[r], plan[r]) ELSE Publishable(seen[r], r)
  /\ UNCHANGED <<fixed, world, ledger, attempts, seen, plan, history>>

Consume(r) ==
  /\ Write(r, "consuming", "tagging")
  /\ seen[r] = ledger
  /\ ledger' = [ledger EXCEPT !.floor = plan[r].number]
  /\ begun' = IF Promotes(r) THEN begun ELSE [begun EXCEPT ![r] = @ + 1]
  /\ UNCHANGED <<fixed, world, attempts, newest>>

\* The server refuses a tag that exists; ReleasePublish also looks for drafts.
CreateTag(r) ==
  /\ Write(r, "tagging", "drafting")
  /\ Target(r) \notin tags
  /\ tags' = tags \cup {Target(r)}
  /\ UNCHANGED <<fixed, branch, drafts, releases, ledger, attempts, history>>

CreateDraft(r) ==
  /\ Write(r, "drafting", "publishing")
  /\ drafts' = drafts \cup {Target(r)}
  /\ UNCHANGED <<fixed, branch, tags, releases, ledger, attempts, history>>

\* The server restores a tag that was deleted. Another draft of the tag stays.
Publish(r) ==
  /\ pc[r] = "publishing" /\ End(r)
  /\ Target(r) \in drafts
  /\ tags' = tags \cup {Target(r)}
  /\ drafts' \in {drafts, drafts \ {Target(r)}}
  /\ releases' = releases \cup {[tag |-> Target(r), number |-> plan[r].number]}
  /\ newest' = IF plan[r].number > newest THEN plan[r].number ELSE newest
  /\ UNCHANGED <<fixed, branch, ledger, attempts, begun>>

-----------------------------------------------------------------------------
\* A person deletes a release or a draft, with its tag or without, or a tag.
Delete(t) ==
  /\ t \in tags \cup drafts \cup PublishedTags
  /\ tags' \in {tags, tags \ {t}}
  /\ \/ drafts' = drafts \ {t} /\ UNCHANGED releases
     \/ releases' = {p \in releases : p.tag # t} /\ UNCHANGED drafts
     \/ UNCHANGED <<drafts, releases>>
  /\ UNCHANGED <<fixed, branch, ledger, pc, attempts, seen, plan, history>>

\* A person takes the name that a run is about to publish, by a draft or a tag.
Claim(r) ==
  /\ pc[r] \in {"tagging", "drafting", "publishing"}
  /\ \/ drafts' = drafts \cup {Target(r)} /\ UNCHANGED tags
     \/ tags' = tags \cup {Target(r)} /\ UNCHANGED drafts
  /\ UNCHANGED <<fixed, branch, releases, ledger, pc, attempts, seen, plan, history>>

RunNext(r) ==
  \/ Start(r) \/ Fail(r)
  \/ ReadForReservation(r) \/ Allocate(r) \/ CreateBranch(r) \/ SaveReservation(r)
  \/ Verify(r) \/ SelectCandidate(r) \/ ReadForPublication(r) \/ CheckOrder(r)
  \/ Consume(r) \/ CreateTag(r) \/ CreateDraft(r) \/ Publish(r)

Next == \/ \E r \in Runs : RunNext(r) \/ Claim(r)
        \/ \E t \in tags \cup drafts \cup PublishedTags : Delete(t)

Spec == Init /\ [][Next]_vars

-----------------------------------------------------------------------------
States == {"idle", "preparing", "allocating", "reserving", "saving", "built",
           "selecting", "opening", "ordering", "consuming", "tagging", "drafting",
           "publishing"}

TypeOK ==
  /\ parallel \in 1..MaxParallel
  /\ request \in [Runs -> Requests]
  /\ branch \in BOOLEAN
  /\ ledger \in Ledger
  /\ tags \subseteq Tag /\ drafts \subseteq Tag
  /\ releases \subseteq Plan
  /\ pc \in [Runs -> States]
  /\ attempts \in Nat
  /\ seen \in [Runs -> Ledger]
  /\ plan \in [Runs -> Plan]
  /\ begun \in [Runs -> Nat]
  /\ newest \in Nat

\* reserve_plan allocates once per run, from one counter: two runs never hold
\* the same build number, nor the same tag, however their reads and writes
\* interleave and whatever releases were deleted in between.
UniqueReservations ==
  \A q, r \in Runs :
    (q # r /\ ledger.number[q] # 0 /\ ledger.number[r] # 0) =>
      /\ ledger.number[q] # ledger.number[r]
      /\ RunTag(q, ledger.seq[q]) # RunTag(r, ledger.seq[r])

\* begin_publication: a failed publication uses its number up, so the number
\* is never used for a second attempt, and nothing is public under a number
\* that is not used up.
ConsumedOnce ==
  /\ \A r \in Runs : begun[r] <= 1
  /\ \A r \in Runs : ledger.number[r] > ledger.floor =>
       RunTag(r, ledger.seq[r]) \notin tags \cup PublishedTags

\* docs/VERSIONING.md: while the workflow is serialized through publication a
\* package older than one that was ever public does not become public, not
\* even after the newer one is deleted.
NoDowngrade ==
  [][parallel = 1 => \A p \in releases' \ releases : p.number >= newest]_vars

\* The ledger keeps the contract of LedgerContract.
Contract == INSTANCE LedgerContract
  WITH allocated <- ledger.number, consumed <- ledger.floor
ImplementsContract == Contract!Spec

=============================================================================
