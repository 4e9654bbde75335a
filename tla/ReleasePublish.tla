-------------------------- MODULE ReleasePublish --------------------------
(***************************************************************************)
(* The transaction that makes one release public: _publish_prepared of     *)
(* scripts/release_control.py, called by publish_versioned for a candidate *)
(* and by promote for a stable release. It creates the tag, creates a      *)
(* draft, uploads and downloads every file, and publishes the draft.       *)
(*                                                                         *)
(* Every call may fail; the runner may stop. The answer to the creation of *)
(* the draft may be lost, and the server may create the draft later. A     *)
(* candidate then looks for its own draft, once, page by page. People work *)
(* on the repository meanwhile: they draft and delete releases, change the *)
(* files of drafts, delete or move the tag, and push.                      *)
(***************************************************************************)
EXTENDS GitHubCalls, Sequences, FiniteSets

CONSTANTS
  Files,       \* the names of the staged files
  PageSize,    \* releases on one page of the inventory
  Others,      \* releases of other tags at the start
  MaxActs      \* bound on what people do

ASSUME FilesAssumption == Files # {} /\ IsFiniteSet(Files)
ASSUME SizesAssumption == PageSize \in Nat \ {0} /\ Others \in Nat /\ MaxActs \in Nat

Kinds == {"automatic", "manual", "promotion"}
World == {"run", "branch", "source", "ledger"}

VARIABLES
  caller,      \* who calls: an automatic or a manual candidate, or a promotion
  world,       \* what is still as it was when the number was used up
  tag,         \* the tag of this release: none, ours or moved
  listing,     \* the releases of the repository, the newest first
  lastId,      \* the id given last
  acts,        \* what people have done so far
  late,        \* the creation is on its way although its answer is lost
  pc,
  tries,       \* attempts of the read in progress
  draftId,     \* the id of the draft that the transaction works with
  sent,        \* the files uploaded
  checked,     \* the files downloaded again
  first, second,  \* the two inventories of the readback
  page,        \* the page to read next
  \* history
  own,         \* the ids of the drafts that this transaction created
  old,         \* the releases there were when the readback began
  touched,     \* a person changed the files after they had been listed
  shown        \* the transaction has made its draft public

people == <<acts, touched>>
history == <<own, shown>>
reading == <<first, second, page, old>>
vars == <<caller, world, tag, listing, lastId, late, pc, tries, draftId, sent, checked,
          reading, history, people>>

-----------------------------------------------------------------------------
(* Releases as the server keeps them. files is the set of the name and the *)
(* health of each file; note is the body, which holds this call's nonce or *)
(* is somebody else's.                                                     *)
Uploads == (Files \cup {"extra"}) \X BOOLEAN
Release == [id : Nat, ours : BOOLEAN, note : {"nonce", "other"}, draft : BOOLEAN,
            files : SUBSET Uploads]

Draft(id, note) ==
  [id |-> id, ours |-> TRUE, note |-> note, draft |-> TRUE, files |-> {}]
Other(id) ==
  [id |-> id, ours |-> FALSE, note |-> "other", draft |-> FALSE, files |-> {}]

Elements(s) == {s[i] : i \in DOMAIN s}
Ids(s) == {x.id : x \in Elements(s)}
Entry(s, id) == CHOOSE x \in Elements(s) : x.id = id
Matches(s) == {x \in Elements(s) : x.ours}
Edit(id, Change(_)) ==
  listing' = [i \in DOMAIN listing |->
                IF listing[i].id = id THEN Change(listing[i]) ELSE listing[i]]

Exact == {<<f, TRUE>> : f \in Files}
Names(x) == {u[1] : u \in x.files}

RequestedByName(x) == x.ours /\ x.draft /\ x.files = {}

\* checked_release: the draft is what was asked for, still private and empty.
Requested(x) == x.ours /\ x.note = "nonce" /\ x.draft /\ x.files = {}

Init ==
  /\ caller \in Kinds
  /\ world = World /\ tag = "none"
  /\ listing = [i \in 1..Others |-> Other(Others + 1 - i)] /\ lastId = Others
  /\ acts = 0 /\ late = FALSE
  /\ pc = "no tag" /\ tries = 0 /\ draftId = 0
  /\ sent = {} /\ checked = {}
  /\ first = <<>> /\ second = <<>> /\ page = 1
  /\ own = {} /\ old = {} /\ touched = FALSE /\ shown = FALSE

Goto(from, to) == pc = from /\ pc' = to
Stopped == {"failed", "published"}

\* A check, a call or the runner fails.
Fail ==
  /\ pc \notin Stopped
  /\ pc' = "failed"
  /\ UNCHANGED <<caller, world, tag, listing, lastId, late, tries, draftId, sent,
                 checked, reading, history, people>>

-----------------------------------------------------------------------------
Reads(exists) == ReadResults[exists][tries = 2]

\* ensure_absent reads the tag and then the releases, each up to three times.
ReadAbsent(from, exists, to) ==
  /\ pc = from
  /\ \E r \in Reads(exists) :
       CASE r = "missing" -> pc' = to /\ tries' = 0
         [] r = "again" -> pc' = from /\ tries' = tries + 1
         [] OTHER -> pc' = "failed" /\ UNCHANGED tries
  /\ UNCHANGED <<caller, world, tag, listing, lastId, late, draftId, sent, checked,
                 reading, history, people>>

EnsureNoTag == ReadAbsent("no tag", tag # "none", "no release")
EnsureNoRelease == ReadAbsent("no release", Matches(listing) # {}, "tag")

TakeTag ==
  /\ pc = "tag"
  /\ tag' = "ours"
  /\ pc' \in {"create", "failed"}
  /\ UNCHANGED <<caller, world, listing, lastId, late, tries, draftId, sent, checked,
                 reading, history, people>>

\* The server refuses a tag that exists. An answer that is lost is an error.
CreateTag ==
  /\ pc = "tag" /\ tag = "none"
  /\ tag' = "ours"
  /\ \E r \in WriteResults : pc' = IF r = "done" THEN "create" ELSE "failed"
  /\ UNCHANGED <<caller, world, listing, lastId, late, tries, draftId, sent, checked,
                 reading, history, people>>

Insert ==
  /\ listing' = <<Draft(lastId + 1, "nonce")>> \o listing
  /\ lastId' = lastId + 1
  /\ own' = own \cup {lastId + 1}

\* One POST. Without confirm_create, in a promotion, a lost answer is an
\* error; with it only an unknown outcome is looked into.
CreateRelease ==
  /\ pc = "create"
  /\ \E created \in BOOLEAN :
       /\ IF created THEN Insert ELSE UNCHANGED <<listing, lastId, own>>
       /\ \E r \in CreateResults[created] :
            CASE r = "created" -> pc' = "upload" /\ draftId' = lastId' /\ UNCHANGED late
              [] r = "unknown" -> /\ pc' = IF caller = "promotion" THEN "failed" ELSE "confirm"
                                  /\ late' \in {FALSE, ~ created}
                                  /\ UNCHANGED draftId
              [] OTHER -> pc' = "failed" /\ UNCHANGED <<late, draftId>>
  /\ UNCHANGED <<caller, world, tag, tries, sent, checked, reading, shown, people>>

\* The server carries out, after all, what it was asked for.
LateCreation ==
  /\ late /\ late' = FALSE
  /\ Insert
  /\ UNCHANGED <<caller, world, tag, pc, tries, draftId, sent, checked, reading, shown,
                 people>>

-----------------------------------------------------------------------------
(* The readback: _reconcile_created_release. What confirm reads in several *)
(* calls only ever changes one way here, so one step stands for them.      *)
Confirm ==
  /\ world = World
  /\ Goto("confirm", "first")
  /\ old' = Ids(listing)
  /\ page' = 1 /\ first' = <<>> /\ second' = <<>>
  /\ UNCHANGED <<caller, world, tag, listing, lastId, late, tries, draftId, sent,
                 checked, history, people>>

Page(n) == SubSeq(listing, (n - 1) * PageSize + 1,
                  IF n * PageSize < Len(listing) THEN n * PageSize ELSE Len(listing))

\* A page that is full has a successor; an id seen before is refused.
ReadPage(from, got, to) ==
  /\ Ids(Page(page)) \cap Ids(got) = {}
  /\ IF Len(Page(page)) = PageSize
     THEN Goto(from, from) /\ page' = page + 1
     ELSE Goto(from, to) /\ page' = 1

ReadFirst ==
  /\ ReadPage("first", first, "second")
  /\ first' = first \o Page(page)
  /\ UNCHANGED <<caller, world, tag, listing, lastId, late, tries, draftId, sent,
                 checked, second, old, history, people>>

ReadSecond ==
  /\ ReadPage("second", second, "compare")
  /\ second' = second \o Page(page)
  /\ UNCHANGED <<caller, world, tag, listing, lastId, late, tries, draftId, sent,
                 checked, first, old, history, people>>

CompareOnce ==
  /\ Goto("compare", "inspect")
  /\ \E x \in Matches(second) : Matches(second) = {x} /\ Requested(x) /\ draftId' = x.id
  /\ UNCHANGED <<caller, world, tag, listing, lastId, late, tries, sent, checked, first,
                 second, page, old, history, people>>

\* Both inventories agree and hold one release of the tag, as requested.
Compare ==
  /\ Goto("compare", "inspect")
  /\ {<<x.id, x.ours>> : x \in Elements(first)} = {<<x.id, x.ours>> : x \in Elements(second)}
  /\ \E x \in Matches(second) :
       /\ Matches(second) = {x} /\ Requested(x)
       /\ Requested(Entry(first, x.id))
       /\ draftId' = x.id
  /\ UNCHANGED <<caller, world, tag, listing, lastId, late, tries, sent, checked, first,
                 second, page, old, history, people>>

\* The draft by its id and the list of its files, before and after the tag
\* and the run are looked at once more.
Inspect(from, to) ==
  /\ Goto(from, to)
  /\ draftId \in Ids(listing) /\ Requested(Entry(listing, draftId))
  /\ UNCHANGED <<caller, world, tag, listing, lastId, late, tries, draftId, sent,
                 checked, reading, history, people>>

ConfirmAgain ==
  /\ Goto("reconfirm", "inspect again")
  /\ tag = "ours" /\ world = World
  /\ UNCHANGED <<caller, world, tag, listing, lastId, late, tries, draftId, sent,
                 checked, reading, history, people>>

-----------------------------------------------------------------------------
\* One upload per file, never sent again; what is stored may be damaged.
Upload(f) ==
  /\ f \in Files \ sent
  /\ draftId \in Ids(listing) /\ f \notin Names(Entry(listing, draftId))
  /\ \E stored, healthy \in BOOLEAN :
       /\ IF stored
          THEN Edit(draftId, LAMBDA x : [x EXCEPT !.files = @ \cup {<<f, healthy>>}])
          ELSE UNCHANGED listing
       /\ \E r \in IF stored THEN WriteResults ELSE {"error"} :
            Goto("upload", IF r = "done" THEN "upload" ELSE "failed")
  /\ sent' = sent \cup {f}
  /\ UNCHANGED <<caller, world, tag, lastId, late, tries, draftId, checked, reading,
                 history, people>>

\* The list of the files, read like any other metadata.
ReadUploaded ==
  /\ sent = Files
  /\ pc = "upload"
  /\ \E r \in Reads(draftId \in Ids(listing)) :
       CASE r = "again" -> pc' = "upload" /\ tries' = tries + 1
         [] r = "value" -> /\ pc' = IF /\ Names(Entry(listing, draftId)) = Files
                                        /\ Cardinality(Entry(listing, draftId).files)
                                             = Cardinality(Files)
                                     THEN "verify" ELSE "failed"
                           /\ tries' = 0
         [] OTHER -> pc' = "failed" /\ UNCHANGED tries
  /\ UNCHANGED <<caller, world, tag, listing, lastId, late, draftId, sent, checked,
                 reading, history, people>>

VerifyName(f) ==
  /\ Goto("verify", "verify")
  /\ f \in Files \ checked
  /\ draftId \in Ids(listing) /\ f \in Names(Entry(listing, draftId))
  /\ checked' = checked \cup {f}
  /\ UNCHANGED <<caller, world, tag, listing, lastId, late, tries, draftId, sent,
                 reading, history, people>>

\* verify_uploaded_asset: every byte comes back as it was sent.
VerifyFile(f) ==
  /\ Goto("verify", "verify")
  /\ f \in Files \ checked
  /\ draftId \in Ids(listing) /\ <<f, TRUE>> \in Entry(listing, draftId).files
  /\ checked' = checked \cup {f}
  /\ UNCHANGED <<caller, world, tag, listing, lastId, late, tries, draftId, sent,
                 reading, history, people>>

CheckTag ==
  /\ checked = Files
  /\ Goto("verify", IF caller = "automatic" THEN "check source" ELSE "publish")
  /\ tag = "ours"
  /\ UNCHANGED <<caller, world, tag, listing, lastId, late, tries, draftId, sent,
                 checked, reading, history, people>>

\* confirm_automatic_source: the default branch and its head are the same.
CheckSource ==
  /\ Goto("check source", "publish")
  /\ {"branch", "source"} \subseteq world
  /\ UNCHANGED <<caller, world, tag, listing, lastId, late, tries, draftId, sent,
                 checked, reading, history, people>>

\* The draft becomes public, with its tag; the answer may be lost.
Publish ==
  /\ pc = "publish"
  /\ draftId \in Ids(listing)
  /\ Edit(draftId, LAMBDA x : [x EXCEPT !.draft = FALSE])
  /\ tag' = IF tag = "none" THEN "ours" ELSE tag
  /\ \E r \in WriteResults : pc' = IF r = "done" THEN "published" ELSE "failed"
  /\ shown' = TRUE
  /\ UNCHANGED <<caller, world, lastId, late, tries, draftId, sent, checked, reading,
                 own, people>>

Step ==
  \/ EnsureNoTag \/ EnsureNoRelease \/ CreateTag \/ CreateRelease
  \/ Confirm \/ ReadFirst \/ ReadSecond \/ Compare
  \/ Inspect("inspect", "reconfirm") \/ ConfirmAgain \/ Inspect("inspect again", "upload")
  \/ (\E f \in Files : Upload(f) \/ VerifyFile(f))
  \/ ReadUploaded \/ CheckTag \/ CheckSource \/ Publish

-----------------------------------------------------------------------------
(* People, and runs other than this one.                                   *)
Act == acts < MaxActs /\ acts' = acts + 1

Listed == pc \in {"verify", "check source", "publish"}

NewDraft ==
  /\ Act
  /\ pc \notin Stopped
  /\ listing' = <<Draft(lastId + 1, "other")>> \o listing
  /\ lastId' = lastId + 1
  /\ UNCHANGED <<caller, world, tag, late, pc, tries, draftId, sent, checked, reading,
                 history, touched>>

DeleteRelease ==
  /\ Act
  /\ \E i \in DOMAIN listing :
       listing' = SubSeq(listing, 1, i - 1) \o SubSeq(listing, i + 1, Len(listing))
  /\ UNCHANGED <<caller, world, tag, lastId, late, pc, tries, draftId, sent, checked,
                 reading, history, touched>>

\* A file is added to a draft, or removed, or its body is rewritten.
ChangeDraft ==
  /\ Act
  /\ \E x \in {x \in Elements(listing) : x.ours /\ x.draft} :
       \/ \E f \in Uploads \ x.files :
            Edit(x.id, LAMBDA y : [y EXCEPT !.files = @ \cup {f}])
       \/ \E f \in x.files :
            Edit(x.id, LAMBDA y : [y EXCEPT !.files = @ \ {f}])
       \/ Edit(x.id, LAMBDA y : [y EXCEPT !.note = "other"])
  /\ touched' = (touched \/ Listed)
  /\ UNCHANGED <<caller, world, tag, lastId, late, pc, tries, draftId, sent, checked,
                 reading, history>>

\* The tag is deleted, moved, or pushed by somebody else.
ChangeTag ==
  /\ Act
  /\ \/ tag # "none" /\ tag' = "none"
     \/ pc \notin Stopped /\ tag' = "moved"
  /\ UNCHANGED <<caller, world, listing, lastId, late, pc, tries, draftId, sent,
                 checked, reading, history, touched>>

ChangeWorld ==
  /\ Act
  /\ \E w \in world : world' = world \ {w}
  /\ UNCHANGED <<caller, tag, listing, lastId, late, pc, tries, draftId, sent, checked,
                 reading, history, touched>>

Next == \/ Step \/ Fail \/ LateCreation
        \/ NewDraft \/ DeleteRelease \/ ChangeDraft \/ ChangeTag \/ ChangeWorld

Spec == Init /\ [][Next]_vars

-----------------------------------------------------------------------------
TypeOK ==
  /\ caller \in Kinds /\ world \subseteq World /\ tag \in {"none", "ours", "moved"}
  /\ listing \in Seq(Release) /\ lastId \in Nat /\ acts \in 0..MaxActs
  /\ late \in BOOLEAN /\ tries \in 0..2 /\ draftId \in Nat
  /\ pc \in Stopped \cup {"no tag", "no release", "tag", "create", "confirm", "first",
                          "second", "compare", "inspect", "reconfirm", "inspect again",
                          "upload", "verify", "check source", "publish"}
  /\ sent \subseteq Files /\ checked \subseteq Files
  /\ first \in Seq(Release) /\ second \in Seq(Release) /\ page \in Nat \ {0}
  /\ own \subseteq Nat /\ old \subseteq Nat /\ touched \in BOOLEAN /\ shown \in BOOLEAN

\* create_release_once never sends its POST again, and the readback takes
\* over only what that POST created: the transaction creates at most one
\* draft and works with no other.
OwnDraft ==
  /\ Cardinality(own) <= 1
  /\ draftId # 0 => draftId \in own

\* _reconcile_created_release: two inventories that agree miss nothing, even
\* though they are read page by page while releases come and go. The draft
\* that the readback takes over is the only one of its tag among those there
\* have been since it began.
OnlyMatch ==
  (old # {} /\ draftId # 0 /\ pc \in {"inspect", "reconfirm", "inspect again", "upload"}) =>
     \A x \in Matches(listing) : x.id \in old => x.id = draftId

\* What the transaction makes public holds the staged files, all of them and
\* none besides, byte for byte, unless somebody changed them after they had
\* been listed.
PublishedExact ==
  [][\A x \in Elements(listing') :
       (~ x.draft /\ x.ours /\ ~ touched) => x.files = Exact]_vars

(***************************************************************************)
(* The transaction is what ReleaseLedger does from CreateTag to Publish,   *)
(* for one run that has used its number up.                                *)
(***************************************************************************)
Channel == CASE caller = "promotion" -> "stable"
             [] caller = "automatic" -> "beta"
             [] OTHER -> "rc"
Name == [base |-> "1.0", channel |-> Channel, seq |-> IF caller = "promotion" THEN 0 ELSE 1]
One(x) == [r \in {"run"} |-> x]
State == [written |-> TRUE, counter |-> 1, floor |-> 1, number |-> One(1), seq |-> One(1)]
Candidate == [tag |-> [Name EXCEPT !.channel = IF @ = "stable" THEN "rc" ELSE @, !.seq = 1],
              number |-> 1]
Unwritten == [written |-> FALSE, counter |-> 0, floor |-> 0, number |-> One(0), seq |-> One(0)]
Unplanned == [tag |-> [base |-> "1.0", channel |-> "stable", seq |-> 0], number |-> 0]
Phase == CASE pc \in Stopped /\ ~ late -> "idle"
           [] pc \in {"no tag", "no release", "tag"} -> "tagging"
           [] OTHER -> IF own = {} THEN "drafting" ELSE "publishing"
Tags == IF tag = "none" THEN {} ELSE {Name}
Drafts == {Name : x \in {x \in Matches(listing) : x.draft}}
Published == {[tag |-> Name, number |-> 1] : x \in {x \in Matches(listing) : ~ x.draft}}

Ledger == INSTANCE ReleaseLedger WITH
  Runs <- {"run"}, Bases <- {"1.0"}, MaxAttempts <- 1, MaxParallel <- 1,
  parallel <- 1, request <- One([channel |-> Channel, base |-> "1.0"]),
  branch <- TRUE, ledger <- State, attempts <- 1, pc <- One(Phase),
  seen <- One(IF Phase = "idle" THEN Unwritten ELSE State),
  plan <- One(IF Phase = "idle" THEN Unplanned ELSE Candidate),
  begun <- One(IF caller = "promotion" THEN 0 ELSE 1),
  newest <- IF shown THEN 1 ELSE 0,
  tags <- Tags, drafts <- Drafts, releases <- Published

ImplementsLedger == [][Ledger!Next]_(Ledger!vars)

=============================================================================
