------------------------- MODULE ReleaseLedgerProofs -------------------------
(***************************************************************************)
(* Proofs about ReleaseLedger, for any finite set of runs: its variables   *)
(* keep their types, no two runs hold the same number or tag, a number is  *)
(* used up once and before anything is published under it, serialized runs *)
(* never publish behind a newer build, and the ledger implements           *)
(* LedgerContract.                                                         *)
(***************************************************************************)
EXTENDS ReleaseLedger, FiniteSetTheorems, TLAPS

Writing == {"tagging", "drafting", "publishing"}

\* What holds of the ledger, and of every copy of it that a run works with.
LedgerOK(l) ==
  /\ l.floor <= l.counter
  /\ \A q \in Runs :
       /\ l.number[q] <= l.counter
       /\ l.number[q] # 0 =>
            /\ ~Promotes(q)
            /\ IF request[q].channel = "nightly" THEN l.seq[q] = q ELSE l.seq[q] \in Nat
  /\ \A q, r \in Runs :
       q # r /\ l.number[q] # 0 /\ l.number[r] # 0 =>
         l.number[q] # l.number[r] /\ RunTag(q, l.seq[q]) # RunTag(r, l.seq[r])

\* A reservation that a run has allocated and not yet saved: it continues the
\* ledger that the run has seen.
Continues(r) ==
  /\ seen[r].number[r] = 0
  /\ plan[r].number = seen[r].counter + 1
  /\ plan[r].tag = RunTag(r, plan[r].tag.seq)
  /\ IF request[r].channel = "nightly" THEN plan[r].tag.seq = r ELSE plan[r].tag.seq \in Nat
  /\ \A q \in Runs : seen[r].number[q] # 0 => RunTag(q, seen[r].seq[q]) # plan[r].tag

LedgersInv == LedgerOK(ledger) /\ \A r \in Runs : LedgerOK(seen[r])

\* Every name in use is that of a stable release or of a used up reservation.
TagsInv ==
  \A t \in tags \cup drafts \cup PublishedTags :
    \/ t.channel = "stable"
    \/ \E q \in Runs : /\ ledger.number[q] # 0 /\ ledger.number[q] <= ledger.floor
                       /\ t = RunTag(q, ledger.seq[q])

ReleasesInv == newest <= ledger.floor /\ \A p \in releases : p.number <= ledger.floor

\* What a run relies on at each of its steps.
ChannelInv ==
  \A r \in Runs :
    /\ pc[r] \in {"preparing", "allocating", "reserving", "saving", "built"} => ~Promotes(r)
    /\ pc[r] = "selecting" => Promotes(r)
ReservingInv ==
  \A r \in Runs :
    /\ pc[r] = "allocating" => seen[r].number[r] = 0
    /\ pc[r] \in {"reserving", "saving"} => Continues(r)
PromotionInv ==
  \A r \in Runs :
    Promotes(r) /\ pc[r] \in {"opening", "ordering", "consuming"} => plan[r].number <= ledger.floor
ConsumingInv ==
  \A r \in Runs :
    pc[r] = "consuming" =>
      IF Promotes(r) THEN plan[r].number >= seen[r].floor
      ELSE plan[r] = Reserved(seen[r], r) /\ plan[r].number > seen[r].floor
WritingInv ==
  \A r \in Runs :
    pc[r] \in Writing =>
      /\ plan[r].number <= ledger.floor
      /\ ~Promotes(r) => ledger.number[r] # 0 /\ plan[r] = Reserved(ledger, r)
BegunInv ==
  \A r \in Runs :
    begun[r] # 0 => begun[r] = 1 /\ ledger.number[r] # 0 /\ ledger.number[r] <= ledger.floor

\* In a concurrency group one run is in progress, and what it writes is newest.
AloneInv ==
  parallel = 1 =>
    /\ \A q, r \in Runs : pc[q] # "idle" /\ pc[r] # "idle" => q = r
    /\ \A r \in Runs : pc[r] \in Writing => plan[r].number = ledger.floor

IInv ==
  /\ TypeOK
  /\ LedgersInv /\ TagsInv /\ ReleasesInv
  /\ ChannelInv /\ ReservingInv /\ PromotionInv /\ ConsumingInv /\ WritingInv
  /\ BegunInv /\ AloneInv

-----------------------------------------------------------------------------
(* Facts about the operators.                                              *)

\* The tag of a run names its base and channel, and can tell two apart.
LEMMA RunTagType ==
  ASSUME TypeOK, NEW r \in Runs, NEW s \in Nat \cup Runs
  PROVE  /\ RunTag(r, s) \in Tag
         /\ RunTag(r, s).base = request[r].base
         /\ RunTag(r, s).channel = request[r].channel
         /\ RunTag(r, s).seq = s
  BY DEF TypeOK, RunTag, Tag, Requests

LEMMA LedgerFields ==
  ASSUME NEW l \in Ledger, NEW q \in Runs
  PROVE  /\ l.counter \in Nat /\ l.floor \in Nat
         /\ l.number[q] \in Nat /\ l.seq[q] \in Nat \cup Runs
  BY DEF Ledger

LEMMA ReservedType ==
  ASSUME TypeOK, NEW l \in Ledger, NEW r \in Runs
  PROVE  /\ Reserved(l, r) \in Plan
         /\ Reserved(l, r).number = l.number[r]
         /\ Reserved(l, r).tag = RunTag(r, l.seq[r])
<1>1. RunTag(r, l.seq[r]) \in Tag
  BY LedgerFields, RunTagType
<1> QED  BY <1>1, LedgerFields DEF Reserved, Plan

LEMMA StableTagType ==
  ASSUME TypeOK, NEW r \in Runs
  PROVE  /\ StableTag(request[r].base) \in Tag
         /\ StableTag(request[r].base).channel = "stable"
         /\ Unplanned(r) \in Plan
  BY DEF TypeOK, StableTag, Unplanned, Tag, Plan, Requests, Channels

LEMMA NewLedgerType == NewLedger \in Ledger
  BY DEF NewLedger, Ledger

LEMMA NewLedgerOK == LedgerOK(NewLedger)
  BY DEF NewLedger, LedgerOK

LEMMA TargetType ==
  ASSUME TypeOK, NEW r \in Runs
  PROVE  /\ Target(r) \in Tag
         /\ Promotes(r) => Target(r).channel = "stable"
         /\ ~Promotes(r) => Target(r) = plan[r].tag
<1>1. plan[r].tag \in Tag
  BY DEF TypeOK, Plan
<1> QED  BY <1>1, StableTagType DEF Target

\* The sequence that Allocate chooses is above every one in use.
LEMMA ChosenSequence ==
  ASSUME NEW used, used \subseteq Nat, NEW s \in NextSequences(used)
  PROVE  s \in Nat /\ s \notin used
<1>1. s \in {1} \cup {n + 1 : n \in used} /\ \A n \in used : n < s
  BY DEF NextSequences
<1>2. s \in Nat
  BY <1>1
<1> QED  BY <1>1, <1>2

\* SaveReservation writes the plan of its run into the ledger, and nothing else.
Saved(l, r) ==
  [l EXCEPT !.written = TRUE, !.counter = plan[r].number,
            !.number[r] = plan[r].number, !.seq[r] = plan[r].tag.seq]

LEMMA SavedFields ==
  ASSUME NEW l \in Ledger, NEW r \in Runs, plan[r] \in Plan
  PROVE  /\ Saved(l, r) \in Ledger
         /\ Saved(l, r).counter = plan[r].number
         /\ Saved(l, r).floor = l.floor
         /\ Saved(l, r).number = [l.number EXCEPT ![r] = plan[r].number]
         /\ Saved(l, r).seq = [l.seq EXCEPT ![r] = plan[r].tag.seq]
<1>1. plan[r].number \in Nat /\ plan[r].tag.seq \in Nat \cup Runs
  BY DEF Plan, Tag
<1> QED  BY <1>1 DEF Saved, Ledger

\* A run that ends forgets what it knew.
LEMMA EndFacts ==
  ASSUME TypeOK, NEW r \in Runs, End(r)
  PROVE  /\ pc' = [pc EXCEPT ![r] = "idle"]
         /\ seen' \in [Runs -> Ledger] /\ plan' \in [Runs -> Plan]
         /\ \A q \in Runs : q # r => seen'[q] = seen[q] /\ plan'[q] = plan[q] /\ pc'[q] = pc[q]
         /\ seen'[r] = NewLedger /\ pc'[r] = "idle"
  BY NewLedgerType, StableTagType DEF End, TypeOK

LEMMA WriteFacts ==
  ASSUME TypeOK, NEW r \in Runs, NEW from, NEW to \in States, Write(r, from, to)
  PROVE  /\ pc[r] = from
         /\ pc' \in [Runs -> States] /\ seen' \in [Runs -> Ledger] /\ plan' \in [Runs -> Plan]
         /\ \A q \in Runs : q # r => seen'[q] = seen[q] /\ plan'[q] = plan[q] /\ pc'[q] = pc[q]
         /\ \/ pc'[r] = to /\ seen'[r] = seen[r] /\ plan'[r] = plan[r]
            \/ pc'[r] = "idle" /\ seen'[r] = NewLedger
<1>1. CASE Goto(r, from, to) /\ UNCHANGED <<seen, plan>>
  BY <1>1 DEF Goto, TypeOK
<1>2. CASE pc[r] = from /\ End(r)
  BY <1>2, EndFacts DEF TypeOK, States
<1> QED  BY <1>1, <1>2 DEF Write, Goto

-----------------------------------------------------------------------------
(* Every step keeps the types.                                             *)

LEMMA InitType == Init => TypeOK
<1> SUFFICES ASSUME Init  PROVE TypeOK
  OBVIOUS
<1>1. request \in [Runs -> Requests]
  BY DEF Init
<1>2. \A r \in Runs : Unplanned(r) \in Plan
  BY <1>1 DEF StableTag, Unplanned, Tag, Plan, Requests, Channels
<1> QED  BY <1>1, <1>2, NewLedgerType DEF Init, TypeOK, States

\* A run that reserves gets its id, or a number above those in use.
LEMMA SequenceFacts ==
  ASSUME TypeOK, LedgersInv, TagsInv, NEW r \in Runs, ~Promotes(r),
         NEW s \in SequencesOf(seen[r], r)
  PROVE  /\ s \in Nat \cup Runs
         /\ IF request[r].channel = "nightly" THEN s = r
            ELSE s \in Nat /\ s \notin UsedSequences(seen[r], r)
<1>1. CASE request[r].channel = "nightly"
  BY <1>1 DEF SequencesOf
<1>2. CASE request[r].channel # "nightly"
  <2>1. ASSUME NEW t \in tags \cup drafts \cup PublishedTags, t.channel = request[r].channel
        PROVE  t.seq \in Nat
    <3>1. PICK q \in Runs : ledger.number[q] # 0 /\ t = RunTag(q, ledger.seq[q])
      BY <2>1 DEF TagsInv, Promotes
    <3>2. request[q].channel = request[r].channel /\ t.seq = ledger.seq[q]
      BY <2>1, <3>1, LedgerFields, RunTagType DEF TypeOK
    <3> QED  BY <1>2, <3>1, <3>2 DEF LedgersInv, LedgerOK
  <2>2. ASSUME NEW q \in Runs, seen[r].number[q] # 0, request[q] = request[r]
        PROVE  seen[r].seq[q] \in Nat
    BY <1>2, <2>2 DEF LedgersInv, LedgerOK
  <2>3. UsedSequences(seen[r], r) \subseteq Nat
    BY <2>1, <2>2 DEF UsedSequences
  <2> QED  BY <1>2, <2>3, ChosenSequence DEF SequencesOf
<1> QED  BY <1>1, <1>2

LEMMA TypeStep == IInv /\ [Next]_vars => TypeOK'
<1> SUFFICES ASSUME IInv, [Next]_vars  PROVE TypeOK'
  OBVIOUS
<1> USE DEF IInv
<1>1. CASE UNCHANGED vars
  BY <1>1 DEF vars, fixed, world, history, TypeOK
<1>2. CASE Next
  <2>1. ASSUME NEW r \in Runs, RunNext(r)  PROVE TypeOK'
    <3> plan[r] \in Plan /\ plan[r].tag \in Tag /\ plan[r].number \in Nat
      BY DEF TypeOK, Plan
    <3> USE DEF fixed, world, history
    <3>1. CASE Start(r)
      BY <3>1 DEF Start, Goto, TypeOK, States
    <3>2. CASE Fail(r)
      BY <3>2, EndFacts DEF Fail, TypeOK, States
    <3>3. CASE ReadForReservation(r)
      <4>1. Reserved(ledger, r) \in Plan
        BY ReservedType DEF TypeOK
      <4> QED  BY <3>3, <4>1 DEF ReadForReservation, Goto, TypeOK, States
    <3>4. CASE Allocate(r)
      <4>1. PICK s \in SequencesOf(seen[r], r) :
              plan' = [plan EXCEPT ![r] = [tag |-> RunTag(r, s), number |-> seen[r].counter + 1]]
        BY <3>4 DEF Allocate
      <4>2. seen[r] \in Ledger /\ seen[r].counter \in Nat
        BY LedgerFields DEF TypeOK
      <4>3. s \in Nat \cup Runs
        BY <3>4, <4>1, SequenceFacts DEF Allocate, Goto, ChannelInv
      <4>4. [tag |-> RunTag(r, s), number |-> seen[r].counter + 1] \in Plan
        BY <4>2, <4>3, RunTagType DEF Plan
      <4> QED  BY <3>4, <4>1, <4>4 DEF Allocate, Goto, TypeOK, States
    <3>5. CASE CreateBranch(r)
      <4>1. Write(r, "reserving", "saving") /\ "saving" \in States
        BY <3>5 DEF CreateBranch, States
      <4> QED  BY <3>5, <4>1, WriteFacts DEF CreateBranch, TypeOK
    <3>6. CASE SaveReservation(r)
      <4>1. Write(r, "saving", "built") /\ "built" \in States
        BY <3>6 DEF SaveReservation, States
      <4>2. ledger' = Saved(ledger, r) /\ Saved(ledger, r) \in Ledger
        BY <3>6, SavedFields DEF SaveReservation, Saved, TypeOK
      <4> QED  BY <3>6, <4>1, <4>2, WriteFacts DEF SaveReservation, TypeOK
    <3>7. CASE Verify(r)
      BY <3>7 DEF Verify, Goto, TypeOK, States
    <3>8. CASE SelectCandidate(r)
      BY <3>8 DEF SelectCandidate, Goto, TypeOK, States
    <3>9. CASE ReadForPublication(r)
      BY <3>9 DEF ReadForPublication, Goto, TypeOK, States
    <3>10. CASE CheckOrder(r)
      BY <3>10 DEF CheckOrder, Goto, TypeOK, States
    <3>11. CASE Consume(r)
      <4>1. Write(r, "consuming", "tagging") /\ "tagging" \in States
        BY <3>11 DEF Consume, States
      <4>2. ledger' \in Ledger
        BY <3>11 DEF Consume, TypeOK, Ledger
      <4> QED  BY <3>11, <4>1, <4>2, WriteFacts DEF Consume, TypeOK
    <3>12. CASE CreateTag(r)
      <4>1. Write(r, "tagging", "drafting") /\ "drafting" \in States
        BY <3>12 DEF CreateTag, States
      <4> QED  BY <3>12, <4>1, WriteFacts, TargetType DEF CreateTag, TypeOK
    <3>13. CASE CreateDraft(r)
      <4>1. Write(r, "drafting", "publishing") /\ "publishing" \in States
        BY <3>13 DEF CreateDraft, States
      <4> QED  BY <3>13, <4>1, WriteFacts, TargetType DEF CreateDraft, TypeOK
    <3>14. CASE Publish(r)
      <4>1. [tag |-> Target(r), number |-> plan[r].number] \in Plan
        BY TargetType DEF Plan
      <4> QED  BY <3>14, <4>1, EndFacts, TargetType DEF Publish, TypeOK, States
    <3> QED
      BY <2>1, <3>1, <3>2, <3>3, <3>4, <3>5, <3>6, <3>7, <3>8, <3>9, <3>10, <3>11, <3>12,
         <3>13, <3>14 DEF RunNext
  <2>2. ASSUME NEW r \in Runs, Claim(r)  PROVE TypeOK'
    BY <2>2, TargetType DEF Claim, fixed, history, TypeOK
  <2>3. ASSUME NEW t \in tags \cup drafts \cup PublishedTags, Delete(t)  PROVE TypeOK'
    BY <2>3 DEF Delete, fixed, history, TypeOK
  <2> QED  BY <1>2, <2>1, <2>2, <2>3 DEF Next
<1> QED  BY <1>1, <1>2

-----------------------------------------------------------------------------
(* What a step changes.                                                    *)

LEMMA Fixed ==
  ASSUME [Next]_vars
  PROVE  request' = request /\ parallel' = parallel
  BY DEF vars, fixed, Next, RunNext, Start, Fail, ReadForReservation, Allocate, CreateBranch,
       SaveReservation, Verify, SelectCandidate, ReadForPublication, CheckOrder, Consume,
       CreateTag, CreateDraft, Publish, Claim, Delete

\* A run is changed by its own steps only.
LEMMA OtherRuns ==
  ASSUME IInv, [Next]_vars, NEW q \in Runs
  PROVE  \/ RunNext(q)
         \/ pc'[q] = pc[q] /\ seen'[q] = seen[q] /\ plan'[q] = plan[q] /\ begun'[q] = begun[q]
<1> TypeOK
  BY DEF IInv
<1> USE DEF fixed, world, history
<1>1. CASE UNCHANGED vars
  BY <1>1 DEF vars
<1>2. ASSUME NEW r \in Runs, Claim(r)
      PROVE  UNCHANGED <<pc, seen, plan, begun>>
  BY <1>2 DEF Claim
<1>3. ASSUME NEW t \in tags \cup drafts \cup PublishedTags, Delete(t)
      PROVE  UNCHANGED <<pc, seen, plan, begun>>
  BY <1>3 DEF Delete
<1>4. ASSUME NEW r \in Runs, RunNext(r)
      PROVE  q # r => pc'[q] = pc[q] /\ seen'[q] = seen[q] /\ plan'[q] = plan[q]
                      /\ begun'[q] = begun[q]
  <2>1. CASE Start(r) \/ ReadForReservation(r) \/ Allocate(r) \/ Verify(r) \/ SelectCandidate(r)
             \/ ReadForPublication(r) \/ CheckOrder(r)
    BY <2>1 DEF Start, ReadForReservation, Allocate, Verify, SelectCandidate, ReadForPublication,
         CheckOrder, Goto, TypeOK
  <2>2. CASE Fail(r) \/ Publish(r)
    BY <2>2, EndFacts DEF Fail, Publish
  <2>3. CASE CreateBranch(r)
    BY <2>3, WriteFacts DEF CreateBranch, States
  <2>4. CASE SaveReservation(r)
    BY <2>4, WriteFacts DEF SaveReservation, States
  <2>5. CASE Consume(r)
    <3>1. q # r => begun'[q] = begun[q]
      BY <2>5 DEF Consume, TypeOK
    <3> QED  BY <2>5, <3>1, WriteFacts DEF Consume, States
  <2>6. CASE CreateTag(r)
    BY <2>6, WriteFacts DEF CreateTag, States
  <2>7. CASE CreateDraft(r)
    BY <2>7, WriteFacts DEF CreateDraft, States
  <2> QED  BY <1>4, <2>1, <2>2, <2>3, <2>4, <2>5, <2>6, <2>7 DEF RunNext
<1> QED  BY <1>1, <1>2, <1>3, <1>4 DEF Next

\* A run that writes the ledger has seen it as it is.
LEMMA SaveFacts ==
  ASSUME IInv, NEW r \in Runs, SaveReservation(r)
  PROVE  /\ pc[r] = "saving" /\ seen[r] = ledger /\ ledger \in Ledger /\ Continues(r)
         /\ ledger' = Saved(ledger, r) /\ plan[r] \in Plan
         /\ ledger.number[r] = 0 /\ ~Promotes(r)
         /\ ledger'.counter = ledger.counter + 1 /\ ledger'.floor = ledger.floor
         /\ ledger'.number[r] = ledger.counter + 1 /\ ledger'.seq[r] = plan[r].tag.seq
         /\ \A q \in Runs : q # r => /\ ledger'.number[q] = ledger.number[q]
                                     /\ ledger'.seq[q] = ledger.seq[q]
<1>1. pc[r] = "saving" /\ seen[r] = ledger /\ ledger' = Saved(ledger, r)
  BY WriteFacts DEF SaveReservation, Saved, IInv, States
<1>2. ledger \in Ledger /\ plan[r] \in Plan
  BY DEF IInv, TypeOK
<1>3. Continues(r) /\ ~Promotes(r)
  BY <1>1 DEF IInv, ReservingInv, ChannelInv
<1>4. ledger.number \in [Runs -> Nat] /\ ledger.seq \in [Runs -> Nat \cup Runs]
  BY <1>2 DEF Ledger
<1>5. ledger.number[r] = 0 /\ plan[r].number = ledger.counter + 1
  BY <1>1, <1>3 DEF Continues
<1>6. /\ ledger'.counter = plan[r].number /\ ledger'.floor = ledger.floor
      /\ ledger'.number = [ledger.number EXCEPT ![r] = plan[r].number]
      /\ ledger'.seq = [ledger.seq EXCEPT ![r] = plan[r].tag.seq]
  BY <1>1, <1>2, SavedFields
<1> QED  BY <1>1, <1>2, <1>3, <1>4, <1>5, <1>6

LEMMA ConsumeFacts ==
  ASSUME IInv, NEW r \in Runs, Consume(r)
  PROVE  /\ pc[r] = "consuming" /\ seen[r] = ledger /\ ledger \in Ledger
         /\ plan[r] \in Plan /\ plan[r].number \in Nat
         /\ ledger'.counter = ledger.counter /\ ledger'.floor = plan[r].number
         /\ ledger'.number = ledger.number /\ ledger'.seq = ledger.seq
         /\ Promotes(r) => plan[r].number = ledger.floor
         /\ ~Promotes(r) => /\ plan[r] = Reserved(ledger, r) /\ plan[r].number > ledger.floor
                            /\ plan[r].number = ledger.number[r] /\ ledger.number[r] # 0
<1>1. pc[r] = "consuming" /\ seen[r] = ledger /\ ledger' = [ledger EXCEPT !.floor = plan[r].number]
  BY WriteFacts DEF Consume, IInv, States
<1>2. ledger \in Ledger /\ plan[r] \in Plan /\ plan[r].number \in Nat /\ ledger.floor \in Nat
  BY DEF IInv, TypeOK, Plan, Ledger
<1>3. Promotes(r) => plan[r].number = ledger.floor
  BY <1>1, <1>2 DEF IInv, PromotionInv, ConsumingInv
<1>4. ~Promotes(r) => plan[r] = Reserved(ledger, r) /\ plan[r].number > ledger.floor
  BY <1>1 DEF IInv, ConsumingInv
<1>5. ~Promotes(r) => plan[r].number = ledger.number[r] /\ ledger.number[r] # 0
  BY <1>2, <1>4, ReservedType DEF IInv
<1> QED  BY <1>1, <1>2, <1>3, <1>4, <1>5 DEF Ledger

LEMMA LedgerChanges ==
  ASSUME [Next]_vars
  PROVE  ledger' = ledger \/ \E r \in Runs : SaveReservation(r) \/ Consume(r)
  BY DEF vars, Next, RunNext, Start, Fail, ReadForReservation, Allocate, CreateBranch, Verify,
       SelectCandidate, ReadForPublication, CheckOrder, CreateTag, CreateDraft, Publish, Claim,
       Delete, fixed, world

\* A reservation stays as it is, and what is used up stays used up.
LEMMA LedgerGrows ==
  ASSUME IInv, [Next]_vars
  PROVE  /\ ledger.floor <= ledger'.floor
         /\ \A q \in Runs :
              /\ ledger.number[q] # 0 => /\ ledger'.number[q] = ledger.number[q]
                                         /\ ledger'.seq[q] = ledger.seq[q]
              /\ ledger.number[q] = 0 /\ ledger'.number[q] # 0 => SaveReservation(q)
<1>1. ledger' = ledger \/ \E r \in Runs : SaveReservation(r) \/ Consume(r)
  BY LedgerChanges
<1>2. ledger.floor \in Nat
  BY DEF IInv, TypeOK, Ledger
<1>3. CASE ledger' = ledger
  BY <1>2, <1>3
<1>4. ASSUME NEW r \in Runs, SaveReservation(r)
      PROVE  /\ ledger'.floor = ledger.floor
             /\ \A q \in Runs : q # r => /\ ledger'.number[q] = ledger.number[q]
                                         /\ ledger'.seq[q] = ledger.seq[q]
             /\ ledger.number[r] = 0
  BY <1>4, SaveFacts
<1>5. ASSUME NEW r \in Runs, Consume(r)
      PROVE  /\ ledger.floor <= ledger'.floor
             /\ ledger'.number = ledger.number /\ ledger'.seq = ledger.seq
  BY <1>2, <1>5, ConsumeFacts
<1> QED  BY <1>1, <1>2, <1>3, <1>4, <1>5

\* What a run has seen is its last copy, the ledger, or nothing.
LEMMA Copies ==
  ASSUME IInv, [Next]_vars, NEW q \in Runs
  PROVE  seen'[q] \in {seen[q], ledger, NewLedger}
<1>1. CASE RunNext(q)
  <2> TypeOK
    BY DEF IInv
  <2>1. CASE Start(q) \/ ReadForReservation(q) \/ Allocate(q) \/ Verify(q) \/ SelectCandidate(q)
             \/ ReadForPublication(q) \/ CheckOrder(q)
    BY <2>1 DEF Start, ReadForReservation, Allocate, Verify, SelectCandidate, ReadForPublication,
         CheckOrder, TypeOK
  <2>2. CASE Fail(q) \/ Publish(q)
    BY <2>2, EndFacts DEF Fail, Publish
  <2>3. CASE CreateBranch(q) \/ SaveReservation(q) \/ Consume(q) \/ CreateTag(q) \/ CreateDraft(q)
    BY <2>3, WriteFacts DEF CreateBranch, SaveReservation, Consume, CreateTag, CreateDraft, States
  <2> QED  BY <1>1, <2>1, <2>2, <2>3 DEF RunNext
<1> QED  BY <1>1, OtherRuns

-----------------------------------------------------------------------------
(* The ledger and its copies stay in order.                                *)

LEMMA LedgersStep == IInv /\ [Next]_vars => LedgersInv'
<1> SUFFICES ASSUME IInv, [Next]_vars  PROVE LedgersInv'
  OBVIOUS
<1> request' = request
  BY Fixed
<1>1. LedgerOK(ledger) /\ \A q \in Runs : LedgerOK(seen[q])
  BY DEF IInv, LedgersInv
<1>2. ledger' = ledger \/ \E r \in Runs : SaveReservation(r) \/ Consume(r)
  BY LedgerChanges
<1>3. LedgerOK(ledger)'
  <2>1. CASE ledger' = ledger
    BY <1>1, <2>1 DEF LedgerOK, RunTag, Promotes
  <2>2. ASSUME NEW r \in Runs, SaveReservation(r)  PROVE LedgerOK(ledger)'
    <3>1. /\ ledger.counter \in Nat /\ ledger.floor \in Nat
          /\ \A q \in Runs : ledger.number[q] \in Nat
      BY <2>2, SaveFacts, LedgerFields
    <3>2. \A q \in Runs : ledger.number[q] <= ledger.counter
      BY <1>1 DEF LedgerOK
    <3>3. /\ ~Promotes(r)
          /\ IF request[r].channel = "nightly" THEN ledger'.seq[r] = r ELSE ledger'.seq[r] \in Nat
          /\ \A q \in Runs : q # r /\ ledger.number[q] # 0 =>
               RunTag(q, ledger.seq[q]) # RunTag(r, ledger'.seq[r])
      BY <2>2, SaveFacts DEF Continues
    <3>4. /\ ledger'.floor <= ledger'.counter
          /\ \A q \in Runs : ledger'.number[q] <= ledger'.counter
      BY <1>1, <2>2, <3>1, <3>2, SaveFacts DEF LedgerOK
    <3>5. \A q \in Runs : q # r => /\ ledger'.number[q] = ledger.number[q]
                                   /\ ledger'.seq[q] = ledger.seq[q]
                                   /\ ledger'.number[q] # ledger'.number[r]
      BY <2>2, <3>1, <3>2, SaveFacts
    <3> QED  BY <1>1, <3>3, <3>4, <3>5 DEF LedgerOK, RunTag, Promotes
  <2>3. ASSUME NEW r \in Runs, Consume(r)  PROVE LedgerOK(ledger)'
    <3>1. plan[r].number <= ledger.counter
      BY <1>1, <2>3, ConsumeFacts DEF LedgerOK
    <3> QED  BY <1>1, <2>3, <3>1, ConsumeFacts DEF LedgerOK, RunTag, Promotes
  <2> QED  BY <1>2, <2>1, <2>2, <2>3
<1>4. ASSUME NEW q \in Runs  PROVE LedgerOK(seen[q])'
  <2>1. PICK l \in {seen[q], ledger, NewLedger} : seen'[q] = l
    BY Copies
  <2>2. LedgerOK(l)
    BY <1>1, <2>1, NewLedgerOK
  <2> QED  BY <2>1, <2>2 DEF LedgerOK, RunTag, Promotes
<1> QED  BY <1>3, <1>4 DEF LedgersInv

-----------------------------------------------------------------------------
(* Names and releases.                                                     *)

\* A name that was in use for a reason stays so.
LEMMA UsedStays ==
  ASSUME IInv, [Next]_vars, NEW q \in Runs,
         ledger.number[q] # 0, ledger.number[q] <= ledger.floor
  PROVE  /\ ledger'.number[q] # 0 /\ ledger'.number[q] <= ledger'.floor
         /\ RunTag(q, ledger.seq[q])' = RunTag(q, ledger.seq[q])
<1>1. ledger.number[q] \in Nat /\ ledger.floor \in Nat
  BY LedgerFields DEF IInv, TypeOK
<1>2. ledger'.floor \in Nat
  BY TypeStep, LedgerFields DEF TypeOK, Ledger
<1>3. ledger'.number[q] = ledger.number[q] /\ ledger'.seq[q] = ledger.seq[q]
  BY LedgerGrows
<1>4. ledger.floor <= ledger'.floor
  BY LedgerGrows
<1> QED  BY <1>1, <1>2, <1>3, <1>4, Fixed DEF RunTag

\* A run writes the name of a stable release or of its own reservation.
LEMMA TargetFacts ==
  ASSUME IInv, NEW r \in Runs, pc[r] \in Writing
  PROVE  \/ Target(r).channel = "stable"
         \/ /\ ledger.number[r] # 0 /\ ledger.number[r] <= ledger.floor
            /\ Target(r) = RunTag(r, ledger.seq[r])
<1>1. ledger \in Ledger /\ TypeOK
  BY DEF IInv, TypeOK
<1> QED  BY <1>1, TargetType, ReservedType DEF IInv, WritingInv

LEMMA TagsStep == IInv /\ [Next]_vars => TagsInv'
<1> SUFFICES ASSUME IInv, [Next]_vars, NEW t \in (tags \cup drafts \cup PublishedTags)'
             PROVE  \/ t.channel = "stable"
                    \/ \E q \in Runs : /\ ledger'.number[q] # 0
                                       /\ ledger'.number[q] <= ledger'.floor
                                       /\ t = RunTag(q, ledger.seq[q])'
  BY DEF TagsInv
<1> USE DEF fixed, world, history
<1>1. \/ t \in tags \cup drafts \cup PublishedTags
      \/ \E r \in Runs : pc[r] \in Writing /\ t = Target(r)
  <2>1. CASE UNCHANGED vars
    BY <2>1 DEF vars, PublishedTags
  <2>2. ASSUME NEW r \in Runs, RunNext(r)
        PROVE  \/ t \in tags \cup drafts \cup PublishedTags
               \/ pc[r] \in Writing /\ t = Target(r)
    <3>1. CASE CreateTag(r)
      BY <3>1 DEF CreateTag, Write, PublishedTags, Writing
    <3>2. CASE CreateDraft(r)
      BY <3>2 DEF CreateDraft, Write, PublishedTags, Writing
    <3>3. CASE Publish(r)
      BY <3>3 DEF Publish, PublishedTags, Writing
    <3>4. CASE CreateBranch(r)
      BY <3>4 DEF CreateBranch, PublishedTags
    <3>5. CASE Start(r) \/ Fail(r) \/ ReadForReservation(r) \/ Allocate(r) \/ SaveReservation(r)
               \/ Verify(r) \/ SelectCandidate(r) \/ ReadForPublication(r) \/ CheckOrder(r)
               \/ Consume(r)
      BY <3>5 DEF Start, Fail, ReadForReservation, Allocate, SaveReservation, Verify,
           SelectCandidate, ReadForPublication, CheckOrder, Consume, PublishedTags
    <3> QED  BY <2>2, <3>1, <3>2, <3>3, <3>4, <3>5 DEF RunNext
  <2>3. ASSUME NEW r \in Runs, Claim(r)
        PROVE  \/ t \in tags \cup drafts \cup PublishedTags
               \/ pc[r] \in Writing /\ t = Target(r)
    BY <2>3 DEF Claim, PublishedTags, Writing
  <2>4. ASSUME NEW u \in tags \cup drafts \cup PublishedTags, Delete(u)
        PROVE  t \in tags \cup drafts \cup PublishedTags
    BY <2>4 DEF Delete, PublishedTags
  <2> QED  BY <2>1, <2>2, <2>3, <2>4 DEF Next
<1>2. \/ t.channel = "stable"
      \/ \E q \in Runs : /\ ledger.number[q] # 0 /\ ledger.number[q] <= ledger.floor
                         /\ t = RunTag(q, ledger.seq[q])
  BY <1>1, TargetFacts DEF IInv, TagsInv
<1> QED  BY <1>2, UsedStays

LEMMA ReleasesStep == IInv /\ [Next]_vars => ReleasesInv'
<1> SUFFICES ASSUME IInv, [Next]_vars  PROVE ReleasesInv'
  OBVIOUS
<1> USE DEF fixed, world, history
<1>1. /\ ledger.floor \in Nat /\ ledger'.floor \in Nat /\ newest \in Nat
      /\ \A p \in releases : p.number \in Nat
      /\ \A r \in Runs : plan[r].number \in Nat
  BY TypeStep DEF IInv, TypeOK, Ledger, Plan
<1>2. ledger.floor <= ledger'.floor
  BY LedgerGrows
<1>3. newest' <= ledger.floor /\ \A p \in releases' : p.number <= ledger.floor
  <2>1. newest <= ledger.floor /\ \A p \in releases : p.number <= ledger.floor
    BY DEF IInv, ReleasesInv
  <2>2. CASE UNCHANGED <<newest, releases>>
    BY <2>1, <2>2
  <2>3. ASSUME NEW r \in Runs, Publish(r)
        PROVE  newest' <= ledger.floor /\ \A p \in releases' : p.number <= ledger.floor
    <3>1. plan[r].number <= ledger.floor
      BY <2>3 DEF Publish, IInv, WritingInv, Writing
    <3> QED  BY <2>1, <2>3, <3>1 DEF Publish
  <2>4. ASSUME NEW t \in tags \cup drafts \cup PublishedTags, Delete(t)
        PROVE  newest' = newest /\ releases' \subseteq releases
    BY <2>4 DEF Delete
  <2>5. ASSUME NEW r \in Runs, RunNext(r) \/ Claim(r), ~Publish(r)
        PROVE  UNCHANGED <<newest, releases>>
    BY <2>5 DEF RunNext, Start, Fail, ReadForReservation, Allocate, CreateBranch, SaveReservation,
         Verify, SelectCandidate, ReadForPublication, CheckOrder, Consume, CreateTag, CreateDraft,
         Claim
  <2>6. CASE UNCHANGED vars
    BY <2>2, <2>6 DEF vars
  <2> QED  BY <2>1, <2>2, <2>3, <2>4, <2>5, <2>6 DEF Next
<1> QED
  <2>1. newest' \in Nat /\ \A p \in releases' : p.number \in Nat
    BY TypeStep DEF TypeOK, Plan
  <2> QED  BY <1>1, <1>2, <1>3, <2>1 DEF ReleasesInv

-----------------------------------------------------------------------------
(* What a run relies on.                                                   *)

\* How a run came to be where it is.
LEMMA Arrivals ==
  ASSUME IInv, NEW q \in Runs, RunNext(q)
  PROVE  /\ pc'[q] \in {"preparing", "selecting"} =>
              Start(q) /\ pc'[q] = IF Promotes(q) THEN "selecting" ELSE "preparing"
         /\ pc'[q] = "allocating" => ReadForReservation(q) /\ pc[q] = "preparing"
         /\ pc'[q] = "reserving" => Allocate(q) /\ pc[q] = "allocating"
         /\ pc'[q] = "saving" => CreateBranch(q) /\ pc[q] = "reserving"
         /\ pc'[q] = "built" => pc[q] \in {"preparing", "saving"}
         /\ pc'[q] = "opening" => (Verify(q) /\ pc[q] = "built") \/ SelectCandidate(q)
         /\ pc'[q] = "ordering" => ReadForPublication(q) /\ pc[q] = "opening"
         /\ pc'[q] = "consuming" => CheckOrder(q) /\ pc[q] = "ordering"
         /\ pc'[q] = "tagging" => Consume(q) /\ pc[q] = "consuming"
         /\ pc'[q] = "drafting" => CreateTag(q) /\ pc[q] = "tagging"
         /\ pc'[q] = "publishing" => CreateDraft(q) /\ pc[q] = "drafting"
<1> TypeOK
  BY DEF IInv
<1>1. CASE Start(q)
  BY <1>1 DEF Start, Goto, TypeOK
<1>2. CASE Fail(q) \/ Publish(q)
  BY <1>2, EndFacts DEF Fail, Publish
<1>3. CASE ReadForReservation(q)
  BY <1>3 DEF ReadForReservation, Goto, TypeOK
<1>4. CASE Allocate(q) \/ Verify(q) \/ SelectCandidate(q) \/ ReadForPublication(q) \/ CheckOrder(q)
  BY <1>4 DEF Allocate, Verify, SelectCandidate, ReadForPublication, CheckOrder, Goto, TypeOK
<1>5. CASE CreateBranch(q)
  BY <1>5, WriteFacts DEF CreateBranch, States
<1>6. CASE SaveReservation(q)
  BY <1>6, WriteFacts DEF SaveReservation, States
<1>7. CASE Consume(q)
  BY <1>7, WriteFacts DEF Consume, States
<1>8. CASE CreateTag(q)
  BY <1>8, WriteFacts DEF CreateTag, States
<1>9. CASE CreateDraft(q)
  BY <1>9, WriteFacts DEF CreateDraft, States
<1> QED  BY <1>1, <1>2, <1>3, <1>4, <1>5, <1>6, <1>7, <1>8, <1>9 DEF RunNext

LEMMA ChannelStep == IInv /\ [Next]_vars => ChannelInv'
<1> SUFFICES ASSUME IInv, [Next]_vars, NEW q \in Runs
             PROVE  /\ pc'[q] \in {"preparing", "allocating", "reserving", "saving", "built"} =>
                         ~Promotes(q)
                    /\ pc'[q] = "selecting" => Promotes(q)
  BY Fixed DEF ChannelInv, Promotes
<1> ChannelInv
  BY DEF IInv
<1>1. CASE RunNext(q)
  <2>1. pc'[q] = "selecting" => Promotes(q)
    BY <1>1, Arrivals
  <2>2. pc'[q] \in {"preparing", "allocating", "reserving", "saving"} => ~Promotes(q)
    BY <1>1, Arrivals DEF ChannelInv
  <2>3. pc'[q] = "built" => ~Promotes(q)
    BY <1>1, Arrivals DEF ChannelInv
  <2> QED  BY <2>1, <2>2, <2>3
<1>2. CASE ~RunNext(q)
  <2>1. pc'[q] = pc[q]
    BY <1>2, OtherRuns
  <2> QED  BY <2>1 DEF ChannelInv
<1> QED  BY <1>1, <1>2

\* What Allocate chooses continues the ledger that the run has seen.
LEMMA AllocationContinues ==
  ASSUME IInv, NEW r \in Runs, Allocate(r)
  PROVE  Continues(r)'
<1> TypeOK /\ LedgersInv /\ TagsInv
  BY DEF IInv
<1>1. PICK s \in SequencesOf(seen[r], r) :
        plan' = [plan EXCEPT ![r] = [tag |-> RunTag(r, s), number |-> seen[r].counter + 1]]
  BY DEF Allocate
<1>2. /\ request' = request /\ seen' = seen
      /\ plan'[r].tag = RunTag(r, s) /\ plan'[r].number = seen[r].counter + 1
  BY <1>1 DEF Allocate, fixed, TypeOK
<1>3. ~Promotes(r) /\ seen[r].number[r] = 0
  BY DEF Allocate, Goto, IInv, ChannelInv, ReservingInv
<1>4. /\ s \in Nat \cup Runs
      /\ IF request[r].channel = "nightly" THEN s = r
         ELSE s \in Nat /\ s \notin UsedSequences(seen[r], r)
  BY <1>3, SequenceFacts
<1>5. plan'[r].tag.seq = s
  <2>1. s \in Nat \cup Runs
    BY <1>4
  <2>2. RunTag(r, s).seq = s
    BY <2>1, RunTagType
  <2> QED  BY <1>2, <2>2
<1>6. ASSUME NEW q \in Runs, seen[r].number[q] # 0
      PROVE  RunTag(q, seen[r].seq[q]) # RunTag(r, s)
  <2>1. seen[r] \in Ledger /\ seen[r].seq[q] \in Nat \cup Runs
    BY LedgerFields DEF TypeOK
  <2>2. ASSUME request[q] = request[r]  PROVE seen[r].seq[q] # s
    <3>1. CASE request[r].channel = "nightly"
      <4>1. seen[r].seq[q] = q /\ q # r
        BY <1>3, <1>6, <2>2, <3>1 DEF LedgersInv, LedgerOK
      <4> QED  BY <1>4, <3>1, <4>1
    <3>2. CASE request[r].channel # "nightly"
      BY <1>4, <1>6, <2>2, <3>2 DEF UsedSequences
    <3> QED  BY <3>1, <3>2
  <2>3. request[q].base = request[r].base /\ request[q].channel = request[r].channel
          => request[q] = request[r]
    BY DEF TypeOK, Requests
  <2> QED  BY <2>2, <2>3 DEF RunTag
<1> QED  BY <1>2, <1>3, <1>4, <1>5, <1>6 DEF Continues, RunTag

LEMMA ReservingStep == IInv /\ [Next]_vars => ReservingInv'
<1> SUFFICES ASSUME IInv, [Next]_vars, NEW q \in Runs
             PROVE  /\ pc'[q] = "allocating" => seen'[q].number[q] = 0
                    /\ pc'[q] \in {"reserving", "saving"} => Continues(q)'
  BY DEF ReservingInv
<1>1. CASE pc'[q] = pc[q] /\ seen'[q] = seen[q] /\ plan'[q] = plan[q]
  BY <1>1, Fixed DEF IInv, ReservingInv, Continues, RunTag
<1>2. CASE RunNext(q)
  <2>1. pc'[q] = "allocating" => seen'[q].number[q] = 0
    BY <1>2, Arrivals DEF ReadForReservation, Goto, IInv, TypeOK
  <2>2. pc'[q] = "reserving" => Continues(q)'
    BY <1>2, Arrivals, AllocationContinues
  <2>3. ASSUME pc'[q] = "saving"  PROVE Continues(q)'
    <3>1. CreateBranch(q) /\ pc[q] = "reserving"
      BY <1>2, <2>3, Arrivals
    <3>2. seen'[q] = seen[q] /\ plan'[q] = plan[q]
      BY <2>3, <3>1, WriteFacts DEF CreateBranch, States, IInv
    <3> QED  BY <3>1, <3>2, Fixed DEF IInv, ReservingInv, Continues, RunTag
  <2> QED  BY <2>1, <2>2, <2>3
<1> QED  BY <1>1, <1>2, OtherRuns

LEMMA PromotionStep == IInv /\ [Next]_vars => PromotionInv'
<1> SUFFICES ASSUME IInv, [Next]_vars, NEW q \in Runs,
                    Promotes(q), pc'[q] \in {"opening", "ordering", "consuming"}
             PROVE  plan'[q].number <= ledger'.floor
  BY Fixed DEF PromotionInv, Promotes
<1>1. ledger.floor \in Nat /\ ledger'.floor \in Nat /\ ledger.floor <= ledger'.floor
  BY TypeStep, LedgerGrows DEF IInv, TypeOK, Ledger
<1>2. plan'[q].number \in Nat
  BY TypeStep DEF TypeOK, Plan
<1>3. plan'[q].number <= ledger.floor
  <2>1. CASE pc'[q] = pc[q] /\ plan'[q] = plan[q]
    BY <2>1 DEF IInv, PromotionInv
  <2>2. CASE RunNext(q)
    <3>1. CASE Verify(q) /\ pc[q] = "built"
      BY <3>1 DEF IInv, ChannelInv
    <3>2. CASE SelectCandidate(q)
      <4>1. PICK p \in releases : plan' = [plan EXCEPT ![q] = p]
        BY <3>2 DEF SelectCandidate
      <4>2. plan'[q] = p
        BY <4>1 DEF IInv, TypeOK
      <4> QED  BY <4>2 DEF IInv, ReleasesInv
    <3>4. CASE pc'[q] = "opening"
      <4>1. (Verify(q) /\ pc[q] = "built") \/ SelectCandidate(q)
        BY <2>2, <3>4, Arrivals
      <4> QED  BY <3>1, <3>2, <4>1
    <3>5. CASE pc'[q] = "ordering"
      <4>1. ReadForPublication(q) /\ pc[q] = "opening"
        BY <2>2, <3>5, Arrivals
      <4> QED  BY <4>1 DEF ReadForPublication, IInv, PromotionInv
    <3>6. CASE pc'[q] = "consuming"
      <4>1. CheckOrder(q) /\ pc[q] = "ordering"
        BY <2>2, <3>6, Arrivals
      <4> QED  BY <4>1 DEF CheckOrder, IInv, PromotionInv
    <3> QED  BY <3>4, <3>5, <3>6
  <2> QED  BY <2>1, <2>2, OtherRuns
<1> QED  BY <1>1, <1>2, <1>3

LEMMA ConsumingStep == IInv /\ [Next]_vars => ConsumingInv'
<1> SUFFICES ASSUME IInv, [Next]_vars, NEW q \in Runs, pc'[q] = "consuming"
             PROVE  IF Promotes(q) THEN plan'[q].number >= seen'[q].floor
                    ELSE plan'[q] = Reserved(seen[q], q)' /\ plan'[q].number > seen'[q].floor
  BY Fixed DEF ConsumingInv, Promotes
<1>1. CASE pc'[q] = pc[q] /\ plan'[q] = plan[q] /\ seen'[q] = seen[q]
  BY <1>1, Fixed DEF IInv, ConsumingInv, Reserved, RunTag
<1>2. CASE CheckOrder(q)
  <2>1. plan' = plan /\ seen' = seen
    BY <1>2 DEF CheckOrder
  <2> QED  BY <1>2, <2>1, Fixed DEF CheckOrder, Promotable, Publishable, Reserved, RunTag
<1> QED  BY <1>1, <1>2, OtherRuns, Arrivals

\* A reservation that is there reads the same afterwards.
LEMMA ReservedStays ==
  ASSUME IInv, [Next]_vars, NEW q \in Runs, ledger.number[q] # 0
  PROVE  ledger'.number[q] # 0 /\ Reserved(ledger, q)' = Reserved(ledger, q)
  BY LedgerGrows, Fixed DEF Reserved, RunTag

LEMMA WritingStep == IInv /\ [Next]_vars => WritingInv'
<1> SUFFICES ASSUME IInv, [Next]_vars, NEW q \in Runs, pc'[q] \in Writing
             PROVE  /\ plan'[q].number <= ledger'.floor
                    /\ ~Promotes(q) => ledger'.number[q] # 0 /\ plan'[q] = Reserved(ledger, q)'
  BY Fixed DEF WritingInv, Promotes
<1>1. ledger.floor \in Nat /\ ledger'.floor \in Nat /\ ledger.floor <= ledger'.floor
  BY TypeStep, LedgerGrows DEF IInv, TypeOK, Ledger
<1>2. plan'[q].number \in Nat
  BY TypeStep DEF TypeOK, Plan
<1>3. CASE pc[q] \in Writing /\ plan'[q] = plan[q]
  <2>1. /\ plan[q].number <= ledger.floor
        /\ ~Promotes(q) => ledger.number[q] # 0 /\ plan[q] = Reserved(ledger, q)
    BY <1>3 DEF IInv, WritingInv
  <2> QED  BY <1>1, <1>2, <1>3, <2>1, ReservedStays
<1>4. CASE RunNext(q)
  <2>1. CASE Consume(q) /\ pc'[q] = "tagging"
    <3>1. plan'[q] = plan[q]
      BY <2>1, WriteFacts DEF Consume, IInv, States
    <3> QED  BY <1>2, <2>1, <3>1, ConsumeFacts, ReservedStays
  <2>2. CASE CreateTag(q) /\ pc[q] = "tagging" /\ pc'[q] = "drafting"
    <3>1. plan'[q] = plan[q]
      BY <2>2, WriteFacts DEF CreateTag, IInv, States
    <3> QED  BY <1>3, <2>2, <3>1 DEF Writing
  <2>3. CASE CreateDraft(q) /\ pc[q] = "drafting" /\ pc'[q] = "publishing"
    <3>1. plan'[q] = plan[q]
      BY <2>3, WriteFacts DEF CreateDraft, IInv, States
    <3> QED  BY <1>3, <2>3, <3>1 DEF Writing
  <2> QED  BY <1>4, <2>1, <2>2, <2>3, Arrivals DEF Writing
<1> QED  BY <1>3, <1>4, OtherRuns

LEMMA BegunStep == IInv /\ [Next]_vars => BegunInv'
<1> SUFFICES ASSUME IInv, [Next]_vars, NEW q \in Runs, begun'[q] # 0
             PROVE  begun'[q] = 1 /\ ledger'.number[q] # 0 /\ ledger'.number[q] <= ledger'.floor
  BY DEF BegunInv
<1>1. CASE begun'[q] = begun[q]
  BY <1>1, UsedStays DEF IInv, BegunInv
<1>2. CASE Consume(q) /\ ~Promotes(q)
  <2>1. begun'[q] = begun[q] + 1
    BY <1>2 DEF Consume, IInv, TypeOK
  <2>2. /\ plan[q].number = ledger.number[q] /\ ledger.number[q] # 0
        /\ ledger.number[q] > ledger.floor
        /\ ledger'.number = ledger.number /\ ledger'.floor = ledger.number[q]
    BY <1>2, ConsumeFacts
  <2>3. ledger.number[q] \in Nat /\ ledger.floor \in Nat
    BY LedgerFields DEF IInv, TypeOK
  <2>4. begun[q] = 0
    BY <2>2, <2>3 DEF IInv, BegunInv
  <2> QED  BY <2>1, <2>2, <2>3, <2>4
<1>3. CASE RunNext(q) /\ ~(Consume(q) /\ ~Promotes(q))
  <2>1. begun' = begun
    BY <1>3 DEF RunNext, Start, Fail, ReadForReservation, Allocate, CreateBranch, SaveReservation,
         Verify, SelectCandidate, ReadForPublication, CheckOrder, Consume, CreateTag, CreateDraft,
         Publish, history
  <2> QED  BY <1>1, <2>1
<1> QED  BY <1>1, <1>2, <1>3, OtherRuns

\* In a concurrency group a run starts only when no other is in progress.
LEMMA StartsAlone ==
  ASSUME IInv, parallel = 1, NEW r \in Runs, Start(r), NEW q \in Runs
  PROVE  pc[q] = "idle"
<1> DEFINE Active == {p \in Runs : pc[p] # "idle"}
<1>1. IsFiniteSet(Runs)
  BY RunsAssumption
<1>2. IsFiniteSet(Active)
  BY <1>1, FS_Subset
<1>3. Cardinality(Active) \in Nat
  BY <1>2, FS_CardinalityType
<1>4. Cardinality(Active) < 1
  BY DEF Start
<1>5. Active = {}
  BY <1>2, <1>3, <1>4, FS_EmptySet
<1> QED  BY <1>5

LEMMA AloneStep == IInv /\ [Next]_vars => AloneInv'
<1> SUFFICES ASSUME IInv, [Next]_vars, parallel = 1  PROVE AloneInv'
  BY Fixed DEF AloneInv
<1>1. \A q, r \in Runs : pc[q] # "idle" /\ pc[r] # "idle" => q = r
  BY DEF IInv, AloneInv
<1>2. ASSUME NEW q \in Runs, NEW r \in Runs, pc'[q] # "idle", pc'[r] # "idle"  PROVE q = r
  <2>1. \A p \in Runs : pc'[p] # "idle" => pc[p] # "idle" \/ Start(p)
    <3> SUFFICES ASSUME NEW p \in Runs, RunNext(p), pc[p] = "idle", ~Start(p)
                 PROVE  FALSE
      BY OtherRuns
    <3> QED
      BY DEF RunNext, Fail, ReadForReservation, Allocate, CreateBranch, SaveReservation,
         Verify, SelectCandidate, ReadForPublication, CheckOrder, Consume, CreateTag, CreateDraft,
         Publish, Goto, Write
  <2>2. ASSUME NEW p \in Runs, Start(p), NEW u \in Runs, u # p  PROVE pc'[u] = "idle"
    <3>1. pc[u] = "idle"
      BY <2>2, StartsAlone
    <3> QED  BY <2>2, <3>1 DEF Start, Goto, IInv, TypeOK
  <2> QED  BY <1>1, <1>2, <2>1, <2>2
<1>3. ASSUME NEW q \in Runs, pc'[q] \in Writing  PROVE plan'[q].number = ledger'.floor
  <2>1. CASE RunNext(q)
    <3>1. CASE Consume(q) /\ pc'[q] = "tagging"
      <4>1. plan'[q] = plan[q]
        BY <3>1, WriteFacts DEF Consume, IInv, States
      <4> QED  BY <3>1, <4>1, ConsumeFacts
    <3>2. CASE CreateTag(q) /\ pc[q] = "tagging" /\ pc'[q] = "drafting"
      <4>1. plan'[q] = plan[q] /\ ledger' = ledger
        BY <3>2, WriteFacts DEF CreateTag, IInv, States
      <4> QED  BY <3>2, <4>1 DEF IInv, AloneInv, Writing
    <3>3. CASE CreateDraft(q) /\ pc[q] = "drafting" /\ pc'[q] = "publishing"
      <4>1. plan'[q] = plan[q] /\ ledger' = ledger
        BY <3>3, WriteFacts DEF CreateDraft, IInv, States
      <4> QED  BY <3>3, <4>1 DEF IInv, AloneInv, Writing
    <3> QED  BY <1>3, <2>1, <3>1, <3>2, <3>3, Arrivals DEF Writing
  <2>2. CASE pc'[q] = pc[q] /\ plan'[q] = plan[q]
    <3>1. plan[q].number = ledger.floor /\ pc[q] # "idle"
      BY <1>3, <2>2 DEF IInv, AloneInv, Writing
    <3>2. ASSUME NEW r \in Runs, Consume(r)  PROVE r = q
      BY <1>1, <3>1, <3>2, ConsumeFacts
    <3>3. ASSUME NEW r \in Runs, SaveReservation(r)  PROVE r = q
      BY <1>1, <3>1, <3>3, SaveFacts
    <3>4. CASE Consume(q) \/ SaveReservation(q)
      BY <1>3, <2>2, <3>4, ConsumeFacts, SaveFacts DEF Writing
    <3>5. CASE ledger' = ledger
      BY <2>2, <3>1, <3>5
    <3>6. ledger' = ledger \/ \E r \in Runs : SaveReservation(r) \/ Consume(r)
      BY LedgerChanges
    <3> QED  BY <3>2, <3>3, <3>4, <3>5, <3>6
  <2> QED  BY <2>1, <2>2, OtherRuns
<1> QED  BY <1>2, <1>3 DEF AloneInv

-----------------------------------------------------------------------------
(* The theorems.                                                           *)

LEMMA InitInv == Init => IInv
<1> SUFFICES ASSUME Init  PROVE IInv
  OBVIOUS
<1>1. TypeOK
  BY InitType
<1>2. ledger = NewLedger /\ \A r \in Runs : seen[r] = NewLedger
  BY DEF Init
<1>3. LedgersInv
  BY <1>2, NewLedgerOK DEF LedgersInv
<1>4. \A r \in Runs : pc[r] = "idle"
  BY DEF Init
<1>5. ChannelInv /\ ReservingInv /\ PromotionInv /\ ConsumingInv /\ WritingInv /\ AloneInv
  BY <1>4 DEF ChannelInv, ReservingInv, PromotionInv, ConsumingInv, WritingInv, AloneInv, Writing
<1>6. tags \cup drafts \cup PublishedTags = {}
  BY DEF Init, PublishedTags
<1>7. TagsInv /\ ReleasesInv /\ BegunInv
  BY <1>6 DEF Init, TagsInv, ReleasesInv, BegunInv, NewLedger
<1> QED  BY <1>1, <1>3, <1>5, <1>7 DEF IInv

LEMMA InvStep == IInv /\ [Next]_vars => IInv'
  BY TypeStep, LedgersStep, TagsStep, ReleasesStep, ChannelStep, ReservingStep, PromotionStep,
     ConsumingStep, WritingStep, BegunStep, AloneStep DEF IInv

\* However many runs reserve, fail, start over and publish, in or out of a
\* concurrency group, the strengthened invariant holds.
THEOREM Invariant == Spec => []IInv
<1>1. Init => IInv
  BY InitInv
<1>2. IInv /\ [Next]_vars => IInv'
  BY InvStep
<1> QED  BY <1>1, <1>2, PTL DEF Spec

\* The variables keep their types.
THEOREM TypeCorrect == Spec => []TypeOK
<1>1. IInv => TypeOK
  BY DEF IInv
<1> QED  BY <1>1, Invariant, PTL

\* reserve_plan: two runs never hold the same build number or tag.
THEOREM UniqueNumbers == Spec => []UniqueReservations
<1>1. IInv => UniqueReservations
  BY DEF IInv, LedgersInv, LedgerOK, UniqueReservations
<1> QED  BY <1>1, Invariant, PTL

LEMMA UsedUp == IInv => ConsumedOnce
<1> SUFFICES ASSUME IInv  PROVE ConsumedOnce
  OBVIOUS
<1>1. ASSUME NEW r \in Runs  PROVE begun[r] <= 1
  <2>1. begun[r] \in Nat /\ (begun[r] # 0 => begun[r] = 1)
    BY DEF IInv, TypeOK, BegunInv
  <2> QED  BY <2>1
<1>2. ASSUME NEW r \in Runs, ledger.number[r] > ledger.floor,
             RunTag(r, ledger.seq[r]) \in tags \cup PublishedTags
      PROVE  FALSE
  <2> DEFINE t == RunTag(r, ledger.seq[r])
  <2>1. /\ ledger \in Ledger /\ ledger.number[r] \in Nat /\ ledger.floor \in Nat
        /\ ledger.seq[r] \in Nat \cup Runs
    BY LedgerFields DEF IInv, TypeOK
  <2>2. ledger.number[r] # 0 /\ ~Promotes(r)
    BY <1>2, <2>1 DEF IInv, LedgersInv, LedgerOK
  <2>3. t.channel # "stable"
    BY <2>1, <2>2, RunTagType DEF IInv, Promotes
  <2>4. PICK q \in Runs : /\ ledger.number[q] # 0 /\ ledger.number[q] <= ledger.floor
                          /\ t = RunTag(q, ledger.seq[q])
    BY <1>2, <2>3 DEF IInv, TagsInv
  <2>5. q = r
    BY <2>2, <2>4 DEF IInv, LedgersInv, LedgerOK
  <2> QED  BY <1>2, <2>1, <2>4, <2>5
<1> QED  BY <1>1, <1>2 DEF ConsumedOnce

\* begin_publication: a number is used up once, and nothing is public under a
\* number that is not used up.
THEOREM UsedUpOnce == Spec => []ConsumedOnce
  BY UsedUp, Invariant, PTL

LEMMA PublishesNewest ==
  ASSUME IInv, [Next]_vars, parallel = 1, NEW p \in releases' \ releases
  PROVE  p.number >= newest
<1> USE DEF fixed, world, history
<1>1. PICK r \in Runs : Publish(r)
  BY DEF vars, Next, RunNext, Start, Fail, ReadForReservation, Allocate, CreateBranch,
     SaveReservation, Verify, SelectCandidate, ReadForPublication, CheckOrder, Consume, CreateTag,
     CreateDraft, Claim, Delete
<1>2. p = [tag |-> Target(r), number |-> plan[r].number]
  BY <1>1 DEF Publish
<1>3. plan[r].number = ledger.floor
  BY <1>1 DEF Publish, IInv, AloneInv, Writing
<1>4. newest \in Nat /\ ledger.floor \in Nat /\ newest <= ledger.floor
  BY DEF IInv, TypeOK, Ledger, ReleasesInv
<1> QED  BY <1>2, <1>3, <1>4

\* While runs are serialized, no package older than one that was ever public
\* becomes public, whatever was deleted in between.
THEOREM NeverBehind == Spec => NoDowngrade
<1>1. IInv /\ [Next]_vars => [parallel = 1 => \A p \in releases' \ releases : p.number >= newest]_vars
  BY PublishesNewest
<1> QED  BY <1>1, Invariant, PTL DEF Spec, NoDowngrade

LEMMA ContractStep == IInv /\ [Next]_vars => [Contract!Next]_(Contract!vars)
<1> SUFFICES ASSUME IInv, [Next]_vars  PROVE [Contract!Next]_(Contract!vars)
  OBVIOUS
<1>1. CASE ledger' = ledger
  BY <1>1 DEF Contract!vars
<1>2. ASSUME NEW r \in Runs, SaveReservation(r)
      PROVE  Contract!Allocate(r)
  <2>1. ledger \in Ledger /\ ledger' = Saved(ledger, r) /\ plan[r] \in Plan
        /\ ledger.number[r] = 0 /\ ledger'.number[r] = ledger.counter + 1
        /\ ledger'.floor = ledger.floor
    BY <1>2, SaveFacts
  <2>2. ledger.number \in [Runs -> Nat] /\ ledger.counter \in Nat /\ ledger.floor \in Nat
    BY <2>1 DEF Ledger
  <2>3. ledger'.number = [ledger.number EXCEPT ![r] = ledger'.number[r]]
    <3>1. ledger'.number = [ledger.number EXCEPT ![r] = plan[r].number]
      BY <2>1, SavedFields
    <3> QED  BY <2>2, <3>1
  <2>4. ledger.floor <= ledger.counter /\ \A q \in Runs : ledger.number[q] <= ledger.counter
    BY DEF IInv, LedgersInv, LedgerOK
  <2> QED  BY <2>1, <2>2, <2>3, <2>4 DEF Contract!Allocate
<1>3. ASSUME NEW r \in Runs, Consume(r)
      PROVE  Contract!Consume(r) \/ UNCHANGED Contract!vars
  <2>1. CASE Promotes(r)
    BY <1>3, <2>1, ConsumeFacts DEF Contract!vars
  <2>2. CASE ~Promotes(r)
    BY <1>3, <2>2, ConsumeFacts DEF Contract!Consume
  <2> QED  BY <2>1, <2>2
<1> QED  BY <1>1, <1>2, <1>3, LedgerChanges DEF Contract!Next

\* The ledger file keeps the contract of LedgerContract: a number is given to
\* a run once and above all others, and numbers are used up in rising order.
THEOREM LedgerImplements == Spec => ImplementsContract
<1>1. Init => Contract!Init
  BY DEF Init, NewLedger, Contract!Init
<1>2. IInv /\ [Next]_vars => [Contract!Next]_(Contract!vars)
  BY ContractStep
<1> QED  BY <1>1, <1>2, Invariant, PTL DEF Spec, ImplementsContract, Contract!Spec

=============================================================================
