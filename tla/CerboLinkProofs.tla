--------------------------- MODULE CerboLinkProofs ---------------------------
(***************************************************************************)
(* Proofs about CerboLink for every bound: what the bridge takes for       *)
(* published is what the broker has or is going to have, through lost      *)
(* connections, refused messages, crashes and restarted brokers.           *)
(***************************************************************************)
EXTENDS CerboLink, SequenceTheorems, TLAPS

Tasks == {"idle", "state", "stateSent", "status", "statusSent", "closing", "closed", "down"}
Sent == [kind : {"state"}, rev : Nat] \cup [kind : {"online", "offline"}, rev : {0}]

\* The types without the bounds.
Typed ==
  /\ task \in Tasks /\ snap \in [ok : BOOLEAN, rev : Nat]
  /\ published \in Nat /\ announced \in {"none", "online", "offline"}
  /\ outbox \in Seq(Sent) /\ sent \in 0..Len(outbox)
  /\ retained \in [rev : Nat, status : {"none", "online", "offline"}]

\* A socket is open only in a session that the bridge has seen begin.
NetInv == net => connected

\* Of the first n messages of the queue the last one of these kinds is retained.
Seen(queue, n, kinds, retains) ==
  \A i \in 1..n :
    queue[i].kind \in kinds /\ (\A j \in i + 1..n : queue[j].kind \notin kinds) =>
      retains = queue[i]

SeenInv ==
  net => /\ Seen(outbox, sent, {"state"}, State(retained.rev))
         /\ Seen(outbox, sent, {"online", "offline"}, Status(retained.status))

\* What tick has handed to paho and not recorded yet is already on its way.
PublishedInv ==
  net => /\ task = "stateSent" => WillHaveState(snap.rev)
         /\ task \in {"idle", "state", "status", "statusSent"} /\ published # 0 =>
              WillHaveState(published)

AnnouncedInv ==
  net => /\ task = "statusSent" => WillHaveStatus(CurrentStatus)
         /\ task \in {"idle", "state", "stateSent", "status"} /\ announced # "none" =>
              WillHaveStatus(announced)

Inv == Typed /\ NetInv /\ SeenInv /\ PublishedInv /\ AnnouncedInv

-----------------------------------------------------------------------------
(* Queues of messages.                                                     *)

LEMMA AppendFacts ==
  ASSUME NEW q \in Seq(Sent), NEW x \in Sent
  PROVE  /\ Append(q, x) \in Seq(Sent) /\ Len(Append(q, x)) = Len(q) + 1
         /\ DOMAIN Append(q, x) = 1..Len(q) + 1 /\ DOMAIN q = 1..Len(q) /\ Len(q) \in Nat
         /\ \A i \in 1..Len(q) : Append(q, x)[i] = q[i]
         /\ Append(q, x)[Len(q) + 1] = x
  OBVIOUS

\* A message of another kind changes nothing, one of these kinds is the last.
LEMMA AppendEnds ==
  ASSUME NEW q \in Seq(Sent), NEW x \in Sent, NEW kinds, NEW before, NEW m
  PROVE  /\ x.kind \notin kinds /\ EndsIn(q, kinds, before, m) =>
              EndsIn(Append(q, x), kinds, before, m)
         /\ x.kind \in kinds => EndsIn(Append(q, x), kinds, before, x)
<1> DEFINE a == Append(q, x)
<1>1. /\ Len(a) = Len(q) + 1 /\ DOMAIN a = 1..Len(q) + 1 /\ DOMAIN q = 1..Len(q)
      /\ Len(q) \in Nat /\ (\A i \in 1..Len(q) : a[i] = q[i]) /\ a[Len(q) + 1] = x
  BY AppendFacts
<1> HIDE DEF a
<1>2. ASSUME x.kind \notin kinds, EndsIn(q, kinds, before, m)
      PROVE  EndsIn(a, kinds, before, m)
  <2>1. CASE \A i \in DOMAIN q : q[i].kind \notin kinds
    BY <1>1, <1>2, <2>1 DEF EndsIn
  <2>2. ASSUME NEW i \in DOMAIN q, q[i] = m, m.kind \in kinds,
               \A j \in i + 1..Len(q) : q[j].kind \notin kinds
        PROVE  EndsIn(a, kinds, before, m)
    <3>1. i \in DOMAIN a /\ a[i] = m
      BY <1>1, <2>2
    <3>2. ASSUME NEW j \in i + 1..Len(a) PROVE a[j].kind \notin kinds
      <4>1. j \in i + 1..Len(q) \/ j = Len(q) + 1
        BY <1>1, <2>2, <3>2
      <4> QED BY <1>1, <1>2, <2>2, <4>1
    <3> QED BY <2>2, <3>1, <3>2 DEF EndsIn
  <2> QED BY <1>2, <2>1, <2>2 DEF EndsIn
<1>3. ASSUME x.kind \in kinds PROVE EndsIn(a, kinds, before, x)
  BY <1>1, <1>3 DEF EndsIn
<1> QED BY <1>2, <1>3 DEF a

LEMMA AppendSeen ==
  ASSUME NEW q \in Seq(Sent), NEW x \in Sent, NEW n \in 0..Len(q), NEW kinds, NEW retains,
         Seen(q, n, kinds, retains)
  PROVE  Seen(Append(q, x), n, kinds, retains)
<1>1. \A i \in 1..n : Append(q, x)[i] = q[i]
  BY AppendFacts
<1>2. \A i \in 1..n : i \in Nat
  OBVIOUS
<1> QED BY <1>1, <1>2 DEF Seen

\* The broker sees one more: it retains it when it is of these kinds, and the end
\* of the queue stays what it was.
LEMMA OneMoreSeen ==
  ASSUME NEW q \in Seq(Sent), NEW n \in Nat, n < Len(q), NEW kinds, NEW retains,
         Seen(q, n, kinds, retains)
  PROVE  /\ q[n + 1].kind \in kinds => Seen(q, n + 1, kinds, q[n + 1])
         /\ q[n + 1].kind \notin kinds => Seen(q, n + 1, kinds, retains)
<1>1. ASSUME q[n + 1].kind \in kinds PROVE Seen(q, n + 1, kinds, q[n + 1])
  <2>1. SUFFICES ASSUME NEW i \in 1..n + 1, \A j \in i + 1..n + 1 : q[j].kind \notin kinds
                 PROVE  q[n + 1] = q[i]
    BY DEF Seen
  <2>2. i = n + 1 \/ n + 1 \in i + 1..n + 1
    OBVIOUS
  <2> QED BY <1>1, <2>1, <2>2
<1>2. ASSUME q[n + 1].kind \notin kinds PROVE Seen(q, n + 1, kinds, retains)
  <2>1. SUFFICES ASSUME NEW i \in 1..n + 1, q[i].kind \in kinds,
                        \A j \in i + 1..n + 1 : q[j].kind \notin kinds
                 PROVE  retains = q[i]
    BY DEF Seen
  <2>2. i \in 1..n /\ \A j \in i + 1..n : j \in i + 1..n + 1
    BY <1>2, <2>1
  <2> QED BY <2>1, <2>2 DEF Seen
<1> QED BY <1>1, <1>2

LEMMA SeenEnds ==
  ASSUME NEW q \in Seq(Sent), NEW i \in DOMAIN q, NEW kinds, NEW before, NEW now, NEW m,
         q[i].kind \in kinds, EndsIn(q, kinds, before, m)
  PROVE  EndsIn(q, kinds, now, m)
  BY DEF EndsIn

\* What has been seen and is acknowledged leaves the queue.
LEMMA TailFacts ==
  ASSUME NEW q \in Seq(Sent), NEW n \in 1..Len(q), NEW kinds, NEW retains,
         Seen(q, n, kinds, retains)
  PROVE  /\ Seen(Tail(q), n - 1, kinds, retains)
         /\ \A m : EndsIn(q, kinds, retains, m) => EndsIn(Tail(q), kinds, retains, m)
<1> DEFINE t == Tail(q)
<1>1. /\ t \in Seq(Sent) /\ Len(t) = Len(q) - 1 /\ Len(q) \in Nat \ {0}
      /\ DOMAIN t = 1..Len(q) - 1 /\ DOMAIN q = 1..Len(q)
      /\ \A i \in 1..Len(q) - 1 : t[i] = q[i + 1]
  OBVIOUS
<1> HIDE DEF t
<1>2. Seen(t, n - 1, kinds, retains)
  <2>1. SUFFICES ASSUME NEW i \in 1..n - 1, t[i].kind \in kinds,
                        \A j \in i + 1..n - 1 : t[j].kind \notin kinds
                 PROVE  retains = t[i]
    BY DEF Seen
  <2>2. i + 1 \in 1..n /\ t[i] = q[i + 1]
    BY <1>1
  <2>3. ASSUME NEW j \in i + 1 + 1..n PROVE q[j].kind \notin kinds
    <3>1. j - 1 \in i + 1..n - 1 /\ j - 1 \in 1..Len(q) - 1 /\ (j - 1) + 1 = j
      BY <1>1
    <3> QED BY <1>1, <2>1, <3>1
  <2> QED BY <2>1, <2>2, <2>3 DEF Seen
<1>3. ASSUME NEW m, EndsIn(q, kinds, retains, m) PROVE EndsIn(t, kinds, retains, m)
  <2>1. CASE \A i \in DOMAIN q : q[i].kind \notin kinds
    <3>1. retains = m
      BY <1>3, <2>1 DEF EndsIn
    <3>2. \A i \in DOMAIN t : t[i].kind \notin kinds
      BY <1>1, <2>1
    <3> QED BY <3>1, <3>2 DEF EndsIn
  <2>2. ASSUME NEW i \in DOMAIN q, q[i] = m, m.kind \in kinds,
               \A j \in i + 1..Len(q) : q[j].kind \notin kinds
        PROVE  EndsIn(t, kinds, retains, m)
    <3>1. CASE i = 1
      <4>1. \A j \in 2..n : q[j].kind \notin kinds
        BY <1>1, <2>2, <3>1
      <4>2. retains = m
        BY <2>2, <3>1, <4>1 DEF Seen
      <4>3. \A j \in DOMAIN t : t[j].kind \notin kinds
        BY <1>1, <2>2, <3>1
      <4> QED BY <4>2, <4>3 DEF EndsIn
    <3>2. CASE i # 1
      <4>1. i - 1 \in DOMAIN t /\ t[i - 1] = m
        BY <1>1, <2>2, <3>2
      <4>2. \A j \in (i - 1) + 1..Len(t) : t[j].kind \notin kinds
        BY <1>1, <2>2, <3>2
      <4> QED BY <2>2, <4>1, <4>2 DEF EndsIn
    <3> QED BY <3>1, <3>2
  <2> QED BY <1>3, <2>1, <2>2 DEF EndsIn
<1> QED BY <1>2, <1>3 DEF t

-----------------------------------------------------------------------------
(* The steps.                                                              *)

LEMMA InitInv == Init => Inv
  BY DEF Init, Inv, Typed, NetInv, SeenInv, PublishedInv, AnnouncedInv, Tasks

LEMMA MessagesTyped ==
  /\ \A rev \in Nat : State(rev) \in Sent /\ State(rev).kind = "state" /\ State(rev).rev = rev
  /\ \A s \in {"online", "offline"} : Status(s) \in Sent /\ Status(s).kind = s
  BY DEF State, Status, Sent

\* The main thread hands a message to paho; the claims about messages of the
\* other kinds stand, and so does what the broker has seen.
LEMMA Appended ==
  ASSUME Typed, SeenInv, NEW m \in Sent, outbox' = Append(outbox, m),
         UNCHANGED <<net, sent, retained>>
  PROVE  /\ outbox' \in Seq(Sent) /\ sent' \in 0..Len(outbox') /\ SeenInv'
         /\ m.kind = "state" =>
              /\ \A rev \in Nat : m = State(rev) => WillHaveState(rev)'
              /\ \A s : WillHaveStatus(s) => WillHaveStatus(s)'
         /\ m.kind # "state" =>
              /\ \A rev : WillHaveState(rev) => WillHaveState(rev)'
              /\ \A s : m = Status(s) => WillHaveStatus(s)'
<1>1. outbox \in Seq(Sent) /\ sent \in 0..Len(outbox)
  BY DEF Typed
<1>2. outbox' \in Seq(Sent) /\ sent' \in 0..Len(outbox')
  BY <1>1, AppendFacts
<1>3. SeenInv'
  BY <1>1, AppendSeen DEF SeenInv
<1>4. m.kind \in {"state", "online", "offline"}
  BY DEF Sent
<1>5. CASE m.kind = "state"
  <2>1. \A rev \in Nat : m = State(rev) => WillHaveState(rev)'
    BY <1>1, <1>5, AppendEnds DEF WillHaveState
  <2>2. m.kind \notin {"online", "offline"}
    BY <1>5
  <2>3. \A s : WillHaveStatus(s) => WillHaveStatus(s)'
    BY <1>1, <2>2, AppendEnds DEF WillHaveStatus
  <2> QED BY <1>2, <1>3, <1>5, <2>1, <2>3
<1>6. CASE m.kind # "state"
  <2>1. m.kind \notin {"state"} /\ m.kind \in {"online", "offline"}
    BY <1>4, <1>6
  <2>2. \A rev : WillHaveState(rev) => WillHaveState(rev)'
    BY <1>1, <2>1, AppendEnds DEF WillHaveState
  <2>3. \A s : m = Status(s) => WillHaveStatus(s)'
    BY <1>1, <2>1, AppendEnds DEF WillHaveStatus
  <2> QED BY <1>2, <1>3, <1>6, <2>2, <2>3
<1> QED BY <1>5, <1>6

\* A step that leaves the queue and what is retained alone.
LEMMA QueueKept ==
  ASSUME UNCHANGED <<outbox, sent, retained>>
  PROVE  /\ (net' => net) /\ SeenInv => SeenInv'
         /\ \A rev : WillHaveState(rev)' <=> WillHaveState(rev)
         /\ \A s : WillHaveStatus(s)' <=> WillHaveStatus(s)
  BY DEF SeenInv, WillHaveState, WillHaveStatus

LEMMA PublishStateKeeps == Inv /\ PublishState => Inv'
<1> SUFFICES ASSUME Inv, PublishState PROVE Inv'
  OBVIOUS
<1>1. /\ task = "state"
      /\ UNCHANGED <<snap, published, announced, connected, net, sent, retained>>
  BY DEF PublishState, brokerVars
<1>2. CASE snap.ok /\ snap.rev # published
  <2>1. /\ outbox' = Append(outbox, State(snap.rev))
        /\ task' = IF net THEN "stateSent" ELSE "status"
    BY <1>2 DEF PublishState, Publish
  <2>2. snap.rev \in Nat /\ State(snap.rev) \in Sent /\ State(snap.rev).kind = "state"
    BY MessagesTyped DEF Inv, Typed
  <2>3. /\ outbox' \in Seq(Sent) /\ sent' \in 0..Len(outbox') /\ SeenInv'
        /\ WillHaveState(snap.rev)'
        /\ \A s : WillHaveStatus(s) => WillHaveStatus(s)'
    BY <1>1, <2>1, <2>2, Appended DEF Inv
  <2>4. Typed'
    BY <1>1, <2>1, <2>3 DEF Inv, Typed, Tasks
  <2>5. PublishedInv' /\ AnnouncedInv'
    BY <1>1, <2>1, <2>3 DEF Inv, PublishedInv, AnnouncedInv
  <2> QED BY <1>1, <2>3, <2>4, <2>5 DEF Inv, NetInv
<1>3. CASE ~ (snap.ok /\ snap.rev # published)
  <2>1. task' = "status" /\ UNCHANGED outbox
    BY <1>3 DEF PublishState
  <2> QED
    BY <1>1, <2>1, QueueKept DEF Inv, Typed, Tasks, NetInv, PublishedInv, AnnouncedInv
<1> QED BY <1>2, <1>3

LEMMA PublishStatusKeeps == Inv /\ PublishStatus => Inv'
<1> SUFFICES ASSUME Inv, PublishStatus PROVE Inv'
  OBVIOUS
<1>1. /\ task = "status"
      /\ UNCHANGED <<snap, published, announced, connected, net, sent, retained>>
      /\ CurrentStatus' = CurrentStatus
  BY DEF PublishStatus, brokerVars, CurrentStatus
<1>2. CASE CurrentStatus # announced
  <2>1. /\ outbox' = Append(outbox, Status(CurrentStatus))
        /\ task' = IF net THEN "statusSent" ELSE "idle"
    BY <1>2 DEF PublishStatus, Publish
  <2>2. CurrentStatus \in {"online", "offline"}
    BY DEF CurrentStatus
  <2>3. Status(CurrentStatus) \in Sent /\ Status(CurrentStatus).kind # "state"
    BY <2>2, MessagesTyped
  <2>4. /\ outbox' \in Seq(Sent) /\ sent' \in 0..Len(outbox') /\ SeenInv'
        /\ \A rev : WillHaveState(rev) => WillHaveState(rev)'
        /\ \A s : s = CurrentStatus => WillHaveStatus(s)'
    BY <1>1, <2>1, <2>3, Appended DEF Inv
  <2>5. Typed'
    BY <1>1, <2>1, <2>4 DEF Inv, Typed, Tasks
  <2>6. PublishedInv' /\ AnnouncedInv'
    BY <1>1, <2>1, <2>4 DEF Inv, PublishedInv, AnnouncedInv
  <2> QED BY <1>1, <2>4, <2>5, <2>6 DEF Inv, NetInv
<1>3. CASE CurrentStatus = announced
  <2>1. task' = "idle" /\ UNCHANGED outbox
    BY <1>3 DEF PublishStatus
  <2> QED
    BY <1>1, <2>1, QueueKept DEF Inv, Typed, Tasks, NetInv, PublishedInv, AnnouncedInv
<1> QED BY <1>2, <1>3

\* What was handed over is what is recorded: the snapshot does not change inside tick.
LEMMA RecordKeeps == Inv /\ (RecordState \/ RecordStatus) => Inv'
<1> SUFFICES ASSUME Inv, RecordState \/ RecordStatus PROVE Inv'
  OBVIOUS
<1>1. UNCHANGED <<snap, connected, net, outbox, sent, retained>> /\ CurrentStatus' = CurrentStatus
  BY DEF RecordState, RecordStatus, netVars, brokerVars, CurrentStatus
<1>2. CASE RecordState
  BY <1>1, <1>2, QueueKept
  DEF RecordState, Inv, Typed, Tasks, NetInv, PublishedInv, AnnouncedInv
<1>3. CASE RecordStatus
  <2>1. CurrentStatus \in {"online", "offline"}
    BY DEF CurrentStatus
  <2> QED
    BY <1>1, <1>3, <2>1, QueueKept
    DEF RecordStatus, Inv, Typed, Tasks, NetInv, PublishedInv, AnnouncedInv
<1> QED BY <1>2, <1>3

\* The other steps of the main thread.
LEMMA MainKeeps ==
  ASSUME Inv, Sample \/ TickStart \/ CloseStart \/ CloseEnd \/ Crash \/ Restart
  PROVE  Inv'
<1>1. CASE Sample
  <2>1. /\ task = "idle"
        /\ UNCHANGED <<task, published, announced, connected, net, outbox, sent, retained>>
    BY <1>1 DEF Sample, netVars, brokerVars
  <2>2. snap' \in [ok : BOOLEAN, rev : Nat]
    <3>1. snap \in [ok : BOOLEAN, rev : Nat] /\ snap.rev + 1 \in Nat
      BY DEF Inv, Typed
    <3>2. CASE snap' = [ok |-> TRUE, rev |-> snap.rev + 1]
      BY <3>1, <3>2
    <3>3. CASE snap' = [snap EXCEPT !.ok = FALSE]
      BY <3>1, <3>3
    <3> QED BY <1>1, <3>2, <3>3 DEF Sample
  <2> QED BY <2>1, <2>2, QueueKept DEF Inv, Typed, NetInv, PublishedInv, AnnouncedInv
<1>2. CASE TickStart
  BY <1>2, QueueKept
  DEF TickStart, netVars, brokerVars, Inv, Typed, Tasks, NetInv, PublishedInv, AnnouncedInv
<1>3. CASE CloseStart
  <2>1. /\ task' = "closing"
        /\ UNCHANGED <<snap, published, announced, connected, net, sent, retained>>
    BY <1>3 DEF CloseStart, brokerVars
  <2>2. Status("offline") \in Sent
    BY MessagesTyped
  <2>3. outbox' \in Seq(Sent) /\ sent' \in 0..Len(outbox') /\ SeenInv'
    <3>1. CASE connected
      <4>1. outbox' = Append(outbox, Status("offline"))
        BY <1>3, <3>1 DEF CloseStart
      <4> QED BY <2>1, <2>2, <4>1, Appended DEF Inv
    <3>2. CASE ~ connected
      <4>1. outbox' = outbox
        BY <1>3, <3>2 DEF CloseStart
      <4> QED BY <2>1, <4>1, QueueKept DEF Inv, Typed
    <3> QED BY <3>1, <3>2
  <2> QED BY <2>1, <2>3 DEF Inv, Typed, Tasks, NetInv, PublishedInv, AnnouncedInv
<1>4. CASE CloseEnd \/ Crash
  <2>1. /\ task' \in {"closed", "down"} /\ net' = FALSE
        /\ UNCHANGED <<snap, published, announced, outbox, sent, retained>>
    BY <1>4 DEF CloseEnd, Crash, brokerVars
  <2> QED BY <2>1 DEF Inv, Typed, Tasks, NetInv, SeenInv, PublishedInv, AnnouncedInv
<1>5. CASE Restart
  <2>1. /\ task' = "idle" /\ published' = 0 /\ announced' = "none"
        /\ outbox' = <<>> /\ sent' = 0 /\ UNCHANGED <<connected, net, retained>>
        /\ snap' = [snap EXCEPT !.ok = FALSE]
    BY <1>5 DEF Restart, brokerVars
  <2>2. Typed'
    <3>1. snap' \in [ok : BOOLEAN, rev : Nat]
      BY <2>1 DEF Inv, Typed
    <3>2. outbox' \in Seq(Sent) /\ sent' \in 0..Len(outbox')
      BY <2>1
    <3> QED BY <2>1, <3>1, <3>2 DEF Inv, Typed, Tasks
  <2>3. NetInv' /\ PublishedInv' /\ AnnouncedInv'
    BY <2>1 DEF Inv, NetInv, PublishedInv, AnnouncedInv
  <2>4. SeenInv'
    BY <2>1 DEF SeenInv, Seen
  <2> QED BY <2>2, <2>3, <2>4 DEF Inv
<1> QED BY <1>1, <1>2, <1>3, <1>4, <1>5

\* Once the broker has the next message, it is what will be retained of its kinds.
LEMMA DeliverKeeps == Inv /\ Deliver => Inv'
<1> SUFFICES ASSUME Inv, Deliver PROVE Inv'
  OBVIOUS
<1> DEFINE m == outbox[sent + 1]
<1>1. /\ net /\ sent < Len(outbox) /\ sent' = sent + 1
      /\ retained' = IF m.kind = "state" THEN [retained EXCEPT !.rev = m.rev]
                                         ELSE [retained EXCEPT !.status = m.kind]
      /\ UNCHANGED <<task, snap, published, announced, connected, net, outbox>>
  BY DEF Deliver, mainVars, IsState
<1>2. /\ outbox \in Seq(Sent) /\ sent \in Nat /\ sent + 1 \in DOMAIN outbox /\ m \in Sent
      /\ sent' \in 0..Len(outbox)
  BY <1>1 DEF Inv, Typed
<1>3. /\ Seen(outbox, sent, {"state"}, State(retained.rev))
      /\ Seen(outbox, sent, {"online", "offline"}, Status(retained.status))
  BY <1>1 DEF Inv, SeenInv
<1>4. retained \in [rev : Nat, status : {"none", "online", "offline"}]
  BY DEF Inv, Typed
<1> HIDE DEF m
<1>5. CASE m.kind = "state"
  <2>1. /\ State(retained'.rev) = m /\ Status(retained'.status) = Status(retained.status)
        /\ retained' \in [rev : Nat, status : {"none", "online", "offline"}]
    BY <1>1, <1>2, <1>4, <1>5 DEF State, Sent
  <2>2. m.kind \in {"state"} /\ m.kind \notin {"online", "offline"}
    BY <1>5
  <2>3. /\ Seen(outbox, sent + 1, {"state"}, m)
        /\ Seen(outbox, sent + 1, {"online", "offline"}, Status(retained.status))
    BY <1>1, <1>2, <1>3, <2>2, OneMoreSeen DEF m
  <2>4. \A rev : WillHaveState(rev) => WillHaveState(rev)'
    BY <1>1, <1>2, <2>2, SeenEnds DEF WillHaveState, m
  <2>5. \A s : WillHaveStatus(s) => WillHaveStatus(s)'
    BY <1>1, <2>1 DEF WillHaveStatus
  <2> QED
    BY <1>1, <1>2, <2>1, <2>3, <2>4, <2>5
    DEF Inv, Typed, NetInv, SeenInv, PublishedInv, AnnouncedInv, CurrentStatus
<1>6. CASE m.kind # "state"
  <2>1. m.kind \notin {"state"} /\ m.kind \in {"online", "offline"}
    BY <1>2, <1>6 DEF Sent
  <2>2. /\ Status(retained'.status) = m /\ State(retained'.rev) = State(retained.rev)
        /\ retained' \in [rev : Nat, status : {"none", "online", "offline"}]
    BY <1>1, <1>2, <1>4, <1>6, <2>1 DEF Status, Sent
  <2>3. /\ Seen(outbox, sent + 1, {"state"}, State(retained.rev))
        /\ Seen(outbox, sent + 1, {"online", "offline"}, m)
    BY <1>1, <1>2, <1>3, <2>1, OneMoreSeen DEF m
  <2>4. \A rev : WillHaveState(rev) => WillHaveState(rev)'
    BY <1>1, <2>2 DEF WillHaveState
  <2>5. \A s : WillHaveStatus(s) => WillHaveStatus(s)'
    BY <1>1, <1>2, <2>1, SeenEnds DEF WillHaveStatus, m
  <2> QED
    BY <1>1, <1>2, <2>2, <2>3, <2>4, <2>5
    DEF Inv, Typed, NetInv, SeenInv, PublishedInv, AnnouncedInv, CurrentStatus
<1> QED BY <1>5, <1>6

LEMMA AcknowledgeKeeps == Inv /\ Acknowledge => Inv'
<1> SUFFICES ASSUME Inv, Acknowledge PROVE Inv'
  OBVIOUS
<1>1. /\ net /\ sent > 0 /\ outbox' = Tail(outbox) /\ sent' = sent - 1
      /\ UNCHANGED <<task, snap, published, announced, connected, net, retained>>
  BY DEF Acknowledge, mainVars, brokerVars
<1>2. outbox \in Seq(Sent) /\ sent \in 1..Len(outbox)
  BY <1>1 DEF Inv, Typed
<1>3. /\ Seen(outbox, sent, {"state"}, State(retained.rev))
      /\ Seen(outbox, sent, {"online", "offline"}, Status(retained.status))
  BY <1>1 DEF Inv, SeenInv
<1>4. /\ SeenInv'
      /\ \A rev : WillHaveState(rev) => WillHaveState(rev)'
      /\ \A s : WillHaveStatus(s) => WillHaveStatus(s)'
  BY <1>1, <1>2, <1>3, TailFacts DEF SeenInv, WillHaveState, WillHaveStatus
<1>5. outbox' \in Seq(Sent) /\ sent' \in 0..Len(outbox')
  BY <1>1, <1>2
<1> QED
  BY <1>1, <1>4, <1>5 DEF Inv, Typed, NetInv, PublishedInv, AnnouncedInv, CurrentStatus

\* Without a socket nothing is claimed, and a new session begins with no claim.
LEMMA NetworkKeeps ==
  ASSUME Inv, Lose \/ OnDisconnect \/ OnConnect \/ WillSent \/ BrokerRestart
  PROVE  Inv'
<1>1. CASE Lose \/ BrokerRestart \/ OnDisconnect \/ WillSent
  <2>1. /\ ~ net' /\ UNCHANGED <<task, snap, published, announced, outbox, sent>>
    BY <1>1 DEF Lose, BrokerRestart, OnDisconnect, WillSent, mainVars, netVars
  <2>2. retained' \in [rev : Nat, status : {"none", "online", "offline"}]
    BY <1>1 DEF Lose, BrokerRestart, OnDisconnect, WillSent, brokerVars, Inv, Typed
  <2> QED BY <2>1, <2>2 DEF Inv, Typed, NetInv, SeenInv, PublishedInv, AnnouncedInv
<1>2. CASE OnConnect
  <2>1. /\ task \in {"idle", "closing"} /\ connected' = TRUE /\ sent' = 0
        /\ published' = 0 /\ announced' = "none"
        /\ UNCHANGED <<task, snap, outbox, retained>>
    BY <1>2 DEF OnConnect, Reconnects
  <2>2. SeenInv'
    BY <2>1 DEF SeenInv, Seen
  <2> QED BY <2>1, <2>2 DEF Inv, Typed, NetInv, PublishedInv, AnnouncedInv
<1> QED BY <1>1, <1>2

LEMMA NextInv == Inv /\ [Next]_vars => Inv'
<1> SUFFICES ASSUME Inv, [Next]_vars PROVE Inv'
  OBVIOUS
<1>1. CASE HomeAssistant \/ UNCHANGED vars
  <2>1. UNCHANGED <<task, snap, published, announced, connected, net, outbox, sent, retained>>
    BY <1>1
    DEF HomeAssistant, HaLose, HaRestart, HaSubscribe, HaReceive, vars, mainVars, netVars,
        brokerVars
  <2> QED
    BY <2>1, QueueKept DEF Inv, Typed, NetInv, PublishedInv, AnnouncedInv, CurrentStatus
<1> QED
  BY <1>1, PublishStateKeeps, PublishStatusKeeps, RecordKeeps, MainKeeps, DeliverKeeps,
     AcknowledgeKeeps, NetworkKeeps
  DEF Next, Main, Tick, Network

LEMMA Invariance == Spec => []Inv
  BY InitInv, NextInv, PTL DEF Spec

\* What CerboMqtt takes for published between two ticks (cerbo_mqtt.py: tick,
\* _on_connect) the broker has or is going to have: tick leaves nothing out that
\* Home Assistant still lacks, however messages and connections were lost.
THEOREM BeliefsKept == Spec => []BeliefsHold
<1>1. Inv => BeliefsHold
  BY DEF Inv, PublishedInv, AnnouncedInv, BeliefsHold
<1> QED BY <1>1, Invariance, PTL

=============================================================================
