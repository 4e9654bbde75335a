----------------------------- MODULE CerboLink -----------------------------
(***************************************************************************)
(* The way of a vehicle snapshot from the bridge to Home Assistant:        *)
(* CerboMqtt (dbus_ev/cerbo_mqtt.py) publishes snapshots and availability  *)
(* on the main loop while paho's thread runs its callbacks; the broker     *)
(* retains them and publishes the last will; the coordinator of the Home   *)
(* Assistant integration (ha/.../coordinator.py) receives them.            *)
(*                                                                         *)
(* task  control point of the main thread: "idle" between two callbacks,   *)
(*       "state", "stateSent", "status" and "statusSent" inside tick,      *)
(*       "closing" inside close, "closed", and "down" for a dead process.  *)
(* paho and the broker are external: quality-of-service-1 messages wait in *)
(* the outbox until acknowledged, in order, and are sent again after a     *)
(* reconnection; the will follows every session that ends without a        *)
(* DISCONNECT, at the latest when the next one begins.                     *)
(***************************************************************************)
EXTENDS Naturals, Sequences

CONSTANTS
  MaxChanges,    \* bound on the changes of the snapshot
  MaxLosses,     \* bound on lost connections, crashes, shutdowns and restarts
  MaxOutbox,     \* bound on messages in the outbox; a tick begins with room for three
  MaxToHa        \* bound on messages on their way to Home Assistant

VARIABLES
  task,
  snap,          \* the snapshot on show: [ok, rev], rev 0 before the first
  connected,     \* _connected
  published,     \* _published_revision, 0 for None
  announced,     \* _availability, "none" for None
  net,           \* paho's socket is open
  outbox, sent,  \* unacknowledged messages, and how many the broker has seen
  session,       \* the broker still keeps the session, and its will
  retained,      \* the broker's retained messages: [rev, status]
  ha,            \* the coordinator: [link, online, rev], rev 0 for nothing yet
  toHa,
  goodbye,       \* history: close found a connection to say goodbye on
  changes, losses

mainVars == <<task, snap, published, announced>>
netVars == <<net, outbox, sent>>
brokerVars == <<session, retained>>
haVars == <<ha, toHa>>
bounds == <<changes, losses>>
vars == <<mainVars, connected, netVars, brokerVars, haVars, goodbye, bounds>>

State(rev) == [kind |-> "state", rev |-> rev]
Status(status) == [kind |-> status, rev |-> 0]
IsState(m) == m.kind = "state"

Init ==
  /\ task = "idle"
  /\ snap = [ok |-> FALSE, rev |-> 0]
  /\ connected = FALSE /\ published = 0 /\ announced = "none"
  /\ net = FALSE /\ outbox = <<>> /\ sent = 0
  /\ session = FALSE /\ retained = [rev |-> 0, status |-> "none"]
  /\ ha = [link |-> FALSE, online |-> FALSE, rev |-> 0] /\ toHa = <<>>
  /\ goodbye = FALSE /\ changes = 0 /\ losses = 0

-----------------------------------------------------------------------------
(* The main thread. *)

\* A new snapshot is applied, or the one on show expires or becomes valid.
Sample ==
  /\ task = "idle" /\ changes < MaxChanges
  /\ \/ snap' = [ok |-> TRUE, rev |-> snap.rev + 1]
     \/ snap.ok /\ snap' = [snap EXCEPT !.ok = FALSE]
  /\ changes' = changes + 1
  /\ UNCHANGED <<task, published, announced, connected, netVars, brokerVars, haVars,
                 goodbye, losses>>

\* tick reads the flag under the lock and goes on without it.
TickStart ==
  /\ task = "idle" /\ connected /\ Len(outbox) + 2 < MaxOutbox
  /\ task' = "state"
  /\ UNCHANGED <<snap, published, announced, connected, netVars, brokerVars, haVars,
                 goodbye, bounds>>

\* client.publish: paho keeps the message even when it reports no connection.
Publish(m, accepted, otherwise) ==
  /\ outbox' = Append(outbox, m)
  /\ task' = IF net THEN accepted ELSE otherwise

PublishState ==
  /\ task = "state"
  /\ IF snap.ok /\ snap.rev # published
     THEN Publish(State(snap.rev), "stateSent", "status")
     ELSE task' = "status" /\ UNCHANGED outbox
  /\ UNCHANGED <<snap, published, announced, connected, net, sent, brokerVars, haVars,
                 goodbye, bounds>>

RecordState ==
  /\ task = "stateSent"
  /\ task' = "status" /\ published' = snap.rev
  /\ UNCHANGED <<snap, announced, connected, netVars, brokerVars, haVars, goodbye, bounds>>

CurrentStatus == IF snap.ok THEN "online" ELSE "offline"

PublishOnlineOnly ==
  /\ task = "status"
  /\ IF CurrentStatus # announced /\ snap.ok
     THEN Publish(Status(CurrentStatus), "statusSent", "idle")
     ELSE task' = "idle" /\ UNCHANGED outbox
  /\ UNCHANGED <<snap, published, announced, connected, net, sent, brokerVars, haVars,
                 goodbye, bounds>>

PublishStatus ==
  /\ task = "status"
  /\ IF CurrentStatus # announced
     THEN Publish(Status(CurrentStatus), "statusSent", "idle")
     ELSE task' = "idle" /\ UNCHANGED outbox
  /\ UNCHANGED <<snap, published, announced, connected, net, sent, brokerVars, haVars,
                 goodbye, bounds>>

RecordStatus ==
  /\ task = "statusSent"
  /\ task' = "idle" /\ announced' = CurrentStatus
  /\ UNCHANGED <<snap, published, connected, netVars, brokerVars, haVars, goodbye, bounds>>

\* close runs in a signal handler, so also inside tick, whose rest then reaches a
\* closed client; it reads the flag without the lock and says goodbye only when
\* it is set.
CloseStart ==
  /\ task \notin {"closing", "closed", "down"} /\ losses < MaxLosses
  /\ task' = "closing"
  /\ outbox' = IF connected THEN Append(outbox, Status("offline")) ELSE outbox
  /\ goodbye' = connected /\ losses' = losses + 1
  /\ UNCHANGED <<snap, published, announced, connected, net, sent, brokerVars, haVars, changes>>

\* disconnect() flushes what is waiting; the broker then drops the will.
CloseEnd ==
  /\ task = "closing"
  /\ net => sent = Len(outbox)
  /\ task' = "closed" /\ connected' = FALSE /\ net' = FALSE
  /\ session' = (session /\ ~net)
  /\ UNCHANGED <<snap, published, announced, outbox, sent, retained, haVars, goodbye, bounds>>

Crash ==
  /\ task \notin {"closed", "down"} /\ losses < MaxLosses
  /\ task' = "down" /\ connected' = FALSE /\ net' = FALSE /\ losses' = losses + 1
  /\ UNCHANGED <<snap, published, announced, outbox, sent, brokerVars, haVars, goodbye, changes>>

\* A new process; revisions carry the acquisition time and so go on rising.
Restart ==
  /\ task \in {"closed", "down"}
  /\ task' = "idle" /\ snap' = [snap EXCEPT !.ok = FALSE]
  /\ published' = 0 /\ announced' = "none"
  /\ outbox' = <<>> /\ sent' = 0 /\ goodbye' = FALSE
  /\ UNCHANGED <<connected, net, brokerVars, haVars, bounds>>

-----------------------------------------------------------------------------
(* paho's thread and the broker. *)

Forward(m) == toHa' = IF ha.link THEN Append(toHa, m) ELSE toHa

Room == ha.link => Len(toHa) < MaxToHa

Lose ==
  /\ net /\ losses < MaxLosses
  /\ net' = FALSE /\ losses' = losses + 1
  /\ UNCHANGED <<mainVars, connected, outbox, sent, brokerVars, haVars, goodbye, changes>>

OnDisconnect ==
  /\ ~net /\ connected
  /\ connected' = FALSE
  /\ UNCHANGED <<mainVars, netVars, brokerVars, haVars, goodbye, bounds>>

\* A reconnection takes at least five seconds, so it does not fall inside a tick
\* that saw the session before.
Reconnects == ~net /\ ~connected /\ ~session /\ task \in {"idle", "closing"}

OnConnectKeeping ==
  /\ Reconnects
  /\ net' = TRUE /\ session' = TRUE /\ sent' = 0
  /\ connected' = TRUE
  /\ UNCHANGED <<mainVars, outbox, retained, haVars, goodbye, bounds>>

\* A new session: everything is to be published again.
OnConnect ==
  /\ Reconnects
  /\ net' = TRUE /\ session' = TRUE /\ sent' = 0
  /\ connected' = TRUE /\ published' = 0 /\ announced' = "none"
  /\ UNCHANGED <<task, snap, outbox, retained, haVars, goodbye, bounds>>

WillMissing ==
  /\ session /\ ~net /\ Room
  /\ session' = FALSE
  /\ UNCHANGED <<mainVars, connected, netVars, retained, haVars, goodbye, bounds>>

\* The broker gives up a session without a goodbye and publishes its will.
WillSent ==
  /\ session /\ ~net /\ Room
  /\ session' = FALSE
  /\ retained' = [retained EXCEPT !.status = "offline"]
  /\ Forward(Status("offline"))
  /\ UNCHANGED <<mainVars, connected, netVars, ha, goodbye, bounds>>

Deliver ==
  /\ net /\ sent < Len(outbox) /\ Room
  /\ LET m == outbox[sent + 1] IN
       /\ retained' = IF IsState(m) THEN [retained EXCEPT !.rev = m.rev]
                                    ELSE [retained EXCEPT !.status = m.kind]
       /\ Forward(m)
  /\ sent' = sent + 1
  /\ UNCHANGED <<mainVars, connected, net, outbox, session, ha, goodbye, bounds>>

Acknowledge ==
  /\ net /\ sent > 0
  /\ outbox' = Tail(outbox) /\ sent' = sent - 1
  /\ UNCHANGED <<mainVars, connected, net, brokerVars, haVars, goodbye, bounds>>

\* A restarted broker has forgotten sessions and retained messages.
BrokerRestart ==
  /\ losses < MaxLosses
  /\ net' = FALSE /\ session' = FALSE /\ retained' = [rev |-> 0, status |-> "none"]
  /\ ha' = [ha EXCEPT !.link = FALSE] /\ toHa' = <<>>
  /\ losses' = losses + 1
  /\ UNCHANGED <<mainVars, connected, outbox, sent, goodbye, changes>>

-----------------------------------------------------------------------------
(* Home Assistant. *)

HaLose ==
  /\ ha.link /\ losses < MaxLosses
  /\ ha' = [ha EXCEPT !.link = FALSE] /\ toHa' = <<>>
  /\ losses' = losses + 1
  /\ UNCHANGED <<mainVars, connected, netVars, brokerVars, goodbye, changes>>

HaRestart ==
  /\ losses < MaxLosses
  /\ ha' = [link |-> FALSE, online |-> FALSE, rev |-> 0] /\ toHa' = <<>>
  /\ losses' = losses + 1
  /\ UNCHANGED <<mainVars, connected, netVars, brokerVars, goodbye, changes>>

\* A subscription begins with what is retained.
HaSubscribe ==
  /\ ~ha.link
  /\ ha' = [ha EXCEPT !.link = TRUE]
  /\ toHa' = (IF retained.rev = 0 THEN <<>> ELSE <<State(retained.rev)>>)
             \o (IF retained.status = "none" THEN <<>> ELSE <<Status(retained.status)>>)
  /\ UNCHANGED <<mainVars, connected, netVars, brokerVars, goodbye, bounds>>

\* _message refuses a snapshot older than the one on show.
Accepted(m) == IF m.rev < ha.rev THEN ha.rev ELSE m.rev

HaReceive ==
  /\ toHa # <<>>
  /\ LET m == Head(toHa) IN
       ha' = IF IsState(m) THEN [ha EXCEPT !.rev = Accepted(m)]
                           ELSE [ha EXCEPT !.online = m.kind = "online"]
  /\ toHa' = Tail(toHa)
  /\ UNCHANGED <<mainVars, connected, netVars, brokerVars, goodbye, bounds>>

Tick == TickStart \/ PublishState \/ RecordState \/ PublishStatus \/ RecordStatus
Main == Sample \/ Tick \/ CloseStart \/ CloseEnd \/ Crash \/ Restart
Network == Lose \/ OnDisconnect \/ OnConnect \/ WillSent \/ Deliver \/ Acknowledge
HomeAssistant == HaLose \/ HaRestart \/ HaSubscribe \/ HaReceive

Next == Main \/ Network \/ BrokerRestart \/ HomeAssistant

Spec == Init /\ [][Next]_vars

\* The loop keeps ticking, connections are retried and messages arrive.
Fairness ==
  /\ WF_vars(Tick \/ CloseEnd)
  /\ WF_vars(OnDisconnect) /\ WF_vars(OnConnect) /\ WF_vars(WillSent)
  /\ WF_vars(Deliver) /\ WF_vars(Acknowledge)
  /\ WF_vars(HaSubscribe) /\ WF_vars(HaReceive)

FairSpec == Spec /\ Fairness

-----------------------------------------------------------------------------
Messages == [kind : {"state", "online", "offline"}, rev : 0..MaxChanges]

TypeOK ==
  /\ task \in {"idle", "state", "stateSent", "status", "statusSent", "closing", "closed", "down"}
  /\ snap \in [ok : BOOLEAN, rev : 0..MaxChanges]
  /\ connected \in BOOLEAN /\ net \in BOOLEAN /\ session \in BOOLEAN
  /\ published \in 0..MaxChanges /\ announced \in {"none", "online", "offline"}
  /\ outbox \in Seq(Messages) /\ Len(outbox) <= MaxOutbox /\ sent \in 0..Len(outbox)
  /\ retained \in [rev : 0..MaxChanges, status : {"none", "online", "offline"}]
  /\ ha \in [link : BOOLEAN, online : BOOLEAN, rev : 0..MaxChanges]
  /\ toHa \in Seq(Messages) /\ Len(toHa) <= MaxToHa
  /\ goodbye \in BOOLEAN /\ changes \in 0..MaxChanges /\ losses \in 0..MaxLosses

\* Once all of the queue has been delivered, m is the last message of these kinds:
\* the queue ends in it, or it holds none of them and m was there before.
EndsIn(queue, kinds, before, m) ==
  \/ \E i \in DOMAIN queue :
       /\ queue[i] = m /\ m.kind \in kinds
       /\ \A j \in i + 1..Len(queue) : queue[j].kind \notin kinds
  \/ (\A i \in DOMAIN queue : queue[i].kind \notin kinds) /\ before = m

\* What the broker retains once it has everything in the outbox.
WillHaveState(rev) == EndsIn(outbox, {"state"}, State(retained.rev), State(rev))
WillHaveStatus(status) ==
  EndsIn(outbox, {"online", "offline"}, Status(retained.status), Status(status))

\* Between two ticks, what CerboMqtt takes for published in this session is what
\* the broker has or is going to have: nothing is skipped on a stale belief.
BeliefsHold ==
  task = "idle" /\ net /\ connected =>
    /\ published # 0 => WillHaveState(published)
    /\ announced # "none" => WillHaveStatus(announced)

\* Once the disturbances end, Home Assistant agrees with the bridge.
Settles ==
  <>[](\/ task \in {"closing", "closed", "down"}
       \/ ha.online = snap.ok /\ (snap.ok => ha.rev = snap.rev))

\* README: the last will reports process loss. A crash, and a shutdown that found a
\* connection, end in "offline", by the will or by the goodbye, unless the broker
\* forgot the session too.
Ended == task = "down" \/ (task = "closed" /\ goodbye)

EndReported == Ended ~> (~Ended \/ ~ha.online \/ retained.status = "none")

=============================================================================
