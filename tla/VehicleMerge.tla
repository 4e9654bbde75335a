---------------------------- MODULE VehicleMerge ----------------------------
(***************************************************************************)
(* What MercedesClient (dbus_ev/mercedes/client.py) shows of the vehicle:  *)
(* push frames are merged into the buffer of the application session       *)
(* (Protocol, dbus_ev/mercedes/protocol.py), which survives reconnections  *)
(* of the socket; REST replies supplement a live stream or stand alone;    *)
(* a full update and a recovery login start the buffer over.               *)
(*                                                                         *)
(* A reading is abstracted to the time it was measured at (0 when the      *)
(* server gives none), the buffer's epoch and the channel it came by.      *)
(* When each step may happen is MercedesSession's subject; here it may at  *)
(* any time.                                                               *)
(***************************************************************************)
EXTENDS Naturals

CONSTANTS
  Fields,        \* the attributes of the vehicle
  MaxTime,       \* bound on the server's clock
  MaxEpochs      \* bound on the times the buffer starts over

ASSUME MergeAssumption == MaxTime \in Nat \ {0} /\ MaxEpochs \in Nat \ {0}

VARIABLES
  now,           \* the server's clock
  connected,     \* _connected
  buffer,        \* Protocol.attributes
  full,          \* Protocol.full_received
  shown, source, \* _snapshot, and whether a push or a pull acquired it
  \* history
  epoch,         \* how often the buffer has started over
  delivered      \* this socket has delivered a full update

mergeVars == <<now, connected, buffer, full, shown, source, epoch, delivered>>

Unknown == [at |-> 0, epoch |-> 0, via |-> "none"]
Nothing == [f \in Fields |-> Unknown]

\* The attributes of a message: some fields, none measured in the future.
Updates == UNION {[S -> 0..now] : S \in SUBSET Fields \ {{}}}

Readings(u, via, e) == [f \in DOMAIN u |-> [at |-> u[f], epoch |-> e, via |-> via]]

MergeUnordered(old, new) ==
  [f \in Fields |-> IF f \in DOMAIN new THEN new[f] ELSE old[f]]

\* merge: of two readings the later one stays, and the new one of equals.
Merge(old, new) ==
  [f \in Fields |-> IF f \in DOMAIN new /\ new[f].at >= old[f].at THEN new[f] ELSE old[f]]

MergeInit ==
  /\ now = 1 /\ connected = FALSE
  /\ buffer = Nothing /\ full = FALSE
  /\ shown = Nothing /\ source = "push"
  /\ epoch = 1 /\ delivered = FALSE

ClockTicks ==
  /\ now < MaxTime
  /\ now' = now + 1
  /\ UNCHANGED <<connected, buffer, full, shown, source, epoch, delivered>>

SocketOpens ==
  /\ ~connected
  /\ connected' = TRUE /\ delivered' = FALSE
  /\ UNCHANGED <<now, buffer, full, shown, source, epoch>>

SocketCloses ==
  /\ connected
  /\ connected' = FALSE
  /\ UNCHANGED <<now, buffer, full, shown, source, epoch, delivered>>

\* _accept shows the merged buffer, unless it fails.
Accept == shown' = buffer' /\ source' = "push"
AcceptFails == UNCHANGED <<shown, source>>

\* A partial frame for this vehicle.  When acknowledging it or accepting it
\* fails it has been merged already, and the connection ends.
Delta ==
  /\ connected
  /\ \E u \in Updates : buffer' = Merge(buffer, Readings(u, "push", epoch))
  /\ \/ Accept /\ UNCHANGED connected
     \/ AcceptFails /\ connected' = FALSE
  /\ UNCHANGED <<now, full, epoch, delivered>>

\* An explicit full update replaces what was merged before.
FullUpdate ==
  /\ connected /\ epoch < MaxEpochs
  /\ epoch' = epoch + 1
  /\ \E u \in Updates : buffer' = Merge(Nothing, Readings(u, "push", epoch'))
  /\ full' = TRUE /\ delivered' = TRUE
  /\ \/ Accept /\ UNCHANGED connected
     \/ AcceptFails /\ connected' = FALSE
  /\ UNCHANGED now

\* decode_rest: a reply stands alone, its omitted fields are unknown.
DecodeRest(u) == Merge(Nothing, Readings(u, "rest", epoch))

\* The stream that has had its full update goes on owning unchanged fields.
Owned == connected /\ full

Supplement ==
  /\ Owned
  /\ \E u \in Updates : buffer' = Merge(buffer, Readings(u, "rest", epoch))
  /\ Accept \/ AcceptFails
  /\ UNCHANGED <<now, connected, full, epoch, delivered>>

Replace ==
  /\ ~Owned
  /\ \E u \in Updates : shown' = DecodeRest(u) /\ source' = "pull"
  /\ UNCHANGED <<now, connected, buffer, full, epoch, delivered>>

Pull == Supplement \/ Replace

NewSessionKeeping ==
  /\ ~connected /\ epoch < MaxEpochs
  /\ epoch' = epoch + 1
  /\ UNCHANGED <<now, connected, buffer, full, shown, source, delivered>>

\* A recovery login: a new session, whose deltas start from nothing.
NewSession ==
  /\ ~connected /\ epoch < MaxEpochs
  /\ epoch' = epoch + 1 /\ buffer' = Nothing /\ full' = FALSE
  /\ UNCHANGED <<now, connected, shown, source, delivered>>

Restart ==
  /\ epoch < MaxEpochs
  /\ epoch' = epoch + 1 /\ buffer' = Nothing /\ full' = FALSE
  /\ connected' = FALSE /\ delivered' = FALSE
  /\ shown' = Nothing /\ source' = "push"
  /\ UNCHANGED now

MergeNext ==
  \/ ClockTicks \/ SocketOpens \/ SocketCloses
  \/ Delta \/ FullUpdate \/ Pull
  \/ NewSession \/ Restart

MergeSpec == MergeInit /\ [][MergeNext]_mergeVars

-----------------------------------------------------------------------------
Reading == [at : 0..MaxTime, epoch : 0..MaxEpochs, via : {"none", "push", "rest"}]

MergeTypeOK ==
  /\ now \in 1..MaxTime /\ connected \in BOOLEAN
  /\ buffer \in [Fields -> Reading] /\ full \in BOOLEAN
  /\ shown \in [Fields -> Reading] /\ source \in {"push", "pull"}
  /\ epoch \in 1..MaxEpochs /\ delivered \in BOOLEAN

\* What is on show never joins readings from before and after a full update or a
\* recovery login.
OneEpoch ==
  \A f, g \in Fields :
    shown[f] # Unknown /\ shown[g] # Unknown => shown[f].epoch = shown[g].epoch

\* While a pull stands alone nothing that only the stream ever said is on show.
PullHidesOldFields == source = "pull" => \A f \in Fields : shown[f].via # "push"

\* The stream, with or without supplements, never returns to an older reading
\* until the buffer starts over, failed acknowledgements included.
StreamMovesForward ==
  [][source = "push" /\ source' = "push" =>
       \A f \in Fields : shown[f] # Unknown /\ shown[f].epoch = shown'[f].epoch =>
                           shown'[f].at >= shown[f].at]_mergeVars

\* docs/mercedes-upstream.md: only a socket that has delivered its initial full
\* snapshot owns the fields a REST reply leaves out.
OwnerDeliveredFull == [][Supplement => delivered]_mergeVars

\* protocol.py: snapshots are ordered.  A delta never takes a field that it does
\* not carry back to an older reading than the one on show.
DeltaKeepsNewer ==
  [][Delta =>
       \A f \in Fields : shown'[f] = buffer[f] /\ buffer[f].at > 0 =>
                           shown'[f].at >= shown[f].at]_mergeVars

=============================================================================
