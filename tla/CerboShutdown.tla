--------------------------- MODULE CerboShutdown ---------------------------
(***************************************************************************)
(* CerboMqtt.close (dbus_ev/cerbo_mqtt.py) and the two threads around it.  *)
(* The main thread holds _lock for moments of tick and meter; paho's       *)
(* thread takes it in every callback; the SIGTERM handler (serve,          *)
(* dbus_ev/main.py) runs close on the main thread between any two          *)
(* bytecodes, also while the main thread holds the lock.                   *)
(*                                                                         *)
(* paho is external: a callback runs on its thread, which sends, receives  *)
(* and ends only between two callbacks; a disconnection calls              *)
(* on_disconnect, whoever asked for it; loop_stop joins the thread.        *)
(***************************************************************************)
EXTENDS Naturals

CONSTANTS MaxLosses    \* bound on the connections lost

VARIABLES
  main,          \* "loop", "locked" inside tick or meter, "quit"
  handler,       \* the SIGTERM handler: "none", "goodbye", "disconnect", "join", "done"
  lock,          \* who holds _lock: "nobody", "main", "net"
  connected,     \* _connected
  net,           \* paho's thread: "loop", a callback "connect", "disconnect" or
                 \* "message" before and inside its lock, "ended"
  sock,          \* the socket is open
  leaving,       \* disconnect() has been called
  losses,
  inside         \* history: the signal came while the main thread held the lock

vars == <<main, handler, lock, connected, net, sock, leaving, losses, inside>>

Callbacks == {"connect", "disconnect", "message"}

Init ==
  /\ main = "loop" /\ handler = "none"
  /\ lock = "nobody" /\ connected = FALSE
  /\ net = "loop" /\ sock = FALSE
  /\ leaving = FALSE /\ losses = 0 /\ inside = FALSE

-----------------------------------------------------------------------------
(* The main thread; the handler suspends what it was doing. *)

Lock ==
  /\ handler = "none" /\ main = "loop" /\ lock = "nobody"
  /\ main' = "locked" /\ lock' = "main"
  /\ UNCHANGED <<handler, connected, net, sock, leaving, losses, inside>>

Unlock ==
  /\ handler \in {"none", "done"} /\ main = "locked"
  /\ main' = "loop" /\ lock' = "nobody"
  /\ UNCHANGED <<handler, connected, net, sock, leaving, losses, inside>>

\* SIGTERM: close reads the flag without the lock and publishes its goodbye.
Signal ==
  /\ handler = "none"
  /\ handler' = IF connected THEN "goodbye" ELSE "disconnect"
  /\ inside' = (lock = "main")
  /\ UNCHANGED <<main, lock, connected, net, sock, leaving, losses>>

\* wait_for_publish returns with the acknowledgement or after two seconds.
Waited ==
  /\ handler = "goodbye"
  /\ handler' = "disconnect"
  /\ UNCHANGED <<main, lock, connected, net, sock, leaving, losses, inside>>

Disconnect ==
  /\ handler = "disconnect"
  /\ handler' = "join" /\ leaving' = TRUE
  /\ UNCHANGED <<main, lock, connected, net, sock, losses, inside>>

\* loop_stop waits for paho's thread to end.
Join ==
  /\ handler = "join" /\ net = "ended"
  /\ handler' = "done"
  /\ UNCHANGED <<main, lock, connected, net, sock, leaving, losses, inside>>

\* The main loop ends when the tick the handler interrupted has returned.
Quit ==
  /\ handler = "done" /\ main = "loop"
  /\ main' = "quit"
  /\ UNCHANGED <<handler, lock, connected, net, sock, leaving, losses, inside>>

-----------------------------------------------------------------------------
(* paho's thread. *)

\* An event of the connection: what it does to the socket, and the callback it calls.
Event(callback, open) ==
  /\ net = "loop"
  /\ net' = callback /\ sock' = open
  /\ UNCHANGED <<main, handler, lock, connected, leaving, inside>>

Connected == ~sock /\ ~leaving /\ Event("connect", TRUE) /\ UNCHANGED losses
Received == sock /\ Event("message", TRUE) /\ UNCHANGED losses
Lost ==
  /\ sock /\ losses < MaxLosses
  /\ Event("disconnect", FALSE) /\ losses' = losses + 1
Left == sock /\ leaving /\ Event("disconnect", FALSE) /\ UNCHANGED losses

\* A callback waits for the lock, and does its work under it.
Enter ==
  /\ net \in Callbacks /\ lock = "nobody"
  /\ lock' = "net"
  /\ UNCHANGED <<main, handler, connected, net, sock, leaving, losses, inside>>

Return ==
  /\ net \in Callbacks /\ lock = "net"
  /\ lock' = "nobody" /\ net' = "loop"
  /\ connected' = CASE net = "connect" -> TRUE
                    [] net = "disconnect" -> FALSE
                    [] OTHER -> connected
  /\ UNCHANGED <<main, handler, sock, leaving, losses, inside>>

End ==
  /\ net = "loop" /\ leaving /\ ~sock
  /\ net' = "ended"
  /\ UNCHANGED <<main, handler, lock, connected, sock, leaving, losses, inside>>

Main == Lock \/ Unlock \/ Waited \/ Disconnect \/ Join \/ Quit
Net == Connected \/ Received \/ Lost \/ Left \/ Enter \/ Return \/ End

Next == Main \/ Signal \/ Net

Spec == Init /\ [][Next]_vars

\* Both threads run, and a thread that wants the lock gets it in the end; paho's
\* thread notices that it is to leave among the messages.
Fairness ==
  /\ WF_vars(Unlock \/ Waited \/ Disconnect \/ Join \/ Quit)
  /\ SF_vars(Enter) /\ WF_vars(Return) /\ SF_vars(Left) /\ WF_vars(End)

FairSpec == Spec /\ Fairness

-----------------------------------------------------------------------------
TypeOK ==
  /\ main \in {"loop", "locked", "quit"}
  /\ handler \in {"none", "goodbye", "disconnect", "join", "done"}
  /\ lock \in {"nobody", "main", "net"} /\ connected \in BOOLEAN
  /\ net \in Callbacks \cup {"loop", "ended"} /\ sock \in BOOLEAN
  /\ leaving \in BOOLEAN /\ losses \in 0..MaxLosses /\ inside \in BOOLEAN
  /\ lock = "main" <=> main = "locked"
  /\ lock = "net" => net \in Callbacks

\* A shutdown that does not interrupt the main thread inside the lock completes,
\* whatever paho's thread is doing.
ClosesBetween == handler # "none" /\ ~inside ~> main = "quit"

\* README: safe shutdown.  Every shutdown completes.
Closes == handler # "none" ~> main = "quit"

=============================================================================
