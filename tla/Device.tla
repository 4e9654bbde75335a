----------------------------- MODULE Device -----------------------------
(***************************************************************************)
(* A device: the worker with the private token it owns (TokenStore), and   *)
(* the updates that stop, kill and start it (Installer). An end of the     *)
(* worker, whoever ordered it, cuts off its OAuth call where it is.        *)
(***************************************************************************)
EXTENDS TokenStore, Installer

vars == <<tokenVars, installVars>>

Init == TokenInit /\ InstallInit

WorkerGone ==
  IF phase["worker"] = "off" THEN UNCHANGED tokenVars ELSE End("worker")

Supervisor ==
  \/ (StartWorker \/ HangWorker) /\ UNCHANGED tokenVars
  \/ EndWorker /\ WorkerGone

Update(u) ==
  \/ (Begin(u) \/ Interrupt(u)) /\ UNCHANGED tokenVars
  \/ /\ UpdateStep(u)
     /\ IF worker # "off" /\ worker' = "off" THEN WorkerGone ELSE UNCHANGED tokenVars

\* The client of a running worker, and a login by hand at any time.
Client ==
  /\ worker = "on"
  /\ Construct("worker") \/ Refused("worker") \/ TokenStep("worker")
  /\ UNCHANGED installVars

Login ==
  /\ Construct("login") \/ Refused("login") \/ TokenStep("login") \/ End("login")
  /\ UNCHANGED installVars

\* One file system holds the token and the package, and writes both back.
FileSystem ==
  /\ WriteFilesBack
  /\ WriteBack \/ (flushed = tokenFile /\ UNCHANGED tokenVars)

Next ==
  \/ Supervisor \/ Client \/ Login
  \/ \E u \in Updaters : Update(u)
  \/ Uninstall /\ IF worker' = "off" THEN WorkerGone ELSE UNCHANGED tokenVars
  \/ Reboot /\ LosePower
  \/ FileSystem

Fairness ==
  /\ WF_vars(StartWorker /\ UNCHANGED tokenVars)
  /\ \A u \in Updaters : WF_vars(UpdateStep(u) /\ Update(u))

Spec == Init /\ [][Next]_vars /\ Fairness

TypeOK == TokenTypeOK /\ InstallTypeOK

(***************************************************************************)
(* The worker's files and its configuration change only while it is down,  *)
(* a loss of power apart; the process that an uninstall killed and left    *)
(* may be ending still.                                                    *)
(***************************************************************************)
Ending == worker \in {"off", "left"}

StoppedWhileChanging ==
  [][tree' # tree \/ config' # config => (Ending /\ Ending') \/ Reboot]_vars

(***************************************************************************)
(* An update from a whole release that reaches its end leaves that release *)
(* whole, the configuration it found (or was given), the link and the boot *)
(* hook, whatever an update before it left half done.                      *)
(***************************************************************************)
WholeAfterUpdate ==
  [][\A u \in Updaters : Start(u) =>
       /\ Whole(staged[u]) => tree = staged[u]
       /\ config = IF push[u] THEN "developer" ELSE backup[u]
       /\ link = "own" /\ hook = "whole"]_vars

(***************************************************************************)
(* The worker runs a mixture of versions only after an update ended early, *)
(* or after the power failed before the files of a complete one were       *)
(* written back, and until the next one completes.                         *)
(***************************************************************************)
NoMixture == worker = "on" /\ broken = "no" => Whole(loaded)

(***************************************************************************)
(* It is not enough that every update ran to its end: update.sh does not   *)
(* synchronise what it copies.                                             *)
(***************************************************************************)
WholeUnlessCut == worker = "on" /\ broken # "cut" => Whole(loaded)

(***************************************************************************)
(* An update that has begun to replace files brings the worker back,       *)
(* unless it, or one after it, ends early, the link is gone (the package   *)
(* removed, the boot hook lost with the power) or a process that an        *)
(* uninstall left does not end.                                            *)
(***************************************************************************)
ComesBack ==
  \A u \in Updaters :
    step[u] = "remove" ~> worker \in {"on", "left"} \/ broken = "cut" \/ link = None

(***************************************************************************)
(* update.sh:27 says that the device's own configuration must never be     *)
(* overwritten: no update, however it ends, leaves it cut short.           *)
(***************************************************************************)
ConfigurationSurvives ==
  (\A u \in Updaters : step[u] = "idle") => config # "short"

=============================================================================
