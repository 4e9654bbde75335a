---------------------------- MODULE Installer ----------------------------
(***************************************************************************)
(* The update of a device (update.sh, called by setup, deploy.sh or by     *)
(* hand): it stages a release in /tmp, stops the worker, replaces the      *)
(* installed items one by one, the run script by rename, gives the local   *)
(* configuration back, makes the service link and the boot hook, and       *)
(* starts the worker again. It may be interrupted or lose power between    *)
(* any two of these steps, and be run again, with a release or with the    *)
(* installed tree itself (SetupHelper) as its source. Nothing in it is     *)
(* synchronised: until the file system has written a change back, a loss   *)
(* of power may undo it, or leave what was being written missing or short. *)
(***************************************************************************)
EXTENDS Naturals, Sequences

CONSTANTS
  Items,      \* the number of runtime items
  Versions,   \* the releases there are
  Installed,  \* the one the device has at first
  Updaters,   \* who may run update.sh
  MaxUpdates  \* bound on the updates begun

ASSUME ItemsAssumption == Items \in Nat \ {0}
ASSUME UpdatesAssumption == MaxUpdates \in Nat

None == "none"
ASSUME VersionsAssumption == None \notin Versions /\ Installed \in Versions

VARIABLES
  tree,      \* the version of each installed item; item 0 is the run script
  config,    \* local_config.py: the device's, the developer's, cut short
  link,      \* /service/dbus-ev: absent, ours or another's
  hook,      \* the block in rc.local: absent, there, or the file cut short
  treeDisk,  \* what a loss of power may leave of each item,
  configDisk,\* of the configuration
  hookDisk,  \* and of rc.local
  want,      \* what the supervisor was told
  worker,    \* its process: off, on, not ending when asked, left by an uninstall
  loaded,    \* the version of each item that a worker at work started from
  step,      \* where each update is
  at,        \* the item it is at
  staged,    \* its copy of the source
  push,      \* it replaces the local configuration
  backup,    \* its copy of the local configuration
  updates,   \* the updates begun so far
  broken     \* since the last complete update, one ended early ("cut"), or the
             \* power failed before its files were written back ("power")

disk == <<treeDisk, configDisk, hookDisk>>
device == <<tree, config, link, hook, disk>>
supervised == <<want, worker, loaded>>
updater == <<step, at, staged, push, backup, updates>>
installVars == <<device, supervised, updater, broken>>

All == 0 .. Items
Empty == [i \in All |-> None]
Whole(m) == \E v \in Versions : m = [i \in All |-> v]

Steps == {"idle", "stopping", "killed", "backup", "remove", "copy",
          "restore", "restoring", "pushing", "linking", "hooking", "start"}

InstallTypeOK ==
  /\ tree \in [All -> Versions \cup {None}]
  /\ config \in {"device", "developer", "short"}
  /\ link \in {None, "own", "other"} /\ hook \in {None, "whole", "short"}
  /\ treeDisk \in [All -> SUBSET (Versions \cup {None})]
  /\ configDisk \subseteq {"device", "developer", "short"}
  /\ hookDisk \subseteq {None, "whole", "short"}
  /\ want \in {"up", "down"} /\ worker \in {"off", "on", "stuck", "left"}
  /\ loaded \in [All -> Versions \cup {None}]
  /\ step \in [Updaters -> Steps] /\ at \in [Updaters -> 0 .. Items + 1]
  /\ staged \in [Updaters -> [All -> Versions \cup {None}]]
  /\ push \in [Updaters -> BOOLEAN]
  /\ backup \in [Updaters -> {"device", "developer", "short"}]
  /\ updates \in 0 .. MaxUpdates /\ broken \in {"no", "power", "cut"}

\* An update before this one may have been cut short among its items.
InstallInit ==
  /\ tree \in [All -> Versions \cup {None}] /\ tree[0] = Installed
  /\ broken = IF tree = [i \in All |-> Installed] THEN "no" ELSE "cut"
  /\ treeDisk = [i \in All |-> {tree[i]}]
  /\ config = "device" /\ configDisk = {"device"}
  /\ link = "own" /\ hook = "whole" /\ hookDisk = {"whole"}
  /\ want = "up" /\ worker = "off" /\ loaded = Empty
  /\ step = [u \in Updaters |-> "idle"] /\ at = [u \in Updaters |-> 0]
  /\ staged = [u \in Updaters |-> Empty]
  /\ push = [u \in Updaters |-> FALSE] /\ backup = [u \in Updaters |-> "device"]
  /\ updates = 0

Go(u, s) == step' = [step EXCEPT ![u] = s]

\* On exit the staging directory goes, and with it all the update knew.
ExitAll(U) ==
  /\ step' = [u \in Updaters |-> IF u \in U THEN "idle" ELSE step[u]]
  /\ at' = [u \in Updaters |-> IF u \in U THEN 0 ELSE at[u]]
  /\ staged' = [u \in Updaters |-> IF u \in U THEN Empty ELSE staged[u]]
  /\ push' = [u \in Updaters |-> u \notin U /\ push[u]]
  /\ backup' = [u \in Updaters |-> IF u \in U THEN "device" ELSE backup[u]]
  /\ UNCHANGED updates

Exit(u) == ExitAll({u})

(***************************************************************************)
(* The file system: what is written joins what a loss of power may leave,  *)
(* until it is written back. (Written back piece by piece, it would leave  *)
(* no more than this.)                                                     *)
(***************************************************************************)

WriteItem(i, m) ==
  /\ tree' = [tree EXCEPT ![i] = m]
  /\ treeDisk' = [treeDisk EXCEPT ![i] = @ \cup {m, None}]

WriteConfig(c) == config' = c /\ configDisk' = configDisk \cup {c}
WriteHook(h) == hook' = h /\ hookDisk' = hookDisk \cup {h}

WriteFilesBack ==
  /\ treeDisk' = [i \in All |-> {tree[i]}]
  /\ configDisk' = {config} /\ hookDisk' = {hook}
  /\ UNCHANGED <<tree, config, link, hook, supervised, updater, broken>>

(***************************************************************************)
(* The worker under its supervisor                                         *)
(***************************************************************************)

\* It is at work no more.
Becomes(w) == worker' = w /\ loaded' = Empty

StartWorker ==
  /\ want = "up" /\ link = "own" /\ worker = "off"
  /\ worker' = "on" /\ loaded' = tree
  /\ UNCHANGED <<device, want, updater, broken>>

\* It ends by itself, as asked or by a fault, and the supervisor may start it again.
EndWorker ==
  /\ worker # "off" /\ Becomes("off")
  /\ UNCHANGED <<device, want, updater, broken>>

HangWorker ==
  /\ worker = "on" /\ Becomes("stuck")
  /\ UNCHANGED <<device, want, updater, broken>>

(***************************************************************************)
(* The update                                                              *)
(***************************************************************************)

\* The source is staged before anything is stopped, and the layout checked:
\* another's link and a source without its run script are refused.
Begin(u) ==
  /\ step[u] = "idle" /\ updates < MaxUpdates /\ updates' = updates + 1
  /\ link # "other"
  /\ \E source \in {[i \in All |-> v] : v \in Versions} \cup {tree} :
       /\ source[0] # None
       /\ staged' = [staged EXCEPT ![u] = source]
       /\ \E p \in BOOLEAN : (p => source # tree) /\ push' = [push EXCEPT ![u] = p]
  /\ \/ link = "own" /\ want' = "down" /\ Go(u, "stopping")
     \/ link = None /\ UNCHANGED want /\ Go(u, "backup")
  /\ UNCHANGED <<device, worker, loaded, at, backup, broken>>

\* svstat reports the service down.
Stopped(u) ==
  /\ step[u] \in {"stopping", "killed"} /\ worker = "off"
  /\ Go(u, "backup")
  /\ UNCHANGED <<device, supervised, at, staged, push, backup, updates, broken>>

\* After twenty seconds the supervisor kills it.
KillWorker(u) ==
  /\ step[u] = "stopping" /\ worker # "off"
  /\ Go(u, "killed")
  /\ Becomes("off") \/ Becomes(IF worker = "left" THEN "left" ELSE "stuck")
  /\ UNCHANGED <<device, want, at, staged, push, backup, updates, broken>>

GoOnAnyway(u) ==
  /\ step[u] = "killed" /\ worker # "off"
  /\ Go(u, "backup")
  /\ UNCHANGED <<device, supervised, at, staged, push, backup, updates, broken>>

\* After twenty-five the update gives up, and the service stays told to stop.
GiveUp(u) ==
  /\ step[u] = "killed" /\ worker # "off"
  /\ Exit(u)
  /\ broken' = "cut"
  /\ UNCHANGED <<device, supervised>>

Backup(u) ==
  /\ step[u] = "backup"
  /\ backup' = [backup EXCEPT ![u] = config]
  /\ at' = [at EXCEPT ![u] = 1]
  /\ Go(u, "remove")
  /\ UNCHANGED <<device, supervised, staged, push, updates, broken>>

\* An item that the source does not have is left as it is.
Skip(u) ==
  /\ step[u] = "remove" /\ at[u] <= Items /\ staged[u][at[u]] = None
  /\ at' = [at EXCEPT ![u] = @ + 1]
  /\ UNCHANGED <<device, supervised, step, staged, push, backup, updates, broken>>

Remove(u) ==
  /\ step[u] = "remove" /\ at[u] <= Items /\ staged[u][at[u]] # None
  /\ WriteItem(at[u], None)
  /\ Go(u, "copy")
  /\ UNCHANGED <<config, configDisk, link, hook, hookDisk, supervised, at, staged, push, backup, updates, broken>>

CopyOrNot(u) ==
  /\ step[u] = "copy"
  /\ \/ WriteItem(at[u], staged[u][at[u]])
     \/ UNCHANGED <<tree, treeDisk>>
  /\ at' = [at EXCEPT ![u] = @ + 1]
  /\ Go(u, "remove")
  /\ UNCHANGED <<config, configDisk, link, hook, hookDisk, supervised, staged, push,
                 backup, updates, broken>>

Copy(u) ==
  /\ step[u] = "copy"
  /\ WriteItem(at[u], staged[u][at[u]])
  /\ at' = [at EXCEPT ![u] = @ + 1]
  /\ Go(u, "remove")
  /\ UNCHANGED <<config, configDisk, link, hook, hookDisk, supervised, staged, push,
                 backup, updates, broken>>

\* The run script is renamed into place; a service told to be down at boot is
\* so no more.
Script(u) ==
  /\ step[u] = "remove" /\ at[u] > Items
  /\ WriteItem(0, staged[u][0])
  /\ Go(u, "restore")
  /\ UNCHANGED <<config, configDisk, link, hook, hookDisk, supervised, at, staged, push,
                 backup, updates, broken>>

\* cp opens the configuration for writing, which empties it, and fills it.
Restore(u) ==
  /\ \/ step[u] = "restore" /\ WriteConfig("short") /\ Go(u, "restoring")
     \/ /\ step[u] = "restoring" /\ WriteConfig(backup[u])
        /\ Go(u, IF push[u] THEN "pushing" ELSE "linking")
  /\ UNCHANGED <<tree, treeDisk, link, hook, hookDisk, supervised, at, staged, push,
                 backup, updates, broken>>

Push(u) ==
  /\ step[u] = "pushing"
  /\ \/ config # "short" /\ WriteConfig("short") /\ UNCHANGED step
     \/ config = "short" /\ WriteConfig("developer") /\ Go(u, "linking")
  /\ UNCHANGED <<tree, treeDisk, link, hook, hookDisk, supervised, at, staged, push,
                 backup, updates, broken>>

Link(u) ==
  /\ step[u] = "linking"
  /\ link' = IF link = None THEN "own" ELSE link
  /\ Go(u, "hooking")
  /\ UNCHANGED <<tree, config, hook, disk, supervised, at, staged, push, backup, updates,
                 broken>>

SkipHook(u) ==
  /\ step[u] = "hooking"
  /\ \/ hook = "whole" /\ WriteHook(None) /\ UNCHANGED step
     \/ hook # "whole" /\ UNCHANGED <<hook, hookDisk>> /\ Go(u, "start")
  /\ UNCHANGED <<tree, treeDisk, config, configDisk, link, supervised, at, staged, push,
                 backup, updates, broken>>

\* The old block goes, by rename; the file is emptied and filled again.
Hook(u) ==
  /\ step[u] = "hooking"
  /\ \/ hook = "whole" /\ WriteHook(None) /\ UNCHANGED step
     \/ hook = None /\ WriteHook("short") /\ UNCHANGED step
     \/ hook = "short" /\ WriteHook("whole") /\ Go(u, "start")
  /\ UNCHANGED <<tree, treeDisk, config, configDisk, link, supervised, at, staged, push,
                 backup, updates, broken>>

StartLogger(u) ==
  /\ step[u] = "start"
  /\ Exit(u)
  /\ broken' = IF Whole(staged[u]) THEN "no" ELSE broken
  /\ UNCHANGED <<device, supervised>>

Start(u) ==
  /\ step[u] = "start"
  /\ want' = "up"
  /\ Exit(u)
  /\ broken' = IF Whole(staged[u]) THEN "no" ELSE broken
  /\ UNCHANGED <<device, worker, loaded>>

\* A signal, or a command that fails: the update ends where it is.
Interrupt(u) ==
  /\ step[u] # "idle"
  /\ Exit(u)
  /\ broken' = "cut"
  /\ UNCHANGED <<device, supervised>>

(***************************************************************************)
(* Loss of power: /tmp and /service are in memory. Supervisors start their *)
(* services up, and the boot hook makes the link that is missing.          *)
(***************************************************************************)

WrittenBack == \A i \in All : treeDisk[i] = {tree[i]}

Reboot ==
  /\ ExitAll(Updaters)
  /\ broken' = IF \E u \in Updaters : step[u] # "idle" THEN "cut"
               ELSE IF broken = "no" /\ ~WrittenBack THEN "power" ELSE broken
  /\ tree' \in {t \in [All -> Versions \cup {None}] : \A i \in All : t[i] \in treeDisk[i]}
  /\ treeDisk' = [i \in All |-> {tree'[i]}]
  /\ config' \in configDisk /\ configDisk' = {config'}
  /\ hook' \in hookDisk /\ hookDisk' = {hook'}
  /\ Becomes("off") /\ want' = "up"
  /\ link' = IF hook' = "whole" /\ link # "other" THEN "own" ELSE None

\* setup UNINSTALL: the service and its traces go, the files stay. The worker
\* is killed, and nobody waits for its end.
Uninstall ==
  /\ \A u \in Updaters : step[u] = "idle"
  /\ link = "own"
  /\ Becomes("off") \/ (worker # "off" /\ Becomes("left"))
  /\ want' = "down" /\ link' = None
  /\ WriteHook(IF hook = "whole" THEN None ELSE hook)
  /\ UNCHANGED <<tree, treeDisk, config, configDisk, updater, broken>>

UpdateStep(u) ==
  Stopped(u) \/ KillWorker(u) \/ GiveUp(u) \/ Backup(u) \/ Skip(u) \/ Remove(u)
  \/ Copy(u) \/ Script(u) \/ Restore(u) \/ Push(u) \/ Link(u) \/ Hook(u) \/ Start(u)

=============================================================================
