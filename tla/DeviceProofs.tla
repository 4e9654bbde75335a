---------------------------- MODULE DeviceProofs ----------------------------
(***************************************************************************)
(* Proofs about Device: for any number of tokens, the worker presents only *)
(* a token that the server accepts, unless an answer was lost; and for any *)
(* number of items and releases, with one update at a time, the files      *)
(* change only under a stopped worker, a complete update leaves the        *)
(* release whole, and the worker runs a mixture of releases only after an  *)
(* update cut short, or a power failure before what it wrote was durable.  *)
(***************************************************************************)
EXTENDS Device, TLAPS

-----------------------------------------------------------------------------
(* The token. Of the device it sees the calls and the ends of a process.   *)

Owning == {"owner", "refreshing", "answered", "synced"}
Unsaved(p) == phase[p] \in {"answered", "synced"}

\* The owner holds the lock and works with the token in the file.
LockInv ==
  \A p \in Processes :
    /\ phase[p] \in Owning <=> holder = p
    /\ phase[p] \in Owning => token[p] = tokenFile
    /\ phase[p] = "refreshing" => tokenFile # 0

\* The token in the file is good, or its successor is on the way, or it is lost.
FileInv ==
  /\ tokenFile \in accepted \cup {0} \/ lost \/ \E p \in Processes : Unsaved(p)
  /\ \A p \in Processes : Unsaved(p) => answer[p] \in accepted

TokenShape ==
  /\ phase \in [Processes -> Phases]
  /\ token \in [Processes -> Nat] /\ answer \in [Processes -> Nat]
  /\ tokenFile \in Nat /\ flushed \in Nat /\ issued \in Nat /\ lost \in BOOLEAN

TokenInv == TokenShape /\ LockInv /\ FileInv

TokenNext ==
  \/ \E p \in Processes : Construct(p) \/ Refused(p) \/ TokenStep(p) \/ End(p)
  \/ WriteBack \/ LosePower

LEMMA TokenView == [Next]_vars => [TokenNext]_tokenVars
  BY DEF vars, Next, Supervisor, WorkerGone, Client, Login, Update, FileSystem, TokenNext,
     Processes

LEMMA InitToken == TokenInit => TokenInv
<1> SUFFICES ASSUME TokenInit  PROVE TokenInv
  OBVIOUS
<1>1. TokenShape
  BY DEF TokenInit, TokenShape, Phases
<1>2. \A p \in Processes : phase[p] = "off" /\ holder # p
  BY DEF TokenInit, Processes
<1>3. LockInv
  BY <1>2 DEF LockInv, Owning
<1>4. FileInv
  BY <1>2 DEF TokenInit, FileInv, Unsaved
<1> QED  BY <1>1, <1>3, <1>4 DEF TokenInv

LEMMA EndedKeeps ==
  ASSUME TokenInv, NEW p \in Processes, phase[p] # "off", Ended(p)
  PROVE  TokenInv'
<1> USE DEF TokenInv
<1>1. TokenShape'
  BY DEF Ended, To, Forgotten, files, server, TokenShape, Phases
<1>2. LockInv'
  BY DEF Ended, To, files, TokenShape, LockInv, Owning, Processes
<1>3. FileInv'
  <2>1. /\ \A q \in Processes : q # p => phase'[q] = phase[q] /\ answer'[q] = answer[q]
        /\ phase'[p] = "off" /\ tokenFile' = tokenFile /\ accepted' = accepted
        /\ lost' = Forgotten(p)
    BY DEF Ended, To, files, server, TokenShape
  <2>2. \A q \in Processes : Unsaved(q)' => answer'[q] \in accepted'
    BY <2>1 DEF FileInv, Unsaved
  <2>3. CASE Unsaved(p)
    <3>1. lost' = (lost \/ tokenFile \notin accepted)
      BY <2>1, <2>3 DEF Forgotten, Unsaved
    <3> QED  BY <2>1, <2>2, <3>1 DEF FileInv
  <2>4. CASE ~Unsaved(p)
    <3>1. lost' = lost
      BY <2>1, <2>4 DEF Forgotten, Unsaved, TokenShape
    <3>2. \A q \in Processes : Unsaved(q) => Unsaved(q)'
      BY <2>1, <2>4 DEF Unsaved
    <3> QED  BY <2>1, <2>2, <3>1, <3>2 DEF FileInv
  <2> QED  BY <2>3, <2>4
<1> QED  BY <1>1, <1>2, <1>3

LEMMA TokenStays == TokenInv /\ [TokenNext]_tokenVars => TokenInv'
<1> SUFFICES ASSUME TokenInv, [TokenNext]_tokenVars  PROVE TokenInv'
  OBVIOUS
<1> USE DEF TokenInv
<1>1. CASE UNCHANGED tokenVars
  BY <1>1 DEF tokenVars, files, server, TokenShape, LockInv, FileInv, Unsaved
<1>2. ASSUME NEW p \in Processes, Construct(p)  PROVE TokenInv'
  <2>1. TokenShape'
    BY <1>2 DEF Construct, To, files, server, TokenShape, Phases
  <2>2. LockInv'
    BY <1>2 DEF Construct, To, files, TokenShape, LockInv, Owning
  <2>3. FileInv'
    BY <1>2 DEF Construct, To, files, server, TokenShape, FileInv, Unsaved
  <2> QED  BY <2>1, <2>2, <2>3
<1>3. ASSUME NEW p \in Processes, Refused(p) \/ End(p)  PROVE TokenInv'
  BY <1>3, EndedKeeps DEF Refused, End
<1>4. ASSUME NEW p \in Processes, Acquire(p)  PROVE TokenInv'
  <2>1. TokenShape'
    BY <1>4 DEF Acquire, Locked, To, files, server, TokenShape, Phases
  <2>2. LockInv'
    BY <1>4 DEF Acquire, Locked, To, files, TokenShape, LockInv, Owning, Processes
  <2>3. FileInv'
    BY <1>4 DEF Acquire, Locked, To, files, server, TokenShape, FileInv, Unsaved
  <2> QED  BY <2>1, <2>2, <2>3
<1>5. ASSUME NEW p \in Processes, Refresh(p) \/ RefuseRefresh(p) \/ Sync(p)  PROVE TokenInv'
  <2>1. TokenShape'
    BY <1>5 DEF Refresh, RefuseRefresh, Sync, To, files, server, TokenShape, Phases
  <2>2. LockInv'
    BY <1>5 DEF Refresh, RefuseRefresh, Sync, To, files, TokenShape, LockInv, Owning
  <2>3. FileInv'
    BY <1>5 DEF Refresh, RefuseRefresh, Sync, To, files, server, TokenShape, FileInv, Unsaved
  <2> QED  BY <2>1, <2>2, <2>3
<1>6. ASSUME NEW p \in Processes, ServeRefresh(p)  PROVE TokenInv'
  <2>1. PICK t \in Nat : Answered(p, t) /\ t \in accepted' /\ issued' \in Nat
    BY <1>6 DEF ServeRefresh, server, TokenShape
  <2>2. phase[p] = "refreshing" /\ UNCHANGED <<files, holder, token, lost>>
    BY <1>6 DEF ServeRefresh
  <2>3. TokenShape'
    BY <2>1, <2>2 DEF Answered, To, files, TokenShape, Phases
  <2>4. LockInv'
    BY <2>1, <2>2 DEF Answered, To, files, TokenShape, LockInv, Owning
  <2>5. \A q \in Processes : q # p => ~Unsaved(q) /\ phase'[q] = phase[q]
    BY <2>1, <2>2 DEF LockInv, Owning, Unsaved, Answered, To, TokenShape
  <2>6. phase'[p] = "answered" /\ answer'[p] = t
    BY <2>1 DEF Answered, To, TokenShape
  <2>7. FileInv'
    BY <2>1, <2>5, <2>6 DEF FileInv, Unsaved
  <2> QED  BY <2>3, <2>4, <2>7
<1>7. ASSUME NEW p \in Processes, SignIn(p)  PROVE TokenInv'
  <2>1. phase[p] = "owner" /\ UNCHANGED <<files, lost>>
    BY <1>7 DEF SignIn
  <2>2. \A q \in Processes : q # p => phase[q] \notin Owning /\ holder = p
    BY <2>1 DEF LockInv, Owning
  <2>3. CASE Answered(p, issued + 1) /\ issued' = issued + 1 /\ issued + 1 \in accepted'
    <3>1. UNCHANGED <<holder, token>>
      BY <1>7, <2>1, <2>3 DEF SignIn, Answered, To, TokenShape
    <3>2. TokenShape'
      BY <2>1, <2>3, <3>1 DEF Answered, To, files, TokenShape, Phases
    <3>3. LockInv'
      BY <2>1, <2>3, <3>1 DEF Answered, To, files, TokenShape, LockInv, Owning
    <3>4. phase'[p] = "answered" /\ answer'[p] = issued + 1
      BY <2>3 DEF Answered, To, TokenShape
    <3>5. \A q \in Processes : q # p => ~Unsaved(q)'
      BY <2>2, <2>3 DEF Unsaved, Owning, Answered, To, TokenShape
    <3> QED  BY <2>3, <3>2, <3>3, <3>4, <3>5 DEF FileInv, Unsaved
  <2>4. CASE To(p, "off") /\ UNCHANGED <<answer, server>>
    <3>1. holder' = "nobody" /\ token' = [token EXCEPT ![p] = 0]
      BY <1>7, <2>4 DEF SignIn, To, TokenShape
    <3>2. TokenShape'
      BY <2>1, <2>4, <3>1 DEF To, files, server, TokenShape, Phases
    <3>3. LockInv'
      BY <2>1, <2>2, <2>4, <3>1 DEF To, files, TokenShape, LockInv, Owning, Processes
    <3>4. FileInv'
      BY <2>1, <2>4 DEF To, files, server, TokenShape, FileInv, Unsaved
    <3> QED  BY <3>2, <3>3, <3>4
  <2> QED  BY <1>7, <2>3, <2>4 DEF SignIn
<1>8. ASSUME NEW p \in Processes, Fail(p)  PROVE TokenInv'
  <2>1. TokenShape'
    BY <1>8 DEF Fail, To, Forgotten, files, server, TokenShape, Phases
  <2>2. LockInv'
    BY <1>8 DEF Fail, To, files, TokenShape, LockInv, Owning
  <2>3. FileInv'
    BY <1>8 DEF Fail, To, Forgotten, files, server, TokenShape, LockInv, FileInv, Unsaved, Owning
  <2> QED  BY <2>1, <2>2, <2>3
<1>9. ASSUME NEW p \in Processes, Rename(p)  PROVE TokenInv'
  <2>1. TokenShape'
    BY <1>9 DEF Rename, To, server, TokenShape, Phases
  <2>2. LockInv'
    BY <1>9 DEF Rename, To, TokenShape, LockInv, Owning
  <2>3. FileInv'
    BY <1>9 DEF Rename, To, server, TokenShape, LockInv, FileInv, Unsaved, Owning
  <2> QED  BY <2>1, <2>2, <2>3
<1>10. CASE WriteBack
  BY <1>10 DEF WriteBack, server, TokenShape, LockInv, FileInv, Unsaved
<1>11. CASE LosePower
  <2>1. \A p \in Processes : phase'[p] = "off" /\ holder' # p
    BY <1>11 DEF LosePower, Processes
  <2>2. TokenShape'
    BY <1>11 DEF LosePower, server, TokenShape, Phases
  <2>3. LockInv'
    BY <2>1 DEF LockInv, Owning
  <2>4. FileInv'
    BY <1>11, <2>1 DEF LosePower, server, FileInv, Unsaved
  <2> QED  BY <2>2, <2>3, <2>4
<1> QED
  BY <1>1, <1>2, <1>3, <1>4, <1>5, <1>6, <1>7, <1>8, <1>9, <1>10, <1>11 DEF TokenNext, TokenStep

LEMMA Unspent == TokenInv => NoSpentToken
<1> SUFFICES ASSUME TokenInv, NEW p \in Processes, phase[p] = "refreshing"
             PROVE  token[p] \in accepted \/ lost
  BY DEF NoSpentToken
<1>1. token[p] = tokenFile /\ tokenFile # 0 /\ holder = p
  BY DEF TokenInv, LockInv, Owning
<1>2. \A q \in Processes : ~Unsaved(q)
  BY <1>1 DEF TokenInv, LockInv, Owning, Unsaved
<1> QED  BY <1>1, <1>2 DEF TokenInv, FileInv

\* PrivateTokenStore.acquire reads the file again under the lock: whoever held
\* it before, and however processes end in between, a refresh presents a token
\* that the server still accepts, unless an answer was lost before its rename.
THEOREM TokenUnspent == Spec => []NoSpentToken
<1>1. Init => TokenInv
  BY InitToken DEF Init
<1>2. TokenInv /\ [Next]_vars => TokenInv'
  BY TokenView, TokenStays
<1> QED  BY <1>1, <1>2, Unspent, PTL DEF Spec

-----------------------------------------------------------------------------
(* The update, when one runs at a time. Of the token it sees nothing.      *)

Changing == {"backup", "remove", "copy", "restore", "restoring", "pushing", "linking"}
Replacing == {"remove", "copy"}
Replaced == {"restore", "restoring", "pushing", "linking", "hooking", "start"}
Linked == {"hooking", "start"}

InstallShape ==
  /\ tree \in [All -> Versions \cup {None}]
  /\ link \in {None, "own"} /\ broken \in {"no", "power", "cut"}
  /\ step \in [Updaters -> Steps] /\ at \in [Updaters -> Nat]
  /\ staged \in [Updaters -> [All -> Versions \cup {None}]]
  /\ push \in [Updaters -> BOOLEAN]
  /\ backup \in [Updaters -> {"device", "developer", "short"}]
  /\ config \in {"device", "developer", "short"}
  /\ configDisk \subseteq {"device", "developer", "short"}

\* Nothing starts the worker while an update changes what it runs from.
DownInv(u) ==
  /\ link # "own" => Ending
  /\ step[u] \in {"stopping", "killed"} => want = "down"
  /\ step[u] \in Changing => Ending /\ (want = "down" \/ link # "own")

\* Without an update that ended early the tree is whole; an update from a whole
\* release makes it that release, item by item.
TreeInv(u) ==
  /\ broken = "no" => IF step[u] = "idle" THEN Whole(tree) ELSE Whole(staged[u])
  /\ step[u] \in Replacing => at[u] \in 1 .. Items + 1
  /\ step[u] = "copy" => at[u] <= Items
  /\ Whole(staged[u]) =>
       /\ step[u] \in Replacing => \A i \in All : 0 < i /\ i < at[u] => tree[i] = staged[u][i]
       /\ step[u] \in Replaced => tree = staged[u]

\* What the worker runs from.
LoadedInv(u) ==
  /\ worker = "on" /\ broken = "no" => Whole(loaded)
  /\ worker = "on" /\ step[u] \in Linked => loaded = tree

\* What an update has done when it comes to its end.
EndInv(u) ==
  /\ step[u] = "pushing" => push[u]
  /\ step[u] \in {"linking", "hooking", "start"} =>
       config = IF push[u] THEN "developer" ELSE backup[u]
  /\ step[u] \in Linked => link = "own"
  /\ step[u] = "start" => hook = "whole"

InstallInv(u) == InstallShape /\ DownInv(u) /\ TreeInv(u) /\ LoadedInv(u) /\ EndInv(u)

InstallNext ==
  \/ WriteFilesBack \/ StartWorker \/ EndWorker \/ HangWorker \/ Uninstall \/ Reboot
  \/ \E u \in Updaters : Begin(u) \/ Interrupt(u) \/ UpdateStep(u)

LEMMA InstallView == [Next]_vars => [InstallNext]_installVars
  BY DEF vars, Next, Supervisor, Client, Login, Update, FileSystem, InstallNext

LEMMA InstallConstants ==
  /\ Items \in Nat /\ Items > 0 /\ None \notin Versions
  /\ All = 0 .. Items /\ 0 \in All
  BY ItemsAssumption, VersionsAssumption DEF All

LEMMA EmptyType == Empty \in [All -> Versions \cup {None}]
  BY DEF Empty

\* A whole release has every item.
LEMMA WholeFacts ==
  ASSUME NEW m, Whole(m), NEW i \in All
  PROVE  m[i] # None /\ m[i] \in Versions
  BY InstallConstants DEF Whole

LEMMA InitInstall ==
  ASSUME NEW u, Updaters = {u}, InstallInit
  PROVE  InstallInv(u)
<1>1. InstallShape
  BY EmptyType DEF InstallInit, InstallShape, Steps
<1>2. /\ step[u] = "idle" /\ worker = "off" /\ link = "own"
      /\ broken = "no" => Whole(tree)
  BY VersionsAssumption DEF InstallInit, Whole
<1>3. DownInv(u) /\ LoadedInv(u) /\ EndInv(u)
  BY <1>2 DEF DownInv, LoadedInv, EndInv, Linked, Changing
<1>4. TreeInv(u)
  BY <1>2 DEF TreeInv, Replacing, Replaced
<1> QED  BY <1>1, <1>3, <1>4 DEF InstallInv

\* An update that ends leaves nothing of its own.
LEMMA ExitFacts ==
  ASSUME NEW u, Updaters = {u}, InstallShape, ExitAll({u})
  PROVE  /\ step'[u] = "idle"
         /\ step' \in [Updaters -> Steps] /\ at' \in [Updaters -> Nat]
         /\ staged' \in [Updaters -> [All -> Versions \cup {None}]]
         /\ push' \in [Updaters -> BOOLEAN]
         /\ backup' \in [Updaters -> {"device", "developer", "short"}]
  BY EmptyType DEF ExitAll, InstallShape, Steps

\* The steps of an update that leave its tree and its copies alone.
LEMMA SupervisorStep ==
  ASSUME NEW u, Updaters = {u}, InstallInv(u), StartWorker \/ EndWorker \/ HangWorker
  PROVE  InstallInv(u)'
<1> USE DEF InstallInv, device, disk, updater, Becomes
<1>1. InstallShape' /\ TreeInv(u)' /\ EndInv(u)'
  <2>1. UNCHANGED <<tree, config, configDisk, link, hook, step, at, staged, push, backup, broken>>
    BY DEF StartWorker, EndWorker, HangWorker
  <2>2. InstallShape'
    BY <2>1 DEF InstallShape
  <2>3. TreeInv(u)'
    BY <2>1 DEF TreeInv, Whole
  <2>4. EndInv(u)'
    BY <2>1 DEF EndInv
  <2> QED  BY <2>2, <2>3, <2>4
<1>2. DownInv(u)'
  <2>1. CASE StartWorker
    BY <2>1 DEF StartWorker, DownInv, Ending
  <2>2. CASE EndWorker \/ HangWorker
    BY <2>2 DEF EndWorker, HangWorker, DownInv, Ending
  <2> QED  BY <2>1, <2>2
<1>3. LoadedInv(u)'
  <2>1. CASE StartWorker
    <3>1. step[u] \notin Changing \cup {"stopping", "killed"} /\ loaded' = tree
          /\ UNCHANGED <<tree, step, broken>>
      BY <2>1 DEF StartWorker, DownInv
    <3>2. step[u] = "idle" \/ step[u] \in Linked
      BY <3>1 DEF InstallShape, Steps, Changing, Linked
    <3>3. broken = "no" => Whole(tree)
      BY <3>2 DEF TreeInv, Linked, Replaced
    <3> QED  BY <3>1, <3>3 DEF LoadedInv
  <2>2. CASE EndWorker \/ HangWorker
    BY <2>2 DEF EndWorker, HangWorker, LoadedInv
  <2> QED  BY <2>1, <2>2
<1> QED  BY <1>1, <1>2, <1>3

\* An update ends early, the device restarts, or the package is removed.
LEMMA EndStep ==
  ASSUME NEW u, Updaters = {u}, InstallInv(u),
         Interrupt(u) \/ GiveUp(u) \/ Reboot \/ Uninstall
  PROVE  InstallInv(u)'
<1> USE DEF InstallInv, device, disk, supervised, updater, Becomes, Ending
<1>1. CASE Interrupt(u) \/ GiveUp(u)
  <2>1. /\ ExitAll({u}) /\ broken' = "cut"
        /\ UNCHANGED <<tree, config, configDisk, link, hook, want, worker, loaded>>
    BY <1>1 DEF Interrupt, GiveUp, Exit
  <2>2. step'[u] = "idle" /\ InstallShape'
    BY <2>1, ExitFacts DEF InstallShape
  <2> QED  BY <2>1, <2>2 DEF DownInv, TreeInv, LoadedInv, EndInv, Changing, Replacing, Replaced, Linked,
           Whole
<1>2. CASE Reboot
  <2>1. /\ ExitAll({u}) /\ worker' = "off" /\ link' \in {None, "own"}
        /\ tree' \in [All -> Versions \cup {None}]
        /\ \A i \in All : tree'[i] \in treeDisk[i]
        /\ config' \in configDisk /\ configDisk' = {config'}
    BY <1>2 DEF Reboot
  <2>2. broken' = IF step[u] # "idle" THEN "cut"
                  ELSE IF broken = "no" /\ ~WrittenBack THEN "power" ELSE broken
    BY <1>2 DEF Reboot
  <2>3. step'[u] = "idle" /\ InstallShape'
    BY <2>1, <2>2, ExitFacts DEF InstallShape
  <2>4. broken' = "no" => Whole(tree')
    <3>1. SUFFICES ASSUME broken' = "no"  PROVE Whole(tree')
      OBVIOUS
    <3>2. step[u] = "idle" /\ broken = "no" /\ WrittenBack
      BY <2>2, <3>1
    <3>3. tree' = tree
      BY <2>1, <3>2 DEF WrittenBack, InstallShape
    <3> QED  BY <3>2, <3>3 DEF TreeInv
  <2> QED  BY <2>1, <2>3, <2>4 DEF DownInv, TreeInv, LoadedInv, EndInv, Changing, Replacing, Replaced,
           Linked
<1>3. CASE Uninstall
  <2>1. /\ step[u] = "idle" /\ worker' \in {"off", "left"} /\ link' = None
        /\ UNCHANGED <<tree, config, configDisk, step, at, staged, push, backup, broken>>
    BY <1>3 DEF Uninstall
  <2> QED  BY <2>1 DEF InstallShape, DownInv, TreeInv, LoadedInv, EndInv, Changing, Replacing, Replaced,
           Linked, Whole
<1> QED  BY <1>1, <1>2, <1>3

\* An update before it changes anything.
LEMMA StopStep ==
  ASSUME NEW u, Updaters = {u}, InstallInv(u),
         Begin(u) \/ Stopped(u) \/ KillWorker(u) \/ Backup(u)
  PROVE  InstallInv(u)'
<1> USE DEF InstallInv, device, disk, supervised, Ending
<1>1. CASE Begin(u)
  <2>1. PICK source \in {[i \in All |-> v] : v \in Versions} \cup {tree} :
          staged' = [staged EXCEPT ![u] = source]
    BY <1>1 DEF Begin
  <2>2. /\ step[u] = "idle" /\ push' \in [Updaters -> BOOLEAN]
        /\ UNCHANGED <<tree, config, configDisk, link, hook, worker, loaded, at, backup, broken>>
    <3>1. \E p \in BOOLEAN : push' = [push EXCEPT ![u] = p]
      BY <1>1 DEF Begin
    <3> QED  BY <1>1, <3>1 DEF Begin, InstallShape
  <2>3. \/ link = "own" /\ want' = "down" /\ Go(u, "stopping")
        \/ link = None /\ UNCHANGED want /\ Go(u, "backup")
    BY <1>1 DEF Begin
  <2>4. source \in [All -> Versions \cup {None}] /\ (source = tree \/ Whole(source))
    BY DEF InstallShape, Whole
  <2>5. InstallShape' /\ staged'[u] = source
    BY <2>1, <2>2, <2>3, <2>4 DEF InstallShape, Go, Steps
  <2>6. /\ step'[u] \in {"stopping", "backup"}
        /\ step'[u] = "stopping" => want' = "down"
        /\ step'[u] = "backup" => link = None
    BY <2>3 DEF Go, InstallShape
  <2>7. DownInv(u)'
    BY <2>2, <2>6 DEF DownInv, Changing, None
  <2>8. broken = "no" => Whole(source)
    BY <2>2, <2>4 DEF TreeInv
  <2>9. TreeInv(u)'
    BY <2>2, <2>5, <2>6, <2>8 DEF TreeInv, Replacing, Replaced, Whole
  <2>10. LoadedInv(u)' /\ EndInv(u)'
    BY <2>2, <2>6 DEF LoadedInv, EndInv, Linked, Whole
  <2> QED  BY <2>5, <2>7, <2>9, <2>10
<1>2. CASE Stopped(u)
  <2>1. /\ step[u] \in {"stopping", "killed"} /\ worker = "off" /\ step'[u] = "backup"
        /\ step' \in [Updaters -> Steps]
        /\ UNCHANGED <<tree, config, configDisk, link, hook, want, worker, loaded, at, staged,
                       push, backup, broken>>
    BY <1>2 DEF Stopped, Go, InstallShape, Steps
  <2> QED  BY <2>1 DEF InstallShape, DownInv, TreeInv, LoadedInv, EndInv, Replacing, Replaced, Linked, Whole
<1>3. CASE KillWorker(u)
  <2>1. /\ step[u] = "stopping" /\ worker # "off" /\ step'[u] = "killed"
        /\ step' \in [Updaters -> Steps]
        /\ worker' \in {"off", IF worker = "left" THEN "left" ELSE "stuck"}
        /\ UNCHANGED <<tree, config, configDisk, link, hook, want, at, staged, push, backup, broken>>
    BY <1>3 DEF KillWorker, Becomes, Go, InstallShape, Steps
  <2> QED  BY <2>1 DEF InstallShape, DownInv, TreeInv, LoadedInv, EndInv, Changing, Replacing, Replaced,
           Linked, Whole
<1>4. CASE Backup(u)
  <2>1. /\ step[u] = "backup" /\ step'[u] = "remove" /\ at'[u] = 1
        /\ step' \in [Updaters -> Steps] /\ at' \in [Updaters -> Nat]
        /\ backup' \in [Updaters -> {"device", "developer", "short"}]
        /\ UNCHANGED <<tree, config, configDisk, link, hook, want, worker, loaded, staged,
                       push, broken>>
    BY <1>4 DEF Backup, Go, InstallShape, Steps
  <2>2. InstallShape' /\ DownInv(u)'
    BY <2>1 DEF InstallShape, DownInv, Changing
  <2>3. LoadedInv(u)' /\ EndInv(u)'
    BY <2>1 DEF LoadedInv, EndInv, Linked, Whole
  <2>4. TreeInv(u)'
    BY <2>1, InstallConstants DEF TreeInv, Replacing, Replaced, Whole
  <2> QED  BY <2>2, <2>3, <2>4
<1> QED  BY <1>1, <1>2, <1>3, <1>4

\* An update replaces the items, one by one.
LEMMA ReplaceStep ==
  ASSUME NEW u, Updaters = {u}, InstallInv(u), Skip(u) \/ Remove(u) \/ Copy(u) \/ Script(u)
  PROVE  InstallInv(u)' /\ Ending /\ Ending'
<1> USE DEF InstallInv, device, disk, supervised, WriteItem
<1>1. /\ step[u] \in Replacing /\ Ending /\ (want = "down" \/ link # "own")
      /\ UNCHANGED <<config, configDisk, link, hook, want, worker, loaded, staged, push, backup, broken>>
  BY DEF Skip, Remove, Copy, Script, Replacing, DownInv, Changing
<1>2. /\ step' \in [Updaters -> Steps] /\ at' \in [Updaters -> Nat]
      /\ step'[u] \in Replacing \cup {"restore"}
  BY DEF Skip, Remove, Copy, Script, Go, InstallShape, Steps, Replacing
<1>3. at[u] \in Nat /\ at[u] \in 1 .. Items + 1 /\ staged[u] \in [All -> Versions \cup {None}]
  BY <1>1 DEF TreeInv, InstallShape
<1>4. tree' \in [All -> Versions \cup {None}]
  <2>1. CASE Skip(u)
    BY <2>1 DEF Skip, InstallShape
  <2>2. CASE Remove(u)
    BY <2>2 DEF Remove, InstallShape
  <2>3. CASE Copy(u)
    <3>1. at[u] \in All
      BY <1>3, <2>3, InstallConstants DEF Copy, TreeInv
    <3> QED  BY <1>3, <2>3, <3>1 DEF Copy, InstallShape
  <2>4. CASE Script(u)
    BY <1>3, <2>4, InstallConstants DEF Script, InstallShape
  <2> QED  BY <2>1, <2>2, <2>3, <2>4
<1>5. InstallShape'
  BY <1>1, <1>2, <1>4 DEF InstallShape
<1>6. DownInv(u)' /\ LoadedInv(u)' /\ EndInv(u)'
  BY <1>1, <1>2 DEF DownInv, LoadedInv, EndInv, Linked, Replacing, Whole, Ending
<1>7. broken = "no" => Whole(staged[u])
  BY <1>1 DEF TreeInv, Replacing
<1>8. TreeInv(u)'
  <2>1. CASE Skip(u)
    <3>1. /\ at'[u] = at[u] + 1 /\ at[u] <= Items /\ step'[u] = "remove" /\ tree' = tree
          /\ ~Whole(staged[u])
      BY <1>3, <2>1, WholeFacts, InstallConstants DEF Skip, InstallShape
    <3>2. broken' # "no" /\ ~Whole(staged[u])'
      BY <1>1, <1>7, <3>1 DEF Whole
    <3>3. at'[u] \in 1 .. Items + 1
      BY <1>3, <3>1, InstallConstants
    <3> QED  BY <3>1, <3>2, <3>3 DEF TreeInv
  <2>2. CASE Remove(u)
    <3>1. /\ at' = at /\ at[u] <= Items /\ step[u] = "remove" /\ step'[u] = "copy"
          /\ \A i \in All : i # at[u] => tree'[i] = tree[i]
      BY <2>2 DEF Remove, Go, InstallShape
    <3>2. Whole(staged[u]) => \A i \in All : 0 < i /\ i < at[u] => tree'[i] = staged[u][i]
      BY <1>3, <3>1, InstallConstants DEF TreeInv, Replacing
    <3> QED  BY <1>1, <1>3, <1>7, <3>1, <3>2 DEF TreeInv, Replacing, Replaced, Whole
  <2>3. CASE Copy(u)
    <3>1. /\ at'[u] = at[u] + 1 /\ at[u] <= Items /\ step[u] = "copy" /\ step'[u] = "remove"
          /\ at[u] \in All /\ tree' = [tree EXCEPT ![at[u]] = staged[u][at[u]]]
      BY <1>3, <2>3, InstallConstants DEF Copy, Go, InstallShape, TreeInv
    <3>2. Whole(staged[u]) => \A i \in All : 0 < i /\ i < at'[u] => tree'[i] = staged[u][i]
      BY <1>3, <3>1, InstallConstants DEF TreeInv, Replacing, InstallShape
    <3> QED  BY <1>1, <1>3, <1>7, <3>1, <3>2, InstallConstants DEF TreeInv, Replacing, Replaced, Whole
  <2>4. CASE Script(u)
    <3>1. /\ at[u] > Items /\ step[u] = "remove" /\ step'[u] = "restore"
          /\ tree' = [tree EXCEPT ![0] = staged[u][0]]
      BY <2>4 DEF Script, Go, InstallShape
    <3>2. ASSUME Whole(staged[u])  PROVE tree' = staged[u]
      <4>1. ASSUME NEW i \in All  PROVE tree'[i] = staged[u][i]
        <5>1. CASE i = 0
          BY <3>1, <5>1, InstallConstants DEF InstallShape
        <5>2. CASE i # 0
          BY <1>3, <3>1, <3>2, <4>1, <5>2, InstallConstants DEF InstallShape, TreeInv, Replacing
        <5> QED  BY <5>1, <5>2
      <4> QED  BY <1>3, <1>4, <4>1
    <3> QED  BY <1>1, <1>7, <3>1, <3>2 DEF TreeInv, Replacing, Replaced, Whole
  <2> QED  BY <2>1, <2>2, <2>3, <2>4
<1> QED  BY <1>1, <1>5, <1>6, <1>8 DEF Ending

\* An update gives the configuration back and makes the link and the hook.
LEMMA FinishStep ==
  ASSUME NEW u, Updaters = {u}, InstallInv(u), Restore(u) \/ Push(u) \/ Link(u) \/ Hook(u)
  PROVE  /\ InstallInv(u)'
         /\ config' # config => Ending /\ Ending'
         /\ tree' = tree
<1> USE DEF InstallInv, device, disk, supervised, WriteConfig, WriteHook, Ending
<1>1. /\ step[u] \in Replaced
      /\ UNCHANGED <<tree, want, worker, loaded, at, staged, push, backup, broken>>
  BY DEF Restore, Push, Link, Hook, Replaced
<1>2. push[u] \in BOOLEAN /\ backup[u] \in {"device", "developer", "short"}
  BY DEF InstallShape
<1>3. step' \in [Updaters -> Steps] /\ step'[u] \in Replaced
  BY DEF Restore, Push, Link, Hook, Go, InstallShape, Steps, Replaced
<1>4. /\ config' \in {"device", "developer", "short"} /\ link' \in {None, "own"}
      /\ configDisk' \subseteq {"device", "developer", "short"}
  BY <1>2 DEF Restore, Push, Link, Hook, InstallShape
<1>5. InstallShape'
  BY <1>1, <1>3, <1>4 DEF InstallShape
<1>6. TreeInv(u)'
  BY <1>1, <1>3 DEF TreeInv, Replacing, Replaced, Whole
<1>7. CASE Restore(u) \/ Push(u)
  <2>1. /\ step[u] \in {"restore", "restoring", "pushing"} /\ UNCHANGED <<link, hook>>
        /\ step'[u] \in {"restoring", "pushing", "linking"}
    BY <1>2, <1>7 DEF Restore, Push, Go, InstallShape
  <2>2. Ending /\ (want = "down" \/ link # "own")
    BY <2>1 DEF DownInv, Changing
  <2>3. DownInv(u)' /\ LoadedInv(u)'
    BY <1>1, <2>1, <2>2 DEF DownInv, LoadedInv, Changing, Linked
  <2>4. /\ step'[u] = "pushing" => push[u]
        /\ step'[u] = "linking" => config' = IF push[u] THEN "developer" ELSE backup[u]
    BY <1>2, <1>7 DEF Restore, Push, Go, InstallShape, EndInv
  <2>5. EndInv(u)'
    BY <1>1, <2>1, <2>4 DEF EndInv, Linked
  <2> QED  BY <1>1, <1>5, <1>6, <2>2, <2>3, <2>5
<1>8. CASE Link(u)
  <2>1. /\ step[u] = "linking" /\ step'[u] = "hooking" /\ link' = "own"
        /\ UNCHANGED <<config, hook>>
    BY <1>8 DEF Link, Go, InstallShape
  <2>2. Ending
    BY <2>1 DEF DownInv, Changing
  <2>3. DownInv(u)' /\ LoadedInv(u)' /\ EndInv(u)'
    BY <1>1, <2>1, <2>2 DEF DownInv, LoadedInv, EndInv, Changing, Linked
  <2> QED  BY <1>1, <1>5, <1>6, <2>1, <2>3
<1>9. CASE Hook(u)
  <2>1. /\ step[u] = "hooking" /\ step'[u] \in {"hooking", "start"} /\ UNCHANGED <<config, link>>
        /\ step'[u] = "start" => hook' = "whole"
    BY <1>9 DEF Hook, Go, InstallShape
  <2>2. DownInv(u)' /\ LoadedInv(u)' /\ EndInv(u)'
    BY <1>1, <2>1 DEF DownInv, LoadedInv, EndInv, Changing, Linked, Whole
  <2> QED  BY <1>1, <1>5, <1>6, <2>1, <2>2
<1> QED  BY <1>7, <1>8, <1>9

\* What a complete update leaves.
LEMMA StartStep ==
  ASSUME NEW u, Updaters = {u}, InstallInv(u), Start(u)
  PROVE  /\ InstallInv(u)'
         /\ Whole(staged[u]) => tree = staged[u]
         /\ config = IF push[u] THEN "developer" ELSE backup[u]
         /\ link = "own" /\ hook = "whole"
<1> USE DEF InstallInv, device, disk, Ending
<1>1. /\ step[u] = "start" /\ ExitAll({u})
      /\ broken' = IF Whole(staged[u]) THEN "no" ELSE broken
      /\ UNCHANGED <<tree, config, configDisk, link, hook, worker, loaded>>
  BY DEF Start, Exit
<1>2. /\ Whole(staged[u]) => tree = staged[u]
      /\ worker = "on" => loaded = tree
      /\ config = IF push[u] THEN "developer" ELSE backup[u]
      /\ link = "own" /\ hook = "whole"
  BY <1>1 DEF TreeInv, LoadedInv, EndInv, Replaced, Linked
<1>3. step'[u] = "idle" /\ InstallShape'
  <2>1. broken' \in {"no", "power", "cut"}
    BY <1>1 DEF InstallShape
  <2> QED  BY <1>1, <2>1, ExitFacts DEF InstallShape
<1>4. broken' = "no" => Whole(staged[u])
  BY <1>1 DEF TreeInv
<1>5. DownInv(u)' /\ EndInv(u)'
  BY <1>1, <1>2, <1>3 DEF DownInv, EndInv, Changing, Linked
<1>6. TreeInv(u)' /\ LoadedInv(u)'
  BY <1>1, <1>2, <1>3, <1>4 DEF TreeInv, LoadedInv, Replacing, Replaced, Linked, Whole
<1> QED  BY <1>2, <1>3, <1>5, <1>6

LEMMA InstallStays ==
  ASSUME NEW u, Updaters = {u}
  PROVE  InstallInv(u) /\ [InstallNext]_installVars => InstallInv(u)'
<1> SUFFICES ASSUME InstallInv(u), [InstallNext]_installVars  PROVE InstallInv(u)'
  OBVIOUS
<1>1. CASE UNCHANGED installVars
  BY <1>1 DEF installVars, device, disk, supervised, updater, InstallInv, InstallShape, DownInv,
     TreeInv, LoadedInv, EndInv, Whole, Ending
<1>2. CASE StartWorker \/ EndWorker \/ HangWorker
  BY <1>2, SupervisorStep
<1>3. CASE Reboot \/ Uninstall
  BY <1>3, EndStep
<1>4. CASE Begin(u) \/ Interrupt(u) \/ UpdateStep(u)
  <2>1. CASE Interrupt(u) \/ GiveUp(u)
    BY <2>1, EndStep
  <2>2. CASE Begin(u) \/ Stopped(u) \/ KillWorker(u) \/ Backup(u)
    BY <2>2, StopStep
  <2>3. CASE Skip(u) \/ Remove(u) \/ Copy(u) \/ Script(u)
    BY <2>3, ReplaceStep
  <2>4. CASE Restore(u) \/ Push(u) \/ Link(u) \/ Hook(u)
    BY <2>4, FinishStep
  <2> QED  BY <1>4, <2>1, <2>2, <2>3, <2>4, StartStep DEF UpdateStep
<1>5. CASE WriteFilesBack
  <2>1. InstallShape'
    BY <1>5 DEF WriteFilesBack, supervised, updater, InstallInv, InstallShape
  <2>2. DownInv(u)' /\ TreeInv(u)' /\ LoadedInv(u)' /\ EndInv(u)'
    BY <1>5 DEF WriteFilesBack, supervised, updater, InstallInv, DownInv, TreeInv, LoadedInv, EndInv,
       Whole, Ending
  <2> QED  BY <2>1, <2>2 DEF InstallInv
<1> QED  BY <1>1, <1>2, <1>3, <1>4, <1>5 DEF InstallNext

\* Power apart, the files and the configuration change under a stopped worker.
LEMMA ChangesStopped ==
  ASSUME NEW u, Updaters = {u}, InstallInv(u), [InstallNext]_installVars,
         tree' # tree \/ config' # config, ~Reboot
  PROVE  Ending /\ Ending'
<1> USE DEF device, disk, supervised, updater
<1>1. CASE Skip(u) \/ Remove(u) \/ Copy(u) \/ Script(u)
  BY <1>1, ReplaceStep
<1>2. CASE Restore(u) \/ Push(u) \/ Link(u) \/ Hook(u)
  BY <1>2, FinishStep
<1>3. Skip(u) \/ Remove(u) \/ Copy(u) \/ Script(u) \/ Restore(u) \/ Push(u) \/ Link(u) \/ Hook(u)
  BY DEF installVars, InstallNext, WriteFilesBack, StartWorker, EndWorker, HangWorker, Uninstall,
     Begin, Interrupt, UpdateStep, Stopped, KillWorker, GiveUp, Backup, Start
<1> QED  BY <1>1, <1>2, <1>3

LEMMA InstallAlways ==
  ASSUME NEW u, Updaters = {u}
  PROVE  Spec => []InstallInv(u)
<1>1. Init => InstallInv(u)
  BY InitInstall DEF Init
<1>2. InstallInv(u) /\ [Next]_vars => InstallInv(u)'
  BY InstallView, InstallStays
<1> QED  BY <1>1, <1>2, PTL DEF Spec

\* update.sh stops the service before it changes anything and starts it at the
\* end: one update at a time changes the worker's files and its configuration
\* only while the worker is down.
THEOREM UpdatesStopped ==
  ASSUME NEW u, Updaters = {u}
  PROVE  Spec => StoppedWhileChanging
<1>1. InstallInv(u) /\ [Next]_vars =>
        [tree' # tree \/ config' # config => (Ending /\ Ending') \/ Reboot]_vars
  BY InstallView, ChangesStopped
<1> QED  BY <1>1, InstallAlways, PTL DEF Spec, StoppedWhileChanging

\* However updates end, run again and reuse the installed tree, and whatever a
\* loss of power undoes of what was not written back: the worker runs a mixture
\* of releases only between an update cut short, or one that the power failed
\* before its files were durable, and the next complete one.
THEOREM NeverMixed ==
  ASSUME NEW u, Updaters = {u}
  PROVE  Spec => []NoMixture
<1>1. InstallInv(u) => NoMixture
  BY DEF InstallInv, LoadedInv, NoMixture
<1> QED  BY <1>1, InstallAlways, PTL

\* A complete update from a whole release leaves it whole, with the right
\* configuration, the link and the boot hook.
THEOREM UpdatesComplete ==
  ASSUME NEW one, Updaters = {one}
  PROVE  Spec => WholeAfterUpdate
<1>1. InstallInv(one) => \A u \in Updaters : Start(u) =>
       /\ Whole(staged[u]) => tree = staged[u]
       /\ config = IF push[u] THEN "developer" ELSE backup[u]
       /\ link = "own" /\ hook = "whole"
  BY StartStep
<1>2. InstallInv(one) /\ [Next]_vars => [\A u \in Updaters : Start(u) =>
       /\ Whole(staged[u]) => tree = staged[u]
       /\ config = IF push[u] THEN "developer" ELSE backup[u]
       /\ link = "own" /\ hook = "whole"]_vars
  BY <1>1
<1>3. Init => InstallInv(one)
  BY InitInstall DEF Init
<1>4. InstallInv(one) /\ [Next]_vars => InstallInv(one)'
  BY InstallView, InstallStays
<1> QED  BY <1>2, <1>3, <1>4, PTL DEF Spec, WholeAfterUpdate

=============================================================================
