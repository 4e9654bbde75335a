--------------------------- MODULE TokenStore ---------------------------
(***************************************************************************)
(* The private Mercedes token (dbus_ev/mercedes/store.py), shared by the   *)
(* worker and the standalone login, with the OAuth calls that replace it   *)
(* (dbus_ev/mercedes/vendor/oauth.py). The refresh token rotates: a server *)
(* that hands out its successor may refuse it from then on, so a copy read *)
(* before another owner's refresh is spent, and an answer that does not    *)
(* reach the file is a token lost.                                         *)
(*                                                                         *)
(* The file is written beside the old one, synchronised and renamed; the   *)
(* rename itself is not synchronised, so a loss of power may undo it.      *)
(***************************************************************************)
EXTENDS Naturals

CONSTANT MaxTokens   \* bound on the tokens the server ever issues

ASSUME TokensAssumption == MaxTokens \in Nat

VARIABLES
  tokenFile,   \* the refresh token in the file, 0 for none
  flushed,     \* the token a loss of power would leave in the file
  holder,      \* the owner of the lock beside the file
  phase,       \* where each process is
  token,       \* the refresh token each process has in memory
  answer,      \* the token of an answer not saved yet
  issued,      \* the tokens issued so far, numbered
  accepted,    \* those the server still accepts
  lost         \* the file was left with a spent token

files == <<tokenFile, flushed>>
server == <<issued, accepted>>
tokenVars == <<files, holder, phase, token, answer, server, lost>>

Processes == {"worker", "login"}
Phases == {"off", "loaded", "owner", "refreshing", "answered", "synced"}

TokenTypeOK ==
  /\ tokenFile \in 0 .. MaxTokens /\ flushed \in 0 .. MaxTokens
  /\ holder \in Processes \cup {"nobody"}
  /\ phase \in [Processes -> Phases]
  /\ token \in [Processes -> 0 .. MaxTokens]
  /\ answer \in [Processes -> 0 .. MaxTokens]
  /\ issued \in 0 .. MaxTokens /\ accepted \subseteq 1 .. issued
  /\ lost \in BOOLEAN

TokenInit ==
  /\ tokenFile = 0 /\ flushed = 0 /\ holder = "nobody"
  /\ phase = [p \in Processes |-> "off"]
  /\ token = [p \in Processes |-> 0] /\ answer = [p \in Processes |-> 0]
  /\ issued = 0 /\ accepted = {} /\ lost = FALSE

To(p, f) == phase' = [phase EXCEPT ![p] = f]

\* The file's token is spent, for want of the answer of p.
Forgotten(p) ==
  lost \/ (phase[p] \in {"answered", "synced"} /\ tokenFile \notin accepted)

\* The process ends, its lock and its memory with it. An unsaved answer is gone.
Ended(p) ==
  /\ To(p, "off")
  /\ holder' = IF holder = p THEN "nobody" ELSE holder
  /\ lost' = Forgotten(p)
  /\ answer' = [answer EXCEPT ![p] = 0]
  /\ token' = [token EXCEPT ![p] = 0]
  /\ UNCHANGED <<files, server>>

(***************************************************************************)
(* Construction reads the file before there is any lock; acquire reads it  *)
(* again, for the owner before may have rotated it.                        *)
(***************************************************************************)

Construct(p) ==
  /\ phase[p] = "off"
  /\ To(p, "loaded")
  /\ token' = [token EXCEPT ![p] = tokenFile]
  /\ UNCHANGED <<files, holder, answer, server, lost>>

Locked(p) == holder = "nobody" /\ holder' = p

AcquireStale(p) ==
  /\ phase[p] = "loaded" /\ Locked(p)
  /\ To(p, "owner")
  /\ UNCHANGED <<files, token, answer, server, lost>>

Acquire(p) ==
  /\ phase[p] = "loaded" /\ Locked(p)
  /\ To(p, "owner")
  /\ token' = [token EXCEPT ![p] = tokenFile]
  /\ UNCHANGED <<files, answer, server, lost>>

\* Another process owns the file: the client or the login gives up.
Refused(p) == phase[p] = "loaded" /\ holder # "nobody" /\ Ended(p)

(***************************************************************************)
(* The calls of the owner                                                  *)
(***************************************************************************)

\* The access token has expired: the refresh token is presented.
Refresh(p) ==
  /\ phase[p] = "owner" /\ p = "worker" /\ token[p] # 0
  /\ To(p, "refreshing")
  /\ UNCHANGED <<files, holder, token, answer, server, lost>>

Answered(p, t) == To(p, "answered") /\ answer' = [answer EXCEPT ![p] = t]

\* The server rotates the token or repeats it; an answer without one keeps it.
ServeRefresh(p) ==
  /\ phase[p] = "refreshing" /\ token[p] \in accepted
  /\ \/ Answered(p, token[p]) /\ UNCHANGED server
     \/ /\ issued < MaxTokens
        /\ issued' = issued + 1
        /\ accepted' \in {accepted \cup {issued + 1},
                          (accepted \ {token[p]}) \cup {issued + 1}}
        /\ Answered(p, issued + 1)
  /\ UNCHANGED <<files, holder, token, lost>>

RefuseRefresh(p) ==
  /\ phase[p] = "refreshing" /\ token[p] \notin accepted
  /\ To(p, "owner")
  /\ UNCHANGED <<files, holder, token, answer, server, lost>>

\* What the steps of a password login may answer.
LoginReplies ==
  [resume : BOOLEAN, username : BOOLEAN, passkey : BOOLEAN, code : BOOLEAN,
   result : {"RESUME2OIDCP", "GOTO_LOGIN_OTP", "GOTO_LOGIN_LEGAL_TEXTS", "other"}]

\* A setup prompt for a passkey is declined; a second factor and new terms
\* need the owner of the account.
Granted(r) ==
  /\ r.resume /\ r.username
  /\ r.result = "RESUME2OIDCP"
  /\ r.code

\* A password login, by a person or by the recovery of a blocked session. It
\* may end the grant before.
SignIn(p) ==
  /\ phase[p] = "owner"
  /\ \E granted \in {Granted(r) : r \in LoginReplies} :
       IF granted /\ issued < MaxTokens
       THEN /\ issued' = issued + 1
            /\ accepted' \in {accepted \cup {issued + 1}, {issued + 1}}
            /\ Answered(p, issued + 1)
       ELSE p = "login" /\ To(p, "off") /\ UNCHANGED <<answer, server>>
  /\ IF phase'[p] = "off"
     THEN holder' = "nobody" /\ token' = [token EXCEPT ![p] = 0]
     ELSE UNCHANGED <<holder, token>>
  /\ UNCHANGED <<files, lost>>

\* The answer does not arrive, or cannot be written. The process goes on with
\* the token it has.
Fail(p) ==
  /\ phase[p] \in {"refreshing", "answered", "synced"}
  /\ To(p, "owner")
  /\ lost' = Forgotten(p)
  /\ answer' = [answer EXCEPT ![p] = 0]
  /\ UNCHANGED <<files, holder, token, server>>

(***************************************************************************)
(* save                                                                    *)
(***************************************************************************)

Sync(p) ==
  /\ phase[p] = "answered"
  /\ To(p, "synced")
  /\ UNCHANGED <<files, holder, token, answer, server, lost>>

Rename(p) ==
  /\ phase[p] = "synced"
  /\ To(p, "owner")
  /\ tokenFile' = answer[p]
  /\ token' = [token EXCEPT ![p] = answer[p]]
  /\ answer' = [answer EXCEPT ![p] = 0]
  /\ lost' = FALSE
  /\ UNCHANGED <<flushed, holder, server>>

\* The file system writes its directory back in its own time.
WriteBack ==
  /\ flushed # tokenFile
  /\ flushed' = tokenFile
  /\ UNCHANGED <<tokenFile, holder, phase, token, answer, server, lost>>

(***************************************************************************)
(* The end of a process: close, a kill, a crash. The worker's close        *)
(* cancels a call in progress.                                             *)
(***************************************************************************)

End(p) == phase[p] # "off" /\ Ended(p)

LosePower ==
  /\ phase' = [p \in Processes |-> "off"]
  /\ holder' = "nobody"
  /\ tokenFile' \in {tokenFile, flushed}
  /\ flushed' = tokenFile'
  /\ lost' = (lost \/ (tokenFile' # 0 /\ tokenFile' \notin accepted))
  /\ answer' = [p \in Processes |-> 0]
  /\ token' = [p \in Processes |-> 0]
  /\ UNCHANGED server

TokenStep(p) ==
  Acquire(p) \/ Refresh(p) \/ ServeRefresh(p) \/ RefuseRefresh(p) \/ SignIn(p)
  \/ Fail(p) \/ Sync(p) \/ Rename(p)

(***************************************************************************)
(* A refresh presents a token that the server accepts, unless an answer    *)
(* was lost on its way into the file: no other process, and no earlier     *)
(* life of this one, can have spent it.                                    *)
(***************************************************************************)
NoSpentToken ==
  \A p \in Processes : phase[p] = "refreshing" => token[p] \in accepted \/ lost

=============================================================================
