--------------------------- MODULE GitHubCalls ---------------------------
(***************************************************************************)
(* How the release toolkit reads the end of one call of the gh program     *)
(* (scripts/release_control.py, class GitHub): from the exit code, the     *)
(* HTTP head and body that gh printed and its diagnostics, as far as they  *)
(* got. A read may be tried again as a whole; the one call that creates a  *)
(* release is never sent twice, and what became of it may be unknown.      *)
(***************************************************************************)
EXTENDS Naturals

Heads == {"none", "broken", "whole"}       \* the HTTP header block on stdout,
                                           \* broken: it ends after the status
Bodies == {"whole", "cut", "doubled"}      \* doubled: JSON with a repeated key
Diagnostics == {"none", "denied", "lost", "undecoded"}  \* what stderr says
Statuses == {200, 201, 403, 404, 422, 500, 503}

\* The end of one call. status is what the head says, when it says it.
Ends == [timeout : BOOLEAN, code : 0..2, head : Heads, status : Statuses,
         body : Bodies, stderr : Diagnostics]

Between(low, s, high) == low <= s /\ s < high

\* An answer that reached its reader in full and means what it says.
Good(e) == ~ e.timeout /\ e.code = 0 /\ e.head = "whole" /\ Between(200, e.status, 300)

\* A denial is read from the status line, however little came after it, or
\* from the diagnostics.
Denied(e) == \/ e.stderr = "denied"
             \/ e.head # "none" /\ e.status \in {401, 403, 404, 429}

\* The connection was lost, says a call that ended with an error.
Lost(e) == e.code = 1 /\ e.stderr = "lost"

ServerFailed(e) == e.status \in {500, 502, 503, 504}

\* The command and the HTTP status must tell the same.
Agree(e) == (e.code = 0) <=> Between(200, e.status, 300)

(***************************************************************************)
(* A read: its value, one more attempt, a resource that is missing, or an  *)
(* error. Only the last of three attempts may not be followed by another.  *)
(***************************************************************************)
ReadResult(e, last) ==
  IF e.timeout
  THEN IF Denied(e) \/ last THEN "error" ELSE "again"
  ELSE IF e.head # "whole"
  THEN IF Lost(e) /\ ~ Denied(e) /\ ~ last THEN "again" ELSE "error"
  ELSE IF /\ ~ last
          /\ \/ e.code = 1 /\ ServerFailed(e) /\ e.stderr # "denied"
             \/ Between(200, e.status, 300) /\ Lost(e)
  THEN "again"
  ELSE IF ~ Agree(e) THEN "error"
  ELSE IF e.code # 0 THEN IF e.status = 404 THEN "missing" ELSE "error"
  ELSE IF e.body = "whole" THEN "value" ELSE "error"

(***************************************************************************)
(* The creation of a release: done, rejected, or unknown. Unknown is       *)
(* claimed only where the answer was lost on its way; an answer that came  *)
(* and cannot be right is an error.                                        *)
(***************************************************************************)
Refused(e) == Denied(e) \/ (e.head # "none" /\ Between(400, e.status, 500))

CreateResult(e) ==
  LET transport == Lost(e) \/ (e.code = 1 /\ e.stderr = "undecoded") IN
  IF e.timeout
  THEN IF Refused(e) THEN "error" ELSE "unknown"
  ELSE IF e.head # "whole"
  THEN IF transport /\ ~ Refused(e) THEN "unknown" ELSE "error"
  ELSE IF Refused(e) THEN "error"
  ELSE IF \/ ServerFailed(e) /\ e.code \in {0, 1}
          \/ Between(200, e.status, 300) /\ transport
  THEN "unknown"
  ELSE IF e.code # 0 \/ e.status # 201 THEN "error"
  ELSE CASE e.body = "whole" -> "created"
         [] e.body = "cut" -> "unknown"
         [] e.body = "doubled" -> "error"

\* What a server that has created the release, or has not, can bring about.
Plausible(e, created) ==
  e.head # "none" => CASE e.status = 201 -> created
                       [] Between(400, e.status, 500) -> ~ created
                       [] ServerFailed(e) -> TRUE
                       [] OTHER -> FALSE

CreateResults ==
  [created \in BOOLEAN |-> {CreateResult(e) : e \in {e \in Ends : Plausible(e, created)}}]

\* What reading a resource that exists, or does not, can come to.
Answers(e, exists) ==
  e.head # "none" => e.status \in {403, 500, 503} \cup (IF exists THEN {200} ELSE {404})

ReadResults ==
  [exists \in BOOLEAN |-> [last \in BOOLEAN |->
     {ReadResult(e, last) : e \in {e \in Ends : Answers(e, exists)}}]]

\* Any other write, an upload among them: done, or an error and never again.
WriteResult(e) ==
  IF Good(e) /\ e.body = "whole" THEN "done" ELSE "error"

\* The answers to a write that the server has carried out.
WriteResults == {WriteResult(e) : e \in {e \in Ends : Plausible(e, TRUE)}}

=============================================================================
