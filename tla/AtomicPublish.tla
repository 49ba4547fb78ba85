--------------------------- MODULE AtomicPublish ---------------------------
(***************************************************************************)
(* What a transfer with part files promises about the output path: whoever *)
(* looks at the file sees either what was there before or the whole media, *)
(* never anything in between, and the whole media once success has been    *)
(* reported (downloadURLToPathPart of client/download.go).                 *)
(***************************************************************************)
CONSTANTS
  Contents,  \* what a file may hold
  Whole      \* the content that is the whole media

VARIABLES
  file,      \* the output file
  status     \* "idle", "running", "ok" or "failed"

Init ==
  /\ file \in Contents
  /\ status = "idle"

Begin ==
  /\ status # "running"
  /\ status' = "running"
  /\ UNCHANGED file

\* The file is replaced in one step.
Publish ==
  /\ status = "running"
  /\ file' = Whole
  /\ UNCHANGED status

\* Success is reported of the whole media only.
Succeed ==
  /\ status = "running"
  /\ file = Whole
  /\ status' = "ok"
  /\ UNCHANGED file

\* Errors and crashes leave the file alone, a crash before success could be
\* reported included.
GiveUp ==
  /\ status = "running"
  /\ status' = "failed"
  /\ UNCHANGED file

Next == Begin \/ Publish \/ Succeed \/ GiveUp

Spec == Init /\ [][Next]_<<file, status>>
=============================================================================
