------------------------------- MODULE Update -------------------------------
(***************************************************************************)
(* update.c: asks a server for the description of the latest version, and  *)
(* downloads and starts it when the application's function agrees.  Both   *)
(* are http_get calls, with http_req_buf and http_req_prog as functions.   *)
(* What the xml says is chosen freely.                                     *)
(***************************************************************************)
EXTENDS HttpReq

CONSTANTS
  Description,  (* what may be answered for the xml: a set of replies      *)
  Retries       (* bound: how often the application calls update           *)

VARIABLES
  at,        (* where update is                                            *)
  error,     (* up->error                                                  *)
  reported,  (* how often func was told of an error                        *)
  file,      (* what was written to new_path                               *)
  runs       (* how often update was called                                *)

updateVars == <<at, error, reported, file, runs>>
vars == <<httpVars, updateVars>>

Init ==
  /\ InitHttp
  /\ at = "done"
  /\ error = "none"
  /\ reported = 0
  /\ file = <<>>
  /\ runs = 0

Answers == {0, 1, -1}

(* Up to the request for the xml: what was installed may be unreadable.    *)
Begin_update ==
  /\ at = "done" /\ runs < Retries
  /\ runs' = runs + 1
  /\ reported' = 0 /\ file' = <<>>
  /\ \/ /\ at' = "final" /\ error' = "FILE_BAD"
        /\ UNCHANGED httpVars
     \/ /\ at' = "xml" /\ error' = "FILE_NOT_FOUND"
        /\ \E r \in Description, proto \in {"http", "other"} : http_get(proto, r)

(* Mutant: the error stays set once func was told of it.                   *)
ErrorKept == error

(* func was told of it in the callback, and is not told again.             *)
ErrorTold == "none"

(* The ERROR case of both callbacks.                                       *)
TellError ==
  /\ call.state = "ERROR"
  /\ reported' = reported + 1
  /\ error' = ErrorTold
  /\ Return(-1)
  /\ UNCHANGED file

http_req_buf ==
  /\ at = "xml" /\ pc = "func"
  /\ \/ TellError
     \/ call.state # "ERROR" /\ Return(0) /\ UNCHANGED <<reported, error, file>>
  /\ UNCHANGED <<at, runs>>

(* A piece that cannot be written is passed over.                          *)
http_req_prog ==
  /\ at = "get" /\ pc = "func"
  /\ \/ TellError
     \/ /\ call.state = "BODY"
        /\ file' = file \o call.data
        /\ \E r \in Answers : Return(r)
        /\ UNCHANGED <<reported, error>>
     \/ /\ call.state \notin {"ERROR"}
        /\ Return(0)
        /\ UNCHANGED <<reported, error, file>>
  /\ UNCHANGED <<at, runs>>

Becomes(where, e) == at' = where /\ error' = e

(* The xml was read, the versions compared, and func asked twice.          *)
Ask ==
  /\ at = "xml" /\ pc = "idle"
  /\ IF err < 0 THEN Becomes("final", error)
     ELSE \/ Becomes("final", "FILE_BAD")
          \/ \E ask, download \in Answers :
               IF ask # 0 \/ download # 0 THEN Becomes("final", "none")
               ELSE Becomes("download", "FILE_NOT_FOUND")
  /\ UNCHANGED <<httpVars, reported, file, runs>>

Download ==
  /\ at = "download"
  /\ \/ /\ Becomes("final", error)
        /\ UNCHANGED httpVars
     \/ /\ Becomes("get", error)
        /\ \E r \in Reply, proto \in {"http", "file"} : http_get(proto, r)
  /\ UNCHANGED <<reported, file, runs>>

Install ==
  /\ at = "get" /\ pc = "idle"
  /\ CASE err > 0 -> Becomes("final", "none")
       [] err < 0 -> Becomes("final", error)
       [] OTHER   -> Becomes("install", error)
  /\ UNCHANGED <<httpVars, reported, file, runs>>

(* func at INSTALL, the new version's own installer, and func again.       *)
Run ==
  /\ at = "install"
  /\ \E stop \in BOOLEAN, started \in BOOLEAN :
       Becomes("final", CASE stop     -> error
                          [] started  -> "none"
                          [] OTHER    -> "FILE_BAD")
  /\ UNCHANGED <<httpVars, reported, file, runs>>

Final ==
  /\ at = "final"
  /\ at' = "done"
  /\ reported' = IF error = "none" THEN reported ELSE reported + 1
  /\ UNCHANGED <<httpVars, error, file, runs>>

Next ==
  \/ Begin_update \/ Ask \/ Download \/ Install \/ Run \/ Final
  \/ http_req_buf \/ http_req_prog
  \/ HttpStep /\ UNCHANGED updateVars

Spec == Init /\ [][Next]_vars

-----------------------------------------------------------------------------
(* However the two requests end, the application hears of an error at most *)
(* once: from the callback, or from update itself.                         *)
ErrorOnce == reported <= 1

(* An answer other than 200 is not installed, though its page was saved.   *)
OnlyFound == at = "install" /\ got.found = 1 => got.http.response_code = 200

(* update.c and update.h: UPDATE_STATE_INSTALL, "up->new_path is complete, *)
(* and will be installed".                                                 *)
InstallComplete == at = "install" => file = reply.body

(* http_req.h: http_get "calls func until func returns nonzero".           *)
StopsWhenTold == told # "again"
=============================================================================
