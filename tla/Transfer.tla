------------------------------- MODULE Transfer -------------------------------
(***************************************************************************)
(* What Conn.Upload and Conn.Download (pkg/clouduploader/operation.go)     *)
(* promise to the plugins that call them: they serve until the caller sets *)
(* ExitServer; stop only after a wait in which nothing was left to handle, *)
(* though something may arrive between that wait and the look at the flag; *)
(* and touch the object of the bucket at no other time.  TransferServer is *)
(* shown to implement this, and the modules that use it are shown to make  *)
(* a series of such transfers.                                             *)
(***************************************************************************)
CONSTANTS
    Contents,  \* what the bucket may hold under the file
    NoContent  \* the one that stands for no object

VARIABLES
    phase,      \* "starting", "serving", "leaving" (a wait has timed out),
                \* "closing", "failed" or "returned"
    waiting,    \* something from a client is still to be handled
    exitServer, \* Conn.ExitServer
    object,     \* what the bucket holds under Conn.file
    result      \* "none" before the return, then "true" or "false"

transferVars == <<phase, waiting, exitServer, object, result>>

Init ==
    /\ phase      = "starting"
    /\ waiting    = FALSE
    /\ exitServer = FALSE
    /\ object     = NoContent
    /\ result     = "none"

RequestExit ==
    /\ exitServer' = TRUE
    /\ UNCHANGED <<phase, waiting, object, result>>

Listen ==
    /\ phase = "starting"
    /\ phase' = "serving"
    /\ UNCHANGED <<waiting, exitServer, object, result>>

(* A client does something, also after the server has stopped.             *)
Arrive ==
    /\ waiting' = TRUE
    /\ UNCHANGED <<phase, exitServer, object, result>>

(* The server handles an event of a client, or disconnects it.             *)
Take ==
    /\ phase \in {"serving", "closing"}
    /\ waiting' \in BOOLEAN
    /\ object' \in Contents
    /\ UNCHANGED <<phase, exitServer, result>>

(* A wait has found nothing to handle.                                     *)
TimeOut ==
    /\ phase = "serving"
    /\ ~waiting
    /\ phase' = "leaving"
    /\ UNCHANGED <<waiting, exitServer, object, result>>

(* Whether to go on is decided by ExitServer alone, and later.             *)
Stay ==
    /\ phase = "leaving"
    /\ ~exitServer
    /\ phase' = "serving"
    /\ UNCHANGED <<waiting, exitServer, object, result>>

Close ==
    /\ phase = "leaving"
    /\ exitServer
    /\ phase' = "closing"
    /\ UNCHANGED <<waiting, exitServer, object, result>>

Return ==
    /\ phase = "closing"
    /\ phase' = "returned"
    /\ result' = "true"
    /\ waiting' \in BOOLEAN
    /\ UNCHANGED <<exitServer, object>>

Fail ==
    /\ phase \in {"starting", "serving"}
    /\ phase' = "failed"
    /\ UNCHANGED <<waiting, exitServer, object, result>>

ReturnFalse ==
    /\ phase = "failed"
    /\ phase' = "returned"
    /\ result' = "false"
    /\ object' \in {NoContent, object}
    /\ UNCHANGED <<waiting, exitServer>>

Next ==
    \/ RequestExit \/ Listen \/ Arrive \/ Take \/ TimeOut \/ Stay \/ Close
    \/ Return \/ Fail \/ ReturnFalse

Spec == Init /\ [][Next]_transferVars
-------------------------------------------------------------------------------
(* A plugin makes one transfer after another over its connection.  The     *)
(* next begins when the one before has returned, and ExitServer is cleared *)
(* then or just before.                                                    *)
Begin ==
    /\ phase = "returned"
    /\ phase' = "starting"
    /\ exitServer' \in {exitServer, FALSE}
    /\ waiting' = FALSE /\ object' = NoContent /\ result' = "none"

Clear ==
    /\ phase = "returned"
    /\ exitServer' = FALSE
    /\ UNCHANGED <<phase, waiting, object, result>>

(* A client goes away that no server has taken.                            *)
Leave ==
    /\ phase \notin {"serving", "leaving", "closing"}
    /\ waiting' = FALSE
    /\ UNCHANGED <<phase, exitServer, object, result>>

Series ==
    /\ phase = "returned" /\ ~exitServer /\ result = "none"
    /\ [][Next \/ Begin \/ Clear \/ Leave]_transferVars
===============================================================================
