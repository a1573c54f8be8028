------------------------------ MODULE Lifecycle ------------------------------
(***************************************************************************)
(* The life of the process (main.rs, backend/mod.rs setup, the frame of    *)
(* mqtt.rs run): setting up, running the MQTT client, and running it again *)
(* after a SIGHUP, which is how new certificates are loaded.               *)
(*                                                                         *)
(* The signal handler is a task of its own.  It tells the running client   *)
(* to end through a broadcast channel of capacity 1, whose only receiver   *)
(* the main task makes for each run of the client and drops at its end.    *)
(* A panic of either task aborts the process, and systemd, which is        *)
(* external, starts it again; a process killed by SIGHUP it leaves dead.   *)
(***************************************************************************)
EXTENDS Naturals

CONSTANTS
  MaxVersion,   \* bound: how often the certificates are replaced
  MaxHups,      \* bound: how many SIGHUPs are sent
  MaxFaults     \* bound: how often the setup fails or a replacement is half done

ASSUME LifecycleAssumption ==
  /\ MaxVersion \in Nat
  /\ MaxHups \in Nat
  /\ MaxFaults \in Nat

VARIABLES
  main,      \* what the main task does
  handler,   \* the signal handler task
  hupSeen,   \* a SIGHUP waits for the handler; several are one
  message,   \* the broadcast channel holds a message for the receiver
  files,     \* the version of the certificate files
  filesOk,   \* they are complete
  loaded,    \* the version of the files the client has read, 0 for none
  hups,      \* history: how many SIGHUPs were sent
  covered,   \* history: the version in place at the last SIGHUP that was heard
  reloads,   \* history: how often the client was ended, in this process
  heard,     \* history: how often the handler sent a message, in this process
  panicked,  \* history: the task whose panic aborted the process, or "none"
  faults     \* how often the setup failed or the files were made incomplete

vars == <<main, handler, hupSeen, message, files, filesOk, loaded, hups, covered, reloads, heard,
          panicked, faults>>

Init ==
  /\ main = "setup"
  /\ handler = "none"
  /\ hupSeen = FALSE
  /\ message = FALSE
  /\ files = 1
  /\ filesOk = TRUE
  /\ loaded = 0
  /\ hups = 0
  /\ covered = 0
  /\ reloads = 0
  /\ heard = 0
  /\ panicked = "none"
  /\ faults = 0

Alive == main \notin {"aborted", "killed"}

\* The receiver of the broadcast channel lives from subscribe() to the end of run().
HasReceiver == main \in {"start", "serve", "shutdown"}

-----------------------------------------------------------------------------
(* The main task.                                                           *)

\* Commands, metadata and backend are set up, which waits for the gateway id;
\* the signal handler is spawned.
SetUp ==
  /\ main = "setup"
  /\ main' = "subscribe"
  /\ handler' = "spawned"
  /\ UNCHANGED <<hupSeen, message, files, filesOk, loaded, hups, covered, reloads, heard,
                 panicked, faults>>

\* One of the setups fails (a broken configuration, no socket); expect() panics.
SetUpFails ==
  /\ main = "setup"
  /\ faults < MaxFaults
  /\ faults' = faults + 1
  /\ main' = "aborted"
  /\ panicked' = "main"
  /\ UNCHANGED <<handler, hupSeen, message, files, filesOk, loaded, hups, covered, reloads, heard>>

\* The next turn of the loop: a receiver that gets what is sent from now on.
SubscribeTermination ==
  /\ main = "subscribe"
  /\ main' = "start"
  /\ message' = FALSE
  /\ UNCHANGED <<handler, hupSeen, files, filesOk, loaded, hups, covered, reloads, heard,
                 panicked, faults>>

\* Mutant of StartClient: the certificates are read once only.
StartClientCached ==
  /\ main = "start"
  /\ \/ /\ main' = "serve"
        /\ loaded' = IF loaded = 0 THEN files ELSE loaded
        /\ UNCHANGED panicked
     \/ /\ ~filesOk
        /\ loaded = 0
        /\ main' = "aborted"
        /\ panicked' = "main"
        /\ UNCHANGED loaded
  /\ UNCHANGED <<handler, hupSeen, message, files, filesOk, hups, covered, reloads, heard, faults>>

\* run() reads the files and spawns the client.  An incomplete certificate or key
\* makes expect() panic; in an incomplete CA file what cannot be parsed is skipped,
\* and the client starts with the rest.
StartClient ==
  /\ main = "start"
  /\ \/ /\ main' = "serve"
        /\ loaded' = files
        /\ UNCHANGED panicked
     \/ /\ ~filesOk
        /\ main' = "aborted"
        /\ panicked' = "main"
        /\ UNCHANGED loaded
  /\ UNCHANGED <<handler, hupSeen, message, files, filesOk, hups, covered, reloads, heard, faults>>

\* Mutant of EndClient: the client ends without being told to.
EndClientUnasked ==
  /\ main = "serve"
  /\ message' = FALSE
  /\ main' = "shutdown"
  /\ reloads' = reloads + 1
  /\ UNCHANGED <<handler, hupSeen, files, filesOk, loaded, hups, covered, heard, panicked,
                 faults>>

\* select! gets the message; set.shutdown() ends the client.
EndClient ==
  /\ main = "serve"
  /\ message
  /\ message' = FALSE
  /\ main' = "shutdown"
  /\ reloads' = reloads + 1
  /\ UNCHANGED <<handler, hupSeen, files, filesOk, loaded, hups, covered, heard, panicked,
                 faults>>

\* Mutant of RunReturns: main does not loop.
RunReturnsForGood ==
  /\ main = "shutdown"
  /\ main' = "done"
  /\ UNCHANGED <<handler, hupSeen, message, files, filesOk, loaded, hups, covered, reloads,
                 heard, panicked, faults>>

\* run() returns, and its receiver is gone.
RunReturns ==
  /\ main = "shutdown"
  /\ main' = "subscribe"
  /\ UNCHANGED <<handler, hupSeen, message, files, filesOk, loaded, hups, covered, reloads,
                 heard, panicked, faults>>

-----------------------------------------------------------------------------
(* The signal handler.                                                      *)

InstallHandler ==
  /\ Alive
  /\ handler = "spawned"
  /\ handler' = "ready"
  /\ UNCHANGED <<main, hupSeen, message, files, filesOk, loaded, hups, covered, reloads, heard,
                 panicked, faults>>

\* terminate_tx.send(()).unwrap(): an error, and so a panic, without a receiver.
\* A second message replaces a first one that was not read.
HandleHup ==
  /\ Alive
  /\ hupSeen
  /\ hupSeen' = FALSE
  /\ IF HasReceiver
       THEN /\ message' = TRUE
            /\ heard' = heard + 1
            /\ UNCHANGED <<main, panicked>>
       ELSE /\ main' = "aborted"
            /\ panicked' = "handler"
            /\ UNCHANGED <<message, heard>>
  /\ UNCHANGED <<handler, files, filesOk, loaded, hups, covered, reloads, faults>>

-----------------------------------------------------------------------------
(* The outside: the administrator and systemd.                              *)

\* The certificates are replaced, the files being incomplete for a while or not.
ReplaceFiles ==
  /\ files < MaxVersion
  /\ filesOk
  /\ files' = files + 1
  /\ \/ filesOk' = TRUE /\ UNCHANGED faults
     \/ faults < MaxFaults /\ filesOk' = FALSE /\ faults' = faults + 1
  /\ UNCHANGED <<main, handler, hupSeen, message, loaded, hups, covered, reloads, heard, panicked>>

CompleteFiles ==
  /\ ~filesOk
  /\ filesOk' = TRUE
  /\ UNCHANGED <<main, handler, hupSeen, message, files, loaded, hups, covered, reloads, heard,
                 panicked, faults>>

\* Before the handler is installed, SIGHUP has its default effect.
SendHup ==
  /\ Alive
  /\ hups < MaxHups
  /\ hups' = hups + 1
  /\ IF handler = "ready"
       THEN hupSeen' = TRUE /\ covered' = files /\ UNCHANGED main
       ELSE main' = "killed" /\ UNCHANGED <<hupSeen, covered>>
  /\ UNCHANGED <<handler, message, files, filesOk, loaded, reloads, heard, panicked, faults>>

RestartProcess ==
  /\ main = "aborted"
  /\ main' = "setup"
  /\ handler' = "none"
  /\ hupSeen' = FALSE
  /\ message' = FALSE
  /\ loaded' = 0
  /\ reloads' = 0
  /\ heard' = 0
  /\ panicked' = "none"
  /\ UNCHANGED <<files, filesOk, hups, covered, faults>>

MainTask == SetUp \/ SubscribeTermination \/ StartClient \/ EndClient \/ RunReturns

Next ==
  \/ MainTask
  \/ SetUpFails
  \/ InstallHandler
  \/ HandleHup
  \/ ReplaceFiles
  \/ CompleteFiles
  \/ SendHup
  \/ RestartProcess

Spec == Init /\ [][Next]_vars

\* Both tasks run on, the backend reports its gateway id some day, a replacement
\* is completed, and systemd restarts what failed.
FairSpec ==
  Spec /\ WF_vars(MainTask) /\ WF_vars(InstallHandler) /\ WF_vars(HandleHup)
       /\ WF_vars(CompleteFiles) /\ WF_vars(RestartProcess)

-----------------------------------------------------------------------------
(* Properties.                                                              *)

\* Every variable holds a value of its type.
TypeOK ==
  /\ main \in {"setup", "subscribe", "start", "serve", "shutdown", "aborted", "killed"}
  /\ handler \in {"none", "spawned", "ready"}
  /\ hupSeen \in BOOLEAN /\ message \in BOOLEAN /\ filesOk \in BOOLEAN
  /\ files \in Nat /\ loaded \in Nat /\ covered \in Nat
  /\ hups \in Nat /\ heard \in Nat /\ reloads \in Nat /\ faults \in Nat
  /\ panicked \in {"none", "main", "handler"}

\* A reload that was heard is not lost: not when it arrives while the client is
\* ending or has not read its certificates yet, not when two of them become one,
\* not through an abort.  The client comes to run with files read anew since then, at
\* least as new as the ones in place at that SIGHUP, unless a later one kills the
\* process.  (Of a CA file that is incomplete at that moment it has a part only.)
ReloadLoadsCertificates ==
  \A v \in 1 .. MaxVersion :
    (covered = v) ~> ((main = "serve" /\ loaded >= v) \/ main = "killed")

\* While the client serves with files read before the ones in place at the
\* last SIGHUP that was heard, that SIGHUP is still under way, in the handler or
\* in the channel: nothing that happens between a SIGHUP and the end of the client,
\* no panic and no second SIGHUP, makes the process forget it.
NoHupForgotten == main = "serve" /\ loaded < covered => hupSeen \/ message

\* Reloads do not repeat: the client is ended at most once for each message.
OneReloadPerHup == reloads <= heard

\* The configuration template on publish_channel_size: "If the MQTT client
\* unavailable because of e.g. certificate reload, messages stay in the channel
\* until the MQTT client is back available".  For that, a SIGHUP handled while an
\* earlier one reloads the client must not abort the process, channel and all.
HupDuringReloadNeverAborts == reloads > 0 => panicked # "handler"
=============================================================================
