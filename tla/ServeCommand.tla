---------------------------- MODULE ServeCommand ----------------------------
(***************************************************************************)
(* A program around the task handle of SyncTask.  Either any program that  *)
(* links the library, whose threads call what they like, or the command    *)
(* line (serve_backup_command of cli/main.cpp): its only thread polls the  *)
(* task every 100 ms and stops it when a SIGINT handler has set a flag.    *)
(***************************************************************************)
EXTENDS SyncTask

VARIABLES
  command,    \* where serve_backup_command is; "library" for another program;
              \* "killed" for either, when its process is gone
  handler,    \* what SIGINT does: "default", which kills, or "ours"
  interrupt,  \* g_interrupt_requested
  byUser,     \* stop_requested_by_user
  exitCode,   \* what the command has printed and will return
  caught      \* history: the handler has run

cmdVars == <<command, handler, interrupt, byUser, exitCode, caught>>
allVars == <<vars, cmdVars>>

(* From the constructor of SignalScope to its destructor.                  *)
Handled == {"poll", "look", "stop", "clear", "wait", "waiting"}

CommandPC == {"library", "start", "enter", "leaving", "done", "killed"}
               \cup Handled

-----------------------------------------------------------------------------
(* SIGINT, and the scope in which it is handled.                           *)

Interrupt ==
  /\ \/ /\ handler = "ours"
        /\ interrupt' = TRUE
        /\ caught' = TRUE
        /\ UNCHANGED command
     \/ /\ handler = "default"
        /\ command \in {"start", "enter"}
        /\ command' = "killed"
        /\ UNCHANGED <<interrupt, caught>>
  /\ UNCHANGED <<vars, handler, byUser, exitCode>>

(* Where SIGPIPE exists nothing in the library keeps it from its default:  *)
(* a send to a client that has left ends the whole process, unless the     *)
(* program ignores the signal or the send comes too early to notice.       *)
BrokenPipe ==
  /\ command # "killed"
  /\ worker = "serving" /\ serve \in {"reply", "stream"}
  /\ peer[client] = "left"
  /\ command' = "killed"
  /\ handler' = "default"
  /\ UNCHANGED <<vars, interrupt, byUser, exitCode, caught>>

(* Mutant: the handler is installed before the flag is cleared.            *)
EnterScope_HandlerFirst ==
  /\ \/ command = "start" /\ handler' = "ours" /\ command' = "enter"
        /\ UNCHANGED interrupt
     \/ command = "enter" /\ interrupt' = FALSE /\ command' = "poll"
        /\ UNCHANGED handler
  /\ UNCHANGED <<vars, byUser, exitCode, caught>>

EnterScope ==
  /\ \/ command = "start" /\ interrupt' = FALSE /\ command' = "enter"
        /\ UNCHANGED handler
     \/ command = "enter" /\ handler' = "ours" /\ command' = "poll"
        /\ UNCHANGED interrupt
  /\ UNCHANGED <<vars, byUser, exitCode, caught>>

-----------------------------------------------------------------------------
(* The polling loop.  is_running() is true up to Finished: the command     *)
(* goes on polling while the task is stopping.                             *)

Poll ==
  /\ command = "poll"
  /\ command' = IF state # "finished" THEN "look" ELSE "wait"
  /\ UNCHANGED <<vars, handler, interrupt, byUser, exitCode, caught>>

(* Mutant: the flag is cleared on every turn.                              *)
Look_AlwaysClears ==
  /\ command = "look"
  /\ command' = IF interrupt THEN "stop" ELSE "clear"
  /\ UNCHANGED <<vars, handler, interrupt, byUser, exitCode, caught>>

Look ==
  /\ command = "look"
  /\ command' = IF interrupt THEN "stop" ELSE "poll"
  /\ UNCHANGED <<vars, handler, interrupt, byUser, exitCode, caught>>

StopServer ==
  /\ command = "stop"
  /\ Stop(Owner)
  /\ command' = "clear"
  /\ UNCHANGED <<handler, interrupt, byUser, exitCode, caught>>

(* stop() has returned.                                                    *)
Acknowledge ==
  /\ command = "clear"
  /\ call[Owner] = "outside"
  /\ interrupt' = FALSE
  /\ byUser' = TRUE
  /\ command' = "poll"
  /\ UNCHANGED <<vars, handler, exitCode, caught>>

(* The first wait() of this program.                                       *)
WaitForServer ==
  /\ command = "wait"
  /\ WaitTakes(Owner)
  /\ command' = "waiting"
  /\ UNCHANGED <<handler, interrupt, byUser, exitCode, caught>>

(* Mutant: the scope of the handler is not left.                           *)
Exit_KeepsHandler ==
  /\ command = "waiting"
  /\ call[Owner] = "outside"
  /\ exitCode' = IF status = "error" THEN "error"
                 ELSE IF byUser THEN "ok" ELSE "unexpected"
  /\ command' = "leaving"
  /\ UNCHANGED <<vars, handler, interrupt, byUser, caught>>

(* wait() has returned: the result is printed and the scope of the handler *)
(* is left.  A SIGINT from here on cuts off nothing but the destructor.    *)
Exit ==
  /\ command = "waiting"
  /\ call[Owner] = "outside"
  /\ exitCode' = IF status = "error" THEN "error"
                 ELSE IF byUser THEN "ok" ELSE "unexpected"
  /\ handler' = "default"
  /\ command' = "leaving"
  /\ UNCHANGED <<vars, interrupt, byUser, caught>>

LeaveCommand ==
  /\ command = "leaving"
  /\ Destroy
  /\ command' = "done"
  /\ UNCHANGED <<handler, interrupt, byUser, exitCode, caught>>

CommandStep ==
  \/ EnterScope \/ Poll \/ Look \/ StopServer \/ Acknowledge
  \/ WaitForServer \/ Exit \/ LeaveCommand

-----------------------------------------------------------------------------

CommandInit ==
  /\ Init
  /\ \/ command = "library"
     \/ command = "start" /\ Started
  /\ handler = "default"
  /\ interrupt = FALSE
  /\ byUser = FALSE
  /\ exitCode = "none"
  /\ caught = FALSE

(* What goes on beside the command, as long as its process is there.       *)
Beside(step) == command # "killed" /\ step /\ UNCHANGED cmdVars

CommandNext ==
  \/ command = "library" /\ Next /\ UNCHANGED cmdVars
  \/ CommandStep
  \/ Interrupt \/ BrokenPipe
  \/ Beside(\/ WorkerStep
            \/ Within(Owner)
            \/ \E c \in Clients : ClientStep(c) /\ UNCHANGED taskVars)

CommandSpec == CommandInit /\ [][CommandNext]_allVars

(* As in SyncTask, and the main thread of the command is scheduled too.    *)
(* The last conjunct is what the code does not enforce: every client       *)
(* sends, reads or leaves.                                                 *)
CommandFairSpec ==
  /\ CommandSpec
  /\ WF_allVars(Beside(WorkerStep))
  /\ \A t \in Callers : WF_allVars(Beside(Within(t)))
  /\ WF_allVars(CommandStep)
  /\ \A c \in Clients :
       WF_allVars(Beside(/\ SendRequest(c) \/ ReadBackup(c) \/ Leave(c)
                         /\ UNCHANGED taskVars))

-----------------------------------------------------------------------------
(* Type invariant.                                                         *)
CommandTypeOK ==
  /\ command \in CommandPC
  /\ handler \in {"default", "ours"}
  /\ interrupt \in BOOLEAN
  /\ byUser \in BOOLEAN
  /\ exitCode \in {"none", "ok", "error", "unexpected"}
  /\ caught \in BOOLEAN
  /\ handler = "ours" <=> command \in Handled
  /\ byUser => stopFlag

(* A SIGINT that the handler has caught stays in the flag until the task   *)
(* has been asked to stop, wherever in the loop it comes: the flag is      *)
(* cleared before the handler is installed and then only after a stop().   *)
NoInterruptLost ==
  caught /\ command \in {"enter", "poll", "look", "stop"} =>
    interrupt \/ stopFlag

(* The message "serve.cli.unexpected_exit" is never printed: whatever the  *)
(* network and the clients do, a server that was not asked to stop ends    *)
(* with an error or not at all, and the main thread knows of every stop by *)
(* the time it has waited.                                                 *)
NeverUnexpected == exitCode # "unexpected"

(* A stopped or destroyed task ends, and with it every wait, provided that *)
(* clients do not hold on to their connections; unless the whole process   *)
(* ends first.                                                             *)
StopEnds ==
  /\ stopFlag ~> worker = "over" \/ command = "killed"
  /\ ~alive ~> call[Owner] = "gone" \/ command = "killed"

(* A SIGINT that was caught ends the command, by way of a server that has  *)
(* released everything or, at worst, of a client that leaves in time to    *)
(* break the process; provided that clients do not hold on.                *)
InterruptEnds ==
  caught ~> \/ exitCode # "none" /\ worker = "over" /\ Released
            \/ command = "killed"

=============================================================================
