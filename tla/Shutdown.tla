------------------------------ MODULE Shutdown ------------------------------
(***************************************************************************)
(* main and signal_handler (main.c) and the logger they share (logger.c).  *)
(* A signal may arrive between any two steps of the program, inside plog,  *)
(* plog_close and the handler of the other signal too.                     *)
(*                                                                         *)
(* The log on standard output is left out.  A call of fprintf is a step.   *)
(***************************************************************************)
EXTENDS Integers, Sequences, FiniteSets

CONSTANTS LINES   \* how many lines the event loop logs

ASSUME ShutdownAssumption == LINES \in Nat

Signals == {"SIGINT", "SIGTERM"}

VARIABLES
  process,    \* "runs", "exited", "terminated" (by a signal it does not
              \* handle), "crashed" (undefined behaviour)
  frames,     \* the call stack: main, and the handlers that have interrupted it
  stage,      \* how far main has come
  handlers,   \* the signals whose handler is installed
  raised,     \* the signals that have been raised
  server_fd,  \* the listening socket
  g_server_fd,\* whether the handler knows it
  log_file,   \* whether the pointer is not NULL
  file,       \* what it points at: "none", "open", "closed" (and freed)
  buffer,     \* pieces of lines that the stream holds
  disk,       \* pieces of lines in server.log
  finished    \* history: the lines whose plog has returned

logVars == <<log_file, file, buffer, disk, finished>>
vars == <<process, frames, stage, handlers, raised, server_fd, g_server_fd, logVars>>

\* Where a frame is, and the number of main's line it logs.
Frame(by, at, line) == [by |-> by, at |-> at, line |-> line]
Top == frames[Len(frames)]
At(where) == process = "runs" /\ Top.at = where
GoTo(where) == frames' = [frames EXCEPT ![Len(frames)].at = where]

Init ==
  /\ process = "runs" /\ frames = <<Frame("main", "ready", 0)>> /\ stage = "init"
  /\ handlers = {} /\ raised = {} /\ server_fd = "none" /\ g_server_fd = FALSE
  /\ log_file = FALSE /\ file = "none" /\ buffer = << >> /\ disk = << >> /\ finished = {}
-----------------------------------------------------------------------------
(* plog *)

\* localtime locks the time zone; a handler that needs the lock while the
\* program it has interrupted holds it waits for ever.
InLocaltime == {i \in DOMAIN frames : frames[i].at = "unlock"}

Localtime ==
  /\ At("localtime") /\ InLocaltime = {}
  /\ GoTo("unlock")
  /\ UNCHANGED <<process, stage, handlers, raised, server_fd, g_server_fd, logVars>>

LocaltimeReturns ==
  /\ At("unlock") /\ GoTo("check")
  /\ UNCHANGED <<process, stage, handlers, raised, server_fd, g_server_fd, logVars>>

\* Mutant: the handler has nothing to do but to log.
AfterPlog_LogOnly == "ready"

\* Where plog returns to.
AfterPlog == IF Top.by = "main" THEN "ready" ELSE "close_fd"

CheckLogFile ==
  /\ At("check")
  /\ GoTo(IF log_file THEN "prefix" ELSE AfterPlog)
  /\ UNCHANGED <<process, stage, handlers, raised, server_fd, g_server_fd, logVars>>

Line == <<Top.by, Top.line>>
PartAfter == [prefix |-> "body", body |-> "newline", newline |-> "flush"]

\* fprintf, vfprintf, fprintf: the stream may be full and written out.
WritePart ==
  /\ process = "runs" /\ Top.at \in DOMAIN PartAfter /\ file = "open"
  /\ LET pieces == Append(buffer, <<Line, Top.at>>)
     IN  \/ buffer' = pieces /\ UNCHANGED disk
         \/ buffer' = << >> /\ disk' = disk \o pieces
  /\ GoTo(PartAfter[Top.at])
  /\ UNCHANGED <<process, stage, handlers, raised, server_fd, g_server_fd,
                 log_file, file, finished>>

\* Mutant: the line is left to the stream.
Flush_Forgotten ==
  /\ At("flush") /\ file = "open"
  /\ finished' = finished \cup {Line} /\ GoTo(AfterPlog)
  /\ UNCHANGED <<process, stage, handlers, raised, server_fd, g_server_fd,
                 log_file, file, buffer, disk>>

\* fflush: what the stream holds is written, this line last.
Flush ==
  /\ At("flush") /\ file = "open"
  /\ disk' = disk \o buffer /\ buffer' = << >>
  /\ finished' = finished \cup {Line}
  /\ GoTo(AfterPlog)
  /\ UNCHANGED <<process, stage, handlers, raised, server_fd, g_server_fd, log_file, file>>
-----------------------------------------------------------------------------
(* plog_close *)

CheckClose ==
  /\ At("closing")
  /\ GoTo(IF log_file THEN "fclose" ELSE "exit")
  /\ UNCHANGED <<process, stage, handlers, raised, server_fd, g_server_fd, logVars>>

Fclose ==
  /\ At("fclose") /\ file = "open"
  /\ file' = "closed" /\ disk' = disk \o buffer /\ buffer' = << >>
  /\ GoTo("reset")
  /\ UNCHANGED <<process, stage, handlers, raised, server_fd, g_server_fd,
                 log_file, finished>>

\* Mutant: the pointer is not reset.
Reset_Forgotten ==
  /\ At("reset") /\ GoTo("exit")
  /\ UNCHANGED <<process, stage, handlers, raised, server_fd, g_server_fd, logVars>>

\* log_file = NULL
Reset ==
  /\ At("reset") /\ log_file' = FALSE
  /\ GoTo("exit")
  /\ UNCHANGED <<process, stage, handlers, raised, server_fd, g_server_fd,
                 file, buffer, disk, finished>>

\* A stream that has been closed and freed is written, flushed or closed
\* again: the process ends, or nothing comes of it.
FileParts == DOMAIN PartAfter \cup {"flush", "fclose"}
UseClosed ==
  /\ process = "runs" /\ Top.at \in FileParts /\ file = "closed"
  /\ \/ process' = "crashed" /\ UNCHANGED frames
     \/ /\ GoTo(CASE Top.at \in DOMAIN PartAfter -> PartAfter[Top.at]
                  [] Top.at = "flush" -> AfterPlog
                  [] Top.at = "fclose" -> "reset")
        /\ UNCHANGED process
  /\ UNCHANGED <<stage, handlers, raised, server_fd, g_server_fd, logVars>>
-----------------------------------------------------------------------------
(* signal_handler *)

\* Mutant: the log is closed before the last line.
Arrive_CloseFirst(s) ==
  /\ process = "runs" /\ s \notin raised
  /\ raised' = raised \cup {s}
  /\ IF s \in handlers THEN frames' = Append(frames, Frame(s, "closing", 0)) /\ UNCHANGED process
     ELSE process' = "terminated" /\ UNCHANGED frames
  /\ UNCHANGED <<stage, handlers, server_fd, g_server_fd, logVars>>

\* A signal arrives: its handler runs on top of the stack, and begins with plog;
\* without a handler it ends the process.
Arrive(s) ==
  /\ process = "runs" /\ s \notin raised
  /\ raised' = raised \cup {s}
  /\ IF s \in handlers THEN frames' = Append(frames, Frame(s, "localtime", 0)) /\ UNCHANGED process
     ELSE process' = "terminated" /\ UNCHANGED frames
  /\ UNCHANGED <<stage, handlers, server_fd, g_server_fd, logVars>>

CloseServer ==
  /\ At("close_fd")
  /\ server_fd' = IF g_server_fd THEN "closed" ELSE server_fd
  /\ GoTo("closing")
  /\ UNCHANGED <<process, stage, handlers, raised, g_server_fd, logVars>>

\* Mutant: the handler returns to what it has interrupted.
Exit_Returns ==
  /\ At("exit")
  /\ IF Len(frames) > 1 THEN frames' = SubSeq(frames, 1, Len(frames) - 1) /\ UNCHANGED process
     ELSE process' = "exited" /\ UNCHANGED frames
  /\ UNCHANGED <<stage, handlers, raised, server_fd, g_server_fd, logVars>>

\* exit(0) of the handler, return 1 of main.
Exit ==
  /\ At("exit") /\ process' = "exited"
  /\ UNCHANGED <<frames, stage, handlers, raised, server_fd, g_server_fd, logVars>>
-----------------------------------------------------------------------------
(* main *)

MainAt(s) == At("ready") /\ stage = s
Logs == frames' = [frames EXCEPT ![1].at = "localtime", ![1].line = @ + 1]

\* plog_init, whose fopen may fail, and the first line.
PlogInit ==
  /\ MainAt("init")
  /\ \E opens \in BOOLEAN : /\ log_file' = opens
                            /\ file' = IF opens THEN "open" ELSE "none"
  /\ stage' = "sigint" /\ Logs
  /\ UNCHANGED <<process, handlers, raised, server_fd, g_server_fd, buffer, disk, finished>>

\* signal(SIGINT, ...), signal(SIGTERM, ...)
Install ==
  /\ \E s \in Signals :
       /\ MainAt(IF s = "SIGINT" THEN "sigint" ELSE "sigterm")
       /\ handlers' = handlers \cup {s}
       /\ stage' = IF s = "SIGINT" THEN "sigterm" ELSE "start"
  /\ UNCHANGED <<process, frames, raised, server_fd, g_server_fd, logVars>>

\* start_server logs its success or what has failed.
StartServer ==
  /\ MainAt("start") /\ Logs
  /\ \/ server_fd' = "open" /\ stage' = "started"
     \/ stage' = "failed" /\ UNCHANGED server_fd
  /\ UNCHANGED <<process, handlers, raised, g_server_fd, logVars>>

Started ==
  /\ MainAt("started") /\ g_server_fd' = TRUE /\ stage' = "serve"
  /\ UNCHANGED <<process, frames, handlers, raised, server_fd, logVars>>

\* run_epoll_loop logs, and never returns.
Serve ==
  /\ MainAt("serve") /\ frames[1].line < 2 + LINES /\ Logs
  /\ UNCHANGED <<process, stage, handlers, raised, server_fd, g_server_fd, logVars>>

Failed ==
  /\ MainAt("failed") /\ GoTo("closing")
  /\ UNCHANGED <<process, stage, handlers, raised, server_fd, g_server_fd, logVars>>
-----------------------------------------------------------------------------
\* SIGKILL, or the SIGPIPE of EventLoop: what the stream holds is lost.
Killed ==
  /\ process = "runs" /\ process' = "terminated" /\ buffer' = << >>
  /\ UNCHANGED <<frames, stage, handlers, raised, server_fd, g_server_fd,
                 log_file, file, disk, finished>>

Plog == Localtime \/ LocaltimeReturns \/ CheckLogFile \/ WritePart \/ Flush
PlogClose == CheckClose \/ Fclose \/ Reset
Program == \/ Plog \/ PlogClose \/ UseClosed \/ CloseServer \/ Exit
           \/ PlogInit \/ Install \/ StartServer \/ Started \/ Serve \/ Failed

Next == Program \/ Killed \/ \E s \in Signals : Arrive(s)
Spec == Init /\ [][Next]_vars

\* The process is scheduled; nobody need signal it.
FairSpec == Spec /\ WF_vars(Program)
-----------------------------------------------------------------------------
(* Properties *)

Parts == {"prefix", "body", "newline"}
Pieces == (({"main"} \cup Signals) \X (0 .. LINES + 2)) \X Parts

Places == Parts \cup {"ready", "localtime", "unlock", "check", "flush",
                       "close_fd", "closing", "fclose", "reset", "exit"}
Frames == [by : {"main"} \cup Signals, at : Places, line : 0 .. LINES + 2]

\* Type correctness of every variable.
TypeOK ==
  /\ process \in {"runs", "exited", "terminated", "crashed"}
  /\ frames \in Seq(Frames) /\ \A i \in DOMAIN frames : frames[i].at = "ready" => i = 1
  /\ stage \in {"init", "sigint", "sigterm", "start", "started", "serve", "failed"}
  /\ handlers \subseteq Signals /\ raised \subseteq Signals
  /\ server_fd \in {"none", "open", "closed"} /\ {g_server_fd, log_file} \subseteq BOOLEAN
  /\ file \in {"none", "open", "closed"}
  /\ buffer \in Seq(Pieces) /\ disk \in Seq(Pieces)
  /\ finished \subseteq ({"main"} \cup Signals) \X (0 .. LINES + 2)

\* A line whose plog has returned is in server.log whole, and not broken up by
\* the line of a handler, however the process ends (logger.c:40-48).
LinesWhole ==
  \A l \in finished : \E i \in 1 .. Len(disk) - 2 :
    SubSeq(disk, i, i + 2) = << <<l, "prefix">>, <<l, "body">>, <<l, "newline">> >>

\* A closed log file is used only by a handler that has interrupted plog_close
\* between fclose and the reset of the pointer (logger.c:17-22, 40).
ClosedUnused ==
  process = "runs" /\ Top.at \in FileParts /\ file = "closed" =>
    \E i \in 1 .. Len(frames) - 1 : frames[i].at = "reset"

\* The running server exits only after it has logged that it shuts down, if it
\* has a log file and whichever handler has interrupted the other
\* (main.c:201-207).
ShutdownLogged ==
  process = "exited" /\ stage = "serve" /\ file # "none" =>
    finished \cap (Signals \X {0}) # {}

Ended == process # "runs"

\* A signal ends the process, unless it arrives while the program is inside
\* localtime: nothing else keeps the handler from its exit.
StopsOrDeadlocks ==
  \A s \in Signals :
    (s \in raised) ~> (Ended \/ (Top.at = "localtime" /\ InLocaltime # {}))
=============================================================================
