------------------------------ MODULE PidFile ------------------------------
(***************************************************************************)
(* The daemon commands of example/mlink_device_test.c: run, start, stop,   *)
(* restart and status are processes that test, write and remove one pid    *)
(* file without a lock, beside servers that may crash.  A step is one      *)
(* system call that other processes can notice.  The kernel gives the pid  *)
(* of a process that has gone to a new one.                                *)
(***************************************************************************)
EXTENDS Naturals, FiniteSets

CONSTANTS Pids,   \* process ids
          NoPid,
          NoFile, \* the pid file is not there
          Empty   \* it is, with nothing in it

ASSUME PidAssumption == {NoPid, NoFile, Empty} \cap Pids = {}

VARIABLES file,    \* PID_FILE_PATH: NoFile, Empty or a pid
          proc,    \* pid -> process: its command, where it is (pc), the pid it
                   \*   read and the child it forked
          last,    \* history: what the last command said, about its own child or not
          excuse   \* history: what may have gone wrong: commands that overlapped, a
                   \*   recorded pid given to another process, a record not written

pidVars == <<file, proc, last, excuse>>

Gone == [cmd |-> "none", pc |-> "gone", seen |-> NoPid, child |-> NoPid]
Silent == [said |-> "nothing", own |-> FALSE]

PidInit == /\ file = NoFile
           /\ proc = [p \in Pids |-> Gone]
           /\ last = Silent
           /\ excuse = {}

At(p, place) == proc[p].pc = place
Goes(p, place) == proc' = [proc EXCEPT ![p].pc = place]

\* process_is_running: kill(pid, 0) also finds a process that nobody waited for.
process_is_running(p) == ~At(p, "gone")

\* A process ends: a zombie while a start still waits for it; a zombie of its own
\* is then reaped by init.
Ends(p) == [q \in Pids |->
    IF q = p THEN IF \E s \in Pids : proc[s].child = p /\ proc[s].cmd = "start"
                  THEN [Gone EXCEPT !.pc = "zombie"] ELSE Gone
    ELSE IF q = proc[p].child /\ At(q, "zombie") THEN Gone ELSE proc[q]]

exit(p, what, aboutOwn) == /\ proc' = Ends(p)
                           /\ last' = [said |-> what, own |-> aboutOwn]

\* A pid that the file names is given to a new process.
Recycled(p) == IF file = p THEN {"recycled"} ELSE {}

-----------------------------------------------------------------------------
\* A command is issued; it overlaps with another one, or with a server that has
\* not got as far as its record.
issue(p, cmd) ==
    /\ At(p, "gone")
    /\ proc' = [proc EXCEPT ![p] = [Gone EXCEPT !.cmd = cmd, !.pc = "read"]]
    /\ last' = Silent
    /\ excuse' = excuse \cup Recycled(p)
         \cup (IF \E q \in Pids : proc[q].pc \notin {"gone", "zombie", "serve", "cleanup",
                                                     "unlink_own", "returning"}
               THEN {"overlap"} ELSE {})
    /\ UNCHANGED file

\* What follows when no process was found; a start that polls sleeps again.
NotRunning(p) ==
    CASE proc[p].cmd = "run" ->
            proc' = [proc EXCEPT ![p] = [Gone EXCEPT !.cmd = "server", !.pc = "init"]]
            /\ UNCHANGED last
      [] proc[p].cmd = "start" -> Goes(p, IF proc[p].child = NoPid THEN "fork" ELSE "wait")
                                  /\ UNCHANGED last
      [] proc[p].cmd = "restart" ->
            proc' = [proc EXCEPT ![p] = [Gone EXCEPT !.cmd = "start", !.pc = "read"]]
            /\ UNCHANGED last
      [] proc[p].cmd = "stop" -> exit(p, "stopped", FALSE)
      [] proc[p].cmd = "status" -> exit(p, "not running", FALSE)

\* What follows when the recorded process was found.
FoundRunning(p) ==
    CASE proc[p].cmd = "start" /\ proc[p].child # NoPid ->
            exit(p, "started", proc[p].seen = proc[p].child)
      [] proc[p].cmd \in {"stop", "restart"} -> Goes(p, "kill") /\ UNCHANGED last
      [] OTHER -> exit(p, "already running", FALSE)

\* read_pid_file, for get_running_pid and cmd_stop: a file without a number in it
\* is as good as none, and is left there.
read_pid_file(p) ==
    /\ At(p, "read")
    /\ IF file \in Pids
       THEN /\ proc' = [proc EXCEPT ![p].seen = file, ![p].pc = "probe"]
            /\ UNCHANGED last
       ELSE NotRunning(p)
    /\ UNCHANGED <<file, excuse>>

\* get_running_pid and cmd_stop; a run that finds its own pid goes on.
probe(p) ==
    /\ At(p, "probe")
    /\ LET seen == proc[p].seen
       IN  IF ~process_is_running(seen) THEN Goes(p, "unlink") /\ UNCHANGED last
           ELSE IF proc[p].cmd = "run" /\ seen = p THEN NotRunning(p)
           ELSE FoundRunning(p)
    /\ UNCHANGED <<file, excuse>>

\* The record is removed, whatever it says by now.
unlink(p) == /\ At(p, "unlink")
             /\ file' = NoFile
             /\ NotRunning(p)
             /\ UNCHANGED excuse

-----------------------------------------------------------------------------
\* cmd_start forks; the child is run_device_server.
fork(p) ==
    /\ At(p, "fork")
    /\ \E c \in Pids :
          /\ At(c, "gone")
          /\ proc' = [proc EXCEPT ![c] = [Gone EXCEPT !.cmd = "server", !.pc = "init"],
                                  ![p].child = c, ![p].pc = "wait"]
          /\ excuse' = excuse \cup Recycled(c)
    /\ UNCHANGED <<file, last>>

fork_fails(p) == At(p, "fork") /\ exit(p, "failed", FALSE) /\ UNCHANGED <<file, excuse>>

\* Faulty variant: a child that has not ended is taken to have started.
start_polls_unread(p) == /\ At(p, "wait")
                         /\ IF At(proc[p].child, "zombie") THEN exit(p, "failed", FALSE)
                            ELSE exit(p, "started", file = proc[p].child)
                         /\ UNCHANGED <<file, excuse>>

\* The loop of cmd_start: the child has ended, or the record is looked at again,
\* or the time is over.
start_polls(p) ==
    /\ At(p, "wait")
    /\ IF At(proc[p].child, "zombie") THEN exit(p, "failed", FALSE)
       ELSE \/ proc' = [proc EXCEPT ![p].seen = NoPid, ![p].pc = "read"] /\ UNCHANGED last
            \/ exit(p, "timed out", FALSE)
    /\ UNCHANGED <<file, excuse>>

\* cmd_stop sends SIGTERM.  A server takes note of it and a zombie does not mind;
\* any other process, with a recycled pid, dies of it, this command too.
kill(p) ==
    /\ At(p, "kill")
    /\ LET seen == proc[p].seen
       IN  IF ~process_is_running(seen) THEN exit(p, "failed", FALSE)
           ELSE /\ proc' = IF proc[seen].cmd = "server" \/ proc[seen].pc \in {"zombie", "returning"}
                           THEN [proc EXCEPT ![p].pc = "stopping"]
                           ELSE IF seen = p THEN Ends(p)
                           ELSE [Ends(seen) EXCEPT ![p].pc = "stopping"]
                /\ UNCHANGED last
    /\ UNCHANGED <<file, excuse>>

\* The process is not this user's (EPERM), which process_is_running takes for running.
kill_refused(p) == At(p, "kill") /\ exit(p, "failed", FALSE) /\ UNCHANGED <<file, excuse>>

\* Faulty variant: a stop whose time is over removes the record all the same.
stop_polls_gives_up(p) == /\ At(p, "stopping")
                          /\ Goes(p, "unlink")
                          /\ UNCHANGED <<file, excuse, last>>

\* The loop of cmd_stop: the process is gone, or the time is over.
stop_polls(p) ==
    /\ At(p, "stopping")
    /\ IF process_is_running(proc[p].seen) THEN exit(p, "timed out", FALSE)
       ELSE Goes(p, "unlink") /\ UNCHANGED last
    /\ UNCHANGED <<file, excuse>>

-----------------------------------------------------------------------------
\* run_device_server: the connection and the tools, which may fail.
server_init(p) == /\ At(p, "init")
                  /\ Goes(p, "create") \/ proc' = Ends(p)
                  /\ UNCHANGED <<file, last, excuse>>

\* write_pid_file: fopen empties the file, or fails and the server ends.
pid_file_create(p) == /\ At(p, "create")
                      /\ \/ file' = Empty /\ Goes(p, "write")
                         \/ proc' = Ends(p) /\ UNCHANGED file
                      /\ UNCHANGED <<last, excuse>>

\* What fprintf and fclose return is not looked at: on a full disk the server
\* goes on without a record.
pid_file_write(p) == /\ At(p, "write")
                     /\ \/ file' = p /\ UNCHANGED excuse
                        \/ excuse' = excuse \cup {"disk"} /\ UNCHANGED file
                     /\ Goes(p, "serve")
                     /\ UNCHANGED last

\* The main loop has seen SIGTERM, or SIGINT, or no thread could be created for the
\* server; it is destroyed.
server_ends(p) == /\ At(p, "serve")
                  /\ Goes(p, "cleanup")
                  /\ UNCHANGED <<file, last, excuse>>

\* What is left of run_device_server has nothing to do with the record, but the process is
\* still there.
Returning(p) == proc' = [proc EXCEPT ![p] = [Gone EXCEPT !.pc = "returning"]]

\* unlink_pid_file_if_current: its read and its unlink.
cleanup_read(p) == /\ At(p, "cleanup")
                   /\ IF file = p THEN Goes(p, "unlink_own") ELSE Returning(p)
                   /\ UNCHANGED <<file, last, excuse>>

cleanup_unlink(p) == /\ At(p, "unlink_own")
                     /\ file' = NoFile
                     /\ Returning(p)
                     /\ UNCHANGED <<last, excuse>>

server_returns(p) == /\ At(p, "returning")
                     /\ proc' = Ends(p)
                     /\ UNCHANGED <<file, last, excuse>>

\* A server crashes, or is killed, and leaves its record behind.
server_crash(p) == /\ proc[p].cmd = "server" /\ ~At(p, "zombie")
                   /\ proc' = Ends(p)
                   /\ UNCHANGED <<file, last, excuse>>

PidNext == \E p \in Pids :
    \/ \E cmd \in {"run", "start", "stop", "restart", "status"} : issue(p, cmd)
    \/ read_pid_file(p) \/ probe(p) \/ unlink(p)
    \/ fork(p) \/ fork_fails(p) \/ start_polls(p)
    \/ kill(p) \/ kill_refused(p) \/ stop_polls(p)
    \/ server_init(p) \/ pid_file_create(p) \/ pid_file_write(p)
    \/ server_ends(p) \/ cleanup_read(p) \/ cleanup_unlink(p)
    \/ server_returns(p) \/ server_crash(p)

PidSpec == PidInit /\ [][PidNext]_pidVars
-----------------------------------------------------------------------------
Servers == {p \in Pids : proc[p].pc \in {"init", "create", "write", "serve"}}

\* Over any sequence of commands, crashes, timeouts and stale records, there is at
\* most one server, and one that serves is the one on record, unless two commands
\* overlapped, a recorded pid was reused or the record could not be written.
OneRecordedServer ==
    excuse = {} => /\ Cardinality(Servers) <= 1
                   /\ \A p \in Pids : At(p, "serve") => file = p

\* With the same exceptions commands tell the truth, although they only look at the
\* file: after a stop that reports success no server is left, and a start that says
\* "started" speaks of its own child.
ReportsTrue ==
    excuse = {} => /\ last.said = "stopped" => Servers = {}
                   /\ last.said = "started" => last.own
=============================================================================
