---------------------------- MODULE PidFileProofs ----------------------------
(***************************************************************************)
(* Proofs about PidFile, for any number of process ids: as long as no two  *)
(* commands overlap, no recorded pid is reused and every record is         *)
(* written, there is one server, it is the one on record while it serves,  *)
(* and commands tell the truth.                                            *)
(***************************************************************************)
EXTENDS PidFile, FiniteSetTheorems, TLAPS

Commands == {"run", "start", "stop", "restart", "status"}
CommandPlaces == {"read", "probe", "unlink", "fork", "wait", "kill", "stopping"}
StartingPlaces == {"init", "create", "write"}
RecordedPlaces == {"serve", "cleanup", "unlink_own"}

Process == [cmd : Commands \cup {"server", "none"},
            pc : CommandPlaces \cup StartingPlaces \cup RecordedPlaces \cup {"gone", "returning", "zombie"},
            seen : Pids \cup {NoPid}, child : Pids \cup {NoPid}]

PidTypeOK == /\ file \in Pids \cup {NoFile, Empty}
             /\ proc \in [Pids -> Process]
             /\ last.own \in BOOLEAN

Commanding(p) == proc[p].pc \in CommandPlaces
Starting(p) == proc[p].pc \in StartingPlaces   \* a server that has no record yet
Recorded(p) == proc[p].pc \in RecordedPlaces
Live(p) == Starting(p) \/ Recorded(p)
Ending(p) == proc[p].pc \in {"returning", "zombie"}

\* Commands and servers are where their kind can be.
KindsAgree == \A p \in Pids :
    /\ Live(p) <=> proc[p].cmd = "server"
    /\ Commanding(p) <=> proc[p].cmd \in Commands
    /\ proc[p].pc \in {"kill", "stopping"} => proc[p].cmd \in {"stop", "restart"}
    /\ proc[p].pc \in {"fork", "wait"} => proc[p].cmd = "start"
    /\ proc[p].pc \in {"probe", "kill", "stopping"} => proc[p].seen \in Pids
    /\ proc[p].pc = "returning" => proc[p].child = NoPid

\* There is one command, and one server, that is on record once it serves.
OneOfEach == /\ \A p, q \in Pids : Commanding(p) /\ Commanding(q) => p = q
             /\ \A p, q \in Pids : Live(p) /\ Live(q) => p = q
             /\ \A p \in Pids : Recorded(p) => file = p

\* A command that has not forked knows the only server there can be: the one it read.
CommandKnows == \A p \in Pids : Commanding(p) /\ proc[p].child = NoPid =>
    /\ proc[p].pc # "wait"
    /\ \A q \in Pids : ~Starting(q)
    /\ proc[p].pc \in {"probe", "kill", "stopping"} => \A q \in Pids : Live(q) => q = proc[p].seen
    /\ proc[p].pc \in {"fork", "unlink"} => \A q \in Pids : ~Live(q)
    /\ proc[p].pc = "fork" => file \notin Pids

\* A start that polls has the only server as its child, and nobody else is on record.
StartPolls == \A p \in Pids : Commanding(p) /\ proc[p].child # NoPid =>
    /\ proc[p].cmd = "start" /\ proc[p].pc \in {"read", "probe", "wait"}
    /\ Live(proc[p].child) \/ Ending(proc[p].child)
    /\ \A q \in Pids : Live(q) => q = proc[p].child
    /\ file \in Pids => file = proc[p].child
    /\ proc[p].pc = "probe" => proc[p].seen = proc[p].child

\* What was said is still true: nothing begins between two commands.
SaidIsTrue == /\ last.said = "stopped" => \A p \in Pids : ~Live(p) /\ ~Commanding(p)
              /\ last.said = "started" => last.own

Orderly == OneOfEach /\ CommandKnows /\ StartPolls /\ SaidIsTrue

\* The inductive invariant.
PidInv == PidTypeOK /\ KindsAgree /\ (excuse = {} => Orderly)

-----------------------------------------------------------------------------
\* A process that ends becomes a zombie or is gone, and takes its own zombie along.
LEMMA EndsIs ==
  ASSUME PidTypeOK, NEW p \in Pids
  PROVE  /\ Ends(p) \in [Pids -> Process]
         /\ \/ Ends(p)[p] = Gone
            \/ Ends(p)[p] = [Gone EXCEPT !.pc = "zombie"]
         /\ (\E s \in Pids : proc[s].child = p /\ proc[s].cmd = "start")
               => Ends(p)[p] = [Gone EXCEPT !.pc = "zombie"]
         /\ \A q \in Pids \ {p} : \/ Ends(p)[q] = proc[q]
                                  \/ Ends(p)[q] = Gone /\ At(q, "zombie")
<1>1. Gone \in Process /\ [Gone EXCEPT !.pc = "zombie"] \in Process
  BY DEF Gone, Process, Commands, CommandPlaces, StartingPlaces, RecordedPlaces
<1> QED
  BY <1>1 DEF PidTypeOK, Ends, At

\* Nobody is there when the machine starts.
LEMMA PidInitInv == PidInit => PidInv
<1> SUFFICES ASSUME PidInit PROVE PidInv
  OBVIOUS
<1>1. PidTypeOK
  BY DEF PidInit, PidTypeOK, Gone, Silent, Process
<1>2. \A p \in Pids : /\ proc[p].cmd = "none" /\ ~Commanding(p) /\ ~Live(p)
                      /\ proc[p].pc = "gone"
  BY DEF PidInit, Gone, Commanding, Live, Starting, Recorded, CommandPlaces,
     StartingPlaces, RecordedPlaces
<1>3. last.said = "nothing"
  BY DEF PidInit, Silent
<1>4. KindsAgree /\ OneOfEach /\ CommandKnows /\ StartPolls /\ SaidIsTrue
  BY <1>2, <1>3 DEF KindsAgree, OneOfEach, CommandKnows, StartPolls, SaidIsTrue, Live, Commands
<1> QED
  BY <1>1, <1>4 DEF PidInv, Orderly

-----------------------------------------------------------------------------
\* What is left of a process that ended, and of the others.
LEMMA AfterEnd ==
  ASSUME PidTypeOK, NEW p \in Pids, proc' = Ends(p)
  PROVE  /\ ~Live(p)' /\ ~Commanding(p)' /\ proc'[p].cmd = "none"
         /\ \A q \in Pids \ {p} : proc'[q] = proc[q] \/ (At(q, "zombie") /\ At(q, "gone")')
         /\ \A q \in Pids : /\ Live(q)' <=> Live(q) /\ q # p
                            /\ Commanding(q)' <=> Commanding(q) /\ q # p
                            /\ Live(q)' \/ Commanding(q)' => proc'[q] = proc[q]
                            /\ proc'[q] = proc[q] \/ (proc'[q].cmd = "none" /\ proc'[q].pc \in {"gone", "zombie"})
<1>1. /\ proc'[p].pc \in {"gone", "zombie"} /\ proc'[p].cmd = "none"
      /\ \A q \in Pids \ {p} : \/ proc'[q] = proc[q]
                               \/ At(q, "zombie") /\ proc'[q] = Gone
  BY EndsIs DEF Gone
<1>2. Gone.pc = "gone" /\ Gone.cmd = "none"
  BY DEF Gone
<1>3. ASSUME NEW q \in Pids, proc'[q].pc \in {"gone", "zombie"}
      PROVE  ~Live(q)' /\ ~Commanding(q)'
  BY <1>3 DEF Live, Starting, Recorded, Commanding, StartingPlaces, RecordedPlaces, CommandPlaces
<1>4. ASSUME NEW q \in Pids, At(q, "zombie")
      PROVE  ~Live(q) /\ ~Commanding(q)
  BY <1>4 DEF Live, Starting, Recorded, Commanding, At, StartingPlaces, RecordedPlaces, CommandPlaces
<1>5. ASSUME NEW q \in Pids, proc'[q] = proc[q]
      PROVE  (Live(q)' <=> Live(q)) /\ (Commanding(q)' <=> Commanding(q))
  BY <1>5 DEF Live, Starting, Recorded, Commanding
<1>6. ~Live(p)' /\ ~Commanding(p)' /\ proc'[p].cmd = "none"
  BY <1>1, <1>3
<1>7. ASSUME NEW q \in Pids, q # p
      PROVE  /\ proc'[q] = proc[q] \/ (At(q, "zombie") /\ At(q, "gone")')
             /\ Live(q)' <=> Live(q)
             /\ Commanding(q)' <=> Commanding(q)
             /\ Live(q)' \/ Commanding(q)' => proc'[q] = proc[q]
             /\ proc'[q] = proc[q] \/ (proc'[q].cmd = "none" /\ proc'[q].pc \in {"gone", "zombie"})
  <2>1. CASE proc'[q] = proc[q]
    BY <2>1, <1>5
  <2>2. CASE At(q, "zombie") /\ proc'[q] = Gone
    <3>1. proc'[q].pc = "gone" /\ proc'[q].cmd = "none"
      BY <2>2, <1>2
    <3> QED
      BY <2>2, <3>1, <1>3, <1>4 DEF At
  <2> QED
    BY <2>1, <2>2, <1>1, <1>7
<1> QED
  BY <1>1, <1>6, <1>7

\* Commands and servers stay what they are when one ends.
LEMMA EndKeepsKinds ==
  ASSUME PidTypeOK, KindsAgree, NEW p \in Pids, proc' = Ends(p)
  PROVE  KindsAgree'
<1>1. \A q \in Pids : proc'[q] = proc[q] \/ /\ proc'[q].cmd = "none" /\ ~Live(q)' /\ ~Commanding(q)'
                                            /\ proc'[q].pc \in {"gone", "zombie"}
  BY AfterEnd
<1>2. \A q \in Pids : proc'[q] = proc[q] => (Live(q)' <=> Live(q)) /\ (Commanding(q)' <=> Commanding(q))
  BY DEF Live, Starting, Recorded, Commanding
<1> QED
  BY <1>1, <1>2 DEF KindsAgree, Commands

\* A server that is on its way out is neither a server nor a command any more.
LEMMA ReturningIs ==
  ASSUME PidTypeOK, NEW p \in Pids, Returning(p)
  PROVE  /\ proc' \in [Pids -> Process] /\ proc'[p].pc = "returning" /\ proc'[p].child = NoPid
         /\ ~Live(p)' /\ ~Commanding(p)' /\ proc'[p].cmd = "none"
         /\ \A q \in Pids \ {p} : proc'[q] = proc[q]
  BY DEF PidTypeOK, Returning, Gone, Process, Live, Starting, Recorded, Commanding,
     StartingPlaces, RecordedPlaces, CommandPlaces

\* A server ends, or all but ends: its start finds a zombie, or will; nothing else
\* depends on it.
LEMMA ServerEnds ==
  ASSUME PidTypeOK, KindsAgree, Orderly, NEW p \in Pids, Live(p), UNCHANGED last,
         proc' = Ends(p) \/ Returning(p),
         file' = file \/ (Recorded(p) /\ file' = NoFile)
  PROVE  Orderly'
<1>0. OneOfEach /\ CommandKnows /\ StartPolls /\ SaidIsTrue
  BY DEF Orderly
<1>2. \A q \in Pids : ~Live(q)' /\ (Commanding(q)' <=> Commanding(q))
                      /\ (Commanding(q) => proc'[q] = proc[q])
  <2>1. ~Commanding(p)
    BY <1>0 DEF KindsAgree, Commands
  <2>2. CASE proc' = Ends(p)
    BY <1>0, <2>1, <2>2, AfterEnd DEF OneOfEach
  <2>3. CASE Returning(p)
    <3>1. \A q \in Pids \ {p} : /\ Live(q)' <=> Live(q)
                                /\ Commanding(q)' <=> Commanding(q)
                                /\ proc'[q] = proc[q]
      BY <2>3, ReturningIs DEF Live, Starting, Recorded, Commanding
    <3> QED
      BY <1>0, <2>1, <2>3, <3>1, ReturningIs DEF OneOfEach
  <2> QED
    BY <2>2, <2>3
<1>3. OneOfEach' /\ CommandKnows' /\ SaidIsTrue'
  <2>1. OneOfEach' /\ SaidIsTrue'
    BY <1>0, <1>2 DEF OneOfEach, SaidIsTrue, Live
  <2>2. CommandKnows'
    BY <1>0, <1>2, PidAssumption DEF CommandKnows, Live
  <2> QED
    BY <2>1, <2>2
<1>4. StartPolls'
  <2> SUFFICES ASSUME NEW s \in Pids, Commanding(s)', proc'[s].child # NoPid
               PROVE  /\ proc'[s].cmd = "start" /\ proc'[s].pc \in {"read", "probe", "wait"}
                      /\ Ending(proc[s].child)'
                      /\ file' \in Pids => file' = proc'[s].child
                      /\ proc'[s].pc = "probe" => proc'[s].seen = proc'[s].child
    BY <1>2 DEF StartPolls
  <2>1. Commanding(s) /\ proc'[s] = proc[s]
    BY <1>2
  <2>2. p = proc[s].child /\ proc[s].cmd = "start"
    BY <1>0, <2>1 DEF StartPolls
  <2>3. Ending(p)'
    <3>1. CASE proc' = Ends(p)
      BY <2>2, <3>1, EndsIs DEF Gone, Ending
    <3>2. CASE Returning(p)
      BY <3>2, ReturningIs DEF Ending
    <3> QED
      BY <3>1, <3>2
  <2> QED
    BY <1>0, <2>1, <2>2, <2>3, PidAssumption DEF StartPolls
<1> QED
  BY <1>3, <1>4 DEF Orderly

\* A server that was on its way out has ended: its start finds a zombie.
LEMMA ServerReturns ==
  ASSUME PidTypeOK, KindsAgree, Orderly, NEW p \in Pids, server_returns(p)
  PROVE  Orderly'
<1>0. OneOfEach /\ CommandKnows /\ StartPolls /\ SaidIsTrue
  BY DEF Orderly
<1>1. /\ proc[p].pc = "returning" /\ proc[p].child = NoPid /\ ~Live(p) /\ ~Commanding(p)
      /\ proc' = Ends(p) /\ UNCHANGED <<file, last>>
  BY DEF server_returns, At, KindsAgree, Live, Starting, Recorded, Commanding,
     StartingPlaces, RecordedPlaces, CommandPlaces
<1>2. \A q \in Pids \ {p} : proc'[q] = proc[q]
  BY <1>1, PidAssumption DEF Ends, PidTypeOK
<1>3. /\ ~Live(p)' /\ ~Starting(p)' /\ ~Recorded(p)' /\ ~Commanding(p)'
      /\ \A q \in Pids \ {p} : /\ Live(q)' <=> Live(q)
                               /\ Starting(q)' <=> Starting(q)
                               /\ Recorded(q)' <=> Recorded(q)
                               /\ Commanding(q)' <=> Commanding(q)
  BY <1>1, <1>2, AfterEnd DEF Live, Starting, Recorded, Commanding
<1>4. OneOfEach' /\ SaidIsTrue'
  BY <1>0, <1>1, <1>3 DEF OneOfEach, SaidIsTrue
<1>5. CommandKnows'
  BY <1>0, <1>1, <1>2, <1>3 DEF CommandKnows
<1>6. StartPolls'
  <2> SUFFICES ASSUME NEW s \in Pids, Commanding(s)', proc'[s].child # NoPid
               PROVE  Live(proc[s].child)' \/ Ending(proc[s].child)'
    BY <1>0, <1>1, <1>2, <1>3 DEF StartPolls
  <2>1. Commanding(s) /\ proc'[s] = proc[s] /\ proc[s].child \in Pids
    BY <1>2, <1>3 DEF PidTypeOK, Process
  <2>2. CASE proc[s].child = p
    BY <1>0, <1>1, <2>1, <2>2, EndsIs DEF StartPolls, Gone, Ending
  <2>3. CASE proc[s].child # p
    BY <1>0, <1>2, <1>3, <2>1, <2>3 DEF StartPolls, Ending
  <2> QED
    BY <2>2, <2>3
<1> QED
  BY <1>4, <1>5, <1>6 DEF Orderly

\* A command ends, saying what is true: there is no command then.
LEMMA CommandEnds ==
  ASSUME PidTypeOK, KindsAgree, Orderly, NEW p \in Pids, Commanding(p), proc' = Ends(p),
         file' = file \/ \A q \in Pids : ~Live(q),
         last'.said = "stopped" => \A q \in Pids : ~Live(q),
         last'.said = "started" => last'.own
  PROVE  Orderly'
<1>0. OneOfEach
  BY DEF Orderly
<1>2. \A q \in Pids : ~Commanding(q)' /\ (Live(q)' => Live(q) /\ proc'[q] = proc[q])
  BY <1>0, AfterEnd DEF OneOfEach
<1>3. OneOfEach'
  BY <1>0, <1>2 DEF OneOfEach, Live, Recorded
<1>4. CommandKnows' /\ StartPolls' /\ SaidIsTrue'
  BY <1>2 DEF CommandKnows, StartPolls, SaidIsTrue
<1> QED
  BY <1>3, <1>4 DEF Orderly

\* The steps of a server.
LEMMA ServerKeepsOrder ==
  ASSUME PidTypeOK, KindsAgree, Orderly, NEW p \in Pids, excuse' = {},
         \/ server_init(p) \/ pid_file_create(p) \/ pid_file_write(p)
         \/ server_ends(p) \/ cleanup_read(p) \/ cleanup_unlink(p) \/ server_crash(p)
  PROVE  Orderly'
<1> USE DEF PidTypeOK, Orderly, KindsAgree, OneOfEach, CommandKnows, StartPolls, SaidIsTrue,
        Commanding, Live, Starting, Recorded, At, Goes,
        Process, Commands, CommandPlaces, StartingPlaces, RecordedPlaces
<1>1. CASE server_init(p) /\ Goes(p, "create")
  BY <1>1 DEF server_init
<1>2. CASE pid_file_create(p) /\ Goes(p, "write")
  BY <1>2, PidAssumption DEF pid_file_create
<1>3. CASE pid_file_write(p)
  BY <1>3 DEF pid_file_write
<1>4. CASE server_ends(p)
  BY <1>4 DEF server_ends
<1>5. CASE cleanup_read(p) /\ Goes(p, "unlink_own")
  BY <1>5 DEF cleanup_read
<1>6. CASE \/ proc' = Ends(p) /\ \/ server_init(p) \/ server_crash(p)
                                 \/ pid_file_create(p) /\ UNCHANGED file
           \/ Returning(p) /\ (cleanup_read(p) \/ cleanup_unlink(p))
  <2>1. Live(p) /\ UNCHANGED last
    BY <1>6 DEF server_init, pid_file_create, cleanup_read, cleanup_unlink, server_crash
  <2>2. file' = file \/ (Recorded(p) /\ file' = NoFile)
    BY <1>6 DEF server_init, cleanup_read, cleanup_unlink, server_crash
  <2>3. proc' = Ends(p) \/ Returning(p)
    BY <1>6
  <2> QED
    BY ONLY PidTypeOK, KindsAgree, Orderly, <2>1, <2>2, <2>3, ServerEnds
<1> QED
  BY <1>1, <1>2, <1>3, <1>4, <1>5, <1>6
     DEF server_init, pid_file_create, cleanup_read, cleanup_unlink, server_crash

-----------------------------------------------------------------------------
\* What a command does when it finds no process, one disjunct for each command.
LEMMA NotRunningIs ==
  ASSUME KindsAgree, NEW p \in Pids, Commanding(p), NotRunning(p)
  PROVE  \/ /\ proc[p].cmd = "run" /\ UNCHANGED last
            /\ proc' = [proc EXCEPT ![p] = [Gone EXCEPT !.cmd = "server", !.pc = "init"]]
         \/ /\ proc[p].cmd = "start" /\ UNCHANGED last
            /\ Goes(p, IF proc[p].child = NoPid THEN "fork" ELSE "wait")
         \/ /\ proc[p].cmd = "restart" /\ UNCHANGED last
            /\ proc' = [proc EXCEPT ![p] = [Gone EXCEPT !.cmd = "start", !.pc = "read"]]
         \/ proc[p].cmd = "stop" /\ exit(p, "stopped", FALSE)
         \/ proc[p].cmd = "status" /\ exit(p, "not running", FALSE)
<1>1. proc[p].cmd \in Commands
  BY DEF KindsAgree
<1> QED
  BY <1>1 DEF NotRunning, Commands

\* What it does when it finds one.
LEMMA FoundRunningIs ==
  ASSUME KindsAgree, NEW p \in Pids, Commanding(p), FoundRunning(p)
  PROVE  \/ /\ proc[p].cmd = "start" /\ proc[p].child # NoPid
            /\ exit(p, "started", proc[p].seen = proc[p].child)
         \/ proc[p].cmd \in {"stop", "restart"} /\ Goes(p, "kill") /\ UNCHANGED last
         \/ /\ ~(proc[p].cmd = "start" /\ proc[p].child # NoPid)
            /\ exit(p, "already running", FALSE)
BY DEF FoundRunning

\* A process whose command and place belong together.
KindOK(r) == /\ r.pc \in StartingPlaces \cup RecordedPlaces <=> r.cmd = "server"
             /\ r.pc \in CommandPlaces <=> r.cmd \in Commands
             /\ r.pc \in {"kill", "stopping"} => r.cmd \in {"stop", "restart"}
             /\ r.pc \in {"fork", "wait"} => r.cmd = "start"
             /\ r.pc \in {"probe", "kill", "stopping"} => r.seen \in Pids
             /\ r.pc = "returning" => r.child = NoPid

\* One process becomes another one, that is where its kind can be.
LEMMA SetKeepsKinds ==
  ASSUME PidTypeOK, KindsAgree, NEW p \in Pids, NEW r \in Process, KindOK(r),
         proc' = [proc EXCEPT ![p] = r]
  PROVE  proc' \in [Pids -> Process] /\ KindsAgree'
<1>1. proc' \in [Pids -> Process] /\ proc'[p] = r /\ \A q \in Pids \ {p} : proc'[q] = proc[q]
  BY DEF PidTypeOK
<1>2. \A q \in Pids : Live(q)' <=> proc'[q].pc \in StartingPlaces \cup RecordedPlaces
  BY DEF Live, Starting, Recorded
<1>3. \A q \in Pids : Live(q) <=> proc[q].pc \in StartingPlaces \cup RecordedPlaces
  BY DEF Live, Starting, Recorded
<1> QED
  BY <1>1, <1>2, <1>3 DEF KindsAgree, KindOK, Commanding

\* New processes: commands, and servers, begin where they should.
LEMMA NewProcesses ==
  /\ \A cmd \in Commands : LET r == [Gone EXCEPT !.cmd = cmd, !.pc = "read"]
                           IN  r \in Process /\ KindOK(r)
  /\ LET r == [Gone EXCEPT !.cmd = "server", !.pc = "init"] IN r \in Process /\ KindOK(r)
BY DEF Gone, KindOK, Process, Commands, CommandPlaces, StartingPlaces, RecordedPlaces

\* A process changes places within its kind.
LEMMA GoesKeepsKinds ==
  ASSUME PidTypeOK, KindsAgree, NEW p \in Pids, NEW place, Goes(p, place),
         \/ Live(p) /\ place \in StartingPlaces \cup RecordedPlaces
         \/ /\ Commanding(p) /\ place \in CommandPlaces
            /\ place \in {"kill", "stopping"} => proc[p].cmd \in {"stop", "restart"}
            /\ place \in {"fork", "wait"} => proc[p].cmd = "start"
            /\ place \in {"probe", "kill", "stopping"} => proc[p].seen \in Pids
  PROVE  proc' \in [Pids -> Process] /\ KindsAgree'
<1> DEFINE r == [proc[p] EXCEPT !.pc = place]
<1>1. proc[p] \in Process /\ proc' = [proc EXCEPT ![p] = r]
  BY DEF PidTypeOK, Goes
<1>2. r.pc = place /\ r.cmd = proc[p].cmd /\ r.seen = proc[p].seen /\ r \in Process
  BY <1>1 DEF Process
<1>3. KindOK(r)
  <2>1. CASE Live(p) /\ place \in StartingPlaces \cup RecordedPlaces
    <3>1. r.cmd = "server"
      BY <2>1, <1>2 DEF KindsAgree
    <3> QED
      BY <2>1, <3>1, <1>2 DEF KindOK, Commands, CommandPlaces, StartingPlaces, RecordedPlaces
  <2>2. CASE Commanding(p) /\ place \in CommandPlaces
    <3>1. r.cmd \in Commands
      BY <2>2, <1>2 DEF KindsAgree
    <3>2. place \in {"kill", "stopping"} => r.cmd \in {"stop", "restart"}
      BY <2>2, <1>2 DEF StartingPlaces, RecordedPlaces, CommandPlaces
    <3>3. place \in {"fork", "wait"} => r.cmd = "start"
      BY <2>2, <1>2 DEF StartingPlaces, RecordedPlaces, CommandPlaces
    <3>4. place \in {"probe", "kill", "stopping"} => r.seen \in Pids
      BY <2>2, <1>2 DEF StartingPlaces, RecordedPlaces, CommandPlaces
    <3> QED
      BY <2>2, <3>1, <3>2, <3>3, <3>4, <1>2 DEF KindOK, Commands, CommandPlaces, StartingPlaces, RecordedPlaces
  <2> QED
    BY <2>1, <2>2
<1> HIDE DEF r
<1> QED
  BY <1>1, <1>2, <1>3, SetKeepsKinds

\* A process that exits leaves its type and kinds in order, whatever it says.
LEMMA ExitKeepsKinds ==
  ASSUME PidTypeOK, KindsAgree, NEW p \in Pids, NEW what, NEW own \in BOOLEAN,
         exit(p, what, own)
  PROVE  proc' \in [Pids -> Process] /\ KindsAgree' /\ last'.own \in BOOLEAN
BY EndsIs, EndKeepsKinds DEF exit

\* So do the two answers to "is it running".
LEMMA NotRunningKeepsKinds ==
  ASSUME PidTypeOK, KindsAgree, NEW p \in Pids, Commanding(p), NotRunning(p)
  PROVE  proc' \in [Pids -> Process] /\ KindsAgree' /\ last'.own \in BOOLEAN
<1>0. last.own \in BOOLEAN
  BY DEF PidTypeOK
<1>1. CASE /\ proc[p].cmd = "run" /\ UNCHANGED last
           /\ proc' = [proc EXCEPT ![p] = [Gone EXCEPT !.cmd = "server", !.pc = "init"]]
  BY <1>0, <1>1, NewProcesses, SetKeepsKinds
<1>2. CASE /\ proc[p].cmd = "start" /\ UNCHANGED last
           /\ Goes(p, IF proc[p].child = NoPid THEN "fork" ELSE "wait")
  <2>1. PICK place \in {"fork", "wait"} : Goes(p, place)
    BY <1>2
  <2>2. place \in CommandPlaces /\ place \notin {"probe", "kill", "stopping"}
    BY DEF CommandPlaces
  <2> QED
    BY <1>0, <1>2, <2>1, <2>2, GoesKeepsKinds
<1>3. CASE /\ proc[p].cmd = "restart" /\ UNCHANGED last
           /\ proc' = [proc EXCEPT ![p] = [Gone EXCEPT !.cmd = "start", !.pc = "read"]]
  <2>1. "start" \in Commands
    BY DEF Commands
  <2> QED
    BY <1>0, <1>3, <2>1, NewProcesses, SetKeepsKinds
<1>4. CASE exit(p, "stopped", FALSE) \/ exit(p, "not running", FALSE)
  BY <1>4, ExitKeepsKinds
<1> QED
  BY <1>1, <1>2, <1>3, <1>4, NotRunningIs

\* A command that finds the server running (and so prints, waits or kills) keeps the kinds of processes.
LEMMA FoundRunningKeepsKinds ==
  ASSUME PidTypeOK, KindsAgree, NEW p \in Pids, At(p, "probe"), FoundRunning(p)
  PROVE  proc' \in [Pids -> Process] /\ KindsAgree' /\ last'.own \in BOOLEAN
<1>0. Commanding(p) /\ proc[p].seen \in Pids
  BY DEF Commanding, At, CommandPlaces, KindsAgree
<1>1. CASE exit(p, "started", proc[p].seen = proc[p].child) \/ exit(p, "already running", FALSE)
  BY <1>1, ExitKeepsKinds
<1>2. CASE proc[p].cmd \in {"stop", "restart"} /\ Goes(p, "kill") /\ UNCHANGED last
  <2>1. "kill" \in CommandPlaces /\ "kill" \notin {"fork", "wait"}
    BY DEF CommandPlaces
  <2> QED
    BY <1>0, <1>2, <2>1, GoesKeepsKinds DEF PidTypeOK
<1> QED
  BY <1>0, <1>1, <1>2, FoundRunningIs

-----------------------------------------------------------------------------
\* A SIGTERM: processes stay of their kind, the one that dies of it included.
LEMMA KillKeepsKinds ==
  ASSUME PidTypeOK, KindsAgree, NEW p \in Pids, kill(p)
  PROVE  proc' \in [Pids -> Process] /\ KindsAgree' /\ last'.own \in BOOLEAN
<1> DEFINE seen == proc[p].seen
<1>0. /\ Commanding(p) /\ seen \in Pids /\ proc[p].cmd \in {"stop", "restart"}
      /\ last.own \in BOOLEAN
  BY DEF kill, At, Commanding, CommandPlaces, KindsAgree, PidTypeOK
<1>1. CASE exit(p, "failed", FALSE)
  BY <1>1, ExitKeepsKinds
<1>2. CASE Goes(p, "stopping") /\ UNCHANGED last
  <2>1. "stopping" \in CommandPlaces /\ "stopping" \notin {"fork", "wait"}
    BY DEF CommandPlaces
  <2> QED
    BY <1>0, <1>2, <2>1, GoesKeepsKinds
<1>3. CASE proc' = Ends(p) /\ UNCHANGED last
  BY <1>0, <1>3, EndsIs, EndKeepsKinds
<1>4. CASE /\ proc' = [Ends(seen) EXCEPT ![p].pc = "stopping"] /\ UNCHANGED last
           /\ seen # p
  <2> DEFINE r == [proc[p] EXCEPT !.pc = "stopping"]
  <2>1. Ends(seen) \in [Pids -> Process] /\ Ends(seen)[p] = proc[p]
    <3>1. ~At(p, "zombie")
      BY DEF kill, At
    <3> QED
      BY <1>0, <1>4, <3>1, EndsIs
  <2>2. proc' = [Ends(seen) EXCEPT ![p] = r]
    BY <1>4, <2>1
  <2>3. r \in Process /\ KindOK(r)
    <3>1. proc[p] \in Process
      BY <1>0 DEF PidTypeOK
    <3>2. r \in Process /\ r.pc = "stopping" /\ r.cmd \in {"stop", "restart"} /\ r.seen \in Pids
      BY <1>0, <3>1 DEF Process, CommandPlaces
    <3> HIDE DEF r
    <3> QED
      BY <3>2 DEF KindOK, Commands, CommandPlaces, StartingPlaces, RecordedPlaces
  <2> HIDE DEF r
  <2>4. proc' \in [Pids -> Process] /\ proc'[p] = r
    BY <2>1, <2>2, <2>3
  <2>5. \A q \in Pids \ {p} : \/ proc'[q] = proc[q]
                              \/ proc'[q].cmd = "none" /\ proc'[q].pc \in {"gone", "zombie"}
    <3>1. \A q \in Pids : \/ Ends(seen)[q] = proc[q]
                          \/ Ends(seen)[q].cmd = "none" /\ Ends(seen)[q].pc \in {"gone", "zombie"}
      <4> DEFINE z == [Gone EXCEPT !.pc = "zombie"]
      <4>1. Gone.cmd = "none" /\ Gone.pc = "gone" /\ z.cmd = "none" /\ z.pc = "zombie"
        BY DEF Gone
      <4>2. /\ Ends(seen)[seen] = Gone \/ Ends(seen)[seen] = z
            /\ \A q \in Pids \ {seen} : Ends(seen)[q] = proc[q] \/ Ends(seen)[q] = Gone
        BY <1>0, EndsIs
      <4> HIDE DEF z, seen
      <4> QED
        BY <4>1, <4>2
    <3>2. \A q \in Pids \ {p} : proc'[q] = Ends(seen)[q]
      BY <2>1, <2>2
    <3> QED
      BY <3>1, <3>2
  <2>6. KindsAgree'
    <3>1. \A q \in Pids : Live(q) <=> proc[q].pc \in StartingPlaces \cup RecordedPlaces
      BY DEF Live, Starting, Recorded
    <3>2. \A q \in Pids : Live(q)' <=> proc'[q].pc \in StartingPlaces \cup RecordedPlaces
      BY DEF Live, Starting, Recorded
    <3>3. ASSUME NEW q \in Pids PROVE KindOK(proc'[q])
      <4>1. CASE q = p
        BY <4>1, <2>3, <2>4
      <4>2. CASE proc'[q] = proc[q]
        BY <4>2, <3>1 DEF KindsAgree, KindOK, Commanding
      <4>3. CASE proc'[q].cmd = "none" /\ proc'[q].pc \in {"gone", "zombie"}
        BY <4>3 DEF KindOK, Commands, CommandPlaces, StartingPlaces, RecordedPlaces
      <4> QED
        BY <4>1, <4>2, <4>3, <2>5
    <3> QED
      BY <3>2, <3>3 DEF KindsAgree, KindOK, Commanding
  <2> QED
    BY <1>0, <1>4, <2>4, <2>6
<1> QED
  BY <1>1, <1>2, <1>3, <1>4 DEF kill, Goes

\* A fork: the child is a new server.
LEMMA ForkKeepsKinds ==
  ASSUME PidTypeOK, KindsAgree, NEW p \in Pids, fork(p)
  PROVE  proc' \in [Pids -> Process] /\ KindsAgree' /\ last'.own \in BOOLEAN
<1> DEFINE s == [Gone EXCEPT !.cmd = "server", !.pc = "init"]
<1>1. PICK c \in Pids : /\ At(c, "gone")
                        /\ proc' = [proc EXCEPT ![c] = s, ![p].child = c, ![p].pc = "wait"]
  BY DEF fork
<1>2. proc[p] \in Process /\ proc[p].pc = "fork" /\ proc[p].cmd = "start" /\ c # p
  BY <1>1 DEF fork, At, PidTypeOK, KindsAgree
<1>3. s \in Process /\ KindOK(s)
  BY NewProcesses
<1> DEFINE r == [proc[p] EXCEPT !.child = c, !.pc = "wait"]
<1>4. r \in Process /\ KindOK(r)
  <2>1. r \in Process /\ r.pc = "wait" /\ r.cmd = "start"
    BY <1>2 DEF Process, CommandPlaces
  <2> HIDE DEF r
  <2> QED
    BY <2>1 DEF KindOK, Commands, CommandPlaces, StartingPlaces, RecordedPlaces
<1> HIDE DEF s
<1>5. proc' = [proc EXCEPT ![c] = s, ![p] = r]
  BY <1>1, <1>2 DEF PidTypeOK
<1> HIDE DEF r
<1>6. /\ proc' \in [Pids -> Process]
      /\ \A q \in Pids : proc'[q] = IF q = p THEN r ELSE IF q = c THEN s ELSE proc[q]
  BY <1>2, <1>3, <1>4, <1>5 DEF PidTypeOK
<1>7. \A q \in Pids : KindOK(proc'[q])
  <2>1. \A q \in Pids : KindOK(proc[q])
    BY DEF KindsAgree, KindOK, Live, Starting, Recorded, Commanding
  <2> QED
    BY <2>1, <1>3, <1>4, <1>6
<1>8. KindsAgree'
  BY <1>7 DEF KindsAgree, KindOK, Live, Starting, Recorded, Commanding
<1> QED
  BY <1>6, <1>8 DEF fork, PidTypeOK

\* No step leaves the types, or puts a process where its kind cannot be.
LEMMA StepKeepsKinds == PidTypeOK /\ KindsAgree /\ PidNext => PidTypeOK' /\ KindsAgree'
<1> SUFFICES ASSUME PidTypeOK, KindsAgree, NEW p \in Pids,
               \/ \E cmd \in Commands : issue(p, cmd)
               \/ read_pid_file(p) \/ probe(p) \/ unlink(p)
               \/ fork(p) \/ fork_fails(p) \/ start_polls(p)
               \/ kill(p) \/ kill_refused(p) \/ stop_polls(p)
               \/ server_init(p) \/ pid_file_create(p) \/ pid_file_write(p)
               \/ server_ends(p) \/ cleanup_read(p) \/ cleanup_unlink(p)
               \/ server_returns(p) \/ server_crash(p)
             PROVE  PidTypeOK' /\ KindsAgree'
  BY DEF PidNext, Commands
<1>0. file \in Pids \cup {NoFile, Empty} /\ proc \in [Pids -> Process] /\ last.own \in BOOLEAN
  BY DEF PidTypeOK
<1> SUFFICES /\ file' \in Pids \cup {NoFile, Empty}
             /\ proc' \in [Pids -> Process] /\ KindsAgree' /\ last'.own \in BOOLEAN
  BY DEF PidTypeOK
<1>1. ASSUME NEW cmd \in Commands, issue(p, cmd)
      PROVE  proc' \in [Pids -> Process] /\ KindsAgree' /\ last'.own \in BOOLEAN /\ file' = file
  <2>1. last'.own \in BOOLEAN
    BY <1>1 DEF issue, Silent
  <2> QED
    BY <1>1, <2>1, NewProcesses, SetKeepsKinds DEF issue
<1>2. ASSUME read_pid_file(p)
      PROVE  proc' \in [Pids -> Process] /\ KindsAgree' /\ last'.own \in BOOLEAN /\ file' = file
  <2>0. Commanding(p) /\ file' = file
    BY <1>2 DEF read_pid_file, Commanding, At, CommandPlaces
  <2>1. CASE file \in Pids
    <3> DEFINE r == [proc[p] EXCEPT !.seen = file, !.pc = "probe"]
    <3>1. proc' = [proc EXCEPT ![p] = r] /\ UNCHANGED last
      BY <1>0, <1>2, <2>1 DEF read_pid_file
    <3>2. proc[p] \in Process /\ proc[p].cmd \in Commands
      BY <1>0, <2>0 DEF KindsAgree
    <3>3. r \in Process /\ r.pc = "probe" /\ r.cmd \in Commands /\ r.seen \in Pids
      BY <2>1, <3>2 DEF Process, CommandPlaces
    <3> HIDE DEF r
    <3>4. KindOK(r)
      BY <3>3 DEF KindOK, Commands, CommandPlaces, StartingPlaces, RecordedPlaces
    <3> QED
      BY <1>0, <2>0, <3>1, <3>3, <3>4, SetKeepsKinds
  <2>2. CASE file \notin Pids
    BY <1>2, <2>0, <2>2, NotRunningKeepsKinds DEF read_pid_file
  <2> QED
    BY <2>1, <2>2
<1>3. ASSUME probe(p)
      PROVE  proc' \in [Pids -> Process] /\ KindsAgree' /\ last'.own \in BOOLEAN /\ file' = file
  <2>0. Commanding(p) /\ At(p, "probe") /\ file' = file
    BY <1>3 DEF probe, Commanding, At, CommandPlaces
  <2>1. CASE NotRunning(p)
    BY <2>0, <2>1, NotRunningKeepsKinds
  <2>2. CASE FoundRunning(p)
    BY <2>0, <2>2, FoundRunningKeepsKinds
  <2>3. CASE Goes(p, "unlink") /\ UNCHANGED last
    <3>1. "unlink" \in CommandPlaces /\ "unlink" \notin {"kill", "stopping", "fork", "wait", "probe"}
      BY DEF CommandPlaces
    <3> QED
      BY <1>0, <2>0, <2>3, <3>1, GoesKeepsKinds
  <2> QED
    BY <1>3, <2>0, <2>1, <2>2, <2>3 DEF probe
<1>4. ASSUME unlink(p)
      PROVE  proc' \in [Pids -> Process] /\ KindsAgree' /\ last'.own \in BOOLEAN /\ file' = NoFile
  <2>0. Commanding(p)
    BY <1>4 DEF unlink, Commanding, At, CommandPlaces
  <2> QED
    BY <1>4, <2>0, NotRunningKeepsKinds DEF unlink
<1>5. ASSUME fork(p)
      PROVE  proc' \in [Pids -> Process] /\ KindsAgree' /\ last'.own \in BOOLEAN /\ file' = file
  BY <1>5, ForkKeepsKinds DEF fork
<1>6. ASSUME fork_fails(p) \/ kill_refused(p)
      PROVE  proc' \in [Pids -> Process] /\ KindsAgree' /\ last'.own \in BOOLEAN /\ file' = file
  BY <1>6, ExitKeepsKinds DEF fork_fails, kill_refused
<1>7. ASSUME start_polls(p)
      PROVE  proc' \in [Pids -> Process] /\ KindsAgree' /\ last'.own \in BOOLEAN /\ file' = file
  <2>1. CASE exit(p, "failed", FALSE) \/ exit(p, "timed out", FALSE)
    BY <1>7, <2>1, ExitKeepsKinds DEF start_polls
  <2>2. CASE proc' = [proc EXCEPT ![p].seen = NoPid, ![p].pc = "read"] /\ UNCHANGED last
    <3> DEFINE r == [proc[p] EXCEPT !.seen = NoPid, !.pc = "read"]
    <3>1. proc' = [proc EXCEPT ![p] = r]
      BY <1>0, <2>2
    <3>2. proc[p] \in Process /\ proc[p].cmd = "start"
      BY <1>0, <1>7 DEF start_polls, At, KindsAgree
    <3>3. r \in Process /\ r.pc = "read" /\ r.cmd = "start"
      BY <3>2 DEF Process, CommandPlaces
    <3> HIDE DEF r
    <3>4. KindOK(r)
      BY <3>3 DEF KindOK, Commands, CommandPlaces, StartingPlaces, RecordedPlaces
    <3> QED
      BY <1>0, <1>7, <2>2, <3>1, <3>3, <3>4, SetKeepsKinds DEF start_polls
  <2> QED
    BY <1>7, <2>1, <2>2 DEF start_polls
<1>8. ASSUME kill(p)
      PROVE  proc' \in [Pids -> Process] /\ KindsAgree' /\ last'.own \in BOOLEAN /\ file' = file
  BY <1>8, KillKeepsKinds DEF kill
<1>9. ASSUME stop_polls(p)
      PROVE  proc' \in [Pids -> Process] /\ KindsAgree' /\ last'.own \in BOOLEAN /\ file' = file
  <2>0. Commanding(p) /\ file' = file
    BY <1>9 DEF stop_polls, Commanding, At, CommandPlaces
  <2>1. CASE exit(p, "timed out", FALSE)
    BY <2>0, <2>1, ExitKeepsKinds
  <2>2. CASE Goes(p, "unlink") /\ UNCHANGED last
    <3>1. "unlink" \in CommandPlaces /\ "unlink" \notin {"kill", "stopping", "fork", "wait", "probe"}
      BY DEF CommandPlaces
    <3> QED
      BY <1>0, <2>0, <2>2, <3>1, GoesKeepsKinds
  <2> QED
    BY <1>9, <2>0, <2>1, <2>2 DEF stop_polls
<1>10. ASSUME \/ server_init(p) \/ pid_file_create(p) \/ pid_file_write(p)
              \/ server_ends(p) \/ cleanup_read(p) \/ cleanup_unlink(p)
              \/ server_returns(p) \/ server_crash(p)
       PROVE  /\ proc' \in [Pids -> Process] /\ KindsAgree' /\ last'.own \in BOOLEAN
              /\ file' \in {file, p, Empty, NoFile}
  <2>1. last' = last /\ file' \in {file, p, Empty, NoFile}
    BY <1>10 DEF server_init, pid_file_create, pid_file_write, server_ends, cleanup_read,
       cleanup_unlink, Returning, server_returns, server_crash
  <2>2. CASE proc' = Ends(p)
    BY <1>0, <2>1, <2>2, EndsIs, EndKeepsKinds
  <2>4. CASE Returning(p)
    <3> DEFINE r == [Gone EXCEPT !.pc = "returning"]
    <3>1. r \in Process /\ KindOK(r)
      BY DEF Gone, KindOK, Process, Commands, CommandPlaces, StartingPlaces, RecordedPlaces
    <3>2. proc' = [proc EXCEPT ![p] = r]
      BY <2>4 DEF Returning
    <3> HIDE DEF r
    <3> QED
      BY <1>0, <2>1, <3>1, <3>2, SetKeepsKinds
  <2>3. CASE proc' # Ends(p) /\ ~Returning(p)
    <3>1. \E place \in StartingPlaces \cup RecordedPlaces : Goes(p, place)
      BY <1>10, <2>3 DEF server_init, pid_file_create, pid_file_write, server_ends,
         cleanup_read, cleanup_unlink, server_returns, server_crash, StartingPlaces, RecordedPlaces
    <3>2. Live(p)
      BY <1>10, <2>3 DEF server_init, pid_file_create, pid_file_write, server_ends,
         cleanup_read, cleanup_unlink, server_returns, server_crash, StartingPlaces, RecordedPlaces, Live,
         Starting, Recorded, At
    <3> QED
      BY <1>0, <2>1, <3>1, <3>2, GoesKeepsKinds
  <2> QED
    BY <2>1, <2>2, <2>3, <2>4
<1> QED
  BY <1>0, <1>1, <1>2, <1>3, <1>4, <1>5, <1>6, <1>7, <1>8, <1>9, <1>10

-----------------------------------------------------------------------------
\* A command that goes on knows what it has to know where it gets to.
LEMMA CommandGoes ==
  ASSUME PidTypeOK, KindsAgree, Orderly, NEW p \in Pids, Commanding(p), UNCHANGED last,
         NEW r, r.pc \in CommandPlaces, proc' = [proc EXCEPT ![p] = r],
         file' = file \/ \A q \in Pids : ~Live(q),
         r.child = NoPid =>
            /\ r.pc # "wait"
            /\ \A q \in Pids : ~Starting(q)
            /\ r.pc \in {"probe", "kill", "stopping"} => \A q \in Pids : Live(q) => q = r.seen
            /\ r.pc \in {"fork", "unlink"} => \A q \in Pids : ~Live(q)
            /\ r.pc = "fork" => file' \notin Pids,
         r.child # NoPid =>
            /\ r.cmd = "start" /\ r.pc \in {"read", "probe", "wait"}
            /\ r.child # p /\ (Live(r.child) \/ Ending(r.child)) /\ r.child \in Pids
            /\ \A q \in Pids : Live(q) => q = r.child
            /\ file' \in Pids => file' = r.child
            /\ r.pc = "probe" => r.seen = r.child
  PROVE  Orderly'
<1>0. OneOfEach /\ CommandKnows /\ StartPolls /\ SaidIsTrue
  BY DEF Orderly
<1>1. proc'[p] = r /\ \A q \in Pids \ {p} : proc'[q] = proc[q]
  BY DEF PidTypeOK
<1>2. ~Live(p) /\ ~Live(p)' /\ Commanding(p)'
  BY <1>1 DEF Commanding, Live, Starting, Recorded, CommandPlaces, StartingPlaces, RecordedPlaces
<1>3. \A q \in Pids \ {p} : ~Commanding(q)'
  <2>1. \A q \in Pids \ {p} : ~Commanding(q)
    BY <1>0 DEF OneOfEach
  <2> QED
    BY <1>1, <2>1 DEF Commanding
<1>4. \A q \in Pids \ {p} : /\ Live(q)' <=> Live(q)
                            /\ Starting(q)' <=> Starting(q)
                            /\ Recorded(q)' <=> Recorded(q)
                            /\ Ending(q)' <=> Ending(q)
  BY <1>1 DEF Live, Starting, Recorded, Ending
<1>5. ~Starting(p)' /\ ~Recorded(p)'
  BY <1>2 DEF Live
<1>6. OneOfEach'
  BY <1>0, <1>2, <1>3, <1>4, <1>5 DEF OneOfEach, Live
<1>7. CommandKnows'
  BY <1>1, <1>2, <1>3, <1>4, <1>5 DEF CommandKnows
<1>8. StartPolls'
  BY <1>1, <1>2, <1>3, <1>4, <1>5 DEF StartPolls
<1>9. SaidIsTrue'
  BY <1>0 DEF SaidIsTrue
<1> QED
  BY <1>6, <1>7, <1>8, <1>9 DEF Orderly

\* A command is issued when there is no other and no server is starting.
LEMMA IssueKeepsOrder ==
  ASSUME PidTypeOK, KindsAgree, Orderly, NEW p \in Pids, NEW cmd \in Commands,
         issue(p, cmd), excuse' = {}
  PROVE  Orderly'
<1>0. OneOfEach
  BY DEF Orderly
<1>1. \A q \in Pids : proc[q].pc \in {"gone", "zombie", "serve", "cleanup", "unlink_own", "returning"}
  BY DEF issue
<1>2. \A q \in Pids : ~Commanding(q) /\ ~Starting(q)
  BY <1>1 DEF Commanding, Starting, CommandPlaces, StartingPlaces
<1>3. /\ proc'[p].pc = "read" /\ proc'[p].child = NoPid
      /\ \A q \in Pids \ {p} : proc'[q] = proc[q]
      /\ file' = file /\ last'.said = "nothing"
  BY DEF issue, Gone, Silent, PidTypeOK
<1>4. \A q \in Pids : /\ Commanding(q)' => q = p
                      /\ ~Starting(q)'
                      /\ Recorded(q)' => Recorded(q)
  BY <1>2, <1>3 DEF Commanding, Starting, Recorded, StartingPlaces, RecordedPlaces
<1>5. OneOfEach'
  BY <1>0, <1>3, <1>4 DEF OneOfEach, Live
<1>6. CommandKnows' /\ StartPolls' /\ SaidIsTrue'
  BY <1>3, <1>4 DEF CommandKnows, StartPolls, SaidIsTrue
<1> QED
  BY <1>5, <1>6 DEF Orderly

\* A command that finds no process: a server, or a child, may begin, as there is none.
LEMMA NotRunningKeepsOrder ==
  ASSUME PidTypeOK, KindsAgree, Orderly, NEW p \in Pids, Commanding(p), NotRunning(p),
         file' = file \/ (proc[p].child = NoPid /\ file' = NoFile),
         proc[p].child = NoPid => \A q \in Pids : ~Live(q),
         proc[p].child = NoPid /\ proc[p].cmd = "start" => file' \notin Pids
  PROVE  Orderly'
<1>0. OneOfEach /\ CommandKnows /\ StartPolls /\ SaidIsTrue
  BY DEF Orderly
<1>1. file' = file \/ \A q \in Pids : ~Live(q)
  OBVIOUS
<1>2. proc[p].cmd # "start" => proc[p].child = NoPid
  BY <1>0 DEF StartPolls
<1>3. CASE /\ proc[p].cmd = "run" /\ UNCHANGED last
           /\ proc' = [proc EXCEPT ![p] = [Gone EXCEPT !.cmd = "server", !.pc = "init"]]
  <2>1. proc'[p].pc = "init" /\ \A q \in Pids \ {p} : proc'[q] = proc[q]
    BY <1>3 DEF Gone, PidTypeOK
  <2>2. \A q \in Pids : /\ ~Commanding(q)' /\ ~Recorded(q)'
                        /\ Starting(q)' => q = p
    <3>1. \A q \in Pids \ {p} : ~Commanding(q) /\ ~Live(q)
      BY <1>0, <1>2, <1>3 DEF OneOfEach
    <3> QED
      BY <2>1, <3>1 DEF Commanding, Live, Starting, Recorded, CommandPlaces, RecordedPlaces
  <2>3. last'.said # "stopped" /\ (last'.said = "started" => last'.own)
    BY <1>0, <1>3 DEF SaidIsTrue
  <2> QED
    BY <2>2, <2>3 DEF Orderly, OneOfEach, CommandKnows, StartPolls, SaidIsTrue, Live
<1>4. CASE /\ proc[p].cmd = "start" /\ UNCHANGED last
           /\ Goes(p, IF proc[p].child = NoPid THEN "fork" ELSE "wait")
  <2> DEFINE place == IF proc[p].child = NoPid THEN "fork" ELSE "wait"
             r == [proc[p] EXCEPT !.pc = place]
  <2>1. proc[p] \in Process /\ proc' = [proc EXCEPT ![p] = r]
    BY <1>4 DEF PidTypeOK, Goes
  <2>2. /\ r.pc = place /\ r.child = proc[p].child /\ r.cmd = proc[p].cmd
        /\ r.pc \in CommandPlaces
    BY <2>1 DEF Process, CommandPlaces
  <2> HIDE DEF r
  <2>3. CASE proc[p].child = NoPid
    <3>1. \A q \in Pids : ~Live(q) /\ ~Starting(q)
      BY <2>3 DEF Live
    <3> QED
      BY <1>1, <1>4, <2>1, <2>2, <2>3, <3>1, CommandGoes
  <2>4. CASE proc[p].child # NoPid
    <3>1. proc[p].child \in Pids /\ proc[p].child # p
      <4>1. ~Live(p) /\ ~Ending(p)
        BY DEF Commanding, Live, Starting, Recorded, Ending, CommandPlaces, StartingPlaces, RecordedPlaces
      <4> QED
        BY <1>0, <2>1, <2>4, <4>1 DEF StartPolls, Process
    <3> QED
      BY <1>0, <1>1, <1>4, <2>1, <2>2, <2>4, <3>1, CommandGoes DEF StartPolls
  <2> QED
    BY <2>3, <2>4
<1>5. CASE /\ proc[p].cmd = "restart" /\ UNCHANGED last
           /\ proc' = [proc EXCEPT ![p] = [Gone EXCEPT !.cmd = "start", !.pc = "read"]]
  <2> DEFINE r == [Gone EXCEPT !.cmd = "start", !.pc = "read"]
  <2>1. r.pc = "read" /\ r.child = NoPid /\ r.pc \in CommandPlaces
    BY DEF Gone, CommandPlaces
  <2> HIDE DEF r
  <2>2. \A q \in Pids : ~Starting(q)
    BY <1>2, <1>5 DEF Live
  <2> QED
    BY <1>1, <1>5, <2>1, <2>2, CommandGoes DEF r
<1>6. CASE proc[p].cmd = "stop" /\ exit(p, "stopped", FALSE)
  BY <1>1, <1>2, <1>6, CommandEnds DEF exit
<1>7. CASE exit(p, "not running", FALSE)
  BY <1>1, <1>7, CommandEnds DEF exit
<1> QED
  BY <1>3, <1>4, <1>5, <1>6, <1>7, NotRunningIs

-----------------------------------------------------------------------------
\* A command reads the record: it is the server, if there is one.
LEMMA ReadKeepsOrder ==
  ASSUME PidTypeOK, KindsAgree, Orderly, NEW p \in Pids, read_pid_file(p)
  PROVE  Orderly'
<1>0. OneOfEach /\ CommandKnows /\ StartPolls
  BY DEF Orderly
<1>1. Commanding(p) /\ proc[p].pc = "read" /\ file' = file
  BY DEF read_pid_file, At, Commanding, CommandPlaces
<1>2. proc[p].child = NoPid => \A q \in Pids : ~Starting(q) /\ (Live(q) => q = file)
  BY <1>0, <1>1 DEF OneOfEach, CommandKnows, Live
<1>3. CASE file \in Pids
  <2> DEFINE r == [proc[p] EXCEPT !.seen = file, !.pc = "probe"]
  <2>1. proc' = [proc EXCEPT ![p] = r] /\ UNCHANGED last /\ proc[p] \in Process
    BY <1>3 DEF read_pid_file, PidTypeOK
  <2>2. /\ r.pc = "probe" /\ r.pc \in CommandPlaces /\ r.seen = file
        /\ r.child = proc[p].child /\ r.cmd = proc[p].cmd
    BY <2>1 DEF Process, CommandPlaces
  <2> HIDE DEF r
  <2>3. proc[p].child # NoPid => proc[p].child \in Pids /\ proc[p].child # p
    <3>1. ~Live(p) /\ ~Ending(p)
      BY <1>1 DEF Live, Starting, Recorded, Ending, StartingPlaces, RecordedPlaces
    <3> QED
      BY <1>0, <1>1, <2>1, <3>1 DEF StartPolls, Process
  <2>4. proc[p].child # NoPid =>
            /\ r.cmd = "start" /\ r.pc \in {"read", "probe", "wait"}
            /\ r.child # p /\ (Live(r.child) \/ Ending(r.child)) /\ r.child \in Pids
            /\ \A q \in Pids : Live(q) => q = r.child
            /\ file' \in Pids => file' = r.child
            /\ r.pc = "probe" => r.seen = r.child
    BY <1>0, <1>1, <1>3, <2>2, <2>3 DEF StartPolls
  <2> QED
    BY <1>1, <1>2, <2>1, <2>2, <2>4, CommandGoes
<1>4. CASE file \notin Pids
  <2>1. NotRunning(p)
    BY <1>4 DEF read_pid_file
  <2> QED
    BY <1>1, <1>2, <1>4, <2>1, NotRunningKeepsOrder
<1> QED
  BY <1>3, <1>4

\* It looks whether the process it read of is there.
LEMMA ProbeKeepsOrder ==
  ASSUME PidTypeOK, KindsAgree, Orderly, NEW p \in Pids, probe(p)
  PROVE  Orderly'
<1>0. OneOfEach /\ CommandKnows /\ StartPolls /\ SaidIsTrue
  BY DEF Orderly
<1>1. /\ Commanding(p) /\ proc[p].pc = "probe" /\ file' = file /\ ~Live(p)
      /\ proc[p] \in Process /\ proc[p].seen \in Pids
  BY DEF probe, At, Commanding, CommandPlaces, PidTypeOK, KindsAgree, Live, Starting, Recorded,
     StartingPlaces, RecordedPlaces
<1>2. proc[p].child = NoPid => \A q \in Pids : ~Starting(q) /\ (Live(q) => q = proc[p].seen)
  BY <1>0, <1>1 DEF CommandKnows
<1>3. proc[p].cmd # "start" => proc[p].child = NoPid
  BY <1>0, <1>1 DEF StartPolls
<1>4. CASE ~process_is_running(proc[p].seen)
  <2>1. At(proc[p].seen, "gone") /\ Goes(p, "unlink") /\ UNCHANGED last
    BY <1>4 DEF probe, process_is_running
  <2>2. ~Live(proc[p].seen) /\ ~Ending(proc[p].seen)
    BY <2>1 DEF Live, Starting, Recorded, Ending, At, StartingPlaces, RecordedPlaces
  <2>3. proc[p].child = NoPid
    BY <1>0, <1>1, <2>2 DEF StartPolls
  <2>4. \A q \in Pids : ~Live(q) /\ ~Starting(q)
    BY <1>2, <2>2, <2>3 DEF Live
  <2> DEFINE r == [proc[p] EXCEPT !.pc = "unlink"]
  <2>5. proc' = [proc EXCEPT ![p] = r]
    BY <2>1 DEF Goes
  <2>6. r.pc = "unlink" /\ r.child = NoPid /\ r.pc \in CommandPlaces
    BY <1>1, <2>3 DEF Process, CommandPlaces
  <2> HIDE DEF r
  <2> QED
    BY <1>1, <2>1, <2>4, <2>5, <2>6, CommandGoes
<1>5. CASE proc[p].cmd = "run" /\ proc[p].seen = p /\ NotRunning(p)
  <2>1. \A q \in Pids : ~Live(q)
    BY <1>1, <1>2, <1>3, <1>5
  <2> QED
    BY <1>1, <1>5, <2>1, NotRunningKeepsOrder
<1>6. CASE FoundRunning(p)
  <2>1. CASE exit(p, "started", proc[p].seen = proc[p].child) /\ proc[p].child # NoPid
    <3>1. proc[p].seen = proc[p].child
      BY <1>0, <1>1, <2>1 DEF StartPolls
    <3>2. proc' = Ends(p) /\ last'.said = "started" /\ last'.own
      BY <2>1, <3>1 DEF exit
    <3> QED
      BY <1>1, <3>2, CommandEnds
  <2>2. CASE proc[p].cmd \in {"stop", "restart"} /\ Goes(p, "kill") /\ UNCHANGED last
    <3> DEFINE r == [proc[p] EXCEPT !.pc = "kill"]
    <3>1. proc' = [proc EXCEPT ![p] = r]
      BY <2>2 DEF Goes
    <3>2. /\ r.pc = "kill" /\ r.child = NoPid /\ r.seen = proc[p].seen
          /\ r.pc \in CommandPlaces
      BY <1>1, <1>3, <2>2 DEF Process, CommandPlaces
    <3>3. proc[p].child = NoPid
      BY <1>3, <2>2
    <3> HIDE DEF r
    <3> QED
      BY <1>1, <1>2, <2>2, <3>1, <3>2, <3>3, CommandGoes
  <2>3. CASE exit(p, "already running", FALSE)
    BY <1>1, <2>3, CommandEnds DEF exit
  <2> QED
    BY <1>1, <1>6, <2>1, <2>2, <2>3, FoundRunningIs
<1> QED
  BY <1>4, <1>5, <1>6 DEF probe

\* It removes the record of a process that has gone: there is no server.
LEMMA UnlinkKeepsOrder ==
  ASSUME PidTypeOK, KindsAgree, Orderly, NEW p \in Pids, unlink(p)
  PROVE  Orderly'
<1>0. CommandKnows /\ StartPolls
  BY DEF Orderly
<1>1. Commanding(p) /\ proc[p].pc = "unlink"
  BY DEF unlink, At, Commanding, CommandPlaces
<1>2. proc[p].child = NoPid
  BY <1>0, <1>1 DEF StartPolls
<1>3. \A q \in Pids : ~Live(q)
  BY <1>0, <1>1, <1>2 DEF CommandKnows
<1>4. NotRunning(p) /\ file' = NoFile /\ NoFile \notin Pids
  BY PidAssumption DEF unlink
<1> QED
  BY <1>1, <1>2, <1>3, <1>4, NotRunningKeepsOrder

\* A start forks: the child is the only server, and nothing is on record.
LEMMA ForkKeepsOrder ==
  ASSUME PidTypeOK, KindsAgree, Orderly, NEW p \in Pids, fork(p)
  PROVE  Orderly'
<1>0. OneOfEach /\ CommandKnows /\ StartPolls /\ SaidIsTrue
  BY DEF Orderly
<1>1. Commanding(p) /\ proc[p].pc = "fork" /\ proc[p].cmd = "start" /\ UNCHANGED <<file, last>>
  BY DEF fork, At, Commanding, CommandPlaces, KindsAgree
<1>2. proc[p].child = NoPid
  BY <1>0, <1>1 DEF StartPolls
<1>3. file \notin Pids /\ \A q \in Pids : ~Live(q)
  BY <1>0, <1>1, <1>2 DEF CommandKnows
<1>4. \A q \in Pids \ {p} : ~Commanding(q)
  BY <1>0, <1>1 DEF OneOfEach
<1>5. PICK c \in Pids : /\ At(c, "gone")
                        /\ proc' = [proc EXCEPT ![c] = [Gone EXCEPT !.cmd = "server", !.pc = "init"],
                                                ![p].child = c, ![p].pc = "wait"]
  BY DEF fork
<1>6. /\ c # p /\ proc'[c].pc = "init"
      /\ proc'[p].pc = "wait" /\ proc'[p].child = c /\ proc'[p].cmd = "start"
      /\ \A q \in Pids \ {p, c} : proc'[q] = proc[q]
  <2>1. c # p /\ proc[p] \in Process
    BY <1>1, <1>5 DEF At, PidTypeOK
  <2> QED
    BY <1>1, <1>5, <2>1 DEF PidTypeOK, Gone, Process
<1>7. /\ \A q \in Pids : Commanding(q)' => q = p
      /\ \A q \in Pids : ~Recorded(q)' /\ (Starting(q)' => q = c)
      /\ Live(c)'
  BY <1>3, <1>4, <1>6 DEF Commanding, Live, Starting, Recorded, CommandPlaces, StartingPlaces,
     RecordedPlaces
<1>8. c # NoPid
  BY PidAssumption
<1>9. OneOfEach' /\ CommandKnows'
  BY <1>6, <1>7, <1>8 DEF OneOfEach, CommandKnows, Live
<1>10. StartPolls'
  BY <1>1, <1>3, <1>6, <1>7 DEF StartPolls, Live
<1>11. SaidIsTrue'
  BY <1>0, <1>1 DEF SaidIsTrue
<1> QED
  BY <1>9, <1>10, <1>11 DEF Orderly

\* A start looks at its child, and reads the record again.
LEMMA StartPollsKeepsOrder ==
  ASSUME PidTypeOK, KindsAgree, Orderly, NEW p \in Pids, start_polls(p)
  PROVE  Orderly'
<1>0. OneOfEach /\ CommandKnows /\ StartPolls /\ SaidIsTrue
  BY DEF Orderly
<1>1. Commanding(p) /\ proc[p].pc = "wait" /\ file' = file /\ ~Live(p) /\ proc[p] \in Process
  BY DEF start_polls, At, Commanding, CommandPlaces, PidTypeOK, Live, Starting, Recorded,
     StartingPlaces, RecordedPlaces
<1>2. proc[p].child # NoPid
  BY <1>0, <1>1 DEF CommandKnows
<1>3. CASE exit(p, "failed", FALSE)
  BY <1>1, <1>3, CommandEnds DEF exit
<1>5. CASE exit(p, "timed out", FALSE)
  BY <1>1, <1>5, CommandEnds DEF exit
<1>4. CASE proc' = [proc EXCEPT ![p].seen = NoPid, ![p].pc = "read"] /\ UNCHANGED last
  <2> DEFINE r == [proc[p] EXCEPT !.seen = NoPid, !.pc = "read"]
  <2>1. proc' = [proc EXCEPT ![p] = r]
    BY <1>4 DEF PidTypeOK
  <2>2. /\ r.pc = "read" /\ r.child = proc[p].child /\ r.cmd = proc[p].cmd
        /\ r.pc \in CommandPlaces
    BY <1>1 DEF Process, CommandPlaces
  <2>3. proc[p].child \in Pids /\ proc[p].child # p
    BY <1>0, <1>1, <1>2 DEF StartPolls, Process, Ending
  <2> HIDE DEF r
  <2>4. /\ r.cmd = "start" /\ r.child \in Pids /\ r.child # p /\ r.child # NoPid
        /\ Live(r.child) \/ Ending(r.child)
        /\ \A q \in Pids : Live(q) => q = r.child
        /\ file' \in Pids => file' = r.child
    BY <1>0, <1>1, <1>2, <2>2, <2>3 DEF StartPolls
  <2> QED
    BY <1>1, <1>4, <2>1, <2>2, <2>4, CommandGoes
<1> QED
  BY <1>3, <1>4, <1>5 DEF start_polls

\* SIGTERM goes to the server, or to nobody: no other process has its pid.
LEMMA KillKeepsOrder ==
  ASSUME PidTypeOK, KindsAgree, Orderly, NEW p \in Pids, kill(p)
  PROVE  Orderly'
<1>0. OneOfEach /\ CommandKnows /\ StartPolls /\ SaidIsTrue
  BY DEF Orderly
<1> DEFINE seen == proc[p].seen
<1>1. /\ Commanding(p) /\ proc[p].pc = "kill" /\ file' = file
      /\ proc[p] \in Process /\ seen \in Pids /\ proc[seen] \in Process
  BY DEF kill, At, Commanding, CommandPlaces, PidTypeOK, KindsAgree
<1>2. proc[p].child = NoPid
  BY <1>0, <1>1 DEF StartPolls
<1>3. \A q \in Pids : ~Starting(q) /\ (Live(q) => q = seen)
  BY <1>0, <1>1, <1>2 DEF CommandKnows
<1>4. CASE exit(p, "failed", FALSE)
  BY <1>1, <1>4, CommandEnds DEF exit
<1>5. CASE proc' = [proc EXCEPT ![p].pc = "stopping"] /\ UNCHANGED last
  <2> DEFINE r == [proc[p] EXCEPT !.pc = "stopping"]
  <2>1. proc' = [proc EXCEPT ![p] = r]
    BY <1>5
  <2>2. r.pc = "stopping" /\ r.child = NoPid /\ r.seen = seen /\ r.pc \in CommandPlaces
    BY <1>1, <1>2 DEF Process, CommandPlaces
  <2> HIDE DEF r
  <2> QED
    BY <1>1, <1>3, <1>5, <2>1, <2>2, CommandGoes
<1>6. CASE proc' = Ends(p) /\ UNCHANGED last
  <2>1. last'.said # "stopped" /\ (last'.said = "started" => last'.own)
    BY <1>0, <1>1, <1>6 DEF SaidIsTrue
  <2> QED
    BY <1>1, <1>6, <2>1, CommandEnds
<1>7. ASSUME process_is_running(seen), proc[seen].cmd # "server", ~Ending(seen)
      PROVE  seen = p
  <2>1. ~Live(seen)
    BY <1>1, <1>7 DEF KindsAgree
  <2>2. Commanding(seen)
    BY <1>1, <1>7, <2>1 DEF process_is_running, At, Ending, Process, Commanding, Live,
       Starting, Recorded
  <2> QED
    BY <1>0, <1>1, <2>2 DEF OneOfEach
<1> QED
  BY <1>4, <1>5, <1>6, <1>7 DEF kill, Ending

\* A stop sees that the server has gone, or gives up.
LEMMA StopPollsKeepsOrder ==
  ASSUME PidTypeOK, KindsAgree, Orderly, NEW p \in Pids, stop_polls(p)
  PROVE  Orderly'
<1>0. CommandKnows /\ StartPolls
  BY DEF Orderly
<1>1. /\ Commanding(p) /\ proc[p].pc = "stopping" /\ file' = file
      /\ proc[p] \in Process /\ proc[p].seen \in Pids
  BY DEF stop_polls, At, Commanding, CommandPlaces, PidTypeOK, KindsAgree
<1>2. proc[p].child = NoPid
  BY <1>0, <1>1 DEF StartPolls
<1>3. CASE exit(p, "timed out", FALSE)
  BY <1>1, <1>3, CommandEnds DEF exit
<1>4. CASE ~process_is_running(proc[p].seen) /\ Goes(p, "unlink") /\ UNCHANGED last
  <2>1. ~Live(proc[p].seen)
    BY <1>4 DEF process_is_running, Live, Starting, Recorded, At, StartingPlaces, RecordedPlaces
  <2>2. \A q \in Pids : ~Live(q) /\ ~Starting(q)
    BY <1>0, <1>1, <1>2, <2>1 DEF CommandKnows
  <2> DEFINE r == [proc[p] EXCEPT !.pc = "unlink"]
  <2>3. proc' = [proc EXCEPT ![p] = r]
    BY <1>4 DEF Goes
  <2>4. r.pc = "unlink" /\ r.child = NoPid /\ r.pc \in CommandPlaces
    BY <1>1, <1>2 DEF Process, CommandPlaces
  <2> HIDE DEF r
  <2> QED
    BY <1>1, <1>4, <2>2, <2>3, <2>4, CommandGoes
<1> QED
  BY <1>3, <1>4 DEF stop_polls

\* No step of a process breaks the order, as long as nothing excuses it.
LEMMA StepKeepsOrder ==
  ASSUME PidTypeOK, KindsAgree, PidNext, excuse' = {}, excuse = {} => Orderly
  PROVE  Orderly'
<1> SUFFICES ASSUME NEW p \in Pids,
               \/ \E cmd \in Commands : issue(p, cmd)
               \/ read_pid_file(p) \/ probe(p) \/ unlink(p)
               \/ fork(p) \/ fork_fails(p) \/ start_polls(p)
               \/ kill(p) \/ kill_refused(p) \/ stop_polls(p)
               \/ server_init(p) \/ pid_file_create(p) \/ pid_file_write(p)
               \/ server_ends(p) \/ cleanup_read(p) \/ cleanup_unlink(p)
               \/ server_returns(p) \/ server_crash(p)
             PROVE  Orderly'
  BY DEF PidNext, Commands
<1>1. excuse \subseteq excuse'
  BY DEF issue, read_pid_file, probe, unlink, fork, fork_fails, start_polls, kill, kill_refused,
     stop_polls, server_init, pid_file_create, pid_file_write, server_ends, cleanup_read,
     cleanup_unlink, server_returns, server_crash
<1>2. Orderly
  BY <1>1
<1>3. ASSUME fork_fails(p) \/ kill_refused(p) PROVE Orderly'
  <2>1. Commanding(p) /\ file' = file /\ exit(p, "failed", FALSE)
    BY <1>3 DEF fork_fails, kill_refused, At, Commanding, CommandPlaces
  <2> QED
    BY <1>2, <2>1, CommandEnds DEF exit
<1> QED
  BY <1>2, <1>3, IssueKeepsOrder, ReadKeepsOrder, ProbeKeepsOrder, UnlinkKeepsOrder,
     ForkKeepsOrder, StartPollsKeepsOrder, KillKeepsOrder, StopPollsKeepsOrder, ServerKeepsOrder,
     ServerReturns

\* Over any sequence of commands, crashes, forks that fail and signals, processes are
\* where their kind can be, and everything is in order unless something excuses it.
THEOREM PidInvariant == PidSpec => []PidInv
<1>1. PidInit => PidInv
  BY PidInitInv
<1>2. PidInv /\ [PidNext]_pidVars => PidInv'
  <2>1. PidInv /\ PidNext => PidInv'
    BY StepKeepsKinds, StepKeepsOrder DEF PidInv
  <2>2. PidInv /\ UNCHANGED pidVars => PidInv'
    BY DEF PidInv, pidVars, PidTypeOK, KindsAgree, Orderly, OneOfEach, CommandKnows, StartPolls,
       SaidIsTrue, Live, Starting, Recorded, Ending, Commanding, At
  <2> QED
    BY <2>1, <2>2
<1> QED
  BY <1>1, <1>2, PTL DEF PidSpec

\* There is at most one server, and one that serves is the one on record, unless two
\* commands overlapped, a recorded pid was reused or the record could not be written.
THEOREM PidOneServer == PidSpec => []OneRecordedServer
<1>1. PidInv => OneRecordedServer
  <2> SUFFICES ASSUME PidInv, excuse = {} PROVE /\ Cardinality(Servers) <= 1
                                                /\ \A p \in Pids : At(p, "serve") => file = p
    BY DEF OneRecordedServer
  <2>1. OneOfEach
    BY DEF PidInv, Orderly
  <2>2. \A p \in Servers : p \in Pids /\ Live(p)
    BY DEF Servers, Live, Starting, Recorded, StartingPlaces, RecordedPlaces
  <2>3. \A p, q \in Servers : p = q
    BY <2>1, <2>2 DEF OneOfEach
  <2>4. Servers = {} \/ \E p : Servers = {p}
    BY <2>3
  <2>5. Cardinality(Servers) <= 1
    <3>1. CASE Servers = {}
      BY <3>1, FS_EmptySet
    <3>2. CASE \E p : Servers = {p}
      BY <3>2, FS_Singleton
    <3> QED
      BY <2>4, <3>1, <3>2
  <2>6. \A p \in Pids : At(p, "serve") => file = p
    BY <2>1 DEF OneOfEach, At, Recorded, RecordedPlaces
  <2> QED
    BY <2>5, <2>6
<1> QED
  BY <1>1, PidInvariant, PTL

\* With the same exceptions a stop that reports success leaves no server, and a start
\* that says "started" speaks of its own child.
THEOREM PidReportsTrue == PidSpec => []ReportsTrue
<1>1. PidInv => ReportsTrue
  BY DEF PidInv, Orderly, SaidIsTrue, ReportsTrue, Servers, Live, Starting, Recorded,
     StartingPlaces, RecordedPlaces
<1> QED
  BY <1>1, PidInvariant, PTL
=============================================================================
