----------------------------- MODULE DoltServer -----------------------------
(***************************************************************************)
(* The Dolt SQL server and the two programs that start and stop it: the    *)
(* daemon's DoltServerManager (src/internal/daemon/dolt.go), which         *)
(* restarts it with a backoff and a cap, and gt dolt start and stop        *)
(* (src/internal/doltserver/doltserver.go).  The manager is protected by a *)
(* mutex it gives up while it backs off, gt dolt start by a file lock; the *)
(* two share nothing but the PID file, the port (with dolt_server.port set *)
(* to gt dolt's: the defaults are 3306 and 3307) and the processes.        *)
(*                                                                         *)
(* Times are kept as ages in ticks, so that time has no end.               *)
(***************************************************************************)
EXTENDS Integers, Sequences, FiniteSets

CONSTANTS
    Callers,         \* goroutines that call EnsureRunning
    Pids,            \* process ids (bound: no server is started when none is free)
    None,
    MaxRestarts,     \* MaxRestartsInWindow
    Window,          \* RestartWindow
    RestartDelay, MaxDelay,
    HealthyReset,    \* HealthyResetInterval
    MaxFaults,       \* bound: server crashes and hangs, daemon crashes, failed starts and
                     \* PID file writes, a lost data directory
    MaxCommands      \* bound: gt dolt start and gt dolt stop

ASSUME NoneAssumption == None \notin Pids \cup Callers
ASSUME ConfigAssumption ==
    /\ MaxRestarts \in Nat \ {0} /\ Window \in Nat \ {0} /\ HealthyReset \in Nat \ {0}
    /\ RestartDelay \in Nat \ {0} /\ MaxDelay \in Nat /\ RestartDelay <= MaxDelay
    /\ MaxFaults \in Nat /\ MaxCommands \in Nat

VARIABLES
    procs, port, sick,  \* live server processes, the one that has the port, those that hang
    pidfile,            \* daemon/dolt.pid
    process,            \* m.process
    mu, restarting,     \* m.mu's holder, m.restarting
    times, delay,       \* ages of m.restartTimes, m.currentDelay
    healthy,            \* age of m.lastHealthyTime, None if zero
    escalated,          \* m.escalated
    pc, wait,           \* by caller: step of EnsureRunning, rest of its backoff sleep
    gpc, gpid,          \* gt dolt start: step, process it has started
    gstop,              \* a gt dolt stop has killed the server and not yet cleaned up
    raced,              \* history: a server lost its PID file or never got one (see NoOrphan)
    faults, commands

serverVars  == <<procs, port, sick>>
backoffVars == <<times, delay, healthy, escalated>>
gtVars      == <<gpc, gpid, gstop>>
countVars   == <<faults, commands>>
vars == <<serverVars, pidfile, process, mu, restarting, backoffVars, pc, wait, gtVars,
          raced, countVars>>

Pcs == {"idle", "health", "stop", "stopped", "sleep", "start", "write"}

TypeOK ==
    /\ procs \subseteq Pids /\ sick \subseteq procs
    /\ port \in procs \cup {None}
    /\ pidfile \in Pids \cup {None} /\ process \in Pids \cup {None}
    /\ mu \in Callers \cup {None} /\ restarting \in BOOLEAN
    /\ times \in Seq(0..Window)
    /\ delay \in 0..MaxDelay
    /\ healthy \in 0..HealthyReset \cup {None}
    /\ escalated \in BOOLEAN
    /\ pc \in [Callers -> Pcs]
    /\ wait \in [Callers -> 0..MaxDelay]
    /\ gpc \in {"idle", "unlink", "spawn", "write", "verify"} /\ gpid \in Pids \cup {None}
    /\ gstop \in BOOLEAN /\ raced \in BOOLEAN
    /\ faults \in 0..MaxFaults /\ commands \in 0..MaxCommands

\* The daemon starts; no server runs.
Init ==
    /\ procs = {} /\ port = None /\ sick = {}
    /\ pidfile = None /\ process = None
    /\ mu = None /\ restarting = FALSE
    /\ times = <<>> /\ delay = 0 /\ healthy = None /\ escalated = FALSE
    /\ pc = [c \in Callers |-> "idle"] /\ wait = [c \in Callers |-> 0]
    /\ gpc = "idle" /\ gpid = None /\ gstop = FALSE
    /\ raced = FALSE /\ faults = 0 /\ commands = 0

-----------------------------------------------------------------------------
(***************************************************************************)
(* Server processes (external).                                            *)
(***************************************************************************)
Serving == port # None /\ port \notin sick

\* The process is gone, and with it its hold of the port.
Killed(p) ==
    /\ procs' = procs \ {p} /\ sick' = sick \ {p}
    /\ port' = IF port = p THEN None ELSE port

\* A new server process; its id is none that is still about.
FreePids == Pids \ (procs \cup {pidfile, process, gpid})
NewPid == CHOOSE p \in FreePids : TRUE

Spawned ==
    /\ FreePids # {}
    /\ procs' = procs \cup {NewPid}
    /\ UNCHANGED <<port, sick>>

\* A process that has been started takes the port, or exits because it is taken.
Bind(p) ==
    /\ p \in procs /\ p # port
    /\ \/ port = None /\ port' = p /\ UNCHANGED <<procs, sick>>
       \/ port # None /\ Killed(p)
    /\ UNCHANGED <<pidfile, process, mu, restarting, backoffVars, pc, wait, gtVars, raced,
                   countVars>>

\* The server crashes, hangs or becomes read-only.
Fail(p) ==
    /\ p \in procs
    /\ faults < MaxFaults /\ faults' = faults + 1
    /\ \/ Killed(p)
       \/ p = port /\ sick' = sick \cup {p} /\ UNCHANGED <<procs, port>>
    /\ UNCHANGED <<pidfile, process, mu, restarting, backoffVars, pc, wait, gtVars, raced,
                   commands>>

-----------------------------------------------------------------------------
(***************************************************************************)
(* DoltServerManager                                                       *)
(***************************************************************************)
\* isRunning: the tracked process, else the process the PID file names, which is then
\* tracked; a stale PID file is removed.
Found ==
    CASE process \in procs -> process
      [] process \notin procs /\ pidfile \in procs -> pidfile
      [] OTHER -> None
IsRunning ==
    /\ process' = Found
    /\ pidfile' = IF Found = None THEN None ELSE pidfile

Goto(c, from, to) == pc[c] = from /\ pc' = [pc EXCEPT ![c] = to]

\* pruneRestartTimes: those within the window, in their order.  (SelectSeq is defined by
\* recursion; MCDoltServer compares the two.)
Prune(s) ==
    LET kept   == {i \in DOMAIN s : s[i] < Window}
        Nth(j) == CHOOSE i \in kept : Cardinality(kept \cap 1..i) = j
    IN  [j \in 1..Cardinality(kept) |-> s[Nth(j)]]

\* restartWithBackoff up to the sleep: past the cap escalate, otherwise sleep unlocked.
RestartWithBackoff(c, from) ==
    /\ times' = Prune(times)
    /\ mu' = None
    /\ \/ /\ Len(times') >= MaxRestarts
          /\ Goto(c, from, "idle")
          /\ escalated' = TRUE
          /\ UNCHANGED <<wait, restarting>>
       \/ /\ Len(times') < MaxRestarts
          /\ Goto(c, from, "sleep")
          /\ restarting' = TRUE
          /\ wait' = [wait EXCEPT ![c] = IF delay = 0 THEN RestartDelay ELSE delay]
          /\ UNCHANGED escalated
    /\ UNCHANGED <<delay, healthy>>

\* Mutant: no restart-in-progress guard.
MutEnsureRunningUnguarded(c) ==
    /\ mu = None
    /\ IsRunning
    /\ \/ /\ Found # None
          /\ Goto(c, "idle", "health") /\ mu' = c
          /\ UNCHANGED <<restarting, backoffVars, wait>>
       \/ /\ Found = None
          /\ RestartWithBackoff(c, "idle")
    /\ UNCHANGED <<serverVars, gtVars, raced, countVars>>

\* EnsureRunning, unless a restart is in progress: look for the server.
EnsureRunning(c) ==
    /\ mu = None /\ ~restarting
    /\ IsRunning
    /\ \/ /\ Found # None
          /\ Goto(c, "idle", "health") /\ mu' = c
          /\ UNCHANGED <<restarting, backoffVars, wait>>
       \/ /\ Found = None
          /\ RestartWithBackoff(c, "idle")
    /\ UNCHANGED <<serverVars, gtVars, raced, countVars>>

\* maybeResetBackoff
MaybeResetBackoff ==
    IF healthy = HealthyReset
      THEN times' = <<>> /\ delay' = 0 /\ escalated' = FALSE /\ healthy' = 0
      ELSE /\ healthy' = IF healthy = None THEN 0 ELSE healthy
           /\ UNCHANGED <<times, delay, escalated>>

\* checkHealthLocked and checkWriteHealthLocked ask whoever has the port.
CheckHealth(c) ==
    /\ \/ /\ Serving
          /\ Goto(c, "health", "idle") /\ mu' = None
          /\ MaybeResetBackoff
       \/ /\ ~Serving
          /\ Goto(c, "health", "stop")
          /\ UNCHANGED <<mu, backoffVars>>
    /\ UNCHANGED <<serverVars, pidfile, process, restarting, wait, gtVars, raced, countVars>>

\* stopLocked: what isRunning finds now is terminated, or killed after five seconds ...
StopLocked(c) ==
    /\ \/ /\ Found # None
          /\ Killed(Found)
          /\ Goto(c, "stop", "stopped")
          /\ UNCHANGED <<mu, restarting, backoffVars, wait>>
       \/ /\ Found = None
          /\ RestartWithBackoff(c, "stop")
          /\ UNCHANGED serverVars
    /\ IsRunning
    /\ UNCHANGED <<gtVars, raced, countVars>>

\* The PID file is removed, whichever process it names by now.
RemovePidFile ==
    /\ pidfile' = None
    /\ raced' = (raced \/ pidfile \in procs)

\* ... and the PID file removed; then restartWithBackoff.
StopCleanUp(c) ==
    /\ RemovePidFile /\ process' = None
    /\ RestartWithBackoff(c, "stopped")
    /\ UNCHANGED <<serverVars, gtVars, countVars>>

\* Mutant: the delay is not capped.
MutAdvanceUncapped == delay' = 2 * (IF delay = 0 THEN RestartDelay ELSE delay)

\* advanceBackoff
AdvanceBackoff ==
    LET doubled == 2 * (IF delay = 0 THEN RestartDelay ELSE delay)
    IN  delay' = IF doubled > MaxDelay THEN MaxDelay ELSE doubled

\* The sleep is over and the mutex taken again: somebody may have started the server;
\* otherwise the restart counts from now.
Wake(c) ==
    /\ mu = None /\ wait[c] = 0
    /\ IsRunning
    /\ \/ /\ Found # None
          /\ Goto(c, "sleep", "idle")
          /\ restarting' = FALSE
          /\ UNCHANGED <<mu, backoffVars>>
       \/ /\ Found = None
          /\ Goto(c, "sleep", "start")
          /\ mu' = c
          /\ times' = Append(times, 0)
          /\ AdvanceBackoff
          /\ UNCHANGED <<restarting, healthy, escalated>>
    /\ UNCHANGED <<serverVars, wait, gtVars, raced, countVars>>

\* Mutant: the restart-in-progress flag is not cleared.
MutRestartedFlagStays(c, from) ==
    /\ Goto(c, from, "idle")
    /\ mu' = None /\ UNCHANGED restarting

\* The end of a restart.
Restarted(c, from) ==
    /\ Goto(c, from, "idle")
    /\ mu' = None /\ restarting' = FALSE

\* startLocked: look again, then start a process ...
StartLocked(c) ==
    /\ \/ /\ Found # None
          /\ IsRunning
          /\ Restarted(c, "start")
          /\ UNCHANGED <<serverVars, raced>>
       \/ /\ Found = None
          /\ Goto(c, "start", "write")
          /\ Spawned /\ process' = NewPid
          /\ pidfile' = None
          /\ raced' = (raced \/ procs # {} \/ gpc \in {"spawn", "write"})
          /\ UNCHANGED <<mu, restarting>>
    /\ UNCHANGED <<backoffVars, wait, gtVars, countVars>>

\* (or fail to)
StartFails(c) ==
    /\ Restarted(c, "start")
    /\ Found = None
    /\ faults < MaxFaults /\ faults' = faults + 1
    /\ IsRunning
    /\ UNCHANGED <<serverVars, backoffVars, wait, gtVars, raced, commands>>

\* Mutant: the PID file is not written.
MutNoPidFile(c) ==
    /\ Restarted(c, "write")
    /\ UNCHANGED <<serverVars, pidfile, process, backoffVars, wait, gtVars, raced, countVars>>

\* ... and write its PID file.
WritePidFile(c) ==
    /\ Restarted(c, "write")
    /\ pidfile' = process
    /\ UNCHANGED <<serverVars, process, backoffVars, wait, gtVars, raced, countVars>>

\* (if that fails: a warning)
WriteFails(c) ==
    /\ Restarted(c, "write")
    /\ faults < MaxFaults /\ faults' = faults + 1
    /\ raced' = TRUE
    /\ UNCHANGED <<serverVars, pidfile, process, backoffVars, wait, gtVars, commands>>

\* The daemon is killed and started again.  The server survives; all the manager knows of
\* it is in the PID file.
DaemonRestart ==
    /\ faults < MaxFaults /\ faults' = faults + 1
    /\ process' = None
    /\ mu' = None /\ restarting' = FALSE
    /\ times' = <<>> /\ delay' = 0 /\ healthy' = None /\ escalated' = FALSE
    /\ pc' = [c \in Callers |-> "idle"] /\ wait' = [c \in Callers |-> 0]
    /\ raced' = (raced \/ \E c \in Callers : pc[c] = "write")
    /\ UNCHANGED <<serverVars, pidfile, gtVars, commands>>

\* Time passes.
Tick ==
    /\ times' = [i \in DOMAIN times |-> IF times[i] < Window THEN times[i] + 1 ELSE Window]
    /\ healthy' = IF healthy = None \/ healthy = HealthyReset THEN healthy ELSE healthy + 1
    /\ wait' = [c \in Callers |-> IF wait[c] > 0 THEN wait[c] - 1 ELSE 0]
    /\ UNCHANGED <<serverVars, pidfile, process, mu, restarting, delay, escalated, pc, gtVars,
                   raced, countVars>>

-----------------------------------------------------------------------------
(***************************************************************************)
(* gt dolt start, one at a time under dolt.lock, and gt dolt stop.         *)
(***************************************************************************)
\* IsRunning: the process the PID file names, else whoever has the port.
GtFound == IF pidfile \in procs THEN pidfile ELSE port

\* Running: the PID file is made to name the process.  Not running: go on to start.
GtCheck ==
    /\ gpc = "idle"
    /\ commands < MaxCommands /\ commands' = commands + 1
    /\ pidfile' = GtFound
    /\ gpc' = IF GtFound = None THEN "spawn" ELSE "idle"
    /\ UNCHANGED <<serverVars, process, mu, restarting, backoffVars, pc, wait, gpid, gstop,
                   raced, faults>>

\* Running, but the data directory is gone: Stop, then go on to start.
GtCheckNoData ==
    /\ gpc = "idle" /\ gpc' = "unlink"
    /\ commands < MaxCommands /\ commands' = commands + 1
    /\ faults < MaxFaults /\ faults' = faults + 1
    /\ GtFound # None
    /\ Killed(GtFound)
    /\ UNCHANGED <<pidfile, process, mu, restarting, backoffVars, pc, wait, gpid, gstop,
                   raced>>

GtUnlink ==
    /\ gpc = "unlink" /\ gpc' = "spawn"
    /\ RemovePidFile
    /\ UNCHANGED <<serverVars, process, mu, restarting, backoffVars, pc, wait, gpid, gstop,
                   countVars>>

GtSpawn ==
    /\ gpc = "spawn" /\ gpc' = "write"
    /\ Spawned /\ gpid' = NewPid
    /\ raced' = (raced \/ procs # {} \/ \E c \in Callers : pc[c] \in {"start", "write"})
    /\ UNCHANGED <<pidfile, process, mu, restarting, backoffVars, pc, wait, gstop, countVars>>

GtWrite ==
    /\ gpc = "write" /\ gpc' = "verify"
    /\ pidfile' = gpid
    /\ UNCHANGED <<serverVars, process, mu, restarting, backoffVars, pc, wait, gpid, gstop,
                   raced, countVars>>

\* The PID file cannot be written: the new process is killed.
GtWriteFails ==
    /\ gpc = "write" /\ gpc' = "idle"
    /\ faults < MaxFaults /\ faults' = faults + 1
    /\ Killed(gpid) /\ gpid' = None
    /\ UNCHANGED <<pidfile, process, mu, restarting, backoffVars, pc, wait, gstop, raced,
                   commands>>

\* The loop that waits for the server removes a PID file that has gone stale.
GtVerify ==
    /\ gpc = "verify" /\ gpc' = "idle"
    /\ gpid' = None
    /\ pidfile' = IF pidfile \in procs THEN pidfile ELSE None
    /\ UNCHANGED <<serverVars, process, mu, restarting, backoffVars, pc, wait, gstop, raced,
                   countVars>>

\* Terminate the process, or kill it after five seconds ...
GtStop ==
    /\ ~gstop /\ gstop' = TRUE
    /\ commands < MaxCommands /\ commands' = commands + 1
    /\ GtFound # None
    /\ Killed(GtFound)
    /\ UNCHANGED <<pidfile, process, mu, restarting, backoffVars, pc, wait, gpc, gpid,
                   raced, faults>>

\* ... and remove the PID file.
GtStopCleanUp ==
    /\ gstop /\ gstop' = FALSE
    /\ RemovePidFile
    /\ UNCHANGED <<serverVars, process, mu, restarting, backoffVars, pc, wait, gpc, gpid,
                   countVars>>

-----------------------------------------------------------------------------
Manage(c) ==
    \/ EnsureRunning(c) \/ CheckHealth(c) \/ StopLocked(c) \/ StopCleanUp(c)
    \/ Wake(c) \/ StartLocked(c) \/ WritePidFile(c)

Gt == GtUnlink \/ GtSpawn \/ GtWrite \/ GtVerify \/ GtStopCleanUp

Next ==
    \/ \E c \in Callers : Manage(c) \/ StartFails(c) \/ WriteFails(c)
    \/ DaemonRestart \/ Tick
    \/ GtCheck \/ GtCheckNoData \/ Gt \/ GtWriteFails \/ GtStop
    \/ \E p \in Pids : Bind(p) \/ Fail(p)

\* The daemon calls EnsureRunning at every tick of its health check, a gt dolt command
\* that has begun goes on, time passes, and servers do not for ever need longer to take their
\* port than until the next health check.
Fairness ==
    /\ \A c \in Callers : WF_vars(Manage(c))
    /\ WF_vars(Gt) /\ WF_vars(Tick)
    /\ SF_vars((\A c \in Callers : pc[c] \notin {"health", "stop"}) /\ \E p \in Pids : Bind(p))

Spec == Init /\ [][Next]_vars /\ Fairness

-----------------------------------------------------------------------------
(***************************************************************************)
(* Properties                                                              *)
(***************************************************************************)
\* MaxRestartsInWindow is "the maximum number of restarts allowed within RestartWindow
\* before escalating instead of retrying".  The cap is checked before the sleep without
\* the mutex and the restart is counted after it; still no two callers get past the cap.
RestartCap == Len(Prune(times)) <= MaxRestarts

\* The server that has the port is known to somebody who can stop it.
Tracked ==
    \/ port \in {pidfile, process}
    \/ gpc = "write" /\ gpid = port

\* Whatever crashes, and however gt dolt start, gt dolt stop and the daemon follow one
\* another, the PID file and the manager do not lose the running server, unless one of the
\* gaps in the code has opened: two starts overlapped (they take no common lock), the
\* manager could not write the PID file or was killed before it did, or a stop removed the
\* PID file of a server that was started after it had killed its own.
NoOrphan == port # None => Tracked \/ raced

\* "If not running, starts it.  If running but unhealthy, restarts it": once nothing fails
\* any more there is a healthy server for good, the cap and the escalation notwithstanding;
\* only a server that is not tracked may stay sick.
Recovers == <>[](Serving \/ (port # None /\ ~Tracked))
=============================================================================
