------------------------------ MODULE Sandbox ------------------------------
(***************************************************************************)
(* The batch sandbox backends: local-os (prepare, exec, teardown, drop)    *)
(* and docker, used by several writ processes on one machine.  A prepared  *)
(* sandbox promises what its enforcement report says; exec runs a program  *)
(* in it and comes back with its output or with a timeout.                 *)
(*                                                                         *)
(* The methods take &mut self, so one backend runs one call at a time; the *)
(* programs, their descendants and the other backends run beside it.       *)
(***************************************************************************)
EXTENDS KernelBoundary

CONSTANTS
    Backends,     \* backend instances, each in a writ process of its own
    Hosts,        \* a machine and the backend used on it: [machine, kind]
    Workspaces,   \* workspace directories
    NinePs,       \* the ones on a 9p file system
    HoldsTemp,    \* the ones that contain the private temp directory
    MaxBoxes, MaxExecs,
    NoOne         \* no host yet, no exec

ASSUME SandboxAssumption ==
    /\ Hosts \subseteq [machine : Machines, kind : {"local-os", "docker"}]
    /\ NinePs \subseteq Workspaces /\ HoldsTemp \subseteq Workspaces
    /\ MaxBoxes \in Nat /\ MaxExecs \in Nat
    /\ NoOne \notin [machine : Machines, kind : {"local-os", "docker"},
                     mode : {"Required", "BestEffort"}]
    /\ NoOne \notin [box : 1..MaxBoxes, run : 1..MaxExecs, stage : {"poll", "drain"},
                     timedOut : BOOLEAN]

VARIABLES
    host,        \* [machine, kind, mode], or NoOne before the first call
    boxes,       \* prepared sandboxes: LocalOsBackend.sandboxes, docker's containers
    nextId,      \* NEXT_ID
    temps,       \* private temp directories on disk, by sandbox id
    profiles,    \* AppContainer profiles registered, by workspace
    aces,        \* workspaces with an ACE for their AppContainer
    spoiled,     \* history: workspaces of which a prepare failed halfway
    daemon,      \* docker: id -> "absent", "created", "running", "stopped"
    unconfirmed, \* docker: ids whose removal or stop the daemon did not confirm
    calls,       \* backend -> the exec it is in, or NoOne
    nextRun,     \* number of execs started
    procs,       \* live processes of all execs
    answers      \* backend -> the last exec's [run, result]

boxVars == <<boxes, nextId, temps, profiles, aces, spoiled, daemon, unconfirmed>>
runVars == <<calls, nextRun, procs, answers>>
sandboxVars == <<host, boxVars, runVars>>

---------------------------------------------------------------------------
NoAnswer == [run |-> 0, result |-> "none"]
TimedOut(n) == [run |-> n, result |-> "timed_out"]

SandboxInit ==
    /\ host = NoOne /\ boxes = {} /\ nextId = 0 /\ temps = {}
    /\ profiles = {} /\ aces = {} /\ spoiled = {} /\ unconfirmed = {}
    /\ daemon = [i \in 1..MaxBoxes |-> "absent"]
    /\ calls = [b \in Backends |-> NoOne] /\ nextRun = 0 /\ procs = {}
    /\ answers = [b \in Backends |-> NoAnswer]

(* new / with_mode: the machine is what it is, the mode is the caller's. *)
Boot(h, mode) ==
    /\ host = NoOne
    /\ host' = [machine |-> h.machine, kind |-> h.kind, mode |-> mode]
    /\ UNCHANGED <<boxVars, runVars>>

Idle(b) == host # NoOne /\ calls[b] = NoOne
Local == host.kind = "local-os"
Windows == host.machine.os = "windows"
BoxesOf(b) == {x \in boxes : x.backend = b}

---------------------------------------------------------------------------
(* local-os: prepare *)

BoxPlan(hosts) == Plan(Capabilities(host.machine), hosts, host.mode)

\* The temp directory is made before the overlap with the workspace is seen,
\* and removed again when it is refused.
TempOf(id, ws) == IF ws \in HoldsTemp THEN temps ELSE temps \cup {id}

(* The AppContainer is named after the workspace: all sandboxes of all     *)
(* processes on one workspace share its profile, its ACE and its temp.     *)
PrepareContainer(ws) ==
    /\ profiles' = profiles \cup {ws}
    /\ aces' = aces \cup {ws}
    /\ spoiled' = IF ws \in HoldsTemp THEN spoiled \cup {ws} ELSE spoiled
    /\ UNCHANGED temps

(* prepare_container fails after the profile was registered: the profile   *)
(* stays, and the ACE if it was the folder that failed.                    *)
ContainerFails(b, ws, hosts) ==
    /\ Idle(b) /\ Local /\ Windows /\ nextId < MaxBoxes
    /\ BoxPlan(hosts) # Refused /\ BoxPlan(hosts).applyFs
    /\ nextId' = nextId + 1
    /\ profiles' = profiles \cup {ws}
    /\ aces' \in {aces, aces \cup {ws}}
    /\ spoiled' = spoiled \cup {ws}
    /\ UNCHANGED <<host, boxes, temps, daemon, unconfirmed, runVars>>

PrepareLocal(b, ws, hosts) ==
    LET plan == BoxPlan(hosts)
        id == nextId + 1
        contained == Windows /\ plan.applyFs
    IN  /\ Idle(b) /\ Local /\ nextId < MaxBoxes
        /\ plan # Refused
        /\ ~(host.machine.os = "linux" /\ plan.applyFs /\ ws \in NinePs)
        /\ nextId' = id
        /\ IF contained THEN PrepareContainer(ws)
           ELSE temps' = TempOf(id, ws) /\ UNCHANGED <<profiles, aces, spoiled>>
        /\ boxes' = IF ws \in HoldsTemp THEN boxes
                    ELSE boxes \cup {[id |-> id, backend |-> b, ws |-> ws,
                                      report |-> plan, owns |-> ~contained]}
        /\ UNCHANGED <<host, daemon, unconfirmed, runVars>>

---------------------------------------------------------------------------
(* What a process of a sandbox can do. *)

BatchWritable == {"workspace", "temp"}
Flat == [p \in Places |-> {}]

\* create_args: no network, and of the host's files the workspace only; the
\* container's own files are gone with it, like temp.
DockerChild == [writes |-> {"workspace", "temp"}, truncates |-> FALSE, sockets |-> {}]

PowerIn(x) ==
    LET r == x.report
        m == host.machine
    IN  IF host.kind = "docker" THEN DockerChild
        ELSE CASE m.os = "linux" ->
                    LinuxChild(m, BatchWritable, Flat, r.applyFs, BatchFilter(r.applyNet))
               [] m.os = "macos" ->
                    SeatbeltChild(BatchWritable, {}, Flat, r.applyFs, r.applyNet)
               [] m.os = "windows" ->
                    AppContainerChild({"temp"} \cup {p \in {"workspace"} : x.ws \in aces},
                                      r.applyFs, ~r.applyNet)
               [] OTHER -> NoLimits

Leader(x, n) ==
    [box |-> x.id, run |-> n, kind |-> "leader", holds |-> TRUE,
     power |-> PowerIn(x), report |-> x.report]

ProcsOf(n) == {p \in procs : p.run = n}
LeaderAlive(n) == \E p \in ProcsOf(n) : p.kind = "leader"

(* exec, up to the spawned child.  A working directory outside the         *)
(* workspace, or a failed spawn, is an error and starts nothing; Windows   *)
(* refuses an AppContainer without its profile.                            *)
ExecStart(b, x) ==
    /\ Idle(b) /\ x \in BoxesOf(b) /\ nextRun < MaxExecs
    /\ nextRun' = nextRun + 1
    /\ \/ /\ Local => (Windows /\ x.report.applyFs => x.ws \in profiles)
          /\ ~Local => daemon[x.id] = "running"
          /\ procs' = procs \cup {Leader(x, nextRun + 1)}
          /\ calls' = [calls EXCEPT ![b] = [box |-> x.id, run |-> nextRun + 1,
                                            stage |-> "poll", timedOut |-> FALSE]]
          /\ UNCHANGED answers
       \/ /\ answers' = [answers EXCEPT ![b] = [run |-> nextRun + 1, result |-> "error"]]
          /\ UNCHANGED <<procs, calls>>
    /\ UNCHANGED <<host, boxVars>>

---------------------------------------------------------------------------
(* The program: it starts descendants, which inherit its confinement and,  *)
(* until they close it, its output pipe; on Unix one may leave the process *)
(* group, the Job Object allows no breakaway.                              *)

ChildOf(p) == [p EXCEPT !.kind = "member"]

Fork(p) ==
    /\ p.kind = "leader" /\ ProcsOf(p.run) = {p}
    /\ procs' = procs \cup {ChildOf(p)}

Detach(p) ==
    /\ p.kind = "member" /\ Local /\ ~Windows
    /\ procs' = (procs \ {p}) \cup {[p EXCEPT !.kind = "escaped"]}

CloseOutput(p) ==
    /\ p.kind # "leader" /\ p.holds
    /\ procs' = (procs \ {p}) \cup {[p EXCEPT !.holds = FALSE]}

Exit(p) == procs' = procs \ {p}

ProgramStep ==
    /\ \E p \in procs : Fork(p) \/ Detach(p) \/ CloseOutput(p) \/ Exit(p)
    /\ UNCHANGED <<host, boxVars, calls, nextRun, answers>>

---------------------------------------------------------------------------
(* exec, from the poll loop to the answer *)

Polling(b) == calls[b] # NoOne /\ calls[b].stage = "poll"

\* Mutant: only the program itself is killed.
MutantKilled(n) == {p \in ProcsOf(n) : p.kind = "leader"}

\* kill_process_group: a descendant may have left the group.
GroupOf(n) == {p \in ProcsOf(n) : p.kind # "escaped"}

\* The Job Object allows no breakaway.
JobOf(n) == ProcsOf(n)

(* The group and child.kill, or TerminateJobObject. *)
Killed(n) == IF Windows THEN JobOf(n) ELSE GroupOf(n)

\* exec_unix: the leader has gone, descendants live on; exec_windows: the job
\* is ended on this path too.
PollExited(b) ==
    /\ Polling(b) /\ Local /\ ~LeaderAlive(calls[b].run)
    /\ procs' = IF Windows THEN procs \ Killed(calls[b].run) ELSE procs
    /\ calls' = [calls EXCEPT ![b].stage = "drain"]
    /\ UNCHANGED <<host, boxVars, nextRun, answers>>

PollTimeout(b) ==
    /\ Polling(b) /\ Local /\ LeaderAlive(calls[b].run)
    /\ procs' = procs \ Killed(calls[b].run)
    /\ calls' = [calls EXCEPT ![b].stage = "drain", ![b].timedOut = TRUE]
    /\ UNCHANGED <<host, boxVars, nextRun, answers>>

(* Joining the reader threads: they end when nobody holds the pipe. *)
Drained(b) ==
    /\ calls[b] # NoOne /\ calls[b].stage = "drain"
    /\ \A p \in ProcsOf(calls[b].run) : ~p.holds
    /\ answers' = [answers EXCEPT ![b] =
           IF calls[b].timedOut THEN TimedOut(calls[b].run)
           ELSE [run |-> calls[b].run, result |-> "ok"]]
    /\ calls' = [calls EXCEPT ![b] = NoOne]
    /\ UNCHANGED <<host, boxVars, nextRun, procs>>

---------------------------------------------------------------------------
(* local-os: teardown and Drop *)

\* Mutant: the profile goes with any of its sandboxes.
MutantForgets(b, gone) ==
    /\ temps' = temps \ {x.id : x \in {y \in gone : y.owns}}
    /\ profiles' = profiles \ {x.ws : x \in {y \in gone : ~y.owns}}

(* The private temp goes with the sandbox; the profile only when no other  *)
(* sandbox of this backend uses it.                                        *)
Forgets(b, gone) ==
    /\ temps' = temps \ {x.id : x \in {y \in gone : y.owns}}
    /\ profiles' = profiles \ ({x.ws : x \in {y \in gone : Windows}}
                               \ {x.ws : x \in BoxesOf(b) \ gone})

TeardownLocal(b, x) ==
    /\ Idle(b) /\ Local /\ x \in BoxesOf(b)
    /\ boxes' = boxes \ {x}
    /\ Forgets(b, {x})
    /\ UNCHANGED <<host, nextId, aces, spoiled, daemon, unconfirmed, runVars>>

DropLocal(b) ==
    /\ Idle(b) /\ Local /\ BoxesOf(b) # {}
    /\ boxes' = boxes \ BoxesOf(b)
    /\ Forgets(b, BoxesOf(b))
    /\ UNCHANGED <<host, nextId, aces, spoiled, daemon, unconfirmed, runVars>>

---------------------------------------------------------------------------
(* docker.  Each daemon call ends well, fails, or is given up (the daemon  *)
(* may still carry it out).                                                *)

DockerReport == [fs |-> "NotEnforced", net |-> "Enforced", applyFs |-> TRUE, applyNet |-> TRUE]

\* The container that never came up is removed again, if the daemon does it.
StartFailed(id) ==
    /\ UNCHANGED boxes
    /\ \/ UNCHANGED <<daemon, unconfirmed>>
       \/ /\ daemon' \in {[daemon EXCEPT ![id] = s] : s \in {"created", "running"}}
          /\ unconfirmed' = unconfirmed \cup {id}

PrepareDocker(b, ws, hosts) ==
    LET id == nextId + 1 IN
    /\ Idle(b) /\ ~Local /\ nextId < MaxBoxes
    /\ ~hosts
    /\ nextId' = id
    /\ \/ /\ daemon' = [daemon EXCEPT ![id] = "running"]
          /\ boxes' = boxes \cup {[id |-> id, backend |-> b, ws |-> ws,
                                   report |-> DockerReport, owns |-> FALSE]}
          /\ UNCHANGED unconfirmed
       \/ StartFailed(id)
       \/ \* create was given up: the daemon may still make the container
          /\ daemon' = [daemon EXCEPT ![id] = "created"]
          /\ unconfirmed' = unconfirmed \cup {id}
          /\ UNCHANGED boxes
    /\ UNCHANGED <<host, temps, profiles, aces, spoiled, runVars>>

\* The exec'd program has ended; what it left in the container runs on.
DockerDone(b) ==
    /\ Polling(b) /\ ~Local /\ ~LeaderAlive(calls[b].run)
    /\ calls' = [calls EXCEPT ![b].stage = "drain"]
    /\ UNCHANGED <<host, boxVars, nextRun, procs, answers>>

\* There is no way to kill one exec: the container is stopped, and whether
\* that worked is not looked at.
DockerTimeout(b) ==
    LET id == calls[b].box IN
    /\ Polling(b) /\ ~Local /\ LeaderAlive(calls[b].run)
    /\ answers' = [answers EXCEPT ![b] = TimedOut(calls[b].run)]
    /\ calls' = [calls EXCEPT ![b] = NoOne]
    /\ \/ /\ daemon' = [daemon EXCEPT ![id] = "stopped"]
          /\ procs' = {p \in procs : p.box # id}
          /\ UNCHANGED unconfirmed
       \/ unconfirmed' = unconfirmed \cup {id} /\ UNCHANGED <<daemon, procs>>
    /\ UNCHANGED <<host, boxes, nextId, temps, profiles, aces, spoiled, nextRun>>

(* teardown: stop, then rm -f.  Given up: the record stays, for another    *)
(* try.  Refused by the daemon: the record goes all the same.              *)
TeardownDocker(b, x) ==
    /\ Idle(b) /\ ~Local /\ x \in BoxesOf(b)
    /\ \/ /\ daemon' = [daemon EXCEPT ![x.id] = "absent"]
          /\ procs' = {p \in procs : p.box # x.id}
          /\ boxes' = boxes \ {x}
          /\ UNCHANGED unconfirmed
       \/ /\ unconfirmed' = unconfirmed \cup {x.id}
          /\ boxes' \in {boxes, boxes \ {x}}
          /\ UNCHANGED <<daemon, procs>>
    /\ UNCHANGED <<host, nextId, temps, profiles, aces, spoiled, calls, nextRun, answers>>

\* The container is removed behind writ's back.
ContainerDies(id) ==
    /\ host # NoOne /\ ~Local /\ daemon[id] = "running"
    /\ daemon' = [daemon EXCEPT ![id] = "absent"]
    /\ procs' = {p \in procs : p.box # id}
    /\ UNCHANGED <<host, boxes, nextId, temps, profiles, aces, spoiled, unconfirmed,
                   calls, nextRun, answers>>

---------------------------------------------------------------------------
SandboxNext ==
    \/ \E h \in Hosts, mode \in {"Required", "BestEffort"} : Boot(h, mode)
    \/ \E b \in Backends :
          \/ \E ws \in Workspaces, hosts \in BOOLEAN :
                \/ PrepareLocal(b, ws, hosts) \/ ContainerFails(b, ws, hosts)
                \/ PrepareDocker(b, ws, hosts)
          \/ \E x \in boxes : ExecStart(b, x) \/ TeardownLocal(b, x) \/ TeardownDocker(b, x)
          \/ PollExited(b) \/ PollTimeout(b) \/ Drained(b) \/ DropLocal(b)
          \/ DockerDone(b) \/ DockerTimeout(b)
    \/ ProgramStep
    \/ \E id \in 1..MaxBoxes : ContainerDies(id)

SandboxSpec == SandboxInit /\ [][SandboxNext]_sandboxVars

---------------------------------------------------------------------------
(* Type correctness of the sandbox state: host, sandboxes and processes    *)
(* (local_os.rs Prepared, LocalOsBackend; lib.rs ContainerRecord).         *)
SandboxTypeOK ==
    /\ host = NoOne \/ [machine |-> host.machine, kind |-> host.kind] \in Hosts
    /\ nextId \in 0..MaxBoxes /\ nextRun \in 0..MaxExecs
    /\ temps \subseteq 1..MaxBoxes
    /\ profiles \cup aces \cup spoiled \subseteq Workspaces
    /\ daemon \in [1..MaxBoxes -> {"absent", "created", "running", "stopped"}]
    /\ \A x \in boxes : x.id \in 1..nextId /\ x.ws \in Workspaces /\ x.report # Refused
    /\ \A p \in procs : p.run \in 1..nextRun /\ p.kind \in {"leader", "member", "escaped"}
    /\ \A b \in Backends :
          calls[b] = NoOne \/ calls[b].stage \in {"poll", "drain"}

\* What an enforced sandbox may write: on Windows also what grants ALL
\* APPLICATION PACKAGES write access, and nowhere else.
BoxWritable ==
    IF Local /\ Windows THEN BatchWritable \cup AppContainerResidue ELSE BatchWritable

(* What a report calls enforced holds for every live process of the        *)
(* sandbox, whatever the machine's probes answered, but for the documented *)
(* residue on Windows, and the default mode runs nothing that is not fully *)
(* enforced (enforce.rs plan, the capabilities and the confinement built   *)
(* from them).                                                             *)
EnforcedMeansConfined ==
    \A p \in procs :
       /\ Keeps(p.power, p.report, BoxWritable)
       /\ host.mode = "Required" =>
             p.power.sockets = {} /\ p.power.writes \subseteq BoxWritable \cup {"dev"}

(* When exec has answered, nobody of its process group is left after a     *)
(* timeout, nobody at all on Windows, and nobody holds the output pipe; a  *)
(* timed-out docker exec is dead unless the stop went unconfirmed          *)
(* (local_os.rs exec_unix, exec_windows; lib.rs exec).                     *)
AnsweredMeansEnded ==
    \A b \in Backends : \A p \in procs :
       p.run = answers[b].run =>
          /\ answers[b].result = "timed_out" =>
                p.kind = "escaped" \/ p.box \in unconfirmed
          /\ Local => ~Windows /\ ~p.holds

(* A private temp directory exists exactly while its sandbox does, also    *)
(* after a refused prepare and after Drop; an AppContainer profile only    *)
(* while a sandbox on its workspace does, unless a prepare failed halfway. *)
(* The ACE on the workspace stays: it is nobody's then, since no process   *)
(* on Windows outlives its sandbox.  A docker container writ does not know *)
(* any more is one whose removal the daemon did not confirm.               *)
NothingLeftBehind ==
    /\ temps = {x.id : x \in {y \in boxes : y.owns}}
    /\ profiles \subseteq {x.ws : x \in boxes} \cup spoiled
    /\ \A p \in procs : Local /\ Windows => \E x \in boxes : x.id = p.box
    /\ \A id \in 1..MaxBoxes :
          daemon[id] # "absent" => id \in unconfirmed \/ \E x \in boxes : x.id = id

(* Tearing a sandbox down never takes the AppContainer profile from        *)
(* another sandbox of the same backend on that workspace (local_os.rs      *)
(* teardown).  Another process's teardown may.                             *)
OwnProfileKept ==
    [][\A x \in boxes \cap boxes' :
          x.ws \in profiles /\ x.ws \notin profiles' =>
             \E y \in boxes \ boxes' : y.backend # x.backend]_sandboxVars

(* A sandbox is what its report says, for all its processes, until exec    *)
(* has answered, and then it is over; nothing of it is left on the machine *)
(* that writ does not know of, but the documented ACE (SandboxBackend:     *)
(* prepare, exec, teardown).                                               *)
SandboxSafe ==
    SandboxTypeOK /\ EnforcedMeansConfined /\ AnsweredMeansEnded /\ NothingLeftBehind
=============================================================================
