-------------------------- MODULE DevelopmentStack --------------------------
(***************************************************************************)
(* The local-stack supervisor scripts/development.mjs: invocations of      *)
(* stack-up and stack-reset that stop the previous supervisor, recover     *)
(* orphaned services, start four services in detached process groups,      *)
(* record themselves in local-stack.json and supervise until a signal or   *)
(* the exit of a service.                                                  *)
(*                                                                         *)
(* Signals without a handler kill the process they reach; its services     *)
(* live on.  SIGKILL acts at once.  A deadline that passes while nothing   *)
(* resists is left out: only a Stubborn service ignores SIGTERM.           *)
(***************************************************************************)
EXTENDS Naturals

CONSTANTS
  Cmds,          \* invocations of stack-up or stack-reset
  NoFile, Torn,  \* local-stack.json is missing, or truncated
  Services,
  Stubborn,      \* services that ignore SIGTERM
  MaxFaults      \* bound: SIGKILLs and Ctrl+C of an invocation, services that
                 \* stop unexpectedly and ports other applications take

ASSUME StackAssumption ==
  /\ NoFile \notin Cmds /\ Torn \notin Cmds
  /\ Stubborn \subseteq Services
  /\ MaxFaults \in Nat

VARIABLES
  stage,     \* where an invocation stands
  resets,    \* the invocations of stack-reset
  resetting, \* stack-reset before it calls startStack
  prior,     \* the state file as an invocation read it
  file,      \* local-stack.json: the supervisor it names
  svc,       \* the process group an invocation spawned for a service
  handlers,  \* signals an invocation has a handler for
  foreign,   \* services whose port another application holds
  overlap,   \* has an invocation begun while another one was starting?
  faults

stackVars == <<stage, resets, resetting, prior, file, svc, handlers, foreign, overlap, faults>>
faultVars == <<foreign, overlap, faults>>

Startup == {"read", "await", "orphans", "orphans_wait", "remove", "ports", "build",
            "spawn", "truncate", "write", "register"}
Running == {"supervise", "stopping", "await_services", "clear"}
Ended == {"idle", "done", "failed", "dead"}

Alive(c) == stage[c] \notin Ended
Groups == Cmds \X Services
Live(g) == svc[g] \in {"starting", "listening"}
Listening == {g \in Groups : svc[g] = "listening"}
Taken(s) == s \in foreign \/ \E g \in Listening : g[2] = s

StackTypeOK ==
  /\ stage \in [Cmds -> Startup \cup Running \cup Ended]
  /\ resets \subseteq Cmds /\ resetting \subseteq resets
  /\ prior \in [Cmds -> Cmds \cup {NoFile}]
  /\ file \in Cmds \cup {NoFile, Torn}
  /\ svc \in [Groups -> {"none", "starting", "listening", "dead"}]
  /\ \A g, h \in Listening : g[2] = h[2] => g = h
  /\ handlers \in [Cmds -> SUBSET {"SIGINT", "SIGTERM"}]
  /\ foreign \subseteq Services
  /\ overlap \in BOOLEAN /\ faults \in 0..MaxFaults

StackInit ==
  /\ stage = [c \in Cmds |-> "idle"]
  /\ resets \in SUBSET Cmds /\ resetting = resets
  /\ prior = [c \in Cmds |-> NoFile] /\ file = NoFile
  /\ svc = [g \in Groups |-> "none"]
  /\ handlers = [c \in Cmds |-> {}]
  /\ foreign = {} /\ overlap = FALSE /\ faults = 0

MoveTo(c, l) == stage' = [stage EXCEPT ![c] = l]
Fault == faults < MaxFaults /\ faults' = faults + 1

-----------------------------------------------------------------------------
(* Processes and signals. *)

\* child.once("exit", shutdown): an exit before the listener is registered is lost.
AfterExits(gone, at) ==
  [c \in Cmds |-> IF at[c] = "supervise" /\ \E g \in gone : g[1] = c THEN "stopping" ELSE at[c]]

\* Process groups that receive SIGTERM, and those that receive SIGKILL.
Terminate(groups) == {g \in groups : Live(g) /\ g[2] \notin Stubborn}
Kill(gone, at) ==
  /\ svc' = [g \in Groups |-> IF g \in gone THEN "dead" ELSE svc[g]]
  /\ stage' = AfterExits(gone, at)

\* The reaction of an invocation to a signal; process.once forgets the handler.
Signalled(c, sig) == IF sig \notin handlers[c] THEN "dead"
                     ELSE IF stage[c] = "supervise" THEN "stopping" ELSE stage[c]

\* isOwnedSupervisor looks for "scripts/development.mjs stack-up" in the command line.
IsOwnedSupervisor(c) == c \notin resets /\ Alive(c)

Listen(g) ==
  /\ svc[g] = "starting"
  /\ IF Taken(g[2]) THEN Kill({g}, stage)
     ELSE svc' = [svc EXCEPT ![g] = "listening"] /\ UNCHANGED stage
  /\ UNCHANGED <<resets, resetting, prior, file, handlers, faultVars>>

Exit(g) ==
  /\ Live(g) /\ Fault
  /\ Kill({g}, stage)
  /\ UNCHANGED <<resets, resetting, prior, file, handlers, foreign, overlap>>

\* Another application begins to listen on a service's port.
OtherListens(s) ==
  /\ ~Taken(s) /\ Fault
  /\ foreign' = foreign \cup {s}
  /\ UNCHANGED <<stage, resets, resetting, prior, file, svc, handlers, overlap>>

Interrupt(c) ==
  /\ Alive(c) /\ Fault
  /\ MoveTo(c, Signalled(c, "SIGINT"))
  /\ handlers' = [handlers EXCEPT ![c] = @ \ {"SIGINT"}]
  /\ UNCHANGED <<resets, resetting, prior, file, svc, foreign, overlap>>

KillInvocation(c) ==
  /\ Alive(c) /\ Fault
  /\ MoveTo(c, "dead")
  /\ UNCHANGED <<resets, resetting, prior, file, svc, handlers, foreign, overlap>>

-----------------------------------------------------------------------------
(* startStack and resetStack *)

Begin(c) ==
  /\ stage[c] = "idle"
  /\ overlap' = (overlap \/ \E d \in Cmds : stage[d] \in Startup)
  /\ MoveTo(c, "read")
  /\ UNCHANGED <<resets, resetting, prior, file, svc, handlers, foreign, faults>>

\* readStackState (a truncated file does not parse), then stopOwnedSupervisor.
ReadStackState(c) ==
  /\ stage[c] = "read"
  /\ IF file = Torn THEN MoveTo(c, "failed") /\ UNCHANGED <<prior, handlers>>
     ELSE /\ prior' = [prior EXCEPT ![c] = file]
          /\ IF file # NoFile /\ IsOwnedSupervisor(file)
               THEN /\ stage' = [stage EXCEPT ![c] = "await", ![file] = Signalled(file, "SIGTERM")]
                    /\ handlers' = [handlers EXCEPT ![file] = @ \ {"SIGTERM"}]
               ELSE MoveTo(c, "orphans") /\ UNCHANGED handlers
  /\ UNCHANGED <<resets, resetting, file, svc, faultVars>>

\* Faulty: the signalled supervisor is not waited for.
WaitForNothing(c) ==
  /\ stage[c] = "await"
  /\ MoveTo(c, "orphans")
  /\ UNCHANGED <<resets, resetting, prior, file, svc, handlers, faultVars>>

\* waitForSupervisorExit: 10 seconds, no longer than stopService gives a service.
WaitForSupervisorExit(c) ==
  /\ stage[c] = "await"
  /\ \/ ~IsOwnedSupervisor(prior[c]) /\ MoveTo(c, "orphans")
     \/ /\ IsOwnedSupervisor(prior[c])
        /\ \E s \in Stubborn : Live(<<prior[c], s>>)
        /\ MoveTo(c, "failed")
  /\ UNCHANGED <<resets, resetting, prior, file, svc, handlers, faultVars>>

\* stopOrphanedServices: every listener of the workspace, whoever started it.
StopOrphanedServices(c) ==
  /\ stage[c] = "orphans"
  /\ Kill(Terminate(Listening), [stage EXCEPT ![c] = "orphans_wait"])
  /\ UNCHANGED <<resets, resetting, prior, file, handlers, faultVars>>

\* ... and SIGKILL for those that still listen after the deadline.
KillOrphanedServices(c) ==
  /\ stage[c] = "orphans_wait"
  /\ Kill(Listening, [stage EXCEPT ![c] = "remove"])
  /\ UNCHANGED <<resets, resetting, prior, file, handlers, faultVars>>

RemoveStackState(c) ==
  /\ stage[c] = "remove"
  /\ IF c \in resetting
       THEN file' = NoFile /\ resetting' = resetting \ {c} /\ MoveTo(c, "read")
       ELSE /\ file' = IF prior[c] = NoFile THEN file ELSE NoFile
            /\ MoveTo(c, "ports")
            /\ UNCHANGED resetting
  /\ UNCHANGED <<resets, prior, svc, handlers, faultVars>>

EnsureServicePortAvailable(c) ==
  /\ stage[c] = "ports"
  /\ MoveTo(c, IF \E s \in Services : Taken(s) THEN "failed" ELSE "build")
  /\ UNCHANGED <<resets, resetting, prior, file, svc, handlers, faultVars>>

\* Compose, generated artifacts, packages and migrations; a failure ends the
\* invocation as KillInvocation does.
Build(c) ==
  /\ stage[c] = "build"
  /\ MoveTo(c, "spawn")
  /\ UNCHANGED <<resets, resetting, prior, file, svc, handlers, faultVars>>

StartServices(c) ==
  /\ stage[c] = "spawn"
  /\ svc' = [g \in Groups |-> IF g[1] = c THEN "starting" ELSE svc[g]]
  /\ MoveTo(c, "truncate")
  /\ UNCHANGED <<resets, resetting, prior, file, handlers, faultVars>>

\* writeFile truncates first.
WriteStackState(c) ==
  /\ \/ stage[c] = "truncate" /\ file' = Torn /\ MoveTo(c, "write")
     \/ stage[c] = "write" /\ file' = c /\ MoveTo(c, "register")
  /\ UNCHANGED <<resets, resetting, prior, svc, handlers, faultVars>>

RegisterHandlers(c) ==
  /\ stage[c] = "register"
  /\ handlers' = [handlers EXCEPT ![c] = {"SIGINT", "SIGTERM"}]
  /\ MoveTo(c, "supervise")
  /\ UNCHANGED <<resets, resetting, prior, file, svc, faultVars>>

-----------------------------------------------------------------------------
(* shutdown *)

Own(c) == {g \in Groups : g[1] = c}

StopServices(c) ==
  /\ stage[c] = "stopping"
  /\ Kill(Terminate(Own(c)), [stage EXCEPT ![c] = "await_services"])
  /\ UNCHANGED <<resets, resetting, prior, file, handlers, faultVars>>

\* Faulty: shutdown waits for the services without a deadline.
EscalateWaits(c) ==
  /\ stage[c] = "await_services" /\ \A g \in Own(c) : ~Live(g)
  /\ MoveTo(c, "clear")
  /\ UNCHANGED <<resets, resetting, prior, file, svc, handlers, faultVars>>

\* stopService: SIGKILL for what is left of the groups after 10 seconds.
Escalate(c) ==
  /\ stage[c] = "await_services"
  /\ Kill({g \in Own(c) : Live(g)}, [stage EXCEPT ![c] = "clear"])
  /\ UNCHANGED <<resets, resetting, prior, file, handlers, faultVars>>

ClearState(c) ==
  /\ stage[c] = "clear"
  /\ file' = NoFile
  /\ MoveTo(c, "done")
  /\ UNCHANGED <<resets, resetting, prior, svc, handlers, faultVars>>

-----------------------------------------------------------------------------
Step(c) ==
  \/ ReadStackState(c) \/ WaitForSupervisorExit(c) \/ StopOrphanedServices(c)
  \/ KillOrphanedServices(c) \/ RemoveStackState(c) \/ EnsureServicePortAvailable(c)
  \/ Build(c) \/ StartServices(c) \/ WriteStackState(c) \/ RegisterHandlers(c)
  \/ StopServices(c) \/ Escalate(c) \/ ClearState(c)

StackNext ==
  \/ \E c \in Cmds : Begin(c) \/ Step(c) \/ Interrupt(c) \/ KillInvocation(c)
  \/ \E g \in Groups : Listen(g) \/ Exit(g)
  \/ \E s \in Services : OtherListens(s)

StackSpec == StackInit /\ [][StackNext]_stackVars

-----------------------------------------------------------------------------
(* Properties. *)

\* A supervisor that shut down has left no service behind, not even one that
\* ignores SIGTERM, had not begun to listen, or lost a sibling to another
\* invocation (stopService, shutdown).
ShutdownStopsAll == \A c \in Cmds : stage[c] = "done" => \A g \in Own(c) : ~Live(g)

\* Invocations of stack-up that follow one another leave at most one
\* supervisor, and the state file names it, so that the next one finds it
\* (startStack).
RunningIsRecorded ==
  (~overlap /\ \A c \in resets : stage[c] = "idle")
  => \A c \in Cmds : stage[c] = "supervise" => file = c

\* Processes and the state file agree, whatever is killed or restarted.
StackInvariant == StackTypeOK /\ ShutdownStopsAll /\ RunningIsRecorded

\* Every invocation comes through its waits: it supervises, ends or fails.
StartupEnds == \A c \in Cmds : (stage[c] \in Startup) ~> (stage[c] \notin Startup)

\* A supervisor asked to stop does stop, whatever its services do.
ShutdownEnds == \A c \in Cmds : (stage[c] = "stopping") ~> (stage[c] \in Ended)

\* No invocation hangs, neither while it starts nor while it shuts down.
InvocationsEnd == StartupEnds /\ ShutdownEnds

=============================================================================
