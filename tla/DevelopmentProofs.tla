------------------------- MODULE DevelopmentProofs -------------------------
(***************************************************************************)
(* The development scripts: any number of stack-up and stack-reset         *)
(* invocations with any services (DevelopmentStack), and any number of     *)
(* migrate:apply invocations over any journal (MigrationAdoption).         *)
(***************************************************************************)
EXTENDS DevelopmentStack, MigrationAdoption, TLAPS

-----------------------------------------------------------------------------
(* DevelopmentStack *)

\* Invocations of stack-up that follow one another.
InTurn == ~overlap /\ \A c \in resets : stage[c] = "idle"

\* What shutdown relies on once it has escalated.
NothingLeft == \A c \in Cmds : stage[c] \in {"clear", "done"} => \A g \in Own(c) : ~Live(g)

\* One starts at a time; a supervisor is named by the state file until it has
\* gone; a starting invocation waits for exactly that supervisor and passes
\* only when nobody is left; and the file names it before it supervises.
OneStarts == \A c, d \in Cmds : stage[c] \in Startup /\ stage[d] \in Startup => c = d
FileNamesRunning == \A c \in Cmds : stage[c] \in Running => file = c
PassedAlone ==
  \A c, d \in Cmds : (stage[c] \in Startup \ {"read", "await"}) => stage[d] \notin Running
WaitsForRunning ==
  \A c, d \in Cmds : (stage[c] = "await" /\ stage[d] \in Running) => prior[c] = d
WroteFile == \A c \in Cmds : stage[c] = "register" => file = c

Orderly == OneStarts /\ FileNamesRunning /\ PassedAlone /\ WaitsForRunning /\ WroteFile

StackInv == StackTypeOK /\ NothingLeft /\ (InTurn => Orderly)

\* How an invocation moves without touching the order of things: it stays,
\* ends, shuts down, or goes on with a start that has passed the others.
Passing == Startup \ {"read", "await", "register"}
Drifts(c) ==
  \/ stage'[c] = stage[c]
  \/ stage'[c] \in Ended \ {"idle"}
  \/ stage[c] \in Running /\ stage'[c] \in Running
  \/ stage[c] \in Passing /\ stage'[c] \in Passing

USE StackAssumption

LEMMA GroupParts ==
  ASSUME NEW g \in Groups
  PROVE  g[1] \in Cmds /\ g[2] \in Services /\ g = <<g[1], g[2]>>
  BY DEF Groups

\* An exit turns a supervisor to its shutdown and leaves the others alone.
LEMMA AfterExitsIs ==
  ASSUME NEW gone, NEW at, NEW c \in Cmds, stage' = AfterExits(gone, at)
  PROVE  stage'[c] = at[c] \/ (at[c] = "supervise" /\ stage'[c] = "stopping")
  BY DEF AfterExits

LEMMA KillTypes ==
  ASSUME StackTypeOK, NEW gone, NEW at \in [Cmds -> Startup \cup Running \cup Ended], Kill(gone, at)
  PROVE  /\ stage' \in [Cmds -> Startup \cup Running \cup Ended]
         /\ svc' \in [Groups -> {"none", "starting", "listening", "dead"}]
         /\ \A g, h \in Listening' : g[2] = h[2] => g = h
         /\ \A g \in Groups : Live(g)' => Live(g) /\ g \notin gone
  <1>1. stage' \in [Cmds -> Startup \cup Running \cup Ended]
    BY DEF Kill, AfterExits, Running
  <1>2. \A g \in Groups : svc'[g] = IF g \in gone THEN "dead" ELSE svc[g]
    BY DEF Kill
  <1>3. Listening' \subseteq Listening
    BY <1>2 DEF Listening, Groups
  <1> QED
    BY <1>1, <1>2, <1>3 DEF Kill, StackTypeOK, Live

\* Nobody gets their first turn back.
LEMMA InTurnBefore ==
  ASSUME InTurn', resets' = resets, overlap => overlap', StackTypeOK,
         \A c \in Cmds : stage'[c] = "idle" => stage[c] = "idle"
  PROVE  InTurn
  BY DEF InTurn, StackTypeOK

LEMMA DriftKeeps ==
  ASSUME StackTypeOK, Orderly, \A c \in Cmds : Drifts(c), file' = file, prior' = prior
  PROVE  Orderly'
  <1> USE DEF Drifts, Passing, Startup, Running, Ended
  <1>1. OneStarts'
    BY DEF Orderly, OneStarts
  <1>2. FileNamesRunning' /\ WroteFile'
    BY DEF Orderly, FileNamesRunning, WroteFile
  <1>3. PassedAlone'
    BY DEF Orderly, PassedAlone
  <1>4. WaitsForRunning'
    BY DEF Orderly, WaitsForRunning
  <1> QED
    BY <1>1, <1>2, <1>3, <1>4 DEF Orderly

\* The three parts of the invariant, for a step that only drifts.
LEMMA DriftInv ==
  ASSUME StackInv, StackTypeOK', NothingLeft', \A c \in Cmds : Drifts(c), file' = file, prior' = prior,
         resets' = resets, overlap => overlap'
  PROVE  StackInv'
  <1>1. \A c \in Cmds : stage'[c] = "idle" => stage[c] = "idle"
    BY DEF Drifts, Passing, Startup, Running, Ended
  <1>2. InTurn' => InTurn
    BY <1>1, InTurnBefore DEF StackInv
  <1> QED
    BY <1>2, DriftKeeps DEF StackInv

LEMMA StackInitInv == StackInit => StackInv
  <1> SUFFICES ASSUME StackInit PROVE StackInv
    OBVIOUS
  <1>1. StackTypeOK
    <2>1. Listening = {}
      BY DEF StackInit, Listening
    <2>2. stage \in [Cmds -> Startup \cup Running \cup Ended]
      BY DEF StackInit, Ended
    <2>3. overlap \in BOOLEAN
      BY DEF StackInit
    <2> QED
      BY <2>1, <2>2, <2>3 DEF StackInit, StackTypeOK
  <1>2. NothingLeft
    BY DEF StackInit, NothingLeft
  <1>3. Orderly
    BY DEF StackInit, Orderly, OneStarts, FileNamesRunning, PassedAlone, WaitsForRunning, WroteFile, Startup, Running
  <1> QED
    BY <1>1, <1>2, <1>3 DEF StackInv

-----------------------------------------------------------------------------
\* A kill that leaves every invocation where it stands, but for the exits.
LEMMA KillInv ==
  ASSUME StackInv, NEW gone, NEW at \in [Cmds -> Startup \cup Running \cup Ended], Kill(gone, at),
         \A c \in Cmds : at[c] = stage[c] \/ (stage[c] \in Passing /\ at[c] \in Passing)
                                          \/ (stage[c] \in Running /\ at[c] \in Running),
         \A c \in Cmds : (at[c] # stage[c] /\ at[c] = "clear") => \A g \in Own(c) : Live(g) => g \in gone,
         UNCHANGED <<resets, resetting, prior, file, handlers, foreign, overlap>>, faults' \in 0..MaxFaults
  PROVE  StackInv'
  <1>1. StackTypeOK
    BY DEF StackInv
  <1>2. StackTypeOK'
    <2> QED
      BY <1>1, KillTypes DEF StackTypeOK
  <1>3. \A c \in Cmds : stage'[c] = at[c] \/ (at[c] = "supervise" /\ stage'[c] = "stopping")
    BY AfterExitsIs DEF Kill
  <1>4. \A c \in Cmds : Drifts(c)
    BY <1>3 DEF Drifts, Running, Passing, Startup
  <1>5. NothingLeft'
    <2>1. SUFFICES ASSUME NEW c \in Cmds, stage'[c] \in {"clear", "done"}, NEW g \in Own(c), Live(g)'
                   PROVE  FALSE
      BY DEF NothingLeft, Own, Groups
    <2>2. at[c] \in {"clear", "done"}
      BY <1>3, <2>1
    <2>3. g \in Groups /\ Live(g) /\ g \notin gone
      BY <1>1, <2>1, KillTypes DEF Own
    <2>4. CASE at[c] = stage[c]
      BY <2>1, <2>2, <2>3, <2>4 DEF StackInv, NothingLeft
    <2>5. CASE at[c] # stage[c]
      BY <2>1, <2>2, <2>3, <2>5 DEF Passing, Startup, Running
    <2> QED
      BY <2>4, <2>5
  <1> QED
    BY <1>2, <1>4, <1>5, DriftInv

LEMMA ServiceStepInv ==
  ASSUME StackInv, NEW g \in Groups, Listen(g) \/ Exit(g)
  PROVE  StackInv'
  <1>1. StackTypeOK
    BY DEF StackInv
  <1>2. CASE Kill({g}, stage) /\ (Fault \/ faults' = faults)
              /\ UNCHANGED <<resets, resetting, prior, file, handlers, foreign, overlap>>
    <2>1. faults' \in 0..MaxFaults
      BY <1>1, <1>2 DEF Fault, StackTypeOK
    <2>2. stage \in [Cmds -> Startup \cup Running \cup Ended]
      BY <1>1 DEF StackTypeOK
    <2> QED
      BY <1>2, <2>1, <2>2, KillInv
  <1>3. CASE /\ svc[g] = "starting" /\ ~Taken(g[2])
             /\ svc' = [svc EXCEPT ![g] = "listening"]
             /\ UNCHANGED <<stage, resets, resetting, prior, file, handlers, foreign, overlap, faults>>
    <2>1. \A h \in Groups : svc'[h] = IF h = g THEN "listening" ELSE svc[h]
      BY <1>1, <1>3 DEF StackTypeOK
    <2>2. Listening' = Listening \cup {g}
      BY <2>1 DEF Listening, Groups
    <2>3. \A h \in Listening : h[2] # g[2]
      BY <1>3 DEF Taken
    <2>4. svc' \in [Groups -> {"none", "starting", "listening", "dead"}]
      BY <1>1, <1>3 DEF StackTypeOK
    <2>5. StackTypeOK'
      BY <1>1, <1>3, <2>2, <2>3, <2>4 DEF StackTypeOK
    <2>6. \A h \in Groups : Live(h)' => Live(h)
      BY <1>3, <2>1 DEF Live
    <2>7. NothingLeft'
      BY <1>3, <2>6 DEF StackInv, NothingLeft, Own, Groups
    <2>8. \A c \in Cmds : Drifts(c)
      BY <1>3 DEF Drifts
    <2> QED
      BY <1>3, <2>5, <2>7, <2>8, DriftInv
  <1> QED
    BY <1>2, <1>3 DEF Listen, Exit, faultVars

LEMMA GroupKillInv ==
  ASSUME StackInv, NEW c \in Cmds,
         StopOrphanedServices(c) \/ KillOrphanedServices(c) \/ StopServices(c) \/ Escalate(c)
  PROVE  StackInv'
  <1> DEFINE to == IF stage[c] = "orphans" THEN "orphans_wait" ELSE IF stage[c] = "orphans_wait" THEN "remove"
                   ELSE IF stage[c] = "stopping" THEN "await_services" ELSE "clear"
             at == [stage EXCEPT ![c] = to]
  <1>1. StackTypeOK
    BY DEF StackInv
  <1>2. /\ stage[c] \in {"orphans", "orphans_wait", "stopping", "await_services"}
        /\ UNCHANGED <<resets, resetting, prior, file, handlers, foreign, overlap, faults>>
        /\ \E gone : Kill(gone, at) /\ (stage[c] = "await_services" => gone = {g \in Own(c) : Live(g)})
    BY DEF StopOrphanedServices, KillOrphanedServices, StopServices, Escalate, faultVars
  <1>3. PICK gone : Kill(gone, at) /\ (stage[c] = "await_services" => gone = {g \in Own(c) : Live(g)})
    BY <1>2
  <1>4. /\ to \in Startup \cup Running
        /\ (stage[c] \in Passing /\ to \in Passing) \/ (stage[c] \in Running /\ to \in Running)
        /\ to = "clear" => stage[c] = "await_services"
    BY <1>2 DEF Startup, Running, Passing
  <1>5. /\ at \in [Cmds -> Startup \cup Running \cup Ended]
        /\ at[c] = to /\ \A d \in Cmds : d # c => at[d] = stage[d]
    BY <1>1, <1>4 DEF StackTypeOK
  <1> HIDE DEF at, to
  <1>6. faults' \in 0..MaxFaults
    BY <1>1, <1>2 DEF StackTypeOK
  <1>7. \A d \in Cmds : (at[d] # stage[d] /\ at[d] = "clear") => \A g \in Own(d) : Live(g) => g \in gone
    BY <1>3, <1>4, <1>5
  <1>8. \A d \in Cmds : at[d] = stage[d] \/ (stage[d] \in Passing /\ at[d] \in Passing)
                                         \/ (stage[d] \in Running /\ at[d] \in Running)
    BY <1>4, <1>5
  <1> QED
    BY <1>2, <1>3, <1>5, <1>6, <1>7, <1>8, KillInv

\* A step of one invocation that leaves the services alone.
LEMMA MoveTypes ==
  ASSUME StackTypeOK, NEW c \in Cmds, NEW l \in Startup \cup Running \cup Ended, MoveTo(c, l)
  PROVE  /\ stage' \in [Cmds -> Startup \cup Running \cup Ended]
         /\ stage'[c] = l /\ \A d \in Cmds : d # c => stage'[d] = stage[d]
  BY DEF StackTypeOK, MoveTo

LEMMA QuietServices ==
  ASSUME StackInv, svc' = svc,
         \A c \in Cmds : stage'[c] \in {"clear", "done"} => stage[c] \in {"clear", "done"}
  PROVE  NothingLeft' /\ Listening' = Listening
  BY DEF StackInv, NothingLeft, Own, Live, Listening, Groups

LEMMA SignalIs ==
  ASSUME NEW c, NEW sig
  PROVE  \/ Signalled(c, sig) = stage[c] \/ Signalled(c, sig) = "dead"
         \/ (stage[c] = "supervise" /\ Signalled(c, sig) = "stopping")
  BY DEF Signalled

LEMMA QuietMoveInv ==
  ASSUME StackInv, NEW c \in Cmds,
         \/ Interrupt(c) \/ KillInvocation(c) \/ EnsureServicePortAvailable(c) \/ Build(c)
         \/ (WaitForSupervisorExit(c) /\ MoveTo(c, "failed"))
  PROVE  StackInv'
  <1>1. StackTypeOK
    BY DEF StackInv
  <1>2. PICK l : /\ MoveTo(c, l)
                 /\ l = stage[c] \/ l \in {"dead", "failed"} \/ (stage[c] = "supervise" /\ l = "stopping")
                    \/ (stage[c] = "ports" /\ l = "build") \/ (stage[c] = "build" /\ l = "spawn")
    BY SignalIs DEF Interrupt, KillInvocation, EnsureServicePortAvailable, Build
  <1>3. /\ UNCHANGED <<resets, resetting, prior, file, svc, foreign, overlap>>
        /\ Fault \/ faults' = faults
        /\ handlers' = handlers \/ handlers' = [handlers EXCEPT ![c] = @ \ {"SIGINT"}]
    BY DEF Interrupt, KillInvocation, EnsureServicePortAvailable, Build, WaitForSupervisorExit, faultVars
  <1>4. l \in Startup \cup Running \cup Ended
    BY <1>1, <1>2 DEF StackTypeOK, Startup, Running, Ended
  <1>5. /\ stage' \in [Cmds -> Startup \cup Running \cup Ended]
        /\ stage'[c] = l /\ \A d \in Cmds : d # c => stage'[d] = stage[d]
    BY <1>1, <1>2, <1>4, MoveTypes
  <1>6. faults' \in 0..MaxFaults
    BY <1>1, <1>3 DEF Fault, StackTypeOK
  <1>7. handlers' \in [Cmds -> SUBSET {"SIGINT", "SIGTERM"}]
    BY <1>1, <1>3 DEF StackTypeOK
  <1>8. NothingLeft' /\ Listening' = Listening
    BY <1>2, <1>3, <1>5, QuietServices
  <1>9. StackTypeOK'
    BY <1>1, <1>3, <1>5, <1>6, <1>7, <1>8 DEF StackTypeOK
  <1>10. \A d \in Cmds : Drifts(d)
    BY <1>2, <1>5 DEF Drifts, Startup, Running, Ended, Passing
  <1> QED
    BY <1>3, <1>8, <1>9, <1>10, DriftInv

LEMMA OtherListensInv ==
  ASSUME StackInv, NEW s \in Services, OtherListens(s)
  PROVE  StackInv'
  <1>1. StackTypeOK
    BY DEF StackInv
  <1>2. faults' \in 0..MaxFaults
    BY <1>1 DEF OtherListens, Fault, StackTypeOK
  <1>3. NothingLeft' /\ Listening' = Listening
    BY QuietServices DEF OtherListens
  <1>4. StackTypeOK' /\ \A d \in Cmds : Drifts(d)
    BY <1>1, <1>2, <1>3 DEF OtherListens, StackTypeOK, Drifts
  <1> QED
    BY <1>3, <1>4, DriftInv DEF OtherListens

LEMMA StartServicesInv ==
  ASSUME StackInv, NEW c \in Cmds, StartServices(c)
  PROVE  StackInv'
  <1>1. StackTypeOK
    BY DEF StackInv
  <1>2. /\ stage' \in [Cmds -> Startup \cup Running \cup Ended]
        /\ stage'[c] = "truncate" /\ \A d \in Cmds : d # c => stage'[d] = stage[d]
    BY <1>1, MoveTypes DEF StartServices, Startup
  <1>3. /\ \A g \in Groups : svc'[g] = IF g[1] = c THEN "starting" ELSE svc[g]
        /\ svc' \in [Groups -> {"none", "starting", "listening", "dead"}]
    BY <1>1 DEF StartServices, StackTypeOK
  <1>4. Listening' \subseteq Listening
    BY <1>3 DEF Listening, Groups
  <1>5. NothingLeft'
    <2>1. SUFFICES ASSUME NEW d \in Cmds, stage'[d] \in {"clear", "done"}, NEW g \in Own(d)
                   PROVE  ~Live(g)'
      BY DEF NothingLeft, Own, Groups
    <2>2. d # c /\ g \in Groups /\ g[1] = d /\ stage[d] \in {"clear", "done"}
      BY <1>2, <2>1 DEF Own
    <2> QED
      BY <1>3, <2>1, <2>2 DEF StackInv, NothingLeft, Live
  <1>6. StackTypeOK'
    BY <1>1, <1>2, <1>3, <1>4 DEF StartServices, StackTypeOK, faultVars
  <1>7. \A d \in Cmds : Drifts(d)
    BY <1>2 DEF StartServices, Drifts, Passing, Startup
  <1> QED
    BY <1>5, <1>6, <1>7, DriftInv DEF StartServices, faultVars

-----------------------------------------------------------------------------
\* The steps that make the order: what the others do not do meanwhile.

LEMMA BeginInv ==
  ASSUME StackInv, NEW c \in Cmds, Begin(c)
  PROVE  StackInv'
  <1>1. StackTypeOK
    BY DEF StackInv
  <1>2. /\ stage' \in [Cmds -> Startup \cup Running \cup Ended]
        /\ stage'[c] = "read" /\ \A d \in Cmds : d # c => stage'[d] = stage[d]
    BY <1>1, MoveTypes DEF Begin, Startup
  <1>3. NothingLeft' /\ Listening' = Listening
    BY <1>2, QuietServices DEF Begin
  <1>4. overlap' \in BOOLEAN
    BY DEF Begin
  <1>5. StackTypeOK'
    BY <1>1, <1>2, <1>3, <1>4 DEF Begin, StackTypeOK
  <1>6. ASSUME InTurn' PROVE Orderly'
    <2>1. InTurn
      BY <1>1, <1>2, <1>6, InTurnBefore DEF Begin
    <2>2. \A d \in Cmds : stage[d] \notin Startup
      BY <1>6 DEF InTurn, Begin
    <2>3. \A d \in Cmds : d # c => stage'[d] \notin Startup
      BY <1>2, <2>2
    <2>4. OneStarts' /\ FileNamesRunning'
      BY <1>2, <2>1, <2>3 DEF StackInv, Orderly, OneStarts, FileNamesRunning, Begin, Running
    <2>5. PassedAlone' /\ WaitsForRunning' /\ WroteFile'
      BY <1>2, <2>3 DEF PassedAlone, WaitsForRunning, WroteFile, Startup
    <2> QED
      BY <2>4, <2>5 DEF Orderly
  <1> QED
    BY <1>3, <1>5, <1>6 DEF StackInv

\* A running invocation is one that IsOwnedSupervisor recognises.
LEMMA RunningIsOwned ==
  ASSUME InTurn, NEW d \in Cmds, stage[d] \in Running
  PROVE  IsOwnedSupervisor(d)
  BY DEF InTurn, IsOwnedSupervisor, Alive, Running, Ended

LEMMA ReadStackStateInv ==
  ASSUME StackInv, NEW c \in Cmds, ReadStackState(c)
  PROVE  StackInv'
  <1>1. StackTypeOK
    BY DEF StackInv
  <1>u. stage[c] = "read" /\ UNCHANGED <<resets, resetting, file, svc, foreign, overlap, faults>>
    BY DEF ReadStackState, faultVars
  <1>2. CASE file = Torn
    <2>1. /\ stage' \in [Cmds -> Startup \cup Running \cup Ended]
          /\ stage'[c] = "failed" /\ \A d \in Cmds : d # c => stage'[d] = stage[d]
      BY <1>1, <1>2, MoveTypes DEF ReadStackState, Ended
    <2>2. NothingLeft' /\ Listening' = Listening
      BY <1>u, <2>1, QuietServices
    <2>3. StackTypeOK'
      BY <1>1, <1>2, <1>u, <2>1, <2>2 DEF ReadStackState, StackTypeOK
    <2>4. \A d \in Cmds : Drifts(d)
      BY <2>1 DEF Drifts, Ended
    <2> QED
      BY <1>2, <1>u, <2>2, <2>3, <2>4, DriftInv DEF ReadStackState
  <1>3. CASE file # Torn /\ file # NoFile /\ IsOwnedSupervisor(file)
    <2>0. file \in Cmds
      BY <1>1, <1>3 DEF StackTypeOK
    <2>1. PICK l : /\ l = stage[file] \/ l = "dead" \/ (stage[file] = "supervise" /\ l = "stopping")
                   /\ stage' = [stage EXCEPT ![c] = "await", ![file] = l]
                   /\ prior' = [prior EXCEPT ![c] = file]
                   /\ handlers' = [handlers EXCEPT ![file] = @ \ {"SIGTERM"}]
      BY <1>3, SignalIs DEF ReadStackState
    <2>2. /\ stage'[file] = l
          /\ c # file => stage'[c] = "await"
          /\ \A d \in Cmds : (d # c /\ d # file) => stage'[d] = stage[d]
          /\ stage' \in [Cmds -> Startup \cup Running \cup Ended]
      BY <1>1, <2>0, <2>1 DEF StackTypeOK, Startup, Running, Ended
    <2>3. NothingLeft' /\ Listening' = Listening
      BY <1>u, <2>0, <2>1, <2>2, QuietServices
    <2>4. prior'[c] = file /\ \A d \in Cmds : d # c => prior'[d] = prior[d]
      BY <1>1, <2>1 DEF StackTypeOK
    <2>5. StackTypeOK'
      BY <1>1, <1>u, <2>0, <2>1, <2>2, <2>3 DEF StackTypeOK
    <2>6. ASSUME InTurn' PROVE Orderly'
      <3>1. \A d \in Cmds : stage'[d] = "idle" => stage[d] = "idle"
        BY <1>u, <2>1, <2>2
      <3>2. InTurn /\ Orderly
        BY <1>1, <1>u, <2>6, <3>1, InTurnBefore DEF StackInv
      <3>3. \A d \in Cmds : stage'[d] \in Startup => d = c
        BY <1>u, <2>1, <2>2, <3>2 DEF Orderly, OneStarts, Startup
      <3>4. \A d \in Cmds : stage'[d] \in Running => stage[d] \in Running
        BY <1>u, <2>1, <2>2 DEF Running
      <3>5. FileNamesRunning'
        BY <1>u, <3>2, <3>4 DEF Orderly, FileNamesRunning
      <3>6. stage'[c] \in {"await", "read", "dead", "stopping"}
        BY <1>u, <2>1, <2>2
      <3>7. OneStarts' /\ PassedAlone' /\ WroteFile'
        BY <3>3, <3>6 DEF OneStarts, PassedAlone, WroteFile, Startup
      <3>8. WaitsForRunning'
        BY <1>u, <2>4, <3>3, <3>5 DEF WaitsForRunning, FileNamesRunning, Startup
      <3> QED
        BY <3>5, <3>7, <3>8 DEF Orderly
    <2> QED
      BY <2>3, <2>5, <2>6 DEF StackInv
  <1>4. CASE file # Torn /\ (file = NoFile \/ ~IsOwnedSupervisor(file))
    <2>1. /\ MoveTo(c, "orphans") /\ handlers' = handlers
          /\ prior' = [prior EXCEPT ![c] = file]
      BY <1>4 DEF ReadStackState
    <2>2. /\ stage' \in [Cmds -> Startup \cup Running \cup Ended]
          /\ stage'[c] = "orphans" /\ \A d \in Cmds : d # c => stage'[d] = stage[d]
      BY <1>1, <2>1, MoveTypes DEF Startup
    <2>3. NothingLeft' /\ Listening' = Listening
      BY <1>u, <2>2, QuietServices
    <2>4. StackTypeOK'
      BY <1>1, <1>4, <1>u, <2>1, <2>2, <2>3 DEF StackTypeOK
    <2>5. ASSUME InTurn' PROVE Orderly'
      <3>1. InTurn /\ Orderly
        BY <1>1, <1>u, <2>2, <2>5, InTurnBefore DEF StackInv
      <3>2. \A d \in Cmds : stage[d] \notin Running
        BY <1>4, <3>1, RunningIsOwned DEF Orderly, FileNamesRunning
      <3>3. \A d \in Cmds : stage'[d] \notin Running
        BY <2>2, <3>2 DEF Running
      <3>4. \A d \in Cmds : stage'[d] \in Startup => d = c
        BY <1>u, <2>2, <3>1 DEF Orderly, OneStarts, Startup
      <3> QED
        BY <2>2, <3>3, <3>4 DEF Orderly, OneStarts, FileNamesRunning, PassedAlone, WaitsForRunning, WroteFile, Startup
    <2> QED
      BY <2>3, <2>4, <2>5 DEF StackInv
  <1> QED
    BY <1>2, <1>3, <1>4

LEMMA WaitedInv ==
  ASSUME StackInv, NEW c \in Cmds, WaitForSupervisorExit(c), ~IsOwnedSupervisor(prior[c]), MoveTo(c, "orphans")
  PROVE  StackInv'
  <1>1. StackTypeOK
    BY DEF StackInv
  <1>u. stage[c] = "await" /\ UNCHANGED <<resets, resetting, prior, file, svc, handlers, foreign, overlap, faults>>
    BY DEF WaitForSupervisorExit, faultVars
  <1>2. /\ stage' \in [Cmds -> Startup \cup Running \cup Ended]
        /\ stage'[c] = "orphans" /\ \A d \in Cmds : d # c => stage'[d] = stage[d]
    BY <1>1, MoveTypes DEF Startup
  <1>3. NothingLeft' /\ Listening' = Listening
    BY <1>u, <1>2, QuietServices
  <1>4. StackTypeOK'
    BY <1>1, <1>u, <1>2, <1>3 DEF StackTypeOK
  <1>5. ASSUME InTurn' PROVE Orderly'
    <2>1. InTurn /\ Orderly
      BY <1>1, <1>u, <1>2, <1>5, InTurnBefore DEF StackInv
    <2>2. \A d \in Cmds : stage[d] \notin Running
      BY <1>u, <2>1, RunningIsOwned DEF Orderly, WaitsForRunning
    <2>3. \A d \in Cmds : stage'[d] \notin Running
      BY <1>2, <2>2 DEF Running
    <2>4. \A d \in Cmds : stage'[d] \in Startup => d = c
      BY <1>u, <1>2, <2>1 DEF Orderly, OneStarts, Startup
    <2> QED
      BY <1>2, <2>3, <2>4 DEF Orderly, OneStarts, FileNamesRunning, PassedAlone, WaitsForRunning, WroteFile, Startup
  <1> QED
    BY <1>3, <1>4, <1>5 DEF StackInv

\* The steps of a start that has passed the others, and the last of a shutdown.
LEMMA FileStepInv ==
  ASSUME StackInv, NEW c \in Cmds, RemoveStackState(c) \/ WriteStackState(c) \/ RegisterHandlers(c) \/ ClearState(c)
  PROVE  StackInv'
  <1>1. StackTypeOK
    BY DEF StackInv
  <1>2. PICK l : /\ MoveTo(c, l) /\ l \in {"read", "ports", "write", "register", "supervise", "done"}
                 /\ \/ stage[c] = "remove" /\ l = "read" /\ c \in resetting
                    \/ stage[c] = "remove" /\ l = "ports"
                    \/ stage[c] = "truncate" /\ l = "write"
                    \/ stage[c] = "write" /\ l = "register" /\ file' = c
                    \/ stage[c] = "register" /\ l = "supervise" /\ file' = file
                    \/ stage[c] = "clear" /\ l = "done"
    BY DEF RemoveStackState, WriteStackState, RegisterHandlers, ClearState
  <1>u. /\ UNCHANGED <<resets, prior, svc, foreign, overlap, faults>>
        /\ file' \in {file, NoFile, Torn, c}
        /\ resetting' = resetting \/ resetting' = resetting \ {c}
        /\ handlers' = handlers \/ handlers' = [handlers EXCEPT ![c] = {"SIGINT", "SIGTERM"}]
    BY DEF RemoveStackState, WriteStackState, RegisterHandlers, ClearState, faultVars
  <1>3. /\ stage' \in [Cmds -> Startup \cup Running \cup Ended]
        /\ stage'[c] = l /\ \A d \in Cmds : d # c => stage'[d] = stage[d]
    BY <1>1, <1>2, MoveTypes DEF Startup, Running, Ended
  <1>4. NothingLeft' /\ Listening' = Listening
    BY <1>2, <1>u, <1>3, QuietServices
  <1>5. handlers' \in [Cmds -> SUBSET {"SIGINT", "SIGTERM"}]
    BY <1>1, <1>u DEF StackTypeOK
  <1>6. StackTypeOK'
    BY <1>1, <1>u, <1>3, <1>4, <1>5 DEF StackTypeOK
  <1>7. ASSUME InTurn' PROVE Orderly'
    <2>1. InTurn /\ Orderly
      BY <1>1, <1>2, <1>u, <1>3, <1>7, InTurnBefore DEF StackInv
    <2>2. c \notin resetting
      BY <1>1, <1>2, <2>1 DEF InTurn, StackTypeOK
    <2>3. CASE stage[c] \in {"remove", "truncate", "write", "register"}
      <3>1. \A d \in Cmds : stage[d] \notin Running
        BY <2>1, <2>3 DEF Orderly, PassedAlone, Startup
      <3>2. \A d \in Cmds : d # c => stage'[d] \notin Startup /\ stage'[d] \notin Running
        BY <1>3, <2>1, <2>3, <3>1 DEF Orderly, OneStarts, Startup
      <3>3. l = "supervise" => file' = c
        BY <1>2, <2>1 DEF Orderly, WroteFile
      <3>4. l # "read" /\ (l = "register" => file' = c)
        BY <1>2, <2>2
      <3> QED
        BY <1>2, <1>3, <3>2, <3>3, <3>4 DEF Orderly, OneStarts, FileNamesRunning, PassedAlone, WaitsForRunning,
             WroteFile, Startup, Running
    <2>4. CASE stage[c] = "clear"
      <3>1. \A d \in Cmds : stage'[d] \notin Running
        BY <1>2, <1>3, <2>1, <2>4 DEF Orderly, FileNamesRunning, Running
      <3>2. \A d \in Cmds : stage'[d] \in Startup => stage[d] \in Startup /\ stage[d] \in {"read", "await"}
        BY <1>2, <1>3, <2>1, <2>4 DEF Orderly, PassedAlone, Running, Startup
      <3>3. \A d \in Cmds : stage'[d] # "register"
        BY <3>2, <1>3, <1>2, <2>4 DEF Startup
      <3>4. OneStarts'
        BY <2>1, <3>2 DEF Orderly, OneStarts
      <3> QED
        BY <3>1, <3>3, <3>4 DEF Orderly, FileNamesRunning, PassedAlone, WaitsForRunning, WroteFile
    <2> QED
      BY <1>2, <2>3, <2>4
  <1> QED
    BY <1>4, <1>6, <1>7 DEF StackInv

LEMMA StackNextInv == StackInv /\ [StackNext]_stackVars => StackInv'
  <1> SUFFICES ASSUME StackInv, [StackNext]_stackVars PROVE StackInv'
    OBVIOUS
  <1>1. CASE UNCHANGED stackVars
    <2>1. NothingLeft' /\ Listening' = Listening
      BY <1>1, QuietServices DEF stackVars
    <2>2. StackTypeOK' /\ \A c \in Cmds : Drifts(c)
      BY <1>1, <2>1 DEF StackInv, StackTypeOK, stackVars, Drifts
    <2> QED
      BY <1>1, <2>1, <2>2, DriftInv DEF stackVars
  <1>2. ASSUME NEW c \in Cmds, Begin(c) \/ Step(c) \/ Interrupt(c) \/ KillInvocation(c) PROVE StackInv'
    <2>1. CASE WaitForSupervisorExit(c)
      BY <2>1, WaitedInv, QuietMoveInv DEF WaitForSupervisorExit
    <2> QED
      BY <1>2, <2>1, BeginInv, ReadStackStateInv, GroupKillInv, FileStepInv, QuietMoveInv, StartServicesInv DEF Step
  <1> QED
    BY <1>1, <1>2, ServiceStepInv, OtherListensInv DEF StackNext

\* Processes and the state file agree (StackInvariant): a shut-down supervisor has
\* left no service behind, and stack-up invocations that follow one another leave
\* one supervisor, which local-stack.json names.
THEOREM StackStaysConsistent == StackSpec => []StackInvariant
  <1>1. StackInv => StackInvariant
    BY DEF StackInv, StackInvariant, NothingLeft, ShutdownStopsAll, InTurn, Orderly, FileNamesRunning,
         RunningIsRecorded, Running
  <1> QED
    BY <1>1, StackInitInv, StackNextInv, PTL DEF StackSpec

-----------------------------------------------------------------------------
(* MigrationAdoption *)

Reading == {"catalog", "plan"}
Adopting == {"table", "record", "apply"}
Migrating == {"drizzle", "drizzle_apply", "done"}

\* Every migration up to this one is in the journal.
RecordedUpTo(m) == \A n \in Migrations : n <= m => n \in Recorded

\* The catalog queries answered so far have shown everything of a migration.
SeenSoFar(r, m) == \A k \in read[r] : <<m, k>> \in seen[r]

\* The database: what a schema holds of a migration nobody has a fingerprint of
\* came from migrating in order, and rows need their table.
HistoryInOrder ==
  /\ Recorded \subseteq Present
  /\ \A m \in Migrations : (K <= m /\ Objects(m) \cap catalog # {}) => m \in Present /\ RecordedUpTo(m)

\* While a migration is there in part, nobody gets past the plan and every
\* answer still describes the catalog.
PartialStops ==
  Partial # {} => \A r \in Runners :
    /\ pc[r] \in {"journal", "catalog", "plan", "failed", "crashed"}
    /\ seen[r] = {o \in catalog : o[2] \in read[r]}

\* What an invocation knows of the database, which may have moved on since.
KnownOf(r) ==
  /\ recorded[r] \subseteq Recorded /\ seen[r] \subseteq catalog
  /\ pc[r] = "journal" => read[r] = {} /\ seen[r] = {}
  /\ pc[r] = "plan" => read[r] = Kinds
  /\ \A o \in catalog : (o[2] \in read[r] /\ o \notin seen[r]) => o[1] \in Recorded

\* A gap below a present migration is never overlooked: the invocation has seen,
\* of some known migration above the gap, all that it has read.
ReadingOf(r) ==
  pc[r] \in Reading => \A n \in Present :
    RecordedUpTo(n) \/ \E h \in Known : n <= h /\ h \in Present /\ SeenSoFar(r, h)

\* What is left to record and to apply fills every gap.
AdoptingOf(r) ==
  pc[r] \in Adopting =>
    /\ adopt[r] \subseteq Present
    /\ \A n \in Present : n \in Recorded \cup adopt[r]
    /\ \A n \in Present : \A m \in Migrations : m < n => m \in Recorded \cup adopt[r] \cup missing[r]
    /\ \A m \in missing[r] : \E n \in Present : m < n
    /\ pc[r] = "apply" => adopt[r] = {}
    /\ pc[r] # "table" => table

\* From then on the journal is the schema, without gaps.
MigratingOf(r) ==
  pc[r] \in Migrating =>
    /\ \A n \in Present : RecordedUpTo(n)
    /\ pc[r] # "drizzle" => table
    /\ pc[r] = "drizzle_apply" => \A m \in Migrations : m < last[r] => m \in Recorded

MigrationInv ==
  /\ MigrationTypeOK /\ HistoryInOrder /\ PartialStops /\ SuccessMeansMigrated
  /\ \A r \in Runners : KnownOf(r) /\ ReadingOf(r) /\ AdoptingOf(r) /\ MigratingOf(r)

\* What the invocation in hand leaves alone of another one.
Untouched(r) ==
  /\ pc'[r] = pc[r] /\ recorded'[r] = recorded[r] /\ read'[r] = read[r] /\ seen'[r] = seen[r]
  /\ adopt'[r] = adopt[r] /\ missing'[r] = missing[r] /\ last'[r] = last[r]

\* How the database may change under an invocation: it only grows, and what is
\* new is recorded, either in order or in a gap below something present.
DbStep ==
  /\ catalog \subseteq catalog' /\ Recorded \subseteq Recorded' /\ Recorded' \subseteq Present'
  /\ table => table'
  /\ \A o \in catalog' \ catalog : o[1] \in Recorded'
  /\ \A n \in Present' \ Present : RecordedUpTo(n)' \/ \E p \in Present : n < p
  /\ catalog' # catalog \/ journal' # journal => Partial = {} /\ Partial' = {}

HIDE StackAssumption
USE MigrationAssumption

\* Objects(m) holds one object of every kind.
LEMMA ObjectsOf ==
  ASSUME NEW m, NEW C
  PROVE  /\ Objects(m) \subseteq C <=> \A k \in Kinds : <<m, k>> \in C
         /\ Objects(m) \cap C = {} <=> \A k \in Kinds : <<m, k>> \notin C
  BY DEF Objects

LEMMA MembersOfMigrations ==
  /\ Migrations \subseteq Nat /\ Known \subseteq Migrations
  /\ \A m \in Migrations : m < K <=> m \in Known
  BY DEF Migrations, Known

\* The catalog only grows, so what is present stays.
LEMMA PresentGrows ==
  ASSUME DbStep
  PROVE  Present \subseteq Present' /\ \A m : RecordedUpTo(m) => RecordedUpTo(m)'
  BY DEF DbStep, Present, RecordedUpTo, Migrations, Objects

LEMMA DbKeepsHistory ==
  ASSUME MigrationTypeOK, MigrationTypeOK', HistoryInOrder, DbStep
  PROVE  HistoryInOrder'
  <1>1. ASSUME NEW m \in Migrations, K <= m, NEW k \in Kinds, <<m, k>> \in catalog'
        PROVE  m \in Present' /\ RecordedUpTo(m)'
    <2>1. CASE <<m, k>> \in catalog
      <3>1. m \in Present /\ RecordedUpTo(m)
        BY <1>1, <2>1, ObjectsOf DEF HistoryInOrder
      <3> QED
        BY <3>1, PresentGrows
    <2>2. CASE <<m, k>> \notin catalog
      <3>1. m \in Recorded' /\ m \in Present'
        BY <1>1, <2>2 DEF DbStep
      <3>2. m \notin Present
        BY <1>1, <2>2, ObjectsOf DEF Present
      <3>3. ASSUME NEW p \in Present, m < p
            PROVE  RecordedUpTo(m)
        <4>1. p \in Migrations /\ K <= p
          BY <1>1, <3>3, MembersOfMigrations DEF Present
        <4>2. \A x \in Kinds : <<p, x>> \in catalog
          BY <3>3, ObjectsOf DEF Present
        <4>3. RecordedUpTo(p)
          BY <1>1, <4>1, <4>2, ObjectsOf DEF HistoryInOrder
        <4> QED
          BY <4>1, <4>3, <3>3, MembersOfMigrations DEF RecordedUpTo
      <3> QED
        BY <3>1, <3>2, <3>3, PresentGrows DEF DbStep
    <2> QED
      BY <2>1, <2>2
  <1>2. ASSUME NEW m \in Migrations, K <= m, Objects(m) \cap catalog' # {}
        PROVE  \E k \in Kinds : <<m, k>> \in catalog'
    BY <1>2, ObjectsOf
  <1> QED
    BY <1>1, <1>2 DEF HistoryInOrder, DbStep, Objects, Migrations

\* An invocation that does not move keeps what it relies on.
LEMMA DbKeepsInvocation ==
  ASSUME MigrationTypeOK, MigrationTypeOK', DbStep, NEW r \in Runners, Untouched(r),
         KnownOf(r), ReadingOf(r), AdoptingOf(r), MigratingOf(r)
  PROVE  KnownOf(r)' /\ ReadingOf(r)' /\ AdoptingOf(r)' /\ MigratingOf(r)'
  <1>1. KnownOf(r)'
    BY DEF KnownOf, Untouched, DbStep
  <1>2. ReadingOf(r)'
    <2>1. SUFFICES ASSUME pc[r] \in Reading, NEW n \in Present'
                   PROVE  RecordedUpTo(n)' \/ \E h \in Known : n <= h /\ h \in Present' /\ SeenSoFar(r, h)'
      BY DEF ReadingOf, Untouched, Known
    <2>2. ASSUME NEW p \in Present, n <= p
          PROVE  RecordedUpTo(n)' \/ \E h \in Known : n <= h /\ h \in Present' /\ SeenSoFar(r, h)'
      <3>0. n \in Nat /\ p \in Nat
        BY <2>1, <2>2, MembersOfMigrations DEF Present
      <3>1. CASE RecordedUpTo(p)
        BY <3>0, <3>1, <2>2, PresentGrows, MembersOfMigrations DEF RecordedUpTo
      <3>2. ASSUME NEW h \in Known, p <= h, h \in Present, SeenSoFar(r, h)
            PROVE  n <= h /\ h \in Present' /\ SeenSoFar(r, h)'
        <4>1. n <= h
          BY <3>0, <3>2, <2>2, MembersOfMigrations
        <4>2. SeenSoFar(r, h)'
          BY <3>2 DEF SeenSoFar, Untouched
        <4> QED
          BY <4>1, <4>2, <3>2, PresentGrows
      <3> QED
        BY <2>1, <2>2, <3>1, <3>2 DEF ReadingOf
    <2>3. CASE n \in Present
      BY <2>2, <2>3, MembersOfMigrations DEF Present
    <2>4. CASE n \notin Present
      <3>1. RecordedUpTo(n)' \/ \E p \in Present : n < p
        BY <2>1, <2>4 DEF DbStep
      <3> QED
        BY <3>1, <2>1, <2>2, MembersOfMigrations DEF Present
    <2> QED
      BY <2>3, <2>4
  <1>3. AdoptingOf(r)'
    <2>1. SUFFICES ASSUME pc[r] \in Adopting PROVE AdoptingOf(r)'
      BY DEF AdoptingOf, Untouched
    <2>2. adopt[r] \subseteq Present' /\ (pc[r] = "apply" => adopt[r] = {}) /\ (pc[r] # "table" => table')
      BY <2>1, PresentGrows DEF AdoptingOf, DbStep
    <2>3. \A m \in missing[r] : \E n \in Present' : m < n
      BY <2>1, PresentGrows DEF AdoptingOf
    <2>4. ASSUME NEW n \in Present'
          PROVE  n \in Recorded' \cup adopt[r]
      <3>1. CASE n \in Present
        BY <2>1, <3>1 DEF AdoptingOf, DbStep
      <3>2. CASE n \notin Present
        <4>1. PICK k \in Kinds : <<n, k>> \in catalog' \ catalog
          BY ObjectsOf, <3>2 DEF Present
        <4> QED
          BY <4>1 DEF DbStep
      <3> QED
        BY <3>1, <3>2
    <2>5. ASSUME NEW n \in Present', NEW m \in Migrations, m < n
          PROVE  m \in Recorded' \cup adopt[r] \cup missing[r]
      <3>0. n \in Migrations
        BY DEF Present, Migrations
      <3>1. ASSUME NEW p \in Present, n <= p
            PROVE  m \in Recorded' \cup adopt[r] \cup missing[r]
        <4>1. m < p
          BY <3>0, <3>1, <2>5, MembersOfMigrations DEF Present
        <4> QED
          BY <4>1, <2>1 DEF AdoptingOf, DbStep
      <3>2. CASE RecordedUpTo(n)'
        BY <3>0, <3>2, <2>5, MembersOfMigrations DEF RecordedUpTo, Migrations
      <3>3. RecordedUpTo(n)' \/ \E p \in Present : n <= p
        BY <3>0, MembersOfMigrations DEF DbStep, Present
      <3> QED
        BY <3>1, <3>2, <3>3
    <2> QED
      BY <2>1, <2>2, <2>3, <2>4, <2>5 DEF AdoptingOf, Untouched, Migrations
  <1>4. MigratingOf(r)'
    <2>1. SUFFICES ASSUME pc[r] \in Migrating PROVE MigratingOf(r)'
      BY DEF MigratingOf, Untouched
    <2>2. ASSUME NEW n \in Present' PROVE RecordedUpTo(n)'
      <3>0. n \in Migrations
        BY DEF Present, Migrations
      <3>1. ASSUME NEW p \in Present, n <= p
            PROVE  RecordedUpTo(n)
        <4>1. RecordedUpTo(p) /\ p \in Migrations
          BY <2>1 DEF MigratingOf, Present
        <4> QED
          BY <4>1, <3>0, <3>1, MembersOfMigrations DEF RecordedUpTo
      <3> QED
        BY <3>0, <3>1, PresentGrows, MembersOfMigrations DEF DbStep, Present
    <2> QED
      BY <2>1, <2>2 DEF MigratingOf, Untouched, DbStep, Migrations
  <1> QED
    BY <1>1, <1>2, <1>3, <1>4

\* The pieces of one step, put together.
LEMMA StepKeeps ==
  ASSUME MigrationInv, MigrationTypeOK', DbStep, NEW r \in Runners,
         \A q \in Runners : q # r => Untouched(q),
         KnownOf(r)', ReadingOf(r)', AdoptingOf(r)', MigratingOf(r)',
         Partial # {} =>
           /\ pc'[r] \in {"journal", "catalog", "plan", "failed", "crashed"}
           /\ seen'[r] = {o \in catalog : o[2] \in read'[r]},
         pc'[r] = "done" => Present' = Migrations /\ Recorded' = Migrations
  PROVE  MigrationInv'
  <1>1. HistoryInOrder'
    BY DbKeepsHistory DEF MigrationInv
  <1>2. \A q \in Runners : KnownOf(q)' /\ ReadingOf(q)' /\ AdoptingOf(q)' /\ MigratingOf(q)'
    BY DbKeepsInvocation DEF MigrationInv
  <1>3. PartialStops'
    <2>1. SUFFICES ASSUME Partial' # {}, NEW q \in Runners
                   PROVE  /\ pc'[q] \in {"journal", "catalog", "plan", "failed", "crashed"}
                          /\ seen'[q] = {o \in catalog' : o[2] \in read'[q]}
      BY DEF PartialStops
    <2>2. catalog' = catalog
      BY <2>1 DEF DbStep
    <2>3. Partial # {}
      BY <2>1, <2>2 DEF Partial, Present
    <2>4. CASE q # r
      BY <2>2, <2>3, <2>4 DEF MigrationInv, PartialStops, Untouched
    <2> QED
      BY <2>2, <2>3, <2>4
  <1>4. SuccessMeansMigrated'
    <2>1. SUFFICES ASSUME NEW q \in Runners, pc'[q] = "done", q # r
                   PROVE  Present' = Migrations /\ Recorded' = Migrations
      BY DEF SuccessMeansMigrated, Migrations
    <2>2. Present = Migrations /\ Recorded = Migrations
      BY <2>1 DEF MigrationInv, SuccessMeansMigrated, Untouched
    <2> QED
      BY <2>2 DEF DbStep, Present, Recorded, Migrations
  <1> QED
    BY <1>1, <1>2, <1>3, <1>4 DEF MigrationInv

LEMMA QuietDb ==
  ASSUME MigrationInv, UNCHANGED <<catalog, journal>>, table => table'
  PROVE  DbStep
  BY DEF DbStep, Recorded, Present, MigrationInv, HistoryInOrder

LEMMA MigrationInitInv == MigrationInit => MigrationInv
  <1> SUFFICES ASSUME MigrationInit PROVE MigrationInv
    OBVIOUS
  <1>1. \A r \in Runners : pc[r] = "journal" /\ recorded[r] = {} /\ read[r] = {} /\ seen[r] = {}
    BY DEF MigrationInit
  <1>2. CASE /\ catalog \in SUBSET (Known \X Kinds)
             /\ table = FALSE /\ journal = [m \in Migrations |-> 0]
    <2>1. Recorded = {}
      BY <1>2 DEF Recorded
    <2>2. MigrationTypeOK
      <3>1. catalog \subseteq Migrations \X Kinds
        BY <1>2, MembersOfMigrations
      <3>2. journal \in [Migrations -> Nat]
        BY <1>2
      <3>3. table \in BOOLEAN /\ (~table => Recorded = {})
        BY <1>2, <2>1
      <3> QED
        BY <3>1, <3>2, <3>3 DEF MigrationInit, MigrationTypeOK
    <2>3. HistoryInOrder
      BY <1>2, <2>1, MembersOfMigrations, ObjectsOf DEF HistoryInOrder, Known, Migrations
    <2> QED
      BY <1>1, <2>1, <2>2, <2>3 DEF MigrationInv, PartialStops, SuccessMeansMigrated, KnownOf, ReadingOf,
           AdoptingOf, MigratingOf, Reading, Adopting, Migrating
  <1>3. ASSUME NEW n \in 1..N,
               catalog = (0..(n - 1)) \X Kinds,
               table = TRUE, journal = [m \in Migrations |-> IF m < n THEN 1 ELSE 0]
        PROVE  MigrationInv
    <2>1. \A m \in Migrations : m \in Recorded <=> m < n
      BY <1>3 DEF Recorded, Migrations
    <2>2. MigrationTypeOK
      BY <1>3, MembersOfMigrations DEF MigrationInit, MigrationTypeOK, Migrations
    <2>3. \A m \in Migrations : \A k \in Kinds : <<m, k>> \in catalog <=> m < n
      BY <1>3 DEF Migrations
    <2>4. \A m \in Migrations : m \in Present <=> m < n
      BY <2>3, ObjectsOf DEF Present
    <2>5. \A m \in Migrations : m < n => RecordedUpTo(m)
      BY <2>1, MembersOfMigrations DEF RecordedUpTo, Migrations
    <2>6. HistoryInOrder
      BY <2>1, <2>3, <2>4, <2>5, ObjectsOf DEF HistoryInOrder, Recorded
    <2>7. Partial = {}
      BY <2>3, <2>4, MembersOfMigrations, ObjectsOf DEF Partial
    <2> QED
      BY <1>1, <2>2, <2>6, <2>7 DEF MigrationInv, PartialStops, SuccessMeansMigrated, KnownOf, ReadingOf,
           AdoptingOf, MigratingOf, Reading, Adopting, Migrating
  <1> QED
    BY <1>2, <1>3 DEF MigrationInit

\* Reading, planning, stopping: the database stays as it is.
LEMMA ReadJournalInv ==
  ASSUME MigrationInv, NEW r \in Runners, ReadJournal(r)
  PROVE  MigrationInv'
  <1> USE DEF ReadJournal, dbVars, bounds, Goto
  <1>1. MigrationTypeOK
    BY DEF MigrationInv
  <1>2. MigrationTypeOK' /\ Recorded' = Recorded /\ Present' = Present
    BY <1>1 DEF MigrationTypeOK, Recorded, Present
  <1>3. DbStep
    BY QuietDb
  <1>4. \A q \in Runners : q # r => Untouched(q)
    BY <1>1 DEF Untouched, MigrationTypeOK
  <1>5. pc[r] = "journal" /\ pc'[r] = "catalog" /\ recorded'[r] = Recorded
    BY <1>1 DEF MigrationTypeOK
  <1>6. KnownOf(r)'
    BY <1>1, <1>2, <1>5 DEF MigrationInv, KnownOf
  <1>7. ReadingOf(r)'
    <2>1. SUFFICES ASSUME NEW n \in Present
                   PROVE  RecordedUpTo(n) \/ (n \in Known /\ SeenSoFar(r, n))
      BY <1>2, <1>5, MembersOfMigrations DEF ReadingOf, RecordedUpTo, SeenSoFar, Present, Known
    <2>2. \A k \in Kinds : <<n, k>> \in catalog
      BY ObjectsOf DEF Present
    <2>3. CASE K <= n
      BY <2>2, <2>3, ObjectsOf DEF MigrationInv, HistoryInOrder, Present
    <2>4. CASE ~ (K <= n)
      <3>1. n \in Known
        BY <2>4, MembersOfMigrations DEF Present
      <3> QED
        BY <1>5, <3>1 DEF MigrationInv, KnownOf, SeenSoFar
    <2> QED
      BY <2>3, <2>4
  <1>8. AdoptingOf(r)' /\ MigratingOf(r)'
    BY <1>5 DEF AdoptingOf, MigratingOf, Adopting, Migrating
  <1>9. Partial # {} => seen'[r] = {o \in catalog : o[2] \in read'[r]}
    BY DEF MigrationInv, PartialStops
  <1> QED
    BY <1>2, <1>3, <1>4, <1>5, <1>6, <1>7, <1>8, <1>9, StepKeeps

LEMMA ReadCatalogInv ==
  ASSUME MigrationInv, NEW r \in Runners, ReadCatalog(r)
  PROVE  MigrationInv'
  <1> USE DEF ReadCatalog, dbVars, bounds, Goto
  <1>1. MigrationTypeOK
    BY DEF MigrationInv
  <1>k. PICK k \in Kinds \ read[r] :
          /\ read' = [read EXCEPT ![r] = @ \cup {k}]
          /\ seen' = [seen EXCEPT ![r] = @ \cup {o \in catalog : o[2] = k}]
          /\ pc' = [pc EXCEPT ![r] = IF read'[r] = Kinds THEN "plan" ELSE "catalog"]
    OBVIOUS
  <1>5. /\ pc[r] = "catalog" /\ read'[r] = read[r] \cup {k}
        /\ seen'[r] = seen[r] \cup {o \in catalog : o[2] = k}
        /\ pc'[r] = IF read'[r] = Kinds THEN "plan" ELSE "catalog"
    BY <1>1, <1>k DEF MigrationTypeOK
  <1>2. MigrationTypeOK' /\ Recorded' = Recorded /\ Present' = Present
    BY <1>1, <1>k, <1>5 DEF MigrationTypeOK, Recorded, Present
  <1>3. DbStep
    BY QuietDb
  <1>4. \A q \in Runners : q # r => Untouched(q)
    BY <1>1, <1>k DEF Untouched, MigrationTypeOK
  <1>6. KnownOf(r)'
    BY <1>1, <1>2, <1>5 DEF MigrationInv, KnownOf
  <1>7. ReadingOf(r)'
    <2>1. ASSUME NEW h \in Known, h \in Present, SeenSoFar(r, h)
          PROVE  SeenSoFar(r, h)'
      <3>1. \A x \in Kinds : <<h, x>> \in catalog
        BY <2>1, ObjectsOf DEF Present
      <3> QED
        BY <1>k, <1>5, <2>1, <3>1 DEF SeenSoFar
    <2>2. pc[r] \in Reading
      BY <1>5 DEF Reading
    <2> QED
      BY <1>2, <2>1, <2>2 DEF MigrationInv, ReadingOf, RecordedUpTo, Known
  <1>8. AdoptingOf(r)' /\ MigratingOf(r)'
    BY <1>5 DEF AdoptingOf, MigratingOf, Adopting, Migrating
  <1>9. Partial # {} => seen'[r] = {o \in catalog : o[2] \in read'[r]}
    BY <1>5 DEF MigrationInv, PartialStops
  <1> QED
    BY <1>2, <1>3, <1>4, <1>5, <1>6, <1>7, <1>8, <1>9, StepKeeps

LEMMA StopInv ==
  ASSUME MigrationInv, NEW r \in Runners, Crash(r) \/ Repeat(r)
  PROVE  MigrationInv'
  <1> USE DEF Crash, Repeat, dbVars, bounds, Goto
  <1>1. MigrationTypeOK
    BY DEF MigrationInv
  <1>2. MigrationTypeOK' /\ Recorded' = Recorded /\ Present' = Present
    <2>1. crashes' \in 0..MaxCrashes /\ retries' \in 0..MaxRetries
      BY <1>1 DEF MigrationTypeOK
    <2> QED
      BY <1>1, <2>1 DEF MigrationTypeOK, Recorded, Present
  <1>3. DbStep
    BY QuietDb
  <1>4. \A q \in Runners : q # r => Untouched(q)
    BY <1>1 DEF Untouched, MigrationTypeOK
  <1>5. \/ pc'[r] = "crashed" /\ read'[r] = read[r] /\ seen'[r] = seen[r]
        \/ pc'[r] = "journal" /\ read'[r] = {} /\ seen'[r] = {}
    BY <1>1 DEF MigrationTypeOK
  <1>6. KnownOf(r)'
    BY <1>1, <1>2, <1>5 DEF MigrationInv, KnownOf
  <1>8. ReadingOf(r)' /\ AdoptingOf(r)' /\ MigratingOf(r)'
    BY <1>5 DEF ReadingOf, AdoptingOf, MigratingOf, Reading, Adopting, Migrating
  <1>9. Partial # {} => seen'[r] = {o \in catalog : o[2] \in read'[r]}
    BY <1>5 DEF MigrationInv, PartialStops
  <1> QED
    BY <1>2, <1>3, <1>4, <1>5, <1>6, <1>8, <1>9, StepKeeps

LEMMA EnsureTableInv ==
  ASSUME MigrationInv, NEW r \in Runners, EnsureMigrationTable(r)
  PROVE  MigrationInv'
  <1> USE DEF EnsureMigrationTable, bounds, Goto
  <1>1. MigrationTypeOK
    BY DEF MigrationInv
  <1>2. MigrationTypeOK' /\ Recorded' = Recorded /\ Present' = Present
    BY <1>1 DEF MigrationTypeOK, Recorded, Present
  <1>3. DbStep
    BY QuietDb
  <1>4. \A q \in Runners : q # r => Untouched(q)
    BY <1>1 DEF Untouched, MigrationTypeOK
  <1>5. pc[r] = "table" /\ pc'[r] = "record" /\ table'
    BY <1>1 DEF MigrationTypeOK
  <1>6. KnownOf(r)'
    BY <1>1, <1>2, <1>5 DEF MigrationInv, KnownOf
  <1>7. AdoptingOf(r)'
    BY <1>2, <1>5 DEF MigrationInv, AdoptingOf, Adopting
  <1>8. ReadingOf(r)' /\ MigratingOf(r)'
    BY <1>5 DEF ReadingOf, MigratingOf, Reading, Migrating
  <1>9. Partial = {}
    BY <1>5 DEF MigrationInv, PartialStops
  <1> QED
    BY <1>2, <1>3, <1>4, <1>5, <1>6, <1>7, <1>8, <1>9, StepKeeps

LEMMA MigrationStateIs ==
  ASSUME NEW C, NEW m
  PROVE  /\ MigrationState(C, m) = "present" => \A k \in Kinds : <<m, k>> \in C
         /\ MigrationState(C, m) = "absent" <=> \A k \in Kinds : <<m, k>> \notin C
         /\ MigrationState(C, m) \in {"present", "absent", "partial"}
         /\ (\A k \in Kinds : <<m, k>> \in C) => MigrationState(C, m) = "present"
  BY ObjectsOf DEF MigrationState

LEMMA PlanInv ==
  ASSUME MigrationInv, NEW r \in Runners, Plan(r)
  PROVE  MigrationInv'
  <1> DEFINE state(m) == MigrationState(seen[r], m)
             present == {m \in Known : state(m) = "present"}
             absent == {m \in Known : state(m) = "absent"}
             found == present \cup (recorded[r] \cap Known)
             toAdopt == present \ recorded[r]
             toApply == {m \in absent : \E n \in found : m < n}
             bad == \E m \in Known : state(m) = "partial" \/ (m \in recorded[r] /\ state(m) # "present")
  <1>1. MigrationTypeOK
    BY DEF MigrationInv
  <1>p. /\ pc[r] = "plan"
        /\ IF bad
             THEN pc' = [pc EXCEPT ![r] = "failed"] /\ UNCHANGED <<adopt, missing>>
             ELSE /\ pc' = [pc EXCEPT ![r] = IF toAdopt \cup toApply = {} THEN "drizzle" ELSE "table"]
                  /\ adopt' = [adopt EXCEPT ![r] = toAdopt]
                  /\ missing' = [missing EXCEPT ![r] = toApply]
        /\ UNCHANGED <<catalog, table, journal, recorded, read, seen, last, crashes, retries>>
    BY DEF Plan, Goto, MissingHistorical, dbVars, bounds
  <1>q. toAdopt \subseteq Known /\ toApply \subseteq Known
    OBVIOUS
  <1>h. /\ \A n \in Present : n \in Known => \A k \in Kinds : <<n, k>> \in catalog
        /\ \A n \in Present : K <= n => RecordedUpTo(n)
        /\ KnownOf(r) /\ ReadingOf(r)
        /\ read[r] = Kinds
    <2>1. ASSUME NEW n \in Present
          PROVE  \A k \in Kinds : <<n, k>> \in catalog
      BY ObjectsOf DEF Present
    <2> QED
      BY <1>p, <2>1, ObjectsOf DEF MigrationInv, HistoryInOrder, KnownOf, Present
  <1> HIDE DEF toAdopt, toApply, bad
  <1>2. MigrationTypeOK' /\ Recorded' = Recorded /\ Present' = Present
    BY <1>1, <1>p, <1>q DEF MigrationTypeOK, Recorded, Present
  <1>3. DbStep
    BY <1>p, QuietDb
  <1>4. \A q \in Runners : q # r => Untouched(q)
    BY <1>1, <1>p DEF Untouched, MigrationTypeOK
  <1>5. pc'[r] \in {"failed", "drizzle", "table"} /\ (bad => pc'[r] = "failed")
    BY <1>1, <1>p DEF MigrationTypeOK
  <1>6. KnownOf(r)'
    BY <1>1, <1>2, <1>5, <1>p DEF MigrationInv, KnownOf
  <1>7. ReadingOf(r)'
    BY <1>5 DEF ReadingOf, Reading
  <1>8. Partial # {} => bad
    <2>1. SUFFICES ASSUME NEW m \in Known, Objects(m) \cap catalog # {}, m \notin Present
                   PROVE  state(m) = "partial"
      BY DEF Partial, bad
    <2>2. m \in Partial /\ m \in Migrations
      BY <2>1, MembersOfMigrations DEF Partial
    <2>3. seen[r] = {o \in catalog : o[2] \in Kinds}
      BY <1>h, <2>2 DEF MigrationInv, PartialStops
    <2>4. seen[r] = catalog
      BY <2>3, <1>1 DEF MigrationTypeOK
    <2> QED
      BY <2>1, <2>2, <2>4, ObjectsOf, MigrationStateIs DEF Present
  <1>9. ASSUME ~bad, NEW n \in Present
        PROVE  n \in Recorded \cup toAdopt
    <2>0. n \in Migrations
      BY DEF Present
    <2>1. CASE K <= n
      BY <1>h, <2>0, <2>1, MembersOfMigrations DEF RecordedUpTo
    <2>2. CASE n \in Known /\ state(n) = "present"
      BY <1>h, <2>2 DEF toAdopt, KnownOf
    <2>3. CASE n \in Known /\ state(n) = "absent"
      <3>1. PICK k \in Kinds : TRUE
        OBVIOUS
      <3>2. <<n, k>> \notin seen[r] /\ <<n, k>> \in catalog
        BY <1>h, <2>3, <3>1, MigrationStateIs
      <3>3. <<n, k>>[1] = n /\ <<n, k>>[2] = k
        OBVIOUS
      <3>4. \A o \in catalog : (o[2] \in read[r] /\ o \notin seen[r]) => o[1] \in Recorded
        BY <1>h DEF KnownOf
      <3> QED
        BY <3>1, <3>2, <3>3, <3>4, <1>h
    <2> QED
      BY <1>9, <2>0, <2>1, <2>2, <2>3, MigrationStateIs, MembersOfMigrations DEF bad
  <1>10. ASSUME ~bad, NEW n \in Present, NEW m \in Migrations, m < n
         PROVE  m \in Recorded \cup toAdopt \cup toApply
    <2>0. n \in Migrations
      BY DEF Present
    <2>1. CASE RecordedUpTo(n)
      BY <1>10, <2>0, <2>1, MembersOfMigrations DEF RecordedUpTo
    <2>2. CASE m \in Present
      BY <1>9, <1>10, <2>2
    <2>3. ASSUME NEW h \in Known, n <= h, h \in Present, SeenSoFar(r, h), m \notin Present
          PROVE  m \in toAdopt \cup toApply
      <3>1. state(h) = "present"
        BY <1>h, <2>3, MigrationStateIs DEF SeenSoFar
      <3>2. m < h /\ m \in Known
        BY <1>10, <2>0, <2>3, MembersOfMigrations DEF Known, Migrations
      <3>3. state(m) # "present"
        BY <1>h, <2>3, <3>2, MigrationStateIs, ObjectsOf DEF KnownOf, Present
      <3>4. state(m) = "absent"
        BY <1>10, <3>2, <3>3, MigrationStateIs DEF bad
      <3> QED
        BY <2>3, <3>1, <3>2, <3>4 DEF toApply
    <2> QED
      BY <1>h, <1>p, <2>1, <2>2, <2>3 DEF ReadingOf, Reading
  <1>11. AdoptingOf(r)'
    <2>1. SUFFICES ASSUME pc'[r] = "table" PROVE AdoptingOf(r)'
      BY <1>5 DEF AdoptingOf, Adopting
    <2>2. ~bad /\ adopt'[r] = toAdopt /\ missing'[r] = toApply
      BY <1>1, <1>5, <1>p, <2>1 DEF MigrationTypeOK
    <2>3. toAdopt \subseteq Present
      BY <1>h, MigrationStateIs, ObjectsOf, MembersOfMigrations DEF toAdopt, KnownOf, Present
    <2>4. ASSUME NEW m \in toApply PROVE \E n \in Present : m < n
      <3>1. PICK n \in found : m < n
        BY DEF toApply
      <3>2. n \in Present
        BY <1>h, MigrationStateIs, ObjectsOf, MembersOfMigrations DEF KnownOf, Present, MigrationInv, HistoryInOrder
      <3> QED
        BY <3>1, <3>2
    <2> QED
      BY <1>2, <1>9, <1>10, <2>1, <2>2, <2>3, <2>4 DEF AdoptingOf, Adopting, Migrations
  <1>12. MigratingOf(r)'
    <2>1. SUFFICES ASSUME pc'[r] = "drizzle" PROVE MigratingOf(r)'
      BY <1>5 DEF MigratingOf, Migrating
    <2>2. ~bad /\ toAdopt = {} /\ toApply = {}
      BY <1>1, <1>5, <1>p, <2>1 DEF MigrationTypeOK
    <2>3. \A n \in Present : RecordedUpTo(n)
      <3>1. SUFFICES ASSUME NEW n \in Present, NEW m \in Migrations, m <= n PROVE m \in Recorded
        BY DEF RecordedUpTo
      <3>2. n \in Migrations
        BY DEF Present
      <3>3. m = n \/ m < n
        BY <3>1, <3>2, MembersOfMigrations
      <3> QED
        BY <1>9, <1>10, <2>2, <3>3, <3>1
    <2> QED
      BY <1>2, <2>1, <2>3 DEF MigratingOf, RecordedUpTo, Migrations
  <1> QED
    BY <1>2, <1>3, <1>4, <1>5, <1>6, <1>7, <1>8, <1>11, <1>12, <1>h, <1>p, StepKeeps
      DEF MigrationInv, PartialStops

\* A migration is added to the journal: it stays a journal, and grows.
LEMMA RecordsGrow ==
  ASSUME MigrationTypeOK, NEW S, journal' = [m \in Migrations |-> journal[m] + IF m \in S THEN 1 ELSE 0]
  PROVE  journal' \in [Migrations -> Nat] /\ Recorded' = Recorded \cup (S \cap Migrations)
  <1>1. \A m \in Migrations : journal[m] \in Nat
    BY DEF MigrationTypeOK
  <1>2. \A m \in Migrations : journal'[m] = journal[m] + IF m \in S THEN 1 ELSE 0
    OBVIOUS
  <1>3. \A m \in Migrations : journal'[m] > 0 <=> (journal[m] > 0 \/ m \in S)
    BY <1>1, <1>2
  <1> QED
    BY <1>1, <1>3 DEF Recorded, Migrations

LEMMA OneRecordGrows ==
  ASSUME MigrationTypeOK, NEW m \in Migrations, journal' = [journal EXCEPT ![m] = @ + 1]
  PROVE  journal' \in [Migrations -> Nat] /\ Recorded' = Recorded \cup {m}
  <1>1. \A n \in Migrations : journal[n] \in Nat
    BY DEF MigrationTypeOK
  <1>2. \A n \in Migrations : journal'[n] = journal[n] + IF n \in {m} THEN 1 ELSE 0
    BY <1>1 DEF MigrationTypeOK
  <1>3. journal' = [n \in Migrations |-> journal[n] + IF n \in {m} THEN 1 ELSE 0]
    BY <1>2 DEF MigrationTypeOK
  <1> QED
    BY <1>3, RecordsGrow

LEMMA RecordMigrationInv ==
  ASSUME MigrationInv, NEW r \in Runners, RecordMigration(r)
  PROVE  MigrationInv'
  <1>1. MigrationTypeOK
    BY DEF MigrationInv
  <1>p. /\ pc[r] = "record"
        /\ UNCHANGED <<catalog, table, recorded, read, seen, missing, last, crashes, retries>>
    BY DEF RecordMigration, bounds
  <1>h. AdoptingOf(r) /\ table /\ Partial = {} /\ Present' = Present /\ Partial' = Partial
    BY <1>p DEF MigrationInv, AdoptingOf, Adopting, PartialStops, Present, Partial
  <1>a. ASSUME NEW m \in adopt[r],
               journal' = [journal EXCEPT ![m] = @ + 1],
               adopt' = [adopt EXCEPT ![r] = @ \ {m}], UNCHANGED pc
        PROVE  MigrationInv'
    <2>0. m \in Present /\ m \in Migrations
      BY <1>h, <1>p DEF AdoptingOf, Adopting, Present
    <2>1. journal' \in [Migrations -> Nat] /\ Recorded' = Recorded \cup {m}
      BY <1>1, <1>a, <2>0, OneRecordGrows
    <2>2. MigrationTypeOK'
      BY <1>1, <1>a, <1>p, <1>h, <2>1 DEF MigrationTypeOK
    <2>3. DbStep
      BY <1>p, <1>h, <2>0, <2>1 DEF DbStep, MigrationInv, HistoryInOrder
    <2>4. \A q \in Runners : q # r => Untouched(q)
      BY <1>1, <1>p, <1>a DEF Untouched, MigrationTypeOK
    <2>5. pc'[r] = "record" /\ adopt'[r] = adopt[r] \ {m} /\ missing'[r] = missing[r]
      BY <1>1, <1>p, <1>a DEF MigrationTypeOK
    <2>6. KnownOf(r)'
      BY <1>p, <2>1, <2>5 DEF MigrationInv, KnownOf
    <2>7. ReadingOf(r)' /\ MigratingOf(r)'
      BY <2>5 DEF ReadingOf, Reading, MigratingOf, Migrating
    <2>8. AdoptingOf(r)'
      BY <1>h, <1>p, <2>1, <2>5 DEF AdoptingOf, Adopting, Migrations
    <2> QED
      BY <1>h, <2>2, <2>3, <2>4, <2>5, <2>6, <2>7, <2>8, StepKeeps
  <1>b. ASSUME adopt[r] = {}, pc' = [pc EXCEPT ![r] = "apply"], UNCHANGED <<journal, adopt>>
        PROVE  MigrationInv'
    <2>1. Recorded' = Recorded
      BY <1>b DEF Recorded
    <2>2. MigrationTypeOK'
      BY <1>1, <1>b, <1>p, <2>1 DEF MigrationTypeOK
    <2>3. DbStep
      BY <1>p, <1>b, QuietDb
    <2>4. \A q \in Runners : q # r => Untouched(q)
      BY <1>1, <1>p, <1>b DEF Untouched, MigrationTypeOK
    <2>5. pc'[r] = "apply"
      BY <1>1, <1>b DEF MigrationTypeOK
    <2>6. KnownOf(r)'
      BY <1>p, <2>1, <2>5 DEF MigrationInv, KnownOf
    <2>7. ReadingOf(r)' /\ MigratingOf(r)'
      BY <2>5 DEF ReadingOf, Reading, MigratingOf, Migrating
    <2>8. AdoptingOf(r)'
      BY <1>h, <1>p, <1>b, <2>1, <2>5 DEF AdoptingOf, Adopting, Migrations
    <2> QED
      BY <1>h, <2>2, <2>3, <2>4, <2>5, <2>6, <2>7, <2>8, StepKeeps
  <1> QED
    BY <1>a, <1>b DEF RecordMigration, Goto

\* An applied set of absent migrations is present afterwards, and nothing else.
LEMMA AppliedIsPresent ==
  ASSUME MigrationTypeOK, NEW S \in SUBSET Migrations, Partial = {},
         \A m \in S : Objects(m) \cap catalog = {},
         catalog' = catalog \cup (S \X Kinds)
  PROVE  /\ Present' = Present \cup S /\ Partial' = {}
         /\ catalog' \subseteq Migrations \X Kinds
         /\ \A o \in catalog' \ catalog : o[1] \in S
  <1>1. \A m, k : <<m, k>> \in catalog' <=> (<<m, k>> \in catalog \/ (m \in S /\ k \in Kinds))
    OBVIOUS
  <1>2. \A m \in Migrations : m \in Present' <=> (m \in Present \/ m \in S)
    <2>1. SUFFICES ASSUME NEW m \in Migrations
                   PROVE  (\A k \in Kinds : <<m, k>> \in catalog') <=> ((\A k \in Kinds : <<m, k>> \in catalog) \/ m \in S)
      BY ObjectsOf DEF Present, Migrations
    <2> QED
      BY <1>1
  <1>3. Present' = Present \cup S
    BY <1>2 DEF Present, Migrations
  <1>4. ASSUME NEW m \in Known, Objects(m) \cap catalog' # {}, m \notin Present'
        PROVE  FALSE
    <2>1. PICK k \in Kinds : <<m, k>> \in catalog'
      BY <1>4 DEF Objects
    <2>2. <<m, k>> \in catalog /\ m \notin Present
      BY <1>1, <1>3, <1>4, <2>1
    <2> QED
      BY <2>2, ObjectsOf DEF Partial
  <1> QED
    BY <1>3, <1>4 DEF Partial, Known, MigrationTypeOK

LEMMA ApplyHistoricalInv ==
  ASSUME MigrationInv, NEW r \in Runners, ApplyHistoricalMigration(r)
  PROVE  MigrationInv'
  <1>1. MigrationTypeOK
    BY DEF MigrationInv
  <1>p. /\ pc[r] = "apply"
        /\ UNCHANGED <<table, recorded, read, seen, adopt, last, crashes, retries>>
    BY DEF ApplyHistoricalMigration, bounds
  <1>h. AdoptingOf(r) /\ table /\ Partial = {} /\ adopt[r] = {}
    BY <1>p DEF MigrationInv, AdoptingOf, Adopting, PartialStops
  <1>a. ASSUME NEW m \in missing[r],
               Objects(m) \cap catalog = {}, catalog' = catalog \cup Objects(m),
               journal' = [journal EXCEPT ![m] = @ + 1],
               missing' = [missing EXCEPT ![r] = @ \ {m}], UNCHANGED pc
        PROVE  MigrationInv'
    <2>m. m \in Migrations
      BY <1>1, MembersOfMigrations DEF MigrationTypeOK
    <2>0. PICK p \in Present : m < p
      BY <1>1, <1>h, <1>p, MembersOfMigrations DEF AdoptingOf, Adopting, MigrationTypeOK
    <2>1. journal' \in [Migrations -> Nat] /\ Recorded' = Recorded \cup {m}
      BY <1>1, <1>a, <2>m, OneRecordGrows
    <2>2. /\ Present' = Present \cup {m} /\ Partial' = {}
          /\ catalog' \subseteq Migrations \X Kinds
          /\ \A o \in catalog' \ catalog : o[1] \in {m}
      <3>1. catalog' = catalog \cup ({m} \X Kinds) /\ \A n \in {m} : Objects(n) \cap catalog = {}
        BY <1>a DEF Objects
      <3>2. {m} \in SUBSET Migrations
        BY <2>m
      <3> QED
        BY <1>1, <1>h, <3>1, <3>2, AppliedIsPresent
    <2>3. MigrationTypeOK'
      BY <1>1, <1>a, <1>p, <1>h, <2>1, <2>2 DEF MigrationTypeOK
    <2>4. DbStep
      BY <1>a, <1>p, <1>h, <2>0, <2>1, <2>2 DEF DbStep, MigrationInv, HistoryInOrder
    <2>5. \A q \in Runners : q # r => Untouched(q)
      BY <1>1, <1>p, <1>a DEF Untouched, MigrationTypeOK
    <2>6. pc'[r] = "apply" /\ adopt'[r] = adopt[r] /\ missing'[r] = missing[r] \ {m}
      BY <1>1, <1>p, <1>a DEF MigrationTypeOK
    <2>7. KnownOf(r)'
      BY <1>a, <1>p, <2>1, <2>2, <2>6 DEF MigrationInv, KnownOf
    <2>8. ReadingOf(r)' /\ MigratingOf(r)'
      BY <2>6 DEF ReadingOf, Reading, MigratingOf, Migrating
    <2>9. AdoptingOf(r)'
      <3>1. \A n \in Present' : n \in Recorded'
        BY <1>h, <1>p, <2>1, <2>2 DEF AdoptingOf, Adopting
      <3>2. ASSUME NEW n \in Present', NEW j \in Migrations, j < n
            PROVE  j \in Recorded' \cup missing'[r]
        <4>1. \E q \in Present : j < q
          <5>1. CASE n = m
            BY <2>m, <2>0, <3>2, <5>1, MembersOfMigrations DEF Present
          <5> QED
            BY <2>2, <3>2, <5>1
        <4> QED
          BY <1>h, <1>p, <2>1, <2>6, <4>1 DEF AdoptingOf, Adopting
      <3>3. \A j \in missing'[r] : \E n \in Present' : j < n
        BY <1>h, <1>p, <2>2, <2>6 DEF AdoptingOf, Adopting
      <3> QED
        BY <1>h, <1>p, <2>6, <3>1, <3>2, <3>3 DEF AdoptingOf, Adopting, Migrations
    <2> QED
      BY <1>h, <2>3, <2>4, <2>5, <2>6, <2>7, <2>8, <2>9, StepKeeps
  <1>b. ASSUME NEW l \in {"failed", "drizzle"}, l = "drizzle" => missing[r] = {},
               pc' = [pc EXCEPT ![r] = l], UNCHANGED <<catalog, journal, missing>>
        PROVE  MigrationInv'
    <2>1. Recorded' = Recorded /\ Present' = Present
      BY <1>b DEF Recorded, Present
    <2>2. MigrationTypeOK'
      BY <1>1, <1>b, <1>p, <2>1 DEF MigrationTypeOK
    <2>3. DbStep
      BY <1>p, <1>b, QuietDb
    <2>4. \A q \in Runners : q # r => Untouched(q)
      BY <1>1, <1>p, <1>b DEF Untouched, MigrationTypeOK
    <2>5. pc'[r] = l
      BY <1>1, <1>b DEF MigrationTypeOK
    <2>6. KnownOf(r)'
      BY <1>p, <1>b, <2>1, <2>5 DEF MigrationInv, KnownOf
    <2>7. ReadingOf(r)' /\ AdoptingOf(r)'
      BY <2>5, <1>b DEF ReadingOf, Reading, AdoptingOf, Adopting
    <2>8. MigratingOf(r)'
      <3>1. SUFFICES ASSUME l = "drizzle", NEW n \in Present, NEW m \in Migrations, m <= n
                     PROVE  m \in Recorded
        BY <1>b, <2>1, <2>5 DEF MigratingOf, Migrating, RecordedUpTo, Migrations
      <3>2. m = n \/ m < n
        BY <3>1, MembersOfMigrations DEF Present
      <3> QED
        BY <1>h, <1>p, <1>b, <3>1, <3>2 DEF AdoptingOf, Adopting
    <2> QED
      BY <1>h, <1>b, <2>2, <2>3, <2>4, <2>5, <2>6, <2>7, <2>8, StepKeeps
  <1> QED
    BY <1>a, <1>b DEF ApplyHistoricalMigration, Goto

LEMMA DrizzleReadInv ==
  ASSUME MigrationInv, NEW r \in Runners, DrizzleRead(r)
  PROVE  MigrationInv'
  <1>1. MigrationTypeOK
    BY DEF MigrationInv
  <1>p. PICK l \in 0..N :
          /\ pc[r] = "drizzle" /\ table' = TRUE
          /\ \A m \in Recorded : m < l
          /\ l > 0 => l - 1 \in Recorded
          /\ last' = [last EXCEPT ![r] = l]
          /\ pc' = [pc EXCEPT ![r] = "drizzle_apply"]
          /\ UNCHANGED <<catalog, journal, recorded, read, seen, adopt, missing, crashes, retries>>
    BY DEF DrizzleRead, Goto, bounds
  <1>2. MigrationTypeOK' /\ Recorded' = Recorded /\ Present' = Present
    BY <1>1, <1>p DEF MigrationTypeOK, Recorded, Present
  <1>3. DbStep
    BY <1>p, QuietDb
  <1>4. \A q \in Runners : q # r => Untouched(q)
    BY <1>1, <1>p DEF Untouched, MigrationTypeOK
  <1>5. pc'[r] = "drizzle_apply" /\ table' /\ last'[r] = l
    BY <1>1, <1>p DEF MigrationTypeOK
  <1>6. KnownOf(r)'
    BY <1>p, <1>2, <1>5 DEF MigrationInv, KnownOf
  <1>7. ReadingOf(r)' /\ AdoptingOf(r)'
    BY <1>5 DEF ReadingOf, Reading, AdoptingOf, Adopting
  <1>8. MigratingOf(r)'
    <2>1. \A n \in Present : RecordedUpTo(n)
      BY <1>p DEF MigrationInv, MigratingOf, Migrating
    <2>2. ASSUME NEW m \in Migrations, m < l PROVE m \in Recorded
      <3>1. l \in Nat /\ m \in Nat
        BY MembersOfMigrations
      <3>2. l - 1 \in Recorded /\ m <= l - 1
        BY <1>p, <2>2, <3>1
      <3> QED
        BY <2>1, <3>2 DEF MigrationInv, HistoryInOrder, RecordedUpTo
    <2> QED
      BY <1>2, <1>5, <2>1, <2>2 DEF MigratingOf, Migrating, RecordedUpTo, Migrations
  <1>9. Partial = {}
    BY <1>p DEF MigrationInv, PartialStops
  <1> QED
    BY <1>2, <1>3, <1>4, <1>5, <1>6, <1>7, <1>8, <1>9, StepKeeps

LEMMA DrizzleApplyInv ==
  ASSUME MigrationInv, NEW r \in Runners, DrizzleApply(r)
  PROVE  MigrationInv'
  <1> DEFINE pending == last[r]..(N - 1)
  <1>1. MigrationTypeOK
    BY DEF MigrationInv
  <1>p. /\ pc[r] = "drizzle_apply"
        /\ IF \E m \in pending : Objects(m) \cap catalog # {}
             THEN pc' = [pc EXCEPT ![r] = "failed"] /\ UNCHANGED <<catalog, journal>>
             ELSE /\ catalog' = catalog \cup (pending \X Kinds)
                  /\ journal' = [m \in Migrations |-> journal[m] + IF m \in pending THEN 1 ELSE 0]
                  /\ pc' = [pc EXCEPT ![r] = "done"]
        /\ UNCHANGED <<table, recorded, read, seen, adopt, missing, last, crashes, retries>>
    BY DEF DrizzleApply, Goto, bounds
  <1>h. MigratingOf(r) /\ table /\ Partial = {}
    BY <1>p DEF MigrationInv, MigratingOf, Migrating, PartialStops
  <1>4. \A q \in Runners : q # r => Untouched(q)
    BY <1>1, <1>p DEF Untouched, MigrationTypeOK
  <1>q. /\ pending \subseteq Migrations
        /\ \A m \in Migrations : m \in pending \/ m \in Recorded
    BY <1>1, <1>h, <1>p DEF MigratingOf, Migrating, MigrationTypeOK, Migrations
  <1> HIDE DEF pending
  <1>a. CASE \E m \in pending : Objects(m) \cap catalog # {}
    <2>1. Recorded' = Recorded /\ Present' = Present
      BY <1>p, <1>a DEF Recorded, Present
    <2>2. MigrationTypeOK'
      BY <1>1, <1>a, <1>p, <2>1 DEF MigrationTypeOK
    <2>3. DbStep
      BY <1>p, <1>a, QuietDb
    <2>5. pc'[r] = "failed"
      BY <1>1, <1>p, <1>a DEF MigrationTypeOK
    <2>6. KnownOf(r)'
      BY <1>p, <1>a, <2>1, <2>5 DEF MigrationInv, KnownOf
    <2>7. ReadingOf(r)' /\ AdoptingOf(r)' /\ MigratingOf(r)'
      BY <2>5 DEF ReadingOf, Reading, AdoptingOf, Adopting, MigratingOf, Migrating
    <2> QED
      BY <1>h, <1>4, <2>2, <2>3, <2>5, <2>6, <2>7, StepKeeps
  <1>b. CASE ~ \E m \in pending : Objects(m) \cap catalog # {}
    <2>1. journal' \in [Migrations -> Nat] /\ Recorded' = Recorded \cup (pending \cap Migrations)
      BY <1>1, <1>p, <1>b, RecordsGrow
    <2>2. /\ Present' = Present \cup pending /\ Partial' = {}
          /\ catalog' \subseteq Migrations \X Kinds
          /\ \A o \in catalog' \ catalog : o[1] \in pending
      BY <1>1, <1>h, <1>p, <1>q, <1>b, AppliedIsPresent
    <2>3. Recorded' = Migrations /\ Present' = Migrations
      <3>1. Recorded \subseteq Present /\ Present \subseteq Migrations
        BY DEF MigrationInv, HistoryInOrder, Present
      <3> QED
        BY <1>q, <2>1, <2>2, <3>1
    <2>4. MigrationTypeOK'
      BY <1>1, <1>b, <1>p, <1>h, <2>1, <2>2 DEF MigrationTypeOK
    <2>5. \A n : RecordedUpTo(n)'
      BY <2>3 DEF RecordedUpTo, Migrations
    <2>6. DbStep
      <3>1. catalog \subseteq catalog' /\ Recorded \subseteq Recorded'
        BY <1>p, <1>b, <2>1
      <3>2. \A o \in catalog' \ catalog : o[1] \in Recorded'
        BY <1>q, <2>2, <2>3
      <3> QED
        BY <1>h, <1>p, <2>2, <2>3, <2>5, <3>1, <3>2 DEF DbStep
    <2>7. pc'[r] = "done"
      BY <1>1, <1>p, <1>b DEF MigrationTypeOK
    <2>8. KnownOf(r)'
      <3>1. recorded[r] \subseteq Recorded' /\ seen[r] \subseteq catalog'
        BY <2>6 DEF DbStep, MigrationInv, KnownOf
      <3>2. \A o \in catalog' : o[1] \in Recorded'
        BY <2>2, <2>3
      <3> QED
        BY <1>p, <2>7, <3>1, <3>2 DEF KnownOf
    <2>9. ReadingOf(r)' /\ AdoptingOf(r)' /\ MigratingOf(r)'
      BY <1>h, <1>p, <2>5, <2>7 DEF ReadingOf, Reading, AdoptingOf, Adopting, MigratingOf, Migrating
    <2> QED
      BY <1>h, <1>4, <2>3, <2>4, <2>6, <2>7, <2>8, <2>9, StepKeeps
  <1> QED
    BY <1>a, <1>b

LEMMA MigrationNextInv == MigrationInv /\ [MigrationNext]_migrationVars => MigrationInv'
  <1> SUFFICES ASSUME MigrationInv, [MigrationNext]_migrationVars PROVE MigrationInv'
    OBVIOUS
  <1>1. CASE UNCHANGED migrationVars
    <2> USE <1>1 DEF migrationVars
    <2>1. Recorded' = Recorded /\ Present' = Present /\ Partial' = Partial
      BY DEF Recorded, Present, Partial
    <2>2. MigrationTypeOK /\ MigrationTypeOK' /\ DbStep
      BY <2>1, QuietDb DEF MigrationInv, MigrationTypeOK
    <2>3. \A r \in Runners : KnownOf(r)' /\ ReadingOf(r)' /\ AdoptingOf(r)' /\ MigratingOf(r)'
      BY <2>2, DbKeepsInvocation DEF MigrationInv, Untouched
    <2>4. HistoryInOrder'
      BY <2>2, DbKeepsHistory DEF MigrationInv
    <2>5. PartialStops' /\ SuccessMeansMigrated'
      BY <2>1 DEF MigrationInv, PartialStops, SuccessMeansMigrated, Migrations
    <2> QED
      BY <2>2, <2>3, <2>4, <2>5 DEF MigrationInv
  <1>2. ASSUME NEW r \in Runners, Apply(r) \/ Crash(r) \/ Repeat(r) PROVE MigrationInv'
    BY <1>2, ReadJournalInv, ReadCatalogInv, PlanInv, EnsureTableInv, RecordMigrationInv, ApplyHistoricalInv,
         DrizzleReadInv, DrizzleApplyInv, StopInv DEF Apply
  <1> QED
    BY <1>1, <1>2 DEF MigrationNext

\* Journal, catalog and exit code agree (MigrationInvariant) for any journal file,
\* any number of invocations at once and any crash: adoptMigrationHistory records
\* only what exists and leaves no gap where drizzle-kit does not look.
THEOREM HistoryMatchesSchema == MigrationSpec => []MigrationInvariant
  <1>1. MigrationInv => MigrationInvariant
    BY DEF MigrationInv, MigrationInvariant, HistoryInOrder, RecordedIsPresent
  <1> QED
    BY <1>1, MigrationInitInv, MigrationNextInv, PTL DEF MigrationSpec

\* While the catalog holds a migration in part, no invocation changes the schema
\* or the journal (PartialIsUntouched; "incomplete fingerprints stop migration
\* rather than altering unknown database state").
THEOREM UnknownStateIsUntouched == MigrationSpec => PartialIsUntouched
  <1>1. MigrationInv /\ [MigrationNext]_migrationVars
          => [Partial # {} => UNCHANGED <<catalog, journal>>]_migrationVars
    <2>1. SUFFICES ASSUME MigrationInv, MigrationNext, Partial # {} PROVE UNCHANGED <<catalog, journal>>
      BY DEF migrationVars
    <2>2. PICK r \in Runners : Apply(r) \/ Crash(r) \/ Repeat(r)
      BY <2>1 DEF MigrationNext
    <2>3. pc[r] \in {"journal", "catalog", "plan", "failed", "crashed"}
      BY <2>1 DEF MigrationInv, PartialStops
    <2> QED
      BY <2>2, <2>3 DEF Apply, ReadJournal, ReadCatalog, Plan, EnsureMigrationTable, RecordMigration,
           ApplyHistoricalMigration, DrizzleRead, DrizzleApply, Crash, Repeat, dbVars
  <1> QED
    BY <1>1, MigrationInitInv, MigrationNextInv, PTL DEF MigrationSpec, PartialIsUntouched
=============================================================================
